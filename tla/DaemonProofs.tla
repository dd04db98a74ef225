---------------------------- MODULE DaemonProofs ----------------------------
(***************************************************************************)
(* The two parts of the daemon that the jobs stand on.  JobQueue, for      *)
(* every set of jobs, every runningJobsMax and every width of the counter: *)
(* the count is exact, no wake-up is lost, and the queue implements the    *)
(* executor.  RepoStore, for any set of layers and any faults that the     *)
(* theorems' assumptions do not rule out.                                  *)
(***************************************************************************)
EXTENDS JobQueue, RepoStore, SequenceTheorems, TLAPS

-----------------------------------------------------------------------------
(* JobQueue                                                                *)


(* The inductive invariant.  CountIsExact alone is not inductive: that the *)
(* decrement in runEnd does not wrap needs the types, and that a waiting   *)
(* job keeps a runner needs the exact count.                               *)
QueueInv == QueueTypeOK /\ CountIsExact /\ WaitingJobHasRunner

(* What runEnd leaves of the call stack: everything but the innermost job. *)
LEMMA ButLast ==
    ASSUME NEW S, NEW s \in Seq(S), s # <<>>
    PROVE  /\ SubSeq(s, 1, Len(s) - 1) \in Seq(S)
           /\ Len(SubSeq(s, 1, Len(s) - 1)) = Len(s) - 1
           /\ Len(s) \in Nat \ {0}
           /\ \A i \in 1 .. Len(s) - 1 : SubSeq(s, 1, Len(s) - 1)[i] = s[i]
  <1>1. Len(s) \in Nat \ {0}
    BY EmptySeq
  <1>2. \A i \in 1 .. (Len(s) - 1) : s[i] \in S
    BY <1>1, ElementOfSeq
  <1> DEFINE n == Len(s) - 1
  <1>3. n \in Nat /\ n \in Int /\ 1 \in Int
    BY <1>1
  <1> HIDE DEF n
  <1>4. /\ SubSeq(s, 1, n) \in Seq(S)
        /\ Len(SubSeq(s, 1, n)) = IF 1 <= n THEN n - 1 + 1 ELSE 0
        /\ \A i \in 1 .. n - 1 + 1 : SubSeq(s, 1, n)[i] = s[1 + i - 1]
    BY <1>2, <1>3, SubSeqProperties DEF n
  <1>5. \A i \in 1 .. n : SubSeq(s, 1, n)[i] = s[i]
    BY <1>3, <1>4
  <1>6. Len(SubSeq(s, 1, n)) = n
    <2>1. CASE n = 0
      BY <1>4, <2>1
    <2>2. CASE n >= 1
      BY <1>3, <1>4, <2>2
    <2> QED
      BY <1>3, <2>1, <2>2
  <1> QED
    BY <1>1, <1>4, <1>5, <1>6 DEF n

(* What runBegin takes off the list and what it leaves there. *)
LEMMA WithoutHead ==
    ASSUME NEW S, NEW s \in Seq(S), s # <<>>
    PROVE  /\ Head(s) \in S
           /\ Tail(s) \in Seq(S)
  OBVIOUS

(* runningJobsCount-- on the unsigned counter does not wrap while positive. *)
LEMMA Decrement ==
    ASSUME NEW n \in 1 .. runningJobsMax
    PROVE  (n + UINT - 1) % UINT = n - 1
  <1>1. n - 1 \in 0 .. (UINT - 1)
    BY MaxAssumption, UintAssumption
  <1>2. n + UINT - 1 = UINT + (n - 1)
    BY UintAssumption
  <1> QED
    BY <1>1, <1>2, UintAssumption

(* runningJobsCount++ on the unsigned counter does not wrap below the maximum. *)
LEMMA Increment ==
    ASSUME NEW n \in 0 .. runningJobsMax, n < runningJobsMax
    PROVE  (n + 1) % UINT = n + 1
  <1>1. n + 1 \in 0 .. (UINT - 1)
    BY MaxAssumption, UintAssumption
  <1> QED
    BY <1>1, UintAssumption

(* A new JobQueue satisfies the inductive invariant. *)
LEMMA QueueInitInv == QueueInit => QueueInv
  BY MaxAssumption DEF QueueInit, QueueInv, QueueTypeOK, CountIsExact, WaitingJobHasRunner

(* Every runTask and every step of run() preserves the inductive invariant. *)
LEMMA QueueNextInv == QueueInv /\ [QueueNext]_queueVars => QueueInv'
  <1> SUFFICES ASSUME QueueInv, [QueueNext]_queueVars
               PROVE  QueueInv'
    OBVIOUS
  <1> USE MaxAssumption, UintAssumption
  <1>1. ASSUME NEW j \in Jobs, runTask(j)
        PROVE  QueueInv'
    <2>1. taskList' \in Seq(Jobs) /\ submitted' \in Seq(Jobs)
      BY <1>1 DEF QueueInv, QueueTypeOK, runTask
    <2>2. CASE runningJobsCount < runningJobsMax
      <3>1. runningJobsCount' = runningJobsCount + 1
        BY <1>1, <2>2, Increment DEF QueueInv, QueueTypeOK, runTask
      <3> QED
        BY <1>1, <2>1, <2>2, <3>1
           DEF QueueInv, QueueTypeOK, CountIsExact, WaitingJobHasRunner, runTask
    <2>3. CASE ~(runningJobsCount < runningJobsMax)
      BY <1>1, <2>1, <2>3
         DEF QueueInv, QueueTypeOK, CountIsExact, WaitingJobHasRunner, runTask
    <2> QED
      BY <2>2, <2>3
  <1>2. CASE runBegin
    <2>1. Len(callStack') = Len(callStack) + 1
      BY <1>2, WithoutHead DEF QueueInv, QueueTypeOK, runBegin
    <2>2. callStack' \in Seq(Jobs) /\ taskList' \in Seq(Jobs)
      BY <1>2, WithoutHead DEF QueueInv, QueueTypeOK, runBegin
    <2> QED
      BY <1>2, <2>1, <2>2
         DEF QueueInv, QueueTypeOK, CountIsExact, WaitingJobHasRunner, runBegin
  <1>3. CASE runEmpty
    <2>1. runningJobsCount \in 1 .. runningJobsMax
      BY <1>3 DEF QueueInv, QueueTypeOK, CountIsExact, runEmpty
    <2>2. runningJobsCount' = runningJobsCount - 1
      BY <1>3, <2>1, Decrement DEF runEmpty
    <2> QED
      BY <1>3, <2>1, <2>2
         DEF QueueInv, QueueTypeOK, CountIsExact, WaitingJobHasRunner, runEmpty
  <1>4. CASE runEnd
    <2>1. /\ callStack' \in Seq(Jobs)
          /\ Len(callStack') = Len(callStack) - 1
          /\ Len(callStack) \in Nat \ {0}
      BY <1>4, ButLast DEF QueueInv, QueueTypeOK, runEnd
    <2>2. CASE taskList # <<>>
      BY <1>4, <2>1, <2>2
         DEF QueueInv, QueueTypeOK, CountIsExact, WaitingJobHasRunner, runEnd
    <2>3. CASE taskList = <<>>
      <3>1. runningJobsCount \in 1 .. runningJobsMax
        BY <2>1 DEF QueueInv, QueueTypeOK, CountIsExact
      <3>2. runningJobsCount' = runningJobsCount - 1
        BY <1>4, <2>3, <3>1, Decrement DEF runEnd
      <3> QED
        BY <1>4, <2>1, <2>3, <3>1, <3>2
           DEF QueueInv, QueueTypeOK, CountIsExact, WaitingJobHasRunner, runEnd
    <2> QED
      BY <2>2, <2>3
  <1>5. CASE UNCHANGED queueVars
    BY <1>5 DEF QueueInv, QueueTypeOK, CountIsExact, WaitingJobHasRunner, queueVars
  <1> QED
    BY <1>1, <1>2, <1>3, <1>4, <1>5 DEF QueueNext

(* The fields of JobQueue keep their types; runningJobsCount never wraps   *)
(* around and stays within runningJobsMax.                                 *)
THEOREM QueueTypeCorrect == QueueSafeSpec => []QueueTypeOK
  <1>1. QueueInv => QueueTypeOK
    BY DEF QueueInv
  <1> QED
    BY <1>1, QueueInitInv, QueueNextInv, PTL DEF QueueSafeSpec

(* The counter of JobQueue::run / runTask counts exactly the posted and    *)
(* the executing invocations, so at most runningJobsMax jobs execute.      *)
THEOREM CountExact == QueueSafeSpec => []CountIsExact
  <1>1. QueueInv => CountIsExact
    BY DEF QueueInv
  <1> QED
    BY <1>1, QueueInitInv, QueueNextInv, PTL DEF QueueSafeSpec

(* JobQueue never forgets a waiting job: a run() is posted or executing.   *)
THEOREM NoLostJob == QueueSafeSpec => []WaitingJobHasRunner
  <1>1. QueueInv => WaitingJobHasRunner
    BY DEF QueueInv
  <1> QED
    BY <1>1, QueueInitInv, QueueNextInv, PTL DEF QueueSafeSpec

(* Accepted requests stay in order, none is lost and none runs twice. *)
THEOREM Fifo == QueueSafeSpec => []AcceptedInOrder
  <1>1. QueueInit => AcceptedInOrder
    BY DEF QueueInit, AcceptedInOrder, Started
  <1>2. QueueInv /\ AcceptedInOrder /\ [QueueNext]_queueVars => AcceptedInOrder'
    <2> SUFFICES ASSUME QueueInv, AcceptedInOrder, [QueueNext]_queueVars
                 PROVE  AcceptedInOrder'
      OBVIOUS
    <2> USE DEF QueueInv, QueueTypeOK, AcceptedInOrder, Started
    <2>1. ASSUME NEW j \in Jobs, runTask(j)
          PROVE  AcceptedInOrder'
      <3>1. /\ Len(submitted') = Len(submitted) + 1
            /\ Len(taskList') = Len(taskList) + 1
            /\ \A i \in 1 .. Len(submitted) : submitted'[i] = submitted[i]
            /\ submitted'[Len(submitted) + 1] = j
            /\ \A i \in 1 .. Len(taskList) : taskList'[i] = taskList[i]
            /\ taskList'[Len(taskList) + 1] = j
        BY <2>1, AppendProperties DEF runTask
      <3>2. \A i \in 1 .. Len(submitted) : submitted[i] # j
        BY <2>1 DEF runTask, Elems
      <3>3. Len(submitted) \in Nat /\ Len(taskList) \in Nat
        OBVIOUS
      <3>4. Started' = Started
        BY <3>1, <3>3
      <3>5. ASSUME NEW i \in 1 .. Len(taskList')
            PROVE  taskList'[i] = submitted'[Started' + i]
        <4>1. CASE i = Len(taskList) + 1
          <5>1. Started + i = Len(submitted) + 1
            BY <3>3, <4>1
          <5> QED
            BY <3>1, <3>4, <4>1, <5>1
        <4>2. CASE i \in 1 .. Len(taskList)
          <5>1. Started + i \in 1 .. Len(submitted)
            BY <3>3, <4>2
          <5>2. submitted'[Started + i] = submitted[Started + i]
            BY <3>1, <5>1
          <5>3. taskList'[i] = taskList[i]
            BY <3>1, <4>2
          <5> QED
            BY <3>4, <4>2, <5>2, <5>3
        <4> QED
          BY <3>1, <3>3, <4>1, <4>2
      <3>6. callStack' = callStack
        BY <2>1 DEF runTask
      <3>7. ASSUME NEW i \in 1 .. Len(submitted'), NEW k \in 1 .. Len(submitted'),
                   submitted'[i] = submitted'[k]
            PROVE  i = k
        <4>1. \A n \in 1 .. Len(submitted') :
                 n \in 1 .. Len(submitted) \/ n = Len(submitted) + 1
          BY <3>1, <3>3
        <4>2. CASE i \in 1 .. Len(submitted) /\ k \in 1 .. Len(submitted)
          BY <3>1, <3>7, <4>2
        <4>3. CASE i = Len(submitted) + 1 /\ k \in 1 .. Len(submitted)
          BY <3>1, <3>2, <3>7, <4>3
        <4>4. CASE k = Len(submitted) + 1 /\ i \in 1 .. Len(submitted)
          BY <3>1, <3>2, <3>7, <4>4
        <4> QED
          BY <4>1, <4>2, <4>3, <4>4
      <3>8. ASSUME NEW i \in 1 .. Len(callStack')
            PROVE  \E k \in 1 .. Started' : callStack'[i] = submitted'[k]
        <4>1. i \in 1 .. Len(callStack)
          BY <3>6
        <4>2. PICK k \in 1 .. Started : callStack[i] = submitted[k]
          BY <4>1
        <4>3. k \in 1 .. Len(submitted)
          BY <3>3
        <4>4. submitted'[k] = submitted[k]
          BY <3>1, <4>3
        <4>5. k \in 1 .. Started'
          BY <3>4
        <4> QED
          BY <3>6, <4>2, <4>4, <4>5
      <3> QED
        BY <3>3, <3>4, <3>5, <3>7, <3>8
    <2>2. CASE runBegin
      <3>1. /\ Len(taskList') = Len(taskList) - 1
            /\ \A i \in 1 .. Len(taskList') : taskList'[i] = taskList[i + 1]
            /\ Len(taskList) \in Nat \ {0}
        BY <2>2, HeadTailProperties, EmptySeq DEF runBegin
      <3>2. /\ Len(callStack') = Len(callStack) + 1
            /\ \A i \in 1 .. Len(callStack) : callStack'[i] = callStack[i]
            /\ callStack'[Len(callStack) + 1] = taskList[1]
        BY <2>2, WithoutHead, AppendProperties DEF runBegin
      <3>3. submitted' = submitted /\ Len(submitted) \in Nat /\ Len(callStack) \in Nat
        BY <2>2 DEF runBegin
      <3>4. Started' = Started + 1 /\ Started \in Nat
        BY <3>1, <3>3
      <3>5. taskList[1] = submitted[Started + 1]
        BY <3>1
      <3>6. ASSUME NEW i \in 1 .. Len(taskList')
            PROVE  taskList'[i] = submitted'[Started' + i]
        <4>1. i + 1 \in 1 .. Len(taskList) /\ taskList'[i] = taskList[i + 1]
          BY <3>1
        <4>2. Started + (i + 1) = (Started + 1) + i
          BY <3>4
        <4>3. taskList[i + 1] = submitted[Started + (i + 1)]
          BY <4>1
        <4> QED
          BY <3>3, <3>4, <4>1, <4>2, <4>3
      <3>7. ASSUME NEW i \in 1 .. Len(callStack')
            PROVE  \E k \in 1 .. Started' : callStack'[i] = submitted'[k]
        <4>1. CASE i = Len(callStack) + 1
          <5>1. callStack'[i] = submitted'[Started + 1]
            BY <3>2, <3>3, <3>5, <4>1
          <5> QED
            BY <3>4, <5>1
        <4>2. CASE i \in 1 .. Len(callStack)
          <5>1. PICK k \in 1 .. Started : callStack[i] = submitted[k]
            BY <4>2
          <5>2. k \in 1 .. Started' /\ callStack'[i] = submitted'[k]
            BY <3>2, <3>3, <3>4, <4>2, <5>1
          <5> QED
            BY <5>2
        <4>3. i \in 1 .. Len(callStack) \/ i = Len(callStack) + 1
          <5> HIDE DEF QueueInv, QueueTypeOK, AcceptedInOrder, Started
          <5>1. i \in 1 .. (Len(callStack) + 1)
            BY <3>2
          <5> QED
            BY <3>3, <5>1
        <4> QED
          BY <4>1, <4>2, <4>3
      <3> QED
        BY <3>3, <3>4, <3>6, <3>7
    <2>3. CASE runEmpty
      BY <2>3 DEF runEmpty
    <2>4. CASE runEnd
      <3>1. /\ Len(callStack') = Len(callStack) - 1
            /\ Len(callStack) \in Nat \ {0}
            /\ \A i \in 1 .. Len(callStack') : callStack'[i] = callStack[i]
        BY <2>4, ButLast DEF runEnd
      <3>2. submitted' = submitted /\ taskList' = taskList /\ Started' = Started
        BY <2>4 DEF runEnd
      <3>3. \A i \in 1 .. Len(callStack') :
               \E k \in 1 .. Started' : callStack'[i] = submitted'[k]
        BY <3>1, <3>2
      <3> QED
        BY <3>2, <3>3
    <2>5. CASE UNCHANGED queueVars
      BY <2>5 DEF queueVars
    <2> QED
      BY <2>1, <2>2, <2>3, <2>4, <2>5 DEF QueueNext
  <1> QED
    BY <1>1, <1>2, QueueInitInv, QueueNextInv, PTL DEF QueueSafeSpec

(* Every step of JobQueue is a step of the executor or changes nothing the *)
(* executor sees.                                                          *)
THEOREM ImplementsExecutor == QueueSafeSpec => Executor!SafeSpec
  <1>1. QueueInit => Executor!Init
    BY DEF QueueInit, Executor!Init
  <1>2. QueueInv /\ [QueueNext]_queueVars => [Executor!Next]_(Executor!vars)
    <2> SUFFICES ASSUME QueueInv, [QueueNext]_queueVars
                 PROVE  [Executor!Next]_(Executor!vars)
      OBVIOUS
    <2>1. ASSUME NEW j \in Jobs, runTask(j)
          PROVE  Executor!Accept(j)
      BY <2>1 DEF runTask, Executor!Accept, Elems, Executor!Elems
    <2>2. CASE runBegin
      <3>1. Len(callStack) < runningJobsMax
        BY <2>2, MaxAssumption DEF QueueInv, QueueTypeOK, CountIsExact, runBegin
      <3> QED
        BY <2>2, <3>1 DEF runBegin, Executor!Start, Executor!Next
    <2>3. CASE runEmpty
      BY <2>3 DEF runEmpty, Executor!vars
    <2>4. CASE runEnd
      BY <2>4 DEF runEnd, Executor!Finish, Executor!Next
    <2>5. CASE UNCHANGED queueVars
      BY <2>5 DEF queueVars, Executor!vars
    <2> QED
      BY <2>1, <2>2, <2>3, <2>4, <2>5 DEF QueueNext, Executor!Next
  <1> QED
    BY <1>1, <1>2, QueueInitInv, QueueNextInv, PTL DEF QueueSafeSpec, Executor!SafeSpec

-----------------------------------------------------------------------------
(* RepoStore                                                               *)


(* Every step keeps the types, and the stages of the operation in progress. *)
LEMMA TypeStep == TypeOK /\ [Next]_vars => TypeOK'
<1> SUFFICES ASSUME TypeOK, [Next]_vars PROVE TypeOK'
  OBVIOUS
<1> USE DEF TypeOK, Op, NoOp, Stages, Status, NoLayers, Meet
<1>1. ASSUME NEW l \in Layers, pull(l) \/ importLayerDir(l) PROVE TypeOK'
  BY <1>1 DEF pull, importLayerDir, Idle
<1>2. ASSUME NEW l \in Layers, ensureEmptyLayerDir(l) PROVE TypeOK'
  <2>1. CASE dirs[l] = "none"
    <3>1. op' = Op("checkout", l) /\ dirs' = [dirs EXCEPT ![l] = "partial"] /\ l \in refs
      BY <1>2, <2>1 DEF ensureEmptyLayerDir, At
    <3> QED
      BY <1>2, <3>1 DEF ensureEmptyLayerDir
  <2>2. CASE dirs[l] # "none"
    BY <1>2, <2>2 DEF ensureEmptyLayerDir
  <2> QED
    BY <2>1, <2>2
<1>3. ASSUME NEW l \in Layers, checkout(l) PROVE TypeOK'
  <2>1. CASE op' = Op("add", l) /\ dirs' = [dirs EXCEPT ![l] = "full"]
    <3>1. l \in refs /\ \A k \in Layers : k \in op'.layer => k = l
      BY <1>3, <2>1 DEF checkout, At
    <3> QED
      BY <1>3, <2>1, <3>1 DEF checkout
  <2>2. CASE op' = NoOp /\ dirs' = dirs
    BY <1>3, <2>2 DEF checkout
  <2> QED
    BY <1>3, <2>1, <2>2 DEF checkout
<1>4. ASSUME NEW l \in Layers, addLayerItem(l) PROVE TypeOK'
  BY <1>4 DEF addLayerItem, At, Written, NotWritten
<1>5. ASSUME NEW l \in Layers, removeOstreeRef(l) PROVE TypeOK'
  BY <1>5 DEF removeOstreeRef, Idle
<1>6. ASSUME NEW l \in Layers, deleteLayerItem(l) PROVE TypeOK'
  <2>1. CASE op' = Op("rmdir", l) /\ Written
    BY <1>6, <2>1 DEF deleteLayerItem, Written
  <2>2. CASE op' = NoOp /\ disk' = disk
    BY <1>6, <2>2 DEF deleteLayerItem, Written, NotWritten
  <2> QED
    BY <1>6, <2>1, <2>2 DEF deleteLayerItem, Written, NotWritten
<1>7. ASSUME NEW l \in Layers, removeLayerDir(l) PROVE TypeOK'
  BY <1>7 DEF removeLayerDir, At
<1>8. ASSUME NEW l \in Layers, NEW d \in BOOLEAN, markDeleted(l, d) PROVE TypeOK'
  BY <1>8 DEF markDeleted, Idle, Written
<1>9. CASE updateMergedItems
  BY <1>9 DEF updateMergedItems, Idle, Written
<1>10. CASE Crash
  BY <1>10 DEF Crash
<1>11. CASE create
  BY <1>11 DEF create, rebuildCache, Written
<1>12. CASE UNCHANGED vars
  BY <1>12 DEF vars
<1> QED
  BY <1>1, <1>2, <1>3, <1>4, <1>5, <1>6, <1>7, <1>8, <1>9, <1>10, <1>11, <1>12 DEF Next

(* The types hold throughout, whatever goes wrong. *)
THEOREM TypeCorrect == Spec => []TypeOK
<1>1. Init => TypeOK
  BY DEF Init, TypeOK, NoOp, NoLayers, Status, Op
<1> QED
  BY <1>1, TypeStep, PTL DEF Spec

-----------------------------------------------------------------------------
(* What is listed is complete                                              *)

(* What has happened is not forgotten. *)
LEMMA MetGrows ==
    ASSUME [Next]_vars
    PROVE  met \subseteq met'
<1> USE DEF Meet
<1>1. ASSUME NEW l \in Layers,
             \/ pull(l) \/ importLayerDir(l) \/ ensureEmptyLayerDir(l) \/ checkout(l)
             \/ removeOstreeRef(l) \/ removeLayerDir(l)
      PROVE  met \subseteq met'
  BY <1>1 DEF pull, importLayerDir, ensureEmptyLayerDir, checkout, removeOstreeRef, removeLayerDir
<1>2. ASSUME NEW l \in Layers, addLayerItem(l)
      PROVE  met \subseteq met'
  BY <1>2 DEF addLayerItem, Written, NotWritten
<1>3. ASSUME NEW l \in Layers, deleteLayerItem(l)
      PROVE  met \subseteq met'
  BY <1>3 DEF deleteLayerItem, Written, NotWritten
<1>4. ASSUME NEW l \in Layers, NEW d \in BOOLEAN, markDeleted(l, d)
      PROVE  met \subseteq met'
  BY <1>4 DEF markDeleted, Written
<1>5. CASE updateMergedItems
  BY <1>5 DEF updateMergedItems, Written
<1>6. CASE Crash
  BY <1>6 DEF Crash
<1>7. CASE create
  BY <1>7 DEF create
<1>8. CASE UNCHANGED vars
  BY <1>8 DEF vars
<1> QED
  BY <1>1, <1>2, <1>3, <1>4, <1>5, <1>6, <1>7, <1>8 DEF Next

(* Every step but a rebuild keeps the strengthened invariant. *)
LEMMA CompleteStep ==
    ASSUME TypeOK, CompleteInv, [Next]_vars
    PROVE  CompleteInv'
<1> SUFFICES ASSUME "rebuild" \notin met' PROVE CompletePlaces'
  BY DEF CompleteInv
<1>0. CompletePlaces
  BY MetGrows DEF CompleteInv
<1> USE <1>0 DEF TypeOK, CompletePlaces
<1>1. ASSUME NEW l \in Layers, pull(l) \/ importLayerDir(l) PROVE CompletePlaces'
  BY <1>1 DEF pull, importLayerDir, Op
<1>2. ASSUME NEW l \in Layers, ensureEmptyLayerDir(l) PROVE CompletePlaces'
  <2>1. CASE dirs[l] = "none" /\ dirs' = [dirs EXCEPT ![l] = "partial"] /\ op' = Op("checkout", l)
    <3>1. mem[l] = "absent" /\ disk[l] = "absent" /\ mem' = mem /\ disk' = disk
      BY <1>2, <2>1 DEF ensureEmptyLayerDir
    <3> QED
      BY <2>1, <3>1 DEF Op
  <2>2. CASE dirs' = dirs /\ op' = NoOp
    BY <1>2, <2>2 DEF ensureEmptyLayerDir, Op, NoOp
  <2> QED
    BY <1>2, <2>1, <2>2 DEF ensureEmptyLayerDir
<1>3. ASSUME NEW l \in Layers, checkout(l) PROVE CompletePlaces'
  <2>1. mem[l] = "absent" /\ disk[l] = "absent" /\ mem' = mem /\ disk' = disk
    BY <1>3 DEF checkout, At
  <2>2. CASE dirs' = [dirs EXCEPT ![l] = "full"] /\ op' = Op("add", l)
    BY <2>1, <2>2 DEF Op
  <2>3. CASE dirs' = dirs /\ op' = NoOp
    BY <2>1, <2>3 DEF Op, NoOp
  <2> QED
    BY <1>3, <2>2, <2>3 DEF checkout
<1>4. ASSUME NEW l \in Layers, addLayerItem(l) PROVE CompletePlaces'
  <2>1. dirs[l] = "full" /\ dirs' = dirs /\ op' = NoOp
    BY <1>4 DEF addLayerItem, At
  <2>2. \A k \in Layers : mem'[k] # "absent" => dirs[k] = "full"
    BY <1>4, <2>1 DEF addLayerItem
  <2>3. disk' = mem' \/ disk' = disk \/ disk' = NoLayers
    BY <1>4 DEF addLayerItem, Written, NotWritten
  <2> QED
    BY <2>1, <2>2, <2>3 DEF Op, NoOp, NoLayers
<1>5. ASSUME NEW l \in Layers, removeOstreeRef(l) PROVE CompletePlaces'
  BY <1>5 DEF removeOstreeRef, Op
<1>6. ASSUME NEW l \in Layers, deleteLayerItem(l) PROVE CompletePlaces'
  <2>1. dirs' = dirs /\ mem' = [mem EXCEPT ![l] = "absent"]
    BY <1>6 DEF deleteLayerItem
  <2>2. CASE (disk' = mem' \/ disk' = NoLayers) /\ op' = Op("rmdir", l)
    BY <2>1, <2>2 DEF Op, NoLayers
  <2>3. CASE disk' = disk /\ op' = NoOp
    BY <2>1, <2>3 DEF Op, NoOp
  <2> QED
    BY <1>6, <2>2, <2>3 DEF deleteLayerItem, Written, NotWritten
<1>7. ASSUME NEW l \in Layers, removeLayerDir(l) PROVE CompletePlaces'
  <2>1. mem[l] = "absent" /\ disk[l] = "absent" /\ op' = NoOp /\ mem' = mem /\ disk' = disk
    BY <1>7 DEF removeLayerDir, At
  <2>2. \A k \in Layers : k # l => dirs'[k] = dirs[k]
    BY <1>7 DEF removeLayerDir
  <2> QED
    BY <2>1, <2>2 DEF Op, NoOp
<1>8. ASSUME NEW l \in Layers, NEW d \in BOOLEAN, markDeleted(l, d) PROVE CompletePlaces'
  BY <1>8 DEF markDeleted, Idle, Written, Op, NoOp, NoLayers
<1>9. CASE updateMergedItems
  BY <1>9 DEF updateMergedItems, Idle, Written, Op, NoOp, NoLayers
<1>10. CASE Crash
  <2>1. mem' = NoLayers /\ op' = NoOp /\ disk' = disk
    BY <1>10 DEF Crash
  <2>2. \A k \in Layers : disk[k] # "absent" => dirs'[k] = "full"
    BY <1>10 DEF Crash
  <2> QED
    BY <2>1, <2>2 DEF Op, NoOp, NoLayers
<1>11. CASE create
  BY <1>11 DEF create, Meet
<1>12. CASE UNCHANGED vars
  BY <1>12 DEF vars
<1> QED
  BY <1>1, <1>2, <1>3, <1>4, <1>5, <1>6, <1>7, <1>8, <1>9, <1>10, <1>11, <1>12 DEF Next

(* The strengthened invariant holds throughout. *)
LEMMA AlwaysComplete == Spec => []CompleteInv
<1>1. Init => TypeOK /\ CompleteInv
  BY DEF Init, TypeOK, CompleteInv, CompletePlaces, NoOp, NoLayers, Status, Op
<1>2. TypeOK /\ CompleteInv /\ [Next]_vars => (TypeOK /\ CompleteInv)'
  BY TypeStep, CompleteStep
<1> QED
  BY <1>1, <1>2, PTL DEF Spec

(* Whatever ll-cli finds in states.json it can open, for any number of     *)
(* layers and after any faults but a rebuild of the list.                  *)
THEOREM Complete == Spec => []ListedIsComplete
<1>1. CompleteInv => ListedIsComplete
  BY DEF CompleteInv, CompletePlaces, ListedIsComplete
<1> QED
  BY <1>1, AlwaysComplete, PTL

(* The assertion in addLayerItem holds until the list is rebuilt. *)
THEOREM AddAssertion == Spec => []AddedIsNew
<1>1. CompleteInv => AddedIsNew
  BY DEF CompleteInv, CompletePlaces, AddedIsNew, At
<1> QED
  BY <1>1, AlwaysComplete, PTL

-----------------------------------------------------------------------------
(* What was installed survives                                             *)

(* Every step keeps what was installed, and the operations off it. *)
LEMMA SurvivesStep ==
    ASSUME TypeOK, SurvivesInv, [Next]_vars
    PROVE  SurvivesInv'
<1> USE DEF TypeOK, SurvivesInv, InstalledSurvives
<1>1. ASSUME NEW l \in Layers, pull(l) \/ importLayerDir(l) PROVE SurvivesInv'
  BY <1>1 DEF pull, importLayerDir, Op
<1>2. ASSUME NEW l \in Layers, ensureEmptyLayerDir(l) PROVE SurvivesInv'
  <2>1. CASE dirs[l] = "none"
    <3>1. l \notin acked /\ acked' = acked
      BY <1>2, <2>1 DEF ensureEmptyLayerDir
    <3> QED
      BY <1>2, <2>1, <3>1 DEF ensureEmptyLayerDir, Op
  <2>2. CASE dirs[l] # "none"
    BY <1>2, <2>2 DEF ensureEmptyLayerDir, Op, NoOp
  <2> QED
    BY <2>1, <2>2
<1>3. ASSUME NEW l \in Layers, checkout(l) PROVE SurvivesInv'
  BY <1>3 DEF checkout, At, Op, NoOp
<1>4. ASSUME NEW l \in Layers, addLayerItem(l) PROVE SurvivesInv'
  <2>1. /\ dirs[l] = "full" /\ l \in refs
        /\ dirs' = dirs /\ refs' = refs /\ up' = up /\ up /\ op' = NoOp
    BY <1>4 DEF addLayerItem, At, Op
  <2>2. CASE UNCHANGED <<mem, disk, file, acked>>
    BY <2>1, <2>2 DEF Op, NoOp
  <2>3. CASE /\ mem' = [mem EXCEPT ![l] = "live"]
             /\ disk' = mem' \/ file' = "short"
             /\ acked' = acked \cup {l}
    BY <2>1, <2>3 DEF Op, NoOp
  <2>4. CASE /\ mem' = [mem EXCEPT ![l] = "live"]
             /\ UNCHANGED <<disk, file, acked>>
    BY <2>1, <2>4 DEF Op, NoOp
  <2> QED
    BY <1>4, <2>2, <2>3, <2>4 DEF addLayerItem, Written, NotWritten
<1>5. ASSUME NEW l \in Layers, removeOstreeRef(l) PROVE SurvivesInv'
  BY <1>5 DEF removeOstreeRef, Op
<1>6. ASSUME NEW l \in Layers, deleteLayerItem(l) PROVE SurvivesInv'
  <2>1. /\ l \notin acked /\ UNCHANGED <<refs, dirs, up, acked>>
        /\ mem' = [mem EXCEPT ![l] = "absent"] /\ up
    BY <1>6 DEF deleteLayerItem, At
  <2>2. CASE (disk' = mem' \/ file' = "short") /\ op' = Op("rmdir", l)
    BY <2>1, <2>2 DEF Op
  <2>3. CASE UNCHANGED <<disk, file>> /\ op' = NoOp
    BY <2>1, <2>3 DEF Op, NoOp
  <2> QED
    BY <1>6, <2>2, <2>3 DEF deleteLayerItem, Written, NotWritten
<1>7. ASSUME NEW l \in Layers, removeLayerDir(l) PROVE SurvivesInv'
  <2>1. l \notin acked /\ op' = NoOp /\ UNCHANGED <<refs, mem, disk, file, up, acked>>
    BY <1>7 DEF removeLayerDir, At
  <2>2. \A k \in Layers : k # l => dirs'[k] = dirs[k]
    BY <1>7 DEF removeLayerDir
  <2> QED
    BY <2>1, <2>2 DEF Op, NoOp
<1>8. ASSUME NEW l \in Layers, NEW d \in BOOLEAN, markDeleted(l, d) PROVE SurvivesInv'
  BY <1>8 DEF markDeleted, Idle, Written, Op, NoOp
<1>9. CASE updateMergedItems
  BY <1>9 DEF updateMergedItems, Idle, Written, Op, NoOp
<1>10. CASE Crash
  <2>1. up' = FALSE /\ op' = NoOp /\ UNCHANGED <<refs, disk, file, acked>>
    BY <1>10 DEF Crash
  <2>2. \A k \in acked : dirs'[k] = "full"
    BY <1>10 DEF Crash
  <2> QED
    BY <2>1, <2>2 DEF Op, NoOp
<1>11. CASE create
  <2>1. op' = op /\ UNCHANGED <<refs, dirs, acked>>
    BY <1>11 DEF create
  <2>2. \A k \in acked : (disk'[k] # "absent" \/ file' = "short") /\ mem'[k] # "absent"
    BY <1>11 DEF create, rebuildCache
  <2> QED
    BY <2>1, <2>2
<1>12. CASE UNCHANGED vars
  BY <1>12 DEF vars
<1> QED
  BY <1>1, <1>2, <1>3, <1>4, <1>5, <1>6, <1>7, <1>8, <1>9, <1>10, <1>11, <1>12 DEF Next

(* A layer added with success and not removed since is in place after any  *)
(* crash, failed write or rebuild of the list.                             *)
THEOREM Survives == Spec => []InstalledSurvives
<1>1. Init => TypeOK /\ SurvivesInv
  BY DEF Init, TypeOK, SurvivesInv, InstalledSurvives, NoOp, NoLayers, Status, Op
<1>2. TypeOK /\ SurvivesInv /\ [Next]_vars => (TypeOK /\ SurvivesInv)'
  BY TypeStep, SurvivesStep
<1>3. SurvivesInv => InstalledSurvives
  BY DEF SurvivesInv
<1> QED
  BY <1>1, <1>2, <1>3, PTL DEF Spec

-----------------------------------------------------------------------------
(* states.json is a table of layers                                        *)

(* While every write succeeds a step keeps memory and file alike, and is a *)
(* step of the table or leaves it alone.                                   *)
LEMMA TableStep ==
    ASSUME TypeOK, CoherentInv, [Next]_vars
    PROVE  CoherentInv' /\ (AllWritten' => [Table!Next]_disk)
<1> SUFFICES ASSUME AllWritten'
             PROVE  (up' => mem' = disk') /\ [Table!Next]_disk
  BY DEF CoherentInv
<1>0. met' \cap {"write", "short", "rebuild"} = {} /\ (up => mem = disk)
  BY MetGrows DEF AllWritten, CoherentInv
<1> USE <1>0 DEF TypeOK, Meet
<1>1. ASSUME NEW l \in Layers, addLayerItem(l) PROVE (up' => mem' = disk') /\ [Table!Next]_disk
  <2>1. CASE UNCHANGED <<mem, disk>>
    BY <1>1, <2>1 DEF addLayerItem
  <2>2. CASE mem[l] = "absent" /\ mem' = [mem EXCEPT ![l] = "live"] /\ disk' = mem'
    <3>1. mem = disk
      BY <1>1 DEF addLayerItem, At
    <3>2. Table!Add(l)
      BY <2>2, <3>1 DEF Table!Add
    <3> QED
      BY <2>2, <3>2 DEF Table!Next
  <2> QED
    BY <1>1, <2>1, <2>2 DEF addLayerItem, Written, NotWritten
<1>2. ASSUME NEW l \in Layers, deleteLayerItem(l) PROVE (up' => mem' = disk') /\ [Table!Next]_disk
  <2>1. mem = disk /\ mem' = [mem EXCEPT ![l] = "absent"] /\ disk' = mem'
    BY <1>2 DEF deleteLayerItem, At, Written, NotWritten
  <2>2. CASE mem[l] = "absent"
    BY <2>1, <2>2
  <2>3. CASE mem[l] # "absent"
    <3>1. Table!Remove(l)
      BY <2>1, <2>3 DEF Table!Remove
    <3> QED
      BY <2>1, <3>1 DEF Table!Next
  <2> QED
    BY <2>2, <2>3
<1>3. ASSUME NEW l \in Layers, NEW d \in BOOLEAN, markDeleted(l, d)
      PROVE  (up' => mem' = disk') /\ [Table!Next]_disk
  <2> DEFINE s == IF d THEN "deleted" ELSE "live"
  <2>1. mem = disk /\ mem[l] # "absent" /\ mem' = [mem EXCEPT ![l] = s] /\ disk' = mem'
    BY <1>3 DEF markDeleted, Idle, Written
  <2>2. Table!Mark(l, s)
    BY <2>1 DEF Table!Mark
  <2>3. s \in Table!Status
    BY DEF Table!Status
  <2> QED
    BY <2>1, <2>2, <2>3 DEF Table!Next
<1>4. CASE updateMergedItems
  BY <1>4 DEF updateMergedItems, Idle, Written
<1>5. CASE Crash
  BY <1>5 DEF Crash
<1>6. CASE create
  BY <1>6 DEF create
<1>7. ASSUME NEW l \in Layers,
             \/ pull(l) \/ importLayerDir(l) \/ ensureEmptyLayerDir(l) \/ checkout(l)
             \/ removeOstreeRef(l) \/ removeLayerDir(l)
      PROVE  (up' => mem' = disk') /\ [Table!Next]_disk
  BY <1>7 DEF pull, importLayerDir, ensureEmptyLayerDir, checkout, removeOstreeRef, removeLayerDir
<1>8. CASE UNCHANGED vars
  BY <1>8 DEF vars
<1> QED
  BY <1>1, <1>2, <1>3, <1>4, <1>5, <1>6, <1>7, <1>8 DEF Next

(* To a reader of states.json, the repository is a table of layers that    *)
(* changes one layer at a time: crashes, full disks and directories that   *)
(* stay behind do not show, until a write fails or the list is rebuilt.    *)
THEOREM ImplementsTable == Spec => LayerStoreSpec
<1>1. Init => TypeOK /\ CoherentInv /\ Table!Init
  BY DEF Init, TypeOK, CoherentInv, AllWritten, Table!Init, NoOp, NoLayers, Status, Op
<1>2. TypeOK /\ CoherentInv /\ [Next]_vars
        => (TypeOK /\ CoherentInv)' /\ [AllWritten' => [Table!Next]_disk]_vars
  BY TypeStep, TableStep
<1> QED
  BY <1>1, <1>2, PTL DEF Spec, LayerStoreSpec
=============================================================================
