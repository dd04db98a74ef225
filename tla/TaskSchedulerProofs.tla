------------------------ MODULE TaskSchedulerProofs ------------------------
(***************************************************************************)
(* TaskScheduler for every set of tasks, refs and requests: the types, no  *)
(* lost wake-up, a task is removed only when it is done and, where every   *)
(* request is about one package, no ref is operated on by two tasks.       *)
(***************************************************************************)
EXTENDS TaskScheduler, SequenceTheorems, TLAPS

-----------------------------------------------------------------------------
(* Operators on the stack and on the list                                  *)

(* What entering a handler does to the stack, and AddTask to the list. *)
LEMMA Pushed ==
    ASSUME NEW S, NEW s \in Seq(S), NEW e \in S
    PROVE  /\ Append(s, e) \in Seq(S)
           /\ Len(s) \in Nat
           /\ Len(Append(s, e)) = Len(s) + 1
           /\ DOMAIN s = 1 .. Len(s)
           /\ DOMAIN Append(s, e) = 1 .. Len(s) + 1
           /\ \A i \in 1 .. Len(s) : Append(s, e)[i] = s[i] /\ s[i] \in S
           /\ Append(s, e)[Len(s) + 1] = e
  <1>1. Append(s, e) \in Seq(S)
    OBVIOUS
  <1> QED
    BY <1>1, AppendProperties, LenProperties, ElementOfSeq

(* What returning from a handler leaves of the stack. *)
LEMMA Popped ==
    ASSUME NEW S, NEW s \in Seq(S), s # <<>>
    PROVE  /\ Front(s) \in Seq(S)
           /\ Len(s) \in Nat \ {0}
           /\ Len(Front(s)) = Len(s) - 1
           /\ DOMAIN s = 1 .. Len(s)
           /\ DOMAIN Front(s) = 1 .. Len(s) - 1
           /\ \A i \in 1 .. Len(s) - 1 : Front(s)[i] = s[i] /\ s[i] \in S
           /\ Last(s) = s[Len(s)]
           /\ Last(s) \in S
  <1>1. Len(s) \in Nat \ {0}
    BY EmptySeq
  <1>2. \A i \in 1 .. (Len(s) - 1) : s[i] \in S
    BY <1>1, ElementOfSeq
  <1> DEFINE n == Len(s) - 1
  <1>3. n \in Nat /\ n \in Int /\ 1 \in Int
    BY <1>1
  <1> HIDE DEF n
  <1>4. /\ SubSeq(s, 1, n) \in Seq(S)
        /\ Len(SubSeq(s, 1, n)) = IF 1 <= n THEN n - 1 + 1 ELSE 0
        /\ \A i \in 1 .. n - 1 + 1 : SubSeq(s, 1, n)[i] = s[1 + i - 1]
    BY <1>2, <1>3, SubSeqProperties DEF n
  <1>5. \A i \in 1 .. n : SubSeq(s, 1, n)[i] = s[i]
    BY <1>3, <1>4
  <1>6. Len(SubSeq(s, 1, n)) = n
    <2>1. CASE n = 0
      BY <1>4, <2>1
    <2>2. CASE n >= 1
      BY <1>3, <1>4, <2>2
    <2> QED
      BY <1>3, <2>1, <2>2
  <1>7. DOMAIN SubSeq(s, 1, n) = 1 .. n /\ DOMAIN s = 1 .. Len(s)
    BY <1>4, <1>6, LenProperties
  <1>8. Last(s) = s[Len(s)] /\ Last(s) \in S
    BY <1>1, ElementOfSeq DEF Last
  <1> QED
    BY <1>1, <1>2, <1>4, <1>5, <1>6, <1>7, <1>8 DEF n, Front

(* What Goto and the next round of a loop do: the innermost frame changes. *)
LEMMA TopReplaced ==
    ASSUME NEW S, NEW s \in Seq(S), s # <<>>, NEW e \in S
    PROVE  /\ Append(Front(s), e) \in Seq(S)
           /\ Len(s) \in Nat \ {0}
           /\ Len(Append(Front(s), e)) = Len(s)
           /\ DOMAIN s = 1 .. Len(s)
           /\ DOMAIN Append(Front(s), e) = 1 .. Len(s)
           /\ \A i \in 1 .. Len(s) - 1 : Append(Front(s), e)[i] = s[i] /\ s[i] \in S
           /\ Append(Front(s), e)[Len(s)] = e
           /\ Last(s) = s[Len(s)]
           /\ Last(s) \in S
  <1>1. Front(s) \in Seq(S)
    BY Popped
  <1> QED
    BY <1>1, Popped, Pushed

(* Erasing a node of the list: its other tasks stay, in their order. *)
LEMMA Erased ==
    ASSUME NEW S, NEW s \in Seq(S), NEW k \in DOMAIN s
    PROVE  /\ RemoveAt(s, k) \in Seq(S)
           /\ \A i \in DOMAIN RemoveAt(s, k) :
                    /\ (IF i < k THEN i ELSE i + 1) \in DOMAIN s
                    /\ RemoveAt(s, k)[i] = s[IF i < k THEN i ELSE i + 1]
                    /\ i \in Nat
  <1>1. /\ Len(s) \in Nat /\ DOMAIN s = 1 .. Len(s)
        /\ \A i \in 1 .. Len(s) : s[i] \in S
    BY LenProperties, ElementOfSeq
  <1>2. k \in 1 .. Len(s)
    BY <1>1
  <1> DEFINE a == SubSeq(s, 1, k - 1)
             b == SubSeq(s, k + 1, Len(s))
  <1>3. RemoveAt(s, k) = a \o b
    BY DEF RemoveAt
  <1>4. /\ a \in Seq(S) /\ Len(a) = k - 1
        /\ \A i \in 1 .. k - 1 : a[i] = s[i]
    <2>1. k - 1 \in Int /\ 1 \in Int /\ \A i \in 1 .. k - 1 : s[i] \in S
      BY <1>1, <1>2
    <2>2. /\ a \in Seq(S)
          /\ Len(a) = IF 1 <= k - 1 THEN k - 1 - 1 + 1 ELSE 0
          /\ \A i \in 1 .. k - 1 - 1 + 1 : a[i] = s[1 + i - 1]
      BY <2>1, SubSeqProperties
    <2> HIDE DEF a
    <2> QED
      BY <1>1, <1>2, <2>2
  <1>5. /\ b \in Seq(S) /\ Len(b) = Len(s) - k
        /\ \A i \in 1 .. Len(s) - k : b[i] = s[k + i]
    <2>1. k + 1 \in Int /\ Len(s) \in Int /\ \A i \in k + 1 .. Len(s) : s[i] \in S
      BY <1>1, <1>2
    <2>2. /\ b \in Seq(S)
          /\ Len(b) = IF k + 1 <= Len(s) THEN Len(s) - (k + 1) + 1 ELSE 0
          /\ \A i \in 1 .. Len(s) - (k + 1) + 1 : b[i] = s[k + 1 + i - 1]
      BY <2>1, SubSeqProperties
    <2> HIDE DEF b
    <2>3. Len(b) = Len(s) - k
      BY <1>1, <1>2, <2>2
    <2>4. ASSUME NEW i \in 1 .. Len(s) - k
          PROVE  b[i] = s[k + i]
      <3>1. i \in 1 .. Len(s) - (k + 1) + 1 /\ k + 1 + i - 1 = k + i
        BY <1>1, <1>2
      <3> QED
        BY <2>2, <3>1
    <2> QED
      BY <2>2, <2>3, <2>4
  <1> HIDE DEF a, b
  <1>6. /\ a \o b \in Seq(S)
        /\ Len(a \o b) = Len(a) + Len(b)
        /\ \A i \in 1 .. Len(a) + Len(b) :
              (a \o b)[i] = IF i <= Len(a) THEN a[i] ELSE b[i - Len(a)]
    BY <1>4, <1>5, ConcatProperties
  <1>7. Len(a) + Len(b) = Len(s) - 1
    BY <1>1, <1>2, <1>4, <1>5
  <1>8. DOMAIN (a \o b) = 1 .. Len(s) - 1
    BY <1>6, <1>7, LenProperties
  <1>9. ASSUME NEW i \in 1 .. Len(s) - 1
        PROVE  /\ (IF i < k THEN i ELSE i + 1) \in 1 .. Len(s)
               /\ (a \o b)[i] = s[IF i < k THEN i ELSE i + 1]
    <2>1. (a \o b)[i] = IF i <= k - 1 THEN a[i] ELSE b[i - (k - 1)]
      BY <1>4, <1>6, <1>7
    <2>2. CASE i < k
      BY <1>1, <1>2, <1>4, <2>1, <2>2
    <2>3. CASE ~(i < k)
      <3>1. i - (k - 1) \in 1 .. Len(s) - k /\ k + (i - (k - 1)) = i + 1 /\ ~(i <= k - 1)
        BY <1>1, <1>2, <2>3
      <3>2. b[i - (k - 1)] = s[i + 1]
        BY <1>5, <3>1
      <3> QED
        BY <1>1, <2>1, <2>3, <3>1, <3>2
    <2> QED
      BY <2>2, <2>3
  <1>10. \A i \in DOMAIN (a \o b) :
            /\ (IF i < k THEN i ELSE i + 1) \in DOMAIN s
            /\ (a \o b)[i] = s[IF i < k THEN i ELSE i + 1]
            /\ i \in Nat
    <2> TAKE i \in DOMAIN (a \o b)
    <2>1. i \in 1 .. Len(s) - 1
      BY <1>8
    <2> QED
      BY <1>1, <1>9, <2>1
  <1> QED
    BY <1>3, <1>6, <1>10

-----------------------------------------------------------------------------
(* Operators on a task                                                     *)

(* The weights of the sub-states are natural numbers, so percentages stay natural. *)
LEMMA Weights == m_subStateMap \in [SubStates -> Nat]
  <1>1. \A s \in SubStates : m_subStateMap[s] \in Nat
    BY DEF m_subStateMap, SubStates
  <1> QED
    BY <1>1 DEF m_subStateMap

(* updateSubState changes the subState and the percentage, nothing else. *)
LEMMA SubStateUpdated ==
    ASSUME NEW t \in TaskRecord, NEW sub \in SubStates
    PROVE  /\ updateSubState(t, sub) \in TaskRecord
           /\ updateSubState(t, sub).subState = sub
           /\ updateSubState(t, sub).state = t.state
           /\ updateSubState(t, sub).refs = t.refs
  <1>1. t.total + m_subStateMap[sub] \in Nat
    BY Weights DEF TaskRecord
  <1> QED
    BY <1>1 DEF updateSubState, TaskRecord, TASK_DONE

(* updateState keeps the refs and never makes a done task undone; a final  *)
(* state makes it done; the state becomes the one asked for, or Succeed.   *)
LEMMA StateUpdated ==
    ASSUME NEW t \in TaskRecord, NEW st \in States
    PROVE  /\ updateState(t, st) \in TaskRecord
           /\ updateState(t, st).refs = t.refs
           /\ updateState(t, st).state \in {st, "Succeed"}
           /\ isTaskDone(t.subState) => isTaskDone(updateState(t, st).subState)
           /\ st \in {"Canceled", "Failed", "Succeed"}
                => isTaskDone(updateState(t, st).subState)
  <1> DEFINE counted == IF st = "PartCompleted"
                          THEN [t EXCEPT !.state = st, !.parts = @ + 1, !.total = 0, !.stage = 0]
                          ELSE [t EXCEPT !.state = st]
             settled == IF counted.parts = Len(counted.refs)
                          THEN [counted EXCEPT !.state = "Succeed"]
                          ELSE counted
  <1>1. /\ counted \in TaskRecord /\ counted.state = st
        /\ counted.refs = t.refs /\ counted.subState = t.subState
    <2>1. CASE st = "PartCompleted"
      <3>1. t.parts + 1 \in Nat /\ 0 \in Nat
        BY DEF TaskRecord
      <3> QED
        BY <2>1, <3>1 DEF TaskRecord
    <2>2. CASE st # "PartCompleted"
      BY <2>2 DEF TaskRecord
    <2> QED
      BY <2>1, <2>2
  <1> HIDE DEF counted
  <1>2. /\ settled \in TaskRecord /\ settled.state \in {st, "Succeed"}
        /\ settled.refs = t.refs /\ settled.subState = t.subState
    BY <1>1 DEF TaskRecord, States
  <1> HIDE DEF settled
  <1>3. updateState(t, st) = IF settled.state \in {"Canceled", "Failed", "Succeed"}
                               THEN updateSubState(settled, "AllDone") ELSE settled
    BY DEF updateState, updateStateTo, counted, settled
  <1>4. /\ updateSubState(settled, "AllDone") \in TaskRecord
        /\ updateSubState(settled, "AllDone").subState = "AllDone"
        /\ updateSubState(settled, "AllDone").state = settled.state
        /\ updateSubState(settled, "AllDone").refs = settled.refs
    BY <1>2, SubStateUpdated DEF SubStates
  <1> QED
    BY <1>2, <1>3, <1>4 DEF isTaskDone

(* Task1.Cancel leaves a task that is not waiting for a signal. *)
LEMMA Cancelled ==
    ASSUME NEW t \in TaskRecord
    PROVE  /\ Cancel(t) \in TaskRecord
           /\ Cancel(t).refs = t.refs
           /\ Cancel(t).state = "Queued" => t.state = "Queued"
           /\ isTaskDone(t.subState) => isTaskDone(Cancel(t).subState)
  <1> DEFINE c == [t EXCEPT !.cancelled = TRUE]
  <1>1. c \in TaskRecord /\ c.refs = t.refs /\ c.subState = t.subState
    BY DEF TaskRecord
  <1> HIDE DEF c
  <1>2. "Canceled" \in States
    BY DEF States
  <1>3. /\ updateState(c, "Canceled") \in TaskRecord
        /\ updateState(c, "Canceled").refs = c.refs
        /\ updateState(c, "Canceled").state \in {"Canceled", "Succeed"}
        /\ isTaskDone(updateState(c, "Canceled").subState)
    BY <1>1, <1>2, StateUpdated
  <1>4. Cancel(t) = IF t.cancelled THEN t ELSE updateState(c, "Canceled")
    BY DEF Cancel, c
  <1> QED
    BY <1>1, <1>3, <1>4

(* A new task waits in state Queued with the refs of its request. *)
LEMMA Added ==
    ASSUME NEW refs \in Seq(Refs)
    PROVE  /\ updateState(NewTask(refs), "Queued") \in TaskRecord
           /\ updateState(NewTask(refs), "Queued").refs = refs
           /\ NewTask(refs) \in TaskRecord
  <1>1. NewTask(refs) \in TaskRecord /\ NewTask(refs).refs = refs
    BY DEF NewTask, TaskRecord, States, SubStates
  <1> QED
    BY <1>1, StateUpdated DEF States

(* BeginWork keeps the refs of the task. *)
LEMMA Begun ==
    ASSUME NEW t \in TaskRecord
    PROVE  BeginWork(t) \in TaskRecord /\ BeginWork(t).refs = t.refs
  <1>1. "Processing" \in States /\ "PreAction" \in SubStates
    BY DEF States, SubStates
  <1>2. /\ updateState(t, "Processing") \in TaskRecord
        /\ updateState(t, "Processing").refs = t.refs
    BY <1>1, StateUpdated
  <1> QED
    BY <1>1, <1>2, SubStateUpdated DEF BeginWork

(* Whatever becomes of a part, the task is done and keeps its refs. *)
LEMMA Worked ==
    ASSUME NEW t \in TaskRecord, NEW kind, NEW u \in WorkResults(t, kind)
    PROVE  u \in TaskRecord /\ u.refs = t.refs /\ isTaskDone(u.subState)
  <1>1. /\ reportError(t) \in TaskRecord /\ reportError(t).refs = t.refs
        /\ isTaskDone(reportError(t).subState)
    BY DEF reportError, TaskRecord, TASK_DONE, States, SubStates, isTaskDone
  <1>2. /\ updateState(t, "Succeed") \in TaskRecord
        /\ updateState(t, "Succeed").refs = t.refs
        /\ isTaskDone(updateState(t, "Succeed").subState)
    BY StateUpdated DEF States
  <1> DEFINE p == updateState(t, "PartCompleted")
  <1>3. p \in TaskRecord /\ p.refs = t.refs
    BY StateUpdated DEF States
  <1> HIDE DEF p
  <1>4. /\ setSubState(p, "PackageManagerDone") \in TaskRecord
        /\ setSubState(p, "PackageManagerDone").refs = t.refs
        /\ isTaskDone(setSubState(p, "PackageManagerDone").subState)
    BY <1>3 DEF setSubState, TaskRecord, SubStates, isTaskDone
  <1>5. \/ isTaskDone(t.subState) /\ u = t
        \/ u = reportError(t)
        \/ u = setSubState(p, "PackageManagerDone")
        \/ u = updateState(t, "Succeed")
    BY DEF WorkResults, p
  <1> QED
    BY <1>1, <1>2, <1>4, <1>5

-----------------------------------------------------------------------------
(* The inductive invariant                                                 *)

(* Only a handler whose event loop turns has another one on top of it. *)
OthersSpin == \A i \in DOMAIN stack : i # Len(stack) => Spinning(stack[i])

(* A job about to return has finished its task. *)
EndIsDone == \A i \in DOMAIN stack :
                stack[i].at = "end" => isTaskDone(task[stack[i].task].subState)

(* While modules are pulled again the task stays done: a second job of the *)
(* same task (set back to Queued by NotifyWaiting) finds it done and does  *)
(* not get to work on top of the first.                                    *)
RollbackIsDone == \A i \in DOMAIN stack :
                    stack[i].at = "rollback" =>
                       /\ isTaskDone(task[stack[i].task].subState)
                       /\ \A k \in DOMAIN stack :
                             k > i /\ stack[k].task = stack[i].task
                                => stack[k].at \notin {"work", "rollback"}

(* No other handler waits for a task that is not created yet. *)
RemoteIsNew == \A i \in DOMAIN stack :
                 stack[i].at = "remote" =>
                    \A k \in DOMAIN stack : k # i => stack[k].task # stack[i].task

(* Only Install and Update wait for the remote. *)
RemoteIsRequest == \A i \in DOMAIN stack :
                     stack[i].at = "remote" =>
                        request[stack[i].task].kind \in {"install", "update"}

FramesSound == OthersSpin /\ EndIsDone /\ RollbackIsDone /\ RemoteIsRequest /\ RemoteIsNew

IInv == TypeOK /\ FramesSound /\ RemovedOnlyWhenDone /\ NoLostWakeup

(* A task of the list was created for a request and keeps its refs. *)
ListedKeepsRefs ==
    \A i \in DOMAIN taskList : /\ request[taskList[i]] # NoRequest
                               /\ task[taskList[i]].refs = request[taskList[i]].refs

(* A task is in the list only after its request has been answered. *)
RemoteUnlisted ==
    \A i \in DOMAIN stack : stack[i].at = "remote" =>
        \A k \in DOMAIN taskList : taskList[k] # stack[i].task

(* What the types say of the positions of the stack. *)
LEMMA StackPositions ==
    ASSUME TypeOK
    PROVE  /\ Len(stack) \in Nat
           /\ DOMAIN stack = 1 .. Len(stack)
           /\ \A i \in DOMAIN stack : /\ stack[i] \in Frame
                                      /\ stack[i].task \in Tasks
                                      /\ stack[i].part \in DOMAIN request[stack[i].task].refs
           /\ stack # <<>> => /\ Len(stack) \in DOMAIN stack
                              /\ Last(stack) = stack[Len(stack)]
  <1>1. stack \in Seq(Frame)
    BY DEF TypeOK
  <1>2. /\ Len(stack) \in Nat /\ DOMAIN stack = 1 .. Len(stack)
        /\ \A i \in DOMAIN stack : stack[i] \in Frame
    BY <1>1, LenProperties, ElementOfSeq
  <1>3. \A i \in DOMAIN stack : stack[i].part \in DOMAIN request[stack[i].task].refs
    BY DEF TypeOK, Range
  <1>4. stack # <<>> => Len(stack) \in DOMAIN stack
    BY <1>1, <1>2, EmptySeq
  <1> QED
    BY <1>2, <1>3, <1>4 DEF Last, Frame

(* Every handler is at a part its request has: by position, by frame. *)
LEMMA PartsInRange ==
    ASSUME NEW s, NEW q, \A i \in DOMAIN s : s[i].part \in DOMAIN q[s[i].task].refs
    PROVE  \A f \in Range(s) : f.part \in DOMAIN q[f.task].refs
  BY DEF Range

(* What a client asked for is about at least one ref. *)
LEMMA RequestTyped ==
    ASSUME TypeOK, NEW t \in Tasks
    PROVE  /\ request[t].refs \in Seq(Refs)
           /\ request[t] # NoRequest => request[t] \in Request
           /\ request[t] = NoRequest => \A i \in DOMAIN stack : stack[i].task # t
  <1>1. NoRequest.refs = <<>> /\ <<>> \in Seq(Refs)
    BY DEF NoRequest
  <1>2. request[t] \in Requests \cup {NoRequest}
    BY DEF TypeOK
  <1>3. request[t] # NoRequest => request[t] \in Request
    BY <1>2, RequestsAssumption
  <1>4. \A r \in Request : r.refs \in Seq(Refs)
    BY DEF Request
  <1>5. DOMAIN NoRequest.refs = {}
    BY <1>1
  <1> QED
    BY <1>1, <1>3, <1>4, <1>5, StackPositions

(* A handler is entered: only while the event loop turns. *)
LEMMA FramesPush ==
    ASSUME TypeOK, FramesSound, LoopTurning, NEW f \in Frame, f.at \in {"remote", "start"},
           stack' = Append(stack, f), task' = task,
           f.at = "remote" => request'[f.task].kind \in {"install", "update"},
           \A i \in DOMAIN stack : stack[i].task = f.task
                                    => f.at = "start" /\ stack[i].at # "remote",
           \A i \in DOMAIN stack : request'[stack[i].task] = request[stack[i].task]
    PROVE  FramesSound'
  <1>1. stack \in Seq(Frame)
    BY DEF TypeOK
  <1>2. /\ Len(stack) \in Nat /\ Len(stack') = Len(stack) + 1
        /\ DOMAIN stack = 1 .. Len(stack) /\ DOMAIN stack' = 1 .. Len(stack) + 1
        /\ \A i \in 1 .. Len(stack) : stack'[i] = stack[i]
        /\ stack'[Len(stack) + 1] = f
    BY <1>1, Pushed
  <1>3. stack # <<>> => Spinning(stack[Len(stack)]) /\ Len(stack) \in DOMAIN stack
    BY StackPositions DEF LoopTurning
  <1>4. \A i \in DOMAIN stack : Spinning(stack[i]) /\ stack # <<>>
    BY <1>2, <1>3 DEF FramesSound, OthersSpin
  <1>5. \A i \in DOMAIN stack' : \/ i \in DOMAIN stack /\ stack'[i] = stack[i]
                                 \/ i = Len(stack') /\ stack'[i] = f
    BY <1>2
  <1>6. OthersSpin'
    BY <1>4, <1>5 DEF OthersSpin, Spinning
  <1>7. EndIsDone'
    BY <1>5 DEF FramesSound, EndIsDone
  <1>8. RollbackIsDone'
    <2> SUFFICES ASSUME NEW i \in DOMAIN stack', stack'[i].at = "rollback"
                 PROVE  /\ isTaskDone(task'[stack'[i].task].subState)
                        /\ \A k \in DOMAIN stack' :
                              k > i /\ stack'[k].task = stack'[i].task
                                 => stack'[k].at \notin {"work", "rollback"}
      BY DEF RollbackIsDone
    <2>1. i \in DOMAIN stack /\ stack'[i] = stack[i]
      BY <1>5
    <2> QED
      BY <1>5, <2>1 DEF FramesSound, RollbackIsDone
  <1>9. RemoteIsRequest'
    BY <1>5 DEF FramesSound, RemoteIsRequest
  <1>10. RemoteIsNew'
    <2> SUFFICES ASSUME NEW i \in DOMAIN stack', stack'[i].at = "remote",
                        NEW k \in DOMAIN stack', k # i
                 PROVE  stack'[k].task # stack'[i].task
      BY DEF RemoteIsNew
    <2> QED
      BY <1>5 DEF FramesSound, RemoteIsNew
  <1> QED
    BY <1>6, <1>7, <1>8, <1>9, <1>10 DEF FramesSound

(* The innermost handler goes on: its frame g replaces the last one.  The  *)
(* task it works for becomes u.                                            *)
LEMMA FramesTop ==
    ASSUME TypeOK, FramesSound, stack # <<>>, NEW g \in Frame, NEW u \in TaskRecord,
           g.task = Last(stack).task,
           stack' = Append(Front(stack), g), task' = [task EXCEPT ![g.task] = u],
           request' = request,
           g.at = "remote" => Last(stack).at = "remote",
           g.at \in {"end", "rollback"} => isTaskDone(u.subState),
           g.at \in {"work", "rollback"}
             => \/ Last(stack).at \in {"work", "rollback"}
                \/ ~isTaskDone(task[g.task].subState),
           g.at \notin {"work", "rollback"} /\ isTaskDone(task[g.task].subState)
             => isTaskDone(u.subState)
    PROVE  FramesSound'
  <1>1. stack \in Seq(Frame)
    BY DEF TypeOK
  <1>2. /\ Len(stack) \in Nat \ {0} /\ Len(stack') = Len(stack)
        /\ DOMAIN stack = 1 .. Len(stack) /\ DOMAIN stack' = 1 .. Len(stack)
        /\ \A i \in 1 .. Len(stack) - 1 : stack'[i] = stack[i]
        /\ stack'[Len(stack)] = g
        /\ Last(stack) = stack[Len(stack)]
    <2>1. stack \in Seq(Frame) /\ stack # <<>> /\ g \in Frame
      BY <1>1
    <2>2. stack' = Append(Front(stack), g)
      OBVIOUS
    <2> QED
      BY ONLY <2>1, <2>2, TopReplaced
  <1>3. \A i \in DOMAIN stack' :
            \/ i \in DOMAIN stack /\ i # Len(stack) /\ stack'[i] = stack[i] /\ Spinning(stack[i])
            \/ i = Len(stack) /\ stack'[i] = g
    BY <1>2 DEF FramesSound, OthersSpin
  <1>4. g.task \in Tasks /\ \A i \in DOMAIN stack : stack[i].task \in Tasks
    BY StackPositions DEF Frame
  <1>5. /\ task'[g.task] = u
        /\ \A t \in Tasks \ {g.task} : task'[t] = task[t]
    BY <1>4 DEF TypeOK
  <1>6. OthersSpin'
    BY <1>2, <1>3 DEF OthersSpin, Spinning
  <1>7. EndIsDone'
    BY <1>2, <1>3, <1>5 DEF EndIsDone, Spinning
  <1>8. RollbackIsDone'
    <2> SUFFICES ASSUME NEW i \in DOMAIN stack', stack'[i].at = "rollback"
                 PROVE  /\ isTaskDone(task'[stack'[i].task].subState)
                        /\ \A k \in DOMAIN stack' :
                              k > i /\ stack'[k].task = stack'[i].task
                                 => stack'[k].at \notin {"work", "rollback"}
      BY DEF RollbackIsDone
    <2>1. CASE i = Len(stack)
      BY <1>2, <1>5, <2>1
    <2>2. CASE i # Len(stack)
      <3>1. i \in DOMAIN stack /\ stack'[i] = stack[i] /\ Len(stack) > i
        BY <1>2, <1>3, <2>2
      <3>2. /\ isTaskDone(task[stack[i].task].subState)
            /\ \A k \in DOMAIN stack :
                  k > i /\ stack[k].task = stack[i].task
                     => stack[k].at \notin {"work", "rollback"}
        BY <3>1 DEF FramesSound, RollbackIsDone
      <3>3. g.task = stack[i].task => /\ g.at \notin {"work", "rollback"}
                                      /\ isTaskDone(u.subState)
        BY <1>2, <3>1, <3>2
      <3> QED
        BY <1>2, <1>3, <1>4, <1>5, <3>1, <3>2, <3>3
    <2> QED
      BY <2>1, <2>2
  <1>9. RemoteIsRequest'
    BY <1>2, <1>3 DEF FramesSound, RemoteIsRequest
  <1>10. RemoteIsNew'
    <2>1. \A i \in DOMAIN stack' : /\ i \in DOMAIN stack
                                   /\ stack'[i].task = stack[i].task
                                   /\ stack'[i].at = "remote" => stack[i].at = "remote"
      BY <1>2, <1>3
    <2> QED
      BY <2>1 DEF FramesSound, RemoteIsNew
  <1> QED
    BY <1>6, <1>7, <1>8, <1>9, <1>10 DEF FramesSound

(* The innermost handler, a request or a job at its end, returns.  The     *)
(* tasks for which modules are pulled again stay done.                     *)
LEMMA FramesPop ==
    ASSUME TypeOK, FramesSound, stack # <<>>,
           stack' = Front(stack), request' = request,
           \A i \in DOMAIN stack : i # Len(stack) /\ isTaskDone(task[stack[i].task].subState)
                                    => isTaskDone(task'[stack[i].task].subState)
    PROVE  FramesSound'
  <1>1. stack \in Seq(Frame)
    BY DEF TypeOK
  <1>2. /\ Len(stack) \in Nat \ {0} /\ Len(stack') = Len(stack) - 1
        /\ DOMAIN stack = 1 .. Len(stack) /\ DOMAIN stack' = 1 .. Len(stack) - 1
        /\ \A i \in 1 .. Len(stack) - 1 : stack'[i] = stack[i]
        /\ Last(stack) = stack[Len(stack)]
    BY <1>1, Popped
  <1>3. \A i \in DOMAIN stack' :
            i \in DOMAIN stack /\ i # Len(stack) /\ stack'[i] = stack[i] /\ Spinning(stack[i])
    BY <1>2 DEF FramesSound, OthersSpin
  <1>4. \A i \in DOMAIN stack : stack[i].task \in Tasks
    BY StackPositions
  <1>5. OthersSpin'
    BY <1>3 DEF OthersSpin, Spinning
  <1>6. EndIsDone'
    BY <1>3 DEF EndIsDone, Spinning
  <1>7. RollbackIsDone'
    BY <1>2, <1>3, <1>4 DEF FramesSound, RollbackIsDone
  <1>8. RemoteIsRequest' /\ RemoteIsNew'
    BY <1>3 DEF FramesSound, RemoteIsRequest, RemoteIsNew
  <1> QED
    BY <1>5, <1>6, <1>7, <1>8 DEF FramesSound

(* The frames stay where they are: at most replies are stored, and tasks   *)
(* that were done stay done.                                               *)
LEMMA FramesKept ==
    ASSUME TypeOK, FramesSound, DOMAIN stack' = DOMAIN stack, Len(stack') = Len(stack),
           \A i \in DOMAIN stack : /\ stack'[i].at = stack[i].at
                                   /\ stack'[i].task = stack[i].task
                                   /\ request'[stack[i].task] = request[stack[i].task]
                                   /\ isTaskDone(task[stack[i].task].subState)
                                        => isTaskDone(task'[stack[i].task].subState)
    PROVE  FramesSound'
  <1>1. stack # <<>> => Len(stack) \in DOMAIN stack
    BY StackPositions
  <1>2. \A i \in DOMAIN stack : stack # <<>>
    BY StackPositions
  <1>3. OthersSpin'
    BY DEF FramesSound, OthersSpin, Spinning
  <1>4. EndIsDone'
    BY DEF FramesSound, EndIsDone
  <1>5. RollbackIsDone'
    BY <1>1, <1>2 DEF FramesSound, RollbackIsDone
  <1>6. RemoteIsRequest' /\ RemoteIsNew'
    BY DEF FramesSound, RemoteIsRequest, RemoteIsNew
  <1> QED
    BY <1>3, <1>4, <1>5, <1>6 DEF FramesSound

-----------------------------------------------------------------------------
(* Init and the steps                                                      *)

(* The package manager starts with no task, no signal and no handler: all parts of the invariant hold. *)
LEMMA InitIInv == Init => IInv
  <1> SUFFICES ASSUME Init PROVE IInv
    OBVIOUS
  <1>1. TemporaryTask \in TaskRecord
    <2>1. <<>> \in Seq(Refs)
      OBVIOUS
    <2> QED
      BY <2>1, Added DEF TemporaryTask
  <1>2. TypeOK
    <2>1. \A f \in Range(stack) : f.part \in DOMAIN request[f.task].refs
      <3>1. DOMAIN stack = {}
        BY DEF Init
      <3> QED
        BY <3>1, PartsInRange
    <2>2. alive \in BOOLEAN /\ request \in [Tasks -> Requests \cup {NoRequest}]
      BY DEF Init
    <2> QED
      BY <1>1, <2>1, <2>2 DEF Init, TypeOK
  <1>3. FramesSound
    BY DEF Init, FramesSound, OthersSpin, EndIsDone, RollbackIsDone, RemoteIsRequest, RemoteIsNew
  <1>4. RemovedOnlyWhenDone /\ NoLostWakeup
    BY DEF Init, RemovedOnlyWhenDone, NoLostWakeup, QueuedTasks
  <1> QED
    BY <1>2, <1>3, <1>4 DEF IInv

(* A new task at the end of the list: the types of what AddTask writes, and *)
(* the signal that is pending for it.                                      *)
LEMMA TaskAdded ==
    ASSUME TypeOK, NEW t \in Tasks, NEW r \in Request, AddTask(t, r)
    PROVE  /\ taskList' \in Seq(Tasks)
           /\ signals' \in Seq(Tasks \cup {NoPath})
           /\ signals' # <<>>
           /\ task' \in [Tasks -> TaskRecord]
           /\ \A u \in Tasks \ {t} : task'[u] = task[u]
           /\ task'[t].refs = r.refs
  <1>1. r.refs \in Seq(Refs)
    BY DEF Request
  <1>2. /\ updateState(NewTask(r.refs), "Queued") \in TaskRecord
        /\ updateState(NewTask(r.refs), "Queued").refs = r.refs
    BY <1>1, Added
  <1>3. taskList' \in Seq(Tasks) /\ signals' \in Seq(Tasks \cup {NoPath}) /\ signals' # <<>>
    BY DEF AddTask, TaskListChanged, TypeOK
  <1>4. task' = [task EXCEPT ![t] = updateState(NewTask(r.refs), "Queued")]
    BY DEF AddTask
  <1> QED
    BY <1>2, <1>3, <1>4 DEF TypeOK

(* Uninstall and InstallFromFile. *)
LEMMA RequestAtOnceIInv ==
    ASSUME IInv, NEW t \in Tasks, NEW r \in Requests, RequestAtOnce(t, r)
    PROVE  IInv'
  <1>1. TypeOK /\ r \in Request
    BY RequestsAssumption DEF IInv
  <1>2. /\ taskList' \in Seq(Tasks) /\ signals' \in Seq(Tasks \cup {NoPath}) /\ signals' # <<>>
        /\ task' \in [Tasks -> TaskRecord] /\ \A u \in Tasks \ {t} : task'[u] = task[u]
    BY <1>1, TaskAdded DEF RequestAtOnce
  <1>3. \A i \in DOMAIN stack : stack[i].task \in Tasks \ {t}
    BY <1>1, RequestTyped, StackPositions DEF RequestAtOnce
  <1>4. /\ request' \in [Tasks -> Requests \cup {NoRequest}]
        /\ \A u \in Tasks \ {t} : request'[u] = request[u]
    BY <1>1 DEF RequestAtOnce, TypeOK
  <1>5. TypeOK'
    <2>1. \A i \in DOMAIN stack' : stack'[i].part \in DOMAIN request'[stack'[i].task].refs
      BY <1>1, <1>3, <1>4, StackPositions DEF RequestAtOnce
    <2>2. \A f \in Range(stack') : f.part \in DOMAIN request'[f.task].refs
      BY <2>1, PartsInRange
    <2>3. alive' \in BOOLEAN
      BY <1>1 DEF RequestAtOnce, TypeOK
    <2> QED
      BY <1>1, <1>2, <1>4, <2>2, <2>3 DEF RequestAtOnce, TypeOK
  <1>6. FramesSound'
    <2>1. DOMAIN stack' = DOMAIN stack /\ Len(stack') = Len(stack) /\ stack' = stack
      BY DEF RequestAtOnce
    <2> QED
      BY <1>1, <1>2, <1>3, <1>4, <2>1, FramesKept DEF IInv
  <1>7. RemovedOnlyWhenDone' /\ NoLostWakeup'
    BY <1>2 DEF IInv, RequestAtOnce, RemovedOnlyWhenDone, NoLostWakeup
  <1> QED
    BY <1>5, <1>6, <1>7 DEF IInv

(* Install and Update begin to wait for the remote. *)
LEMMA RequestRemoteIInv ==
    ASSUME IInv, NEW t \in Tasks, NEW r \in Requests, RequestRemote(t, r)
    PROVE  IInv'
  <1>1. TypeOK /\ r \in Request
    BY RequestsAssumption DEF IInv
  <1>2. 1 \in DOMAIN r.refs
    <2>1. r.refs \in Seq(Refs) /\ r.refs # <<>>
      BY <1>1 DEF Request
    <2> QED
      BY <2>1, EmptySeq, LenProperties
  <1> DEFINE f == RequestFrame(t, 1)
  <1>3. f \in Frame /\ f.at = "remote" /\ f.task = t /\ f.part = 1
    BY DEF RequestFrame, Frame
  <1> HIDE DEF f
  <1>4. stack' = Append(stack, f)
    BY DEF RequestRemote, f
  <1>5. \A i \in DOMAIN stack : stack[i].task \in Tasks \ {t}
    BY <1>1, RequestTyped, StackPositions DEF RequestRemote
  <1>6. /\ request' \in [Tasks -> Requests \cup {NoRequest}]
        /\ request'[t] = r
        /\ \A u \in Tasks \ {t} : request'[u] = request[u]
    BY <1>1 DEF RequestRemote, TypeOK
  <1>7. TypeOK'
    <2>1. stack \in Seq(Frame)
      BY <1>1 DEF TypeOK
    <2>2. /\ stack' \in Seq(Frame)
          /\ \A i \in DOMAIN stack' : \/ i \in DOMAIN stack /\ stack'[i] = stack[i]
                                      \/ stack'[i] = f
      BY <1>3, <1>4, <2>1, Pushed
    <2>3. \A i \in DOMAIN stack' : stack'[i].part \in DOMAIN request'[stack'[i].task].refs
      BY <1>1, <1>2, <1>3, <1>5, <1>6, <2>2, StackPositions
    <2>4. \A g \in Range(stack') : g.part \in DOMAIN request'[g.task].refs
      BY <2>3, PartsInRange
    <2> QED
      BY <1>1, <1>6, <2>2, <2>4 DEF RequestRemote, TypeOK
  <1>8. FramesSound'
    <2>1. request'[f.task].kind \in {"install", "update"} /\ LoopTurning /\ task' = task
      BY <1>3, <1>6 DEF RequestRemote
    <2> QED
      BY <1>1, <1>3, <1>4, <1>5, <1>6, <2>1, FramesPush DEF IInv
  <1>9. RemovedOnlyWhenDone'
    BY DEF IInv, RequestRemote, RemovedOnlyWhenDone
  <1>10. NoLostWakeup'
    <2>1. \A i \in DOMAIN stack : i \in DOMAIN stack' /\ stack'[i] = stack[i]
      <3>1. stack \in Seq(Frame)
        BY <1>1 DEF TypeOK
      <3> QED
        BY <1>3, <1>4, <3>1, Pushed
    <2>2. JobFrames' = {} => JobFrames = {}
      BY <2>1 DEF JobFrames, IsJob
    <2> QED
      BY <2>2 DEF IInv, NoLostWakeup, RequestRemote, QueuedTasks
  <1> QED
    BY <1>7, <1>8, <1>9, <1>10 DEF IInv

(* Install and Update go on when the remote has answered. *)
LEMMA RemoteAnsweredIInv ==
    ASSUME IInv, RemoteAnswered
    PROVE  IInv'
  <1>1. TypeOK /\ FramesSound
    BY DEF IInv
  <1>2. stack \in Seq(Frame) /\ stack # <<>> /\ Last(stack).at = "remote" /\ request' = request
    BY <1>1 DEF TypeOK, RemoteAnswered
  <1> DEFINE f == Last(stack)
             r == request[f.task]
  <1>3. /\ f \in Frame /\ f.task \in Tasks /\ f.part \in DOMAIN r.refs
        /\ r.kind \in {"install", "update"}
    BY <1>1, <1>2, StackPositions DEF FramesSound, RemoteIsRequest, Frame
  <1>4. r \in Request
    <2>1. r # NoRequest
      BY <1>3 DEF NoRequest
    <2> QED
      BY <1>1, <1>3, <2>1, RequestTyped
  <1>5. /\ Front(stack) \in Seq(Frame)
        /\ DOMAIN Front(stack) \subseteq DOMAIN stack
        /\ \A i \in DOMAIN Front(stack) : Front(stack)[i] = stack[i]
        /\ \A i \in DOMAIN stack : i \in DOMAIN Front(stack) \/ stack[i] = f
    <2>1. /\ Len(stack) \in Nat \ {0} /\ DOMAIN stack = 1 .. Len(stack)
          /\ Front(stack) \in Seq(Frame) /\ DOMAIN Front(stack) = 1 .. Len(stack) - 1
          /\ \A i \in 1 .. Len(stack) - 1 : Front(stack)[i] = stack[i]
          /\ Last(stack) = stack[Len(stack)]
      BY <1>2, Popped
    <2> QED
      BY <2>1
  <1>6. RemovedOnlyWhenDone'
    BY DEF IInv, RemoteAnswered, RemovedOnlyWhenDone
  <1>7. ASSUME stack' = Front(stack)
        PROVE  /\ stack' \in Seq(Frame)
               /\ \A g \in Range(stack') : g.part \in DOMAIN request'[g.task].refs
               /\ JobFrames' = {} => JobFrames = {}
    <2>1. \A i \in DOMAIN stack' : stack'[i].part \in DOMAIN request'[stack'[i].task].refs
      BY <1>1, <1>2, <1>5, <1>7, StackPositions
    <2>2. \A g \in Range(stack') : g.part \in DOMAIN request'[g.task].refs
      BY <2>1, PartsInRange
    <2>3. \A i \in DOMAIN stack : IsJob(stack[i]) => i \in DOMAIN stack' /\ stack'[i] = stack[i]
      BY <1>2, <1>5, <1>7 DEF IsJob
    <2>4. JobFrames' = {} => JobFrames = {}
      BY <2>3 DEF JobFrames, IsJob
    <2> QED
      BY <1>5, <1>7, <2>2, <2>4
  <1>8. CASE RefuseRequest
    <2>1. stack' = Front(stack) /\ UNCHANGED <<taskList, task, signals>>
      BY <1>8 DEF RefuseRequest
    <2>2. TypeOK'
      BY <1>1, <1>7, <2>1 DEF TypeOK, RemoteAnswered
    <2>3. FramesSound'
      BY <1>1, <1>2, <2>1, FramesPop
    <2>4. NoLostWakeup'
      BY <1>7, <2>1 DEF IInv, NoLostWakeup, RemoteAnswered, QueuedTasks
    <2> QED
      BY <1>6, <2>2, <2>3, <2>4 DEF IInv
  <1>9. CASE /\ f.part < Len(r.refs)
             /\ stack' = Append(Front(stack), RequestFrame(f.task, f.part + 1))
             /\ UNCHANGED <<taskList, task, signals>>
    <2> DEFINE g == RequestFrame(f.task, f.part + 1)
    <2>1. r.refs \in Seq(Refs)
      BY <1>4 DEF Request
    <2>2. f.part + 1 \in DOMAIN r.refs /\ f.part + 1 \in Nat
      BY <1>3, <1>9, <2>1, LenProperties
    <2>3. g \in Frame /\ g.at = "remote" /\ g.task = f.task /\ g.part = f.part + 1
      BY <1>3, <2>2 DEF RequestFrame, Frame
    <2> HIDE DEF g, f
    <2>4. /\ stack' \in Seq(Frame)
          /\ \A i \in DOMAIN stack' : \/ i \in DOMAIN stack /\ stack'[i] = stack[i]
                                      \/ stack'[i] = g
          /\ \A i \in DOMAIN stack : \/ i \in DOMAIN stack' /\ stack'[i] = stack[i]
                                     \/ stack[i] = f
      <3>1. stack' = Append(Front(stack), g)
        BY <1>9 DEF g, f
      <3>2. /\ Len(stack) \in Nat \ {0} /\ DOMAIN stack = 1 .. Len(stack)
            /\ stack' \in Seq(Frame) /\ DOMAIN stack' = 1 .. Len(stack)
            /\ \A i \in 1 .. Len(stack) - 1 : stack'[i] = stack[i]
            /\ stack'[Len(stack)] = g
            /\ Last(stack) = stack[Len(stack)]
        BY <1>2, <2>3, <3>1, TopReplaced
      <3> QED
        BY <3>2 DEF f
    <2>5. \A i \in DOMAIN stack' : stack'[i].part \in DOMAIN request'[stack'[i].task].refs
      BY <1>1, <1>2, <2>2, <2>3, <2>4, StackPositions DEF f
    <2>6. \A h \in Range(stack') : h.part \in DOMAIN request'[h.task].refs
      BY <2>5, PartsInRange
    <2>7. TypeOK'
      BY <1>1, <1>9, <2>4, <2>6 DEF TypeOK, RemoteAnswered
    <2>8. FramesSound'
      <3>1. task \in [Tasks -> TaskRecord]
        BY <1>1 DEF TypeOK
      <3>2. task' = [task EXCEPT ![g.task] = task[g.task]]
        BY <1>3, <1>9, <2>3, <3>1
      <3>3. task[g.task] \in TaskRecord
        BY <1>3, <2>3, <3>1
      <3>4. stack' = Append(Front(stack), g) /\ g.task = Last(stack).task
        BY <1>9, <2>3 DEF g, f
      <3> HIDE DEF r
      <3> QED
        BY <1>1, <1>2, <2>3, <3>2, <3>3, <3>4, FramesTop
    <2>9. NoLostWakeup'
      <3>1. \A i \in DOMAIN stack : IsJob(stack[i]) => i \in DOMAIN stack' /\ stack'[i] = stack[i]
        BY <1>2, <2>4 DEF IsJob, f
      <3>2. JobFrames' = {} => JobFrames = {}
        BY <3>1 DEF JobFrames, IsJob
      <3> QED
        BY <1>9, <3>2 DEF IInv, NoLostWakeup, RemoteAnswered, QueuedTasks
    <2> QED
      BY <1>6, <2>7, <2>8, <2>9 DEF IInv
  <1>10. CASE AddTask(f.task, r) /\ stack' = Front(stack)
    <2>1. /\ taskList' \in Seq(Tasks) /\ signals' \in Seq(Tasks \cup {NoPath}) /\ signals' # <<>>
          /\ task' \in [Tasks -> TaskRecord] /\ \A u \in Tasks \ {f.task} : task'[u] = task[u]
      BY <1>1, <1>3, <1>4, <1>10, TaskAdded
    <2>2. TypeOK'
      BY <1>1, <1>7, <1>10, <2>1 DEF TypeOK, RemoteAnswered
    <2>3. \A i \in DOMAIN stack : i # Len(stack) => task'[stack[i].task] = task[stack[i].task]
      BY <1>1, <1>2, <2>1, StackPositions DEF FramesSound, RemoteIsNew
    <2>4. FramesSound'
      BY <1>1, <1>2, <1>10, <2>1, <2>3, FramesPop
    <2>5. NoLostWakeup'
      BY <2>1 DEF NoLostWakeup
    <2> QED
      BY <1>6, <2>2, <2>4, <2>5 DEF IInv
  <1> QED
    BY <1>8, <1>9, <1>10 DEF RemoteAnswered

(* A task that is not done keeps or changes its state; the list of those   *)
(* a signal may start does not grow.                                       *)
LEMMA QueuedShrinks ==
    ASSUME TypeOK, taskList' = taskList,
           \A t \in Tasks : task'[t].state = "Queued" => task[t].state = "Queued"
    PROVE  QueuedTasks' # {} => QueuedTasks # {}
  <1>1. \A i \in DOMAIN taskList : taskList[i] \in Tasks
    BY LenProperties, ElementOfSeq DEF TypeOK
  <1> QED
    BY <1>1 DEF QueuedTasks

(* Task1.Cancel. *)
LEMMA CancelTaskIInv ==
    ASSUME IInv, NEW t \in Tasks, CancelTask(t)
    PROVE  IInv'
  <1>1. TypeOK /\ FramesSound
    BY DEF IInv
  <1>2. task[t] \in TaskRecord /\ task' = [task EXCEPT ![t] = Cancel(task[t])]
    BY <1>1 DEF TypeOK, CancelTask
  <1>3. /\ task' \in [Tasks -> TaskRecord]
        /\ \A u \in Tasks : /\ task'[u].state = "Queued" => task[u].state = "Queued"
                            /\ isTaskDone(task[u].subState) => isTaskDone(task'[u].subState)
    BY <1>1, <1>2, Cancelled DEF TypeOK
  <1>4. TypeOK'
    BY <1>1, <1>3 DEF TypeOK, CancelTask
  <1>5. FramesSound'
    <2>1. stack' = stack /\ request' = request
      BY DEF CancelTask
    <2> QED
      BY <1>1, <1>3, <2>1, FramesKept, StackPositions
  <1>6. RemovedOnlyWhenDone'
    BY DEF IInv, CancelTask, RemovedOnlyWhenDone
  <1>7. NoLostWakeup'
    BY <1>1, <1>3, QueuedShrinks DEF IInv, NoLostWakeup, CancelTask, JobFrames, IsJob
  <1> QED
    BY <1>4, <1>5, <1>6, <1>7 DEF IInv

(* A client's answer, which every waiting handler takes. *)
LEMMA ReplyInteractionIInv ==
    ASSUME IInv, NEW t \in Tasks, NEW answer \in {"yes", "no"}, ReplyInteraction(t, answer)
    PROVE  IInv'
  <1>1. TypeOK /\ FramesSound
    BY DEF IInv
  <1>2. stack' = [i \in DOMAIN stack |->
                    IF stack[i].at = "interact"
                      THEN [stack[i] EXCEPT !.reply = answer] ELSE stack[i]]
    BY DEF ReplyInteraction
  <1>3. /\ Len(stack) \in Nat /\ DOMAIN stack = 1 .. Len(stack)
        /\ \A i \in DOMAIN stack : stack[i] \in Frame
    BY <1>1, StackPositions
  <1>4. /\ DOMAIN stack' = 1 .. Len(stack)
        /\ \A i \in DOMAIN stack : /\ stack'[i] \in Frame
                                   /\ stack'[i].at = stack[i].at
                                   /\ stack'[i].task = stack[i].task
                                   /\ stack'[i].part = stack[i].part
    BY <1>2, <1>3 DEF Frame
  <1>5. stack' \in Seq(Frame) /\ Len(stack') = Len(stack)
    <2>1. stack' \in [1 .. Len(stack) -> Frame]
      BY <1>2, <1>3, <1>4
    <2> QED
      BY <1>3, <1>4, <2>1, SeqDef
  <1>6. \A g \in Range(stack') : g.part \in DOMAIN request'[g.task].refs
    <2>1. \A i \in DOMAIN stack' : stack'[i].part \in DOMAIN request'[stack'[i].task].refs
      BY <1>1, <1>3, <1>4, StackPositions DEF ReplyInteraction
    <2> QED
      BY <2>1, PartsInRange
  <1>7. /\ task' \in [Tasks -> TaskRecord]
        /\ \A u \in Tasks : /\ task'[u].state = "Queued" => task[u].state = "Queued"
                            /\ isTaskDone(task[u].subState) => isTaskDone(task'[u].subState)
    <2>1. "Canceled" \in States
      BY DEF States
    <2>2. \A u \in Tasks : task[u] \in TaskRecord
      BY <1>1 DEF TypeOK
    <2>3. \A u \in Tasks :
             /\ updateState(task[u], "Canceled") \in TaskRecord
             /\ updateState(task[u], "Canceled").state \in {"Canceled", "Succeed"}
             /\ isTaskDone(updateState(task[u], "Canceled").subState)
      BY <2>1, <2>2, StateUpdated
    <2>4. /\ DOMAIN task' = Tasks /\ task' = [u \in Tasks |-> task'[u]]
          /\ \A u \in Tasks : task'[u] = task[u] \/ task'[u] = updateState(task[u], "Canceled")
      BY DEF ReplyInteraction
    <2> QED
      BY <2>2, <2>3, <2>4
  <1>8. asked' \in [Tasks -> Nat] /\ leaked' \in Nat
    BY <1>1 DEF TypeOK, ReplyInteraction
  <1>9. alive' \in BOOLEAN
    BY DEF ReplyInteraction
  <1>10. TypeOK'
    BY <1>1, <1>5, <1>6, <1>7, <1>8, <1>9 DEF TypeOK, ReplyInteraction
  <1>11. FramesSound'
    <2>1. request' = request
      BY DEF ReplyInteraction
    <2> QED
      BY <1>1, <1>3, <1>4, <1>5, <1>7, <2>1, FramesKept, StackPositions
  <1>12. RemovedOnlyWhenDone'
    BY DEF IInv, ReplyInteraction, RemovedOnlyWhenDone
  <1>13. NoLostWakeup'
    <2>1. JobFrames' = {} => JobFrames = {}
      BY <1>3, <1>4 DEF JobFrames, IsJob
    <2> QED
      BY <1>1, <1>7, <2>1, QueuedShrinks DEF IInv, NoLostWakeup, ReplyInteraction
  <1> QED
    BY <1>10, <1>11, <1>12, <1>13 DEF IInv

(* The TaskListChanged handler while something runs. *)
LEMMA NotifyWaitingIInv ==
    ASSUME IInv, NotifyWaiting
    PROVE  IInv'
  <1>1. TypeOK /\ FramesSound
    BY DEF IInv
  <1>2. signals' \in Seq(Tasks \cup {NoPath})
    BY <1>1 DEF TypeOK, NotifyWaiting
  <1>3. /\ task' \in [Tasks -> TaskRecord]
        /\ \A u \in Tasks : isTaskDone(task[u].subState) => isTaskDone(task'[u].subState)
    <2>1. "Queued" \in States
      BY DEF States
    <2>2. \A u \in Tasks : task[u] \in TaskRecord
      BY <1>1 DEF TypeOK
    <2>3. \A u \in Tasks :
             /\ updateState(task[u], "Queued") \in TaskRecord
             /\ isTaskDone(task[u].subState) => isTaskDone(updateState(task[u], "Queued").subState)
      BY <2>1, <2>2, StateUpdated
    <2>4. /\ DOMAIN task' = Tasks /\ task' = [u \in Tasks |-> task'[u]]
          /\ \A u \in Tasks : task'[u] = task[u] \/ task'[u] = updateState(task[u], "Queued")
      BY DEF NotifyWaiting
    <2> QED
      BY <2>2, <2>3, <2>4
  <1>4. TypeOK'
    BY <1>1, <1>2, <1>3 DEF TypeOK, NotifyWaiting
  <1>5. FramesSound'
    <2>1. stack' = stack /\ request' = request
      BY DEF NotifyWaiting
    <2> QED
      BY <1>1, <1>3, <2>1, FramesKept, StackPositions
  <1>6. RemovedOnlyWhenDone' /\ NoLostWakeup'
    BY DEF IInv, NotifyWaiting, RemovedOnlyWhenDone, NoLostWakeup
  <1> QED
    BY <1>4, <1>5, <1>6 DEF IInv

(* The TaskListChanged handler while nothing runs. *)
LEMMA StartNextIInv ==
    ASSUME IInv, ListedKeepsRefs, RemoteUnlisted, StartNext
    PROVE  IInv'
  <1>1. TypeOK /\ FramesSound
    BY DEF IInv
  <1>2. /\ signals' \in Seq(Tasks \cup {NoPath})
        /\ runningTaskObjectPath' \in Tasks \cup {NoPath}
    BY <1>1 DEF TypeOK, StartNext
  <1>3. RemovedOnlyWhenDone'
    BY DEF IInv, StartNext, RemovedOnlyWhenDone
  <1>4. CASE QueuedTasks = {} /\ stack' = stack
    <2>1. TypeOK'
      BY <1>1, <1>2, <1>4 DEF TypeOK, StartNext
    <2>2. FramesSound'
      BY <1>1, <1>4, FramesKept, StackPositions DEF StartNext
    <2>3. NoLostWakeup'
      BY <1>4 DEF NoLostWakeup, StartNext, QueuedTasks
    <2> QED
      BY <1>3, <2>1, <2>2, <2>3 DEF IInv
  <1>5. ASSUME NEW k \in QueuedTasks, stack' = Append(stack, JobFrame(taskList[k]))
        PROVE  IInv'
    <2> DEFINE t == taskList[k]
               f == JobFrame(t)
    <2>1. t \in Tasks /\ request[t] # NoRequest
      BY <1>1, LenProperties, ElementOfSeq DEF TypeOK, QueuedTasks, ListedKeepsRefs
    <2>2. 1 \in DOMAIN request[t].refs
      <3>1. request[t].refs \in Seq(Refs) /\ request[t].refs # <<>>
        BY <1>1, <2>1, RequestTyped DEF Request
      <3> QED
        BY <3>1, EmptySeq, LenProperties
    <2>3. f \in Frame /\ f.at = "start" /\ f.task = t /\ f.part = 1
      BY <2>1 DEF JobFrame, Frame
    <2>4. stack' = Append(stack, f) /\ task' = task /\ request' = request /\ LoopTurning
      BY <1>5 DEF StartNext
    <2> HIDE DEF f, t
    <2>5. stack \in Seq(Frame)
      BY <1>1 DEF TypeOK
    <2>6. /\ stack' \in Seq(Frame)
          /\ \A i \in DOMAIN stack' : \/ i \in DOMAIN stack /\ stack'[i] = stack[i]
                                      \/ stack'[i] = f
          /\ Len(stack) + 1 \in DOMAIN stack'
          /\ stack'[Len(stack) + 1] = f
      BY <2>3, <2>4, <2>5, Pushed
    <2>7. \A g \in Range(stack') : g.part \in DOMAIN request'[g.task].refs
      <3>1. \A i \in DOMAIN stack' : stack'[i].part \in DOMAIN request'[stack'[i].task].refs
        BY <1>1, <2>2, <2>3, <2>4, <2>6, StackPositions
      <3> QED
        BY <3>1, PartsInRange
    <2>8. TypeOK'
      BY <1>1, <1>2, <2>6, <2>7 DEF TypeOK, StartNext
    <2>9. FramesSound'
      <3>1. \A i \in DOMAIN stack : stack[i].task = f.task => stack[i].at # "remote"
        BY <2>3 DEF RemoteUnlisted, QueuedTasks, t
      <3> QED
        BY <1>1, <2>3, <2>4, <3>1, FramesPush
    <2>10. NoLostWakeup'
      BY <2>3, <2>6 DEF NoLostWakeup, JobFrames, IsJob
    <2> QED
      BY <1>3, <2>8, <2>9, <2>10 DEF IInv
  <1> QED
    BY <1>4, <1>5 DEF StartNext

(* A job goes on, at g, and leaves its task as u. *)
LEMMA JobGoesOn ==
    ASSUME IInv, stack # <<>>, NEW g \in Frame, NEW u \in TaskRecord,
           g.task = Last(stack).task, g.part \in DOMAIN request[g.task].refs, g.at # "remote",
           stack' = Append(Front(stack), g), task' = [task EXCEPT ![g.task] = u],
           UNCHANGED <<taskList, request, runningTaskObjectPath, signals, removed, alive>>,
           asked' \in [Tasks -> Nat], leaked' \in Nat,
           g.at \in {"end", "rollback"} => isTaskDone(u.subState),
           g.at \in {"work", "rollback"}
             => \/ Last(stack).at \in {"work", "rollback"}
                \/ ~isTaskDone(task[g.task].subState),
           g.at \notin {"work", "rollback"} /\ isTaskDone(task[g.task].subState)
             => isTaskDone(u.subState)
    PROVE  IInv'
  <1>1. TypeOK /\ FramesSound
    BY DEF IInv
  <1>2. /\ stack' \in Seq(Frame)
        /\ \A i \in DOMAIN stack' : \/ i \in DOMAIN stack /\ stack'[i] = stack[i]
                                    \/ stack'[i] = g
        /\ Len(stack) \in DOMAIN stack' /\ stack'[Len(stack)] = g
    <2>1. stack \in Seq(Frame) /\ stack # <<>> /\ g \in Frame
      BY <1>1 DEF TypeOK
    <2>2. stack' = Append(Front(stack), g)
      OBVIOUS
    <2>3. /\ Len(stack) \in Nat \ {0} /\ DOMAIN stack = 1 .. Len(stack)
          /\ stack' \in Seq(Frame) /\ DOMAIN stack' = 1 .. Len(stack)
          /\ \A i \in 1 .. Len(stack) - 1 : stack'[i] = stack[i]
          /\ stack'[Len(stack)] = g
      BY ONLY <2>1, <2>2, TopReplaced
    <2> QED
      BY ONLY <2>3
  <1>3. \A h \in Range(stack') : h.part \in DOMAIN request'[h.task].refs
    <2>1. \A i \in DOMAIN stack' : stack'[i].part \in DOMAIN request'[stack'[i].task].refs
      BY <1>1, <1>2, StackPositions
    <2> QED
      BY <2>1, PartsInRange
  <1>4. task' \in [Tasks -> TaskRecord]
    BY <1>1 DEF TypeOK
  <1>5. TypeOK'
    BY <1>1, <1>2, <1>3, <1>4 DEF TypeOK
  <1>6. FramesSound'
    BY <1>1, FramesTop
  <1>7. RemovedOnlyWhenDone'
    BY DEF IInv, RemovedOnlyWhenDone
  <1>8. NoLostWakeup'
    BY <1>2 DEF NoLostWakeup, JobFrames, IsJob
  <1> QED
    BY <1>5, <1>6, <1>7, <1>8 DEF IInv

(* The innermost handler, when it is a job. *)
LEMMA JobTyped ==
    ASSUME IInv, stack # <<>>
    PROVE  /\ Last(stack) \in Frame
           /\ Last(stack).task \in Tasks
           /\ Last(stack).part \in DOMAIN request[Last(stack).task].refs
           /\ Last(stack).part \in Nat
           /\ task[Last(stack).task] \in TaskRecord
           /\ Last(stack).at \in {"end", "rollback"}
                => isTaskDone(task[Last(stack).task].subState)
  <1>1. TypeOK /\ FramesSound
    BY DEF IInv
  <1>2. Last(stack) = stack[Len(stack)] /\ Len(stack) \in DOMAIN stack
    BY <1>1, StackPositions
  <1> QED
    BY <1>1, <1>2, StackPositions
       DEF TypeOK, Frame, FramesSound, EndIsDone, RollbackIsDone

(* A job that asks a question waits on, with its task as it was. *)
LEMMA JobAsksIInv ==
    ASSUME IInv, JobAsks
    PROVE  IInv'
  <1> DEFINE f == Last(stack)
             g == [f EXCEPT !.at = "interact"]
  <1>1. f \in Frame /\ f.task \in Tasks /\ task[f.task] \in TaskRecord
    BY JobTyped DEF JobAsks
  <1>2. f.part \in DOMAIN request[f.task].refs /\ stack # <<>>
    BY JobTyped DEF JobAsks
  <1>3. g \in Frame /\ g.task = f.task /\ g.part = f.part /\ g.at = "interact"
    BY <1>1 DEF Frame
  <1>4. stack' = Append(Front(stack), g) /\ request[g.task].kind \in {"install", "file"}
    BY <1>3 DEF JobAsks, Goto
  <1>5. asked' \in [Tasks -> Nat] /\ leaked' \in Nat
    BY <1>1 DEF JobAsks, IInv, TypeOK
  <1>6. task' = [task EXCEPT ![g.task] = task[f.task]]
    BY <1>1, <1>3 DEF JobAsks, IInv, TypeOK
  <1>7. UNCHANGED <<taskList, request, runningTaskObjectPath, signals, removed, alive>>
    BY DEF JobAsks
  <1>8. g.task = Last(stack).task /\ g.part \in DOMAIN request[g.task].refs
    BY <1>2, <1>3
  <1> HIDE DEF g
  <1> QED
    BY <1>1, <1>2, <1>3, <1>4, <1>5, <1>6, <1>7, <1>8, JobGoesOn

(* A job that need not ask, or got its answer, begins its work or ends with a done task. *)
LEMMA JobProceedsIInv ==
    ASSUME IInv, JobProceeds
    PROVE  IInv'
  <1> DEFINE f == Last(stack)
             r == request[f.task]
             t == IF f.reply = "no" /\ r.kind = "install"
                    THEN updateState(task[f.task], "Canceled") ELSE task[f.task]
             g == [f EXCEPT !.at = IF isTaskDone(t.subState) THEN "end" ELSE "work"]
             u == IF isTaskDone(t.subState) THEN t ELSE BeginWork(t)
  <1>1. f \in Frame /\ f.task \in Tasks /\ task[f.task] \in TaskRecord
    BY JobTyped DEF JobProceeds
  <1>2. f.part \in DOMAIN r.refs /\ stack # <<>>
    BY JobTyped DEF JobProceeds
  <1>3. t \in TaskRecord
    BY <1>1, StateUpdated DEF States
  <1>4. /\ task' = [task EXCEPT ![f.task] = u]
        /\ stack' = Append(Front(stack), g)
        /\ leaked' \in {leaked, leaked + 1}
        /\ asked' = asked
        /\ UNCHANGED <<taskList, request, runningTaskObjectPath, signals, removed, alive>>
    BY DEF JobProceeds, Goto
  <1> HIDE DEF t
  <1>5. /\ g \in Frame /\ g.task = f.task /\ g.part = f.part
        /\ g.at = IF isTaskDone(t.subState) THEN "end" ELSE "work"
    BY <1>1 DEF Frame
  <1>6. /\ u \in TaskRecord
        /\ \/ g.at = "work" /\ ~isTaskDone(task[g.task].subState)
           \/ g.at = "end" /\ isTaskDone(u.subState)
    <2>1. CASE isTaskDone(t.subState)
      BY <1>3, <1>5, <2>1
    <2>2. CASE ~isTaskDone(t.subState)
      <3>1. t = task[f.task]
        BY <1>1, <2>2, StateUpdated DEF t, States
      <3> QED
        BY <1>3, <1>5, <2>2, <3>1, Begun
    <2> QED
      BY <2>1, <2>2
  <1>7. asked' \in [Tasks -> Nat] /\ leaked' \in Nat
    BY <1>4 DEF IInv, TypeOK
  <1>8. g.task = Last(stack).task /\ g.part \in DOMAIN request[g.task].refs
    BY <1>2, <1>5
  <1>9. task' = [task EXCEPT ![g.task] = u]
    BY <1>4, <1>5
  <1> HIDE DEF g, u
  <1> QED
    BY <1>2, <1>4, <1>5, <1>6, <1>7, <1>8, <1>9, JobGoesOn

(* The frame of a job that begins with its next package. *)
LEMMA NextFrame ==
    ASSUME NEW f \in Frame, NEW g, g = [f EXCEPT !.part = @ + 1, !.at = "work"]
    PROVE  g \in Frame /\ g.task = f.task /\ g.part = f.part + 1 /\ g.at = "work"
  <1> DEFINE h == [f EXCEPT !.part = @ + 1]
  <1>1. h \in Frame /\ h.task = f.task /\ h.part = f.part + 1
    BY DEF Frame
  <1>2. g = [h EXCEPT !.at = "work"]
    BY DEF Frame
  <1> HIDE DEF h
  <1> QED
    BY <1>1, <1>2 DEF Frame

(* After a part, whose last word t is, a job begins with its next package or is at its end. *)
LEMMA NextPartIInv ==
    ASSUME IInv, stack # <<>>, Last(stack).at \in {"work", "rollback"},
           NEW t \in TaskRecord, isTaskDone(t.subState), NextPart(Last(stack), t),
           UNCHANGED <<taskList, request, runningTaskObjectPath, signals, asked, leaked,
                       removed, alive>>
    PROVE  IInv'
  <1> DEFINE f == Last(stack)
             r == request[f.task]
  <1>1. f \in Frame /\ f.task \in Tasks /\ f.part \in DOMAIN r.refs /\ f.part \in Nat
    BY JobTyped
  <1>2. asked' \in [Tasks -> Nat] /\ leaked' \in Nat
    BY DEF IInv, TypeOK
  <1>3. BeginWork(t) \in TaskRecord
    BY Begun
  <1>4. CASE /\ MoreParts(r, f.part)
             /\ task' = [task EXCEPT ![f.task] = BeginWork(t)]
             /\ stack' = Append(Front(stack), [f EXCEPT !.part = @ + 1, !.at = "work"])
    <2> DEFINE g == [f EXCEPT !.part = @ + 1, !.at = "work"]
    <2>1. g \in Frame /\ g.task = f.task /\ g.part = f.part + 1 /\ g.at = "work"
      BY <1>1, NextFrame
    <2>2. r.refs \in Seq(Refs)
      BY <1>1, RequestTyped DEF IInv
    <2>3. g.part \in DOMAIN r.refs
      BY <1>1, <1>4, <2>1, <2>2, LenProperties DEF MoreParts
    <2>4. g.task = Last(stack).task /\ g.part \in DOMAIN request[g.task].refs
      BY <2>1, <2>3
    <2>5. stack' = Append(Front(stack), g) /\ task' = [task EXCEPT ![g.task] = BeginWork(t)]
      BY <1>4, <2>1
    <2> HIDE DEF g
    <2> QED
      BY <1>2, <1>3, <2>1, <2>4, <2>5, JobGoesOn
  <1>5. CASE Goto(f, "end") /\ task' = [task EXCEPT ![f.task] = t]
    <2> DEFINE g == [f EXCEPT !.at = "end"]
    <2>1. g \in Frame /\ g.task = f.task /\ g.part = f.part /\ g.at = "end"
      BY <1>1 DEF Frame
    <2>2. g.task = Last(stack).task /\ g.part \in DOMAIN request[g.task].refs
      BY <1>1, <2>1
    <2>3. stack' = Append(Front(stack), g) /\ task' = [task EXCEPT ![g.task] = t]
      BY <1>5, <2>1 DEF Goto
    <2> HIDE DEF g
    <2> QED
      BY <1>2, <2>1, <2>2, <2>3, JobGoesOn
  <1> QED
    BY <1>4, <1>5 DEF NextPart

(* A job whose lost modules are pulled again is innermost: its task is done when it goes on. *)
LEMMA JobRolledBackIInv ==
    ASSUME IInv, JobRolledBack
    PROVE  IInv'
  BY JobTyped, NextPartIInv DEF JobRolledBack

(* A cancelled task that is in progress again is at work. *)
LEMMA JobRevivesIInv ==
    ASSUME IInv, JobRevives
    PROVE  IInv'
  <1> DEFINE f == Last(stack)
  <1>1. /\ f \in Frame /\ f.task \in Tasks /\ task[f.task] \in TaskRecord
        /\ f.part \in DOMAIN request[f.task].refs /\ stack # <<>> /\ f.at = "work"
    BY JobTyped DEF JobRevives
  <1>2. PICK sub \in {"InstallRuntime", "InstallBase"} :
              task' = [task EXCEPT ![f.task] = updateSubState(task[f.task], sub)]
    BY DEF JobRevives
  <1>3. updateSubState(task[f.task], sub) \in TaskRecord
    BY <1>1, SubStateUpdated DEF SubStates
  <1>4. stack' = Append(Front(stack), f)
    <2>1. stack \in Seq(Frame) /\ stack' = stack
      BY DEF IInv, TypeOK, JobRevives
    <2>2. /\ Append(Front(stack), f) \in Seq(Frame)
          /\ Len(Append(Front(stack), f)) = Len(stack)
          /\ \A i \in 1 .. Len(stack) : Append(Front(stack), f)[i] = stack[i]
      BY <1>1, <2>1, TopReplaced
    <2> HIDE DEF f
    <2> QED
      BY <2>1, <2>2, SeqEqual
  <1>5. /\ asked' \in [Tasks -> Nat] /\ leaked' \in Nat
        /\ UNCHANGED <<taskList, request, runningTaskObjectPath, signals, removed, alive>>
    BY DEF JobRevives, IInv, TypeOK
  <1> QED
    BY <1>1, <1>2, <1>3, <1>4, <1>5, JobGoesOn

(* The work of a job goes on with its next package, or leaves the task done at its end or before modules are pulled again. *)
LEMMA JobWorksIInv ==
    ASSUME IInv, JobWorks
    PROVE  IInv'
  <1> DEFINE f == Last(stack)
             r == request[f.task]
  <1>1. f \in Frame /\ f.task \in Tasks /\ task[f.task] \in TaskRecord
    BY JobTyped DEF JobWorks
  <1>2. f.part \in DOMAIN r.refs /\ stack # <<>> /\ f.at = "work"
    BY JobTyped DEF JobWorks
  <1>3. /\ asked' \in [Tasks -> Nat] /\ leaked' \in Nat
        /\ UNCHANGED <<taskList, request, runningTaskObjectPath, signals, asked, leaked,
                       removed, alive>>
    BY DEF JobWorks, IInv, TypeOK
  <1>4. PICK t \in WorkResults(task[f.task], r.kind) :
              \/ NextPart(f, t)
              \/ task' = [task EXCEPT ![f.task] = t] /\ Goto(f, "rollback")
    BY DEF JobWorks
  <1>5. t \in TaskRecord /\ isTaskDone(t.subState)
    BY <1>1, Worked
  <1>6. CASE NextPart(f, t)
    BY <1>2, <1>3, <1>5, <1>6, NextPartIInv
  <1>7. CASE task' = [task EXCEPT ![f.task] = t] /\ Goto(f, "rollback")
    <2> DEFINE g == [f EXCEPT !.at = "rollback"]
    <2>1. g \in Frame /\ g.task = f.task /\ g.part = f.part /\ g.at = "rollback"
      BY <1>1 DEF Frame
    <2>2. g.task = Last(stack).task /\ g.part \in DOMAIN request[g.task].refs
      BY <1>2, <2>1
    <2>3. stack' = Append(Front(stack), g) /\ task' = [task EXCEPT ![g.task] = t]
      BY <1>7, <2>1 DEF Goto
    <2> HIDE DEF g
    <2> QED
      BY <1>2, <1>3, <1>5, <2>1, <2>2, <2>3, JobGoesOn
  <1> QED
    BY <1>4, <1>6, <1>7

(* A job returns: its task is told as removed, and the next signal sent. *)
LEMMA JobReturnedIInv ==
    ASSUME IInv, JobReturned
    PROVE  IInv'
  <1> DEFINE f == Last(stack)
             t == f.task
             said == [state |-> task[t].state, subState |-> task[t].subState]
  <1>1. TypeOK /\ FramesSound /\ stack # <<>> /\ f.at = "end"
    BY DEF IInv, JobReturned
  <1>2. t \in Tasks /\ task[t] \in TaskRecord /\ isTaskDone(task[t].subState)
    BY <1>1, JobTyped
  <1>3. stack \in Seq(Frame) /\ stack' = Front(stack) /\ request' = request /\ task' = task
    BY <1>1 DEF TypeOK, JobReturned
  <1>4. signals' \in Seq(Tasks \cup {NoPath}) /\ signals' # <<>>
    <2>1. signals' = Append(signals, NoPath)
      BY DEF JobReturned, TaskListChanged
    <2>2. signals \in Seq(Tasks \cup {NoPath})
      BY <1>1 DEF TypeOK
    <2> QED
      BY ONLY <2>1, <2>2
  <1>5. taskList' \in Seq(Tasks)
    <2>1. taskList \in Seq(Tasks)
      BY <1>1 DEF TypeOK
    <2>2. taskList' = taskList \/ \E k \in DOMAIN taskList : taskList' = RemoveAt(taskList, k)
      BY DEF JobReturned
    <2> QED
      BY <2>1, <2>2, Erased
  <1>6. alive' \in BOOLEAN
    BY <1>1 DEF JobReturned, TypeOK
  <1>7. said \in [state : States, subState : SubStates] /\ isTaskDone(said.subState)
    BY <1>2 DEF TaskRecord
  <1>8. removed' = [removed EXCEPT ![t] = Append(removed[t], said)]
    BY <1>1 DEF JobReturned
  <1> HIDE DEF said
  <1>9. removed' \in [Tasks -> Seq([state : States, subState : SubStates])]
    <2> DEFINE Said == [state : States, subState : SubStates]
    <2>1. removed \in [Tasks -> Seq(Said)] /\ said \in Said
      BY <1>1, <1>7 DEF TypeOK
    <2> HIDE DEF Said
    <2>2. Append(removed[t], said) \in Seq(Said)
      BY <1>2, <2>1
    <2>3. removed' \in [Tasks -> Seq(Said)]
      BY ONLY <1>2, <1>8, <2>1, <2>2
    <2> QED
      BY <2>3 DEF Said
  <1>10. \A g \in Range(stack') : g.part \in DOMAIN request'[g.task].refs
    <2>1. /\ Len(stack) \in Nat \ {0} /\ DOMAIN stack = 1 .. Len(stack)
          /\ DOMAIN stack' = 1 .. Len(stack) - 1
          /\ \A i \in 1 .. Len(stack) - 1 : stack'[i] = stack[i]
      BY <1>1, <1>3, Popped
    <2>2. \A i \in DOMAIN stack' : i \in DOMAIN stack /\ stack'[i] = stack[i]
      BY <2>1
    <2>3. \A i \in DOMAIN stack' : stack'[i].part \in DOMAIN request'[stack'[i].task].refs
      BY <1>1, <1>3, <2>2, StackPositions
    <2> QED
      BY <2>3, PartsInRange
  <1>11. stack' \in Seq(Frame)
    BY <1>1, <1>3, Popped
  <1>12. runningTaskObjectPath' = NoPath /\ UNCHANGED <<asked, leaked>>
    BY DEF JobReturned
  <1>13. TypeOK'
    BY <1>1, <1>3, <1>4, <1>5, <1>6, <1>9, <1>10, <1>11, <1>12 DEF TypeOK
  <1>14. FramesSound'
    BY <1>1, <1>3, FramesPop
  <1>15. RemovedOnlyWhenDone'
    <2> SUFFICES ASSUME NEW u \in Tasks, NEW i \in DOMAIN removed'[u]
                 PROVE  isTaskDone(removed'[u][i].subState)
      BY DEF RemovedOnlyWhenDone
    <2>1. removed[u] \in Seq([state : States, subState : SubStates])
      BY <1>1 DEF TypeOK
    <2>2. CASE u # t
      BY <1>1, <1>2, <1>8, <2>2 DEF IInv, TypeOK, RemovedOnlyWhenDone
    <2>3. CASE u = t
      <3>1. removed'[u] = Append(removed[u], said)
        BY <1>1, <1>2, <1>8, <2>3 DEF TypeOK
      <3>2. \/ i \in DOMAIN removed[u] /\ removed'[u][i] = removed[u][i]
            \/ removed'[u][i] = said
        BY <1>7, <2>1, <3>1, Pushed
      <3> QED
        BY <1>7, <3>2 DEF IInv, RemovedOnlyWhenDone
    <2> QED
      BY <2>2, <2>3
  <1>16. NoLostWakeup'
    BY <1>4 DEF NoLostWakeup
  <1> QED
    BY <1>13, <1>14, <1>15, <1>16 DEF IInv

-----------------------------------------------------------------------------
(* The list                                                                *)

(* No step but a removal or an addition touches the list. *)
LEMMA ListKept ==
    ASSUME TypeOK, ListedKeepsRefs, taskList' = taskList,
           \A t \in Tasks : task'[t].refs = task[t].refs,
           \A t \in Tasks : request[t] # NoRequest => request'[t] = request[t]
    PROVE  ListedKeepsRefs' /\ (OneTaskPerRef => OneTaskPerRef')
  <1>1. \A i \in DOMAIN taskList : taskList[i] \in Tasks
    BY LenProperties, ElementOfSeq DEF TypeOK
  <1>2. ListedKeepsRefs'
    BY <1>1 DEF ListedKeepsRefs
  <1>3. OneTaskPerRef => OneTaskPerRef'
    BY <1>1 DEF OneTaskPerRef
  <1> QED
    BY <1>2, <1>3

(* Erasing an entry of the task list brings no two tasks with a common ref into it. *)
LEMMA ListErased ==
    ASSUME TypeOK, ListedKeepsRefs, NEW k \in DOMAIN taskList, taskList' = RemoveAt(taskList, k),
           task' = task, request' = request
    PROVE  ListedKeepsRefs' /\ (OneTaskPerRef => OneTaskPerRef')
  <1> DEFINE old(i) == IF i < k THEN i ELSE i + 1
  <1>1. /\ taskList' \in Seq(Tasks)
        /\ \A i \in DOMAIN taskList' : /\ old(i) \in DOMAIN taskList
                                       /\ taskList'[i] = taskList[old(i)]
                                       /\ i \in Nat
    BY Erased DEF TypeOK
  <1>2. \A i, j \in DOMAIN taskList' : i # j => old(i) # old(j)
    <2>1. k \in Nat
      BY LenProperties DEF TypeOK
    <2> QED
      BY <1>1, <2>1
  <1> HIDE DEF old
  <1>3. ListedKeepsRefs'
    BY <1>1 DEF ListedKeepsRefs
  <1>4. OneTaskPerRef => OneTaskPerRef'
    <2> SUFFICES ASSUME OneTaskPerRef, NEW i \in DOMAIN taskList', NEW j \in DOMAIN taskList',
                        i # j
                 PROVE  Range(task[taskList'[i]].refs) \cap Range(task[taskList'[j]].refs) = {}
      BY DEF OneTaskPerRef
    <2>1. /\ old(i) \in DOMAIN taskList /\ old(j) \in DOMAIN taskList /\ old(i) # old(j)
          /\ taskList'[i] = taskList[old(i)] /\ taskList'[j] = taskList[old(j)]
      BY <1>1, <1>2
    <2> QED
      BY <2>1 DEF OneTaskPerRef
  <1> QED
    BY <1>3, <1>4

(* Adding a task whose first ref no listed task operates on keeps the list free of common refs if the task has no other ref. *)
LEMMA ListAdded ==
    ASSUME TypeOK, ListedKeepsRefs, NEW t \in Tasks, NEW r \in Request,
           ~RefOperated(r.refs[1]), AddTask(t, r), r # NoRequest,
           request'[t] = r, \A u \in Tasks \ {t} : request'[u] = request[u],
           request[t] = r \/ request[t] = NoRequest
    PROVE  ListedKeepsRefs' /\ (OneTaskPerRef /\ Len(r.refs) = 1 => OneTaskPerRef')
  <1>1. r.refs \in Seq(Refs) /\ r.refs # <<>>
    BY DEF Request
  <1>2. /\ \A u \in Tasks \ {t} : task'[u] = task[u]
        /\ task'[t].refs = r.refs
        /\ taskList' = Append(taskList, t)
        /\ taskList \in Seq(Tasks)
    BY TaskAdded DEF AddTask, TypeOK
  <1>3. /\ Len(taskList) \in Nat
        /\ DOMAIN taskList = 1 .. Len(taskList)
        /\ DOMAIN taskList' = 1 .. Len(taskList) + 1
        /\ \A i \in 1 .. Len(taskList) : taskList'[i] = taskList[i] /\ taskList[i] \in Tasks
        /\ taskList'[Len(taskList) + 1] = t
    BY <1>2, Pushed
  <1>4. \A i \in DOMAIN taskList' :
            \/ i \in DOMAIN taskList /\ taskList'[i] = taskList[i] /\ taskList[i] \in Tasks
            \/ i = Len(taskList) + 1 /\ taskList'[i] = t
    BY <1>3
  <1>5. Len(r.refs) \in Nat \ {0} /\ DOMAIN r.refs = 1 .. Len(r.refs)
    BY <1>1, EmptySeq, LenProperties
  <1>6. \A i \in DOMAIN taskList : taskList[i] # t
    <2> SUFFICES ASSUME NEW i \in DOMAIN taskList, taskList[i] = t
                 PROVE  FALSE
      OBVIOUS
    <2>1. task[t].refs = r.refs
      BY DEF ListedKeepsRefs
    <2>2. Contains(task[t].refs, r.refs[1])
      BY <1>5, <2>1 DEF Contains
    <2> QED
      BY <2>2 DEF RefOperated, Range
  <1>7. ListedKeepsRefs'
    BY <1>2, <1>4, <1>6 DEF ListedKeepsRefs
  <1>8. ASSUME OneTaskPerRef, Len(r.refs) = 1
        PROVE  OneTaskPerRef'
    <2>1. Range(r.refs) = {r.refs[1]}
      BY <1>5, <1>8 DEF Range
    <2>2. ASSUME NEW i \in DOMAIN taskList
          PROVE  r.refs[1] \notin Range(task[taskList[i]].refs)
      <3>1. task[taskList[i]].refs \in Seq(Refs)
        BY <1>3 DEF TypeOK, TaskRecord
      <3>2. ~Contains(task[taskList[i]].refs, r.refs[1])
        BY DEF RefOperated, Range
      <3> QED
        BY <3>1, <3>2, LenProperties DEF Contains, Range
    <2>3. \A i \in DOMAIN taskList' :
              \/ /\ i \in DOMAIN taskList /\ taskList'[i] = taskList[i]
                 /\ task'[taskList'[i]].refs = task[taskList[i]].refs
              \/ i = Len(taskList) + 1 /\ task'[taskList'[i]].refs = r.refs
      BY <1>2, <1>4, <1>6
    <2>4. \A i \in DOMAIN taskList : Range(task[taskList[i]].refs) \cap Range(r.refs) = {}
      BY <2>1, <2>2
    <2> QED
      BY <1>8, <2>3, <2>4 DEF OneTaskPerRef
  <1> QED
    BY <1>7, <1>8

(* No job and no client changes the refs of a task. *)
LEMMA RefsKept ==
    ASSUME IInv, \/ \E t \in Tasks : CancelTask(t)
                 \/ \E t \in Tasks, answer \in {"yes", "no"} : ReplyInteraction(t, answer)
                 \/ NotifyWaiting \/ StartNext
                 \/ JobAsks \/ JobProceeds \/ JobRevives \/ JobWorks \/ JobRolledBack
    PROVE  /\ taskList' = taskList /\ request' = request
           /\ \A t \in Tasks : task'[t].refs = task[t].refs
  <1>1. taskList' = taskList /\ request' = request
    BY DEF CancelTask, ReplyInteraction, NotifyWaiting, StartNext, JobAsks, JobProceeds,
           JobRevives, JobWorks, JobRolledBack
  <1>2. task \in [Tasks -> TaskRecord] /\ \A t \in Tasks : task[t] \in TaskRecord
    BY DEF IInv, TypeOK
  <1>3. \A t \in Tasks : /\ updateState(task[t], "Canceled") \in TaskRecord
                         /\ updateState(task[t], "Canceled").refs = task[t].refs
                         /\ updateState(task[t], "Queued").refs = task[t].refs
                         /\ Cancel(task[t]).refs = task[t].refs
    BY <1>2, StateUpdated, Cancelled DEF States
  <1>4. ASSUME NEW t \in Tasks, CancelTask(t)
        PROVE  \A u \in Tasks : task'[u].refs = task[u].refs
    BY <1>2, <1>3, <1>4 DEF CancelTask
  <1>5. ASSUME NEW t \in Tasks, NEW answer \in {"yes", "no"}, ReplyInteraction(t, answer)
        PROVE  \A u \in Tasks : task'[u].refs = task[u].refs
    BY <1>2, <1>3, <1>5 DEF ReplyInteraction
  <1>6. CASE NotifyWaiting
    BY <1>1, <1>2, <1>3, <1>6 DEF NotifyWaiting
  <1>7. CASE StartNext \/ JobAsks
    BY <1>1, <1>7 DEF StartNext, JobAsks
  <1>8. CASE JobProceeds
    <2> DEFINE f == Last(stack)
               t == IF f.reply = "no" /\ request[f.task].kind = "install"
                      THEN updateState(task[f.task], "Canceled") ELSE task[f.task]
               u == IF isTaskDone(t.subState) THEN t ELSE BeginWork(t)
    <2>1. f.task \in Tasks
      BY <1>8, JobTyped DEF JobProceeds
    <2>2. task' = [task EXCEPT ![f.task] = u]
      BY <1>8 DEF JobProceeds
    <2>3. t \in TaskRecord /\ t.refs = task[f.task].refs
      BY <1>2, <1>3, <2>1
    <2> HIDE DEF t
    <2>4. u.refs = task[f.task].refs
      BY <2>3, Begun
    <2> HIDE DEF u
    <2> QED
      BY <1>1, <1>2, <2>1, <2>2, <2>4
  <1>9. CASE JobWorks
    <2> DEFINE f == Last(stack)
    <2>1. f.task \in Tasks
      BY <1>9, JobTyped DEF JobWorks
    <2>2. PICK t \in WorkResults(task[f.task], request[f.task].kind) :
              \/ task' = [task EXCEPT ![f.task] = BeginWork(t)]
              \/ task' = [task EXCEPT ![f.task] = t]
      BY <1>9 DEF JobWorks, NextPart
    <2>3. t.refs = task[f.task].refs /\ BeginWork(t).refs = task[f.task].refs
      BY <1>2, <2>1, Worked, Begun
    <2> QED
      BY <1>1, <1>2, <2>1, <2>2, <2>3
  <1>10. CASE JobRolledBack
    <2> DEFINE f == Last(stack)
               t == task[f.task]
    <2>1. f.task \in Tasks
      BY <1>10, JobTyped DEF JobRolledBack
    <2>2. \/ task' = [task EXCEPT ![f.task] = BeginWork(t)]
          \/ task' = [task EXCEPT ![f.task] = t]
      BY <1>10 DEF JobRolledBack, NextPart
    <2>3. BeginWork(t).refs = t.refs
      BY <1>2, <2>1, Begun
    <2> QED
      BY <1>1, <1>2, <2>1, <2>2, <2>3
  <1>11. CASE JobRevives
    <2> DEFINE f == Last(stack)
    <2>1. f.task \in Tasks
      BY <1>11, JobTyped DEF JobRevives
    <2>2. PICK sub \in {"InstallRuntime", "InstallBase"} :
              task' = [task EXCEPT ![f.task] = updateSubState(task[f.task], sub)]
      BY <1>11 DEF JobRevives
    <2>3. updateSubState(task[f.task], sub).refs = task[f.task].refs
      BY <1>2, <2>1, SubStateUpdated DEF SubStates
    <2> QED
      BY <1>1, <1>2, <2>1, <2>2, <2>3
  <1> QED
    BY <1>1, <1>4, <1>5, <1>6, <1>7, <1>8, <1>9, <1>10, <1>11

(* Every request is about one package, which is what ll-cli sends except   *)
(* for an upgrade of several.                                              *)
SinglePackages == \A r \in Requests : Len(r.refs) = 1

(* Every step keeps a listed task's refs, and, with one package in each request, a ref in one task. *)
LEMMA NextList ==
    ASSUME IInv, ListedKeepsRefs, Next
    PROVE  ListedKeepsRefs' /\ (OneTaskPerRef /\ SinglePackages => OneTaskPerRef')
  <1>1. TypeOK
    BY DEF IInv
  <1>2. ASSUME NEW t \in Tasks, NEW r \in Requests, RequestAtOnce(t, r)
        PROVE  ListedKeepsRefs' /\ (OneTaskPerRef /\ SinglePackages => OneTaskPerRef')
    <2>1. r \in Request
      BY RequestsAssumption
    <2>2. r # NoRequest
      BY <1>2 DEF RequestAtOnce, NoRequest
    <2>3. /\ ~RefOperated(r.refs[1]) /\ AddTask(t, r) /\ request[t] = NoRequest
          /\ request'[t] = r /\ \A u \in Tasks \ {t} : request'[u] = request[u]
      BY <1>1, <1>2 DEF RequestAtOnce, TypeOK
    <2>4. ListedKeepsRefs' /\ (OneTaskPerRef /\ Len(r.refs) = 1 => OneTaskPerRef')
      BY <1>1, <2>1, <2>2, <2>3, ListAdded
    <2> QED
      BY <2>4 DEF SinglePackages
  <1>3. ASSUME NEW t \in Tasks, NEW r \in Requests, RequestRemote(t, r)
        PROVE  ListedKeepsRefs' /\ (OneTaskPerRef => OneTaskPerRef')
    <2>1. /\ taskList' = taskList /\ task' = task
          /\ \A u \in Tasks : request[u] # NoRequest => request'[u] = request[u]
      BY <1>1, <1>3 DEF RequestRemote, TypeOK
    <2> QED
      BY <1>1, <2>1, ListKept
  <1>4. CASE RemoteAnswered
    <2> DEFINE f == Last(stack)
               r == request[f.task]
    <2>1. \/ UNCHANGED <<taskList, task>>
          \/ ~RefOperated(r.refs[f.part]) /\ f.part = Len(r.refs) /\ AddTask(f.task, r)
      BY <1>4 DEF RemoteAnswered, RefuseRequest
    <2>2. request' = request
      BY <1>4 DEF RemoteAnswered
    <2>3. CASE UNCHANGED <<taskList, task>>
      BY <1>1, <2>2, <2>3, ListKept
    <2>4. CASE ~RefOperated(r.refs[f.part]) /\ f.part = Len(r.refs) /\ AddTask(f.task, r)
      <3>1. f.task \in Tasks /\ f.part \in DOMAIN r.refs
        BY <1>4, JobTyped DEF RemoteAnswered
      <3>2. r # NoRequest
        BY <3>1 DEF NoRequest
      <3>3. r \in Request /\ r \in Requests
        BY <1>1, <3>1, <3>2, RequestTyped DEF TypeOK
      <3>4. ASSUME Len(r.refs) = 1
            PROVE  ListedKeepsRefs' /\ (OneTaskPerRef => OneTaskPerRef')
        <4>1. ~RefOperated(r.refs[1])
          BY <2>4, <3>4
        <4> HIDE DEF f
        <4> QED
          BY <1>1, <2>2, <2>4, <3>1, <3>2, <3>3, <3>4, <4>1, ListAdded
      <3>5. ListedKeepsRefs'
        <4>1. /\ \A u \in Tasks \ {f.task} : task'[u] = task[u]
              /\ task'[f.task].refs = r.refs
              /\ taskList' = Append(taskList, f.task)
              /\ taskList \in Seq(Tasks)
          BY <1>1, <2>4, <3>1, <3>3, TaskAdded DEF AddTask, TypeOK
        <4> HIDE DEF f
        <4>2. \A i \in DOMAIN taskList' :
                 \/ i \in DOMAIN taskList /\ taskList'[i] = taskList[i] /\ taskList[i] \in Tasks
                 \/ taskList'[i] = f.task
          BY <3>1, <4>1, Pushed
        <4> QED
          BY <2>2, <3>1, <3>2, <4>1, <4>2 DEF ListedKeepsRefs
      <3> QED
        BY <3>3, <3>4, <3>5 DEF SinglePackages
    <2> QED
      BY <2>1, <2>3, <2>4
  <1>5. CASE \/ \E t \in Tasks : CancelTask(t)
             \/ \E t \in Tasks, answer \in {"yes", "no"} : ReplyInteraction(t, answer)
             \/ NotifyWaiting \/ StartNext
             \/ JobAsks \/ JobProceeds \/ JobRevives \/ JobWorks \/ JobRolledBack
    BY <1>1, <1>5, RefsKept, ListKept
  <1>6. CASE JobReturned
    <2>1. task' = task /\ request' = request
      BY <1>6 DEF JobReturned
    <2>2. taskList' = taskList \/ \E k \in DOMAIN taskList : taskList' = RemoveAt(taskList, k)
      BY <1>6 DEF JobReturned
    <2> QED
      BY <1>1, <2>1, <2>2, ListKept, ListErased
  <1> QED
    BY <1>2, <1>3, <1>4, <1>5, <1>6 DEF Next, JobStep

(* The handlers that wait for the remote stay, or the innermost is gone,   *)
(* and no task comes into the list.                                        *)
LEMMA UnlistedKept ==
    ASSUME RemoteUnlisted,
           \A i \in DOMAIN stack' : stack'[i].at = "remote" =>
               \E k \in DOMAIN stack : stack[k].at = "remote" /\ stack[k].task = stack'[i].task,
           \A i \in DOMAIN taskList' : \E k \in DOMAIN taskList : taskList'[i] = taskList[k]
    PROVE  RemoteUnlisted'
  BY DEF RemoteUnlisted

(* No task is in the list while its request waits for the remote. *)
LEMMA NextUnlisted ==
    ASSUME IInv, ListedKeepsRefs, RemoteUnlisted, Next
    PROVE  RemoteUnlisted'
  <1>1. TypeOK /\ FramesSound /\ stack \in Seq(Frame) /\ taskList \in Seq(Tasks)
    BY DEF IInv, TypeOK
  <1>2. /\ Len(stack) \in Nat /\ DOMAIN stack = 1 .. Len(stack)
        /\ \A i \in DOMAIN stack : stack[i] \in Frame /\ stack[i].task \in Tasks
        /\ stack # <<>> => Len(stack) \in DOMAIN stack /\ Last(stack) = stack[Len(stack)]
    BY <1>1, StackPositions
  <1>3. ASSUME NEW t \in Tasks, NEW r \in Requests, RequestAtOnce(t, r)
        PROVE  RemoteUnlisted'
    <2>1. \A i \in DOMAIN stack : stack[i].task # t
      BY <1>1, <1>3, RequestTyped DEF RequestAtOnce
    <2>2. \A i \in DOMAIN taskList' : \/ i \in DOMAIN taskList /\ taskList'[i] = taskList[i]
                                      \/ taskList'[i] = t
      BY <1>1, <1>3, Pushed DEF RequestAtOnce, AddTask
    <2>3. stack' = stack
      BY <1>3 DEF RequestAtOnce
    <2> QED
      BY <2>1, <2>2, <2>3 DEF RemoteUnlisted
  <1>4. ASSUME NEW t \in Tasks, NEW r \in Requests, RequestRemote(t, r)
        PROVE  RemoteUnlisted'
    <2> DEFINE f == RequestFrame(t, 1)
    <2>1. f \in Frame /\ f.task = t
      BY DEF RequestFrame, Frame
    <2> HIDE DEF f
    <2>2. stack' = Append(stack, f) /\ taskList' = taskList /\ request[t] = NoRequest
      BY <1>4 DEF RequestRemote, f
    <2>3. \A i \in DOMAIN stack' : \/ i \in DOMAIN stack /\ stack'[i] = stack[i]
                                   \/ stack'[i] = f
      BY <1>1, <2>1, <2>2, Pushed
    <2>4. \A k \in DOMAIN taskList : taskList[k] # t
      BY <2>2 DEF ListedKeepsRefs
    <2> QED
      BY <2>1, <2>2, <2>3, <2>4 DEF RemoteUnlisted
  <1>5. CASE RemoteAnswered
    <2> DEFINE f == Last(stack)
    <2>1. /\ stack # <<>> /\ f.at = "remote" /\ f = stack[Len(stack)]
          /\ f \in Frame /\ f.task \in Tasks /\ Len(stack) \in DOMAIN stack
      BY <1>2, <1>5 DEF RemoteAnswered
    <2>2. ASSUME stack' = Front(stack)
          PROVE  \A i \in DOMAIN stack' :
                    i \in DOMAIN stack /\ i # Len(stack) /\ stack'[i] = stack[i]
      <3>1. /\ Len(stack) \in Nat /\ DOMAIN stack' = 1 .. Len(stack) - 1
            /\ \A i \in 1 .. Len(stack) - 1 : stack'[i] = stack[i]
        BY <1>1, <2>1, <2>2, Popped
      <3> QED
        BY <1>2, <3>1
    <2>3. CASE RefuseRequest
      BY <2>2, <2>3, UnlistedKept DEF RefuseRequest
    <2>4. CASE /\ stack' = Append(Front(stack), RequestFrame(f.task, f.part + 1))
               /\ taskList' = taskList
      <3> DEFINE g == RequestFrame(f.task, f.part + 1)
      <3>1. g \in Frame /\ g.task = f.task
        BY <2>1 DEF RequestFrame, Frame
      <3> HIDE DEF g
      <3>2. \A i \in DOMAIN stack' : \/ i \in DOMAIN stack /\ stack'[i] = stack[i]
                                     \/ stack'[i] = g
        <4>1. stack' = Append(Front(stack), g)
          BY <2>4 DEF g
        <4>2. /\ Len(stack) \in Nat \ {0} /\ DOMAIN stack = 1 .. Len(stack)
              /\ DOMAIN stack' = 1 .. Len(stack) /\ stack'[Len(stack)] = g
              /\ \A i \in 1 .. Len(stack) - 1 : stack'[i] = stack[i]
          BY <1>1, <2>1, <3>1, <4>1, TopReplaced
        <4> QED
          BY <4>2
      <3> QED
        BY <2>1, <2>4, <3>1, <3>2, UnlistedKept
    <2>5. CASE AddTask(f.task, request[f.task]) /\ stack' = Front(stack)
      <3>1. \A i \in DOMAIN taskList' : \/ i \in DOMAIN taskList /\ taskList'[i] = taskList[i]
                                        \/ taskList'[i] = f.task
        BY <1>1, <2>1, <2>5, Pushed DEF AddTask
      <3>2. \A i \in DOMAIN stack' : i \in DOMAIN stack /\ stack'[i] = stack[i]
                                     /\ stack'[i].task # f.task
        BY <1>1, <2>1, <2>2, <2>5 DEF FramesSound, RemoteIsNew
      <3> HIDE DEF f
      <3> QED
        BY <3>1, <3>2 DEF RemoteUnlisted
    <2> QED
      BY <1>5, <2>3, <2>4, <2>5 DEF RemoteAnswered
  <1>6. CASE (\E t \in Tasks : CancelTask(t)) \/ NotifyWaiting \/ JobRevives
    BY <1>6, UnlistedKept DEF CancelTask, NotifyWaiting, JobRevives
  <1>7. ASSUME NEW t \in Tasks, NEW answer \in {"yes", "no"}, ReplyInteraction(t, answer)
        PROVE  RemoteUnlisted'
    <2>1. /\ DOMAIN stack' = DOMAIN stack /\ taskList' = taskList
          /\ \A i \in DOMAIN stack : /\ stack'[i].at = stack[i].at
                                     /\ stack'[i].task = stack[i].task
      BY <1>2, <1>7 DEF ReplyInteraction, Frame
    <2> QED
      BY <2>1, UnlistedKept
  <1>8. CASE StartNext
    <2>1. CASE stack' = stack /\ taskList' = taskList
      BY <2>1, UnlistedKept
    <2>2. ASSUME NEW k \in QueuedTasks, stack' = Append(stack, JobFrame(taskList[k])),
                 taskList' = taskList
          PROVE  RemoteUnlisted'
      <3> DEFINE g == JobFrame(taskList[k])
      <3>1. g \in Frame /\ g.at = "start"
        BY <1>1, LenProperties, ElementOfSeq DEF JobFrame, Frame, QueuedTasks
      <3> HIDE DEF g
      <3>2. stack' = Append(stack, g)
        BY <2>2 DEF g
      <3>3. \A i \in DOMAIN stack' : \/ i \in DOMAIN stack /\ stack'[i] = stack[i]
                                     \/ stack'[i] = g
        BY <1>1, <3>1, <3>2, Pushed
      <3> QED
        BY <2>2, <3>1, <3>3, UnlistedKept
    <2> QED
      BY <1>8, <2>1, <2>2 DEF StartNext
  <1>9. ASSUME NEW g, g.at # "remote", g \in Frame, stack # <<>>,
               stack' = Append(Front(stack), g), taskList' = taskList
        PROVE  RemoteUnlisted'
    <2>1. \A i \in DOMAIN stack' : \/ i \in DOMAIN stack /\ stack'[i] = stack[i]
                                   \/ stack'[i] = g
      <3>1. /\ Len(stack) \in Nat \ {0} /\ DOMAIN stack = 1 .. Len(stack)
            /\ DOMAIN stack' = 1 .. Len(stack) /\ stack'[Len(stack)] = g
            /\ \A i \in 1 .. Len(stack) - 1 : stack'[i] = stack[i]
        BY <1>1, <1>9, TopReplaced
      <3> QED
        BY <3>1
    <2> QED
      BY <1>9, <2>1, UnlistedKept
  <1>10. ASSUME NEW at \in {"interact", "work", "rollback", "end"}, stack # <<>>,
                Goto(Last(stack), at), taskList' = taskList
         PROVE  RemoteUnlisted'
    <2>1. [Last(stack) EXCEPT !.at = at] \in Frame /\ [Last(stack) EXCEPT !.at = at].at = at
      BY <1>2, <1>10 DEF Frame
    <2> QED
      BY <1>9, <1>10, <2>1 DEF Goto
  <1>11. ASSUME NEW t, stack # <<>>, NextPart(Last(stack), t), taskList' = taskList
         PROVE  RemoteUnlisted'
    <2> DEFINE g == [Last(stack) EXCEPT !.part = @ + 1, !.at = "work"]
    <2>1. g \in Frame /\ g.at = "work"
      BY <1>2, <1>11, NextFrame
    <2> HIDE DEF g
    <2>2. stack' = Append(Front(stack), g) \/ Goto(Last(stack), "end")
      BY <1>11 DEF NextPart, g
    <2> QED
      BY <1>9, <1>10, <1>11, <2>1, <2>2
  <1>12. CASE JobAsks \/ JobProceeds
    BY <1>10, <1>12 DEF JobAsks, JobProceeds
  <1>13. CASE JobWorks \/ JobRolledBack
    BY <1>10, <1>11, <1>13 DEF JobWorks, JobRolledBack
  <1>14. CASE JobReturned
    <2>1. \A i \in DOMAIN taskList' : \E k \in DOMAIN taskList : taskList'[i] = taskList[k]
      <3>1. taskList' = taskList \/ \E k \in DOMAIN taskList : taskList' = RemoveAt(taskList, k)
        BY <1>14 DEF JobReturned
      <3>2. ASSUME NEW k \in DOMAIN taskList, taskList' = RemoveAt(taskList, k)
            PROVE  \A i \in DOMAIN taskList' : \E j \in DOMAIN taskList : taskList'[i] = taskList[j]
        <4>1. \A i \in DOMAIN taskList' :
                 /\ (IF i < k THEN i ELSE i + 1) \in DOMAIN taskList
                 /\ taskList'[i] = taskList[IF i < k THEN i ELSE i + 1]
          BY <1>1, <3>2, Erased
        <4> QED
          BY <4>1
      <3> QED
        BY <3>1, <3>2
    <2>2. \A i \in DOMAIN stack' : i \in DOMAIN stack /\ stack'[i] = stack[i]
      <3>1. stack # <<>> /\ stack' = Front(stack)
        BY <1>14 DEF JobReturned
      <3>2. /\ Len(stack) \in Nat /\ DOMAIN stack' = 1 .. Len(stack) - 1
            /\ \A i \in 1 .. Len(stack) - 1 : stack'[i] = stack[i]
        BY <1>1, <3>1, Popped
      <3> QED
        BY <1>2, <3>2
    <2> QED
      BY <2>1, <2>2, UnlistedKept
  <1> QED
    BY <1>3, <1>4, <1>5, <1>6, <1>7, <1>8, <1>12, <1>13, <1>14 DEF Next, JobStep

(* The invariants that are inductive together. *)
SchedInv == IInv /\ ListedKeepsRefs /\ RemoteUnlisted

(* Every request, signal and step of a job preserves the invariant. *)
LEMMA NextIInv == SchedInv /\ [Next]_vars => SchedInv'
  <1> SUFFICES ASSUME IInv, ListedKeepsRefs, RemoteUnlisted, [Next]_vars
               PROVE  IInv' /\ ListedKeepsRefs' /\ RemoteUnlisted'
    BY DEF SchedInv
  <1>1. CASE Next
    BY <1>1, RequestAtOnceIInv, RequestRemoteIInv, RemoteAnsweredIInv, CancelTaskIInv,
       ReplyInteractionIInv, NotifyWaitingIInv, StartNextIInv, JobAsksIInv, JobProceedsIInv,
       JobRevivesIInv, JobWorksIInv, JobRolledBackIInv, JobReturnedIInv, NextList, NextUnlisted
       DEF Next, JobStep
  <1>2. CASE UNCHANGED vars
    BY <1>2 DEF vars, IInv, TypeOK, FramesSound, OthersSpin, Spinning, EndIsDone, RollbackIsDone,
                RemoteIsRequest, RemoteIsNew, RemovedOnlyWhenDone, NoLostWakeup, JobFrames, IsJob,
                QueuedTasks, ListedKeepsRefs, RemoteUnlisted
  <1> QED
    BY <1>1, <1>2

(* The empty list satisfies both. *)
LEMMA InitList == Init => ListedKeepsRefs /\ RemoteUnlisted /\ OneTaskPerRef
  BY DEF Init, ListedKeepsRefs, RemoteUnlisted, OneTaskPerRef

(* The invariant holds of every run of the package manager. *)
LEMMA Always == Spec => [](IInv /\ ListedKeepsRefs)
  <1>1. Init => SchedInv
    BY InitIInv, InitList DEF SchedInv
  <1>2. SchedInv => IInv /\ ListedKeepsRefs
    BY DEF SchedInv
  <1> QED
    BY <1>1, <1>2, NextIInv, PTL DEF Spec

(* The fields of PackageManager and its tasks keep their types, whatever   *)
(* requests, cancels, replies and jobs are nested in one another.          *)
THEOREM TypeCorrect == Spec => []TypeOK
  <1>1. IInv => TypeOK
    BY DEF IInv
  <1> QED
    BY <1>1, Always, PTL

(* The TaskListChanged handler never loses a wake-up: a Queued task has a  *)
(* signal pending unless a job runs or a running path is recorded.         *)
THEOREM WakeupKept == Spec => []NoLostWakeup
  <1>1. IInv => NoLostWakeup
    BY DEF IInv
  <1> QED
    BY <1>1, Always, PTL

(* TaskRemoved is only ever sent for a task that is done, although a task  *)
(* may be executed twice, the second time while its first job rolls back.  *)
THEOREM RemovedDone == Spec => []RemovedOnlyWhenDone
  <1>1. IInv => RemovedOnlyWhenDone
    BY DEF IInv
  <1> QED
    BY <1>1, Always, PTL

(* Where every request is about one package the task list is sound: no ref *)
(* is in two of its tasks, and a task leaves it only when it is done.      *)
THEOREM ListSound ==
    ASSUME SinglePackages
    PROVE  Spec => []TaskListSound
  <1>1. IInv /\ ListedKeepsRefs /\ OneTaskPerRef /\ [Next]_vars => OneTaskPerRef'
    <2>1. ASSUME IInv, ListedKeepsRefs, OneTaskPerRef, Next
          PROVE  OneTaskPerRef'
      BY <2>1, NextList
    <2>2. ASSUME OneTaskPerRef, UNCHANGED vars
          PROVE  OneTaskPerRef'
      BY <2>2 DEF OneTaskPerRef, vars
    <2> QED
      BY <2>1, <2>2
  <1>2. IInv /\ OneTaskPerRef => TaskListSound
    BY DEF IInv, TaskListSound
  <1> QED
    BY <1>1, <1>2, InitList, Always, PTL DEF Spec
=============================================================================
