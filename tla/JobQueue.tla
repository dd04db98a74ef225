------------------------------ MODULE JobQueue ------------------------------
(***************************************************************************)
(* service::JobQueue, the queue behind PackageManager::Search and Prune.   *)
(* It lives in the Qt main thread: run() is never called directly, only    *)
(* posted (Qt::QueuedConnection), and the event loop calls it later.  A    *)
(* job may itself spin a nested event loop (listRemote does), so while a   *)
(* job executes, requests can be accepted and posted run() calls delivered *)
(* on top of it.                                                           *)
(***************************************************************************)
EXTENDS Naturals, Sequences

CONSTANTS Jobs,            \* the Search / Prune requests, each submitted once
          runningJobsMax,  \* 1 in the code
          UINT             \* the modulus of the unsigned counter, 2^32 in the code

ASSUME MaxAssumption == runningJobsMax \in Nat \ {0}
ASSUME UintAssumption == UINT \in Nat /\ runningJobsMax < UINT

VARIABLES taskList,          \* accepted jobs, oldest first
          runningJobsCount,  \* a uint in the code
          posted,            \* run() invocations in the event queue
          callStack,         \* jobs whose func() is on the C++ stack, innermost last
          submitted          \* history: the argument of every runTask call

queueVars == <<taskList, runningJobsCount, posted, callStack, submitted>>

Elems(s) == {s[i] : i \in DOMAIN s}

QueueInit ==
    /\ taskList = <<>>
    /\ runningJobsCount = 0
    /\ posted = 0
    /\ callStack = <<>>
    /\ submitted = <<>>

(* Mutants: the limit compared with <=, and a job put at the front. *)
runTask_inclusive(j) ==
    /\ j \notin Elems(submitted)
    /\ submitted' = Append(submitted, j)
    /\ taskList' = Append(taskList, j)
    /\ IF runningJobsCount <= runningJobsMax
         THEN /\ runningJobsCount' = (runningJobsCount + 1) % UINT
              /\ posted' = posted + 1
         ELSE UNCHANGED <<runningJobsCount, posted>>
    /\ UNCHANGED callStack

runTask_push_front(j) ==
    /\ j \notin Elems(submitted)
    /\ submitted' = Append(submitted, j)
    /\ taskList' = <<j>> \o taskList
    /\ IF runningJobsCount < runningJobsMax
         THEN /\ runningJobsCount' = (runningJobsCount + 1) % UINT
              /\ posted' = posted + 1
         ELSE UNCHANGED <<runningJobsCount, posted>>
    /\ UNCHANGED callStack

(* runTask(func), called from a D-Bus method handler. *)
runTask(j) ==
    /\ j \notin Elems(submitted)
    /\ submitted' = Append(submitted, j)
    /\ taskList' = Append(taskList, j)
    /\ IF runningJobsCount < runningJobsMax
         THEN /\ runningJobsCount' = (runningJobsCount + 1) % UINT
              /\ posted' = posted + 1
         ELSE UNCHANGED <<runningJobsCount, posted>>
    /\ UNCHANGED callStack

(* run() up to the call of func(): the front job is taken off the list. *)
runBegin ==
    /\ posted > 0
    /\ taskList # <<>>
    /\ posted' = posted - 1
    /\ callStack' = Append(callStack, Head(taskList))
    /\ taskList' = Tail(taskList)
    /\ UNCHANGED <<runningJobsCount, submitted>>

(* run() finding the list empty. *)
runEmpty ==
    /\ posted > 0
    /\ taskList = <<>>
    /\ posted' = posted - 1
    /\ runningJobsCount' = (runningJobsCount + UINT - 1) % UINT
    /\ UNCHANGED <<taskList, callStack, submitted>>

(* Mutants: run() gives its slot back without looking at the list again,   *)
(* and run() posts itself again but gives the slot back as well.           *)
runEnd_no_repost ==
    /\ callStack # <<>>
    /\ callStack' = SubSeq(callStack, 1, Len(callStack) - 1)
    /\ runningJobsCount' = (runningJobsCount + UINT - 1) % UINT
    /\ UNCHANGED <<posted, taskList, submitted>>

runEnd_double_release ==
    /\ callStack # <<>>
    /\ callStack' = SubSeq(callStack, 1, Len(callStack) - 1)
    /\ posted' = IF taskList # <<>> THEN posted + 1 ELSE posted
    /\ runningJobsCount' = (runningJobsCount + UINT - 1) % UINT
    /\ UNCHANGED <<taskList, submitted>>

(* The rest of run(), once func() has returned. *)
runEnd ==
    /\ callStack # <<>>
    /\ callStack' = SubSeq(callStack, 1, Len(callStack) - 1)
    /\ IF taskList # <<>>
         THEN /\ posted' = posted + 1
              /\ UNCHANGED runningJobsCount
         ELSE /\ runningJobsCount' = (runningJobsCount + UINT - 1) % UINT
              /\ UNCHANGED posted
    /\ UNCHANGED <<taskList, submitted>>

QueueNext == (\E j \in Jobs : runTask(j)) \/ runBegin \/ runEmpty \/ runEnd

QueueSafeSpec == QueueInit /\ [][QueueNext]_queueVars

(* The event loop delivers what is posted to it and every job returns. *)
QueueSpec == QueueSafeSpec /\ WF_queueVars(runBegin) /\ WF_queueVars(runEmpty) /\ WF_queueVars(runEnd)

-----------------------------------------------------------------------------
(* Types of the queue's fields and of the histories. *)
QueueTypeOK ==
    /\ taskList \in Seq(Jobs)
    /\ runningJobsCount \in 0 .. runningJobsMax
    /\ posted \in Nat
    /\ callStack \in Seq(Jobs)
    /\ submitted \in Seq(Jobs)

(* Every unit of runningJobsCount is accounted for by one posted run() or  *)
(* one job on the stack, so the unsigned counter is never decremented      *)
(* below zero and no more than runningJobsMax jobs execute at a time, also *)
(* when a job spins a nested event loop.                                   *)
CountIsExact ==
    /\ runningJobsCount = posted + Len(callStack)
    /\ Len(callStack) <= runningJobsMax

(* No lost wake-up: while a job is waiting, some run() is posted or on the *)
(* stack, so the list is looked at again.                                  *)
WaitingJobHasRunner ==
    taskList # <<>> => posted + Len(callStack) > 0

(* How many accepted requests have been taken off the list. *)
Started == Len(submitted) - Len(taskList)

(* A request is neither lost, duplicated nor reordered: the list is the    *)
(* unstarted end of the accepted requests, all different, and what is      *)
(* executing comes from the started part.                                  *)
AcceptedInOrder ==
    /\ Started >= 0
    /\ \A i, k \in 1 .. Len(submitted) : submitted[i] = submitted[k] => i = k
    /\ \A i \in 1 .. Len(taskList) : taskList[i] = submitted[Started + i]
    /\ \A i \in 1 .. Len(callStack) :
           \E k \in 1 .. Started : callStack[i] = submitted[k]

(* The queue implements the executor it stands for. *)
Executor == INSTANCE JobExecutor
              WITH Slots <- runningJobsMax, waiting <- taskList,
                   executing <- callStack, order <- submitted

ExecutorSpec == Executor!Spec
=============================================================================
