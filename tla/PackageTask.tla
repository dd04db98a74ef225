---------------------------- MODULE PackageTask ----------------------------
(***************************************************************************)
(* service::PackageTask: the record a client watches over D-Bus and the    *)
(* functions the jobs call on it.  A task is a record                      *)
(*    state, subState   the two D-Bus properties                           *)
(*    total             m_totalPercentage                                  *)
(*    stage             m_curStagePercentage, in units of 1/Whole          *)
(*    parts             m_taskParts, completed parts                       *)
(*    refs              m_refs, the ref specs the task operates on         *)
(*    cancelled         m_cancelFlag                                       *)
(* Messages and the property-change signals are not modelled.              *)
(***************************************************************************)
EXTENDS Integers, Sequences

States == {"Unknown", "Queued", "Pending", "Processing", "PartCompleted", "Succeed", "Failed", "Canceled"}

SubStates == {"Unknown", "PreAction", "InstallBase", "InstallRuntime", "InstallApplication",
              "Uninstall", "PostAction", "PackageManagerDone", "AllDone"}

TASK_DONE == 100

(* updateTask is called with part in 0 .. Whole; libostree reports percent. *)
Whole == 2

(* Mutant: the weights of the steps of one install add up to more than 100. *)
m_subStateMap_heavy ==
    [s \in SubStates |->
        CASE s = "PreAction" -> 10
          [] s \in {"InstallBase", "InstallRuntime", "InstallApplication"} -> 30
          [] s = "Uninstall" -> 80
          [] s = "PostAction" -> 5
          [] OTHER -> 0]

m_subStateMap ==
    [s \in SubStates |->
        CASE s = "PreAction" -> 10
          [] s \in {"InstallBase", "InstallRuntime", "InstallApplication"} -> 20
          [] s = "Uninstall" -> 80
          [] s = "PostAction" -> 5
          [] OTHER -> 0]

isTaskDone(sub) == sub \in {"AllDone", "PackageManagerDone"}

NewTask(refs) ==
    [state |-> "Queued", subState |-> "Unknown", total |-> 0, stage |-> 0,
     parts |-> 0, refs |-> refs, cancelled |-> FALSE]

(* createTemporaryTask: no refs, so a call of updateState finds every part *)
(* (none) completed.                                                       *)
TemporaryTask == NewTask(<<>>)

(* Whole times the percentage a client reads. *)
getPercentage(t) ==
    IF isTaskDone(t.subState) THEN 100 * Whole
    ELSE t.total * Whole + t.stage * m_subStateMap[t.subState]

updateTask(t, part, whole) ==
    IF whole = 0 \/ part > whole THEN t ELSE [t EXCEPT !.stage = (part * Whole) \div whole]

updateSubState(t, sub) ==
    IF isTaskDone(sub)
      THEN [t EXCEPT !.subState = sub, !.total = TASK_DONE]
      ELSE [t EXCEPT !.subState = sub, !.total = @ + m_subStateMap[sub], !.stage = 0]

(* A completed part is counted and resets the percentage; with every part  *)
(* completed the task has succeeded, whatever state was asked for.         *)
updateStateTo(t, state, done) ==
    LET counted == IF state = "PartCompleted"
                     THEN [t EXCEPT !.state = state, !.parts = @ + 1, !.total = 0, !.stage = 0]
                     ELSE [t EXCEPT !.state = state]
        settled == IF counted.parts = Len(counted.refs)
                     THEN [counted EXCEPT !.state = "Succeed"]
                     ELSE counted
    IN  IF settled.state \in {"Canceled", "Failed", "Succeed"}
          THEN updateSubState(settled, done)
          ELSE settled

updateState(t, state) == updateStateTo(t, state, "AllDone")

(* setSubState bypasses the percentage and the signals. *)
setSubState(t, sub) == [t EXCEPT !.subState = sub]

reportError(t) ==
    [t EXCEPT !.total = TASK_DONE, !.stage = 0, !.state = "Failed", !.subState = "AllDone"]

Cancel(t) ==
    IF t.cancelled THEN t ELSE updateState([t EXCEPT !.cancelled = TRUE], "Canceled")

=============================================================================
