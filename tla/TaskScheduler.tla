--------------------------- MODULE TaskScheduler ---------------------------
(***************************************************************************)
(* How PackageManager runs install, update and uninstall tasks.  There is  *)
(* one thread and one event queue.  A D-Bus request appends a task to      *)
(* taskList and emits TaskListChanged(path), which is a queued connection: *)
(* its handler runs later, from the event loop.  Code that waits (a remote *)
(* listing, a question to the user, an ostree pull) spins the event loop   *)
(* in place, so other handlers run on top of it and must return before it  *)
(* does: `stack' holds the handlers that are waiting, innermost last.      *)
(***************************************************************************)
EXTENDS PackageTask, FiniteSets, SequencesExt

CONSTANTS Tasks,        \* task objects, named by their object path
          Refs,         \* ref specs: repo:channel/id/arch/module
          Requests,     \* the D-Bus calls the clients may make: see Request
          Cancellable   \* the tasks a client may cancel

Request == [kind : {"install", "file", "update", "uninstall"},
            refs : Seq(Refs) \ {<<>>},  \* one, except for Update
            ask  : BOOLEAN]             \* an upgrade without skipInteraction

ASSUME RequestsAssumption == Requests \subseteq Request

VARIABLES taskList,               \* std::list<PackageTask *>
          task,                   \* the task objects
          request,                \* the call a task was, or will be, created for
          runningTaskObjectPath,  \* "" when no task is running
          signals,                \* TaskListChanged emissions not yet handled
          stack,                  \* handlers waiting in a nested event loop
          asked,                  \* per task, RequestInteraction emissions not yet answered
          leaked,                 \* ReplyReceived connections whose frame has returned
          removed,                \* history: what TaskRemoved said of each task
          alive                   \* FALSE when undefined behaviour killed the daemon

vars == <<taskList, task, request, runningTaskObjectPath, signals, stack, asked,
          leaked, removed, alive>>

NoRequest == [kind |-> "none", refs |-> <<>>, ask |-> FALSE]

NoPath == ""

RequestFrame(t, i) == [task |-> t, at |-> "remote", part |-> i, reply |-> "none"]

JobFrame(t) == [task |-> t, at |-> "start", part |-> 1, reply |-> "none"]

(* Mutant: the event loop does not turn while a question is open. *)
Spinning_not_interacting(f) ==
    \/ f.at \in {"remote", "rollback"}
    \/ f.at = "work" /\ request[f.task].kind # "uninstall"

(* Where a handler waits with the event loop turning.  Every job may, once *)
(* its task is done, while modules it removed are pulled again; all but an *)
(* uninstall job do while they work.                                       *)
Spinning(f) ==
    \/ f.at \in {"remote", "interact", "rollback"}
    \/ f.at = "work" /\ request[f.task].kind # "uninstall"

LoopTurning == alive /\ (stack # <<>> => Spinning(Last(stack)))

IsJob(f) == f.at # "remote"

(* Mutant: only the running task is looked at. *)
RefOperated_running(ref) ==
    \E t \in Range(taskList) : t = runningTaskObjectPath /\ Contains(task[t].refs, ref)

(* isRefExist over taskList: "the target ... is being operated". *)
RefOperated(ref) == \E t \in Range(taskList) : Contains(task[t].refs, ref)

Init ==
    /\ taskList = <<>>
    /\ task = [t \in Tasks |-> TemporaryTask]
    /\ request = [t \in Tasks |-> NoRequest]
    /\ runningTaskObjectPath = NoPath
    /\ signals = <<>>
    /\ stack = <<>>
    /\ asked = [t \in Tasks |-> 0]
    /\ leaked = 0
    /\ removed = [t \in Tasks |-> <<>>]
    /\ alive = TRUE

-----------------------------------------------------------------------------
(* D-Bus requests                                                          *)

(* Mutant: the emission that only says "look again" is left out. *)
TaskListChanged_named(path) ==
    signals' = IF path = NoPath THEN signals ELSE Append(signals, path)

TaskListChanged(path) == signals' = Append(signals, path)

(* The end of a request handler.  Uninstall also sets the new task to      *)
(* Queued, which it already is.                                            *)
AddTask(t, r) ==
    /\ taskList' = Append(taskList, t)
    /\ task' = [task EXCEPT ![t] = updateState(NewTask(r.refs), "Queued")]
    /\ TaskListChanged(t)

(* Uninstall and InstallFromFile never wait: refused or added at once. *)
RequestAtOnce(t, r) ==
    /\ LoopTurning
    /\ request[t] = NoRequest
    /\ r.kind \in {"file", "uninstall"}
    /\ ~RefOperated(r.refs[1])
    /\ AddTask(t, r)
    /\ request' = [request EXCEPT ![t] = r]
    /\ UNCHANGED <<runningTaskObjectPath, stack, asked, leaked, removed, alive>>

(* Install and Update list the remote first, in a nested event loop. *)
RequestRemote(t, r) ==
    /\ LoopTurning
    /\ request[t] = NoRequest
    /\ r.kind \in {"install", "update"}
    /\ request' = [request EXCEPT ![t] = r]
    /\ stack' = Append(stack, RequestFrame(t, 1))
    /\ UNCHANGED <<taskList, task, runningTaskObjectPath, signals, asked, leaked, removed, alive>>

RefuseRequest ==
    /\ stack' = Front(stack)
    /\ UNCHANGED <<taskList, task, signals>>

(* The remote has answered for one package.  Update checks that package    *)
(* and goes on with the next; the task is created after the last one.      *)
RemoteAnswered ==
    /\ alive /\ stack # <<>> /\ Last(stack).at = "remote"
    /\ LET f == Last(stack)
           r == request[f.task]
       IN  \/ RefuseRequest                          \* not found, or not newer
           \/ /\ ~RefOperated(r.refs[f.part])
              /\ f.part < Len(r.refs)
              /\ stack' = Append(Front(stack), RequestFrame(f.task, f.part + 1))
              /\ UNCHANGED <<taskList, task, signals>>
           \/ /\ ~RefOperated(r.refs[f.part])
              /\ f.part = Len(r.refs)
              /\ AddTask(f.task, r)
              /\ stack' = Front(stack)
    /\ UNCHANGED <<request, runningTaskObjectPath, asked, leaked, removed, alive>>

(* Task1.Cancel, called on a task object that is still registered. *)
CancelTask(t) ==
    /\ LoopTurning
    /\ t \in Range(taskList) \cap Cancellable
    /\ task' = [task EXCEPT ![t] = Cancel(@)]
    /\ UNCHANGED <<taskList, request, runningTaskObjectPath, signals, stack, asked, leaked,
                   removed, alive>>

(* A client's answer to the question about t.  The object path is ignored: *)
(* every connected handler gets it, and makes its own event loop return.   *)
(* A layer or UAB handler cancels its task itself; an install handler      *)
(* stores the reply, in a frame that may be gone.                          *)
ReplyInteraction(t, answer) ==
    /\ LoopTurning
    /\ asked[t] > 0
    /\ asked' = [asked EXCEPT ![t] = @ - 1]
    /\ stack' = [i \in DOMAIN stack |->
                    IF stack[i].at = "interact"
                      THEN [stack[i] EXCEPT !.reply = answer] ELSE stack[i]]
    /\ task' = [u \in Tasks |->
                    IF /\ answer # "yes" 
                       /\ \E f \in Range(stack) : f.task = u /\ f.at = "interact"
                       /\ request[u].kind = "file"
                      THEN updateState(task[u], "Canceled") ELSE task[u]]
    /\ alive' \in IF leaked > 0 THEN BOOLEAN ELSE {TRUE}
    /\ UNCHANGED <<taskList, request, runningTaskObjectPath, signals, leaked, removed>>

-----------------------------------------------------------------------------
(* The TaskListChanged handler                                             *)

(* Something is running: tell every other task that it waits. *)
NotifyWaiting ==
    /\ LoopTurning
    /\ signals # <<>>
    /\ runningTaskObjectPath # NoPath
    /\ signals' = Tail(signals)
    /\ task' = [t \in Tasks |->
                   IF t \in Range(taskList) \ {runningTaskObjectPath}
                     THEN updateState(task[t], "Queued") ELSE task[t]]
    /\ UNCHANGED <<taskList, request, runningTaskObjectPath, stack, asked, leaked, removed, alive>>

(* The positions in the list of the tasks a signal may start. *)
QueuedTasks == {i \in DOMAIN taskList : task[taskList[i]].state = "Queued"}

(* Nothing is running: the signal's path becomes the running one, and the  *)
(* first Queued task of the list, if there is one, is executed.            *)
StartNext ==
    /\ LoopTurning
    /\ signals # <<>>
    /\ runningTaskObjectPath = NoPath
    /\ signals' = Tail(signals)
    /\ runningTaskObjectPath' = Head(signals)
    /\ \/ QueuedTasks = {} /\ UNCHANGED stack
       \/ \E i \in QueuedTasks : /\ \A k \in QueuedTasks : i <= k
                                /\ stack' = Append(stack, JobFrame(taskList[i]))
    /\ UNCHANGED <<taskList, task, request, asked, leaked, removed, alive>>

(* The rest of the handler when the job has returned.  Erasing a list node *)
(* that is already gone is undefined: nothing happens, or the daemon dies. *)
JobReturned ==
    /\ alive /\ stack # <<>> /\ Last(stack).at = "end"
    /\ LET t == Last(stack).task
       IN  /\ removed' = [removed EXCEPT ![t] = Append(@, [state    |-> task[t].state,
                                                           subState |-> task[t].subState])]
           /\ \/ \E i \in DOMAIN taskList :
                    taskList[i] = t /\ taskList' = RemoveAt(taskList, i) /\ alive' = alive
              \/ t \notin Range(taskList) /\ taskList' = taskList /\ alive' \in BOOLEAN
    /\ runningTaskObjectPath' = NoPath
    /\ TaskListChanged(NoPath)
    /\ stack' = Front(stack)
    /\ UNCHANGED <<task, request, asked, leaked>>

-----------------------------------------------------------------------------
(* The job of a task, from one wait to the next                            *)

Goto(f, at) == stack' = Append(Front(stack), [f EXCEPT !.at = at])

(* An install that is an upgrade asks first. *)
JobAsks ==
    /\ alive /\ stack # <<>> /\ Last(stack).at = "start"
    /\ LET f == Last(stack)
       IN  /\ request[f.task].ask /\ request[f.task].kind \in {"install", "file"}
           /\ asked' = [asked EXCEPT ![f.task] = @ + 1]
           /\ Goto(f, "interact")
    /\ UNCHANGED <<taskList, task, request, runningTaskObjectPath, signals, leaked, removed, alive>>

(* Set to work on a part: Processing, then PreAction. *)
BeginWork(t) == updateSubState(updateState(t, "Processing"), "PreAction")

(* The question is answered, or there was none.  A task that is done by    *)
(* now is left alone.  Install never disconnects its reply handler.        *)
JobProceeds ==
    /\ alive /\ stack # <<>>
    /\ LET f == Last(stack)
           r == request[f.task]
           t == IF f.reply = "no" /\ r.kind = "install"
                  THEN updateState(task[f.task], "Canceled") ELSE task[f.task]
       IN  /\ \/ f.at = "interact" /\ f.reply # "none"
              \/ f.at = "start" /\ ~(r.ask /\ r.kind \in {"install", "file"})
           /\ task' = [task EXCEPT ![f.task] = IF isTaskDone(t.subState) THEN t ELSE BeginWork(t)]
           /\ Goto(f, IF isTaskDone(t.subState) THEN "end" ELSE "work")
           /\ leaked' = IF f.at = "interact" /\ r.kind = "install" THEN leaked + 1 ELSE leaked
    /\ UNCHANGED <<taskList, request, runningTaskObjectPath, signals, asked, removed, alive>>

(* How the work on one part may leave the task: a task cancelled meanwhile *)
(* (and not revived) is left alone or fails in the pull; otherwise it      *)
(* fails or succeeds.                                                      *)
WorkResults(t, kind) ==
    IF isTaskDone(t.subState) THEN {t, reportError(t)}
    ELSE {reportError(t),
          IF kind = "update"
            THEN setSubState(updateState(t, "PartCompleted"), "PackageManagerDone")
            ELSE updateState(t, "Succeed")}

(* Only Update has several packages. *)
MoreParts(r, part) == r.kind = "update" /\ part < Len(r.refs)

(* pullDependency sets the next subState after the remote has answered,    *)
(* whether or not the task was cancelled meanwhile: it is in progress      *)
(* again.                                                                  *)
JobRevives ==
    /\ alive /\ stack # <<>> /\ Last(stack).at = "work"
    /\ LET t == Last(stack).task
       IN  /\ request[t].kind # "uninstall" /\ isTaskDone(task[t].subState)
           /\ \E sub \in {"InstallRuntime", "InstallBase"} :
                 task' = [task EXCEPT ![t] = updateSubState(@, sub)]
    /\ UNCHANGED <<taskList, request, runningTaskObjectPath, signals, stack, asked, leaked,
                   removed, alive>>

(* Whether modules may have to be pulled again after the part's last word: *)
(* a failed install or uninstall is undone, a layer or an update has       *)
(* succeeded before the old version is removed.                            *)
Restores(t, kind) ==
    \/ kind \in {"install", "uninstall"} /\ t.state = "Failed"
    \/ kind = "file" /\ t.state = "Succeed"
    \/ kind = "update" /\ t.subState = "PackageManagerDone"

(* Update goes on with its next part whatever became of the last one. *)
NextPart(f, t) ==
    LET r == request[f.task]
    IN  \/ /\ MoreParts(r, f.part)
           /\ task' = [task EXCEPT ![f.task] = BeginWork(t)]
           /\ stack' = Append(Front(stack), [f EXCEPT !.part = @ + 1, !.at = "work"])
        \/ /\ ~MoreParts(r, f.part)
           /\ task' = [task EXCEPT ![f.task] = t]
           /\ Goto(f, "end")

JobWorks ==
    /\ alive /\ stack # <<>> /\ Last(stack).at = "work"
    /\ LET f == Last(stack)
           r == request[f.task]
       IN  \E t \in WorkResults(task[f.task], r.kind) :
              \/ NextPart(f, t)
              \/ /\ ~isTaskDone(task[f.task].subState) /\ Restores(t, r.kind)
                 /\ task' = [task EXCEPT ![f.task] = t]
                 /\ Goto(f, "rollback")
    /\ UNCHANGED <<taskList, request, runningTaskObjectPath, signals, asked, leaked, removed, alive>>

JobRolledBack ==
    /\ alive /\ stack # <<>> /\ Last(stack).at = "rollback"
    /\ NextPart(Last(stack), task[Last(stack).task])
    /\ UNCHANGED <<taskList, request, runningTaskObjectPath, signals, asked, leaked,
                   removed, alive>>

JobStep == JobAsks \/ JobProceeds \/ JobRevives \/ JobWorks \/ JobRolledBack \/ JobReturned

Next ==
    \/ \E t \in Tasks, r \in Requests : RequestAtOnce(t, r) \/ RequestRemote(t, r)
    \/ RemoteAnswered
    \/ \E t \in Tasks : CancelTask(t)
    \/ \E t \in Tasks, answer \in {"yes", "no"} : ReplyInteraction(t, answer)
    \/ NotifyWaiting
    \/ StartNext
    \/ JobStep

Spec == Init /\ [][Next]_vars

(* Posted events are delivered, remote calls and pulls return, and ll-cli  *)
(* answers every question it is asked.                                     *)
FairSpec ==
    /\ Spec
    /\ WF_vars(NotifyWaiting \/ StartNext)
    /\ WF_vars(RemoteAnswered)
    /\ WF_vars(JobStep)
    /\ \A t \in Tasks : WF_vars(\E answer \in {"yes", "no"} : ReplyInteraction(t, answer))

-----------------------------------------------------------------------------
(* Properties                                                              *)

JobFrames == {i \in DOMAIN stack : IsJob(stack[i])}

TaskRecord == [state : States, subState : SubStates, total : Nat, stage : Nat,
               parts : Nat, refs : Seq(Refs), cancelled : BOOLEAN]

Frame == [task : Tasks, at : {"remote", "start", "interact", "work", "rollback", "end"},
          part : Nat, reply : {"none", "yes", "no"}]

(* Types of the package manager's fields and of the model's event queue. *)
TypeOK ==
    /\ taskList \in Seq(Tasks)
    /\ task \in [Tasks -> TaskRecord]
    /\ request \in [Tasks -> Requests \cup {NoRequest}]
    /\ runningTaskObjectPath \in Tasks \cup {NoPath}
    /\ signals \in Seq(Tasks \cup {NoPath})
    /\ stack \in Seq(Frame)
    /\ \A f \in Range(stack) : f.part \in DOMAIN request[f.task].refs
    /\ asked \in [Tasks -> Nat]
    /\ leaked \in Nat
    /\ removed \in [Tasks -> Seq([state : States, subState : SubStates])]
    /\ alive \in BOOLEAN

(* The TaskListChanged handler never loses a wake-up: while no path is     *)
(* recorded as running and no job is on the stack, a Queued task has a     *)
(* signal pending that will start it.                                      *)
NoLostWakeup ==
    (runningTaskObjectPath = NoPath /\ JobFrames = {} /\ QueuedTasks # {})
        => signals # <<>>

(* TaskRemoved is the last a client hears of a task, and ll-cli stops      *)
(* waiting then: it is never sent for a task whose subState says it is     *)
(* still in progress, whichever jobs interleaved with it.                  *)
RemovedOnlyWhenDone ==
    \A t \in Tasks : \A i \in DOMAIN removed[t] : isTaskDone(removed[t][i].subState)

(* A ref spec is operated on by at most one task of the list: the requests *)
(* look it up before they append, while others are answered.  (An update   *)
(* of several packages looks one up, waits for the remote, and appends     *)
(* after the last: it may share a ref with a task added meanwhile.)        *)
OneTaskPerRef ==
    \A i, k \in DOMAIN taskList :
        i # k => Range(task[taskList[i]].refs) \cap Range(task[taskList[k]].refs) = {}

(* The task list is sound at every wait of every handler: no ref is in two *)
(* of its tasks, and a task leaves it only when it is done.                *)
TaskListSound == TypeOK /\ OneTaskPerRef /\ RemovedOnlyWhenDone

(* Nested event loops always unwind: whatever is waiting on the stack      *)
(* returns, if remotes, pulls and users answer.                            *)
HandlersUnwind == (stack # <<>>) ~> (stack = <<>> \/ ~alive)

(* The path recorded as running, with no job on the stack to clear it. *)
StalePath == runningTaskObjectPath # NoPath /\ JobFrames = {}

(* A Queued task is executed and removed, unless it is cancelled or the    *)
(* recorded running path is stale: nothing else starves a task.            *)
StarvedOnlyByStalePath ==
    \A t \in Tasks :
        (t \in Range(taskList) /\ task[t].state = "Queued")
            ~> (t \notin Range(taskList) \/ task[t].cancelled \/ StalePath \/ ~alive)

=============================================================================
