------------------------------ MODULE CliTask ------------------------------
(***************************************************************************)
(* One run of ll-cli that has the daemon do something (install, upgrade,   *)
(* uninstall, search, prune) and waits for the end of it: the calls it     *)
(* makes, the signals it has subscribed to, the question it may have to    *)
(* answer, Ctrl-C, and the daemon's side of its task.                      *)
(*   cli      the process; at is where its thread is, last what it knows   *)
(*            of the task, done that its event loop was told to quit       *)
(*   matches  signals the bus forwards to it                               *)
(*   inbox    signals forwarded and not yet handled, in order              *)
(*   pkg      the daemon: its task, where its job is, what it was replied, *)
(*            Search and Prune jobs not finished                           *)
(*   seen     history: what happened around the client that it cannot know *)
(* The bus keeps the order of what one sender sends; a signal sent before  *)
(* its match rule is added is lost.  Handlers run only in an event loop.   *)
(***************************************************************************)
EXTENDS PackageTask

CONSTANTS
    Commands,   \* the sub-commands of this instance
    Notifiers,  \* how questions reach the user: terminal, dbus, dummy
    Faults      \* of {"signal", "kill", "stop", "cancel", "reply"}

VARIABLES cli, matches, inbox, pkg, seen

vars == <<cli, matches, inbox, pkg, seen>>

TaskCommands == {"install", "file", "upgrade", "uninstall"}
Asking == {"install", "file"}
NoTask == TemporaryTask
Unseen == [state |-> "Unknown", subState |-> "Unknown"]
Signals == [kind : {"PropertiesChanged", "TaskRemoved", "RequestInteraction", "SearchFinished", "PruneFinished"},
            of : {"mine", "other"}, state : States, subState : SubStates]
Signal(kind, of, t) == [kind |-> kind, of |-> of, state |-> t.state, subState |-> t.subState]

Ended == cli.at \in {"ended", "crashed"}

(* What reaches the client of an emission. *)
Forwarded(s) == IF s.kind \in matches /\ ~Ended THEN <<s>> ELSE <<>>

(* Types; a proxy is for the client's own task until its end is heard.     *)
TypeOK ==
    /\ cli \in [cmd : Commands, root : BOOLEAN, notifier : Notifiers,
                at : {"main", "auth", "call", "connect", "wait", "asked", "ended", "crashed"},
                path : {"", "mine"}, task : BOOLEAN, asked : {"", "mine", "other"},
                last : [state : States, subState : SubStates],
                quit : BOOLEAN, done : BOOLEAN, code : {0, -1}]
    /\ cli.task => cli.path = "mine" /\ ~cli.done
    /\ inbox \in Seq(Signals)
    /\ pkg.at \in {"none", "queued", "asking", "answered", "working", "over", "gone"}
    /\ pkg.jobs \subseteq {"probe", "mine"}

NewClient(cmd, root, notifier) ==
    [cmd |-> cmd, root |-> root, notifier |-> notifier, at |-> "main", path |-> "", task |-> FALSE,
     asked |-> "", last |-> Unseen, quit |-> FALSE, done |-> FALSE, code |-> 0]

Init ==
    /\ \E c \in Commands, r \in BOOLEAN, n \in Notifiers : cli = NewClient(c, r, n)
    /\ matches = {} /\ inbox = <<>>
    /\ pkg = [task |-> NoTask, at |-> "none", reply |-> "none", jobs |-> {}, up |-> TRUE, finished |-> {}]
    /\ seen = [cancelled |-> FALSE, lost |-> FALSE, failedPrune |-> FALSE, killed |-> FALSE,
               foreign |-> FALSE, waited |-> FALSE, outside |-> FALSE, said |-> {}]

-----------------------------------------------------------------------------
(* The end of the process.                                                 *)

(* cancelCurrentTask, on aboutToQuit. *)
cancelCurrentTask_if_seen_running(c) ==
    IF c.task /\ c.last.state = "Processing" /\ pkg.up /\ pkg.at \notin {"none", "gone"}
      THEN [pkg EXCEPT !.task = Cancel(@)] ELSE pkg

cancelCurrentTask(c) ==
    IF c.task /\ ~isTaskDone(c.last.subState) /\ pkg.up /\ pkg.at \notin {"none", "gone"}
      THEN [pkg EXCEPT !.task = Cancel(@)] ELSE pkg

(* A command returns: QCoreApplication::exit, aboutToQuit, main returns. *)
ReturnAs(c, code) ==
    /\ cli' = [c EXCEPT !.at = "ended", !.code = code, !.task = FALSE]
    /\ pkg' = cancelCurrentTask(c)
    /\ inbox' = <<>>
    /\ UNCHANGED <<matches, seen>>

Return(code) == ReturnAs(cli, code)

(* The handler of SIGINT, SIGTERM, SIGHUP and SIGQUIT: every event loop of *)
(* the thread, and every later one, ends.  A dbus notification waits in    *)
(* one and then finds no reason for its end: std::abort.                   *)
handler ==
    /\ "signal" \in Faults /\ cli.at \notin {"ended", "crashed"} /\ ~cli.quit
    /\ cli' = [cli EXCEPT !.quit = TRUE,
                          !.at = IF @ = "asked" /\ cli.notifier = "dbus" THEN "crashed" ELSE @]
    /\ UNCHANGED <<matches, inbox, pkg, seen>>

Kill ==
    /\ "kill" \in Faults /\ cli.at \notin {"ended", "crashed"}
    /\ cli' = [cli EXCEPT !.at = "crashed"]
    /\ seen' = [seen EXCEPT !.killed = TRUE]
    /\ inbox' = <<>>
    /\ UNCHANGED <<matches, pkg>>

-----------------------------------------------------------------------------
(* The command, up to its event loop.                                      *)

(* lockCheck: an error, or nobody holds the repository lock; while         *)
(* somebody does, main sleeps and asks again.                              *)
lockCheck == {"failed", "free"}

main_late_match ==
    /\ cli.at = "main"
    /\ cli' = [cli EXCEPT !.at = IF cli.cmd = "search" THEN "call" ELSE "auth"]
    /\ UNCHANGED <<matches, inbox, pkg, seen>>

(* main(): the lock is free, the daemon answers, printer, repository and   *)
(* notifier are made and Cli subscribes to TaskRemoved; or one of them     *)
(* fails.  Search asks for no authorisation.                               *)
main ==
    /\ cli.at = "main"
    /\ \/ /\ "free" \in lockCheck
          /\ cli' = [cli EXCEPT !.at = IF cli.cmd = "search" THEN "call" ELSE "auth"]
          /\ matches' = {"TaskRemoved"}
          /\ UNCHANGED <<inbox, pkg, seen>>
       \/ Return(-1)

(* runningAsRoot: the process becomes pkexec ll-cli, which is root if the  *)
(* user agrees.                                                            *)
runningAsRoot ==
    \/ /\ cli' = NewClient(cli.cmd, TRUE, cli.notifier)
       /\ matches' = {} /\ inbox' = <<>>
       /\ UNCHANGED <<pkg, seen>>
    \/ Return(-1)

(* authorization calls Prune.  Not refused, the daemon prunes. *)
authorization ==
    /\ cli.at = "auth"
    /\ \/ ~cli.root /\ runningAsRoot
       \/ /\ cli.root
          /\ cli' = [cli EXCEPT !.at = "call"]
          /\ pkg' = IF pkg.up THEN [pkg EXCEPT !.jobs = @ \cup {"probe"}] ELSE pkg
          /\ UNCHANGED <<matches, inbox, seen>>

(* The blocking call of a command, answered with a task or a job (it may   *)
(* have begun when the client goes on), or with an error; an error of the  *)
(* call itself, as its time-out, also when the daemon has accepted it.     *)
Calls(cmd, before, accept) ==
    /\ cli.at = "call" /\ cli.cmd = cmd
    /\ \/ Return(-1)
       \/ /\ pkg.up
          /\ cli' = [cli EXCEPT !.at = "ended", !.code = -1]
          /\ pkg' \in accept
          /\ UNCHANGED <<matches, inbox, seen>>
       \/ /\ pkg.up
          /\ cli' = [cli EXCEPT !.at = "connect"]
          /\ matches' = matches \cup before
          /\ pkg' \in accept
          /\ UNCHANGED <<inbox, seen>>

NewTaskOf(refs) == [pkg EXCEPT !.task = NewTask(refs), !.at = "queued"]
NewJob == [pkg EXCEPT !.jobs = @ \cup {"mine"}]

install == Calls("install", {"RequestInteraction"}, {NewTaskOf(<<"mine">>)})

installFromFile == Calls("file", {"RequestInteraction"}, {NewTaskOf(<<"mine">>)})

(* With no application named and nothing to upgrade, a task without refs. *)
upgrade == Calls("upgrade", {}, {NewTaskOf(<<"mine">>), NewTaskOf(<<>>)})

(* The reference must be installed and an application before the daemon is *)
(* asked.                                                                  *)
uninstall == Calls("uninstall", {}, {NewTaskOf(<<"mine">>)})

(* Only prune listens before it calls; search does when it has the reply. *)
prune == Calls("prune", {"PruneFinished"}, {NewJob})

search == Calls("search", {}, {NewJob})

(* With the reply in hand: the task's path and proxy, the last match rule, *)
(* and the event loop; without the rule a task command gives up.           *)
Connect ==
    /\ cli.at = "connect"
    /\ LET bound == [cli EXCEPT !.path = "mine", !.task = cli.cmd \in TaskCommands]
       IN  \/ /\ cli' = [bound EXCEPT !.at = "wait"]
              /\ matches' = matches \cup (CASE cli.cmd \in TaskCommands -> {"PropertiesChanged"}
                                            [] cli.cmd = "search" -> {"SearchFinished"}
                                            [] OTHER -> {})
              /\ UNCHANGED <<inbox, pkg, seen>>
           \/ cli.cmd \in TaskCommands /\ ReturnAs(bound, -1)

-----------------------------------------------------------------------------
(* The event loop of the command.                                          *)

Turning == cli.at = "wait" /\ inbox /= <<>>
Sig == Head(inbox)

(* The proxy is read before anything else: after TaskRemoved it is null.   *)
onTaskPropertiesChanged ==
    /\ Turning /\ Sig.kind = "PropertiesChanged"
    /\ inbox' = Tail(inbox)
    /\ cli' = IF cli.task
                THEN [cli EXCEPT !.last = [state |-> Sig.state, subState |-> Sig.subState]]
                ELSE [cli EXCEPT !.at = "crashed"]
    /\ UNCHANGED <<matches, pkg, seen>>

onTaskRemoved_keeps_last ==
    /\ Turning /\ Sig.kind = "TaskRemoved"
    /\ inbox' = Tail(inbox)
    /\ cli' = IF Sig.of # cli.path THEN cli ELSE [cli EXCEPT !.task = FALSE, !.done = TRUE]
    /\ UNCHANGED <<matches, pkg, seen>>

onTaskRemoved ==
    /\ Turning /\ Sig.kind = "TaskRemoved"
    /\ inbox' = Tail(inbox)
    /\ cli' = IF Sig.of # cli.path THEN cli
              ELSE [cli EXCEPT !.task = FALSE, !.done = TRUE,
                               !.last = [state |-> Sig.state, subState |-> Sig.subState]]
    /\ UNCHANGED <<matches, pkg, seen>>

interaction_any_task ==
    /\ Turning /\ Sig.kind = "RequestInteraction"
    /\ inbox' = Tail(inbox)
    /\ cli' = [cli EXCEPT !.at = "asked", !.asked = Sig.of]
    /\ UNCHANGED <<matches, pkg, seen>>

interaction ==
    /\ Turning /\ Sig.kind = "RequestInteraction"
    /\ inbox' = Tail(inbox)
    /\ cli' = IF Sig.of # cli.path THEN cli ELSE [cli EXCEPT !.at = "asked", !.asked = Sig.of]
    /\ UNCHANGED <<matches, pkg, seen>>

(* ReplyInteraction, whoever calls it: the task it names is not looked at, *)
(* and the reply reaches every job that is connected to ReplyReceived.  Of *)
(* replies that come before the job's loop has ended, that of an install   *)
(* keeps the last one, that of a file any no.  The handler of an install   *)
(* stays connected when the job has gone on, and then writes to variables  *)
(* that are no more: nothing happens, or the daemon dies.                  *)
ReplyInteraction(word) ==
    IF pkg.at \in {"asking", "answered"}
      THEN {[pkg EXCEPT !.at = "answered", !.reply = IF cli.cmd = "file" /\ @ = "no" THEN @ ELSE word]}
      ELSE {pkg} \cup (IF pkg.reply # "none" /\ cli.cmd = "install" THEN {[pkg EXCEPT !.up = FALSE]} ELSE {})

(* What the notifiers give back: a word, an error that counts as no, or    *)
(* the end of the process.  A signal makes the read from the terminal      *)
(* fail; a notification that expires has no branch of its own.             *)
TerminalNotifier == IF cli.quit THEN {"no"} ELSE {"yes", "no"}
DBusNotifier == {"yes", "no"} \cup (IF "kill" \in Faults THEN {"abort"} ELSE {})
DummyNotifier == {"yes"}
Answers == CASE cli.notifier = "terminal" -> TerminalNotifier
             [] cli.notifier = "dbus" -> DBusNotifier
             [] OTHER -> DummyNotifier

(* The rest of interaction: the answer goes to the daemon. *)
request ==
    /\ cli.at = "asked"
    /\ \E answer \in Answers :
          IF answer = "abort"
            THEN /\ cli' = [cli EXCEPT !.at = "crashed"]
                 /\ seen' = [seen EXCEPT !.killed = TRUE]
                 /\ UNCHANGED pkg
            ELSE /\ cli' = [cli EXCEPT !.at = "wait"]
                 /\ pkg' \in IF pkg.up THEN ReplyInteraction(answer) ELSE {pkg}
                 /\ seen' = [seen EXCEPT !.said = IF cli.asked = "mine" THEN @ \cup {answer} ELSE @]
    /\ UNCHANGED <<matches, inbox>>

(* A notification waits in an event loop of its own, so that the command's *)
(* signals are handled beneath the question.                               *)
RemovedWhileAsked ==
    /\ cli.at = "asked" /\ cli.notifier = "dbus" /\ inbox # <<>> /\ Sig.kind # "RequestInteraction"
    /\ inbox' = Tail(inbox)
    /\ LET told == [cli EXCEPT !.last = [state |-> Sig.state, subState |-> Sig.subState]]
       IN  cli' = IF Sig.kind = "PropertiesChanged" /\ ~cli.task THEN [cli EXCEPT !.at = "crashed"]
                  ELSE IF Sig.of # cli.path THEN cli
                  ELSE IF Sig.kind # "TaskRemoved" THEN told
                  ELSE [told EXCEPT !.task = FALSE, !.done = TRUE]
    /\ UNCHANGED <<matches, pkg, seen>>

(* The lambda of search. *)
onSearchFinished ==
    /\ Turning /\ Sig.kind = "SearchFinished"
    /\ inbox' = Tail(inbox)
    /\ cli' = IF Sig.of # "mine" THEN cli
              ELSE [cli EXCEPT !.done = TRUE, !.code = IF Sig.state = "Failed" THEN -1 ELSE 0]
    /\ UNCHANGED <<matches, pkg, seen>>

(* The lambda of prune reads the list of packages also of a failed prune,  *)
(* which has none: a crash, or an empty list and success.                  *)
onPruneFinished ==
    /\ Turning /\ Sig.kind = "PruneFinished"
    /\ inbox' = Tail(inbox)
    /\ cli' \in IF Sig.of # "mine" THEN {cli}
                ELSE {[cli EXCEPT !.done = TRUE]}
                     \cup (IF Sig.state = "Failed" THEN {[cli EXCEPT !.at = "crashed"]} ELSE {})
    /\ UNCHANGED <<matches, pkg, seen>>

(* The loop ends; the command returns what it knows. *)
ReturnFromLoop ==
    /\ cli.at = "wait" /\ (cli.done \/ cli.quit)
    /\ Return(IF cli.cmd \in TaskCommands THEN IF cli.last.state = "Succeed" THEN 0 ELSE -1
              ELSE IF cli.done THEN cli.code ELSE -1)

-----------------------------------------------------------------------------
(* The daemon, as far as this client is concerned.                         *)

Emit(s) == inbox' = inbox \o Forwarded(s)

(* The job of a Queued task is started; only an install may have to ask. *)
JobStarts ==
    /\ pkg.up /\ pkg.at = "queued" /\ pkg.task.state = "Queued"
    /\ \/ /\ cli.cmd \in Asking
          /\ pkg' = [pkg EXCEPT !.at = "asking"]
          /\ Emit(Signal("RequestInteraction", "mine", pkg.task))
       \/ /\ pkg' = [pkg EXCEPT !.at = "working",
                                !.task = IF @.refs = <<>> THEN @ ELSE updateState(@, "Processing")]
          /\ Emit(Signal("PropertiesChanged", "mine", pkg'.task))
    /\ UNCHANGED <<cli, matches, seen>>

(* The loop of the question has ended: a reply other than yes cancels the  *)
(* task, and a task that is done, also by a cancel meanwhile, is left.     *)
JobGoesOn ==
    /\ pkg.up /\ pkg.at = "answered"
    /\ LET told == IF pkg.reply = "yes" THEN pkg.task ELSE updateState(pkg.task, "Canceled")
       IN  pkg' = [pkg EXCEPT !.at = "working",
                              !.task = IF isTaskDone(told.subState) THEN told ELSE updateState(told, "Processing")]
    /\ IF pkg'.task = pkg.task THEN UNCHANGED inbox ELSE Emit(Signal("PropertiesChanged", "mine", pkg'.task))
    /\ UNCHANGED <<cli, matches, seen>>

(* Another client, or the same user elsewhere, replies to whatever.        *)
ReplyFromOther ==
    /\ "reply" \in Faults /\ pkg.up
    /\ \E word \in {"yes", "no"} : pkg' \in ReplyInteraction(word)
    /\ seen' = [seen EXCEPT !.outside = @ \/ pkg.at \in {"asking", "answered"}]
    /\ UNCHANGED <<cli, matches, inbox>>

(* Another task is in the way: what waits is told so, which for a task     *)
(* without refs means that all of them are done.                           *)
TaskWaits ==
    /\ pkg.up /\ pkg.at = "queued" /\ ~seen.waited
    /\ pkg' = [pkg EXCEPT !.task = updateState(@, "Queued")]
    /\ Emit(Signal("PropertiesChanged", "mine", pkg'.task))
    /\ seen' = [seen EXCEPT !.waited = TRUE]
    /\ UNCHANGED <<cli, matches>>

(* The last piece of the job: its result, if it has anything to do and was *)
(* not cancelled, then TaskRemoved.                                        *)
Results(t) ==
    IF isTaskDone(t.subState) \/ t.refs = <<>> THEN {t}
    ELSE {updateState(t, "PartCompleted"), reportError(t)}

JobReturns ==
    /\ pkg.up /\ pkg.at = "working"
    /\ \E end \in Results(pkg.task) :
          /\ pkg' = [pkg EXCEPT !.at = "over", !.task = end]
          /\ inbox' = inbox \o (IF end = pkg.task THEN <<>> ELSE Forwarded(Signal("PropertiesChanged", "mine", end)))
                           \o Forwarded(Signal("TaskRemoved", "mine", end))
    /\ UNCHANGED <<cli, matches, seen>>

(* Task1.Cancel from somebody else; the task answers until it is deleted,  *)
(* also when its end has been announced.                                   *)
CancelledByOther ==
    /\ "cancel" \in Faults /\ pkg.up /\ pkg.at \in {"queued", "asking", "answered", "working", "over"}
    /\ ~pkg.task.cancelled
    /\ pkg' = [pkg EXCEPT !.task = Cancel(@)]
    /\ Emit(Signal("PropertiesChanged", "mine", pkg'.task))
    /\ seen' = [seen EXCEPT !.cancelled = TRUE]
    /\ UNCHANGED <<cli, matches>>

TaskDeleted ==
    /\ pkg.up /\ pkg.at = "over"
    /\ pkg' = [pkg EXCEPT !.at = "gone"]
    /\ UNCHANGED <<cli, matches, inbox, seen>>

(* A Search or Prune job ends, well or badly.  The jobs of a queue run in  *)
(* the order of their requests.                                            *)
JobFinished ==
    /\ pkg.up
    /\ \E j \in pkg.jobs, ok \in BOOLEAN :
          LET kind == IF j = "probe" \/ cli.cmd = "prune" THEN "PruneFinished" ELSE "SearchFinished"
              sig  == [kind |-> kind, of |-> IF j = "mine" THEN "mine" ELSE "other",
                       state |-> IF ok THEN "Succeed" ELSE "Failed", subState |-> "AllDone"]
          IN  /\ j = "mine" => "probe" \notin pkg.jobs
              /\ pkg' = [pkg EXCEPT !.jobs = @ \ {j}, !.finished = @ \cup (IF ok THEN {j} \ {"probe"} ELSE {})]
              /\ Emit(sig)
              /\ seen' = [seen EXCEPT !.lost = @ \/ (j = "mine" /\ kind \notin matches),
                                      !.failedPrune = @ \/ (j = "mine" /\ kind = "PruneFinished" /\ ~ok)]
    /\ UNCHANGED <<cli, matches>>

(* Signals about the task of another client. *)
OtherTask ==
    /\ pkg.up /\ ~seen.foreign
    /\ \E k \in {"TaskRemoved", "RequestInteraction"} : Emit(Signal(k, "other", TemporaryTask))
    /\ seen' = [seen EXCEPT !.foreign = TRUE]
    /\ UNCHANGED <<cli, matches, pkg>>

Stop ==
    /\ "stop" \in Faults /\ pkg.up
    /\ pkg' = [pkg EXCEPT !.up = FALSE]
    /\ UNCHANGED <<cli, matches, inbox, seen>>

-----------------------------------------------------------------------------
Loop == \/ onTaskPropertiesChanged \/ onTaskRemoved \/ interaction \/ RemovedWhileAsked
        \/ onSearchFinished \/ onPruneFinished

Command == \/ main \/ authorization \/ Connect \/ request \/ ReturnFromLoop
           \/ install \/ installFromFile \/ upgrade \/ uninstall \/ search \/ prune

Daemon == JobStarts \/ JobGoesOn \/ JobReturns \/ TaskDeleted \/ JobFinished

Next == Loop \/ Command \/ Daemon \/ handler \/ Kill \/ CancelledByOther \/ ReplyFromOther \/ TaskWaits
        \/ OtherTask \/ Stop

Spec == Init /\ [][Next]_vars

(* The client's thread runs, a call returns or times out, the signals that *)
(* have arrived are handled and a user who is asked answers.  Nothing is   *)
(* assumed of the daemon, whose task may never be started (a stale running *)
(* path) nor end, and nothing of signals, cancels or stops.                *)
FairSpec == Spec /\ WF_vars(Loop) /\ WF_vars(Command)

-----------------------------------------------------------------------------
(* ExitCodeTells: an exit status of 0 of a task command is never given for *)
(* a task that did not succeed, and a client that heard the end of a task  *)
(* that succeeded gives no other; 0 from search means that it was done.    *)
ExitCodeTells ==
    cli.at = "ended" =>
      /\ cli.cmd \in TaskCommands /\ cli.code = 0 => pkg.task.parts = Len(pkg.task.refs)
      /\ cli.cmd \in TaskCommands /\ cli.done /\ ~seen.cancelled /\ pkg.task.state = "Succeed" => cli.code = 0
      /\ cli.cmd = "search" /\ cli.code = 0 => "mine" \in pkg.finished

(* NoTaskAbandoned: a client that leaves, for whatever reason but its      *)
(* death, leaves no task behind that goes on as if it were wanted, once it *)
(* has the path of the task.                                               *)
NoTaskAbandoned ==
    cli.at = "ended" /\ cli.path = "mine" /\ pkg.up /\ pkg.at \in {"queued", "asking", "answered", "working"} =>
        pkg.task.cancelled \/ isTaskDone(pkg.task.subState)

(* ConsentIsOwn: ReplyInteraction is not about any particular task, so the *)
(* answer to a question about another task is taken as the user's consent  *)
(* to this one.  The client never gives such an answer: a job that asked   *)
(* goes on with what its own user said to its own question, whatever else  *)
(* was asked or cancelled meanwhile, unless another client's reply came    *)
(* while it waited, which the code cannot tell from its own.               *)
ConsentIsOwn ==
    [][pkg.at = "answered" /\ pkg'.at = "working" => seen.outside \/ pkg.reply \in seen.said]_vars

(* DiesOnlyWhenRaced: the null proxy, the missing list of packages and the *)
(* unexpected end of a notification are reached only through somebody      *)
(* else's late cancel, a failed prune, or a signal.                        *)
DiesOnlyWhenRaced ==
    cli.at = "crashed" =>
        seen.killed \/ seen.failedPrune \/ seen.cancelled \/ (cli.quit /\ cli.notifier = "dbus")

(* LeavesClean: whichever signal, cancel or question it meets, a client    *)
(* leaves no task behind and does not die of it unless raced.              *)
LeavesClean == TypeOK /\ NoTaskAbandoned /\ DiesOnlyWhenRaced

(* The daemon has announced the end of what the client waits for. *)
Announced == IF cli.cmd \in TaskCommands THEN pkg.at \in {"over", "gone"} ELSE "mine" \notin pkg.jobs

(* WaitEnds: a client that waits leaves once the daemon has announced the  *)
(* end, however early that was, unless the search was over before the      *)
(* client listened.                                                        *)
WaitEnds == cli.at = "wait" /\ Announced ~> Ended \/ seen.lost

(* QuestionAnswered: a job that asks gets an answer, unless the client has  *)
(* left before it (a signal, its death): the daemon waits without a limit. *)
QuestionAnswered == pkg.at = "asking" ~> (pkg.at # "asking" \/ ~pkg.up \/ (Ended /\ ~cli.done))

(* SignalEnds: a signal ends a client that has called the daemon, whatever *)
(* the daemon does and whether or not it ever runs the task.               *)
SignalEnds == cli.quit /\ cli.at \in {"call", "connect", "wait", "asked"} ~> Ended

(* NobodyWaits: neither side waits for ever for what the other has done,   *)
(* and a user can always leave.                                            *)
NobodyWaits == WaitEnds /\ QuestionAnswered /\ SignalEnds

=============================================================================
