--------------------------- MODULE CommandProofs ---------------------------
(***************************************************************************)
(* The two programs of the command line.                                   *)
(*                                                                         *)
(* CliTask for any commands, notifiers and faults: what the exit status of *)
(* ll-cli tells, what it leaves behind and what it may die of, and whose   *)
(* question the user's answer is taken for.                                *)
(*                                                                         *)
(* Builder for any number of commands, any command lines and mishaps: what *)
(* the lists of its commands have in common, whoever writes last, and what *)
(* the exit status of a build tells.                                       *)
(***************************************************************************)
EXTENDS CliTask, Builder, SequenceTheorems, FiniteSetTheorems, TLAPS

-----------------------------------------------------------------------------
(* ll-cli: the inductive invariant                                         *)

Early == {"main", "auth", "call"}
Kinds == {"PropertiesChanged", "TaskRemoved", "RequestInteraction", "SearchFinished", "PruneFinished"}

ClientRecord ==
    [cmd : Commands, root : BOOLEAN, notifier : Notifiers,
     at : {"main", "auth", "call", "connect", "wait", "asked", "ended", "crashed"},
     path : {"", "mine"}, task : BOOLEAN, asked : {"", "mine", "other"},
     last : [state : States, subState : SubStates],
     quit : BOOLEAN, done : BOOLEAN, code : {0, -1}]

TaskRecord ==
    [state : States, subState : SubStates, total : Nat, stage : Nat, parts : {0, 1},
     refs : {<<>>, <<"mine">>}, cancelled : BOOLEAN]

SeenRecord == [cancelled : BOOLEAN, lost : BOOLEAN, failedPrune : BOOLEAN, killed : BOOLEAN,
               foreign : BOOLEAN, waited : BOOLEAN, outside : BOOLEAN, said : SUBSET {"yes", "no"}]

(* A part is counted only in the last piece of the job of a task with a    *)
(* ref, which then has succeeded; success means that all parts are.        *)
TaskTells(p) ==
    /\ p.task.parts = 1 => /\ p.task.refs = <<"mine">> /\ p.at \in {"over", "gone"}
                           /\ p.task.state = "Succeed" /\ isTaskDone(p.task.subState)
    /\ p.task.state = "Succeed" => p.task.parts = Len(p.task.refs)

DaemonInv ==
    /\ pkg \in [task : TaskRecord, at : {"none", "queued", "asking", "answered", "working", "over", "gone"},
                reply : {"none", "yes", "no"}, jobs : SUBSET {"probe", "mine"}, up : BOOLEAN, finished : SUBSET {"probe", "mine"}]
    /\ TaskTells(pkg)
    /\ seen \in SeenRecord

(* The task, the jobs and the match rules are those of the command. *)
CommandInv ==
    /\ pkg.at # "none" => cli.cmd \in TaskCommands
    /\ "mine" \in pkg.jobs => cli.cmd \in {"search", "prune"}
    /\ matches \subseteq Kinds
    /\ "PropertiesChanged" \in matches => cli.cmd \in TaskCommands
    /\ "SearchFinished" \in matches => cli.cmd = "search"
    /\ "PruneFinished" \in matches => cli.cmd = "prune"
    /\ "RequestInteraction" \in matches => cli.cmd \in Asking

(* What the client has and knows by the place it is at. *)
ClientInv ==
    /\ cli \in ClientRecord
    /\ cli.at = "main" => matches = {}
    /\ cli.at \in Early => pkg.at = "none" /\ ~cli.done /\ cli.path = "" /\ cli.last = Unseen
    /\ cli.at = "connect" => ~cli.done /\ cli.last = Unseen /\ cli.path = ""
    /\ cli.task => cli.path = "mine" /\ ~cli.done /\ cli.cmd \in TaskCommands
    /\ cli.at \in {"wait", "asked"} => cli.path = "mine" /\ (cli.cmd \in TaskCommands => cli.task \/ cli.done)
    /\ cli.at = "asked" => cli.asked = "mine" /\ cli.cmd \in Asking
    /\ cli.done /\ cli.cmd \in TaskCommands => /\ pkg.at \in {"over", "gone"}
                                               /\ seen.cancelled \/ cli.last.state = pkg.task.state
    /\ cli.last.state = "Succeed" => pkg.task.parts = Len(pkg.task.refs)
    /\ isTaskDone(cli.last.subState) => isTaskDone(pkg.task.subState)
    /\ cli.cmd = "search" /\ cli.done /\ cli.code = 0 => "mine" \in pkg.finished

(* What a signal says is, or has become, true of the daemon.  (The client  *)
(* may cancel its task when it leaves; it hears nothing after that.)       *)
Truthful(s) ==
    /\ s \in Signals /\ s.kind \in matches
    /\ s.kind = "PropertiesChanged" => s.of = "mine"
    /\ s.of = "mine" /\ s.kind \in {"PropertiesChanged", "TaskRemoved"} =>
         /\ pkg.at # "none"
         /\ s.state = "Succeed" => pkg.task.parts = Len(pkg.task.refs)
         /\ isTaskDone(s.subState) => isTaskDone(pkg.task.subState)
    /\ s.of = "mine" /\ s.kind = "TaskRemoved" =>
         /\ pkg.at \in {"over", "gone"}
         /\ Ended \/ seen.cancelled \/ s.state = pkg.task.state
    /\ s.of = "mine" /\ s.kind = "SearchFinished" => s.state = "Failed" \/ "mine" \in pkg.finished
    /\ s.of = "mine" /\ s.kind = "PruneFinished" => s.state # "Failed" \/ seen.failedPrune

EndOfMine(s) == s.kind = "TaskRemoved" /\ s.of = "mine"

(* No change of the task is heard behind its end, unless somebody else     *)
(* cancelled it.                                                           *)
InboxInv ==
    /\ inbox \in Seq(Signals)
    /\ \A i \in DOMAIN inbox : Truthful(inbox[i])
    /\ \A i \in DOMAIN inbox : inbox[i].kind = "PropertiesChanged" /\ cli.done => seen.cancelled
    /\ \A i, j \in DOMAIN inbox : i < j /\ EndOfMine(inbox[i]) /\ inbox[j].kind = "PropertiesChanged" => seen.cancelled

EndInv == ExitCodeTells /\ NoTaskAbandoned /\ DiesOnlyWhenRaced

IInv == DaemonInv /\ CommandInv /\ ClientInv /\ InboxInv /\ EndInv

-----------------------------------------------------------------------------
(* Operators on the task                                                   *)

(* updateState with anything but a completed part: success if all parts    *)
(* are completed, else what was asked for; a result is the last sub-state. *)
LEMMA UpdateIs ==
    ASSUME NEW t \in TaskRecord, NEW s \in States \ {"PartCompleted"}
    PROVE  /\ updateState(t, s) \in TaskRecord
           /\ updateState(t, s).parts = t.parts /\ updateState(t, s).refs = t.refs
           /\ updateState(t, s).cancelled = t.cancelled
           /\ updateState(t, s).state = IF t.parts = Len(t.refs) THEN "Succeed" ELSE s
           /\ updateState(t, s).subState = IF t.parts = Len(t.refs) \/ s \in {"Canceled", "Failed", "Succeed"}
                                             THEN "AllDone" ELSE t.subState
  BY DEF updateState, updateStateTo, updateSubState, isTaskDone, TASK_DONE, TaskRecord, States, SubStates

(* The completed part of a task with one ref is its success. *)
LEMMA PartIs ==
    ASSUME NEW t \in TaskRecord, t.parts = 0, t.refs # <<>>
    PROVE  /\ updateState(t, "PartCompleted") \in TaskRecord
           /\ updateState(t, "PartCompleted").parts = 1
           /\ updateState(t, "PartCompleted").refs = <<"mine">>
           /\ updateState(t, "PartCompleted").cancelled = t.cancelled
           /\ updateState(t, "PartCompleted").state = "Succeed"
           /\ updateState(t, "PartCompleted").subState = "AllDone"
  <1> DEFINE u == [t EXCEPT !.state = "PartCompleted", !.parts = @ + 1, !.total = 0, !.stage = 0]
             v == [u EXCEPT !.state = "Succeed"]
  <1>1. t.refs = <<"mine">> /\ Len(t.refs) = 1 /\ t.parts + 1 = 1
    BY DEF TaskRecord
  <1>2. u \in TaskRecord /\ u.parts = 1 /\ u.refs = <<"mine">> /\ u.cancelled = t.cancelled
    BY <1>1 DEF TaskRecord, States
  <1>3. v \in TaskRecord /\ v.parts = 1 /\ v.refs = <<"mine">> /\ v.cancelled = t.cancelled /\ v.state = "Succeed"
    BY <1>2 DEF TaskRecord, States
  <1>4. updateState(t, "PartCompleted") = updateSubState(v, "AllDone")
    BY <1>1, <1>2 DEF updateState, updateStateTo
  <1>5. updateSubState(v, "AllDone") = [v EXCEPT !.subState = "AllDone", !.total = 100]
    BY DEF updateSubState, isTaskDone, TASK_DONE
  <1> HIDE DEF u, v
  <1> DEFINE w == [v EXCEPT !.subState = "AllDone", !.total = 100]
  <1>6. /\ w \in TaskRecord /\ w.parts = v.parts /\ w.refs = v.refs /\ w.cancelled = v.cancelled
        /\ w.state = v.state /\ w.subState = "AllDone"
    BY <1>3 DEF TaskRecord, SubStates
  <1> QED
    BY <1>3, <1>4, <1>5, <1>6

(* An error is a failure and the last sub-state. *)
LEMMA ErrorIs ==
    ASSUME NEW t \in TaskRecord
    PROVE  /\ reportError(t) \in TaskRecord
           /\ reportError(t).parts = t.parts /\ reportError(t).refs = t.refs
           /\ reportError(t).cancelled = t.cancelled
           /\ reportError(t).state = "Failed" /\ reportError(t).subState = "AllDone"
  BY DEF reportError, TASK_DONE, TaskRecord, States, SubStates

(* Task1.Cancel takes no part away and no success back, and leaves the     *)
(* task cancelled; one that was is left as it is.                          *)
LEMMA CancelIs ==
    ASSUME NEW t \in TaskRecord
    PROVE  /\ Cancel(t) \in TaskRecord
           /\ Cancel(t).parts = t.parts /\ Cancel(t).refs = t.refs /\ Cancel(t).cancelled
           /\ isTaskDone(t.subState) => isTaskDone(Cancel(t).subState)
           /\ \/ Cancel(t) = t
              \/ /\ isTaskDone(Cancel(t).subState)
                 /\ Cancel(t).state = IF t.parts = Len(t.refs) THEN "Succeed" ELSE "Canceled"
  <1>1. CASE t.cancelled
    BY <1>1 DEF Cancel
  <1>2. CASE ~t.cancelled
    <2> DEFINE u == [t EXCEPT !.cancelled = TRUE]
    <2>1. u \in TaskRecord /\ u.parts = t.parts /\ u.refs = t.refs /\ u.cancelled = TRUE
      BY DEF TaskRecord
    <2>2. "Canceled" \in States \ {"PartCompleted"}
      BY DEF States
    <2>3. Cancel(t) = updateState(u, "Canceled")
      BY <1>2 DEF Cancel
    <2> HIDE DEF u
    <2> QED
      BY <2>1, <2>2, <2>3, UpdateIs DEF isTaskDone
  <1> QED
    BY <1>1, <1>2

-----------------------------------------------------------------------------
(* Signals on their way                                                    *)

(* How the daemon, its task and the history go on: nothing that a signal   *)
(* said is taken back.                                                     *)
Onward ==
    /\ pkg.at # "none" => pkg'.at # "none"
    /\ pkg.at \in {"over", "gone"} => /\ pkg'.at \in {"over", "gone"}
                                      /\ Ended' \/ seen'.cancelled \/ pkg'.task.state = pkg.task.state
    /\ pkg.at # "none" /\ pkg.task.parts = Len(pkg.task.refs) => pkg'.task.parts = Len(pkg'.task.refs)
    /\ pkg.at # "none" /\ isTaskDone(pkg.task.subState) => isTaskDone(pkg'.task.subState)
    /\ pkg.finished \subseteq pkg'.finished
    /\ seen.cancelled => seen'.cancelled
    /\ seen.failedPrune => seen'.failedPrune
    /\ Ended => Ended'
    /\ matches \subseteq matches'

(* What a signal says stays true. *)
LEMMA StaysTrue ==
    ASSUME NEW s, Truthful(s), Onward
    PROVE  Truthful(s)'
  BY DEF Truthful, Onward

(* The client takes the first signal; that its loop is told to quit means  *)
(* that this was the end of its task, or that it hears of no changes.      *)
LEMMA InboxTaken ==
    ASSUME InboxInv, Onward, inbox # <<>>, inbox' = Tail(inbox),
           cli'.done => cli.done \/ EndOfMine(Head(inbox)) \/ "PropertiesChanged" \notin matches
    PROVE  InboxInv'
  <1>1. /\ inbox' \in Seq(Signals) /\ DOMAIN inbox' = 1 .. Len(inbox) - 1 /\ 1 \in DOMAIN inbox
        /\ \A i \in DOMAIN inbox' : i + 1 \in DOMAIN inbox /\ inbox'[i] = inbox[i + 1] /\ 1 < i + 1
        /\ Head(inbox) = inbox[1] /\ Len(inbox) \in Nat
    BY DEF InboxInv
  <1>2. ASSUME NEW i \in DOMAIN inbox' PROVE Truthful(inbox[i])'
    <2>1. Truthful(inbox[i + 1])
      BY <1>1, <1>2 DEF InboxInv
    <2>2. inbox[i + 1] = inbox'[i]
      BY <1>1, <1>2
    <2> QED
      BY <2>1, <2>2, StaysTrue DEF Truthful, Onward
  <1>3. ASSUME NEW i \in DOMAIN inbox', inbox'[i].kind = "PropertiesChanged", cli'.done
        PROVE  seen'.cancelled
    <2>1. inbox[i + 1].kind = "PropertiesChanged" /\ inbox[i + 1].kind \in matches
      BY <1>1, <1>3 DEF InboxInv, Truthful
    <2> QED
      BY <1>1, <1>3, <2>1 DEF InboxInv, Onward
  <1>4. ASSUME NEW i \in DOMAIN inbox', NEW j \in DOMAIN inbox', i < j, EndOfMine(inbox'[i]),
               inbox'[j].kind = "PropertiesChanged"
        PROVE  seen'.cancelled
    <2>1. i + 1 < j + 1
      BY <1>1, <1>4
    <2> QED
      BY <1>1, <1>4, <2>1 DEF InboxInv, Onward, EndOfMine
  <1> QED
    BY <1>1, <1>2, <1>3, <1>4 DEF InboxInv, EndOfMine

(* Signals are added behind the others: true ones, and none about a change *)
(* of the task behind its end unless it was cancelled.                     *)
LEMMA InboxAdded ==
    ASSUME InboxInv, ClientInv, CommandInv, Onward, NEW x \in Seq(Signals), inbox' = inbox \o x, cli' = cli,
           \A k \in DOMAIN x : Truthful(x[k])',
           matches' = matches,
           \A k \in DOMAIN x : x[k].kind = "PropertiesChanged" =>
              seen'.cancelled \/ (pkg.at \notin {"over", "gone"} /\ \A m \in DOMAIN x : m < k => ~EndOfMine(x[m]))
    PROVE  InboxInv'
  <1>1. /\ inbox' \in Seq(Signals) /\ Len(inbox') = Len(inbox) + Len(x) /\ Len(inbox) \in Nat /\ Len(x) \in Nat
        /\ DOMAIN inbox = 1 .. Len(inbox) /\ DOMAIN x = 1 .. Len(x) /\ DOMAIN inbox' = 1 .. Len(inbox')
    BY DEF InboxInv
  <1>2. \A i \in DOMAIN inbox' : \/ i \in DOMAIN inbox /\ inbox'[i] = inbox[i]
                                 \/ i > Len(inbox) /\ i - Len(inbox) \in DOMAIN x /\ inbox'[i] = x[i - Len(inbox)]
    BY <1>1 DEF InboxInv
  <1>3. ASSUME NEW i \in DOMAIN inbox' PROVE Truthful(inbox[i])'
    <2>1. CASE i \in DOMAIN inbox /\ inbox'[i] = inbox[i]
      <3>1. Truthful(inbox[i])
        BY <2>1 DEF InboxInv
      <3> QED
        BY <2>1, <3>1, StaysTrue DEF Truthful, Onward
    <2>2. CASE i - Len(inbox) \in DOMAIN x /\ inbox'[i] = x[i - Len(inbox)]
      BY <2>2 DEF Truthful
    <2> QED
      BY <1>2, <1>3, <2>1, <2>2
  <1>4. ASSUME NEW i \in DOMAIN inbox', inbox'[i].kind = "PropertiesChanged", cli'.done
        PROVE  seen'.cancelled
    <2>1. inbox'[i].kind \in matches
      BY <1>3, <1>4 DEF Truthful
    <2>2. pkg.at \in {"over", "gone"}
      BY <1>4, <2>1 DEF CommandInv, ClientInv
    <2> QED
      BY <1>2, <1>4, <2>2 DEF InboxInv, Onward
  <1>5. ASSUME NEW i \in DOMAIN inbox', NEW j \in DOMAIN inbox', i < j, EndOfMine(inbox'[i]),
               inbox'[j].kind = "PropertiesChanged"
        PROVE  seen'.cancelled
    <2>1. CASE j \in DOMAIN inbox /\ inbox'[j] = inbox[j]
      <3>1. i \in DOMAIN inbox /\ inbox'[i] = inbox[i]
        BY <1>1, <1>2, <1>5, <2>1
      <3> QED
        BY <1>5, <2>1, <3>1 DEF InboxInv, Onward, EndOfMine
    <2>2. CASE j > Len(inbox) /\ j - Len(inbox) \in DOMAIN x /\ inbox'[j] = x[j - Len(inbox)]
      <3>1. CASE i \in DOMAIN inbox /\ inbox'[i] = inbox[i]
        <4>1. pkg.at \in {"over", "gone"}
          BY <1>5, <3>1 DEF InboxInv, Truthful, EndOfMine
        <4> QED
          BY <1>5, <2>2, <4>1
      <3>2. CASE i > Len(inbox) /\ i - Len(inbox) \in DOMAIN x /\ inbox'[i] = x[i - Len(inbox)]
        <4>1. i - Len(inbox) < j - Len(inbox)
          BY <1>1, <1>5
        <4> QED
          BY <1>5, <2>2, <3>2, <4>1 DEF EndOfMine
      <3> QED
        BY <1>2, <1>5, <3>1, <3>2
    <2> QED
      BY <1>2, <1>5, <2>1, <2>2
  <1> QED
    BY <1>1, <1>3, <1>4, <1>5 DEF InboxInv, EndOfMine

(* The inbox is left alone. *)
LEMMA InboxLeft ==
    ASSUME InboxInv, Onward, inbox' = inbox, cli'.done => cli.done
    PROVE  InboxInv'
  <1>1. ASSUME NEW i \in DOMAIN inbox PROVE Truthful(inbox[i])'
    <2>1. Truthful(inbox[i])
      BY <1>1 DEF InboxInv
    <2> QED
      BY <2>1, StaysTrue DEF Truthful, Onward
  <1> QED
    BY <1>1 DEF InboxInv, Onward, EndOfMine

(* A process that has gone hears nothing. *)
LEMMA InboxEmptied ==
    ASSUME inbox' = <<>>
    PROVE  InboxInv'
  BY DEF InboxInv

-----------------------------------------------------------------------------
(* The start                                                               *)

(* A client that has just begun, whatever the daemon did before. *)
LEMMA NewClientIs ==
    ASSUME NEW c \in Commands, NEW r \in BOOLEAN, NEW n \in Notifiers
    PROVE  /\ NewClient(c, r, n) \in ClientRecord
           /\ NewClient(c, r, n).at = "main" /\ NewClient(c, r, n).path = "" /\ ~NewClient(c, r, n).task
           /\ NewClient(c, r, n).last = Unseen /\ ~NewClient(c, r, n).done /\ NewClient(c, r, n).cmd = c
           /\ NewClient(c, r, n).quit = FALSE
  BY DEF NewClient, ClientRecord, Unseen, States, SubStates

(* The daemon has no task and no job for a client that begins. *)
LEMMA InitIInv == Init => IInv
  <1> SUFFICES ASSUME Init PROVE IInv
    OBVIOUS
  <1>1. PICK c \in Commands, r \in BOOLEAN, n \in Notifiers : cli = NewClient(c, r, n)
    BY DEF Init
  <1>2. NoTask \in TaskRecord /\ NoTask.parts = 0 /\ NoTask.state = "Queued" /\ NoTask.refs = <<>>
    BY DEF NoTask, TemporaryTask, NewTask, TaskRecord, States, SubStates
  <1>8. /\ pkg = [task |-> NoTask, at |-> "none", reply |-> "none", jobs |-> {}, up |-> TRUE, finished |-> {}]
        /\ seen = [cancelled |-> FALSE, lost |-> FALSE, failedPrune |-> FALSE, killed |-> FALSE,
                   foreign |-> FALSE, waited |-> FALSE, outside |-> FALSE, said |-> {}]
        /\ inbox = <<>>
    BY DEF Init
  <1>3. DaemonInv
    <2>1. seen \in SeenRecord
      BY <1>8 DEF SeenRecord
    <2>2. TaskTells(pkg)
      BY <1>2, <1>8 DEF TaskTells
    <2>3. pkg \in [task : TaskRecord, at : {"none", "queued", "asking", "answered", "working", "over", "gone"},
                   reply : {"none", "yes", "no"}, jobs : SUBSET {"probe", "mine"}, up : BOOLEAN,
                   finished : SUBSET {"probe", "mine"}]
      BY <1>2, <1>8
    <2> QED
      BY <2>1, <2>2, <2>3 DEF DaemonInv
  <1>4. CommandInv
    BY DEF Init, CommandInv, Kinds
  <1>5. ClientInv
    <2>1. cli \in ClientRecord /\ cli.at = "main" /\ cli.path = "" /\ cli.last = Unseen
      <3>1. cli \in ClientRecord
        BY <1>1, NewClientIs
      <3>2. cli.at = "main"
        BY <1>1, NewClientIs
      <3>3. cli.path = ""
        BY <1>1, NewClientIs
      <3>4. cli.last = Unseen
        BY <1>1, NewClientIs
      <3> QED
        BY <3>1, <3>2, <3>3, <3>4
    <2>4. ~cli.task /\ ~cli.done
      BY <1>1, NewClientIs
    <2>2. pkg.at = "none" /\ matches = {}
      BY DEF Init
    <2>3. cli.last.state # "Succeed" /\ ~isTaskDone(cli.last.subState)
      <3>1. cli.last.state = Unseen.state /\ cli.last.subState = Unseen.subState
        BY <2>1
      <3> QED
        BY <3>1 DEF Unseen, isTaskDone
    <2> QED
      BY <2>1, <2>2, <2>3, <2>4 DEF ClientInv, Early
  <1>6. InboxInv
    BY <1>8 DEF InboxInv
  <1>7. EndInv
    BY <1>1, NewClientIs DEF EndInv, ExitCodeTells, NoTaskAbandoned, DiesOnlyWhenRaced
  <1> QED
    BY <1>3, <1>4, <1>5, <1>6, <1>7 DEF IInv

-----------------------------------------------------------------------------
(* The client ends                                                         *)

(* What cancelCurrentTask does to the daemon. *)
LEMMA CancelCurrentIs ==
    ASSUME DaemonInv, NEW c \in ClientRecord
    PROVE  /\ cancelCurrentTask(c) = pkg \/ cancelCurrentTask(c) = [pkg EXCEPT !.task = Cancel(@)]
           /\ c.task /\ ~isTaskDone(c.last.subState) /\ pkg.up /\ pkg.at \notin {"none", "gone"}
                => cancelCurrentTask(c).task.cancelled
           /\ ~c.task \/ pkg.at = "none" => cancelCurrentTask(c) = pkg
  BY CancelIs DEF cancelCurrentTask, DaemonInv

(* A cancelled task keeps what it had. *)
LEMMA TaskCancelled ==
    ASSUME DaemonInv, pkg' = [pkg EXCEPT !.task = Cancel(@)], seen' \in SeenRecord
    PROVE  /\ DaemonInv'
           /\ pkg'.at = pkg.at /\ pkg'.jobs = pkg.jobs /\ pkg'.finished = pkg.finished /\ pkg'.up = pkg.up
           /\ pkg'.task = Cancel(pkg.task)
           /\ pkg'.task.parts = pkg.task.parts /\ pkg'.task.refs = pkg.task.refs /\ pkg'.task.cancelled
           /\ isTaskDone(pkg.task.subState) => isTaskDone(pkg'.task.subState)
  <1>1. /\ pkg.task \in TaskRecord /\ pkg'.task = Cancel(pkg.task) /\ pkg'.at = pkg.at /\ pkg'.jobs = pkg.jobs
        /\ pkg'.finished = pkg.finished /\ pkg'.up = pkg.up
    BY DEF DaemonInv
  <1>2. Cancel(pkg.task) \in TaskRecord
    BY <1>1, CancelIs
  <1>3. pkg' \in [task : TaskRecord, at : {"none", "queued", "asking", "answered", "working", "over", "gone"},
                  reply : {"none", "yes", "no"}, jobs : SUBSET {"probe", "mine"}, up : BOOLEAN, finished : SUBSET {"probe", "mine"}]
    BY <1>2 DEF DaemonInv
  <1>4. pkg.task.parts = 1 => pkg.task.parts = Len(pkg.task.refs)
    BY DEF DaemonInv, TaskTells
  <1>5. TaskTells(pkg')
    BY <1>1, <1>4, CancelIs DEF DaemonInv, TaskTells
  <1> QED
    BY <1>1, <1>3, <1>5, CancelIs DEF DaemonInv, TaskTells

(* The command returns with what it says of its task; a task it still has  *)
(* and has not seen done is cancelled.                                     *)
LEMMA ReturnIInv ==
    ASSUME IInv, NEW c \in ClientRecord, NEW code \in {0, -1}, ReturnAs(c, code),
           cli.at \notin {"ended", "crashed"},
           c.cmd = cli.cmd, c.done = cli.done, c.last = cli.last,
           c.task => c.path = "mine" /\ ~c.done,
           c.path = "mine" /\ c.cmd \in TaskCommands => c.task \/ c.done,
           cli.at \in Early => c.path = "" /\ ~c.task,
           c.cmd \in TaskCommands /\ code = 0 => c.last.state = "Succeed",
           c.cmd \in TaskCommands /\ c.done /\ c.last.state = "Succeed" => code = 0,
           c.cmd = "search" /\ code = 0 => c.done /\ cli.code = 0
    PROVE  IInv'
  <1>1. /\ cli' \in ClientRecord /\ cli'.at = "ended" /\ cli'.code = code /\ ~cli'.task /\ cli'.cmd = cli.cmd
        /\ cli'.done = cli.done /\ cli'.last = cli.last /\ cli'.path = c.path
    BY DEF ReturnAs, ClientRecord
  <1>2. pkg' = pkg \/ pkg' = [pkg EXCEPT !.task = Cancel(@)]
    BY CancelCurrentIs DEF IInv, ReturnAs
  <1>3. matches' = matches /\ inbox' = <<>> /\ seen' = seen
    BY DEF ReturnAs
  <1>4. /\ DaemonInv'
        /\ pkg'.at = pkg.at /\ pkg'.jobs = pkg.jobs /\ pkg'.finished = pkg.finished /\ pkg'.up = pkg.up
        /\ pkg'.task.parts = pkg.task.parts /\ pkg'.task.refs = pkg.task.refs
        /\ isTaskDone(pkg.task.subState) => isTaskDone(pkg'.task.subState)
    <2>1. CASE pkg' = pkg
      BY <1>3, <2>1 DEF IInv, DaemonInv
    <2>2. CASE pkg' = [pkg EXCEPT !.task = Cancel(@)]
      BY <1>3, <2>2, TaskCancelled DEF IInv, DaemonInv
    <2> QED
      BY <1>2, <2>1, <2>2
  <1>5. Onward
    BY <1>1, <1>3, <1>4 DEF Onward, Ended
  <1>6. cli.done => pkg' = pkg
    BY CancelCurrentIs DEF IInv, ReturnAs, TaskTells
  <1>7. CommandInv'
    BY <1>1, <1>3, <1>4 DEF IInv, CommandInv
  <1>8. ClientInv'
    BY <1>1, <1>3, <1>4, <1>6 DEF IInv, ClientInv, Early
  <1>9. InboxInv'
    BY <1>3, InboxEmptied
  <1>10. ExitCodeTells'
    <2>1. cli.done /\ cli.cmd \in TaskCommands => pkg' = pkg /\ (seen.cancelled \/ cli.last.state = pkg.task.state)
      BY <1>6 DEF IInv, ClientInv
    <2>2. cli'.cmd = "search" /\ code = 0 => "mine" \in pkg'.finished
      BY <1>1, <1>4 DEF IInv, ClientInv
    <2>3. cli'.cmd \in TaskCommands /\ code = 0 => pkg'.task.parts = Len(pkg'.task.refs)
      BY <1>1, <1>4 DEF IInv, ClientInv
    <2> QED
      BY <1>1, <1>3, <2>1, <2>2, <2>3 DEF ExitCodeTells
  <1>11. NoTaskAbandoned'
    <2> SUFFICES ASSUME cli'.path = "mine", pkg'.up, pkg'.at \in {"queued", "asking", "answered", "working"}
                 PROVE  pkg'.task.cancelled \/ isTaskDone(pkg'.task.subState)
      BY DEF NoTaskAbandoned
    <2>1. cli.cmd \in TaskCommands /\ ~cli.done
      BY <1>4 DEF IInv, CommandInv, ClientInv
    <2>2. c.task
      BY <1>1, <2>1
    <2>3. CASE isTaskDone(c.last.subState)
      BY <1>4, <2>3 DEF IInv, ClientInv
    <2>4. CASE ~isTaskDone(c.last.subState)
      BY <1>4, <2>2, <2>4, CancelCurrentIs DEF IInv, ReturnAs
    <2> QED
      BY <2>3, <2>4
  <1>12. DiesOnlyWhenRaced'
    BY <1>1 DEF DiesOnlyWhenRaced
  <1> QED
    BY <1>4, <1>7, <1>8, <1>9, <1>10, <1>11, <1>12 DEF IInv, EndInv

(* The client dies where it stands, or gets a signal. *)
LEMMA DeathIInv ==
    ASSUME IInv, handler \/ Kill
    PROVE  IInv'
  <1>1. /\ cli.at \notin {"ended", "crashed"} /\ matches' = matches /\ inbox' \in {inbox, <<>>} /\ pkg' = pkg
        /\ cli' \in ClientRecord /\ cli'.at \in {cli.at, "crashed"}
        /\ cli'.cmd = cli.cmd /\ cli'.path = cli.path /\ cli'.task = cli.task /\ cli'.asked = cli.asked
        /\ cli'.last = cli.last /\ cli'.done = cli.done /\ cli'.code = cli.code /\ cli'.notifier = cli.notifier
        /\ cli'.at = "crashed" => seen'.killed \/ (cli'.quit /\ cli'.notifier = "dbus")
        /\ seen' \in SeenRecord
        /\ seen'.cancelled = seen.cancelled /\ seen'.failedPrune = seen.failedPrune
    <2>1. cli \in ClientRecord /\ seen \in SeenRecord
      BY DEF IInv, ClientInv, DaemonInv
    <2>2. CASE handler
      BY <2>1, <2>2 DEF handler, ClientRecord, SeenRecord
    <2>3. CASE Kill
      BY <2>1, <2>3 DEF Kill, ClientRecord, SeenRecord
    <2> QED
      BY <2>2, <2>3
  <1>2. Onward
    BY <1>1 DEF Onward, Ended
  <1>3. DaemonInv' /\ CommandInv' /\ ClientInv'
    <2>1. DaemonInv' /\ CommandInv'
      BY <1>1 DEF IInv, DaemonInv, CommandInv, TaskTells
    <2>2. ClientInv'
      BY <1>1 DEF IInv, ClientInv, Early
    <2> QED
      BY <2>1, <2>2
  <1>4. InboxInv'
    BY <1>1, <1>2, InboxLeft, InboxEmptied DEF IInv
  <1>5. EndInv'
    BY <1>1 DEF IInv, EndInv, ExitCodeTells, NoTaskAbandoned, DiesOnlyWhenRaced
  <1> QED
    BY <1>3, <1>4, <1>5 DEF IInv

-----------------------------------------------------------------------------
(* The daemon goes on                                                      *)

(* The daemon, whatever the client does: its task goes through its places  *)
(* in order, and what it has become it stays.                              *)
Forward ==
    /\ pkg.at = "none" <=> pkg'.at = "none"
    /\ pkg.at = "none" => pkg'.task = pkg.task
    /\ pkg'.at \in {"queued", "asking", "answered", "working"} => pkg.at \in {"queued", "asking", "answered", "working"}
    /\ pkg.at \in {"over", "gone"} => seen'.cancelled \/ pkg'.task.state = pkg.task.state
    /\ pkg.task.parts = Len(pkg.task.refs) => pkg'.task.parts = Len(pkg'.task.refs)
    /\ isTaskDone(pkg.task.subState) => isTaskDone(pkg'.task.subState)
    /\ pkg.task.cancelled => pkg'.task.cancelled
    /\ pkg'.up => pkg.up
    /\ pkg'.jobs \subseteq pkg.jobs /\ pkg.finished \subseteq pkg'.finished
    /\ seen.cancelled => seen'.cancelled
    /\ seen.failedPrune => seen'.failedPrune
    /\ seen.killed => seen'.killed

(* A step of the daemon that leaves the client alone but for the signals   *)
(* it sends: they say what is true, and nothing follows the end.           *)
LEMMA DaemonIInv ==
    ASSUME IInv, DaemonInv', Forward, cli' = cli, matches' = matches,
           NEW x \in Seq(Signals), inbox' = inbox \o x,
           \A k \in DOMAIN x : Truthful(x[k])',
           \A k \in DOMAIN x : x[k].kind = "PropertiesChanged" =>
              seen'.cancelled \/ (pkg.at \notin {"over", "gone"} /\ \A m \in DOMAIN x : m < k => ~EndOfMine(x[m]))
    PROVE  IInv'
  <1>1. pkg.at \in {"none", "queued", "asking", "answered", "working", "over", "gone"} /\ pkg'.at \in {"none", "queued", "asking", "answered", "working", "over", "gone"}
    BY DEF IInv, DaemonInv
  <1>2. pkg.at \in {"over", "gone"} => pkg'.at \in {"over", "gone"}
    BY <1>1 DEF Forward
  <1>3. Onward
    BY <1>2 DEF Onward, Forward, Ended
  <1>4. InboxInv'
    BY <1>3, InboxAdded DEF IInv
  <1>5. CommandInv'
    BY DEF IInv, CommandInv, Forward
  <1>6. ClientInv'
    <2>1. cli.done /\ cli.cmd \in TaskCommands => /\ pkg'.at \in {"over", "gone"}
                                                  /\ seen'.cancelled \/ cli.last.state = pkg'.task.state
      BY <1>2 DEF IInv, ClientInv, Forward
    <2>2. cli.last.state = "Succeed" => pkg'.task.parts = Len(pkg'.task.refs)
      BY DEF IInv, ClientInv, Forward
    <2>3. isTaskDone(cli.last.subState) => isTaskDone(pkg'.task.subState)
      BY DEF IInv, ClientInv, Forward
    <2>4. cli.at \in Early => pkg'.at = "none"
      BY DEF IInv, ClientInv, Forward
    <2>5. cli.cmd = "search" /\ cli.done /\ cli.code = 0 => "mine" \in pkg'.finished
      BY DEF IInv, ClientInv, Forward
    <2> QED
      BY <2>1, <2>2, <2>3, <2>4, <2>5 DEF IInv, ClientInv
  <1>7. ExitCodeTells'
    <2> SUFFICES ASSUME cli.at = "ended" PROVE ExitCodeTells'
      BY DEF ExitCodeTells
    <2>1. cli.cmd \in TaskCommands /\ cli.code = 0 => pkg'.task.parts = Len(pkg'.task.refs)
      BY DEF IInv, EndInv, ExitCodeTells, Forward
    <2>2. ASSUME cli.cmd \in TaskCommands, cli.done, ~seen'.cancelled, pkg'.task.state = "Succeed" PROVE cli.code = 0
      <3>1. pkg.at \in {"over", "gone"} /\ ~seen.cancelled
        BY <2>2 DEF IInv, ClientInv, Forward
      <3>2. pkg.task.state = "Succeed"
        BY <2>2, <3>1 DEF Forward
      <3> QED
        BY <2>2, <3>1, <3>2 DEF IInv, EndInv, ExitCodeTells
    <2>3. cli.cmd = "search" /\ cli.code = 0 => "mine" \in pkg'.finished
      BY DEF IInv, EndInv, ExitCodeTells, Forward
    <2> QED
      BY <2>1, <2>2, <2>3 DEF ExitCodeTells
  <1>8. NoTaskAbandoned'
    BY DEF IInv, EndInv, NoTaskAbandoned, Forward
  <1>9. DiesOnlyWhenRaced'
    BY DEF IInv, EndInv, DiesOnlyWhenRaced, Forward
  <1> QED
    BY <1>4, <1>5, <1>6, <1>7, <1>8, <1>9 DEF IInv, EndInv

(* What is sent of a signal is nothing, or the signal if it is listened    *)
(* for.                                                                    *)
LEMMA ForwardedIs ==
    ASSUME NEW s \in Signals
    PROVE  /\ Forwarded(s) \in Seq(Signals)
           /\ \A k \in DOMAIN Forwarded(s) : k = 1 /\ Forwarded(s)[k] = s /\ s.kind \in matches
  BY DEF Forwarded

(* A step that sends one signal. *)
LEMMA EmitIInv ==
    ASSUME IInv, DaemonInv', Forward, cli' = cli, matches' = matches,
           NEW s \in Signals, Emit(s), s.kind \in matches => Truthful(s)',
           s.kind = "PropertiesChanged" => seen'.cancelled \/ pkg.at \notin {"over", "gone"}
    PROVE  IInv'
  <1>1. PICK x \in Seq(Signals) : /\ inbox' = inbox \o x
                                  /\ \A k \in DOMAIN x : k = 1 /\ x[k] = s /\ s.kind \in matches
    BY ForwardedIs DEF Emit
  <1>3. \A k \in DOMAIN x : Truthful(x[k])'
    BY <1>1 DEF Truthful
  <1>4. \A k \in DOMAIN x : \A m \in DOMAIN x : m < k => ~EndOfMine(x[m])
    BY <1>1
  <1>5. \A k \in DOMAIN x : x[k].kind = "PropertiesChanged" =>
              seen'.cancelled \/ (pkg.at \notin {"over", "gone"} /\ \A m \in DOMAIN x : m < k => ~EndOfMine(x[m]))
    BY <1>1, <1>4
  <1> QED
    BY <1>1, <1>3, <1>5, DaemonIInv

(* A step that sends nothing. *)
LEMMA SilentIInv ==
    ASSUME IInv, DaemonInv', Forward, UNCHANGED <<cli, matches, inbox>>
    PROVE  IInv'
  <1>1. <<>> \in Seq(Signals) /\ DOMAIN <<>> = {} /\ inbox' = inbox \o <<>>
    BY DEF IInv, InboxInv
  <1> QED
    BY <1>1, DaemonIInv

-----------------------------------------------------------------------------
(* The daemon's actions                                                    *)

(* A signal about the client's task is one. *)
LEMMA SignalIs ==
    ASSUME NEW t \in TaskRecord, NEW k \in Kinds, NEW o \in {"mine", "other"}
    PROVE  /\ Signal(k, o, t) \in Signals
           /\ Signal(k, o, t).kind = k /\ Signal(k, o, t).of = o
           /\ Signal(k, o, t).state = t.state /\ Signal(k, o, t).subState = t.subState
  BY DEF Signal, Signals, TaskRecord, Kinds

(* The job is started, and asks or works. *)
LEMMA JobStartsIInv ==
    ASSUME IInv, JobStarts
    PROVE  IInv'
  <1>1. /\ pkg.at = "queued" /\ pkg.task \in TaskRecord /\ pkg.task.state = "Queued" /\ pkg.task.parts = 0 /\ seen' = seen
        /\ cli' = cli /\ matches' = matches /\ pkg.up
    BY DEF IInv, DaemonInv, JobStarts, TaskRecord, TaskTells
  <1>2. ASSUME NEW t \in TaskRecord, NEW a \in {"asking", "working"}, NEW k \in {"PropertiesChanged", "RequestInteraction"},
               pkg' = [pkg EXCEPT !.at = a, !.task = t],
               Emit(Signal(k, "mine", t)),
               t.parts = 0, t.refs = pkg.task.refs, t.cancelled = pkg.task.cancelled, t.subState = pkg.task.subState,
               t.state # "Succeed"
        PROVE  IInv'
    <2>1. /\ pkg'.at = a /\ pkg'.task = t /\ pkg'.up = pkg.up /\ pkg'.jobs = pkg.jobs /\ pkg'.finished = pkg.finished
      BY <1>2 DEF IInv, DaemonInv
    <2>2. pkg' \in [task : TaskRecord, at : {"none", "queued", "asking", "answered", "working", "over", "gone"},
                    reply : {"none", "yes", "no"}, jobs : SUBSET {"probe", "mine"}, up : BOOLEAN, finished : SUBSET {"probe", "mine"}]
      BY <1>2 DEF IInv, DaemonInv
    <2>3. DaemonInv'
      BY <1>1, <1>2, <2>1, <2>2 DEF IInv, DaemonInv, TaskTells
    <2>4. Forward
      BY <1>1, <1>2, <2>1 DEF Forward
    <2> DEFINE s == Signal(k, "mine", t)
    <2>5. /\ s \in Signals /\ s.kind = k /\ s.of = "mine" /\ s.state = t.state /\ s.subState = t.subState
      BY <1>2, SignalIs DEF Kinds
    <2>6. Emit(s)
      BY <1>2
    <2> HIDE DEF s
    <2>7. PICK z : z = s
      OBVIOUS
    <2>8. z.kind \in matches => Truthful(z)'
      BY <1>1, <1>2, <2>1, <2>5, <2>7 DEF Truthful
    <2> QED
      BY <1>1, <2>3, <2>4, <2>5, <2>6, <2>7, <2>8, EmitIInv
  <1>3. CASE pkg' = [pkg EXCEPT !.at = "asking"] /\ Emit(Signal("RequestInteraction", "mine", pkg.task))
    <2>1. pkg' = [pkg EXCEPT !.at = "asking", !.task = pkg.task]
      BY <1>3 DEF IInv, DaemonInv
    <2> QED
      BY <1>1, <1>2, <1>3, <2>1
  <1>4. CASE /\ pkg' = [pkg EXCEPT !.at = "working",
                                   !.task = IF @.refs = <<>> THEN @ ELSE updateState(@, "Processing")]
             /\ Emit(Signal("PropertiesChanged", "mine", pkg'.task))
    <2> DEFINE t == IF pkg.task.refs = <<>> THEN pkg.task ELSE updateState(pkg.task, "Processing")
    <2>1. pkg' = [pkg EXCEPT !.at = "working", !.task = t] /\ pkg'.task = t
      BY <1>4 DEF IInv, DaemonInv
    <2>2. "Processing" \in States \ {"PartCompleted"} /\ (pkg.task.refs # <<>> => Len(pkg.task.refs) = 1)
      BY <1>1 DEF States, TaskRecord
    <2>3. /\ t \in TaskRecord /\ t.parts = 0 /\ t.refs = pkg.task.refs /\ t.cancelled = pkg.task.cancelled
          /\ t.subState = pkg.task.subState /\ t.state # "Succeed"
      BY <1>1, <2>2, UpdateIs
    <2>4. Emit(Signal("PropertiesChanged", "mine", t))
      BY <1>4, <2>1
    <2> HIDE DEF t
    <2> QED
      BY <1>1, <1>2, <2>1, <2>3, <2>4
  <1> QED
    BY <1>3, <1>4 DEF JobStarts

(* The task is told to wait, which an empty one takes for its success. *)
LEMMA TaskWaitsIInv ==
    ASSUME IInv, TaskWaits
    PROVE  IInv'
  <1>1. /\ pkg.at = "queued" /\ pkg.task \in TaskRecord /\ pkg.task.parts = 0
        /\ cli' = cli /\ matches' = matches /\ pkg.up
        /\ pkg' = [pkg EXCEPT !.task = updateState(@, "Queued")]
        /\ Emit(Signal("PropertiesChanged", "mine", pkg'.task))
    BY DEF IInv, DaemonInv, TaskWaits, TaskRecord, TaskTells
  <1>2. /\ seen' \in SeenRecord /\ seen'.cancelled = seen.cancelled /\ seen'.failedPrune = seen.failedPrune
        /\ seen'.killed = seen.killed
    BY DEF IInv, DaemonInv, TaskWaits, SeenRecord
  <1> DEFINE t == updateState(pkg.task, "Queued")
  <1>3. /\ pkg'.at = pkg.at /\ pkg'.task = t /\ pkg'.up = pkg.up /\ pkg'.jobs = pkg.jobs /\ pkg'.finished = pkg.finished
    BY <1>1 DEF IInv, DaemonInv
  <1>4. /\ t \in TaskRecord /\ t.parts = 0 /\ t.refs = pkg.task.refs /\ t.cancelled = pkg.task.cancelled
        /\ isTaskDone(pkg.task.subState) => isTaskDone(t.subState)
        /\ t.state = "Succeed" => t.parts = Len(t.refs)
    <2>1. "Queued" \in States \ {"PartCompleted"}
      BY DEF States
    <2> QED
      BY <1>1, <2>1, UpdateIs DEF isTaskDone
  <1>5. pkg' \in [task : TaskRecord, at : {"none", "queued", "asking", "answered", "working", "over", "gone"},
                  reply : {"none", "yes", "no"}, jobs : SUBSET {"probe", "mine"}, up : BOOLEAN, finished : SUBSET {"probe", "mine"}]
    BY <1>1, <1>4 DEF IInv, DaemonInv
  <1> HIDE DEF t
  <1>5a. TaskTells(pkg')
    BY <1>1, <1>3, <1>4 DEF TaskTells
  <1>6. DaemonInv'
    BY <1>2, <1>5, <1>5a DEF DaemonInv
  <1>7. Forward
    BY <1>1, <1>2, <1>3, <1>4 DEF Forward
  <1>8. PICK s : s = Signal("PropertiesChanged", "mine", t)
    OBVIOUS
  <1>9. /\ s \in Signals /\ s.kind = "PropertiesChanged" /\ s.of = "mine" /\ s.state = t.state /\ s.subState = t.subState
    BY <1>4, <1>8, SignalIs DEF Kinds
  <1>10. Emit(s)
    BY <1>1, <1>3, <1>8
  <1>11. s.kind \in matches => Truthful(s)'
    BY <1>1, <1>3, <1>4, <1>9 DEF Truthful
  <1> QED
    BY <1>1, <1>6, <1>7, <1>9, <1>10, <1>11, EmitIInv

(* Somebody else cancels the task, also when its end is announced. *)
LEMMA CancelledByOtherIInv ==
    ASSUME IInv, CancelledByOther
    PROVE  IInv'
  <1>1. /\ pkg.at \in {"queued", "asking", "answered", "working", "over"} /\ cli' = cli /\ matches' = matches /\ pkg.up
        /\ pkg' = [pkg EXCEPT !.task = Cancel(@)]
        /\ Emit(Signal("PropertiesChanged", "mine", pkg'.task))
    BY DEF CancelledByOther
  <1>2. /\ seen' \in SeenRecord /\ seen'.cancelled /\ seen'.failedPrune = seen.failedPrune
        /\ seen'.killed = seen.killed
    BY DEF IInv, DaemonInv, CancelledByOther, SeenRecord
  <1>3. /\ DaemonInv'
        /\ pkg'.at = pkg.at /\ pkg'.jobs = pkg.jobs /\ pkg'.finished = pkg.finished /\ pkg'.up = pkg.up
        /\ pkg'.task.parts = pkg.task.parts /\ pkg'.task.refs = pkg.task.refs /\ pkg'.task.cancelled
        /\ isTaskDone(pkg.task.subState) => isTaskDone(pkg'.task.subState)
    BY <1>1, <1>2, TaskCancelled DEF IInv
  <1>4. Forward
    BY <1>1, <1>2, <1>3 DEF Forward
  <1>5. PICK s : s = Signal("PropertiesChanged", "mine", pkg'.task)
    OBVIOUS
  <1>6. /\ s \in Signals /\ s.kind = "PropertiesChanged" /\ s.of = "mine" /\ s.state = pkg'.task.state
        /\ s.subState = pkg'.task.subState
    BY <1>3, <1>5, SignalIs DEF Kinds, DaemonInv
  <1>7. s.kind \in matches => Truthful(s)'
    BY <1>1, <1>2, <1>3, <1>6 DEF Truthful, DaemonInv, TaskTells
  <1> QED
    BY <1>1, <1>2, <1>3, <1>4, <1>5, <1>6, <1>7, EmitIInv

(* The task is deleted, or the daemon stops. *)
LEMMA TaskDeletedIInv ==
    ASSUME IInv, TaskDeleted \/ Stop
    PROVE  IInv'
  <1>1. /\ UNCHANGED <<cli, matches, inbox>> /\ seen' = seen
        /\ pkg' \in [task : TaskRecord, at : {"none", "queued", "asking", "answered", "working", "over", "gone"},
                     reply : {"none", "yes", "no"}, jobs : SUBSET {"probe", "mine"}, up : BOOLEAN, finished : SUBSET {"probe", "mine"}]
        /\ pkg'.task = pkg.task /\ pkg'.jobs = pkg.jobs /\ pkg'.finished = pkg.finished
        /\ pkg'.at = pkg.at \/ (pkg.at = "over" /\ pkg'.at = "gone")
        /\ pkg'.up => pkg.up
    BY DEF IInv, DaemonInv, TaskDeleted, Stop
  <1>2. DaemonInv'
    BY <1>1 DEF IInv, DaemonInv, TaskTells
  <1>3. Forward
    BY <1>1 DEF Forward
  <1> QED
    BY <1>1, <1>2, <1>3, SilentIInv

(* The job's result is heard before its end. *)
LEMMA JobReturnsIInv ==
    ASSUME IInv, JobReturns
    PROVE  IInv'
  <1>1. /\ pkg.at = "working" /\ pkg.task \in TaskRecord /\ pkg.task.parts = 0 /\ seen' = seen
        /\ cli' = cli /\ matches' = matches /\ pkg.up
        /\ pkg.task.refs # <<>> => Len(pkg.task.refs) = 1
    BY DEF IInv, DaemonInv, JobReturns, TaskRecord, TaskTells
  <1>2. PICK end \in Results(pkg.task) :
          /\ pkg' = [pkg EXCEPT !.at = "over", !.task = end]
          /\ inbox' = inbox \o (IF end = pkg.task THEN <<>> ELSE Forwarded(Signal("PropertiesChanged", "mine", end)))
                           \o Forwarded(Signal("TaskRemoved", "mine", end))
    BY DEF JobReturns
  <1>3. /\ end \in TaskRecord /\ end.refs = pkg.task.refs /\ end.cancelled = pkg.task.cancelled
        /\ isTaskDone(pkg.task.subState) => isTaskDone(end.subState)
        /\ end.parts = 1 => end.refs = <<"mine">> /\ end.state = "Succeed" /\ isTaskDone(end.subState)
        /\ end.state = "Succeed" => end.parts = Len(end.refs)
        /\ pkg.task.parts = Len(pkg.task.refs) => end.parts = Len(end.refs)
    <2>1. CASE end = pkg.task
      BY <1>1, <2>1 DEF IInv, DaemonInv, TaskTells
    <2>2. CASE end # pkg.task
      <3>1. end \in {updateState(pkg.task, "PartCompleted"), reportError(pkg.task)} /\ pkg.task.refs # <<>>
            /\ ~isTaskDone(pkg.task.subState)
        BY <1>2, <2>2 DEF Results
      <3>2. CASE end = updateState(pkg.task, "PartCompleted")
        <4>1. /\ end \in TaskRecord /\ end.parts = 1 /\ end.refs = <<"mine">> /\ end.cancelled = pkg.task.cancelled
              /\ end.state = "Succeed" /\ end.subState = "AllDone" /\ pkg.task.refs = <<"mine">>
          BY <1>1, <3>1, <3>2, PartIs DEF TaskRecord
        <4> QED
          BY <1>1, <3>1, <4>1 DEF isTaskDone
      <3>3. CASE end = reportError(pkg.task)
        <4>1. /\ end \in TaskRecord /\ end.parts = 0 /\ end.refs = pkg.task.refs /\ end.cancelled = pkg.task.cancelled
              /\ end.state = "Failed"
          BY <1>1, <3>3, ErrorIs
        <4> QED
          BY <1>1, <3>1, <4>1
      <3> QED
        BY <3>1, <3>2, <3>3
    <2> QED
      BY <2>1, <2>2
  <1>4. /\ pkg'.at = "over" /\ pkg'.task = end /\ pkg'.up = pkg.up /\ pkg'.jobs = pkg.jobs /\ pkg'.finished = pkg.finished
    BY <1>2 DEF IInv, DaemonInv
  <1>5. pkg' \in [task : TaskRecord, at : {"none", "queued", "asking", "answered", "working", "over", "gone"},
                  reply : {"none", "yes", "no"}, jobs : SUBSET {"probe", "mine"}, up : BOOLEAN, finished : SUBSET {"probe", "mine"}]
    BY <1>2, <1>3 DEF IInv, DaemonInv
  <1>6. DaemonInv'
    BY <1>1, <1>3, <1>4, <1>5 DEF IInv, DaemonInv, TaskTells
  <1>7. Forward
    BY <1>1, <1>3, <1>4 DEF Forward
  <1>8. PICK s1, s2 : s1 = Signal("PropertiesChanged", "mine", end) /\ s2 = Signal("TaskRemoved", "mine", end)
    OBVIOUS
  <1>9. /\ s1 \in Signals /\ s1.kind = "PropertiesChanged" /\ s1.of = "mine" /\ s1.state = end.state /\ s1.subState = end.subState
        /\ s2 \in Signals /\ s2.kind = "TaskRemoved" /\ s2.of = "mine" /\ s2.state = end.state /\ s2.subState = end.subState
    BY <1>3, <1>8, SignalIs DEF Kinds
  <1>10. s1.kind \in matches => Truthful(s1)'
    BY <1>1, <1>3, <1>4, <1>9 DEF Truthful
  <1>11. s2.kind \in matches => Truthful(s2)'
    BY <1>1, <1>3, <1>4, <1>9 DEF Truthful
  <1>12. PICK x \in Seq(Signals) :
           /\ inbox' = inbox \o x
           /\ \A k \in DOMAIN x : \/ x[k] = s1 /\ s1.kind \in matches /\ k = 1
                                  \/ x[k] = s2 /\ s2.kind \in matches
    <2> DEFINE f1 == IF end = pkg.task THEN <<>> ELSE Forwarded(s1)
               f2 == Forwarded(s2)
    <2>1. /\ f1 \in Seq(Signals) /\ \A k \in DOMAIN f1 : k = 1 /\ f1[k] = s1 /\ s1.kind \in matches
      BY <1>9, ForwardedIs
    <2>2. /\ f2 \in Seq(Signals) /\ \A k \in DOMAIN f2 : k = 1 /\ f2[k] = s2 /\ s2.kind \in matches
      BY <1>9, ForwardedIs
    <2>3. inbox' = (inbox \o f1) \o f2 /\ inbox \in Seq(Signals)
      BY <1>2, <1>8 DEF IInv, InboxInv
    <2> HIDE DEF f1, f2
    <2>4. inbox' = inbox \o (f1 \o f2) /\ f1 \o f2 \in Seq(Signals)
      <3>1. f1 \in Seq(Signals) /\ f2 \in Seq(Signals) /\ inbox \in Seq(Signals)
        BY <2>1, <2>2, <2>3
      <3>2. (inbox \o f1) \o f2 = inbox \o (f1 \o f2)
        BY <3>1, ConcatAssociative, SMTT(30)
      <3>3. f1 \o f2 \in Seq(Signals)
        BY <3>1
      <3> QED
        BY <2>3, <3>2, <3>3
    <2>5. ASSUME NEW k \in DOMAIN (f1 \o f2)
          PROVE  \/ (f1 \o f2)[k] = s1 /\ s1.kind \in matches /\ k = 1
                 \/ (f1 \o f2)[k] = s2 /\ s2.kind \in matches
      <3>1. \/ k \in DOMAIN f1 /\ (f1 \o f2)[k] = f1[k]
            \/ k - Len(f1) \in DOMAIN f2 /\ (f1 \o f2)[k] = f2[k - Len(f1)]
        BY <2>1, <2>2, <2>5
      <3> QED
        BY <2>1, <2>2, <3>1
    <2> QED
      BY <2>4, <2>5
  <1>13. \A k \in DOMAIN x : Truthful(x[k])'
    BY <1>10, <1>11, <1>12 DEF Truthful
  <1>14. ASSUME NEW k \in DOMAIN x, x[k].kind = "PropertiesChanged"
         PROVE  pkg.at \notin {"over", "gone"} /\ \A m \in DOMAIN x : m < k => ~EndOfMine(x[m])
    <2>1. k = 1
      BY <1>9, <1>12, <1>14
    <2>2. \A m \in DOMAIN x : ~(m < 1)
      BY <1>12
    <2> QED
      BY <1>1, <2>1, <2>2
  <1> QED
    BY <1>1, <1>6, <1>7, <1>12, <1>13, <1>14, DaemonIInv

(* A Search or Prune job ends and says how. *)
LEMMA JobFinishedIInv ==
    ASSUME IInv, JobFinished
    PROVE  IInv'
  <1>0. PICK j \in pkg.jobs, ok \in BOOLEAN :
          LET kind == IF j = "probe" \/ cli.cmd = "prune" THEN "PruneFinished" ELSE "SearchFinished"
              sig  == [kind |-> kind, of |-> IF j = "mine" THEN "mine" ELSE "other",
                       state |-> IF ok THEN "Succeed" ELSE "Failed", subState |-> "AllDone"]
          IN  /\ pkg' = [pkg EXCEPT !.jobs = @ \ {j}, !.finished = @ \cup (IF ok THEN {j} \ {"probe"} ELSE {})]
              /\ Emit(sig)
              /\ seen' = [seen EXCEPT !.lost = @ \/ (j = "mine" /\ kind \notin matches),
                                      !.failedPrune = @ \/ (j = "mine" /\ kind = "PruneFinished" /\ ~ok)]
    BY Zenon DEF JobFinished
  <1>1. PICK kind, sig :
          /\ kind = IF j = "probe" \/ cli.cmd = "prune" THEN "PruneFinished" ELSE "SearchFinished"
          /\ sig = [kind |-> kind, of |-> IF j = "mine" THEN "mine" ELSE "other",
                    state |-> IF ok THEN "Succeed" ELSE "Failed", subState |-> "AllDone"]
          /\ pkg' = [pkg EXCEPT !.jobs = @ \ {j}, !.finished = @ \cup (IF ok THEN {j} \ {"probe"} ELSE {})]
          /\ Emit(sig)
          /\ seen' = [seen EXCEPT !.lost = @ \/ (j = "mine" /\ kind \notin matches),
                                  !.failedPrune = @ \/ (j = "mine" /\ kind = "PruneFinished" /\ ~ok)]
    BY <1>0, Zenon
  <1>2. cli' = cli /\ matches' = matches /\ j \in {"probe", "mine"}
    BY DEF IInv, DaemonInv, JobFinished
  <1>3. /\ pkg'.at = pkg.at /\ pkg'.task = pkg.task /\ pkg'.up = pkg.up /\ pkg'.jobs = pkg.jobs \ {j}
        /\ pkg'.finished = pkg.finished \cup (IF ok THEN {j} \ {"probe"} ELSE {})
    BY <1>1 DEF IInv, DaemonInv
  <1>4. pkg' \in [task : TaskRecord, at : {"none", "queued", "asking", "answered", "working", "over", "gone"},
                  reply : {"none", "yes", "no"}, jobs : SUBSET {"probe", "mine"}, up : BOOLEAN, finished : SUBSET {"probe", "mine"}]
    BY <1>1, <1>2 DEF IInv, DaemonInv
  <1>5. seen' \in SeenRecord /\ seen'.cancelled = seen.cancelled /\ seen'.killed = seen.killed
    BY <1>1 DEF IInv, DaemonInv, SeenRecord
  <1>6. /\ seen.failedPrune => seen'.failedPrune
        /\ j = "mine" /\ kind = "PruneFinished" /\ ~ok => seen'.failedPrune
    <2>1. seen \in SeenRecord
      BY DEF IInv, DaemonInv
    <2>2. PICK lost \in BOOLEAN, failed \in BOOLEAN :
             /\ failed <=> seen.failedPrune \/ (j = "mine" /\ kind = "PruneFinished" /\ ~ok)
             /\ seen' = [seen EXCEPT !.lost = lost, !.failedPrune = failed]
      BY <1>1, Zenon
    <2>3. seen'.failedPrune = failed
      BY <2>1, <2>2 DEF SeenRecord
    <2> QED
      BY <2>2, <2>3
  <1>7. DaemonInv'
    BY <1>3, <1>4, <1>5 DEF IInv, DaemonInv, TaskTells
  <1>8. Forward
    BY <1>3, <1>5, <1>6 DEF Forward
  <1>9. /\ sig \in Signals /\ sig.kind = kind /\ sig.of \in {"mine", "other"} /\ (sig.of = "mine" => j = "mine")
        /\ sig.state = (IF ok THEN "Succeed" ELSE "Failed")
    BY <1>1, <1>2 DEF Signals, States, SubStates
  <1>10. sig.kind \in matches => Truthful(sig)'
    <2>1. sig.of = "mine" /\ sig.kind = "SearchFinished" => sig.state = "Failed" \/ "mine" \in pkg'.finished
      BY <1>3, <1>9
    <2>2. sig.of = "mine" /\ sig.kind = "PruneFinished" => sig.state # "Failed" \/ seen'.failedPrune
      BY <1>6, <1>9
    <2>3. sig.kind \in {"PruneFinished", "SearchFinished"}
      BY <1>1, <1>9
    <2> QED
      BY <1>2, <1>9, <2>1, <2>2, <2>3 DEF Truthful
  <1> QED
    BY <1>1, <1>2, <1>7, <1>8, <1>9, <1>10, EmitIInv

(* Signals about another client's task say nothing of this one. *)
LEMMA OtherTaskIInv ==
    ASSUME IInv, OtherTask
    PROVE  IInv'
  <1>1. PICK k \in {"TaskRemoved", "RequestInteraction"} : Emit(Signal(k, "other", TemporaryTask))
    BY DEF OtherTask
  <1>2. /\ cli' = cli /\ matches' = matches /\ pkg' = pkg /\ seen' \in SeenRecord
        /\ seen'.cancelled = seen.cancelled /\ seen'.killed = seen.killed /\ seen'.failedPrune = seen.failedPrune
    BY DEF IInv, DaemonInv, OtherTask, SeenRecord
  <1>3. DaemonInv' /\ Forward
    BY <1>2 DEF IInv, DaemonInv, TaskTells, Forward
  <1>4. TemporaryTask \in TaskRecord
    BY DEF TemporaryTask, NewTask, TaskRecord, States, SubStates
  <1>5. PICK s : s = Signal(k, "other", TemporaryTask)
    OBVIOUS
  <1>6. s \in Signals /\ s.kind = k /\ s.of = "other"
    BY <1>4, <1>5, SignalIs DEF Kinds
  <1>7. s.kind \in matches => Truthful(s)'
    BY <1>2, <1>6 DEF Truthful
  <1> QED
    BY <1>1, <1>2, <1>3, <1>5, <1>6, <1>7, EmitIInv

-----------------------------------------------------------------------------
(* The command, up to its event loop                                       *)

(* A client that goes on, whatever it does, has not ended. *)
LEMMA GoesOn ==
    ASSUME DaemonInv', CommandInv', ClientInv', InboxInv', cli'.at \notin {"ended", "crashed"}
    PROVE  IInv'
  BY DEF IInv, EndInv, ExitCodeTells, NoTaskAbandoned, DiesOnlyWhenRaced

(* An error before there is a task. *)
LEMMA GiveUpIInv ==
    ASSUME IInv, cli.at \in Early, Return(-1)
    PROVE  IInv'
  <1>1. PICK c : c = cli
    OBVIOUS
  <1>2. /\ c \in ClientRecord /\ c.path = "" /\ ~c.done /\ c.last = Unseen /\ cli.at \notin {"ended", "crashed"}
        /\ ~c.task
    BY <1>1 DEF IInv, ClientInv, Early
  <1>3. ReturnAs(c, -1) /\ -1 \in {0, -1} /\ -1 # 0
    BY <1>1 DEF Return
  <1>4. c.cmd = cli.cmd /\ c.done = cli.done /\ c.last = cli.last
    BY <1>1
  <1>5. ~(c.path = "mine")
    BY <1>2
  <1> QED
    BY <1>2, <1>3, <1>4, <1>5, ReturnIInv

(* main subscribes to TaskRemoved before anything is asked of the daemon. *)
LEMMA MainIInv ==
    ASSUME IInv, main
    PROVE  IInv'
  <1>1. cli.at \in Early
    BY DEF main, Early
  <1>2. CASE Return(-1)
    BY <1>1, <1>2, GiveUpIInv
  <1>3. CASE /\ cli' = [cli EXCEPT !.at = IF cli.cmd = "search" THEN "call" ELSE "auth"]
             /\ matches' = {"TaskRemoved"} /\ UNCHANGED <<inbox, pkg, seen>>
    <2>1. /\ cli' \in ClientRecord /\ cli'.at \in {"call", "auth"}
          /\ cli'.cmd = cli.cmd /\ cli'.path = cli.path /\ cli'.task = cli.task
          /\ cli'.last = cli.last /\ cli'.done = cli.done /\ cli'.code = cli.code
      BY <1>3 DEF IInv, ClientInv, ClientRecord
    <2>2. cli.at = "main" /\ matches = {}
      BY DEF IInv, ClientInv, main
    <2>3. Onward
      BY <1>3, <2>2 DEF Onward, Ended
    <2>4. DaemonInv'
      BY <1>3 DEF IInv, DaemonInv, TaskTells
    <2>5. CommandInv'
      BY <1>3, <2>1 DEF IInv, CommandInv, Kinds
    <2>6. ClientInv'
      BY <1>1, <1>3, <2>1 DEF IInv, ClientInv, Early
    <2>7. InboxInv'
      BY <1>3, <2>1, <2>3, InboxLeft DEF IInv
    <2> QED
      BY <2>1, <2>4, <2>5, <2>6, <2>7, GoesOn
  <1> QED
    BY <1>2, <1>3 DEF main

(* Not root, the client begins anew as another process; root, it has the   *)
(* daemon prune.                                                           *)
LEMMA AuthorizationIInv ==
    ASSUME IInv, authorization
    PROVE  IInv'
  <1>1. cli.at = "auth" /\ cli.at \in Early /\ cli \in ClientRecord
    BY DEF IInv, ClientInv, authorization, Early
  <1>2. CASE Return(-1)
    BY <1>1, <1>2, GiveUpIInv
  <1>3. CASE /\ cli' = NewClient(cli.cmd, TRUE, cli.notifier) /\ matches' = {} /\ inbox' = <<>>
             /\ UNCHANGED <<pkg, seen>>
    <2>1. cli.cmd \in Commands /\ TRUE \in BOOLEAN /\ cli.notifier \in Notifiers
      BY <1>1 DEF ClientRecord
    <2>2. /\ cli' \in ClientRecord /\ cli'.at = "main" /\ cli'.path = ""
          /\ cli'.last = Unseen /\ cli'.cmd = cli.cmd
      <3>1. cli' \in ClientRecord
        BY <1>3, <2>1, NewClientIs
      <3>2. cli'.at = "main" /\ cli'.path = "" /\ cli'.last = Unseen /\ cli'.cmd = cli.cmd
        BY <1>3 DEF NewClient
      <3> QED
        BY <3>1, <3>2
    <2>3. ~cli'.task /\ ~cli'.done
      BY <1>3 DEF NewClient
    <2>4. cli'.last.state # "Succeed" /\ ~isTaskDone(cli'.last.subState)
      <3>1. cli'.last.state = Unseen.state /\ cli'.last.subState = Unseen.subState
        BY <2>2
      <3> QED
        BY <3>1 DEF Unseen, isTaskDone
    <2>5. DaemonInv'
      BY <1>3 DEF IInv, DaemonInv, TaskTells
    <2>6. CommandInv'
      BY <1>3, <2>2 DEF IInv, CommandInv, Kinds
    <2>7. pkg.at = "none"
      BY <1>1 DEF IInv, ClientInv
    <2>8. ClientInv'
      BY <1>3, <2>2, <2>3, <2>4, <2>7 DEF ClientInv, Early
    <2>9. InboxInv'
      BY <1>3 DEF InboxInv
    <2> QED
      BY <2>2, <2>5, <2>6, <2>8, <2>9, GoesOn
  <1>4. CASE /\ cli' = [cli EXCEPT !.at = "call"]
             /\ pkg' = IF pkg.up THEN [pkg EXCEPT !.jobs = @ \cup {"probe"}] ELSE pkg
             /\ UNCHANGED <<matches, inbox, seen>>
    <2>1. /\ cli' \in ClientRecord /\ cli'.at = "call"
          /\ cli'.cmd = cli.cmd /\ cli'.path = cli.path /\ cli'.task = cli.task
          /\ cli'.last = cli.last /\ cli'.done = cli.done /\ cli'.code = cli.code
      BY <1>1, <1>4 DEF ClientRecord
    <2>2. /\ pkg' \in [task : TaskRecord, at : {"none", "queued", "asking", "answered", "working", "over", "gone"},
                       reply : {"none", "yes", "no"}, jobs : SUBSET {"probe", "mine"}, up : BOOLEAN, finished : SUBSET {"probe", "mine"}]
          /\ pkg'.task = pkg.task /\ pkg'.at = pkg.at /\ pkg'.finished = pkg.finished
          /\ "mine" \in pkg'.jobs => "mine" \in pkg.jobs
      BY <1>4 DEF IInv, DaemonInv
    <2>3. DaemonInv'
      BY <1>4, <2>2 DEF IInv, DaemonInv, TaskTells
    <2>4. CommandInv'
      BY <1>4, <2>1, <2>2 DEF IInv, CommandInv
    <2>5. ClientInv'
      BY <1>1, <1>4, <2>1, <2>2 DEF IInv, ClientInv, Early
    <2>6. Onward
      BY <1>1, <1>4, <2>2 DEF Onward, Ended
    <2>7. InboxInv'
      BY <1>4, <2>1, <2>6, InboxLeft DEF IInv
    <2> QED
      BY <2>1, <2>3, <2>4, <2>5, <2>7, GoesOn
  <1> QED
    BY <1>2, <1>3, <1>4 DEF authorization, runningAsRoot

(* A new task or a new job of the daemon, for a client that had none. *)
LEMMA NewIs ==
    ASSUME IInv, pkg.at = "none",
           \/ cli.cmd \in TaskCommands /\ \E refs \in {<<>>, <<"mine">>} : pkg' = NewTaskOf(refs)
           \/ cli.cmd \in {"search", "prune"} /\ pkg' = NewJob,
           seen' = seen
    PROVE  /\ DaemonInv'
           /\ pkg'.finished = pkg.finished
           /\ pkg'.at # "none" => cli.cmd \in TaskCommands
           /\ "mine" \in pkg'.jobs => cli.cmd \in {"search", "prune"}
  <1>1. CASE cli.cmd \in TaskCommands /\ \E refs \in {<<>>, <<"mine">>} : pkg' = NewTaskOf(refs)
    <2>1. PICK refs \in {<<>>, <<"mine">>} : pkg' = NewTaskOf(refs)
      BY <1>1
    <2>2. NewTask(refs) \in TaskRecord /\ NewTask(refs).parts = 0 /\ NewTask(refs).state = "Queued"
      BY DEF NewTask, TaskRecord, States, SubStates
    <2>3. pkg' = [pkg EXCEPT !.task = NewTask(refs), !.at = "queued"]
      BY <2>1 DEF NewTaskOf
    <2>4. /\ pkg' \in [task : TaskRecord, at : {"none", "queued", "asking", "answered", "working", "over", "gone"},
                       reply : {"none", "yes", "no"}, jobs : SUBSET {"probe", "mine"}, up : BOOLEAN, finished : SUBSET {"probe", "mine"}]
          /\ pkg'.task = NewTask(refs) /\ pkg'.jobs = pkg.jobs /\ pkg'.finished = pkg.finished
      <3>1. pkg \in [task : TaskRecord, at : {"none", "queued", "asking", "answered", "working", "over", "gone"},
                     reply : {"none", "yes", "no"}, jobs : SUBSET {"probe", "mine"}, up : BOOLEAN,
                     finished : SUBSET {"probe", "mine"}]
        BY DEF IInv, DaemonInv
      <3>2. PICK t : t = NewTask(refs)
        OBVIOUS
      <3> QED
        BY <2>2, <2>3, <3>1, <3>2
    <2>5. TaskTells(pkg')
      BY <2>2, <2>4 DEF TaskTells
    <2> QED
      BY <1>1, <2>4, <2>5 DEF IInv, DaemonInv, CommandInv
  <1>2. CASE cli.cmd \in {"search", "prune"} /\ pkg' = NewJob
    BY <1>2 DEF IInv, DaemonInv, CommandInv, NewJob, TaskTells
  <1> QED
    BY <1>1, <1>2

(* The daemon accepts the call. *)
LEMMA AcceptedIInv ==
    ASSUME IInv, cli.at = "call", cli' = [cli EXCEPT !.at = "connect"],
           NEW before \in SUBSET {"RequestInteraction", "PruneFinished"}, matches' = matches \cup before,
           "RequestInteraction" \in before => cli.cmd \in Asking,
           "PruneFinished" \in before => cli.cmd = "prune",
           \/ cli.cmd \in TaskCommands /\ \E refs \in {<<>>, <<"mine">>} : pkg' = NewTaskOf(refs)
           \/ cli.cmd \in {"search", "prune"} /\ pkg' = NewJob,
           UNCHANGED <<inbox, seen>>
    PROVE  IInv'
  <1>1. /\ cli' \in ClientRecord /\ cli'.at = "connect"
        /\ cli'.cmd = cli.cmd /\ cli'.path = cli.path /\ cli'.task = cli.task
        /\ cli'.last = cli.last /\ cli'.done = cli.done /\ cli'.code = cli.code
    BY DEF IInv, ClientInv, ClientRecord
  <1>2. cli.at \in Early /\ pkg.at = "none" /\ ~cli.done /\ cli.last = Unseen /\ cli.path = ""
    BY DEF IInv, ClientInv, Early
  <1>3. /\ DaemonInv' /\ pkg'.finished = pkg.finished
        /\ pkg'.at # "none" => cli.cmd \in TaskCommands
        /\ "mine" \in pkg'.jobs => cli.cmd \in {"search", "prune"}
    BY <1>2, NewIs
  <1>5. CommandInv'
    BY <1>1, <1>3 DEF IInv, CommandInv, Kinds
  <1>6. cli.last.state # "Succeed" /\ ~isTaskDone(cli.last.subState)
    <2>1. cli.last.state = Unseen.state /\ cli.last.subState = Unseen.subState
      BY <1>2
    <2> QED
      BY <2>1 DEF Unseen, isTaskDone
  <1>7. ClientInv'
    BY <1>1, <1>2, <1>3, <1>6 DEF IInv, ClientInv, Early
  <1>8. Onward
    BY <1>2, <1>3 DEF Onward, Ended
  <1>9. InboxInv'
    BY <1>1, <1>8, InboxLeft DEF IInv
  <1> QED
    BY <1>1, <1>3, <1>5, <1>7, <1>9, GoesOn

(* An exit status that is no success. *)
LEMMA MinusOne == \A x : x = -1 => x # 0
  OBVIOUS

(* The daemon has accepted what the client gave up. *)
LEMMA UnheardIInv ==
    ASSUME IInv, cli.at = "call", cli' = [cli EXCEPT !.at = "ended", !.code = -1],
           \/ cli.cmd \in TaskCommands /\ \E refs \in {<<>>, <<"mine">>} : pkg' = NewTaskOf(refs)
           \/ cli.cmd \in {"search", "prune"} /\ pkg' = NewJob,
           UNCHANGED <<matches, inbox, seen>>
    PROVE  IInv'
  <1>1. /\ cli' \in ClientRecord /\ cli'.at = "ended" /\ cli'.code = -1
        /\ cli'.cmd = cli.cmd /\ cli'.path = cli.path /\ cli'.task = cli.task
        /\ cli'.last = cli.last /\ cli'.done = cli.done
    BY DEF IInv, ClientInv, ClientRecord
  <1>2. cli.at \in Early /\ pkg.at = "none" /\ ~cli.done /\ cli.last = Unseen /\ cli.path = ""
    BY DEF IInv, ClientInv, Early
  <1>3. /\ DaemonInv' /\ pkg'.finished = pkg.finished
        /\ pkg'.at # "none" => cli.cmd \in TaskCommands
        /\ "mine" \in pkg'.jobs => cli.cmd \in {"search", "prune"}
    BY <1>2, NewIs
  <1>4. CommandInv'
    BY <1>1, <1>3 DEF IInv, CommandInv, Kinds
  <1>5. cli.last.state # "Succeed" /\ ~isTaskDone(cli.last.subState)
    <2>1. cli.last.state = Unseen.state /\ cli.last.subState = Unseen.subState
      BY <1>2
    <2> QED
      BY <2>1 DEF Unseen, isTaskDone
  <1>6. ClientInv'
    BY <1>1, <1>2, <1>3, <1>5 DEF IInv, ClientInv, Early
  <1>7. Onward
    BY <1>2, <1>3 DEF Onward, Ended
  <1>8. InboxInv'
    BY <1>1, <1>7, InboxLeft DEF IInv
  <1>9. EndInv'
    <2>1. ~cli'.done /\ cli'.path # "mine" /\ cli'.at # "crashed"
      BY <1>1, <1>2, Zenon
    <2>2. cli'.code # 0
      <3>1. cli'.code = -1
        BY <1>1
      <3> QED
        BY <3>1, MinusOne
    <2> QED
      BY <1>1, <2>1, <2>2, Zenon DEF EndInv, ExitCodeTells, NoTaskAbandoned, DiesOnlyWhenRaced
  <1> QED
    BY <1>3, <1>4, <1>6, <1>8, <1>9 DEF IInv

(* A command that returns has ended. *)
LEMMA ReturnEnds ==
    ASSUME cli \in ClientRecord, Return(-1)
    PROVE  cli'.at = "ended"
  BY DEF Return, ReturnAs, ClientRecord

(* So has a client whose call failed. *)
LEMMA EndedThen ==
    ASSUME cli \in ClientRecord, cli' = [cli EXCEPT !.at = "ended", !.code = -1]
    PROVE  cli'.at = "ended"
  BY DEF ClientRecord

(* The six calls: an error, or the reply. *)
LEMMA CallsIInv ==
    ASSUME IInv, install \/ installFromFile \/ upgrade \/ uninstall \/ prune \/ search
    PROVE  IInv'
  <1>1. cli.at = "call" /\ cli.at \in Early
    BY DEF install, installFromFile, upgrade, uninstall, prune, search, Calls, Early
  <1>2. CASE Return(-1)
    BY <1>1, <1>2, GiveUpIInv
  <1>3. CASE cli'.at # "ended"
    <2>0. ~Return(-1)
      BY <1>3, ReturnEnds DEF IInv, ClientInv
    <2>1. cli' = [cli EXCEPT !.at = "connect"] /\ UNCHANGED <<inbox, seen>>
      BY <1>3, <2>0, EndedThen DEF IInv, ClientInv, install, installFromFile, upgrade, uninstall, prune, search, Calls
    <2>2. CASE install \/ installFromFile
      <3>1. cli.cmd \in Asking /\ matches' = matches \cup {"RequestInteraction"} /\ pkg' = NewTaskOf(<<"mine">>)
        BY <1>3, <2>0, <2>2, EndedThen DEF IInv, ClientInv, install, installFromFile, Calls, Asking
      <3> QED
        BY <1>1, <2>1, <3>1, AcceptedIInv DEF Asking, TaskCommands
    <2>3. CASE upgrade \/ uninstall
      <3>1. /\ cli.cmd \in TaskCommands /\ matches' = matches \cup {}
            /\ pkg' = NewTaskOf(<<"mine">>) \/ pkg' = NewTaskOf(<<>>)
        BY <1>3, <2>0, <2>3, EndedThen DEF IInv, ClientInv, upgrade, uninstall, Calls, TaskCommands
      <3> QED
        BY <1>1, <2>1, <3>1, AcceptedIInv
    <2>4. CASE prune
      <3>1. cli.cmd = "prune" /\ matches' = matches \cup {"PruneFinished"} /\ pkg' = NewJob
        BY <1>3, <2>0, <2>4, EndedThen DEF IInv, ClientInv, prune, Calls
      <3> QED
        BY <1>1, <2>1, <3>1, AcceptedIInv
    <2>5. CASE search
      <3>1. cli.cmd = "search" /\ matches' = matches \cup {} /\ pkg' = NewJob
        BY <1>3, <2>0, <2>5, EndedThen DEF IInv, ClientInv, search, Calls
      <3> QED
        BY <1>1, <2>1, <3>1, AcceptedIInv
    <2> QED
      BY <2>2, <2>3, <2>4, <2>5
  <1>4. CASE ~Return(-1) /\ cli'.at = "ended"
    <2>1. cli' = [cli EXCEPT !.at = "ended", !.code = -1] /\ UNCHANGED <<matches, inbox, seen>>
      BY <1>4 DEF install, installFromFile, upgrade, uninstall, prune, search, Calls, IInv, ClientInv, ClientRecord
    <2>2. \/ cli.cmd \in TaskCommands /\ \E refs \in {<<>>, <<"mine">>} : pkg' = NewTaskOf(refs)
          \/ cli.cmd \in {"search", "prune"} /\ pkg' = NewJob
      BY <1>4 DEF install, installFromFile, upgrade, uninstall, prune, search, Calls, TaskCommands
    <2> QED
      BY <1>1, <2>1, <2>2, UnheardIInv
  <1> QED
    BY <1>2, <1>3, <1>4

(* The reply is bound, the last match rule added; or the command gives up  *)
(* and takes its task with it.                                             *)
LEMMA ConnectIInv ==
    ASSUME IInv, Connect
    PROVE  IInv'
  <1>1. PICK bound : bound = [cli EXCEPT !.path = "mine", !.task = cli.cmd \in TaskCommands]
    OBVIOUS
  <1>2. /\ cli.at = "connect" /\ cli \in ClientRecord /\ cli.last = Unseen /\ cli.path = ""
    BY DEF IInv, ClientInv, Connect
  <1>3. ~cli.done
    BY <1>2 DEF IInv, ClientInv
  <1>0. PICK b \in BOOLEAN : (b <=> cli.cmd \in TaskCommands) /\ bound = [cli EXCEPT !.path = "mine", !.task = b]
    <2>1. CASE cli.cmd \in TaskCommands
      <3>1. (cli.cmd \in TaskCommands) = TRUE
        BY <2>1
      <3>2. bound = [cli EXCEPT !.path = "mine", !.task = TRUE]
        BY <1>1, <3>1, Zenon
      <3> QED
        BY <2>1, <3>2, Zenon
    <2>2. CASE cli.cmd \notin TaskCommands
      <3>1. (cli.cmd \in TaskCommands) = FALSE
        BY <2>2
      <3>2. bound = [cli EXCEPT !.path = "mine", !.task = FALSE]
        BY <1>1, <3>1, Zenon
      <3> QED
        BY <2>2, <3>2, Zenon
    <2> QED
      BY <2>1, <2>2
  <1>4. /\ bound \in ClientRecord /\ bound.at = cli.at /\ bound.cmd = cli.cmd /\ bound.path = "mine"
        /\ bound.last = cli.last /\ bound.done = cli.done /\ bound.code = cli.code
    BY <1>0, <1>2 DEF ClientRecord
  <1>5. bound.task <=> cli.cmd \in TaskCommands
    <2>1. bound.task = b
      BY <1>0, <1>2 DEF ClientRecord
    <2> QED
      BY <1>0, <2>1
  <1>6. cli.last.state # "Succeed" /\ ~isTaskDone(cli.last.subState)
    <2>1. cli.last.state = Unseen.state /\ cli.last.subState = Unseen.subState
      BY <1>2
    <2> QED
      BY <2>1 DEF Unseen, isTaskDone
  <1>7. CASE /\ cli' = [bound EXCEPT !.at = "wait"]
             /\ matches' = matches \cup (CASE cli.cmd \in TaskCommands -> {"PropertiesChanged"}
                                           [] cli.cmd = "search" -> {"SearchFinished"}
                                           [] OTHER -> {})
             /\ UNCHANGED <<inbox, pkg, seen>>
    <2>1. /\ cli' \in ClientRecord /\ cli'.at = "wait"
          /\ cli'.cmd = cli.cmd /\ cli'.path = "mine" /\ cli'.task = bound.task
          /\ cli'.last = cli.last /\ cli'.done = cli.done /\ cli'.code = cli.code
      BY <1>4, <1>7 DEF ClientRecord
    <2>2. /\ matches \subseteq matches' /\ matches' \subseteq matches \cup {"PropertiesChanged", "SearchFinished"}
          /\ "PropertiesChanged" \in matches' => "PropertiesChanged" \in matches \/ cli.cmd \in TaskCommands
          /\ "SearchFinished" \in matches' => "SearchFinished" \in matches \/ cli.cmd = "search"
      BY <1>7
    <2>3. DaemonInv'
      BY <1>7 DEF IInv, DaemonInv, TaskTells
    <2>4. CommandInv'
      BY <1>7, <2>1, <2>2 DEF IInv, CommandInv, Kinds
    <2>5. ClientInv'
      BY <1>3, <1>5, <1>6, <1>7, <2>1 DEF ClientInv, Early
    <2>6. Onward
      BY <1>2, <1>7, <2>2 DEF Onward, Ended
    <2>7. InboxInv'
      BY <1>7, <2>1, <2>6, InboxLeft DEF IInv
    <2> QED
      BY <2>1, <2>3, <2>4, <2>5, <2>7, GoesOn
  <1>8. CASE cli.cmd \in TaskCommands /\ ReturnAs(bound, -1)
    <2>1. ReturnAs(bound, -1) /\ -1 \in {0, -1} /\ -1 # 0
      BY <1>8
    <2>2. bound.task /\ ~bound.done /\ cli.at \notin Early /\ bound.cmd # "search"
      BY <1>2, <1>3, <1>4, <1>5, <1>8 DEF Early, TaskCommands
    <2> QED
      BY <1>2, <1>4, <2>1, <2>2, ReturnIInv
  <1> QED
    BY <1>1, <1>7, <1>8 DEF Connect

-----------------------------------------------------------------------------
(* The event loop                                                          *)

(* The first signal says what is true, and a change heard after the end    *)
(* has to do with somebody else's cancel.                                  *)
LEMMA HeadTrue ==
    ASSUME InboxInv, inbox # <<>>
    PROVE  /\ Truthful(Head(inbox))
           /\ Head(inbox).kind = "PropertiesChanged" /\ cli.done => seen.cancelled
  <1>1. 1 \in DOMAIN inbox /\ Head(inbox) = inbox[1]
    BY DEF InboxInv
  <1> QED
    BY <1>1 DEF InboxInv

(* A signal is handled in the loop of the command, or of the question. *)
LEMMA HeardIInv ==
    ASSUME IInv, cli.at \in {"wait", "asked"}, inbox # <<>>, inbox' = Tail(inbox), UNCHANGED <<matches, pkg, seen>>,
           ClientInv', cli'.cmd = cli.cmd, cli'.at # "ended",
           cli'.done => cli.done \/ EndOfMine(Head(inbox)) \/ "PropertiesChanged" \notin matches,
           cli'.at = "crashed" => seen.failedPrune \/ seen.cancelled
    PROVE  IInv'
  <1>1. Onward
    BY DEF Onward, Ended
  <1>2. InboxInv'
    BY <1>1, InboxTaken DEF IInv
  <1>3. DaemonInv' /\ CommandInv'
    BY DEF IInv, DaemonInv, CommandInv, TaskTells
  <1>4. EndInv'
    BY DEF EndInv, ExitCodeTells, NoTaskAbandoned, DiesOnlyWhenRaced
  <1> QED
    BY <1>2, <1>3, <1>4 DEF IInv

(* A change of the task, or a crash on the null proxy. *)
LEMMA PropertiesChangedIInv ==
    ASSUME IInv, onTaskPropertiesChanged
    PROVE  IInv'
  <1>1. PICK s : s = Head(inbox)
    OBVIOUS
  <1>2. /\ cli.at = "wait" /\ inbox # <<>> /\ inbox' = Tail(inbox) /\ s.kind = "PropertiesChanged"
        /\ UNCHANGED <<matches, pkg, seen>> /\ cli \in ClientRecord
    BY <1>1 DEF onTaskPropertiesChanged, Turning, Sig, IInv, ClientInv
  <1>3. Truthful(s) /\ (cli.done => seen.cancelled)
    BY <1>1, <1>2, HeadTrue DEF IInv
  <1>4. cli.cmd \in TaskCommands /\ s \in Signals
    BY <1>2, <1>3 DEF Truthful, IInv, CommandInv
  <1>5. CASE cli.task
    <2>1. cli' = [cli EXCEPT !.last = [state |-> s.state, subState |-> s.subState]]
      BY <1>1, <1>5 DEF onTaskPropertiesChanged, Sig
    <2>2. /\ cli' \in ClientRecord /\ cli'.at = "wait" /\ cli'.cmd = cli.cmd /\ cli'.path = cli.path /\ cli'.task = cli.task
          /\ cli'.last.state = s.state /\ cli'.last.subState = s.subState /\ cli'.done = cli.done /\ cli'.code = cli.code
      BY <1>2, <1>4, <2>1 DEF ClientRecord, Signals
    <2>3. s.state = "Succeed" => pkg.task.parts = Len(pkg.task.refs)
      BY <1>2, <1>3 DEF Truthful
    <2>4. isTaskDone(s.subState) => isTaskDone(pkg.task.subState)
      BY <1>2, <1>3 DEF Truthful
    <2>5. ~cli.done
      BY <1>5 DEF IInv, ClientInv
    <2>6. ClientInv'
      BY <1>2, <1>4, <2>2, <2>3, <2>4, <2>5 DEF IInv, ClientInv, Early
    <2> QED
      BY <1>2, <2>2, <2>6, HeardIInv
  <1>6. CASE ~cli.task
    <2>1. cli' = [cli EXCEPT !.at = "crashed"]
      BY <1>6 DEF onTaskPropertiesChanged
    <2>2. /\ cli' \in ClientRecord /\ cli'.at = "crashed" /\ cli'.cmd = cli.cmd /\ cli'.path = cli.path /\ cli'.task = cli.task
          /\ cli'.last = cli.last /\ cli'.done = cli.done /\ cli'.code = cli.code
      BY <1>2, <2>1 DEF ClientRecord
    <2>3. cli.done
      BY <1>2, <1>4, <1>6 DEF IInv, ClientInv
    <2>4. ClientInv'
      BY <1>2, <2>2 DEF IInv, ClientInv, Early
    <2> QED
      BY <1>2, <1>3, <2>2, <2>3, <2>4, HeardIInv
  <1> QED
    BY <1>5, <1>6

(* The end of the task, or of another. *)
LEMMA RemovedIInv ==
    ASSUME IInv, onTaskRemoved
    PROVE  IInv'
  <1>1. PICK s : s = Head(inbox)
    OBVIOUS
  <1>2. /\ cli.at = "wait" /\ inbox # <<>> /\ inbox' = Tail(inbox) /\ s.kind = "TaskRemoved"
        /\ UNCHANGED <<matches, pkg, seen>> /\ cli \in ClientRecord /\ cli.path = "mine"
    BY <1>1 DEF onTaskRemoved, Turning, Sig, IInv, ClientInv
  <1>3. Truthful(s) /\ s \in Signals
    BY <1>1, <1>2, HeadTrue DEF IInv, Truthful
  <1>4. CASE s.of # cli.path
    <2>1. cli' = cli
      BY <1>1, <1>4 DEF onTaskRemoved, Sig
    <2>2. ClientInv'
      BY <1>2, <2>1 DEF IInv, ClientInv
    <2> QED
      BY <1>2, <2>1, <2>2, HeardIInv
  <1>5. CASE s.of = cli.path
    <2>1. cli' = [cli EXCEPT !.task = FALSE, !.done = TRUE, !.last = [state |-> s.state, subState |-> s.subState]]
      BY <1>1, <1>5 DEF onTaskRemoved, Sig
    <2>2. /\ cli' \in ClientRecord /\ cli'.at = "wait" /\ cli'.cmd = cli.cmd /\ cli'.path = cli.path
          /\ cli'.last.state = s.state /\ cli'.last.subState = s.subState /\ cli'.code = cli.code
      BY <1>2, <1>3, <2>1 DEF ClientRecord, Signals
    <2>3. ~cli'.task /\ cli'.done
      BY <1>2, <2>1 DEF ClientRecord
    <2>4. /\ s.state = "Succeed" => pkg.task.parts = Len(pkg.task.refs)
          /\ isTaskDone(s.subState) => isTaskDone(pkg.task.subState)
          /\ pkg.at \in {"over", "gone"}
          /\ seen.cancelled \/ s.state = pkg.task.state
      BY <1>2, <1>3, <1>5 DEF Truthful, Ended
    <2>5. cli.cmd \in TaskCommands /\ cli.cmd # "search"
      BY <2>4 DEF IInv, CommandInv, TaskCommands
    <2>6. ClientInv'
      BY <1>2, <2>2, <2>3, <2>4, <2>5 DEF ClientInv, Early
    <2>7. EndOfMine(Head(inbox))
      BY <1>1, <1>2, <1>5 DEF EndOfMine
    <2> QED
      BY <1>2, <2>2, <2>6, <2>7, HeardIInv
  <1> QED
    BY <1>4, <1>5

(* The question of the client's own task is put; any other is not. *)
LEMMA InteractionIInv ==
    ASSUME IInv, interaction
    PROVE  IInv'
  <1>1. PICK s : s = Head(inbox)
    OBVIOUS
  <1>2. /\ cli.at = "wait" /\ inbox # <<>> /\ inbox' = Tail(inbox) /\ s.kind = "RequestInteraction"
        /\ UNCHANGED <<matches, pkg, seen>> /\ cli \in ClientRecord /\ cli.path = "mine"
    BY <1>1 DEF interaction, Turning, Sig, IInv, ClientInv
  <1>3. cli.cmd \in Asking
    BY <1>1, <1>2, HeadTrue DEF IInv, Truthful, CommandInv
  <1>4. CASE s.of # cli.path
    <2>1. cli' = cli
      BY <1>1, <1>4 DEF interaction, Sig
    <2>2. ClientInv'
      BY <1>2, <2>1 DEF IInv, ClientInv
    <2> QED
      BY <1>2, <2>1, <2>2, HeardIInv
  <1>5. CASE s.of = cli.path
    <2>1. cli' = [cli EXCEPT !.at = "asked", !.asked = "mine"]
      BY <1>1, <1>2, <1>5 DEF interaction, Sig
    <2>2. /\ cli' \in ClientRecord /\ cli'.at = "asked" /\ cli'.cmd = cli.cmd /\ cli'.path = cli.path /\ cli'.task = cli.task
          /\ cli'.last = cli.last /\ cli'.done = cli.done /\ cli'.code = cli.code /\ cli'.asked = "mine"
      BY <1>2, <2>1 DEF ClientRecord
    <2>3. ClientInv'
      BY <1>2, <1>3, <2>2 DEF IInv, ClientInv, Early
    <2> QED
      BY <1>2, <2>2, <2>3, HeardIInv
  <1> QED
    BY <1>4, <1>5

(* Beneath the question of a notification the task changes, or ends. *)
LEMMA RemovedWhileAskedIInv ==
    ASSUME IInv, RemovedWhileAsked
    PROVE  IInv'
  <1>1. PICK s : s = Head(inbox)
    OBVIOUS
  <1>2. /\ cli.at = "asked" /\ inbox # <<>> /\ inbox' = Tail(inbox) /\ s.kind # "RequestInteraction"
        /\ UNCHANGED <<matches, pkg, seen>> /\ cli \in ClientRecord /\ cli.path = "mine" /\ cli.cmd \in Asking
        /\ cli.asked = "mine"
    BY <1>1 DEF RemovedWhileAsked, Sig, IInv, ClientInv
  <1>3. Truthful(s) /\ s \in Signals /\ (s.kind = "PropertiesChanged" /\ cli.done => seen.cancelled)
    BY <1>1, <1>2, HeadTrue DEF IInv, Truthful
  <1>4. cli.cmd \in TaskCommands /\ cli.cmd \notin {"search", "prune"}
    BY <1>2 DEF Asking, TaskCommands
  <1>5. s.kind \in {"PropertiesChanged", "TaskRemoved"}
    BY <1>2, <1>3, <1>4 DEF Truthful, IInv, CommandInv, Kinds
  <1>6. cli.task \/ cli.done
    BY <1>2, <1>4 DEF IInv, ClientInv
  <1>7. CASE s.kind = "PropertiesChanged" /\ ~cli.task
    <2>1. cli' = [cli EXCEPT !.at = "crashed"]
      BY <1>1, <1>7 DEF RemovedWhileAsked, Sig
    <2>2. /\ cli' \in ClientRecord /\ cli'.at = "crashed" /\ cli'.cmd = cli.cmd /\ cli'.path = cli.path /\ cli'.task = cli.task
          /\ cli'.last = cli.last /\ cli'.done = cli.done /\ cli'.code = cli.code
      BY <1>2, <2>1 DEF ClientRecord
    <2>3. ClientInv'
      BY <1>2, <2>2 DEF IInv, ClientInv, Early
    <2> QED
      BY <1>2, <1>3, <1>6, <1>7, <2>2, <2>3, HeardIInv
  <1>8. CASE ~(s.kind = "PropertiesChanged" /\ ~cli.task) /\ s.of # cli.path
    <2>1. cli' = cli
      BY <1>1, <1>8 DEF RemovedWhileAsked, Sig
    <2>2. ClientInv'
      BY <1>2, <2>1 DEF IInv, ClientInv
    <2> QED
      BY <1>2, <2>1, <2>2, HeardIInv
  <1>9. CASE ~(s.kind = "PropertiesChanged" /\ ~cli.task) /\ s.of = cli.path
    <2> DEFINE told == [cli EXCEPT !.last = [state |-> s.state, subState |-> s.subState]]
    <2>1. cli' = IF s.kind # "TaskRemoved" THEN told ELSE [told EXCEPT !.task = FALSE, !.done = TRUE]
      BY <1>1, <1>9 DEF RemovedWhileAsked, Sig
    <2>2. told \in ClientRecord
      BY <1>2, <1>3 DEF ClientRecord, Signals
    <2>3. /\ cli' \in ClientRecord /\ cli'.at = "asked" /\ cli'.cmd = cli.cmd /\ cli'.path = cli.path
          /\ cli'.last.state = s.state /\ cli'.last.subState = s.subState /\ cli'.code = cli.code
          /\ cli'.asked = cli.asked
          /\ s.kind # "TaskRemoved" => cli'.task = cli.task /\ cli'.done = cli.done
      BY <1>2, <2>1, <2>2 DEF ClientRecord
    <2>4. /\ s.state = "Succeed" => pkg.task.parts = Len(pkg.task.refs)
          /\ isTaskDone(s.subState) => isTaskDone(pkg.task.subState)
          /\ s.kind = "TaskRemoved" => pkg.at \in {"over", "gone"} /\ (seen.cancelled \/ s.state = pkg.task.state)
      BY <1>2, <1>3, <1>5, <1>9 DEF Truthful, Ended
    <2>5. CASE s.kind = "TaskRemoved"
      <3>1. ~cli'.task /\ cli'.done
        BY <1>2, <2>1, <2>2, <2>5 DEF ClientRecord
      <3>2. ClientInv'
        BY <1>2, <1>4, <2>3, <2>4, <2>5, <3>1 DEF ClientInv, Early
      <3>3. EndOfMine(Head(inbox))
        BY <1>1, <1>2, <1>9, <2>5 DEF EndOfMine
      <3> QED
        BY <1>2, <2>3, <3>2, <3>3, HeardIInv
    <2>6. CASE s.kind = "PropertiesChanged"
      <3>1. cli.task /\ cli'.task
        BY <1>9, <2>3, <2>6
      <3>2. ~cli.done
        BY <3>1 DEF IInv, ClientInv
      <3>3. ~cli'.done
        BY <2>3, <2>6, <3>2
      <3>4. ClientInv'
        BY <1>2, <1>4, <2>3, <2>4, <3>1, <3>3 DEF ClientInv, Early
      <3> QED
        BY <1>2, <2>3, <3>3, <3>4, HeardIInv
    <2> QED
      BY <1>5, <2>5, <2>6
  <1> QED
    BY <1>7, <1>8, <1>9

(* The search is over. *)
LEMMA SearchFinishedIInv ==
    ASSUME IInv, onSearchFinished
    PROVE  IInv'
  <1>1. PICK s : s = Head(inbox)
    OBVIOUS
  <1>2. /\ cli.at = "wait" /\ inbox # <<>> /\ inbox' = Tail(inbox) /\ s.kind = "SearchFinished"
        /\ UNCHANGED <<matches, pkg, seen>> /\ cli \in ClientRecord /\ cli.path = "mine"
    BY <1>1 DEF onSearchFinished, Turning, Sig, IInv, ClientInv
  <1>3. Truthful(s)
    BY <1>1, <1>2, HeadTrue DEF IInv
  <1>4. cli.cmd = "search" /\ cli.cmd \notin TaskCommands
    BY <1>2, <1>3 DEF Truthful, IInv, CommandInv, TaskCommands
  <1>5. "PropertiesChanged" \notin matches
    BY <1>4 DEF IInv, CommandInv
  <1>6. CASE s.of # "mine"
    <2>1. cli' = cli
      BY <1>1, <1>6 DEF onSearchFinished, Sig
    <2>2. ClientInv'
      BY <1>2, <2>1 DEF IInv, ClientInv
    <2> QED
      BY <1>2, <2>1, <2>2, HeardIInv
  <1>7. CASE s.of = "mine"
    <2>1. cli' = [cli EXCEPT !.done = TRUE, !.code = IF s.state = "Failed" THEN -1 ELSE 0]
      BY <1>1, <1>7 DEF onSearchFinished, Sig
    <2>2. /\ cli' \in ClientRecord /\ cli'.at = "wait" /\ cli'.cmd = cli.cmd /\ cli'.path = cli.path /\ cli'.task = cli.task
          /\ cli'.last = cli.last /\ cli'.code = (IF s.state = "Failed" THEN -1 ELSE 0)
      BY <1>2, <2>1 DEF ClientRecord
    <2>3. cli'.code = 0 => "mine" \in pkg.finished
      BY <1>2, <1>3, <1>7, <2>2 DEF Truthful
    <2>4. ~cli.task
      <3> SUFFICES ASSUME cli.task PROVE FALSE
        OBVIOUS
      <3> QED
        BY <1>4 DEF IInv, ClientInv
    <2>5. ClientInv'
      BY <1>2, <1>4, <2>2, <2>3, <2>4 DEF IInv, ClientInv, Early
    <2> QED
      BY <1>2, <1>5, <2>2, <2>5, HeardIInv
  <1> QED
    BY <1>6, <1>7

(* The prune is over; a failed one may kill the client. *)
LEMMA PruneFinishedIInv ==
    ASSUME IInv, onPruneFinished
    PROVE  IInv'
  <1>1. PICK s : s = Head(inbox)
    OBVIOUS
  <1>2. /\ cli.at = "wait" /\ inbox # <<>> /\ inbox' = Tail(inbox) /\ s.kind = "PruneFinished"
        /\ UNCHANGED <<matches, pkg, seen>> /\ cli \in ClientRecord /\ cli.path = "mine"
    BY <1>1 DEF onPruneFinished, Turning, Sig, IInv, ClientInv
  <1>3. Truthful(s)
    BY <1>1, <1>2, HeadTrue DEF IInv
  <1>4. cli.cmd = "prune" /\ cli.cmd \notin TaskCommands /\ cli.cmd # "search"
    BY <1>2, <1>3 DEF Truthful, IInv, CommandInv, TaskCommands
  <1>5. "PropertiesChanged" \notin matches
    BY <1>4 DEF IInv, CommandInv
  <1>6. CASE cli' = cli
    <2>1. ClientInv'
      BY <1>2, <1>6 DEF IInv, ClientInv
    <2> QED
      BY <1>2, <1>6, <2>1, HeardIInv
  <1>7. CASE cli' = [cli EXCEPT !.done = TRUE]
    <2>1. /\ cli' \in ClientRecord /\ cli'.at = "wait" /\ cli'.cmd = cli.cmd /\ cli'.path = cli.path /\ cli'.task = cli.task
          /\ cli'.last = cli.last /\ cli'.code = cli.code
      BY <1>2, <1>7 DEF ClientRecord
    <2>2. ~cli.task
      <3> SUFFICES ASSUME cli.task PROVE FALSE
        OBVIOUS
      <3> QED
        BY <1>4 DEF IInv, ClientInv
    <2>3. ClientInv'
      BY <1>2, <1>4, <2>1, <2>2 DEF IInv, ClientInv, Early
    <2> QED
      BY <1>2, <1>5, <2>1, <2>3, HeardIInv
  <1>8. CASE cli' = [cli EXCEPT !.at = "crashed"] /\ s.state = "Failed" /\ s.of = "mine"
    <2>1. /\ cli' \in ClientRecord /\ cli'.at = "crashed" /\ cli'.cmd = cli.cmd /\ cli'.path = cli.path /\ cli'.task = cli.task
          /\ cli'.last = cli.last /\ cli'.code = cli.code /\ cli'.done = cli.done
      BY <1>2, <1>8 DEF ClientRecord
    <2>2. seen.failedPrune
      BY <1>2, <1>3, <1>8 DEF Truthful
    <2>3. ClientInv'
      BY <1>2, <2>1 DEF IInv, ClientInv, Early
    <2> QED
      BY <1>2, <2>1, <2>2, <2>3, HeardIInv
  <1> QED
    BY <1>1, <1>6, <1>7, <1>8 DEF onPruneFinished, Sig

(* A reply leaves the task as it is and lets its job go on; or it reaches  *)
(* nobody, or the daemon dies of it.                                       *)
LEMMA ReplyIs ==
    ASSUME IInv, NEW word \in {"yes", "no"},
           pkg' \in IF pkg.up THEN ReplyInteraction(word) ELSE {pkg},
           seen' \in SeenRecord, seen'.cancelled = seen.cancelled, seen'.failedPrune = seen.failedPrune,
           seen'.killed = seen.killed
    PROVE  DaemonInv' /\ Forward /\ pkg'.task = pkg.task /\ (pkg.at \in {"over", "gone"} => pkg'.at = pkg.at)
  <1>1. pkg \in [task : TaskRecord, at : {"none", "queued", "asking", "answered", "working", "over", "gone"},
                 reply : {"none", "yes", "no"}, jobs : SUBSET {"probe", "mine"}, up : BOOLEAN,
                 finished : SUBSET {"probe", "mine"}]
    BY DEF IInv, DaemonInv
  <1>2. CASE pkg' = pkg
    BY <1>2 DEF IInv, DaemonInv, TaskTells, Forward
  <1>3. CASE pkg' = [pkg EXCEPT !.up = FALSE]
    <2>1. /\ pkg' \in [task : TaskRecord, at : {"none", "queued", "asking", "answered", "working", "over", "gone"},
                        reply : {"none", "yes", "no"}, jobs : SUBSET {"probe", "mine"}, up : BOOLEAN,
                        finished : SUBSET {"probe", "mine"}]
          /\ pkg'.task = pkg.task /\ pkg'.at = pkg.at /\ pkg'.jobs = pkg.jobs /\ pkg'.finished = pkg.finished
          /\ ~pkg'.up
      BY <1>1, <1>3
    <2> QED
      BY <2>1 DEF IInv, DaemonInv, TaskTells, Forward
  <1>4. CASE /\ pkg.at \in {"asking", "answered"}
             /\ \E w \in {"yes", "no"} : pkg' = [pkg EXCEPT !.at = "answered", !.reply = w]
    <2>1. PICK w \in {"yes", "no"} : pkg' = [pkg EXCEPT !.at = "answered", !.reply = w]
      BY <1>4
    <2>2. /\ pkg' \in [task : TaskRecord, at : {"none", "queued", "asking", "answered", "working", "over", "gone"},
                        reply : {"none", "yes", "no"}, jobs : SUBSET {"probe", "mine"}, up : BOOLEAN,
                        finished : SUBSET {"probe", "mine"}]
          /\ pkg'.task = pkg.task /\ pkg'.at = "answered" /\ pkg'.jobs = pkg.jobs /\ pkg'.finished = pkg.finished
          /\ pkg'.up = pkg.up
      BY <1>1, <2>1
    <2> QED
      BY <1>4, <2>2 DEF IInv, DaemonInv, TaskTells, Forward
  <1>5. CASE pkg.at \in {"asking", "answered"} /\ pkg' \in ReplyInteraction(word)
    <2>1. PICK w : w = IF cli.cmd = "file" /\ pkg.reply = "no" THEN pkg.reply ELSE word
      OBVIOUS
    <2>2. pkg' = [pkg EXCEPT !.at = "answered", !.reply = w]
      BY <1>1, <1>5, <2>1 DEF ReplyInteraction
    <2> QED
      BY <1>4, <1>5, <2>1, <2>2
  <1>6. CASE pkg.at \notin {"asking", "answered"} /\ pkg' \in ReplyInteraction(word)
    BY <1>2, <1>3, <1>6 DEF ReplyInteraction
  <1> QED
    BY <1>2, <1>5, <1>6

(* The answers there are. *)
LEMMA AnswersAre == Answers \subseteq {"yes", "no", "abort"}
  BY DEF Answers, TerminalNotifier, DBusNotifier, DummyNotifier

(* Somebody else's reply. *)
LEMMA ReplyFromOtherIInv ==
    ASSUME IInv, ReplyFromOther
    PROVE  IInv'
  <1>1. PICK word \in {"yes", "no"} : pkg.up /\ pkg' \in ReplyInteraction(word)
    BY DEF ReplyFromOther
  <1>2. /\ seen' \in SeenRecord /\ seen'.cancelled = seen.cancelled /\ seen'.failedPrune = seen.failedPrune
        /\ seen'.killed = seen.killed
    BY DEF IInv, DaemonInv, SeenRecord, ReplyFromOther
  <1>3. DaemonInv' /\ Forward
    BY <1>1, <1>2, ReplyIs
  <1> QED
    BY <1>3, SilentIInv DEF ReplyFromOther

(* The loop of the question has ended, and the task is cancelled, or its   *)
(* job works.                                                              *)
LEMMA JobGoesOnIInv ==
    ASSUME IInv, JobGoesOn
    PROVE  IInv'
  <1>1. /\ pkg.up /\ pkg.at = "answered" /\ cli' = cli /\ matches' = matches /\ seen' = seen
        /\ IF pkg'.task = pkg.task THEN UNCHANGED inbox ELSE Emit(Signal("PropertiesChanged", "mine", pkg'.task))
    BY DEF JobGoesOn
  <1>2. PICK told : told = IF pkg.reply = "yes" THEN pkg.task ELSE updateState(pkg.task, "Canceled")
    OBVIOUS
  <1>3. PICK t : t = IF isTaskDone(told.subState) THEN told ELSE updateState(told, "Processing")
    OBVIOUS
  <1>4. pkg' = [pkg EXCEPT !.at = "working", !.task = t]
    BY <1>2, <1>3 DEF JobGoesOn
  <1>5. pkg.task \in TaskRecord /\ {"Canceled", "Processing"} \subseteq States \ {"PartCompleted"} /\ pkg.task.parts # 1
    BY <1>1 DEF IInv, DaemonInv, TaskTells, States
  <1>6. /\ told \in TaskRecord /\ told.parts = pkg.task.parts /\ told.refs = pkg.task.refs
        /\ told.cancelled = pkg.task.cancelled
        /\ isTaskDone(pkg.task.subState) => isTaskDone(told.subState)
        /\ told.state = "Succeed" => told.parts = Len(told.refs)
    <2>1. CASE told = pkg.task
      BY <1>5, <2>1 DEF IInv, DaemonInv, TaskTells
    <2>2. CASE told = updateState(pkg.task, "Canceled")
      BY <1>5, <2>2, UpdateIs DEF isTaskDone
    <2> QED
      BY <1>2, <2>1, <2>2
  <1>7. /\ t \in TaskRecord /\ t.parts = pkg.task.parts /\ t.refs = pkg.task.refs
        /\ t.cancelled = pkg.task.cancelled
        /\ isTaskDone(pkg.task.subState) => isTaskDone(t.subState)
        /\ t.state = "Succeed" => t.parts = Len(t.refs)
    <2>1. CASE t = told
      BY <1>6, <2>1
    <2>2. CASE t = updateState(told, "Processing") /\ ~isTaskDone(told.subState)
      BY <1>5, <1>6, <2>2, UpdateIs
    <2> QED
      BY <1>3, <2>1, <2>2
  <1>8. /\ pkg' \in [task : TaskRecord, at : {"none", "queued", "asking", "answered", "working", "over", "gone"},
                      reply : {"none", "yes", "no"}, jobs : SUBSET {"probe", "mine"}, up : BOOLEAN,
                      finished : SUBSET {"probe", "mine"}]
        /\ pkg'.at = "working" /\ pkg'.task = t /\ pkg'.jobs = pkg.jobs /\ pkg'.up = pkg.up
        /\ pkg'.finished = pkg.finished
    BY <1>4, <1>7 DEF IInv, DaemonInv
  <1>9. DaemonInv'
    BY <1>1, <1>5, <1>7, <1>8 DEF IInv, DaemonInv, TaskTells
  <1>10. Forward
    BY <1>1, <1>7, <1>8 DEF Forward
  <1>11. CASE UNCHANGED inbox
    BY <1>1, <1>9, <1>10, <1>11, SilentIInv
  <1>12. CASE Emit(Signal("PropertiesChanged", "mine", pkg'.task))
    <2>1. PICK s : s = Signal("PropertiesChanged", "mine", pkg'.task)
      OBVIOUS
    <2>2. /\ s \in Signals /\ s.kind = "PropertiesChanged" /\ s.of = "mine" /\ s.state = pkg'.task.state
          /\ s.subState = pkg'.task.subState
      BY <1>8, <2>1, SignalIs DEF Kinds
    <2>3. s.kind \in matches => Truthful(s)'
      BY <1>1, <1>8, <1>9, <2>2 DEF Truthful, DaemonInv, TaskTells
    <2> QED
      BY <1>1, <1>9, <1>10, <1>12, <2>1, <2>2, <2>3, EmitIInv
  <1> QED
    BY <1>1, <1>11, <1>12

(* The answer is given to the job that asked, which goes on. *)
LEMMA RequestIInv ==
    ASSUME IInv, request
    PROVE  IInv'
  <1>1. PICK answer \in Answers :
          IF answer = "abort"
            THEN /\ cli' = [cli EXCEPT !.at = "crashed"]
                 /\ seen' = [seen EXCEPT !.killed = TRUE]
                 /\ UNCHANGED pkg
            ELSE /\ cli' = [cli EXCEPT !.at = "wait"]
                 /\ pkg' \in IF pkg.up THEN ReplyInteraction(answer) ELSE {pkg}
                 /\ seen' = [seen EXCEPT !.said = IF cli.asked = "mine" THEN @ \cup {answer} ELSE @]
    BY DEF request
  <1>2. /\ cli.at = "asked" /\ cli \in ClientRecord /\ matches' = matches /\ inbox' = inbox
    BY DEF request, IInv, ClientInv
  <1>3. CASE answer = "abort"
    <2>1. /\ cli' \in ClientRecord /\ cli'.at = "crashed" /\ cli'.cmd = cli.cmd /\ cli'.path = cli.path /\ cli'.task = cli.task
          /\ cli'.last = cli.last /\ cli'.code = cli.code /\ cli'.done = cli.done
      BY <1>1, <1>2, <1>3 DEF ClientRecord
    <2>2. /\ seen' \in SeenRecord /\ seen'.killed /\ seen'.cancelled = seen.cancelled /\ seen'.failedPrune = seen.failedPrune
      BY <1>1, <1>3 DEF IInv, DaemonInv, SeenRecord
    <2>3. pkg' = pkg
      BY <1>1, <1>3
    <2>4. Onward
      BY <1>2, <2>1, <2>2, <2>3 DEF Onward, Ended
    <2>5. DaemonInv'
      BY <2>2, <2>3 DEF IInv, DaemonInv, TaskTells
    <2>6. CommandInv'
      BY <1>2, <2>1, <2>3 DEF IInv, CommandInv
    <2>7. ClientInv'
      BY <1>2, <2>1, <2>2, <2>3 DEF IInv, ClientInv, Early
    <2>8. InboxInv'
      BY <1>2, <2>1, <2>4, InboxLeft DEF IInv
    <2>9. EndInv'
      BY <2>1, <2>2 DEF EndInv, ExitCodeTells, NoTaskAbandoned, DiesOnlyWhenRaced
    <2> QED
      BY <2>5, <2>6, <2>7, <2>8, <2>9 DEF IInv
  <1>4. CASE answer # "abort"
    <2>1. /\ cli' \in ClientRecord /\ cli'.at = "wait" /\ cli'.cmd = cli.cmd /\ cli'.path = cli.path /\ cli'.task = cli.task
          /\ cli'.last = cli.last /\ cli'.code = cli.code /\ cli'.done = cli.done
      BY <1>1, <1>2, <1>4 DEF ClientRecord
    <2>2. answer \in {"yes", "no"}
      BY <1>4, AnswersAre
    <2>3. /\ seen' \in SeenRecord /\ seen'.cancelled = seen.cancelled /\ seen'.failedPrune = seen.failedPrune
          /\ seen'.killed = seen.killed
      <3>1. PICK said \in SUBSET {"yes", "no"} : seen' = [seen EXCEPT !.said = said]
        <4>1. seen.said \subseteq {"yes", "no"}
          BY DEF IInv, DaemonInv, SeenRecord
        <4> QED
          BY <1>1, <1>4, <2>2, <4>1
      <3> QED
        BY <3>1 DEF IInv, DaemonInv, SeenRecord
    <2>0. DaemonInv' /\ Forward /\ pkg'.task = pkg.task /\ (pkg.at \in {"over", "gone"} => pkg'.at = pkg.at)
      BY <1>1, <1>4, <2>2, <2>3, ReplyIs
    <2>4. Onward
      BY <1>2, <2>3, <2>0 DEF Onward, Forward, Ended, IInv, DaemonInv
    <2>5. CommandInv'
      BY <1>2, <2>1, <2>0 DEF IInv, CommandInv, Forward
    <2>6. ClientInv'
      <3>1. cli.done /\ cli.cmd \in TaskCommands => pkg'.task = pkg.task /\ pkg'.at \in {"over", "gone"}
        BY <2>0 DEF IInv, ClientInv
      <3>2. cli.last.state = "Succeed" => pkg'.task.parts = Len(pkg'.task.refs)
        BY <2>0 DEF IInv, ClientInv, Forward
      <3>3. isTaskDone(cli.last.subState) => isTaskDone(pkg'.task.subState)
        BY <2>0 DEF IInv, ClientInv, Forward
      <3>4. cli.cmd = "search" /\ cli.done /\ cli.code = 0 => "mine" \in pkg'.finished
        BY <2>0 DEF IInv, ClientInv, Forward
      <3> QED
        BY <1>2, <2>1, <2>3, <3>1, <3>2, <3>3, <3>4 DEF IInv, ClientInv, Early
    <2>7. InboxInv'
      BY <1>2, <2>1, <2>4, InboxLeft DEF IInv
    <2> QED
      BY <2>1, <2>0, <2>5, <2>6, <2>7, GoesOn
  <1> QED
    BY <1>3, <1>4

(* The loop ends and the command says what it knows. *)
LEMMA ReturnFromLoopIInv ==
    ASSUME IInv, ReturnFromLoop
    PROVE  IInv'
  <1>1. PICK c, code : /\ c = cli
                       /\ code = IF cli.cmd \in TaskCommands THEN IF cli.last.state = "Succeed" THEN 0 ELSE -1
                                 ELSE IF cli.done THEN cli.code ELSE -1
    OBVIOUS
  <1>2. ReturnAs(c, code) /\ cli.at = "wait" /\ c \in ClientRecord
    BY <1>1 DEF ReturnFromLoop, Return, IInv, ClientInv
  <1>3. cli.code \in {0, -1} /\ ~("search" \in TaskCommands)
    BY <1>1, <1>2 DEF ClientRecord, TaskCommands
  <1>4. /\ code \in {0, -1}
        /\ cli.cmd \in TaskCommands /\ code = 0 => cli.last.state = "Succeed"
        /\ cli.cmd \in TaskCommands /\ cli.last.state = "Succeed" => code = 0
        /\ cli.cmd = "search" /\ code = 0 => cli.done /\ cli.code = 0
    <2>1. CASE cli.cmd \in TaskCommands
      <3>1. code = IF cli.last.state = "Succeed" THEN 0 ELSE -1
        BY <1>1, <1>3, <2>1
      <3> QED
        BY <1>3, <2>1, <3>1
    <2>2. CASE cli.cmd \notin TaskCommands /\ ~cli.done
      <3>1. code = -1
        BY <1>1, <2>2
      <3> QED
        BY <2>2, <3>1
    <2>3. CASE cli.cmd \notin TaskCommands /\ cli.done
      <3>1. code = cli.code
        BY <1>1, <2>3
      <3> QED
        BY <1>3, <2>3, <3>1
    <2> QED
      BY <2>1, <2>2, <2>3
  <1>5. /\ c.task => c.path = "mine" /\ ~c.done
        /\ c.path = "mine" /\ c.cmd \in TaskCommands => c.task \/ c.done
        /\ cli.at \notin Early /\ cli.at \notin {"ended", "crashed"}
    BY <1>1, <1>2 DEF IInv, ClientInv, Early
  <1>6. c.cmd = cli.cmd /\ c.done = cli.done /\ c.last = cli.last
    BY <1>1
  <1> QED
    BY <1>2, <1>4, <1>5, <1>6, ReturnIInv

-----------------------------------------------------------------------------
(* The theorems                                                            *)

(* Every step of the client, the daemon and the others keeps the           *)
(* invariant.                                                              *)
LEMMA NextIInv == IInv /\ [Next]_vars => IInv'
  <1> SUFFICES ASSUME IInv, [Next]_vars PROVE IInv'
    OBVIOUS
  <1>1. CASE Loop
    BY <1>1, PropertiesChangedIInv, RemovedIInv, InteractionIInv, RemovedWhileAskedIInv, SearchFinishedIInv,
       PruneFinishedIInv DEF Loop
  <1>2. CASE Command
    BY <1>2, MainIInv, AuthorizationIInv, ConnectIInv, RequestIInv, ReturnFromLoopIInv, CallsIInv DEF Command
  <1>3. CASE Daemon
    BY <1>3, JobStartsIInv, JobGoesOnIInv, JobReturnsIInv, TaskDeletedIInv, JobFinishedIInv DEF Daemon
  <1>4. CASE handler \/ Kill
    BY <1>4, DeathIInv
  <1>5. CASE CancelledByOther \/ ReplyFromOther \/ TaskWaits \/ OtherTask \/ Stop
    BY <1>5, CancelledByOtherIInv, ReplyFromOtherIInv, TaskWaitsIInv, OtherTaskIInv, TaskDeletedIInv
  <1>6. CASE UNCHANGED vars
    <2>1. cli' = cli /\ matches' = matches /\ inbox' = inbox /\ pkg' = pkg /\ seen' = seen
      BY <1>6 DEF vars
    <2>2. DaemonInv' /\ Forward
      BY <2>1 DEF IInv, DaemonInv, TaskTells, Forward
    <2> QED
      BY <2>1, <2>2, SilentIInv
  <1> QED
    BY <1>1, <1>2, <1>3, <1>4, <1>5, <1>6 DEF Next

(* The inductive invariant holds in every reachable state. *)
LEMMA Always == Spec => []IInv
  BY InitIInv, NextIInv, PTL DEF Spec

(* What ll-cli tells: an exit status of 0 of a task command is given only  *)
(* for a task all of whose parts were completed, a client that heard of    *)
(* the success of its task gives no other, and 0 from search means that    *)
(* the daemon did the search; whatever signals, cancels, stops and         *)
(* messages about other tasks come between.                                *)
THEOREM ClientTellsTheTruth == Spec => []ExitCodeTells
  <1>1. IInv => ExitCodeTells
    BY DEF IInv, EndInv
  <1> QED
    BY <1>1, Always, PTL

(* What ll-cli leaves behind: no task goes on unwanted after it has        *)
(* returned, and it dies only of a signal, of somebody else's cancel or of *)
(* a failed prune.                                                         *)
THEOREM ClientLeavesClean == Spec => []LeavesClean
  <1>1. IInv => LeavesClean
    <2> SUFFICES ASSUME IInv PROVE LeavesClean
      OBVIOUS
    <2>1. TypeOK
      BY DEF IInv, DaemonInv, ClientInv, InboxInv, TypeOK, ClientRecord
    <2> QED
      BY <2>1 DEF IInv, EndInv, LeavesClean
  <1> QED
    BY <1>1, Always, PTL

(* What a job that has asked was replied is what its own user said, unless *)
(* another client replied.                                                 *)
ConsentInv ==
    /\ pkg.at \in {"none", "queued", "asking"} => pkg.reply = "none"
    /\ pkg.at = "answered" => seen.outside \/ pkg.reply \in seen.said

(* A step that leaves the job at its place, or moves it past its question. *)
LEMMA ConsentKept ==
    ASSUME ConsentInv, pkg'.at = pkg.at \/ pkg'.at \in {"working", "over", "gone"}, pkg'.reply = pkg.reply,
           seen'.outside = seen.outside, seen'.said = seen.said
    PROVE  ConsentInv'
  BY DEF ConsentInv

(* A reply: of the client, to the question about its own task, or of       *)
(* somebody else while the job waits.                                      *)
LEMMA ConsentReplied ==
    ASSUME IInv, ConsentInv, NEW word \in {"yes", "no"},
           pkg' \in IF pkg.up THEN ReplyInteraction(word) ELSE {pkg},
           seen.outside => seen'.outside, seen.said \subseteq seen'.said,
           pkg.at \in {"asking", "answered"} => word \in seen'.said \/ seen'.outside
    PROVE  ConsentInv'
  <1>1. pkg \in [task : TaskRecord, at : {"none", "queued", "asking", "answered", "working", "over", "gone"},
                 reply : {"none", "yes", "no"}, jobs : SUBSET {"probe", "mine"}, up : BOOLEAN,
                 finished : SUBSET {"probe", "mine"}]
    BY DEF IInv, DaemonInv
  <1>2. CASE pkg' = pkg
    BY <1>2 DEF ConsentInv
  <1>3. CASE pkg' = [pkg EXCEPT !.up = FALSE]
    <2>1. pkg'.at = pkg.at /\ pkg'.reply = pkg.reply
      BY <1>1, <1>3
    <2> QED
      BY <2>1 DEF ConsentInv
  <1>4. CASE pkg.at \in {"asking", "answered"} /\ pkg' \in ReplyInteraction(word)
    <2>1. PICK w : w = IF cli.cmd = "file" /\ pkg.reply = "no" THEN pkg.reply ELSE word
      OBVIOUS
    <2>2. pkg' = [pkg EXCEPT !.at = "answered", !.reply = w]
      BY <1>1, <1>4, <2>1 DEF ReplyInteraction
    <2>3. pkg'.at = "answered" /\ pkg'.reply = w
      BY <1>1, <2>2
    <2>4. CASE w = word
      BY <1>4, <2>3, <2>4 DEF ConsentInv
    <2>5. CASE pkg.reply = "no" /\ w = "no"
      BY <1>4, <2>3, <2>5 DEF ConsentInv
    <2> QED
      BY <2>1, <2>4, <2>5
  <1>5. CASE pkg.at \notin {"asking", "answered"} /\ pkg' \in ReplyInteraction(word)
    BY <1>2, <1>3, <1>5 DEF ReplyInteraction
  <1> QED
    BY <1>2, <1>4, <1>5

(* Every step keeps it. *)
LEMMA ConsentNext == IInv /\ ConsentInv /\ [Next]_vars => ConsentInv'
  <1> SUFFICES ASSUME IInv, ConsentInv, [Next]_vars PROVE ConsentInv'
    OBVIOUS
  <1>0. /\ pkg \in [task : TaskRecord, at : {"none", "queued", "asking", "answered", "working", "over", "gone"},
                    reply : {"none", "yes", "no"}, jobs : SUBSET {"probe", "mine"}, up : BOOLEAN,
                    finished : SUBSET {"probe", "mine"}]
        /\ seen \in SeenRecord
    BY DEF IInv, DaemonInv
  <1>1. CASE Loop \/ handler
    <2>1. pkg' = pkg /\ seen' = seen
      BY <1>1 DEF handler, Loop, onTaskPropertiesChanged, onTaskRemoved, interaction,
         RemovedWhileAsked, onSearchFinished, onPruneFinished
    <2> QED
      BY <2>1 DEF ConsentInv
  <1>2. CASE Kill \/ OtherTask
    <2>1. pkg' = pkg /\ seen'.outside = seen.outside /\ seen'.said = seen.said
      BY <1>0, <1>2 DEF Kill, OtherTask, SeenRecord
    <2> QED
      BY <2>1 DEF ConsentInv
  <1>3. CASE request
    <2>1. PICK answer \in Answers :
          IF answer = "abort"
            THEN /\ seen' = [seen EXCEPT !.killed = TRUE]
                 /\ UNCHANGED pkg
            ELSE /\ pkg' \in IF pkg.up THEN ReplyInteraction(answer) ELSE {pkg}
                 /\ seen' = [seen EXCEPT !.said = IF cli.asked = "mine" THEN @ \cup {answer} ELSE @]
      BY <1>3 DEF request
    <2>2. cli.asked = "mine" /\ answer \in {"yes", "no", "abort"}
      BY <1>3, AnswersAre DEF request, IInv, ClientInv
    <2>3. CASE answer = "abort"
      <3>1. pkg' = pkg /\ seen'.outside = seen.outside /\ seen'.said = seen.said
        BY <1>0, <2>1, <2>3 DEF SeenRecord
      <3> QED
        BY <3>1 DEF ConsentInv
    <2>4. CASE answer # "abort"
      <3>1. seen'.outside = seen.outside /\ seen'.said = seen.said \cup {answer}
        BY <1>0, <2>1, <2>2, <2>4 DEF SeenRecord
      <3> QED
        BY <2>1, <2>2, <2>4, <3>1, ConsentReplied
    <2> QED
      BY <2>3, <2>4
  <1>4. CASE ReplyFromOther
    <2>1. PICK word \in {"yes", "no"} : pkg.up /\ pkg' \in ReplyInteraction(word)
      BY <1>4 DEF ReplyFromOther
    <2>2. /\ seen.outside => seen'.outside
          /\ pkg.at \in {"asking", "answered"} => seen'.outside
          /\ seen'.said = seen.said
      BY <1>0, <1>4 DEF ReplyFromOther, SeenRecord
    <2> QED
      BY <2>1, <2>2, ConsentReplied
  <1>5. CASE main \/ authorization \/ Connect \/ ReturnFromLoop
    <2>1. pkg'.at = pkg.at /\ pkg'.reply = pkg.reply /\ seen' = seen
      <3>1. \A c : cancelCurrentTask(c).at = pkg.at /\ cancelCurrentTask(c).reply = pkg.reply
        BY <1>0 DEF cancelCurrentTask
      <3> QED
        BY <1>0, <1>5, <3>1 DEF main, authorization, runningAsRoot, Connect, ReturnFromLoop, Return, ReturnAs
    <2> QED
      BY <2>1, ConsentKept
  <1>6. CASE install \/ installFromFile \/ upgrade \/ uninstall \/ prune \/ search
    <2>1. cli.at = "call" /\ seen' = seen
      BY <1>6 DEF install, installFromFile, upgrade, uninstall, prune, search, Calls, Return, ReturnAs
    <2>2. pkg.at = "none"
      BY <2>1 DEF IInv, ClientInv, Early
    <2>3. pkg.reply = "none"
      BY <2>2 DEF ConsentInv
    <2>4. \A c : cancelCurrentTask(c).at = pkg.at /\ cancelCurrentTask(c).reply = pkg.reply
      BY <1>0 DEF cancelCurrentTask
    <2>5. \A refs : NewTaskOf(refs).at = "queued" /\ NewTaskOf(refs).reply = pkg.reply
      BY <1>0 DEF NewTaskOf
    <2>6. NewJob.at = pkg.at /\ NewJob.reply = pkg.reply
      BY <1>0 DEF NewJob
    <2>7. \/ \E c : pkg' = cancelCurrentTask(c)
          \/ \E refs : pkg' = NewTaskOf(refs)
          \/ pkg' = NewJob
      BY <1>6 DEF install, installFromFile, upgrade, uninstall, prune, search, Calls, Return, ReturnAs
    <2>8. pkg'.at \in {"none", "queued"} /\ pkg'.reply = "none"
      BY <2>2, <2>3, <2>4, <2>5, <2>6, <2>7
    <2> QED
      BY <2>8 DEF ConsentInv
  <1>7. CASE JobStarts
    <2>1. /\ pkg.at = "queued" /\ pkg'.at \in {"asking", "working"} /\ pkg'.reply = pkg.reply
      BY <1>0, <1>7 DEF JobStarts
    <2> QED
      BY <2>1 DEF ConsentInv
  <1>8. CASE JobGoesOn \/ JobReturns \/ TaskDeleted
    <2>1. pkg'.at \in {"working", "over", "gone"} /\ pkg'.reply = pkg.reply /\ seen' = seen
      BY <1>0, <1>8 DEF JobGoesOn, JobReturns, TaskDeleted
    <2> QED
      BY <2>1, ConsentKept
  <1>9. CASE JobFinished \/ CancelledByOther \/ TaskWaits \/ Stop
    <2>1. /\ pkg'.at = pkg.at /\ pkg'.reply = pkg.reply
          /\ seen'.outside = seen.outside /\ seen'.said = seen.said
      BY <1>0, <1>9 DEF JobFinished, CancelledByOther, TaskWaits, Stop, SeenRecord
    <2> QED
      BY <2>1, ConsentKept
  <1>10. CASE UNCHANGED vars
    BY <1>10 DEF vars, ConsentInv
  <1> QED
    BY <1>1, <1>2, <1>3, <1>4, <1>5, <1>6, <1>7, <1>8, <1>9, <1>10 DEF Next, Command, Daemon

(* A job that asked goes on with what its own user said to its own         *)
(* question, whatever signals, cancels and questions about other tasks     *)
(* come between: the client puts no question but that of its own task, and *)
(* only a reply of another client while the job waits may be taken for it. *)
THEOREM ClientConsentIsOwn == Spec => ConsentIsOwn
  <1>1. Init => ConsentInv
    <2> SUFFICES ASSUME Init PROVE ConsentInv
      OBVIOUS
    <2>1. pkg = [task |-> NoTask, at |-> "none", reply |-> "none", jobs |-> {}, up |-> TRUE, finished |-> {}]
      BY DEF Init
    <2>2. pkg.at = "none" /\ pkg.reply = "none"
      BY <2>1
    <2> QED
      BY <2>2 DEF ConsentInv
  <1>2. Spec => []ConsentInv
    BY <1>1, ConsentNext, Always, PTL DEF Spec
  <1>3. ConsentInv => [pkg.at = "answered" /\ pkg'.at = "working" => seen.outside \/ pkg.reply \in seen.said]_vars
    BY DEF ConsentInv
  <1> QED
    BY <1>2, <1>3, PTL DEF ConsentIsOwn

-----------------------------------------------------------------------------
(* ll-builder: the inductive invariant                                     *)

Keys == Projects \X ModNames
Pulled == {"binary", "develop"}
Kept == {"binary", "runtime", "develop"}
Layers == [build : -1 .. MaxProcs, files : SUBSET Files]
Refs == [layers : [Keys -> Layers], deps : SUBSET (Deps \X Versions \X Kept)]
Lists == [layers : [Keys -> Layers], deps : SUBSET (Deps \X Versions \X Kept), merged : SUBSET (Deps \X Versions)]
Outputs == [dir : SUBSET Files, mods : [ModNames -> SUBSET Files], yaml : SUBSET ModNames]

(* A list, of whoever: its merged records are of dependencies it has both  *)
(* modules of.                                                             *)
GoodList(l) == l \in Lists /\ l.merged \subseteq Mergeable(l)

(* The modules of a project in a list are of one build. *)
OfOneBuild(l, j) == \E b \in -1 .. MaxProcs : \A n \in ModNames : l.layers[Ref(j, n)].build \in {0, b}

Spoilt(j) == \E q \in Procs : proc[q].rebuilt \/ (proc[q].proj = j /\ (proc[q].spared \/ proc[q].imported))

Stages == {"none", "fetch", "deps", "merge", "record", "dir", "ready", "container", "install", "split", "entries",
           "clear", "commit", "merge_end", "record_end", "list", "layer", "push", "poll", "import", "remove",
           "over", "killed", "dead"}
Working == Stages \ (Stopped \cup {"none"})

ProcFields == {"at", "cmd", "proj", "cache", "dep", "ver", "mod", "dirs", "todo", "out", "made", "stuck",
               "spared", "imported", "skew", "left", "rebuilt", "code"}

ProcTyped(r) ==
    /\ DOMAIN r = ProcFields
    /\ r.at \in Stages /\ r.proj \in Projects /\ GoodList(r.cache)
    /\ r.dep \in 1 .. Len(DepsOf(r.proj)) /\ r.mod \in Pulled
    /\ DOMAIN r.dirs = Deps
    /\ r.todo \in Seq(ModNames) /\ r.out \in Outputs /\ r.made \subseteq Files /\ r.stuck \subseteq Files
    /\ r.spared \in BOOLEAN /\ r.imported \in BOOLEAN /\ r.skew \in BOOLEAN /\ r.code \in {-1, 0}
    /\ r.left \in BOOLEAN /\ r.rebuilt \in BOOLEAN

(* Which command is at which stage. *)
StageOf(r) ==
    /\ r.at = "none" => ~r.spared /\ ~r.imported /\ ~r.skew /\ ~r.left /\ ~r.rebuilt
    /\ r.at \in Working => r.cmd \in Given /\ r.proj = r.cmd.proj /\ ~r.imported
    /\ r.at \in {"fetch", "install", "split", "entries", "clear", "commit"} => r.cmd.cmd = "build"
    /\ r.at \in {"merge_end", "record_end"} => r.cmd.cmd \in {"build", "remove"}
    /\ r.at \in {"deps", "dir", "ready"} => r.cmd.cmd \in {"build", "run", "uab"}
    /\ r.at \in {"merge", "record"} => r.cmd.cmd \in {"build", "run"}
    /\ r.at \in {"import", "layer", "push", "remove"} => r.cmd.cmd = r.at
    /\ r.at = "list" => r.cmd.cmd \in {"layer", "push", "remove"}
    /\ r.at = "poll" => r.cmd.cmd = "push" /\ r.todo # <<>>

(* develop is asked for after binary; a directory is looked for after the  *)
(* records were written, except for an export.                             *)
DepsInOrder(r) ==
    /\ r.at \in {"fetch", "merge", "record", "dir"} => r.mod = "binary"
    /\ r.at = "deps" /\ r.mod = "develop" =>
         /\ r.cmd.cmd = "build"
         /\ ~r.cmd.offline => HasMod(r.cache.deps, DepsOf(r.proj)[r.dep], r.ver, "binary")
    /\ r.at = "dir" /\ r.cmd.cmd # "uab" => r.cache.merged = Mergeable(r.cache)

(* While the files are shared out, and after. *)
Shared(r) ==
    /\ r.at \in {"fetch", "deps", "merge", "record", "dir", "ready", "container", "install"} =>
         \A n \in ModNames : r.out.mods[n] = {}
    /\ r.at = "install" => r.made \subseteq r.out.dir
    /\ r.at = "split" =>
         /\ ToSet(r.todo) \subseteq Wanted(r.cmd)
         /\ ~r.cmd.full => \A f \in r.out.dir : \A n \in ModNames : f \notin r.out.mods[n]
    /\ r.cmd.cmd = "build" /\ r.at \in {"split", "entries", "clear", "commit", "merge_end", "record_end"} =>
         /\ \A n \in ModNames : r.out.mods[n] # {} => n \in Wanted(r.cmd)
         /\ \A f \in r.made \ Links : \/ r.at = "split" /\ f \in r.out.dir
                                      \/ r.at # "split" /\ (f \notin r.cmd.listed \/ f \in r.stuck)
                                      \/ \E n \in ModNames : f \in r.out.mods[n]
         /\ ~r.cmd.full => \A n, m \in ModNames : n # m => r.out.mods[n] \cap r.out.mods[m] = {}

(* The old modules go before the new ones come. *)
Committed(p, r) ==
    LET layer(n) == r.cache.layers[Ref(r.proj, n)]
    IN  /\ r.at = "clear" /\ ~r.spared => \A n \in ModNames : layer(n) # NoLayer => n \in ToSet(r.todo)
        /\ r.at = "commit" =>
             /\ ToSet(r.todo) \subseteq Wanted(r.cmd)
             /\ ~r.spared => \A n \in ModNames : layer(n) # NoLayer =>
                               n \in r.out.yaml /\ n \in Wanted(r.cmd) /\ layer(n) = [build |-> p, files |-> r.out.mods[n]]
             /\ ~r.spared => \A n \in Wanted(r.cmd) : n \in ToSet(r.todo) \/ layer(n).build = p
        /\ r.at \in {"merge_end", "record_end"} /\ r.cmd.cmd = "build" /\ ~r.spared =>
             \A n \in ModNames : IF n \in Wanted(r.cmd) THEN layer(n) = [build |-> p, files |-> r.out.mods[n]]
                                 ELSE layer(n) = NoLayer

ProcInv(p, r) == ProcTyped(r) /\ StageOf(r) /\ DepsInOrder(r) /\ Shared(r) /\ Committed(p, r)

AllAlone == \A q \in Procs : alone[q]
NoSkew == remote["base"].main = "binary" /\ \A q \in Procs : ~proc[q].skew
DevelopHasBinary(l) ==
    \A v \in Versions : DepKey("base", v, "develop") \in l.deps => DepKey("base", v, "binary") \in l.deps
NoOldBase(l) == \A v \in Versions : DepKey("base", v, "runtime") \in l.deps => remote["base"].main = "runtime"

RepoTyped ==
    /\ GoodList(disk)
    /\ file \in {"whole", "short"} /\ (file = "short" => disk = NoList)
    /\ repo \in Refs
    /\ merged \subseteq Deps \X Versions
    /\ remote \in [Deps -> [v : Versions, main : Mains]]
    /\ alone \in [Procs -> BOOLEAN]
    /\ \A q \in Procs : proc[q].at = "none" => alone[q]

CopiesOfOneBuild ==
    \A j \in Projects : \/ Spoilt(j)
                        \/ OfOneBuild(disk, j) /\ \A q \in Procs : Live(q) => OfOneBuild(proc[q].cache, j)

(* No list has a dependency without its ref; an old base is only there     *)
(* when the server has one.                                                *)
RefsKept ==
    /\ disk.deps \subseteq repo.deps /\ \A q \in Procs : Live(q) => proc[q].cache.deps \subseteq repo.deps
    /\ remote["base"].v = 1 => remote["base"].main = "binary"
    /\ NoOldBase(repo)

(* What holds while commands follow one another: the list on disk is that  *)
(* of the command, unless it is short; a record has its directory; a ref   *)
(* is in the list, unless a pull was interrupted; a base has both modules. *)
TrueRecords ==
    /\ \A q \in Procs : Live(q) => (file = "whole" => proc[q].cache = disk) /\ proc[q].cache.merged \subseteq merged
    /\ \A q, o \in Procs : Live(q) /\ Live(o) => q = o
    /\ disk.merged \subseteq merged
    /\ \A q \in Procs : proc[q].at \in {"record", "record_end"} => Mergeable(proc[q].cache) \subseteq merged

ListedRefs ==
    \/ \E q \in Procs : proc[q].left
    \/ /\ file = "whole" => repo.deps \subseteq disk.deps
       /\ \A q \in Procs : Live(q) => repo.deps \subseteq proc[q].cache.deps

WholeBase ==
    NoSkew => /\ DevelopHasBinary(disk) /\ DevelopHasBinary(repo)
              /\ \A q \in Procs : Live(q) => DevelopHasBinary(proc[q].cache)
              /\ \A q \in Procs : proc[q].at # "dead"

Undisturbed == TrueRecords /\ ListedRefs /\ WholeBase

BuildInv ==
    /\ RepoTyped
    /\ DOMAIN proc = Procs
    /\ \A q \in Procs : ProcInv(q, proc[q])
    /\ CopiesOfOneBuild
    /\ RefsKept
    /\ AllAlone => Undisturbed

-----------------------------------------------------------------------------
(* Sequences and sets *)

(* What is in the set of a sequence. *)
LEMMA InToSet ==
    ASSUME NEW S, NEW s \in Seq(S), NEW x
    PROVE  x \in ToSet(s) <=> \E i \in 1 .. Len(s) : s[i] = x
<1>1. DOMAIN s = 1 .. Len(s)
  OBVIOUS
<1> QED BY <1>1, Zenon DEF ToSet

(* A sequence is its head and its tail. *)
LEMMA ToSetOfRest ==
    ASSUME NEW S, NEW s \in Seq(S), s # <<>>
    PROVE  /\ Head(s) \in S /\ Tail(s) \in Seq(S)
           /\ ToSet(s) = {Head(s)} \cup ToSet(Tail(s))
<1>1. Head(s) \in S /\ Tail(s) \in Seq(S) /\ Head(s) = s[1] /\ Len(s) >= 1 /\ Len(Tail(s)) = Len(s) - 1
  OBVIOUS
<1>2. \A i \in 1 .. Len(Tail(s)) : Tail(s)[i] = s[i + 1]
  BY <1>1
<1>3. ASSUME NEW x PROVE x \in ToSet(s) <=> x \in {Head(s)} \cup ToSet(Tail(s))
  <2>1. CASE x \in ToSet(s)
    <3>1. PICK i \in 1 .. Len(s) : s[i] = x
      BY <2>1, InToSet
    <3>2. CASE i = 1
      BY <2>1, <3>1, <3>2, <1>1
    <3>3. CASE i # 1
      <4>1. i - 1 \in 1 .. Len(Tail(s)) /\ Tail(s)[i - 1] = x
        BY <3>1, <3>3, <1>1, <1>2
      <4> QED BY <4>1, <2>1, <1>1, InToSet
    <3> QED BY <3>2, <3>3
  <2>2. CASE x = Head(s)
    BY <2>2, <1>1, InToSet
  <2>3. CASE x \in ToSet(Tail(s))
    <3>1. PICK i \in 1 .. Len(Tail(s)) : Tail(s)[i] = x
      BY <2>3, <1>1, InToSet
    <3>2. i + 1 \in 1 .. Len(s) /\ s[i + 1] = x
      BY <3>1, <1>1, <1>2
    <3> QED BY <3>2, <2>3, InToSet
  <2> QED BY <2>1, <2>2, <2>3
<1> QED BY <1>1, <1>3

(* Two sequences, one after the other, have what both have. *)
LEMMA ToSetOfConcat ==
    ASSUME NEW S, NEW s \in Seq(S), NEW t \in Seq(S)
    PROVE  s \o t \in Seq(S) /\ ToSet(s \o t) = ToSet(s) \cup ToSet(t)
<1>1. s \o t \in Seq(S) /\ Len(s \o t) = Len(s) + Len(t)
  OBVIOUS
<1>2. \A i \in 1 .. Len(s) : (s \o t)[i] = s[i]
  OBVIOUS
<1>3. \A i \in 1 .. Len(t) : (s \o t)[Len(s) + i] = t[i]
  OBVIOUS
<1>4. ASSUME NEW x PROVE x \in ToSet(s \o t) <=> x \in ToSet(s) \cup ToSet(t)
  <2>1. CASE x \in ToSet(s \o t)
    <3>1. PICK i \in 1 .. Len(s \o t) : (s \o t)[i] = x
      BY <2>1, <1>1, InToSet
    <3>2. CASE i <= Len(s)
      BY <2>1, <3>1, <3>2, <1>1, <1>2, InToSet
    <3>3. CASE i > Len(s)
      <4>1. i - Len(s) \in 1 .. Len(t) /\ t[i - Len(s)] = x
        BY <3>1, <3>3, <1>1, <1>3
      <4> QED BY <2>1, <4>1, InToSet
    <3> QED BY <3>2, <3>3, <1>1
  <2>2. CASE x \in ToSet(s)
    <3>1. PICK i \in 1 .. Len(s) : s[i] = x
      BY <2>2, InToSet
    <3>2. i \in 1 .. Len(s \o t) /\ (s \o t)[i] = x
      BY <3>1, <1>1, <1>2
    <3> QED BY <2>2, <3>2, <1>1, InToSet
  <2>3. CASE x \in ToSet(t)
    <3>1. PICK i \in 1 .. Len(t) : t[i] = x
      BY <2>3, InToSet
    <3>2. Len(s) + i \in 1 .. Len(s \o t) /\ (s \o t)[Len(s) + i] = x
      BY <3>1, <1>1, <1>3
    <3> QED BY <2>3, <3>2, <1>1, InToSet
  <2> QED BY <2>1, <2>2, <2>3
<1> QED BY <1>1, <1>4

(* A set made a sequence: nothing else is in it and nothing is left out. *)
LEMMA SetToSeqOfAll ==
    ASSUME NEW S, IsFiniteSet(S)
    PROVE  SetToSeq(S) \in Seq(S) /\ ToSet(SetToSeq(S)) = S
<1> DEFINE n == Cardinality(S)
<1>0. n \in Nat /\ IsFiniteSet(1 .. n) /\ Cardinality(1 .. n) = n
  BY FS_CardinalityType, FS_Interval
<1>1. PICK f \in [1 .. n -> S] : IsInjective(f)
  BY FS_CardinalityType DEF ExistsBijection, Bijection, Injection
<1>2. SetToSeq(S) \in [1 .. n -> S] /\ IsInjective(SetToSeq(S))
  BY <1>1 DEF SetToSeq
<1>3. PICK h : h = SetToSeq(S)
  OBVIOUS
<1>4. h \in Injection(1 .. n, S) /\ h \in [1 .. n -> S]
  BY <1>2, <1>3 DEF Injection
<1>5. h \in Surjection(1 .. n, S)
  BY <1>0, <1>4, FS_Injection
<1>6. h \in Seq(S) /\ Len(h) = n
  BY <1>4, <1>0
<1>7. ToSet(h) = S
  BY <1>4, <1>5, <1>6 DEF ToSet, Surjection
<1> QED BY <1>3, <1>6, <1>7

-----------------------------------------------------------------------------
(* A step of one command *)

(* A list with nothing in it. *)
LEMMA NoListIsGood ==
    /\ GoodList(NoList) /\ NoList.deps = {} /\ NoList.merged = {} /\ DevelopHasBinary(NoList)
    /\ \A j \in Projects : OfOneBuild(NoList, j)
<1>1. NoLayer \in Layers /\ NoLayer.build = 0 /\ 0 \in -1 .. MaxProcs
  BY BuilderAssumption DEF NoLayer, Layers
<1>2. NoList \in Lists /\ NoList.merged = {} /\ NoList.deps = {} /\ \A k \in Keys : NoList.layers[k] = NoLayer
  BY <1>1 DEF NoList, Lists, Keys
<1>3. \A j \in Projects, n \in ModNames : NoList.layers[Ref(j, n)].build = 0
  BY <1>1, <1>2 DEF Ref, Keys
<1>4. \A j \in Projects : OfOneBuild(NoList, j)
  BY <1>1, <1>3 DEF OfOneBuild
<1> QED BY <1>2, <1>4 DEF GoodList, DevelopHasBinary

(* A command that has ended, or has not begun, is typed and at no stage. *)
LEMMA EndedIsFine ==
    ASSUME NEW p \in Procs, NEW r, ProcTyped(r), NEW at \in Stopped, NEW code \in {-1, 0}
    PROVE  /\ ProcInv(p, Over(r, at, code))
           /\ Over(r, at, code).at = at /\ Over(r, at, code).proj = r.proj
           /\ Over(r, at, code).spared = r.spared /\ Over(r, at, code).skew = r.skew
           /\ Over(r, at, code).left = r.left /\ Over(r, at, code).rebuilt = r.rebuilt
           /\ Over(r, at, code).imported = (r.cmd.cmd = "import")
           /\ Over(r, at, code).code = code
<1>1. PICK o : o = Over(r, at, code)
  OBVIOUS
<1>2. /\ DOMAIN o = ProcFields /\ o.at = at /\ o.proj = r.proj /\ o.spared = r.spared /\ o.skew = r.skew
      /\ o.imported = (r.cmd.cmd = "import") /\ o.code = code /\ o.left = r.left /\ o.rebuilt = r.rebuilt
      /\ o.cmd = [cmd |-> "none"] /\ o.cache = NoList /\ o.dep = 1 /\ o.mod = "binary"
      /\ o.dirs = [d \in Deps |-> NoDir] /\ o.todo = <<>> /\ o.out = NoOut /\ o.made = {} /\ o.stuck = {}
  BY <1>1 DEF Over, NoProc, ProcFields
<1>5. NoOut \in Outputs
  BY DEF NoOut, Outputs
<1>6. o.at \in Stages /\ o.at \notin Working /\ o.at \notin {"deps", "dir", "fetch", "merge", "record"} 
  BY <1>2 DEF Stages, Working, Stopped
<1>7. ProcTyped(o)
  <2>1. 1 \in 1 .. Len(DepsOf(r.proj))
    BY DEF DepsOf
  <2>2. <<>> \in Seq(ModNames)
    OBVIOUS
  <2>3. r.proj \in Projects /\ r.spared \in BOOLEAN /\ r.skew \in BOOLEAN /\ r.left \in BOOLEAN /\ r.rebuilt \in BOOLEAN
    BY DEF ProcTyped
  <2>4. GoodList(NoList)
    BY NoListIsGood
  <2>5. o.imported \in BOOLEAN
    BY <1>2
  <2> QED BY <2>1, <2>2, <2>3, <2>4, <2>5, <1>2, <1>5, <1>6 DEF ProcTyped, Pulled
<1>8. o.at \in Stopped
  BY <1>2
<1>9. StageOf(o) /\ DepsInOrder(o)
  BY <1>6, <1>8 DEF StageOf, DepsInOrder, Stopped
<1>10. Shared(o) /\ Committed(p, o)
  BY <1>8 DEF Shared, Committed, Stopped
<1> QED BY <1>1, <1>2, <1>7, <1>9, <1>10 DEF ProcInv

(* What a step of a command never takes back. *)
Keeps(r2, r) ==
    /\ r2.proj = r.proj /\ (r.spared => r2.spared) /\ (r.skew => r2.skew)
    /\ (r.left => r2.left) /\ (r.rebuilt => r2.rebuilt)

(* What a step of a command may do to the refs: add dependencies, an old   *)
(* base only if the server has it, and a develop module of a base only     *)
(* when its binary module is there or the versions differ.                 *)
RefsGrow(r2) ==
    /\ repo' \in Refs /\ repo.deps \subseteq repo'.deps
    /\ \A v \in Versions : DepKey("base", v, "runtime") \in repo'.deps => remote["base"].main = "runtime"
    /\ AllAlone /\ NoSkew /\ ~r2.skew => DevelopHasBinary(repo')

(* It does so when it leaves them. *)
LEMMA SameRefs ==
    ASSUME BuildInv, repo' \in Refs, repo'.deps = repo.deps, NEW r2
    PROVE  RefsGrow(r2)
<1>1. AllAlone /\ NoSkew => DevelopHasBinary(repo)
  BY DEF BuildInv, Undisturbed, WholeBase
<1>2. NoOldBase(repo)
  BY DEF BuildInv, RefsKept
<1> QED BY <1>1, <1>2 DEF RefsGrow, NoOldBase, DevelopHasBinary

(* The other commands, and what has been, after a step of one. *)
LEMMA OthersStay ==
    ASSUME BuildInv, NEW p \in Procs, Live(p), NEW r2,
           proc' = [proc EXCEPT ![p] = r2], ProcInv(p, r2), r2.at # "none", Keeps(r2, proc[p]), remote' = remote
    PROVE  /\ DOMAIN proc' = Procs /\ proc'[p] = r2 /\ \A q \in Procs \ {p} : proc'[q] = proc[q]
           /\ \A q \in Procs : ProcInv(q, proc'[q])
           /\ \A q \in Procs : Live(q)' => Live(q)
           /\ Live(p)' => r2.at \in Working
           /\ \A j \in Projects : Spoilt(j) => Spoilt(j)'
           /\ (\E q \in Procs : proc[q].left) => \E q \in Procs : proc'[q].left
           /\ NoSkew' => NoSkew /\ ~r2.skew
<1>1. DOMAIN proc = Procs /\ \A q \in Procs : ProcInv(q, proc[q])
  BY DEF BuildInv
<1>2. DOMAIN proc' = Procs /\ proc'[p] = r2 /\ \A q \in Procs \ {p} : proc'[q] = proc[q]
  BY <1>1
<1>3. \A q \in Procs : ProcInv(q, proc'[q])
  BY <1>1, <1>2
<1>4. ~proc[p].imported
  BY <1>1 DEF ProcInv, StageOf, ProcTyped, Live, Working
<1>5. \A q \in Procs : proc[q].at \in Stages /\ proc'[q].at \in Stages
  BY <1>1, <1>3 DEF ProcInv, ProcTyped
<1>6. (\A q \in Procs : Live(q)' => Live(q)) /\ (Live(p)' => r2.at \in Working)
  BY <1>2, <1>5 DEF Live, Working
<1>7. \A j \in Projects : Spoilt(j) => Spoilt(j)'
  BY <1>2, <1>4 DEF Spoilt, Keeps
<1>8. (\E q \in Procs : proc[q].left) => \E q \in Procs : proc'[q].left
  BY <1>2 DEF Keeps
<1>9. NoSkew' => NoSkew /\ ~r2.skew
  BY <1>2 DEF NoSkew, Keeps
<1> QED BY <1>2, <1>3, <1>6, <1>7, <1>8, <1>9

(* What a step keeps that does not touch the list. *)
LEMMA RefsStep ==
    ASSUME BuildInv, NEW p \in Procs, Live(p), NEW r2,
           proc' = [proc EXCEPT ![p] = r2], ProcInv(p, r2), r2.at # "none",
           UNCHANGED <<disk, file, remote, alone>>, RefsGrow(r2), repo'.deps = repo.deps \/ r2.left,
           merged \subseteq merged', merged' \subseteq Deps \X Versions, Keeps(r2, proc[p]),
           r2.at \in Working => r2.cache = proc[p].cache,
           r2.at \in {"record", "record_end"} => (AllAlone => Mergeable(proc[p].cache) \subseteq merged'),
           r2.at = "dead" => ~(AllAlone /\ NoSkew)
    PROVE  BuildInv'
<1>2. DOMAIN proc' = Procs /\ proc'[p] = r2 /\ \A q \in Procs \ {p} : proc'[q] = proc[q]
  BY OthersStay
<1>3. \A q \in Procs : ProcInv(q, proc'[q])
  BY OthersStay
<1>5. (\A q \in Procs : Live(q)' => Live(q)) /\ (Live(p)' => r2.at \in Working)
  BY OthersStay
<1>6. \A q \in Procs : Live(q)' => Live(q) /\ proc'[q].cache = proc[q].cache
  BY <1>2, <1>5
<1>7. RepoTyped'
  BY <1>2 DEF BuildInv, RepoTyped, RefsGrow
<1>8. \A j \in Projects : Spoilt(j) => Spoilt(j)'
  BY OthersStay
<1>9. CopiesOfOneBuild'
  <2>1. ASSUME NEW j \in Projects PROVE Spoilt(j)' \/ (OfOneBuild(disk', j) /\ \A q \in Procs : Live(q)' => OfOneBuild(proc'[q].cache, j))
    <3>1. CASE Spoilt(j)
      BY <3>1, <1>8
    <3>2. CASE OfOneBuild(disk, j) /\ \A q \in Procs : Live(q) => OfOneBuild(proc[q].cache, j)
      BY <3>2, <1>6, Zenon
    <3> QED BY <3>1, <3>2 DEF BuildInv, CopiesOfOneBuild
  <2> QED BY <2>1 DEF CopiesOfOneBuild
<1>10. RefsKept'
  <2>1. disk'.deps \subseteq repo'.deps /\ \A q \in Procs : Live(q)' => proc'[q].cache.deps \subseteq repo'.deps
    BY <1>6 DEF BuildInv, RefsKept, RefsGrow
  <2>2. NoOldBase(repo)'
    BY DEF RefsGrow, NoOldBase
  <2> QED BY <2>1, <2>2 DEF BuildInv, RefsKept
<1>11. ASSUME AllAlone' PROVE Undisturbed'
  <2>1. AllAlone
    BY <1>11 DEF AllAlone
  <2>2. TrueRecords /\ ListedRefs /\ WholeBase
    BY <2>1 DEF BuildInv, Undisturbed
  <2>3. TrueRecords'
    <3>1. \A q \in Procs : Live(q)' => (file' = "whole" => proc'[q].cache = disk') /\ proc'[q].cache.merged \subseteq merged'
      BY <2>2, <1>6 DEF TrueRecords
    <3>2. \A q, o \in Procs : Live(q)' /\ Live(o)' => q = o
      BY <2>2, <1>6 DEF TrueRecords
    <3>3. disk'.merged \subseteq merged'
      BY <2>2 DEF TrueRecords
    <3>4. \A q \in Procs : proc'[q].at \in {"record", "record_end"} => Mergeable(proc'[q].cache) \subseteq merged'
      <4>1. r2.at \in {"record", "record_end"} => r2.cache = proc[p].cache
        BY DEF Working, Stages, Stopped
      <4> QED BY <2>1, <2>2, <4>1, <1>2 DEF TrueRecords
    <3> QED BY <3>1, <3>2, <3>3, <3>4 DEF TrueRecords
  <2>4. ListedRefs'
    <3>1. CASE r2.left
      BY <3>1, <1>2 DEF ListedRefs
    <3>2. CASE repo'.deps = repo.deps
      <4>1. CASE \E q \in Procs : proc[q].left
        BY <4>1, OthersStay DEF ListedRefs
      <4>2. CASE (file = "whole" => repo.deps \subseteq disk.deps) /\ \A q \in Procs : Live(q) => repo.deps \subseteq proc[q].cache.deps
        BY <3>2, <4>2, <1>6 DEF ListedRefs
      <4> QED BY <4>1, <4>2, <2>2 DEF ListedRefs
    <3> QED BY <3>1, <3>2
  <2>5. WholeBase'
    <3> SUFFICES ASSUME NoSkew'
                 PROVE  /\ DevelopHasBinary(disk') /\ DevelopHasBinary(repo')
                        /\ \A q \in Procs : Live(q)' => DevelopHasBinary(proc'[q].cache)
                        /\ \A q \in Procs : proc'[q].at # "dead"
      BY DEF WholeBase
    <3>1. NoSkew /\ ~r2.skew
      BY OthersStay
    <3>2. DevelopHasBinary(disk') /\ DevelopHasBinary(repo')
      BY <2>1, <2>2, <3>1 DEF WholeBase, RefsGrow
    <3>3. \A q \in Procs : Live(q)' => DevelopHasBinary(proc'[q].cache)
      BY <2>2, <3>1, <1>6 DEF WholeBase
    <3>4. \A q \in Procs : proc'[q].at # "dead"
      BY <2>1, <2>2, <3>1, <1>2 DEF WholeBase
    <3> QED BY <3>2, <3>3, <3>4
  <2> QED BY <2>3, <2>4, <2>5 DEF Undisturbed
<1> QED BY <1>2, <1>3, <1>7, <1>9, <1>10, <1>11 DEF BuildInv

(* The refs of the dependencies stay as well. *)
LEMMA QuietStep ==
    ASSUME BuildInv, NEW p \in Procs, Live(p), NEW r2,
           proc' = [proc EXCEPT ![p] = r2], ProcInv(p, r2), r2.at # "none",
           UNCHANGED <<disk, file, remote, alone>>, repo' \in Refs, repo'.deps = repo.deps,
           merged \subseteq merged', merged' \subseteq Deps \X Versions, Keeps(r2, proc[p]),
           r2.at \in Working => r2.cache = proc[p].cache,
           r2.at \in {"record", "record_end"} => (AllAlone => Mergeable(proc[p].cache) \subseteq merged'),
           r2.at = "dead" => ~(AllAlone /\ NoSkew)
    PROVE  BuildInv'
  BY SameRefs, RefsStep

(* What a step keeps that writes the list c. *)
LEMMA SaveStep ==
    ASSUME BuildInv, NEW p \in Procs, Live(p), NEW r2, NEW c,
           proc' = [proc EXCEPT ![p] = r2], ProcInv(p, r2), r2.at # "none", Written(c),
           UNCHANGED <<remote, alone>>, GoodList(c), merged' \subseteq Deps \X Versions, Keeps(r2, proc[p]),
           RefsGrow(r2), c.deps \subseteq repo'.deps, repo.deps \subseteq proc[p].cache.deps => repo'.deps \subseteq c.deps,
           r2.at \in Working => r2.cache = c,
           r2.at \notin {"record", "record_end", "dead"},
           \A j \in Projects : OfOneBuild(proc[p].cache, j) =>
                                 OfOneBuild(c, j) \/ (j = r2.proj /\ (r2.spared \/ r2.imported)),
           AllAlone /\ Undisturbed => c.merged \subseteq merged',
           AllAlone /\ Undisturbed /\ NoSkew /\ ~r2.skew => DevelopHasBinary(c)
    PROVE  BuildInv'
<1>1. \/ disk' = c /\ file' = "whole"
      \/ disk' = NoList /\ file' = "short"
  BY DEF Written
<1>2. DOMAIN proc' = Procs /\ proc'[p] = r2 /\ \A q \in Procs \ {p} : proc'[q] = proc[q]
  BY OthersStay
<1>3. \A q \in Procs : ProcInv(q, proc'[q])
  BY OthersStay
<1>5. (\A q \in Procs : Live(q)' => Live(q)) /\ (Live(p)' => r2.at \in Working)
  BY OthersStay
<1>6. \A q \in Procs : Live(q)' => Live(q) /\ proc'[q].cache = IF q = p THEN c ELSE proc[q].cache
  BY <1>2, <1>5
<1>7. RepoTyped'
  <2>1. GoodList(disk') /\ file' \in {"whole", "short"} /\ (file' = "short" => disk' = NoList)
    BY <1>1, NoListIsGood
  <2> QED BY <2>1, <1>2 DEF BuildInv, RepoTyped, RefsGrow
<1>8. \A j \in Projects : Spoilt(j) => Spoilt(j)'
  BY OthersStay
<1>9. CopiesOfOneBuild'
  <2>1. ASSUME NEW j \in Projects PROVE Spoilt(j)' \/ (OfOneBuild(disk', j) /\ \A q \in Procs : Live(q)' => OfOneBuild(proc'[q].cache, j))
    <3>1. CASE Spoilt(j)
      BY <3>1, <1>8
    <3>2. CASE OfOneBuild(disk, j) /\ \A q \in Procs : Live(q) => OfOneBuild(proc[q].cache, j)
      <4>1. CASE OfOneBuild(c, j)
        <5>1. OfOneBuild(disk', j)
          BY <4>1, <1>1, NoListIsGood
        <5> QED BY <3>2, <4>1, <5>1, <1>6
      <4>2. CASE j = r2.proj /\ (r2.spared \/ r2.imported)
        BY <4>2, <1>2 DEF Spoilt
      <4> QED BY <3>2, <4>1, <4>2
    <3> QED BY <3>1, <3>2 DEF BuildInv, CopiesOfOneBuild
  <2> QED BY <2>1 DEF CopiesOfOneBuild
<1>10. RefsKept'
  <2>1. disk'.deps \subseteq repo'.deps
    BY <1>1, NoListIsGood
  <2>2. \A q \in Procs : Live(q)' => proc'[q].cache.deps \subseteq repo'.deps
    BY <1>6 DEF BuildInv, RefsKept, RefsGrow
  <2>3. NoOldBase(repo)'
    BY DEF RefsGrow, NoOldBase
  <2> QED BY <2>1, <2>2, <2>3 DEF BuildInv, RefsKept
<1>11. ASSUME AllAlone' PROVE Undisturbed'
  <2>1. AllAlone
    BY <1>11 DEF AllAlone
  <2>2. Undisturbed /\ TrueRecords /\ ListedRefs /\ WholeBase
    BY <2>1 DEF BuildInv, Undisturbed
  <2>3. \A q \in Procs : Live(q)' => q = p /\ proc'[q].cache = c
    BY <2>2, <1>6 DEF TrueRecords
  <2>4. TrueRecords'
    <3>1. c.merged \subseteq merged' /\ disk'.merged \subseteq merged'
      BY <2>1, <2>2, <1>1, NoListIsGood
    <3>2. \A q \in Procs : Live(q)' => (file' = "whole" => proc'[q].cache = disk') /\ proc'[q].cache.merged \subseteq merged'
      BY <2>3, <3>1, <1>1
    <3>3. \A q \in Procs : proc'[q].at \notin {"record", "record_end"}
      BY <2>3, <1>2 DEF Live, Stopped
    <3> QED BY <2>3, <3>1, <3>2, <3>3 DEF TrueRecords
  <2>5. ListedRefs'
    <3>1. CASE \E q \in Procs : proc[q].left
      BY <3>1, OthersStay DEF ListedRefs
    <3>2. CASE \A q \in Procs : Live(q) => repo.deps \subseteq proc[q].cache.deps
      <4>1. repo'.deps \subseteq c.deps
        BY <3>2
      <4>2. file' = "whole" => repo'.deps \subseteq disk'.deps
        BY <4>1, <1>1
      <4> QED BY <4>1, <4>2, <2>3 DEF ListedRefs
    <3> QED BY <3>1, <3>2, <2>2 DEF ListedRefs
  <2>6. WholeBase'
    <3> SUFFICES ASSUME NoSkew'
                 PROVE  /\ DevelopHasBinary(disk') /\ DevelopHasBinary(repo')
                        /\ \A q \in Procs : Live(q)' => DevelopHasBinary(proc'[q].cache)
                        /\ \A q \in Procs : proc'[q].at # "dead"
      BY DEF WholeBase
    <3>1. NoSkew /\ ~r2.skew
      BY OthersStay
    <3>2. DevelopHasBinary(c)
      BY <2>1, <2>2, <3>1
    <3>3. DevelopHasBinary(disk') /\ DevelopHasBinary(repo')
      BY <2>1, <3>1, <3>2, <1>1, NoListIsGood DEF RefsGrow
    <3>4. \A q \in Procs : proc'[q].at # "dead"
      BY <2>2, <3>1, <1>2 DEF WholeBase
    <3> QED BY <3>2, <3>3, <3>4, <2>3
  <2> QED BY <2>4, <2>5, <2>6 DEF Undisturbed
<1> QED BY <1>2, <1>3, <1>7, <1>9, <1>10, <1>11 DEF BuildInv

(* The list that is written has the dependencies it had. *)
LEMMA LayerStep ==
    ASSUME BuildInv, NEW p \in Procs, Live(p), NEW r2, NEW c,
           proc' = [proc EXCEPT ![p] = r2], ProcInv(p, r2), r2.at # "none", Written(c),
           UNCHANGED <<remote, alone>>, GoodList(c), merged' \subseteq Deps \X Versions, Keeps(r2, proc[p]),
           repo' \in Refs, repo'.deps = repo.deps, c.deps = proc[p].cache.deps,
           r2.at \in Working => r2.cache = c,
           r2.at \notin {"record", "record_end", "dead"},
           \A j \in Projects : OfOneBuild(proc[p].cache, j) =>
                                 OfOneBuild(c, j) \/ (j = r2.proj /\ (r2.spared \/ r2.imported)),
           AllAlone /\ Undisturbed => c.merged \subseteq merged'
    PROVE  BuildInv'
<1>1. RefsGrow(r2)
  BY SameRefs
<1>2. c.deps \subseteq repo'.deps
  BY DEF BuildInv, RefsKept
<1>3. Undisturbed /\ NoSkew => DevelopHasBinary(c)
  BY DEF Undisturbed, WholeBase, DevelopHasBinary
<1> QED BY <1>1, <1>2, <1>3, SaveStep

(* The command ends, with the list as it is. *)
LEMMA EndStep ==
    ASSUME BuildInv, NEW p \in Procs, Live(p), NEW at \in Stopped, NEW code \in {-1, 0},
           proc' = [proc EXCEPT ![p] = Over(@, at, code)],
           UNCHANGED <<disk, file, merged, remote, alone>>, repo' \in Refs, repo'.deps = repo.deps,
           at = "dead" => ~(AllAlone /\ NoSkew)
    PROVE  BuildInv'
<1>1. DOMAIN proc = Procs /\ ProcTyped(proc[p]) /\ merged \subseteq Deps \X Versions
  BY DEF BuildInv, ProcInv, RepoTyped
<1>2. PICK r2 : r2 = Over(proc[p], at, code)
  OBVIOUS
<1>3. proc' = [proc EXCEPT ![p] = r2]
  BY <1>1, <1>2
<1>4. /\ ProcInv(p, r2) /\ r2.at = at /\ r2.proj = proc[p].proj /\ r2.spared = proc[p].spared /\ r2.skew = proc[p].skew
      /\ r2.left = proc[p].left /\ r2.rebuilt = proc[p].rebuilt
  BY <1>1, <1>2, EndedIsFine
<1>5. r2.at \notin Working \cup {"none", "record", "record_end"}
  BY <1>4 DEF Working, Stopped
<1>6. Keeps(r2, proc[p])
  BY <1>4 DEF Keeps
<1> QED BY <1>3, <1>4, <1>5, <1>6, <1>1, QuietStep

-----------------------------------------------------------------------------
(* The actions *)

(* r2 is r but for the fields of S. *)
Same(r2, r, S) == DOMAIN r2 = ProcFields /\ \A f \in ProcFields \ S : r2[f] = r[f]

(* What is known of a command at its stage. *)
LEMMA AtWork ==
    ASSUME BuildInv, NEW p \in Procs, proc[p].at \in Working
    PROVE  /\ Live(p) /\ ProcInv(p, proc[p]) /\ ProcTyped(proc[p]) /\ DOMAIN proc = Procs
           /\ proc[p].cmd \in Given /\ proc[p].proj = proc[p].cmd.proj /\ ~proc[p].imported
           /\ GoodList(disk) /\ repo \in Refs /\ merged \subseteq Deps \X Versions /\ remote \in [Deps -> [v : Versions, main : Mains]]
           /\ AllAlone => Undisturbed
  BY DEF BuildInv, ProcInv, StageOf, Live, Working, RepoTyped

(* A command at another stage is typed as before. *)
LEMMA MovedIsTyped ==
    ASSUME NEW r, ProcTyped(r), NEW at \in Stages
    PROVE  /\ Same([r EXCEPT !.at = at], r, {"at"}) /\ [r EXCEPT !.at = at].at = at
           /\ ProcTyped([r EXCEPT !.at = at])
<1>1. PICK r2 : r2 = [r EXCEPT !.at = at]
  OBVIOUS
<1>2. DOMAIN r = ProcFields
  BY DEF ProcTyped
<1>3. DOMAIN r2 = ProcFields /\ r2.at = at /\ \A f \in ProcFields \ {"at"} : r2[f] = r[f]
  BY <1>1, <1>2 DEF ProcFields
<1>4. /\ r2.proj = r.proj /\ r2.cache = r.cache /\ r2.dep = r.dep /\ r2.mod = r.mod /\ r2.dirs = r.dirs
      /\ r2.todo = r.todo /\ r2.out = r.out /\ r2.made = r.made /\ r2.stuck = r.stuck /\ r2.spared = r.spared
      /\ r2.imported = r.imported /\ r2.skew = r.skew /\ r2.code = r.code /\ r2.left = r.left /\ r2.rebuilt = r.rebuilt
  BY <1>3 DEF ProcFields
<1>5. ProcTyped(r2)
  BY <1>3, <1>4 DEF ProcTyped
<1> QED BY <1>1, <1>3, <1>5 DEF Same

(* The command goes on to another stage. *)
LEMMA MoveStep ==
    ASSUME BuildInv, NEW p \in Procs, proc[p].at \in Working, NEW at \in Working,
           proc' = [proc EXCEPT ![p].at = at], UNCHANGED <<disk, file, repo, remote, alone>>,
           merged \subseteq merged', merged' \subseteq Deps \X Versions,
           at \in {"record", "record_end"} => (AllAlone => Mergeable(proc[p].cache) \subseteq merged'),
           \A r2 : Same(r2, proc[p], {"at"}) /\ r2.at = at =>
                     StageOf(r2) /\ DepsInOrder(r2) /\ Shared(r2) /\ Committed(p, r2)
    PROVE  BuildInv'
<1>1. ProcTyped(proc[p]) /\ DOMAIN proc = Procs /\ Live(p) /\ repo \in Refs
  BY AtWork
<1>2. PICK r2 : r2 = [proc[p] EXCEPT !.at = at]
  OBVIOUS
<1>3. proc' = [proc EXCEPT ![p] = r2]
  BY <1>1, <1>2
<1>4. at \in Stages
  BY DEF Working
<1>5. Same(r2, proc[p], {"at"}) /\ r2.at = at /\ ProcTyped(r2)
  BY <1>1, <1>2, <1>4, MovedIsTyped
<1>6. ProcInv(p, r2)
  BY <1>5 DEF ProcInv
<1>7. Keeps(r2, proc[p]) /\ r2.cache = proc[p].cache
  BY <1>5 DEF Same, ProcFields, Keeps
<1>8. r2.at \notin {"none", "dead"}
  BY <1>5 DEF Working, Stopped
<1> QED BY <1>1, <1>3, <1>5, <1>6, <1>7, <1>8, QuietStep

(* After the sources come the dependencies, from the first. *)
LEMMA FetchKeeps ==
    ASSUME BuildInv, NEW p \in Procs, fetchSources(p)
    PROVE  BuildInv'
<1>1. proc[p].at = "fetch" /\ proc[p].at \in Working /\ "deps" \in Working
  BY DEF fetchSources, Working, Stages, Stopped
<1>2. ProcInv(p, proc[p]) /\ merged \subseteq Deps \X Versions
  BY <1>1, AtWork
<1>3. ASSUME NEW r2, Same(r2, proc[p], {"at"}), r2.at = "deps"
      PROVE  StageOf(r2) /\ DepsInOrder(r2) /\ Shared(r2) /\ Committed(p, r2)
  <2>1. /\ r2.proj = proc[p].proj /\ r2.cmd = proc[p].cmd /\ r2.mod = proc[p].mod /\ r2.out = proc[p].out
        /\ r2.imported = proc[p].imported
    BY <1>3 DEF Same, ProcFields
  <2>2. StageOf(r2)
    BY <2>1, <1>1, <1>2, <1>3 DEF ProcInv, StageOf, Working, Stages
  <2>3. DepsInOrder(r2)
    BY <2>1, <1>1, <1>2, <1>3 DEF ProcInv, DepsInOrder
  <2>4. Shared(r2) /\ Committed(p, r2)
    BY <2>1, <1>1, <1>2, <1>3 DEF ProcInv, Shared, Committed
  <2> QED BY <2>2, <2>3, <2>4
<1> QED BY <1>1, <1>2, <1>3, MoveStep DEF fetchSources, Go, Repository

(* After mergeModules whatever the list can have merged has a directory. *)
LEMMA MergeKeeps ==
    ASSUME BuildInv, NEW p \in Procs, mergeModules(p)
    PROVE  BuildInv'
<1> DEFINE at == IF proc[p].at = "merge" THEN "record" ELSE "record_end"
<1>1. proc[p].at \in {"merge", "merge_end"} /\ proc[p].at \in Working /\ at \in Working
  BY DEF mergeModules, Working, Stages, Stopped
<1>2. ProcInv(p, proc[p]) /\ merged \subseteq Deps \X Versions /\ (AllAlone => Undisturbed) /\ Live(p)
  BY <1>1, AtWork
<1>3. merged' = merged \cup (Mergeable(Cache(p)) \ Cache(p).merged)
  BY DEF mergeModules
<1>4. merged \subseteq merged' /\ merged' \subseteq Deps \X Versions
  BY <1>2, <1>3 DEF Mergeable
<1>5. AllAlone => Mergeable(proc[p].cache) \subseteq merged'
  BY <1>2, <1>3 DEF Undisturbed, TrueRecords, Cache
<1>6. ASSUME NEW r2, Same(r2, proc[p], {"at"}), r2.at = at
      PROVE  StageOf(r2) /\ DepsInOrder(r2) /\ Shared(r2) /\ Committed(p, r2)
  <2>1. /\ r2.proj = proc[p].proj /\ r2.cmd = proc[p].cmd /\ r2.mod = proc[p].mod /\ r2.out = proc[p].out
        /\ r2.imported = proc[p].imported /\ r2.cache = proc[p].cache /\ r2.made = proc[p].made /\ r2.stuck = proc[p].stuck
        /\ r2.spared = proc[p].spared
    BY <1>6 DEF Same, ProcFields
  <2>2. StageOf(r2)
    BY <2>1, <1>1, <1>2, <1>6 DEF ProcInv, StageOf
  <2>3. DepsInOrder(r2)
    BY <2>1, <1>1, <1>2, <1>6 DEF ProcInv, DepsInOrder
  <2>4. Shared(r2)
    BY <2>1, <1>1, <1>2, <1>6 DEF ProcInv, Shared
  <2>5. Committed(p, r2)
    BY <2>1, <1>1, <1>2, <1>6 DEF ProcInv, Committed
  <2> QED BY <2>2, <2>3, <2>4, <2>5
<1> QED BY <1>1, <1>2, <1>4, <1>5, <1>6, MoveStep DEF mergeModules, Go

(* When no module is left to commit, each that is wanted is in the list,   *)
(* from this build, and no other is.                                       *)
LEMMA CommittedKeeps ==
    ASSUME BuildInv, NEW p \in Procs, committed(p)
    PROVE  BuildInv'
<1>1. proc[p].at = "commit" /\ proc[p].todo = <<>> /\ proc[p].at \in Working /\ "merge_end" \in Working
  BY DEF committed, Working, Stages, Stopped
<1>2. ProcInv(p, proc[p]) /\ merged \subseteq Deps \X Versions
  BY <1>1, AtWork
<1>3. ToSet(proc[p].todo) = {}
  BY <1>1 DEF ToSet
<1>4. p # 0
  BY BuilderAssumption DEF Procs
<1>5. ASSUME NEW r2, Same(r2, proc[p], {"at"}), r2.at = "merge_end"
      PROVE  StageOf(r2) /\ DepsInOrder(r2) /\ Shared(r2) /\ Committed(p, r2)
  <2>1. /\ r2.proj = proc[p].proj /\ r2.cmd = proc[p].cmd /\ r2.mod = proc[p].mod /\ r2.out = proc[p].out
        /\ r2.imported = proc[p].imported /\ r2.cache = proc[p].cache /\ r2.made = proc[p].made /\ r2.stuck = proc[p].stuck
        /\ r2.spared = proc[p].spared
    BY <1>5 DEF Same, ProcFields
  <2>2. StageOf(r2)
    BY <2>1, <1>1, <1>2, <1>5 DEF ProcInv, StageOf
  <2>3. DepsInOrder(r2)
    BY <2>1, <1>1, <1>2, <1>5 DEF ProcInv, DepsInOrder
  <2>4. Shared(r2)
    BY <2>1, <1>1, <1>2, <1>5 DEF ProcInv, Shared
  <2>5. Committed(p, r2)
    <3> SUFFICES ASSUME ~r2.spared, NEW n \in ModNames
                 PROVE  IF n \in Wanted(r2.cmd)
                          THEN r2.cache.layers[Ref(r2.proj, n)] = [build |-> p, files |-> r2.out.mods[n]]
                          ELSE r2.cache.layers[Ref(r2.proj, n)] = NoLayer
      BY <1>5 DEF Committed
    <3>1. Committed(p, proc[p])
      BY <1>2 DEF ProcInv
    <3>2. CASE n \in Wanted(r2.cmd)
      <4>1. r2.cache.layers[Ref(r2.proj, n)].build = p
        BY <3>1, <3>2, <2>1, <1>1, <1>3 DEF Committed
      <4>2. r2.cache.layers[Ref(r2.proj, n)] # NoLayer
        BY <4>1, <1>4 DEF NoLayer
      <4> QED BY <3>1, <3>2, <4>2, <2>1, <1>1 DEF Committed
    <3>3. CASE n \notin Wanted(r2.cmd)
      BY <3>1, <3>3, <2>1, <1>1 DEF Committed
    <3> QED BY <3>2, <3>3
  <2> QED BY <2>2, <2>3, <2>4, <2>5
<1> QED BY <1>1, <1>2, <1>5, MoveStep DEF committed, Go, Repository

(* A step that changes only what the command remembers of itself. *)
LEMMA OwnStep ==
    ASSUME BuildInv, NEW p \in Procs, proc[p].at \in Working, NEW r2,
           proc' = [proc EXCEPT ![p] = r2], UNCHANGED Repository,
           ProcInv(p, r2), r2.at \in Working \ {"record", "record_end"},
           Keeps(r2, proc[p]), r2.cache = proc[p].cache
    PROVE  BuildInv'
<1>1. Live(p) /\ merged \subseteq Deps \X Versions /\ repo \in Refs
  BY AtWork
<1>2. r2.at \notin {"none", "dead", "record", "record_end"}
  BY DEF Working, Stopped
<1> QED BY <1>1, <1>2, QuietStep DEF Repository

(* main returns. *)
LEMMA ExitKeeps ==
    ASSUME BuildInv, NEW p \in Procs, proc[p].at \in Working, NEW code \in {-1, 0}, Exit(p, code),
           UNCHANGED Repository
    PROVE  BuildInv'
<1>1. Live(p) /\ repo \in Refs
  BY AtWork
<1>2. "over" \in Stopped
  BY DEF Stopped
<1> QED BY <1>1, <1>2, EndStep DEF Exit, Repository

(* A step fails. *)
LEMMA FailsKeeps ==
    ASSUME BuildInv, NEW p \in Procs, proc[p].at \in Fallible, Fails(p)
    PROVE  BuildInv'
<1>1. proc[p].at \in Working
  BY DEF Fallible, Working, Stages, Stopped
<1> QED BY <1>1, ExitKeeps DEF Fails

(* The command is killed, wherever it is. *)
LEMMA KilledKeeps ==
    ASSUME BuildInv, NEW p \in Procs, Killed(p)
    PROVE  BuildInv'
<1>1. "killed" \in Stopped
  BY DEF Stopped
<1>2. repo \in Refs
  BY DEF BuildInv, RepoTyped
<1> QED BY <1>1, <1>2, EndStep DEF Killed, Repository

(* What an earlier output leaves behind is in no module yet. *)
LEMMA PrepareKeeps ==
    ASSUME BuildInv, NEW p \in Procs, prepare(p)
    PROVE  BuildInv'
<1>1. proc[p].at = "ready" /\ proc[p].cmd.cmd = "build" /\ proc[p].at \in Working /\ "container" \in Working
  BY DEF prepare, Working, Stages, Stopped
<1>2. ProcInv(p, proc[p]) /\ merged \subseteq Deps \X Versions /\ ProcTyped(proc[p]) /\ DOMAIN proc = Procs
  BY <1>1, AtWork
<1>3. CASE Exit(p, 0)
  BY <1>1, <1>3, ExitKeeps DEF prepare
<1>4. CASE Go(p, "container")
  <2>1. ASSUME NEW r2, Same(r2, proc[p], {"at"}), r2.at = "container"
        PROVE  StageOf(r2) /\ DepsInOrder(r2) /\ Shared(r2) /\ Committed(p, r2)
    <3>1. r2.proj = proc[p].proj /\ r2.cmd = proc[p].cmd /\ r2.out = proc[p].out /\ r2.imported = proc[p].imported
      BY <2>1 DEF Same, ProcFields
    <3>2. StageOf(r2)
      BY <3>1, <2>1, <1>1, <1>2 DEF ProcInv, StageOf
    <3>3. DepsInOrder(r2) /\ Shared(r2) /\ Committed(p, r2)
      BY <3>1, <2>1, <1>1, <1>2 DEF ProcInv, DepsInOrder, Shared, Committed
    <3> QED BY <3>2, <3>3
  <2> QED BY <1>1, <1>2, <1>4, <2>1, MoveStep DEF prepare, Go, Repository
<1>5. ASSUME NEW left \in {[NoOut EXCEPT !.dir = {"words"}], [NoOut EXCEPT !.yaml = {"binary"}]},
             proc' = [proc EXCEPT ![p].at = "container", ![p].out = left]
      PROVE  BuildInv'
  <2>1. left \in Outputs /\ \A n \in ModNames : left.mods[n] = {}
    BY <1>5 DEF NoOut, Outputs, Files, ModNames
  <2>2. PICK r2 : r2 = [proc[p] EXCEPT !.at = "container", !.out = left]
    OBVIOUS
  <2>3. proc' = [proc EXCEPT ![p] = r2]
    BY <1>2, <1>5, <2>2
  <2>4. /\ DOMAIN r2 = ProcFields /\ r2.at = "container" /\ r2.out = left
        /\ r2.cmd = proc[p].cmd /\ r2.proj = proc[p].proj /\ r2.cache = proc[p].cache /\ r2.dep = proc[p].dep
        /\ r2.mod = proc[p].mod /\ r2.dirs = proc[p].dirs /\ r2.todo = proc[p].todo /\ r2.made = proc[p].made /\ r2.stuck = proc[p].stuck
        /\ r2.spared = proc[p].spared /\ r2.imported = proc[p].imported /\ r2.skew = proc[p].skew /\ r2.code = proc[p].code /\ r2.left = proc[p].left /\ r2.rebuilt = proc[p].rebuilt
    BY <2>2, <1>2 DEF ProcTyped, ProcFields
  <2>5. ProcTyped(r2)
    BY <2>1, <2>4, <1>2 DEF ProcTyped, Stages
  <2>6. StageOf(r2)
    BY <2>4, <1>1, <1>2 DEF ProcInv, StageOf
  <2>7. DepsInOrder(r2) /\ Shared(r2) /\ Committed(p, r2)
    BY <2>1, <2>4, <1>1 DEF DepsInOrder, Shared, Committed
  <2> QED BY <2>3, <2>4, <2>5, <2>6, <2>7, <1>1, OwnStep DEF ProcInv, Keeps, prepare
<1> QED BY <1>3, <1>4, <1>5 DEF prepare

(* All that the script has made is in the output. *)
LEMMA RunContainerKeeps ==
    ASSUME BuildInv, NEW p \in Procs, runContainer(p)
    PROVE  BuildInv'
<1>1. proc[p].at = "container" /\ proc[p].cmd.cmd = "build" /\ proc[p].at \in Working
  BY DEF runContainer, Working, Stages, Stopped
<1>2. ProcInv(p, proc[p]) /\ ProcTyped(proc[p]) /\ DOMAIN proc = Procs
  BY <1>1, AtWork
<1>3. CASE Exit(p, 0)
  BY <1>1, <1>3, ExitKeeps DEF runContainer
<1>4. CASE proc' = [proc EXCEPT ![p].at = "install", ![p].out.dir = @ \cup Makes(proc[p].proj), ![p].made = Makes(proc[p].proj)]
  <2>1. PICK made : made = Makes(proc[p].proj)
    OBVIOUS
  <2>2. made \subseteq Files
    BY <2>1 DEF Makes, Files
  <2>3. PICK out : out = [proc[p].out EXCEPT !.dir = @ \cup made]
    OBVIOUS
  <2>4. out \in Outputs /\ made \subseteq out.dir /\ out.mods = proc[p].out.mods
    BY <2>2, <2>3, <1>2 DEF ProcTyped, Outputs
  <2>5. PICK r2 : r2 = [proc[p] EXCEPT !.at = "install", !.out = out, !.made = made]
    OBVIOUS
  <2>6. proc' = [proc EXCEPT ![p] = r2]
    BY <1>2, <1>4, <2>1, <2>3, <2>5 DEF ProcTyped, ProcFields
  <2>7. /\ DOMAIN r2 = ProcFields /\ r2.at = "install" /\ r2.out = out /\ r2.made = made /\ r2.stuck = proc[p].stuck
        /\ r2.cmd = proc[p].cmd /\ r2.proj = proc[p].proj /\ r2.cache = proc[p].cache /\ r2.dep = proc[p].dep
        /\ r2.mod = proc[p].mod /\ r2.dirs = proc[p].dirs /\ r2.todo = proc[p].todo
        /\ r2.spared = proc[p].spared /\ r2.imported = proc[p].imported /\ r2.skew = proc[p].skew /\ r2.code = proc[p].code /\ r2.left = proc[p].left /\ r2.rebuilt = proc[p].rebuilt
    BY <2>5, <1>2 DEF ProcTyped, ProcFields
  <2>8. ProcTyped(r2)
    BY <2>2, <2>4, <2>7, <1>2 DEF ProcTyped, Stages
  <2>9. StageOf(r2)
    BY <2>7, <1>1, <1>2 DEF ProcInv, StageOf
  <2>10. DepsInOrder(r2) /\ Shared(r2) /\ Committed(p, r2)
    BY <2>4, <2>7, <1>1, <1>2 DEF ProcInv, DepsInOrder, Shared, Committed
  <2>11. r2.at \in Working \ {"record", "record_end"}
    BY <2>7 DEF Working, Stages, Stopped
  <2> QED BY <2>6, <2>7, <2>8, <2>9, <2>10, <2>11, <1>1, OwnStep DEF ProcInv, Keeps, runContainer
<1> QED BY <1>3, <1>4 DEF runContainer

(* The modules of a project are among the ones it wants, and those that    *)
(* are committed are all of them.                                          *)
LEMMA ModulesWanted ==
    ASSUME NEW c, c.mods \in Seq(ModNames), c.full \in BOOLEAN
    PROVE  /\ ProjectModules(c) \in Seq(ModNames) /\ ToSet(ProjectModules(c)) \subseteq Wanted(c)
           /\ ToCommit(c) \in Seq(ModNames) /\ ToSet(ToCommit(c)) = Wanted(c)
           /\ Wanted(c) \subseteq ModNames
<1>1. \A x : x \in ToSet(c.mods) <=> \E i \in 1 .. Len(c.mods) : c.mods[i] = x
  BY InToSet
<1>2. ToSet(c.mods) \subseteq ModNames
  BY <1>1
<1>3. <<"binary">> \in Seq(ModNames) /\ <<"develop">> \in Seq(ModNames) /\ <<>> \in Seq(ModNames)
  BY DEF ModNames
<1>4. ToSet(<<"binary">>) = {"binary"} /\ ToSet(<<"develop">>) = {"develop"} /\ ToSet(<<>>) = {}
  BY DEF ToSet
<1>5. Append(c.mods, "develop") = c.mods \o <<"develop">>
  OBVIOUS
<1>concat. \A a, b \in Seq(ModNames) : a \o b \in Seq(ModNames) /\ ToSet(a \o b) = ToSet(a) \cup ToSet(b)
  BY ToSetOfConcat
<1>6. Append(c.mods, "develop") \in Seq(ModNames) /\ ToSet(Append(c.mods, "develop")) = ToSet(c.mods) \cup {"develop"}
  BY <1>concat, <1>3, <1>4, <1>5, Zenon
<1>7. Contains(c.mods, "develop") <=> "develop" \in ToSet(c.mods)
  BY <1>1 DEF Contains
<1>8. PICK s : s = ProjectModules(c)
  OBVIOUS
<1>9. /\ s \in Seq(ModNames) /\ ToSet(s) \subseteq Wanted(c)
      /\ ToSet(c.mods) \subseteq ToSet(s) /\ (c.full \/ "develop" \in ToSet(s))
  BY <1>6, <1>7, <1>8 DEF ProjectModules, Wanted
<1>10. PICK t : t = IF c.full THEN <<"develop">> ELSE <<>>
  OBVIOUS
<1>11. t \in Seq(ModNames) /\ ToSet(t) = IF c.full THEN {"develop"} ELSE {}
  BY <1>3, <1>4, <1>10
<1>12. <<"binary">> \o t \in Seq(ModNames) /\ ToSet(<<"binary">> \o t) = {"binary"} \cup ToSet(t)
  BY <1>concat, <1>3, <1>4, <1>11, Zenon
<1>13. /\ (<<"binary">> \o t) \o s \in Seq(ModNames)
       /\ ToSet((<<"binary">> \o t) \o s) = {"binary"} \cup ToSet(t) \cup ToSet(s)
  BY <1>concat, <1>9, <1>12, Zenon
<1>14. ToCommit(c) = (<<"binary">> \o t) \o s
  BY <1>8, <1>10 DEF ToCommit
<1>15. {"binary"} \cup ToSet(t) \cup ToSet(s) = Wanted(c)
  BY <1>9, <1>11 DEF Wanted
<1>16. Wanted(c) \subseteq ModNames
  BY <1>2 DEF Wanted, ModNames
<1> QED BY <1>8, <1>9, <1>13, <1>14, <1>15, <1>16

(* What a module takes. *)
Taken(o, n, match, stuck) == (o.dir \cap match) \ (o.mods[n] \cup Links \cup stuck)

(* A module takes what it may of the files that are left. *)
LEMMA InstallModuleShares ==
    ASSUME NEW o \in Outputs, NEW n \in ModNames, NEW match, NEW stuck, NEW o2, o2 = installModule(o, n, match, stuck)
    PROVE  /\ o2 \in Outputs /\ o2.yaml = o.yaml
           /\ o2.dir = o.dir \ Taken(o, n, match, stuck)
           /\ o2.mods[n] = o.mods[n] \cup Taken(o, n, match, stuck)
           /\ \A m \in ModNames \ {n} : o2.mods[m] = o.mods[m]
  BY DEF Outputs, installModule, Taken

(* The full copy goes to develop, which is committed; nothing is shared    *)
(* out yet.                                                                *)
LEMMA InstallModulesKeeps ==
    ASSUME BuildInv, NEW p \in Procs, installModules(p)
    PROVE  BuildInv'
<1>1. proc[p].at = "install" /\ proc[p].at \in Working
  BY DEF installModules, Working, Stages, Stopped
<1>2. ProcInv(p, proc[p]) /\ ProcTyped(proc[p]) /\ DOMAIN proc = Procs /\ proc[p].cmd \in Given
  BY <1>1, AtWork
<1>3. PICK c : c = proc[p].cmd
  OBVIOUS
<1>4. c.cmd = "build"
  BY <1>1, <1>2, <1>3 DEF ProcInv, StageOf
<1>5. c.mods \in Seq(ModNames) /\ c.full \in BOOLEAN
  BY <1>2, <1>3, <1>4, GivenAssumption
<1>6. PICK todo : todo = ProjectModules(c)
  OBVIOUS
<1>7. todo \in Seq(ModNames) /\ ToSet(todo) \subseteq Wanted(c) /\ "develop" \in Wanted(c)
  BY <1>5, <1>6, ModulesWanted DEF Wanted
<1>8. PICK out : out = IF c.full THEN [proc[p].out EXCEPT !.mods["develop"] = proc[p].out.dir \ Links] ELSE proc[p].out
  OBVIOUS
<1>9. /\ out \in Outputs /\ out.dir = proc[p].out.dir
      /\ ~c.full => \A n \in ModNames : out.mods[n] = {}
      /\ \A n \in ModNames : n = "develop" \/ out.mods[n] = {}
  <2>1. proc[p].out \in Outputs /\ \A n \in ModNames : proc[p].out.mods[n] = {}
    BY <1>1, <1>2 DEF ProcInv, Shared, ProcTyped
  <2>2. CASE c.full
    BY <2>1, <2>2, <1>8 DEF Outputs, ModNames
  <2>3. CASE ~c.full
    BY <2>1, <2>3, <1>8 DEF Outputs, ModNames
  <2> QED BY <2>2, <2>3
<1>10. PICK r2 : r2 = [proc[p] EXCEPT !.out = out, !.todo = todo, !.at = "split"]
  OBVIOUS
<1>11. proc' = [proc EXCEPT ![p] = r2]
  BY <1>2, <1>3, <1>6, <1>8, <1>10 DEF ProcTyped, ProcFields, installModules
<1>12. /\ DOMAIN r2 = ProcFields /\ r2.at = "split" /\ r2.out = out /\ r2.todo = todo /\ r2.made = proc[p].made /\ r2.stuck = proc[p].stuck
       /\ r2.cmd = c /\ r2.proj = proc[p].proj /\ r2.cache = proc[p].cache /\ r2.dep = proc[p].dep
       /\ r2.mod = proc[p].mod /\ r2.dirs = proc[p].dirs
       /\ r2.spared = proc[p].spared /\ r2.imported = proc[p].imported /\ r2.skew = proc[p].skew /\ r2.code = proc[p].code /\ r2.left = proc[p].left /\ r2.rebuilt = proc[p].rebuilt
  BY <1>10, <1>2, <1>3 DEF ProcTyped, ProcFields
<1>13. ProcTyped(r2)
  BY <1>12, <1>2, <1>7, <1>9 DEF ProcTyped, Stages
<1>14. StageOf(r2)
  BY <1>12, <1>1, <1>2, <1>3, <1>4 DEF ProcInv, StageOf
<1>15. DepsInOrder(r2) /\ Committed(p, r2)
  BY <1>12 DEF DepsInOrder, Committed
<1>16. Shared(r2)
  <2>1. proc[p].made \subseteq out.dir
    BY <1>1, <1>2, <1>9 DEF ProcInv, Shared
  <2>2. \A n \in ModNames : out.mods[n] # {} => n \in Wanted(c)
    BY <1>7, <1>9
  <2>3. ~c.full => \A f \in out.dir : \A n \in ModNames : f \notin out.mods[n]
    BY <1>9
  <2>4. ~c.full => \A n, m \in ModNames : n # m => out.mods[n] \cap out.mods[m] = {}
    BY <1>9
  <2> QED BY <2>1, <2>2, <2>3, <2>4, <1>7, <1>12 DEF Shared
<1>17. r2.at \in Working \ {"record", "record_end"}
  BY <1>12 DEF Working, Stages, Stopped
<1> QED BY <1>1, <1>11, <1>12, <1>13, <1>14, <1>15, <1>16, <1>17, OwnStep DEF ProcInv, Keeps, installModules

(* A module takes files no other has; binary takes the rest. *)
LEMMA InstallEachKeeps ==
    ASSUME BuildInv, NEW p \in Procs, installEach(p)
    PROVE  BuildInv'
<1>1. proc[p].at = "split" /\ proc[p].at \in Working
  BY DEF installEach, Working, Stages, Stopped
<1>2. ProcInv(p, proc[p]) /\ ProcTyped(proc[p]) /\ DOMAIN proc = Procs /\ proc[p].cmd \in Given
  BY <1>1, AtWork
<1>3. PICK r : r = proc[p]
  OBVIOUS
<1>4. r.cmd.cmd = "build" /\ r.out \in Outputs /\ r.todo \in Seq(ModNames)
  BY <1>1, <1>2, <1>3 DEF ProcInv, StageOf, ProcTyped
<1>5. /\ ToSet(r.todo) \subseteq Wanted(r.cmd)
      /\ \A n \in ModNames : r.out.mods[n] # {} => n \in Wanted(r.cmd)
      /\ \A f \in r.made \ Links : f \in r.out.dir \/ \E n \in ModNames : f \in r.out.mods[n]
      /\ ~r.cmd.full => /\ \A f \in r.out.dir : \A n \in ModNames : f \notin r.out.mods[n]
                        /\ \A n, m \in ModNames : n # m => r.out.mods[n] \cap r.out.mods[m] = {}
  BY <1>1, <1>2, <1>3, <1>4 DEF ProcInv, Shared
<1>rules. PICK match : match = IF r.todo = <<>> THEN r.cmd.listed ELSE Rules(Head(r.todo))
  OBVIOUS
<1>moved. PICK stuck \in SUBSET (r.cmd.tight \cap r.out.dir \cap match) :
             proc' = [proc EXCEPT ![p] =
               IF r.todo = <<>>
                 THEN [r EXCEPT !.out = installModule(@, "binary", match, stuck), !.stuck = @ \cup stuck, !.at = "entries"]
                 ELSE [r EXCEPT !.out = installModule(@, Head(r.todo), match, stuck), !.stuck = @ \cup stuck, !.todo = Tail(@)]]
  BY <1>3, <1>rules DEF installEach
<1>files. match \in SUBSET Files /\ stuck \in SUBSET Files /\ r.stuck \subseteq Files
  <2>1. r.cmd.listed \subseteq Files
    BY <1>2, <1>3, <1>4, GivenAssumption
  <2>2. Rules(Head(r.todo)) \subseteq Files
    BY DEF Rules, Files
  <2> QED BY <2>1, <2>2, <1>2, <1>3, <1>4, <1>rules, <1>moved DEF Outputs, ProcTyped
<1>6. CASE r.todo = <<>>
  <2>1. PICK o : o = installModule(r.out, "binary", match, stuck)
    OBVIOUS
  <2>2. "binary" \in ModNames /\ "binary" \in Wanted(r.cmd) /\ r.out.dir \in SUBSET Files
    BY <1>4 DEF ModNames, Wanted, Outputs
  <2>3. /\ o \in Outputs
        /\ o.mods["binary"] = r.out.mods["binary"] \cup Taken(r.out, "binary", match, stuck)
        /\ \A m \in ModNames \ {"binary"} : o.mods[m] = r.out.mods[m]
    BY <2>1, <2>2, <1>4, <1>files, InstallModuleShares
  <2>taken. Taken(r.out, "binary", match, stuck) = (r.out.dir \cap match) \ (r.out.mods["binary"] \cup Links \cup stuck)
    BY DEF Taken
  <2>4. PICK r2 : r2 = [r EXCEPT !.out = o, !.stuck = @ \cup stuck, !.at = "entries"]
    OBVIOUS
  <2>5. proc' = [proc EXCEPT ![p] = r2]
    BY <1>moved, <1>6, <2>1, <2>4
  <2>6. /\ DOMAIN r2 = ProcFields /\ r2.at = "entries" /\ r2.out = o /\ r2.todo = r.todo /\ r2.made = r.made /\ r2.stuck = r.stuck \cup stuck
        /\ r2.cmd = r.cmd /\ r2.proj = r.proj /\ r2.cache = r.cache /\ r2.dep = r.dep /\ r2.mod = r.mod /\ r2.dirs = r.dirs
        /\ r2.spared = r.spared /\ r2.imported = r.imported /\ r2.skew = r.skew /\ r2.code = r.code /\ r2.left = r.left /\ r2.rebuilt = r.rebuilt
    BY <2>4, <1>2, <1>3 DEF ProcTyped, ProcFields
  <2>7. ProcTyped(r2)
    BY <2>3, <2>6, <1>2, <1>3, <1>files DEF ProcTyped, Stages
  <2>8. StageOf(r2)
    BY <2>6, <1>1, <1>2, <1>3, <1>4 DEF ProcInv, StageOf
  <2>9. DepsInOrder(r2) /\ Committed(p, r2)
    BY <2>6 DEF DepsInOrder, Committed
  <2>10. Shared(r2)
    <3>1. \A n \in ModNames : o.mods[n] # {} => n \in Wanted(r.cmd)
      BY <2>2, <2>3, <2>taken, <1>5
    <3>2. \A f \in r.made \ Links : f \notin r.cmd.listed \/ f \in r2.stuck \/ \E n \in ModNames : f \in o.mods[n]
      <4> SUFFICES ASSUME NEW f \in r.made \ Links, f \in r.cmd.listed, f \notin r2.stuck PROVE \E n \in ModNames : f \in o.mods[n]
        OBVIOUS
      <4>1. CASE f \in r.out.dir
        <5>1. f \in match /\ f \notin stuck
          BY <1>rules, <1>6, <2>6
        <5> QED BY <5>1, <4>1, <2>2, <2>3, <2>taken
      <4>2. CASE \E n \in ModNames : f \in r.out.mods[n]
        BY <4>2, <2>2, <2>3, <2>taken
      <4> QED BY <4>1, <4>2, <1>5
    <3>3. ~r.cmd.full => \A n, m \in ModNames : n # m => o.mods[n] \cap o.mods[m] = {}
      BY <2>2, <2>3, <2>taken, <1>5
    <3> QED BY <3>1, <3>2, <3>3, <2>6 DEF Shared
  <2>11. r2.at \in Working \ {"record", "record_end"}
    BY <2>6 DEF Working, Stages, Stopped
  <2>12. ProcInv(p, r2)
    BY <2>7, <2>8, <2>9, <2>10 DEF ProcInv
  <2>13. UNCHANGED Repository
    BY DEF installEach
  <2> QED BY <1>1, <1>3, <2>5, <2>6, <2>11, <2>12, <2>13, OwnStep DEF Keeps
<1>7. CASE r.todo # <<>>
  <2>1. PICK n \in ModNames : n = Head(r.todo)
    BY <1>4, <1>7, ToSetOfRest
  <2>2. PICK t : t = Tail(r.todo)
    OBVIOUS
  <2>3. t \in Seq(ModNames) /\ ToSet(t) \subseteq Wanted(r.cmd) /\ n \in Wanted(r.cmd)
    BY <2>1, <2>2, <1>4, <1>5, <1>7, ToSetOfRest
  <2>4. PICK o : o = installModule(r.out, n, match, stuck)
    OBVIOUS
  <2>6. /\ o \in Outputs
        /\ o.mods[n] = r.out.mods[n] \cup Taken(r.out, n, match, stuck)
        /\ o.dir = r.out.dir \ Taken(r.out, n, match, stuck)
        /\ \A m \in ModNames \ {n} : o.mods[m] = r.out.mods[m]
    BY <2>4, <1>files, <1>4, InstallModuleShares
  <2>taken. Taken(r.out, n, match, stuck) \subseteq r.out.dir
    BY DEF Taken
  <2>7. PICK r2 : r2 = [r EXCEPT !.out = o, !.stuck = @ \cup stuck, !.todo = t]
    OBVIOUS
  <2>8. proc' = [proc EXCEPT ![p] = r2]
    BY <1>moved, <1>7, <2>1, <2>2, <2>4, <2>7
  <2>9. /\ DOMAIN r2 = ProcFields /\ r2.at = "split" /\ r2.out = o /\ r2.todo = t /\ r2.made = r.made /\ r2.stuck = r.stuck \cup stuck
        /\ r2.cmd = r.cmd /\ r2.proj = r.proj /\ r2.cache = r.cache /\ r2.dep = r.dep /\ r2.mod = r.mod /\ r2.dirs = r.dirs
        /\ r2.spared = r.spared /\ r2.imported = r.imported /\ r2.skew = r.skew /\ r2.code = r.code /\ r2.left = r.left /\ r2.rebuilt = r.rebuilt
    BY <2>7, <1>1, <1>2, <1>3 DEF ProcTyped, ProcFields
  <2>10. ProcTyped(r2)
    BY <2>3, <2>6, <2>9, <1>2, <1>3, <1>files DEF ProcTyped, Stages
  <2>11. StageOf(r2)
    BY <2>9, <1>1, <1>2, <1>3, <1>4 DEF ProcInv, StageOf
  <2>12. DepsInOrder(r2) /\ Committed(p, r2)
    BY <2>9 DEF DepsInOrder, Committed
  <2>13. Shared(r2)
    <3>1. \A m \in ModNames : o.mods[m] # {} => m \in Wanted(r.cmd)
      BY <2>3, <2>6, <2>taken, <1>5
    <3>2. \A f \in r.made \ Links : f \in o.dir \/ \E m \in ModNames : f \in o.mods[m]
      BY <2>6, <2>taken, <1>5
    <3>3. ~r.cmd.full => \A m, k \in ModNames : m # k => o.mods[m] \cap o.mods[k] = {}
      BY <2>6, <2>taken, <1>5
    <3>4. ~r.cmd.full => \A f \in o.dir : \A m \in ModNames : f \notin o.mods[m]
      BY <2>6, <2>taken, <1>5
    <3> QED BY <3>1, <3>2, <3>3, <3>4, <2>3, <2>9 DEF Shared
  <2>14. r2.at \in Working \ {"record", "record_end"}
    BY <2>9 DEF Working, Stages, Stopped
  <2>15. ProcInv(p, r2)
    BY <2>10, <2>11, <2>12, <2>13 DEF ProcInv
  <2>16. UNCHANGED Repository
    BY DEF installEach
  <2> QED BY <1>1, <1>3, <2>8, <2>9, <2>14, <2>15, <2>16, OwnStep DEF Keeps
<1> QED BY <1>6, <1>7

(* The command goes on with other modules to do. *)
LEMMA TodoStep ==
    ASSUME BuildInv, NEW p \in Procs, proc[p].at \in Working, NEW r2,
           proc' = [proc EXCEPT ![p] = r2], UNCHANGED Repository,
           Same(r2, proc[p], {"at", "todo"}), r2.at \in Working \ {"record", "record_end"}, r2.todo \in Seq(ModNames),
           StageOf(r2), DepsInOrder(r2), Shared(r2), Committed(p, r2)
    PROVE  BuildInv'
<1>1. ProcTyped(proc[p])
  BY AtWork
<1>2. /\ DOMAIN r2 = ProcFields /\ r2.out = proc[p].out /\ r2.made = proc[p].made /\ r2.stuck = proc[p].stuck
      /\ r2.cmd = proc[p].cmd /\ r2.proj = proc[p].proj /\ r2.cache = proc[p].cache /\ r2.dep = proc[p].dep
      /\ r2.mod = proc[p].mod /\ r2.dirs = proc[p].dirs
      /\ r2.spared = proc[p].spared /\ r2.imported = proc[p].imported /\ r2.skew = proc[p].skew /\ r2.code = proc[p].code /\ r2.left = proc[p].left /\ r2.rebuilt = proc[p].rebuilt
  BY DEF Same, ProcFields
<1>3. r2.at \in Stages
  BY DEF Working
<1>4. ProcTyped(r2)
  BY <1>1, <1>2, <1>3 DEF ProcTyped
<1>5. ProcInv(p, r2)
  BY <1>4 DEF ProcInv
<1> QED BY <1>2, <1>5, OwnStep DEF Keeps

(* The modules a list has of a project. *)
LEMMA ListedModules ==
    ASSUME NEW p \in Procs, NEW S, S = {n \in ModNames : Has(p, n)}
    PROVE  /\ SetToSeq(S) \in Seq(ModNames)
           /\ \A n \in ModNames : proc[p].cache.layers[Ref(proc[p].proj, n)] # NoLayer => n \in ToSet(SetToSeq(S))
<1>1. IsFiniteSet({"binary"}) /\ IsFiniteSet({"develop"}) /\ IsFiniteSet({"lang"})
  BY FS_Singleton
<1>2. IsFiniteSet({"binary"} \cup {"develop"})
  BY <1>1, FS_Union
<1>3. IsFiniteSet(({"binary"} \cup {"develop"}) \cup {"lang"})
  BY <1>1, <1>2, FS_Union
<1>4. ModNames = ({"binary"} \cup {"develop"}) \cup {"lang"}
  BY DEF ModNames
<1>5. S \in SUBSET ModNames
  OBVIOUS
<1>6. IsFiniteSet(S)
  BY <1>3, <1>4, <1>5, FS_Subset
<1>7. PICK s : s = SetToSeq(S)
  OBVIOUS
<1>8. s \in Seq(S) /\ ToSet(s) = S
  BY <1>6, <1>7, SetToSeqOfAll
<1>9. s \in Seq(ModNames)
  BY <1>5, <1>8
<1> QED BY <1>7, <1>8, <1>9 DEF Has, Cache

(* Every module of the last build that the list has is to be removed. *)
LEMMA EntriesKeeps ==
    ASSUME BuildInv, NEW p \in Procs, generateEntries(p)
    PROVE  BuildInv'
<1>1. proc[p].at = "entries" /\ proc[p].at \in Working
  BY DEF generateEntries, Working, Stages, Stopped
<1>2. ProcInv(p, proc[p]) /\ ProcTyped(proc[p]) /\ DOMAIN proc = Procs
  BY <1>1, AtWork
<1>3. PICK todo : todo = SetToSeq({n \in ModNames : Has(p, n)})
  OBVIOUS
<1>4. /\ todo \in Seq(ModNames)
      /\ \A n \in ModNames : proc[p].cache.layers[Ref(proc[p].proj, n)] # NoLayer => n \in ToSet(todo)
  BY <1>3, ListedModules
<1>5. PICK r2 : r2 = [proc[p] EXCEPT !.todo = todo, !.at = "clear"]
  OBVIOUS
<1>6. proc' = [proc EXCEPT ![p] = r2] /\ UNCHANGED Repository
  BY <1>2, <1>3, <1>5 DEF ProcTyped, ProcFields, generateEntries
<1>7. Same(r2, proc[p], {"at", "todo"}) /\ r2.at = "clear" /\ r2.todo = todo
  BY <1>2, <1>5 DEF Same, ProcTyped, ProcFields
<1>8. /\ r2.out = proc[p].out /\ r2.made = proc[p].made /\ r2.stuck = proc[p].stuck /\ r2.cmd = proc[p].cmd /\ r2.proj = proc[p].proj
      /\ r2.cache = proc[p].cache /\ r2.imported = proc[p].imported
  BY <1>7 DEF Same, ProcFields
<1>9. StageOf(r2) /\ DepsInOrder(r2)
  BY <1>1, <1>2, <1>7, <1>8 DEF ProcInv, StageOf, DepsInOrder
<1>10. Shared(r2)
  BY <1>1, <1>2, <1>7, <1>8 DEF ProcInv, Shared
<1>11. Committed(p, r2)
  BY <1>4, <1>7, <1>8 DEF Committed
<1>12. r2.at \in Working \ {"record", "record_end"}
  BY <1>7 DEF Working, Stages, Stopped
<1> QED BY <1>1, <1>4, <1>6, <1>7, <1>9, <1>10, <1>11, <1>12, TodoStep

(* The modules of the project are listed. *)
LEMMA ListKeeps ==
    ASSUME BuildInv, NEW p \in Procs, list(p)
    PROVE  BuildInv'
<1>1. proc[p].at = "list" /\ proc[p].at \in Working
  BY DEF list, Working, Stages, Stopped
<1>2. ProcInv(p, proc[p]) /\ ProcTyped(proc[p]) /\ DOMAIN proc = Procs /\ proc[p].cmd \in Given
  BY <1>1, AtWork
<1>3. PICK c : c = proc[p].cmd
  OBVIOUS
<1>4. c.cmd \in {"layer", "push", "remove"} /\ (c.cmd = "push" => c.mods \in Seq(ModNames))
  BY <1>1, <1>2, <1>3, GivenAssumption DEF ProcInv, StageOf
<1>5. PICK todo : todo = IF c.cmd = "push" THEN <<"binary", "develop">> \o c.mods ELSE SetToSeq({n \in ModNames : Has(p, n)})
  OBVIOUS
<1>6. todo \in Seq(ModNames)
  <2>1. <<"binary", "develop">> \in Seq(ModNames)
    BY DEF ModNames
  <2>2. SetToSeq({n \in ModNames : Has(p, n)}) \in Seq(ModNames)
    BY ListedModules
  <2>3. CASE c.cmd = "push"
    BY <1>4, <1>5, <2>1, <2>3, ToSetOfConcat
  <2>4. CASE c.cmd # "push"
    BY <1>5, <2>2, <2>4
  <2> QED BY <2>3, <2>4
<1>7. PICK r2 : r2 = [proc[p] EXCEPT !.at = c.cmd, !.todo = todo]
  OBVIOUS
<1>8. proc' = [proc EXCEPT ![p] = r2] /\ UNCHANGED Repository
  BY <1>2, <1>3, <1>5, <1>7 DEF ProcTyped, ProcFields, list
<1>9. Same(r2, proc[p], {"at", "todo"}) /\ r2.at = c.cmd /\ r2.todo = todo
  BY <1>2, <1>7 DEF Same, ProcTyped, ProcFields
<1>10. r2.cmd = c /\ r2.proj = proc[p].proj /\ r2.imported = proc[p].imported
  BY <1>3, <1>9 DEF Same, ProcFields
<1>11. StageOf(r2)
  BY <1>1, <1>2, <1>3, <1>4, <1>9, <1>10 DEF ProcInv, StageOf
<1>12. DepsInOrder(r2) /\ Shared(r2) /\ Committed(p, r2)
  BY <1>4, <1>9, <1>10 DEF DepsInOrder, Shared, Committed
<1>13. r2.at \in Working \ {"record", "record_end"}
  BY <1>4, <1>9 DEF Working, Stages, Stopped
<1> QED BY <1>1, <1>6, <1>8, <1>9, <1>11, <1>12, <1>13, TodoStep

(* The first of the modules to do is done, where nothing depends on it. *)
LEMMA TailStep ==
    ASSUME BuildInv, NEW p \in Procs, proc[p].at \in {"layer", "push", "poll"}, proc[p].todo # <<>>, NEW r2,
           NEW at, at = IF proc[p].at = "poll" THEN "push" ELSE proc[p].at,
           Same(r2, proc[p], {"at", "todo"}), r2.at = at, r2.todo = Tail(proc[p].todo),
           proc' = [proc EXCEPT ![p] = r2], UNCHANGED Repository
    PROVE  BuildInv'
<1>1. proc[p].at \in Working /\ r2.at \in Working \ {"record", "record_end"}
  BY DEF Working, Stages, Stopped
<1>2. ProcInv(p, proc[p]) /\ ProcTyped(proc[p])
  BY <1>1, AtWork
<1>3. r2.todo \in Seq(ModNames)
  BY <1>2, ToSetOfRest DEF ProcTyped
<1>4. r2.cmd = proc[p].cmd /\ r2.proj = proc[p].proj /\ r2.imported = proc[p].imported
  BY DEF Same, ProcFields
<1>5. StageOf(r2)
  BY <1>1, <1>2, <1>4 DEF ProcInv, StageOf
<1>6. DepsInOrder(r2) /\ Shared(r2) /\ Committed(p, r2)
  BY <1>4 DEF DepsInOrder, Shared, Committed
<1> QED BY <1>1, <1>3, <1>5, <1>6, TodoStep

(* export --layer goes on to the next module. *)
LEMMA ExportLayerKeeps ==
    ASSUME BuildInv, NEW p \in Procs, exportLayer(p)
    PROVE  BuildInv'
<1>1. proc[p].at = "layer" /\ proc[p].at \in Working
  BY DEF exportLayer, Working, Stages, Stopped
<1>2. ProcTyped(proc[p]) /\ DOMAIN proc = Procs
  BY <1>1, AtWork
<1>3. CASE proc[p].todo = <<>>
  BY <1>1, <1>3, ExitKeeps DEF exportLayer
<1>4. CASE proc[p].todo # <<>>
  <2>1. PICK r2 : r2 = [proc[p] EXCEPT !.todo = Tail(@)]
    OBVIOUS
  <2>2. proc' = [proc EXCEPT ![p] = r2] /\ UNCHANGED Repository
    BY <1>2, <1>4, <2>1 DEF ProcTyped, ProcFields, exportLayer
  <2>3. Same(r2, proc[p], {"at", "todo"}) /\ r2.at = "layer" /\ r2.todo = Tail(proc[p].todo)
    BY <1>1, <1>2, <2>1 DEF Same, ProcTyped, ProcFields
  <2> QED BY <1>1, <1>4, <2>2, <2>3, TailStep
<1> QED BY <1>3, <1>4

(* push goes on, or waits for the server. *)
LEMMA PushKeeps ==
    ASSUME BuildInv, NEW p \in Procs, push(p)
    PROVE  BuildInv'
<1>1. proc[p].at = "push" /\ proc[p].at \in Working /\ "poll" \in Working
  BY DEF push, Working, Stages, Stopped
<1>2. ProcInv(p, proc[p]) /\ ProcTyped(proc[p]) /\ DOMAIN proc = Procs /\ merged \subseteq Deps \X Versions
  BY <1>1, AtWork
<1>3. UNCHANGED Repository
  BY DEF push
<1>4. CASE Exit(p, 0)
  BY <1>1, <1>3, <1>4, ExitKeeps
<1>5. CASE Exit(p, -1)
  BY <1>1, <1>3, <1>5, ExitKeeps
<1>6. CASE proc[p].todo # <<>> /\ proc' = [proc EXCEPT ![p].todo = Tail(@)]
  <2>1. PICK r2 : r2 = [proc[p] EXCEPT !.todo = Tail(@)]
    OBVIOUS
  <2>2. proc' = [proc EXCEPT ![p] = r2]
    BY <1>2, <1>6, <2>1 DEF ProcTyped, ProcFields
  <2>3. Same(r2, proc[p], {"at", "todo"}) /\ r2.at = "push" /\ r2.todo = Tail(proc[p].todo)
    BY <1>1, <1>2, <2>1 DEF Same, ProcTyped, ProcFields
  <2> QED BY <1>1, <1>3, <1>6, <2>2, <2>3, TailStep
<1>7. CASE proc[p].todo # <<>> /\ Go(p, "poll")
  <2>1. ASSUME NEW r2, Same(r2, proc[p], {"at"}), r2.at = "poll"
        PROVE  StageOf(r2) /\ DepsInOrder(r2) /\ Shared(r2) /\ Committed(p, r2)
    <3>1. r2.proj = proc[p].proj /\ r2.cmd = proc[p].cmd /\ r2.todo = proc[p].todo /\ r2.imported = proc[p].imported
      BY <2>1 DEF Same, ProcFields
    <3>2. StageOf(r2)
      BY <3>1, <2>1, <1>1, <1>2, <1>7 DEF ProcInv, StageOf
    <3>3. DepsInOrder(r2) /\ Shared(r2) /\ Committed(p, r2)
      BY <2>1 DEF DepsInOrder, Shared, Committed
    <3> QED BY <3>2, <3>3
  <2> QED BY <1>1, <1>2, <1>3, <1>7, <2>1, MoveStep DEF Go, Repository
<1> QED BY <1>4, <1>5, <1>6, <1>7 DEF push

(* The server has answered. *)
LEMMA UploadKeeps ==
    ASSUME BuildInv, NEW p \in Procs, uploadTaskInfo(p)
    PROVE  BuildInv'
<1>1. proc[p].at = "poll" /\ proc[p].at \in Working
  BY DEF uploadTaskInfo, Working, Stages, Stopped
<1>2. ProcInv(p, proc[p]) /\ ProcTyped(proc[p]) /\ DOMAIN proc = Procs
  BY <1>1, AtWork
<1>3. proc[p].todo # <<>>
  BY <1>1, <1>2 DEF ProcInv, StageOf
<1>4. CASE Exit(p, -1)
  BY <1>1, <1>4, ExitKeeps DEF uploadTaskInfo
<1>5. CASE proc' = [proc EXCEPT ![p].at = "push", ![p].todo = Tail(@)]
  <2>1. PICK r2 : r2 = [proc[p] EXCEPT !.at = "push", !.todo = Tail(@)]
    OBVIOUS
  <2>2. proc' = [proc EXCEPT ![p] = r2] /\ UNCHANGED Repository
    BY <1>2, <1>5, <2>1 DEF ProcTyped, ProcFields, uploadTaskInfo
  <2>3. Same(r2, proc[p], {"at", "todo"}) /\ r2.at = "push" /\ r2.todo = Tail(proc[p].todo)
    BY <1>1, <1>2, <2>1 DEF Same, ProcTyped, ProcFields
  <2> QED BY <1>1, <1>3, <2>2, <2>3, TailStep
<1> QED BY <1>4, <1>5 DEF uploadTaskInfo

(* run and the export of a UAB leave the repository as it is. *)
LEMMA RunKeeps ==
    ASSUME BuildInv, NEW p \in Procs, runApp(p) \/ exportUAB(p) \/ AppEnds(p)
    PROVE  BuildInv'
<1>1. proc[p].at \in {"ready", "container"} /\ proc[p].at \in Working /\ "container" \in Working
  BY DEF runApp, exportUAB, AppEnds, Working, Stages, Stopped
<1>2. ProcInv(p, proc[p]) /\ ProcTyped(proc[p]) /\ DOMAIN proc = Procs /\ merged \subseteq Deps \X Versions
  BY <1>1, AtWork
<1>3. UNCHANGED Repository
  BY DEF runApp, exportUAB, AppEnds
<1>4. CASE \E code \in {-1, 0} : Exit(p, code)
  BY <1>1, <1>3, <1>4, ExitKeeps
<1>5. CASE runApp(p) /\ Go(p, "container")
  <2>1. ASSUME NEW r2, Same(r2, proc[p], {"at"}), r2.at = "container"
        PROVE  StageOf(r2) /\ DepsInOrder(r2) /\ Shared(r2) /\ Committed(p, r2)
    <3>1. r2.proj = proc[p].proj /\ r2.cmd = proc[p].cmd /\ r2.out = proc[p].out /\ r2.imported = proc[p].imported
      BY <2>1 DEF Same, ProcFields
    <3>2. StageOf(r2)
      BY <3>1, <2>1, <1>1, <1>2 DEF ProcInv, StageOf
    <3>3. DepsInOrder(r2) /\ Shared(r2) /\ Committed(p, r2)
      BY <3>1, <2>1, <1>1, <1>2 DEF ProcInv, DepsInOrder, Shared, Committed
    <3> QED BY <3>2, <3>3
  <2> QED BY <1>1, <1>2, <1>3, <1>5, <2>1, MoveStep DEF Go, Repository
<1> QED BY <1>4, <1>5 DEF runApp, exportUAB, AppEnds

(* A list with another layer. *)
Put(l, j, n, x) == [l EXCEPT !.layers[Ref(j, n)] = x]

(* What such a list has. *)
LEMMA SetLayer ==
    ASSUME NEW l, GoodList(l), NEW j \in Projects, NEW n \in ModNames, NEW x \in Layers,
           NEW c, c = Put(l, j, n, x)
    PROVE  /\ GoodList(c) /\ c.deps = l.deps /\ c.merged = l.merged
           /\ c.layers[Ref(j, n)] = x
           /\ \A i \in Projects, m \in ModNames : <<i, m>> # <<j, n>> => c.layers[Ref(i, m)] = l.layers[Ref(i, m)]
<1>1. Ref(j, n) \in Keys
  BY DEF Ref, Keys
<1>2. c \in Lists /\ c.deps = l.deps /\ c.merged = l.merged /\ c.layers = [l.layers EXCEPT ![Ref(j, n)] = x]
  BY <1>1 DEF GoodList, Lists, Put
<1>3. Mergeable(c) = Mergeable(l)
  BY <1>2 DEF Mergeable
<1>4. GoodList(c)
  BY <1>2, <1>3 DEF GoodList
<1>5. l.layers \in [Keys -> Layers]
  BY DEF GoodList, Lists
<1>6. c.layers[Ref(j, n)] = x
  BY <1>1, <1>2, <1>5
<1>7. ASSUME NEW i \in Projects, NEW m \in ModNames, <<i, m>> # <<j, n>> PROVE c.layers[Ref(i, m)] = l.layers[Ref(i, m)]
  BY <1>2, <1>5, <1>7 DEF Ref, Keys
<1> QED BY <1>2, <1>4, <1>6, <1>7

(* The refs with another one. *)
LEMMA PutRef ==
    ASSUME repo \in Refs, NEW j \in Projects, NEW n \in ModNames, NEW x \in Layers \cup {NoLayer}
    PROVE  [repo EXCEPT !.layers[Ref(j, n)] = x] \in Refs /\ [repo EXCEPT !.layers[Ref(j, n)] = x].deps = repo.deps
<1>1. NoLayer \in Layers
  BY BuilderAssumption DEF NoLayer, Layers
<1> QED BY <1>1 DEF Refs, Ref, Keys

(* Without a layer a list is of one build where it was. *)
LEMMA ClearedIsOfOne ==
    ASSUME NEW l, GoodList(l), NEW j \in Projects, NEW n \in ModNames,
           NEW c, c = Put(l, j, n, NoLayer)
    PROVE  \A i \in Projects : OfOneBuild(l, i) => OfOneBuild(c, i)
<1>1. NoLayer \in Layers /\ NoLayer.build = 0
  BY BuilderAssumption DEF NoLayer, Layers
<1>2. /\ c.layers[Ref(j, n)] = NoLayer
      /\ \A i \in Projects, m \in ModNames : <<i, m>> # <<j, n>> => c.layers[Ref(i, m)] = l.layers[Ref(i, m)]
  BY <1>1, SetLayer
<1>3. ASSUME NEW i \in Projects, OfOneBuild(l, i) PROVE OfOneBuild(c, i)
  <2>1. PICK b \in -1 .. MaxProcs : \A m \in ModNames : l.layers[Ref(i, m)].build \in {0, b}
    BY <1>3 DEF OfOneBuild
  <2>2. ASSUME NEW m \in ModNames PROVE c.layers[Ref(i, m)].build \in {0, b}
    <3>1. CASE <<i, m>> = <<j, n>>
      BY <1>1, <1>2, <3>1 DEF Ref
    <3>2. CASE <<i, m>> # <<j, n>>
      BY <1>2, <2>1, <3>2
    <3> QED BY <3>1, <3>2
  <2> QED BY <2>2 DEF OfOneBuild
<1> QED BY <1>3

(* One of the modules that are listed is removed, or is not. *)
LEMMA RemoveOne ==
    ASSUME BuildInv, NEW p \in Procs, proc[p].at \in {"clear", "remove"}, proc[p].todo # <<>>,
           UNCHANGED <<merged, remote, alone>>, removeHead(p)
    PROVE  BuildInv'
<1>1. proc[p].at \in Working
  BY DEF Working, Stages, Stopped
<1>2. /\ ProcInv(p, proc[p]) /\ ProcTyped(proc[p]) /\ DOMAIN proc = Procs /\ Live(p)
      /\ merged \subseteq Deps \X Versions /\ repo \in Refs
  BY <1>1, AtWork
<1>3. PICK r : r = proc[p]
  OBVIOUS
<1>4. r.todo \in Seq(ModNames) /\ GoodList(r.cache) /\ r.proj \in Projects
  BY <1>2, <1>3 DEF ProcTyped
<1>5. PICK n \in ModNames : n = Head(r.todo)
  BY <1>3, <1>4, ToSetOfRest
<1>6. PICK t : t = Tail(r.todo)
  OBVIOUS
<1>7. t \in Seq(ModNames) /\ ToSet(r.todo) = {n} \cup ToSet(t)
  BY <1>3, <1>4, <1>5, <1>6, ToSetOfRest
<1>ref. repo' \in Refs /\ repo'.deps = repo.deps
  <2>1. PICK x \in Refs : x = Without(Ref(r.proj, n)) /\ x.deps = repo.deps
    BY <1>2, <1>4, PutRef DEF Without
  <2>2. repo' \in {repo, x}
    BY <2>1, <1>3, <1>5 DEF removeHead
  <2> QED BY <2>1, <2>2, <1>2
<1>killed. CASE proc' = [proc EXCEPT ![p] = Over(@, "killed", 0)] /\ UNCHANGED <<disk, file>>
  <2>1. "killed" \in Stopped
    BY DEF Stopped
  <2> QED BY <2>1, <1>2, <1>ref, <1>killed, EndStep
<1>8. CASE proc' = [proc EXCEPT ![p].todo = Tail(@), ![p].spared = TRUE] /\ UNCHANGED <<disk, file>>
  <2>1. PICK r2 : r2 = [r EXCEPT !.todo = t, !.spared = TRUE]
    OBVIOUS
  <2>2. proc' = [proc EXCEPT ![p] = r2]
    BY <1>2, <1>3, <1>6, <1>8, <2>1 DEF ProcTyped, ProcFields
  <2>3. /\ DOMAIN r2 = ProcFields /\ r2.at = r.at /\ r2.out = r.out /\ r2.todo = t /\ r2.made = r.made /\ r2.stuck = r.stuck
        /\ r2.cmd = r.cmd /\ r2.proj = r.proj /\ r2.cache = r.cache /\ r2.dep = r.dep /\ r2.mod = r.mod /\ r2.dirs = r.dirs
        /\ r2.spared = TRUE /\ r2.imported = r.imported /\ r2.skew = r.skew /\ r2.code = r.code /\ r2.left = r.left /\ r2.rebuilt = r.rebuilt
    BY <2>1, <1>2, <1>3 DEF ProcTyped, ProcFields
  <2>4. ProcTyped(r2)
    BY <2>3, <1>2, <1>3, <1>7 DEF ProcTyped
  <2>5. StageOf(r2) /\ DepsInOrder(r2)
    BY <2>3, <1>2, <1>3 DEF ProcInv, StageOf, DepsInOrder
  <2>6. Shared(r2)
    BY <2>3, <1>2, <1>3 DEF ProcInv, Shared
  <2>7. Committed(p, r2)
    BY <2>3, <1>3 DEF Committed
  <2>8. ProcInv(p, r2)
    BY <2>4, <2>5, <2>6, <2>7 DEF ProcInv
  <2>9. r2.at \in Working \ {"record", "record_end"} /\ r2.at \notin {"none", "dead"}
    BY <2>3, <1>1, <1>3 DEF Working, Stopped
  <2>10. Keeps(r2, proc[p])
    BY <2>3, <1>3 DEF Keeps
  <2> QED BY <1>2, <1>3, <1>8, <1>ref, <2>2, <2>3, <2>8, <2>9, <2>10, QuietStep
<1>9. CASE Save(p, [proc[p].cache EXCEPT !.layers[Ref(proc[p].proj, Head(proc[p].todo))] = NoLayer],
                   [proc[p] EXCEPT !.todo = Tail(@)])
  <2>1. PICK c : c = Put(r.cache, r.proj, n, NoLayer)
    OBVIOUS
  <2>2. NoLayer \in Layers
    BY BuilderAssumption DEF NoLayer, Layers
  <2>3. /\ GoodList(c) /\ c.deps = r.cache.deps /\ c.merged = r.cache.merged
        /\ c.layers[Ref(r.proj, n)] = NoLayer
        /\ \A i \in Projects, m \in ModNames : <<i, m>> # <<r.proj, n>> => c.layers[Ref(i, m)] = r.cache.layers[Ref(i, m)]
    BY <2>1, <2>2, <1>4, SetLayer
  <2>4. PICK u : u = [r EXCEPT !.todo = t]
    OBVIOUS
  <2>5. u.at = r.at /\ u.at # "over"
    BY <2>4, <1>2, <1>3 DEF ProcTyped, ProcFields
  <2>6. PICK r2 : r2 = [u EXCEPT !.cache = c]
    OBVIOUS
  <2>7. Written(c) /\ proc' = [proc EXCEPT ![p] = r2]
    BY <1>3, <1>5, <1>6, <1>9, <2>1, <2>4, <2>5, <2>6 DEF Save, Put
  <2>8. /\ DOMAIN r2 = ProcFields /\ r2.at = r.at /\ r2.out = r.out /\ r2.todo = t /\ r2.made = r.made /\ r2.stuck = r.stuck
        /\ r2.cmd = r.cmd /\ r2.proj = r.proj /\ r2.cache = c /\ r2.dep = r.dep /\ r2.mod = r.mod /\ r2.dirs = r.dirs
        /\ r2.spared = r.spared /\ r2.imported = r.imported /\ r2.skew = r.skew /\ r2.code = r.code /\ r2.left = r.left /\ r2.rebuilt = r.rebuilt
    BY <2>4, <2>6, <1>2, <1>3 DEF ProcTyped, ProcFields
  <2>9. ProcTyped(r2)
    BY <2>3, <2>8, <1>2, <1>3, <1>7 DEF ProcTyped
  <2>10. StageOf(r2) /\ DepsInOrder(r2)
    BY <2>8, <1>2, <1>3 DEF ProcInv, StageOf, DepsInOrder
  <2>11. Shared(r2)
    BY <2>8, <1>2, <1>3 DEF ProcInv, Shared
  <2>12. Committed(p, r2)
    <3> SUFFICES ASSUME r2.at = "clear", ~r2.spared, NEW m \in ModNames, r2.cache.layers[Ref(r2.proj, m)] # NoLayer
                 PROVE  m \in ToSet(r2.todo)
      BY <2>8, <1>3 DEF Committed
    <3>1. m # n
      BY <2>3, <2>8
    <3>2. r.cache.layers[Ref(r.proj, m)] # NoLayer
      BY <2>3, <2>8, <3>1, <1>4
    <3>3. m \in ToSet(r.todo)
      BY <3>2, <2>8, <1>2, <1>3 DEF ProcInv, Committed
    <3> QED BY <3>1, <3>3, <2>8, <1>7
  <2>13. ProcInv(p, r2)
    BY <2>9, <2>10, <2>11, <2>12 DEF ProcInv
  <2>14. \A j \in Projects : OfOneBuild(r.cache, j) => OfOneBuild(c, j)
    BY <2>1, <1>4, ClearedIsOfOne
  <2>16. Undisturbed => c.merged \subseteq merged'
    BY <1>2, <1>3, <2>3 DEF Undisturbed, TrueRecords
  <2>18. r2.at \notin {"none", "record", "record_end", "dead"}
    BY <2>8, <1>3
  <2>19. merged' \subseteq Deps \X Versions /\ (r2.at \in Working => r2.cache = c)
    BY <1>2, <2>8
  <2>20. Keeps(r2, proc[p])
    BY <1>3, <2>8 DEF Keeps
  <2>21. \A j \in Projects : OfOneBuild(proc[p].cache, j) => OfOneBuild(c, j) \/ (j = r2.proj /\ (r2.spared \/ r2.imported))
    BY <1>3, <2>14
  <2>22. c.deps = proc[p].cache.deps
    BY <1>3, <2>3
  <2> QED BY <1>2, <1>ref, <2>3, <2>7, <2>13, <2>16, <2>18, <2>19, <2>20, <2>21, <2>22, LayerStep
<1> QED BY <1>8, <1>9, <1>killed DEF removeHead

(* When nothing is left to remove the list has no module of an earlier     *)
(* build, unless one was spared.                                           *)
LEMMA RemoveOldKeeps ==
    ASSUME BuildInv, NEW p \in Procs, removeOld(p)
    PROVE  BuildInv'
<1>1. proc[p].at = "clear" /\ proc[p].at \in Working
  BY DEF removeOld, Working, Stages, Stopped
<1>2. ProcInv(p, proc[p]) /\ ProcTyped(proc[p]) /\ DOMAIN proc = Procs /\ proc[p].cmd \in Given
  BY <1>1, AtWork
<1>3. CASE proc[p].todo # <<>>
  BY <1>1, <1>3, RemoveOne DEF removeOld
<1>4. CASE proc[p].todo = <<>>
  <2>1. PICK c : c = proc[p].cmd
    OBVIOUS
  <2>2. c.cmd = "build"
    BY <1>1, <1>2, <2>1 DEF ProcInv, StageOf
  <2>3. c.mods \in Seq(ModNames) /\ c.full \in BOOLEAN
    BY <1>2, <2>1, <2>2, GivenAssumption
  <2>4. ToCommit(c) \in Seq(ModNames) /\ ToSet(ToCommit(c)) = Wanted(c)
    BY <2>3, ModulesWanted
  <2>5. PICK todo : todo = ToCommit(c)
    OBVIOUS
  <2>6. PICK r2 : r2 = [proc[p] EXCEPT !.at = "commit", !.todo = todo]
    OBVIOUS
  <2>7. proc' = [proc EXCEPT ![p] = r2] /\ UNCHANGED Repository
    BY <1>2, <1>4, <2>1, <2>5, <2>6 DEF ProcTyped, ProcFields, removeOld, removeHead, Repository
  <2>8. Same(r2, proc[p], {"at", "todo"}) /\ r2.at = "commit" /\ r2.todo = todo
    BY <1>2, <2>6 DEF Same, ProcTyped, ProcFields
  <2>9. /\ r2.out = proc[p].out /\ r2.made = proc[p].made /\ r2.stuck = proc[p].stuck /\ r2.cmd = c /\ r2.proj = proc[p].proj
        /\ r2.cache = proc[p].cache /\ r2.imported = proc[p].imported /\ r2.spared = proc[p].spared
    BY <2>1, <2>8 DEF Same, ProcFields
  <2>10. StageOf(r2) /\ DepsInOrder(r2)
    BY <1>1, <1>2, <2>1, <2>8, <2>9 DEF ProcInv, StageOf, DepsInOrder
  <2>11. Shared(r2)
    BY <1>1, <1>2, <2>1, <2>8, <2>9 DEF ProcInv, Shared
  <2>12. ToSet(proc[p].todo) = {}
    BY <1>4 DEF ToSet
  <2>13. ~r2.spared => \A n \in ModNames : r2.cache.layers[Ref(r2.proj, n)] = NoLayer
    BY <1>1, <1>2, <2>9, <2>12 DEF ProcInv, Committed
  <2>14. Committed(p, r2)
    BY <2>4, <2>5, <2>8, <2>9, <2>13 DEF Committed
  <2>15. r2.at \in Working \ {"record", "record_end"}
    BY <2>8 DEF Working, Stages, Stopped
  <2> QED BY <1>1, <2>4, <2>5, <2>7, <2>8, <2>10, <2>11, <2>14, <2>15, TodoStep
<1> QED BY <1>3, <1>4

(* remove ends with mergeModules, as a build does. *)
LEMMA RemoveAppKeeps ==
    ASSUME BuildInv, NEW p \in Procs, cmdRemoveApp(p)
    PROVE  BuildInv'
<1>1. proc[p].at = "remove" /\ proc[p].at \in Working /\ "merge_end" \in Working
  BY DEF cmdRemoveApp, Working, Stages, Stopped
<1>2. ProcInv(p, proc[p]) /\ merged \subseteq Deps \X Versions
  BY <1>1, AtWork
<1>3. CASE proc[p].todo # <<>>
  BY <1>1, <1>3, RemoveOne DEF cmdRemoveApp
<1>4. CASE proc[p].todo = <<>>
  <2>1. ASSUME NEW r2, Same(r2, proc[p], {"at"}), r2.at = "merge_end"
        PROVE  StageOf(r2) /\ DepsInOrder(r2) /\ Shared(r2) /\ Committed(p, r2)
    <3>1. r2.proj = proc[p].proj /\ r2.cmd = proc[p].cmd /\ r2.imported = proc[p].imported
      BY <2>1 DEF Same, ProcFields
    <3>2. r2.cmd.cmd = "remove"
      BY <3>1, <1>1, <1>2 DEF ProcInv, StageOf
    <3>3. StageOf(r2)
      BY <3>1, <3>2, <2>1, <1>1, <1>2 DEF ProcInv, StageOf
    <3>4. DepsInOrder(r2) /\ Shared(r2) /\ Committed(p, r2)
      BY <3>2, <2>1 DEF DepsInOrder, Shared, Committed
    <3> QED BY <3>3, <3>4
  <2> QED BY <1>1, <1>2, <1>4, <2>1, MoveStep DEF cmdRemoveApp, removeHead, Go, Repository
<1> QED BY <1>3, <1>4

(* The ref is there, and the command ends before the list is written. *)
LEMMA ListFailsKeeps ==
    ASSUME BuildInv, NEW p \in Procs, Live(p), ListFails(p), UNCHANGED <<merged, remote, alone>>,
           repo' \in Refs, repo'.deps = repo.deps
    PROVE  BuildInv'
<1>1. "over" \in Stopped /\ "killed" \in Stopped
  BY DEF Stopped
<1>2. UNCHANGED <<disk, file>>
  BY DEF ListFails
<1>3. CASE Exit(p, -1)
  BY <1>1, <1>2, <1>3, EndStep DEF Exit
<1>4. CASE proc' = [proc EXCEPT ![p] = Over(@, "killed", 0)]
  BY <1>1, <1>2, <1>4, EndStep
<1> QED BY <1>3, <1>4 DEF ListFails

(* A module is committed to a list that has none of the project but those  *)
(* of this build; if it has, one was spared.                               *)
LEMMA ImportModuleKeeps ==
    ASSUME BuildInv, NEW p \in Procs, importModule(p)
    PROVE  BuildInv'
<1>1. proc[p].at = "commit" /\ proc[p].todo # <<>> /\ proc[p].at \in Working
  BY DEF importModule, Working, Stages, Stopped
<1>2. /\ ProcInv(p, proc[p]) /\ ProcTyped(proc[p]) /\ DOMAIN proc = Procs /\ Live(p)
      /\ merged \subseteq Deps \X Versions /\ proc[p].cmd \in Given /\ repo \in Refs
  BY <1>1, AtWork
<1>3. PICK r : r = proc[p]
  OBVIOUS
<1>4. r.todo \in Seq(ModNames) /\ GoodList(r.cache) /\ r.proj \in Projects /\ r.out \in Outputs /\ r.cmd.cmd = "build"
  BY <1>1, <1>2, <1>3 DEF ProcTyped, ProcInv, StageOf
<1>5. PICK n \in ModNames : n = Head(r.todo)
  BY <1>1, <1>3, <1>4, ToSetOfRest
<1>6. PICK t : t = Tail(r.todo)
  OBVIOUS
<1>7. t \in Seq(ModNames) /\ ToSet(r.todo) = {n} \cup ToSet(t)
  BY <1>1, <1>3, <1>4, <1>5, <1>6, ToSetOfRest
<1>8. UNCHANGED <<merged, remote, alone>>
  BY DEF importModule
<1>9. CASE UNCHANGED <<repo, disk, file>> /\ \E code \in {-1, 0} : Exit(p, code)
  BY <1>1, <1>8, <1>9, ExitKeeps DEF Repository
<1>new. PICK x : x = [build |-> p, files |-> r.out.mods[n]]
  OBVIOUS
<1>layer. x \in Layers /\ x.build = p /\ p \in -1 .. MaxProcs
  BY <1>new, <1>4, BuilderAssumption DEF Layers, Outputs, Procs
<1>ref. CASE repo' = [repo EXCEPT !.layers[Ref(r.proj, n)] = x] /\ ListFails(p)
  BY <1>2, <1>4, <1>8, <1>layer, <1>ref, PutRef, ListFailsKeeps
<1>10. CASE /\ ~Has(p, n) /\ repo' = [repo EXCEPT !.layers[Ref(r.proj, n)] = x]
            /\ Save(p, [r.cache EXCEPT !.layers[Ref(r.proj, n)] = x], [r EXCEPT !.todo = Tail(@), !.out.yaml = @ \cup {n}])
  <2>1. x = [build |-> p, files |-> r.out.mods[n]]
    BY <1>new
  <2>2. x \in Layers /\ x.build = p /\ p \in -1 .. MaxProcs
    BY <1>layer
  <2>3. PICK c : c = Put(r.cache, r.proj, n, x)
    OBVIOUS
  <2>4. /\ GoodList(c) /\ c.deps = r.cache.deps /\ c.merged = r.cache.merged
        /\ c.layers[Ref(r.proj, n)] = x
        /\ \A i \in Projects, m \in ModNames : <<i, m>> # <<r.proj, n>> => c.layers[Ref(i, m)] = r.cache.layers[Ref(i, m)]
    BY <2>2, <2>3, <1>4, SetLayer
  <2>5. PICK o : o = [r.out EXCEPT !.yaml = @ \cup {n}]
    OBVIOUS
  <2>6. o \in Outputs /\ o.mods = r.out.mods /\ o.yaml = r.out.yaml \cup {n}
    BY <2>5, <1>4 DEF Outputs
  <2>7. PICK u : u = [r EXCEPT !.todo = t, !.out = o]
    OBVIOUS
  <2>8. u = [r EXCEPT !.todo = Tail(@), !.out.yaml = @ \cup {n}] /\ u.at = "commit"
    BY <1>1, <1>2, <1>3, <1>6, <2>5, <2>7 DEF ProcTyped, ProcFields
  <2>9. PICK r2 : r2 = [u EXCEPT !.cache = c]
    OBVIOUS
  <2>10. Written(c) /\ proc' = [proc EXCEPT ![p] = r2]
    BY <1>10, <2>1, <2>3, <2>8, <2>9 DEF Save, Put
  <2>11. /\ DOMAIN r2 = ProcFields /\ r2.at = "commit" /\ r2.out = o /\ r2.todo = t /\ r2.made = r.made /\ r2.stuck = r.stuck
         /\ r2.cmd = r.cmd /\ r2.proj = r.proj /\ r2.cache = c /\ r2.dep = r.dep /\ r2.mod = r.mod /\ r2.dirs = r.dirs
         /\ r2.spared = r.spared /\ r2.imported = r.imported /\ r2.skew = r.skew /\ r2.code = r.code /\ r2.left = r.left /\ r2.rebuilt = r.rebuilt
    BY <2>7, <2>9, <1>1, <1>2, <1>3 DEF ProcTyped, ProcFields
  <2>12. ProcTyped(r2)
    BY <2>4, <2>6, <2>11, <1>2, <1>3, <1>7 DEF ProcTyped, Stages
  <2>13. StageOf(r2) /\ DepsInOrder(r2)
    BY <2>11, <1>1, <1>2, <1>3 DEF ProcInv, StageOf, DepsInOrder
  <2>14. Shared(r2)
    BY <2>6, <2>11, <1>1, <1>2, <1>3 DEF ProcInv, Shared
  <2>15. /\ ToSet(r.todo) \subseteq Wanted(r.cmd)
         /\ ~r.spared => \A m \in ModNames : r.cache.layers[Ref(r.proj, m)] # NoLayer =>
              m \in r.out.yaml /\ m \in Wanted(r.cmd) /\ r.cache.layers[Ref(r.proj, m)] = [build |-> p, files |-> r.out.mods[m]]
         /\ ~r.spared => \A m \in Wanted(r.cmd) : m \in ToSet(r.todo) \/ r.cache.layers[Ref(r.proj, m)].build = p
    BY <1>1, <1>2, <1>3 DEF ProcInv, Committed
  <2>16. \A m \in ModNames : c.layers[Ref(r.proj, m)] = IF m = n THEN x ELSE r.cache.layers[Ref(r.proj, m)]
    BY <2>4, <1>4
  <2>17. Wanted(r.cmd) \subseteq ModNames
    <3>1. r.cmd.mods \in Seq(ModNames) /\ r.cmd.full \in BOOLEAN
      BY <1>2, <1>3, <1>4, GivenAssumption
    <3> QED BY <3>1, ModulesWanted
  <2>18. Committed(p, r2)
    <3>1. ToSet(r2.todo) \subseteq Wanted(r2.cmd)
      BY <2>11, <2>15, <1>7
    <3>2. ASSUME ~r2.spared, NEW m \in ModNames, r2.cache.layers[Ref(r2.proj, m)] # NoLayer
          PROVE  m \in r2.out.yaml /\ m \in Wanted(r2.cmd) /\ r2.cache.layers[Ref(r2.proj, m)] = [build |-> p, files |-> r2.out.mods[m]]
      <4>1. CASE m = n
        BY <4>1, <2>1, <2>6, <2>11, <2>15, <2>16, <1>7
      <4>2. CASE m # n
        BY <4>2, <3>2, <2>6, <2>11, <2>15, <2>16
      <4> QED BY <4>1, <4>2
    <3>3. ASSUME ~r2.spared, NEW m \in Wanted(r2.cmd)
          PROVE  m \in ToSet(r2.todo) \/ r2.cache.layers[Ref(r2.proj, m)].build = p
      <4>1. CASE m = n
        BY <4>1, <2>2, <2>11, <2>16
      <4>2. CASE m # n
        BY <4>2, <3>3, <2>11, <2>15, <2>16, <2>17, <1>7
      <4> QED BY <4>1, <4>2
    <3> QED BY <3>1, <3>2, <3>3, <2>11 DEF Committed
  <2>19. ProcInv(p, r2)
    BY <2>12, <2>13, <2>14, <2>18 DEF ProcInv
  <2>20. \A j \in Projects : OfOneBuild(proc[p].cache, j) => OfOneBuild(c, j) \/ (j = r2.proj /\ (r2.spared \/ r2.imported))
    <3> SUFFICES ASSUME NEW j \in Projects, OfOneBuild(proc[p].cache, j), ~(j = r2.proj /\ r2.spared) PROVE OfOneBuild(c, j)
      OBVIOUS
    <3>1. CASE j = r.proj
      <4>1. ASSUME NEW m \in ModNames PROVE c.layers[Ref(r.proj, m)] = NoLayer \/ c.layers[Ref(r.proj, m)].build = p
        <5>1. CASE m = n
          BY <5>1, <2>2, <2>16
        <5>2. CASE m # n
          <6>1. ~r.spared
            BY <3>1, <2>11
          <6>2. [build |-> p, files |-> r.out.mods[m]].build = p
            OBVIOUS
          <6>3. CASE r.cache.layers[Ref(r.proj, m)] # NoLayer
            BY <6>1, <6>2, <6>3, <5>2, <2>15, <2>16
          <6>4. CASE r.cache.layers[Ref(r.proj, m)] = NoLayer
            BY <6>4, <5>2, <2>16
          <6> QED BY <6>3, <6>4
        <5> QED BY <5>1, <5>2
      <4>2. NoLayer.build = 0
        BY DEF NoLayer
      <4> QED BY <3>1, <4>1, <4>2, <2>2 DEF OfOneBuild
    <3>2. CASE j # r.proj
      <4>1. \A k \in Projects, m \in ModNames : k # r.proj => c.layers[Ref(k, m)] = r.cache.layers[Ref(k, m)]
        BY <2>4
      <4>2. OfOneBuild(r.cache, j)
        BY <1>3
      <4> QED BY <3>2, <4>1, <4>2 DEF OfOneBuild
    <3> QED BY <3>1, <3>2
  <2>22. Undisturbed => c.merged \subseteq merged'
    BY <1>2, <1>3, <1>8, <2>4 DEF Undisturbed, TrueRecords
  <2>23. repo' \in Refs /\ repo'.deps = repo.deps /\ c.deps = proc[p].cache.deps
    BY <1>2, <1>3, <1>4, <1>layer, <1>10, <2>4, PutRef
  <2>24. r2.at \notin {"none", "record", "record_end", "dead"}
    BY <2>11
  <2>25. merged' \subseteq Deps \X Versions /\ (r2.at \in Working => r2.cache = c)
    BY <1>2, <1>8, <2>11
  <2>26. Keeps(r2, proc[p])
    BY <1>3, <2>11 DEF Keeps
  <2> QED BY <1>2, <1>8, <2>4, <2>10, <2>19, <2>20, <2>22, <2>23, <2>24, <2>25, <2>26, LayerStep
<1> QED BY <1>3, <1>5, <1>new, <1>ref, <1>9, <1>10 DEF importModule

(* A layer file mixes builds, and that is on record. *)
LEMMA ImportLayerKeeps ==
    ASSUME BuildInv, NEW p \in Procs, importLayer(p)
    PROVE  BuildInv'
<1>1. proc[p].at = "import" /\ proc[p].at \in Working
  BY DEF importLayer, Working, Stages, Stopped
<1>2. /\ ProcInv(p, proc[p]) /\ ProcTyped(proc[p]) /\ DOMAIN proc = Procs /\ Live(p)
      /\ merged \subseteq Deps \X Versions /\ repo \in Refs
  BY <1>1, AtWork
<1>3. PICK r : r = proc[p]
  OBVIOUS
<1>4. GoodList(r.cache) /\ r.proj \in Projects /\ r.cmd.cmd = "import"
  BY <1>1, <1>2, <1>3 DEF ProcTyped, ProcInv, StageOf
<1>5. UNCHANGED <<merged, remote, alone>>
  BY DEF importLayer
<1>6. CASE UNCHANGED <<repo, disk, file>> /\ Exit(p, -1)
  BY <1>1, <1>5, <1>6, ExitKeeps DEF Repository
<1>new. PICK x : x = [build |-> p, files |-> {"words"}]
  OBVIOUS
<1>layer. x \in Layers /\ "lang" \in ModNames
  BY <1>new, BuilderAssumption DEF Layers, Files, Procs, ModNames
<1>ref. CASE repo' = [repo EXCEPT !.layers[Ref(r.proj, "lang")] = x] /\ ListFails(p)
  BY <1>2, <1>4, <1>5, <1>layer, <1>ref, PutRef, ListFailsKeeps
<1>7. CASE /\ repo' = [repo EXCEPT !.layers[Ref(r.proj, "lang")] = x]
           /\ Save(p, [r.cache EXCEPT !.layers[Ref(r.proj, "lang")] = x], [r EXCEPT !.at = "over"])
  <2>2. x \in Layers /\ "lang" \in ModNames
    BY <1>layer
  <2>3. PICK c : c = Put(r.cache, r.proj, "lang", x)
    OBVIOUS
  <2>4. /\ GoodList(c) /\ c.deps = r.cache.deps /\ c.merged = r.cache.merged
        /\ \A i \in Projects, m \in ModNames : <<i, m>> # <<r.proj, "lang">> => c.layers[Ref(i, m)] = r.cache.layers[Ref(i, m)]
    BY <2>2, <2>3, <1>4, SetLayer
  <2>5. PICK u : u = [r EXCEPT !.at = "over"]
    OBVIOUS
  <2>6. "over" \in Stages /\ "over" \in Stopped
    BY DEF Stages, Stopped
  <2>7. ProcTyped(u) /\ u.at = "over" /\ Same(u, r, {"at"})
    BY <2>5, <2>6, <1>2, <1>3, MovedIsTyped
  <2>8. u.proj = r.proj /\ u.spared = r.spared /\ u.skew = r.skew /\ u.cmd = r.cmd /\ u.left = r.left /\ u.rebuilt = r.rebuilt
    BY <2>7 DEF Same, ProcFields
  <2>9. PICK r2 : r2 = Over(u, "over", 0)
    OBVIOUS
  <2>10. Written(c) /\ proc' = [proc EXCEPT ![p] = r2]
    BY <1>7, <2>3, <2>5, <2>7, <2>9 DEF Save, Put
  <2>11. /\ ProcInv(p, r2) /\ r2.at = "over" /\ r2.proj = r.proj /\ r2.spared = r.spared /\ r2.skew = r.skew
         /\ r2.imported = (u.cmd.cmd = "import") /\ r2.left = r.left /\ r2.rebuilt = r.rebuilt
    BY <2>6, <2>7, <2>8, <2>9, EndedIsFine
  <2>12. r2.imported
    BY <2>8, <2>11, <1>4
  <2>13. \A j \in Projects : OfOneBuild(proc[p].cache, j) => OfOneBuild(c, j) \/ (j = r2.proj /\ (r2.spared \/ r2.imported))
    <3> SUFFICES ASSUME NEW j \in Projects, OfOneBuild(r.cache, j), j # r.proj PROVE OfOneBuild(c, j)
      BY <2>11, <2>12, <1>3
    <3>1. \A m \in ModNames : c.layers[Ref(j, m)] = r.cache.layers[Ref(j, m)]
      BY <2>4
    <3> QED BY <3>1 DEF OfOneBuild
  <2>15. Undisturbed => c.merged \subseteq merged'
    BY <1>2, <1>3, <1>5, <2>4 DEF Undisturbed, TrueRecords
  <2>16. repo' \in Refs /\ repo'.deps = repo.deps /\ c.deps = proc[p].cache.deps
    BY <1>2, <1>3, <1>4, <1>layer, <1>7, <2>4, PutRef
  <2>17. r2.at \notin {"none", "record", "record_end", "dead"} /\ r2.at \notin Working
    BY <2>11 DEF Working, Stopped
  <2>18. merged' \subseteq Deps \X Versions
    BY <1>2, <1>5
  <2>19. Keeps(r2, proc[p])
    BY <1>3, <2>11 DEF Keeps
  <2> QED BY <1>2, <1>5, <2>4, <2>10, <2>11, <2>13, <2>15, <2>16, <2>17, <2>18, <2>19, LayerStep
<1> QED BY <1>3, <1>new, <1>ref, <1>6, <1>7 DEF importLayer

(* The records become those of the list, and the directories theirs. *)
LEMMA RecordKeeps ==
    ASSUME BuildInv, NEW p \in Procs, updateMergedItems(p)
    PROVE  BuildInv'
<1>1. proc[p].at \in {"record", "record_end"} /\ proc[p].at \in Working
  BY DEF updateMergedItems, Working, Stages, Stopped
<1>2. /\ ProcInv(p, proc[p]) /\ ProcTyped(proc[p]) /\ DOMAIN proc = Procs /\ Live(p)
      /\ merged \subseteq Deps \X Versions /\ repo \in Refs
  BY <1>1, AtWork
<1>3. PICK r : r = proc[p]
  OBVIOUS
<1>4. GoodList(r.cache) /\ r.proj \in Projects
  BY <1>2, <1>3 DEF ProcTyped
<1>5. PICK c : c = [r.cache EXCEPT !.merged = Mergeable(r.cache)]
  OBVIOUS
<1>6. Mergeable(r.cache) \subseteq Deps \X Versions
  BY DEF Mergeable
<1>7. c \in Lists /\ c.deps = r.cache.deps /\ c.merged = Mergeable(r.cache) /\ c.layers = r.cache.layers
  BY <1>4, <1>5, <1>6 DEF GoodList, Lists
<1>8. Mergeable(c) = Mergeable(r.cache)
  BY <1>7 DEF Mergeable
<1>9. GoodList(c)
  BY <1>7, <1>8 DEF GoodList
<1>10. PICK at : at = IF r.at = "record" THEN "dir" ELSE "over"
  OBVIOUS
<1>11. PICK u : u = [r EXCEPT !.at = at]
  OBVIOUS
<1>12. at \in Stages
  BY <1>10 DEF Stages
<1>13. ProcTyped(u) /\ u.at = at /\ Same(u, r, {"at"})
  BY <1>2, <1>3, <1>11, <1>12, MovedIsTyped
<1>14. /\ u.proj = r.proj /\ u.cmd = r.cmd /\ u.dep = r.dep /\ u.mod = r.mod /\ u.dirs = r.dirs /\ u.todo = r.todo
       /\ u.out = r.out /\ u.made = r.made /\ u.stuck = r.stuck /\ u.spared = r.spared /\ u.imported = r.imported /\ u.skew = r.skew /\ u.code = r.code /\ u.left = r.left /\ u.rebuilt = r.rebuilt
  BY <1>13 DEF Same, ProcFields
<1>15. PICK r2 : r2 = IF at = "over" THEN Over(u, "over", 0) ELSE [u EXCEPT !.cache = c]
  OBVIOUS
<1>16. /\ Written(c) /\ proc' = [proc EXCEPT ![p] = r2] /\ merged' = merged \cap c.merged
       /\ UNCHANGED <<repo, remote, alone>>
  <2>1. u = [proc[p] EXCEPT !.at = IF @ = "record" THEN "dir" ELSE "over"]
    BY <1>2, <1>3, <1>10, <1>11 DEF ProcTyped, ProcFields
  <2>2. c = [Cache(p) EXCEPT !.merged = Mergeable(Cache(p))]
    BY <1>3, <1>5 DEF Cache
  <2> QED BY <2>1, <2>2, <1>13, <1>15 DEF updateMergedItems, Save
<1>17. /\ ProcInv(p, r2) /\ r2.at = at /\ r2.proj = r.proj /\ r2.spared = r.spared /\ r2.skew = r.skew
       /\ r2.left = r.left /\ r2.rebuilt = r.rebuilt
       /\ r2.at \in Working => r2.cache = c
  <2>1. CASE at = "over"
    <3>1. r2 = Over(u, "over", 0) /\ "over" \in Stopped /\ "over" \notin Working
      BY <2>1, <1>15 DEF Stopped, Working
    <3> QED BY <2>1, <3>1, <1>13, <1>14, EndedIsFine
  <2>2. CASE at # "over"
    <3>1. at = "dir" /\ r.at = "record" /\ r2 = [u EXCEPT !.cache = c]
      BY <2>2, <1>10, <1>15
    <3>2. /\ DOMAIN r2 = ProcFields /\ r2.at = "dir" /\ r2.out = r.out /\ r2.todo = r.todo /\ r2.made = r.made /\ r2.stuck = r.stuck
          /\ r2.cmd = r.cmd /\ r2.proj = r.proj /\ r2.cache = c /\ r2.dep = r.dep /\ r2.mod = r.mod /\ r2.dirs = r.dirs
          /\ r2.spared = r.spared /\ r2.imported = r.imported /\ r2.skew = r.skew /\ r2.code = r.code /\ r2.left = r.left /\ r2.rebuilt = r.rebuilt
      BY <3>1, <1>13, <1>14 DEF ProcTyped, ProcFields
    <3>3. ProcTyped(r2)
      BY <3>2, <1>2, <1>3, <1>9 DEF ProcTyped, Stages
    <3>4. StageOf(r2)
      BY <3>1, <3>2, <1>1, <1>2, <1>3 DEF ProcInv, StageOf
    <3>5. DepsInOrder(r2)
      BY <3>1, <3>2, <1>2, <1>3, <1>7, <1>8 DEF ProcInv, DepsInOrder
    <3>6. Shared(r2) /\ Committed(p, r2)
      BY <3>1, <3>2, <1>2, <1>3 DEF ProcInv, Shared, Committed
    <3> QED BY <3>1, <3>2, <3>3, <3>4, <3>5, <3>6 DEF ProcInv
  <2> QED BY <2>1, <2>2
<1>18. r2.at \notin {"none", "record", "record_end", "dead"}
  BY <1>10, <1>17
<1>20. Undisturbed => c.merged \subseteq merged'
  BY <1>1, <1>3, <1>7, <1>16 DEF Undisturbed, TrueRecords
<1>21. repo' \in Refs /\ repo'.deps = repo.deps /\ c.deps = proc[p].cache.deps
  BY <1>2, <1>3, <1>7, <1>16
<1>22. \A j \in Projects : OfOneBuild(proc[p].cache, j) => OfOneBuild(c, j) \/ (j = r2.proj /\ (r2.spared \/ r2.imported))
  BY <1>3, <1>7 DEF OfOneBuild
<1>23. Keeps(r2, proc[p])
  BY <1>3, <1>17 DEF Keeps
<1>24. merged' \subseteq Deps \X Versions
  BY <1>2, <1>16
<1> QED BY <1>2, <1>9, <1>16, <1>17, <1>18, <1>20, <1>21, <1>22, <1>23, <1>24, LayerStep

(* A dependency of a project. *)
LEMMA DepIsDep ==
    ASSUME NEW j \in Projects, NEW i \in 1 .. Len(DepsOf(j))
    PROVE  DepsOf(j)[i] \in Deps
  BY DEF Projects, DepsOf, Deps

(* The newest of some versions is one of them. *)
LEMMA NewestIsVersion ==
    ASSUME NEW S \in SUBSET Versions, S # {}
    PROVE  Newest(S) \in Versions
<1>1. CASE 2 \in S
  <2>1. \A w \in S : 2 >= w
    BY DEF Versions
  <2>2. Newest(S) \in S
    BY <1>1, <2>1 DEF Newest
  <2> QED BY <2>2
<1>2. CASE 2 \notin S
  <2>1. S = {1}
    BY <1>2 DEF Versions
  <2> QED BY <2>1 DEF Versions, Newest
<1> QED BY <1>1, <1>2

(* After a module of a dependency, with the list l it is in. *)
LEMMA NextDepIsFine ==
    ASSUME NEW p \in Procs, NEW r, ProcInv(p, r), r.at = "deps", NEW v \in Versions,
           NEW l, GoodList(l),
           r.cmd.cmd = "build" => r.cmd.offline \in BOOLEAN /\ (~r.cmd.offline => HasMod(l.deps, DepsOf(r.proj)[r.dep], v, r.mod)),
           NEW r2, Same(r2, NextDep(r, v), {"cache"}), r2.cache = l
    PROVE  /\ ProcInv(p, r2) /\ Keeps(r2, r)
           /\ r.mod = "develop" /\ r.ver # v => r2.skew
           /\ r2.at \in {"deps", "merge", "dir"}
<1>1. DOMAIN r = ProcFields
  BY DEF ProcInv, ProcTyped
<1>dep. PICK dep : dep = IF r.cmd.cmd = "run" /\ r.dep < Len(DepsOf(r.proj)) THEN r.dep + 1 ELSE r.dep
  OBVIOUS
<1>dirs. PICK dirs : dirs = [r.dirs EXCEPT ![DepsOf(r.proj)[r.dep]] = [kind |-> "none", v |-> v]]
  OBVIOUS
<1>2. /\ DOMAIN r2 = ProcFields /\ r2.ver = v /\ r2.out = r.out /\ r2.todo = r.todo /\ r2.made = r.made /\ r2.stuck = r.stuck
      /\ r2.cmd = r.cmd /\ r2.proj = r.proj /\ r2.cache = l /\ r2.dep = dep /\ r2.dirs = dirs
      /\ r2.spared = r.spared /\ r2.imported = r.imported /\ r2.code = r.code /\ r2.left = r.left /\ r2.rebuilt = r.rebuilt
      /\ r2.skew = (r.skew \/ (r.mod = "develop" /\ r.ver # v))
      /\ r2.mod = (IF r.cmd.cmd = "build" /\ r.mod = "binary" THEN "develop" ELSE "binary")
      /\ r2.at = IF (r.cmd.cmd = "build" /\ r.mod = "binary") \/ (r.cmd.cmd = "run" /\ r.dep < Len(DepsOf(r.proj)))
                   THEN "deps" ELSE IF r.cmd.cmd = "uab" THEN "dir" ELSE "merge"
  <2>1. PICK again : again = (r.cmd.cmd = "build" /\ r.mod = "binary")
    OBVIOUS
  <2>2. PICK other : other = (r.cmd.cmd = "run" /\ r.dep < Len(DepsOf(r.proj)))
    OBVIOUS
  <2>3. PICK skew : skew = (r.skew \/ (r.mod = "develop" /\ r.ver # v))
    OBVIOUS
  <2>4. PICK mod : mod = IF again THEN "develop" ELSE "binary"
    OBVIOUS
  <2>5. PICK at : at = IF again \/ other THEN "deps" ELSE IF r.cmd.cmd = "uab" THEN "dir" ELSE "merge"
    OBVIOUS
  <2>6. NextDep(r, v) = [r EXCEPT !.skew = skew, !.ver = v, !.dirs = dirs, !.mod = mod, !.dep = dep, !.at = at]
    BY <2>1, <2>2, <2>3, <2>4, <2>5, <1>1, <1>dep, <1>dirs DEF NextDep, ProcFields
  <2>7. /\ DOMAIN r2 = ProcFields /\ r2.ver = v /\ r2.out = r.out /\ r2.todo = r.todo /\ r2.made = r.made /\ r2.stuck = r.stuck
        /\ r2.cmd = r.cmd /\ r2.proj = r.proj /\ r2.cache = l /\ r2.dep = dep /\ r2.dirs = dirs
        /\ r2.spared = r.spared /\ r2.imported = r.imported /\ r2.code = r.code /\ r2.left = r.left /\ r2.rebuilt = r.rebuilt
        /\ r2.skew = skew /\ r2.mod = mod /\ r2.at = at
    <3>1. PICK u : u = NextDep(r, v)
      OBVIOUS
    <3>2. /\ u.ver = v /\ u.out = r.out /\ u.todo = r.todo /\ u.made = r.made /\ u.stuck = r.stuck
          /\ u.cmd = r.cmd /\ u.proj = r.proj /\ u.dep = dep /\ u.dirs = dirs
          /\ u.spared = r.spared /\ u.imported = r.imported /\ u.code = r.code /\ u.left = r.left /\ u.rebuilt = r.rebuilt
          /\ u.skew = skew /\ u.mod = mod /\ u.at = at
      BY <2>6, <3>1, <1>1 DEF ProcFields
    <3>3. DOMAIN r2 = ProcFields /\ \A f \in ProcFields \ {"cache"} : r2[f] = u[f]
      BY <3>1 DEF Same
    <3> QED BY <3>2, <3>3 DEF ProcFields
  <2> QED BY <2>1, <2>2, <2>3, <2>4, <2>5, <2>7
<1>3. ProcTyped(r2)
  <2>1. r2.skew \in BOOLEAN
    BY <1>2
  <2>2. r2.at \in Stages /\ r2.mod \in Pulled
    BY <1>2 DEF Stages, Pulled
  <2>3. dep \in 1 .. Len(DepsOf(r.proj))
    <3>1. Len(DepsOf(r.proj)) \in Nat /\ r.dep \in 1 .. Len(DepsOf(r.proj))
      BY DEF ProcInv, ProcTyped, DepsOf
    <3>2. PICK k \in Nat : k = Len(DepsOf(r.proj))
      BY <3>1
    <3>3. r.dep \in 1 .. k /\ dep = IF r.cmd.cmd = "run" /\ r.dep < k THEN r.dep + 1 ELSE r.dep
      BY <3>1, <3>2, <1>dep
    <3>4. dep \in 1 .. k
      BY <3>3
    <3> QED BY <3>2, <3>4
  <2>4. DOMAIN dirs = Deps
    BY <1>dirs DEF ProcInv, ProcTyped
  <2> QED BY <1>2, <2>1, <2>2, <2>3, <2>4 DEF ProcInv, ProcTyped
<1>4. StageOf(r2)
  <2>1. r.cmd.cmd \in {"build", "run", "uab"} /\ r.cmd \in Given /\ r.proj = r.cmd.proj /\ ~r.imported
    BY DEF ProcInv, StageOf, Working, Stages, Stopped
  <2>2. r2.at \in {"deps", "merge", "dir"} /\ (r2.at = "merge" => r.cmd.cmd # "uab")
    BY <1>2
  <2> QED BY <1>2, <2>1, <2>2 DEF StageOf
<1>5. DepsInOrder(r2)
  <2>1. r.mod \in Pulled
    BY DEF ProcInv, ProcTyped
  <2>2. r.mod = "develop" => r.cmd.cmd = "build"
    BY DEF ProcInv, DepsInOrder
  <2>3. r2.at = "dir" => r2.cmd.cmd = "uab"
    BY <1>2
  <2>4. CASE r.cmd.cmd = "build"
    <3>1. dep = r.dep
      BY <1>dep, <2>4
    <3>2. CASE r.mod = "binary"
      BY <1>2, <2>4, <3>1, <3>2 DEF DepsInOrder
    <3>3. CASE r.mod # "binary"
      BY <1>2, <2>3, <2>4, <3>3 DEF DepsInOrder
    <3> QED BY <3>2, <3>3
  <2>5. CASE r.cmd.cmd # "build"
    BY <1>2, <2>3, <2>5 DEF DepsInOrder
  <2> QED BY <2>4, <2>5
<1>6. Shared(r2)
  BY <1>2 DEF ProcInv, Shared
<1>7. Committed(p, r2)
  BY <1>2 DEF Committed
<1>8. Keeps(r2, r)
  BY <1>2 DEF Keeps
<1>9. r.mod = "develop" /\ r.ver # v => r2.skew
  BY <1>2
<1> QED BY <1>2, <1>3, <1>4, <1>5, <1>6, <1>7, <1>8, <1>9 DEF ProcInv

(* A pull of the develop module of a base without its binary module is a   *)
(* skew, or the main module is an old one.                                 *)
LEMMA PullsInOrder ==
    ASSUME BuildInv, NEW p \in Procs, proc[p].at = "deps", Pulls(p), NEW r2,
           proc[p].mod = "develop" /\ proc[p].ver # Meant(p) => r2.skew,
           repo' = [repo EXCEPT !.deps = @ \cup {Branch(p)}]
    PROVE  /\ Branch(p) \in Deps \X Versions \X Kept /\ Meant(p) \in Versions
           /\ HasMod({Branch(p)}, Dep(p), Meant(p), proc[p].mod)
           /\ RefsGrow(r2) /\ repo'.deps = repo.deps \cup {Branch(p)}
           /\ NoSkew /\ ~r2.skew /\ DevelopHasBinary(proc[p].cache) =>
                \A v \in Versions : Branch(p) = DepKey("base", v, "develop") => DepKey("base", v, "binary") \in proc[p].cache.deps
<1>1. proc[p].at \in Working
  BY DEF Working, Stages, Stopped
<1>2. /\ ProcInv(p, proc[p]) /\ ProcTyped(proc[p]) /\ Live(p) /\ proc[p].cmd \in Given
      /\ repo \in Refs /\ remote \in [Deps -> [v : Versions, main : Mains]] /\ (AllAlone => Undisturbed)
  BY <1>1, AtWork
<1>3. PICK r : r = proc[p]
  OBVIOUS
<1>4. r.proj \in Projects /\ r.dep \in 1 .. Len(DepsOf(r.proj)) /\ r.mod \in Pulled
  BY <1>2, <1>3 DEF ProcTyped
<1>5. PICK d \in Deps : d = DepsOf(r.proj)[r.dep]
  BY <1>4, DepIsDep
<1>6. d = Dep(p)
  BY <1>3, <1>5 DEF Dep
<1>7. PICK v \in Versions : v = remote[d].v
  BY <1>2, <1>5
<1>8. PICK mn \in Mains : mn = remote[d].main
  BY <1>2, <1>5
<1>9. Meant(p) = v
  BY <1>6, <1>7 DEF Pulls, Meant
<1>10. PICK n : n = IF r.mod = "binary" THEN mn ELSE "develop"
  OBVIOUS
<1>11. Branch(p) = DepKey(d, v, n) /\ n \in Kept
  BY <1>3, <1>6, <1>8, <1>9, <1>10 DEF Branch, Mains, Kept
<1>12. Branch(p) \in Deps \X Versions \X Kept
  BY <1>5, <1>7, <1>11 DEF DepKey
<1>13. repo' \in Refs /\ repo'.deps = repo.deps \cup {Branch(p)}
  BY <1>2, <1>12 DEF Refs
<1>14. HasMod({Branch(p)}, Dep(p), Meant(p), proc[p].mod)
  BY <1>3, <1>4, <1>6, <1>8, <1>9, <1>10, <1>11 DEF HasMod, Pulled, Mains
<1>15. RefsKept
  BY DEF BuildInv
<1>16. ASSUME NEW w \in Versions, DepKey("base", w, "runtime") \in repo'.deps PROVE remote["base"].main = "runtime"
  <2>1. CASE DepKey("base", w, "runtime") \in repo.deps
    BY <2>1, <1>15 DEF RefsKept, NoOldBase
  <2>2. CASE DepKey("base", w, "runtime") = DepKey(d, v, n)
    <3>1. d = "base" /\ n = "runtime"
      BY <2>2 DEF DepKey
    <3> QED BY <3>1, <1>8, <1>10
  <2> QED BY <2>1, <2>2, <1>11, <1>13, <1>16
<1>17. ASSUME NoSkew, ~r2.skew, NEW w \in Versions, Branch(p) = DepKey("base", w, "develop")
       PROVE  DepKey("base", w, "binary") \in r.cache.deps
  <2>1. d = "base" /\ v = w /\ n = "develop"
    BY <1>11, <1>17 DEF DepKey
  <2>2. r.mod = "develop"
    BY <2>1, <1>4, <1>8, <1>10 DEF Pulled, Mains
  <2>3. r.ver = v
    BY <2>2, <1>3, <1>9, <1>17
  <2>4. r.cmd.cmd = "build" /\ ~r.cmd.offline
    BY <2>2, <1>2, <1>3 DEF ProcInv, DepsInOrder, Pulls, Offline
  <2>5. HasMod(r.cache.deps, d, v, "binary")
    BY <2>2, <2>3, <2>4, <1>2, <1>3, <1>5 DEF ProcInv, DepsInOrder
  <2>6. DepKey("base", w, "runtime") \notin r.cache.deps
    BY <1>2, <1>3, <1>15, <1>17 DEF RefsKept, NoOldBase, NoSkew
  <2> QED BY <2>1, <2>5, <2>6 DEF HasMod
<1>18. ASSUME AllAlone, NoSkew, ~r2.skew PROVE DevelopHasBinary(repo')
  <2>1. DevelopHasBinary(repo) /\ r.cache.deps \subseteq repo.deps
    BY <1>2, <1>3, <1>15, <1>18 DEF Undisturbed, WholeBase, RefsKept
  <2> SUFFICES ASSUME NEW w \in Versions, DepKey("base", w, "develop") \in repo'.deps
               PROVE  DepKey("base", w, "binary") \in repo'.deps
    BY DEF DevelopHasBinary
  <2>2. CASE DepKey("base", w, "develop") \in repo.deps
    BY <2>1, <2>2, <1>13 DEF DevelopHasBinary
  <2>3. CASE DepKey("base", w, "develop") = Branch(p)
    BY <2>1, <2>3, <1>13, <1>17, <1>18
  <2> QED BY <2>2, <2>3, <1>13
<1>19. RefsGrow(r2)
  BY <1>13, <1>16, <1>18 DEF RefsGrow
<1> QED BY <1>3, <1>9, <1>12, <1>13, <1>14, <1>17, <1>19

(* A pull adds the module to the refs and to the list. *)
LEMMA PullKeeps ==
    ASSUME BuildInv, NEW p \in Procs, pullDependency(p)
    PROVE  BuildInv'
<1>1. proc[p].at = "deps" /\ proc[p].at \in Working
  BY DEF pullDependency, Working, Stages, Stopped
<1>2. /\ ProcInv(p, proc[p]) /\ ProcTyped(proc[p]) /\ DOMAIN proc = Procs /\ Live(p) /\ proc[p].cmd \in Given
      /\ merged \subseteq Deps \X Versions /\ remote \in [Deps -> [v : Versions, main : Mains]]
  BY <1>1, AtWork
<1>3. PICK r : r = proc[p]
  OBVIOUS
<1>4. GoodList(r.cache) /\ r.proj \in Projects /\ r.dep \in 1 .. Len(DepsOf(r.proj)) /\ r.mod \in Pulled /\ DOMAIN r = ProcFields
  BY <1>2, <1>3 DEF ProcTyped
<1>5. PICK d \in Deps : d = DepsOf(r.proj)[r.dep]
  BY <1>4, DepIsDep
<1>6. d = Dep(p)
  BY <1>3, <1>5 DEF Dep
<1>7. UNCHANGED <<merged, remote, alone>>
  BY DEF pullDependency
<1>8. Local(p, d) \in SUBSET Versions
  BY DEF Local
<1>9. r.cmd.cmd = "build" => r.cmd.offline \in BOOLEAN
  BY <1>2, <1>3, GivenAssumption
<1>10. r.cmd.cmd = "build" => (Offline(p) <=> r.cmd.offline)
  BY <1>3, <1>9 DEF Offline
<1>v. PICK v : v = Meant(p)
  OBVIOUS
<1>11. CASE Exit(p, -1) /\ UNCHANGED <<repo, disk, file>>
  BY <1>1, <1>7, <1>11, ExitKeeps DEF Repository
<1>12. CASE ~Pulls(p) /\ ~(Offline(p) /\ Local(p, d) = {})
  <2>1. v \in Versions
    <3>1. remote[d].v \in Versions
      BY <1>2, <1>5
    <3> QED BY <3>1, <1>6, <1>8, <1>12, <1>v, NewestIsVersion DEF Meant
  <2>2. proc' = [proc EXCEPT ![p] = NextDep(r, v)] /\ UNCHANGED Repository
    BY <1>3, <1>6, <1>7, <1>12, <1>v DEF pullDependency, Repository
  <2>3. PICK r2 : r2 = NextDep(r, v)
    OBVIOUS
  <2>4. Same(r2, NextDep(r, v), {"cache"}) /\ r2.cache = r.cache
    BY <2>3, <1>4 DEF NextDep, ProcFields, Same
  <2>5. r.cmd.cmd = "build" => (~r.cmd.offline => HasMod(r.cache.deps, DepsOf(r.proj)[r.dep], v, r.mod))
    BY <1>3, <1>5, <1>6, <1>10, <1>12, <1>v DEF Pulls, Cache
  <2>6. ProcInv(p, r2) /\ Keeps(r2, r) /\ r2.at \in {"deps", "merge", "dir"}
    BY <1>1, <1>2, <1>3, <1>4, <1>9, <2>1, <2>4, <2>5, NextDepIsFine
  <2>7. r2.at \in Working \ {"record", "record_end"}
    BY <2>6 DEF Working, Stages, Stopped
  <2> QED BY <1>1, <1>3, <2>2, <2>3, <2>4, <2>6, <2>7, OwnStep
<1>13. CASE Pulls(p) /\ Branch(p) \notin repo.deps
  <2>1. PICK k : k = Branch(p)
    OBVIOUS
  <2>2. PICK c : c = [r.cache EXCEPT !.deps = @ \cup {k}]
    OBVIOUS
  <2>3. PICK u : u = NextDep(r, v)
    OBVIOUS
  <2>4. PICK r2 : r2 = [u EXCEPT !.cache = c]
    OBVIOUS
  <2>5. u.at \in {"deps", "merge", "dir"}
    BY <2>3, <1>4 DEF NextDep, ProcFields
  <2>6. repo' = [repo EXCEPT !.deps = @ \cup {k}] /\ Save(p, c, u)
    BY <1>3, <1>13, <1>v, <2>1, <2>2, <2>3 DEF pullDependency, Cache
  <2>7. Written(c) /\ proc' = [proc EXCEPT ![p] = r2]
    BY <2>4, <2>5, <2>6 DEF Save
  <2>8. Same(r2, NextDep(r, v), {"cache"}) /\ r2.cache = c
    BY <2>3, <2>4, <1>4 DEF NextDep, ProcFields, Same
  <2>9. r2.skew = (r.skew \/ (r.mod = "develop" /\ r.ver # v))
    BY <2>3, <2>4, <1>4 DEF NextDep, ProcFields
  <2>10. r.mod = "develop" /\ r.ver # v => r2.skew
    BY <2>9
  <2>11. /\ k \in Deps \X Versions \X Kept /\ v \in Versions /\ HasMod({k}, d, v, r.mod)
         /\ RefsGrow(r2) /\ repo'.deps = repo.deps \cup {k}
         /\ NoSkew /\ ~r2.skew /\ DevelopHasBinary(r.cache) =>
              \A w \in Versions : k = DepKey("base", w, "develop") => DepKey("base", w, "binary") \in r.cache.deps
    BY <1>1, <1>3, <1>6, <1>13, <1>v, <2>1, <2>6, <2>10, PullsInOrder
  <2>12. c \in Lists /\ c.deps = r.cache.deps \cup {k} /\ c.merged = r.cache.merged /\ c.layers = r.cache.layers
    BY <2>2, <2>11, <1>4 DEF GoodList, Lists
  <2>13. Mergeable(r.cache) \subseteq Mergeable(c)
    BY <2>12 DEF Mergeable
  <2>14. GoodList(c)
    BY <2>12, <2>13, <1>4 DEF GoodList
  <2>15. HasMod(c.deps, DepsOf(r.proj)[r.dep], v, r.mod)
    BY <2>11, <2>12, <1>5 DEF HasMod
  <2>16. ProcInv(p, r2) /\ Keeps(r2, r) /\ r2.at \in {"deps", "merge", "dir"}
    BY <1>1, <1>2, <1>3, <1>4, <1>9, <2>8, <2>11, <2>14, <2>15, NextDepIsFine
  <2>17. Undisturbed => c.merged \subseteq merged'
    BY <1>2, <1>3, <1>7, <2>12 DEF Undisturbed, TrueRecords
  <2>18. ASSUME Undisturbed, NoSkew, ~r2.skew PROVE DevelopHasBinary(c)
    <3>1. DevelopHasBinary(r.cache)
      BY <1>2, <1>3, <2>18 DEF Undisturbed, WholeBase
    <3> QED BY <3>1, <2>11, <2>12, <2>18 DEF DevelopHasBinary
  <2>19. \A j \in Projects : OfOneBuild(proc[p].cache, j) => OfOneBuild(c, j) \/ (j = r2.proj /\ (r2.spared \/ r2.imported))
    BY <1>3, <2>12 DEF OfOneBuild
  <2>20. r2.at \notin {"none", "record", "record_end", "dead"} /\ merged' \subseteq Deps \X Versions
    BY <1>2, <1>7, <2>16
  <2>21. c.deps \subseteq repo'.deps /\ (repo.deps \subseteq proc[p].cache.deps => repo'.deps \subseteq c.deps)
    BY <1>2, <1>3, <2>11, <2>12 DEF BuildInv, RefsKept
  <2> QED BY <1>2, <1>3, <1>7, <2>7, <2>8, <2>11, <2>14, <2>16, <2>17, <2>18, <2>19, <2>20, <2>21, SaveStep
<1> QED BY <1>6, <1>11, <1>12, <1>13 DEF pullDependency

(* A pull that ends between the ref and the list leaves the ref, and that  *)
(* is on record.                                                           *)
LEMMA InterruptedKeeps ==
    ASSUME BuildInv, NEW p \in Procs, pullInterrupted(p)
    PROVE  BuildInv'
<1>1. proc[p].at = "deps" /\ proc[p].at \in Working /\ Pulls(p)
  BY DEF pullInterrupted, Working, Stages, Stopped
<1>2. /\ ProcInv(p, proc[p]) /\ ProcTyped(proc[p]) /\ DOMAIN proc = Procs /\ Live(p) /\ merged \subseteq Deps \X Versions
  BY <1>1, AtWork
<1>3. PICK r : r = proc[p]
  OBVIOUS
<1>4. r.proj \in Projects /\ r.spared \in BOOLEAN /\ r.skew \in BOOLEAN /\ r.rebuilt \in BOOLEAN /\ DOMAIN r = ProcFields
  BY <1>2, <1>3 DEF ProcTyped
<1>5. PICK u : u = [NextDep(r, Meant(p)) EXCEPT !.left = TRUE]
  OBVIOUS
<1>6. PICK at, code : proc' = [proc EXCEPT ![p] = Over(u, at, code)] /\ at \in {"over", "killed"} /\ code \in {-1, 0}
  BY <1>3, <1>5 DEF pullInterrupted
<1>7. /\ UNCHANGED <<disk, file, merged, remote, alone>> /\ repo' = [repo EXCEPT !.deps = @ \cup {Branch(p)}]
      /\ at \in Stopped /\ at \notin {"dead", "none", "record", "record_end"} /\ at \notin Working
  BY <1>6 DEF pullInterrupted, Stopped, Working
<1>8. /\ u.proj = r.proj /\ u.spared = r.spared /\ u.left = TRUE /\ u.rebuilt = r.rebuilt /\ u.cmd = r.cmd
      /\ u.skew = (r.skew \/ (r.mod = "develop" /\ r.ver # Meant(p)))
  BY <1>4, <1>5 DEF NextDep, ProcFields
<1>9. PICK w : w = [r EXCEPT !.skew = u.skew, !.left = TRUE]
  OBVIOUS
<1>10. ProcTyped(w) /\ Over(w, at, code) = Over(u, at, code)
  <2>1. DOMAIN w = ProcFields /\ w.at = r.at /\ w.proj = r.proj /\ w.cache = r.cache /\ w.dep = r.dep /\ w.mod = r.mod
        /\ w.dirs = r.dirs /\ w.todo = r.todo /\ w.out = r.out /\ w.made = r.made /\ w.stuck = r.stuck /\ w.spared = r.spared
        /\ w.imported = r.imported /\ w.skew = u.skew /\ w.code = r.code /\ w.left = TRUE /\ w.rebuilt = r.rebuilt /\ w.cmd = r.cmd
    BY <1>4, <1>9 DEF ProcFields
  <2>2. u.skew \in BOOLEAN /\ w.left \in BOOLEAN
    BY <1>8, <2>1
  <2>3. ProcTyped(w)
    BY <2>1, <2>2, <1>2, <1>3 DEF ProcTyped
  <2>4. Over(w, at, code) = Over(u, at, code)
    BY <2>1, <1>8 DEF Over
  <2> QED BY <2>3, <2>4
<1>11. PICK r2 : r2 = Over(w, at, code)
  OBVIOUS
<1>12. /\ ProcInv(p, r2) /\ r2.at = at /\ r2.proj = w.proj /\ r2.spared = w.spared /\ r2.skew = w.skew
       /\ r2.left = w.left /\ r2.rebuilt = w.rebuilt
  BY <1>6, <1>7, <1>10, <1>11, EndedIsFine
<1>13. w.proj = r.proj /\ w.spared = r.spared /\ w.skew = u.skew /\ w.left = TRUE /\ w.rebuilt = r.rebuilt
  BY <1>4, <1>9 DEF ProcFields
<1>14. Keeps(r2, proc[p]) /\ r2.left
  BY <1>3, <1>8, <1>12, <1>13 DEF Keeps
<1>15. r.mod = "develop" /\ r.ver # Meant(p) => r2.skew
  BY <1>8, <1>12, <1>13
<1>16. RefsGrow(r2)
  BY <1>1, <1>3, <1>7, <1>15, PullsInOrder
<1>17. proc' = [proc EXCEPT ![p] = r2]
  BY <1>6, <1>10, <1>11
<1>18. r2.at \notin {"dead", "none", "record", "record_end"} /\ r2.at \notin Working
  BY <1>7, <1>12
<1> QED BY <1>2, <1>7, <1>12, <1>14, <1>16, <1>17, <1>18, RefsStep

(* With both modules there is a merged directory: the fallback of a base   *)
(* is not reached while commands follow one another, no version appeared   *)
(* between the two pulls and the base has no old main module.              *)
LEMMA NoFallback ==
    ASSUME BuildInv, NEW p \in Procs, proc[p].at = "dir", DirOf(p).kind = "undefined", AllAlone, NoSkew
    PROVE  FALSE
<1>1. proc[p].at \in Working
  BY DEF Working, Stages, Stopped
<1>2. ProcInv(p, proc[p]) /\ ProcTyped(proc[p]) /\ Live(p) /\ Undisturbed
  BY <1>1, AtWork
<1>l. PICK l : l = proc[p].cache
  OBVIOUS
<1>3. GoodList(l) /\ l.merged \subseteq merged /\ DevelopHasBinary(l)
  BY <1>2, <1>l DEF Undisturbed, TrueRecords, WholeBase, ProcTyped
<1>4. PICK d : d = Dep(p)
  OBVIOUS
<1>5. PICK v : v = proc[p].dirs[d].v
  OBVIOUS
<1>6. PICK item : item = (<<d, v>> \in l.merged /\ DepKey(d, v, "binary") \in l.deps /\ <<d, v>> \in merged)
  OBVIOUS
<1>7. ~(proc[p].cmd.cmd = "uab") /\ ~item /\ d # "runtime" /\ DepKey(d, v, "develop") \in l.deps
  <2>1. \A kind \in {"binary", "merged", "develop"}, ok \in BOOLEAN : [kind |-> IF ok THEN kind ELSE "none", v |-> v].kind # "undefined"
    OBVIOUS
  <2>2. NoDir.kind # "undefined"
    BY DEF NoDir
  <2> QED BY <2>2, <1>l, <1>4, <1>5, <1>6 DEF DirOf, Cache, HasMod
<1>8. l.merged = Mergeable(l)
  BY <1>2, <1>l, <1>7 DEF ProcInv, DepsInOrder
<1>9. d \in Deps /\ v \in Versions
  BY <1>3, <1>7 DEF GoodList, Lists, DepKey
<1>10. d = "base"
  BY <1>7, <1>9 DEF Deps
<1>11. DepKey(d, v, "binary") \in l.deps
  BY <1>3, <1>7, <1>9, <1>10 DEF DevelopHasBinary
<1>12. <<d, v>> \in Mergeable(l)
  BY <1>7, <1>9, <1>11 DEF Mergeable
<1> QED BY <1>3, <1>6, <1>7, <1>8, <1>11, <1>12

(* A directory is found, or the command ends. *)
LEMMA DirKeeps ==
    ASSUME BuildInv, NEW p \in Procs, getMergedModuleDir(p)
    PROVE  BuildInv'
<1>1. proc[p].at = "dir" /\ proc[p].at \in Working
  BY DEF getMergedModuleDir, Working, Stages, Stopped
<1>2. ProcInv(p, proc[p]) /\ ProcTyped(proc[p]) /\ DOMAIN proc = Procs /\ Live(p)
  BY <1>1, AtWork
<1>3. UNCHANGED Repository
  BY DEF getMergedModuleDir
<1>4. PICK dir : dir = DirOf(p)
  OBVIOUS
<1>runs. PICK runs : runs = (proc[p].cmd.cmd = "run")
  OBVIOUS
<1>5. PICK last : last = (proc[p].dep = IF runs THEN 1 ELSE Len(DepsOf(proc[p].proj)))
  OBVIOUS
<1>6. CASE dir.kind = "none"
  BY <1>1, <1>3, <1>4, <1>6, ExitKeeps DEF getMergedModuleDir
<1>7. CASE dir.kind = "undefined"
  <2>1. PICK at \in {"dead", "over"} : proc' = [proc EXCEPT ![p] = Over(@, at, -1)]
    BY <1>4, <1>7 DEF getMergedModuleDir
  <2>2. at \in Stopped /\ ~(AllAlone /\ NoSkew)
    BY <1>1, <1>4, <1>7, NoFallback DEF Stopped
  <2>3. repo \in Refs
    BY DEF BuildInv, RepoTyped
  <2> QED BY <1>2, <1>3, <2>1, <2>2, <2>3, EndStep DEF Repository
<1>8. CASE dir.kind \notin {"none", "undefined"}
  <2>1. PICK dirs : dirs = [proc[p].dirs EXCEPT ![Dep(p)] = dir]
    OBVIOUS
  <2>2. PICK dep : dep = IF last THEN proc[p].dep ELSE IF runs THEN proc[p].dep - 1 ELSE proc[p].dep + 1
    OBVIOUS
  <2>3. PICK at : at = IF last THEN "ready" ELSE IF runs THEN "dir" ELSE "deps"
    OBVIOUS
  <2>4. PICK r2 : r2 = [proc[p] EXCEPT !.dirs = dirs, !.dep = dep, !.at = at]
    OBVIOUS
  <2>5. proc' = [proc EXCEPT ![p].dirs[Dep(p)] = dir, ![p].dep = IF last THEN @ ELSE IF runs THEN @ - 1 ELSE @ + 1,
                             ![p].at = IF last THEN "ready" ELSE IF runs THEN "dir" ELSE "deps"]
    BY <1>4, <1>5, <1>8, <1>runs DEF getMergedModuleDir
  <2>6. proc' = [proc EXCEPT ![p] = r2]
    BY <1>2, <2>1, <2>2, <2>3, <2>4, <2>5 DEF ProcTyped, ProcFields
  <2>7. /\ DOMAIN r2 = ProcFields /\ r2.at = at /\ r2.dep = dep /\ r2.dirs = dirs
        /\ r2.out = proc[p].out /\ r2.todo = proc[p].todo /\ r2.made = proc[p].made /\ r2.stuck = proc[p].stuck
        /\ r2.cmd = proc[p].cmd /\ r2.proj = proc[p].proj /\ r2.cache = proc[p].cache /\ r2.mod = proc[p].mod
        /\ r2.spared = proc[p].spared /\ r2.imported = proc[p].imported /\ r2.skew = proc[p].skew /\ r2.code = proc[p].code /\ r2.left = proc[p].left /\ r2.rebuilt = proc[p].rebuilt
    BY <1>2, <2>4 DEF ProcTyped, ProcFields
  <2>8. DOMAIN dirs = Deps /\ at \in Stages
    BY <1>2, <2>1, <2>3 DEF ProcTyped, Stages
  <2>9. dep \in 1 .. Len(DepsOf(proc[p].proj))
    <3>1. Len(DepsOf(proc[p].proj)) \in Nat /\ proc[p].dep \in 1 .. Len(DepsOf(proc[p].proj))
      BY <1>2 DEF ProcTyped, DepsOf
    <3>2. PICK k \in Nat : k = Len(DepsOf(proc[p].proj))
      BY <3>1
    <3>3. CASE last
      BY <3>1, <3>3, <2>2
    <3>4. CASE ~last
      <4>1. dep = (IF runs THEN proc[p].dep - 1 ELSE proc[p].dep + 1) /\ proc[p].dep \in 1 .. k /\ proc[p].dep # IF runs THEN 1 ELSE k
        BY <3>1, <3>2, <3>4, <1>5, <2>2
      <4>2. dep \in 1 .. k
        BY <4>1
      <4> QED BY <4>2, <3>2
    <3> QED BY <3>3, <3>4
  <2>10. ProcTyped(r2)
    BY <1>2, <2>7, <2>8, <2>9 DEF ProcTyped
  <2>11. StageOf(r2)
    BY <1>1, <1>2, <2>3, <2>7 DEF ProcInv, StageOf
  <2>12. DepsInOrder(r2) /\ Shared(r2) /\ Committed(p, r2)
    BY <1>1, <1>2, <2>3, <2>7 DEF ProcInv, DepsInOrder, Shared, Committed
  <2>13. ProcInv(p, r2)
    BY <2>10, <2>11, <2>12 DEF ProcInv
  <2>14. r2.at \in Working \ {"record", "record_end"}
    BY <2>3, <2>7 DEF Working, Stages, Stopped
  <2> QED BY <1>1, <1>3, <2>6, <2>7, <2>13, <2>14, OwnStep DEF Keeps
<1> QED BY <1>6, <1>7, <1>8

(* A command begins with the list as it is on disk, or as the refs give    *)
(* it: then it is on record that the list was made again.                  *)
LEMMA BeginKeeps ==
    ASSUME BuildInv, NEW p \in Procs, NEW c \in Given, Begin(p, c)
    PROVE  BuildInv'
<1>1. /\ proc[p].at = "none" /\ DOMAIN proc = Procs /\ RepoTyped /\ \A q \in Procs : ProcInv(q, proc[q])
      /\ UNCHANGED <<repo, merged, remote>>
  BY DEF BuildInv, Begin
<1>2. PICK at : at = CASE c.cmd = "build" -> "fetch" [] c.cmd \in {"run", "uab"} -> "deps"
                       [] c.cmd = "import" -> "import" [] OTHER -> "list"
  OBVIOUS
<1>l. PICK l : l = IF file = "short" THEN Rebuilt ELSE disk
  OBVIOUS
<1>s. PICK short : short = (file = "short")
  OBVIOUS
<1>3. PICK r2 : r2 = [NoProc EXCEPT !.cmd = c, !.proj = c.proj, !.cache = l, !.rebuilt = short, !.at = at]
  OBVIOUS
<1>4. proc' = [proc EXCEPT ![p] = r2]
  BY <1>2, <1>3, <1>l, <1>s DEF Begin
<1>5. /\ DOMAIN r2 = ProcFields /\ r2.at = at /\ r2.cmd = c /\ r2.proj = c.proj /\ r2.cache = l
      /\ r2.dep = 1 /\ r2.mod = "binary" /\ r2.dirs = [d \in Deps |-> NoDir] /\ r2.todo = <<>> /\ r2.out = NoOut
      /\ r2.made = {} /\ r2.stuck = {} /\ r2.spared = FALSE /\ r2.imported = FALSE /\ r2.skew = FALSE
      /\ r2.left = FALSE /\ r2.rebuilt = short /\ r2.code = 0
  BY <1>3 DEF NoProc, ProcFields
<1>6. c.proj \in Projects /\ c.cmd \in {"build", "run", "push", "uab", "layer", "import", "remove"}
  BY GivenAssumption
<1>7. /\ at \in {"fetch", "deps", "import", "list"} /\ (at = "fetch" => c.cmd = "build")
      /\ (at = "deps" => c.cmd \in {"run", "uab"}) /\ (at = "import" => c.cmd = "import")
      /\ (at = "list" => c.cmd \in {"push", "layer", "remove"})
  BY <1>2, <1>6
<1>r. GoodList(l) /\ l.deps \subseteq repo.deps /\ (file = "short" => l.deps = repo.deps /\ l.merged = {}) /\ (file # "short" => l = disk)
  <2>1. CASE file = "short"
    <3>1. l = [layers |-> repo.layers, deps |-> repo.deps, merged |-> {}] /\ repo \in Refs
      BY <2>1, <1>l, <1>1 DEF Rebuilt, RepoTyped
    <3>2. l \in Lists /\ l.deps = repo.deps /\ l.merged = {}
      BY <3>1 DEF Lists, Refs
    <3> QED BY <2>1, <3>2 DEF GoodList
  <2>2. CASE file # "short"
    BY <2>2, <1>l, <1>1 DEF RepoTyped, BuildInv, RefsKept
  <2> QED BY <2>1, <2>2
<1>d. \/ disk' = l /\ file' = "whole"
      \/ file = "short" /\ disk' = NoList /\ file' = "short"
  BY <1>l, <1>1 DEF Begin, Written, RepoTyped
<1>8. ProcInv(p, r2)
  <2>1. NoOut \in Outputs /\ \A n \in ModNames : NoOut.mods[n] = {}
    BY DEF NoOut, Outputs
  <2>2. 1 \in 1 .. Len(DepsOf(c.proj))
    BY DEF DepsOf
  <2>3. at \in Stages
    BY <1>7 DEF Stages
  <2>4. ProcTyped(r2)
    <3>1. <<>> \in Seq(ModNames) /\ DOMAIN [d \in Deps |-> NoDir] = Deps
      OBVIOUS
    <3>2. r2.spared \in BOOLEAN /\ r2.imported \in BOOLEAN /\ r2.skew \in BOOLEAN /\ r2.left \in BOOLEAN /\ r2.rebuilt \in BOOLEAN
      BY <1>5, <1>s
    <3> QED BY <3>1, <3>2, <1>5, <1>6, <1>r, <2>1, <2>2, <2>3 DEF ProcTyped, Pulled
  <2>5. StageOf(r2)
    BY <1>5, <1>7 DEF StageOf
  <2>6. DepsInOrder(r2) /\ Shared(r2) /\ Committed(p, r2)
    BY <1>5, <1>7, <2>1 DEF DepsInOrder, Shared, Committed
  <2> QED BY <2>4, <2>5, <2>6 DEF ProcInv
<1>9. proc'[p] = r2 /\ DOMAIN proc' = Procs /\ \A q \in Procs \ {p} : proc'[q] = proc[q]
  BY <1>1, <1>4
<1>10. \A q \in Procs : ProcInv(q, proc'[q])
  BY <1>1, <1>8, <1>9
<1>11. alone' = [o \in Procs |-> IF o = p THEN \A q \in Procs : ~Live(q) ELSE alone[o] /\ ~Live(o)]
  BY DEF Begin
<1>12. alone' \in [Procs -> BOOLEAN]
  BY <1>1, <1>11 DEF RepoTyped
<1>13. ASSUME NEW q \in Procs, proc'[q].at = "none" PROVE alone'[q]
  <2>1. q # p
    BY <1>5, <1>7, <1>9, <1>13
  <2>2. proc[q].at = "none" /\ alone[q] /\ ~Live(q)
    BY <1>1, <1>9, <1>13, <2>1 DEF RepoTyped, Live
  <2> QED BY <1>11, <2>1, <2>2
<1>14. RepoTyped'
  <2>1. GoodList(disk') /\ file' \in {"whole", "short"} /\ (file' = "short" => disk' = NoList)
    BY <1>d, <1>r, NoListIsGood
  <2> QED BY <2>1, <1>1, <1>12, <1>13 DEF RepoTyped
<1>15. CopiesOfOneBuild'
  <2>1. ASSUME NEW j \in Projects
        PROVE  Spoilt(j)' \/ (OfOneBuild(disk', j) /\ \A q \in Procs : Live(q)' => OfOneBuild(proc'[q].cache, j))
    <3>0. CASE file = "short"
      BY <3>0, <1>s, <1>5, <1>9 DEF Spoilt
    <3>1. CASE Spoilt(j)
      <4>1. PICK q \in Procs : proc[q].rebuilt \/ (proc[q].proj = j /\ (proc[q].spared \/ proc[q].imported))
        BY <3>1 DEF Spoilt
      <4>2. CASE q # p
        BY <4>1, <4>2, <1>9 DEF Spoilt
      <4>3. CASE q = p
        \* a command that has not begun has spoilt nothing
        BY <4>1, <4>3, <1>1 DEF ProcInv, StageOf
      <4> QED BY <4>2, <4>3
    <3>2. CASE file # "short" /\ OfOneBuild(disk, j) /\ \A q \in Procs : Live(q) => OfOneBuild(proc[q].cache, j)
      <4>0. l = disk /\ disk' = disk
        BY <3>2, <1>r, <1>d
      <4>1. ASSUME NEW q \in Procs, Live(q)' PROVE OfOneBuild(proc'[q].cache, j)
        <5>1. CASE q = p
          BY <3>2, <4>0, <5>1, <1>5, <1>9
        <5>2. CASE q # p
          BY <3>2, <4>1, <5>2, <1>9 DEF Live
        <5> QED BY <5>1, <5>2
      <4> QED BY <3>2, <4>0, <4>1
    <3> QED BY <3>0, <3>1, <3>2 DEF BuildInv, CopiesOfOneBuild
  <2> QED BY <2>1 DEF CopiesOfOneBuild
<1>16. RefsKept'
  <2>1. disk'.deps \subseteq repo'.deps
    BY <1>1, <1>d, <1>r, NoListIsGood
  <2>2. ASSUME NEW q \in Procs, Live(q)' PROVE proc'[q].cache.deps \subseteq repo'.deps
    <3>1. CASE q = p
      BY <3>1, <1>1, <1>5, <1>9, <1>r
    <3>2. CASE q # p
      BY <2>2, <3>2, <1>1, <1>9 DEF BuildInv, RefsKept, Live
    <3> QED BY <3>1, <3>2
  <2>3. NoOldBase(repo)'
    BY <1>1 DEF BuildInv, RefsKept, NoOldBase
  <2> QED BY <2>1, <2>2, <2>3, <1>1 DEF BuildInv, RefsKept
<1>17. ASSUME AllAlone' PROVE Undisturbed'
  <2>1. \A q \in Procs : ~Live(q)
    BY <1>11, <1>17 DEF AllAlone
  <2>2. AllAlone
    <3>1. \A q \in Procs \ {p} : alone[q]
      BY <1>11, <1>17 DEF AllAlone
    <3> QED BY <3>1, <1>1 DEF AllAlone, RepoTyped
  <2>3. TrueRecords /\ ListedRefs /\ WholeBase
    BY <2>2 DEF BuildInv, Undisturbed
  <2>4. \A q \in Procs : Live(q)' => q = p
    BY <2>1, <1>9 DEF Live
  <2>5. \A q \in Procs : Live(q)' => proc'[q].cache = l
    BY <2>4, <1>5, <1>9
  <2>6. l.merged \subseteq merged' /\ disk'.merged \subseteq merged'
    BY <2>3, <1>1, <1>d, <1>r, NoListIsGood DEF TrueRecords
  <2>7. \A q \in Procs : proc'[q].at \notin {"record", "record_end"}
    BY <2>4, <1>5, <1>7, <1>9 DEF Live, Stopped
  <2>8. TrueRecords'
    <3>1. \A q \in Procs : Live(q)' => (file' = "whole" => proc'[q].cache = disk') /\ proc'[q].cache.merged \subseteq merged'
      BY <2>5, <2>6, <1>d
    <3>2. \A q, o \in Procs : Live(q)' /\ Live(o)' => q = o
      BY <2>4
    <3> QED BY <3>1, <3>2, <2>6, <2>7 DEF TrueRecords
  <2>9. ListedRefs'
    <3>1. CASE \E q \in Procs : proc[q].left
      <4>1. PICK q \in Procs : proc[q].left
        BY <3>1
      <4>2. q # p
        BY <4>1, <1>1 DEF ProcInv, StageOf
      <4> QED BY <4>1, <4>2, <1>9 DEF ListedRefs
    <3>2. CASE file = "whole" => repo.deps \subseteq disk.deps
      <4>1. repo'.deps \subseteq l.deps
        BY <3>2, <1>1, <1>r DEF RepoTyped
      <4> QED BY <4>1, <2>5, <1>d DEF ListedRefs
    <3> QED BY <3>1, <3>2, <2>3 DEF ListedRefs
  <2>10. WholeBase'
    <3> SUFFICES ASSUME NoSkew'
                 PROVE  /\ DevelopHasBinary(disk') /\ DevelopHasBinary(repo')
                        /\ \A q \in Procs : Live(q)' => DevelopHasBinary(proc'[q].cache)
                        /\ \A q \in Procs : proc'[q].at # "dead"
      BY DEF WholeBase
    <3>1. NoSkew
      \* nor is its skew set
      BY <1>9, <1>1 DEF NoSkew, ProcInv, StageOf
    <3>2. DevelopHasBinary(disk) /\ DevelopHasBinary(repo) /\ \A q \in Procs : proc[q].at # "dead"
      BY <2>3, <3>1 DEF WholeBase
    <3>3. DevelopHasBinary(l)
      BY <3>2, <1>r DEF DevelopHasBinary
    <3>4. DevelopHasBinary(disk') /\ DevelopHasBinary(repo')
      BY <3>2, <3>3, <1>1, <1>d, NoListIsGood
    <3>5. \A q \in Procs : proc'[q].at # "dead"
      BY <3>2, <1>5, <1>7, <1>9
    <3> QED BY <2>5, <3>3, <3>4, <3>5
  <2> QED BY <2>8, <2>9, <2>10 DEF Undisturbed
<1> QED BY <1>9, <1>10, <1>14, <1>15, <1>16, <1>17 DEF BuildInv

(* The server has a new version. *)
LEMMA PublishKeeps ==
    ASSUME BuildInv, NEW d \in Deps, NEW mn \in Mains, Publish(d, mn)
    PROVE  BuildInv'
<1>0. RepoTyped /\ \A e \in Deps : remote[e].v = 1
  BY DEF BuildInv, Publish
<1>1. UNCHANGED <<disk, file, repo, merged, proc, alone>>
  BY DEF Publish
<1>n. PICK new : new = [v |-> 2, main |-> mn]
  OBVIOUS
<1>2. new \in [v : Versions, main : Mains] /\ new.v = 2 /\ new.main = mn
  BY <1>n DEF Versions
<1>3. remote' = [remote EXCEPT ![d] = new] /\ remote \in [Deps -> [v : Versions, main : Mains]]
  BY <1>0, <1>n DEF Publish, RepoTyped
<1>4. remote' \in [Deps -> [v : Versions, main : Mains]] /\ remote'[d] = new /\ \A e \in Deps \ {d} : remote'[e] = remote[e]
  BY <1>2, <1>3
<1>5. RepoTyped'
  BY <1>0, <1>1, <1>4 DEF RepoTyped
<1>6. CopiesOfOneBuild'
  BY <1>1 DEF BuildInv, CopiesOfOneBuild, Spoilt, Live
<1>7. remote["base"].main = "binary" /\ \A v \in Versions : DepKey("base", v, "runtime") \notin repo.deps
  \* an old base has not been there yet
  BY <1>0 DEF BuildInv, RefsKept, NoOldBase, Deps
<1>8. RefsKept'
  <2>1. disk'.deps \subseteq repo'.deps /\ \A q \in Procs : Live(q)' => proc'[q].cache.deps \subseteq repo'.deps
    BY <1>1 DEF BuildInv, RefsKept, Live
  <2>2. remote'["base"].v = 1 => remote'["base"].main = "binary"
    BY <1>2, <1>4, <1>7 DEF Deps
  <2>3. NoOldBase(repo)'
    BY <1>1, <1>7 DEF NoOldBase
  <2> QED BY <2>1, <2>2, <2>3 DEF RefsKept
<1>9. ASSUME AllAlone' PROVE Undisturbed'
  <2>1. TrueRecords /\ ListedRefs /\ WholeBase
    BY <1>1, <1>9 DEF BuildInv, AllAlone, Undisturbed
  <2>2. TrueRecords'
    BY <1>1, <2>1 DEF TrueRecords, Live
  <2>3. ListedRefs'
    BY <1>1, <2>1 DEF ListedRefs, Live
  <2>4. NoSkew' => NoSkew
    BY <1>1, <1>7 DEF NoSkew
  <2>5. WholeBase'
    BY <1>1, <2>1, <2>4 DEF WholeBase, Live
  <2> QED BY <2>2, <2>3, <2>5 DEF Undisturbed
<1> QED BY <1>1, <1>5, <1>6, <1>8, <1>9 DEF BuildInv

(* The invariant holds when no command was given. *)
LEMMA BuildInitInv == BuildInit => BuildInv
<1> SUFFICES ASSUME BuildInit PROVE BuildInv
  OBVIOUS
<1>1. NoLayer \in Layers /\ [build |-> -1, files |-> {"words"}] \in Layers
  BY BuilderAssumption DEF NoLayer, Layers, Files
<1>2. /\ disk \in Lists /\ disk.merged = {<<"base", 1>>} /\ disk.deps = {DepKey("base", 1, "binary"), DepKey("base", 1, "develop")}
      /\ \A k \in Keys : disk.layers[k] = NoLayer \/ disk.layers[k] = [build |-> -1, files |-> {"words"}]
  <2>1. PICK f : f = [k \in Keys |-> IF k \in {Ref("app", "binary"), Ref("app", "lang")}
                                     THEN [build |-> -1, files |-> {"words"}] ELSE NoLayer]
    OBVIOUS
  <2>2. f \in [Keys -> Layers] /\ \A k \in Keys : f[k] = NoLayer \/ f[k] = [build |-> -1, files |-> {"words"}]
    BY <2>1, <1>1
  <2>3. PICK deps : deps = {DepKey("base", 1, n) : n \in {"binary", "develop"}}
    OBVIOUS
  <2>4. deps = {DepKey("base", 1, "binary"), DepKey("base", 1, "develop")}
    BY <2>3
  <2>5. deps \subseteq Deps \X Versions \X Kept
    BY <2>4 DEF DepKey, Deps, Versions, Kept
  <2>6. {<<"base", 1>>} \subseteq Deps \X Versions
    BY DEF Deps, Versions
  <2>7. disk = [layers |-> f, deps |-> deps, merged |-> {<<"base", 1>>}]
    BY <2>1, <2>3 DEF BuildInit, Keys
  <2> QED BY <2>2, <2>4, <2>5, <2>6, <2>7 DEF Lists
<1>3. GoodList(disk)
  <2>1. <<"base", 1>> \in Mergeable(disk)
    BY <1>2 DEF Mergeable, Deps, Versions
  <2> QED BY <1>2, <2>1 DEF GoodList
<1>r. repo \in Refs /\ repo.deps = disk.deps
  <2>1. repo = [layers |-> disk.layers, deps |-> disk.deps]
    BY DEF BuildInit
  <2> QED BY <2>1, <1>2 DEF Refs, Lists
<1>s. remote \in [Deps -> [v : Versions, main : Mains]] /\ remote["base"].main = "binary"
  <2>1. PICK mn \in Mains : mn = RuntimeMain
    BY ServerAssumption DEF Mains
  <2>2. remote = [d \in Deps |-> [v |-> 1, main |-> IF d = "runtime" THEN mn ELSE "binary"]]
    BY <2>1 DEF BuildInit
  <2> QED BY <2>2 DEF Deps, Versions, Mains
<1>4. RepoTyped
  <2>1. file = "whole" /\ merged \subseteq Deps \X Versions /\ alone \in [Procs -> BOOLEAN] /\ \A q \in Procs : alone[q]
    BY DEF BuildInit, Deps, Versions
  <2> QED BY <2>1, <1>3, <1>r, <1>s DEF RepoTyped
<1>5. DOMAIN proc = Procs /\ \A q \in Procs : proc[q] = NoProc
  BY DEF BuildInit
<1>6. /\ DOMAIN NoProc = ProcFields /\ NoProc.at = "none" /\ NoProc.proj = "app" /\ NoProc.cache = NoList /\ NoProc.dep = 1
      /\ NoProc.mod = "binary" /\ NoProc.dirs = [d \in Deps |-> NoDir] /\ NoProc.todo = <<>> /\ NoProc.out = NoOut
      /\ NoProc.made = {} /\ NoProc.stuck = {} /\ NoProc.spared = FALSE /\ NoProc.imported = FALSE /\ NoProc.skew = FALSE
      /\ NoProc.left = FALSE /\ NoProc.rebuilt = FALSE /\ NoProc.code = 0
  BY DEF NoProc, ProcFields
<1>7. ASSUME NEW q \in Procs PROVE ProcInv(q, proc[q])
  <2>2. GoodList(NoList)
    BY NoListIsGood
  <2>3. NoOut \in Outputs /\ 1 \in 1 .. Len(DepsOf("app"))
    BY DEF NoOut, Outputs, DepsOf
  <2>4. <<>> \in Seq(ModNames) /\ DOMAIN [d \in Deps |-> NoDir] = Deps
    OBVIOUS
  <2>5. NoProc.spared \in BOOLEAN /\ NoProc.imported \in BOOLEAN /\ NoProc.skew \in BOOLEAN /\ NoProc.left \in BOOLEAN /\ NoProc.rebuilt \in BOOLEAN
    BY <1>6
  <2>6. ProcTyped(NoProc)
    BY <1>6, <2>2, <2>3, <2>4, <2>5 DEF ProcTyped, Stages, Projects, Pulled
  <2>7. StageOf(NoProc) /\ DepsInOrder(NoProc) /\ Shared(NoProc) /\ Committed(q, NoProc)
    BY <1>6 DEF StageOf, Working, DepsInOrder, Shared, Committed
  <2> QED BY <1>5, <2>6, <2>7 DEF ProcInv
<1>8. \A q \in Procs : ~Live(q) /\ proc[q].at = "none"
  BY <1>5, <1>6 DEF Live
<1>9. CopiesOfOneBuild
  <2>1. NoLayer.build = 0 /\ [build |-> -1, files |-> {"words"}].build = -1 /\ -1 \in -1 .. MaxProcs
    BY BuilderAssumption DEF NoLayer
  <2>2. \A j \in Projects, n \in ModNames : disk.layers[Ref(j, n)].build \in {0, -1}
    BY <1>2, <2>1 DEF Ref, Keys
  <2>3. \A j \in Projects : OfOneBuild(disk, j)
    BY <2>1, <2>2 DEF OfOneBuild
  <2> QED BY <1>8, <2>3 DEF CopiesOfOneBuild
<1>10. RefsKept
  <2>1. \A v \in Versions : DepKey("base", v, "runtime") \notin repo.deps
    BY <1>2, <1>r DEF DepKey
  <2> QED BY <2>1, <1>8, <1>r, <1>s DEF RefsKept, NoOldBase
<1>11. Undisturbed
  <2>1. TrueRecords
    <3>1. disk.merged \subseteq merged
      BY <1>2 DEF BuildInit
    <3> QED BY <3>1, <1>8 DEF TrueRecords
  <2>2. ListedRefs
    BY <1>8, <1>r DEF ListedRefs
  <2>3. DevelopHasBinary(disk) /\ DevelopHasBinary(repo)
    BY <1>2, <1>r DEF DevelopHasBinary, DepKey
  <2>4. WholeBase
    BY <2>3, <1>8 DEF WholeBase
  <2> QED BY <2>1, <2>2, <2>4 DEF Undisturbed
<1> QED BY <1>4, <1>5, <1>7, <1>9, <1>10, <1>11 DEF BuildInv

(* Every step keeps the invariant. *)
LEMMA BuildNextInv == BuildInv /\ [BuildNext]_buildVars => BuildInv'
<1> SUFFICES ASSUME BuildInv, [BuildNext]_buildVars PROVE BuildInv'
  OBVIOUS
<1>1. CASE UNCHANGED buildVars
  <2>1. RepoTyped' /\ CopiesOfOneBuild' /\ RefsKept'
    BY <1>1 DEF buildVars, BuildInv, RepoTyped, CopiesOfOneBuild, Spoilt, Live, RefsKept, NoOldBase
  <2>2. TrueRecords => TrueRecords'
    BY <1>1 DEF buildVars, TrueRecords, Live
  <2>3. ListedRefs => ListedRefs'
    BY <1>1 DEF buildVars, ListedRefs, Live
  <2>4. WholeBase => WholeBase'
    BY <1>1 DEF buildVars, WholeBase, NoSkew, Live
  <2>5. (AllAlone => Undisturbed)'
    BY <1>1, <2>2, <2>3, <2>4 DEF buildVars, BuildInv, AllAlone, Undisturbed
  <2> QED BY <1>1, <2>1, <2>5 DEF buildVars, BuildInv
<1>2. CASE \E p \in Procs, c \in Given : Begin(p, c)
  BY <1>2, BeginKeeps
<1>3. CASE \E d \in Deps, mn \in Mains : Publish(d, mn)
  BY <1>3, PublishKeeps
<1>4. CASE \E p \in Procs : Killed(p)
  BY <1>4, KilledKeeps
<1>5. ASSUME NEW p \in Procs, Step(p) PROVE BuildInv'
  <2>1. CASE pullDependency(p) \/ pullInterrupted(p) \/ mergeModules(p) \/ updateMergedItems(p) \/ getMergedModuleDir(p)
    BY <2>1, PullKeeps, InterruptedKeeps, MergeKeeps, RecordKeeps, DirKeeps
  <2>2. CASE prepare(p) \/ runContainer(p) \/ installModules(p) \/ installEach(p)
    BY <2>2, PrepareKeeps, RunContainerKeeps, InstallModulesKeeps, InstallEachKeeps
  <2>3. CASE removeOld(p) \/ importModule(p) \/ committed(p) \/ fetchSources(p) \/ generateEntries(p)
    BY <2>3, RemoveOldKeeps, ImportModuleKeeps, CommittedKeeps, FetchKeeps, EntriesKeeps
  <2>4. CASE runApp(p) \/ exportUAB(p) \/ AppEnds(p)
    BY <2>4, RunKeeps
  <2>5. CASE list(p) \/ exportLayer(p) \/ push(p) \/ uploadTaskInfo(p) \/ importLayer(p) \/ cmdRemoveApp(p)
    BY <2>5, ListKeeps, ExportLayerKeeps, PushKeeps, UploadKeeps, ImportLayerKeeps, RemoveAppKeeps
  <2>6. CASE proc[p].at \in Fallible /\ Fails(p)
    BY <2>6, FailsKeeps
  <2> QED BY <1>5, <2>1, <2>2, <2>3, <2>4, <2>5, <2>6 DEF Step
<1> QED BY <1>1, <1>2, <1>3, <1>4, <1>5 DEF BuildNext

(* The invariant says what RepositorySound says. *)
LEMMA InvIsSound == BuildInv => RepositorySound
<1> SUFFICES ASSUME BuildInv PROVE RepositorySound
  OBVIOUS
<1>1. RepoTyped /\ \A q \in Procs : ProcTyped(proc[q])
  BY DEF BuildInv, ProcInv
<1>2. BuildTypeOK
  <2>1. \A q \in Procs : proc[q].todo \in Seq(ModNames) /\ proc[q].code \in {-1, 0}
    BY <1>1 DEF ProcTyped
  <2>2. disk \in Lists /\ disk.merged \subseteq Mergeable(disk)
    BY <1>1 DEF RepoTyped, GoodList
  <2>3. /\ disk.layers \in [Projects \X ModNames -> [build : -1 .. MaxProcs, files : SUBSET Files]]
        /\ disk.deps \subseteq Deps \X Versions \X {"binary", "runtime", "develop"}
    BY <2>2 DEF Lists, Keys, Layers, Kept
  <2>4. repo.layers \in [Projects \X ModNames -> [build : -1 .. MaxProcs, files : SUBSET Files]]
    BY <1>1 DEF RepoTyped, Refs, Keys, Layers
  <2> QED BY <1>1, <2>1, <2>2, <2>3, <2>4 DEF BuildTypeOK, RepoTyped
<1>3. OneBuild
  <2> SUFFICES ASSUME NEW j \in Projects, ~Spoilt(j)
               PROVE  Cardinality({disk.layers[Ref(j, n)].build : n \in ModNames} \ {0}) <= 1
    BY DEF OneBuild, Spoilt
  <2>1. PICK b \in -1 .. MaxProcs : \A n \in ModNames : disk.layers[Ref(j, n)].build \in {0, b}
    BY DEF BuildInv, CopiesOfOneBuild, OfOneBuild
  <2>2. PICK S : S = {disk.layers[Ref(j, n)].build : n \in ModNames} \ {0}
    OBVIOUS
  <2>3. S \in SUBSET {b}
    BY <2>1, <2>2
  <2>4. IsFiniteSet({b}) /\ Cardinality({b}) = 1
    BY FS_Singleton
  <2>5. Cardinality(S) <= 1
    BY <2>3, <2>4, FS_Subset
  <2> QED BY <2>2, <2>5
<1>4. RecordsHaveDirs
  BY DEF BuildInv, RecordsHaveDirs, AllAlone, Undisturbed, TrueRecords
<1>5. DiesOnlyOfSkew
  <2>1. remote["base"].main \in {"binary", "runtime"}
    BY <1>1 DEF RepoTyped, Deps, Mains
  <2> SUFFICES ASSUME NEW p \in Procs, proc[p].at = "dead", AllAlone, NoSkew PROVE FALSE
    BY <2>1 DEF DiesOnlyOfSkew, AllAlone, NoSkew
  <2> QED BY DEF BuildInv, Undisturbed, WholeBase
<1>6. PullsAgain
  BY DEF BuildInv, PullsAgain, AllAlone, Undisturbed, ListedRefs
<1> QED BY <1>2, <1>3, <1>4, <1>5, <1>6 DEF RepositorySound

(* RepositorySound: whatever is killed, fails or runs beside it, the list  *)
(* has the modules of a project from one build, unless a module could not  *)
(* be removed, was imported, or the list was made again; and while         *)
(* commands follow one another a merged record has its directory, no build *)
(* dies of the error of a result without one unless the versions of two    *)
(* modules differ or the base is an old one, and a ref that is in no list  *)
(* was left by a pull that was interrupted.                                *)
THEOREM RepositoryStaysSound == BuildSpec => []RepositorySound
<1>1. BuildInv => RepositorySound
  BY InvIsSound
<1> QED BY <1>1, BuildInitInv, BuildNextInv, PTL DEF BuildSpec

-----------------------------------------------------------------------------
(* What a build that returns 0 has done                                    *)

(* A step of a command changes no other. *)
LEMMA StepIsOwn ==
    ASSUME DOMAIN proc = Procs, NEW q \in Procs, Step(q), NEW p \in Procs, p # q
    PROVE  proc'[p] = proc[p]
<1>1. CASE pullDependency(q) \/ pullInterrupted(q) \/ mergeModules(q) \/ updateMergedItems(q)
  BY <1>1 DEF pullDependency, pullInterrupted, mergeModules, updateMergedItems, Save, Go, Exit
<1>2. CASE getMergedModuleDir(q)
  <2> USE <1>2 DEF getMergedModuleDir
  <2>1. CASE DirOf(q).kind = "none"
    BY <2>1 DEF Exit
  <2>2. CASE DirOf(q).kind = "undefined"
    BY <2>2
  <2>3. CASE DirOf(q).kind \notin {"none", "undefined"}
    BY <2>3
  <2> QED BY <2>1, <2>2, <2>3
<1>3. CASE prepare(q) \/ runContainer(q) \/ installModules(q) \/ installEach(q)
  BY <1>3 DEF prepare, runContainer, installModules, installEach, Go, Exit
<1>4. CASE removeOld(q) \/ cmdRemoveApp(q)
  BY <1>4 DEF removeOld, cmdRemoveApp, removeHead, Save, Go
<1>5. CASE importModule(q) \/ importLayer(q)
  BY <1>5 DEF importModule, importLayer, ListFails, Save, Exit
<1>6. CASE committed(q) \/ fetchSources(q) \/ generateEntries(q) \/ runApp(q) \/ exportUAB(q) \/ AppEnds(q) \/ list(q) \/ exportLayer(q)
  BY <1>6 DEF committed, fetchSources, generateEntries, runApp, exportUAB, AppEnds, list, exportLayer, Go, Exit
<1>7. CASE push(q) \/ uploadTaskInfo(q)
  BY <1>7 DEF push, uploadTaskInfo, Go, Exit
<1>8. CASE proc[q].at \in Fallible /\ Fails(q)
  BY <1>8 DEF Fails, Exit
<1> QED BY <1>1, <1>2, <1>3, <1>4, <1>5, <1>6, <1>7, <1>8 DEF Step

(* It is the last step of a build, or an old module was in the way.        *)
LEMMA CommitsAtTheEnd ==
    ASSUME BuildInv, BuildNext, NEW p \in Procs, Commits(p), ~proc[p].spared
    PROVE  updateMergedItems(p) /\ proc[p].at = "record_end"
<1>1. DOMAIN proc = Procs /\ ProcInv(p, proc[p]) /\ ProcTyped(proc[p]) /\ DOMAIN proc[p] = ProcFields
  BY DEF BuildInv, ProcInv, ProcTyped
<1>2. /\ proc[p].at \notin Stopped \cup {"none"} /\ proc[p].cmd.cmd = "build" /\ proc[p].cmd.skip = "none"
      /\ proc'[p].at = "over" /\ proc'[p].code = 0
  BY DEF Commits, Live
<1>3. ASSUME NEW q \in Procs, NEW r2, proc' = [proc EXCEPT ![q] = r2], q # p PROVE FALSE
  BY <1>1, <1>2, <1>3 DEF Stopped
<1>4. \A at, code : Over(proc[p], at, code).at = at /\ Over(proc[p], at, code).code = code
  BY DEF Over, NoProc
<1>5. ASSUME NEW code, Exit(p, code) PROVE code = 0
  BY <1>1, <1>2, <1>4, <1>5 DEF Exit
<1>6. ~\E q \in Procs, c \in Given : Begin(q, c)
  <2> SUFFICES ASSUME NEW q \in Procs, NEW c \in Given, Begin(q, c) PROVE FALSE
    OBVIOUS
  <2>1. q # p
    BY <1>2 DEF Begin
  <2> QED BY <1>1, <1>2, <2>1 DEF Begin, Stopped
<1>7. ~\E d \in Deps, mn \in Mains : Publish(d, mn)
  BY <1>2 DEF Publish, Stopped
<1>8. ~\E q \in Procs : Killed(q)
  <2> SUFFICES ASSUME NEW q \in Procs, Killed(q) PROVE FALSE
    OBVIOUS
  <2>1. CASE q # p
    BY <1>3, <2>1 DEF Killed
  <2>2. CASE q = p
    BY <1>1, <1>2, <1>4, <2>2 DEF Killed
  <2> QED BY <2>1, <2>2
<1>9. Step(p)
  <2>1. PICK q \in Procs : Step(q)
    BY <1>6, <1>7, <1>8 DEF BuildNext
  <2>2. q = p
    BY <2>1, <1>1, <1>2, StepIsOwn DEF Stopped
  <2> QED BY <2>1, <2>2
<1>10. ~(\/ runApp(p) \/ exportUAB(p) \/ AppEnds(p) \/ list(p) \/ exportLayer(p)
         \/ push(p) \/ uploadTaskInfo(p) \/ importLayer(p) \/ cmdRemoveApp(p))
  BY <1>1, <1>2 DEF ProcInv, StageOf, runApp, exportUAB, AppEnds, list, exportLayer, push, uploadTaskInfo, importLayer, cmdRemoveApp
<1>11. ~(proc[p].at \in Fallible /\ Fails(p))
  BY <1>2, <1>5 DEF Fails
<1>12. ~(fetchSources(p) \/ mergeModules(p) \/ committed(p))
  BY <1>1, <1>2 DEF fetchSources, mergeModules, committed, Go, ProcFields
<1>13. ~(generateEntries(p) \/ installModules(p))
  BY <1>1, <1>2 DEF generateEntries, installModules, ProcFields
<1>14. ~installEach(p)
  <2> SUFFICES ASSUME installEach(p) PROVE FALSE
    OBVIOUS
  <2>1. PICK r : r = proc[p]
    OBVIOUS
  <2>2. PICK match : match = IF r.todo = <<>> THEN r.cmd.listed ELSE Rules(Head(r.todo))
    OBVIOUS
  <2>3. PICK stuck \in SUBSET (r.cmd.tight \cap r.out.dir \cap match) :
           proc' = [proc EXCEPT ![p] =
             IF r.todo = <<>>
               THEN [r EXCEPT !.out = installModule(@, "binary", match, stuck), !.stuck = @ \cup stuck, !.at = "entries"]
               ELSE [r EXCEPT !.out = installModule(@, Head(r.todo), match, stuck), !.stuck = @ \cup stuck, !.todo = Tail(@)]]
    BY <2>1, <2>2 DEF installEach
  <2>4. proc[p].at = "split"
    BY DEF installEach
  <2>5. proc'[p].at \in {"entries", "split"}
    BY <2>1, <2>3, <2>4, <1>1 DEF ProcFields
  <2> QED BY <2>5, <1>2
<1>15. ~(prepare(p) \/ runContainer(p))
  BY <1>1, <1>2 DEF prepare, runContainer, Go, ProcFields
<1>16. ~removeOld(p)
  <2> SUFFICES ASSUME removeOld(p) PROVE FALSE
    OBVIOUS
  <2>1. CASE proc[p].todo = <<>>
    BY <1>1, <1>2, <2>1 DEF removeOld, removeHead, ProcFields
  <2>2. CASE proc[p].todo # <<>>
    <3>0. proc[p].at = "clear"
      BY DEF removeOld
    <3>1. CASE \E l, todo : Save(p, l, [proc[p] EXCEPT !.todo = todo])
      BY <1>1, <1>2, <3>0, <3>1 DEF Save, ProcFields
    <3>2. CASE \E todo : proc' = [proc EXCEPT ![p].todo = todo, ![p].spared = TRUE]
      BY <1>1, <1>2, <3>0, <3>2 DEF ProcFields
    <3>3. CASE proc' = [proc EXCEPT ![p] = Over(@, "killed", 0)]
      BY <1>1, <1>2, <1>4, <3>3
    <3> QED BY <2>2, <3>1, <3>2, <3>3 DEF removeOld, removeHead
  <2> QED BY <2>1, <2>2
<1>17. ~getMergedModuleDir(p)
  <2> SUFFICES ASSUME getMergedModuleDir(p) PROVE FALSE
    OBVIOUS
  <2>1. CASE DirOf(p).kind = "none"
    BY <2>1, <1>5 DEF getMergedModuleDir
  <2>2. CASE DirOf(p).kind = "undefined"
    BY <2>2, <1>1, <1>2, <1>4 DEF getMergedModuleDir
  <2>3. CASE DirOf(p).kind \notin {"none", "undefined"}
    BY <2>3, <1>1, <1>2 DEF getMergedModuleDir, ProcFields
  <2> QED BY <2>1, <2>2, <2>3
<1>18. ~pullDependency(p)
  <2> SUFFICES ASSUME pullDependency(p) PROVE FALSE
    OBVIOUS
  <2>1. ASSUME NEW v, NEW l PROVE NextDep(proc[p], v).at # "over" /\ [NextDep(proc[p], v) EXCEPT !.cache = l].at # "over"
    BY <1>1 DEF NextDep, ProcFields
  <2>2. PICK v : v = Meant(p)
    OBVIOUS
  <2>3. PICK l : l = [Cache(p) EXCEPT !.deps = @ \cup {Branch(p)}]
    OBVIOUS
  <2>4. PICK u : u = NextDep(proc[p], v)
    OBVIOUS
  <2>5. u.at # "over" /\ [u EXCEPT !.cache = l].at # "over"
    BY <2>1, <2>4
  <2>6. CASE Exit(p, -1)
    BY <2>6, <1>5
  <2>7. CASE proc' = [proc EXCEPT ![p] = u]
    BY <2>5, <2>7, <1>1, <1>2
  <2>8. CASE Save(p, l, u)
    BY <2>5, <2>8, <1>1, <1>2 DEF Save
  <2> QED BY <2>2, <2>3, <2>4, <2>6, <2>7, <2>8 DEF pullDependency
<1>i. ~pullInterrupted(p)
  <2> SUFFICES ASSUME pullInterrupted(p) PROVE FALSE
    OBVIOUS
  <2>1. PICK u : u = [NextDep(proc[p], Meant(p)) EXCEPT !.left = TRUE]
    OBVIOUS
  <2>2. \A at, code : Over(u, at, code).at = at /\ Over(u, at, code).code = code
    BY DEF Over, NoProc
  <2>3. \/ proc' = [proc EXCEPT ![p] = Over(u, "over", -1)]
        \/ proc' = [proc EXCEPT ![p] = Over(u, "killed", 0)]
    BY <2>1 DEF pullInterrupted
  <2> QED BY <2>2, <2>3, <1>1, <1>2
<1>19. ~importModule(p)
  <2> SUFFICES ASSUME importModule(p) PROVE FALSE
    OBVIOUS
  <2>1. proc[p].at = "commit" /\ proc[p].todo # <<>> /\ proc[p].todo \in Seq(ModNames)
    BY <1>1 DEF importModule, ProcTyped
  <2>2. PICK n \in ModNames : n = Head(proc[p].todo)
    BY <2>1, ToSetOfRest
  <2>3. CASE n \in proc[p].out.yaml
    BY <2>2, <2>3, <1>5 DEF importModule
  <2>4. CASE n \notin proc[p].out.yaml /\ Has(p, n)
    BY <2>1, <2>4, <1>1 DEF ProcInv, Committed, Has, Cache
  <2>5. CASE n \notin proc[p].out.yaml /\ ~Has(p, n)
    <3>1. PICK u : u = [proc[p] EXCEPT !.todo = Tail(@), !.out.yaml = @ \cup {n}]
      OBVIOUS
    <3>2. PICK l : l = [proc[p].cache EXCEPT !.layers[Ref(proc[p].proj, n)] = [build |-> p, files |-> proc[p].out.mods[n]]]
      OBVIOUS
    <3>0. ~ListFails(p)
      BY <1>1, <1>2, <1>4, <1>5 DEF ListFails
    <3>3. Save(p, l, u)
      BY <2>2, <2>5, <3>0, <3>1, <3>2 DEF importModule
    <3>4. DOMAIN u = ProcFields /\ u.at = "commit"
      BY <2>1, <3>1, <1>1 DEF ProcFields
    <3>5. proc'[p] = [u EXCEPT !.cache = l]
      BY <3>3, <3>4, <1>1 DEF Save
    <3> QED BY <3>4, <3>5, <1>2 DEF ProcFields
  <2> QED BY <2>3, <2>4, <2>5
<1>20. updateMergedItems(p)
  BY <1>9, <1>10, <1>11, <1>12, <1>13, <1>14, <1>15, <1>16, <1>17, <1>18, <1>19, <1>i DEF Step
<1>21. CASE proc[p].at = "record"
  BY <1>1, <1>2, <1>20, <1>21 DEF updateMergedItems, Save, ProcFields
<1> QED BY <1>20, <1>21 DEF updateMergedItems

(* At that step the list is the modules of the build, and they have its    *)
(* files.                                                                  *)
LEMMA CommitsTell ==
    ASSUME BuildInv, BuildNext, NEW p \in Procs, Commits(p), ~proc[p].spared
    PROVE  /\ Listed(proc[p].cache, p) /\ (file' = "short" \/ Listed(disk', p))
           /\ LET in(f) == {n \in ModNames : f \in proc[p].cache.layers[Ref(proc[p].proj, n)].files}
              IN  \A f \in proc[p].made \ Links :
                    /\ in(f) # {} \/ f \notin proc[p].cmd.listed \/ f \in proc[p].stuck
                    /\ ~proc[p].cmd.full => Cardinality(in(f)) <= 1
<1>1. updateMergedItems(p) /\ proc[p].at = "record_end"
  BY CommitsAtTheEnd
<1>2. PICK r : r = proc[p]
  OBVIOUS
<1>3. ProcInv(p, r) /\ ProcTyped(r) /\ r.cmd.cmd = "build" /\ GoodList(r.cache)
  BY <1>2 DEF BuildInv, ProcInv, ProcTyped, Commits
<1>4. \A n \in ModNames : IF n \in Wanted(r.cmd) THEN r.cache.layers[Ref(r.proj, n)] = [build |-> p, files |-> r.out.mods[n]]
                          ELSE r.cache.layers[Ref(r.proj, n)] = NoLayer
  BY <1>1, <1>2, <1>3 DEF ProcInv, Committed
<1>5. \A n \in ModNames : [build |-> p, files |-> r.out.mods[n]].build = p /\ [build |-> p, files |-> r.out.mods[n]].files = r.out.mods[n]
  OBVIOUS
<1>6. Listed(r.cache, p)
  BY <1>2, <1>4, <1>5 DEF Listed
<1>7. file' = "short" \/ disk'.layers = r.cache.layers
  BY <1>1, <1>2, <1>3 DEF updateMergedItems, Save, Written, Cache, GoodList, Lists
<1>8. file' = "short" \/ Listed(disk', p)
  BY <1>6, <1>7 DEF Listed
<1>9. ASSUME NEW f \in r.made \ Links,
             NEW S, S = {n \in ModNames : f \in r.cache.layers[Ref(r.proj, n)].files}
      PROVE  /\ S # {} \/ f \notin r.cmd.listed \/ f \in r.stuck
             /\ ~r.cmd.full => Cardinality(S) <= 1
  <2>1. /\ \A n \in ModNames : r.out.mods[n] # {} => n \in Wanted(r.cmd)
        /\ f \notin r.cmd.listed \/ f \in r.stuck \/ \E n \in ModNames : f \in r.out.mods[n]
        /\ ~r.cmd.full => \A n, m \in ModNames : n # m => r.out.mods[n] \cap r.out.mods[m] = {}
    BY <1>1, <1>2, <1>3, <1>9 DEF ProcInv, Shared
  <2>2. ASSUME NEW n \in ModNames, f \in r.out.mods[n] PROVE n \in S
    BY <2>1, <2>2, <1>4, <1>5, <1>9
  <2>3. ASSUME NEW n \in S PROVE n \in ModNames /\ f \in r.out.mods[n]
    <3>1. f \notin NoLayer.files
      BY DEF NoLayer
    <3> QED BY <2>3, <3>1, <1>4, <1>5, <1>9
  <2>4. ASSUME ~r.cmd.full PROVE Cardinality(S) <= 1
    <3>1. CASE S = {}
      BY <3>1, FS_EmptySet
    <3>2. CASE S # {}
      <4>1. PICK n : n \in S
        BY <3>2
      <4>2. S = {n}
        BY <2>1, <2>3, <2>4, <4>1
      <4>3. Cardinality(S) = 1
        BY <4>2, FS_Singleton
      <4> QED BY <4>3
    <3> QED BY <3>1, <3>2
  <2> QED BY <2>1, <2>2, <2>4
<1> QED BY <1>2, <1>6, <1>8, <1>9

(* BuildTells: a build that returns 0 and had nothing to spare has listed  *)
(* its modules and no others, in its copy and on disk unless the list was  *)
(* written short, and every file it has made is in one of them, in one     *)
(* only unless a full develop module is asked for; but for the links to    *)
(* directories, what $appid.install does not list, and what rename could   *)
(* not move, which the build passes over in silence.                       *)
THEOREM BuildTellsTheTruth == BuildSpec => BuildTells
<1>1. ASSUME BuildInv, BuildNext PROVE ExitTells /\ FilesShipped
  <2>1. ExitTells
    BY <1>1, CommitsTell DEF ExitTells
  <2>2. FilesShipped
    BY <1>1, CommitsTell DEF FilesShipped
  <2> QED BY <2>1, <2>2
<1>2. BuildInv /\ [BuildNext]_buildVars => [ExitTells /\ FilesShipped]_buildVars
  BY <1>1
<1> QED BY <1>2, BuildInitInv, BuildNextInv, PTL DEF BuildSpec, BuildTells
=============================================================================
