--------------------------------- MODULE Box ---------------------------------
(***************************************************************************)
(* ll-box, the program that makes a container: `ll-box run` clones the     *)
(* entry process into new namespaces, which mounts the root and clones the *)
(* unprivileged init of a second pid namespace, which forks the            *)
(* application.  ll-box writes a record of the container under its state   *)
(* directory; the other commands (list, exec, kill) first sweep the        *)
(* records of dead containers and then use what is left.                   *)
(*                                                                         *)
(* Every process asks the kernel to be killed when its parent dies, but    *)
(* only after it has been at work for a while ("FIXME: parent may dead     *)
(* before this return"), and takes SIGTERM only after that.                *)
(* One container; container ids are never given twice.                     *)
(***************************************************************************)
EXTENDS Naturals, FiniteSets

CONSTANTS Cmds,      \* other ll-box processes: each one list, exec or kill
          ReadOnly,  \* the mounts of config.json with option "ro"
          Writable,  \* the other mounts
          Faults     \* what may go wrong: "kill", "io", "reuse", and a kernel that does not
                     \* list the children of a process ("nochildren")

Tree == {"entry", "init", "app", "helper"}   \* helper: a daemon the application left to init
Procs == {"cli", "box"} \cup Tree
Mounts == ReadOnly \cup Writable
Results == {"zero", "failed"}

VARIABLES at,       \* where each process is; "dead" is a zombie, "gone" is reaped
          code,     \* how each process ended
          armed,    \* the processes that have set PR_SET_PDEATHSIG
          handler,  \* the entry process takes SIGTERM
          root,     \* the container's mounts, and whether the root is pivoted
          json,     \* the container's record: none, empty (just opened) or full
          stranger, \* the entry's pid has been given to another process
          early,    \* ll-box died before the entry process had set its death signal
          termed,   \* SIGTERM has reached an entry process that takes it
          cmd       \* the other commands
vars == <<at, code, armed, handler, root, json, stranger, early, termed, cmd>>
tree == <<at, code, armed, early>>

Alive(p) == at[p] \notin {"none", "dead", "gone"}
PidLives == Alive("entry") \/ at["entry"] = "dead" \/ stranger   \* kill(pid, 0) == 0
IdleCmd == [at |-> "idle", what |-> "none", snap |-> FALSE, lived |-> FALSE, stale |-> FALSE,
            by |-> "none", join |-> "none"]

\* Every variable has its type.
TypeOK ==
  /\ at \in [Procs -> {"none", "dead", "gone", "main", "parsed", "cloned", "guarded", "opened", "written", "waited",
                       "start", "mounted", "pivoted", "forked", "running"}]
  /\ code \in [Procs -> Results \cup {"none"}]
  /\ armed \subseteq Procs
  /\ handler \in BOOLEAN /\ stranger \in BOOLEAN /\ early \in BOOLEAN /\ termed \in BOOLEAN
  /\ root \in [mounts : [Mounts -> {"absent", "rw", "later", "ro"}], pivoted : BOOLEAN]
  /\ json \in {"none", "empty", "full"}
  /\ cmd \in [Cmds -> [at : {"idle", "scan", "clean", "read", "act", "done"}, what : {"none", "list", "exec", "kill"},
                       snap : BOOLEAN, lived : BOOLEAN, stale : BOOLEAN, by : {"none", "children", "stat"},
                       join : {"none", "entry", "init", "app", "stranger"}]]

Init ==
  /\ at = [p \in Procs |-> IF p = "cli" THEN "running" ELSE IF p = "box" THEN "main" ELSE "none"]
  /\ code = [p \in Procs |-> "none"]
  /\ armed = {}
  /\ handler = FALSE
  /\ root = [mounts |-> [m \in Mounts |-> "absent"], pivoted |-> FALSE]
  /\ json = "none"
  /\ stranger = FALSE /\ early = FALSE /\ termed = FALSE
  /\ cmd = [q \in Cmds |-> IdleCmd]

------------------------------------------------------------------------------
\* The kernel.  The entry process is the init of the pid namespace config.json
\* asks for and "init" that of another: when one ends, all below it is killed.
Parent(p) == CASE p = "app" -> "init" [] p = "helper" -> "init" [] p = "init" -> "entry"
               [] p = "entry" -> "box" [] OTHER -> "cli"
Inside(p) == CASE p = "entry" -> Tree [] p = "init" -> Tree \ {"entry"} [] OTHER -> {p}
FallWith(p) ==
  CASE p = "cli" -> {"cli"} \cup (IF "box" \in armed THEN {"box"} \cup (IF "entry" \in armed THEN Tree ELSE {}) ELSE {})
    [] p = "box" -> {"box"} \cup (IF "entry" \in armed THEN Tree ELSE {})
    [] OTHER -> Inside(p)

\* p ends with result c, and the kernel kills what must not outlive it.
Ends(p, c) ==
  LET fall == {q \in FallWith(p) : Alive(q)}
      left(q) == Alive(Parent(q)) /\ Parent(q) \notin fall /\ q # "cli"   \* somebody will wait for q
      over(q) == q \in fall \/ (at[q] = "dead" /\ Parent(q) \in fall)
  IN /\ at' = [q \in Procs |-> IF ~over(q) THEN at[q]
                               ELSE IF left(q) /\ q # "box" THEN "dead" ELSE "gone"]
     /\ code' = [q \in Procs |-> IF q = p THEN c ELSE IF q \in fall THEN "failed" ELSE code[q]]
     /\ early' = (early \/ ("box" \in fall /\ at["entry"] \in {"start", "mounted", "pivoted", "cloned"}))
     /\ UNCHANGED armed

Moves(p, to) == /\ at' = [at EXCEPT ![p] = to]
                /\ UNCHANGED <<code, armed, early>>
Starts(p, child, to) == /\ at' = [at EXCEPT ![p] = to, ![child] = "start"]
                        /\ UNCHANGED <<code, armed, early>>

------------------------------------------------------------------------------
\* ll-box run.
run ==
  /\ at["box"] = "main"
  /\ \/ Moves("box", "parsed")
     \/ "io" \in Faults /\ Ends("box", "failed")
  /\ UNCHANGED <<handler, root, json, stranger, termed, cmd>>

Start ==
  /\ at["box"] = "parsed"
  /\ \/ Starts("box", "entry", "cloned")
     \/ "io" \in Faults /\ Ends("box", "failed")
  /\ UNCHANGED <<handler, root, json, stranger, termed, cmd>>

Guard_dropped(p, from) == \* mutant: no death signal
  /\ at[p] = from
  /\ at' = [at EXCEPT ![p] = "guarded"]
  /\ UNCHANGED <<code, armed, early, handler, root, json, stranger, termed, cmd>>

\* DropPermissions, then prctl(PR_SET_PDEATHSIG, SIGKILL).
Guard(p, from) ==
  /\ at[p] = from
  /\ at' = [at EXCEPT ![p] = "guarded"]
  /\ armed' = armed \cup {p}
  /\ UNCHANGED <<code, early, handler, root, json, stranger, termed, cmd>>
\* create_directories throws and `run' catches it; a file that cannot be opened is only logged.
writeContainerJson ==
  \/ /\ at["box"] = "guarded"
     /\ \/ json' = "empty" /\ Moves("box", "opened")
        \/ "io" \in Faults /\ json' = json /\ (Ends("box", "failed") \/ Moves("box", "written"))
     /\ UNCHANGED <<handler, root, stranger, termed, cmd>>
  \/ /\ at["box"] = "opened"
     /\ json' = "full"
     /\ Moves("box", "written")
     /\ UNCHANGED <<handler, root, stranger, termed, cmd>>

\* Wait until the child `target' of p has ended; other children are reaped on the way.
WaitAllUntil(p, target, to) ==
  /\ at[target] = "dead"
  /\ at' = [at EXCEPT ![target] = "gone", ![p] = to]
  /\ code' = [code EXCEPT ![p] = code[target]]
  /\ UNCHANGED <<armed, early>>

boxWaits ==
  /\ at["box"] = "written"
  /\ WaitAllUntil("box", "entry", "waited")
  /\ UNCHANGED <<handler, root, json, stranger, termed, cmd>>

removeJson ==
  /\ at["box"] = "waited"
  /\ json' = "none"
  /\ Ends("box", code["box"])
  /\ UNCHANGED <<handler, root, stranger, termed, cmd>>
------------------------------------------------------------------------------
\* The entry process.
\* What one mount becomes: a failed one is only logged, a read-only bind is
\* mounted writable and noted for later, unless it cannot be opened again.
MountNode(m) == (IF "io" \in Faults THEN {"absent", "rw"} ELSE {})
                \cup (IF m \in ReadOnly THEN {"later"} ELSE {"rw"})

\* The id maps are written through /proc, which may not be possible.
ConfigUserNamespace == {"done"} \cup (IF "io" \in Faults THEN {"failed"} ELSE {})

MountContainerPath ==
  /\ at["entry"] = "start"
  /\ \/ /\ root' \in {[root EXCEPT !.mounts = f] : f \in {g \in [Mounts -> {"absent", "rw", "later"}] :
                                                           \A m \in Mounts : g[m] \in MountNode(m)}}
        /\ Moves("entry", "mounted")
     \/ "failed" \in ConfigUserNamespace /\ Ends("entry", "failed") /\ UNCHANGED root
  /\ UNCHANGED <<handler, json, stranger, termed, cmd>>

\* A read-only mount whose second mount fails too stays writable.
remount(m) == IF root.mounts[m] # "later" THEN {root.mounts[m]}
              ELSE {"ro"} \cup (IF "io" \in Faults THEN {"rw"} ELSE {})

finalizeMounts == {f \in [Mounts -> {"absent", "rw", "ro"}] : \A m \in Mounts : f[m] \in remount(m)}
PivotRoot ==
  /\ at["entry"] = "mounted"
  /\ \E f \in finalizeMounts :
       \/ /\ root' = [mounts |-> f, pivoted |-> TRUE]
          /\ Moves("entry", "pivoted")
       \/ "io" \in Faults /\ root' = [root EXCEPT !.mounts = f] /\ Ends("entry", "failed")
  /\ UNCHANGED <<handler, json, stranger, termed, cmd>>

\* A link in /dev that cannot be made ends the start.
PrepareLinks == {"done"} \cup (IF "io" \in Faults THEN {"failed"} ELSE {})

EntryProc ==
  /\ at["entry"] = "pivoted"
  /\ \/ Starts("entry", "init", "cloned")
     \/ "failed" \in PrepareLinks /\ Ends("entry", "failed")
  /\ UNCHANGED <<handler, root, json, stranger, termed, cmd>>

sigtermHandler ==
  /\ at["entry"] = "guarded"
  /\ handler' = TRUE
  /\ Moves("entry", "waited")
  /\ UNCHANGED <<root, json, stranger, termed, cmd>>

entryWaits ==
  /\ at["entry"] = "waited" /\ at["init"] = "dead"
  /\ Ends("entry", code["init"])
  /\ UNCHANGED <<handler, root, json, stranger, termed, cmd>>

------------------------------------------------------------------------------
\* The init of the container: user ids, /proc, the hooks (their results are ignored).
NonePrivilegeProc ==
  /\ at["init"] = "start"
  /\ \/ Moves("init", "mounted")
     \/ "failed" \in ConfigUserNamespace /\ Ends("init", "failed")
  /\ UNCHANGED <<handler, root, json, stranger, termed, cmd>>

forkAndExecProcess ==
  /\ at["init"] = "guarded"
  /\ \/ Starts("init", "app", "forked")
     \/ "io" \in Faults /\ Ends("init", "failed")
  /\ UNCHANGED <<handler, root, json, stranger, termed, cmd>>

\* The child: chdir or execvpe may fail, and it ends as `fork and exec failed'.
Exec ==
  /\ at["app"] = "start"
  /\ \/ Moves("app", "running")
     \/ "io" \in Faults /\ Ends("app", "failed")
  /\ UNCHANGED <<handler, root, json, stranger, termed, cmd>>

DoWait_all == \* mutant: init waits for every child
  /\ at["init"] = "forked"
  /\ \/ /\ at["app"] = "dead" /\ ~Alive("helper")
        /\ Ends("init", code["app"])
     \/ /\ at["helper"] = "dead"
        /\ Moves("helper", "gone")
  /\ UNCHANGED <<handler, root, json, stranger, termed, cmd>>
DoWait_any == \* mutant: the first child that ends is taken for the application
  /\ at["init"] = "forked"
  /\ \E q \in {"app", "helper"} : at[q] = "dead" /\ Ends("init", code[q])
  /\ UNCHANGED <<handler, root, json, stranger, termed, cmd>>

DoWait ==
  /\ at["init"] = "forked"
  /\ \/ /\ at["app"] = "dead"
        /\ Ends("init", code["app"])
     \/ /\ at["helper"] = "dead"
        /\ Moves("helper", "gone")
  /\ UNCHANGED <<handler, root, json, stranger, termed, cmd>>
------------------------------------------------------------------------------
\* What the application does: it leaves a daemon behind, and it ends.
AppForks == /\ at["app"] = "running" /\ at["helper"] = "none"
            /\ Moves("helper", "running")
            /\ UNCHANGED <<handler, root, json, stranger, termed, cmd>>
AppEnds(p, c) == /\ at[p] = "running"
                 /\ Ends(p, c)
                 /\ UNCHANGED <<handler, root, json, stranger, termed, cmd>>

\* SIGKILL of ll-cli or of ll-box, and a pid that is used again.
Killed(p) == /\ "kill" \in Faults /\ Alive(p)
             /\ Ends(p, "failed")
             /\ UNCHANGED <<handler, root, json, stranger, termed, cmd>>
Reused == /\ "reuse" \in Faults /\ at["entry"] = "gone" /\ ~stranger
          /\ stranger' = TRUE
          /\ UNCHANGED <<tree, handler, root, json, termed, cmd>>

------------------------------------------------------------------------------
\* Another ll-box: sweep the records, read them again, act.
Step(q, to, changed) == cmd' = [cmd EXCEPT ![q] = [changed EXCEPT !.at = to]]

Invoke(q, what) ==
  /\ cmd[q].at = "idle"
  /\ Step(q, "scan", [IdleCmd EXCEPT !.what = what])
  /\ UNCHANGED <<tree, handler, root, json, stranger, termed>>

\* An empty record does not parse, and is left out.
readAllContainerJson(q) ==
  /\ cmd[q].at \in {"scan", "read"}
  /\ IF cmd[q].at = "scan"
     THEN Step(q, "clean", [cmd[q] EXCEPT !.snap = (json = "full"), !.stale = (json = "full" /\ ~PidLives)])
     ELSE Step(q, "act", [cmd[q] EXCEPT !.snap = (json = "full")])
  /\ UNCHANGED <<tree, handler, root, json, stranger, termed>>

containerJsonCleanUp_zombie(q) == \* mutant: a record is kept as long as ll-box lives
  /\ cmd[q].at = "clean"
  /\ json' = IF cmd[q].snap /\ ~Alive("box") THEN "none" ELSE json
  /\ Step(q, "read", [cmd[q] EXCEPT !.lived = PidLives])
  /\ UNCHANGED <<tree, handler, root, stranger, termed>>

containerJsonCleanUp(q) ==
  /\ cmd[q].at = "clean"
  /\ json' = IF cmd[q].snap /\ ~PidLives THEN "none" ELSE json
  /\ Step(q, "read", [cmd[q] EXCEPT !.lived = PidLives])
  /\ UNCHANGED <<tree, handler, root, stranger, termed>>
list(q) ==
  /\ cmd[q].at = "act" /\ cmd[q].what = "list"
  /\ Step(q, "done", cmd[q])
  /\ UNCHANGED <<tree, handler, root, json, stranger, termed>>

\* From the recorded pid down the children whose program is ll-box.  A zombie
\* has no program, and ends the search without a result.
findLastBox ==
  IF at["entry"] = "gone" THEN (IF stranger THEN "stranger" ELSE "none")
  ELSE IF \E p \in Tree : at[p] = "dead" THEN "none"
  ELSE IF at["app"] = "start" THEN "app"
  ELSE IF Alive("init") THEN "init" ELSE "entry"

\* Without the list of the children: up the `stat' of the younger processes.  It
\* returns the one above the last ll-box, or nothing: a `stat' that does not parse,
\* a zombie, or children with smaller pids.  The stranger may be an ll-box too.
findLastBoxFallback ==
  {"none"} \cup (IF at["entry"] = "gone" THEN (IF stranger THEN {"stranger"} ELSE {})
                  ELSE IF ~Alive("init") THEN {}
                  ELSE IF at["app"] = "start" THEN {"init"} ELSE {"entry"})

exec(q) ==
  /\ cmd[q].at = "act" /\ cmd[q].what = "exec"
  /\ \/ Step(q, "done", [cmd[q] EXCEPT !.by = "children", !.join = IF cmd[q].snap THEN findLastBox ELSE "none"])
     \/ /\ "nochildren" \in Faults
        /\ \E p \in findLastBoxFallback :
             Step(q, "done", [cmd[q] EXCEPT !.by = "stat", !.join = IF cmd[q].snap THEN p ELSE "none"])
  /\ UNCHANGED <<tree, handler, root, json, stranger, termed>>

\* SIGTERM without a handler does nothing to the init of a pid namespace.
kill(q) ==
  /\ cmd[q].at = "act" /\ cmd[q].what = "kill"
  /\ Step(q, "done", cmd[q])
  /\ IF cmd[q].snap /\ Alive("entry") /\ handler
     THEN Ends("entry", "failed") /\ termed' = TRUE
     ELSE UNCHANGED <<tree, termed>>
  /\ UNCHANGED <<handler, root, json, stranger>>
------------------------------------------------------------------------------
BoxStep == run \/ Start \/ Guard("box", "cloned") \/ writeContainerJson \/ boxWaits \/ removeJson
EntryStep == MountContainerPath \/ PivotRoot \/ EntryProc \/ Guard("entry", "cloned") \/ sigtermHandler \/ entryWaits
InitStep == NonePrivilegeProc \/ Guard("init", "mounted") \/ forkAndExecProcess \/ DoWait \/ Exec
Command(q) == \/ \E what \in {"list", "exec", "kill"} : Invoke(q, what)
              \/ readAllContainerJson(q) \/ containerJsonCleanUp(q) \/ list(q) \/ exec(q) \/ kill(q)

Next ==
  \/ BoxStep \/ EntryStep \/ InitStep
  \/ AppForks \/ \E p \in {"app", "helper"}, c \in Results : AppEnds(p, c)
  \/ \E p \in {"cli", "box"} : Killed(p)
  \/ Reused
  \/ \E q \in Cmds : Command(q)

Spec == Init /\ [][Next]_vars

\* The kernel schedules every runnable process; nothing makes an application end.
FairSpec == Spec /\ WF_vars(BoxStep) /\ WF_vars(EntryStep) /\ WF_vars(InitStep)

------------------------------------------------------------------------------
Over == \A p \in Tree : ~Alive(p)

\* A container outlives its ll-box only if ll-box died before the entry process
\* had asked to die with it.
NoOrphans == at["box"] = "gone" => Over \/ early

\* ll-box says 0 only when the application itself ended with 0, whatever the
\* daemons it left have returned and whoever was killed on the way.
ExitTells == at["box"] = "gone" /\ code["box"] = "zero" => code["app"] = "zero" /\ json = "none"

\* The application never runs on the host's root, nor while a mount that must be
\* read-only waits for its second mount.
AppInFinalRoot == Alive("app") \/ Alive("helper") => root.pivoted /\ \A m \in Mounts : root.mounts[m] # "later"

\* What ll-box says of a start is true, and the application is where it belongs.
StartIsSound == TypeOK /\ ExitTells /\ AppInFinalRoot

\* A record found stale is never seen again, unless its pid was given to a stranger.
StaleSwept == \A q \in Cmds : cmd[q].stale /\ cmd[q].at \in {"read", "act", "done"} => json = "none" \/ stranger

\* `ll-box exec' beside a running application enters the application's namespaces,
\* those of init.  On a kernel that does not list children it enters those of the
\* entry process: the same mounts, but the user and the pid namespace above.
ExecBesideApp ==
  \A q \in Cmds : cmd[q].join # cmd'[q].join /\ cmd'[q].join # "none" /\ at["app"] = "running"
    => cmd'[q].join = (IF cmd'[q].by = "stat" THEN "entry" ELSE "init")

\* A record disappears only when its container is over: no command and no ll-box
\* removes the record of a container somebody could still enter or kill.
RecordedWhileAlive == json = "full" /\ json' = "none" => Over

\* Records are neither taken from the living nor kept for the dead, and lead to the application.
RecordsTell == [][StaleSwept' /\ ExecBesideApp /\ RecordedWhileAlive]_vars

\* Once a SIGTERM is taken everything ends: the container's processes and ll-box.
KillEnds == termed ~> Over /\ at["box"] = "gone"

\* The application's end is the container's end.
AppEndsAll == (at["app"] = "dead") ~> (Over /\ at["box"] = "gone")

\* Nothing waits for ever for a process that has ended.
EverythingEnds == KillEnds /\ AppEndsAll
==============================================================================
