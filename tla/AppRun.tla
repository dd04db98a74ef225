------------------------------- MODULE AppRun -------------------------------
(***************************************************************************)
(* ll-cli run, exec and kill beside a daemon that removes versions.  The   *)
(* two sides are different processes and meet in /run/linglong:            *)
(*   the lock, which the daemon holds while it looks and ll-cli only tests *)
(*   a file per process, made empty and filled later with what it runs     *)
(*     file    what is at each pid: nothing, an empty file, one that was   *)
(*             not written to its end ("short"), or the version and the    *)
(*             container of a process                                      *)
(*     owner   who has the pid now: nobody, a process of this model, or    *)
(*             an unrelated process                                        *)
(*     proc    the ll-cli processes: at, pid, the version run and the      *)
(*             container joined; snap is the list of installed versions    *)
(*             that was read when the process began                        *)
(*     boxes   containers that run; bundle, the bundle directories         *)
(*     layers  the versions of the application                             *)
(*     pm      the daemon                                                  *)
(*     late    history: the processes that had no file yet when the daemon *)
(*             looked for those that run what it then removed              *)
(***************************************************************************)
EXTENDS Integers, FiniteSets, FiniteSetsExt

CONSTANTS MaxProcs,  \* how often ll-cli run is started
          Versions,
          Faults     \* of {"kill", "io", "reuse"}

ASSUME RunAssumption == MaxProcs \in Nat \ {0} /\ Versions \subseteq Nat \ {0}

\* Processes are named in the order they start, pids in the order of first use.
Procs == 1 .. MaxProcs
Pids == 1 .. MaxProcs
Nobody == 0
Stranger == -1

VARIABLES proc, file, owner, boxes, bundle, layers, pm, late

vars == <<proc, file, owner, boxes, bundle, layers, pm, late>>

NoFile == [kind |-> "none", app |-> 0, box |-> 0]
EmptyFile == [NoFile EXCEPT !.kind = "empty"]
ShortFile == [NoFile EXCEPT !.kind = "short"]
InfoOf(p) == [kind |-> "info", app |-> proc[p].v, box |-> p]
NoProc == [at |-> "none", pid |-> 0, v |-> 0, snap |-> {}, join |-> 0]
Idle == [at |-> "idle", job |-> "none", v |-> 0, todo |-> {}, busy |-> {}, missed |-> {}]

Ats == {"none", "new", "checked", "file", "resolved", "join", "joined", "bundled", "dumped", "running",
        "returned", "failed", "killed"}
Live(p) == proc[p].at \notin {"none", "returned", "failed", "killed"}

(* Neither the daemon nor ll-cli can parse the file. *)
Unreadable(q) == file[q] \in {EmptyFile, ShortFile}

(* TypeOK: types; a live process has its pid, and what runs has a file.    *)
TypeOK ==
    /\ proc \in [Procs -> [at : Ats, pid : Pids \cup {0}, v : Versions \cup {0},
                           snap : SUBSET Versions, join : Procs \cup {0}]]
    /\ file \in [Pids -> [kind : {"none", "empty", "short", "info"}, app : Versions \cup {0},
                          box : Procs \cup {0}]]
    /\ owner \in [Pids -> Procs \cup {Nobody, Stranger}]
    /\ boxes \subseteq Procs /\ bundle \subseteq Procs /\ late \subseteq Procs
    /\ layers \in [Versions -> {"absent", "installed", "marked", "removed"}]
    /\ \A p \in Procs : Live(p) => owner[proc[p].pid] = p
    /\ \A p \in Procs : proc[p].at \in {"running", "joined"} => file[proc[p].pid] \in {InfoOf(p), ShortFile}

Init ==
    /\ proc = [p \in Procs |-> NoProc]
    /\ file = [q \in Pids |-> NoFile]
    /\ owner = [q \in Pids |-> Nobody]
    /\ boxes = {} /\ bundle = {} /\ late = {}
    /\ layers = [v \in Versions |-> IF v = Min(Versions) THEN "installed" ELSE "absent"]
    /\ pm = Idle

Locked == pm.at = "look" \/ (pm.at = "act" /\ pm.job = "deferred")

-----------------------------------------------------------------------------
(* ll-cli run.                                                             *)

Spawn(p, q) ==
    /\ proc[p].at = "none" /\ \A o \in 1 .. (p - 1) : proc[o].at # "none"
    /\ owner[q] = Nobody /\ q <= 1 + Cardinality({proc[o].pid : o \in 1 .. (p - 1)})
    /\ proc' = [proc EXCEPT ![p] = [NoProc EXCEPT !.at = "new", !.pid = q]]
    /\ owner' = [owner EXCEPT ![q] = p]
    /\ UNCHANGED <<file, boxes, bundle, layers, pm, late>>

(* The process is over: it goes on in no other action.  Only aboutToQuit   *)
(* removes the file, and only when the process made it.                    *)
Exit(p, at, rmFile) ==
    /\ proc' = [proc EXCEPT ![p].at = at]
    /\ owner' = [owner EXCEPT ![proc[p].pid] = Nobody]
    /\ file' = IF rmFile THEN [file EXCEPT ![proc[p].pid] = NoFile] ELSE file

(* main: wait until nobody holds the lock, then open the repository. *)
lockCheck(p) ==
    /\ proc[p].at = "new" /\ ~Locked
    /\ proc' = [proc EXCEPT ![p].at = "checked", ![p].snap = {v \in Versions : layers[v] = "installed"}]
    /\ UNCHANGED <<file, owner, boxes, bundle, layers, pm, late>>

(* O_EXCL: a file left behind under the same pid ends the command. *)
createPidFile(p) ==
    /\ proc[p].at = "checked"
    /\ IF file[proc[p].pid] = NoFile
         THEN /\ file' = [file EXCEPT ![proc[p].pid] = EmptyFile]
              /\ proc' = [proc EXCEPT ![p].at = "file"]
              /\ UNCHANGED owner
         ELSE Exit(p, "failed", FALSE)
    /\ UNCHANGED <<boxes, bundle, layers, pm, late>>

Highest(snap) == {v \in snap : \A w \in snap : w <= v}

(* The highest version listed, if its directory is still there. *)
resolve(p) ==
    /\ proc[p].at = "file"
    /\ \/ /\ \E v \in Highest(proc[p].snap) :
               /\ layers[v] # "removed"
               /\ proc' = [proc EXCEPT ![p].at = "resolved", ![p].v = v]
          /\ UNCHANGED <<file, owner>>
       \/ /\ \A v \in Highest(proc[p].snap) : layers[v] = "removed"
          /\ Exit(p, "failed", TRUE)
    /\ UNCHANGED <<boxes, bundle, layers, pm, late>>

(* getCurrentContainers: of the containers that run, those a file of a     *)
(* live process is about.                                                  *)
getCurrentContainers ==
    {c \in boxes : \E q \in Pids : owner[q] # Nobody /\ file[q].kind = "info" /\ file[q].box = c}

(* dumpContainerInfo, for one's own container also when joining another.   *)
(* Only a file that cannot be opened is an error: nobody looks at whether  *)
(* it was written, and an error of exists is returned as true.             *)
dumpContainerInfo(p, at, join) ==
    \/ /\ \E f \in {InfoOf(p)} \cup (IF "io" \in Faults THEN {ShortFile} ELSE {}) :
              file' = [file EXCEPT ![proc[p].pid] = f]
       /\ proc' = [proc EXCEPT ![p].at = at, ![p].join = join]
       /\ UNCHANGED owner
    \/ "io" \in Faults /\ Exit(p, "failed", TRUE)

(* The application already runs: its container is entered. *)
enter(p) ==
    /\ proc[p].at = "resolved"
    /\ \E c \in {x \in getCurrentContainers : proc[x].v = proc[p].v} : dumpContainerInfo(p, "join", c)
    /\ UNCHANGED <<boxes, bundle, layers, pm, late>>

(* It may have ended since it was listed. *)
exec(p) ==
    /\ proc[p].at = "join"
    /\ IF proc[p].join \in boxes
         THEN proc' = [proc EXCEPT ![p].at = "joined"] /\ UNCHANGED <<file, owner>>
         ELSE Exit(p, "failed", TRUE)
    /\ UNCHANGED <<boxes, bundle, layers, pm, late>>

(* ContainerBuilder::create makes the bundle directory first; when it      *)
(* fails later nobody removes the directory.                               *)
create(p) ==
    /\ proc[p].at = "resolved"
    /\ \A c \in getCurrentContainers : proc[c].v # proc[p].v
    /\ bundle' = bundle \cup {p}
    /\ \/ proc' = [proc EXCEPT ![p].at = "bundled"] /\ UNCHANGED <<file, owner>>
       \/ "io" \in Faults /\ Exit(p, "failed", TRUE)
    /\ UNCHANGED <<boxes, layers, pm, late>>

dump(p) ==
    /\ proc[p].at = "bundled"
    /\ dumpContainerInfo(p, "dumped", proc[p].join)
    /\ UNCHANGED <<boxes, bundle, layers, pm, late>>

(* Container::run; a failure before the start removes the bundle. *)
run(p) ==
    /\ proc[p].at = "dumped"
    /\ \/ /\ boxes' = boxes \cup {p}
          /\ proc' = [proc EXCEPT ![p].at = "running"]
          /\ UNCHANGED <<file, owner, bundle>>
       \/ /\ "io" \in Faults
          /\ Exit(p, "failed", TRUE)
          /\ bundle' = bundle \ {p}
          /\ UNCHANGED boxes
    /\ UNCHANGED <<layers, pm, late>>

(* The container ends by itself or by ll-cli kill, with all who joined it. *)
Ends(c) ==
    /\ boxes' = boxes \ {c}
    /\ UNCHANGED <<proc, file, owner, bundle, layers, pm, late>>

AppEnds(c) == c \in boxes /\ Ends(c)

kill(c) == c \in getCurrentContainers /\ Ends(c)

finally_early(p) ==
    /\ proc[p].at \in {"running", "joined"}
    /\ bundle' = bundle \ {p}
    /\ Exit(p, "returned", TRUE)
    /\ UNCHANGED <<boxes, layers, pm, late>>

(* run or exec returns: the bundle goes, then the file. *)
finally(p) ==
    /\ \/ proc[p].at = "running" /\ p \notin boxes
       \/ proc[p].at = "joined" /\ proc[p].join \notin boxes
    /\ bundle' = bundle \ {p}
    /\ Exit(p, "returned", TRUE)
    /\ UNCHANGED <<boxes, layers, pm, late>>

(* What was started in somebody else's container ends, and its ll-cli with it. *)
JoinedEnds(p) ==
    /\ proc[p].at = "joined"
    /\ Exit(p, "returned", TRUE)
    /\ UNCHANGED <<boxes, bundle, layers, pm, late>>

(* SIGKILL: the container, the file and the bundle stay. *)
Killed(p) ==
    /\ "kill" \in Faults /\ Live(p)
    /\ Exit(p, "killed", FALSE)
    /\ UNCHANGED <<boxes, bundle, layers, pm, late>>

(* An unrelated process gets a pid that is free, or ends. *)
StrangerAt(q) ==
    /\ "reuse" \in Faults /\ owner[q] \in {Nobody, Stranger} /\ file[q] # NoFile
    /\ owner' = [owner EXCEPT ![q] = IF @ = Nobody THEN Stranger ELSE Nobody]
    /\ UNCHANGED <<proc, file, boxes, bundle, layers, pm, late>>

-----------------------------------------------------------------------------
(* The daemon.                                                             *)

(* A newer version is installed. *)
Install(v) ==
    /\ pm.at = "idle" /\ layers[v] = "absent"
    /\ layers' = [layers EXCEPT ![v] = "installed"]
    /\ UNCHANGED <<proc, file, owner, boxes, bundle, pm, late>>

(* lockRepo: isRefBusy for removeAfterInstall and Uninstall, and the timer *)
(* for the versions marked.                                                *)
lockRepo(job, v) ==
    /\ pm.at = "idle"
    /\ CASE job = "upgrade" -> layers[v] = "installed" /\ \E w \in Versions : w > v /\ layers[w] = "installed"
         [] job = "uninstall" -> layers[v] = "installed"
         [] OTHER -> layers[v] = "marked"
    /\ pm' = [Idle EXCEPT !.at = "look", !.job = job, !.v = v, !.todo = Pids]
    /\ UNCHANGED <<proc, file, owner, boxes, bundle, layers, late>>

getAllRunningContainers_skips_empty(q) ==
    /\ pm.at = "look" /\ q \in pm.todo
    /\ pm' = [pm EXCEPT !.todo = @ \ {q},
                        !.busy = @ \cup (IF owner[q] = Nobody THEN {} ELSE {file[q].app}),
                        !.missed = @ \cup {p \in Procs : owner[q] = p /\ file[q] = NoFile}]
    /\ UNCHANGED <<proc, file, owner, boxes, bundle, layers, late>>

getAllRunningContainers_reads_first(q) ==
    /\ pm.at = "look" /\ q \in pm.todo
    /\ pm' = IF Unreadable(q) THEN Idle
             ELSE [pm EXCEPT !.todo = @ \ {q},
                             !.busy = @ \cup (IF owner[q] = Nobody THEN {} ELSE {file[q].app}),
                             !.missed = @ \cup {p \in Procs : owner[q] = p /\ file[q] = NoFile}]
    /\ UNCHANGED <<proc, file, owner, boxes, bundle, layers, late>>

(* getAllRunningContainers, file by file: one without a process is         *)
(* ignored, one of a live process that cannot be read is an error.         *)
getAllRunningContainers(q) ==
    /\ pm.at = "look" /\ q \in pm.todo
    /\ pm' = IF owner[q] # Nobody /\ Unreadable(q) THEN Idle
             ELSE [pm EXCEPT !.todo = @ \ {q},
                             !.busy = @ \cup (IF owner[q] = Nobody THEN {} ELSE {file[q].app}),
                             !.missed = @ \cup {p \in Procs : owner[q] = p /\ file[q] = NoFile}]
    /\ UNCHANGED <<proc, file, owner, boxes, bundle, layers, late>>

(* The end of isRefBusy.  A busy version is not uninstalled, or is marked  *)
(* by an upgrade; the timer goes on with the lock held.                    *)
unlockRepo ==
    /\ pm.at = "look" /\ pm.todo = {}
    /\ LET busy == pm.v \in pm.busy
       IN  /\ pm' = IF busy THEN Idle
                    ELSE [pm EXCEPT !.at = "act",
                            !.missed = @ \cup (IF pm.job = "deferred" THEN {}
                                               ELSE {p \in Procs : proc[p].at \in {"none", "new"}})]
           /\ layers' = IF busy /\ pm.job = "upgrade" THEN [layers EXCEPT ![pm.v] = "marked"] ELSE layers
    /\ UNCHANGED <<proc, file, owner, boxes, bundle, late>>

remove ==
    /\ pm.at = "act"
    /\ layers' = [layers EXCEPT ![pm.v] = "removed"]
    /\ late' = late \cup pm.missed
    /\ pm' = Idle
    /\ UNCHANGED <<proc, file, owner, boxes, bundle>>

-----------------------------------------------------------------------------
Client(p) ==
    \/ lockCheck(p) \/ createPidFile(p) \/ resolve(p) \/ enter(p) \/ exec(p)
    \/ create(p) \/ dump(p) \/ run(p) \/ finally(p)

Daemon == (\E q \in Pids : getAllRunningContainers(q)) \/ unlockRepo \/ remove

Timer == \E v \in Versions : lockRepo("deferred", v)

Next ==
    \/ \E p \in Procs, q \in Pids : Spawn(p, q)
    \/ \E p \in Procs : Client(p) \/ AppEnds(p) \/ kill(p) \/ JoinedEnds(p) \/ Killed(p)
    \/ \E q \in Pids : StrangerAt(q)
    \/ \E v \in Versions : Install(v) \/ \E job \in {"upgrade", "uninstall"} : lockRepo(job, v)
    \/ Daemon \/ Timer

Spec == Init /\ [][Next]_vars

(* Processes run and the hourly timer, which other jobs may delay but not  *)
(* for ever, fires; nobody is obliged to start, stop or kill anything.     *)
FairSpec ==
    /\ Spec /\ WF_vars(Daemon) /\ SF_vars(Timer)
    /\ \A p \in Procs : WF_vars(Client(p))

-----------------------------------------------------------------------------
Blocked(v) == \E q \in Pids : owner[q] # Nobody /\ (Unreadable(q) \/ file[q].app = v)

(* NoAppLosesVersion: while its ll-cli lives, an application never runs on *)
(* a version that was removed unless the process had not yet made its file *)
(* when the daemon looked: the order of file, dump and start, and the      *)
(* error on an unreadable file, leave only that window open.               *)
NoAppLosesVersion ==
    \A p \in Procs : proc[p].at \in {"dumped", "running", "joined"} /\ layers[proc[p].v] = "removed" => p \in late

(* BundleRemoved: a bundle directory outlives its ll-cli only if that was  *)
(* killed or failed between making it and handing it to the container.     *)
BundleRemoved ==
    \A p \in bundle : Live(p) \/ proc[p].at \in {"killed", "failed"}

(* RunningIsListed: a container that runs has a live ll-cli that is listed *)
(* for it, so that ps, kill and the next run find it, unless that was      *)
(* killed or its file was written short, which it does not notice.         *)
RunningIsListed ==
    \A c \in boxes : c \in getCurrentContainers \/ proc[c].at = "killed" \/ (Live(c) /\ file[proc[c].pid] = ShortFile)

(* BusyIsReal: a version is spared as busy only if a process is about to   *)
(* run it or runs it, or another process has the pid of one that was       *)
(* killed while it did.                                                    *)
BusyIsReal ==
    (pm.at = "look" /\ pm'.busy # pm.busy) =>
      \A v \in (pm'.busy \ pm.busy) \ {0} :
         \E p \in Procs : proc[p].v = v /\ (Live(p) \/ (proc[p].at = "killed" /\ owner[proc[p].pid] # Nobody))

(* LeftOnlyByKill: what is left of an ll-cli that ended, a bundle, a       *)
(* container nobody lists or a version that looks busy, is left by a       *)
(* SIGKILL, or by a failure before the container was handed the bundle;    *)
(* and while it lives its container is listed, unless the file was written *)
(* short.                                                                  *)
LeftOnlyByKill ==
    [][TypeOK' /\ BundleRemoved' /\ RunningIsListed' /\ BusyIsReal]_vars

(* MarkedGoesAway: a version marked for removal does not stay for ever     *)
(* with no file of a live process in the timer's way.                      *)
MarkedGoesAway ==
    \A v \in Versions : []<>(layers[v] # "marked" \/ Blocked(v))

=============================================================================
