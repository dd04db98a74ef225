---------------------------- MODULE PackageJob ----------------------------
(***************************************************************************)
(* What the jobs of the package manager do to the repository.  A job runs  *)
(* from one wait to the next without interruption; while it waits for an   *)
(* ostree pull or a remote listing the event loop turns, and other D-Bus   *)
(* requests, Task1.Cancel, Prune and the deferred-uninstall timer run on   *)
(* top of it.  Jobs themselves run one after the other here (how they are  *)
(* started is TaskScheduler's subject); questions to the user are answered *)
(* with yes.  There is one application, so requests differ in their kind   *)
(* and in the version they are about.  An update may be of several         *)
(* packages: the others are applications too, they come before this one,   *)
(* and of their installs only what the client sees is kept.                *)
(*                                                                         *)
(* A piece of a job is an operator on a record c of repo, task and job;    *)
(* w is what the piece finds in the world outside the repository.          *)
(***************************************************************************)
EXTENDS RepoContents, PackageTask

CONSTANTS Kinds,        \* the requests the clients make
          UabModules,   \* the sets of modules a UAB may bring
          Forces,       \* the values of the --force option
          MayFail,      \* TRUE when removing a layer may fail
          MayCancel,    \* TRUE when clients call Task1.Cancel
          Reports,      \* how far a pull may be reported to be, in 1 .. Whole
          Others        \* how many other packages an update may be of

ASSUME KindsAssumption == Kinds \subseteq {"install", "update", "uninstall", "layer", "uab"}

ASSUME ReportsAssumption == Reports \subseteq 1 .. Whole

ASSUME OthersAssumption == Others \subseteq Nat

VARIABLES repo,      \* the repository: see RepoContents
          running,   \* versions of the app with a container running
          task,      \* the task of the current job
          job,       \* the current job
          queue,     \* jobs of tasks that are Queued
          lookup,    \* a request waiting for the remote listing
          alive,     \* FALSE when undefined behaviour killed the daemon
          ahead,     \* other packages of the update between this one and the app
          course     \* history: "marred" when the task was cancelled or one of
                     \* the other packages failed

vars == <<repo, running, task, job, queue, lookup, alive, ahead, course>>

(* new and old are captured when the request is made.  mods: modules to    *)
(* install, or of old; todo: those not yet pulled.  The next three are the *)
(* transactions to undo.  `had' is history: what was installed at first.   *)
Job(kind, new, old, mods) ==
    [kind |-> kind, new |-> new, old |-> old, mods |-> mods, at |-> "queued", todo |-> <<>>,
     undeleted |-> {}, pulled |-> {}, runtimePulled |-> FALSE, had |-> {}]

NoJob == Job("none", NoRef, NoRef, <<>>)

NoLookup == [kind |-> "none", old |-> NoRef, nested |-> FALSE]

(* isRefBusy fails while ll-cli has created its file and not yet written   *)
(* it; removing a layer may fail at the first or at the second module.     *)
World(ref) ==
    [busy : {"error", IF ref \in running THEN "busy" ELSE "free"},
     failAt : IF MayFail THEN 0 .. 2 ELSE {0}]

Goto(c, at) == [c EXCEPT !.job.at = at]

End(c) == Goto(c, "ended")

Done(c) == isTaskDone(c.task.subState)

ModuleSet(mods) == {mods[i] : i \in DOMAIN mods}

-----------------------------------------------------------------------------
(* removeAfterInstall and what each caller does with its result            *)

(* Mutant: nothing is undone. *)
RollBackInstall_nothing(c) == c

(* Install's rollback: UninstallRef with a temporary task. *)
RollBackInstall(c) == [c EXCEPT !.repo = remove(@, c.job.new, ModuleSet(c.job.mods))]

AfterRemove(c, ok) ==
    CASE c.job.kind = "install" /\ ok  -> End([c EXCEPT !.task = updateState(@, "Succeed")])
      [] c.job.kind = "install" /\ ~ok ->
            End(RollBackInstall([c EXCEPT !.task = updateState(@, "Failed")]))
      [] c.job.kind = "uab"            -> End([c EXCEPT !.task = updateState(@, "Succeed")])
      [] OTHER                         -> End(c)     \* the error is only logged

(* Mutant: the version in use is removed too. *)
RemovalPlan_ignores_busy(w) == IF w.busy = "error" THEN "refuse" ELSE "remove"

RemovalPlan(w) ==
    CASE w.busy = "error" -> "refuse"
      [] w.busy = "busy"  -> "defer"
      [] w.busy = "free"  -> "remove"

(* An old version in use is only marked; a module that is gone meanwhile   *)
(* makes that fail and the marks are taken back.  Otherwise its binary     *)
(* module is removed once for each of its modules, so with two modules the *)
(* second removal fails and the first is pulled again.                     *)
removeAfterInstall(c, w, mods) ==
    LET old      == c.job.old
        hidden   == unexportReference(c.repo, old)
        removed  == remove(hidden, old, {"binary"})
        canBegin == w.failAt # 1 /\ HasLayer(c.repo, old, "binary")
        missing  == {i \in DOMAIN mods : ~HasLayer(c.repo, old, mods[i])}
        unmarked == {mods[i] : i \in {k \in DOMAIN mods : \A j \in missing : k < j}}
    IN  CASE RemovalPlan(w) = "refuse" -> AfterRemove(c, FALSE)
          [] RemovalPlan(w) = "defer" /\ missing = {} ->
                AfterRemove([c EXCEPT !.repo = markDeleted(@, old, ModuleSet(mods), TRUE)], TRUE)
          [] RemovalPlan(w) = "defer" /\ missing # {} ->
                AfterRemove([c EXCEPT !.repo = markDeleted(@, old, unmarked, FALSE)], FALSE)
          [] RemovalPlan(w) = "remove" /\ mods # <<>> /\ ~canBegin ->
                AfterRemove([c EXCEPT !.repo = exportReference(hidden, old)], FALSE)
          [] RemovalPlan(w) = "remove" /\ Len(mods) > 1 /\ canBegin ->
                Goto([c EXCEPT !.repo = removed], "restore")
          [] OTHER ->
                AfterRemove([c EXCEPT !.repo =
                                exportReference(mergeModules(IF mods = <<>> THEN hidden ELSE removed),
                                                c.job.new)],
                            TRUE)

-----------------------------------------------------------------------------
(* InstallRef, pullDependency and their callers                            *)

(* The rollbacks of InstallRef. *)
UndoInstallRef(c) ==
    [c EXCEPT !.repo = markDeleted(remove(@, c.job.new, c.job.pulled), c.job.new,
                                   c.job.undeleted, TRUE)]

FinishInstall(c, w) ==
    LET d == [c EXCEPT !.task = updateSubState(@, "PostAction"), !.repo = mergeModules(@)]
    IN  IF ~HasLayer(d.repo, d.job.new, "binary") THEN End(RollBackInstall([d EXCEPT !.task = reportError(@)]))
        ELSE IF d.job.old = NoRef THEN AfterRemove([d EXCEPT !.repo = exportReference(@, d.job.new)], TRUE)
        ELSE removeAfterInstall(d, w, getModuleList(d.repo, d.job.old))

(* Update has succeeded once the new version is installed. *)
FinishUpdate(c, w) ==
    LET d == [c EXCEPT !.task = setSubState(updateState(@, "PartCompleted"), "PackageManagerDone")]
    IN  IF HasLayer(d.repo, d.job.new, "binary") THEN removeAfterInstall(d, w, d.job.mods) ELSE End(d)

InstallRefReturned(c, w) ==
    IF Done(c) THEN End(c)
    ELSE IF c.job.kind = "install" THEN FinishInstall(c, w) ELSE FinishUpdate(c, w)

(* With no module left to pull InstallRef commits, done or not. *)
NextModule(c, w) ==
    IF c.job.todo = <<>> THEN InstallRefReturned(c, w)
    ELSE IF Done(c) THEN End(UndoInstallRef(c)) ELSE Goto(c, "pull")

(* installFromLayer, after pullDependency. *)
ImportLayer(c, w) ==
    LET new  == c.job.new
        done == [c EXCEPT !.repo = AddLayer(@, new, "binary"), !.task = updateState(@, "Succeed")]
    IN  IF Done(c) THEN End(c)
        ELSE IF ~CanAdd(c.repo, new, "binary") THEN End([c EXCEPT !.task = reportError(@)])
        ELSE IF c.job.old = NoRef THEN End([done EXCEPT !.repo = exportReference(@, new)])
        ELSE IF ~HasLayer(done.repo, c.job.old, "binary") THEN End(done)
        ELSE removeAfterInstall(done, w, <<"binary">>)

(* InstallRef does not look at what pullDependency did. *)
DependencyReturned(c, w) ==
    IF c.job.kind = "layer" THEN ImportLayer(c, w)
    ELSE NextModule([c EXCEPT !.job.todo = Tail(@)], w)

DependencyFailed(c, w) ==
    DependencyReturned(IF c.job.runtimePulled
                         THEN [c EXCEPT !.repo = remove(@, Runtime, {"binary"})] ELSE c, w)

BaseFound(c, w) ==
    LET d == [c EXCEPT !.task = updateSubState(@, "InstallBase")]
    IN  IF HasLayer(d.repo, Base, "binary") THEN DependencyReturned(d, w) ELSE Goto(d, "base")

FindBase(c, w) ==
    IF clearReferenceLocal(c.repo, "base") = NoRef THEN Goto(c, "findBase") ELSE BaseFound(c, w)

RuntimeFound(c, w) ==
    LET d == [c EXCEPT !.task = updateSubState(@, "InstallRuntime")]
    IN  IF HasLayer(d.repo, Runtime, "binary") THEN FindBase(d, w) ELSE Goto(d, "runtime")

pullDependency(c, w) ==
    IF clearReferenceLocal(c.repo, "runtime") = NoRef
      THEN Goto(c, "findRuntime") ELSE RuntimeFound(c, w)

(* Mutant: the previous version goes before the new one has come. *)
InstallRef_removes_first(c, w) ==
    NextModule([c EXCEPT !.repo = remove(@, c.job.old, {"binary"}), !.job.todo = c.job.mods], w)

(* Modules of the new version that are only marked deleted are unmarked;   *)
(* the others are pulled.                                                  *)
InstallRef(c, w) ==
    LET new  == c.job.new
        back == {m \in ModuleSet(c.job.mods) : <<new, m>> \in c.repo.deleted}
        t    == updateSubState(updateSubState(c.task, "PreAction"), "InstallApplication")
    IN  NextModule([c EXCEPT !.task = t,
                             !.repo = markDeleted(@, new, back, FALSE),
                             !.job.undeleted = back,
                             !.job.todo = Sorted(ModuleSet(c.job.mods) \ back)], w)

-----------------------------------------------------------------------------
(* The first piece of each kind of job                                     *)

Processing(c) == [c EXCEPT !.task = updateState(@, "Processing")]

Prepare(c) == [c EXCEPT !.task = updateSubState(updateState(@, "Processing"), "PreAction")]

StartUpdate(c, w) ==
    InstallRef([Processing(c) EXCEPT !.job.mods = getModuleList(c.repo, c.job.old)], w)

(* A layer that is there stops the import; what was imported is removed. *)
StartUab(c, w) ==
    LET d        == Prepare(c)
        app      == {<<d.job.new, m>> : m \in ModuleSet(d.job.mods)}
        imported == [d EXCEPT !.repo.layers = @ \cup app \cup {<<x, "binary">> : x \in Dependencies}]
    IN  IF app \cap d.repo.layers # {} THEN End([d EXCEPT !.task = reportError(@)])
        ELSE IF d.job.old = NoRef
          THEN AfterRemove([imported EXCEPT !.repo = exportReference(mergeModules(@), d.job.new)], TRUE)
        ELSE removeAfterInstall(imported, w, getModuleList(imported.repo, d.job.old))

(* Uninstall: all modules go, or those removed so far are pulled again. *)
StartUninstall(c, w) ==
    LET ref    == c.job.old
        mods   == getModuleList(c.repo, ref)
        hidden == unexportReference(c.repo, ref)
        d      == [Prepare(c) EXCEPT !.job.mods = mods, !.repo = hidden,
                                     !.task = updateSubState(@, "Uninstall")]
        failed == [d EXCEPT !.task = updateState(@, "Failed")]
    IN  CASE w.failAt = 1 /\ mods # <<>> -> End([failed EXCEPT !.repo = exportReference(@, ref)])
          [] w.failAt = 2 /\ Len(mods) > 1 ->
                Goto([failed EXCEPT !.repo = remove(@, ref, {Head(mods)})], "restore")
          [] OTHER -> End([d EXCEPT !.repo = mergeModules(remove(@, ref, ModuleSet(mods))),
                                    !.task = updateState(@, "Succeed")])

(* Update and InstallRef for another package, up to its pull. *)
StartOther(c) ==
    Goto([Processing(c) EXCEPT
            !.task = updateSubState(updateSubState(@, "PreAction"), "InstallApplication")], "other")

StartOf(c, w) ==
    CASE c.job.kind = "install"   -> InstallRef(Processing(c), w)
      [] c.job.kind = "update"    -> StartUpdate(c, w)
      [] c.job.kind = "uninstall" -> StartUninstall(c, w)
      [] c.job.kind = "layer"     -> pullDependency(Prepare(c), w)
      [] c.job.kind = "uab"       -> StartUab(c, w)

-----------------------------------------------------------------------------
(* D-Bus requests                                                          *)

(* The task list is searched for the ref spec; a file's begins with        *)
(* "local", the others' with the name of the remote.                       *)
RefSpec(kind) == IF kind \in {"layer", "uab"} THEN "local" ELSE "remote"

Operated(kind) ==
    \E j \in ModuleSet(queue) \cup {job} : j.kind # "none" /\ RefSpec(j.kind) = RefSpec(kind)

Enqueue(j) == queue' = Append(queue, j)

(* A version older than the one installed needs --force. *)
Accepts(new, old, force) ==
    old # NoRef => new.version > old.version \/ (force /\ new.version < old.version)

(* No handler is in the middle of its work. *)
LoopTurning == alive /\ job.at # "ended"

(* Install and Update read the installed version, then wait for the remote. *)
RequestRemote(kind) ==
    /\ LoopTurning /\ lookup = NoLookup
    /\ kind \in Kinds \cap {"install", "update"}
    /\ kind = "update" => HasLayer(repo, clearReferenceLocal(repo, "app"), "binary")
    /\ lookup' = [kind |-> kind, old |-> clearReferenceLocal(repo, "app"), nested |-> job # NoJob]
    /\ UNCHANGED <<repo, running, task, job, queue, alive, ahead, course>>

(* Handlers return in the reverse of the order they began in. *)
LookupOnTop == lookup # NoLookup /\ (lookup.nested \/ job = NoJob)

JobOnTop == alive /\ (lookup.nested => lookup = NoLookup)

RemoteAnswered(new, force) ==
    /\ LoopTurning /\ LookupOnTop
    /\ lookup' = NoLookup
    /\ \/ queue' = queue                                   \* refused
       \/ /\ Accepts(new, lookup.old, force /\ lookup.kind = "install")
          /\ ~Operated(lookup.kind)
          /\ Enqueue(Job(lookup.kind, new, lookup.old, <<"binary">>))
    /\ UNCHANGED <<repo, running, task, job, alive, ahead, course>>

(* An app that runs is not uninstalled. *)
RequestUninstall(ref) ==
    /\ LoopTurning
    /\ "uninstall" \in Kinds
    /\ ref \in Existing(repo, "app")
    /\ ref \notin running
    /\ ~Operated("uninstall")
    /\ Enqueue(Job("uninstall", NoRef, ref, <<>>))
    /\ UNCHANGED <<repo, running, task, job, lookup, alive, ahead, course>>

InstallFromFile(kind, new, mods, force) ==
    /\ LoopTurning
    /\ kind \in Kinds \cap {"layer", "uab"}
    /\ kind = "layer" => mods = {"binary"}
    /\ LET old == clearReferenceLocal(repo, "app")
       IN  /\ HasLayer(repo, old, "binary") => Accepts(new, old, force)
           /\ Enqueue(Job(kind, new, old, Sorted(mods)))
    /\ ~Operated(kind)
    /\ UNCHANGED <<repo, running, task, job, lookup, alive, ahead, course>>

CancelTask ==
    /\ LoopTurning /\ MayCancel
    /\ job # NoJob
    /\ ~task.cancelled
    /\ task' = Cancel(task)
    /\ course' = "marred"
    /\ UNCHANGED <<repo, running, job, queue, lookup, alive, ahead>>

-----------------------------------------------------------------------------
(* Steps of the current job                                                *)

Become(c) == repo' = c.repo /\ task' = c.task /\ job' = c.job

Config(j) == [repo |-> repo, task |-> task, job |-> j]

TaskOf(j, n) == NewTask([i \in 1 .. n + 1 |-> RefSpec(j.kind)])

(* The first of the packages: the application, or one of n others. *)
FirstPackage(c, n) ==
    IF n = 0 THEN ahead' = 0 /\ \E w \in World(c.job.old) : Become(StartOf(c, w))
             ELSE ahead' = n - 1 /\ Become(StartOther(c))

StartJob ==
    /\ JobOnTop /\ job = NoJob /\ queue # <<>>
    /\ queue' = Tail(queue)
    /\ LET j == [Head(queue) EXCEPT !.had = InstalledApps(repo)]
       IN  \E n \in IF j.kind = "update" THEN Others ELSE {0} :
              FirstPackage([Config(j) EXCEPT !.task = TaskOf(j, n)], n)
    /\ UNCHANGED <<running, lookup, alive, course>>

(* However Update ended for one package, it goes on with the next. *)
NextPackage(c) ==
    IF ahead > 0 THEN ahead' = ahead - 1 /\ Become(StartOther(c))
                 ELSE ahead' = ahead /\ \E w \in World(c.job.old) : Become(StartUpdate(c, w))

(* Another package, or a dependency of it, could not be found or pulled. *)
OtherFails ==
    /\ JobOnTop /\ job.at \in {"other", "otherRuntime", "otherBase"}
    /\ \E t \in {reportError(task), updateState(task, "Failed")} :
          NextPackage([Config(job) EXCEPT !.task = t])
    /\ course' = "marred"
    /\ UNCHANGED <<running, queue, lookup, alive>>

(* A pull has completed and the task was cancelled during it. *)
OtherCancelled ==
    /\ JobOnTop /\ job.at \in {"other", "otherRuntime", "otherBase"}
    /\ Done(Config(job))
    /\ NextPackage(Config(job))
    /\ UNCHANGED <<running, queue, lookup, alive, course>>

(* A pull has completed and the dependency that comes next was found; a    *)
(* cancel while the remote was asked for it is forgotten.                  *)
OtherPulled ==
    /\ JobOnTop /\ job.at \in {"other", "otherRuntime"}
    /\ LET c == Config(job)
       IN  Become(IF job.at = "other"
                    THEN Goto([c EXCEPT !.task = updateSubState(@, "InstallRuntime")], "otherRuntime")
                    ELSE Goto([c EXCEPT !.task = updateSubState(@, "InstallBase")], "otherBase"))
    /\ UNCHANGED <<running, queue, lookup, alive, ahead, course>>

(* Another package is upgraded.  Its old version is removed, which ends    *)
(* with a merge, or fails, with or without a pull of what was removed.     *)
OtherUpgraded ==
    /\ JobOnTop /\ job.at = "otherBase"
    /\ ~Done(Config(job))
    /\ LET c == [Config(job) EXCEPT
                   !.task = setSubState(updateState(@, "PartCompleted"), "PackageManagerDone")]
       IN  \/ NextPackage([c EXCEPT !.repo = mergeModules(@)])
           \/ NextPackage(c)
           \/ ahead' = ahead /\ Become(Goto(c, "otherRestore"))
    /\ UNCHANGED <<running, queue, lookup, alive, course>>

OtherRestored ==
    /\ JobOnTop /\ job.at = "otherRestore"
    /\ NextPackage(Config(job))
    /\ UNCHANGED <<running, queue, lookup, alive, course>>

OtherStep == OtherFails \/ OtherCancelled \/ OtherPulled \/ OtherUpgraded \/ OtherRestored

(* libostree reports how much of a pull is done. *)
Progress(part) ==
    /\ LoopTurning
    /\ job.at \in {"pull", "runtime", "base", "other", "otherRuntime", "otherBase"}
    /\ updateTask(task, part, Whole).stage > task.stage
    /\ task' = updateTask(task, part, Whole)
    /\ UNCHANGED <<repo, running, job, queue, lookup, alive, ahead, course>>

(* A module of the app has been pulled, or not.  A task that was cancelled *)
(* during a pull that completed is left as it is.                          *)
PullEnds ==
    /\ JobOnTop /\ job.at = "pull"
    /\ LET m == Head(job.todo)
           c == [Config(job) EXCEPT !.repo = AddLayer(@, job.new, m)]
       IN  \E w \in World(job.old) :
              \/ Become(End(UndoInstallRef([Config(job) EXCEPT !.task = reportError(@)])))
              \/ /\ CanAdd(repo, job.new, m)
                 /\ Become(IF Done(c) THEN End(UndoInstallRef(c))
                           ELSE IF m = "binary" THEN pullDependency([c EXCEPT !.job.pulled = @ \cup {m}], w)
                           ELSE NextModule([c EXCEPT !.job.pulled = @ \cup {m}, !.job.todo = Tail(@)], w))
    /\ UNCHANGED <<running, queue, lookup, alive, ahead, course>>

(* The remote listing for a dependency has returned. *)
FindEnds ==
    /\ JobOnTop /\ job.at \in {"findRuntime", "findBase"}
    /\ \E w \in World(job.old) :
          \/ Become(DependencyFailed([Config(job) EXCEPT !.task = updateState(@, "Failed")], w))
          \/ Become(IF job.at = "findRuntime" THEN RuntimeFound(Config(job), w)
                                              ELSE BaseFound(Config(job), w))
    /\ UNCHANGED <<running, queue, lookup, alive, ahead, course>>

(* A dependency has been pulled, or not. *)
DependencyEnds ==
    /\ JobOnTop /\ job.at \in {"runtime", "base"}
    /\ LET ref == IF job.at = "runtime" THEN Runtime ELSE Base
           c   == [Config(job) EXCEPT !.repo = AddLayer(@, ref, "binary")]
       IN  \E w \in World(job.old) :
              \/ Become(DependencyFailed([Config(job) EXCEPT !.task = reportError(@)], w))
              \/ /\ CanAdd(repo, ref, "binary")
                 /\ Become(IF Done(c) THEN DependencyFailed(c, w)
                           ELSE IF job.at = "runtime" THEN FindBase([c EXCEPT !.job.runtimePulled = TRUE], w)
                           ELSE DependencyReturned(c, w))
    /\ UNCHANGED <<running, queue, lookup, alive, ahead, course>>

(* A removed module has been pulled again, or not; then the old version is *)
(* exported again.                                                         *)
RestoreEnds ==
    /\ JobOnTop /\ job.at = "restore"
    /\ \E back \in BOOLEAN :
          LET r == IF back /\ CanAdd(repo, job.old, "binary")
                     THEN AddLayer(repo, job.old, "binary") ELSE repo
          IN  Become(AfterRemove([Config(job) EXCEPT !.repo = exportReference(r, job.old)], FALSE))
    /\ UNCHANGED <<running, queue, lookup, alive, ahead, course>>

JobReturns ==
    /\ JobOnTop /\ job.at = "ended"
    /\ job' = NoJob
    /\ task' = TemporaryTask
    /\ course' = "even"
    /\ UNCHANGED <<repo, running, queue, lookup, alive, ahead>>

-----------------------------------------------------------------------------
(* What runs beside the jobs                                               *)

(* Prune's own job, from m_prune_queue; a layer that cannot be removed     *)
(* ends it.                                                                *)
PruneStep ==
    /\ LoopTurning
    /\ \/ repo' = Prune(repo)
       \/ /\ MayFail
          /\ \E gone \in SUBSET Unused(repo) \ {Unused(repo)} : repo' = RemoveRefs(repo, gone)
    /\ UNCHANGED <<running, task, job, queue, lookup, alive, ahead, course>>

DeletedRefs == {x[1] : x \in repo.deleted}

(* Mutant: the timer waits until no app runs at all. *)
Uninstallable_idle == IF running = {} THEN DeletedRefs ELSE {}

Uninstallable == DeletedRefs \ running

(* The timer: marked versions that no container uses are removed, those    *)
(* that cannot be removed stay marked, and the latest version is exported. *)
(* If there is none the code reads a result that holds an error.           *)
deferredUninstall(stuck) ==
    /\ LoopTurning
    /\ Uninstallable # {}
    /\ stuck # {} => MayFail
    /\ LET gone   == {x \in repo.deleted : x[1] \in Uninstallable} \ stuck
           hidden == {unexportReference(repo, ref).entry : ref \in Uninstallable}
           kept   == mergeModules([repo EXCEPT
                         !.layers = @ \ gone, !.deleted = @ \ gone,
                         !.entry  = IF NoDir \in hidden THEN NoDir ELSE @])
           latest == clearReferenceLocal(kept, "app")
       IN  /\ repo' = exportReference(kept, latest)
           /\ alive' \in IF latest = NoRef THEN BOOLEAN ELSE {TRUE}
    /\ UNCHANGED <<running, task, job, queue, lookup, ahead, course>>

(* ll-cli run: the latest version, or one that is named.  (A job that has  *)
(* ended returns at once: nothing is ordered between the two.)             *)
StartApp(ref) ==
    /\ job.at # "ended"
    /\ ref \in Existing(repo, "app") \ running
    /\ HasLayer(repo, ref, "binary")
    /\ Dependencies \subseteq Existing(repo, "runtime") \cup Existing(repo, "base")
    /\ running' = running \cup {ref}
    /\ UNCHANGED <<repo, task, job, queue, lookup, alive, ahead, course>>

StopApp(ref) ==
    /\ job.at # "ended"
    /\ ref \in running
    /\ running' = running \ {ref}
    /\ UNCHANGED <<repo, task, job, queue, lookup, alive, ahead, course>>
-----------------------------------------------------------------------------

Init ==
    /\ repo = EmptyRepo
    /\ running = {}
    /\ task = TemporaryTask
    /\ job = NoJob
    /\ queue = <<>>
    /\ lookup = NoLookup
    /\ alive = TRUE
    /\ ahead = 0
    /\ course = "even"

JobStep == StartJob \/ OtherStep \/ PullEnds \/ FindEnds \/ DependencyEnds \/ RestoreEnds \/ JobReturns

Next ==
    \/ \E kind \in Kinds : RequestRemote(kind)
    \/ \E new \in Apps, force \in Forces : RemoteAnswered(new, force)
    \/ \E ref \in Apps : RequestUninstall(ref)
    \/ \E kind \in Kinds, new \in Apps, mods \in UabModules, force \in Forces :
          InstallFromFile(kind, new, mods, force)
    \/ CancelTask
    \/ JobStep
    \/ \E part \in Reports : Progress(part)
    \/ PruneStep
    \/ \E stuck \in SUBSET repo.deleted : deferredUninstall(stuck)
    \/ \E ref \in Apps : StartApp(ref) \/ StopApp(ref)

Spec == Init /\ [][Next]_vars

(* The timer fires again and again, the event loop delivers it and what it *)
(* removes can be removed some time; a job that has ended returns.         *)
FairSpec == Spec /\ SF_vars(deferredUninstall({})) /\ WF_vars(JobReturns)

-----------------------------------------------------------------------------
(* Properties                                                              *)

JobRecord ==
    [kind : {"none", "install", "update", "uninstall", "layer", "uab"},
     new : Apps \cup {NoRef}, old : Apps \cup {NoRef}, mods : Seq({"binary", "develop"}),
     at : {"queued", "other", "otherRuntime", "otherBase", "otherRestore",
           "pull", "findRuntime", "runtime", "findBase", "base", "restore", "ended"},
     todo : Seq({"binary", "develop"}), undeleted : SUBSET {"binary", "develop"},
     pulled : SUBSET {"binary", "develop"}, runtimePulled : BOOLEAN, had : SUBSET Apps]

(* Types; a mark is only on a layer that is there, and a job that waits    *)
(* for a pull has a module to pull.                                        *)
TypeOK ==
    /\ RepoOK(repo)
    /\ running \subseteq Apps
    /\ task.state \in States /\ task.subState \in SubStates
    /\ job \in JobRecord /\ (job.at = "pull" => job.todo # <<>>)
    /\ queue \in Seq(JobRecord) /\ Len(queue) <= 2
    /\ lookup.old \in Apps \cup {NoRef}
    /\ alive \in BOOLEAN
    /\ ahead \in Nat

(* No step leaves the launcher's links dangling, whatever fails, is        *)
(* cancelled or overtaken, except the rollback of an install of the very   *)
(* version the timer has exported meanwhile.                               *)
LauncherKept ==
    [][EntryAlive(repo) =>
         \/ EntryAlive(repo')
         \/ job'.kind = "install" /\ task'.state = "Failed" /\ repo'.entry.ref = job'.new]_vars

(* An install that reports success has left the version it installed in    *)
(* the repository, and the launcher leads to it unless the previous one is *)
(* still in use.                                                           *)
InstallSucceeds ==
    (job.at = "ended" /\ task.state = "Succeed" /\ job.kind = "install")
        => /\ Installed(repo, job.new)
           /\ repo.entry.ref = job.new \/ job.old \in running

(* Only an uninstall takes the last installed version away: an install or  *)
(* an upgrade that fails at any point leaves one, whatever ran meanwhile.  *)
UpgradeKeepsAVersion ==
    (job.at = "ended" /\ job.kind # "uninstall" /\ job.had # {}) => InstalledApps(repo) # {}

(* A job touches no version but the ones it was created for. *)
OthersUntouched ==
    job' # NoJob =>
      \A ref \in Apps \ {job'.new, job'.old} :
         {x \in repo.layers : x[1] = ref} \subseteq repo'.layers \/ ref \in DeletedRefs

(* A running version keeps its layers when it is replaced, and the timer   *)
(* and other jobs leave them alone: only an uninstall, or the rollback of  *)
(* an install of that very version, may take them away.                    *)
UpgradeSparesRunning ==
    \A ref \in running :
      (job'.kind # "uninstall" /\ ref # job'.new /\ HasLayer(repo, ref, "binary"))
         => HasLayer(repo', ref, "binary")

(* No step of a job, of the timer or of Prune takes away a version that is *)
(* not its own or that runs.                                               *)
JobSparesOthers == [][OthersUntouched /\ UpgradeSparesRunning]_vars

(* A version reported as upgraded to is installed.  (When the old version  *)
(* was uninstalled between the request and the job there are no modules to *)
(* install, and success is reported all the same.)                         *)
UpdateSucceeds ==
    (job.at = "ended" /\ task.state = "Succeed" /\ job.kind = "update" /\ job.old \in job.had)
        => Installed(repo, job.new)

(* An install that failed leaves the new version behind only when it is    *)
(* one of its dependencies that is missing.                                *)
FailedInstallRolledBack ==
    (job.at = "ended" /\ job.kind = "install" /\ task.state = "Failed" /\ Installed(repo, job.new))
        => job.new \in job.had \/ \E d \in Dependencies : ~HasLayer(repo, d, "binary")

(* A successful uninstall of a version with one module leaves no launcher  *)
(* link to what it removed.  (With several the links lead to the merged    *)
(* directory, where unexportReference does not look.)                      *)
UninstallRemovesEntries ==
    (job.at = "ended" /\ task.state = "Succeed" /\ job.kind = "uninstall" /\ job.mods = <<"binary">>)
        => repo.entry.ref # job.old

(* The percentage a client reads is one, however many packages a task is   *)
(* of and however its last one fails.  (A failed package and a cancel set  *)
(* it to 100, and Update goes on with the next package and its weights.)   *)
PercentageBounded == course = "even" => getPercentage(task) <= 100 * Whole

(* A task that has ended has a result. *)
EndedIsDone == job.at = "ended" => isTaskDone(task.subState)

(* The result a client is told is true of the repository: what succeeded   *)
(* is there, or gone, as asked, what failed was rolled back, and a task    *)
(* does not end without a result.                                          *)
ResultIsTrue ==
    /\ TypeOK
    /\ InstallSucceeds
    /\ UpdateSucceeds
    /\ FailedInstallRolledBack
    /\ UninstallRemovesEntries
    /\ EndedIsDone

(* A version that was kept for a running app is removed once it no longer  *)
(* runs.                                                                   *)
MarkedIsRemoved ==
    \A ref \in Apps :
        <>[](ref \notin running /\ alive) => []<>(ref \notin DeletedRefs)

=============================================================================
