# Linglong: a TLA+ model

This directory holds a formal model of Linglong, the package manager and
sandbox launcher in this repository: TLA+ modules, TLC configurations, and
proofs checked by TLAPS. `PROJECT.json` lists the runs, the theorems, a mutant
for each property that shows it can fail, the hazards the properties are for,
and, for every definition, the source lines it models.

Abbreviations: `PM` is `libs/linglong/src/linglong/package_manager/package_manager.cpp`,
`PMH` its header, `PT` is `package_task.cpp` beside it; in `libs/linglong/src/linglong/`,
`OR` is `repo/ostree_repo.cpp`, `RC` `repo/repo_cache.cpp`, `CLI` `cli/cli.cpp`,
`CB` `runtime/container_builder.cpp`, `BL` `builder/linglong_builder.cpp`;
`UH` is `apps/uab/header/src/main.cpp`, `BX` `apps/ll-box/src/container/container.cpp`.

## 1. The system

`ll-cli` is the client. It runs applications itself (it builds an OCI bundle and
calls `ll-box`) and sends everything that changes the set of installed packages
to the daemon `ll-package-manager` over D-Bus. The daemon is one Qt thread with
one event loop. `ll-builder` makes packages in a repository of its own. A UAB is
a package that is a program: it mounts and runs itself, or has `ll-cli` install it.

| Part | State | Operations | Talks to |
|---|---|---|---|
| `PackageManager` (PM) | task list, path of the running task, two `JobQueue`s | Install, InstallFromFile, Uninstall, Update, Search, Prune, ReplyInteraction; the `TaskListChanged` handler; an hourly timer (`deferredUninstall`) | `OSTreeRepo`, `PackageTask`, clients through signals |
| `JobQueue` (PMH) | pending jobs, number of running ones | `runTask`, `run` | the event loop |
| `PackageTask` (PT) | State, SubState, percentages, parts, cancel flag | `updateState`, `updateSubState`, `reportError`, `Cancel` | the client, through properties |
| `OSTreeRepo` (OR) | refs, layer directories, exported entries, merged directories, configuration | `pull`, `remove`, `exportReference`, `mergeModules`, `setConfig`, ... | libostree, `RepoCache` |
| `RepoCache` (RC) | the list of layers, in memory and in `states.json` | `addLayerItem`, `deleteLayerItem`, queries, `rebuildCache` | the file system |
| configuration, migration (`repo/config.cpp`, `repo/migrate.cpp`) | `config.yaml`, `.version` | load, save, migrate at start | `OSTreeRepo`, `ll-cli repo` |
| `Version`, references (`package/`) | none | parsing, order, fuzzy match | everything that chooses a version |
| `Cli` (CLI) | the current task | install, upgrade, uninstall, search, prune, repo; run, exec, kill; handlers of the daemon's signals | the daemon, the lock, pid files |
| `ContainerBuilder` (CB), `apps/generators` | `config.json` of a container | `create`, `fixMount`, the scripts of `config.d` | `ll-cli`, `ll-box` |
| `ll-box` | a process tree and a record per container | run, list, exec, kill | the kernel |
| UAB (`package/uab_packager.cpp`, `apps/uab`) | the file, its mount point, container bundles | pack; header, loader, signal handlers | erofsfuse, `ll-cli`, `ll-box` |
| `ll-builder` (BL) | `states.json` and merged directories of the builder | build, run, export, push, import, remove | the server, containers |

What is hard here. The daemon has one thread, but whatever waits for the network
or the user turns a nested event loop, so handlers run on top of handlers and
must return in reverse order: every value read before such a wait may be
stale after it. A job changes the repository in many steps, each may fail, be
cancelled, or meet `Prune` and the timer; undo is by `Transaction`s whose
rollbacks pull over the network again. A layer lives in four places written one
after the other, the configuration in four others, and the daemon may stop in
between. `ll-cli` starts applications beside all this, in other processes, and meets
the daemon only in files and signals. A container is three processes that
must end together. A UAB shares its mount point with every other start of it.
`ll-builder` locks nothing.

What makes each part correct:

* task list: a queued task is started and ends, a ref is in one task, a client hears the end of its task;
* job queue: nothing lost, doubled, reordered or starved; the count is exact;
* jobs: what is reported is what happened, an upgrade never loses the app, what
  runs or is not theirs is left alone, the launcher's links never dangle;
* layer store: whatever is listed can be opened, whatever was installed stays, crashes included;
* configuration: its copies agree, a failed change is undone, every start recovers what the last one left;
* versions: the version found is the one meant;
* client: the exit status is true, no task is abandoned, neither side waits for ever;
* running applications: none loses its version, none is lost from sight, nothing is kept for ever for one that is gone;
* containers: mounts compose, nothing outlives `ll-box`, records tell the truth, the application's end is the end;
* UAB: the file holds what was packed; no mount, directory or process is left behind;
* builder: a build is complete or not there, and what it made is shipped.

## 2. Modules

| Module | Models | Notes |
|---|---|---|
| `JobExecutor` | what a job queue promises | abstract |
| `JobQueue` | `service::JobQueue` | implements `JobExecutor`; theorems in `DaemonProofs` |
| `PackageTask` | `PackageTask`, as operators on a record | used by the next three |
| `TaskScheduler`, `MCTaskScheduler`, `TaskSchedulerProofs` | D-Bus requests, the `TaskListChanged` handler, jobs between two waits | theorems |
| `RepoContents` | `OSTreeRepo` and `RepoCache`'s queries as the jobs use them | operators on a record |
| `PackageJob`, `PackageJobProofs` | what the jobs, `Prune` and the timer do to the repository | composes `RepoContents` and `PackageTask`; theorems |
| `CliTask` | one `ll-cli` and the daemon's side of its task | uses `PackageTask`; theorems in `CommandProofs` |
| `LayerStore` | what a reader of `states.json` may rely on | abstract |
| `RepoStore` | where a layer is kept, one write at a time, with faults | implements `LayerStore`; theorems in `DaemonProofs` |
| `DaemonProofs` | | the theorems about `JobQueue` and `RepoStore` |
| `AppRun`, `AppRunProofs` | `ll-cli run`, `exec`, `kill` beside a daemon that removes versions | theorems |
| `VersionOrder` | `Version`, references, the choice among versions | pure operators |
| `RepoConfig` | configuration, migration, start of the daemon, `ll-cli repo` | |
| `Resolve`, `MCResolve`, `ResolveProofs` | requests that look a version up | composes the last two; theorems about both |
| `ContainerConfig` | from a base and a host to the mounts of a container | |
| `Box` | `ll-box` | |
| `Container`, `MCContainer`, `ContainerProofs` | a start from `config.d` to the application's end | composes the last two, implements `Box`; theorems about both |
| `Uab`, `UabProofs` | packing, header, loader, erofsfuse, the import by the daemon | theorems |
| `Builder`, `MCBuilder` | `ll-builder` commands on one repository | theorems in `CommandProofs` |
| `CommandProofs` | | the theorems about `CliTask` and `Builder` |

Every module begins with what its variables stand for. How they correspond to the code:

**JobQueue.** `taskList` and `runningJobsCount` are the fields; `posted` counts the
`invokeMethod` calls not yet delivered and `callStack` the jobs whose `func()` is on
the stack. `run()` is `runBegin` (up to `func()`), `runEmpty` (its early return) and `runEnd`.

**TaskScheduler.** `signals` are the queued `TaskListChanged` emissions; `stack` the
handlers and jobs that wait, innermost last. Only the innermost may go on, and
others run only while it waits (`Spinning`). Install and Update are one step per
package (`RequestRemote`, `RemoteAnswered`); the handler is `NotifyWaiting`, or
`StartNext` with `JobReturned` for its rest; a job is `JobAsks`, `JobProceeds`,
`JobWorks`, `JobRevives` (the pull of a dependency un-does the end of a cancelled task), `JobRolledBack`, its
work reduced to the results it may leave in the task; a job that has reported its end may still wait for pulls
that restore what was removed (`Restores`). Two uses of memory that is gone are choices between nothing and the end of the daemon (`alive`).

**PackageJob.** A piece of a job from one wait to the next is an operator on the
repository, the task and the job, so a C++ early return is a branch and a rollback
an operator. The waits are the values of `job.at`. Between them come requests,
cancels, progress reports, `PruneStep`, `deferredUninstall` and applications starting
and stopping. `World` is what a piece finds outside: whether the old version runs,
or that cannot be told, and which removal fails. An update may be of several packages (`Others`): the ones before
the application keep of their installs what a client sees of the task and where it waits (`OtherStep`). `course` is a
history: the task was cancelled or one of the other packages failed.

**CliTask.** `matches` are the match rules on the bus and `inbox` the signals
forwarded; one sent before its rule is added is lost. `cli.at` is where the
client's thread is; a handler runs only in an event loop, which a dbus notification
turns beneath the question. `pkg` is the daemon's side: task, job, the reply it has, Search and Prune. A reply of any client
reaches a job that waits (`ReplyFromOther`), which goes on in a step of its own (`JobGoesOn`). A
read of the proxy after `TaskRemoved` deleted it, or of a missing list, is `crashed`.

**RepoStore.** `refs`, `dirs`, `mem` and `disk` are the four places. `pull` and
`importLayerDir` run through the stages `ensure`, `checkout`, `add`, `remove` through `delete`
and `rmdir`; each stage is one write. A write of `states.json` may fail, or leave a file that is `short`, which the
code does not notice and the next start cannot parse. `acked` and `met` are history: what was
reported as added, what has gone wrong.

**AppRun.** The pid file is made empty (`file`), filled by `dump`, to its end or not, and removed by
`finally`; the daemon reads the files one by one (`getAllRunningContainers`) under a lock
that `ll-cli` only tests, and removes after it has given the lock up. `kill` and
`exec` find containers through the same files.

**RepoConfig, VersionOrder, Resolve.** A start is `Load`, `tryMigrate` with `LinkLayer`
per layer, `OpenVersion`, `WriteVersion`, `OpenRepo`, the remote, `CreateCache`,
`exportAllEntries`, `RenameShare`, `Register`; `SetConfiguration` goes through `OpenYaml`,
`WriteYaml`, `DeleteRemote`, `AddRemote`, `RebuildCache` with the undoing of each. A
crash may come before every step, and the writes of `config.yaml` and `.version` may fail unseen. `Resolve` adds one request that reads the
configuration, waits for the server while `setConfiguration` is served, and is pulled
later by a task. Versions are sequences of numbers; their text order is that of
their digits, which is not the order of the numbers.

**ContainerConfig, Box, Container.** Every file of `config.d` is one step that adds its
mounts or is skipped (it failed or took too long); then patches, options, `fixMount`
and the last mount of `Container::run`; `MountAll` makes them in order and `Cover` says
what is seen at a path. `Box` then has the three processes, their death signals and
waits, the second pass over read-only mounts, the record and the other commands, with both ways in which `exec` finds
the process to enter.
`Container` puts the two after each other.

**Uab.** `Procs` are the headers and the processes they fork for erofsfuse, which return
into the header's code when the image is unmounted; each has its copies of `mountPoint`,
`createFlag` and `mountFlag`. `mnt` is the stack of images on the mount point, of which `umount`
takes the top one, whoever's it is. `cleanResource` is two steps, `umount` and the removal of the
directory; a child that cannot execute the loader goes through both as well (`childCleans`), and a
header waits for the child it forked (`reap`), which mounts (`fuseMounts`) or fails and cleans up, also when the header has got its
signal meanwhile. `pm` and `lost` count the images the package manager has mounted and could not unmount. The history
variables `left` and `hit` record the accidents after which something may stay, or a run be without
its image; their causes are listed at their declarations. Exit statuses of headers are left out.
`pk` and `build` are the packer and what one that was killed has left.

**Builder.** Every command has the copy of the list it read (`cache`), works on it and writes
all of it with each change. A build is its stages, with skips; what it makes is a
few files, one of them a link to a directory, which its modules take one after another; binary takes the rest, or what
`$appid.install` lists of it. `repo` are the refs and layer directories beside the list, which a command that ends between
the two leaves apart (`pullInterrupted`, `removeHead`, `ListFails`); a dependency on the server has a binary main module or an old
one. `alone` is
a history: no other command has lived beside this one. Two commands of which one changes a project are not given for it at a
time: both would work in the same directory of the project.

Mutated versions of definitions (named `<definition>_<what is wrong>`) stand before the
definitions they replace; no specification uses them.

## 3. What TLC checks

| Run | Question | States |
|---|---|---|
| `search_queue` | Is a search or prune request lost, doubled, reordered, starved; is the count exact; is `JobExecutor`, liveness included, implemented? | 1 093 |
| `task_safety` | Three tasks, questions and cancels at every wait: is a wake-up lost, `TaskRemoved` sent too early, a ref in two tasks? | 1 166 000 |
| `task_progress` | Every kind of request, two tasks, under fairness: do nested loops unwind, is a stale running path the only cause of starvation? | 48 700 |
| `job_safety` | Every kind of job, updates of two packages too, with failures, cancels, Prune and the timer: are results true, versions and links kept, is the percentage one? | 1 293 000 |
| `job_timer` | One and two modules, removals that fail halfway; under fairness of the timer: are marked versions removed? | 25 600 |
| `store_faults` | Six kinds of fault in any order, one that nobody notices: is what is listed complete, does what was added stay, is `states.json` a table? | 65 900 |
| `client` | One `ll-cli` of any kind with signals, cancels and replies by others, and the end of either process at any moment | 800 000 |
| `removal` | Two `ll-cli run` beside upgrades, uninstalls and the timer, with SIGKILL, reused pids, writes that fail, seen or not | 576 000 |
| `resolve` | Starts, migration, two users of `ll-cli repo` and a request, with two failures, seen or not, or crashes anywhere | 420 000 |
| `box` | A container on more than a hundred combinations of bases, hosts, homes and packages, then its processes and another `ll-box`, with SIGKILL, failing calls, a reused pid, a kernel that lists no children | 328 000 |
| `uab` | Two packings, then two starts side by side, with signals, SIGKILL and failing steps, umounts too | 345 000 |
| `builder` | Two commands out of thirteen, after or beside each other, interrupted, with short writes of the list and a server that publishes | 2 547 000 |

Some properties are conjunctions of parts that say one thing together; each part is
a definition with its own comment:

| Property | Parts |
|---|---|
| `TaskListSound` | types, `OneTaskPerRef`, `RemovedOnlyWhenDone` |
| `ResultIsTrue` | types, `InstallSucceeds`, `UpdateSucceeds`, `FailedInstallRolledBack`, `UninstallRemovesEntries`, `EndedIsDone` |
| `JobSparesOthers` | `OthersUntouched`, `UpgradeSparesRunning` |
| `LeavesClean`, `NobodyWaits` (CliTask) | types, `NoTaskAbandoned`, `DiesOnlyWhenRaced`; `WaitEnds`, `QuestionAnswered`, `SignalEnds` |
| `LeftOnlyByKill` | types, `BundleRemoved`, `RunningIsListed`, `BusyIsReal` |
| `ConfigKept`, `StartRecovers`, `VersionsChosen` | `Agree`, `LoadsOldOrNew`, `NoLostUpdate`; `MigrationLosesOnePerCut`, `EntriesKept`, `StartFailsOnlyTorn`; `RemoteHighest`, `UpgradeRises`, `InstallRises`, `InfoShowsLatest`, `ListedCanUpgrade` |
| `StartIsSound`, `RecordsTell`, `EverythingEnds` (Box) | types, `ExitTells`, `AppInFinalRoot`; `StaleSwept`, `ExecBesideApp`, `RecordedWhileAlive`; `KillEnds`, `AppEndsAll` |
| `MountsCompose` | types, `BaseStillSeen`, `AskedIsMounted`, `NothingHidden`, `HomeIsCovered`, `EnvIsMounted` |
| `PackTells`, `LeavesNothing` (Uab) | `PackFresh`, `MinifiedTells`; types, `NothingLeft`, `BundleRemoved`, `ManagerUnmounts` |
| `RepositorySound`, `BuildTells` | types, `OneBuild`, `RecordsHaveDirs`, `DiesOnlyOfSkew`, `PullsAgain`; `ExitTells`, `FilesShipped` |

Many parts make an exception for something the code really does; the exception is
in the formula, its comment names it, and section 6 says how it comes about.

**Bounds.**

* `search_queue`: four jobs and two slots; the code uses one, with which `runEmpty`
  cannot happen; the theorems cover every number.
* Task runs: two refs and two or three tasks: one in the way, one waiting, one
  arriving; symmetric in the tasks only where no liveness is checked.
* Job runs: two versions (the old and the new), one application, runtime and base, at most
  one `local` and one `remote` job waiting, which is the code's own limit for one
  application; a pull reports its progress in `Whole = 2` steps. An update is of the application alone or of one package
  before it (`Others`): one that fails, is cancelled or completes before the application's turn comes.
* `store_faults`: two layers, one that is worked on and one that must not notice.
* `client`: one client; all it can know of others are signals about other tasks
  (`OtherTask`), cancels of its task and one wait of it behind another (`seen.waited`).
* `removal`: `MaxProcs = 2` processes and as many pids, so that the second may be the first's reader, victim
  or successor under its pid; two versions.
* `resolve`: two names, two addresses, two symmetric clients with four commands, three layers of which one
  has no directory, `MaxFaults = 2` (a fault and one in its undoing, or in the next
  start). `MaxAsks = 1` request, of which those in `Slow` may come while the configuration
  changes and the others once it is settled: only what is pulled depends on it.
  Versions differ in the number of parts and of digits.
* `box`: `MaxSkips = 2` generators fail: one that covers and one that is covered. `Hosts` lack up to three
  things of the base together, or one of the host, with permissions and links for homes
  and four kinds of bind. One read-only mount and one other command
  in `Box`, whose processes do not depend on the configuration.
* `uab`: `MaxPacks = 2`, so that the second may find what the first left; two starts, the first of which may be
  struck (`Struck`) by a signal or SIGKILL.
* `builder`: `MaxProcs = 2` commands of two projects that share a base; three modules, four files, two
  versions on the server, of which the runtime's main module is an old one and the base's becomes one or not.

**Simplifications.** Jobs of `PackageJob` run one after the other and questions are
answered with yes (overlap and answers are `TaskScheduler`'s and `CliTask`'s subject).
The removals of a rollback succeed. All versions of the application need the same
runtime and base and export the same file names. A layer is one commit. A UAB is
imported in one step, since it does not wait. `AppRun` has one application, `Box`
one container whose id is never given twice.

**Fairness.** `JobQueue`: posted events are delivered and jobs return.
`TaskScheduler!FairSpec`: posted signals are delivered, remote calls and jobs return
(each has a timeout or an error), and questions are answered. `PackageJob!FairSpec`:
the timer's handler runs with nothing in its way again and again if it can again and again,
and a job that has ended returns. `CliTask!FairSpec`: the client's thread and its event
loop go on, its D-Bus calls return or time out, and its user answers; nothing of the daemon, whose task may never be started
(PM:118) and may wait for ever, and nothing of signals, cancels and stops. `AppRun!FairSpec`: the daemon and every `ll-cli` go on, the hourly timer fires again and
again if other jobs do not hold the daemon for ever; nobody has to start, end
or kill anything. `Uab` and `Box`: the kernel schedules every process that can run;
nothing makes an application end, and nothing makes the package manager finish `ll-cli install` of a UAB, for which a run may
wait for ever.

Deadlock checking is off where commands and requests may all be served and the
system then rests; `store_faults` has it on.

## 4. What is proved

All theorems are for every value of the constants.

`DaemonProofs`, about `JobQueue`, from `MaxAssumption` (at least one slot) and `UintAssumption`
(the unsigned counter can hold the number of slots):

* `QueueTypeCorrect`, `CountExact`, `NoLostJob`: the invariant is
  `QueueTypeOK /\ CountIsExact /\ WaitingJobHasRunner`. The three need each other: a
  decrement stays above zero because the count is exact, and a job left waiting is
  seen by a later `run()` because each unit of the count is one.
* `Fifo`: `AcceptedInOrder` is inductive together with that invariant.
* `ImplementsExecutor`: initial states map to initial states, `runTask`, `runBegin`
  and `runEnd` to the steps of the executor, `runEmpty` to a stutter.

`DaemonProofs`, about `RepoStore`, with any faults of the kinds it names (`FaultsAssumption`):

* `TypeCorrect`: types, and what an operation has done by each stage.
* `Complete` and `AddAssertion`: `CompleteInv` adds that memory, which
  the next write copies to disk, lists only complete layers, and that neither memory
  nor disk lists a layer being added or removed. Without it a failed
  write followed by a good one could publish what the failed one held. Both hold until the list is rebuilt, which
  a short write makes the next start do.
* `Survives`: `SurvivesInv` adds that no operation that takes a layer
  apart is in progress on one that is to stay. A short `states.json`, written with success as far as the code knows, is no exception:
  the layer is then in memory, and in the refs from which the next start makes the list.
* `ImplementsTable`: `CoherentInv` says that memory is what was written last while the
  daemon runs, as long as no write has failed or ended short and the list was not rebuilt. Under the
  map `listed <- disk` every step until then is one of the table's or a stutter.

`TaskSchedulerProofs`, for any tasks, refs and requests, from the module's own assumptions:

* `TypeCorrect`, `WakeupKept`, `RemovedDone`: the invariant is
  `TypeOK /\ FramesSound /\ RemovedOnlyWhenDone /\ NoLostWakeup`. `FramesSound` says what the
  stack of nested handlers may look like: only the innermost is not in a nested
  loop, a job that is about to return has a done task, and so has one that rolls back or restores, or
  a job further in works on the same task (`RollbackIsDone`). The last case is the reason
  for the strengthening: a task may be executed a second time, or be revived by the pull of a dependency, while its first
  job is still rolling back, and only because handlers return in reverse order is it
  done again when the first one gets to remove it.
* `ListSound`: `ListedKeepsRefs` adds that a listed task has the refs of its request, `RemoteIsNew` and `RemoteUnlisted` that
  the task of a request still waiting for the server is in no list.
  The theorem has the hypothesis `SinglePackages`, every request names one package. It is needed:
  the code breaks the property for an update of several packages (section 6), which
  is why the requests of `task_safety` are such, too.

`AppRunProofs`, for any number of processes, versions and faults, from `RunAssumption`:

* `VersionKept`: the invariant relates where a process is to what its file says
  (`OwnFile`), a file to the process that wrote it (`Written`), and both to what the
  daemon has read. `SeenWhileLooking` says that a process whose pid has been read is missed,
  has no file yet, or has its version among the busy ones; `SeenWhenActing` is
  what is left of it when the daemon decides; `NoChosenVersionLost` extends the property to
  processes that have only chosen their version.
* `NothingElseLeft`: an action property; `Possessions` says who has a bundle and a
  container at each place. That a spared version is used (`BusyIsReal`) follows
  from `Written`. A live process whose file is short is the one exception for its container to be listed.

`ContainerProofs`, for any mounts, commands and faults, with no assumption:

* `OrphansOnlyEarly`, `StartSound`: `TreeInv` says that a process lives only inside the one
  that cloned it, from where on the entry process has its death signal, and that a 0 is passed on
  and never made; `RootInv` that the root is complete before anything can run in it.
* `RecordsTrue`: `RecordInv` relates the record to where `ll-box` is, `SweepInv` says that a
  record is found stale only of a container that is over, so that nobody writes it again. Which namespaces `exec`
  enters is proved for both searches, with their different results.
* `ContainerIsABox`: `ContainerSpec => Spec`. The steps of the configuration are
  stutters of `Box`, so that the other theorems hold of the composition.

`UabProofs`, for any finite set of starts, of which any may be struck, any number of
packings and any faults, from `FaultsKnown` and `PacksKnown`:

* `PackedTells`: `ImageKnown` adds which packing an image on disk is of, so that the section
  written later is the right one.
* `RunKeepsImage`: `MountOwned`, which holds until a run is hit, says that there is at most one
  image and that it belongs to the one process that made the mount point.
* `NothingStays`: `Accounted` counts. As long as nothing was left, there are at most as many images
  mounted as processes that have yet to unmount one, and the mount point has one
  that will remove it; `ManagerCounts` makes `pm` the number of imports that have
  mounted and of the umounts that failed. Which process unmounts whose image is not determined (`umount` takes the top
  one), so a correspondence of owners would not be inductive; the count is.
  `MountsServed`, `DaemonLate`, `FlagsTell` and `LoaderOnce` say what a process has by the place
  it is at.

Planning this proof showed that `Uab` had been right for two starts only (one image
instead of a stack) and had left out the cleaning by the children that fail;
both are now in the model.

`CommandProofs`, about `CliTask`, for any commands, notifiers and faults, with no assumption:

* `ClientTellsTheTruth`, `ClientLeavesClean`, `ClientConsentIsOwn`: the invariant is
  `DaemonInv /\ CommandInv /\ ClientInv /\ InboxInv /\ EndInv`, for the last one with `ConsentInv`: the reply a
  job has is one of its own user to its own question, or somebody else replied while it waited. What the client knows comes from
  signals that may be old when they are handled, so the centre of it is `Truthful`: every signal in the inbox
  is true of the daemon now, or has become so, and no change of the task is heard behind its end unless
  somebody else cancelled it. `TaskTells` says when a part is counted, `ClientInv` what the client
  has by the place it is at.

`CommandProofs`, about `Builder`, for any number of commands and any mishaps, from the assumptions of `Builder` (there is
a command, and command lines have the options that `main` lets through); projects, files and versions are the few
of the module:

* `RepositoryStaysSound`, `BuildTellsTheTruth`: `BuildInv`. The list a command writes back may be an old copy, so that the
  modules of a project come from one build has to hold of every copy that a running command has
  (`CopiesOfOneBuild`); it survives the commits because the old modules go before the new ones come
  (`Committed`). `Undisturbed` is what holds as long as commands follow one another: the only running one has the list
  of the disk (`TrueRecords`), records have their directories, refs without an entry were left by an interrupted pull (`ListedRefs`), and
  the base is whole while the server has no old kind of it (`WholeBase`). `Shared` follows each file from the script to a module, `StageOf` and
  `DepsInOrder` say which command is at which stage and what it has pulled. For the proof the
  sharing out became a step for each module, as it is a loop in the code.

`ResolveProofs`, for any configurations, layers, clients, commands and faults, from the assumptions of
`RepoConfig` (the configurations are of the module's type, and the versions compared by the migration
have three numbers, as the ones released do):

* `OneConfiguration`, `StartsRecover`: `ConfigInv` follows the four copies of the configuration through a
  change and its undoing, step by step (`FileInv` for the file, which may be empty after a kill or a write nobody looked at, `RemoteInv` for the ostree remote, `CallInv` and
  `ClientsInv` for what the daemon and a client go by), and the migration through its cuts
  (`MigrationInv`: what is not linked is being linked, or is the one layer that a cut costs).
* `PulledFromItsServer`: `AskInv` adds that a request that waits is for the server of the
  configuration unless that was changed.

`PackageJobProofs`, for any versions (1 to 99, as they are sorted as text), requests and failures:

* `SparesOthers`, for any modules: `JobsInv` is only what a job and the queue consist of. The work is in a lemma for each
  piece of a job: what it takes is of the version it installs, of a dependency, or of the version it
  replaces, and the last only if `isRefBusy` said that it is free (`Takes`).
* `ResultsAreTrue`, `AVersionIsKept`, `LauncherIsKept`, under the hypothesis `OneModule`: a UAB brings the binary
  module only. The invariant is `OneInv` with `JobsInv`. `NowInv` is what holds where a job waits: `WaitInv` (the new version is
  there or still to come, nothing of the old one is gone, the task is open) or, at its end, `EndInv`. `AskInv` and
  `LineInv` say of requests and queued jobs that old and new are two versions, `StoreInv` what a repository of single
  modules looks like. A piece is shown to lead from one of these to another (`Reaches`), whatever the timer, `Prune`
  and other requests did while it waited.
  The hypothesis is needed, and it is the setting of `job_safety`, too: with two modules `removeAfterInstall` removes the
  binary module twice and undoes both if pulling it again fails, and links into a merged directory
  survive (section 6).
* `PercentageIsOne`, for any modules and any number of packages, with no hypothesis: `Paced` gives
  each wait of a job a budget (30 before the dependencies, 50 with the runtime, 70 with the base), which with the weight of the
  step in progress is at most 100, and `Going` leaves room for the packages to come. The property is about tasks that were not
  cancelled and none of whose earlier packages failed: after either it is false (section 6).

Only model-checked:

* liveness (`ExecutorSpec`'s fairness, `HandlersUnwind`, `StarvedOnlyByStalePath`, `MarkedIsRemoved`,
  `NobodyWaits`, `MarkedGoesAway`, `RunEnds`, `EverythingEnds`), which is outside what the
  proof system does;
* `VersionsChosen` and `MountsCompose`, which are about what folds over lists of versions and
  of mounts compute: that needs induction over data.

## 5. What is not modelled, and the plan

Not modelled, and why:

* layer files (`package/layer_packager.cpp`, `layer_file.cpp`): external commands around a
  file, with no state between calls;
* printing, the parsing of arguments, `ll-cli ps`, `content` and `inspect`: no state;
* `ll-builder create`, `repo` and `extract`, what a build container does and how sources are
  downloaded: scripts and single files;
* the session helper and the daemon's mode without D-Bus;
* the generators 00-id-mapping and 25-host-env, which add neither a mount nor a variable that
  names a place; seccomp, id maps, hooks and devices of `ll-box`;
* the generated code: D-Bus and JSON types, the HTTP client, `qdbusxml2cpp`, and the vendored `ocppi`.

The plan is done: every safety property of the runs has a theorem, but for the two that need induction over data.
Next would be bounds that are larger for those two, and the hypothesis `OneModule` of `PackageJobProofs`
weakened to what the findings of section 6 leave.

## 6. Where the code and its own words, or its callers, part

Met in the models; the properties make an exception where this is in their way.

Task list and jobs:

* A job started by the signal of its predecessor runs with an empty `runningTaskObjectPath`
  (PM:118, PM:139). While it waits for the network the next signal starts a second job on
  top of it, though PM:112 tells the clients "Waiting for the other tasks".
* A signal that finds nothing Queued still records its path; nothing clears it and every later task waits for ever (PM:118).
* A cancelled task is set back to Queued while another runs, and executed (PM:113); one cancelled while it waits, by somebody
  else, is neither started nor removed.
* `ReplyInteraction` ignores its task; every job that waits takes the reply, of whichever client (PM:2004). Install's
  reply handler refers to local variables and is never disconnected (PM:1224).
* An update of several packages may share a ref with a task added while it looked up the next (PM:1664).
* An update whose old version was uninstalled meanwhile installs nothing and reports success (PM:1702).
* An install whose dependency fails leaves the app installed, and the task failed (PM:1427).
* An app started after the uninstall request was accepted is uninstalled while it runs (PM:1456).
* `Prune` in the middle of an install removes the runtime just pulled; the next one skips the
  installed app at its missing runtime and removes the base too (PM:1937).
* `removeAfterInstall` removes the binary module once per module (PM:355); the second removal fails, the
  first is pulled again, and if that fails `Install` removes the new version as well.
* A cancel sets the percentage to 100 and the job may go on and add its weights: percentages above 100. So does a failed
  package (PT:190), after which an update goes on with the next one (PM:1684, PT:182).
* A task cancelled while the remote is asked for a dependency is made to go on by the pull of it (PM:1811, PM:1854).
* The rollback of an install leaves the links dangling that the timer made to it meanwhile (PM:448); when the
  timer removes the last version it reads a result that holds an error (PM:477).
* The launcher links of a version with several modules survive its uninstall (OR:1525).

Repository:

* Whether `states.json` was written to its end is not looked at (RC:342): a short file replaces the good one and success is
  reported; the next start rebuilds the list, without the marks of versions to be removed.
* After a stop during a checkout the layer can never be pulled again, since its directory
  exists (OR:650); after a rebuild it is listed although incomplete (RC:75).
* After a stop between the removal of the ref and of the list entry the layer cannot be removed any more (OR:541).
* Versions are sorted as text: with 1.9.0.0 and 1.10.0.0 installed the lower one is the default
  (RC:275). Versions of three and four parts with the same numbers are not comparable (`version.cpp:144`).
* `list --upgradable` looks at every module, Update only at those it could install (CLI:1408).
* `ll-cli install --module=develop app` is refused (PM:1168), which `docs/pages/guide/ll-builder/modules.md:71` tells users to do.
* What is pulled comes from the default repository at the time of the pull, not of the request (OR:1143).
* Two users of `ll-cli repo` take back each other's changes (CLI:1485). The undoing of the remote is
  registered only after the step that deletes it (OR:811).
* `config.yaml` and `.version` are emptied and then written, and the write is not looked at (`config.cpp:72`, `migrate.cpp:265`):
  a kill or a full disk makes the next start take the shipped configuration, or makes every later start end.
  A migration that is cut leaves one layer per cut without its link, because the prefix it compares
  with grows (`migrate.cpp:98`). `entries/share` does not come back when it is lost between two renames (OR:1705).

Client:

* `authorization()` probes by calling Prune, so that install, upgrade and uninstall by root really
  prune, and `ll-cli prune` prunes twice (CLI:1882).
* An upgrade with nothing to upgrade makes a task without refs that ends Queued and is reported as a
  failure, or becomes Succeed while it waits and is never removed (CLI:987).
* A Ctrl-C before the answer leaves the daemon waiting (PM:1231); a search may be over before the
  client listens (CLI:1114); a property change behind `TaskRemoved` (CLI:53) and a failed prune (CLI:1195) read what is not there.
* `ll-cli run`: the time before the pid file is made is not covered by anything (PM:269); a reused pid makes a
  version look busy, or `O_EXCL` refuse; whether the pid file was written is not looked at (CLI:448), and
  a container with a short one is not listed and keeps the daemon from removing anything; the bundle stays when its creation fails (CB:424).

Containers:

* `permissions.binds` of the user's `config.yaml` never take effect: the patch is an array of pairs, which JSON Patch refuses (CB:54).
* `fixMount` merges the places of two missing destinations into their common parent, where neither can be
  mounted, and a deeper place found before a shallower one is hidden (CB:337). Entries whose names begin with a dot are not bound
  again, in the root and wherever it makes room (CB:351, CB:384).
* The home that 30-user-home covers is uncovered in `/run/host/rootfs` (`config.d/25-host-rootfs.json`).
* Where HOME is not `/home/$USER` the default `.bashrc` and linked directories are mounted elsewhere
  (`30-user-home/src/main.cpp:269`); `XDG_STATE_HOME` gets the private config directory (line 195).
* `ll-box`: death signals are set late (BX:684), a SIGTERM before the handler is ignored though `kill`
  returns 0, an empty record is never removed, `exec` enters the namespaces of the entry process instead of init's where the
  kernel lists no children (`apps/ll-box/src/main.cpp:205`), failed mounts and read-only remounts are only logged.

UAB and builder:

* A second start of a UAB, or the first after a SIGKILL, finds the mount point and cannot mount (UH:492); the
  erofsfuse child goes on as a header (UH:371); a signal between the fork for the mount and the flag leaves the mount (UH:355, UH:714);
  a failed umount of the package manager is only logged and its mount point is never removed (`uab_file.cpp:66`);
  a generator that cannot be executed makes a second loader (`apps/uab/loader/src/main.cpp:243`); a
  stale `bundle.ef` is exported again (`uab_packager.cpp:581`).
* `ll-builder build` returns 0 when an old module could not be removed (BL:1052), when a file could not be moved into its
  module (BL:339), and when `$appid.install` passes files over that no module takes (BL:881); of a link to a directory it
  ships an empty directory (BL:333). After a fallback of the
  base it returns the error of a result that has none (BL:577), which is always so for a base whose main module is called
  `runtime`, since such are never merged (OR:2069); a command that ends between checkout and list leaves a directory that no
  later one can pull over (OR:650); a full develop module
  together with a develop module of the project is committed twice and fails (BL:832); of two
  commands at once the later write of `states.json` wins (RC:330), and each removes the merged directories the other uses (OR:2151).
