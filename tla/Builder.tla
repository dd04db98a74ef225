------------------------------ MODULE Builder ------------------------------
(***************************************************************************)
(* ll-builder.  Every command is a process that reads states.json of the   *)
(* builder's repository once, works on its copy and writes the whole copy  *)
(* back with each change; projects share the repository and nothing locks  *)
(* it.                                                                     *)
(*   disk    states.json: the layers of the projects, the modules of bases *)
(*           and runtimes, and the merged records                          *)
(*   file    "short" when states.json was not written to its end: nobody   *)
(*           can parse it                                                  *)
(*   repo    the ostree refs, each with its layer directory                *)
(*   merged  the merged directories that exist                             *)
(*   remote  the newest version of each dependency on the server, and the  *)
(*           name of its main module: "runtime" when it is an old one      *)
(*   proc    the commands, each with its copy of the list (cache)          *)
(*   alone   history: no other command has lived beside this one           *)
(* What a build makes are the files of Files; a layer is the set of files  *)
(* it holds and the build it comes from.                                   *)
(***************************************************************************)
EXTENDS Integers, Sequences, FiniteSets, SequencesExt

CONSTANTS
    MaxProcs,    \* how many commands are given
    Given,       \* the commands that may be given, with their options
    Mishaps,     \* of {"io", "kill"}
    RuntimeMain, \* the name of the runtime's main module on the server
    Publishes    \* the dependencies with their main module that may be published

ASSUME BuilderAssumption == MaxProcs \in Nat \ {0}
ASSUME ServerAssumption == RuntimeMain \in {"binary", "runtime"} /\ Publishes \subseteq {"base", "runtime"} \X {"binary", "runtime"}

VARIABLES disk, file, repo, merged, remote, proc, alone

buildVars == <<disk, file, repo, merged, remote, proc, alone>>

Procs == 1 .. MaxProcs
Projects == {"app", "tool"}
ModNames == {"binary", "develop", "lang"}
Files == {"exe", "header", "words", "link"}
Links == {"link"}     \* symbolic links to a directory
Versions == {1, 2}

\* The dependencies of a project, what its script makes, and which files a
\* module may take.
DepsOf(j) == IF j = "app" THEN <<"base">> ELSE <<"base", "runtime">>
Deps == {"base", "runtime"}
Makes(j) == IF j = "app" THEN Files ELSE {"exe", "header"}
Mains == {"binary", "runtime"}
Rules(name) == IF name = "lang" THEN {"words"} ELSE {"header", "words"}

NoLayer == [build |-> 0, files |-> {}]
NoDir == [kind |-> "none", v |-> 0]
NoOut == [dir |-> {}, mods |-> [n \in ModNames |-> {}], yaml |-> {}]

Ref(j, n) == <<j, n>>
DepKey(d, v, n) == <<d, v, n>>

(* A module of a dependency; an old main module will do for binary. *)
HasMod(deps, d, v, n) == DepKey(d, v, n) \in deps \/ (n = "binary" /\ DepKey(d, v, "runtime") \in deps)

NoList == [layers |-> [k \in Projects \X ModNames |-> NoLayer], deps |-> {}, merged |-> {}]

\* spared: an old module could not be removed; imported: a layer file was;
\* skew: the two modules of a dependency are of two versions; left: the
\* command ended between the ref of a dependency and the list; rebuilt: it
\* found the list short; made: what the script has built; stuck: what could
\* not be moved into a module.
NoProc == [at |-> "none", cmd |-> [cmd |-> "none"], proj |-> "app", cache |-> NoList, dep |-> 1,
           ver |-> 0, mod |-> "binary", dirs |-> [d \in Deps |-> NoDir], todo |-> <<>>, out |-> NoOut,
           made |-> {}, stuck |-> {}, spared |-> FALSE, imported |-> FALSE, skew |-> FALSE,
           left |-> FALSE, rebuilt |-> FALSE, code |-> 0]

(* What the command line and linglong.yaml may say; listed are the files   *)
(* that $appid.install names, every file when there is none, and tight     *)
(* those that rename may fail for, in a directory that cannot be written.  *)
ASSUME GivenAssumption ==
    \A c \in Given :
        /\ c.proj \in Projects
        /\ \/ c.cmd = "build" /\ c.mods \in Seq(ModNames) /\ {c.full, c.offline} \subseteq BOOLEAN
              /\ c.skip \in {"none", "run", "commit"} /\ c.listed \subseteq Files /\ c.tight \subseteq Files
           \/ c.cmd = "run" /\ {c.debug, c.offline} \subseteq BOOLEAN
           \/ c.cmd = "push" /\ c.mods \in Seq(ModNames)
           \/ c.cmd \in {"uab", "layer", "import", "remove"}

Stopped == {"over", "killed", "dead"}
Live(p) == proc[p].at \notin Stopped \cup {"none"}

BuildInit ==
    /\ disk = [layers |-> [k \in Projects \X ModNames |->
                  IF k \in {Ref("app", "binary"), Ref("app", "lang")} THEN [build |-> -1, files |-> {"words"}] ELSE NoLayer],
               deps |-> {DepKey("base", 1, n) : n \in {"binary", "develop"}}, merged |-> {<<"base", 1>>}]
    /\ file = "whole"
    /\ repo = [layers |-> disk.layers, deps |-> disk.deps]
    /\ merged = {<<"base", 1>>}
    /\ remote = [d \in Deps |-> [v |-> 1, main |-> IF d = "runtime" THEN RuntimeMain ELSE "binary"]]
    /\ proc = [p \in Procs |-> NoProc]
    /\ alone = [p \in Procs |-> TRUE]

\* The commands that change a project are not given twice at a time.
Writes(c) == c.cmd \in {"build", "import", "remove"}

(* writeToDisk: whether all of the list was written is not looked at. *)
Written(l) ==
    \/ disk' = l /\ file' = "whole"
    \/ "io" \in Mishaps /\ disk' = NoList /\ file' = "short"

(* rebuildCache: every ref is listed, and nothing is merged. *)
Rebuilt == [layers |-> repo.layers, deps |-> repo.deps, merged |-> {}]

(* main: options are read, the repository is opened and its list loaded,   *)
(* or made again when it cannot be parsed.                                 *)
Begin(p, c) ==
    /\ proc[p].at = "none" /\ \A o \in 1 .. (p - 1) : proc[o].at # "none"
    /\ \A o \in Procs : Live(o) /\ proc[o].proj = c.proj => ~Writes(c) /\ ~Writes(proc[o].cmd)
    /\ proc' = [proc EXCEPT ![p] =
          [NoProc EXCEPT !.cmd = c, !.proj = c.proj, !.cache = IF file = "short" THEN Rebuilt ELSE disk,
             !.rebuilt = (file = "short"),
             !.at = CASE c.cmd = "build" -> "fetch"
                      [] c.cmd \in {"run", "uab"} -> "deps"
                      [] c.cmd = "import" -> "import"
                      [] OTHER -> "list"]]
    /\ alone' = [o \in Procs |-> IF o = p THEN \A q \in Procs : ~Live(q) ELSE alone[o] /\ ~Live(o)]
    /\ IF file = "short" THEN Written(Rebuilt) ELSE UNCHANGED <<disk, file>>
    /\ UNCHANGED <<repo, merged, remote>>

Go(p, at) == proc' = [proc EXCEPT ![p].at = at]
Over(r, at, code) ==
    [NoProc EXCEPT !.at = at, !.imported = (r.cmd.cmd = "import"), !.proj = r.proj, !.spared = r.spared,
                   !.skew = r.skew, !.left = r.left, !.rebuilt = r.rebuilt, !.code = code]
Exit(p, code) == proc' = [proc EXCEPT ![p] = Over(@, "over", code)]

Repository == <<disk, file, repo, merged, remote, alone>>

(* A step that fails ends the command: no transaction spans a build.  A    *)
(* removal only prints that the merge has failed.                          *)
Fails(p) ==
    /\ "io" \in Mishaps
    /\ Exit(p, IF proc[p].cmd.cmd = "remove" THEN 0 ELSE -1)
    /\ UNCHANGED Repository

Cache(p) == proc[p].cache
Has(p, n) == Cache(p).layers[Ref(proc[p].proj, n)] # NoLayer

(* Every change of the list is written as a whole: who saves last wins. *)
Save(p, cache, upd) ==
    /\ Written(cache)
    /\ proc' = [proc EXCEPT ![p] = IF upd.at = "over" THEN Over(upd, "over", 0) ELSE [upd EXCEPT !.cache = cache]]

(* The sources are fetched into the project by a script for each. *)
fetchSources(p) ==
    /\ proc[p].at = "fetch"
    /\ Go(p, "deps")
    /\ UNCHANGED Repository

-----------------------------------------------------------------------------
(* Dependencies.                                                           *)

Dep(p) == DepsOf(proc[p].proj)[proc[p].dep]
Local(p, d) == {v \in Versions : \E n \in {"binary", "develop"} : HasMod(Cache(p).deps, d, v, n)}
Newest(S) == CHOOSE v \in S : \A w \in S : v >= w
Offline(p) == proc[p].cmd.cmd # "uab" /\ proc[p].cmd.offline

(* What follows when a module of a dependency is there: build wants the    *)
(* develop module as well, and asks the server for the version again; run  *)
(* wants every dependency before it merges.                                *)
NextDep(r, v) ==
    LET again == r.cmd.cmd = "build" /\ r.mod = "binary"
        other == r.cmd.cmd = "run" /\ r.dep < Len(DepsOf(r.proj))
    IN  [r EXCEPT !.skew = @ \/ (r.mod = "develop" /\ r.ver # v), !.ver = v,
                  !.dirs[DepsOf(r.proj)[r.dep]] = [kind |-> "none", v |-> v],
                  !.mod = IF again THEN "develop" ELSE "binary",
                  !.dep = IF other THEN @ + 1 ELSE @,
                  !.at = IF again \/ other THEN "deps" ELSE IF r.cmd.cmd = "uab" THEN "dir" ELSE "merge"]

(* The version that is meant, and the module that is pulled for it: when   *)
(* the server has no binary, the old main module.                          *)
Meant(p) == IF Offline(p) THEN Newest(Local(p, Dep(p))) ELSE remote[Dep(p)].v
Branch(p) == DepKey(Dep(p), Meant(p), IF proc[p].mod = "binary" THEN remote[Dep(p)].main ELSE "develop")
Pulls(p) == ~Offline(p) /\ ~HasMod(Cache(p).deps, Dep(p), Meant(p), proc[p].mod)

(* A module that is listed is used.  A layer directory that is there       *)
(* without being listed is an error.                                       *)
pullDependency(p) ==
    /\ proc[p].at = "deps"
    /\ IF Pulls(p) /\ Branch(p) \notin repo.deps
         THEN /\ repo' = [repo EXCEPT !.deps = @ \cup {Branch(p)}]
              /\ Save(p, [Cache(p) EXCEPT !.deps = @ \cup {Branch(p)}], NextDep(proc[p], Meant(p)))
         ELSE /\ IF Pulls(p) \/ (Offline(p) /\ Local(p, Dep(p)) = {}) THEN Exit(p, -1)
                 ELSE proc' = [proc EXCEPT ![p] = NextDep(@, Meant(p))]
              /\ UNCHANGED <<repo, disk, file>>
    /\ UNCHANGED <<merged, remote, alone>>

(* The command is killed, or fails, between the layer directory and the    *)
(* list: ref and directory stay.                                           *)
pullInterrupted(p) ==
    /\ proc[p].at = "deps" /\ Pulls(p) /\ Branch(p) \notin repo.deps
    /\ repo' = [repo EXCEPT !.deps = @ \cup {Branch(p)}]
    /\ \/ "io" \in Mishaps /\ proc' = [proc EXCEPT ![p] = Over([NextDep(@, Meant(p)) EXCEPT !.left = TRUE], "over", -1)]
       \/ "kill" \in Mishaps /\ proc' = [proc EXCEPT ![p] = Over([NextDep(@, Meant(p)) EXCEPT !.left = TRUE], "killed", 0)]
    /\ UNCHANGED <<disk, file, merged, remote, alone>>

(* What has no binary module is not merged. *)
Mergeable(c) == {x \in Deps \X Versions : {DepKey(x[1], x[2], n) : n \in {"binary", "develop"}} \subseteq c.deps}

(* mergeModules: directories first, for what has no record yet ... *)
mergeModules(p) ==
    /\ proc[p].at \in {"merge", "merge_end"}
    /\ merged' = merged \cup (Mergeable(Cache(p)) \ Cache(p).merged)
    /\ Go(p, IF proc[p].at = "merge" THEN "record" ELSE "record_end")
    /\ UNCHANGED <<disk, file, repo, remote, alone>>

updateMergedItems_old_records(p) ==
    /\ proc[p].at \in {"record", "record_end"}
    /\ LET c == [Cache(p) EXCEPT !.merged = Mergeable(Cache(p))]
       IN  /\ Save(p, c, [proc[p] EXCEPT !.at = IF @ = "record" THEN "dir" ELSE "over"])
           /\ merged' = merged \cap Cache(p).merged
    /\ UNCHANGED <<repo, remote, alone>>

(* ... then the records, and every directory without one is removed. *)
updateMergedItems(p) ==
    /\ proc[p].at \in {"record", "record_end"}
    /\ LET c == [Cache(p) EXCEPT !.merged = Mergeable(Cache(p))]
       IN  /\ Save(p, c, [proc[p] EXCEPT !.at = IF @ = "record" THEN "dir" ELSE "over"])
           /\ merged' = merged \cap c.merged
    /\ UNCHANGED <<repo, remote, alone>>

(* The directory of the dependency.  build takes the merged one; without   *)
(* it a runtime falls back to its develop module, and for a base the       *)
(* fallback is followed by a return of the error of a result that has      *)
(* none, which may end the process in any way.                             *)
DirOf(p) ==
    LET d == Dep(p)
        v == proc[p].dirs[d].v
        item == <<d, v>> \in Cache(p).merged /\ DepKey(d, v, "binary") \in Cache(p).deps /\ <<d, v>> \in merged
        has(n) == HasMod(Cache(p).deps, d, v, n)
        some(kind, ok) == [kind |-> IF ok THEN kind ELSE "none", v |-> v]
        debugs == proc[p].cmd.cmd = "run" /\ proc[p].cmd.debug
    IN  IF proc[p].cmd.cmd \in {"run", "uab"} /\ ~(debugs /\ item) THEN some("binary", has("binary"))
        ELSE IF item THEN some("merged", TRUE)
        ELSE IF d = "runtime" THEN some("develop", has("develop"))
        ELSE IF has("develop") THEN [kind |-> "undefined", v |-> v] ELSE NoDir

(* build and the export go on with the next dependency; run, which has     *)
(* pulled them all, with the one before.                                   *)
getMergedModuleDir(p) ==
    /\ proc[p].at = "dir"
    /\ LET dir == DirOf(p)
           runs == proc[p].cmd.cmd = "run"
           last == proc[p].dep = IF runs THEN 1 ELSE Len(DepsOf(proc[p].proj))
       IN  CASE dir.kind = "none" -> Exit(p, -1)
             [] dir.kind = "undefined" -> \E at \in {"dead", "over"} : proc' = [proc EXCEPT ![p] = Over(@, at, -1)]
             [] OTHER -> proc' = [proc EXCEPT ![p].dirs[Dep(p)] = dir,
                                              ![p].dep = IF last THEN @ ELSE IF runs THEN @ - 1 ELSE @ + 1,
                                              ![p].at = IF last THEN "ready" ELSE IF runs THEN "dir" ELSE "deps"]
    /\ UNCHANGED Repository

-----------------------------------------------------------------------------
(* build.                                                                  *)

(* entry.sh is written and the output of the last build removed, as far as *)
(* that can be done: nobody looks at the result.                           *)
prepare(p) ==
    /\ proc[p].at = "ready" /\ proc[p].cmd.cmd = "build"
    /\ \/ proc[p].cmd.skip = "run" /\ Exit(p, 0)
       \/ proc[p].cmd.skip # "run" /\ Go(p, "container")
       \/ /\ proc[p].cmd.skip # "run" /\ "io" \in Mishaps
          /\ \E left \in {[NoOut EXCEPT !.dir = {"words"}], [NoOut EXCEPT !.yaml = {"binary"}]} :
                proc' = [proc EXCEPT ![p].at = "container", ![p].out = left]
    /\ UNCHANGED Repository

(* Container::run and what the script of the project leaves in _build. *)
runContainer(p) ==
    /\ proc[p].at = "container" /\ proc[p].cmd.cmd = "build"
    /\ LET made == Makes(proc[p].proj)
       IN  IF proc[p].cmd.skip = "commit" THEN Exit(p, 0)
           ELSE proc' = [proc EXCEPT ![p].at = "install", ![p].out.dir = @ \cup made, ![p].made = made]
    /\ UNCHANGED Repository

(* The modules that are installed, in this order; develop is added.  *)
ProjectModules(c) ==
    IF c.full \/ Contains(c.mods, "develop") THEN c.mods ELSE Append(c.mods, "develop")

installModule_copies(o, n, match, stuck) ==
    [o EXCEPT !.mods[n] = @ \cup ((o.dir \cap match) \ (Links \cup stuck))]

(* installModule moves what the rules match, as far as rename will: what   *)
(* is stuck stays, and so does a file that is already there (the full copy *)
(* of develop).  For a link to a directory only a directory is made.       *)
installModule(o, n, match, stuck) ==
    LET taken == (o.dir \cap match) \ (o.mods[n] \cup Links \cup stuck)
    IN  [o EXCEPT !.dir = @ \ taken, !.mods[n] = @ \cup taken]

(* All that was made is copied to develop if that is asked for; then the   *)
(* modules take their files, one by one ...                                *)
installModules(p) ==
    /\ proc[p].at = "install"
    /\ LET c == proc[p].cmd
           full == IF c.full THEN [proc[p].out EXCEPT !.mods["develop"] = proc[p].out.dir \ Links] ELSE proc[p].out
       IN  proc' = [proc EXCEPT ![p].out = full, ![p].todo = ProjectModules(c), ![p].at = "split"]
    /\ UNCHANGED Repository

(* ... and binary takes what they leave, or of that what $appid.install    *)
(* lists.  Nobody looks at whether a file could be moved.                  *)
installEach(p) ==
    /\ proc[p].at = "split"
    /\ LET r == proc[p]
           match == IF r.todo = <<>> THEN r.cmd.listed ELSE Rules(Head(r.todo))
       IN  \E stuck \in SUBSET (r.cmd.tight \cap r.out.dir \cap match) :
             proc' = [proc EXCEPT ![p] =
               IF r.todo = <<>>
                 THEN [r EXCEPT !.out = installModule(@, "binary", match, stuck), !.stuck = @ \cup stuck, !.at = "entries"]
                 ELSE [r EXCEPT !.out = installModule(@, Head(r.todo), match, stuck), !.stuck = @ \cup stuck, !.todo = Tail(@)]]
    /\ UNCHANGED Repository

(* Links to what the desktop reads, in the binary module; then the modules *)
(* of the last build are listed.                                           *)
generateEntries(p) ==
    /\ proc[p].at = "entries"
    /\ proc' = [proc EXCEPT ![p].todo = SetToSeq({n \in ModNames : Has(p, n)}), ![p].at = "clear"]
    /\ UNCHANGED Repository

ToCommit(c) == <<"binary">> \o (IF c.full THEN <<"develop">> ELSE <<>>) \o ProjectModules(c)

Without(key) == [repo EXCEPT !.layers[key] = NoLayer]

(* remove: first the ref, then the entry of the list.  What has no ref     *)
(* cannot be removed.  A failure, before or after the ref, is only printed *)
(* and the module stays in the list; so it does after a kill.              *)
removeHead(p) ==
    /\ proc[p].todo # <<>>
    /\ LET r == proc[p]
           key == Ref(r.proj, Head(r.todo))
       IN  \/ /\ repo.layers[key] # NoLayer
              /\ repo' = Without(key)
              /\ Save(p, [r.cache EXCEPT !.layers[key] = NoLayer], [r EXCEPT !.todo = Tail(@)])
           \/ /\ "io" \in Mishaps \/ repo.layers[key] = NoLayer
              /\ repo' \in {repo, Without(key)}
              /\ proc' = [proc EXCEPT ![p].todo = Tail(@), ![p].spared = TRUE]
              /\ UNCHANGED <<disk, file>>
           \/ /\ "kill" \in Mishaps
              /\ repo' = Without(key)
              /\ proc' = [proc EXCEPT ![p] = Over(@, "killed", 0)]
              /\ UNCHANGED <<disk, file>>

(* The modules of the last build are removed one by one. *)
removeOld(p) ==
    /\ proc[p].at = "clear"
    /\ \/ removeHead(p)
       \/ /\ proc[p].todo = <<>>
          /\ proc' = [proc EXCEPT ![p].at = "commit", ![p].todo = ToCommit(proc[p].cmd)]
          /\ UNCHANGED <<repo, disk, file>>
    /\ UNCHANGED <<merged, remote, alone>>

(* The command is killed, or fails, between the ref of a module and the    *)
(* list.                                                                   *)
ListFails(p) ==
    /\ \/ "io" \in Mishaps /\ Exit(p, -1)
       \/ "kill" \in Mishaps /\ proc' = [proc EXCEPT ![p] = Over(@, "killed", 0)]
    /\ UNCHANGED <<disk, file>>

(* info.json and linglong.yaml go into the output, the second only if it   *)
(* is not there; importLayerDir refuses a layer that exists, with the      *)
(* error code 0, and the code is what main returns.                        *)
importModule(p) ==
    /\ proc[p].at = "commit" /\ proc[p].todo # <<>>
    /\ LET r == proc[p]
           n == Head(r.todo)
           layer == [build |-> p, files |-> r.out.mods[n]]
       IN  IF n \in r.out.yaml THEN Exit(p, -1) /\ UNCHANGED <<repo, disk, file>>
           ELSE IF Has(p, n) THEN Exit(p, 0) /\ UNCHANGED <<repo, disk, file>>
           ELSE /\ repo' = [repo EXCEPT !.layers[Ref(r.proj, n)] = layer]
                /\ \/ Save(p, [r.cache EXCEPT !.layers[Ref(r.proj, n)] = layer],
                              [r EXCEPT !.todo = Tail(@), !.out.yaml = @ \cup {n}])
                   \/ ListFails(p)
    /\ UNCHANGED <<merged, remote, alone>>

committed(p) ==
    /\ proc[p].at = "commit" /\ proc[p].todo = <<>>
    /\ Go(p, "merge_end")
    /\ UNCHANGED Repository

-----------------------------------------------------------------------------
(* The other commands.                                                     *)

(* run: the binary module, or with --debug a directory merged for this run *)
(* only, in a container.                                                   *)
runApp(p) ==
    /\ proc[p].at = "ready" /\ proc[p].cmd.cmd = "run"
    /\ IF Has(p, "binary") /\ (proc[p].cmd.debug => Has(p, "develop")) THEN Go(p, "container") ELSE Exit(p, -1)
    /\ UNCHANGED Repository

(* export of a UAB packs the binary modules. *)
exportUAB(p) ==
    /\ proc[p].at = "ready" /\ proc[p].cmd.cmd = "uab"
    /\ Exit(p, IF Has(p, "binary") THEN 0 ELSE -1)
    /\ UNCHANGED Repository

AppEnds(p) ==
    /\ proc[p].at = "container" /\ proc[p].cmd.cmd = "run"
    /\ Exit(p, 0)
    /\ UNCHANGED Repository

(* export --layer packs what is listed and push goes through the modules   *)
(* of the project; remove through those that are listed.                   *)
list(p) ==
    /\ proc[p].at = "list"
    /\ LET c == proc[p].cmd
       IN  proc' = [proc EXCEPT ![p].at = c.cmd,
                      ![p].todo = IF c.cmd = "push" THEN <<"binary", "develop">> \o c.mods
                                  ELSE SetToSeq({n \in ModNames : Has(p, n)})]
    /\ UNCHANGED Repository

(* A layer that cannot be packed is only reported. *)
exportLayer(p) ==
    /\ proc[p].at = "layer"
    /\ IF proc[p].todo = <<>> THEN Exit(p, 0) ELSE proc' = [proc EXCEPT ![p].todo = Tail(@)]
    /\ UNCHANGED Repository

(* pushToRemote up to the upload; then the server is asked every second.   *)
(* A develop module among those of the project is passed over.             *)
push(p) ==
    /\ proc[p].at = "push"
    /\ LET r == proc[p]
           again == Len(r.todo) <= Len(r.cmd.mods) /\ Head(r.todo) = "develop"
       IN  IF r.todo = <<>> THEN Exit(p, 0)
           ELSE IF again THEN proc' = [proc EXCEPT ![p].todo = Tail(@)]
           ELSE IF Has(p, Head(r.todo)) THEN Go(p, "poll") ELSE Exit(p, -1)
    /\ UNCHANGED Repository

uploadTaskInfo(p) ==
    /\ proc[p].at = "poll"
    /\ proc' = [proc EXCEPT ![p].at = "push", ![p].todo = Tail(@)] \/ Exit(p, -1)
    /\ UNCHANGED Repository

importLayer(p) ==
    /\ proc[p].at = "import"
    /\ LET r == proc[p]
           layer == [build |-> p, files |-> {"words"}]
       IN  IF Has(p, "lang") THEN Exit(p, -1) /\ UNCHANGED <<repo, disk, file>>
           ELSE /\ repo' = [repo EXCEPT !.layers[Ref(r.proj, "lang")] = layer]
                /\ \/ Save(p, [r.cache EXCEPT !.layers[Ref(r.proj, "lang")] = layer], [r EXCEPT !.at = "over"])
                   \/ ListFails(p)
    /\ UNCHANGED <<merged, remote, alone>>

cmdRemoveApp(p) ==
    /\ proc[p].at = "remove"
    /\ \/ removeHead(p)
       \/ proc[p].todo = <<>> /\ Go(p, "merge_end") /\ UNCHANGED <<repo, disk, file>>
    /\ UNCHANGED <<merged, remote, alone>>

-----------------------------------------------------------------------------
Killed(p) ==
    /\ "kill" \in Mishaps /\ Live(p)
    /\ proc' = [proc EXCEPT ![p] = Over(@, "killed", 0)]
    /\ UNCHANGED Repository

(* A new version of a dependency appears on the server. *)
Publish(d, main) ==
    /\ <<d, main>> \in Publishes /\ \A e \in Deps : remote[e].v = 1
    /\ remote' = [remote EXCEPT ![d] = [v |-> 2, main |-> main]]
    /\ UNCHANGED <<disk, file, repo, merged, proc, alone>>

Fallible == {"fetch", "deps", "merge", "record", "ready", "container", "install", "split", "entries", "commit",
             "push", "poll", "merge_end", "record_end", "import"}

Step(p) ==
    \/ pullDependency(p) \/ pullInterrupted(p) \/ mergeModules(p) \/ updateMergedItems(p) \/ getMergedModuleDir(p)
    \/ prepare(p) \/ runContainer(p) \/ installModules(p) \/ installEach(p) \/ removeOld(p) \/ importModule(p) \/ committed(p)
    \/ fetchSources(p) \/ generateEntries(p) \/ runApp(p) \/ exportUAB(p) \/ AppEnds(p) \/ list(p) \/ exportLayer(p) \/ push(p) \/ uploadTaskInfo(p)
    \/ importLayer(p) \/ cmdRemoveApp(p)
    \/ proc[p].at \in Fallible /\ Fails(p)

BuildNext ==
    \/ \E p \in Procs, c \in Given : Begin(p, c)
    \/ \E p \in Procs : Step(p) \/ Killed(p)
    \/ \E d \in Deps, main \in Mains : Publish(d, main)

BuildSpec == BuildInit /\ [][BuildNext]_buildVars

-----------------------------------------------------------------------------
(* BuildTypeOK: types; the list never names a merged directory for a       *)
(* dependency of which it has not both modules ...                         *)
BuildTypeOK ==
    /\ disk.layers \in [Projects \X ModNames -> [build : -1 .. MaxProcs, files : SUBSET Files]]
    /\ disk.deps \subseteq Deps \X Versions \X {"binary", "runtime", "develop"}
    /\ file \in {"whole", "short"} /\ (file = "short" => disk = NoList)
    /\ repo.layers \in [Projects \X ModNames -> [build : -1 .. MaxProcs, files : SUBSET Files]]
    /\ merged \subseteq Deps \X Versions
    /\ remote \in [Deps -> [v : Versions, main : Mains]]
    /\ alone \in [Procs -> BOOLEAN]
    /\ \A p \in Procs : proc[p].todo \in Seq(ModNames) /\ proc[p].code \in {-1, 0}
    /\ disk.merged \subseteq Mergeable(disk)

Wanted(c) == {"binary", "develop"} \cup ToSet(c.mods)

Listed(l, p) ==
    \A n \in ModNames : IF n \in Wanted(proc[p].cmd) THEN l.layers[Ref(proc[p].proj, n)].build = p
                        ELSE l.layers[Ref(proc[p].proj, n)] = NoLayer

Commits(p) == Live(p) /\ proc[p].cmd.cmd = "build" /\ proc[p].cmd.skip = "none"
              /\ proc'[p].at = "over" /\ proc'[p].code = 0

(* ExitTells: a build that returns 0 has committed every module of the     *)
(* project and left none of an earlier build in its list, and on disk if   *)
(* no other command lived beside it.  (The code returns 0 also when an old *)
(* module could not be removed, and when the list it has written is short, *)
(* which nobody notices before the next command.)                          *)
ExitTells ==
    \A p \in Procs : Commits(p) =>
      \/ proc[p].spared
      \/ Listed(proc[p].cache, p) /\ (alone[p] => file' = "short" \/ Listed(disk', p))

(* FilesShipped: what such a build has made is in its modules, each file   *)
(* in one only unless the full develop module is asked for.  In none are   *)
(* the links to a directory, what $appid.install passes over and what      *)
(* rename could not move: the build does not tell of them.                 *)
FilesShipped ==
    \A p \in Procs : Commits(p) /\ ~proc[p].spared =>
      LET in(f) == {n \in ModNames : f \in proc[p].cache.layers[Ref(proc[p].proj, n)].files}
      IN  \A f \in proc[p].made \ Links :
            /\ in(f) # {} \/ f \notin proc[p].cmd.listed \/ f \in proc[p].stuck
            /\ ~proc[p].cmd.full => Cardinality(in(f)) <= 1

(* BuildTells: the exit status of a build is true of its modules and of    *)
(* every file it has made, but for what the code does not look at: removal *)
(* of an old module, a write of the list, a rename.                        *)
BuildTells == [][ExitTells /\ FilesShipped]_buildVars

(* OneBuild: the modules listed for a project come from one build, also    *)
(* after kills and whoever wrote the list last, unless a module could not  *)
(* be removed or was imported, or the list was made again from the refs.   *)
OneBuild ==
    \A j \in Projects :
        \/ Cardinality({disk.layers[Ref(j, n)].build : n \in ModNames} \ {0}) <= 1
        \/ \E p \in Procs : proc[p].proj = j /\ (proc[p].spared \/ proc[p].imported)
        \/ \E p \in Procs : proc[p].rebuilt

(* RecordsHaveDirs: while commands follow one another, ended or killed, a  *)
(* merged record has its directory; without it no build would find its     *)
(* base again, since the directory is only made when there is no record.   *)
RecordsHaveDirs ==
    (\A p \in Procs : alone[p]) => disk.merged \subseteq merged

(* DiesOnlyOfSkew: the error of a result without one is only returned      *)
(* after the server published between the two pulls of a dependency, after *)
(* commands overlapped, or for a base whose main module is an old one.     *)
DiesOnlyOfSkew ==
    (\E p \in Procs : proc[p].at = "dead") =>
      remote["base"].main = "runtime" \/ \E q \in Procs : proc[q].skew \/ ~alone[q]

(* PullsAgain: while commands follow one another, a layer directory that   *)
(* is in no list, so that no command can pull its dependency again, was    *)
(* left by one that ended within the pull.                                 *)
PullsAgain ==
    (\A p \in Procs : alone[p]) /\ file = "whole" => repo.deps \subseteq disk.deps \/ \E p \in Procs : proc[p].left

(* RepositorySound: whatever is killed, fails or runs beside it, the next  *)
(* command finds modules of one build, merged records that are true, and,  *)
(* but for the cases the parts name, its dependencies.                     *)
RepositorySound == BuildTypeOK /\ OneBuild /\ RecordsHaveDirs /\ DiesOnlyOfSkew /\ PullsAgain
=============================================================================
