--------------------------------- MODULE Uab ---------------------------------
(***************************************************************************)
(* A UAB: one executable file with an application, what it needs and a     *)
(* loader in an erofs image.  `ll-builder export' packs it in .uabBuild    *)
(* beside the project; when it is started its header mounts the image with *)
(* erofsfuse at a directory named after the bundle's uuid, the loader makes*)
(* a container bundle, runs ll-box from the image, and everything is       *)
(* cleaned up at the end or by a signal handler.  If ll-cli is found the   *)
(* UAB is installed and the run left to ll-cli.                            *)
(*                                                                         *)
(* The header forks the process that becomes the erofsfuse daemon with     *)
(* `return erofsfuse_main(...)': when the image is unmounted that process  *)
(* returns into the header's code and goes on as if it were the header.    *)
(***************************************************************************)
EXTENDS Naturals, FiniteSets, Sequences, SequencesExt

CONSTANTS Runs,       \* the starts of the packed file
          Struck,     \* bound: those of them that are killed or get a signal
          MaxPacks,   \* bound: how often it is packed
          Faults      \* what may go wrong: "kill", "signal", "io", "gen"

ASSUME FaultsKnown == Faults \subseteq {"kill", "signal", "io", "gen"}
ASSUME PacksKnown == MaxPacks \in Nat /\ Runs \subseteq Nat \ {0} /\ IsFiniteSet(Runs) /\ Struck \subseteq Runs

Procs == {"header", "daemon"} \X Runs     \* the daemon is a copy of the header
Copies == {1, 2}                          \* the loader, and its copy when a generator cannot be executed
Nothing == 0

VARIABLES pk,     \* the packer
          build,  \* .uabBuild: what an earlier packer left there, too
          file,   \* the exported file: which packing its image is of, whether its meta lists layers
          proc,   \* headers and daemons, with their copies of mountPoint, createFlag, mountFlag
          ldr,    \* the loaders a header or daemon has forked
          bundle, \* their container bundle directories
          dir,    \* the mount point exists
          mnt,    \* whose images are mounted on it, the last one on top
          left,   \* a process was killed, got its signal between the fork and the flag, or its umount failed
          imp,    \* what ll-package-manager does with the file for ll-cli install
          pm,     \* how many images it has mounted on its own mount point for the uuid
          lost,   \* how many of them it could not unmount
          pmDir,  \* that mount point exists
          hit     \* a run may be without its image: its file could not be opened, a daemon that went on
                  \* unmounted it, the cleaning of another process removed the mount point under it, or
                  \* the child of a run that had its signal mounted beside it
vars == <<pk, build, file, proc, ldr, bundle, dir, mnt, left, imp, pm, lost, pmDir, hit>>
packer == <<pk, build, file>>
manager == <<imp, pm, lost, pmDir>>
runner == <<proc, ldr, bundle, dir, mnt, left, manager, hit>>

\* The files of a layer (bound): a directory with one file in it, and a file.
Names == {"lib", "lib/a", "bin"}
Below(n) == IF n = "lib" THEN {"lib/a"} ELSE {}
NoFile == [pack |-> 0, layers |-> FALSE]
NoBuild == [bundle |-> FALSE, image |-> 0, killed |-> FALSE]
NoProc == [at |-> "none", what |-> "none", mp |-> FALSE, created |-> FALSE, mounted |-> FALSE]

LoaderAts == {"none", "look", "made", "patched", "boxed", "umount", "remove", "over"}
ProcAts == {"none", "start", "import", "create", "mount", "reap", "raw", "ready", "wait", "fuse", "serving", "umount", "remove", "over"}

\* Every variable has its type.
TypeOK ==
  /\ pk \in [at : {"idle", "start", "header", "icon", "layers", "prepared", "image", "section", "export", "done", "failed", "dead"},
             n : 0 .. MaxPacks, layers : BOOLEAN, minified : BOOLEAN, files : SUBSET Names, reused : BOOLEAN]
  /\ build \in [bundle : BOOLEAN, image : 0 .. MaxPacks, killed : BOOLEAN]
  /\ file \in [pack : 0 .. MaxPacks, layers : BOOLEAN]
  /\ proc \in [Procs -> [at : ProcAts, what : {"none", "run", "extract"}, mp : BOOLEAN, created : BOOLEAN,
                         mounted : BOOLEAN]]
  /\ ldr \in [Procs -> [Copies -> [at : LoaderAts, from : Runs \cup {Nothing}, code : {"none", "zero", "failed"}]]]
  /\ bundle \in [Procs -> BOOLEAN]
  /\ imp \in [Runs -> {"none", "verify", "mount", "layers", "unload", "zero", "failed"}]
  /\ pm \in 0 .. Cardinality(Runs) /\ lost \in 0 .. Cardinality(Runs) /\ pmDir \in BOOLEAN
  /\ dir \in BOOLEAN /\ mnt \in Seq(Runs) /\ left \in BOOLEAN /\ hit \in BOOLEAN

NoLoader == [at |-> "none", from |-> Nothing, code |-> "none"]
Init ==
  /\ pk = [at |-> "idle", n |-> 0, layers |-> FALSE, minified |-> FALSE, files |-> {}, reused |-> FALSE]
  /\ build = NoBuild /\ file = NoFile
  /\ proc = [p \in Procs |-> NoProc]
  /\ ldr = [p \in Procs |-> [c \in Copies |-> NoLoader]]
  /\ bundle = [p \in Procs |-> FALSE]
  /\ imp = [r \in Runs |-> "none"] /\ pm = 0 /\ lost = 0 /\ pmDir = FALSE
  /\ dir = FALSE /\ mnt = <<>> /\ left = FALSE /\ hit = FALSE

------------------------------------------------------------------------------
\* Packing.  The constructor takes .uabBuild as it finds it.
UABPackager ==
  /\ pk.at \in {"idle", "done", "failed", "dead"} /\ pk.n < MaxPacks
  /\ pk' = [pk EXCEPT !.at = "start", !.n = @ + 1, !.layers = FALSE, !.reused = FALSE, !.minified = FALSE, !.files = {}]
  /\ UNCHANGED <<build, file, runner>>

Fails_kept == pk' = [pk EXCEPT !.at = "failed"] /\ build' = build \* mutant: .uabBuild stays

\* An error: the destructor removes .uabBuild.
Fails == /\ pk' = [pk EXCEPT !.at = "failed"]
         /\ build' = NoBuild

\* pack: the header is copied; a leftover of it is removed first.
copyHeader ==
  /\ pk.at = "start"
  /\ \/ pk' = [pk EXCEPT !.at = "header"] /\ UNCHANGED build
     \/ "io" \in Faults /\ Fails
  /\ UNCHANGED <<file, runner>>

\* An icon becomes a section of the header, if there is one.
packIcon ==
  /\ pk.at = "header"
  /\ \/ pk' = [pk EXCEPT !.at = "icon"] /\ UNCHANGED build
     \/ "io" \in Faults /\ Fails
  /\ UNCHANGED <<file, runner>>

\* The files that go into the image: all but the excluded ones that are not included again.
\* A directory stands for what is below it.
expandPaths(s) == UNION {IF Below(n) = {} THEN {n} ELSE Below(n) : n \in s}

filteringFiles(exclude, include) ==
  LET excluded == expandPaths(exclude) \ expandPaths(include)
  IN [minified |-> excluded # {}, files |-> Names \ excluded]

\* packBundle: an image that is there is taken as it is; otherwise the bundle is
\* prepared, which fails on leftovers because the loader is there already.
prepareBundle ==
  /\ pk.at = "icon"
  /\ IF build.image # 0
     THEN pk' = [pk EXCEPT !.at = "image", !.reused = build.killed] /\ UNCHANGED build
     ELSE \/ /\ ~build.bundle
             /\ build' = [build EXCEPT !.bundle = TRUE]
             /\ \E exclude, include \in {{}, {"lib"}, {"lib/a"}, {"bin"}} :
                  LET f == filteringFiles(exclude, include)
                  IN pk' = [pk EXCEPT !.at = "layers", !.layers = TRUE, !.minified = f.minified, !.files = f.files]
          \/ (build.bundle \/ "io" \in Faults) /\ Fails
  /\ UNCHANGED <<file, runner>>

\* The container configuration, its generators and ll-box go beside the layers.
prepareExtra ==
  /\ pk.at = "layers"
  /\ \/ pk' = [pk EXCEPT !.at = "prepared"] /\ UNCHANGED build
     \/ "io" \in Faults /\ Fails
  /\ UNCHANGED <<file, runner>>

\* mkfs.erofs
packBundle ==
  /\ pk.at = "prepared"
  /\ \/ pk' = [pk EXCEPT !.at = "image"] /\ build' = [build EXCEPT !.image = pk.n]
     \/ "io" \in Faults /\ Fails
  /\ UNCHANGED <<file, runner>>

\* The digest of the image and the meta data become sections.
packMetaInfo ==
  /\ pk.at = "image"
  /\ \/ pk' = [pk EXCEPT !.at = "section"] /\ UNCHANGED build
     \/ "io" \in Faults /\ Fails
  /\ UNCHANGED <<file, runner>>

\* The previous file is removed, then the new one is copied; the destructor.
pack ==
  \/ /\ pk.at = "section"
     /\ file' = NoFile
     /\ pk' = [pk EXCEPT !.at = "export"]
     /\ UNCHANGED <<build, runner>>
  \/ /\ pk.at = "export"
     /\ \/ /\ file' = [pack |-> build.image, layers |-> pk.layers]
           /\ pk' = [pk EXCEPT !.at = "done", !.minified = FALSE, !.files = {}]
           /\ build' = NoBuild
        \/ "io" \in Faults /\ Fails /\ UNCHANGED file
     /\ UNCHANGED runner

PackerKilled ==
  /\ "kill" \in Faults
  /\ pk.at \notin {"idle", "done", "failed", "dead"}
  /\ pk' = [pk EXCEPT !.at = "dead", !.minified = FALSE, !.files = {}]
  /\ \E image \in {build.image} \cup (IF pk.at = "prepared" THEN {pk.n} ELSE {}) :   \* mkfs.erofs has begun
       build' = [build EXCEPT !.killed = TRUE, !.image = image]
  /\ UNCHANGED <<file, runner>>

------------------------------------------------------------------------------
\* The header.
To(p, r) == proc' = [proc EXCEPT ![p] = r]
Over == [NoProc EXCEPT !.at = "over"]   \* its exit status is left out
cleanAndExit(p) == [proc[p] EXCEPT !.at = "umount"]

\* Bound: the file is started after the last packing, not beside one (its uuid,
\* and with it the mount point, would be another).
Launch(r, what) ==
  /\ pk.at = "done" /\ pk.n = MaxPacks /\ proc[<<"header", r>>].at = "none"
  /\ To(<<"header", r>>, [NoProc EXCEPT !.at = "start", !.what = what])
  /\ UNCHANGED <<packer, manager, ldr, bundle, dir, mnt, left, hit>>

\* Where a run goes on: ll-cli may be in PATH or not.
detectLinglong(p) == IF proc[p].what = "run" THEN {"import", "create"} ELSE {"create"}

\* The meta data as read from the file's own section: its list of layers is what a run needs.
getMetaInfo(p) == proc[p].what = "extract" \/ file.layers

main(p) ==
  /\ proc[p].at = "start"
  /\ \/ \E at \in detectLinglong(p) : getMetaInfo(p) /\ To(p, [proc[p] EXCEPT !.at = at])
     \/ (~getMetaInfo(p) \/ "io" \in Faults) /\ To(p, Over)
  /\ UNCHANGED <<packer, manager, ldr, bundle, dir, mnt, left, hit>>

\* `ll-cli list', then `ll-cli install' if the version is not there, then exec of `ll-cli run'.
importSelf(p) ==
  /\ proc[p].at = "import"
  /\ LET r == p[2]
     IN \/ /\ imp[r] = "none"
           /\ \/ imp' = [imp EXCEPT ![r] = "verify"] /\ UNCHANGED proc
              \/ To(p, Over) /\ UNCHANGED imp   \* installed already, or no list
        \/ imp[r] \in {"zero", "failed"} /\ To(p, Over) /\ UNCHANGED imp
  /\ UNCHANGED <<packer, ldr, bundle, dir, mnt, left, pm, lost, pmDir, hit>>

\* ll-package-manager: the meta data is read and the digest compared ...
Manages(r, from, to) == imp[r] = from /\ imp' = [imp EXCEPT ![r] = to]
verify(r) ==
  /\ \/ Manages(r, "verify", "mount") /\ file.layers
     \/ Manages(r, "verify", "failed") /\ (~file.layers \/ "io" \in Faults)
  /\ UNCHANGED <<packer, proc, ldr, bundle, dir, mnt, left, pm, lost, pmDir, hit>>

\* ... the image is mounted for the job, on a directory that is made or there, and the mount point remembered ...
mountUab(r) ==
  /\ \/ Manages(r, "mount", "layers") /\ pm' = pm + 1 /\ pmDir' = TRUE
     \/ "io" \in Faults /\ Manages(r, "mount", "failed") /\ pm' = pm /\ pmDir' \in {pmDir, TRUE}
  /\ UNCHANGED <<packer, proc, ldr, bundle, dir, mnt, left, lost, hit>>

\* ... the signature is unpacked and the layers imported, or one of that fails ...
extractSignData(r) ==
  /\ Manages(r, "layers", "unload")
  /\ UNCHANGED <<packer, proc, ldr, bundle, dir, mnt, left, pm, lost, pmDir, hit>>

\* ... and the destructor of UABFile unmounts the image, or only logs that it could not.
\* Nobody removes the directory.
unloadUab(r) ==
  /\ Manages(r, "unload", "zero") \/ ("io" \in Faults /\ Manages(r, "unload", "failed"))
  /\ \/ pm' = pm - 1 /\ lost' = lost
     \/ "io" \in Faults /\ pm' = pm /\ lost' = lost + 1
  /\ UNCHANGED <<packer, proc, ldr, bundle, dir, mnt, left, pmDir, hit>>

\* mutant: a mount point that exists is taken as one's own
createMountPoint_shared(p) ==
  /\ proc[p].at = "create"
  /\ dir' = TRUE
  /\ To(p, [proc[p] EXCEPT !.at = "mount", !.mp = TRUE, !.created = TRUE])
  /\ UNCHANGED <<packer, manager, ldr, bundle, mnt, left, hit>>

\* A mount point that exists: create_directories returns false without an error,
\* whose value 0 is returned, with mountPoint still empty.  An error is returned.
createMountPoint(p) ==
  /\ proc[p].at = "create"
  /\ \/ dir' = TRUE /\ To(p, [proc[p] EXCEPT !.at = "mount", !.mp = ~dir, !.created = ~dir])
     \/ "io" \in Faults /\ To(p, cleanAndExit(p)) /\ UNCHANGED dir
  /\ UNCHANGED <<packer, manager, ldr, bundle, mnt, left, hit>>

\* The digest is compared and a child forked that is to be erofsfuse; the header waits for
\* it.  A file that cannot be opened is no error: 0 is returned and the run goes on with
\* nothing mounted.  A child that has failed and cleaned up ends the header too.
mountSelfBundle(p) ==
  LET d == <<"daemon", p[2]>>
  IN /\ \/ /\ proc[p].at = "mount" /\ UNCHANGED hit
           /\ proc' = [proc EXCEPT ![p].at = "reap", ![d] = [proc[p] EXCEPT !.at = "fuse"]]
        \/ /\ proc[p].at = "mount" /\ "io" \in Faults
           /\ \/ To(p, cleanAndExit(p)) /\ UNCHANGED hit   \* no section, another digest, no child
              \/ To(p, [proc[p] EXCEPT !.at = "raw"]) /\ hit' = TRUE
        \/ /\ proc[p].at = "reap" /\ proc[d].at = "over"
           /\ To(p, cleanAndExit(p)) /\ UNCHANGED hit
     /\ UNCHANGED <<packer, manager, ldr, bundle, dir, mnt, left>>

\* Another run is about to mount its image.
OthersMount(r) == \E q \in Procs : q[2] # r /\ proc[q].at \in {"mount", "fuse"} /\ proc[q].mp

\* erofsfuse in the child: it mounts the image, which needs the mount point, and
\* daemonizes, so that the header's waitpid returns; the header may have gone or be cleaning
\* up by then.  Or it fails: the child returns -1 and cleans up with its copy of the flags.
fuseMounts(r) ==
  LET p == <<"header", r>>
      d == <<"daemon", r>>
  IN /\ proc[d].at = "fuse"
     /\ \/ /\ proc[d].mp /\ dir /\ mnt' = Append(mnt, r)
           /\ \/ /\ proc[p].at = "reap" /\ UNCHANGED <<left, hit>>
                 /\ proc' = [proc EXCEPT ![p].at = "raw", ![d].at = "serving"]
              \/ /\ proc[p].at # "reap" /\ left' = TRUE /\ hit' = (hit \/ mnt # <<>> \/ OthersMount(r))
                 /\ To(d, [proc[d] EXCEPT !.at = "serving"])
        \/ /\ ~proc[d].mp \/ ~dir \/ "io" \in Faults
           /\ To(d, cleanAndExit(d)) /\ UNCHANGED <<mnt, left, hit>>
     /\ UNCHANGED <<packer, manager, ldr, bundle, dir>>

\* mountFlag.store(true)
mountSelf(p) ==
  /\ proc[p].at = "raw"
  /\ To(p, [proc[p] EXCEPT !.at = "ready", !.mounted = TRUE])
  /\ UNCHANGED <<packer, manager, ldr, bundle, dir, mnt, left, hit>>

\* The image is copied, or that fails.
extractBundle(p) ==
  /\ proc[p].at = "ready" /\ proc[p].what = "extract"
  /\ To(p, cleanAndExit(p))
  /\ UNCHANGED <<packer, manager, ldr, bundle, dir, mnt, left, hit>>

\* The loader is executed in a child; one that cannot be cleans up itself, and the header again.
runAppLoader(p) ==
  /\ proc[p].at = "ready" /\ proc[p].what = "run"
  /\ \/ /\ To(p, [proc[p] EXCEPT !.at = "wait"])
        /\ ldr' = [ldr EXCEPT ![p][1] = IF proc[p].mp /\ mnt # <<>> THEN [at |-> "look", from |-> Last(mnt), code |-> "none"]
                                        ELSE [at |-> "umount", from |-> Nothing, code |-> "failed"]]
     \/ "io" \in Faults /\ To(p, cleanAndExit(p)) /\ UNCHANGED ldr   \* no memory, no child
  /\ UNCHANGED <<packer, manager, bundle, dir, mnt, left, hit>>

waitLoader_zero(p) == \* mutant: only a successful loader ends the wait
  /\ proc[p].at = "wait" /\ ldr[p][1].at = "over" /\ ldr[p][1].code = "zero"
  /\ To(p, cleanAndExit(p))
  /\ UNCHANGED <<packer, manager, ldr, bundle, dir, mnt, left, hit>>
waitLoader(p) ==
  /\ proc[p].at = "wait" /\ ldr[p][1].at = "over"
  /\ To(p, cleanAndExit(p))
  /\ UNCHANGED <<packer, manager, ldr, bundle, dir, mnt, left, hit>>

umount_skipped(p) == \* mutant: mountFlag is not looked at by the cleaning
  /\ proc[p].at = "umount"
  /\ To(p, [proc[p] EXCEPT !.at = "remove", !.mounted = FALSE])
  /\ UNCHANGED <<packer, manager, ldr, bundle, dir, mnt, left, hit>>

\* cleanResource: a lazy umount of what is on top, whose status nobody looks at ...
Unmounts(p) ==
  LET found == proc[p].mounted /\ proc[p].mp /\ mnt # <<>>
  IN /\ mnt' = IF found THEN Front(mnt) ELSE mnt
     /\ hit' = (hit \/ (found /\ p[1] = "daemon" /\ Last(mnt) # p[2]))
\* ... and the mount point, which cannot be removed while an image is mounted on it.
Removes(p) ==
  LET gone == dir /\ proc[p].created /\ mnt = <<>>
  IN /\ dir' = (dir /\ ~gone)
     /\ hit' = (hit \/ (gone /\ OthersMount(p[2])))

umount(p) ==
  /\ proc[p].at = "umount"
  /\ \/ /\ Unmounts(p) /\ UNCHANGED left
        /\ To(p, [proc[p] EXCEPT !.at = "remove", !.mounted = FALSE])
     \/ /\ "io" \in Faults /\ proc[p].mounted /\ left' = TRUE /\ UNCHANGED <<mnt, hit>>
        /\ \/ To(p, [proc[p] EXCEPT !.at = "remove", !.mounted = FALSE])
           \/ To(p, Over)   \* no child for it
  /\ UNCHANGED <<packer, manager, ldr, bundle, dir>>
cleanResource(p) ==
  /\ proc[p].at = "remove"
  /\ Removes(p)
  /\ To(p, Over)
  /\ UNCHANGED <<packer, manager, ldr, bundle, mnt, left>>

\* The child without a loader has copies of its parent's flags.
childCleans(p) ==
  /\ \/ ldr[p][1].at = "umount" /\ Unmounts(p) /\ ldr' = [ldr EXCEPT ![p][1].at = "remove"] /\ UNCHANGED dir
     \/ ldr[p][1].at = "remove" /\ Removes(p) /\ ldr' = [ldr EXCEPT ![p][1].at = "over"] /\ UNCHANGED mnt
  /\ UNCHANGED <<packer, manager, proc, bundle, left>>

\* erofsfuse_main returns once the image is unmounted and nobody uses it any more.
erofsfuse_main(r) ==
  /\ proc[<<"daemon", r>>].at = "serving" /\ r \notin Range(mnt)
  /\ \A p \in Procs, c \in Copies : ldr[p][c].from = r => ldr[p][c].at = "over"
  /\ To(<<"daemon", r>>, [proc[<<"daemon", r>>] EXCEPT !.at = "ready", !.mounted = TRUE])
  /\ UNCHANGED <<packer, manager, ldr, bundle, dir, mnt, left, hit>>

------------------------------------------------------------------------------
\* The loader.
LoaderTo(p, c, at) == ldr' = [ldr EXCEPT ![p][c].at = at]
LoaderEnds(p, c, code) == ldr' = [ldr EXCEPT ![p][c] = [at |-> "over", from |-> Nothing, code |-> code]]

\* What the loader reads below the mount point is there while any image is mounted:
\* the info.json of the layers, then ll-box, the configuration and the layers' files.
loadPackageInfoFromJson == mnt # <<>>
compatibleFilePath == mnt # <<>>

\* The app's info is looked for under `layers', then the container bundle is made.
makeBundle(p, c) ==
  /\ ldr[p][c].at = "look"
  /\ \/ loadPackageInfoFromJson /\ LoaderTo(p, c, "made") /\ bundle' = [bundle EXCEPT ![p] = TRUE]
     \/ (~loadPackageInfoFromJson \/ "io" \in Faults) /\ LoaderEnds(p, c, "failed") /\ UNCHANGED bundle
  /\ UNCHANGED <<packer, manager, proc, dir, mnt, left, hit>>

\* The generators: one that fails or takes over 400 ms is skipped; the child that
\* cannot execute its generator returns and goes on as a second loader.
applyPatches(p, c) ==
  /\ ldr[p][c].at = "made"
  /\ \/ LoaderTo(p, c, "patched")
     \/ /\ "gen" \in Faults /\ c = 1 /\ p[1] = "header"   \* bound: not for a daemon that went on
        /\ ldr' = [ldr EXCEPT ![p][1].at = "patched", ![p][2] = [ldr[p][1] EXCEPT !.at = "patched"]]
  /\ UNCHANGED <<packer, manager, proc, bundle, dir, mnt, left, hit>>

\* config.json is written and ll-box started; an error removes the bundle.
startBox(p, c) ==
  /\ ldr[p][c].at = "patched"
  /\ \/ bundle[p] /\ compatibleFilePath /\ LoaderTo(p, c, "boxed") /\ UNCHANGED bundle
     \/ /\ ~bundle[p] \/ ~compatibleFilePath \/ "io" \in Faults
        /\ LoaderEnds(p, c, "failed") /\ bundle' = [bundle EXCEPT ![p] = FALSE]
  /\ UNCHANGED <<packer, manager, proc, dir, mnt, left, hit>>

\* The container ends, and main's defer removes the bundle.
boxEnds(p, c, code) ==
  /\ ldr[p][c].at = "boxed"
  /\ LoaderEnds(p, c, code)
  /\ bundle' = [bundle EXCEPT ![p] = FALSE]
  /\ UNCHANGED <<packer, manager, proc, dir, mnt, left, hit>>

\* handleSig of the loader: the bundle is removed; ll-box dies with its parent.
loaderSignal(p, c) ==
  /\ "signal" \in Faults /\ p[2] \in Struck /\ ldr[p][c].at \in {"look", "made", "patched", "boxed"}
  /\ LoaderEnds(p, c, "failed")
  /\ bundle' = [bundle EXCEPT ![p] = FALSE]
  /\ UNCHANGED <<packer, manager, proc, dir, mnt, left, hit>>

\* handleSig of the header, at any moment; and SIGKILL, which nobody handles.
handleSig(r) ==
  LET p == <<"header", r>>
  IN /\ "signal" \in Faults /\ r \in Struck /\ proc[p].at \in {"start", "create", "mount", "reap", "raw", "ready", "wait"}
     /\ To(p, cleanAndExit(p))
     /\ left' = (left \/ proc[p].at = "raw")
     /\ UNCHANGED <<packer, manager, ldr, bundle, dir, mnt, hit>>
HeaderKilled(r) ==
  LET p == <<"header", r>>
  IN /\ "kill" \in Faults /\ r \in Struck /\ proc[p].at \notin {"none", "over"}
     /\ To(p, Over)
     /\ left' = TRUE
     /\ UNCHANGED <<packer, manager, ldr, bundle, dir, mnt, hit>>

------------------------------------------------------------------------------
Pack == copyHeader \/ packIcon \/ prepareBundle \/ prepareExtra \/ packBundle \/ packMetaInfo \/ pack
Process(p) == \/ main(p) \/ importSelf(p) \/ createMountPoint(p) \/ mountSelfBundle(p) \/ mountSelf(p)
              \/ extractBundle(p) \/ runAppLoader(p) \/ waitLoader(p) \/ umount(p) \/ cleanResource(p)
              \/ childCleans(p)
Loader(p, c) == makeBundle(p, c) \/ applyPatches(p, c) \/ startBox(p, c)

Manager(r) == verify(r) \/ mountUab(r) \/ extractSignData(r) \/ unloadUab(r)

Next ==
  \/ UABPackager \/ Pack \/ PackerKilled
  \/ \E r \in Runs, what \in {"run", "extract"} : Launch(r, what)
  \/ \E p \in Procs : Process(p)
  \/ \E p \in Procs, c \in Copies :
       Loader(p, c) \/ loaderSignal(p, c) \/ \E code \in {"zero", "failed"} : boxEnds(p, c, code)
  \/ \E r \in Runs : Manager(r) \/ fuseMounts(r) \/ erofsfuse_main(r) \/ handleSig(r) \/ HeaderKilled(r)

Spec == Init /\ [][Next]_vars

\* The kernel runs every process, erofsfuse's mount included, and a generator has 400 ms.
\* Nothing makes an application end, and nothing ll-package-manager install a file.
FairSpec == Spec /\ \A p \in Procs : /\ WF_vars(Process(p)) /\ WF_vars(fuseMounts(p[2]))
                                     /\ \A c \in Copies : WF_vars(Loader(p, c))

------------------------------------------------------------------------------
Done(p) == proc[p].at \in {"none", "over"}

\* A packing that succeeds exports what it packed with its layers listed, unless
\* one that was killed had left an image in .uabBuild.
PackFresh == pk.at = "done" => (file.pack = pk.n /\ file.layers) \/ pk.reused

\* A layer is called minified exactly when some of its files are left out.
MinifiedTells == pk.at \in {"layers", "prepared"} => (pk.minified <=> pk.files # Names)

\* What ll-builder says it packed is what is in the file it exports.
PackTells == PackFresh /\ MinifiedTells

\* When every header is over nothing stays mounted and no mount point is left, unless a
\* header was killed, got a signal after it forked for the mount and before its flag, or its umount failed.
NothingLeft == (\A p \in Procs : Done(p) \/ proc[p].at = "serving") => (mnt = <<>> /\ ~dir) \/ left

\* A run keeps its image for as long as it needs it, whatever another start of
\* the same file does and however that ends, unless its file could not be opened,
\* the daemon of a run that is over went on as a header and unmounted it, the cleaning
\* of another process removed its mount point before it was mounted, or the child of a
\* run that had its signal mounted beside it.
StaysMounted == \A r \in Runs : proc[<<"header", r>>].at \in {"ready", "wait"} =>
                  (mnt # <<>> /\ Last(mnt) = r) \/ hit

\* A container bundle is removed with its loader.
BundleRemoved == \A p \in Procs : bundle[p] => \E c \in Copies : ldr[p][c].at \notin {"none", "over"}

\* ll-package-manager keeps an image mounted only while it installs it: whatever
\* fails on the way, the destructor unmounts it, and each image that stays is one
\* whose umount failed.  The directory is there while an image is, and stays.
ManagerUnmounts == /\ (\A r \in Runs : imp[r] \in {"none", "verify", "mount", "zero", "failed"}) => pm = lost
                   /\ pm > 0 => pmDir

\* The mounts, mount points and bundles of a run end with the processes they were made
\* for, on every path and beside any other start, and so do the mounts, but not the
\* mount point, of ll-package-manager; the exceptions are the ones each part names.
LeavesNothing == TypeOK /\ NothingLeft /\ BundleRemoved /\ ManagerUnmounts

\* A run that was started ends, unless its application runs or it waits for ll-cli to
\* install the file: nobody waits for a loader, a daemon or a second loader for ever.
RunEnds ==
  \A r \in Runs : LET p == <<"header", r>> IN
    proc[p].at # "none" ~> \/ Done(p) \/ ldr[p][1].at = "boxed"
                           \/ proc[p].at = "import" /\ imp[r] \in {"verify", "mount", "layers", "unload"}
==============================================================================
