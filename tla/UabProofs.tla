------------------------------ MODULE UabProofs ------------------------------
(***************************************************************************)
(* Proofs about Uab, for any number of starts of the file, any number of   *)
(* packings, any set of faults: what is exported is what was packed, a run *)
(* keeps its image, and nothing is left behind.                            *)
(***************************************************************************)
EXTENDS Uab, FiniteSetTheorems, SequenceTheorems, TLAPS

Header(r) == <<"header", r>>
Daemon(r) == <<"daemon", r>>

\* What the packer knows about the image it is about to export: it made it, or it
\* took the one a killed packer left.
ImageKnown ==
  /\ pk.at \in {"layers", "prepared"} => pk.layers
  /\ pk.at \in {"image", "section", "export"} => pk.reused \/ (build.image = pk.n /\ pk.layers)
  /\ build.image # 0 => build.killed \/ pk.at \in {"image", "section", "export"}

\* A daemon is there only after its header's mount, and starts where its copy of the
\* header's code is; the flags say how far a process is.
DaemonLate == \A r \in Runs :
  /\ proc[Daemon(r)].at \notin {"start", "import", "create", "mount", "reap", "raw"}
  /\ proc[Header(r)].at \notin {"serving", "fuse"}
  /\ proc[Header(r)].at \in {"none", "start", "import", "create", "mount"} => proc[Daemon(r)].at = "none"
  /\ proc[Header(r)].at = "reap" /\ proc[Daemon(r)].at = "fuse" => proc[Header(r)].mp = proc[Daemon(r)].mp
FlagsTell == \A p \in Procs :
  /\ proc[p].mp = proc[p].created
  /\ proc[p].at \in {"none", "start", "import", "create", "over"} => ~proc[p].created
  /\ proc[p].mounted => proc[p].at \in {"ready", "wait", "umount"}

\* A loader is forked once; while it looks, or its child without a loader cleans up,
\* there is no container bundle and no second loader.
LoaderOnce == \A p \in Procs :
  /\ proc[p].at \in {"none", "start", "import", "create", "mount", "reap", "raw", "ready", "fuse", "serving"} =>
       ldr[p][1].at = "none" /\ ldr[p][2].at = "none" /\ ~bundle[p]
  /\ ldr[p][1].at \in {"none", "look", "umount", "remove"} => ldr[p][2].at = "none" /\ ~bundle[p]
  /\ ldr[p][2].at \in {"none", "patched", "boxed", "over"}

\* ll-package-manager has one image mounted for each installation that is at it, and one
\* for each that is over and whose umount failed.
Installing == {r \in Runs : imp[r] \in {"layers", "unload"}}
Ended == {r \in Runs : imp[r] \in {"zero", "failed"}}
ManagerCounts == /\ pm = Cardinality(Installing) + lost
                 /\ lost \in Nat /\ lost <= Cardinality(Ended)
                 /\ pmDir \in BOOLEAN /\ (pm > 0 => pmDir)

\* Until something goes wrong for a run: the one that made the mount point has it, with
\* nothing on it, until it mounts; then its image alone is mounted.
Waiting(r) == \/ proc[Header(r)].at = "mount" /\ proc[Header(r)].mp
              \/ proc[Header(r)].at = "reap" /\ proc[Daemon(r)].at = "fuse" /\ proc[Daemon(r)].mp
Has(r) == \/ proc[Header(r)].at \in {"raw", "ready", "wait"}
          \/ proc[Header(r)].at = "umount" /\ proc[Header(r)].mounted
MountOwned ==
  /\ \A r \in Runs : Waiting(r) => dir /\ mnt = <<>>
  /\ \A r \in Runs : Has(r) => dir /\ mnt = <<r>> /\ proc[Header(r)].mp
  /\ \A r, s \in Runs : Waiting(r) /\ Waiting(s) => r = s
  /\ \A r \in Runs : ldr[Header(r)][1].at \notin {"umount", "remove"}

\* Images are mounted on a mount point that is there, by a header that has come that far
\* and whose daemon still serves it.
MountsServed ==
  /\ mnt # <<>> => dir
  /\ \A r \in Runs : proc[Daemon(r)].at \notin {"none", "serving"} => r \notin Range(mnt)
  /\ \A r \in Runs : proc[Header(r)].at \in {"none", "start", "import", "create", "mount"} => r \notin Range(mnt)

\* For every image that is mounted there is a header that will unmount one, and for the
\* mount point a process that will remove it.
Unmounting == {r \in Runs : proc[Header(r)].mp /\ (proc[Header(r)].at = "raw" \/ proc[Header(r)].mounted)}
Accounted ==
  /\ Len(mnt) <= Cardinality(Unmounting)
  /\ dir => \E p \in Procs : proc[p].created /\ proc[p].at # "serving"

IInv == /\ TypeOK /\ PackTells /\ ImageKnown
        /\ DaemonLate /\ FlagsTell /\ LoaderOnce /\ BundleRemoved /\ ManagerCounts
        /\ (hit \/ MountOwned) /\ MountsServed
        /\ (left \/ Accounted)

------------------------------------------------------------------------------
\* The packer.
PackerStep == UABPackager \/ Pack \/ PackerKilled
PackerType ==
  /\ pk \in [at : {"idle", "start", "header", "icon", "layers", "prepared", "image", "section", "export", "done", "failed", "dead"},
             n : 0 .. MaxPacks, layers : BOOLEAN, minified : BOOLEAN, files : SUBSET Names, reused : BOOLEAN]
  /\ build \in [bundle : BOOLEAN, image : 0 .. MaxPacks, killed : BOOLEAN]
  /\ file \in [pack : 0 .. MaxPacks, layers : BOOLEAN]
PackerInv == PackerType /\ PackTells /\ ImageKnown

\* A path stands for files of the layer: what is excluded and not included again is
\* some of them (filteringFiles of the packager).
LEMMA ExpandedAreNames == ASSUME NEW s \in SUBSET Names PROVE expandPaths(s) \subseteq Names
BY DEF expandPaths, Below, Names

\* filteringFiles calls a layer minified exactly when a file is left out.
LEMMA FilterTells ==
  ASSUME NEW e \in SUBSET Names, NEW i \in SUBSET Names
  PROVE  /\ filteringFiles(e, i).minified \in BOOLEAN
         /\ filteringFiles(e, i).files \in SUBSET Names
         /\ filteringFiles(e, i).minified <=> filteringFiles(e, i).files # Names
<1> DEFINE x == expandPaths(e) \ expandPaths(i)
<1>1. x \subseteq Names
  BY ExpandedAreNames
<1>2. filteringFiles(e, i) = [minified |-> x # {}, files |-> Names \ x]
  BY DEF filteringFiles
<1> HIDE DEF x
<1>3. filteringFiles(e, i).minified = (x # {}) /\ filteringFiles(e, i).files = Names \ x
  BY <1>2
<1>4. (x # {}) <=> Names \ x # Names
  BY <1>1
<1> QED BY <1>3, <1>4

\* An error ends a packing and removes .uabBuild.
LEMMA FailsKeeps == ASSUME PackerInv, Fails, file' = file PROVE PackerInv'
<1> USE DEF PackerInv, Fails
<1>1. PackerType'
  BY PacksKnown DEF PackerType, NoBuild
<1>2. pk'.at = "failed" /\ build'.image = 0
  BY DEF PackerType, NoBuild
<1> QED BY <1>1, <1>2 DEF PackTells, PackFresh, MinifiedTells, ImageKnown

\* Each step of packing keeps what the packer knows about the image.
LEMMA PackerKeeps == ASSUME PackerInv, PackerStep PROVE PackerInv'
<1> USE DEF PackerInv, PackTells, PackFresh, MinifiedTells, ImageKnown
<1>1. CASE UABPackager
  <2>1. pk.n \in 0 .. MaxPacks
    BY DEF PackerType
  <2>2. pk.n + 1 \in 0 .. MaxPacks
    BY <1>1, <2>1, PacksKnown DEF UABPackager
  <2>3. pk' = [pk EXCEPT !.at = "start", !.n = pk.n + 1, !.layers = FALSE, !.reused = FALSE, !.minified = FALSE, !.files = {}]
        /\ build' = build /\ file' = file
    BY <1>1 DEF UABPackager
  <2>4. PackerType'
    BY ONLY <2>2, <2>3, PackerInv DEF PackerInv, PackerType
  <2> QED BY <1>1, <2>3, <2>4 DEF PackerType, UABPackager
<1>2. CASE copyHeader
  BY <1>2, FailsKeeps DEF copyHeader, PackerType
<1>3. CASE packIcon
  BY <1>3, FailsKeeps DEF packIcon, PackerType
<1>4. CASE prepareBundle
  <2>1. CASE build.image # 0 /\ pk' = [pk EXCEPT !.at = "image", !.reused = build.killed] /\ build' = build
    BY <1>4, <2>1 DEF prepareBundle, PackerType
  <2>2. CASE Fails
    BY <1>4, <2>2, FailsKeeps DEF prepareBundle
  <2>3. ASSUME NEW e \in {{}, {"lib"}, {"lib/a"}, {"bin"}}, NEW i \in {{}, {"lib"}, {"lib/a"}, {"bin"}},
               build.image = 0, build' = [build EXCEPT !.bundle = TRUE],
               pk' = [pk EXCEPT !.at = "layers", !.layers = TRUE, !.minified = filteringFiles(e, i).minified,
                                !.files = filteringFiles(e, i).files]
        PROVE  PackerInv'
    <3>1. e \in SUBSET Names /\ i \in SUBSET Names
      BY DEF Names
    <3>2. PICK m \in BOOLEAN, f \in SUBSET Names :
            /\ m <=> f # Names
            /\ pk' = [pk EXCEPT !.at = "layers", !.layers = TRUE, !.minified = m, !.files = f]
      BY <2>3, <3>1, FilterTells
    <3>3. file' = file
      BY <1>4 DEF prepareBundle
    <3> QED BY ONLY <2>3, <3>2, <3>3, PackerInv DEF PackerInv, PackTells, PackFresh, MinifiedTells, ImageKnown, PackerType
  <2> QED BY <1>4, <2>1, <2>2, <2>3 DEF prepareBundle
<1>5. CASE prepareExtra
  BY <1>5, FailsKeeps DEF prepareExtra, PackerType
<1>6. CASE packBundle
  BY <1>6, FailsKeeps DEF packBundle, PackerType
<1>7. CASE packMetaInfo
  BY <1>7, FailsKeeps DEF packMetaInfo, PackerType
<1>8. CASE pack
  <2>1. CASE pk.at = "section"
    <3>1. file' = [pack |-> 0, layers |-> FALSE] /\ pk' = [pk EXCEPT !.at = "export"] /\ build' = build
      BY <1>8, <2>1 DEF pack, NoFile
    <3>2. 0 \in 0 .. MaxPacks
      BY PacksKnown
    <3> QED BY ONLY <2>1, <3>1, <3>2, PackerInv DEF PackerInv, PackTells, PackFresh, MinifiedTells, ImageKnown, PackerType
  <2>2. CASE pk.at = "export"
    <3>1. CASE Fails /\ file' = file
      BY <3>1, FailsKeeps
    <3>2. CASE /\ file' = [pack |-> build.image, layers |-> pk.layers]
               /\ pk' = [pk EXCEPT !.at = "done", !.minified = FALSE, !.files = {}]
               /\ build' = NoBuild
      <4>1. PackerType'
        <5>1. 0 \in 0 .. MaxPacks /\ build.image \in 0 .. MaxPacks /\ pk.layers \in BOOLEAN
          BY PacksKnown DEF PackerType
        <5>2. pk \in [at : {"idle", "start", "header", "icon", "layers", "prepared", "image", "section", "export", "done", "failed", "dead"},
                      n : 0 .. MaxPacks, layers : BOOLEAN, minified : BOOLEAN, files : SUBSET Names, reused : BOOLEAN]'
          BY <3>2 DEF PackerType
        <5> QED BY ONLY <3>2, <5>1, <5>2 DEF PackerType, NoBuild
      <4> QED BY <2>2, <3>2, <4>1 DEF PackerType, NoBuild
    <3> QED BY <1>8, <2>2, <3>1, <3>2 DEF pack
  <2> QED BY <1>8, <2>1, <2>2 DEF pack
<1>9. CASE PackerKilled
  <2>1. PICK image \in 0 .. MaxPacks : build' = [build EXCEPT !.killed = TRUE, !.image = image]
    BY <1>9 DEF PackerKilled, PackerType
  <2>2. pk' = [pk EXCEPT !.at = "dead", !.minified = FALSE, !.files = {}] /\ file' = file
    BY <1>9 DEF PackerKilled
  <2> QED BY <2>1, <2>2 DEF PackerType
<1> QED BY <1>1, <1>2, <1>3, <1>4, <1>5, <1>6, <1>7, <1>8, <1>9 DEF PackerStep, Pack

------------------------------------------------------------------------------
\* Starts of the file, and ll-package-manager.
RunnerStep ==
  \/ \E r \in Runs, what \in {"run", "extract"} : Launch(r, what)
  \/ \E p \in Procs : Process(p)
  \/ \E p \in Procs, c \in Copies :
       Loader(p, c) \/ loaderSignal(p, c) \/ \E code \in {"zero", "failed"} : boxEnds(p, c, code)
  \/ \E r \in Runs : Manager(r) \/ fuseMounts(r) \/ erofsfuse_main(r) \/ handleSig(r) \/ HeaderKilled(r)

ProcRecord == [at : ProcAts, what : {"none", "run", "extract"}, mp : BOOLEAN, created : BOOLEAN, mounted : BOOLEAN]
LoaderRecord == [at : LoaderAts, from : Runs \cup {Nothing}, code : {"none", "zero", "failed"}]
ProcType == proc \in [Procs -> ProcRecord]
LoaderType == ldr \in [Procs -> [Copies -> LoaderRecord]] /\ bundle \in [Procs -> BOOLEAN]
ManagerType == imp \in [Runs -> {"none", "verify", "mount", "layers", "unload", "zero", "failed"}]
MountType == dir \in BOOLEAN /\ mnt \in Seq(Runs) /\ left \in BOOLEAN /\ hit \in BOOLEAN

\* A process is the header or the daemon of a run.
LEMMA ProcIs ==
  ASSUME NEW p \in Procs
  PROVE  /\ p[1] \in {"header", "daemon"} /\ p[2] \in Runs /\ p = <<p[1], p[2]>>
         /\ p[1] = "header" => p = Header(p[2])
         /\ p[1] = "daemon" => p = Daemon(p[2])
BY DEF Procs, Header, Daemon

\* The header and the daemon of a run are two processes, and not those of another run.
LEMMA ProcOf ==
  ASSUME NEW r \in Runs, NEW s \in Runs
  PROVE  /\ Header(r) \in Procs /\ Daemon(r) \in Procs /\ Header(r) # Daemon(s)
         /\ Header(r)[1] = "header" /\ Header(r)[2] = r /\ Daemon(r)[1] = "daemon" /\ Daemon(r)[2] = r
         /\ r # s => Header(r) # Header(s) /\ Daemon(r) # Daemon(s)
BY DEF Procs, Header, Daemon

\* The mounts under the one on top.
LEMMA FrontIs ==
  ASSUME NEW S, NEW s \in Seq(S), s # <<>>
  PROVE  /\ Front(s) \in Seq(S) /\ Len(Front(s)) = Len(s) - 1 /\ Last(s) \in S
         /\ Last(s) = s[Len(s)] /\ Len(s) \in Nat \ {0}
         /\ \A i \in 1 .. Len(s) - 1 : Front(s)[i] = s[i]
         /\ Range(Front(s)) \subseteq Range(s) /\ Last(s) \in Range(s)
<1>0. Len(s) \in Nat \ {0}
  OBVIOUS
<1>1. Len(s) \in Nat \ {0} /\ Last(s) = s[Len(s)] /\ Front(s) = SubSeq(s, 1, Len(s) - 1)
  BY DEF Last, Front
<1>2. Front(s) \in Seq(S) /\ Len(Front(s)) = Len(s) - 1 /\ \A i \in 1 .. Len(s) - 1 : Front(s)[i] = s[i]
  <2>1. \A i \in 1 .. Len(s) - 1 : s[i] \in S
    BY <1>1
  <2>2. 1 \in Int /\ Len(s) - 1 \in Int
    BY <1>1
  <2>3. /\ SubSeq(s, 1, Len(s) - 1) \in Seq(S)
        /\ Len(SubSeq(s, 1, Len(s) - 1)) = IF 1 <= Len(s) - 1 THEN (Len(s) - 1) - 1 + 1 ELSE 0
        /\ \A i \in 1 .. (Len(s) - 1) - 1 + 1 : SubSeq(s, 1, Len(s) - 1)[i] = s[1 + i - 1]
    BY ONLY <2>1, <2>2, SubSeqProperties
  <2>4. Len(Front(s)) = Len(s) - 1
    <3>1. (IF 1 <= Len(s) - 1 THEN (Len(s) - 1) - 1 + 1 ELSE 0) = Len(s) - 1
      <4>1. ASSUME NEW n \in Nat, n >= 1 PROVE (IF 1 <= n - 1 THEN (n - 1) - 1 + 1 ELSE 0) = n - 1
        BY ONLY <4>1
      <4>2. Len(s) \in Nat /\ Len(s) >= 1
        BY ONLY <1>0
      <4> QED BY ONLY <4>1, <4>2
    <3> QED BY ONLY <1>1, <2>3, <3>1, Zenon
  <2>5. ASSUME NEW i \in 1 .. Len(s) - 1 PROVE Front(s)[i] = s[i]
    <3>1. i \in 1 .. (Len(s) - 1) - 1 + 1 /\ 1 + i - 1 = i
      BY <1>1
    <3> QED BY <1>1, <2>3, <3>1
  <2> QED BY <1>1, <2>3, <2>4, <2>5
<1>3. DOMAIN s = 1 .. Len(s) /\ DOMAIN Front(s) = 1 .. Len(s) - 1
  BY <1>1, <1>2
<1>4. Range(Front(s)) \subseteq Range(s) /\ Last(s) \in Range(s)
  BY <1>1, <1>2, <1>3 DEF Range
<1> QED BY <1>1, <1>2, <1>4

\* The cases of mountSelfBundle: a child is forked, there is none or it has failed, the file is not opened.
Forks(p) == /\ proc[p].at = "mount" /\ hit' = hit
            /\ proc' = [proc EXCEPT ![p].at = "reap", ![Daemon(p[2])] = [proc[p] EXCEPT !.at = "fuse"]]
NoChild(p) == proc[p].at \in {"mount", "reap"} /\ To(p, cleanAndExit(p)) /\ hit' = hit
NotOpened(p) == proc[p].at = "mount" /\ To(p, [proc[p] EXCEPT !.at = "raw"]) /\ hit' = TRUE

\* mountSelfBundle takes one of these.
LEMMA MountCases ==
  ASSUME NEW p \in Procs, mountSelfBundle(p)
  PROVE  /\ Forks(p) \/ NoChild(p) \/ NotOpened(p)
         /\ UNCHANGED <<ldr, bundle, dir, mnt, left, imp, pm, lost, pmDir>>
BY DEF mountSelfBundle, Forks, NoChild, NotOpened, To, cleanAndExit, Daemon, manager

\* The cases of fuseMounts: the header waits for it, or does not any more, or the child fails.
Serves(r) == /\ proc[Daemon(r)].mp /\ dir /\ mnt' = Append(mnt, r)
             /\ proc[Header(r)].at = "reap" /\ left' = left /\ hit' = hit
             /\ proc' = [proc EXCEPT ![Header(r)].at = "raw", ![Daemon(r)].at = "serving"]
ServesLate(r) == /\ proc[Daemon(r)].mp /\ dir /\ mnt' = Append(mnt, r)
                 /\ proc[Header(r)].at # "reap" /\ left' = TRUE /\ hit' = (hit \/ mnt # <<>> \/ OthersMount(r))
                 /\ To(Daemon(r), [proc[Daemon(r)] EXCEPT !.at = "serving"])
ChildFails(r) == To(Daemon(r), cleanAndExit(Daemon(r))) /\ mnt' = mnt /\ left' = left /\ hit' = hit

\* fuseMounts takes one of these.
LEMMA FuseCases ==
  ASSUME NEW r \in Runs, fuseMounts(r)
  PROVE  /\ proc[Daemon(r)].at = "fuse"
         /\ Serves(r) \/ ServesLate(r) \/ ChildFails(r)
         /\ UNCHANGED <<ldr, bundle, dir, imp, pm, lost, pmDir>>
BY DEF fuseMounts, Serves, ServesLate, ChildFails, Daemon, Header, manager

\* The cases of umount: it is done, or not.
UmountDone(p) == Unmounts(p) /\ left' = left /\ To(p, [proc[p] EXCEPT !.at = "remove", !.mounted = FALSE])
UmountNot(p) == /\ left' = TRUE /\ mnt' = mnt /\ hit' = hit
                /\ \/ To(p, [proc[p] EXCEPT !.at = "remove", !.mounted = FALSE])
                   \/ To(p, Over)

\* umount takes one of these.
LEMMA UmountCases ==
  ASSUME NEW p \in Procs, umount(p)
  PROVE  /\ proc[p].at = "umount"
         /\ UmountDone(p) \/ UmountNot(p)
         /\ UNCHANGED <<ldr, bundle, dir, imp, pm, lost, pmDir>>
BY DEF umount, UmountDone, UmountNot, manager

\* Every process stays one: the type of proc.
LEMMA ProcTypeKeeps == ASSUME ProcType, RunnerStep PROVE ProcType'
<1>a. ASSUME NEW p \in Procs, NEW rec \in ProcRecord, To(p, rec) PROVE ProcType'
  BY <1>a DEF ProcType, To
<1>b. ASSUME NEW p \in Procs
      PROVE  /\ \A a \in ProcAts : [proc[p] EXCEPT !.at = a] \in ProcRecord
             /\ \A a \in ProcAts, b \in BOOLEAN : [proc[p] EXCEPT !.at = a, !.mounted = b] \in ProcRecord
             /\ \A a \in ProcAts, b \in BOOLEAN : [proc[p] EXCEPT !.at = a, !.mp = b, !.created = b] \in ProcRecord
             /\ cleanAndExit(p) \in ProcRecord
  <2>1. proc[p] \in ProcRecord
    BY DEF ProcType
  <2>2. "umount" \in ProcAts
    BY DEF ProcAts
  <2> QED BY <2>1, <2>2 DEF ProcRecord, cleanAndExit
<1>c. Over \in ProcRecord /\ \A w \in {"run", "extract"} : [NoProc EXCEPT !.at = "start", !.what = w] \in ProcRecord
  BY DEF Over, NoProc, ProcRecord, ProcAts
<1>d. {"import", "create", "mount", "raw", "ready", "wait", "remove"} \subseteq ProcAts
  BY DEF ProcAts
<1>e. ASSUME UNCHANGED proc PROVE ProcType'
  BY <1>e DEF ProcType
<1>1. ASSUME NEW r \in Runs, NEW what \in {"run", "extract"}, Launch(r, what) PROVE ProcType'
  <2>1. <<"header", r>> \in Procs
    BY DEF Procs
  <2> QED BY <1>1, <1>a, <1>c, <2>1 DEF Launch
<1>2. ASSUME NEW p \in Procs, Process(p) PROVE ProcType'
  <2>1. CASE main(p)
    BY <2>1, <1>a, <1>b, <1>c, <1>d DEF main, detectLinglong
  <2>2. CASE importSelf(p)
    BY <2>2, <1>a, <1>c, <1>e DEF importSelf
  <2>3. CASE createMountPoint(p)
    <3>1. CASE To(p, cleanAndExit(p))
      BY <3>1, <1>a, <1>b
    <3>2. ASSUME ~To(p, cleanAndExit(p))
          PROVE  \E b \in BOOLEAN : To(p, [proc[p] EXCEPT !.at = "mount", !.mp = b, !.created = b])
      BY <2>3, <3>2, (~dir) \in BOOLEAN DEF createMountPoint
    <3> QED BY <3>1, <3>2, <1>a, <1>b, <1>d
  <2>4. CASE mountSelfBundle(p)
    <3>1. Daemon(p[2]) \in Procs
      BY DEF Daemon, Procs
    <3>2. CASE Forks(p)
      BY <3>1, <3>2 DEF Forks, ProcType, ProcRecord, ProcAts
    <3>4. CASE NoChild(p) \/ NotOpened(p)
      BY <3>4, <1>a, <1>b, <1>d DEF NoChild, NotOpened
    <3> QED BY <2>4, <3>2, <3>4, MountCases
  <2>5. CASE mountSelf(p)
    BY <2>5, <1>a, <1>b, <1>d DEF mountSelf
  <2>6. CASE extractBundle(p)
    BY <2>6, <1>a, <1>b DEF extractBundle
  <2>7. CASE runAppLoader(p)
    BY <2>7, <1>a, <1>b, <1>d DEF runAppLoader
  <2>8. CASE waitLoader(p)
    BY <2>8, <1>a, <1>b DEF waitLoader
  <2>9. CASE umount(p)
    BY <2>9, <1>a, <1>b, <1>c, <1>d, UmountCases DEF UmountDone, UmountNot
  <2>10. CASE cleanResource(p)
    BY <2>10, <1>a, <1>c DEF cleanResource
  <2>11. CASE childCleans(p)
    BY <2>11, <1>e DEF childCleans
  <2> QED BY <1>2, <2>1, <2>2, <2>3, <2>4, <2>5, <2>6, <2>7, <2>8, <2>9, <2>10, <2>11 DEF Process
<1>3. ASSUME NEW p \in Procs, NEW c \in Copies,
             Loader(p, c) \/ loaderSignal(p, c) \/ \E code \in {"zero", "failed"} : boxEnds(p, c, code)
      PROVE  ProcType'
  BY <1>3, <1>e DEF Loader, makeBundle, applyPatches, startBox, loaderSignal, boxEnds
<1>4. ASSUME NEW r \in Runs, Manager(r) PROVE ProcType'
  BY <1>4, <1>e DEF Manager, verify, mountUab, extractSignData, unloadUab
<1>5. ASSUME NEW r \in Runs, erofsfuse_main(r) PROVE ProcType'
  <2>1. <<"daemon", r>> \in Procs
    BY DEF Procs
  <2> QED BY <1>5, <1>a, <1>b, <1>d, <2>1 DEF erofsfuse_main
<1>6. ASSUME NEW r \in Runs, handleSig(r) \/ HeaderKilled(r) PROVE ProcType'
  <2>1. <<"header", r>> \in Procs
    BY DEF Procs
  <2> QED BY <1>6, <1>a, <1>b, <1>c, <2>1 DEF handleSig, HeaderKilled
<1>7. ASSUME NEW r \in Runs, fuseMounts(r) PROVE ProcType'
  <2>1. Header(r) \in Procs /\ Daemon(r) \in Procs
    BY ProcOf
  <2>2. CASE Serves(r)
    BY <2>1, <2>2 DEF Serves, ProcType, ProcRecord, ProcAts
  <2>3. CASE ServesLate(r)
    <3>1. "serving" \in ProcAts
      BY DEF ProcAts
    <3> QED BY <1>a, <1>b, <2>1, <2>3, <3>1 DEF ServesLate
  <2>4. CASE ChildFails(r)
    BY <1>a, <1>b, <2>1, <2>4 DEF ChildFails
  <2> QED BY <1>7, <2>2, <2>3, <2>4, FuseCases
<1> QED BY <1>1, <1>2, <1>3, <1>4, <1>5, <1>6, <1>7 DEF RunnerStep

\* What a process may become, for DaemonLate and FlagsTell to stay.
Early == {"none", "start", "import", "create", "mount"}
MayBecome(p, rec) ==
  /\ rec \in ProcRecord /\ rec.mp = rec.created
  /\ rec.at \in {"none", "start", "import", "create", "over"} => ~rec.created
  /\ rec.mounted => rec.at \in {"ready", "wait", "umount"}
  /\ p[1] = "header" => rec.at \notin {"serving", "fuse", "reap"} /\ (rec.at \in Early => proc[Daemon(p[2])].at = "none")
  /\ p[1] = "daemon" => /\ rec.at \notin {"start", "import", "create", "mount", "reap", "raw", "fuse"}
                        /\ proc[Header(p[2])].at \notin Early

\* A process that becomes what it may keeps the daemons late and the flags telling.
LEMMA MoveKeeps ==
  ASSUME NEW p \in Procs, NEW rec, ProcType, DaemonLate, FlagsTell, MayBecome(p, rec), To(p, rec)
  PROVE  DaemonLate' /\ FlagsTell'
<1>1. ASSUME NEW q \in Procs PROVE proc'[q] = IF q = p THEN rec ELSE proc[q]
  BY DEF To, ProcType
<1>2. FlagsTell'
  BY <1>1 DEF FlagsTell, MayBecome
<1>3. ASSUME NEW r \in Runs
      PROVE  /\ proc'[Daemon(r)].at \notin {"start", "import", "create", "mount", "reap", "raw"}
             /\ proc'[Header(r)].at \notin {"serving", "fuse"}
             /\ proc'[Header(r)].at \in Early => proc'[Daemon(r)].at = "none"
             /\ proc'[Header(r)].at = "reap" /\ proc'[Daemon(r)].at = "fuse" => proc'[Header(r)].mp = proc'[Daemon(r)].mp
  <2>1. Header(r) \in Procs /\ Daemon(r) \in Procs /\ Header(r) # Daemon(r)
        /\ Header(r)[1] = "header" /\ Header(r)[2] = r /\ Daemon(r)[1] = "daemon" /\ Daemon(r)[2] = r
    BY ProcOf
  <2>2. /\ proc[Daemon(r)].at \notin {"start", "import", "create", "mount", "reap", "raw"}
        /\ proc[Header(r)].at \notin {"serving", "fuse"}
        /\ proc[Header(r)].at \in Early => proc[Daemon(r)].at = "none"
        /\ proc[Header(r)].at = "reap" /\ proc[Daemon(r)].at = "fuse" => proc[Header(r)].mp = proc[Daemon(r)].mp
    BY DEF DaemonLate, Early
  <2>3. proc'[Header(r)] = (IF Header(r) = p THEN rec ELSE proc[Header(r)])
        /\ proc'[Daemon(r)] = (IF Daemon(r) = p THEN rec ELSE proc[Daemon(r)])
    BY <1>1, <2>1
  <2>4. CASE p = Header(r)
    <3>1. rec.at \notin {"serving", "fuse", "reap"} /\ (rec.at \in Early => proc[Daemon(r)].at = "none")
      BY <2>1, <2>4 DEF MayBecome
    <3> QED BY ONLY <2>1, <2>2, <2>3, <2>4, <3>1
  <2>5. CASE p = Daemon(r)
    <3>1. rec.at \notin {"start", "import", "create", "mount", "reap", "raw", "fuse"} /\ proc[Header(r)].at \notin Early
      BY <2>1, <2>5 DEF MayBecome
    <3> QED BY ONLY <2>1, <2>2, <2>3, <2>5, <3>1
  <2>6. CASE p # Header(r) /\ p # Daemon(r)
    BY ONLY <2>2, <2>3, <2>6
  <2> QED BY <2>4, <2>5, <2>6
<1> QED BY <1>2, <1>3 DEF DaemonLate, Early

\* Where a process is, with the flags it has, for the one that moves.
LEMMA Standing ==
  ASSUME NEW p \in Procs, ProcType, DaemonLate, FlagsTell
  PROVE  /\ proc[p] \in ProcRecord /\ proc[p].mp = proc[p].created
         /\ proc[p].at \in {"none", "start", "import", "create", "over"} => ~proc[p].created
         /\ proc[p].mounted => proc[p].at \in {"ready", "wait", "umount"}
         /\ p[1] = "header" => proc[p].at \notin {"serving", "fuse"} /\ (proc[p].at \in Early => proc[Daemon(p[2])].at = "none")
         /\ p[1] = "daemon" => /\ proc[p].at \notin {"start", "import", "create", "mount", "reap", "raw"}
                               /\ proc[p].at # "none" => proc[Header(p[2])].at \notin Early
         /\ proc[p].at \in {"start", "import", "create", "mount", "reap", "raw"} => p[1] = "header"
BY ProcIs DEF ProcType, DaemonLate, FlagsTell, Early

\* A daemon comes only after its header's mount, and the flags of a process tell what it has done.
LEMMA DaemonLateKeeps ==
  ASSUME ProcType, DaemonLate, FlagsTell, RunnerStep
  PROVE  DaemonLate' /\ FlagsTell'
<1>0. ASSUME UNCHANGED proc PROVE DaemonLate' /\ FlagsTell'
  BY <1>0 DEF DaemonLate, FlagsTell
<1>1. ASSUME NEW r \in Runs, NEW what \in {"run", "extract"}, Launch(r, what) PROVE DaemonLate' /\ FlagsTell'
  <2> DEFINE rec == [NoProc EXCEPT !.at = "start", !.what = what]
  <2>1. Header(r) \in Procs /\ Header(r)[1] = "header" /\ Header(r)[2] = r
    BY ProcOf
  <2>2. To(Header(r), rec) /\ proc[Header(r)].at = "none"
    BY <1>1 DEF Launch, Header
  <2>3. MayBecome(Header(r), rec)
    BY <2>1, <2>2, Standing DEF MayBecome, ProcRecord, ProcAts, NoProc, Early
  <2> HIDE DEF rec
  <2> QED BY <2>1, <2>2, <2>3, MoveKeeps
<1>2. ASSUME NEW p \in Procs, Process(p) PROVE DaemonLate' /\ FlagsTell'
  <2>0. /\ proc[p] \in ProcRecord /\ proc[p].mp = proc[p].created
        /\ proc[p].at \in {"none", "start", "import", "create", "over"} => ~proc[p].created
        /\ proc[p].mounted => proc[p].at \in {"ready", "wait", "umount"}
        /\ p[1] = "header" => proc[p].at \notin {"serving", "fuse"} /\ (proc[p].at \in Early => proc[Daemon(p[2])].at = "none")
        /\ p[1] = "daemon" => /\ proc[p].at \notin {"start", "import", "create", "mount", "reap", "raw"}
                              /\ proc[p].at # "none" => proc[Header(p[2])].at \notin Early
        /\ proc[p].at \in {"start", "import", "create", "mount", "reap", "raw"} => p[1] = "header"
    BY Standing
  <2>a. ASSUME NEW a \in {"import", "create", "raw", "wait", "umount"}, To(p, [proc[p] EXCEPT !.at = a]),
               a \in {"import", "create"} => proc[p].at = "start",
               a = "raw" => proc[p].at = "mount",
               a = "umount" \/ a = "wait" => proc[p].at \in {"create", "mount", "reap", "ready", "wait"}
        PROVE  DaemonLate' /\ FlagsTell'
    <3> DEFINE rec == [proc[p] EXCEPT !.at = a]
    <3>1. MayBecome(p, rec)
      <4>1. rec \in ProcRecord
        BY <2>0, <2>a DEF ProcRecord, ProcAts
      <4>2. rec.at = a /\ rec.mp = proc[p].mp /\ rec.created = proc[p].created /\ rec.mounted = proc[p].mounted
        BY <2>0 DEF ProcRecord
      <4> HIDE DEF rec
      <4> QED BY <2>0, <2>a, <4>1, <4>2 DEF MayBecome, Early
    <3> HIDE DEF rec
    <3> QED BY <2>a, <3>1, MoveKeeps DEF rec
  <2>b. ASSUME To(p, Over), proc[p].at # "none" PROVE DaemonLate' /\ FlagsTell'
    <3>1. MayBecome(p, Over)
      BY <2>0, <2>b DEF MayBecome, Over, NoProc, ProcRecord, ProcAts, Early
    <3> QED BY <2>b, <3>1, MoveKeeps
  <2>1. CASE main(p)
    BY <2>1, <2>a, <2>b DEF main, detectLinglong
  <2>2. CASE importSelf(p)
    BY <2>2, <2>b, <1>0 DEF importSelf
  <2>3. CASE createMountPoint(p)
    <3>0. CASE To(p, cleanAndExit(p))
      BY <2>3, <3>0, <2>a DEF createMountPoint, cleanAndExit
    <3> SUFFICES ASSUME ~To(p, cleanAndExit(p)) PROVE DaemonLate' /\ FlagsTell'
      BY <3>0
    <3>1. PICK b \in BOOLEAN : To(p, [proc[p] EXCEPT !.at = "mount", !.mp = b, !.created = b])
      BY <2>3, (~dir) \in BOOLEAN DEF createMountPoint
    <3> DEFINE rec == [proc[p] EXCEPT !.at = "mount", !.mp = b, !.created = b]
    <3>2. rec \in ProcRecord /\ rec.at = "mount" /\ rec.mp = b /\ rec.created = b /\ rec.mounted = proc[p].mounted
      BY <2>0 DEF ProcRecord, ProcAts
    <3>3. proc[p].at = "create"
      BY <2>3 DEF createMountPoint
    <3>4. To(p, rec)
      BY <3>1
    <3> HIDE DEF rec
    <3>5. MayBecome(p, rec)
      BY <2>0, <3>2, <3>3 DEF MayBecome, Early
    <3> QED BY <3>4, <3>5, MoveKeeps
  <2>5. CASE mountSelf(p)
    <3> DEFINE rec == [proc[p] EXCEPT !.at = "ready", !.mounted = TRUE]
    <3>2. rec \in ProcRecord /\ rec.at = "ready" /\ rec.mp = proc[p].mp /\ rec.created = proc[p].created
      BY <2>0 DEF ProcRecord, ProcAts
    <3>4. To(p, rec) /\ proc[p].at = "raw"
      BY <2>5 DEF mountSelf
    <3> HIDE DEF rec
    <3>5. MayBecome(p, rec)
      BY <2>0, <3>2, <3>4 DEF MayBecome, Early
    <3> QED BY <3>4, <3>5, MoveKeeps
  <2>6. CASE extractBundle(p)
    BY <2>6, <2>a DEF extractBundle, cleanAndExit
  <2>7. CASE runAppLoader(p)
    BY <2>7, <2>a DEF runAppLoader, cleanAndExit
  <2>8. CASE waitLoader(p)
    BY <2>8, <2>a DEF waitLoader, cleanAndExit
  <2>9. CASE umount(p)
    <3> DEFINE rec == [proc[p] EXCEPT !.at = "remove", !.mounted = FALSE]
    <3>1. CASE To(p, rec)
      <4>2. rec \in ProcRecord /\ rec.at = "remove" /\ rec.mp = proc[p].mp /\ rec.created = proc[p].created /\ rec.mounted = FALSE
        BY <2>0 DEF ProcRecord, ProcAts
      <4>3. proc[p].at = "umount"
        BY <2>9 DEF umount
      <4>4. To(p, rec)
        BY <3>1
      <4> HIDE DEF rec
      <4>5. MayBecome(p, rec)
        BY <2>0, <4>2, <4>3 DEF MayBecome, Early
      <4> QED BY <4>4, <4>5, MoveKeeps
    <3> QED BY <2>9, <3>1, <2>b, UmountCases DEF UmountDone, UmountNot
  <2>10. CASE cleanResource(p)
    BY <2>10, <2>b DEF cleanResource
  <2>11. CASE childCleans(p)
    BY <2>11, <1>0 DEF childCleans
  <2>4. CASE mountSelfBundle(p)
    <3>1. CASE NoChild(p) \/ NotOpened(p)
      BY <3>1, <2>a DEF NoChild, NotOpened, cleanAndExit
    <3>2. ASSUME proc[p].at = "mount",
                 proc' = [proc EXCEPT ![p].at = "reap", ![Daemon(p[2])] = [proc[p] EXCEPT !.at = "fuse"]]
          PROVE  DaemonLate' /\ FlagsTell'
      <4>1. p = Header(p[2]) /\ p[2] \in Runs
        BY <2>0, <3>2, ProcIs
      <4>2. /\ Daemon(p[2]) \in Procs /\ Daemon(p[2]) # p
            /\ \A s \in Runs : s # p[2] => Daemon(s) # Daemon(p[2]) /\ Header(s) # p
            /\ \A s \in Runs : /\ Header(s) \in Procs /\ Daemon(s) \in Procs
                               /\ Header(s) # Daemon(p[2]) /\ Daemon(s) # p
        BY <4>1, ProcOf
      <4> DEFINE h == [proc[p] EXCEPT !.at = "reap"]
                 d == [proc[p] EXCEPT !.at = "fuse"]
      <4>3. /\ h.at = "reap" /\ h.mp = proc[p].mp /\ h.created = proc[p].created /\ h.mounted = proc[p].mounted
            /\ d.at = "fuse" /\ d.mp = proc[p].mp /\ d.created = proc[p].created /\ d.mounted = proc[p].mounted
        BY <2>0 DEF ProcRecord
      <4>4. /\ proc'[p] = h /\ proc'[Daemon(p[2])] = d
            /\ \A q \in Procs : q # p /\ q # Daemon(p[2]) => proc'[q] = proc[q]
        BY <3>2, <4>2 DEF ProcType
      <4> HIDE DEF h, d
      <4>5. FlagsTell'
        <5> SUFFICES ASSUME NEW q \in Procs
                     PROVE  /\ proc'[q].mp = proc'[q].created
                            /\ proc'[q].at \in {"none", "start", "import", "create", "over"} => ~proc'[q].created
                            /\ proc'[q].mounted => proc'[q].at \in {"ready", "wait", "umount"}
          BY DEF FlagsTell
        <5>1. ~proc[p].mounted
          BY <2>0, <3>2
        <5>2. CASE q = p
          BY <2>0, <3>2, <4>3, <4>4, <5>1, <5>2
        <5>3. CASE q = Daemon(p[2])
          BY <2>0, <3>2, <4>3, <4>4, <5>1, <5>3
        <5>4. CASE q # p /\ q # Daemon(p[2])
          BY <4>4, <5>4 DEF FlagsTell
        <5> QED BY <5>2, <5>3, <5>4
      <4>6. DaemonLate'
        <5> SUFFICES ASSUME NEW r \in Runs
                     PROVE  /\ proc'[Daemon(r)].at \notin {"start", "import", "create", "mount", "reap", "raw"}
                            /\ proc'[Header(r)].at \notin {"serving", "fuse"}
                            /\ proc'[Header(r)].at \in {"none", "start", "import", "create", "mount"} => proc'[Daemon(r)].at = "none"
                            /\ proc'[Header(r)].at = "reap" /\ proc'[Daemon(r)].at = "fuse" => proc'[Header(r)].mp = proc'[Daemon(r)].mp
          BY DEF DaemonLate
        <5>1. CASE r = p[2]
          BY <3>2, <4>1, <4>3, <4>4, <5>1
        <5>2. CASE r # p[2]
          <6>1. proc'[Header(r)] = proc[Header(r)] /\ proc'[Daemon(r)] = proc[Daemon(r)]
            BY <4>2, <4>4, <5>2
          <6> QED BY <6>1 DEF DaemonLate
        <5> QED BY <5>1, <5>2
      <4> QED BY <4>5, <4>6
    <3>3. CASE Forks(p)
      BY <3>2, <3>3 DEF Forks
    <3> QED BY <2>4, <3>1, <3>3, MountCases
  <2> QED BY <1>2, <2>1, <2>2, <2>3, <2>4, <2>5, <2>6, <2>7, <2>8, <2>9, <2>10, <2>11 DEF Process
<1>3. ASSUME NEW p \in Procs, NEW c \in Copies,
             Loader(p, c) \/ loaderSignal(p, c) \/ \E code \in {"zero", "failed"} : boxEnds(p, c, code)
      PROVE  DaemonLate' /\ FlagsTell'
  BY <1>3, <1>0 DEF Loader, makeBundle, applyPatches, startBox, loaderSignal, boxEnds
<1>4. ASSUME NEW r \in Runs, Manager(r) PROVE DaemonLate' /\ FlagsTell'
  BY <1>4, <1>0 DEF Manager, verify, mountUab, extractSignData, unloadUab
<1>5. ASSUME NEW r \in Runs, erofsfuse_main(r) PROVE DaemonLate' /\ FlagsTell'
  <2> DEFINE rec == [proc[Daemon(r)] EXCEPT !.at = "ready", !.mounted = TRUE]
  <2>1. Daemon(r) \in Procs /\ Daemon(r)[1] = "daemon" /\ Daemon(r)[2] = r
    BY ProcOf
  <2>2. To(Daemon(r), rec) /\ proc[Daemon(r)].at = "serving"
    BY <1>5 DEF erofsfuse_main, Daemon
  <2>3. /\ proc[Daemon(r)] \in ProcRecord /\ proc[Daemon(r)].mp = proc[Daemon(r)].created /\ proc[Header(r)].at \notin Early
    BY <2>1, <2>2, Standing
  <2>4. rec \in ProcRecord /\ rec.at = "ready" /\ rec.mp = proc[Daemon(r)].mp /\ rec.created = proc[Daemon(r)].created
    BY <2>3 DEF ProcRecord, ProcAts
  <2> HIDE DEF rec
  <2>5. MayBecome(Daemon(r), rec)
    BY <2>1, <2>3, <2>4 DEF MayBecome
  <2> QED BY <2>1, <2>2, <2>5, MoveKeeps
<1>6. ASSUME NEW r \in Runs, handleSig(r) PROVE DaemonLate' /\ FlagsTell'
  <2> DEFINE rec == [proc[Header(r)] EXCEPT !.at = "umount"]
  <2>1. Header(r) \in Procs /\ Header(r)[1] = "header" /\ Header(r)[2] = r
    BY ProcOf
  <2>2. To(Header(r), rec)
    BY <1>6 DEF handleSig, Header, cleanAndExit
  <2>3. proc[Header(r)] \in ProcRecord /\ proc[Header(r)].mp = proc[Header(r)].created
    BY <2>1, Standing
  <2>4. rec \in ProcRecord /\ rec.at = "umount" /\ rec.mp = proc[Header(r)].mp /\ rec.created = proc[Header(r)].created
    BY <2>3 DEF ProcRecord, ProcAts
  <2> HIDE DEF rec
  <2>5. MayBecome(Header(r), rec)
    BY <2>1, <2>3, <2>4 DEF MayBecome, Early
  <2> QED BY <2>1, <2>2, <2>5, MoveKeeps
<1>7. ASSUME NEW r \in Runs, HeaderKilled(r) PROVE DaemonLate' /\ FlagsTell'
  <2>1. Header(r) \in Procs /\ Header(r)[1] = "header" /\ Header(r)[2] = r
    BY ProcOf
  <2>2. To(Header(r), Over)
    BY <1>7 DEF HeaderKilled, Header
  <2>3. MayBecome(Header(r), Over)
    BY <2>1 DEF MayBecome, Over, NoProc, ProcRecord, ProcAts, Early
  <2> QED BY <2>1, <2>2, <2>3, MoveKeeps
<1>8. ASSUME NEW r \in Runs, fuseMounts(r) PROVE DaemonLate' /\ FlagsTell'
  <2>1. Header(r) \in Procs /\ Daemon(r) \in Procs /\ Header(r) # Daemon(r) /\ Daemon(r)[1] = "daemon" /\ Daemon(r)[2] = r
    BY ProcOf
  <2>2. proc[Daemon(r)].at = "fuse"
    BY <1>8, FuseCases
  <2>3. /\ proc[Daemon(r)] \in ProcRecord /\ proc[Daemon(r)].mp = proc[Daemon(r)].created /\ ~proc[Daemon(r)].mounted
        /\ proc[Header(r)].at \notin Early
    BY <2>1, <2>2, Standing
  <2>4. ASSUME NEW a \in {"serving", "umount"}, To(Daemon(r), [proc[Daemon(r)] EXCEPT !.at = a]) PROVE DaemonLate' /\ FlagsTell'
    <3> DEFINE rec == [proc[Daemon(r)] EXCEPT !.at = a]
    <3>1. /\ rec \in ProcRecord /\ rec.at = a /\ rec.mp = proc[Daemon(r)].mp
          /\ rec.created = proc[Daemon(r)].created /\ rec.mounted = proc[Daemon(r)].mounted
      BY <2>3 DEF ProcRecord, ProcAts
    <3>2. To(Daemon(r), rec)
      BY <2>4
    <3> HIDE DEF rec
    <3>3. MayBecome(Daemon(r), rec)
      BY <2>1, <2>3, <3>1 DEF MayBecome
    <3> QED BY <2>1, <3>2, <3>3, MoveKeeps
  <2>5. CASE Serves(r)
    <3>1. proc[Header(r)] \in ProcRecord /\ proc[Header(r)].mp = proc[Header(r)].created /\ proc[Header(r)].at = "reap" /\ ~proc[Header(r)].mounted
      BY <2>1, <2>5, Standing DEF Serves
    <3> DEFINE h == [proc[Header(r)] EXCEPT !.at = "raw"]
               d == [proc[Daemon(r)] EXCEPT !.at = "serving"]
    <3>2. /\ h.at = "raw" /\ h.mp = proc[Header(r)].mp /\ h.created = proc[Header(r)].created /\ h.mounted = proc[Header(r)].mounted
          /\ d.at = "serving" /\ d.mp = proc[Daemon(r)].mp /\ d.created = proc[Daemon(r)].created /\ d.mounted = proc[Daemon(r)].mounted
      BY <2>3, <3>1 DEF ProcRecord
    <3>3. /\ proc'[Header(r)] = h /\ proc'[Daemon(r)] = d
          /\ \A q \in Procs : q # Header(r) /\ q # Daemon(r) => proc'[q] = proc[q]
      BY <2>1, <2>5 DEF Serves, ProcType
    <3> HIDE DEF h, d
    <3>4. FlagsTell'
      <4> SUFFICES ASSUME NEW q \in Procs
                   PROVE  /\ proc'[q].mp = proc'[q].created
                          /\ proc'[q].at \in {"none", "start", "import", "create", "over"} => ~proc'[q].created
                          /\ proc'[q].mounted => proc'[q].at \in {"ready", "wait", "umount"}
        BY DEF FlagsTell
      <4>1. CASE q = Header(r)
        BY <3>1, <3>2, <3>3, <4>1
      <4>2. CASE q = Daemon(r)
        BY <2>3, <3>2, <3>3, <4>2
      <4>3. CASE q # Header(r) /\ q # Daemon(r)
        BY <3>3, <4>3 DEF FlagsTell
      <4> QED BY <4>1, <4>2, <4>3
    <3>5. DaemonLate'
      <4> SUFFICES ASSUME NEW s \in Runs
                   PROVE  /\ proc'[Daemon(s)].at \notin {"start", "import", "create", "mount", "reap", "raw"}
                          /\ proc'[Header(s)].at \notin {"serving", "fuse"}
                          /\ proc'[Header(s)].at \in {"none", "start", "import", "create", "mount"} => proc'[Daemon(s)].at = "none"
                          /\ proc'[Header(s)].at = "reap" /\ proc'[Daemon(s)].at = "fuse" => proc'[Header(s)].mp = proc'[Daemon(s)].mp
        BY DEF DaemonLate
      <4>1. CASE s = r
        BY <3>2, <3>3, <4>1
      <4>2. CASE s # r
        <5>1. proc'[Header(s)] = proc[Header(s)] /\ proc'[Daemon(s)] = proc[Daemon(s)]
          BY <3>3, <4>2, ProcOf
        <5> QED BY <5>1 DEF DaemonLate
      <4> QED BY <4>1, <4>2
    <3> QED BY <3>4, <3>5
  <2> QED BY <1>8, <2>4, <2>5, FuseCases DEF ServesLate, ChildFails, cleanAndExit
<1> QED BY <1>1, <1>2, <1>3, <1>4, <1>5, <1>6, <1>7, <1>8 DEF RunnerStep

\* The types of the loaders and of what is mounted.
LEMMA LoaderMoves ==
  ASSUME NEW p \in Procs, NEW c \in Copies, LoaderType,
         \/ \E at \in LoaderAts : ldr' = [ldr EXCEPT ![p][c].at = at]
         \/ \E code \in {"none", "zero", "failed"} : LoaderEnds(p, c, code)
         \/ ldr' = [ldr EXCEPT ![p][1].at = "patched", ![p][2] = [ldr[p][1] EXCEPT !.at = "patched"]],
         bundle' = bundle \/ \E b \in BOOLEAN : bundle' = [bundle EXCEPT ![p] = b]
  PROVE  LoaderType'
<1>0. bundle' \in [Procs -> BOOLEAN]
  BY DEF LoaderType
<1>1. ASSUME NEW rec \in LoaderRecord, ldr' = [ldr EXCEPT ![p][c] = rec] PROVE ldr' \in [Procs -> [Copies -> LoaderRecord]]
  BY <1>1 DEF LoaderType
<1>2. ASSUME NEW at \in LoaderAts, ldr' = [ldr EXCEPT ![p][c].at = at] PROVE ldr' \in [Procs -> [Copies -> LoaderRecord]]
  <2>1. ldr[p][c] \in LoaderRecord
    BY DEF LoaderType
  <2>2. [ldr[p][c] EXCEPT !.at = at] \in LoaderRecord
    BY <2>1 DEF LoaderRecord
  <2>3. ldr' = [ldr EXCEPT ![p][c] = [ldr[p][c] EXCEPT !.at = at]]
    BY <1>2
  <2> QED BY <1>1, <2>2, <2>3
<1>3. ASSUME NEW code \in {"none", "zero", "failed"}, LoaderEnds(p, c, code) PROVE ldr' \in [Procs -> [Copies -> LoaderRecord]]
  <2>1. [at |-> "over", from |-> Nothing, code |-> code] \in LoaderRecord
    BY DEF LoaderRecord, LoaderAts
  <2> QED BY <1>1, <1>3, <2>1 DEF LoaderEnds
<1>4. ASSUME ldr' = [ldr EXCEPT ![p][1].at = "patched", ![p][2] = [ldr[p][1] EXCEPT !.at = "patched"]]
      PROVE  ldr' \in [Procs -> [Copies -> LoaderRecord]]
  <2> DEFINE rec == [ldr[p][1] EXCEPT !.at = "patched"]
  <2>1. 1 \in Copies /\ 2 \in Copies /\ ldr[p][1] \in LoaderRecord
    BY DEF LoaderType, Copies
  <2>2. rec \in LoaderRecord
    BY <2>1 DEF LoaderRecord, LoaderAts
  <2>3. ldr' = [ldr EXCEPT ![p] = [ldr[p] EXCEPT ![1] = rec, ![2] = rec]]
    BY <1>4
  <2> HIDE DEF rec
  <2> QED BY <2>1, <2>2, <2>3 DEF LoaderType
<1> QED BY <1>0, <1>2, <1>3, <1>4 DEF LoaderType

\* The type of the loaders and their bundles.
LEMMA LoaderTypeKeeps == ASSUME LoaderType, MountType, RunnerStep PROVE LoaderType'
<1>0. ASSUME UNCHANGED <<ldr, bundle>> PROVE LoaderType'
  BY <1>0 DEF LoaderType
<1>1. ASSUME NEW r \in Runs, NEW what \in {"run", "extract"}, Launch(r, what) PROVE LoaderType'
  BY <1>1, <1>0 DEF Launch
<1>2. ASSUME NEW p \in Procs, Process(p) PROVE LoaderType'
  <2>1. CASE runAppLoader(p)
    <3>0. [at |-> "umount", from |-> Nothing, code |-> "failed"] \in LoaderRecord
      BY DEF LoaderRecord, LoaderAts
    <3>a. mnt # <<>> => [at |-> "look", from |-> Last(mnt), code |-> "none"] \in LoaderRecord
      BY FrontIs DEF LoaderRecord, LoaderAts, MountType
    <3>1. PICK rec \in LoaderRecord : ldr' = [ldr EXCEPT ![p][1] = rec] \/ ldr' = ldr
      BY <2>1, <3>0, <3>a DEF runAppLoader
    <3>2. bundle' = bundle
      BY <2>1 DEF runAppLoader
    <3> QED BY <3>1, <3>2 DEF LoaderType, Copies
  <2>2. CASE childCleans(p)
    BY <2>2, LoaderMoves DEF childCleans, Copies, LoaderAts
  <2>3. CASE mountSelfBundle(p)
    BY <2>3, <1>0, MountCases
  <2>4. CASE umount(p)
    BY <2>4, <1>0, UmountCases
  <2> QED BY <1>2, <1>0, <2>1, <2>2, <2>3, <2>4
        DEF Process, main, importSelf, createMountPoint, mountSelf, extractBundle, waitLoader, cleanResource
<1>3. ASSUME NEW p \in Procs, NEW c \in Copies, Loader(p, c) PROVE LoaderType'
  BY <1>3, LoaderMoves DEF Loader, makeBundle, applyPatches, startBox, LoaderTo, LoaderAts
<1>4. ASSUME NEW p \in Procs, NEW c \in Copies, loaderSignal(p, c) PROVE LoaderType'
  BY <1>4, LoaderMoves DEF loaderSignal
<1>5. ASSUME NEW p \in Procs, NEW c \in Copies, NEW code \in {"zero", "failed"}, boxEnds(p, c, code) PROVE LoaderType'
  BY <1>5, LoaderMoves DEF boxEnds
<1>6. ASSUME NEW r \in Runs, Manager(r) \/ fuseMounts(r) \/ erofsfuse_main(r) \/ handleSig(r) \/ HeaderKilled(r) PROVE LoaderType'
  BY <1>6, <1>0, FuseCases DEF Manager, verify, mountUab, extractSignData, unloadUab, erofsfuse_main, handleSig, HeaderKilled
<1> QED BY <1>1, <1>2, <1>3, <1>4, <1>5, <1>6 DEF RunnerStep

\* What is unmounted is the image on top; what is removed is the mount point.
LEMMA UnmountsType ==
  ASSUME NEW p \in Procs, MountType, Unmounts(p)
  PROVE  mnt' \in Seq(Runs) /\ hit' \in BOOLEAN
<1>1. mnt' = mnt \/ (mnt # <<>> /\ mnt' = Front(mnt))
  BY DEF Unmounts
<1>2. hit' \in BOOLEAN
  BY DEF Unmounts, MountType
<1> QED BY <1>1, <1>2, FrontIs DEF MountType

\* The type of the mount point, its mounts and the history.
LEMMA MountTypeKeeps == ASSUME MountType, RunnerStep PROVE MountType'
<1>0. ASSUME UNCHANGED <<dir, mnt, left, hit>> PROVE MountType'
  BY <1>0 DEF MountType
<1>1. ASSUME NEW r \in Runs, NEW what \in {"run", "extract"}, Launch(r, what) PROVE MountType'
  BY <1>1, <1>0 DEF Launch
<1>2. ASSUME NEW p \in Procs, Process(p) PROVE MountType'
  <2>1. CASE mountSelfBundle(p)
    BY <2>1, MountCases DEF Forks, NoChild, NotOpened, MountType
  <2>2. CASE umount(p)
    <3>1. CASE UmountDone(p)
      BY <2>2, <3>1, UmountCases, UnmountsType DEF UmountDone, MountType
    <3>2. CASE UmountNot(p)
      BY <2>2, <3>2, UmountCases DEF UmountNot, MountType
    <3> QED BY <2>2, <3>1, <3>2, UmountCases
  <2>3. CASE cleanResource(p)
    BY <2>3 DEF cleanResource, Removes, MountType
  <2>4. CASE childCleans(p)
    <3>1. CASE Unmounts(p) /\ dir' = dir /\ left' = left
      BY <3>1, UnmountsType DEF MountType
    <3>2. CASE Removes(p) /\ mnt' = mnt /\ left' = left
      BY <3>2 DEF Removes, MountType
    <3> QED BY <2>4, <3>1, <3>2 DEF childCleans
  <2>5. CASE createMountPoint(p)
    BY <2>5 DEF createMountPoint, MountType
  <2> QED BY <1>2, <1>0, <2>1, <2>2, <2>3, <2>4, <2>5
        DEF Process, main, importSelf, mountSelf, extractBundle, runAppLoader, waitLoader
<1>3. ASSUME NEW p \in Procs, NEW c \in Copies,
             Loader(p, c) \/ loaderSignal(p, c) \/ \E code \in {"zero", "failed"} : boxEnds(p, c, code)
      PROVE  MountType'
  BY <1>3, <1>0 DEF Loader, makeBundle, applyPatches, startBox, loaderSignal, boxEnds
<1>4. ASSUME NEW r \in Runs, Manager(r) \/ erofsfuse_main(r) PROVE MountType'
  BY <1>4, <1>0 DEF Manager, verify, mountUab, extractSignData, unloadUab, erofsfuse_main
<1>5. ASSUME NEW r \in Runs, handleSig(r) \/ HeaderKilled(r) PROVE MountType'
  BY <1>5 DEF handleSig, HeaderKilled, MountType
<1>6. ASSUME NEW r \in Runs, fuseMounts(r) PROVE MountType'
  <2>1. mnt' = Append(mnt, r) \/ mnt' = mnt
    BY <1>6, FuseCases DEF Serves, ServesLate, ChildFails
  <2>2. Append(mnt, r) \in Seq(Runs) /\ mnt \in Seq(Runs)
    BY DEF MountType
  <2>3. mnt' \in Seq(Runs)
    BY <2>1, <2>2
  <2>4. dir' = dir /\ (left' = left \/ left' = TRUE) /\ hit' \in BOOLEAN
    BY <1>6, FuseCases DEF Serves, ServesLate, ChildFails, MountType
  <2> QED BY <2>3, <2>4 DEF MountType
<1> QED BY <1>1, <1>2, <1>3, <1>4, <1>5, <1>6 DEF RunnerStep

\* The installations of ll-package-manager: each adds the image it mounts and takes it away,
\* or is over with its umount failed.
LEMMA ManagerKeeps ==
  ASSUME ManagerType, ManagerCounts, RunnerStep
  PROVE  ManagerType' /\ ManagerCounts'
<1>0. ASSUME UNCHANGED <<imp, pm, lost, pmDir>> PROVE ManagerType' /\ ManagerCounts'
  BY <1>0 DEF ManagerType, ManagerCounts, Installing, Ended
<1>a. ASSUME NEW r \in Runs, NEW to \in {"none", "verify", "mount", "layers", "unload", "zero", "failed"},
             imp' = [imp EXCEPT ![r] = to]
      PROVE  /\ ManagerType'
             /\ Installing' = IF to \in {"layers", "unload"} THEN Installing \cup {r} ELSE Installing \ {r}
             /\ Ended' = IF to \in {"zero", "failed"} THEN Ended \cup {r} ELSE Ended \ {r}
  BY <1>a DEF ManagerType, Installing, Ended
<1>b. /\ IsFiniteSet(Installing) /\ Cardinality(Installing) \in Nat
      /\ IsFiniteSet(Ended) /\ Cardinality(Ended) \in Nat
  <2>1. Installing \subseteq Runs /\ Ended \subseteq Runs
    BY DEF Installing, Ended
  <2> QED BY <2>1, PacksKnown, FS_Subset, FS_CardinalityType
<1>c. \A r \in Runs : (r \in Installing <=> imp[r] \in {"layers", "unload"}) /\ (r \in Ended <=> imp[r] \in {"zero", "failed"})
  BY DEF Installing, Ended
<1>o. /\ pm = Cardinality(Installing) + lost /\ lost \in Nat /\ lost <= Cardinality(Ended)
      /\ pmDir \in BOOLEAN /\ (pm > 0 => pmDir)
  BY DEF ManagerCounts
\* The installation that ends is one more of those that are over.
<1>e. ASSUME NEW r \in Runs, r \notin Ended, Ended' = Ended \cup {r} PROVE Cardinality(Ended') = Cardinality(Ended) + 1
  BY <1>b, <1>e, FS_AddElement
\* The step stays outside, or inside, of the installing.
<1>d. ASSUME NEW r \in Runs, NEW to \in {"none", "verify", "mount", "layers", "unload", "zero", "failed"},
             imp' = [imp EXCEPT ![r] = to], pm' = pm, lost' = lost, pmDir' = pmDir \/ pmDir' = TRUE, r \notin Ended,
             r \in Installing <=> to \in {"layers", "unload"}
      PROVE  ManagerType' /\ ManagerCounts'
  <2>0. /\ Installing' = IF to \in {"layers", "unload"} THEN Installing \cup {r} ELSE Installing \ {r}
        /\ Ended' = IF to \in {"zero", "failed"} THEN Ended \cup {r} ELSE Ended \ {r}
    BY <1>d, <1>a
  <2>1. Installing' = Installing
    BY <1>d, <2>0
  <2>2. Cardinality(Ended') = Cardinality(Ended) \/ Cardinality(Ended') = Cardinality(Ended) + 1
    <3>1. Ended' = Ended \/ Ended' = Ended \cup {r}
      BY <1>d, <2>0
    <3> QED BY <1>d, <1>e, <3>1
  <2>3. lost' <= Cardinality(Ended')
    BY <1>b, <1>d, <1>o, <2>2
  <2>4. pm' = Cardinality(Installing') + lost' /\ lost' \in Nat
    BY <1>d, <1>o, <2>1
  <2>5. pmDir' \in BOOLEAN /\ (pm' > 0 => pmDir')
    BY <1>d, <1>o
  <2>6. ManagerType'
    BY <1>a, <1>d
  <2> QED BY <2>3, <2>4, <2>5, <2>6, Zenon DEF ManagerCounts
<1>1. ASSUME NEW r \in Runs, NEW what \in {"run", "extract"}, Launch(r, what) PROVE ManagerType' /\ ManagerCounts'
  BY <1>1, <1>0 DEF Launch, manager
<1>2. ASSUME NEW p \in Procs, Process(p) PROVE ManagerType' /\ ManagerCounts'
  <2>1. CASE importSelf(p)
    <3>1. p[2] \in Runs /\ pm' = pm /\ lost' = lost /\ pmDir' = pmDir
      BY <2>1, ProcIs DEF importSelf
    <3>2. CASE imp[p[2]] = "none" /\ imp' = [imp EXCEPT ![p[2]] = "verify"]
      BY <3>1, <3>2, <1>c, <1>d
    <3> QED BY <2>1, <3>1, <3>2, <1>0 DEF importSelf
  <2>2. CASE mountSelfBundle(p)
    BY <2>2, <1>0, MountCases
  <2>3. CASE umount(p)
    BY <2>3, <1>0, UmountCases
  <2> QED BY <1>2, <1>0, <2>1, <2>2, <2>3 DEF Process, main, createMountPoint, mountSelf, extractBundle, runAppLoader,
                                             waitLoader, cleanResource, childCleans, manager
<1>3. ASSUME NEW p \in Procs, NEW c \in Copies,
             Loader(p, c) \/ loaderSignal(p, c) \/ \E code \in {"zero", "failed"} : boxEnds(p, c, code)
      PROVE  ManagerType' /\ ManagerCounts'
  BY <1>3, <1>0 DEF Loader, makeBundle, applyPatches, startBox, loaderSignal, boxEnds, manager
<1>4. ASSUME NEW r \in Runs, Manager(r) PROVE ManagerType' /\ ManagerCounts'
  <2>1. CASE verify(r)
    BY <2>1, <1>c, <1>d DEF verify, Manages
  <2>2. CASE mountUab(r)
    <3>0. lost' = lost
      BY <2>2 DEF mountUab
    <3>1. CASE imp[r] = "mount" /\ imp' = [imp EXCEPT ![r] = "layers"] /\ pm' = pm + 1 /\ pmDir' = TRUE
      <4>1. r \notin Installing /\ r \notin Ended
        BY <3>1, <1>c
      <4>2. ManagerType' /\ Installing' = Installing \cup {r} /\ Ended' = Ended
        <5>1. ManagerType' /\ Installing' = Installing \cup {r} /\ Ended' = Ended \ {r}
          BY <3>1, <1>a
        <5> QED BY <4>1, <5>1
      <4>3. Cardinality(Installing') = Cardinality(Installing) + 1
        BY <1>b, <4>1, <4>2, FS_AddElement
      <4>4. pm' = Cardinality(Installing') + lost'
        BY <1>b, <1>o, <3>0, <3>1, <4>3
      <4> QED BY <1>o, <3>0, <3>1, <4>2, <4>4 DEF ManagerCounts
    <3>2. CASE imp[r] = "mount" /\ imp' = [imp EXCEPT ![r] = "failed"] /\ pm' = pm /\ pmDir' \in {pmDir, TRUE}
      <4>1. r \notin Ended /\ r \notin Installing /\ (pmDir' = pmDir \/ pmDir' = TRUE)
        BY <3>2, <1>c
      <4> QED BY <3>0, <3>2, <4>1, <1>d
    <3> QED BY <2>2, <3>1, <3>2 DEF mountUab, Manages
  <2>3. CASE extractSignData(r)
    BY <2>3, <1>c, <1>d DEF extractSignData, Manages
  <2>4. CASE unloadUab(r)
    <3>1. PICK to \in {"zero", "failed"} : imp[r] = "unload" /\ imp' = [imp EXCEPT ![r] = to]
      BY <2>4 DEF unloadUab, Manages
    <3>2. pmDir' = pmDir /\ ((pm' = pm - 1 /\ lost' = lost) \/ (pm' = pm /\ lost' = lost + 1))
      BY <2>4 DEF unloadUab
    <3>3. r \in Installing /\ r \notin Ended
      BY <3>1, <1>c
    <3>4. Installing' = Installing \ {r} /\ Ended' = Ended \cup {r} /\ ManagerType'
      BY <3>1, <1>a
    <3>5. Cardinality(Installing') = Cardinality(Installing) - 1
      BY <1>b, <3>3, <3>4, FS_RemoveElement
    <3>6. Cardinality(Ended') = Cardinality(Ended) + 1
      BY <1>e, <3>3, <3>4
    <3>7. /\ pm' = Cardinality(Installing') + lost' /\ lost' \in Nat /\ lost' <= Cardinality(Ended')
          /\ (pm' > 0 => pm > 0)
      BY <1>b, <1>o, <3>2, <3>5, <3>6
    <3> QED BY <1>o, <3>2, <3>4, <3>7 DEF ManagerCounts
  <2> QED BY <1>4, <2>1, <2>2, <2>3, <2>4 DEF Manager
<1>5. ASSUME NEW r \in Runs, fuseMounts(r) \/ erofsfuse_main(r) \/ handleSig(r) \/ HeaderKilled(r) PROVE ManagerType' /\ ManagerCounts'
  BY <1>5, <1>0, FuseCases DEF erofsfuse_main, handleSig, HeaderKilled, manager
<1> QED BY <1>1, <1>2, <1>3, <1>4, <1>5 DEF RunnerStep

\* Where a process has not forked its loader.
Unforked == {"none", "start", "import", "create", "mount", "reap", "raw", "ready", "fuse", "serving"}
LoaderInv == LoaderOnce /\ BundleRemoved

\* What a loader step may do to the loaders and the bundle of a process.
LEMMA LoaderStepKeeps ==
  ASSUME NEW p \in Procs, ProcType, LoaderType, LoaderInv,
         \A q \in Procs : proc'[q].at \in Unforked => proc[q].at \in Unforked,
         proc'[p].at \notin Unforked,
         \A q \in Procs : q # p => ldr'[q] = ldr[q] /\ bundle'[q] = bundle[q],
         ldr'[p][1].at \in {"none", "look", "umount", "remove"} => ldr'[p][2].at = "none" /\ ~bundle'[p],
         ldr'[p][2].at \in {"none", "patched", "boxed", "over"},
         bundle'[p] => \E c \in Copies : ldr'[p][c].at \notin {"none", "over"}
  PROVE  LoaderInv'
BY DEF LoaderInv, LoaderOnce, BundleRemoved, Unforked

\* A process forks its loader once, and a bundle has a loader that will remove it.
LEMMA LoaderKeeps ==
  ASSUME ProcType, LoaderType, DaemonLate, LoaderInv, RunnerStep
  PROVE  LoaderInv'
<1>a. ASSUME UNCHANGED <<ldr, bundle>>, \A q \in Procs : proc'[q].at \in Unforked => proc[q].at \in Unforked
      PROVE  LoaderInv'
  BY <1>a DEF LoaderInv, LoaderOnce, BundleRemoved, Unforked
<1>b. ASSUME NEW p \in Procs, NEW rec, To(p, rec), UNCHANGED <<ldr, bundle>>, rec.at \in Unforked => proc[p].at \in Unforked
      PROVE  LoaderInv'
  <2>1. \A q \in Procs : proc'[q] = IF q = p THEN rec ELSE proc[q]
    BY <1>b DEF To, ProcType
  <2> QED BY <1>a, <1>b, <2>1
<1>c. ASSUME UNCHANGED <<ldr, bundle, proc>> PROVE LoaderInv'
  BY <1>a, <1>c
<1>d. ASSUME NEW p \in Procs, UNCHANGED <<ldr, bundle>>, To(p, Over) \/ To(p, cleanAndExit(p)) PROVE LoaderInv'
  <2>1. Over.at = "over" /\ cleanAndExit(p).at = "umount"
    BY DEF Over, NoProc, cleanAndExit, ProcType, ProcRecord
  <2> QED BY <1>b, <1>d, <2>1 DEF Unforked
<1>1. ASSUME NEW r \in Runs, NEW what \in {"run", "extract"}, Launch(r, what) PROVE LoaderInv'
  <2>1. [NoProc EXCEPT !.at = "start", !.what = what].at \in Unforked /\ <<"header", r>> \in Procs
    BY DEF NoProc, Unforked, Procs
  <2> QED BY <1>1, <1>b, <2>1 DEF Launch, Unforked
<1>2. ASSUME NEW p \in Procs, Process(p) PROVE LoaderInv'
  <2>0. proc[p] \in ProcRecord
    BY DEF ProcType
  <2>1. CASE main(p)
    <3>1. \A a \in {"import", "create"} : [proc[p] EXCEPT !.at = a].at = a
      BY <2>0 DEF ProcRecord
    <3> QED BY <2>1, <3>1, <1>b, <1>d DEF main, detectLinglong, Unforked
  <2>2. CASE importSelf(p)
    BY <2>2, <1>c, <1>d DEF importSelf
  <2>3. CASE createMountPoint(p)
    BY <2>3, <1>b, <1>d DEF createMountPoint, Unforked
  <2>4. CASE mountSelfBundle(p)
    <3>1. CASE NoChild(p)
      BY <2>4, <3>1, <1>d, MountCases DEF NoChild
    <3>2. CASE NotOpened(p)
      BY <2>4, <3>2, <1>b, MountCases DEF NotOpened, Unforked
    <3>3. CASE Forks(p)
      <4>1. proc' = [proc EXCEPT ![p].at = "reap", ![Daemon(p[2])] = [proc[p] EXCEPT !.at = "fuse"]] /\ proc[p].at = "mount"
        BY <3>3 DEF Forks
      <4>2. p = Header(p[2]) /\ p[2] \in Runs
        BY <4>1, ProcIs DEF DaemonLate
      <4>3. proc[Daemon(p[2])].at = "none"
        BY <4>1, <4>2 DEF DaemonLate
      <4>4. \A q \in Procs : proc'[q].at \in Unforked => proc[q].at \in Unforked
        <5>1. Daemon(p[2]) \in Procs /\ Daemon(p[2]) # p
          BY <4>2, ProcOf
        <5>2. \A q \in Procs : q # p /\ q # Daemon(p[2]) => proc'[q] = proc[q]
          BY <4>1, <5>1 DEF ProcType
        <5> QED BY <4>1, <4>3, <5>2 DEF Unforked
      <4> QED BY <2>4, <1>a, <4>4, MountCases
    <3> QED BY <2>4, <3>1, <3>2, <3>3, MountCases
  <2>5. CASE mountSelf(p)
    BY <2>5, <1>b DEF mountSelf, Unforked
  <2>6. CASE extractBundle(p)
    BY <2>6, <1>d DEF extractBundle
  <2>7. CASE runAppLoader(p)
    <3>1. CASE To(p, cleanAndExit(p)) /\ ldr' = ldr
      BY <2>7, <3>1, <1>d DEF runAppLoader
    <3>2. ASSUME NEW rec, rec.at \in {"look", "umount"}, ldr' = [ldr EXCEPT ![p][1] = rec], To(p, [proc[p] EXCEPT !.at = "wait"])
          PROVE  LoaderInv'
      <4>1. ldr[p][2].at = "none" /\ ~bundle[p] /\ bundle' = bundle
        BY <2>7 DEF runAppLoader, LoaderInv, LoaderOnce
      <4>2. \A q \in Procs : proc'[q] = IF q = p THEN [proc[p] EXCEPT !.at = "wait"] ELSE proc[q]
        BY <3>2 DEF To, ProcType
      <4>3. [proc[p] EXCEPT !.at = "wait"].at = "wait"
        BY <2>0 DEF ProcRecord
      <4>4. /\ \A q \in Procs : q # p => ldr'[q] = ldr[q]
            /\ ldr'[p][1] = rec /\ ldr'[p][2] = ldr[p][2]
        BY <3>2 DEF LoaderType, Copies
      <4>5. \A q \in Procs : proc'[q].at \in Unforked => proc[q].at \in Unforked
        BY <4>2, <4>3 DEF Unforked
      <4>6. proc'[p].at \notin Unforked
        BY <4>2, <4>3 DEF Unforked
      <4> QED BY <3>2, <4>1, <4>4, <4>5, <4>6, LoaderStepKeeps
    <3> DEFINE rec == IF proc[p].mp /\ mnt # <<>> THEN [at |-> "look", from |-> Last(mnt), code |-> "none"]
                      ELSE [at |-> "umount", from |-> Nothing, code |-> "failed"]
    <3>3. rec.at \in {"look", "umount"}
      OBVIOUS
    <3>4. \/ To(p, cleanAndExit(p)) /\ ldr' = ldr
          \/ ldr' = [ldr EXCEPT ![p][1] = rec] /\ To(p, [proc[p] EXCEPT !.at = "wait"])
      BY <2>7 DEF runAppLoader
    <3> HIDE DEF rec
    <3> QED BY <3>1, <3>2, <3>3, <3>4
  <2>8. CASE waitLoader(p)
    BY <2>8, <1>d DEF waitLoader
  <2>9. CASE umount(p)
    <3> DEFINE rec == [proc[p] EXCEPT !.at = "remove", !.mounted = FALSE]
    <3>1. UNCHANGED <<ldr, bundle>> /\ (To(p, rec) \/ To(p, Over))
      BY <2>9, UmountCases DEF UmountDone, UmountNot
    <3>2. rec.at \notin Unforked
      BY <2>0 DEF ProcRecord, Unforked
    <3> HIDE DEF rec
    <3> QED BY <3>1, <3>2, <1>b, <1>d
  <2>10. CASE cleanResource(p)
    BY <2>10, <1>d DEF cleanResource
  <2>11. CASE childCleans(p)
    <3>1. PICK a \in {"remove", "over"} : ldr' = [ldr EXCEPT ![p][1].at = a] /\ ldr[p][1].at \in {"umount", "remove"}
      BY <2>11 DEF childCleans
    <3>2. bundle' = bundle /\ proc' = proc
      BY <2>11 DEF childCleans
    <3>3. /\ \A q \in Procs : q # p => ldr'[q] = ldr[q]
          /\ ldr'[p][1].at = a /\ ldr'[p][2] = ldr[p][2]
      BY <3>1 DEF LoaderType, LoaderRecord, Copies
    <3>4. ldr[p][2].at = "none" /\ ~bundle[p] /\ proc[p].at \notin Unforked
      BY <3>1 DEF LoaderInv, LoaderOnce, Unforked
    <3> QED BY <3>2, <3>3, <3>4, LoaderStepKeeps
  <2> QED BY <1>2, <2>1, <2>2, <2>3, <2>4, <2>5, <2>6, <2>7, <2>8, <2>9, <2>10, <2>11 DEF Process
<1>3. ASSUME NEW p \in Procs, NEW c \in Copies, proc' = proc, ldr[p][c].at \notin {"none", "umount", "remove"},
             \/ \E at \in {"made", "patched", "boxed"} : LoaderTo(p, c, at) /\ (at # "made" => bundle' = bundle)
                     /\ (at = "made" => c = 1 /\ bundle' = [bundle EXCEPT ![p] = TRUE])
             \/ \E code \in {"zero", "failed"} : LoaderEnds(p, c, code) /\ bundle' = [bundle EXCEPT ![p] = FALSE]
      PROVE  LoaderInv'
  <2>1. proc[p].at \notin Unforked
    BY <1>3 DEF LoaderInv, LoaderOnce, Unforked, Copies
  <2>2. PICK a \in {"made", "patched", "boxed", "over"} : ldr'[p][c].at = a /\ (\A d \in Copies : d # c => ldr'[p][d] = ldr[p][d])
          /\ (\A q \in Procs : q # p => ldr'[q] = ldr[q])
          /\ (a = "made" => c = 1) /\ (a # "over" /\ a # "made" => bundle' = bundle)
          /\ (a = "over" => ~bundle'[p])
    <3>1. ASSUME NEW at \in {"made", "patched", "boxed"}, LoaderTo(p, c, at)
          PROVE  ldr'[p][c].at = at /\ (\A d \in Copies : d # c => ldr'[p][d] = ldr[p][d]) /\ (\A q \in Procs : q # p => ldr'[q] = ldr[q])
      BY <3>1 DEF LoaderTo, LoaderType, LoaderRecord
    <3>2. ASSUME NEW code, LoaderEnds(p, c, code)
          PROVE  ldr'[p][c].at = "over" /\ (\A d \in Copies : d # c => ldr'[p][d] = ldr[p][d]) /\ (\A q \in Procs : q # p => ldr'[q] = ldr[q])
      BY <3>2 DEF LoaderEnds, LoaderType, LoaderRecord
    <3>3. bundle' = [bundle EXCEPT ![p] = FALSE] => ~bundle'[p]
      BY DEF LoaderType
    <3>4. CASE \E code \in {"zero", "failed"} : LoaderEnds(p, c, code) /\ bundle' = [bundle EXCEPT ![p] = FALSE]
      BY <3>4, <3>2, <3>3
    <3>5. ASSUME NEW at \in {"made", "patched", "boxed"}, LoaderTo(p, c, at), at # "made" => bundle' = bundle, at = "made" => c = 1
          PROVE  \E a \in {"made", "patched", "boxed", "over"} :
                   ldr'[p][c].at = a /\ (\A d \in Copies : d # c => ldr'[p][d] = ldr[p][d])
                   /\ (\A q \in Procs : q # p => ldr'[q] = ldr[q])
                   /\ (a = "made" => c = 1) /\ (a # "over" /\ a # "made" => bundle' = bundle)
                   /\ (a = "over" => ~bundle'[p])
      BY <3>5, <3>1
    <3> QED BY <1>3, <3>4, <3>5
  <2>3. \A q \in Procs : q # p => bundle'[q] = bundle[q]
    <3>1. bundle' = bundle \/ bundle' = [bundle EXCEPT ![p] = TRUE] \/ bundle' = [bundle EXCEPT ![p] = FALSE]
      BY <1>3
    <3> QED BY <3>1 DEF LoaderType
  <2>4. ldr'[p][2].at \in {"none", "patched", "boxed", "over"}
    BY <2>2 DEF LoaderInv, LoaderOnce, Copies
  <2>5. ldr'[p][1].at \in {"none", "look", "umount", "remove"} => ldr'[p][2].at = "none" /\ ~bundle'[p]
    <3>1. CASE c = 1
      BY <2>2, <3>1
    <3>2. CASE c = 2
      BY <1>3, <2>2, <3>2 DEF LoaderInv, LoaderOnce, Copies
    <3> QED BY <3>1, <3>2 DEF Copies
  <2>6. bundle'[p] => \E d \in Copies : ldr'[p][d].at \notin {"none", "over"}
    BY <2>2
  <2> QED BY <1>3, <2>1, <2>2, <2>3, <2>4, <2>5, <2>6, LoaderStepKeeps
<1>4. ASSUME NEW p \in Procs, NEW c \in Copies, makeBundle(p, c) PROVE LoaderInv'
  <2>1. ldr[p][c].at = "look" /\ c = 1 /\ ~bundle[p] /\ proc' = proc
    BY <1>4 DEF makeBundle, LoaderInv, LoaderOnce, Copies
  <2>2. bundle = [bundle EXCEPT ![p] = FALSE]
    BY <2>1 DEF LoaderType
  <2> QED BY <1>3, <1>4, <2>1, <2>2 DEF makeBundle
<1>5. ASSUME NEW p \in Procs, NEW c \in Copies, applyPatches(p, c) PROVE LoaderInv'
  <2>1. ldr[p][c].at = "made" /\ proc' = proc /\ bundle' = bundle
    BY <1>5 DEF applyPatches
  <2>2. CASE LoaderTo(p, c, "patched")
    BY <1>3, <2>1, <2>2
  <2>3. CASE c = 1 /\ ldr' = [ldr EXCEPT ![p][1].at = "patched", ![p][2] = [ldr[p][1] EXCEPT !.at = "patched"]]
    <3>1. 1 \in Copies /\ 2 \in Copies /\ ldr[p][1] \in LoaderRecord
      BY DEF LoaderType, Copies
    <3>2. [ldr[p][1] EXCEPT !.at = "patched"].at = "patched"
      BY <3>1 DEF LoaderRecord
    <3>3. /\ ldr'[p][1].at = "patched" /\ ldr'[p][2].at = "patched"
          /\ \A q \in Procs : q # p => ldr'[q] = ldr[q]
      BY <2>3, <3>1, <3>2 DEF LoaderType, LoaderRecord
    <3>4. proc[p].at \notin Unforked
      BY <2>1, <2>3 DEF LoaderInv, LoaderOnce, Unforked
    <3> QED BY <2>1, <3>1, <3>3, <3>4, LoaderStepKeeps
  <2> QED BY <1>5, <2>2, <2>3 DEF applyPatches
<1>6. ASSUME NEW p \in Procs, NEW c \in Copies, startBox(p, c) PROVE LoaderInv'
  BY <1>3, <1>6 DEF startBox
<1>7. ASSUME NEW p \in Procs, NEW c \in Copies, loaderSignal(p, c) PROVE LoaderInv'
  BY <1>3, <1>7 DEF loaderSignal
<1>8. ASSUME NEW p \in Procs, NEW c \in Copies, NEW code \in {"zero", "failed"}, boxEnds(p, c, code) PROVE LoaderInv'
  BY <1>3, <1>8 DEF boxEnds
<1>9. ASSUME NEW r \in Runs, Manager(r) PROVE LoaderInv'
  BY <1>9, <1>c DEF Manager, verify, mountUab, extractSignData, unloadUab
<1>10. ASSUME NEW r \in Runs, erofsfuse_main(r) PROVE LoaderInv'
  <2>1. <<"daemon", r>> \in Procs
    BY DEF Procs
  <2> QED BY <1>10, <1>b, <2>1 DEF erofsfuse_main, Unforked
<1>11. ASSUME NEW r \in Runs, handleSig(r) \/ HeaderKilled(r) PROVE LoaderInv'
  <2>1. <<"header", r>> \in Procs
    BY DEF Procs
  <2> QED BY <1>11, <1>d, <2>1 DEF handleSig, HeaderKilled
<1>12. ASSUME NEW r \in Runs, fuseMounts(r) PROVE LoaderInv'
  <2>0. UNCHANGED <<ldr, bundle>> /\ proc[Daemon(r)].at = "fuse" /\ Daemon(r) \in Procs /\ Header(r) \in Procs
    BY <1>12, ProcOf, FuseCases
  <2>1. CASE Serves(r)
    <3>1. proc[Header(r)].at = "reap"
      BY <2>1 DEF Serves
    <3>2. \A q \in Procs : q # Header(r) /\ q # Daemon(r) => proc'[q] = proc[q]
      BY <2>0, <2>1 DEF Serves, ProcType
    <3>3. \A q \in Procs : proc'[q].at \in Unforked => proc[q].at \in Unforked
      BY <2>0, <3>1, <3>2 DEF Unforked
    <3> QED BY <1>a, <2>0, <3>3
  <2>2. CASE ServesLate(r)
    BY <1>b, <2>0, <2>2 DEF ServesLate, Unforked
  <2>3. CASE ChildFails(r)
    BY <1>d, <2>0, <2>3 DEF ChildFails
  <2> QED BY <1>12, <2>1, <2>2, <2>3, FuseCases
<1> QED BY <1>1, <1>2, <1>4, <1>5, <1>6, <1>7, <1>8, <1>9, <1>10, <1>11, <1>12 DEF RunnerStep, Loader

\* Mounting adds the image of the run.
LEMMA RangeAppend ==
  ASSUME NEW S, NEW s \in Seq(S), NEW e \in S
  PROVE  Range(Append(s, e)) \subseteq Range(s) \cup {e}
<1>1. /\ Append(s, e) \in Seq(S) /\ Len(Append(s, e)) = Len(s) + 1 /\ Len(s) \in Nat
      /\ \A i \in 1 .. Len(s) : Append(s, e)[i] = s[i]
      /\ Append(s, e)[Len(s) + 1] = e
  OBVIOUS
<1>2. DOMAIN Append(s, e) = 1 .. Len(s) + 1 /\ DOMAIN s = 1 .. Len(s)
  BY <1>1
<1>3. ASSUME NEW i \in 1 .. Len(s) + 1 PROVE Append(s, e)[i] \in Range(s) \cup {e}
  <2>1. i \in 1 .. Len(s) \/ i = Len(s) + 1
    BY <1>1
  <2> QED BY <1>1, <1>2, <2>1 DEF Range
<1> QED BY <1>2, <1>3 DEF Range

\* What a umount takes away is on top; a mount point goes only when nothing is on it.
LEMMA UnmountsIs ==
  ASSUME NEW p \in Procs, MountType, Unmounts(p)
  PROVE  /\ Range(mnt') \subseteq Range(mnt)
         /\ mnt' # <<>> => mnt # <<>>
         /\ hit => hit'
         /\ \/ mnt' = mnt
            \/ /\ mnt # <<>> /\ mnt' = Front(mnt) /\ proc[p].mounted /\ proc[p].mp
               /\ p[1] = "daemon" => hit' \/ Last(mnt) = p[2]
         /\ proc[p].mounted /\ proc[p].mp /\ mnt # <<>> => mnt' = Front(mnt)
<1>1. \/ mnt' = mnt
      \/ mnt # <<>> /\ mnt' = Front(mnt) /\ proc[p].mounted /\ proc[p].mp
  BY DEF Unmounts
<1>2. mnt # <<>> => Range(Front(mnt)) \subseteq Range(mnt)
  BY FrontIs DEF MountType
<1> QED BY <1>1, <1>2 DEF Unmounts

\* Removing the mount point needs that nothing is mounted, and is recorded if another run waits to mount there.
LEMMA RemovesIs ==
  ASSUME NEW p \in Procs, MountType, Removes(p)
  PROVE  /\ hit => hit'
         /\ \/ dir' = dir
            \/ /\ dir' = FALSE /\ mnt = <<>>
               /\ hit' \/ \A r \in Runs \ {p[2]} : ~Waiting(r)
<1>1. ASSUME NEW r \in Runs, r # p[2], Waiting(r) PROVE OthersMount(p[2])
  <2>1. Header(r) \in Procs /\ Daemon(r) \in Procs /\ Header(r)[2] = r /\ Daemon(r)[2] = r
    BY ProcOf
  <2> QED BY <1>1, <2>1 DEF Waiting, OthersMount
<1> QED BY <1>1 DEF Removes, MountType

\* The mounts are served and have their mount point.
LEMMA MountsServedKeeps ==
  ASSUME ProcType, MountType, DaemonLate, LoaderType, LoaderInv, MountsServed, RunnerStep
  PROVE  MountsServed'
<1>a. ASSUME Range(mnt') \subseteq Range(mnt), mnt' # <<>> => dir',
             \A r \in Runs : proc'[Header(r)].at \in Early => proc[Header(r)].at \in Early,
             \A r \in Runs : proc'[Daemon(r)].at \notin {"none", "serving"} =>
                               proc[Daemon(r)].at \notin {"none", "serving"} \/ r \notin Range(mnt)
      PROVE  MountsServed'
  BY <1>a DEF MountsServed, Early
<1>b. ASSUME NEW p \in Procs, NEW rec, To(p, rec), Range(mnt') \subseteq Range(mnt), mnt' # <<>> => dir',
             p[1] = "header" /\ rec.at \in Early => proc[p].at \in Early,
             p[1] = "daemon" => proc[p].at \notin {"none", "serving"}
      PROVE  MountsServed'
  <2>1. \A q \in Procs : proc'[q] = IF q = p THEN rec ELSE proc[q]
    BY <1>b DEF To, ProcType
  <2>2. ASSUME NEW r \in Runs
        PROVE  /\ proc'[Header(r)].at \in Early => proc[Header(r)].at \in Early
               /\ proc'[Daemon(r)].at \notin {"none", "serving"} => proc[Daemon(r)].at \notin {"none", "serving"}
    <3>1. /\ Header(r) \in Procs /\ Daemon(r) \in Procs
          /\ Header(r)[1] = "header" /\ Daemon(r)[1] = "daemon"
      BY ProcOf
    <3> QED BY <1>b, <2>1, <3>1
  <2> QED BY <1>a, <1>b, <2>2
<1>c. ASSUME UNCHANGED <<proc, mnt, dir>> PROVE MountsServed'
  BY <1>c DEF MountsServed
<1>d. ASSUME NEW p \in Procs, UNCHANGED <<mnt, dir>>, To(p, Over) \/ To(p, cleanAndExit(p)), proc[p].at \notin {"none", "serving"}
      PROVE  MountsServed'
  <2>1. Over.at = "over" /\ cleanAndExit(p).at = "umount"
    BY DEF Over, NoProc, cleanAndExit, ProcType, ProcRecord
  <2>2. Range(mnt') \subseteq Range(mnt) /\ (mnt' # <<>> => dir')
    BY <1>d DEF MountsServed
  <2> QED BY <1>b, <1>d, <2>1, <2>2 DEF Early
<1>1. ASSUME NEW r \in Runs, NEW what \in {"run", "extract"}, Launch(r, what) PROVE MountsServed'
  <2>1. <<"header", r>> \in Procs /\ <<"header", r>>[1] = "header"
    BY DEF Procs
  <2>2. mnt' = mnt /\ (mnt' # <<>> => dir') /\ proc[<<"header", r>>].at \in Early
    BY <1>1 DEF Launch, MountsServed, Early
  <2> QED BY <1>1, <1>b, <2>1, <2>2 DEF Launch
<1>2. ASSUME NEW p \in Procs, Process(p) PROVE MountsServed'
  <2>0. proc[p] \in ProcRecord
    BY DEF ProcType
  <2>a. ASSUME NEW rec, UNCHANGED <<mnt, dir>>, To(p, rec), proc[p].at \notin {"none", "serving"},
               rec.at \in Early => proc[p].at \in Early
        PROVE  MountsServed'
    <3>1. Range(mnt') \subseteq Range(mnt) /\ (mnt' # <<>> => dir')
      BY <2>a DEF MountsServed
    <3> QED BY <1>b, <2>a, <3>1
  <2>1. CASE main(p)
    BY <2>1, <1>d, <2>a DEF main, Early
  <2>2. CASE importSelf(p)
    BY <2>2, <1>c, <1>d DEF importSelf
  <2>3. CASE createMountPoint(p)
    <3>1. proc[p].at = "create" /\ mnt' = mnt /\ ((dir' = TRUE) \/ (To(p, cleanAndExit(p)) /\ dir' = dir))
      BY <2>3 DEF createMountPoint
    <3>2. proc[p].at \in Early /\ proc[p].at \notin {"none", "serving"}
      BY <3>1 DEF Early
    <3>3. CASE To(p, cleanAndExit(p)) /\ dir' = dir
      BY <3>1, <3>2, <3>3, <1>d
    <3>4. CASE dir' = TRUE
      BY <2>3, <3>1, <3>2, <3>4, <1>b DEF createMountPoint
    <3> QED BY <3>1, <3>3, <3>4
  <2>4. CASE mountSelfBundle(p)
    <3>1. CASE NoChild(p)
      BY <2>4, <3>1, <1>d, MountCases DEF NoChild
    <3>2. CASE NotOpened(p)
      BY <2>4, <3>2, <2>a, MountCases DEF NotOpened, Early
    <3>3. CASE Forks(p)
      <4>0. proc[p].at = "mount" /\ mnt' = mnt /\ dir' = dir
            /\ proc' = [proc EXCEPT ![p].at = "reap", ![Daemon(p[2])] = [proc[p] EXCEPT !.at = "fuse"]]
        BY <2>4, <3>3, MountCases DEF Forks
      <4>1. p = Header(p[2]) /\ p[2] \in Runs
        BY <4>0, ProcIs DEF DaemonLate
      <4>2. Daemon(p[2]) \in Procs /\ Daemon(p[2]) # p
        BY <4>1, ProcOf
      <4>3. /\ proc'[p].at = "reap"
            /\ \A q \in Procs : q # p /\ q # Daemon(p[2]) => proc'[q] = proc[q]
        BY <2>0, <4>0, <4>2 DEF ProcType, ProcRecord
      <4>4. p[2] \notin Range(mnt)
        BY <4>0, <4>1 DEF MountsServed
      <4>5. ASSUME NEW r \in Runs
            PROVE  /\ proc'[Header(r)].at \in Early => proc[Header(r)].at \in Early
                   /\ proc'[Daemon(r)].at \notin {"none", "serving"} => proc[Daemon(r)].at \notin {"none", "serving"} \/ r \notin Range(mnt)
        <5>1. CASE r = p[2]
          BY <4>1, <4>3, <4>4, <5>1 DEF Early
        <5>2. CASE r # p[2]
          <6>1. proc'[Header(r)] = proc[Header(r)] /\ proc'[Daemon(r)] = proc[Daemon(r)]
            BY <4>1, <4>3, <5>2, ProcOf
          <6> QED BY <6>1
        <5> QED BY <5>1, <5>2
      <4>6. Range(mnt') \subseteq Range(mnt) /\ (mnt' # <<>> => dir')
        BY <4>0 DEF MountsServed
      <4> QED BY <1>a, <4>5, <4>6
    <3> QED BY <2>4, <3>1, <3>2, <3>3, MountCases
  <2>5. CASE mountSelf(p)
    <3>1. [proc[p] EXCEPT !.at = "ready", !.mounted = TRUE].at = "ready"
      BY <2>0 DEF ProcRecord
    <3> QED BY <2>5, <3>1, <2>a DEF mountSelf, Early
  <2>6. CASE extractBundle(p)
    BY <2>6, <1>d DEF extractBundle
  <2>7. CASE runAppLoader(p)
    <3>1. [proc[p] EXCEPT !.at = "wait"].at = "wait"
      BY <2>0 DEF ProcRecord
    <3> QED BY <2>7, <3>1, <1>d, <2>a DEF runAppLoader, Early
  <2>8. CASE waitLoader(p)
    BY <2>8, <1>d DEF waitLoader
  <2>9. CASE umount(p)
    <3> DEFINE rec == [proc[p] EXCEPT !.at = "remove", !.mounted = FALSE]
    <3>1. proc[p].at = "umount" /\ dir' = dir
      BY <2>9, UmountCases
    <3>2. rec.at \notin Early
      BY <2>0 DEF ProcRecord, Early
    <3>3. CASE UmountDone(p)
      <4>1. Range(mnt') \subseteq Range(mnt) /\ (mnt' # <<>> => dir') /\ To(p, rec)
        BY <3>1, <3>3, UnmountsIs DEF UmountDone, MountsServed
      <4> HIDE DEF rec
      <4> QED BY <1>b, <3>1, <3>2, <4>1
    <3>4. CASE UmountNot(p)
      <4>1. mnt' = mnt /\ (To(p, rec) \/ To(p, Over))
        BY <3>4 DEF UmountNot
      <4> HIDE DEF rec
      <4> QED BY <1>d, <2>a, <3>1, <3>2, <4>1
    <3> QED BY <2>9, <3>3, <3>4, UmountCases
  <2>10. CASE cleanResource(p)
    <3>1. proc[p].at = "remove" /\ mnt' = mnt /\ Removes(p) /\ To(p, Over)
      BY <2>10 DEF cleanResource
    <3>2. Range(mnt') \subseteq Range(mnt) /\ (mnt' # <<>> => dir')
      BY <3>1, RemovesIs DEF MountsServed
    <3>3. Over.at \notin Early
      BY DEF Over, NoProc, Early
    <3> QED BY <1>b, <3>1, <3>2, <3>3
  <2>11. CASE childCleans(p)
    <3>1. CASE Unmounts(p) /\ dir' = dir
      <4>1. Range(mnt') \subseteq Range(mnt) /\ (mnt' # <<>> => dir')
        BY <3>1, UnmountsIs DEF MountsServed
      <4> QED BY <2>11, <1>a, <4>1 DEF childCleans
    <3>2. CASE Removes(p) /\ mnt' = mnt
      <4>1. Range(mnt') \subseteq Range(mnt) /\ (mnt' # <<>> => dir')
        BY <3>2, RemovesIs DEF MountsServed
      <4> QED BY <2>11, <1>a, <4>1 DEF childCleans
    <3> QED BY <2>11, <3>1, <3>2 DEF childCleans
  <2> QED BY <1>2, <2>1, <2>2, <2>3, <2>4, <2>5, <2>6, <2>7, <2>8, <2>9, <2>10, <2>11 DEF Process
<1>3. ASSUME NEW p \in Procs, NEW c \in Copies,
             Loader(p, c) \/ loaderSignal(p, c) \/ \E code \in {"zero", "failed"} : boxEnds(p, c, code)
      PROVE  MountsServed'
  BY <1>3, <1>c DEF Loader, makeBundle, applyPatches, startBox, loaderSignal, boxEnds
<1>4. ASSUME NEW r \in Runs, Manager(r) PROVE MountsServed'
  BY <1>4, <1>c DEF Manager, verify, mountUab, extractSignData, unloadUab
<1>5. ASSUME NEW r \in Runs, erofsfuse_main(r) PROVE MountsServed'
  <2>1. r \notin Range(mnt) /\ mnt' = mnt /\ dir' = dir
        /\ To(Daemon(r), [proc[Daemon(r)] EXCEPT !.at = "ready", !.mounted = TRUE])
    BY <1>5 DEF erofsfuse_main, Daemon
  <2>2. \A q \in Procs : q # Daemon(r) => proc'[q] = proc[q]
    BY <2>1 DEF To, ProcType
  <2>3. \A s \in Runs : /\ Header(s) \in Procs /\ Daemon(s) \in Procs /\ Header(s) # Daemon(r)
                        /\ s # r => Daemon(s) # Daemon(r)
    BY ProcOf
  <2> QED BY <2>1, <2>2, <2>3 DEF MountsServed
<1>6. ASSUME NEW r \in Runs, handleSig(r) \/ HeaderKilled(r) PROVE MountsServed'
  <2>1. <<"header", r>> \in Procs
    BY DEF Procs
  <2>2. proc[<<"header", r>>].at # "serving"
    BY DEF DaemonLate, Header
  <2> QED BY <1>6, <1>d, <2>1, <2>2 DEF handleSig, HeaderKilled
<1>7. ASSUME NEW r \in Runs, fuseMounts(r) PROVE MountsServed'
  <2>0. /\ Header(r) \in Procs /\ Daemon(r) \in Procs /\ Header(r) # Daemon(r)
        /\ proc[Daemon(r)].at = "fuse" /\ proc[Header(r)].at \notin Early /\ dir' = dir
    BY <1>7, ProcOf, FuseCases DEF DaemonLate, Early
  <2>1. CASE ChildFails(r)
    BY <1>d, <2>0, <2>1 DEF ChildFails
  <2>2. CASE Serves(r) \/ ServesLate(r)
    <3>1. dir /\ mnt' = Append(mnt, r)
      BY <2>2 DEF Serves, ServesLate
    <3>2. /\ proc'[Daemon(r)].at = "serving" /\ proc'[Header(r)].at \notin Early
          /\ \A q \in Procs : q # Header(r) /\ q # Daemon(r) => proc'[q] = proc[q]
      BY <2>0, <2>2 DEF Serves, ServesLate, To, ProcType, ProcRecord, Early
    <3>3. Range(mnt') \subseteq Range(mnt) \cup {r}
      BY <3>1, RangeAppend DEF MountType
    <3>4. ASSUME NEW s \in Runs
          PROVE  /\ proc'[Daemon(s)].at \notin {"none", "serving"} => s \notin Range(mnt')
                 /\ proc'[Header(s)].at \in {"none", "start", "import", "create", "mount"} => s \notin Range(mnt')
      <4>1. CASE s = r
        BY <3>2, <4>1 DEF Early
      <4>2. CASE s # r
        <5>1. proc'[Header(s)] = proc[Header(s)] /\ proc'[Daemon(s)] = proc[Daemon(s)]
          BY <3>2, <4>2, ProcOf
        <5>2. s \notin Range(mnt) => s \notin Range(mnt')
          BY <3>3, <4>2
        <5> QED BY <5>1, <5>2 DEF MountsServed
      <4> QED BY <4>1, <4>2
    <3> QED BY <2>0, <3>1, <3>4 DEF MountsServed
  <2> QED BY <1>7, <2>1, <2>2, FuseCases
<1> QED BY <1>1, <1>2, <1>3, <1>4, <1>5, <1>6, <1>7 DEF RunnerStep

\* As long as nothing has gone wrong for a run, its image is the only one that is mounted:
\* a mount point that exists is never taken, and nobody else's cleaning reaches it.
LEMMA MountOwnedKeeps ==
  ASSUME ProcType, MountType, LoaderType, DaemonLate, FlagsTell, LoaderInv, MountsServed, hit \/ MountOwned, RunnerStep
  PROVE  (hit \/ MountOwned)'
<1>0. CASE hit
  <2>1. hit' = hit \/ hit' = TRUE \/ (\E p \in Procs : Unmounts(p) \/ Removes(p))
    <3>1. ASSUME NEW p \in Procs, mountSelfBundle(p) PROVE hit' = hit \/ hit' = TRUE
      BY <3>1 DEF mountSelfBundle
    <3>2. ASSUME NEW p \in Procs, umount(p) PROVE hit' = hit \/ Unmounts(p)
      BY <3>2 DEF umount
    <3>3. ASSUME NEW p \in Procs, Process(p) PROVE hit' = hit \/ hit' = TRUE \/ Unmounts(p) \/ Removes(p)
      BY <3>1, <3>2, <3>3 DEF Process, main, importSelf, createMountPoint, mountSelf, extractBundle, runAppLoader, waitLoader,
                              cleanResource, childCleans
    <3>4. ASSUME NEW p \in Procs, NEW c \in Copies,
                 Loader(p, c) \/ loaderSignal(p, c) \/ \E code \in {"zero", "failed"} : boxEnds(p, c, code)
          PROVE  hit' = hit
      BY <3>4 DEF Loader, makeBundle, applyPatches, startBox, loaderSignal, boxEnds
    <3>7. ASSUME NEW r \in Runs, fuseMounts(r) PROVE hit' = hit \/ hit' = TRUE
      BY <1>0, <3>7, FuseCases DEF Serves, ServesLate, ChildFails, MountType
    <3>5. ASSUME NEW r \in Runs, Manager(r) \/ erofsfuse_main(r) \/ handleSig(r) \/ HeaderKilled(r) PROVE hit' = hit
      BY <3>5 DEF Manager, verify, mountUab, extractSignData, unloadUab, erofsfuse_main, handleSig, HeaderKilled
    <3>6. ASSUME NEW r \in Runs, NEW what \in {"run", "extract"}, Launch(r, what) PROVE hit' = hit
      BY <3>6 DEF Launch
    <3> QED BY <3>3, <3>4, <3>5, <3>6, <3>7 DEF RunnerStep
  <2> QED BY <1>0, <2>1, UnmountsIs, RemovesIs
<1> SUFFICES ASSUME MountOwned, ~hit PROVE (hit \/ MountOwned)'
  BY <1>0
<1>o. /\ \A r \in Runs : Waiting(r) => dir /\ mnt = <<>>
      /\ \A r \in Runs : Has(r) => dir /\ mnt = <<r>> /\ proc[Header(r)].mp
      /\ \A r, s \in Runs : Waiting(r) /\ Waiting(s) => r = s
      /\ \A r \in Runs : ldr[Header(r)][1].at \notin {"umount", "remove"}
  BY DEF MountOwned
\* Nothing is gained and nothing is taken away.
<1>a. ASSUME UNCHANGED <<dir, mnt>>,
             \A r \in Runs : Waiting(r)' => Waiting(r), \A r \in Runs : Has(r)' => Has(r) /\ proc'[Header(r)].mp,
             \A r \in Runs : ldr'[Header(r)][1].at \notin {"umount", "remove"}
      PROVE  MountOwned'
  BY <1>o, <1>a DEF MountOwned
<1>b. ASSUME NEW p \in Procs, NEW rec, To(p, rec), UNCHANGED <<dir, mnt>>,
             \A r \in Runs : ldr'[Header(r)][1].at \notin {"umount", "remove"},
             p[1] = "daemon" => rec.at # "fuse",
             p[1] = "header" => /\ rec.at # "reap" /\ (rec.at = "mount" /\ rec.mp => Waiting(p[2]))
                                /\ rec.at \in {"raw", "ready", "wait"} \/ (rec.at = "umount" /\ rec.mounted) => Has(p[2]) /\ rec.mp
      PROVE  MountOwned'
  <2>1. \A q \in Procs : proc'[q] = IF q = p THEN rec ELSE proc[q]
    BY <1>b DEF To, ProcType
  <2>2. ASSUME NEW r \in Runs PROVE (Waiting(r)' => Waiting(r)) /\ (Has(r)' => Has(r) /\ proc'[Header(r)].mp)
    <3>1. /\ Header(r) \in Procs /\ Header(r)[1] = "header" /\ Header(r)[2] = r
          /\ Daemon(r) \in Procs /\ Daemon(r)[1] = "daemon" /\ Header(r) # Daemon(r)
      BY ProcOf
    <3>2. /\ proc'[Header(r)] = IF Header(r) = p THEN rec ELSE proc[Header(r)]
          /\ proc'[Daemon(r)] = IF Daemon(r) = p THEN rec ELSE proc[Daemon(r)]
      BY <2>1, <3>1
    <3>3. CASE Header(r) = p
      <4>1. Waiting(r)' => Waiting(r)
        BY <1>b, <3>1, <3>2, <3>3 DEF Waiting
      <4>2. Has(r)' => Has(r) /\ proc'[Header(r)].mp
        BY <1>b, <3>1, <3>2, <3>3 DEF Has
      <4> QED BY <4>1, <4>2
    <3>4. CASE Daemon(r) = p
      BY <1>b, <1>o, <3>1, <3>2, <3>4 DEF Waiting, Has
    <3>5. CASE Header(r) # p /\ Daemon(r) # p
      BY <1>o, <3>2, <3>5 DEF Waiting, Has
    <3> QED BY <3>3, <3>4, <3>5
  <2> QED BY <1>a, <1>b, <2>2
<1>c. ASSUME UNCHANGED <<proc, dir, mnt>>, \A r \in Runs : ldr'[Header(r)][1].at \notin {"umount", "remove"} PROVE MountOwned'
  BY <1>o, <1>c DEF MountOwned, Waiting, Has
<1>d. ldr' = ldr => \A r \in Runs : ldr'[Header(r)][1].at \notin {"umount", "remove"}
  BY <1>o
<1>e. ASSUME NEW p \in Procs, UNCHANGED <<dir, mnt, ldr>>, To(p, Over) PROVE MountOwned'
  <2>1. Over.at = "over"
    BY DEF Over, NoProc
  <2> QED BY <1>b, <1>d, <1>e, <2>1
<1>f. ASSUME NEW p \in Procs, UNCHANGED <<dir, mnt, ldr>>, To(p, cleanAndExit(p)), proc[p].at # "umount" PROVE MountOwned'
  <2>1. cleanAndExit(p).at = "umount" /\ cleanAndExit(p).mp = proc[p].mp /\ cleanAndExit(p).mounted = proc[p].mounted
    BY DEF cleanAndExit, ProcType, ProcRecord
  <2>2. p[1] = "header" => p = Header(p[2]) /\ p[2] \in Runs
    BY ProcIs
  <2>3. p[1] = "header" /\ proc[p].mounted => Has(p[2]) /\ proc[p].mp
    <3>1. proc[p].mounted => proc[p].at \in {"ready", "wait"}
      BY <1>f DEF FlagsTell
    <3> QED BY <1>o, <2>2, <3>1 DEF Has
  <2> QED BY <1>b, <1>d, <1>f, <2>1, <2>3
<1>1. ASSUME NEW r \in Runs, NEW what \in {"run", "extract"}, Launch(r, what) PROVE MountOwned'
  <2>1. <<"header", r>> \in Procs /\ [NoProc EXCEPT !.at = "start", !.what = what].at = "start"
    BY DEF Procs, NoProc
  <2>2. To(<<"header", r>>, [NoProc EXCEPT !.at = "start", !.what = what]) /\ UNCHANGED <<dir, mnt, ldr>>
    BY <1>1 DEF Launch
  <2> QED BY <1>b, <1>d, <2>1, <2>2
<1>2. ASSUME NEW p \in Procs, Process(p) PROVE (hit \/ MountOwned)'
  <2>0. proc[p] \in ProcRecord
    BY DEF ProcType
  <2>p. /\ p[2] \in Runs /\ p[1] \in {"header", "daemon"}
        /\ p[1] = "header" => p = Header(p[2])
        /\ p[1] = "daemon" => p = Daemon(p[2])
    BY ProcIs
  <2>h. proc[p].at \in {"start", "import", "create", "mount", "reap", "raw"} => p = Header(p[2])
    BY <2>p DEF DaemonLate
  <2>1. CASE main(p)
    <3>1. ASSUME NEW at \in {"import", "create"}, To(p, [proc[p] EXCEPT !.at = at]) PROVE MountOwned'
      <4>1. [proc[p] EXCEPT !.at = at].at = at
        BY <2>0 DEF ProcRecord
      <4>2. UNCHANGED <<dir, mnt, ldr>>
        BY <2>1 DEF main
      <4> QED BY <1>b, <1>d, <3>1, <4>1, <4>2
    <3> QED BY <2>1, <3>1, <1>e DEF main, detectLinglong
  <2>2. CASE importSelf(p)
    BY <2>2, <1>c, <1>d, <1>e DEF importSelf
  <2>3. CASE createMountPoint(p)
    <3> DEFINE rec == [proc[p] EXCEPT !.at = "mount", !.mp = ~dir, !.created = ~dir]
    <3>0. CASE To(p, cleanAndExit(p)) /\ dir' = dir
      BY <2>3, <3>0, <1>f DEF createMountPoint
    <3> SUFFICES ASSUME ~(To(p, cleanAndExit(p)) /\ dir' = dir) PROVE MountOwned'
      BY <3>0
    <3>1. proc[p].at = "create" /\ dir' = TRUE /\ mnt' = mnt /\ ldr' = ldr /\ To(p, rec)
      BY <2>3 DEF createMountPoint
    <3>2. rec.at = "mount" /\ rec.mp = ~dir
      BY <2>0 DEF ProcRecord
    <3> HIDE DEF rec
    <3>3. CASE dir
      BY <1>b, <1>d, <2>h, <2>p, <3>1, <3>2, <3>3, ProcOf
    <3>4. CASE ~dir
      <4>1. mnt = <<>>
        BY <3>4 DEF MountsServed
      <4>2. \A r \in Runs : ~Waiting(r) /\ ~Has(r)
        BY <1>o, <3>4
      <4>3. \A q \in Procs : proc'[q] = IF q = p THEN rec ELSE proc[q]
        BY <3>1 DEF To, ProcType
      <4>4. ASSUME NEW r \in Runs PROVE ~Has(r)' /\ (Waiting(r)' => r = p[2])
        <5>1. Header(r) \in Procs /\ Daemon(r) \in Procs /\ (Header(r) = p => r = p[2]) /\ Daemon(r) # p
          BY <2>h, <2>p, <3>1, ProcOf
        <5>2. /\ proc'[Header(r)] = IF Header(r) = p THEN rec ELSE proc[Header(r)]
              /\ proc'[Daemon(r)] = proc[Daemon(r)]
          BY <4>3, <5>1
        <5> QED BY <3>2, <4>2, <5>1, <5>2 DEF Waiting, Has
      <4> QED BY <1>d, <3>1, <4>1, <4>4 DEF MountOwned
    <3> QED BY <3>3, <3>4
  <2>4. CASE mountSelfBundle(p)
    <3>0. UNCHANGED <<ldr, dir, mnt>>
      BY <2>4, MountCases
    <3>1. CASE NoChild(p)
      BY <3>0, <3>1, <1>f DEF NoChild
    <3>2. CASE NotOpened(p)
      BY <3>2 DEF NotOpened
    <3>3. CASE Forks(p)
      <4>1. /\ proc[p].at = "mount"
            /\ proc' = [proc EXCEPT ![p].at = "reap", ![Daemon(p[2])] = [proc[p] EXCEPT !.at = "fuse"]]
        BY <3>3 DEF Forks
      <4>2. p = Header(p[2]) /\ p[2] \in Runs
        BY <2>h, <2>p, <4>1
      <4>3. Daemon(p[2]) \in Procs /\ Daemon(p[2]) # p
        BY <4>2, ProcOf
      <4>4. /\ proc'[p].at = "reap" /\ proc'[Daemon(p[2])].mp = proc[p].mp
            /\ \A q \in Procs : q # p /\ q # Daemon(p[2]) => proc'[q] = proc[q]
        BY <2>0, <4>1, <4>3 DEF ProcType, ProcRecord
      <4>5. \A r \in Runs : r # p[2] => proc'[Header(r)] = proc[Header(r)] /\ proc'[Daemon(r)] = proc[Daemon(r)]
        BY <4>2, <4>4, ProcOf
      <4>6. \A r \in Runs : r # p[2] => (Waiting(r)' <=> Waiting(r)) /\ (Has(r)' <=> Has(r))
        BY <4>5 DEF Waiting, Has
      <4>7. (Waiting(p[2])' => Waiting(p[2])) /\ ~Has(p[2])'
        BY <4>1, <4>2, <4>4 DEF Waiting, Has
      <4>8. ASSUME NEW r \in Runs PROVE (Waiting(r)' => Waiting(r)) /\ (Has(r)' => Has(r) /\ proc'[Header(r)].mp)
        BY <1>o, <4>5, <4>6, <4>7
      <4> QED BY <1>a, <1>d, <3>0, <4>8
    <3> QED BY <2>4, <3>1, <3>2, <3>3, MountCases
  <2>5. CASE mountSelf(p)
    <3> DEFINE rec == [proc[p] EXCEPT !.at = "ready", !.mounted = TRUE]
    <3>1. rec.at = "ready" /\ rec.mp = proc[p].mp
      BY <2>0 DEF ProcRecord
    <3>2. proc[p].at = "raw" /\ To(p, rec) /\ UNCHANGED <<dir, mnt, ldr>>
      BY <2>5 DEF mountSelf
    <3>3. Has(p[2]) /\ proc[p].mp
      BY <1>o, <2>h, <2>p, <3>2 DEF Has
    <3> HIDE DEF rec
    <3> QED BY <1>b, <1>d, <3>1, <3>2, <3>3
  <2>6. CASE extractBundle(p)
    BY <2>6, <1>f DEF extractBundle
  <2>7. CASE runAppLoader(p)
    <3> DEFINE rec == [proc[p] EXCEPT !.at = "wait"]
    <3>1. CASE To(p, cleanAndExit(p)) /\ ldr' = ldr
      BY <2>7, <3>1, <1>f DEF runAppLoader
    <3>2. CASE To(p, rec) /\ ldr' # ldr
      <4>1. rec.at = "wait" /\ rec.mp = proc[p].mp
        BY <2>0 DEF ProcRecord
      <4>2. proc[p].at = "ready" /\ UNCHANGED <<dir, mnt>>
        BY <2>7 DEF runAppLoader
      <4>3. p[1] = "header" => Has(p[2]) /\ proc[p].mp /\ mnt # <<>>
        BY <1>o, <2>p, <4>2 DEF Has
      <4>4. PICK l : ldr' = [ldr EXCEPT ![p][1] = l] /\ (p[1] = "header" => l.at = "look")
        <5> DEFINE l == IF proc[p].mp /\ mnt # <<>> THEN [at |-> "look", from |-> Last(mnt), code |-> "none"]
                        ELSE [at |-> "umount", from |-> Nothing, code |-> "failed"]
        <5>1. ldr' = [ldr EXCEPT ![p][1] = l]
          BY <2>7, <3>2 DEF runAppLoader
        <5>2. p[1] = "header" => l.at = "look"
          BY <4>3
        <5> QED BY <5>1, <5>2
      <4>5. \A r \in Runs : ldr'[Header(r)][1].at \notin {"umount", "remove"}
        <5> SUFFICES ASSUME NEW r \in Runs PROVE ldr'[Header(r)][1].at \notin {"umount", "remove"}
          OBVIOUS
        <5>1. Header(r) \in Procs /\ Header(r)[1] = "header" /\ 1 \in Copies
          BY ProcOf DEF Copies
        <5>2. ldr'[Header(r)][1] = IF Header(r) = p THEN l ELSE ldr[Header(r)][1]
          BY <4>4, <5>1 DEF LoaderType
        <5> QED BY <1>o, <4>4, <5>1, <5>2
      <4>6. To(p, rec)
        BY <3>2
      <4> HIDE DEF rec
      <4> QED BY <1>b, <4>1, <4>2, <4>3, <4>5, <4>6
    <3>3. CASE To(p, rec) /\ ldr' = ldr
      <4>1. rec.at = "wait" /\ rec.mp = proc[p].mp
        BY <2>0 DEF ProcRecord
      <4>2. proc[p].at = "ready" /\ UNCHANGED <<dir, mnt>>
        BY <2>7 DEF runAppLoader
      <4>3. p[1] = "header" => Has(p[2]) /\ proc[p].mp
        BY <1>o, <2>p, <4>2 DEF Has
      <4>4. To(p, rec)
        BY <3>3
      <4> HIDE DEF rec
      <4> QED BY <1>b, <1>d, <3>3, <4>1, <4>2, <4>3, <4>4
    <3> QED BY <2>7, <3>1, <3>2, <3>3 DEF runAppLoader
  <2>8. CASE waitLoader(p)
    BY <2>8, <1>f DEF waitLoader
  <2>u. ASSUME Unmounts(p), proc[p].at \notin {"none", "serving"}, ~hit', p[1] = "daemon" PROVE mnt' = mnt
    <3>1. p[2] \notin Range(mnt)
      BY <2>p, <2>u DEF MountsServed
    <3>2. mnt # <<>> => Last(mnt) \in Range(mnt)
      BY FrontIs DEF MountType
    <3> QED BY <2>u, <3>1, <3>2, UnmountsIs
  <2>r. ASSUME Removes(p), mnt' = mnt, ~hit', proc[p].at \notin {"none", "mount", "reap", "fuse"} PROVE dir' = dir \/ (\A r \in Runs : ~Waiting(r) /\ ~Has(r))
    <3>1. ~Waiting(p[2])
      <4>1. CASE p[1] = "header"
        BY <2>p, <2>r, <4>1 DEF Waiting
      <4>2. CASE p[1] = "daemon"
        BY <2>p, <2>r, <4>2 DEF Waiting, DaemonLate
      <4> QED BY <2>p, <4>1, <4>2
    <3>2. mnt = <<>> => \A r \in Runs : ~Has(r)
      BY <1>o
    <3> QED BY <2>r, <3>1, <3>2, RemovesIs
  <2>9. CASE umount(p)
    <3> DEFINE rec == [proc[p] EXCEPT !.at = "remove", !.mounted = FALSE]
    <3>1. rec.at = "remove" /\ proc[p].at = "umount" /\ UNCHANGED <<dir, ldr>>
      BY <2>0, <2>9, UmountCases DEF ProcRecord
    <3>2. CASE UmountNot(p)
      <4>1. mnt' = mnt /\ (To(p, rec) \/ To(p, Over))
        BY <3>2 DEF UmountNot
      <4> HIDE DEF rec
      <4> QED BY <1>b, <1>d, <1>e, <3>1, <4>1
    <3>3. CASE UmountDone(p) /\ mnt' = mnt
      <4>1. To(p, rec)
        BY <3>3 DEF UmountDone
      <4> HIDE DEF rec
      <4> QED BY <1>b, <1>d, <3>1, <3>3, <4>1
    <3>4. CASE UmountDone(p) /\ mnt' # mnt /\ ~hit'
      <4>1. p[1] = "header"
        BY <2>p, <2>u, <3>1, <3>4 DEF UmountDone
      <4>2. mnt # <<>> /\ mnt' = Front(mnt) /\ proc[p].mounted
        BY <3>4, UnmountsIs DEF UmountDone
      <4>3. p = Header(p[2]) /\ Has(p[2])
        BY <2>p, <3>1, <4>1, <4>2 DEF Has
      <4>4. mnt = <<p[2]>> /\ dir
        BY <1>o, <2>p, <4>3
      <4>5. Len(mnt') = 0 /\ mnt' \in Seq(Runs)
        <5>1. Len(Front(mnt)) = Len(mnt) - 1 /\ Front(mnt) \in Seq(Runs)
          BY <4>2, FrontIs DEF MountType
        <5>2. Len(mnt) = 1
          BY <4>4
        <5> QED BY <4>2, <5>1, <5>2
      <4>6. mnt' = <<>>
        BY <4>5
      <4>7. \A r \in Runs : r # p[2] => ~Waiting(r) /\ ~Has(r)
        <5> SUFFICES ASSUME NEW r \in Runs, r # p[2] PROVE ~Waiting(r) /\ ~Has(r)
          OBVIOUS
        <5>1. mnt # <<>> /\ mnt # <<r>>
          BY <4>4
        <5> QED BY <1>o, <5>1
      <4>8. \A q \in Procs : proc'[q] = IF q = p THEN rec ELSE proc[q]
        BY <3>4 DEF UmountDone, To, ProcType
      <4> HIDE DEF rec
      <4>9. ASSUME NEW r \in Runs PROVE ~Waiting(r)' /\ ~Has(r)'
        <5>1. Header(r) \in Procs /\ Daemon(r) \in Procs /\ Daemon(r) # p /\ (r # p[2] => Header(r) # p)
          BY <4>3, <2>p, ProcOf
        <5>2. /\ proc'[Header(r)] = IF Header(r) = p THEN rec ELSE proc[Header(r)]
              /\ proc'[Daemon(r)] = proc[Daemon(r)]
          BY <4>8, <5>1
        <5>3. CASE Header(r) = p
          BY <3>1, <5>2, <5>3 DEF Waiting, Has
        <5>4. CASE Header(r) # p
          <6>1. r # p[2]
            BY <4>3, <5>4
          <6> QED BY <4>7, <5>2, <5>4, <6>1 DEF Waiting, Has
        <5> QED BY <5>3, <5>4
      <4> QED BY <1>d, <3>1, <4>9 DEF MountOwned
    <3> QED BY <2>9, <3>2, <3>3, <3>4, UmountCases
  <2>10. CASE cleanResource(p)
    <3>1. Removes(p) /\ mnt' = mnt /\ ldr' = ldr /\ proc[p].at = "remove" /\ To(p, Over)
      BY <2>10 DEF cleanResource
    <3>2. CASE dir' = dir
      BY <1>e, <3>1, <3>2
    <3>3. CASE \A r \in Runs : ~Waiting(r) /\ ~Has(r)
      <4>1. \A q \in Procs : proc'[q] = IF q = p THEN Over ELSE proc[q]
        BY <3>1 DEF To, ProcType
      <4>2. Over.at = "over"
        BY DEF Over, NoProc
      <4>3. ASSUME NEW r \in Runs PROVE ~Waiting(r)' /\ ~Has(r)'
        <5>1. Header(r) \in Procs /\ Daemon(r) \in Procs
          BY ProcOf
        <5>2. /\ proc'[Header(r)] = Over \/ proc'[Header(r)] = proc[Header(r)]
              /\ proc'[Daemon(r)] = Over \/ proc'[Daemon(r)] = proc[Daemon(r)]
          BY <4>1, <5>1
        <5> QED BY <3>3, <4>2, <5>2 DEF Waiting, Has
      <4> QED BY <1>d, <3>1, <4>3 DEF MountOwned
    <3>4. CASE hit'
      BY <3>4
    <3> QED BY <2>r, <3>1, <3>2, <3>3, <3>4
  <2>11. CASE childCleans(p)
    <3>1. proc' = proc /\ ldr[p][1].at \in {"umount", "remove"}
      BY <2>11 DEF childCleans
    <3>2. p[1] = "daemon"
      BY <1>o, <2>p, <3>1
    <3>3. \A r \in Runs : ldr'[Header(r)][1].at \notin {"umount", "remove"}
      <4>1. PICK a \in {"remove", "over"} : ldr' = [ldr EXCEPT ![p][1].at = a]
        BY <2>11 DEF childCleans
      <4>2. \A r \in Runs : ldr'[Header(r)] = ldr[Header(r)]
        BY <2>p, <3>2, <4>1, ProcOf DEF LoaderType
      <4> QED BY <1>o, <4>2
    <3>4. proc[p].at \notin {"none", "serving", "mount", "reap", "fuse"}
      BY <3>1 DEF LoaderInv, LoaderOnce
    <3>5. CASE Unmounts(p) /\ dir' = dir
      BY <1>c, <2>u, <3>1, <3>2, <3>3, <3>4, <3>5
    <3>6. CASE Removes(p) /\ mnt' = mnt
      <4>1. CASE dir' = dir
        BY <1>c, <3>1, <3>3, <3>6, <4>1
      <4>2. CASE \A r \in Runs : ~Waiting(r) /\ ~Has(r)
        BY <3>1, <3>3, <4>2 DEF MountOwned, Waiting, Has
      <4> QED BY <2>r, <3>4, <3>6, <4>1, <4>2
    <3> QED BY <2>11, <3>5, <3>6 DEF childCleans
  <2> QED BY <1>2, <2>1, <2>2, <2>3, <2>4, <2>5, <2>6, <2>7, <2>8, <2>9, <2>10, <2>11 DEF Process
<1>3. ASSUME NEW p \in Procs, NEW c \in Copies,
             Loader(p, c) \/ loaderSignal(p, c) \/ \E code \in {"zero", "failed"} : boxEnds(p, c, code)
      PROVE  MountOwned'
  <2>1. UNCHANGED <<proc, dir, mnt>>
    BY <1>3 DEF Loader, makeBundle, applyPatches, startBox, loaderSignal, boxEnds
  <2>2. \/ \E at \in {"made", "patched", "boxed"} : LoaderTo(p, c, at)
        \/ \E code \in {"zero", "failed"} : LoaderEnds(p, c, code)
        \/ ldr' = [ldr EXCEPT ![p][1].at = "patched", ![p][2] = [ldr[p][1] EXCEPT !.at = "patched"]]
    BY <1>3 DEF Loader, makeBundle, applyPatches, startBox, loaderSignal, boxEnds
  <2>3. \A q \in Procs : ldr'[q][1].at = ldr[q][1].at \/ ldr'[q][1].at \in {"made", "patched", "boxed", "over"}
    <3>1. ASSUME NEW at \in {"made", "patched", "boxed"}, LoaderTo(p, c, at)
          PROVE  \A q \in Procs : ldr'[q][1].at = ldr[q][1].at \/ ldr'[q][1].at = at
      BY <3>1 DEF LoaderTo, LoaderType, LoaderRecord, Copies
    <3>2. ASSUME NEW code, LoaderEnds(p, c, code)
          PROVE  \A q \in Procs : ldr'[q][1].at = ldr[q][1].at \/ ldr'[q][1].at = "over"
      BY <3>2 DEF LoaderEnds, LoaderType, LoaderRecord, Copies
    <3>3. ASSUME ldr' = [ldr EXCEPT ![p][1].at = "patched", ![p][2] = [ldr[p][1] EXCEPT !.at = "patched"]]
          PROVE  \A q \in Procs : ldr'[q][1].at = ldr[q][1].at \/ ldr'[q][1].at = "patched"
      BY <3>3 DEF LoaderType, LoaderRecord, Copies
    <3> QED BY <2>2, <3>1, <3>2, <3>3
  <2>4. \A r \in Runs : ldr'[Header(r)][1].at \notin {"umount", "remove"}
    BY <1>o, <2>3, ProcOf
  <2> QED BY <1>c, <2>1, <2>4
<1>4. ASSUME NEW r \in Runs, Manager(r) PROVE MountOwned'
  BY <1>4, <1>c, <1>d DEF Manager, verify, mountUab, extractSignData, unloadUab
<1>5. ASSUME NEW r \in Runs, erofsfuse_main(r) PROVE MountOwned'
  <2> DEFINE rec == [proc[Daemon(r)] EXCEPT !.at = "ready", !.mounted = TRUE]
  <2>1. Daemon(r) \in Procs /\ Daemon(r)[1] = "daemon"
    BY ProcOf
  <2>2. To(Daemon(r), rec) /\ UNCHANGED <<dir, mnt, ldr>>
    BY <1>5 DEF erofsfuse_main, Daemon
  <2>3. rec.at = "ready"
    BY <2>1 DEF ProcType, ProcRecord
  <2> HIDE DEF rec
  <2> QED BY <1>b, <1>d, <2>1, <2>2, <2>3
<1>7. ASSUME NEW r \in Runs, fuseMounts(r) PROVE (hit \/ MountOwned)'
  <2>0. /\ Header(r) \in Procs /\ Daemon(r) \in Procs /\ Header(r) # Daemon(r)
        /\ proc[Daemon(r)].at = "fuse" /\ UNCHANGED <<dir, ldr>>
    BY <1>7, ProcOf, FuseCases
  <2>1. CASE ChildFails(r)
    BY <1>f, <2>0, <2>1 DEF ChildFails
  <2>2. CASE Serves(r)
    <3>1. Waiting(r) /\ mnt' = Append(mnt, r) /\ proc[Header(r)].mp
      BY <2>0, <2>2 DEF Serves, Waiting, DaemonLate
    <3>2. dir /\ mnt = <<>> /\ \A s \in Runs : s # r => ~Waiting(s) /\ ~Has(s)
      BY <1>o, <3>1
    <3>3. mnt' = <<r>>
      BY <3>1, <3>2
    <3>4. /\ proc'[Header(r)].at = "raw" /\ proc'[Header(r)].mp = proc[Header(r)].mp
          /\ \A q \in Procs : q # Header(r) /\ q # Daemon(r) => proc'[q] = proc[q]
      BY <2>0, <2>2 DEF Serves, ProcType, ProcRecord
    <3>5. ASSUME NEW s \in Runs PROVE ~Waiting(s)' /\ (Has(s)' => s = r)
      <4>1. CASE s = r
        BY <3>4, <4>1 DEF Waiting
      <4>2. CASE s # r
        <5>1. proc'[Header(s)] = proc[Header(s)] /\ proc'[Daemon(s)] = proc[Daemon(s)]
          BY <3>4, <4>2, ProcOf
        <5> QED BY <3>2, <4>2, <5>1 DEF Waiting, Has
      <4> QED BY <4>1, <4>2
    <3> QED BY <1>d, <2>0, <3>1, <3>2, <3>3, <3>4, <3>5 DEF MountOwned
  <2>3. CASE ServesLate(r) /\ ~hit'
    <3>1. mnt = <<>> /\ ~OthersMount(r) /\ proc[Header(r)].at # "reap"
      BY <2>3 DEF ServesLate
    <3>2. ASSUME NEW s \in Runs PROVE ~Waiting(s) /\ ~Has(s)
      <4>1. ~Has(s)
        BY <1>o, <3>1
      <4>2. CASE s = r
        BY <2>0, <3>1, <4>1, <4>2 DEF Waiting, DaemonLate
      <4>3. CASE s # r
        <5>1. Header(s) \in Procs /\ Daemon(s) \in Procs /\ Header(s)[2] = s /\ Daemon(s)[2] = s
          BY ProcOf
        <5> QED BY <3>1, <4>1, <4>3, <5>1 DEF Waiting, OthersMount
      <4> QED BY <4>2, <4>3
    <3>3. /\ proc'[Daemon(r)].at = "serving"
          /\ \A q \in Procs : q # Daemon(r) => proc'[q] = proc[q]
      BY <2>0, <2>3 DEF ServesLate, To, ProcType, ProcRecord
    <3>4. ASSUME NEW s \in Runs PROVE ~Waiting(s)' /\ ~Has(s)'
      <4>1. proc'[Header(s)] = proc[Header(s)] /\ (proc'[Daemon(s)] = proc[Daemon(s)] \/ proc'[Daemon(s)].at = "serving")
        BY <3>3, ProcOf
      <4> QED BY <3>2, <4>1 DEF Waiting, Has
    <3> QED BY <1>d, <2>0, <3>4 DEF MountOwned
  <2> QED BY <1>7, <2>1, <2>2, <2>3, FuseCases
<1>6. ASSUME NEW r \in Runs, handleSig(r) \/ HeaderKilled(r) PROVE MountOwned'
  <2>1. <<"header", r>> \in Procs
    BY DEF Procs
  <2> QED BY <1>6, <1>e, <1>f, <2>1 DEF handleSig, HeaderKilled
<1> QED BY <1>1, <1>2, <1>3, <1>4, <1>5, <1>6, <1>7 DEF RunnerStep

\* Whoever unmounts and removes: as long as no process was killed and no umount failed, every
\* image and the mount point have a process that will clear them away.
LEMMA AccountedKeeps ==
  ASSUME ProcType, MountType, LoaderType, DaemonLate, FlagsTell, left \/ Accounted, RunnerStep
  PROVE  (left \/ Accounted)'
<1>0. CASE left
  <2>1. ASSUME NEW p \in Procs, umount(p) PROVE left'
    BY <1>0, <2>1, UmountCases DEF UmountDone, UmountNot
  <2>2. ASSUME NEW p \in Procs, mountSelfBundle(p) PROVE left'
    BY <1>0, <2>2, MountCases
  <2>3. ASSUME NEW p \in Procs, Process(p) PROVE left'
    BY <1>0, <2>1, <2>2, <2>3 DEF Process, main, importSelf, createMountPoint, mountSelf, extractBundle, runAppLoader, waitLoader,
                                  cleanResource, childCleans
  <2>4. ASSUME NEW p \in Procs, NEW c \in Copies,
               Loader(p, c) \/ loaderSignal(p, c) \/ \E code \in {"zero", "failed"} : boxEnds(p, c, code)
        PROVE  left'
    BY <1>0, <2>4 DEF Loader, makeBundle, applyPatches, startBox, loaderSignal, boxEnds
  <2>7. ASSUME NEW r \in Runs, fuseMounts(r) PROVE left'
    BY <1>0, <2>7, FuseCases DEF Serves, ServesLate, ChildFails
  <2>5. ASSUME NEW r \in Runs, Manager(r) \/ erofsfuse_main(r) \/ handleSig(r) \/ HeaderKilled(r) PROVE left'
    BY <1>0, <2>5 DEF Manager, verify, mountUab, extractSignData, unloadUab, erofsfuse_main, handleSig, HeaderKilled
  <2>6. ASSUME NEW r \in Runs, NEW what \in {"run", "extract"}, Launch(r, what) PROVE left'
    BY <1>0, <2>6 DEF Launch
  <2> QED BY <2>3, <2>4, <2>5, <2>6, <2>7 DEF RunnerStep
<1> SUFFICES ASSUME Accounted PROVE (left \/ Accounted)'
  BY <1>0
<1>o. /\ Len(mnt) <= Cardinality(Unmounting) /\ Len(mnt) \in Nat
      /\ dir => \E p \in Procs : proc[p].created /\ proc[p].at # "serving"
  BY DEF Accounted, MountType
<1>n. IsFiniteSet(Unmounting) /\ Cardinality(Unmounting) \in Nat
  <2>1. Unmounting \subseteq Runs
    BY DEF Unmounting
  <2> QED BY <2>1, PacksKnown, FS_Subset, FS_CardinalityType
<1>m. mnt' \in Seq(Runs)
  BY MountTypeKeeps DEF MountType
\* A process moves and keeps what it is charged with.
<1>a. ASSUME NEW p \in Procs, NEW rec, To(p, rec),
             p[1] = "header" => (p[2] \in Unmounting <=> rec.mp /\ (rec.at = "raw" \/ rec.mounted))
      PROVE  Unmounting' = Unmounting
  <2>1. \A q \in Procs : proc'[q] = IF q = p THEN rec ELSE proc[q]
    BY <1>a DEF To, ProcType
  <2>2. ASSUME NEW r \in Runs PROVE r \in Unmounting' <=> r \in Unmounting
    <3>1. Header(r) \in Procs /\ Header(r)[1] = "header" /\ Header(r)[2] = r
      BY ProcOf
    <3>2. r \in Unmounting' <=> proc'[Header(r)].mp /\ (proc'[Header(r)].at = "raw" \/ proc'[Header(r)].mounted)
      BY DEF Unmounting
    <3>3. r \in Unmounting <=> proc[Header(r)].mp /\ (proc[Header(r)].at = "raw" \/ proc[Header(r)].mounted)
      BY DEF Unmounting
    <3>4. proc'[Header(r)] = IF Header(r) = p THEN rec ELSE proc[Header(r)]
      BY <2>1, <3>1
    <3>5. CASE Header(r) = p
      BY <1>a, <3>1, <3>2, <3>4, <3>5
    <3>6. CASE Header(r) # p
      BY <3>2, <3>3, <3>4, <3>6
    <3> QED BY <3>5, <3>6
  <2> QED BY <2>2 DEF Unmounting
<1>b. ASSUME NEW p \in Procs, NEW rec, To(p, rec), Len(mnt') <= Len(mnt), dir' = dir,
             p[1] = "header" => (p[2] \in Unmounting <=> rec.mp /\ (rec.at = "raw" \/ rec.mounted)),
             proc[p].created => rec.created /\ rec.at # "serving"
      PROVE  Accounted'
  <2>1. \A q \in Procs : proc'[q] = IF q = p THEN rec ELSE proc[q]
    BY <1>b DEF To, ProcType
  <2>2. Unmounting' = Unmounting
    BY <1>a, <1>b
  <2>3. Len(mnt') <= Cardinality(Unmounting')
    BY <1>b, <1>m, <1>n, <1>o, <2>2
  <2>4. dir' => \E q \in Procs : proc'[q].created /\ proc'[q].at # "serving"
    BY <1>b, <1>o, <2>1
  <2> QED BY <2>3, <2>4 DEF Accounted
<1>c. ASSUME proc' = proc, Len(mnt') <= Len(mnt), dir' => dir PROVE Accounted'
  <2>1. Unmounting' = Unmounting
    BY <1>c DEF Unmounting
  <2>2. Len(mnt') <= Cardinality(Unmounting')
    BY <1>c, <1>m, <1>n, <1>o, <2>1
  <2> QED BY <1>c, <1>o, <2>2 DEF Accounted
<1>s. mnt' = mnt => Len(mnt') <= Len(mnt)
  BY <1>o
<1>u. \A r \in Runs : r \in Unmounting <=> proc[Header(r)].mp /\ (proc[Header(r)].at = "raw" \/ proc[Header(r)].mounted)
  BY DEF Unmounting
<1>1. ASSUME NEW r \in Runs, NEW what \in {"run", "extract"}, Launch(r, what) PROVE Accounted'
  <2> DEFINE rec == [NoProc EXCEPT !.at = "start", !.what = what]
  <2>1. rec.mp = FALSE /\ rec.at = "start"
    BY DEF NoProc
  <2>2. Header(r) \in Procs /\ Header(r)[2] = r
    BY ProcOf
  <2>3. proc[Header(r)].at = "none" /\ To(Header(r), rec) /\ UNCHANGED <<mnt, dir>>
    BY <1>1 DEF Launch, Header
  <2>4. ~proc[Header(r)].created /\ ~proc[Header(r)].mp
    BY <2>2, <2>3 DEF FlagsTell
  <2> HIDE DEF rec
  <2> QED BY <1>b, <1>s, <1>u, <2>1, <2>2, <2>3, <2>4
<1>2. ASSUME NEW p \in Procs, Process(p) PROVE (left \/ Accounted)'
  <2>0. /\ proc[p] \in ProcRecord /\ proc[p].mp = proc[p].created
        /\ proc[p].at \in {"none", "start", "import", "create", "over"} => ~proc[p].created
        /\ proc[p].mounted => proc[p].at \in {"ready", "wait", "umount"}
    BY Standing
  <2>p. /\ p[2] \in Runs /\ p[1] \in {"header", "daemon"}
        /\ p[1] = "header" => p = Header(p[2])
        /\ p[1] = "daemon" => p = Daemon(p[2])
    BY ProcIs
  <2>u. p[1] = "header" => (p[2] \in Unmounting <=> proc[p].mp /\ (proc[p].at = "raw" \/ proc[p].mounted))
    BY <1>u, <2>p
  <2>a. ASSUME NEW a \in {"import", "create", "wait", "umount", "raw"}, To(p, [proc[p] EXCEPT !.at = a]), UNCHANGED <<mnt, dir>>,
               proc[p].at # "raw", a = "raw" => FALSE
        PROVE  Accounted'
    <3> DEFINE rec == [proc[p] EXCEPT !.at = a]
    <3>1. rec.at = a /\ rec.mp = proc[p].mp /\ rec.created = proc[p].created /\ rec.mounted = proc[p].mounted
      BY <2>0 DEF ProcRecord
    <3>2. To(p, rec)
      BY <2>a
    <3> HIDE DEF rec
    <3> QED BY <1>b, <1>s, <2>a, <2>u, <3>1, <3>2
  <2>b. ASSUME To(p, Over), UNCHANGED <<mnt, dir>>, proc[p].at \in {"start", "import"} PROVE Accounted'
    <3>1. Over.mp = FALSE /\ Over.at = "over" /\ Over.mounted = FALSE
      BY DEF Over, NoProc
    <3> QED BY <1>b, <1>s, <2>b, <2>0, <2>u, <3>1
  <2>1. CASE main(p)
    BY <2>1, <2>a, <2>b DEF main, detectLinglong
  <2>2. CASE importSelf(p)
    BY <2>2, <1>c, <1>s, <2>b DEF importSelf
  <2>3. CASE createMountPoint(p)
    <3> DEFINE rec == [proc[p] EXCEPT !.at = "mount", !.mp = ~dir, !.created = ~dir]
    <3>1. rec.at = "mount" /\ rec.mp = ~dir /\ rec.created = ~dir /\ rec.mounted = proc[p].mounted
      BY <2>0 DEF ProcRecord
    <3>0. CASE To(p, cleanAndExit(p)) /\ dir' = dir
      BY <2>3, <2>a, <3>0 DEF createMountPoint, cleanAndExit
    <3> SUFFICES ASSUME ~(To(p, cleanAndExit(p)) /\ dir' = dir) PROVE Accounted'
      BY <3>0
    <3>2. proc[p].at = "create" /\ dir' = TRUE /\ mnt' = mnt /\ To(p, rec)
      BY <2>3 DEF createMountPoint
    <3> HIDE DEF rec
    <3>3. ~proc[p].created /\ ~proc[p].mounted
      BY <2>0, <3>2
    <3>4. \A q \in Procs : proc'[q] = IF q = p THEN rec ELSE proc[q]
      BY <3>2 DEF To, ProcType
    <3>5. Unmounting' = Unmounting
      BY <1>a, <2>0, <2>u, <3>1, <3>2, <3>3
    <3>6. \E q \in Procs : proc'[q].created /\ proc'[q].at # "serving"
      <4>1. CASE dir
        <5>1. PICK q \in Procs : proc[q].created /\ proc[q].at # "serving"
          BY <1>o, <4>1
        <5>2. q # p
          BY <3>3, <5>1
        <5> QED BY <3>4, <5>1, <5>2
      <4>2. CASE ~dir
        BY <3>1, <3>4, <4>2
      <4> QED BY <4>1, <4>2
    <3> QED BY <1>o, <3>2, <3>5, <3>6 DEF Accounted
  <2>4. CASE mountSelfBundle(p)
    <3>0. dir' = dir /\ mnt' = mnt
      BY <2>4, MountCases
    <3>1. CASE NoChild(p)
      BY <2>a, <3>0, <3>1 DEF NoChild, cleanAndExit
    <3>2. ASSUME NEW a \in {"raw", "reap"}, To(p, [proc[p] EXCEPT !.at = a]), proc[p].at = "mount", mnt' = mnt PROVE Accounted'
      <4> DEFINE rec == [proc[p] EXCEPT !.at = a]
      <4>1. rec.at = a /\ rec.mp = proc[p].mp /\ rec.created = proc[p].created /\ rec.mounted = proc[p].mounted
        BY <2>0 DEF ProcRecord
      <4>2. To(p, rec)
        BY <3>2
      <4> HIDE DEF rec
      <4>3. \A q \in Procs : proc'[q] = IF q = p THEN rec ELSE proc[q]
        BY <4>2 DEF To, ProcType
      <4>4. Unmounting \subseteq Unmounting'
        <5>1. ASSUME NEW r \in Unmounting PROVE r \in Unmounting'
          <6>1. r \in Runs /\ Header(r) \in Procs
            BY ProcOf DEF Unmounting
          <6>2. proc'[Header(r)] = IF Header(r) = p THEN rec ELSE proc[Header(r)]
            BY <4>3, <6>1
          <6>3. proc[Header(r)].mp /\ (proc[Header(r)].at = "raw" \/ proc[Header(r)].mounted)
            BY DEF Unmounting
          <6>4. proc'[Header(r)].mp /\ (proc'[Header(r)].at = "raw" \/ proc'[Header(r)].mounted)
            BY <3>2, <4>1, <6>2, <6>3
          <6> QED BY <6>1, <6>4 DEF Unmounting
        <5> QED BY <5>1
      <4>5. Cardinality(Unmounting) <= Cardinality(Unmounting') /\ Cardinality(Unmounting') \in Nat
        <5>1. Unmounting' \subseteq Runs
          BY DEF Unmounting
        <5>2. IsFiniteSet(Unmounting') /\ Cardinality(Unmounting') \in Nat
          BY <5>1, PacksKnown, FS_Subset, FS_CardinalityType
        <5> QED BY <4>4, <5>2, FS_Subset
      <4>6. Len(mnt') <= Cardinality(Unmounting')
        BY <1>n, <1>o, <3>2, <4>5
      <4>7. dir' => \E q \in Procs : proc'[q].created /\ proc'[q].at # "serving"
        BY <1>o, <3>0, <4>1, <4>3
      <4> QED BY <4>6, <4>7 DEF Accounted
    <3>3. CASE NotOpened(p)
      BY <3>0, <3>2, <3>3 DEF NotOpened
    <3>4. CASE Forks(p)
      <4>1. /\ proc[p].at = "mount"
            /\ proc' = [proc EXCEPT ![p].at = "reap", ![Daemon(p[2])] = [proc[p] EXCEPT !.at = "fuse"]]
        BY <3>4 DEF Forks
      <4>2. p = Header(p[2]) /\ p[2] \in Runs
        BY <2>p, <4>1 DEF DaemonLate
      <4>3. Daemon(p[2]) \in Procs /\ Daemon(p[2]) # p
        BY <4>2, ProcOf
      <4>4. /\ proc'[p].at = "reap" /\ proc'[p].mounted = proc[p].mounted /\ proc'[p].created = proc[p].created
            /\ \A q \in Procs : q # p /\ q # Daemon(p[2]) => proc'[q] = proc[q]
        BY <2>0, <4>1, <4>3 DEF ProcType, ProcRecord
      <4>5. \A r \in Runs : r # p[2] => proc'[Header(r)] = proc[Header(r)]
        BY <4>2, <4>4, ProcOf
      <4>6. \A r \in Runs : r \in Unmounting' <=> proc'[Header(r)].mp /\ (proc'[Header(r)].at = "raw" \/ proc'[Header(r)].mounted)
        BY DEF Unmounting
      <4>7. p[2] \notin Unmounting /\ p[2] \notin Unmounting'
        BY <2>0, <1>u, <4>1, <4>2, <4>4, <4>6
      <4>8. \A r \in Runs : r # p[2] => (r \in Unmounting' <=> r \in Unmounting)
        BY <1>u, <4>5, <4>6
      <4>9. proc[Daemon(p[2])].at = "none"
        BY <4>1, <4>2 DEF DaemonLate
      <4>10. ~proc[Daemon(p[2])].created
        BY <4>3, <4>9 DEF FlagsTell
      <4>11. dir' => \E q \in Procs : proc'[q].created /\ proc'[q].at # "serving"
        <5> SUFFICES ASSUME dir' PROVE \E q \in Procs : proc'[q].created /\ proc'[q].at # "serving"
          OBVIOUS
        <5>1. PICK q \in Procs : proc[q].created /\ proc[q].at # "serving"
          BY <1>o, <3>0
        <5>2. q # Daemon(p[2])
          BY <4>10, <5>1
        <5> QED BY <4>4, <5>1, <5>2
      <4>12. Unmounting' = Unmounting
        <5>1. Unmounting' \subseteq Runs /\ Unmounting \subseteq Runs
          BY DEF Unmounting
        <5> QED BY <4>2, <4>7, <4>8, <5>1
      <4> QED BY <1>o, <3>0, <4>11, <4>12 DEF Accounted
    <3> QED BY <2>4, <3>1, <3>3, <3>4, MountCases
  <2>5. CASE mountSelf(p)
    <3> DEFINE rec == [proc[p] EXCEPT !.at = "ready", !.mounted = TRUE]
    <3>1. rec.at = "ready" /\ rec.mp = proc[p].mp /\ rec.created = proc[p].created /\ rec.mounted = TRUE
      BY <2>0 DEF ProcRecord
    <3>2. proc[p].at = "raw" /\ To(p, rec) /\ UNCHANGED <<dir, mnt>>
      BY <2>5 DEF mountSelf
    <3> HIDE DEF rec
    <3> QED BY <1>b, <1>s, <2>u, <3>1, <3>2
  <2>6. CASE extractBundle(p)
    BY <2>6, <2>a DEF extractBundle, cleanAndExit
  <2>7. CASE runAppLoader(p)
    BY <2>7, <2>a DEF runAppLoader, cleanAndExit
  <2>8. CASE waitLoader(p)
    BY <2>8, <2>a DEF waitLoader, cleanAndExit
  <2>9. CASE umount(p)
    <3> DEFINE rec == [proc[p] EXCEPT !.at = "remove", !.mounted = FALSE]
    <3>1. CASE UmountNot(p)
      BY <3>1 DEF UmountNot
    <3>2. CASE UmountDone(p)
      <4>1. rec.at = "remove" /\ rec.mp = proc[p].mp /\ rec.created = proc[p].created /\ rec.mounted = FALSE
        BY <2>0 DEF ProcRecord
      <4>2. proc[p].at = "umount" /\ dir' = dir /\ To(p, rec) /\ Unmounts(p)
        BY <2>9, <3>2, UmountCases DEF UmountDone
      <4>3. mnt' = mnt \/ (mnt # <<>> /\ mnt' = Front(mnt) /\ proc[p].mounted /\ proc[p].mp)
        BY <4>2, UnmountsIs
      <4>4. mnt # <<>> => Len(Front(mnt)) = Len(mnt) - 1
        BY FrontIs DEF MountType
      <4>5. Len(mnt') <= Len(mnt)
        BY <1>o, <4>3, <4>4
      <4> HIDE DEF rec
      <4>6. CASE ~(p[1] = "header" /\ proc[p].mounted /\ proc[p].mp)
        <5>1. p[1] = "header" => (p[2] \in Unmounting <=> rec.mp /\ (rec.at = "raw" \/ rec.mounted))
          BY <2>u, <4>1, <4>2, <4>6
        <5> QED BY <1>b, <4>1, <4>2, <4>5, <5>1
      <4>7. CASE p[1] = "header" /\ proc[p].mounted /\ proc[p].mp
        <5>1. p[2] \in Unmounting
          BY <2>u, <4>7
        <5>2. \A q \in Procs : proc'[q] = IF q = p THEN rec ELSE proc[q]
          BY <4>2 DEF To, ProcType
        <5>3. ASSUME NEW r \in Runs PROVE r \in Unmounting' <=> r \in Unmounting \ {p[2]}
          <6>1. Header(r) \in Procs /\ (r # p[2] => Header(r) # p)
            BY <2>p, <4>7, ProcOf
          <6>2. proc'[Header(r)] = IF Header(r) = p THEN rec ELSE proc[Header(r)]
            BY <5>2, <6>1
          <6>3. r \in Unmounting' <=> proc'[Header(r)].mp /\ (proc'[Header(r)].at = "raw" \/ proc'[Header(r)].mounted)
            BY DEF Unmounting
          <6>4. CASE r = p[2]
            BY <2>p, <4>1, <4>7, <6>2, <6>3, <6>4
          <6>5. CASE r # p[2]
            BY <1>u, <6>1, <6>2, <6>3, <6>5
          <6> QED BY <6>4, <6>5
        <5>4. Unmounting' = Unmounting \ {p[2]}
          BY <5>3 DEF Unmounting
        <5>5. Cardinality(Unmounting') = Cardinality(Unmounting) - 1
          BY <1>n, <5>1, <5>4, FS_RemoveElement
        <5>6. CASE mnt # <<>>
          <6>1. mnt' = Front(mnt)
            BY <4>2, <4>7, <5>6, UnmountsIs
          <6>2. Len(mnt') <= Cardinality(Unmounting')
            BY <1>n, <1>o, <4>4, <5>5, <5>6, <6>1
          <6>3. dir' => \E q \in Procs : proc'[q].created /\ proc'[q].at # "serving"
            BY <1>o, <4>1, <4>2, <5>2
          <6> QED BY <6>2, <6>3 DEF Accounted
        <5>7. CASE mnt = <<>>
          <6>1. mnt' = mnt
            BY <4>3, <5>7
          <6>2. Cardinality(Unmounting') \in Nat
            <7>1. Unmounting' \subseteq Runs
              BY DEF Unmounting
            <7> QED BY <7>1, PacksKnown, FS_Subset, FS_CardinalityType
          <6>3. Len(mnt') <= Cardinality(Unmounting')
            BY <5>7, <6>1, <6>2
          <6>4. dir' => \E q \in Procs : proc'[q].created /\ proc'[q].at # "serving"
            BY <1>o, <4>1, <4>2, <5>2
          <6> QED BY <6>3, <6>4 DEF Accounted
        <5> QED BY <5>6, <5>7
      <4> QED BY <4>6, <4>7
    <3> QED BY <2>9, <3>1, <3>2, UmountCases
  <2>10. CASE cleanResource(p)
    <3>1. Removes(p) /\ mnt' = mnt /\ proc[p].at = "remove" /\ To(p, Over)
      BY <2>10 DEF cleanResource
    <3>2. Over.mp = FALSE /\ Over.at = "over" /\ Over.mounted = FALSE
      BY DEF Over, NoProc
    <3>3. Unmounting' = Unmounting
      BY <1>a, <2>0, <2>u, <3>1, <3>2
    <3>4. \A q \in Procs : proc'[q] = IF q = p THEN Over ELSE proc[q]
      BY <3>1 DEF To, ProcType
    <3>5. dir' => \E q \in Procs : proc'[q].created /\ proc'[q].at # "serving"
      <4> SUFFICES ASSUME dir' PROVE \E q \in Procs : proc'[q].created /\ proc'[q].at # "serving"
        OBVIOUS
      <4>1. dir /\ (~proc[p].created \/ mnt # <<>>)
        BY <3>1 DEF Removes
      <4>2. CASE ~proc[p].created
        <5>1. PICK q \in Procs : proc[q].created /\ proc[q].at # "serving"
          BY <1>o, <4>1
        <5> QED BY <3>4, <4>2, <5>1
      <4>3. CASE mnt # <<>>
        <5>1. Len(mnt) # 0
          BY <4>3 DEF MountType
        <5>2. Cardinality(Unmounting) # 0
          BY <1>n, <1>o, <5>1
        <5>3. Unmounting # {}
          BY <5>2, FS_EmptySet
        <5>4. PICK r \in Runs : proc[Header(r)].mp /\ (proc[Header(r)].at = "raw" \/ proc[Header(r)].mounted)
          BY <5>3 DEF Unmounting
        <5>5. Header(r) \in Procs
          BY ProcOf
        <5>6. proc[Header(r)].created /\ proc[Header(r)].at \in {"raw", "ready", "wait", "umount"}
          BY <5>4, <5>5 DEF FlagsTell
        <5> QED BY <3>1, <3>4, <5>5, <5>6
      <4> QED BY <4>1, <4>2, <4>3
    <3> QED BY <1>o, <3>1, <3>3, <3>5 DEF Accounted
  <2>11. CASE childCleans(p)
    <3>1. CASE Unmounts(p) /\ dir' = dir
      <4>1. mnt' = mnt \/ (mnt # <<>> /\ mnt' = Front(mnt))
        BY <3>1, UnmountsIs
      <4>2. mnt # <<>> => Len(Front(mnt)) = Len(mnt) - 1
        BY FrontIs DEF MountType
      <4>3. Len(mnt') <= Len(mnt)
        BY <1>o, <4>1, <4>2
      <4> QED BY <2>11, <1>c, <3>1, <4>3 DEF childCleans
    <3>2. CASE Removes(p) /\ mnt' = mnt
      BY <2>11, <1>c, <1>s, <3>2 DEF childCleans, Removes
    <3> QED BY <2>11, <3>1, <3>2 DEF childCleans
  <2> QED BY <1>2, <2>1, <2>2, <2>3, <2>4, <2>5, <2>6, <2>7, <2>8, <2>9, <2>10, <2>11 DEF Process
<1>3. ASSUME NEW p \in Procs, NEW c \in Copies,
             Loader(p, c) \/ loaderSignal(p, c) \/ \E code \in {"zero", "failed"} : boxEnds(p, c, code)
      PROVE  Accounted'
  BY <1>3, <1>c, <1>s DEF Loader, makeBundle, applyPatches, startBox, loaderSignal, boxEnds
<1>4. ASSUME NEW r \in Runs, Manager(r) PROVE Accounted'
  <2>1. UNCHANGED <<proc, mnt, dir>>
    BY <1>4 DEF Manager, verify, mountUab, extractSignData, unloadUab
  <2> QED BY <2>1, <1>c, <1>s
<1>5. ASSUME NEW r \in Runs, erofsfuse_main(r) PROVE Accounted'
  <2> DEFINE rec == [proc[Daemon(r)] EXCEPT !.at = "ready", !.mounted = TRUE]
  <2>1. Daemon(r) \in Procs /\ Daemon(r)[1] = "daemon"
    BY ProcOf
  <2>2. To(Daemon(r), rec) /\ UNCHANGED <<mnt, dir>>
    BY <1>5 DEF erofsfuse_main, Daemon
  <2>3. rec.at = "ready" /\ rec.created = proc[Daemon(r)].created
    BY <2>1 DEF ProcType, ProcRecord
  <2> HIDE DEF rec
  <2> QED BY <1>b, <1>s, <2>1, <2>2, <2>3
<1>6. ASSUME NEW r \in Runs, handleSig(r) PROVE (left \/ Accounted)'
  <2> DEFINE rec == [proc[Header(r)] EXCEPT !.at = "umount"]
  <2>1. Header(r) \in Procs /\ Header(r)[1] = "header" /\ Header(r)[2] = r
    BY ProcOf
  <2>2. To(Header(r), rec) /\ UNCHANGED <<mnt, dir>> /\ (proc[Header(r)].at = "raw" => left')
    BY <1>6 DEF handleSig, Header, cleanAndExit
  <2>3. rec.at = "umount" /\ rec.created = proc[Header(r)].created /\ rec.mp = proc[Header(r)].mp /\ rec.mounted = proc[Header(r)].mounted
    BY <2>1 DEF ProcType, ProcRecord
  <2> HIDE DEF rec
  <2> QED BY <1>b, <1>s, <1>u, <2>1, <2>2, <2>3
<1>7. ASSUME NEW r \in Runs, HeaderKilled(r) PROVE (left \/ Accounted)'
  BY <1>7 DEF HeaderKilled
<1>8. ASSUME NEW r \in Runs, fuseMounts(r) PROVE (left \/ Accounted)'
  <2>0. /\ Header(r) \in Procs /\ Daemon(r) \in Procs /\ Header(r) # Daemon(r)
        /\ Daemon(r)[1] = "daemon" /\ proc[Daemon(r)].at = "fuse" /\ dir' = dir
    BY <1>8, ProcOf, FuseCases
  <2>1. CASE ChildFails(r)
    <3> DEFINE rec == [proc[Daemon(r)] EXCEPT !.at = "umount"]
    <3>1. To(Daemon(r), rec) /\ mnt' = mnt
      BY <2>1 DEF ChildFails, cleanAndExit
    <3>2. rec.at = "umount" /\ rec.created = proc[Daemon(r)].created
      BY <2>0 DEF ProcType, ProcRecord
    <3> HIDE DEF rec
    <3> QED BY <1>b, <1>s, <2>0, <3>1, <3>2
  <2>2. CASE ServesLate(r)
    BY <2>2 DEF ServesLate
  <2>3. CASE Serves(r)
    <3>1. /\ mnt' = Append(mnt, r) /\ proc[Header(r)].at = "reap"
          /\ proc[Header(r)].mp /\ proc[Header(r)].created /\ ~proc[Header(r)].mounted
      BY <2>0, <2>3 DEF Serves, DaemonLate, FlagsTell
    <3>2. /\ proc'[Header(r)].at = "raw" /\ proc'[Header(r)].mp = proc[Header(r)].mp
          /\ proc'[Header(r)].created = proc[Header(r)].created
          /\ \A q \in Procs : q # Header(r) /\ q # Daemon(r) => proc'[q] = proc[q]
      BY <2>0, <2>3 DEF Serves, ProcType, ProcRecord
    <3>3. \A s \in Runs : s \in Unmounting' <=> proc'[Header(s)].mp /\ (proc'[Header(s)].at = "raw" \/ proc'[Header(s)].mounted)
      BY DEF Unmounting
    <3>4. r \in Unmounting' /\ r \notin Unmounting
      BY <1>u, <3>1, <3>2, <3>3
    <3>5. \A s \in Runs : s # r => (s \in Unmounting' <=> s \in Unmounting)
      <4> SUFFICES ASSUME NEW s \in Runs, s # r PROVE s \in Unmounting' <=> s \in Unmounting
        OBVIOUS
      <4>1. proc'[Header(s)] = proc[Header(s)]
        BY <3>2, ProcOf
      <4> QED BY <1>u, <3>3, <4>1
    <3>6. Unmounting' = Unmounting \cup {r}
      <4>1. Unmounting' \subseteq Runs /\ Unmounting \subseteq Runs
        BY DEF Unmounting
      <4> QED BY <3>4, <3>5, <4>1
    <3>7. Cardinality(Unmounting') = Cardinality(Unmounting) + 1
      BY <1>n, <3>4, <3>6, FS_AddElement
    <3>8. Len(mnt') = Len(mnt) + 1
      BY <3>1 DEF MountType
    <3>9. Len(mnt') <= Cardinality(Unmounting')
      BY <1>n, <1>o, <3>7, <3>8
    <3>10. \E q \in Procs : proc'[q].created /\ proc'[q].at # "serving"
      BY <2>0, <3>1, <3>2
    <3> QED BY <3>9, <3>10 DEF Accounted
  <2> QED BY <1>8, <2>1, <2>2, <2>3, FuseCases
<1> QED BY <1>1, <1>2, <1>3, <1>4, <1>5, <1>6, <1>7, <1>8 DEF RunnerStep

------------------------------------------------------------------------------
RunnerInv == /\ ProcType /\ LoaderType /\ ManagerType /\ MountType
             /\ DaemonLate /\ FlagsTell /\ LoaderInv /\ ManagerCounts
             /\ (hit \/ MountOwned) /\ MountsServed
             /\ (left \/ Accounted)

\* The parts of the invariant are the invariant, TypeOK with them.
LEMMA InvIsParts == PackerInv /\ RunnerInv <=> IInv
<1>1. ASSUME ManagerCounts PROVE pm \in 0 .. Cardinality(Runs) /\ lost \in 0 .. Cardinality(Runs) /\ pmDir \in BOOLEAN
  <2>1. Installing \subseteq Runs /\ Ended \subseteq Runs /\ Installing \cup Ended \subseteq Runs /\ Installing \cap Ended = {}
    BY DEF Installing, Ended
  <2>2. /\ IsFiniteSet(Installing) /\ IsFiniteSet(Ended)
        /\ Cardinality(Installing) \in Nat /\ Cardinality(Ended) \in Nat /\ Cardinality(Runs) \in Nat
        /\ Cardinality(Installing \cup Ended) <= Cardinality(Runs)
    BY <2>1, PacksKnown, FS_Subset, FS_CardinalityType
  <2>3. Cardinality(Installing \cup Ended) = Cardinality(Installing) + Cardinality(Ended) - Cardinality(Installing \cap Ended)
    BY <2>2, FS_Union
  <2>4. Cardinality(Installing) + Cardinality(Ended) <= Cardinality(Runs)
    <3>1. Cardinality(Installing \cap Ended) = 0
      BY <2>1, FS_EmptySet
    <3> QED BY <2>2, <2>3, <3>1
  <2> QED BY <1>1, <2>2, <2>4 DEF ManagerCounts
<1>2. ManagerCounts => (TypeOK <=> PackerType /\ ProcType /\ LoaderType /\ ManagerType /\ MountType)
  BY <1>1 DEF TypeOK, PackerType, ProcType, LoaderType, ManagerType, MountType, ProcRecord, LoaderRecord
<1> QED BY <1>2 DEF IInv, PackerInv, RunnerInv, LoaderInv

\* At the start nothing is packed, started or mounted.
LEMMA InitInv == Init => IInv
<1> SUFFICES ASSUME Init PROVE IInv
  OBVIOUS
<1>1. PackerInv
  <2>1. 0 \in 0 .. MaxPacks
    BY PacksKnown
  <2>2. pk.at = "idle" /\ build.image = 0
    BY DEF Init, NoBuild
  <2>3. PackerType
    BY <2>1 DEF Init, NoBuild, NoFile, PackerType
  <2> QED BY <2>2, <2>3 DEF PackerInv, PackTells, PackFresh, MinifiedTells, ImageKnown
<1>2. ProcType /\ \A p \in Procs : proc[p] = NoProc
  BY DEF Init, ProcType, ProcRecord, ProcAts, NoProc
<1>3. LoaderType /\ \A p \in Procs : ~bundle[p] /\ \A c \in Copies : ldr[p][c].at = "none"
  BY DEF Init, LoaderType, LoaderRecord, LoaderAts, NoLoader, Nothing
<1>4. MountType /\ mnt = <<>> /\ dir = FALSE
  <2>1. mnt = <<>> /\ dir = FALSE /\ left = FALSE /\ hit = FALSE
    BY DEF Init
  <2>2. <<>> \in Seq(Runs)
    OBVIOUS
  <2> QED BY <2>1, <2>2 DEF MountType
<1>5. ManagerType /\ Installing = {} /\ Ended = {} /\ pm = 0 /\ lost = 0 /\ pmDir = FALSE
  BY DEF Init, ManagerType, Installing, Ended
<1>6. ManagerCounts
  <2>1. Cardinality(Installing) = 0 /\ Cardinality(Ended) = 0
    BY <1>5, FS_EmptySet
  <2>2. pm = Cardinality(Installing) + lost /\ lost \in Nat /\ lost <= Cardinality(Ended) /\ ~(pm > 0)
    BY <1>5, <2>1
  <2>3. pmDir \in BOOLEAN
    BY <1>5
  <2> QED BY <2>2, <2>3, Zenon DEF ManagerCounts
<1>7. FlagsTell
  <2>1. NoProc.mp = FALSE /\ NoProc.created = FALSE /\ NoProc.mounted = FALSE
    BY DEF NoProc
  <2> QED BY <1>2, <2>1 DEF FlagsTell
<1>8. DaemonLate
  BY <1>2, ProcOf DEF DaemonLate, NoProc
<1>9. LoaderInv
  BY <1>3 DEF LoaderInv, LoaderOnce, BundleRemoved, Copies
<1>10. \A r \in Runs : /\ proc[Header(r)] = NoProc /\ proc[Daemon(r)] = NoProc
                       /\ ldr[Header(r)][1].at = "none"
  BY <1>2, <1>3, ProcOf DEF Copies
<1>11. MountOwned
  BY <1>10 DEF MountOwned, Waiting, Has, NoProc
<1>12. MountsServed
  <2>1. Range(mnt) = {}
    BY <1>4 DEF Range
  <2> QED BY <1>4, <2>1 DEF MountsServed
<1>13. Accounted
  <2>1. Unmounting = {}
    BY <1>10 DEF Unmounting, NoProc
  <2> QED BY <1>4, <2>1, FS_EmptySet DEF Accounted
<1> QED BY <1>1, <1>2, <1>3, <1>4, <1>5, <1>6, <1>7, <1>8, <1>9, <1>11, <1>12, <1>13, InvIsParts DEF RunnerInv

\* Every step of the packer, the runs, the loaders, the manager and the kernel keeps the invariant.
LEMMA StepInv == IInv /\ [Next]_vars => IInv'
<1> SUFFICES ASSUME IInv, [Next]_vars PROVE IInv'
  OBVIOUS
<1>0. PackerInv /\ RunnerInv
  BY InvIsParts
<1>1. CASE PackerStep
  <2>1. UNCHANGED runner
    BY <1>1 DEF PackerStep, UABPackager, Pack, copyHeader, packIcon, prepareBundle, prepareExtra, packBundle, packMetaInfo, pack, PackerKilled
  <2>2. UNCHANGED <<proc, ldr, bundle, dir, mnt, left, imp, pm, lost, pmDir, hit>>
    BY <2>1 DEF runner, manager
  <2>3. RunnerInv'
    BY <1>0, <2>2 DEF RunnerInv, ProcType, LoaderType, ManagerType, MountType, DaemonLate, FlagsTell, LoaderInv, LoaderOnce, BundleRemoved,
                      ManagerCounts, Installing, Ended, MountOwned, Waiting, Has, MountsServed, Accounted, Unmounting
  <2>4. PackerInv'
    BY <1>0, <1>1, PackerKeeps
  <2> QED BY <2>3, <2>4, InvIsParts, PTL
<1>2. CASE RunnerStep
  <2>1. UNCHANGED <<pk, build, file>>
    <3>1. UNCHANGED packer
      <4>1. ASSUME NEW p \in Procs, Process(p) PROVE UNCHANGED packer
        BY <4>1 DEF Process, main, importSelf, createMountPoint, mountSelfBundle, mountSelf, extractBundle, runAppLoader,
                    waitLoader, umount, cleanResource, childCleans
      <4>2. ASSUME NEW p \in Procs, NEW c \in Copies,
                   Loader(p, c) \/ loaderSignal(p, c) \/ \E code \in {"zero", "failed"} : boxEnds(p, c, code)
            PROVE  UNCHANGED packer
        BY <4>2 DEF Loader, makeBundle, applyPatches, startBox, loaderSignal, boxEnds
      <4>3. ASSUME NEW r \in Runs, Manager(r) \/ fuseMounts(r) \/ erofsfuse_main(r) \/ handleSig(r) \/ HeaderKilled(r) PROVE UNCHANGED packer
        BY <4>3 DEF Manager, verify, mountUab, extractSignData, unloadUab, fuseMounts, erofsfuse_main, handleSig, HeaderKilled
      <4>4. ASSUME NEW r \in Runs, NEW what \in {"run", "extract"}, Launch(r, what) PROVE UNCHANGED packer
        BY <4>4 DEF Launch
      <4> QED BY <1>2, <4>1, <4>2, <4>3, <4>4 DEF RunnerStep
    <3> QED BY <3>1 DEF packer
  <2>2. PackerInv'
    BY <1>0, <2>1 DEF PackerInv, PackerType, PackTells, PackFresh, MinifiedTells, ImageKnown
  <2>3. ProcType' /\ LoaderType' /\ ManagerType' /\ MountType'
    BY <1>0, <1>2, ProcTypeKeeps, LoaderTypeKeeps, ManagerKeeps, MountTypeKeeps DEF RunnerInv
  <2>4. DaemonLate' /\ FlagsTell'
    BY <1>0, <1>2, DaemonLateKeeps DEF RunnerInv
  <2>5. LoaderInv' /\ ManagerCounts'
    BY <1>0, <1>2, LoaderKeeps, ManagerKeeps DEF RunnerInv
  <2>6. (hit \/ MountOwned)' /\ MountsServed'
    BY <1>0, <1>2, MountOwnedKeeps, MountsServedKeeps DEF RunnerInv
  <2>7. (left \/ Accounted)'
    BY <1>0, <1>2, AccountedKeeps DEF RunnerInv
  <2>8. RunnerInv'
    BY <2>3, <2>4, <2>5, <2>6, <2>7 DEF RunnerInv
  <2> QED BY <2>2, <2>8, InvIsParts, PTL
<1>3. CASE UNCHANGED vars
  <2>1. UNCHANGED <<pk, build, file, proc, ldr, bundle, dir, mnt, left, imp, pm, lost, pmDir, hit>>
    BY <1>3 DEF vars
  <2>2. PackerInv'
    BY <1>0, <2>1 DEF PackerInv, PackerType, PackTells, PackFresh, MinifiedTells, ImageKnown
  <2>3. RunnerInv'
    BY <1>0, <2>1 DEF RunnerInv, ProcType, LoaderType, ManagerType, MountType, DaemonLate, FlagsTell, LoaderInv, LoaderOnce, BundleRemoved,
                      ManagerCounts, Installing, Ended, MountOwned, Waiting, Has, MountsServed, Accounted, Unmounting
  <2> QED BY <2>2, <2>3, InvIsParts, PTL
<1> QED BY <1>1, <1>2, <1>3 DEF Next, PackerStep, RunnerStep

\* The inductive invariant holds in every state of every behaviour.
LEMMA Always == Spec => []IInv
BY InitInv, StepInv, PTL DEF Spec

\* What ll-builder says it packed is what it exports: a packing that succeeds exports the
\* image it made with its layers listed, unless a packer that was killed had left one, and a
\* layer is called minified exactly when files are left out (UABPackager::pack).
THEOREM PackedTells == Spec => []PackTells
<1>1. IInv => PackTells
  BY DEF IInv
<1> QED BY <1>1, Always, PTL

\* A run of a UAB keeps its image for as long as it needs it, whatever any number of other
\* starts of the same file do (createMountPoint, mountSelfBundle, cleanResource of the header),
\* unless its file could not be opened, a daemon that went on unmounted it, the cleaning of
\* another process removed its mount point before it was mounted, or the child of a run that
\* had its signal between fork and flag mounted beside it.
THEOREM RunKeepsImage == Spec => []StaysMounted
<1>1. IInv => StaysMounted
  <2> SUFFICES ASSUME IInv, ~hit, NEW r \in Runs, proc[<<"header", r>>].at \in {"ready", "wait"}
               PROVE  mnt # <<>> /\ Last(mnt) = r
    BY DEF StaysMounted
  <2>1. Has(r) /\ MountOwned
    BY DEF IInv, Has, Header
  <2>2. mnt = <<r>>
    BY <2>1 DEF MountOwned
  <2>3. Len(mnt) = 1 /\ mnt[1] = r /\ mnt # <<>>
    BY <2>2
  <2> QED BY <2>3 DEF Last
<1> QED BY <1>1, Always, PTL

\* Mounts, mount points and container bundles of runs end with the processes they were made
\* for, on every path and beside any number of other starts, unless a header was killed, had
\* its signal between fork and flag or could not unmount (cleanResource of header and loader);
\* and ll-package-manager has, when it installs nothing, exactly as many images mounted as
\* it failed to unmount (~UABFile); its mount point stays.
THEOREM NothingStays == Spec => []LeavesNothing
<1>1. ASSUME IInv PROVE NothingLeft
  <2> SUFFICES ASSUME \A p \in Procs : Done(p) \/ proc[p].at = "serving", ~left PROVE mnt = <<>> /\ ~dir
    BY DEF NothingLeft
  <2>0. Accounted /\ FlagsTell /\ DaemonLate /\ mnt \in Seq(Runs)
    BY <1>1 DEF IInv, TypeOK
  <2>1. \A p \in Procs : proc[p].at \in {"none", "over", "serving"}
    BY DEF Done
  <2>2. \A p \in Procs : ~proc[p].mounted /\ (proc[p].created => proc[p].at = "serving")
    BY <2>0, <2>1 DEF FlagsTell
  <2>3. Unmounting = {}
    BY <2>1, <2>2, ProcOf DEF Unmounting
  <2>4. Len(mnt) <= 0 /\ Len(mnt) \in Nat
    BY <2>0, <2>3, FS_EmptySet DEF Accounted
  <2>5. mnt = <<>>
    BY <2>0, <2>4
  <2>6. ~dir
    BY <2>0, <2>2 DEF Accounted
  <2> QED BY <2>5, <2>6
<1>2. ASSUME IInv PROVE ManagerUnmounts
  <2>0. pm = Cardinality(Installing) + lost /\ lost \in Nat /\ (pm > 0 => pmDir)
    BY <1>2 DEF IInv, ManagerCounts
  <2> SUFFICES ASSUME \A r \in Runs : imp[r] \in {"none", "verify", "mount", "zero", "failed"} PROVE pm = lost
    BY <2>0 DEF ManagerUnmounts
  <2>1. Installing = {}
    BY DEF Installing
  <2> QED BY <2>0, <2>1, FS_EmptySet
<1>3. IInv => LeavesNothing
  BY <1>1, <1>2 DEF LeavesNothing, IInv
<1> QED BY <1>3, Always, PTL

==============================================================================
