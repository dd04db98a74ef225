--------------------------- MODULE RepoContents ---------------------------
(***************************************************************************)
(* OSTreeRepo as the package manager uses it: which layers are in the      *)
(* repository, which are marked deleted, which merged directories exist    *)
(* and where the launcher links of the application point.  A repository is *)
(* a record                                                                *)
(*    layers    pairs of a reference and a module                          *)
(*    deleted   the layers marked deleted: kept for an app still running   *)
(*    merged    pairs of a reference and the modules checked out together  *)
(*    entry     the directory the links under entries/share lead to        *)
(* There is one build of every version, one application, and the runtime   *)
(* and the base it needs; every version exports the same file names.       *)
(***************************************************************************)
EXTENDS Integers, Sequences, FiniteSets

CONSTANT Versions    \* versions of the application, in the order of Version::operator<

ASSUME VersionsAssumption == Versions \subseteq 1 .. 99 /\ Versions # {}

App(v) == [id |-> "app", version |-> v]

Runtime == [id |-> "runtime", version |-> 1]

Base == [id |-> "base", version |-> 1]

NoRef == [id |-> "none", version |-> 0]

Apps == {App(v) : v \in Versions}

Dependencies == {Runtime, Base}

(* The modules in the order of their names; "runtime" is the old name of   *)
(* "binary".                                                               *)
Sorted(mods) ==
    (IF "binary" \in mods THEN <<"binary">> ELSE <<>>) \o
    (IF "develop" \in mods THEN <<"develop">> ELSE <<>>)

Layer == (Apps \cup Dependencies) \X {"binary", "develop"}

(* A directory: the layer of the binary module, or the merge of several. *)
Dir(ref, mods) == [ref |-> ref, mods |-> mods]

NoDir == Dir(NoRef, {})

EmptyRepo == [layers |-> {}, deleted |-> {}, merged |-> {}, entry |-> NoDir]

(* getLayerItem and getLayerDir do not look at the deleted mark. *)
HasLayer(r, ref, module) == <<ref, module>> \in r.layers

queryExistingLayerItem(r) == r.layers \ r.deleted

getModuleList(r, ref) == Sorted({m \in {"binary", "develop"} : HasLayer(r, ref, m)})

(* The installed versions of an id, whichever module is there. *)
Existing(r, id) == {x[1] : x \in {y \in queryExistingLayerItem(r) : y[1].id = id}}

(* queryLayerItem sorts the versions as text: version v is written 1.v.0.0 *)
(* and "." sorts before every digit, so 1.9.0.0 comes after 1.10.0.0.      *)
TextRank(v) == IF v < 10 THEN 11 * v ELSE 11 * (v \div 10) + (v % 10) + 1

(* The first that is not marked deleted. *)
clearReferenceLocal(r, id) ==
    IF Existing(r, id) = {} THEN NoRef
    ELSE CHOOSE x \in Existing(r, id) :
            \A y \in Existing(r, id) : TextRank(y.version) <= TextRank(x.version)

(* The checkout refuses a layer directory that is already there. *)
CanAdd(r, ref, module) == ~HasLayer(r, ref, module)

AddLayer(r, ref, module) == [r EXCEPT !.layers = @ \cup {<<ref, module>>}]

remove(r, ref, mods) ==
    LET gone == {<<ref, m>> : m \in mods}
    IN  [r EXCEPT !.layers = @ \ gone, !.deleted = @ \ gone]

markDeleted(r, ref, mods, deleted) ==
    LET marked == {<<ref, m>> : m \in mods}
    IN  [r EXCEPT !.deleted = IF deleted THEN @ \cup marked ELSE @ \ marked]

ExistingModules(r, ref) == {x[2] : x \in {y \in queryExistingLayerItem(r) : y[1] = ref}}

(* One merged directory for each version with several modules, the binary  *)
(* among them; every other directory is removed as a leak.                 *)
mergeModules(r) ==
    [r EXCEPT !.merged =
        {d \in {Dir(ref, ExistingModules(r, ref)) : ref \in Apps \cup Dependencies} :
            Cardinality(d.mods) > 1 /\ "binary" \in d.mods}]

getMergedModuleDir(r, ref) ==
    IF \E d \in r.merged : d.ref = ref
      THEN CHOOSE d \in r.merged : d.ref = ref
      ELSE Dir(ref, {"binary"})

DirExists(r, d) ==
    IF d.mods = {"binary"} THEN HasLayer(r, d.ref, "binary") ELSE d \in r.merged

(* Links that exist are replaced. *)
exportReference(r, ref) ==
    IF HasLayer(r, ref, "binary") THEN [r EXCEPT !.entry = getMergedModuleDir(r, ref)] ELSE r

(* Mutant: the links are left in place. *)
unexportReference_nothing(r, ref) == r

(* Only links into the layer directory of the binary module are removed. *)
unexportReference(r, ref) ==
    IF HasLayer(r, ref, "binary") /\ r.entry = Dir(ref, {"binary"})
      THEN [r EXCEPT !.entry = NoDir] ELSE r

(* What Prune counts as needed: an installed app whose runtime is missing  *)
(* is skipped before its base is counted.                                  *)
Counted(r) ==
    IF \/ \A a \in Apps : "binary" \notin ExistingModules(r, a)
       \/ clearReferenceLocal(r, "runtime") = NoRef
      THEN {}
      ELSE {clearReferenceLocal(r, d.id) : d \in Dependencies} \ {NoRef}

(* The runtimes and bases that no installed app was counted for. *)
Unused(r) ==
    {d \in Dependencies : "binary" \in ExistingModules(r, d)} \ Counted(r)

RemoveRefs(r, refs) == [r EXCEPT !.layers = {x \in @ : x[1] \notin refs}]

Prune(r) ==
    IF Unused(r) \cup Counted(r) = {} THEN r ELSE mergeModules(RemoveRefs(r, Unused(r)))

-----------------------------------------------------------------------------
(* Properties of a repository                                              *)

Repo == [layers : SUBSET Layer, deleted : SUBSET Layer,
         merged : SUBSET [ref : Apps \cup Dependencies, mods : SUBSET {"binary", "develop"}],
         entry : [ref : Apps \cup {NoRef}, mods : SUBSET {"binary", "develop"}]]

RepoOK(r) == r \in Repo /\ r.deleted \subseteq r.layers

Installed(r, ref) == "binary" \in ExistingModules(r, ref)

InstalledApps(r) == {a \in Apps : Installed(r, a)}

EntryAlive(r) == r.entry # NoDir => DirExists(r, r.entry)
=============================================================================
