---------------------------- MODULE VersionOrder ----------------------------
(***************************************************************************)
(* Versions, references and the two ways a fuzzy reference is made exact.  *)
(* A version text is the sequence of its numbers, <<>> if the regular      *)
(* expression does not match it.  An operation that may fail returns the   *)
(* set of its results, {} for an error.                                    *)
(***************************************************************************)
EXTENDS Naturals, Sequences, SequencesExt

CONSTANTS HostArch,   \* the architecture of this machine
          MaxPart     \* the largest number toLongLong() takes; two digits here

ASSUME MaxPartAssumption == MaxPart \in 10..99

-----------------------------------------------------------------------------
(* Version: three or four numbers, the fourth (tweak) optional. *)

VersionParse(raw) ==
    IF Len(raw) \in {3, 4} /\ \A i \in DOMAIN raw : raw[i] <= MaxPart THEN {raw} ELSE {}

Lexicographic(s, t) ==
    \E i \in 1..Len(t) : /\ \A j \in 1..(i - 1) : j <= Len(s) /\ s[j] = t[j]
                         /\ i > Len(s) \/ s[i] < t[i]

(* std::tie of the numbers, a missing tweak counting as 0. *)
AsNumber(v) == IF Len(v) = 4 THEN v ELSE Append(v, 0)

(* Two versions are equal only if both or neither has a tweak, so that     *)
(* 1.9.0 and 1.9.0.0 are neither equal, less nor greater.                  *)
Equal(v, w) == v = w

Less(v, w) == Lexicographic(AsNumber(v), AsNumber(w))

LessEqual(v, w) == Equal(v, w) \/ Less(v, w)

GreaterEqual(v, w) == Equal(v, w) \/ Less(w, v)

SameNumbers(v, w) == AsNumber(v) = AsNumber(w)

(* toString(): the digits of every number, a full stop (0) between them.   *)
Digits(n) == IF n < 10 THEN <<n + 1>> ELSE <<(n \div 10) + 1, (n % 10) + 1>>

TextOf(v) ==
    FlattenSeq([i \in DOMAIN v |-> IF i = 1 THEN Digits(v[i]) ELSE <<0>> \o Digits(v[i])])

(* std::string's order, by which RepoCache::queryLayerItem sorts.          *)
TextGreater(v, w) == Lexicographic(TextOf(w), TextOf(v))

-----------------------------------------------------------------------------
(* References. *)

ArchitectureParse(raw) ==
    IF raw \in {"x86_64", "arm64", "loongarch64", "loong64"} THEN {raw} ELSE {}

(* FuzzyReference::parse: "" and "unknown" stand for an absent part.       *)
Absent(text) == text \in {"", "unknown"}

FuzzyReference(channel, id, version, arch) ==
    IF id = "" THEN {}
    ELSE {[channel |-> channel, id |-> id, version |-> v, arch |-> a] :
            v \in (IF version = <<>> THEN {<<>>} ELSE VersionParse(version)),
            a \in (IF Absent(arch) THEN {""} ELSE ArchitectureParse(arch))}

FuzzyReferenceParse(raw) ==
    FuzzyReference(IF Absent(raw.channel) THEN "" ELSE raw.channel, raw.id, raw.version, raw.arch)

Reference(channel, id, version, arch) ==
    IF channel = "" \/ id = "" THEN {}
    ELSE {[channel |-> channel, id |-> id, version |-> version, arch |-> arch]}

-----------------------------------------------------------------------------
(* clearReferenceLocal: the first layer, in text order, that is not marked *)
(* deleted and has the version asked for; a version without tweak stands   *)
(* for every tweak.  Layers of one version come in any order.              *)
Compatible(v, asked) == asked = <<>> \/ asked = (IF Len(asked) = 3 THEN SubSeq(v, 1, 3) ELSE v)

queryLayerItem(items, id) == {i \in ToSet(items) : i.id = id}

clearReferenceLocal(items, fuzzy) ==
    LET found == {i \in queryLayerItem(items, fuzzy.id) :
                    ~i.deleted /\ Compatible(i.version, fuzzy.version)}
        first == {i \in found : \A j \in found : ~TextGreater(j.version, i.version)}
    IN  IF fuzzy.arch \notin {"", HostArch} THEN {}
        ELSE UNION {Reference(i.channel, i.id, i.version, i.arch) : i \in first}

(* clearReference on the records the server returned, in their order: a    *)
(* record replaces the reference found so far unless that is >= it.        *)
OfModule(record, module) ==
    IF module = "binary" THEN record.module \in {"binary", "runtime"} ELSE record.module = module

RecordReference(record, fuzzy) ==
    IF fuzzy.channel \notin {"", record.channel} \/ fuzzy.id # record.id THEN {}
    ELSE UNION {Reference(record.channel, fuzzy.id, v, a) :
                  v \in VersionParse(record.version), a \in ArchitectureParse(record.arch)}

TakeRecord(found, record, fuzzy) ==
    LET current == RecordReference(record, fuzzy)
    IN  IF current = {} \/ \E r \in found, c \in current : GreaterEqual(r.version, c.version)
        THEN found ELSE current

clearReferenceRemote(list, fuzzy, module) ==
    FoldLeft(LAMBDA found, record : TakeRecord(found, record, fuzzy),
             {}, SelectSeq(list, LAMBDA record : OfModule(record, module)))

(* Cli::listUpgradable folds the records the same way, whatever module     *)
(* they are of.                                                            *)
HighestRecord(list, fuzzy) ==
    FoldLeft(LAMBDA found, record : TakeRecord(found, record, fuzzy), {}, list)

-----------------------------------------------------------------------------
(* listLocal and listLocalLatest: of every package the layer whose version *)
(* is not <= the one kept so far, in the order of the cache.               *)
listLocal(items) == SelectSeq(items, LAMBDA i : ~i.deleted)

listLocalLatest(items) ==
    FoldLeft(LAMBDA kept, i :
               IF \E k \in kept : k.id = i.id /\ LessEqual(i.version, k.version) THEN kept
               ELSE {k \in kept : k.id # i.id} \cup {i},
             {}, listLocal(items))

(* filterPackageInfosFromType *)
OfType(infos, type) == IF type = "all" THEN infos ELSE {i \in infos : i.kind = type}
=============================================================================
