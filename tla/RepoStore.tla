----------------------------- MODULE RepoStore -----------------------------
(***************************************************************************)
(* Where OSTreeRepo keeps a layer: in a ref of the ostree repository, in a *)
(* directory layers/<commit>, in RepoCache's list and in states.json.  The *)
(* four are changed one after the other, and the daemon may be stopped, or *)
(* a write may fail, between any two.  A step here is one such change.     *)
(* No other step of the daemon comes between them: past the wait for the   *)
(* network, pull, importLayerDir and remove do not turn the event loop.    *)
(* ll-cli reads states.json and the directories at any time.               *)
(*                                                                         *)
(* A layer is one commit; symbolic links among the directories and the     *)
(* merged directories are left out.                                        *)
(***************************************************************************)
EXTENDS Integers

CONSTANTS Layers,
          Faults    \* what may go wrong, among FaultKinds

(* write: states.json cannot be replaced; short: it is replaced by a file  *)
(* that was not written to its end; checkout: the disk is full; rmdir: a   *)
(* directory cannot be removed; crash: the daemon is stopped; upgrade: it  *)
(* comes back as a newer version of linglong, or states.json is lost, and  *)
(* rebuilds the list.                                                      *)
FaultKinds == {"write", "short", "checkout", "rmdir", "crash", "upgrade"}

ASSUME FaultsAssumption == Faults \subseteq FaultKinds

VARIABLES refs,     \* layers with an ostree ref
          dirs,     \* the directory of each layer: "none", "partial" or "full"
          mem,      \* RepoCache::cache.layers
          disk,     \* states.json
          file,     \* "short" when states.json is not whole: nobody can parse it
          op,       \* the operation in progress
          up,       \* TRUE when the daemon runs
          acked,    \* history: layers added with success, not removed since
          met       \* history: the faults that have happened, and "rebuild"

vars == <<refs, dirs, mem, disk, file, op, up, acked, met>>

Status == {"absent", "live", "deleted"}

NoLayers == [l \in Layers |-> "absent"]

Op(at, l) == [at |-> at, layer |-> {l}]

Stages == {"ensure", "checkout", "add", "delete", "rmdir"}

NoOp == [at |-> "idle", layer |-> {}]

Idle == up /\ op = NoOp

At(at, l) == up /\ op = Op(at, l)

Init ==
    /\ refs = {}
    /\ dirs = [l \in Layers |-> "none"]
    /\ mem = NoLayers
    /\ disk = NoLayers
    /\ file = "whole"
    /\ op = NoOp
    /\ up = TRUE
    /\ acked = {}
    /\ met = {}

(* A fault that may happen, and does. *)
Meet(fault) == fault \in Faults /\ met' = met \cup {fault}

(* writeToDisk: a temporary file is renamed over states.json, so a reader  *)
(* sees the old list or the new one.  Whether all of it was written is not *)
(* looked at: a short file is renamed too, and that is a success.          *)
Written ==
    \/ disk' = mem' /\ file' = "whole" /\ UNCHANGED met
    \/ Meet("short") /\ disk' = NoLayers /\ file' = "short"

NotWritten == Meet("write") /\ UNCHANGED <<disk, file>>

-----------------------------------------------------------------------------
(* Adding a layer                                                          *)

(* The pull of a commit has arrived, its ref is set. *)
pull(l) ==
    /\ Idle
    /\ refs' = refs \cup {l}
    /\ op' = Op("ensure", l)
    /\ UNCHANGED <<dirs, mem, disk, file, up, acked, met>>

(* A layer file is committed, unless the layer is listed and there. *)
importLayerDir(l) ==
    /\ Idle
    /\ mem[l] = "absent" \/ dirs[l] = "none"
    /\ refs' = refs \cup {l}
    /\ op' = Op("ensure", l)
    /\ UNCHANGED <<dirs, mem, disk, file, up, acked, met>>

(* Mutant: a directory that exists is used again. *)
ensureEmptyLayerDir_reuses(l) ==
    /\ At("ensure", l)
    /\ dirs' = [dirs EXCEPT ![l] = "partial"]
    /\ op' = Op("checkout", l)
    /\ UNCHANGED <<refs, mem, disk, file, up, acked, met>>

(* An existing directory is an error, and the ref stays. *)
ensureEmptyLayerDir(l) ==
    /\ At("ensure", l)
    /\ IF dirs[l] = "none"
         THEN dirs' = [dirs EXCEPT ![l] = "partial"] /\ op' = Op("checkout", l)
         ELSE dirs' = dirs /\ op' = NoOp
    /\ UNCHANGED <<refs, mem, disk, file, up, acked, met>>

(* The directory is emptied and checked out.  What a checkout that failed  *)
(* has written is left there.                                              *)
checkout(l) ==
    /\ At("checkout", l)
    /\ \/ dirs' = [dirs EXCEPT ![l] = "full"] /\ op' = Op("add", l) /\ UNCHANGED met
       \/ Meet("checkout") /\ op' = NoOp /\ UNCHANGED dirs
    /\ UNCHANGED <<refs, mem, disk, file, up, acked>>

(* Mutant: the result of writeToDisk is not looked at. *)
addLayerItem_ignores_write(l) ==
    /\ At("add", l)
    /\ mem' = [mem EXCEPT ![l] = IF @ = "absent" THEN "live" ELSE @]
    /\ Written \/ NotWritten
    /\ acked' = acked \cup {l}
    /\ op' = NoOp
    /\ UNCHANGED <<refs, dirs, up>>

(* A layer that is listed already is an error.  When the list cannot be    *)
(* written the layer stays in memory.                                      *)
addLayerItem(l) ==
    /\ At("add", l)
    /\ \/ /\ mem[l] # "absent"
          /\ UNCHANGED <<mem, disk, file, acked, met>>
       \/ /\ mem[l] = "absent"
          /\ mem' = [mem EXCEPT ![l] = "live"]
          /\ \/ Written /\ acked' = acked \cup {l}
             \/ NotWritten /\ acked' = acked
    /\ op' = NoOp
    /\ UNCHANGED <<refs, dirs, up>>

-----------------------------------------------------------------------------
(* Removing a layer                                                        *)

(* Without a ref there is nothing to remove, says ostree: an error. *)
removeOstreeRef(l) ==
    /\ Idle
    /\ mem[l] # "absent"
    /\ l \in refs
    /\ refs' = refs \ {l}
    /\ op' = Op("delete", l)
    /\ acked' = acked \ {l}
    /\ UNCHANGED <<dirs, mem, disk, file, up, met>>

(* Mutant: the result of writeToDisk is not looked at. *)
deleteLayerItem_ignores_write(l) ==
    /\ At("delete", l)
    /\ mem' = [mem EXCEPT ![l] = "absent"]
    /\ Written \/ NotWritten
    /\ op' = Op("rmdir", l)
    /\ UNCHANGED <<refs, dirs, up, acked>>

(* When the list cannot be written the directory stays. *)
deleteLayerItem(l) ==
    /\ At("delete", l)
    /\ mem' = [mem EXCEPT ![l] = "absent"]
    /\ \/ Written /\ op' = Op("rmdir", l)
       \/ NotWritten /\ op' = NoOp
    /\ UNCHANGED <<refs, dirs, up, acked>>

(* A directory that cannot be removed is logged. *)
removeLayerDir(l) ==
    /\ At("rmdir", l)
    /\ \/ dirs' = [dirs EXCEPT ![l] = "none"] /\ UNCHANGED met
       \/ Meet("rmdir") /\ dirs' = [dirs EXCEPT ![l] = "partial"]
    /\ op' = NoOp
    /\ UNCHANGED <<refs, mem, disk, file, up, acked>>

-----------------------------------------------------------------------------

(* Mutant: every layer that matches the query is marked, not the first. *)
markDeleted_all(l, deleted) ==
    /\ Idle
    /\ mem[l] # "absent"
    /\ mem' = [k \in Layers |-> IF mem[k] = "absent" THEN "absent" ELSE IF deleted THEN "deleted" ELSE "live"]
    /\ Written
    /\ UNCHANGED <<refs, dirs, op, up, acked>>

(* A mark that cannot be written is taken back. *)
markDeleted(l, deleted) ==
    /\ Idle
    /\ mem[l] # "absent"
    /\ mem' = [mem EXCEPT ![l] = IF deleted THEN "deleted" ELSE "live"]
    /\ Written
    /\ UNCHANGED <<refs, dirs, op, up, acked>>

(* Every merge of modules writes the whole list. *)
updateMergedItems ==
    /\ Idle
    /\ mem' = mem
    /\ Written
    /\ UNCHANGED <<refs, dirs, op, up, acked>>

(* The daemon is stopped; a directory may be half removed. *)
Crash ==
    /\ up
    /\ Meet("crash")
    /\ up' = FALSE
    /\ mem' = NoLayers
    /\ op' = NoOp
    /\ \/ dirs' = dirs
       \/ \E l \in Layers : op = Op("rmdir", l) /\ dirs' = [dirs EXCEPT ![l] = "partial"]
    /\ UNCHANGED <<refs, disk, file, acked>>

(* One live layer for each ref. *)
rebuildCache == [l \in Layers |-> IF l \in refs THEN "live" ELSE "absent"]

(* The list is read, or rebuilt if it cannot be parsed or is of another    *)
(* version; when the rebuilt one cannot be written the daemon aborts.      *)
create ==
    /\ ~up
    /\ up' = TRUE
    /\ \/ file = "whole" /\ mem' = disk /\ UNCHANGED <<disk, file, met>>
       \/ /\ file = "short" \/ "upgrade" \in Faults
          /\ mem' = rebuildCache
          /\ \/ disk' = mem' /\ file' = "whole" /\ met' = met \cup {"rebuild"}
             \/ /\ "short" \in Faults /\ disk' = NoLayers /\ file' = "short"
                /\ met' = met \cup {"rebuild", "short"}
    /\ UNCHANGED <<refs, dirs, op, acked>>

Next ==
    \/ \E l \in Layers :
          \/ pull(l) \/ importLayerDir(l)
          \/ ensureEmptyLayerDir(l) \/ checkout(l) \/ addLayerItem(l)
          \/ removeOstreeRef(l) \/ deleteLayerItem(l) \/ removeLayerDir(l)
          \/ \E deleted \in BOOLEAN : markDeleted(l, deleted)
    \/ updateMergedItems
    \/ Crash
    \/ create

Spec == Init /\ [][Next]_vars

-----------------------------------------------------------------------------
(* Properties                                                              *)

(* Types, and what an operation has done by the stage it has reached: a    *)
(* layer about to be listed is referenced and checked out.                 *)
TypeOK ==
    /\ refs \in SUBSET Layers
    /\ dirs \in [Layers -> {"none", "partial", "full"}]
    /\ mem \in [Layers -> Status]
    /\ disk \in [Layers -> Status]
    /\ op = NoOp \/ \E l \in Layers, at \in Stages : op = Op(at, l)
    /\ up \in BOOLEAN
    /\ file \in {"whole", "short"}
    /\ acked \in SUBSET Layers
    /\ met \in SUBSET (Faults \cup {"rebuild"})
    /\ \A l \in Layers : /\ op.at \in {"ensure", "checkout", "add"} /\ l \in op.layer => l \in refs
                         /\ op = Op("add", l) => dirs[l] = "full"

(* Whatever ll-cli finds in states.json it can open: a layer is listed     *)
(* after its checkout and before its removal, whichever step fails, until  *)
(* the list is rebuilt from the refs.                                      *)
ListedIsComplete ==
    "rebuild" \notin met => \A l \in Layers : disk[l] # "absent" => dirs[l] = "full"

(* addLayerItem never finds the layer it adds (it asserts that), until the *)
(* list is rebuilt: then it holds layers whose checkout was cut short.     *)
AddedIsNew ==
    "rebuild" \notin met => \A l \in Layers : At("add", l) => mem[l] = "absent"

(* A layer that was added with success and that nobody began to remove is  *)
(* there, listed and referenced, after any crash, failure or rebuild.  If  *)
(* states.json was cut short nobody can read it, and the list is made from *)
(* the refs again.                                                         *)
InstalledSurvives ==
    \A l \in acked :
        /\ dirs[l] = "full"
        /\ l \in refs
        /\ disk[l] # "absent" \/ file = "short"
        /\ up => mem[l] # "absent"

(* Why the two hold: memory, which the next write copies, lists only       *)
(* complete layers too, and neither lists one being removed or added.      *)
CompletePlaces ==
    \A l \in Layers :
        /\ disk[l] # "absent" => dirs[l] = "full"
        /\ mem[l] # "absent" => dirs[l] = "full"
        /\ op \in {Op("rmdir", l), Op("checkout", l), Op("add", l)}
               => mem[l] = "absent" /\ disk[l] = "absent"

CompleteInv == "rebuild" \notin met => CompletePlaces

(* Why InstalledSurvives holds: no operation that takes a layer apart is   *)
(* in progress on one that is to stay.                                     *)
SurvivesInv ==
    /\ InstalledSurvives
    /\ \A l \in Layers : op \in {Op("checkout", l), Op("delete", l), Op("rmdir", l)} => l \notin acked

(* No write has failed and the list has not been rebuilt. *)
AllWritten == met \cap {"write", "short", "rebuild"} = {}

(* Why states.json is a table: memory is what was written last. *)
CoherentInv == AllWritten /\ up => mem = disk

(* states.json is a table that changes one layer at a time. *)
Table == INSTANCE LayerStore WITH listed <- disk

(* Crashes, full disks and directories that stay behind do not show in it: *)
(* until a write fails or the list is rebuilt, a step of the daemon is one *)
(* of the table or leaves it alone.                                        *)
LayerStoreSpec == Table!Init /\ [][AllWritten' => [Table!Next]_disk]_vars
=============================================================================
