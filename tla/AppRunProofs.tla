---------------------------- MODULE AppRunProofs ----------------------------
(***************************************************************************)
(* AppRun for any number of ll-cli processes, any set of versions and any  *)
(* faults: what the order of lock, file, dump and start protects, and what *)
(* an ll-cli that ended may leave behind.                                  *)
(***************************************************************************)
EXTENDS AppRun, TLAPS

(* Where a process has a file that says nothing yet, and where one that    *)
(* says what it runs, or was written short.                                *)
Unfilled == {"file", "resolved", "bundled"}
Filled == {"join", "joined", "dumped", "running"}
Over == {"returned", "failed", "killed"}

Chosen == {"resolved", "bundled"} \cup Filled

ProcRecord == [at : Ats, pid : Pids \cup {0}, v : Versions \cup {0},
               snap : SUBSET Versions, join : Procs \cup {0}]
FileRecord == [kind : {"none", "empty", "short", "info"}, app : Versions \cup {0}, box : Procs \cup {0}]

DaemonTypeOK ==
    pm \in [at : {"idle", "look", "act"}, job : {"none", "upgrade", "uninstall", "deferred"},
            v : Versions \cup {0}, todo : SUBSET Pids, busy : SUBSET (Versions \cup {0}),
            missed : SUBSET Procs]

(* The file of a process says how far the process is. *)
OwnFile ==
    \A p \in Procs : /\ Live(p) => proc[p].pid \in Pids
                     /\ proc[p].at \in Unfilled => file[proc[p].pid] = EmptyFile
                     /\ proc[p].at \in Filled => file[proc[p].pid] \in {InfoOf(p), ShortFile}

(* A file that names a version was written by a process that still uses    *)
(* it, or by one that was killed.                                          *)
Written ==
    \A q \in Pids : \/ file[q] = NoFile
                    \/ file[q] \in {EmptyFile, ShortFile}
                    \/ \E o \in Procs : /\ proc[o].pid = q
                                       /\ proc[o].at \in Filled \cup {"killed"}
                                       /\ file[q] = [kind |-> "info", app |-> proc[o].v, box |-> o]

(* Every process has been seen by the daemon, or counts as missed, when    *)
(* its pid was read ...                                                    *)
SeenWhileLooking ==
    pm.at = "look" =>
      \A p \in Procs :
         Live(p) /\ proc[p].pid \notin pm.todo =>
            \/ p \in pm.missed
            \/ proc[p].at = "new"
            \/ proc[p].at = "checked" /\ file[proc[p].pid] # NoFile
            \/ proc[p].at \in Filled /\ proc[p].v \in pm.busy

(* ... so that a version about to be removed is used by missed ones only. *)
SeenWhenActing ==
    pm.at = "act" =>
      \A p \in Procs :
         \/ p \in pm.missed
         \/ proc[p].at \in Over
         \/ proc[p].at \in {"none", "new"} /\ pm.job = "deferred"
         \/ proc[p].at = "checked" /\ file[proc[p].pid] # NoFile
         \/ proc[p].at \in Filled /\ proc[p].v # pm.v

(* NoAppLosesVersion, from the moment the version is chosen. *)
NoChosenVersionLost ==
    \A p \in Procs :
       proc[p].at \in Chosen => /\ proc[p].v \in Versions
                                /\ layers[proc[p].v] = "removed" => p \in late

(* Bundles and containers belong to processes that are far enough. *)
Possessions ==
    /\ \A p \in bundle : proc[p].at \in {"bundled", "dumped", "running", "failed", "killed"}
    /\ \A c \in boxes : proc[c].at \in {"running", "killed"}

IInv == /\ TypeOK
        /\ DaemonTypeOK
        /\ OwnFile
        /\ Written
        /\ SeenWhileLooking
        /\ SeenWhenActing
        /\ NoChosenVersionLost
        /\ Possessions

-----------------------------------------------------------------------------
(* The steps of ll-cli                                                     *)

(* Two live processes have different pids. *)
LEMMA PidsDiffer ==
    ASSUME TypeOK, OwnFile, NEW p \in Procs, NEW o \in Procs, Live(p), Live(o), p # o
    PROVE  proc[p].pid # proc[o].pid /\ proc[p].pid \in Pids /\ proc[o].pid \in Pids
  BY DEF TypeOK, OwnFile

(* Process p goes on and is now r; f is what its file says then.  What     *)
(* each step of ll-cli has to respect:                                     *)
(*   the file is empty or filled as the place of the process says, and     *)
(*   stays behind only when the process did not make it or was killed;     *)
(*   the places are passed in their order, and the first one only while    *)
(*   nobody holds the lock;                                                *)
(*   a version that was removed is not chosen.                             *)
LEMMA Advance ==
    ASSUME IInv, NEW p \in Procs, NEW r \in ProcRecord, NEW f \in FileRecord,
           Live(p), r.pid = proc[p].pid, r.at # "none",
           proc' = [proc EXCEPT ![p] = r], file' = [file EXCEPT ![r.pid] = f],
           owner' = IF r.at \in Over THEN [owner EXCEPT ![r.pid] = Nobody] ELSE owner,
           layers' = layers, pm' = pm, late' = late,
           r.at \in Unfilled => f = EmptyFile,
           r.at \in Filled => f \in {[kind |-> "info", app |-> r.v, box |-> p], ShortFile},
           \/ f = NoFile \/ f = EmptyFile \/ r.at \in Filled
           \/ f = file[r.pid] /\ r.at = "killed" /\ r.v = proc[p].v
           \/ f = file[r.pid] /\ proc[p].at \in {"new", "checked"},
           \/ r.at \in Over
           \/ proc[p].at = "new" /\ r.at = "checked" /\ ~Locked /\ f = file[r.pid]
           \/ proc[p].at = "checked" /\ file[r.pid] = NoFile /\ r.at = "file"
           \/ proc[p].at \in Unfilled /\ r.at \in Unfilled \cup Filled
           \/ proc[p].at \in Filled /\ r.at \in Filled /\ r.v = proc[p].v,
           r.at \in Chosen => \/ r.v \in Versions /\ layers[r.v] # "removed"
                              \/ proc[p].at \in Chosen /\ r.v = proc[p].v,
           bundle' \subseteq bundle \cup {p}, boxes' \subseteq boxes \cup {p},
           p \in bundle' => r.at \in {"bundled", "dumped", "running", "failed", "killed"},
           p \in boxes' => r.at \in {"running", "killed"}
    PROVE  IInv'
  <1> USE DEF Live, Filled, Unfilled, Over, ProcRecord, FileRecord
  <1>1. /\ proc \in [Procs -> ProcRecord] /\ file \in [Pids -> FileRecord]
        /\ owner \in [Pids -> Procs \cup {Nobody, Stranger}]
    BY DEF IInv, TypeOK
  <1>2. r.pid \in Pids /\ owner[r.pid] = p
    BY DEF IInv, TypeOK, OwnFile
  <1>3. proc'[p] = r /\ \A o \in Procs \ {p} : proc'[o] = proc[o]
    BY <1>1
  <1>4. file'[r.pid] = f /\ \A q \in Pids \ {r.pid} : file'[q] = file[q]
    BY <1>1, <1>2
  <1>5. \A o \in Procs \ {p} : Live(o) => proc[o].pid \in Pids \ {r.pid} /\ owner[proc[o].pid] = o
    BY <1>2 DEF IInv, TypeOK, OwnFile
  <1>6. \A q \in Pids \ {r.pid} : owner'[q] = owner[q]
    BY <1>1, <1>2
  <1>7. r.at \notin Over => owner'[r.pid] = p
    BY <1>2
  <1>8. /\ proc' \in [Procs -> ProcRecord] /\ file' \in [Pids -> FileRecord]
        /\ owner' \in [Pids -> Procs \cup {Nobody, Stranger}]
    BY <1>1, <1>2
  <1>9. OwnFile'
    <2> SUFFICES ASSUME NEW o \in Procs
                 PROVE  /\ Live(o)' => proc'[o].pid \in Pids
                        /\ proc'[o].at \in Unfilled => file'[proc'[o].pid] = EmptyFile
                        /\ proc'[o].at \in Filled => file'[proc'[o].pid] \in {InfoOf(o)', ShortFile}
      BY DEF OwnFile
    <2>1. CASE o = p
      BY <1>2, <1>3, <1>4, <2>1 DEF InfoOf
    <2>2. CASE o # p
      BY <1>3, <1>4, <1>5, <2>2 DEF IInv, OwnFile, InfoOf
    <2> QED
      BY <2>1, <2>2
  <1>10. TypeOK'
    <2>1. \A o \in Procs : Live(o)' => owner'[proc'[o].pid] = o
      BY <1>3, <1>5, <1>6, <1>7
    <2>2. \A o \in Procs : proc'[o].at \in {"running", "joined"} => file'[proc'[o].pid] \in {InfoOf(o)', ShortFile}
      BY <1>9 DEF OwnFile
    <2>3. boxes' \subseteq Procs /\ bundle' \subseteq Procs /\ late' \subseteq Procs
      BY DEF IInv, TypeOK
    <2> QED
      BY <1>8, <2>1, <2>2, <2>3 DEF IInv, TypeOK
  <1>11. DaemonTypeOK'
    BY DEF IInv, DaemonTypeOK
  <1>12. Written'
    <2> SUFFICES ASSUME NEW q \in Pids, file'[q] # NoFile, file'[q] \notin {EmptyFile, ShortFile}
                 PROVE  \E o \in Procs : /\ proc'[o].pid = q
                                         /\ proc'[o].at \in Filled \cup {"killed"}
                                         /\ file'[q] = [kind |-> "info", app |-> proc'[o].v, box |-> o]
      BY DEF Written
    <2>1. CASE q # r.pid
      <3>1. PICK o \in Procs : /\ proc[o].pid = q
                               /\ proc[o].at \in Filled \cup {"killed"}
                               /\ file[q] = [kind |-> "info", app |-> proc[o].v, box |-> o]
        BY <1>4, <2>1 DEF IInv, Written
      <3>2. o # p
        BY <2>1, <3>1
      <3> QED
        BY <1>3, <1>4, <2>1, <3>1, <3>2
    <2>2. CASE q = r.pid /\ r.at \in Filled
      BY <1>3, <1>4, <2>2
    <2>3. CASE q = r.pid /\ r.at \notin Filled
      <3>1. f = file[q] /\ ((r.at = "killed" /\ r.v = proc[p].v) \/ proc[p].at \in {"new", "checked"})
        BY <1>4, <2>3
      <3>2. file'[q] = file[q]
        BY <1>4, <2>3, <3>1
      <3>3. PICK o \in Procs : /\ proc[o].pid = q
                               /\ proc[o].at \in Filled \cup {"killed"}
                               /\ file[q] = [kind |-> "info", app |-> proc[o].v, box |-> o]
        <4>1. file[q] # NoFile /\ file[q] \notin {EmptyFile, ShortFile}
          BY <3>2
        <4> QED
          BY ONLY IInv, <4>1, q \in Pids DEF IInv, Written
      <3>4. CASE o = p
        <4>1. r.at = "killed" /\ r.v = proc[p].v
          BY <3>1, <3>3, <3>4
        <4>2. proc'[p].pid = q /\ proc'[p].at = "killed" /\ proc'[p].v = proc[p].v
          BY <1>3, <2>3, <4>1
        <4>3. file'[q] = [kind |-> "info", app |-> proc'[p].v, box |-> p]
          BY <3>2, <3>3, <3>4, <4>2
        <4> QED
          BY <4>2, <4>3
      <3>5. CASE o # p
        BY <1>3, <3>2, <3>3, <3>5
      <3> QED
        BY <3>4, <3>5
    <2> QED
      BY <2>1, <2>2, <2>3
  <1>13. SeenWhileLooking'
    <2> SUFFICES ASSUME pm.at = "look", NEW o \in Procs, Live(o)', proc'[o].pid \notin pm.todo
                 PROVE  \/ o \in pm.missed
                        \/ proc'[o].at = "new"
                        \/ proc'[o].at = "checked" /\ file'[proc'[o].pid] # NoFile
                        \/ proc'[o].at \in Filled /\ proc'[o].v \in pm.busy
      BY DEF SeenWhileLooking
    <2>1. CASE o = p
      <3>1. \/ p \in pm.missed
            \/ proc[p].at = "new"
            \/ proc[p].at = "checked" /\ file[r.pid] # NoFile
            \/ proc[p].at \in Filled /\ proc[p].v \in pm.busy
        BY <1>3, <2>1 DEF IInv, SeenWhileLooking
      <3>2. Locked
        BY DEF Locked
      <3> QED
        BY <1>3, <1>4, <2>1, <3>1, <3>2
    <2>2. CASE o # p
      BY <1>3, <1>4, <1>5, <2>2 DEF IInv, SeenWhileLooking
    <2> QED
      BY <2>1, <2>2
  <1>14. SeenWhenActing'
    <2> SUFFICES ASSUME pm.at = "act", NEW o \in Procs
                 PROVE  \/ o \in pm.missed
                        \/ proc'[o].at \in Over
                        \/ proc'[o].at \in {"none", "new"} /\ pm.job = "deferred"
                        \/ proc'[o].at = "checked" /\ file'[proc'[o].pid] # NoFile
                        \/ proc'[o].at \in Filled /\ proc'[o].v # pm.v
      BY DEF SeenWhenActing
    <2>1. CASE o = p
      <3>1. \/ p \in pm.missed
            \/ proc[p].at \in {"none", "new"} /\ pm.job = "deferred"
            \/ proc[p].at = "checked" /\ file[r.pid] # NoFile
            \/ proc[p].at \in Filled /\ proc[p].v # pm.v
        BY <2>1 DEF IInv, SeenWhenActing
      <3>2. pm.job = "deferred" => Locked
        BY DEF Locked
      <3> QED
        BY <1>3, <1>4, <2>1, <3>1, <3>2
    <2>2. CASE o # p
      BY <1>3, <1>4, <1>5, <2>2 DEF IInv, SeenWhenActing
    <2> QED
      BY <2>1, <2>2
  <1>15. NoChosenVersionLost'
    BY <1>3 DEF IInv, NoChosenVersionLost, Chosen
  <1>16. Possessions'
    BY <1>3 DEF IInv, Possessions, TypeOK
  <1> QED
    BY <1>9, <1>10, <1>11, <1>12, <1>13, <1>14, <1>15, <1>16 DEF IInv

(* What a process knows and owns while it lives. *)
LEMMA LiveFacts ==
    ASSUME IInv, NEW p \in Procs, Live(p)
    PROVE  /\ proc \in [Procs -> ProcRecord] /\ proc[p] \in ProcRecord
           /\ proc[p].pid \in Pids
           /\ file \in [Pids -> FileRecord] /\ file[proc[p].pid] \in FileRecord
           /\ p \in bundle => proc[p].at \in {"bundled", "dumped", "running"}
           /\ p \in boxes => proc[p].at = "running"
  <1>1. proc \in [Procs -> ProcRecord] /\ file \in [Pids -> FileRecord]
    BY DEF IInv, TypeOK, ProcRecord, FileRecord
  <1>2. proc[p].pid \in Pids
    BY DEF IInv, OwnFile
  <1>3. /\ p \in bundle => proc[p].at \in {"bundled", "dumped", "running"}
        /\ p \in boxes => proc[p].at = "running"
    BY DEF IInv, Possessions, Live
  <1> QED
    BY <1>1, <1>2, <1>3

(* Exit: the file goes with the process unless that was killed or had not  *)
(* made it.                                                                *)
LEMMA ExitIInv ==
    ASSUME IInv, NEW p \in Procs, NEW at \in Over, NEW rmFile \in BOOLEAN, Live(p), Exit(p, at, rmFile),
           rmFile \/ at = "killed" \/ proc[p].at = "checked",
           layers' = layers, pm' = pm, late' = late,
           bundle' \subseteq bundle \cup {p}, boxes' = boxes,
           p \in bundle' => at \in {"failed", "killed"},
           p \in boxes => at = "killed"
    PROVE  IInv'
  <1> DEFINE r == [proc[p] EXCEPT !.at = at]
             f == IF rmFile THEN NoFile ELSE file[proc[p].pid]
  <1>1. r \in ProcRecord /\ r.pid = proc[p].pid /\ r.at = at /\ r.v = proc[p].v
    BY LiveFacts DEF ProcRecord, Over, Ats
  <1>2. f \in FileRecord
    BY LiveFacts DEF FileRecord, NoFile
  <1>3. proc' = [proc EXCEPT ![p] = r]
    BY LiveFacts DEF Exit
  <1>4. file' = [file EXCEPT ![r.pid] = f]
    BY <1>1, LiveFacts DEF Exit
  <1>5. owner' = IF r.at \in Over THEN [owner EXCEPT ![r.pid] = Nobody] ELSE owner
    BY <1>1 DEF Exit
  <1>6. \/ f = NoFile
        \/ f = file[r.pid] /\ r.at = "killed" /\ r.v = proc[p].v
        \/ f = file[r.pid] /\ proc[p].at \in {"new", "checked"}
    BY <1>1
  <1>7. /\ r.at \in Over /\ r.at # "none" /\ r.at \notin Unfilled /\ r.at \notin Filled /\ r.at \notin Chosen
        /\ p \in bundle' => r.at \in {"bundled", "dumped", "running", "failed", "killed"}
        /\ p \in boxes' => r.at \in {"running", "killed"}
        /\ boxes' \subseteq boxes \cup {p}
    BY <1>1 DEF Over, Unfilled, Filled, Chosen
  <1> HIDE DEF r, f
  <1> QED
    BY <1>1, <1>2, <1>3, <1>4, <1>5, <1>6, <1>7, Advance

(* A process goes on to at, with version v and container j, and its file   *)
(* is as it was or, as g, says what the process runs or was written short. *)
LEMMA MoveIInv ==
    ASSUME IInv, NEW p \in Procs, NEW at \in Unfilled \cup Filled, NEW v \in Versions \cup {0},
           NEW j \in Procs \cup {0}, Live(p), proc[p].at \in Unfilled \cup Filled,
           NEW g \in {[kind |-> "info", app |-> v, box |-> p], ShortFile},
           proc' = [proc EXCEPT ![p].at = at, ![p].v = v, ![p].join = j],
           file' = IF at \in Unfilled \/ proc[p].at \in Filled THEN file
                   ELSE [file EXCEPT ![proc[p].pid] = g],
           owner' = owner, layers' = layers, pm' = pm, late' = late,
           proc[p].at \in Filled => at \in Filled,
           proc[p].at \in Chosen => v = proc[p].v,
           at \in Chosen => (v \in Versions /\ layers[v] # "removed") \/ proc[p].at \in Chosen,
           bundle' \subseteq bundle \cup {p}, boxes' \subseteq boxes \cup {p},
           p \in bundle' => at \in {"bundled", "dumped", "running"},
           p \in boxes' => at = "running"
    PROVE  IInv'
  <1> DEFINE r == [proc[p] EXCEPT !.at = at, !.v = v, !.join = j]
             f == IF at \in Unfilled THEN EmptyFile ELSE IF proc[p].at \in Filled THEN file[proc[p].pid] ELSE g
  <1>0. proc[p] \in ProcRecord /\ at \in Ats
    BY LiveFacts DEF Unfilled, Filled, Ats
  <1>1. r \in ProcRecord /\ r.pid = proc[p].pid /\ r.at = at /\ r.v = v
    BY ONLY <1>0, v \in Versions \cup {0}, j \in Procs \cup {0} DEF ProcRecord
  <1>2. f \in FileRecord
    <2>1. EmptyFile \in FileRecord /\ ShortFile \in FileRecord /\ [kind |-> "info", app |-> v, box |-> p] \in FileRecord
      BY DEF FileRecord, EmptyFile, ShortFile, NoFile
    <2> QED
      BY <2>1, LiveFacts
  <1>3. proc' = [proc EXCEPT ![p] = r]
    BY LiveFacts
  <1>4. file' = [file EXCEPT ![r.pid] = f]
    <2>1. CASE at \in Unfilled
      <3>1. file[proc[p].pid] = EmptyFile
        BY <2>1 DEF IInv, OwnFile, Unfilled, Filled
      <3> QED
        BY <1>1, <2>1, <3>1, LiveFacts
    <2>2. CASE at \notin Unfilled /\ proc[p].at \in Filled
      BY <1>1, <2>2, LiveFacts
    <2>3. CASE at \notin Unfilled /\ proc[p].at \notin Filled
      BY <1>1, <2>3
    <2> QED
      BY <2>1, <2>2, <2>3
  <1>5. r.at \notin Over /\ r.at # "none"
    BY <1>1 DEF Over, Unfilled, Filled
  <1>6. owner' = IF r.at \in Over THEN [owner EXCEPT ![r.pid] = Nobody] ELSE owner
    BY <1>5
  <1>7. /\ r.at \in Unfilled => f = EmptyFile
        /\ r.at \in Filled => f \in {[kind |-> "info", app |-> r.v, box |-> p], ShortFile}
        /\ f = EmptyFile \/ r.at \in Filled
    <2>1. proc[p].at \in Filled => v = proc[p].v
      BY DEF Chosen
    <2>2. proc[p].at \in Filled => file[proc[p].pid] \in {[kind |-> "info", app |-> v, box |-> p], ShortFile}
      BY <2>1 DEF IInv, OwnFile, InfoOf
    <2> QED
      BY <1>1, <2>2 DEF Unfilled, Filled
  <1>8. \/ proc[p].at \in Unfilled /\ r.at \in Unfilled \cup Filled
        \/ proc[p].at \in Filled /\ r.at \in Filled /\ r.v = proc[p].v
    BY <1>1 DEF Chosen
  <1>9. /\ r.at \in Chosen => \/ r.v \in Versions /\ layers[r.v] # "removed"
                              \/ proc[p].at \in Chosen /\ r.v = proc[p].v
        /\ p \in bundle' => r.at \in {"bundled", "dumped", "running", "failed", "killed"}
        /\ p \in boxes' => r.at \in {"running", "killed"}
    BY <1>1
  <1> HIDE DEF r, f
  <1> QED
    BY <1>1, <1>2, <1>3, <1>4, <1>5, <1>6, <1>7, <1>8, <1>9, Advance

(* The steps of ll-cli before it has chosen a version. *)
LEMMA StartupIInv ==
    ASSUME IInv, NEW p \in Procs, lockCheck(p) \/ createPidFile(p)
    PROVE  IInv'
  <1>0. Live(p)
    BY DEF lockCheck, createPidFile, Live
  <1>1. CASE lockCheck(p)
    <2> DEFINE r == [proc[p] EXCEPT !.at = "checked", !.snap = {v \in Versions : layers[v] = "installed"}]
               f == file[proc[p].pid]
    <2>1. r \in ProcRecord /\ r.pid = proc[p].pid /\ r.at = "checked" /\ r.v = proc[p].v
      BY <1>0, LiveFacts DEF ProcRecord, Ats
    <2>2. f \in FileRecord /\ f = file[r.pid] /\ proc[p].at = "new" /\ ~Locked
      BY <1>0, <1>1, <2>1, LiveFacts DEF lockCheck
    <2>3. proc' = [proc EXCEPT ![p] = r]
      BY <1>0, <1>1, LiveFacts DEF lockCheck
    <2>4. file' = [file EXCEPT ![r.pid] = f]
      BY <1>0, <1>1, <2>1, LiveFacts DEF lockCheck
    <2>5. /\ r.at \notin Over /\ r.at # "none" /\ r.at \notin Unfilled /\ r.at \notin Filled /\ r.at \notin Chosen
          /\ owner' = owner /\ layers' = layers /\ pm' = pm /\ late' = late
          /\ bundle' = bundle /\ boxes' = boxes /\ p \notin bundle /\ p \notin boxes
      BY <1>0, <1>1, <2>1, <2>2, LiveFacts DEF lockCheck, Over, Unfilled, Filled, Chosen
    <2> HIDE DEF r, f
    <2> QED
      BY <1>0, <2>1, <2>2, <2>3, <2>4, <2>5, Advance
  <1>2. CASE createPidFile(p) /\ file[proc[p].pid] = NoFile
    <2> DEFINE r == [proc[p] EXCEPT !.at = "file"]
               f == EmptyFile
    <2>1. r \in ProcRecord /\ r.pid = proc[p].pid /\ r.at = "file"
      BY <1>0, LiveFacts DEF ProcRecord, Ats
    <2>2. f \in FileRecord /\ proc[p].at = "checked" /\ file[r.pid] = NoFile
      BY <1>2, <2>1 DEF createPidFile, FileRecord, EmptyFile, NoFile
    <2>3. proc' = [proc EXCEPT ![p] = r]
      BY <1>0, <1>2, LiveFacts DEF createPidFile
    <2>4. file' = [file EXCEPT ![r.pid] = f]
      BY <1>2, <2>1 DEF createPidFile
    <2>5. /\ r.at \notin Over /\ r.at # "none" /\ r.at \notin Filled /\ r.at \notin Chosen
          /\ owner' = owner /\ layers' = layers /\ pm' = pm /\ late' = late
          /\ bundle' = bundle /\ boxes' = boxes /\ p \notin bundle /\ p \notin boxes
      BY <1>0, <1>2, <2>1, <2>2, LiveFacts DEF createPidFile, Over, Filled, Chosen
    <2> HIDE DEF r
    <2> QED
      BY <1>0, <2>1, <2>2, <2>3, <2>4, <2>5, Advance
  <1>3. CASE createPidFile(p) /\ file[proc[p].pid] # NoFile
    BY <1>0, <1>3, LiveFacts, ExitIInv DEF createPidFile, Over
  <1> QED
    BY <1>1, <1>2, <1>3

(* The steps from the choice of a version to its start. *)
LEMMA LaunchIInv ==
    ASSUME IInv, NEW p \in Procs,
           resolve(p) \/ enter(p) \/ exec(p) \/ create(p) \/ dump(p) \/ run(p)
    PROVE  IInv'
  <1>0. Live(p) /\ proc[p].at \in Unfilled \cup Filled
    BY DEF resolve, enter, exec, create, dump, run, Live, Unfilled, Filled
  <1>1. /\ proc \in [Procs -> ProcRecord] /\ proc[p] \in ProcRecord
        /\ p \in bundle => proc[p].at \in {"bundled", "dumped", "running"}
        /\ p \in boxes => proc[p].at = "running"
    BY <1>0, LiveFacts
  <1>2. proc[p].v \in Versions \cup {0} /\ proc[p].join \in Procs \cup {0} /\ proc[p].snap \subseteq Versions
    BY <1>1 DEF ProcRecord
  <1>3. \A at : [proc EXCEPT ![p].at = at]
                  = [proc EXCEPT ![p].at = at, ![p].v = proc[p].v, ![p].join = proc[p].join]
    BY <1>1 DEF ProcRecord
  <1>4. ASSUME Exit(p, "failed", TRUE), layers' = layers, pm' = pm, late' = late, boxes' = boxes,
               bundle' \subseteq bundle \cup {p}, proc[p].at # "running"
        PROVE  IInv'
    BY <1>0, <1>1, <1>4, ExitIInv DEF Over
  <1>5. CASE resolve(p)
    <2>1. CASE Exit(p, "failed", TRUE)
      BY <1>4, <1>5, <2>1 DEF resolve
    <2>2. CASE ~Exit(p, "failed", TRUE)
      <3>1. PICK v \in Highest(proc[p].snap) :
               layers[v] # "removed" /\ proc' = [proc EXCEPT ![p].at = "resolved", ![p].v = v]
        BY <1>5, <2>2 DEF resolve
      <3>2. v \in Versions
        BY <1>2, <3>1 DEF Highest
      <3>3. proc' = [proc EXCEPT ![p].at = "resolved", ![p].v = v, ![p].join = proc[p].join]
        BY <1>1, <3>1 DEF ProcRecord
      <3>4. /\ "resolved" \in Unfilled /\ proc[p].at \notin Chosen /\ proc[p].at \notin Filled
            /\ file' = file /\ owner' = owner /\ layers' = layers /\ pm' = pm /\ late' = late
            /\ bundle' = bundle /\ boxes' = boxes /\ p \notin bundle /\ p \notin boxes
        BY <1>1, <1>5, <2>2 DEF resolve, Unfilled, Filled, Chosen
      <3> QED
        BY <1>0, <1>2, <3>1, <3>2, <3>3, <3>4, MoveIInv
    <2> QED
      BY <2>1, <2>2
  <1>6. CASE enter(p)
    <2>1. CASE Exit(p, "failed", TRUE)
      BY <1>4, <1>6, <2>1 DEF enter
    <2>2. CASE ~Exit(p, "failed", TRUE)
      <3>1. PICK c \in getCurrentContainers, g \in {InfoOf(p), ShortFile} :
               /\ proc' = [proc EXCEPT ![p].at = "join", ![p].join = c]
               /\ file' = [file EXCEPT ![proc[p].pid] = g] /\ owner' = owner
        BY <1>6, <2>2 DEF enter, dumpContainerInfo
      <3>2. c \in Procs
        BY <3>1 DEF getCurrentContainers, IInv, TypeOK
      <3>3. proc' = [proc EXCEPT ![p].at = "join", ![p].v = proc[p].v, ![p].join = c]
        BY <1>1, <3>1 DEF ProcRecord
      <3>4. /\ "join" \in Filled /\ "join" \notin Unfilled /\ proc[p].at \in Chosen /\ proc[p].at \notin Filled
            /\ g \in {[kind |-> "info", app |-> proc[p].v, box |-> p], ShortFile}
            /\ layers' = layers /\ pm' = pm /\ late' = late
            /\ bundle' = bundle /\ boxes' = boxes /\ p \notin bundle /\ p \notin boxes
        BY <1>1, <1>6, <3>1 DEF enter, InfoOf, Unfilled, Filled, Chosen
      <3> QED
        BY <1>0, <1>2, <3>1, <3>2, <3>3, <3>4, MoveIInv
    <2> QED
      BY <2>1, <2>2
  <1>7. CASE exec(p)
    <2>1. CASE Exit(p, "failed", TRUE)
      BY <1>4, <1>7, <2>1 DEF exec
    <2>2. CASE ~Exit(p, "failed", TRUE)
      <3>1. proc' = [proc EXCEPT ![p].at = "joined", ![p].v = proc[p].v, ![p].join = proc[p].join]
        BY <1>3, <1>7, <2>2 DEF exec
      <3>2. /\ "joined" \in Filled /\ "joined" \notin Unfilled /\ proc[p].at \in Chosen /\ proc[p].at \in Filled
            /\ file' = file /\ owner' = owner /\ layers' = layers /\ pm' = pm /\ late' = late
            /\ bundle' = bundle /\ boxes' = boxes /\ p \notin bundle /\ p \notin boxes
        BY <1>1, <1>7, <2>2 DEF exec, Unfilled, Filled, Chosen
      <3> QED
        BY <1>0, <1>2, <3>1, <3>2, MoveIInv
    <2> QED
      BY <2>1, <2>2
  <1>8. CASE create(p)
    <2>1. CASE Exit(p, "failed", TRUE)
      BY <1>4, <1>8, <2>1 DEF create
    <2>2. CASE ~Exit(p, "failed", TRUE)
      <3>1. proc' = [proc EXCEPT ![p].at = "bundled", ![p].v = proc[p].v, ![p].join = proc[p].join]
        BY <1>3, <1>8, <2>2 DEF create
      <3>2. /\ "bundled" \in Unfilled /\ proc[p].at \in Chosen /\ proc[p].at \notin Filled
            /\ file' = file /\ owner' = owner /\ layers' = layers /\ pm' = pm /\ late' = late
            /\ bundle' = bundle \cup {p} /\ boxes' = boxes /\ p \notin boxes
        BY <1>1, <1>8, <2>2 DEF create, Unfilled, Filled, Chosen
      <3> QED
        BY <1>0, <1>2, <3>1, <3>2, MoveIInv
    <2> QED
      BY <2>1, <2>2
  <1>9. CASE dump(p)
    <2>1. CASE Exit(p, "failed", TRUE)
      BY <1>4, <1>9, <2>1 DEF dump
    <2>2. CASE ~Exit(p, "failed", TRUE)
      <3>0. PICK g \in {InfoOf(p), ShortFile} :
               /\ proc' = [proc EXCEPT ![p].at = "dumped", ![p].join = proc[p].join]
               /\ file' = [file EXCEPT ![proc[p].pid] = g] /\ owner' = owner
        BY <1>9, <2>2 DEF dump, dumpContainerInfo
      <3>1. proc' = [proc EXCEPT ![p].at = "dumped", ![p].v = proc[p].v, ![p].join = proc[p].join]
        BY <1>1, <3>0 DEF ProcRecord
      <3>2. /\ "dumped" \in Filled /\ "dumped" \notin Unfilled /\ proc[p].at \in Chosen /\ proc[p].at \notin Filled
            /\ g \in {[kind |-> "info", app |-> proc[p].v, box |-> p], ShortFile}
            /\ layers' = layers /\ pm' = pm /\ late' = late
            /\ bundle' = bundle /\ boxes' = boxes /\ p \notin boxes
        BY <1>1, <1>9, <3>0 DEF dump, InfoOf, Unfilled, Filled, Chosen
      <3> QED
        BY <1>0, <1>2, <3>0, <3>1, <3>2, MoveIInv
    <2> QED
      BY <2>1, <2>2
  <1>10. CASE run(p)
    <2>1. CASE Exit(p, "failed", TRUE) /\ bundle' = bundle \ {p} /\ boxes' = boxes
      BY <1>4, <1>10, <2>1 DEF run
    <2>2. CASE ~(Exit(p, "failed", TRUE) /\ bundle' = bundle \ {p} /\ boxes' = boxes)
      <3>1. proc' = [proc EXCEPT ![p].at = "running", ![p].v = proc[p].v, ![p].join = proc[p].join]
        BY <1>3, <1>10, <2>2 DEF run
      <3>2. /\ "running" \in Filled /\ "running" \notin Unfilled /\ proc[p].at \in Chosen /\ proc[p].at \in Filled
            /\ file' = file /\ owner' = owner /\ layers' = layers /\ pm' = pm /\ late' = late
            /\ bundle' = bundle /\ boxes' = boxes \cup {p}
        BY <1>1, <1>10, <2>2 DEF run, Unfilled, Filled, Chosen
      <3> QED
        BY <1>0, <1>2, <3>1, <3>2, MoveIInv
    <2> QED
      BY <2>1, <2>2
  <1> QED
    BY <1>5, <1>6, <1>7, <1>8, <1>9, <1>10

(* The ways an ll-cli that started its application ends. *)
LEMMA EndIInv ==
    ASSUME IInv, NEW p \in Procs, finally(p) \/ JoinedEnds(p) \/ Killed(p)
    PROVE  IInv'
  <1>1. CASE finally(p) \/ JoinedEnds(p)
    <2>1. Live(p) /\ p \notin boxes
      BY <1>1, LiveFacts DEF finally, JoinedEnds, Live
    <2>2. p \notin bundle'
      BY <1>1, <2>1, LiveFacts DEF finally, JoinedEnds
    <2> QED
      BY <1>1, <2>1, <2>2, ExitIInv DEF finally, JoinedEnds, Over
  <1>2. CASE Killed(p)
    BY <1>2, ExitIInv DEF Killed, Over
  <1> QED
    BY <1>1, <1>2

(* A process starts. *)
LEMMA SpawnIInv ==
    ASSUME IInv, NEW p \in Procs, NEW q \in Pids, Spawn(p, q)
    PROVE  IInv'
  <1> DEFINE r == [NoProc EXCEPT !.at = "new", !.pid = q]
  <1>1. r \in ProcRecord /\ r.at = "new" /\ r.pid = q
    BY DEF ProcRecord, NoProc, Ats
  <1>2. /\ proc \in [Procs -> ProcRecord] /\ owner \in [Pids -> Procs \cup {Nobody, Stranger}]
        /\ proc[p].at = "none" /\ owner[q] = Nobody /\ p # Nobody
    BY RunAssumption DEF IInv, TypeOK, ProcRecord, Spawn, Procs, Nobody
  <1>3. proc'[p] = r /\ \A o \in Procs \ {p} : proc'[o] = proc[o]
    BY <1>2 DEF Spawn
  <1>4. owner'[q] = p /\ \A x \in Pids \ {q} : owner'[x] = owner[x]
    BY <1>2 DEF Spawn
  <1>5. proc' \in [Procs -> ProcRecord] /\ owner' \in [Pids -> Procs \cup {Nobody, Stranger}]
    BY <1>1, <1>2 DEF Spawn
  <1>6. /\ file' = file /\ boxes' = boxes /\ bundle' = bundle /\ layers' = layers /\ pm' = pm /\ late' = late
    BY DEF Spawn
  <1> HIDE DEF r
  <1>7. OwnFile'
    BY <1>1, <1>3, <1>6 DEF IInv, OwnFile, Live, InfoOf, Unfilled, Filled
  <1>8. TypeOK'
    <2>1. \A o \in Procs : Live(o)' => owner'[proc'[o].pid] = o
      <3> SUFFICES ASSUME NEW o \in Procs, Live(o)'
                   PROVE  owner'[proc'[o].pid] = o
        OBVIOUS
      <3>1. CASE o = p
        BY <1>1, <1>3, <1>4, <3>1
      <3>2. CASE o # p
        <4>1. Live(o) /\ proc'[o] = proc[o]
          BY <1>3, <3>2 DEF Live
        <4>2. owner[proc[o].pid] = o /\ proc[o].pid \in Pids
          BY <4>1 DEF IInv, TypeOK, OwnFile
        <4>3. proc[o].pid # q
          BY <1>2, <4>2 DEF Procs, Nobody
        <4> QED
          BY <1>4, <4>1, <4>2, <4>3
      <3> QED
        BY <3>1, <3>2
    <2>2. \A o \in Procs : proc'[o].at \in {"running", "joined"} => file'[proc'[o].pid] \in {InfoOf(o)', ShortFile}
      BY <1>7 DEF OwnFile, Filled
    <2> QED
      BY <1>5, <1>6, <2>1, <2>2 DEF IInv, TypeOK, ProcRecord
  <1>9. DaemonTypeOK'
    BY <1>6 DEF IInv, DaemonTypeOK
  <1>10. Written'
    <2> SUFFICES ASSUME NEW x \in Pids, file[x] # NoFile, file[x] \notin {EmptyFile, ShortFile}
                 PROVE  \E o \in Procs : /\ proc'[o].pid = x
                                         /\ proc'[o].at \in Filled \cup {"killed"}
                                         /\ file[x] = [kind |-> "info", app |-> proc'[o].v, box |-> o]
      BY <1>6 DEF Written
    <2>1. PICK o \in Procs : /\ proc[o].pid = x
                             /\ proc[o].at \in Filled \cup {"killed"}
                             /\ file[x] = [kind |-> "info", app |-> proc[o].v, box |-> o]
      BY DEF IInv, Written
    <2>2. o # p
      BY <1>2, <2>1 DEF Filled
    <2> QED
      BY <1>3, <2>1, <2>2
  <1>11. SeenWhileLooking'
    BY <1>1, <1>3, <1>6 DEF IInv, SeenWhileLooking, Live
  <1>12. SeenWhenActing'
    BY <1>1, <1>2, <1>3, <1>6 DEF IInv, SeenWhenActing, Over, Filled
  <1>13. NoChosenVersionLost'
    BY <1>1, <1>3, <1>6 DEF IInv, NoChosenVersionLost, Chosen, Filled
  <1>14. Possessions'
    BY <1>2, <1>3, <1>6 DEF IInv, Possessions, TypeOK
  <1> QED
    BY <1>7, <1>8, <1>9, <1>10, <1>11, <1>12, <1>13, <1>14 DEF IInv

(* A container ends, and a pid goes to an unrelated process or back. *)
LEMMA OutsideIInv ==
    ASSUME IInv, \/ \E c \in Procs : AppEnds(c) \/ kill(c)
                 \/ \E q \in Pids : StrangerAt(q)
    PROVE  IInv'
  <1>1. /\ proc' = proc /\ file' = file /\ boxes' \subseteq boxes /\ bundle' = bundle /\ layers' = layers
        /\ pm' = pm /\ late' = late
    BY DEF AppEnds, kill, Ends, StrangerAt
  <1>2. /\ owner' \in [Pids -> Procs \cup {Nobody, Stranger}]
        /\ \A q \in Pids : owner[q] \in Procs => owner'[q] = owner[q]
    <2>1. CASE owner' = owner
      BY <2>1 DEF IInv, TypeOK
    <2>2. CASE \E q \in Pids : StrangerAt(q)
      <3>1. PICK q \in Pids : StrangerAt(q)
        BY <2>2
      <3>2. owner[q] \notin Procs
        BY <3>1, RunAssumption DEF StrangerAt, Procs, Nobody, Stranger
      <3> QED
        BY <3>1, <3>2 DEF StrangerAt, IInv, TypeOK
    <2> QED
      BY <2>1, <2>2 DEF AppEnds, kill, Ends
  <1>3. OwnFile' /\ Written' /\ SeenWhileLooking' /\ SeenWhenActing' /\ NoChosenVersionLost' /\ DaemonTypeOK'
    BY <1>1 DEF IInv, OwnFile, Written, SeenWhileLooking, SeenWhenActing, NoChosenVersionLost, DaemonTypeOK,
                Live, InfoOf
  <1>4. Possessions'
    BY <1>1 DEF IInv, Possessions
  <1>5. TypeOK'
    <2>1. \A p \in Procs : Live(p)' => owner'[proc'[p].pid] = p
      BY <1>1, <1>2 DEF IInv, TypeOK, OwnFile, Live
    <2> QED
      BY <1>1, <1>2, <2>1 DEF IInv, TypeOK, InfoOf
  <1> QED
    BY <1>3, <1>4, <1>5 DEF IInv

-----------------------------------------------------------------------------
(* The steps of the daemon                                                 *)

(* A step of the daemon leaves every process and file alone. *)
LEMMA DaemonFrame ==
    ASSUME IInv, UNCHANGED <<proc, file, owner, boxes, bundle>>, DaemonTypeOK',
           layers' \in [Versions -> {"absent", "installed", "marked", "removed"}], late' \subseteq Procs,
           SeenWhileLooking', SeenWhenActing', NoChosenVersionLost'
    PROVE  IInv'
  BY DEF IInv, TypeOK, OwnFile, Written, Possessions, Live, InfoOf

(* A version is installed, or the daemon takes the lock. *)
LEMMA BeginIInv ==
    ASSUME IInv, NEW v \in Versions, Install(v) \/ \E job \in {"upgrade", "uninstall", "deferred"} : lockRepo(job, v)
    PROVE  IInv'
  <1>1. layers' \in [Versions -> {"absent", "installed", "marked", "removed"}] /\ late' = late
    BY DEF IInv, TypeOK, Install, lockRepo
  <1>2. DaemonTypeOK'
    <2>1. CASE Install(v)
      BY <2>1 DEF IInv, DaemonTypeOK, Install
    <2>2. CASE \E job \in {"upgrade", "uninstall", "deferred"} : lockRepo(job, v)
      <3>1. PICK job \in {"upgrade", "uninstall", "deferred"} :
               pm' = [Idle EXCEPT !.at = "look", !.job = job, !.v = v, !.todo = Pids]
        BY <2>2 DEF lockRepo
      <3> QED
        BY <3>1 DEF DaemonTypeOK, Idle
    <2> QED
      BY <2>1, <2>2
  <1>3. \A w \in Versions : layers'[w] = "removed" => layers[w] = "removed"
    BY RunAssumption DEF IInv, TypeOK, Install, lockRepo
  <1>4. UNCHANGED <<proc, file, owner, boxes, bundle>>
    BY DEF Install, lockRepo
  <1>5. NoChosenVersionLost'
    BY <1>1, <1>3, <1>4 DEF IInv, NoChosenVersionLost, TypeOK
  <1>6. SeenWhileLooking' /\ SeenWhenActing'
    <2>1. CASE Install(v)
      BY <1>4, <2>1 DEF IInv, SeenWhileLooking, SeenWhenActing, Live, Install
    <2>2. CASE pm'.at = "look" /\ pm'.todo = Pids
      BY <1>4, <2>2 DEF IInv, SeenWhileLooking, SeenWhenActing, Live, OwnFile
    <2> QED
      BY <2>1, <2>2 DEF lockRepo, Idle
  <1> QED
    BY <1>1, <1>2, <1>4, <1>5, <1>6, DaemonFrame DEF IInv, TypeOK

(* The daemon reads one file. *)
LEMMA LookIInv ==
    ASSUME IInv, NEW q \in Pids, getAllRunningContainers(q)
    PROVE  IInv'
  <1>1. UNCHANGED <<proc, file, owner, boxes, bundle, layers, late>>
    BY DEF getAllRunningContainers
  <1>2. file[q].app \in Versions \cup {0} /\ file[q] \in FileRecord
    BY DEF IInv, TypeOK, FileRecord
  <1>3. DaemonTypeOK'
    BY <1>2 DEF IInv, DaemonTypeOK, getAllRunningContainers, Idle
  <1>4. NoChosenVersionLost'
    BY <1>1 DEF IInv, NoChosenVersionLost
  <1>5. SeenWhileLooking' /\ SeenWhenActing'
    <2>1. CASE pm' = Idle
      BY <2>1 DEF SeenWhileLooking, SeenWhenActing, Idle
    <2>2. CASE pm' # Idle
      <3>1. /\ pm.at = "look" /\ pm'.at = "look" /\ pm'.todo = pm.todo \ {q}
            /\ pm'.busy = pm.busy \cup (IF owner[q] = Nobody THEN {} ELSE {file[q].app})
            /\ pm'.missed = pm.missed \cup {p \in Procs : owner[q] = p /\ file[q] = NoFile}
            /\ owner[q] = Nobody \/ ~Unreadable(q)
        BY <2>2 DEF getAllRunningContainers, IInv, DaemonTypeOK
      <3>2. ASSUME NEW p \in Procs, Live(p), proc[p].pid \notin pm'.todo
            PROVE  \/ p \in pm'.missed
                   \/ proc[p].at = "new"
                   \/ proc[p].at = "checked" /\ file[proc[p].pid] # NoFile
                   \/ proc[p].at \in Filled /\ proc[p].v \in pm'.busy
        <4>1. CASE proc[p].pid \notin pm.todo
          BY <3>1, <3>2, <4>1 DEF IInv, SeenWhileLooking
        <4>2. CASE proc[p].pid = q
          <5>1. owner[q] = p /\ owner[q] # Nobody
            BY <3>2, <4>2, RunAssumption DEF IInv, TypeOK, Procs, Nobody
          <5>2. CASE proc[p].at \in Filled
            <6>1. file[q] = InfoOf(p)
              BY <3>1, <4>2, <5>1, <5>2 DEF IInv, OwnFile, Unreadable
            <6>2. file[q].app = proc[p].v
              BY <6>1 DEF InfoOf
            <6> QED
              BY <3>1, <5>1, <5>2, <6>2
          <5>3. proc[p].at \notin Unfilled
            BY <3>1, <4>2, <5>1 DEF IInv, OwnFile, Unreadable
          <5>4. CASE proc[p].at = "checked"
            BY <3>1, <4>2, <5>1, <5>4
          <5>5. proc[p].at \in Filled \cup Unfilled \cup {"new", "checked"}
            BY <3>2 DEF IInv, TypeOK, Live, Ats, Filled, Unfilled
          <5> QED
            BY <5>2, <5>3, <5>4, <5>5
        <4> QED
          BY <3>1, <3>2, <4>1, <4>2
      <3> QED
        BY <1>1, <3>1, <3>2 DEF SeenWhileLooking, SeenWhenActing, Live
    <2> QED
      BY <2>1, <2>2
  <1> QED
    BY <1>1, <1>3, <1>4, <1>5, DaemonFrame DEF IInv, TypeOK

(* The daemon has read all files and decides. *)
LEMMA DecideIInv ==
    ASSUME IInv, unlockRepo
    PROVE  IInv'
  <1>1. UNCHANGED <<proc, file, owner, boxes, bundle, late>>
    BY DEF unlockRepo
  <1>2. layers' \in [Versions -> {"absent", "installed", "marked", "removed"}]
    BY DEF IInv, TypeOK, unlockRepo
  <1>3. DaemonTypeOK'
    BY DEF IInv, DaemonTypeOK, unlockRepo, Idle
  <1>4. \A w \in Versions : layers'[w] = "removed" => layers[w] = "removed"
    BY DEF IInv, TypeOK, unlockRepo
  <1>5. NoChosenVersionLost'
    BY <1>1, <1>2, <1>4 DEF IInv, NoChosenVersionLost, TypeOK
  <1>6. SeenWhileLooking' /\ SeenWhenActing'
    <2>1. CASE pm.v \in pm.busy
      BY <2>1 DEF SeenWhileLooking, SeenWhenActing, unlockRepo, Idle
    <2>2. CASE pm.v \notin pm.busy
      <3>1. /\ pm.at = "look" /\ pm.todo = {} /\ pm'.at = "act" /\ pm'.v = pm.v /\ pm'.job = pm.job
            /\ pm'.missed = pm.missed \cup (IF pm.job = "deferred" THEN {}
                                            ELSE {p \in Procs : proc[p].at \in {"none", "new"}})
        BY <2>2 DEF unlockRepo, IInv, DaemonTypeOK
      <3>2. ASSUME NEW p \in Procs
            PROVE  \/ p \in pm'.missed
                   \/ proc[p].at \in Over
                   \/ proc[p].at \in {"none", "new"} /\ pm'.job = "deferred"
                   \/ proc[p].at = "checked" /\ file[proc[p].pid] # NoFile
                   \/ proc[p].at \in Filled /\ proc[p].v # pm'.v
        <4>1. CASE Live(p)
          BY <2>2, <3>1, <4>1 DEF IInv, SeenWhileLooking
        <4>2. CASE ~Live(p)
          BY <3>1, <4>2 DEF Live, Over
        <4> QED
          BY <4>1, <4>2
      <3> QED
        BY <1>1, <3>1, <3>2 DEF SeenWhileLooking, SeenWhenActing
    <2> QED
      BY <2>1, <2>2
  <1> QED
    BY <1>1, <1>2, <1>3, <1>5, <1>6, DaemonFrame DEF IInv, TypeOK

(* The version goes, and only the missed lose it. *)
LEMMA RemoveIInv ==
    ASSUME IInv, remove
    PROVE  IInv'
  <1>1. UNCHANGED <<proc, file, owner, boxes, bundle>> /\ pm' = Idle /\ late' = late \cup pm.missed
    BY DEF remove
  <1>2. layers' \in [Versions -> {"absent", "installed", "marked", "removed"}] /\ late' \subseteq Procs
    BY DEF IInv, TypeOK, DaemonTypeOK, remove
  <1>3. DaemonTypeOK'
    BY <1>1 DEF DaemonTypeOK, Idle
  <1>4. SeenWhileLooking' /\ SeenWhenActing'
    BY <1>1 DEF SeenWhileLooking, SeenWhenActing, Idle
  <1>5. NoChosenVersionLost'
    <2> SUFFICES ASSUME NEW p \in Procs, proc[p].at \in Chosen, proc[p].v \in Versions,
                        layers'[proc[p].v] = "removed"
                 PROVE  p \in late'
      BY <1>1 DEF IInv, NoChosenVersionLost
    <2>1. CASE proc[p].v = pm.v
      BY <1>1, <2>1 DEF IInv, SeenWhenActing, remove, Chosen, Filled, Over
    <2>2. CASE proc[p].v # pm.v
      <3>1. layers[proc[p].v] = "removed"
        BY <2>2 DEF remove, IInv, TypeOK
      <3> QED
        BY <1>1, <3>1 DEF IInv, NoChosenVersionLost
    <2> QED
      BY <2>1, <2>2
  <1> QED
    BY <1>1, <1>2, <1>3, <1>4, <1>5, DaemonFrame

-----------------------------------------------------------------------------
(* At the start there is no process, file, container or bundle. *)
LEMMA InitIInv == Init => IInv
  <1> SUFFICES ASSUME Init
               PROVE  IInv
    OBVIOUS
  <1>1. /\ proc = [p \in Procs |-> NoProc] /\ file = [q \in Pids |-> NoFile]
        /\ owner = [q \in Pids |-> Nobody] /\ boxes = {} /\ bundle = {} /\ late = {} /\ pm = Idle
    BY DEF Init
  <1>2. \A p \in Procs : proc[p].at = "none"
    BY <1>1 DEF NoProc
  <1>3. NoProc \in ProcRecord /\ NoFile \in FileRecord
    BY DEF NoProc, NoFile, ProcRecord, FileRecord, Ats
  <1>4. layers \in [Versions -> {"absent", "installed", "marked", "removed"}]
    BY DEF Init
  <1>5. TypeOK
    BY <1>1, <1>2, <1>3, <1>4 DEF TypeOK, Live, ProcRecord, FileRecord
  <1>6. DaemonTypeOK
    BY <1>1 DEF DaemonTypeOK, Idle
  <1>7. OwnFile /\ NoChosenVersionLost
    BY <1>2 DEF OwnFile, NoChosenVersionLost, Live, Unfilled, Filled, Chosen
  <1>8. Written
    BY <1>1 DEF Written
  <1>9. SeenWhileLooking /\ SeenWhenActing /\ Possessions
    BY <1>1 DEF SeenWhileLooking, SeenWhenActing, Possessions, Idle
  <1> QED
    BY <1>5, <1>6, <1>7, <1>8, <1>9 DEF IInv

(* Every step keeps the invariant. *)
LEMMA NextIInv ==
    ASSUME IInv, [Next]_vars
    PROVE  IInv'
  <1>1. ASSUME NEW p \in Procs, NEW q \in Pids, Spawn(p, q) PROVE IInv'
    BY <1>1, SpawnIInv
  <1>2. ASSUME NEW p \in Procs, Client(p) \/ JoinedEnds(p) \/ Killed(p) PROVE IInv'
    BY <1>2, StartupIInv, LaunchIInv, EndIInv DEF Client
  <1>3. ASSUME NEW p \in Procs, AppEnds(p) \/ kill(p) PROVE IInv'
    BY <1>3, OutsideIInv
  <1>4. ASSUME NEW q \in Pids, StrangerAt(q) PROVE IInv'
    BY <1>4, OutsideIInv
  <1>5. ASSUME NEW v \in Versions, Install(v) \/ \E job \in {"upgrade", "uninstall", "deferred"} : lockRepo(job, v)
        PROVE  IInv'
    BY <1>5, BeginIInv
  <1>6. CASE Daemon
    BY <1>6, LookIInv, DecideIInv, RemoveIInv DEF Daemon
  <1>7. CASE UNCHANGED vars
    BY <1>7 DEF vars, IInv, TypeOK, DaemonTypeOK, OwnFile, Written, SeenWhileLooking, SeenWhenActing,
                NoChosenVersionLost, Possessions, Live, InfoOf
  <1> QED
    BY <1>1, <1>2, <1>3, <1>4, <1>5, <1>6, <1>7 DEF Next, Timer

(* The inductive invariant holds in every reachable state. *)
LEMMA Always == Spec => []IInv
  BY InitIInv, NextIInv, PTL DEF Spec

(* No application loses the version it runs: whatever order ll-cli's steps *)
(* take beside the daemon's, a version that is removed under a process was *)
(* removed by a daemon that looked before the process had its file.        *)
THEOREM VersionKept == Spec => []NoAppLosesVersion
  <1>1. IInv => NoAppLosesVersion
    BY DEF IInv, NoChosenVersionLost, NoAppLosesVersion, Chosen, Filled
  <1> QED
    BY <1>1, Always, PTL

(* A running container is listed by the file of its live ll-cli, or that   *)
(* was killed or its file is short; a bundle outlives its ll-cli only      *)
(* after a kill or a failure.                                              *)
LEMMA LeftBehind ==
    ASSUME IInv
    PROVE  TypeOK /\ BundleRemoved /\ RunningIsListed
  <1>1. BundleRemoved
    BY DEF IInv, Possessions, BundleRemoved, Live
  <1>2. ASSUME NEW c \in boxes, proc[c].at # "killed"
        PROVE  c \in getCurrentContainers \/ (Live(c) /\ file[proc[c].pid] = ShortFile)
    <2>1. c \in Procs /\ proc[c].at = "running"
      BY <1>2 DEF IInv, TypeOK, Possessions
    <2>2. Live(c)
      BY <2>1 DEF Live
    <2>3. owner[proc[c].pid] = c /\ proc[c].pid \in Pids /\ c # Nobody
      BY <2>1, <2>2, RunAssumption DEF IInv, TypeOK, OwnFile, Procs, Nobody
    <2>4. file[proc[c].pid] \in {InfoOf(c), ShortFile}
      BY <2>1 DEF IInv, OwnFile, Filled
    <2>5. file[proc[c].pid] = InfoOf(c) => file[proc[c].pid].kind = "info" /\ file[proc[c].pid].box = c
      BY DEF InfoOf
    <2> QED
      BY <2>2, <2>3, <2>4, <2>5 DEF getCurrentContainers
  <1> QED
    BY <1>1, <1>2 DEF RunningIsListed, IInv

(* The daemon takes a version for busy only where it reads the file of a   *)
(* process that uses it, or of one that was killed and whose pid is taken. *)
LEMMA BusyRead ==
    ASSUME IInv, [Next]_vars
    PROVE  BusyIsReal
  <1> SUFFICES ASSUME pm.at = "look", NEW v \in (pm'.busy \ pm.busy) \ {0}
               PROVE  \E p \in Procs : /\ proc[p].v = v
                                       /\ Live(p) \/ (proc[p].at = "killed" /\ owner[proc[p].pid] # Nobody)
    BY DEF BusyIsReal
  <1>1. PICK q \in Pids : getAllRunningContainers(q)
    <2>1. pm' # pm /\ pm' # Idle
      BY DEF Idle
    <2>2. \A w \in Versions : \A job : ~lockRepo(job, w)
      BY DEF lockRepo
    <2>3. ~remove /\ (unlockRepo => pm'.busy = pm.busy \/ pm' = Idle)
      BY DEF remove, unlockRepo, IInv, DaemonTypeOK
    <2> QED
      BY <2>1, <2>2, <2>3 DEF Next, Client, Daemon, Timer, vars, Spawn, lockCheck, createPidFile, resolve, enter,
            exec, create, dump, run, finally, AppEnds, kill, Ends, JoinedEnds, Killed, StrangerAt, Install
  <1>2. owner[q] # Nobody /\ file[q].app = v
    BY <1>1 DEF getAllRunningContainers, Idle, IInv, DaemonTypeOK
  <1>3. file[q] # NoFile /\ file[q] \notin {EmptyFile, ShortFile}
    BY <1>2 DEF NoFile, EmptyFile, ShortFile
  <1>4. PICK o \in Procs : /\ proc[o].pid = q
                           /\ proc[o].at \in Filled \cup {"killed"}
                           /\ file[q] = [kind |-> "info", app |-> proc[o].v, box |-> o]
    BY <1>3 DEF IInv, Written
  <1>5. proc[o].v = v
    BY <1>2, <1>4
  <1> QED
    BY <1>2, <1>4, <1>5 DEF Filled, Live

(* What is left of an ll-cli that ended is left by a SIGKILL, or by a      *)
(* failure before the container was handed the bundle; while it lives its  *)
(* container is listed unless its file was written short, which nothing    *)
(* checks; and the daemon spares no version that nobody uses, but for a    *)
(* reused pid.                                                             *)
THEOREM NothingElseLeft == Spec => LeftOnlyByKill
  <1>1. IInv /\ IInv' /\ [Next]_vars =>
          [TypeOK' /\ BundleRemoved' /\ RunningIsListed' /\ BusyIsReal]_vars
    <2>1. IInv' => TypeOK' /\ BundleRemoved' /\ RunningIsListed'
      BY LeftBehind, PTL
    <2> QED
      BY <2>1, BusyRead
  <1> QED
    BY <1>1, Always, PTL DEF Spec, LeftOnlyByKill
=============================================================================
