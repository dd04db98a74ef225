-------------------------- MODULE PackageJobProofs --------------------------
(***************************************************************************)
(* PackageJob for any versions, requests and failures, in three parts.     *)
(*   With any modules, no job, and nothing that runs beside one, takes     *)
(* away a version that is not its own or that an application uses.         *)
(*   When every version has its binary module only (OneModule), the result *)
(* a client is told is true of the repository, a version is kept by every  *)
(* job but an uninstall, and the launcher's links are kept.                *)
(*   With any modules, a client reads at most 100 percent until the task   *)
(* is cancelled or a package of it fails.                                  *)
(***************************************************************************)
EXTENDS PackageJob, SequenceTheorems, FiniteSetTheorems, WellFoundedInduction, TLAPS

-----------------------------------------------------------------------------
(* Records                                                                 *)

RepoFields == {"layers", "deleted", "merged", "entry"}

JobFields == {"kind", "new", "old", "mods", "at", "todo", "undeleted", "pulled", "runtimePulled", "had"}

IsPiece(c) ==
    /\ {"repo", "task", "job"} \subseteq DOMAIN c
    /\ RepoFields \subseteq DOMAIN c.repo
    /\ JobFields \subseteq DOMAIN c.job

Busy == {"error", "busy", "free"}

(* What a job may take layers of: the version it installs, the             *)
(* dependencies and, if it was free, the version it replaces.              *)
MayTake(c, w) == {c.job.new} \cup Dependencies \cup (IF w.busy = "free" THEN {c.job.old} ELSE {})

(* A piece of a job that leads from c to d is still the same job's and     *)
(* takes away no more than it may.                                         *)
Takes(c, d, w) ==
    /\ IsPiece(d)
    /\ d.job.new = c.job.new /\ d.job.old = c.job.old /\ d.job.kind = c.job.kind
    /\ \A x \in c.repo.layers : x \in d.repo.layers \/ x[1] \in MayTake(c, w)

(* Pieces after one another. *)
LEMMA TakesTrans ==
    ASSUME NEW c, NEW d, NEW e, NEW w, Takes(c, d, w), Takes(d, e, w)
    PROVE  Takes(c, e, w)
  BY DEF Takes, MayTake

(* Nothing happens. *)
LEMMA TakesNothing ==
    ASSUME NEW c, NEW w, IsPiece(c)
    PROVE  Takes(c, c, w)
  BY DEF Takes

(* The repository is set. *)
LEMMA TakesRepo ==
    ASSUME NEW c, NEW w, IsPiece(c), NEW r, RepoFields \subseteq DOMAIN r,
           \A x \in c.repo.layers : x \in r.layers \/ x[1] \in MayTake(c, w)
    PROVE  Takes(c, [c EXCEPT !.repo = r], w)
  BY DEF Takes, IsPiece

(* The task is set. *)
LEMMA TakesTask ==
    ASSUME NEW c, NEW w, IsPiece(c), NEW t
    PROVE  Takes(c, [c EXCEPT !.task = t], w)
  BY DEF Takes, IsPiece

(* The job goes on elsewhere. *)
LEMMA TakesGoto ==
    ASSUME NEW c, NEW w, IsPiece(c), NEW at
    PROVE  Takes(c, Goto(c, at), w)
  BY DEF Takes, IsPiece, Goto, JobFields

(* The job ends. *)
LEMMA TakesEnd ==
    ASSUME NEW c, NEW w, IsPiece(c)
    PROVE  Takes(c, End(c), w)
  BY TakesGoto DEF End

-----------------------------------------------------------------------------
(* Operations on the repository                                            *)

(* remove takes layers of one reference. *)
LEMMA RemoveIs ==
    ASSUME NEW r, RepoFields \subseteq DOMAIN r, NEW ref, NEW mods
    PROVE  /\ RepoFields \subseteq DOMAIN remove(r, ref, mods)
           /\ \A x \in r.layers : x \in remove(r, ref, mods).layers \/ x[1] = ref
  BY DEF remove, RepoFields

(* A mark leaves the layers as they are. *)
LEMMA MarkIs ==
    ASSUME NEW r, RepoFields \subseteq DOMAIN r, NEW ref, NEW mods, NEW b \in BOOLEAN
    PROVE  /\ RepoFields \subseteq DOMAIN markDeleted(r, ref, mods, b)
           /\ markDeleted(r, ref, mods, b).layers = r.layers
  BY DEF markDeleted, RepoFields

(* A merge of modules leaves them. *)
LEMMA MergeIs ==
    ASSUME NEW r, RepoFields \subseteq DOMAIN r
    PROVE  RepoFields \subseteq DOMAIN mergeModules(r) /\ mergeModules(r).layers = r.layers
  BY DEF mergeModules, RepoFields

(* So do new links. *)
LEMMA ExportIs ==
    ASSUME NEW r, RepoFields \subseteq DOMAIN r, NEW ref
    PROVE  /\ RepoFields \subseteq DOMAIN exportReference(r, ref)
           /\ exportReference(r, ref).layers = r.layers
  BY DEF exportReference, RepoFields

(* So does the removal of links. *)
LEMMA UnexportIs ==
    ASSUME NEW r, RepoFields \subseteq DOMAIN r, NEW ref
    PROVE  /\ RepoFields \subseteq DOMAIN unexportReference(r, ref)
           /\ unexportReference(r, ref).layers = r.layers
  BY DEF unexportReference, RepoFields

(* AddLayer takes nothing. *)
LEMMA AddIs ==
    ASSUME NEW r, RepoFields \subseteq DOMAIN r, NEW ref, NEW module
    PROVE  /\ RepoFields \subseteq DOMAIN AddLayer(r, ref, module)
           /\ AddLayer(r, ref, module).layers = r.layers \cup {<<ref, module>>}
  BY DEF AddLayer, RepoFields

-----------------------------------------------------------------------------
(* The pieces of a job                                                     *)

(* The rollback of an install takes the version that was installed. *)
LEMMA TakesRollBack ==
    ASSUME NEW c, NEW w, IsPiece(c)
    PROVE  Takes(c, RollBackInstall(c), w)
  <1>1. RepoFields \subseteq DOMAIN c.repo
    BY DEF IsPiece
  <1>2. PICK r : r = remove(c.repo, c.job.new, ModuleSet(c.job.mods))
    OBVIOUS
  <1>3. RepoFields \subseteq DOMAIN r /\ \A x \in c.repo.layers : x \in r.layers \/ x[1] = c.job.new
    BY <1>1, <1>2, RemoveIs
  <1>4. RollBackInstall(c) = [c EXCEPT !.repo = r]
    BY <1>2, Zenon DEF RollBackInstall
  <1>5. \A x \in c.repo.layers : x \in r.layers \/ x[1] \in MayTake(c, w)
    BY <1>3 DEF MayTake
  <1> QED
    BY <1>3, <1>4, <1>5, TakesRepo

(* What InstallRef undoes is of the version it was to install. *)
LEMMA TakesUndo ==
    ASSUME NEW c, NEW w, IsPiece(c)
    PROVE  Takes(c, UndoInstallRef(c), w)
  <1>1. RepoFields \subseteq DOMAIN c.repo
    BY DEF IsPiece
  <1>2. PICK r : r = remove(c.repo, c.job.new, c.job.pulled)
    OBVIOUS
  <1>3. RepoFields \subseteq DOMAIN r /\ \A x \in c.repo.layers : x \in r.layers \/ x[1] = c.job.new
    BY <1>1, <1>2, RemoveIs
  <1>4. PICK s : s = markDeleted(r, c.job.new, c.job.undeleted, TRUE)
    OBVIOUS
  <1>5. RepoFields \subseteq DOMAIN s /\ s.layers = r.layers
    BY <1>3, <1>4, MarkIs
  <1>6. UndoInstallRef(c) = [c EXCEPT !.repo = s]
    BY <1>2, <1>4, Zenon DEF UndoInstallRef
  <1>7. \A x \in c.repo.layers : x \in s.layers \/ x[1] \in MayTake(c, w)
    BY <1>3, <1>5 DEF MayTake
  <1> QED
    BY <1>5, <1>6, <1>7, TakesRepo

(* What the callers of removeAfterInstall do with its result. *)
LEMMA TakesAfterRemove ==
    ASSUME NEW c, NEW w, IsPiece(c), NEW ok \in BOOLEAN
    PROVE  Takes(c, AfterRemove(c, ok), w)
  <1>1. CASE (ok /\ c.job.kind = "install") \/ c.job.kind = "uab"
    <2>1. PICK d : d = [c EXCEPT !.task = updateState(@, "Succeed")]
      OBVIOUS
    <2>2. PICK t : d = [c EXCEPT !.task = t]
      BY <2>1 DEF IsPiece
    <2>3. AfterRemove(c, ok) = End(d)
      BY <1>1, <2>1 DEF AfterRemove
    <2>4. Takes(c, d, w) /\ IsPiece(d)
      BY <2>2, TakesTask DEF Takes
    <2> QED
      BY <2>3, <2>4, TakesEnd, TakesTrans
  <1>2. CASE ~ok /\ c.job.kind = "install"
    <2>1. PICK d : d = [c EXCEPT !.task = updateState(@, "Failed")]
      OBVIOUS
    <2>2. PICK t : d = [c EXCEPT !.task = t]
      BY <2>1 DEF IsPiece
    <2>3. AfterRemove(c, ok) = End(RollBackInstall(d))
      BY <1>2, <2>1 DEF AfterRemove
    <2>4. Takes(c, d, w) /\ IsPiece(d)
      BY <2>2, TakesTask DEF Takes
    <2>5. Takes(c, RollBackInstall(d), w) /\ IsPiece(RollBackInstall(d))
      BY <2>4, TakesRollBack, TakesTrans DEF Takes
    <2> QED
      BY <2>3, <2>5, TakesEnd, TakesTrans
  <1>3. CASE c.job.kind \notin {"install", "uab"}
    <2>1. AfterRemove(c, ok) = End(c)
      BY <1>3 DEF AfterRemove
    <2> QED
      BY <2>1, TakesEnd
  <1> QED
    BY <1>1, <1>2, <1>3

(* The old version is taken only if nothing uses it. *)
LEMMA TakesRemoveAfter ==
    ASSUME NEW c, NEW w, IsPiece(c), w.busy \in Busy, NEW mods
    PROVE  Takes(c, removeAfterInstall(c, w, mods), w)
  <1> DEFINE old == c.job.old
             hidden == unexportReference(c.repo, old)
             removed == remove(hidden, old, {"binary"})
             canBegin == w.failAt # 1 /\ HasLayer(c.repo, old, "binary")
             missing == {i \in DOMAIN mods : ~HasLayer(c.repo, old, mods[i])}
             unmarked == {mods[i] : i \in {k \in DOMAIN mods : \A j \in missing : k < j}}
             left == exportReference(mergeModules(IF mods = <<>> THEN hidden ELSE removed), c.job.new)
  <1>1. /\ RepoFields \subseteq DOMAIN c.repo
        /\ RepoFields \subseteq DOMAIN hidden /\ hidden.layers = c.repo.layers
    BY UnexportIs DEF IsPiece
  <1>2. RepoFields \subseteq DOMAIN removed /\ \A x \in c.repo.layers : x \in removed.layers \/ x[1] = old
    <2> HIDE DEF hidden
    <2> QED
      BY <1>1, RemoveIs
  <1>3. ASSUME NEW r, RepoFields \subseteq DOMAIN r, NEW ok \in BOOLEAN,
               \A x \in c.repo.layers : x \in r.layers \/ x[1] \in MayTake(c, w)
        PROVE  /\ Takes(c, AfterRemove([c EXCEPT !.repo = r], ok), w)
               /\ \A at : Takes(c, Goto([c EXCEPT !.repo = r], at), w)
    <2>1. Takes(c, [c EXCEPT !.repo = r], w) /\ IsPiece([c EXCEPT !.repo = r])
      BY <1>3, TakesRepo DEF Takes
    <2> QED
      BY <2>1, TakesAfterRemove, TakesGoto, TakesTrans
  <1>4. CASE w.busy = "error"
    <2>1. removeAfterInstall(c, w, mods) = AfterRemove(c, FALSE)
      BY <1>4 DEF removeAfterInstall, RemovalPlan
    <2> QED
      BY <2>1, TakesAfterRemove
  <1>5. CASE w.busy = "busy" /\ missing = {}
    <2> DEFINE r == markDeleted(c.repo, old, ModuleSet(mods), TRUE)
    <2>1. removeAfterInstall(c, w, mods) = AfterRemove([c EXCEPT !.repo = r], TRUE)
      BY <1>5 DEF removeAfterInstall, RemovalPlan
    <2>2. RepoFields \subseteq DOMAIN r /\ r.layers = c.repo.layers
      BY <1>1, MarkIs
    <2> HIDE DEF r
    <2> QED
      BY <1>3, <2>1, <2>2
  <1>6. CASE w.busy = "busy" /\ missing # {}
    <2> DEFINE r == markDeleted(c.repo, old, unmarked, FALSE)
    <2>1. removeAfterInstall(c, w, mods) = AfterRemove([c EXCEPT !.repo = r], FALSE)
      BY <1>6 DEF removeAfterInstall, RemovalPlan
    <2>2. RepoFields \subseteq DOMAIN r /\ r.layers = c.repo.layers
      BY <1>1, MarkIs
    <2> HIDE DEF r
    <2> QED
      BY <1>3, <2>1, <2>2
  <1>7. CASE w.busy = "free" /\ mods # <<>> /\ ~canBegin
    <2> DEFINE r == exportReference(hidden, old)
    <2>1. removeAfterInstall(c, w, mods) = AfterRemove([c EXCEPT !.repo = r], FALSE)
      BY <1>7 DEF removeAfterInstall, RemovalPlan
    <2>2. RepoFields \subseteq DOMAIN r /\ r.layers = c.repo.layers
      <3> HIDE DEF hidden
      <3> QED
        BY <1>1, ExportIs
    <2> HIDE DEF r
    <2> QED
      BY <1>3, <2>1, <2>2
  <1>8. CASE w.busy = "free" /\ (mods = <<>> \/ canBegin)
    <2>1. \A x \in c.repo.layers : x \in removed.layers \/ x[1] \in MayTake(c, w)
      BY <1>2, <1>8 DEF MayTake
    <2>2. CASE Len(mods) > 1 /\ mods # <<>>
      <3>1. removeAfterInstall(c, w, mods) = Goto([c EXCEPT !.repo = removed], "restore")
        <4>1. RemovalPlan(w) = "remove" /\ canBegin
          BY <1>8, <2>2 DEF RemovalPlan
        <4> QED
          BY <2>2, <4>1 DEF removeAfterInstall
      <3> HIDE DEF removed
      <3> QED
        BY <1>2, <1>3, <2>1, <3>1
    <2>3. CASE ~(Len(mods) > 1) \/ mods = <<>>
      <3>1. removeAfterInstall(c, w, mods) = AfterRemove([c EXCEPT !.repo = left], TRUE)
        <4>1. RemovalPlan(w) = "remove"
          BY <1>8 DEF RemovalPlan
        <4>2. ~(mods # <<>> /\ ~canBegin)
          BY <1>8
        <4>3. ~(Len(mods) > 1 /\ canBegin)
          <5>1. Len(<<>>) = 0
            OBVIOUS
          <5> QED
            BY <2>3, <5>1
        <4> HIDE DEF canBegin, missing, unmarked
        <4> QED
          BY <4>1, <4>2, <4>3 DEF removeAfterInstall, canBegin, missing
      <3>2. PICK s : s = IF mods = <<>> THEN hidden ELSE removed
        OBVIOUS
      <3>3. RepoFields \subseteq DOMAIN s /\ \A x \in c.repo.layers : x \in s.layers \/ x[1] \in MayTake(c, w)
        BY <1>1, <1>2, <2>1, <3>2
      <3>4. PICK m : m = mergeModules(s)
        OBVIOUS
      <3>5. RepoFields \subseteq DOMAIN m /\ m.layers = s.layers
        BY <3>3, <3>4, MergeIs
      <3>6. PICK e : e = exportReference(m, c.job.new)
        OBVIOUS
      <3>7. RepoFields \subseteq DOMAIN e /\ e.layers = s.layers
        BY <3>5, <3>6, ExportIs
      <3>8. left = e
        BY <3>2, <3>4, <3>6
      <3> HIDE DEF left
      <3> QED
        BY <1>3, <3>1, <3>3, <3>7, <3>8
    <2> QED
      BY <2>2, <2>3
  <1> QED
    BY <1>4, <1>5, <1>6, <1>7, <1>8 DEF Busy

(* What the job notes about itself takes nothing. *)
LEMMA TakesNote ==
    ASSUME NEW c, NEW w, IsPiece(c), NEW v
    PROVE  /\ Takes(c, [c EXCEPT !.job.todo = v], w)
           /\ Takes(c, [c EXCEPT !.job.mods = v], w)
           /\ Takes(c, [c EXCEPT !.job.pulled = v], w)
           /\ Takes(c, [c EXCEPT !.job.runtimePulled = v], w)
  BY DEF Takes, IsPiece, JobFields

(* A piece that begins with another. *)
LEMMA TakesPiece ==
    ASSUME NEW c, NEW d, NEW w, Takes(c, d, w)
    PROVE  IsPiece(d)
  BY DEF Takes

(* An error is reported and the job ends. *)
LEMMA TakesError ==
    ASSUME NEW c, NEW w, IsPiece(c)
    PROVE  Takes(c, End([c EXCEPT !.task = reportError(@)]), w)
  <1>1. PICK e : e = [c EXCEPT !.task = reportError(@)]
    OBVIOUS
  <1>2. Takes(c, e, w) /\ IsPiece(e)
    BY <1>1, TakesTask, TakesPiece
  <1>3. Takes(c, End(e), w)
    BY <1>2, TakesEnd, TakesTrans
  <1> QED
    BY <1>1, <1>3

(* Install after InstallRef. *)
LEMMA TakesFinishInstall ==
    ASSUME NEW c, NEW w, IsPiece(c), w.busy \in Busy
    PROVE  Takes(c, FinishInstall(c, w), w)
  <1>1. PICK t : t = updateSubState(c.task, "PostAction")
    OBVIOUS
  <1>2. PICK r : r = mergeModules(c.repo)
    OBVIOUS
  <1>3. PICK d : d = [c EXCEPT !.task = t, !.repo = r]
    OBVIOUS
  <1>4. RepoFields \subseteq DOMAIN r /\ r.layers = c.repo.layers
    BY <1>2, MergeIs DEF IsPiece
  <1>5. Takes(c, d, w) /\ d.repo = r
    BY <1>3, <1>4 DEF Takes, IsPiece
  <1>6. IsPiece(d)
    BY <1>5, TakesPiece
  <1>7. d = [c EXCEPT !.task = updateSubState(@, "PostAction"), !.repo = mergeModules(@)]
    BY <1>1, <1>2, <1>3
  <1>8. FinishInstall(c, w) =
          IF ~HasLayer(d.repo, d.job.new, "binary") THEN End(RollBackInstall([d EXCEPT !.task = reportError(@)]))
          ELSE IF d.job.old = NoRef THEN AfterRemove([d EXCEPT !.repo = exportReference(@, d.job.new)], TRUE)
          ELSE removeAfterInstall(d, w, getModuleList(d.repo, d.job.old))
    BY <1>7 DEF FinishInstall
  <1>9. Takes(d, End(RollBackInstall([d EXCEPT !.task = reportError(@)])), w)
    <2>1. PICK e : e = [d EXCEPT !.task = reportError(@)]
      OBVIOUS
    <2>2. Takes(d, e, w) /\ IsPiece(e)
      BY <1>6, <2>1, TakesTask, TakesPiece
    <2>3. Takes(d, RollBackInstall(e), w) /\ IsPiece(RollBackInstall(e))
      BY <2>2, TakesRollBack, TakesTrans, TakesPiece
    <2> QED
      BY <2>1, <2>3, TakesEnd, TakesTrans
  <1>10. Takes(d, AfterRemove([d EXCEPT !.repo = exportReference(@, d.job.new)], TRUE), w)
    <2>1. PICK s : s = exportReference(d.repo, d.job.new)
      OBVIOUS
    <2>2. RepoFields \subseteq DOMAIN s /\ s.layers = d.repo.layers
      BY <1>6, <2>1, ExportIs DEF IsPiece
    <2>3. PICK e : e = [d EXCEPT !.repo = s]
      OBVIOUS
    <2>4. Takes(d, e, w) /\ IsPiece(e)
      BY <1>6, <2>2, <2>3, TakesRepo, TakesPiece
    <2>5. Takes(d, AfterRemove(e, TRUE), w)
      BY <2>4, TakesAfterRemove, TakesTrans
    <2> QED
      BY <2>1, <2>3, <2>5
  <1> QED
    <2>1. CASE ~HasLayer(d.repo, d.job.new, "binary")
      BY <1>5, <1>8, <1>9, <2>1, TakesTrans
    <2>2. CASE HasLayer(d.repo, d.job.new, "binary") /\ d.job.old = NoRef
      BY <1>5, <1>8, <1>10, <2>2, TakesTrans
    <2>3. CASE HasLayer(d.repo, d.job.new, "binary") /\ d.job.old # NoRef
      BY <1>5, <1>6, <1>8, <2>3, TakesRemoveAfter, TakesTrans
    <2> QED
      BY <2>1, <2>2, <2>3

(* Update after InstallRef. *)
LEMMA TakesFinishUpdate ==
    ASSUME NEW c, NEW w, IsPiece(c), w.busy \in Busy
    PROVE  Takes(c, FinishUpdate(c, w), w)
  <1>1. PICK d : d = [c EXCEPT !.task = setSubState(updateState(@, "PartCompleted"), "PackageManagerDone")]
    OBVIOUS
  <1>2. Takes(c, d, w) /\ IsPiece(d)
    BY <1>1, TakesTask, TakesPiece
  <1>3. FinishUpdate(c, w) =
          IF HasLayer(d.repo, d.job.new, "binary") THEN removeAfterInstall(d, w, d.job.mods) ELSE End(d)
    BY <1>1 DEF FinishUpdate
  <1> QED
    BY <1>2, <1>3, TakesRemoveAfter, TakesEnd, TakesTrans

(* The caller of InstallRef goes on. *)
LEMMA TakesInstallRefReturned ==
    ASSUME NEW c, NEW w, IsPiece(c), w.busy \in Busy
    PROVE  Takes(c, InstallRefReturned(c, w), w)
  BY TakesEnd, TakesFinishInstall, TakesFinishUpdate DEF InstallRefReturned

(* The next module, or the end of InstallRef. *)
LEMMA TakesNextModule ==
    ASSUME NEW c, NEW w, IsPiece(c), w.busy \in Busy
    PROVE  Takes(c, NextModule(c, w), w)
  <1>1. Takes(c, End(UndoInstallRef(c)), w)
    BY TakesUndo, TakesPiece, TakesEnd, TakesTrans
  <1> QED
    BY <1>1, TakesInstallRefReturned, TakesGoto DEF NextModule

(* The import of a layer file. *)
LEMMA TakesImportLayer ==
    ASSUME NEW c, NEW w, IsPiece(c), w.busy \in Busy
    PROVE  Takes(c, ImportLayer(c, w), w)
  <1>1. PICK r : r = AddLayer(c.repo, c.job.new, "binary")
    OBVIOUS
  <1>2. PICK t : t = updateState(c.task, "Succeed")
    OBVIOUS
  <1>3. PICK d : d = [c EXCEPT !.repo = r, !.task = t]
    OBVIOUS
  <1>4. RepoFields \subseteq DOMAIN r /\ c.repo.layers \subseteq r.layers
    BY <1>1, AddIs DEF IsPiece
  <1>5. Takes(c, d, w)
    BY <1>3, <1>4 DEF Takes, IsPiece
  <1>6. IsPiece(d)
    BY <1>5, TakesPiece
  <1>7. d = [c EXCEPT !.repo = AddLayer(@, c.job.new, "binary"), !.task = updateState(@, "Succeed")]
    BY <1>1, <1>2, <1>3
  <1>8. ImportLayer(c, w) =
          IF Done(c) THEN End(c)
          ELSE IF ~CanAdd(c.repo, c.job.new, "binary") THEN End([c EXCEPT !.task = reportError(@)])
          ELSE IF c.job.old = NoRef THEN End([d EXCEPT !.repo = exportReference(@, c.job.new)])
          ELSE IF ~HasLayer(d.repo, c.job.old, "binary") THEN End(d)
          ELSE removeAfterInstall(d, w, <<"binary">>)
    BY <1>7 DEF ImportLayer
  <1>9. Takes(c, End([c EXCEPT !.task = reportError(@)]), w)
    BY TakesError
  <1>10. Takes(d, End([d EXCEPT !.repo = exportReference(@, c.job.new)]), w)
    <2>1. PICK s : s = exportReference(d.repo, c.job.new)
      OBVIOUS
    <2>2. RepoFields \subseteq DOMAIN s /\ s.layers = d.repo.layers
      BY <1>6, <2>1, ExportIs DEF IsPiece
    <2>3. PICK e : e = [d EXCEPT !.repo = s]
      OBVIOUS
    <2>4. Takes(d, e, w) /\ IsPiece(e)
      BY <1>6, <2>2, <2>3, TakesRepo, TakesPiece
    <2>5. Takes(d, End(e), w)
      BY <2>4, TakesEnd, TakesTrans
    <2> QED
      BY <2>1, <2>3, <2>5
  <1> QED
    BY <1>5, <1>6, <1>8, <1>9, <1>10, TakesRemoveAfter, TakesEnd, TakesTrans

(* pullDependency has returned. *)
LEMMA TakesDependencyReturned ==
    ASSUME NEW c, NEW w, IsPiece(c), w.busy \in Busy
    PROVE  Takes(c, DependencyReturned(c, w), w)
  <1>1. PICK d : d = [c EXCEPT !.job.todo = Tail(@)]
    OBVIOUS
  <1>2. Takes(c, d, w) /\ IsPiece(d)
    BY <1>1, TakesNote, TakesPiece
  <1>3. DependencyReturned(c, w) = IF c.job.kind = "layer" THEN ImportLayer(c, w) ELSE NextModule(d, w)
    BY <1>1 DEF DependencyReturned
  <1> QED
    BY <1>2, <1>3, TakesImportLayer, TakesNextModule, TakesTrans

(* A runtime pulled for nothing is removed. *)
LEMMA TakesDependencyFailed ==
    ASSUME NEW c, NEW w, IsPiece(c), w.busy \in Busy
    PROVE  Takes(c, DependencyFailed(c, w), w)
  <1>1. PICK r : r = remove(c.repo, Runtime, {"binary"})
    OBVIOUS
  <1>2. RepoFields \subseteq DOMAIN r /\ \A x \in c.repo.layers : x \in r.layers \/ x[1] = Runtime
    BY <1>1, RemoveIs DEF IsPiece
  <1>3. \A x \in c.repo.layers : x \in r.layers \/ x[1] \in MayTake(c, w)
    BY <1>2 DEF MayTake, Dependencies
  <1>4. PICK d : d = [c EXCEPT !.repo = r]
    OBVIOUS
  <1>5. Takes(c, d, w) /\ IsPiece(d)
    BY <1>2, <1>3, <1>4, TakesRepo, TakesPiece
  <1>6. DependencyFailed(c, w) = DependencyReturned(IF c.job.runtimePulled THEN d ELSE c, w)
    BY <1>1, <1>4 DEF DependencyFailed
  <1> QED
    BY <1>5, <1>6, TakesDependencyReturned, TakesTrans

(* The base and the runtime are looked for and pulled. *)
LEMMA TakesBaseFound ==
    ASSUME NEW c, NEW w, IsPiece(c), w.busy \in Busy
    PROVE  Takes(c, BaseFound(c, w), w)
  <1>1. PICK d : d = [c EXCEPT !.task = updateSubState(@, "InstallBase")]
    OBVIOUS
  <1>2. Takes(c, d, w) /\ IsPiece(d)
    BY <1>1, TakesTask, TakesPiece
  <1>3. BaseFound(c, w) = IF HasLayer(d.repo, Base, "binary") THEN DependencyReturned(d, w) ELSE Goto(d, "base")
    BY <1>1 DEF BaseFound
  <1> QED
    BY <1>2, <1>3, TakesDependencyReturned, TakesGoto, TakesTrans

(* The base is looked for, or known. *)
LEMMA TakesFindBase ==
    ASSUME NEW c, NEW w, IsPiece(c), w.busy \in Busy
    PROVE  Takes(c, FindBase(c, w), w)
  BY TakesBaseFound, TakesGoto DEF FindBase

(* The runtime is known. *)
LEMMA TakesRuntimeFound ==
    ASSUME NEW c, NEW w, IsPiece(c), w.busy \in Busy
    PROVE  Takes(c, RuntimeFound(c, w), w)
  <1>1. PICK d : d = [c EXCEPT !.task = updateSubState(@, "InstallRuntime")]
    OBVIOUS
  <1>2. Takes(c, d, w) /\ IsPiece(d)
    BY <1>1, TakesTask, TakesPiece
  <1>3. RuntimeFound(c, w) = IF HasLayer(d.repo, Runtime, "binary") THEN FindBase(d, w) ELSE Goto(d, "runtime")
    BY <1>1 DEF RuntimeFound
  <1> QED
    BY <1>2, <1>3, TakesFindBase, TakesGoto, TakesTrans

(* pullDependency begins with the runtime. *)
LEMMA TakesPullDependency ==
    ASSUME NEW c, NEW w, IsPiece(c), w.busy \in Busy
    PROVE  Takes(c, pullDependency(c, w), w)
  BY TakesRuntimeFound, TakesGoto DEF pullDependency

(* InstallRef up to its first wait. *)
LEMMA TakesInstallRef ==
    ASSUME NEW c, NEW w, IsPiece(c), w.busy \in Busy
    PROVE  Takes(c, InstallRef(c, w), w)
  <1> DEFINE back == {m \in ModuleSet(c.job.mods) : <<c.job.new, m>> \in c.repo.deleted}
             t == updateSubState(updateSubState(c.task, "PreAction"), "InstallApplication")
             r == markDeleted(c.repo, c.job.new, back, FALSE)
             todo == Sorted(ModuleSet(c.job.mods) \ back)
             d == [c EXCEPT !.task = t, !.repo = r, !.job.undeleted = back, !.job.todo = todo]
  <1>1. InstallRef(c, w) = NextModule(d, w)
    BY DEF InstallRef
  <1>2. RepoFields \subseteq DOMAIN r /\ r.layers = c.repo.layers
    BY MarkIs DEF IsPiece
  <1>3. Takes(c, d, w)
    <2> HIDE DEF back, t, r, todo
    <2> QED
      BY <1>2 DEF Takes, IsPiece, JobFields
  <1> HIDE DEF d
  <1> QED
    BY <1>1, <1>3, TakesPiece, TakesNextModule, TakesTrans

-----------------------------------------------------------------------------
(* The first pieces                                                        *)

(* A job starts with its task. *)
LEMMA TakesProcessing ==
    ASSUME NEW c, NEW w, IsPiece(c)
    PROVE  Takes(c, Processing(c), w) /\ Takes(c, Prepare(c), w)
  BY TakesTask DEF Processing, Prepare

(* Update. *)
LEMMA TakesStartUpdate ==
    ASSUME NEW c, NEW w, IsPiece(c), w.busy \in Busy
    PROVE  Takes(c, StartUpdate(c, w), w)
  <1>1. PICK p : p = Processing(c)
    OBVIOUS
  <1>2. Takes(c, p, w) /\ IsPiece(p)
    BY <1>1, TakesProcessing, TakesPiece
  <1>3. PICK d : d = [p EXCEPT !.job.mods = getModuleList(c.repo, c.job.old)]
    OBVIOUS
  <1>4. Takes(p, d, w) /\ IsPiece(d)
    BY <1>2, <1>3, TakesNote, TakesPiece
  <1>5. StartUpdate(c, w) = InstallRef(d, w)
    BY <1>1, <1>3 DEF StartUpdate
  <1> QED
    BY <1>2, <1>4, <1>5, TakesInstallRef, TakesTrans

(* A UAB only adds before the old version is removed. *)
LEMMA TakesStartUab ==
    ASSUME NEW c, NEW w, IsPiece(c), w.busy \in Busy
    PROVE  Takes(c, StartUab(c, w), w)
  <1>1. PICK d : d = Prepare(c)
    OBVIOUS
  <1>2. Takes(c, d, w) /\ IsPiece(d)
    BY <1>1, TakesProcessing, TakesPiece
  <1> DEFINE app == {<<d.job.new, m>> : m \in ModuleSet(d.job.mods)}
             deps == {<<x, "binary">> : x \in Dependencies}
             imported == [d EXCEPT !.repo.layers = @ \cup app \cup deps]
  <1>3. StartUab(c, w) =
          IF app \cap d.repo.layers # {} THEN End([d EXCEPT !.task = reportError(@)])
          ELSE IF d.job.old = NoRef
            THEN AfterRemove([imported EXCEPT !.repo = exportReference(mergeModules(@), d.job.new)], TRUE)
          ELSE removeAfterInstall(imported, w, getModuleList(imported.repo, d.job.old))
    BY <1>1 DEF StartUab
  <1>4. Takes(d, imported, w)
    <2> HIDE DEF app, deps
    <2> QED
      BY <1>2 DEF Takes, IsPiece, RepoFields
  <1>5. IsPiece(imported)
    BY <1>4, TakesPiece
  <1> HIDE DEF app, deps, imported
  <1>6. Takes(d, End([d EXCEPT !.task = reportError(@)]), w)
    BY <1>2, TakesError
  <1>7. Takes(imported, AfterRemove([imported EXCEPT !.repo = exportReference(mergeModules(@), d.job.new)], TRUE), w)
    <2>1. PICK m : m = mergeModules(imported.repo)
      OBVIOUS
    <2>2. RepoFields \subseteq DOMAIN m /\ m.layers = imported.repo.layers
      BY <1>5, <2>1, MergeIs DEF IsPiece
    <2>3. PICK s : s = exportReference(m, d.job.new)
      OBVIOUS
    <2>4. RepoFields \subseteq DOMAIN s /\ s.layers = m.layers
      BY <2>2, <2>3, ExportIs
    <2>5. PICK e : e = [imported EXCEPT !.repo = s]
      OBVIOUS
    <2>6. Takes(imported, e, w) /\ IsPiece(e)
      BY <1>5, <2>2, <2>4, <2>5, TakesRepo, TakesPiece
    <2>7. Takes(imported, AfterRemove(e, TRUE), w)
      BY <2>6, TakesAfterRemove, TakesTrans
    <2> QED
      BY <2>1, <2>3, <2>5, <2>7
  <1> QED
    <2>1. CASE app \cap d.repo.layers # {}
      BY <1>2, <1>3, <1>6, <2>1, TakesTrans
    <2>2. Takes(c, imported, w)
      BY <1>2, <1>4, TakesTrans
    <2>3. CASE app \cap d.repo.layers = {} /\ d.job.old = NoRef
      BY <1>3, <1>7, <2>2, <2>3, TakesTrans
    <2>4. CASE app \cap d.repo.layers = {} /\ d.job.old # NoRef
      BY <1>3, <1>5, <2>2, <2>4, TakesRemoveAfter, TakesTrans
    <2> QED
      BY <2>1, <2>3, <2>4

(* An uninstall takes the version it was asked to take. *)
LEMMA TakesStartUninstall ==
    ASSUME NEW c, NEW w, IsPiece(c), NEW free, free.busy = "free"
    PROVE  Takes(c, StartUninstall(c, w), free)
  <1>1. PICK mods : mods = getModuleList(c.repo, c.job.old)
    OBVIOUS
  <1>2. PICK hidden : hidden = unexportReference(c.repo, c.job.old)
    OBVIOUS
  <1>3. PICK p : p = Prepare(c)
    OBVIOUS
  <1>4. PICK d : d = [p EXCEPT !.job.mods = mods, !.repo = hidden, !.task = updateSubState(@, "Uninstall")]
    OBVIOUS
  <1>5. PICK t : t = updateSubState(p.task, "Uninstall")
    OBVIOUS
  <1>6. RepoFields \subseteq DOMAIN hidden /\ hidden.layers = c.repo.layers
    BY <1>2, UnexportIs DEF IsPiece
  <1>7. Takes(c, p, free) /\ IsPiece(p) /\ p.repo = c.repo
    BY <1>3, TakesProcessing, TakesPiece DEF Prepare, IsPiece
  <1>8. d = [p EXCEPT !.job.mods = mods, !.repo = hidden, !.task = t]
    BY <1>4, <1>5
  <1>9. Takes(p, d, free) /\ d.repo = hidden
    BY <1>6, <1>7, <1>8 DEF Takes, IsPiece, JobFields
  <1>10. IsPiece(d) /\ Takes(c, d, free) /\ d.job.old = c.job.old
    BY <1>7, <1>9, TakesPiece, TakesTrans DEF Takes
  <1>11. PICK failed : failed = [d EXCEPT !.task = updateState(@, "Failed")]
    OBVIOUS
  <1>12. Takes(d, failed, free) /\ IsPiece(failed) /\ failed.repo = hidden /\ failed.job.old = c.job.old
    BY <1>9, <1>10, <1>11, TakesTask, TakesPiece DEF IsPiece
  <1>13. Takes(c, failed, free)
    BY <1>10, <1>12, TakesTrans
  <1>14. \A mod : \A x \in hidden.layers :
            x \in remove(hidden, c.job.old, mod).layers \/ x[1] \in MayTake(d, free)
    <2> TAKE mod
    <2>1. \A x \in hidden.layers : x \in remove(hidden, c.job.old, mod).layers \/ x[1] = c.job.old
      BY <1>6, RemoveIs
    <2> QED
      BY <1>10, <2>1 DEF MayTake
  <1>15. CASE w.failAt = 1 /\ mods # <<>>
    <2>1. PICK r : r = exportReference(hidden, c.job.old)
      OBVIOUS
    <2>2. RepoFields \subseteq DOMAIN r /\ r.layers = hidden.layers
      BY <1>6, <2>1, ExportIs
    <2>3. PICK e : e = [failed EXCEPT !.repo = r]
      OBVIOUS
    <2>4. Takes(failed, e, free) /\ IsPiece(e)
      BY <1>12, <2>2, <2>3, TakesRepo, TakesPiece
    <2>5. StartUninstall(c, w) = End(e)
      <3>1. e = [failed EXCEPT !.repo = exportReference(@, c.job.old)]
        BY <1>12, <2>1, <2>3
      <3> QED
        BY <1>1, <1>2, <1>3, <1>4, <1>11, <1>15, <3>1 DEF StartUninstall
    <2> QED
      BY <1>13, <2>4, <2>5, TakesEnd, TakesTrans
  <1>16. CASE w.failAt = 2 /\ Len(mods) > 1
    <2>1. PICK r : r = remove(hidden, c.job.old, {Head(mods)})
      OBVIOUS
    <2>2. RepoFields \subseteq DOMAIN r /\ \A x \in hidden.layers : x \in r.layers \/ x[1] \in MayTake(d, free)
      BY <1>6, <1>14, <2>1, RemoveIs
    <2>3. PICK e : e = [failed EXCEPT !.repo = r]
      OBVIOUS
    <2>4. \A x \in failed.repo.layers : x \in r.layers \/ x[1] \in MayTake(failed, free)
      BY <1>12, <2>2 DEF MayTake, Takes
    <2>5. Takes(failed, e, free) /\ IsPiece(e)
      BY <1>12, <2>2, <2>3, <2>4, TakesRepo, TakesPiece
    <2>6. StartUninstall(c, w) = Goto(e, "restore")
      <3>1. e = [failed EXCEPT !.repo = remove(@, c.job.old, {Head(mods)})]
        BY <1>12, <2>1, <2>3
      <3> QED
        BY <1>1, <1>2, <1>3, <1>4, <1>11, <1>16, <3>1 DEF StartUninstall
    <2> QED
      BY <1>13, <2>5, <2>6, TakesGoto, TakesTrans
  <1>17. CASE ~(w.failAt = 1 /\ mods # <<>>) /\ ~(w.failAt = 2 /\ Len(mods) > 1)
    <2>1. PICK r : r = remove(hidden, c.job.old, ModuleSet(mods))
      OBVIOUS
    <2>2. RepoFields \subseteq DOMAIN r /\ \A x \in hidden.layers : x \in r.layers \/ x[1] \in MayTake(d, free)
      BY <1>6, <1>14, <2>1, RemoveIs
    <2>3. PICK m : m = mergeModules(r)
      OBVIOUS
    <2>4. RepoFields \subseteq DOMAIN m /\ m.layers = r.layers
      BY <2>2, <2>3, MergeIs
    <2>5. PICK s : s = [d EXCEPT !.repo = m]
      OBVIOUS
    <2>6. Takes(d, s, free) /\ IsPiece(s)
      BY <1>9, <1>10, <2>2, <2>4, <2>5, TakesRepo, TakesPiece
    <2>7. PICK e : e = [s EXCEPT !.task = updateState(@, "Succeed")]
      OBVIOUS
    <2>8. Takes(s, e, free) /\ IsPiece(e)
      BY <2>6, <2>7, TakesTask, TakesPiece
    <2>9. StartUninstall(c, w) = End(e)
      <3>1. e = [d EXCEPT !.repo = mergeModules(remove(@, c.job.old, ModuleSet(mods))),
                          !.task = updateState(@, "Succeed")]
        <4>1. d.repo = hidden /\ {"repo", "task", "job"} \subseteq DOMAIN d
          BY <1>9, <1>10 DEF IsPiece
        <4>2. m = mergeModules(remove(d.repo, c.job.old, ModuleSet(mods)))
          BY <2>1, <2>3, <4>1
        <4>3. s.task = d.task
          BY <2>5, <4>1
        <4>4. PICK u : u = updateState(d.task, "Succeed")
          OBVIOUS
        <4>5. e = [s EXCEPT !.task = u]
          BY <2>7, <4>3, <4>4
        <4>6. e = [d EXCEPT !.repo = m, !.task = u]
          BY <2>5, <4>1, <4>5
        <4> QED
          BY <4>2, <4>4, <4>6
      <3> QED
        BY <1>1, <1>2, <1>3, <1>4, <1>11, <1>17, <3>1 DEF StartUninstall
    <2>10. Takes(c, e, free)
      BY <1>10, <2>6, <2>8, TakesTrans
    <2> QED
      BY <2>8, <2>9, <2>10, TakesEnd, TakesTrans
  <1> QED
    BY <1>15, <1>16, <1>17
-----------------------------------------------------------------------------
(* The invariant: what the queue and a pending request hold are jobs, and  *)
(* only applications run.                                                  *)

JobKinds == {"install", "update", "uninstall", "layer", "uab"}

IsJob(j) == JobFields \subseteq DOMAIN j /\ j.kind \in JobKinds

QueueInv == \E S : queue \in Seq(S) /\ \A j \in S : IsJob(j)

JobsInv ==
    /\ RepoFields \subseteq DOMAIN repo
    /\ JobFields \subseteq DOMAIN job
    /\ running \subseteq Apps
    /\ lookup # NoLookup => lookup.kind \in JobKinds
    /\ QueueInv

(* The first piece of a job of any kind. *)
LEMMA TakesStart ==
    ASSUME NEW c, NEW w, IsPiece(c), w.busy \in Busy, NEW free, free.busy = "free", c.job.kind \in JobKinds
    PROVE  /\ c.job.kind # "uninstall" => Takes(c, StartOf(c, w), w)
           /\ c.job.kind = "uninstall" => Takes(c, StartOf(c, w), free)
  <1>1. PICK p : p = Processing(c)
    OBVIOUS
  <1>2. PICK q : q = Prepare(c)
    OBVIOUS
  <1>3. Takes(c, p, w) /\ Takes(c, q, w) /\ IsPiece(p) /\ IsPiece(q)
    BY <1>1, <1>2, TakesProcessing, TakesPiece
  <1>4. CASE c.job.kind = "install"
    <2>1. StartOf(c, w) = InstallRef(p, w)
      BY <1>1, <1>4 DEF StartOf
    <2> QED
      BY <1>3, <1>4, <2>1, TakesInstallRef, TakesTrans
  <1>5. CASE c.job.kind = "update"
    <2>1. StartOf(c, w) = StartUpdate(c, w)
      BY <1>5 DEF StartOf
    <2> QED
      BY <1>5, <2>1, TakesStartUpdate
  <1>6. CASE c.job.kind = "uninstall"
    <2>1. StartOf(c, w) = StartUninstall(c, w)
      BY <1>6 DEF StartOf
    <2> QED
      BY <1>6, <2>1, TakesStartUninstall
  <1>7. CASE c.job.kind = "layer"
    <2>1. StartOf(c, w) = pullDependency(q, w)
      BY <1>2, <1>7 DEF StartOf
    <2> QED
      BY <1>3, <1>7, <2>1, TakesPullDependency, TakesTrans
  <1>8. CASE c.job.kind = "uab"
    <2>1. StartOf(c, w) = StartUab(c, w)
      BY <1>8 DEF StartOf
    <2> QED
      BY <1>8, <2>1, TakesStartUab
  <1> QED
    BY <1>4, <1>5, <1>6, <1>7, <1>8 DEF JobKinds

(* An application is no dependency. *)
LEMMA AppsApart == Apps \cap Dependencies = {}
  BY DEF Apps, Dependencies, App, Runtime, Base

(* What isRefBusy may answer. *)
LEMMA WorldIs ==
    ASSUME NEW ref, NEW w \in World(ref)
    PROVE  w.busy \in Busy /\ (w.busy = "free" => ref \notin running)
  BY DEF World, Busy

(* There is something isRefBusy may answer. *)
LEMMA WorldHolds ==
    ASSUME NEW ref
    PROVE  \E w : w \in World(ref) /\ w.busy = "error"
  <1>1. PICK w : w = [busy |-> "error", failAt |-> 0]
    OBVIOUS
  <1>2. w \in World(ref) /\ w.busy = "error"
    BY <1>1 DEF World
  <1> QED
    BY <1>2

(* Another package of an update is begun. *)
LEMMA TakesOther ==
    ASSUME NEW c, NEW w, IsPiece(c)
    PROVE  Takes(c, StartOther(c), w)
  <1>1. PICK p : p = Processing(c)
    OBVIOUS
  <1>2. Takes(c, p, w) /\ IsPiece(p)
    BY <1>1, TakesProcessing, TakesPiece
  <1>3. PICK t : t = updateSubState(updateSubState(p.task, "PreAction"), "InstallApplication")
    OBVIOUS
  <1>4. PICK d : d = [p EXCEPT !.task = t]
    OBVIOUS
  <1>5. StartOther(c) = Goto(d, "other")
    BY <1>1, <1>3, <1>4 DEF StartOther
  <1>6. Takes(p, d, w) /\ IsPiece(d)
    BY <1>2, <1>4, TakesTask, TakesPiece
  <1> QED
    BY <1>2, <1>5, <1>6, TakesGoto, TakesTrans

(* A step of a job that takes no more than it may spares the others. *)
LEMMA PieceSpares ==
    ASSUME JobsInv, NEW c, NEW d, NEW w, c.repo = repo, Takes(c, d, w), Become(d),
           (w.busy = "free" => c.job.old \notin running) \/ c.job.kind = "uninstall"
    PROVE  /\ OthersUntouched /\ UpgradeSparesRunning
           /\ RepoFields \subseteq DOMAIN repo' /\ JobFields \subseteq DOMAIN job'
           /\ job'.kind = c.job.kind
  <1>1. /\ repo' = d.repo /\ job' = d.job
        /\ job'.new = c.job.new /\ job'.old = c.job.old /\ job'.kind = c.job.kind
    BY DEF Become, Takes
  <1>2. \A x \in repo.layers : x \in repo'.layers \/ x[1] \in MayTake(c, w)
    BY <1>1 DEF Takes
  <1>3. OthersUntouched
    BY <1>1, <1>2, AppsApart DEF OthersUntouched, MayTake
  <1>4. UpgradeSparesRunning
    <2> SUFFICES ASSUME NEW ref \in running, job'.kind # "uninstall", ref # job'.new,
                        <<ref, "binary">> \in repo.layers
                 PROVE  <<ref, "binary">> \in repo'.layers
      BY DEF UpgradeSparesRunning, HasLayer
    <2>1. <<ref, "binary">> \in repo'.layers \/ ref \in MayTake(c, w)
      BY <1>2
    <2>2. ref \in Apps
      BY DEF JobsInv
    <2> QED
      BY <1>1, <2>1, <2>2, AppsApart DEF MayTake
  <1> QED
    BY <1>1, <1>3, <1>4 DEF Takes, IsPiece

(* The first job of the queue is one, and so are the others. *)
LEMMA HeadIsJob ==
    ASSUME QueueInv, queue # <<>>
    PROVE  /\ IsJob(Head(queue))
           /\ \E S : Tail(queue) \in Seq(S) /\ \A j \in S : IsJob(j)
  <1>1. PICK S : queue \in Seq(S) /\ \A j \in S : IsJob(j)
    BY DEF QueueInv
  <1>2. Head(queue) \in S /\ Tail(queue) \in Seq(S)
    BY <1>1
  <1> QED
    BY <1>1, <1>2

(* A request adds a job. *)
LEMMA EnqueueIs ==
    ASSUME QueueInv, NEW kind \in JobKinds, NEW new, NEW old, NEW mods, Enqueue(Job(kind, new, old, mods))
    PROVE  QueueInv'
  <1>1. PICK S : queue \in Seq(S) /\ \A j \in S : IsJob(j)
    BY DEF QueueInv
  <1>2. PICK k : k = Job(kind, new, old, mods)
    OBVIOUS
  <1>3. IsJob(k)
    BY <1>2 DEF IsJob, Job, JobFields
  <1>4. queue' = Append(queue, k)
    BY <1>2 DEF Enqueue
  <1>5. queue \in Seq(S \cup {k})
    BY <1>1
  <1>6. queue' \in Seq(S \cup {k})
    BY <1>4, <1>5
  <1>7. \A j \in S \cup {k} : IsJob(j)
    BY <1>1, <1>3
  <1> QED
    BY <1>6, <1>7 DEF QueueInv

(* A step that changes neither the repository nor what runs spares all. *)
LEMMA UnchangedSpares ==
    ASSUME JobsInv, repo' = repo
    PROVE  OthersUntouched /\ UpgradeSparesRunning
  BY DEF OthersUntouched, UpgradeSparesRunning

(* A job starts. *)
LEMMA StartJobSpares ==
    ASSUME JobsInv, StartJob
    PROVE  JobsInv' /\ OthersUntouched /\ UpgradeSparesRunning /\ job'.kind = Head(queue).kind
  <1>1. PICK j : j = [Head(queue) EXCEPT !.had = InstalledApps(repo)]
    OBVIOUS
  <1>2. PICK n, refs, c : /\ c = [Config(j) EXCEPT !.task = NewTask(refs)]
                          /\ \/ \E w \in World(c.job.old) : Become(StartOf(c, w))
                             \/ Become(StartOther(c))
    BY <1>1 DEF StartJob, TaskOf, FirstPackage
  <1>4. /\ IsJob(Head(queue))
        /\ \E S : Tail(queue) \in Seq(S) /\ \A k \in S : IsJob(k)
    BY HeadIsJob DEF StartJob, JobsInv
  <1>5. IsJob(j) /\ j.old = Head(queue).old /\ j.kind = Head(queue).kind
    BY <1>1, <1>4 DEF IsJob, JobFields
  <1>6. c.repo = repo /\ c.job = j /\ IsPiece(c)
    BY <1>2, <1>5 DEF Config, IsPiece, IsJob, JobsInv
  <1>13. QueueInv'
    BY <1>4 DEF QueueInv, StartJob
  <1>14. CASE Become(StartOther(c))
    <2>1. PICK w : w \in World(j.old) /\ w.busy = "error"
      BY WorldHolds
    <2>2. Takes(c, StartOther(c), w)
      BY <1>6, TakesOther
    <2>3. PICK d : d = StartOther(c)
      OBVIOUS
    <2>4. /\ OthersUntouched /\ UpgradeSparesRunning
          /\ RepoFields \subseteq DOMAIN repo' /\ JobFields \subseteq DOMAIN job'
          /\ job'.kind = c.job.kind
      BY <1>6, <1>14, <2>1, <2>2, <2>3, PieceSpares
    <2> QED
      BY <1>5, <1>6, <1>13, <2>4 DEF JobsInv, StartJob
  <1>15. SUFFICES ASSUME \E w \in World(j.old) : Become(StartOf(c, w))
                  PROVE  JobsInv' /\ OthersUntouched /\ UpgradeSparesRunning /\ job'.kind = Head(queue).kind
    BY <1>2, <1>6, <1>14
  <1>3. PICK w \in World(j.old) : Become(StartOf(c, w))
    BY <1>15
  <1>7. w.busy \in Busy /\ (w.busy = "free" => j.old \notin running)
    BY WorldIs
  <1>8. PICK free : free = [busy |-> "free"]
    OBVIOUS
  <1>9. free.busy = "free"
    BY <1>8
  <1>10. /\ c.job.kind # "uninstall" => Takes(c, StartOf(c, w), w)
         /\ c.job.kind = "uninstall" => Takes(c, StartOf(c, w), free)
    <2>1. c.job.kind \in JobKinds
      BY <1>5, <1>6 DEF IsJob
    <2> QED
      BY <1>6, <1>7, <1>9, <2>1, TakesStart
  <1>11. PICK d : d = StartOf(c, w)
    OBVIOUS
  <1>12. /\ OthersUntouched /\ UpgradeSparesRunning
         /\ RepoFields \subseteq DOMAIN repo' /\ JobFields \subseteq DOMAIN job'
         /\ job'.kind = c.job.kind
    <2>1. CASE c.job.kind = "uninstall"
      BY <1>3, <1>6, <1>10, <1>11, <2>1, PieceSpares
    <2>2. CASE c.job.kind # "uninstall"
      BY <1>3, <1>6, <1>7, <1>10, <1>11, <2>2, PieceSpares
    <2> QED
      BY <2>1, <2>2
  <1> QED
    BY <1>5, <1>6, <1>12, <1>13 DEF JobsInv, StartJob

(* The record a waiting job goes on from. *)
LEMMA ConfigIs ==
    ASSUME JobsInv
    PROVE  /\ IsPiece(Config(job))
           /\ Config(job).repo = repo /\ Config(job).job = job /\ Config(job).task = task
  BY DEF JobsInv, Config, IsPiece

(* A waiting job goes on. *)
LEMMA WaitSpares ==
    ASSUME JobsInv, NEW w \in World(job.old), NEW d, Takes(Config(job), d, w), Become(d),
           UNCHANGED <<running, queue, lookup>>
    PROVE  JobsInv' /\ OthersUntouched /\ UpgradeSparesRunning /\ job'.kind = job.kind
  <1>1. PICK c : c = Config(job)
    OBVIOUS
  <1>2. c.repo = repo /\ c.job = job
    BY <1>1, ConfigIs
  <1>3. w.busy = "free" => c.job.old \notin running
    BY <1>2, WorldIs
  <1>4. /\ OthersUntouched /\ UpgradeSparesRunning
        /\ RepoFields \subseteq DOMAIN repo' /\ JobFields \subseteq DOMAIN job'
        /\ job'.kind = job.kind
    BY <1>1, <1>2, <1>3, PieceSpares
  <1> QED
    BY <1>4 DEF JobsInv, QueueInv

(* A layer that was pulled is added. *)
LEMMA TakesAdd ==
    ASSUME NEW c, NEW w, IsPiece(c), NEW ref, NEW module
    PROVE  Takes(c, [c EXCEPT !.repo = AddLayer(@, ref, module)], w)
  <1>1. PICK r : r = AddLayer(c.repo, ref, module)
    OBVIOUS
  <1>2. RepoFields \subseteq DOMAIN r /\ c.repo.layers \subseteq r.layers
    BY <1>1, AddIs DEF IsPiece
  <1>3. Takes(c, [c EXCEPT !.repo = r], w)
    BY <1>2, TakesRepo
  <1> QED
    BY <1>1, <1>3

(* An update goes on with its next package. *)
LEMMA NextPackageSpares ==
    ASSUME JobsInv, NEW c, IsPiece(c), \A w : Takes(Config(job), c, w), NextPackage(c),
           UNCHANGED <<running, queue, lookup>>
    PROVE  JobsInv' /\ OthersUntouched /\ UpgradeSparesRunning /\ job'.kind = job.kind
  <1>1. c.job.old = job.old
    BY ConfigIs DEF Takes
  <1>2. CASE Become(StartOther(c))
    <2>1. PICK w : w \in World(job.old) /\ w.busy = "error"
      BY WorldHolds
    <2>2. PICK d : d = StartOther(c)
      OBVIOUS
    <2>3. Takes(Config(job), d, w)
      BY <2>2, TakesOther, TakesTrans
    <2> QED
      BY <1>2, <2>1, <2>2, <2>3, WaitSpares
  <1>3. CASE \E w \in World(c.job.old) : Become(StartUpdate(c, w))
    <2>1. PICK w \in World(job.old) : Become(StartUpdate(c, w))
      BY <1>1, <1>3
    <2>2. PICK d : d = StartUpdate(c, w)
      OBVIOUS
    <2>3. w.busy \in Busy
      BY WorldIs
    <2>4. Takes(Config(job), d, w)
      BY <2>2, <2>3, TakesStartUpdate, TakesTrans
    <2> QED
      BY <2>1, <2>2, <2>4, WaitSpares
  <1> QED
    BY <1>2, <1>3 DEF NextPackage

(* A step of another package of an update. *)
LEMMA OthersSpare ==
    ASSUME JobsInv, OtherStep
    PROVE  JobsInv' /\ OthersUntouched /\ UpgradeSparesRunning /\ job'.kind = job.kind
  <1>1. PICK b : b = Config(job)
    OBVIOUS
  <1>2. IsPiece(b) /\ b.repo = repo /\ b.job = job /\ b.task = task
    BY <1>1, ConfigIs
  <1>3. ASSUME NEW t
        PROVE  LET d == [b EXCEPT !.task = t] IN IsPiece(d) /\ \A w : Takes(b, d, w)
    BY <1>2, TakesTask, TakesPiece
  <1>4. CASE OtherFails
    <2>1. PICK t : NextPackage([b EXCEPT !.task = t])
      BY <1>1, <1>4 DEF OtherFails
    <2>2. PICK d : d = [b EXCEPT !.task = t]
      OBVIOUS
    <2>3. NextPackage(d) /\ IsPiece(d) /\ \A w : Takes(b, d, w)
      BY <1>3, <2>1, <2>2
    <2> QED
      BY <1>1, <1>4, <2>3, NextPackageSpares DEF OtherFails
  <1>5. CASE OtherCancelled \/ OtherRestored
    <2>1. \A w : Takes(b, b, w)
      BY <1>2, TakesNothing
    <2> QED
      BY <1>1, <1>2, <1>5, <2>1, NextPackageSpares DEF OtherCancelled, OtherRestored
  <1>6. CASE OtherPulled
    <2>1. PICK t, at : Become(Goto([b EXCEPT !.task = t], at))
      BY <1>1, <1>6 DEF OtherPulled
    <2>2. PICK d : d = [b EXCEPT !.task = t]
      OBVIOUS
    <2>3. PICK e : e = Goto(d, at)
      OBVIOUS
    <2>4. PICK w : w \in World(job.old) /\ w.busy = "error"
      BY WorldHolds
    <2>5. Takes(b, e, w)
      BY <1>3, <2>2, <2>3, TakesGoto, TakesTrans
    <2> QED
      BY <1>1, <1>6, <2>1, <2>2, <2>3, <2>4, <2>5, WaitSpares DEF OtherPulled
  <1>7. CASE OtherUpgraded
    <2>1. PICK t, d : /\ d = [b EXCEPT !.task = t]
                      /\ \/ NextPackage([d EXCEPT !.repo = mergeModules(@)])
                         \/ NextPackage(d)
                         \/ Become(Goto(d, "otherRestore"))
      BY <1>1, <1>7 DEF OtherUpgraded
    <2>2. IsPiece(d) /\ \A w : Takes(b, d, w)
      BY <1>3, <2>1
    <2>3. CASE NextPackage([d EXCEPT !.repo = mergeModules(@)])
      <3>1. PICK r : r = mergeModules(d.repo)
        OBVIOUS
      <3>2. PICK e : e = [d EXCEPT !.repo = r]
        OBVIOUS
      <3>3. RepoFields \subseteq DOMAIN r /\ r.layers = d.repo.layers
        BY <2>2, <3>1, MergeIs DEF IsPiece
      <3>4. \A w : Takes(d, e, w)
        BY <2>2, <3>2, <3>3, TakesRepo
      <3>5. IsPiece(e) /\ \A w : Takes(b, e, w)
        BY <2>2, <3>4, TakesTrans DEF Takes
      <3>6. NextPackage(e)
        BY <2>3, <3>1, <3>2
      <3> QED
        BY <1>1, <1>7, <3>5, <3>6, NextPackageSpares DEF OtherUpgraded
    <2>4. CASE NextPackage(d)
      BY <1>1, <1>7, <2>2, <2>4, NextPackageSpares DEF OtherUpgraded
    <2>5. CASE Become(Goto(d, "otherRestore"))
      <3>1. PICK w : w \in World(job.old) /\ w.busy = "error"
        BY WorldHolds
      <3>2. PICK e : e = Goto(d, "otherRestore")
        OBVIOUS
      <3>3. Takes(b, e, w)
        BY <2>2, <3>2, TakesGoto, TakesTrans
      <3> QED
        BY <1>1, <1>7, <2>5, <3>1, <3>2, <3>3, WaitSpares DEF OtherUpgraded
    <2> QED
      BY <2>1, <2>3, <2>4, <2>5
  <1> QED
    BY <1>4, <1>5, <1>6, <1>7 DEF OtherStep

(* A pull of the application ends. *)
LEMMA PullEndsSpares ==
    ASSUME JobsInv, PullEnds
    PROVE  JobsInv' /\ OthersUntouched /\ UpgradeSparesRunning /\ job'.kind = job.kind
  <1>1. PICK b : b = Config(job)
    OBVIOUS
  <1>2. PICK m : m = Head(job.todo)
    OBVIOUS
  <1>3. PICK c : c = [b EXCEPT !.repo = AddLayer(@, job.new, m)]
    OBVIOUS
  <1>4. PICK e : e = [b EXCEPT !.task = reportError(@)]
    OBVIOUS
  <1>5. PICK p : p = [c EXCEPT !.job.pulled = @ \cup {m}]
    OBVIOUS
  <1>6. PICK q : q = [c EXCEPT !.job.pulled = @ \cup {m}, !.job.todo = Tail(@)]
    OBVIOUS
  <1>7. PICK w \in World(job.old) :
           \/ Become(End(UndoInstallRef(e)))
           \/ Become(End(UndoInstallRef(c)))
           \/ Become(pullDependency(p, w))
           \/ Become(NextModule(q, w))
    BY <1>1, <1>2, <1>3, <1>4, <1>5, <1>6 DEF PullEnds
  <1>8. w.busy \in Busy
    BY WorldIs
  <1>9. IsPiece(b)
    BY <1>1, ConfigIs
  <1>10. Takes(b, c, w) /\ IsPiece(c)
    BY <1>3, <1>9, TakesAdd, TakesPiece
  <1>11. Takes(b, e, w) /\ IsPiece(e)
    BY <1>4, <1>9, TakesTask, TakesPiece
  <1>12. Takes(c, p, w) /\ IsPiece(p)
    BY <1>5, <1>10, TakesNote, TakesPiece
  <1>13. Takes(c, q, w) /\ IsPiece(q)
    <2>1. PICK pulled : pulled = c.job.pulled \cup {m}
      OBVIOUS
    <2>2. PICK todo : todo = Tail(c.job.todo)
      OBVIOUS
    <2>3. q = [c EXCEPT !.job.pulled = pulled, !.job.todo = todo]
      BY <1>6, <2>1, <2>2
    <2>4. Takes(c, q, w)
      BY <1>10, <2>3 DEF Takes, IsPiece, JobFields
    <2> QED
      BY <2>4, TakesPiece
  <1>14. PICK d : /\ Become(d)
                  /\ \/ d = End(UndoInstallRef(e)) \/ d = End(UndoInstallRef(c))
                     \/ d = pullDependency(p, w) \/ d = NextModule(q, w)
    BY <1>7
  <1>15. Takes(b, p, w) /\ Takes(b, q, w)
    BY <1>10, <1>12, <1>13, TakesTrans
  <1>16. ASSUME NEW x, Takes(b, x, w), IsPiece(x)
         PROVE  Takes(b, End(UndoInstallRef(x)), w)
    <2>1. Takes(b, UndoInstallRef(x), w) /\ IsPiece(UndoInstallRef(x))
      BY <1>16, TakesUndo, TakesPiece, TakesTrans
    <2> QED
      BY <2>1, TakesEnd, TakesTrans
  <1>17. Takes(b, d, w)
    <2>1. CASE d = End(UndoInstallRef(e)) \/ d = End(UndoInstallRef(c))
      BY <1>10, <1>11, <1>16, <2>1
    <2>2. CASE d = pullDependency(p, w)
      BY <1>8, <1>12, <1>15, <2>2, TakesPullDependency, TakesTrans
    <2>3. CASE d = NextModule(q, w)
      BY <1>8, <1>13, <1>15, <2>3, TakesNextModule, TakesTrans
    <2> QED
      BY <1>14, <2>1, <2>2, <2>3
  <1> QED
    BY <1>1, <1>14, <1>17, WaitSpares DEF PullEnds

(* The remote has answered where a dependency is. *)
LEMMA FindEndsSpares ==
    ASSUME JobsInv, FindEnds
    PROVE  JobsInv' /\ OthersUntouched /\ UpgradeSparesRunning /\ job'.kind = job.kind
  <1>1. PICK b : b = Config(job)
    OBVIOUS
  <1>2. PICK e : e = [b EXCEPT !.task = updateState(@, "Failed")]
    OBVIOUS
  <1>w. PICK w \in World(job.old) :
           \/ Become(DependencyFailed(e, w)) \/ Become(RuntimeFound(b, w)) \/ Become(BaseFound(b, w))
    BY <1>1, <1>2 DEF FindEnds
  <1>3. PICK d : /\ Become(d)
                 /\ d = DependencyFailed(e, w) \/ d = RuntimeFound(b, w) \/ d = BaseFound(b, w)
    BY <1>w
  <1>4. w.busy \in Busy
    BY WorldIs
  <1>5. IsPiece(b)
    BY <1>1, ConfigIs
  <1>6. Takes(b, e, w) /\ IsPiece(e)
    BY <1>2, <1>5, TakesTask, TakesPiece
  <1>7. Takes(b, d, w)
    BY <1>3, <1>4, <1>5, <1>6, TakesDependencyFailed, TakesRuntimeFound, TakesBaseFound, TakesTrans
  <1> QED
    BY <1>1, <1>3, <1>7, WaitSpares DEF FindEnds

(* A dependency has been pulled, or not. *)
LEMMA DependencyEndsSpares ==
    ASSUME JobsInv, DependencyEnds
    PROVE  JobsInv' /\ OthersUntouched /\ UpgradeSparesRunning /\ job'.kind = job.kind
  <1>1. PICK b : b = Config(job)
    OBVIOUS
  <1>2. PICK ref : ref = IF job.at = "runtime" THEN Runtime ELSE Base
    OBVIOUS
  <1>3. PICK c : c = [b EXCEPT !.repo = AddLayer(@, ref, "binary")]
    OBVIOUS
  <1>4. PICK e : e = [b EXCEPT !.task = reportError(@)]
    OBVIOUS
  <1>5. PICK p : p = [c EXCEPT !.job.runtimePulled = TRUE]
    OBVIOUS
  <1>w. PICK w \in World(job.old) :
           \/ Become(DependencyFailed(e, w)) \/ Become(DependencyFailed(c, w))
           \/ Become(FindBase(p, w)) \/ Become(DependencyReturned(c, w))
    BY <1>1, <1>2, <1>3, <1>4, <1>5 DEF DependencyEnds
  <1>6. PICK d : /\ Become(d)
                 /\ \/ d = DependencyFailed(e, w) \/ d = DependencyFailed(c, w)
                    \/ d = FindBase(p, w) \/ d = DependencyReturned(c, w)
    BY <1>w
  <1>7. w.busy \in Busy
    BY WorldIs
  <1>8. IsPiece(b)
    BY <1>1, ConfigIs
  <1>9. Takes(b, c, w) /\ IsPiece(c)
    BY <1>3, <1>8, TakesAdd, TakesPiece
  <1>10. Takes(b, e, w) /\ IsPiece(e)
    BY <1>4, <1>8, TakesTask, TakesPiece
  <1>11. Takes(b, p, w) /\ IsPiece(p)
    BY <1>5, <1>9, TakesNote, TakesPiece, TakesTrans
  <1>12. Takes(b, d, w)
    <2>1. CASE d = DependencyFailed(e, w) \/ d = DependencyFailed(c, w)
      BY <1>7, <1>9, <1>10, <2>1, TakesDependencyFailed, TakesTrans
    <2>2. CASE d = FindBase(p, w) \/ d = DependencyReturned(c, w)
      BY <1>7, <1>9, <1>11, <2>2, TakesFindBase, TakesDependencyReturned, TakesTrans
    <2> QED
      BY <1>6, <2>1, <2>2
  <1> QED
    BY <1>1, <1>6, <1>12, WaitSpares DEF DependencyEnds

(* A module that was removed has been pulled again, or not. *)
LEMMA RestoreEndsSpares ==
    ASSUME JobsInv, RestoreEnds
    PROVE  JobsInv' /\ OthersUntouched /\ UpgradeSparesRunning /\ job'.kind = job.kind
  <1>1. PICK b : b = Config(job)
    OBVIOUS
  <1>2. PICK r : /\ r = AddLayer(repo, job.old, "binary") \/ r = repo
                 /\ Become(AfterRemove([b EXCEPT !.repo = exportReference(r, job.old)], FALSE))
    BY <1>1 DEF RestoreEnds
  <1>3. IsPiece(b) /\ b.repo = repo
    BY <1>1, ConfigIs
  <1>4. RepoFields \subseteq DOMAIN r /\ repo.layers \subseteq r.layers
    BY <1>2, AddIs DEF JobsInv
  <1>5. PICK s : s = exportReference(r, job.old)
    OBVIOUS
  <1>6. RepoFields \subseteq DOMAIN s /\ repo.layers \subseteq s.layers
    BY <1>4, <1>5, ExportIs
  <1>7. PICK e : e = [b EXCEPT !.repo = s]
    OBVIOUS
  <1>8. \E w : w \in World(job.old) /\ w.busy = "error"
    <2>1. [busy |-> "error", failAt |-> 0] \in World(job.old)
      BY DEF World
    <2> QED
      BY <2>1
  <1>9. PICK w \in World(job.old) : w.busy = "error"
    BY <1>8
  <1>10. Takes(b, e, w) /\ IsPiece(e)
    BY <1>3, <1>6, <1>7, TakesRepo, TakesPiece
  <1>11. Takes(b, AfterRemove(e, FALSE), w)
    BY <1>10, TakesAfterRemove, TakesTrans
  <1>12. Become(AfterRemove(e, FALSE))
    BY <1>2, <1>5, <1>7
  <1> QED
    BY <1>1, <1>11, <1>12, WaitSpares DEF RestoreEnds

(* Prune removes dependencies only. *)
LEMMA PruneSpares ==
    ASSUME JobsInv, PruneStep
    PROVE  JobsInv' /\ OthersUntouched /\ UpgradeSparesRunning
  <1>1. Unused(repo) \subseteq Dependencies
    BY DEF Unused
  <1>2. ASSUME NEW gone, gone \subseteq Dependencies
        PROVE  /\ RepoFields \subseteq DOMAIN RemoveRefs(repo, gone)
               /\ \A x \in repo.layers : x \in RemoveRefs(repo, gone).layers \/ x[1] \in Dependencies
    BY <1>2 DEF RemoveRefs, RepoFields, JobsInv
  <1>3. PICK r : r = RemoveRefs(repo, Unused(repo))
    OBVIOUS
  <1>4. /\ RepoFields \subseteq DOMAIN r
        /\ \A x \in repo.layers : x \in r.layers \/ x[1] \in Dependencies
    BY <1>1, <1>2, <1>3
  <1>5. RepoFields \subseteq DOMAIN mergeModules(r) /\ mergeModules(r).layers = r.layers
    BY <1>4, MergeIs
  <1>6. Prune(repo) = repo \/ Prune(repo) = mergeModules(r)
    BY <1>3 DEF Prune
  <1>7. /\ RepoFields \subseteq DOMAIN repo'
        /\ \A x \in repo.layers : x \in repo'.layers \/ x[1] \in Dependencies
    <2>1. CASE repo' = Prune(repo)
      <3>1. CASE Prune(repo) = repo
        BY <2>1, <3>1 DEF JobsInv
      <3>2. CASE Prune(repo) = mergeModules(r)
        BY <1>4, <1>5, <2>1, <3>2
      <3> QED
        BY <1>6, <3>1, <3>2
    <2>2. CASE \E gone \in SUBSET Unused(repo) \ {Unused(repo)} : repo' = RemoveRefs(repo, gone)
      <3>1. PICK gone : gone \subseteq Dependencies /\ repo' = RemoveRefs(repo, gone)
        BY <1>1, <2>2
      <3> QED
        BY <1>2, <3>1
    <2> QED
      BY <2>1, <2>2 DEF PruneStep
  <1>8. OthersUntouched
    BY <1>7, AppsApart DEF OthersUntouched
  <1>9. UpgradeSparesRunning
    BY <1>7, AppsApart DEF UpgradeSparesRunning, HasLayer, JobsInv
  <1> QED
    BY <1>7, <1>8, <1>9 DEF PruneStep, JobsInv, QueueInv

(* The timer removes versions that are marked and that nothing uses. *)
LEMMA TimerSpares ==
    ASSUME JobsInv, NEW stuck \in SUBSET repo.deleted, deferredUninstall(stuck)
    PROVE  JobsInv' /\ OthersUntouched /\ UpgradeSparesRunning
  <1>1. PICK gone : gone = {x \in repo.deleted : x[1] \in Uninstallable} \ stuck
    OBVIOUS
  <1>2. PICK entry : entry = IF NoDir \in {unexportReference(repo, ref).entry : ref \in Uninstallable}
                               THEN NoDir ELSE repo.entry
    OBVIOUS
  <1>3. PICK k : k = [repo EXCEPT !.layers = @ \ gone, !.deleted = @ \ gone, !.entry = entry]
    OBVIOUS
  <1>4. PICK kept : kept = mergeModules(k)
    OBVIOUS
  <1>5. \E latest : repo' = exportReference(kept, latest)
    <2>1. k = [repo EXCEPT
                 !.layers = @ \ gone, !.deleted = @ \ gone,
                 !.entry  = IF NoDir \in {unexportReference(repo, ref).entry : ref \in Uninstallable}
                              THEN NoDir ELSE @]
      BY <1>2, <1>3
    <2>2. repo' = exportReference(kept, clearReferenceLocal(kept, "app"))
      BY <1>1, <1>4, <2>1 DEF deferredUninstall
    <2> QED
      BY <2>2
  <1>6. RepoFields \subseteq DOMAIN k /\ k.layers = repo.layers \ gone
    BY <1>3 DEF JobsInv, RepoFields
  <1>7. RepoFields \subseteq DOMAIN repo' /\ repo'.layers = repo.layers \ gone
    BY <1>4, <1>5, <1>6, MergeIs, ExportIs
  <1>8. \A x \in gone : x[1] \in DeletedRefs /\ x[1] \notin running
    BY <1>1 DEF Uninstallable
  <1>9. OthersUntouched
    BY <1>7, <1>8 DEF OthersUntouched
  <1>10. UpgradeSparesRunning
    <2>1. \A ref \in running : <<ref, "binary">> \notin gone
      BY <1>8
    <2> QED
      BY <1>7, <2>1 DEF UpgradeSparesRunning, HasLayer
  <1>11. UNCHANGED <<running, job, queue, lookup>>
    BY DEF deferredUninstall
  <1> QED
    BY <1>7, <1>9, <1>10, <1>11 DEF JobsInv, QueueInv

(* The requests and what else runs beside the jobs. *)
LEMMA RequestsSpare ==
    ASSUME JobsInv,
           \/ \E kind \in Kinds : RequestRemote(kind)
           \/ \E new \in Apps, force \in Forces : RemoteAnswered(new, force)
           \/ \E ref \in Apps : RequestUninstall(ref)
           \/ \E kind \in Kinds, new \in Apps, mods \in UabModules, force \in Forces :
                 InstallFromFile(kind, new, mods, force)
           \/ CancelTask
           \/ JobReturns
           \/ \E part \in Reports : Progress(part)
           \/ \E ref \in Apps : StartApp(ref) \/ StopApp(ref)
    PROVE  JobsInv' /\ repo' = repo
  <1>1. CASE \E kind \in Kinds : RequestRemote(kind)
    <2>1. PICK kind \in Kinds : RequestRemote(kind)
      BY <1>1
    <2>2. kind \in JobKinds
      BY <2>1, KindsAssumption DEF JobKinds
    <2>3. PICK nested : lookup' = [kind |-> kind, old |-> clearReferenceLocal(repo, "app"), nested |-> nested]
      BY <2>1 DEF RequestRemote
    <2>4. lookup'.kind = kind
      BY <2>3
    <2> QED
      BY <2>1, <2>2, <2>4 DEF RequestRemote, JobsInv, QueueInv
  <1>2. CASE \E new \in Apps, force \in Forces : RemoteAnswered(new, force)
    <2>1. PICK new \in Apps, force \in Forces : RemoteAnswered(new, force)
      BY <1>2
    <2>2. lookup.kind \in JobKinds
      BY <2>1 DEF RemoteAnswered, LookupOnTop, JobsInv
    <2>3. QueueInv'
      <3>1. CASE queue' = queue
        BY <3>1 DEF JobsInv, QueueInv
      <3>2. CASE Enqueue(Job(lookup.kind, new, lookup.old, <<"binary">>))
        BY <2>2, <3>2, EnqueueIs DEF JobsInv
      <3> QED
        BY <2>1, <3>1, <3>2 DEF RemoteAnswered
    <2> QED
      BY <2>1, <2>3 DEF RemoteAnswered, JobsInv
  <1>3. CASE \E ref \in Apps : RequestUninstall(ref)
    <2>1. PICK ref \in Apps : RequestUninstall(ref)
      BY <1>3
    <2>2. QueueInv'
      BY <2>1, EnqueueIs DEF RequestUninstall, JobsInv, JobKinds
    <2> QED
      BY <2>1, <2>2 DEF RequestUninstall, JobsInv
  <1>4. CASE \E kind \in Kinds, new \in Apps, mods \in UabModules, force \in Forces :
                InstallFromFile(kind, new, mods, force)
    <2>1. PICK kind \in Kinds, new \in Apps, mods \in UabModules, force \in Forces :
             InstallFromFile(kind, new, mods, force)
      BY <1>4
    <2>2. PICK old, m : Enqueue(Job(kind, new, old, m))
      BY <2>1 DEF InstallFromFile
    <2>3. QueueInv'
      BY <2>2, EnqueueIs, KindsAssumption DEF JobsInv, JobKinds
    <2> QED
      BY <2>1, <2>3 DEF InstallFromFile, JobsInv
  <1>5. CASE CancelTask
    BY <1>5 DEF CancelTask, JobsInv, QueueInv
  <1>6. CASE JobReturns
    BY <1>6 DEF JobReturns, JobsInv, QueueInv, NoJob, Job, JobFields
  <1>7. CASE \E part \in Reports : Progress(part)
    BY <1>7 DEF Progress, JobsInv, QueueInv
  <1>8. CASE \E ref \in Apps : StartApp(ref) \/ StopApp(ref)
    BY <1>8 DEF StartApp, StopApp, JobsInv, QueueInv
  <1> QED
    BY <1>1, <1>2, <1>3, <1>4, <1>5, <1>6, <1>7, <1>8

(* The invariant holds at first. *)
LEMMA JobsInit == Init => JobsInv
  <1> SUFFICES ASSUME Init PROVE JobsInv
    OBVIOUS
  <1>1. QueueInv
    <2>1. queue \in Seq({})
      BY DEF Init
    <2> QED
      BY <2>1 DEF QueueInv
  <1> QED
    BY <1>1 DEF Init, JobsInv, EmptyRepo, RepoFields, NoJob, Job, JobFields

(* Every step keeps the invariant and spares what is not its own. *)
LEMMA JobsNext == JobsInv /\ [Next]_vars => JobsInv' /\ OthersUntouched /\ UpgradeSparesRunning
  <1> SUFFICES ASSUME JobsInv, [Next]_vars
               PROVE  JobsInv' /\ OthersUntouched /\ UpgradeSparesRunning
    OBVIOUS
  <1>1. CASE StartJob
    BY <1>1, StartJobSpares
  <1>2. CASE PullEnds
    BY <1>2, PullEndsSpares
  <1>3. CASE FindEnds
    BY <1>3, FindEndsSpares
  <1>4. CASE DependencyEnds
    BY <1>4, DependencyEndsSpares
  <1>5. CASE RestoreEnds
    BY <1>5, RestoreEndsSpares
  <1>6. CASE PruneStep
    BY <1>6, PruneSpares
  <1>10. CASE OtherStep
    BY <1>10, OthersSpare
  <1>7. CASE \E stuck \in SUBSET repo.deleted : deferredUninstall(stuck)
    BY <1>7, TimerSpares
  <1>8. CASE UNCHANGED vars
    <2>1. JobsInv' /\ repo' = repo
      BY <1>8 DEF vars, JobsInv, QueueInv
    <2> QED
      BY <2>1, UnchangedSpares
  <1>9. CASE /\ ~StartJob /\ ~PullEnds /\ ~FindEnds /\ ~DependencyEnds /\ ~RestoreEnds /\ ~PruneStep
             /\ ~OtherStep /\ ~\E stuck \in SUBSET repo.deleted : deferredUninstall(stuck)
             /\ Next
    <2>1. JobsInv' /\ repo' = repo
      BY <1>9, RequestsSpare DEF Next, JobStep
    <2> QED
      BY <2>1, UnchangedSpares
  <1> QED
    BY <1>1, <1>2, <1>3, <1>4, <1>5, <1>6, <1>7, <1>8, <1>9, <1>10

(* For any versions, requests, modules, failures and cancellations: no     *)
(* step of install, update, uninstall, a layer file, a UAB, Prune or the   *)
(* deferred-uninstall timer takes away layers of a version the job was not *)
(* created for, unless they are marked deleted, and the version an         *)
(* application runs from keeps its binary module unless it is uninstalled  *)
(* or is itself the one being installed.                                   *)
THEOREM SparesOthers == Spec => JobSparesOthers
  <1>1. Init => JobsInv
    BY JobsInit
  <1>2. JobsInv /\ [Next]_vars => JobsInv'
    BY JobsNext
  <1>3. JobsInv /\ [Next]_vars => [OthersUntouched /\ UpgradeSparesRunning]_vars
    BY JobsNext
  <1> QED
    BY <1>1, <1>2, <1>3, PTL DEF Spec, JobSparesOthers
-----------------------------------------------------------------------------
(* What the results of the jobs say, for applications whose packages hold  *)
(* the binary module alone.  (With a second module the restoring of one    *)
(* that was removed comes in, and some of the claims are false.)           *)

OneModule == \A mods \in UabModules : mods = {"binary"}

(* The repository then: no merged directory, links that lead to the        *)
(* directory of a layer, marks on applications that are there.             *)
Entries == {NoDir} \cup {Dir(a, {"binary"}) : a \in Apps}

OneRepo ==
    [layers : SUBSET ((Apps \cup Dependencies) \X {"binary"}), deleted : SUBSET (Apps \X {"binary"}),
     merged : {{}}, entry : Entries]

StoreInv(r) == r \in OneRepo /\ r.deleted \subseteq r.layers

Live(r, ref) == <<ref, "binary">> \in r.layers /\ <<ref, "binary">> \notin r.deleted

AllLive(r, refs) == \A a \in refs : Live(r, a)

(* The links lead nowhere or to a layer that is there. *)
Led(r) == r.entry = NoDir \/ HasLayer(r, r.entry.ref, "binary")

(* Names are told apart by their id. *)
LEMMA RefsApart ==
    /\ \A a \in Apps : a # NoRef /\ a # Runtime /\ a # Base /\ a.id = "app"
    /\ Runtime # NoRef /\ Base # NoRef /\ Runtime # Base
    /\ Runtime.id = "runtime" /\ Base.id = "base"
    /\ \A a \in Apps : Dir(a, {"binary"}) # NoDir
  BY DEF Apps, App, NoRef, Runtime, Base, Dir, NoDir

(* The fields of such a repository. *)
LEMMA StoreIs ==
    ASSUME NEW r, StoreInv(r)
    PROVE  /\ RepoFields \subseteq DOMAIN r
           /\ r.merged = {} /\ r.entry \in Entries /\ r.deleted \subseteq r.layers
           /\ \A x \in r.layers : x = <<x[1], "binary">> /\ x[1] \in Apps \cup Dependencies
           /\ \A x \in r.deleted : x = <<x[1], "binary">> /\ x[1] \in Apps
  BY DEF StoreInv, OneRepo, RepoFields

(* Setting its fields. *)
LEMMA StoreSet ==
    ASSUME NEW r, StoreInv(r), NEW layers, NEW deleted, NEW entry \in Entries,
           layers \subseteq (Apps \cup Dependencies) \X {"binary"}, deleted \subseteq Apps \X {"binary"},
           deleted \subseteq layers
    PROVE  /\ StoreInv([r EXCEPT !.layers = layers, !.deleted = deleted, !.entry = entry])
           /\ StoreInv([r EXCEPT !.layers = layers, !.deleted = deleted])
           /\ deleted = r.deleted => StoreInv([r EXCEPT !.layers = layers])
           /\ layers = r.layers => StoreInv([r EXCEPT !.deleted = deleted])
           /\ StoreInv([r EXCEPT !.entry = entry])
  BY DEF StoreInv, OneRepo

(* A version is installed if its layer is there without a mark. *)
LEMMA InstalledIs ==
    ASSUME NEW r, StoreInv(r), NEW ref
    PROVE  /\ Installed(r, ref) <=> Live(r, ref)
           /\ ExistingModules(r, ref) = IF Live(r, ref) THEN {"binary"} ELSE {}
  <1>1. \A x \in queryExistingLayerItem(r) : x = <<x[1], "binary">> /\ x[2] = "binary"
    BY StoreIs DEF queryExistingLayerItem
  <1>2. Live(r, ref) <=> <<ref, "binary">> \in queryExistingLayerItem(r)
    BY DEF Live, queryExistingLayerItem
  <1>3. \A m \in ExistingModules(r, ref) : m = "binary" /\ Live(r, ref)
    BY <1>1, <1>2 DEF ExistingModules
  <1>4. Live(r, ref) => "binary" \in ExistingModules(r, ref)
    BY <1>2 DEF ExistingModules
  <1>5. ExistingModules(r, ref) = IF Live(r, ref) THEN {"binary"} ELSE {}
    BY <1>3, <1>4
  <1> QED
    BY <1>5 DEF Installed

(* There is nothing to merge. *)
LEMMA MergeSame ==
    ASSUME NEW r, StoreInv(r)
    PROVE  mergeModules(r) = r
  <1>1. \A ref : ~(Cardinality(ExistingModules(r, ref)) > 1)
    <2>1. Cardinality({}) = 0 /\ Cardinality({"binary"}) = 1
      BY FS_EmptySet, FS_Singleton
    <2> QED
      BY <2>1, InstalledIs
  <1>2. {d \in {Dir(ref, ExistingModules(r, ref)) : ref \in Apps \cup Dependencies} :
            Cardinality(d.mods) > 1 /\ "binary" \in d.mods} = {}
    BY <1>1 DEF Dir
  <1>3. mergeModules(r) = [r EXCEPT !.merged = {}]
    BY <1>2 DEF mergeModules
  <1>4. [r EXCEPT !.merged = {}] = r
    BY DEF StoreInv, OneRepo
  <1> QED
    BY <1>3, <1>4

(* The names of at most the binary module, sorted. *)
LEMMA SortedOne ==
    ASSUME NEW mods, "develop" \notin mods
    PROVE  Sorted(mods) = IF "binary" \in mods THEN <<"binary">> ELSE <<>>
  <1>1. <<"binary">> \o <<>> = <<"binary">> /\ <<>> \o <<>> = <<>>
    OBVIOUS
  <1> QED
    BY <1>1 DEF Sorted

(* The modules of a version. *)
LEMMA ModuleListIs ==
    ASSUME NEW r, StoreInv(r), NEW ref
    PROVE  getModuleList(r, ref) = IF HasLayer(r, ref, "binary") THEN <<"binary">> ELSE <<>>
  <1>1. ~HasLayer(r, ref, "develop")
    BY StoreIs DEF HasLayer
  <1>2. PICK mods : mods = {m \in {"binary", "develop"} : HasLayer(r, ref, m)}
    OBVIOUS
  <1>3. "develop" \notin mods /\ ("binary" \in mods <=> HasLayer(r, ref, "binary"))
    BY <1>1, <1>2
  <1>4. getModuleList(r, ref) = Sorted(mods)
    BY <1>2 DEF getModuleList
  <1> QED
    BY <1>3, <1>4, SortedOne

(* The rank of a version in the order of the texts is a number below 200. *)
LEMMA RankIs ==
    ASSUME NEW v \in Versions
    PROVE  TextRank(v) \in 0 .. 200
  <1>1. v \in 1 .. 99
    BY VersionsAssumption
  <1>2. v \div 10 \in 0 .. 9 /\ v % 10 \in 0 .. 9
    BY <1>1
  <1> QED
    BY <1>1, <1>2 DEF TextRank

(* The installed versions of the application. *)
LEMMA ExistingApps ==
    ASSUME NEW r, StoreInv(r)
    PROVE  Existing(r, "app") = {a \in Apps : Live(r, a)}
  <1>1. ASSUME NEW a \in Existing(r, "app")
        PROVE  a \in Apps /\ Live(r, a)
    <2>1. PICK x \in queryExistingLayerItem(r) : x[1].id = "app" /\ a = x[1]
      BY <1>1 DEF Existing
    <2>2. x = <<x[1], "binary">> /\ x[1] \in Apps \cup Dependencies
      BY <2>1, StoreIs DEF queryExistingLayerItem
    <2>3. a \in Apps
      BY <2>1, <2>2, RefsApart DEF Dependencies
    <2> QED
      BY <2>1, <2>2, <2>3 DEF Live, queryExistingLayerItem
  <1>2. ASSUME NEW a \in Apps, Live(r, a)
        PROVE  a \in Existing(r, "app")
    <2>1. <<a, "binary">> \in {y \in queryExistingLayerItem(r) : y[1].id = "app"}
      BY <1>2, RefsApart DEF Live, queryExistingLayerItem
    <2>2. <<a, "binary">>[1] = a
      OBVIOUS
    <2> QED
      BY <2>1, <2>2 DEF Existing
  <1> QED
    BY <1>1, <1>2

(* clearReferenceLocal finds an installed version if there is one. *)
LEMMA LatestApp ==
    ASSUME NEW r, StoreInv(r)
    PROVE  /\ clearReferenceLocal(r, "app") \in Apps \cup {NoRef}
           /\ clearReferenceLocal(r, "app") # NoRef => Live(r, clearReferenceLocal(r, "app"))
  <1> DEFINE E == Existing(r, "app")
             Rank(a) == TextRank(a.version)
             T == {200 - Rank(a) : a \in E}
  <1>1. E = {a \in Apps : Live(r, a)}
    BY ExistingApps
  <1>2. \A a \in E : Rank(a) \in 0 .. 200
    BY <1>1, RankIs DEF Apps, App
  <1>3. CASE E = {}
    BY <1>3 DEF clearReferenceLocal
  <1>4. CASE E # {}
    <2> HIDE DEF E, Rank
    <2>1. T \subseteq Nat /\ T # {}
      BY <1>2, <1>4
    <2>2. PICK n \in T : \A m \in T : ~(<<m, n>> \in OpToRel(<, Nat))
      <3> HIDE DEF T
      <3> QED
        BY <2>1, NatLessThanWellFounded, WFMin
    <2>3. \A m \in T : n <= m
      <3>1. OpToRel(<, Nat) = {ss \in Nat \X Nat : ss[1] < ss[2]}
        BY Zenon DEF OpToRel
      <3>2. \A m \in T : ~(m < n)
        BY <2>1, <2>2, <3>1
      <3>3. \A m \in T : m \in Nat
        BY <2>1
      <3> HIDE DEF T
      <3> QED
        BY <3>2, <3>3
    <2>4. PICK a \in E : n = 200 - Rank(a)
      BY <2>2
    <2>5. \A b \in E : Rank(b) <= Rank(a)
      <3> SUFFICES ASSUME NEW b \in E PROVE Rank(b) <= Rank(a)
        OBVIOUS
      <3>1. 200 - Rank(b) \in T
        OBVIOUS
      <3>2. 200 - Rank(a) <= 200 - Rank(b)
        BY <2>3, <2>4, <3>1
      <3>3. Rank(a) \in 0 .. 200 /\ Rank(b) \in 0 .. 200
        BY <1>2
      <3> QED
        BY <3>2, <3>3
    <2>6. clearReferenceLocal(r, "app") \in E
      <3>1. clearReferenceLocal(r, "app") = CHOOSE x \in E : \A y \in E : Rank(y) <= Rank(x)
        BY <1>4 DEF clearReferenceLocal, E, Rank
      <3> QED
        BY <2>5, <3>1
    <2> QED
      BY <1>1, <2>6
  <1> QED
    BY <1>3, <1>4

(* A runtime or base that is there is found. *)
LEMMA DependencyFound ==
    ASSUME NEW r, StoreInv(r), NEW d \in Dependencies, HasLayer(r, d, "binary")
    PROVE  clearReferenceLocal(r, d.id) # NoRef
  <1>1. d # NoRef /\ d.version = 1 /\ d \notin Apps /\ \A e \in Dependencies : e.id = d.id => e = d
    BY RefsApart DEF Dependencies, Runtime, Base, NoRef
  <1>2. <<d, "binary">> \in queryExistingLayerItem(r)
    BY <1>1, StoreIs DEF HasLayer, queryExistingLayerItem
  <1>3. d \in Existing(r, d.id)
    <2>1. <<d, "binary">> \in {y \in queryExistingLayerItem(r) : y[1].id = d.id}
      BY <1>2
    <2>2. <<d, "binary">>[1] = d
      OBVIOUS
    <2> QED
      BY <2>1, <2>2 DEF Existing
  <1>4. \A e \in Existing(r, d.id) : e = d
    <2> SUFFICES ASSUME NEW e \in Existing(r, d.id)
                 PROVE  e = d
      OBVIOUS
    <2>1. PICK x \in queryExistingLayerItem(r) : x[1].id = d.id /\ e = x[1]
      BY DEF Existing
    <2>2. e \in Apps \cup Dependencies
      BY <2>1, StoreIs DEF queryExistingLayerItem
    <2>3. d.id # "app"
      BY DEF Dependencies, Runtime, Base
    <2> QED
      BY <1>1, <2>1, <2>2, <2>3, RefsApart
  <1>5. Existing(r, d.id) = {d}
    BY <1>3, <1>4
  <1>6. clearReferenceLocal(r, d.id) = CHOOSE x \in {d} : \A y \in {d} : TextRank(y.version) <= TextRank(x.version)
    BY <1>5 DEF clearReferenceLocal
  <1>7. TextRank(d.version) <= TextRank(d.version)
    BY <1>1 DEF TextRank
  <1>8. clearReferenceLocal(r, d.id) \in {d}
    BY <1>6, <1>7
  <1> QED
    BY <1>1, <1>8

(* exportReference makes the links of a layer that is there. *)
LEMMA ExportStore ==
    ASSUME NEW r, StoreInv(r), NEW ref \in Apps \cup {NoRef}
    PROVE  /\ StoreInv(exportReference(r, ref))
           /\ exportReference(r, ref).layers = r.layers
           /\ exportReference(r, ref).deleted = r.deleted
           /\ HasLayer(r, ref, "binary") => exportReference(r, ref).entry = Dir(ref, {"binary"})
           /\ ~HasLayer(r, ref, "binary") => exportReference(r, ref) = r
           /\ Led(r) \/ HasLayer(r, ref, "binary") => Led(exportReference(r, ref))
  <1>1. CASE ~HasLayer(r, ref, "binary")
    BY <1>1 DEF exportReference
  <1>2. CASE HasLayer(r, ref, "binary")
    <2>1. ref \in Apps
      BY <1>2, StoreIs, RefsApart DEF HasLayer, Dependencies
    <2>2. exportReference(r, ref) = [r EXCEPT !.entry = Dir(ref, {"binary"})]
      BY <1>2, StoreIs DEF exportReference, getMergedModuleDir
    <2>3. Dir(ref, {"binary"}) \in Entries /\ Dir(ref, {"binary"}).ref = ref
      BY <2>1 DEF Entries, Dir
    <2>4. PICK e : e = Dir(ref, {"binary"})
      OBVIOUS
    <2>5. StoreInv([r EXCEPT !.entry = e])
      BY <2>3, <2>4 DEF StoreInv, OneRepo
    <2>6. /\ [r EXCEPT !.entry = e].layers = r.layers /\ [r EXCEPT !.entry = e].deleted = r.deleted
          /\ [r EXCEPT !.entry = e].entry = e
      BY StoreIs DEF RepoFields
    <2> QED
      BY <1>2, <2>2, <2>3, <2>4, <2>5, <2>6 DEF Led, HasLayer
  <1> QED
    BY <1>1, <1>2

(* unexportReference takes away the links to a layer. *)
LEMMA UnexportStore ==
    ASSUME NEW r, StoreInv(r), NEW ref \in Apps
    PROVE  /\ StoreInv(unexportReference(r, ref))
           /\ unexportReference(r, ref).layers = r.layers
           /\ unexportReference(r, ref).deleted = r.deleted
           /\ unexportReference(r, ref).entry \in {r.entry, NoDir}
           /\ HasLayer(r, ref, "binary") => unexportReference(r, ref).entry # Dir(ref, {"binary"})
           /\ r.entry = Dir(ref, {"binary"}) /\ HasLayer(r, ref, "binary")
                => unexportReference(r, ref).entry = NoDir
           /\ Led(r) => Led(unexportReference(r, ref))
  <1>1. CASE HasLayer(r, ref, "binary") /\ r.entry = Dir(ref, {"binary"})
    <2>1. unexportReference(r, ref) = [r EXCEPT !.entry = NoDir]
      BY <1>1 DEF unexportReference
    <2>2. StoreInv([r EXCEPT !.entry = NoDir])
      BY DEF StoreInv, OneRepo, Entries
    <2>3. /\ [r EXCEPT !.entry = NoDir].layers = r.layers /\ [r EXCEPT !.entry = NoDir].deleted = r.deleted
          /\ [r EXCEPT !.entry = NoDir].entry = NoDir
      BY StoreIs DEF RepoFields
    <2> QED
      BY <2>1, <2>2, <2>3, RefsApart DEF Led
  <1>2. CASE ~(HasLayer(r, ref, "binary") /\ r.entry = Dir(ref, {"binary"}))
    <2>1. unexportReference(r, ref) = r
      BY <1>2 DEF unexportReference
    <2> QED
      BY <1>2, <2>1
  <1> QED
    BY <1>1, <1>2
(* remove takes the layer and its mark. *)
LEMMA RemoveStore ==
    ASSUME NEW r, StoreInv(r), NEW ref
    PROVE  /\ StoreInv(remove(r, ref, {"binary"}))
           /\ remove(r, ref, {"binary"}).layers = r.layers \ {<<ref, "binary">>}
           /\ remove(r, ref, {"binary"}).deleted = r.deleted \ {<<ref, "binary">>}
           /\ remove(r, ref, {"binary"}).entry = r.entry
           /\ ~Live(remove(r, ref, {"binary"}), ref)
           /\ \A a : a # ref => (Live(remove(r, ref, {"binary"}), a) <=> Live(r, a))
  <1>1. PICK gone : gone = {<<ref, m>> : m \in {"binary"}}
    OBVIOUS
  <1>2. gone = {<<ref, "binary">>}
    BY <1>1
  <1>3. PICK s : s = [r EXCEPT !.layers = @ \ gone, !.deleted = @ \ gone]
    OBVIOUS
  <1>4. s = remove(r, ref, {"binary"})
    BY <1>1, <1>3 DEF remove
  <1>5. StoreInv(s) /\ s.layers = r.layers \ gone /\ s.deleted = r.deleted \ gone /\ s.entry = r.entry
    BY <1>3 DEF StoreInv, OneRepo
  <1> QED
    BY <1>2, <1>4, <1>5 DEF Live

(* Nothing to remove or to mark. *)
LEMMA NothingToDo ==
    ASSUME NEW r, StoreInv(r), NEW ref, NEW b \in BOOLEAN
    PROVE  remove(r, ref, {}) = r /\ markDeleted(r, ref, {}, b) = r
  <1>1. {<<ref, m>> : m \in {}} = {}
    OBVIOUS
  <1>2. remove(r, ref, {}) = [r EXCEPT !.layers = @ \ {}, !.deleted = @ \ {}]
    BY <1>1 DEF remove
  <1>3. markDeleted(r, ref, {}, b) = [r EXCEPT !.deleted = r.deleted]
    <2>1. r.deleted \cup {} = r.deleted /\ r.deleted \ {} = r.deleted
      OBVIOUS
    <2>2. markDeleted(r, ref, {}, b) = [r EXCEPT !.deleted = IF b THEN @ \cup {} ELSE @ \ {}]
      BY <1>1 DEF markDeleted
    <2>3. CASE b
      BY <2>1, <2>2, <2>3
    <2>4. CASE ~b
      BY <2>1, <2>2, <2>4
    <2> QED
      BY <2>3, <2>4
  <1>4. [r EXCEPT !.layers = @ \ {}, !.deleted = @ \ {}] = r /\ [r EXCEPT !.deleted = r.deleted] = r
    BY DEF StoreInv, OneRepo
  <1> QED
    BY <1>2, <1>3, <1>4

(* A version that is there is marked. *)
LEMMA MarkStore ==
    ASSUME NEW r, StoreInv(r), NEW ref \in Apps, HasLayer(r, ref, "binary")
    PROVE  /\ StoreInv(markDeleted(r, ref, {"binary"}, TRUE))
           /\ markDeleted(r, ref, {"binary"}, TRUE).layers = r.layers
           /\ markDeleted(r, ref, {"binary"}, TRUE).deleted = r.deleted \cup {<<ref, "binary">>}
           /\ markDeleted(r, ref, {"binary"}, TRUE).entry = r.entry
  <1>1. {<<ref, m>> : m \in {"binary"}} = {<<ref, "binary">>}
    OBVIOUS
  <1>2. PICK s : s = [r EXCEPT !.deleted = @ \cup {<<ref, "binary">>}]
    OBVIOUS
  <1>3. markDeleted(r, ref, {"binary"}, TRUE) = s
    BY <1>1, <1>2 DEF markDeleted
  <1>4. StoreInv(s) /\ s.layers = r.layers /\ s.deleted = r.deleted \cup {<<ref, "binary">>} /\ s.entry = r.entry
    BY <1>2 DEF StoreInv, OneRepo, HasLayer
  <1> QED
    BY <1>3, <1>4

(* A mark is taken back. *)
LEMMA UnmarkStore ==
    ASSUME NEW r, StoreInv(r), NEW ref
    PROVE  /\ StoreInv(markDeleted(r, ref, {"binary"}, FALSE))
           /\ markDeleted(r, ref, {"binary"}, FALSE).layers = r.layers
           /\ markDeleted(r, ref, {"binary"}, FALSE).deleted = r.deleted \ {<<ref, "binary">>}
           /\ markDeleted(r, ref, {"binary"}, FALSE).entry = r.entry
  <1>1. {<<ref, m>> : m \in {"binary"}} = {<<ref, "binary">>}
    OBVIOUS
  <1>2. PICK s : s = [r EXCEPT !.deleted = @ \ {<<ref, "binary">>}]
    OBVIOUS
  <1>3. markDeleted(r, ref, {"binary"}, FALSE) = s
    BY <1>1, <1>2 DEF markDeleted
  <1>4. StoreInv(s) /\ s.layers = r.layers /\ s.deleted = r.deleted \ {<<ref, "binary">>} /\ s.entry = r.entry
    BY <1>2 DEF StoreInv, OneRepo
  <1> QED
    BY <1>3, <1>4

(* A layer is added without a mark. *)
LEMMA AddStore ==
    ASSUME NEW r, StoreInv(r), NEW ref \in Apps \cup Dependencies, CanAdd(r, ref, "binary")
    PROVE  /\ StoreInv(AddLayer(r, ref, "binary"))
           /\ AddLayer(r, ref, "binary").layers = r.layers \cup {<<ref, "binary">>}
           /\ AddLayer(r, ref, "binary").deleted = r.deleted
           /\ AddLayer(r, ref, "binary").entry = r.entry
           /\ Live(AddLayer(r, ref, "binary"), ref)
           /\ \A a : Live(r, a) => Live(AddLayer(r, ref, "binary"), a)
  <1>1. PICK s : s = [r EXCEPT !.layers = @ \cup {<<ref, "binary">>}]
    OBVIOUS
  <1>2. AddLayer(r, ref, "binary") = s
    BY <1>1 DEF AddLayer
  <1>3. StoreInv(s) /\ s.layers = r.layers \cup {<<ref, "binary">>} /\ s.deleted = r.deleted /\ s.entry = r.entry
    BY <1>1 DEF StoreInv, OneRepo
  <1>4. <<ref, "binary">> \notin r.deleted
    BY StoreIs DEF CanAdd, HasLayer
  <1> QED
    BY <1>2, <1>3, <1>4 DEF Live

(* EntryAlive for such a repository. *)
LEMMA LedIs ==
    ASSUME NEW r, StoreInv(r)
    PROVE  EntryAlive(r) <=> Led(r)
  <1>1. r.entry = NoDir \/ \E a \in Apps : r.entry = Dir(a, {"binary"})
    BY StoreIs DEF Entries
  <1>2. CASE r.entry = NoDir
    BY <1>2 DEF EntryAlive, Led
  <1>3. CASE \E a \in Apps : r.entry = Dir(a, {"binary"})
    <2>1. r.entry # NoDir /\ r.entry.mods = {"binary"}
      BY <1>3, RefsApart DEF Dir
    <2> QED
      BY <2>1 DEF EntryAlive, Led, DirExists
  <1> QED
    BY <1>1, <1>2, <1>3

-----------------------------------------------------------------------------
(* The task of a job that has not ended                                    *)

OpenTask(t) ==
    /\ {"state", "subState", "total", "stage", "parts", "refs", "cancelled"} \subseteq DOMAIN t
    /\ t.state \in States /\ t.subState \in SubStates
    /\ t.parts \in Nat /\ Len(t.refs) \in Nat /\ t.parts < Len(t.refs)

(* The same parts are still to do. *)
SameParts(t, u) == u.parts = t.parts /\ u.refs = t.refs

(* A task goes on to another step. *)
LEMMA StepTask ==
    ASSUME NEW t, OpenTask(t), NEW sub \in SubStates, ~isTaskDone(sub)
    PROVE  /\ OpenTask(updateSubState(t, sub))
           /\ updateSubState(t, sub).state = t.state /\ updateSubState(t, sub).subState = sub
           /\ SameParts(t, updateSubState(t, sub))
  <1>1. PICK total : total = t.total + m_subStateMap[sub]
    OBVIOUS
  <1>2. updateSubState(t, sub) = [t EXCEPT !.subState = sub, !.total = total, !.stage = 0]
    BY <1>1 DEF updateSubState
  <1> QED
    BY <1>2 DEF OpenTask, SameParts

(* A task is given a state. *)
LEMMA StateTask ==
    ASSUME NEW t, OpenTask(t), NEW state \in States, state # "PartCompleted"
    PROVE  /\ OpenTask(updateState(t, state)) /\ updateState(t, state).state = state
           /\ state \in {"Succeed", "Failed", "Canceled"} => updateState(t, state).subState = "AllDone"
           /\ state \notin {"Succeed", "Failed", "Canceled"} => updateState(t, state).subState = t.subState
           /\ SameParts(t, updateState(t, state))
  <1>1. PICK s : s = [t EXCEPT !.state = state]
    OBVIOUS
  <1>2. OpenTask(s) /\ s.state = state /\ s.subState = t.subState /\ SameParts(t, s)
    BY <1>1 DEF OpenTask, SameParts
  <1>3. updateState(t, state) = IF state \in {"Canceled", "Failed", "Succeed"} THEN updateSubState(s, "AllDone") ELSE s
    <2>1. ~(s.parts = Len(s.refs))
      BY <1>2 DEF OpenTask
    <2> QED
      BY <1>1, <1>2, <2>1 DEF updateState, updateStateTo
  <1>4. updateSubState(s, "AllDone") = [s EXCEPT !.subState = "AllDone", !.total = TASK_DONE]
    BY DEF updateSubState, isTaskDone
  <1>5. PICK done : done = [s EXCEPT !.subState = "AllDone", !.total = TASK_DONE]
    OBVIOUS
  <1>6. OpenTask(done) /\ done.state = state /\ done.subState = "AllDone" /\ SameParts(t, done)
    BY <1>2, <1>5 DEF OpenTask, SubStates, SameParts
  <1> QED
    BY <1>2, <1>3, <1>4, <1>5, <1>6

(* An error is reported to the client. *)
LEMMA ErrorTask ==
    ASSUME NEW t, OpenTask(t)
    PROVE  /\ OpenTask(reportError(t))
           /\ reportError(t).state = "Failed" /\ reportError(t).subState = "AllDone"
           /\ SameParts(t, reportError(t))
  BY DEF reportError, OpenTask, States, SubStates, SameParts

(* A package of an update has been upgraded, the last one or another. *)
LEMMA UpdatedTask ==
    ASSUME NEW t, OpenTask(t)
    PROVE  LET d == setSubState(updateState(t, "PartCompleted"), "PackageManagerDone")
           IN  /\ d.state \in {"Succeed", "PartCompleted"} /\ d.subState = "PackageManagerDone"
               /\ t.parts + 1 < Len(t.refs) => OpenTask(d) /\ d.parts = t.parts + 1 /\ d.refs = t.refs
  <1>1. PICK s : s = [t EXCEPT !.state = "PartCompleted", !.parts = @ + 1, !.total = 0, !.stage = 0]
    OBVIOUS
  <1>2. s.parts = t.parts + 1 /\ s.refs = t.refs /\ s.state = "PartCompleted" /\ DOMAIN s = DOMAIN t
    BY <1>1 DEF OpenTask
  <1>3. PICK u : u = [s EXCEPT !.state = "Succeed"]
    OBVIOUS
  <1>4. u.state = "Succeed" /\ DOMAIN u = DOMAIN t
    BY <1>2, <1>3 DEF OpenTask
  <1>5. CASE s.parts = Len(s.refs)
    <2>1. updateState(t, "PartCompleted") = updateSubState(u, "AllDone")
      BY <1>1, <1>3, <1>4, <1>5 DEF updateState, updateStateTo
    <2>2. updateSubState(u, "AllDone") = [u EXCEPT !.subState = "AllDone", !.total = TASK_DONE]
      BY DEF updateSubState, isTaskDone
    <2>3. PICK v : v = [u EXCEPT !.subState = "AllDone", !.total = TASK_DONE]
      OBVIOUS
    <2>4. v.state = "Succeed" /\ DOMAIN v = DOMAIN t
      BY <1>4, <2>3 DEF OpenTask
    <2>5. setSubState(v, "PackageManagerDone").state = "Succeed"
          /\ setSubState(v, "PackageManagerDone").subState = "PackageManagerDone"
      BY <2>4 DEF setSubState, OpenTask
    <2>6. ~(t.parts + 1 < Len(t.refs))
      BY <1>2, <1>5 DEF OpenTask
    <2> QED
      BY <2>1, <2>2, <2>3, <2>5, <2>6
  <1>6. CASE s.parts # Len(s.refs)
    <2>1. updateState(t, "PartCompleted") = s
      BY <1>1, <1>2, <1>6 DEF updateState, updateStateTo
    <2>2. PICK d : d = setSubState(s, "PackageManagerDone")
      OBVIOUS
    <2>3. /\ d.state = "PartCompleted" /\ d.subState = "PackageManagerDone" /\ d.parts = t.parts + 1
          /\ d.refs = t.refs /\ DOMAIN d = DOMAIN t
      BY <1>2, <2>2 DEF setSubState, OpenTask
    <2>4. t.parts + 1 < Len(t.refs) => OpenTask(d)
      BY <2>3 DEF OpenTask, States, SubStates
    <2> QED
      BY <2>1, <2>2, <2>3, <2>4
  <1> QED
    BY <1>5, <1>6

-----------------------------------------------------------------------------
(* What holds while a job waits and when it has ended                      *)

(* A job replaces a version by another, or uninstalls one. *)
Single(j) ==
    /\ j \in JobRecord /\ j.kind \in JobKinds
    /\ j.kind \in {"uninstall", "update"} => j.old \in Apps
    /\ j.kind # "uninstall" => j.new \in Apps /\ j.new # j.old
    /\ j.kind \notin {"uninstall", "update"} => j.mods = <<"binary">>

(* While it works, what was installed stays installed. *)
Under(r, t, j) ==
    /\ StoreInv(r) /\ OpenTask(t) /\ Single(j)
    /\ AllLive(r, j.had)
    /\ j.kind \in {"install", "update", "layer"}
    /\ j.undeleted = {}
    /\ j.kind # "layer" => j.mods = <<"binary">> /\ j.todo = <<"binary">>

(* The new version has been pulled. *)
Brought(r, j) == j.kind # "layer" => Live(r, j.new) /\ j.new \notin j.had

Missing(r) == \E d \in Dependencies : ~HasLayer(r, d, "binary")

WaitInv(r, t, j) ==
    /\ Under(r, t, j)
    /\ t.state \in {"Processing", "Canceled"}
    /\ j.at \in {"pull", "findRuntime", "runtime", "findBase", "base"}
    /\ j.at = "pull" => /\ j.kind # "layer" /\ j.pulled = {}
                        /\ HasLayer(r, j.new, "binary") => j.new \in j.had
    /\ j.at # "pull" => Brought(r, j)
    /\ j.at \in {"findRuntime", "runtime"} => ~HasLayer(r, Runtime, "binary")
    /\ j.at \in {"findBase", "base"} => ~HasLayer(r, Base, "binary")

(* The result, in terms of the repository it was left with. *)
ResultInv(r, t, j) ==
    /\ (t.state = "Succeed" /\ j.kind = "install") =>
          Live(r, j.new) /\ (r.entry = Dir(j.new, {"binary"}) \/ j.old \in running)
    /\ (t.state = "Succeed" /\ j.kind = "update" /\ j.old \in j.had) => Live(r, j.new)
    /\ (t.state = "Failed" /\ j.kind = "install" /\ Live(r, j.new)) => j.new \in j.had \/ Missing(r)
    /\ (t.state = "Succeed" /\ j.kind = "uninstall" /\ j.mods = <<"binary">>) => r.entry.ref # j.old
    /\ (j.kind # "uninstall" /\ j.had # {}) => \E a \in Apps : Live(r, a)

EndInv(r, t, j) ==
    /\ StoreInv(r) /\ j \in JobRecord /\ j.kind \in JobKinds /\ j.at = "ended"
    /\ t.state \in States /\ isTaskDone(t.subState)
    /\ ResultInv(r, t, j)

(* The links of the launcher after a piece of a job: they still lead to a  *)
(* layer, or the version they lead to was rolled back.                     *)
Launch(r, d) ==
    Led(r) => Led(d.repo) \/ (d.job.kind = "install" /\ d.task.state = "Failed" /\ d.repo.entry.ref = d.job.new)

(* A piece of a job has come to its end. *)
Reaches(r, d) ==
    /\ WaitInv(d.repo, d.task, d.job) \/ EndInv(d.repo, d.task, d.job)
    /\ Launch(r, d)

Rec(c) == {"repo", "task", "job"} \subseteq DOMAIN c

(* k is j at another place. *)
SameJob(j, k) ==
    /\ k \in JobRecord
    /\ k.kind = j.kind /\ k.new = j.new /\ k.old = j.old /\ k.mods = j.mods /\ k.had = j.had
    /\ k.todo = j.todo /\ k.undeleted = j.undeleted /\ k.pulled = j.pulled

OtherPlaces == {"other", "otherRuntime", "otherBase", "otherRestore"}

Places == OtherPlaces \cup {"queued", "pull", "findRuntime", "runtime", "findBase", "base", "restore", "ended"}

(* Setting one field leaves the others. *)
LEMMA SetRepo ==
    ASSUME NEW c, Rec(c), NEW r
    PROVE  /\ Rec([c EXCEPT !.repo = r]) /\ [c EXCEPT !.repo = r].repo = r
           /\ [c EXCEPT !.repo = r].task = c.task /\ [c EXCEPT !.repo = r].job = c.job
  BY DEF Rec

(* The task alone is set. *)
LEMMA SetTask ==
    ASSUME NEW c, Rec(c), NEW t
    PROVE  /\ Rec([c EXCEPT !.task = t]) /\ [c EXCEPT !.task = t].task = t
           /\ [c EXCEPT !.task = t].repo = c.repo /\ [c EXCEPT !.task = t].job = c.job
  BY DEF Rec

(* The job goes to another place. *)
LEMMA GotoIs ==
    ASSUME NEW c, Rec(c), c.job \in JobRecord, NEW at \in Places
    PROVE  /\ Goto(c, at).repo = c.repo /\ Goto(c, at).task = c.task
           /\ Goto(c, at).job.at = at /\ SameJob(c.job, Goto(c, at).job)
  <1>1. PICK j : j = [c.job EXCEPT !.at = at]
    OBVIOUS
  <1>2. j.at = at /\ SameJob(c.job, j)
    BY <1>1 DEF JobRecord, OtherPlaces, Places, SameJob
  <1>3. PICK d : d = [c EXCEPT !.job = j]
    OBVIOUS
  <1>4. Goto(c, at) = d
    BY <1>1, <1>3 DEF Goto
  <1>5. d.repo = c.repo /\ d.task = c.task /\ d.job = j
    BY <1>3 DEF Rec
  <1> QED
    BY <1>2, <1>4, <1>5

(* The job ends. *)
LEMMA Ends ==
    ASSUME NEW c, Rec(c), StoreInv(c.repo), c.job \in JobRecord, c.job.kind \in JobKinds,
           c.task.state \in States, isTaskDone(c.task.subState), ResultInv(c.repo, c.task, c.job),
           NEW r, Led(r) => Led(c.repo)
    PROVE  Reaches(r, End(c))
  <1>1. PICK d : d = End(c)
    OBVIOUS
  <1>2. d.repo = c.repo /\ d.task = c.task /\ d.job.at = "ended" /\ SameJob(c.job, d.job)
    BY <1>1, GotoIs DEF End, Places
  <1>3. ResultInv(d.repo, d.task, d.job)
    BY <1>2 DEF ResultInv, SameJob
  <1>4. EndInv(d.repo, d.task, d.job)
    BY <1>2, <1>3 DEF EndInv, SameJob
  <1>5. Launch(r, d)
    BY <1>2 DEF Launch
  <1> QED
    BY <1>1, <1>4, <1>5 DEF Reaches

(* The modules that are rolled back. *)
LEMMA SetOfOne == ModuleSet(<<"binary">>) = {"binary"} /\ ModuleSet(<<>>) = {}
  BY DEF ModuleSet

(* An install that fails after all is rolled back. *)
LEMMA RollBackEnds ==
    ASSUME NEW c, Rec(c), StoreInv(c.repo), Single(c.job), c.job.kind = "install",
           c.task.state = "Failed", isTaskDone(c.task.subState),
           AllLive(c.repo, c.job.had), c.job.new \notin c.job.had,
           NEW r, Led(r) => Led(c.repo)
    PROVE  Reaches(r, End(RollBackInstall(c)))
  <1>1. PICK s : s = remove(c.repo, c.job.new, {"binary"})
    OBVIOUS
  <1>2. /\ StoreInv(s) /\ s.layers = c.repo.layers \ {<<c.job.new, "binary">>} /\ s.entry = c.repo.entry
        /\ ~Live(s, c.job.new) /\ \A a : a # c.job.new => (Live(s, a) <=> Live(c.repo, a))
    BY <1>1, RemoveStore
  <1>3. RollBackInstall(c) = [c EXCEPT !.repo = s]
    BY <1>1, SetOfOne DEF RollBackInstall, Single
  <1>4. PICK d : d = RollBackInstall(c)
    OBVIOUS
  <1>5. Rec(d) /\ d.repo = s /\ d.task = c.task /\ d.job = c.job
    BY <1>3, <1>4, SetRepo
  <1>6. PICK e : e = End(d)
    OBVIOUS
  <1>7. e.repo = s /\ e.task = c.task /\ e.job.at = "ended" /\ SameJob(c.job, e.job)
    BY <1>5, <1>6, GotoIs DEF End, Places, Single
  <1>8. c.job.had # {} => \E a \in Apps : Live(s, a)
    <2> SUFFICES ASSUME NEW a \in c.job.had PROVE a \in Apps /\ Live(s, a)
      OBVIOUS
    <2>1. a \in Apps
      BY DEF Single, JobRecord
    <2> QED
      BY <1>2, <2>1 DEF AllLive
  <1>9. ResultInv(e.repo, e.task, e.job)
    BY <1>2, <1>7, <1>8 DEF ResultInv, SameJob
  <1>10. EndInv(e.repo, e.task, e.job)
    BY <1>2, <1>7, <1>9 DEF EndInv, SameJob, JobKinds, States
  <1>11. Launch(r, e)
    <2> SUFFICES ASSUME Led(r), s.entry.ref # c.job.new PROVE Led(s)
      BY <1>7 DEF Launch, SameJob
    <2> QED
      BY <1>2 DEF Led, HasLayer
  <1> QED
    BY <1>4, <1>6, <1>10, <1>11 DEF Reaches
-----------------------------------------------------------------------------
(* The ends of the jobs                                                    *)

(* A job that is about to remove the old version: install and uab have not *)
(* said yet how they end, update and layer have.                           *)
Closing(c) ==
    /\ Rec(c) /\ Single(c.job) /\ c.job.kind # "uninstall"
    /\ c.job.kind \in {"install", "uab"} => OpenTask(c.task)
    /\ c.job.kind \in {"update", "layer"} => c.task.state \in States /\ isTaskDone(c.task.subState)

(* The result of removeAfterInstall is dealt with. *)
LEMMA AfterRemoveEnds ==
    ASSUME NEW c, Closing(c), StoreInv(c.repo), NEW ok \in BOOLEAN,
           (c.job.kind = "update" /\ c.job.old \in c.job.had) => Live(c.repo, c.job.new),
           (c.job.kind = "install" /\ ok) =>
              Live(c.repo, c.job.new) /\ (c.repo.entry = Dir(c.job.new, {"binary"}) \/ c.job.old \in running),
           (c.job.kind = "install" /\ ~ok) => AllLive(c.repo, c.job.had) /\ c.job.new \notin c.job.had,
           c.job.had # {} => \E a \in Apps : Live(c.repo, a),
           NEW r, Led(r) => Led(c.repo)
    PROVE  Reaches(r, AfterRemove(c, ok))
  <1>1. CASE c.job.kind \in {"update", "layer"}
    <2>1. AfterRemove(c, ok) = End(c)
      BY <1>1 DEF AfterRemove
    <2>2. ResultInv(c.repo, c.task, c.job)
      BY <1>1 DEF ResultInv
    <2> QED
      BY <1>1, <2>1, <2>2, Ends DEF Closing, Single
  <1>2. CASE (c.job.kind = "install" /\ ok) \/ c.job.kind = "uab"
    <2>1. PICK t : t = updateState(c.task, "Succeed")
      OBVIOUS
    <2>2. t.state = "Succeed" /\ t.subState = "AllDone"
      BY <1>2, <2>1, StateTask DEF Closing, States
    <2>3. PICK d : d = [c EXCEPT !.task = t]
      OBVIOUS
    <2>4. Rec(d) /\ d.repo = c.repo /\ d.task = t /\ d.job = c.job
      BY <2>3, SetTask DEF Closing
    <2>5. AfterRemove(c, ok) = End(d)
      BY <1>2, <2>1, <2>3 DEF AfterRemove
    <2>6. ResultInv(d.repo, d.task, d.job)
      BY <1>2, <2>2, <2>4 DEF ResultInv
    <2>7. d.task.state \in States /\ isTaskDone(d.task.subState)
      BY <2>2, <2>4 DEF States, isTaskDone
    <2> QED
      BY <2>4, <2>5, <2>6, <2>7, Ends DEF Closing, Single
  <1>3. CASE c.job.kind = "install" /\ ~ok
    <2>1. PICK t : t = updateState(c.task, "Failed")
      OBVIOUS
    <2>2. t.state = "Failed" /\ t.subState = "AllDone"
      BY <1>3, <2>1, StateTask DEF Closing, States
    <2>3. PICK d : d = [c EXCEPT !.task = t]
      OBVIOUS
    <2>4. Rec(d) /\ d.repo = c.repo /\ d.task = t /\ d.job = c.job
      BY <2>3, SetTask DEF Closing
    <2>5. AfterRemove(c, ok) = End(RollBackInstall(d))
      BY <1>3, <2>1, <2>3 DEF AfterRemove
    <2>6. isTaskDone(d.task.subState)
      BY <2>2, <2>4 DEF isTaskDone
    <2> QED
      BY <1>3, <2>2, <2>4, <2>5, <2>6, RollBackEnds DEF Closing
  <1> QED
    BY <1>1, <1>2, <1>3 DEF Closing, Single, JobKinds

(* The old version is removed, marked or kept. *)
LEMMA RemoveAfterEnds ==
    ASSUME NEW c, Closing(c), StoreInv(c.repo), c.job.old \in Apps, NEW w \in World(c.job.old),
           NEW mods, mods = <<>> \/ mods = <<"binary">>,
           HasLayer(c.repo, c.job.new, "binary"), mods = <<"binary">> => Live(c.repo, c.job.new),
           AllLive(c.repo, c.job.had),
           c.job.kind = "install" => Live(c.repo, c.job.new) /\ c.job.new \notin c.job.had,
           (c.job.kind = "update" /\ c.job.old \in c.job.had) => Live(c.repo, c.job.new),
           NEW r, Led(r) => Led(c.repo)
    PROVE  Reaches(r, removeAfterInstall(c, w, mods))
  <1>1. /\ w.busy \in Busy /\ (w.busy = "free" => c.job.old \notin running)
        /\ w.busy = "busy" => c.job.old \in running
    BY DEF World, Busy
  <1>2. Rec(c) /\ c.job.new \in Apps /\ c.job.new # c.job.old /\ c.job.had \subseteq Apps
    BY DEF Closing, Single, JobRecord
  <1>3. ASSUME NEW s, StoreInv(s), NEW ok \in BOOLEAN, Led(c.repo) => Led(s),
               Live(c.repo, c.job.new) => Live(s, c.job.new),
               ok => s.entry = Dir(c.job.new, {"binary"}) \/ c.job.old \in running,
               ~ok \/ mods = <<>> => AllLive(s, c.job.had)
        PROVE  Reaches(r, AfterRemove([c EXCEPT !.repo = s], ok))
    <2>1. PICK d : d = [c EXCEPT !.repo = s]
      OBVIOUS
    <2>2. Rec(d) /\ d.repo = s /\ d.task = c.task /\ d.job = c.job
      BY <1>2, <2>1, SetRepo
    <2>3. Closing(d)
      BY <2>2 DEF Closing
    <2>4. c.job.had # {} => \E a \in Apps : Live(s, a)
      BY <1>2, <1>3 DEF AllLive
    <2>5. Led(r) => Led(d.repo)
      BY <1>3, <2>2
    <2>6. (d.job.kind = "install" /\ ok) =>
              Live(d.repo, d.job.new) /\ (d.repo.entry = Dir(d.job.new, {"binary"}) \/ d.job.old \in running)
      BY <1>3, <2>2
    <2>7. (d.job.kind = "install" /\ ~ok) => AllLive(d.repo, d.job.had) /\ d.job.new \notin d.job.had
      BY <1>3, <2>2
    <2>8. (d.job.kind = "update" /\ d.job.old \in d.job.had) => Live(d.repo, d.job.new)
      BY <1>3, <2>2
    <2>9. StoreInv(d.repo) /\ (d.job.had # {} => \E a \in Apps : Live(d.repo, a))
      BY <1>3, <2>2, <2>4
    <2>10. Reaches(r, AfterRemove(d, ok))
      BY <2>3, <2>5, <2>6, <2>7, <2>8, <2>9, AfterRemoveEnds
    <2> QED
      BY <2>1, <2>10
  <1> DEFINE old == c.job.old
             hidden == unexportReference(c.repo, old)
             removed == remove(hidden, old, {"binary"})
             canBegin == w.failAt # 1 /\ HasLayer(c.repo, old, "binary")
             missing == {i \in DOMAIN mods : ~HasLayer(c.repo, old, mods[i])}
             unmarked == {mods[i] : i \in {k \in DOMAIN mods : \A j \in missing : k < j}}
             left == exportReference(mergeModules(IF mods = <<>> THEN hidden ELSE removed), c.job.new)
  <1>4. /\ StoreInv(hidden) /\ hidden.layers = c.repo.layers /\ hidden.deleted = c.repo.deleted
        /\ hidden.entry \in {c.repo.entry, NoDir}
        /\ HasLayer(c.repo, old, "binary") => hidden.entry # Dir(old, {"binary"})
        /\ Led(c.repo) => Led(hidden)
    BY UnexportStore
  <1>5. CASE w.busy = "error"
    <2>1. removeAfterInstall(c, w, mods) = AfterRemove(c, FALSE)
      BY <1>5 DEF removeAfterInstall, RemovalPlan
    <2>2. c.job.had # {} => \E a \in Apps : Live(c.repo, a)
      BY <1>2 DEF AllLive
    <2>3. Reaches(r, AfterRemove(c, FALSE))
      BY <2>2, AfterRemoveEnds
    <2> QED
      BY <2>1, <2>3
  <1>6. CASE w.busy = "busy" /\ missing = {}
    <2>1. PICK s : s = markDeleted(c.repo, old, ModuleSet(mods), TRUE)
      OBVIOUS
    <2>2. removeAfterInstall(c, w, mods) = AfterRemove([c EXCEPT !.repo = s], TRUE)
      BY <1>6, <2>1 DEF removeAfterInstall, RemovalPlan
    <2>3. /\ StoreInv(s) /\ (Led(c.repo) => Led(s)) /\ (Live(c.repo, c.job.new) => Live(s, c.job.new))
          /\ mods = <<>> => AllLive(s, c.job.had)
      <3>1. CASE mods = <<>>
        <4>1. s = c.repo
          BY <2>1, <3>1, SetOfOne, NothingToDo
        <4> QED
          BY <4>1
      <3>2. CASE mods = <<"binary">>
        <4>1. HasLayer(c.repo, old, "binary")
          BY <1>6, <3>2
        <4>2. s = markDeleted(c.repo, old, {"binary"}, TRUE)
          BY <2>1, <3>2, SetOfOne
        <4>3. /\ StoreInv(s) /\ s.layers = c.repo.layers /\ s.entry = c.repo.entry
              /\ s.deleted = c.repo.deleted \cup {<<old, "binary">>}
          BY <4>1, <4>2, MarkStore
        <4>4. mods # <<>>
          BY <3>2
        <4> QED
          BY <1>2, <4>3, <4>4 DEF Led, Live, HasLayer
      <3> QED
        BY <3>1, <3>2
    <2> QED
      BY <1>1, <1>3, <1>6, <2>2, <2>3
  <1>7. CASE w.busy = "busy" /\ missing # {}
    <2>1. unmarked = {}
      <3>1. mods = <<"binary">>
        BY <1>7
      <3>2. missing = {1}
        BY <1>7, <3>1
      <3> QED
        BY <3>1, <3>2
    <2>2. removeAfterInstall(c, w, mods) = AfterRemove([c EXCEPT !.repo = markDeleted(@, old, unmarked, FALSE)], FALSE)
      BY <1>7 DEF removeAfterInstall, RemovalPlan
    <2>3. removeAfterInstall(c, w, mods) = AfterRemove([c EXCEPT !.repo = c.repo], FALSE)
      BY <2>1, <2>2, NothingToDo
    <2> QED
      BY <1>3, <2>3
  <1>8. CASE w.busy = "free" /\ mods # <<>> /\ ~canBegin
    <2>1. PICK s : s = exportReference(hidden, old)
      OBVIOUS
    <2>2. removeAfterInstall(c, w, mods) = AfterRemove([c EXCEPT !.repo = s], FALSE)
      BY <1>8, <2>1 DEF removeAfterInstall, RemovalPlan
    <2>3. StoreInv(s) /\ s.layers = c.repo.layers /\ s.deleted = c.repo.deleted /\ (Led(hidden) => Led(s))
      <3> HIDE DEF hidden
      <3> QED
        BY <1>4, <2>1, ExportStore
    <2>4. \A a : Live(c.repo, a) => Live(s, a)
      BY <2>3 DEF Live
    <2>5. AllLive(s, c.job.had)
      BY <2>4 DEF AllLive
    <2> QED
      BY <1>3, <1>4, <2>2, <2>3, <2>4, <2>5
  <1>9. CASE w.busy = "free" /\ (mods = <<>> \/ canBegin)
    <2>1. removeAfterInstall(c, w, mods) = AfterRemove([c EXCEPT !.repo = left], TRUE)
      <3>1. RemovalPlan(w) = "remove"
        BY <1>9 DEF RemovalPlan
      <3>2. ~(mods # <<>> /\ ~canBegin)
        BY <1>9
      <3>3. ~(Len(mods) > 1 /\ canBegin)
        <4>1. Len(<<>>) = 0 /\ Len(<<"binary">>) = 1
          OBVIOUS
        <4>2. CASE mods = <<>>
          <5>1. Len(mods) = 0
            BY <4>1, <4>2, Zenon
          <5> QED
            BY <5>1
        <4>3. CASE mods = <<"binary">>
          <5>1. Len(mods) = 1
            BY <4>1, <4>3, Zenon
          <5> QED
            BY <5>1
        <4> QED
          BY <4>2, <4>3
      <3> HIDE DEF canBegin, missing, unmarked
      <3> QED
        BY <3>1, <3>2, <3>3 DEF removeAfterInstall, canBegin, missing
    <2>2. PICK s : s = IF mods = <<>> THEN hidden ELSE removed
      OBVIOUS
    <2>3. /\ StoreInv(s) /\ HasLayer(s, c.job.new, "binary")
          /\ Live(c.repo, c.job.new) => Live(s, c.job.new)
          /\ mods = <<>> => AllLive(s, c.job.had)
      <3> HIDE DEF hidden
      <3>1. CASE mods = <<>>
        BY <1>4, <2>2, <3>1 DEF HasLayer, Live, AllLive
      <3>2. CASE mods # <<>>
        <4>1. s = remove(hidden, old, {"binary"})
          BY <2>2, <3>2
        <4>2. /\ StoreInv(s) /\ s.layers = hidden.layers \ {<<old, "binary">>}
              /\ s.deleted = hidden.deleted \ {<<old, "binary">>}
          BY <1>4, <4>1, RemoveStore
        <4> QED
          BY <1>2, <1>4, <3>2, <4>2 DEF HasLayer, Live
      <3> QED
        BY <3>1, <3>2
    <2>4. left = exportReference(s, c.job.new)
      <3>1. left = exportReference(mergeModules(s), c.job.new)
        BY <2>2
      <3> QED
        BY <2>3, <3>1, MergeSame
    <2>5. PICK e : e = exportReference(s, c.job.new)
      OBVIOUS
    <2>6. /\ StoreInv(e) /\ e.layers = s.layers /\ e.deleted = s.deleted
          /\ e.entry = Dir(c.job.new, {"binary"}) /\ Led(e)
      BY <1>2, <2>3, <2>5, ExportStore
    <2>7. \A a : Live(s, a) => Live(e, a)
      BY <2>6 DEF Live
    <2>8. mods = <<>> => AllLive(e, c.job.had)
      BY <2>3, <2>7 DEF AllLive
    <2>9. left = e
      BY <2>4, <2>5
    <2> HIDE DEF left
    <2> QED
      BY <1>3, <2>1, <2>3, <2>6, <2>7, <2>8, <2>9
  <1> QED
    BY <1>1, <1>5, <1>6, <1>7, <1>8, <1>9 DEF Busy
(* InstallRef has come to its end. *)
Arrived(r, t, j) ==
    /\ StoreInv(r) /\ OpenTask(t) /\ Single(j) /\ AllLive(r, j.had)
    /\ j.kind \in {"install", "update"}
    /\ j.mods = <<"binary">> \/ (j.kind = "update" /\ j.mods = <<>> /\ j.old \notin j.had)
    /\ j.mods = <<"binary">> => Live(r, j.new) /\ j.new \notin j.had
    /\ t.state # "Succeed"
    /\ t.state = "Failed" => Missing(r)

(* What was installed is. *)
LEMMA HadLive ==
    ASSUME NEW r, NEW j, j \in JobRecord, AllLive(r, j.had)
    PROVE  j.had # {} => \E a \in Apps : Live(r, a)
  BY DEF JobRecord, AllLive

(* Install after InstallRef. *)
LEMMA FinishInstallEnds ==
    ASSUME NEW c, Rec(c), Arrived(c.repo, c.task, c.job), c.job.kind = "install",
           NEW w \in World(c.job.old), NEW r, Led(r) => Led(c.repo)
    PROVE  Reaches(r, FinishInstall(c, w))
  <1>1. /\ StoreInv(c.repo) /\ Single(c.job) /\ OpenTask(c.task) /\ AllLive(c.repo, c.job.had)
        /\ Live(c.repo, c.job.new) /\ c.job.new \notin c.job.had
        /\ c.job.old \in Apps \cup {NoRef} /\ c.job.new \in Apps
    BY DEF Arrived, Single, JobRecord
  <1>2. PICK t : t = updateSubState(c.task, "PostAction")
    OBVIOUS
  <1>3. OpenTask(t)
    BY <1>1, <1>2, StepTask DEF SubStates, isTaskDone
  <1>4. PICK d : d = [c EXCEPT !.task = t, !.repo = c.repo]
    OBVIOUS
  <1>5. Rec(d) /\ d.repo = c.repo /\ d.task = t /\ d.job = c.job
    BY <1>4 DEF Rec
  <1>6. d = [c EXCEPT !.task = updateSubState(@, "PostAction"), !.repo = mergeModules(@)]
    BY <1>1, <1>2, <1>4, MergeSame
  <1>7. HasLayer(d.repo, d.job.new, "binary")
    BY <1>1, <1>5 DEF Live, HasLayer
  <1>8. FinishInstall(c, w) =
          IF d.job.old = NoRef THEN AfterRemove([d EXCEPT !.repo = exportReference(@, d.job.new)], TRUE)
          ELSE removeAfterInstall(d, w, getModuleList(d.repo, d.job.old))
    BY <1>6, <1>7 DEF FinishInstall
  <1>9. Closing(d)
    BY <1>1, <1>3, <1>5 DEF Closing, Arrived
  <1>10. CASE c.job.old = NoRef
    <2>1. PICK s : s = exportReference(c.repo, c.job.new)
      OBVIOUS
    <2>2. /\ StoreInv(s) /\ s.layers = c.repo.layers /\ s.deleted = c.repo.deleted
          /\ s.entry = Dir(c.job.new, {"binary"}) /\ Led(s)
      BY <1>1, <1>5, <1>7, <2>1, ExportStore
    <2>3. PICK e : e = [d EXCEPT !.repo = s]
      OBVIOUS
    <2>4. Rec(e) /\ e.repo = s /\ e.task = d.task /\ e.job = c.job
      BY <1>5, <2>3, SetRepo
    <2>5. Closing(e)
      BY <1>5, <1>9, <2>4 DEF Closing
    <2>6. \A a : Live(c.repo, a) => Live(s, a)
      BY <2>2 DEF Live
    <2>7. FinishInstall(c, w) = AfterRemove(e, TRUE)
      BY <1>5, <1>8, <1>10, <2>1, <2>3
    <2>8. Reaches(r, AfterRemove(e, TRUE))
      BY <1>1, <2>2, <2>4, <2>5, <2>6, AfterRemoveEnds
    <2> QED
      BY <2>7, <2>8
  <1>11. CASE c.job.old # NoRef
    <2>1. PICK mods : mods = getModuleList(c.repo, c.job.old)
      OBVIOUS
    <2>2. mods = <<>> \/ mods = <<"binary">>
      BY <1>1, <2>1, ModuleListIs
    <2>3. FinishInstall(c, w) = removeAfterInstall(d, w, mods)
      BY <1>5, <1>8, <1>11, <2>1
    <2>4. w \in World(d.job.old) /\ d.job.old \in Apps
      BY <1>1, <1>5, <1>11
    <2>5. Reaches(r, removeAfterInstall(d, w, mods))
      BY <1>1, <1>5, <1>7, <1>9, <2>2, <2>4, RemoveAfterEnds
    <2> QED
      BY <2>3, <2>5
  <1> QED
    BY <1>10, <1>11

(* Update after InstallRef. *)
LEMMA FinishUpdateEnds ==
    ASSUME NEW c, Rec(c), Arrived(c.repo, c.task, c.job), c.job.kind = "update",
           NEW w \in World(c.job.old), NEW r, Led(r) => Led(c.repo)
    PROVE  Reaches(r, FinishUpdate(c, w))
  <1>1. /\ StoreInv(c.repo) /\ Single(c.job) /\ OpenTask(c.task) /\ AllLive(c.repo, c.job.had)
        /\ c.job.old \in Apps /\ c.job.new \in Apps /\ c.job \in JobRecord
        /\ c.job.mods = <<>> \/ c.job.mods = <<"binary">>
        /\ c.job.mods = <<"binary">> => Live(c.repo, c.job.new) /\ c.job.new \notin c.job.had
    BY DEF Arrived, Single
  <1>2. c.job.old \in c.job.had => Live(c.repo, c.job.new)
    BY DEF Arrived
  <1>3. PICK t : t = setSubState(updateState(c.task, "PartCompleted"), "PackageManagerDone")
    OBVIOUS
  <1>4. t.state \in {"Succeed", "PartCompleted"} /\ t.subState = "PackageManagerDone"
    BY <1>1, <1>3, UpdatedTask
  <1>5. t.state \in States /\ isTaskDone(t.subState)
    BY <1>4 DEF States, isTaskDone
  <1>6. PICK d : d = [c EXCEPT !.task = t]
    OBVIOUS
  <1>7. Rec(d) /\ d.repo = c.repo /\ d.task = t /\ d.job = c.job
    BY <1>6, SetTask
  <1>8. FinishUpdate(c, w) =
          IF HasLayer(d.repo, d.job.new, "binary") THEN removeAfterInstall(d, w, d.job.mods) ELSE End(d)
    BY <1>3, <1>6 DEF FinishUpdate
  <1>9. CASE HasLayer(c.repo, c.job.new, "binary")
    <2>1. Closing(d)
      BY <1>1, <1>5, <1>7 DEF Closing
    <2>2. w \in World(d.job.old)
      BY <1>7
    <2>3. d.job.kind # "install"
      BY <1>7
    <2>4. Reaches(r, removeAfterInstall(d, w, d.job.mods))
      BY <1>1, <1>2, <1>7, <1>9, <2>1, <2>2, <2>3, RemoveAfterEnds
    <2> QED
      BY <1>7, <1>8, <1>9, <2>4
  <1>10. CASE ~HasLayer(c.repo, c.job.new, "binary")
    <2>1. ResultInv(d.repo, d.task, d.job)
      BY <1>1, <1>2, <1>4, <1>7, HadLive DEF ResultInv
    <2>2. Reaches(r, End(d))
      BY <1>1, <1>5, <1>7, <2>1, Ends DEF Single
    <2> QED
      BY <1>7, <1>8, <1>10, <2>2
  <1> QED
    BY <1>9, <1>10

(* InstallRef returns to its caller, which looks whether the task is done. *)
LEMMA InstallRefEnds ==
    ASSUME NEW c, Rec(c), Arrived(c.repo, c.task, c.job),
           NEW w \in World(c.job.old), NEW r, Led(r) => Led(c.repo)
    PROVE  Reaches(r, InstallRefReturned(c, w))
  <1>1. CASE Done(c)
    <2>1. InstallRefReturned(c, w) = End(c)
      BY <1>1 DEF InstallRefReturned
    <2>2. ResultInv(c.repo, c.task, c.job)
      BY HadLive DEF ResultInv, Arrived, Single
    <2>3. Reaches(r, End(c))
      BY <1>1, <2>2, Ends DEF Done, Arrived, Single, OpenTask
    <2> QED
      BY <2>1, <2>3
  <1>2. CASE ~Done(c) /\ c.job.kind = "install"
    BY <1>2, FinishInstallEnds DEF InstallRefReturned
  <1>3. CASE ~Done(c) /\ c.job.kind = "update"
    BY <1>3, FinishUpdateEnds DEF InstallRefReturned
  <1> QED
    BY <1>1, <1>2, <1>3 DEF Arrived

(* The import of a layer file. *)
LEMMA ImportLayerEnds ==
    ASSUME NEW c, Rec(c), Under(c.repo, c.task, c.job), c.job.kind = "layer",
           NEW w \in World(c.job.old), NEW r, Led(r) => Led(c.repo)
    PROVE  Reaches(r, ImportLayer(c, w))
  <1>1. /\ StoreInv(c.repo) /\ Single(c.job) /\ OpenTask(c.task) /\ AllLive(c.repo, c.job.had)
        /\ c.job.old \in Apps \cup {NoRef} /\ c.job.new \in Apps /\ c.job \in JobRecord /\ c.job.kind \in JobKinds
    BY DEF Under, Single, JobRecord
  <1>2. ASSUME NEW d, Rec(d), StoreInv(d.repo), d.job = c.job, d.task.state \in States,
               isTaskDone(d.task.subState), Led(c.repo) => Led(d.repo), \E a \in Apps : Live(d.repo, a)
               \/ c.job.had = {}
        PROVE  Reaches(r, End(d))
    <2>1. ResultInv(d.repo, d.task, d.job)
      BY <1>2 DEF ResultInv
    <2> QED
      BY <1>1, <1>2, <2>1, Ends
  <1>3. CASE Done(c)
    <2>1. ImportLayer(c, w) = End(c)
      BY <1>3 DEF ImportLayer
    <2>2. c.job.had = {} \/ \E a \in Apps : Live(c.repo, a)
      BY <1>1, HadLive
    <2>3. Reaches(r, End(c))
      BY <1>1, <1>2, <1>3, <2>2 DEF Done, OpenTask
    <2> QED
      BY <2>1, <2>3
  <1>4. CASE ~Done(c) /\ ~CanAdd(c.repo, c.job.new, "binary")
    <2>1. PICK t : t = reportError(c.task)
      OBVIOUS
    <2>2. t.state \in States /\ isTaskDone(t.subState)
      BY <1>1, <2>1, ErrorTask DEF States, isTaskDone
    <2>3. PICK d : d = [c EXCEPT !.task = t]
      OBVIOUS
    <2>4. Rec(d) /\ d.repo = c.repo /\ d.task = t /\ d.job = c.job
      BY <2>3, SetTask
    <2>5. ImportLayer(c, w) = End(d)
      BY <1>4, <2>1, <2>3 DEF ImportLayer
    <2>6. c.job.had = {} \/ \E a \in Apps : Live(d.repo, a)
      BY <1>1, <2>4, HadLive
    <2>7. Reaches(r, End(d))
      BY <1>1, <1>2, <2>2, <2>4, <2>6
    <2> QED
      BY <2>5, <2>7
  <1>5. CASE ~Done(c) /\ CanAdd(c.repo, c.job.new, "binary")
    <2>1. PICK s : s = AddLayer(c.repo, c.job.new, "binary")
      OBVIOUS
    <2>2. /\ StoreInv(s) /\ s.layers = c.repo.layers \cup {<<c.job.new, "binary">>} /\ s.entry = c.repo.entry
          /\ Live(s, c.job.new) /\ \A a : Live(c.repo, a) => Live(s, a)
      BY <1>1, <1>5, <2>1, AddStore
    <2>3. Led(c.repo) => Led(s)
      BY <2>2 DEF Led, HasLayer
    <2>4. PICK t : t = updateState(c.task, "Succeed")
      OBVIOUS
    <2>5. t.state \in States /\ isTaskDone(t.subState)
      BY <1>1, <2>4, StateTask DEF States, isTaskDone
    <2>6. PICK d : d = [c EXCEPT !.repo = s, !.task = t]
      OBVIOUS
    <2>7. Rec(d) /\ d.repo = s /\ d.task = t /\ d.job = c.job
      BY <2>6 DEF Rec
    <2>8. ImportLayer(c, w) =
            IF c.job.old = NoRef THEN End([d EXCEPT !.repo = exportReference(@, c.job.new)])
            ELSE IF ~HasLayer(d.repo, c.job.old, "binary") THEN End(d)
            ELSE removeAfterInstall(d, w, <<"binary">>)
      <3>1. d = [c EXCEPT !.repo = AddLayer(@, c.job.new, "binary"), !.task = updateState(@, "Succeed")]
        BY <2>1, <2>4, <2>6
      <3> QED
        BY <1>5, <3>1 DEF ImportLayer
    <2>9. CASE c.job.old = NoRef
      <3>1. PICK e : e = exportReference(s, c.job.new)
        OBVIOUS
      <3>2. StoreInv(e) /\ Led(e) /\ e.layers = s.layers /\ e.deleted = s.deleted
        BY <1>1, <2>2, <3>1, ExportStore DEF Live, HasLayer
      <3>3. PICK f : f = [d EXCEPT !.repo = e]
        OBVIOUS
      <3>4. Rec(f) /\ f.repo = e /\ f.task = t /\ f.job = c.job
        BY <2>7, <3>3, SetRepo
      <3>5. Live(e, c.job.new)
        BY <2>2, <3>2 DEF Live
      <3>6. ImportLayer(c, w) = End(f)
        BY <2>7, <2>8, <2>9, <3>1, <3>3
      <3>7. Reaches(r, End(f))
        BY <1>1, <1>2, <2>5, <3>2, <3>4, <3>5
      <3> QED
        BY <3>6, <3>7
    <2>10. CASE c.job.old # NoRef /\ ~HasLayer(d.repo, c.job.old, "binary")
      <3>1. Reaches(r, End(d))
        BY <1>1, <1>2, <2>2, <2>3, <2>5, <2>7
      <3> QED
        BY <2>8, <2>10, <3>1
    <2>11. CASE c.job.old # NoRef /\ HasLayer(d.repo, c.job.old, "binary")
      <3>1. Closing(d)
        BY <1>1, <2>5, <2>7 DEF Closing
      <3>2. w \in World(d.job.old) /\ d.job.old \in Apps /\ d.job.kind = "layer"
        BY <1>1, <2>7, <2>11
      <3>3. HasLayer(d.repo, d.job.new, "binary") /\ AllLive(d.repo, d.job.had) /\ Live(d.repo, d.job.new)
        BY <1>1, <2>2, <2>7 DEF HasLayer, Live, AllLive
      <3>4. PICK mods : mods = <<"binary">>
        OBVIOUS
      <3>5. Reaches(r, removeAfterInstall(d, w, mods))
        BY <2>2, <2>3, <2>7, <3>1, <3>2, <3>3, <3>4, RemoveAfterEnds
      <3> QED
        BY <2>8, <2>11, <3>4, <3>5
    <2> QED
      BY <2>9, <2>10, <2>11
  <1> QED
    BY <1>3, <1>4, <1>5

(* pullDependency returns to its caller. *)
LEMMA DependencyReturnedEnds ==
    ASSUME NEW c, Rec(c), Under(c.repo, c.task, c.job), Brought(c.repo, c.job),
           c.task.state # "Succeed", c.task.state = "Failed" => Missing(c.repo),
           NEW w \in World(c.job.old), NEW r, Led(r) => Led(c.repo)
    PROVE  Reaches(r, DependencyReturned(c, w))
  <1>1. CASE c.job.kind = "layer"
    BY <1>1, ImportLayerEnds DEF DependencyReturned
  <1>2. CASE c.job.kind # "layer"
    <2>0. PICK none : none = <<>>
      OBVIOUS
    <2>1. PICK j : j = [c.job EXCEPT !.todo = none]
      OBVIOUS
    <2>2. /\ j \in JobRecord /\ j.kind = c.job.kind /\ j.new = c.job.new /\ j.old = c.job.old
          /\ j.mods = c.job.mods /\ j.had = c.job.had /\ j.todo = <<>>
      <3>1. none \in Seq({"binary", "develop"})
        BY <2>0
      <3>2. c.job \in JobRecord
        BY DEF Under, Single
      <3> QED
        BY <2>0, <2>1, <3>1, <3>2 DEF JobRecord
    <2>3. PICK d : d = [c EXCEPT !.job = j]
      OBVIOUS
    <2>4. Rec(d) /\ d.repo = c.repo /\ d.task = c.task /\ d.job = j
      BY <2>3 DEF Rec
    <2>5. Tail(c.job.todo) = <<>>
      <3>1. c.job.todo = <<"binary">>
        BY <1>2 DEF Under
      <3>2. Tail(<<"binary">>) = <<>>
        OBVIOUS
      <3> QED
        BY <3>1, <3>2, Zenon
    <2>6. [c EXCEPT !.job.todo = Tail(@)] = d
      <3>1. PICK x : x = Tail(c.job.todo)
        OBVIOUS
      <3>2. [c EXCEPT !.job.todo = Tail(@)] = [c EXCEPT !.job = [c.job EXCEPT !.todo = x]]
        BY <3>1
      <3> QED
        BY <2>0, <2>1, <2>3, <2>5, <3>1, <3>2, Zenon
    <2>7. DependencyReturned(c, w) = InstallRefReturned(d, w)
      BY <1>2, <2>2, <2>4, <2>6 DEF DependencyReturned, NextModule
    <2>8. Arrived(d.repo, d.task, d.job)
      BY <1>2, <2>2, <2>4 DEF Arrived, Under, Brought, Single
    <2>9. w \in World(d.job.old)
      BY <2>2, <2>4
    <2>10. Reaches(r, InstallRefReturned(d, w))
      BY <2>4, <2>8, <2>9, InstallRefEnds
    <2> QED
      BY <2>7, <2>10
  <1> QED
    BY <1>1, <1>2

(* A dependency could not be had: a runtime pulled for it goes again. *)
LEMMA DependencyFailedEnds ==
    ASSUME NEW c, Rec(c), Under(c.repo, c.task, c.job), Brought(c.repo, c.job),
           c.task.state # "Succeed", c.task.state = "Failed" => Missing(c.repo),
           NEW w \in World(c.job.old), NEW r, Led(r) => Led(c.repo)
    PROVE  Reaches(r, DependencyFailed(c, w))
  <1>1. CASE ~c.job.runtimePulled
    BY <1>1, DependencyReturnedEnds DEF DependencyFailed
  <1>2. CASE c.job.runtimePulled
    <2>1. PICK s : s = remove(c.repo, Runtime, {"binary"})
      OBVIOUS
    <2>2. /\ StoreInv(s) /\ s.layers = c.repo.layers \ {<<Runtime, "binary">>} /\ s.entry = c.repo.entry
          /\ \A a : a # Runtime => (Live(s, a) <=> Live(c.repo, a))
      BY <2>1, RemoveStore DEF Under
    <2>3. PICK d : d = [c EXCEPT !.repo = s]
      OBVIOUS
    <2>4. Rec(d) /\ d.repo = s /\ d.task = c.task /\ d.job = c.job
      BY <2>3, SetRepo
    <2>5. DependencyFailed(c, w) = DependencyReturned(d, w)
      BY <1>2, <2>1, <2>3 DEF DependencyFailed
    <2>6. c.job.had \subseteq Apps /\ c.job.new \in Apps
      BY DEF Under, Single, JobRecord
    <2>7. AllLive(s, c.job.had) /\ (Live(c.repo, c.job.new) => Live(s, c.job.new))
      BY <2>2, <2>6, RefsApart DEF Under, AllLive
    <2>8. Under(d.repo, d.task, d.job) /\ Brought(d.repo, d.job)
      BY <2>2, <2>4, <2>7 DEF Under, Brought
    <2>9. Missing(c.repo) => Missing(s)
      BY <2>2 DEF Missing, HasLayer
    <2>10. Led(c.repo) => Led(s)
      <3>1. c.repo.entry = NoDir \/ c.repo.entry.ref \in Apps
        BY StoreIs DEF Under, Entries, Dir
      <3> QED
        BY <2>2, <3>1, RefsApart DEF Led, HasLayer
    <2>11. w \in World(d.job.old)
      BY <2>4
    <2>12. Reaches(r, DependencyReturned(d, w))
      BY <2>4, <2>8, <2>9, <2>10, <2>11, DependencyReturnedEnds
    <2> QED
      BY <2>5, <2>12
  <1> QED
    BY <1>1, <1>2

(* A job goes on waiting for one of its dependencies. *)
LEMMA WaitsFor ==
    ASSUME NEW c, Rec(c), Under(c.repo, c.task, c.job), Brought(c.repo, c.job),
           c.task.state \in {"Processing", "Canceled"},
           NEW at \in {"findRuntime", "runtime", "findBase", "base"},
           at \in {"findRuntime", "runtime"} => ~HasLayer(c.repo, Runtime, "binary"),
           at \in {"findBase", "base"} => ~HasLayer(c.repo, Base, "binary"),
           NEW r, Led(r) => Led(c.repo)
    PROVE  Reaches(r, Goto(c, at))
  <1>1. PICK d : d = Goto(c, at)
    OBVIOUS
  <1>2. c.job \in JobRecord /\ at \in Places
    BY DEF Under, Single, Places
  <1>3. d.repo = c.repo /\ d.task = c.task /\ d.job.at = at /\ SameJob(c.job, d.job)
    BY <1>1, <1>2, GotoIs
  <1>4. Single(d.job)
    BY <1>3 DEF Under, Single, SameJob
  <1>5. Under(d.repo, d.task, d.job) /\ Brought(d.repo, d.job)
    BY <1>3, <1>4 DEF Under, Brought, SameJob
  <1>6. WaitInv(d.repo, d.task, d.job)
    BY <1>3, <1>5 DEF WaitInv
  <1>7. Launch(r, d)
    BY <1>3 DEF Launch
  <1> QED
    BY <1>1, <1>6, <1>7 DEF Reaches

(* A job that has the new version goes on to another step. *)
LEMMA StepUnder ==
    ASSUME NEW c, Rec(c), Under(c.repo, c.task, c.job), NEW sub \in SubStates, ~isTaskDone(sub)
    PROVE  LET d == [c EXCEPT !.task = updateSubState(@, sub)]
           IN  /\ Rec(d) /\ d.repo = c.repo /\ d.job = c.job /\ d.task.state = c.task.state
               /\ Under(d.repo, d.task, d.job)
  <1>1. PICK t : t = updateSubState(c.task, sub)
    OBVIOUS
  <1>2. OpenTask(t) /\ t.state = c.task.state
    BY <1>1, StepTask DEF Under
  <1>3. PICK d : d = [c EXCEPT !.task = t]
    OBVIOUS
  <1>4. Rec(d) /\ d.repo = c.repo /\ d.task = t /\ d.job = c.job
    BY <1>3, SetTask
  <1>5. Under(d.repo, d.task, d.job)
    BY <1>2, <1>4 DEF Under
  <1>6. d = [c EXCEPT !.task = updateSubState(@, sub)]
    BY <1>1, <1>3
  <1> QED
    BY <1>2, <1>4, <1>5, <1>6

(* The base is known. *)
LEMMA BaseFoundEnds ==
    ASSUME NEW c, Rec(c), Under(c.repo, c.task, c.job), Brought(c.repo, c.job),
           c.task.state \in {"Processing", "Canceled"},
           NEW w \in World(c.job.old), NEW r, Led(r) => Led(c.repo)
    PROVE  Reaches(r, BaseFound(c, w))
  <1>1. PICK d : d = [c EXCEPT !.task = updateSubState(@, "InstallBase")]
    OBVIOUS
  <1>2. /\ Rec(d) /\ d.repo = c.repo /\ d.job = c.job /\ d.task.state = c.task.state
        /\ Under(d.repo, d.task, d.job)
    BY <1>1, StepUnder DEF SubStates, isTaskDone
  <1>3. Brought(d.repo, d.job) /\ d.task.state \in {"Processing", "Canceled"} /\ w \in World(d.job.old)
        /\ (Led(r) => Led(d.repo))
    BY <1>2
  <1>4. CASE HasLayer(d.repo, Base, "binary")
    <2>1. BaseFound(c, w) = DependencyReturned(d, w)
      BY <1>1, <1>4 DEF BaseFound
    <2>2. Reaches(r, DependencyReturned(d, w))
      BY <1>2, <1>3, DependencyReturnedEnds
    <2> QED
      BY <2>1, <2>2
  <1>5. CASE ~HasLayer(d.repo, Base, "binary")
    <2>1. BaseFound(c, w) = Goto(d, "base")
      BY <1>1, <1>5 DEF BaseFound
    <2>2. Reaches(r, Goto(d, "base"))
      BY <1>2, <1>3, <1>5, WaitsFor
    <2> QED
      BY <2>1, <2>2
  <1> QED
    BY <1>4, <1>5

(* The base is looked for. *)
LEMMA FindBaseEnds ==
    ASSUME NEW c, Rec(c), Under(c.repo, c.task, c.job), Brought(c.repo, c.job),
           c.task.state \in {"Processing", "Canceled"},
           NEW w \in World(c.job.old), NEW r, Led(r) => Led(c.repo)
    PROVE  Reaches(r, FindBase(c, w))
  <1>1. CASE clearReferenceLocal(c.repo, "base") = NoRef
    <2>1. FindBase(c, w) = Goto(c, "findBase")
      BY <1>1 DEF FindBase
    <2>2. ~HasLayer(c.repo, Base, "binary")
      BY <1>1, DependencyFound DEF Under, Dependencies, Base
    <2>3. Reaches(r, Goto(c, "findBase"))
      BY <2>2, WaitsFor
    <2> QED
      BY <2>1, <2>3
  <1>2. CASE clearReferenceLocal(c.repo, "base") # NoRef
    BY <1>2, BaseFoundEnds DEF FindBase
  <1> QED
    BY <1>1, <1>2

(* The runtime is known. *)
LEMMA RuntimeFoundEnds ==
    ASSUME NEW c, Rec(c), Under(c.repo, c.task, c.job), Brought(c.repo, c.job),
           c.task.state \in {"Processing", "Canceled"},
           NEW w \in World(c.job.old), NEW r, Led(r) => Led(c.repo)
    PROVE  Reaches(r, RuntimeFound(c, w))
  <1>1. PICK d : d = [c EXCEPT !.task = updateSubState(@, "InstallRuntime")]
    OBVIOUS
  <1>2. /\ Rec(d) /\ d.repo = c.repo /\ d.job = c.job /\ d.task.state = c.task.state
        /\ Under(d.repo, d.task, d.job)
    BY <1>1, StepUnder DEF SubStates, isTaskDone
  <1>3. Brought(d.repo, d.job) /\ d.task.state \in {"Processing", "Canceled"} /\ w \in World(d.job.old)
        /\ (Led(r) => Led(d.repo))
    BY <1>2
  <1>4. CASE HasLayer(d.repo, Runtime, "binary")
    <2>1. RuntimeFound(c, w) = FindBase(d, w)
      BY <1>1, <1>4 DEF RuntimeFound
    <2>2. Reaches(r, FindBase(d, w))
      BY <1>2, <1>3, FindBaseEnds
    <2> QED
      BY <2>1, <2>2
  <1>5. CASE ~HasLayer(d.repo, Runtime, "binary")
    <2>1. RuntimeFound(c, w) = Goto(d, "runtime")
      BY <1>1, <1>5 DEF RuntimeFound
    <2>2. Reaches(r, Goto(d, "runtime"))
      BY <1>2, <1>3, <1>5, WaitsFor
    <2> QED
      BY <2>1, <2>2
  <1> QED
    BY <1>4, <1>5

(* The dependencies are looked for. *)
LEMMA PullDependencyEnds ==
    ASSUME NEW c, Rec(c), Under(c.repo, c.task, c.job), Brought(c.repo, c.job),
           c.task.state \in {"Processing", "Canceled"},
           NEW w \in World(c.job.old), NEW r, Led(r) => Led(c.repo)
    PROVE  Reaches(r, pullDependency(c, w))
  <1>1. CASE clearReferenceLocal(c.repo, "runtime") = NoRef
    <2>1. pullDependency(c, w) = Goto(c, "findRuntime")
      BY <1>1 DEF pullDependency
    <2>2. ~HasLayer(c.repo, Runtime, "binary")
      BY <1>1, DependencyFound DEF Under, Dependencies, Runtime
    <2>3. Reaches(r, Goto(c, "findRuntime"))
      BY <2>2, WaitsFor
    <2> QED
      BY <2>1, <2>3
  <1>2. CASE clearReferenceLocal(c.repo, "runtime") # NoRef
    BY <1>2, RuntimeFoundEnds DEF pullDependency
  <1> QED
    BY <1>1, <1>2
-----------------------------------------------------------------------------
(* The first pieces of the jobs                                            *)

(* A job begins: what is installed is remembered. *)
Begins(c) ==
    /\ Rec(c) /\ StoreInv(c.repo) /\ OpenTask(c.task) /\ Single(c.job)
    /\ c.job.had = {a \in Apps : Live(c.repo, a)}
    /\ c.job.undeleted = {} /\ c.job.pulled = {}

(* d is what InstallRef makes of c before it pulls anything. *)
Readied(c, d, w, back, todo) ==
    /\ Rec(d) /\ InstallRef(c, w) = NextModule(d, w)
    /\ d.repo = markDeleted(c.repo, c.job.new, back, FALSE)
    /\ OpenTask(d.task) /\ d.task.state = c.task.state /\ ~Done(d)
    /\ d.job \in JobRecord /\ Single(d.job) /\ d.job.kind = c.job.kind /\ d.job.new = c.job.new
    /\ d.job.old = c.job.old /\ d.job.mods = c.job.mods /\ d.job.had = c.job.had
    /\ d.job.undeleted = back /\ d.job.pulled = {} /\ d.job.todo = todo

(* InstallRef sets what it has taken the mark from, and what it will pull. *)
LEMMA InstallRefIs ==
    ASSUME NEW c, Begins(c), NEW w, NEW back \in SUBSET {"binary", "develop"}, NEW todo \in Seq({"binary", "develop"}),
           back = {m \in ModuleSet(c.job.mods) : <<c.job.new, m>> \in c.repo.deleted},
           todo = Sorted(ModuleSet(c.job.mods) \ back)
    PROVE  \E d : Readied(c, d, w, back, todo)
  <1>1. PICK u : u = updateSubState(c.task, "PreAction")
    OBVIOUS
  <1>2. OpenTask(u) /\ u.state = c.task.state
    BY <1>1, StepTask DEF Begins, SubStates, isTaskDone
  <1>3. PICK t : t = updateSubState(u, "InstallApplication")
    OBVIOUS
  <1>4. OpenTask(t) /\ t.state = c.task.state /\ t.subState = "InstallApplication"
    BY <1>2, <1>3, StepTask DEF SubStates, isTaskDone
  <1>5. PICK s : s = markDeleted(c.repo, c.job.new, back, FALSE)
    OBVIOUS
  <1>6. PICK j : j = [c.job EXCEPT !.undeleted = back, !.todo = todo]
    OBVIOUS
  <1>7. /\ j \in JobRecord /\ j.kind = c.job.kind /\ j.new = c.job.new /\ j.old = c.job.old /\ j.mods = c.job.mods
        /\ j.had = c.job.had /\ j.undeleted = back /\ j.pulled = {} /\ j.todo = todo
    <2>1. c.job \in JobRecord /\ c.job.pulled = {}
      BY DEF Begins, Single
    <2> QED
      BY <1>6, <2>1 DEF JobRecord
  <1>8. Single(j)
    BY <1>7 DEF Begins, Single
  <1>9. PICK d : d = [c EXCEPT !.task = t, !.repo = s, !.job = j]
    OBVIOUS
  <1>10. Rec(d) /\ d.task = t /\ d.repo = s /\ d.job = j
    BY <1>9 DEF Begins, Rec
  <1>11. InstallRef(c, w) = NextModule(d, w)
    <2>1. InstallRef(c, w) = NextModule([c EXCEPT !.task = t, !.repo = markDeleted(@, c.job.new, back, FALSE),
                                                  !.job.undeleted = back, !.job.todo = todo], w)
      BY <1>1, <1>3 DEF InstallRef
    <2>2. [c EXCEPT !.task = t, !.repo = markDeleted(@, c.job.new, back, FALSE),
                    !.job.undeleted = back, !.job.todo = todo] = d
      BY <1>5, <1>6, <1>9 DEF Begins, Rec
    <2> QED
      BY <2>1, <2>2
  <1>12. ~Done(d)
    BY <1>4, <1>10 DEF Done, isTaskDone
  <1> QED
    BY <1>4, <1>5, <1>7, <1>8, <1>10, <1>11, <1>12 DEF Readied

(* InstallRef: a version marked deleted is brought back, another pulled. *)
LEMMA InstallRefStarts ==
    ASSUME NEW c, Begins(c), c.job.kind \in {"install", "update"}, c.task.state = "Processing",
           c.job.mods = <<"binary">> \/ (c.job.kind = "update" /\ c.job.mods = <<>> /\ c.job.old \notin c.job.had),
           NEW w \in World(c.job.old), NEW r, Led(r) => Led(c.repo)
    PROVE  Reaches(r, InstallRef(c, w))
  <1>1. /\ StoreInv(c.repo) /\ c.job.new \in Apps /\ AllLive(c.repo, c.job.had) /\ c.job.old \in Apps \cup {NoRef}
    BY DEF Begins, Single, JobRecord, AllLive
  <1>2. Sorted({}) = <<>> /\ Sorted({"binary"}) = <<"binary">>
    BY SortedOne
  <1>3. <<>> \in Seq({"binary", "develop"}) /\ <<"binary">> \in Seq({"binary", "develop"})
    OBVIOUS
  <1>4. CASE c.job.mods = <<"binary">> /\ <<c.job.new, "binary">> \in c.repo.deleted
    <2>1. PICK back : back = {"binary"}
      OBVIOUS
    <2>2. back = {m \in ModuleSet(c.job.mods) : <<c.job.new, m>> \in c.repo.deleted}
      BY <1>4, <2>1, SetOfOne
    <2>3. PICK todo : todo = <<>>
      OBVIOUS
    <2>4. todo = Sorted(ModuleSet(c.job.mods) \ back)
      <3>1. ModuleSet(c.job.mods) \ back = {}
        BY <1>4, <2>1, SetOfOne
      <3> QED
        BY <1>2, <2>3, <3>1
    <2>5. back \in SUBSET {"binary", "develop"} /\ todo \in Seq({"binary", "develop"})
      BY <1>3, <2>1, <2>3
    <2>0. PICK d : Readied(c, d, w, back, todo)
      BY <2>2, <2>4, <2>5, InstallRefIs, Zenon
    <2>6.
                  /\ Rec(d) /\ InstallRef(c, w) = NextModule(d, w)
                  /\ d.repo = markDeleted(c.repo, c.job.new, back, FALSE)
                  /\ OpenTask(d.task) /\ d.task.state = c.task.state /\ ~Done(d)
                  /\ d.job \in JobRecord /\ Single(d.job) /\ d.job.kind = c.job.kind /\ d.job.new = c.job.new
                  /\ d.job.old = c.job.old /\ d.job.mods = c.job.mods /\ d.job.had = c.job.had
                  /\ d.job.undeleted = back /\ d.job.pulled = {} /\ d.job.todo = todo
      BY <2>0 DEF Readied
    <2>7. /\ StoreInv(d.repo) /\ d.repo.layers = c.repo.layers /\ d.repo.entry = c.repo.entry
          /\ d.repo.deleted = c.repo.deleted \ {<<c.job.new, "binary">>}
      <3>1. d.repo = markDeleted(c.repo, c.job.new, {"binary"}, FALSE)
        BY <2>1, <2>6
      <3>2. PICK q, ref : q = c.repo /\ ref = c.job.new
        OBVIOUS
      <3>3. PICK s : s = markDeleted(q, ref, {"binary"}, FALSE)
        OBVIOUS
      <3>4. StoreInv(q)
        BY <1>1, <3>2
      <3>5. StoreInv(s) /\ s.layers = q.layers /\ s.deleted = q.deleted \ {<<ref, "binary">>} /\ s.entry = q.entry
        BY <3>3, <3>4, UnmarkStore
      <3> QED
        BY <3>1, <3>2, <3>3, <3>5
    <2>8. Live(d.repo, c.job.new) /\ \A a : Live(c.repo, a) => Live(d.repo, a)
      BY <1>1, <1>4, <2>7, StoreIs DEF Live
    <2>9. c.job.new \notin c.job.had
      BY <1>4 DEF Begins, Live
    <2>10. AllLive(d.repo, d.job.had)
      BY <1>1, <2>6, <2>8 DEF AllLive
    <2>11. Arrived(d.repo, d.task, d.job)
      BY <1>4, <2>6, <2>7, <2>8, <2>9, <2>10 DEF Arrived
    <2>12. Led(r) => Led(d.repo)
      BY <2>7 DEF Led, HasLayer
    <2>13. NextModule(d, w) = InstallRefReturned(d, w)
      BY <2>3, <2>6 DEF NextModule
    <2>14. w \in World(d.job.old)
      BY <2>6
    <2>15. Reaches(r, InstallRefReturned(d, w))
      BY <2>6, <2>11, <2>12, <2>14, InstallRefEnds
    <2> QED
      BY <2>6, <2>13, <2>15
  <1>5. CASE c.job.mods = <<"binary">> /\ <<c.job.new, "binary">> \notin c.repo.deleted
    <2>1. PICK back : back = {}
      OBVIOUS
    <2>2. back = {m \in ModuleSet(c.job.mods) : <<c.job.new, m>> \in c.repo.deleted}
      BY <1>5, <2>1, SetOfOne
    <2>3. PICK todo : todo = <<"binary">>
      OBVIOUS
    <2>4. todo = Sorted(ModuleSet(c.job.mods) \ back)
      <3>1. ModuleSet(c.job.mods) \ back = {"binary"}
        BY <1>5, <2>1, SetOfOne
      <3> QED
        BY <1>2, <2>3, <3>1
    <2>5. back \in SUBSET {"binary", "develop"} /\ todo \in Seq({"binary", "develop"})
      BY <1>3, <2>1, <2>3
    <2>0. PICK d : Readied(c, d, w, back, todo)
      BY <2>2, <2>4, <2>5, InstallRefIs, Zenon
    <2>6.
                  /\ Rec(d) /\ InstallRef(c, w) = NextModule(d, w)
                  /\ d.repo = markDeleted(c.repo, c.job.new, back, FALSE)
                  /\ OpenTask(d.task) /\ d.task.state = c.task.state /\ ~Done(d)
                  /\ d.job \in JobRecord /\ Single(d.job) /\ d.job.kind = c.job.kind /\ d.job.new = c.job.new
                  /\ d.job.old = c.job.old /\ d.job.mods = c.job.mods /\ d.job.had = c.job.had
                  /\ d.job.undeleted = back /\ d.job.pulled = {} /\ d.job.todo = todo
      BY <2>0 DEF Readied
    <2>7. d.repo = c.repo
      BY <1>1, <2>1, <2>6, NothingToDo
    <2>8. NextModule(d, w) = Goto(d, "pull")
      <3>1. <<"binary">> # <<>>
        OBVIOUS
      <3> QED
        BY <2>3, <2>6, <3>1 DEF NextModule
    <2>9. PICK e : e = Goto(d, "pull")
      OBVIOUS
    <2>10. e.repo = c.repo /\ e.task = d.task /\ e.job.at = "pull" /\ SameJob(d.job, e.job)
      BY <2>6, <2>7, <2>9, GotoIs DEF Places
    <2>11. Single(e.job)
      BY <2>6, <2>10 DEF Single, SameJob
    <2>12. Under(e.repo, e.task, e.job)
      BY <1>1, <1>5, <2>1, <2>3, <2>6, <2>10, <2>11 DEF Under, SameJob
    <2>13. HasLayer(c.repo, c.job.new, "binary") => c.job.new \in c.job.had
      BY <1>1, <1>5 DEF Begins, Live, HasLayer
    <2>14. WaitInv(e.repo, e.task, e.job)
      BY <2>6, <2>10, <2>12, <2>13 DEF WaitInv, SameJob
    <2>15. Launch(r, e)
      BY <2>10 DEF Launch
    <2> QED
      BY <2>6, <2>8, <2>9, <2>14, <2>15 DEF Reaches
  <1>6. CASE c.job.kind = "update" /\ c.job.mods = <<>> /\ c.job.old \notin c.job.had
    <2>1. PICK back : back = {}
      OBVIOUS
    <2>2. back = {m \in ModuleSet(c.job.mods) : <<c.job.new, m>> \in c.repo.deleted}
      BY <1>6, <2>1, SetOfOne
    <2>3. PICK todo : todo = <<>>
      OBVIOUS
    <2>4. todo = Sorted(ModuleSet(c.job.mods) \ back)
      <3>1. ModuleSet(c.job.mods) \ back = {}
        BY <1>6, <2>1, SetOfOne
      <3> QED
        BY <1>2, <2>3, <3>1
    <2>5. back \in SUBSET {"binary", "develop"} /\ todo \in Seq({"binary", "develop"})
      BY <1>3, <2>1, <2>3
    <2>0. PICK d : Readied(c, d, w, back, todo)
      BY <2>2, <2>4, <2>5, InstallRefIs, Zenon
    <2>6.
                  /\ Rec(d) /\ InstallRef(c, w) = NextModule(d, w)
                  /\ d.repo = markDeleted(c.repo, c.job.new, back, FALSE)
                  /\ OpenTask(d.task) /\ d.task.state = c.task.state /\ ~Done(d)
                  /\ d.job \in JobRecord /\ Single(d.job) /\ d.job.kind = c.job.kind /\ d.job.new = c.job.new
                  /\ d.job.old = c.job.old /\ d.job.mods = c.job.mods /\ d.job.had = c.job.had
                  /\ d.job.undeleted = back /\ d.job.pulled = {} /\ d.job.todo = todo
      BY <2>0 DEF Readied
    <2>7. d.repo = c.repo
      BY <1>1, <2>1, <2>6, NothingToDo
    <2>8. NextModule(d, w) = InstallRefReturned(d, w)
      BY <2>3, <2>6 DEF NextModule
    <2>9. <<>> # <<"binary">>
      OBVIOUS
    <2>10. Arrived(d.repo, d.task, d.job)
      BY <1>1, <1>6, <2>6, <2>7, <2>9 DEF Arrived
    <2>11. w \in World(d.job.old) /\ (Led(r) => Led(d.repo))
      BY <2>6, <2>7
    <2>12. Reaches(r, InstallRefReturned(d, w))
      BY <2>6, <2>10, <2>11, InstallRefEnds
    <2> QED
      BY <2>6, <2>8, <2>12
  <1> QED
    BY <1>4, <1>5, <1>6

(* The task of a job that begins is Processing. *)
LEMMA ProcessingIs ==
    ASSUME NEW c, Begins(c)
    PROVE  /\ Begins(Processing(c)) /\ Processing(c).repo = c.repo /\ Processing(c).job = c.job
           /\ Processing(c).task.state = "Processing"
  <1>1. PICK t : t = updateState(c.task, "Processing")
    OBVIOUS
  <1>2. OpenTask(t) /\ t.state = "Processing"
    BY <1>1, StateTask DEF Begins, States
  <1>3. PICK d : d = [c EXCEPT !.task = t]
    OBVIOUS
  <1>4. Rec(d) /\ d.repo = c.repo /\ d.task = t /\ d.job = c.job
    BY <1>3, SetTask DEF Begins
  <1>5. Processing(c) = d
    BY <1>1, <1>3 DEF Processing
  <1>6. Begins(d)
    BY <1>2, <1>4 DEF Begins
  <1> QED
    BY <1>2, <1>4, <1>5, <1>6

(* The same for the jobs that take their first step at once. *)
LEMMA PrepareIs ==
    ASSUME NEW c, Begins(c)
    PROVE  /\ Begins(Prepare(c)) /\ Prepare(c).repo = c.repo /\ Prepare(c).job = c.job
           /\ Prepare(c).task.state = "Processing"
  <1>1. PICK u : u = updateState(c.task, "Processing")
    OBVIOUS
  <1>2. OpenTask(u) /\ u.state = "Processing"
    BY <1>1, StateTask DEF Begins, States
  <1>3. PICK t : t = updateSubState(u, "PreAction")
    OBVIOUS
  <1>4. OpenTask(t) /\ t.state = "Processing"
    BY <1>2, <1>3, StepTask DEF SubStates, isTaskDone
  <1>5. PICK d : d = [c EXCEPT !.task = t]
    OBVIOUS
  <1>6. Rec(d) /\ d.repo = c.repo /\ d.task = t /\ d.job = c.job
    BY <1>5, SetTask DEF Begins
  <1>7. Prepare(c) = d
    BY <1>1, <1>3, <1>5 DEF Prepare
  <1>8. Begins(d)
    BY <1>4, <1>6 DEF Begins
  <1> QED
    BY <1>4, <1>6, <1>7, <1>8

(* The modules of a job are set. *)
LEMMA SetMods ==
    ASSUME NEW c, Rec(c), Single(c.job), c.job.kind \in {"uninstall", "update"},
           NEW mods, mods = <<>> \/ mods = <<"binary">>
    PROVE  LET d == [c EXCEPT !.job.mods = mods]
           IN  /\ Rec(d) /\ d.repo = c.repo /\ d.task = c.task /\ Single(d.job)
               /\ d.job.kind = c.job.kind /\ d.job.new = c.job.new /\ d.job.old = c.job.old /\ d.job.mods = mods
               /\ d.job.had = c.job.had /\ d.job.undeleted = c.job.undeleted /\ d.job.pulled = c.job.pulled
  <1>1. mods \in Seq({"binary", "develop"})
    <2>1. <<>> \in Seq({"binary", "develop"}) /\ <<"binary">> \in Seq({"binary", "develop"})
      OBVIOUS
    <2> QED
      BY <2>1
  <1>2. PICK j : j = [c.job EXCEPT !.mods = mods]
    OBVIOUS
  <1>3. /\ j \in JobRecord /\ j.kind = c.job.kind /\ j.new = c.job.new /\ j.old = c.job.old /\ j.mods = mods
        /\ j.had = c.job.had /\ j.undeleted = c.job.undeleted /\ j.pulled = c.job.pulled
    <2>1. c.job \in JobRecord
      BY DEF Single
    <2> QED
      BY <1>1, <1>2, <2>1 DEF JobRecord
  <1>4. Single(j)
    BY <1>3 DEF Single
  <1>5. PICK d : d = [c EXCEPT !.job = j]
    OBVIOUS
  <1>6. Rec(d) /\ d.repo = c.repo /\ d.task = c.task /\ d.job = j
    BY <1>5 DEF Rec
  <1>7. [c EXCEPT !.job.mods = mods] = d
    BY <1>2, <1>5
  <1> QED
    BY <1>3, <1>4, <1>6, <1>7

(* Update begins. *)
LEMMA StartUpdateEnds ==
    ASSUME NEW c, Begins(c), c.job.kind = "update", NEW w \in World(c.job.old), NEW r, Led(r) => Led(c.repo)
    PROVE  Reaches(r, StartUpdate(c, w))
  <1>1. PICK mods : mods = getModuleList(c.repo, c.job.old)
    OBVIOUS
  <1>2. StoreInv(c.repo)
    BY DEF Begins
  <1>3. mods = IF HasLayer(c.repo, c.job.old, "binary") THEN <<"binary">> ELSE <<>>
    BY <1>1, <1>2, ModuleListIs
  <1>4. mods = <<"binary">> \/ (mods = <<>> /\ c.job.old \notin c.job.had)
    BY <1>3 DEF Begins, Live, HasLayer
  <1>5. PICK p : p = Processing(c)
    OBVIOUS
  <1>6. Begins(p) /\ p.repo = c.repo /\ p.job = c.job /\ p.task.state = "Processing"
    BY <1>5, ProcessingIs
  <1>7. PICK d : d = [p EXCEPT !.job.mods = mods]
    OBVIOUS
  <1>8. /\ Rec(d) /\ d.repo = c.repo /\ d.task = p.task /\ Single(d.job)
        /\ d.job.kind = c.job.kind /\ d.job.old = c.job.old /\ d.job.mods = mods
        /\ d.job.had = c.job.had /\ d.job.undeleted = {} /\ d.job.pulled = {}
    <2>1. Rec(p) /\ Single(p.job) /\ p.job.kind \in {"uninstall", "update"} /\ p.job.undeleted = {} /\ p.job.pulled = {}
      BY <1>6 DEF Begins
    <2>2. mods = <<>> \/ mods = <<"binary">>
      BY <1>4
    <2> QED
      BY <1>6, <1>7, <2>1, <2>2, SetMods
  <1>9. Begins(d)
    BY <1>6, <1>8 DEF Begins
  <1>10. StartUpdate(c, w) = InstallRef(d, w)
    BY <1>1, <1>5, <1>7 DEF StartUpdate
  <1>11. w \in World(d.job.old) /\ d.task.state = "Processing" /\ (Led(r) => Led(d.repo)) /\ d.job.kind = "update"
    BY <1>6, <1>8
  <1>12. d.job.mods = <<"binary">> \/ (d.job.kind = "update" /\ d.job.mods = <<>> /\ d.job.old \notin d.job.had)
    BY <1>4, <1>8, <1>11
  <1>13. Reaches(r, InstallRef(d, w))
    BY <1>9, <1>11, <1>12, InstallRefStarts
  <1> QED
    BY <1>10, <1>13

(* An install of a bundle: the application and what it depends on. *)
LEMMA StartUabEnds ==
    ASSUME NEW c, Begins(c), c.job.kind = "uab", NEW w \in World(c.job.old), NEW r, Led(r) => Led(c.repo)
    PROVE  Reaches(r, StartUab(c, w))
  <1>1. PICK d : d = Prepare(c)
    OBVIOUS
  <1>2. Begins(d) /\ d.repo = c.repo /\ d.job = c.job
    BY <1>1, PrepareIs
  <1>3. /\ Rec(d) /\ StoreInv(d.repo) /\ Single(d.job) /\ OpenTask(d.task) /\ d.job \in JobRecord /\ d.job.kind = "uab"
        /\ d.job.new \in Apps /\ d.job.old \in Apps \cup {NoRef} /\ AllLive(d.repo, d.job.had)
        /\ d.job.mods = <<"binary">> /\ d.job.new # d.job.old
    BY <1>2 DEF Begins, Single, JobRecord, AllLive
  <1>4. PICK app : app = {<<d.job.new, "binary">>}
    OBVIOUS
  <1>5. app = {<<d.job.new, m>> : m \in ModuleSet(d.job.mods)}
    <2>1. ModuleSet(d.job.mods) = {"binary"}
      BY <1>3, SetOfOne
    <2> QED
      BY <1>4, <2>1
  <1>6. PICK s : s = [d.repo EXCEPT !.layers = @ \cup app \cup {<<x, "binary">> : x \in Dependencies}]
    OBVIOUS
  <1>7. PICK e : e = [d EXCEPT !.repo = s]
    OBVIOUS
  <1>8. Rec(e) /\ e.repo = s /\ e.task = d.task /\ e.job = d.job
    BY <1>3, <1>7, SetRepo
  <1>9. StartUab(c, w) =
          IF app \cap d.repo.layers # {} THEN End([d EXCEPT !.task = reportError(@)])
          ELSE IF d.job.old = NoRef
            THEN AfterRemove([e EXCEPT !.repo = exportReference(mergeModules(@), d.job.new)], TRUE)
          ELSE removeAfterInstall(e, w, getModuleList(e.repo, d.job.old))
    <2>1. e = [d EXCEPT !.repo.layers = @ \cup app \cup {<<x, "binary">> : x \in Dependencies}]
      BY <1>6, <1>7
    <2> QED
      BY <1>1, <1>5, <2>1 DEF StartUab
  <1>10. CASE app \cap d.repo.layers # {}
    <2>1. PICK t : t = reportError(d.task)
      OBVIOUS
    <2>2. t.state \in States /\ isTaskDone(t.subState)
      BY <1>3, <2>1, ErrorTask DEF States, isTaskDone
    <2>3. PICK f : f = [d EXCEPT !.task = t]
      OBVIOUS
    <2>4. Rec(f) /\ f.repo = d.repo /\ f.task = t /\ f.job = d.job
      BY <1>3, <2>3, SetTask
    <2>5. StartUab(c, w) = End(f)
      BY <1>9, <1>10, <2>1, <2>3
    <2>6. ResultInv(f.repo, f.task, f.job)
      BY <1>3, <2>4, HadLive DEF ResultInv
    <2>7. Reaches(r, End(f))
      BY <1>2, <1>3, <2>2, <2>4, <2>6, Ends DEF JobKinds
    <2> QED
      BY <2>5, <2>7
  <1>11. CASE app \cap d.repo.layers = {}
    <2>1. PICK layers : layers = d.repo.layers \cup app \cup {<<x, "binary">> : x \in Dependencies}
      OBVIOUS
    <2>2. layers \subseteq (Apps \cup Dependencies) \X {"binary"} /\ d.repo.deleted \subseteq layers
          /\ d.repo.deleted \subseteq Apps \X {"binary"}
      BY <1>3, <1>4, <2>1 DEF StoreInv, OneRepo
    <2>3. s = [d.repo EXCEPT !.layers = layers]
      BY <1>6, <2>1
    <2>4. StoreInv(s) /\ s.layers = layers /\ s.deleted = d.repo.deleted /\ s.entry = d.repo.entry
      BY <1>3, <2>2, <2>3 DEF StoreInv, OneRepo
    <2>5. \A a : Live(d.repo, a) => Live(s, a)
      BY <2>1, <2>4 DEF Live
    <2>6. Live(s, d.job.new) /\ HasLayer(s, d.job.new, "binary")
      BY <1>3, <1>4, <1>11, <2>1, <2>4, StoreIs DEF Live, HasLayer
    <2>7. Led(d.repo) => Led(s)
      BY <2>1, <2>4 DEF Led, HasLayer
    <2>8. AllLive(s, d.job.had)
      BY <1>3, <2>5 DEF AllLive
    <2>9. Closing(e)
      BY <1>3, <1>8 DEF Closing
    <2>10. CASE d.job.old = NoRef
      <3>1. PICK q : q = exportReference(s, d.job.new)
        OBVIOUS
      <3>2. StoreInv(q) /\ q.layers = s.layers /\ q.deleted = s.deleted /\ Led(q)
        BY <1>3, <2>4, <2>6, <3>1, ExportStore
      <3>3. PICK f : f = [e EXCEPT !.repo = q]
        OBVIOUS
      <3>4. Rec(f) /\ f.repo = q /\ f.task = e.task /\ f.job = d.job
        BY <1>8, <3>3, SetRepo
      <3>5. StartUab(c, w) = AfterRemove(f, TRUE)
        <4>1. mergeModules(e.repo) = s
          BY <1>8, <2>4, MergeSame
        <4> QED
          BY <1>9, <1>11, <2>10, <3>1, <3>3, <4>1
      <3>6. Closing(f)
        BY <1>8, <2>9, <3>4 DEF Closing
      <3>7. Live(q, d.job.new)
        BY <2>6, <3>2 DEF Live
      <3>8. Reaches(r, AfterRemove(f, TRUE))
        BY <1>3, <3>2, <3>4, <3>6, <3>7, AfterRemoveEnds
      <3> QED
        BY <3>5, <3>8
    <2>11. CASE d.job.old # NoRef
      <3>1. PICK mods : mods = getModuleList(s, d.job.old)
        OBVIOUS
      <3>2. mods = <<>> \/ mods = <<"binary">>
        BY <2>4, <3>1, ModuleListIs
      <3>3. StartUab(c, w) = removeAfterInstall(e, w, mods)
        BY <1>8, <1>9, <1>11, <2>11, <3>1
      <3>4. w \in World(e.job.old) /\ e.job.old \in Apps
        BY <1>2, <1>3, <1>8, <2>11
      <3>5. Led(r) => Led(e.repo)
        BY <1>2, <1>8, <2>7
      <3>6. StoreInv(e.repo) /\ HasLayer(e.repo, e.job.new, "binary") /\ Live(e.repo, e.job.new)
            /\ AllLive(e.repo, e.job.had) /\ e.job.kind = "uab"
        BY <1>3, <1>8, <2>4, <2>6, <2>8
      <3>7. Reaches(r, removeAfterInstall(e, w, mods))
        BY <2>9, <3>2, <3>4, <3>5, <3>6, RemoveAfterEnds
      <3> QED
        BY <3>3, <3>7
    <2> QED
      BY <2>10, <2>11
  <1> QED
    BY <1>10, <1>11

(* Uninstall: one module goes, or nothing. *)
LEMMA StartUninstallEnds ==
    ASSUME NEW c, Begins(c), c.job.kind = "uninstall", NEW w \in World(c.job.old), NEW r, Led(r) => Led(c.repo)
    PROVE  Reaches(r, StartUninstall(c, w))
  <1>1. StoreInv(c.repo) /\ c.job.old \in Apps
    BY DEF Begins, Single
  <1>2. PICK mods : mods = getModuleList(c.repo, c.job.old)
    OBVIOUS
  <1>3. mods = IF HasLayer(c.repo, c.job.old, "binary") THEN <<"binary">> ELSE <<>>
    BY <1>1, <1>2, ModuleListIs
  <1>4. PICK hidden : hidden = unexportReference(c.repo, c.job.old)
    OBVIOUS
  <1>5. /\ StoreInv(hidden) /\ hidden.layers = c.repo.layers /\ hidden.deleted = c.repo.deleted
        /\ HasLayer(c.repo, c.job.old, "binary") => hidden.entry # Dir(c.job.old, {"binary"})
        /\ Led(c.repo) => Led(hidden)
    BY <1>1, <1>4, UnexportStore
  <1>6. PICK p : p = Prepare(c)
    OBVIOUS
  <1>7. Begins(p) /\ p.repo = c.repo /\ p.job = c.job
    BY <1>6, PrepareIs
  <1>8. PICK q : q = [p EXCEPT !.job.mods = mods]
    OBVIOUS
  <1>9. /\ Rec(q) /\ q.task = p.task /\ Single(q.job)
        /\ q.job.kind = c.job.kind /\ q.job.old = c.job.old /\ q.job.mods = mods
    <2>1. Rec(p) /\ Single(p.job) /\ p.job.kind \in {"uninstall", "update"}
      BY <1>7 DEF Begins
    <2>2. mods = <<>> \/ mods = <<"binary">>
      BY <1>3
    <2> QED
      BY <1>7, <1>8, <2>1, <2>2, SetMods
  <1>10. PICK t : t = updateSubState(p.task, "Uninstall")
    OBVIOUS
  <1>11. OpenTask(t)
    BY <1>7, <1>10, StepTask DEF Begins, SubStates, isTaskDone
  <1>12. PICK d : d = [q EXCEPT !.repo = hidden, !.task = t]
    OBVIOUS
  <1>13. Rec(d) /\ d.repo = hidden /\ d.task = t /\ d.job = q.job
    BY <1>9, <1>12 DEF Rec
  <1>14. d = [Prepare(c) EXCEPT !.job.mods = mods, !.repo = hidden, !.task = updateSubState(@, "Uninstall")]
    <2>1. [Prepare(c) EXCEPT !.job.mods = mods, !.repo = hidden, !.task = updateSubState(@, "Uninstall")]
            = [[p EXCEPT !.job.mods = mods] EXCEPT !.repo = hidden, !.task = t]
      <3>1. Rec(p)
        BY <1>7 DEF Begins
      <3> QED
        BY <1>6, <1>10, <3>1 DEF Rec
    <2> QED
      BY <1>8, <1>12, <2>1
  <1>15. PICK bad : bad = updateState(t, "Failed")
    OBVIOUS
  <1>16. PICK good : good = updateState(t, "Succeed")
    OBVIOUS
  <1>17. /\ bad.state = "Failed" /\ bad.subState = "AllDone"
         /\ good.state = "Succeed" /\ good.subState = "AllDone"
    BY <1>11, <1>15, <1>16, StateTask DEF States
  <1>18. CASE w.failAt = 1 /\ mods # <<>>
    <2>1. PICK s : s = exportReference(hidden, c.job.old)
      OBVIOUS
    <2>2. StoreInv(s) /\ (Led(hidden) => Led(s))
      BY <1>1, <1>5, <2>1, ExportStore
    <2>3. PICK f : f = [d EXCEPT !.task = bad]
      OBVIOUS
    <2>4. Rec(f) /\ f.repo = hidden /\ f.task = bad /\ f.job = q.job
      BY <1>13, <2>3, SetTask
    <2>5. PICK e : e = [f EXCEPT !.repo = s]
      OBVIOUS
    <2>6. Rec(e) /\ e.repo = s /\ e.task = bad /\ e.job = q.job
      BY <2>4, <2>5, SetRepo
    <2>7. StartUninstall(c, w) = End(e)
      <3>1. f = [d EXCEPT !.task = updateState(@, "Failed")]
        BY <1>13, <1>15, <2>3
      <3>2. e = [f EXCEPT !.repo = exportReference(@, c.job.old)]
        BY <2>1, <2>4, <2>5
      <3> QED
        BY <1>2, <1>4, <1>14, <1>18, <3>1, <3>2 DEF StartUninstall
    <2>8. ResultInv(e.repo, e.task, e.job)
      BY <1>9, <1>17, <2>6 DEF ResultInv
    <2>9. e.task.state \in States /\ isTaskDone(e.task.subState) /\ e.job \in JobRecord /\ e.job.kind \in JobKinds
      BY <1>9, <1>17, <2>6 DEF States, isTaskDone, Single
    <2>10. Reaches(r, End(e))
      BY <1>5, <2>2, <2>6, <2>8, <2>9, Ends
    <2> QED
      BY <2>7, <2>10
  <1>19. CASE ~(w.failAt = 1 /\ mods # <<>>)
    <2>1. ~(w.failAt = 2 /\ Len(mods) > 1)
      <3>1. Len(<<>>) = 0 /\ Len(<<"binary">>) = 1
        OBVIOUS
      <3>2. CASE mods = <<>>
        <4>1. Len(mods) = 0
          BY <3>1, <3>2, Zenon
        <4> QED
          BY <4>1
      <3>3. CASE mods = <<"binary">>
        <4>1. Len(mods) = 1
          BY <3>1, <3>3, Zenon
        <4> QED
          BY <4>1
      <3> QED
        BY <1>3, <3>2, <3>3
    <2>2. PICK s : s = remove(hidden, c.job.old, ModuleSet(mods))
      OBVIOUS
    <2>3. StoreInv(s) /\ (Led(hidden) => Led(s)) /\ (mods = <<"binary">> => s.entry.ref # c.job.old)
      <3>1. CASE ~HasLayer(c.repo, c.job.old, "binary")
        <4>1. s = hidden
          BY <1>3, <1>5, <2>2, <3>1, SetOfOne, NothingToDo
        <4>2. mods # <<"binary">>
          BY <1>3, <3>1
        <4> QED
          BY <1>5, <4>1, <4>2
      <3>2. CASE HasLayer(c.repo, c.job.old, "binary")
        <4>1. s = remove(hidden, c.job.old, {"binary"})
          BY <1>3, <2>2, <3>2, SetOfOne
        <4>2. StoreInv(s) /\ s.layers = hidden.layers \ {<<c.job.old, "binary">>} /\ s.entry = hidden.entry
          BY <1>5, <4>1, RemoveStore
        <4>3. hidden.entry.ref # c.job.old
          <5>1. hidden.entry \in Entries /\ hidden.entry # Dir(c.job.old, {"binary"})
            BY <1>5, <3>2, StoreIs
          <5>2. CASE hidden.entry = NoDir
            <6>1. hidden.entry.ref = NoRef
              BY <5>2 DEF NoDir, Dir
            <6> QED
              BY <1>1, <6>1, RefsApart
          <5>3. CASE \E a \in Apps : hidden.entry = Dir(a, {"binary"})
            <6>1. PICK a \in Apps : hidden.entry = Dir(a, {"binary"})
              BY <5>3
            <6>2. hidden.entry.ref = a /\ a # c.job.old
              BY <5>1, <6>1 DEF Dir
            <6> QED
              BY <6>2
          <5> QED
            BY <5>1, <5>2, <5>3 DEF Entries
        <4> QED
          BY <4>2, <4>3 DEF Led, HasLayer
      <3> QED
        BY <3>1, <3>2
    <2>4. PICK e : e = [d EXCEPT !.repo = s, !.task = good]
      OBVIOUS
    <2>5. Rec(e) /\ e.repo = s /\ e.task = good /\ e.job = q.job
      BY <1>13, <2>4 DEF Rec
    <2>6. StartUninstall(c, w) = End(e)
      <3>1. mergeModules(s) = s
        BY <2>3, MergeSame
      <3>2. e = [d EXCEPT !.repo = mergeModules(remove(@, c.job.old, ModuleSet(mods))), !.task = updateState(@, "Succeed")]
        BY <1>13, <1>16, <2>2, <2>4, <3>1
      <3> QED
        BY <1>2, <1>4, <1>14, <1>19, <2>1, <3>2 DEF StartUninstall
    <2>7. ResultInv(e.repo, e.task, e.job)
      BY <1>9, <1>17, <2>3, <2>5 DEF ResultInv
    <2>8. e.task.state \in States /\ isTaskDone(e.task.subState) /\ e.job \in JobRecord /\ e.job.kind \in JobKinds
      BY <1>9, <1>17, <2>5 DEF States, isTaskDone, Single
    <2>9. Reaches(r, End(e))
      BY <1>5, <2>3, <2>5, <2>7, <2>8, Ends
    <2> QED
      BY <2>6, <2>9
  <1> QED
    BY <1>18, <1>19

(* The first piece of any job. *)
LEMMA StartEnds ==
    ASSUME NEW c, Begins(c), c.job.kind # "uninstall" => c.job.mods = <<"binary">>,
           NEW w \in World(c.job.old), NEW r, Led(r) => Led(c.repo)
    PROVE  Reaches(r, StartOf(c, w))
  <1>1. CASE c.job.kind = "install"
    <2>1. PICK p : p = Processing(c)
      OBVIOUS
    <2>2. Begins(p) /\ p.repo = c.repo /\ p.job = c.job /\ p.task.state = "Processing"
      BY <2>1, ProcessingIs
    <2>3. Reaches(r, InstallRef(p, w))
      BY <1>1, <2>2, InstallRefStarts
    <2> QED
      BY <1>1, <2>1, <2>3 DEF StartOf
  <1>2. CASE c.job.kind = "update"
    BY <1>2, StartUpdateEnds DEF StartOf
  <1>3. CASE c.job.kind = "uninstall"
    BY <1>3, StartUninstallEnds DEF StartOf
  <1>4. CASE c.job.kind = "uab"
    BY <1>4, StartUabEnds DEF StartOf
  <1>5. CASE c.job.kind = "layer"
    <2>1. PICK p : p = Prepare(c)
      OBVIOUS
    <2>2. Begins(p) /\ p.repo = c.repo /\ p.job = c.job /\ p.task.state = "Processing"
      BY <2>1, PrepareIs
    <2>3. Under(p.repo, p.task, p.job) /\ Brought(p.repo, p.job) /\ Rec(p)
      BY <1>5, <2>2 DEF Begins, Under, Brought, AllLive
    <2>4. Reaches(r, pullDependency(p, w))
      BY <2>2, <2>3, PullDependencyEnds
    <2> QED
      BY <1>5, <2>1, <2>4 DEF StartOf
  <1> QED
    BY <1>1, <1>2, <1>3, <1>4, <1>5 DEF Begins, Single, JobKinds
-----------------------------------------------------------------------------
(* The invariant of a repository whose applications have one module        *)

(* A job in the queue has not begun. *)
Fresh(j) ==
    /\ Single(j) /\ j.at = "queued" /\ j.undeleted = {} /\ j.pulled = {}
    /\ j.kind # "uninstall" => j.mods = <<"binary">>

(* A request that waits for the remote is one to install or to update. *)
AskInv ==
    \/ lookup = NoLookup
    \/ /\ lookup.kind \in {"install", "update"} /\ lookup.old \in Apps \cup {NoRef}
       /\ lookup.kind = "update" => lookup.old \in Apps

(* No two tasks operate on the same ref spec. *)
LineInv ==
    /\ queue \in Seq(JobRecord)
    /\ \A i \in 1 .. Len(queue) :
          Fresh(queue[i]) /\ (job # NoJob => RefSpec(queue[i].kind) # RefSpec(job.kind))
    /\ \A i, k \in 1 .. Len(queue) : RefSpec(queue[i].kind) = RefSpec(queue[k].kind) => i = k

(* While an update is at another package nothing has happened to this one. *)
OtherInv(r, t, j) ==
    /\ StoreInv(r) /\ OpenTask(t) /\ Single(j)
    /\ j.had = {a \in Apps : Live(r, a)}
    /\ j.undeleted = {} /\ j.pulled = {} /\ j.kind = "update" /\ j.mods = <<"binary">>
    /\ j.at \in OtherPlaces

(* There are at least n packages of the task that are not completed. *)
Room(t, n) == t.parts + n <= Len(t.refs)

(* Those ahead are among them, and the one that is at work. *)
Ahead(t, j, n) == Room(t, n + 1) /\ (j.at # "otherRestore" => Room(t, n + 2))

(* The current job waits or has ended. *)
NowInv ==
    \/ job = NoJob /\ task.state \in States /\ task.subState \in SubStates
    \/ OtherInv(repo, task, job) /\ Ahead(task, job, ahead)
    \/ WaitInv(repo, task, job)
    \/ EndInv(repo, task, job)

OneInv ==
    /\ StoreInv(repo) /\ running \subseteq Apps /\ alive \in BOOLEAN /\ ahead \in Nat
    /\ AskInv /\ LineInv /\ NowInv

(* What a step may do to the launcher. *)
Launched ==
    Led(repo) => \/ Led(repo')
                 \/ job'.kind = "install" /\ task'.state = "Failed" /\ repo'.entry.ref = job'.new

(* The step of a job is over. *)
LEMMA ReachesNow ==
    ASSUME NEW d, Reaches(repo, d), Become(d), running' = running
    PROVE  NowInv' /\ StoreInv(repo') /\ Launched
  <1>1. repo' = d.repo /\ task' = d.task /\ job' = d.job
    BY DEF Become
  <1>2. CASE WaitInv(d.repo, d.task, d.job)
    <2>1. StoreInv(d.repo)
      BY <1>2 DEF WaitInv, Under
    <2>2. WaitInv(repo', task', job')
      BY <1>1, <1>2
    <2> QED
      BY <1>1, <2>1, <2>2 DEF NowInv, Reaches, Launch, Launched
  <1>3. CASE EndInv(d.repo, d.task, d.job)
    <2>1. StoreInv(d.repo)
      BY <1>3 DEF EndInv
    <2>2. EndInv(repo, task, job)'
      BY <1>1, <1>3 DEF EndInv, ResultInv
    <2> QED
      BY <1>1, <2>1, <2>2 DEF NowInv, Reaches, Launch, Launched
  <1> QED
    BY <1>2, <1>3 DEF Reaches

(* A job that is somewhere is one. *)
LEMMA NoJobIs == NoJob.at = "queued" /\ NoJob.kind = "none" /\ NoJob \in JobRecord
  <1>1. NoJob.at = "queued" /\ NoJob.kind = "none"
    BY DEF NoJob, Job
  <1>2. PICK none : none = <<>>
    OBVIOUS
  <1>3. none \in Seq({"binary", "develop"})
    BY <1>2
  <1>4. NoJob = [kind |-> "none", new |-> NoRef, old |-> NoRef, mods |-> none, at |-> "queued", todo |-> none,
                 undeleted |-> {}, pulled |-> {}, runtimePulled |-> FALSE, had |-> {}]
    BY <1>2 DEF NoJob, Job
  <1>5. NoJob \in JobRecord
    BY <1>3, <1>4 DEF JobRecord
  <1> QED
    BY <1>1, <1>5

(* The queue while a job goes on. *)
LEMMA LineKept ==
    ASSUME LineInv, queue' = queue, job # NoJob, job'.kind = job.kind
    PROVE  LineInv'
  BY DEF LineInv

(* A waiting job goes on: what holds of it. *)
LEMMA WaitsIs ==
    ASSUME JobsInv, OneInv, job.at \in {"pull", "findRuntime", "runtime", "findBase", "base"}
    PROVE  WaitInv(repo, task, job) /\ job # NoJob /\ Rec(Config(job))
  <1>1. job # NoJob
    BY NoJobIs
  <1>2. ~EndInv(repo, task, job) /\ ~OtherInv(repo, task, job)
    BY DEF EndInv, OtherInv, OtherPlaces
  <1>3. Rec(Config(job))
    BY DEF Config, Rec
  <1> QED
    BY <1>1, <1>2, <1>3 DEF OneInv, NowInv

(* There is nothing to undo. *)
LEMMA UndoNothing ==
    ASSUME NEW c, Rec(c), StoreInv(c.repo), c.job.pulled = {}, c.job.undeleted = {}
    PROVE  /\ Rec(UndoInstallRef(c)) /\ UndoInstallRef(c).repo = c.repo
           /\ UndoInstallRef(c).task = c.task /\ UndoInstallRef(c).job = c.job
  <1>1. remove(c.repo, c.job.new, c.job.pulled) = c.repo
    BY NothingToDo
  <1>2. markDeleted(c.repo, c.job.new, c.job.undeleted, TRUE) = c.repo
    BY NothingToDo
  <1>3. UndoInstallRef(c) = [c EXCEPT !.repo = c.repo]
    BY <1>1, <1>2 DEF UndoInstallRef
  <1>4. PICK r : r = c.repo
    OBVIOUS
  <1>5. PICK d : d = [c EXCEPT !.repo = r]
    OBVIOUS
  <1>6. Rec(d) /\ d.repo = r /\ d.task = c.task /\ d.job = c.job
    BY <1>5, SetRepo
  <1> QED
    BY <1>3, <1>4, <1>5, <1>6

(* The pull of the application has ended. *)
LEMMA PullEndsOne ==
    ASSUME JobsInv, OneInv, PullEnds
    PROVE  OneInv' /\ Launched
  <1>1. PICK b : b = Config(job)
    OBVIOUS
  <1>2. /\ WaitInv(repo, task, job) /\ job # NoJob /\ Rec(b) /\ b.repo = repo /\ b.task = task /\ b.job = job
        /\ job.at = "pull"
    BY <1>1, WaitsIs, ConfigIs DEF PullEnds
  <1>3. /\ StoreInv(repo) /\ OpenTask(task) /\ Single(job) /\ job \in JobRecord /\ job.kind \in {"install", "update"}
        /\ AllLive(repo, job.had) /\ job.undeleted = {} /\ job.pulled = {} /\ job.new \in Apps
        /\ job.todo = <<"binary">> /\ job.mods = <<"binary">> /\ task.state \in {"Processing", "Canceled"}
        /\ HasLayer(repo, job.new, "binary") => job.new \in job.had
    BY <1>2 DEF WaitInv, Under, Single
  <1>4. PICK m : m = Head(job.todo)
    OBVIOUS
  <1>5. m = "binary"
    <2>1. Head(<<"binary">>) = "binary"
      OBVIOUS
    <2> QED
      BY <1>3, <1>4, <2>1, Zenon
  <1>6. PICK c : c = [b EXCEPT !.repo = AddLayer(@, job.new, m)]
    OBVIOUS
  <1>7. PICK e : e = [b EXCEPT !.task = reportError(@)]
    OBVIOUS
  <1>8. PICK p : p = [c EXCEPT !.job.pulled = @ \cup {m}]
    OBVIOUS
  <1>9. PICK w \in World(job.old) :
           \/ Become(End(UndoInstallRef(e)))
           \/ CanAdd(repo, job.new, m) /\ Done(c) /\ Become(End(UndoInstallRef(c)))
           \/ CanAdd(repo, job.new, m) /\ ~Done(c) /\ Become(pullDependency(p, w))
    BY <1>1, <1>4, <1>5, <1>6, <1>7, <1>8 DEF PullEnds
  <1>10. \E d : Become(d) /\ Reaches(repo, d)
    <2>1. CASE Become(End(UndoInstallRef(e)))
      <3>1. PICK t : t = reportError(task)
        OBVIOUS
      <3>2. t.state = "Failed" /\ t.state \in States /\ isTaskDone(t.subState)
        BY <1>3, <3>1, ErrorTask DEF States, isTaskDone
      <3>3. Rec(e) /\ e.repo = repo /\ e.task = t /\ e.job = job
        BY <1>2, <1>7, <3>1, SetTask
      <3>4. PICK u : u = UndoInstallRef(e)
        OBVIOUS
      <3>5. Rec(u) /\ u.repo = repo /\ u.task = t /\ u.job = job
        BY <1>3, <3>3, <3>4, UndoNothing
      <3>6. Live(repo, job.new) => job.new \in job.had
        BY <1>3 DEF Live, HasLayer
      <3>7. ResultInv(u.repo, u.task, u.job)
        BY <1>3, <3>2, <3>5, <3>6, HadLive DEF ResultInv
      <3>8. Reaches(repo, End(u))
        BY <1>3, <3>2, <3>5, <3>7, Ends DEF JobKinds
      <3> QED
        BY <2>1, <3>4, <3>8
    <2>2. CASE CanAdd(repo, job.new, m) /\ ~Become(End(UndoInstallRef(e)))
      <3>1. PICK s : s = AddLayer(repo, job.new, "binary")
        OBVIOUS
      <3>2. /\ StoreInv(s) /\ s.layers = repo.layers \cup {<<job.new, "binary">>} /\ s.entry = repo.entry
            /\ Live(s, job.new) /\ \A a : Live(repo, a) => Live(s, a)
        BY <1>3, <1>5, <2>2, <3>1, AddStore
      <3>3. Rec(c) /\ c.repo = s /\ c.task = task /\ c.job = job
        BY <1>2, <1>5, <1>6, <3>1, SetRepo
      <3>4. AllLive(s, job.had) /\ (Led(repo) => Led(s))
        BY <1>3, <3>2 DEF AllLive, Led, HasLayer
      <3>5. job.new \notin job.had
        BY <1>3, <1>5, <2>2 DEF AllLive, Live, CanAdd, HasLayer
      <3>6. CASE Done(c) /\ Become(End(UndoInstallRef(c)))
        <4>1. PICK u : u = UndoInstallRef(c)
          OBVIOUS
        <4>2. Rec(u) /\ u.repo = s /\ u.task = task /\ u.job = job
          BY <1>3, <3>2, <3>3, <4>1, UndoNothing
        <4>3. ResultInv(u.repo, u.task, u.job)
          BY <1>3, <3>4, <4>2, HadLive DEF ResultInv
        <4>4. isTaskDone(u.task.subState) /\ u.task.state \in States /\ u.job.kind \in JobKinds
          BY <1>3, <3>3, <3>6, <4>2 DEF Done, States, JobKinds
        <4>5. Reaches(repo, End(u))
          BY <1>3, <3>2, <3>4, <4>2, <4>3, <4>4, Ends
        <4> QED
          BY <3>6, <4>1, <4>5
      <3>7. CASE Become(pullDependency(p, w))
        <4>1. PICK pulled : pulled = job.pulled \cup {m}
          OBVIOUS
        <4>2. PICK j : j = [job EXCEPT !.pulled = pulled]
          OBVIOUS
        <4>3. /\ j \in JobRecord /\ j.kind = job.kind /\ j.new = job.new /\ j.old = job.old /\ j.mods = job.mods
              /\ j.had = job.had /\ j.undeleted = {} /\ j.todo = job.todo
          <5>1. pulled \in SUBSET {"binary", "develop"}
            BY <1>3, <1>5, <4>1
          <5> QED
            BY <1>3, <4>2, <5>1 DEF JobRecord
        <4>4. PICK q : q = [c EXCEPT !.job = j]
          OBVIOUS
        <4>5. Rec(q) /\ q.repo = s /\ q.task = task /\ q.job = j
          BY <3>3, <4>4 DEF Rec
        <4>6. p = q
          BY <1>8, <3>3, <4>1, <4>2, <4>4
        <4>7. Single(j)
          BY <1>3, <4>3 DEF Single
        <4>8. Under(q.repo, q.task, q.job) /\ Brought(q.repo, q.job)
          BY <1>3, <3>2, <3>4, <3>5, <4>3, <4>5, <4>7 DEF Under, Brought
        <4>9. q.task.state \in {"Processing", "Canceled"} /\ w \in World(q.job.old) /\ (Led(repo) => Led(q.repo))
          BY <1>3, <3>4, <4>3, <4>5
        <4>10. Reaches(repo, pullDependency(q, w))
          BY <4>5, <4>8, <4>9, PullDependencyEnds
        <4> QED
          BY <3>7, <4>6, <4>10
      <3> QED
        BY <1>9, <2>2, <3>6, <3>7
    <2> QED
      BY <1>9, <2>1, <2>2
  <1>11. PICK d : Become(d) /\ Reaches(repo, d)
    BY <1>10
  <1>12. NowInv' /\ StoreInv(repo') /\ Launched
    BY <1>11, ReachesNow DEF PullEnds
  <1>13. LineInv'
    BY <1>2, PullEndsSpares, LineKept DEF PullEnds, OneInv
  <1> QED
    BY <1>12, <1>13 DEF OneInv, AskInv, PullEnds

(* A waiting job has gone on. *)
LEMMA GoneOn ==
    ASSUME OneInv, job # NoJob, job'.kind = job.kind, NEW d, Become(d), Reaches(repo, d),
           UNCHANGED <<running, queue, lookup, alive, ahead>>
    PROVE  OneInv' /\ Launched
  <1>1. NowInv' /\ StoreInv(repo') /\ Launched
    BY ReachesNow
  <1>2. LineInv'
    BY LineKept DEF OneInv
  <1> QED
    BY <1>1, <1>2 DEF OneInv, AskInv

(* The remote has answered where a dependency is. *)
LEMMA FindEndsOne ==
    ASSUME JobsInv, OneInv, FindEnds
    PROVE  OneInv' /\ Launched
  <1>1. PICK b : b = Config(job)
    OBVIOUS
  <1>2. /\ WaitInv(repo, task, job) /\ job # NoJob /\ Rec(b) /\ b.repo = repo /\ b.task = task /\ b.job = job
        /\ job.at \in {"findRuntime", "findBase"}
    BY <1>1, WaitsIs, ConfigIs DEF FindEnds
  <1>3. /\ Under(repo, task, job) /\ Brought(repo, job) /\ task.state \in {"Processing", "Canceled"}
        /\ Missing(repo) /\ OpenTask(task)
    BY <1>2 DEF WaitInv, Missing, Dependencies, Under
  <1>4. PICK t : t = updateState(task, "Failed")
    OBVIOUS
  <1>5. OpenTask(t) /\ t.state = "Failed"
    BY <1>3, <1>4, StateTask DEF States
  <1>6. PICK e : e = [b EXCEPT !.task = updateState(@, "Failed")]
    OBVIOUS
  <1>7. Rec(e) /\ e.repo = repo /\ e.task = t /\ e.job = job
    BY <1>2, <1>4, <1>6, SetTask
  <1>8. Under(e.repo, e.task, e.job)
    BY <1>3, <1>5, <1>7 DEF Under
  <1>9. PICK w \in World(job.old) :
           \/ Become(DependencyFailed(e, w)) \/ Become(RuntimeFound(b, w)) \/ Become(BaseFound(b, w))
    BY <1>1, <1>6 DEF FindEnds
  <1>10. w \in World(e.job.old) /\ w \in World(b.job.old)
    BY <1>2, <1>7
  <1>11. Reaches(repo, DependencyFailed(e, w))
    BY <1>3, <1>5, <1>7, <1>8, <1>10, DependencyFailedEnds
  <1>12. Reaches(repo, RuntimeFound(b, w))
    BY <1>2, <1>3, <1>10, RuntimeFoundEnds
  <1>13. Reaches(repo, BaseFound(b, w))
    BY <1>2, <1>3, <1>10, BaseFoundEnds
  <1>14. PICK d : Become(d) /\ Reaches(repo, d)
    BY <1>9, <1>11, <1>12, <1>13
  <1>15. job'.kind = job.kind
    BY FindEndsSpares
  <1>16. UNCHANGED <<running, queue, lookup, alive, ahead>>
    BY DEF FindEnds
  <1> QED
    BY <1>2, <1>14, <1>15, <1>16, GoneOn

(* The pull of a dependency has ended. *)
LEMMA DependencyEndsOne ==
    ASSUME JobsInv, OneInv, DependencyEnds
    PROVE  OneInv' /\ Launched
  <1>1. PICK b : b = Config(job)
    OBVIOUS
  <1>2. /\ WaitInv(repo, task, job) /\ job # NoJob /\ Rec(b) /\ b.repo = repo /\ b.task = task /\ b.job = job
        /\ job.at \in {"runtime", "base"}
    BY <1>1, WaitsIs, ConfigIs DEF DependencyEnds
  <1>3. /\ Under(repo, task, job) /\ Brought(repo, job) /\ task.state \in {"Processing", "Canceled"}
        /\ Missing(repo) /\ OpenTask(task) /\ StoreInv(repo) /\ Single(job) /\ job \in JobRecord
        /\ AllLive(repo, job.had)
    BY <1>2 DEF WaitInv, Missing, Dependencies, Under, Single
  <1>4. PICK t : t = reportError(task)
    OBVIOUS
  <1>5. OpenTask(t) /\ t.state = "Failed"
    BY <1>3, <1>4, ErrorTask
  <1>6. PICK e : e = [b EXCEPT !.task = reportError(@)]
    OBVIOUS
  <1>7. Rec(e) /\ e.repo = repo /\ e.task = t /\ e.job = job
    BY <1>2, <1>4, <1>6, SetTask
  <1>8. Under(e.repo, e.task, e.job)
    BY <1>3, <1>5, <1>7 DEF Under
  <1>9. PICK ref : ref = IF job.at = "runtime" THEN Runtime ELSE Base
    OBVIOUS
  <1>10. PICK c : c = [b EXCEPT !.repo = AddLayer(@, ref, "binary")]
    OBVIOUS
  <1>11. PICK p : p = [c EXCEPT !.job.runtimePulled = TRUE]
    OBVIOUS
  <1>12. PICK w \in World(job.old) :
           \/ Become(DependencyFailed(e, w))
           \/ /\ CanAdd(repo, ref, "binary")
              /\ \/ Become(DependencyFailed(c, w)) \/ Become(FindBase(p, w)) \/ Become(DependencyReturned(c, w))
    BY <1>1, <1>6, <1>9, <1>10, <1>11 DEF DependencyEnds
  <1>13. \E d : Become(d) /\ Reaches(repo, d)
    <2>1. CASE Become(DependencyFailed(e, w))
      <3>1. w \in World(e.job.old)
        BY <1>7
      <3>2. Reaches(repo, DependencyFailed(e, w))
        BY <1>3, <1>5, <1>7, <1>8, <3>1, DependencyFailedEnds
      <3> QED
        BY <2>1, <3>2
    <2>2. CASE /\ CanAdd(repo, ref, "binary")
               /\ \/ Become(DependencyFailed(c, w)) \/ Become(FindBase(p, w)) \/ Become(DependencyReturned(c, w))
      <3>1. PICK s : s = AddLayer(repo, ref, "binary")
        OBVIOUS
      <3>2. ref \in Apps \cup Dependencies
        BY <1>9 DEF Dependencies
      <3>3. /\ StoreInv(s) /\ s.layers = repo.layers \cup {<<ref, "binary">>} /\ s.entry = repo.entry
            /\ \A a : Live(repo, a) => Live(s, a)
        BY <1>3, <2>2, <3>1, <3>2, AddStore
      <3>4. Rec(c) /\ c.repo = s /\ c.task = task /\ c.job = job
        BY <1>2, <1>10, <3>1, SetRepo
      <3>5. AllLive(s, job.had) /\ (Led(repo) => Led(s))
        BY <1>3, <3>3 DEF AllLive, Led, HasLayer
      <3>6. Under(c.repo, c.task, c.job) /\ Brought(c.repo, c.job)
        BY <1>3, <3>3, <3>4, <3>5 DEF Under, Brought
      <3>7. c.task.state \in {"Processing", "Canceled"} /\ w \in World(c.job.old) /\ (Led(repo) => Led(c.repo))
        BY <1>3, <3>4, <3>5
      <3>8. Reaches(repo, DependencyFailed(c, w))
        BY <3>4, <3>6, <3>7, DependencyFailedEnds
      <3>9. Reaches(repo, DependencyReturned(c, w))
        BY <3>4, <3>6, <3>7, DependencyReturnedEnds
      <3>10. Reaches(repo, FindBase(p, w))
        <4>1. PICK j : j = [job EXCEPT !.runtimePulled = TRUE]
          OBVIOUS
        <4>2. SameJob(job, j)
          BY <1>3, <4>1 DEF JobRecord, SameJob
        <4>3. PICK q : q = [c EXCEPT !.job = j]
          OBVIOUS
        <4>4. Rec(q) /\ q.repo = s /\ q.task = task /\ q.job = j
          BY <3>4, <4>3 DEF Rec
        <4>5. p = q
          BY <1>11, <3>4, <4>1, <4>3
        <4>6. Single(j)
          BY <1>3, <4>2 DEF Single, SameJob
        <4>7. Under(q.repo, q.task, q.job) /\ Brought(q.repo, q.job)
          BY <3>4, <3>6, <4>2, <4>4, <4>6 DEF Under, Brought, SameJob
        <4>8. q.task.state \in {"Processing", "Canceled"} /\ w \in World(q.job.old) /\ (Led(repo) => Led(q.repo))
          BY <1>3, <3>5, <4>2, <4>4 DEF SameJob
        <4>9. Reaches(repo, FindBase(q, w))
          BY <4>4, <4>7, <4>8, FindBaseEnds
        <4> QED
          BY <4>5, <4>9
      <3> QED
        BY <2>2, <3>8, <3>9, <3>10
    <2> QED
      BY <1>12, <2>1, <2>2
  <1>14. PICK d : Become(d) /\ Reaches(repo, d)
    BY <1>13
  <1>15. job'.kind = job.kind
    BY DependencyEndsSpares
  <1>16. UNCHANGED <<running, queue, lookup, alive, ahead>>
    BY DEF DependencyEnds
  <1> QED
    BY <1>2, <1>14, <1>15, <1>16, GoneOn

(* With one module nothing is ever pulled again. *)
LEMMA RestoreEndsOne ==
    ASSUME OneInv, RestoreEnds
    PROVE  FALSE
  BY NoJobIs DEF OneInv, NowInv, WaitInv, EndInv, OtherInv, OtherPlaces, RestoreEnds

(* The job returns. *)
LEMMA JobReturnsOne ==
    ASSUME OneInv, JobReturns
    PROVE  OneInv' /\ Launched
  <1>1. NowInv'
    <2>1. TemporaryTask.state \in States /\ TemporaryTask.subState \in SubStates
      BY DEF TemporaryTask, NewTask, States, SubStates
    <2> QED
      BY <2>1 DEF JobReturns, NowInv
  <1>2. LineInv'
    BY DEF JobReturns, OneInv, LineInv
  <1> QED
    BY <1>1, <1>2 DEF JobReturns, OneInv, AskInv, Launched

(* Another package of an update is begun. *)
LEMMA OtherBegins ==
    ASSUME NEW c, Begins(c), c.repo = repo \/ (Led(repo) => Led(c.repo)), c.job.kind = "update",
           c.job.mods = <<"binary">>, Become(StartOther(c)), ahead' \in Nat, Room(c.task, ahead' + 2)
    PROVE  NowInv' /\ StoreInv(repo') /\ Launched
  <1>1. PICK p : p = Processing(c)
    OBVIOUS
  <1>2. Begins(p) /\ p.repo = c.repo /\ p.job = c.job
    BY <1>1, ProcessingIs
  <1>3. OpenTask(p.task) /\ SameParts(c.task, p.task)
    <2>1. PICK t : t = updateState(c.task, "Processing")
      OBVIOUS
    <2>2. OpenTask(t) /\ SameParts(c.task, t)
      BY <2>1, StateTask DEF Begins, States
    <2>3. p = [c EXCEPT !.task = t]
      BY <1>1, <2>1 DEF Processing
    <2> QED
      BY <2>2, <2>3, SetTask DEF Begins
  <1>4. PICK u : u = updateSubState(p.task, "PreAction")
    OBVIOUS
  <1>5. OpenTask(u) /\ SameParts(p.task, u)
    BY <1>3, <1>4, StepTask DEF SubStates, isTaskDone
  <1>6. PICK t : t = updateSubState(u, "InstallApplication")
    OBVIOUS
  <1>7. OpenTask(t) /\ SameParts(u, t)
    BY <1>5, <1>6, StepTask DEF SubStates, isTaskDone
  <1>8. PICK e : e = [p EXCEPT !.task = t]
    OBVIOUS
  <1>9. Rec(e) /\ e.repo = c.repo /\ e.task = t /\ e.job = c.job
    BY <1>2, <1>8, SetTask DEF Begins
  <1>10. PICK d : d = Goto(e, "other")
    OBVIOUS
  <1>11. d.repo = c.repo /\ d.task = t /\ d.job.at = "other" /\ SameJob(c.job, d.job)
    BY <1>2, <1>9, <1>10, GotoIs DEF OtherPlaces, Places, Begins, Single
  <1>12. StartOther(c) = d
    BY <1>1, <1>4, <1>6, <1>8, <1>10 DEF StartOther
  <1>13. OtherInv(d.repo, d.task, d.job)
    BY <1>7, <1>11 DEF OtherInv, Begins, SameJob, Single, OtherPlaces
  <1>14. SameParts(c.task, d.task)
    BY <1>3, <1>5, <1>7, <1>11 DEF SameParts
  <1>15. Ahead(d.task, d.job, ahead')
    <2>1. c.task.parts \in Nat /\ Len(c.task.refs) \in Nat
      BY DEF Begins, OpenTask
    <2> QED
      BY <1>14, <2>1 DEF Ahead, Room, SameParts
  <1>16. repo' = d.repo /\ task' = d.task /\ job' = d.job
    BY <1>12 DEF Become
  <1>17. OtherInv(repo, task, job)' /\ Ahead(task, job, ahead)'
    BY <1>13, <1>15, <1>16 DEF OtherInv
  <1> QED
    BY <1>11, <1>16, <1>17 DEF NowInv, Launched, OtherInv

(* An update goes on with its next package. *)
LEMMA NextPackageOne ==
    ASSUME NEW c, Begins(c), Led(repo) => Led(c.repo), c.job.kind = "update",
           c.job.mods = <<"binary">>, ahead \in Nat, Room(c.task, ahead + 1), NextPackage(c), running' = running
    PROVE  NowInv' /\ StoreInv(repo') /\ Launched /\ ahead' \in Nat
  <1>1. CASE ahead > 0
    <2>1. ahead' = ahead - 1 /\ Become(StartOther(c))
      BY <1>1 DEF NextPackage
    <2>2. ahead' \in Nat /\ Room(c.task, ahead' + 2)
      BY <1>1, <2>1 DEF Room
    <2> QED
      BY <2>1, <2>2, OtherBegins
  <1>2. CASE ~(ahead > 0)
    <2>1. ahead' = ahead /\ \E w \in World(c.job.old) : Become(StartUpdate(c, w))
      BY <1>2 DEF NextPackage
    <2>2. PICK w \in World(c.job.old) : Become(StartUpdate(c, w))
      BY <2>1
    <2>3. PICK d : d = StartUpdate(c, w)
      OBVIOUS
    <2>4. Reaches(repo, d)
      BY <2>3, StartUpdateEnds
    <2> QED
      BY <2>1, <2>2, <2>3, <2>4, ReachesNow
  <1> QED
    BY <1>1, <1>2

(* A step of another package of an update. *)
LEMMA OtherOne ==
    ASSUME JobsInv, OneInv, OtherStep
    PROVE  OneInv' /\ Launched
  <1>1. /\ job.at \in OtherPlaces /\ UNCHANGED <<running, queue, lookup, alive>>
    BY DEF OtherStep, OtherFails, OtherCancelled, OtherPulled, OtherUpgraded, OtherRestored, OtherPlaces
  <1>2. OtherInv(repo, task, job) /\ Ahead(task, job, ahead) /\ ahead \in Nat /\ job # NoJob
    BY <1>1, NoJobIs DEF OneInv, NowInv, WaitInv, EndInv, OtherPlaces
  <1>3. PICK b : b = Config(job)
    OBVIOUS
  <1>4. Rec(b) /\ b.repo = repo /\ b.task = task /\ b.job = job
    BY <1>3 DEF Config, Rec
  <1>5. Begins(b) /\ job.kind = "update" /\ job.mods = <<"binary">> /\ OpenTask(task) /\ StoreInv(repo) /\ Single(job)
    BY <1>2, <1>4 DEF Begins, OtherInv
  <1>6. task.parts \in Nat /\ Len(task.refs) \in Nat
    BY <1>5 DEF OpenTask
  <1>7. NowInv' /\ StoreInv(repo') /\ Launched /\ ahead' \in Nat
    <2>1. CASE OtherFails
      <3>1. PICK t \in {reportError(task), updateState(task, "Failed")} : NextPackage([b EXCEPT !.task = t])
        BY <1>3, <2>1 DEF OtherFails
      <3>2. OpenTask(t) /\ SameParts(task, t)
        BY <1>5, <3>1, ErrorTask, StateTask DEF States
      <3>3. PICK c : c = [b EXCEPT !.task = t]
        OBVIOUS
      <3>4. Rec(c) /\ c.repo = repo /\ c.task = t /\ c.job = job
        BY <1>4, <3>3, SetTask
      <3>5. Begins(c)
        BY <1>4, <1>5, <3>2, <3>4 DEF Begins
      <3>6. Room(c.task, ahead + 1)
        BY <1>2, <3>2, <3>4 DEF Ahead, Room, SameParts
      <3>7. NextPackage(c)
        BY <3>1, <3>3
      <3> QED
        BY <1>1, <1>2, <1>5, <3>4, <3>5, <3>6, <3>7, NextPackageOne
    <2>2. CASE OtherCancelled \/ OtherRestored
      <3>1. NextPackage(b)
        BY <1>3, <2>2 DEF OtherCancelled, OtherRestored
      <3>2. Room(b.task, ahead + 1)
        BY <1>2, <1>4 DEF Ahead
      <3> QED
        BY <1>1, <1>2, <1>4, <1>5, <3>1, <3>2, NextPackageOne
    <2>3. CASE OtherPulled
      <3>1. PICK sub \in {"InstallRuntime", "InstallBase"}, at \in {"otherRuntime", "otherBase"} :
               Become(Goto([b EXCEPT !.task = updateSubState(task, sub)], at))
        <4>1. CASE job.at = "other"
          BY <1>3, <1>4, <2>3, <4>1 DEF OtherPulled
        <4>2. CASE job.at # "other"
          BY <1>3, <1>4, <2>3, <4>2 DEF OtherPulled
        <4> QED
          BY <4>1, <4>2
      <3>2. PICK t : t = updateSubState(task, sub)
        OBVIOUS
      <3>3. OpenTask(t) /\ SameParts(task, t)
        BY <1>5, <3>2, StepTask DEF SubStates, isTaskDone
      <3>4. PICK c : c = [b EXCEPT !.task = t]
        OBVIOUS
      <3>5. Rec(c) /\ c.repo = repo /\ c.task = t /\ c.job = job
        BY <1>4, <3>4, SetTask
      <3>6. PICK d : d = Goto(c, at)
        OBVIOUS
      <3>7. d.repo = repo /\ d.task = t /\ d.job.at = at /\ SameJob(job, d.job)
        BY <1>5, <3>1, <3>5, <3>6, GotoIs DEF OtherPlaces, Places, Single
      <3>8. repo' = d.repo /\ task' = d.task /\ job' = d.job /\ ahead' = ahead
        BY <2>3, <3>1, <3>2, <3>4, <3>6 DEF Become, OtherPulled
      <3>9. OtherInv(d.repo, d.task, d.job)
        BY <1>2, <3>1, <3>3, <3>7 DEF OtherInv, SameJob, Single, OtherPlaces
      <3>10. Ahead(d.task, d.job, ahead)
        <4>1. job.at # "otherRestore"
          BY <2>3 DEF OtherPulled
        <4> QED
          BY <1>2, <3>3, <3>7, <4>1 DEF Ahead, Room, SameParts
      <3>11. OtherInv(repo, task, job)' /\ Ahead(task, job, ahead)'
        BY <3>8, <3>9, <3>10 DEF OtherInv
      <3> QED
        BY <1>2, <1>5, <3>7, <3>8, <3>11 DEF NowInv, Launched
    <2>4. CASE OtherUpgraded
      <3>1. PICK t : t = setSubState(updateState(task, "PartCompleted"), "PackageManagerDone")
        OBVIOUS
      <3>2. PICK c : c = [b EXCEPT !.task = t]
        OBVIOUS
      <3>3. \/ NextPackage([c EXCEPT !.repo = mergeModules(@)])
            \/ NextPackage(c)
            \/ ahead' = ahead /\ Become(Goto(c, "otherRestore"))
        BY <1>3, <1>4, <2>4, <3>1, <3>2 DEF OtherUpgraded
      <3>4. Room(task, ahead + 2) /\ task.parts + 1 < Len(task.refs)
        BY <1>2, <1>6, <2>4 DEF Ahead, Room, OtherUpgraded
      <3>5. OpenTask(t) /\ t.parts = task.parts + 1 /\ t.refs = task.refs
        BY <1>5, <3>1, <3>4, UpdatedTask
      <3>6. Rec(c) /\ c.repo = repo /\ c.task = t /\ c.job = job
        BY <1>4, <3>2, SetTask
      <3>7. Begins(c) /\ Room(c.task, ahead + 1)
        BY <1>2, <1>4, <1>5, <1>6, <3>4, <3>5, <3>6 DEF Begins, Room
      <3>8. [c EXCEPT !.repo = mergeModules(@)] = c
        <4>1. mergeModules(c.repo) = c.repo
          BY <1>5, <3>6, MergeSame
        <4>2. c = [b EXCEPT !.task = t] /\ b = [repo |-> repo, task |-> task, job |-> job]
          BY <1>3, <3>2 DEF Config
        <4> QED
          BY <4>1, <4>2
      <3>9. CASE NextPackage(c)
        BY <1>1, <1>2, <1>5, <3>6, <3>7, <3>9, NextPackageOne
      <3>10. CASE ahead' = ahead /\ Become(Goto(c, "otherRestore"))
        <4>1. PICK d : d = Goto(c, "otherRestore")
          OBVIOUS
        <4>2. d.repo = repo /\ d.task = t /\ d.job.at = "otherRestore" /\ SameJob(job, d.job)
          BY <1>5, <3>6, <4>1, GotoIs DEF OtherPlaces, Places, Single
        <4>3. repo' = d.repo /\ task' = d.task /\ job' = d.job /\ ahead' = ahead
          BY <3>10, <4>1 DEF Become
        <4>4. OtherInv(d.repo, d.task, d.job)
          BY <1>2, <3>5, <4>2 DEF OtherInv, SameJob, Single, OtherPlaces
        <4>5. Ahead(d.task, d.job, ahead)
          BY <3>6, <3>7, <4>2 DEF Ahead
        <4>6. OtherInv(repo, task, job)' /\ Ahead(task, job, ahead)'
          BY <4>3, <4>4, <4>5 DEF OtherInv
        <4> QED
          BY <1>2, <1>5, <4>2, <4>3, <4>6 DEF NowInv, Launched
      <3> QED
        BY <3>3, <3>8, <3>9, <3>10
    <2> QED
      BY <2>1, <2>2, <2>3, <2>4 DEF OtherStep
  <1>8. job'.kind = job.kind
    BY OthersSpare
  <1>9. LineInv'
    BY <1>1, <1>2, <1>8, LineKept DEF OneInv
  <1> QED
    BY <1>1, <1>7, <1>9 DEF OneInv, AskInv

(* The first job of the queue begins. *)
LEMMA StartJobOne ==
    ASSUME JobsInv, OneInv, StartJob
    PROVE  OneInv' /\ Launched
  <1>1. PICK h : h = Head(queue)
    OBVIOUS
  <1>2. /\ queue \in Seq(JobRecord) /\ queue # <<>> /\ queue' = Tail(queue) /\ job = NoJob
        /\ StoreInv(repo)
    BY DEF OneInv, LineInv, StartJob
  <1>3. Fresh(h) /\ h = queue[1] /\ Len(queue) \in Nat /\ Len(queue) >= 1
    BY <1>1, <1>2 DEF OneInv, LineInv
  <1>4. PICK had : had = InstalledApps(repo)
    OBVIOUS
  <1>5. had = {a \in Apps : Live(repo, a)}
    BY <1>2, <1>4, InstalledIs DEF InstalledApps
  <1>6. PICK j : j = [h EXCEPT !.had = had]
    OBVIOUS
  <1>7. /\ j \in JobRecord /\ j.kind = h.kind /\ j.new = h.new /\ j.old = h.old /\ j.mods = h.mods /\ j.had = had
        /\ j.undeleted = {} /\ j.pulled = {}
    <2>1. h \in JobRecord /\ had \in SUBSET Apps /\ h.undeleted = {} /\ h.pulled = {}
      BY <1>3, <1>5 DEF Fresh, Single
    <2> QED
      BY <1>6, <2>1 DEF JobRecord
  <1>8. Single(j)
    BY <1>3, <1>7 DEF Fresh, Single
  <1>9. PICK n, refs, t, c :
           /\ n \in Nat /\ refs = [i \in 1 .. n + 1 |-> RefSpec(j.kind)] /\ t = NewTask(refs)
           /\ c = [Config(j) EXCEPT !.task = t]
           /\ (n = 0 \/ j.kind = "update")
           /\ FirstPackage(c, n)
    <2>1. PICK n \in IF j.kind = "update" THEN Others ELSE {0} :
             FirstPackage([Config(j) EXCEPT !.task = TaskOf(j, n)], n)
      <3>1. j = [Head(queue) EXCEPT !.had = InstalledApps(repo)]
        BY <1>1, <1>4, <1>6
      <3> QED
        BY <3>1 DEF StartJob
    <2>2. n \in Nat /\ (n = 0 \/ j.kind = "update")
      BY <2>1, OthersAssumption
    <2>3. PICK refs : refs = [i \in 1 .. n + 1 |-> RefSpec(j.kind)]
      OBVIOUS
    <2>4. PICK t : t = NewTask(refs)
      OBVIOUS
    <2>5. PICK c : c = [Config(j) EXCEPT !.task = t]
      OBVIOUS
    <2>6. TaskOf(j, n) = t
      BY <2>3, <2>4 DEF TaskOf
    <2> QED
      BY <2>1, <2>2, <2>3, <2>4, <2>5, <2>6
  <1>10. OpenTask(t) /\ t.parts = 0 /\ Len(t.refs) = n + 1
    <2>1. Len(refs) = n + 1
      BY <1>9
    <2>2. t = [state |-> "Queued", subState |-> "Unknown", total |-> 0, stage |-> 0,
               parts |-> 0, refs |-> refs, cancelled |-> FALSE]
      BY <1>9 DEF NewTask
    <2>3. /\ DOMAIN t = {"state", "subState", "total", "stage", "parts", "refs", "cancelled"}
          /\ t.state = "Queued" /\ t.subState = "Unknown" /\ t.parts = 0 /\ t.refs = refs
      BY <2>2
    <2> QED
      BY <1>9, <2>1, <2>3 DEF OpenTask, States, SubStates
  <1>12. Rec(c) /\ c.repo = repo /\ c.task = t /\ c.job = j
    BY <1>9 DEF Config, Rec
  <1>13. Begins(c)
    BY <1>2, <1>5, <1>7, <1>8, <1>10, <1>12 DEF Begins
  <1>15. c.job.kind # "uninstall" => c.job.mods = <<"binary">>
    BY <1>3, <1>7, <1>12 DEF Fresh
  <1>18. NowInv' /\ StoreInv(repo') /\ Launched /\ ahead' \in Nat
    <2>1. CASE n = 0
      <3>1. PICK w \in World(c.job.old) : Become(StartOf(c, w))
        BY <1>9, <1>12, <2>1 DEF FirstPackage
      <3>2. Reaches(repo, StartOf(c, w))
        BY <1>12, <1>13, <1>15, StartEnds
      <3>3. PICK d : Become(d) /\ Reaches(repo, d)
        BY <3>1, <3>2
      <3>4. NowInv' /\ StoreInv(repo') /\ Launched
        BY <3>3, ReachesNow DEF StartJob
      <3> QED
        BY <1>9, <2>1, <3>4 DEF FirstPackage
    <2>2. CASE n # 0
      <3>1. Become(StartOther(c)) /\ ahead' = n - 1 /\ c.job.kind = "update"
        BY <1>9, <1>12, <2>2 DEF FirstPackage
      <3>2. ahead' \in Nat /\ Room(c.task, ahead' + 2)
        BY <1>9, <1>10, <1>12, <2>2, <3>1 DEF Room
      <3> QED
        BY <1>12, <1>13, <1>15, <3>1, <3>2, OtherBegins
    <2> QED
      BY <2>1, <2>2
  <1>19. job'.kind = queue[1].kind
    BY <1>1, <1>3, StartJobSpares
  <1>20. LineInv'
    <2>1. queue' \in Seq(JobRecord) /\ Len(queue') = Len(queue) - 1
          /\ \A i \in 1 .. Len(queue') : queue'[i] = queue[i + 1]
      BY <1>2
    <2>2. \A i \in 1 .. Len(queue') : i + 1 \in 1 .. Len(queue) /\ i \in Int
      BY <1>3, <2>1
    <2>3. 1 \in 1 .. Len(queue)
      BY <1>3
    <2>4. ASSUME NEW i \in 1 .. Len(queue')
          PROVE  Fresh(queue'[i]) /\ RefSpec(queue'[i].kind) # RefSpec(job'.kind)
      <3>1. i + 1 \in 1 .. Len(queue) /\ queue'[i] = queue[i + 1] /\ i + 1 # 1
        BY <2>1, <2>2
      <3> QED
        BY <1>19, <2>3, <3>1 DEF OneInv, LineInv
    <2>5. ASSUME NEW i \in 1 .. Len(queue'), NEW k \in 1 .. Len(queue'),
                 RefSpec(queue'[i].kind) = RefSpec(queue'[k].kind)
          PROVE  i = k
      <3>1. i + 1 \in 1 .. Len(queue) /\ queue'[i] = queue[i + 1] /\ i \in Int
        BY <2>1, <2>2
      <3>2. k + 1 \in 1 .. Len(queue) /\ queue'[k] = queue[k + 1] /\ k \in Int
        BY <2>1, <2>2
      <3>3. i + 1 = k + 1
        BY <2>5, <3>1, <3>2 DEF OneInv, LineInv
      <3> QED
        BY <3>1, <3>2, <3>3
    <2> QED
      BY <2>1, <2>4, <2>5 DEF LineInv
  <1> QED
    BY <1>18, <1>20 DEF OneInv, AskInv, StartJob

(* A request adds a job. *)
LEMMA EnqueueOne ==
    ASSUME OneInv, NEW j, Fresh(j), ~Operated(j.kind), Enqueue(j), job' = job
    PROVE  LineInv'
  <1>1. queue \in Seq(JobRecord) /\ j \in JobRecord /\ Len(queue) \in Nat
    BY DEF OneInv, LineInv, Fresh, Single
  <1>2. /\ queue' \in Seq(JobRecord) /\ Len(queue') = Len(queue) + 1
        /\ \A i \in 1 .. Len(queue) : queue'[i] = queue[i]
        /\ queue'[Len(queue) + 1] = j
    BY <1>1 DEF Enqueue
  <1>3. \A i \in 1 .. Len(queue) : RefSpec(queue[i].kind) # RefSpec(j.kind)
    <2> SUFFICES ASSUME NEW i \in 1 .. Len(queue) PROVE RefSpec(queue[i].kind) # RefSpec(j.kind)
      OBVIOUS
    <2>1. queue[i] \in ModuleSet(queue)
      BY <1>1 DEF ModuleSet
    <2>2. queue[i].kind # "none"
      BY DEF OneInv, LineInv, Fresh, Single, JobKinds
    <2> QED
      BY <2>1, <2>2 DEF Operated
  <1>4. job # NoJob => RefSpec(job.kind) # RefSpec(j.kind)
    <2>1. job # NoJob => job.kind # "none"
      BY DEF OneInv, NowInv, WaitInv, Under, OtherInv, EndInv, JobKinds
    <2> QED
      BY <2>1 DEF Operated
  <1>5. ASSUME NEW i \in 1 .. Len(queue')
        PROVE  i \in 1 .. Len(queue) \/ i = Len(queue) + 1
    BY <1>1, <1>2
  <1>6. ASSUME NEW i \in 1 .. Len(queue')
        PROVE  Fresh(queue'[i]) /\ (job' # NoJob => RefSpec(queue'[i].kind) # RefSpec(job'.kind))
    <2>1. CASE i \in 1 .. Len(queue)
      BY <1>2, <2>1 DEF OneInv, LineInv
    <2>2. CASE i = Len(queue) + 1
      BY <1>2, <1>4, <2>2
    <2> QED
      BY <1>5, <2>1, <2>2
  <1>7. ASSUME NEW i \in 1 .. Len(queue'), NEW k \in 1 .. Len(queue'),
               RefSpec(queue'[i].kind) = RefSpec(queue'[k].kind)
        PROVE  i = k
    <2>1. CASE i \in 1 .. Len(queue) /\ k \in 1 .. Len(queue)
      BY <1>2, <1>7, <2>1 DEF OneInv, LineInv
    <2>2. CASE i = Len(queue) + 1 /\ k \in 1 .. Len(queue)
      BY <1>2, <1>3, <1>7, <2>2
    <2>3. CASE i \in 1 .. Len(queue) /\ k = Len(queue) + 1
      BY <1>2, <1>3, <1>7, <2>3
    <2>4. CASE i = Len(queue) + 1 /\ k = Len(queue) + 1
      BY <2>4
    <2> QED
      BY <1>5, <2>1, <2>2, <2>3, <2>4
  <1> QED
    BY <1>2, <1>6, <1>7 DEF LineInv

(* A job as a request makes it. *)
LEMMA FreshJob ==
    ASSUME NEW kind \in JobKinds, NEW new \in Apps \cup {NoRef}, NEW old \in Apps \cup {NoRef},
           NEW mods, mods = <<>> \/ mods = <<"binary">>,
           kind \in {"uninstall", "update"} => old \in Apps,
           kind # "uninstall" => new \in Apps /\ new # old /\ mods = <<"binary">>
    PROVE  Fresh(Job(kind, new, old, mods)) /\ Job(kind, new, old, mods).kind = kind
  <1>1. PICK none : none = <<>>
    OBVIOUS
  <1>2. none \in Seq({"binary", "develop"}) /\ mods \in Seq({"binary", "develop"})
    <2>1. <<>> \in Seq({"binary", "develop"}) /\ <<"binary">> \in Seq({"binary", "develop"})
      OBVIOUS
    <2> QED
      BY <1>1, <2>1
  <1>3. PICK j : j = [kind |-> kind, new |-> new, old |-> old, mods |-> mods, at |-> "queued", todo |-> none,
                      undeleted |-> {}, pulled |-> {}, runtimePulled |-> FALSE, had |-> {}]
    OBVIOUS
  <1>4. j \in JobRecord
    BY <1>2, <1>3 DEF JobRecord, JobKinds
  <1>5. /\ j.kind = kind /\ j.new = new /\ j.old = old /\ j.mods = mods /\ j.at = "queued"
        /\ j.undeleted = {} /\ j.pulled = {}
    BY <1>3
  <1>6. j = Job(kind, new, old, mods)
    BY <1>1, <1>3 DEF Job
  <1>7. Fresh(j)
    BY <1>4, <1>5 DEF Fresh, Single
  <1> QED
    BY <1>5, <1>6, <1>7

(* A version that is accepted is another one. *)
LEMMA AcceptsOther ==
    ASSUME NEW new \in Apps, NEW old \in Apps \cup {NoRef}, NEW force, old # NoRef => Accepts(new, old, force)
    PROVE  new # old
  <1>1. CASE old = NoRef
    BY <1>1, RefsApart
  <1>2. CASE old # NoRef
    <2>1. new.version \in 1 .. 99 /\ old.version \in 1 .. 99
      BY <1>2, VersionsAssumption DEF Apps, App
    <2>2. new.version > old.version \/ new.version < old.version
      BY <1>2 DEF Accepts
    <2> QED
      BY <2>1, <2>2
  <1> QED
    BY <1>1, <1>2

(* Requests. *)
LEMMA RequestsOne ==
    ASSUME OneModule, OneInv,
           \/ \E kind \in Kinds : RequestRemote(kind)
           \/ \E new \in Apps, force \in Forces : RemoteAnswered(new, force)
           \/ \E ref \in Apps : RequestUninstall(ref)
           \/ \E kind \in Kinds, new \in Apps, mods \in UabModules, force \in Forces :
                 InstallFromFile(kind, new, mods, force)
    PROVE  OneInv' /\ Launched
  <1>1. StoreInv(repo)
    BY DEF OneInv
  <1>2. PICK latest : latest = clearReferenceLocal(repo, "app")
    OBVIOUS
  <1>3. latest \in Apps \cup {NoRef} /\ (latest # NoRef => Live(repo, latest))
    BY <1>1, <1>2, LatestApp
  <1>4. CASE \E kind \in Kinds : RequestRemote(kind)
    <2>1. PICK kind \in Kinds : RequestRemote(kind)
      BY <1>4
    <2>2. PICK nested : lookup' = [kind |-> kind, old |-> latest, nested |-> nested]
      BY <1>2, <2>1 DEF RequestRemote
    <2>3. lookup'.kind = kind /\ lookup'.old = latest
      BY <2>2
    <2>4. kind \in {"install", "update"} /\ (kind = "update" => HasLayer(repo, latest, "binary"))
      BY <1>2, <2>1 DEF RequestRemote
    <2>5. ~HasLayer(repo, NoRef, "binary")
      BY <1>1, StoreIs, RefsApart DEF HasLayer, Dependencies
    <2>6. AskInv'
      BY <1>3, <2>3, <2>4, <2>5 DEF AskInv
    <2>7. UNCHANGED <<repo, running, task, job, queue, alive, ahead>>
      BY <2>1 DEF RequestRemote
    <2>8. NowInv' /\ LineInv'
      BY <2>7 DEF OneInv, NowInv, EndInv, ResultInv, LineInv
    <2> QED
      BY <2>6, <2>7, <2>8 DEF OneInv, Launched
  <1>5. CASE \E new \in Apps, force \in Forces : RemoteAnswered(new, force)
    <2>1. PICK new \in Apps, force \in Forces : RemoteAnswered(new, force)
      BY <1>5
    <2>2. UNCHANGED <<repo, running, task, job, alive, ahead>> /\ lookup' = NoLookup
      BY <2>1 DEF RemoteAnswered
    <2>3. LineInv'
      <3>1. CASE queue' = queue
        BY <2>2, <3>1 DEF OneInv, LineInv
      <3>2. CASE queue' # queue
        <4>1. PICK f : Accepts(new, lookup.old, f) /\ ~Operated(lookup.kind)
                       /\ Enqueue(Job(lookup.kind, new, lookup.old, <<"binary">>))
          BY <2>1, <3>2 DEF RemoteAnswered
        <4>2. /\ lookup.kind \in {"install", "update"} /\ lookup.old \in Apps \cup {NoRef}
              /\ lookup.kind = "update" => lookup.old \in Apps
          BY <2>1 DEF RemoteAnswered, LookupOnTop, OneInv, AskInv
        <4>3. new # lookup.old
          BY <4>1, <4>2, AcceptsOther
        <4>4. PICK mods : mods = <<"binary">>
          OBVIOUS
        <4>5. PICK j : j = Job(lookup.kind, new, lookup.old, mods)
          OBVIOUS
        <4>6. Fresh(j) /\ j.kind = lookup.kind
          BY <4>2, <4>3, <4>4, <4>5, FreshJob DEF JobKinds
        <4> QED
          BY <2>2, <4>1, <4>4, <4>5, <4>6, EnqueueOne
      <3> QED
        BY <3>1, <3>2
    <2>4. NowInv'
      BY <2>2 DEF OneInv, NowInv, EndInv, ResultInv
    <2> QED
      BY <2>2, <2>3, <2>4 DEF OneInv, AskInv, Launched
  <1>6. CASE \E ref \in Apps : RequestUninstall(ref)
    <2>1. PICK ref \in Apps : RequestUninstall(ref)
      BY <1>6
    <2>2. UNCHANGED <<repo, running, task, job, lookup, alive, ahead>>
      BY <2>1 DEF RequestUninstall
    <2>3. LineInv'
      <3>1. PICK mods : mods = <<>>
        OBVIOUS
      <3>2. PICK j : j = Job("uninstall", NoRef, ref, mods)
        OBVIOUS
      <3>3. Fresh(j) /\ j.kind = "uninstall"
        BY <3>1, <3>2, FreshJob DEF JobKinds
      <3>4. Enqueue(j) /\ ~Operated(j.kind)
        BY <2>1, <3>1, <3>2, <3>3 DEF RequestUninstall
      <3> QED
        BY <2>2, <3>3, <3>4, EnqueueOne
    <2>4. NowInv'
      BY <2>2 DEF OneInv, NowInv, EndInv, ResultInv
    <2> QED
      BY <2>2, <2>3, <2>4 DEF OneInv, AskInv, Launched
  <1>7. CASE \E kind \in Kinds, new \in Apps, mods \in UabModules, force \in Forces :
                InstallFromFile(kind, new, mods, force)
    <2>1. PICK kind \in Kinds, new \in Apps, mods \in UabModules, force \in Forces :
             InstallFromFile(kind, new, mods, force)
      BY <1>7
    <2>2. UNCHANGED <<repo, running, task, job, lookup, alive, ahead>>
      BY <2>1 DEF InstallFromFile
    <2>3. LineInv'
      <3>1. mods = {"binary"}
        BY DEF OneModule
      <3>2. PICK list : list = Sorted(mods)
        OBVIOUS
      <3>3. list = <<"binary">>
        BY <3>1, <3>2, SortedOne
      <3>4. /\ kind \in {"layer", "uab"} /\ ~Operated(kind) /\ Enqueue(Job(kind, new, latest, list))
            /\ HasLayer(repo, latest, "binary") => Accepts(new, latest, force)
        BY <1>2, <2>1, <3>2 DEF InstallFromFile
      <3>5. new # latest
        BY <1>3, <3>4, AcceptsOther DEF Live, HasLayer
      <3>6. PICK j : j = Job(kind, new, latest, list)
        OBVIOUS
      <3>7. Fresh(j) /\ j.kind = kind
        BY <1>3, <3>3, <3>4, <3>5, <3>6, FreshJob DEF JobKinds
      <3> QED
        BY <2>2, <3>4, <3>6, <3>7, EnqueueOne
    <2>4. NowInv'
      BY <2>2 DEF OneInv, NowInv, EndInv, ResultInv
    <2> QED
      BY <2>2, <2>3, <2>4 DEF OneInv, AskInv, Launched
  <1> QED
    BY <1>4, <1>5, <1>6, <1>7

(* The task of a waiting job changes. *)
LEMMA TaskOne ==
    ASSUME OneInv, CancelTask \/ \E part \in Reports : Progress(part)
    PROVE  OneInv' /\ Launched
  <1>1. UNCHANGED <<repo, running, job, queue, lookup, alive>> /\ job # NoJob /\ job.at # "ended"
    BY NoJobIs DEF CancelTask, Progress, LoopTurning
  <1>2. \/ WaitInv(repo, task, job)
        \/ OtherInv(repo, task, job) /\ Ahead(task, job, ahead)
    BY <1>1 DEF OneInv, NowInv, EndInv
  <1>3. OpenTask(task)
    BY <1>2 DEF WaitInv, Under, OtherInv
  <1>4. /\ OpenTask(task') /\ SameParts(task, task')
        /\ task'.state = task.state \/ task'.state = "Canceled"
    <2>1. CASE CancelTask
      <3>1. PICK c : c = [task EXCEPT !.cancelled = TRUE]
        OBVIOUS
      <3>2. OpenTask(c) /\ SameParts(task, c)
        BY <1>3, <3>1 DEF OpenTask, SameParts
      <3>3. task' = updateState(c, "Canceled")
        BY <2>1, <3>1 DEF CancelTask, Cancel
      <3> QED
        BY <3>2, <3>3, StateTask DEF States, SameParts
    <2>2. CASE \E part \in Reports : Progress(part)
      <3>1. PICK part \in Reports : task' = updateTask(task, part, Whole)
        BY <2>2 DEF Progress
      <3>2. PICK stage : task' = task \/ task' = [task EXCEPT !.stage = stage]
        BY <3>1 DEF updateTask
      <3> QED
        BY <1>3, <3>2 DEF OpenTask, SameParts
    <2> QED
      BY <2>1, <2>2
  <1>7. NowInv'
    <2>1. CASE WaitInv(repo, task, job)
      <3>1. WaitInv(repo, task', job)
        BY <1>4, <2>1 DEF WaitInv, Under
      <3>2. WaitInv(repo', task', job')
        BY <1>1, <3>1
      <3> QED
        BY <3>2 DEF NowInv
    <2>2. CASE OtherInv(repo, task, job) /\ Ahead(task, job, ahead)
      <3>1. OtherInv(repo, task', job) /\ Ahead(task', job, ahead)
        BY <1>4, <2>2 DEF OtherInv, Ahead, Room, SameParts
      <3>2. ahead' = ahead
        BY DEF CancelTask, Progress
      <3>3. OtherInv(repo', task', job') /\ Ahead(task', job', ahead')
        BY <1>1, <3>1, <3>2
      <3> QED
        BY <3>3 DEF NowInv
    <2> QED
      BY <1>2, <2>1, <2>2
  <1>8. LineInv'
    BY <1>1 DEF OneInv, LineInv
  <1>9. ahead' = ahead
    BY DEF CancelTask, Progress
  <1> QED
    BY <1>1, <1>7, <1>8, <1>9 DEF OneInv, AskInv, Launched

(* Layers that are not installed versions go while a job waits. *)
LEMMA LayersGo ==
    ASSUME OneInv, StoreInv(repo'), job.at # "ended", UNCHANGED <<running, task, job, queue, lookup, ahead>>,
           \A a \in Apps : Live(repo, a) <=> Live(repo', a),
           \A ref : HasLayer(repo', ref, "binary") => HasLayer(repo, ref, "binary"),
           alive' \in BOOLEAN
    PROVE  OneInv'
  <1>1. NowInv'
    <2>1. CASE job = NoJob
      BY <2>1, NoJobIs DEF OneInv, NowInv, WaitInv, EndInv, OtherInv, OtherPlaces, Under, Single, OpenTask
    <2>2. CASE WaitInv(repo, task, job)
      <3>1. job.had \subseteq Apps /\ (job.kind # "uninstall" => job.new \in Apps)
        BY <2>2 DEF WaitInv, Under, Single, JobRecord
      <3>2. Under(repo', task, job)
        BY <2>2, <3>1 DEF WaitInv, Under, AllLive
      <3>3. WaitInv(repo', task, job)
        BY <2>2, <3>1, <3>2 DEF WaitInv, Brought, Under
      <3>4. WaitInv(repo', task', job')
        BY <3>3
      <3> QED
        BY <3>4 DEF NowInv
    <2>3. CASE OtherInv(repo, task, job) /\ Ahead(task, job, ahead)
      <3>1. {a \in Apps : Live(repo, a)} = {a \in Apps : Live(repo', a)}
        OBVIOUS
      <3>2. OtherInv(repo', task, job) /\ Ahead(task, job, ahead)
        BY <2>3, <3>1 DEF OtherInv
      <3>3. OtherInv(repo', task', job') /\ Ahead(task', job', ahead')
        BY <3>2
      <3> QED
        BY <3>3 DEF NowInv
    <2> QED
      BY <2>1, <2>2, <2>3 DEF OneInv, NowInv, EndInv
  <1>2. LineInv'
    BY DEF OneInv, LineInv
  <1> QED
    BY <1>1, <1>2 DEF OneInv, AskInv

(* Prune. *)
LEMMA PruneOne ==
    ASSUME OneInv, PruneStep
    PROVE  OneInv' /\ Launched
  <1>1. StoreInv(repo) /\ job.at # "ended"
    BY DEF OneInv, PruneStep, LoopTurning
  <1>2. ASSUME NEW gone, gone \subseteq Dependencies
        PROVE  LET s == RemoveRefs(repo, gone)
               IN  /\ StoreInv(s) /\ s.deleted = repo.deleted /\ s.entry = repo.entry
                   /\ s.layers = {x \in repo.layers : x[1] \notin gone}
    <2>1. PICK layers : layers = {x \in repo.layers : x[1] \notin gone}
      OBVIOUS
    <2>2. RemoveRefs(repo, gone) = [repo EXCEPT !.layers = layers]
      BY <2>1 DEF RemoveRefs
    <2>3. repo.deleted \subseteq layers
      BY <1>1, <1>2, <2>1, StoreIs, AppsApart
    <2>4. PICK s : s = [repo EXCEPT !.layers = layers]
      OBVIOUS
    <2>5. StoreInv(s) /\ s.deleted = repo.deleted /\ s.entry = repo.entry /\ s.layers = layers
      BY <1>1, <2>1, <2>3, <2>4 DEF StoreInv, OneRepo
    <2> QED
      BY <2>1, <2>2, <2>4, <2>5
  <1>3. PICK gone : gone \subseteq Dependencies /\ repo' = RemoveRefs(repo, gone)
    <2>1. Unused(repo) \subseteq Dependencies
      BY DEF Unused
    <2>2. CASE repo' = Prune(repo)
      <3>1. CASE Prune(repo) = repo
        <4>1. RemoveRefs(repo, {}) = repo
          <5>1. {x \in repo.layers : x[1] \notin {}} = repo.layers
            OBVIOUS
          <5> QED
            BY <1>1, <5>1 DEF RemoveRefs, StoreInv, OneRepo
        <4> QED
          BY <2>2, <3>1, <4>1
      <3>2. CASE Prune(repo) = mergeModules(RemoveRefs(repo, Unused(repo)))
        <4>1. PICK g : g = Unused(repo)
          OBVIOUS
        <4>2. PICK s : s = RemoveRefs(repo, g)
          OBVIOUS
        <4>3. StoreInv(s)
          BY <1>2, <2>1, <4>1, <4>2
        <4>4. mergeModules(s) = s
          BY <4>3, MergeSame
        <4> QED
          BY <2>1, <2>2, <3>2, <4>1, <4>2, <4>4
      <3> QED
        BY <3>1, <3>2 DEF Prune
    <2>3. CASE \E gone \in SUBSET Unused(repo) \ {Unused(repo)} : repo' = RemoveRefs(repo, gone)
      BY <2>1, <2>3
    <2> QED
      BY <2>2, <2>3 DEF PruneStep
  <1>4. /\ StoreInv(repo') /\ repo'.deleted = repo.deleted /\ repo'.entry = repo.entry
        /\ repo'.layers = {x \in repo.layers : x[1] \notin gone}
    BY <1>2, <1>3
  <1>5. \A a \in Apps : HasLayer(repo, a, "binary") => HasLayer(repo', a, "binary")
    BY <1>3, <1>4, AppsApart DEF HasLayer
  <1>6. \A a \in Apps : Live(repo, a) <=> Live(repo', a)
    BY <1>4, <1>5 DEF Live, HasLayer
  <1>7. \A ref : HasLayer(repo', ref, "binary") => HasLayer(repo, ref, "binary")
    BY <1>4 DEF HasLayer
  <1>8. Led(repo) => Led(repo')
    <2>1. repo.entry = NoDir \/ repo.entry.ref \in Apps
      BY <1>1, StoreIs DEF Entries, Dir
    <2> QED
      BY <1>4, <1>5, <2>1 DEF Led
  <1>9. UNCHANGED <<running, task, job, queue, lookup, alive, ahead>>
    BY DEF PruneStep
  <1>10. alive' \in BOOLEAN
    BY <1>9 DEF OneInv
  <1>11. OneInv'
    BY <1>1, <1>4, <1>6, <1>7, <1>9, <1>10, LayersGo
  <1> QED
    BY <1>8, <1>11 DEF Launched

(* The timer. *)
LEMMA TimerOne ==
    ASSUME OneInv, NEW stuck \in SUBSET repo.deleted, deferredUninstall(stuck)
    PROVE  OneInv' /\ Launched
  <1>1. StoreInv(repo) /\ job.at # "ended" /\ UNCHANGED <<running, task, job, queue, lookup, ahead>>
    BY DEF OneInv, deferredUninstall, LoopTurning
  <1>2. PICK gone : gone = {x \in repo.deleted : x[1] \in Uninstallable} \ stuck
    OBVIOUS
  <1>3. PICK hidden : hidden = {unexportReference(repo, ref).entry : ref \in Uninstallable}
    OBVIOUS
  <1>4. PICK entry : entry = IF NoDir \in hidden THEN NoDir ELSE repo.entry
    OBVIOUS
  <1>5. PICK k : k = [repo EXCEPT !.layers = @ \ gone, !.deleted = @ \ gone, !.entry = entry]
    OBVIOUS
  <1>6. PICK latest : latest = clearReferenceLocal(mergeModules(k), "app")
    OBVIOUS
  <1>7. repo' = exportReference(mergeModules(k), latest) /\ (latest # NoRef => alive') /\ alive' \in BOOLEAN
    <2>1. k = [repo EXCEPT !.layers = @ \ gone, !.deleted = @ \ gone,
                           !.entry = IF NoDir \in hidden THEN NoDir ELSE @]
      BY <1>4, <1>5
    <2> QED
      BY <1>2, <1>3, <1>6, <2>1 DEF deferredUninstall
  <1>8. StoreInv(k) /\ k.layers = repo.layers \ gone /\ k.deleted = repo.deleted \ gone /\ k.entry = entry
    <2>1. entry \in Entries
      BY <1>1, <1>4, StoreIs DEF Entries
    <2> QED
      BY <1>1, <1>5, <2>1 DEF StoreInv, OneRepo
  <1>9. mergeModules(k) = k
    BY <1>8, MergeSame
  <1>10. latest \in Apps \cup {NoRef} /\ (latest # NoRef => Live(k, latest))
    BY <1>6, <1>8, <1>9, LatestApp
  <1>11. PICK s : s = exportReference(k, latest)
    OBVIOUS
  <1>12. /\ StoreInv(s) /\ s.layers = k.layers /\ s.deleted = k.deleted
         /\ Led(k) \/ HasLayer(k, latest, "binary") => Led(s)
    BY <1>8, <1>10, <1>11, ExportStore
  <1>13. repo' = s
    BY <1>7, <1>9, <1>11
  <1>14. Led(repo) => Led(k)
    <2> SUFFICES ASSUME Led(repo), entry # NoDir PROVE HasLayer(k, entry.ref, "binary")
      BY <1>8 DEF Led
    <2>1. entry = repo.entry /\ NoDir \notin hidden
      BY <1>4
    <2>2. PICK a \in Apps : entry = Dir(a, {"binary"})
      BY <1>1, <2>1, StoreIs DEF Entries
    <2>3. entry.ref = a /\ HasLayer(repo, a, "binary")
      BY <2>1, <2>2 DEF Led, Dir
    <2>4. unexportReference(repo, a).entry = NoDir
      BY <1>1, <2>1, <2>2, <2>3, UnexportStore
    <2>5. a \notin Uninstallable
      BY <1>3, <2>1, <2>4
    <2>6. <<a, "binary">> \notin gone
      BY <1>2, <2>5
    <2> QED
      BY <1>8, <2>3, <2>6 DEF HasLayer
  <1>15. gone \subseteq repo.deleted
    BY <1>2
  <1>16. \A a \in Apps : Live(repo, a) <=> Live(repo', a)
    BY <1>8, <1>12, <1>13, <1>15 DEF Live
  <1>17. \A ref : HasLayer(repo', ref, "binary") => HasLayer(repo, ref, "binary")
    BY <1>8, <1>12, <1>13 DEF HasLayer
  <1>18. StoreInv(repo')
    BY <1>12, <1>13
  <1>19. OneInv'
    BY <1>1, <1>7, <1>16, <1>17, <1>18, LayersGo
  <1> QED
    BY <1>12, <1>13, <1>14, <1>19 DEF Launched

(* Applications start and stop. *)
LEMMA AppsOne ==
    ASSUME OneInv, \E ref \in Apps : StartApp(ref) \/ StopApp(ref)
    PROVE  OneInv' /\ Launched
  <1>1. job.at # "ended" /\ UNCHANGED <<repo, task, job, queue, lookup, alive, ahead>> /\ running' \subseteq Apps
    BY DEF StartApp, StopApp, OneInv
  <1>2. NowInv'
    BY <1>1 DEF OneInv, NowInv, EndInv
  <1>3. LineInv'
    BY <1>1 DEF OneInv, LineInv
  <1> QED
    BY <1>1, <1>2, <1>3 DEF OneInv, AskInv, Launched

(* The invariant holds at first. *)
LEMMA OneInit == Init => OneInv
  <1> SUFFICES ASSUME Init PROVE OneInv
    OBVIOUS
  <1>1. StoreInv(repo)
    BY DEF Init, EmptyRepo, StoreInv, OneRepo, Entries
  <1>2. LineInv
    <2>1. queue = <<>>
      BY DEF Init
    <2>2. queue \in Seq(JobRecord) /\ Len(queue) = 0
      BY <2>1
    <2> QED
      BY <2>2 DEF LineInv
  <1>3. NowInv
    BY DEF Init, NowInv, TemporaryTask, NewTask, States, SubStates
  <1> QED
    BY <1>1, <1>2, <1>3 DEF Init, OneInv, AskInv

(* Every step keeps it, and leaves the launcher as it should be. *)
LEMMA OneNext ==
    ASSUME OneModule
    PROVE  JobsInv /\ OneInv /\ [Next]_vars => OneInv' /\ (Launched \/ UNCHANGED vars)
  <1> SUFFICES ASSUME JobsInv, OneInv, [Next]_vars
               PROVE  OneInv' /\ (Launched \/ UNCHANGED vars)
    OBVIOUS
  <1>1. CASE StartJob
    BY <1>1, StartJobOne
  <1>2. CASE PullEnds
    BY <1>2, PullEndsOne
  <1>3. CASE FindEnds
    BY <1>3, FindEndsOne
  <1>4. CASE DependencyEnds
    BY <1>4, DependencyEndsOne
  <1>5. CASE RestoreEnds
    BY <1>5, RestoreEndsOne
  <1>6. CASE JobReturns
    BY <1>6, JobReturnsOne
  <1>7. CASE PruneStep
    BY <1>7, PruneOne
  <1>8. CASE \E stuck \in SUBSET repo.deleted : deferredUninstall(stuck)
    BY <1>8, TimerOne
  <1>9. CASE CancelTask \/ \E part \in Reports : Progress(part)
    BY <1>9, TaskOne
  <1>10. CASE \E ref \in Apps : StartApp(ref) \/ StopApp(ref)
    BY <1>10, AppsOne
  <1>11. CASE \/ \E kind \in Kinds : RequestRemote(kind)
              \/ \E new \in Apps, force \in Forces : RemoteAnswered(new, force)
              \/ \E ref \in Apps : RequestUninstall(ref)
              \/ \E kind \in Kinds, new \in Apps, mods \in UabModules, force \in Forces :
                    InstallFromFile(kind, new, mods, force)
    BY <1>11, RequestsOne
  <1>13. CASE OtherStep
    BY <1>13, OtherOne
  <1>12. CASE UNCHANGED vars
    BY <1>12 DEF vars, OneInv, AskInv, LineInv, NowInv, EndInv, ResultInv
  <1> QED
    BY <1>1, <1>2, <1>3, <1>4, <1>5, <1>6, <1>7, <1>8, <1>9, <1>10, <1>11, <1>12, <1>13 DEF Next, JobStep

(* The two invariants hold throughout. *)
LEMMA OneAlways ==
    ASSUME OneModule
    PROVE  Spec => [](JobsInv /\ OneInv)
  <1>1. Init => JobsInv /\ OneInv
    BY JobsInit, OneInit
  <1>2. JobsInv /\ OneInv /\ [Next]_vars => (JobsInv /\ OneInv)'
    BY JobsNext, OneNext
  <1> QED
    BY <1>1, <1>2, PTL DEF Spec

(* What the queue holds. *)
LEMMA LineShort ==
    ASSUME LineInv
    PROVE  queue \in Seq(JobRecord) /\ Len(queue) <= 2
  <1>1. queue \in Seq(JobRecord) /\ Len(queue) \in Nat
    BY DEF LineInv
  <1>2. \A i \in 1 .. Len(queue) : RefSpec(queue[i].kind) \in {"local", "remote"}
    BY DEF RefSpec
  <1>3. ASSUME Len(queue) >= 3 PROVE FALSE
    <2>1. 1 \in 1 .. Len(queue) /\ 2 \in 1 .. Len(queue) /\ 3 \in 1 .. Len(queue)
      BY <1>1, <1>3
    <2>2. /\ RefSpec(queue[1].kind) # RefSpec(queue[2].kind) /\ RefSpec(queue[2].kind) # RefSpec(queue[3].kind)
          /\ RefSpec(queue[1].kind) # RefSpec(queue[3].kind)
      BY <2>1 DEF LineInv
    <2> QED
      BY <1>2, <2>1, <2>2
  <1> QED
    BY <1>1, <1>3

(* Types. *)
LEMMA TypesOne ==
    ASSUME OneInv
    PROVE  TypeOK
  <1>1. RepoOK(repo)
    <2>1. StoreInv(repo)
      BY DEF OneInv
    <2>2. repo.layers \subseteq Layer /\ repo.deleted \subseteq Layer /\ repo.merged = {}
      BY <2>1 DEF StoreInv, OneRepo, Layer
    <2>3. repo.entry \in [ref : Apps \cup {NoRef}, mods : SUBSET {"binary", "develop"}]
      BY <2>1, StoreIs DEF Entries, Dir, NoDir
    <2>4. repo \in Repo
      <3>1. repo = [layers |-> repo.layers, deleted |-> repo.deleted, merged |-> repo.merged, entry |-> repo.entry]
        BY <2>1 DEF StoreInv, OneRepo
      <3> QED
        BY <2>2, <2>3, <3>1 DEF Repo
    <2> QED
      BY <2>1, <2>4 DEF RepoOK, StoreInv
  <1>2. task.state \in States /\ task.subState \in SubStates
    BY DEF OneInv, NowInv, WaitInv, Under, OtherInv, OpenTask, EndInv, isTaskDone, SubStates
  <1>3. job \in JobRecord /\ (job.at = "pull" => job.todo # <<>>)
    <2>1. CASE job = NoJob
      BY <2>1, NoJobIs
    <2>2. CASE WaitInv(repo, task, job)
      <3>1. job \in JobRecord /\ (job.at = "pull" => job.todo = <<"binary">>)
        BY <2>2 DEF WaitInv, Under, Single
      <3>2. <<"binary">> # <<>>
        OBVIOUS
      <3> QED
        BY <3>1, <3>2
    <2>3. CASE EndInv(repo, task, job)
      BY <2>3 DEF EndInv
    <2>4. CASE OtherInv(repo, task, job)
      BY <2>4 DEF OtherInv, OtherPlaces, Single
    <2> QED
      BY <2>1, <2>2, <2>3, <2>4 DEF OneInv, NowInv
  <1>4. lookup.old \in Apps \cup {NoRef}
    BY DEF OneInv, AskInv, NoLookup
  <1>5. queue \in Seq(JobRecord) /\ Len(queue) <= 2
    BY LineShort DEF OneInv
  <1> QED
    BY <1>1, <1>2, <1>3, <1>4, <1>5 DEF TypeOK, OneInv

(* The invariant says what the results are worth. *)
LEMMA ResultsOne ==
    ASSUME OneInv
    PROVE  ResultIsTrue /\ UpgradeKeepsAVersion
  <1>1. TypeOK
    BY TypesOne
  <1>2. StoreInv(repo)
    BY DEF OneInv
  <1>3. \A a : Installed(repo, a) <=> Live(repo, a)
    BY <1>2, InstalledIs
  <1>4. CASE job.at # "ended"
    BY <1>1, <1>4 DEF ResultIsTrue, InstallSucceeds, UpdateSucceeds, FailedInstallRolledBack,
                      UninstallRemovesEntries, EndedIsDone, UpgradeKeepsAVersion
  <1>5. CASE job.at = "ended"
    <2>1. EndInv(repo, task, job)
      BY <1>5, NoJobIs DEF OneInv, NowInv, WaitInv, OtherInv, OtherPlaces
    <2>2. ResultInv(repo, task, job) /\ isTaskDone(task.subState)
      BY <2>1 DEF EndInv
    <2>3. InstallSucceeds
      <3>1. repo.entry = Dir(job.new, {"binary"}) => repo.entry.ref = job.new
        BY DEF Dir
      <3> QED
        BY <1>3, <2>2, <3>1 DEF InstallSucceeds, ResultInv
    <2>4. UpdateSucceeds
      BY <1>3, <2>2 DEF UpdateSucceeds, ResultInv
    <2>5. FailedInstallRolledBack
      BY <1>3, <2>2 DEF FailedInstallRolledBack, ResultInv, Missing
    <2>6. UninstallRemovesEntries
      BY <2>2 DEF UninstallRemovesEntries, ResultInv
    <2>7. UpgradeKeepsAVersion
      BY <1>3, <2>2 DEF UpgradeKeepsAVersion, ResultInv, InstalledApps
    <2> QED
      BY <1>1, <2>2, <2>3, <2>4, <2>5, <2>6, <2>7 DEF ResultIsTrue, EndedIsDone
  <1> QED
    BY <1>4, <1>5

(* For packages with a binary module only, and any versions, requests,     *)
(* failures, cancellations and interleavings of jobs with Prune, the timer *)
(* and applications that start and stop: the result that a job reports is  *)
(* true of the repository it leaves.  An install that succeeds has left    *)
(* the version and, unless the previous one is in use, the launcher leads  *)
(* to it; one that fails was rolled back unless a dependency is missing;   *)
(* an upgrade that succeeds has installed the version; an uninstall has    *)
(* taken the links of what it removed; and no task ends without a result.  *)
THEOREM ResultsAreTrue ==
    ASSUME OneModule
    PROVE  Spec => []ResultIsTrue
  <1>1. JobsInv /\ OneInv => ResultIsTrue
    BY ResultsOne
  <1>2. Spec => [](JobsInv /\ OneInv)
    BY OneAlways
  <1> QED
    BY <1>1, <1>2, PTL

(* For packages with a binary module only: an install, an upgrade or the   *)
(* import of a file that began with a version installed leaves one, at     *)
(* whatever point it fails or is cancelled and whatever runs meanwhile.    *)
THEOREM AVersionIsKept ==
    ASSUME OneModule
    PROVE  Spec => []UpgradeKeepsAVersion
  <1>1. JobsInv /\ OneInv => UpgradeKeepsAVersion
    BY ResultsOne
  <1>2. Spec => [](JobsInv /\ OneInv)
    BY OneAlways
  <1> QED
    BY <1>1, <1>2, PTL

(* For packages with a binary module only: no step of a job, of Prune or   *)
(* of the timer leaves links of the launcher that lead to a layer that is  *)
(* not there, except the rollback of an install of the version the timer   *)
(* has exported meanwhile.                                                 *)
THEOREM LauncherIsKept ==
    ASSUME OneModule
    PROVE  Spec => LauncherKept
  <1>1. JobsInv /\ OneInv /\ [Next]_vars =>
          [EntryAlive(repo) =>
             \/ EntryAlive(repo')
             \/ job'.kind = "install" /\ task'.state = "Failed" /\ repo'.entry.ref = job'.new]_vars
    <2> SUFFICES ASSUME JobsInv, OneInv, [Next]_vars, EntryAlive(repo)
                 PROVE  \/ EntryAlive(repo')
                        \/ job'.kind = "install" /\ task'.state = "Failed" /\ repo'.entry.ref = job'.new
                        \/ UNCHANGED vars
      OBVIOUS
    <2>1. OneInv' /\ (Launched \/ UNCHANGED vars)
      BY OneNext
    <2>2. StoreInv(repo) /\ StoreInv(repo')
      BY <2>1 DEF OneInv
    <2>3. (EntryAlive(repo) <=> Led(repo)) /\ (EntryAlive(repo') <=> Led(repo'))
      BY <2>2, LedIs
    <2> QED
      BY <2>1, <2>3 DEF Launched
  <1>2. Spec => [](JobsInv /\ OneInv)
    BY OneAlways
  <1> QED
    BY <1>1, <1>2, PTL DEF Spec, LauncherKept
-----------------------------------------------------------------------------
(* The percentage a client reads, as long as no client cancels and the     *)
(* packages before the last do not fail: the steps of one package never    *)
(* add up to more than 100, and each package begins at 0.                  *)

IsTask(t) ==
    /\ {"state", "subState", "total", "stage", "parts", "refs", "cancelled"} \subseteq DOMAIN t
    /\ t.subState \in SubStates /\ t.total \in Nat /\ t.stage \in 0 .. Whole

(* The steps that weigh little. *)
Light == {"Unknown", "PreAction", "InstallBase", "InstallRuntime", "InstallApplication"}

(* The steps so far add up to n at most and none of them was the last. *)
Within(t, n) == IsTask(t) /\ t.subState \in Light /\ t.total <= n

Over(t) == IsTask(t) /\ isTaskDone(t.subState)

Zero(t) == IsTask(t) /\ t.total = 0

(* A package may begin: not every part is completed. *)
Idle(t) == Zero(t) /\ t.parts \in Nat /\ Len(t.refs) \in Nat /\ t.parts < Len(t.refs)

Fine(t) == IsTask(t) /\ getPercentage(t) <= 100 * Whole

WithBinary == {<<"binary">>, <<"binary", "develop">>}

(* Dependencies are pulled for a layer file, or with the binary module. *)
Needing(j) == j.kind = "layer" \/ j.todo \in WithBinary

(* How far a job may have got where it waits. *)
Paced(t, j) ==
    /\ j.at \in Places
    /\ j.at = "pull" => \/ j.todo \in WithBinary /\ Within(t, 30)
                        \/ j.todo = <<"develop">> /\ Within(t, 70)
    /\ j.at = "findRuntime" => Needing(j) /\ Within(t, 30)
    /\ j.at \in {"runtime", "findBase"} => Needing(j) /\ Within(t, 50)
    /\ j.at = "base" => Needing(j) /\ Within(t, 70)
    /\ j.at \in {"queued", "restore", "ended"} => Fine(t)
    /\ j.at = "other" => Within(t, 30)
    /\ j.at = "otherRuntime" => Within(t, 50)
    /\ j.at = "otherBase" => Within(t, 70)
    /\ j.at = "otherRestore" => Over(t) /\ Idle(t)

(* The packages that are ahead are parts of the task. *)
Going(t, j, n) ==
    j.at \in OtherPlaces => n \in Nat /\ t.parts \in Nat /\ Len(t.refs) \in Nat /\ Ahead(t, j, n)

OnPace == Paced(task, job) /\ Going(task, job, ahead)

(* A step is begun: its weight is added. *)
LEMMA StepWithin ==
    ASSUME NEW t, NEW n \in Nat, Within(t, n), NEW sub \in Light \ {"Unknown"}
    PROVE  /\ Within(updateSubState(t, sub), n + (IF sub = "PreAction" THEN 10 ELSE 20))
           /\ SameParts(t, updateSubState(t, sub))
  <1>1. sub \in SubStates /\ ~isTaskDone(sub)
    BY DEF Light, SubStates, isTaskDone
  <1>2. PICK k : k = m_subStateMap[sub]
    OBVIOUS
  <1>3. k = IF sub = "PreAction" THEN 10 ELSE 20
    BY <1>1, <1>2 DEF m_subStateMap, Light
  <1>4. PICK total : total = t.total + k
    OBVIOUS
  <1>5. total \in Nat /\ total <= n + k
    BY <1>3, <1>4 DEF Within, IsTask
  <1>6. updateSubState(t, sub) = [t EXCEPT !.subState = sub, !.total = total, !.stage = 0]
    BY <1>1, <1>2, <1>4 DEF updateSubState
  <1>7. PICK u : u = [t EXCEPT !.subState = sub, !.total = total, !.stage = 0]
    OBVIOUS
  <1>8. IsTask(u) /\ u.subState = sub /\ u.total = total /\ SameParts(t, u)
    BY <1>1, <1>5, <1>7 DEF Within, IsTask, Whole, SameParts
  <1> QED
    BY <1>3, <1>5, <1>6, <1>7, <1>8 DEF Within

(* The first step of a package. *)
LEMMA FirstStep ==
    ASSUME NEW t, Zero(t)
    PROVE  Within(updateSubState(t, "PreAction"), 10) /\ SameParts(t, updateSubState(t, "PreAction"))
  <1>1. "PreAction" \in SubStates /\ ~isTaskDone("PreAction")
    BY DEF SubStates, isTaskDone
  <1>2. m_subStateMap["PreAction"] = 10
    BY <1>1 DEF m_subStateMap
  <1>3. PICK u : u = [t EXCEPT !.subState = "PreAction", !.total = 10, !.stage = 0]
    OBVIOUS
  <1>4. updateSubState(t, "PreAction") = u
    BY <1>1, <1>2, <1>3 DEF updateSubState, Zero, IsTask
  <1>5. IsTask(u) /\ u.subState = "PreAction" /\ u.total = 10 /\ SameParts(t, u)
    BY <1>1, <1>3 DEF Zero, IsTask, Whole, SameParts
  <1> QED
    BY <1>4, <1>5 DEF Within, Light

(* The last step of an install weighs no more than is left. *)
LEMMA PostActionFine ==
    ASSUME NEW t, Within(t, 70)
    PROVE  Fine(updateSubState(t, "PostAction"))
  <1>1. "PostAction" \in SubStates /\ ~isTaskDone("PostAction")
    BY DEF SubStates, isTaskDone
  <1>2. m_subStateMap["PostAction"] = 5
    BY <1>1 DEF m_subStateMap
  <1>3. PICK total : total = t.total + 5
    OBVIOUS
  <1>4. total \in Nat /\ total <= 75
    BY <1>3 DEF Within, IsTask
  <1>5. PICK u : u = [t EXCEPT !.subState = "PostAction", !.total = total, !.stage = 0]
    OBVIOUS
  <1>6. updateSubState(t, "PostAction") = u
    BY <1>1, <1>2, <1>3, <1>5 DEF updateSubState
  <1>7. IsTask(u) /\ u.subState = "PostAction" /\ u.total = total /\ u.stage = 0
    BY <1>1, <1>4, <1>5 DEF Within, IsTask, Whole
  <1>8. getPercentage(u) <= 200
    BY <1>1, <1>2, <1>4, <1>7 DEF getPercentage, Whole
  <1> QED
    BY <1>6, <1>7, <1>8 DEF Fine, Whole

(* A task that is done is at 100 percent. *)
LEMMA OverFine ==
    ASSUME NEW t, Over(t)
    PROVE  Fine(t)
  BY DEF Over, Fine, getPercentage, Whole

(* The steps before the last leave room. *)
LEMMA WithinFine ==
    ASSUME NEW t, Within(t, 70)
    PROVE  Fine(t)
  <1>1. PICK k : k = m_subStateMap[t.subState]
    OBVIOUS
  <1>2. k \in {0, 10, 20}
    BY <1>1 DEF m_subStateMap, Within, Light, SubStates
  <1>3. IsTask(t) /\ t.total \in Nat /\ t.total <= 70 /\ t.stage \in {0, 1, 2}
    BY DEF Within, IsTask, Whole
  <1>4. ~isTaskDone(t.subState)
    BY DEF Within, Light, isTaskDone
  <1>5. getPercentage(t) = t.total * 2 + t.stage * k
    BY <1>1, <1>4 DEF getPercentage, Whole
  <1>6. t.stage * k \in Nat /\ t.stage * k <= 40
    BY <1>2, <1>3
  <1>7. getPercentage(t) <= 200
    <2>1. PICK s : s = t.stage * k
      OBVIOUS
    <2> QED
      BY <1>3, <1>5, <1>6, <2>1
  <1> QED
    BY <1>3, <1>7 DEF Fine, Whole

(* A budget that is kept keeps a larger one. *)
LEMMA WithinMore ==
    ASSUME NEW t, NEW n \in Nat, NEW m \in Nat, n <= m, Within(t, n)
    PROVE  Within(t, m)
  BY DEF Within, IsTask

(* A task is given a state that ends it, or an error is reported. *)
LEMMA StateOver ==
    ASSUME NEW t, IsTask(t), NEW state \in {"Succeed", "Failed"}
    PROVE  Over(updateState(t, state)) /\ Over(reportError(t))
  <1>1. PICK s : s = [t EXCEPT !.state = state]
    OBVIOUS
  <1>2. IsTask(s) /\ s.state = state
    BY <1>1 DEF IsTask, States
  <1>3. PICK u : u = IF s.parts = Len(s.refs) THEN [s EXCEPT !.state = "Succeed"] ELSE s
    OBVIOUS
  <1>4. IsTask(u) /\ u.state \in {"Succeed", "Failed"}
    BY <1>2, <1>3 DEF IsTask, States
  <1>5. updateState(t, state) = updateSubState(u, "AllDone")
    BY <1>1, <1>3, <1>4 DEF updateState, updateStateTo
  <1>6. PICK v : v = [u EXCEPT !.subState = "AllDone", !.total = 100]
    OBVIOUS
  <1>7. updateSubState(u, "AllDone") = v
    BY <1>6 DEF updateSubState, isTaskDone, TASK_DONE
  <1>8. Over(v)
    BY <1>4, <1>6 DEF Over, IsTask, isTaskDone, SubStates
  <1>9. Over(reportError(t))
    BY DEF Over, reportError, IsTask, isTaskDone, SubStates, States, TASK_DONE, Whole
  <1> QED
    BY <1>5, <1>7, <1>8, <1>9

(* The one package of an update has been upgraded. *)
LEMMA UpdatedOver ==
    ASSUME NEW t, IsTask(t)
    PROVE  Over(setSubState(updateState(t, "PartCompleted"), "PackageManagerDone"))
  <1>1. PICK s : s = [t EXCEPT !.state = "PartCompleted", !.parts = @ + 1, !.total = 0, !.stage = 0]
    OBVIOUS
  <1>2. IsTask(s) /\ s.state = "PartCompleted"
    BY <1>1 DEF IsTask, States, Whole
  <1>3. PICK u : u = IF s.parts = Len(s.refs) THEN [s EXCEPT !.state = "Succeed"] ELSE s
    OBVIOUS
  <1>4. IsTask(u)
    BY <1>2, <1>3 DEF IsTask, States
  <1>5. PICK v : v = updateSubState(u, "AllDone")
    OBVIOUS
  <1>6. IsTask(v)
    BY <1>4, <1>5 DEF updateSubState, isTaskDone, TASK_DONE, IsTask, SubStates
  <1>7. updateState(t, "PartCompleted") = u \/ updateState(t, "PartCompleted") = v
    BY <1>1, <1>2, <1>3, <1>5 DEF updateState, updateStateTo
  <1>8. ASSUME NEW x, IsTask(x)
        PROVE  Over(setSubState(x, "PackageManagerDone"))
    <2>1. PICK y : y = [x EXCEPT !.subState = "PackageManagerDone"]
      OBVIOUS
    <2>2. IsTask(y) /\ y.subState = "PackageManagerDone"
      BY <1>8, <2>1 DEF IsTask, SubStates
    <2> QED
      BY <2>1, <2>2 DEF Over, setSubState, isTaskDone
  <1> QED
    BY <1>4, <1>6, <1>7, <1>8

(* Another package of an update has been upgraded: the next begins at 0. *)
LEMMA UpdatedIdle ==
    ASSUME NEW t, IsTask(t), t.parts \in Nat, Len(t.refs) \in Nat, t.parts + 1 < Len(t.refs)
    PROVE  LET d == setSubState(updateState(t, "PartCompleted"), "PackageManagerDone")
           IN  Over(d) /\ Idle(d) /\ d.parts = t.parts + 1 /\ d.refs = t.refs
  <1>1. PICK s : s = [t EXCEPT !.state = "PartCompleted", !.parts = @ + 1, !.total = 0, !.stage = 0]
    OBVIOUS
  <1>2. /\ IsTask(s) /\ s.state = "PartCompleted" /\ s.total = 0
        /\ s.parts = t.parts + 1 /\ s.refs = t.refs
    BY <1>1 DEF IsTask, States, Whole
  <1>3. s.parts # Len(s.refs)
    BY <1>2
  <1>4. updateState(t, "PartCompleted") = s
    BY <1>1, <1>2, <1>3 DEF updateState, updateStateTo
  <1>5. PICK d : d = [s EXCEPT !.subState = "PackageManagerDone"]
    OBVIOUS
  <1>6. /\ IsTask(d) /\ d.total = 0 /\ d.subState = "PackageManagerDone"
        /\ d.parts = t.parts + 1 /\ d.refs = t.refs
    BY <1>2, <1>5 DEF IsTask, SubStates
  <1>7. Over(d) /\ Idle(d)
    BY <1>6 DEF Over, Idle, Zero, isTaskDone
  <1> QED
    BY <1>4, <1>5, <1>6, <1>7 DEF setSubState

(* A task with parts to complete is processed. *)
LEMMA StateIdle ==
    ASSUME NEW t, Idle(t)
    PROVE  LET u == updateState(t, "Processing") IN Idle(u) /\ SameParts(t, u)
  <1>1. PICK s : s = [t EXCEPT !.state = "Processing"]
    OBVIOUS
  <1>2. Idle(s) /\ s.state = "Processing" /\ SameParts(t, s)
    BY <1>1 DEF Idle, Zero, IsTask, SameParts
  <1>3. s.parts # Len(s.refs)
    BY <1>2 DEF Idle
  <1>4. updateState(t, "Processing") = s
    BY <1>1, <1>2, <1>3 DEF updateState, updateStateTo
  <1> QED
    BY <1>2, <1>4

(* A job that goes on from c. *)
Holds(c) == Rec(c) /\ JobFields \subseteq DOMAIN c.job

PacedPiece(d) == Paced(d.task, d.job) /\ d.job.at \notin OtherPlaces

(* The task is done, or its steps add up to n at most. *)
Spent(t, n) == Over(t) \/ Within(t, n)

(* Setting the repository, or what the job notes, leaves the task. *)
LEMMA HoldsSet ==
    ASSUME NEW c, Holds(c), NEW v
    PROVE  /\ \A d : d = [c EXCEPT !.repo = v] => Holds(d) /\ d.task = c.task /\ d.job = c.job
           /\ \A d : d = [c EXCEPT !.task = v] => Holds(d) /\ d.task = v /\ d.job = c.job
           /\ \A d : d = [c EXCEPT !.job.todo = v] =>
                 Holds(d) /\ d.task = c.task /\ d.job.todo = v /\ d.job.kind = c.job.kind
           /\ \A d : d = [c EXCEPT !.job.mods = v] =>
                 Holds(d) /\ d.task = c.task /\ d.job.todo = c.job.todo /\ d.job.kind = c.job.kind
           /\ \A d : d = [c EXCEPT !.job.pulled = v] =>
                 Holds(d) /\ d.task = c.task /\ d.job.todo = c.job.todo /\ d.job.kind = c.job.kind
           /\ \A d : d = [c EXCEPT !.job.runtimePulled = v] =>
                 Holds(d) /\ d.task = c.task /\ d.job.todo = c.job.todo /\ d.job.kind = c.job.kind
  BY DEF Holds, Rec, JobFields

(* The job waits somewhere else. *)
LEMMA GoesTo ==
    ASSUME NEW c, Holds(c), NEW at
    PROVE  /\ Goto(c, at).task = c.task /\ Goto(c, at).job.at = at
           /\ Goto(c, at).job.todo = c.job.todo /\ Goto(c, at).job.kind = c.job.kind
  BY DEF Holds, Rec, JobFields, Goto

(* The job ends, or waits for a module that was removed. *)
LEMMA EndPaced ==
    ASSUME NEW c, Holds(c), Fine(c.task)
    PROVE  PacedPiece(End(c)) /\ PacedPiece(Goto(c, "restore"))
  <1>1. ASSUME NEW at \in {"ended", "restore"}
        PROVE  PacedPiece(Goto(c, at))
    <2>1. PICK d : d = Goto(c, at)
      OBVIOUS
    <2>2. d.task = c.task /\ d.job.at = at
      BY <2>1, GoesTo
    <2>3. Paced(d.task, d.job)
      BY <2>2 DEF Paced, OtherPlaces, Places
    <2> QED
      BY <2>1, <2>2, <2>3 DEF PacedPiece, OtherPlaces
  <1> QED
    BY <1>1 DEF End

(* What the callers of removeAfterInstall do with its result. *)
LEMMA AfterRemovePaced ==
    ASSUME NEW c, Holds(c), Fine(c.task), NEW ok \in BOOLEAN
    PROVE  PacedPiece(AfterRemove(c, ok))
  <1>1. IsTask(c.task)
    BY DEF Fine
  <1>2. PICK s : s = updateState(c.task, "Succeed")
    OBVIOUS
  <1>3. PICK f : f = updateState(c.task, "Failed")
    OBVIOUS
  <1>4. Fine(s) /\ Fine(f)
    BY <1>1, <1>2, <1>3, StateOver, OverFine
  <1>5. PICK d : d = [c EXCEPT !.task = s]
    OBVIOUS
  <1>6. PICK e : e = [c EXCEPT !.task = f]
    OBVIOUS
  <1>7. PICK g : g = RollBackInstall(e)
    OBVIOUS
  <1>8. Holds(d) /\ d.task = s /\ Holds(e) /\ e.task = f
    BY <1>5, <1>6, HoldsSet
  <1>9. Holds(g) /\ g.task = f
    <2>1. PICK r : r = remove(e.repo, e.job.new, ModuleSet(e.job.mods))
      OBVIOUS
    <2>2. g = [e EXCEPT !.repo = r]
      BY <1>7, <2>1, Zenon DEF RollBackInstall
    <2> QED
      BY <1>8, <2>2, HoldsSet
  <1>10. AfterRemove(c, ok) = End(d) \/ AfterRemove(c, ok) = End(g) \/ AfterRemove(c, ok) = End(c)
    BY <1>2, <1>3, <1>5, <1>6, <1>7 DEF AfterRemove
  <1> QED
    BY <1>4, <1>8, <1>9, <1>10, EndPaced

(* The old version is removed, marked or left. *)
LEMMA RemoveAfterPaced ==
    ASSUME NEW c, Holds(c), Fine(c.task), NEW w, w.busy \in Busy, NEW mods
    PROVE  PacedPiece(removeAfterInstall(c, w, mods))
  <1>1. ASSUME NEW r, NEW ok \in BOOLEAN
        PROVE  /\ PacedPiece(AfterRemove([c EXCEPT !.repo = r], ok))
               /\ PacedPiece(Goto([c EXCEPT !.repo = r], "restore"))
    <2>1. PICK d : d = [c EXCEPT !.repo = r]
      OBVIOUS
    <2>2. Holds(d) /\ Fine(d.task)
      BY <2>1, HoldsSet
    <2>3. PacedPiece(AfterRemove(d, ok)) /\ PacedPiece(Goto(d, "restore"))
      BY <2>2, AfterRemovePaced, EndPaced
    <2> QED
      BY <2>1, <2>3
  <1>2. PacedPiece(AfterRemove(c, FALSE))
    BY AfterRemovePaced
  <1>3. \/ removeAfterInstall(c, w, mods) = AfterRemove(c, FALSE)
        \/ \E r : \/ \E ok \in BOOLEAN : removeAfterInstall(c, w, mods) = AfterRemove([c EXCEPT !.repo = r], ok)
                  \/ removeAfterInstall(c, w, mods) = Goto([c EXCEPT !.repo = r], "restore")
    BY Zenon DEF removeAfterInstall, RemovalPlan
  <1> QED
    BY <1>1, <1>2, <1>3

(* Install after InstallRef. *)
LEMMA FinishInstallPaced ==
    ASSUME NEW c, Holds(c), Within(c.task, 70), NEW w, w.busy \in Busy
    PROVE  PacedPiece(FinishInstall(c, w))
  <1>1. PICK t : t = updateSubState(c.task, "PostAction")
    OBVIOUS
  <1>2. PICK r : r = mergeModules(c.repo)
    OBVIOUS
  <1>3. PICK d : d = [c EXCEPT !.task = t, !.repo = r]
    OBVIOUS
  <1>4. Fine(t) /\ IsTask(t)
    BY <1>1, PostActionFine DEF Fine
  <1>5. Holds(d) /\ d.task = t
    BY <1>3 DEF Holds, Rec
  <1>6. PICK e : e = [d EXCEPT !.task = reportError(t)]
    OBVIOUS
  <1>7. PICK f : f = [d EXCEPT !.repo = exportReference(@, d.job.new)]
    OBVIOUS
  <1>8. PICK g : g = RollBackInstall(e)
    OBVIOUS
  <1>9. FinishInstall(c, w) \in {End(g), AfterRemove(f, TRUE),
                                 removeAfterInstall(d, w, getModuleList(d.repo, d.job.old))}
    <2>1. e = [d EXCEPT !.task = reportError(@)]
      BY <1>5, <1>6 DEF Holds, Rec
    <2> QED
      BY <1>1, <1>2, <1>3, <1>7, <1>8, <2>1, Zenon DEF FinishInstall
  <1>10. Holds(f) /\ f.task = t
    <2>1. PICK x : x = exportReference(d.repo, d.job.new)
      OBVIOUS
    <2>2. f = [d EXCEPT !.repo = x]
      BY <1>7, <2>1
    <2> QED
      BY <1>5, <2>2, HoldsSet
  <1>11. Holds(g) /\ Fine(g.task)
    <2>1. PICK u : u = reportError(t)
      OBVIOUS
    <2>2. Fine(u)
      BY <1>4, <2>1, StateOver, OverFine
    <2>3. Holds(e) /\ e.task = u
      BY <1>5, <1>6, <2>1, HoldsSet
    <2>4. PICK x : x = remove(e.repo, e.job.new, ModuleSet(e.job.mods))
      OBVIOUS
    <2>5. g = [e EXCEPT !.repo = x]
      BY <1>8, <2>4, Zenon DEF RollBackInstall
    <2> QED
      BY <2>2, <2>3, <2>5, HoldsSet
  <1>12. PacedPiece(End(g))
    BY <1>11, EndPaced
  <1>13. PacedPiece(AfterRemove(f, TRUE))
    BY <1>4, <1>10, AfterRemovePaced
  <1>14. PacedPiece(removeAfterInstall(d, w, getModuleList(d.repo, d.job.old)))
    BY <1>4, <1>5, RemoveAfterPaced
  <1> QED
    BY <1>9, <1>12, <1>13, <1>14

(* Update after InstallRef. *)
LEMMA FinishUpdatePaced ==
    ASSUME NEW c, Holds(c), IsTask(c.task), NEW w, w.busy \in Busy
    PROVE  PacedPiece(FinishUpdate(c, w))
  <1>1. PICK t : t = setSubState(updateState(c.task, "PartCompleted"), "PackageManagerDone")
    OBVIOUS
  <1>2. PICK d : d = [c EXCEPT !.task = t]
    OBVIOUS
  <1>3. Fine(t)
    BY <1>1, UpdatedOver, OverFine
  <1>4. Holds(d) /\ d.task = t
    BY <1>2, HoldsSet
  <1>5. FinishUpdate(c, w) \in {End(d), removeAfterInstall(d, w, d.job.mods)}
    BY <1>1, <1>2 DEF FinishUpdate
  <1> QED
    BY <1>3, <1>4, <1>5, EndPaced, RemoveAfterPaced

(* A task whose steps have not all been taken is not done. *)
LEMMA WithinOpen ==
    ASSUME NEW t, NEW n, Within(t, n)
    PROVE  IsTask(t) /\ ~isTaskDone(t.subState)
  BY DEF Within, Light, isTaskDone

(* The caller of InstallRef goes on. *)
LEMMA InstallRefPaced ==
    ASSUME NEW c, Holds(c), Spent(c.task, 70), NEW w, w.busy \in Busy
    PROVE  PacedPiece(InstallRefReturned(c, w))
  <1>1. CASE Over(c.task)
    <2>1. InstallRefReturned(c, w) = End(c)
      BY <1>1 DEF InstallRefReturned, Done, Over
    <2> QED
      BY <1>1, <2>1, OverFine, EndPaced
  <1>2. CASE Within(c.task, 70)
    <2>1. IsTask(c.task) /\ ~Done(c)
      BY <1>2, WithinOpen DEF Done
    <2>2. InstallRefReturned(c, w) \in {FinishInstall(c, w), FinishUpdate(c, w)}
      BY <2>1 DEF InstallRefReturned
    <2> QED
      BY <1>2, <2>1, <2>2, FinishInstallPaced, FinishUpdatePaced
  <1> QED
    BY <1>1, <1>2 DEF Spent

(* What was pulled is undone. *)
LEMMA UndoPaced ==
    ASSUME NEW c, Holds(c), Over(c.task)
    PROVE  PacedPiece(End(UndoInstallRef(c)))
  <1>1. PICK r : r = markDeleted(remove(c.repo, c.job.new, c.job.pulled), c.job.new, c.job.undeleted, TRUE)
    OBVIOUS
  <1>2. PICK d : d = [c EXCEPT !.repo = r]
    OBVIOUS
  <1>3. UndoInstallRef(c) = d
    BY <1>1, <1>2, Zenon DEF UndoInstallRef
  <1>4. Holds(d) /\ Fine(d.task)
    BY <1>2, HoldsSet, OverFine
  <1> QED
    BY <1>3, <1>4, EndPaced

(* The next module is pulled, if one is left. *)
LEMMA NextModulePaced ==
    ASSUME NEW c, Holds(c), NEW w, w.busy \in Busy,
           \/ c.job.todo \in {<<>>, <<"develop">>} /\ Spent(c.task, 70)
           \/ c.job.todo \in WithBinary /\ Spent(c.task, 30)
    PROVE  PacedPiece(NextModule(c, w))
  <1>1. Spent(c.task, 70)
    BY WithinMore DEF Spent
  <1>2. CASE c.job.todo = <<>>
    <2>1. NextModule(c, w) = InstallRefReturned(c, w)
      BY <1>2 DEF NextModule
    <2> QED
      BY <1>1, <2>1, InstallRefPaced
  <1>3. CASE c.job.todo # <<>> /\ Over(c.task)
    <2>1. NextModule(c, w) = End(UndoInstallRef(c))
      BY <1>3 DEF NextModule, Done, Over
    <2> QED
      BY <1>3, <2>1, UndoPaced
  <1>4. CASE c.job.todo # <<>> /\ Within(c.task, 70)
    <2>1. PICK d : d = Goto(c, "pull")
      OBVIOUS
    <2>2. ~Done(c)
      BY <1>4, WithinOpen DEF Done
    <2>3. NextModule(c, w) = d
      BY <1>4, <2>1, <2>2 DEF NextModule
    <2>4. d.task = c.task /\ d.job.at = "pull" /\ d.job.todo = c.job.todo
      BY <2>1, GoesTo
    <2>5. ~Over(c.task)
      BY <2>2 DEF Over, Done
    <2>6. \/ d.job.todo \in WithBinary /\ Within(d.task, 30)
          \/ d.job.todo = <<"develop">> /\ Within(d.task, 70)
      BY <1>4, <2>4, <2>5 DEF Spent
    <2>7. Paced(d.task, d.job)
      BY <2>4, <2>6 DEF Paced, OtherPlaces, Places
    <2> QED
      BY <2>3, <2>4, <2>7 DEF PacedPiece, OtherPlaces
  <1> QED
    BY <1>1, <1>2, <1>3, <1>4 DEF Spent

(* installFromLayer after its dependencies. *)
LEMMA ImportLayerPaced ==
    ASSUME NEW c, Holds(c), Spent(c.task, 70), NEW w, w.busy \in Busy
    PROVE  PacedPiece(ImportLayer(c, w))
  <1>1. Fine(c.task) /\ IsTask(c.task)
    BY OverFine, WithinFine DEF Spent, Over, Within
  <1>2. PICK t : t = updateState(c.task, "Succeed")
    OBVIOUS
  <1>3. PICK u : u = reportError(c.task)
    OBVIOUS
  <1>4. Fine(t) /\ Fine(u)
    BY <1>1, <1>2, <1>3, StateOver, OverFine
  <1>5. PICK r : r = AddLayer(c.repo, c.job.new, "binary")
    OBVIOUS
  <1>6. PICK d : d = [c EXCEPT !.repo = r, !.task = t]
    OBVIOUS
  <1>7. PICK e : e = [c EXCEPT !.task = u]
    OBVIOUS
  <1>8. PICK f : f = [d EXCEPT !.repo = exportReference(@, c.job.new)]
    OBVIOUS
  <1>9. ImportLayer(c, w) \in {End(c), End(e), End(f), End(d), removeAfterInstall(d, w, <<"binary">>)}
    BY <1>2, <1>3, <1>5, <1>6, <1>7, <1>8, Zenon DEF ImportLayer
  <1>10. Holds(d) /\ d.task = t /\ Holds(e) /\ e.task = u
    <2>1. Holds(d) /\ d.task = t
      BY <1>6 DEF Holds, Rec
    <2> QED
      BY <1>7, <2>1, HoldsSet
  <1>11. Holds(f) /\ f.task = t
    <2>1. PICK x : x = exportReference(d.repo, c.job.new)
      OBVIOUS
    <2>2. f = [d EXCEPT !.repo = x]
      BY <1>8, <2>1
    <2> QED
      BY <1>10, <2>2, HoldsSet
  <1>12. PacedPiece(End(c)) /\ PacedPiece(End(d)) /\ PacedPiece(End(e)) /\ PacedPiece(End(f))
    BY <1>1, <1>4, <1>10, <1>11, EndPaced
  <1>13. PacedPiece(removeAfterInstall(d, w, <<"binary">>))
    <2>1. PICK one : one = <<"binary">>
      OBVIOUS
    <2>2. PacedPiece(removeAfterInstall(d, w, one))
      BY <1>4, <1>10, RemoveAfterPaced
    <2> QED
      BY <2>1, <2>2
  <1> QED
    BY <1>9, <1>12, <1>13

(* The modules that are left once the binary one has come. *)
LEMMA TailWithBinary ==
    ASSUME NEW todo \in WithBinary
    PROVE  Tail(todo) \in {<<>>, <<"develop">>} /\ Head(todo) = "binary"
  <1>1. Tail(<<"binary">>) = <<>> /\ Head(<<"binary">>) = "binary"
    OBVIOUS
  <1>2. Tail(<<"binary", "develop">>) = <<"develop">> /\ Head(<<"binary", "develop">>) = "binary"
    OBVIOUS
  <1> QED
    BY <1>1, <1>2, Zenon DEF WithBinary

(* The callers of pullDependency go on, whatever it did. *)
LEMMA DependencyReturnedPaced ==
    ASSUME NEW c, Holds(c), Needing(c.job), Spent(c.task, 70), NEW w, w.busy \in Busy
    PROVE  PacedPiece(DependencyReturned(c, w))
  <1>1. CASE c.job.kind = "layer"
    <2>1. DependencyReturned(c, w) = ImportLayer(c, w)
      BY <1>1 DEF DependencyReturned
    <2> QED
      BY <2>1, ImportLayerPaced
  <1>2. CASE c.job.kind # "layer"
    <2>1. PICK todo : todo = Tail(c.job.todo)
      OBVIOUS
    <2>2. todo \in {<<>>, <<"develop">>}
      BY <1>2, <2>1, TailWithBinary, Zenon DEF Needing
    <2>3. PICK d : d = [c EXCEPT !.job.todo = todo]
      OBVIOUS
    <2>4. DependencyReturned(c, w) = NextModule(d, w)
      BY <1>2, <2>1, <2>3 DEF DependencyReturned
    <2>5. Holds(d) /\ d.task = c.task /\ d.job.todo = todo
      BY <2>3, HoldsSet
    <2> QED
      BY <2>2, <2>4, <2>5, NextModulePaced
  <1> QED
    BY <1>1, <1>2

(* A dependency cannot be had. *)
LEMMA DependencyFailedPaced ==
    ASSUME NEW c, Holds(c), Needing(c.job), Spent(c.task, 70), NEW w, w.busy \in Busy
    PROVE  PacedPiece(DependencyFailed(c, w))
  <1>1. PICK r : r = remove(c.repo, Runtime, {"binary"})
    OBVIOUS
  <1>2. PICK d : d = [c EXCEPT !.repo = r]
    OBVIOUS
  <1>3. DependencyFailed(c, w) \in {DependencyReturned(d, w), DependencyReturned(c, w)}
    BY <1>1, <1>2, Zenon DEF DependencyFailed
  <1>4. Holds(d) /\ d.task = c.task /\ d.job = c.job
    BY <1>2, HoldsSet
  <1> QED
    BY <1>3, <1>4, DependencyReturnedPaced

(* The job waits for a dependency. *)
LEMMA WaitPaced ==
    ASSUME NEW c, Holds(c), Needing(c.job)
    PROVE  /\ Within(c.task, 30) => PacedPiece(Goto(c, "findRuntime"))
           /\ Within(c.task, 50) => PacedPiece(Goto(c, "runtime")) /\ PacedPiece(Goto(c, "findBase"))
           /\ Within(c.task, 70) => PacedPiece(Goto(c, "base"))
  <1>1. ASSUME NEW at, NEW d, d = Goto(c, at)
        PROVE  d.task = c.task /\ d.job.at = at /\ Needing(d.job)
    BY <1>1, GoesTo DEF Needing
  <1>2. ASSUME Within(c.task, 30)
        PROVE  PacedPiece(Goto(c, "findRuntime"))
    <2>1. PICK d : d = Goto(c, "findRuntime")
      OBVIOUS
    <2>2. d.task = c.task /\ d.job.at = "findRuntime" /\ Needing(d.job)
      BY <1>1, <2>1
    <2>3. Paced(d.task, d.job)
      BY <1>2, <2>2 DEF Paced, OtherPlaces, Places
    <2> QED
      BY <2>1, <2>2, <2>3 DEF PacedPiece, OtherPlaces
  <1>3. ASSUME Within(c.task, 50), NEW at \in {"runtime", "findBase"}
        PROVE  PacedPiece(Goto(c, at))
    <2>1. PICK d : d = Goto(c, at)
      OBVIOUS
    <2>2. d.task = c.task /\ d.job.at = at /\ Needing(d.job)
      BY <1>1, <2>1
    <2>3. Paced(d.task, d.job)
      BY <1>3, <2>2 DEF Paced, OtherPlaces, Places
    <2> QED
      BY <2>1, <2>2, <2>3 DEF PacedPiece, OtherPlaces
  <1>4. ASSUME Within(c.task, 70)
        PROVE  PacedPiece(Goto(c, "base"))
    <2>1. PICK d : d = Goto(c, "base")
      OBVIOUS
    <2>2. d.task = c.task /\ d.job.at = "base" /\ Needing(d.job)
      BY <1>1, <2>1
    <2>3. Paced(d.task, d.job)
      BY <1>4, <2>2 DEF Paced, OtherPlaces, Places
    <2> QED
      BY <2>1, <2>2, <2>3 DEF PacedPiece, OtherPlaces
  <1> QED
    BY <1>2, <1>3, <1>4

(* The base is known. *)
LEMMA BaseFoundPaced ==
    ASSUME NEW c, Holds(c), Needing(c.job), Within(c.task, 50), NEW w, w.busy \in Busy
    PROVE  PacedPiece(BaseFound(c, w)) /\ PacedPiece(FindBase(c, w))
  <1>1. PICK t : t = updateSubState(c.task, "InstallBase")
    OBVIOUS
  <1>2. Within(t, 70)
    <2>1. Within(t, 50 + 20)
      BY <1>1, StepWithin DEF Light
    <2> QED
      BY <2>1, WithinMore
  <1>3. PICK d : d = [c EXCEPT !.task = t]
    OBVIOUS
  <1>4. Holds(d) /\ d.task = t /\ Needing(d.job)
    BY <1>3, HoldsSet
  <1>5. BaseFound(c, w) \in {DependencyReturned(d, w), Goto(d, "base")}
    BY <1>1, <1>3, Zenon DEF BaseFound
  <1>6. PacedPiece(BaseFound(c, w))
    BY <1>2, <1>4, <1>5, DependencyReturnedPaced, WaitPaced DEF Spent
  <1>7. FindBase(c, w) \in {Goto(c, "findBase"), BaseFound(c, w)}
    BY Zenon DEF FindBase
  <1> QED
    BY <1>6, <1>7, WaitPaced

(* The runtime is known, or has to be looked for. *)
LEMMA RuntimeFoundPaced ==
    ASSUME NEW c, Holds(c), Needing(c.job), Within(c.task, 30), NEW w, w.busy \in Busy
    PROVE  PacedPiece(RuntimeFound(c, w)) /\ PacedPiece(pullDependency(c, w))
  <1>1. PICK t : t = updateSubState(c.task, "InstallRuntime")
    OBVIOUS
  <1>2. Within(t, 50)
    <2>1. Within(t, 30 + 20)
      BY <1>1, StepWithin DEF Light
    <2> QED
      BY <2>1, WithinMore
  <1>3. PICK d : d = [c EXCEPT !.task = t]
    OBVIOUS
  <1>4. Holds(d) /\ d.task = t /\ Needing(d.job)
    BY <1>3, HoldsSet
  <1>5. RuntimeFound(c, w) \in {FindBase(d, w), Goto(d, "runtime")}
    BY <1>1, <1>3, Zenon DEF RuntimeFound
  <1>6. PacedPiece(RuntimeFound(c, w))
    BY <1>2, <1>4, <1>5, BaseFoundPaced, WaitPaced
  <1>7. pullDependency(c, w) \in {Goto(c, "findRuntime"), RuntimeFound(c, w)}
    BY Zenon DEF pullDependency
  <1> QED
    BY <1>6, <1>7, WaitPaced

(* InstallRef. *)
LEMMA InstallPaced ==
    ASSUME NEW c, Holds(c), Zero(c.task), NEW w, w.busy \in Busy
    PROVE  PacedPiece(InstallRef(c, w))
  <1>1. PICK s : s = updateSubState(c.task, "PreAction")
    OBVIOUS
  <1>2. PICK t : t = updateSubState(s, "InstallApplication")
    OBVIOUS
  <1>3. Within(t, 30)
    <2>2. Within(s, 10)
      BY <1>1, FirstStep
    <2>3. Within(t, 10 + 20)
      BY <1>2, <2>2, StepWithin DEF Light
    <2> QED
      BY <2>3, WithinMore
  <1>4. PICK back : back = {m \in ModuleSet(c.job.mods) : <<c.job.new, m>> \in c.repo.deleted}
    OBVIOUS
  <1>5. PICK r : r = markDeleted(c.repo, c.job.new, back, FALSE)
    OBVIOUS
  <1>6. PICK todo : todo = Sorted(ModuleSet(c.job.mods) \ back)
    OBVIOUS
  <1>7. todo \in {<<>>, <<"develop">>} \cup WithBinary
    <2>1. \A q \in Seq({"binary", "develop"}) : <<>> \o q = q /\ q \o <<>> = q
      BY ConcatEmptySeq
    <2>2. <<>> \in Seq({"binary", "develop"})
      OBVIOUS
    <2>3. <<"binary">> \in Seq({"binary", "develop"}) /\ <<"develop">> \in Seq({"binary", "develop"})
      OBVIOUS
    <2>4. <<"binary">> \o <<"develop">> = <<"binary", "develop">>
      <3>1. PICK a : a = <<"binary">>
        OBVIOUS
      <3>2. PICK b : b = <<"develop">>
        OBVIOUS
      <3>3. PICK ab : ab = <<"binary", "develop">>
        OBVIOUS
      <3>4. a \in Seq({"binary", "develop"}) /\ Len(a) = 1 /\ a[1] = "binary"
        BY <3>1
      <3>5. b \in Seq({"binary", "develop"}) /\ Len(b) = 1 /\ b[1] = "develop"
        BY <3>2
      <3>6. ab \in Seq({"binary", "develop"}) /\ Len(ab) = 2 /\ ab[1] = "binary" /\ ab[2] = "develop"
        BY <3>3
      <3>7. PICK x : x = a \o b
        OBVIOUS
      <3>8. /\ x \in Seq({"binary", "develop"}) /\ Len(x) = Len(a) + Len(b)
            /\ \A i \in 1 .. Len(a) + Len(b) : x[i] = IF i <= Len(a) THEN a[i] ELSE b[i - Len(a)]
        BY <3>4, <3>5, <3>7, ConcatProperties
      <3>9. Len(x) = 2 /\ x[1] = "binary" /\ x[2] = "develop"
        BY <3>4, <3>5, <3>8
      <3>10. \A i \in 1 .. Len(x) : x[i] = ab[i]
        BY <3>6, <3>9
      <3>11. x = ab
        BY <3>6, <3>8, <3>9, <3>10, SeqEqual
      <3> QED
        BY <3>1, <3>2, <3>3, <3>7, <3>11
    <2> QED
      BY <1>6, <2>1, <2>2, <2>3, <2>4, Zenon DEF Sorted, WithBinary
  <1>8. PICK d : d = [c EXCEPT !.task = t, !.repo = r, !.job.undeleted = back, !.job.todo = todo]
    OBVIOUS
  <1>9. InstallRef(c, w) = NextModule(d, w)
    BY <1>1, <1>2, <1>4, <1>5, <1>6, <1>8 DEF InstallRef
  <1>10. Holds(d) /\ d.task = t /\ d.job.todo = todo
    BY <1>8 DEF Holds, Rec, JobFields
  <1>11. Spent(t, 30) /\ Spent(t, 70)
    BY <1>3, WithinMore DEF Spent
  <1> QED
    BY <1>7, <1>9, <1>10, <1>11, NextModulePaced

(* The task of a job that starts. *)
LEMMA StartedPaced ==
    ASSUME NEW c, Holds(c), Idle(c.task)
    PROVE  /\ \A p : p = Processing(c) => Holds(p) /\ Idle(p.task) /\ p.job = c.job
           /\ \A q : q = Prepare(c) => Holds(q) /\ Within(q.task, 10) /\ q.job = c.job
  <1>1. PICK t : t = updateState(c.task, "Processing")
    OBVIOUS
  <1>2. PICK u : u = updateSubState(t, "PreAction")
    OBVIOUS
  <1>3. Idle(t)
    BY <1>1, StateIdle
  <1>4. Within(u, 10)
    BY <1>2, <1>3, FirstStep DEF Idle
  <1>5. Processing(c) = [c EXCEPT !.task = t]
    BY <1>1 DEF Processing
  <1>6. Prepare(c) = [c EXCEPT !.task = u]
    BY <1>1, <1>2 DEF Prepare
  <1>7. PICK p : p = Processing(c)
    OBVIOUS
  <1>8. Holds(p) /\ p.task = t /\ p.job = c.job
    BY <1>5, <1>7, HoldsSet
  <1>9. PICK q : q = Prepare(c)
    OBVIOUS
  <1>10. Holds(q) /\ q.task = u /\ q.job = c.job
    BY <1>6, <1>9, HoldsSet
  <1> QED
    BY <1>3, <1>4, <1>7, <1>8, <1>9, <1>10

(* Update. *)
LEMMA StartUpdatePaced ==
    ASSUME NEW c, Holds(c), Idle(c.task),
           NEW w, w.busy \in Busy
    PROVE  PacedPiece(StartUpdate(c, w))
  <1>1. PICK p : p = Processing(c)
    OBVIOUS
  <1>2. Holds(p) /\ Idle(p.task)
    BY <1>1, StartedPaced
  <1>3. PICK mods : mods = getModuleList(c.repo, c.job.old)
    OBVIOUS
  <1>4. PICK d : d = [p EXCEPT !.job.mods = mods]
    OBVIOUS
  <1>5. StartUpdate(c, w) = InstallRef(d, w)
    BY <1>1, <1>3, <1>4 DEF StartUpdate
  <1>6. Holds(d) /\ d.task = p.task
    BY <1>2, <1>4, HoldsSet
  <1> QED
    BY <1>2, <1>5, <1>6, InstallPaced DEF Idle

(* A UAB is imported at once. *)
LEMMA StartUabPaced ==
    ASSUME NEW c, Holds(c), Idle(c.task),
           NEW w, w.busy \in Busy
    PROVE  PacedPiece(StartUab(c, w))
  <1>1. PICK d : d = Prepare(c)
    OBVIOUS
  <1>2. Holds(d) /\ Within(d.task, 10)
    BY <1>1, StartedPaced
  <1>3. Fine(d.task) /\ IsTask(d.task)
    BY <1>2, WithinMore, WithinFine DEF Within
  <1> DEFINE app == {<<d.job.new, m>> : m \in ModuleSet(d.job.mods)}
             deps == {<<x, "binary">> : x \in Dependencies}
  <1>4. PICK r : r = [d.repo EXCEPT !.layers = @ \cup app \cup deps]
    OBVIOUS
  <1>5. PICK e : e = [d EXCEPT !.repo.layers = @ \cup app \cup deps]
    OBVIOUS
  <1>6. e = [d EXCEPT !.repo = r]
    BY <1>4, <1>5
  <1>7. PICK f : f = [e EXCEPT !.repo = exportReference(mergeModules(@), d.job.new)]
    OBVIOUS
  <1>8. PICK g : g = [d EXCEPT !.task = reportError(@)]
    OBVIOUS
  <1>9. StartUab(c, w) =
          IF app \cap d.repo.layers # {} THEN End(g)
          ELSE IF d.job.old = NoRef THEN AfterRemove(f, TRUE)
          ELSE removeAfterInstall(e, w, getModuleList(e.repo, d.job.old))
    BY <1>1, <1>5, <1>7, <1>8 DEF StartUab
  <1>10. StartUab(c, w) \in {End(g), AfterRemove(f, TRUE),
                             removeAfterInstall(e, w, getModuleList(e.repo, d.job.old))}
    <2> HIDE DEF app
    <2> QED
      BY <1>9, Zenon
  <1>11. Holds(e) /\ e.task = d.task
    BY <1>2, <1>6, HoldsSet
  <1>12. Holds(f) /\ f.task = d.task
    <2>1. PICK x : x = exportReference(mergeModules(e.repo), d.job.new)
      OBVIOUS
    <2>2. f = [e EXCEPT !.repo = x]
      BY <1>7, <2>1
    <2> QED
      BY <1>11, <2>2, HoldsSet
  <1>13. Holds(g) /\ Fine(g.task)
    <2>1. PICK x : x = reportError(d.task)
      OBVIOUS
    <2>2. Fine(x)
      BY <1>3, <2>1, StateOver, OverFine
    <2>3. g = [d EXCEPT !.task = x]
      BY <1>8, <2>1
    <2> QED
      BY <1>2, <2>2, <2>3, HoldsSet
  <1>14. PacedPiece(End(g)) /\ PacedPiece(AfterRemove(f, TRUE))
    BY <1>3, <1>12, <1>13, EndPaced, AfterRemovePaced
  <1>15. PacedPiece(removeAfterInstall(e, w, getModuleList(e.repo, d.job.old)))
    BY <1>3, <1>11, RemoveAfterPaced
  <1> QED
    BY <1>10, <1>14, <1>15

(* Uninstall ends, well or not, or pulls again what it removed. *)
LEMMA StartUninstallPaced ==
    ASSUME NEW c, Holds(c), Idle(c.task), NEW w
    PROVE  PacedPiece(StartUninstall(c, w))
  <1>1. PICK p : p = Prepare(c)
    OBVIOUS
  <1>2. Holds(p) /\ IsTask(p.task)
    BY <1>1, StartedPaced DEF Within
  <1>3. PICK mods : mods = getModuleList(c.repo, c.job.old)
    OBVIOUS
  <1>4. PICK hidden : hidden = unexportReference(c.repo, c.job.old)
    OBVIOUS
  <1>5. PICK t : t = updateSubState(p.task, "Uninstall")
    OBVIOUS
  <1>6. IsTask(t)
    <2>1. PICK total : total = p.task.total + 80
      OBVIOUS
    <2>2. "Uninstall" \in SubStates /\ ~isTaskDone("Uninstall")
      BY DEF SubStates, isTaskDone
    <2>3. m_subStateMap["Uninstall"] = 80
      BY <2>2 DEF m_subStateMap
    <2>4. t = [p.task EXCEPT !.subState = "Uninstall", !.total = total, !.stage = 0]
      BY <1>5, <2>1, <2>2, <2>3 DEF updateSubState
    <2>5. total \in Nat
      BY <1>2, <2>1 DEF IsTask
    <2>6. PICK q : q = p.task
      OBVIOUS
    <2> QED
      BY <1>2, <2>2, <2>4, <2>5, <2>6 DEF IsTask, Whole
  <1>7. PICK d : d = [p EXCEPT !.job.mods = mods, !.repo = hidden, !.task = t]
    OBVIOUS
  <1>8. Holds(d) /\ d.task = t
    BY <1>2, <1>7 DEF Holds, Rec, JobFields
  <1>9. PICK e : e = [d EXCEPT !.task = updateState(@, "Failed")]
    OBVIOUS
  <1>10. PICK f : f = [e EXCEPT !.repo = exportReference(@, c.job.old)]
    OBVIOUS
  <1>11. PICK g : g = [e EXCEPT !.repo = remove(@, c.job.old, {Head(mods)})]
    OBVIOUS
  <1>12. PICK h : h = [d EXCEPT !.repo = mergeModules(remove(@, c.job.old, ModuleSet(mods))),
                                !.task = updateState(@, "Succeed")]
    OBVIOUS
  <1>13. StartUninstall(c, w) \in {End(f), Goto(g, "restore"), End(h)}
    <2>1. d = [p EXCEPT !.job.mods = mods, !.repo = hidden, !.task = updateSubState(@, "Uninstall")]
      BY <1>5, <1>7
    <2> HIDE <1>7
    <2> QED
      BY <1>1, <1>3, <1>4, <1>9, <1>10, <1>11, <1>12, <2>1, Zenon DEF StartUninstall
  <1>14. Holds(e) /\ Fine(e.task)
    <2>1. PICK x : x = updateState(d.task, "Failed")
      OBVIOUS
    <2>2. e = [d EXCEPT !.task = x]
      BY <1>9, <2>1
    <2>3. Fine(x)
      BY <1>6, <1>8, <2>1, StateOver, OverFine
    <2> QED
      BY <1>8, <2>2, <2>3, HoldsSet
  <1>15. Holds(f) /\ Fine(f.task)
    <2>1. PICK x : x = exportReference(e.repo, c.job.old)
      OBVIOUS
    <2>2. f = [e EXCEPT !.repo = x]
      BY <1>10, <2>1
    <2> QED
      BY <1>14, <2>2, HoldsSet
  <1>16. Holds(g) /\ Fine(g.task)
    <2>1. PICK x : x = remove(e.repo, c.job.old, {Head(mods)})
      OBVIOUS
    <2>2. g = [e EXCEPT !.repo = x]
      BY <1>11, <2>1
    <2> QED
      BY <1>14, <2>2, HoldsSet
  <1>17. Holds(h) /\ Fine(h.task)
    <2>1. PICK x : x = updateState(d.task, "Succeed")
      OBVIOUS
    <2>2. PICK r : r = mergeModules(remove(d.repo, c.job.old, ModuleSet(mods)))
      OBVIOUS
    <2>3. h = [d EXCEPT !.repo = r, !.task = x]
      BY <1>12, <2>1, <2>2
    <2>4. Fine(x)
      BY <1>6, <1>8, <2>1, StateOver, OverFine
    <2> QED
      BY <1>8, <2>3, <2>4 DEF Holds, Rec
  <1> QED
    BY <1>13, <1>15, <1>16, <1>17, EndPaced

(* The first piece of a job of any kind. *)
LEMMA StartPaced ==
    ASSUME NEW c, Holds(c), Idle(c.task),
           NEW w, w.busy \in Busy, c.job.kind \in JobKinds
    PROVE  PacedPiece(StartOf(c, w))
  <1>1. PICK p : p = Processing(c)
    OBVIOUS
  <1>2. PICK q : q = Prepare(c)
    OBVIOUS
  <1>3. Holds(p) /\ Idle(p.task) /\ Holds(q) /\ Within(q.task, 10) /\ q.job = c.job
    BY <1>1, <1>2, StartedPaced
  <1>4. CASE c.job.kind = "install"
    <2>1. StartOf(c, w) = InstallRef(p, w)
      BY <1>1, <1>4 DEF StartOf
    <2> QED
      BY <1>3, <2>1, InstallPaced DEF Idle
  <1>5. CASE c.job.kind = "update"
    <2>1. StartOf(c, w) = StartUpdate(c, w)
      BY <1>5 DEF StartOf
    <2> QED
      BY <2>1, StartUpdatePaced
  <1>6. CASE c.job.kind = "uninstall"
    <2>1. StartOf(c, w) = StartUninstall(c, w)
      BY <1>6 DEF StartOf
    <2> QED
      BY <2>1, StartUninstallPaced
  <1>7. CASE c.job.kind = "layer"
    <2>1. StartOf(c, w) = pullDependency(q, w)
      BY <1>2, <1>7 DEF StartOf
    <2>2. Needing(q.job)
      BY <1>3, <1>7 DEF Needing
    <2>3. Within(q.task, 30)
      BY <1>3, WithinMore
    <2> QED
      BY <1>3, <2>1, <2>2, <2>3, RuntimeFoundPaced
  <1>8. CASE c.job.kind = "uab"
    <2>1. StartOf(c, w) = StartUab(c, w)
      BY <1>8 DEF StartOf
    <2> QED
      BY <2>1, StartUabPaced
  <1> QED
    BY <1>4, <1>5, <1>6, <1>7, <1>8 DEF JobKinds

(* The record of a job that waits. *)
LEMMA NowHolds ==
    ASSUME JobsInv
    PROVE  \A b : b = Config(job) => Holds(b) /\ b.task = task /\ b.job = job
  BY DEF JobsInv, Config, Holds, Rec

(* A step that leads to a piece. *)
LEMMA PacedBecomes ==
    ASSUME NEW d, Become(d), PacedPiece(d)
    PROVE  OnPace'
  BY DEF Become, PacedPiece, OnPace, Going

(* Another package is begun. *)
LEMMA OtherBeginsPaced ==
    ASSUME NEW c, Holds(c), Idle(c.task), Become(StartOther(c)), ahead' \in Nat, Room(c.task, ahead' + 2)
    PROVE  OnPace'
  <1>1. PICK p : p = Processing(c)
    OBVIOUS
  <1>2. PICK v : v = updateState(c.task, "Processing")
    OBVIOUS
  <1>3. Idle(v) /\ SameParts(c.task, v)
    BY <1>2, StateIdle
  <1>4. Holds(p) /\ p.task = v
    <2>1. p = [c EXCEPT !.task = v]
      BY <1>1, <1>2 DEF Processing
    <2>2. \A d : d = [c EXCEPT !.task = v] => Holds(d) /\ d.task = v
      BY SMTT(30), HoldsSet
    <2> QED
      BY <2>1, <2>2, Zenon
  <1>5. PICK u : u = updateSubState(v, "PreAction")
    OBVIOUS
  <1>6. Within(u, 10) /\ SameParts(v, u)
    BY <1>3, <1>5, FirstStep DEF Idle
  <1>7. PICK t : t = updateSubState(u, "InstallApplication")
    OBVIOUS
  <1>8. Within(t, 10 + 20) /\ SameParts(u, t)
    BY <1>6, <1>7, StepWithin DEF Light
  <1>9. Within(t, 30)
    BY <1>8, WithinMore
  <1>10. PICK e : e = [p EXCEPT !.task = t]
    OBVIOUS
  <1>11. Holds(e) /\ e.task = t
    BY <1>4, <1>10, HoldsSet
  <1>12. PICK d : d = Goto(e, "other")
    OBVIOUS
  <1>13. d.task = t /\ d.job.at = "other"
    BY <1>11, <1>12, GoesTo
  <1>14. StartOther(c) = d
    BY <1>1, <1>4, <1>5, <1>7, <1>10, <1>12 DEF StartOther
  <1>15. Paced(d.task, d.job)
    BY <1>9, <1>13 DEF Paced, OtherPlaces, Places
  <1>16. Going(d.task, d.job, ahead')
    <2>1. c.task.parts \in Nat /\ Len(c.task.refs) \in Nat
      BY DEF Idle
    <2>2. SameParts(c.task, d.task)
      BY <1>3, <1>6, <1>8, <1>13 DEF SameParts
    <2> QED
      BY <2>1, <2>2 DEF Going, Ahead, Room, SameParts
  <1>17. task' = d.task /\ job' = d.job
    BY <1>14 DEF Become
  <1> QED
    BY <1>15, <1>16, <1>17 DEF OnPace

(* A job starts. *)
LEMMA StartJobPaced ==
    ASSUME JobsInv, StartJob
    PROVE  OnPace'
  <1>1. PICK j : j = [Head(queue) EXCEPT !.had = InstalledApps(repo)]
    OBVIOUS
  <1>2. PICK n \in IF j.kind = "update" THEN Others ELSE {0} : FirstPackage([Config(j) EXCEPT !.task = TaskOf(j, n)], n)
    BY <1>1 DEF StartJob
  <1>3. n \in Nat
    BY <1>2, OthersAssumption
  <1>4. PICK refs : refs = [i \in 1 .. n + 1 |-> RefSpec(j.kind)]
    OBVIOUS
  <1>5. PICK t : t = NewTask(refs)
    OBVIOUS
  <1>6. Idle(t) /\ Len(t.refs) = n + 1 /\ t.parts = 0
    <2>1. Len(refs) = n + 1
      BY <1>3, <1>4
    <2>2. t = [state |-> "Queued", subState |-> "Unknown", total |-> 0, stage |-> 0,
               parts |-> 0, refs |-> refs, cancelled |-> FALSE]
      BY <1>5 DEF NewTask
    <2>3. /\ DOMAIN t = {"state", "subState", "total", "stage", "parts", "refs", "cancelled"}
          /\ t.subState = "Unknown" /\ t.total = 0 /\ t.stage = 0 /\ t.parts = 0 /\ t.refs = refs
      BY <2>2
    <2> QED
      BY <1>3, <2>1, <2>3 DEF Idle, Zero, IsTask, SubStates, Whole
  <1>7. PICK b : b = Config(j)
    OBVIOUS
  <1>8. PICK c : c = [b EXCEPT !.task = t]
    OBVIOUS
  <1>9. FirstPackage(c, n)
    <2>1. TaskOf(j, n) = t
      BY <1>4, <1>5 DEF TaskOf
    <2> QED
      BY <1>2, <1>7, <1>8, <2>1
  <1>10. IsJob(Head(queue))
    BY HeadIsJob DEF StartJob, JobsInv
  <1>11. IsJob(j)
    BY <1>1, <1>10 DEF IsJob, JobFields
  <1>12. Holds(b) /\ b.job = j
    BY <1>7, <1>11 DEF Config, Holds, Rec, IsJob
  <1>13. Holds(c) /\ c.task = t /\ c.job = j
    BY <1>8, <1>12, HoldsSet
  <1>14. CASE n = 0
    <2>1. PICK w \in World(c.job.old) : Become(StartOf(c, w))
      BY <1>9, <1>14 DEF FirstPackage
    <2>2. w.busy \in Busy
      BY WorldIs
    <2>3. PacedPiece(StartOf(c, w))
      BY <1>6, <1>11, <1>13, <2>2, StartPaced DEF IsJob
    <2> QED
      BY <2>1, <2>3, PacedBecomes
  <1>15. CASE n # 0
    <2>1. Become(StartOther(c)) /\ ahead' = n - 1
      BY <1>9, <1>15 DEF FirstPackage
    <2>2. ahead' \in Nat /\ Room(c.task, ahead' + 2)
      BY <1>3, <1>6, <1>13, <1>15, <2>1 DEF Room
    <2> QED
      BY <1>6, <1>13, <2>1, <2>2, OtherBeginsPaced
  <1> QED
    BY <1>14, <1>15

(* An update goes on with its next package. *)
LEMMA NextPackagePaced ==
    ASSUME NEW c, Holds(c), Idle(c.task), ahead \in Nat, Room(c.task, ahead + 1), NextPackage(c)
    PROVE  OnPace'
  <1>1. CASE ahead > 0
    <2>1. ahead' = ahead - 1 /\ Become(StartOther(c))
      BY <1>1 DEF NextPackage
    <2>2. ahead' \in Nat /\ Room(c.task, ahead' + 2)
      BY <1>1, <2>1 DEF Room
    <2> QED
      BY <2>1, <2>2, OtherBeginsPaced
  <1>2. CASE ~(ahead > 0)
    <2>1. PICK w \in World(c.job.old) : Become(StartUpdate(c, w))
      BY <1>2 DEF NextPackage
    <2>2. w.busy \in Busy
      BY WorldIs
    <2>3. PacedPiece(StartUpdate(c, w))
      BY <2>2, StartUpdatePaced
    <2> QED
      BY <2>1, <2>3, PacedBecomes
  <1> QED
    BY <1>1, <1>2

(* A step of another package, which has not failed. *)
LEMMA OtherPaced ==
    ASSUME JobsInv, OnPace, OtherStep, ~OtherFails
    PROVE  OnPace'
  <1>1. PICK b : b = Config(job)
    OBVIOUS
  <1>2. Holds(b) /\ b.task = task /\ b.job = job
    BY <1>1, NowHolds
  <1>3. /\ job.at \in OtherPlaces /\ ahead \in Nat
        /\ task.parts \in Nat /\ Len(task.refs) \in Nat /\ Ahead(task, job, ahead)
    BY DEF OnPace, Going, OtherStep, OtherCancelled, OtherPulled, OtherUpgraded, OtherRestored, OtherPlaces
  <1>4. CASE OtherCancelled
    <2>1. Within(task, 70)
      BY <1>4, WithinMore DEF OnPace, Paced, OtherCancelled
    <2> QED
      BY <1>1, <1>2, <1>4, <2>1, WithinOpen DEF OtherCancelled, Done
  <1>5. CASE OtherPulled
    <2>1. PICK sub \in {"InstallRuntime", "InstallBase"}, at \in {"otherRuntime", "otherBase"}, n \in {30, 50} :
             /\ Become(Goto([b EXCEPT !.task = updateSubState(task, sub)], at)) /\ Within(task, n)
             /\ at = (IF n = 30 THEN "otherRuntime" ELSE "otherBase")
      <3>1. CASE job.at = "other"
        BY <1>1, <1>2, <1>5, <3>1 DEF OtherPulled, OnPace, Paced
      <3>2. CASE job.at = "otherRuntime"
        BY <1>1, <1>2, <1>5, <3>2 DEF OtherPulled, OnPace, Paced
      <3> QED
        BY <1>5, <3>1, <3>2 DEF OtherPulled
    <2>2. PICK t : t = updateSubState(task, sub)
      OBVIOUS
    <2>3. Within(t, n + 20) /\ SameParts(task, t)
      BY <2>1, <2>2, StepWithin DEF Light
    <2>4. PICK c : c = [b EXCEPT !.task = t]
      OBVIOUS
    <2>5. Holds(c) /\ c.task = t
      BY <1>2, <2>4, HoldsSet
    <2>6. PICK d : d = Goto(c, at)
      OBVIOUS
    <2>7. d.task = t /\ d.job.at = at
      BY <2>5, <2>6, GoesTo
    <2>8. Paced(d.task, d.job)
      <3>1. CASE n = 30
        <4>1. Within(t, 50) /\ at = "otherRuntime"
          BY <2>1, <2>3, <3>1, WithinMore
        <4> QED
          BY <2>7, <4>1 DEF Paced, OtherPlaces, Places
      <3>2. CASE n = 50
        <4>1. Within(t, 70) /\ at = "otherBase"
          BY <2>1, <2>3, <3>2, WithinMore
        <4> QED
          BY <2>7, <4>1 DEF Paced, OtherPlaces, Places
      <3> QED
        BY <2>1, <3>1, <3>2
    <2>9. Going(d.task, d.job, ahead)
      <3>1. job.at # "otherRestore"
        BY <1>5 DEF OtherPulled
      <3> QED
        BY <1>3, <2>3, <2>7, <3>1 DEF Going, Ahead, Room, SameParts
    <2>10. task' = d.task /\ job' = d.job /\ ahead' = ahead
      BY <1>5, <2>1, <2>2, <2>4, <2>6 DEF Become, OtherPulled
    <2> QED
      BY <2>8, <2>9, <2>10 DEF OnPace
  <1>6. CASE OtherUpgraded
    <2>1. IsTask(task) /\ Room(task, ahead + 2)
      BY <1>3, <1>6 DEF OnPace, Paced, OtherUpgraded, Within, Ahead
    <2>2. PICK t : t = setSubState(updateState(task, "PartCompleted"), "PackageManagerDone")
      OBVIOUS
    <2>3. Over(t) /\ Idle(t) /\ t.parts = task.parts + 1 /\ t.refs = task.refs
      <3>1. task.parts + 1 < Len(task.refs)
        BY <1>3, <2>1 DEF Room
      <3> QED
        BY <1>3, <2>1, <2>2, <3>1, UpdatedIdle
    <2>4. Room(t, ahead + 1)
      BY <1>3, <2>1, <2>3 DEF Room
    <2>5. PICK c : c = [b EXCEPT !.task = t]
      OBVIOUS
    <2>6. Holds(c) /\ c.task = t
      BY <1>2, <2>5, HoldsSet
    <2>7. \/ NextPackage([c EXCEPT !.repo = mergeModules(@)])
          \/ NextPackage(c)
          \/ ahead' = ahead /\ Become(Goto(c, "otherRestore"))
      BY <1>1, <1>2, <1>6, <2>2, <2>5 DEF OtherUpgraded
    <2>8. CASE NextPackage([c EXCEPT !.repo = mergeModules(@)])
      <3>1. PICK r : r = mergeModules(c.repo)
        OBVIOUS
      <3>2. PICK e : e = [c EXCEPT !.repo = r]
        OBVIOUS
      <3>3. Holds(e) /\ e.task = t
        BY <2>6, <3>2, HoldsSet
      <3>4. NextPackage(e)
        BY <2>8, <3>1, <3>2
      <3> QED
        BY <1>3, <2>3, <2>4, <3>3, <3>4, NextPackagePaced
    <2>9. CASE NextPackage(c)
      BY <1>3, <2>3, <2>4, <2>6, <2>9, NextPackagePaced
    <2>10. CASE ahead' = ahead /\ Become(Goto(c, "otherRestore"))
      <3>1. PICK d : d = Goto(c, "otherRestore")
        OBVIOUS
      <3>2. d.task = t /\ d.job.at = "otherRestore"
        BY <2>6, <3>1, GoesTo
      <3>3. Paced(d.task, d.job)
        BY <2>3, <3>2 DEF Paced, OtherPlaces, Places
      <3>4. Going(d.task, d.job, ahead)
        BY <1>3, <2>3, <2>4, <3>2 DEF Going, Ahead, Idle
      <3>5. task' = d.task /\ job' = d.job /\ ahead' = ahead
        BY <2>10, <3>1 DEF Become
      <3> QED
        BY <3>3, <3>4, <3>5 DEF OnPace
    <2> QED
      BY <2>7, <2>8, <2>9, <2>10
  <1>7. CASE OtherRestored
    <2>1. Idle(task) /\ Room(task, ahead + 1)
      BY <1>3, <1>7 DEF OnPace, Paced, OtherRestored, Ahead
    <2> QED
      BY <1>1, <1>2, <1>3, <1>7, <2>1, NextPackagePaced DEF OtherRestored
  <1> QED
    BY <1>4, <1>5, <1>6, <1>7 DEF OtherStep

(* A module of the application has been pulled, or not. *)
LEMMA PullEndsPaced ==
    ASSUME JobsInv, OnPace, PullEnds
    PROVE  OnPace'
  <1>1. PICK b : b = Config(job)
    OBVIOUS
  <1>2. PICK m : m = Head(job.todo)
    OBVIOUS
  <1>3. PICK c : c = [b EXCEPT !.repo = AddLayer(@, job.new, m)]
    OBVIOUS
  <1>4. PICK e : e = [b EXCEPT !.task = reportError(@)]
    OBVIOUS
  <1>5. PICK p : p = [c EXCEPT !.job.pulled = @ \cup {m}]
    OBVIOUS
  <1>6. PICK q : q = [c EXCEPT !.job.pulled = @ \cup {m}, !.job.todo = Tail(@)]
    OBVIOUS
  <1>7. PICK w \in World(job.old) :
           \/ Become(End(UndoInstallRef(e)))
           \/ Done(c) /\ Become(End(UndoInstallRef(c)))
           \/ ~Done(c) /\ m = "binary" /\ Become(pullDependency(p, w))
           \/ ~Done(c) /\ m # "binary" /\ Become(NextModule(q, w))
    BY <1>1, <1>2, <1>3, <1>4, <1>5, <1>6 DEF PullEnds
  <1>8. w.busy \in Busy
    BY WorldIs
  <1>9. Holds(b) /\ b.task = task /\ b.job = job
    BY <1>1, NowHolds
  <1>10. Holds(c) /\ c.task = task /\ c.job = job
    <2>1. PICK r : r = AddLayer(b.repo, job.new, m)
      OBVIOUS
    <2>2. c = [b EXCEPT !.repo = r]
      BY <1>3, <2>1
    <2> QED
      BY <1>9, <2>2, HoldsSet
  <1>11. \/ job.todo \in WithBinary /\ Within(task, 30)
         \/ job.todo = <<"develop">> /\ Within(task, 70)
    BY DEF OnPace, Paced, PullEnds
  <1>12. IsTask(task) /\ ~Done(c)
    BY <1>10, <1>11, WithinOpen DEF Done
  <1>13. PacedPiece(End(UndoInstallRef(e)))
    <2>1. PICK u : u = reportError(b.task)
      OBVIOUS
    <2>2. e = [b EXCEPT !.task = u]
      BY <1>4, <2>1
    <2>3. Over(u)
      BY <1>9, <1>12, <2>1, StateOver
    <2>4. Holds(e) /\ Over(e.task)
      BY <1>9, <2>2, <2>3, HoldsSet
    <2> QED
      BY <2>4, UndoPaced
  <1>14. CASE m = "binary" /\ Become(pullDependency(p, w))
    <2>1. PICK pulled : pulled = c.job.pulled \cup {m}
      OBVIOUS
    <2>2. p = [c EXCEPT !.job.pulled = pulled]
      BY <1>5, <2>1
    <2>3. Holds(p) /\ p.task = task /\ p.job.todo = job.todo
      BY <1>10, <2>2, HoldsSet
    <2>4. Head(<<"develop">>) = "develop"
      OBVIOUS
    <2>5. job.todo # <<"develop">>
      BY <1>2, <1>14, <2>4, Zenon
    <2>6. Needing(p.job) /\ Within(p.task, 30)
      BY <1>11, <2>3, <2>5 DEF Needing
    <2>7. PacedPiece(pullDependency(p, w))
      BY <1>8, <2>3, <2>6, RuntimeFoundPaced
    <2> QED
      BY <1>14, <2>7, PacedBecomes
  <1>15. CASE m # "binary" /\ Become(NextModule(q, w))
    <2>1. PICK pulled : pulled = c.job.pulled \cup {m}
      OBVIOUS
    <2>2. PICK todo : todo = Tail(c.job.todo)
      OBVIOUS
    <2>3. q = [c EXCEPT !.job.pulled = pulled, !.job.todo = todo]
      BY <1>6, <2>1, <2>2
    <2>4. Holds(q) /\ q.task = task /\ q.job.todo = todo
      BY <1>10, <2>3 DEF Holds, Rec, JobFields
    <2>5. job.todo = <<"develop">> /\ Within(task, 70)
      BY <1>2, <1>11, <1>15, TailWithBinary
    <2>6. Tail(<<"develop">>) = <<>>
      OBVIOUS
    <2>7. todo = <<>>
      BY <1>10, <2>2, <2>5, <2>6, Zenon
    <2>8. PacedPiece(NextModule(q, w))
      BY <1>8, <2>4, <2>5, <2>7, NextModulePaced DEF Spent
    <2> QED
      BY <1>15, <2>8, PacedBecomes
  <1> QED
    BY <1>7, <1>12, <1>13, <1>14, <1>15, PacedBecomes

(* The remote has answered where a dependency is. *)
LEMMA FindEndsPaced ==
    ASSUME JobsInv, OnPace, FindEnds
    PROVE  OnPace'
  <1>1. PICK b : b = Config(job)
    OBVIOUS
  <1>2. PICK e : e = [b EXCEPT !.task = updateState(@, "Failed")]
    OBVIOUS
  <1>3. PICK w \in World(job.old) :
           \/ Become(DependencyFailed(e, w))
           \/ job.at = "findRuntime" /\ Become(RuntimeFound(b, w))
           \/ job.at = "findBase" /\ Become(BaseFound(b, w))
    BY <1>1, <1>2 DEF FindEnds
  <1>4. w.busy \in Busy
    BY WorldIs
  <1>5. Holds(b) /\ b.task = task /\ b.job = job
    BY <1>1, NowHolds
  <1>6. Needing(job) /\ (\/ job.at = "findRuntime" /\ Within(task, 30)
                         \/ job.at = "findBase" /\ Within(task, 50))
    BY DEF OnPace, Paced, FindEnds
  <1>7. PacedPiece(DependencyFailed(e, w))
    <2>1. PICK u : u = updateState(b.task, "Failed")
      OBVIOUS
    <2>2. e = [b EXCEPT !.task = u]
      BY <1>2, <2>1
    <2>3. Over(u)
      BY <1>5, <1>6, <2>1, StateOver, WithinOpen
    <2>4. Holds(e) /\ e.task = u /\ e.job = job
      BY <1>5, <2>2, HoldsSet
    <2> QED
      BY <1>4, <1>6, <2>3, <2>4, DependencyFailedPaced DEF Spent
  <1>8. CASE job.at = "findRuntime" /\ Become(RuntimeFound(b, w))
    <2>1. PacedPiece(RuntimeFound(b, w))
      BY <1>4, <1>5, <1>6, <1>8, RuntimeFoundPaced
    <2> QED
      BY <1>8, <2>1, PacedBecomes
  <1>9. CASE job.at = "findBase" /\ Become(BaseFound(b, w))
    <2>1. PacedPiece(BaseFound(b, w))
      BY <1>4, <1>5, <1>6, <1>9, BaseFoundPaced
    <2> QED
      BY <1>9, <2>1, PacedBecomes
  <1> QED
    BY <1>3, <1>7, <1>8, <1>9, PacedBecomes

(* A dependency has been pulled, or not. *)
LEMMA DependencyEndsPaced ==
    ASSUME JobsInv, OnPace, DependencyEnds
    PROVE  OnPace'
  <1>1. PICK b : b = Config(job)
    OBVIOUS
  <1>2. PICK ref : ref = IF job.at = "runtime" THEN Runtime ELSE Base
    OBVIOUS
  <1>3. PICK c : c = [b EXCEPT !.repo = AddLayer(@, ref, "binary")]
    OBVIOUS
  <1>4. PICK e : e = [b EXCEPT !.task = reportError(@)]
    OBVIOUS
  <1>5. PICK p : p = [c EXCEPT !.job.runtimePulled = TRUE]
    OBVIOUS
  <1>6. PICK w \in World(job.old) :
           \/ Become(DependencyFailed(e, w)) \/ Become(DependencyFailed(c, w))
           \/ job.at = "runtime" /\ Become(FindBase(p, w))
           \/ job.at = "base" /\ Become(DependencyReturned(c, w))
    BY <1>1, <1>2, <1>3, <1>4, <1>5 DEF DependencyEnds
  <1>7. w.busy \in Busy
    BY WorldIs
  <1>8. Holds(b) /\ b.task = task /\ b.job = job
    BY <1>1, NowHolds
  <1>9. Needing(job) /\ (\/ job.at = "runtime" /\ Within(task, 50)
                         \/ job.at = "base" /\ Within(task, 70))
    BY DEF OnPace, Paced, DependencyEnds
  <1>10. Within(task, 70) /\ IsTask(task)
    BY <1>9, WithinMore DEF Within
  <1>11. Holds(c) /\ c.task = task /\ c.job = job
    <2>1. PICK r : r = AddLayer(b.repo, ref, "binary")
      OBVIOUS
    <2>2. c = [b EXCEPT !.repo = r]
      BY <1>3, <2>1
    <2> QED
      BY <1>8, <2>2, HoldsSet
  <1>12. PacedPiece(DependencyFailed(e, w))
    <2>1. PICK u : u = reportError(b.task)
      OBVIOUS
    <2>2. e = [b EXCEPT !.task = u]
      BY <1>4, <2>1
    <2>3. Over(u)
      BY <1>8, <1>10, <2>1, StateOver
    <2>4. Holds(e) /\ e.task = u /\ e.job = job
      BY <1>8, <2>2, HoldsSet
    <2> QED
      BY <1>7, <1>9, <2>3, <2>4, DependencyFailedPaced DEF Spent
  <1>13. PacedPiece(DependencyFailed(c, w)) /\ PacedPiece(DependencyReturned(c, w))
    BY <1>7, <1>9, <1>10, <1>11, DependencyFailedPaced, DependencyReturnedPaced DEF Spent
  <1>14. CASE job.at = "runtime" /\ Become(FindBase(p, w))
    <2>1. PICK yes : yes = TRUE
      OBVIOUS
    <2>2. p = [c EXCEPT !.job.runtimePulled = yes]
      BY <1>5, <2>1
    <2>3. Holds(p) /\ p.task = task /\ p.job.todo = job.todo /\ p.job.kind = job.kind
      BY <1>11, <2>2, HoldsSet
    <2>4. Needing(p.job) /\ Within(p.task, 50)
      BY <1>9, <1>14, <2>3 DEF Needing
    <2>5. PacedPiece(FindBase(p, w))
      BY <1>7, <2>3, <2>4, BaseFoundPaced
    <2> QED
      BY <1>14, <2>5, PacedBecomes
  <1> QED
    BY <1>6, <1>12, <1>13, <1>14, PacedBecomes

(* A module that was removed has been pulled again, or not. *)
LEMMA RestoreEndsPaced ==
    ASSUME JobsInv, OnPace, RestoreEnds
    PROVE  OnPace'
  <1>1. PICK b : b = Config(job)
    OBVIOUS
  <1>2. PICK r : Become(AfterRemove([b EXCEPT !.repo = exportReference(r, job.old)], FALSE))
    BY <1>1 DEF RestoreEnds
  <1>3. PICK s : s = exportReference(r, job.old)
    OBVIOUS
  <1>4. PICK e : e = [b EXCEPT !.repo = s]
    OBVIOUS
  <1>5. Holds(b) /\ b.task = task
    BY <1>1, NowHolds
  <1>6. Holds(e) /\ e.task = task
    BY <1>4, <1>5, HoldsSet
  <1>7. Fine(task)
    BY DEF OnPace, Paced, RestoreEnds
  <1>8. PacedPiece(AfterRemove(e, FALSE))
    BY <1>6, <1>7, AfterRemovePaced
  <1> QED
    BY <1>2, <1>3, <1>4, <1>8, PacedBecomes

(* Between two jobs. *)
LEMMA RestPaced == Paced(TemporaryTask, NoJob) /\ \A n : Going(TemporaryTask, NoJob, n)
  <1>1. PICK none : none = <<>>
    OBVIOUS
  <1>2. PICK t : t = NewTask(none)
    OBVIOUS
  <1>3. IsTask(t) /\ t.subState = "Unknown" /\ t.total = 0
    BY <1>2 DEF NewTask, IsTask, SubStates, Whole
  <1>4. Within(t, 70)
    BY <1>3 DEF Within, Light
  <1>5. Fine(t)
    BY <1>4, WithinFine
  <1>6. TemporaryTask = t
    BY <1>1, <1>2 DEF TemporaryTask
  <1> QED
    BY <1>5, <1>6, NoJobIs DEF Paced, Going, OtherPlaces, Places

(* libostree reports how much of a pull is done. *)
LEMMA ProgressPaced ==
    ASSUME OnPace, NEW part \in Reports, Progress(part)
    PROVE  OnPace'
  <1>1. part \in {1, 2}
    BY ReportsAssumption DEF Whole
  <1>2. (part * Whole) \div Whole = part /\ part <= Whole
    BY <1>1 DEF Whole
  <1>3. updateTask(task, part, Whole) = [task EXCEPT !.stage = part]
    BY <1>1, <1>2 DEF updateTask, Whole
  <1>4. task' = [task EXCEPT !.stage = part] /\ job' = job /\ ahead' = ahead
    BY <1>3 DEF Progress
  <1>5. ASSUME NEW n \in {30, 50, 70}, Within(task, n)
        PROVE  Within(task', n) /\ SameParts(task, task')
    <2>1. part \in 0 .. Whole
      BY <1>1 DEF Whole
    <2> QED
      BY <1>4, <1>5, <2>1 DEF Within, IsTask, SameParts
  <1>6. job.at \in {"pull", "runtime", "base", "other", "otherRuntime", "otherBase"}
    BY DEF Progress
  <1>7. /\ job.at = "pull" => \/ job.todo \in WithBinary /\ Within(task', 30)
                              \/ job.todo = <<"develop">> /\ Within(task', 70)
        /\ job.at = "runtime" => Needing(job) /\ Within(task', 50)
        /\ job.at = "base" => Needing(job) /\ Within(task', 70)
        /\ job.at = "other" => Within(task', 30)
        /\ job.at = "otherRuntime" => Within(task', 50)
        /\ job.at = "otherBase" => Within(task', 70)
    BY <1>5 DEF OnPace, Paced
  <1>8. PICK t : t = task'
    OBVIOUS
  <1>9. Paced(t, job)
    BY <1>6, <1>7, <1>8 DEF Paced, OtherPlaces, Places
  <1>10. Going(t, job, ahead)
    <2>1. Within(task, 30) \/ Within(task, 50) \/ Within(task, 70)
      BY <1>6 DEF OnPace, Paced
    <2>2. SameParts(task, t)
      BY <1>5, <1>8, <2>1
    <2> QED
      BY <2>2 DEF OnPace, Going, Ahead, Room, SameParts
  <1> QED
    BY <1>4, <1>8, <1>9, <1>10 DEF OnPace

(* The pace is kept until the task is cancelled or a package of it fails,  *)
(* and every job begins anew.                                              *)
PaceInv == course = "marred" \/ OnPace

(* Every step. *)
LEMMA PaceNext ==
    ASSUME JobsInv, PaceInv, [Next]_vars
    PROVE  PaceInv'
  <1>1. ASSUME UNCHANGED <<task, job, ahead, course>>
        PROVE  PaceInv'
    BY <1>1 DEF PaceInv, OnPace
  <1>2. CASE UNCHANGED vars
    BY <1>1, <1>2 DEF vars
  <1>3. CASE JobReturns
    BY <1>3, RestPaced DEF JobReturns, PaceInv, OnPace
  <1>4. CASE CancelTask \/ OtherFails
    BY <1>4 DEF CancelTask, OtherFails, PaceInv
  <1>5. CASE StartJob
    BY <1>5, StartJobPaced DEF PaceInv
  <1>6. CASE \/ (OtherStep /\ ~OtherFails) \/ PullEnds \/ FindEnds \/ DependencyEnds \/ RestoreEnds
             \/ \E part \in Reports : Progress(part)
    <2>1. course' = course
      BY <1>6 DEF OtherStep, OtherCancelled, OtherPulled, OtherUpgraded, OtherRestored, PullEnds, FindEnds,
                  DependencyEnds, RestoreEnds, Progress
    <2>2. OnPace => OnPace'
      BY <1>6, OtherPaced, PullEndsPaced, FindEndsPaced, DependencyEndsPaced, RestoreEndsPaced, ProgressPaced
    <2> QED
      BY <2>1, <2>2 DEF PaceInv
  <1>7. CASE \/ \E kind \in Kinds : RequestRemote(kind)
             \/ \E new \in Apps, force \in Forces : RemoteAnswered(new, force)
    BY <1>1, <1>7 DEF RequestRemote, RemoteAnswered
  <1>8. CASE \/ \E ref \in Apps : RequestUninstall(ref)
             \/ \E kind \in Kinds, new \in Apps, mods \in UabModules, force \in Forces :
                   InstallFromFile(kind, new, mods, force)
    BY <1>1, <1>8 DEF RequestUninstall, InstallFromFile
  <1>9. CASE PruneStep
    BY <1>1, <1>9 DEF PruneStep
  <1>10. CASE \E stuck \in SUBSET repo.deleted : deferredUninstall(stuck)
    BY <1>1, <1>10 DEF deferredUninstall
  <1>11. CASE \E ref \in Apps : StartApp(ref) \/ StopApp(ref)
    BY <1>1, <1>11 DEF StartApp, StopApp
  <1> QED
    BY <1>2, <1>3, <1>4, <1>5, <1>6, <1>7, <1>8, <1>9, <1>10, <1>11 DEF Next, JobStep

(* A job that keeps the pace is at 100 percent at most. *)
LEMMA PacedIsBounded ==
    ASSUME NEW t, NEW j, Paced(t, j)
    PROVE  getPercentage(t) <= 100 * Whole
  <1>1. Fine(t) \/ Over(t) \/ Within(t, 30) \/ Within(t, 50) \/ Within(t, 70)
    BY DEF Paced, OtherPlaces, Places
  <1>2. Fine(t)
    BY <1>1, WithinMore, WithinFine, OverFine
  <1> QED
    BY <1>2 DEF Fine

(* Nobody who watches a task over D-Bus reads more than 100 percent, for   *)
(* every kind of job, any number of packages in an update, however their   *)
(* pulls are reported and wherever the last of them fails, unless the task *)
(* is cancelled or a package before the last has failed: then it is at 100 *)
(* already, and the steps still to come add their weights.                 *)
THEOREM PercentageIsOne == Spec => []PercentageBounded
  <1>1. Init => PaceInv
    BY RestPaced DEF Init, PaceInv, OnPace
  <1>2. JobsInv /\ PaceInv /\ [Next]_vars => JobsInv' /\ PaceInv'
    BY JobsNext, PaceNext
  <1>3. PaceInv => PercentageBounded
    BY PacedIsBounded DEF PercentageBounded, PaceInv, OnPace
  <1> QED
    BY <1>1, <1>2, <1>3, JobsInit, PTL DEF Spec
=============================================================================
