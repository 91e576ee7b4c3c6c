------------------------- MODULE TrainingRunsProofs -------------------------
(* Proofs about TrainingRuns, for any number of runs, listings, editors    *)
(* that delete at the same time, cancels, kills and restarts.              *)
EXTENDS TrainingRuns, TLAPS

(* The types the argument needs.                                           *)
Typed ==
    /\ dir \in [Runs -> BOOLEAN] /\ manifest \in [Runs -> BOOLEAN]
    /\ state \in [Runs -> Ended \union {"none", "queued", "running"}]
    /\ job \in [Runs -> {"none", "queued", "running", "cancelling", "cancelled", "ended"}]
    /\ mirror \in [Runs -> SUBSET Ended]
    /\ worker \in [Runs -> {"none", "boot", "train", "manifest", "complete", "report", "gone"}]
    /\ cancel \in [Cancels -> {"new", "kill", "write", "done"}]
    /\ target \in [Cancels -> Runs \union {NoRun}]
    /\ listing \in [Listers -> Runs \union {NoRun}]
    /\ pc \in [Editors -> {"idle", "register", "promote", "choose", "drop", "clear", "remove"}]
    /\ run \in [Editors -> Runs \union {NoRun}]

(* The worker of the run has stopped writing and none will come.           *)
Over(r) == \/ worker[r] \in {"gone", "report"}
           \/ worker[r] = "none" /\ job[r] \in {"cancelled", "ended"}

(* A run without a worker has no job, or one that was never started.       *)
NotStarted ==
    \A r \in Runs : worker[r] = "none" =>
        /\ job[r] \in {"none", "queued", "cancelled", "ended"}
        /\ job[r] = "none" => ~dir[r]
        /\ job[r] = "queued" => state[r] = "queued"
        /\ state[r] # "running"

(* While its worker trains, nobody else writes the state of a run: what is *)
(* mirrored comes after the worker's end.                                  *)
WorkerOwnsState ==
    \A r \in Runs :
        /\ worker[r] = "boot" => state[r] = "queued"
        /\ worker[r] \in {"train", "manifest", "complete"} => state[r] = "running"
        /\ job[r] \in {"cancelled", "ended"} => worker[r] \in {"none", "gone"}
        /\ job[r] = "none" => worker[r] \in {"none", "gone"}
        /\ job[r] = "queued" => worker[r] = "none"
        /\ mirror[r] # {} => job[r] \in {"cancelled", "ended"}
        /\ "completed" \notin mirror[r]

(* A cancel waits for the process of a job that has started; the one that  *)
(* writes without a common job writes where no worker will ever come.      *)
CancelHasRun ==
    \A c \in Cancels :
        /\ cancel[c] = "kill" =>
             /\ target[c] \in Runs
             /\ job[target[c]] \notin {"none", "queued"} /\ worker[target[c]] # "none"
        /\ cancel[c] = "write" =>
             target[c] \in Runs /\ job[target[c]] = "none" /\ worker[target[c]] = "gone"

(* A listing holds a run whose worker has booted.                          *)
ListedHasRun ==
    \A l \in Listers : listing[l] # NoRun => worker[listing[l]] \notin {"none", "boot"}

(* A run that is being deleted is over, and an editor at work has a run.   *)
DeletedIsOver ==
    \A e \in Editors : pc[e] \in {"drop", "clear", "remove"} =>
        run[e] \in Runs /\ Over(run[e])

(* A worker about to report success, and a completed run, have a manifest. *)
ManifestFirst ==
    \A r \in Runs : worker[r] = "complete" \/ state[r] = "completed" => manifest[r]

RunInv == Typed /\ NotStarted /\ WorkerOwnsState /\ CancelHasRun /\ ListedHasRun
                /\ DeletedIsOver /\ ManifestFirst

(* A project without training runs satisfies it.                           *)
LEMMA InitRun == Init => RunInv
  BY DEF Init, RunInv, Typed, NotStarted, WorkerOwnsState, CancelHasRun, ListedHasRun, DeletedIsOver,
         ManifestFirst, Empty, Registry, Ended

(* A step of the job manager or of the worker keeps the invariant.         *)
LEMMA JobStepRun ==
    ASSUME RunInv, NEW r \in Runs,
           \/ StartRun(r) \/ StartCutShort(r) \/ StartFails(r)
           \/ SpawnWorker(r) \/ SpawnFails(r) \/ RecoverJob(r) \/ Mirror(r)
           \/ WorkerStep(r) \/ KillWorker(r) \/ TypePath(r)
    PROVE  RunInv'
<1> USE DEF RunInv, Typed, NotStarted, WorkerOwnsState, CancelHasRun, ListedHasRun,
            DeletedIsOver, ManifestFirst, Over, Ended, runVars, jobVars, cancelVars, editVars, modelVars, bounds, WriteState, JobTo, WorkerTo,
            workerFrame
<1>1. CASE StartRun(r)
  BY <1>1 DEF StartRun, Fresh
<1>2. CASE StartCutShort(r)
  BY <1>2 DEF StartCutShort, Fresh
<1>3. CASE StartFails(r)
  BY <1>3 DEF StartFails, Fresh
<1>4. CASE SpawnWorker(r)
  BY <1>4 DEF SpawnWorker
<1>5. CASE SpawnFails(r)
  BY <1>5 DEF SpawnFails
<1>6. CASE RecoverJob(r)
  BY <1>6 DEF RecoverJob
<1>7. CASE Mirror(r)
  BY <1>7 DEF Mirror
<1>8. CASE WorkerBoot(r)
  <2>1. CASE WriteState(r, "running") /\ WorkerTo(r, "train") /\ UNCHANGED job
    BY <1>8, <2>1 DEF WorkerBoot
  <2>2. CASE /\ WorkerTo(r, "gone")
             /\ job' = [job EXCEPT ![r] = "cancelled"]
             /\ UNCHANGED runVars
    BY <1>8, <2>2 DEF WorkerBoot
  <2>3. QED
    BY <1>8, <2>1, <2>2 DEF WorkerBoot
<1>9. CASE Train(r)
  <2>1. CASE WorkerTo(r, "manifest") /\ UNCHANGED runVars
    BY <1>9, <2>1 DEF Train
  <2>2. CASE WriteState(r, "failed") /\ WorkerTo(r, "report")
    BY <1>9, <2>2 DEF Train
  <2>3. QED
    BY <1>9, <2>1, <2>2 DEF Train
<1>10. CASE WriteManifest(r)
  BY <1>10 DEF WriteManifest
<1>11. CASE Complete(r)
  BY <1>11 DEF Complete
<1>12. CASE Report(r)
  BY <1>12 DEF Report
<1>13. CASE KillWorker(r)
  BY <1>13 DEF KillWorker, Alive
<1>14. CASE TypePath(r)
  BY <1>14 DEF TypePath, editFrame
<1>15. QED
  BY <1>1, <1>2, <1>3, <1>4, <1>5, <1>6, <1>7, <1>8, <1>9, <1>10, <1>11, <1>12, <1>13,
     <1>14 DEF WorkerStep

(* So does a cancel, at each of its steps.                                 *)
LEMMA CancelStepRun ==
    ASSUME RunInv, NEW c \in Cancels,
           CancelStep(c) \/ \E r \in Runs : RequestCancel(c, r)
    PROVE  RunInv'
<1> USE DEF RunInv, Typed, NotStarted, WorkerOwnsState, CancelHasRun, ListedHasRun,
            DeletedIsOver, ManifestFirst, Over, Ended, runVars, jobVars, cancelVars,
            editVars, modelVars, bounds, WriteState, JobTo, CancelTo
<1>1. ASSUME NEW r \in Runs, RequestCancel(c, r)
      PROVE  RunInv'
  <2>1. CASE /\ job[r] \in {"queued", "cancelled"}
             /\ JobTo(r, "cancelled", {"cancelled"})
             /\ CancelTo(c, "done", NoRun)
    BY <1>1, <2>1 DEF RequestCancel
  <2>2. CASE /\ job[r] \in {"running", "cancelling"}
             /\ JobTo(r, "cancelling", {})
             /\ CancelTo(c, "kill", r)
    BY <1>1, <2>2 DEF RequestCancel
  <2>3. CASE /\ job[r] = "none"
             /\ UNCHANGED <<job, mirror>>
             /\ CancelTo(c, "write", r)
    <3>1. worker[r] = "gone"
      BY <1>1, <2>3 DEF RequestCancel
    <3>2. QED
      BY <1>1, <2>3, <3>1 DEF RequestCancel
  <2>4. QED
    BY <1>1, <2>1, <2>2, <2>3 DEF RequestCancel
<1>2. CASE CancelWorker(c)
  BY <1>2 DEF CancelWorker
<1>3. CASE CancelUnconfirmed(c)
  BY <1>3 DEF CancelUnconfirmed
<1>4. CASE WriteCancelled(c)
  BY <1>4 DEF WriteCancelled
<1>5. QED
  BY <1>1, <1>2, <1>3, <1>4 DEF CancelStep

(* So does a listing, which may overwrite the state of a run whose worker  *)
(* is gone.                                                                *)
LEMMA ListStepRun ==
    ASSUME RunInv, NEW l \in Listers, Reclassify(l) \/ \E r \in Runs : ReadState(l, r)
    PROVE  RunInv'
<1> USE DEF RunInv, Typed, NotStarted, WorkerOwnsState, CancelHasRun, ListedHasRun,
            DeletedIsOver, ManifestFirst, Over, Ended, runVars, jobVars, cancelVars, editVars, modelVars, bounds
<1>1. CASE Reclassify(l)
  <2> DEFINE r == listing[l]
  <2>1. r \in Runs /\ worker[r] \notin {"none", "boot"} /\ listing' = [listing EXCEPT ![l] = NoRun]
    BY <1>1 DEF Reclassify
  <2>2. CASE UNCHANGED runVars
    BY <1>1, <2>1, <2>2 DEF Reclassify
  <2>3. CASE ~Alive(r) /\ WriteState(r, "interrupted")
    <3>1. worker[r] = "gone"
      BY <2>1, <2>3 DEF Alive
    <3> HIDE DEF r
    <3>2. QED
      BY <1>1, <2>1, <2>3, <3>1 DEF Reclassify, WriteState
  <2>4. QED
    BY <1>1, <2>2, <2>3 DEF Reclassify, Abandoned
<1>2. ASSUME NEW r \in Runs, ReadState(l, r)
      PROVE  RunInv'
  BY <1>2 DEF ReadState
<1>3. QED
  BY <1>1, <1>2

(* So does an editor: what it deletes is over.                             *)
LEMMA EditStepRun ==
    ASSUME RunInv, NEW e \in Editors,
           \/ EditStep(e)
           \/ \E r \in Runs : AskRegister(e, r) \/ AskPromote(e, r) \/ AskDelete(e, r)
    PROVE  RunInv'
<1> USE DEF RunInv, Typed, NotStarted, WorkerOwnsState, CancelHasRun, ListedHasRun,
            DeletedIsOver, ManifestFirst, Over, Ended, runVars, jobVars, cancelVars, editVars, modelVars, bounds, editFrame, EditTo, Finish
<1>1. CASE WriteRegistered(e)
  BY <1>1 DEF WriteRegistered
<1>2. CASE WritePromoted(e)
  BY <1>2 DEF WritePromoted
<1>3. CASE WriteChosenPath(e)
  BY <1>3 DEF WriteChosenPath
<1>4. CASE DropModel(e)
  BY <1>4 DEF DropModel
<1>5. CASE ClearPath(e)
  BY <1>5 DEF ClearPath
<1>6. CASE RemoveRun(e)
  BY <1>6 DEF RemoveRun
<1>7. ASSUME NEW r \in Runs, AskRegister(e, r) \/ AskPromote(e, r)
      PROVE  RunInv'
  BY <1>7 DEF AskRegister, AskPromote
<1>8. ASSUME NEW r \in Runs, AskDelete(e, r)
      PROVE  RunInv'
  <2>1. Over(r)
    BY <1>8 DEF AskDelete, Active, Abandoned, Alive
  <2>2. QED
    BY <1>8, <2>1 DEF AskDelete
<1>9. QED
  BY <1>1, <1>2, <1>3, <1>4, <1>5, <1>6, <1>7, <1>8 DEF EditStep

(* No step disturbs the invariant.                                         *)
LEMMA NextRun == RunInv /\ [Next]_vars => RunInv'
<1> SUFFICES ASSUME RunInv, [Next]_vars
             PROVE  RunInv'
  OBVIOUS
<1>1. CASE RestartBackend
  BY <1>1 DEF RestartBackend, RunInv, Typed, NotStarted, WorkerOwnsState, CancelHasRun, ListedHasRun,
              DeletedIsOver, ManifestFirst, Over, Ended, runVars, modelVars
<1>2. CASE UNCHANGED vars
  BY <1>2 DEF vars, RunInv, Typed, NotStarted, WorkerOwnsState, CancelHasRun, ListedHasRun, DeletedIsOver,
              ManifestFirst, Over, Ended, runVars, jobVars, cancelVars, editVars
<1>3. QED
  BY <1>1, <1>2, JobStepRun, CancelStepRun, ListStepRun, EditStepRun DEF Next

(* The invariant holds in every reachable state.                           *)
THEOREM RunInvariant == Spec => []RunInv
  BY InitRun, NextRun, PTL DEF Spec

(* A completed run has its manifest, whatever listings, mirrored jobs and  *)
(* deletions write meanwhile (train writes the manifest before the state). *)
THEOREM CompletedRunsAreFinished == Spec => []CompletedIsFinished
<1>1. RunInv => CompletedIsFinished
  BY DEF RunInv, ManifestFirst, CompletedIsFinished
<1>2. QED
  BY <1>1, RunInvariant, PTL

(* A deletion finds the worker gone when it reaches the directory, however *)
(* long ago it checked the state (delete_training_run_endpoint).           *)
THEOREM DeletionSparesWorkers == Spec => DeleteSparesWorker
<1> DEFINE Spared == \A r \in Runs : dir[r] /\ ~dir'[r] => ~Alive(r) \/ worker[r] = "report"
<1>1. ASSUME RunInv, [Next]_vars
      PROVE  Spared
  <2> SUFFICES ASSUME NEW r \in Runs, dir[r], ~dir'[r]
               PROVE  ~Alive(r) \/ worker[r] = "report"
    OBVIOUS
  <2> USE DEF RunInv, Typed, runVars
  <2>1. PICK e \in Editors : RemoveRun(e)
    <3>1. ASSUME NEW s \in Runs,
                 \/ StartRun(s) \/ StartCutShort(s) \/ StartFails(s)
                 \/ SpawnWorker(s) \/ SpawnFails(s) \/ RecoverJob(s) \/ Mirror(s)
                 \/ WorkerStep(s) \/ KillWorker(s) \/ TypePath(s)
          PROVE  FALSE
      BY <1>1, <3>1 DEF StartRun, StartCutShort, StartFails, SpawnWorker, SpawnFails,
          RecoverJob, Mirror, WorkerStep, WorkerBoot, Train, WriteManifest, Complete,
          Report, KillWorker, TypePath, WriteState
    <3>2. ASSUME NEW l \in Listers, Reclassify(l) \/ \E s \in Runs : ReadState(l, s)
          PROVE  FALSE
      BY <1>1, <3>2 DEF Reclassify, ReadState, WriteState
    <3>7. ASSUME NEW c \in Cancels, CancelStep(c) \/ \E s \in Runs : RequestCancel(c, s)
          PROVE  FALSE
      <4>1. cancel[c] = "write" => target[c] \in Runs
        BY <1>1 DEF CancelHasRun
      <4>2. QED
        BY <1>1, <3>7, <4>1 DEF CancelStep, RequestCancel, CancelWorker, CancelUnconfirmed,
           WriteCancelled, WriteState
    <3>3. ~RestartBackend /\ ~UNCHANGED vars
      BY DEF RestartBackend, vars
    <3>4. ASSUME NEW e \in Editors, NEW s \in Runs,
                 AskRegister(e, s) \/ AskPromote(e, s) \/ AskDelete(e, s)
          PROVE  FALSE
      BY <3>4 DEF AskRegister, AskPromote, AskDelete
    <3>5. ASSUME NEW e \in Editors, EditStep(e), ~RemoveRun(e)
          PROVE  FALSE
      BY <3>5 DEF EditStep, WriteRegistered, WritePromoted, WriteChosenPath, DropModel, ClearPath
    <3>6. QED
      BY <1>1, <3>1, <3>2, <3>3, <3>4, <3>5, <3>7 DEF Next
  <2>2. run[e] = r
    BY <1>1, <2>1 DEF RemoveRun
  <2>3. Over(r)
    BY <1>1, <2>1, <2>2 DEF RemoveRun, DeletedIsOver
  <2>4. QED
    BY <2>3 DEF Over, Alive
<1>2. QED
  BY <1>1, RunInvariant, PTL DEF Spec, DeleteSparesWorker
-----------------------------------------------------------------------------
(* Type correctness, with what is left of a deleted directory: the parts of *)
(* TypeOK beside Typed.                                                    *)
ModelTyped ==
    /\ registry \in Registry
    /\ config \in Runs \union {NoRun} /\ typed \in BOOLEAN
    /\ loc \in [Editors -> Registry]

Bounded == kills \in 0..MaxFaults /\ crashes \in 0..MaxFaults

DeletedIsEmpty == \A r \in Runs : ~dir[r] => state[r] = "none" /\ ~manifest[r]

(* The parts make TypeOK.                                                  *)
LEMMA TypeParts == TypeOK <=> Typed /\ ModelTyped /\ Bounded /\ DeletedIsEmpty
  BY DEF TypeOK, Typed, ModelTyped, Bounded, DeletedIsEmpty

(* An empty registry is one.                                               *)
LEMMA EmptyRegistry == Empty \in Registry
  BY DEF Empty, Registry

(* A project without training runs has the types.                          *)
LEMMA InitTyped == Init => TypeOK
<1> SUFFICES ASSUME Init
             PROVE  TypeOK
  OBVIOUS
<1>1. Typed
  BY InitRun DEF RunInv
<1>2. ModelTyped
  BY EmptyRegistry DEF Init, ModelTyped
<1>3. Bounded /\ DeletedIsEmpty
  BY RunsAssumption DEF Init, Bounded, DeletedIsEmpty
<1>4. QED
  BY <1>1, <1>2, <1>3, TypeParts

(* What is changed of the registry, the path and an editor's copy is one   *)
(* of their kind.                                                          *)
LEMMA StepModelTyped == RunInv /\ ModelTyped /\ [Next]_vars => ModelTyped'
<1> SUFFICES ASSUME Typed, ModelTyped, [Next]_vars
             PROVE  ModelTyped'
  BY DEF RunInv
<1> USE DEF Typed, ModelTyped
<1>1. ASSUME UNCHANGED modelVars, UNCHANGED loc
      PROVE  ModelTyped'
  BY <1>1 DEF modelVars
<1>2. ASSUME NEW r \in Runs,
             \/ StartRun(r) \/ StartCutShort(r) \/ StartFails(r)
             \/ SpawnWorker(r) \/ SpawnFails(r) \/ RecoverJob(r) \/ Mirror(r)
             \/ WorkerStep(r) \/ KillWorker(r)
      PROVE  ModelTyped'
  BY <1>1, <1>2 DEF StartRun, StartCutShort, StartFails, SpawnWorker, SpawnFails,
     RecoverJob, Mirror, WorkerStep, WorkerBoot, Train, WriteManifest, Complete,
     Report, KillWorker, workerFrame, editVars
<1>c. ASSUME NEW c \in Cancels, CancelStep(c) \/ \E r \in Runs : RequestCancel(c, r)
      PROVE  ModelTyped'
  BY <1>1, <1>c DEF CancelStep, RequestCancel, CancelWorker, CancelUnconfirmed,
     WriteCancelled, editVars
<1>3. ASSUME NEW r \in Runs, TypePath(r)
      PROVE  ModelTyped'
  BY <1>3 DEF TypePath, editVars
<1>4. ASSUME NEW l \in Listers, Reclassify(l) \/ \E r \in Runs : ReadState(l, r)
      PROVE  ModelTyped'
  BY <1>1, <1>4 DEF Reclassify, ReadState, editVars
<1> USE DEF Finish, EditTo, modelVars
<1>5. ASSUME NEW e \in Editors, NEW r \in Runs,
             AskRegister(e, r) \/ AskPromote(e, r) \/ AskDelete(e, r)
      PROVE  ModelTyped'
  <2>1. /\ [registry EXCEPT !.models = @ \union {r}] \in Registry
        /\ [registry EXCEPT !.current = r] \in Registry
    BY DEF Registry
  <2> HIDE DEF Typed
  <2>2. CASE AskRegister(e, r)
    BY <2>1, <2>2 DEF AskRegister
  <2>3. CASE AskPromote(e, r)
    BY <2>1, <2>3 DEF AskPromote
  <2>4. CASE AskDelete(e, r)
    BY <2>4 DEF AskDelete
  <2>5. QED
    BY <1>5, <2>2, <2>3, <2>4
<1>6. ASSUME NEW e \in Editors, EditStep(e)
      PROVE  ModelTyped'
  <2>0. run[e] \in Runs \union {NoRun}
    BY DEF Typed
  <2> HIDE DEF Typed
  <2>1. CASE WriteRegistered(e)
    BY <2>1, EmptyRegistry DEF WriteRegistered
  <2>2. CASE WriteChosenPath(e)
    BY <2>0, <2>2, EmptyRegistry DEF WriteChosenPath
  <2>5. CASE WritePromoted(e)
    BY <2>5 DEF WritePromoted
  <2>6. CASE ClearPath(e)
    BY <2>6 DEF ClearPath
  <2>3. CASE DropModel(e)
    <3>1. [models |-> loc[e].models \ {run[e]},
           current |-> IF loc[e].current = run[e] THEN NoRun ELSE loc[e].current] \in Registry
      BY DEF Registry
    <3>2. QED
      BY <2>3, <3>1 DEF DropModel
  <2>4. CASE RemoveRun(e)
    BY <2>4, EmptyRegistry DEF RemoveRun
  <2>7. QED
    BY <1>6, <2>1, <2>2, <2>3, <2>4, <2>5, <2>6 DEF EditStep
<1>7. CASE RestartBackend
  BY <1>7, EmptyRegistry DEF RestartBackend
<1>8. CASE UNCHANGED vars
  BY <1>8 DEF vars, editVars
<1>9. QED
  BY <1>2, <1>c, <1>3, <1>4, <1>5, <1>6, <1>7, <1>8 DEF Next

(* The bounds are kept.                                                    *)
LEMMA StepBounded == Bounded /\ [Next]_vars => Bounded'
<1> SUFFICES ASSUME Bounded, [Next]_vars
             PROVE  Bounded'
  OBVIOUS
<1> USE RunsAssumption DEF Bounded
<1>1. ASSUME UNCHANGED bounds
      PROVE  Bounded'
  BY <1>1 DEF bounds
<1>2. ASSUME NEW r \in Runs, StartCutShort(r) \/ KillWorker(r)
      PROVE  Bounded'
  BY <1>2 DEF StartCutShort, KillWorker
<1>3. ASSUME NEW r \in Runs,
             \/ StartRun(r) \/ StartFails(r) \/ SpawnWorker(r) \/ SpawnFails(r)
             \/ RecoverJob(r) \/ Mirror(r) \/ WorkerStep(r) \/ TypePath(r)
      PROVE  Bounded'
  BY <1>1, <1>3 DEF StartRun, StartFails, SpawnWorker, SpawnFails, RecoverJob, Mirror,
     WorkerStep, WorkerBoot, Train, WriteManifest, Complete, Report, TypePath, workerFrame, editFrame
<1>c. ASSUME NEW c \in Cancels, CancelStep(c) \/ \E r \in Runs : RequestCancel(c, r)
      PROVE  Bounded'
  BY <1>1, <1>c DEF CancelStep, RequestCancel, CancelWorker, CancelUnconfirmed,
     WriteCancelled
<1>4. ASSUME NEW l \in Listers, Reclassify(l) \/ \E r \in Runs : ReadState(l, r)
      PROVE  Bounded'
  BY <1>1, <1>4 DEF Reclassify, ReadState
<1>5. ASSUME NEW e \in Editors,
             \/ EditStep(e)
             \/ \E r \in Runs : AskRegister(e, r) \/ AskPromote(e, r) \/ AskDelete(e, r)
      PROVE  Bounded'
  BY <1>1, <1>5 DEF EditStep, WriteRegistered, WritePromoted, WriteChosenPath, DropModel, ClearPath,
     RemoveRun, AskRegister, AskPromote, AskDelete, editFrame
<1>6. CASE RestartBackend
  BY <1>6 DEF RestartBackend
<1>7. CASE UNCHANGED vars
  BY <1>1, <1>7 DEF vars
<1>8. QED
  BY <1>2, <1>c, <1>3, <1>4, <1>5, <1>6, <1>7 DEF Next

(* Whoever writes into a directory makes it, and a deletion leaves nothing *)
(* in it.                                                                  *)
LEMMA StepDeleted == RunInv /\ DeletedIsEmpty /\ [Next]_vars => DeletedIsEmpty'
<1> SUFFICES ASSUME Typed, CancelHasRun, DeletedIsEmpty, [Next]_vars
             PROVE  DeletedIsEmpty'
  BY DEF RunInv
<1> USE DEF DeletedIsEmpty
<1>1. ASSUME UNCHANGED runVars
      PROVE  DeletedIsEmpty'
  BY <1>1 DEF runVars
<1>2. ASSUME NEW r \in Runs, NEW s, WriteState(r, s)
      PROVE  DeletedIsEmpty'
  BY <1>2 DEF WriteState, Typed
<1>3. ASSUME NEW r \in Runs,
             \/ StartRun(r) \/ StartCutShort(r) \/ StartFails(r)
             \/ SpawnWorker(r) \/ SpawnFails(r) \/ RecoverJob(r) \/ Mirror(r)
             \/ WorkerBoot(r) \/ Train(r) \/ Complete(r) \/ Report(r)
             \/ KillWorker(r) \/ TypePath(r)
      PROVE  DeletedIsEmpty'
  <2> HIDE DEF DeletedIsEmpty
  <2>1. QED
    BY <1>1, <1>2, <1>3 DEF StartRun, StartCutShort, StartFails, SpawnWorker, SpawnFails,
       RecoverJob, Mirror, WorkerBoot, Train, Complete, Report, KillWorker, TypePath
<1>c. ASSUME NEW c \in Cancels, CancelStep(c) \/ \E r \in Runs : RequestCancel(c, r)
      PROVE  DeletedIsEmpty'
  <2>1. cancel[c] = "write" => target[c] \in Runs
    BY DEF CancelHasRun
  <2> HIDE DEF DeletedIsEmpty
  <2>2. QED
    BY <1>1, <1>2, <1>c, <2>1 DEF CancelStep, RequestCancel, CancelWorker,
       CancelUnconfirmed, WriteCancelled
<1>4. ASSUME NEW r \in Runs, WriteManifest(r)
      PROVE  DeletedIsEmpty'
  BY <1>4 DEF WriteManifest, Typed, workerFrame
<1>5. ASSUME NEW l \in Listers, Reclassify(l) \/ \E r \in Runs : ReadState(l, r)
      PROVE  DeletedIsEmpty'
  <2>1. listing[l] # NoRun => listing[l] \in Runs
    BY DEF Typed
  <2> HIDE DEF DeletedIsEmpty
  <2>2. QED
    BY <1>1, <1>2, <1>5, <2>1 DEF Reclassify, ReadState
<1>6. ASSUME NEW e \in Editors, NEW r \in Runs, AskDelete(e, r)
      PROVE  DeletedIsEmpty'
  BY <1>6 DEF AskDelete, Typed
<1>7. ASSUME NEW e \in Editors, RemoveRun(e)
      PROVE  DeletedIsEmpty'
  BY <1>7 DEF RemoveRun, Typed
<1>8. ASSUME NEW e \in Editors,
             \/ WriteRegistered(e) \/ WritePromoted(e) \/ WriteChosenPath(e)
             \/ DropModel(e) \/ ClearPath(e)
             \/ \E r \in Runs : AskRegister(e, r) \/ AskPromote(e, r)
      PROVE  DeletedIsEmpty'
  BY <1>1, <1>8 DEF WriteRegistered, WritePromoted, WriteChosenPath, DropModel, ClearPath,
     AskRegister, AskPromote
<1>9. CASE RestartBackend \/ UNCHANGED vars
  BY <1>1, <1>9 DEF RestartBackend, vars
<1>10. QED
  BY <1>3, <1>c, <1>4, <1>5, <1>6, <1>7, <1>8, <1>9 DEF Next, WorkerStep, EditStep

(* The variables keep their types (job_state.json, model_registry.json and *)
(* prediction_config, whoever writes them), and a run directory that is    *)
(* gone holds neither a state nor a manifest.                              *)
THEOREM TrainingTypes == Spec => []TypeOK
<1> DEFINE Rest == ModelTyped /\ Bounded /\ DeletedIsEmpty
<1>1. Init => Rest
  BY InitTyped, TypeParts
<1>2. RunInv /\ Rest /\ [Next]_vars => Rest'
  BY StepModelTyped, StepBounded, StepDeleted
<1>3. RunInv /\ Rest => TypeOK
  BY TypeParts DEF RunInv
<1> HIDE DEF Rest
<1>4. QED
  BY <1>1, <1>2, <1>3, RunInvariant, PTL DEF Spec
-----------------------------------------------------------------------------
(* The registry and prediction_config, with one editor at a time: nothing  *)
(* excludes a second one, and two overtake each other.                     *)

(* What the editor is about to write follows from what is stored.          *)
CopyIsCurrent ==
    \A e \in Editors :
        /\ pc[e] = "register" =>
             /\ loc[e].models = registry.models \union {run[e]}
             /\ loc[e].current = registry.current
             /\ run[e] \in Runs /\ manifest[run[e]]
        /\ pc[e] = "promote" =>
             /\ loc[e].models = registry.models
             /\ loc[e].current = run[e] /\ run[e] \in registry.models
        /\ pc[e] = "choose" => registry.current = run[e] /\ run[e] \in registry.models
        /\ pc[e] = "drop" => loc[e] = registry /\ run[e] \in Runs
        /\ pc[e] \in {"clear", "remove"} => run[e] \in Runs \ registry.models

(* A chosen path is that of the current model, except between the write of *)
(* the registry and that of the path.                                      *)
ChosenIsCurrent ==
    crashes = 0 /\ ~typed /\ config # NoRun =>
        /\ manifest[config]
        /\ \A e \in Editors : pc[e] \notin {"choose", "clear"} =>
             config = registry.current /\ config \in registry.models
        /\ \A e \in Editors : pc[e] = "choose" => config \in registry.models

ModelInv == RegisteredIsFinished /\ CopyIsCurrent /\ ChosenIsCurrent

(* An empty registry satisfies it.                                         *)
LEMMA InitModel == Init => ModelInv
  BY DEF Init, ModelInv, RegisteredIsFinished, CopyIsCurrent, ChosenIsCurrent, Empty

(* What the job manager, the worker and listings do leaves the registry    *)
(* and the editors alone, and only adds manifests.                         *)
LEMMA QuietStep ==
    ASSUME TypeOK, TypeOK', [Next]_vars, ~RestartBackend,
           \A e \in Editors :
               /\ ~EditStep(e)
               /\ \A r \in Runs : ~AskRegister(e, r) /\ ~AskPromote(e, r) /\ ~AskDelete(e, r)
    PROVE  /\ UNCHANGED <<registry, pc, run, loc>>
           /\ \A r \in Runs : manifest[r] => manifest'[r]
           /\ typed' \/ UNCHANGED <<config, typed>>
           /\ crashes' = 0 => crashes = 0
<1>1. manifest \in [Runs -> BOOLEAN] /\ crashes \in Nat /\ crashes' \in Nat
  BY RunsAssumption DEF TypeOK
<1> USE DEF runVars, modelVars, editVars, bounds, workerFrame, editFrame, WriteState
<1>2. ASSUME NEW r \in Runs, StartCutShort(r) \/ WriteManifest(r) \/ TypePath(r)
      PROVE  /\ UNCHANGED <<registry, pc, run, loc>>
             /\ \A q \in Runs : manifest[q] => manifest'[q]
             /\ typed' \/ UNCHANGED <<config, typed>>
             /\ crashes' = 0 => crashes = 0
  BY <1>1, <1>2 DEF StartCutShort, WriteManifest, TypePath
<1>3. ASSUME NEW r \in Runs,
             \/ StartRun(r) \/ StartFails(r) \/ SpawnWorker(r) \/ SpawnFails(r)
             \/ RecoverJob(r) \/ Mirror(r)
             \/ WorkerBoot(r) \/ Train(r) \/ Complete(r) \/ Report(r) \/ KillWorker(r)
      PROVE  UNCHANGED <<registry, pc, run, loc, manifest, config, typed, crashes>>
  BY <1>3 DEF StartRun, StartFails, SpawnWorker, SpawnFails, RecoverJob,
     Mirror, WorkerBoot, Train, Complete, Report, KillWorker
<1>c. ASSUME NEW c \in Cancels, CancelStep(c) \/ \E r \in Runs : RequestCancel(c, r)
      PROVE  UNCHANGED <<registry, pc, run, loc, manifest, config, typed, crashes>>
  BY <1>c DEF CancelStep, RequestCancel, CancelWorker, CancelUnconfirmed, WriteCancelled
<1>4. ASSUME NEW l \in Listers, Reclassify(l) \/ \E r \in Runs : ReadState(l, r)
      PROVE  UNCHANGED <<registry, pc, run, loc, manifest, config, typed, crashes>>
  BY <1>4 DEF Reclassify, ReadState
<1>5. ASSUME UNCHANGED vars
      PROVE  UNCHANGED <<registry, pc, run, loc, manifest, config, typed, crashes>>
  BY <1>5 DEF vars
<1>6. QED
  BY <1>2, <1>3, <1>c, <1>4, <1>5 DEF Next, WorkerStep

(* One editor at a time leaves a registry whose models are finished and a  *)
(* path that follows the current model.                                    *)
LEMMA StepModel ==
    ASSUME \A e, f \in Editors : e = f,
           TypeOK, TypeOK', ModelInv, [Next]_vars
    PROVE  ModelInv'
<1>1. /\ registry.models \subseteq Runs /\ manifest \in [Runs -> BOOLEAN]
      /\ pc \in [Editors -> {"idle", "register", "promote", "choose", "drop", "clear", "remove"}]
      /\ run \in [Editors -> Runs \union {NoRun}]
      /\ loc \in [Editors -> Registry]
      /\ registry \in Registry
      /\ config \in Runs \union {NoRun}
  BY DEF TypeOK, Registry
<1> USE DEF ModelInv, RegisteredIsFinished, CopyIsCurrent, ChosenIsCurrent
<1>2. ASSUME UNCHANGED <<registry, pc, run, loc>>,
             \A r \in Runs : manifest[r] => manifest'[r],
             typed' \/ UNCHANGED <<config, typed>>,
             crashes' = 0 => crashes = 0
      PROVE  ModelInv'
  <2>1. RegisteredIsFinished'
    BY <1>1, <1>2
  <2>2. CopyIsCurrent'
    BY <1>1, <1>2
  <2>3. ChosenIsCurrent'
    BY <1>1, <1>2
  <2>4. QED
    BY <2>1, <2>2, <2>3
<1>3. CASE RestartBackend
  <2>1. crashes' # 0
    BY <1>3, RunsAssumption DEF RestartBackend, TypeOK
  <2>2. QED
    BY <1>1, <1>3, <2>1 DEF RestartBackend, runVars, modelVars
<1> USE DEF runVars, modelVars, editFrame, bounds, EditTo, Finish
<1>4. ASSUME NEW e \in Editors, WriteRegistered(e)
      PROVE  ModelInv'
  BY <1>1, <1>4 DEF WriteRegistered
<1>5. ASSUME NEW e \in Editors, WritePromoted(e)
      PROVE  ModelInv'
  BY <1>1, <1>5 DEF WritePromoted
<1>6. ASSUME NEW e \in Editors, WriteChosenPath(e)
      PROVE  ModelInv'
  BY <1>1, <1>6 DEF WriteChosenPath
<1>7. ASSUME NEW e \in Editors, DropModel(e)
      PROVE  ModelInv'
  BY <1>1, <1>7 DEF DropModel
<1>8. ASSUME NEW e \in Editors, ClearPath(e)
      PROVE  ModelInv'
  BY <1>1, <1>8 DEF ClearPath
<1>9. ASSUME NEW e \in Editors, RemoveRun(e)
      PROVE  ModelInv'
  BY <1>1, <1>9 DEF RemoveRun
<1>10. ASSUME NEW e \in Editors, NEW r \in Runs, AskRegister(e, r)
       PROVE  ModelInv'
  BY <1>1, <1>10 DEF AskRegister, Registry
<1>11. ASSUME NEW e \in Editors, NEW r \in Runs, AskPromote(e, r)
       PROVE  ModelInv'
  BY <1>1, <1>11 DEF AskPromote, Registry
<1>12. ASSUME NEW e \in Editors, NEW r \in Runs, AskDelete(e, r)
       PROVE  ModelInv'
  BY <1>1, <1>12 DEF AskDelete
<1> HIDE DEF ModelInv, runVars, modelVars, editFrame, bounds, EditTo, Finish
<1>13. QED
  BY <1>2, <1>3, <1>4, <1>5, <1>6, <1>7, <1>8, <1>9, <1>10, <1>11, <1>12, QuietStep DEF EditStep

(* It holds in every reachable state.                                      *)
LEMMA ModelInvariant ==
    ASSUME \A e, f \in Editors : e = f
    PROVE  Spec => []ModelInv
<1>1. TypeOK /\ TypeOK' /\ ModelInv /\ [Next]_vars => ModelInv'
  BY StepModel
<1>2. QED
  BY <1>1, InitModel, TrainingTypes, PTL DEF Spec

(* Every model of the registry has its manifest and weights on disk, when  *)
(* editors come one at a time: remove_model comes before                   *)
(* delete_training_run, wherever a restart cuts the deletion short.        *)
THEOREM RegisteredModelsAreFinished ==
    ASSUME \A e, f \in Editors : e = f
    PROVE  Spec => []RegisteredIsFinished
<1>1. ModelInv => RegisteredIsFinished
  BY DEF ModelInv
<1>2. QED
  BY <1>1, ModelInvariant, PTL

(* The checkpoint a promotion chose exists, when editors come one at a     *)
(* time and no restart falls between the two files.                        *)
THEOREM ChosenPathsResolve ==
    ASSUME \A e, f \in Editors : e = f
    PROVE  Spec => []PathResolves
<1>1. ModelInv => PathResolves
  BY DEF ModelInv, ChosenIsCurrent, PathResolves
<1>2. QED
  BY <1>1, ModelInvariant, PTL
=============================================================================
