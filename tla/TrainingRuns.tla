---------------------------- MODULE TrainingRuns ----------------------------
(***************************************************************************)
(* Training runs and the model registry: routers/training.py,              *)
(* services/training_runs.py, services/model_registry.py and the worker    *)
(* training_worker.py.                                                     *)
(*                                                                         *)
(* A run has a directory with its own job_state.json beside the state of   *)
(* its common job (module JobManager, abstracted here to what is mirrored).*)
(* The worker, the mirror of the common job and every listing write        *)
(* job_state.json, each from a copy it read before and none under a lock.  *)
(* The registry and prediction_config are two files written in turn.       *)
(***************************************************************************)
EXTENDS Naturals, FiniteSets

CONSTANTS
    Runs,        \* ids of training runs
    Listers,     \* requests that list runs, and so reclassify them
    Editors,     \* requests that register, promote and delete
    NoRun,
    Cancels,     \* requests to cancel a run, one each
    MaxFaults    \* bound on workers that die without a word and on restarts
                 \* of the backend

ASSUME RunsAssumption ==
    /\ NoRun \notin Runs
    /\ MaxFaults \in Nat

Ended == {"failed", "completed", "interrupted", "cancelled"}
Registry == [models: SUBSET Runs, current: Runs \union {NoRun}]

VARIABLES
    dir,        \* does the run directory exist?
    state,      \* status in job_state.json
    manifest,   \* is the run finished: weights, metrics and manifest on disk?
    job,        \* status of the common job
    mirror,     \* terminal statuses that backend threads are about to mirror
    worker,     \* where the training process stands
    cancel,     \* where a request to cancel stands
    target,     \* the run it cancels
    listing,    \* the run whose state a lister read as running
    registry,   \* model_registry.json
    config,     \* the run whose checkpoint prediction_config names
    typed,      \* was that path typed by the user?
    pc, run,    \* where an editor stands, and the run it was asked about
    loc,        \* its copy of the registry
    kills, crashes

runVars == <<dir, state, manifest>>
jobVars == <<job, mirror, worker>>
cancelVars == <<cancel, target>>
modelVars == <<registry, config, typed>>
editVars == <<pc, run, loc>>
bounds == <<kills, crashes>>
vars == <<runVars, jobVars, cancelVars, listing, modelVars, editVars, bounds>>

Empty == [models |-> {}, current |-> NoRun]

TypeOK ==
    /\ dir \in [Runs -> BOOLEAN] /\ manifest \in [Runs -> BOOLEAN]
    /\ state \in [Runs -> Ended \union {"none", "queued", "running"}]
    /\ job \in [Runs -> {"none", "queued", "running", "cancelling", "cancelled", "ended"}]
    /\ mirror \in [Runs -> SUBSET Ended]
    /\ worker \in [Runs -> {"none", "boot", "train", "manifest", "complete", "report", "gone"}]
    /\ cancel \in [Cancels -> {"new", "kill", "write", "done"}]
    /\ target \in [Cancels -> Runs \union {NoRun}]
    /\ listing \in [Listers -> Runs \union {NoRun}]
    /\ registry \in Registry
    /\ config \in Runs \union {NoRun} /\ typed \in BOOLEAN
    /\ pc \in [Editors -> {"idle", "register", "promote", "choose", "drop", "clear", "remove"}]
    /\ run \in [Editors -> Runs \union {NoRun}]
    /\ loc \in [Editors -> Registry]
    /\ kills \in 0..MaxFaults /\ crashes \in 0..MaxFaults
    /\ \A r \in Runs : ~dir[r] => state[r] = "none" /\ ~manifest[r]

Init ==
    /\ dir = [r \in Runs |-> FALSE]
    /\ manifest = [r \in Runs |-> FALSE]
    /\ state = [r \in Runs |-> "none"]
    /\ job = [r \in Runs |-> "none"]
    /\ mirror = [r \in Runs |-> {}]
    /\ worker = [r \in Runs |-> "none"]
    /\ cancel = [c \in Cancels |-> "new"]
    /\ target = [c \in Cancels |-> NoRun]
    /\ listing = [l \in Listers |-> NoRun]
    /\ registry = Empty
    /\ config = NoRun /\ typed = FALSE
    /\ pc = [e \in Editors |-> "idle"]
    /\ run = [e \in Editors |-> NoRun]
    /\ loc = [e \in Editors |-> Empty]
    /\ kills = 0 /\ crashes = 0

(* Mutant of WriteState: a deleted directory is not made again.            *)
WriteStateInPlace(r, s) ==
    /\ state' = [state EXCEPT ![r] = s]
    /\ UNCHANGED <<dir, manifest>>

(* Every writer of a run directory makes it if it is missing.              *)
WriteState(r, s) ==
    /\ dir' = [dir EXCEPT ![r] = TRUE]
    /\ state' = [state EXCEPT ![r] = s]
    /\ UNCHANGED manifest

-----------------------------------------------------------------------------
(* The life of a run under the job manager.                                *)

(* Ids are made from the time and are never used again.                    *)
Fresh(r) == ~dir[r] /\ job[r] = "none" /\ worker[r] = "none"

(* post_training_run: job.json and a queued state, then the common job.    *)
StartRun(r) ==
    /\ Fresh(r)
    /\ WriteState(r, "queued")
    /\ job' = [job EXCEPT ![r] = "queued"]
    /\ UNCHANGED <<mirror, worker, listing, modelVars, editVars, cancelVars, bounds>>

(* The backend dies before it has submitted the common job: no worker will *)
(* come for this run.                                                      *)
StartCutShort(r) ==
    /\ Fresh(r)
    /\ kills + crashes < MaxFaults
    /\ crashes' = crashes + 1
    /\ WriteState(r, "queued")
    /\ worker' = [worker EXCEPT ![r] = "gone"]
    /\ UNCHANGED <<job, mirror, listing, modelVars, editVars, cancelVars, kills>>

(* The submission raises: the run is marked failed.                        *)
StartFails(r) ==
    /\ Fresh(r)
    /\ WriteState(r, "failed")
    /\ worker' = [worker EXCEPT ![r] = "gone"]
    /\ UNCHANGED <<job, mirror, listing, modelVars, editVars, cancelVars, bounds>>

JobTo(r, j, ends) ==
    /\ job' = [job EXCEPT ![r] = j]
    /\ mirror' = [mirror EXCEPT ![r] = @ \union ends]

SpawnWorker(r) ==
    /\ job[r] = "queued"
    /\ job' = [job EXCEPT ![r] = "running"]
    /\ worker' = [worker EXCEPT ![r] = "boot"]
    /\ UNCHANGED <<runVars, mirror, listing, modelVars, editVars, cancelVars, bounds>>

SpawnFails(r) ==
    /\ job[r] = "queued"
    /\ JobTo(r, "ended", {"failed"})
    /\ UNCHANGED <<runVars, worker, listing, modelVars, editVars, cancelVars, bounds>>

CancelTo(c, l, r) ==
    /\ cancel' = [cancel EXCEPT ![c] = l]
    /\ target' = [target EXCEPT ![c] = r]

(* cancel_job: a queued job is cancelled at once and a cancelled one is     *)
(* mirrored once more; for any other the request goes on to the process.   *)
(* cancel_training_run, for a run without a common job, reads its state.   *)
RequestCancel(c, r) ==
    /\ cancel[c] = "new"
    /\ dir[r]
    /\ \/ /\ job[r] \in {"queued", "cancelled"}
          /\ JobTo(r, "cancelled", {"cancelled"})
          /\ CancelTo(c, "done", NoRun)
       \/ /\ job[r] \in {"running", "cancelling"}
          /\ JobTo(r, "cancelling", {})
          /\ CancelTo(c, "kill", r)
       \/ /\ job[r] = "none" /\ state[r] = "queued"
          /\ UNCHANGED <<job, mirror>>
          /\ CancelTo(c, "write", r)
    /\ UNCHANGED <<runVars, worker, listing, modelVars, editVars, bounds>>

(* Once the process tree is gone the job is cancelled, whatever the worker  *)
(* or recover_jobs wrote last.                                             *)
CancelWorker(c) ==
    /\ cancel[c] = "kill"
    /\ worker' = [worker EXCEPT ![target[c]] = "gone"]
    /\ JobTo(target[c], "cancelled", {"cancelled"})
    /\ CancelTo(c, "done", NoRun)
    /\ UNCHANGED <<runVars, listing, modelVars, editVars, bounds>>

(* The end of the process cannot be confirmed: the job stays as it is.     *)
CancelUnconfirmed(c) ==
    /\ cancel[c] = "kill"
    /\ CancelTo(c, "done", NoRun)
    /\ UNCHANGED <<runVars, jobVars, listing, modelVars, editVars, bounds>>

(* cancel_training_run writes over a state it read before; a run without a *)
(* common job has no process to wait for.                                  *)
WriteCancelled(c) ==
    /\ cancel[c] = "write"
    /\ WriteState(target[c], "cancelled")
    /\ CancelTo(c, "done", NoRun)
    /\ UNCHANGED <<jobVars, listing, modelVars, editVars, bounds>>

CancelStep(c) == CancelWorker(c) \/ CancelUnconfirmed(c) \/ WriteCancelled(c)

(* recover_jobs meets a job whose worker is gone.                          *)
RecoverJob(r) ==
    /\ worker[r] = "gone"
    /\ \/ job[r] = "running" /\ JobTo(r, "ended", {"interrupted"})
       \/ job[r] = "cancelling" /\ JobTo(r, "cancelled", {"cancelled"})
    /\ UNCHANGED <<runVars, worker, listing, modelVars, editVars, cancelVars, bounds>>

(* _mirror_training_terminal: over any state, and into a deleted directory. *)
Mirror(r) ==
    /\ \E s \in mirror[r] :
        /\ WriteState(r, s)
        /\ mirror' = [mirror EXCEPT ![r] = @ \ {s}]
    /\ UNCHANGED <<job, worker, listing, modelVars, editVars, cancelVars, bounds>>

-----------------------------------------------------------------------------
(* The worker.                                                             *)

WorkerTo(r, l) == worker' = [worker EXCEPT ![r] = l]
workerFrame == <<mirror, listing, modelVars, editVars, cancelVars, bounds>>

(* A job that is no longer running is dropped before the training starts;  *)
(* job_state.json is not touched.                                          *)
WorkerBoot(r) ==
    /\ worker[r] = "boot"
    /\ IF job[r] = "running"
       THEN WriteState(r, "running") /\ WorkerTo(r, "train") /\ UNCHANGED job
       ELSE /\ WorkerTo(r, "gone")
            /\ job' = [job EXCEPT ![r] = "cancelled"]
            /\ UNCHANGED runVars
    /\ UNCHANGED workerFrame

Train(r) ==
    /\ worker[r] = "train"
    /\ \/ WorkerTo(r, "manifest") /\ UNCHANGED runVars
       \/ WriteState(r, "failed") /\ WorkerTo(r, "report")
    /\ UNCHANGED <<job, workerFrame>>

(* Mutant of WriteManifest: the manifest is left for later.                *)
WriteManifestLate(r) ==
    /\ worker[r] = "manifest"
    /\ WorkerTo(r, "complete")
    /\ UNCHANGED <<runVars, job, workerFrame>>

(* The manifest is written last, after the weights and the metrics.        *)
WriteManifest(r) ==
    /\ worker[r] = "manifest"
    /\ dir' = [dir EXCEPT ![r] = TRUE]
    /\ manifest' = [manifest EXCEPT ![r] = TRUE]
    /\ WorkerTo(r, "complete")
    /\ UNCHANGED <<state, job, workerFrame>>

Complete(r) ==
    /\ worker[r] = "complete"
    /\ WriteState(r, "completed")
    /\ WorkerTo(r, "report")
    /\ UNCHANGED <<job, workerFrame>>

(* The job ends as completed or failed, also when a cancel waits for it.    *)
Report(r) ==
    /\ worker[r] = "report"
    /\ job' = [job EXCEPT ![r] = IF @ = "cancelled" THEN @ ELSE "ended"]
    /\ WorkerTo(r, "gone")
    /\ UNCHANGED <<runVars, workerFrame>>

Alive(r) == worker[r] \notin {"none", "gone"}

KillWorker(r) ==
    /\ kills + crashes < MaxFaults
    /\ Alive(r)
    /\ kills' = kills + 1
    /\ WorkerTo(r, "gone")
    /\ UNCHANGED <<runVars, job, mirror, listing, modelVars, editVars,
                   cancelVars, crashes>>

WorkerStep(r) == WorkerBoot(r) \/ Train(r) \/ WriteManifest(r) \/ Complete(r) \/ Report(r)

-----------------------------------------------------------------------------
(* resolve_job_state, as every listing calls it.                           *)

ReadState(l, r) ==
    /\ listing[l] = NoRun
    /\ state[r] = "running"
    /\ listing' = [listing EXCEPT ![l] = r]
    /\ UNCHANGED <<runVars, jobVars, modelVars, editVars, cancelVars, bounds>>

(* Mutant of Abandoned: the stored state is trusted.                       *)
NeverAbandoned(r) == FALSE

(* A state read as running is abandoned if its process is gone.            *)
Abandoned(r) == ~Alive(r)

(* The probe, and the write of the state that was read.                    *)
Reclassify(l) ==
    LET r == listing[l] IN
    /\ r # NoRun
    /\ listing' = [listing EXCEPT ![l] = NoRun]
    /\ IF Abandoned(r) THEN WriteState(r, "interrupted") ELSE UNCHANGED runVars
    /\ UNCHANGED <<jobVars, modelVars, editVars, cancelVars, bounds>>

-----------------------------------------------------------------------------
(* The registry.                                                           *)

EditTo(e, l) == pc' = [pc EXCEPT ![e] = l]
Finish(e) ==
    /\ EditTo(e, "idle")
    /\ run' = [run EXCEPT ![e] = NoRun]
    /\ loc' = [loc EXCEPT ![e] = Empty]
editFrame == <<jobVars, cancelVars, listing, bounds>>

(* register_model and promote_model check the files and read the registry; *)
(* what they write is made from that copy.                                 *)
AskRegister(e, r) ==
    /\ pc[e] = "idle"
    /\ manifest[r] /\ r \notin registry.models
    /\ EditTo(e, "register")
    /\ run' = [run EXCEPT ![e] = r]
    /\ loc' = [loc EXCEPT ![e] = [registry EXCEPT !.models = @ \union {r}]]
    /\ UNCHANGED <<runVars, modelVars, editFrame>>

WriteRegistered(e) ==
    /\ pc[e] = "register"
    /\ registry' = loc[e]
    /\ Finish(e)
    /\ UNCHANGED <<runVars, config, typed, editFrame>>

AskPromote(e, r) ==
    /\ pc[e] = "idle"
    /\ manifest[r] /\ r \in registry.models
    /\ EditTo(e, "promote")
    /\ run' = [run EXCEPT ![e] = r]
    /\ loc' = [loc EXCEPT ![e] = [registry EXCEPT !.current = r]]
    /\ UNCHANGED <<runVars, modelVars, editFrame>>

WritePromoted(e) ==
    /\ pc[e] = "promote"
    /\ registry' = loc[e]
    /\ EditTo(e, "choose")
    /\ UNCHANGED <<runVars, config, typed, run, loc, editFrame>>

WriteChosenPath(e) ==
    /\ pc[e] = "choose"
    /\ config' = run[e] /\ typed' = FALSE
    /\ Finish(e)
    /\ UNCHANGED <<runVars, registry, editFrame>>

(* The prediction settings take any checkpoint.                            *)
TypePath(r) ==
    /\ manifest[r]
    /\ config' = r /\ typed' = TRUE
    /\ UNCHANGED <<runVars, registry, editVars, editFrame>>

(* Mutant of Active: a run is never held to be active.                     *)
NeverActive(r) == FALSE

(* training_run_delete_info after resolve_job_state: a state of running    *)
(* counts only while its process lives.                                    *)
Active(r) == \/ state[r] = "queued"
             \/ state[r] = "running" /\ ~Abandoned(r)

(* Mutant of AskDelete: the directory goes, its model stays registered.    *)
AskDeleteOnly(e, r) ==
    /\ pc[e] = "idle"
    /\ dir[r] /\ ~Active(r)
    /\ state' = [state EXCEPT ![r] = IF @ = "running" THEN "interrupted" ELSE @]
    /\ EditTo(e, "remove")
    /\ run' = [run EXCEPT ![e] = r]
    /\ UNCHANGED <<dir, manifest, modelVars, loc, editFrame>>

(* delete_training_run_endpoint: never an active run; one with a model only *)
(* with force.  remove_model then reads the registry.                      *)
AskDelete(e, r) ==
    /\ pc[e] = "idle"
    /\ dir[r] /\ ~Active(r)
    /\ state' = [state EXCEPT ![r] = IF @ = "running" THEN "interrupted" ELSE @]
    /\ EditTo(e, "drop")
    /\ run' = [run EXCEPT ![e] = r]
    /\ loc' = [loc EXCEPT ![e] = registry]
    /\ UNCHANGED <<dir, manifest, modelVars, editFrame>>

(* remove_model drops the entry if there is one.                           *)
DropModel(e) ==
    LET r == run[e]
        old == loc[e] IN
    /\ pc[e] = "drop"
    /\ \/ r \notin old.models /\ EditTo(e, "remove") /\ UNCHANGED registry
       \/ /\ r \in old.models
          /\ registry' = [models |-> old.models \ {r},
                          current |-> IF old.current = r THEN NoRun ELSE old.current]
          /\ EditTo(e, IF old.current = r THEN "clear" ELSE "remove")
    /\ UNCHANGED <<runVars, config, typed, run, loc, editFrame>>

(* Mutant of ClearPath: the path is kept.                                  *)
KeepPath(e) ==
    /\ pc[e] = "clear"
    /\ EditTo(e, "remove")
    /\ UNCHANGED <<runVars, modelVars, run, loc, editFrame>>

(* Whatever the path is, if the model was the current one.                 *)
ClearPath(e) ==
    /\ pc[e] = "clear"
    /\ config' = NoRun /\ typed' = FALSE
    /\ EditTo(e, "remove")
    /\ UNCHANGED <<runVars, registry, run, loc, editFrame>>

RemoveRun(e) ==
    LET r == run[e] IN
    /\ pc[e] = "remove"
    /\ dir' = [dir EXCEPT ![r] = FALSE]
    /\ manifest' = [manifest EXCEPT ![r] = FALSE]
    /\ state' = [state EXCEPT ![r] = "none"]
    /\ Finish(e)
    /\ UNCHANGED <<modelVars, jobVars, listing, cancelVars, bounds>>

EditStep(e) == \/ WriteRegistered(e) \/ WritePromoted(e) \/ WriteChosenPath(e)
               \/ DropModel(e) \/ ClearPath(e) \/ RemoveRun(e)

-----------------------------------------------------------------------------
(* The backend restarts: its requests and what it was about to mirror end. *)
RestartBackend ==
    /\ kills + crashes < MaxFaults
    /\ crashes' = crashes + 1
    /\ mirror' = [r \in Runs |-> {}]
    /\ cancel' = [c \in Cancels |-> IF cancel[c] = "new" THEN "new" ELSE "done"]
    /\ target' = [c \in Cancels |-> NoRun]
    /\ listing' = [l \in Listers |-> NoRun]
    /\ pc' = [e \in Editors |-> "idle"]
    /\ run' = [e \in Editors |-> NoRun]
    /\ loc' = [e \in Editors |-> Empty]
    /\ UNCHANGED <<runVars, job, worker, modelVars, kills>>

Next ==
    \/ \E r \in Runs :
        \/ StartRun(r) \/ StartCutShort(r) \/ StartFails(r)
        \/ SpawnWorker(r) \/ SpawnFails(r) \/ RecoverJob(r) \/ Mirror(r)
        \/ WorkerStep(r) \/ KillWorker(r) \/ TypePath(r)
    \/ \E c \in Cancels : CancelStep(c) \/ \E r \in Runs : RequestCancel(c, r)
    \/ \E l \in Listers : Reclassify(l) \/ \E r \in Runs : ReadState(l, r)
    \/ \E e \in Editors :
        \/ EditStep(e)
        \/ \E r \in Runs : AskRegister(e, r) \/ AskPromote(e, r) \/ AskDelete(e, r)
    \/ RestartBackend

Spec == Init /\ [][Next]_vars

(* A live worker trains to an end, and the list of runs, which the view    *)
(* polls, is read again and again.                                         *)
Fairness ==
    /\ \A r \in Runs : WF_vars(WorkerStep(r))
    /\ \A l \in Listers : WF_vars(Reclassify(l)) /\ \A r \in Runs : SF_vars(ReadState(l, r))

FairSpec == Spec /\ Fairness

-----------------------------------------------------------------------------
(* Properties.                                                             *)

(* Every model of the registry has its manifest and weights on disk, while *)
(* runs are deleted in steps that a restart may cut short (remove_model    *)
(* before delete_training_run); one editor at a time.                      *)
RegisteredIsFinished == \A r \in registry.models : manifest[r]

(* The path that a promotion chose leads to a checkpoint, unless a restart *)
(* has fallen between the registry and prediction_config.                  *)
PathResolves == crashes = 0 /\ ~typed /\ config # NoRun => manifest[config]

(* A completed run has a manifest, whoever rewrites its state meanwhile.   *)
CompletedIsFinished == \A r \in Runs : state[r] = "completed" => manifest[r]

(* The files of a live worker are never deleted (the comment in            *)
(* delete_training_run_endpoint), although the check reads a state that    *)
(* listings, mirrors and the worker rewrite.                               *)
DeleteSparesWorker ==
    [][\A r \in Runs : dir[r] /\ ~dir'[r] => ~Alive(r) \/ worker[r] = "report"]_vars

(* A run does not hang in running for ever: its worker ends it, or a       *)
(* listing finds the worker gone (resolve_job_state).                      *)
RunningSettles == \A r \in Runs : (state[r] = "running") ~> (state[r] # "running")
=============================================================================
