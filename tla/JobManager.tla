----------------------------- MODULE JobManager -----------------------------
(***************************************************************************)
(* The durable job manager: backend/services/jobs/{scheduler,store,        *)
(* resources,processes}.py and the run loop of backend/job_worker.py.      *)
(*                                                                         *)
(* Every job is a directory with a state.json that three kinds of actor    *)
(* rewrite: the scheduler thread of the backend (dispatch and recovery),   *)
(* request threads of the backend (cancel) and the job's own worker        *)
(* process.  Each rewrite (mutate_state) is atomic under the job's state   *)
(* lock, each lease operation is atomic under the lease lock, and nothing  *)
(* holds two of these locks together, so one action below is one locked    *)
(* section, together with the unlocked reads that feed only it.            *)
(*                                                                         *)
(* Left out, because no handler here reads them back: the event log, the   *)
(* artifacts and performance files, progress fields and the training       *)
(* mirror.  Time appears only as the freshness of a heartbeat.             *)
(***************************************************************************)
EXTENDS Naturals, FiniteSets

CONSTANTS
    Jobs,             \* job ids that may ever be created
    Threads,          \* scheduler threads of the backend (one, in normal use)
    Requests,         \* request threads that may be inside cancel_job
    NoJob,            \* no current job
    NoKey,            \* a job submitted without a dedupe key
    Class,            \* Jobs -> resource class
    Limit,            \* resource class -> number of leases
    Key,              \* Jobs -> (project, job type, dedupe key), or NoKey
    Prio,             \* Jobs -> priority
    LockTimeouts,     \* may a state or lease lock time out, or a spawn fail?
    UnknownProbe,     \* may process_status fail to identify a process?
    TimelyHeartbeat,  \* does a live worker boot, and beat, within 120 s?
    WorkerCrashes,    \* may a worker die by itself?
    MaxCrashes        \* bound on backend crashes

ASSUME JobsAssumption ==
    /\ NoJob \notin Jobs
    /\ IsFiniteSet(Jobs)

ASSUME SpecAssumption ==
    /\ Prio \in [Jobs -> Nat]
    /\ DOMAIN Key = Jobs
    /\ DOMAIN Class = Jobs
    /\ \A j \in Jobs : Limit[Class[j]] \in Nat \ {0}

ASSUME EnvironmentAssumption ==
    /\ {LockTimeouts, UnknownProbe, TimelyHeartbeat, WorkerCrashes} \subseteq BOOLEAN
    /\ MaxCrashes \in Nat

Active == {"queued", "starting", "running", "cancelling"}
Terminal == {"completed", "cancelled", "failed", "interrupted"}
Status == {"none"} \union Active \union Terminal

VARIABLES
    status,      \* state.json status, "none" before the job is created
    cancelReq,   \* state.json cancel_requested
    attached,    \* state.json process is the worker's identity (else null)
    fresh,       \* state.json heartbeat is at most 120 s old
    worker,      \* where the worker process of the job stands
    spawns,      \* history: worker processes ever started for the job
    early,       \* history: the job was cancelled while it was queued
    lease,       \* holder recorded in the job's lease file
    pc,          \* where a scheduler thread stands
    cur,         \* the job a scheduler thread works on
    todo,        \* jobs left in a dispatch pass
    snap,        \* states listed by a recovery pass, not yet judged
    cpc,         \* where a cancel request stands
    cjob,        \* the job it cancels
    cseen,       \* did its state carry a process identity?
    crashes      \* backend crashes so far

stateVars == <<status, cancelReq, attached, fresh>>
workerVars == <<worker, spawns>>
schedVars == <<pc, cur, todo, snap>>
requestVars == <<cpc, cjob, cseen>>
vars == <<stateVars, workerVars, early, lease, schedVars, requestVars, crashes>>

(* "backend" is the identity of the running backend, "old" of a dead one.  *)
Holders == {"none", "backend", "old", "worker"}

WorkerPC == {"none", "boot", "check", "abort", "go", "run", "finish",
             "cancelled", "error", "release", "dead"}
Dispatching == {"acquire", "mark", "spawn", "attach", "holder", "failed"}
ThreadPC == {"start", "idle", "pass", "recover", "unlease"} \union Dispatching
RequestPC == {"idle", "kill", "confirm", "release"}

Snapshot == [seen: BOOLEAN, attached: BOOLEAN, fresh: BOOLEAN, cancel: BOOLEAN]
NoSnap == [seen |-> FALSE, attached |-> FALSE, fresh |-> FALSE, cancel |-> FALSE]
NoSnaps == [j \in Jobs |-> NoSnap]

TypeOK ==
    /\ status \in [Jobs -> Status]
    /\ cancelReq \in [Jobs -> BOOLEAN]
    /\ attached \in [Jobs -> BOOLEAN]
    /\ fresh \in [Jobs -> BOOLEAN]
    /\ worker \in [Jobs -> WorkerPC]
    /\ spawns \in [Jobs -> Nat]
    /\ early \in [Jobs -> BOOLEAN]
    /\ lease \in [Jobs -> Holders]
    /\ pc \in [Threads -> ThreadPC]
    /\ cur \in [Threads -> Jobs \union {NoJob}]
    /\ \A t \in Threads : pc[t] \in Dispatching \union {"unlease"} => cur[t] \in Jobs
    /\ todo \in [Threads -> SUBSET Jobs]
    /\ snap \in [Threads -> [Jobs -> Snapshot]]
    /\ cpc \in [Requests -> RequestPC]
    /\ cjob \in [Requests -> Jobs \union {NoJob}]
    /\ \A r \in Requests : cpc[r] # "idle" => cjob[r] \in Jobs
    /\ cseen \in [Requests -> BOOLEAN]
    /\ crashes \in 0..MaxCrashes

Init ==
    /\ status = [j \in Jobs |-> "none"]
    /\ cancelReq = [j \in Jobs |-> FALSE]
    /\ attached = [j \in Jobs |-> FALSE]
    /\ fresh = [j \in Jobs |-> FALSE]
    /\ worker = [j \in Jobs |-> "none"]
    /\ spawns = [j \in Jobs |-> 0]
    /\ early = [j \in Jobs |-> FALSE]
    /\ lease = [j \in Jobs |-> "none"]
    /\ pc = [t \in Threads |-> "start"]
    /\ cur = [t \in Threads |-> NoJob]
    /\ todo = [t \in Threads |-> {}]
    /\ snap = [t \in Threads |-> NoSnaps]
    /\ cpc = [r \in Requests |-> "idle"]
    /\ cjob = [r \in Requests |-> NoJob]
    /\ cseen = [r \in Requests |-> FALSE]
    /\ crashes = 0

-----------------------------------------------------------------------------
(* Processes and leases.                                                   *)

Alive(j) == worker[j] \notin {"none", "dead"}

(* Mutant of Probe: a missing identity is taken for a dead process.        *)
ProbeNullAsGone(j, identity) ==
    IF identity /\ Alive(j) THEN {"live"} ELSE {"gone"}

(* process_status of the identity stored for j: null gives "unknown";      *)
(* "gone" stands for absent and recycled, which every caller treats alike. *)
Probe(j, identity) ==
    IF ~identity THEN {"unknown"}
    ELSE {IF Alive(j) THEN "live" ELSE "gone"}
         \union (IF UnknownProbe THEN {"unknown"} ELSE {})

(* Mutant of StaleLease: the holder of the lease is not probed.            *)
StaleLeaseUnprobed(j) == lease[j] \in {"old", "worker"}

(* Mutant of StaleLease: only leases of a dead backend are dropped.        *)
StaleLeaseOfBackend(j) == lease[j] = "old"

(* A lease whose holder is certainly gone is dropped by the next acquire.  *)
StaleLease(j) == lease[j] = "old" \/ (lease[j] = "worker" /\ ~Alive(j))

(* With UnknownProbe the clean-up may miss any of the stale leases.        *)
Cleanups ==
    LET stale == {j \in Jobs : StaleLease(j)}
    IN IF UnknownProbe THEN SUBSET stale ELSE {stale}

(* Mutant of Claimed: dispatch without a claim file.                       *)
NeverClaimed(j) == FALSE

Claimed(j) == \E t \in Threads : pc[t] \in Dispatching /\ cur[t] = j

(* release_resource and update_resource_holder report a timeout of the      *)
(* lease lock by a result that no caller looks at.  The second changes an  *)
(* existing lease file only.                                               *)
Release(j) ==
    \/ lease' = [lease EXCEPT ![j] = "none"]
    \/ LockTimeouts /\ UNCHANGED lease

(* Mutant of HolderIsWorker: the lease stays with the backend.             *)
HolderUnchanged(j) == UNCHANGED lease

HolderIsWorker(j) ==
    \/ lease' = [lease EXCEPT ![j] = IF @ = "none" THEN "none" ELSE "worker"]
    \/ LockTimeouts /\ UNCHANGED lease

Goto(t, place) == pc' = [pc EXCEPT ![t] = place]
SetStatus(j, s) == status' = [status EXCEPT ![j] = s]
Return(t, place) == Goto(t, place) /\ cur' = [cur EXCEPT ![t] = NoJob]
WorkerAt(j, place) == worker' = [worker EXCEPT ![j] = place]

-----------------------------------------------------------------------------
(* Submission.  Under .submit.lock: refuse while a job with the same key   *)
(* is active, otherwise create the job as queued.                          *)

(* Mutant of KeyFree: only jobs that already run count as active.          *)
KeyNotRunning(j) ==
    \A k \in Jobs : Key[k] = Key[j] => status[k] # "running"

KeyFree(j) ==
    Key[j] = NoKey \/ \A k \in Jobs : Key[k] = Key[j] => status[k] \notin Active

SubmitJob(j) ==
    /\ status[j] = "none"
    /\ KeyFree(j)
    /\ SetStatus(j, "queued")
    /\ UNCHANGED <<cancelReq, attached, fresh, workerVars, early, lease,
                   schedVars, requestVars, crashes>>

(* A retry is a new job with the specification of a terminal one.          *)
RetryJob(old, j) ==
    /\ status[old] \in Terminal
    /\ Class[j] = Class[old] /\ Key[j] = Key[old] /\ Prio[j] = Prio[old]
    /\ SubmitJob(j)

-----------------------------------------------------------------------------
(* Dispatch pass of a scheduler thread.                                    *)

StartPass(t) ==
    /\ pc[t] = "idle"
    /\ \E j \in Jobs : status[j] = "queued"
    /\ todo' = [todo EXCEPT ![t] = {j \in Jobs : status[j] = "queued"}]
    /\ Goto(t, "pass")
    /\ UNCHANGED <<stateVars, workerVars, early, lease, cur, snap, requestVars, crashes>>

EndPass(t) ==
    /\ pc[t] = "pass"
    /\ todo[t] = {}
    /\ Goto(t, "idle")
    /\ UNCHANGED <<stateVars, workerVars, early, lease, cur, todo, snap, requestVars, crashes>>

(* The listed jobs are tried in order of priority.                         *)
NextInPass(t, j) ==
    /\ pc[t] = "pass"
    /\ j \in todo[t]
    /\ \A k \in todo[t] : Prio[k] <= Prio[j]

(* claim_job does not block: a job claimed by another thread is skipped,   *)
(* and so is one that is no longer queued once the claim is held.          *)
ClaimJob(t, j) ==
    /\ NextInPass(t, j)
    /\ ~Claimed(j) /\ status[j] = "queued"
    /\ todo' = [todo EXCEPT ![t] = @ \ {j}]
    /\ cur' = [cur EXCEPT ![t] = j]
    /\ Goto(t, "acquire")
    /\ UNCHANGED <<stateVars, workerVars, early, lease, snap, requestVars, crashes>>

SkipJob(t, j) ==
    /\ NextInPass(t, j)
    /\ Claimed(j) \/ status[j] # "queued"
    /\ todo' = [todo EXCEPT ![t] = @ \ {j}]
    /\ UNCHANGED <<stateVars, workerVars, early, lease, pc, cur, snap, requestVars, crashes>>

(* acquire_resource: drop stale leases, then take one if the class has a   *)
(* free one; the backend itself is the first holder.                       *)
AcquireLease(t) ==
    /\ pc[t] = "acquire"
    /\ \/ \E gone \in Cleanups :
            LET j == cur[t]
                kept == [k \in Jobs |-> IF k \in gone THEN "none" ELSE lease[k]]
                used == {k \in Jobs : kept[k] # "none" /\ Class[k] = Class[j]}
            IN \/ /\ Cardinality(used) < Limit[Class[j]]
                  /\ lease' = [kept EXCEPT ![j] = "backend"]
                  /\ Goto(t, "mark") /\ UNCHANGED cur
               \/ /\ Cardinality(used) >= Limit[Class[j]]
                  /\ lease' = kept
                  /\ Return(t, "pass")
       \/ LockTimeouts /\ Return(t, "pass") /\ UNCHANGED lease
    /\ UNCHANGED <<stateVars, workerVars, early, todo, snap, requestVars, crashes>>

(* Mutant of MarkStarting: the state read under the claim is trusted.      *)
MarkStartingUnread(t) ==
    /\ pc[t] = "mark"
    /\ SetStatus(cur[t], "starting")
    /\ fresh' = [fresh EXCEPT ![cur[t]] = TRUE]
    /\ Goto(t, "spawn")
    /\ UNCHANGED <<cancelReq, attached, workerVars, early, lease, cur, todo, snap,
                   requestVars, crashes>>

(* The queued -> starting update; it leaves any other state as it found    *)
(* it, and the dispatch goes on whenever the result reads "starting".      *)
MarkStarting(t) ==
    /\ pc[t] = "mark"
    /\ LET j == cur[t]
           start == status[j] = "queued" /\ ~cancelReq[j]
       IN \/ /\ start \/ status[j] = "starting"
             /\ SetStatus(j, "starting")
             /\ fresh' = IF start THEN [fresh EXCEPT ![j] = TRUE] ELSE fresh
             /\ Goto(t, "spawn")
             /\ UNCHANGED <<lease, cur>>
          \/ /\ ~start /\ status[j] # "starting"
             /\ Release(j)
             /\ Return(t, "pass")
             /\ UNCHANGED <<status, fresh>>
    /\ UNCHANGED <<cancelReq, attached, workerVars, early, todo, snap, requestVars, crashes>>

SpawnWorker(t) ==
    /\ pc[t] = "spawn"
    /\ WorkerAt(cur[t], "boot")
    /\ spawns' = [spawns EXCEPT ![cur[t]] = @ + 1]
    /\ Goto(t, "attach")
    /\ UNCHANGED <<stateVars, early, lease, cur, todo, snap, requestVars, crashes>>

AttachProcess(t) ==
    /\ pc[t] = "attach"
    /\ LET open == status[cur[t]] \notin Terminal
       IN /\ attached' = [attached EXCEPT ![cur[t]] = @ \/ open]
          /\ fresh' = [fresh EXCEPT ![cur[t]] = @ \/ open]
    /\ Goto(t, "holder")
    /\ UNCHANGED <<status, cancelReq, workerVars, early, lease, cur, todo, snap, requestVars, crashes>>

HandOverLease(t) ==
    /\ pc[t] = "holder"
    /\ HolderIsWorker(cur[t])
    /\ Return(t, "pass")
    /\ UNCHANGED <<stateVars, workerVars, early, todo, snap, requestVars, crashes>>

(* Any exception after the lease was taken: release it, then mark failed,  *)
(* whatever the state, and whether or not a worker was already started.    *)
DispatchError(t) ==
    /\ LockTimeouts
    /\ pc[t] \in {"mark", "spawn", "attach", "holder"}
    /\ Release(cur[t])
    /\ Goto(t, "failed")
    /\ UNCHANGED <<stateVars, workerVars, early, cur, todo, snap, requestVars, crashes>>

FailDispatch(t) ==
    /\ pc[t] = "failed"
    /\ SetStatus(cur[t], "failed")
    /\ Return(t, "pass")
    /\ UNCHANGED <<cancelReq, attached, fresh, workerVars, early, lease,
                   todo, snap, requestVars, crashes>>

(* That write may time out too; the exception then ends the whole pass.    *)
AbortPass(t) ==
    /\ LockTimeouts
    /\ pc[t] = "failed"
    /\ todo' = [todo EXCEPT ![t] = {}]
    /\ Return(t, "idle")
    /\ UNCHANGED <<stateVars, workerVars, early, lease, snap, requestVars, crashes>>

-----------------------------------------------------------------------------
(* Recovery pass: list all states, then judge each listed (possibly old)   *)
(* state by probing its process now.                                       *)

(* Mutant of Snap: recovery looks for running jobs only.                   *)
SnapRunning(j) ==
    IF status[j] \in {"running", "cancelling"}
    THEN [seen |-> TRUE, attached |-> attached[j], fresh |-> fresh[j],
          cancel |-> status[j] = "cancelling"]
    ELSE NoSnap

Snap(j) ==
    IF status[j] \in {"starting", "running", "cancelling"}
    THEN [seen |-> TRUE, attached |-> attached[j], fresh |-> fresh[j],
          cancel |-> cancelReq[j] \/ status[j] = "cancelling"]
    ELSE NoSnap

StartRecovery(t) ==
    /\ pc[t] \in {"start", "idle"}
    /\ snap' = [snap EXCEPT ![t] = [j \in Jobs |-> Snap(j)]]
    /\ Goto(t, "recover")
    /\ UNCHANGED <<stateVars, workerVars, early, lease, cur, todo, requestVars, crashes>>

EndRecovery(t) ==
    /\ pc[t] = "recover"
    /\ \A j \in Jobs : ~snap[t][j].seen
    /\ Goto(t, "idle")
    /\ UNCHANGED <<stateVars, workerVars, early, lease, cur, todo, snap, requestVars, crashes>>

Judged(t, j) == snap' = [snap EXCEPT ![t][j] = NoSnap]

LeaveAlone(t, j) ==
    /\ pc[t] = "recover"
    /\ snap[t][j].seen
    /\ \E p \in Probe(j, snap[t][j].attached) :
         p = "live" \/ (p = "unknown" /\ snap[t][j].fresh)
    /\ Judged(t, j)
    /\ UNCHANGED <<stateVars, workerVars, early, lease, pc, cur, todo, requestVars, crashes>>

(* The verdict is written whatever the state has become in the meantime;   *)
(* the lease survives unless the process is certainly gone.                *)
Reclassify(t, j) ==
    /\ pc[t] = "recover"
    /\ snap[t][j].seen
    /\ \E p \in Probe(j, snap[t][j].attached) :
         /\ p = "gone" \/ (p = "unknown" /\ ~snap[t][j].fresh)
         /\ IF p = "gone"
            THEN Goto(t, "unlease") /\ cur' = [cur EXCEPT ![t] = j]
            ELSE UNCHANGED <<pc, cur>>
    /\ SetStatus(j, IF snap[t][j].cancel THEN "cancelled" ELSE "interrupted")
    /\ Judged(t, j)
    /\ UNCHANGED <<cancelReq, attached, fresh, workerVars, early, lease, todo, requestVars, crashes>>

ReleaseRecovered(t) ==
    /\ pc[t] = "unlease"
    /\ Release(cur[t])
    /\ Return(t, "recover")
    /\ UNCHANGED <<stateVars, workerVars, early, todo, snap, requestVars, crashes>>

-----------------------------------------------------------------------------
(* Cancellation by a request thread.                                       *)

(* Mutant of RequestDone: the request forgets its job but goes on.         *)
RequestForgets(r) ==
    /\ cjob' = [cjob EXCEPT ![r] = NoJob]
    /\ UNCHANGED <<cpc, cseen>>

RequestDone(r) ==
    /\ cpc' = [cpc EXCEPT ![r] = "idle"]
    /\ cjob' = [cjob EXCEPT ![r] = NoJob]
    /\ cseen' = [cseen EXCEPT ![r] = FALSE]

RequestCancel(r, j) ==
    /\ cpc[r] = "idle"
    /\ status[j] # "none"
    /\ cjob' = [cjob EXCEPT ![r] = j]
    /\ \/ /\ status[j] = "queued"
          /\ SetStatus(j, "cancelled")
          /\ cancelReq' = [cancelReq EXCEPT ![j] = TRUE]
          /\ early' = [early EXCEPT ![j] = TRUE]
          /\ cpc' = [cpc EXCEPT ![r] = "release"]
          /\ UNCHANGED cseen
       \/ /\ status[j] = "cancelled"
          /\ cpc' = [cpc EXCEPT ![r] = "release"]
          /\ UNCHANGED <<status, cancelReq, early, cseen>>
       \/ /\ status[j] \in Active \ {"queued"}
          /\ SetStatus(j, "cancelling")
          /\ cancelReq' = [cancelReq EXCEPT ![j] = TRUE]
          /\ cseen' = [cseen EXCEPT ![r] = attached[j]]
          /\ cpc' = [cpc EXCEPT ![r] = "kill"]
          /\ UNCHANGED early
    /\ UNCHANGED <<attached, fresh, workerVars, lease, schedVars, crashes>>

(* terminate_process_tree: only an identified live process is signalled,   *)
(* and even then it may survive (access denied, 18 s without an exit).     *)
KillWorker(r) ==
    /\ cpc[r] = "kill"
    /\ cpc' = [cpc EXCEPT ![r] = "confirm"]
    /\ \/ UNCHANGED worker
       \/ cseen[r] /\ Alive(cjob[r]) /\ WorkerAt(cjob[r], "dead")
    /\ UNCHANGED <<stateVars, spawns, early, lease, schedVars, cjob, cseen, crashes>>

(* A confirmed termination is written whatever the state has become;       *)
(* without one only an error text is stored.                               *)
ConfirmCancel(r) ==
    /\ cpc[r] = "confirm"
    /\ \E p \in Probe(cjob[r], cseen[r]) :
         \/ /\ p = "gone"
            /\ SetStatus(cjob[r], "cancelled")
            /\ cpc' = [cpc EXCEPT ![r] = "release"]
            /\ UNCHANGED <<cjob, cseen>>
         \/ /\ p # "gone"
            /\ RequestDone(r)
            /\ UNCHANGED status
    /\ UNCHANGED <<cancelReq, attached, fresh, workerVars, early, lease, schedVars, crashes>>

ReleaseCancelled(r) ==
    /\ cpc[r] = "release"
    /\ Release(cjob[r])
    /\ RequestDone(r)
    /\ UNCHANGED <<stateVars, workerVars, early, schedVars, crashes>>

-----------------------------------------------------------------------------
(* The worker process of job j: job_worker.run.                            *)

WorkerBoot(j) ==
    /\ worker[j] = "boot"
    /\ HolderIsWorker(j)
    /\ WorkerAt(j, "check")
    /\ UNCHANGED <<stateVars, spawns, early, schedVars, requestVars, crashes>>

WorkerCheck(j) ==
    /\ worker[j] = "check"
    /\ WorkerAt(j, IF cancelReq[j] \/ status[j] = "cancelled" THEN "abort" ELSE "go")
    /\ UNCHANGED <<stateVars, spawns, early, lease, schedVars, requestVars, crashes>>

(* Both a cancelled start and a JobCancelled handler write "cancelled"     *)
(* without looking at the state.                                           *)
WorkerCancelled(j) ==
    /\ worker[j] \in {"abort", "cancelled"}
    /\ SetStatus(j, "cancelled")
    /\ WorkerAt(j, "release")
    /\ UNCHANGED <<cancelReq, attached, fresh, spawns, early, lease, schedVars, requestVars, crashes>>

(* So is "running": the state read by WorkerCheck is not read again.       *)
WorkerGo(j) ==
    /\ worker[j] = "go"
    /\ SetStatus(j, "running")
    /\ attached' = [attached EXCEPT ![j] = TRUE]
    /\ fresh' = [fresh EXCEPT ![j] = TRUE]
    /\ WorkerAt(j, "run")
    /\ UNCHANGED <<cancelReq, spawns, early, lease, schedVars, requestVars, crashes>>

(* The handler returns, raises, or notices the cancel request.             *)
WorkerHandler(j) ==
    /\ worker[j] = "run"
    /\ \/ WorkerAt(j, "finish")
       \/ WorkerAt(j, "error")
       \/ cancelReq[j] /\ WorkerAt(j, "cancelled")
    /\ UNCHANGED <<stateVars, spawns, early, lease, schedVars, requestVars, crashes>>

(* The final update leaves a terminal state alone.                         *)
WorkerFinal(j, place, result) ==
    /\ worker[j] = place
    /\ IF status[j] \in Terminal
       THEN UNCHANGED <<status, fresh>>
       ELSE /\ SetStatus(j, result)
            /\ fresh' = [fresh EXCEPT ![j] = @ \/ result = "completed"]
    /\ WorkerAt(j, "release")
    /\ UNCHANGED <<cancelReq, attached, spawns, early, lease, schedVars, requestVars, crashes>>

WorkerFinish(j) == WorkerFinal(j, "finish", "completed")
WorkerError(j) == WorkerFinal(j, "error", "failed")

(* A timeout of the completing update is caught like a handler error.      *)
WorkerFinishTimeout(j) ==
    /\ LockTimeouts
    /\ worker[j] = "finish"
    /\ WorkerAt(j, "error")
    /\ UNCHANGED <<stateVars, spawns, early, lease, schedVars, requestVars, crashes>>

WorkerExit(j) ==
    /\ worker[j] = "release"
    /\ Release(j)
    /\ WorkerAt(j, "dead")
    /\ UNCHANGED <<stateVars, spawns, early, schedVars, requestVars, crashes>>

(* The heartbeat thread; update() is silent after a cancel request.        *)
Beat(j) ==
    /\ worker[j] \in {"run", "finish", "cancelled", "error"}
    /\ ~fresh[j]
    /\ status[j] \notin Terminal /\ ~cancelReq[j]
    /\ fresh' = [fresh EXCEPT ![j] = TRUE]
    /\ UNCHANGED <<status, cancelReq, attached, workerVars, early, lease,
                   schedVars, requestVars, crashes>>

-----------------------------------------------------------------------------
(* The environment.                                                        *)

(* 120 seconds pass without a beat.                                        *)
HeartbeatLapse(j) ==
    /\ fresh[j]
    /\ TimelyHeartbeat =>
         \/ ~Alive(j) /\ \A t \in Threads : ~(pc[t] \in Dispatching /\ cur[t] = j)
         \/ cancelReq[j] /\ worker[j] \notin {"none", "boot", "check", "abort", "go"}
    /\ fresh' = [fresh EXCEPT ![j] = FALSE]
    /\ UNCHANGED <<status, cancelReq, attached, workerVars, early, lease,
                   schedVars, requestVars, crashes>>

WorkerCrash(j) ==
    /\ WorkerCrashes
    /\ Alive(j)
    /\ WorkerAt(j, "dead")
    /\ UNCHANGED <<stateVars, spawns, early, lease, schedVars, requestVars, crashes>>

(* The backend dies and is started again; workers are separate processes.  *)
(* Lock and claim files of the dead backend are stale and broken on sight. *)
BackendCrash ==
    /\ crashes < MaxCrashes
    /\ crashes' = crashes + 1
    /\ lease' = [j \in Jobs |-> IF lease[j] = "backend" THEN "old" ELSE lease[j]]
    /\ pc' = [t \in Threads |-> "start"]
    /\ cur' = [t \in Threads |-> NoJob]
    /\ todo' = [t \in Threads |-> {}]
    /\ snap' = [t \in Threads |-> NoSnaps]
    /\ cpc' = [r \in Requests |-> "idle"]
    /\ cjob' = [r \in Requests |-> NoJob]
    /\ cseen' = [r \in Requests |-> FALSE]
    /\ UNCHANGED <<stateVars, workerVars, early>>

-----------------------------------------------------------------------------
DispatchStep(t) ==
    \/ \E j \in Jobs : ClaimJob(t, j) \/ SkipJob(t, j)
    \/ EndPass(t)
    \/ AcquireLease(t) \/ MarkStarting(t) \/ SpawnWorker(t)
    \/ AttachProcess(t) \/ HandOverLease(t) \/ FailDispatch(t)

RecoveryStep(t) ==
    \/ \E j \in Jobs : LeaveAlone(t, j) \/ Reclassify(t, j)
    \/ EndRecovery(t) \/ ReleaseRecovered(t)

CancelStep(r) == KillWorker(r) \/ ConfirmCancel(r) \/ ReleaseCancelled(r)

WorkerStep(j) ==
    \/ WorkerBoot(j) \/ WorkerCheck(j) \/ WorkerCancelled(j) \/ WorkerGo(j)
    \/ WorkerHandler(j) \/ WorkerFinish(j) \/ WorkerError(j) \/ WorkerExit(j)

Next ==
    \/ \E j \in Jobs : SubmitJob(j) \/ \E old \in Jobs : RetryJob(old, j)
    \/ \E t \in Threads : StartPass(t) \/ DispatchStep(t)
    \/ \E t \in Threads : DispatchError(t) \/ AbortPass(t)
    \/ \E t \in Threads : StartRecovery(t) \/ RecoveryStep(t)
    \/ \E r \in Requests : (\E j \in Jobs : RequestCancel(r, j)) \/ CancelStep(r)
    \/ \E j \in Jobs : WorkerStep(j) \/ WorkerFinishTimeout(j) \/ Beat(j)
    \/ \E j \in Jobs : HeartbeatLapse(j) \/ WorkerCrash(j)
    \/ BackendCrash

Spec == Init /\ [][Next]_vars

(* The scheduler loop runs a dispatch pass every half second and a         *)
(* recovery pass every ten; a thread inside a pass, a request and a worker *)
(* keep running (handlers return), and 120 seconds without a beat pass.    *)
Fairness ==
    /\ \A t \in Threads : /\ WF_vars(DispatchStep(t))
                          /\ WF_vars(RecoveryStep(t))
                          /\ SF_vars(StartPass(t))
                          /\ SF_vars(StartRecovery(t))
    /\ \A r \in Requests : WF_vars(CancelStep(r))
    /\ \A j \in Jobs : WF_vars(WorkerStep(j)) /\ WF_vars(HeartbeatLapse(j))

FairSpec == Spec /\ Fairness

-----------------------------------------------------------------------------
(* Properties.                                                             *)

Working(j) == worker[j] \in {"run", "finish", "cancelled", "error"}

(* A job is given to a worker process at most once, whatever crashes,      *)
(* restarts, lock timeouts or second scheduler threads do to the dispatch  *)
(* (_try_dispatch: the claim and the queued -> starting update).           *)
SpawnOnce == \A j \in Jobs : spawns[j] <= 1

(* A cancel accepted while the job was queued holds even if a dispatch of  *)
(* the job had already begun: no worker is ever started for it and it ends *)
(* there (cancel_job against the update in _try_dispatch).                 *)
EarlyCancelNeverRuns ==
    \A j \in Jobs : early[j] => spawns[j] = 0 /\ status[j] \in Terminal

(* The workers inside a handler never exceed the limit of their resource   *)
(* class, so two GPU jobs never run together (resources.py; the lease      *)
(* passes from the backend to the worker and survives until it is gone).   *)
ResourceLimit ==
    \A c \in {Class[j] : j \in Jobs} :
        Cardinality({j \in Jobs : Class[j] = c /\ Working(j)}) <= Limit[c]

(* A lease in the name of the running backend belongs to a dispatch in     *)
(* progress; any other would block its class until the next restart, since *)
(* the clean-up only drops leases of dead holders (acquire_resource).      *)
NoPhantomLease ==
    \A j \in Jobs : lease[j] = "backend" =>
        \E t \in Threads : /\ cur[t] = j
                           /\ pc[t] \in {"mark", "spawn", "attach", "holder"}

(* At most one job per dedupe key is active (submit_job).                  *)
OneActivePerKey ==
    \A j, k \in Jobs :
        /\ j # k /\ Key[j] = Key[k] /\ Key[j] # NoKey
        => ~(status[j] \in Active /\ status[k] \in Active)

(* A terminal job never becomes active again, so a retry of it cannot meet *)
(* its first worker (job_worker.run writes "running" unconditionally).     *)
NoResurrection ==
    [][\A j \in Jobs : status[j] \in Terminal => status'[j] \in Terminal]_status

(* A job that reached "completed" stays completed: its result is ready.    *)
CompletedIsFinal ==
    [][\A j \in Jobs : status[j] = "completed" => status'[j] = "completed"]_status

(* No job stays active for ever: a queued one gets its turn, and one whose *)
(* worker or dispatcher died is reclassified by recovery.                  *)
EveryJobSettles ==
    \A j \in Jobs : (status[j] \in Active) ~> (status[j] \in Terminal)
=============================================================================
