-------------------------- MODULE JobManagerProofs --------------------------
(* Proofs about JobManager, for any number of jobs, scheduler threads and  *)
(* cancel requests.  A theorem excludes a fault of the environment only    *)
(* where it says so.                                                       *)
EXTENDS JobManager, FiniteSetTheorems, TLAPS

(* TypeOK is preserved by every step: the state files, leases, processes   *)
(* and threads only take the values the handlers write.                    *)
LEMMA InitTyped == Init => TypeOK
  BY SpecAssumption, EnvironmentAssumption
     DEF Init, TypeOK, Status, Holders, WorkerPC, ThreadPC, Dispatching, RequestPC,
         Snapshot, NoSnap, NoSnaps

(* Every step keeps the types.                                             *)
LEMMA StepTyped == TypeOK /\ [Next]_vars => TypeOK'
<1> SUFFICES ASSUME TypeOK, [Next]_vars
             PROVE  TypeOK'
  OBVIOUS
<1> USE JobsAssumption, SpecAssumption, EnvironmentAssumption
    DEF TypeOK, Status, Active, Terminal, Holders, WorkerPC, ThreadPC, Dispatching,
        RequestPC, stateVars, workerVars, schedVars, requestVars,
        Goto, Return, SetStatus, WorkerAt, Release
<1>1. ASSUME NEW j \in Jobs, SubmitJob(j)
      PROVE  TypeOK'
  BY <1>1 DEF SubmitJob
<1>2. ASSUME NEW j \in Jobs, NEW old \in Jobs, RetryJob(old, j)
      PROVE  TypeOK'
  BY <1>1, <1>2 DEF RetryJob
<1>3. ASSUME NEW t \in Threads, StartPass(t)
      PROVE  TypeOK'
  BY <1>3 DEF StartPass
<1>4. ASSUME NEW t \in Threads, DispatchStep(t)
      PROVE  TypeOK'
  <2>1. ASSUME NEW j \in Jobs, ClaimJob(t, j) PROVE TypeOK'
    BY <2>1 DEF ClaimJob, NextInPass
  <2>2. ASSUME NEW j \in Jobs, SkipJob(t, j) PROVE TypeOK'
    BY <2>2 DEF SkipJob, NextInPass
  <2>3. CASE EndPass(t)
    BY <2>3 DEF EndPass
  <2>4. CASE AcquireLease(t)
    <3> DEFINE kept(gone) == [k \in Jobs |-> IF k \in gone THEN "none" ELSE lease[k]]
    <3>1. \A gone : kept(gone) \in [Jobs -> Holders]
      OBVIOUS
    <3>2. /\ pc[t] = "acquire"
          /\ UNCHANGED <<stateVars, workerVars, early, todo, snap, requestVars, crashes>>
      BY <2>4 DEF AcquireLease
    <3>3. /\ lease' \in [Jobs -> Holders]
          /\ \/ Goto(t, "mark") /\ UNCHANGED cur
             \/ Return(t, "pass")
      <4>1. CASE LockTimeouts /\ Return(t, "pass") /\ UNCHANGED lease
        BY <4>1
      <4>2. ASSUME NEW gone \in Cleanups,
                   lease' = [kept(gone) EXCEPT ![cur[t]] = "backend"],
                   Goto(t, "mark"), UNCHANGED cur
            PROVE  /\ lease' \in [Jobs -> Holders]
                   /\ Goto(t, "mark") /\ UNCHANGED cur
        BY <3>1, <4>2
      <4>3. ASSUME NEW gone \in Cleanups, lease' = kept(gone), Return(t, "pass")
            PROVE  lease' \in [Jobs -> Holders] /\ Return(t, "pass")
        BY <3>1, <4>3
      <4>4. QED
        BY <2>4, <4>1, <4>2, <4>3 DEF AcquireLease
    <3>4. CASE Goto(t, "mark") /\ UNCHANGED cur
      BY <3>2, <3>3, <3>4
    <3>5. CASE Return(t, "pass")
      BY <3>2, <3>3, <3>5
    <3>6. QED
      BY <3>3, <3>4, <3>5
  <2>5. CASE MarkStarting(t)
    <3>1. /\ pc[t] = "mark"
          /\ UNCHANGED <<cancelReq, attached, workerVars, early, todo, snap, requestVars, crashes>>
      BY <2>5 DEF MarkStarting
    <3>2. CASE /\ SetStatus(cur[t], "starting")
               /\ fresh' = [fresh EXCEPT ![cur[t]] = TRUE] \/ fresh' = fresh
               /\ Goto(t, "spawn")
               /\ UNCHANGED <<lease, cur>>
      BY <3>1, <3>2
    <3>3. CASE /\ Release(cur[t])
               /\ Return(t, "pass")
               /\ UNCHANGED <<status, fresh>>
      BY <3>1, <3>3
    <3>4. QED
      BY <2>5, <3>2, <3>3 DEF MarkStarting
  <2>6. CASE SpawnWorker(t)
    BY <2>6 DEF SpawnWorker
  <2>7. CASE AttachProcess(t)
    BY <2>7 DEF AttachProcess
  <2>8. CASE HandOverLease(t)
    BY <2>8 DEF HandOverLease, HolderIsWorker
  <2>9. CASE FailDispatch(t)
    BY <2>9 DEF FailDispatch
  <2>10. QED
    BY <1>4, <2>1, <2>2, <2>3, <2>4, <2>5, <2>6, <2>7, <2>8, <2>9 DEF DispatchStep
<1>5. ASSUME NEW t \in Threads, DispatchError(t) \/ AbortPass(t)
      PROVE  TypeOK'
  <2>1. CASE DispatchError(t)
    BY <2>1 DEF DispatchError
  <2>2. CASE AbortPass(t)
    BY <2>2 DEF AbortPass
  <2>3. QED
    BY <1>5, <2>1, <2>2
<1>6. ASSUME NEW t \in Threads, StartRecovery(t)
      PROVE  TypeOK'
  <2>1. \A j \in Jobs : Snap(j) \in Snapshot
    BY DEF Snap, Snapshot, NoSnap
  <2>2. QED
    BY <1>6, <2>1 DEF StartRecovery
<1>7. ASSUME NEW t \in Threads, RecoveryStep(t)
      PROVE  TypeOK'
  <2>1. NoSnap \in Snapshot
    BY DEF Snapshot, NoSnap
  <2>2. ASSUME NEW j \in Jobs, LeaveAlone(t, j) PROVE TypeOK'
    BY <2>1, <2>2 DEF LeaveAlone, Judged
  <2>3. ASSUME NEW j \in Jobs, Reclassify(t, j) PROVE TypeOK'
    <3>1. \/ pc' = [pc EXCEPT ![t] = "unlease"] /\ cur' = [cur EXCEPT ![t] = j]
          \/ UNCHANGED <<pc, cur>>
      BY <2>3 DEF Reclassify
    <3>2. status' \in [Jobs -> {"none"} \union Active \union Terminal]
      BY <2>3 DEF Reclassify
    <3>3. snap' \in [Threads -> [Jobs -> Snapshot]]
      BY <2>1, <2>3 DEF Reclassify, Judged
    <3>4. /\ pc[t] = "recover"
          /\ UNCHANGED <<cancelReq, attached, fresh, workerVars, early, lease, todo,
                         requestVars, crashes>>
      BY <2>3 DEF Reclassify
    <3>5. CASE pc' = [pc EXCEPT ![t] = "unlease"] /\ cur' = [cur EXCEPT ![t] = j]
      BY <3>2, <3>3, <3>4, <3>5
    <3>6. CASE UNCHANGED <<pc, cur>>
      BY <3>2, <3>3, <3>4, <3>6
    <3>7. QED
      BY <3>1, <3>5, <3>6
  <2>4. CASE EndRecovery(t)
    BY <2>4 DEF EndRecovery
  <2>5. CASE ReleaseRecovered(t)
    BY <2>5 DEF ReleaseRecovered
  <2>6. QED
    BY <1>7, <2>2, <2>3, <2>4, <2>5 DEF RecoveryStep
<1>8. ASSUME NEW r \in Requests, NEW j \in Jobs, RequestCancel(r, j)
      PROVE  TypeOK'
  <2>1. /\ cjob' = [cjob EXCEPT ![r] = j]
        /\ UNCHANGED <<attached, fresh, workerVars, lease, schedVars, crashes>>
    BY <1>8 DEF RequestCancel
  <2>2. CASE status[j] = "queued"
    <3>1. /\ status' = [status EXCEPT ![j] = "cancelled"]
          /\ cancelReq' = [cancelReq EXCEPT ![j] = TRUE]
          /\ early' = [early EXCEPT ![j] = TRUE]
          /\ cpc' = [cpc EXCEPT ![r] = "release"]
          /\ UNCHANGED cseen
      BY <1>8, <2>2 DEF RequestCancel
    <3>2. QED
      BY <2>1, <3>1
  <2>3. CASE status[j] = "cancelled"
    BY <1>8, <2>1, <2>3 DEF RequestCancel
  <2>4. CASE status[j] \in Active \ {"queued"}
    <3>1. /\ status' = [status EXCEPT ![j] = "cancelling"]
          /\ cancelReq' = [cancelReq EXCEPT ![j] = TRUE]
          /\ cseen' = [cseen EXCEPT ![r] = attached[j]]
          /\ cpc' = [cpc EXCEPT ![r] = "kill"]
          /\ UNCHANGED early
      BY <1>8, <2>4 DEF RequestCancel
    <3>2. QED
      BY <2>1, <3>1
  <2>5. QED
    BY <1>8, <2>2, <2>3, <2>4 DEF RequestCancel
<1>9. ASSUME NEW r \in Requests, CancelStep(r)
      PROVE  TypeOK'
  <2>1. CASE KillWorker(r)
    BY <2>1 DEF KillWorker
  <2>2. CASE ConfirmCancel(r)
    <3>1. /\ cpc[r] = "confirm"
          /\ UNCHANGED <<cancelReq, attached, fresh, workerVars, early, lease,
                         schedVars, crashes>>
      BY <2>2 DEF ConfirmCancel
    <3>2. \/ /\ status' = [status EXCEPT ![cjob[r]] = "cancelled"]
             /\ cpc' = [cpc EXCEPT ![r] = "release"]
             /\ UNCHANGED <<cjob, cseen>>
          \/ /\ cpc' = [cpc EXCEPT ![r] = "idle"]
             /\ cjob' = [cjob EXCEPT ![r] = NoJob]
             /\ cseen' = [cseen EXCEPT ![r] = FALSE]
             /\ UNCHANGED status
      BY <2>2 DEF ConfirmCancel, RequestDone
    <3>3. CASE /\ status' = [status EXCEPT ![cjob[r]] = "cancelled"]
               /\ cpc' = [cpc EXCEPT ![r] = "release"]
               /\ UNCHANGED <<cjob, cseen>>
      BY <3>1, <3>3
    <3>4. CASE /\ cpc' = [cpc EXCEPT ![r] = "idle"]
               /\ cjob' = [cjob EXCEPT ![r] = NoJob]
               /\ cseen' = [cseen EXCEPT ![r] = FALSE]
               /\ UNCHANGED status
      BY <3>1, <3>4
    <3>5. QED
      BY <3>2, <3>3, <3>4
  <2>3. CASE ReleaseCancelled(r)
    BY <2>3 DEF ReleaseCancelled, RequestDone
  <2>4. QED
    BY <1>9, <2>1, <2>2, <2>3 DEF CancelStep
<1>10. ASSUME NEW j \in Jobs, WorkerStep(j)
       PROVE  TypeOK'
  <2>1. CASE WorkerBoot(j)
    BY <2>1 DEF WorkerBoot, HolderIsWorker
  <2>2. CASE WorkerCheck(j)
    BY <2>2 DEF WorkerCheck
  <2>3. CASE WorkerHandler(j)
    BY <2>3 DEF WorkerHandler
  <2>4. CASE WorkerCancelled(j)
    BY <2>4 DEF WorkerCancelled
  <2>5. CASE WorkerGo(j)
    BY <2>5 DEF WorkerGo
  <2>6. CASE WorkerFinish(j)
    BY <2>6 DEF WorkerFinish, WorkerFinal
  <2>7. CASE WorkerError(j)
    BY <2>7 DEF WorkerError, WorkerFinal
  <2>8. CASE WorkerExit(j)
    BY <2>8 DEF WorkerExit
  <2>9. QED
    BY <1>10, <2>1, <2>2, <2>3, <2>4, <2>5, <2>6, <2>7, <2>8 DEF WorkerStep
<1>11. ASSUME NEW j \in Jobs, WorkerFinishTimeout(j) \/ Beat(j) \/ HeartbeatLapse(j) \/ WorkerCrash(j)
       PROVE  TypeOK'
  <2>1. CASE WorkerFinishTimeout(j)
    BY <2>1 DEF WorkerFinishTimeout
  <2>2. CASE Beat(j)
    BY <2>2 DEF Beat
  <2>3. CASE HeartbeatLapse(j)
    BY <2>3 DEF HeartbeatLapse
  <2>4. CASE WorkerCrash(j)
    BY <2>4 DEF WorkerCrash
  <2>5. QED
    BY <1>11, <2>1, <2>2, <2>3, <2>4
<1>12. CASE BackendCrash
  BY <1>12 DEF BackendCrash, NoSnaps, NoSnap, Snapshot
<1>13. CASE UNCHANGED vars
  BY <1>13 DEF vars
<1>14. QED
  BY <1>1, <1>2, <1>3, <1>4, <1>5, <1>6, <1>7, <1>8, <1>9, <1>10, <1>11, <1>12, <1>13
     DEF Next

(* The state of the job manager is of its types, whatever the constants.   *)
THEOREM TypeCorrect == Spec => []TypeOK
  BY InitTyped, StepTyped, PTL DEF Spec
-----------------------------------------------------------------------------
(* At most one worker per job.  The argument follows the life of a job:    *)
(* until a thread passes "mark" nobody but that thread may touch the job,  *)
(* and the claim keeps two threads apart.                                  *)

(* Nothing outside the dispatch has been started for j: no worker, no      *)
(* recovery verdict and no termination is under way.                       *)
Untouched(j) ==
    /\ spawns[j] = 0
    /\ worker[j] = "none"
    /\ \A t \in Threads : ~snap[t][j].seen /\ ~(pc[t] = "unlease" /\ cur[t] = j)
    /\ \A r \in Requests : cjob[r] = j => cpc[r] \notin {"kill", "confirm"}

QueuedUntouched == \A j \in Jobs : status[j] \in {"none", "queued"} => Untouched(j)

ClaimedUntouched ==
    \A t \in Threads : pc[t] \in {"acquire", "mark"} =>
        Untouched(cur[t]) /\ status[cur[t]] \in {"queued", "cancelled"}

ClaimExclusive ==
    \A t, u \in Threads :
        t # u /\ pc[t] \in Dispatching /\ pc[u] \in Dispatching => cur[t] # cur[u]

FirstSpawn ==
    \A t \in Threads : pc[t] = "spawn" =>
        /\ spawns[cur[t]] = 0
        /\ status[cur[t]] \notin {"none", "queued"}
        /\ ~early[cur[t]]

EarlyUntouched ==
    \A j \in Jobs : early[j] => status[j] \in {"cancelled", "failed"} /\ Untouched(j)

DispatchInv ==
    /\ TypeOK
    /\ QueuedUntouched /\ ClaimedUntouched /\ ClaimExclusive
    /\ FirstSpawn /\ EarlyUntouched /\ SpawnOnce

(* Before the first submission nothing is claimed or spawned.              *)
LEMMA InitDispatch == Init => DispatchInv
<1> SUFFICES ASSUME Init PROVE DispatchInv
  OBVIOUS
<1>1. TypeOK
  BY InitTyped
<1>2. QED
  BY <1>1 DEF Init, DispatchInv, QueuedUntouched, ClaimedUntouched, ClaimExclusive,
      FirstSpawn, EarlyUntouched, SpawnOnce, Untouched, NoSnaps, NoSnap, Dispatching

(* Every step keeps it, action by action.                                  *)
LEMMA StepDispatch == DispatchInv /\ [Next]_vars => DispatchInv'
<1> SUFFICES ASSUME DispatchInv, [Next]_vars
             PROVE  DispatchInv'
  OBVIOUS
<1>0. TypeOK /\ TypeOK'
  BY StepTyped DEF DispatchInv
<1> USE <1>0 DEF DispatchInv, QueuedUntouched, ClaimedUntouched, ClaimExclusive,
      FirstSpawn, EarlyUntouched, SpawnOnce, Untouched, TypeOK, 
        Dispatching,
        stateVars, workerVars, schedVars, requestVars,
        Goto, Return, SetStatus, WorkerAt, Status, Active, Terminal
<1>1. ASSUME NEW j \in Jobs, SubmitJob(j)
      PROVE  DispatchInv'
  BY <1>1 DEF SubmitJob
<1>2. ASSUME NEW j \in Jobs, NEW old \in Jobs, RetryJob(old, j)
      PROVE  DispatchInv'
  BY <1>2 DEF RetryJob, SubmitJob
<1>3. ASSUME NEW t \in Threads, StartPass(t)
      PROVE  DispatchInv'
  BY <1>3 DEF StartPass
<1>4. ASSUME NEW t \in Threads, NEW j \in Jobs, ClaimJob(t, j)
      PROVE  DispatchInv'
  BY <1>4 DEF ClaimJob, NextInPass, Claimed
<1>5. ASSUME NEW t \in Threads, NEW j \in Jobs, SkipJob(t, j)
      PROVE  DispatchInv'
  BY <1>5 DEF SkipJob
<1>6. ASSUME NEW t \in Threads, EndPass(t)
      PROVE  DispatchInv'
  BY <1>6 DEF EndPass
<1>7. ASSUME NEW t \in Threads, AcquireLease(t)
      PROVE  DispatchInv'
  <2>1. /\ pc[t] = "acquire"
        /\ UNCHANGED <<stateVars, workerVars, early, todo, snap, requestVars, crashes>>
        /\ (Goto(t, "mark") /\ UNCHANGED cur) \/ Return(t, "pass")
    <3>1. CASE LockTimeouts /\ Return(t, "pass") /\ UNCHANGED lease
      BY <1>7, <3>1 DEF AcquireLease
    <3>2. QED
      BY <1>7, <3>1 DEF AcquireLease
  <2>2. CASE Goto(t, "mark") /\ UNCHANGED cur
    BY <2>1, <2>2
  <2>3. CASE Return(t, "pass")
    BY <2>1, <2>3
  <2>4. QED
    BY <2>1, <2>2, <2>3
<1>8. ASSUME NEW t \in Threads, MarkStarting(t)
      PROVE  DispatchInv'
  <2>1. /\ pc[t] = "mark"
        /\ UNCHANGED <<cancelReq, attached, workerVars, early, todo, snap, requestVars, crashes>>
    BY <1>8 DEF MarkStarting
  <2>2. CASE /\ status[cur[t]] = "queued"
             /\ SetStatus(cur[t], "starting")
             /\ Goto(t, "spawn")
             /\ UNCHANGED <<lease, cur>>
    BY <2>1, <2>2
  <2>3. CASE Return(t, "pass") /\ UNCHANGED <<status, fresh>>
    BY <2>1, <2>3
  <2>4. QED
    BY <1>8, <2>2, <2>3 DEF MarkStarting
<1>9. ASSUME NEW t \in Threads, SpawnWorker(t)
      PROVE  DispatchInv'
  BY <1>9 DEF SpawnWorker
<1>10. ASSUME NEW t \in Threads, AttachProcess(t)
      PROVE  DispatchInv'
  BY <1>10 DEF AttachProcess
<1>11. ASSUME NEW t \in Threads, HandOverLease(t)
      PROVE  DispatchInv'
  BY <1>11 DEF HandOverLease
<1>12. ASSUME NEW t \in Threads, FailDispatch(t)
      PROVE  DispatchInv'
  BY <1>12 DEF FailDispatch
<1>13. ASSUME NEW t \in Threads, DispatchError(t)
      PROVE  DispatchInv'
  BY <1>13 DEF DispatchError
<1>14. ASSUME NEW t \in Threads, AbortPass(t)
      PROVE  DispatchInv'
  BY <1>14 DEF AbortPass
<1>15. ASSUME NEW t \in Threads, StartRecovery(t)
      PROVE  DispatchInv'
  BY <1>15 DEF StartRecovery, Snap, NoSnap
<1>16. ASSUME NEW t \in Threads, NEW j \in Jobs, LeaveAlone(t, j)
      PROVE  DispatchInv'
  BY <1>16 DEF LeaveAlone, Judged, NoSnap
<1>17. ASSUME NEW t \in Threads, NEW j \in Jobs, Reclassify(t, j)
      PROVE  DispatchInv'
  <2>1. /\ pc[t] = "recover" /\ snap[t][j].seen
        /\ status' \in {[status EXCEPT ![j] = "cancelled"], [status EXCEPT ![j] = "interrupted"]}
        /\ snap' = [snap EXCEPT ![t][j] = NoSnap]
        /\ UNCHANGED <<cancelReq, attached, fresh, workerVars, early, lease, todo,
                       requestVars, crashes>>
    BY <1>17 DEF Reclassify, Judged
  <2>2. CASE Goto(t, "unlease") /\ cur' = [cur EXCEPT ![t] = j]
    BY <2>1, <2>2 DEF NoSnap
  <2>3. CASE UNCHANGED <<pc, cur>>
    BY <2>1, <2>3 DEF NoSnap
  <2>4. QED
    BY <1>17, <2>2, <2>3 DEF Reclassify
<1>18. ASSUME NEW t \in Threads, EndRecovery(t)
      PROVE  DispatchInv'
  BY <1>18 DEF EndRecovery
<1>19. ASSUME NEW t \in Threads, ReleaseRecovered(t)
      PROVE  DispatchInv'
  BY <1>19 DEF ReleaseRecovered
<1>20. ASSUME NEW r \in Requests, NEW j \in Jobs, RequestCancel(r, j)
      PROVE  DispatchInv'
  BY <1>20 DEF RequestCancel
<1>21. ASSUME NEW r \in Requests, KillWorker(r)
      PROVE  DispatchInv'
  BY <1>21 DEF KillWorker
<1>22. ASSUME NEW r \in Requests, ConfirmCancel(r)
      PROVE  DispatchInv'
  <2>1. /\ cpc[r] = "confirm"
        /\ UNCHANGED <<cancelReq, attached, fresh, workerVars, early, lease,
                       schedVars, crashes>>
    BY <1>22 DEF ConfirmCancel
  <2>2. CASE /\ SetStatus(cjob[r], "cancelled")
             /\ cpc' = [cpc EXCEPT ![r] = "release"]
             /\ UNCHANGED <<cjob, cseen>>
    BY <2>1, <2>2
  <2>3. CASE RequestDone(r) /\ UNCHANGED status
    BY <2>1, <2>3 DEF RequestDone
  <2>4. QED
    BY <1>22, <2>2, <2>3 DEF ConfirmCancel
<1>23. ASSUME NEW r \in Requests, ReleaseCancelled(r)
      PROVE  DispatchInv'
  BY <1>23 DEF ReleaseCancelled, RequestDone
<1>24. ASSUME NEW j \in Jobs, WorkerBoot(j)
      PROVE  DispatchInv'
  BY <1>24 DEF WorkerBoot
<1>25. ASSUME NEW j \in Jobs, WorkerCheck(j)
      PROVE  DispatchInv'
  BY <1>25 DEF WorkerCheck
<1>26. ASSUME NEW j \in Jobs, WorkerCancelled(j)
      PROVE  DispatchInv'
  BY <1>26 DEF WorkerCancelled
<1>27. ASSUME NEW j \in Jobs, WorkerGo(j)
      PROVE  DispatchInv'
  BY <1>27 DEF WorkerGo
<1>28. ASSUME NEW j \in Jobs, WorkerHandler(j)
      PROVE  DispatchInv'
  BY <1>28 DEF WorkerHandler
<1>29. ASSUME NEW j \in Jobs, WorkerFinish(j)
      PROVE  DispatchInv'
  BY <1>29 DEF WorkerFinish, WorkerFinal
<1>30. ASSUME NEW j \in Jobs, WorkerError(j)
      PROVE  DispatchInv'
  BY <1>30 DEF WorkerError, WorkerFinal
<1>31. ASSUME NEW j \in Jobs, WorkerFinishTimeout(j)
      PROVE  DispatchInv'
  BY <1>31 DEF WorkerFinishTimeout
<1>32. ASSUME NEW j \in Jobs, WorkerExit(j)
      PROVE  DispatchInv'
  BY <1>32 DEF WorkerExit
<1>33. ASSUME NEW j \in Jobs, Beat(j)
      PROVE  DispatchInv'
  BY <1>33 DEF Beat
<1>34. ASSUME NEW j \in Jobs, HeartbeatLapse(j)
      PROVE  DispatchInv'
  BY <1>34 DEF HeartbeatLapse
<1>35. ASSUME NEW j \in Jobs, WorkerCrash(j)
      PROVE  DispatchInv'
  BY <1>35 DEF WorkerCrash, Alive
<1>36. CASE BackendCrash
  BY <1>36 DEF BackendCrash, NoSnaps, NoSnap
<1>37. CASE UNCHANGED vars
  BY <1>37 DEF vars
<1>38. QED
  BY <1>1, <1>2, <1>3, <1>4, <1>5, <1>6, <1>7, <1>8, <1>9, <1>10, <1>11, <1>12, <1>13,
     <1>14, <1>15, <1>16, <1>17, <1>18, <1>19, <1>20, <1>21, <1>22, <1>23, <1>24, <1>25,
     <1>26, <1>27, <1>28, <1>29, <1>30, <1>31, <1>32, <1>33, <1>34, <1>35, <1>36,
     <1>37 DEF Next, DispatchStep, RecoveryStep, CancelStep, WorkerStep

(* No job is ever given to two worker processes: the claim keeps dispatch  *)
(* threads apart, and the queued -> starting update happens at most once,  *)
(* whatever crashes, timeouts or unidentified processes do.                *)
THEOREM AtMostOneWorker == Spec => []SpawnOnce
<1>1. DispatchInv => SpawnOnce
  BY DEF DispatchInv
<1>2. QED
  BY <1>1, InitDispatch, StepDispatch, PTL DEF Spec

(* A job cancelled while it was queued stays terminal and never gets a     *)
(* worker, even if the cancel met a dispatch that had already claimed it.  *)
THEOREM EarlyCancelHolds == Spec => []EarlyCancelNeverRuns
<1>1. DispatchInv => EarlyCancelNeverRuns
  BY DEF DispatchInv, EarlyUntouched, EarlyCancelNeverRuns, Untouched, Terminal
<1>2. QED
  BY <1>1, InitDispatch, StepDispatch, PTL DEF Spec
-----------------------------------------------------------------------------
(* What an acquire does to the lease files: it drops some stale leases and, *)
(* if the class then has a free one, writes its own.                       *)
Kept(gone) == [k \in Jobs |-> IF k \in gone THEN "none" ELSE lease[k]]
Used(gone, c) == {k \in Jobs : Kept(gone)[k] # "none" /\ Class[k] = c}

(* What a pass of the scheduler changes when it asks for a lease: the      *)
(* leases of dead holders go, and at most its own job gets one.            *)
LEMMA AcquireEffect ==
  ASSUME TypeOK, NEW t \in Threads, AcquireLease(t)
  PROVE  /\ pc[t] = "acquire" /\ cur[t] \in Jobs
         /\ UNCHANGED <<stateVars, workerVars, early, todo, snap, requestVars, crashes>>
         /\ \/ \E gone \in Cleanups :
                 /\ Cardinality(Used(gone, Class[cur[t]])) < Limit[Class[cur[t]]]
                 /\ lease' = [Kept(gone) EXCEPT ![cur[t]] = "backend"]
                 /\ Goto(t, "mark") /\ UNCHANGED cur
            \/ \E gone \in Cleanups : lease' = Kept(gone) /\ Return(t, "pass")
            \/ LockTimeouts /\ Return(t, "pass") /\ UNCHANGED lease
<1>1. pc[t] = "acquire" /\ cur[t] \in Jobs
  BY DEF AcquireLease, TypeOK, Dispatching
<1>2. UNCHANGED <<stateVars, workerVars, early, todo, snap, requestVars, crashes>>
  BY DEF AcquireLease
<1>3. ASSUME NEW gone \in Cleanups,
             Cardinality({k \in Jobs : Kept(gone)[k] # "none" /\ Class[k] = Class[cur[t]]})
               < Limit[Class[cur[t]]],
             lease' = [Kept(gone) EXCEPT ![cur[t]] = "backend"],
             Goto(t, "mark"), UNCHANGED cur
      PROVE  \E g \in Cleanups :
                 /\ Cardinality(Used(g, Class[cur[t]])) < Limit[Class[cur[t]]]
                 /\ lease' = [Kept(g) EXCEPT ![cur[t]] = "backend"]
                 /\ Goto(t, "mark") /\ UNCHANGED cur
  BY <1>3 DEF Used
<1>4. QED
  BY <1>1, <1>2, <1>3 DEF AcquireLease, Kept

(* With lock timeouts excluded, a dispatch that gives up drops its lease:  *)
(* the only steps that write "backend" and that leave it are those of the  *)
(* thread that holds the claim.                                            *)
LEMMA StepPhantom ==
  ~LockTimeouts /\ TypeOK /\ NoPhantomLease /\ [Next]_vars => NoPhantomLease'
<1> SUFFICES ASSUME ~LockTimeouts, TypeOK, NoPhantomLease, [Next]_vars
             PROVE  NoPhantomLease'
  OBVIOUS
<1> USE DEF NoPhantomLease, TypeOK, Dispatching, stateVars, workerVars, schedVars,
        requestVars, Goto, Return, SetStatus, WorkerAt
<1>1. ASSUME NEW j \in Jobs, SubmitJob(j)
      PROVE  NoPhantomLease'
  BY <1>1 DEF SubmitJob
<1>2. ASSUME NEW j \in Jobs, NEW old \in Jobs, RetryJob(old, j)
      PROVE  NoPhantomLease'
  BY <1>2 DEF RetryJob, SubmitJob
<1>3. ASSUME NEW t \in Threads, StartPass(t)
      PROVE  NoPhantomLease'
  BY <1>3 DEF StartPass
<1>4. ASSUME NEW t \in Threads, NEW j \in Jobs, ClaimJob(t, j)
      PROVE  NoPhantomLease'
  BY <1>4 DEF ClaimJob, NextInPass, Claimed
<1>5. ASSUME NEW t \in Threads, NEW j \in Jobs, SkipJob(t, j)
      PROVE  NoPhantomLease'
  BY <1>5 DEF SkipJob
<1>6. ASSUME NEW t \in Threads, EndPass(t)
      PROVE  NoPhantomLease'
  BY <1>6 DEF EndPass
<1>7. ASSUME NEW t \in Threads, AcquireLease(t)
      PROVE  NoPhantomLease'
  <2>1. pc[t] = "acquire" /\ cur[t] \in Jobs
    BY <1>7, AcquireEffect
  <2>2. CASE LockTimeouts
    BY <2>2
  <2>3. ASSUME NEW gone \in Cleanups,
               lease' = [Kept(gone) EXCEPT ![cur[t]] = "backend"],
               Goto(t, "mark"), UNCHANGED cur
        PROVE  NoPhantomLease'
    <3>1. \A k \in Jobs : lease'[k] = "backend" => lease[k] = "backend" \/ k = cur[t]
      BY <2>3 DEF Kept
    <3>2. pc'[t] = "mark" /\ \A u \in Threads \ {t} : pc'[u] = pc[u]
      BY <2>3
    <3>3. QED
      BY <2>1, <2>3, <3>1, <3>2
  <2>4. ASSUME NEW gone \in Cleanups, lease' = Kept(gone), Return(t, "pass")
        PROVE  NoPhantomLease'
    <3>1. \A k \in Jobs : lease'[k] = "backend" => lease[k] = "backend"
      BY <2>4 DEF Kept
    <3>2. \A u \in Threads \ {t} : pc'[u] = pc[u] /\ cur'[u] = cur[u]
      BY <2>4
    <3>3. QED
      BY <2>1, <3>1, <3>2
  <2>5. \/ \E gone \in Cleanups :
              /\ lease' = [Kept(gone) EXCEPT ![cur[t]] = "backend"]
              /\ Goto(t, "mark") /\ UNCHANGED cur
        \/ \E gone \in Cleanups : lease' = Kept(gone) /\ Return(t, "pass")
        \/ LockTimeouts
    <3> HIDE DEF Goto, Return, TypeOK, NoPhantomLease
    <3>1. QED
      BY <1>7, TypeOK, AcquireEffect
  <2>6. QED
    <3> HIDE DEF Goto, Return, TypeOK, NoPhantomLease
    <3>1. QED
      BY <2>2, <2>3, <2>4, <2>5
<1>8. ASSUME NEW t \in Threads, MarkStarting(t)
      PROVE  NoPhantomLease'
  <2>1. pc[t] = "mark" /\ cur[t] \in Jobs
    BY <1>8 DEF MarkStarting, Release
  <2>2. CASE Goto(t, "spawn") /\ UNCHANGED <<lease, cur>>
    BY <2>1, <2>2
  <2>3. CASE Release(cur[t]) /\ Return(t, "pass")
    <3>1. \A k \in Jobs : lease'[k] = "backend" => lease[k] = "backend" /\ k # cur[t]
      BY <2>1, <2>3 DEF Release
    <3>2. \A u \in Threads \ {t} : pc'[u] = pc[u] /\ cur'[u] = cur[u]
      BY <2>3
    <3>3. QED
      BY <2>1, <3>1, <3>2
  <2>4. QED
    BY <1>8, <2>2, <2>3 DEF MarkStarting, Release
<1>9. ASSUME NEW t \in Threads, SpawnWorker(t)
      PROVE  NoPhantomLease'
  BY <1>9 DEF SpawnWorker
<1>10. ASSUME NEW t \in Threads, AttachProcess(t)
      PROVE  NoPhantomLease'
  BY <1>10 DEF AttachProcess
<1>11. ASSUME NEW t \in Threads, HandOverLease(t)
      PROVE  NoPhantomLease'
  BY <1>11 DEF HandOverLease, HolderIsWorker
<1>12. ASSUME NEW t \in Threads, FailDispatch(t)
      PROVE  NoPhantomLease'
  BY <1>12 DEF FailDispatch
<1>13. ASSUME NEW t \in Threads, DispatchError(t)
      PROVE  NoPhantomLease'
  BY <1>13 DEF DispatchError
<1>14. ASSUME NEW t \in Threads, AbortPass(t)
      PROVE  NoPhantomLease'
  BY <1>14 DEF AbortPass
<1>15. ASSUME NEW t \in Threads, StartRecovery(t)
      PROVE  NoPhantomLease'
  BY <1>15 DEF StartRecovery, Snap, NoSnap
<1>16. ASSUME NEW t \in Threads, NEW j \in Jobs, LeaveAlone(t, j)
      PROVE  NoPhantomLease'
  BY <1>16 DEF LeaveAlone, Judged, NoSnap
<1>17. ASSUME NEW t \in Threads, NEW j \in Jobs, Reclassify(t, j)
      PROVE  NoPhantomLease'
  <2>1. /\ pc[t] = "recover" /\ lease' = lease
        /\ \A u \in Threads \ {t} : pc'[u] = pc[u] /\ cur'[u] = cur[u]
    BY <1>17 DEF Reclassify
  <2>2. QED
    BY <2>1
<1>18. ASSUME NEW t \in Threads, EndRecovery(t)
      PROVE  NoPhantomLease'
  BY <1>18 DEF EndRecovery
<1>19. ASSUME NEW t \in Threads, ReleaseRecovered(t)
      PROVE  NoPhantomLease'
  BY <1>19 DEF ReleaseRecovered, Release
<1>20. ASSUME NEW r \in Requests, NEW j \in Jobs, RequestCancel(r, j)
      PROVE  NoPhantomLease'
  BY <1>20 DEF RequestCancel
<1>21. ASSUME NEW r \in Requests, KillWorker(r)
      PROVE  NoPhantomLease'
  BY <1>21 DEF KillWorker
<1>22. ASSUME NEW r \in Requests, ConfirmCancel(r)
      PROVE  NoPhantomLease'
  BY <1>22 DEF ConfirmCancel
<1>23. ASSUME NEW r \in Requests, ReleaseCancelled(r)
      PROVE  NoPhantomLease'
  BY <1>23 DEF ReleaseCancelled, RequestDone, Release
<1>24. ASSUME NEW j \in Jobs, WorkerBoot(j)
      PROVE  NoPhantomLease'
  BY <1>24 DEF WorkerBoot, HolderIsWorker
<1>25. ASSUME NEW j \in Jobs, WorkerCheck(j)
      PROVE  NoPhantomLease'
  BY <1>25 DEF WorkerCheck
<1>26. ASSUME NEW j \in Jobs, WorkerCancelled(j)
      PROVE  NoPhantomLease'
  BY <1>26 DEF WorkerCancelled
<1>27. ASSUME NEW j \in Jobs, WorkerGo(j)
      PROVE  NoPhantomLease'
  BY <1>27 DEF WorkerGo
<1>28. ASSUME NEW j \in Jobs, WorkerHandler(j)
      PROVE  NoPhantomLease'
  BY <1>28 DEF WorkerHandler
<1>29. ASSUME NEW j \in Jobs, WorkerFinish(j)
      PROVE  NoPhantomLease'
  BY <1>29 DEF WorkerFinish, WorkerFinal
<1>30. ASSUME NEW j \in Jobs, WorkerError(j)
      PROVE  NoPhantomLease'
  BY <1>30 DEF WorkerError, WorkerFinal
<1>31. ASSUME NEW j \in Jobs, WorkerFinishTimeout(j)
      PROVE  NoPhantomLease'
  BY <1>31 DEF WorkerFinishTimeout
<1>32. ASSUME NEW j \in Jobs, WorkerExit(j)
      PROVE  NoPhantomLease'
  BY <1>32 DEF WorkerExit, Release
<1>33. ASSUME NEW j \in Jobs, Beat(j)
      PROVE  NoPhantomLease'
  BY <1>33 DEF Beat
<1>34. ASSUME NEW j \in Jobs, HeartbeatLapse(j)
      PROVE  NoPhantomLease'
  BY <1>34 DEF HeartbeatLapse
<1>35. ASSUME NEW j \in Jobs, WorkerCrash(j)
      PROVE  NoPhantomLease'
  BY <1>35 DEF WorkerCrash, Alive
<1>36. CASE BackendCrash
  BY <1>36 DEF BackendCrash, NoSnaps, NoSnap
<1>37. CASE UNCHANGED vars
  BY <1>37 DEF vars
<1>38. QED
  BY <1>1, <1>2, <1>3, <1>4, <1>5, <1>6, <1>7, <1>8, <1>9, <1>10, <1>11, <1>12, <1>13,
     <1>14, <1>15, <1>16, <1>17, <1>18, <1>19, <1>20, <1>21, <1>22, <1>23, <1>24, <1>25,
     <1>26, <1>27, <1>28, <1>29, <1>30, <1>31, <1>32, <1>33, <1>34, <1>35, <1>36, <1>37
     DEF Next, DispatchStep, RecoveryStep, CancelStep, WorkerStep

(* Unless a lock times out, no lease in the name of the running backend    *)
(* outlives its dispatch, whatever cancels, recovery and crashes do.       *)
THEOREM LeasesAreNotLost == ASSUME ~LockTimeouts PROVE Spec => []NoPhantomLease
<1>1. Init => NoPhantomLease
  BY DEF Init, NoPhantomLease
<1>2. QED
  BY <1>1, InitTyped, StepTyped, StepPhantom, PTL DEF Spec
-----------------------------------------------------------------------------
(* A terminal job stays terminal as long as locks do not time out and live *)
(* workers beat in time.  Only job_worker.run writes an active status      *)
(* without looking, so the argument follows a job from the moment it is    *)
(* marked as starting until its worker writes "running": in between its    *)
(* heartbeat is fresh, so that neither recovery nor a cancel that cannot   *)
(* see a process closes it.                                                *)

Launching(j) ==
    \/ worker[j] \in {"boot", "check", "go"}
    \/ \E t \in Threads : pc[t] = "spawn" /\ cur[t] = j

LaunchOpen ==
    \A j \in Jobs : Launching(j) => status[j] \in Active \ {"queued"} /\ fresh[j]

(* A recorded identity is that of a process that was started.              *)
IdentityIsOfWorker ==
    /\ \A j \in Jobs : attached[j] => worker[j] # "none"
    /\ \A t \in Threads : pc[t] \in {"attach", "holder"} => worker[cur[t]] # "none"
    /\ \A t \in Threads, j \in Jobs : snap[t][j].attached => worker[j] # "none"
    /\ \A r \in Requests :
          cpc[r] \in {"kill", "confirm"} /\ cseen[r] => worker[cjob[r]] # "none"

(* No verdict on a lapsed heartbeat is pending for a job being launched.   *)
LapsedIsNotLaunching ==
    \A t \in Threads, j \in Jobs : snap[t][j].seen /\ ~snap[t][j].fresh => ~Launching(j)

LaunchInv ==
    /\ DispatchInv
    /\ \A j \in Jobs : spawns[j] = 0 => worker[j] = "none"
    /\ \A t \in Threads : pc[t] # "failed"
    /\ LaunchOpen /\ IdentityIsOfWorker /\ LapsedIsNotLaunching

(* Before the first submission nothing is launching.                       *)
LEMMA InitLaunch == Init => LaunchInv
<1> SUFFICES ASSUME Init PROVE LaunchInv
  OBVIOUS
<1>1. DispatchInv
  BY InitDispatch
<1>2. QED
  BY <1>1 DEF Init, LaunchInv, LaunchOpen, IdentityIsOfWorker, LapsedIsNotLaunching,
      Launching, NoSnaps, NoSnap

(* Every step keeps it when no lock request times out and heartbeats are   *)
(* in time.                                                                *)
LEMMA StepLaunch ==
  ~LockTimeouts /\ TimelyHeartbeat /\ LaunchInv /\ [Next]_vars => LaunchInv'
<1> SUFFICES ASSUME ~LockTimeouts, TimelyHeartbeat, LaunchInv, [Next]_vars
             PROVE  LaunchInv'
  OBVIOUS
<1>a. DispatchInv /\ DispatchInv' /\ TypeOK
  BY StepDispatch DEF LaunchInv, DispatchInv
<1>b. /\ QueuedUntouched /\ ClaimedUntouched /\ ClaimExclusive /\ FirstSpawn
  BY <1>a DEF DispatchInv
<1> USE <1>a, <1>b DEF LaunchInv, LaunchOpen, IdentityIsOfWorker, LapsedIsNotLaunching,
        Launching, TypeOK, Dispatching, FirstSpawn, ClaimedUntouched, ClaimExclusive,
        stateVars, workerVars, schedVars, requestVars,
        Goto, Return, SetStatus, WorkerAt, Status, Active, Terminal
<1>1. ASSUME NEW j \in Jobs, SubmitJob(j)
      PROVE  LaunchInv'
  BY <1>1 DEF SubmitJob, QueuedUntouched, Untouched
<1>2. ASSUME NEW j \in Jobs, NEW old \in Jobs, RetryJob(old, j)
      PROVE  LaunchInv'
  BY <1>2 DEF RetryJob, SubmitJob, QueuedUntouched, Untouched
<1>3. ASSUME NEW t \in Threads, StartPass(t)
      PROVE  LaunchInv'
  BY <1>3 DEF StartPass
<1>4. ASSUME NEW t \in Threads, NEW j \in Jobs, ClaimJob(t, j)
      PROVE  LaunchInv'
  BY <1>4 DEF ClaimJob, NextInPass, Claimed
<1>5. ASSUME NEW t \in Threads, NEW j \in Jobs, SkipJob(t, j)
      PROVE  LaunchInv'
  BY <1>5 DEF SkipJob
<1>6. ASSUME NEW t \in Threads, EndPass(t)
      PROVE  LaunchInv'
  BY <1>6 DEF EndPass
<1>7. ASSUME NEW t \in Threads, AcquireLease(t)
      PROVE  LaunchInv'
  <2>1. /\ pc[t] = "acquire"
        /\ UNCHANGED <<stateVars, workerVars, early, todo, snap, requestVars, crashes>>
        /\ (Goto(t, "mark") /\ UNCHANGED cur) \/ Return(t, "pass")
    <3> HIDE DEF LaunchInv
    <3>1. QED
      BY <1>7, AcquireEffect
  <2>2. CASE Goto(t, "mark") /\ UNCHANGED cur
    BY <2>1, <2>2
  <2>3. CASE Return(t, "pass")
    BY <2>1, <2>3
  <2>4. QED
    BY <2>1, <2>2, <2>3
<1>8. ASSUME NEW t \in Threads, MarkStarting(t)
      PROVE  LaunchInv'
  <2>1. /\ pc[t] = "mark" /\ cur[t] \in Jobs
        /\ UNCHANGED <<cancelReq, attached, workerVars, early, todo, snap, requestVars, crashes>>
        /\ Untouched(cur[t]) /\ status[cur[t]] \in {"queued", "cancelled"}
    BY <1>8 DEF MarkStarting
  <2>2. CASE /\ status[cur[t]] = "queued"
             /\ SetStatus(cur[t], "starting")
             /\ fresh' = [fresh EXCEPT ![cur[t]] = TRUE]
             /\ Goto(t, "spawn")
             /\ UNCHANGED <<lease, cur>>
    BY <2>1, <2>2 DEF Untouched
  <2>3. CASE Return(t, "pass") /\ UNCHANGED <<status, fresh>>
    BY <2>1, <2>3
  <2>4. QED
    BY <1>8, <2>1, <2>2, <2>3 DEF MarkStarting
<1>9. ASSUME NEW t \in Threads, SpawnWorker(t)
      PROVE  LaunchInv'
  BY <1>9 DEF SpawnWorker
<1>10. ASSUME NEW t \in Threads, AttachProcess(t)
      PROVE  LaunchInv'
  BY <1>10 DEF AttachProcess
<1>11. ASSUME NEW t \in Threads, HandOverLease(t)
      PROVE  LaunchInv'
  BY <1>11 DEF HandOverLease, HolderIsWorker
<1>12. ASSUME NEW t \in Threads, FailDispatch(t)
      PROVE  LaunchInv'
  BY <1>12 DEF FailDispatch
<1>13. ASSUME NEW t \in Threads, DispatchError(t)
      PROVE  LaunchInv'
  BY <1>13 DEF DispatchError
<1>14. ASSUME NEW t \in Threads, AbortPass(t)
      PROVE  LaunchInv'
  BY <1>14 DEF AbortPass
<1>15. ASSUME NEW t \in Threads, StartRecovery(t)
      PROVE  LaunchInv'
  BY <1>15 DEF StartRecovery, Snap, NoSnap
<1>16. ASSUME NEW t \in Threads, NEW j \in Jobs, LeaveAlone(t, j)
      PROVE  LaunchInv'
  BY <1>16 DEF LeaveAlone, Judged, NoSnap
<1>17. ASSUME NEW t \in Threads, NEW j \in Jobs, Reclassify(t, j)
      PROVE  LaunchInv'
  <2>1. /\ pc[t] = "recover" /\ snap[t][j].seen
        /\ status' \in {[status EXCEPT ![j] = "cancelled"], [status EXCEPT ![j] = "interrupted"]}
        /\ snap' = [snap EXCEPT ![t][j] = NoSnap]
        /\ UNCHANGED <<cancelReq, attached, fresh, workerVars, early, lease, todo,
                       requestVars, crashes>>
    BY <1>17 DEF Reclassify, Judged
  <2>2. ~Launching(j)
    BY <1>17 DEF Reclassify, Probe, Alive, DispatchInv, FirstSpawn
  <2>3. CASE Goto(t, "unlease") /\ cur' = [cur EXCEPT ![t] = j]
    BY <2>1, <2>2, <2>3 DEF NoSnap
  <2>4. CASE UNCHANGED <<pc, cur>>
    BY <2>1, <2>2, <2>4 DEF NoSnap
  <2>5. QED
    BY <1>17, <2>3, <2>4 DEF Reclassify
<1>18. ASSUME NEW t \in Threads, EndRecovery(t)
      PROVE  LaunchInv'
  BY <1>18 DEF EndRecovery
<1>19. ASSUME NEW t \in Threads, ReleaseRecovered(t)
      PROVE  LaunchInv'
  BY <1>19 DEF ReleaseRecovered, Release
<1>20. ASSUME NEW r \in Requests, NEW j \in Jobs, RequestCancel(r, j)
      PROVE  LaunchInv'
  BY <1>20 DEF RequestCancel, QueuedUntouched, Untouched
<1>21. ASSUME NEW r \in Requests, KillWorker(r)
      PROVE  LaunchInv'
  BY <1>21 DEF KillWorker, Alive
<1>22. ASSUME NEW r \in Requests, ConfirmCancel(r)
      PROVE  LaunchInv'
  <2>1. /\ cpc[r] = "confirm" /\ cjob[r] \in Jobs
        /\ UNCHANGED <<cancelReq, attached, fresh, workerVars, early, lease,
                       schedVars, crashes>>
    BY <1>22 DEF ConfirmCancel
  <2>2. CASE /\ "gone" \in Probe(cjob[r], cseen[r])
             /\ SetStatus(cjob[r], "cancelled")
             /\ cpc' = [cpc EXCEPT ![r] = "release"]
             /\ UNCHANGED <<cjob, cseen>>
    <3>1. ~Launching(cjob[r])
      BY <2>1, <2>2 DEF Probe, Alive, DispatchInv, FirstSpawn
    <3>2. QED
      BY <2>1, <2>2, <3>1
  <2>3. CASE RequestDone(r) /\ UNCHANGED status
    BY <2>1, <2>3 DEF RequestDone
  <2>4. QED
    BY <1>22, <2>2, <2>3 DEF ConfirmCancel
<1>23. ASSUME NEW r \in Requests, ReleaseCancelled(r)
      PROVE  LaunchInv'
  BY <1>23 DEF ReleaseCancelled, RequestDone, Release
<1>24. ASSUME NEW j \in Jobs, WorkerBoot(j)
      PROVE  LaunchInv'
  BY <1>24 DEF WorkerBoot, HolderIsWorker
<1>25. ASSUME NEW j \in Jobs, WorkerCheck(j)
      PROVE  LaunchInv'
  BY <1>25 DEF WorkerCheck
<1>26. ASSUME NEW j \in Jobs, WorkerCancelled(j)
      PROVE  LaunchInv'
  BY <1>26 DEF WorkerCancelled
<1>27. ASSUME NEW j \in Jobs, WorkerGo(j)
      PROVE  LaunchInv'
  BY <1>27 DEF WorkerGo
<1>28. ASSUME NEW j \in Jobs, WorkerHandler(j)
      PROVE  LaunchInv'
  BY <1>28 DEF WorkerHandler
<1>29. ASSUME NEW j \in Jobs, WorkerFinish(j)
      PROVE  LaunchInv'
  BY <1>29 DEF WorkerFinish, WorkerFinal
<1>30. ASSUME NEW j \in Jobs, WorkerError(j)
      PROVE  LaunchInv'
  BY <1>30 DEF WorkerError, WorkerFinal
<1>31. ASSUME NEW j \in Jobs, WorkerFinishTimeout(j)
      PROVE  LaunchInv'
  BY <1>31 DEF WorkerFinishTimeout
<1>32. ASSUME NEW j \in Jobs, WorkerExit(j)
      PROVE  LaunchInv'
  BY <1>32 DEF WorkerExit, Release
<1>33. ASSUME NEW j \in Jobs, Beat(j)
      PROVE  LaunchInv'
  BY <1>33 DEF Beat
<1>34. ASSUME NEW j \in Jobs, HeartbeatLapse(j)
      PROVE  LaunchInv'
  BY <1>34 DEF HeartbeatLapse, Alive
<1>35. ASSUME NEW j \in Jobs, WorkerCrash(j)
      PROVE  LaunchInv'
  BY <1>35 DEF WorkerCrash, Alive
<1>36. CASE BackendCrash
  BY <1>36 DEF BackendCrash, NoSnaps, NoSnap
<1>37. CASE UNCHANGED vars
  BY <1>37 DEF vars
<1>38. QED
  BY <1>1, <1>2, <1>3, <1>4, <1>5, <1>6, <1>7, <1>8, <1>9, <1>10, <1>11, <1>12, <1>13,
     <1>14, <1>15, <1>16, <1>17, <1>18, <1>19, <1>20, <1>21, <1>22, <1>23, <1>24, <1>25,
     <1>26, <1>27, <1>28, <1>29, <1>30, <1>31, <1>32, <1>33, <1>34, <1>35, <1>36, <1>37
     DEF Next, DispatchStep, RecoveryStep, CancelStep, WorkerStep

(* The only step that makes a job active is its submission: the others     *)
(* change the status of an active job, or close a job.                     *)
Allowed(k) ==
    \/ status'[k] = status[k]
    \/ status'[k] \in Terminal
    \/ status[k] \in Active /\ status'[k] \in Active
    \/ SubmitJob(k)

(* No step but a submission makes a job active that was not.               *)
LEMMA OnlySubmitActivates ==
  ASSUME ~LockTimeouts, TimelyHeartbeat, LaunchInv, [Next]_vars, NEW k \in Jobs
  PROVE  Allowed(k)
<1> USE DEF LaunchInv, DispatchInv, TypeOK, Terminal, Active, SetStatus, stateVars,
        Dispatching, Allowed
<1>1. ASSUME NEW j \in Jobs, SubmitJob(j) PROVE Allowed(k)
  BY <1>1 DEF SubmitJob
<1>2. ASSUME NEW t \in Threads, MarkStarting(t) PROVE Allowed(k)
  BY <1>2 DEF MarkStarting, ClaimedUntouched
<1>3. ASSUME NEW r \in Requests, NEW j \in Jobs, RequestCancel(r, j)
      PROVE  Allowed(k)
  BY <1>3 DEF RequestCancel
<1>4. ASSUME NEW j \in Jobs, WorkerGo(j) PROVE Allowed(k)
  BY <1>4 DEF WorkerGo, LaunchOpen, Launching
<1>5. ASSUME NEW j \in Jobs, WorkerCancelled(j) \/ WorkerFinish(j) \/ WorkerError(j)
      PROVE  Allowed(k)
  BY <1>5 DEF WorkerCancelled, WorkerFinish, WorkerError, WorkerFinal
<1>6. ASSUME NEW r \in Requests, ConfirmCancel(r) PROVE Allowed(k)
  BY <1>6 DEF ConfirmCancel
<1>7. ASSUME NEW t \in Threads, FailDispatch(t) PROVE Allowed(k)
  BY <1>7 DEF FailDispatch
<1>8. ASSUME NEW t \in Threads, NEW j \in Jobs, Reclassify(t, j)
      PROVE  Allowed(k)
  BY <1>8 DEF Reclassify
<1>9. ASSUME NEW t \in Threads,
             \/ StartPass(t) \/ EndPass(t) \/ AcquireLease(t) \/ SpawnWorker(t)
             \/ AttachProcess(t) \/ HandOverLease(t) \/ DispatchError(t) \/ AbortPass(t)
             \/ StartRecovery(t) \/ EndRecovery(t) \/ ReleaseRecovered(t)
             \/ \E j \in Jobs : ClaimJob(t, j) \/ SkipJob(t, j) \/ LeaveAlone(t, j)
      PROVE  Allowed(k)
  BY <1>9 DEF StartPass, EndPass, AcquireLease, SpawnWorker, AttachProcess, HandOverLease,
     DispatchError, AbortPass, StartRecovery, EndRecovery, ReleaseRecovered, ClaimJob,
     SkipJob, LeaveAlone
<1>10. ASSUME NEW j \in Jobs,
              \/ WorkerBoot(j) \/ WorkerCheck(j) \/ WorkerHandler(j) \/ WorkerExit(j)
              \/ WorkerFinishTimeout(j) \/ Beat(j) \/ HeartbeatLapse(j) \/ WorkerCrash(j)
       PROVE  Allowed(k)
  BY <1>10 DEF WorkerBoot, WorkerCheck, WorkerHandler, WorkerExit, WorkerFinishTimeout,
     Beat, HeartbeatLapse, WorkerCrash
<1>11. ASSUME NEW r \in Requests, KillWorker(r) \/ ReleaseCancelled(r)
       PROVE  Allowed(k)
  BY <1>11 DEF KillWorker, ReleaseCancelled
<1>12. CASE BackendCrash
  BY <1>12 DEF BackendCrash
<1>13. CASE UNCHANGED vars
  BY <1>13 DEF vars
<1>14. QED
  BY <1>1, <1>2, <1>3, <1>4, <1>5, <1>6, <1>7, <1>8, <1>9, <1>10, <1>11, <1>12, <1>13
     DEF Next, DispatchStep, RecoveryStep, CancelStep, WorkerStep, RetryJob

(* A terminal status stays terminal.                                       *)
LEMMA TerminalStays ==
  ~LockTimeouts /\ TimelyHeartbeat /\ LaunchInv /\ [Next]_vars =>
    \A j \in Jobs : status[j] \in Terminal => status'[j] \in Terminal
  BY OnlySubmitActivates DEF Allowed, SubmitJob, Terminal, Active

(* Unless a lock times out or a live worker misses its heartbeat, a        *)
(* terminal job never becomes active again, with any number of scheduler   *)
(* threads, requests, backend crashes, dying workers and processes that    *)
(* cannot be identified.                                                   *)
THEOREM TerminalIsFinal ==
  ASSUME ~LockTimeouts, TimelyHeartbeat PROVE Spec => NoResurrection
<1>1. LaunchInv /\ [Next]_vars =>
        [\A j \in Jobs : status[j] \in Terminal => status'[j] \in Terminal]_status
  BY TerminalStays
<1>2. QED
  BY <1>1, InitLaunch, StepLaunch, PTL DEF Spec, NoResurrection

(* Under the same conditions the check of submit_job is enough: no other   *)
(* step makes a job active, so at most one job per dedupe key is active.   *)
LEMMA StepKeys ==
  ~LockTimeouts /\ TimelyHeartbeat /\ LaunchInv /\ OneActivePerKey /\ [Next]_vars
    => OneActivePerKey'
<1> SUFFICES ASSUME ~LockTimeouts, TimelyHeartbeat, LaunchInv, OneActivePerKey, [Next]_vars
             PROVE  OneActivePerKey'
  OBVIOUS
<1>1. CASE \E j \in Jobs : SubmitJob(j)
  BY <1>1 DEF SubmitJob, KeyFree, SetStatus, OneActivePerKey, Active, TypeOK, LaunchInv,
              DispatchInv
<1>2. CASE ~\E j \in Jobs : SubmitJob(j)
  <2>1. \A k \in Jobs : status'[k] \in Active => status[k] \in Active
    BY <1>2, OnlySubmitActivates DEF Allowed, Active, Terminal
  <2>2. QED
    BY <2>1 DEF OneActivePerKey
<1>3. QED
  BY <1>1, <1>2

(* Two active jobs never share a dedupe key (submit_job looks for one      *)
(* under the lock), when no lock request times out and heartbeats are in   *)
(* time: no other step makes a job active again.                           *)
THEOREM KeysAreExclusive ==
  ASSUME ~LockTimeouts, TimelyHeartbeat PROVE Spec => []OneActivePerKey
<1>1. Init => OneActivePerKey
  BY DEF Init, OneActivePerKey, Active
<1>2. QED
  BY <1>1, InitLaunch, StepLaunch, StepKeys, PTL DEF Spec
-----------------------------------------------------------------------------
(* The workers of a class stay within its limit while, besides, the        *)
(* backend does not crash and every process is identified: each of them    *)
(* still holds the lease its dispatch took.                                *)

Serving(j) == Launching(j) \/ Working(j)

LeaseHeld ==
    /\ \A j \in Jobs : Serving(j) => lease[j] # "none"
    /\ \A t \in Threads :
          \/ pc[t] = "spawn"
          \/ pc[t] = "mark" /\ status[cur[t]] = "queued"
          => lease[cur[t]] = "backend"

(* What is about to drop a lease does so for a job nobody serves.          *)
ReleaseIsLate ==
    /\ \A t \in Threads : pc[t] = "unlease" => worker[cur[t]] = "dead"
    /\ \A r \in Requests : cpc[r] = "release" => status[cjob[r]] \in Terminal
    /\ \A j \in Jobs : status[j] \in Terminal => ~Serving(j)
    /\ \A j \in Jobs : Working(j) => attached[j]
    /\ \A t \in Threads, j \in Jobs :
          snap[t][j].seen /\ ~snap[t][j].attached /\ ~snap[t][j].fresh => ~Working(j)

ServeInv ==
    /\ LaunchInv
    /\ \A j \in Jobs : lease[j] # "old"
    /\ LeaseHeld /\ ReleaseIsLate

(* Before the first submission no lease is held.                           *)
LEMMA InitServe == Init => ServeInv
<1> SUFFICES ASSUME Init PROVE ServeInv
  OBVIOUS
<1>1. LaunchInv
  BY InitLaunch
<1>2. QED
  BY <1>1 DEF Init, ServeInv, LeaseHeld, ReleaseIsLate, Serving, Launching, Working,
     Terminal,
      NoSnaps, NoSnap

(* Every step keeps it, also when no probe is unknown and no backend dies. *)
LEMMA StepServe ==
  /\ ~LockTimeouts /\ TimelyHeartbeat /\ ~UnknownProbe /\ MaxCrashes = 0
  /\ ServeInv /\ [Next]_vars
  => ServeInv'
<1> SUFFICES ASSUME ~LockTimeouts, TimelyHeartbeat, ~UnknownProbe, MaxCrashes = 0,
                    ServeInv, [Next]_vars
             PROVE  ServeInv'
  OBVIOUS
<1>a. LaunchInv /\ LaunchInv' /\ DispatchInv /\ TypeOK
  BY StepLaunch DEF ServeInv, LaunchInv, DispatchInv
<1>b. /\ QueuedUntouched /\ ClaimedUntouched /\ ClaimExclusive /\ FirstSpawn
      /\ LaunchOpen /\ IdentityIsOfWorker /\ LapsedIsNotLaunching
      /\ \A j \in Jobs : spawns[j] = 0 => worker[j] = "none"
      /\ \A t \in Threads : pc[t] # "failed"
  BY <1>a DEF LaunchInv, DispatchInv
<1>c. \A j \in Jobs : status[j] \in Terminal => status'[j] \in Terminal
  BY <1>a, TerminalStays
<1> USE <1>a, <1>b, <1>c DEF ServeInv, LeaseHeld, ReleaseIsLate, Serving, Launching,
   Working,
        TypeOK, Dispatching, stateVars, workerVars, schedVars, requestVars,
        Goto, Return, SetStatus, WorkerAt, Status, Active, Terminal, Release
<1>1. ASSUME NEW j \in Jobs, SubmitJob(j)
      PROVE  ServeInv'
  BY <1>1 DEF SubmitJob, QueuedUntouched, Untouched, ClaimedUntouched
<1>2. ASSUME NEW j \in Jobs, NEW old \in Jobs, RetryJob(old, j)
      PROVE  ServeInv'
  BY <1>2 DEF RetryJob, SubmitJob, QueuedUntouched, Untouched, ClaimedUntouched
<1>3. ASSUME NEW t \in Threads, StartPass(t)
      PROVE  ServeInv'
  BY <1>3 DEF StartPass
<1>4. ASSUME NEW t \in Threads, NEW j \in Jobs, ClaimJob(t, j)
      PROVE  ServeInv'
  BY <1>4 DEF ClaimJob, NextInPass, Claimed
<1>5. ASSUME NEW t \in Threads, NEW j \in Jobs, SkipJob(t, j)
      PROVE  ServeInv'
  BY <1>5 DEF SkipJob
<1>6. ASSUME NEW t \in Threads, EndPass(t)
      PROVE  ServeInv'
  BY <1>6 DEF EndPass
<1>7. ASSUME NEW t \in Threads, AcquireLease(t)
      PROVE  ServeInv'
  <2>0. pc[t] = "acquire" /\ cur[t] \in Jobs
        /\ UNCHANGED <<stateVars, workerVars, early, todo, snap, requestVars, crashes>>
    <3> HIDE DEF Goto, Return, TypeOK, ServeInv, LeaseHeld, ReleaseIsLate
    <3>1. QED
      BY <1>7, TypeOK, AcquireEffect
  <2>1. \/ \E gone \in Cleanups :
              /\ lease' = [Kept(gone) EXCEPT ![cur[t]] = "backend"]
              /\ Goto(t, "mark") /\ UNCHANGED cur
        \/ \E gone \in Cleanups : lease' = Kept(gone) /\ Return(t, "pass")
    <3> HIDE DEF Goto, Return, TypeOK, ServeInv, LeaseHeld, ReleaseIsLate
    <3>1. QED
      BY <1>7, TypeOK, AcquireEffect
  <2>2. \A gone \in Cleanups : \A k \in gone : lease[k] = "worker" /\ ~Alive(k)
    BY DEF Cleanups, StaleLease
  <2>3. ASSUME NEW gone \in Cleanups
        PROVE  /\ \A k \in Jobs : Serving(k) => Kept(gone)[k] # "none"
               /\ \A u \in Threads : pc[u] = "spawn" \/ (pc[u] = "mark" /\ status[cur[u]] = "queued")
                    => Kept(gone)[cur[u]] = "backend"
    BY <2>2 DEF Kept, Alive, FirstSpawn
  <2>4. ASSUME NEW gone \in Cleanups, lease' = [Kept(gone) EXCEPT ![cur[t]] = "backend"],
               Goto(t, "mark"), UNCHANGED cur
        PROVE  ServeInv'
    <3>1. \A k \in Jobs : lease'[k] = IF k = cur[t] THEN "backend" ELSE Kept(gone)[k]
      BY <2>0, <2>4 DEF Kept
    <3>2. ReleaseIsLate'
      BY <2>0, <2>4
    <3>3. \A j \in Jobs : lease'[j] # "old"
      <4>1. \A k \in Jobs : Kept(gone)[k] = "none" \/ Kept(gone)[k] = lease[k]
        BY DEF Kept
      <4>2. \A k \in Jobs : lease[k] # "old"
        OBVIOUS
      <4> HIDE DEF Goto, TypeOK, ServeInv, LeaseHeld, ReleaseIsLate
      <4>3. QED
        BY <3>1, <4>1, <4>2
    <3>4. \A k \in Jobs : Serving(k)' => Serving(k)
      BY <2>0, <2>4
    <3>5. \A u \in Threads \ {t} : pc'[u] = pc[u] /\ cur'[u] = cur[u] /\ (pc[u] \in {"spawn", "mark"} => cur[u] \in Jobs)
      BY <2>4
    <3>6. LeaseHeld'
      <4> HIDE DEF Goto, TypeOK, Serving, ReleaseIsLate
      <4>1. QED
        BY <2>0, <2>3, <2>4, <3>1, <3>4, <3>5
    <3>7. QED
      BY <3>2, <3>3, <3>6
  <2>5. ASSUME NEW gone \in Cleanups, lease' = Kept(gone), Return(t, "pass")
        PROVE  ServeInv'
    <3>1. ReleaseIsLate'
      BY <2>0, <2>5
    <3>2. \A j \in Jobs : lease'[j] # "old"
      BY <2>5 DEF Kept
    <3>3. \A k \in Jobs : Serving(k)' => Serving(k)
      BY <2>0, <2>5
    <3>4. \A u \in Threads : pc'[u] \in {"spawn", "mark"} => pc'[u] = pc[u] /\ cur'[u] = cur[u]
      BY <2>5
    <3>5. LeaseHeld'
      <4> HIDE DEF Return, TypeOK, Serving, ReleaseIsLate
      <4>1. QED
        BY <2>0, <2>3, <2>5, <3>3, <3>4
    <3>6. QED
      BY <3>1, <3>2, <3>5
  <2>6. QED
    <3> HIDE DEF Goto, Return, TypeOK, ServeInv, LeaseHeld, ReleaseIsLate
    <3>1. QED
      BY <2>1, <2>4, <2>5
<1>8. ASSUME NEW t \in Threads, MarkStarting(t)
      PROVE  ServeInv'
  <2>1. /\ pc[t] = "mark" /\ cur[t] \in Jobs
        /\ UNCHANGED <<cancelReq, attached, workerVars, early, todo, snap, requestVars, crashes>>
        /\ Untouched(cur[t]) /\ status[cur[t]] \in {"queued", "cancelled"}
    BY <1>8 DEF MarkStarting, ClaimedUntouched
  <2>2. CASE /\ status[cur[t]] = "queued"
             /\ SetStatus(cur[t], "starting")
             /\ Goto(t, "spawn")
             /\ UNCHANGED <<lease, cur>>
             /\ fresh' = fresh \/ fresh' = [fresh EXCEPT ![cur[t]] = TRUE]
    BY <2>1, <2>2 DEF Untouched
  <2>3. CASE lease' = [lease EXCEPT ![cur[t]] = "none"] /\ Return(t, "pass") /\ UNCHANGED <<status, fresh>>
    <3>1. status[cur[t]] = "queued" \/ ~Serving(cur[t])
      BY <2>1 DEF Untouched, FirstSpawn
    <3>2. QED
      BY <2>1, <2>3, <3>1 DEF ClaimExclusive, Untouched
  <2>4. QED
    BY <1>8, <2>1, <2>2, <2>3 DEF MarkStarting
<1>9. ASSUME NEW t \in Threads, SpawnWorker(t)
      PROVE  ServeInv'
  BY <1>9 DEF SpawnWorker, FirstSpawn
<1>10. ASSUME NEW t \in Threads, AttachProcess(t)
      PROVE  ServeInv'
  BY <1>10 DEF AttachProcess
<1>11. ASSUME NEW t \in Threads, HandOverLease(t)
      PROVE  ServeInv'
  BY <1>11 DEF HandOverLease, HolderIsWorker, ClaimExclusive
<1>12. ASSUME NEW t \in Threads, FailDispatch(t)
      PROVE  ServeInv'
  BY <1>12 DEF FailDispatch
<1>13. ASSUME NEW t \in Threads, DispatchError(t)
      PROVE  ServeInv'
  BY <1>13 DEF DispatchError
<1>14. ASSUME NEW t \in Threads, AbortPass(t)
      PROVE  ServeInv'
  BY <1>14 DEF AbortPass
<1>15. ASSUME NEW t \in Threads, StartRecovery(t)
      PROVE  ServeInv'
  BY <1>15 DEF StartRecovery, Snap, NoSnap, LaunchOpen
<1>16. ASSUME NEW t \in Threads, NEW j \in Jobs, LeaveAlone(t, j)
      PROVE  ServeInv'
  BY <1>16 DEF LeaveAlone, Judged, NoSnap
<1>17. ASSUME NEW t \in Threads, NEW j \in Jobs, Reclassify(t, j)
      PROVE  ServeInv'
  <2>1. /\ pc[t] = "recover" /\ snap[t][j].seen
        /\ status' \in {[status EXCEPT ![j] = "cancelled"], [status EXCEPT ![j] = "interrupted"]}
        /\ snap' = [snap EXCEPT ![t][j] = NoSnap]
        /\ UNCHANGED <<cancelReq, attached, fresh, workerVars, early, lease, todo,
                       requestVars, crashes>>
    BY <1>17 DEF Reclassify, Judged
  <2>2. ~Serving(j)
    BY <1>17 DEF Reclassify, Probe, Alive, IdentityIsOfWorker, LapsedIsNotLaunching,
       FirstSpawn
  <2>3. CASE worker[j] = "dead" /\ Goto(t, "unlease") /\ cur' = [cur EXCEPT ![t] = j]
    BY <2>1, <2>2, <2>3 DEF NoSnap
  <2>4. CASE UNCHANGED <<pc, cur>>
    BY <2>1, <2>2, <2>4 DEF NoSnap
  <2>5. QED
    BY <1>17, <2>1, <2>3, <2>4 DEF Reclassify, Probe, Alive, IdentityIsOfWorker,
       LapsedIsNotLaunching
<1>18. ASSUME NEW t \in Threads, EndRecovery(t)
      PROVE  ServeInv'
  BY <1>18 DEF EndRecovery
<1>19. ASSUME NEW t \in Threads, ReleaseRecovered(t)
      PROVE  ServeInv'
  <2>1. pc[t] = "unlease" /\ cur[t] \in Jobs /\ worker[cur[t]] = "dead"
    BY <1>19 DEF ReleaseRecovered
  <2>2. ~Serving(cur[t]) /\ \A u \in Threads : pc[u] = "mark" => cur[u] # cur[t]
    BY <2>1 DEF FirstSpawn, ClaimedUntouched, Untouched
  <2>3. QED
    BY <1>19, <2>1, <2>2 DEF ReleaseRecovered
<1>20. ASSUME NEW r \in Requests, NEW j \in Jobs, RequestCancel(r, j)
      PROVE  ServeInv'
  <2>1. /\ cjob' = [cjob EXCEPT ![r] = j]
        /\ UNCHANGED <<attached, fresh, workerVars, lease, schedVars, crashes>>
    BY <1>20 DEF RequestCancel
  <2>2. CASE status[j] = "queued"
    <3>1. /\ status' = [status EXCEPT ![j] = "cancelled"]
          /\ cpc' = [cpc EXCEPT ![r] = "release"]
      BY <1>20, <2>2 DEF RequestCancel
    <3>2. ~Serving(j)
      BY <2>2, <1>b DEF QueuedUntouched, Untouched, FirstSpawn
    <3>3. QED
      BY <2>1, <3>1, <3>2
  <2>3. CASE status[j] = "cancelled"
    BY <1>20, <2>1, <2>3 DEF RequestCancel
  <2>4. CASE status[j] \in Active \ {"queued"}
    BY <1>20, <2>1, <2>4 DEF RequestCancel
  <2>5. QED
    BY <1>20, <2>2, <2>3, <2>4 DEF RequestCancel
<1>21. ASSUME NEW r \in Requests, KillWorker(r)
      PROVE  ServeInv'
  BY <1>21 DEF KillWorker, Alive, FirstSpawn, IdentityIsOfWorker
<1>22. ASSUME NEW r \in Requests, ConfirmCancel(r)
      PROVE  ServeInv'
  <2>1. /\ cpc[r] = "confirm" /\ cjob[r] \in Jobs
        /\ UNCHANGED <<cancelReq, attached, fresh, workerVars, early, lease,
                       schedVars, crashes>>
    BY <1>22 DEF ConfirmCancel
  <2>2. CASE /\ "gone" \in Probe(cjob[r], cseen[r])
             /\ SetStatus(cjob[r], "cancelled")
             /\ cpc' = [cpc EXCEPT ![r] = "release"]
             /\ UNCHANGED <<cjob, cseen>>
    <3>1. ~Serving(cjob[r])
      BY <2>1, <2>2 DEF Probe, Alive, FirstSpawn, IdentityIsOfWorker
    <3>2. QED
      BY <2>1, <2>2, <3>1
  <2>3. CASE RequestDone(r) /\ UNCHANGED status
    BY <2>1, <2>3 DEF RequestDone
  <2>4. QED
    BY <1>22, <2>2, <2>3 DEF ConfirmCancel
<1>23. ASSUME NEW r \in Requests, ReleaseCancelled(r)
      PROVE  ServeInv'
  <2>1. /\ cpc[r] = "release" /\ cjob[r] \in Jobs
        /\ status[cjob[r]] \in Terminal /\ ~Serving(cjob[r])
    BY <1>23 DEF ReleaseCancelled
  <2>2. QED
    BY <1>23, <2>1 DEF ReleaseCancelled, RequestDone
<1>24. ASSUME NEW j \in Jobs, WorkerBoot(j)
      PROVE  ServeInv'
  BY <1>24 DEF WorkerBoot, HolderIsWorker, FirstSpawn, ClaimedUntouched, Untouched
<1>25. ASSUME NEW j \in Jobs, WorkerCheck(j)
      PROVE  ServeInv'
  BY <1>25 DEF WorkerCheck
<1>26. ASSUME NEW j \in Jobs, WorkerCancelled(j)
      PROVE  ServeInv'
  BY <1>26 DEF WorkerCancelled, FirstSpawn
<1>27. ASSUME NEW j \in Jobs, WorkerGo(j)
      PROVE  ServeInv'
  BY <1>27 DEF WorkerGo, LapsedIsNotLaunching, LaunchOpen
<1>28. ASSUME NEW j \in Jobs, WorkerHandler(j)
      PROVE  ServeInv'
  BY <1>28 DEF WorkerHandler
<1>29. ASSUME NEW j \in Jobs, WorkerFinish(j)
      PROVE  ServeInv'
  BY <1>29 DEF WorkerFinish, WorkerFinal, FirstSpawn
<1>30. ASSUME NEW j \in Jobs, WorkerError(j)
      PROVE  ServeInv'
  BY <1>30 DEF WorkerError, WorkerFinal, FirstSpawn
<1>31. ASSUME NEW j \in Jobs, WorkerFinishTimeout(j)
      PROVE  ServeInv'
  BY <1>31 DEF WorkerFinishTimeout
<1>32. ASSUME NEW j \in Jobs, WorkerExit(j)
      PROVE  ServeInv'
  BY <1>32 DEF WorkerExit, FirstSpawn, ClaimedUntouched, Untouched
<1>33. ASSUME NEW j \in Jobs, Beat(j)
      PROVE  ServeInv'
  BY <1>33 DEF Beat
<1>34. ASSUME NEW j \in Jobs, HeartbeatLapse(j)
      PROVE  ServeInv'
  BY <1>34 DEF HeartbeatLapse, Alive
<1>35. ASSUME NEW j \in Jobs, WorkerCrash(j)
      PROVE  ServeInv'
  BY <1>35 DEF WorkerCrash, Alive
<1>36. CASE BackendCrash
  BY <1>36 DEF BackendCrash, NoSnaps, NoSnap
<1>37. CASE UNCHANGED vars
  BY <1>37 DEF vars
<1>38. QED
  BY <1>1, <1>2, <1>3, <1>4, <1>5, <1>6, <1>7, <1>8, <1>9, <1>10, <1>11, <1>12, <1>13,
     <1>14, <1>15, <1>16, <1>17, <1>18, <1>19, <1>20, <1>21, <1>22, <1>23, <1>24, <1>25,
     <1>26, <1>27, <1>28, <1>29, <1>30, <1>31, <1>32, <1>33, <1>34, <1>35, <1>36, <1>37
     DEF Next, DispatchStep, RecoveryStep, CancelStep, WorkerStep

(* Only an acquire takes a lease.                                          *)
LEMMA OnlyAcquireLeases ==
  ASSUME TypeOK, [Next]_vars, ~\E t \in Threads : AcquireLease(t), NEW k \in Jobs,
         lease[k] = "none"
  PROVE  lease'[k] = "none"
<1> USE DEF TypeOK, Dispatching, Holders, stateVars, workerVars, schedVars, requestVars,
   Release
<1>1. ASSUME NEW j \in Jobs, SubmitJob(j) PROVE lease'[k] = "none"
  BY <1>1 DEF SubmitJob
<1>2. ASSUME NEW t \in Threads,
             \/ StartPass(t) \/ EndPass(t) \/ SpawnWorker(t) \/ AttachProcess(t)
             \/ FailDispatch(t) \/ AbortPass(t) \/ StartRecovery(t) \/ EndRecovery(t)
             \/ \E j \in Jobs :
                  ClaimJob(t, j) \/ SkipJob(t, j) \/ LeaveAlone(t, j) \/ Reclassify(t, j)
      PROVE  lease'[k] = "none"
  BY <1>2 DEF StartPass, EndPass, SpawnWorker, AttachProcess, FailDispatch, AbortPass,
     StartRecovery, EndRecovery, ClaimJob, SkipJob, LeaveAlone, Reclassify
<1>3. ASSUME NEW t \in Threads, DispatchError(t) \/ ReleaseRecovered(t)
      PROVE  lease'[k] = "none"
  BY <1>3 DEF DispatchError, ReleaseRecovered
<1>4. ASSUME NEW t \in Threads, MarkStarting(t) PROVE lease'[k] = "none"
  <2>1. lease' = lease \/ Release(cur[t])
    BY <1>4 DEF MarkStarting
  <2>2. QED
    BY <2>1
<1>5. ASSUME NEW t \in Threads, HandOverLease(t) PROVE lease'[k] = "none"
  BY <1>5 DEF HandOverLease, HolderIsWorker
<1>6. ASSUME NEW r \in Requests,
             \/ KillWorker(r) \/ ConfirmCancel(r) \/ ReleaseCancelled(r)
             \/ \E j \in Jobs : RequestCancel(r, j)
      PROVE  lease'[k] = "none"
  BY <1>6 DEF KillWorker, ConfirmCancel, ReleaseCancelled, RequestCancel
<1>7. ASSUME NEW j \in Jobs,
             \/ WorkerCheck(j) \/ WorkerHandler(j) \/ WorkerCancelled(j) \/ WorkerGo(j)
             \/ WorkerFinish(j) \/ WorkerError(j) \/ WorkerFinishTimeout(j)
             \/ Beat(j) \/ HeartbeatLapse(j) \/ WorkerCrash(j)
      PROVE  lease'[k] = "none"
  BY <1>7 DEF WorkerCheck, WorkerHandler, WorkerCancelled, WorkerGo, WorkerFinish,
     WorkerError,
     WorkerFinal, WorkerFinishTimeout, Beat, HeartbeatLapse, WorkerCrash
<1>8. ASSUME NEW j \in Jobs, WorkerBoot(j) \/ WorkerExit(j) PROVE lease'[k] = "none"
  BY <1>8 DEF WorkerBoot, WorkerExit, HolderIsWorker
<1>9. CASE BackendCrash
  BY <1>9 DEF BackendCrash
<1>10. CASE UNCHANGED vars
  BY <1>10 DEF vars
<1>11. QED
  BY <1>1, <1>2, <1>3, <1>4, <1>5, <1>6, <1>7, <1>8, <1>9, <1>10
     DEF Next, DispatchStep, RecoveryStep, CancelStep, WorkerStep, RetryJob

(* The leases of a class never exceed its limit, whatever fails: they are  *)
(* counted under the lock under which one is taken.                        *)
Leased(c) == {j \in Jobs : Class[j] = c /\ lease[j] # "none"}

LeasesWithinLimit == \A i \in Jobs : Cardinality(Leased(Class[i])) <= Limit[Class[i]]

(* The number of leases of a class stays within its limit.                 *)
LEMMA StepLeases == TypeOK /\ LeasesWithinLimit /\ [Next]_vars => LeasesWithinLimit'
<1> SUFFICES ASSUME TypeOK, LeasesWithinLimit, [Next]_vars, NEW i \in Jobs
             PROVE  Cardinality(Leased(Class[i])') <= Limit[Class[i]]
  BY DEF LeasesWithinLimit
<1> DEFINE c == Class[i]
<1>1. /\ IsFiniteSet(Leased(c)) /\ Cardinality(Leased(c)) \in Nat
      /\ Cardinality(Leased(c)) <= Limit[c] /\ Limit[c] \in Nat
  BY JobsAssumption, SpecAssumption, FS_Subset, FS_CardinalityType DEF Leased,
     LeasesWithinLimit
<1>2. ASSUME Leased(c)' \subseteq Leased(c)
      PROVE  Cardinality(Leased(c)') <= Limit[c]
  <2>1. Cardinality(Leased(c)') <= Cardinality(Leased(c)) /\ IsFiniteSet(Leased(c)')
    BY <1>1, <1>2, FS_Subset
  <2>2. QED
    BY <1>1, <2>1, FS_CardinalityType
<1>3. CASE ~\E t \in Threads : AcquireLease(t)
  <2>1. Leased(c)' \subseteq Leased(c)
    BY <1>3, OnlyAcquireLeases DEF Leased
  <2>2. QED
    BY <1>2, <2>1
<1>4. ASSUME NEW t \in Threads, AcquireLease(t)
      PROVE  Cardinality(Leased(c)') <= Limit[c]
  <2>1. cur[t] \in Jobs
    BY <1>4, AcquireEffect
  <2>2. ASSUME NEW gone \in Cleanups, lease' = Kept(gone)
        PROVE  Leased(c)' \subseteq Leased(c)
    BY <2>2 DEF Leased, Kept
  <2>3. ASSUME NEW gone \in Cleanups,
               Cardinality(Used(gone, Class[cur[t]])) < Limit[Class[cur[t]]],
               lease' = [Kept(gone) EXCEPT ![cur[t]] = "backend"]
        PROVE  Cardinality(Leased(c)') <= Limit[c]
    <3>1. CASE Class[cur[t]] # c
      <4>1. Leased(c)' \subseteq Leased(c)
        BY <2>1, <2>3, <3>1 DEF Leased, Kept
      <4>2. QED
        BY <1>2, <4>1
    <3>2. CASE Class[cur[t]] = c
      <4>1. Leased(c)' \subseteq Used(gone, c) \union {cur[t]}
        BY <2>1, <2>3 DEF Leased, Used, Kept
      <4>2. IsFiniteSet(Used(gone, c)) /\ Cardinality(Used(gone, c)) \in Nat
        BY JobsAssumption, FS_Subset, FS_CardinalityType DEF Used
      <4>3. /\ IsFiniteSet(Used(gone, c) \union {cur[t]})
            /\ Cardinality(Used(gone, c) \union {cur[t]}) <= Cardinality(Used(gone, c)) + 1
        <5> DEFINE used == Used(gone, c)
        <5>1. /\ IsFiniteSet(used \union {cur[t]})
              /\ Cardinality(used \union {cur[t]}) =
                   IF cur[t] \in used THEN Cardinality(used) ELSE Cardinality(used) + 1
          <6> HIDE DEF used
          <6>1. IsFiniteSet(used)
            BY <4>2 DEF used
          <6>2. QED
            BY <6>1, FS_AddElement
        <5>2. Cardinality(used) \in Nat
          BY <4>2
        <5> HIDE DEF used
        <5>3. QED
          BY <5>1, <5>2 DEF used
      <4>4. /\ Cardinality(Leased(c)') <= Cardinality(Used(gone, c) \union {cur[t]})
            /\ IsFiniteSet(Leased(c)')
        BY <4>1, <4>3, FS_Subset
      <4>5. /\ Cardinality(Leased(c)') \in Nat
            /\ Cardinality(Used(gone, c) \union {cur[t]}) \in Nat
        BY <4>3, <4>4, FS_CardinalityType
      <4>6. QED
        BY <1>1, <2>3, <3>2, <4>2, <4>3, <4>4, <4>5
    <3>3. QED
      BY <3>1, <3>2
  <2>4. CASE UNCHANGED lease
    BY <1>2, <2>4 DEF Leased
  <2>5. QED
    BY <1>2, <1>4, <2>2, <2>3, <2>4, AcquireEffect
<1>5. QED
  BY <1>3, <1>4

(* Without lock timeouts, late heartbeats, unidentified processes and      *)
(* crashes of the backend, the workers of a class that are inside a        *)
(* handler never exceed its limit, for any jobs, classes, limits,          *)
(* scheduler threads and cancel requests, and although workers die and     *)
(* the recovery and the cancels judge what they have read before.          *)
THEOREM LimitIsKept ==
  ASSUME ~LockTimeouts, TimelyHeartbeat, ~UnknownProbe, MaxCrashes = 0
  PROVE  Spec => []ResourceLimit
<1>1. Init => LeasesWithinLimit
  <2>1. ASSUME Init, NEW i \in Jobs PROVE Leased(Class[i]) = {}
    BY <2>1 DEF Init, Leased
  <2>2. QED
    BY <2>1, FS_EmptySet, SpecAssumption DEF LeasesWithinLimit
<1>2. ServeInv /\ LeasesWithinLimit => ResourceLimit
  <2> SUFFICES ASSUME ServeInv, LeasesWithinLimit, NEW i \in Jobs
               PROVE  Cardinality({j \in Jobs : Class[j] = Class[i] /\ Working(j)})
                        <= Limit[Class[i]]
    BY DEF ResourceLimit
  <2> DEFINE busy == {j \in Jobs : Class[j] = Class[i] /\ Working(j)}
  <2>1. busy \subseteq Leased(Class[i])
    BY DEF Leased, ServeInv, LeaseHeld, Serving
  <2>2. IsFiniteSet(Leased(Class[i]))
    BY JobsAssumption, FS_Subset DEF Leased
  <2>3. Cardinality(busy) <= Cardinality(Leased(Class[i])) /\ IsFiniteSet(busy)
    BY <2>1, <2>2, FS_Subset
  <2>4. Cardinality(busy) \in Nat /\ Cardinality(Leased(Class[i])) \in Nat
    BY <2>2, <2>3, FS_CardinalityType
  <2>5. QED
    BY <2>3, <2>4, SpecAssumption DEF LeasesWithinLimit
<1>3. QED
  BY <1>1, <1>2, InitServe, StepServe, InitTyped, StepTyped, StepLeases, PTL DEF Spec
=============================================================================
