-------------------------- MODULE FullresPublication --------------------------
(***************************************************************************)
(* Publication of the full-resolution COG of one scene variant:            *)
(* run_scene_fullres_derivative_job (routers/scene_import.py, in a worker  *)
(* process), _resume_candidate_publication and _fullres_derivative_view    *)
(* (routers/scenes.py, in the requests that show the scene), with the      *)
(* record of fullres_publication.py and the files of                       *)
(* fullres_cog_builder.py.                                                 *)
(*                                                                         *)
(* The activation touches the file, scene_manifest.json and scene.json in  *)
(* turn and records each step, so that a view can finish what a dead       *)
(* worker began.  Views do so without asking whether the worker is dead.   *)
(*                                                                         *)
(* A source is the fingerprint of the raster; a file is known by the       *)
(* source it was built from.  "building" stands for building and           *)
(* validating, which every reader of the record treats alike.              *)
(***************************************************************************)
EXTENDS Naturals

CONSTANTS
    Views,       \* requests that show the scene
    MaxSource,   \* bound on the sources the scene is linked to
    MaxJobs,     \* bound on build jobs
    MaxKills     \* bound on workers killed and backends restarted

Sources == 1..MaxSource
NoCog == 0
Files == Sources \union {NoCog}
Steps == {"artifact", "manifest", "scene"}
States == {"none", "building", "candidate", "active", "failed"}
Record == [state: States, steps: SUBSET Steps, source: Files]
NoRecord == [state |-> "none", steps |-> {}, source |-> NoCog]

VARIABLES
    source,             \* the source named by scene_manifest.json
    record,             \* the publication record
    candidate, active,  \* fullres.candidate.tif and fullres.tif
    ready,              \* the source scene.json calls ready
    job,                \* per source, the status of its newest build job
    jobs, kills,
    wpc, mine, built, seen,   \* the worker: place, its record, the source it
                              \* reads, the source in its copy of the manifest
    vpc, asked, copy, ended,  \* a view: place, the source it found, its copy
                              \* of the record, had the job ended?
    vanished   \* history: was a candidate removed from beside an older file
               \* while a record or a view still waited for it?

files == <<record, candidate, active>>
workerVars == <<wpc, mine, built, seen>>
views == <<vpc, asked, copy, ended>>
vars == <<source, files, ready, job, jobs, kills, workerVars, views, vanished>>

TypeOK ==
    /\ source \in Sources /\ record \in Record
    /\ candidate \in Files /\ active \in Files /\ ready \in Files
    /\ job \in [Sources -> {"none", "queued", "running", "failed", "done"}]
    /\ jobs \in 0..MaxJobs /\ kills \in 0..MaxKills
    /\ wpc \in {"idle", "build", "decode", "validated", "check", "unlink", "move", "artifact",
                "manifest", "scene", "activate", "cleanup", "fail", "raised", "report"}
    /\ mine \in Record /\ built \in Files /\ seen \in Files
    /\ vpc \in [Views -> {"idle", "legacy", "sweep", "sweepActive", "unrecord", "record",
                          "look", "unlink", "move", "artifact", "manifest", "scene",
                          "activate", "serve", "jobs", "publication", "cleanup", "fail"}]
    /\ asked \in [Views -> Files] /\ copy \in [Views -> Record]
    /\ ended \in [Views -> BOOLEAN] /\ vanished \in BOOLEAN

Init ==
    /\ source = 1 /\ record = NoRecord
    /\ candidate = NoCog /\ active = NoCog /\ ready = NoCog
    /\ job = [s \in Sources |-> "none"]
    /\ jobs = 0 /\ kills = 0
    /\ wpc = "idle" /\ mine = NoRecord /\ built = NoCog /\ seen = NoCog
    /\ vpc = [v \in Views |-> "idle"]
    /\ asked = [v \in Views |-> NoCog]
    /\ copy = [v \in Views |-> NoRecord]
    /\ ended = [v \in Views |-> FALSE]
    /\ vanished = FALSE

(* A step of the activation is done, and recorded.                         *)
Marked(r, step) == [r EXCEPT !.steps = @ \union {step}]
InState(r, state) == [r EXCEPT !.state = state]

(* A view that has read a candidate record has not yet found its file.     *)
Looking == \E v \in Views : vpc[v] = "look"

(* The candidate goes; whoever waits for it may take an older file for it. *)
DropCandidate ==
    /\ candidate' = NoCog
    /\ vanished' = (\/ vanished
                    \/ /\ candidate # NoCog /\ active # NoCog
                       /\ record.state = "candidate" \/ Looking)

(* A view is about to finish an activation from its copy of the record.    *)
Resuming ==
    \E v \in Views :
        vpc[v] \in {"look", "unlink", "move", "artifact", "manifest", "scene", "activate"}

(* The record waits for no candidate any more.                             *)
RecordWithout(r) ==
    /\ record' = r
    /\ vanished' = (vanished /\ Resuming)

Relink ==
    /\ source < MaxSource
    /\ source' = source + 1
    /\ UNCHANGED <<files, ready, job, jobs, kills, workerVars, views, vanished>>

-----------------------------------------------------------------------------
(* The worker.                                                             *)

workerFrame == <<jobs, kills, views>>

(* One build job at a time (its dedupe key); it carries the source that    *)
(* its submission found.                                                   *)
SubmitJob ==
    /\ jobs < MaxJobs
    /\ \A s \in Sources : job[s] \notin {"queued", "running"}
    /\ jobs' = jobs + 1
    /\ job' = [job EXCEPT ![source] = "queued"]
    /\ UNCHANGED <<source, files, ready, kills, workerVars, views, vanished>>

(* The raster is resolved before the record is begun.                      *)
StartBuild ==
    /\ wpc = "idle"
    /\ \E s \in Sources :
           /\ job[s] = "queued"
           /\ job' = [job EXCEPT ![s] = "running"]
           /\ mine' = [state |-> "building", steps |-> {}, source |-> s]
           /\ RecordWithout(mine')
    /\ built' = source
    /\ wpc' = "build"
    /\ UNCHANGED <<source, candidate, active, ready, seen, workerFrame>>

(* A candidate that an earlier build has left goes first.                  *)
ClearCandidate ==
    /\ wpc = "build"
    /\ DropCandidate
    /\ wpc' = "decode"
    /\ UNCHANGED <<source, record, active, ready, job, mine, built, seen, workerFrame>>

BuildCandidate ==
    /\ wpc = "decode"
    /\ candidate' = built
    /\ wpc' = "validated"
    /\ UNCHANGED <<source, record, active, ready, job, mine, built, seen,
                   workerFrame, vanished>>

(* The file is measured for the record, and must still be there.           *)
RecordCandidate ==
    /\ wpc = "validated"
    /\ IF candidate = NoCog
       THEN wpc' = "cleanup" /\ UNCHANGED <<mine, record>>
       ELSE /\ mine' = InState(mine, "candidate")
            /\ record' = mine'
            /\ wpc' = "check"
    /\ UNCHANGED <<source, candidate, active, ready, job, built, seen,
                   workerFrame, vanished>>

MayActivate == mine.source = source

(* The manifest and the scene are read here and saved from these copies.   *)
CheckSource ==
    /\ wpc = "check"
    /\ seen' = source
    /\ wpc' = IF MayActivate THEN "unlink" ELSE "cleanup"
    /\ UNCHANGED <<source, files, ready, job, mine, built, workerFrame, vanished>>

(* Old, or just moved there by a view.                                     *)
UnlinkOld ==
    /\ wpc = "unlink"
    /\ active' = NoCog
    /\ wpc' = "move"
    /\ UNCHANGED <<source, record, candidate, ready, job, mine, built, seen,
                   workerFrame, vanished>>

(* os.replace raises when a view has moved the candidate already.          *)
MoveCandidate ==
    /\ wpc = "move"
    /\ IF candidate = NoCog
       THEN wpc' = "cleanup" /\ UNCHANGED <<candidate, active>>
       ELSE wpc' = "artifact" /\ active' = candidate /\ candidate' = NoCog
    /\ UNCHANGED <<source, record, ready, job, mine, built, seen, workerFrame, vanished>>

RecordStep(step, next) ==
    /\ mine' = Marked(mine, step)
    /\ record' = mine'
    /\ wpc' = next

RecordArtifact ==
    /\ wpc = "artifact"
    /\ RecordStep("artifact", "manifest")
    /\ UNCHANGED <<source, candidate, active, ready, job, built, seen,
                   workerFrame, vanished>>

(* The manifest is saved whole, with the source it named at the check and  *)
(* the size of the file, which must be there.                              *)
PublishManifest ==
    /\ wpc = "manifest"
    /\ IF active = NoCog
       THEN wpc' = "cleanup" /\ UNCHANGED <<source, mine, record>>
       ELSE RecordStep("manifest", "scene") /\ source' = seen
    /\ UNCHANGED <<candidate, active, ready, job, built, seen, workerFrame, vanished>>

PublishScene ==
    /\ wpc = "scene"
    /\ RecordStep("scene", "activate")
    /\ ready' = mine.source
    /\ UNCHANGED <<source, candidate, active, job, built, seen, workerFrame, vanished>>

RecordActive ==
    /\ wpc = "activate"
    /\ mine' = InState(mine, "active")
    /\ record' = mine'
    /\ wpc' = "report"
    /\ UNCHANGED <<source, candidate, active, ready, job, built, seen,
                   workerFrame, vanished>>

(* Any step may raise: a full disk, a cancelled or invalid build, a        *)
(* changed revision, a busy lock, a progress report after the last record. *)
(* Only a build that has returned is cleaned up, and the path of its file  *)
(* moves with the file; the last state is set before it is written.        *)
WorkerRaises ==
    /\ wpc \notin {"idle", "cleanup", "fail", "raised"}
    /\ wpc' = IF wpc \in {"build", "decode"} THEN "fail" ELSE "cleanup"
    /\ mine' \in CASE wpc = "artifact" -> {Marked(mine, "artifact")}
                  [] wpc = "activate" -> {mine, InState(mine, "active")}
                  [] OTHER -> {mine}
    /\ UNCHANGED <<source, files, ready, job, built, seen, workerFrame, vanished>>

(* The built file is removed wherever it lies by now.                      *)
RemoveBuilt ==
    /\ wpc = "cleanup"
    /\ IF "artifact" \in mine.steps
       THEN active' = NoCog /\ UNCHANGED <<candidate, vanished>>
       ELSE DropCandidate /\ UNCHANGED active
    /\ wpc' = "fail"
    /\ UNCHANGED <<source, record, ready, job, mine, built, seen, workerFrame>>

(* An active record cannot fail: advance raises, and nothing is written.   *)
RecordFailed ==
    /\ wpc = "fail"
    /\ IF mine.state = "active"
       THEN UNCHANGED <<mine, record, vanished>>
       ELSE mine' = InState(mine, "failed") /\ RecordWithout(mine')
    /\ wpc' = "raised"
    /\ UNCHANGED <<source, candidate, active, ready, job, built, seen, workerFrame>>

WorkerEnds(status) ==
    /\ job' = [job EXCEPT ![mine.source] = status]
    /\ wpc' = "idle"
    /\ mine' = NoRecord /\ built' = NoCog /\ seen' = NoCog

Report ==
    /\ wpc \in {"raised", "report"}
    /\ WorkerEnds(IF wpc = "report" THEN "done" ELSE "failed")
    /\ UNCHANGED <<source, files, ready, workerFrame, vanished>>

(* The worker is killed; recovery makes its job interrupted.               *)
KillWorker ==
    /\ kills < MaxKills /\ wpc # "idle"
    /\ kills' = kills + 1
    /\ WorkerEnds("failed")
    /\ UNCHANGED <<source, files, ready, jobs, views, vanished>>

WorkerStep ==
    \/ StartBuild \/ ClearCandidate \/ BuildCandidate \/ RecordCandidate \/ CheckSource
    \/ UnlinkOld \/ MoveCandidate \/ RecordArtifact \/ PublishManifest
    \/ PublishScene \/ RecordActive \/ RemoveBuilt \/ RecordFailed \/ Report

-----------------------------------------------------------------------------
(* A view: first it sweeps away what is older than the records, then it    *)
(* resumes an interrupted activation.                                      *)

viewFrame == <<job, jobs, kills, workerVars>>
ViewTo(v, place) == vpc' = [vpc EXCEPT ![v] = place]

AskView(v) ==
    /\ vpc[v] = "idle"
    /\ asked' = [asked EXCEPT ![v] = source]
    /\ ViewTo(v, "legacy")
    /\ UNCHANGED <<source, files, ready, copy, ended, viewFrame, vanished>>

(* Files without a record are of an older version of the program.          *)
ReadLegacy(v) ==
    /\ vpc[v] = "legacy"
    /\ ViewTo(v, IF record = NoRecord THEN "sweep" ELSE "record")
    /\ UNCHANGED <<source, files, ready, asked, copy, ended, viewFrame, vanished>>

(* They go one by one, whoever has made them since; a file that was not    *)
(* there when the directory was listed, or is in use, stays.               *)
SweepCandidate(v) ==
    /\ vpc[v] = "sweep"
    /\ DropCandidate \/ UNCHANGED <<candidate, vanished>>
    /\ ViewTo(v, "sweepActive")
    /\ UNCHANGED <<source, record, active, ready, asked, copy, ended, viewFrame>>

SweepActive(v) ==
    /\ vpc[v] = "sweepActive"
    /\ active' \in {active, NoCog}
    /\ ViewTo(v, "unrecord")
    /\ UNCHANGED <<source, record, candidate, ready, asked, copy, ended, viewFrame, vanished>>

SweepRecord(v) ==
    /\ vpc[v] = "unrecord"
    /\ RecordWithout(NoRecord) \/ UNCHANGED <<record, vanished>>
    /\ ViewTo(v, "record")
    /\ UNCHANGED <<source, candidate, active, ready, asked, copy, ended, viewFrame>>

Resumable(v) == record.state = "candidate" /\ record.source = asked[v]

ReadRecord(v) ==
    /\ vpc[v] = "record"
    /\ IF Resumable(v)
       THEN /\ copy' = [copy EXCEPT ![v] = record]
            /\ ViewTo(v, IF "artifact" \in record.steps THEN "manifest" ELSE "look")
       ELSE ViewTo(v, "serve") /\ UNCHANGED copy
    /\ UNCHANGED <<source, files, ready, asked, ended, viewFrame, vanished>>

(* Without a candidate the file at the published path is taken for it.     *)
ViewLooks(v) ==
    /\ vpc[v] = "look"
    /\ ViewTo(v, IF candidate # NoCog THEN "unlink"
                 ELSE IF active # NoCog THEN "artifact" ELSE "serve")
    /\ UNCHANGED <<source, files, ready, asked, copy, ended, viewFrame, vanished>>

ViewUnlinks(v) ==
    /\ vpc[v] = "unlink"
    /\ active' = NoCog
    /\ ViewTo(v, "move")
    /\ UNCHANGED <<source, record, candidate, ready, asked, copy, ended, viewFrame, vanished>>

ViewMoves(v) ==
    /\ vpc[v] = "move"
    /\ IF candidate = NoCog
       THEN ViewTo(v, "serve") /\ UNCHANGED <<candidate, active>>
       ELSE ViewTo(v, "artifact") /\ active' = candidate /\ candidate' = NoCog
    /\ UNCHANGED <<source, record, ready, asked, copy, ended, viewFrame, vanished>>

ViewRecords(v, r, next) ==
    /\ copy' = [copy EXCEPT ![v] = r]
    /\ record' = r
    /\ ViewTo(v, next)

ViewRecordsArtifact(v) ==
    /\ vpc[v] = "artifact"
    /\ ViewRecords(v, Marked(copy[v], "artifact"), "manifest")
    /\ UNCHANGED <<source, candidate, active, ready, asked, ended, viewFrame, vanished>>

(* The file must be there; a step that is marked is not repeated.          *)
ViewPublishesManifest(v) ==
    /\ vpc[v] = "manifest"
    /\ IF active = NoCog
       THEN ViewTo(v, "serve") /\ UNCHANGED <<record, copy>>
       ELSE ViewRecords(v, Marked(copy[v], "manifest"), "scene")
    /\ UNCHANGED <<source, candidate, active, ready, asked, ended, viewFrame, vanished>>

ViewPublishesScene(v) ==
    /\ vpc[v] = "scene"
    /\ ready' = IF "scene" \in copy[v].steps THEN ready ELSE asked[v]
    /\ ViewRecords(v, Marked(copy[v], "scene"), "activate")
    /\ UNCHANGED <<source, candidate, active, asked, ended, viewFrame, vanished>>

(* The last record, and cleanup_incomplete_fullres.                        *)
ViewActivates(v) ==
    /\ vpc[v] = "activate"
    /\ ViewRecords(v, InState(copy[v], "active"), "serve")
    /\ candidate' = NoCog
    /\ vanished' = (vanished \/ (candidate # NoCog /\ active # NoCog /\ Looking))
    /\ UNCHANGED <<source, active, ready, asked, ended, viewFrame>>

-----------------------------------------------------------------------------
(* Then it looks for the published file (published_fullres_cog) ...        *)

(* Mutant of Published: the fingerprint of the source is not compared.     *)
PublishedOfAnySource(s) == record.state = "active" /\ active # NoCog

Published(s) == record.state = "active" /\ active # NoCog /\ record.source = s

Serve(v) ==
    /\ vpc[v] = "serve"
    /\ ViewTo(v, "jobs")
    /\ UNCHANGED <<source, files, ready, asked, copy, ended, viewFrame, vanished>>

(* ... and clears away what an ended job or another source has left: the   *)
(* newest job for the source it has asked for.                             *)
ReadJobs(v) ==
    /\ vpc[v] = "jobs"
    /\ ended' = [ended EXCEPT ![v] = job[asked[v]] = "failed"]
    /\ ViewTo(v, "publication")
    /\ UNCHANGED <<source, files, ready, asked, copy, viewFrame, vanished>>

ViewEnds(v) ==
    /\ ViewTo(v, "idle")
    /\ asked' = [asked EXCEPT ![v] = NoCog]
    /\ copy' = [copy EXCEPT ![v] = NoRecord]
    /\ ended' = [ended EXCEPT ![v] = FALSE]

(* Mutant of LeftOver: a candidate of another source is kept.              *)
LeftOverBuild(v) == record.state = "building" /\ ended[v]

LeftOver(v) == \/ record.state = "candidate" /\ record.source # asked[v]
               \/ record.state = "building" /\ ended[v]

ReadPublication(v) ==
    /\ vpc[v] = "publication"
    /\ IF LeftOver(v)
       THEN /\ copy' = [copy EXCEPT ![v] = record]
            /\ ViewTo(v, "cleanup")
            /\ UNCHANGED <<asked, ended>>
       ELSE ViewEnds(v)
    /\ UNCHANGED <<source, files, ready, viewFrame, vanished>>

ViewRemovesCandidate(v) ==
    /\ vpc[v] = "cleanup"
    /\ DropCandidate
    /\ ViewTo(v, "fail")
    /\ UNCHANGED <<source, record, active, ready, asked, copy, ended, viewFrame>>

ViewRecordsFailed(v) ==
    /\ vpc[v] = "fail"
    /\ RecordWithout(InState(copy[v], "failed"))
    /\ ViewEnds(v)
    /\ UNCHANGED <<source, candidate, active, ready, viewFrame>>

RestartBackend ==
    /\ kills < MaxKills
    /\ kills' = kills + 1
    /\ vpc' = [v \in Views |-> "idle"]
    /\ asked' = [v \in Views |-> NoCog]
    /\ copy' = [v \in Views |-> NoRecord]
    /\ ended' = [v \in Views |-> FALSE]
    /\ UNCHANGED <<source, files, ready, job, jobs, workerVars, vanished>>

ViewStep(v) ==
    \/ ReadLegacy(v) \/ SweepCandidate(v) \/ SweepActive(v) \/ SweepRecord(v)
    \/ ReadRecord(v) \/ ViewLooks(v) \/ ViewUnlinks(v) \/ ViewMoves(v) \/ ViewRecordsArtifact(v)
    \/ ViewPublishesManifest(v) \/ ViewPublishesScene(v) \/ ViewActivates(v)
    \/ Serve(v) \/ ReadJobs(v) \/ ReadPublication(v) \/ ViewRemovesCandidate(v)
    \/ ViewRecordsFailed(v)

Next ==
    \/ Relink \/ SubmitJob \/ WorkerStep \/ WorkerRaises \/ KillWorker
    \/ \E v \in Views : AskView(v) \/ ViewStep(v)
    \/ RestartBackend

Spec == Init /\ [][Next]_vars

(* A live worker goes on, and the open scene is shown again and again.     *)
Fairness == /\ WF_vars(WorkerStep)
            /\ \A v \in Views : WF_vars(AskView(v)) /\ WF_vars(ViewStep(v))

FairSpec == Spec /\ Fairness

-----------------------------------------------------------------------------
(* Properties.                                                             *)

(* A request that finds the present source published is given pixels of    *)
(* that source: a relink during the build, a crash between two recorded    *)
(* steps, a worker that saves its old copy of the manifest over a relink,  *)
(* or a view that finishes the activation beside a live worker never shows *)
(* pixels of another one (published_fullres_cog).  Exempt is vanished: a   *)
(* candidate was removed from beside an older published file while its     *)
(* record, or a view that had read it, still waited for it.  That view     *)
(* adopts the older file (_resume_candidate_publication).  The exemption   *)
(* ends when a record is written that waits for no candidate and no view   *)
(* is finishing an activation.                                             *)
ShownIsCurrent == Published(source) /\ ~vanished => active = source

(* The record waits for a file that is not where its steps say.            *)
Stranded == active = NoCog /\ (candidate = NoCog \/ "artifact" \in record.steps)

(* A candidate does not wait for ever: the worker, or a view after its     *)
(* death, activates it or marks it failed - unless its file is gone, when  *)
(* every view gives up on it (_resume_candidate_publication returns False).*)
CandidateSettles ==
    record.state = "candidate" ~> (record.state # "candidate" \/ Stranded)

(* What the docstring of cleanup_legacy_fullres says: a view removes only  *)
(* products of version 1 or of interrupted builds, so never the record     *)
(* that a live build has just begun.  It does not hold, and no run states  *)
(* it: StartBuild may come between ReadLegacy and SweepRecord.             *)
SweepSparesBuilds ==
    [][record # NoRecord /\ record' = NoRecord => wpc = "idle"]_vars
=============================================================================
