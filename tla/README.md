# TLA+ verification of geotile-label

geotile-label is a desktop application for annotating satellite scenes: a Tauri
shell starts a FastAPI backend (`src/backend`), and a React front end talks to it
over HTTP. The backend keeps no database. Projects, scenes, annotations, jobs and
indexes are JSON files, rewritten atomically by several threads and several
processes under lock files. What is hard to get right is therefore the protocol
between those rewrites, and that is what this project models.

Paths below are relative to the repository (`src/` is its root).

## 1. Inventory

### Parts, their state and their operations

| Part | State it keeps | Operations | Module |
| --- | --- | --- | --- |
| Job manager (`backend/services/jobs`, `backend/job_worker.py`) | per job: `state.json`, `cancel.json`, a claim file, a lease file, a worker process | submit, retry, dispatch pass, recovery pass, cancel, worker run loop, heartbeat | `JobManager` |
| File lock (`interprocess_lock` in `services/jobs/store.py`) | a lock file and a `threading.Lock` per path | enter, create, break a stale file, leave | `InterprocessLock` |
| JSON Index v2 (`backend/services/json_index`) | `project_revision.json`, `index_state.json`, scenes index, annotation summary | begin and complete a mutation, delta, rebuild, query | `JsonIndex` |
| Storage (`backend/db/storage.py`) | project, scene and annotation documents, annotation revision sidecar, projects index | save, mutate, delete, batch | `JsonIndex`, `SceneAnnotations` |
| Annotations of a scene (`routers/annotations.py`, `lock_working_view`, `select_scene_asset`) | `annotations.json`, its sidecar, the count in `scene.json`, the working view in `scene_manifest.json` | create, edit, delete, save with an expected revision, list, import, re-scan, choose a variant | `SceneAnnotations` |
| Job events (`services/jobs/events.py`) | `events.jsonl`, the number in `state.json`, cursor of a stream | append, read, stream | `JobEvents` |
| Full-resolution publication (`services/scene_packages/fullres_*`, `routers/scenes.py`, `routers/scene_import.py`) | publication record, candidate and active COG, scene manifest | build, activate step by step, resume, clean up | `FullresPublication` |
| Training runs (`routers/training.py`, `services/training_runs.py`, `training_worker.py`) | run directory with `job_state.json` and a manifest, beside the common job | start, spawn, cancel, mirror, reclassify, delete | `TrainingRuns` |
| Model registry (`services/model_registry.py`) | registry, `prediction_config` | register, promote, remove | `TrainingRuns` |
| Dataset runs (`routers/dataset.py`, `services/dataset_runs.py`) | staging directory, run directory, `publication.json`, run index, cache | build, fail, cancel, list, publish, delete | `DatasetRuns` |
| Dataset split (`services/dataset_builder.py`) | none outside a build | group, merge, place, drop the belt | `DatasetSplits` |
| Embedding index (`services/embedding_index.py`) | vectors, Parquet parts, checkpoint, manifest | batch, roll back, resume, reset, load | `EmbeddingIndex` |
| Single flight (`services/single_flight.py`) | calls in flight | do | `SingleFlight`, `SharedCall` |
| Annotation import (`services/annotation_import.py`) | target documents | apply, roll back | apply on one scene in `SceneAnnotations` |
| Scene import (`routers/scene_import.py`, `scan_cache.py`) | scan cache, registered scenes | scan, plan, import | the save of a re-scan in `SceneAnnotations`; the rest not modelled |
| Assistance sessions | session files | create, gc, clear | not modelled |
| Desktop shell (`frontend/src-tauri`) | the backend process | start, health check, stop | not modelled; restarts are in every module |
| Tiling, split validation, attribute engine | none | pure functions | not modelled |
| Raster I/O, product parsers, inference, exporters, React views, scripts | none of protocol interest | | not modelled |

### How the parts interact

* A request thread calls `submit_job`; the scheduler thread claims the job, takes
  a lease of its resource class and spawns `job_worker.py` as a process. From then
  on the backend and the worker share only files. The worker takes the lease over,
  beats, and writes the final state; a request thread that cancels kills the
  process tree and patches the state; the recovery pass of the scheduler
  reclassifies jobs whose process is gone.
* Every one of those rewrites runs under `interprocess_lock`, also used by the
  storage layer and the index. `JobManager` and `JsonIndex` take a section under
  such a lock as one step (or hold an explicit lock variable where a section writes
  several files); `InterprocessLock` says when that is justified.
* Every save of a scene or of its annotations runs between
  `begin_project_mutation` and a completion, which marks the index dirty; queries
  (`get_scenes_index`) repair the index on demand.
* A full-resolution build, a dataset build, an embedding index and a training are
  handlers of the job manager: they run in a worker process that a cancel, a crash or
  a restart of the backend may end at any step, while requests of the backend read
  and rewrite the same files. Their modules abstract the job to whether its worker
  lives and rely on `OneActivePerKey` for "one build at a time".
* Views poll. Every repair in this system (a resumed publication, a reclassified
  run, a rebuilt index) happens in a request that some view sends again and again;
  that is what the liveness properties rest on.

### Hard behaviours and what makes the part correct

* *Jobs.* Three kinds of actor rewrite one state file from states they read
  earlier; backends crash between two writes; probes of a process may fail. A job
  must get at most one worker; a cancel of a queued job must hold; the leases of a
  class must not be exceeded or lost; a dedupe key has one active job; a terminal
  job stays terminal; every job settles.
* *Lock.* A dead owner's file must go away, a live one's must stay, and two
  removers race. At most one thread is inside.
* *Index.* The scan takes no lock, a rebuild races mutations and other rebuilds,
  and every multi-file write may stop half-way. A served view must agree with the
  source, both files must be of one revision, and the view must catch up.

* *Annotations.* Two files are written one after the other, an import writes the
  first without its lock, and scene documents are saved whole from older copies. No
  annotation is lost, an optimistic save replaces what its client saw, and counts
  left wrong by an overlap are repaired.
* *Publication.* Five actors (worker, views, relinks, kills, restarts) touch a file, a
  manifest and a record, and a view may take the files of a build for those of an older
  version. A view shows pixels of the source it names or none.
* *Runs.* A run is exposed by one rename or one last file; states and indexes are
  rewritten from stale copies without a lock. A finished run stays finished, a
  deleted one had no worker, an index catches up.
* *Split, embeddings, events, shared calls.* No object in two splits; rows by position
  are right after any number of deaths; each event once and in order; one execution
  per key, whose outcome all its callers get.

`PROJECT.json` lists each hazard at the line where it bites, with the properties
that catch it.

## 2. Modules

| Module | What it is |
| --- | --- |
| `JobManager`, `MCJobManager`, `JobManagerProofs` | the job manager: state, actions, fairness, properties, mutants; its instances for TLC; theorems |
| `InterprocessLock`, `MCInterprocessLock` | the file lock; theorems in `ServicesProofs` |
| `JsonIndex`, `MCJsonIndex`, `JsonIndexProofs` | the same for the index and the storage calls that drive it |
| `SceneAnnotations`, `MCSceneAnnotations`, `SceneAnnotationsProofs` | annotations of one scene and what is kept beside them |
| `TrainingRuns`, `MCTrainingRuns`, `TrainingRunsProofs` | training runs and the model registry |
| `DatasetRuns`, `MCDatasetRuns`, `DatasetRunsProofs` | the dataset build and the run index |
| `FullresPublication` | the publication of a full-resolution COG; theorems in `ServicesProofs` |
| `SharedCall`, `SingleFlight` | a promise and the table that keeps it; theorem in `ServicesProofs` |
| `JobEvents` | the event log of a job and its streams; theorem in `ServicesProofs` |
| `EmbeddingIndex`, `EmbeddingIndexProofs` | the resumable build of the object index; theorems |
| `DatasetSplits`, `DatasetSplitsProofs` | grouping, merging and placing of tiles; theorems |
| `Services`, `MCServices`, `ServicesProofs` | the lock and the five services before this row put together; values of the constants for TLC; theorems |

`Services` holds six instances side by side. They share no variable, and a
behaviour chooses one of them (`part`) for good: TLC explores their union, not
their product. Its specification is `ServicesSpec`, its constants are those of the
six, and what they must satisfy is `BoundsAssumption`.

A definition whose comment begins with "Mutant of" is a plausible bug; no action
uses it. `PROJECT.json` says which property breaks when it replaces the original.

### JobManager

`status`, `cancelReq`, `attached` (is a process identity stored?) and `fresh` (is
the heartbeat at most 120 s old?) are the fields of `state.json` that some handler
reads back. `worker[j]` is the place of the worker process in `job_worker.run`,
`lease[j]` the holder written in the lease file, `pc/cur/todo/snap` a scheduler
thread inside `dispatch_once` or `recover_jobs`, `cpc/cjob/cseen` a request thread
inside `cancel_job`. `spawns` and `early` are history variables.

One action is one locked section with the unlocked reads that feed only it. Where
the code reads a state and acts on it later the two are separate actions:
`StartRecovery` lists the states (`snap`), `Reclassify` judges each from that copy;
`ClaimJob`, `AcquireLease`, `MarkStarting`, `SpawnWorker`, `AttachProcess` and
`HandOverLease` are the steps of `_try_dispatch`, and `DispatchError`/`FailDispatch`
its `except` branch; `RequestCancel`, `KillWorker`, `ConfirmCancel` and
`ReleaseCancelled` are the steps of `cancel_job`; `WorkerBoot` to `WorkerExit` those
of the worker. `BackendCrash` restarts the backend: its threads are lost, workers go
on, and leases of the backend become leases of a dead process.

Switches: `LockTimeouts` (a lock times out or a spawn fails), `UnknownProbe`
(`process_status` answers unknown), `TimelyHeartbeat` (a live worker boots and beats
within 120 s), `WorkerCrashes`, and the bound `MaxCrashes` on backend crashes. Runs
that check a property which a fault breaks say so by leaving that fault out; the
faults runs and the proofs leave none out.

With `LockTimeouts`, `ResourceLimit`, `NoPhantomLease` and `NoResurrection` do not
hold: an exception after the spawn (`scheduler.py:211`) marks the job failed and frees
the lease of a worker that runs, and a release that times out (`resources.py:95`) is
never repeated. They are checked without it. `SpawnOnce` and `EarlyCancelNeverRuns`
hold, and are proved, with every fault.

### InterprocessLock

`local[p]` is the `threading.Lock` of a process, `file` the lock file (who made it,
is the owner payload written, does that incarnation of the process still live, is
the file older than 120 s), `pc` the place of a thread. `FindStale` and `BreakStale`
are separate steps and `BreakStale` removes whatever is at the path, as `unlink`
does; so are the token comparison of the release (`Leave`) and its `Unlink`.

`Prompt` says that no file of a live process gets 120 s old, which the code needs:
a file without a payload is judged by its age alone, so a thread that stalled for
two minutes between `os.open` and `os.write` would lose its lock.

### JsonIndex

`scene` and `annot` are the source documents; `idx` and `summary` the two view files,
each a revision stamp and the rows it was projected from; `revision` and `state` the
two control files; `ilock` and `rlock` the index and rebuild locks. A writer goes
through `OpenDocument`, `BeginMutation`, `WriteSource` and then either the delta
(`StartDelta` ... `DeltaWriteReady`, one action per file write) or
`CompleteRevision` and `CompleteState`. A reader goes through `AskRevision`,
`AskState`, `ReadDocument`, `VerifyDocument` (the unlocked query), and on failure
through the rebuild: `EnterRebuild`, `PeekState`, `PeekDocuments`, `StartBuild`,
`ScanScene` (one unlocked read of one scene), `StartPublish` or `BuildOvertaken`,
`PublishIndex`, `PublishSummary`, `PublishReady`. `WriterCrash` stands for an
exception in the bracketed section as well as for the death of the process: both
leave the token behind and free the locks. `BuildRaises` and `ReaderCrash` are the
same for a rebuild.

Kinds of mutation: `scene` and `annotations` (`save_scene_json`,
`mutate_scene_json`), `delete` (`delete_scene_data`), `batch` (writes inside
`track_project_mutation` that take no document lock, such as an annotation import).
`touched` is a history variable: the scenes somebody changed during a query.

### SceneAnnotations

`anns`, `stamp` are `annotations.json` with its size and time, `meta` the sidecar (a
revision and the stamp it is of), `flock` the lock of the document, `count` and
`manifest` the fields of `scene.json` and `scene_manifest.json` that other requests
rewrite. A request goes from `Begin` through the reads of its kind into `copy` and
back. `mutate_scene_json` holds the lock from the read to the sidecar (`Mutate`,
`WriteFile`, `WriteSidecar`); an optimistic `Save` compares the revision under it; an
import writes without it, and may roll back. `read_scene_json_with_revision` is
`ReadData`, `CheckSidecar`, `ReadAgain`, `ReadRevision`, four steps as in the code.
`direct` and `alone` are history variables.

What the properties exempt is what the code does not give:
* an import or a re-scan overtaken by another writer puts back an older list
  (`annotation_import.py:165`, `scene_import.py:3312`);
* data and revision may be of different documents (`storage.py:1026`), and a revision
  does not see a write that passed the sidecar (an import, or a crash between the
  two files): `SawBoth`. The interface has no caller outside the tests;
* overlapping requests leave a wrong count (`annotations.py:26`) and may lose the
  lock flag of the working view; `select_scene_asset` checks the flag and saves later
  (`scene_import.py:1636`). `AloneSettles` says nothing while requests overlap;
* a request may meet an error at any step (`RequestFails`). Most answer with it; an
  import that has written its rows turns a failing recomputation or count into a
  warning and answers "imported", with the count of before (`annotation_import.py:184`
  to `:191`). `AloneSettles` is about requests that met no error: the next one
  that runs alone repairs the count.

### TrainingRuns

A run has `job_state.json` (`state`), a manifest that the training writes last
(`manifest`) and a common job (`job`), of which `mirror` holds the terminal statuses that
backend threads are about to write into the run, in any order. `StartRun`,
`StartCutShort` and `StartFails` are the three ends of `post_training_run`, each taken as
one step; `SpawnWorker` to `RecoverJob` abstract `JobManager`. A cancel is a request
(`RequestCancel`) and what comes after the process tree is gone (`CancelWorker`, over
whatever the worker reported meanwhile) or cannot be confirmed gone
(`CancelUnconfirmed`); for a run without a common job `cancel_training_run` reads the
state and writes `cancelled` later (`WriteCancelled`). `ReadState` and `Reclassify` are the two steps of
`resolve_job_state` in a listing; `AskDelete`, `DropModel`, `ClearPath` and `RemoveRun`
those of a deletion. `register_model` and `promote_model` write from the copy they read.

A run without a common job has no process here: runs from before the common jobs, whose worker
`cancel_training_run` waits for up to 15 seconds, are not modelled.

Met while modelling: a cancel that meets a run without a job writes only the run; a
crash between `job.json` and the submission leaves `queued` for ever; a
listing may write `interrupted` over `completed`; a late mirror makes a deleted
directory again; a restart between the registry and `prediction_config` leaves the two
naming different models, and nothing repairs it (`PathResolves` says `crashes = 0`).
With two editors the registry loses changes; the run has one.

### DatasetRuns

`dir`, `tiles` and `pub` are a run's directory, its tiles and its publication; `index`
is `dataset_runs_index.json`, or `Torn` between its truncation and its write. The
builder goes through staging, tiles, manifest, the rename (`PublishRun`), the cache and
the index; `HandleError` is the pair of handlers in `_generate_events` and `generate`.
Every rewrite of the index is a read, a truncation and a write, by builder, listings,
publications and deletions alike. A registered summary has no publication fields
yet (`Bare`), so the first listing after a build rewrites the index.

Exempted, as the code does not give it: two users who publish at once may publish one
label (`dataset_runs.py:454`; the run has one editor); a kill inside a rewrite leaves an
index nobody can read (`TornKills`); a new backend removes the staging directory of a
worker that the old one left running (`main.py:127`), so a run without tiles may be
exposed (`restarts = 0` in `CompleteHasTiles`). A listing beside a deletion leaves an
entry without a run until the next listing.

### FullresPublication

`record` is the publication record, whose `steps` say how far the activation has come;
`candidate`, `active` and `ready` are the two files and what `scene.json` says. A file
is known by the source it was built from. The worker's actions are those of
`run_scene_fullres_derivative_job`; a view's those of `_fullres_derivative_view` and
`_resume_candidate_publication`, from the copy it read (`copy`), without asking whether
the worker is dead. A view first sweeps (`cleanup_legacy_fullres`): if it reads no record
it unlinks candidate, published file and record, one after the other and without a lock
(`ReadLegacy`, `SweepCandidate`, `SweepActive`, `SweepRecord`), whoever has written them
since; `SweepSparesBuilds` is violated by this (section 6). `job` has, per source, the
newest build submitted for it, which is the one a view asks about. `Relink` changes the
source at any time; the worker saves its whole copy of the manifest over it. That the
relink is lost is no violation here: the source the manifest names is the truth for
`ShownIsCurrent`.

Two states are exempted. `vanished`: a candidate was removed from beside an older
published file while its record, or a view that had read that record, still waited for
it; the view then adopts the older file and records it as active for the new source
(`scenes.py:379`). The clean-up of a worker that dies before it marks the record failed
does this, and so does a third build: the second one dies with its candidate recorded, a
view reads that record, the third build rewrites the record and removes the candidate,
and the view finds only the file of the first source. The exemption ends when a record
that waits for no candidate is written (a failure, a new build, a sweep) and no
view is finishing an activation, so the ordinary clean-up of a failed activation is over
once its record says so, and later publications are judged again.
`Stranded`: a view and the worker moved and unlinked each other's file; the record
waits for a file that is nowhere and every view gives up on it.

### SharedCall and SingleFlight

`SharedCall` is the docstring of `single_flight.py`: a caller is served by one
execution for its key, of which there is one at a time, that had not ended when the
caller came. `SingleFlight` is the code: the table, the call objects, and a leader that
sets the outcome, pops its call and wakes the waiters in three steps. The refinement
mapping says that an execution is over when its call has left the table.

### JobEvents, EmbeddingIndex, DatasetSplits

`JobEvents`: a number is given in `state.json` and the line written afterwards, both
under one lock; a writer that dies in between leaves a gap or part of a line. A stream
reads a batch, sends it, then looks at the job. It may end before an event that is
appended after the final status (`job_worker.py:411`), which `EachEventOnce` allows: it
says that what a client was sent are the first lines of the log, each once, also when
it comes back with the last number it was sent (the parameter `after` of
`stream_job_events`). The two endpoints that stream give no number, and begin a new
stream. The verdict that `legacy_only` makes up for a stream
without a final event is left out.

`EmbeddingIndex`: a batch goes into the vectors, a part and the checkpoint, in that
order; `Truncate` and `TrimParts` cut the first two back to the third. `spoiled` marks the one exempted
case: a reset removes the vectors, dies before it removes the checkpoint, and the next
roll-back extends the file with zeros (`embedding_index.py:245`).

`DatasetSplits`: tiles on integer coordinates, groups by mode, union over shared source
annotations one source at a time, largest groups first into the least full split (the
scores of the class-balanced mode are abstracted: it may place a group anywhere), then
the buffer by lookup of cells. Tiles without a location are never buffered, and in mode
`random_tile` annotations are shared by design: the property asks for neither.
`_ensure_nonempty_test` is `WithTest`; the fill in proportion leaves it little to do.

## 3. Runs

Every constant below is a bound of the run, not of the model.

| Run | Bounds | What it shows |
| --- | --- | --- |
| `jobs_normal` | 2 GPU jobs of different priority, 1 lease, worker crashes | types; never two workers in a handler; no lease left to the running backend; both jobs settle |
| `jobs_restart` | 2 jobs with one dedupe key, worker crashes, 1 backend crash | one active job per key; no terminal job becomes active; every job settles |
| `jobs_faults` | 1 job, 2 scheduler threads, every fault, 1 backend crash | at most one worker; no worker after an early cancel |
| `jobs_cancel_again` | as `jobs_normal`, with failing probes | **violated**: a second cancel drops a preserved lease |
| `lock_restart` | 2 processes of 2 threads that die and come back | **violated**: two processes break one stale file |
| `json_saves` | 1 scene, 2 values, 2 writers, 1 reader, 2 saves of the scene or its annotations, 1 writer crash, rebuild failures and reader crashes | types; both files are of one revision; a served view disagrees with the source only after a crash |
| `json_queries` | the same with deletions and batches and without failures, fair | answers are fresh; the view converges |
| `json_crash_stale` | 1 save, 1 writer crash | **violated**: the index stays ready and stale |
| `dataset_runs` | 2 builds, 1 user, 1 label, 2 publications or deletions, 1 kill or restart | a complete run stays, has its tiles and gets into the index; labels differ |
| `training_runs` | 2 runs, 1 listing, 1 editor, 1 request to cancel, 1 kill or restart | completed and registered runs have a manifest; the chosen path resolves; a deletion spares a live worker; running settles |
| `scene_annotations` | 2 requests at a time of 4, 2 drawn annotations and 1 of an import's owner, 1 restart | no annotation lost; optimistic saves; counts repaired |
| `services` | see below | the lock, the publication, shared calls, event streams, the embedding index, the split |

Bounds of `services`, with the distinct states of each part: lock 2 processes of 2
threads, both may die (150); publication 1 view, 2 sources, 2 builds, 1 kill (190,000);
calls 3 callers, 3 requests, 1 key, 2 outcomes (14,000); events 2 writers, 1 stream, 3
events, 2 deaths or failed writes, batches of 2 (12,000); embeddings 5 objects in batches
of 2, 2 revisions of the source, 4 deaths or failed loads (35,000); splits 4 tiles in a
row over 2 scenes, 2 source annotations in every combination, every mode (66,000).

Why these bounds are enough. Two jobs are the least that compete for a lease or a
key; a job's protocol involves one scheduler thread, one request and one worker, and
`jobs_faults` adds the second thread that a double `start()` would create. Two
processes of two threads cover both exclusion levels of the lock. Index mutations of
different scenes interact only through the shared files and the revision, which two
writers on one scene exercise as well, with the row conflicts on top; a second
mutation after a completed one needs no third writer. `MaxAttempts` is 3, the
default of `rebuild_project_indexes`; two mutations give the four events that can
exhaust it. Two runs of a data set or a training are the least whose index entries,
labels or models meet; the second build, revision or source is what makes a copy
stale; 5 objects in batches of 2 give a committed batch, one in flight and a short last
one; 4 tiles in a row give a train, a val and a test tile with neighbours on both sides
of a cell border. Counters of crashes, faults, requests and mutations have their
bounds in guards. `ShownIsCurrent` was also checked once with two views (16.4 million
states, too long for a run that is repeated). Symmetry is used in `scene_annotations` only,
which states no liveness: its requests are alike, and so are the annotations that users
draw. `DeadLockIsTaken` and `RequestsEnd` name one
thread and one caller, which stand for all, as the instances treat them alike.

The runs of sections that stop at their bounds turn deadlock checking off:
`services`, `dataset_runs`, `training_runs`, `scene_annotations` (their requests,
builds and faults are used up).

`json_saves` leaves deletions and batches out and `json_queries` leaves build failures
out. With both, even `StaleOnlyAfterCrash` fails: a batch overwrites a save of the same
scene and completes, a rebuild writes both files and fails before the state, and the
save's delta then matches the files although its own content is gone. With a third
mutation a deletion does the same: the annotations are saved, before the delta the scene
is deleted and made again, a rebuild fails as above, and the delta applies. Either needs
a publication that failed between two files and a change that no delta can see, and the
proof of the property has the same condition (`GuardedSaves`).

### Properties

* Jobs: `ResourceLimit`, `NoPhantomLease`, `OneActivePerKey`, `SpawnOnce`,
  `EarlyCancelNeverRuns`, `NoResurrection` (a step property), `EveryJobSettles`
  (liveness). `CompletedIsFinal` is stated and not run: it does not hold (section 6).
* Lock: `MutualExclusion`; `LiveLockStays` (step); `DeadLockIsTaken` (liveness).
* Index: `StaleOnlyAfterCrash`, `FilesAgree`, `AnswersFresh`; `Converges` (liveness).
* Annotations: `NothingLost`, `OptimisticSave` (step), `AloneSettles`.
* Training: `RegisteredIsFinished`, `PathResolves`, `CompletedIsFinished`,
  `DeleteSparesWorker` (step), `RunningSettles` (liveness).
* Dataset runs: `PublishedLabelsDiffer`, `CompleteHasTiles`, `CommitIsFinal` (step),
  `IndexCatchesUp` (liveness). Split: `NothingLeaks`.
* Publication: `ShownIsCurrent`, `CandidateSettles` (liveness). `SweepSparesBuilds` (step)
  is stated and not run: it does not hold (section 6). Embeddings:
  `IndexIsWhole`. Events: `EachEventOnce`, and with the calls `RequestsEnd` (liveness).
* Refinement: `ImplementsSharedCall`.

What they do not say: `DeadLockIsTaken` is about a file with its payload written;
`MutualExclusion` passes where no process comes back, and `lock_restart` is the other
case; the atomic lookup under `.submit.lock` is taken for granted by `OneActivePerKey`.
`PROJECT.json` has, per hazard, what is exempt or out of a run's reach.

An observation from writing the mutants of the index: several of its guards are
redundant while nothing crashes. Dropping the begin marker, for instance, breaks no
property, because a rebuild that overlapped the write is undone by the completion;
the marker matters for crashes alone, and `json_crash_stale` shows a case where it
does not help there either.

### Fairness and why the code justifies it

* Jobs: weak fairness of a thread inside a pass, of a request inside `cancel_job` and
  of a worker (its handler returns). Strong fairness of starting a dispatch and a
  recovery pass, because the loop of `_run` alternates them by time (every 0.5 s and
  every 10 s) and the model lets either be chosen while the other waits. 120 s without
  a beat pass. Nothing is assumed of submits, cancels, beats, crashes or timeouts.
* Lock: a thread that has entered keeps running (the wait polls every 20 ms and the
  sections under the lock are finite).
* Index: a mutation or query that has begun keeps running, and queries keep coming
  (the scene list polls). Strong fairness because a thread waits for the index lock by
  polling and others hold it only briefly. `Converges` is checked without failures:
  a publication that fails every time never converges.
* Publication: a live worker takes its steps, and the scene view keeps asking
  (`useJob` polls every 1.5 s while a build is shown). No fairness of relinks or kills.
* Training and dataset runs: a live worker takes its steps, and the lists are read
  again (TrainingView and ResultsView poll every 3 s; the dataset views reload).
  Strong fairness of `ReadState` only: a run may be running and not at each other poll.
* Events: a job ends, and a stream that its client keeps open polls (every 0.2 s).
  Shared calls: a request thread goes on, and a rendering ends.
* Annotations, embeddings, split: no fairness; only safety is stated.

## 4. Proofs

Checked by TLAPS for every value of the constants: any number of jobs, threads, writers,
requests, views, crashes. The modules' named assumptions are all that a theorem takes for
granted, and the conditions stated below. TLC checked the longer inductive invariants
(that of the dispatch, that of the publication) on an instance before they were proved.
Each invariant and each step property of a passing run is stated by a theorem.

**Types.** `TypeCorrect`, `LockTyped`, `IndexTyped`, `SceneTypes`, `TrainingTypes`,
`DatasetTypes`, `PublicationTypes`, `IndexTypes`, `SplitTypes`, and
`ServicesTypes` (`TypesOK`) for the composition; one step per action. `TypeOK` is not always
inductive. That of the index needs that a writer on its way to a delta carries the row
it wrote and that a rebuild that may start has attempts left (`Typed`); that of the
training runs that a deleted directory is empty; that of the publication that a worker
that saves the manifest has read it (`PubBounded`).

### Jobs

* `AtMostOneWorker` (`SpawnOnce`) and `EarlyCancelHolds` (`EarlyCancelNeverRuns`), with
  every fault allowed. `SpawnOnce` is not inductive: a second spawn needs a thread at
  `spawn`, so `DispatchInv` says that a thread between the claim and the spawn of a job
  is the only one (`ClaimExclusive`), that the job it works on has no worker yet
  (`ClaimedUntouched`, `FirstSpawn`), that a queued job was never touched
  (`QueuedUntouched`), and that a job cancelled while queued is terminal and stays so
  (`EarlyUntouched`).
* `LeasesAreNotLost` (`NoPhantomLease`), assuming `~LockTimeouts`, with every other fault.
* `TerminalIsFinal` (`NoResurrection`) and `KeysAreExclusive` (`OneActivePerKey`),
  assuming `~LockTimeouts` and `TimelyHeartbeat`. What could revive a job is
  `MarkStarting`, `AttachProcess` or the worker's unconditional RUNNING. `LaunchInv` says
  that the state of a job on its way to a handler is active and fresh (`LaunchOpen`), that a stored
  identity is that of a started process, and that no recovery pass holds a lapsed copy
  of it (`LapsedIsNotLaunching`): so nobody has ended the job meanwhile. Then
  `OnlySubmitActivates`, and the submission looks for an active job under the lock.
* `LimitIsKept` (`ResourceLimit`), assuming `~LockTimeouts`, `TimelyHeartbeat`,
  `~UnknownProbe` and `MaxCrashes = 0`: worker deaths and cancels in any order, but not
  the faults that findings 1 and the paragraph after it show to break it. Two
  invariants: leases of a class are within the limit (`LeasesWithinLimit`, from the
  clean-up and the count in one section, `AcquireEffect`), and each job on its way
  to a handler or in one has a lease (`LeaseHeld`), because what drops a lease comes after
  the process is gone (`ReleaseIsLate`).

### Lock

* `ExclusionUnlessTwoBreak` (`MutualExclusion`) and `LiveLocksStay` (`LiveLockStays`):
  with any number of crashes and restarts, as long as no two threads are removing a stale
  file at the same time (`SoleBreaker`), assuming `Prompt`. The invariant `Owned` says
  that a thread past `O_EXCL` owns the file at the path and that a thread about to remove
  a file finds the dead one there. `lock_restart` shows that the condition is needed.
* `TwoProcessesExclude`: both properties for two processes of any number of threads that
  may die and do not come back, without that condition: if a file is stale its process is
  dead (`DeadStayDown`), and the threads of the other one exclude each other by
  the `threading.Lock`. This is the case of the backend and one worker.
* `ExclusionWithoutCrashes`: the lock excludes when no process dies.

All three take `Prompt` for granted.

### Index

* `NoHalfWrittenView` (`FilesAgree`): with crashes and build failures, a ready state of
  the current revision implies that both view files are of that revision. The invariant
  (`ViewInv`) follows a section under the index lock file by file: what has been stamped
  so far, and that the state is not ready of the revision about to be published.
* `ViewIsFresh` (`StaleOnlyAfterCrash`), assuming `GuardedSaves`: either builds do not
  fail, or the mutations are saves of scenes and annotations. While no writer has died
  (`FitInv`), a file of the current revision has for each scene the row of its source,
  unless a writer is in flight that wrote that scene and will advance the revision
  (`FilesFit`); the rows of a delta that was let through do so without that writer
  (`DeltaFits`); a scan that may still be published has, of each scene, a row that was the
  source or was overtaken (`DraftFits`). Two saves of a document
  exclude each other (`SavesExclude`). The condition is needed: section 3 describes what
  happens without it.
* `QueriesAreFresh` (`AnswersFresh`), assuming `GuardedSaves` and `MaxCrashes = 0`. Who was
  in flight when a query began, or began later, is noted (`TouchedNoted`), and what a query
  has read is fresh beside that (`AnswerInv`), whether it came from the unlocked
  read or from the rebuild.

### Annotations

* `SavesAreOptimistic` (`OptimisticSave`). The stamp of a file identifies a list
  (`StampsIdentify`), a revision only grows (`RevisionsGrow`), and so the revision that a
  client saw was never stored with another list (`RevisionIsOfList`).
* `AnnotationsAreKept` (`NothingLost`): from `StampsIdentify`, as a writer under the lock writes
  what it read there.
* `AloneRequestsSettle` (`AloneSettles`): what a request that nobody overlapped has read
  is still what is stored (`Undisturbed`), whatever the counts were before. A request
  that met an error is not one that ran alone.

### Runs and the registry

* `CommitStands` (`CommitIsFinal`): however many builds, users, kills, restarts and torn
  rewrites, a complete run never becomes a failed one. The invariant (`CommitInv`)
  follows the builder: when it stands at the write of a failure its run is not complete
  (`FailureIsHidden`).
* `CompleteRunsHaveTiles` (`CompleteHasTiles`): the staging directory of a build past its
  tiles has them, while no backend restarts (`BuildHasTiles`).
* `PublishedLabelsAreUnique` (`PublishedLabelsDiffer`), for one editor, which is what the
  property is about (two are exempted in section 2). What an editor compares its label
  with is the outcome of its own scan of the runs, which shows every publication there is
  whatever builders and listings write over the index (`ListingIsCurrent`), and so the
  label it is about to write is no other run's (`LabelIsFree`).
* `CompletedRunsAreFinished` (`CompletedIsFinished`) and `DeletionSparesWorkers`
  (`DeleteSparesWorker`), for any number of listings and of editors that delete at the
  same time. Both rest on `RunInv`: while a worker trains nobody else writes the state
  of its run (`WorkerOwnsState`), because what is mirrored comes after its end; hence
  a state that is not active means that the worker is over, that stays so
  (`DeletedIsOver`), and so no manifest is removed under a worker about to report
  success (`ManifestFirst`). It needs that ids of runs are never used again, which
  their time stamps give (`create_training_run_id`).
* `RegisteredModelsAreFinished` (`RegisteredIsFinished`) and `ChosenPathsResolve`
  (`PathResolves`), for one editor: the copy of the registry that an editor works with is
  current and the run it adds has its manifest, a run whose files go has left the registry
  (`CopyIsCurrent`), and the chosen path is that of the current model outside the two
  writes of an edit (`ChosenIsCurrent`).

### Publication and shared calls

* `PixelsAreOfTheSource` (`ShownIsCurrent` of `FullresPublication`), for any number of
  views, sources, builds, kills and restarts, with the exemption of section 2
  (`vanished`). The source may go back, as a worker saves its old
  manifest over a relink, so the argument follows the newest source that a build has begun
  with (`PubFront`): nothing is newer, it never goes back, and a published source is the front. Once
  a candidate record of the front exists, the candidate is of the front or gone
  (`PubCandidateFits`); after the move so is the published file (`PubActiveFits`); and where a
  view looks for a candidate that is gone, the published file is not an older one
  unless `vanished` (`PubLookFits`). The last part showed that the exemption had to cover the
  record that a view holds as well as the stored one: within the bounds of `services`
  the two are the same.
* `Refinement` (`ImplementsSharedCall`): for any number of callers, keys and requests
  `SingleFlight` implements `SharedCall`, assuming that the markers for "no key" and
  "no outcome yet" are neither keys nor outcomes (`CallsBounds`). The invariant says that a call in the
  table is led by one caller that has not popped it, that a call object belongs to the
  request that made it, and that a call that is done has an outcome. Each step of the
  code is mapped to a step of the promise or to a stutter: `Lead` and `Join` to its Begin
  and Join, `Pop` to its End, `Return` to its Return.

### Events

* `EventsOnce` (`EachEventOnce`): any number of writers, streams, events and faults, any
  batch size. The numbers in the log grow strictly (`LogGrows`): the writer with the lock
  holds a number beyond the last line, and a writer that dies or tears a line leaves
  that number unused (`WriterIsAlone`). Hence the lines a cursor has passed are a
  prefix of the log, and what a stream has in hand is the next piece of it
  (`ReaderFollows`), although the reader knows nothing of lines, only of numbers. `Unread`
  and the property say "the n-th line that is new" and "the first n lines" by places in
  the log, not by a filter of a sequence, whose recursive definition is out of reach.

### Embedding index

* `IndexWhole` (`IndexIsWhole`). One predicate says that files belong together: `Fits(m,
  n, c)`, the first m parts are the first n vectors in one piece, of the present source
  and in order up to the place c. It holds of the checkpoint whenever a build of this
  source may go on from it (`CheckpointFits`), of what is about to be committed
  (`CommitFits`), and of all the parts when an index loads (`ManifestFits`). A death in an
  append leaves more vectors and parts than that, and the roll-back restores it. A build
  that reads an older source than the present one can spoil only files that say so,
  because nothing is of a later source than the build (`Ages`). That each row has exactly
  one part (`RowHasPart`) takes the first part that reaches it, from the
  well-foundedness of the naturals.

### Splits

* `SplitsLeakNothing` (`NothingLeaks`), for finitely many numbered tiles anywhere on the
  integer grid, any links, shares, blocks and buffer.
  The parents are a forest (`Forest`): they have ranks, so a chain of parents ends, and
  there is a function from each tile to its root. Such a function is unique (`TopsAreUnique`,
  by a lowest tile on which two would differ), so it is `Root`, whose recursive definition
  need not be unfolded by induction (`RootIsTop`). Hanging a set of roots below one of
  them keeps the forest and moves just their tiles (`Hang`); so tiles of a
  merged source have one root and keep it while further sources are merged (`Merged`), and
  groups are placed whole and moved whole (`GroupsWhole`, `DonorGivesGroups`).
* The belt: tiles nearer than the buffer are in cells that differ by at most one in each
  direction (`NearIsSearched`), so the nine cells of the lookup miss no tile
  (`BeltIsCut`).
* `LeastFullExists`: shares are compared by cross products, which is an order although no
  fraction is computed (`CrossProducts`), so there is always a split to put a group in. The
  types rest on it.

### The composition

The run `services` checks the properties of `Services`, and these are theorems of
`ServicesSpec`, for the constants that `BoundsAssumption` admits: `ServicesTypes`,
`ShownPixelsAreCurrent`, `CallsAreShared` (the refinement), `EventsAreSentOnce`,
`LoadedIndexIsWhole`, `SplitsDoNotLeak`. `ServicesRun` shows that a behaviour of the
composition is one of each service, action by action a step or a stutter; the theorem of the
service then gives that of the composition. The theorems of the lock are stated for its
own `Spec`; `ServicesExclude` (`MutualExclusion`, `LiveLockStays`) carries over the case of
two processes that the run has.

### Only model-checked

The liveness properties (`EveryJobSettles`, `DeadLockIsTaken`, `Converges`,
`IndexCatchesUp`, `RunningSettles`, `CandidateSettles`, `RequestsEnd`): fairness and
`ENABLED` are out of the prover's reach. And where a theorem has a condition that a run
does not have, the rest is what the run shows. Induction over data is out of reach as well;
where it was only over a least element, it was replaced by the well-foundedness of the
naturals (`DatasetRunsProofs`, `EmbeddingIndexProofs`, `DatasetSplitsProofs`).

## 5. What is not modelled

* Contents of jobs, documents and rows beyond equality; formats, logging, progress,
  the wording of errors.
* Time other than "fresh" and "old".
* The parts of section 1 without a module, and the reasons given per part in
  `PROJECT.json`. In `JobManager`: artifacts, retention of old jobs. In `JsonIndex`:
  bootstrap from an index of an older schema, the status and explicit rebuild
  endpoints. In `SceneAnnotations`: the preview of an import with its state hash,
  `accept_predictions`, the propagation of attributes. In `TrainingRuns`: the retry of
  an ended run, which makes a new run with its own id and directory
  (`_prepare_training_retry`, `scheduler.py:322`), and the evaluation on the test split. In `DatasetRuns`:
  statistics, audit, samples. In `FullresPublication`: a relink back to an earlier
  source between two checks, variants, pixels.
* Power loss: a file replaced atomically is taken as durable.

Most lines of this repository are outside the reach of a model checker, and the
share of the implementation that the modules stand for stays small (some 5,000 lines of
65,000). Metadata and product parsers, raster I/O and rendering, inference (SAM, DINO,
YOLO), image statistics, export formats, request schemas and the React views are long
functions from data to data: they keep no state between calls that another
actor could disturb, and a model of them would repeat their text. The modules cover the
places where two actors, or an actor and its own restart, meet in the same files.

## 6. Findings

`PROJECT.json` quotes the statement of the repository each of the first three
contradicts.

1. `jobs_cancel_again`: cancelling an already cancelled job releases the lease that
   recovery preserved (`scheduler.py:286`).
2. `lock_restart`: two processes break one stale lock and both enter (`store.py:150`).
3. `json_crash_stale`: a rebuild forgets the token of a running mutation, whose
   failure then goes unnoticed (`rebuild.py:150`). The same forgotten token lets a
   later mutation publish a delta beside the first, against the docstring of
   `delta.py`; that alone does no harm, because the first one's completion makes the
   index dirty again.

Two more are of the job manager and are found with the same modules by changing one
constant or one property: with a backend crash in `jobs_normal`, `ResourceLimit` fails, as a
crash between spawn and hand-over leaves a worker running without a lease
(`scheduler.py:209`, `job_worker.py:356`); `CompletedIsFinal` fails without any fault,
as a confirmed cancel overwrites `completed` (`scheduler.py:296`). One is of the
publication: under `Spec` of `FullresPublication`, `SweepSparesBuilds` fails within nine states. A
view that read no publication record unlinks the files and the record of a build that a
worker has begun since (`fullres_cog_builder.py:175`), although its docstring speaks of
version 1 and interrupted products only (`:149`); until the worker writes its record again,
every later view sweeps the build's intermediate files as well. The exemptions of
section 2 are what the code does not give in the other parts: each was met as a
counterexample to the property without it.

## 7. What could follow

1. Proofs: the stated exemptions of `ResourceLimit` and of `SoleBreaker` one by one; that
   the splits of a data set end in the shares asked for, up to a group.
2. The retry of a training run; the preview of an import against its application;
   assistance sessions; the import of several scenes.
3. An abstract job (none, active, terminal) that `JobManager` implements where
   cancels do not race the final write, and an abstract lock that `InterprocessLock`
   implements under `SoleBreaker`.
4. Pure operators: tile windows, split validation.
