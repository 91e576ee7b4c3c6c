----------------------------- MODULE DatasetRuns -----------------------------
(***************************************************************************)
(* Versioned dataset runs: the build pipeline of routers/dataset.py        *)
(* (prepare_dataset_build, run by a job worker process) and the run        *)
(* storage of services/dataset_runs.py (requests of the backend).          *)
(*                                                                         *)
(* A build fills <run>.partial and exposes it by one rename; the decision  *)
(* to publish lives in <run>/publication.json; dataset_runs_index.json is  *)
(* a projection of both that the worker and the requests read, change and  *)
(* rewrite without any lock.  write_json_path truncates the file before it *)
(* writes it, so a rewrite is two steps and a reader between them fails.   *)
(*                                                                         *)
(* Runs are numbered in the order of their creation.  At most one build is *)
(* active: the job is submitted with a dedupe key (JobManager's            *)
(* OneActivePerKey).  A run directory is read in one step.                 *)
(***************************************************************************)
EXTENDS Naturals, FiniteSets

CONSTANTS
    MaxRuns,      \* bound on builds
    Requests,     \* request threads of the backend
    Editors,      \* those that publish and delete; the others only list
    Builder,      \* the worker process of the current build
    Labels,       \* publication labels a user types
    NoLabel,
    Torn,         \* the index file between truncation and write
    MaxEdits,     \* bound on publish and delete requests
    MaxFaults,    \* bound on kills of the worker (cancel, crash) and on
                  \* restarts of the backend under a live worker
    TornKills     \* may a kill or restart hit a rewrite of the index?

ASSUME DatasetAssumption ==
    /\ MaxRuns \in Nat /\ MaxEdits \in Nat /\ MaxFaults \in Nat
    /\ Editors \subseteq Requests /\ Builder \notin Requests
    /\ TornKills \in BOOLEAN

Runs == 1..MaxRuns
NoRun == 0
Actors == Requests \union {Builder}

Publication == [status: {"draft", "published", "deprecated"},
                label: Labels \union {NoLabel}]
Draft == [status |-> "draft", label |-> NoLabel]

(* A summary made of a manifest: it has no publication fields yet.         *)
Bare == [status |-> "none", label |-> NoLabel]

(* entry[r] is the status of r's summary ("none": not listed), shown[r] the *)
(* publication fields copied into it.                                      *)
IndexValue == [entry: [Runs -> {"none", "failed", "complete"}],
               shown: [Runs -> Publication \union {Bare}],
               latest: Runs \union {NoRun}]
EmptyIndex == [entry |-> [r \in Runs |-> "none"],
               shown |-> [r \in Runs |-> Bare],
               latest |-> NoRun]

VARIABLES
    dir,       \* status in the manifest of the run directory
    staging,   \* what <run>.partial holds
    tiles,     \* does the run directory hold the tiles of the build?
    pub,       \* publication.json
    index,     \* dataset_runs_index.json
    cache,     \* the run that project/dataset is a copy of
    built,     \* number of builds started
    pc,        \* where an actor stands
    op,        \* what a request was asked for
    run,       \* the run an actor works on
    want,      \* the publication a request was asked to write
    loc,       \* an actor's copy of the index
    edits, kills, restarts

files == <<dir, staging, tiles, pub, cache>>
actorVars == <<pc, op, run, want, loc>>
bounds == <<edits, kills, restarts>>
vars == <<files, index, built, actorVars, bounds>>

RewritePC == {"idle", "read", "truncate", "fill"}
RequestPC == RewritePC \union
    {"list", "scan", "relist", "listing", "label", "record", "remove", "repair"}
BuilderPC == RewritePC \union
    {"tiles", "manifest", "publish", "cache", "copy", "lock", "error", "failed"}
TypeOK ==
    /\ dir \in [Runs -> {"none", "failed", "complete"}]
    /\ staging \in [Runs -> SUBSET {"dir", "tiles", "manifest"}]
    /\ tiles \in [Runs -> BOOLEAN]
    /\ pub \in [Runs -> Publication]
    /\ index \in IndexValue \union {Torn}
    /\ cache \in Runs \union {NoRun}
    /\ built \in 0..MaxRuns
    /\ pc \in [Actors -> RequestPC \union BuilderPC]
    /\ \A a \in Requests : pc[a] \in RequestPC
    /\ pc[Builder] \in BuilderPC
    /\ op \in [Actors -> {"none", "list", "publish", "delete", "deleteLatest",
                          "build", "fail", "failAgain"}]
    /\ run \in [Actors -> Runs \union {NoRun}]
    /\ want \in [Actors -> Publication]
    /\ loc \in [Actors -> IndexValue]
    /\ edits \in 0..MaxEdits /\ kills \in 0..MaxFaults /\ restarts \in 0..MaxFaults

Init ==
    /\ dir = [r \in Runs |-> "none"]
    /\ staging = [r \in Runs |-> {}]
    /\ tiles = [r \in Runs |-> FALSE]
    /\ pub = [r \in Runs |-> Draft]
    /\ index = EmptyIndex
    /\ cache = NoRun
    /\ built = 0
    /\ pc = [a \in Actors |-> "idle"]
    /\ op = [a \in Actors |-> "none"]
    /\ run = [a \in Actors |-> NoRun]
    /\ want = [a \in Actors |-> Draft]
    /\ loc = [a \in Actors |-> EmptyIndex]
    /\ edits = 0 /\ kills = 0 /\ restarts = 0

Goto(a, l) == pc' = [pc EXCEPT ![a] = l]
(* A request that ends, normally or by an exception, forgets its locals.    *)
Done(a) ==
    /\ Goto(a, "idle")
    /\ op' = [op EXCEPT ![a] = "none"]
    /\ run' = [run EXCEPT ![a] = NoRun]
    /\ want' = [want EXCEPT ![a] = Draft]
    /\ loc' = [loc EXCEPT ![a] = EmptyIndex]

-----------------------------------------------------------------------------
(* The index file.                                                         *)

(* Mutant of Raise: a request ends in the handler of the build.            *)
RaiseAlike(a, handler) ==
    /\ Goto(a, "error")
    /\ op' = [op EXCEPT ![a] = handler]
    /\ UNCHANGED <<run, want, loc>>

(* An exception ends a request.  A build has two nested handlers: the inner *)
(* one covers the tiles ("fail"), the outer one the rest ("failAgain").    *)
Raise(a, handler) ==
    IF a = Builder
    THEN /\ Goto(a, "error")
         /\ op' = [op EXCEPT ![a] = handler]
         /\ UNCHANGED <<run, want, loc>>
    ELSE Done(a)

(* The first half of open(path, "w"); the caller's copy is written after.  *)
Truncate(a, from, to) ==
    /\ pc[a] = from
    /\ index' = Torn
    /\ Goto(a, to)
    /\ UNCHANGED <<files, built, op, run, want, loc, bounds>>

(* list_dataset_runs: read the index ...                                   *)
ListRead(a) ==
    /\ pc[a] = "list"
    /\ IF index = Torn THEN Done(a)
       ELSE /\ loc' = [loc EXCEPT ![a] = index]
            /\ Goto(a, "scan")
            /\ UNCHANGED <<op, run, want>>
    /\ UNCHANGED <<files, index, built, bounds>>

(* Mutant of Scanned: the directories are not looked at.                   *)
NotScanned(ix) == ix

(* Add a bare summary of every run directory that the index lacks.         *)
Scanned(ix) ==
    [ix EXCEPT !.entry = [r \in Runs |->
        IF ix.entry[r] = "none" THEN dir[r] ELSE ix.entry[r]]]

(* Copy the publication of each listed run into its entry.                 *)
Refreshed(ix) ==
    [ix EXCEPT !.shown = [r \in Runs |->
        IF ix.entry[r] # "none" THEN pub[r] ELSE ix.shown[r]]]

(* Where a listing made for a publish or a delete returns to.              *)
AfterList(a) == IF op[a] = "publish" THEN "label" ELSE "remove"

(* ... bring it up to date, and write it back only if something changed.   *)
ListScan(a) ==
    /\ pc[a] = "scan"
    /\ LET now == Refreshed(Scanned(loc[a])) IN
       IF now # loc[a]
       THEN /\ loc' = [loc EXCEPT ![a] = now]
            /\ Goto(a, "relist")
            /\ UNCHANGED <<op, run, want>>
       ELSE IF op[a] = "list" THEN Done(a)
            ELSE Goto(a, AfterList(a)) /\ UNCHANGED <<op, run, want, loc>>
    /\ UNCHANGED <<files, index, built, bounds>>

ListFill(a) ==
    /\ pc[a] = "listing"
    /\ index' = loc[a]
    /\ IF op[a] = "list" THEN Done(a)
       ELSE Goto(a, AfterList(a)) /\ UNCHANGED <<op, run, want, loc>>
    /\ UNCHANGED <<files, built, bounds>>

ListWrite(a) == Truncate(a, "relist", "listing") \/ ListFill(a)

-----------------------------------------------------------------------------
(* Requests.                                                               *)

AskList(a) ==
    /\ pc[a] = "idle"
    /\ Goto(a, "list")
    /\ op' = [op EXCEPT ![a] = "list"]
    /\ UNCHANGED <<files, index, built, run, want, loc, bounds>>

(* Mutant of AskPublish: the label is compared with the index as it lies.   *)
AskPublishUnlisted(a, r, status, typed) ==
    LET label == IF typed = NoLabel THEN pub[r].label ELSE typed IN
    /\ pc[a] = "idle"
    /\ edits < MaxEdits
    /\ index # Torn
    /\ dir[r] # "none"
    /\ status = "published" => dir[r] = "complete" /\ label # NoLabel
    /\ Goto(a, IF status = "published" THEN "label" ELSE "record")
    /\ op' = [op EXCEPT ![a] = "publish"]
    /\ run' = [run EXCEPT ![a] = r]
    /\ want' = [want EXCEPT ![a] = [status |-> status, label |-> label]]
    /\ loc' = [loc EXCEPT ![a] = index]
    /\ edits' = edits + 1
    /\ UNCHANGED <<files, index, built, kills, restarts>>

(* put_dataset_run_publication: without a label in the request the current *)
(* one is kept; publishing needs a complete run, a label and a listing to  *)
(* compare it with, the other two statuses are written at once.            *)
AskPublish(a, r, status, typed) ==
    LET label == IF typed = NoLabel THEN pub[r].label ELSE typed IN
    /\ pc[a] = "idle"
    /\ edits < MaxEdits
    /\ dir[r] # "none"
    /\ status = "published" => dir[r] = "complete" /\ label # NoLabel
    /\ Goto(a, IF status = "published" THEN "list" ELSE "record")
    /\ op' = [op EXCEPT ![a] = "publish"]
    /\ run' = [run EXCEPT ![a] = r]
    /\ want' = [want EXCEPT ![a] = [status |-> status, label |-> label]]
    /\ edits' = edits + 1
    /\ UNCHANGED <<files, index, built, loc, kills, restarts>>

CheckLabel(a) ==
    /\ pc[a] = "label"
    /\ LET taken == {loc[a].shown[r].label : r \in {r \in Runs \ {run[a]} :
                                                     loc[a].entry[r] # "none"}}
       IN IF want[a].label \in taken THEN Done(a)
          ELSE Goto(a, "record") /\ UNCHANGED <<op, run, want, loc>>
    /\ UNCHANGED <<files, index, built, bounds>>

WritePublication(a) ==
    /\ pc[a] = "record"
    /\ pub' = [pub EXCEPT ![run[a]] = want[a]]
    /\ Goto(a, "read")
    /\ UNCHANGED <<dir, staging, tiles, cache, index, built, op, run, want, loc, bounds>>

(* delete_dataset_run_endpoint: a published run needs force.               *)
AskDelete(a, r, force) ==
    /\ pc[a] = "idle"
    /\ edits < MaxEdits
    /\ dir[r] # "none"
    /\ pub[r].status = "published" => force
    /\ Goto(a, "list")
    /\ op' = [op EXCEPT ![a] = "delete"]
    /\ run' = [run EXCEPT ![a] = r]
    /\ edits' = edits + 1
    /\ UNCHANGED <<files, index, built, want, loc, kills, restarts>>

RemoveRun(a) ==
    /\ pc[a] = "remove"
    /\ dir' = [dir EXCEPT ![run[a]] = "none"]
    /\ tiles' = [tiles EXCEPT ![run[a]] = FALSE]
    /\ pub' = [pub EXCEPT ![run[a]] = Draft]
    /\ Goto(a, "read")
    /\ UNCHANGED <<staging, cache, index, built, op, run, want, loc, bounds>>

-----------------------------------------------------------------------------
(* The rewrite of the index that ends a publish, a delete and a build.     *)

NewestComplete(ix) ==
    LET complete == {r \in Runs : ix.entry[r] = "complete"} IN
    IF complete = {} THEN NoRun ELSE CHOOSE r \in complete : \A s \in complete : s <= r

Without(ix, r) ==
    LET rest == [ix EXCEPT !.entry[r] = "none", !.shown[r] = Bare] IN
    IF ix.latest = r THEN [rest EXCEPT !.latest = NewestComplete(rest)] ELSE rest

(* The summary of a finished build takes the place of the run's old one.   *)
Registered(ix, r, status) ==
    [ix EXCEPT !.entry[r] = status, !.shown[r] = Bare,
               !.latest = IF status = "complete" THEN r ELSE @]

(* What each caller makes of the index it has read.                        *)
Rewritten(ix, a) ==
    CASE op[a] = "publish" -> Refreshed(ix)
      [] op[a] = "delete" -> Without(ix, run[a])
      [] op[a] = "build" -> Registered(ix, run[a], "complete")
      [] OTHER -> Registered(ix, run[a], "failed")

ReadIndex(a) ==
    /\ pc[a] = "read"
    /\ IF index = Torn
       THEN IF op[a] = "failAgain" THEN Done(a) ELSE Raise(a, "failAgain")
       ELSE /\ loc' = [loc EXCEPT ![a] = Rewritten(index, a)]
            /\ op' = [op EXCEPT ![a] = IF @ = "delete" /\ index.latest = run[a]
                                       THEN "deleteLatest" ELSE @]
            /\ Goto(a, "truncate")
            /\ UNCHANGED <<run, want>>
    /\ UNCHANGED <<files, index, built, bounds>>

FillIndex(a) ==
    /\ pc[a] = "fill"
    /\ index' = loc[a]
    /\ \/ op[a] = "build" /\ Goto(a, "lock") /\ UNCHANGED <<op, run, want, loc>>
       \/ op[a] = "deleteLatest" /\ Goto(a, "repair") /\ UNCHANGED <<op, run, want, loc>>
       \/ op[a] \notin {"build", "deleteLatest"} /\ Done(a)
    /\ UNCHANGED <<files, built, bounds>>

WriteIndex(a) == Truncate(a, "truncate", "fill") \/ FillIndex(a)

(* project/dataset is copied again from the new latest run, or removed.    *)
RepairCache(a) ==
    /\ pc[a] = "repair"
    /\ LET newest == loc[a].latest IN
       cache' = IF newest # NoRun /\ dir[newest] # "none" THEN newest ELSE NoRun
    /\ Done(a)
    /\ UNCHANGED <<dir, staging, tiles, pub, index, built, bounds>>

-----------------------------------------------------------------------------
(* The build.                                                              *)

BuildGoto(l) == Goto(Builder, l) /\ UNCHANGED <<op, run, want, loc>>

StartBuild ==
    /\ pc[Builder] = "idle"
    /\ built < MaxRuns
    /\ built' = built + 1
    /\ staging' = [staging EXCEPT ![built + 1] = {"dir"}]
    /\ Goto(Builder, "tiles")
    /\ op' = [op EXCEPT ![Builder] = "build"]
    /\ run' = [run EXCEPT ![Builder] = built + 1]
    /\ UNCHANGED <<dir, tiles, pub, index, cache, want, loc, bounds>>

(* build_dataset makes its directories first and writes images into them.  *)
WriteTiles ==
    /\ pc[Builder] = "tiles"
    /\ IF "dir" \in staging[run[Builder]]
       THEN /\ staging' = [staging EXCEPT ![run[Builder]] = @ \union {"tiles"}]
            /\ BuildGoto("manifest")
       ELSE Raise(Builder, "fail") /\ UNCHANGED staging
    /\ UNCHANGED <<dir, tiles, pub, index, cache, built, bounds>>

(* The JSON artefacts, the audit and the complete manifest: each write      *)
(* makes the parent directory if it is missing (_atomic_write_bytes).      *)
WriteManifest ==
    /\ pc[Builder] = "manifest"
    /\ staging' = [staging EXCEPT ![run[Builder]] = @ \union {"dir", "manifest"}]
    /\ BuildGoto("publish")
    /\ UNCHANGED <<dir, tiles, pub, index, cache, built, bounds>>

PublishRun ==
    LET r == run[Builder] IN
    /\ pc[Builder] = "publish"
    /\ IF "manifest" \in staging[r] /\ dir[r] = "none"
       THEN /\ dir' = [dir EXCEPT ![r] = "complete"]
            /\ tiles' = [tiles EXCEPT ![r] = "tiles" \in staging[r]]
            /\ staging' = [staging EXCEPT ![r] = {}]
            /\ BuildGoto("cache")
       ELSE Raise(Builder, "failAgain") /\ UNCHANGED <<dir, tiles, staging>>
    /\ UNCHANGED <<pub, index, cache, built, bounds>>

DropCache ==
    /\ pc[Builder] = "cache"
    /\ cache' = NoRun
    /\ BuildGoto("copy")
    /\ UNCHANGED <<dir, staging, tiles, pub, index, built, bounds>>

CopyCache ==
    /\ pc[Builder] = "copy"
    /\ IF dir[run[Builder]] # "none"
       THEN cache' = run[Builder] /\ BuildGoto("read")
       ELSE Raise(Builder, "failAgain") /\ UNCHANGED cache
    /\ UNCHANGED <<dir, staging, tiles, pub, index, built, bounds>>

(* lock_working_view of every scene of the run, then the final clean-up.   *)
FinishBuild ==
    /\ pc[Builder] = "lock"
    /\ staging' = [staging EXCEPT ![run[Builder]] = {}]
    /\ Done(Builder)
    /\ UNCHANGED <<dir, tiles, pub, index, cache, built, bounds>>

(* Any step may raise: full disk, unreadable source, a busy lock.          *)
BuildRaises ==
    /\ pc[Builder] \in {"tiles", "manifest", "lock"}
    /\ Raise(Builder, IF pc[Builder] = "tiles" THEN "fail" ELSE "failAgain")
    /\ UNCHANGED <<files, index, built, bounds>>

(* Mutant of HandleError: every failed build is recorded as failed.        *)
HandleErrorAlways ==
    /\ pc[Builder] = "error"
    /\ staging' = [staging EXCEPT ![run[Builder]] = {}]
    /\ BuildGoto("failed")
    /\ UNCHANGED <<dir, tiles, pub, index, cache, built, bounds>>

(* The handler removes the staging directory; the rename is the commit     *)
(* point, so a run that is already visible is left as it is.               *)
HandleError ==
    /\ pc[Builder] = "error"
    /\ staging' = [staging EXCEPT ![run[Builder]] = {}]
    /\ IF dir[run[Builder]] = "complete" THEN Done(Builder) ELSE BuildGoto("failed")
    /\ UNCHANGED <<dir, tiles, pub, index, cache, built, bounds>>

RecordFailure ==
    /\ pc[Builder] = "failed"
    /\ dir' = [dir EXCEPT ![run[Builder]] = "failed"]
    /\ BuildGoto("read")
    /\ UNCHANGED <<staging, tiles, pub, index, cache, built, bounds>>

(* Mutant of CancelBuild: the loop over the tiles is left, not the build.   *)
CancelTilesOnly ==
    /\ pc[Builder] = "tiles"
    /\ BuildGoto("manifest")
    /\ UNCHANGED <<files, index, built, bounds>>

(* A cancel seen between two progress events closes the generator.         *)
CancelBuild ==
    /\ pc[Builder] = "tiles"
    /\ staging' = [staging EXCEPT ![run[Builder]] = {}]
    /\ Done(Builder)
    /\ UNCHANGED <<dir, tiles, pub, index, cache, built, bounds>>

(* cancel_job kills the worker wherever it is; nothing is cleaned up.      *)
KillBuilder ==
    /\ pc[Builder] # "idle"
    /\ kills + restarts < MaxFaults
    /\ TornKills \/ pc[Builder] # "fill"
    /\ kills' = kills + 1
    /\ Done(Builder)
    /\ UNCHANGED <<files, index, built, edits, restarts>>

(* A new backend removes every staging directory; the worker of the old    *)
(* one goes on (cleanup_stale_dataset_run_partials at startup).            *)
RestartBackend ==
    /\ kills + restarts < MaxFaults
    /\ TornKills \/ \A a \in Requests : pc[a] \notin {"fill", "listing"}
    /\ restarts' = restarts + 1
    /\ staging' = [r \in Runs |-> {}]
    /\ pc' = [a \in Actors |-> IF a = Builder THEN pc[a] ELSE "idle"]
    /\ op' = [a \in Actors |-> IF a = Builder THEN op[a] ELSE "none"]
    /\ run' = [a \in Actors |-> IF a = Builder THEN run[a] ELSE NoRun]
    /\ want' = [a \in Actors |-> Draft]
    /\ loc' = [a \in Actors |-> IF a = Builder THEN loc[a] ELSE EmptyIndex]
    /\ UNCHANGED <<dir, tiles, pub, index, cache, built, edits, kills>>

-----------------------------------------------------------------------------
ListStep(a) == ListRead(a) \/ ListScan(a) \/ ListWrite(a)
EditStep(a) == \/ CheckLabel(a) \/ WritePublication(a) \/ RemoveRun(a)
               \/ RepairCache(a)
IndexStep(a) == ReadIndex(a) \/ WriteIndex(a)
BuildStep == \/ WriteTiles \/ WriteManifest \/ PublishRun \/ DropCache \/ CopyCache
             \/ FinishBuild \/ HandleError \/ RecordFailure

Next ==
    \/ \E a \in Requests : AskList(a) \/ ListStep(a)
    \/ \E a \in Editors : EditStep(a)
    \/ \E a \in Actors : IndexStep(a)
    \/ \E a \in Editors, r \in Runs, typed \in Labels \union {NoLabel},
          status \in {"draft", "published", "deprecated"} : AskPublish(a, r, status, typed)
    \/ \E a \in Editors, r \in Runs, force \in BOOLEAN : AskDelete(a, r, force)
    \/ StartBuild \/ BuildStep \/ BuildRaises \/ CancelBuild
    \/ KillBuilder \/ RestartBackend

Spec == Init /\ [][Next]_vars

(* A request and a build that have begun go on, and the list of runs is    *)
(* asked for again and again: the view of the data sets reloads it.        *)
Fairness ==
    /\ \A a \in Requests : WF_vars(ListStep(a)) /\ WF_vars(AskList(a))
    /\ \A a \in Editors : WF_vars(EditStep(a))
    /\ \A a \in Actors : WF_vars(IndexStep(a))
    /\ WF_vars(BuildStep)

FairSpec == Spec /\ Fairness

-----------------------------------------------------------------------------
(* Properties.                                                             *)

(* The rename of a finished build is its commit point: whatever fails or   *)
(* is killed afterwards, and whoever rewrites the index, a complete run is *)
(* never turned into a failed one (the handlers of _generate_events and    *)
(* generate).                                                              *)
CommitIsFinal ==
    [][\A r \in Runs : dir[r] = "complete" => dir'[r] # "failed"]_dir

(* No two published runs share a label, although each publication compares *)
(* its label with an index that the build and the listings rewrite behind  *)
(* its back (set_dataset_run_publication; one editor at a time).           *)
PublishedLabelsDiffer ==
    \A r, s \in Runs :
        /\ r # s /\ pub[r].status = "published" /\ pub[s].status = "published"
        /\ dir[r] # "none" /\ dir[s] # "none"
        => pub[r].label # pub[s].label

(* A run that exists does not stay out of the index, and a listed run does *)
(* not go on showing an old publication: however many rewrites lose each   *)
(* other's changes, a later listing repairs it (list_dataset_runs).        *)
IndexCatchesUp ==
    \A r \in Runs :
        []<>(\/ dir[r] = "none"
             \/ index # Torn /\ index.entry[r] # "none" /\ index.shown[r] = pub[r])

(* A run is exposed whole, with the tiles of its build, however its build  *)
(* fails, is cancelled or killed (publish_dataset_run) - unless a restarted *)
(* backend has removed the staging directory of a live worker.             *)
CompleteHasTiles ==
    restarts = 0 => \A r \in Runs : dir[r] = "complete" => tiles[r]
=============================================================================
