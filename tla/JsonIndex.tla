------------------------------ MODULE JsonIndex ------------------------------
(***************************************************************************)
(* JSON Index v2: the materialised view of a project's scene documents     *)
(* (backend/services/json_index and its callers in backend/db/storage.py). *)
(*                                                                         *)
(* The source is one scene document and one annotation document per scene. *)
(* The view is two files, the scenes index and the annotation summary,     *)
(* each stamped with the project revision it describes; index_state.json   *)
(* says whether the view may be served.  A mutation marks the state dirty, *)
(* writes its document, and then either advances the revision (leaving the *)
(* view to a rebuild) or patches the view by a delta.  A query serves a    *)
(* ready view and otherwise rebuilds it by an unlocked scan.               *)
(*                                                                         *)
(* One action is one file write, or one locked section that writes one     *)
(* file; ilock is held where a section writes several.  A document is a    *)
(* value, scene.json and its manifest count as one, and the row of a scene *)
(* in a view file is the values it was projected from.                     *)
(***************************************************************************)
EXTENDS Integers, FiniteSets

CONSTANTS
    Scenes,         \* scene ids
    Values,         \* contents of a document
    Empty,          \* the content of a missing annotation document
    Absent,         \* a scene that does not exist
    Writers,        \* threads that mutate the source
    Readers,        \* threads that query the index
    Nobody,         \* a lock is free, no build is under way
    Kinds,          \* kinds of mutation considered
    MaxAttempts,    \* attempts of one rebuild
    MaxMutations,   \* bound on mutations
    MaxCrashes,     \* bound on crashes of writers
    BuildFaults     \* may a rebuild raise, or its process die?

ASSUME DocumentAssumption ==
    /\ Scenes # {}
    /\ Empty \in Values
    /\ Absent \notin Values \union (Values \X Values)

ASSUME ActorAssumption ==
    /\ Nobody \notin Writers \union Readers
    /\ Writers \intersect Readers = {}
    /\ Kinds \subseteq {"scene", "annotations", "batch", "delete"}

ASSUME BoundAssumption ==
    /\ MaxAttempts \in Nat \ {0}
    /\ MaxMutations \in Nat
    /\ MaxCrashes \in Nat
    /\ BuildFaults \in BOOLEAN

VARIABLES
    scene, annot,          \* the source documents
    revision,              \* project_revision.json
    state,                 \* index_state.json
    idx, summary,          \* the two files of the view
    ilock, rlock,          \* project_index_lock, project_rebuild_lock
    wpc, op,               \* writers: place, and the mutation they perform
    rpc, seen, todo, draft, tries, answer, touched,   \* readers
    mutations, crashes

sourceVars == <<scene, annot>>
viewVars == <<idx, summary>>
writerVars == <<wpc, op>>
readerVars == <<rpc, seen, todo, draft, tries, answer>>
vars == <<sourceVars, revision, state, viewVars, ilock, rlock, writerVars,
          readerVars, touched, mutations, crashes>>

SceneDocs == Values \union {Absent}
Rows == (Values \X Values) \union {Absent}
Revisions == Nat \union {-1}

IndexFile == [rev: Revisions, rows: [Scenes -> SceneDocs]]
SummaryFile == [rev: Revisions, rows: [Scenes -> Rows]]
NoIndex == [rev |-> -1, rows |-> [s \in Scenes |-> Absent]]
NoSummary == [rev |-> -1, rows |-> [s \in Scenes |-> Absent]]

(* pending: writers whose token is listed; orphans: is a token of a dead   *)
(* mutation listed?  build: the reader whose build token is stored.        *)
State == [status: {"none", "dirty", "building", "ready"}, rev: Revisions,
          pending: SUBSET Writers, orphans: BOOLEAN, build: Readers \union {Nobody}]

WriterPC == {"idle", "begin", "write", "delta", "index", "summary", "revision",
             "dirty", "ready", "plain", "close"}
Op == [kind: Kinds \union {"none"}, scene: Scenes, before: SceneDocs, row: Rows]
NoOp == [kind |-> "none", scene |-> CHOOSE s \in Scenes : TRUE,
         before |-> Absent, row |-> Absent]

ReaderPC == {"idle", "state", "doc", "verify", "queue", "peek", "peekdocs",
             "start", "scan", "index", "summary", "ready", "failed", "answered"}
Draft == [index: [Scenes -> SceneDocs], summary: [Scenes -> Rows]]
NoDraft == [index |-> NoIndex.rows, summary |-> NoSummary.rows]
Reads == {"index", "summary"} \X Scenes

TypeOK ==
    /\ scene \in [Scenes -> SceneDocs]
    /\ annot \in [Scenes -> Values]
    /\ revision \in Nat
    /\ state \in State
    /\ idx \in IndexFile
    /\ summary \in SummaryFile
    /\ ilock \in Writers \union Readers \union {Nobody}
    /\ rlock \in Readers \union {Nobody}
    /\ wpc \in [Writers -> WriterPC]
    /\ op \in [Writers -> Op]
    /\ rpc \in [Readers -> ReaderPC]
    /\ seen \in [Readers -> Nat]
    /\ todo \in [Readers -> SUBSET Reads]
    /\ draft \in [Readers -> Draft]
    /\ tries \in [Readers -> 0..MaxAttempts]
    /\ answer \in [Readers -> IndexFile]
    /\ touched \in [Readers -> SUBSET Scenes]
    /\ mutations \in 0..MaxMutations
    /\ crashes \in 0..MaxCrashes

(* A project that has scenes but has never been indexed.                   *)
Init ==
    /\ scene = [s \in Scenes |-> Empty]
    /\ annot = [s \in Scenes |-> Empty]
    /\ revision = 0
    /\ state = [status |-> "none", rev |-> -1, pending |-> {}, orphans |-> FALSE,
                build |-> Nobody]
    /\ idx = NoIndex
    /\ summary = NoSummary
    /\ ilock = Nobody
    /\ rlock = Nobody
    /\ wpc = [w \in Writers |-> "idle"]
    /\ op = [w \in Writers |-> NoOp]
    /\ rpc = [r \in Readers |-> "idle"]
    /\ seen = [r \in Readers |-> 0]
    /\ todo = [r \in Readers |-> {}]
    /\ draft = [r \in Readers |-> NoDraft]
    /\ tries = [r \in Readers |-> 0]
    /\ answer = [r \in Readers |-> NoIndex]
    /\ touched = [r \in Readers |-> {}]
    /\ mutations = 0
    /\ crashes = 0

-----------------------------------------------------------------------------
(* The projection of a scene: what a full scan writes for it.              *)
Row(s) == IF scene[s] = Absent THEN Absent ELSE <<scene[s], annot[s]>>

WriterGoto(w, place) == wpc' = [wpc EXCEPT ![w] = place]
WriterDone(w) == WriterGoto(w, "idle") /\ op' = [op EXCEPT ![w] = NoOp]
ReaderGoto(r, place) == rpc' = [rpc EXCEPT ![r] = place]

(* A mutation that wrote its document and did not finish yet.              *)
InFlight(w) ==
    wpc[w] \in {"delta", "index", "summary", "revision", "dirty", "ready", "plain", "close"}

-----------------------------------------------------------------------------
(* Mutations: save_scene_json and mutate_scene_json ("scene",              *)
(* "annotations"), track_project_mutation around unlocked direct writes    *)
(* ("batch") and delete_scene_data ("delete").                             *)

(* The per-document locks; a deletion excludes deletions of that scene     *)
(* only, and a batch excludes nobody.                                      *)
DocumentFree(kind, s) ==
    kind = "batch" \/ \A w \in Writers : ~(op[w].kind = kind /\ op[w].scene = s)

(* The content a single-document mutation finds, kept for its delta.       *)
Before(kind, s) == CASE kind = "scene"       -> scene[s]
                     [] kind = "annotations" -> annot[s]
                     [] OTHER                -> Absent

OpenDocument(w, kind, s) ==
    /\ wpc[w] = "idle"
    /\ mutations < MaxMutations
    /\ DocumentFree(kind, s)
    /\ kind = "delete" => scene[s] # Absent
    /\ op' = [op EXCEPT ![w] =
                [kind |-> kind, scene |-> s, row |-> Absent, before |-> Before(kind, s)]]
    /\ WriterGoto(w, "begin")
    /\ mutations' = mutations + 1
    /\ UNCHANGED <<sourceVars, revision, state, viewVars, ilock, rlock, readerVars,
                   touched, crashes>>

(* begin_project_mutation.                                                 *)
BeginMutation(w) ==
    /\ wpc[w] = "begin"
    /\ ilock = Nobody
    /\ state' = [state EXCEPT !.status = "dirty", !.rev = revision,
                              !.pending = @ \union {w}, !.build = Nobody]
    /\ WriterGoto(w, "write")
    /\ UNCHANGED <<sourceVars, revision, viewVars, ilock, rlock, op, readerVars,
                   touched, mutations, crashes>>

(* The atomic replacement of the document, or the renamed scene directory. *)
WriteSource(w) ==
    /\ wpc[w] = "write"
    /\ LET s == op[w].scene
           kind == op[w].kind
       IN /\ \E v \in Values :
               /\ scene' = CASE kind = "scene"  -> [scene EXCEPT ![s] = v]
                             [] kind = "delete" -> [scene EXCEPT ![s] = Absent]
                             [] OTHER           -> scene
               /\ annot' = CASE kind \in {"annotations", "batch"} -> [annot EXCEPT ![s] = v]
                             [] kind = "delete" -> [annot EXCEPT ![s] = Empty]
                             [] OTHER           -> annot
               /\ op' = [op EXCEPT ![w].row = IF kind = "delete" THEN Absent ELSE <<v, v>>]
          /\ WriterGoto(w, IF kind \in {"scene", "annotations"} THEN "delta" ELSE "plain")
          /\ touched' = [r \in Readers |-> touched[r] \union {s}]
    /\ UNCHANGED <<revision, state, viewVars, ilock, rlock, readerVars, mutations, crashes>>

(* Mutant of DeltaApplies: no revision is compared.                         *)
DeltaOfAnyRevision(w) ==
    LET s == op[w].scene
    IN /\ state.status = "dirty" /\ state.pending = {w}
       /\ scene[s] # Absent /\ summary.rows[s] # Absent

(* The checks of try_complete_single_scene_delta: this mutation is the     *)
(* only pending one, both files are current, and their rows for the scene  *)
(* are those of the document before the write.                             *)
DeltaApplies(w) ==
    LET s == op[w].scene
    IN /\ state.status = "dirty" /\ state.rev = revision
       /\ state.pending = {w} /\ ~state.orphans
       /\ idx.rev = revision /\ summary.rev = revision
       /\ scene[s] # Absent /\ summary.rows[s] # Absent
       /\ IF op[w].kind = "annotations"
          THEN summary.rows[s] = <<scene[s], op[w].before>> /\ idx.rows[s] = scene[s]
          ELSE op[w].before # Absent /\ idx.rows[s] = op[w].before

(* An annotation delta takes the annotations from the call, a scene delta  *)
(* reads the scene again and keeps the annotation part of its row.         *)
StartDelta(w) ==
    /\ wpc[w] = "delta"
    /\ ilock = Nobody
    /\ DeltaApplies(w)
    /\ op' = [op EXCEPT ![w].row =
                <<scene[op[w].scene],
                  IF op[w].kind = "annotations" THEN @[2] ELSE summary.rows[op[w].scene][2]>>]
    /\ ilock' = w
    /\ WriterGoto(w, "index")
    /\ UNCHANGED <<sourceVars, revision, state, viewVars, rlock, readerVars, touched,
                   mutations, crashes>>

(* A delta that does not apply, or is switched off, or starts from a stale *)
(* annotation sidecar (delta_safe), is left to complete_project_mutation.  *)
RefuseDelta(w) ==
    /\ wpc[w] = "delta"
    /\ ilock = Nobody
    /\ WriterGoto(w, "plain")
    /\ UNCHANGED <<sourceVars, revision, state, viewVars, ilock, rlock, op, readerVars,
                   touched, mutations, crashes>>

DeltaWriteIndex(w) ==
    /\ wpc[w] = "index"
    /\ idx' = [rev |-> revision + 1, rows |-> [idx.rows EXCEPT ![op[w].scene] = op[w].row[1]]]
    /\ WriterGoto(w, "summary")
    /\ UNCHANGED <<sourceVars, revision, state, summary, ilock, rlock, op, readerVars,
                   touched, mutations, crashes>>

(* Mutant of DeltaWriteSummary: the summary keeps its revision.             *)
DeltaUnstamped(w) ==
    /\ wpc[w] = "summary"
    /\ summary' = [summary EXCEPT !.rows[op[w].scene] = op[w].row]
    /\ WriterGoto(w, "revision")
    /\ UNCHANGED <<sourceVars, revision, state, idx, ilock, rlock, op, readerVars,
                   touched, mutations, crashes>>

DeltaWriteSummary(w) ==
    /\ wpc[w] = "summary"
    /\ summary' = [rev |-> revision + 1,
                   rows |-> [summary.rows EXCEPT ![op[w].scene] = op[w].row]]
    /\ WriterGoto(w, "revision")
    /\ UNCHANGED <<sourceVars, revision, state, idx, ilock, rlock, op, readerVars,
                   touched, mutations, crashes>>

DeltaWriteRevision(w) ==
    /\ wpc[w] = "revision"
    /\ revision' = revision + 1
    /\ WriterGoto(w, "dirty")
    /\ UNCHANGED <<sourceVars, state, viewVars, ilock, rlock, op, readerVars,
                   touched, mutations, crashes>>

DeltaWriteDirty(w) ==
    /\ wpc[w] = "dirty"
    /\ state' = [status |-> "dirty", rev |-> revision, pending |-> {}, orphans |-> FALSE,
                 build |-> Nobody]
    /\ WriterGoto(w, "ready")
    /\ UNCHANGED <<sourceVars, revision, viewVars, ilock, rlock, op, readerVars,
                   touched, mutations, crashes>>

DeltaWriteReady(w) ==
    /\ wpc[w] = "ready"
    /\ state' = [state EXCEPT !.status = "ready"]
    /\ ilock' = Nobody
    /\ WriterDone(w)
    /\ UNCHANGED <<sourceVars, revision, viewVars, rlock, readerVars, touched,
                   mutations, crashes>>

(* complete_project_mutation: the revision, then the state.                *)
CompleteRevision(w) ==
    /\ wpc[w] = "plain"
    /\ ilock = Nobody
    /\ ilock' = w
    /\ revision' = revision + 1
    /\ WriterGoto(w, "close")
    /\ UNCHANGED <<sourceVars, state, viewVars, rlock, op, readerVars, touched,
                   mutations, crashes>>

CompleteState(w) ==
    /\ wpc[w] = "close"
    /\ state' = [state EXCEPT !.status = "dirty", !.rev = revision,
                              !.pending = @ \ {w}, !.build = Nobody]
    /\ ilock' = Nobody
    /\ WriterDone(w)
    /\ UNCHANGED <<sourceVars, revision, viewVars, rlock, readerVars, touched,
                   mutations, crashes>>

(* The mutation raises, or its process dies: its locks are released, its   *)
(* token stays where it is listed.                                         *)
WriterCrash(w) ==
    /\ crashes < MaxCrashes
    /\ wpc[w] # "idle"
    /\ crashes' = crashes + 1
    /\ ilock' = IF ilock = w THEN Nobody ELSE ilock
    /\ state' = [state EXCEPT !.pending = @ \ {w}, !.orphans = @ \/ w \in state.pending]
    /\ WriterDone(w)
    /\ UNCHANGED <<sourceVars, revision, viewVars, rlock, readerVars, touched, mutations>>

-----------------------------------------------------------------------------
(* Queries: get_scenes_index.                                              *)

(* The state is served for revision n.                                     *)
Ready(n) == state.status = "ready" /\ state.rev = n

AskRevision(r) ==
    /\ rpc[r] \in {"idle", "answered"}
    /\ seen' = [seen EXCEPT ![r] = revision]
    /\ touched' = [touched EXCEPT ![r] = {op[w].scene : w \in {x \in Writers : InFlight(x)}}]
    /\ answer' = [answer EXCEPT ![r] = NoIndex]
    /\ ReaderGoto(r, "state")
    /\ UNCHANGED <<sourceVars, revision, state, viewVars, ilock, rlock, writerVars,
                   todo, draft, tries, mutations, crashes>>

AskState(r) ==
    /\ rpc[r] = "state"
    /\ ReaderGoto(r, IF Ready(seen[r]) THEN "doc" ELSE "queue")
    /\ UNCHANGED <<sourceVars, revision, state, viewVars, ilock, rlock, writerVars,
                   seen, todo, draft, tries, answer, touched, mutations, crashes>>

ReadDocument(r) ==
    /\ rpc[r] = "doc"
    /\ answer' = [answer EXCEPT ![r] = idx]
    /\ ReaderGoto(r, "verify")
    /\ UNCHANGED <<sourceVars, revision, state, viewVars, ilock, rlock, writerVars,
                   seen, todo, draft, tries, touched, mutations, crashes>>

VerifyDocument(r) ==
    /\ rpc[r] = "verify"
    /\ ReaderGoto(r, IF answer[r].rev = revision THEN "answered" ELSE "queue")
    /\ UNCHANGED <<sourceVars, revision, state, viewVars, ilock, rlock, writerVars,
                   seen, todo, draft, tries, answer, touched, mutations, crashes>>

(* rebuild_project_indexes: one rebuild at a time; a view that another     *)
(* reader has rebuilt meanwhile is taken as it is (_ready_scenes_index).   *)
EnterRebuild(r) ==
    /\ rpc[r] = "queue"
    /\ rlock = Nobody
    /\ rlock' = r
    /\ seen' = [seen EXCEPT ![r] = revision]
    /\ tries' = [tries EXCEPT ![r] = 0]
    /\ ReaderGoto(r, "peek")
    /\ UNCHANGED <<sourceVars, revision, state, viewVars, ilock, writerVars,
                   todo, draft, answer, touched, mutations, crashes>>

PeekState(r) ==
    /\ rpc[r] = "peek"
    /\ ReaderGoto(r, IF Ready(seen[r]) THEN "peekdocs" ELSE "start")
    /\ UNCHANGED <<sourceVars, revision, state, viewVars, ilock, rlock, writerVars,
                   seen, todo, draft, tries, answer, touched, mutations, crashes>>

PeekDocuments(r) ==
    /\ rpc[r] = "peekdocs"
    /\ IF idx.rev = seen[r] /\ summary.rev = seen[r]
       THEN /\ answer' = [answer EXCEPT ![r] = idx]
            /\ rlock' = Nobody
            /\ ReaderGoto(r, "answered")
       ELSE /\ ReaderGoto(r, "start")
            /\ UNCHANGED <<answer, rlock>>
    /\ UNCHANGED <<sourceVars, revision, state, viewVars, ilock, writerVars,
                   seen, todo, draft, tries, touched, mutations, crashes>>

(* Mutant of StartBuild: a further attempt publishes the first projection. *)
StartBuildOnce(r) ==
    /\ rpc[r] = "start"
    /\ ilock = Nobody
    /\ seen' = [seen EXCEPT ![r] = revision]
    /\ state' = [state EXCEPT !.status = "building", !.rev = revision, !.build = r]
    /\ tries' = [tries EXCEPT ![r] = @ + 1]
    /\ todo' = [todo EXCEPT ![r] = IF tries[r] = 0 THEN Reads ELSE {}]
    /\ ReaderGoto(r, "scan")
    /\ UNCHANGED <<sourceVars, revision, viewVars, ilock, rlock, writerVars,
                   draft, answer, touched, mutations, crashes>>

StartBuild(r) ==
    /\ rpc[r] = "start"
    /\ ilock = Nobody
    /\ seen' = [seen EXCEPT ![r] = revision]
    /\ state' = [state EXCEPT !.status = "building", !.rev = revision, !.build = r]
    /\ tries' = [tries EXCEPT ![r] = @ + 1]
    /\ todo' = [todo EXCEPT ![r] = Reads]
    /\ draft' = [draft EXCEPT ![r] = NoDraft]
    /\ ReaderGoto(r, "scan")
    /\ UNCHANGED <<sourceVars, revision, viewVars, ilock, rlock, writerVars,
                   answer, touched, mutations, crashes>>

(* build_project_projection reads the source without a lock: first every   *)
(* scene for the index, then every scene again for the summary.            *)
ScanScene(r, s) ==
    /\ rpc[r] = "scan"
    /\ \/ /\ <<"index", s>> \in todo[r]
          /\ todo' = [todo EXCEPT ![r] = @ \ {<<"index", s>>}]
          /\ draft' = [draft EXCEPT ![r].index[s] = scene[s]]
       \/ /\ <<"summary", s>> \in todo[r]
          /\ \A x \in Scenes : <<"index", x>> \notin todo[r]
          /\ todo' = [todo EXCEPT ![r] = @ \ {<<"summary", s>>}]
          /\ draft' = [draft EXCEPT ![r].summary[s] = Row(s)]
    /\ UNCHANGED <<sourceVars, revision, state, viewVars, ilock, rlock, writerVars,
                   rpc, seen, tries, answer, touched, mutations, crashes>>

(* Nothing began or completed since the build started.                     *)
Unchanged(r) == revision = seen[r] /\ state.build = r /\ state.status = "building"

StartPublish(r) ==
    /\ rpc[r] = "scan" /\ todo[r] = {}
    /\ ilock = Nobody
    /\ Unchanged(r)
    /\ ilock' = r
    /\ ReaderGoto(r, "index")
    /\ UNCHANGED <<sourceVars, revision, state, viewVars, rlock, writerVars,
                   seen, todo, draft, tries, answer, touched, mutations, crashes>>

(* Mutant of BuildOvertaken: the attempts are not counted.                 *)
RetryForever(r) ==
    /\ rpc[r] = "scan" /\ todo[r] = {}
    /\ ilock = Nobody
    /\ ~Unchanged(r)
    /\ ReaderGoto(r, "start")
    /\ UNCHANGED <<sourceVars, revision, state, viewVars, ilock, rlock, writerVars,
                   seen, todo, draft, tries, answer, touched, mutations, crashes>>

(* Try again, or raise IndexChangedDuringBuild after the last attempt.     *)
BuildOvertaken(r) ==
    /\ rpc[r] = "scan" /\ todo[r] = {}
    /\ ilock = Nobody
    /\ ~Unchanged(r)
    /\ \/ /\ tries[r] < MaxAttempts
          /\ ReaderGoto(r, "start")
          /\ UNCHANGED rlock
       \/ /\ tries[r] >= MaxAttempts
          /\ ReaderGoto(r, "idle")
          /\ rlock' = Nobody
    /\ UNCHANGED <<sourceVars, revision, state, viewVars, ilock, writerVars,
                   seen, todo, draft, tries, answer, touched, mutations, crashes>>

PublishIndex(r) ==
    /\ rpc[r] = "index"
    /\ idx' = [rev |-> seen[r], rows |-> draft[r].index]
    /\ ReaderGoto(r, "summary")
    /\ UNCHANGED <<sourceVars, revision, state, summary, ilock, rlock, writerVars,
                   seen, todo, draft, tries, answer, touched, mutations, crashes>>

PublishSummary(r) ==
    /\ rpc[r] = "summary"
    /\ summary' = [rev |-> seen[r], rows |-> draft[r].summary]
    /\ ReaderGoto(r, "ready")
    /\ UNCHANGED <<sourceVars, revision, state, idx, ilock, rlock, writerVars,
                   seen, todo, draft, tries, answer, touched, mutations, crashes>>

(* Mutant of PublishReady: the view is published, its ready state is not.   *)
PublishUnready(r) ==
    /\ rpc[r] = "ready"
    /\ ilock' = Nobody
    /\ rlock' = Nobody
    /\ answer' = [answer EXCEPT ![r] = idx]
    /\ ReaderGoto(r, "answered")
    /\ UNCHANGED <<sourceVars, revision, state, viewVars, writerVars, seen, todo, draft,
                   tries, touched, mutations, crashes>>

(* The ready state lists no pending mutation any more.                     *)
PublishReady(r) ==
    /\ rpc[r] = "ready"
    /\ state' = [status |-> "ready", rev |-> seen[r], pending |-> {}, orphans |-> FALSE,
                 build |-> Nobody]
    /\ ilock' = Nobody
    /\ rlock' = Nobody
    /\ answer' = [answer EXCEPT ![r] = idx]
    /\ ReaderGoto(r, "answered")
    /\ UNCHANGED <<sourceVars, revision, viewVars, writerVars, seen, todo, draft, tries,
                   touched, mutations, crashes>>

(* An exception of the scan or of the publication ...                      *)
BuildRaises(r) ==
    /\ BuildFaults
    /\ rpc[r] \in {"scan", "index", "summary", "ready"}
    /\ ilock' = IF ilock = r THEN Nobody ELSE ilock
    /\ ReaderGoto(r, "failed")
    /\ UNCHANGED <<sourceVars, revision, state, viewVars, rlock, writerVars,
                   seen, todo, draft, tries, answer, touched, mutations, crashes>>

(* ... is recorded, unless a mutation has replaced the state meanwhile.    *)
SetFailedState(r) ==
    /\ rpc[r] = "failed"
    /\ ilock = Nobody
    /\ state' = IF state.build = r
                THEN [state EXCEPT !.status = "dirty", !.rev = seen[r], !.build = Nobody]
                ELSE state
    /\ rlock' = Nobody
    /\ ReaderGoto(r, "idle")
    /\ UNCHANGED <<sourceVars, revision, viewVars, ilock, writerVars,
                   seen, todo, draft, tries, answer, touched, mutations, crashes>>

ReaderCrash(r) ==
    /\ BuildFaults
    /\ rpc[r] \notin {"idle", "answered"}
    /\ ilock' = IF ilock = r THEN Nobody ELSE ilock
    /\ rlock' = IF rlock = r THEN Nobody ELSE rlock
    /\ ReaderGoto(r, "idle")
    /\ UNCHANGED <<sourceVars, revision, state, viewVars, writerVars,
                   seen, todo, draft, tries, answer, touched, mutations, crashes>>

-----------------------------------------------------------------------------
WriterStep(w) ==
    \/ BeginMutation(w) \/ WriteSource(w) \/ StartDelta(w) \/ RefuseDelta(w)
    \/ DeltaWriteIndex(w) \/ DeltaWriteSummary(w) \/ DeltaWriteRevision(w)
    \/ DeltaWriteDirty(w) \/ DeltaWriteReady(w)
    \/ CompleteRevision(w) \/ CompleteState(w)

ReaderStep(r) ==
    \/ AskState(r) \/ ReadDocument(r) \/ VerifyDocument(r)
    \/ EnterRebuild(r) \/ PeekState(r) \/ PeekDocuments(r) \/ StartBuild(r)
    \/ \E s \in Scenes : ScanScene(r, s)
    \/ StartPublish(r) \/ BuildOvertaken(r)
    \/ PublishIndex(r) \/ PublishSummary(r) \/ PublishReady(r) \/ SetFailedState(r)

Next ==
    \/ \E w \in Writers, kind \in Kinds, s \in Scenes : OpenDocument(w, kind, s)
    \/ \E w \in Writers : WriterStep(w) \/ WriterCrash(w)
    \/ \E r \in Readers : AskRevision(r) \/ ReaderStep(r)
    \/ \E r \in Readers : BuildRaises(r) \/ ReaderCrash(r)

Spec == Init /\ [][Next]_vars

(* A mutation and a query that began keep running; the readers of the      *)
(* index keep asking (the scene list polls it).  The locks are polled      *)
(* every 20 ms, so a thread that waits for one gets it in the end.         *)
Fairness ==
    /\ \A w \in Writers : SF_vars(WriterStep(w))
    /\ \A r \in Readers : SF_vars(ReaderStep(r)) /\ WF_vars(AskRevision(r))

FairSpec == Spec /\ Fairness

-----------------------------------------------------------------------------
(* Properties.                                                             *)

Current == Ready(revision)

(* A view that is served agrees with the source, scene by scene, except    *)
(* where a mutation has written its document and has not completed: it is  *)
(* never silently stale (the dirty-marker protocol of project_revision.py, *)
(* the guards of delta.py and of the publication in rebuild.py).           *)
NeverSilentlyStale ==
    Current => \A s \in Scenes :
        \/ idx.rows[s] = scene[s] /\ summary.rows[s] = Row(s)
        \/ \E w \in Writers : InFlight(w) /\ op[w].scene = s

(* The same as long as no mutation has died half-way.                      *)
StaleOnlyAfterCrash == crashes = 0 => NeverSilentlyStale

(* Both files of a served view describe the current revision: no crash or  *)
(* failure between the writes of a delta, a completion or a publication    *)
(* leaves a half-written view that passes for ready.                       *)
FilesAgree == Current => idx.rev = revision /\ summary.rev = revision

(* A query answers with every change that completed before it began        *)
(* (get_scenes_index): a row of the answer differs from the source only    *)
(* for a scene that was being changed during the query.                    *)
AnswersFresh ==
    \A r \in Readers : rpc[r] = "answered" =>
        \A s \in Scenes \ touched[r] : answer[r].rows[s] = scene[s]

(* When mutations cease, queries bring the view up to the source and it    *)
(* stays there: no dirty marker is lost and no rebuild gives up for good.  *)
Converges ==
    <>[](Current /\ idx.rows = scene /\ summary.rows = [s \in Scenes |-> Row(s)])
=============================================================================
