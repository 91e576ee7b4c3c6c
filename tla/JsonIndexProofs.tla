-------------------------- MODULE JsonIndexProofs --------------------------
(* Proofs about JsonIndex, for any number of scenes, writers and readers,  *)
(* with crashes of writers and failing rebuilds allowed.                   *)
EXTENDS JsonIndex, TLAPS

(* What TypeOK needs to be inductive: a writer on its way to a delta       *)
(* carries the row it wrote, and a rebuild that may start has attempts.    *)
RowAtHand ==
    \A w \in Writers : wpc[w] \in {"delta", "index"} => op[w].row \in Values \X Values

AttemptsLeft ==
    \A r \in Readers : rpc[r] \in {"peek", "peekdocs", "start"} => tries[r] < MaxAttempts

Typed == TypeOK /\ RowAtHand /\ AttemptsLeft

(* The record of a writer without a mutation is well typed.                *)
LEMMA NoOpTyped == NoOp \in Op
  BY DocumentAssumption DEF NoOp, Op, SceneDocs, Rows

(* A writer may put any row into its record.                               *)
LEMMA RowUpdate ==
    ASSUME NEW f \in [Writers -> Op], NEW w \in Writers, NEW row \in Rows
    PROVE  [f EXCEPT ![w].row = row] \in [Writers -> Op]
  BY DEF Op

(* A project that was never indexed is well typed.                         *)
LEMMA InitTyped == Init => Typed
  BY DocumentAssumption, ActorAssumption, BoundAssumption, NoOpTyped
     DEF Init, Typed, TypeOK, RowAtHand, AttemptsLeft, SceneDocs, Rows, Revisions,
         IndexFile, SummaryFile, NoIndex, NoSummary, State, WriterPC, ReaderPC, Draft,
         NoDraft, Reads

(* The steps of a writer keep the types; one step per action.              *)
LEMMA WriterTyped ==
    ASSUME Typed, NEW w \in Writers, WriterStep(w)
    PROVE  Typed'
<1> USE DocumentAssumption, ActorAssumption, BoundAssumption, NoOpTyped
    DEF Typed, TypeOK, RowAtHand, AttemptsLeft, SceneDocs, Rows, Revisions, IndexFile,
        SummaryFile, State, WriterPC, ReaderPC, sourceVars, viewVars, readerVars,
        WriterGoto, WriterDone
<1>1. CASE BeginMutation(w)
  BY <1>1 DEF BeginMutation
<1>2. CASE WriteSource(w)
  <2> DEFINE s == op[w].scene
             kind == op[w].kind
             place == IF kind \in {"scene", "annotations"} THEN "delta" ELSE "plain"
  <2>1. PICK v \in Values :
           /\ scene' = CASE kind = "scene"  -> [scene EXCEPT ![s] = v]
                         [] kind = "delete" -> [scene EXCEPT ![s] = Absent]
                         [] OTHER           -> scene
           /\ annot' = CASE kind \in {"annotations", "batch"} -> [annot EXCEPT ![s] = v]
                         [] kind = "delete" -> [annot EXCEPT ![s] = Empty]
                         [] OTHER           -> annot
           /\ op' = [op EXCEPT ![w].row = IF kind = "delete" THEN Absent ELSE <<v, v>>]
    BY <1>2 DEF WriteSource
  <2>2. s \in Scenes
    BY DEF Op
  <2>3. scene' \in [Scenes -> SceneDocs] /\ annot' \in [Scenes -> Values]
    BY <2>1, <2>2
  <2>4. op' \in [Writers -> Op]
    <3> DEFINE row == IF kind = "delete" THEN Absent ELSE <<v, v>>
    <3>1. row \in Rows
      OBVIOUS
    <3> HIDE DEF row
    <3>2. op' = [op EXCEPT ![w].row = row]
      BY <2>1 DEF row
    <3> HIDE DEF Rows
    <3>3. QED
      BY <3>1, <3>2, RowUpdate
  <2>5. wpc' = [wpc EXCEPT ![w] = place] /\ place \in WriterPC
    BY <1>2 DEF WriteSource
  <2>6. touched' \in [Readers -> SUBSET Scenes]
    BY <1>2, <2>2 DEF WriteSource
  <2>7. RowAtHand'
    <3>1. ASSUME kind \in {"scene", "annotations"}
          PROVE  op'[w].row = <<v, v>>
      BY <2>1, <3>1 DEF Op
    <3>2. \A x \in Writers \ {w} : op'[x] = op[x] /\ wpc'[x] = wpc[x]
      BY <2>1, <2>5
    <3>3. <<v, v>> \in Values \X Values
      OBVIOUS
    <3>4. wpc'[w] \in {"delta", "index"} => op'[w].row \in Values \X Values
      BY <2>5, <3>1, <3>3
    <3>5. \A x \in Writers \ {w} :
             wpc'[x] \in {"delta", "index"} => op'[x].row \in Values \X Values
      BY <3>2
    <3>6. QED
      BY <3>4, <3>5
  <2>8. /\ UNCHANGED <<revision, state, idx, summary, ilock, rlock, rpc, seen, todo, draft,
                       tries, answer, mutations, crashes>>
    BY <1>2 DEF WriteSource
  <2>9. wpc' \in [Writers -> WriterPC]
    BY <2>5
  <2> HIDE DEF place
  <2>10. QED
    BY <2>3, <2>4, <2>6, <2>7, <2>8, <2>9
<1>3. CASE StartDelta(w)
  <2> DEFINE s == op[w].scene
             old == IF op[w].kind = "annotations" THEN op[w].row[2] ELSE summary.rows[s][2]
  <2>1. s \in Scenes /\ op[w].row \in Values \X Values
    BY <1>3 DEF StartDelta, Op
  <2>2. scene[s] \in Values /\ summary.rows[s] \in Values \X Values
    BY <1>3, <2>1 DEF StartDelta, DeltaApplies
  <2>3. <<scene[s], old>> \in Values \X Values
    BY <2>1, <2>2
  <2>4. op' = [op EXCEPT ![w].row = <<scene[s], old>>]
    BY <1>3, <2>1 DEF StartDelta, Op
  <2> HIDE DEF old
  <2> DEFINE row == <<scene[s], old>>
  <2>5. op' \in [Writers -> Op] /\ op'[w].row \in Values \X Values
    <3>1. row \in Values \X Values /\ row \in Rows
      BY <2>3
    <3> HIDE DEF row, Rows
    <3>2. op' \in [Writers -> Op]
      BY <2>4, <3>1, RowUpdate DEF row
    <3>3. op'[w].row = row
      BY <2>4 DEF Op, row
    <3>4. QED
      BY <3>1, <3>2, <3>3
  <2> HIDE DEF row
  <2>6. \A x \in Writers \ {w} : op'[x] = op[x]
    BY <2>4
  <2>7. QED
    BY <1>3, <2>5, <2>6 DEF StartDelta
<1>4. CASE RefuseDelta(w)
  BY <1>4 DEF RefuseDelta
<1>5. CASE DeltaWriteIndex(w)
  BY <1>5 DEF DeltaWriteIndex, Op
<1>6. CASE DeltaWriteSummary(w)
  BY <1>6 DEF DeltaWriteSummary, Op
<1>7. CASE DeltaWriteRevision(w)
  BY <1>7 DEF DeltaWriteRevision
<1>8. CASE DeltaWriteDirty(w)
  BY <1>8 DEF DeltaWriteDirty
<1>9. CASE DeltaWriteReady(w)
  BY <1>9 DEF DeltaWriteReady
<1>10. CASE CompleteRevision(w)
  BY <1>10 DEF CompleteRevision
<1>11. CASE CompleteState(w)
  BY <1>11 DEF CompleteState
<1>12. QED
  BY <1>1, <1>2, <1>3, <1>4, <1>5, <1>6, <1>7, <1>8, <1>9, <1>10, <1>11 DEF WriterStep

(* The steps of a reader keep the types; one step per action.              *)
LEMMA ReaderTyped ==
    ASSUME Typed, NEW r \in Readers,
           AskRevision(r) \/ ReaderStep(r) \/ BuildRaises(r) \/ ReaderCrash(r)
    PROVE  Typed'
<1> USE DocumentAssumption, ActorAssumption, BoundAssumption
    DEF Typed, TypeOK, RowAtHand, AttemptsLeft, SceneDocs, Rows, Revisions, IndexFile,
        SummaryFile, State, WriterPC, ReaderPC, Draft, Reads,
        sourceVars, viewVars, writerVars, ReaderGoto
<1>1. CASE AskRevision(r)
  BY <1>1 DEF AskRevision, NoIndex, Op
<1>2. CASE AskState(r)
  BY <1>2 DEF AskState, readerVars
<1>3. CASE ReadDocument(r)
  BY <1>3 DEF ReadDocument
<1>4. CASE VerifyDocument(r)
  BY <1>4 DEF VerifyDocument
<1>5. CASE EnterRebuild(r)
  BY <1>5 DEF EnterRebuild
<1>6. CASE PeekState(r)
  BY <1>6 DEF PeekState
<1>7. CASE PeekDocuments(r)
  <2> HIDE DEF IndexFile, SummaryFile, Draft, Reads
  <2>1. CASE idx.rev = seen[r] /\ summary.rev = seen[r]
    <3>1. answer' \in [Readers -> IndexFile]
      BY <1>7, <2>1 DEF PeekDocuments
    <3>2. QED
      BY <1>7, <2>1, <3>1 DEF PeekDocuments
  <2>2. CASE ~(idx.rev = seen[r] /\ summary.rev = seen[r])
    BY <1>7, <2>2 DEF PeekDocuments
  <2>3. QED
    BY <2>1, <2>2
<1>8. CASE StartBuild(r)
  <2>1. NoDraft \in Draft
    BY DEF NoDraft, NoIndex, NoSummary
  <2>2. draft' \in [Readers -> Draft]
    BY <1>8, <2>1 DEF StartBuild
  <2>3. tries' \in [Readers -> 0..MaxAttempts]
    BY <1>8 DEF StartBuild
  <2>4. state' \in State
    BY <1>8 DEF StartBuild
  <2>5. AttemptsLeft'
    BY <1>8 DEF StartBuild
  <2> HIDE DEF Draft, State
  <2>6. QED
    BY <1>8, <2>2, <2>3, <2>4, <2>5 DEF StartBuild
<1>9. ASSUME NEW s \in Scenes, ScanScene(r, s)
      PROVE  Typed'
  <2>1. Row(s) \in Rows /\ scene[s] \in SceneDocs
    BY DEF Row
  <2>4. draft' \in [Readers -> Draft]
    <3> HIDE DEF Draft, Rows, SceneDocs
    <3>1. \A f \in Draft : [f EXCEPT !.index[s] = scene[s]] \in Draft
      BY <2>1 DEF Draft
    <3>2. \A f \in Draft : [f EXCEPT !.summary[s] = Row(s)] \in Draft
      BY <2>1 DEF Draft
    <3>3. draft[r] \in Draft
      OBVIOUS
    <3>4. CASE draft' = [draft EXCEPT ![r].index[s] = scene[s]]
      BY <3>1, <3>3, <3>4
    <3>5. CASE draft' = [draft EXCEPT ![r].summary[s] = Row(s)]
      BY <3>2, <3>3, <3>5
    <3>6. QED
      BY <1>9, <3>4, <3>5 DEF ScanScene
  <2>5. todo' \in [Readers -> SUBSET Reads]
    <3> HIDE DEF Reads
    <3>1. \A x : todo[r] \ x \in SUBSET Reads
      OBVIOUS
    <3>2. PICK read : todo' = [todo EXCEPT ![r] = @ \ {read}]
      BY <1>9 DEF ScanScene
    <3>3. QED
      BY <3>1, <3>2
  <2> HIDE DEF Draft, Reads
  <2>6. QED
    BY <1>9, <2>4, <2>5 DEF ScanScene
<1>10. CASE StartPublish(r)
  BY <1>10 DEF StartPublish
<1>11. CASE BuildOvertaken(r)
  <2>1. CASE tries[r] < MaxAttempts /\ ReaderGoto(r, "start") /\ UNCHANGED rlock
    BY <1>11, <2>1 DEF BuildOvertaken
  <2>2. CASE ReaderGoto(r, "idle") /\ rlock' = Nobody
    BY <1>11, <2>2 DEF BuildOvertaken
  <2>3. QED
    BY <1>11, <2>1, <2>2 DEF BuildOvertaken
<1>12. CASE PublishIndex(r)
  BY <1>12 DEF PublishIndex
<1>13. CASE PublishSummary(r)
  BY <1>13 DEF PublishSummary
<1>14. CASE PublishReady(r)
  BY <1>14 DEF PublishReady
<1>15. CASE SetFailedState(r)
  BY <1>15 DEF SetFailedState
<1>16. CASE BuildRaises(r)
  BY <1>16 DEF BuildRaises
<1>17. CASE ReaderCrash(r)
  BY <1>17 DEF ReaderCrash
<1>18. QED
  BY <1>1, <1>2, <1>3, <1>4, <1>5, <1>6, <1>7, <1>8, <1>9, <1>10, <1>11, <1>12, <1>13,
     <1>14, <1>15, <1>16, <1>17 DEF ReaderStep

(* Every step keeps the types.                                             *)
LEMMA StepTyped == Typed /\ [Next]_vars => Typed'
<1> SUFFICES ASSUME Typed, [Next]_vars
             PROVE  Typed'
  OBVIOUS
<1>1. ASSUME NEW w \in Writers, NEW kind \in Kinds, NEW s \in Scenes,
             OpenDocument(w, kind, s)
      PROVE  Typed'
  <2> USE <1>1 DEF OpenDocument, Typed, TypeOK, WriterGoto
  <2>1. Before(kind, s) \in SceneDocs
    BY DEF Before, SceneDocs
  <2>2. op' \in [Writers -> Op]
    BY <2>1 DEF Op, Rows
  <2>3. wpc' \in [Writers -> WriterPC] /\ RowAtHand' /\ mutations' \in 0..MaxMutations
    BY BoundAssumption DEF WriterPC, RowAtHand
  <2>4. QED
    BY <2>2, <2>3 DEF AttemptsLeft, sourceVars, viewVars, readerVars
<1>2. ASSUME NEW w \in Writers, WriterStep(w)
      PROVE  Typed'
  BY <1>2, WriterTyped
<1>3. ASSUME NEW w \in Writers, WriterCrash(w)
      PROVE  Typed'
  <2> USE <1>3, NoOpTyped DEF WriterCrash, Typed, WriterGoto, WriterDone
  <2>1. state' \in State
    BY DEF TypeOK, State
  <2>2. crashes' \in 0..MaxCrashes
    BY BoundAssumption DEF TypeOK
  <2>3. wpc' \in [Writers -> WriterPC] /\ op' \in [Writers -> Op] /\ RowAtHand'
    BY DEF TypeOK, RowAtHand, WriterPC
  <2>4. QED
    BY <2>1, <2>2, <2>3 DEF TypeOK, AttemptsLeft, sourceVars, viewVars, readerVars
<1>4. ASSUME NEW r \in Readers,
             AskRevision(r) \/ ReaderStep(r) \/ BuildRaises(r) \/ ReaderCrash(r)
      PROVE  Typed'
  BY <1>4, ReaderTyped
<1>5. CASE UNCHANGED vars
  BY <1>5 DEF vars, Typed, TypeOK, RowAtHand, AttemptsLeft, sourceVars, viewVars,
              writerVars, readerVars
<1>6. QED
  BY <1>1, <1>2, <1>3, <1>4, <1>5 DEF Next

(* Every variable of the index protocol keeps its type.                    *)
THEOREM IndexTyped == Spec => []TypeOK
<1>1. Typed => TypeOK
  BY DEF Typed
<1>2. QED
  BY <1>1, InitTyped, StepTyped, PTL DEF Spec

-----------------------------------------------------------------------------
(* The writes under the index lock, file by file: who is between two of    *)
(* them holds the lock, and the files already written carry the revision   *)
(* that is about to be published while the state is not ready yet.         *)
WriterHolds ==
    \A w \in Writers :
        wpc[w] \in {"index", "summary", "revision", "dirty", "ready", "close"} => ilock = w

ReaderHolds ==
    \A r \in Readers : rpc[r] \in {"index", "summary", "ready"} => ilock = r

DeltaStamped ==
    \A w \in Writers :
        /\ wpc[w] \in {"index", "summary", "revision", "dirty", "ready"} => state.status = "dirty"
        /\ wpc[w] \in {"summary", "revision"} => idx.rev = revision + 1
        /\ wpc[w] = "revision" => summary.rev = revision + 1
        /\ wpc[w] \in {"dirty", "ready"} => idx.rev = revision /\ summary.rev = revision
        /\ wpc[w] = "ready" => state.rev = revision

BuildStamped ==
    \A r \in Readers :
        /\ rpc[r] \in {"index", "summary", "ready"} =>
              state.status = "building" /\ seen[r] = revision
        /\ rpc[r] \in {"summary", "ready"} => idx.rev = revision
        /\ rpc[r] = "ready" => summary.rev = revision

(* A ready state never names a revision that is still to come.             *)
ReadyIsPast == state.status = "ready" => state.rev <= revision

ViewInv ==
    /\ WriterHolds
    /\ ReaderHolds
    /\ DeltaStamped
    /\ BuildStamped
    /\ ReadyIsPast
    /\ FilesAgree

(* The part of the types these facts need.                                 *)
ViewTypes ==
    /\ revision \in Nat
    /\ state \in State
    /\ idx \in IndexFile
    /\ summary \in SummaryFile
    /\ wpc \in [Writers -> WriterPC]
    /\ rpc \in [Readers -> ReaderPC]
    /\ seen \in [Readers -> Nat]

(* Nothing is ready or being written at the start.                         *)
LEMMA InitView == Init => ViewInv
  BY DEF Init, ViewInv, WriterHolds, ReaderHolds, DeltaStamped, BuildStamped, ReadyIsPast,
         FilesAgree, Current, Ready

(* The steps of a writer preserve it; one step per action.                 *)
LEMMA WriterView ==
    ASSUME ViewTypes, ViewInv, NEW w \in Writers, WriterStep(w) \/ WriterCrash(w)
    PROVE  ViewInv'
<1> USE ActorAssumption
    DEF ViewTypes, ViewInv, WriterHolds, ReaderHolds, DeltaStamped, BuildStamped,
        ReadyIsPast, FilesAgree, Current, Ready, State, IndexFile, SummaryFile,
        Revisions, viewVars, readerVars, WriterGoto, WriterDone
<1>1. CASE BeginMutation(w)
  BY <1>1 DEF BeginMutation
<1>2. CASE WriteSource(w)
  <2>1. PICK place \in {"delta", "plain"} : wpc' = [wpc EXCEPT ![w] = place]
    BY <1>2 DEF WriteSource
  <2>2. UNCHANGED <<revision, state, idx, summary, ilock, rpc, seen>>
    BY <1>2 DEF WriteSource
  <2>3. QED
    BY <2>1, <2>2
<1>3. CASE StartDelta(w)
  BY <1>3 DEF StartDelta, DeltaApplies
<1>4. CASE RefuseDelta(w)
  BY <1>4 DEF RefuseDelta
<1>5. CASE DeltaWriteIndex(w)
  BY <1>5 DEF DeltaWriteIndex
<1>6. CASE DeltaWriteSummary(w)
  BY <1>6 DEF DeltaWriteSummary
<1>7. CASE DeltaWriteRevision(w)
  BY <1>7 DEF DeltaWriteRevision
<1>8. CASE DeltaWriteDirty(w)
  BY <1>8 DEF DeltaWriteDirty
<1>9. CASE DeltaWriteReady(w)
  BY <1>9 DEF DeltaWriteReady
<1>10. CASE CompleteRevision(w)
  BY <1>10 DEF CompleteRevision
<1>11. CASE CompleteState(w)
  BY <1>11 DEF CompleteState
<1>12. CASE WriterCrash(w)
  BY <1>12 DEF WriterCrash
<1>13. QED
  BY <1>1, <1>2, <1>3, <1>4, <1>5, <1>6, <1>7, <1>8, <1>9, <1>10, <1>11, <1>12
     DEF WriterStep

(* The steps of a reader preserve it; one step per action.                 *)
LEMMA ReaderView ==
    ASSUME ViewTypes, ViewInv, NEW r \in Readers,
           AskRevision(r) \/ ReaderStep(r) \/ BuildRaises(r) \/ ReaderCrash(r)
    PROVE  ViewInv'
<1> USE ActorAssumption
    DEF ViewTypes, ViewInv, WriterHolds, ReaderHolds, DeltaStamped, BuildStamped,
        ReadyIsPast, FilesAgree, Current, Ready, State, IndexFile, SummaryFile,
        Revisions, viewVars, writerVars, ReaderGoto
<1>1. CASE AskRevision(r)
  BY <1>1 DEF AskRevision
<1>2. CASE AskState(r)
  BY <1>2 DEF AskState
<1>3. CASE ReadDocument(r)
  BY <1>3 DEF ReadDocument
<1>4. CASE VerifyDocument(r)
  BY <1>4 DEF VerifyDocument
<1>5. CASE EnterRebuild(r)
  BY <1>5 DEF EnterRebuild
<1>6. CASE PeekState(r)
  BY <1>6 DEF PeekState
<1>7. CASE PeekDocuments(r)
  <2>1. PICK place \in {"answered", "start"} : ReaderGoto(r, place)
    BY <1>7 DEF PeekDocuments
  <2>2. UNCHANGED <<revision, state, idx, summary, ilock, wpc, seen>>
    BY <1>7 DEF PeekDocuments
  <2>3. QED
    BY <2>1, <2>2
<1>8. CASE StartBuild(r)
  BY <1>8 DEF StartBuild
<1>9. ASSUME NEW s \in Scenes, ScanScene(r, s)
      PROVE  ViewInv'
  BY <1>9 DEF ScanScene
<1>10. CASE StartPublish(r)
  BY <1>10 DEF StartPublish, Unchanged
<1>11. CASE BuildOvertaken(r)
  <2>1. PICK place \in {"start", "idle"} : ReaderGoto(r, place)
    BY <1>11 DEF BuildOvertaken
  <2>2. UNCHANGED <<revision, state, idx, summary, ilock, wpc, seen>>
    BY <1>11 DEF BuildOvertaken
  <2>3. QED
    BY <2>1, <2>2
<1>12. CASE PublishIndex(r)
  BY <1>12 DEF PublishIndex
<1>13. CASE PublishSummary(r)
  BY <1>13 DEF PublishSummary
<1>14. CASE PublishReady(r)
  BY <1>14 DEF PublishReady
<1>15. CASE SetFailedState(r)
  BY <1>15 DEF SetFailedState
<1>16. CASE BuildRaises(r)
  BY <1>16 DEF BuildRaises
<1>17. CASE ReaderCrash(r)
  BY <1>17 DEF ReaderCrash
<1>18. QED
  BY <1>1, <1>2, <1>3, <1>4, <1>5, <1>6, <1>7, <1>8, <1>9, <1>10, <1>11, <1>12, <1>13,
     <1>14, <1>15, <1>16, <1>17 DEF ReaderStep

(* Every step preserves the invariant of the view.                         *)
LEMMA StepView == Typed /\ ViewInv /\ [Next]_vars => ViewInv'
<1> SUFFICES ASSUME Typed, ViewInv, [Next]_vars
             PROVE  ViewInv'
  OBVIOUS
<1>1. ViewTypes
  BY DEF Typed, TypeOK, ViewTypes
<1>2. ASSUME NEW w \in Writers, NEW kind \in Kinds, NEW s \in Scenes,
             OpenDocument(w, kind, s)
      PROVE  ViewInv'
  BY <1>1, <1>2
     DEF OpenDocument, ViewTypes, ViewInv, WriterHolds, ReaderHolds, DeltaStamped,
         BuildStamped, ReadyIsPast, FilesAgree, Current, Ready, viewVars, readerVars,
         WriterGoto
<1>3. ASSUME NEW w \in Writers, WriterStep(w) \/ WriterCrash(w)
      PROVE  ViewInv'
  BY <1>1, <1>3, WriterView
<1>4. ASSUME NEW r \in Readers,
             AskRevision(r) \/ ReaderStep(r) \/ BuildRaises(r) \/ ReaderCrash(r)
      PROVE  ViewInv'
  BY <1>1, <1>4, ReaderView
<1>5. CASE UNCHANGED vars
  BY <1>5 DEF vars, ViewInv, WriterHolds, ReaderHolds, DeltaStamped, BuildStamped,
              ReadyIsPast, FilesAgree, Current, Ready, viewVars, writerVars, readerVars
<1>6. QED
  BY <1>2, <1>3, <1>4, <1>5 DEF Next

(* No crash of a mutation and no failure or crash of a rebuild leaves a    *)
(* view half written under a ready state: both files of a served view are  *)
(* of the current revision.                                                *)
THEOREM NoHalfWrittenView == Spec => []FilesAgree
<1>1. Init => Typed /\ ViewInv
  BY InitTyped, InitView
<1>2. Typed /\ ViewInv /\ [Next]_vars => (Typed /\ ViewInv)'
  BY StepTyped, StepView
<1>3. ViewInv => FilesAgree
  BY DEF ViewInv
<1>4. QED
  BY <1>1, <1>2, <1>3, PTL DEF Spec
-----------------------------------------------------------------------------
(* What a file of the view, a row of a delta or the draft of a rebuild may *)
(* differ in from the source: scenes that a mutation in flight has         *)
(* written.  A mutation of a scene document excuses the scene part of a    *)
(* row only, one of annotations the other part.                            *)
SceneKinds == {"scene", "delete"}
AnnotKinds == {"annotations", "batch", "delete"}

(* A writer other than w has written that document of s and is in flight.  *)
Excused(w, s, kinds) ==
    \E x \in Writers \ {w} : InFlight(x) /\ op[x].scene = s /\ op[x].kind \in kinds

SceneOf(row) == IF row = Absent THEN Absent ELSE row[1]

IndexFits(row, w, s) == row = scene[s] \/ Excused(w, s, SceneKinds)
SummaryFits(row, w, s) ==
    /\ IndexFits(SceneOf(row), w, s)
    /\ row # Absent => row[2] = annot[s] \/ Excused(w, s, AnnotKinds)

(* A file of the current revision fits, whatever the state says of it.     *)
FilesFit ==
    /\ idx.rev = revision => \A s \in Scenes : IndexFits(idx.rows[s], Nobody, s)
    /\ summary.rev = revision => \A s \in Scenes : SummaryFits(summary.rows[s], Nobody, s)

(* A delta that was let through makes files that fit without its writer.   *)
DeltaFits ==
    \A w \in Writers : wpc[w] \in {"index", "summary", "revision", "dirty", "ready"} =>
        /\ op[w].row # Absent /\ SummaryFits(op[w].row, w, op[w].scene)
        /\ \A s \in Scenes \ {op[w].scene} :
             IndexFits(idx.rows[s], w, s) /\ SummaryFits(summary.rows[s], w, s)
        /\ wpc[w] # "index" => idx.rows[op[w].scene] = op[w].row[1]
        /\ wpc[w] \in {"revision", "dirty", "ready"} => summary.rows[op[w].scene] = op[w].row
        /\ state.pending \subseteq {w}

(* Its token, the lock or the files are such that a delta of w is refused. *)
Refused(w) ==
    \/ w \notin state.pending \/ ilock \in Readers
    \/ idx.rev # revision \/ summary.rev # revision

(* The annotations a save would put into its row are those on disk, unless *)
(* somebody else has written them since or the delta will be refused; with *)
(* failing rebuilds, which may leave files of the revision behind, only    *)
(* the locks of the documents ensure this.                                 *)
RowFits ==
    \A w \in Writers : wpc[w] = "delta" =>
        /\ op[w].kind \in {"scene", "annotations"}
        /\ op[w].kind = "annotations" =>
              \/ op[w].row[2] = annot[op[w].scene]
              \/ ~BuildFaults /\ (Excused(w, op[w].scene, AnnotKinds) \/ Refused(w))

(* Two saves of a document exclude each other.                             *)
SavesExclude ==
    \A w, x \in Writers :
        op[w].kind \in {"scene", "annotations"} /\ op[w].kind = op[x].kind
            /\ op[w].scene = op[x].scene => w = x

(* What a rebuild has read fits, as long as nothing has begun or completed. *)
DraftFits ==
    \A r \in Readers :
        /\ (rpc[r] = "scan" /\ Unchanged(r)) \/ rpc[r] \in {"index", "summary", "ready"} =>
             \A s \in Scenes :
                 /\ <<"index", s>> \notin todo[r] => IndexFits(draft[r].index[s], Nobody, s)
                 /\ <<"summary", s>> \notin todo[r] => SummaryFits(draft[r].summary[s], Nobody, s)
        /\ rpc[r] \in {"index", "summary", "ready"} => todo[r] = {}

(* Files and readers are never ahead of the revision, but for a delta that *)
(* is being written.                                                       *)
RevisionsLead ==
    /\ (\A w \in Writers : wpc[w] \notin {"summary", "revision"}) => idx.rev <= revision
    /\ (\A w \in Writers : wpc[w] # "revision") => summary.rev <= revision
    /\ idx.rev <= revision + 1 /\ summary.rev <= revision + 1
    /\ \A w \in Writers : wpc[w] = "close" => idx.rev < revision /\ summary.rev < revision
    /\ \A r \in Readers : seen[r] <= revision

FitInv == FilesFit /\ DeltaFits /\ RowFits /\ DraftFits /\ RevisionsLead

(* Who is in flight during a query is noted, and what the query may answer *)
(* with is fresh beside.                                                   *)
FreshBeside(rows, r) == \A s \in Scenes \ touched[r] : rows[s] = scene[s]

TouchedNoted ==
    \A r \in Readers, w \in Writers :
        rpc[r] # "idle" /\ InFlight(w) => op[w].scene \in touched[r]

AnswerFits ==
    \A r \in Readers :
        /\ rpc[r] # "idle" /\ idx.rev >= seen[r] => FreshBeside(idx.rows, r)
        /\ rpc[r] = "verify" /\ answer[r].rev >= seen[r] => FreshBeside(answer[r].rows, r)

-----------------------------------------------------------------------------
(* What is in flight stays so.                                             *)
Stays(x) == InFlight(x) =>
    InFlight(x)' /\ op'[x].scene = op[x].scene /\ op'[x].kind = op[x].kind

DeltaPlaces == {"index", "summary", "revision", "dirty", "ready"}
PublishPlaces == {"index", "summary", "ready"}

(* An excuse lasts as long as the writers that give it.                    *)
LEMMA ExcusedStays ==
    ASSUME NEW w, \A x \in Writers \ {w} : Stays(x)
    PROVE  \A s, kinds : Excused(w, s, kinds) => Excused(w, s, kinds)'
  BY DEF Excused, Stays

(* Whoever is excused without w is excused.                                *)
LEMMA ExcusedWithout ==
    ASSUME NEW w, NEW s, NEW kinds, Excused(w, s, kinds)
    PROVE  Excused(Nobody, s, kinds)
  BY ActorAssumption DEF Excused

(* The four parts are kept by a step that leaves alone what they speak of. *)
LEMMA KeepFiles ==
    ASSUME FilesFit, UNCHANGED <<idx, summary, revision, scene, annot>>,
           \A x \in Writers : Stays(x)
    PROVE  FilesFit'
<1>1. \A s, kinds : Excused(Nobody, s, kinds) => Excused(Nobody, s, kinds)'
  BY ExcusedStays
<1>2. QED
  BY <1>1 DEF FilesFit, IndexFits, SummaryFits, SceneOf

(* Deltas: nobody enters one, and the rows of the files stay.              *)
LEMMA KeepDelta ==
    ASSUME DeltaFits, UNCHANGED <<idx, summary, scene, annot>>,
           \A x \in Writers : Stays(x),
           state'.pending \subseteq state.pending,
           \A w \in Writers : wpc'[w] \in DeltaPlaces =>
               /\ wpc[w] \in DeltaPlaces /\ op'[w] = op[w]
               /\ wpc'[w] = wpc[w] \/ wpc[w] \in {"revision", "dirty"}
    PROVE  DeltaFits'
<1>1. \A w \in Writers : \A s, kinds : Excused(w, s, kinds) => Excused(w, s, kinds)'
  BY ExcusedStays
<1>2. SUFFICES ASSUME NEW w \in Writers, wpc'[w] \in DeltaPlaces
      PROVE  /\ op'[w].row # Absent /\ SummaryFits(op[w].row, w, op[w].scene)'
             /\ \A s \in Scenes \ {op'[w].scene} :
                  IndexFits(idx.rows[s], w, s)' /\ SummaryFits(summary.rows[s], w, s)'
             /\ wpc'[w] # "index" => idx'.rows[op'[w].scene] = op'[w].row[1]
             /\ wpc'[w] \in {"revision", "dirty", "ready"} => summary'.rows[op'[w].scene] = op'[w].row
             /\ state'.pending \subseteq {w}
  BY DEF DeltaFits, DeltaPlaces
<1>3. QED
  BY <1>1, <1>2 DEF DeltaFits, DeltaPlaces, IndexFits, SummaryFits, SceneOf

(* Rows of saves: whoever is about to start a delta was so before.         *)
LEMMA KeepRows ==
    ASSUME RowFits, UNCHANGED annot,
           \A w \in Writers : wpc'[w] = "delta" =>
               /\ wpc[w] = "delta" /\ op'[w] = op[w]
               /\ \/ BuildFaults
                  \/ Refused(w)'
                  \/ (Refused(w) => Refused(w)') /\ \A x \in Writers \ {w} : Stays(x)
    PROVE  RowFits'
<1>1. SUFFICES ASSUME NEW w \in Writers, wpc'[w] = "delta"
      PROVE  /\ op'[w].kind \in {"scene", "annotations"}
             /\ op'[w].kind = "annotations" =>
                   \/ op'[w].row[2] = annot'[op'[w].scene]
                   \/ ~BuildFaults /\ (Excused(w, op[w].scene, AnnotKinds)' \/ Refused(w)')
  BY DEF RowFits
<1>2. (\A x \in Writers \ {w} : Stays(x)) =>
         \A s, kinds : Excused(w, s, kinds) => Excused(w, s, kinds)'
  BY ExcusedStays
<1>3. wpc[w] = "delta" /\ op'[w] = op[w]
  BY <1>1
<1>4. Excused(w, op[w].scene, AnnotKinds) /\ (\A x \in Writers \ {w} : Stays(x)) =>
         Excused(w, op[w].scene, AnnotKinds)'
  BY <1>2, <1>3 DEF Excused
<1>5. QED
  BY <1>1, <1>3, <1>4 DEF RowFits

(* Drafts: nobody starts to publish, and an unchanged scan was so before.  *)
LEMMA KeepDrafts ==
    ASSUME DraftFits, UNCHANGED <<scene, annot>>, \A x \in Writers : Stays(x),
           \A r \in Readers :
               /\ rpc'[r] = "scan" /\ Unchanged(r)' =>
                     rpc[r] = "scan" /\ Unchanged(r) /\ todo'[r] = todo[r] /\ draft'[r] = draft[r]
               /\ rpc'[r] \in PublishPlaces =>
                     rpc[r] \in PublishPlaces /\ todo'[r] = todo[r] /\ draft'[r] = draft[r]
    PROVE  DraftFits'
<1>1. \A s, kinds : Excused(Nobody, s, kinds) => Excused(Nobody, s, kinds)'
  BY ExcusedStays
<1>2. QED
  BY <1>1 DEF DraftFits, PublishPlaces, IndexFits, SummaryFits, SceneOf
-----------------------------------------------------------------------------
(* The types these facts need.                                             *)
FitTypes ==
    /\ ViewTypes /\ RowAtHand
    /\ scene \in [Scenes -> SceneDocs] /\ annot \in [Scenes -> Values]
    /\ ilock \in Writers \union Readers \union {Nobody}
    /\ op \in [Writers -> Op]
    /\ todo \in [Readers -> SUBSET Reads] /\ draft \in [Readers -> Draft]
    /\ touched \in [Readers -> SUBSET Scenes] /\ answer \in [Readers -> IndexFile]

(* A step of one writer moves no other.                                    *)
LEMMA OtherWriters ==
    ASSUME NEW w \in Writers,
           \/ WriterStep(w) \/ WriterCrash(w)
           \/ \E kind \in Kinds, s \in Scenes : OpenDocument(w, kind, s),
           wpc \in [Writers -> WriterPC], op \in [Writers -> Op]
    PROVE  \A x \in Writers \ {w} : wpc'[x] = wpc[x] /\ op'[x] = op[x] /\ Stays(x)
<1>1. ASSUME NEW place, WriterGoto(w, place), UNCHANGED op
      PROVE  \A x \in Writers \ {w} : wpc'[x] = wpc[x] /\ op'[x] = op[x]
  BY <1>1 DEF WriterGoto
<1>2. ASSUME WriterDone(w)
      PROVE  \A x \in Writers \ {w} : wpc'[x] = wpc[x] /\ op'[x] = op[x]
  BY <1>2 DEF WriterDone, WriterGoto
<1>3. ASSUME WriteSource(w) \/ StartDelta(w) \/ \E kind \in Kinds, s \in Scenes : OpenDocument(w, kind, s)
      PROVE  \A x \in Writers \ {w} : wpc'[x] = wpc[x] /\ op'[x] = op[x]
  BY <1>3 DEF WriteSource, StartDelta, OpenDocument, WriterGoto
<1>4. \A x \in Writers \ {w} : wpc'[x] = wpc[x] /\ op'[x] = op[x]
  BY <1>1, <1>2, <1>3 DEF WriterStep, BeginMutation, RefuseDelta, DeltaWriteIndex,
     DeltaWriteSummary, DeltaWriteRevision, DeltaWriteDirty, DeltaWriteReady, CompleteRevision,
     CompleteState, WriterCrash
<1>5. QED
  BY <1>4 DEF Stays, InFlight

(* While nobody, or a reader, holds the lock of the index, no delta is     *)
(* being written; while a writer holds it, at most its own, and no reader  *)
(* publishes.                                                              *)
LEMMA LockHolder ==
    ASSUME ViewInv
    PROVE  /\ \A w \in Writers : ilock # w => wpc[w] \notin DeltaPlaces \union {"close"}
           /\ \A r \in Readers : ilock # r => rpc[r] \notin PublishPlaces
           /\ \A w \in Writers, r \in Readers : w # r /\ w # Nobody /\ r # Nobody
  BY ActorAssumption DEF ViewInv, WriterHolds, ReaderHolds, DeltaPlaces, PublishPlaces

(* Two saves of one document never overlap.                                *)
LEMMA StepSaves ==
    ASSUME FitTypes, SavesExclude, [Next]_vars
    PROVE  SavesExclude'
<1>1. ASSUME NEW w \in Writers, NEW kind \in Kinds, NEW s \in Scenes, OpenDocument(w, kind, s)
      PROVE  SavesExclude'
  <2>1. op' = [op EXCEPT ![w] =
                [kind |-> kind, scene |-> s, row |-> Absent, before |-> Before(kind, s)]]
    BY <1>1 DEF OpenDocument
  <2>2. op'[w].kind = kind /\ op'[w].scene = s /\ \A x \in Writers \ {w} : op'[x] = op[x]
    BY <2>1 DEF FitTypes
  <2>3. kind # "batch" => \A x \in Writers : ~(op[x].kind = kind /\ op[x].scene = s)
    BY <1>1 DEF OpenDocument, DocumentFree
  <2>4. QED
    BY <2>2, <2>3 DEF SavesExclude
<1>2. ASSUME \A x \in Writers : \/ op'[x].kind = "none"
                                \/ op'[x].kind = op[x].kind /\ op'[x].scene = op[x].scene
      PROVE  SavesExclude'
  BY <1>2 DEF SavesExclude
<1>3. ASSUME NEW w \in Writers, WriterDone(w)
      PROVE  SavesExclude'
  <2>1. op'[w].kind = "none" /\ \A x \in Writers \ {w} : op'[x] = op[x]
    BY <1>3 DEF WriterDone, NoOp, FitTypes
  <2>2. QED
    BY <1>2, <2>1
<1>4. ASSUME NEW w \in Writers, WriteSource(w) \/ StartDelta(w)
      PROVE  SavesExclude'
  <2>1. PICK row : op' = [op EXCEPT ![w].row = row]
    BY <1>4 DEF WriteSource, StartDelta
  <2>2. \A x \in Writers : op'[x].kind = op[x].kind /\ op'[x].scene = op[x].scene
    BY <2>1 DEF FitTypes, Op
  <2>3. QED
    BY <1>2, <2>2
<1>5. ASSUME UNCHANGED op
      PROVE  SavesExclude'
  BY <1>5 DEF SavesExclude
<1>6. ASSUME NEW w \in Writers, WriterStep(w) \/ WriterCrash(w)
      PROVE  SavesExclude'
  BY <1>3, <1>4, <1>5, <1>6
     DEF WriterStep, BeginMutation, RefuseDelta, DeltaWriteIndex, DeltaWriteSummary,
         DeltaWriteRevision, DeltaWriteDirty, DeltaWriteReady, CompleteRevision,
         CompleteState, WriterCrash
<1>7. ASSUME NEW r \in Readers,
             AskRevision(r) \/ ReaderStep(r) \/ BuildRaises(r) \/ ReaderCrash(r)
      PROVE  SavesExclude'
  BY <1>5, <1>7
     DEF ReaderStep, AskRevision, AskState, ReadDocument, VerifyDocument, EnterRebuild,
         PeekState, PeekDocuments, StartBuild, ScanScene, StartPublish, BuildOvertaken,
         PublishIndex, PublishSummary, PublishReady, BuildRaises, SetFailedState, ReaderCrash,
         writerVars
<1>8. QED
  BY <1>1, <1>5, <1>6, <1>7 DEF Next, vars, writerVars

(* The revision leads the files and the readers.                           *)
LEMMA WriterRevisions ==
    ASSUME FitTypes, ViewInv, RevisionsLead, NEW w \in Writers, WriterStep(w)
    PROVE  RevisionsLead'
<1> USE ActorAssumption
    DEF FitTypes, ViewTypes, ViewInv, WriterHolds, DeltaStamped, RevisionsLead, IndexFile,
        SummaryFile, Revisions, viewVars, readerVars, WriterGoto, WriterDone
<1>1. CASE BeginMutation(w)
  BY <1>1 DEF BeginMutation
<1>2. CASE WriteSource(w)
  <2>1. PICK place \in {"delta", "plain"} : wpc' = [wpc EXCEPT ![w] = place]
    BY <1>2 DEF WriteSource
  <2>2. UNCHANGED <<revision, idx, summary, seen>>
    BY <1>2 DEF WriteSource
  <2>3. wpc[w] = "write"
    BY <1>2 DEF WriteSource
  <2>4. QED
    BY <2>1, <2>2, <2>3
<1>3. CASE StartDelta(w)
  BY <1>3 DEF StartDelta
<1>4. CASE RefuseDelta(w)
  BY <1>4 DEF RefuseDelta
<1>5. CASE DeltaWriteIndex(w)
  BY <1>5 DEF DeltaWriteIndex
<1>6. CASE DeltaWriteSummary(w)
  BY <1>6 DEF DeltaWriteSummary
<1>7. CASE DeltaWriteRevision(w)
  BY <1>7 DEF DeltaWriteRevision
<1>8. CASE DeltaWriteDirty(w)
  BY <1>8 DEF DeltaWriteDirty
<1>9. CASE DeltaWriteReady(w)
  BY <1>9 DEF DeltaWriteReady
<1>10. CASE CompleteRevision(w)
  BY <1>10 DEF CompleteRevision
<1>11. CASE CompleteState(w)
  BY <1>11 DEF CompleteState
<1>12. QED
  BY <1>1, <1>2, <1>3, <1>4, <1>5, <1>6, <1>7, <1>8, <1>9, <1>10, <1>11 DEF WriterStep

(* A reader writes a file with the revision it has seen.                   *)
LEMMA ReaderRevisions ==
    ASSUME FitTypes, ViewInv, RevisionsLead, NEW r \in Readers,
           AskRevision(r) \/ ReaderStep(r) \/ BuildRaises(r) \/ ReaderCrash(r)
    PROVE  RevisionsLead'
<1> USE DEF FitTypes, ViewTypes, RevisionsLead
<1>1. UNCHANGED <<revision, wpc>>
  BY DEF ReaderStep, AskRevision, AskState, ReadDocument, VerifyDocument, EnterRebuild,
         PeekState, PeekDocuments, StartBuild, ScanScene, StartPublish, BuildOvertaken,
         PublishIndex, PublishSummary, PublishReady, BuildRaises, SetFailedState, ReaderCrash,
         writerVars
<1>2. \/ UNCHANGED seen
      \/ seen' = [seen EXCEPT ![r] = revision]
  BY DEF ReaderStep, AskRevision, AskState, ReadDocument, VerifyDocument, EnterRebuild,
         PeekState, PeekDocuments, StartBuild, ScanScene, StartPublish, BuildOvertaken,
         PublishIndex, PublishSummary, PublishReady, BuildRaises, SetFailedState, ReaderCrash,
         readerVars
<1>3. \A x \in Readers : seen'[x] <= revision'
  BY <1>1, <1>2
<1>4. UNCHANGED idx \/ (PublishIndex(r) /\ idx'.rev = seen[r])
  <2>1. CASE PublishIndex(r)
    BY <2>1 DEF PublishIndex
  <2>2. CASE ~PublishIndex(r)
    BY <2>2
       DEF ReaderStep, AskRevision, AskState, ReadDocument, VerifyDocument, EnterRebuild,
           PeekState, PeekDocuments, StartBuild, ScanScene, StartPublish, BuildOvertaken,
           PublishSummary, PublishReady, BuildRaises, SetFailedState, ReaderCrash, viewVars
  <2>3. QED
    BY <2>1, <2>2
<1>5. UNCHANGED summary \/ (PublishSummary(r) /\ summary'.rev = seen[r])
  <2>1. CASE PublishSummary(r)
    BY <2>1 DEF PublishSummary
  <2>2. CASE ~PublishSummary(r)
    BY <2>2
       DEF ReaderStep, AskRevision, AskState, ReadDocument, VerifyDocument, EnterRebuild,
           PeekState, PeekDocuments, StartBuild, ScanScene, StartPublish, BuildOvertaken,
           PublishIndex, PublishReady, BuildRaises, SetFailedState, ReaderCrash, viewVars
  <2>3. QED
    BY <2>1, <2>2
<1>6. seen[r] \in Nat /\ seen[r] <= revision
  OBVIOUS
<1>7. rpc[r] \in PublishPlaces => \A w \in Writers : wpc[w] \notin DeltaPlaces \union {"close"}
  BY LockHolder, ActorAssumption DEF ViewInv, ReaderHolds, PublishPlaces
<1>8. PublishIndex(r) \/ PublishSummary(r) => \A w \in Writers : wpc[w] # "close"
  BY <1>7 DEF PublishIndex, PublishSummary, PublishPlaces
<1>9. QED
  BY <1>1, <1>3, <1>4, <1>5, <1>6, <1>8

(* A writer in flight stays so until it closes its mutation.               *)
LEMMA WriterStays ==
    ASSUME FitTypes, NEW w \in Writers, WriterStep(w), ~DeltaWriteReady(w), ~CompleteState(w)
    PROVE  \A x \in Writers : Stays(x)
<1> USE DEF FitTypes, ViewTypes
<1>1. \A x \in Writers \ {w} : Stays(x)
  BY OtherWriters
<1>2. CASE BeginMutation(w)
  BY <1>1, <1>2 DEF BeginMutation, Stays, InFlight
<1>3. CASE WriteSource(w)
  BY <1>1, <1>3 DEF WriteSource, Stays, InFlight
<1>4. ASSUME UNCHANGED op, NEW place \in DeltaPlaces \union {"plain", "close"},
             WriterGoto(w, place)
      PROVE  Stays(w)
  BY <1>4 DEF WriterGoto, Stays, InFlight, DeltaPlaces
<1>5. CASE StartDelta(w)
  <2>1. PICK row : op' = [op EXCEPT ![w].row = row]
    BY <1>5 DEF StartDelta
  <2>2. op'[w].kind = op[w].kind /\ op'[w].scene = op[w].scene
    BY <2>1 DEF Op
  <2>3. wpc'[w] = "index"
    BY <1>5 DEF StartDelta, WriterGoto
  <2>4. QED
    BY <1>1, <2>2, <2>3 DEF Stays, InFlight
<1>6. QED
  BY <1>1, <1>2, <1>3, <1>4, <1>5
     DEF WriterStep, RefuseDelta, DeltaWriteIndex, DeltaWriteSummary, DeltaWriteRevision,
         DeltaWriteDirty, CompleteRevision, DeltaPlaces

(* What fits beside others than w still fits when w writes its document:   *)
(* w is in flight from then on and excuses the row it has outdated.        *)
LEMMA WrittenFits ==
    ASSUME FitTypes, NEW w \in Writers, WriteSource(w)
    PROVE  /\ \A x \in Writers : Stays(x)
           /\ \A v, s, row : v # w /\ s \in Scenes =>
                /\ IndexFits(row, v, s) => IndexFits(row, v, s)'
                /\ SummaryFits(row, v, s) => SummaryFits(row, v, s)'
           /\ \A s \in Scenes : annot'[s] # annot[s] =>
                op'[w].scene = s /\ op'[w].kind = op[w].kind /\ op[w].kind \in AnnotKinds
           /\ InFlight(w)' /\ op'[w].scene = op[w].scene /\ op'[w].kind = op[w].kind
           /\ wpc'[w] = "delta" =>
                op[w].kind \in {"scene", "annotations"}
           /\ op[w].kind = "annotations" => op'[w].row[2] = annot'[op[w].scene]
<1> USE DEF FitTypes, ViewTypes
<1> DEFINE s0 == op[w].scene
           kind == op[w].kind
<1>1. PICK v \in Values :
         /\ scene' = CASE kind = "scene"  -> [scene EXCEPT ![s0] = v]
                       [] kind = "delete" -> [scene EXCEPT ![s0] = Absent]
                       [] OTHER           -> scene
         /\ annot' = CASE kind \in {"annotations", "batch"} -> [annot EXCEPT ![s0] = v]
                       [] kind = "delete" -> [annot EXCEPT ![s0] = Empty]
                       [] OTHER           -> annot
         /\ op' = [op EXCEPT ![w].row = IF kind = "delete" THEN Absent ELSE <<v, v>>]
  BY <1>1 DEF WriteSource
<1>2. s0 \in Scenes
  BY DEF Op
<1>3. op'[w].scene = s0 /\ op'[w].kind = kind
  BY <1>1 DEF Op
<1>4. kind # "delete" => op'[w].row = <<v, v>>
  BY <1>1 DEF Op
<1>5. InFlight(w)' /\ (wpc'[w] = "delta" => kind \in {"scene", "annotations"})
  BY DEF WriteSource, WriterGoto, InFlight
<1>6. \A s \in Scenes : scene'[s] # scene[s] => s = s0 /\ kind \in SceneKinds
  BY <1>1, <1>2 DEF SceneKinds
<1>7. \A s \in Scenes : annot'[s] # annot[s] => s = s0 /\ kind \in AnnotKinds
  BY <1>1, <1>2 DEF AnnotKinds
<1>8. kind = "annotations" => op'[w].row[2] = annot'[s0]
  <2>1. CASE kind = "annotations"
    <3>1. annot' = [annot EXCEPT ![s0] = v]
      BY <1>1, <2>1
    <3>2. QED
      BY <1>2, <1>4, <2>1, <3>1
  <2>2. QED
    BY <2>1
<1> HIDE DEF s0, kind
<1>9. \A x \in Writers : Stays(x)
  BY WriterStays, OtherWriters, <1>3, <1>5 DEF WriterStep, Stays, s0, kind
<1>10. \A v2, s, kinds : Excused(v2, s, kinds) => Excused(v2, s, kinds)'
  BY <1>9 DEF Excused, Stays
<1>11. \A v2, s, kinds : v2 # w /\ s = s0 /\ kind \in kinds => Excused(v2, s, kinds)'
  BY <1>3, <1>5 DEF Excused, s0, kind
<1>12. ASSUME NEW v2, NEW s \in Scenes, v2 # w
       PROVE  /\ \A row : IndexFits(row, v2, s) => IndexFits(row, v2, s)'
              /\ annot[s] # annot'[s] => Excused(v2, s, AnnotKinds)'
  BY <1>6, <1>7, <1>10, <1>11, <1>12 DEF IndexFits
<1>13. ASSUME NEW v2, NEW s \in Scenes, v2 # w, NEW row, SummaryFits(row, v2, s)
       PROVE  SummaryFits(row, v2, s)'
  BY <1>10, <1>12, <1>13 DEF SummaryFits
<1>14. QED
  BY <1>3, <1>5, <1>7, <1>8, <1>9, <1>12, <1>13 DEF s0, kind

(* What fits without the writer of a delta fits.                           *)
LEMMA FitsWithout ==
    ASSUME NEW w, NEW s, NEW row
    PROVE  /\ IndexFits(row, w, s) => IndexFits(row, Nobody, s)
           /\ SummaryFits(row, w, s) => SummaryFits(row, Nobody, s)
  BY ExcusedWithout DEF IndexFits, SummaryFits

(* Both files of a finished delta fit without its writer.                  *)
LEMMA DeltaFiles ==
    ASSUME FitTypes, DeltaFits, NEW w \in Writers, wpc[w] \in {"revision", "dirty", "ready"}
    PROVE  \A s \in Scenes : IndexFits(idx.rows[s], w, s) /\ SummaryFits(summary.rows[s], w, s)
  BY DEF DeltaFits, SummaryFits, SceneOf

(* The steps of a writer keep the files fitting; one step per action.      *)
LEMMA WriterFiles ==
    ASSUME FitTypes, ViewInv, FitInv, NEW w \in Writers, WriterStep(w)
    PROVE  FilesFit'
<1> USE DEF FitInv
<1>1. ASSUME UNCHANGED <<idx, summary, revision, scene, annot>>,
             ~DeltaWriteReady(w), ~CompleteState(w)
      PROVE  FilesFit'
  BY <1>1, WriterStays, KeepFiles
<1>2. CASE WriteSource(w)
  <2>1. w # Nobody
    BY ActorAssumption
  <2>2. UNCHANGED <<idx, summary, revision>>
    BY <1>2 DEF WriteSource, viewVars
  <2>3. \A s \in Scenes : \A row :
          /\ IndexFits(row, Nobody, s) => IndexFits(row, Nobody, s)'
          /\ SummaryFits(row, Nobody, s) => SummaryFits(row, Nobody, s)'
    BY <1>2, <2>1, WrittenFits
  <2>4. QED
    BY <2>2, <2>3 DEF FilesFit
<1>3. CASE DeltaWriteIndex(w)
  <2>1. idx'.rev # revision' /\ UNCHANGED <<summary, revision>>
    BY <1>3 DEF DeltaWriteIndex, FitTypes, ViewTypes
  <2>2. \A s, row : SummaryFits(row, Nobody, s) => SummaryFits(row, Nobody, s)'
    <3>1. UNCHANGED <<scene, annot>> /\ \A x \in Writers : Stays(x)
      BY <1>3, WriterStays DEF DeltaWriteIndex, sourceVars, DeltaWriteReady, CompleteState
    <3>2. QED
      BY <3>1, ExcusedStays DEF SummaryFits, IndexFits
  <2>3. QED
    BY <2>1, <2>2 DEF FilesFit
<1>4. CASE DeltaWriteSummary(w)
  <2>1. summary'.rev # revision'
    BY <1>4 DEF DeltaWriteSummary, FitTypes, ViewTypes
  <2>2. idx'.rev # revision'
    BY <1>4 DEF DeltaWriteSummary, FitTypes, ViewTypes, ViewInv, DeltaStamped
  <2>3. QED
    BY <2>1, <2>2 DEF FilesFit
<1>5. CASE DeltaWriteRevision(w)
  <2>1. wpc[w] = "revision" /\ UNCHANGED <<idx, summary, scene, annot>>
    BY <1>5 DEF DeltaWriteRevision, viewVars, sourceVars
  <2>2. \A x \in Writers : Stays(x)
    BY <1>5, <2>1, WriterStays DEF DeltaWriteReady, CompleteState
  <2>3. \A s \in Scenes : IndexFits(idx.rows[s], w, s) /\ SummaryFits(summary.rows[s], w, s)
    BY <2>1, DeltaFiles
  <2>4. \A s \in Scenes : IndexFits(idx.rows[s], Nobody, s) /\ SummaryFits(summary.rows[s], Nobody, s)
    BY <2>3, FitsWithout
  <2>5. QED
    BY <2>1, <2>2, <2>4, ExcusedStays DEF FilesFit, IndexFits, SummaryFits
<1>6. CASE DeltaWriteReady(w)
  <2>1. wpc[w] = "ready" /\ UNCHANGED <<idx, summary, scene, annot>>
    BY <1>6 DEF DeltaWriteReady, viewVars, sourceVars
  <2>2. \A x \in Writers \ {w} : Stays(x)
    BY OtherWriters DEF FitTypes, ViewTypes
  <2>3. \A s \in Scenes : IndexFits(idx.rows[s], w, s) /\ SummaryFits(summary.rows[s], w, s)
    BY <2>1, DeltaFiles
  <2>4. \A s, kinds : Excused(w, s, kinds) => Excused(w, s, kinds)'
    BY <2>2, ExcusedStays
  <2>5. \A s, kinds : Excused(w, s, kinds)' => Excused(Nobody, s, kinds)'
    BY ActorAssumption DEF Excused
  <2>6. \A s \in Scenes : IndexFits(idx.rows[s], Nobody, s)' /\ SummaryFits(summary.rows[s], Nobody, s)'
    BY <2>1, <2>3, <2>4, <2>5 DEF IndexFits, SummaryFits
  <2>7. QED
    BY <2>6 DEF FilesFit
<1>7. CASE CompleteRevision(w)
  <2>1. ilock = Nobody /\ revision' = revision + 1 /\ UNCHANGED <<idx, summary>>
    BY <1>7 DEF CompleteRevision, viewVars
  <2>2. idx.rev <= revision /\ summary.rev <= revision
    BY <2>1, LockHolder, ActorAssumption DEF RevisionsLead, DeltaPlaces
  <2>3. idx'.rev # revision' /\ summary'.rev # revision'
    BY <2>1, <2>2 DEF FitTypes, ViewTypes, IndexFile, SummaryFile, Revisions
  <2>4. QED
    BY <2>3 DEF FilesFit
<1>8. CASE CompleteState(w)
  <2>1. idx.rev < revision /\ summary.rev < revision /\ UNCHANGED <<idx, summary, revision>>
    BY <1>8 DEF CompleteState, RevisionsLead, viewVars
  <2>2. idx'.rev # revision' /\ summary'.rev # revision'
    BY <2>1 DEF FitTypes, ViewTypes, IndexFile, SummaryFile, Revisions
  <2>3. QED
    BY <2>2 DEF FilesFit
<1>9. CASE BeginMutation(w) \/ StartDelta(w) \/ RefuseDelta(w) \/ DeltaWriteDirty(w)
  <2>1. UNCHANGED <<idx, summary, revision, scene, annot>>
    BY <1>9 DEF BeginMutation, StartDelta, RefuseDelta, DeltaWriteDirty, viewVars, sourceVars
  <2>2. wpc[w] \notin {"ready", "close"}
    BY <1>9 DEF BeginMutation, StartDelta, RefuseDelta, DeltaWriteDirty
  <2>3. QED
    BY <1>1, <2>1, <2>2 DEF DeltaWriteReady, CompleteState
<1>10. QED
  BY <1>2, <1>3, <1>4, <1>5, <1>6, <1>7, <1>8, <1>9 DEF WriterStep

(* The steps of a writer keep the rows of deltas fitting.                  *)
LEMMA WriterDeltas ==
    ASSUME FitTypes, ViewInv, FitInv, NEW w \in Writers, WriterStep(w)
    PROVE  DeltaFits'
<1> USE DEF FitInv
<1>1. ASSUME \A x \in Writers : wpc'[x] \notin DeltaPlaces
      PROVE  DeltaFits'
  BY <1>1 DEF DeltaFits, DeltaPlaces
<1>2. \A x \in Writers \ {w} : wpc'[x] = wpc[x] /\ op'[x] = op[x]
  BY OtherWriters DEF FitTypes, ViewTypes
<1>3. ASSUME ilock = Nobody, wpc'[w] \notin DeltaPlaces
      PROVE  DeltaFits'
  BY <1>1, <1>2, <1>3, LockHolder, ActorAssumption
<1>4. ASSUME ilock = w
      PROVE  \A x \in Writers \ {w} : wpc'[x] \notin DeltaPlaces
  BY <1>2, <1>4, LockHolder
<1>5. CASE BeginMutation(w) \/ RefuseDelta(w) \/ CompleteRevision(w)
  BY <1>3, <1>5 DEF BeginMutation, RefuseDelta, CompleteRevision, WriterGoto, DeltaPlaces,
     FitTypes, ViewTypes
<1>6. CASE CompleteState(w) \/ DeltaWriteReady(w)
  <2>1. ilock = w
    BY <1>6 DEF CompleteState, DeltaWriteReady, ViewInv, WriterHolds
  <2>2. wpc'[w] = "idle"
    BY <1>6 DEF CompleteState, DeltaWriteReady, WriterDone, WriterGoto, FitTypes, ViewTypes
  <2>3. QED
    BY <1>1, <1>4, <2>1, <2>2 DEF DeltaPlaces
<1>7. CASE DeltaWriteRevision(w) \/ DeltaWriteDirty(w)
  <2>1. UNCHANGED <<idx, summary, scene, annot, op>> /\ wpc[w] \in {"revision", "dirty"}
    BY <1>7 DEF DeltaWriteRevision, DeltaWriteDirty, viewVars, sourceVars
  <2>2. state'.pending \subseteq state.pending
    BY <1>7 DEF DeltaWriteRevision, DeltaWriteDirty
  <2>3. \A x \in Writers : Stays(x)
    BY <2>1, WriterStays DEF DeltaWriteReady, CompleteState
  <2>4. QED
    BY <1>2, <2>1, <2>2, <2>3, KeepDelta DEF DeltaPlaces
<1>8. CASE WriteSource(w)
  <2>1. UNCHANGED <<idx, summary, state>> /\ wpc'[w] \notin DeltaPlaces
    BY <1>8 DEF WriteSource, viewVars, WriterGoto, DeltaPlaces, FitTypes, ViewTypes
  <2>2. \A v \in Writers \ {w}, s \in Scenes : \A row :
          /\ IndexFits(row, v, s) => IndexFits(row, v, s)'
          /\ SummaryFits(row, v, s) => SummaryFits(row, v, s)'
    BY <1>8, WrittenFits
  <2>3. SUFFICES ASSUME NEW v \in Writers \ {w}, wpc'[v] \in DeltaPlaces
        PROVE  /\ op'[v].row # Absent /\ SummaryFits(op[v].row, v, op[v].scene)'
               /\ \A s \in Scenes \ {op'[v].scene} :
                    IndexFits(idx.rows[s], v, s)' /\ SummaryFits(summary.rows[s], v, s)'
               /\ wpc'[v] # "index" => idx'.rows[op'[v].scene] = op'[v].row[1]
               /\ wpc'[v] \in {"revision", "dirty", "ready"} => summary'.rows[op'[v].scene] = op'[v].row
               /\ state'.pending \subseteq {v}
    BY <2>1 DEF DeltaFits, DeltaPlaces
  <2>4. wpc'[v] = wpc[v] /\ op'[v] = op[v] /\ op[v].scene \in Scenes
    BY <1>2 DEF FitTypes, Op
  <2>5. SummaryFits(op[v].row, v, op[v].scene)'
    <3>1. SummaryFits(op[v].row, v, op[v].scene)
      BY <2>3, <2>4 DEF DeltaFits, DeltaPlaces
    <3> DEFINE row == op[v].row
               s == op[v].scene
    <3> HIDE DEF row, s
    <3>2. \A r, z : r = row /\ z = s => SummaryFits(r, v, z)'
      BY <2>2, <2>4, <3>1 DEF row, s
    <3>3. QED
      BY <2>4, <3>2 DEF row, s
  <2>6. QED
    BY <2>1, <2>2, <2>3, <2>4, <2>5 DEF DeltaFits, DeltaPlaces
<1>9. CASE DeltaWriteIndex(w) \/ DeltaWriteSummary(w)
  <2> DEFINE s0 == op[w].scene
  <2>1. ilock = w /\ UNCHANGED <<op, state, scene, annot>> /\ wpc[w] \in {"index", "summary"}
    BY <1>9 DEF DeltaWriteIndex, DeltaWriteSummary, ViewInv, WriterHolds, sourceVars
  <2>2. \A x \in Writers \ {w} : wpc'[x] \notin DeltaPlaces
    BY <1>4, <2>1
  <2>3. \A x \in Writers : Stays(x)
    BY <2>1, WriterStays DEF DeltaWriteReady, CompleteState
  <2>4. s0 \in Scenes
    BY DEF FitTypes, Op
  <2>5. \A s \in Scenes \ {s0} : idx'.rows[s] = idx.rows[s] /\ summary'.rows[s] = summary.rows[s]
    BY <1>9 DEF DeltaWriteIndex, DeltaWriteSummary, FitTypes, ViewTypes, IndexFile, SummaryFile
  <2>6. /\ wpc'[w] # "index" => idx'.rows[s0] = op[w].row[1]
        /\ wpc'[w] \in {"revision", "dirty", "ready"} => summary'.rows[s0] = op[w].row
    <3>1. CASE DeltaWriteIndex(w)
      BY <2>4, <3>1 DEF DeltaWriteIndex, WriterGoto, FitTypes, ViewTypes, IndexFile
    <3>2. CASE DeltaWriteSummary(w)
      BY <2>4, <3>2 DEF DeltaWriteSummary, WriterGoto, FitTypes, ViewTypes, SummaryFile, DeltaFits
    <3>3. QED
      BY <1>9, <3>1, <3>2
  <2>7. /\ op[w].row # Absent /\ SummaryFits(op[w].row, w, s0)
        /\ \A s \in Scenes \ {s0} :
             IndexFits(idx.rows[s], w, s) /\ SummaryFits(summary.rows[s], w, s)
        /\ state.pending \subseteq {w}
    BY <2>1 DEF DeltaFits
  <2>8. \A s, kinds : Excused(w, s, kinds) => Excused(w, s, kinds)'
    BY <2>3, ExcusedStays
  <2>9. \A s, row : /\ IndexFits(row, w, s) => IndexFits(row, w, s)'
                    /\ SummaryFits(row, w, s) => SummaryFits(row, w, s)'
    BY <2>1, <2>8 DEF IndexFits, SummaryFits
  <2>10. QED
    BY <2>1, <2>2, <2>5, <2>6, <2>7, <2>9 DEF DeltaFits, DeltaPlaces
<1>10. CASE StartDelta(w)
  <2> DEFINE s0 == op[w].scene
             old == IF op[w].kind = "annotations" THEN op[w].row[2] ELSE summary.rows[s0][2]
  <2>1. /\ ilock = Nobody /\ wpc[w] = "delta" /\ wpc'[w] = "index"
        /\ UNCHANGED <<idx, summary, state, scene, annot>>
        /\ op' = [op EXCEPT ![w].row = <<scene[s0], old>>]
    BY <1>10 DEF StartDelta, WriterGoto, viewVars, sourceVars, FitTypes, ViewTypes, Op
  <2>2. /\ state.pending = {w} /\ idx.rev = revision /\ summary.rev = revision
        /\ scene[s0] # Absent /\ summary.rows[s0] # Absent /\ s0 \in Scenes
    BY <1>10 DEF StartDelta, DeltaApplies, FitTypes, Op
  <2>3. op'[w].row = <<scene[s0], old>> /\ op'[w].scene = s0
    BY <2>1 DEF FitTypes, Op
  <2>4. \A x \in Writers \ {w} : wpc'[x] \notin DeltaPlaces
    BY <1>2, <2>1, LockHolder, ActorAssumption
  <2>5. \A x \in Writers : Stays(x)
    BY <2>1, WriterStays DEF DeltaWriteReady, CompleteState
  <2>6. \A s, kinds : Excused(w, s, kinds) => Excused(w, s, kinds)'
    BY <2>5, ExcusedStays
  <2>7. \A s, kinds : Excused(Nobody, s, kinds) /\ (s # s0 \/ op[w].kind \notin kinds) =>
           Excused(w, s, kinds)
    BY DEF Excused
  <2>8. old = annot[s0] \/ Excused(w, s0, AnnotKinds)
    <3>1. CASE op[w].kind = "annotations"
      <4>1. ~Refused(w)
        BY <2>1, <2>2, ActorAssumption DEF Refused
      <4>2. QED
        BY <2>1, <3>1, <4>1 DEF RowFits
    <3>2. CASE op[w].kind # "annotations"
      <4>1. op[w].kind = "scene"
        BY <2>1, <3>2 DEF RowFits
      <4>2. old = annot[s0] \/ Excused(Nobody, s0, AnnotKinds)
        BY <2>2, <3>2 DEF FilesFit, SummaryFits
      <4>3. QED
        BY <2>7, <4>1, <4>2 DEF AnnotKinds
    <3>3. QED
      BY <3>1, <3>2
  <2>9. old \in Values
    <3>1. CASE op[w].kind = "annotations"
      <4>1. op[w].row \in Values \X Values
        BY <2>1 DEF FitTypes, RowAtHand
      <4>2. old = op[w].row[2]
        BY <3>1
      <4> HIDE DEF old
      <4>3. QED
        BY <4>1, <4>2
    <3>2. CASE op[w].kind # "annotations"
      BY <2>2, <3>2 DEF FitTypes, ViewTypes, SummaryFile, Rows
    <3>3. QED
      BY <3>1, <3>2
  <2>10. scene[s0] \in Values
    BY <2>2 DEF FitTypes, SceneDocs
  <2> HIDE DEF old
  <2>11. <<scene[s0], old>> # Absent
    BY <2>9, <2>10, DocumentAssumption
  <2>12. SummaryFits(<<scene[s0], old>>, w, s0)
    BY <2>8, <2>11 DEF SummaryFits, IndexFits, SceneOf
  <2>13. \A s \in Scenes \ {s0} : IndexFits(idx.rows[s], w, s) /\ SummaryFits(summary.rows[s], w, s)
    BY <2>2, <2>7 DEF FilesFit, IndexFits, SummaryFits
  <2>14. \A s, row : /\ IndexFits(row, w, s) => IndexFits(row, w, s)'
                     /\ SummaryFits(row, w, s) => SummaryFits(row, w, s)'
    BY <2>1, <2>6 DEF IndexFits, SummaryFits
  <2>15. op'[w].row # Absent /\ SummaryFits(op[w].row, w, op[w].scene)'
    <3> DEFINE row == <<scene[s0], old>>
    <3> HIDE DEF row, s0
    <3>1. \A r, z : r = row /\ z = s0 => SummaryFits(r, w, z)'
      BY <2>12, <2>14 DEF row
    <3>2. QED
      BY <2>3, <2>11, <3>1 DEF row
  <2>16. QED
    BY <2>1, <2>2, <2>3, <2>4, <2>13, <2>14, <2>15 DEF DeltaFits, DeltaPlaces
<1>11. QED
  BY <1>5, <1>6, <1>7, <1>8, <1>9, <1>10 DEF WriterStep

(* Failing rebuilds, or mutations that escape the locks of the documents   *)
(* (batches, deletions), but not both.                                     *)
GuardedSaves == ~BuildFaults \/ Kinds \subseteq {"scene", "annotations"}

(* The steps of a writer keep the rows at hand; what is left of a delta    *)
(* when somebody else has advanced the revision is refused.                *)
LEMMA WriterRows ==
    ASSUME FitTypes, ViewInv, FitInv, SavesExclude, GuardedSaves, NEW w \in Writers,
           WriterStep(w)
    PROVE  RowFits'
<1> USE DEF FitInv
<1>1. \A x \in Writers \ {w} : wpc'[x] = wpc[x] /\ op'[x] = op[x] /\ Stays(x)
  BY OtherWriters DEF FitTypes, ViewTypes
<1>2. ASSUME UNCHANGED annot, wpc'[w] # "delta",
             \A x \in Writers \ {w} : wpc[x] = "delta" =>
                \/ Refused(x)'
                \/ (Refused(x) => Refused(x)') /\ ~DeltaWriteReady(w) /\ ~CompleteState(w)
      PROVE  RowFits'
  BY <1>1, <1>2, KeepRows, WriterStays
<1>3. ASSUME ilock = w
      PROVE  ilock \notin Readers
  BY <1>3, ActorAssumption
<1>4. CASE BeginMutation(w)
  <2>1. wpc'[w] = "write" /\ UNCHANGED <<annot, ilock, idx, summary, revision>> /\ wpc[w] = "begin"
    BY <1>4 DEF BeginMutation, WriterGoto, FitTypes, ViewTypes, sourceVars, viewVars
  <2>2. state'.pending = state.pending \union {w}
    BY <1>4 DEF BeginMutation, FitTypes, ViewTypes, State
  <2>3. \A x \in Writers \ {w} : Refused(x) => Refused(x)'
    BY <2>1, <2>2 DEF Refused
  <2>4. QED
    BY <1>2, <2>1, <2>3 DEF DeltaWriteReady, CompleteState
<1>5. CASE WriteSource(w)
  <2>1. UNCHANGED <<idx, summary, state, ilock, revision>>
    BY <1>5 DEF WriteSource, viewVars
  <2>2. wpc'[w] = "delta" => op'[w].kind \in {"scene", "annotations"}
    BY <1>5, WrittenFits
  <2>3. op'[w].kind = "annotations" => op'[w].row[2] = annot'[op'[w].scene]
    BY <1>5, WrittenFits
  <2>4. ASSUME NEW x \in Writers \ {w}, wpc'[x] = "delta", op'[x].kind = "annotations"
        PROVE  \/ op'[x].row[2] = annot'[op'[x].scene]
               \/ ~BuildFaults /\ (Excused(x, op[x].scene, AnnotKinds)' \/ Refused(x)')
    <3>1. wpc[x] = "delta" /\ op'[x] = op[x] /\ op[x].scene \in Scenes
      BY <1>1, <2>4 DEF FitTypes, Op
    <3>2. Refused(x) => Refused(x)'
      BY <2>1 DEF Refused
    <3>3. Excused(x, op[x].scene, AnnotKinds) => Excused(x, op[x].scene, AnnotKinds)'
      BY <1>5, <3>1, WrittenFits DEF Excused, Stays
    <3>4. CASE annot'[op[x].scene] = annot[op[x].scene]
      BY <2>4, <3>1, <3>2, <3>3, <3>4 DEF RowFits
    <3>5. CASE annot'[op[x].scene] # annot[op[x].scene]
      <4>1. op'[w].scene = op[x].scene /\ op'[w].kind = op[w].kind /\ op[w].kind \in AnnotKinds
            /\ op[w].scene = op[x].scene
        BY <1>5, <3>1, <3>5, WrittenFits
      <4>2. InFlight(w)'
        BY <1>5, WrittenFits
      <4>3. Excused(x, op[x].scene, AnnotKinds)'
        BY <3>1, <4>1, <4>2 DEF Excused
      <4>4. ~BuildFaults
        <5>1. op[w].kind # "annotations"
          BY <2>4, <3>1, <4>1 DEF SavesExclude
        <5>2. op[w].kind \in Kinds
          BY <4>1 DEF FitTypes, Op, AnnotKinds
        <5>3. op[w].kind \notin {"scene", "annotations"}
          BY <4>1, <5>1 DEF AnnotKinds
        <5>4. QED
          BY <5>2, <5>3 DEF GuardedSaves
      <4>5. QED
        BY <4>3, <4>4
    <3>6. QED
      BY <3>4, <3>5
  <2>5. \A x \in Writers \ {w} : wpc'[x] = "delta" => op'[x].kind \in {"scene", "annotations"}
    BY <1>1 DEF RowFits
  <2>6. QED
    BY <2>2, <2>3, <2>4, <2>5 DEF RowFits
<1>6. CASE StartDelta(w)
  <2>1. wpc'[w] = "index" /\ UNCHANGED <<annot, idx, summary, revision, state>> /\ ilock = Nobody
        /\ wpc[w] = "delta"
    BY <1>6 DEF StartDelta, WriterGoto, FitTypes, ViewTypes, sourceVars, viewVars
  <2>2. \A x \in Writers \ {w} : Refused(x) => Refused(x)'
    BY <2>1, ActorAssumption DEF Refused
  <2>3. QED
    BY <1>2, <2>1, <2>2 DEF DeltaWriteReady, CompleteState
<1>7. CASE RefuseDelta(w)
  <2>1. wpc'[w] = "plain" /\ UNCHANGED <<annot, idx, summary, revision, state, ilock>>
        /\ wpc[w] = "delta"
    BY <1>7 DEF RefuseDelta, WriterGoto, FitTypes, ViewTypes, sourceVars, viewVars
  <2>2. \A x \in Writers \ {w} : Refused(x) => Refused(x)'
    BY <2>1 DEF Refused
  <2>3. QED
    BY <1>2, <2>1, <2>2 DEF DeltaWriteReady, CompleteState
<1>8. CASE DeltaWriteIndex(w) \/ DeltaWriteSummary(w)
  <2>1. wpc'[w] \in {"summary", "revision"} /\ UNCHANGED annot
    BY <1>8 DEF DeltaWriteIndex, DeltaWriteSummary, WriterGoto, FitTypes, ViewTypes, sourceVars
  <2>2. idx'.rev # revision' \/ summary'.rev # revision'
    BY <1>8 DEF DeltaWriteIndex, DeltaWriteSummary, FitTypes, ViewTypes
  <2>3. QED
    BY <1>2, <2>1, <2>2 DEF Refused
<1>9. CASE DeltaWriteRevision(w) \/ DeltaWriteDirty(w) \/ DeltaWriteReady(w)
  <2>1. wpc'[w] \in {"dirty", "ready", "idle"} /\ UNCHANGED annot
    BY <1>9 DEF DeltaWriteRevision, DeltaWriteDirty, DeltaWriteReady, WriterDone, WriterGoto,
       FitTypes, ViewTypes, sourceVars
  <2>2. state.pending \subseteq {w}
    BY <1>9 DEF DeltaWriteRevision, DeltaWriteDirty, DeltaWriteReady, DeltaFits
  <2>3. state'.pending \subseteq {w}
    BY <1>9, <2>2 DEF DeltaWriteRevision, DeltaWriteDirty, DeltaWriteReady, FitTypes, ViewTypes,
       State
  <2>4. QED
    BY <1>2, <2>1, <2>3 DEF Refused
<1>10. CASE CompleteRevision(w)
  <2>1. ilock = Nobody /\ wpc'[w] = "close" /\ revision' = revision + 1
        /\ UNCHANGED <<idx, annot>>
    BY <1>10 DEF CompleteRevision, WriterGoto, FitTypes, ViewTypes, sourceVars, viewVars
  <2>2. idx.rev <= revision
    BY <2>1, LockHolder, ActorAssumption DEF RevisionsLead, DeltaPlaces
  <2>3. idx'.rev # revision'
    BY <2>1, <2>2 DEF FitTypes, ViewTypes, IndexFile, Revisions
  <2>4. QED
    BY <1>2, <2>1, <2>3 DEF Refused
<1>11. CASE CompleteState(w)
  <2>1. idx.rev < revision /\ wpc'[w] = "idle" /\ UNCHANGED <<idx, revision, annot>>
    BY <1>11 DEF CompleteState, RevisionsLead, WriterDone, WriterGoto, FitTypes, ViewTypes,
       sourceVars, viewVars
  <2>2. idx'.rev # revision'
    BY <2>1 DEF FitTypes, ViewTypes, IndexFile, Revisions
  <2>3. QED
    BY <1>2, <2>1, <2>2 DEF Refused
<1>12. QED
  BY <1>4, <1>5, <1>6, <1>7, <1>8, <1>9, <1>10, <1>11 DEF WriterStep

(* The steps of a writer keep the drafts of rebuilds that may still be     *)
(* published.                                                              *)
LEMMA WriterDrafts ==
    ASSUME FitTypes, ViewInv, FitInv, NEW w \in Writers, WriterStep(w)
    PROVE  DraftFits'
<1> USE DEF FitInv
<1>1. UNCHANGED <<rpc, seen, todo, draft>>
  BY DEF WriterStep, BeginMutation, WriteSource, StartDelta, RefuseDelta, DeltaWriteIndex,
     DeltaWriteSummary, DeltaWriteRevision, DeltaWriteDirty, DeltaWriteReady, CompleteRevision,
     CompleteState, readerVars
<1>2. ASSUME \A r \in Readers : ~Unchanged(r)', \A r \in Readers : rpc[r] \notin PublishPlaces
      PROVE  DraftFits'
  BY <1>1, <1>2 DEF DraftFits, PublishPlaces
<1>3. \A r \in Readers : r # Nobody /\ r # w
  BY ActorAssumption
<1>4. CASE BeginMutation(w) \/ CompleteState(w)
  <2>1. state'.build = Nobody
    BY <1>4 DEF BeginMutation, CompleteState, FitTypes, ViewTypes, State
  <2>2. ilock \notin Readers
    BY <1>3, <1>4 DEF BeginMutation, CompleteState, ViewInv, WriterHolds
  <2>3. QED
    BY <1>2, <1>3, <2>1, <2>2, LockHolder DEF Unchanged
<1>5. CASE WriteSource(w)
  <2>1. w # Nobody /\ UNCHANGED <<state, revision>>
    BY <1>5, ActorAssumption DEF WriteSource
  <2>2. \A s \in Scenes : \A row :
          /\ IndexFits(row, Nobody, s) => IndexFits(row, Nobody, s)'
          /\ SummaryFits(row, Nobody, s) => SummaryFits(row, Nobody, s)'
    BY <1>5, <2>1, WrittenFits
  <2>3. QED
    BY <1>1, <2>1, <2>2 DEF DraftFits, Unchanged
<1>6. ASSUME UNCHANGED <<state, revision, scene, annot>>, ~DeltaWriteReady(w), ~CompleteState(w)
      PROVE  DraftFits'
  BY <1>1, <1>6, KeepDrafts, WriterStays DEF Unchanged
<1>7. CASE StartDelta(w) \/ RefuseDelta(w) \/ DeltaWriteIndex(w) \/ DeltaWriteSummary(w)
  <2>1. wpc[w] \in {"delta", "index", "summary"} /\ UNCHANGED <<state, revision, scene, annot>>
    BY <1>7 DEF StartDelta, RefuseDelta, DeltaWriteIndex, DeltaWriteSummary, sourceVars
  <2>2. QED
    BY <1>6, <2>1 DEF DeltaWriteReady, CompleteState
<1>8. CASE DeltaWriteRevision(w) \/ DeltaWriteDirty(w) \/ DeltaWriteReady(w)
  <2>1. wpc[w] \in {"revision", "dirty", "ready"}
    BY <1>8 DEF DeltaWriteRevision, DeltaWriteDirty, DeltaWriteReady
  <2>2. state.status = "dirty" /\ ilock = w
    BY <2>1 DEF ViewInv, DeltaStamped, WriterHolds
  <2>3. state'.status \in {"dirty", "ready"}
    BY <1>8, <2>2 DEF DeltaWriteRevision, DeltaWriteDirty, DeltaWriteReady, FitTypes, ViewTypes,
       State
  <2>4. QED
    BY <1>2, <1>3, <2>2, <2>3, LockHolder DEF Unchanged
<1>9. CASE CompleteRevision(w)
  <2>1. ilock = Nobody /\ revision' = revision + 1
    BY <1>9 DEF CompleteRevision
  <2>2. \A r \in Readers : seen'[r] \in Nat /\ seen'[r] <= revision /\ revision \in Nat
    BY <1>1 DEF RevisionsLead, FitTypes, ViewTypes
  <2>3. \A r \in Readers : revision' # seen'[r]
    BY <2>1, <2>2
  <2>4. QED
    BY <1>2, <1>3, <2>1, <2>3, LockHolder DEF Unchanged
<1>10. QED
  BY <1>4, <1>5, <1>7, <1>8, <1>9 DEF WriterStep

(* The steps of a reader move no writer and no source document.            *)
LEMMA ReaderLeaves ==
    ASSUME NEW r \in Readers,
           AskRevision(r) \/ ReaderStep(r) \/ BuildRaises(r) \/ ReaderCrash(r)
    PROVE  /\ UNCHANGED <<scene, annot, revision, wpc, op>>
           /\ \A x \in Writers : Stays(x)
<1>1. UNCHANGED <<scene, annot, revision, wpc, op>>
  BY DEF ReaderStep, AskRevision, AskState, ReadDocument, VerifyDocument, EnterRebuild,
         PeekState, PeekDocuments, StartBuild, ScanScene, StartPublish, BuildOvertaken,
         PublishIndex, PublishSummary, PublishReady, BuildRaises, SetFailedState, ReaderCrash,
         writerVars, sourceVars
<1>2. QED
  BY <1>1 DEF Stays, InFlight

(* The steps by which a rebuild reads and publishes, one by one.           *)
LEMMA BuildFits ==
    ASSUME FitTypes, ViewInv, FitInv, NEW r \in Readers,
           \/ StartBuild(r) \/ StartPublish(r) \/ PublishIndex(r) \/ PublishSummary(r)
           \/ PublishReady(r) \/ \E s \in Scenes : ScanScene(r, s)
    PROVE  FilesFit' /\ DeltaFits' /\ RowFits' /\ DraftFits'
<1> USE DEF FitInv
<1>1. UNCHANGED <<scene, annot, revision, wpc, op>> /\ \A x \in Writers : Stays(x)
  <2>1. ReaderStep(r)
    BY DEF ReaderStep
  <2>2. QED
    BY <2>1, ReaderLeaves
<1>2. \A s, kinds : Excused(Nobody, s, kinds) => Excused(Nobody, s, kinds)'
  BY <1>1, ExcusedStays
<1>3. \A s, row : /\ IndexFits(row, Nobody, s) => IndexFits(row, Nobody, s)'
                  /\ SummaryFits(row, Nobody, s) => SummaryFits(row, Nobody, s)'
  BY <1>1, <1>2 DEF IndexFits, SummaryFits
<1>4. ASSUME ilock \notin Writers
      PROVE  DeltaFits'
  <2>1. \A x \in Writers : wpc'[x] \notin DeltaPlaces
    BY <1>1, <1>4, LockHolder
  <2>2. QED
    BY <2>1 DEF DeltaFits, DeltaPlaces
<1>5. ASSUME \A x \in Writers : Refused(x) => Refused(x)'
      PROVE  RowFits'
  BY <1>1, <1>5, KeepRows
<1>6. ASSUME \A x \in Writers : Refused(x)'
      PROVE  RowFits'
  BY <1>1, <1>6, KeepRows
<1>7. ASSUME UNCHANGED <<idx, summary>>
      PROVE  FilesFit'
  BY <1>1, <1>7, KeepFiles
<1>8. r \notin Writers /\ r # Nobody /\ Nobody \notin Readers /\ Nobody \notin Writers
  BY ActorAssumption
<1>9. CASE StartBuild(r)
  <2>1. /\ ilock = Nobody /\ UNCHANGED <<idx, summary, ilock>>
        /\ rpc' = [rpc EXCEPT ![r] = "scan"] /\ todo' = [todo EXCEPT ![r] = Reads]
        /\ draft' = [draft EXCEPT ![r] = NoDraft]
        /\ state' = [state EXCEPT !.status = "building", !.rev = revision, !.build = r]
    BY <1>9 DEF StartBuild, viewVars, ReaderGoto
  <2>2. state'.pending = state.pending /\ state'.build = r
    BY <2>1 DEF FitTypes, ViewTypes, State
  <2>3. \A x \in Readers \ {r} : ~Unchanged(x)' /\ rpc'[x] \notin PublishPlaces
    BY <1>8, <2>1, <2>2, LockHolder DEF Unchanged, FitTypes, ViewTypes
  <2>4. rpc'[r] = "scan" /\ todo'[r] = Reads
    BY <2>1 DEF FitTypes, ViewTypes
  <2>5. DraftFits'
    BY <2>3, <2>4 DEF DraftFits, Reads, PublishPlaces
  <2>6. \A x \in Writers : Refused(x) => Refused(x)'
    BY <1>1, <2>1, <2>2 DEF Refused
  <2>7. QED
    BY <1>4, <1>5, <1>7, <1>8, <2>1, <2>5, <2>6
<1>10. CASE StartPublish(r)
  <2>1. /\ ilock = Nobody /\ ilock' = r /\ UNCHANGED <<idx, summary, state, seen, todo, draft>>
        /\ rpc' = [rpc EXCEPT ![r] = "index"] /\ rpc[r] = "scan" /\ Unchanged(r) /\ todo[r] = {}
    BY <1>10 DEF StartPublish, viewVars, ReaderGoto
  <2>2. \A x \in Readers \ {r} : rpc'[x] = rpc[x] /\ rpc'[x] \notin PublishPlaces
    BY <1>8, <2>1, LockHolder DEF FitTypes, ViewTypes
  <2>3. rpc'[r] = "index"
    BY <2>1 DEF FitTypes, ViewTypes
  <2>4. \A x \in Readers : Unchanged(x)' <=> Unchanged(x)
    BY <1>1, <2>1 DEF Unchanged
  <2>5. ASSUME NEW x \in Readers \ {r}, rpc'[x] = "scan", Unchanged(x)', NEW s \in Scenes
        PROVE  /\ <<"index", s>> \notin todo'[x] => IndexFits(draft[x].index[s], Nobody, s)'
               /\ <<"summary", s>> \notin todo'[x] => SummaryFits(draft[x].summary[s], Nobody, s)'
    <3>1. /\ <<"index", s>> \notin todo[x] => IndexFits(draft[x].index[s], Nobody, s)
          /\ <<"summary", s>> \notin todo[x] => SummaryFits(draft[x].summary[s], Nobody, s)
      BY <2>2, <2>4, <2>5 DEF DraftFits
    <3>2. QED
      BY <1>3, <2>1, <3>1
  <2>6. ASSUME NEW s \in Scenes
        PROVE  IndexFits(draft[r].index[s], Nobody, s)' /\ SummaryFits(draft[r].summary[s], Nobody, s)'
    <3>1. IndexFits(draft[r].index[s], Nobody, s) /\ SummaryFits(draft[r].summary[s], Nobody, s)
      BY <2>1 DEF DraftFits
    <3>2. QED
      BY <1>1, <1>2, <2>1, <3>1 DEF IndexFits, SummaryFits
  <2>7. DraftFits'
    BY <2>1, <2>2, <2>3, <2>5, <2>6 DEF DraftFits, PublishPlaces
  <2>8. \A x \in Writers : Refused(x)'
    BY <2>1 DEF Refused
  <2>9. QED
    BY <1>4, <1>6, <1>7, <1>8, <2>1, <2>7, <2>8
<1>11. CASE PublishIndex(r) \/ PublishSummary(r)
  <2>1. /\ ilock = r /\ UNCHANGED <<ilock, seen, todo, draft, state>>
        /\ rpc[r] \in {"index", "summary"}
    BY <1>11 DEF PublishIndex, PublishSummary, ViewInv, ReaderHolds
  <2>2. \A s \in Scenes : /\ IndexFits(draft[r].index[s], Nobody, s)
                          /\ SummaryFits(draft[r].summary[s], Nobody, s)
    BY <2>1 DEF DraftFits
  <2>3. \/ idx'.rows = draft[r].index /\ UNCHANGED summary
        \/ summary'.rows = draft[r].summary /\ UNCHANGED idx
    BY <1>11 DEF PublishIndex, PublishSummary
  <2>4. FilesFit'
    BY <1>1, <1>3, <2>2, <2>3 DEF FilesFit
  <2>5. PICK place \in {"summary", "ready"} : rpc' = [rpc EXCEPT ![r] = place]
    BY <1>11 DEF PublishIndex, PublishSummary, ReaderGoto
  <2>6. \A x \in Readers : /\ rpc'[x] = "scan" => rpc[x] = "scan"
                           /\ rpc'[x] \in PublishPlaces => rpc[x] \in PublishPlaces
    BY <2>1, <2>5 DEF FitTypes, ViewTypes, PublishPlaces
  <2>7. DraftFits'
    BY <1>1, <2>1, <2>6, KeepDrafts DEF Unchanged
  <2>8. \A x \in Writers : Refused(x)'
    BY <2>1 DEF Refused
  <2>9. QED
    BY <1>4, <1>6, <1>8, <2>1, <2>4, <2>7, <2>8
<1>12. CASE PublishReady(r)
  <2>1. ilock = r /\ UNCHANGED <<idx, summary>> /\ rpc' = [rpc EXCEPT ![r] = "answered"]
    BY <1>12 DEF PublishReady, ViewInv, ReaderHolds, ReaderGoto, viewVars
  <2>2. state'.status = "ready" /\ state'.pending = {}
    BY <1>12 DEF PublishReady
  <2>3. \A x \in Readers : rpc'[x] \notin PublishPlaces
    BY <2>1, LockHolder DEF FitTypes, ViewTypes, PublishPlaces
  <2>4. DraftFits'
    BY <2>2, <2>3 DEF DraftFits, Unchanged, PublishPlaces
  <2>5. \A x \in Writers : Refused(x)'
    BY <2>2 DEF Refused
  <2>6. QED
    BY <1>4, <1>6, <1>7, <1>8, <2>1, <2>4, <2>5
<1>13. ASSUME NEW s0 \in Scenes, ScanScene(r, s0)
       PROVE  FilesFit' /\ DeltaFits' /\ RowFits' /\ DraftFits'
  <2>1. UNCHANGED <<idx, summary, state, ilock, rpc, seen>> /\ rpc[r] = "scan"
    BY <1>13 DEF ScanScene, viewVars
  <2>2. FilesFit'
    BY <1>7, <2>1
  <2>3. RowFits'
    BY <1>1, <1>5, <2>1 DEF Refused
  <2>4. DeltaFits'
    BY <1>1, <2>1, KeepDelta
  <2>5. \A x \in Readers : Unchanged(x)' <=> Unchanged(x)
    BY <1>1, <2>1 DEF Unchanged
  <2>6. \A x \in Readers \ {r} : todo'[x] = todo[x] /\ draft'[x] = draft[x]
    BY <1>13 DEF ScanScene, FitTypes
  <2>7. IndexFits(scene[s0], Nobody, s0) /\ SummaryFits(Row(s0), Nobody, s0)
    <3>1. scene[s0] # Absent => Row(s0) # Absent
      BY DocumentAssumption DEF Row, FitTypes, SceneDocs
    <3>2. QED
      BY <3>1 DEF IndexFits, SummaryFits, SceneOf, Row
  <2>8. ASSUME NEW s \in Scenes, Unchanged(r)
        PROVE  /\ <<"index", s>> \notin todo'[r] => IndexFits(draft'[r].index[s], Nobody, s)
               /\ <<"summary", s>> \notin todo'[r] => SummaryFits(draft'[r].summary[s], Nobody, s)
    <3>1. /\ <<"index", s>> \notin todo[r] => IndexFits(draft[r].index[s], Nobody, s)
          /\ <<"summary", s>> \notin todo[r] => SummaryFits(draft[r].summary[s], Nobody, s)
      BY <2>1, <2>8 DEF DraftFits
    <3>2. draft[r].index \in [Scenes -> SceneDocs] /\ draft[r].summary \in [Scenes -> Rows]
      BY DEF FitTypes, Draft
    <3>3. CASE /\ todo' = [todo EXCEPT ![r] = @ \ {<<"index", s0>>}]
               /\ draft' = [draft EXCEPT ![r].index[s0] = scene[s0]]
      <4>1. todo'[r] = todo[r] \ {<<"index", s0>>}
        BY <3>3 DEF FitTypes
      <4>2. /\ draft'[r].summary = draft[r].summary
            /\ draft'[r].index = [draft[r].index EXCEPT ![s0] = scene[s0]]
        BY <3>3 DEF FitTypes, Draft
      <4>3. draft'[r].index[s] = IF s = s0 THEN scene[s0] ELSE draft[r].index[s]
        BY <3>2, <4>2
      <4>4. <<"summary", s>> \notin todo'[r] => <<"summary", s>> \notin todo[r]
        BY <4>1
      <4>5. s # s0 /\ <<"index", s>> \notin todo'[r] => <<"index", s>> \notin todo[r]
        BY <4>1
      <4>6. QED
        BY <2>7, <3>1, <4>2, <4>3, <4>4, <4>5
    <3>4. CASE /\ todo' = [todo EXCEPT ![r] = @ \ {<<"summary", s0>>}]
               /\ draft' = [draft EXCEPT ![r].summary[s0] = Row(s0)]
      <4>1. todo'[r] = todo[r] \ {<<"summary", s0>>}
        BY <3>4 DEF FitTypes
      <4>2. /\ draft'[r].index = draft[r].index
            /\ draft'[r].summary = [draft[r].summary EXCEPT ![s0] = Row(s0)]
        BY <3>4 DEF FitTypes, Draft
      <4>3. draft'[r].summary[s] = IF s = s0 THEN Row(s0) ELSE draft[r].summary[s]
        BY <3>2, <4>2
      <4>4. <<"index", s>> \notin todo'[r] => <<"index", s>> \notin todo[r]
        BY <4>1
      <4>5. s # s0 /\ <<"summary", s>> \notin todo'[r] => <<"summary", s>> \notin todo[r]
        BY <4>1
      <4>6. QED
        BY <2>7, <3>1, <4>2, <4>3, <4>4, <4>5
    <3>5. QED
      BY <1>13, <3>3, <3>4 DEF ScanScene
  <2>9. \A x \in Readers : rpc'[x] \in PublishPlaces => x # r
    BY <2>1 DEF PublishPlaces
  <2>10. ASSUME NEW x \in Readers,
                (rpc'[x] = "scan" /\ Unchanged(x)') \/ rpc'[x] \in PublishPlaces,
                NEW s \in Scenes
         PROVE  /\ <<"index", s>> \notin todo'[x] => IndexFits(draft'[x].index[s], Nobody, s)
                /\ <<"summary", s>> \notin todo'[x] => SummaryFits(draft'[x].summary[s], Nobody, s)
    <3>1. CASE x = r
      BY <2>5, <2>8, <2>9, <2>10, <3>1
    <3>2. CASE x # r
      BY <2>1, <2>5, <2>6, <2>10, <3>2 DEF DraftFits, PublishPlaces
    <3>3. QED
      BY <3>1, <3>2
  <2>11. \A x \in Readers : rpc'[x] \in PublishPlaces => todo'[x] = {}
    BY <2>1, <2>6, <2>9 DEF DraftFits, PublishPlaces
  <2>12. DraftFits'
    BY <1>3, <2>10, <2>11 DEF DraftFits, PublishPlaces
  <2>13. QED
    BY <2>2, <2>3, <2>4, <2>12
<1>14. QED
  BY <1>9, <1>10, <1>11, <1>12, <1>13

(* The other steps of a reader leave the view and the drafts alone, or     *)
(* give up a rebuild.                                                      *)
LEMMA ReaderFits ==
    ASSUME FitTypes, ViewInv, FitInv, NEW r \in Readers,
           AskRevision(r) \/ ReaderStep(r) \/ BuildRaises(r) \/ ReaderCrash(r)
    PROVE  FilesFit' /\ DeltaFits' /\ RowFits' /\ DraftFits'
<1> USE DEF FitInv
<1>1. UNCHANGED <<scene, annot, revision, wpc, op>> /\ \A x \in Writers : Stays(x)
  BY ReaderLeaves
<1>2. ASSUME UNCHANGED <<idx, summary>>, state'.pending = state.pending
      PROVE  FilesFit' /\ DeltaFits'
  BY <1>1, <1>2, KeepFiles, KeepDelta
<1>3. ASSUME UNCHANGED <<idx, summary>>, state'.pending = state.pending,
             BuildFaults \/ UNCHANGED ilock
      PROVE  RowFits'
  BY <1>1, <1>3, KeepRows DEF Refused
<1>4. ASSUME NEW place, ReaderGoto(r, place), place # "scan", place \notin PublishPlaces,
             UNCHANGED <<todo, draft>>,
             \A x \in Readers \ {r} : Unchanged(x)' => Unchanged(x)
      PROVE  DraftFits'
  <2>1. \A x \in Readers : rpc'[x] \in PublishPlaces \union {"scan"} => x # r /\ rpc'[x] = rpc[x]
    BY <1>4 DEF ReaderGoto, FitTypes, ViewTypes
  <2>2. QED
    BY <1>1, <1>4, <2>1, KeepDrafts
<1>5. ASSUME AskRevision(r) \/ AskState(r) \/ ReadDocument(r) \/ VerifyDocument(r)
             \/ EnterRebuild(r) \/ PeekState(r) \/ PeekDocuments(r) \/ BuildOvertaken(r)
             \/ BuildRaises(r) \/ ReaderCrash(r)
      PROVE  FilesFit' /\ DeltaFits' /\ RowFits' /\ DraftFits'
  <2>1. UNCHANGED <<idx, summary, state, todo, draft>> /\ (BuildFaults \/ UNCHANGED ilock)
    BY <1>5 DEF AskRevision, AskState, ReadDocument, VerifyDocument, EnterRebuild, PeekState,
       PeekDocuments, BuildOvertaken, BuildRaises, ReaderCrash, viewVars
  <2>2. UNCHANGED seen \/ seen' = [seen EXCEPT ![r] = revision]
    BY <1>5 DEF AskRevision, AskState, ReadDocument, VerifyDocument, EnterRebuild, PeekState,
       PeekDocuments, BuildOvertaken, BuildRaises, ReaderCrash
  <2>3. PICK place \in {"state", "doc", "queue", "verify", "answered", "peek", "peekdocs",
                        "start", "idle", "failed"} : ReaderGoto(r, place)
    BY <1>5 DEF AskRevision, AskState, ReadDocument, VerifyDocument, EnterRebuild, PeekState,
       PeekDocuments, BuildOvertaken, BuildRaises, ReaderCrash
  <2>4. \A x \in Readers \ {r} : Unchanged(x)' => Unchanged(x)
    BY <1>1, <2>1, <2>2 DEF Unchanged, FitTypes, ViewTypes
  <2>5. QED
    BY <1>2, <1>3, <1>4, <2>1, <2>3, <2>4 DEF PublishPlaces
<1>6. CASE SetFailedState(r)
  <2>1. UNCHANGED <<idx, summary, todo, draft, seen, ilock>> /\ ReaderGoto(r, "idle")
    BY <1>6 DEF SetFailedState, viewVars
  <2>2. state'.pending = state.pending /\ (UNCHANGED state \/ state'.build = Nobody)
    BY <1>6 DEF SetFailedState, FitTypes, ViewTypes, State
  <2>3. \A x \in Readers : Unchanged(x)' => Unchanged(x)
    BY <1>1, <2>1, <2>2, ActorAssumption DEF Unchanged
  <2>4. QED
    BY <1>2, <1>3, <1>4, <2>1, <2>2, <2>3 DEF PublishPlaces
<1>7. QED
  BY <1>5, <1>6, BuildFits DEF ReaderStep

(* While no mutation has died, every step keeps the view fitting.          *)
LEMMA StepFits ==
    ASSUME FitTypes, ViewInv, SavesExclude, GuardedSaves, FitInv, [Next]_vars, crashes' = 0,
           crashes = 0
    PROVE  FitInv'
<1>1. ASSUME NEW w \in Writers, NEW kind \in Kinds, NEW s \in Scenes, OpenDocument(w, kind, s)
      PROVE  FitInv'
  <2>1. wpc' = [wpc EXCEPT ![w] = "begin"] /\ wpc[w] = "idle"
        /\ UNCHANGED <<scene, annot, revision, state, idx, summary, ilock, rpc, seen, todo, draft>>
    BY <1>1 DEF OpenDocument, WriterGoto, sourceVars, viewVars, readerVars
  <2>2. \A x \in Writers \ {w} : wpc'[x] = wpc[x] /\ op'[x] = op[x] /\ Stays(x)
    BY <1>1, OtherWriters DEF FitTypes, ViewTypes
  <2>3. wpc'[w] = "begin" /\ Stays(w)
    BY <2>1 DEF FitTypes, ViewTypes, Stays, InFlight
  <2>4. FilesFit'
    BY <2>1, <2>2, <2>3, KeepFiles DEF FitInv
  <2>5. DeltaFits'
    BY <2>1, <2>2, <2>3, KeepDelta DEF FitInv, DeltaPlaces
  <2>6. RowFits'
    BY <2>1, <2>2, <2>3, KeepRows DEF FitInv, Refused
  <2>7. DraftFits'
    BY <2>1, <2>2, <2>3, KeepDrafts DEF FitInv, Unchanged
  <2>8. RevisionsLead'
    BY <2>1, <2>2, <2>3 DEF FitInv, RevisionsLead
  <2>9. QED
    BY <2>4, <2>5, <2>6, <2>7, <2>8 DEF FitInv
<1>2. ASSUME NEW w \in Writers, WriterStep(w)
      PROVE  FitInv'
  BY <1>2, WriterFiles, WriterDeltas, WriterRows, WriterDrafts, WriterRevisions DEF FitInv
<1>3. ASSUME NEW w \in Writers, WriterCrash(w)
      PROVE  FALSE
  BY <1>3 DEF WriterCrash
<1>4. ASSUME NEW r \in Readers,
             AskRevision(r) \/ ReaderStep(r) \/ BuildRaises(r) \/ ReaderCrash(r)
      PROVE  FitInv'
  BY <1>4, ReaderFits, ReaderRevisions DEF FitInv
<1>5. CASE UNCHANGED vars
  BY <1>5 DEF vars, FitInv, FilesFit, DeltaFits, RowFits, DraftFits, RevisionsLead, Refused,
     IndexFits, SummaryFits, Excused, InFlight, SceneOf, Unchanged, sourceVars, viewVars,
     writerVars, readerVars
<1>6. QED
  BY <1>1, <1>2, <1>3, <1>4, <1>5 DEF Next

(* The number of crashes only grows.                                       *)
LEMMA CrashesStay ==
    ASSUME crashes \in Nat, [Next]_vars, crashes' = 0
    PROVE  crashes = 0
<1>1. ASSUME NEW w \in Writers, WriterStep(w)
      PROVE  UNCHANGED crashes
  BY <1>1 DEF WriterStep, BeginMutation, WriteSource, StartDelta, RefuseDelta, DeltaWriteIndex,
     DeltaWriteSummary, DeltaWriteRevision, DeltaWriteDirty, DeltaWriteReady, CompleteRevision,
     CompleteState
<1>2. ASSUME NEW r \in Readers,
             AskRevision(r) \/ ReaderStep(r) \/ BuildRaises(r) \/ ReaderCrash(r)
      PROVE  UNCHANGED crashes
  BY <1>2 DEF ReaderStep, AskRevision, AskState, ReadDocument, VerifyDocument, EnterRebuild,
     PeekState, PeekDocuments, StartBuild, ScanScene, StartPublish, BuildOvertaken,
     PublishIndex, PublishSummary, PublishReady, BuildRaises, SetFailedState, ReaderCrash
<1>3. ASSUME NEW w \in Writers, WriterCrash(w)
      PROVE  crashes' = crashes + 1
  BY <1>3 DEF WriterCrash
<1>4. QED
  BY <1>1, <1>2, <1>3 DEF Next, OpenDocument, vars

(* An unindexed project has files of no revision.                          *)
LEMMA InitFits == Init => SavesExclude /\ FitInv
  BY ActorAssumption
     DEF Init, SavesExclude, FitInv, FilesFit, DeltaFits, RowFits, DraftFits, RevisionsLead,
         NoIndex, NoSummary, NoOp, Unchanged

(* A view whose files are both current and fit is not silently stale.      *)
LEMMA FitIsFresh ==
    ASSUME FitTypes, FilesFit, FilesAgree
    PROVE  NeverSilentlyStale
<1>1. SUFFICES ASSUME Current, NEW s \in Scenes
      PROVE  \/ idx.rows[s] = scene[s] /\ summary.rows[s] = Row(s)
             \/ \E w \in Writers : InFlight(w) /\ op[w].scene = s
  BY DEF NeverSilentlyStale
<1>2. IndexFits(idx.rows[s], Nobody, s) /\ SummaryFits(summary.rows[s], Nobody, s)
  BY <1>1 DEF FilesFit, FilesAgree
<1>3. SUFFICES ASSUME ~\E w \in Writers : InFlight(w) /\ op[w].scene = s
      PROVE  idx.rows[s] = scene[s] /\ summary.rows[s] = Row(s)
  OBVIOUS
<1>4. \A kinds : ~Excused(Nobody, s, kinds)
  BY <1>3 DEF Excused
<1>5. summary.rows[s] \in Rows /\ scene[s] \in SceneDocs
  BY DEF FitTypes, ViewTypes, SummaryFile
<1>6. idx.rows[s] = scene[s] /\ SceneOf(summary.rows[s]) = scene[s]
  BY <1>2, <1>4 DEF IndexFits, SummaryFits
<1>7. CASE summary.rows[s] = Absent
  BY <1>6, <1>7 DEF SceneOf, Row
<1>8. CASE summary.rows[s] # Absent
  <2>1. PICK a \in Values, b \in Values : summary.rows[s] = <<a, b>>
    BY <1>5, <1>8 DEF Rows
  <2>2. a = scene[s] /\ b = annot[s]
    BY <1>2, <1>4, <1>6, <1>8, <2>1 DEF SummaryFits, SceneOf
  <2>3. scene[s] # Absent
    BY <2>1, <2>2, DocumentAssumption
  <2>4. QED
    BY <1>6, <2>1, <2>2, <2>3 DEF Row
<1>9. QED
  BY <1>7, <1>8

(* The types the previous lemmas need.                                     *)
LEMMA TypedFits == Typed => FitTypes /\ crashes \in Nat
  BY BoundAssumption DEF Typed, TypeOK, FitTypes, ViewTypes

(* The inductive invariant of freshness.                                   *)
FreshInv == Typed /\ ViewInv /\ SavesExclude /\ (crashes = 0 => FitInv)

(* FreshInv is inductive.                                                  *)
LEMMA StepFresh ==
    ASSUME GuardedSaves
    PROVE  FreshInv /\ [Next]_vars => FreshInv'
<1>1. Typed /\ [Next]_vars => Typed'
  BY StepTyped
<1>2. Typed /\ ViewInv /\ [Next]_vars => ViewInv'
  BY StepView
<1>3. Typed /\ SavesExclude /\ [Next]_vars => SavesExclude'
  BY StepSaves, TypedFits
<1>4. ASSUME FreshInv, [Next]_vars
      PROVE  (crashes = 0 => FitInv)'
  <2>1. SUFFICES ASSUME crashes' = 0
        PROVE  FitInv'
    OBVIOUS
  <2>2. FitTypes /\ crashes = 0
    BY <1>4, <2>1, TypedFits, CrashesStay DEF FreshInv
  <2>3. QED
    BY <1>4, <2>1, <2>2, StepFits DEF FreshInv
<1>5. QED
  BY <1>1, <1>2, <1>3, <1>4 DEF FreshInv

(* The view that a project serves agrees with its documents, scene by      *)
(* scene, except where a mutation is under way, for as long as no mutation *)
(* has died half-way: with any mix of saves, batches and deletions if      *)
(* rebuilds do not fail, and with failing and dying rebuilds if the only   *)
(* mutations are saves, which the locks of the documents keep apart.       *)
THEOREM ViewIsFresh ==
    ASSUME GuardedSaves
    PROVE  Spec => []StaleOnlyAfterCrash
<1>1. Init => FreshInv
  BY InitTyped, InitView, InitFits DEF FreshInv
<1>2. FreshInv /\ [Next]_vars => FreshInv'
  BY StepFresh
<1>3. FreshInv => StaleOnlyAfterCrash
  BY TypedFits, FitIsFresh DEF FreshInv, ViewInv, FitInv, StaleOnlyAfterCrash
<1>4. QED
  BY <1>1, <1>2, <1>3, PTL DEF Spec

-----------------------------------------------------------------------------
(* Who is in flight while a query runs is noted in touched.                *)
LEMMA StepNoted ==
    ASSUME FitTypes, TouchedNoted, [Next]_vars
    PROVE  TouchedNoted'
<1>1. ASSUME NEW w \in Writers,
             \/ WriterStep(w) \/ WriterCrash(w)
             \/ \E kind \in Kinds, s \in Scenes : OpenDocument(w, kind, s)
      PROVE  TouchedNoted'
  <2>1. \A x \in Writers \ {w} : wpc'[x] = wpc[x] /\ op'[x] = op[x]
    BY <1>1, OtherWriters DEF FitTypes, ViewTypes
  <2>2. UNCHANGED rpc
    BY <1>1 DEF WriterStep, BeginMutation, WriteSource, StartDelta, RefuseDelta,
       DeltaWriteIndex, DeltaWriteSummary, DeltaWriteRevision, DeltaWriteDirty,
       DeltaWriteReady, CompleteRevision, CompleteState, WriterCrash, OpenDocument, readerVars
  <2>3. CASE WriteSource(w)
    <3>1. op'[w].scene = op[w].scene
      BY <2>3, WrittenFits
    <3>2. \A r \in Readers : touched'[r] = touched[r] \union {op[w].scene}
      BY <2>3 DEF WriteSource
    <3>3. QED
      BY <2>1, <2>2, <3>1, <3>2 DEF TouchedNoted, InFlight
  <2>4. ASSUME UNCHANGED touched, InFlight(w)' => InFlight(w) /\ op'[w].scene = op[w].scene
        PROVE  TouchedNoted'
    BY <2>1, <2>2, <2>4 DEF TouchedNoted, InFlight
  <2>5. CASE StartDelta(w)
    <3>1. op'[w].scene = op[w].scene /\ UNCHANGED touched /\ wpc[w] = "delta"
      <4>1. PICK row : op' = [op EXCEPT ![w].row = row]
        BY <2>5 DEF StartDelta
      <4>2. QED
        BY <2>5, <4>1 DEF StartDelta, FitTypes, Op
    <3>2. QED
      BY <2>4, <3>1 DEF InFlight
  <2>6. ASSUME NEW place, WriterGoto(w, place), UNCHANGED <<touched, op>>,
               InFlight(w) \/ place = "write"
        PROVE  TouchedNoted'
    <3>1. wpc'[w] = place
      BY <2>6 DEF WriterGoto, FitTypes, ViewTypes
    <3>2. QED
      BY <2>4, <2>6, <3>1 DEF InFlight
  <2>7. CASE \E kind \in Kinds, s \in Scenes : OpenDocument(w, kind, s)
    <3>1. wpc'[w] = "begin" /\ UNCHANGED touched
      BY <2>7 DEF OpenDocument, WriterGoto, FitTypes, ViewTypes
    <3>2. QED
      BY <2>4, <3>1 DEF InFlight
  <2>8. CASE WriterCrash(w) \/ DeltaWriteReady(w) \/ CompleteState(w)
    <3>1. wpc'[w] = "idle" /\ UNCHANGED touched
      BY <2>8 DEF WriterCrash, DeltaWriteReady, CompleteState, WriterDone, WriterGoto, FitTypes,
         ViewTypes
    <3>2. QED
      BY <2>4, <3>1 DEF InFlight
  <2>9. QED
    BY <1>1, <2>3, <2>5, <2>6, <2>7, <2>8
       DEF WriterStep, BeginMutation, RefuseDelta, DeltaWriteIndex, DeltaWriteSummary,
           DeltaWriteRevision, DeltaWriteDirty, CompleteRevision, InFlight
<1>2. ASSUME NEW r \in Readers,
             AskRevision(r) \/ ReaderStep(r) \/ BuildRaises(r) \/ ReaderCrash(r)
      PROVE  TouchedNoted'
  <2>1. UNCHANGED <<wpc, op>>
    BY <1>2, ReaderLeaves
  <2>2. CASE AskRevision(r)
    <3>1. /\ touched' = [touched EXCEPT ![r] = {op[w].scene : w \in {x \in Writers : InFlight(x)}}]
          /\ rpc' = [rpc EXCEPT ![r] = "state"]
      BY <2>2 DEF AskRevision, ReaderGoto
    <3>2. \A w \in Writers : InFlight(w)' => InFlight(w)
      BY <2>1 DEF InFlight
    <3>3. QED
      BY <2>1, <3>1, <3>2 DEF TouchedNoted, FitTypes, ViewTypes
  <2>3. CASE ~AskRevision(r)
    <3>1. UNCHANGED touched /\ rpc[r] # "idle"
      BY <1>2, <2>3 DEF ReaderStep, AskState, ReadDocument, VerifyDocument, EnterRebuild,
         PeekState, PeekDocuments, StartBuild, ScanScene, StartPublish, BuildOvertaken,
         PublishIndex, PublishSummary, PublishReady, BuildRaises, SetFailedState, ReaderCrash
    <3>2. \A x \in Readers \ {r} : rpc'[x] = rpc[x]
      BY <1>2, <2>3 DEF ReaderStep, AskState, ReadDocument, VerifyDocument, EnterRebuild,
         PeekState, PeekDocuments, StartBuild, ScanScene, StartPublish, BuildOvertaken,
         PublishIndex, PublishSummary, PublishReady, BuildRaises, SetFailedState, ReaderCrash,
         ReaderGoto, FitTypes, ViewTypes
    <3>3. QED
      BY <2>1, <3>1, <3>2 DEF TouchedNoted, InFlight
  <2>4. QED
    BY <2>2, <2>3
<1>3. CASE UNCHANGED vars
  BY <1>3 DEF vars, TouchedNoted, InFlight, writerVars, readerVars
<1>4. QED
  BY <1>1, <1>2, <1>3 DEF Next

(* A row that fits is fresh beside the scenes of the writers in flight.    *)
LEMMA FitsBeside ==
    ASSUME NEW noted, \A w \in Writers : InFlight(w) => op[w].scene \in noted,
           NEW s, s \notin noted, NEW v, NEW row, IndexFits(row, v, s)
    PROVE  row = scene[s]
  BY DEF IndexFits, Excused

(* A scenes index that is not behind the revision is fresh beside them.    *)
LEMMA IndexBeside ==
    ASSUME FitTypes, FilesFit, DeltaFits, RevisionsLead, idx.rev >= revision,
           NEW noted, \A w \in Writers : InFlight(w) => op[w].scene \in noted
    PROVE  \A s \in Scenes \ noted : idx.rows[s] = scene[s]
<1>1. CASE idx.rev = revision
  BY <1>1, FitsBeside DEF FilesFit
<1>2. CASE idx.rev # revision
  <2>1. PICK w \in Writers : wpc[w] \in {"summary", "revision"}
    <3>1. idx.rev \in Int /\ revision \in Int
      BY DEF FitTypes, ViewTypes, IndexFile, Revisions
    <3>2. ~(idx.rev <= revision)
      BY <1>2, <3>1
    <3>3. QED
      BY <3>2 DEF RevisionsLead
  <2>2. op[w].scene \in noted
    BY <2>1 DEF InFlight
  <2>3. \A s \in Scenes \ {op[w].scene} : IndexFits(idx.rows[s], w, s)
    BY <2>1 DEF DeltaFits
  <2>4. QED
    BY <2>2, <2>3, FitsBeside
<1>3. QED
  BY <1>1, <1>2

(* What a query answers with, and may answer with, is fresh.               *)
AnswerInv == AnswerFits /\ AnswersFresh

(* A mutation that changes a document is noted by every query.             *)
LEMMA WriterAnswers ==
    ASSUME FitTypes, FitInv, TouchedNoted, AnswerInv, NEW w \in Writers, WriterStep(w)
    PROVE  AnswerInv'
<1> USE DEF FitTypes
<1>1. UNCHANGED <<rpc, seen, answer>>
  BY DEF WriterStep, BeginMutation, WriteSource, StartDelta, RefuseDelta, DeltaWriteIndex,
     DeltaWriteSummary, DeltaWriteRevision, DeltaWriteDirty, DeltaWriteReady, CompleteRevision,
     CompleteState, readerVars
<1>2. CASE WriteSource(w)
  <2>1. UNCHANGED idx /\ \A r \in Readers : touched'[r] = touched[r] \union {op[w].scene}
    BY <1>2 DEF WriteSource, viewVars
  <2>2. \A s \in Scenes : s # op[w].scene => scene'[s] = scene[s]
    BY <1>2 DEF WriteSource, Op
  <2>3. \A r \in Readers : \A rows : FreshBeside(rows, r) => FreshBeside(rows, r)'
    BY <2>1, <2>2 DEF FreshBeside
  <2>4. AnswerFits'
    BY <1>1, <2>1, <2>3 DEF AnswerInv, AnswerFits
  <2>5. AnswersFresh'
    BY <1>1, <2>1, <2>2 DEF AnswerInv, AnswersFresh
  <2>6. QED
    BY <2>4, <2>5 DEF AnswerInv
<1>3. CASE DeltaWriteIndex(w)
  <2>1. wpc[w] = "index" /\ UNCHANGED <<scene, touched>>
    BY <1>3 DEF DeltaWriteIndex, sourceVars
  <2>2. \A s \in Scenes \ {op[w].scene} : idx'.rows[s] = idx.rows[s]
    BY <1>3 DEF DeltaWriteIndex, ViewTypes, IndexFile
  <2>3. \A s \in Scenes \ {op[w].scene} : IndexFits(idx.rows[s], w, s)
    BY <2>1 DEF FitInv, DeltaFits
  <2>4. \A r \in Readers : rpc[r] # "idle" => op[w].scene \in touched[r]
    BY <2>1 DEF TouchedNoted, InFlight
  <2>5. ASSUME NEW r \in Readers, rpc[r] # "idle", NEW s \in Scenes \ touched[r]
        PROVE  idx'.rows[s] = scene'[s]
    <3>1. s # op[w].scene
      BY <2>4, <2>5
    <3>2. \A x \in Writers : InFlight(x) => op[x].scene \in touched[r]
      BY <2>5 DEF TouchedNoted
    <3>3. idx.rows[s] = scene[s]
      BY <2>3, <2>5, <3>1, <3>2, FitsBeside
    <3>4. QED
      BY <2>1, <2>2, <3>1, <3>3
  <2>6. AnswerFits'
    BY <1>1, <2>1, <2>5 DEF AnswerInv, AnswerFits, FreshBeside
  <2>7. AnswersFresh'
    BY <1>1, <2>1 DEF AnswerInv, AnswersFresh
  <2>8. QED
    BY <2>6, <2>7 DEF AnswerInv
<1>4. CASE ~WriteSource(w) /\ ~DeltaWriteIndex(w)
  <2>1. UNCHANGED <<idx, scene, touched>>
    BY <1>4 DEF WriterStep, BeginMutation, StartDelta, RefuseDelta,
       DeltaWriteSummary, DeltaWriteRevision, DeltaWriteDirty, DeltaWriteReady,
       CompleteRevision, CompleteState, sourceVars, viewVars
  <2>2. QED
    BY <1>1, <2>1 DEF AnswerInv, AnswerFits, AnswersFresh, FreshBeside
<1>5. QED
  BY <1>2, <1>3, <1>4

(* A query answers with a scenes index that is not behind the revision it  *)
(* has seen.                                                               *)
LEMMA ReaderAnswers ==
    ASSUME FitTypes, ViewInv, FitInv, TouchedNoted, AnswerInv, NEW r \in Readers,
           AskRevision(r) \/ ReaderStep(r) \/ BuildRaises(r) \/ ReaderCrash(r)
    PROVE  AnswerInv'
<1> USE DEF FitTypes, ViewTypes
<1>1. UNCHANGED <<scene, revision>>
  BY ReaderLeaves
<1>2. ASSUME NEW place, ReaderGoto(r, place)
      PROVE  rpc'[r] = place /\ \A x \in Readers \ {r} : rpc'[x] = rpc[x]
  BY <1>2 DEF ReaderGoto
<1>3. ASSUME NEW place, ReaderGoto(r, place), rpc[r] # "idle", place \notin {"verify", "answered"},
             UNCHANGED <<idx, answer, touched>>,
             UNCHANGED seen \/ seen' = [seen EXCEPT ![r] = revision]
      PROVE  AnswerInv'
  <2>1. \A x \in Readers : seen'[x] >= seen[x] /\ seen[x] \in Nat /\ seen'[x] \in Nat
    BY <1>3 DEF FitInv, RevisionsLead
  <2>2. \A x \in Readers : idx.rev >= seen'[x] => idx.rev >= seen[x]
    BY <2>1 DEF IndexFile, Revisions
  <2>3. \A x \in Readers : answer[x].rev >= seen'[x] => answer[x].rev >= seen[x]
    BY <2>1 DEF IndexFile, Revisions
  <2>4. \A x \in Readers : /\ rpc'[x] # "idle" => rpc[x] # "idle"
                           /\ rpc'[x] \in {"verify", "answered"} => rpc[x] = rpc'[x]
    BY <1>2, <1>3
  <2>5. AnswerFits'
    BY <1>1, <1>3, <2>2, <2>3, <2>4 DEF AnswerInv, AnswerFits, FreshBeside
  <2>6. AnswersFresh'
    BY <1>1, <1>3, <2>4 DEF AnswerInv, AnswersFresh
  <2>7. QED
    BY <2>5, <2>6 DEF AnswerInv
<1>4. ASSUME UNCHANGED <<idx, touched, seen>>, NEW place, ReaderGoto(r, place), rpc[r] # "idle",
             \A x \in Readers \ {r} : answer'[x] = answer[x],
             place = "verify" /\ answer'[r].rev >= seen[r] => FreshBeside(answer'[r].rows, r),
             place = "answered" => FreshBeside(answer'[r].rows, r)
      PROVE  AnswerInv'
  <2>1. rpc'[r] = place /\ \A x \in Readers \ {r} : rpc'[x] = rpc[x]
    BY <1>2, <1>4
  <2>2. AnswerFits'
    BY <1>1, <1>4, <2>1 DEF AnswerInv, AnswerFits, FreshBeside
  <2>3. AnswersFresh'
    BY <1>1, <1>4, <2>1 DEF AnswerInv, AnswersFresh, FreshBeside
  <2>4. QED
    BY <2>2, <2>3 DEF AnswerInv
<1>5. CASE AskRevision(r)
  <2> DEFINE noted == {op[w].scene : w \in {x \in Writers : InFlight(x)}}
  <2>1. /\ touched' = [touched EXCEPT ![r] = noted] /\ seen' = [seen EXCEPT ![r] = revision]
        /\ answer' = [answer EXCEPT ![r] = NoIndex] /\ UNCHANGED idx /\ ReaderGoto(r, "state")
    BY <1>5 DEF AskRevision, viewVars
  <2>2. \A w \in Writers : InFlight(w) => op[w].scene \in noted
    OBVIOUS
  <2> HIDE DEF noted
  <2>3. idx.rev >= revision => \A s \in Scenes \ noted : idx.rows[s] = scene[s]
    BY <2>2, IndexBeside DEF FitInv
  <2>4. rpc'[r] = "state" /\ touched'[r] = noted /\ seen'[r] = revision
    BY <1>2, <2>1
  <2>5. \A x \in Readers \ {r} : /\ rpc'[x] = rpc[x] /\ touched'[x] = touched[x]
                                 /\ seen'[x] = seen[x] /\ answer'[x] = answer[x]
    BY <1>2, <2>1
  <2>6. AnswerFits'
    BY <1>1, <2>1, <2>3, <2>4, <2>5 DEF AnswerInv, AnswerFits, FreshBeside
  <2>7. AnswersFresh'
    BY <1>1, <2>4, <2>5 DEF AnswerInv, AnswersFresh
  <2>8. QED
    BY <2>6, <2>7 DEF AnswerInv
<1>6. CASE ReadDocument(r)
  <2>1. /\ rpc[r] = "doc" /\ answer' = [answer EXCEPT ![r] = idx] /\ ReaderGoto(r, "verify")
        /\ UNCHANGED <<idx, touched, seen>>
    BY <1>6 DEF ReadDocument, viewVars
  <2>2. idx.rev >= seen[r] => FreshBeside(idx.rows, r)
    BY <2>1 DEF AnswerInv, AnswerFits
  <2>3. answer'[r] = idx /\ \A x \in Readers \ {r} : answer'[x] = answer[x]
    BY <2>1
  <2>4. QED
    BY <1>4, <2>1, <2>2, <2>3
<1>7. CASE VerifyDocument(r)
  <2> DEFINE place == IF answer[r].rev = revision THEN "answered" ELSE "queue"
  <2>1. rpc[r] = "verify" /\ UNCHANGED <<idx, touched, seen, answer>> /\ ReaderGoto(r, place)
    BY <1>7 DEF VerifyDocument, viewVars
  <2>2. answer[r].rev = revision => answer[r].rev >= seen[r]
    BY DEF FitInv, RevisionsLead
  <2>3. place = "answered" => FreshBeside(answer[r].rows, r)
    BY <2>1, <2>2 DEF AnswerInv, AnswerFits
  <2>4. place # "verify"
    OBVIOUS
  <2> HIDE DEF place
  <2>5. QED
    BY <1>4, <2>1, <2>3, <2>4
<1>8. CASE PeekDocuments(r)
  <2>1. rpc[r] = "peekdocs" /\ UNCHANGED <<idx, touched, seen>>
    BY <1>8 DEF PeekDocuments, viewVars
  <2>2. CASE idx.rev = seen[r] /\ summary.rev = seen[r]
    <3>1. answer' = [answer EXCEPT ![r] = idx] /\ ReaderGoto(r, "answered")
      BY <1>8, <2>2 DEF PeekDocuments
    <3>2. idx.rev >= seen[r]
      BY <2>2
    <3>3. FreshBeside(idx.rows, r)
      BY <2>1, <3>2 DEF AnswerInv, AnswerFits
    <3>4. answer'[r] = idx /\ \A x \in Readers \ {r} : answer'[x] = answer[x]
      BY <3>1
    <3>5. QED
      BY <1>4, <2>1, <3>1, <3>3, <3>4
  <2>3. CASE ~(idx.rev = seen[r] /\ summary.rev = seen[r])
    <3>1. UNCHANGED answer /\ ReaderGoto(r, "start")
      BY <1>8, <2>3 DEF PeekDocuments
    <3>2. QED
      BY <1>4, <2>1, <3>1
  <2>4. QED
    BY <2>2, <2>3
<1>9. CASE PublishReady(r)
  <2>1. /\ rpc[r] = "ready" /\ UNCHANGED <<idx, touched, seen>> /\ ReaderGoto(r, "answered")
        /\ answer' = [answer EXCEPT ![r] = idx]
    BY <1>9 DEF PublishReady, viewVars
  <2>2. idx.rev = revision /\ seen[r] = revision
    BY <2>1 DEF ViewInv, BuildStamped
  <2>3. FreshBeside(idx.rows, r)
    BY <2>1, <2>2 DEF AnswerInv, AnswerFits
  <2>4. answer'[r] = idx /\ \A x \in Readers \ {r} : answer'[x] = answer[x]
    BY <2>1
  <2>5. QED
    BY <1>4, <2>1, <2>3, <2>4
<1>10. CASE PublishIndex(r)
  <2>1. /\ rpc[r] = "index" /\ idx'.rows = draft[r].index /\ ReaderGoto(r, "summary")
        /\ UNCHANGED <<touched, seen, answer>>
    BY <1>10 DEF PublishIndex
  <2>2. \A s \in Scenes : IndexFits(draft[r].index[s], Nobody, s)
    BY <2>1 DEF FitInv, DraftFits
  <2>3. ASSUME NEW x \in Readers, rpc[x] # "idle"
        PROVE  \A s \in Scenes \ touched[x] : idx'.rows[s] = scene[s]
    <3>1. \A w \in Writers : InFlight(w) => op[w].scene \in touched[x]
      BY <2>3 DEF TouchedNoted
    <3>2. QED
      BY <2>1, <2>2, <3>1, FitsBeside
  <2>4. \A x \in Readers : /\ rpc'[x] # "idle" => rpc[x] # "idle"
                           /\ rpc'[x] \in {"verify", "answered"} => rpc[x] = rpc'[x]
    BY <1>2, <2>1
  <2>5. AnswerFits'
    BY <1>1, <2>1, <2>3, <2>4 DEF AnswerInv, AnswerFits, FreshBeside
  <2>6. AnswersFresh'
    BY <1>1, <2>1, <2>4 DEF AnswerInv, AnswersFresh
  <2>7. QED
    BY <2>5, <2>6 DEF AnswerInv
<1>11. ASSUME NEW s \in Scenes, ScanScene(r, s)
       PROVE  AnswerInv'
  <2>1. UNCHANGED <<idx, answer, touched, seen, rpc>>
    BY <1>11 DEF ScanScene, viewVars
  <2>2. QED
    BY <1>1, <2>1 DEF AnswerInv, AnswerFits, AnswersFresh, FreshBeside
<1>12. ASSUME AskState(r) \/ EnterRebuild(r) \/ PeekState(r) \/ StartBuild(r) \/ StartPublish(r)
              \/ BuildOvertaken(r) \/ PublishSummary(r) \/ SetFailedState(r) \/ BuildRaises(r)
              \/ ReaderCrash(r)
       PROVE  AnswerInv'
  <2>1. UNCHANGED <<idx, answer, touched>> /\ rpc[r] # "idle"
    BY <1>12 DEF AskState, EnterRebuild, PeekState, StartBuild, StartPublish, BuildOvertaken,
       PublishSummary, SetFailedState, BuildRaises, ReaderCrash, viewVars
  <2>2. UNCHANGED seen \/ seen' = [seen EXCEPT ![r] = revision]
    BY <1>12 DEF AskState, EnterRebuild, PeekState, StartBuild, StartPublish, BuildOvertaken,
       PublishSummary, SetFailedState, BuildRaises, ReaderCrash
  <2>3. PICK place \in {"doc", "queue", "peek", "peekdocs", "start", "scan", "index", "ready",
                        "idle", "failed"} : ReaderGoto(r, place)
    BY <1>12 DEF AskState, EnterRebuild, PeekState, StartBuild, StartPublish, BuildOvertaken,
       PublishSummary, SetFailedState, BuildRaises, ReaderCrash
  <2>4. QED
    BY <1>3, <2>1, <2>2, <2>3
<1>13. QED
  BY <1>5, <1>6, <1>7, <1>8, <1>9, <1>10, <1>11, <1>12 DEF ReaderStep

(* The inductive invariant of the answers.                                 *)
QueryInv == FreshInv /\ TouchedNoted /\ (crashes = 0 => AnswerInv)

(* QueryInv is inductive.                                                  *)
LEMMA StepQuery ==
    ASSUME GuardedSaves
    PROVE  QueryInv /\ [Next]_vars => QueryInv'
<1>1. FreshInv /\ [Next]_vars => FreshInv'
  BY StepFresh
<1>2. FreshInv /\ TouchedNoted /\ [Next]_vars => TouchedNoted'
  BY StepNoted, TypedFits DEF FreshInv
<1>3. ASSUME QueryInv, [Next]_vars
      PROVE  (crashes = 0 => AnswerInv)'
  <2>1. SUFFICES ASSUME crashes' = 0
        PROVE  AnswerInv'
    OBVIOUS
  <2>2. /\ FitTypes /\ crashes = 0 /\ ViewInv /\ FitInv /\ TouchedNoted /\ AnswerInv
    BY <1>3, <2>1, TypedFits, CrashesStay DEF QueryInv, FreshInv
  <2>3. ASSUME NEW w \in Writers, NEW kind \in Kinds, NEW s \in Scenes, OpenDocument(w, kind, s)
        PROVE  AnswerInv'
    BY <2>2, <2>3 DEF OpenDocument, sourceVars, viewVars, readerVars, AnswerInv, AnswerFits,
       AnswersFresh, FreshBeside
  <2>4. ASSUME NEW w \in Writers, WriterCrash(w)
        PROVE  FALSE
    BY <2>1, <2>2, <2>4 DEF WriterCrash
  <2>5. CASE UNCHANGED vars
    BY <2>2, <2>5 DEF vars, sourceVars, viewVars, readerVars, AnswerInv, AnswerFits,
       AnswersFresh, FreshBeside
  <2>6. QED
    BY <1>3, <2>2, <2>3, <2>4, <2>5, WriterAnswers, ReaderAnswers DEF Next
<1>4. QED
  BY <1>1, <1>2, <1>3 DEF QueryInv

(* A query answers with every change that had completed before it began,   *)
(* as long as no mutation dies half-way, for the mutations and failures    *)
(* that ViewIsFresh allows.                                                *)
THEOREM QueriesAreFresh ==
    ASSUME GuardedSaves, MaxCrashes = 0
    PROVE  Spec => []AnswersFresh
<1>1. Init => QueryInv
  <2>1. Init => TouchedNoted /\ AnswerInv
    BY DEF Init, TouchedNoted, AnswerInv, AnswerFits, AnswersFresh
  <2>2. QED
    BY <2>1, InitTyped, InitView, InitFits DEF QueryInv, FreshInv
<1>2. QueryInv /\ [Next]_vars => QueryInv'
  BY StepQuery
<1>3. QueryInv => AnswersFresh
  <2>1. Typed => crashes = 0
    BY DEF Typed, TypeOK
  <2>2. QED
    BY <2>1 DEF QueryInv, FreshInv, AnswerInv
<1>4. QED
  BY <1>1, <1>2, <1>3, PTL DEF Spec
=============================================================================
