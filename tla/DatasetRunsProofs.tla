------------------------- MODULE DatasetRunsProofs -------------------------
(* Proofs about DatasetRuns, for any number of runs, requests and editors, *)
(* with kills and restarts at any step, rewrites of the index included.    *)
EXTENDS DatasetRuns, WellFoundedInduction, TLAPS

(* The handlers record a failure only for a run that is not exposed.       *)
FailureIsHidden ==
    \A r \in Runs : pc[Builder] = "failed" /\ run[Builder] = r => dir[r] # "complete"

(* The part of the type invariant that the commit point rests on, with     *)
(* FailureIsHidden.                                                        *)
CommitInv ==
    /\ dir \in [Runs -> {"none", "failed", "complete"}]
    /\ pc \in [Actors -> RequestPC \union BuilderPC]
    /\ FailureIsHidden

(* A project without data sets satisfies it.                               *)
LEMMA InitHidden == Init => CommitInv
  BY DatasetAssumption
     DEF Init, CommitInv, FailureIsHidden, Actors, RequestPC, RewritePC

(* A step that leaves dir alone and moves one actor keeps the invariant,   *)
(* unless it moves the builder to "failed".                                *)
LEMMA MoveHidden ==
    ASSUME CommitInv, NEW a \in Actors, NEW l \in RequestPC \union BuilderPC,
           Goto(a, l), UNCHANGED dir,
           a # Builder => UNCHANGED run[Builder],
           a = Builder => l # "failed"
    PROVE  CommitInv'
  BY DatasetAssumption
     DEF CommitInv, FailureIsHidden, Goto, Actors

(* So does the end of a request or of a build ...                          *)
LEMMA DoneHidden ==
    ASSUME CommitInv, NEW a \in Actors, Done(a), UNCHANGED dir
    PROVE  CommitInv'
  BY DatasetAssumption
     DEF CommitInv, FailureIsHidden, Done, Goto, Actors, RequestPC, BuilderPC, RewritePC

(* ... and an exception, whichever handler it goes to.                     *)
LEMMA RaiseHidden ==
    ASSUME CommitInv, NEW a \in Actors, NEW handler, Raise(a, handler), UNCHANGED dir
    PROVE  CommitInv'
  BY DatasetAssumption, DoneHidden
     DEF CommitInv, FailureIsHidden, Raise, Goto, Actors, RequestPC, BuilderPC, RewritePC

(* No step disturbs the invariant, and none turns complete into failed.    *)
LEMMA StepHidden ==
    ASSUME CommitInv, [Next]_vars
    PROVE  /\ CommitInv'
           /\ \A r \in Runs : dir[r] = "complete" => dir'[r] # "failed"
<1> DEFINE Goal == /\ CommitInv'
                   /\ \A r \in Runs : dir[r] = "complete" => dir'[r] # "failed"
<1> USE DatasetAssumption DEF files, bounds, actorVars, Actors
<1>0. (CommitInv' /\ UNCHANGED dir) => Goal
  BY DEF CommitInv
<1>1. ASSUME NEW a \in Requests, AskList(a) \/ ListStep(a)
      PROVE  Goal
  <2>1. CASE AskList(a)
    BY <1>0, <2>1, MoveHidden DEF AskList, RequestPC
  <2>2. CASE ListRead(a)
    BY <1>0, <2>2, MoveHidden, DoneHidden DEF ListRead, RequestPC
  <2>3. CASE ListScan(a)
    <3>1. CASE Done(a)
      BY <1>0, <2>3, <3>1, DoneHidden DEF ListScan
    <3>2. CASE ~Done(a)
      BY <1>0, <2>3, <3>2, MoveHidden DEF ListScan, AfterList, RequestPC, RewritePC
    <3>3. QED
      BY <3>1, <3>2
  <2>4. CASE Truncate(a, "relist", "listing")
    BY <1>0, <2>4, MoveHidden DEF Truncate, RequestPC
  <2>5. CASE ListFill(a)
    <3>1. CASE Done(a)
      BY <1>0, <2>5, <3>1, DoneHidden DEF ListFill
    <3>2. CASE ~Done(a)
      BY <1>0, <2>5, <3>2, MoveHidden DEF ListFill, AfterList, RequestPC, RewritePC
    <3>3. QED
      BY <3>1, <3>2
  <2>6. QED
    BY <1>1, <2>1, <2>2, <2>3, <2>4, <2>5 DEF ListStep, ListWrite
<1>2. ASSUME NEW a \in Editors, EditStep(a)
      PROVE  Goal
  <2>1. CASE CheckLabel(a)
    BY <1>0, <2>1, MoveHidden, DoneHidden DEF CheckLabel, RequestPC
  <2>2. CASE WritePublication(a)
    BY <1>0, <2>2, MoveHidden DEF WritePublication, RequestPC, RewritePC
  <2>3. CASE RemoveRun(a)
    BY <2>3 DEF RemoveRun, CommitInv, FailureIsHidden, Goto, RequestPC, RewritePC
  <2>4. CASE RepairCache(a)
    BY <1>0, <2>4, DoneHidden DEF RepairCache
  <2>5. QED
    BY <1>2, <2>1, <2>2, <2>3, <2>4 DEF EditStep
<1>3. ASSUME NEW a \in Actors, IndexStep(a)
      PROVE  Goal
  <2>1. CASE ReadIndex(a)
    <3>1. CASE Done(a) \/ Raise(a, "failAgain")
      BY <1>0, <2>1, <3>1, DoneHidden, RaiseHidden DEF ReadIndex
    <3>2. CASE ~(Done(a) \/ Raise(a, "failAgain"))
      BY <1>0, <2>1, <3>2, MoveHidden DEF ReadIndex, RequestPC, RewritePC
    <3>3. QED
      BY <3>1, <3>2
  <2>2. CASE Truncate(a, "truncate", "fill")
    BY <1>0, <2>2, MoveHidden DEF Truncate, RequestPC, RewritePC
  <2>3. CASE FillIndex(a)
    <3>1. CASE Done(a)
      BY <1>0, <2>3, <3>1, DoneHidden DEF FillIndex
    <3>2. CASE ~Done(a)
      BY <1>0, <2>3, <3>2, MoveHidden DEF FillIndex, RequestPC, BuilderPC
    <3>3. QED
      BY <3>1, <3>2
  <2>4. QED
    BY <1>3, <2>1, <2>2, <2>3 DEF IndexStep, WriteIndex
<1>4. ASSUME NEW a \in Editors, NEW r \in Runs, NEW typed \in Labels \union {NoLabel},
             NEW status \in {"draft", "published", "deprecated"},
             AskPublish(a, r, status, typed)
      PROVE  Goal
  BY <1>4 DEF AskPublish, CommitInv, FailureIsHidden, Goto, RequestPC, RewritePC
<1>5. ASSUME NEW a \in Editors, NEW r \in Runs, NEW force \in BOOLEAN,
             AskDelete(a, r, force)
      PROVE  Goal
  BY <1>5 DEF AskDelete, CommitInv, FailureIsHidden, Goto, RequestPC, RewritePC
<1>6. CASE StartBuild
  BY <1>6 DEF StartBuild, CommitInv, FailureIsHidden, Goto, BuilderPC
<1>7. CASE BuildStep
  <2> USE DEF BuildGoto, BuilderPC, RewritePC
  <2>1. CASE WriteTiles
    BY <1>0, <2>1, MoveHidden, RaiseHidden DEF WriteTiles
  <2>2. CASE WriteManifest
    BY <1>0, <2>2, MoveHidden DEF WriteManifest
  <2>3. CASE PublishRun
    <3>1. CASE Raise(Builder, "failAgain") /\ UNCHANGED dir
      BY <1>0, <3>1, RaiseHidden
    <3>2. CASE /\ dir' = [dir EXCEPT ![run[Builder]] = "complete"]
               /\ Goto(Builder, "cache")
      BY <3>2 DEF CommitInv, FailureIsHidden, Goto
    <3>3. QED
      BY <2>3, <3>1, <3>2 DEF PublishRun
  <2>4. CASE DropCache
    BY <1>0, <2>4, MoveHidden DEF DropCache
  <2>5. CASE CopyCache
    BY <1>0, <2>5, MoveHidden, RaiseHidden DEF CopyCache
  <2>6. CASE FinishBuild
    BY <1>0, <2>6, DoneHidden DEF FinishBuild
  <2>7. CASE HandleError
    <3>1. CASE dir[run[Builder]] = "complete"
      BY <1>0, <2>7, <3>1, DoneHidden DEF HandleError
    <3>2. CASE dir[run[Builder]] # "complete"
      BY <2>7, <3>2 DEF HandleError, CommitInv, FailureIsHidden, Goto
    <3>3. QED
      BY <3>1, <3>2
  <2>8. CASE RecordFailure
    BY <2>8 DEF RecordFailure, CommitInv, FailureIsHidden, Goto
  <2>9. QED
    BY <1>7, <2>1, <2>2, <2>3, <2>4, <2>5, <2>6, <2>7, <2>8 DEF BuildStep
<1>8. CASE BuildRaises
  BY <1>0, <1>8, RaiseHidden DEF BuildRaises
<1>9. CASE CancelBuild \/ KillBuilder
  BY <1>0, <1>9, DoneHidden DEF CancelBuild, KillBuilder
<1>10. CASE RestartBackend
  BY <1>10 DEF RestartBackend, CommitInv, FailureIsHidden, RequestPC, RewritePC
<1>11. CASE UNCHANGED vars
  BY <1>11 DEF vars, CommitInv, FailureIsHidden
<1>12. QED
  BY <1>1, <1>2, <1>3, <1>4, <1>5, <1>6, <1>7, <1>8, <1>9, <1>10, <1>11 DEF Next

(* CommitIsFinal: whatever fails, dies or rewrites the index after the     *)
(* rename, the run that the rename exposed stays complete until somebody   *)
(* deletes it (the two handlers of prepare_dataset_build).                 *)
THEOREM CommitStands == Spec => CommitIsFinal
<1>1. CommitInv /\ [Next]_vars => CommitInv'
  BY StepHidden
<1>2. CommitInv /\ [Next]_vars =>
        [\A r \in Runs : dir[r] = "complete" => dir'[r] # "failed"]_dir
  BY StepHidden
<1>3. QED
  BY InitHidden, <1>1, <1>2, PTL DEF Spec, CommitIsFinal
-----------------------------------------------------------------------------
(* Types.                                                                  *)

(* A non-empty set of naturals has a least element ...                     *)
LEMMA LeastExists ==
    ASSUME NEW S \in SUBSET Nat, S # {}
    PROVE  \E n \in S : \A m \in S : n <= m
<1> DEFINE R == OpToRel(<, Nat)
<1>1. IsWellFoundedOn(R, Nat)
  BY NatLessThanWellFounded
<1>2. PICK n \in S : \A m \in S : <<m, n>> \notin R
  <2> HIDE DEF R
  <2>1. QED
    BY <1>1, WFMin, Zenon
<1>3. \A m \in S : ~(m < n)
  BY <1>2 DEF OpToRel
<1> HIDE DEF R
<1>4. QED
  BY <1>3

(* ... and one of run numbers a greatest: the newest run is well defined.  *)
LEMMA NewestExists ==
    ASSUME NEW S \in SUBSET Runs, S # {}
    PROVE  \E r \in S : \A s \in S : s <= r
<1> DEFINE T == {MaxRuns - r : r \in S}
<1>1. S \subseteq Nat /\ MaxRuns \in Nat /\ \A r \in S : MaxRuns - r \in Nat
  BY DatasetAssumption DEF Runs
<1>2. PICK r \in S : TRUE
  OBVIOUS
<1>3. MaxRuns - r \in T /\ T \in SUBSET Nat
  BY <1>1
<1>4. PICK d \in T : \A e \in T : d <= e
  <2> HIDE DEF T
  <2>1. QED
    BY <1>3, LeastExists
<1>5. PICK q \in S : d = MaxRuns - q
  OBVIOUS
<1>6. \A s \in S : MaxRuns - s \in T
  OBVIOUS
<1> HIDE DEF T
<1>7. QED
  BY <1>1, <1>4, <1>5, <1>6

(* What a listing makes of an index is an index.                           *)
LEMMA ListedTyped ==
    ASSUME NEW ix \in IndexValue,
           dir \in [Runs -> {"none", "failed", "complete"}], pub \in [Runs -> Publication]
    PROVE  Scanned(ix) \in IndexValue /\ Refreshed(ix) \in IndexValue
  BY DEF Scanned, Refreshed, IndexValue

(* So is what a publish, a delete or a build makes of it.                  *)
LEMMA RewrittenTyped ==
    ASSUME NEW ix \in IndexValue, NEW a \in Actors,
           run[a] \in Runs \union {NoRun}, pub \in [Runs -> Publication]
    PROVE  Rewritten(ix, a) \in IndexValue
<1> DEFINE r == run[a]
<1>1. ASSUME NEW iy \in IndexValue
      PROVE  NewestComplete(iy) \in Runs \union {NoRun}
  BY NewestExists DEF NewestComplete
<1>2. ASSUME NEW status \in {"none", "failed", "complete"}
      PROVE  [ix EXCEPT !.entry[r] = status, !.shown[r] = Bare] \in IndexValue
  BY DEF IndexValue
<1>3. Without(ix, r) \in IndexValue
  <2> DEFINE rest == [ix EXCEPT !.entry[r] = "none", !.shown[r] = Bare]
  <2>1. rest \in IndexValue
    BY <1>2
  <2>2. NewestComplete(rest) \in Runs \union {NoRun}
    BY <1>1, <2>1
  <2> HIDE DEF rest
  <2>3. [rest EXCEPT !.latest = NewestComplete(rest)] \in IndexValue
    BY <2>1, <2>2 DEF IndexValue
  <2>4. QED
    BY <2>1, <2>3 DEF Without, rest
<1>4. ASSUME NEW status \in {"failed", "complete"}
      PROVE  Registered(ix, r, status) \in IndexValue
  BY <1>4 DEF Registered, IndexValue
<1>5. Refreshed(ix) \in IndexValue
  BY DEF Refreshed, IndexValue
<1>6. QED
  BY <1>3, <1>4, <1>5 DEF Rewritten
(* The types of an actor's place and locals; the operations of a request   *)
(* are not those of a build.                                               *)
RequestOps == {"none", "list", "publish", "delete", "deleteLatest"}
BuildOps == {"none", "build", "fail", "failAgain"}
PlaceTyped ==
    /\ pc \in [Actors -> RequestPC \union BuilderPC]
    /\ \A a \in Requests : pc[a] \in RequestPC
    /\ pc[Builder] \in BuilderPC
    /\ op \in [Actors -> RequestOps \union BuildOps]
    /\ \A a \in Requests : op[a] \in RequestOps
    /\ op[Builder] \in BuildOps
LocalsTyped ==
    /\ run \in [Actors -> Runs \union {NoRun}]
    /\ want \in [Actors -> Publication]
    /\ loc \in [Actors -> IndexValue]
FilesTyped ==
    /\ dir \in [Runs -> {"none", "failed", "complete"}]
    /\ staging \in [Runs -> SUBSET {"dir", "tiles", "manifest"}]
    /\ tiles \in [Runs -> BOOLEAN]
    /\ pub \in [Runs -> Publication]
    /\ index \in IndexValue \union {Torn}
    /\ cache \in Runs \union {NoRun}
BoundsTyped ==
    /\ built \in 0..MaxRuns
    /\ edits \in 0..MaxEdits /\ kills \in 0..MaxFaults /\ restarts \in 0..MaxFaults

DatasetTyped == PlaceTyped /\ LocalsTyped /\ FilesTyped /\ BoundsTyped

(* The empty values are of their kind.                                     *)
LEMMA EmptyValues ==
    /\ Draft \in Publication
    /\ EmptyIndex \in IndexValue
  BY DEF Draft, EmptyIndex, Publication, IndexValue

(* A project without data sets satisfies it.                               *)
LEMMA InitDatasetTyped == Init => DatasetTyped
<1> SUFFICES ASSUME Init
             PROVE  DatasetTyped
  OBVIOUS
<1> USE EmptyValues, DatasetAssumption DEF Init
<1>1. PlaceTyped
  BY DEF PlaceTyped, Actors, RequestPC, BuilderPC, RewritePC, RequestOps, BuildOps
<1>2. LocalsTyped
  BY DEF LocalsTyped
<1>3. FilesTyped
  BY DEF FilesTyped
<1>4. BoundsTyped
  BY DEF BoundsTyped
<1>5. QED
  BY <1>1, <1>2, <1>3, <1>4 DEF DatasetTyped

(* A place and an operation of one's own.                                  *)
MayBeAt(a, l) == (a \in Requests => l \in RequestPC) /\ (a = Builder => l \in BuilderPC)
MayDo(a, o) == (a \in Requests => o \in RequestOps) /\ (a = Builder => o \in BuildOps)

(* An actor that goes on keeps the types ...                               *)
LEMMA GotoTyped ==
    ASSUME PlaceTyped, NEW a \in Actors, NEW l, MayBeAt(a, l), Goto(a, l),
           op' = op \/ \E o : MayDo(a, o) /\ op' = [op EXCEPT ![a] = o]
    PROVE  PlaceTyped'
<1>1. l \in RequestPC \union BuilderPC
  BY DatasetAssumption DEF MayBeAt, Actors
<1>2. \A o : MayDo(a, o) => o \in RequestOps \union BuildOps
  BY DatasetAssumption DEF MayDo, Actors
<1> HIDE DEF RequestPC, BuilderPC, RequestOps, BuildOps
<1>3. QED
  BY <1>1, <1>2, DatasetAssumption DEF PlaceTyped, MayBeAt, MayDo, Goto, Actors

(* ... and so does one that ends ...                                       *)
LEMMA DoneTyped ==
    ASSUME PlaceTyped, LocalsTyped, NEW a \in Actors, Done(a)
    PROVE  PlaceTyped' /\ LocalsTyped'
<1>1. MayBeAt(a, "idle") /\ MayDo(a, "none")
  BY DEF MayBeAt, MayDo, RequestPC, BuilderPC, RewritePC, RequestOps, BuildOps
<1>2. PlaceTyped'
  BY <1>1, GotoTyped DEF Done
<1>3. LocalsTyped'
  BY EmptyValues DEF Done, LocalsTyped
<1>4. QED
  BY <1>2, <1>3

(* ... normally or by an exception.                                        *)
LEMMA RaiseTyped ==
    ASSUME PlaceTyped, LocalsTyped, NEW a \in Actors,
           NEW handler \in {"fail", "failAgain"}, Raise(a, handler)
    PROVE  PlaceTyped' /\ LocalsTyped'
<1>1. CASE a = Builder
  <2>1. MayBeAt(a, "error") /\ MayDo(a, handler)
    BY <1>1, DatasetAssumption DEF MayBeAt, MayDo, BuilderPC, BuildOps
  <2>2. PlaceTyped'
    BY <1>1, <2>1, GotoTyped DEF Raise
  <2>3. LocalsTyped'
    BY <1>1 DEF Raise, LocalsTyped
  <2>4. QED
    BY <2>2, <2>3
<1>2. CASE a # Builder
  BY <1>2, DoneTyped DEF Raise
<1>3. QED
  BY <1>1, <1>2
(* Where requests and builds may go.                                       *)
LEMMA Places ==
    /\ \A a \in Requests : a \in Actors /\ a # Builder
    /\ \A a \in Editors : a \in Requests
    /\ Builder \in Actors
    /\ \A a \in Requests, l \in RequestPC : MayBeAt(a, l)
    /\ \A l \in BuilderPC : MayBeAt(Builder, l)
    /\ \A a \in Actors, l \in RewritePC : MayBeAt(a, l)
    /\ \A a \in Requests, o \in RequestOps : MayDo(a, o)
    /\ \A o \in BuildOps : MayDo(Builder, o)
    /\ RewritePC \subseteq RequestPC /\ RewritePC \subseteq BuilderPC
  BY DatasetAssumption DEF Actors, MayBeAt, MayDo, RequestPC, BuilderPC

(* The steps of a listing keep the types of places and locals, ...         *)
LEMMA ListTyped ==
    ASSUME DatasetTyped, NEW a \in Requests, AskList(a) \/ ListStep(a)
    PROVE  PlaceTyped' /\ LocalsTyped'
<1> USE Places DEF DatasetTyped
<1>1. {"list", "scan", "relist", "listing", "label", "remove"} \subseteq RequestPC
      /\ "list" \in RequestOps
  BY DEF RequestPC, RequestOps
<1>2. AfterList(a) \in RequestPC
  BY <1>1 DEF AfterList
<1>3. CASE AskList(a)
  <2>1. PlaceTyped'
    BY <1>1, <1>3, GotoTyped DEF AskList
  <2>2. LocalsTyped'
    BY <1>3 DEF AskList, LocalsTyped
  <2>3. QED
    BY <2>1, <2>2
<1>4. CASE ListRead(a)
  <2>1. CASE index = Torn
    BY <1>4, <2>1, DoneTyped DEF ListRead
  <2>2. CASE index # Torn
    <3>1. PlaceTyped'
      BY <1>1, <1>4, <2>2, GotoTyped DEF ListRead
    <3>2. index \in IndexValue
      BY <2>2 DEF FilesTyped
    <3>3. LocalsTyped'
      BY <1>4, <2>2, <3>2 DEF ListRead, LocalsTyped
    <3>4. QED
      BY <3>1, <3>3
  <2>3. QED
    BY <2>1, <2>2
<1>5. CASE ListScan(a)
  <2> DEFINE now == Refreshed(Scanned(loc[a]))
  <2>1. now \in IndexValue
    BY ListedTyped DEF LocalsTyped, FilesTyped
  <2>2. CASE now # loc[a]
    <3>1. /\ loc' = [loc EXCEPT ![a] = now]
          /\ Goto(a, "relist") /\ UNCHANGED <<op, run, want>>
      BY <1>5, <2>2 DEF ListScan
    <3>2. PlaceTyped'
      BY <1>1, <3>1, GotoTyped
    <3> HIDE DEF now
    <3>3. LocalsTyped'
      BY <2>1, <3>1 DEF LocalsTyped
    <3>4. QED
      BY <3>2, <3>3
  <2>3. CASE now = loc[a] /\ op[a] = "list"
    BY <1>5, <2>3, DoneTyped DEF ListScan
  <2>4. CASE now = loc[a] /\ op[a] # "list"
    <3>1. Goto(a, AfterList(a)) /\ UNCHANGED <<op, run, want, loc>>
      BY <1>5, <2>4 DEF ListScan
    <3>2. PlaceTyped'
      BY <1>2, <3>1, GotoTyped
    <3>3. LocalsTyped'
      BY <3>1 DEF LocalsTyped
    <3>4. QED
      BY <3>2, <3>3
  <2>5. QED
    BY <2>2, <2>3, <2>4
<1>6. CASE Truncate(a, "relist", "listing")
  <2>1. PlaceTyped'
    BY <1>1, <1>6, GotoTyped DEF Truncate
  <2>2. LocalsTyped'
    BY <1>6 DEF Truncate, LocalsTyped
  <2>3. QED
    BY <2>1, <2>2
<1>7. CASE ListFill(a)
  <2>1. CASE op[a] = "list"
    BY <1>7, <2>1, DoneTyped DEF ListFill
  <2>2. CASE op[a] # "list"
    <3>1. PlaceTyped'
      BY <1>2, <1>7, <2>2, GotoTyped DEF ListFill
    <3>2. LocalsTyped'
      BY <1>7, <2>2 DEF ListFill, LocalsTyped
    <3>3. QED
      BY <3>1, <3>2
  <2>3. QED
    BY <2>1, <2>2
<1>8. QED
  BY <1>3, <1>4, <1>5, <1>6, <1>7 DEF ListStep, ListWrite

(* ... those of a publish or a delete, ...                                 *)
LEMMA EditTyped ==
    ASSUME DatasetTyped, NEW a \in Editors,
           \/ EditStep(a)
           \/ \E r \in Runs, typed \in Labels \union {NoLabel},
                 status \in {"draft", "published", "deprecated"} : AskPublish(a, r, status, typed)
           \/ \E r \in Runs, force \in BOOLEAN : AskDelete(a, r, force)
    PROVE  PlaceTyped' /\ LocalsTyped'
<1> USE Places DEF DatasetTyped
<1>1. /\ {"label", "list", "record", "read"} \subseteq RequestPC
      /\ {"publish", "delete"} \subseteq RequestOps
  BY DEF RequestPC, RequestOps, RewritePC
<1>2. ASSUME NEW l \in RequestPC, Goto(a, l), UNCHANGED <<op, run, want, loc>>
      PROVE  PlaceTyped' /\ LocalsTyped'
  <2>1. PlaceTyped'
    BY <1>2, GotoTyped
  <2>2. LocalsTyped'
    BY <1>2 DEF LocalsTyped
  <2>3. QED
    BY <2>1, <2>2
<1>3. CASE CheckLabel(a)
  BY <1>1, <1>2, <1>3, DoneTyped DEF CheckLabel
<1>4. CASE WritePublication(a) \/ RemoveRun(a)
  BY <1>1, <1>2, <1>4 DEF WritePublication, RemoveRun
<1>5. CASE RepairCache(a)
  BY <1>5, DoneTyped DEF RepairCache
<1>6. ASSUME NEW r \in Runs, NEW typed \in Labels \union {NoLabel},
             NEW status \in {"draft", "published", "deprecated"},
             AskPublish(a, r, status, typed)
      PROVE  PlaceTyped' /\ LocalsTyped'
  <2> DEFINE label == IF typed = NoLabel THEN pub[r].label ELSE typed
             next == IF status = "published" THEN "list" ELSE "record"
  <2>1. [status |-> status, label |-> label] \in Publication
    BY DEF FilesTyped, Publication
  <2>2. next \in RequestPC
    BY <1>1
  <2>3. /\ Goto(a, next)
        /\ op' = [op EXCEPT ![a] = "publish"]
        /\ run' = [run EXCEPT ![a] = r]
        /\ want' = [want EXCEPT ![a] = [status |-> status, label |-> label]]
        /\ UNCHANGED loc
    BY <1>6 DEF AskPublish
  <2> HIDE DEF label, next
  <2>4. PlaceTyped'
    BY <1>1, <2>2, <2>3, GotoTyped
  <2>5. LocalsTyped'
    BY <2>1, <2>3 DEF LocalsTyped
  <2>6. QED
    BY <2>4, <2>5
<1>7. ASSUME NEW r \in Runs, NEW force \in BOOLEAN, AskDelete(a, r, force)
      PROVE  PlaceTyped' /\ LocalsTyped'
  <2>1. PlaceTyped'
    BY <1>1, <1>7, GotoTyped DEF AskDelete
  <2>2. LocalsTyped'
    BY <1>7 DEF AskDelete, LocalsTyped
  <2>3. QED
    BY <2>1, <2>2
<1>8. QED
  BY <1>3, <1>4, <1>5, <1>6, <1>7 DEF EditStep

(* ... the rewrite of the index that ends them or a build, ...             *)
LEMMA IndexTyped ==
    ASSUME DatasetTyped, NEW a \in Actors, IndexStep(a)
    PROVE  PlaceTyped' /\ LocalsTyped'
<1> USE Places DEF DatasetTyped
<1>1. {"truncate", "fill"} \subseteq RewritePC
  BY DEF RewritePC
<1>2. ASSUME NEW l, MayBeAt(a, l), Goto(a, l), UNCHANGED <<op, run, want, loc>>
      PROVE  PlaceTyped' /\ LocalsTyped'
  <2>1. PlaceTyped'
    BY <1>2, GotoTyped
  <2>2. LocalsTyped'
    BY <1>2 DEF LocalsTyped
  <2>3. QED
    BY <2>1, <2>2
<1>3. CASE ReadIndex(a)
  <2>1. CASE Done(a) \/ Raise(a, "failAgain")
    BY <2>1, DoneTyped, RaiseTyped
  <2>2. CASE /\ index # Torn
             /\ loc' = [loc EXCEPT ![a] = Rewritten(index, a)]
             /\ op' = [op EXCEPT ![a] = IF @ = "delete" /\ index.latest = run[a]
                                        THEN "deleteLatest" ELSE @]
             /\ Goto(a, "truncate")
             /\ UNCHANGED <<run, want>>
    <3> DEFINE o == IF op[a] = "delete" /\ index.latest = run[a] THEN "deleteLatest" ELSE op[a]
    <3>1. MayDo(a, o)
      BY DatasetAssumption DEF PlaceTyped, MayDo, Actors, RequestOps, BuildOps
    <3>2. op' = [op EXCEPT ![a] = o]
      BY <2>2
    <3>3. MayBeAt(a, "truncate")
      BY <1>1
    <3> HIDE DEF o
    <3>4. PlaceTyped'
      BY <2>2, <3>1, <3>2, <3>3, GotoTyped
    <3>5. Rewritten(index, a) \in IndexValue
      BY <2>2, RewrittenTyped DEF FilesTyped, LocalsTyped
    <3>6. LocalsTyped'
      BY <2>2, <3>5 DEF LocalsTyped
    <3>7. QED
      BY <3>4, <3>6
  <2>3. QED
    BY <1>3, <2>1, <2>2 DEF ReadIndex
<1>4. CASE Truncate(a, "truncate", "fill")
  BY <1>1, <1>2, <1>4 DEF Truncate
<1>5. CASE FillIndex(a)
  <2>1. CASE Done(a)
    BY <2>1, DoneTyped
  <2>2. CASE op[a] = "build" /\ Goto(a, "lock") /\ UNCHANGED <<op, run, want, loc>>
    <3>1. MayBeAt(a, "lock")
      BY <2>2 DEF PlaceTyped, MayBeAt, RequestOps, BuilderPC
    <3>2. QED
      BY <1>2, <2>2, <3>1
  <2>3. CASE op[a] = "deleteLatest" /\ Goto(a, "repair") /\ UNCHANGED <<op, run, want, loc>>
    <3>1. MayBeAt(a, "repair")
      BY <2>3 DEF PlaceTyped, MayBeAt, BuildOps, RequestPC
    <3>2. QED
      BY <1>2, <2>3, <3>1
  <2>4. QED
    BY <1>5, <2>1, <2>2, <2>3 DEF FillIndex
<1>6. QED
  BY <1>3, <1>4, <1>5 DEF IndexStep, WriteIndex

(* ... and those of the build and of a restart.                            *)
LEMMA BuildTyped ==
    ASSUME DatasetTyped,
           \/ StartBuild \/ BuildStep \/ BuildRaises \/ CancelBuild
           \/ KillBuilder \/ RestartBackend
    PROVE  PlaceTyped' /\ LocalsTyped'
<1> USE Places DEF DatasetTyped
<1>1. /\ {"tiles", "manifest", "publish", "cache", "copy", "read", "failed"} \subseteq BuilderPC
      /\ "build" \in BuildOps
  BY DEF BuilderPC, BuildOps, RewritePC
<1>2. ASSUME NEW l \in BuilderPC, BuildGoto(l)
      PROVE  PlaceTyped' /\ LocalsTyped'
  <2>1. PlaceTyped'
    BY <1>2, GotoTyped DEF BuildGoto
  <2>2. LocalsTyped'
    BY <1>2 DEF LocalsTyped, BuildGoto
  <2>3. QED
    BY <2>1, <2>2
<1>3. CASE StartBuild
  <2>1. PlaceTyped'
    BY <1>1, <1>3, GotoTyped DEF StartBuild
  <2>2. built + 1 \in Runs
    BY <1>3, DatasetAssumption DEF StartBuild, BoundsTyped, Runs
  <2>3. LocalsTyped'
    BY <1>3, <2>2 DEF StartBuild, LocalsTyped
  <2>4. QED
    BY <2>1, <2>3
<1>4. CASE WriteTiles \/ WriteManifest \/ PublishRun \/ DropCache \/ CopyCache
  BY <1>1, <1>2, <1>4, RaiseTyped DEF WriteTiles, WriteManifest, PublishRun, DropCache, CopyCache
<1>5. CASE FinishBuild \/ HandleError \/ RecordFailure
  BY <1>1, <1>2, <1>5, DoneTyped DEF FinishBuild, HandleError, RecordFailure
<1>6. CASE BuildRaises
  BY <1>6, RaiseTyped DEF BuildRaises
<1>7. CASE CancelBuild \/ KillBuilder
  BY <1>7, DoneTyped DEF CancelBuild, KillBuilder
<1>8. CASE RestartBackend
  <2>1. PlaceTyped'
    BY <1>8 DEF RestartBackend, PlaceTyped, RequestPC, RewritePC, RequestOps
  <2>2. LocalsTyped'
    BY <1>8, EmptyValues DEF RestartBackend, LocalsTyped
  <2>3. QED
    BY <2>1, <2>2
<1>9. QED
  BY <1>3, <1>4, <1>5, <1>6, <1>7, <1>8 DEF BuildStep
(* The files keep their types.                                             *)
LEMMA StepFiles == DatasetTyped /\ [Next]_vars => FilesTyped'
<1> SUFFICES ASSUME PlaceTyped, LocalsTyped, FilesTyped, [Next]_vars
             PROVE  FilesTyped'
  BY DEF DatasetTyped
<1> USE Places
<1>1. ASSUME UNCHANGED <<files, index>>
      PROVE  FilesTyped'
  BY <1>1 DEF FilesTyped, files
<1>2. ASSUME NEW a \in Actors, UNCHANGED files, index' \in {Torn, loc[a]}
      PROVE  FilesTyped'
  BY <1>2 DEF FilesTyped, LocalsTyped, files
<1>3. ASSUME NEW a \in Requests, AskList(a) \/ ListStep(a)
      PROVE  FilesTyped'
  BY <1>1, <1>2, <1>3 DEF AskList, ListStep, ListRead, ListScan, ListWrite, Truncate, ListFill
<1>4. ASSUME NEW a \in Editors,
             \/ CheckLabel(a)
             \/ \E r \in Runs, typed \in Labels \union {NoLabel},
                   status \in {"draft", "published", "deprecated"} : AskPublish(a, r, status, typed)
             \/ \E r \in Runs, force \in BOOLEAN : AskDelete(a, r, force)
      PROVE  FilesTyped'
  BY <1>1, <1>4 DEF CheckLabel, AskPublish, AskDelete
<1>5. ASSUME NEW a \in Editors, WritePublication(a)
      PROVE  FilesTyped'
  BY <1>5 DEF WritePublication, FilesTyped, LocalsTyped
<1>6. ASSUME NEW a \in Editors, RemoveRun(a)
      PROVE  FilesTyped'
  BY <1>6, EmptyValues DEF RemoveRun, FilesTyped
<1>7. ASSUME NEW a \in Editors, RepairCache(a)
      PROVE  FilesTyped'
  <2>1. loc[a].latest \in Runs \union {NoRun}
    BY DEF LocalsTyped, IndexValue
  <2>2. QED
    BY <1>7, <2>1 DEF RepairCache, FilesTyped
<1>8. ASSUME NEW a \in Actors, IndexStep(a)
      PROVE  FilesTyped'
  BY <1>1, <1>2, <1>8 DEF IndexStep, ReadIndex, WriteIndex, Truncate, FillIndex
<1>9. CASE StartBuild
  BY <1>9 DEF StartBuild, FilesTyped
<1>10. CASE BuildStep
  <2>1. run[Builder] \in Runs \union {NoRun}
    BY DEF LocalsTyped
  <2> USE DEF FilesTyped
  <2>2. CASE WriteTiles
    BY <1>10, <2>2 DEF WriteTiles
  <2>3. CASE WriteManifest
    BY <1>10, <2>3 DEF WriteManifest
  <2>4. CASE PublishRun
    <3> DEFINE r == run[Builder]
               whole == "tiles" \in staging[r]
    <3>1. whole \in BOOLEAN /\ UNCHANGED <<pub, index, cache>>
      BY <2>4 DEF PublishRun
    <3>2. CASE UNCHANGED <<dir, tiles, staging>>
      BY <3>1, <3>2
    <3>3. CASE /\ dir' = [dir EXCEPT ![r] = "complete"]
               /\ tiles' = [tiles EXCEPT ![r] = whole]
               /\ staging' = [staging EXCEPT ![r] = {}]
      <4> HIDE DEF whole, r
      <4>1. QED
        BY <3>1, <3>3
    <3>4. QED
      BY <2>4, <3>2, <3>3 DEF PublishRun
  <2>5. CASE DropCache \/ CopyCache
    BY <1>10, <2>1, <2>5 DEF DropCache, CopyCache, NoRun
  <2>6. CASE FinishBuild \/ HandleError
    BY <1>10, <2>6 DEF FinishBuild, HandleError
  <2>7. CASE RecordFailure
    BY <1>10, <2>7 DEF RecordFailure
  <2>8. QED
    BY <1>10, <2>2, <2>3, <2>4, <2>5, <2>6, <2>7 DEF BuildStep
<1>11. CASE BuildRaises \/ KillBuilder \/ UNCHANGED vars
  BY <1>1, <1>11 DEF BuildRaises, KillBuilder, vars
<1>12. CASE CancelBuild
  BY <1>12 DEF CancelBuild, FilesTyped
<1>13. CASE RestartBackend
  BY <1>13 DEF RestartBackend, FilesTyped
<1>14. QED
  BY <1>3, <1>4, <1>5, <1>6, <1>7, <1>8, <1>9, <1>10, <1>11, <1>12, <1>13 DEF Next, EditStep

(* The bounds are kept.                                                    *)
LEMMA StepBounds == BoundsTyped /\ [Next]_vars => BoundsTyped'
<1> SUFFICES ASSUME BoundsTyped, [Next]_vars
             PROVE  BoundsTyped'
  OBVIOUS
<1> USE DatasetAssumption DEF BoundsTyped, bounds
<1>1. ASSUME UNCHANGED <<built, bounds>>
      PROVE  BoundsTyped'
  BY <1>1
<1>2. ASSUME NEW a \in Requests, AskList(a) \/ ListStep(a)
      PROVE  BoundsTyped'
  BY <1>1, <1>2 DEF AskList, ListStep, ListRead, ListScan, ListWrite, Truncate, ListFill
<1>3. ASSUME NEW a \in Editors, EditStep(a)
      PROVE  BoundsTyped'
  BY <1>1, <1>3 DEF EditStep, CheckLabel, WritePublication, RemoveRun, RepairCache
<1>4. ASSUME NEW a \in Editors, NEW r \in Runs,
             \/ \E typed \in Labels \union {NoLabel}, status \in {"draft", "published", "deprecated"} :
                   AskPublish(a, r, status, typed)
             \/ \E force \in BOOLEAN : AskDelete(a, r, force)
      PROVE  BoundsTyped'
  BY <1>4 DEF AskPublish, AskDelete
<1>5. ASSUME NEW a \in Actors, IndexStep(a)
      PROVE  BoundsTyped'
  BY <1>1, <1>5 DEF IndexStep, ReadIndex, WriteIndex, Truncate, FillIndex
<1>6. CASE StartBuild
  BY <1>6 DEF StartBuild
<1>7. CASE BuildStep \/ BuildRaises \/ CancelBuild
  BY <1>1, <1>7 DEF BuildStep, WriteTiles, WriteManifest, PublishRun, DropCache, CopyCache,
     FinishBuild, HandleError, RecordFailure, BuildRaises, CancelBuild
<1>8. CASE KillBuilder
  BY <1>8 DEF KillBuilder
<1>9. CASE RestartBackend
  BY <1>9 DEF RestartBackend
<1>10. CASE UNCHANGED vars
  BY <1>1, <1>10 DEF vars
<1>11. QED
  BY <1>2, <1>3, <1>4, <1>5, <1>6, <1>7, <1>8, <1>9, <1>10 DEF Next

(* The types hold in every reachable state.                                *)
LEMMA TypedInvariant == Spec => []DatasetTyped
<1>1. DatasetTyped /\ [Next]_vars => DatasetTyped'
  <2> SUFFICES ASSUME DatasetTyped, [Next]_vars
               PROVE  PlaceTyped' /\ LocalsTyped'
    BY StepFiles, StepBounds DEF DatasetTyped
  <2>1. CASE UNCHANGED vars
    BY <2>1 DEF DatasetTyped, PlaceTyped, LocalsTyped, vars, actorVars
  <2>2. QED
    BY <2>1, ListTyped, EditTyped, IndexTyped, BuildTyped DEF Next
<1>2. QED
  BY <1>1, InitDatasetTyped, PTL DEF Spec

(* The variables keep their types, requests and builds keep to their own   *)
(* places, and what is written as the index is one, whoever rewrites it    *)
(* and however builds fail (dataset_runs.py, routers/dataset.py).          *)
THEOREM DatasetTypes == Spec => []TypeOK
<1>1. DatasetTyped => TypeOK
  BY DEF DatasetTyped, PlaceTyped, LocalsTyped, FilesTyped, BoundsTyped, TypeOK, RequestOps, BuildOps
<1>2. QED
  BY <1>1, TypedInvariant, PTL
-----------------------------------------------------------------------------
(* An actor that does not move keeps its place and its locals.             *)
Keeps(b) ==
    /\ pc'[b] = pc[b] /\ op'[b] = op[b] /\ run'[b] = run[b]
    /\ want'[b] = want[b] /\ loc'[b] = loc[b]

BuilderStep == StartBuild \/ BuildStep \/ BuildRaises \/ CancelBuild \/ KillBuilder
AskEdit(a) ==
    \/ \E r \in Runs, typed \in Labels \union {NoLabel},
          status \in {"draft", "published", "deprecated"} : AskPublish(a, r, status, typed)
    \/ \E r \in Runs, force \in BOOLEAN : AskDelete(a, r, force)
ActorStep(a) ==
    \/ a \in Requests /\ (AskList(a) \/ ListStep(a))
    \/ a \in Editors /\ (EditStep(a) \/ AskEdit(a))
    \/ IndexStep(a)
    \/ a = Builder /\ BuilderStep

(* Every step is an actor's, a restart's or none.                          *)
LEMMA StepOfActor ==
    ASSUME [Next]_vars
    PROVE  (\E a \in Actors : ActorStep(a)) \/ RestartBackend \/ UNCHANGED vars
  BY Places DEF Next, ActorStep, BuilderStep, AskEdit

(* A step of one actor moves no other.                                     *)
LEMMA OthersKeep ==
    ASSUME PlaceTyped, LocalsTyped,
           NEW a \in Actors, ActorStep(a), NEW b \in Actors, b # a
    PROVE  Keeps(b)
<1> USE DEF PlaceTyped, LocalsTyped, Keeps
<1>1. ASSUME NEW l, Goto(a, l), UNCHANGED <<op, run, want, loc>>
      PROVE  Keeps(b)
  BY <1>1 DEF Goto
<1>2. ASSUME Done(a)
      PROVE  Keeps(b)
  BY <1>2 DEF Done, Goto
<1>3. ASSUME NEW handler, Raise(a, handler)
      PROVE  Keeps(b)
  BY <1>2, <1>3 DEF Raise, Goto
<1>4. ASSUME AskList(a) \/ AskEdit(a) \/ (a = Builder /\ StartBuild)
      PROVE  Keeps(b)
  BY <1>4 DEF AskList, AskEdit, AskPublish, AskDelete, StartBuild, Goto
<1>5. ASSUME NEW l, NEW v, Goto(a, l), loc' = [loc EXCEPT ![a] = v],
             op' = op \/ \E o : op' = [op EXCEPT ![a] = o],
             UNCHANGED <<run, want>>
      PROVE  Keeps(b)
  BY <1>5 DEF Goto
<1> HIDE DEF PlaceTyped, LocalsTyped, Keeps
<1>6. ASSUME ListStep(a)
      PROVE  Keeps(b)
  BY <1>1, <1>2, <1>5, <1>6 DEF ListStep, ListRead, ListScan, ListWrite, Truncate, ListFill
<1>7. ASSUME EditStep(a)
      PROVE  Keeps(b)
  BY <1>1, <1>2, <1>7 DEF EditStep, CheckLabel, WritePublication, RemoveRun, RepairCache
<1>8. ASSUME IndexStep(a)
      PROVE  Keeps(b)
  BY <1>1, <1>2, <1>3, <1>5, <1>8 DEF IndexStep, ReadIndex, WriteIndex, Truncate, FillIndex
<1>9. ASSUME a = Builder, BuildStep \/ BuildRaises \/ CancelBuild \/ KillBuilder
      PROVE  Keeps(b)
  BY <1>1, <1>2, <1>3, <1>9 DEF BuildStep, WriteTiles, WriteManifest, PublishRun, DropCache, CopyCache,
     FinishBuild, HandleError, RecordFailure, BuildRaises, CancelBuild, KillBuilder, BuildGoto
<1>10. QED
  BY <1>4, <1>6, <1>7, <1>8, <1>9 DEF ActorStep, BuilderStep

-----------------------------------------------------------------------------
(* A build that reaches its manifest has tiles, as long as no restarted    *)
(* backend has swept the staging directory away.                           *)
BuildHasTiles ==
    /\ pc[Builder] \in {"tiles", "manifest", "publish"} => run[Builder] \in Runs
    /\ restarts = 0 /\ pc[Builder] \in {"manifest", "publish"} =>
         "tiles" \in staging[run[Builder]]

TilesInv == CompleteHasTiles /\ BuildHasTiles

(* A project without data sets satisfies it.                               *)
LEMMA InitTiles == Init => TilesInv
  BY Places DEF Init, TilesInv, CompleteHasTiles, BuildHasTiles

(* A step that leaves the directories alone keeps it, unless it takes the  *)
(* build somewhere before its rename.                                      *)
LEMMA QuietTiles ==
    ASSUME TilesInv, UNCHANGED <<dir, tiles, staging, restarts>>,
           Keeps(Builder) \/ pc'[Builder] \notin {"tiles", "manifest", "publish"}
    PROVE  TilesInv'
  BY DEF TilesInv, CompleteHasTiles, BuildHasTiles, Keeps

(* No step disturbs it.                                                    *)
LEMMA StepTiles == DatasetTyped /\ DatasetTyped' /\ TilesInv /\ [Next]_vars => TilesInv'
<1> SUFFICES ASSUME DatasetTyped, DatasetTyped', TilesInv, [Next]_vars
             PROVE  TilesInv'
  OBVIOUS
<1>1. /\ PlaceTyped /\ LocalsTyped
      /\ pc \in [Actors -> RequestPC \union BuilderPC] /\ run \in [Actors -> Runs \union {NoRun}]
      /\ dir \in [Runs -> {"none", "failed", "complete"}] /\ tiles \in [Runs -> BOOLEAN]
      /\ staging \in [Runs -> SUBSET {"dir", "tiles", "manifest"}]
      /\ restarts \in Nat /\ op[Builder] \in BuildOps
  BY DatasetAssumption DEF DatasetTyped, PlaceTyped, LocalsTyped, FilesTyped, BoundsTyped
<1> USE Places
<1>2. ASSUME NEW a \in Requests, ActorStep(a), ~RemoveRun(a)
      PROVE  TilesInv'
  <2>1. Keeps(Builder)
    BY <1>1, <1>2, OthersKeep
  <2>2. UNCHANGED <<dir, tiles, staging, restarts>>
    BY <1>2 DEF ActorStep, AskList, ListStep, ListRead, ListScan, ListWrite, Truncate, ListFill,
       EditStep, CheckLabel, WritePublication, RepairCache, AskEdit, AskPublish, AskDelete,
       IndexStep, ReadIndex, WriteIndex, FillIndex, files, bounds
  <2>3. QED
    BY <2>1, <2>2, QuietTiles
<1>3. ASSUME NEW a \in Requests, ActorStep(a), RemoveRun(a)
      PROVE  TilesInv'
  <2>1. Keeps(Builder)
    BY <1>1, <1>3, OthersKeep
  <2>2. QED
    BY <1>1, <1>3, <2>1 DEF RemoveRun, Keeps, TilesInv, CompleteHasTiles, BuildHasTiles, bounds
<1>4. ASSUME IndexStep(Builder)
      PROVE  TilesInv'
  <2>1. pc'[Builder] \notin {"tiles", "manifest", "publish"}
    BY <1>1, <1>4 DEF IndexStep, ReadIndex, Raise, Done, Goto, WriteIndex, Truncate, FillIndex
  <2>2. UNCHANGED <<dir, tiles, staging, restarts>>
    BY <1>4 DEF IndexStep, ReadIndex, WriteIndex, Truncate, FillIndex, files, bounds
  <2>3. QED
    BY <2>1, <2>2, QuietTiles
<1>5. CASE StartBuild
  <2>1. built + 1 \in Runs
    BY <1>5, DatasetAssumption DEF StartBuild, DatasetTyped, BoundsTyped, Runs
  <2>2. QED
    BY <1>1, <1>5, <2>1 DEF StartBuild, Goto, bounds, TilesInv, CompleteHasTiles, BuildHasTiles
<1>6. CASE BuildRaises
  BY <1>1, <1>6, QuietTiles DEF BuildRaises, Raise, Goto, files, bounds
<1>7. CASE CancelBuild
  BY <1>1, <1>7 DEF CancelBuild, Done, Goto, bounds, TilesInv, CompleteHasTiles, BuildHasTiles
<1>8. CASE KillBuilder
  BY <1>1, <1>8, QuietTiles DEF KillBuilder, Done, Goto, files
<1> USE DEF BuildGoto, Goto, bounds
<1>9. CASE WriteTiles
  <2>1. CASE Raise(Builder, "fail") /\ UNCHANGED staging
    BY <1>1, <1>9, <2>1, QuietTiles DEF WriteTiles, Raise
  <2>2. CASE /\ staging' = [staging EXCEPT ![run[Builder]] = @ \union {"tiles"}]
             /\ BuildGoto("manifest")
    BY <1>1, <1>9, <2>2 DEF WriteTiles, TilesInv, CompleteHasTiles, BuildHasTiles
  <2>3. QED
    BY <1>9, <2>1, <2>2 DEF WriteTiles
<1>10. CASE WriteManifest
  BY <1>1, <1>10 DEF WriteManifest, TilesInv, CompleteHasTiles, BuildHasTiles
<1>11. CASE PublishRun
  <2>1. CASE UNCHANGED <<dir, tiles, staging>>
    <3>1. pc'[Builder] \notin {"tiles", "manifest", "publish"}
      BY <1>1, <1>11 DEF PublishRun, Raise
    <3>2. QED
      BY <1>11, <2>1, <3>1, QuietTiles DEF PublishRun
  <2>2. CASE /\ dir' = [dir EXCEPT ![run[Builder]] = "complete"]
             /\ tiles' = [tiles EXCEPT ![run[Builder]] = "tiles" \in staging[run[Builder]]]
             /\ BuildGoto("cache")
    <3>1. run[Builder] \in Runs /\ (restarts = 0 => "tiles" \in staging[run[Builder]])
      BY <1>11 DEF PublishRun, TilesInv, BuildHasTiles
    <3>2. QED
      BY <1>1, <1>11, <2>2, <3>1 DEF PublishRun, TilesInv, CompleteHasTiles, BuildHasTiles
  <2>3. QED
    BY <1>11, <2>1, <2>2 DEF PublishRun
<1>12. CASE DropCache \/ CopyCache
  BY <1>1, <1>12, QuietTiles DEF DropCache, CopyCache, Raise
<1>13. CASE FinishBuild \/ HandleError
  BY <1>1, <1>13 DEF FinishBuild, HandleError, Done, TilesInv, CompleteHasTiles, BuildHasTiles
<1>14. CASE RecordFailure
  BY <1>1, <1>14 DEF RecordFailure, TilesInv, CompleteHasTiles, BuildHasTiles
<1>15. CASE RestartBackend
  <2>1. restarts' # 0 /\ pc'[Builder] = pc[Builder] /\ run'[Builder] = run[Builder]
    BY <1>1, <1>15 DEF RestartBackend
  <2>2. QED
    BY <2>1 DEF TilesInv, CompleteHasTiles, BuildHasTiles
<1>16. CASE UNCHANGED vars
  BY <1>16, QuietTiles DEF vars, files, actorVars, Keeps
<1>17. ASSUME ActorStep(Builder)
       PROVE  TilesInv'
  BY <1>4, <1>5, <1>6, <1>7, <1>8, <1>9, <1>10, <1>11, <1>12, <1>13, <1>14, <1>17
     DEF ActorStep, BuilderStep, BuildStep
<1>18. QED
  BY <1>2, <1>3, <1>15, <1>16, <1>17, StepOfActor DEF Actors

(* A run that is exposed as complete holds the tiles of its build, however *)
(* the build fails, is cancelled or is killed, unless a backend restarts   *)
(* under a live worker (publish_dataset_run).                              *)
THEOREM CompleteRunsHaveTiles == Spec => []CompleteHasTiles
<1>1. TilesInv => CompleteHasTiles
  BY DEF TilesInv
<1>2. QED
  BY <1>1, InitTiles, StepTiles, TypedInvariant, PTL DEF Spec
-----------------------------------------------------------------------------
(* Publication labels, with one editor at a time: two overtake each other. *)

(* A directory that is gone holds no publication.                          *)
PublicationInRun == \A r \in Runs : dir[r] = "none" => pub[r] = Draft

(* While its request checks the label, the run it publishes exists, ...    *)
PublishedExists ==
    \A e \in Editors :
        op[e] = "publish" /\ pc[e] \in {"list", "scan", "relist", "listing", "label", "record"} =>
            run[e] \in Runs /\ dir[run[e]] # "none"

(* ... the listing it compares with shows every publication there is, ...  *)
ListingIsCurrent ==
    \A e \in Editors :
        op[e] = "publish" /\ pc[e] \in {"relist", "listing", "label"} =>
            \A r \in Runs : pub[r] # Draft => loc[e].entry[r] # "none" /\ loc[e].shown[r] = pub[r]

(* ... and the label it is about to write is not another run's.            *)
LabelIsFree ==
    \A e \in Editors :
        /\ pc[e] \in {"label", "record"} => op[e] = "publish"
        /\ pc[e] = "record" /\ want[e].status = "published" =>
             \A r \in Runs \ {run[e]} :
                 pub[r].status = "published" => pub[r].label # want[e].label

LabelInv ==
    /\ PublicationInRun /\ PublishedExists /\ ListingIsCurrent /\ LabelIsFree
    /\ PublishedLabelsDiffer

(* A project without data sets satisfies it.                               *)
LEMMA InitLabels == Init => LabelInv
  BY Places DEF Init, LabelInv, PublicationInRun, PublishedExists, ListingIsCurrent, LabelIsFree,
                PublishedLabelsDiffer, Draft

(* A step that leaves the publications alone and removes no run keeps it,  *)
(* if the editor does not move or is not on its way to a publication.      *)
LEMMA QuietLabels ==
    ASSUME LabelInv, UNCHANGED pub, \A r \in Runs : dir'[r] = "none" => dir[r] = "none",
           \A e \in Editors :
               \/ Keeps(e)
               \/ pc'[e] \notin {"list", "scan", "relist", "listing", "label", "record"}
               \/ op'[e] # "publish" /\ pc'[e] \notin {"label", "record"}
    PROVE  LabelInv'
<1> USE DEF LabelInv
<1>1. PublicationInRun'
  BY DEF PublicationInRun
<1>2. PublishedExists'
  BY DEF PublishedExists, Keeps
<1>3. ListingIsCurrent'
  BY DEF ListingIsCurrent, Keeps
<1>4. LabelIsFree'
  BY DEF LabelIsFree, Keeps
<1>5. PublishedLabelsDiffer'
  BY DEF PublishedLabelsDiffer, PublicationInRun, Draft
<1>6. QED
  BY <1>1, <1>2, <1>3, <1>4, <1>5

(* What anybody but the editor does keeps it: nobody else removes a run or *)
(* writes a publication, and a run that appears has none.                  *)
LEMMA OthersLabels ==
    ASSUME DatasetTyped, LabelInv, NEW a \in Actors \ Editors, ActorStep(a)
    PROVE  LabelInv'
<1>1. PlaceTyped /\ LocalsTyped /\ dir \in [Runs -> {"none", "failed", "complete"}]
  BY DEF DatasetTyped, FilesTyped
<1>2. \A e \in Editors : Keeps(e)
  BY <1>1, OthersKeep, Places
<1>3. UNCHANGED pub /\ \A r \in Runs : dir'[r] = "none" => dir[r] = "none"
  <2>1. CASE AskList(a) \/ ListStep(a) \/ IndexStep(a)
    BY <2>1 DEF AskList, ListStep, ListRead, ListScan, ListWrite, Truncate, ListFill,
       IndexStep, ReadIndex, WriteIndex, FillIndex, files
  <2>2. CASE PublishRun \/ RecordFailure
    BY <1>1, <2>2 DEF PublishRun, RecordFailure
  <2>3. CASE BuilderStep /\ ~(PublishRun \/ RecordFailure)
    BY <2>3 DEF BuilderStep, StartBuild, BuildStep, WriteTiles, WriteManifest, DropCache, CopyCache,
       FinishBuild, HandleError, BuildRaises, CancelBuild, KillBuilder, files
  <2>4. QED
    BY <2>1, <2>2, <2>3 DEF ActorStep
<1>4. QED
  BY <1>2, <1>3, QuietLabels

(* What the only editor does keeps it.                                     *)
LEMMA EditorLabels ==
    ASSUME \A e, f \in Editors : e = f,
           DatasetTyped, LabelInv, NEW a \in Editors, ActorStep(a)
    PROVE  LabelInv'
<1>1. /\ pc \in [Actors -> RequestPC \union BuilderPC]
      /\ op \in [Actors -> RequestOps \union BuildOps]
      /\ run \in [Actors -> Runs \union {NoRun}]
      /\ want \in [Actors -> Publication] /\ loc \in [Actors -> IndexValue]
      /\ dir \in [Runs -> {"none", "failed", "complete"}] /\ pub \in [Runs -> Publication]
  BY DEF DatasetTyped, PlaceTyped, LocalsTyped, FilesTyped
<1>2. a \in Actors /\ a # Builder /\ \A e \in Editors : e = a
  BY Places
<1>3. ASSUME UNCHANGED <<dir, pub>>,
             \/ pc'[a] \notin {"list", "scan", "relist", "listing", "label", "record"}
             \/ op'[a] # "publish" /\ pc'[a] \notin {"label", "record"}
      PROVE  LabelInv'
  BY <1>2, <1>3, QuietLabels
<1>4. ASSUME UNCHANGED <<dir, pub>>, Done(a)
      PROVE  LabelInv'
  BY <1>1, <1>2, <1>3, <1>4 DEF Done, Goto
<1> USE DEF Goto, files
<1>5. CASE AskList(a)
  BY <1>1, <1>2, <1>3, <1>5 DEF AskList
<1>6. CASE IndexStep(a)
  <2>1. UNCHANGED <<dir, pub>>
    BY <1>6 DEF IndexStep, ReadIndex, WriteIndex, Truncate, FillIndex
  <2>2. pc'[a] \notin {"list", "scan", "relist", "listing", "label", "record"}
    BY <1>1, <1>2, <1>6 DEF IndexStep, ReadIndex, Raise, Done, WriteIndex, Truncate, FillIndex
  <2>3. QED
    BY <1>3, <2>1, <2>2
<1>7. ASSUME NEW r \in Runs, NEW force \in BOOLEAN, AskDelete(a, r, force)
      PROVE  LabelInv'
  BY <1>1, <1>2, <1>3, <1>7 DEF AskDelete
<1>8. CASE RepairCache(a)
  BY <1>4, <1>8 DEF RepairCache
<1> USE DEF LabelInv
<1>9. ASSUME UNCHANGED <<dir, pub, op, run, want>>,
             pc[a] \in {"list", "scan", "relist", "listing", "label"},
             pc'[a] \in {"scan", "relist", "listing", "label"}, pc'[a] = "label" => op[a] = "publish",
             op[a] = "publish" /\ pc'[a] \in {"relist", "listing", "label"} =>
                 \A r \in Runs : pub[r] # Draft =>
                     loc'[a].entry[r] # "none" /\ loc'[a].shown[r] = pub[r]
      PROVE  LabelInv'
  <2>1. PublicationInRun' /\ PublishedLabelsDiffer'
    BY <1>9 DEF PublicationInRun, PublishedLabelsDiffer
  <2>2. PublishedExists'
    BY <1>2, <1>9 DEF PublishedExists
  <2>3. ListingIsCurrent'
    BY <1>2, <1>9 DEF ListingIsCurrent
  <2>4. LabelIsFree'
    BY <1>2, <1>9 DEF LabelIsFree
  <2>5. QED
    BY <2>1, <2>2, <2>3, <2>4
<1> HIDE DEF LabelInv
<1>10. CASE ListRead(a)
  BY <1>1, <1>2, <1>4, <1>9, <1>10 DEF ListRead
<1>11. AfterList(a) \in {"label", "remove"} /\ (AfterList(a) = "label" <=> op[a] = "publish")
  BY DEF AfterList
<1>12. CASE ListScan(a)
  <2> DEFINE now == Refreshed(Scanned(loc[a]))
  <2>1. ASSUME NEW r \in Runs, pub[r] # Draft
        PROVE  now.entry[r] # "none" /\ now.shown[r] = pub[r]
    <3>1. dir[r] # "none"
      BY <2>1 DEF LabelInv, PublicationInRun
    <3>2. loc[a] \in IndexValue
      BY <1>1, <1>2
    <3>3. QED
      BY <3>1, <3>2 DEF Refreshed, Scanned, IndexValue
  <2>2. pc[a] = "scan" /\ UNCHANGED <<dir, pub>>
    BY <1>12 DEF ListScan
  <2>3. CASE Done(a)
    BY <1>4, <2>2, <2>3
  <2>4. CASE /\ loc' = [loc EXCEPT ![a] = now]
             /\ Goto(a, "relist") /\ UNCHANGED <<op, run, want>>
    <3>1. loc'[a] = now /\ pc'[a] = "relist"
      BY <1>1, <1>2, <2>4
    <3> HIDE DEF now
    <3>2. QED
      BY <1>9, <2>1, <2>2, <2>4, <3>1
  <2>5. CASE now = loc[a] /\ Goto(a, AfterList(a)) /\ UNCHANGED <<op, run, want, loc>>
    <3>1. loc'[a] = now /\ pc'[a] = AfterList(a)
      BY <1>1, <1>2, <2>5
    <3> HIDE DEF now
    <3>2. CASE AfterList(a) = "label"
      BY <1>9, <1>11, <2>1, <2>2, <2>5, <3>1, <3>2
    <3>3. CASE AfterList(a) = "remove"
      BY <1>3, <2>2, <3>1, <3>3
    <3>4. QED
      BY <1>11, <3>2, <3>3
  <2>6. QED
    BY <1>12, <2>3, <2>4, <2>5 DEF ListScan
<1>13. op[a] = "publish" /\ pc[a] \in {"relist", "listing", "label"} =>
           \A r \in Runs : pub[r] # Draft => loc[a].entry[r] # "none" /\ loc[a].shown[r] = pub[r]
  BY DEF LabelInv, ListingIsCurrent
<1>14. CASE Truncate(a, "relist", "listing")
  BY <1>1, <1>2, <1>9, <1>13, <1>14 DEF Truncate
<1>15. CASE ListFill(a)
  <2>1. CASE Done(a)
    BY <1>4, <1>15, <2>1 DEF ListFill
  <2>2. CASE Goto(a, AfterList(a)) /\ UNCHANGED <<op, run, want, loc>>
    <3>1. pc[a] = "listing" /\ UNCHANGED <<dir, pub>> /\ pc'[a] = AfterList(a)
      BY <1>1, <1>2, <1>15, <2>2 DEF ListFill
    <3>2. CASE AfterList(a) = "label"
      BY <1>9, <1>11, <1>13, <2>2, <3>1, <3>2
    <3>3. CASE AfterList(a) = "remove"
      BY <1>3, <3>1, <3>3
    <3>4. QED
      BY <1>11, <3>2, <3>3
  <2>3. QED
    BY <1>15, <2>1, <2>2 DEF ListFill
<1>16. CASE CheckLabel(a)
  <2>1. CASE Done(a)
    BY <1>4, <1>16, <2>1 DEF CheckLabel
  <2>2. CASE ~Done(a)
    <3>1. /\ pc[a] = "label" /\ op[a] = "publish" /\ UNCHANGED <<dir, pub, op, run, want, loc>>
          /\ pc'[a] = "record"
      BY <1>1, <1>2, <1>16, <2>2 DEF CheckLabel, LabelInv, LabelIsFree
    <3>2. ASSUME NEW r \in Runs \ {run[a]}, pub[r].status = "published"
          PROVE  pub[r].label # want[a].label
      <4>1. loc[a].entry[r] # "none" /\ loc[a].shown[r] = pub[r]
        BY <1>13, <3>1, <3>2 DEF Draft
      <4>2. QED
        BY <1>16, <2>2, <4>1 DEF CheckLabel
    <3>3. PublicationInRun' /\ PublishedLabelsDiffer'
      BY <3>1 DEF LabelInv, PublicationInRun, PublishedLabelsDiffer
    <3>4. PublishedExists' /\ ListingIsCurrent'
      BY <1>2, <3>1 DEF LabelInv, PublishedExists, ListingIsCurrent
    <3>5. LabelIsFree'
      BY <1>2, <3>1, <3>2 DEF LabelIsFree
    <3>6. QED
      BY <3>3, <3>4, <3>5 DEF LabelInv
  <2>3. QED
    BY <2>1, <2>2
<1>17. CASE WritePublication(a)
  <2>1. /\ pc[a] = "record" /\ pc'[a] = "read" /\ UNCHANGED dir
        /\ pub' = [pub EXCEPT ![run[a]] = want[a]]
    BY <1>1, <1>2, <1>17 DEF WritePublication
  <2>2. run[a] \in Runs /\ dir[run[a]] # "none"
    BY <2>1 DEF LabelInv, LabelIsFree, PublishedExists
  <2>3. PublicationInRun'
    BY <1>1, <2>1, <2>2 DEF LabelInv, PublicationInRun
  <2>4. want[a].status = "published" =>
          \A r \in Runs \ {run[a]} : pub[r].status = "published" => pub[r].label # want[a].label
    BY <2>1 DEF LabelInv, LabelIsFree
  <2>5. PublishedLabelsDiffer'
    BY <1>1, <2>1, <2>2, <2>4 DEF LabelInv, PublishedLabelsDiffer
  <2>6. PublishedExists' /\ ListingIsCurrent' /\ LabelIsFree'
    BY <1>2, <2>1 DEF PublishedExists, ListingIsCurrent, LabelIsFree
  <2>7. QED
    BY <2>3, <2>5, <2>6 DEF LabelInv
<1>18. CASE RemoveRun(a)
  <2>1. /\ pc'[a] = "read"
        /\ dir' = [dir EXCEPT ![run[a]] = "none"] /\ pub' = [pub EXCEPT ![run[a]] = Draft]
    BY <1>1, <1>2, <1>18 DEF RemoveRun
  <2>2. PublicationInRun'
    BY <1>1, <2>1 DEF LabelInv, PublicationInRun
  <2>3. PublishedLabelsDiffer'
    BY <1>1, <2>1 DEF LabelInv, PublishedLabelsDiffer, Draft
  <2>4. PublishedExists' /\ ListingIsCurrent' /\ LabelIsFree'
    BY <1>2, <2>1 DEF PublishedExists, ListingIsCurrent, LabelIsFree
  <2>5. QED
    BY <2>2, <2>3, <2>4 DEF LabelInv
<1>19. ASSUME NEW r \in Runs, NEW typed \in Labels \union {NoLabel},
              NEW status \in {"draft", "published", "deprecated"},
              AskPublish(a, r, status, typed)
       PROVE  LabelInv'
  <2>1. /\ dir[r] # "none" /\ UNCHANGED <<dir, pub>>
        /\ pc'[a] = IF status = "published" THEN "list" ELSE "record"
        /\ op'[a] = "publish" /\ run'[a] = r /\ want'[a].status = status
    BY <1>1, <1>2, <1>19 DEF AskPublish
  <2>2. PublicationInRun' /\ PublishedLabelsDiffer'
    BY <2>1 DEF LabelInv, PublicationInRun, PublishedLabelsDiffer
  <2>3. PublishedExists' /\ ListingIsCurrent' /\ LabelIsFree'
    BY <1>2, <2>1 DEF PublishedExists, ListingIsCurrent, LabelIsFree
  <2>4. QED
    BY <2>2, <2>3 DEF LabelInv
<1>20. QED
  BY <1>2, <1>5, <1>6, <1>7, <1>8, <1>10, <1>12, <1>14, <1>15, <1>16, <1>17, <1>18, <1>19
     DEF ActorStep, EditStep, AskEdit, ListStep, ListWrite

(* A label that is published twice is refused, although the listing it is  *)
(* compared with is written and lost behind the editor's back, when        *)
(* editors come one at a time (set_dataset_run_publication).               *)
THEOREM PublishedLabelsAreUnique ==
    ASSUME \A e, f \in Editors : e = f
    PROVE  Spec => []PublishedLabelsDiffer
<1>1. ASSUME DatasetTyped, LabelInv, [Next]_vars
      PROVE  LabelInv'
  <2>1. ASSUME NEW a \in Actors, ActorStep(a)
        PROVE  LabelInv'
    BY <1>1, <2>1, OthersLabels, EditorLabels
  <2>2. CASE RestartBackend
    <3>1. \A e \in Editors : pc'[e] = "idle"
      BY <2>2, Places DEF RestartBackend
    <3>2. UNCHANGED <<dir, pub>>
      BY <2>2 DEF RestartBackend
    <3>3. QED
      BY <1>1, <3>1, <3>2, QuietLabels
  <2>3. CASE UNCHANGED vars
    BY <1>1, <2>3, QuietLabels DEF vars, files, actorVars, Keeps
  <2>4. QED
    BY <1>1, <2>1, <2>2, <2>3, StepOfActor
<1>2. LabelInv => PublishedLabelsDiffer
  BY DEF LabelInv
<1>3. QED
  BY <1>1, <1>2, InitLabels, TypedInvariant, PTL DEF Spec
=============================================================================
