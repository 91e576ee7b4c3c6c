----------------------- MODULE SceneAnnotationsProofs -----------------------
(* Proofs about SceneAnnotations, for any number of requests, annotations, *)
(* imports and restarts of the backend.                                    *)
EXTENDS SceneAnnotations, FiniteSetTheorems, TLAPS

(* Which request may stand where, and what it carries.                     *)
Placed ==
    \A q \in Requests :
        /\ op[q] \in {"create", "delete"} => arg[q] \in Mine
        /\ op[q] = "import" => arg[q] \in Theirs
        /\ pc[q] = "count" => op[q] \in {"create", "delete", "import"}
        /\ pc[q] \in {"view", "lock", "flag"} => op[q] = "create"
        /\ pc[q] \in {"data", "check", "reread", "revision"} => op[q] = "save"
        /\ pc[q] = "read" => op[q] \in {"import", "rescan"}
        /\ pc[q] = "direct" => op[q] = "import"
        /\ pc[q] = "select" => op[q] = "select"

SceneTyped == TypeOK /\ Placed

(* Every file and every request only takes the values the handlers write,  *)
(* and a request only stands where its kind leads it.                      *)
LEMMA InitTyped == Init => SceneTyped
  BY SceneAssumption
     DEF Init, SceneTyped, TypeOK, Placed, NoCopy, Copy, Manifest, Meta, Ops, Anns

(* What a request has read stays of its type, field by field.              *)
LEMMA CopyFields ==
  ASSUME TypeOK, NEW q \in Requests
  PROVE  copy[q] \in Copy /\ copy[q].anns \in SUBSET Anns /\ copy[q].stamp \in Nat
         /\ copy[q].at \in Nat /\ copy[q].rev \in Nat /\ copy[q].count \in Nat
         /\ copy[q].manifest \in Manifest
  BY DEF TypeOK, Copy

(* The fields of a request's copy keep their types when one is replaced.   *)
LEMMA CopyUpdates ==
  ASSUME TypeOK, NEW q \in Requests
  PROVE  /\ \A c \in SUBSET Anns, n \in Nat :
              /\ [copy EXCEPT ![q].anns = c, ![q].rev = n] \in [Requests -> Copy]
              /\ [copy EXCEPT ![q].anns = c, ![q].stamp = n] \in [Requests -> Copy]
              /\ [copy EXCEPT ![q] = [NoCopy EXCEPT !.anns = c, !.stamp = n]]
                   \in [Requests -> Copy]
         /\ \A m, n \in Nat : [copy EXCEPT ![q].rev = m, ![q].at = n] \in [Requests -> Copy]
         /\ \A view \in Manifest : [copy EXCEPT ![q].manifest = view] \in [Requests -> Copy]
         /\ \A n \in Nat : [copy EXCEPT ![q].count = n] \in [Requests -> Copy]
         /\ [copy EXCEPT ![q] = NoCopy] \in [Requests -> Copy]
<1>1. NoCopy \in Copy
  BY DEF Copy, NoCopy, Manifest
<1>2. ASSUME NEW c \in SUBSET Anns, NEW n \in Nat
      PROVE  /\ [NoCopy EXCEPT !.anns = c, !.stamp = n] \in Copy
             /\ [copy[q] EXCEPT !.anns = c, !.rev = n] \in Copy
             /\ [copy[q] EXCEPT !.anns = c, !.stamp = n] \in Copy
  BY CopyFields DEF Copy, NoCopy, Manifest
<1>3. ASSUME NEW m \in Nat, NEW n \in Nat, NEW view \in Manifest
      PROVE  /\ [copy[q] EXCEPT !.rev = m, !.at = n] \in Copy
             /\ [copy[q] EXCEPT !.manifest = view] \in Copy
             /\ [copy[q] EXCEPT !.count = n] \in Copy
  BY CopyFields DEF Copy
<1>4. ASSUME NEW c \in SUBSET Anns, NEW n \in Nat
      PROVE  /\ [copy EXCEPT ![q].anns = c, ![q].rev = n] \in [Requests -> Copy]
             /\ [copy EXCEPT ![q].anns = c, ![q].stamp = n] \in [Requests -> Copy]
             /\ [copy EXCEPT ![q] = [NoCopy EXCEPT !.anns = c, !.stamp = n]]
                   \in [Requests -> Copy]
  BY <1>2 DEF TypeOK
<1>5. ASSUME NEW m \in Nat, NEW n \in Nat
      PROVE  [copy EXCEPT ![q].rev = m, ![q].at = n] \in [Requests -> Copy]
  <2>1. NoCopy.manifest \in Manifest
    BY DEF NoCopy, Manifest
  <2>2. QED
    BY <1>3, <2>1 DEF TypeOK
<1>6. ASSUME NEW view \in Manifest
      PROVE  [copy EXCEPT ![q].manifest = view] \in [Requests -> Copy]
  BY <1>3 DEF TypeOK
<1>7. ASSUME NEW n \in Nat
      PROVE  [copy EXCEPT ![q].count = n] \in [Requests -> Copy]
  <2>1. NoCopy.manifest \in Manifest
    BY DEF NoCopy, Manifest
  <2>2. QED
    BY <1>3, <2>1 DEF TypeOK
<1>8. QED
  BY <1>1, <1>4, <1>5, <1>6, <1>7 DEF TypeOK

(* Every step keeps the types.                                             *)
LEMMA StepTyped == SceneTyped /\ [Next]_vars => SceneTyped'
<1> SUFFICES ASSUME SceneTyped, [Next]_vars
             PROVE  SceneTyped'
  OBVIOUS
<1>a. \A S \in SUBSET Anns : Cardinality(S) \in Nat
  BY SceneAssumption, FS_Union, FS_Subset, FS_CardinalityType DEF Anns
<1>b. TypeOK /\ Placed
  BY DEF SceneTyped
<1>c. /\ anns \in SUBSET Anns /\ stamp \in Nat /\ count \in Nat /\ manifest \in Manifest
      /\ meta.rev \in Nat /\ meta.stamp \in Nat
  BY <1>b DEF TypeOK, Meta
<1>d. [r \in Requests |-> NoCopy] \in [Requests -> Copy]
  BY DEF NoCopy, Copy, Manifest
<1> USE DEF docVars, sceneVars, reqVars, history, Goto, MetaIsCurrent
<1>1. ASSUME NEW q \in Requests, NEW a \in Mine, AskCreate(q, a) \/ AskDelete(q, a)
      PROVE  SceneTyped'
  BY <1>a, <1>b, SceneAssumption, <1>1 DEF AskCreate, AskDelete, Begin, SceneTyped, TypeOK,
     Placed, Meta, Ops, Anns
<1>2. ASSUME NEW q \in Requests, NEW a \in Theirs, AskImport(q, a)
      PROVE  SceneTyped'
  BY <1>a, <1>b, SceneAssumption, <1>2 DEF AskImport, Begin, SceneTyped, TypeOK, Placed,
     Meta, Ops, Anns
<1>3. ASSUME NEW q \in Requests, AskEdit(q) \/ AskSave(q) \/ AskRescan(q)
      PROVE  SceneTyped'
  BY <1>a, <1>b, SceneAssumption, <1>3 DEF AskEdit, AskSave, AskRescan, Begin, SceneTyped,
     TypeOK, Placed, Meta, Ops, Anns
<1>4. ASSUME NEW q \in Requests, AskSelect(q)
      PROVE  SceneTyped'
  <2>1. copy' \in [Requests -> Copy]
    BY <1>b, <1>c, <1>4, CopyUpdates DEF AskSelect
  <2>2. QED
    BY <1>a, <1>b, SceneAssumption, <1>4, <2>1 DEF AskSelect, SceneTyped, TypeOK, Placed,
       Meta, Ops, Anns
<1>5. ASSUME NEW q \in Requests, Mutate(q)
      PROVE  SceneTyped'
  <2> DEFINE content == CASE op[q] = "create" -> anns \union {arg[q]}
                      [] op[q] = "delete" -> anns \ {arg[q]}
                      [] OTHER -> anns
  <2>1. /\ pc[q] = "write" /\ flock = None /\ op[q] \in {"create", "delete", "edit", "import"}
        /\ WriteFile(q, content, BaseRevision + 1)
    BY <1>5 DEF Mutate
  <2>2. content \in SUBSET Anns
    BY <1>b, <1>c, <2>1 DEF Placed, Anns
  <2>3. BaseRevision + 1 \in Nat
    BY <1>c DEF BaseRevision
  <2> HIDE DEF content
  <2>4. copy' \in [Requests -> Copy]
    BY <1>b, <2>1, <2>2, <2>3, CopyUpdates DEF WriteFile
  <2>5. QED
    BY <1>a, <1>b, SceneAssumption, <2>1, <2>2, <2>4 DEF WriteFile, SceneTyped, TypeOK,
       Placed, Meta, Ops, Anns
<1>6. ASSUME NEW q \in Requests, NotFound(q)
      PROVE  SceneTyped'
  <2>1. copy' \in [Requests -> Copy]
    BY <1>b, <1>6, CopyUpdates DEF NotFound, Done
  <2>2. QED
    BY <1>a, <1>b, SceneAssumption, <1>6, <2>1 DEF NotFound, Done, SceneTyped, TypeOK,
       Placed, Meta, Ops, Anns
<1>7. ASSUME NEW q \in Requests, Save(q)
      PROVE  SceneTyped'
  <2>1. pc[q] = "write" /\ op[q] \in {"save", "rescan"} /\ flock = None
    BY <1>7 DEF Save
  <2>2. CASE Accepted(q)
    <3>1. WriteFile(q, copy[q].anns, meta.rev + 1)
      BY <1>7, <2>2 DEF Save
    <3>2. copy[q].anns \in SUBSET Anns /\ meta.rev + 1 \in Nat
      BY <1>b, <1>c, CopyFields
    <3>3. copy' \in [Requests -> Copy]
      BY <1>b, <3>1, <3>2, CopyUpdates DEF WriteFile
    <3>4. QED
      BY <1>a, <1>b, SceneAssumption, <2>1, <3>1, <3>2, <3>3 DEF WriteFile, SceneTyped,
         TypeOK, Placed, Meta, Ops, Anns
  <2>3. CASE ~Accepted(q)
    <3>1. Done(q) /\ UNCHANGED <<docVars, sceneVars, asks, crashes, history>>
      BY <1>7, <2>3 DEF Save
    <3>2. copy' \in [Requests -> Copy]
      BY <1>b, <3>1, CopyUpdates DEF Done
    <3>3. QED
      BY <1>a, <1>b, SceneAssumption, <2>1, <3>1, <3>2 DEF Done, SceneTyped, TypeOK, Placed,
         Meta, Ops, Anns
  <2>4. QED
    BY <2>2, <2>3
<1>8. ASSUME NEW q \in Requests, WriteSidecar(q)
      PROVE  SceneTyped'
  <2>1. CASE op[q] \in {"create", "delete", "import"}
    <3>1. Goto(q, "count") /\ UNCHANGED copy
      BY <1>8, <2>1 DEF WriteSidecar
    <3>2. copy' \in [Requests -> Copy]
      BY <1>b, <3>1 DEF TypeOK
    <3>3. QED
      BY <1>a, <1>b, SceneAssumption, <1>8, <2>1, <3>1, <3>2, CopyFields DEF WriteSidecar,
         SceneTyped, TypeOK, Placed, Meta, Ops, Anns
  <2>2. CASE ~(op[q] \in {"create", "delete", "import"})
    <3>1. Done(q)
      BY <1>8, <2>2 DEF WriteSidecar
    <3>2. copy' \in [Requests -> Copy]
      BY <1>b, <3>1, CopyUpdates DEF Done
    <3>3. QED
      BY <1>a, <1>b, SceneAssumption, <1>8, <2>2, <3>1, <3>2, CopyFields DEF WriteSidecar,
         Done, SceneTyped, TypeOK, Placed, Meta, Ops, Anns
  <2>3. QED
    BY <2>1, <2>2
<1>9. ASSUME NEW q \in Requests, ReadData(q)
      PROVE  SceneTyped'
  <2>1. copy' \in [Requests -> Copy]
    BY <1>b, <1>c, <1>9, CopyUpdates DEF ReadData
  <2>2. QED
    BY <1>a, <1>b, SceneAssumption, <1>9, <2>1 DEF ReadData, SceneTyped, TypeOK, Placed,
       Meta, Ops, Anns
<1>10. ASSUME NEW q \in Requests, CheckSidecar(q)
      PROVE  SceneTyped'
  BY <1>a, <1>b, SceneAssumption, <1>10 DEF CheckSidecar, SceneTyped, TypeOK, Placed, Meta,
     Ops, Anns
<1>11. ASSUME NEW q \in Requests, ReadAgain(q)
      PROVE  SceneTyped'
  <2>1. copy' \in [Requests -> Copy]
    BY <1>b, <1>c, <1>11, CopyUpdates DEF ReadAgain
  <2>2. QED
    BY <1>a, <1>b, SceneAssumption, <1>11, <2>1 DEF ReadAgain, Repaired, SceneTyped, TypeOK,
       Placed, Meta, Ops, Anns
<1>12. ASSUME NEW q \in Requests, ReadRevision(q)
      PROVE  SceneTyped'
  <2>1. copy' \in [Requests -> Copy]
    BY <1>b, <1>c, <1>12, CopyUpdates DEF ReadRevision
  <2>2. QED
    BY <1>a, <1>b, SceneAssumption, <1>12, <2>1 DEF ReadRevision, SceneTyped, TypeOK,
       Placed, Meta, Ops, Anns
<1>13. ASSUME NEW q \in Requests, ReadList(q)
      PROVE  SceneTyped'
  <2>1. copy' \in [Requests -> Copy]
    BY <1>b, <1>c, <1>13, CopyUpdates DEF ReadList
  <2>2. QED
    BY <1>a, <1>b, SceneAssumption, <1>13, <2>1 DEF ReadList, SceneTyped, TypeOK, Placed,
       Meta, Ops, Anns
<1>14. ASSUME NEW q \in Requests, WriteImported(q)
      PROVE  SceneTyped'
  <2>1. copy' \in [Requests -> Copy]
    <3>1. (IF copy[q].stamp = stamp THEN stamp + 1 ELSE 0) \in Nat
      BY <1>c
    <3> DEFINE n == IF copy[q].stamp = stamp THEN stamp + 1 ELSE 0
    <3>2. copy' = [copy EXCEPT ![q] = [NoCopy EXCEPT !.anns = anns, !.stamp = n]]
      BY <1>14 DEF WriteImported
    <3> HIDE DEF n
    <3>3. QED
      BY <1>b, <1>c, <3>1, <3>2, CopyUpdates DEF n
  <2>2. QED
    BY <1>a, <1>b, SceneAssumption, <1>14, <2>1, CopyFields DEF WriteImported,
       WriteDirectly, SceneTyped, TypeOK, Placed, Meta, Ops, Anns
<1>15. ASSUME NEW q \in Requests, RollBackImport(q)
      PROVE  SceneTyped'
  <2>1. copy' \in [Requests -> Copy]
    BY <1>b, <1>15, CopyUpdates DEF RollBackImport, Done
  <2>2. QED
    BY <1>a, <1>b, SceneAssumption, <1>15, <2>1, CopyFields DEF RollBackImport,
       WriteDirectly, Done, SceneTyped, TypeOK, Placed, Meta, Ops, Anns
<1>16. ASSUME NEW q \in Requests, WriteCount(q)
      PROVE  SceneTyped'
  <2>1. CASE op[q] = "create"
    <3>1. Goto(q, "view") /\ UNCHANGED copy
      BY <1>16, <2>1 DEF WriteCount
    <3>2. copy' \in [Requests -> Copy]
      BY <1>b, <3>1 DEF TypeOK
    <3>3. QED
      BY <1>a, <1>b, SceneAssumption, <1>16, <2>1, <3>1, <3>2, CopyFields DEF WriteCount,
         SceneTyped, TypeOK, Placed, Meta, Ops, Anns
  <2>2. CASE ~(op[q] = "create")
    <3>1. Done(q)
      BY <1>16, <2>2 DEF WriteCount
    <3>2. copy' \in [Requests -> Copy]
      BY <1>b, <3>1, CopyUpdates DEF Done
    <3>3. QED
      BY <1>a, <1>b, SceneAssumption, <1>16, <2>2, <3>1, <3>2, CopyFields DEF WriteCount,
         Done, SceneTyped, TypeOK, Placed, Meta, Ops, Anns
  <2>3. QED
    BY <2>1, <2>2
<1>17. ASSUME NEW q \in Requests, ReadManifest(q)
      PROVE  SceneTyped'
  <2>1. CASE ~manifest.locked
    <3>1. copy' = [copy EXCEPT ![q].manifest = manifest] /\ Goto(q, "lock")
      BY <1>17, <2>1 DEF ReadManifest
    <3>2. copy' \in [Requests -> Copy]
      BY <1>b, <1>c, <3>1, CopyUpdates
    <3>3. QED
      BY <1>a, <1>b, SceneAssumption, <1>17, <2>1, <3>1, <3>2, CopyFields DEF ReadManifest,
         SceneTyped, TypeOK, Placed, Meta, Ops, Anns
  <2>2. CASE ~(~manifest.locked)
    <3>1. Done(q)
      BY <1>17, <2>2 DEF ReadManifest
    <3>2. copy' \in [Requests -> Copy]
      BY <1>b, <3>1, CopyUpdates DEF Done
    <3>3. QED
      BY <1>a, <1>b, SceneAssumption, <1>17, <2>2, <3>1, <3>2, CopyFields DEF ReadManifest,
         Done, SceneTyped, TypeOK, Placed, Meta, Ops, Anns
  <2>3. QED
    BY <2>1, <2>2
<1>18. ASSUME NEW q \in Requests, LockManifest(q)
      PROVE  SceneTyped'
  <2>1. copy' \in [Requests -> Copy]
    BY <1>b, <1>c, <1>18, CopyUpdates DEF LockManifest
  <2>2. [copy[q].manifest EXCEPT !.locked = TRUE] \in Manifest
    BY <1>b, CopyFields DEF Manifest
  <2>3. QED
    BY <1>a, <1>b, SceneAssumption, <1>18, <2>1, <2>2 DEF LockManifest, SceneTyped, TypeOK,
       Placed, Meta, Ops, Anns
<1>19. ASSUME NEW q \in Requests, WriteFlag(q)
      PROVE  SceneTyped'
  <2>1. copy' \in [Requests -> Copy]
    BY <1>b, <1>19, CopyUpdates DEF WriteFlag, Done
  <2>2. QED
    BY <1>a, <1>b, SceneAssumption, <1>19, <2>1, CopyFields DEF WriteFlag, Done, SceneTyped,
       TypeOK, Placed, Meta, Ops, Anns
<1>20. ASSUME NEW q \in Requests, WriteSelection(q)
      PROVE  SceneTyped'
  <2>1. copy' \in [Requests -> Copy]
    BY <1>b, <1>20, CopyUpdates DEF WriteSelection, Done
  <2>2. [copy[q].manifest EXCEPT !.variant = @ + 1] \in Manifest
    BY <1>b, CopyFields DEF Manifest
  <2>3. QED
    BY <1>a, <1>b, SceneAssumption, <1>20, <2>1, <2>2 DEF WriteSelection, Done, SceneTyped,
       TypeOK, Placed, Meta, Ops, Anns
<1>f. ASSUME NEW q \in Requests, RequestFails(q)
      PROVE  SceneTyped'
  <2>1. copy' \in [Requests -> Copy]
    BY <1>b, <1>f, CopyUpdates DEF RequestFails, Done
  <2>2. QED
    BY <1>a, <1>b, SceneAssumption, <1>f, <2>1, CopyFields DEF RequestFails, Done,
       SceneTyped, TypeOK, Placed, Meta, Ops, Anns
<1>21. CASE RepairSidecar
  BY <1>a, <1>b, SceneAssumption, <1>21 DEF RepairSidecar, Repaired, SceneTyped, TypeOK,
     Placed, Meta, Ops, Anns
<1>22. CASE RecomputeNothing
  BY <1>a, <1>b, SceneAssumption, <1>22 DEF RecomputeNothing, BaseRevision, SceneTyped,
     TypeOK, Placed, Meta, Ops, Anns
<1>23. CASE RestartBackend
  <2>1. copy' \in [Requests -> Copy]
    BY <1>d, <1>23 DEF RestartBackend
  <2>2. QED
    BY <1>a, <1>b, SceneAssumption, <1>23, <2>1 DEF RestartBackend, SceneTyped, TypeOK,
       Placed, Meta, Ops, Anns
<1>24. CASE UNCHANGED vars
  BY <1>b, <1>24 DEF vars, SceneTyped, TypeOK, Placed
<1>25. QED
  BY <1>1, <1>2, <1>3, <1>4, <1>5, <1>6, <1>7, <1>8, <1>9, <1>10, <1>11, <1>12, <1>13,
     <1>14, <1>15, <1>16, <1>17, <1>18, <1>19, <1>20, <1>f, <1>21, <1>22, <1>23, <1>24
     DEF Next, Ask, RequestStep

(* Type correctness, for every instance of the constants.                  *)
THEOREM SceneTypes == Spec => []TypeOK
<1>1. SceneTyped => TypeOK
  BY DEF SceneTyped
<1>2. QED
  BY <1>1, InitTyped, StepTyped, PTL DEF Spec
-----------------------------------------------------------------------------
(* The size and time of the file tell its versions apart: a list that was  *)
(* read is the stored one as long as they have not moved, and after its    *)
(* own write an import differs from what it read by the imported row only. *)
Read(q) ==
    \/ pc[q] \in {"check", "reread", "revision", "direct"}
    \/ pc[q] = "write" /\ op[q] \in {"save", "rescan"}

StampsIdentify ==
    /\ direct <= stamp
    /\ \A q \in Requests :
        /\ copy[q].stamp <= stamp
        /\ Read(q) /\ copy[q].stamp = stamp => copy[q].anns = anns
        /\ pc[q] = "write" /\ op[q] = "import" /\ copy[q].stamp = stamp
             => anns \ copy[q].anns \subseteq {arg[q]}

(* The revision only grows, and the one a writer is about to store is new. *)
(* Without a restart, the sidecar lags behind the free file only because   *)
(* the last write was an import's or failed before its sidecar.            *)
RevisionsGrow ==
    /\ \A q \in Requests : pc[q] = "sidecar" => copy[q].rev > meta.rev
    /\ \A q \in Requests : pc[q] = "write" /\ op[q] = "save" => copy[q].rev <= meta.rev
    /\ crashes = 0 /\ flock = None => meta.stamp = stamp \/ direct = stamp

(* Nobody has stored the revision a client saw with another list.          *)
RevisionIsOfList ==
    \A q \in Requests :
        pc[q] = "write" /\ op[q] = "save" /\ SawBoth(q) /\ meta.rev = copy[q].rev
        => meta.stamp = copy[q].stamp

SaveInv == SceneTyped /\ StampsIdentify /\ RevisionsGrow /\ RevisionIsOfList

(* Every write moves the stamp, so what was read before is recognised.      *)
LEMMA StepStamps == SaveInv /\ [Next]_vars => StampsIdentify'
<1> SUFFICES ASSUME SaveInv, [Next]_vars
             PROVE  StampsIdentify'
  OBVIOUS
<1>a. SceneTyped /\ SceneTyped' /\ StampsIdentify /\ RevisionsGrow /\ RevisionIsOfList
  BY StepTyped DEF SaveInv
<1> USE <1>a, SceneAssumption DEF SceneTyped, TypeOK, Placed, Copy, Meta, StampsIdentify,
   Read,
        docVars, sceneVars, reqVars, history, Goto, NoCopy, MetaIsCurrent
<1>1. ASSUME NEW q \in Requests, NEW a \in Mine, AskCreate(q, a) \/ AskDelete(q, a)
      PROVE  StampsIdentify'
  BY <1>1 DEF AskCreate, AskDelete, Begin
<1>2. ASSUME NEW q \in Requests, NEW a \in Theirs, AskImport(q, a)
      PROVE  StampsIdentify'
  BY <1>2 DEF AskImport, Begin
<1>3. ASSUME NEW q \in Requests, AskEdit(q) \/ AskSave(q) \/ AskRescan(q)
      PROVE  StampsIdentify'
  <2>1. /\ pc[q] = "idle" /\ UNCHANGED <<docVars, sceneVars, copy, crashes, direct>>
        /\ arg' = [arg EXCEPT ![q] = None]
        /\ \/ pc' = [pc EXCEPT ![q] = "write"] /\ op' = [op EXCEPT ![q] = "edit"]
           \/ pc' = [pc EXCEPT ![q] = "data"] /\ op' = [op EXCEPT ![q] = "save"]
           \/ pc' = [pc EXCEPT ![q] = "read"] /\ op' = [op EXCEPT ![q] = "rescan"]
    <3> HIDE DEF SceneTyped, TypeOK, Placed, Copy, StampsIdentify
    <3>1. QED
      BY <1>3 DEF AskEdit, AskSave, AskRescan, Begin
  <2>2. QED
    BY <2>1
<1>4. ASSUME NEW q \in Requests, AskSelect(q)
      PROVE  StampsIdentify'
  BY <1>4 DEF AskSelect
<1>5. ASSUME NEW q \in Requests, Mutate(q)
      PROVE  StampsIdentify'
  BY <1>5 DEF Mutate, WriteFile
<1>6. ASSUME NEW q \in Requests, NotFound(q)
      PROVE  StampsIdentify'
  BY <1>6 DEF NotFound, Done
<1>7. ASSUME NEW q \in Requests, Save(q)
      PROVE  StampsIdentify'
  <2>1. pc[q] = "write" /\ op[q] \in {"save", "rescan"} /\ flock = None
    BY <1>7 DEF Save
  <2>2. CASE Accepted(q)
    <3>1. WriteFile(q, copy[q].anns, meta.rev + 1)
      <4> HIDE DEF SceneTyped, TypeOK, Placed, Copy, StampsIdentify
      <4>1. QED
        BY <1>7, <2>2 DEF Save
    <3>2. QED
      BY <2>1, <2>2, <3>1 DEF WriteFile, Accepted
  <2>3. CASE ~(Accepted(q))
    <3>1. Done(q) /\ UNCHANGED <<docVars, sceneVars, asks, crashes, history>>
      <4> HIDE DEF SceneTyped, TypeOK, Placed, Copy, StampsIdentify
      <4>1. QED
        BY <1>7, <2>3 DEF Save
    <3>2. QED
      BY <2>1, <2>3, <3>1 DEF Done
  <2>4. QED
    BY <2>2, <2>3
<1>8. ASSUME NEW q \in Requests, WriteSidecar(q)
      PROVE  StampsIdentify'
  <2>1. pc[q] = "sidecar" /\ meta' = [rev |-> copy[q].rev, stamp |-> stamp] /\ flock' = None
        /\ UNCHANGED <<anns, stamp, sceneVars, asks, crashes, history>>
    BY <1>8 DEF WriteSidecar
  <2>2. CASE op[q] \in {"create", "delete", "import"}
    <3>1. Goto(q, "count") /\ UNCHANGED copy
      <4> HIDE DEF SceneTyped, TypeOK, Placed, Copy, StampsIdentify
      <4>1. QED
        BY <1>8, <2>2 DEF WriteSidecar
    <3>2. QED
      BY <2>1, <2>2, <3>1 DEF Done
  <2>3. CASE ~(op[q] \in {"create", "delete", "import"})
    <3>1. Done(q)
      <4> HIDE DEF SceneTyped, TypeOK, Placed, Copy, StampsIdentify
      <4>1. QED
        BY <1>8, <2>3 DEF WriteSidecar
    <3>2. QED
      BY <2>1, <2>3, <3>1 DEF Done
  <2>4. QED
    BY <2>2, <2>3
<1>9. ASSUME NEW q \in Requests, ReadData(q)
      PROVE  StampsIdentify'
  BY <1>9 DEF ReadData
<1>10. ASSUME NEW q \in Requests, CheckSidecar(q)
      PROVE  StampsIdentify'
  BY <1>10 DEF CheckSidecar
<1>11. ASSUME NEW q \in Requests, ReadAgain(q)
      PROVE  StampsIdentify'
  BY <1>11 DEF ReadAgain, Repaired
<1>12. ASSUME NEW q \in Requests, ReadRevision(q)
      PROVE  StampsIdentify'
  BY <1>12 DEF ReadRevision
<1>13. ASSUME NEW q \in Requests, ReadList(q)
      PROVE  StampsIdentify'
  BY <1>13 DEF ReadList
<1>14. ASSUME NEW q \in Requests, WriteImported(q)
      PROVE  StampsIdentify'
  BY <1>14 DEF WriteImported, WriteDirectly
<1>15. ASSUME NEW q \in Requests, RollBackImport(q)
      PROVE  StampsIdentify'
  BY <1>15 DEF RollBackImport, WriteDirectly, Done
<1>16. ASSUME NEW q \in Requests, WriteCount(q)
      PROVE  StampsIdentify'
  <2>1. pc[q] = "count" /\ UNCHANGED <<docVars, manifest, asks, crashes, history>>
    BY <1>16 DEF WriteCount
  <2>2. CASE op[q] = "create"
    <3>1. Goto(q, "view") /\ UNCHANGED copy
      <4> HIDE DEF SceneTyped, TypeOK, Placed, Copy, StampsIdentify
      <4>1. QED
        BY <1>16, <2>2 DEF WriteCount
    <3>2. QED
      BY <2>1, <2>2, <3>1 DEF Done
  <2>3. CASE ~(op[q] = "create")
    <3>1. Done(q)
      <4> HIDE DEF SceneTyped, TypeOK, Placed, Copy, StampsIdentify
      <4>1. QED
        BY <1>16, <2>3 DEF WriteCount
    <3>2. QED
      BY <2>1, <2>3, <3>1 DEF Done
  <2>4. QED
    BY <2>2, <2>3
<1>17. ASSUME NEW q \in Requests, ReadManifest(q)
      PROVE  StampsIdentify'
  <2>1. pc[q] = "view" /\ UNCHANGED <<docVars, sceneVars, asks, crashes, history>>
    BY <1>17 DEF ReadManifest
  <2>2. CASE ~manifest.locked
    <3>1. Goto(q, "lock") /\ copy' = [copy EXCEPT ![q].manifest = manifest]
      <4> HIDE DEF SceneTyped, TypeOK, Placed, Copy, StampsIdentify
      <4>1. QED
        BY <1>17, <2>2 DEF ReadManifest
    <3>2. QED
      BY <2>1, <2>2, <3>1 DEF Done
  <2>3. CASE ~(~manifest.locked)
    <3>1. Done(q)
      <4> HIDE DEF SceneTyped, TypeOK, Placed, Copy, StampsIdentify
      <4>1. QED
        BY <1>17, <2>3 DEF ReadManifest
    <3>2. QED
      BY <2>1, <2>3, <3>1 DEF Done
  <2>4. QED
    BY <2>2, <2>3
<1>18. ASSUME NEW q \in Requests, LockManifest(q)
      PROVE  StampsIdentify'
  BY <1>18 DEF LockManifest
<1>19. ASSUME NEW q \in Requests, WriteFlag(q)
      PROVE  StampsIdentify'
  BY <1>19 DEF WriteFlag, Done
<1>20. ASSUME NEW q \in Requests, WriteSelection(q)
      PROVE  StampsIdentify'
  BY <1>20 DEF WriteSelection, Done
<1>f. ASSUME NEW q \in Requests, RequestFails(q)
      PROVE  StampsIdentify'
  BY <1>f DEF RequestFails, Done
<1>21. CASE RepairSidecar
  BY <1>21 DEF RepairSidecar, Repaired
<1>22. CASE RecomputeNothing
  BY <1>22 DEF RecomputeNothing, BaseRevision
<1>23. CASE RestartBackend
  BY <1>23 DEF RestartBackend
<1>24. CASE UNCHANGED vars
  BY <1>24 DEF vars
<1>25. QED
  BY <1>1, <1>2, <1>3, <1>4, <1>5, <1>6, <1>7, <1>8, <1>9, <1>10, <1>11, <1>12, <1>13,
     <1>14, <1>15, <1>16, <1>17, <1>18, <1>19, <1>20, <1>f, <1>21, <1>22, <1>23, <1>24
     DEF Next, Ask, RequestStep

(* The sidecar is written by one holder of the lock at a time.              *)
LEMMA StepRevisions == SaveInv /\ [Next]_vars => RevisionsGrow'
<1> SUFFICES ASSUME SaveInv, [Next]_vars
             PROVE  RevisionsGrow'
  OBVIOUS
<1>a. SceneTyped /\ SceneTyped' /\ StampsIdentify /\ RevisionsGrow /\ RevisionIsOfList
  BY StepTyped DEF SaveInv
<1> USE <1>a, SceneAssumption DEF SceneTyped, TypeOK, Placed, Copy, Meta, RevisionsGrow,
        docVars, sceneVars, reqVars, history, Goto, NoCopy, MetaIsCurrent
<1>1. ASSUME NEW q \in Requests, NEW a \in Mine, AskCreate(q, a) \/ AskDelete(q, a)
      PROVE  RevisionsGrow'
  <2>1. /\ pc[q] = "idle" /\ UNCHANGED <<docVars, sceneVars, copy, crashes, direct>>
        /\ pc' = [pc EXCEPT ![q] = "write"]
        /\ op' = [op EXCEPT ![q] = "create"] \/ op' = [op EXCEPT ![q] = "delete"]
    <3> HIDE DEF SceneTyped, TypeOK, Placed, Copy, RevisionsGrow
    <3>1. QED
      BY <1>1 DEF AskCreate, AskDelete, Begin
  <2>2. QED
    BY <2>1
<1>2. ASSUME NEW q \in Requests, NEW a \in Theirs, AskImport(q, a)
      PROVE  RevisionsGrow'
  BY <1>2 DEF AskImport, Begin
<1>3. ASSUME NEW q \in Requests, AskEdit(q) \/ AskSave(q) \/ AskRescan(q)
      PROVE  RevisionsGrow'
  <2>1. /\ pc[q] = "idle" /\ UNCHANGED <<docVars, sceneVars, copy, crashes, direct>>
        /\ arg' = [arg EXCEPT ![q] = None]
        /\ \/ pc' = [pc EXCEPT ![q] = "write"] /\ op' = [op EXCEPT ![q] = "edit"]
           \/ pc' = [pc EXCEPT ![q] = "data"] /\ op' = [op EXCEPT ![q] = "save"]
           \/ pc' = [pc EXCEPT ![q] = "read"] /\ op' = [op EXCEPT ![q] = "rescan"]
    <3> HIDE DEF SceneTyped, TypeOK, Placed, Copy, RevisionsGrow
    <3>1. QED
      BY <1>3 DEF AskEdit, AskSave, AskRescan, Begin
  <2>2. QED
    BY <2>1
<1>4. ASSUME NEW q \in Requests, AskSelect(q)
      PROVE  RevisionsGrow'
  BY <1>4 DEF AskSelect
<1>5. ASSUME NEW q \in Requests, Mutate(q)
      PROVE  RevisionsGrow'
  BY <1>5 DEF Mutate, WriteFile, BaseRevision
<1>6. ASSUME NEW q \in Requests, NotFound(q)
      PROVE  RevisionsGrow'
  BY <1>6 DEF NotFound, Done
<1>7. ASSUME NEW q \in Requests, Save(q)
      PROVE  RevisionsGrow'
  <2>1. pc[q] = "write" /\ op[q] \in {"save", "rescan"} /\ flock = None
    BY <1>7 DEF Save
  <2>2. CASE Accepted(q)
    <3>1. WriteFile(q, copy[q].anns, meta.rev + 1)
      <4> HIDE DEF SceneTyped, TypeOK, Placed, Copy, RevisionsGrow
      <4>1. QED
        BY <1>7, <2>2 DEF Save
    <3>2. QED
      BY <2>1, <2>2, <3>1 DEF WriteFile, Accepted
  <2>3. CASE ~(Accepted(q))
    <3>1. Done(q) /\ UNCHANGED <<docVars, sceneVars, asks, crashes, history>>
      <4> HIDE DEF SceneTyped, TypeOK, Placed, Copy, RevisionsGrow
      <4>1. QED
        BY <1>7, <2>3 DEF Save
    <3>2. QED
      BY <2>1, <2>3, <3>1 DEF Done
  <2>4. QED
    BY <2>2, <2>3
<1>8. ASSUME NEW q \in Requests, WriteSidecar(q)
      PROVE  RevisionsGrow'
  <2>1. pc[q] = "sidecar" /\ meta' = [rev |-> copy[q].rev, stamp |-> stamp] /\ flock' = None
        /\ UNCHANGED <<anns, stamp, sceneVars, asks, crashes, history>>
    BY <1>8 DEF WriteSidecar
  <2>2. CASE op[q] \in {"create", "delete", "import"}
    <3>1. Goto(q, "count") /\ UNCHANGED copy
      <4> HIDE DEF SceneTyped, TypeOK, Placed, Copy, RevisionsGrow
      <4>1. QED
        BY <1>8, <2>2 DEF WriteSidecar
    <3>2. QED
      BY <2>1, <2>2, <3>1 DEF Done
  <2>3. CASE ~(op[q] \in {"create", "delete", "import"})
    <3>1. Done(q)
      <4> HIDE DEF SceneTyped, TypeOK, Placed, Copy, RevisionsGrow
      <4>1. QED
        BY <1>8, <2>3 DEF WriteSidecar
    <3>2. QED
      BY <2>1, <2>3, <3>1 DEF Done
  <2>4. QED
    BY <2>2, <2>3
<1>9. ASSUME NEW q \in Requests, ReadData(q)
      PROVE  RevisionsGrow'
  BY <1>9 DEF ReadData
<1>10. ASSUME NEW q \in Requests, CheckSidecar(q)
      PROVE  RevisionsGrow'
  BY <1>10 DEF CheckSidecar
<1>11. ASSUME NEW q \in Requests, ReadAgain(q)
      PROVE  RevisionsGrow'
  BY <1>11 DEF ReadAgain, Repaired
<1>12. ASSUME NEW q \in Requests, ReadRevision(q)
      PROVE  RevisionsGrow'
  BY <1>12 DEF ReadRevision
<1>13. ASSUME NEW q \in Requests, ReadList(q)
      PROVE  RevisionsGrow'
  BY <1>13 DEF ReadList
<1>14. ASSUME NEW q \in Requests, WriteImported(q)
      PROVE  RevisionsGrow'
  BY <1>14 DEF WriteImported, WriteDirectly
<1>15. ASSUME NEW q \in Requests, RollBackImport(q)
      PROVE  RevisionsGrow'
  BY <1>15 DEF RollBackImport, WriteDirectly, Done
<1>16. ASSUME NEW q \in Requests, WriteCount(q)
      PROVE  RevisionsGrow'
  <2>1. pc[q] = "count" /\ UNCHANGED <<docVars, manifest, asks, crashes, history>>
    BY <1>16 DEF WriteCount
  <2>2. CASE op[q] = "create"
    <3>1. Goto(q, "view") /\ UNCHANGED copy
      <4> HIDE DEF SceneTyped, TypeOK, Placed, Copy, RevisionsGrow
      <4>1. QED
        BY <1>16, <2>2 DEF WriteCount
    <3>2. QED
      BY <2>1, <2>2, <3>1 DEF Done
  <2>3. CASE ~(op[q] = "create")
    <3>1. Done(q)
      <4> HIDE DEF SceneTyped, TypeOK, Placed, Copy, RevisionsGrow
      <4>1. QED
        BY <1>16, <2>3 DEF WriteCount
    <3>2. QED
      BY <2>1, <2>3, <3>1 DEF Done
  <2>4. QED
    BY <2>2, <2>3
<1>17. ASSUME NEW q \in Requests, ReadManifest(q)
      PROVE  RevisionsGrow'
  <2>1. pc[q] = "view" /\ UNCHANGED <<docVars, sceneVars, asks, crashes, history>>
    BY <1>17 DEF ReadManifest
  <2>2. CASE ~manifest.locked
    <3>1. Goto(q, "lock") /\ copy' = [copy EXCEPT ![q].manifest = manifest]
      <4> HIDE DEF SceneTyped, TypeOK, Placed, Copy, RevisionsGrow
      <4>1. QED
        BY <1>17, <2>2 DEF ReadManifest
    <3>2. QED
      BY <2>1, <2>2, <3>1 DEF Done
  <2>3. CASE ~(~manifest.locked)
    <3>1. Done(q)
      <4> HIDE DEF SceneTyped, TypeOK, Placed, Copy, RevisionsGrow
      <4>1. QED
        BY <1>17, <2>3 DEF ReadManifest
    <3>2. QED
      BY <2>1, <2>3, <3>1 DEF Done
  <2>4. QED
    BY <2>2, <2>3
<1>18. ASSUME NEW q \in Requests, LockManifest(q)
      PROVE  RevisionsGrow'
  BY <1>18 DEF LockManifest
<1>19. ASSUME NEW q \in Requests, WriteFlag(q)
      PROVE  RevisionsGrow'
  BY <1>19 DEF WriteFlag, Done
<1>20. ASSUME NEW q \in Requests, WriteSelection(q)
      PROVE  RevisionsGrow'
  BY <1>20 DEF WriteSelection, Done
<1>f. ASSUME NEW q \in Requests, RequestFails(q)
      PROVE  RevisionsGrow'
  BY <1>f DEF RequestFails, Done
<1>21. CASE RepairSidecar
  BY <1>21 DEF RepairSidecar, Repaired
<1>22. CASE RecomputeNothing
  BY <1>22 DEF RecomputeNothing, BaseRevision
<1>23. CASE RestartBackend
  BY <1>23 DEF RestartBackend
<1>24. CASE UNCHANGED vars
  BY <1>24 DEF vars
<1>25. QED
  BY <1>1, <1>2, <1>3, <1>4, <1>5, <1>6, <1>7, <1>8, <1>9, <1>10, <1>11, <1>12, <1>13,
     <1>14, <1>15, <1>16, <1>17, <1>18, <1>19, <1>20, <1>f, <1>21, <1>22, <1>23, <1>24
     DEF Next, Ask, RequestStep

(* A repair keeps the revision, but finds a sidecar that lags behind only   *)
(* after an import or a failed write, which the client has then seen.      *)
LEMMA StepList == SaveInv /\ [Next]_vars => RevisionIsOfList'
<1> SUFFICES ASSUME SaveInv, [Next]_vars
             PROVE  RevisionIsOfList'
  OBVIOUS
<1>a. SceneTyped /\ SceneTyped' /\ StampsIdentify /\ RevisionsGrow /\ RevisionIsOfList
  BY StepTyped DEF SaveInv
<1> USE <1>a, SceneAssumption DEF SceneTyped, TypeOK, Placed, Copy, Meta, StampsIdentify,
   RevisionsGrow, RevisionIsOfList, SawBoth,
        docVars, sceneVars, reqVars, history, Goto, NoCopy, MetaIsCurrent
<1>1. ASSUME NEW q \in Requests, NEW a \in Mine, AskCreate(q, a) \/ AskDelete(q, a)
      PROVE  RevisionIsOfList'
  <2>1. /\ pc[q] = "idle" /\ UNCHANGED <<docVars, sceneVars, copy, crashes, direct>>
        /\ pc' = [pc EXCEPT ![q] = "write"]
        /\ op' = [op EXCEPT ![q] = "create"] \/ op' = [op EXCEPT ![q] = "delete"]
    <3> HIDE DEF SceneTyped, TypeOK, Placed, Copy, StampsIdentify, RevisionsGrow, RevisionIsOfList
    <3>1. QED
      BY <1>1 DEF AskCreate, AskDelete, Begin
  <2>2. QED
    BY <2>1
<1>2. ASSUME NEW q \in Requests, NEW a \in Theirs, AskImport(q, a)
      PROVE  RevisionIsOfList'
  BY <1>2 DEF AskImport, Begin
<1>3. ASSUME NEW q \in Requests, AskEdit(q) \/ AskSave(q) \/ AskRescan(q)
      PROVE  RevisionIsOfList'
  <2>1. /\ pc[q] = "idle" /\ UNCHANGED <<docVars, sceneVars, copy, crashes, direct>>
        /\ arg' = [arg EXCEPT ![q] = None]
        /\ \/ pc' = [pc EXCEPT ![q] = "write"] /\ op' = [op EXCEPT ![q] = "edit"]
           \/ pc' = [pc EXCEPT ![q] = "data"] /\ op' = [op EXCEPT ![q] = "save"]
           \/ pc' = [pc EXCEPT ![q] = "read"] /\ op' = [op EXCEPT ![q] = "rescan"]
    <3> HIDE DEF SceneTyped, TypeOK, Placed, Copy, StampsIdentify, RevisionsGrow, RevisionIsOfList
    <3>1. QED
      BY <1>3 DEF AskEdit, AskSave, AskRescan, Begin
  <2>2. QED
    BY <2>1
<1>4. ASSUME NEW q \in Requests, AskSelect(q)
      PROVE  RevisionIsOfList'
  BY <1>4 DEF AskSelect
<1>5. ASSUME NEW q \in Requests, Mutate(q)
      PROVE  RevisionIsOfList'
  <2>1. BaseRevision \in Nat /\ BaseRevision >= meta.rev
    BY DEF BaseRevision
  <2>2. pc[q] = "write" /\ flock = None /\ op[q] \in {"create", "delete", "edit", "import"}
    BY <1>5 DEF Mutate
  <2>3. \E content : WriteFile(q, content, BaseRevision + 1)
    <3> HIDE DEF SceneTyped, TypeOK, Placed, Copy, StampsIdentify, RevisionsGrow, RevisionIsOfList
    <3>1. QED
      BY <1>5 DEF Mutate
  <2>4. QED
    BY <2>1, <2>2, <2>3 DEF WriteFile
<1>6. ASSUME NEW q \in Requests, NotFound(q)
      PROVE  RevisionIsOfList'
  BY <1>6 DEF NotFound, Done
<1>7. ASSUME NEW q \in Requests, Save(q)
      PROVE  RevisionIsOfList'
  <2>1. pc[q] = "write" /\ op[q] \in {"save", "rescan"} /\ flock = None
    BY <1>7 DEF Save
  <2>2. CASE Accepted(q)
    <3>1. WriteFile(q, copy[q].anns, meta.rev + 1)
      <4> HIDE DEF SceneTyped, TypeOK, Placed, Copy, StampsIdentify, RevisionsGrow, RevisionIsOfList
      <4>1. QED
        BY <1>7, <2>2 DEF Save
    <3>2. QED
      BY <2>1, <2>2, <3>1, SMTT(30) DEF WriteFile, Accepted
  <2>3. CASE ~(Accepted(q))
    <3>1. Done(q) /\ UNCHANGED <<docVars, sceneVars, asks, crashes, history>>
      <4> HIDE DEF SceneTyped, TypeOK, Placed, Copy, StampsIdentify, RevisionsGrow, RevisionIsOfList
      <4>1. QED
        BY <1>7, <2>3 DEF Save
    <3>2. QED
      BY <2>1, <2>3, <3>1 DEF Done
  <2>4. QED
    BY <2>2, <2>3
<1>8. ASSUME NEW q \in Requests, WriteSidecar(q)
      PROVE  RevisionIsOfList'
  <2>1. pc[q] = "sidecar" /\ meta' = [rev |-> copy[q].rev, stamp |-> stamp] /\ flock' = None
        /\ UNCHANGED <<anns, stamp, sceneVars, asks, crashes, history>>
    BY <1>8 DEF WriteSidecar
  <2>2. CASE op[q] \in {"create", "delete", "import"}
    <3>1. Goto(q, "count") /\ UNCHANGED copy
      <4> HIDE DEF SceneTyped, TypeOK, Placed, Copy, StampsIdentify, RevisionsGrow, RevisionIsOfList
      <4>1. QED
        BY <1>8, <2>2 DEF WriteSidecar
    <3>2. QED
      BY <2>1, <2>2, <3>1 DEF Done
  <2>3. CASE ~(op[q] \in {"create", "delete", "import"})
    <3>1. Done(q)
      <4> HIDE DEF SceneTyped, TypeOK, Placed, Copy, StampsIdentify, RevisionsGrow, RevisionIsOfList
      <4>1. QED
        BY <1>8, <2>3 DEF WriteSidecar
    <3>2. QED
      BY <2>1, <2>3, <3>1 DEF Done
  <2>4. QED
    BY <2>2, <2>3
<1>9. ASSUME NEW q \in Requests, ReadData(q)
      PROVE  RevisionIsOfList'
  BY <1>9 DEF ReadData
<1>10. ASSUME NEW q \in Requests, CheckSidecar(q)
      PROVE  RevisionIsOfList'
  BY <1>10 DEF CheckSidecar
<1>11. ASSUME NEW q \in Requests, ReadAgain(q)
      PROVE  RevisionIsOfList'
  BY <1>11 DEF ReadAgain, Repaired
<1>12. ASSUME NEW q \in Requests, ReadRevision(q)
      PROVE  RevisionIsOfList'
  BY <1>12, SMTT(30) DEF ReadRevision
<1>13. ASSUME NEW q \in Requests, ReadList(q)
      PROVE  RevisionIsOfList'
  BY <1>13 DEF ReadList
<1>14. ASSUME NEW q \in Requests, WriteImported(q)
      PROVE  RevisionIsOfList'
  BY <1>14 DEF WriteImported, WriteDirectly
<1>15. ASSUME NEW q \in Requests, RollBackImport(q)
      PROVE  RevisionIsOfList'
  BY <1>15 DEF RollBackImport, WriteDirectly, Done
<1>16. ASSUME NEW q \in Requests, WriteCount(q)
      PROVE  RevisionIsOfList'
  <2>1. pc[q] = "count" /\ UNCHANGED <<docVars, manifest, asks, crashes, history>>
    BY <1>16 DEF WriteCount
  <2>2. CASE op[q] = "create"
    <3>1. Goto(q, "view") /\ UNCHANGED copy
      <4> HIDE DEF SceneTyped, TypeOK, Placed, Copy, StampsIdentify, RevisionsGrow, RevisionIsOfList
      <4>1. QED
        BY <1>16, <2>2 DEF WriteCount
    <3>2. QED
      BY <2>1, <2>2, <3>1 DEF Done
  <2>3. CASE ~(op[q] = "create")
    <3>1. Done(q)
      <4> HIDE DEF SceneTyped, TypeOK, Placed, Copy, StampsIdentify, RevisionsGrow, RevisionIsOfList
      <4>1. QED
        BY <1>16, <2>3 DEF WriteCount
    <3>2. QED
      BY <2>1, <2>3, <3>1 DEF Done
  <2>4. QED
    BY <2>2, <2>3
<1>17. ASSUME NEW q \in Requests, ReadManifest(q)
      PROVE  RevisionIsOfList'
  <2>1. pc[q] = "view" /\ UNCHANGED <<docVars, sceneVars, asks, crashes, history>>
    BY <1>17 DEF ReadManifest
  <2>2. CASE ~manifest.locked
    <3>1. Goto(q, "lock") /\ copy' = [copy EXCEPT ![q].manifest = manifest]
      <4> HIDE DEF SceneTyped, TypeOK, Placed, Copy, StampsIdentify, RevisionsGrow, RevisionIsOfList
      <4>1. QED
        BY <1>17, <2>2 DEF ReadManifest
    <3>2. QED
      BY <2>1, <2>2, <3>1 DEF Done
  <2>3. CASE ~(~manifest.locked)
    <3>1. Done(q)
      <4> HIDE DEF SceneTyped, TypeOK, Placed, Copy, StampsIdentify, RevisionsGrow, RevisionIsOfList
      <4>1. QED
        BY <1>17, <2>3 DEF ReadManifest
    <3>2. QED
      BY <2>1, <2>3, <3>1 DEF Done
  <2>4. QED
    BY <2>2, <2>3
<1>18. ASSUME NEW q \in Requests, LockManifest(q)
      PROVE  RevisionIsOfList'
  BY <1>18 DEF LockManifest
<1>19. ASSUME NEW q \in Requests, WriteFlag(q)
      PROVE  RevisionIsOfList'
  BY <1>19 DEF WriteFlag, Done
<1>20. ASSUME NEW q \in Requests, WriteSelection(q)
      PROVE  RevisionIsOfList'
  BY <1>20 DEF WriteSelection, Done
<1>f. ASSUME NEW q \in Requests, RequestFails(q)
      PROVE  RevisionIsOfList'
  BY <1>f DEF RequestFails, Done
<1>21. CASE RepairSidecar
  BY <1>21 DEF RepairSidecar, Repaired
<1>22. CASE RecomputeNothing
  <2>1. /\ flock = None /\ meta.stamp # stamp
        /\ meta' = [rev |-> IF meta.rev > 0 THEN meta.rev + 1 ELSE meta.rev, stamp |-> stamp]
        /\ UNCHANGED <<anns, stamp, flock, sceneVars, reqVars, asks, crashes, history>>
    <3> HIDE DEF SceneTyped, TypeOK, Placed, Copy, StampsIdentify, RevisionsGrow, RevisionIsOfList
    <3>1. QED
      BY <1>22 DEF RecomputeNothing, BaseRevision
  <2>2. ASSUME NEW r \in Requests, pc[r] = "write", op[r] = "save", SawBoth(r),
               meta'.rev = copy[r].rev
        PROVE  copy[r].stamp = stamp
    <3>1. meta.rev \in Nat /\ copy[r].rev \in Nat /\ copy[r].rev <= meta.rev
      BY <2>2, CopyFields
    <3>2. meta.rev = copy[r].rev
      BY <2>1, <2>2, <3>1
    <3>3. direct = stamp /\ direct <= copy[r].stamp /\ copy[r].stamp <= stamp
      <4> HIDE DEF SceneTyped, TypeOK, Placed, Copy
      <4>1. meta.stamp = copy[r].stamp
        BY <2>2, <3>2 DEF RevisionIsOfList
      <4>2. direct <= copy[r].stamp /\ crashes = 0
        BY <2>2 DEF SawBoth
      <4>3. meta.stamp = stamp \/ direct = stamp
        BY <2>1, <4>2 DEF RevisionsGrow
      <4>4. copy[r].stamp <= stamp
        BY DEF StampsIdentify
      <4>5. QED
        BY <2>1, <4>1, <4>2, <4>3, <4>4
    <3>4. stamp \in Nat /\ copy[r].stamp \in Nat
      BY CopyFields
    <3>5. QED
      <4> HIDE DEF SceneTyped, TypeOK, Placed, Copy, StampsIdentify, RevisionsGrow, RevisionIsOfList
      <4>1. QED
        BY <3>3, <3>4
  <2>3. QED
    BY <2>1, <2>2
<1>23. CASE RestartBackend
  BY <1>23 DEF RestartBackend
<1>24. CASE UNCHANGED vars
  BY <1>24 DEF vars
<1>25. QED
  BY <1>1, <1>2, <1>3, <1>4, <1>5, <1>6, <1>7, <1>8, <1>9, <1>10, <1>11, <1>12, <1>13,
     <1>14, <1>15, <1>16, <1>17, <1>18, <1>19, <1>20, <1>f, <1>21, <1>22, <1>23, <1>24
     DEF Next, Ask, RequestStep

(* Before the first request every stamp names what was read with it.       *)
LEMMA InitSave == Init => SaveInv
<1> SUFFICES ASSUME Init PROVE SaveInv
  OBVIOUS
<1>1. SceneTyped
  BY InitTyped
<1>2. QED
  BY <1>1, SceneAssumption DEF Init, SaveInv, StampsIdentify, Read, RevisionsGrow,
     RevisionIsOfList, NoCopy

(* Every step keeps it: the parts above, together.                         *)
LEMMA StepSave == SaveInv /\ [Next]_vars => SaveInv'
  BY StepTyped, StepStamps, StepRevisions, StepList DEF SaveInv

(* A save with an expected revision replaces the list its client read,     *)
(* for any number of writers, listings, repairs and imports.               *)
LEMMA SaveReplacesSeen ==
  SaveInv /\ [Next]_vars =>
    \A q \in Requests :
        op[q] = "save" /\ pc[q] = "write" /\ pc'[q] = "sidecar" /\ SawBoth(q)
        => copy[q].stamp = stamp
<1> SUFFICES ASSUME SaveInv, [Next]_vars, NEW q \in Requests,
                    op[q] = "save", pc[q] = "write", pc'[q] = "sidecar", SawBoth(q)
             PROVE  copy[q].stamp = stamp
  OBVIOUS
<1>1. Save(q) /\ Accepted(q)
  <2>1. pc \in [Requests -> {"idle", "write", "sidecar", "count", "view", "lock",
                             "flag", "data", "check", "reread", "revision", "read",
                             "direct", "select"}]
    BY DEF SaveInv, SceneTyped, TypeOK
  <2> USE <2>1 DEF Goto, Done
  <2>2. ASSUME NEW r \in Requests, Ask(r) \/ AskSelect(r) PROVE FALSE
    BY <2>2 DEF Ask, AskCreate, AskDelete, AskEdit, AskSave, AskImport, AskRescan, Begin,
                AskSelect
  <2>3. ASSUME NEW r \in Requests,
               \/ NotFound(r) \/ WriteSidecar(r) \/ ReadData(r) \/ CheckSidecar(r)
               \/ ReadAgain(r) \/ ReadRevision(r) \/ ReadList(r) \/ WriteImported(r)
               \/ RollBackImport(r) \/ WriteCount(r) \/ ReadManifest(r) \/ LockManifest(r)
               \/ WriteFlag(r) \/ WriteSelection(r) \/ RequestFails(r)
        PROVE  FALSE
    BY <2>3 DEF NotFound, WriteSidecar, ReadData, CheckSidecar, ReadAgain, ReadRevision,
       ReadList, WriteImported, RollBackImport, WriteCount, ReadManifest, LockManifest,
       WriteFlag, WriteSelection, RequestFails
  <2>4. ASSUME NEW r \in Requests, Mutate(r) PROVE FALSE
    BY <2>4 DEF Mutate, WriteFile
  <2>5. ASSUME NEW r \in Requests, Save(r) PROVE r = q /\ Accepted(q)
    <3>1. CASE Accepted(r)
      BY <2>5, <3>1 DEF Save, WriteFile
    <3>2. CASE ~Accepted(r)
      BY <2>5, <3>2 DEF Save
    <3>3. QED
      BY <3>1, <3>2
  <2>6. CASE RepairSidecar \/ RecomputeNothing \/ RestartBackend \/ UNCHANGED vars
    BY <2>6 DEF RepairSidecar, RecomputeNothing, RestartBackend, vars, reqVars
  <2>7. QED
    BY <2>2, <2>3, <2>4, <2>5, <2>6 DEF Next, RequestStep
<1>2. flock = None /\ meta.rev = copy[q].rev
  BY <1>1 DEF Save, Accepted
<1>3. meta.stamp = copy[q].stamp
  BY <1>2 DEF SaveInv, RevisionIsOfList
<1>4. meta.stamp = stamp \/ direct = stamp
  BY <1>2 DEF SaveInv, RevisionsGrow, SawBoth
<1>5. copy[q].stamp \in Nat /\ stamp \in Nat /\ direct \in Nat
  BY CopyFields DEF SaveInv, SceneTyped, TypeOK
<1>6. QED
  BY <1>3, <1>4, <1>5 DEF SaveInv, StampsIdentify, SawBoth

(* A save with an expected revision, by a request that read annotations    *)
(* and revision together, never replaces a list its client has not seen    *)
(* (the comparison in save_annotations, under the lock of the scene).      *)
THEOREM SavesAreOptimistic == Spec => OptimisticSave
<1>1. SaveInv /\ [Next]_vars =>
        [\A q \in Requests :
            /\ op[q] = "save" /\ pc[q] = "write" /\ pc'[q] = "sidecar" /\ SawBoth(q)
            => copy[q].stamp = stamp]_vars
  BY SaveReplacesSeen
<1>2. QED
  BY <1>1, InitSave, StepSave, PTL DEF Spec, OptimisticSave

(* A step takes an annotation off the list only in one of the ways         *)
(* NothingLost names.                                                      *)
Excused(a) ==
    \E q \in Requests :
        \/ op[q] = "delete" /\ arg[q] = a /\ pc[q] = "write"
        \/ op[q] = "import" /\ (a \in Theirs \/ WritesUnseen(q))
        \/ WritesUnseen(q)
        \/ op[q] = "save" /\ ~SawBoth(q)

(* A step that removes an annotation is one of those named above.          *)
LEMMA LossIsExcused == SaveInv /\ [Next]_vars => \A a \in anns \ anns' : Excused(a)
<1> SUFFICES ASSUME SaveInv, [Next]_vars, NEW a \in anns \ anns' PROVE Excused(a)
  OBVIOUS
<1>1. SceneTyped /\ StampsIdentify
  BY DEF SaveInv
<1> USE DEF docVars, Goto
<1>2. ASSUME NEW q \in Requests, Mutate(q) PROVE Excused(a)
  BY <1>2 DEF Mutate, WriteFile, Excused
<1>3. ASSUME NEW q \in Requests, Save(q) PROVE Excused(a)
  <2>1. pc[q] = "write" /\ op[q] \in {"save", "rescan"}
    BY <1>3 DEF Save
  <2>2. anns' = copy[q].anns /\ pc'[q] = "sidecar"
    <3>1. CASE Accepted(q)
      BY <1>1, <1>3, <3>1 DEF Save, WriteFile, SceneTyped, TypeOK
    <3>2. CASE ~Accepted(q)
      BY <1>3, <3>2 DEF Save
    <3>3. QED
      BY <3>1, <3>2
  <2>3. copy[q].stamp # stamp
    BY <1>1, <2>1, <2>2 DEF StampsIdentify, Read
  <2>4. QED
    BY <2>1, <2>2, <2>3, SaveReplacesSeen DEF Excused, WritesUnseen
<1>4. ASSUME NEW q \in Requests, WriteImported(q) PROVE Excused(a)
  <2>1. pc[q] = "direct" /\ op[q] = "import"
        /\ anns' = (copy[q].anns \ Theirs) \union {arg[q]}
    BY <1>1, <1>4 DEF WriteImported, WriteDirectly, SceneTyped, Placed
  <2>2. a \in Theirs \/ copy[q].stamp # stamp
    BY <1>1, <2>1 DEF StampsIdentify, Read
  <2>3. QED
    BY <2>1, <2>2 DEF Excused, WritesUnseen
<1>5. ASSUME NEW q \in Requests, RollBackImport(q) PROVE Excused(a)
  <2>1. pc[q] = "write" /\ op[q] = "import" /\ anns' = copy[q].anns /\ arg[q] \in Theirs
    BY <1>1, <1>5 DEF RollBackImport, WriteDirectly, SceneTyped, Placed
  <2>2. a \in Theirs \/ copy[q].stamp # stamp
    BY <1>1, <2>1 DEF StampsIdentify
  <2>3. QED
    BY <2>1, <2>2 DEF Excused, WritesUnseen
<1>6. ASSUME NEW q \in Requests, Ask(q) \/ AskSelect(q) PROVE anns' = anns
  BY <1>6 DEF Ask, AskCreate, AskDelete, AskEdit, AskSave, AskImport, AskRescan, Begin,
              AskSelect
<1>7. ASSUME NEW q \in Requests,
             \/ NotFound(q) \/ WriteSidecar(q) \/ ReadData(q) \/ CheckSidecar(q)
             \/ ReadAgain(q) \/ ReadRevision(q) \/ ReadList(q) \/ WriteCount(q)
             \/ ReadManifest(q) \/ LockManifest(q) \/ WriteFlag(q) \/ WriteSelection(q)
             \/ RequestFails(q)
      PROVE  anns' = anns
  BY <1>7 DEF NotFound, WriteSidecar, ReadData, CheckSidecar, ReadAgain, ReadRevision,
     ReadList, WriteCount, ReadManifest, LockManifest, WriteFlag, WriteSelection,
     RequestFails
<1>8. CASE RepairSidecar \/ RecomputeNothing \/ RestartBackend \/ UNCHANGED vars
  BY <1>8 DEF RepairSidecar, RecomputeNothing, RestartBackend, vars
<1>9. QED
  BY <1>2, <1>3, <1>4, <1>5, <1>6, <1>7, <1>8 DEF Next, RequestStep

(* No interleaving of requests, repairs, imports and restarts loses an     *)
(* annotation in a way that NothingLost does not name.                     *)
THEOREM AnnotationsAreKept == Spec => NothingLost
<1>1. SaveInv /\ [Next]_vars => [\A a \in anns \ anns' : Excused(a)]_vars
  BY LossIsExcused
<1>2. QED
  BY <1>1, InitSave, StepSave, PTL DEF Spec, NothingLost, Excused
-----------------------------------------------------------------------------
(* While a request runs alone, the list it stored is the stored one and,   *)
(* later, the count is the length of it.                                   *)
Undisturbed ==
    alone # "none" =>
        \A q \in Requests : pc[q] # "idle" =>
            /\ op[q] = alone
            /\ \A r \in Requests : pc[r] # "idle" => r = q
            /\ pc[q] \in {"sidecar", "count"} => copy[q].anns = anns
            /\ pc[q] \in {"view", "lock"} => count = Cardinality(anns)
            /\ pc[q] = "flag" => copy[q].count = Cardinality(anns) /\ manifest.locked

AloneInv == SceneTyped /\ Undisturbed /\ AloneSettles

(* At the start no request has disturbed another.                          *)
LEMMA InitAlone == Init => AloneInv
  BY InitTyped DEF Init, AloneInv, Undisturbed, AloneSettles

(* A request that runs alone finds everything as it left it.               *)
LEMMA StepAlone == AloneInv /\ [Next]_vars => AloneInv'
<1> SUFFICES ASSUME AloneInv, [Next]_vars
             PROVE  (Undisturbed /\ AloneSettles)'
  BY StepTyped DEF AloneInv
<1>b. SceneTyped /\ Undisturbed /\ AloneSettles
  BY DEF AloneInv
<1> USE DEF docVars, sceneVars, reqVars, history, Goto, MetaIsCurrent
<1>1. ASSUME NEW q \in Requests, NEW a \in Mine, AskCreate(q, a) \/ AskDelete(q, a)
      PROVE  (Undisturbed /\ AloneSettles)'
  BY <1>b, <1>1 DEF AskCreate, AskDelete, Begin, SceneTyped, TypeOK, Placed, Copy, NoCopy,
     Undisturbed, AloneSettles, Quiet
<1>2. ASSUME NEW q \in Requests, NEW a \in Theirs, AskImport(q, a)
      PROVE  (Undisturbed /\ AloneSettles)'
  BY <1>b, <1>2 DEF AskImport, Begin, SceneTyped, TypeOK, Placed, Copy, NoCopy, Undisturbed,
     AloneSettles, Quiet
<1>3. ASSUME NEW q \in Requests, AskEdit(q) \/ AskSave(q) \/ AskRescan(q)
      PROVE  (Undisturbed /\ AloneSettles)'
  BY <1>b, <1>3 DEF AskEdit, AskSave, AskRescan, Begin, SceneTyped, TypeOK, Placed, Copy,
     NoCopy, Undisturbed, AloneSettles, Quiet
<1>4. ASSUME NEW q \in Requests, AskSelect(q)
      PROVE  (Undisturbed /\ AloneSettles)'
  BY <1>b, <1>4 DEF AskSelect, SceneTyped, TypeOK, Placed, Copy, NoCopy, Undisturbed,
     AloneSettles, Quiet
<1>5. ASSUME NEW q \in Requests, Mutate(q)
      PROVE  (Undisturbed /\ AloneSettles)'
  BY <1>b, <1>5 DEF Mutate, WriteFile, SceneTyped, TypeOK, Placed, Copy, NoCopy,
     Undisturbed, AloneSettles, Quiet
<1>6. ASSUME NEW q \in Requests, NotFound(q)
      PROVE  (Undisturbed /\ AloneSettles)'
  BY <1>b, <1>6 DEF NotFound, Done, SceneTyped, TypeOK, Placed, Copy, NoCopy, Undisturbed,
     AloneSettles, Quiet
<1>7. ASSUME NEW q \in Requests, Save(q)
      PROVE  (Undisturbed /\ AloneSettles)'
  <2>1. pc[q] = "write" /\ op[q] \in {"save", "rescan"} /\ flock = None
    BY <1>7 DEF Save
  <2>2. CASE Accepted(q)
    <3>1. WriteFile(q, copy[q].anns, meta.rev + 1)
      BY <1>7, <2>2 DEF Save
    <3>2. QED
      BY <1>b, <2>1, <2>2, <3>1 DEF SceneTyped, TypeOK, Placed, Copy, NoCopy, Undisturbed,
         AloneSettles, Quiet, WriteFile, Accepted
  <2>3. CASE ~(Accepted(q))
    <3>1. Done(q) /\ UNCHANGED <<docVars, sceneVars, asks, crashes, history>>
      BY <1>7, <2>3 DEF Save
    <3>2. QED
      BY <1>b, <2>1, <2>3, <3>1 DEF SceneTyped, TypeOK, Placed, Copy, NoCopy, Undisturbed,
         AloneSettles, Quiet, Done
  <2>4. QED
    BY <2>2, <2>3
<1>8. ASSUME NEW q \in Requests, WriteSidecar(q)
      PROVE  (Undisturbed /\ AloneSettles)'
  <2>1. pc[q] = "sidecar" /\ flock' = None
        /\ UNCHANGED <<anns, stamp, sceneVars, asks, crashes, history>>
    BY <1>8 DEF WriteSidecar
  <2>2. CASE op[q] \in {"create", "delete", "import"}
    <3>1. Goto(q, "count") /\ UNCHANGED copy
      BY <1>8, <2>2 DEF WriteSidecar
    <3>2. QED
      BY <1>b, <2>1, <2>2, <3>1 DEF SceneTyped, TypeOK, Placed, Copy, NoCopy, Undisturbed,
         AloneSettles, Quiet, Done
  <2>3. CASE ~(op[q] \in {"create", "delete", "import"})
    <3>1. Done(q)
      BY <1>8, <2>3 DEF WriteSidecar
    <3>2. QED
      BY <1>b, <2>1, <2>3, <3>1 DEF SceneTyped, TypeOK, Placed, Copy, NoCopy, Undisturbed,
         AloneSettles, Quiet, Done
  <2>4. QED
    BY <2>2, <2>3
<1>9. ASSUME NEW q \in Requests, ReadData(q)
      PROVE  (Undisturbed /\ AloneSettles)'
  BY <1>b, <1>9 DEF ReadData, SceneTyped, TypeOK, Placed, Copy, NoCopy, Undisturbed,
     AloneSettles, Quiet
<1>10. ASSUME NEW q \in Requests, CheckSidecar(q)
      PROVE  (Undisturbed /\ AloneSettles)'
  BY <1>b, <1>10 DEF CheckSidecar, SceneTyped, TypeOK, Placed, Copy, NoCopy, Undisturbed,
     AloneSettles, Quiet
<1>11. ASSUME NEW q \in Requests, ReadAgain(q)
      PROVE  (Undisturbed /\ AloneSettles)'
  BY <1>b, <1>11 DEF ReadAgain, Repaired, SceneTyped, TypeOK, Placed, Copy, NoCopy,
     Undisturbed, AloneSettles, Quiet
<1>12. ASSUME NEW q \in Requests, ReadRevision(q)
      PROVE  (Undisturbed /\ AloneSettles)'
  BY <1>b, <1>12 DEF ReadRevision, SceneTyped, TypeOK, Placed, Copy, NoCopy, Undisturbed,
     AloneSettles, Quiet
<1>13. ASSUME NEW q \in Requests, ReadList(q)
      PROVE  (Undisturbed /\ AloneSettles)'
  BY <1>b, <1>13 DEF ReadList, SceneTyped, TypeOK, Placed, Copy, NoCopy, Undisturbed,
     AloneSettles, Quiet
<1>14. ASSUME NEW q \in Requests, WriteImported(q)
      PROVE  (Undisturbed /\ AloneSettles)'
  BY <1>b, <1>14 DEF WriteImported, WriteDirectly, SceneTyped, TypeOK, Placed, Copy, NoCopy,
     Undisturbed, AloneSettles, Quiet
<1>15. ASSUME NEW q \in Requests, RollBackImport(q)
      PROVE  (Undisturbed /\ AloneSettles)'
  BY <1>b, <1>15 DEF RollBackImport, WriteDirectly, Done, SceneTyped, TypeOK, Placed, Copy,
     NoCopy, Undisturbed, AloneSettles, Quiet
<1>16. ASSUME NEW q \in Requests, WriteCount(q)
      PROVE  (Undisturbed /\ AloneSettles)'
  <2>1. pc[q] = "count" /\ UNCHANGED <<docVars, manifest, asks, crashes, history>>
        /\ count' = Cardinality(IF op[q] = "import" THEN anns ELSE copy[q].anns)
    BY <1>16 DEF WriteCount
  <2>2. CASE op[q] = "create"
    <3>1. Goto(q, "view") /\ UNCHANGED copy
      BY <1>16, <2>2 DEF WriteCount
    <3>2. QED
      BY <1>b, <2>1, <2>2, <3>1 DEF SceneTyped, TypeOK, Placed, Copy, NoCopy, Undisturbed,
         AloneSettles, Quiet, Done
  <2>3. CASE ~(op[q] = "create")
    <3>1. Done(q)
      BY <1>16, <2>3 DEF WriteCount
    <3>2. QED
      BY <1>b, <2>1, <2>3, <3>1 DEF SceneTyped, TypeOK, Placed, Copy, NoCopy, Undisturbed,
         AloneSettles, Quiet, Done
  <2>4. QED
    BY <2>2, <2>3
<1>17. ASSUME NEW q \in Requests, ReadManifest(q)
      PROVE  (Undisturbed /\ AloneSettles)'
  <2>1. pc[q] = "view" /\ UNCHANGED <<docVars, sceneVars, asks, crashes, history>>
    BY <1>17 DEF ReadManifest
  <2>2. CASE ~manifest.locked
    <3>1. Goto(q, "lock") /\ copy' = [copy EXCEPT ![q].manifest = manifest]
      BY <1>17, <2>2 DEF ReadManifest
    <3>2. QED
      BY <1>b, <2>1, <2>2, <3>1 DEF SceneTyped, TypeOK, Placed, Copy, NoCopy, Undisturbed,
         AloneSettles, Quiet, Done
  <2>3. CASE ~(~manifest.locked)
    <3>1. Done(q)
      BY <1>17, <2>3 DEF ReadManifest
    <3>2. QED
      BY <1>b, <2>1, <2>3, <3>1 DEF SceneTyped, TypeOK, Placed, Copy, NoCopy, Undisturbed,
         AloneSettles, Quiet, Done
  <2>4. QED
    BY <2>2, <2>3
<1>18. ASSUME NEW q \in Requests, LockManifest(q)
      PROVE  (Undisturbed /\ AloneSettles)'
  BY <1>b, <1>18 DEF LockManifest, SceneTyped, TypeOK, Placed, Copy, NoCopy, Undisturbed,
     AloneSettles, Quiet
<1>19. ASSUME NEW q \in Requests, WriteFlag(q)
      PROVE  (Undisturbed /\ AloneSettles)'
  BY <1>b, <1>19 DEF WriteFlag, Done, SceneTyped, TypeOK, Placed, Copy, NoCopy, Undisturbed,
     AloneSettles, Quiet
<1>20. ASSUME NEW q \in Requests, WriteSelection(q)
      PROVE  (Undisturbed /\ AloneSettles)'
  BY <1>b, <1>20 DEF WriteSelection, Done, SceneTyped, TypeOK, Placed, Copy, NoCopy,
     Undisturbed, AloneSettles, Quiet
<1>f. ASSUME NEW q \in Requests, RequestFails(q)
      PROVE  (Undisturbed /\ AloneSettles)'
  BY <1>b, <1>f DEF RequestFails, Done, SceneTyped, TypeOK, Placed, Copy, NoCopy,
     Undisturbed, AloneSettles, Quiet
<1>21. CASE RepairSidecar
  BY <1>b, <1>21 DEF RepairSidecar, Repaired, SceneTyped, TypeOK, Placed, Copy, NoCopy,
     Undisturbed, AloneSettles, Quiet
<1>22. CASE RecomputeNothing
  BY <1>b, <1>22 DEF RecomputeNothing, BaseRevision, SceneTyped, TypeOK, Placed, Copy,
     NoCopy, Undisturbed, AloneSettles, Quiet
<1>23. CASE RestartBackend
  BY <1>b, <1>23 DEF RestartBackend, SceneTyped, TypeOK, Placed, Copy, NoCopy, Undisturbed,
     AloneSettles, Quiet
<1>24. CASE UNCHANGED vars
  BY <1>b, <1>24 DEF vars, SceneTyped, TypeOK, Placed, Copy, NoCopy, Undisturbed,
     AloneSettles, Quiet
<1>25. QED
  BY <1>1, <1>2, <1>3, <1>4, <1>5, <1>6, <1>7, <1>8, <1>9, <1>10, <1>11, <1>12, <1>13,
     <1>14, <1>15, <1>16, <1>17, <1>18, <1>19, <1>20, <1>f, <1>21, <1>22, <1>23, <1>24
     DEF Next, Ask, RequestStep

(* A create, a delete or an import that ran alone and met no error leaves  *)
(* the right count, and a create a locked view, whatever overlapping or    *)
(* failed requests had left behind before it.  An import that swallowed an *)
(* error and answered "imported" is not one of these.                      *)
THEOREM AloneRequestsSettle == Spec => []AloneSettles
<1>1. AloneInv => AloneSettles
  BY DEF AloneInv
<1>2. QED
  BY <1>1, InitAlone, StepAlone, PTL DEF Spec
=============================================================================
