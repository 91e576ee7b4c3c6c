--------------------------- MODULE SceneAnnotations ---------------------------
(***************************************************************************)
(* The annotations of one scene and what is kept beside them: db/storage.py *)
(* (mutate_scene_json, save_scene_json, load_scene_json and the revision    *)
(* sidecar), routers/annotations.py, lock_working_view and                  *)
(* select_scene_asset, the import of a package and the re-scan of a scene.  *)
(*                                                                         *)
(* annotations.json and annotations.meta.json are written one after the    *)
(* other under the lock of the first; an import writes annotations.json    *)
(* without it.  scene.json (the count) and scene_manifest.json (variant     *)
(* and lock of the working view) are read, changed and saved whole, each    *)
(* save from a copy read before.                                            *)
(***************************************************************************)
EXTENDS Naturals, FiniteSets

CONSTANTS
    Requests,
    Mine,          \* annotations that users draw
    Theirs,        \* annotations of the owner that an import replaces
    None,          \* no request, no annotation
    MaxAsks,       \* bound on requests
    MaxCrashes     \* bound on restarts of the backend

ASSUME SceneAssumption ==
    /\ None \notin Requests \union Mine \union Theirs
    /\ IsFiniteSet(Mine) /\ IsFiniteSet(Theirs)
    /\ MaxAsks \in Nat /\ MaxCrashes \in Nat

Anns == Mine \union Theirs
Meta == [rev: Nat, stamp: Nat]
Manifest == [variant: Nat, locked: BOOLEAN]
Ops == {"none", "create", "delete", "edit", "save", "import", "rescan", "select"}

VARIABLES
    anns, stamp,     \* annotations.json and its size and time
    meta,            \* annotations.meta.json: a revision, and what it is of
    flock,           \* who holds the lock of annotations.json
    count,           \* annotation_count in scene.json
    manifest,        \* the working view in scene_manifest.json
    pc, op, arg,     \* where a request stands, its kind and its annotation
    copy,            \* what it has read
    asks, crashes,
    direct,          \* history: the last write that no sidecar followed, an
                     \* import's or one that failed half way
    alone            \* history: the kind of request that has run alone since
                     \* all were idle and has met no error, "none" if none has

Copy == [anns: SUBSET Anns, stamp: Nat, at: Nat, rev: Nat,
         count: Nat, manifest: Manifest]
NoCopy == [anns |-> {}, stamp |-> 0, at |-> 0, rev |-> 0, count |-> 0,
           manifest |-> [variant |-> 0, locked |-> FALSE]]

docVars == <<anns, stamp, meta, flock>>
sceneVars == <<count, manifest>>
reqVars == <<pc, op, arg, copy>>
history == <<direct, alone>>
vars == <<docVars, sceneVars, reqVars, asks, crashes, history>>

TypeOK ==
    /\ anns \in SUBSET Anns /\ stamp \in Nat /\ meta \in Meta
    /\ flock \in Requests \union {None}
    /\ count \in Nat /\ manifest \in Manifest
    /\ pc \in [Requests -> {"idle", "write", "sidecar", "count", "view", "lock",
                            "flag", "data", "check", "reread", "revision", "read",
                            "direct", "select"}]
    /\ op \in [Requests -> Ops]
    /\ arg \in [Requests -> Anns \union {None}]
    /\ copy \in [Requests -> Copy]
    /\ asks \in 0..MaxAsks /\ crashes \in 0..MaxCrashes
    /\ direct \in Nat /\ alone \in Ops
    /\ \A q \in Requests : pc[q] = "sidecar" => flock = q

(* A registered scene: the first save has written an empty list.           *)
Init ==
    /\ anns = {} /\ stamp = 1 /\ meta = [rev |-> 1, stamp |-> 1] /\ flock = None
    /\ count = 0 /\ manifest = NoCopy.manifest
    /\ pc = [q \in Requests |-> "idle"]
    /\ op = [q \in Requests |-> "none"]
    /\ arg = [q \in Requests |-> None]
    /\ copy = [q \in Requests |-> NoCopy]
    /\ asks = 0 /\ crashes = 0
    /\ direct = 0 /\ alone = "none"

Quiet == \A q \in Requests : pc[q] = "idle"
Goto(q, l) == pc' = [pc EXCEPT ![q] = l] /\ UNCHANGED <<op, arg>>
Done(q) ==
    /\ pc' = [pc EXCEPT ![q] = "idle"]
    /\ op' = [op EXCEPT ![q] = "none"]
    /\ arg' = [arg EXCEPT ![q] = None]
    /\ copy' = [copy EXCEPT ![q] = NoCopy]

(* The sidecar belongs to the file as it lies.                             *)
MetaIsCurrent == meta.stamp = stamp

-----------------------------------------------------------------------------
(* A request arrives.                                                      *)

Begin(q, kind, a, l) ==
    /\ pc[q] = "idle"
    /\ asks < MaxAsks
    /\ asks' = asks + 1
    /\ pc' = [pc EXCEPT ![q] = l]
    /\ op' = [op EXCEPT ![q] = kind]
    /\ arg' = [arg EXCEPT ![q] = a]
    /\ alone' = IF Quiet THEN kind ELSE "none"
    /\ UNCHANGED <<docVars, sceneVars, copy, crashes, direct>>

AskCreate(q, a) ==
    /\ a \notin anns /\ \A r \in Requests : arg[r] # a
    /\ Begin(q, "create", a, "write")
AskDelete(q, a) == Begin(q, "delete", a, "write")
(* update_annotation, or the attributes recomputed by a listing.           *)
AskEdit(q) == Begin(q, "edit", None, "write")
(* An optimistic client of the storage interface.                          *)
AskSave(q) == Begin(q, "save", None, "data")
AskImport(q, a) == Begin(q, "import", a, "read")
(* _persist_scene_package: the annotations are loaded and saved again.     *)
AskRescan(q) == Begin(q, "rescan", None, "read")

Ask(q) ==
    \/ \E a \in Mine : AskCreate(q, a) \/ AskDelete(q, a)
    \/ AskEdit(q) \/ AskSave(q) \/ AskRescan(q)
    \/ \E a \in Theirs : AskImport(q, a)

-----------------------------------------------------------------------------
(* annotations.json under its lock.                                        *)

(* mutate_scene_json counts a write that went past the sidecar.            *)
BaseRevision == IF ~MetaIsCurrent /\ meta.rev > 0 THEN meta.rev + 1 ELSE meta.rev

WriteFile(q, content, rev) ==
    /\ anns' = content
    /\ stamp' = stamp + 1
    /\ flock' = q
    /\ copy' = [copy EXCEPT ![q].anns = content, ![q].rev = rev]
    /\ Goto(q, "sidecar")
    /\ UNCHANGED <<meta, sceneVars, asks, crashes, history>>

(* Mutant of Mutate: nobody waits for the lock.                            *)
MutateUnlocked(q) ==
    /\ pc[q] = "write" /\ op[q] \in {"create", "delete", "edit", "import"}
    /\ op[q] = "delete" => arg[q] \in anns
    /\ WriteFile(q,
           CASE op[q] = "create" -> anns \union {arg[q]}
             [] op[q] = "delete" -> anns \ {arg[q]}
             [] OTHER -> anns,
           BaseRevision + 1)

(* Mutant of Mutate: the default list is taken for the stored one.         *)
MutateDefault(q) ==
    /\ pc[q] = "write" /\ op[q] \in {"create", "delete", "edit", "import"}
    /\ flock = None
    /\ op[q] = "delete" => arg[q] \in anns
    /\ WriteFile(q,
           CASE op[q] = "create" -> {arg[q]}
             [] op[q] = "delete" -> anns \ {arg[q]}
             [] OTHER -> anns,
           BaseRevision + 1)

(* The updater gets the list as it is read under the lock.                 *)
Mutate(q) ==
    /\ pc[q] = "write" /\ op[q] \in {"create", "delete", "edit", "import"}
    /\ flock = None
    /\ op[q] = "delete" => arg[q] \in anns
    /\ WriteFile(q,
           CASE op[q] = "create" -> anns \union {arg[q]}
             [] op[q] = "delete" -> anns \ {arg[q]}
             [] OTHER -> anns,
           BaseRevision + 1)

(* delete_annotation of an annotation that is gone.                        *)
NotFound(q) ==
    /\ pc[q] = "write" /\ op[q] = "delete"
    /\ flock = None /\ arg[q] \notin anns
    /\ Done(q)
    /\ alone' = "none"
    /\ UNCHANGED <<docVars, sceneVars, asks, crashes, direct>>

Accepted(q) == op[q] = "save" => meta.rev = copy[q].rev

(* Mutant of Save: the list is new, its revision is not.                   *)
SaveSameRevision(q) ==
    /\ pc[q] = "write" /\ op[q] \in {"save", "rescan"}
    /\ flock = None
    /\ IF Accepted(q)
       THEN WriteFile(q, copy[q].anns, meta.rev)
       ELSE Done(q) /\ UNCHANGED <<docVars, sceneVars, asks, crashes, history>>

(* save_scene_json of the list that was read before.                       *)
Save(q) ==
    /\ pc[q] = "write" /\ op[q] \in {"save", "rescan"}
    /\ flock = None
    /\ IF Accepted(q)
       THEN WriteFile(q, copy[q].anns, meta.rev + 1)
       ELSE Done(q) /\ UNCHANGED <<docVars, sceneVars, asks, crashes, history>>

(* _write_annotation_meta looks at the file as it now lies.                *)
WriteSidecar(q) ==
    /\ pc[q] = "sidecar"
    /\ meta' = [rev |-> copy[q].rev, stamp |-> stamp]
    /\ flock' = None
    /\ IF op[q] \in {"create", "delete", "import"}
       THEN Goto(q, "count") /\ UNCHANGED copy
       ELSE Done(q)
    /\ UNCHANGED <<anns, stamp, sceneVars, asks, crashes, history>>

(* load_scene_json repairs a sidecar that does not fit, and keeps its      *)
(* revision.                                                               *)
Repaired == [rev |-> IF meta.rev = 0 THEN 1 ELSE meta.rev, stamp |-> stamp]

RepairSidecar ==
    /\ flock = None
    /\ ~MetaIsCurrent
    /\ meta' = Repaired
    /\ UNCHANGED <<anns, stamp, flock, sceneVars, reqVars, asks, crashes, history>>

(* A listing whose updater changes nothing repairs it with a new revision. *)
RecomputeNothing ==
    /\ flock = None
    /\ ~MetaIsCurrent
    /\ meta' = [rev |-> BaseRevision, stamp |-> stamp]
    /\ UNCHANGED <<anns, stamp, flock, sceneVars, reqVars, asks, crashes, history>>

-----------------------------------------------------------------------------
(* read_scene_json_with_revision: load_scene_json reads the data, then     *)
(* looks at the sidecar, and reads the data again under the lock if the    *)
(* sidecar does not fit; then the revision is read.                        *)

ReadData(q) ==
    /\ pc[q] = "data"
    /\ copy' = [copy EXCEPT ![q].anns = anns, ![q].stamp = stamp]
    /\ Goto(q, "check")
    /\ UNCHANGED <<docVars, sceneVars, asks, crashes, history>>

CheckSidecar(q) ==
    /\ pc[q] = "check"
    /\ Goto(q, IF MetaIsCurrent THEN "revision" ELSE "reread")
    /\ UNCHANGED <<docVars, sceneVars, copy, asks, crashes, history>>

ReadAgain(q) ==
    /\ pc[q] = "reread"
    /\ flock = None
    /\ copy' = [copy EXCEPT ![q].anns = anns, ![q].stamp = stamp]
    /\ meta' = IF MetaIsCurrent THEN meta ELSE Repaired
    /\ Goto(q, "revision")
    /\ UNCHANGED <<anns, stamp, flock, sceneVars, asks, crashes, history>>

ReadRevision(q) ==
    /\ pc[q] = "revision"
    /\ copy' = [copy EXCEPT ![q].rev = meta.rev, ![q].at = meta.stamp]
    /\ Goto(q, "write")
    /\ UNCHANGED <<docVars, sceneVars, asks, crashes, history>>

(* An import and a re-scan load the list long before they write it.        *)
ReadList(q) ==
    /\ pc[q] = "read"
    /\ copy' = [copy EXCEPT ![q].anns = anns, ![q].stamp = stamp]
    /\ Goto(q, IF op[q] = "import" THEN "direct" ELSE "write")
    /\ UNCHANGED <<docVars, sceneVars, asks, crashes, history>>

-----------------------------------------------------------------------------
(* apply_annotation_import.                                                *)

WriteDirectly(content) ==
    /\ anns' = content
    /\ stamp' = stamp + 1
    /\ direct' = stamp + 1
    /\ UNCHANGED <<meta, flock, sceneVars, asks, crashes>>

(* The rows of the owner are replaced; the attributes are recomputed next. *)
WriteImported(q) ==
    /\ pc[q] = "direct"
    /\ WriteDirectly((copy[q].anns \ Theirs) \union {arg[q]})
    /\ Goto(q, "write")
    /\ UNCHANGED alone
    /\ copy' = [copy EXCEPT ![q] = [NoCopy EXCEPT
           !.anns = anns, !.stamp = IF copy[q].stamp = stamp THEN stamp + 1 ELSE 0]]

(* Another document of the batch fails: the bytes of before are written.   *)
RollBackImport(q) ==
    /\ pc[q] = "write" /\ op[q] = "import"
    /\ WriteDirectly(copy[q].anns)
    /\ alone' = "none"
    /\ Done(q)

-----------------------------------------------------------------------------
(* scene.json and scene_manifest.json.                                     *)

(* Mutant of WriteCount: a delete leaves the count alone.                  *)
WriteCountOfCreate(q) ==
    /\ pc[q] = "count"
    /\ count' = IF op[q] = "delete" THEN count ELSE Cardinality(copy[q].anns)
    /\ IF op[q] = "create" THEN Goto(q, "view") /\ UNCHANGED copy ELSE Done(q)
    /\ UNCHANGED <<docVars, manifest, asks, crashes, history>>

(* _update_annotation_count: the length of the list the mutation returned; *)
(* an import counts the list anew.                                         *)
WriteCount(q) ==
    /\ pc[q] = "count"
    /\ count' = Cardinality(IF op[q] = "import" THEN anns ELSE copy[q].anns)
    /\ IF op[q] = "create" THEN Goto(q, "view") /\ UNCHANGED copy ELSE Done(q)
    /\ UNCHANGED <<docVars, manifest, asks, crashes, history>>

(* lock_working_view: an unlocked manifest is saved whole, locked; then    *)
(* scene.json is read and saved whole with its flag.                       *)
ReadManifest(q) ==
    /\ pc[q] = "view"
    /\ IF manifest.locked THEN Done(q)
       ELSE /\ copy' = [copy EXCEPT ![q].manifest = manifest]
            /\ Goto(q, "lock")
    /\ UNCHANGED <<docVars, sceneVars, asks, crashes, history>>

LockManifest(q) ==
    /\ pc[q] = "lock"
    /\ manifest' = [copy[q].manifest EXCEPT !.locked = TRUE]
    /\ copy' = [copy EXCEPT ![q].count = count]
    /\ Goto(q, "flag")
    /\ UNCHANGED <<docVars, count, asks, crashes, history>>

WriteFlag(q) ==
    /\ pc[q] = "flag"
    /\ count' = copy[q].count
    /\ Done(q)
    /\ UNCHANGED <<docVars, manifest, asks, crashes, history>>

(* select_scene_asset: refused once the view is locked or annotated.       *)
AskSelect(q) ==
    /\ pc[q] = "idle" /\ asks < MaxAsks
    /\ ~manifest.locked /\ anns = {}
    /\ asks' = asks + 1
    /\ op' = [op EXCEPT ![q] = "select"]
    /\ arg' = [arg EXCEPT ![q] = None]
    /\ copy' = [copy EXCEPT ![q].manifest = manifest]
    /\ alone' = IF Quiet THEN "select" ELSE "none"
    /\ pc' = [pc EXCEPT ![q] = "select"]
    /\ UNCHANGED <<docVars, sceneVars, crashes, direct>>

WriteSelection(q) ==
    /\ pc[q] = "select"
    /\ manifest' = [copy[q].manifest EXCEPT !.variant = @ + 1]
    /\ Done(q)
    /\ UNCHANGED <<docVars, count, asks, crashes, history>>

-----------------------------------------------------------------------------
(* An exception ends a request between two of its files: a full disk, a    *)
(* lock that stays busy, a document that cannot be read.  The lock is let  *)
(* go, what was written stays.  Most requests answer with the error; an    *)
(* import that has written its rows turns it into a warning and answers    *)
(* "imported", with the count of before.                                   *)
RequestFails(q) ==
    /\ pc[q] \notin {"idle", "direct"}
    /\ flock' = IF pc[q] = "sidecar" THEN None ELSE flock
    /\ direct' = IF pc[q] = "sidecar" THEN stamp ELSE direct
    /\ alone' = "none"
    /\ Done(q)
    /\ UNCHANGED <<anns, stamp, meta, sceneVars, asks, crashes>>

(* Every request ends; the lock of a dead process is broken.               *)
RestartBackend ==
    /\ crashes < MaxCrashes
    /\ crashes' = crashes + 1
    /\ flock' = None
    /\ pc' = [q \in Requests |-> "idle"]
    /\ op' = [q \in Requests |-> "none"]
    /\ arg' = [q \in Requests |-> None]
    /\ copy' = [q \in Requests |-> NoCopy]
    /\ alone' = "none"
    /\ UNCHANGED <<anns, stamp, meta, sceneVars, asks, direct>>

RequestStep(q) ==
    \/ Mutate(q) \/ NotFound(q) \/ Save(q) \/ WriteSidecar(q)
    \/ ReadData(q) \/ CheckSidecar(q) \/ ReadAgain(q) \/ ReadRevision(q) \/ ReadList(q)
    \/ WriteImported(q) \/ RollBackImport(q)
    \/ WriteCount(q)
    \/ ReadManifest(q) \/ LockManifest(q) \/ WriteFlag(q) \/ WriteSelection(q)
    \/ RequestFails(q)

Next ==
    \/ \E q \in Requests : Ask(q) \/ AskSelect(q) \/ RequestStep(q)
    \/ RepairSidecar \/ RecomputeNothing
    \/ RestartBackend

Spec == Init /\ [][Next]_vars

-----------------------------------------------------------------------------
(* Properties.                                                             *)

(* An import, its roll-back or a re-scan writes over a list it did not     *)
(* read: none of the three holds the lock from the load to the write.      *)
WritesUnseen(q) ==
    /\ op[q] \in {"import", "rescan"}
    /\ pc[q] \in {"direct", "write"}
    /\ copy[q].stamp # stamp

(* The client of an optimistic save saw a list and a revision that belong  *)
(* together, and no import, failed write or restart has passed the sidecar *)
(* since.                                                                  *)
SawBoth(q) ==
    /\ copy[q].stamp = copy[q].at
    /\ direct <= copy[q].stamp
    /\ crashes = 0

(* Concurrent requests do not lose each other's annotations                *)
(* (mutate_scene_json): one leaves the list only when it is deleted, or    *)
(* its owner's rows are replaced by an import, or an import or a re-scan   *)
(* overtaken by another writer puts back an older list.                    *)
NothingLost ==
    [][\A a \in anns \ anns' :
        \E q \in Requests :
            \/ op[q] = "delete" /\ arg[q] = a /\ pc[q] = "write"
            \/ op[q] = "import" /\ (a \in Theirs \/ WritesUnseen(q))
            \/ WritesUnseen(q)
            \/ op[q] = "save" /\ ~SawBoth(q)]_vars

(* A save that gives the revision it expects replaces exactly the list its *)
(* client read (save_scene_json with expected_revision), whatever other    *)
(* writers, listings and repairs did in between.                           *)
OptimisticSave ==
    [][\A q \in Requests :
        /\ op[q] = "save" /\ pc[q] = "write" /\ pc'[q] = "sidecar" /\ SawBoth(q)
        => copy[q].stamp = stamp]_vars

(* A create, a delete or an import that ran alone and met no error leaves  *)
(* the right count behind, whatever overlapping or failed requests had     *)
(* left before, and a create leaves the working view locked                *)
(* (_update_annotation_count, lock_working_view).                          *)
AloneSettles ==
    Quiet =>
        /\ alone \in {"create", "delete", "import"} => count = Cardinality(anns)
        /\ alone = "create" => manifest.locked
=============================================================================
