--------------------------- MODULE EmbeddingIndex ---------------------------
(***************************************************************************)
(* The resumable build of the object index: build_streaming_object_index,  *)
(* _rollback_to_checkpoint and _reset_partial_artifacts of                 *)
(* services/embedding_index.py, in a worker that may die at any step.      *)
(*                                                                         *)
(* A batch of objects goes to three places: the file of vectors, a numbered *)
(* Parquet part, and the checkpoint that commits both.  The index is       *)
(* trusted by position: row i of the vectors belongs to row i of the       *)
(* objects.  An object is known by its place and by the revision of the    *)
(* source it was read from; source_signature is that revision, which never *)
(* comes back because it holds modification times.                         *)
(***************************************************************************)
EXTENDS Naturals, Sequences

CONSTANTS
    Candidates,   \* number of eligible objects
    BatchSize,
    MaxSource,    \* bound on revisions of the source
    MaxFaults     \* bound on deaths of the worker and failed loads

Sources == 1..MaxSource
NoSource == 0
Objects == [source: Sources, place: 1..Candidates]
Zero == [source |-> NoSource, place |-> 0]   \* what truncate() extends with
NoCheckpoint == [source |-> NoSource, read |-> 0, rows |-> 0, parts |-> 0]

VARIABLES
    source,     \* the revision of annotations, scenes and rasters
    vectors,    \* embeddings.f32
    parts,      \* objects.parquet.parts, by number
    checkpoint, manifest,   \* what they say, and of which revision
    pc, signature, read,    \* the build: place, its revision, input cursor
    rows, numbered, kept,   \* rows and parts so far, the batch in hand
    faults,
    spoiled     \* history: did a reset die with its checkpoint in place?

disk == <<vectors, parts, checkpoint, manifest>>
build == <<signature, read, rows, numbered, kept>>
vars == <<source, disk, pc, build, faults, spoiled>>

Cursor == [source: Sources \union {NoSource}, read: 0..Candidates,
           rows: 0..Candidates, parts: 0..Candidates]

TypeOK ==
    /\ source \in Sources
    /\ vectors \in Seq(Objects \union {Zero})
    /\ parts \in Seq([start: 0..Candidates, objects: Seq(Objects)])
    /\ checkpoint \in Cursor
    /\ manifest \in [source: Sources \union {NoSource}, rows: 0..Candidates]
    /\ pc \in {"idle", "check", "resetManifest", "resetCheckpoint", "resetParts",
               "truncate", "trim", "batch", "vectors", "part", "commit", "finish"}
    /\ signature \in Sources \union {NoSource}
    /\ read \in 0..Candidates /\ rows \in 0..Candidates /\ numbered \in 0..Candidates
    /\ kept \in Seq(Objects)
    /\ faults \in 0..MaxFaults /\ spoiled \in BOOLEAN

NoManifest == [source |-> NoSource, rows |-> 0]

Init ==
    /\ source = 1
    /\ vectors = <<>> /\ parts = <<>>
    /\ checkpoint = NoCheckpoint /\ manifest = NoManifest
    /\ pc = "idle" /\ signature = NoSource
    /\ read = 0 /\ rows = 0 /\ numbered = 0 /\ kept = <<>>
    /\ faults = 0 /\ spoiled = FALSE

ChangeSource ==
    /\ source < MaxSource
    /\ source' = source + 1
    /\ UNCHANGED <<disk, pc, build, faults, spoiled>>

(* The first step of a reset removes the vectors.                          *)
StartReset ==
    /\ vectors' = <<>>
    /\ pc' = "resetManifest"

(* The file of vectors is mapped with the size the manifest gives it.      *)
Loads == manifest.source = source /\ Len(vectors) >= manifest.rows

(* A finished index of this revision is loaded as it is; a load that fails *)
(* (OSError, ValueError) starts it over.                                   *)
StartBuild ==
    /\ pc = "idle"
    /\ signature' = source
    /\ IF manifest.source = source
       THEN \/ Loads /\ pc' = "idle" /\ UNCHANGED <<vectors, faults>>
            \/ ~Loads /\ StartReset /\ UNCHANGED faults
            \/ Loads /\ faults < MaxFaults /\ faults' = faults + 1 /\ StartReset
       ELSE pc' = "check" /\ UNCHANGED <<vectors, faults>>
    /\ UNCHANGED <<source, parts, checkpoint, manifest, read, rows, numbered,
                   kept, spoiled>>

ReadCheckpoint ==
    /\ pc = "check"
    /\ IF checkpoint.source = signature
       THEN pc' = "truncate" /\ UNCHANGED vectors
       ELSE StartReset
    /\ UNCHANGED <<source, parts, checkpoint, manifest, build, faults, spoiled>>

ResetManifest ==
    /\ pc = "resetManifest"
    /\ manifest' = NoManifest
    /\ pc' = "resetCheckpoint"
    /\ UNCHANGED <<source, vectors, parts, checkpoint, build, faults, spoiled>>

ResetCheckpoint ==
    /\ pc = "resetCheckpoint"
    /\ checkpoint' = NoCheckpoint
    /\ pc' = "resetParts"
    /\ UNCHANGED <<source, vectors, parts, manifest, build, faults, spoiled>>

(* Then a fresh checkpoint is written.  (After a failed load, a second     *)
(* reset that finds nothing to remove comes before it.)                    *)
ResetParts ==
    /\ pc = "resetParts"
    /\ parts' = <<>>
    /\ checkpoint' = [NoCheckpoint EXCEPT !.source = signature]
    /\ pc' = "truncate"
    /\ UNCHANGED <<source, vectors, manifest, build, faults, spoiled>>

(* Mutant of Truncated: rows after the checkpoint are kept.                *)
NotTruncated(n) == vectors

(* truncate() cuts the file or extends it with zeros.                      *)
Truncated(n) == [i \in 1..n |-> IF i <= Len(vectors) THEN vectors[i] ELSE Zero]

Truncate ==
    /\ pc = "truncate"
    /\ vectors' = Truncated(checkpoint.rows)
    /\ pc' = "trim"
    /\ UNCHANGED <<source, parts, checkpoint, manifest, build, faults, spoiled>>

TrimParts ==
    /\ pc = "trim"
    /\ parts' = SubSeq(parts, 1, IF Len(parts) < checkpoint.parts
                                 THEN Len(parts) ELSE checkpoint.parts)
    /\ read' = checkpoint.read /\ rows' = checkpoint.rows
    /\ numbered' = checkpoint.parts
    /\ pc' = "batch"
    /\ UNCHANGED <<source, vectors, checkpoint, manifest, signature, kept, faults, spoiled>>

(* A batch follows the order of the annotations.                           *)
InOrder(objects) ==
    \A i, j \in 1..Len(objects) : i < j => objects[i].place < objects[j].place

(* The next batch of iter_object_chip_batches; a window or a raster that   *)
(* cannot be read is left out, and the cursor passes it.                   *)
ReadBatch ==
    /\ pc = "batch"
    /\ IF read = Candidates
       THEN pc' = "finish" /\ UNCHANGED <<read, kept>>
       ELSE LET last == IF read + BatchSize < Candidates THEN read + BatchSize ELSE Candidates
            IN  \E n \in 0..(last - read) :
                    /\ kept' \in [1..n -> [source: {source}, place: (read + 1)..last]]
                    /\ InOrder(kept')
                    /\ read' = last
                    /\ pc' = IF n = 0 THEN "commit" ELSE "vectors"
    /\ UNCHANGED <<source, disk, signature, rows, numbered, faults, spoiled>>

AppendVectors ==
    /\ pc = "vectors"
    /\ vectors' = vectors \o kept
    /\ pc' = "part"
    /\ UNCHANGED <<source, parts, checkpoint, manifest, build, faults, spoiled>>

WritePart ==
    /\ pc = "part"
    /\ parts' = Append(parts, [start |-> rows, objects |-> kept])
    /\ rows' = rows + Len(kept)
    /\ numbered' = numbered + 1
    /\ pc' = "commit"
    /\ UNCHANGED <<source, vectors, checkpoint, manifest, signature, read, kept,
                   faults, spoiled>>

Commit ==
    /\ pc = "commit"
    /\ checkpoint' = [source |-> signature, read |-> read, rows |-> rows,
                      parts |-> numbered]
    /\ kept' = <<>>
    /\ pc' = "batch"
    /\ UNCHANGED <<source, vectors, parts, manifest, signature, read, rows, numbered,
                   faults, spoiled>>

BuildEnds ==
    /\ pc' = "idle"
    /\ signature' = NoSource
    /\ read' = 0 /\ rows' = 0 /\ numbered' = 0 /\ kept' = <<>>

(* The manifest, after the list and the look-up table made from the parts. *)
Finish ==
    /\ pc = "finish"
    /\ manifest' = [source |-> signature, rows |-> rows]
    /\ BuildEnds
    /\ UNCHANGED <<source, vectors, parts, checkpoint, faults, spoiled>>

(* The worker raises or is killed; an append may have been cut short.      *)
Die ==
    /\ pc # "idle" /\ faults < MaxFaults
    /\ faults' = faults + 1
    /\ \/ UNCHANGED vectors
       \/ /\ pc = "vectors"
          /\ \E n \in 0..Len(kept) : vectors' = vectors \o SubSeq(kept, 1, n)
    /\ spoiled' = (spoiled \/ (pc = "resetCheckpoint" /\ checkpoint.source = signature))
    /\ BuildEnds
    /\ UNCHANGED <<source, parts, checkpoint, manifest>>

BuildStep ==
    \/ StartBuild \/ ReadCheckpoint
    \/ ResetManifest \/ ResetCheckpoint \/ ResetParts
    \/ Truncate \/ TrimParts
    \/ ReadBatch \/ AppendVectors \/ WritePart \/ Commit \/ Finish

Next == ChangeSource \/ BuildStep \/ Die

Spec == Init /\ [][Next]_vars

-----------------------------------------------------------------------------
(* Properties.                                                             *)

RowOf(i) ==
    LET p == CHOOSE n \in 1..Len(parts) :
                parts[n].start < i /\ i <= parts[n].start + Len(parts[n].objects)
    IN  parts[p].objects[i - parts[p].start]

(* An index that loads as finished and current has in every row of the     *)
(* vectors the object of the same row in the parts, an object of the       *)
(* present source, each at most once and in order, however often builds    *)
(* died and the source changed in between (build_streaming_object_index) - *)
(* unless a reset of an index that would not load died before it removed   *)
(* the checkpoint: the resumed build then fills the vectors with zeros.    *)
IndexIsWhole ==
    pc = "idle" /\ Loads /\ ~spoiled =>
        \A i \in 1..manifest.rows :
            /\ vectors[i] = RowOf(i)
            /\ vectors[i].source = source
            /\ i > 1 => vectors[i - 1].place < vectors[i].place
=============================================================================
