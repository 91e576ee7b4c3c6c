------------------------- MODULE EmbeddingIndexProofs -------------------------
(***************************************************************************)
(* Proofs about EmbeddingIndex, for any number of candidates, any batch    *)
(* size and any number of changes of the source and faults: an index that  *)
(* loads has in every row the object its document names.                   *)
(***************************************************************************)
EXTENDS EmbeddingIndex, WellFoundedInduction, TLAPS

(* The bounds are naturals and there is a source.                          *)
Sound ==
    /\ Candidates \in Nat /\ BatchSize \in Nat /\ MaxFaults \in Nat
    /\ MaxSource \in Nat \ {0}

(* The first m parts are the first n rows, in one piece, each row is of    *)
(* the present source, and they are in order up to the place c.            *)
Fits(m, n, c) ==
    /\ m <= Len(parts) /\ n <= Len(vectors)
    /\ m = 0 => n = 0
    /\ m > 0 => parts[1].start = 0
    /\ \A k \in 1..m :
        /\ parts[k].start + Len(parts[k].objects) = IF k = m THEN n ELSE parts[k + 1].start
        /\ parts[k].start + Len(parts[k].objects) <= n
    /\ \A k \in 1..m : \A i \in 1..Len(parts[k].objects) :
        vectors[parts[k].start + i] = parts[k].objects[i]
    /\ \A i \in 1..n : vectors[i].source = source /\ vectors[i].place <= c
    /\ \A i, j \in 1..n : i < j => vectors[i].place < vectors[j].place

(* Where a build has accepted the checkpoint.                              *)
Building == {"truncate", "trim", "batch", "vectors", "part", "commit", "finish"}

(* Nothing on disk is of a later revision than the build in progress.      *)
Ages ==
    /\ checkpoint.source <= source /\ manifest.source <= source /\ signature <= source
    /\ pc # "idle" => signature >= 1 /\ checkpoint.source <= signature
    /\ pc \notin {"idle", "resetManifest"} => manifest.source < signature
    /\ pc \in Building => checkpoint.source = signature

(* What the build counts and what the files hold.                          *)
Counts ==
    /\ checkpoint.rows <= checkpoint.read /\ checkpoint.parts <= checkpoint.rows
    /\ checkpoint.parts <= Len(parts)
    /\ numbered <= rows
    /\ pc \in {"batch", "commit", "finish"} => rows <= read
    /\ pc \in {"batch", "finish"} =>
        /\ checkpoint.read = read
        /\ checkpoint.rows = rows /\ checkpoint.parts = numbered
    /\ pc \in {"vectors", "part"} =>
        /\ rows + Len(kept) <= read /\ Len(kept) >= 1 /\ checkpoint.read <= read
        /\ checkpoint.rows = rows /\ checkpoint.parts = numbered
    /\ pc = "trim" => Len(vectors) = checkpoint.rows
    /\ pc = "finish" => read = Candidates
    /\ pc \in {"batch", "vectors", "part", "commit", "finish"} => Len(parts) = numbered
    /\ pc \in {"batch", "vectors", "commit", "finish"} => Len(vectors) = rows
    /\ pc = "part" => Len(vectors) = rows + Len(kept)

(* The batch in hand comes after what is committed.                        *)
BatchFits ==
    pc \in {"vectors", "part"} /\ signature = source =>
        /\ \A i \in 1..Len(kept) :
            kept[i].source = source /\ kept[i].place > checkpoint.read /\ kept[i].place <= read
        /\ InOrder(kept)
        /\ pc = "part" => \A i \in 1..Len(kept) : vectors[rows + i] = kept[i]

(* A checkpoint a build may go on from is true of the files.               *)
CheckpointFits ==
    /\ checkpoint.source = source /\ manifest.source # source
    /\ pc # "resetCheckpoint" /\ ~spoiled
    => Fits(checkpoint.parts, checkpoint.rows, checkpoint.read)

(* So is what is about to be committed.                                    *)
CommitFits == pc = "commit" /\ signature = source /\ ~spoiled => Fits(numbered, rows, read)

(* An index that loads is of the parts there are.                          *)
ManifestFits == Loads /\ ~spoiled => Fits(Len(parts), manifest.rows, Candidates)

(* The inductive invariant.                                                *)
Inv ==
    /\ TypeOK /\ Ages /\ Counts /\ BatchFits
    /\ CheckpointFits /\ CommitFits /\ ManifestFits

(* The start.                                                              *)
LEMMA InitInv == ASSUME Sound PROVE Init => Inv
<1> SUFFICES ASSUME Init PROVE Inv
  OBVIOUS
<1>1. TypeOK
  <2>1. <<>> \in Seq(Objects \union {Zero}) /\ <<>> \in Seq(Objects)
        /\ <<>> \in Seq([start: 0..Candidates, objects: Seq(Objects)])
    OBVIOUS
  <2>2. source \in Sources /\ 0 \in 0..Candidates /\ 0 \in 0..MaxFaults
    BY DEF Sound, Init, Sources
  <2>3. checkpoint \in Cursor /\ manifest \in [source: Sources \union {NoSource}, rows: 0..Candidates]
    BY <2>2 DEF Init, Cursor, NoCheckpoint, NoManifest
  <2>4. QED
    BY <2>1, <2>2, <2>3 DEF Init, TypeOK
<1>2. Ages /\ Counts
  BY DEF Init, Ages, Counts, NoCheckpoint, NoManifest, NoSource, Building
<1>3. BatchFits /\ CheckpointFits /\ CommitFits /\ ManifestFits
  BY DEF Init, BatchFits, CheckpointFits, CommitFits, ManifestFits, Loads, NoCheckpoint,
         NoManifest, NoSource
<1>4. QED
  BY <1>1, <1>2, <1>3 DEF Inv

(* The numbers of a state are naturals within their bounds.               *)
Numbered ==
    /\ source \in Nat /\ source >= 1 /\ source <= MaxSource
    /\ signature \in Nat /\ read \in Nat /\ rows \in Nat /\ numbered \in Nat
    /\ read <= Candidates /\ rows <= Candidates /\ numbered <= Candidates
    /\ checkpoint.source \in Nat /\ checkpoint.read \in Nat /\ checkpoint.read <= Candidates
    /\ checkpoint.rows \in Nat /\ checkpoint.parts \in Nat
    /\ manifest.source \in Nat /\ manifest.rows \in Nat
    /\ Len(vectors) \in Nat /\ Len(parts) \in Nat /\ Len(kept) \in Nat

(* The types of the numbers, as the steps use them.                        *)
LEMMA Numbers ==
    ASSUME Sound, TypeOK
    PROVE  Numbered
<1>1. /\ source \in Nat /\ source >= 1 /\ source <= MaxSource
      /\ signature \in Nat /\ read \in Nat /\ rows \in Nat /\ numbered \in Nat
      /\ read <= Candidates /\ rows <= Candidates /\ numbered <= Candidates
  BY DEF Sound, TypeOK, Sources, NoSource
<1>2. /\ checkpoint.source \in Nat /\ checkpoint.read \in Nat /\ checkpoint.read <= Candidates
      /\ checkpoint.rows \in Nat /\ checkpoint.parts \in Nat
      /\ manifest.source \in Nat /\ manifest.rows \in Nat
  BY DEF Sound, TypeOK, Sources, NoSource, Cursor
<1>3. Len(vectors) \in Nat /\ Len(parts) \in Nat /\ Len(kept) \in Nat
  BY DEF TypeOK
<1>4. QED
  BY <1>1, <1>2, <1>3 DEF Numbered

(* The same for what the sequences hold.                                   *)
LEMMA Contents ==
    ASSUME Sound, TypeOK
    PROVE  /\ vectors \in Seq(Objects \union {Zero})
           /\ parts \in Seq([start: 0..Candidates, objects: Seq(Objects)])
           /\ kept \in Seq(Objects)
           /\ \A k \in 1..Len(parts) :
                /\ parts[k].start \in Nat /\ parts[k].objects \in Seq(Objects)
                /\ Len(parts[k].objects) \in Nat
           /\ \A i \in 1..Len(vectors) : vectors[i].source \in Nat /\ vectors[i].place \in Nat
           /\ \A i \in 1..Len(kept) : kept[i].source \in Nat /\ kept[i].place \in Nat
<1>1. /\ vectors \in Seq(Objects \union {Zero})
      /\ parts \in Seq([start: 0..Candidates, objects: Seq(Objects)])
      /\ kept \in Seq(Objects)
  BY DEF TypeOK
<1>2. ASSUME NEW k \in 1..Len(parts)
      PROVE  /\ parts[k].start \in Nat /\ parts[k].objects \in Seq(Objects)
             /\ Len(parts[k].objects) \in Nat
  <2> DEFINE P == [start: 0..Candidates, objects: Seq(Objects)]
  <2>1. parts[k] \in P
    <3>1. parts \in Seq(P)
      BY <1>1
    <3> HIDE DEF P
    <3>2. QED
      BY ONLY <3>1, k \in 1..Len(parts)
  <2>2. parts[k].start \in Nat /\ parts[k].objects \in Seq(Objects)
    BY <2>1 DEF Sound
  <2>3. QED
    BY <2>2
<1>3. \A o \in Objects \union {Zero} : o.source \in Nat /\ o.place \in Nat
  BY DEF Objects, Zero, Sources, NoSource, Sound
<1>4. \A i \in 1..Len(vectors) : vectors[i] \in Objects \union {Zero}
  BY <1>1
<1>5. \A i \in 1..Len(kept) : kept[i] \in Objects
  <2>1. kept \in Seq(Objects)
    BY <1>1
  <2> HIDE DEF Objects
  <2>2. QED
    BY ONLY <2>1
<1>6. QED
  BY <1>1, <1>2, <1>3, <1>4, <1>5

(* The rows of a part that begins at a and has b of them.                  *)
LEMMA PlaceOfPart ==
    ASSUME NEW a \in Nat, NEW b \in Nat, NEW n \in Nat, a + b <= n, NEW i \in 1..b
    PROVE  a + i \in 1..n
  OBVIOUS

(* What is true of some rows and parts stays so when they stay.            *)
LEMMA FitsStays ==
    ASSUME Sound, TypeOK, NEW m \in Nat, NEW n \in Nat, NEW c \in Nat, NEW d \in Nat, c <= d,
           Fits(m, n, c), source' = source,
           m <= Len(parts'), n <= Len(vectors'),
           \A k \in 1..m : parts'[k] = parts[k],
           \A i \in 1..n : vectors'[i] = vectors[i]
    PROVE  Fits(m, n, d)'
<1>n. Numbered
  BY Numbers DEF Inv
<1>1. /\ m <= Len(parts) /\ Len(parts) \in Nat
      /\ n <= Len(vectors) /\ Len(vectors) \in Nat
  BY <1>n DEF Numbered, Fits
<1>2. m > 0 => parts'[1].start = 0
  <2>1. m > 0 => 1 \in 1..m
    OBVIOUS
  <2>2. m > 0 => parts[1].start = 0
    BY DEF Fits
  <2>3. QED
    BY <2>1, <2>2
<1>3. ASSUME NEW k \in 1..m
      PROVE  /\ parts'[k].start + Len(parts'[k].objects) = IF k = m THEN n ELSE parts'[k + 1].start
             /\ parts'[k].start + Len(parts'[k].objects) <= n
  <2>1. /\ parts[k].start + Len(parts[k].objects) = IF k = m THEN n ELSE parts[k + 1].start
        /\ parts[k].start + Len(parts[k].objects) <= n
    BY DEF Fits
  <2>2. k # m => k + 1 \in 1..m
    OBVIOUS
  <2>3. QED
    BY <2>1, <2>2
<1>4. ASSUME NEW k \in 1..m, NEW i \in 1..Len(parts'[k].objects)
      PROVE  vectors'[parts'[k].start + i] = parts'[k].objects[i]
  <2>1. k \in 1..Len(parts) /\ parts'[k] = parts[k]
    BY <1>1
  <2>2. /\ parts[k].start \in Nat /\ Len(parts[k].objects) \in Nat
        /\ parts[k].start + Len(parts[k].objects) <= n
    BY <2>1, Contents DEF Fits
  <2>3. parts[k].start + i \in 1..n
    <3>1. i \in 1..Len(parts[k].objects)
      BY <2>1
    <3>2. QED
      BY <2>2, <3>1, PlaceOfPart
  <2>4. vectors[parts[k].start + i] = parts[k].objects[i]
    BY <2>1 DEF Fits
  <2>5. QED
    BY <2>1, <2>3, <2>4
<1>5. ASSUME NEW i \in 1..n
      PROVE  vectors'[i].source = source /\ vectors'[i].place <= d
  <2>1. i \in 1..Len(vectors) /\ vectors'[i] = vectors[i]
    BY <1>1
  <2>2. vectors[i].place \in Nat /\ vectors[i].place <= c /\ vectors[i].source = source
    BY <2>1, Contents DEF Fits
  <2>3. QED
    BY <2>1, <2>2
<1>6. \A i, j \in 1..n : i < j => vectors'[i].place < vectors'[j].place
  BY DEF Fits
<1>7. m = 0 => n = 0
  BY DEF Fits
<1>8. QED
  BY <1>2, <1>3, <1>4, <1>5, <1>6, <1>7 DEF Fits

(* The case of one place.                                                  *)
LEMMA FitsKept ==
    ASSUME Sound, TypeOK, NEW m \in Nat, NEW n \in Nat, NEW c \in Nat,
           Fits(m, n, c), source' = source,
           m <= Len(parts'), n <= Len(vectors'),
           \A k \in 1..m : parts'[k] = parts[k],
           \A i \in 1..n : vectors'[i] = vectors[i]
    PROVE  Fits(m, n, c)'
<1>1. c <= c
  OBVIOUS
<1>2. QED
  BY <1>1, FitsStays

(* Rows and parts that nobody touches, in the invariant.                   *)
LEMMA FilesStay ==
    ASSUME Sound, TypeOK, UNCHANGED <<source, vectors, parts>>,
           NEW m \in Nat, NEW n \in Nat, NEW c \in Nat, Fits(m, n, c)
    PROVE  Fits(m, n, c)'
<1>1. m <= Len(parts) /\ n <= Len(vectors)
  BY DEF Fits
<1>2. /\ m <= Len(parts') /\ n <= Len(vectors')
      /\ \A k \in 1..m : parts'[k] = parts[k]
      /\ \A i \in 1..n : vectors'[i] = vectors[i]
  BY <1>1
<1>3. QED
  BY ONLY Sound, TypeOK, m \in Nat, n \in Nat, c \in Nat, Fits(m, n, c), source' = source,
          <1>2, FitsKept

(* Steps that change neither the vectors nor the parts.                    *)
LEMMA QuietSteps ==
    ASSUME Sound, Inv,
           ChangeSource \/ ResetManifest \/ ResetCheckpoint \/ ReadBatch \/ Commit \/ Finish
    PROVE  Inv'
<1>n. Numbered
  BY Numbers DEF Inv
<1> USE DEF Inv
<1>0. UNCHANGED <<vectors, parts>>
  BY DEF ChangeSource, ResetManifest, ResetCheckpoint, ReadBatch, Commit, Finish, disk
<1>1. CASE ChangeSource
  <2>1. source' = source + 1 /\ source + 1 <= MaxSource
        /\ UNCHANGED <<vectors, parts, checkpoint, manifest, pc, signature, read, rows, numbered,
                       kept, faults, spoiled>>
    BY <1>1, <1>n DEF Numbered, ChangeSource, disk, build, Sound
  <2>2. source + 1 \in Sources
    BY <2>1, <1>n DEF Numbered, Sources, Sound
  <2>3. TypeOK'
    BY <2>1, <2>2 DEF TypeOK
  <2>4. Counts'
    BY <2>1 DEF Counts
  <2>5. checkpoint.source < source' /\ manifest.source < source' /\ signature < source'
    <3>1. checkpoint.source <= source /\ manifest.source <= source /\ signature <= source
      BY DEF Ages
    <3>2. /\ source' = source + 1 /\ source \in Nat
          /\ checkpoint.source \in Nat /\ manifest.source \in Nat /\ signature \in Nat
      BY <2>1, <1>n DEF Numbered
    <3>3. QED
      BY ONLY <3>1, <3>2
  <2>6. Ages'
    <3>1. /\ checkpoint'.source <= source' /\ manifest'.source <= source'
          /\ signature' <= source'
      <4>1. /\ checkpoint.source \in Nat /\ manifest.source \in Nat /\ signature \in Nat
            /\ source' \in Nat
        BY <2>1, <1>n DEF Numbered
      <4>2. checkpoint.source <= source' /\ manifest.source <= source' /\ signature <= source'
        BY ONLY <2>5, <4>1
      <4>3. QED
        BY <2>1, <4>2
    <3>2. QED
      BY <2>1, <3>1 DEF Ages
  <2>7. BatchFits' /\ CheckpointFits' /\ CommitFits' /\ ManifestFits'
    BY <2>1, <2>5, <1>n DEF Numbered, BatchFits, CheckpointFits, CommitFits, ManifestFits, Loads
  <2>8. QED
    BY <2>3, <2>4, <2>6, <2>7
<1>2. CASE ResetManifest
  <2>1. /\ pc = "resetManifest" /\ pc' = "resetCheckpoint" /\ manifest' = NoManifest
        /\ UNCHANGED <<source, vectors, parts, checkpoint, signature, read, rows, numbered,
                       kept, faults, spoiled>>
    BY <1>2 DEF ResetManifest, build
  <2>2. TypeOK'
    BY <2>1, 0 \in 0..Candidates DEF TypeOK, NoManifest, Sound
  <2>3. Ages'
    BY <2>1, <1>n DEF Numbered, Ages, NoManifest, NoSource, Building
  <2>4. Counts'
    BY <2>1 DEF Counts
  <2>5. BatchFits' /\ CheckpointFits' /\ CommitFits'
    BY <2>1 DEF BatchFits, CheckpointFits, CommitFits
  <2>6. ManifestFits'
    BY <2>1, <1>n DEF Numbered, ManifestFits, Loads, NoManifest, NoSource
  <2>7. QED
    BY <2>2, <2>3, <2>4, <2>5, <2>6
<1>3. CASE ResetCheckpoint
  <2>1. /\ pc = "resetCheckpoint" /\ pc' = "resetParts" /\ checkpoint' = NoCheckpoint
        /\ UNCHANGED <<source, vectors, parts, manifest, signature, read, rows, numbered,
                       kept, faults, spoiled>>
    BY <1>3 DEF ResetCheckpoint, build
  <2>2. TypeOK'
    <3>1. NoCheckpoint \in Cursor
      BY DEF NoCheckpoint, Cursor, NoSource, Sound
    <3>2. QED
      BY <2>1, <3>1 DEF TypeOK
  <2>3. Ages'
    BY <2>1, <1>n DEF Numbered, Ages, NoCheckpoint, NoSource, Building
  <2>4. Counts'
    BY <2>1, <1>n DEF Numbered, Counts, NoCheckpoint
  <2>5. BatchFits' /\ CheckpointFits' /\ CommitFits'
    BY <2>1, <1>n DEF Numbered, BatchFits, CheckpointFits, CommitFits, NoCheckpoint, NoSource
  <2>6. manifest.source # source
    BY <2>1, <1>n DEF Numbered, Ages
  <2>7. ManifestFits'
    BY <2>1, <2>6 DEF ManifestFits, Loads
  <2>8. QED
    BY <2>2, <2>3, <2>4, <2>5, <2>7
<1>4. CASE ReadBatch /\ read = Candidates
  <2>1. /\ pc = "batch" /\ pc' = "finish"
        /\ UNCHANGED <<source, vectors, parts, checkpoint, manifest, signature, read, rows,
                       numbered, kept, faults, spoiled>>
    BY <1>4 DEF ReadBatch, disk
  <2>2. TypeOK' /\ Ages'
    BY <2>1 DEF TypeOK, Ages, Building
  <2>3. Counts'
    BY <1>4, <2>1 DEF Counts
  <2>4. BatchFits' /\ CommitFits'
    BY <2>1 DEF BatchFits, CommitFits
  <2>5. CheckpointFits'
    BY <2>1, <1>n, FilesStay DEF Numbered, CheckpointFits
  <2>6. ManifestFits'
    BY <2>1, <1>n DEF Numbered, ManifestFits, Loads, Ages
  <2>7. QED
    BY <2>2, <2>3, <2>4, <2>5, <2>6
<1>5. CASE ReadBatch /\ read # Candidates
  <2> DEFINE last == IF read + BatchSize < Candidates THEN read + BatchSize ELSE Candidates
  <2>1. PICK n \in 0..(last - read) :
            /\ kept' \in [1..n -> [source: {source}, place: (read + 1)..last]]
            /\ InOrder(kept')
            /\ read' = last
            /\ pc' = IF n = 0 THEN "commit" ELSE "vectors"
    BY <1>5 DEF ReadBatch
  <2>2. /\ pc = "batch"
        /\ UNCHANGED <<source, vectors, parts, checkpoint, manifest, signature, rows,
                       numbered, faults, spoiled>>
    BY <1>5 DEF ReadBatch, disk
  <2>3. last \in Nat /\ read <= last /\ last <= Candidates /\ n \in Nat /\ n <= last - read
    <3>1. read \in Nat /\ read <= Candidates /\ Candidates \in Nat /\ BatchSize \in Nat
      BY <1>n DEF Numbered, Sound
    <3>2. last \in Nat /\ read <= last /\ last <= Candidates
      BY <3>1
    <3> HIDE DEF last
    <3>3. QED
      BY <2>1, <3>1, <3>2
  <2>4. pc' \in {"commit", "vectors"} /\ (pc' = "vectors" => n >= 1)
    BY <2>1, <2>3
  <2> HIDE DEF last
  <2>5. ASSUME NEW i \in 1..n
        PROVE  /\ kept'[i] \in Objects /\ kept'[i].source = source
               /\ kept'[i].place > read /\ kept'[i].place <= last
    <3>1. kept'[i] \in [source: {source}, place: (read + 1)..last]
      BY <2>1
    <3>2. read \in Nat /\ source \in Sources
      BY <1>n DEF Numbered, TypeOK
    <3>3. kept'[i].source = source /\ kept'[i].place \in (read + 1)..last
      BY <3>1
    <3>4. kept'[i] = [source |-> kept'[i].source, place |-> kept'[i].place]
      BY <3>1
    <3>5. kept'[i].place \in 1..Candidates
      <4>1. 1 <= read + 1 /\ last <= Candidates /\ Candidates \in Nat /\ last \in Nat
        BY <2>3, <3>2 DEF Sound
      <4>2. QED
        BY <3>2, <3>3, <4>1
    <3>6. kept'[i] \in Objects
      BY <3>2, <3>3, <3>4, <3>5 DEF Objects
    <3>7. QED
      BY <2>3, <3>2, <3>3, <3>6
  <2>6. kept' \in Seq(Objects) /\ Len(kept') = n
    BY <2>1, <2>3, <2>5
  <2>7. TypeOK'
    BY <2>1, <2>2, <2>3, <2>4, <2>6 DEF TypeOK
  <2>8. Ages'
    BY <2>2, <2>4 DEF Ages, Building
  <2>9. Counts'
    BY <2>1, <2>2, <2>3, <2>4, <2>6, <1>n DEF Numbered, Counts
  <2>10. BatchFits'
    BY <2>1, <2>2, <2>3, <2>4, <2>5, <2>6 DEF BatchFits, Counts
  <2>11. CheckpointFits'
    BY <2>2, <2>4, <1>n, FilesStay DEF Numbered, CheckpointFits
  <2>12. ManifestFits'
    BY <2>2, <1>n DEF Numbered, ManifestFits, Loads, Ages
  <2>13. CommitFits'
    <3> SUFFICES ASSUME signature = source, ~spoiled, pc' = "commit"
                 PROVE  Fits(numbered, rows, read)'
      BY <2>2 DEF CommitFits
    <3>1. Fits(numbered, rows, read)
      BY <2>2, <1>n DEF Numbered, CheckpointFits, Ages, Counts, Building
    <3>2. PICK m \in Nat, n_ \in Nat, c \in Nat, d \in Nat :
                m = numbered /\ n_ = rows /\ c = read /\ d = last
      BY <2>3, <1>n DEF Numbered
    <3>3. c <= d /\ m <= Len(parts') /\ n_ <= Len(vectors') /\ source' = source
      BY <2>2, <2>3, <3>1, <3>2 DEF Fits
    <3>4. Fits(m, n_, d)'
      BY <2>2, <3>1, <3>2, <3>3, FitsStays
    <3>5. QED
      BY <2>1, <2>2, <3>2, <3>4
  <2>14. QED
    BY <2>7, <2>8, <2>9, <2>10, <2>11, <2>12, <2>13
<1>6. CASE Commit
  <2>1. /\ pc = "commit" /\ pc' = "batch" /\ kept' = <<>>
        /\ checkpoint' = [source |-> signature, read |-> read, rows |-> rows, parts |-> numbered]
        /\ UNCHANGED <<source, vectors, parts, manifest, signature, read, rows, numbered,
                       faults, spoiled>>
    BY <1>6 DEF Commit
  <2>2. TypeOK'
    <3>1. checkpoint' \in Cursor
      BY <2>1, <1>n DEF Numbered, Cursor, TypeOK
    <3>2. <<>> \in Seq(Objects)
      OBVIOUS
    <3>3. QED
      BY <2>1, <3>1, <3>2 DEF TypeOK
  <2>3. Ages'
    BY <2>1, <1>n DEF Numbered, Ages, Building
  <2>4. Counts'
    BY <2>1, <1>n DEF Numbered, Counts
  <2>5. BatchFits' /\ CommitFits'
    BY <2>1 DEF BatchFits, CommitFits
  <2>6. CheckpointFits'
    BY <2>1, <1>n, FilesStay DEF Numbered, CheckpointFits, CommitFits
  <2>7. ManifestFits'
    BY <2>1, <1>n DEF Numbered, ManifestFits, Loads, Ages
  <2>8. QED
    BY <2>2, <2>3, <2>4, <2>5, <2>6, <2>7
<1>7. CASE Finish
  <2>1. /\ pc = "finish" /\ pc' = "idle" /\ manifest' = [source |-> signature, rows |-> rows]
        /\ signature' = NoSource /\ read' = 0 /\ rows' = 0 /\ numbered' = 0 /\ kept' = <<>>
        /\ UNCHANGED <<source, vectors, parts, checkpoint, faults, spoiled>>
    BY <1>7 DEF Finish, BuildEnds
  <2>2. TypeOK'
    <3>1. manifest' \in [source: Sources \union {NoSource}, rows: 0..Candidates]
      BY <2>1 DEF TypeOK
    <3>2. <<>> \in Seq(Objects) /\ 0 \in 0..Candidates
      BY DEF Sound
    <3>3. QED
      BY <2>1, <3>1, <3>2 DEF TypeOK
  <2>3. Ages'
    BY <2>1, <1>n DEF Numbered, Ages, Building, NoSource
  <2>4. Counts'
    BY <2>1, <1>n DEF Numbered, Counts
  <2>5. BatchFits' /\ CommitFits'
    BY <2>1 DEF BatchFits, CommitFits
  <2>6. CheckpointFits'
    BY <2>1, <1>n, FilesStay DEF Numbered, CheckpointFits, Ages
  <2>7. ManifestFits'
    <3> SUFFICES ASSUME signature = source, ~spoiled
                 PROVE  Fits(Len(parts), manifest.rows, Candidates)'
      BY <2>1 DEF ManifestFits, Loads
    <3>1. Fits(numbered, rows, read) /\ Len(parts) = numbered /\ read = Candidates
      BY <2>1, <1>n DEF Numbered, CheckpointFits, Ages, Counts, Building
    <3>2. PICK m \in Nat, n \in Nat : m = numbered /\ n = rows
      BY <1>n DEF Numbered
    <3>3. Fits(m, n, Candidates)'
      BY <2>1, <3>1, <3>2, FilesStay DEF Sound
    <3>4. QED
      BY <2>1, <3>1, <3>2, <3>3
  <2>8. QED
    BY <2>2, <2>3, <2>4, <2>5, <2>6, <2>7
<1>8. QED
  BY <1>1, <1>2, <1>3, <1>4, <1>5, <1>6, <1>7

(* The vectors go: a checkpoint of a current index is then past use.       *)
LEMMA NothingFits ==
    ASSUME Sound, TypeOK, Ages, ManifestFits, vectors' = <<>>,
           UNCHANGED <<source, parts, manifest, spoiled>>
    PROVE  ManifestFits'
<1>n. Numbered
  BY Numbers DEF Inv
<1> SUFFICES ASSUME manifest.source = source, 0 >= manifest.rows, ~spoiled
             PROVE  Fits(Len(parts), manifest.rows, Candidates)'
  BY DEF ManifestFits, Loads
<1>1. manifest.rows = 0 /\ Loads
  BY <1>n DEF Numbered, Loads
<1>2. Fits(Len(parts), 0, Candidates)
  BY <1>1 DEF ManifestFits
<1>3. PICK m \in Nat : m = Len(parts)
  BY <1>n DEF Numbered
<1>4. Fits(m, 0, Candidates)'
  <2>1. /\ m <= Len(parts') /\ 0 <= Len(vectors') /\ Candidates \in Nat /\ Candidates <= Candidates
        /\ 0 \in Nat /\ \A k \in 1..m : parts'[k] = parts[k]
    BY <1>3, <1>n, Len(<<>>) = 0 DEF Numbered, Sound
  <2>2. \A i \in 1..0 : vectors'[i] = vectors[i]
    OBVIOUS
  <2>3. QED
    BY <1>2, <1>3, <2>1, <2>2, FitsStays
<1>5. QED
  BY <1>1, <1>3, <1>4

(* Steps that begin or end a build without an append.                      *)
LEMMA ResetSteps ==
    ASSUME Sound, Inv,
           StartBuild \/ ReadCheckpoint \/ ResetParts \/ Truncate \/ TrimParts
    PROVE  Inv'
<1>n. Numbered
  BY Numbers DEF Inv
<1> USE DEF Inv
<1>0. <<>> \in Seq(Objects \union {Zero})
  OBVIOUS
<1>1. CASE StartBuild
  <2>1. /\ pc = "idle" /\ signature' = source
        /\ UNCHANGED <<source, parts, checkpoint, manifest, read, rows, numbered, kept, spoiled>>
    BY <1>1 DEF StartBuild
  <2>2. CASE pc' = "idle" /\ UNCHANGED <<vectors, faults>>
    <3>1. TypeOK'
      BY <2>1, <2>2 DEF TypeOK
    <3>2. Ages' /\ Counts'
      BY <2>1, <2>2, <1>n DEF Numbered, Ages, Counts, Building
    <3>3. BatchFits' /\ CommitFits'
      BY <2>1, <2>2 DEF BatchFits, CommitFits
    <3>4. CheckpointFits' /\ ManifestFits'
      BY <2>1, <2>2 DEF CheckpointFits, ManifestFits, Loads, Fits
    <3>5. QED
      BY <3>1, <3>2, <3>3, <3>4
  <2>3. CASE manifest.source = source /\ StartReset /\ faults' \in 0..MaxFaults
    <3>1. vectors' = <<>> /\ pc' = "resetManifest"
      BY <2>3 DEF StartReset
    <3>2. TypeOK'
      BY <1>0, <2>1, <2>3, <3>1 DEF TypeOK
    <3>3. Ages' /\ Counts'
      BY <2>1, <3>1, <1>n DEF Numbered, Ages, Counts, Building
    <3>4. BatchFits' /\ CommitFits' /\ CheckpointFits'
      BY <2>1, <2>3, <3>1 DEF BatchFits, CommitFits, CheckpointFits
    <3>5. ManifestFits'
      BY <2>1, <3>1, NothingFits
    <3>6. QED
      BY <3>2, <3>3, <3>4, <3>5
  <2>4. CASE manifest.source # source /\ pc' = "check" /\ UNCHANGED <<vectors, faults>>
    <3>1. TypeOK'
      BY <2>1, <2>4 DEF TypeOK
    <3>2. Ages' /\ Counts'
      BY <2>1, <2>4, <1>n DEF Numbered, Ages, Counts, Building
    <3>3. BatchFits' /\ CommitFits'
      BY <2>1, <2>4 DEF BatchFits, CommitFits
    <3>4. CheckpointFits' /\ ManifestFits'
      BY <2>1, <2>4 DEF CheckpointFits, ManifestFits, Loads, Fits
    <3>5. QED
      BY <3>1, <3>2, <3>3, <3>4
  <2>5. faults' \in 0..MaxFaults
    BY <1>1 DEF StartBuild, TypeOK, Sound
  <2>6. QED
    BY <1>1, <2>2, <2>3, <2>4, <2>5 DEF StartBuild
<1>2. CASE ReadCheckpoint
  <2>1. /\ pc = "check" /\ manifest.source # source /\ manifest.source < signature
        /\ UNCHANGED <<source, parts, checkpoint, manifest, signature, read, rows, numbered, kept,
                       faults, spoiled>>
    BY <1>2, <1>n DEF Numbered, ReadCheckpoint, build, Ages
  <2>2. CASE checkpoint.source = signature /\ pc' = "truncate" /\ UNCHANGED vectors
    <3>1. TypeOK'
      BY <2>1, <2>2 DEF TypeOK
    <3>2. Ages' /\ Counts'
      BY <2>1, <2>2, <1>n DEF Numbered, Ages, Counts, Building
    <3>3. BatchFits' /\ CommitFits'
      BY <2>1, <2>2 DEF BatchFits, CommitFits
    <3>4. CheckpointFits' /\ ManifestFits'
      BY <2>1, <2>2 DEF CheckpointFits, ManifestFits, Loads, Fits
    <3>5. QED
      BY <3>1, <3>2, <3>3, <3>4
  <2>3. CASE checkpoint.source # signature /\ StartReset
    <3>1. vectors' = <<>> /\ pc' = "resetManifest" /\ checkpoint.source # source
      BY <2>1, <2>3, <1>n DEF Numbered, StartReset, Ages
    <3>2. TypeOK'
      BY <1>0, <2>1, <3>1 DEF TypeOK
    <3>3. Ages' /\ Counts'
      BY <2>1, <3>1, <1>n DEF Numbered, Ages, Counts, Building
    <3>4. BatchFits' /\ CommitFits' /\ CheckpointFits'
      BY <2>1, <3>1 DEF BatchFits, CommitFits, CheckpointFits
    <3>5. ManifestFits'
      BY <2>1, <3>1, NothingFits
    <3>6. QED
      BY <3>2, <3>3, <3>4, <3>5
  <2>4. QED
    BY <1>2, <2>2, <2>3 DEF ReadCheckpoint
<1>3. CASE ResetParts
  <2>1. /\ pc = "resetParts" /\ pc' = "truncate" /\ parts' = <<>>
        /\ checkpoint' = [NoCheckpoint EXCEPT !.source = signature]
        /\ UNCHANGED <<source, vectors, manifest, signature, read, rows, numbered, kept,
                       faults, spoiled>>
    BY <1>3 DEF ResetParts, build
  <2>2. checkpoint' = [source |-> signature, read |-> 0, rows |-> 0, parts |-> 0]
    BY <2>1 DEF NoCheckpoint
  <2>3. TypeOK'
    <3>1. checkpoint' \in Cursor
      BY <2>2 DEF Cursor, Sound, TypeOK
    <3>2. <<>> \in Seq([start: 0..Candidates, objects: Seq(Objects)])
      OBVIOUS
    <3>3. QED
      BY <2>1, <3>1, <3>2 DEF TypeOK
  <2>4. Ages'
    BY <2>1, <2>2, <1>n DEF Numbered, Ages, Building
  <2>5. Counts'
    <3>1. Len(parts') = 0 /\ checkpoint'.rows = 0 /\ checkpoint'.parts = 0 /\ checkpoint'.read = 0
      BY <2>1, <2>2
    <3>2. QED
      BY <2>1, <3>1 DEF Counts
  <2>6. BatchFits' /\ CommitFits'
    BY <2>1 DEF BatchFits, CommitFits
  <2>7. CheckpointFits'
    <3>1. Fits(0, 0, 0)'
      BY <2>1, <1>n, Len(<<>>) = 0 DEF Numbered, Fits
    <3>2. QED
      BY <2>2, <3>1 DEF CheckpointFits
  <2>8. ManifestFits'
    BY <2>1, <1>n DEF Numbered, ManifestFits, Loads, Ages
  <2>9. QED
    BY <2>3, <2>4, <2>5, <2>6, <2>7, <2>8
<1>4. CASE Truncate
  <2>1. /\ pc = "truncate" /\ pc' = "trim" /\ vectors' = Truncated(checkpoint.rows)
        /\ UNCHANGED <<source, parts, checkpoint, manifest, signature, read, rows, numbered, kept,
                       faults, spoiled>>
    BY <1>4 DEF Truncate, build
  <2>2. /\ vectors' \in Seq(Objects \union {Zero}) /\ Len(vectors') = checkpoint.rows
        /\ \A i \in 1..checkpoint.rows : i <= Len(vectors) => vectors'[i] = vectors[i]
    <3>1. checkpoint.rows \in Nat /\ vectors \in Seq(Objects \union {Zero}) /\ Len(vectors) \in Nat
      BY <1>n, Contents DEF Numbered
    <3> DEFINE O == Objects \union {Zero}
    <3>2. Zero \in O
      OBVIOUS
    <3> HIDE DEF O
    <3>3. vectors \in Seq(O)
      BY <3>1 DEF O
    <3>4. \A i \in 1..checkpoint.rows : (IF i <= Len(vectors) THEN vectors[i] ELSE Zero) \in O
      BY <3>1, <3>2, <3>3
    <3>5. vectors' = [i \in 1..checkpoint.rows |-> IF i <= Len(vectors) THEN vectors[i] ELSE Zero]
      BY <2>1 DEF Truncated
    <3>6. vectors' \in Seq(O) /\ Len(vectors') = checkpoint.rows
      BY <3>1, <3>4, <3>5
    <3>7. QED
      BY <3>5, <3>6 DEF O
  <2>3. TypeOK'
    BY <2>1, <2>2 DEF TypeOK
  <2>4. Ages'
    BY <2>1 DEF Ages, Building
  <2>5. Counts'
    BY <2>1, <2>2 DEF Counts
  <2>6. BatchFits' /\ CommitFits'
    BY <2>1 DEF BatchFits, CommitFits
  <2>7. CheckpointFits'
    <3> SUFFICES ASSUME checkpoint.source = source, manifest.source # source, ~spoiled
                 PROVE  Fits(checkpoint.parts, checkpoint.rows, checkpoint.read)'
      BY <2>1 DEF CheckpointFits
    <3>1. Fits(checkpoint.parts, checkpoint.rows, checkpoint.read)
      BY <2>1 DEF CheckpointFits
    <3>2. PICK m \in Nat, n \in Nat, c \in Nat :
                m = checkpoint.parts /\ n = checkpoint.rows /\ c = checkpoint.read
      BY <1>n DEF Numbered
    <3>3. n <= Len(vectors) /\ m <= Len(parts')
      BY <2>1, <3>1, <3>2 DEF Fits
    <3>4. n <= Len(vectors') /\ \A i \in 1..n : vectors'[i] = vectors[i]
      <4>1. Len(vectors') = n /\ \A i \in 1..n : i <= Len(vectors) => vectors'[i] = vectors[i]
        BY <2>2, <3>2
      <4>2. Len(vectors) \in Nat
        BY <1>n DEF Numbered
      <4>3. QED
        BY ONLY <3>3, <4>1, <4>2, n \in Nat
    <3>5. Fits(m, n, c)'
      <4>1. Fits(m, n, c) /\ source' = source /\ \A k \in 1..m : parts'[k] = parts[k]
        BY <2>1, <3>1, <3>2
      <4>2. QED
        BY ONLY Sound, TypeOK, m \in Nat, n \in Nat, c \in Nat, <3>3, <3>4, <4>1, FitsKept
    <3>6. QED
      BY <2>1, <3>2, <3>5
  <2>8. ManifestFits'
    BY <2>1, <1>n DEF Numbered, ManifestFits, Loads, Ages
  <2>9. QED
    BY <2>3, <2>4, <2>5, <2>6, <2>7, <2>8
<1>5. CASE TrimParts
  <2>1. /\ pc = "trim" /\ pc' = "batch"
        /\ parts' = SubSeq(parts, 1, IF Len(parts) < checkpoint.parts THEN Len(parts)
                                                                     ELSE checkpoint.parts)
        /\ read' = checkpoint.read /\ rows' = checkpoint.rows /\ numbered' = checkpoint.parts
        /\ UNCHANGED <<source, vectors, checkpoint, manifest, signature, kept, faults, spoiled>>
    BY <1>5 DEF TrimParts
  <2>2. /\ parts' \in Seq([start: 0..Candidates, objects: Seq(Objects)])
        /\ Len(parts') = checkpoint.parts
        /\ \A k \in 1..checkpoint.parts : parts'[k] = parts[k]
    <3> DEFINE P == [start: 0..Candidates, objects: Seq(Objects)]
    <3>1. parts \in Seq(P) /\ checkpoint.parts \in Nat /\ checkpoint.parts <= Len(parts)
      BY <1>n, Contents DEF Numbered, Counts
    <3> HIDE DEF P
    <3>2. parts' = SubSeq(parts, 1, checkpoint.parts)
      BY <2>1, <3>1
    <3>3. parts' \in Seq(P) /\ Len(parts') = checkpoint.parts
          /\ \A k \in 1..checkpoint.parts : parts'[k] = parts[k]
      BY <3>1, <3>2
    <3>4. QED
      BY <3>3 DEF P
  <2>3. TypeOK'
    BY <2>1, <2>2 DEF TypeOK, Cursor
  <2>4. Ages'
    BY <2>1 DEF Ages, Building
  <2>5. Counts'
    BY <2>1, <2>2, <1>n DEF Numbered, Counts
  <2>6. BatchFits' /\ CommitFits'
    BY <2>1 DEF BatchFits, CommitFits
  <2>7. CheckpointFits'
    <3> SUFFICES ASSUME checkpoint.source = source, manifest.source # source, ~spoiled
                 PROVE  Fits(checkpoint.parts, checkpoint.rows, checkpoint.read)'
      BY <2>1 DEF CheckpointFits
    <3>1. Fits(checkpoint.parts, checkpoint.rows, checkpoint.read)
      BY <2>1 DEF CheckpointFits
    <3>2. PICK m \in Nat, n \in Nat, c \in Nat :
                m = checkpoint.parts /\ n = checkpoint.rows /\ c = checkpoint.read
      BY <1>n DEF Numbered
    <3>3. m <= Len(parts') /\ n <= Len(vectors') /\ \A k \in 1..m : parts'[k] = parts[k]
      BY <2>1, <2>2, <3>1, <3>2 DEF Fits
    <3>4. Fits(m, n, c)'
      <4>1. Fits(m, n, c) /\ source' = source /\ \A i \in 1..n : vectors'[i] = vectors[i]
        BY <2>1, <3>1, <3>2
      <4>2. QED
        BY ONLY Sound, TypeOK, m \in Nat, n \in Nat, c \in Nat, <3>3, <4>1, FitsKept
    <3>5. QED
      BY <2>1, <3>2, <3>4
  <2>8. ManifestFits'
    BY <2>1, <1>n DEF Numbered, ManifestFits, Loads, Ages
  <2>9. QED
    BY <2>3, <2>4, <2>5, <2>6, <2>7, <2>8
<1>6. QED
  BY <1>1, <1>2, <1>3, <1>4, <1>5

(* An append to the vectors leaves what was committed, whole or cut short. *)
LEMMA AppendKeeps ==
    ASSUME Sound, Inv, NEW more \in Seq(Objects), vectors' = vectors \o more,
           UNCHANGED <<source, parts, checkpoint, manifest, spoiled>>, pc # "resetCheckpoint"
    PROVE  CheckpointFits' /\ vectors' \in Seq(Objects \union {Zero})
           /\ Len(vectors') = Len(vectors) + Len(more)
           /\ (\A i \in 1..Len(vectors) : vectors'[i] = vectors[i])
           /\ (\A i \in 1..Len(more) : vectors'[Len(vectors) + i] = more[i])
<1>n. Numbered
  BY Numbers DEF Inv
<1> USE DEF Inv
<1>1. /\ vectors' \in Seq(Objects \union {Zero}) /\ Len(vectors') = Len(vectors) + Len(more)
      /\ \A i \in 1..Len(vectors) : vectors'[i] = vectors[i]
      /\ \A i \in 1..Len(more) : vectors'[Len(vectors) + i] = more[i]
  <2> DEFINE O == Objects \union {Zero}
  <2>1. Objects \subseteq O
    OBVIOUS
  <2>2. vectors \in Seq(O)
    BY <1>n, Contents DEF Numbered
  <2> HIDE DEF O
  <2>3. more \in Seq(O)
    BY <2>1
  <2>4. vectors \o more \in Seq(O) /\ Len(vectors \o more) = Len(vectors) + Len(more)
    BY <2>2, <2>3
  <2>5. QED
    BY <2>2, <2>3, <2>4 DEF O
<1>2. CheckpointFits'
  <2> SUFFICES ASSUME checkpoint.source = source, manifest.source # source, ~spoiled
               PROVE  Fits(checkpoint.parts, checkpoint.rows, checkpoint.read)'
    BY DEF CheckpointFits
  <2>1. Fits(checkpoint.parts, checkpoint.rows, checkpoint.read)
    BY DEF CheckpointFits
  <2>2. PICK m \in Nat, n \in Nat, c \in Nat :
              m = checkpoint.parts /\ n = checkpoint.rows /\ c = checkpoint.read
    BY <1>n DEF Numbered
  <2>3. n <= Len(vectors) /\ m <= Len(parts') /\ Len(more) \in Nat /\ Len(vectors) \in Nat
    BY <2>1, <2>2, <1>n DEF Numbered, Fits
  <2>4. n <= Len(vectors') /\ \A i \in 1..n : vectors'[i] = vectors[i]
    BY <1>1, <2>3
  <2>5. Fits(m, n, c)'
    <3>1. Fits(m, n, c) /\ source' = source /\ \A k \in 1..m : parts'[k] = parts[k]
      BY <2>1, <2>2
    <3>2. QED
      BY ONLY Sound, TypeOK, m \in Nat, n \in Nat, c \in Nat, <2>3, <2>4, <3>1, FitsKept
  <2>6. QED
    BY <2>2, <2>5
<1>3. QED
  BY <1>1, <1>2

(* The vectors of a batch.                                                 *)
LEMMA VectorsStep == ASSUME Sound, Inv, AppendVectors PROVE Inv'
<1>n. Numbered
  BY Numbers DEF Inv
<1> USE DEF Inv
<1>1. /\ pc = "vectors" /\ pc' = "part" /\ vectors' = vectors \o kept
      /\ UNCHANGED <<source, parts, checkpoint, manifest, signature, read, rows, numbered, kept,
                     faults, spoiled>>
  BY DEF AppendVectors, build
<1>2. /\ CheckpointFits' /\ vectors' \in Seq(Objects \union {Zero})
      /\ Len(vectors') = Len(vectors) + Len(kept)
      /\ \A i \in 1..Len(kept) : vectors'[Len(vectors) + i] = kept[i]
  BY <1>1, <1>n, Contents, AppendKeeps DEF Numbered
<1>3. TypeOK'
  BY <1>1, <1>2 DEF TypeOK
<1>4. Ages'
  BY <1>1 DEF Ages, Building
<1>5. Counts'
  BY <1>1, <1>2 DEF Counts
<1>6. BatchFits'
  BY <1>1, <1>2 DEF BatchFits, Counts
<1>7. CommitFits'
  BY <1>1 DEF CommitFits
<1>8. ManifestFits'
  BY <1>1, <1>n DEF Numbered, ManifestFits, Loads, Ages
<1>9. QED
  BY <1>2, <1>3, <1>4, <1>5, <1>6, <1>7, <1>8

(* The part of a batch: the rows from where the last one ended.            *)
LEMMA PartStep == ASSUME Sound, Inv, WritePart PROVE Inv'
<1>n. Numbered
  BY Numbers DEF Inv
<1> USE DEF Inv
<1> DEFINE part == [start |-> rows, objects |-> kept]
           P == [start: 0..Candidates, objects: Seq(Objects)]
<1>1. /\ pc = "part" /\ pc' = "commit" /\ parts' = Append(parts, part)
      /\ rows' = rows + Len(kept) /\ numbered' = numbered + 1
      /\ UNCHANGED <<source, vectors, checkpoint, manifest, signature, read, kept, faults, spoiled>>
  BY DEF WritePart
<1>2. part \in P /\ part.start = rows /\ part.objects = kept
  BY DEF TypeOK
<1>3. parts \in Seq(P) /\ Len(parts) \in Nat
  BY <1>n, Contents DEF Numbered
<1> HIDE DEF part, P
<1>4. /\ parts' \in Seq(P) /\ Len(parts') = Len(parts) + 1 /\ parts'[Len(parts) + 1] = part
      /\ \A k \in 1..Len(parts) : parts'[k] = parts[k]
  BY <1>1, <1>2, <1>3
<1>5. /\ rows + Len(kept) <= read /\ Len(kept) >= 1 /\ numbered <= rows
      /\ Len(parts) = numbered /\ Len(vectors) = rows + Len(kept)
      /\ checkpoint.rows = rows /\ checkpoint.parts = numbered /\ checkpoint.read <= read
  BY <1>1 DEF Counts
<1>6. /\ rows \in Nat /\ Len(kept) \in Nat /\ numbered \in Nat /\ read \in Nat
      /\ read <= Candidates /\ Candidates \in Nat /\ checkpoint.read \in Nat
  BY <1>n DEF Numbered, Sound
<1>7. TypeOK'
  <2>1. rows' \in 0..Candidates /\ numbered' \in 0..Candidates
    BY <1>1, <1>5, <1>6
  <2>2. QED
    BY <1>1, <1>4, <2>1 DEF TypeOK, P
<1>8. Ages'
  BY <1>1 DEF Ages, Building
<1>9. Counts'
  BY <1>1, <1>4, <1>5, <1>6, <1>n DEF Numbered, Counts
<1>10. BatchFits'
  BY <1>1 DEF BatchFits
<1>11. ManifestFits'
  BY <1>1, <1>n DEF Numbered, ManifestFits, Loads, Ages
<1>12. PICK m \in Nat, n \in Nat, k_ \in Nat, c \in Nat, d \in Nat :
            m = numbered /\ n = rows /\ k_ = Len(kept) /\ c = checkpoint.read /\ d = read
  BY <1>6
<1>13. CheckpointFits'
  <2> SUFFICES ASSUME checkpoint.source = source, manifest.source # source, ~spoiled
               PROVE  Fits(checkpoint.parts, checkpoint.rows, checkpoint.read)'
    BY <1>1 DEF CheckpointFits
  <2>1. Fits(m, n, c)
    BY <1>1, <1>5, <1>12 DEF CheckpointFits
  <2>2. m <= Len(parts') /\ n <= Len(vectors') /\ \A k \in 1..m : parts'[k] = parts[k]
    BY <1>1, <1>3, <1>4, <1>5, <1>6, <1>12
  <2>3. Fits(m, n, c)'
    BY <1>1, <2>1, <2>2, FitsStays
  <2>4. QED
    BY <1>1, <1>5, <1>12, <2>3
<1>14. CommitFits'
  <2> SUFFICES ASSUME signature = source, ~spoiled
               PROVE  Fits(numbered, rows, read)'
    BY <1>1 DEF CommitFits
  <2>1. checkpoint.source = source /\ manifest.source # source
    BY <1>1, <1>n DEF Numbered, Ages, Building
  <2>2. Fits(m, n, c)
    BY <1>1, <1>5, <1>12, <2>1 DEF CheckpointFits
  <2>3. /\ \A i \in 1..k_ : kept[i].source = source /\ kept[i].place > c /\ kept[i].place <= d
        /\ \A i, j \in 1..k_ : i < j => kept[i].place < kept[j].place
        /\ \A i \in 1..k_ : vectors[n + i] = kept[i]
    BY <1>1, <1>12 DEF BatchFits, InOrder
  <2>4. m + 1 <= Len(parts') /\ n + k_ <= Len(vectors') /\ Len(parts) = m
    BY <1>1, <1>4, <1>5, <1>12
  <2>5. parts'[1].start = 0
    <3>1. CASE m = 0
      BY <1>2, <1>4, <1>5, <1>12, <2>2, <3>1 DEF Fits
    <3>2. CASE m # 0
      BY <1>4, <1>5, <1>12, <2>2, <3>2 DEF Fits
    <3>3. QED
      BY <3>1, <3>2
  <2>6. ASSUME NEW k \in 1..(m + 1)
        PROVE  /\ parts'[k].start + Len(parts'[k].objects) =
                        IF k = m + 1 THEN n + k_ ELSE parts'[k + 1].start
               /\ parts'[k].start + Len(parts'[k].objects) <= n + k_
    <3>1. CASE k = m + 1
      BY <1>2, <1>4, <1>12, <2>4, <3>1
    <3>2. CASE k # m + 1
      <4>1. k \in 1..m /\ parts'[k] = parts[k] /\ parts'[m + 1].start = n
        BY <1>2, <1>4, <1>12, <2>4, <3>2
      <4>2. /\ parts[k].start + Len(parts[k].objects) = IF k = m THEN n ELSE parts[k + 1].start
            /\ parts[k].start + Len(parts[k].objects) <= n
        BY <2>2, <4>1 DEF Fits
      <4>3. parts[k].start + Len(parts[k].objects) \in Nat
        <5>1. k \in 1..Len(parts)
          BY <2>4, <4>1
        <5>2. parts[k].start \in Nat /\ Len(parts[k].objects) \in Nat
          BY <5>1, <1>n, Contents DEF Numbered
        <5>3. QED
          BY <5>2
      <4>4. k # m => k + 1 \in 1..m /\ parts'[k + 1] = parts[k + 1]
        BY <1>4, <2>4, <4>1
      <4>5. QED
        BY <3>2, <4>1, <4>2, <4>3, <4>4
    <3>3. QED
      BY <3>1, <3>2
  <2>7. ASSUME NEW k \in 1..(m + 1), NEW i \in 1..Len(parts'[k].objects)
        PROVE  vectors'[parts'[k].start + i] = parts'[k].objects[i]
    <3>1. CASE k = m + 1
      <4>1. parts'[k] = part /\ part.start = n /\ part.objects = kept /\ i \in 1..k_
        BY <1>2, <1>4, <1>12, <2>4, <3>1
      <4>2. QED
        BY <1>1, <2>3, <4>1
    <3>2. CASE k # m + 1
      <4>1. k \in 1..m /\ parts'[k] = parts[k]
        BY <1>4, <2>4, <3>2
      <4>2. QED
        BY <1>1, <2>2, <4>1 DEF Fits
    <3>3. QED
      BY <3>1, <3>2
  <2>8. ASSUME NEW i \in 1..(n + k_)
        PROVE  vectors[i].source = source /\ vectors[i].place <= d
    <3>1. CASE i \in 1..n
      <4>1. i \in 1..Len(vectors) /\ c <= d
        BY <1>5, <1>6, <1>12, <3>1
      <4>2. vectors[i].place \in Nat
        BY <4>1, <1>n, Contents DEF Numbered
      <4>3. QED
        BY <2>2, <3>1, <4>1, <4>2 DEF Fits
    <3>2. CASE i \notin 1..n
      <4>1. i - n \in 1..k_ /\ n + (i - n) = i
        BY <3>2
      <4>2. QED
        BY <2>3, <4>1
    <3>3. QED
      BY <3>1, <3>2
  <2>9. ASSUME NEW i \in 1..(n + k_), NEW j \in 1..(n + k_), i < j
        PROVE  vectors[i].place < vectors[j].place
    <3>1. CASE j \in 1..n
      BY <2>2, <2>9, <3>1 DEF Fits
    <3>2. CASE i \in 1..n /\ j \notin 1..n
      <4>1. j - n \in 1..k_ /\ n + (j - n) = j
        BY <3>2
      <4>2. vectors[j] = kept[j - n] /\ kept[j - n].place > c
        BY <2>3, <4>1
      <4>3. vectors[i].place <= c
        BY <2>2, <3>2 DEF Fits
      <4>4. vectors[i].place \in Nat /\ vectors[j].place \in Nat
        BY <1>5, <1>12, <1>n, Contents DEF Numbered
      <4>5. QED
        BY <4>2, <4>3, <4>4
    <3>3. CASE i \notin 1..n /\ j \notin 1..n
      <4>1. i - n \in 1..k_ /\ n + (i - n) = i /\ j - n \in 1..k_ /\ n + (j - n) = j /\ i - n < j - n
        BY <2>9, <3>3
      <4>2. vectors[i] = kept[i - n] /\ vectors[j] = kept[j - n] /\ kept[i - n].place < kept[j - n].place
        BY <2>3, <4>1
      <4>3. QED
        BY <4>2
    <3>4. QED
      BY <2>9, <3>1, <3>2, <3>3
  <2>10. Fits(m + 1, n + k_, d)'
    <3>1. m + 1 # 0
      BY <1>12
    <3>2. QED
      BY <1>1, <2>4, <2>5, <2>6, <2>7, <2>8, <2>9, <3>1 DEF Fits
  <2>11. QED
    BY <1>1, <1>12, <2>10
<1>15. QED
  BY <1>7, <1>8, <1>9, <1>10, <1>11, <1>13, <1>14

(* A build that dies.                                                      *)
LEMMA DieStep == ASSUME Sound, Inv, Die PROVE Inv'
<1>n. Numbered
  BY Numbers DEF Inv
<1> USE DEF Inv
<1>1. /\ pc # "idle" /\ pc' = "idle" /\ signature' = NoSource /\ faults' \in 0..MaxFaults
      /\ read' = 0 /\ rows' = 0 /\ numbered' = 0 /\ kept' = <<>>
      /\ spoiled' = (spoiled \/ (pc = "resetCheckpoint" /\ checkpoint.source = signature))
      /\ UNCHANGED <<source, parts, checkpoint, manifest>>
  BY DEF Die, BuildEnds, TypeOK, Sound
<1>2. \/ vectors' = vectors
      \/ /\ pc = "vectors"
         /\ \E n \in 0..Len(kept) : vectors' = vectors \o SubSeq(kept, 1, n)
  BY DEF Die
<1>3. vectors' \in Seq(Objects \union {Zero}) /\ (pc # "resetCheckpoint" => CheckpointFits')
  <2>1. CASE vectors' = vectors
    <3>1. pc # "resetCheckpoint" => CheckpointFits'
      BY <1>1, <2>1 DEF CheckpointFits, Fits
    <3>2. QED
      BY <2>1, <3>1 DEF TypeOK
  <2>2. CASE pc = "vectors" /\ \E n \in 0..Len(kept) : vectors' = vectors \o SubSeq(kept, 1, n)
    <3>1. PICK n \in 0..Len(kept) : vectors' = vectors \o SubSeq(kept, 1, n)
      BY <2>2
    <3>2. SubSeq(kept, 1, n) \in Seq(Objects)
      <4>1. kept \in Seq(Objects) /\ Len(kept) \in Nat
        BY <1>n, Contents DEF Numbered
      <4> HIDE DEF Objects
      <4>2. QED
        BY <4>1
    <3>3. spoiled' = spoiled
      BY <1>1, <2>2 DEF TypeOK
    <3>4. QED
      BY <1>1, <2>2, <3>1, <3>2, <3>3, AppendKeeps
  <2>3. QED
    BY <1>2, <2>1, <2>2
<1>4. TypeOK'
  <2>1. spoiled' \in BOOLEAN
    BY <1>1 DEF TypeOK
  <2>2. <<>> \in Seq(Objects) /\ 0 \in 0..Candidates
    BY DEF Sound
  <2>3. QED
    BY <1>1, <1>3, <2>1, <2>2 DEF TypeOK
<1>5. Ages'
  BY <1>1, <1>n DEF Numbered, Ages, Building, NoSource
<1>6. Counts'
  BY <1>1 DEF Counts
<1>7. BatchFits' /\ CommitFits'
  BY <1>1 DEF BatchFits, CommitFits
<1>8. CheckpointFits'
  <2>1. CASE pc # "resetCheckpoint"
    BY <1>3, <2>1
  <2>2. CASE pc = "resetCheckpoint"
    <3>1. CASE checkpoint.source = signature
      <4>1. spoiled'
        BY <1>1, <2>2, <3>1
      <4>2. QED
        BY <4>1 DEF CheckpointFits
    <3>2. CASE checkpoint.source # signature
      <4>1. checkpoint'.source # source'
        BY <1>1, <2>2, <3>2, <1>n DEF Numbered, Ages
      <4>2. QED
        BY <4>1 DEF CheckpointFits
    <3>3. QED
      BY <3>1, <3>2
  <2>3. QED
    BY <2>1, <2>2
<1>9. ManifestFits'
  <2>1. CASE pc = "vectors"
    BY <1>1, <2>1, <1>n DEF Numbered, ManifestFits, Loads, Ages
  <2>2. CASE pc # "vectors"
    <3>1. UNCHANGED <<vectors, parts, manifest, source>> /\ (~spoiled' => ~spoiled)
      BY <1>1, <1>2, <2>2
    <3>2. QED
      BY <3>1 DEF ManifestFits, Loads, Fits
  <2>3. QED
    BY <2>1, <2>2
<1>10. QED
  BY <1>3, <1>4, <1>5, <1>6, <1>7, <1>8, <1>9

(* Every step.                                                             *)
LEMMA NextInv == ASSUME Sound PROVE Inv /\ [Next]_vars => Inv'
<1> SUFFICES ASSUME Inv, [Next]_vars PROVE Inv'
  OBVIOUS
<1>1. CASE UNCHANGED vars
  BY <1>1 DEF vars, disk, build, Inv, TypeOK, Ages, Counts, BatchFits, CheckpointFits, CommitFits,
              ManifestFits, Loads, Fits
<1>2. CASE Next
  BY <1>2, QuietSteps, ResetSteps, VectorsStep, PartStep, DieStep DEF Next, BuildStep
<1>3. QED
  BY <1>1, <1>2

(* A set of naturals that is not empty has a least one.                    *)
LEMMA LeastExists ==
    ASSUME NEW S \in SUBSET Nat, S # {}
    PROVE  \E n \in S : \A m \in S : n <= m
<1> DEFINE R == OpToRel(<, Nat)
<1>1. IsWellFoundedOn(R, Nat)
  BY NatLessThanWellFounded
<1>2. PICK n \in S : \A m \in S : <<m, n>> \notin R
  <2> HIDE DEF R
  <2>1. QED
    BY <1>1, WFMin, Zenon
<1>3. \A m \in S : ~(m < n)
  BY <1>2 DEF OpToRel
<1> HIDE DEF R
<1>4. QED
  BY <1>3

(* The part that a row is in.                                              *)
LEMMA RowHasPart ==
    ASSUME Sound, TypeOK, NEW n \in Nat, NEW c \in Nat, Fits(Len(parts), n, c), NEW i \in 1..n
    PROVE  \E p \in 1..Len(parts) :
                parts[p].start < i /\ i <= parts[p].start + Len(parts[p].objects)
<1>n. Numbered
  BY Numbers DEF Inv
<1> DEFINE end(k) == parts[k].start + Len(parts[k].objects)
           after == {k \in 1..Len(parts) : i <= end(k)}
<1>1. Len(parts) \in Nat
      /\ \A k \in 1..Len(parts) : parts[k].start \in Nat /\ Len(parts[k].objects) \in Nat
  BY <1>n, Contents DEF Numbered
<1>2. Len(parts) \in after /\ after \in SUBSET Nat
  BY <1>1 DEF Fits
<1>3. PICK p \in after : \A q \in after : p <= q
  BY <1>2, LeastExists
<1>4. p \in 1..Len(parts) /\ i <= end(p)
  OBVIOUS
<1>5. parts[p].start < i
  <2>1. CASE p = 1
    BY <1>1, <1>4, <2>1 DEF Fits
  <2>2. CASE p # 1
    <3>1. p - 1 \in 1..Len(parts) /\ p - 1 # Len(parts) /\ (p - 1) + 1 = p
      BY <1>1, <1>4, <2>2
    <3>2. end(p - 1) = parts[p].start
      BY <3>1 DEF Fits
    <3>3. p - 1 \notin after
      <4>1. \A q \in after : p <= q /\ q \in Nat
        BY <1>2, <1>3
      <4>2. p \in Nat
        BY <1>4
      <4> HIDE DEF after
      <4>3. QED
        BY ONLY <4>1, <4>2
    <3>4. QED
      BY <1>1, <1>4, <3>1, <3>2, <3>3
  <2>3. QED
    BY <2>1, <2>2
<1>6. QED
  BY <1>4, <1>5

(* The property from the invariant.                                        *)
LEMMA InvWhole == ASSUME Sound PROVE Inv => IndexIsWhole
<1> SUFFICES ASSUME Inv, pc = "idle", Loads, ~spoiled, NEW i \in 1..manifest.rows
             PROVE  /\ vectors[i] = RowOf(i)
                    /\ vectors[i].source = source
                    /\ i > 1 => vectors[i - 1].place < vectors[i].place
  BY DEF IndexIsWhole
<1>n. Numbered
  BY Numbers DEF Inv
<1>1. PICK n \in Nat : n = manifest.rows
  BY <1>n DEF Numbered, Inv
<1>2. Fits(Len(parts), n, Candidates) /\ i \in 1..n /\ i \in Nat
  BY <1>1 DEF Inv, ManifestFits
<1>3. vectors[i].source = source
  BY <1>2 DEF Fits
<1>4. i > 1 => vectors[i - 1].place < vectors[i].place
  BY <1>2 DEF Fits
<1>5. vectors[i] = RowOf(i)
  <2> DEFINE Holds(p) == parts[p].start < i /\ i <= parts[p].start + Len(parts[p].objects)
             p == CHOOSE p \in 1..Len(parts) : Holds(p)
  <2>1. \E q \in 1..Len(parts) : Holds(q)
    BY <1>2, RowHasPart DEF Inv, Sound
  <2>2. p \in 1..Len(parts) /\ Holds(p)
    <3> HIDE DEF Holds
    <3>1. QED
      BY <2>1
  <2>3. RowOf(i) = parts[p].objects[i - parts[p].start]
    BY DEF RowOf
  <2> HIDE DEF p
  <2>4. parts[p].start \in Nat /\ Len(parts[p].objects) \in Nat
    BY <2>2, <1>n, Contents DEF Numbered, Inv
  <2>5. i - parts[p].start \in 1..Len(parts[p].objects) /\ parts[p].start + (i - parts[p].start) = i
    BY <1>2, <2>2, <2>4
  <2>6. vectors[parts[p].start + (i - parts[p].start)] = parts[p].objects[i - parts[p].start]
    BY <1>2, <2>2, <2>5 DEF Fits
  <2>7. QED
    BY <2>3, <2>5, <2>6
<1>6. QED
  BY <1>3, <1>4, <1>5

(* The build keeps the types of its files and counters.                    *)
THEOREM IndexTypes == ASSUME Sound PROVE Spec => []TypeOK
<1>1. Inv => TypeOK
  BY DEF Inv
<1>2. QED
  BY <1>1, InitInv, NextInv, PTL DEF Spec

(* An index that loads has the right object in every row, whatever dies    *)
(* and whenever the source changes (build_streaming_object_index,          *)
(* _rollback_to_checkpoint).                                               *)
THEOREM IndexWhole == ASSUME Sound PROVE Spec => []IndexIsWhole
  BY InitInv, NextInv, InvWhole, PTL DEF Spec
=============================================================================
