------------------------ MODULE DatasetSplitsProofs ------------------------
(* Proofs about DatasetSplits, for any tiles, scenes, sources, shares,     *)
(* blocks and buffer: the union-find keeps a forest, so the groups that    *)
(* share a source get one root, and the nine cells of the lookup hold      *)
(* every hold-out tile nearer than the buffer.                             *)
EXTENDS DatasetSplits, FiniteSetTheorems, WellFoundedInduction, TLAPS

(* Tiles are numbered, and their places and the shares are numbers.        *)
Sound ==
    /\ Tiles \in SUBSET Nat /\ IsFiniteSet(Tiles)
    /\ \A t \in Tiles : TileInfo[t].x \in Int /\ TileInfo[t].y \in Int
    /\ BufferTiles \in Nat
    /\ Ratios \subseteq Nat \X Nat

(* A set of naturals that is not empty has a least one.                    *)
LEMMA LeastExists ==
    ASSUME NEW S \in SUBSET Nat, S # {}
    PROVE  \E n \in S : \A m \in S : n <= m
<1> DEFINE R == OpToRel(<, Nat)
<1>1. IsWellFoundedOn(R, Nat)
  BY NatLessThanWellFounded
<1>2. PICK n \in S : \A m \in S : <<m, n>> \notin R
  <2> HIDE DEF R
  <2>1. QED
    BY <1>1, WFMin, Zenon
<1>3. \A m \in S : ~(m < n)
  BY <1>2 DEF OpToRel
<1> HIDE DEF R
<1>4. QED
  BY <1>3

-----------------------------------------------------------------------------
\* Forests.

(* The tile at the top of the tree of each tile, as find looks for it.     *)
Tops(f, up) == f = [j \in Tiles |-> IF up[j] = j THEN j ELSE f[up[j]]]

(* Heights under which every parent is below its child.                    *)
Ranked(rank, up) ==
    /\ rank \in [Tiles -> Nat]
    /\ \A j \in Tiles : up[j] # j => rank[up[j]] < rank[j]

(* A parent for each tile, and no cycle.                                   *)
Forest(up) ==
    /\ up \in [Tiles -> Tiles]
    /\ \E f : Tops(f, up)
    /\ \E rank : Ranked(rank, up)

(* Of tiles that are not as wanted, one has a parent that is.              *)
LEMMA LowestTile ==
    ASSUME NEW rank \in [Tiles -> Nat], NEW bad \in SUBSET Tiles, bad # {}
    PROVE  \E j \in bad : \A i \in bad : rank[j] <= rank[i]
<1> DEFINE S == {rank[j] : j \in bad}
<1>1. S \in SUBSET Nat /\ S # {}
  OBVIOUS
<1>2. PICK n \in S : \A m \in S : n <= m
  BY <1>1, LeastExists
<1>3. PICK j \in bad : n = rank[j]
  OBVIOUS
<1>4. QED
  BY <1>2, <1>3

(* What find gives is a root.                                              *)
LEMMA TopsAreRoots ==
    ASSUME NEW up, Forest(up), NEW f, Tops(f, up), NEW j \in Tiles
    PROVE  f[j] \in Tiles /\ up[f[j]] = f[j]
<1> DEFINE bad == {i \in Tiles : ~(f[i] \in Tiles /\ up[f[i]] = f[i])}
<1>1. PICK rank : Ranked(rank, up)
  BY DEF Forest
<1>2. up \in [Tiles -> Tiles]
  BY DEF Forest
<1>3. \A i \in Tiles : f[i] = IF up[i] = i THEN i ELSE f[up[i]]
  BY DEF Tops
<1>4. bad = {}
  <2> SUFFICES ASSUME bad # {} PROVE FALSE
    OBVIOUS
  <2>1. rank \in [Tiles -> Nat] /\ bad \in SUBSET Tiles
    BY <1>1 DEF Ranked
  <2>2. PICK i \in bad : \A k \in bad : rank[i] <= rank[k]
    <3> HIDE DEF bad
    <3>1. QED
      BY <2>1, LowestTile
  <2>3. i \in Tiles /\ up[i] # i
    BY <1>3
  <2>4. up[i] \in Tiles /\ rank[up[i]] < rank[i]
    BY <1>1, <1>2, <2>3 DEF Ranked
  <2>5. up[i] \notin bad
    BY <2>1, <2>2, <2>3, <2>4
  <2>6. f[i] = f[up[i]]
    BY <1>3, <2>3
  <2>7. QED
    BY <2>2, <2>4, <2>5, <2>6
<1>5. QED
  BY <1>4

(* There is only one such function.                                        *)
LEMMA TopsAreUnique ==
    ASSUME NEW up, Forest(up), NEW f, Tops(f, up), NEW g, Tops(g, up)
    PROVE  \A j \in Tiles : f[j] = g[j]
<1> DEFINE bad == {i \in Tiles : f[i] # g[i]}
<1>1. PICK rank : Ranked(rank, up)
  BY DEF Forest
<1>2. up \in [Tiles -> Tiles]
  BY DEF Forest
<1>3. /\ \A i \in Tiles : f[i] = IF up[i] = i THEN i ELSE f[up[i]]
      /\ \A i \in Tiles : g[i] = IF up[i] = i THEN i ELSE g[up[i]]
  BY DEF Tops
<1>4. bad = {}
  <2> SUFFICES ASSUME bad # {} PROVE FALSE
    OBVIOUS
  <2>1. rank \in [Tiles -> Nat] /\ bad \in SUBSET Tiles
    BY <1>1 DEF Ranked
  <2>2. PICK i \in bad : \A k \in bad : rank[i] <= rank[k]
    <3> HIDE DEF bad
    <3>1. QED
      BY <2>1, LowestTile
  <2>3. i \in Tiles /\ up[i] # i
    BY <1>3
  <2>4. up[i] \in Tiles /\ rank[up[i]] < rank[i]
    BY <1>1, <1>2, <2>3 DEF Ranked
  <2>5. up[i] \notin bad
    BY <2>1, <2>2, <2>3, <2>4
  <2>6. QED
    BY <1>3, <2>2, <2>3, <2>4, <2>5
<1>5. QED
  BY <1>4

(* Root is the function that find looks for.                               *)
LEMMA RootIsTop ==
    ASSUME NEW up, Forest(up), NEW f, Tops(f, up), NEW j \in Tiles
    PROVE  Root(up, j) = f[j]
<1> DEFINE g == CHOOSE h : h = [i \in Tiles |-> IF up[i] = i THEN i ELSE h[up[i]]]
<1>1. Root(up, j) = g[j]
  BY DEF Root
<1>2. Tops(g, up)
  BY DEF Tops
<1> HIDE DEF g
<1>3. QED
  BY <1>1, <1>2, TopsAreUnique

(* Hanging some roots below one of them leaves a forest, in which the      *)
(* tiles of those roots are together and the others where they were.       *)
LEMMA Hang ==
    ASSUME NEW up, Forest(up), NEW roots \in SUBSET Tiles, NEW first \in roots,
           \A i \in roots : up[i] = i,
           NEW down, down = [i \in Tiles |-> IF i \in roots THEN first ELSE up[i]]
    PROVE  /\ Forest(down)
           /\ \A j \in Tiles :
                Root(down, j) = IF Root(up, j) \in roots THEN first ELSE Root(up, j)
<1>1. PICK f : Tops(f, up)
  BY DEF Forest
<1>2. PICK rank : Ranked(rank, up)
  BY DEF Forest
<1>3. up \in [Tiles -> Tiles] /\ first \in Tiles /\ up[first] = first
  BY DEF Forest
<1>4. down \in [Tiles -> Tiles]
  BY <1>3
<1>5. \A j \in Tiles : f[j] \in Tiles /\ up[f[j]] = f[j]
  BY <1>1, TopsAreRoots
<1>6. \A j \in Tiles : f[j] = IF up[j] = j THEN j ELSE f[up[j]]
  BY <1>1 DEF Tops
<1> DEFINE g == [j \in Tiles |-> IF f[j] \in roots THEN first ELSE f[j]]
           high == [j \in Tiles |-> IF f[j] = first THEN rank[j] ELSE rank[j] + rank[first] + 1]
<1>7. Tops(g, down)
  <2>1. ASSUME NEW j \in Tiles PROVE g[j] = IF down[j] = j THEN j ELSE g[down[j]]
    <3>1. CASE j \in roots
      <4>1. f[j] = j /\ down[j] = first /\ f[first] = first
        BY <1>3, <1>6, <3>1
      <4>2. QED
        BY <1>3, <3>1, <4>1
    <3>2. CASE j \notin roots /\ up[j] = j
      BY <1>6, <3>2
    <3>3. CASE j \notin roots /\ up[j] # j
      <4>1. down[j] = up[j] /\ up[j] \in Tiles /\ f[j] = f[up[j]]
        BY <1>3, <1>6, <3>3
      <4>2. QED
        BY <3>3, <4>1
    <3>4. QED
      BY <3>1, <3>2, <3>3
  <2>2. QED
    BY <2>1 DEF Tops
<1>8. Ranked(high, down)
  <2>1. rank \in [Tiles -> Nat]
    BY <1>2 DEF Ranked
  <2>2. high \in [Tiles -> Nat]
    BY <1>3, <2>1
  <2>3. ASSUME NEW j \in Tiles, down[j] # j PROVE high[down[j]] < high[j]
    <3>1. CASE j \in roots
      <4>1. f[j] = j /\ down[j] = first /\ f[first] = first /\ j # first
        BY <1>3, <1>6, <2>3, <3>1
      <4>2. high[first] = rank[first] /\ high[j] = rank[j] + rank[first] + 1
        BY <1>3, <4>1
      <4>3. QED
        BY <1>3, <2>1, <4>1, <4>2
    <3>2. CASE j \notin roots
      <4>1. down[j] = up[j] /\ up[j] # j /\ up[j] \in Tiles /\ f[j] = f[up[j]]
        BY <1>3, <1>6, <2>3, <3>2
      <4>2. rank[up[j]] < rank[j] /\ rank[j] \in Nat /\ rank[up[j]] \in Nat /\ rank[first] \in Nat
        BY <1>2, <1>3, <2>1, <4>1 DEF Ranked
      <4>3. QED
        BY <4>1, <4>2
    <3>3. QED
      BY <3>1, <3>2
  <2> HIDE DEF high
  <2>4. QED
    BY <2>2, <2>3 DEF Ranked
<1>9. Forest(down)
  <2> HIDE DEF g, high
  <2>1. QED
    BY <1>4, <1>7, <1>8 DEF Forest
<1>10. ASSUME NEW j \in Tiles
       PROVE  Root(down, j) = IF Root(up, j) \in roots THEN first ELSE Root(up, j)
  <2>1. Root(up, j) = f[j]
    BY <1>1, RootIsTop
  <2>2. g[j] = IF f[j] \in roots THEN first ELSE f[j]
    OBVIOUS
  <2> HIDE DEF g
  <2>3. Root(down, j) = g[j]
    BY <1>7, <1>9, RootIsTop
  <2>4. QED
    BY <2>1, <2>2, <2>3
<1>11. QED
  BY <1>9, <1>10

-----------------------------------------------------------------------------
\* Numbers.

(* Whole numbers closer than n have quotients by n that differ by one.     *)
LEMMA CloseQuotients ==
    ASSUME NEW x \in Int, NEW y \in Int, NEW n \in Nat, n > 0, x - y < n, y - x < n
    PROVE  y \div n \in (x \div n) - 1 .. (x \div n) + 1
<1> DEFINE p == x \div n
           q == y \div n
<1>1. p \in Int /\ q \in Int
  OBVIOUS
<1>2. n * p <= x /\ x < n * p + n /\ n * q <= y /\ y < n * q + n
  OBVIOUS
<1> HIDE DEF p, q
<1>3. n * q - n * p < 2 * n /\ n * p - n * q < 2 * n
  BY <1>1, <1>2
<1>4. ~(q >= p + 2)
  BY <1>1, <1>3
<1>5. ~(p >= q + 2)
  BY <1>1, <1>3
<1>6. q \in p - 1 .. p + 1
  BY <1>1, <1>4, <1>5
<1>7. QED
  BY <1>6 DEF p, q

(* A side of a right triangle is shorter than what is longer than its      *)
(* hypotenuse.                                                             *)
LEMMA ShortSide ==
    ASSUME NEW a \in Int, NEW b \in Int, NEW n \in Nat, a * a + b * b < n * n
    PROVE  a < n /\ -a < n
<1>1. b * b >= 0
  OBVIOUS
<1>2. a * a < n * n
  <2>1. a * a \in Int /\ b * b \in Int /\ n * n \in Int
    OBVIOUS
  <2>2. QED
    BY <1>1, <2>1
<1>3. ~(a >= n)
  BY <1>2
<1>4. ~(-a >= n)
  BY <1>2
<1>5. QED
  BY <1>3, <1>4

-----------------------------------------------------------------------------
\* Placing.

(* Fullness is compared by cross products; with targets above zero the     *)
(* comparison is transitive.                                               *)
LEMMA CrossProducts ==
    ASSUME NEW a \in Nat, NEW b \in Nat, NEW c \in Nat,
           NEW p \in Nat, NEW q \in Nat, NEW r \in Nat, p > 0, q > 0, r > 0,
           a * q <= b * p, b * r <= c * q
    PROVE  /\ a * r <= c * p
           /\ (a * r = c * p) => (a * q = b * p /\ b * r = c * q)
<1>1. (a * q) * r <= (b * p) * r /\ (b * r) * p <= (c * q) * p
  OBVIOUS
<1>2. (a * q) * r = (a * r) * q /\ (b * p) * r = (b * r) * p /\ (c * q) * p = (c * p) * q
  OBVIOUS
<1>3. (a * r) * q <= (c * p) * q
  <2>1. /\ (a * r) * q \in Nat /\ (c * p) * q \in Nat
        /\ (b * p) * r \in Nat /\ (b * r) * p \in Nat
    OBVIOUS
  <2>2. QED
    BY <1>1, <1>2, <2>1
<1>4. a * r \in Nat /\ c * p \in Nat
  OBVIOUS
<1>5. ~(a * r > c * p)
  <2> DEFINE x == a * r
             y == c * p
  <2>1. x \in Nat /\ y \in Nat /\ x * q <= y * q
    BY <1>3
  <2> HIDE DEF x, y
  <2>2. ~(x > y)
    BY <2>1
  <2>3. QED
    BY <2>2 DEF x, y
<1>6. ASSUME a * r = c * p PROVE a * q = b * p /\ b * r = c * q
  <2>1. (a * q) * r = (b * p) * r /\ (b * r) * p = (c * q) * p
    <3>1. (a * r) * q = (c * p) * q
      BY <1>6
    <3>2. /\ (a * q) * r \in Nat /\ (b * p) * r \in Nat
          /\ (b * r) * p \in Nat /\ (c * q) * p \in Nat
      OBVIOUS
    <3>3. QED
      BY <1>1, <1>2, <3>1, <3>2
  <2>2. ASSUME NEW x \in Nat, NEW y \in Nat, NEW z \in Nat, z > 0, x * z = y * z
        PROVE x = y
    BY <2>2
  <2>3. a * q \in Nat /\ b * p \in Nat /\ b * r \in Nat /\ c * q \in Nat
    OBVIOUS
  <2>4. QED
    BY <2>1, <2>2, <2>3
<1>7. QED
  BY <1>4, <1>5, <1>6

(* Of some splits, compared by a total and transitive relation, one comes  *)
(* before all.                                                             *)
LEMMA FirstOfSplits ==
    ASSUME NEW some \in SUBSET Splits, some # {}, NEW rel,
           \A s, u \in some : <<s, u>> \in rel \/ <<u, s>> \in rel,
           \A s, u, v \in some :
               <<s, u>> \in rel /\ <<u, v>> \in rel => <<s, v>> \in rel
    PROVE  \E s \in some : \A u \in some : <<s, u>> \in rel
<1> SUFFICES ASSUME \A s \in some : \E u \in some : <<s, u>> \notin rel PROVE FALSE
  OBVIOUS
<1>1. PICK a \in some : TRUE
  OBVIOUS
<1>2. PICK b \in some : <<a, b>> \notin rel
  OBVIOUS
<1>3. PICK c \in some : <<b, c>> \notin rel
  OBVIOUS
<1>4. PICK d \in some : <<c, d>> \notin rel
  OBVIOUS
<1>5. <<b, a>> \in rel /\ <<c, b>> \in rel /\ <<c, a>> \in rel
  BY <1>2, <1>3
<1>6. a # b /\ a # c /\ b # c /\ d # a /\ d # b /\ d # c
  BY <1>2, <1>3, <1>4, <1>5
<1>7. QED
  BY <1>6 DEF Splits

(* What a state says about the configuration and the split.                *)
Typed ==
    /\ TypeOK
    /\ mode \in GroupedModes \cup {"random_tile"}
    /\ ratio \in Ratios
    /\ links \in [Tiles -> SUBSET Sources]

(* The members of a split are counted by a natural.                        *)
LEMMA Countable ==
    ASSUME Sound, NEW sp, NEW s
    PROVE  IsFiniteSet(Members(sp, s)) /\ Cardinality(Members(sp, s)) \in Nat
<1>1. Members(sp, s) \subseteq Tiles
  BY DEF Members
<1>2. QED
  BY <1>1, FS_Subset, FS_CardinalityType DEF Sound

(* A group that is not placed has a split to go to.                        *)
LEMMA LeastFullExists ==
    ASSUME Sound, Typed
    PROVE  LeastFull \in Splits
<1>1. \A s \in Splits : Count(s) \in Nat
  BY Countable DEF Count
<1>2. \A s \in Splits : Target(s) \in Int
  <2>1. NumTiles \in Nat
    BY FS_CardinalityType DEF Sound, NumTiles
  <2>2. ratio[1] \in Nat /\ ratio[2] \in Nat
    BY DEF Typed, Sound
  <2>3. NumTiles * ratio[1] \in Nat /\ NumTiles * ratio[2] \in Nat
    BY <2>1, <2>2
  <2>4. (NumTiles * ratio[1]) \div 100 \in Int /\ (NumTiles * ratio[2]) \div 100 \in Int
    BY <2>3
  <2>5. QED
    BY <2>1, <2>4 DEF Target, Splits
<1>3. Wanted \in SUBSET Splits /\ Wanted # {}
  BY DEF Wanted, Splits
<1> DEFINE rel == {p \in Splits \X Splits : LessFull(p[1], p[2])}
<1>4. \A s, u \in Splits : <<s, u>> \in rel <=> LessFull(s, u)
  OBVIOUS
<1>5. \A s \in Splits : Rank(s) \in 1..3
  BY DEF Splits, Rank
<1>6. ASSUME NEW s \in Wanted, NEW u \in Wanted PROVE LessFull(s, u) \/ LessFull(u, s)
  <2>1. Count(s) * Target(u) \in Int /\ Count(u) * Target(s) \in Int
    BY <1>1, <1>2, <1>3
  <2>2. Target(s) \in Int /\ Target(u) \in Int /\ Rank(s) \in Int /\ Rank(u) \in Int
    BY <1>2, <1>3, <1>5
  <2>3. QED
    BY <2>1, <2>2 DEF LessFull
<1>7. ASSUME NEW s \in Wanted, NEW u \in Wanted, NEW v \in Wanted,
             LessFull(s, u), LessFull(u, v)
      PROVE  LessFull(s, v)
  <2>1. CASE {q \in Splits : Target(q) > 0} = {}
    BY <1>7, <2>1 DEF Wanted
  <2>2. CASE {q \in Splits : Target(q) > 0} # {}
    <3>1. \A q \in {s, u, v} : Target(q) \in Nat /\ Target(q) > 0 /\ Count(q) \in Nat
      BY <1>1, <1>2, <2>2 DEF Wanted
    <3>2. \A q \in {s, u, v} : Rank(q) \in Nat
      BY <1>3, <1>5
    <3>3. /\ Count(s) * Target(u) \in Nat /\ Count(u) * Target(s) \in Nat
          /\ Count(u) * Target(v) \in Nat /\ Count(v) * Target(u) \in Nat
          /\ Count(s) * Target(v) \in Nat /\ Count(v) * Target(s) \in Nat
      BY <3>1
    <3>4. /\ Count(s) * Target(u) <= Count(u) * Target(s)
          /\ Count(u) * Target(v) <= Count(v) * Target(u)
      BY <1>7, <3>3 DEF LessFull
    <3>5. /\ Count(s) * Target(v) <= Count(v) * Target(s)
          /\ (Count(s) * Target(v) = Count(v) * Target(s)) =>
                 /\ Count(s) * Target(u) = Count(u) * Target(s)
                 /\ Count(u) * Target(v) = Count(v) * Target(u)
      BY <3>1, <3>4, CrossProducts
    <3>6. QED
      BY <1>7, <3>1, <3>2, <3>3, <3>5 DEF LessFull
  <2>3. QED
    BY <2>1, <2>2
<1>8. \E s \in Wanted : \A u \in Wanted : <<s, u>> \in rel
  <2>1. \A s, u \in Wanted : <<s, u>> \in rel \/ <<u, s>> \in rel
    BY <1>3, <1>4, <1>6
  <2>2. \A s, u, v \in Wanted : <<s, u>> \in rel /\ <<u, v>> \in rel => <<s, v>> \in rel
    BY <1>3, <1>4, <1>7
  <2> HIDE DEF rel
  <2>3. QED
    BY <1>3, <2>1, <2>2, FirstOfSplits
<1>9. LeastFull \in Wanted
  BY <1>3, <1>4, <1>8 DEF LeastFull
<1>10. QED
  BY <1>3, <1>9

-----------------------------------------------------------------------------
\* The invariant.

(* The modes that keep what shares a source together.                      *)
Grouped == mode \in GroupedModes

(* The groups of one source have one root.                                 *)
Merged(s) ==
    \A t, u \in Tiles :
        s \in links[t] /\ s \in links[u] => Root(parents, First(t)) = Root(parents, First(u))

(* That holds of each source already merged.                               *)
MergedSoFar ==
    stage = "merge" =>
        /\ Grouped
        /\ \A t \in Tiles : split[t] = Unplaced
        /\ \A s \in Sources \ unmerged : Merged(s)

(* Tiles that share a source are in one group, whose tiles go together     *)
(* until the belt is cut out of it.                                        *)
GroupsShare ==
    (stage # "merge" /\ Grouped) =>
        \A t, u \in Tiles : links[t] \cap links[u] # {} => group[t] = group[u]

(* Whole groups: a group is in one split.                                  *)
Together(sp) == \A t, u \in Tiles : group[t] = group[u] => sp[t] = sp[u]

(* Groups are placed whole; the belt only drops tiles from them.           *)
GroupsWhole == Grouped =>
    /\ stage # "done" => Together(split)
    /\ stage = "done" =>
          \A t, u \in Tiles : (group[t] = group[u] /\ split[t] # Dropped /\ split[u] # Dropped)
                                  => split[t] = split[u]

(* Nothing is dropped before the belt is cut.                              *)
Placeable == stage # "done" => \A t \in Tiles : split[t] # Dropped

(* No train tile is left near a hold-out one.                              *)
BeltIsCut ==
    (stage = "done" /\ mode \in SpatialModes /\ BufferTiles > 0) =>
        \A t, u \in Tiles :
            (split[t] = "train" /\ split[u] \in {"val", "test"} /\ Located(t) /\ Located(u))
                => ~Near(t, u)

(* The inductive invariant.                                                *)
Inv ==
    /\ Typed
    /\ Forest(parents)
    /\ MergedSoFar
    /\ GroupsShare
    /\ GroupsWhole
    /\ Placeable
    /\ BeltIsCut

(* The invariant shows the property.                                       *)
LEMMA InvLeaks == ASSUME Sound, Inv PROVE NothingLeaks
<1> SUFFICES ASSUME stage = "done", Grouped, NEW t \in Tiles, NEW u \in Tiles,
                    split[t] \in Splits, split[u] \in Splits, split[t] # split[u]
             PROVE  /\ links[t] \cap links[u] = {}
                    /\ (mode \in SpatialModes /\ BufferTiles > 0
                        /\ "train" \in {split[t], split[u]} /\ Located(t) /\ Located(u))
                           => ~Near(t, u)
  BY DEF NothingLeaks, Grouped
<1>1. split[t] # Dropped /\ split[u] # Dropped
  BY DEF Splits, Dropped
<1>2. group[t] # group[u]
  BY <1>1 DEF Inv, GroupsWhole
<1>3. links[t] \cap links[u] = {}
  BY <1>2 DEF Inv, GroupsShare
<1>4. ASSUME mode \in SpatialModes, BufferTiles > 0, "train" \in {split[t], split[u]},
             Located(t), Located(u)
      PROVE  ~Near(t, u)
  <2>1. CASE split[t] = "train"
    <3>1. split[u] \in {"val", "test"}
      BY <2>1 DEF Splits
    <3>2. QED
      BY <1>4, <2>1, <3>1 DEF Inv, BeltIsCut
  <2>2. CASE split[u] = "train"
    <3>1. split[t] \in {"val", "test"}
      BY <2>2 DEF Splits
    <3>2. ~Near(u, t)
      BY <1>4, <2>2, <3>1 DEF Inv, BeltIsCut
    <3>3. Near(t, u) <=> Near(u, t)
      <4>1. ASSUME NEW a \in Int, NEW b \in Int PROVE Square(a - b) = Square(b - a)
        BY DEF Square
      <4>2. QED
        BY <4>1 DEF Near, Sound
    <3>4. QED
      BY <3>2, <3>3
  <2>3. QED
    BY <1>4, <2>1, <2>2
<1>5. QED
  BY <1>3, <1>4

(* No tile has been merged or placed.                                      *)
LEMMA InitInv == ASSUME Sound, Init PROVE Inv
<1>1. Typed
  <2>1. links \in [Tiles -> SUBSET Sources]
    BY DEF Init
  <2>2. TypeOK
    BY DEF Init, TypeOK
  <2>3. QED
    BY <2>1, <2>2 DEF Init, Typed
<1>2. Forest(parents)
  <2> DEFINE self == [j \in Tiles |-> j]
             low == [j \in Tiles |-> 0]
  <2>1. parents = self
    BY DEF Init
  <2>2. Tops(self, parents)
    BY <2>1 DEF Tops
  <2>3. Ranked(low, parents)
    BY <2>1 DEF Ranked
  <2>4. parents \in [Tiles -> Tiles]
    BY <2>1
  <2> HIDE DEF self, low
  <2>5. QED
    BY <2>2, <2>3, <2>4 DEF Forest
<1>3. MergedSoFar
  BY DEF Init, MergedSoFar, Grouped
<1>4. GroupsShare /\ GroupsWhole /\ Placeable /\ BeltIsCut
  BY DEF Init, GroupsShare, GroupsWhole, Grouped, Placeable, Dropped, Unplaced, BeltIsCut, Together
<1>5. QED
  BY <1>1, <1>2, <1>3, <1>4 DEF Inv

(* A tile is in its own group, which has a first tile.                     *)
LEMMA FirstExists ==
    ASSUME Sound, NEW t \in Tiles
    PROVE  First(t) \in Tiles
<1> DEFINE S == {u \in Tiles : SameGroup(t, u)}
<1>1. SameGroup(t, t)
  BY DEF SameGroup
<1>2. S \in SUBSET Nat /\ S # {} /\ S \subseteq Tiles
  BY <1>1 DEF Sound
<1>3. \E n \in S : \A m \in S : n <= m
  <2> HIDE DEF S
  <2>1. QED
    BY <1>2, LeastExists
<1>4. First(t) = Min(S)
  BY DEF First
<1> HIDE DEF S
<1>5. Min(S) \in S
  BY <1>3 DEF Min
<1>6. QED
  BY <1>2, <1>4, <1>5

(* Uniting groups joins their roots and parts nothing.                     *)
LEMMA UnionJoins ==
    ASSUME Sound, Forest(parents), NEW gs \in SUBSET Tiles, gs # {}
    PROVE  /\ Forest(Union(gs))
           /\ \A g, h \in gs : Root(Union(gs), g) = Root(Union(gs), h)
           /\ \A i, j \in Tiles :
                Root(parents, i) = Root(parents, j) => Root(Union(gs), i) = Root(Union(gs), j)
<1> DEFINE roots == {Root(parents, g) : g \in gs}
           first == Root(parents, Min(gs))
<1>1. Min(gs) \in gs
  <2>1. gs \in SUBSET Nat
    BY DEF Sound
  <2>2. QED
    BY <2>1, LeastExists DEF Min
<1>2. \A j \in Tiles : Root(parents, j) \in Tiles /\ parents[Root(parents, j)] = Root(parents, j)
  <2>1. PICK f : Tops(f, parents)
    BY DEF Forest
  <2>2. QED
    BY <2>1, RootIsTop, TopsAreRoots
<1>3. roots \in SUBSET Tiles /\ first \in roots /\ \A i \in roots : parents[i] = i
  BY <1>1, <1>2
<1>4. Union(gs) = [i \in Tiles |-> IF i \in roots THEN first ELSE parents[i]]
  BY DEF Union
<1>5. \A g \in gs : Root(parents, g) \in roots
  OBVIOUS
<1> HIDE DEF roots, first
<1>6. /\ Forest(Union(gs))
      /\ \A j \in Tiles : Root(Union(gs), j)
             = IF Root(parents, j) \in roots THEN first ELSE Root(parents, j)
  BY <1>3, <1>4, Hang
<1>7. QED
  BY <1>5, <1>6

(* Merging the groups of one source keeps the invariant.                   *)
LEMMA MergeKeeps ==
    ASSUME Sound, Inv, NEW s \in Sources, MergeSource(s)
    PROVE  Inv'
<1> DEFINE gs == {First(t) : t \in {u \in Tiles : s \in links[u]}}
<1>1. /\ stage = "merge" /\ s \in unmerged
      /\ unmerged' = unmerged \ {s}
      /\ parents' = IF gs = {} THEN parents ELSE Union(gs)
      /\ stage' = IF unmerged' = {} THEN "place" ELSE "merge"
      /\ group' = IF unmerged' = {}
                  THEN [t \in Tiles |-> Root(parents', First(t))] ELSE group
      /\ UNCHANGED <<mode, ratio, geo, links, split>>
  BY DEF MergeSource
<1>2. \A t \in Tiles : First(t) \in Tiles
  BY FirstExists
<1>3. \A t \in Tiles : First(t)' = First(t)
  BY <1>1 DEF First, SameGroup, Located, GeoBlock
<1>4. gs \in SUBSET Tiles
  BY <1>2
<1>5. \A t \in Tiles : s \in links[t] => First(t) \in gs
  OBVIOUS
<1> HIDE DEF gs
<1>6. Forest(parents)
  BY DEF Inv
<1>7. /\ Forest(parents')
      /\ \A g, h \in gs : Root(parents', g) = Root(parents', h)
      /\ \A i, j \in Tiles :
           Root(parents, i) = Root(parents, j) => Root(parents', i) = Root(parents', j)
  <2>1. CASE gs = {}
    BY <1>1, <1>6, <2>1
  <2>2. CASE gs # {}
    <3>1. parents' = Union(gs)
      BY <1>1, <2>2
    <3>2. /\ Forest(Union(gs))
          /\ \A g, h \in gs : Root(Union(gs), g) = Root(Union(gs), h)
          /\ \A i, j \in Tiles :
               Root(parents, i) = Root(parents, j) => Root(Union(gs), i) = Root(Union(gs), j)
      BY <1>4, <1>6, <2>2, UnionJoins
    <3>3. QED
      BY <3>1, <3>2
  <2>3. QED
    BY <2>1, <2>2
<1>8. \A j \in Tiles : Root(parents', j) \in Tiles
  <2>1. PICK f : Tops(f, parents')
    BY <1>7 DEF Forest
  <2>2. QED
    BY <1>7, <2>1, RootIsTop, TopsAreRoots
<1>9. ASSUME NEW q \in Sources \ unmerged', NEW t \in Tiles, NEW u \in Tiles,
             q \in links[t], q \in links[u]
      PROVE  Root(parents', First(t)) = Root(parents', First(u))
  <2>1. CASE q = s
    BY <1>5, <1>7, <1>9, <2>1
  <2>2. CASE q # s
    <3>1. Root(parents, First(t)) = Root(parents, First(u))
      BY <1>1, <1>9, <2>2 DEF Inv, MergedSoFar, Merged
    <3>2. QED
      BY <1>2, <1>7, <3>1
  <2>3. QED
    BY <2>1, <2>2
<1>10. Typed'
  <2>1. TypeOK'
    <3>1. TypeOK
      BY DEF Inv, Typed
    <3>2. group' \in [Tiles -> Tiles]
      BY <1>1, <1>2, <1>8, <3>1 DEF TypeOK
    <3>3. stage' \in {"merge", "place"} /\ unmerged' \subseteq Sources /\ parents' \in [Tiles -> Tiles]
      BY <1>1, <1>7, <3>1 DEF TypeOK, Forest
    <3>4. QED
      BY <1>1, <3>1, <3>2, <3>3 DEF TypeOK
  <2>2. QED
    BY <1>1, <2>1 DEF Inv, Typed
<1>11. Grouped /\ Grouped' /\ \A t \in Tiles : split[t] = Unplaced
  BY <1>1 DEF Inv, MergedSoFar, Grouped
<1>12. MergedSoFar'
  <2>1. \A q \in Sources \ unmerged' : Merged(q)'
    BY <1>1, <1>3, <1>9 DEF Merged
  <2>2. QED
    BY <1>1, <1>11, <2>1 DEF MergedSoFar
<1>13. GroupsShare'
  <2> SUFFICES ASSUME stage' # "merge", NEW t \in Tiles, NEW u \in Tiles,
                      links[t] \cap links[u] # {}
               PROVE  group'[t] = group'[u]
    BY <1>1 DEF GroupsShare
  <2>1. unmerged' = {}
    BY <1>1
  <2>2. PICK q : q \in links[t] /\ q \in links[u]
    OBVIOUS
  <2>3. q \in Sources
    BY <2>2 DEF Inv, Typed
  <2>4. Root(parents', First(t)) = Root(parents', First(u))
    BY <1>9, <2>1, <2>2, <2>3
  <2>5. QED
    BY <1>1, <2>1, <2>4
<1>14. GroupsWhole' /\ Placeable' /\ BeltIsCut'
  BY <1>1, <1>11 DEF GroupsWhole, Placeable, Dropped, Unplaced, BeltIsCut, Together
<1>15. QED
  BY <1>7, <1>10, <1>12, <1>13, <1>14 DEF Inv

(* A test split that gets a group from a donor gets all of it.             *)
LEMMA DonorGivesGroups ==
    ASSUME NEW sp \in [Tiles -> Splits], Together(sp), NEW new \in WithTest(sp)
    PROVE  new \in [Tiles -> Splits] /\ Together(new)
<1> DEFINE moved(r) == [t \in Tiles |-> IF t \in Group(r) THEN "test" ELSE sp[t]]
<1>1. new = sp \/ \E r : new = moved(r)
  BY DEF WithTest
<1>2. ASSUME NEW r PROVE moved(r) \in [Tiles -> Splits] /\ Together(moved(r))
  <2>1. \A t \in Tiles : t \in Group(r) <=> group[t] = r
    BY DEF Group
  <2>2. moved(r) \in [Tiles -> Splits]
    BY DEF Splits
  <2>3. QED
    BY <2>1, <2>2 DEF Together
<1>3. QED
  BY <1>1, <1>2

(* What the placing steps share: whole groups stay whole, and the belt is  *)
(* not yet cut.                                                            *)
LEMMA PlacingKeeps ==
    ASSUME Sound, Inv, stage = "place", stage' \in {"place", "buffer"},
           UNCHANGED <<mode, ratio, geo, links, parents, unmerged, group>>,
           split' \in [Tiles -> Splits \cup {Unplaced}],
           stage' = "buffer" => split' \in [Tiles -> Splits],
           Grouped => Together(split')
    PROVE  Inv'
<1>1. Typed'
  <2>1. stage' = "buffer" => \A t \in Tiles : split'[t] # Unplaced
    BY DEF Splits, Unplaced
  <2>2. TypeOK'
    BY <2>1 DEF Inv, Typed, TypeOK
  <2>3. QED
    BY <2>2 DEF Inv, Typed
<1>2. Forest(parents')
  BY DEF Inv
<1>3. MergedSoFar' /\ Placeable' /\ BeltIsCut'
  BY DEF MergedSoFar, Placeable, Dropped, Unplaced, Splits, BeltIsCut
<1>4. GroupsShare'
  BY DEF Inv, GroupsShare, Grouped
<1>5. GroupsWhole'
  BY DEF GroupsWhole, Grouped, Together
<1>6. QED
  BY <1>1, <1>2, <1>3, <1>4, <1>5 DEF Inv

(* Placing a group keeps the invariant: the group goes whole, and the last *)
(* one leaves nothing unplaced.                                            *)
LEMMA GroupKeeps ==
    ASSUME Sound, Inv, NEW r \in Tiles, PlaceGroup(r)
    PROVE  Inv'
<1> DEFINE sp == Placed(r, LeastFull)
<1>1. /\ stage = "place" /\ Grouped
      /\ IF Left = {r} THEN split' \in WithTest(sp) /\ stage' = "buffer"
                       ELSE split' = sp /\ stage' = "place"
      /\ UNCHANGED <<mode, ratio, geo, links, parents, unmerged, group>>
  BY DEF PlaceGroup, Grouped
<1>2. LeastFull \in Splits
  BY LeastFullExists DEF Inv
<1>3. TypeOK /\ Together(split)
  BY <1>1 DEF Inv, Typed, GroupsWhole
<1>4. \A t \in Tiles : split[t] # Dropped
  BY <1>1 DEF Inv, Placeable
<1>5. sp = [t \in Tiles |-> IF group[t] = r THEN LeastFull ELSE split[t]]
  BY DEF Placed, Group
<1> HIDE DEF sp
<1>6. sp \in [Tiles -> Splits \cup {Unplaced}] /\ Together(sp)
  <2>1. \A t \in Tiles : split[t] \in Splits \cup {Unplaced}
    BY <1>3, <1>4 DEF TypeOK
  <2>2. QED
    BY <1>2, <1>3, <1>5, <2>1 DEF Together
<1>7. CASE Left = {r}
  <2>1. ASSUME NEW t \in Tiles PROVE sp[t] \in Splits
    <3>1. CASE split[t] = Unplaced
      <4>1. group[t] \in Left
        BY <3>1 DEF Left, Members
      <4>2. QED
        BY <1>2, <1>5, <1>7, <4>1
    <3>2. CASE split[t] # Unplaced
      BY <1>2, <1>3, <1>4, <1>5, <3>2 DEF TypeOK
    <3>3. QED
      BY <3>1, <3>2
  <2>2. sp \in [Tiles -> Splits]
    BY <1>6, <2>1
  <2>3. split' \in [Tiles -> Splits] /\ Together(split')
    BY <1>1, <1>6, <1>7, <2>2, DonorGivesGroups
  <2>4. stage' = "buffer"
    BY <1>1, <1>7
  <2>5. split' \in [Tiles -> Splits \cup {Unplaced}]
    BY <2>3
  <2>6. QED
    BY <1>1, <2>3, <2>4, <2>5, PlacingKeeps
<1>8. CASE Left # {r}
  <2>1. split' = sp /\ stage' = "place"
    BY <1>1, <1>8
  <2>2. QED
    BY <1>1, <1>6, <2>1, PlacingKeeps
<1>9. QED
  BY <1>7, <1>8

(* So does placing all groups by their classes.                            *)
LEMMA BalancedKeeps == ASSUME Sound, Inv, PlaceBalanced PROVE Inv'
<1>1. PICK choice \in [Roots -> Splits] : split' = [t \in Tiles |-> choice[group[t]]]
  BY DEF PlaceBalanced
<1>2. stage = "place" /\ stage' = "buffer"
      /\ UNCHANGED <<mode, ratio, geo, links, parents, unmerged, group>>
  BY DEF PlaceBalanced
<1>3. \A t \in Tiles : group[t] \in Roots
  BY DEF Roots
<1>4. split' \in [Tiles -> Splits] /\ Together(split')
  BY <1>1, <1>3 DEF Together
<1>5. split' \in [Tiles -> Splits \cup {Unplaced}]
  BY <1>4
<1>6. QED
  BY <1>2, <1>4, <1>5, PlacingKeeps

(* So does the random cut, which promises nothing of groups.               *)
LEMMA RandomKeeps == ASSUME Sound, Inv, PlaceRandom PROVE Inv'
<1>1. stage = "place" /\ stage' = "buffer" /\ mode = "random_tile"
      /\ UNCHANGED <<mode, ratio, geo, links, parents, unmerged, group>>
  BY DEF PlaceRandom
<1>2. split' \in [Tiles -> Splits]
  BY DEF PlaceRandom
<1>3. ~Grouped
  BY <1>1 DEF Grouped, GroupedModes, SpatialModes
<1>4. split' \in [Tiles -> Splits \cup {Unplaced}]
  BY <1>2
<1>5. QED
  BY <1>1, <1>2, <1>3, <1>4, PlacingKeeps

(* A hold-out tile nearer than the buffer is in one of the nine cells the  *)
(* lookup searches.                                                        *)
LEMMA NearIsSearched ==
    ASSUME Sound, BufferTiles > 0, NEW t \in Tiles, NEW u \in Tiles, Near(t, u)
    PROVE  Cell(u) \in Searched(t)
<1>1. Buffer \in Nat /\ Buffer > 0
  BY DEF Sound, Buffer, Span
<1> DEFINE tx == TileInfo[t].x
           ty == TileInfo[t].y
           ux == TileInfo[u].x
           uy == TileInfo[u].y
<1>2. tx \in Int /\ ty \in Int /\ ux \in Int /\ uy \in Int
  BY DEF Sound
<1>3. (tx - ux) * (tx - ux) + (ty - uy) * (ty - uy) < Buffer * Buffer
  BY DEF Near, Square
<1>4. Cell(u)[1] = ux \div Buffer /\ Cell(u)[2] = uy \div Buffer
  BY DEF Cell
<1>5. Cell(t)[1] = tx \div Buffer /\ Cell(t)[2] = ty \div Buffer
  BY DEF Cell
<1>6. Cell(u) = <<ux \div Buffer, uy \div Buffer>>
  BY DEF Cell
<1> HIDE DEF tx, ty, ux, uy
<1>7. tx - ux < Buffer /\ ux - tx < Buffer
  <2>1. tx - ux \in Int /\ ty - uy \in Int
    BY <1>2
  <2>2. tx - ux < Buffer /\ -(tx - ux) < Buffer
    BY <1>1, <1>3, <2>1, ShortSide
  <2>3. QED
    BY <1>2, <2>2
<1>8. ty - uy < Buffer /\ uy - ty < Buffer
  <2>1. tx - ux \in Int /\ ty - uy \in Int
    BY <1>2
  <2>2. (ty - uy) * (ty - uy) + (tx - ux) * (tx - ux) < Buffer * Buffer
    <3>1. (tx - ux) * (tx - ux) \in Int /\ (ty - uy) * (ty - uy) \in Int
      BY <2>1
    <3>2. QED
      BY <1>3, <3>1
  <2>3. ty - uy < Buffer /\ -(ty - uy) < Buffer
    BY <1>1, <2>1, <2>2, ShortSide
  <2>4. QED
    BY <1>2, <2>3
<1>9. ux \div Buffer \in (tx \div Buffer) - 1 .. (tx \div Buffer) + 1
  BY <1>1, <1>2, <1>7, CloseQuotients
<1>10. uy \div Buffer \in (ty \div Buffer) - 1 .. (ty \div Buffer) + 1
  BY <1>1, <1>2, <1>8, CloseQuotients
<1>11. QED
  BY <1>5, <1>6, <1>9, <1>10 DEF Searched, Neighbours

(* Cutting the belt drops every train tile that is too near, and moves     *)
(* none to another split.                                                  *)
LEMMA BufferKeeps == ASSUME Sound, Inv, ApplyBuffer PROVE Inv'
<1>1. /\ stage = "buffer" /\ stage' = "done"
      /\ UNCHANGED <<mode, ratio, geo, links, parents, unmerged, group>>
      /\ split' = IF mode \in SpatialModes /\ BufferTiles > 0
                  THEN [t \in Tiles |->
                           IF split[t] = "train" /\ Located(t) /\ TooClose(t)
                           THEN Dropped ELSE split[t]]
                  ELSE split
  BY DEF ApplyBuffer
<1>2. TypeOK /\ \A t \in Tiles : split[t] # Unplaced
  BY <1>1 DEF Inv, Typed, TypeOK
<1>3. split \in [Tiles -> Splits \cup {Unplaced, Dropped}]
  BY <1>2 DEF TypeOK
<1>4. \A t \in Tiles :
         /\ split'[t] \in {split[t], Dropped}
         /\ split'[t] # split[t] => split[t] = "train"
         /\ (mode \in SpatialModes /\ BufferTiles > 0 /\ split[t] = "train"
                /\ Located(t) /\ TooClose(t)) => split'[t] = Dropped
  BY <1>1, <1>3
<1>5. Typed'
  <2>1. split' \in [Tiles -> Splits \cup {Unplaced, Dropped}]
    BY <1>1, <1>3
  <2>2. \A t \in Tiles : split'[t] # Unplaced
    BY <1>2, <1>4 DEF Unplaced, Dropped
  <2>3. TypeOK'
    BY <1>1, <1>2, <2>1, <2>2 DEF TypeOK
  <2>4. QED
    BY <1>1, <2>3 DEF Inv, Typed
<1>6. Forest(parents') /\ MergedSoFar' /\ GroupsShare' /\ Placeable'
  BY <1>1 DEF Inv, MergedSoFar, GroupsShare, Grouped, Placeable
<1>7. GroupsWhole'
  <2>1. Grouped => Together(split)
    BY <1>1 DEF Inv, GroupsWhole
  <2>2. QED
    BY <1>1, <1>4, <2>1 DEF GroupsWhole, Grouped, Together
<1>8. BeltIsCut'
  <2> SUFFICES ASSUME mode \in SpatialModes, BufferTiles > 0,
                      NEW t \in Tiles, NEW u \in Tiles,
                      split'[t] = "train", split'[u] \in {"val", "test"},
                      Located(t), Located(u), Near(t, u)
               PROVE  FALSE
    BY <1>1 DEF BeltIsCut, Located
  <2>1. split[t] = "train" /\ split[u] \in {"val", "test"}
    BY <1>4 DEF Dropped
  <2>2. Cell(u) \in Searched(t)
    BY NearIsSearched
  <2>3. TooClose(t)
    BY <2>1, <2>2 DEF TooClose
  <2>4. split'[t] = Dropped
    BY <1>4, <2>1, <2>3
  <2>5. QED
    BY <2>4 DEF Dropped
<1>9. QED
  BY <1>5, <1>6, <1>7, <1>8 DEF Inv

(* Every step keeps the invariant.                                         *)
LEMMA NextInv == ASSUME Sound, Inv, [Next]_vars PROVE Inv'
<1>1. CASE UNCHANGED vars
  <2>1. UNCHANGED <<mode, ratio, geo, links, parents, unmerged, group, split, stage>>
    BY <1>1 DEF vars
  <2>2. \A t \in Tiles : First(t)' = First(t)
    BY <2>1 DEF First, SameGroup, Located, GeoBlock
  <2>3. Typed' /\ Forest(parents') /\ GroupsShare' /\ GroupsWhole' /\ Placeable'
    BY <2>1 DEF Inv, Typed, TypeOK, GroupsShare, GroupsWhole, Grouped, Together, Placeable
  <2>4. MergedSoFar'
    BY <2>1, <2>2 DEF Inv, MergedSoFar, Merged, Grouped
  <2>5. BeltIsCut'
    BY <2>1 DEF Inv, BeltIsCut, Located
  <2>6. QED
    BY <2>3, <2>4, <2>5 DEF Inv
<1>2. ASSUME NEW s \in Sources, MergeSource(s) PROVE Inv'
  BY <1>2, MergeKeeps
<1>3. ASSUME NEW r \in Tiles, PlaceGroup(r) PROVE Inv'
  BY <1>3, GroupKeeps
<1>4. ASSUME PlaceBalanced PROVE Inv'
  BY <1>4, BalancedKeeps
<1>5. ASSUME PlaceRandom PROVE Inv'
  BY <1>5, RandomKeeps
<1>6. ASSUME ApplyBuffer PROVE Inv'
  BY <1>6, BufferKeeps
<1>7. QED
  BY <1>1, <1>2, <1>3, <1>4, <1>5, <1>6 DEF Next

(* Every tile ends in one split, or was dropped by the buffer.             *)
THEOREM SplitTypes == ASSUME Sound PROVE Spec => []TypeOK
<1>1. Init => Inv
  BY InitInv
<1>2. Inv /\ [Next]_vars => Inv'
  BY NextInv
<1>3. Inv => TypeOK
  BY DEF Inv, Typed
<1>4. QED
  BY <1>1, <1>2, <1>3, PTL DEF Spec

(* No source annotation has tiles in two splits, however the chain of      *)
(* shared sources runs through the groups, and no located train tile is    *)
(* left in the belt around val and test, for any tiles, sources, blocks    *)
(* and buffer (_merge_groups_by_source_annotations,                        *)
(* _apply_spatial_buffer).                                                 *)
THEOREM SplitsLeakNothing == ASSUME Sound PROVE Spec => []NothingLeaks
<1>1. Init => Inv
  BY InitInv
<1>2. Inv /\ [Next]_vars => Inv'
  BY NextInv
<1>3. Inv => NothingLeaks
  BY InvLeaks
<1>4. QED
  BY <1>1, <1>2, <1>3, PTL DEF Spec
=============================================================================
