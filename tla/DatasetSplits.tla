--------------------------- MODULE DatasetSplits ---------------------------
(***************************************************************************)
(* How the dataset builder splits tiles into train, val and test           *)
(* (services/dataset_builder.py): tiles are grouped by the mode's key,     *)
(* groups that share a source annotation are merged with a union-find,     *)
(* whole groups are placed into the splits, and in the spatial modes the   *)
(* train tiles in a belt around val and test are dropped.                  *)
(*                                                                         *)
(* Lengths are integers: half the span of a tile is one unit.  Spans are   *)
(* all equal, so their median is the span.  The class scores of the        *)
(* class-balanced mode are abstracted: it may place a group anywhere.      *)
(***************************************************************************)
EXTENDS Integers, FiniteSets, FiniteSetsExt

CONSTANTS
    Tiles,          \* 1 .. n, in the order of the list of tiles
    TileInfo,       \* of a tile: scene, col, row, and its centre x, y
    Scenes,         \* the scenes tiles come from
    Sources,        \* source annotations a tile's labels were cut from
    Ratios,         \* pairs of percentages: train and val
    BlockTiles,     \* DatasetConfig.block_size_tiles
    BufferTiles     \* DatasetConfig.spatial_buffer_tiles

VARIABLES
    mode,           \* DatasetConfig.split_mode
    ratio,          \* DatasetConfig.train_ratio, val_ratio
    geo,            \* scenes whose manifest has a geotransform and a CRS
    links,          \* tile -> sources of its annotations
    parents,        \* union-find over groups, each named by its first tile
    unmerged,       \* sources whose groups are not yet united
    group,          \* tile -> root of its merged group
    split,          \* tile -> split; Unplaced before, Dropped by the buffer
    stage           \* merge, place, buffer, done

vars == <<mode, ratio, geo, links, parents, unmerged, group, split, stage>>

Splits == {"train", "val", "test"}
Unplaced == "unplaced"
Dropped == "dropped"
SpatialModes == {"spatial_block_split", "class_balanced_spatial"}
GroupedModes == {"scene_split", "image_block_split"} \cup SpatialModes

----------------------------------------------------------------------------
\* Groups.

Span == 2
Located(t) == TileInfo[t].scene \in geo

ImageBlock(t) ==
    << TileInfo[t].scene,
       (TileInfo[t].col - 1) \div BlockTiles,
       (TileInfo[t].row - 1) \div BlockTiles >>

\* A tile without a position falls back to its block of the image.
GeoBlock(t) ==
    IF Located(t)
    THEN << "web-mercator", TileInfo[t].x \div (Span * BlockTiles),
                            TileInfo[t].y \div (Span * BlockTiles) >>
    ELSE << "image-fallback", ImageBlock(t) >>

SameGroup(t, u) ==
    CASE mode = "scene_split" -> TileInfo[t].scene = TileInfo[u].scene
      [] mode = "image_block_split" -> ImageBlock(t) = ImageBlock(u)
      [] OTHER -> Located(t) = Located(u) /\ GeoBlock(t) = GeoBlock(u)

First(t) == Min({u \in Tiles : SameGroup(t, u)})

\* The root above i in a forest of parents.
Root(up, i) ==
    LET find[j \in Tiles] == IF up[j] = j THEN j ELSE find[up[j]]
    IN  find[i]

Members(sp, s) == {t \in Tiles : sp[t] = s}
Group(r) == {t \in Tiles : group[t] = r}
Roots == {group[t] : t \in Tiles}
Left == {group[t] : t \in Members(split, Unplaced)}

----------------------------------------------------------------------------
\* Targets and counts.

NumTiles == Cardinality(Tiles)
Target(s) ==
    LET train == (NumTiles * ratio[1]) \div 100
        val == (NumTiles * ratio[2]) \div 100
    IN  CASE s = "train" -> train
          [] s = "val" -> val
          [] s = "test" -> NumTiles - train - val

Count(s) == Cardinality(Members(split, s))

Rank(s) == CASE s = "train" -> 1 [] s = "val" -> 2 [] s = "test" -> 3
Wanted == LET some == {s \in Splits : Target(s) > 0}
          IN  IF some = {} THEN {"train"} ELSE some

\* min over (counts / targets, -targets), the first of SPLITS on a tie.
LessFull(s, u) ==
    LET a == Count(s) * Target(u)
        b == Count(u) * Target(s)
    IN  \/ a < b
        \/ a = b /\ Target(s) > Target(u)
        \/ a = b /\ Target(s) = Target(u) /\ Rank(s) <= Rank(u)

LeastFull == CHOOSE s \in Wanted : \A u \in Wanted : LessFull(s, u)

\* The smallest group of the fuller donor goes to a test split left empty.
WithTest(sp) ==
    LET size(s) == Cardinality(Members(sp, s))
        donor == IF size("train") >= size("val") THEN "train" ELSE "val"
        given == {r \in Roots : sp[r] = donor}
        victims == {r \in given :
                       \A q \in given : Cardinality(Group(r)) <= Cardinality(Group(q))}
    IN  IF Target("test") > 0 /\ size("test") = 0 /\ Cardinality(given) >= 2
        THEN {[t \in Tiles |-> IF t \in Group(r) THEN "test" ELSE sp[t]] : r \in victims}
        ELSE {sp}

----------------------------------------------------------------------------
\* The belt around val and test.

Buffer == (Span * (2 * BufferTiles + 1)) \div 2
Cell(t) == << TileInfo[t].x \div Buffer, TileInfo[t].y \div Buffer >>
Square(n) == n * n
Near(t, u) ==
    Square(TileInfo[t].x - TileInfo[u].x) + Square(TileInfo[t].y - TileInfo[u].y)
        < Square(Buffer)

\* Hold-out tiles are looked up in the tile's cell and its eight neighbours.
Neighbours(t) ==
    (Cell(t)[1] - 1 .. Cell(t)[1] + 1) \X (Cell(t)[2] - 1 .. Cell(t)[2] + 1)

\* A lookup that trusts the tile's own cell.
OwnCell(t) == {Cell(t)}

Searched(t) == Neighbours(t)

TooClose(t) ==
    \E u \in Tiles :
        /\ split[u] \in {"val", "test"} /\ Located(u)
        /\ Cell(u) \in Searched(t)
        /\ Near(t, u)

----------------------------------------------------------------------------

Init ==
    /\ mode \in GroupedModes \cup {"random_tile"}
    /\ ratio \in Ratios
    /\ geo \in IF mode \in SpatialModes THEN SUBSET Scenes ELSE {Scenes}
    /\ links \in [Tiles -> IF mode \in GroupedModes THEN SUBSET Sources ELSE {{}}]
    /\ parents = [t \in Tiles |-> t]
    /\ unmerged = Sources
    /\ group = [t \in Tiles |-> t]
    /\ split = [t \in Tiles |-> Unplaced]
    /\ stage = IF mode \in GroupedModes THEN "merge" ELSE "place"

\* A union that hangs the groups themselves, not their roots, below the first.
UnionOfGroups(gs) ==
    [i \in Tiles |-> IF i \in gs THEN Min(gs) ELSE parents[i]]

\* The groups of one source are united under the root of the first of them.
Union(gs) ==
    LET roots == {Root(parents, g) : g \in gs}
        first == Root(parents, Min(gs))
    IN  [i \in Tiles |-> IF i \in roots THEN first ELSE parents[i]]

MergeSource(s) ==
    LET gs == {First(t) : t \in {u \in Tiles : s \in links[u]}}
    IN  /\ stage = "merge" /\ s \in unmerged
        /\ unmerged' = unmerged \ {s}
        /\ parents' = IF gs = {} THEN parents ELSE Union(gs)
        /\ stage' = IF unmerged' = {} THEN "place" ELSE "merge"
        /\ group' = IF unmerged' = {}
                    THEN [t \in Tiles |-> Root(parents', First(t))] ELSE group
        /\ UNCHANGED <<mode, ratio, geo, links, split>>

Placed(r, s) == [t \in Tiles |-> IF t \in Group(r) THEN s ELSE split[t]]

\* The largest groups first; the shuffle decides among equal ones.
PlaceGroup(r) ==
    /\ stage = "place" /\ mode \in GroupedModes \ {"class_balanced_spatial"}
    /\ r \in Left
    /\ \A q \in Left : Cardinality(Group(q)) <= Cardinality(Group(r))
    /\ LET sp == Placed(r, LeastFull)
       IN  IF Left = {r}
           THEN split' \in WithTest(sp) /\ stage' = "buffer"
           ELSE split' = sp /\ stage' = "place"
    /\ UNCHANGED <<mode, ratio, geo, links, parents, unmerged, group>>

PlaceBalanced ==
    /\ stage = "place" /\ mode = "class_balanced_spatial"
    /\ \E choice \in [Roots -> Splits] : split' = [t \in Tiles |-> choice[group[t]]]
    /\ stage' = "buffer"
    /\ UNCHANGED <<mode, ratio, geo, links, parents, unmerged, group>>

\* Tiles are shuffled and cut, whatever they show.
PlaceRandom ==
    /\ stage = "place" /\ mode = "random_tile"
    /\ split' \in {sp \in [Tiles -> Splits] :
                      \A s \in Splits : Cardinality(Members(sp, s)) = Target(s)}
    /\ stage' = "buffer"
    /\ UNCHANGED <<mode, ratio, geo, links, parents, unmerged, group>>

ApplyBuffer ==
    /\ stage = "buffer"
    /\ split' = IF mode \in SpatialModes /\ BufferTiles > 0
                THEN [t \in Tiles |->
                         IF split[t] = "train" /\ Located(t) /\ TooClose(t)
                         THEN Dropped ELSE split[t]]
                ELSE split
    /\ stage' = "done"
    /\ UNCHANGED <<mode, ratio, geo, links, parents, unmerged, group>>

Next ==
    \/ \E s \in Sources : MergeSource(s)
    \/ \E r \in Tiles : PlaceGroup(r)
    \/ PlaceBalanced
    \/ PlaceRandom
    \/ ApplyBuffer

Spec == Init /\ [][Next]_vars

----------------------------------------------------------------------------

\* Every tile ends in one split, or was dropped by the buffer.
TypeOK ==
    /\ parents \in [Tiles -> Tiles]
    /\ unmerged \subseteq Sources
    /\ group \in [Tiles -> Tiles]
    /\ stage \in {"merge", "place", "buffer", "done"}
    /\ split \in [Tiles -> Splits \cup {Unplaced, Dropped}]
    /\ stage \in {"buffer", "done"} => \A t \in Tiles : split[t] # Unplaced

\* In a grouped mode no source annotation has tiles in two splits, however the
\* chain of shared sources runs through the groups; in a spatial mode no located
\* train tile is left within the buffer of a located val or test tile, also
\* across the cells of the lookup (_merge_groups_by_source_annotations,
\* _apply_spatial_buffer).
NothingLeaks ==
    (stage = "done" /\ mode \in GroupedModes) =>
        \A t, u \in Tiles :
            (split[t] \in Splits /\ split[u] \in Splits /\ split[t] # split[u]) =>
                /\ links[t] \cap links[u] = {}
                /\ (mode \in SpatialModes /\ BufferTiles > 0 /\ "train" \in {split[t], split[u]}
                    /\ Located(t) /\ Located(u)) => ~Near(t, u)

=============================================================================
