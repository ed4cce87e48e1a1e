--------------------------- MODULE BranchAndBound ---------------------------
(***************************************************************************)
(* The 2D branch-and-bound search of global localization (BBS_2D):          *)
(* branch_and_bound_candidates of make_bbs_relocalization_attempts.py,      *)
(* which answers the queries of global_localization_node.py.                *)
(*                                                                         *)
(* A pose is a cell and a yaw; its score is the number of scan points that  *)
(* fall on occupied cells. A node of the search is a block of 2^level cells *)
(* a side, bounded by the score of its corner on a grid that is max-pooled  *)
(* to blocks and dilated by one. Yaws are quarter turns and scan points     *)
(* whole cells, so that the rotated scan is exact; the scan is a set, for   *)
(* it was thinned to a point per cell. The FFT tables the code switches to  *)
(* hold the hit counts it would have gathered, and are not told apart.      *)
(***************************************************************************)
EXTENDS Integers, Sequences, FiniteSets

CONSTANTS
  Width, Height,   \* of the occupancy grid, in cells
  Depth,           \* pyramid_depth
  StartLevel,      \* start_level: the last level of the pyramid
  Block,           \* 1 << level, by level: the side of a block
  YawCount,        \* len(_yaw_samples(...)): quarter turns
  MaxCandidates,   \* max_candidates
  Radius,          \* nms_radius_cells
  Scans,           \* bound: the scans to search with, as sets of cells
  Maps             \* bound: the maps to search, as sets of occupied cells

Cells == (0..(Width - 1)) \X (0..(Height - 1))

ASSUME SearchAssumption ==
  /\ {Width, Height, MaxCandidates} \subseteq Nat \ {0}
  /\ {Depth, Radius} \subseteq Nat
  /\ YawCount \in 1..4
  /\ StartLevel \in 0..Depth
  /\ Block \in [0..StartLevel -> Nat \ {0}] /\ Block[0] = 1
  /\ \A level \in 1..StartLevel : Block[level] = 2 * Block[level - 1]
  /\ \A scan \in Scans : scan \subseteq Int \X Int /\ IsFiniteSet(scan)
  /\ \A map \in Maps : map \subseteq Cells

VARIABLES
  scan,   \* scan_xy_grid
  grids,  \* upper_bound_pyramid; grids[0] is the occupancy itself
  heap,   \* the nodes to visit
  seq,    \* sequence, the tie breaker of the heap
  best,   \* the candidates found, best first
  done    \* the loop has ended

searchVars == <<scan, grids, heap, seq, best, done>>

-----------------------------------------------------------------------------
(* The pyramid                                                             *)

Levels == 0..StartLevel

\* Pooling ends at the depth asked for, or when one block covers the grid.
Covers(level) == Block[level] >= Width /\ Block[level] >= Height
ASSUME PyramidAssumption ==
  /\ StartLevel = Depth \/ Covers(StartLevel)
  /\ \A level \in 0..(StartLevel - 1) : ~Covers(level)

\* _max_pool_2x2, once per level: a cell stands for the block it covers.
Pooled(occupied, level) ==
  {<<cell[1] \div Block[level], cell[2] \div Block[level]>> : cell \in occupied}

Inside(cell, level) ==
  /\ cell[1] \in 0..((Width - 1) \div Block[level])
  /\ cell[2] \in 0..((Height - 1) \div Block[level])

\* _dilate_one_cell: within the grid of the level.
Dilated(grid, level) ==
  {cell \in {<<c[1] + dx, c[2] + dy>> : c \in grid, dx \in -1..1, dy \in -1..1} :
     Inside(cell, level)}

\* Mutant: the pooled grids are not dilated.
UndilatedBounds(occupied) == [level \in Levels |-> Pooled(occupied, level)]

UpperBounds(occupied) ==
  [level \in Levels |-> IF level = 0 THEN occupied
                        ELSE Dilated(Pooled(occupied, level), level)]

-----------------------------------------------------------------------------
(* Scores                                                                  *)

Turned(point, yaw) ==
  CASE yaw = 0 -> point
    [] yaw = 1 -> <<-point[2], point[1]>>
    [] yaw = 2 -> <<-point[1], -point[2]>>
    [] yaw = 3 -> <<point[2], -point[1]>>

\* The cell of a level that a scan point falls on, seen from (tx, ty).
Target(point, tx, ty, yaw, level) ==
  <<(tx + Turned(point, yaw)[1]) \div Block[level],
    (ty + Turned(point, yaw)[2]) \div Block[level]>>

\* gather_hits: points that leave the grid hit nothing.
Hits(tx, ty, yaw, level) ==
  Cardinality({point \in scan : Target(point, tx, ty, yaw, level) \in grids[level]})

-----------------------------------------------------------------------------
(* The search                                                              *)

Node(tx, ty, yaw, level, order) ==
  [tx |-> tx, ty |-> ty, yaw |-> yaw, level |-> level, seq |-> order,
   bound |-> Hits(tx, ty, yaw, level)]

TopColumns == (Width - 1) \div Block[StartLevel] + 1
TopRows == (Height - 1) \div Block[StartLevel] + 1

\* Every block of the top level at every yaw.
Seeds ==
  {Node(col * Block[StartLevel], row * Block[StartLevel], yaw, StartLevel,
        (yaw * TopRows + row) * TopColumns + col) :
     yaw \in 0..(YawCount - 1), row \in 0..(TopRows - 1), col \in 0..(TopColumns - 1)}

SearchInit ==
  /\ scan \in Scans
  /\ \E occupied \in Maps : grids = UpperBounds(occupied)
  /\ heap = Seeds /\ seq = YawCount * TopRows * TopColumns
  /\ best = <<>> /\ done = FALSE

\* heapq: the largest bound first, then the oldest.
IsTop(n) ==
  /\ n \in heap
  /\ \A m \in heap : m.bound < n.bound \/ (m.bound = n.bound /\ n.seq =< m.seq)

Full == Len(best) >= MaxCandidates
KthScore == best[Len(best)].hits

\* No node left can still enter the list.
Cut(n) == Full /\ n.bound =< KthScore

Stop ==
  /\ ~done
  /\ heap = {} \/ \E n \in heap : IsTop(n) /\ Cut(n)
  /\ done' = TRUE
  /\ UNCHANGED <<scan, grids, heap, seq, best>>

Visit(n) == ~done /\ IsTop(n) /\ ~Cut(n)

\* The corners of the next blocks on the grid, but for those that cannot enter a
\* full list.
Children(n) ==
  LET step == Block[n.level - 1]
  IN  {c \in {n.tx, n.tx + step} \X {n.ty, n.ty + step} :
         /\ c[1] < Width /\ c[2] < Height
         /\ ~(Full /\ Hits(c[1], c[2], n.yaw, n.level - 1) < KthScore)}

\* They are pushed row by row.
PushedBefore(c, n) ==
  {d \in Children(n) : d[2] < c[2] \/ (d[2] = c[2] /\ d[1] < c[1])}

Expand ==
  /\ \E n \in heap :
       /\ Visit(n) /\ n.level > 0
       /\ heap' = (heap \ {n}) \cup
            {Node(c[1], c[2], n.yaw, n.level - 1, seq + Cardinality(PushedBefore(c, n))) :
               c \in Children(n)}
       /\ seq' = seq + Cardinality(Children(n))
  /\ UNCHANGED <<scan, grids, best, done>>

\* _candidate_sort_key
Precedes(a, b) ==
  \/ a.hits > b.hits
  \/ /\ a.hits = b.hits
     /\ \/ a.yaw < b.yaw
        \/ a.yaw = b.yaw /\ a.ty < b.ty
        \/ a.yaw = b.yaw /\ a.ty = b.ty /\ a.tx < b.tx

Inserted(list, c) ==
  LET k == Cardinality({i \in DOMAIN list : Precedes(list[i], c)})
  IN  SubSeq(list, 1, k) \o <<c>> \o SubSeq(list, k + 1, Len(list))

Without(list, i) == SubSeq(list, 1, i - 1) \o SubSeq(list, i + 1, Len(list))

NearPose(a, b) ==
  /\ a.tx - b.tx \in (-Radius)..Radius /\ a.ty - b.ty \in (-Radius)..Radius

\* The first candidate in whose neighbourhood the new one lies.
Neighbours(c) == {i \in DOMAIN best : Radius > 0 /\ NearPose(best[i], c)}
FirstNeighbour(c) == CHOOSE i \in Neighbours(c) : \A j \in Neighbours(c) : i =< j

\* One winner per neighbourhood, and the list in order.
Diverse(c) ==
  IF Neighbours(c) = {} THEN Inserted(best, c)
  ELSE IF c.hits > best[FirstNeighbour(c)].hits
       THEN Inserted(Without(best, FirstNeighbour(c)), c)
       ELSE best

Candidate(n) == [tx |-> n.tx, ty |-> n.ty, yaw |-> n.yaw,
                 hits |-> Hits(n.tx, n.ty, n.yaw, 0)]

FirstOf(list) ==
  IF Len(list) > MaxCandidates THEN SubSeq(list, 1, MaxCandidates) ELSE list

TakeLeaf ==
  /\ \E n \in heap :
       /\ Visit(n) /\ n.level = 0
       /\ best' = FirstOf(Diverse(Candidate(n)))
       /\ heap' = heap \ {n}
  /\ UNCHANGED <<scan, grids, seq, done>>

SearchNext == Stop \/ Expand \/ TakeLeaf

SearchSpec == SearchInit /\ [][SearchNext]_searchVars

-----------------------------------------------------------------------------
(* Properties                                                              *)

Yaws == 0..(YawCount - 1)
Poses == [tx : 0..(Width - 1), ty : 0..(Height - 1), yaw : Yaws, hits : Nat]

\* Type invariant: nodes are blocks inside the window, listed poses are cells.
SearchTypeOK ==
  /\ \A n \in heap :
       /\ n.tx \in 0..(Width - 1) /\ n.ty \in 0..(Height - 1)
       /\ n.yaw \in Yaws /\ n.level \in Levels /\ n.bound \in Nat
       /\ n.seq \in 0..(seq - 1)
  /\ \A i \in DOMAIN best : best[i] \in Poses

\* The poses a node stands for.
InBlock(n, tx, ty) ==
  /\ tx \in n.tx..(n.tx + Block[n.level] - 1)
  /\ ty \in n.ty..(n.ty + Block[n.level] - 1)

\* The top blocks are the widest, and nothing is occupied in the cells that the
\* corner of one lies below its last cell.
LowBordersFree ==
  \A cell \in grids[0] :
    cell[1] >= Block[StartLevel] - 1 /\ cell[2] >= Block[StartLevel] - 1

\* No pose of a block scores above the bound of its node, which is what lets the
\* search drop the block ("admissible branch-and-bound search", in the words of
\* make_bbs_relocalization_attempts.py). A corner that falls off the map counts
\* nothing, though points of the block may fall on the border: the dilated grids
\* are cut there.
BoundIsAdmissible ==
  \A n \in heap : \A cell \in Cells :
    InBlock(n, cell[1], cell[2]) => Hits(cell[1], cell[2], n.yaw, 0) =< n.bound

\* When the search ends, a pose that is not on the list scores no more than the
\* last of a full list, or than a candidate it is too near to.
FindsTheBest ==
  done => \A cell \in Cells, yaw \in Yaws :
    LET hits == Hits(cell[1], cell[2], yaw, 0) IN
      \/ Full /\ hits =< KthScore
      \/ \E i \in DOMAIN best :
           /\ hits =< best[i].hits
           /\ \/ Radius > 0 /\ NearPose(best[i], [tx |-> cell[1], ty |-> cell[2]])
              \/ <<best[i].tx, best[i].ty, best[i].yaw>> = <<cell[1], cell[2], yaw>>

\* The list holds distinct places, best first, and never more than asked for.
DistinctAndOrdered ==
  /\ Len(best) =< MaxCandidates
  /\ \A i, j \in DOMAIN best : i < j =>
       /\ best[i].hits >= best[j].hits
       /\ Radius > 0 => ~NearPose(best[i], best[j])

\* With free low borders the search is exact: it drops no block that holds a
\* better pose, ends with the best poses there are, and lists distinct ones in
\* order.
SearchIsExact ==
  /\ SearchTypeOK
  /\ LowBordersFree => BoundIsAdmissible /\ FindsTheBest /\ DistinctAndOrdered
=============================================================================
