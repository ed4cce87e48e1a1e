------------------------ MODULE RelocalizationProofs ------------------------
(***************************************************************************)
(* Proofs about global localization. On every map with free low borders,   *)
(* for every scan, the branch-and-bound search ends with the best poses    *)
(* there are; and whatever step of the offline workflow is rerun, in       *)
(* whatever order and over whichever files, what it publishes is sound.    *)
(***************************************************************************)
EXTENDS BranchAndBound, ResetPipeline, TLAPS, FiniteSetTheorems, SequenceTheorems

-----------------------------------------------------------------------------
(* Constants.                                                              *)

LEMMA SearchTypes ==
  /\ Width \in Nat \ {0} /\ Height \in Nat \ {0} /\ MaxCandidates \in Nat \ {0}
  /\ Radius \in Nat /\ StartLevel \in Nat
  /\ YawCount \in 1..4
  /\ \A level \in Levels : Block[level] \in Nat \ {0}
  /\ Block[0] = 1
  /\ \A level \in Levels : level > 0 => level - 1 \in Levels /\ Block[level] = 2 * Block[level - 1]
  /\ \A s \in Scans : s \subseteq Int \X Int /\ IsFiniteSet(s)
  /\ \A m \in Maps : m \subseteq Cells
<1>1. StartLevel \in Nat
  BY SearchAssumption
<1>2. \A level \in Levels : level > 0 => level - 1 \in Levels /\ level \in 1..StartLevel
  BY <1>1 DEF Levels
<1> QED
  BY <1>1, <1>2, SearchAssumption DEF Levels

\* A set of numbers that is not empty has a least one.
LEMMA LeastIndex ==
  ASSUME NEW T, T \subseteq Nat, T # {}
  PROVE  \E x \in T : \A y \in T : x =< y
<1> DEFINE R == {ss \in Nat \X Nat : ss[1] < ss[2]}
<1>1. OpToRel(<, Nat) = R
  BY DEF OpToRel
<1>2. IsWellFoundedOn(R, Nat)
  BY <1>1, NatLessThanWellFounded
<1> HIDE DEF R
<1>3. PICK x \in T : \A y \in T : ~ (<<y, x>> \in R)
  BY <1>2, WFMin
<1>4. \A y \in T : x =< y
  <2> SUFFICES ASSUME NEW y \in T PROVE x =< y
    OBVIOUS
  <2>1. x \in Nat /\ y \in Nat /\ ~(<<y, x>> \in R)
    BY <1>3
  <2>2. ~(y < x)
    BY <2>1 DEF R
  <2> QED
    BY <2>1, <2>2
<1> QED
  BY <1>4
-----------------------------------------------------------------------------
(* Blocks on a line.                                                       *)

LEMMA TimesApart ==
  ASSUME NEW a \in Int, NEW b \in Int, NEW n \in Nat, a < b
  PROVE  n * a + n =< n * b
<1>1. PICK k \in Nat : b = a + 1 + k
  <2>1. b - a - 1 \in Nat /\ b = a + 1 + (b - a - 1)
    OBVIOUS
  <2> QED
    BY <2>1
<1>2. n * b = n * a + n + n * k
  BY <1>1
<1>3. n * k \in Nat /\ n * a \in Int
  OBVIOUS
<1> QED
  BY <1>2, <1>3

LEMMA BlockOf ==
  ASSUME NEW a \in Int, NEW n \in Nat \ {0}
  PROVE  /\ a \div n \in Int
         /\ n * (a \div n) \in Int
         /\ n * (a \div n) =< a /\ a < n * (a \div n) + n
<1>1. a \div n \in Int /\ a % n \in 0..(n - 1) /\ a = n * (a \div n) + (a % n)
  OBVIOUS
<1>2. n * (a \div n) \in Int
  BY <1>1
<1> QED
  BY <1>1, <1>2

\* A block is told by any of its cells.
LEMMA BlockIs ==
  ASSUME NEW a \in Int, NEW n \in Nat \ {0}, NEW q \in Int, n * q =< a, a < n * q + n
  PROVE  a \div n = q
<1> DEFINE r == a \div n
<1>1. r \in Int /\ n * r \in Int /\ n * r =< a /\ a < n * r + n
  BY BlockOf
<1>2. n * q \in Int
  OBVIOUS
<1> HIDE DEF r
<1>3. ~(r < q)
  <2>1. r < q => n * r + n =< n * q
    BY <1>1, TimesApart
  <2> QED
    BY <1>1, <1>2, <2>1
<1>4. ~(q < r)
  <2>1. q < r => n * q + n =< n * r
    BY <1>1, TimesApart
  <2> QED
    BY <1>1, <1>2, <2>1
<1> QED
  BY <1>1, <1>3, <1>4 DEF r

\* A step of less than a block ends in this block or in the next.
LEMMA BlockNext ==
  ASSUME NEW a \in Int, NEW n \in Nat \ {0}, NEW d \in 0..(n - 1)
  PROVE  (a + d) \div n \in {a \div n, (a \div n) + 1}
<1> DEFINE q == a \div n
<1>1. q \in Int /\ n * q \in Int /\ n * q =< a /\ a < n * q + n
  BY BlockOf
<1> HIDE DEF q
<1>2. CASE a + d < n * q + n
  <2>1. (a + d) \div n = q
    BY <1>1, <1>2, BlockIs
  <2> QED
    BY <2>1 DEF q
<1>3. CASE ~(a + d < n * q + n)
  <2>1. n * (q + 1) = n * q + n
    BY <1>1
  <2>2. n * (q + 1) =< a + d /\ a + d < n * (q + 1) + n
    BY <1>1, <1>3, <2>1
  <2>3. (a + d) \div n = q + 1
    BY <1>1, <2>2, BlockIs
  <2> QED
    BY <2>3 DEF q
<1> QED
  BY <1>2, <1>3

\* Blocks are in the order of their cells.
LEMMA BlockOrder ==
  ASSUME NEW a \in Int, NEW b \in Int, NEW n \in Nat \ {0}, a =< b
  PROVE  a \div n =< b \div n
<1> DEFINE q == a \div n
           r == b \div n
<1>1. q \in Int /\ n * q \in Int /\ n * q =< a /\ a < n * q + n
  BY BlockOf
<1>2. r \in Int /\ n * r \in Int /\ n * r =< b /\ b < n * r + n
  BY BlockOf
<1> HIDE DEF q, r
<1>3. ~(r < q)
  <2>1. r < q => n * r + n =< n * q
    BY <1>1, <1>2, TimesApart
  <2> QED
    BY <1>1, <1>2, <2>1
<1> QED
  BY <1>1, <1>2, <1>3 DEF q, r
-----------------------------------------------------------------------------
(* The bound of a block.                                                   *)

LEMMA TurnedType ==
  ASSUME NEW p \in Int \X Int, NEW yaw \in Yaws
  PROVE  Turned(p, yaw)[1] \in Int /\ Turned(p, yaw)[2] \in Int
<1>1. yaw \in {0, 1, 2, 3}
  BY SearchTypes DEF Yaws
<1>2. p[1] \in Int /\ p[2] \in Int
  OBVIOUS
<1> QED
  BY <1>1, <1>2 DEF Turned

FreeBelow(cells, margin) == \A c \in cells : c[1] >= margin /\ c[2] >= margin

\* The maps whose low borders are free.
Occupancies == {map \in Maps : FreeBelow(map, Block[StartLevel] - 1)}

\* The top blocks are the widest.
LEMMA WidestBlock ==
  ASSUME NEW level \in Levels
  PROVE  Block[level] =< Block[StartLevel]
<1> DEFINE T == {k \in Levels : ~(Block[StartLevel - k] =< Block[StartLevel])}
<1>0. /\ StartLevel \in Nat /\ Levels = 0..StartLevel
      /\ \A l \in Levels : Block[l] \in Nat \ {0}
      /\ \A l \in Levels : l > 0 => l - 1 \in Levels /\ Block[l] = 2 * Block[l - 1]
  BY SearchTypes DEF Levels
<1>1. T = {}
  <2> SUFFICES ASSUME T # {} PROVE FALSE
    OBVIOUS
  <2>0. T \subseteq Nat
    BY <1>0
  <2>1. PICK k \in T : \A l \in T : k =< l
    <3> HIDE DEF T
    <3> QED
      BY <2>0, LeastIndex
  <2>2. k \in 0..StartLevel /\ ~(Block[StartLevel - k] =< Block[StartLevel])
    BY <1>0, <2>1
  <2>3. k > 0
    <3>1. CASE k = 0
      <4>1. StartLevel - k = StartLevel
        BY <1>0, <3>1
      <4>2. Block[StartLevel] \in Nat /\ ~(Block[StartLevel] =< Block[StartLevel])
        BY <1>0, <2>2, <4>1
      <4> QED
        BY <4>2
    <3> QED
      BY <2>2, <3>1
  <2>4. k - 1 \in Levels /\ ~(k =< k - 1)
    BY <1>0, <2>2, <2>3
  <2>5. Block[StartLevel - (k - 1)] =< Block[StartLevel]
    BY <2>1, <2>4
  <2>6. /\ StartLevel - k \in Levels /\ StartLevel - (k - 1) \in Levels
        /\ StartLevel - (k - 1) > 0 /\ StartLevel - (k - 1) - 1 = StartLevel - k
    BY <1>0, <2>2, <2>3
  <2>7. Block[StartLevel - (k - 1)] = 2 * Block[StartLevel - k]
    BY <1>0, <2>6
  <2> QED
    BY <1>0, <2>2, <2>5, <2>6, <2>7
<1>2. StartLevel - level \in Levels /\ StartLevel - (StartLevel - level) = level
  BY <1>0
<1> QED
  BY <1>1, <1>2

\* The map and the scan of a search stay what they were.
InputsOk(s, g) == s \in Scans /\ \E occupied \in Occupancies : g = UpperBounds(occupied)

\* Dilating reaches the block before, but for one that is off the grid.
LEMMA DilatedReaches ==
  ASSUME NEW occupied \in Occupancies, NEW level \in Levels, level > 0,
         NEW c \in occupied, NEW a \in Int, NEW b \in Int,
         c[1] \in a..(a + Block[level] - 1), c[2] \in b..(b + Block[level] - 1)
  PROVE  <<a \div Block[level], b \div Block[level]>> \in UpperBounds(occupied)[level]
<1> DEFINE n == Block[level]
           q1 == a \div n
           q2 == b \div n
           r1 == c[1] \div n
           r2 == c[2] \div n
<1>0. n \in Nat \ {0} /\ Block[StartLevel] \in Nat \ {0} /\ n =< Block[StartLevel]
      /\ Width \in Nat \ {0} /\ Height \in Nat \ {0}
  BY SearchTypes, WidestBlock DEF Levels
<1>1. /\ c[1] \in 0..(Width - 1) /\ c[2] \in 0..(Height - 1)
      /\ n - 1 =< c[1] /\ n - 1 =< c[2]
  <2>1. c \in Cells /\ c[1] >= Block[StartLevel] - 1 /\ c[2] >= Block[StartLevel] - 1
    BY SearchTypes DEF Occupancies, FreeBelow
  <2>2. c[1] \in 0..(Width - 1) /\ c[2] \in 0..(Height - 1)
    BY <2>1 DEF Cells
  <2> HIDE DEF n
  <2> QED
    BY <1>0, <2>1, <2>2
<1> HIDE DEF n
<1>2. /\ c[1] \in a..(a + n - 1) /\ c[2] \in b..(b + n - 1)
  BY DEF n
<1>3. 0 =< a /\ 0 =< b
  BY <1>0, <1>1, <1>2
<1>4. r1 \in {q1, q1 + 1}
  <2> DEFINE d == c[1] - a
  <2>1. d \in 0..(n - 1) /\ c[1] = a + d
    BY <1>0, <1>1, <1>2
  <2> HIDE DEF d
  <2> QED
    BY <1>0, <2>1, BlockNext
<1>5. r2 \in {q2, q2 + 1}
  <2> DEFINE d == c[2] - b
  <2>1. d \in 0..(n - 1) /\ c[2] = b + d
    BY <1>0, <1>1, <1>2
  <2> HIDE DEF d
  <2> QED
    BY <1>0, <2>1, BlockNext
<1>6. q1 \in 0..((Width - 1) \div n)
  <2>1. a =< Width - 1 /\ Width - 1 \in Int
    BY <1>0, <1>1, <1>2
  <2>2. a \div n =< (Width - 1) \div n
    BY <1>0, <2>1, BlockOrder
  <2>3. 0 \div n = 0 /\ 0 \div n =< a \div n
    <3>1. n * 0 =< 0 /\ 0 < n * 0 + n /\ 0 \in Int
      BY <1>0
    <3>2. 0 \div n = 0
      BY <1>0, <3>1, BlockIs
    <3>3. 0 \div n =< a \div n
      BY <1>0, <1>3, <3>1, BlockOrder
    <3> QED
      BY <3>2, <3>3
  <2>4. q1 \in Int /\ (Width - 1) \div n \in Int
    BY <1>0, <2>1, BlockOf
  <2> QED
    BY <2>2, <2>3, <2>4
<1>7. q2 \in 0..((Height - 1) \div n)
  <2>1. b =< Height - 1 /\ Height - 1 \in Int
    BY <1>0, <1>1, <1>2
  <2>2. b \div n =< (Height - 1) \div n
    BY <1>0, <2>1, BlockOrder
  <2>3. 0 \div n = 0 /\ 0 \div n =< b \div n
    <3>1. n * 0 =< 0 /\ 0 < n * 0 + n /\ 0 \in Int
      BY <1>0
    <3>2. 0 \div n = 0
      BY <1>0, <3>1, BlockIs
    <3>3. 0 \div n =< b \div n
      BY <1>0, <1>3, <3>1, BlockOrder
    <3> QED
      BY <3>2, <3>3
  <2>4. q2 \in Int /\ (Height - 1) \div n \in Int
    BY <1>0, <2>1, BlockOf
  <2> QED
    BY <2>2, <2>3, <2>4
<1>8. <<r1, r2>> \in Pooled(occupied, level)
  BY DEF Pooled, n
<1> HIDE DEF q1, q2, r1, r2
<1>9. PICK dx \in -1..1, dy \in -1..1 : q1 = r1 + dx /\ q2 = r2 + dy
  <2>1. PICK dx \in -1..1 : q1 = r1 + dx
    <3>1. (q1 = r1 + 0) \/ (q1 = r1 + (-1))
      BY <1>4, <1>6
    <3> QED
      BY <3>1
  <2>2. PICK dy \in -1..1 : q2 = r2 + dy
    <3>1. (q2 = r2 + 0) \/ (q2 = r2 + (-1))
      BY <1>5, <1>7
    <3> QED
      BY <3>1
  <2> QED
    BY <2>1, <2>2
<1>10. Inside(<<q1, q2>>, level)
  BY <1>6, <1>7 DEF Inside, n
<1>11. <<q1, q2>> \in Dilated(Pooled(occupied, level), level)
  BY <1>8, <1>9, <1>10 DEF Dilated
<1>12. <<q1, q2>> \in UpperBounds(occupied)[level]
  <2>1. level # 0
    OBVIOUS
  <2> QED
    BY <1>11, <2>1 DEF UpperBounds
<1> QED
  BY <1>12 DEF q1, q2, n

LEMMA HitsType ==
  ASSUME InputsOk(scan, grids), NEW tx, NEW ty, NEW yaw, NEW level
  PROVE  Hits(tx, ty, yaw, level) \in Nat
<1> DEFINE H == {point \in scan : Target(point, tx, ty, yaw, level) \in grids[level]}
<1>1. H \in SUBSET scan /\ IsFiniteSet(scan)
  BY SearchTypes DEF InputsOk
<1> HIDE DEF H
<1>2. Cardinality(H) \in Nat
  BY <1>1, FS_Subset, FS_CardinalityType
<1> QED
  BY <1>2 DEF Hits, H

\* What a block may score is at least what any of its poses scores.
LEMMA Admissible ==
  ASSUME InputsOk(scan, grids), NEW level \in Levels, NEW yaw \in Yaws,
         NEW tx \in Int, NEW ty \in Int, NEW x \in Int, NEW y \in Int,
         x \in tx..(tx + Block[level] - 1), y \in ty..(ty + Block[level] - 1)
  PROVE  Hits(x, y, yaw, 0) =< Hits(tx, ty, yaw, level)
<1> DEFINE H(u, v, l) == {point \in scan : Target(point, u, v, yaw, l) \in grids[l]}
<1>1. PICK occupied \in Occupancies : grids = UpperBounds(occupied)
  BY DEF InputsOk
<1>2. scan \subseteq Int \X Int /\ IsFiniteSet(scan)
  BY SearchTypes DEF InputsOk
<1>3. Block[0] = 1 /\ 0 \in Levels /\ Block[level] \in Nat \ {0} /\ level \in Nat
  BY SearchTypes DEF Levels
<1>4. CASE level = 0
  <2>1. x = tx /\ y = ty
    BY <1>3, <1>4
  <2>2. Hits(x, y, yaw, 0) = Hits(tx, ty, yaw, level)
    BY <1>4, <2>1
  <2>3. Hits(x, y, yaw, 0) \in Nat
    BY HitsType
  <2> QED
    BY <2>2, <2>3
<1>5. CASE level > 0
  <2>1. ASSUME NEW point \in scan, Target(point, x, y, yaw, 0) \in grids[0]
        PROVE  Target(point, tx, ty, yaw, level) \in grids[level]
    <3> DEFINE p1 == Turned(point, yaw)[1]
               p2 == Turned(point, yaw)[2]
               c == <<x + p1, y + p2>>
    <3>1. p1 \in Int /\ p2 \in Int
      BY <1>2, TurnedType
    <3>2. Target(point, x, y, yaw, 0) = <<(x + p1) \div 1, (y + p2) \div 1>>
      BY <1>3 DEF Target
    <3>3. Target(point, tx, ty, yaw, level) = <<(tx + p1) \div Block[level], (ty + p2) \div Block[level]>>
      BY DEF Target
    <3> HIDE DEF p1, p2
    <3>4. (x + p1) \div 1 = x + p1 /\ (y + p2) \div 1 = y + p2
      BY <3>1
    <3>5. grids[0] = occupied
      BY <1>1, <1>3 DEF UpperBounds
    <3>6. c \in occupied
      BY <2>1, <3>2, <3>4, <3>5
    <3>7. tx + p1 \in Int /\ ty + p2 \in Int
      BY <3>1
    <3>8. /\ c[1] \in (tx + p1)..((tx + p1) + Block[level] - 1)
          /\ c[2] \in (ty + p2)..((ty + p2) + Block[level] - 1)
      BY <1>3, <3>1
    <3> HIDE DEF c
    <3>9. <<(tx + p1) \div Block[level], (ty + p2) \div Block[level]>> \in UpperBounds(occupied)[level]
      BY <1>5, <3>6, <3>7, <3>8, DilatedReaches
    <3> QED
      BY <1>1, <3>3, <3>9
  <2>2. H(x, y, 0) \in SUBSET H(tx, ty, level) /\ H(tx, ty, level) \in SUBSET scan
    BY <2>1
  <2>3. Hits(x, y, yaw, 0) = Cardinality(H(x, y, 0)) /\ Hits(tx, ty, yaw, level) = Cardinality(H(tx, ty, level))
    BY DEF Hits
  <2> HIDE DEF H
  <2>4. Cardinality(H(x, y, 0)) =< Cardinality(H(tx, ty, level))
    BY <1>2, <2>2, FS_Subset
  <2> QED
    BY <2>3, <2>4
<1> QED
  BY <1>3, <1>4, <1>5
-----------------------------------------------------------------------------
(* The list of candidates.                                                 *)

Decreasing(list) == \A i, j \in DOMAIN list : i < j => list[i].hits >= list[j].hits
Apart(list) == \A i, j \in DOMAIN list : i < j /\ Radius > 0 => ~NearPose(list[i], list[j])

ListOk(list) ==
  /\ list \in Seq(Poses) /\ Len(list) =< MaxCandidates
  /\ Decreasing(list) /\ Apart(list)

LEMMA ListType ==
  ASSUME NEW list \in Seq(Poses)
  PROVE  /\ DOMAIN list = 1..Len(list) /\ Len(list) \in Nat
         /\ \A i \in 1..Len(list) : list[i] \in Poses /\ list[i].hits \in Nat
<1>1. DOMAIN list = 1..Len(list) /\ Len(list) \in Nat
  BY LenProperties
<1>2. \A i \in 1..Len(list) : list[i] \in Poses
  BY ElementOfSeq
<1> QED
  BY <1>1, <1>2 DEF Poses

\* A candidate no better than those listed goes after the better ones.
LEMMA InsertedOf ==
  ASSUME NEW list \in Seq(Poses), Decreasing(list), NEW c \in Poses,
         \A i \in DOMAIN list : c.hits =< list[i].hits
  PROVE  /\ Inserted(list, c) \in Seq(Poses)
         /\ Len(Inserted(list, c)) = Len(list) + 1
         /\ \E k \in 0..Len(list) :
              /\ \A i \in 1..k : Inserted(list, c)[i] = list[i]
              /\ Inserted(list, c)[k + 1] = c
              /\ \A i \in (k + 2)..(Len(list) + 1) : Inserted(list, c)[i] = list[i - 1]
              /\ \A i \in (k + 1)..Len(list) : list[i].hits =< c.hits
<1> DEFINE n == Len(list)
           B == {i \in DOMAIN list : Precedes(list[i], c)}
           k == Cardinality(B)
           s1 == SubSeq(list, 1, k)
           s2 == SubSeq(list, k + 1, n)
           u == s1 \o <<c>>
           v == u \o s2
<1>1. DOMAIN list = 1..n /\ n \in Nat /\ \A i \in 1..n : list[i] \in Poses /\ list[i].hits \in Nat
  BY ListType
<1>2. c.hits \in Nat
  BY DEF Poses
<1>3. B \in SUBSET (1..n)
  BY <1>1
<1>4. IsFiniteSet(1..n) /\ Cardinality(1..n) = n
  BY <1>1, FS_Interval
<1>5. IsFiniteSet(B) /\ k \in 0..n
  <2> HIDE DEF B, n
  <2>1. IsFiniteSet(B) /\ k =< Cardinality(1..n) /\ k \in Nat
    BY <1>3, <1>4, FS_Subset, FS_CardinalityType
  <2> QED
    BY <1>1, <1>4, <2>1
<1>6. ASSUME NEW i \in (k + 1)..n PROVE list[i].hits =< c.hits
  <2> SUFFICES ASSUME ~(list[i].hits =< c.hits) PROVE FALSE
    OBVIOUS
  <2> HIDE DEF k
  <2>1. i \in 1..n /\ i > k /\ i \in Nat
    BY <1>1, <1>5
  <2>2. \A j \in 1..i : list[j].hits >= list[i].hits
    BY <1>1, <2>1 DEF Decreasing
  <2>3. \A j \in 1..i : j \in 1..n
    BY <1>1, <2>1
  <2>4. \A j \in 1..i : list[j].hits > c.hits
    BY <1>1, <1>2, <2>1, <2>2, <2>3
  <2>5. (1..i) \in SUBSET B
    BY <1>1, <2>3, <2>4 DEF Precedes
  <2>6. Cardinality(1..i) = i
    BY <2>1, FS_Interval
  <2> HIDE DEF B, n
  <2>7. Cardinality(1..i) =< k
    BY <1>5, <2>5, FS_Subset DEF k
  <2> QED
    BY <1>1, <1>5, <2>1, <2>6, <2>7
<1> HIDE DEF k, n
<1>7. /\ s1 \in Seq(Poses) /\ Len(s1) = k
      /\ \A i \in 1..k : s1[i] = list[i]
  <2>1. \A i \in 1..k : list[i] \in Poses
    BY <1>1, <1>5
  <2>2. /\ s1 \in Seq(Poses) /\ Len(s1) = IF 1 =< k THEN k - 1 + 1 ELSE 0
        /\ \A i \in 1..(k - 1 + 1) : s1[i] = list[1 + i - 1]
    BY <1>5, <2>1, SubSeqProperties
  <2>3. k - 1 + 1 = k /\ (~(1 =< k) => k = 0) /\ \A i \in 1..k : 1 + i - 1 = i
    BY <1>5
  <2> QED
    BY <2>2, <2>3
<1>8. /\ s2 \in Seq(Poses) /\ Len(s2) = n - k
      /\ \A i \in 1..(n - k) : s2[i] = list[k + i]
  <2>1. \A i \in (k + 1)..n : list[i] \in Poses
    BY <1>1, <1>5
  <2>2. /\ s2 \in Seq(Poses) /\ Len(s2) = IF k + 1 =< n THEN n - (k + 1) + 1 ELSE 0
        /\ \A i \in 1..(n - (k + 1) + 1) : s2[i] = list[(k + 1) + i - 1]
    BY <1>1, <1>5, <2>1, SubSeqProperties
  <2>3. /\ n - (k + 1) + 1 = n - k /\ (~(k + 1 =< n) => n - k = 0)
        /\ \A i \in 1..(n - k) : (k + 1) + i - 1 = k + i
    BY <1>1, <1>5
  <2> QED
    BY <2>2, <2>3
<1>9. <<c>> \in Seq(Poses) /\ Len(<<c>>) = 1 /\ <<c>>[1] = c
  OBVIOUS
<1> HIDE DEF s1, s2
<1>10. /\ u \in Seq(Poses) /\ Len(u) = k + 1
       /\ \A i \in 1..(k + 1) : u[i] = IF i =< k THEN s1[i] ELSE <<c>>[i - k]
  BY <1>5, <1>7, <1>9, ConcatProperties
<1>11. u[k + 1] = c /\ \A i \in 1..k : u[i] = list[i]
  <2>1. k + 1 \in 1..(k + 1) /\ ~(k + 1 =< k) /\ (k + 1) - k = 1
    BY <1>5
  <2>2. \A i \in 1..k : i \in 1..(k + 1) /\ i =< k
    BY <1>5
  <2> HIDE DEF u
  <2>3. u[k + 1] = c
    BY <1>9, <1>10, <2>1
  <2> QED
    BY <1>7, <1>10, <2>2, <2>3
<1> HIDE DEF u
<1>12. /\ v \in Seq(Poses) /\ Len(v) = (k + 1) + (n - k)
       /\ \A i \in 1..((k + 1) + (n - k)) : v[i] = IF i =< k + 1 THEN u[i] ELSE s2[i - (k + 1)]
  <2>1. u \in Seq(Poses) /\ s2 \in Seq(Poses)
    BY <1>8, <1>10
  <2>2. /\ v \in Seq(Poses) /\ Len(v) = Len(u) + Len(s2)
        /\ \A i \in 1..(Len(u) + Len(s2)) : v[i] = IF i =< Len(u) THEN u[i] ELSE s2[i - Len(u)]
    BY <2>1, ConcatProperties
  <2>3. Len(u) = k + 1 /\ Len(s2) = n - k
    BY <1>8, <1>10
  <2> HIDE DEF v
  <2> QED
    BY <2>2, <2>3
<1> HIDE DEF v
<1>13. (k + 1) + (n - k) = n + 1
  BY <1>1, <1>5
<1>14. \A i \in 1..k : v[i] = list[i]
  <2>1. \A i \in 1..k : i \in 1..(n + 1) /\ i =< k + 1
    BY <1>1, <1>5
  <2> QED
    BY <1>11, <1>12, <1>13, <2>1
<1>15. v[k + 1] = c
  <2>1. k + 1 \in 1..(n + 1) /\ k + 1 =< k + 1
    BY <1>1, <1>5
  <2> QED
    BY <1>11, <1>12, <1>13, <2>1
<1>16. \A i \in (k + 2)..(n + 1) : v[i] = list[i - 1]
  <2>1. \A i \in (k + 2)..(n + 1) :
          /\ i \in 1..(n + 1) /\ ~(i =< k + 1) /\ i - (k + 1) \in 1..(n - k)
          /\ k + (i - (k + 1)) = i - 1
    BY <1>1, <1>5
  <2> QED
    BY <1>8, <1>12, <1>13, <2>1
<1>17. Inserted(list, c) = v
  BY DEF Inserted, v, u, s1, s2, k, n
<1> QED
  BY <1>1, <1>5, <1>6, <1>12, <1>13, <1>14, <1>15, <1>16, <1>17 DEF n

LEMMA NearIsMutual ==
  ASSUME NEW a \in Poses, NEW b \in Poses
  PROVE  NearPose(a, b) <=> NearPose(b, a)
<1>1. Radius \in Nat
  BY SearchTypes
<1>2. \A x, y \in Int : x - y \in (-Radius)..Radius <=> y - x \in (-Radius)..Radius
  BY <1>1
<1>3. a.tx \in Int /\ a.ty \in Int /\ b.tx \in Int /\ b.ty \in Int
  BY SearchTypes DEF Poses
<1> QED
  BY <1>2, <1>3 DEF NearPose

\* Inserted keeps the list in order, its members, and their distance.
LEMMA InsertedOk ==
  ASSUME NEW list, ListOk(list), NEW c \in Poses, Len(list) < MaxCandidates,
         \A i \in DOMAIN list : c.hits =< list[i].hits,
         \A i \in DOMAIN list : Radius > 0 => ~NearPose(list[i], c)
  PROVE  LET new == Inserted(list, c)
         IN  /\ ListOk(new) /\ Len(new) = Len(list) + 1
             /\ \E i \in DOMAIN new : new[i] = c
             /\ \A i \in DOMAIN list : \E j \in DOMAIN new : new[j] = list[i]
             /\ \A j \in DOMAIN new : new[j] = c \/ \E i \in DOMAIN list : new[j] = list[i]
<1> DEFINE n == Len(list)
           new == Inserted(list, c)
<1>0. MaxCandidates \in Nat /\ list \in Seq(Poses) /\ Decreasing(list) /\ Apart(list)
  BY SearchTypes DEF ListOk
<1>1. DOMAIN list = 1..n /\ n \in Nat /\ \A i \in 1..n : list[i] \in Poses /\ list[i].hits \in Nat
  BY <1>0, ListType
<1>2. /\ new \in Seq(Poses) /\ Len(new) = n + 1
      /\ \E k \in 0..n :
           /\ \A i \in 1..k : new[i] = list[i]
           /\ new[k + 1] = c
           /\ \A i \in (k + 2)..(n + 1) : new[i] = list[i - 1]
           /\ \A i \in (k + 1)..n : list[i].hits =< c.hits
  BY <1>0, InsertedOf
<1>3. c.hits \in Nat
  BY DEF Poses
<1> HIDE DEF n, new
<1>4. PICK k \in 0..n :
           /\ \A i \in 1..k : new[i] = list[i]
           /\ new[k + 1] = c
           /\ \A i \in (k + 2)..(n + 1) : new[i] = list[i - 1]
           /\ \A i \in (k + 1)..n : list[i].hits =< c.hits
  BY <1>2
<1>5. DOMAIN new = 1..(n + 1)
  BY <1>2, LenProperties
<1>6. \E i \in DOMAIN new : new[i] = c
  <2>1. k + 1 \in 1..(n + 1)
    BY <1>1
  <2> QED
    BY <1>4, <1>5, <2>1
<1>7. ASSUME NEW i \in DOMAIN list PROVE \E j \in DOMAIN new : new[j] = list[i]
  <2>1. CASE i =< k
    <3>1. i \in 1..k /\ i \in 1..(n + 1)
      BY <1>1, <2>1
    <3> QED
      BY <1>4, <1>5, <3>1
  <2>2. CASE ~(i =< k)
    <3>1. i + 1 \in (k + 2)..(n + 1) /\ i + 1 \in 1..(n + 1) /\ (i + 1) - 1 = i
      BY <1>1, <2>2
    <3> QED
      BY <1>4, <1>5, <3>1
  <2> QED
    BY <2>1, <2>2
<1>8. ASSUME NEW j \in DOMAIN new
      PROVE  \/ j =< k /\ j \in 1..n /\ new[j] = list[j]
             \/ j = k + 1 /\ new[j] = c
             \/ j > k + 1 /\ j - 1 \in (k + 1)..n /\ new[j] = list[j - 1]
  <2>1. j \in 1..(n + 1) /\ j \in Nat
    BY <1>1, <1>5
  <2>2. CASE j =< k
    <3>1. j \in 1..k /\ j \in 1..n
      BY <1>1, <2>1, <2>2
    <3> QED
      BY <1>4, <2>2, <3>1
  <2>3. CASE j = k + 1
    BY <1>4, <2>3
  <2>4. CASE j > k + 1
    <3>1. j \in (k + 2)..(n + 1) /\ j - 1 \in (k + 1)..n
      BY <1>1, <2>1, <2>4
    <3> QED
      BY <1>4, <2>4, <3>1
  <2>5. j =< k \/ j = k + 1 \/ j > k + 1
    BY <1>1, <2>1
  <2> QED
    BY <2>2, <2>3, <2>4, <2>5
<1>9. \A j \in DOMAIN new : new[j] = c \/ \E i \in DOMAIN list : new[j] = list[i]
  <2> SUFFICES ASSUME NEW j \in DOMAIN new, new[j] # c
               PROVE  \E i \in DOMAIN list : new[j] = list[i]
    OBVIOUS
  <2>1. (j \in 1..n /\ new[j] = list[j]) \/ (j - 1 \in (k + 1)..n /\ new[j] = list[j - 1])
    BY <1>8
  <2>2. \A i \in (k + 1)..n : i \in 1..n
    BY <1>1
  <2> QED
    BY <1>1, <2>1, <2>2
<1>10. ASSUME NEW i \in DOMAIN new, NEW j \in DOMAIN new, i < j
       PROVE  \/ new[i] = c /\ \E b \in (k + 1)..n : new[j] = list[b]
              \/ new[j] = c /\ \E a \in DOMAIN list : new[i] = list[a]
              \/ \E a, b \in DOMAIN list : a < b /\ new[i] = list[a] /\ new[j] = list[b]
  <2>0. i \in Nat /\ j \in Nat /\ k \in Nat
    BY <1>1, <1>5
  <2>1. \A a \in (k + 1)..n : a \in 1..n
    BY <1>1
  <2>2. CASE i =< k
    <3>1. i \in 1..n /\ new[i] = list[i]
      BY <1>8, <2>0, <2>2
    <3>2. CASE j =< k
      <4>1. j \in 1..n /\ new[j] = list[j]
        BY <1>8, <2>0, <3>2
      <4> QED
        BY <1>1, <1>10, <3>1, <4>1
    <3>3. CASE j = k + 1
      BY <1>1, <1>4, <3>1, <3>3
    <3>4. CASE j > k + 1
      <4>1. j - 1 \in (k + 1)..n /\ new[j] = list[j - 1]
        BY <1>8, <2>0, <3>4
      <4>2. i < j - 1
        BY <2>0, <2>2, <3>4
      <4> QED
        BY <1>1, <2>1, <3>1, <4>1, <4>2
    <3> QED
      BY <2>0, <3>2, <3>3, <3>4
  <2>3. CASE i = k + 1
    <3>1. j > k + 1
      BY <1>10, <2>0, <2>3
    <3>2. j - 1 \in (k + 1)..n /\ new[j] = list[j - 1]
      BY <1>8, <2>0, <3>1
    <3> QED
      BY <1>4, <2>3, <3>2
  <2>4. CASE i > k + 1
    <3>1. j > k + 1 /\ i - 1 < j - 1
      BY <1>10, <2>0, <2>4
    <3>2. j - 1 \in (k + 1)..n /\ new[j] = list[j - 1]
      BY <1>8, <2>0, <3>1
    <3>3. i - 1 \in (k + 1)..n /\ new[i] = list[i - 1]
      BY <1>8, <2>0, <2>4
    <3> QED
      BY <1>1, <2>1, <3>1, <3>2, <3>3
  <2> QED
    BY <2>0, <2>2, <2>3, <2>4
<1>11. Decreasing(new)
  <2> SUFFICES ASSUME NEW i \in DOMAIN new, NEW j \in DOMAIN new, i < j
               PROVE  new[i].hits >= new[j].hits
    BY DEF Decreasing
  <2>1. CASE new[i] = c /\ \E b \in (k + 1)..n : new[j] = list[b]
    <3>1. PICK b \in (k + 1)..n : new[j] = list[b]
      BY <2>1
    <3>2. b \in 1..n
      BY <1>1
    <3> QED
      BY <1>1, <1>3, <1>4, <2>1, <3>1, <3>2
  <2>2. CASE new[j] = c /\ \E a \in DOMAIN list : new[i] = list[a]
    <3>1. PICK a \in DOMAIN list : new[i] = list[a]
      BY <2>2
    <3>2. c.hits =< list[a].hits /\ list[a].hits \in Nat
      BY <1>1
    <3> QED
      BY <1>3, <2>2, <3>1, <3>2
  <2>3. CASE \E a, b \in DOMAIN list : a < b /\ new[i] = list[a] /\ new[j] = list[b]
    BY <1>0, <2>3 DEF Decreasing
  <2> QED
    BY <1>10, <2>1, <2>2, <2>3
<1>12. Apart(new)
  <2> SUFFICES ASSUME NEW i \in DOMAIN new, NEW j \in DOMAIN new, i < j, Radius > 0
               PROVE  ~NearPose(new[i], new[j])
    BY DEF Apart
  <2>1. CASE new[i] = c /\ \E b \in (k + 1)..n : new[j] = list[b]
    <3>1. PICK b \in (k + 1)..n : new[j] = list[b]
      BY <2>1
    <3>2. b \in DOMAIN list /\ list[b] \in Poses
      BY <1>1
    <3>3. ~NearPose(list[b], c)
      BY <3>2
    <3>4. ~NearPose(c, list[b])
      BY <3>2, <3>3, NearIsMutual
    <3> QED
      BY <2>1, <3>1, <3>4
  <2>2. CASE new[j] = c /\ \E a \in DOMAIN list : new[i] = list[a]
    BY <2>2
  <2>3. CASE \E a, b \in DOMAIN list : a < b /\ new[i] = list[a] /\ new[j] = list[b]
    BY <1>0, <2>3 DEF Apart
  <2> QED
    BY <1>10, <2>1, <2>2, <2>3
<1>13. Len(new) =< MaxCandidates
  BY <1>0, <1>1, <1>2 DEF n
<1>14. ListOk(new)
  BY <1>2, <1>11, <1>12, <1>13 DEF ListOk
<1> QED
  BY <1>2, <1>6, <1>7, <1>9, <1>14 DEF new, n
-----------------------------------------------------------------------------
(* The invariant of the search.                                            *)

Score(cell, yaw) == Hits(cell[1], cell[2], yaw, 0)

NodeOk(n) ==
  /\ n.tx \in 0..(Width - 1) /\ n.ty \in 0..(Height - 1)
  /\ n.yaw \in Yaws /\ n.level \in Levels
  /\ n.bound = Hits(n.tx, n.ty, n.yaw, n.level)

Stands(n, cell, yaw) == n.yaw = yaw /\ InBlock(n, cell[1], cell[2])

\* The pose is on the list, or loses to one that is.
Settled(list, cell, yaw) ==
  \/ Len(list) >= MaxCandidates /\ Score(cell, yaw) =< list[Len(list)].hits
  \/ \E i \in DOMAIN list :
       /\ Score(cell, yaw) =< list[i].hits
       /\ \/ Radius > 0 /\ NearPose(list[i], [tx |-> cell[1], ty |-> cell[2]])
          \/ <<list[i].tx, list[i].ty, list[i].yaw>> = <<cell[1], cell[2], yaw>>

\* What is still in the heap is no better than what is on the list: candidates
\* come out best first, which is why none is ever replaced.
Behind(nodes, list) ==
  \A n \in nodes : \A cell \in Cells :
    Stands(n, cell, n.yaw) => \A i \in DOMAIN list : Score(cell, n.yaw) =< list[i].hits

\* Every pose is still in the heap or settled.
Accounted(nodes, list) ==
  \A cell \in Cells, yaw \in Yaws :
    (\E n \in nodes : Stands(n, cell, yaw)) \/ Settled(list, cell, yaw)

Numbered(nodes, next) == next \in Nat /\ \A n \in nodes : n.seq \in 0..(next - 1)

SearchState(nodes, next, list, over) ==
  /\ \A n \in nodes : NodeOk(n)
  /\ Numbered(nodes, next)
  /\ ListOk(list)
  /\ Behind(nodes, list)
  /\ Accounted(nodes, list)
  /\ over => \A cell \in Cells, yaw \in Yaws : Settled(list, cell, yaw)

SearchInv == InputsOk(scan, grids) /\ SearchState(heap, seq, best, done)

LEMMA CellType ==
  ASSUME NEW cell \in Cells
  PROVE  /\ cell[1] \in 0..(Width - 1) /\ cell[2] \in 0..(Height - 1)
         /\ cell[1] \in Int /\ cell[2] \in Int
BY SearchTypes DEF Cells

LEMMA NodeType ==
  ASSUME NEW n, NodeOk(n)
  PROVE  n.tx \in Int /\ n.ty \in Int /\ n.level \in Nat /\ Block[n.level] \in Nat \ {0}
BY SearchTypes DEF NodeOk, Levels

\* No pose of a node scores above its bound.
LEMMA NodeBounds ==
  ASSUME InputsOk(scan, grids), NEW n, NodeOk(n), NEW cell \in Cells, NEW yaw \in Yaws,
         Stands(n, cell, yaw)
  PROVE  Score(cell, yaw) =< n.bound /\ Score(cell, yaw) \in Nat /\ n.bound \in Nat
<1>1. /\ n.yaw = yaw
      /\ cell[1] \in n.tx..(n.tx + Block[n.level] - 1)
      /\ cell[2] \in n.ty..(n.ty + Block[n.level] - 1)
  BY DEF Stands, InBlock
<1>2. Hits(cell[1], cell[2], yaw, 0) =< Hits(n.tx, n.ty, yaw, n.level)
  BY <1>1, CellType, NodeType, Admissible DEF NodeOk
<1>3. n.bound = Hits(n.tx, n.ty, yaw, n.level)
  BY <1>1 DEF NodeOk
<1>4. Hits(cell[1], cell[2], yaw, 0) \in Nat /\ Hits(n.tx, n.ty, yaw, n.level) \in Nat
  BY HitsType
<1> QED
  BY <1>2, <1>3, <1>4 DEF Score

\* The map and the scan do not change: what holds of the new heap and list under
\* the map of now holds in the next state.
LEMMA SearchCarries ==
  ASSUME InputsOk(scan, grids), UNCHANGED <<scan, grids>>,
         SearchState(heap', seq', best', done')
  PROVE  SearchInv'
<1>1. \A tx, ty, yaw, level : Hits(tx, ty, yaw, level)' = Hits(tx, ty, yaw, level)
  BY DEF Hits
<1>2. \A cell, yaw : Score(cell, yaw)' = Score(cell, yaw)
  BY <1>1 DEF Score
<1>3. \A n : NodeOk(n)' <=> NodeOk(n)
  BY <1>1 DEF NodeOk
<1>4. InputsOk(scan, grids)'
  BY DEF InputsOk
<1>5. (\A n \in heap : NodeOk(n))'
  BY <1>3 DEF SearchState
<1>6. Behind(heap, best)'
  BY <1>2 DEF SearchState, Behind
<1>7. \A cell, yaw : Settled(best', cell, yaw) => Settled(best, cell, yaw)'
  BY <1>2 DEF Settled
<1>8. Accounted(heap, best)'
  BY <1>7 DEF SearchState, Accounted
<1>9. (done => \A cell \in Cells, yaw \in Yaws : Settled(best, cell, yaw))'
  BY <1>7 DEF SearchState
<1>10. Numbered(heap, seq)' /\ ListOk(best)'
  BY DEF SearchState
<1> QED
  BY <1>4, <1>5, <1>6, <1>8, <1>9, <1>10 DEF SearchInv, SearchState

LEMMA TopOf ==
  LET n == Block[StartLevel]
  IN  /\ n \in Nat \ {0} /\ StartLevel \in Levels
      /\ TopColumns \in Nat \ {0} /\ TopRows \in Nat \ {0}
      /\ \A col \in 0..(TopColumns - 1) : col * n \in 0..(Width - 1)
      /\ \A row \in 0..(TopRows - 1) : row * n \in 0..(Height - 1)
      /\ \A x \in 0..(Width - 1) : \E col \in 0..(TopColumns - 1) : x \in (col * n)..(col * n + n - 1)
      /\ \A y \in 0..(Height - 1) : \E row \in 0..(TopRows - 1) : y \in (row * n)..(row * n + n - 1)
<1> DEFINE n == Block[StartLevel]
<1>1. n \in Nat \ {0} /\ StartLevel \in Levels /\ Width \in Nat \ {0} /\ Height \in Nat \ {0}
  BY SearchTypes DEF Levels
<1>2. TopColumns = (Width - 1) \div n + 1 /\ TopRows = (Height - 1) \div n + 1
  BY DEF TopColumns, TopRows
<1> HIDE DEF n
<1>3. ASSUME NEW size \in Nat \ {0}, NEW top, top = (size - 1) \div n + 1
      PROVE  /\ top \in Nat \ {0}
             /\ \A col \in 0..(top - 1) : col * n \in 0..(size - 1)
             /\ \A x \in 0..(size - 1) : \E col \in 0..(top - 1) : x \in (col * n)..(col * n + n - 1)
  <2> DEFINE q == (size - 1) \div n
  <2>1. size - 1 \in Int /\ 0 \in Int /\ 0 =< size - 1
    OBVIOUS
  <2>2. q \in Int /\ n * q \in Int /\ n * q =< size - 1
    BY <1>1, <2>1, BlockOf
  <2>3. ASSUME NEW x \in 0..(size - 1)
        PROVE  /\ x \div n \in 0..q
               /\ x \in ((x \div n) * n)..((x \div n) * n + n - 1)
    <3>1. x \in Int /\ 0 =< x /\ x =< size - 1
      OBVIOUS
    <3>2. n * 0 =< 0 /\ 0 < n * 0 + n
      BY <1>1
    <3>3. 0 \div n = 0
      BY <1>1, <2>1, <3>2, BlockIs
    <3>4. 0 \div n =< x \div n
      BY <1>1, <2>1, <3>1, BlockOrder
    <3>5. x \div n =< q
      BY <1>1, <2>1, <3>1, BlockOrder
    <3>6. x \div n \in Int /\ n * (x \div n) \in Int /\ n * (x \div n) =< x /\ x < n * (x \div n) + n
      BY <1>1, <3>1, BlockOf
    <3> DEFINE r == x \div n
    <3>7. r * n = n * r
      BY <1>1, <3>6
    <3> HIDE DEF q, r
    <3>8. r \in 0..q
      BY <2>2, <3>3, <3>4, <3>5, <3>6 DEF r
    <3>9. x \in (r * n)..(r * n + n - 1)
      BY <1>1, <3>1, <3>6, <3>7 DEF r
    <3> QED
      BY <3>8, <3>9 DEF r
  <2>4. 0 \in 0..(size - 1)
    OBVIOUS
  <2>5. 0 =< q
    BY <2>2, <2>3, <2>4
  <2>6. ASSUME NEW col \in 0..q PROVE col * n \in 0..(size - 1)
    <3>1. col * n \in Nat /\ col * n = n * col
      BY <1>1
    <3>2. CASE col = q
      BY <2>1, <2>2, <3>1, <3>2
    <3>3. CASE col # q
      <4>1. col < q /\ col \in Int
        BY <2>2, <3>3
      <4>2. n * col + n =< n * q
        BY <1>1, <2>2, <4>1, TimesApart
      <4> HIDE DEF q
      <4> QED
        BY <1>1, <2>1, <2>2, <3>1, <4>2
    <3> QED
      BY <3>2, <3>3
  <2> HIDE DEF q
  <2>7. top = q + 1 /\ top - 1 = q
    BY <1>3, <2>2 DEF q
  <2>8. top \in Nat \ {0}
    BY <2>2, <2>5, <2>7
  <2> QED
    BY <2>3, <2>6, <2>7, <2>8
<1>4. /\ TopColumns \in Nat \ {0}
      /\ \A col \in 0..(TopColumns - 1) : col * n \in 0..(Width - 1)
      /\ \A x \in 0..(Width - 1) : \E col \in 0..(TopColumns - 1) : x \in (col * n)..(col * n + n - 1)
  BY <1>1, <1>2, <1>3
<1>5. /\ TopRows \in Nat \ {0}
      /\ \A row \in 0..(TopRows - 1) : row * n \in 0..(Height - 1)
      /\ \A y \in 0..(Height - 1) : \E row \in 0..(TopRows - 1) : y \in (row * n)..(row * n + n - 1)
  BY <1>1, <1>2, <1>3
<1> QED
  BY <1>1, <1>4, <1>5 DEF n

LEMMA SearchStarts ==
  ASSUME SearchInit, LowBordersFree
  PROVE  SearchInv
<1> DEFINE B == Block[StartLevel]
           number(yaw, row, col) == (yaw * TopRows + row) * TopColumns + col
<1>1. InputsOk(scan, grids) /\ best = <<>> /\ done = FALSE /\ heap = Seeds
      /\ seq = YawCount * TopRows * TopColumns
  <2>1. PICK occupied \in Maps : grids = UpperBounds(occupied)
    BY DEF SearchInit
  <2>2. grids[0] = occupied
    BY <2>1, SearchTypes DEF UpperBounds, Levels
  <2>3. occupied \in Occupancies
    BY <2>2 DEF LowBordersFree, Occupancies, FreeBelow
  <2> QED
    BY <2>1, <2>3 DEF SearchInit, InputsOk
<1>2. \A n \in heap : \E yaw \in 0..(YawCount - 1), row \in 0..(TopRows - 1), col \in 0..(TopColumns - 1) :
        n = Node(col * B, row * B, yaw, StartLevel, number(yaw, row, col))
  BY <1>1 DEF Seeds
<1>3. \A yaw \in 0..(YawCount - 1), row \in 0..(TopRows - 1), col \in 0..(TopColumns - 1) :
        Node(col * B, row * B, yaw, StartLevel, number(yaw, row, col)) \in heap
  BY <1>1 DEF Seeds
<1>4. /\ TopColumns \in Nat \ {0} /\ TopRows \in Nat \ {0} /\ YawCount \in Nat \ {0}
      /\ StartLevel \in Levels /\ B \in Nat \ {0}
  BY TopOf, SearchTypes
<1> HIDE DEF B
<1>5. ASSUME NEW n \in heap PROVE NodeOk(n)
  <2>1. PICK yaw \in 0..(YawCount - 1), row \in 0..(TopRows - 1), col \in 0..(TopColumns - 1) :
          n = Node(col * B, row * B, yaw, StartLevel, number(yaw, row, col))
    BY <1>2
  <2>2. col * B \in 0..(Width - 1) /\ row * B \in 0..(Height - 1)
    BY TopOf DEF B
  <2> HIDE DEF number
  <2> QED
    BY <1>4, <2>1, <2>2 DEF NodeOk, Node, Yaws
<1>6. ASSUME NEW yaw \in 0..(YawCount - 1), NEW row \in 0..(TopRows - 1), NEW col \in 0..(TopColumns - 1)
      PROVE  number(yaw, row, col) \in 0..(seq - 1)
  <2> DEFINE a == yaw * TopRows + row
             m == YawCount * TopRows
  <2>1. TopRows * yaw + TopRows =< TopRows * YawCount
    BY <1>4, TimesApart
  <2>2. TopRows * yaw = yaw * TopRows /\ TopRows * YawCount = m /\ yaw * TopRows \in Nat /\ m \in Nat
    BY <1>4
  <2>3. a \in Nat /\ a < m
    BY <1>4, <2>1, <2>2
  <2> HIDE DEF a, m
  <2>4. TopColumns * a + TopColumns =< TopColumns * m
    BY <1>4, <2>2, <2>3, TimesApart
  <2>5. TopColumns * a = a * TopColumns /\ TopColumns * m = m * TopColumns /\ a * TopColumns \in Nat
        /\ m * TopColumns \in Nat
    BY <1>4, <2>2, <2>3
  <2>6. a * TopColumns + col \in 0..(m * TopColumns - 1)
    BY <1>4, <2>4, <2>5
  <2>7. number(yaw, row, col) = a * TopColumns + col /\ seq = m * TopColumns
    BY <1>1 DEF a, m
  <2> QED
    BY <2>6, <2>7
<1>7. Numbered(heap, seq)
  <2>1. seq \in Nat
    BY <1>1, <1>4
  <2>2. ASSUME NEW n \in heap PROVE n.seq \in 0..(seq - 1)
    <3>1. PICK yaw \in 0..(YawCount - 1), row \in 0..(TopRows - 1), col \in 0..(TopColumns - 1) :
            n = Node(col * B, row * B, yaw, StartLevel, number(yaw, row, col))
      BY <1>2
    <3> HIDE DEF number
    <3>2. n.seq = number(yaw, row, col)
      BY <3>1 DEF Node
    <3> QED
      BY <1>6, <3>2
  <2> QED
    BY <2>1, <2>2 DEF Numbered
<1>8. ListOk(best)
  <2>1. best \in Seq(Poses) /\ Len(best) = 0 /\ DOMAIN best = {}
    BY <1>1
  <2> QED
    BY <2>1, SearchTypes DEF ListOk, Decreasing, Apart
<1>9. Behind(heap, best)
  <2>1. DOMAIN best = {}
    BY <1>1
  <2> QED
    BY <2>1 DEF Behind
<1>10. Accounted(heap, best)
  <2> SUFFICES ASSUME NEW cell \in Cells, NEW yaw \in Yaws
               PROVE  \E n \in heap : Stands(n, cell, yaw)
    BY DEF Accounted
  <2>1. PICK col \in 0..(TopColumns - 1) : cell[1] \in (col * B)..(col * B + B - 1)
    BY TopOf, CellType DEF B
  <2>2. PICK row \in 0..(TopRows - 1) : cell[2] \in (row * B)..(row * B + B - 1)
    BY TopOf, CellType DEF B
  <2> DEFINE n == Node(col * B, row * B, yaw, StartLevel, number(yaw, row, col))
  <2>3. n \in heap
    BY <1>3 DEF Yaws
  <2>4. n.yaw = yaw /\ n.tx = col * B /\ n.ty = row * B /\ n.level = StartLevel
    BY DEF Node
  <2> HIDE DEF n
  <2>5. Stands(n, cell, yaw)
    BY <2>1, <2>2, <2>4 DEF Stands, InBlock, B
  <2> QED
    BY <2>3, <2>5
<1> QED
  BY <1>1, <1>5, <1>7, <1>8, <1>9, <1>10 DEF SearchInv, SearchState

\* The node on top of the heap bounds every pose the heap still holds.
LEMMA TopBounds ==
  ASSUME SearchInv, NEW n, IsTop(n), NEW m \in heap, NEW cell \in Cells, NEW yaw \in Yaws,
         Stands(m, cell, yaw)
  PROVE  Score(cell, yaw) =< n.bound /\ Score(cell, yaw) \in Nat /\ n.bound \in Nat
<1>1. InputsOk(scan, grids) /\ NodeOk(m) /\ NodeOk(n)
  BY DEF SearchInv, SearchState, IsTop
<1>2. Score(cell, yaw) =< m.bound /\ Score(cell, yaw) \in Nat /\ m.bound \in Nat
  BY <1>1, NodeBounds
<1>3. n.bound \in Nat
  BY <1>1, HitsType DEF NodeOk
<1>4. m.bound =< n.bound
  BY <1>2, <1>3 DEF IsTop
<1> QED
  BY <1>2, <1>3, <1>4

LEMMA StopKeeps ==
  ASSUME SearchInv, Stop
  PROVE  SearchInv'
<1>1. InputsOk(scan, grids) /\ SearchState(heap, seq, best, done)
  BY DEF SearchInv
<1>2. ASSUME NEW cell \in Cells, NEW yaw \in Yaws PROVE Settled(best, cell, yaw)
  <2>1. CASE heap = {}
    BY <1>1, <2>1 DEF SearchState, Accounted
  <2>2. CASE \E n \in heap : IsTop(n) /\ Cut(n)
    <3>1. PICK n \in heap : IsTop(n) /\ Cut(n)
      BY <2>2
    <3>2. CASE Settled(best, cell, yaw)
      BY <3>2
    <3>3. CASE \E m \in heap : Stands(m, cell, yaw)
      <4>1. Score(cell, yaw) =< n.bound /\ Score(cell, yaw) \in Nat /\ n.bound \in Nat
        BY <3>1, <3>3, TopBounds
      <4>2. Len(best) >= MaxCandidates /\ n.bound =< best[Len(best)].hits
        BY <3>1 DEF Cut, Full, KthScore
      <4>3. best[Len(best)].hits \in Nat
        <5>1. best \in Seq(Poses)
          BY <1>1 DEF SearchState, ListOk
        <5>2. Len(best) \in 1..Len(best)
          BY <4>2, <5>1, ListType, SearchTypes
        <5> QED
          BY <5>1, <5>2, ListType
      <4> QED
        BY <4>1, <4>2, <4>3 DEF Settled
    <3> QED
      BY <1>1, <3>2, <3>3 DEF SearchState, Accounted
  <2> QED
    BY <2>1, <2>2 DEF Stop
<1>3. SearchState(heap', seq', best', done')
  BY <1>1, <1>2 DEF SearchState, Stop
<1> QED
  BY <1>1, <1>3, SearchCarries DEF Stop

LEMMA ChildrenOf ==
  ASSUME SearchInv, NEW n \in heap, n.level > 0
  PROVE  LET step == Block[n.level - 1]
         IN  /\ n.level - 1 \in Levels /\ step \in Nat \ {0} /\ Block[n.level] = 2 * step
             /\ IsFiniteSet(Children(n)) /\ Cardinality(Children(n)) \in Nat
             /\ \A c \in Children(n) :
                  /\ c[1] \in {n.tx, n.tx + step} /\ c[2] \in {n.ty, n.ty + step}
                  /\ c[1] \in 0..(Width - 1) /\ c[2] \in 0..(Height - 1)
                  /\ Cardinality(PushedBefore(c, n)) \in 0..(Cardinality(Children(n)) - 1)
<1> DEFINE step == Block[n.level - 1]
           C == Children(n)
<1>1. NodeOk(n)
  BY DEF SearchInv, SearchState
<1>2. n.level - 1 \in Levels /\ step \in Nat \ {0} /\ Block[n.level] = 2 * step
  BY <1>1, SearchTypes DEF NodeOk
<1>3. n.tx \in 0..(Width - 1) /\ n.ty \in 0..(Height - 1) /\ Width \in Nat /\ Height \in Nat
  BY <1>1, SearchTypes DEF NodeOk
<1>4. ASSUME NEW c \in C
      PROVE  /\ c[1] \in {n.tx, n.tx + step} /\ c[2] \in {n.ty, n.ty + step}
             /\ c[1] < Width /\ c[2] < Height
  BY DEF Children
<1> DEFINE corners == {n.tx, n.tx + step} \X {n.ty, n.ty + step}
<1>5. C \in SUBSET corners
  BY DEF Children
<1> HIDE DEF C
<1>6. IsFiniteSet(corners)
  <2>1. \A a, b : IsFiniteSet({a, b})
    <3> SUFFICES ASSUME NEW a, NEW b PROVE IsFiniteSet({a, b})
      OBVIOUS
    <3>1. IsFiniteSet({a}) /\ {a, b} = {a} \cup {b}
      BY FS_Singleton
    <3> QED
      BY <3>1, FS_AddElement
  <2> QED
    BY <2>1, FS_Product
<1> HIDE DEF corners
<1>7. IsFiniteSet(C) /\ Cardinality(C) \in Nat
  BY <1>5, <1>6, FS_Subset, FS_CardinalityType
<1> HIDE DEF step
<1>8. ASSUME NEW c \in C PROVE c[1] \in 0..(Width - 1) /\ c[2] \in 0..(Height - 1)
  <2>1. (c[1] = n.tx \/ c[1] = n.tx + step) /\ (c[2] = n.ty \/ c[2] = n.ty + step)
        /\ c[1] < Width /\ c[2] < Height
    BY <1>4
  <2> QED
    BY <1>2, <1>3, <2>1
<1>9. ASSUME NEW c \in C PROVE Cardinality(PushedBefore(c, n)) \in 0..(Cardinality(C) - 1)
  <2> DEFINE P == PushedBefore(c, n)
  <2>1. P \in SUBSET C
    BY DEF PushedBefore, C
  <2>2. c \notin P
    BY <1>8 DEF PushedBefore
  <2> HIDE DEF P
  <2>3. IsFiniteSet(P) /\ Cardinality(P) \in Nat /\ Cardinality(P) =< Cardinality(C)
        /\ Cardinality(P) # Cardinality(C)
    BY <1>7, <2>1, <2>2, FS_Subset, FS_CardinalityType
  <2>4. Cardinality(P) \in 0..(Cardinality(C) - 1)
    BY <1>7, <2>3
  <2> QED
    BY <2>4 DEF P
<1> QED
  BY <1>2, <1>4, <1>7, <1>8, <1>9 DEF step, C

LEMMA ExpandKeeps ==
  ASSUME SearchInv, Expand
  PROVE  SearchInv'
<1>0. InputsOk(scan, grids) /\ SearchState(heap, seq, best, done)
  BY DEF SearchInv
<1>1. PICK n \in heap :
        /\ Visit(n) /\ n.level > 0
        /\ heap' = (heap \ {n}) \cup
             {Node(c[1], c[2], n.yaw, n.level - 1, seq + Cardinality(PushedBefore(c, n))) :
                c \in Children(n)}
        /\ seq' = seq + Cardinality(Children(n))
  BY DEF Expand
<1> DEFINE step == Block[n.level - 1]
           child(c) == Node(c[1], c[2], n.yaw, n.level - 1, seq + Cardinality(PushedBefore(c, n)))
<1>2. UNCHANGED <<scan, grids, best, done>> /\ ~done
  BY <1>1 DEF Expand, Visit
<1>3. /\ n.level - 1 \in Levels /\ step \in Nat \ {0} /\ Block[n.level] = 2 * step
      /\ Cardinality(Children(n)) \in Nat
      /\ \A c \in Children(n) :
           /\ c[1] \in {n.tx, n.tx + step} /\ c[2] \in {n.ty, n.ty + step}
           /\ c[1] \in 0..(Width - 1) /\ c[2] \in 0..(Height - 1)
           /\ Cardinality(PushedBefore(c, n)) \in 0..(Cardinality(Children(n)) - 1)
  BY <1>1, ChildrenOf
<1>4. NodeOk(n) /\ n.tx \in Int /\ n.ty \in Int /\ n.yaw \in Yaws
  BY <1>0, NodeType DEF SearchState, NodeOk
<1>5. \A c : /\ child(c).tx = c[1] /\ child(c).ty = c[2] /\ child(c).yaw = n.yaw
             /\ child(c).level = n.level - 1
             /\ child(c).bound = Hits(c[1], c[2], n.yaw, n.level - 1)
             /\ child(c).seq = seq + Cardinality(PushedBefore(c, n))
  BY DEF Node
<1>6. /\ \A m \in heap' : m \in heap \/ \E c \in Children(n) : m = child(c)
      /\ \A m \in heap : m # n => m \in heap'
      /\ \A c \in Children(n) : child(c) \in heap'
  BY <1>1
<1> HIDE DEF child
<1>7. \A m \in heap' : NodeOk(m)
  BY <1>0, <1>3, <1>4, <1>5, <1>6 DEF SearchState, NodeOk
<1>8. Numbered(heap', seq')
  <2>1. seq \in Nat /\ \A m \in heap : m.seq \in 0..(seq - 1)
    BY <1>0 DEF SearchState, Numbered
  <2>2. seq' \in Nat /\ seq' = seq + Cardinality(Children(n))
    BY <1>1, <1>3, <2>1
  <2>3. ASSUME NEW m \in heap' PROVE m.seq \in 0..(seq' - 1)
    <3>1. CASE m \in heap
      BY <1>3, <2>1, <2>2, <3>1
    <3>2. CASE \E c \in Children(n) : m = child(c)
      <4>1. PICK c \in Children(n) : m = child(c)
        BY <3>2
      <4>2. m.seq = seq + Cardinality(PushedBefore(c, n))
            /\ Cardinality(PushedBefore(c, n)) \in 0..(Cardinality(Children(n)) - 1)
        BY <1>3, <1>5, <4>1
      <4> QED
        BY <1>3, <2>1, <2>2, <4>2
    <3> QED
      BY <1>6, <3>1, <3>2
  <2> QED
    BY <2>2, <2>3 DEF Numbered
<1>9. ASSUME NEW c \in Children(n), NEW cell \in Cells, Stands(child(c), cell, n.yaw)
      PROVE  Stands(n, cell, n.yaw)
  <2>1. /\ cell[1] \in c[1]..(c[1] + step - 1) /\ cell[2] \in c[2]..(c[2] + step - 1)
    BY <1>5, <1>9 DEF Stands, InBlock
  <2>2. (c[1] = n.tx \/ c[1] = n.tx + step) /\ (c[2] = n.ty \/ c[2] = n.ty + step)
    BY <1>3
  <2>3. cell[1] \in Int /\ cell[2] \in Int
    BY CellType
  <2> HIDE DEF step
  <2>4. /\ cell[1] \in n.tx..(n.tx + 2 * step - 1) /\ cell[2] \in n.ty..(n.ty + 2 * step - 1)
    BY <1>3, <1>4, <2>1, <2>2, <2>3
  <2> QED
    BY <1>3, <2>4 DEF Stands, InBlock
<1>10. Behind(heap', best)
  <2> SUFFICES ASSUME NEW m \in heap', NEW cell \in Cells, Stands(m, cell, m.yaw),
                      NEW i \in DOMAIN best
               PROVE  Score(cell, m.yaw) =< best[i].hits
    BY DEF Behind
  <2>1. CASE m \in heap
    BY <1>0, <2>1 DEF SearchState, Behind
  <2>2. CASE \E c \in Children(n) : m = child(c)
    <3>1. m.yaw = n.yaw /\ Stands(n, cell, n.yaw)
      BY <1>5, <1>9, <2>2
    <3> QED
      BY <1>0, <1>1, <3>1 DEF SearchState, Behind
  <2> QED
    BY <1>6, <2>1, <2>2
<1>11. ASSUME NEW cell \in Cells, NEW yaw \in Yaws, Stands(n, cell, yaw)
       PROVE  (\E m \in heap' : Stands(m, cell, yaw)) \/ Settled(best, cell, yaw)
  <2> DEFINE x == IF cell[1] < n.tx + step THEN n.tx ELSE n.tx + step
             y == IF cell[2] < n.ty + step THEN n.ty ELSE n.ty + step
             c == <<x, y>>
  <2>1. /\ n.yaw = yaw
        /\ cell[1] \in n.tx..(n.tx + 2 * step - 1) /\ cell[2] \in n.ty..(n.ty + 2 * step - 1)
    BY <1>3, <1>11 DEF Stands, InBlock
  <2>2. cell[1] \in 0..(Width - 1) /\ cell[2] \in 0..(Height - 1) /\ cell[1] \in Int /\ cell[2] \in Int
        /\ Width \in Nat /\ Height \in Nat
    BY CellType, SearchTypes
  <2> HIDE DEF step
  <2>3. /\ cell[1] \in x..(x + step - 1) /\ cell[2] \in y..(y + step - 1)
        /\ x \in Int /\ y \in Int
    BY <1>3, <1>4, <2>1, <2>2
  <2>4. x < Width /\ y < Height
    BY <1>3, <2>2, <2>3
  <2>5. c \in {n.tx, n.tx + step} \X {n.ty, n.ty + step} /\ c[1] = x /\ c[2] = y
    OBVIOUS
  <2> HIDE DEF x, y, c
  <2>6. CASE c \in Children(n)
    <3>1. child(c) \in heap'
      BY <1>6, <2>6
    <3>2. Stands(child(c), cell, yaw)
      BY <1>5, <2>1, <2>3, <2>5 DEF Stands, InBlock, step
    <3> QED
      BY <3>1, <3>2
  <2>7. CASE c \notin Children(n)
    <3>1. Full /\ Hits(x, y, yaw, n.level - 1) < KthScore
      BY <2>1, <2>4, <2>5, <2>7 DEF Children, step
    <3>2. Score(cell, yaw) =< Hits(x, y, yaw, n.level - 1)
      BY <1>0, <1>3, <2>2, <2>3, Admissible DEF Score, step
    <3>3. Score(cell, yaw) \in Nat /\ Hits(x, y, yaw, n.level - 1) \in Nat
      BY <1>0, HitsType DEF Score
    <3>4. KthScore \in Nat
      <4>1. best \in Seq(Poses)
        BY <1>0 DEF SearchState, ListOk
      <4>2. Len(best) \in 1..Len(best)
        BY <3>1, <4>1, ListType, SearchTypes DEF Full
      <4> QED
        BY <4>1, <4>2, ListType DEF KthScore
    <3>5. Score(cell, yaw) =< KthScore
      BY <3>1, <3>2, <3>3, <3>4
    <3> QED
      BY <3>1, <3>5 DEF Settled, Full, KthScore
  <2> QED
    BY <2>6, <2>7
<1>12. Accounted(heap', best)
  <2> SUFFICES ASSUME NEW cell \in Cells, NEW yaw \in Yaws
               PROVE  (\E m \in heap' : Stands(m, cell, yaw)) \/ Settled(best, cell, yaw)
    BY DEF Accounted
  <2>1. (\E m \in heap : Stands(m, cell, yaw)) \/ Settled(best, cell, yaw)
    BY <1>0 DEF SearchState, Accounted
  <2>2. CASE Stands(n, cell, yaw)
    BY <1>11, <2>2
  <2>3. CASE ~Stands(n, cell, yaw)
    BY <1>6, <2>1, <2>3
  <2> QED
    BY <2>2, <2>3
<1>13. SearchState(heap', seq', best', done')
  BY <1>0, <1>2, <1>7, <1>8, <1>10, <1>12 DEF SearchState
<1> QED
  BY <1>0, <1>2, <1>13, SearchCarries

\* A leaf comes out only while there is room on the list, and no better than the
\* candidates listed before it.
LEMMA LeafOf ==
  ASSUME SearchInv, NEW n \in heap, Visit(n), n.level = 0
  PROVE  LET c == Candidate(n)
             cell == <<n.tx, n.ty>>
         IN  /\ c \in Poses /\ c.tx = n.tx /\ c.ty = n.ty /\ c.yaw = n.yaw
             /\ c.hits = n.bound /\ c.hits = Score(cell, n.yaw)
             /\ cell \in Cells /\ n.yaw \in Yaws
             /\ \A x \in Cells : Stands(n, x, n.yaw) => x = cell
             /\ \A i \in DOMAIN best : c.hits =< best[i].hits
             /\ Len(best) < MaxCandidates
<1> DEFINE c == Candidate(n)
           cell == <<n.tx, n.ty>>
<1>0. InputsOk(scan, grids) /\ NodeOk(n) /\ ListOk(best) /\ Behind(heap, best)
  BY DEF SearchInv, SearchState
<1>1. n.tx \in 0..(Width - 1) /\ n.ty \in 0..(Height - 1) /\ n.yaw \in Yaws
      /\ n.bound = Hits(n.tx, n.ty, n.yaw, 0)
  BY <1>0 DEF NodeOk
<1>2. Hits(n.tx, n.ty, n.yaw, 0) \in Nat
  BY <1>0, HitsType
<1>3. c \in Poses /\ c.tx = n.tx /\ c.ty = n.ty /\ c.yaw = n.yaw /\ c.hits = n.bound
  BY <1>1, <1>2 DEF Candidate, Poses
<1>4. c.hits = Score(cell, n.yaw) /\ cell \in Cells
  BY <1>1, <1>3 DEF Score, Cells
<1>5. Block[n.level] = 1 /\ n.tx \in Int /\ n.ty \in Int
  BY <1>1, SearchTypes
<1>6. ASSUME NEW x \in Cells, Stands(n, x, n.yaw) PROVE x = cell
  <2>1. x[1] = n.tx /\ x[2] = n.ty
    BY <1>5, <1>6, CellType DEF Stands, InBlock
  <2>2. x = <<x[1], x[2]>>
    BY DEF Cells
  <2> QED
    BY <2>1, <2>2
<1>7. Stands(n, cell, n.yaw)
  BY <1>5 DEF Stands, InBlock
<1>8. \A i \in DOMAIN best : c.hits =< best[i].hits
  BY <1>0, <1>4, <1>7 DEF Behind
<1>9. Len(best) < MaxCandidates
  <2> SUFFICES ASSUME Len(best) >= MaxCandidates PROVE FALSE
    <3>1. Len(best) \in Nat /\ MaxCandidates \in Nat
      BY <1>0, ListType, SearchTypes DEF ListOk
    <3> QED
      BY <3>1
  <2>1. best \in Seq(Poses)
    BY <1>0 DEF ListOk
  <2>2. Len(best) \in DOMAIN best
    BY <2>1, ListType, SearchTypes
  <2>3. n.bound =< best[Len(best)].hits
    BY <1>3, <1>8, <2>2
  <2> QED
    BY <2>3 DEF Visit, Cut, Full, KthScore
<1> QED
  BY <1>1, <1>3, <1>4, <1>6, <1>8, <1>9

LEMMA TakeLeafKeeps ==
  ASSUME SearchInv, TakeLeaf
  PROVE  SearchInv'
<1>0. InputsOk(scan, grids) /\ SearchState(heap, seq, best, done)
  BY DEF SearchInv
<1>1. PICK n \in heap :
        /\ Visit(n) /\ n.level = 0
        /\ best' = FirstOf(Diverse(Candidate(n)))
        /\ heap' = heap \ {n}
  BY DEF TakeLeaf
<1>2. UNCHANGED <<scan, grids, seq, done>> /\ ~done
  BY <1>1 DEF TakeLeaf, Visit
<1> DEFINE c == Candidate(n)
           cell == <<n.tx, n.ty>>
<1>3. /\ c \in Poses /\ c.tx = n.tx /\ c.ty = n.ty /\ c.yaw = n.yaw
      /\ c.hits = n.bound /\ c.hits = Score(cell, n.yaw)
      /\ cell \in Cells /\ n.yaw \in Yaws
      /\ \A x \in Cells : Stands(n, x, n.yaw) => x = cell
      /\ \A i \in DOMAIN best : c.hits =< best[i].hits
      /\ Len(best) < MaxCandidates
  BY <1>1, LeafOf
<1>4. best \in Seq(Poses) /\ ListOk(best) /\ DOMAIN best = 1..Len(best) /\ Len(best) \in Nat
      /\ \A i \in 1..Len(best) : best[i].hits \in Nat
  BY <1>0, ListType DEF SearchState, ListOk
<1>5. c.hits \in Nat /\ MaxCandidates \in Nat
  BY <1>3, SearchTypes DEF Poses
<1> HIDE DEF c
<1>6. \A m \in heap : \A x \in Cells : \A yaw \in Yaws :
        Stands(m, x, yaw) => Score(x, yaw) =< c.hits
  BY <1>1, <1>3, TopBounds DEF Visit
\* The pose on the list that the leaf's own pose is settled by.
<1> DEFINE Holds(list) ==
             \E i \in DOMAIN list :
               /\ c.hits =< list[i].hits
               /\ \/ Radius > 0 /\ NearPose(list[i], c)
                  \/ list[i] = c
           Grown(list) ==
             /\ \A i \in DOMAIN best : \E j \in DOMAIN list : list[j] = best[i]
             /\ \A j \in DOMAIN list : list[j] = c \/ \E i \in DOMAIN best : list[j] = best[i]
<1>7. ListOk(best') /\ Holds(best') /\ Grown(best')
  <2>1. CASE Neighbours(c) = {}
    <3>1. \A i \in DOMAIN best : Radius > 0 => ~NearPose(best[i], c)
      BY <2>1 DEF Neighbours
    <3> DEFINE new == Inserted(best, c)
    <3>2. /\ ListOk(new) /\ Len(new) = Len(best) + 1
          /\ \E i \in DOMAIN new : new[i] = c
          /\ Grown(new)
      BY <1>3, <1>4, <3>1, InsertedOk
    <3>3. best' = FirstOf(new)
      BY <1>1, <2>1 DEF Diverse, c
    <3> HIDE DEF new
    <3>4. ~(Len(new) > MaxCandidates)
      BY <1>3, <1>4, <1>5, <3>2
    <3>5. best' = new
      BY <3>3, <3>4 DEF FirstOf
    <3>6. Holds(new)
      BY <1>5, <3>2
    <3> QED
      BY <3>2, <3>5, <3>6
  <2>2. CASE Neighbours(c) # {}
    <3> DEFINE i == FirstNeighbour(c)
    <3>1. Neighbours(c) \subseteq Nat
      BY <1>4 DEF Neighbours
    <3>2. i \in Neighbours(c)
      <4>1. \E j \in Neighbours(c) : \A k \in Neighbours(c) : j =< k
        BY <2>2, <3>1, LeastIndex
      <4> QED
        BY <4>1 DEF FirstNeighbour
    <3> HIDE DEF i
    <3>3. i \in DOMAIN best /\ Radius > 0 /\ NearPose(best[i], c)
      BY <3>2 DEF Neighbours
    <3>4. ~(c.hits > best[i].hits)
      <4>1. c.hits =< best[i].hits
        BY <1>3, <3>3
      <4>2. c.hits \in Int /\ best[i].hits \in Int
        BY <1>4, <1>5, <3>3
      <4> QED
        BY <4>1, <4>2
    <3>5. best' = FirstOf(best)
      BY <1>1, <2>2, <3>4 DEF Diverse, c, i
    <3>6. best' = best
      <4>1. ~(Len(best) > MaxCandidates)
        BY <1>3, <1>4, <1>5
      <4> QED
        BY <3>5, <4>1 DEF FirstOf
    <3> QED
      BY <1>3, <1>4, <3>3, <3>6
  <2> QED
    BY <2>1, <2>2
<1>8. Behind(heap', best')
  <2> SUFFICES ASSUME NEW m \in heap', NEW x \in Cells, Stands(m, x, m.yaw),
                      NEW j \in DOMAIN best'
               PROVE  Score(x, m.yaw) =< best'[j].hits
    BY DEF Behind
  <2>1. m \in heap /\ m.yaw \in Yaws
    BY <1>0, <1>1 DEF SearchState, NodeOk
  <2>2. CASE best'[j] = c
    BY <1>6, <2>1, <2>2
  <2>3. CASE \E i \in DOMAIN best : best'[j] = best[i]
    BY <1>0, <2>1, <2>3 DEF SearchState, Behind
  <2> QED
    BY <1>7, <2>2, <2>3
<1>9. Accounted(heap', best')
  <2> SUFFICES ASSUME NEW x \in Cells, NEW yaw \in Yaws
               PROVE  (\E m \in heap' : Stands(m, x, yaw)) \/ Settled(best', x, yaw)
    BY DEF Accounted
  <2>1. (\E m \in heap : Stands(m, x, yaw)) \/ Settled(best, x, yaw)
    BY <1>0 DEF SearchState, Accounted
  <2>2. CASE Stands(n, x, yaw)
    <3>1. n.yaw = yaw
      BY <2>2 DEF Stands
    <3>2. x = cell
      BY <1>3, <2>2, <3>1
    <3>3. Score(x, yaw) = c.hits /\ c.tx = x[1] /\ c.ty = x[2] /\ c.yaw = yaw
      BY <1>3, <3>1, <3>2
    <3>4. PICK i \in DOMAIN best' : /\ c.hits =< best'[i].hits
                                    /\ (Radius > 0 /\ NearPose(best'[i], c)) \/ best'[i] = c
      BY <1>7
    <3>5. NearPose(best'[i], c) => NearPose(best'[i], [tx |-> x[1], ty |-> x[2]])
      BY <3>3 DEF NearPose
    <3>6. best'[i] = c => <<best'[i].tx, best'[i].ty, best'[i].yaw>> = <<x[1], x[2], yaw>>
      BY <3>3
    <3> QED
      BY <3>3, <3>4, <3>5, <3>6 DEF Settled
  <2>3. CASE \E m \in heap : Stands(m, x, yaw) /\ m # n
    BY <1>1, <2>3
  <2>4. CASE Settled(best, x, yaw)
    <3>1. ~(Len(best) >= MaxCandidates)
      BY <1>3, <1>4, <1>5
    <3>2. PICK i \in DOMAIN best :
            /\ Score(x, yaw) =< best[i].hits
            /\ \/ Radius > 0 /\ NearPose(best[i], [tx |-> x[1], ty |-> x[2]])
               \/ <<best[i].tx, best[i].ty, best[i].yaw>> = <<x[1], x[2], yaw>>
      BY <2>4, <3>1 DEF Settled
    <3>3. PICK j \in DOMAIN best' : best'[j] = best[i]
      BY <1>7
    <3> QED
      BY <3>2, <3>3 DEF Settled
  <2> QED
    BY <2>1, <2>2, <2>3, <2>4
<1>10. (\A m \in heap' : NodeOk(m)) /\ Numbered(heap', seq')
  BY <1>0, <1>1, <1>2 DEF SearchState, Numbered
<1>11. SearchState(heap', seq', best', done')
  BY <1>2, <1>7, <1>8, <1>9, <1>10 DEF SearchState
<1> QED
  BY <1>0, <1>2, <1>11, SearchCarries

LEMMA SearchSteps ==
  ASSUME SearchInv, [SearchNext]_searchVars
  PROVE  SearchInv'
<1>1. CASE UNCHANGED searchVars
  <2>1. UNCHANGED <<scan, grids, heap, seq, best, done>>
    BY <1>1 DEF searchVars
  <2>2. SearchState(heap', seq', best', done')
    BY <2>1 DEF SearchInv
  <2> QED
    BY <2>1, <2>2, SearchCarries DEF SearchInv
<1> QED
  BY <1>1, StopKeeps, ExpandKeeps, TakeLeafKeeps DEF SearchNext

LEMMA SearchInvHolds ==
  ASSUME SearchInv
  PROVE  SearchIsExact
<1>0. InputsOk(scan, grids) /\ SearchState(heap, seq, best, done) /\ best \in Seq(Poses)
  BY DEF SearchInv, SearchState, ListOk
<1>1. SearchTypeOK
  <2>1. \A n \in heap : /\ n.tx \in 0..(Width - 1) /\ n.ty \in 0..(Height - 1)
                        /\ n.yaw \in Yaws /\ n.level \in Levels /\ n.bound \in Nat
                        /\ n.seq \in 0..(seq - 1)
    BY <1>0, HitsType DEF SearchState, NodeOk, Numbered
  <2> QED
    BY <1>0, <2>1, ListType DEF SearchTypeOK
<1>2. BoundIsAdmissible
  <2> SUFFICES ASSUME NEW n \in heap, NEW cell \in Cells, InBlock(n, cell[1], cell[2])
               PROVE  Hits(cell[1], cell[2], n.yaw, 0) =< n.bound
    BY DEF BoundIsAdmissible
  <2>1. NodeOk(n) /\ n.yaw \in Yaws /\ Stands(n, cell, n.yaw)
    BY <1>0 DEF SearchState, NodeOk, Stands
  <2> QED
    BY <1>0, <2>1, NodeBounds DEF Score
<1>3. FindsTheBest
  BY <1>0 DEF SearchState, FindsTheBest, Settled, Score, Full, KthScore
<1>4. DistinctAndOrdered
  BY <1>0 DEF SearchState, ListOk, Decreasing, Apart, DistinctAndOrdered
<1> QED
  BY <1>1, <1>2, <1>3, <1>4 DEF SearchIsExact

\* Whatever the map with free low borders, the scan, the pyramid, the number of
\* candidates and their distance, the search drops no block that holds a better
\* pose and ends with the best poses there are (branch_and_bound_candidates). With
\* cells on a low border neither is so (BoundIsAdmissible).
THEOREM SearchFindsTheBest == SearchSpec => [](LowBordersFree => SearchIsExact)
<1> DEFINE Exact == LowBordersFree => SearchInv
<1>1. SearchInit => Exact
  BY SearchStarts
<1>2. Exact /\ [SearchNext]_searchVars => Exact'
  <2>1. [SearchNext]_searchVars => (LowBordersFree' => LowBordersFree)
    BY DEF SearchNext, searchVars, Stop, Expand, TakeLeaf, LowBordersFree
  <2> QED
    BY <2>1, SearchSteps
<1>3. Exact => (LowBordersFree => SearchIsExact)
  BY SearchInvHolds
<1> HIDE DEF Exact
<1> QED
  BY <1>1, <1>2, <1>3, PTL DEF SearchSpec
-----------------------------------------------------------------------------
(* The offline workflow: its constants.                                   *)

LEMMA PipelineTypes ==
  /\ \A x \in {TimeRadius, MinSpacing, MaxRoutePoses, MaxPoses, MaxJobs, MaxScanDiff,
               GateScore, MaxScore, ObserveWindow, StableRows, MaxRewrites} : x \in Nat
  /\ \A x \in {CellCount, GridYaws, Repeat, MaxRecordings, MaxPublished} : x \in Nat \ {0}
  /\ \A l \in Logs : l \in Seq(LogRows)
  /\ Route \in Seq(Nat) /\ Route # <<>>
  /\ Margins \subseteq Nat
  /\ ScanStamps \subseteq Nat /\ ScanStamps # {}
  /\ Scorings \subseteq [run: BOOLEAN, converged: BOOLEAN, near: BOOLEAN, finite: BOOLEAN,
                         measured: BOOLEAN, score: Nat]
  /\ \A o \in Scorings : o.near => o.finite
BY PipelineAssumption
-----------------------------------------------------------------------------
(* Minima and positions.                                                   *)

\* The first by f, ties by g.
LEMMA FirstBy ==
  ASSUME NEW S, S # {}, NEW f \in [S -> Nat], NEW g \in [S -> Nat]
  PROVE  \E r \in S : \A s \in S : f[r] < f[s] \/ (f[r] = f[s] /\ g[r] <= g[s])
<1> DEFINE F == {f[r] : r \in S}
<1>0. F \subseteq Nat /\ F # {}
  OBVIOUS
<1>1. PICK x \in F : \A y \in F : x <= y
  BY <1>0, LeastIndex
<1> DEFINE low == {r \in S : f[r] = x}
           G == {g[r] : r \in low}
<1>2. G \subseteq Nat /\ G # {}
  BY <1>1
<1>3. PICK z \in G : \A y \in G : z <= y
  BY <1>2, LeastIndex
<1>4. PICK r \in low : g[r] = z
  BY <1>3
<1>5. ASSUME NEW s \in S PROVE f[r] < f[s] \/ (f[r] = f[s] /\ g[r] <= g[s])
  <2>1. f[r] = x /\ x <= f[s] /\ f[s] \in Nat /\ x \in Nat
    BY <1>1, <1>4, <1>5
  <2>2. f[s] = x => g[r] <= g[s]
    BY <1>3, <1>4, <1>5
  <2> QED
    BY <2>1, <2>2
<1> QED
  BY <1>4, <1>5

\* Positions in a finite set of numbers count up with its members.
LEMMA PositionOf ==
  ASSUME NEW S, S \subseteq Nat, IsFiniteSet(S)
  PROVE  /\ \A x \in Nat : PositionIn(S, x) \in Nat
         /\ \A x \in S : PositionIn(S, x) \in 1..Cardinality(S)
         /\ \A x, y \in S : x < y <=> PositionIn(S, x) < PositionIn(S, y)
<1> DEFINE P(x) == {z \in S : z <= x}
<1>1. \A x \in Nat : P(x) \in SUBSET S /\ IsFiniteSet(P(x)) /\ Cardinality(P(x)) \in Nat
                     /\ Cardinality(P(x)) <= Cardinality(S)
  <2> SUFFICES ASSUME NEW x \in Nat
               PROVE  P(x) \in SUBSET S /\ IsFiniteSet(P(x)) /\ Cardinality(P(x)) \in Nat
                      /\ Cardinality(P(x)) <= Cardinality(S)
    OBVIOUS
  <2>1. P(x) \in SUBSET S
    OBVIOUS
  <2> HIDE DEF P
  <2> QED
    BY <2>1, FS_Subset, FS_CardinalityType
<1>2. \A x \in S : x \in P(x)
  OBVIOUS
<1>3. \A x \in S : Cardinality(P(x)) # 0
  <2> SUFFICES ASSUME NEW x \in S PROVE Cardinality(P(x)) # 0
    OBVIOUS
  <2>1. IsFiniteSet(P(x)) /\ P(x) # {}
    BY <1>1, <1>2
  <2> QED
    BY <2>1, FS_EmptySet
<1>4. \A x, y \in S : x < y => Cardinality(P(x)) < Cardinality(P(y))
  <2> SUFFICES ASSUME NEW x \in S, NEW y \in S, x < y
               PROVE  Cardinality(P(x)) < Cardinality(P(y))
    OBVIOUS
  <2>0. x \in Nat /\ y \in Nat
    OBVIOUS
  <2>1. P(x) \in SUBSET P(y) /\ y \in P(y) /\ y \notin P(x)
    <3>1. ASSUME NEW z \in S, z <= x PROVE z <= y
      BY <2>0, <3>1
    <3>2. y <= y /\ ~(y <= x)
      BY <2>0
    <3> QED
      BY <3>1, <3>2
  <2>2. IsFiniteSet(P(y)) /\ Cardinality(P(x)) \in Nat /\ Cardinality(P(y)) \in Nat
    BY <1>1
  <2> HIDE DEF P
  <2>3. Cardinality(P(x)) <= Cardinality(P(y)) /\ Cardinality(P(x)) # Cardinality(P(y))
    BY <2>1, <2>2, FS_Subset
  <2> QED
    BY <2>2, <2>3
<1>5. \A x, y \in S : Cardinality(P(x)) < Cardinality(P(y)) => x < y
  <2> SUFFICES ASSUME NEW x \in S, NEW y \in S, Cardinality(P(x)) < Cardinality(P(y))
               PROVE  x < y
    OBVIOUS
  <2>1. Cardinality(P(x)) \in Nat /\ Cardinality(P(y)) \in Nat /\ x \in Nat /\ y \in Nat
    BY <1>1
  <2>2. y < x => Cardinality(P(y)) < Cardinality(P(x))
    BY <1>4
  <2>3. x # y
    BY <2>1
  <2> QED
    BY <2>1, <2>2, <2>3
<1>6. \A x : PositionIn(S, x) = Cardinality(P(x))
  BY DEF PositionIn
<1> HIDE DEF P
<1>7. Cardinality(S) \in Nat
  BY FS_CardinalityType
<1>8. \A x \in S : PositionIn(S, x) \in 1..Cardinality(S)
  BY <1>1, <1>3, <1>6, <1>7
<1> QED
  BY <1>1, <1>4, <1>5, <1>6, <1>8

\* The stamp nearest to t is one of the stamps, and none is nearer.
LEMMA NearestOf ==
  ASSUME NEW S, S \subseteq Nat, S # {}, NEW t \in Nat
  PROVE  /\ NearestStamp(S, t) \in S
         /\ \A s \in S : Distance(NearestStamp(S, t), t) <= Distance(s, t)
<1> DEFINE f == [s \in S |-> Distance(s, t)]
           g == [s \in S |-> s]
           P(s) == \A r \in S \ {s} :
                     \/ Distance(s, t) < Distance(r, t)
                     \/ Distance(s, t) = Distance(r, t) /\ s < r
<1>1. \A s \in S : Distance(s, t) \in Nat
  BY DEF Distance
<1>2. f \in [S -> Nat] /\ g \in [S -> Nat]
  BY <1>1
<1> HIDE DEF f, g
<1>3. PICK r \in S : \A s \in S : f[r] < f[s] \/ (f[r] = f[s] /\ g[r] <= g[s])
  BY <1>2, FirstBy
<1>4. \A s \in S : f[s] = Distance(s, t) /\ g[s] = s
  BY DEF f, g
<1>5. P(r)
  <2> SUFFICES ASSUME NEW s \in S \ {r}
               PROVE  \/ Distance(r, t) < Distance(s, t)
                      \/ Distance(r, t) = Distance(s, t) /\ r < s
    OBVIOUS
  <2>1. f[r] < f[s] \/ (f[r] = f[s] /\ g[r] <= g[s])
    BY <1>3
  <2>2. f[r] = Distance(r, t) /\ f[s] = Distance(s, t) /\ g[r] = r /\ g[s] = s
    BY <1>4
  <2>3. r \in Nat /\ s \in Nat /\ r # s
    OBVIOUS
  <2> HIDE DEF P
  <2> QED
    BY <2>1, <2>2, <2>3
<1>6. NearestStamp(S, t) = CHOOSE s \in S : P(s)
  BY DEF NearestStamp
<1>7. NearestStamp(S, t) \in S /\ P(NearestStamp(S, t))
  <2> HIDE DEF P
  <2> QED
    BY <1>5, <1>6
<1>8. ASSUME NEW s \in S PROVE Distance(NearestStamp(S, t), t) <= Distance(s, t)
  <2>1. Distance(NearestStamp(S, t), t) \in Nat /\ Distance(s, t) \in Nat
    BY <1>1, <1>7
  <2>2. CASE s = NearestStamp(S, t)
    BY <2>1, <2>2
  <2>3. CASE s # NearestStamp(S, t)
    BY <1>7, <2>1, <2>3
  <2> QED
    BY <2>2, <2>3
<1> QED
  BY <1>7, <1>8
-----------------------------------------------------------------------------
(* Attempts and candidates.                                                *)

LEMMA TimesStep ==
  ASSUME NEW a \in Nat, NEW b \in Nat, NEW n \in Nat, a < b
  PROVE  a * n + n <= b * n
<1>1. PICK k \in Nat : b = a + 1 + k
  <2>1. b - a - 1 \in Nat /\ b = a + 1 + (b - a - 1)
    OBVIOUS
  <2> QED
    BY <2>1
<1>2. b * n = a * n + n + k * n
  BY <1>1
<1>3. k * n \in Nat /\ a * n \in Nat
  OBVIOUS
<1> QED
  BY <1>2, <1>3

LEMMA TimesKeeps ==
  ASSUME NEW a \in Nat, NEW b \in Nat, NEW n \in Nat, a <= b
  PROVE  n * a \in Nat /\ n * b \in Nat /\ n * a <= n * b
<1>1. n * a \in Nat /\ n * b \in Nat /\ n * a = a * n /\ n * b = b * n
  OBVIOUS
<1>2. CASE a < b
  BY <1>1, <1>2, TimesStep
<1>3. CASE a = b
  BY <1>1, <1>3
<1> QED
  BY <1>1, <1>2, <1>3

LEMMA QuotientOf ==
  ASSUME NEW a \in Nat, NEW b \in Nat \ {0}
  PROVE  a < b * (a \div b) + b
<1>1. a \div b \in Nat /\ a % b \in 0..(b - 1) /\ a = b * (a \div b) + (a % b)
  OBVIOUS
<1> QED
  BY <1>1

\* The index of a candidate tells its place and its heading.
LEMMA IndexTells ==
  ASSUME NEW n \in Nat \ {0}, NEW m \in Nat \ {0},
         NEW y \in 0..(GridYaws - 1), NEW z \in 0..(GridYaws - 1)
  PROVE  /\ IndexOf(n, y) \in Nat
         /\ IndexOf(n, y) = IndexOf(m, z) => n = m /\ y = z
         /\ n < m => IndexOf(n, y) < (m - 1) * GridYaws
<1>1. GridYaws \in Nat \ {0}
  BY PipelineTypes
<1>2. (n - 1) * GridYaws \in Nat /\ (m - 1) * GridYaws \in Nat
  BY <1>1
<1>3. n < m => (n - 1) * GridYaws + GridYaws <= (m - 1) * GridYaws
  BY <1>1, TimesStep
<1>4. m < n => (m - 1) * GridYaws + GridYaws <= (n - 1) * GridYaws
  BY <1>1, TimesStep
<1> DEFINE N == (n - 1) * GridYaws
           M == (m - 1) * GridYaws
<1>5. IndexOf(n, y) = N + y /\ IndexOf(m, z) = M + z
  BY DEF IndexOf
<1>6. n = m => N = M
  OBVIOUS
<1> HIDE DEF N, M
<1>7. N \in Nat /\ M \in Nat
  BY <1>2 DEF N, M
<1>8. (n < m => N + GridYaws <= M) /\ (m < n => M + GridYaws <= N)
  BY <1>3, <1>4 DEF N, M
<1>9. n < m => IndexOf(n, y) < M
  BY <1>1, <1>5, <1>7, <1>8
<1>10. IndexOf(n, y) = IndexOf(m, z) => n = m /\ y = z
  BY <1>1, <1>5, <1>6, <1>7, <1>8
<1>11. IndexOf(n, y) \in Nat
  BY <1>1, <1>5, <1>7
<1> QED
  BY <1>9, <1>10, <1>11 DEF M

Headings == 0..(GridYaws - 1)
PoseRecords == [place: Nat, yaw: Nat, away: Nat \union {None}]
Candidates == [attempt: Nat, by: Generators, index: Nat, pose: PoseRecords, rank: Nat \union {None}]

\* Attempts are counted in the order of their windows.
AttemptsOk(attempts) ==
  /\ IsFiniteSet(attempts) /\ attempts \subseteq [id: Nat, by: Generators, trigger: Nat]
  /\ \A a, b \in attempts : /\ a.id < b.id <=> a.trigger < b.trigger
                            /\ a.id = b.id => a = b

\* No two candidates of an attempt have one index.
CandidatesOk(candidates) ==
  /\ IsFiniteSet(candidates) /\ candidates \subseteq Candidates
  /\ \A c, d \in candidates : c.attempt = d.attempt /\ c.index = d.index => c = d

LEMMA WindowsOf ==
  ASSUME NEW l \in Logs
  PROVE  RequestWindows(l) \subseteq Nat /\ IsFiniteSet(RequestWindows(l))
<1>1. l \in Seq(LogRows)
  BY PipelineTypes
<1>2. DOMAIN l = 1..Len(l) /\ Len(l) \in Nat
  BY <1>1, LenProperties
<1>3. IsFiniteSet(1..Len(l))
  BY <1>2, FS_Interval
<1>4. RequestWindows(l) \in SUBSET (1..Len(l))
  BY <1>2 DEF RequestWindows
<1> QED
  BY <1>3, <1>4, FS_Subset

LEMMA AttemptsOfOk ==
  ASSUME NEW kind \in Generators, NEW l \in Logs
  PROVE  AttemptsOk(AttemptsOf(kind, l))
<1> DEFINE S == RequestWindows(l)
           attempt == [first \in S |->
                        [id |-> PositionIn(S, first), by |-> kind, trigger |-> first]]
           A == AttemptsOf(kind, l)
<1>1. S \subseteq Nat /\ IsFiniteSet(S)
  BY WindowsOf
<1>2. A = {attempt[first] : first \in S}
  BY DEF AttemptsOf
<1> HIDE DEF S, A
<1>3. /\ \A x \in S : PositionIn(S, x) \in Nat
      /\ \A x, y \in S : x < y <=> PositionIn(S, x) < PositionIn(S, y)
  BY <1>1, PositionOf
<1>4. attempt \in Surjection(S, A)
  BY <1>2 DEF Surjection
<1>5. IsFiniteSet(A)
  BY <1>1, <1>4, FS_Surjection
<1>6. ASSUME NEW x \in S
      PROVE  /\ attempt[x] \in [id: Nat, by: Generators, trigger: Nat]
             /\ attempt[x].id = PositionIn(S, x) /\ attempt[x].trigger = x
  BY <1>1, <1>3
<1> HIDE DEF attempt
<1>7. A \subseteq [id: Nat, by: Generators, trigger: Nat]
  BY <1>2, <1>6
<1>8. ASSUME NEW a \in A, NEW b \in A
      PROVE  /\ a.id < b.id <=> a.trigger < b.trigger
             /\ a.id = b.id => a = b
  <2>1. PICK x \in S : a = attempt[x]
    BY <1>2
  <2>2. PICK y \in S : b = attempt[y]
    BY <1>2
  <2>3. a.id < b.id <=> a.trigger < b.trigger
    BY <1>3, <1>6, <2>1, <2>2
  <2>4. PositionIn(S, x) = PositionIn(S, y) => x = y
    <3>1. x \in Nat /\ y \in Nat /\ PositionIn(S, x) \in Nat /\ PositionIn(S, y) \in Nat
      BY <1>1, <1>3
    <3>2. (x < y => PositionIn(S, x) < PositionIn(S, y))
          /\ (y < x => PositionIn(S, y) < PositionIn(S, x))
      BY <1>3
    <3> QED
      BY <3>1, <3>2
  <2> QED
    BY <1>6, <2>1, <2>2, <2>3, <2>4
<1> QED
  BY <1>5, <1>7, <1>8 DEF AttemptsOk, A

LEMMA RouteOf ==
  /\ DOMAIN Route = 1..Len(Route) /\ Len(Route) \in Nat /\ DOMAIN Route # {}
  /\ \A s \in DOMAIN Route : Route[s] \in Nat /\ s \in Nat
  /\ IsFiniteSet(DOMAIN Route)
<1>1. Route \in Seq(Nat) /\ Route # <<>>
  BY PipelineTypes
<1>2. DOMAIN Route = 1..Len(Route) /\ Len(Route) \in Nat
  BY <1>1, LenProperties
<1>3. Len(Route) # 0
  BY <1>1, EmptySeq
<1>4. DOMAIN Route # {}
  <2>1. 1 \in 1..Len(Route)
    BY <1>2, <1>3
  <2> QED
    BY <1>2, <2>1
<1>5. \A s \in DOMAIN Route : Route[s] \in Nat
  BY <1>1, <1>2, ElementOfSeq
<1>6. \A s \in DOMAIN Route : s \in Nat
  BY <1>2
<1>7. IsFiniteSet(DOMAIN Route)
  BY <1>2, FS_Interval
<1> QED
  BY <1>2, <1>4, <1>5, <1>6, <1>7

\* Closer puts the stamps in a strict order that nearest begins.
LEMMA CloserOrders ==
  ASSUME NEW nearest \in Nat, NEW a \in Nat, NEW b \in Nat
  PROVE  /\ ~Closer(nearest, a, a) /\ ~Closer(nearest, a, nearest)
         /\ a # b => Closer(nearest, a, b) \/ Closer(nearest, b, a)
         /\ \A c \in Nat : Closer(nearest, c, a) /\ Closer(nearest, a, b) => Closer(nearest, c, b)
<1>1. \A x \in Nat : Distance(x, nearest) \in Nat
  BY DEF Distance
<1>2. \A x \in Nat : Distance(x, nearest) = 0 <=> x = nearest
  BY DEF Distance
<1> QED
  BY <1>1, <1>2 DEF Closer

\* The reference row nearest to the trigger is among the rows tried, and they
\* are no more than the cap.
LEMMA RouteStampsOf ==
  ASSUME NEW trigger \in Nat
  PROVE  LET stamps == RouteStamps(trigger)
         IN  /\ stamps \subseteq DOMAIN Route /\ IsFiniteSet(stamps)
             /\ NearestStamp(DOMAIN Route, trigger) \in stamps
             /\ MaxRoutePoses > 0 => Cardinality(stamps) <= MaxRoutePoses
<1> DEFINE nearest == NearestStamp(DOMAIN Route, trigger)
           near    == {s \in DOMAIN Route : Distance(s, trigger) <= TimeRadius}
           window  == IF near = {} THEN {nearest} ELSE near
           joined  == Spaced(window) \union {nearest}
           before(s) == {r \in joined : Closer(nearest, r, s)}
           stamps == {s \in joined : MaxRoutePoses > 0 => Cardinality(before(s)) < MaxRoutePoses}
<1>1. RouteStamps(trigger) = stamps
  BY DEF RouteStamps
<1>2. DOMAIN Route \subseteq Nat /\ DOMAIN Route # {} /\ IsFiniteSet(DOMAIN Route)
  BY RouteOf
<1>3. nearest \in DOMAIN Route
  BY <1>2, NearestOf
<1>4. window \subseteq DOMAIN Route
  BY <1>3
<1>5. Spaced(window) \subseteq window
  <2> HIDE DEF window
  <2> QED
    BY DEF Spaced
<1> HIDE DEF window, nearest
<1>6. joined \in SUBSET (DOMAIN Route) /\ nearest \in joined /\ nearest \in Nat /\ joined \subseteq Nat
  BY <1>2, <1>3, <1>4, <1>5
<1> HIDE DEF joined
<1>7. IsFiniteSet(joined)
  BY <1>2, <1>6, FS_Subset
<1>8. \A s \in joined : before(s) \in SUBSET joined /\ IsFiniteSet(before(s))
                        /\ Cardinality(before(s)) \in Nat
  <2> SUFFICES ASSUME NEW s \in joined
               PROVE  before(s) \in SUBSET joined /\ IsFiniteSet(before(s))
                      /\ Cardinality(before(s)) \in Nat
    OBVIOUS
  <2>1. before(s) \in SUBSET joined
    OBVIOUS
  <2> HIDE DEF before
  <2> QED
    BY <1>7, <2>1, FS_Subset, FS_CardinalityType
<1>9. before(nearest) = {}
  BY <1>6, CloserOrders
<1>10. nearest \in stamps
  <2>1. Cardinality(before(nearest)) = 0
    BY <1>9, FS_EmptySet
  <2> HIDE DEF before
  <2> QED
    BY <1>6, <2>1
<1>11. stamps \in SUBSET joined
  OBVIOUS
<1>12. IsFiniteSet(stamps)
  <2> HIDE DEF stamps
  <2> QED
    BY <1>7, <1>11, FS_Subset
<1>13. ASSUME MaxRoutePoses > 0 PROVE Cardinality(stamps) <= MaxRoutePoses
  <2> DEFINE T == 0..(MaxRoutePoses - 1)
             f == [s \in stamps |-> Cardinality(before(s))]
  <2>0. MaxRoutePoses \in Nat
    BY PipelineTypes
  <2>1. \A s \in stamps : Cardinality(before(s)) \in T
    <3> HIDE DEF before
    <3> QED
      BY <1>8, <1>13, <2>0
  <2>2. f \in [stamps -> T]
    <3> HIDE DEF T, before, stamps
    <3> QED
      BY <2>1
  <2>3. ASSUME NEW a \in joined, NEW b \in joined, Closer(nearest, a, b)
        PROVE  Cardinality(before(a)) < Cardinality(before(b))
    <3>0. a \in Nat /\ b \in Nat
      BY <1>6
    <3>1. before(a) \in SUBSET before(b)
      BY <1>6, <2>3, <3>0, CloserOrders
    <3>2. a \in before(b) /\ a \notin before(a)
      BY <1>6, <2>3, <3>0, CloserOrders
    <3> HIDE DEF before
    <3>3. Cardinality(before(a)) <= Cardinality(before(b))
          /\ Cardinality(before(a)) # Cardinality(before(b))
      BY <1>8, <3>1, <3>2, FS_Subset
    <3> QED
      BY <1>8, <3>3
  <2>4. ASSUME NEW a \in stamps, NEW b \in stamps, a # b
        PROVE  Cardinality(before(a)) # Cardinality(before(b))
    <3>1. a \in joined /\ b \in joined /\ a \in Nat /\ b \in Nat
      BY <1>6
    <3>2. Closer(nearest, a, b) \/ Closer(nearest, b, a)
      BY <1>6, <2>4, <3>1, CloserOrders
    <3>3. Cardinality(before(a)) \in Nat /\ Cardinality(before(b)) \in Nat
      BY <1>8, <3>1
    <3> HIDE DEF before
    <3> QED
      BY <2>3, <3>1, <3>2, <3>3
  <2>5. f \in Injection(stamps, T)
    <3> HIDE DEF before, stamps, T
    <3> QED
      BY <2>2, <2>4 DEF Injection, IsInjective
  <2>6. IsFiniteSet(T) /\ Cardinality(T) = MaxRoutePoses
    BY <2>0, <1>13, FS_Interval
  <2> HIDE DEF f, T, stamps
  <2> QED
    BY <2>5, <2>6, FS_Injection
<1> HIDE DEF stamps
<1> QED
  BY <1>1, <1>6, <1>10, <1>11, <1>12, <1>13 DEF nearest

\* The poses are those of places, numbered apart and tried in every heading.
Headed(poses, S, n, pose) ==
  /\ IsFiniteSet(S)
  /\ n \in [S -> Nat \ {0}] /\ \A s, r \in S : n[s] = n[r] => s = r
  /\ pose \in [S \X Headings -> PoseRecords]
  /\ \A p \in poses : \E s \in S, yaw \in Headings :
        p = [index |-> IndexOf(n[s], yaw), pose |-> pose[<<s, yaw>>]]

\* Then no two of them have one index.
LEMMA HeadingsOf ==
  ASSUME NEW poses, NEW S, NEW n, NEW pose, Headed(poses, S, n, pose)
  PROVE  /\ IsFiniteSet(poses) /\ poses \subseteq [index: Nat, pose: PoseRecords]
         /\ \A p, q \in poses : p.index = q.index => p = q
<1> USE DEF Headed
<1> DEFINE f == [a \in S \X Headings |-> [index |-> IndexOf(n[a[1]], a[2]), pose |-> pose[a]]]
           all == {f[a] : a \in S \X Headings}
<1>1. IsFiniteSet(Headings)
  BY PipelineTypes, FS_Interval DEF Headings
<1>2. \A s \in S, yaw \in Headings :
        /\ f[<<s, yaw>>] = [index |-> IndexOf(n[s], yaw), pose |-> pose[<<s, yaw>>]]
        /\ f[<<s, yaw>>] \in all
  OBVIOUS
<1>3. \A s \in S, yaw \in Headings : IndexOf(n[s], yaw) \in Nat
  BY IndexTells DEF Headings
<1>4. f \in Surjection(S \X Headings, all)
  BY DEF Surjection
<1> HIDE DEF f, all
<1>5. poses \in SUBSET all
  <2> SUFFICES ASSUME NEW p \in poses PROVE p \in all
    OBVIOUS
  <2>1. PICK s \in S, yaw \in Headings : p = [index |-> IndexOf(n[s], yaw), pose |-> pose[<<s, yaw>>]]
    OBVIOUS
  <2> QED
    BY <1>2, <2>1
<1>6. IsFiniteSet(poses)
  BY <1>1, <1>4, <1>5, FS_Product, FS_Surjection, FS_Subset
<1>7. poses \subseteq [index: Nat, pose: PoseRecords]
  <2> SUFFICES ASSUME NEW p \in poses PROVE p \in [index: Nat, pose: PoseRecords]
    OBVIOUS
  <2>1. PICK s \in S, yaw \in Headings : p = [index |-> IndexOf(n[s], yaw), pose |-> pose[<<s, yaw>>]]
    OBVIOUS
  <2>2. IndexOf(n[s], yaw) \in Nat /\ pose[<<s, yaw>>] \in PoseRecords
    BY <1>3
  <2> QED
    BY <2>1, <2>2
<1>8. ASSUME NEW p \in poses, NEW q \in poses, p.index = q.index PROVE p = q
  <2>1. PICK s \in S, yaw \in Headings :
          p = [index |-> IndexOf(n[s], yaw), pose |-> pose[<<s, yaw>>]]
    OBVIOUS
  <2>2. PICK r \in S, zaw \in Headings :
          q = [index |-> IndexOf(n[r], zaw), pose |-> pose[<<r, zaw>>]]
    OBVIOUS
  <2>3. IndexOf(n[s], yaw) = IndexOf(n[r], zaw)
    BY <1>8, <2>1, <2>2
  <2>4. n[s] = n[r] /\ yaw = zaw
    BY <2>3, IndexTells DEF Headings
  <2> QED
    BY <2>1, <2>2, <2>4
<1> QED
  BY <1>6, <1>7, <1>8

\* The stride is one that reaches past the last cell in as many steps as there
\* are places to keep.
LEMMA StrideOf ==
  /\ GridStride \in Nat \ {0}
  /\ IsFiniteSet(GridCells) /\ GridCells \subseteq Nat
  /\ \A c \in GridCells : (c \div GridStride) + 1 \in Nat \ {0}
  /\ \A c, d \in GridCells : c \div GridStride = d \div GridStride => c = d
<1> DEFINE most == IF MaxPoses \div GridYaws > 1 THEN MaxPoses \div GridYaws ELSE 1
<1>0. CellCount \in Nat \ {0} /\ GridYaws \in Nat \ {0} /\ MaxPoses \in Nat
  BY PipelineTypes
<1>1. most \in Nat \ {0}
  BY <1>0
<1>2. GridStride = IF MaxPoses > 0 /\ CellCount * GridYaws > MaxPoses
                   THEN (CellCount + most - 1) \div most ELSE 1
  BY DEF GridStride
<1> HIDE DEF most
<1>3. (CellCount + most - 1) \div most \in Nat \ {0}
  <2>1. CellCount + most - 1 \in Nat /\ CellCount + most - 1 >= most
    BY <1>0, <1>1
  <2> QED
    BY <1>1, <2>1
<1>4. GridStride \in Nat \ {0}
  BY <1>2, <1>3
<1>5. IsFiniteSet(0..(CellCount - 1)) /\ GridCells \in SUBSET (0..(CellCount - 1))
  BY <1>0, FS_Interval DEF GridCells
<1>6. IsFiniteSet(GridCells)
  BY <1>5, FS_Subset
<1>7. \A c \in GridCells : c \in Nat /\ c % GridStride = 0
  BY DEF GridCells
<1> HIDE DEF GridCells
<1>8. \A c \in GridCells : c \div GridStride \in Nat
  BY <1>4, <1>7
<1>9. \A c \in GridCells : c = GridStride * (c \div GridStride)
  BY <1>4, <1>7
<1> QED
  BY <1>4, <1>6, <1>7, <1>8, <1>9

LEMMA PosesOf ==
  ASSUME NEW kind, NEW trigger \in Nat
  PROVE  LET poses == PosesFor(kind, trigger)
         IN  /\ IsFiniteSet(poses) /\ poses \subseteq [index: Nat, pose: PoseRecords]
             /\ \A p, q \in poses : p.index = q.index => p = q
<1>0. Headings \subseteq Nat
  BY PipelineTypes DEF Headings
<1>1. ASSUME kind = "route_grid"
      PROVE  /\ IsFiniteSet(RoutePoses(trigger)) /\ RoutePoses(trigger) \subseteq [index: Nat, pose: PoseRecords]
             /\ \A p, q \in RoutePoses(trigger) : p.index = q.index => p = q
  <2> DEFINE S == RouteStamps(trigger)
             n == [s \in S |-> PositionIn(S, s)]
             pose == [a \in S \X Headings |->
                        [place |-> Route[a[1]], yaw |-> a[2], away |-> Distance(a[1], trigger)]]
  <2>1. S \subseteq DOMAIN Route /\ IsFiniteSet(S)
    BY RouteStampsOf
  <2>2. \A p \in RoutePoses(trigger) : \E s \in S, yaw \in Headings :
          p = [index |-> IndexOf(PositionIn(S, s), yaw),
               pose |-> [place |-> Route[s], yaw |-> yaw, away |-> Distance(s, trigger)]]
    BY DEF RoutePoses, Capped, Headings
  <2> HIDE DEF S
  <2>3. \A s \in S : s \in Nat /\ Route[s] \in Nat /\ Distance(s, trigger) \in Nat
    BY <2>1, RouteOf DEF Distance
  <2>4. Cardinality(S) \in Nat
    BY <2>1, FS_CardinalityType
  <2>5. /\ \A x \in S : PositionIn(S, x) \in Nat \ {0}
        /\ \A x, y \in S : x < y <=> PositionIn(S, x) < PositionIn(S, y)
    BY <2>1, <2>3, <2>4, PositionOf
  <2>6. \A x, y \in S : PositionIn(S, x) = PositionIn(S, y) => x = y
    <3> SUFFICES ASSUME NEW x \in S, NEW y \in S, PositionIn(S, x) = PositionIn(S, y)
                 PROVE  x = y
      OBVIOUS
    <3>1. x \in Nat /\ y \in Nat /\ PositionIn(S, x) \in Nat /\ ~(x < y) /\ ~(y < x)
      BY <2>3, <2>5
    <3> QED
      BY <3>1
  <2>7. n \in [S -> Nat \ {0}] /\ \A s, r \in S : n[s] = n[r] => s = r
    BY <2>5, <2>6
  <2>8. pose \in [S \X Headings -> PoseRecords]
    BY <1>0, <2>3 DEF PoseRecords
  <2>9. \A p \in RoutePoses(trigger) : \E s \in S, yaw \in Headings :
          p = [index |-> IndexOf(n[s], yaw), pose |-> pose[<<s, yaw>>]]
    BY <2>2
  <2> HIDE DEF n, pose
  <2> QED
    <3>1. Headed(RoutePoses(trigger), S, n, pose)
      BY <2>1, <2>7, <2>8, <2>9 DEF Headed
    <3> QED
      BY <3>1, HeadingsOf
<1>2. /\ IsFiniteSet(GridPoses) /\ GridPoses \subseteq [index: Nat, pose: PoseRecords]
      /\ \A p, q \in GridPoses : p.index = q.index => p = q
  <2> DEFINE S == GridCells
             n == [c \in S |-> (c \div GridStride) + 1]
             pose == [a \in S \X Headings |-> [place |-> a[1], yaw |-> a[2], away |-> None]]
  <2>1. S \subseteq Nat /\ IsFiniteSet(S)
    BY StrideOf
  <2>2. \A p \in GridPoses : \E c \in S, yaw \in Headings :
          p = [index |-> IndexOf((c \div GridStride) + 1, yaw),
               pose |-> [place |-> c, yaw |-> yaw, away |-> None]]
    BY DEF GridPoses, Capped, Headings
  <2> HIDE DEF S
  <2>3. \A c, d \in S : (c \div GridStride) + 1 = (d \div GridStride) + 1 => c = d
    <3>1. \A c \in S : c \div GridStride \in Int
      BY <2>1, StrideOf
    <3> QED
      BY <3>1, StrideOf DEF S
  <2>7. n \in [S -> Nat \ {0}] /\ \A s, r \in S : n[s] = n[r] => s = r
    BY <2>3, StrideOf DEF S
  <2>8. pose \in [S \X Headings -> PoseRecords]
    BY <1>0, <2>1 DEF PoseRecords
  <2>9. \A p \in GridPoses : \E s \in S, yaw \in Headings :
          p = [index |-> IndexOf(n[s], yaw), pose |-> pose[<<s, yaw>>]]
    BY <2>2
  <2> HIDE DEF n, pose
  <2> QED
    <3>1. Headed(GridPoses, S, n, pose)
      BY <2>1, <2>7, <2>8, <2>9 DEF Headed
    <3> QED
      BY <3>1, HeadingsOf
<1> QED
  BY <1>1, <1>2 DEF PosesFor

\* A place of the map grid that is tried at all is tried in every heading.
LEMMA GridIsFair ==
  ASSUME MaxPoses >= GridYaws, NEW p \in GridPoses, NEW yaw \in Headings
  PROVE  \E q \in GridPoses : q.pose.place = p.pose.place /\ q.pose.yaw = yaw
<1>0. CellCount \in Nat \ {0} /\ GridYaws \in Nat \ {0} /\ MaxPoses \in Nat
  BY PipelineTypes
<1>1. PICK c \in GridCells : p.pose.place = c
  BY DEF GridPoses, Capped
<1> DEFINE n == (c \div GridStride) + 1
           most == IF MaxPoses \div GridYaws > 1 THEN MaxPoses \div GridYaws ELSE 1
           q == [index |-> IndexOf(n, yaw), pose |-> [place |-> c, yaw |-> yaw, away |-> None]]
<1>2. c \in Nat /\ c < CellCount /\ GridStride \in Nat \ {0} /\ n \in Nat \ {0}
  BY <1>0, StrideOf DEF GridCells
<1>3. IndexOf(n, yaw) = (n - 1) * GridYaws + yaw /\ yaw \in Nat /\ yaw < GridYaws
  BY <1>0 DEF IndexOf, Headings
<1>4. \A k \in Nat : n <= k => IndexOf(n, yaw) < k * GridYaws
  <2> SUFFICES ASSUME NEW k \in Nat, n <= k PROVE IndexOf(n, yaw) < k * GridYaws
    OBVIOUS
  <2> HIDE DEF n
  <2> DEFINE N == (n - 1) * GridYaws
             K == k * GridYaws
  <2>1. N + GridYaws <= K
    BY <1>0, <1>2, TimesStep
  <2>2. N \in Nat /\ K \in Nat
    BY <1>0, <1>2
  <2>3. IndexOf(n, yaw) = N + yaw
    BY <1>3
  <2> HIDE DEF N, K
  <2>4. IndexOf(n, yaw) < K
    BY <1>0, <1>3, <2>1, <2>2, <2>3
  <2> QED
    BY <2>4 DEF K
<1>5. MaxPoses > 0 => IndexOf(n, yaw) < MaxPoses
  <2>1. CASE CellCount * GridYaws <= MaxPoses
    <3>1. GridStride = 1
      BY <1>0, <2>1 DEF GridStride
    <3>2. n <= CellCount
      BY <1>0, <1>2, <3>1
    <3> HIDE DEF n
    <3>3. IndexOf(n, yaw) < CellCount * GridYaws
      BY <1>0, <1>4, <3>2
    <3>4. IndexOf(n, yaw) \in Nat /\ CellCount * GridYaws \in Nat
      BY <1>0, <1>2, IndexTells DEF Headings
    <3> QED
      BY <1>0, <2>1, <3>3, <3>4
  <2>2. CASE ~(CellCount * GridYaws <= MaxPoses)
    <3>1. CellCount * GridYaws > MaxPoses /\ MaxPoses > 0
      BY <1>0, <2>2
    <3>2. most \in Nat \ {0} /\ most = MaxPoses \div GridYaws
      <4>1. MaxPoses \div GridYaws \in Nat /\ MaxPoses \div GridYaws >= 1
        BY <1>0
      <4> QED
        BY <4>1
    <3>3. GridStride = (CellCount + most - 1) \div most
      BY <3>1 DEF GridStride
    <3>4. most * GridYaws <= MaxPoses
      <4>1. GridYaws * (MaxPoses \div GridYaws) <= MaxPoses
        BY <1>0
      <4> QED
        BY <1>0, <3>2, <4>1
    <3> HIDE DEF most, n
    <3>5. CellCount <= GridStride * most
      <4>1. CellCount + most - 1 \in Nat
        BY <1>0, <3>2
      <4>2. \A a \in Nat : a < most * (a \div most) + most
        BY <3>2, QuotientOf
      <4>3. CellCount + most - 1 < most * GridStride + most
        BY <3>3, <4>1, <4>2
      <4>4. most * GridStride \in Nat /\ most * GridStride = GridStride * most
        BY <1>2, <3>2
      <4> QED
        BY <1>0, <3>2, <4>3, <4>4
    <3>6. n <= most
      <4>1. GridStride * (c \div GridStride) <= c /\ c \div GridStride \in Nat
        BY <1>2
      <4>2. ~(most <= c \div GridStride)
        <5>1. ASSUME most <= c \div GridStride PROVE FALSE
          <6>1. GridStride * most <= GridStride * (c \div GridStride) /\ GridStride * most \in Nat
                /\ GridStride * (c \div GridStride) \in Nat
            BY <1>2, <3>2, <4>1, <5>1, TimesKeeps
          <6> QED
            BY <1>0, <1>2, <3>5, <4>1, <6>1
        <5> QED
          BY <5>1
      <4> QED
        BY <3>2, <4>1, <4>2 DEF n
    <3>7. IndexOf(n, yaw) < most * GridYaws
      BY <1>4, <3>2, <3>6
    <3>8. IndexOf(n, yaw) \in Nat /\ most * GridYaws \in Nat
      BY <1>0, <1>2, <3>2, IndexTells DEF Headings
    <3> QED
      BY <1>0, <3>4, <3>7, <3>8
  <2> QED
    BY <2>1, <2>2
<1>6. q \in GridPoses
  BY <1>5 DEF GridPoses, Capped, Headings
<1>7. q.pose.place = p.pose.place /\ q.pose.yaw = yaw
  BY <1>1
<1> QED
  BY <1>6, <1>7

\* A route attempt that has room for its rows keeps the one nearest in time.
LEMMA RouteIsFair ==
  ASSUME NEW trigger \in Nat, 0 < MaxRoutePoses, MaxRoutePoses * GridYaws <= MaxPoses
  PROVE  \E p \in RoutePoses(trigger) :
            p.pose.place = Route[NearestStamp(DOMAIN Route, trigger)]
<1> DEFINE S == RouteStamps(trigger)
           s == NearestStamp(DOMAIN Route, trigger)
           n == PositionIn(S, s)
           p == [index |-> IndexOf(n, 0),
                 pose |-> [place |-> Route[s], yaw |-> 0, away |-> Distance(s, trigger)]]
<1>0. GridYaws \in Nat \ {0} /\ MaxPoses \in Nat /\ MaxRoutePoses \in Nat
  BY PipelineTypes
<1>1. S \subseteq DOMAIN Route /\ IsFiniteSet(S) /\ s \in S /\ Cardinality(S) <= MaxRoutePoses
  BY RouteStampsOf
<1>2. Cardinality(S) \in Nat
  BY <1>1, FS_CardinalityType
<1>3. S \subseteq Nat
  BY <1>1, RouteOf
<1> HIDE DEF S, s
<1>4. n \in 1..Cardinality(S)
  BY <1>1, <1>3, PositionOf
<1>5. n \in Nat \ {0} /\ n <= MaxRoutePoses
  BY <1>0, <1>1, <1>2, <1>4
<1> HIDE DEF n
<1>6. IndexOf(n, 0) < MaxPoses
  <2> DEFINE N == (n - 1) * GridYaws
             K == MaxRoutePoses * GridYaws
  <2>1. N + GridYaws <= K
    BY <1>0, <1>5, TimesStep
  <2>2. N \in Nat /\ K \in Nat
    BY <1>0, <1>5
  <2>3. IndexOf(n, 0) = N
    BY <1>0, <1>5 DEF IndexOf
  <2>4. K <= MaxPoses
    OBVIOUS
  <2> HIDE DEF N, K
  <2> QED
    BY <1>0, <2>1, <2>2, <2>3, <2>4
<1>7. 0 \in 0..(GridYaws - 1)
  BY <1>0
<1>8. p \in RoutePoses(trigger)
  BY <1>1, <1>6, <1>7 DEF RoutePoses, Capped, S, n
<1>9. p.pose.place = Route[s]
  OBVIOUS
<1> QED
  BY <1>8, <1>9 DEF s

\* The caps of the generators are fair at every window of every log.
LEMMA FairOf ==
  ASSUME log \in Logs
  PROVE  CandidatesAreFair
<1> SUFFICES ASSUME MaxPoses >= GridYaws, NEW trigger \in RequestWindows(log)
             PROVE  /\ \A p \in PosesFor("map_grid", trigger) : \A yaw \in 0..(GridYaws - 1) :
                        \E q \in PosesFor("map_grid", trigger) :
                            q.pose.place = p.pose.place /\ q.pose.yaw = yaw
                    /\ 0 < MaxRoutePoses /\ MaxRoutePoses * GridYaws <= MaxPoses =>
                        \E p \in PosesFor("route_grid", trigger) :
                            p.pose.place = Route[NearestStamp(DOMAIN Route, trigger)]
  BY DEF CandidatesAreFair
<1>1. trigger \in Nat
  BY WindowsOf
<1>2. PosesFor("map_grid", trigger) = GridPoses
      /\ PosesFor("route_grid", trigger) = RoutePoses(trigger)
  BY DEF PosesFor
<1>3. \A p \in PosesFor("map_grid", trigger) : \A yaw \in 0..(GridYaws - 1) :
        \E q \in PosesFor("map_grid", trigger) :
            q.pose.place = p.pose.place /\ q.pose.yaw = yaw
  BY <1>2, GridIsFair DEF Headings
<1>4. 0 < MaxRoutePoses /\ MaxRoutePoses * GridYaws <= MaxPoses =>
        \E p \in PosesFor("route_grid", trigger) :
            p.pose.place = Route[NearestStamp(DOMAIN Route, trigger)]
  BY <1>1, <1>2, RouteIsFair
<1> QED
  BY <1>3, <1>4

\* The candidates of the attempts of one generator.
LEMMA CandidatesOfOk ==
  ASSUME NEW kind \in Generators, NEW l \in Logs
  PROVE  CandidatesOk(CandidatesOf(kind, l))
<1> DEFINE A == AttemptsOf(kind, l)
           row(a, p) == [attempt |-> a.id, by |-> kind, index |-> p.index, pose |-> p.pose,
                         rank |-> None]
           rows(a) == {row(a, p) : p \in PosesFor(kind, a.trigger)}
           all == UNION {rows(a) : a \in A}
           f == [a \in A |-> rows(a)]
<1>1. AttemptsOk(A)
  BY AttemptsOfOk
<1>2. CandidatesOf(kind, l) = all
  BY DEF CandidatesOf
<1> HIDE DEF A
<1>3. \A a \in A : a.id \in Nat /\ a.trigger \in Nat
  BY <1>1 DEF AttemptsOk
<1>4. ASSUME NEW a \in A PROVE IsFiniteSet(rows(a))
  <2> DEFINE P == PosesFor(kind, a.trigger)
             g == [p \in P |-> row(a, p)]
  <2>1. IsFiniteSet(P)
    BY <1>3, PosesOf
  <2>2. g \in Surjection(P, rows(a))
    BY DEF Surjection
  <2> HIDE DEF P, g, rows
  <2> QED
    BY <2>1, <2>2, FS_Surjection
<1>5. IsFiniteSet(all)
  <2> DEFINE I == {rows(a) : a \in A}
  <2> HIDE DEF rows
  <2>1. f \in Surjection(A, I)
    BY DEF Surjection
  <2>2. IsFiniteSet(A)
    BY <1>1 DEF AttemptsOk
  <2>3. \A R \in I : IsFiniteSet(R)
    BY <1>4
  <2> HIDE DEF f, I
  <2>4. IsFiniteSet(UNION I)
    BY <2>1, <2>2, <2>3, FS_Surjection, FS_UNION
  <2> QED
    BY <2>4 DEF I, rows
<1>6. ASSUME NEW c \in all
      PROVE  \E a \in A : \E p \in PosesFor(kind, a.trigger) : c = row(a, p)
  OBVIOUS
<1>7. \A a \in A : \A p \in PosesFor(kind, a.trigger) : p.index \in Nat /\ p.pose \in PoseRecords
  BY <1>3, PosesOf
<1> HIDE DEF all
<1>8. ASSUME NEW c \in all PROVE c \in Candidates
  BY <1>3, <1>6, <1>7, <1>8 DEF Candidates
<1>9. ASSUME NEW c \in all, NEW d \in all, c.attempt = d.attempt, c.index = d.index PROVE c = d
  <2>1. PICK a \in A : \E p \in PosesFor(kind, a.trigger) : c = row(a, p)
    BY <1>6
  <2>2. PICK b \in A : \E p \in PosesFor(kind, b.trigger) : d = row(b, p)
    BY <1>6
  <2>3. a = b
    BY <1>1, <1>9, <2>1, <2>2 DEF AttemptsOk
  <2>4. PICK p \in PosesFor(kind, a.trigger) : c = row(a, p)
    BY <2>1
  <2>5. PICK q \in PosesFor(kind, a.trigger) : d = row(a, q)
    BY <2>2, <2>3
  <2>6. p = q
    BY <1>3, <1>9, <2>4, <2>5, PosesOf
  <2> QED
    BY <2>4, <2>5, <2>6
<1> QED
  BY <1>2, <1>5, <1>8, <1>9 DEF CandidatesOk

LEMMA MineOf ==
  ASSUME NEW candidates, CandidatesOk(candidates), NEW a
  PROVE  /\ Mine(a, candidates) \subseteq candidates /\ IsFiniteSet(Mine(a, candidates))
         /\ \A D \in SUBSET Mine(a, candidates) : IsFiniteSet(D) /\ Cardinality(D) \in Nat
         /\ \A c \in Mine(a, candidates) : c.attempt = a.id /\ c.by = a.by /\ c \in Candidates
<1>1. Mine(a, candidates) \in SUBSET candidates
  BY DEF Mine
<1>2. IsFiniteSet(Mine(a, candidates))
  BY <1>1, FS_Subset DEF CandidatesOk
<1>3. \A D \in SUBSET Mine(a, candidates) : IsFiniteSet(D) /\ Cardinality(D) \in Nat
  BY <1>2, FS_Subset, FS_CardinalityType
<1> QED
  BY <1>1, <1>2, <1>3 DEF Mine, CandidatesOk

\* Ranking keeps the candidates apart.
LEMMA OracleRankedOk ==
  ASSUME NEW attempts, AttemptsOk(attempts), NEW candidates, CandidatesOk(candidates)
  PROVE  CandidatesOk(OracleRanked(attempts, candidates))
<1> DEFINE mine(a) == Mine(a, candidates)
           rank(a, c) == 1 + Cardinality({d \in mine(a) : Better(a.trigger, d, c)})
           row(a, c) == [c EXCEPT !.rank = rank(a, c)]
           rows(a) == {row(a, c) : c \in mine(a)}
           all == UNION {rows(a) : a \in attempts}
           f == [a \in attempts |-> rows(a)]
<1>1. OracleRanked(attempts, candidates) = all
  BY DEF OracleRanked
<1>2. ASSUME NEW a \in attempts, NEW c \in mine(a) PROVE rank(a, c) \in Nat
  <2>1. {d \in mine(a) : Better(a.trigger, d, c)} \in SUBSET mine(a)
    OBVIOUS
  <2>2. Cardinality({d \in mine(a) : Better(a.trigger, d, c)}) \in Nat
    BY <2>1, MineOf
  <2> QED
    BY <2>2
<1> HIDE DEF rank
<1>3. ASSUME NEW a \in attempts, NEW c \in mine(a)
      PROVE  row(a, c) \in Candidates /\ row(a, c).attempt = a.id /\ row(a, c).index = c.index
  <2>1. c \in Candidates /\ c.attempt = a.id
    BY <1>3, MineOf
  <2> QED
    BY <1>2, <1>3, <2>1 DEF Candidates
<1>4. ASSUME NEW a \in attempts PROVE IsFiniteSet(rows(a))
  <2> DEFINE P == mine(a)
             g == [c \in P |-> row(a, c)]
  <2>1. IsFiniteSet(P)
    BY MineOf
  <2>2. g \in Surjection(P, rows(a))
    BY DEF Surjection
  <2> HIDE DEF P, g, rows
  <2> QED
    BY <2>1, <2>2, FS_Surjection
<1>5. IsFiniteSet(all)
  <2> DEFINE I == {rows(a) : a \in attempts}
  <2> HIDE DEF rows
  <2>1. f \in Surjection(attempts, I)
    BY DEF Surjection
  <2>2. IsFiniteSet(attempts)
    BY DEF AttemptsOk
  <2>3. \A R \in I : IsFiniteSet(R)
    BY <1>4
  <2> HIDE DEF f, I
  <2>4. IsFiniteSet(UNION I)
    BY <2>1, <2>2, <2>3, FS_Surjection, FS_UNION
  <2> QED
    BY <2>4 DEF I, rows
<1>6. ASSUME NEW c \in all PROVE \E a \in attempts : \E d \in mine(a) : c = row(a, d)
  OBVIOUS
<1> HIDE DEF all, row
<1>7. \A c \in all : c \in Candidates
  BY <1>3, <1>6
<1>8. ASSUME NEW c \in all, NEW d \in all, c.attempt = d.attempt, c.index = d.index PROVE c = d
  <2>1. PICK a \in attempts : \E x \in mine(a) : c = row(a, x)
    BY <1>6
  <2>2. PICK b \in attempts : \E x \in mine(b) : d = row(b, x)
    BY <1>6
  <2>3. a = b
    BY <1>3, <1>8, <2>1, <2>2 DEF AttemptsOk
  <2>4. PICK x \in mine(a) : c = row(a, x)
    BY <2>1
  <2>5. PICK y \in mine(a) : d = row(a, y)
    BY <2>2, <2>3
  <2>6. x \in candidates /\ y \in candidates /\ x.attempt = y.attempt /\ x.index = y.index
    BY <1>3, <1>8, <2>4, <2>5, MineOf
  <2>7. x = y
    BY <2>6 DEF CandidatesOk
  <2> QED
    BY <2>4, <2>5, <2>7
<1> QED
  BY <1>1, <1>5, <1>7, <1>8 DEF CandidatesOk

Jobs == [attempt: Nat, by: Generators, trigger: Nat, index: Nat, pose: PoseRecords, rank: Nat,
         order: Orders]

\* A job per attempt and candidate, and no more than the cap.
JobsOk(jobs) ==
  /\ jobs \subseteq Jobs
  /\ MaxJobs > 0 => \A j \in jobs : j.rank \in 1..MaxJobs
  /\ \A j, k \in jobs : j.attempt = k.attempt /\ j.index = k.index => j = k

LEMMA JobsOfOk ==
  ASSUME NEW attempts, AttemptsOk(attempts), NEW candidates, CandidatesOk(candidates),
         NEW order \in Orders
  PROVE  JobsOk(JobsOf(attempts, candidates, order))
<1> DEFINE mine(a) == Mine(a, candidates)
           rank(a, c) == RankOf(mine(a), order, c)
           ranked(a) == {c \in mine(a) : MaxJobs > 0 => rank(a, c) <= MaxJobs}
           row(a, c) == [attempt |-> a.id, by |-> a.by, trigger |-> a.trigger, index |-> c.index,
                         pose |-> c.pose, rank |-> rank(a, c), order |-> order]
           all == UNION {{row(a, c) : c \in ranked(a)} : a \in attempts}
<1>0. MaxJobs \in Nat
  BY PipelineTypes
<1>1. JobsOf(attempts, candidates, order) = all
  BY DEF JobsOf
<1>2. ASSUME NEW a \in attempts, NEW c \in mine(a) PROVE rank(a, c) \in Nat \ {0}
  <2>1. {d \in mine(a) : JobBefore(order, d, c)} \in SUBSET mine(a)
    OBVIOUS
  <2>2. Cardinality({d \in mine(a) : JobBefore(order, d, c)}) \in Nat
    BY <2>1, MineOf
  <2> QED
    BY <2>2 DEF RankOf
<1> HIDE DEF rank
<1>3. ASSUME NEW j \in all PROVE \E a \in attempts : \E c \in ranked(a) : j = row(a, c)
  OBVIOUS
<1> HIDE DEF all
<1>4. ASSUME NEW a \in attempts, NEW c \in ranked(a)
      PROVE  /\ row(a, c) \in Jobs /\ (MaxJobs > 0 => row(a, c).rank \in 1..MaxJobs)
             /\ row(a, c).attempt = a.id /\ row(a, c).index = c.index
             /\ c \in candidates /\ c.attempt = a.id
  <2>1. c \in candidates /\ c \in Candidates /\ c.attempt = a.id
    BY <1>4, MineOf
  <2>2. a \in [id: Nat, by: Generators, trigger: Nat]
    BY DEF AttemptsOk
  <2>3. rank(a, c) \in Nat \ {0} /\ (MaxJobs > 0 => rank(a, c) <= MaxJobs)
    BY <1>2, <1>4
  <2> QED
    BY <1>0, <2>1, <2>2, <2>3 DEF Jobs, Candidates
<1> HIDE DEF row, ranked
<1>5. all \subseteq Jobs /\ (MaxJobs > 0 => \A j \in all : j.rank \in 1..MaxJobs)
  BY <1>3, <1>4
<1>6. ASSUME NEW j \in all, NEW k \in all, j.attempt = k.attempt, j.index = k.index PROVE j = k
  <2>1. PICK a \in attempts : \E x \in ranked(a) : j = row(a, x)
    BY <1>3
  <2>2. PICK b \in attempts : \E x \in ranked(b) : k = row(b, x)
    BY <1>3
  <2>3. a = b
    BY <1>4, <1>6, <2>1, <2>2 DEF AttemptsOk
  <2>4. PICK x \in ranked(a) : j = row(a, x)
    BY <2>1
  <2>5. PICK y \in ranked(a) : k = row(a, y)
    BY <2>2, <2>3
  <2>6. x = y
    BY <1>4, <1>6, <2>4, <2>5 DEF CandidatesOk
  <2> QED
    BY <2>4, <2>5, <2>6
<1> QED
  BY <1>1, <1>5, <1>6 DEF JobsOk
-----------------------------------------------------------------------------
(* Scans, scores and the selection.                                        *)

Results == [converged: BOOLEAN, score: Nat, near: BOOLEAN, finite: BOOLEAN,
            measured: BOOLEAN, gate: BOOLEAN]
Statuses == {"scan_time_mismatch", "not_run", Resolved, Scored}
Rows == [job: Jobs, result: Results \union {None}, status: Statuses]

ScansOk(rows) == \A r \in rows : r \in Rows /\ r.result = None

\* The gate of a scored row is the scorer's verdict on its result.
ScoredOk(r) == /\ r.result \in Results
               /\ r.result.near => r.result.finite
               /\ r.result.gate <=> Gate(r.result)
ScoresOk(rows) == \A r \in rows : r \in Rows /\ (IsScored(r) => ScoredOk(r))

\* What a pose must have to be sent.
Sendable(row) ==
  LET result == row.result
  IN  /\ result.gate /\ result.converged /\ result.near /\ result.finite
      /\ result.score <= GateScore /\ result.score <= MaxScore

LEMMA ScanRowOk ==
  ASSUME NEW job \in Jobs
  PROVE  ScanRow(job) \in Rows /\ ScanRow(job).result = None
<1> DEFINE status == IF Distance(NearestStamp(ScanStamps, job.trigger), job.trigger) > MaxScanDiff
                     THEN "scan_time_mismatch" ELSE Resolved
<1>1. status \in Statuses
  BY DEF Statuses
<1>2. ScanRow(job) = [job |-> job, result |-> None, status |-> status]
  BY DEF ScanRow
<1> HIDE DEF status
<1>3. ScanRow(job) \in Rows
  BY <1>1, <1>2 DEF Rows
<1>4. ScanRow(job).result = None
  BY <1>2
<1> QED
  BY <1>3, <1>4

LEMMA ScoreRowOk ==
  ASSUME NEW row \in Rows, row.result = None, NEW o \in Scorings
  PROVE  /\ ScoreRow(row, o) \in Rows
         /\ IsScored(ScoreRow(row, o)) => ScoredOk(ScoreRow(row, o))
<1>1. /\ o \in [run: BOOLEAN, converged: BOOLEAN, near: BOOLEAN, finite: BOOLEAN,
               measured: BOOLEAN, score: Nat]
      /\ o.near => o.finite
  BY PipelineTypes
<1>0. row \in [job: Jobs, result: Results \union {None}, status: Statuses]
  BY DEF Rows
<1>2. CASE row.status # Resolved
  BY <1>2 DEF ScoreRow, IsScored
<1>4. CASE row.status = Resolved /\ ~o.run
  <2>1. ScoreRow(row, o) = [row EXCEPT !.status = "not_run"]
    BY <1>4 DEF ScoreRow
  <2>2. "not_run" \in Statuses
    BY DEF Statuses
  <2>3. ScoreRow(row, o) = [job |-> row.job, result |-> None, status |-> "not_run"]
    BY <1>0, <2>1
  <2>4. ScoreRow(row, o) \in Rows /\ ScoreRow(row, o).result = None
    BY <1>0, <2>2, <2>3 DEF Rows
  <2> QED
    BY <2>4 DEF IsScored
<1>3. CASE row.status = Resolved /\ o.run
  <2> DEFINE result == [converged |-> o.converged, score |-> o.score, near |-> o.near,
                        finite |-> o.finite, measured |-> o.measured, gate |-> Gate(o)]
  <2>1. Gate(o) \in BOOLEAN
    BY DEF Gate
  <2>2. result \in Results /\ (result.near => result.finite)
    BY <1>1, <2>1 DEF Results
  <2>3. result.gate <=> Gate(result)
    BY <1>1 DEF Gate
  <2>4. ScoreRow(row, o) = [row EXCEPT !.status = Scored, !.result = result]
    BY <1>3 DEF ScoreRow
  <2> HIDE DEF result
  <2>5. row \in [job: Jobs, result: Results \union {None}, status: Statuses]
    BY DEF Rows
  <2>6. Scored \in Statuses
    BY DEF Statuses
  <2>7. ScoreRow(row, o) = [job |-> row.job, result |-> result, status |-> Scored]
    BY <2>4, <2>5
  <2>8. ScoreRow(row, o).result = result
    BY <2>7
  <2>9. ScoreRow(row, o) \in Rows
    BY <2>2, <2>5, <2>6, <2>7 DEF Rows
  <2> QED
    BY <2>2, <2>3, <2>8, <2>9 DEF ScoredOk
<1> QED
  BY <1>2, <1>3, <1>4

\* The first of the scored rows in the order of the selection is one of them, and
\* none comes before it.
LEMMA BestOf ==
  ASSUME NEW S, S # {}, \A r \in S : r \in Rows /\ ScoredOk(r)
  PROVE  Best(S) \in S /\ \A s \in S : s.result.score >= Best(S).result.score
<1> DEFINE f == [s \in S |-> s.result.score]
           g == [s \in S |-> s.job.rank]
<1>1. \A s \in S : s.result.score \in Nat /\ s.job.rank \in Nat
  BY DEF Rows, Jobs, ScoredOk, Results
<1>2. f \in [S -> Nat] /\ g \in [S -> Nat]
  BY <1>1
<1>3. \A s \in S : f[s] = s.result.score /\ g[s] = s.job.rank
  OBVIOUS
<1> HIDE DEF f, g
<1>4. PICK r \in S : \A s \in S : f[r] < f[s] \/ (f[r] = f[s] /\ g[r] <= g[s])
  BY <1>2, FirstBy
<1>5. \A s \in S : ~RowBefore(s, r)
  BY <1>1, <1>3, <1>4 DEF RowBefore
<1>6. Best(S) \in S /\ \A s \in S : ~RowBefore(s, Best(S))
  BY <1>5 DEF Best
<1> QED
  BY <1>1, <1>6 DEF RowBefore

\* A selected row is an eligible one of the attempt, none eligible is better and
\* no scored one is within the margin.
LEMMA SelectedOf ==
  ASSUME NEW rows, ScoresOk(rows), NEW id, NEW margin \in Nat, PlanRow(rows, id, margin).selected
  PROVE  LET row == PlanRow(rows, id, margin).row
             rivals == {r \in rows \ {row} : r.job.attempt = id /\ IsScored(r)}
         IN  /\ row \in rows /\ row.job.attempt = id /\ IsScored(row) /\ IsEligible(row)
             /\ \A r \in rivals : /\ IsEligible(r) => r.result.score >= row.result.score
                                  /\ margin > 0 => r.result.score >= row.result.score + margin
<1> DEFINE scored   == {r \in rows : r.job.attempt = id /\ IsScored(r)}
           eligible == {r \in scored : IsEligible(r)}
           chosen   == Best(eligible)
           others   == scored \ {chosen}
           clear    == \/ margin = 0
                       \/ /\ others # {}
                          /\ Best(others).result.score >= chosen.result.score + margin
<1>1. eligible # {} /\ clear /\ PlanRow(rows, id, margin).row = chosen
  BY DEF PlanRow
<1>2. \A r \in scored : r \in Rows /\ ScoredOk(r)
  BY DEF ScoresOk
<1>3. chosen \in eligible /\ \A r \in eligible : r.result.score >= chosen.result.score
  <2> HIDE DEF scored
  <2> QED
    BY <1>1, <1>2, BestOf
<1>4. \A r \in scored : r.result.score \in Nat
  BY <1>2 DEF ScoredOk, Results
<1>5. ASSUME NEW r \in others, margin > 0
      PROVE  r.result.score >= chosen.result.score + margin
  <2>1. Best(others) \in others /\ r.result.score >= Best(others).result.score
    <3> HIDE DEF scored, chosen
    <3> QED
      BY <1>2, <1>5, BestOf
  <2>2. Best(others).result.score >= chosen.result.score + margin
    BY <1>1, <1>5
  <2> HIDE DEF scored, chosen
  <2>3. /\ r.result.score \in Nat /\ Best(others).result.score \in Nat
        /\ chosen.result.score \in Nat
    BY <1>3, <1>4, <1>5, <2>1
  <2> QED
    BY <2>1, <2>2, <2>3
<1> HIDE DEF chosen
<1> QED
  BY <1>1, <1>3, <1>5

LEMMA EligibleIsSendable ==
  ASSUME NEW row \in Rows, ScoredOk(row), IsEligible(row)
  PROVE  Sendable(row)
BY DEF ScoredOk, Sendable, IsEligible, Gate

PlanOk(plan) == \A p \in plan : p.selected => Sendable(p.row)

LEMMA PlanOfOk ==
  ASSUME NEW rows, ScoresOk(rows), NEW margin \in Nat
  PROVE  PlanOk(PlanOf(rows, margin))
<1> SUFFICES ASSUME NEW id, PlanRow(rows, id, margin).selected
             PROVE  Sendable(PlanRow(rows, id, margin).row)
  BY DEF PlanOk, PlanOf
<1> DEFINE row == PlanRow(rows, id, margin).row
<1>1. row \in rows /\ IsScored(row) /\ IsEligible(row)
  BY SelectedOf
<1>2. row \in Rows /\ ScoredOk(row)
  BY <1>1 DEF ScoresOk
<1> QED
  BY <1>1, <1>2, EligibleIsSendable

\* The selection on any scores file whose gates are the scorer's.
LEMMA SelectionOf ==
  ASSUME file.scores # None => ScoresOk(file.scores)
  PROVE  SelectionIsSound
<1> SUFFICES ASSUME file.scores # None, file.scores # {}, NEW margin \in Margins
             PROVE  LET plan == PlanOf(file.scores, margin)
                        rows == {p.row : p \in {q \in plan : q.selected}}
                        rivals(row) == {r \in file.scores \ {row} :
                                            r.job.attempt = row.job.attempt /\ IsScored(r)}
                    IN  /\ \A row \in rows : \A r \in rivals(row) :
                            /\ IsEligible(r) => r.result.score >= row.result.score
                            /\ margin > 0 => r.result.score >= row.result.score + margin
                        /\ (\A row \in rows : row.job.order # "oracle_rank") =>
                                PlanValid(plan, file.scores)
  BY DEF SelectionIsSound
<1> DEFINE scores == file.scores
           plan == PlanOf(scores, margin)
           rows == {p.row : p \in {q \in plan : q.selected}}
           rivals(row) == {r \in scores \ {row} : r.job.attempt = row.job.attempt /\ IsScored(r)}
<1>0. margin \in Nat /\ ScoresOk(scores)
  BY PipelineTypes
<1>1. \A p \in plan : \E id : p = PlanRow(scores, id, margin)
  BY DEF PlanOf
<1>2. plan # {}
  BY DEF PlanOf
<1> HIDE DEF plan, scores
<1>3. ASSUME NEW p \in plan, p.selected
      PROVE  /\ p.row \in scores /\ IsScored(p.row) /\ IsEligible(p.row) /\ ScoredOk(p.row)
             /\ \A r \in rivals(p.row) :
                    /\ IsEligible(r) => r.result.score >= p.row.result.score
                    /\ margin > 0 => r.result.score >= p.row.result.score + margin
  <2>1. PICK id : p = PlanRow(scores, id, margin)
    BY <1>1
  <2>2. /\ p.row \in scores /\ p.row.job.attempt = id /\ IsScored(p.row) /\ IsEligible(p.row)
        /\ \A r \in {r \in scores \ {p.row} : r.job.attempt = id /\ IsScored(r)} :
              /\ IsEligible(r) => r.result.score >= p.row.result.score
              /\ margin > 0 => r.result.score >= p.row.result.score + margin
    BY <1>0, <1>3, <2>1, SelectedOf
  <2>3. ScoredOk(p.row)
    BY <1>0, <2>2 DEF ScoresOk
  <2> QED
    BY <2>2, <2>3
<1>4. \A row \in rows : \A r \in rivals(row) :
        /\ IsEligible(r) => r.result.score >= row.result.score
        /\ margin > 0 => r.result.score >= row.result.score + margin
  BY <1>3
<1>5. ASSUME \A row \in rows : row.job.order # "oracle_rank" PROVE PlanValid(plan, scores)
  <2> SUFFICES ASSUME NEW p \in plan, p.selected
               PROVE  /\ p.row.job.order # "oracle_rank"
                      /\ IsEligible(p.row) /\ p.row.result.finite
                      /\ \E r \in scores :
                          /\ r.job.attempt = p.row.job.attempt /\ r.job.index = p.row.job.index
                          /\ IsScored(r) /\ r.result.gate /\ r.result.score = p.row.result.score
    BY <1>2 DEF PlanValid
  <2>1. p.row \in scores /\ IsScored(p.row) /\ IsEligible(p.row) /\ ScoredOk(p.row)
    BY <1>3
  <2>2. p.row.result.gate /\ p.row.result.finite
    BY <2>1 DEF IsEligible, ScoredOk
  <2>3. p.row.job.order # "oracle_rank"
    BY <1>5
  <2> QED
    BY <2>1, <2>2, <2>3
<1> QED
  BY <1>4, <1>5 DEF plan, scores
-----------------------------------------------------------------------------
(* The invariant: what each file holds, whatever became of the others.     *)

CommandsOk(commands) ==
  \A c \in commands : c.status = "dry_run_command_generated" => Sendable(c.row)

ExecutionOk(execution, sent) ==
  \A e \in execution : e.count > 0 => e.of \in sent /\ e.of.id = e.id

ObservationOk(observation, sent) ==
  \A o \in observation : o.accepted => \E c \in sent : c.id = o.id

FileOk(name, content, sent) ==
  /\ name = "attempts" => AttemptsOk(content)
  /\ name \in {"candidates", "oracle"} => CandidatesOk(content)
  /\ name = "jobs" => JobsOk(content)
  /\ name = "scans" => ScansOk(content)
  /\ name = "scores" => ScoresOk(content)
  /\ name = "plan" => PlanOk(content)
  /\ name = "commands" => CommandsOk(content)
  /\ name = "commandReport" => content \in BOOLEAN
  /\ name = "execution" => ExecutionOk(content, sent)
  /\ name = "observation" => ObservationOk(content, sent)

FilesOk(files, sent) == \A n \in FileNames : files[n] # None => FileOk(n, files[n], sent)

SentOk(sent) ==
  /\ Cardinality(sent) <= MaxPublished
  /\ \A c \in sent : Sendable(c.row) /\ c.row.job.order # "oracle_rank"

PipelineInv ==
  /\ log \in Logs /\ runs \in 1..MaxRecordings /\ rewrites \in 0..MaxRewrites
  /\ DOMAIN file = FileNames
  /\ FilesOk(file, published)
  /\ SentOk(published)

LEMMA InvHolds ==
  ASSUME PipelineInv
  PROVE  PublishedIsSound /\ AcceptedWasPublished
<1>1. /\ file.attempts # None => AttemptsOk(file.attempts)
      /\ file.jobs # None => JobsOk(file.jobs)
      /\ file.scores # None => ScoresOk(file.scores)
      /\ file.commandReport # None => file.commandReport \in BOOLEAN
      /\ file.observation # None => ObservationOk(file.observation, published)
  BY DEF PipelineInv, FilesOk, FileNames, FileOk
<1>2. file.attempts # None => \A a, b \in file.attempts :
            a.by \in Generators /\ (a.id < b.id <=> a.trigger < b.trigger)
  BY <1>1 DEF AttemptsOk
<1>3. file.jobs # None => \A j, k \in file.jobs :
            /\ j.order \in Orders /\ (MaxJobs > 0 => j.rank \in 1..MaxJobs)
            /\ j.attempt = k.attempt /\ j.index = k.index => j = k
  BY <1>1 DEF JobsOk, Jobs
<1>4. PipelineTypeOK
  BY <1>1, <1>2, <1>3 DEF PipelineTypeOK, PipelineInv, SentOk
<1>5. CandidatesAreFair
  BY FairOf DEF PipelineInv
<1>6. SelectionIsSound
  BY <1>1, SelectionOf
<1>7. PublishedIsEligible /\ OracleNeverPublished
  BY DEF PipelineInv, SentOk, Sendable, PublishedIsEligible, OracleNeverPublished
<1>8. AcceptedWasPublished
  BY <1>1 DEF ObservationOk, AcceptedWasPublished
<1> QED
  BY <1>4, <1>5, <1>6, <1>7, <1>8 DEF PublishedIsSound

LEMMA PipelineStarts ==
  ASSUME PipelineInit
  PROVE  PipelineInv
<1>1. MaxRecordings \in Nat \ {0} /\ MaxRewrites \in Nat /\ MaxPublished \in Nat \ {0}
  BY PipelineTypes
<1>2. DOMAIN file = FileNames /\ FilesOk(file, published)
  BY DEF PipelineInit, FilesOk
<1>3. Cardinality(published) <= MaxPublished
  BY <1>1, FS_EmptySet DEF PipelineInit
<1>4. SentOk(published)
  BY <1>3 DEF PipelineInit, SentOk
<1> QED
  BY <1>1, <1>2, <1>4 DEF PipelineInit, PipelineInv

\* A choice is redone only while the bound allows it.
LEMMA RewritesOf ==
  ASSUME rewrites \in 0..MaxRewrites, NEW n, Free(n), Replaced(n)
  PROVE  rewrites' \in 0..MaxRewrites
<1>1. MaxRewrites \in Nat
  BY PipelineTypes
<1> QED
  BY <1>1 DEF Free, Replaced

\* Writing one file leaves the others as they are.
LEMMA WriteKeeps ==
  ASSUME PipelineInv, NEW n \in FileNames, NEW content, Write(n, content),
         FileOk(n, content, published)
  PROVE  PipelineInv'
<1>1. file' = [file EXCEPT ![n] = content] /\ UNCHANGED <<log, runs, published>>
  BY DEF Write
<1>2. DOMAIN file = FileNames
  BY DEF PipelineInv
<1>3. DOMAIN file' = FileNames /\ file'[n] = content
      /\ \A m \in FileNames \ {n} : file'[m] = file[m]
  BY <1>1, <1>2
<1>4. FilesOk(file', published')
  BY <1>1, <1>3 DEF FilesOk, PipelineInv
<1>5. rewrites' \in 0..MaxRewrites
  BY RewritesOf DEF PipelineInv, Write
<1> QED
  BY <1>1, <1>3, <1>4, <1>5 DEF PipelineInv

LEMMA GenerateKeeps ==
  ASSUME PipelineInv, NEW kind \in {"route_grid", "map_grid"}, Generate(kind)
  PROVE  PipelineInv'
<1>1. /\ file' = [file EXCEPT !.attempts   = AttemptsOf(kind, log),
                              !.candidates = CandidatesOf(kind, log)]
      /\ UNCHANGED <<log, runs, published>>
  BY DEF Generate
<1>2. DOMAIN file = FileNames /\ log \in Logs /\ kind \in Generators
  BY DEF PipelineInv, Generators
<1>3. /\ DOMAIN file' = FileNames
      /\ file'["attempts"] = AttemptsOf(kind, log) /\ file'["candidates"] = CandidatesOf(kind, log)
      /\ \A m \in FileNames \ {"attempts", "candidates"} : file'[m] = file[m]
  BY <1>1, <1>2 DEF FileNames
<1>4. FileOk("attempts", AttemptsOf(kind, log), published)
  BY <1>2, AttemptsOfOk DEF FileOk
<1>5. FileOk("candidates", CandidatesOf(kind, log), published)
  BY <1>2, CandidatesOfOk DEF FileOk
<1>6. FilesOk(file', published')
  BY <1>1, <1>3, <1>4, <1>5 DEF FilesOk, PipelineInv
<1>7. rewrites' \in 0..MaxRewrites
  BY RewritesOf DEF PipelineInv, Generate
<1> QED
  BY <1>1, <1>3, <1>6, <1>7 DEF PipelineInv

LEMMA ScoreJobsKeeps ==
  ASSUME PipelineInv, ScoreJobs
  PROVE  PipelineInv'
<1>1. PICK outcome \in [file.scans -> Scorings], cap \in ScoreCaps :
        file' = [file EXCEPT !.scores =
          {IF Reached(row, file.scans, outcome, cap) THEN ScoreRow(row, outcome[row]) ELSE row :
             row \in file.scans}]
  BY DEF ScoreJobs
<1> DEFINE scored(row) == IF Reached(row, file.scans, outcome, cap)
                          THEN ScoreRow(row, outcome[row]) ELSE row
           scores == {scored(row) : row \in file.scans}
<1>2. ScansOk(file.scans)
  BY DEF PipelineInv, FilesOk, FileOk, FileNames, ScoreJobs, Has
<1>3. ScoresOk(scores)
  <2>1. ASSUME NEW row \in file.scans
        PROVE  scored(row) \in Rows /\ (IsScored(scored(row)) => ScoredOk(scored(row)))
    <3>1. row \in Rows /\ row.result = None /\ outcome[row] \in Scorings
      BY <1>2 DEF ScansOk
    <3>2. scored(row) = ScoreRow(row, outcome[row]) \/ scored(row) = row
      OBVIOUS
    <3> HIDE DEF scored
    <3> QED
      BY <3>1, <3>2, ScoreRowOk DEF IsScored
  <2> QED
    BY <2>1 DEF ScoresOk
<1> HIDE DEF scores
<1>4. DOMAIN file = FileNames /\ UNCHANGED <<log, runs, published>>
  BY DEF PipelineInv, ScoreJobs
<1>5. /\ DOMAIN file' = FileNames /\ file'["scores"] = scores
      /\ \A m \in FileNames \ {"scores"} : file'[m] = file[m]
  BY <1>1, <1>4 DEF FileNames, scores
<1>6. FileOk("scores", scores, published)
  BY <1>3 DEF FileOk
<1>7. FilesOk(file', published')
  BY <1>4, <1>5, <1>6 DEF FilesOk, PipelineInv
<1>8. rewrites' \in 0..MaxRewrites
  BY RewritesOf DEF PipelineInv, ScoreJobs
<1> QED
  BY <1>4, <1>5, <1>7, <1>8 DEF PipelineInv

LEMMA PublishKeeps ==
  ASSUME PipelineInv, NEW execute, NEW overwrite, Publish(execute, overwrite)
  PROVE  PipelineInv'
<1> DEFINE rows == {ExecutionRow(c, file.commandReport, execute) : c \in file.commands}
           sent == {e.of : e \in {x \in rows : x.count > 0}}
<1>1. /\ published' = published \union sent /\ Cardinality(published') <= MaxPublished
      /\ file' = [file EXCEPT !.execution = rows] \/ file' = file
      /\ UNCHANGED <<log, runs, rewrites>>
  BY DEF Publish
<1>2. CommandsOk(file.commands)
  BY DEF PipelineInv, FilesOk, FileOk, FileNames, Publish, Has
<1>3. ASSUME NEW e \in rows, e.count > 0
      PROVE  /\ e.of \in file.commands /\ e.of.id = e.id
             /\ ~CommandRejected(e.of)
  BY <1>3 DEF ExecutionRow
<1>4. \A c \in sent : Sendable(c.row) /\ c.row.job.order # "oracle_rank"
  BY <1>2, <1>3 DEF CommandRejected, CommandsOk
<1>5. SentOk(published')
  <2> HIDE DEF sent
  <2> QED
    BY <1>1, <1>4 DEF SentOk, PipelineInv
<1>6. ExecutionOk(rows, published')
  BY <1>1, <1>3 DEF ExecutionOk
<1> HIDE DEF rows, sent
<1>7. DOMAIN file' = FileNames
      /\ \A m \in FileNames : file'[m] = file[m] \/ (m = "execution" /\ file'[m] = rows)
  BY <1>1 DEF FileNames, PipelineInv
<1>8. \A m, content : FileOk(m, content, published) => FileOk(m, content, published')
  BY <1>1 DEF FileOk, ExecutionOk, ObservationOk
<1>9. FileOk("execution", rows, published')
  BY <1>6 DEF FileOk
<1>10. FilesOk(file', published')
  BY <1>7, <1>8, <1>9 DEF FilesOk, PipelineInv
<1> QED
  BY <1>1, <1>5, <1>7, <1>10 DEF PipelineInv

\* Every program keeps the invariant.
LEMMA PipelineSteps ==
  ASSUME PipelineInv, [PipelineNext]_pipelineVars
  PROVE  PipelineInv'
<1>1. CASE UNCHANGED pipelineVars
  BY <1>1 DEF pipelineVars, PipelineInv
<1>2. CASE RecordLog
  <2>0. MaxRecordings \in Nat
    BY PipelineTypes
  <2>1. runs' \in 1..MaxRecordings
    BY <1>2, <2>0 DEF RecordLog, PipelineInv
  <2> QED
    BY <1>2, <2>1 DEF RecordLog, PipelineInv
<1>3. ASSUME NEW kind \in {"route_grid", "map_grid"}, Generate(kind) PROVE PipelineInv'
  BY <1>3, GenerateKeeps
<1>4. CASE GenerateDisabled
  <2>1. FileOk("attempts", AttemptsOf("disabled", log), published)
    BY AttemptsOfOk DEF FileOk, PipelineInv, Generators
  <2> QED
    BY <1>4, <2>1, WriteKeeps DEF GenerateDisabled, FileNames
<1>5. CASE RankByOracle
  <2>1. AttemptsOk(file.attempts) /\ CandidatesOk(file.candidates)
    BY <1>5 DEF RankByOracle, Has, PipelineInv, FilesOk, FileOk, FileNames
  <2>2. FileOk("oracle", OracleRanked(file.attempts, file.candidates), published)
    BY <2>1, OracleRankedOk DEF FileOk
  <2> QED
    BY <1>5, <2>2, WriteKeeps DEF RankByOracle, FileNames
<1>6. ASSUME NEW from \in {"candidates", "oracle"}, NEW order \in Orders, MakeJobs(from, order)
      PROVE  PipelineInv'
  <2>1. AttemptsOk(file.attempts) /\ CandidatesOk(file[from])
    BY <1>6 DEF MakeJobs, Has, PipelineInv, FilesOk, FileOk, FileNames
  <2>2. FileOk("jobs", JobsOf(file.attempts, file[from], order), published)
    BY <2>1, JobsOfOk DEF FileOk
  <2> QED
    BY <1>6, <2>2, WriteKeeps DEF MakeJobs, FileNames
<1>7. CASE ResolveScans
  <2>1. JobsOk(file.jobs)
    BY <1>7 DEF ResolveScans, Has, PipelineInv, FilesOk, FileOk, FileNames
  <2>2. ScansOk({ScanRow(job) : job \in file.jobs})
    BY <2>1, ScanRowOk DEF ScansOk, JobsOk
  <2>3. FileOk("scans", {ScanRow(job) : job \in file.jobs}, published)
    BY <2>2 DEF FileOk
  <2> QED
    BY <1>7, <2>3, WriteKeeps DEF ResolveScans, FileNames
<1>8. CASE ScoreJobs
  BY <1>8, ScoreJobsKeeps
<1>9. CASE SelectPlan
  <2>1. ScoresOk(file.scores)
    BY <1>9 DEF SelectPlan, Has, PipelineInv, FilesOk, FileOk, FileNames
  <2>2. PICK margin \in Margins : Write("plan", PlanOf(file.scores, margin))
    BY <1>9 DEF SelectPlan
  <2>3. PlanOk(PlanOf(file.scores, margin))
    BY <2>1, PlanOfOk, PipelineTypes
  <2>4. FileOk("plan", PlanOf(file.scores, margin), published)
    BY <2>3 DEF FileOk
  <2> QED
    BY <2>2, <2>4, WriteKeeps DEF FileNames
<1>10. CASE MakeCommands
  <2>1. PlanOk(file.plan)
    BY <1>10 DEF MakeCommands, Has, PipelineInv, FilesOk, FileOk, FileNames
  <2>2. \A p, n : CommandRow(p, n).status = "dry_run_command_generated" =>
                    p.selected /\ CommandRow(p, n).row = p.row
    BY DEF CommandRow
  <2>3. CommandsOk(CommandsOf(file.plan))
    <3> SUFFICES ASSUME NEW p \in file.plan, NEW n,
                        CommandRow(p, n).status = "dry_run_command_generated"
                 PROVE  Sendable(CommandRow(p, n).row)
      BY DEF CommandsOf, CommandsOk
    <3>1. p.selected /\ CommandRow(p, n).row = p.row
      BY <2>2
    <3> QED
      BY <2>1, <3>1 DEF PlanOk
  <2>4. FileOk("commands", CommandsOf(file.plan), published)
    BY <2>3 DEF FileOk
  <2> QED
    BY <1>10, <2>4, WriteKeeps DEF MakeCommands, FileNames
<1>11. CASE ValidateCommands
  <2>1. CommandsValid(file.commands) \in BOOLEAN
    BY DEF CommandsValid
  <2>2. FileOk("commandReport", CommandsValid(file.commands), published)
    BY <2>1 DEF FileOk
  <2> QED
    BY <1>11, <2>2, WriteKeeps DEF ValidateCommands, FileNames
<1>12. ASSUME NEW execute \in BOOLEAN, NEW overwrite \in BOOLEAN, Publish(execute, overwrite)
       PROVE  PipelineInv'
  BY <1>12, PublishKeeps
<1>13. CASE Observe
  <2> DEFINE rows == {ObservationRow(e, file.commands, log) : e \in file.execution}
  <2>1. ExecutionOk(file.execution, published)
    BY <1>13 DEF Observe, Has, PipelineInv, FilesOk, FileOk, FileNames
  <2>2. \A e, commands, l : /\ ObservationRow(e, commands, l).id = e.id
                            /\ ObservationRow(e, commands, l).accepted => e.count > 0
    BY DEF ObservationRow
  <2>3. ObservationOk(rows, published)
    <3> SUFFICES ASSUME NEW e \in file.execution, ObservationRow(e, file.commands, log).accepted
                 PROVE  \E c \in published : c.id = ObservationRow(e, file.commands, log).id
      BY DEF ObservationOk
    <3> QED
      BY <2>1, <2>2 DEF ExecutionOk
  <2>4. FileOk("observation", rows, published)
    BY <2>3 DEF FileOk
  <2> QED
    BY <1>13, <2>4, WriteKeeps DEF Observe, FileNames
<1> QED
  BY <1>1, <1>2, <1>3, <1>4, <1>5, <1>6, <1>7, <1>8, <1>9, <1>10, <1>11, <1>12, <1>13
     DEF PipelineNext

LEMMA PipelineInvariant == PipelineSpec => []PipelineInv
<1>1. PipelineInit => PipelineInv
  BY PipelineStarts
<1>2. PipelineInv /\ [PipelineNext]_pipelineVars => PipelineInv'
  BY PipelineSteps
<1> QED
  BY <1>1, <1>2, PTL DEF PipelineSpec

\* Whatever program is rerun over whichever files, candidates are fair, the
\* selection is sound, and a pose goes to /initialpose only if its registration
\* passed both thresholds and the reference trajectory had no part in it
\* (the workflow scripts of lidar_localization_ros2/scripts).
THEOREM PublishedPosesAreSound == PipelineSpec => []PublishedIsSound
<1>1. PipelineInv => PublishedIsSound
  BY InvHolds
<1> QED
  BY <1>1, PipelineInvariant, PTL

\* The observer reports a recovery only for a command id whose pose was sent,
\* however old the report and the commands it joins are.
THEOREM AcceptedPosesWerePublished == PipelineSpec => []AcceptedWasPublished
<1>1. PipelineInv => AcceptedWasPublished
  BY InvHolds
<1> QED
  BY <1>1, PipelineInvariant, PTL
=============================================================================
