----------------------------- MODULE WalletProofs -----------------------------
(***************************************************************************)
(* The wallet's tree, its witnesses and the two fixture generators, for    *)
(* every depth of the tree, every amount and whatever the pool does        *)
(* meanwhile.                                                              *)
(*                                                                         *)
(* The tree that a wallet rebuilds level by level, and the one that the    *)
(* contract keeps as one subtree per level, are compared by way of the     *)
(* complete tree: each row of the wallet's covers the row of the complete  *)
(* tree, and to the right of it there are only empty subtrees. That two    *)
(* trees are the same leaf by leaf when their roots are, is where nothing  *)
(* may have the digest zero: a path must not end above the leaves.         *)
(*                                                                         *)
(* The generator gen_nonce_race reads at three moments: SeededIInv says    *)
(* what it knows between them. Then build_witness: its asserts in integers *)
(* are the circuit's constraints in the field. Last gen_smoke: the         *)
(* constraints that each forged witness violates, by name, and the pool in *)
(* which its two spends settle.                                            *)
(***************************************************************************)
EXTENDS SeededTree, WitnessAgreement, SmokeFixture, ShieldedPoolLogicProofs, FiniteSetTheorems,
        SequenceTheorems

\* One level of Tree._levels above another, and the levels up to n.
Halved(below, padding) ==
    [i \in 1..((Len(below) + 1) \div 2) |->
        Hash(below[2 * i - 1], IF 2 * i <= Len(below) THEN below[2 * i] ELSE padding)]

Rows(cms, n, g) ==
    [d \in 0..n |-> IF d = 0 THEN (IF cms = <<>> THEN <<zeros[0]>> ELSE cms)
                    ELSE Halved(g[d - 1], zeros[d - 1])]

LEMMA RowsExist ==
    ASSUME NEW cms
    PROVE  \A n \in Nat : \E g : g = Rows(cms, n, g)
<1> DEFINE base == IF cms = <<>> THEN <<zeros[0]>> ELSE cms
           T == {n \in Nat : \E g : g = Rows(cms, n, g)}
<1>1. 0 \in T
    <2>1. [d \in 0..0 |-> base] = Rows(cms, 0, [d \in 0..0 |-> base])
        BY DEF Rows
    <2> QED
        BY <2>1
<1>2. ASSUME NEW n \in Nat, n \in T PROVE n + 1 \in T
    <2>1. PICK g : g = Rows(cms, n, g)
        BY <1>2
    <2> DEFINE h == [d \in 0..(n + 1) |-> IF d = n + 1 THEN Halved(g[n], zeros[n]) ELSE g[d]]
    <2>2. \A d \in 0..n : g[d] = IF d = 0 THEN base ELSE Halved(g[d - 1], zeros[d - 1])
        BY <2>1 DEF Rows
    <2> HIDE DEF base
    <2>3. ASSUME NEW d \in 0..(n + 1)
          PROVE  h[d] = IF d = 0 THEN base ELSE Halved(h[d - 1], zeros[d - 1])
        BY <2>2
    <2>4. h = Rows(cms, n + 1, h)
        BY <2>3 DEF Rows, base
    <2> QED
        BY <2>4
<1> HIDE DEF T
<1>3. \A n \in Nat : n \in T
    BY <1>1, <1>2, SetInduction
<1> QED
    BY <1>3 DEF T

LEMMA LevelsUnfolded ==
    ASSUME NEW cms
    PROVE  /\ TreeLevels(cms)[0] = IF cms = <<>> THEN <<Zero>> ELSE cms
           /\ \A d \in 0..(DEPTH - 1) :
                  TreeLevels(cms)[d + 1] = Halved(TreeLevels(cms)[d], zeros[d])
<1> DEFINE g == TreeLevels(cms)
<1>1. g = CHOOSE h : h = Rows(cms, DEPTH, h)
    BY DEF TreeLevels, Rows, Halved, Levels
<1>2. g = Rows(cms, DEPTH, g)
    BY <1>1, RowsExist, ShapeAssumption
<1> HIDE DEF g
<1>3. \A d \in 0..DEPTH : g[d] = IF d = 0 THEN (IF cms = <<>> THEN <<zeros[0]>> ELSE cms)
                                 ELSE Halved(g[d - 1], zeros[d - 1])
    BY <1>2 DEF Rows
<1>4. g[0] = IF cms = <<>> THEN <<Zero>> ELSE cms
    BY <1>3, ZerosUnfolded, ShapeAssumption
<1>5. \A d \in 0..(DEPTH - 1) : g[d + 1] = Halved(g[d], zeros[d])
    BY <1>3, ShapeAssumption
<1> QED
    BY <1>4, <1>5 DEF g

LEMMA HalvedRow ==
    ASSUME NEW below, NEW padding, Len(below) \in Nat
    PROVE  /\ Len(Halved(below, padding)) = (Len(below) + 1) \div 2
           /\ \A i \in 1..((Len(below) + 1) \div 2) :
                  Halved(below, padding)[i] =
                      Hash(below[2 * i - 1],
                           IF 2 * i <= Len(below) THEN below[2 * i] ELSE padding)
<1> DEFINE n == (Len(below) + 1) \div 2
<1>1. n \in Nat
    OBVIOUS
<1>2. DOMAIN Halved(below, padding) = 1..n
    BY DEF Halved
<1>3. Len(Halved(below, padding)) = n
    BY <1>1, <1>2
<1>4. \A i \in 1..n : Halved(below, padding)[i] =
          Hash(below[2 * i - 1], IF 2 * i <= Len(below) THEN below[2 * i] ELSE padding)
    BY DEF Halved
<1> QED
    BY <1>3, <1>4

\* A row of the wallet's tree against the one of the complete tree over f.
Covers(row, level, f) ==
    /\ Len(row) \in Nat \ {0}
    /\ \A i \in 1..Len(row) : i - 1 \in Row(level) /\ row[i] = Nodes(f)[level][i - 1]
    /\ \A i \in Row(level) : i >= Len(row) => Nodes(f)[level][i] = zeros[level]

\* The commitments of a list and the empty leaves after them.
PaddedList(cms, f) ==
    /\ cms = <<>> \/ Len(cms) \in 1..CAPACITY
    /\ \A i \in Indices : f[i] = IF i < Len(cms) THEN cms[i + 1] ELSE Zero

LEMMA LeavesCovered ==
    ASSUME NEW cms, NEW f, PaddedList(cms, f)
    PROVE  Covers(TreeLevels(cms)[0], 0, f)
<1>1. /\ Row(0) = Indices /\ Nodes(f)[0] = f /\ zeros[0] = Zero
      /\ CAPACITY \in Nat /\ CAPACITY >= 2
    BY RowsHalve, NodesUnfolded, ZerosUnfolded, ShapeAssumption
<1>2. CASE cms = <<>>
    <2>1. TreeLevels(cms)[0] = <<Zero>> /\ Len(cms) = 0
        BY <1>2, LevelsUnfolded
    <2>2. \A i \in Indices : f[i] = Zero
        BY <2>1 DEF PaddedList, Indices
    <2>3. 0 \in Indices
        BY <1>1 DEF Indices
    <2> QED
        BY <1>1, <2>1, <2>2, <2>3 DEF Covers
<1>3. CASE cms # <<>>
    <2>1. TreeLevels(cms)[0] = cms /\ Len(cms) \in 1..CAPACITY
        BY <1>3, LevelsUnfolded DEF PaddedList
    <2>2. \A i \in 1..Len(cms) : i - 1 \in Indices /\ cms[i] = f[i - 1]
        BY <1>1, <2>1 DEF PaddedList, Indices
    <2>3. \A i \in Indices : i >= Len(cms) => f[i] = Zero
        BY <2>1 DEF PaddedList, Indices
    <2> QED
        BY <1>1, <2>1, <2>2, <2>3 DEF Covers
<1> QED
    BY <1>2, <1>3

\* Pairing the nodes of a row, an odd end with the empty subtree.
LEMMA HalvedCovers ==
    ASSUME NEW f, NEW level \in 0..(DEPTH - 1), NEW below, Covers(below, level, f)
    PROVE  Covers(Halved(below, zeros[level]), level + 1, f)
<1> DEFINE row == Halved(below, zeros[level])
           N(l, i) == Nodes(f)[l][i]
           k == Len(below)
           len == (k + 1) \div 2
<1>1. k \in Nat \ {0} /\ len \in Nat \ {0} /\ level \in Nat
    BY DEF Covers
<1>2. /\ Len(row) = len
      /\ \A i \in 1..len :
             row[i] = Hash(below[2 * i - 1], IF 2 * i <= k THEN below[2 * i] ELSE zeros[level])
    BY <1>1, HalvedRow
<1>3. /\ \A i \in 1..k : i - 1 \in Row(level) /\ below[i] = N(level, i - 1)
      /\ \A i \in Row(level) : i >= k => N(level, i) = zeros[level]
    BY DEF Covers
<1>4. \A i \in Row(level + 1) :
          /\ i \in Nat
          /\ 2 * i \in Row(level) /\ 2 * i + 1 \in Row(level)
          /\ N(level + 1, i) = Hash(N(level, 2 * i), N(level, 2 * i + 1))
    <2>1. level + 1 \in Levels
        BY ShapeAssumption DEF Levels
    <2>2. \A i \in Row(level + 1) : i \in Nat
        BY <2>1, RowsHalve
    <2> QED
        BY <2>2, RowsHalve, NodesUnfolded
<1> HIDE DEF row, N, k
<1>5. ASSUME NEW i \in 1..len
      PROVE  i - 1 \in Row(level + 1) /\ row[i] = N(level + 1, i - 1)
    <2>1. 2 * i - 1 \in 1..k /\ i - 1 \in Nat
        BY <1>1
    <2>2. (2 * i - 1) - 1 \in Row(level) /\ below[2 * i - 1] = N(level, (2 * i - 1) - 1)
        BY <1>3, <2>1
    <2>3. (2 * i - 1) - 1 = 2 * (i - 1) /\ (2 * i - 1) - 1 \in Nat
        BY <2>1
    <2>4. i - 1 \in Row(level + 1)
        <3>1. (2 * (i - 1)) \div 2 = i - 1 /\ 2 * (i - 1) \in Nat
            BY <2>1
        <3> QED
            BY <2>2, <2>3, <3>1, RowsHalve
    <2>5. /\ 2 * (i - 1) + 1 \in Row(level)
          /\ N(level + 1, i - 1) = Hash(N(level, 2 * (i - 1)), N(level, 2 * (i - 1) + 1))
        BY <1>4, <2>4
    <2>6. (IF 2 * i <= k THEN below[2 * i] ELSE zeros[level]) = N(level, 2 * (i - 1) + 1)
        <3>1. 2 * (i - 1) + 1 = 2 * i - 1
            BY <2>1
        <3>2. CASE 2 * i <= k
            <4>1. 2 * i \in 1..k
                BY <1>1, <3>2
            <4> QED
                BY <1>3, <3>1, <3>2, <4>1
        <3>3. CASE ~(2 * i <= k)
            <4>1. 2 * (i - 1) + 1 >= k
                BY <1>1, <3>3
            <4> QED
                BY <1>3, <2>5, <3>3, <4>1
        <3> QED
            BY <3>2, <3>3
    <2> QED
        BY <1>2, <2>2, <2>3, <2>4, <2>5, <2>6
<1>6. ASSUME NEW i \in Row(level + 1), i >= len
      PROVE  N(level + 1, i) = zeros[level + 1]
    <2>1. i \in Nat /\ 2 * i \in Row(level) /\ 2 * i + 1 \in Row(level)
        BY <1>4
    <2>2. 2 * i >= k /\ 2 * i + 1 >= k
        BY <1>1, <1>6, <2>1
    <2>3. N(level, 2 * i) = zeros[level] /\ N(level, 2 * i + 1) = zeros[level]
        BY <1>3, <2>1, <2>2
    <2> QED
        BY <1>4, <2>3, ZerosUnfolded
<1> QED
    BY <1>1, <1>2, <1>5, <1>6 DEF Covers, N, row

LEMMA LevelsCover ==
    ASSUME NEW cms, NEW f, PaddedList(cms, f)
    PROVE  \A d \in Levels : Covers(TreeLevels(cms)[d], d, f)
<1> DEFINE T == {n \in Nat : n <= DEPTH => Covers(TreeLevels(cms)[n], n, f)}
<1>1. 0 \in T
    BY LeavesCovered
<1>2. ASSUME NEW n \in Nat, n \in T PROVE n + 1 \in T
    <2> SUFFICES ASSUME n + 1 <= DEPTH PROVE Covers(TreeLevels(cms)[n + 1], n + 1, f)
        OBVIOUS
    <2>1. n \in 0..(DEPTH - 1) /\ Covers(TreeLevels(cms)[n], n, f)
        BY <1>2, ShapeAssumption
    <2>2. TreeLevels(cms)[n + 1] = Halved(TreeLevels(cms)[n], zeros[n])
        BY <2>1, LevelsUnfolded
    <2> QED
        BY <2>1, <2>2, HalvedCovers
<1> HIDE DEF T
<1>3. \A n \in Nat : n \in T
    BY <1>1, <1>2, SetInduction
<1> QED
    BY <1>3, ShapeAssumption DEF T, Levels

LEMMA TreeRootIsComplete ==
    ASSUME NEW cms, NEW f, PaddedList(cms, f)
    PROVE  TreeRoot(cms) = MerkleRoot(f)
<1>1. Covers(TreeLevels(cms)[DEPTH], DEPTH, f)
    BY LevelsCover, ShapeAssumption DEF Levels
<1>2. 1 \in 1..Len(TreeLevels(cms)[DEPTH]) /\ 1 - 1 = 0
    BY <1>1 DEF Covers
<1>3. TreeLevels(cms)[DEPTH][1] = Nodes(f)[DEPTH][0]
    BY <1>1, <1>2 DEF Covers
<1> QED
    BY <1>3, NodesUnfolded DEF TreeRoot

-----------------------------------------------------------------------------
\* The nodes that a path passes on its way up.
WayUp(cm, path, n, g) ==
    [d \in 0..n |-> IF d = 0 THEN cm
                    ELSE IF path[d - 1].bit = 0
                         THEN Hash(g[d - 1], path[d - 1].sibling)
                         ELSE Hash(path[d - 1].sibling, g[d - 1])]

LEMMA WayUpExists ==
    ASSUME NEW cm, NEW path
    PROVE  \A n \in Nat : \E g : g = WayUp(cm, path, n, g)
<1> DEFINE Up(node, d) == IF path[d].bit = 0 THEN Hash(node, path[d].sibling)
                          ELSE Hash(path[d].sibling, node)
           T == {n \in Nat : \E g : g = WayUp(cm, path, n, g)}
<1>1. 0 \in T
    <2>1. [d \in 0..0 |-> cm] = WayUp(cm, path, 0, [d \in 0..0 |-> cm])
        BY DEF WayUp
    <2> QED
        BY <2>1
<1>2. ASSUME NEW n \in Nat, n \in T PROVE n + 1 \in T
    <2>1. PICK g : g = WayUp(cm, path, n, g)
        BY <1>2
    <2> DEFINE h == [d \in 0..(n + 1) |-> IF d = n + 1 THEN Up(g[n], n) ELSE g[d]]
    <2>2. \A d \in 0..n : g[d] = IF d = 0 THEN cm ELSE Up(g[d - 1], d - 1)
        BY <2>1 DEF WayUp
    <2> HIDE DEF Up
    <2>3. ASSUME NEW d \in 0..(n + 1)
          PROVE  h[d] = IF d = 0 THEN cm ELSE Up(h[d - 1], d - 1)
        BY <2>2
    <2>4. h = WayUp(cm, path, n + 1, h)
        BY <2>3 DEF WayUp, Up
    <2> QED
        BY <2>4
<1> HIDE DEF T
<1>3. \A n \in Nat : n \in T
    BY <1>1, <1>2, SetInduction
<1> QED
    BY <1>3 DEF T

\* The siblings that auth_path collects are the nodes beside the way of an index.
LEMMA SiblingsOnPath ==
    ASSUME NEW cms, NEW f, PaddedList(cms, f), NEW index \in Indices, NEW d \in 0..(DEPTH - 1)
    PROVE  LET p == Place(index, d + 1)
           IN  /\ AuthPath(cms, index)[d].bit = Bit(index, d)
               /\ Bit(index, d) = 0 => /\ Place(index, d) = 2 * p
                                       /\ AuthPath(cms, index)[d].sibling = Nodes(f)[d][2 * p + 1]
               /\ Bit(index, d) # 0 => /\ Place(index, d) = 2 * p + 1
                                       /\ AuthPath(cms, index)[d].sibling = Nodes(f)[d][2 * p]
               /\ p \in Row(d + 1)
<1> DEFINE row == TreeLevels(cms)[d]
           at == Place(index, d)
           p == Place(index, d + 1)
           sib == Sibling(at)
<1>1. /\ index \in Nat /\ d \in Levels /\ d + 1 \in Levels
    BY ShapeAssumption DEF Indices, Levels
<1>2. /\ at \in Nat /\ p = at \div 2 /\ Bit(index, d) = at % 2 /\ p \in Row(d + 1) /\ p \in Nat
    BY <1>1, PlaceHalves, PlaceInRow
<1>3. 2 * p \in Row(d) /\ 2 * p + 1 \in Row(d)
    BY <1>2, RowsHalve
<1>4. Covers(row, d, f)
    BY <1>1, LevelsCover
<1>5. AuthPath(cms, index)[d] =
          [sibling |-> IF sib < Len(row) THEN row[sib + 1] ELSE zeros[d], bit |-> Bit(index, d)]
    BY DEF AuthPath
<1> HIDE DEF row, at, p
<1>6. /\ Bit(index, d) = 0 => at = 2 * p /\ sib = 2 * p + 1
      /\ Bit(index, d) # 0 => at = 2 * p + 1 /\ sib = 2 * p
    BY <1>2 DEF Sibling
<1>7. sib \in Row(d) /\ sib \in Nat
    BY <1>2, <1>3, <1>6
<1> HIDE DEF sib
<1>8. (IF sib < Len(row) THEN row[sib + 1] ELSE zeros[d]) = Nodes(f)[d][sib]
    <2>1. CASE sib < Len(row)
        <3>1. sib + 1 \in 1..Len(row) /\ (sib + 1) - 1 = sib
            BY <1>4, <1>7, <2>1 DEF Covers
        <3> QED
            BY <1>4, <2>1, <3>1 DEF Covers
    <2>2. CASE ~(sib < Len(row))
        <3>1. sib >= Len(row)
            BY <1>4, <1>7, <2>2 DEF Covers
        <3> QED
            BY <1>4, <1>7, <2>2, <3>1 DEF Covers
    <2> QED
        BY <2>1, <2>2
<1>9. AuthPath(cms, index)[d].bit = Bit(index, d) /\ AuthPath(cms, index)[d].sibling = Nodes(f)[d][sib]
    BY <1>5, <1>8
<1> QED
    BY <1>2, <1>6, <1>9 DEF at, p

LEMMA PathLeadsToRoot ==
    ASSUME NEW cms, NEW f, PaddedList(cms, f), NEW index \in Indices
    PROVE  PathRoot(f[index], AuthPath(cms, index)) = MerkleRoot(f)
<1> DEFINE path == AuthPath(cms, index)
           way == CHOOSE g : g = WayUp(f[index], path, DEPTH, g)
<1>1. PathRoot(f[index], path) = way[DEPTH]
    BY DEF PathRoot, WayUp, Levels
<1>2. way = WayUp(f[index], path, DEPTH, way)
    BY WayUpExists, ShapeAssumption
<1> HIDE DEF way, path
<1>3. /\ way[0] = f[index]
      /\ \A d \in 0..(DEPTH - 1) :
             way[d + 1] = IF path[d].bit = 0 THEN Hash(way[d], path[d].sibling)
                          ELSE Hash(path[d].sibling, way[d])
    <2>1. \A d \in 0..DEPTH : way[d] =
              IF d = 0 THEN f[index]
              ELSE IF path[d - 1].bit = 0 THEN Hash(way[d - 1], path[d - 1].sibling)
                   ELSE Hash(path[d - 1].sibling, way[d - 1])
        BY <1>2 DEF WayUp
    <2> QED
        BY <2>1, ShapeAssumption
<1> DEFINE T == {n \in Nat : n <= DEPTH => way[n] = Nodes(f)[n][Place(index, n)]}
<1>4. 0 \in T
    <2>1. Place(index, 0) = index
        BY PlaceHalves DEF Indices
    <2> QED
        BY <1>3, <2>1, NodesUnfolded
<1>5. ASSUME NEW n \in Nat, n \in T PROVE n + 1 \in T
    <2> SUFFICES ASSUME n + 1 <= DEPTH
                 PROVE  way[n + 1] = Nodes(f)[n + 1][Place(index, n + 1)]
        OBVIOUS
    <2> DEFINE p == Place(index, n + 1)
    <2>1. n \in 0..(DEPTH - 1) /\ way[n] = Nodes(f)[n][Place(index, n)]
        BY <1>5, ShapeAssumption
    <2>2. /\ path[n].bit = Bit(index, n)
          /\ Bit(index, n) = 0 => Place(index, n) = 2 * p /\ path[n].sibling = Nodes(f)[n][2 * p + 1]
          /\ Bit(index, n) # 0 => Place(index, n) = 2 * p + 1 /\ path[n].sibling = Nodes(f)[n][2 * p]
          /\ p \in Row(n + 1)
        BY <2>1, SiblingsOnPath DEF path
    <2> HIDE DEF p
    <2>3. Nodes(f)[n + 1][p] = Hash(Nodes(f)[n][2 * p], Nodes(f)[n][2 * p + 1])
        BY <2>1, <2>2, NodesUnfolded
    <2>4. way[n + 1] = Nodes(f)[n + 1][p]
        BY <1>3, <2>1, <2>2, <2>3
    <2> QED
        BY <2>4 DEF p
<1> HIDE DEF T
<1>6. \A n \in Nat : n \in T
    BY <1>4, <1>5, SetInduction
<1>7. way[DEPTH] = Nodes(f)[DEPTH][Place(index, DEPTH)]
    BY <1>6, ShapeAssumption DEF T
<1> QED
    BY <1>1, <1>7, PlaceInRow, NodesUnfolded DEF path

-----------------------------------------------------------------------------
(***************************************************************************)
(* The events of an epoch, put in order, are the leaves of its row: there  *)
(* are no gaps below the last of them, in a closed epoch as in the active  *)
(* one, so their number is the index of the first empty leaf.              *)
(***************************************************************************)
FillsTo(S, epoch, k) ==
    \A index \in Indices :
        index < k <=> \E leaf \in S : leaf.epoch = epoch /\ leaf.index = index

NoGaps(S, last) == \A epoch \in 0..last : \E k \in 0..CAPACITY : FillsTo(S, epoch, k)

Placed(S) == PlacesDiffer(S) /\ \A leaf \in S : leaf.index \in Indices

LEMMA CountedByIndex ==
    ASSUME NEW S, Placed(S), NEW epoch, NEW k \in 0..CAPACITY, FillsTo(S, epoch, k)
    PROVE  Cardinality({leaf \in S : leaf.epoch = epoch}) = k
<1> DEFINE own == {leaf \in S : leaf.epoch = epoch}
           EventAt(i) == CHOOSE leaf \in own : leaf.index = i
           g == [i \in 0..(k - 1) |-> EventAt(i)]
<1>1. k \in Nat /\ CAPACITY \in Nat
    BY ShapeAssumption
<1>2. \A i \in 0..(k - 1) : i \in Indices /\ i < k
    BY <1>1 DEF Indices
<1>3. \A i \in 0..(k - 1) : \E leaf \in own : leaf.index = i
    BY <1>2 DEF FillsTo
<1>4. \A i \in 0..(k - 1) : EventAt(i) \in own /\ EventAt(i).index = i
    BY <1>3
<1>5. \A leaf \in own : leaf.index \in 0..(k - 1)
    BY <1>1 DEF Placed, FillsTo, Indices
<1>6. \A a, b \in own : a.index = b.index => a = b
    BY DEF Placed, PlacesDiffer
<1> HIDE DEF own, EventAt
<1>7. g \in Bijection(0..(k - 1), own)
    <2>1. g \in [0..(k - 1) -> own]
        BY <1>4
    <2>2. \A i, j \in 0..(k - 1) : g[i] = g[j] => i = j
        BY <1>4
    <2>3. \A leaf \in own : \E i \in 0..(k - 1) : g[i] = leaf
        BY <1>4, <1>5, <1>6
    <2> QED
        BY <2>1, <2>2, <2>3 DEF Bijection, Injection, Surjection, IsInjective
<1> HIDE DEF g
<1>8. IsFiniteSet(0..(k - 1)) /\ Cardinality(0..(k - 1)) = k
    BY <1>1, FS_Interval
<1>9. ExistsBijection(0..(k - 1), own)
    BY <1>7 DEF ExistsBijection
<1>10. Cardinality(own) = Cardinality(0..(k - 1))
    BY <1>8, <1>9, FS_Bijection
<1> QED
    BY <1>8, <1>10 DEF own

LEMMA InOrderIsRow ==
    ASSUME NEW S, Placed(S), NEW epoch, NEW k \in 0..CAPACITY, FillsTo(S, epoch, k)
    PROVE  /\ Len(InOrder(S, epoch)) = k
           /\ PaddedList(InOrder(S, epoch), LeafRow(S, epoch, CAPACITY))
<1> DEFINE own == {leaf \in S : leaf.epoch = epoch}
           EventAt(i) == CHOOSE leaf \in own : leaf.index = i
           f == LeafRow(S, epoch, CAPACITY)
<1>1. k \in Nat /\ CAPACITY \in Nat
    BY ShapeAssumption
<1>2. Cardinality(own) = k
    BY CountedByIndex
<1>3. InOrder(S, epoch) = [i \in 1..k |-> EventAt(i - 1).cm]
    BY <1>2 DEF InOrder
<1>4. Len(InOrder(S, epoch)) = k /\ \A i \in 1..k : InOrder(S, epoch)[i] = EventAt(i - 1).cm
    BY <1>1, <1>3
<1>5. k = 0 => InOrder(S, epoch) = <<>>
    BY <1>3
<1>6. \A index \in Indices : index < k => EventAt(index) \in own /\ EventAt(index).index = index
    BY DEF FillsTo
<1>7. \A index \in Indices : index < k => f[index] = EventAt(index).cm
    <2>1. \A leaf \in S : leaf.epoch = epoch /\ leaf.index < CAPACITY /\ leaf.index \in Indices =>
              f[leaf.index] = leaf.cm
        BY RowReads DEF Placed
    <2>2. \A index \in Indices : index < CAPACITY
        BY <1>1 DEF Indices
    <2> HIDE DEF f, EventAt
    <2>3. \A leaf \in own : leaf \in S /\ leaf.epoch = epoch
        OBVIOUS
    <2> QED
        BY <1>6, <2>1, <2>2, <2>3
<1>8. \A index \in Indices : ~(index < k) => f[index] = Zero
    <2>1. \A index \in Indices :
              (\A leaf \in S : leaf.epoch = epoch /\ leaf.index = index => ~(index < CAPACITY))
              => f[index] = Zero
        BY RowReads DEF Placed
    <2>2. ASSUME NEW index \in Indices, ~(index < k)
          PROVE  \A leaf \in S : ~(leaf.epoch = epoch /\ leaf.index = index)
        BY <2>2 DEF FillsTo
    <2> HIDE DEF f
    <2> QED
        BY <2>1, <2>2
<1> HIDE DEF f, own, EventAt
<1>9. \A i \in Indices : i < k => i + 1 \in 1..k /\ (i + 1) - 1 = i
    BY <1>1 DEF Indices
<1>10. \A i \in Indices :
           f[i] = IF i < Len(InOrder(S, epoch)) THEN InOrder(S, epoch)[i + 1] ELSE Zero
    BY <1>4, <1>7, <1>8, <1>9
<1>11. InOrder(S, epoch) = <<>> \/ Len(InOrder(S, epoch)) \in 1..CAPACITY
    BY <1>1, <1>4, <1>5
<1> QED
    BY <1>4, <1>10, <1>11 DEF PaddedList, f

-----------------------------------------------------------------------------
\* What a call that appends leaves adds, and where.
LEMMA AppendKeepsFilled ==
    ASSUME TreeShape, IndicesDense, NoGaps(leaves, currentEpoch),
           NEW cms, Len(cms) \in 0..2, WithinEpochs(Len(cms)), AppendLeaves(cms)
    PROVE  NoGaps(leaves', currentEpoch')
<1>1. PICK e \in Epochs, start \in 0..CAPACITY :
          /\ \/ e = currentEpoch
             \/ e = currentEpoch + 1
          /\ currentEpoch' = e
          /\ leaves' = leaves \cup EventsOf(cms, e, start)
    BY AppendLeavesEffect
<1>2. TreeShape' /\ IndicesDense'
    BY AppendKeepsDense
<1>3. nextIndex' \in 0..CAPACITY /\ FillsTo(leaves', e, nextIndex')
    BY <1>1, <1>2 DEF TreeShape, IndicesDense, FillsTo
<1>4. currentEpoch \in Nat /\ e \in Nat
    BY EpochAssumption, <1>1 DEF TreeShape, Epochs
<1>5. \A leaf \in EventsOf(cms, e, start) : leaf.epoch = e
    BY DEF EventsOf
<1>6. ASSUME NEW epoch \in 0..e, epoch # e
      PROVE  \E k \in 0..CAPACITY : FillsTo(leaves', epoch, k)
    <2>1. epoch \in 0..currentEpoch
        BY <1>1, <1>4, <1>6
    <2>2. PICK k \in 0..CAPACITY : FillsTo(leaves, epoch, k)
        BY <2>1 DEF NoGaps
    <2>3. FillsTo(leaves', epoch, k)
        BY <1>1, <1>5, <1>6, <2>2 DEF FillsTo
    <2> QED
        BY <2>3
<1> QED
    BY <1>1, <1>3, <1>6 DEF NoGaps

\* Nothing has the digest zero: the empty leaf is no node and no commitment.
NothingDigestsToZero ==
    NothingHashesToZero /\ \A inner, value : Commit(inner, value) # Zero

(***************************************************************************)
(* What holds of the pool whatever is called: besides the tree and the     *)
(* ring, the events of every epoch have no gaps, the empty leaf is not one *)
(* of them, and an epoch after the first was opened by a leaf.             *)
(***************************************************************************)
PoolIInv ==
    /\ RingBuilt
    /\ LeafIInv
    /\ NoGaps(leaves, currentEpoch)
    /\ NothingDigestsToZero => Zero \notin isLeaf
    /\ currentEpoch > 0 => nextIndex > 0

\* A call that appends leaves.
Grows(cms) ==
    /\ Appendable(cms) /\ WithinEpochs(Len(cms)) /\ AppendLeaves(cms)
    /\ NothingDigestsToZero => \A i \in 1..Len(cms) : cms[i] # Zero
    /\ UNCHANGED rootsVars

LEMMA PoolStarts == LogicInit => PoolIInv
<1> SUFFICES ASSUME LogicInit PROVE PoolIInv
    OBVIOUS
<1>1. RingBuilt /\ LeafIInv
    BY EmptyRingIsBuilt, NoLeavesYet
<1>2. leaves = {} /\ isLeaf = {} /\ currentEpoch = 0
    BY DEF LogicInit
<1>3. \A epoch : FillsTo(leaves, epoch, 0)
    BY <1>2, ShapeAssumption DEF FillsTo, Indices
<1>4. 0 \in 0..CAPACITY
    BY ShapeAssumption
<1> QED
    BY <1>1, <1>2, <1>3, <1>4 DEF PoolIInv, NoGaps

LEMMA GrowingKeepsPool ==
    ASSUME PoolIInv, NEW cms, Grows(cms)
    PROVE  PoolIInv'
<1>1. /\ Len(cms) \in 0..2 /\ Appendable(cms) /\ WithinEpochs(Len(cms)) /\ AppendLeaves(cms)
      /\ UNCHANGED rootsVars /\ TreeShape /\ IndicesDense /\ LeafIInv /\ RingBuilt
      /\ NoGaps(leaves, currentEpoch)
    BY DEF Grows, Appendable, PoolIInv, LeafIInv, LeafDiscipline
<1>2. RingBuilt'
    BY <1>1, AppendKeepsRing
<1>3. LeafIInv'
    BY <1>1, AppendLeavesDiscipline
<1>4. NoGaps(leaves', currentEpoch')
    BY <1>1, AppendKeepsFilled
<1>5. PICK e \in Epochs, start \in 0..CAPACITY :
          /\ \/ e = currentEpoch /\ start = nextIndex
             \/ e = currentEpoch + 1 /\ start = 0 /\ MustRoll(Len(cms))
          /\ currentEpoch' = e
          /\ nextIndex' = start + Len(cms)
          /\ isLeaf' = isLeaf \cup {cms[i] : i \in 1..Len(cms)}
    BY <1>1, AppendLeavesEffect
<1>6. NothingDigestsToZero => Zero \notin isLeaf'
    BY <1>5 DEF PoolIInv, Grows
<1>7. currentEpoch' > 0 => nextIndex' > 0
    <2>1. CAPACITY \in Nat /\ nextIndex \in 0..CAPACITY /\ currentEpoch \in Nat
        BY <1>1, ShapeAssumption, EpochAssumption DEF TreeShape, Epochs
    <2> QED
        BY <1>1, <1>5, <2>1 DEF MustRoll, PoolIInv
<1> QED
    BY <1>2, <1>3, <1>4, <1>6, <1>7 DEF PoolIInv

LEMMA PublishingKeepsPool ==
    ASSUME PoolIInv, NEW epoch \in Epochs, PublishEpochRoot(epoch)
    PROVE  PoolIInv'
<1>1. RingBuilt' /\ UNCHANGED treeVars
    BY PublishKeepsRing DEF PoolIInv, PublishEpochRoot
<1>2. LeafIInv'
    BY <1>1, DisciplineStays DEF PoolIInv
<1> QED
    BY <1>1, <1>2 DEF PoolIInv, treeVars, NoGaps, FillsTo

LEMMA RestKeepsPool ==
    ASSUME PoolIInv, UNCHANGED <<treeVars, rootsVars>>
    PROVE  PoolIInv'
<1>1. UNCHANGED <<treeVars, ring>> /\ slot' = slot /\ slot \in Nat /\ slot' \in Nat /\ slot <= slot'
    BY DEF PoolIInv, RingBuilt, rootsVars
<1>2. RingBuilt'
    BY <1>1, RingStaysBuilt DEF PoolIInv
<1>3. LeafIInv'
    BY <1>1, DisciplineStays DEF PoolIInv
<1> QED
    BY <1>1, <1>2, <1>3 DEF PoolIInv, treeVars, NoGaps, FillsTo

\* What the wallet rebuilds from the events of an epoch.
LEMMA EpochRebuilt ==
    ASSUME PoolIInv, NEW epoch \in 0..currentEpoch
    PROVE  /\ PaddedList(InOrder(leaves, epoch), LeafRow(leaves, epoch, CAPACITY))
           /\ Len(InOrder(leaves, epoch)) \in 0..CAPACITY
           /\ EpochRoot(epoch) = MerkleRoot(LeafRow(leaves, epoch, CAPACITY))
<1>1. PICK k \in 0..CAPACITY : FillsTo(leaves, epoch, k)
    BY DEF PoolIInv, NoGaps
<1>2. Placed(leaves)
    BY DEF PoolIInv, LeafIInv, TreeShape, LeafDiscipline, IndicesDense, Placed, PlacesDiffer
<1>3. /\ PaddedList(InOrder(leaves, epoch), LeafRow(leaves, epoch, CAPACITY))
      /\ Len(InOrder(leaves, epoch)) \in 0..CAPACITY
    BY <1>1, <1>2, InOrderIsRow
<1>4. EpochRoot(epoch) = PrefixRoot(epoch, CAPACITY)
    BY DEF PoolIInv, RingBuilt, TreeBuilt, RootsMatchEvents
<1> QED
    BY <1>3, <1>4, RowsOfEvents DEF PrefixRoot

LEMMA RebuiltTreesAgree == PoolIInv => WalletTreeAgrees
<1> SUFFICES ASSUME PoolIInv, NEW epoch \in 0..currentEpoch
             PROVE  LET cms == InOrder(leaves, epoch)
                    IN  /\ TreeRoot(cms) = EpochRoot(epoch)
                        /\ \A i \in 1..Len(cms) :
                               PathRoot(cms[i], AuthPath(cms, i - 1)) = EpochRoot(epoch)
    BY DEF WalletTreeAgrees
<1> DEFINE cms == InOrder(leaves, epoch)
           f == LeafRow(leaves, epoch, CAPACITY)
<1>1. PaddedList(cms, f) /\ Len(cms) \in 0..CAPACITY /\ EpochRoot(epoch) = MerkleRoot(f)
    BY EpochRebuilt
<1> HIDE DEF cms, f
<1>2. TreeRoot(cms) = EpochRoot(epoch)
    BY <1>1, TreeRootIsComplete
<1>3. ASSUME NEW i \in 1..Len(cms)
      PROVE  PathRoot(cms[i], AuthPath(cms, i - 1)) = EpochRoot(epoch)
    <2>1. i - 1 \in Indices /\ i - 1 < Len(cms) /\ (i - 1) + 1 = i
        BY <1>1, <1>3, ShapeAssumption DEF Indices
    <2>2. f[i - 1] = cms[i]
        BY <1>1, <2>1 DEF PaddedList
    <2>3. PathRoot(f[i - 1], AuthPath(cms, i - 1)) = MerkleRoot(f)
        BY <1>1, <2>1, PathLeadsToRoot
    <2> QED
        BY <1>1, <2>2, <2>3
<1> QED
    BY <1>2, <1>3 DEF cms

-----------------------------------------------------------------------------
\* A list of commitments, and the events of the first n of them.
IsList(cms) == Len(cms) \in Nat /\ cms = [i \in 1..Len(cms) |-> cms[i]]

EventsAre(cms, n, epoch, S) ==
    \A i \in 1..n : [cm |-> cms[i], epoch |-> epoch, index |-> i - 1] \in S

\* What a wallet rebuilds from events that it read at some moment.
LEMMA ReadEventsRebuilt ==
    ASSUME PoolIInv, NEW S, S \subseteq leaves, NoGaps(S, currentEpoch),
           NEW epoch \in 0..currentEpoch
    PROVE  LET cms == InOrder(S, epoch)
           IN  /\ IsList(cms) /\ Len(cms) \in 0..CAPACITY
               /\ FillsTo(S, epoch, Len(cms))
               /\ PaddedList(cms, LeafRow(S, epoch, CAPACITY))
               /\ EventsAre(cms, Len(cms), epoch, S)
<1> DEFINE cms == InOrder(S, epoch)
           own == {leaf \in S : leaf.epoch = epoch}
           EventAt(i) == CHOOSE leaf \in own : leaf.index = i
<1>1. PICK k \in 0..CAPACITY : FillsTo(S, epoch, k)
    BY DEF NoGaps
<1>2. Placed(S)
    BY DEF PoolIInv, LeafIInv, TreeShape, LeafDiscipline, IndicesDense, Placed, PlacesDiffer
<1>3. Len(cms) = k /\ PaddedList(cms, LeafRow(S, epoch, CAPACITY))
    BY <1>1, <1>2, InOrderIsRow
<1>4. k \in Nat /\ CAPACITY \in Nat
    BY ShapeAssumption
<1>5. cms = [i \in 1..k |-> EventAt(i - 1).cm]
    BY <1>1, <1>2, CountedByIndex DEF InOrder
<1>6. ASSUME NEW i \in 1..k
      PROVE  [cm |-> cms[i], epoch |-> epoch, index |-> i - 1] \in S
    <2>1. i - 1 \in Indices /\ i - 1 < k
        BY <1>4 DEF Indices
    <2>2. \E leaf \in own : leaf.index = i - 1
        BY <1>1, <2>1 DEF FillsTo
    <2>3. EventAt(i - 1) \in own /\ EventAt(i - 1).index = i - 1
        BY <2>2
    <2>4. EventAt(i - 1) \in S /\ EventAt(i - 1).epoch = epoch /\ cms[i] = EventAt(i - 1).cm
        BY <1>5, <2>3
    <2> HIDE DEF EventAt, cms
    <2>5. EventAt(i - 1) \in LeafEvent(isLeaf)
        BY <2>4 DEF PoolIInv, LeafIInv
    <2>6. EventAt(i - 1) = [cm |-> EventAt(i - 1).cm, epoch |-> EventAt(i - 1).epoch, index |-> EventAt(i - 1).index]
        BY <2>5 DEF LeafEvent
    <2> QED
        BY <2>3, <2>4, <2>6
<1>7. cms = [i \in 1..k |-> cms[i]]
    BY <1>5
<1> HIDE DEF cms
<1> QED
    BY <1>1, <1>3, <1>4, <1>6, <1>7 DEF IsList, EventsAre, cms

\* Every commitment that was read was inserted, so it is not the empty leaf.
LEMMA EventsAreLeaves ==
    ASSUME NothingDigestsToZero, PoolIInv,
           NEW cms, NEW n, NEW epoch, EventsAre(cms, n, epoch, leaves)
    PROVE  \A i \in 1..n : cms[i] \in isLeaf /\ cms[i] # Zero
<1>1. \A i \in 1..n : [cm |-> cms[i], epoch |-> epoch, index |-> i - 1] \in LeafEvent(isLeaf)
    BY DEF EventsAre, PoolIInv, LeafIInv
<1>2. \A i \in 1..n : cms[i] \in isLeaf
    BY <1>1 DEF LeafEvent
<1> QED
    BY <1>2 DEF PoolIInv

\* Rows under the same root hold the same leaves.
LEMMA SameRootSameRow ==
    ASSUME NothingHashesToZero, NEW f, NEW g, MerkleRoot(f) = MerkleRoot(g)
    PROVE  \A index \in Indices : f[index] = g[index]
<1> TAKE index \in Indices
<1>1. LeafAt(MerkleRoot(f), index) = f[index] /\ LeafAt(MerkleRoot(g), index) = g[index]
    BY RootOpensRow
<1> QED
    BY <1>1

(***************************************************************************)
(* If the tree of the events read is the active one, it is so leaf by leaf *)
(* (a root determines its row, and no commitment is the empty leaf), and   *)
(* the epoch read is the active epoch: a later one would start with the    *)
(* same commitment, which is inserted only once.                           *)
(***************************************************************************)
LEMMA SameRootSameTree ==
    ASSUME NothingDigestsToZero, PoolIInv,
           seen \subseteq leaves, NoGaps(seen, currentEpoch), seenEpoch \in 0..currentEpoch,
           TreeRoot(InOrder(seen, seenEpoch)) = currentRoot
    PROVE  seenEpoch = currentEpoch /\ InOrder(seen, seenEpoch) = InOrder(leaves, currentEpoch)
<1> DEFINE a == InOrder(seen, seenEpoch)
           b == InOrder(leaves, currentEpoch)
           f == LeafRow(seen, seenEpoch, CAPACITY)
           g == LeafRow(leaves, currentEpoch, CAPACITY)
<1>1. /\ CAPACITY \in Nat /\ currentEpoch \in Nat /\ currentEpoch \in 0..currentEpoch
      /\ NoGaps(leaves, currentEpoch)
    BY ShapeAssumption, EpochAssumption DEF PoolIInv, LeafIInv, TreeShape, Epochs
<1>2. /\ IsList(a) /\ Len(a) \in 0..CAPACITY /\ PaddedList(a, f)
      /\ EventsAre(a, Len(a), seenEpoch, seen)
    BY ReadEventsRebuilt
<1>3. /\ IsList(b) /\ Len(b) \in 0..CAPACITY /\ PaddedList(b, g)
      /\ FillsTo(leaves, currentEpoch, Len(b))
      /\ EventsAre(b, Len(b), currentEpoch, leaves)
    BY <1>1, ReadEventsRebuilt
<1>4. EpochRoot(currentEpoch) = MerkleRoot(g)
    BY <1>1, EpochRebuilt
<1> HIDE DEF a, b, f, g
<1>5. MerkleRoot(f) = MerkleRoot(g)
    BY <1>2, <1>4, TreeRootIsComplete DEF EpochRoot, a
<1>6. \A index \in Indices : f[index] = g[index]
    BY <1>5, SameRootSameRow DEF NothingDigestsToZero
<1>7. EventsAre(a, Len(a), seenEpoch, leaves)
    BY <1>2 DEF EventsAre
<1>8. /\ \A i \in 1..Len(a) : a[i] \in isLeaf /\ a[i] # Zero
      /\ \A i \in 1..Len(b) : b[i] \in isLeaf /\ b[i] # Zero
    BY <1>3, <1>7, EventsAreLeaves
<1>9. \A i \in Indices : i \in Nat /\ i < CAPACITY
    BY <1>1 DEF Indices
<1>10. \A i \in Indices :
           /\ i < Len(a) => i + 1 \in 1..Len(a) /\ f[i] = a[i + 1]
           /\ ~(i < Len(a)) => f[i] = Zero
           /\ i < Len(b) => i + 1 \in 1..Len(b) /\ g[i] = b[i + 1]
           /\ ~(i < Len(b)) => g[i] = Zero
    BY <1>2, <1>3, <1>9 DEF PaddedList
<1>11. \A i \in Indices : i < Len(a) <=> i < Len(b)
    BY <1>6, <1>8, <1>10
<1>12. Len(a) = Len(b)
    <2>1. CASE Len(a) < Len(b)
        <3>1. Len(a) \in Indices
            BY <1>1, <1>2, <1>3, <2>1 DEF Indices
        <3> QED
            BY <1>2, <1>3, <1>11, <2>1, <3>1
    <2>2. CASE Len(b) < Len(a)
        <3>1. Len(b) \in Indices
            BY <1>1, <1>2, <1>3, <2>2 DEF Indices
        <3> QED
            BY <1>2, <1>3, <1>11, <2>2, <3>1
    <2> QED
        BY <1>2, <1>3, <2>1, <2>2
<1>13. \A i \in 1..Len(a) : a[i] = b[i]
    <2>1. \A i \in 1..Len(a) : i - 1 \in Indices /\ i - 1 < Len(a) /\ (i - 1) + 1 = i
        BY <1>1, <1>2 DEF Indices
    <2> QED
        BY <1>6, <1>10, <1>11, <2>1
<1>14. a = b
    BY <1>2, <1>3, <1>12, <1>13 DEF IsList
<1>15. seenEpoch = currentEpoch
    <2> SUFFICES ASSUME seenEpoch # currentEpoch PROVE FALSE
        OBVIOUS
    <2>1. currentEpoch > 0
        BY <1>1
    <2>2. nextIndex > 0 /\ nextIndex \in 0..CAPACITY
        BY <2>1 DEF PoolIInv, LeafIInv, TreeShape
    <2>3. 0 \in Indices /\ 0 < nextIndex
        BY <1>1, <2>2 DEF Indices
    <2>4. \E leaf \in leaves : leaf.epoch = currentEpoch /\ leaf.index = 0
        BY <2>3 DEF PoolIInv, LeafIInv, LeafDiscipline, IndicesDense
    <2>5. 0 < Len(b)
        BY <1>3, <2>3, <2>4 DEF FillsTo
    <2>6. 1 \in 1..Len(a) /\ 1 \in 1..Len(b)
        BY <1>2, <1>3, <1>12, <2>5
    <2>7. /\ [cm |-> a[1], epoch |-> seenEpoch, index |-> 1 - 1] \in leaves
          /\ [cm |-> b[1], epoch |-> currentEpoch, index |-> 1 - 1] \in leaves
        BY <1>3, <1>7, <2>6 DEF EventsAre
    <2>8. a[1] = b[1]
        BY <1>13, <2>6
    <2>9. [cm |-> a[1], epoch |-> seenEpoch, index |-> 1 - 1]
          = [cm |-> b[1], epoch |-> currentEpoch, index |-> 1 - 1]
        BY <2>7, <2>8 DEF PoolIInv, LeafIInv, LeafDiscipline, AppendedOnce
    <2> QED
        BY <2>9
<1> QED
    BY <1>14, <1>15 DEF a, b

-----------------------------------------------------------------------------
OwnCm(name) == InputCommitment(NoteOf(name))

\* 60% and 5% leave some of the note, and the sums do not wrap around.
LEMMA AmountsAddUp ==
    /\ ToPayee \in 0..(MAX_VALUE - 1) /\ ForFee \in 0..(MAX_VALUE - 1)
    /\ NoteWei - ToPayee - ForFee \in 1..(MAX_VALUE - 1)
    /\ NoteWei + 0 = ToPayee + (NoteWei - ToPayee - ForFee) + 0 + ForFee
    /\ (NoteWei + 0) % FieldOrder # 0
<1>1. /\ MAX_VALUE \in Nat /\ NoteWei \in Nat /\ 1 <= NoteWei /\ NoteWei < MAX_VALUE
      /\ FieldOrder \in Nat /\ FieldOrder > 4 * MAX_VALUE
    BY SeededAssumption, ValueAssumption, FieldAssumption
<1> DEFINE p == (NoteWei * 60) \div 100
           q == (NoteWei * 5) \div 100
<1>2. p \in Nat /\ q \in Nat /\ p + q < NoteWei
    BY <1>1
<1>3. ToPayee = p /\ ForFee = q
    BY DEF ToPayee, ForFee
<1> HIDE DEF p, q
<1>4. NoteWei % FieldOrder = NoteWei
    BY <1>1
<1>5. NoteWei + 0 = NoteWei
    BY <1>1
<1> QED
    BY <1>1, <1>2, <1>3, <1>4, <1>5

\* The proofs of the two transfers are made, whatever else is in the tree.
LEMMA TransferProvable ==
    ASSUME NothingHashesToZero, ToPayee # 0, NEW name \in Names, NEW epoch,
           NEW cms, Len(cms) \in 1..CAPACITY,
           NEW index \in Indices, index < Len(cms), cms[index + 1] = OwnCm(name)
    PROVE  ProvesNote(name, cms, index, SpendEntry(name, cms, epoch))
<1> DEFINE f == [i \in Indices |-> IF i < Len(cms) THEN cms[i + 1] ELSE Zero]
           s == SpendEntry(name, cms, epoch)
           w == Witness(name)
           change == NoteWei - ToPayee - ForFee
<1>1. PaddedList(cms, f)
    BY DEF PaddedList
<1>2. f[index] = OwnCm(name)
    OBVIOUS
<1> HIDE DEF f
<1>3. TreeRoot(cms) = MerkleRoot(f)
    BY <1>1, TreeRootIsComplete
<1>4. PathRoot(f[index], AuthPath(cms, index)) = MerkleRoot(f)
    BY <1>1, PathLeadsToRoot
<1>5. LeafAt(TreeRoot(cms), index) = OwnCm(name)
    BY <1>2, <1>3, RootOpensRow
<1>6. /\ s.root = TreeRoot(cms) /\ s.domain = PoolDomain
      /\ s.nf1 = InputNullifier(PoolDomain, w.inputs[1])
      /\ s.nf2 = InputNullifier(PoolDomain, w.inputs[2])
      /\ s.outCm1 = OutputCommitment(w.outputs[1]) /\ s.outCm2 = OutputCommitment(w.outputs[2])
      /\ s.publicAmount = 0 /\ s.fee = ForFee /\ s.recipient = NoAddress /\ s.authorizer = name
    BY DEF SpendEntry
<1>7. /\ w.inputs[1] = NoteOf(name) /\ w.inputs[1].value = NoteWei
      /\ w.inputs[2].value = 0 /\ w.inputs[2].rho = "dummy" /\ w.inputs[1].rho = "note"
      /\ w.outputs[1].value = ToPayee /\ w.outputs[1].inner = Inner(name, "payee")
      /\ w.outputs[2].value = change /\ w.outputs[2].inner = Inner(name, "change")
    BY DEF Witness, NoteOf
<1> HIDE DEF s, w, change
<1>8. \A k \in 1..2 : Member(s.root, w.inputs[k])
    BY <1>5, <1>6, <1>7 DEF Member, Opens, OwnCm
<1>9. OutputRules(w.outputs)
    BY <1>7, AmountsAddUp, NamesAssumption DEF OutputRules, change
<1>10. Conserved(w, s)
    <2>0. InRange(NoteWei) /\ InRange(0) /\ InRange(ToPayee) /\ InRange(change)
        BY AmountsAddUp, SeededAssumption, ValueAssumption DEF InRange, change
    <2>1. \A k \in 1..2 : InRange(w.inputs[k].value) /\ InRange(w.outputs[k].value)
        BY <1>7, <2>0
    <2>2. InRange(s.publicAmount) /\ InRange(s.fee)
        BY <1>6, AmountsAddUp, ValueAssumption DEF InRange
    <2>3. w.inputs[1].value + w.inputs[2].value = NoteWei + 0
        BY <1>7
    <2>4. w.outputs[1].value + w.outputs[2].value + s.publicAmount + s.fee
          = ToPayee + (NoteWei - ToPayee - ForFee) + 0 + ForFee
        BY <1>6, <1>7 DEF change
    <2> QED
        BY <2>1, <2>2, <2>3, <2>4, AmountsAddUp DEF Conserved
<1>11. s.nf1 # s.nf2
    BY <1>6, <1>7 DEF InputNullifier, InputCommitment, Nullifier, Commit, Inner
<1>12. s.outCm1 # s.outCm2
    BY <1>6, <1>7 DEF OutputCommitment, Commit, Inner
<1>13. s.authorizer # NoAddress
    BY <1>6, NamesAssumption
<1>14. CircuitAccepts(w, s)
    BY <1>6, <1>8, <1>9, <1>10, <1>11, <1>12, <1>13 DEF CircuitAccepts
<1> QED
    BY <1>2, <1>3, <1>4, <1>6, <1>14 DEF ProvesNote, OwnCm, s, w

\* The transfers consume, and make, notes of their own.
LEMMA TransfersDiffer ==
    ASSUME NEW a \in Names, NEW b \in Names, a # b, NEW cms, NEW epoch,
           NEW s, NEW r, s = SpendEntry(a, cms, epoch), r = SpendEntry(b, cms, epoch)
    PROVE  /\ Keys(s) \cap Keys(r) = {}
           /\ {s.outCm1, s.outCm2} \cap {r.outCm1, r.outCm2} = {}
<1>1. /\ s.nf1.spendKey = a /\ s.nf2.spendKey = a /\ r.nf1.spendKey = b /\ r.nf2.spendKey = b
    BY DEF SpendEntry, Witness, NoteOf, InputNullifier, Nullifier
<1>2. /\ s.outCm1.inner.spendKey = a /\ s.outCm2.inner.spendKey = a
      /\ r.outCm1.inner.spendKey = b /\ r.outCm2.inner.spendKey = b
    BY DEF SpendEntry, Witness, OutputCommitment, Commit, Inner
<1> QED
    BY <1>1, <1>2 DEF Keys

-----------------------------------------------------------------------------
\* What was written: both transfers are proved against the root over grown.
Drafted(grown, epoch) ==
    /\ Len(grown) \in 2..CAPACITY
    /\ EventsAre(grown, Len(grown) - 2, seenEpoch, leaves)
    /\ grown[Len(grown) - 1] = OwnCm("A") /\ grown[Len(grown)] = OwnCm("C")
    /\ fixture.leaf["A"] = Len(grown) - 2 /\ fixture.leaf["C"] = Len(grown) - 1
    /\ \A name \in Names : fixture.transfer[name] = SpendEntry(name, grown, epoch)

(***************************************************************************)
(* The generator: what it has read was so at some earlier moment, without  *)
(* gaps and up to the epoch it read; the tree it goes on with, and the one *)
(* of its fixture, begin with leaves of that epoch.                        *)
(***************************************************************************)
GeneratorIInv ==
    /\ seenEpoch \in 0..currentEpoch
    /\ stage \in {"epoch", "root"} => seen \subseteq leaves /\ NoGaps(seen, currentEpoch)
    /\ stage = "root" => \A leaf \in seen : leaf.epoch <= seenEpoch
    /\ stage = "seeded" => /\ IsList(tree) /\ Len(tree) \in 0..CAPACITY
                           /\ EventsAre(tree, Len(tree), seenEpoch, leaves)
    /\ stage = "written" => \E grown : \E epoch \in Epochs : Drafted(grown, epoch)

SeededIInv == PoolIInv /\ GeneratorIInv

\* The steps by what they do to the pool.
LEMMA SeededSteps ==
    ASSUME SeededIInv, [Next]_vars
    PROVE  \/ Generator
           \/ \E cms : Grows(cms) /\ UNCHANGED <<stage, seen, seenEpoch, tree, fixture>>
           \/ \E epoch \in Epochs : PublishEpochRoot(epoch) /\ UNCHANGED genVars
           \/ UNCHANGED vars
<1>1. ASSUME NEW inner, NEW value, Shield(inner, value), UNCHANGED genVars
      PROVE  \E cms : Grows(cms) /\ UNCHANGED <<stage, seen, seenEpoch, tree, fixture>>
    <2>1. PICK cms : /\ Appendable(cms) /\ WithinEpochs(Len(cms)) /\ AppendLeaves(cms)
                     /\ \A i \in 1..Len(cms) : cms[i] = Commit(inner, value)
        BY <1>1, ShieldAppends
    <2>2. UNCHANGED rootsVars
        BY <1>1 DEF Shield
    <2>3. NothingDigestsToZero => Commit(inner, value) # Zero
        BY DEF NothingDigestsToZero
    <2> QED
        BY <1>1, <2>1, <2>2, <2>3 DEF Grows, genVars
<1>2. ASSUME NEW s, Settle(Pool, s),
             NothingDigestsToZero => s.outCm1 # Zero /\ s.outCm2 # Zero,
             UNCHANGED <<stage, seen, seenEpoch, tree, fixture>>
      PROVE  \E cms : Grows(cms) /\ UNCHANGED <<stage, seen, seenEpoch, tree, fixture>>
    <2>1. PICK cms : /\ Appendable(cms) /\ WithinEpochs(Len(cms)) /\ AppendLeaves(cms)
                     /\ \A i \in 1..Len(cms) : cms[i] \in {s.outCm1, s.outCm2}
        BY <1>2, SettleAppends
    <2>2. UNCHANGED rootsVars
        BY <1>2 DEF Settle, SettleEffects
    <2> QED
        BY <1>2, <2>1, <2>2 DEF Grows
<1>3. ASSUME NEW name \in Names, SettleOwn(name)
      PROVE  \E cms : Grows(cms) /\ UNCHANGED <<stage, seen, seenEpoch, tree, fixture>>
    <2>0. PICK grown : \E epoch \in Epochs : Drafted(grown, epoch)
        BY <1>3 DEF SettleOwn, SeededIInv, GeneratorIInv
    <2>1. PICK epoch \in Epochs : Drafted(grown, epoch)
        BY <2>0
    <2>2. fixture.transfer[name] = SpendEntry(name, grown, epoch)
        BY <2>1 DEF Drafted
    <2>3. NothingDigestsToZero =>
              fixture.transfer[name].outCm1 # Zero /\ fixture.transfer[name].outCm2 # Zero
        BY <2>2 DEF SpendEntry, OutputCommitment, NothingDigestsToZero
    <2> QED
        BY <1>2, <1>3, <2>3 DEF SettleOwn
<1>4. ASSUME NEW first, NEW second, TransferOther(first, second)
      PROVE  \E cms : Grows(cms) /\ UNCHANGED <<stage, seen, seenEpoch, tree, fixture>>
    <2>1. NothingDigestsToZero =>
              TransferOf(first, second).outCm1 # Zero /\ TransferOf(first, second).outCm2 # Zero
        BY DEF TransferOf, NothingDigestsToZero
    <2>2. /\ Settle(Pool, TransferOf(first, second))
          /\ UNCHANGED <<stage, seen, seenEpoch, tree, fixture>>
        BY <1>4 DEF TransferOther, genVars
    <2> QED
        BY <1>2, <2>1, <2>2
<1>5. CASE PoolMoves
    BY <1>1, <1>3, <1>4, <1>5 DEF PoolMoves, DepositOwn, DepositOther, Publish
<1> QED
    BY <1>5 DEF Next

LEMMA EntriesStay ==
    ASSUME slot' = slot
    PROVE  \A name, cms, epoch : SpendEntry(name, cms, epoch)' = SpendEntry(name, cms, epoch)
BY DEF SpendEntry

\* Whatever the pool does, what the generator has read and written stays true.
LEMMA GrowingKeepsGenerator ==
    ASSUME SeededIInv, NEW cms, Grows(cms), UNCHANGED <<stage, seen, seenEpoch, tree, fixture>>
    PROVE  GeneratorIInv'
<1>1. PICK e \in Epochs, start \in 0..CAPACITY :
          /\ \/ e = currentEpoch
             \/ e = currentEpoch + 1
          /\ currentEpoch' = e
          /\ leaves' = leaves \cup EventsOf(cms, e, start)
    BY AppendLeavesEffect DEF Grows, Appendable, SeededIInv, PoolIInv, LeafIInv
<1>2. currentEpoch \in Nat /\ e \in Nat /\ seenEpoch \in 0..currentEpoch /\ CAPACITY \in Nat
    BY EpochAssumption, ShapeAssumption, <1>1
       DEF SeededIInv, PoolIInv, GeneratorIInv, LeafIInv, TreeShape, Epochs
<1>3. seenEpoch' \in 0..currentEpoch'
    BY <1>1, <1>2
<1>4. ASSUME seen \subseteq leaves, NoGaps(seen, currentEpoch)
      PROVE  seen \subseteq leaves' /\ NoGaps(seen, currentEpoch')
    <2>1. \A leaf \in seen : leaf.epoch \in Nat /\ leaf.epoch <= currentEpoch
        BY <1>4 DEF SeededIInv, PoolIInv, LeafIInv, TreeShape, LeafDiscipline, IndicesDense
    <2>2. ASSUME e = currentEpoch + 1
          PROVE  FillsTo(seen, e, 0)
        <3>1. \A leaf \in seen : leaf.epoch # e
            BY <1>2, <2>1, <2>2
        <3>2. \A index \in Indices : ~(index < 0)
            BY <1>2 DEF Indices
        <3> QED
            BY <3>1, <3>2 DEF FillsTo
    <2>3. ASSUME NEW epoch \in 0..e
          PROVE  \E k \in 0..CAPACITY : FillsTo(seen, epoch, k)
        <3>1. epoch \in 0..currentEpoch \/ (epoch = e /\ e = currentEpoch + 1)
            BY <1>1, <1>2
        <3>2. 0 \in 0..CAPACITY
            BY <1>2
        <3> QED
            BY <1>4, <2>2, <3>1, <3>2 DEF NoGaps
    <2> QED
        BY <1>1, <1>4, <2>3 DEF NoGaps
<1>5. \A list, n, epoch : EventsAre(list, n, epoch, leaves) => EventsAre(list, n, epoch, leaves')
    BY <1>1 DEF EventsAre
<1>6. ASSUME NEW grown, NEW epoch \in Epochs, Drafted(grown, epoch)
      PROVE  Drafted(grown, epoch)'
    <2>1. slot' = slot
        BY DEF Grows, rootsVars
    <2>2. \A name \in Names : fixture'.transfer[name] = SpendEntry(name, grown, epoch)'
        BY <1>6, <2>1, EntriesStay DEF Drafted
    <2> QED
        BY <1>5, <1>6, <2>2 DEF Drafted
<1>7. stage' = "written" => \E grown : \E epoch \in Epochs : Drafted(grown, epoch)'
    BY <1>6 DEF SeededIInv, GeneratorIInv
<1>8. stage' = "seeded" => /\ IsList(tree') /\ Len(tree') \in 0..CAPACITY
                           /\ EventsAre(tree', Len(tree'), seenEpoch', leaves')
    BY <1>5 DEF SeededIInv, GeneratorIInv
<1>9. stage' \in {"epoch", "root"} => seen' \subseteq leaves' /\ NoGaps(seen', currentEpoch')
    BY <1>4 DEF SeededIInv, GeneratorIInv
<1>10. stage' = "root" => \A leaf \in seen' : leaf.epoch <= seenEpoch'
    BY DEF SeededIInv, GeneratorIInv
<1> QED
    BY <1>3, <1>7, <1>8, <1>9, <1>10 DEF GeneratorIInv

LEMMA RestKeepsGenerator ==
    ASSUME SeededIInv, UNCHANGED <<treeVars, slot, stage, seen, seenEpoch, tree, fixture>>
    PROVE  GeneratorIInv'
<1>1. \A grown, epoch : Drafted(grown, epoch) => Drafted(grown, epoch)'
    BY EntriesStay DEF Drafted, EventsAre, treeVars
<1>2. leaves' = leaves /\ currentEpoch' = currentEpoch
    BY DEF treeVars
<1> QED
    BY <1>1, <1>2 DEF SeededIInv, GeneratorIInv, NoGaps, FillsTo, EventsAre

\* What WriteFixture checks and writes, without its local definitions.
Grown == tree \o <<OwnCm("A"), OwnCm("C")>>
LeafPlaces == [name \in Names |-> IF name = "A" THEN Len(tree) ELSE Len(tree) + 1]
Transfers(epoch) == [name \in Names |-> SpendEntry(name, Grown, epoch)]

AllProvable(epoch) ==
    /\ Len(Grown) <= CAPACITY
    /\ \A name \in Names : ProvesNote(name, Grown, LeafPlaces[name], Transfers(epoch)[name])
    /\ Keys(Transfers(epoch)["A"]) \cap Keys(Transfers(epoch)["C"]) = {}

LEMMA WhatIsWritten ==
    ASSUME NEW epoch, WriteFixture(epoch)
    PROVE  /\ stage = "seeded" /\ tree' = <<>>
           /\ IF AllProvable(epoch)
              THEN fixture' = [leaf |-> LeafPlaces, transfer |-> Transfers(epoch)] /\ stage' = "written"
              ELSE stage' = "failed" /\ UNCHANGED fixture
           /\ UNCHANGED <<seen, seenEpoch, settledKeys, logicVars>>
BY Zenon DEF WriteFixture, AllProvable, Grown, LeafPlaces, Transfers, OwnCm

LEMMA GrownList ==
    ASSUME IsList(tree)
    PROVE  /\ Len(Grown) = Len(tree) + 2
           /\ \A i \in 1..Len(tree) : Grown[i] = tree[i]
           /\ Grown[Len(tree) + 1] = OwnCm("A") /\ Grown[Len(tree) + 2] = OwnCm("C")
BY DEF IsList, Grown

LEMMA GeneratorKeepsGenerator ==
    ASSUME SeededIInv, Generator
    PROVE  GeneratorIInv'
<1>1. CASE ReadLogs
    <2>1. NoGaps(leaves, currentEpoch) /\ seenEpoch \in 0..currentEpoch
        BY DEF SeededIInv, PoolIInv, GeneratorIInv
    <2>2. stage' = "epoch" /\ seen' = leaves /\ seenEpoch' = seenEpoch
        BY <1>1 DEF ReadLogs
    <2>3. leaves' = leaves /\ currentEpoch' = currentEpoch
        BY <1>1 DEF ReadLogs, logicVars, treeVars
    <2> QED
        BY <2>1, <2>2, <2>3 DEF GeneratorIInv
<1>2. CASE ReadEpoch
    <2>1. /\ stage = "epoch" /\ stage' = "root" /\ seen' = seen /\ seenEpoch' = currentEpoch
          /\ leaves' = leaves /\ currentEpoch' = currentEpoch
        BY <1>2 DEF ReadEpoch, logicVars, treeVars
    <2>2. seen \subseteq leaves /\ NoGaps(seen, currentEpoch)
        BY <2>1 DEF SeededIInv, GeneratorIInv
    <2>3. \A leaf \in leaves : leaf.epoch <= currentEpoch
        BY DEF SeededIInv, PoolIInv, LeafIInv, LeafDiscipline, IndicesDense
    <2>4. currentEpoch \in 0..currentEpoch
        BY EpochAssumption DEF SeededIInv, PoolIInv, LeafIInv, TreeShape, Epochs
    <2> QED
        BY <2>1, <2>2, <2>3, <2>4 DEF GeneratorIInv
<1>3. CASE ReadRoot
    <2>1. /\ stage = "root" /\ stage' \in {"seeded", "failed"} /\ tree' = InOrder(seen, seenEpoch)
          /\ seenEpoch' = seenEpoch /\ leaves' = leaves /\ currentEpoch' = currentEpoch
        BY <1>3 DEF ReadRoot, logicVars, treeVars
    <2>2. /\ seen \subseteq leaves /\ NoGaps(seen, currentEpoch) /\ seenEpoch \in 0..currentEpoch
        BY <2>1 DEF SeededIInv, GeneratorIInv
    <2>3. /\ IsList(tree') /\ Len(tree') \in 0..CAPACITY
          /\ EventsAre(tree', Len(tree'), seenEpoch, seen)
        BY <2>1, <2>2, ReadEventsRebuilt DEF SeededIInv
    <2>4. EventsAre(tree', Len(tree'), seenEpoch, leaves)
        BY <2>2, <2>3 DEF EventsAre
    <2> QED
        BY <2>1, <2>2, <2>3, <2>4 DEF GeneratorIInv
<1>4. ASSUME NEW epoch \in Epochs, WriteFixture(epoch)
      PROVE  GeneratorIInv'
    <2>1. /\ stage = "seeded" /\ stage' \in {"written", "failed"} /\ seenEpoch' = seenEpoch
          /\ leaves' = leaves /\ currentEpoch' = currentEpoch /\ slot' = slot
        BY <1>4, WhatIsWritten DEF logicVars, treeVars, rootsVars
    <2>2. /\ IsList(tree) /\ Len(tree) \in 0..CAPACITY /\ EventsAre(tree, Len(tree), seenEpoch, leaves)
          /\ seenEpoch \in 0..currentEpoch
        BY <2>1 DEF SeededIInv, GeneratorIInv
    <2>3. CASE stage' = "written"
        <3>1. AllProvable(epoch) /\ fixture' = [leaf |-> LeafPlaces, transfer |-> Transfers(epoch)]
            BY <1>4, <2>3, WhatIsWritten
        <3> DEFINE n == Len(tree)
        <3>2. PICK grown : grown = Grown
            OBVIOUS
        <3>3. /\ Len(grown) = n + 2 /\ Len(grown) <= CAPACITY /\ n \in Nat
              /\ \A i \in 1..n : grown[i] = tree[i]
              /\ grown[n + 1] = OwnCm("A") /\ grown[n + 2] = OwnCm("C")
            BY <2>2, <3>1, <3>2, GrownList DEF AllProvable
        <3>4. fixture'.leaf["A"] = n /\ fixture'.leaf["C"] = n + 1
            BY <3>1 DEF LeafPlaces, Names
        <3>5. \A name \in Names : fixture'.transfer[name] = SpendEntry(name, grown, epoch)
            BY <3>1, <3>2 DEF Transfers
        <3>6. \A name \in Names : fixture'.transfer[name] = SpendEntry(name, grown, epoch)'
            BY <2>1, <3>5, EntriesStay
        <3>7. EventsAre(grown, n, seenEpoch, leaves)
            BY <2>2, <3>3 DEF EventsAre
        <3> HIDE DEF n
        <3>8. Len(grown) \in 2..CAPACITY /\ Len(grown) - 2 = n /\ Len(grown) - 1 = n + 1
            BY <3>3, ShapeAssumption
        <3>9. Drafted(grown, epoch)'
            BY <2>1, <3>3, <3>4, <3>6, <3>7, <3>8 DEF Drafted
        <3> QED
            BY <2>1, <2>2, <2>3, <3>9 DEF GeneratorIInv
    <2>4. CASE stage' = "failed"
        BY <2>1, <2>2, <2>4 DEF GeneratorIInv
    <2> QED
        BY <2>1, <2>3, <2>4
<1> QED
    BY <1>1, <1>2, <1>3, <1>4 DEF Generator

LEMMA SeededInduction ==
    /\ Init => SeededIInv
    /\ SeededIInv /\ [Next]_vars => SeededIInv'
<1>1. Init => SeededIInv
    <2> SUFFICES ASSUME Init PROVE SeededIInv
        OBVIOUS
    <2>1. PoolIInv
        BY PoolStarts DEF Init
    <2>2. currentEpoch = 0 /\ seenEpoch = 0 /\ stage = "idle"
        BY DEF Init, LogicInit
    <2> QED
        BY <2>1, <2>2 DEF SeededIInv, GeneratorIInv
<1>2. ASSUME SeededIInv, [Next]_vars PROVE SeededIInv'
    <2>1. CASE Generator
        <3>1. UNCHANGED logicVars
            BY <2>1, WhatIsWritten DEF Generator, ReadLogs, ReadEpoch, ReadRoot
        <3>2. PoolIInv'
            BY <1>2, <3>1, RestKeepsPool DEF logicVars, SeededIInv
        <3> QED
            BY <1>2, <2>1, <3>2, GeneratorKeepsGenerator DEF SeededIInv
    <2>2. ASSUME NEW cms, Grows(cms), UNCHANGED <<stage, seen, seenEpoch, tree, fixture>>
          PROVE  SeededIInv'
        BY <1>2, <2>2, GrowingKeepsPool, GrowingKeepsGenerator DEF SeededIInv
    <2>3. ASSUME NEW epoch \in Epochs, PublishEpochRoot(epoch), UNCHANGED genVars
          PROVE  SeededIInv'
        <3>1. UNCHANGED <<treeVars, slot, stage, seen, seenEpoch, tree, fixture>>
            BY <2>3 DEF PublishEpochRoot, genVars
        <3> QED
            BY <1>2, <2>3, <3>1, PublishingKeepsPool, RestKeepsGenerator DEF SeededIInv
    <2>4. CASE UNCHANGED vars
        <3>1. UNCHANGED <<treeVars, rootsVars, slot, stage, seen, seenEpoch, tree, fixture>>
            BY <2>4 DEF vars, genVars, logicVars, rootsVars
        <3> QED
            BY <1>2, <3>1, RestKeepsPool, RestKeepsGenerator DEF SeededIInv
    <2> QED
        BY <1>2, <2>1, <2>2, <2>3, <2>4, SeededSteps
<1> QED
    BY <1>1, <1>2

-----------------------------------------------------------------------------
\* The tree of a wallet, and its paths, lead to the authenticated root of
\* every epoch: Tree of wallet.py and _computeRoot agree for every depth.
THEOREM WalletTreeAgreesHolds == Spec => []WalletTreeAgrees
<1>1. Init => SeededIInv
    BY SeededInduction
<1>2. SeededIInv /\ [Next]_vars => SeededIInv'
    BY SeededInduction
<1>3. SeededIInv => WalletTreeAgrees
    BY RebuiltTreesAgree DEF SeededIInv
<1> QED
    BY <1>1, <1>2, <1>3, PTL DEF Spec

\* If both deposits are the next leaves, the events of the epoch are exactly
\* the list that the transfers were proved against.
LEMMA DraftReachesRoot ==
    ASSUME PoolIInv, NEW grown, NEW epoch, Drafted(grown, epoch),
           currentEpoch = seenEpoch, nextIndex = Len(grown), NotesInPlace(seenEpoch)
    PROVE  TreeRoot(grown) = currentRoot
<1> DEFINE f == LeafRow(leaves, currentEpoch, CAPACITY)
           n == Len(grown)
<1>1. /\ n \in 2..CAPACITY /\ CAPACITY \in Nat /\ n \in Nat
      /\ currentEpoch \in Nat /\ currentEpoch \in 0..currentEpoch
    BY ShapeAssumption, EpochAssumption DEF Drafted, PoolIInv, LeafIInv, TreeShape, Epochs
<1>2. \A i \in 1..n :
          [cm |-> grown[i], epoch |-> currentEpoch, index |-> i - 1] \in leaves
    <2>1. \A name \in Names : [cm |-> OwnCm(name), epoch |-> currentEpoch,
                               index |-> fixture.leaf[name]] \in leaves
        BY DEF NotesInPlace, OwnCm
    <2>2. /\ [cm |-> grown[n - 1], epoch |-> currentEpoch, index |-> n - 2] \in leaves
          /\ [cm |-> grown[n], epoch |-> currentEpoch, index |-> n - 1] \in leaves
        BY <2>1 DEF Drafted, Names
    <2>3. \A i \in 1..(n - 2) :
              [cm |-> grown[i], epoch |-> currentEpoch, index |-> i - 1] \in leaves
        BY DEF Drafted, EventsAre
    <2> HIDE DEF n
    <2>4. \A i \in 1..n : i \in 1..(n - 2) \/ i = n - 1 \/ i = n
        BY <1>1
    <2>5. (n - 1) - 1 = n - 2
        BY <1>1
    <2> QED
        BY <2>2, <2>3, <2>4, <2>5
<1>3. Placed(leaves) /\ PlacesDiffer(leaves)
    BY DEF PoolIInv, LeafIInv, TreeShape, LeafDiscipline, IndicesDense, Placed, PlacesDiffer
<1> HIDE DEF n
<1>4. ASSUME NEW i \in Indices
      PROVE  f[i] = IF i < n THEN grown[i + 1] ELSE Zero
    <2>1. i \in Nat /\ i < CAPACITY
        BY <1>1 DEF Indices
    <2>2. CASE i < n
        <3>1. i + 1 \in 1..n /\ (i + 1) - 1 = i
            BY <1>1, <2>1, <2>2
        <3>2. [cm |-> grown[i + 1], epoch |-> currentEpoch, index |-> i] \in leaves
            BY <1>2, <3>1
        <3>3. PICK leaf \in leaves : leaf = [cm |-> grown[i + 1], epoch |-> currentEpoch, index |-> i]
            BY <3>2
        <3>4. leaf.cm = grown[i + 1] /\ leaf.epoch = currentEpoch /\ leaf.index = i
            BY <3>3
        <3>5. \A other \in leaves :
                  other.epoch = currentEpoch /\ other.index < CAPACITY /\ other.index \in Indices =>
                  f[other.index] = other.cm
            BY <1>3, RowReads
        <3> QED
            BY <2>1, <2>2, <3>4, <3>5
    <2>3. CASE ~(i < n)
        <3>1. \A leaf \in leaves : ~(leaf.epoch = currentEpoch /\ leaf.index = i)
            BY <2>3 DEF n, PoolIInv, LeafIInv, LeafDiscipline, IndicesDense
        <3>2. (\A leaf \in leaves : leaf.epoch = currentEpoch /\ leaf.index = i => ~(i < CAPACITY))
              => f[i] = Zero
            BY <1>3, RowReads
        <3> QED
            BY <2>3, <3>1, <3>2
    <2> QED
        BY <2>2, <2>3
<1>5. EpochRoot(currentEpoch) = MerkleRoot(f)
    BY <1>1, EpochRebuilt
<1> HIDE DEF f
<1>6. PaddedList(grown, f)
    BY <1>1, <1>4 DEF PaddedList, n
<1> QED
    BY <1>5, <1>6, TreeRootIsComplete DEF EpochRoot

LEMMA DraftsReachRoot == SeededIInv => NextDepositsReachRoot
<1> SUFFICES ASSUME SeededIInv, stage = "written", currentEpoch = seenEpoch,
                    nextIndex = fixture.leaf["C"] + 1, NotesInPlace(seenEpoch), NEW name \in Names
             PROVE  fixture.transfer[name].root = currentRoot
    BY DEF NextDepositsReachRoot
<1>1. PICK grown : \E epoch \in Epochs : Drafted(grown, epoch)
    BY DEF SeededIInv, GeneratorIInv
<1>2. PICK epoch \in Epochs : Drafted(grown, epoch)
    BY <1>1
<1>3. nextIndex = Len(grown)
    <2>1. Len(grown) \in Nat /\ fixture.leaf["C"] = Len(grown) - 1
        BY <1>2, ShapeAssumption DEF Drafted
    <2> QED
        BY <2>1
<1>4. TreeRoot(grown) = currentRoot
    BY <1>2, <1>3, DraftReachesRoot DEF SeededIInv
<1>5. fixture.transfer[name].root = TreeRoot(grown)
    <2>1. fixture.transfer[name] = SpendEntry(name, grown, epoch)
        BY <1>2 DEF Drafted
    <2> QED
        BY <2>1 DEF SpendEntry
<1> QED
    BY <1>4, <1>5

\* gen_nonce_race.py:52-54: the fixture's root is the pool's root when both
\* deposits have become the next leaves, for every tree they come after.
THEOREM NextDepositsReachRootHolds == Spec => []NextDepositsReachRoot
<1>1. Init => SeededIInv
    BY SeededInduction
<1>2. SeededIInv /\ [Next]_vars => SeededIInv'
    BY SeededInduction
<1>3. SeededIInv => NextDepositsReachRoot
    BY DraftsReachRoot
<1> QED
    BY <1>1, <1>2, <1>3, PTL DEF Spec

-----------------------------------------------------------------------------
\* A root that was published for an epoch is the root of leaves of that epoch.
LEMMA PublishedRootIsRow ==
    ASSUME PoolIInv, NEW epoch \in Sources, NEW s, NEW root, Committed(epoch, s, root)
    PROVE  \E n \in 0..CAPACITY : root = MerkleRoot(LeafRow(leaves, epoch, n))
<1> DEFINE i == s % RING_LENGTH
<1>1. s \in Nat /\ i \in Entries
    BY RingAssumption DEF Committed, Entries
<1>2. ring[epoch][i] = [slot |-> s, root |-> root]
    BY DEF Committed
<1> HIDE DEF i
<1>3. ring[epoch][i].slot = s /\ ring[epoch][i].root = root
    BY <1>2
<1>4. Written(epoch, i)
    BY <1>1, <1>3 DEF Written, NoEntry
<1>5. PICK n \in [Entries -> 0..CAPACITY] : FillsOf(epoch, n)
    BY DEF PoolIInv, RingBuilt
<1>6. root = PrefixRoot(epoch, n[i]) /\ n[i] \in 0..CAPACITY
    BY <1>1, <1>3, <1>4, <1>5 DEF FillsOf
<1> QED
    BY <1>6, RowsOfEvents DEF PrefixRoot

LEMMA PublishedDraftsSpend ==
    ASSUME NothingDigestsToZero, SeededIInv
    PROVE  CommittedFixtureSpendable
<1> SUFFICES ASSUME stage = "written",
                    NEW s, NEW name \in Names, s = fixture.transfer[name],
                    Committed(s.epoch, s.rootSlot, s.root)
             PROVE  NotesInPlace(s.epoch) /\ LeafAt(s.root, fixture.leaf[name]) = OwnCm(name)
    BY DEF CommittedFixtureSpendable, OwnCm
<1>1. PICK grown : \E epoch \in Epochs : Drafted(grown, epoch)
    BY DEF SeededIInv, GeneratorIInv
<1>2. PICK epoch \in Epochs : Drafted(grown, epoch)
    BY <1>1
<1> DEFINE f == [i \in Indices |-> IF i < Len(grown) THEN grown[i + 1] ELSE Zero]
           n == Len(grown)
<1>3. s.epoch = epoch /\ s.root = TreeRoot(grown)
    <2>1. s = SpendEntry(name, grown, epoch)
        BY <1>2 DEF Drafted
    <2> QED
        BY <2>1 DEF SpendEntry
<1>4. n \in 2..CAPACITY /\ CAPACITY \in Nat /\ n \in Nat
    BY <1>2, ShapeAssumption DEF Drafted
<1>5. PaddedList(grown, f)
    BY <1>4 DEF PaddedList
<1>6. \A i \in Indices : i < n => f[i] = grown[i + 1]
    OBVIOUS
<1> HIDE DEF f
<1>7. s.root = MerkleRoot(f)
    BY <1>3, <1>5, TreeRootIsComplete
<1>8. epoch \in Sources
    BY EpochAssumption DEF Epochs
<1>9. PICK m \in 0..CAPACITY : s.root = MerkleRoot(LeafRow(leaves, epoch, m))
    BY <1>3, <1>8, PublishedRootIsRow DEF SeededIInv
<1> DEFINE g == LeafRow(leaves, epoch, m)
<1>10. \A i \in Indices : f[i] = g[i]
    BY <1>7, <1>9, SameRootSameRow DEF NothingDigestsToZero
<1>11. /\ fixture.leaf["A"] = n - 2 /\ fixture.leaf["C"] = n - 1
       /\ grown[n - 1] = OwnCm("A") /\ grown[n] = OwnCm("C")
    BY <1>2 DEF Drafted
<1> HIDE DEF n
<1>12. n - 2 \in Indices /\ n - 1 \in Indices /\ (n - 2) + 1 = n - 1 /\ (n - 1) + 1 = n
       /\ n - 2 < n /\ n - 1 < n
    BY <1>4 DEF Indices
<1>13. f[n - 2] = OwnCm("A") /\ f[n - 1] = OwnCm("C")
    BY <1>6, <1>11, <1>12
<1>14. ASSUME NEW other \in Names
       PROVE  fixture.leaf[other] \in Indices /\ f[fixture.leaf[other]] = OwnCm(other)
    BY <1>11, <1>12, <1>13 DEF Names
<1>15. ASSUME NEW other \in Names
       PROVE  [cm |-> OwnCm(other), epoch |-> epoch, index |-> fixture.leaf[other]] \in leaves
    <2> DEFINE index == fixture.leaf[other]
    <2>1. index \in Indices /\ g[index] = OwnCm(other)
        BY <1>10, <1>14
    <2>2. OwnCm(other) # Zero
        BY DEF NothingDigestsToZero, OwnCm, InputCommitment
    <2>3. PlacesDiffer(leaves)
        BY DEF SeededIInv, PoolIInv, LeafIInv, LeafDiscipline, IndicesDense, PlacesDiffer
    <2> HIDE DEF index
    <2>4. ~ (\A leaf \in leaves : leaf.epoch = epoch /\ leaf.index = index => ~(index < m))
        BY <2>1, <2>2, <2>3, RowReads
    <2>5. PICK leaf \in leaves : leaf.epoch = epoch /\ leaf.index = index /\ index < m
        BY <2>4
    <2>6. g[index] = leaf.cm
        BY <2>1, <2>3, <2>5, RowReads
    <2>7. leaf \in LeafEvent(isLeaf)
        BY <2>5 DEF SeededIInv, PoolIInv, LeafIInv
    <2>8. leaf = [cm |-> leaf.cm, epoch |-> leaf.epoch, index |-> leaf.index]
        BY <2>7 DEF LeafEvent
    <2> QED
        BY <2>1, <2>5, <2>6, <2>8 DEF index
<1>16. NotesInPlace(s.epoch)
    BY <1>3, <1>15 DEF NotesInPlace, OwnCm
<1>17. LeafAt(MerkleRoot(f), fixture.leaf[name]) = f[fixture.leaf[name]]
    BY <1>14, RootOpensRow DEF NothingDigestsToZero
<1> QED
    BY <1>7, <1>14, <1>16, <1>17

\* The client's check suffices: if the predeploy holds a fixture's root for the
\* epoch that the operator gave, both notes are leaves of that epoch in their
\* places, and the root opens there to them; whether they are spent is not said.
THEOREM CommittedFixtureSpendableHolds ==
    ASSUME NothingDigestsToZero
    PROVE  Spec => []CommittedFixtureSpendable
<1>1. Init => SeededIInv
    BY SeededInduction
<1>2. SeededIInv /\ [Next]_vars => SeededIInv'
    BY SeededInduction
<1>3. SeededIInv => CommittedFixtureSpendable
    BY PublishedDraftsSpend
<1> QED
    BY <1>1, <1>2, <1>3, PTL DEF Spec

-----------------------------------------------------------------------------
\* Events read in a pool that did not change since rebuild its active tree.
LEMMA FreshEventsReconstruct ==
    ASSUME SeededIInv, stage = "root", leaves = seen
    PROVE  TreeRoot(InOrder(seen, seenEpoch)) = currentRoot
<1>1. /\ currentEpoch \in Nat /\ nextIndex \in 0..CAPACITY /\ CAPACITY \in Nat
      /\ seenEpoch \in 0..currentEpoch /\ currentEpoch \in 0..currentEpoch
    BY EpochAssumption, ShapeAssumption
       DEF SeededIInv, PoolIInv, GeneratorIInv, LeafIInv, TreeShape, Epochs
<1>2. seenEpoch = currentEpoch
    <2>1. CASE currentEpoch = 0
        BY <1>1, <2>1
    <2>2. CASE currentEpoch > 0
        <3>1. 0 \in Indices /\ 0 < nextIndex
            BY <1>1, <2>2 DEF SeededIInv, PoolIInv, Indices
        <3>2. PICK leaf \in leaves : leaf.epoch = currentEpoch
            BY <3>1 DEF SeededIInv, PoolIInv, LeafIInv, LeafDiscipline, IndicesDense
        <3>3. currentEpoch <= seenEpoch
            BY <3>2 DEF SeededIInv, GeneratorIInv
        <3> QED
            BY <1>1, <3>3
    <2> QED
        BY <1>1, <2>1, <2>2
<1>3. TreeRoot(InOrder(leaves, currentEpoch)) = EpochRoot(currentEpoch)
    BY <1>1, RebuiltTreesAgree DEF SeededIInv, WalletTreeAgrees
<1> QED
    BY <1>2, <1>3 DEF EpochRoot

\* With room for both deposits, and something for the payee, all is proved.
LEMMA RoomSuffices ==
    ASSUME NothingHashesToZero, ToPayee # 0, SeededIInv, stage = "seeded",
           ~(Len(tree) + 2 > CAPACITY), NEW epoch
    PROVE  AllProvable(epoch)
<1> DEFINE n == Len(tree)
<1>1. IsList(tree) /\ n \in Nat /\ CAPACITY \in Nat /\ n + 2 <= CAPACITY
    BY ShapeAssumption DEF SeededIInv, GeneratorIInv
<1>2. PICK grown : grown = Grown
    OBVIOUS
<1>3. Len(grown) = n + 2 /\ grown[n + 1] = OwnCm("A") /\ grown[n + 2] = OwnCm("C")
    BY <1>1, <1>2, GrownList
<1>4. LeafPlaces["A"] = n /\ LeafPlaces["C"] = n + 1
    BY DEF LeafPlaces, Names
<1> HIDE DEF n
<1>5. n \in Indices /\ n + 1 \in Indices /\ n < Len(grown) /\ n + 1 < Len(grown)
      /\ (n + 1) + 1 = n + 2 /\ Len(grown) \in 1..CAPACITY
    BY <1>1, <1>3 DEF Indices
<1>6. ASSUME NEW name \in Names
      PROVE  /\ LeafPlaces[name] \in Indices /\ LeafPlaces[name] < Len(grown)
             /\ grown[LeafPlaces[name] + 1] = OwnCm(name)
    BY <1>3, <1>4, <1>5 DEF Names
<1>7. ASSUME NEW name \in Names
      PROVE  ProvesNote(name, Grown, LeafPlaces[name], Transfers(epoch)[name])
    <2>1. ProvesNote(name, grown, LeafPlaces[name], SpendEntry(name, grown, epoch))
        BY <1>5, <1>6, TransferProvable
    <2> QED
        BY <1>2, <2>1 DEF Transfers
<1>8. Keys(Transfers(epoch)["A"]) \cap Keys(Transfers(epoch)["C"]) = {}
    <2>1. "A" \in Names /\ "C" \in Names /\ "A" # "C"
        BY DEF Names
    <2>2. /\ Transfers(epoch)["A"] = SpendEntry("A", Grown, epoch)
          /\ Transfers(epoch)["C"] = SpendEntry("C", Grown, epoch)
        BY <2>1 DEF Transfers
    <2> QED
        BY <2>1, <2>2, TransfersDiffer
<1>9. Len(Grown) <= CAPACITY
    BY <1>1, <1>2, <1>3
<1> QED
    BY <1>7, <1>8, <1>9 DEF AllProvable

LEMMA GeneratorDecides ==
    ASSUME NothingDigestsToZero, SeededIInv, [Next]_vars
    PROVE  ReturnsActive /\ RefusesForCause
<1>1. ASSUME stage' # stage
      PROVE  \/ ReadLogs \/ ReadEpoch \/ ReadRoot
             \/ \E epoch \in Epochs : WriteFixture(epoch)
    BY <1>1, SeededSteps DEF Generator, genVars, vars
<1>2. ASSUME ReadRoot
      PROVE  /\ stage = "root"
             /\ tree' = InOrder(seen, seenEpoch)
             /\ stage' = IF TreeRoot(InOrder(seen, seenEpoch)) = currentRoot THEN "seeded" ELSE "failed"
    BY <1>2 DEF ReadRoot, Reconstructs
<1>3. ReturnsActive
    <2> SUFFICES ASSUME stage = "root", stage' = "seeded"
                 PROVE  seenEpoch = currentEpoch /\ tree' = InOrder(leaves, currentEpoch)
        BY DEF ReturnsActive
    <2>1. ReadRoot
        BY <1>1, WhatIsWritten DEF ReadLogs, ReadEpoch
    <2>2. TreeRoot(InOrder(seen, seenEpoch)) = currentRoot /\ tree' = InOrder(seen, seenEpoch)
        BY <1>2, <2>1
    <2>3. seen \subseteq leaves /\ NoGaps(seen, currentEpoch) /\ seenEpoch \in 0..currentEpoch
        BY DEF SeededIInv, GeneratorIInv
    <2> QED
        BY <2>2, <2>3, SameRootSameTree DEF SeededIInv
<1>4. RefusesForCause
    <2> SUFFICES ASSUME stage' = "failed", stage # "failed"
                 PROVE  \/ stage = "root" /\ leaves # seen
                        \/ stage = "seeded" /\ Len(tree) + 2 > CAPACITY
                        \/ stage = "seeded" /\ ToPayee = 0
        BY DEF RefusesForCause
    <2>1. CASE ReadRoot
        BY <1>2, <2>1, FreshEventsReconstruct
    <2>2. ASSUME NEW epoch \in Epochs, WriteFixture(epoch)
          PROVE  /\ stage = "seeded"
                 /\ Len(tree) + 2 > CAPACITY \/ ToPayee = 0
        <3>1. stage = "seeded" /\ ~AllProvable(epoch)
            BY <2>2, WhatIsWritten
        <3> QED
            BY <3>1, RoomSuffices DEF NothingDigestsToZero
    <2>3. CASE ReadLogs
        BY <2>3 DEF ReadLogs
    <2>4. CASE ReadEpoch
        BY <2>4 DEF ReadEpoch
    <2> QED
        BY <1>1, <2>1, <2>2, <2>3, <2>4
<1> QED
    BY <1>3, <1>4

\* Three reads at three moments: a tree that seeded_tree returns is the active
\* one, and the generator refuses only for the causes named.
THEOREM SeededIsActiveHolds ==
    ASSUME NothingDigestsToZero
    PROVE  Spec => SeededIsActive
<1>1. Init => SeededIInv
    BY SeededInduction
<1>2. SeededIInv /\ [Next]_vars => SeededIInv'
    BY SeededInduction
<1>3. SeededIInv /\ [Next]_vars => [ReturnsActive /\ RefusesForCause]_vars
    BY GeneratorDecides
<1> QED
    BY <1>1, <1>2, <1>3, PTL DEF Spec, SeededIsActive

-----------------------------------------------------------------------------
\* The keys of a transfer tell which one was settled.
LEMMA SettledTransfer ==
    ASSUME SeededIInv, [Next]_vars, stage = "written", NEW one \in Names,
           Admissible(fixture.transfer[one]),
           settledKeys' = settledKeys \cup Keys(fixture.transfer[one])
    PROVE  SettleOwn(one)
<1>1. PICK grown : \E epoch \in Epochs : Drafted(grown, epoch)
    BY DEF SeededIInv, GeneratorIInv
<1>2. PICK epoch \in Epochs : Drafted(grown, epoch)
    BY <1>1
<1> DEFINE S(name) == fixture.transfer[name]
<1>3. \A name \in Names : S(name) = SpendEntry(name, grown, epoch)
    BY <1>2 DEF Drafted
<1>4. \A a, b \in Names : a # b => Keys(S(a)) \cap Keys(S(b)) = {}
    BY <1>3, TransfersDiffer
<1>5. \A name \in Names : S(name).nf1 \in Keys(S(name))
    BY DEF Keys
<1> HIDE DEF S
<1>6. settledKeys' # settledKeys
    BY <1>5 DEF Admissible, S
<1>7. ~Generator /\ ~UNCHANGED genVars
    BY <1>6, WhatIsWritten DEF Generator, ReadLogs, ReadEpoch, ReadRoot, genVars
<1>8. PICK name \in Names : SettleOwn(name)
    BY <1>7 DEF Next, PoolMoves, DepositOwn, DepositOther, TransferOther, Publish, vars
<1>9. settledKeys' = settledKeys \cup Keys(S(name))
    BY <1>8 DEF SettleOwn, S
<1>10. name = one
    <2>1. S(one).nf1 \notin settledKeys /\ S(one).nf1 \in settledKeys'
        BY <1>5 DEF Admissible, S
    <2>2. S(one).nf1 \in Keys(S(name))
        BY <1>9, <2>1
    <2> QED
        BY <1>4, <1>5, <2>2
<1> QED
    BY <1>8, <1>10

LEMMA OtherStaysAdmissible ==
    ASSUME SeededIInv, [Next]_vars, stage = "written",
           NEW one \in Names, NEW other \in Names, one # other,
           Admissible(fixture.transfer[one]), Admissible(fixture.transfer[other]),
           settledKeys' = settledKeys \cup Keys(fixture.transfer[one])
    PROVE  Admissible(fixture.transfer[other])'
<1>1. SettleOwn(one)
    BY SettledTransfer
<1>2. PICK grown : \E epoch \in Epochs : Drafted(grown, epoch)
    BY DEF SeededIInv, GeneratorIInv
<1>3. PICK epoch \in Epochs : Drafted(grown, epoch)
    BY <1>2
<1>4. PICK s, r : s = fixture.transfer[one] /\ r = fixture.transfer[other]
    OBVIOUS
<1>5. s = SpendEntry(one, grown, epoch) /\ r = SpendEntry(other, grown, epoch)
    BY <1>3, <1>4 DEF Drafted
<1>6. /\ Keys(s) \cap Keys(r) = {}
      /\ {s.outCm1, s.outCm2} \cap {r.outCm1, r.outCm2} = {}
    BY <1>5, TransfersDiffer
<1>7. fixture'.transfer[other] = r /\ Settle(Pool, s) /\ UNCHANGED rootsVars
    BY <1>1, <1>4 DEF SettleOwn, Settle, SettleEffects
<1>8. PICK cms : /\ Appendable(cms) /\ WithinEpochs(Len(cms)) /\ AppendLeaves(cms)
                 /\ \A i \in 1..Len(cms) : cms[i] \in {s.outCm1, s.outCm2}
    BY <1>7, SettleAppends
<1>9. PICK e \in Epochs, start \in 0..CAPACITY :
          /\ \/ e = currentEpoch
             \/ e = currentEpoch + 1
          /\ currentEpoch' = e
          /\ isLeaf' = isLeaf \cup {cms[i] : i \in 1..Len(cms)}
    BY <1>8, AppendLeavesEffect DEF Appendable, SeededIInv, PoolIInv, LeafIInv
<1>10. /\ Keys(r) \cap settledKeys = {}
       /\ Committed(r.epoch, r.rootSlot, r.root)
       /\ WellFormed(r) /\ r.epoch <= currentEpoch /\ ~DuplicateOutput(r)
    BY <1>4 DEF Admissible, SettleAccepts
<1>11. Keys(r) \cap settledKeys' = {}
    BY <1>4, <1>6, <1>10
<1>12. Committed(r.epoch, r.rootSlot, r.root)'
    BY <1>7, <1>10 DEF Committed, rootsVars
<1>13. r.epoch <= currentEpoch'
    <2>1. r.epoch = epoch /\ epoch \in Nat /\ currentEpoch \in Nat
        BY <1>5, EpochAssumption DEF SpendEntry, Epochs, SeededIInv, PoolIInv, LeafIInv, TreeShape
    <2> QED
        BY <1>9, <1>10, <2>1
<1>14. ~DuplicateOutput(r)'
    BY <1>6, <1>8, <1>9, <1>10 DEF DuplicateOutput
<1>15. WellFormed(r)'
    BY <1>10 DEF WellFormed
<1> QED
    BY <1>7, <1>11, <1>12, <1>13, <1>14, <1>15 DEF Admissible, SettleAccepts

\* gen_nonce_race.py:10-13: settling one transfer of the fixture leaves the
\* other admissible.
THEOREM TransfersIndependentHolds == Spec => TransfersIndependent
<1> DEFINE Stays ==
        \A one, other \in Names :
            (/\ one # other /\ stage = "written"
             /\ Admissible(fixture.transfer[one]) /\ Admissible(fixture.transfer[other])
             /\ settledKeys' = settledKeys \cup Keys(fixture.transfer[one]))
            => Admissible(fixture.transfer[other])'
<1>1. Init => SeededIInv
    BY SeededInduction
<1>2. SeededIInv /\ [Next]_vars => SeededIInv'
    BY SeededInduction
<1>3. SeededIInv /\ [Next]_vars => [Stays]_vars
    BY OtherStaysAdmissible
<1> QED
    BY <1>1, <1>2, <1>3, PTL DEF Spec, TransfersIndependent

-----------------------------------------------------------------------------
(***************************************************************************)
(* build_witness.  It asserts in integers what the circuit demands in the  *)
(* field: with all amounts below MAX_VALUE, neither side of the equation   *)
(* reaches the order of the field, so that it holds in one exactly if it   *)
(* holds in the other.                                                     *)
(***************************************************************************)
LEMMA SmallIsItself ==
    ASSUME NEW n \in Nat, n < FieldOrder
    PROVE  n % FieldOrder = n
BY FieldAssumption

LEMMA FieldEquation ==
    ASSUME NEW a \in Nat, NEW b \in Nat, NEW c \in Nat, NEW d \in Nat, NEW p \in Nat, NEW q \in Nat,
           a < MAX_VALUE, b < MAX_VALUE, c < MAX_VALUE, d < MAX_VALUE, p < MAX_VALUE, q < MAX_VALUE
    PROVE  /\ (a + b) % FieldOrder = a + b
           /\ (c + d + p + q) % FieldOrder = c + d + p + q
<1>1. MAX_VALUE \in Nat /\ FieldOrder \in Nat /\ FieldOrder > 4 * MAX_VALUE
    BY ValueAssumption, FieldAssumption
<1>2. a + b \in Nat /\ a + b < FieldOrder
    BY <1>1
<1>3. c + d + p + q \in Nat /\ c + d + p + q < FieldOrder
    BY <1>1
<1> QED
    BY <1>2, <1>3, SmallIsItself

\* A path that was read out of the tree for a note in its place.
LEMMA PathsOpen ==
    ASSUME NothingHashesToZero, NEW cms, Len(cms) \in 1..CAPACITY,
           NEW index \in Indices, index < Len(cms)
    PROVE  /\ PathRoot(cms[index + 1], AuthPath(cms, index)) = TreeRoot(cms)
           /\ Opens(TreeRoot(cms), cms[index + 1])
<1> DEFINE f == [i \in Indices |-> IF i < Len(cms) THEN cms[i + 1] ELSE Zero]
<1>1. PaddedList(cms, f) /\ f[index] = cms[index + 1]
    BY DEF PaddedList
<1> HIDE DEF f
<1>2. TreeRoot(cms) = MerkleRoot(f)
    BY <1>1, TreeRootIsComplete
<1>3. PathRoot(f[index], AuthPath(cms, index)) = MerkleRoot(f)
    BY <1>1, PathLeadsToRoot
<1>4. LeafAt(MerkleRoot(f), index) = f[index]
    BY RootOpensRow
<1> QED
    BY <1>1, <1>2, <1>3, <1>4 DEF Opens

\* What build_witness asserts of two different notes in their places can be proved.
THEOREM AssertedIsProvable ==
    ASSUME NothingHashesToZero, NEW cms, Len(cms) \in 1..CAPACITY,
           NEW inputs, NEW outputs, NEW public, NEW fee, NEW recipient, NEW authorizer,
           \A k \in 1..2 : inputs[k].value \in Nat /\ outputs[k].value \in Nat,
           public \in Nat, fee \in Nat, public = 0 <=> recipient = NoAddress,
           WitnessAsserts(inputs, outputs, public, fee, authorizer),
           \A k \in 1..2 : inputs[k].value # 0 =>
               /\ inputs[k].index \in Indices /\ inputs[k].index < Len(cms)
               /\ inputs[k].index # NoIndex
               /\ cms[inputs[k].index + 1] = InputCommitment(inputs[k]),
           InputCommitment(inputs[1]) # InputCommitment(inputs[2])
    PROVE  Provable(BuildWitness(cms, inputs, outputs),
                    WalletPublics(cms, inputs, outputs, public, fee, recipient, authorizer))
<1> DEFINE s == WalletPublics(cms, inputs, outputs, public, fee, recipient, authorizer)
           w == BuildWitness(cms, inputs, outputs)
<1>1. /\ s.root = TreeRoot(cms) /\ s.domain = PoolDomain
      /\ s.nf1 = InputNullifier(PoolDomain, inputs[1])
      /\ s.nf2 = InputNullifier(PoolDomain, inputs[2])
      /\ s.outCm1 = OutputCommitment(outputs[1]) /\ s.outCm2 = OutputCommitment(outputs[2])
      /\ s.publicAmount = public /\ s.fee = fee
      /\ s.recipient = recipient /\ s.authorizer = authorizer
    BY DEF WalletPublics
<1>2. w.inputs = inputs /\ w.outputs = outputs
    BY DEF BuildWitness
<1>3. \A k \in 1..2 : inputs[k].index # NoIndex => w.paths[k] = AuthPath(cms, inputs[k].index)
    BY DEF BuildWitness
<1> HIDE DEF s, w
<1>4. ASSUME NEW k \in 1..2, inputs[k].value # 0
      PROVE  /\ PathRoot(InputCommitment(inputs[k]), w.paths[k]) = s.root
             /\ Opens(s.root, InputCommitment(inputs[k]))
    BY <1>1, <1>3, <1>4, PathsOpen
<1>5. \A k \in 1..2 : Member(s.root, w.inputs[k])
    BY <1>2, <1>4 DEF Member
<1>6. OutputRules(w.outputs)
    <2>1. \A k \in 1..2 : outputs[k].value \in Nat
        OBVIOUS
    <2>2. \A k \in 1..2 : outputs[k].value # 0 => outputs[k].value > 0
        BY <2>1
    <2> QED
        BY <1>2, <2>2 DEF WitnessAsserts, OutputAsserts, OutputRules
<1>7. /\ \A k \in 1..2 : inputs[k].value < MAX_VALUE /\ outputs[k].value < MAX_VALUE
      /\ public < MAX_VALUE /\ fee < MAX_VALUE
      /\ \E k \in 1..2 : inputs[k].value > 0
      /\ inputs[1].value + inputs[2].value = outputs[1].value + outputs[2].value + public + fee
    BY DEF WitnessAsserts
<1>8. Conserved(w, s)
    <2>1. 1 \in 1..2 /\ 2 \in 1..2
        OBVIOUS
    <2>a. PICK a, b : a = inputs[1].value /\ b = inputs[2].value
        OBVIOUS
    <2>b. a \in Nat /\ b \in Nat /\ a < MAX_VALUE /\ b < MAX_VALUE /\ (a > 0 \/ b > 0)
        <3>1. a \in Nat /\ b \in Nat
            BY <2>1, <2>a
        <3>2. a < MAX_VALUE /\ b < MAX_VALUE
            BY <1>7, <2>1, <2>a
        <3>3. PICK k \in 1..2 : inputs[k].value > 0
            BY <1>7
        <3>4. k = 1 \/ k = 2
            BY <3>3
        <3>5. a > 0 \/ b > 0
            BY <2>a, <3>3, <3>4
        <3> QED
            BY <3>1, <3>2, <3>5
    <2>c. (a + b) % FieldOrder = a + b
        BY <2>b, FieldEquation
    <2>d. a + b # 0
        BY <2>b
    <2>2. (inputs[1].value + inputs[2].value) % FieldOrder = inputs[1].value + inputs[2].value
        BY <2>a, <2>c
    <2>3. inputs[1].value + inputs[2].value # 0
        BY <2>a, <2>d
    <2>4. \A k \in 1..2 : InRange(inputs[k].value) /\ InRange(outputs[k].value)
        BY <1>7, ValueAssumption DEF InRange
    <2>5. InRange(public) /\ InRange(fee)
        BY <1>7, ValueAssumption DEF InRange
    <2>6. (inputs[1].value + inputs[2].value) % FieldOrder =
          (outputs[1].value + outputs[2].value + public + fee) % FieldOrder
        BY <1>7
    <2> QED
        BY <1>1, <1>2, <2>2, <2>3, <2>4, <2>5, <2>6 DEF Conserved
<1>9. s.nf1 # s.nf2
    BY <1>1 DEF InputNullifier, Nullifier
<1>10. s.outCm1 # s.outCm2 /\ s.authorizer # NoAddress
    BY <1>1 DEF WitnessAsserts
<1>11. CircuitAccepts(w, s)
    BY <1>1, <1>2, <1>5, <1>6, <1>8, <1>9, <1>10 DEF CircuitAccepts
<1> QED
    BY <1>2, <1>4, <1>11 DEF Provable, s, w

\* Whatever the circuit accepts with real inputs that have a place passes the asserts.
THEOREM AcceptedIsAsserted ==
    ASSUME NEW inputs, NEW outputs, NEW s,
           CircuitAccepts([inputs |-> inputs, outputs |-> outputs], s),
           \A k \in 1..2 : inputs[k].value > 0 => inputs[k].index # NoIndex
    PROVE  WitnessAsserts(inputs, outputs, s.publicAmount, s.fee, s.authorizer)
<1> DEFINE w == [inputs |-> inputs, outputs |-> outputs]
<1>1. w.inputs = inputs /\ w.outputs = outputs
    OBVIOUS
<1>2. OutputRules(w.outputs) /\ Conserved(w, s) /\ s.authorizer # NoAddress
      /\ s.outCm1 = OutputCommitment(outputs[1]) /\ s.outCm2 = OutputCommitment(outputs[2])
      /\ s.outCm1 # s.outCm2
    BY DEF CircuitAccepts
<1> HIDE DEF w
<1>3. /\ \A k \in 1..2 : InRange(inputs[k].value) /\ InRange(outputs[k].value)
      /\ InRange(s.publicAmount) /\ InRange(s.fee)
      /\ (inputs[1].value + inputs[2].value) % FieldOrder =
         (outputs[1].value + outputs[2].value + s.publicAmount + s.fee) % FieldOrder
      /\ (inputs[1].value + inputs[2].value) % FieldOrder # 0
    BY <1>1, <1>2 DEF Conserved
<1>4. /\ \A k \in 1..2 : /\ inputs[k].value \in Nat /\ inputs[k].value < MAX_VALUE
                         /\ outputs[k].value \in Nat /\ outputs[k].value < MAX_VALUE
      /\ s.publicAmount \in Nat /\ s.publicAmount < MAX_VALUE
      /\ s.fee \in Nat /\ s.fee < MAX_VALUE
    BY <1>3, ValueAssumption DEF InRange
<1>5. 1 \in 1..2 /\ 2 \in 1..2
    OBVIOUS
<1>6. /\ (inputs[1].value + inputs[2].value) % FieldOrder = inputs[1].value + inputs[2].value
      /\ (outputs[1].value + outputs[2].value + s.publicAmount + s.fee) % FieldOrder
         = outputs[1].value + outputs[2].value + s.publicAmount + s.fee
    <2>1. PICK a, b, c, d, p, q :
              /\ a = inputs[1].value /\ b = inputs[2].value
              /\ c = outputs[1].value /\ d = outputs[2].value
              /\ p = s.publicAmount /\ q = s.fee
        OBVIOUS
    <2>2. /\ a \in Nat /\ b \in Nat /\ c \in Nat /\ d \in Nat /\ p \in Nat /\ q \in Nat
          /\ a < MAX_VALUE /\ b < MAX_VALUE /\ c < MAX_VALUE
          /\ d < MAX_VALUE /\ p < MAX_VALUE /\ q < MAX_VALUE
        BY <1>4, <1>5, <2>1
    <2>3. /\ (a + b) % FieldOrder = a + b
          /\ (c + d + p + q) % FieldOrder = c + d + p + q
        BY <2>2, FieldEquation
    <2> QED
        BY <2>1, <2>3
<1>7. /\ inputs[1].value + inputs[2].value
         = outputs[1].value + outputs[2].value + s.publicAmount + s.fee
      /\ inputs[1].value + inputs[2].value # 0
    BY <1>3, <1>6
<1>8. \E k \in 1..2 : inputs[k].value > 0
    BY <1>4, <1>5, <1>7
<1>9. \A k \in 1..2 : inputs[k].index # NoIndex \/ inputs[k].value = 0
    BY <1>4
<1>10. OutputAsserts(outputs)
    BY <1>1, <1>2, <1>4 DEF OutputRules, OutputAsserts
<1>11. \A value \in {s.publicAmount, s.fee} \cup {inputs[k].value : k \in 1..2}
                        \cup {outputs[k].value : k \in 1..2} :
           0 <= value /\ value < MAX_VALUE
    BY <1>4
<1> QED
    BY <1>2, <1>7, <1>8, <1>9, <1>10, <1>11 DEF WitnessAsserts

Chosen ==
    /\ \E a, b \in 0..(FieldOrder - 1) : inValues = <<a, b>>
    /\ \E a, b \in 0..(FieldOrder - 1) : outValues = <<a, b>>
    /\ publicAmount \in 0..(FieldOrder - 1)

LEMMA ChosenAgree ==
    ASSUME NothingHashesToZero, Chosen
    PROVE  AssertsAreTheCircuit
<1> SUFFICES ASSUME NEW first \in InputsOf(inValues[1]), NEW second \in InputsOf(inValues[2]),
                    NEW one \in OutputsOf(outValues[1]), NEW two \in OutputsOf(outValues[2]),
                    NEW authorizer \in {NoAddress, Authorizer},
                    NEW inputs, NEW outputs, NEW s,
                    inputs = <<first, second>>, outputs = <<one, two>>,
                    s = WalletPublics(Tree, inputs, outputs, publicAmount, Balancing,
                            IF publicAmount = 0 THEN NoAddress ELSE Payee, authorizer)
             PROVE  /\ (/\ WitnessAsserts(inputs, outputs, publicAmount, Balancing, authorizer)
                        /\ InPlace(first) /\ InPlace(second)
                        /\ InputCommitment(first) # InputCommitment(second))
                       => Provable(BuildWitness(Tree, inputs, outputs), s)
                    /\ (/\ CircuitAccepts([inputs |-> inputs, outputs |-> outputs], s)
                        /\ \A k \in 1..2 : inputs[k].value > 0 => inputs[k].index # NoIndex)
                       => WitnessAsserts(inputs, outputs, publicAmount, Balancing, authorizer)
    BY DEF AssertsAreTheCircuit
<1> DEFINE recipient == IF publicAmount = 0 THEN NoAddress ELSE Payee
<1>1. FieldOrder \in Nat \ {0} /\ MAX_VALUE \in Nat
    BY FieldAssumption, ValueAssumption
<1>2. /\ inValues[1] \in Nat /\ inValues[2] \in Nat /\ outValues[1] \in Nat /\ outValues[2] \in Nat
      /\ publicAmount \in Nat
    BY <1>1 DEF Chosen
<1>3. Balancing \in Nat
    BY <1>1, <1>2 DEF Balancing
<1>4. inputs[1] = first /\ inputs[2] = second /\ outputs[1] = one /\ outputs[2] = two
    OBVIOUS
<1>5. \A k \in 1..2 : inputs[k].value \in Nat /\ outputs[k].value \in Nat
    <2>1. /\ first.value = inValues[1] /\ second.value = inValues[2]
          /\ one.value = outValues[1] /\ two.value = outValues[2]
        BY DEF InputsOf, OutputsOf
    <2> QED
        BY <1>2, <1>4, <2>1
<1>6. \A k \in 1..2 : inputs[k].index \in {NoIndex} \cup Places
    BY <1>4 DEF InputsOf
<1>7. publicAmount = 0 <=> recipient = NoAddress
    BY WitnessAssumption
<1>8. Len(Tree) = Len(Leaves) /\ Len(Leaves) \in 1..CAPACITY /\ CAPACITY \in Nat
    BY WitnessAssumption, ShapeAssumption DEF Tree
<1>9. \A index \in Places : index \in Indices /\ index < Len(Tree) /\ index # NoIndex
    BY <1>8, WitnessAssumption DEF Indices
<1> HIDE DEF recipient
<1>10. ASSUME WitnessAsserts(inputs, outputs, publicAmount, Balancing, authorizer),
              InPlace(first), InPlace(second), InputCommitment(first) # InputCommitment(second)
       PROVE  Provable(BuildWitness(Tree, inputs, outputs), s)
    <2>1. \A k \in 1..2 : inputs[k].value # 0 => inputs[k].index \in Places
        BY <1>6, <1>10 DEF WitnessAsserts
    <2>2. \A k \in 1..2 : inputs[k].value # 0 => Tree[inputs[k].index + 1] = InputCommitment(inputs[k])
        BY <1>4, <1>10 DEF InPlace
    <2>3. \A k \in 1..2 : inputs[k].value # 0 =>
              /\ inputs[k].index \in Indices /\ inputs[k].index < Len(Tree)
              /\ inputs[k].index # NoIndex
              /\ Tree[inputs[k].index + 1] = InputCommitment(inputs[k])
        BY <1>9, <2>1, <2>2
    <2>4. Provable(BuildWitness(Tree, inputs, outputs),
                   WalletPublics(Tree, inputs, outputs, publicAmount, Balancing, recipient, authorizer))
        BY <1>2, <1>3, <1>4, <1>5, <1>7, <1>8, <1>10, <2>3, AssertedIsProvable
    <2> QED
        BY <2>4 DEF recipient
<1>11. ASSUME CircuitAccepts([inputs |-> inputs, outputs |-> outputs], s),
              \A k \in 1..2 : inputs[k].value > 0 => inputs[k].index # NoIndex
       PROVE  WitnessAsserts(inputs, outputs, publicAmount, Balancing, authorizer)
    <2>1. s.publicAmount = publicAmount /\ s.fee = Balancing /\ s.authorizer = authorizer
        BY DEF WalletPublics
    <2>2. WitnessAsserts(inputs, outputs, s.publicAmount, s.fee, s.authorizer)
        BY <1>11, AcceptedIsAsserted
    <2> QED
        BY <2>1, <2>2
<1> QED
    BY <1>10, <1>11

\* The asserts of build_witness and the circuit accept the same spends of two
\* different notes in their places, for every order of the field above four
\* amounts, and amounts from all of it.
THEOREM AssertsAreTheCircuitHolds ==
    ASSUME NothingHashesToZero
    PROVE  WitnessSpec => []AssertsAreTheCircuit
<1>1. WitnessInit => Chosen
    BY FieldAssumption, ValueAssumption DEF WitnessInit, Chosen
<1>2. Chosen /\ [WitnessNext]_witnessVars => Chosen'
    <2> SUFFICES ASSUME Chosen, [WitnessNext]_witnessVars PROVE Chosen'
        OBVIOUS
    <2>1. CASE WitnessNext
        BY <2>1, WitnessAssumption
           DEF WitnessNext, ChooseInputs, ChooseOutputs, ChoosePublic, Chosen
    <2>2. CASE UNCHANGED witnessVars
        BY <2>2 DEF Chosen, witnessVars
    <2> QED
        BY <2>1, <2>2
<1>3. Chosen => AssertsAreTheCircuit
    BY ChosenAgree
<1> QED
    BY <1>1, <1>2, <1>3, PTL DEF WitnessSpec

-----------------------------------------------------------------------------
(***************************************************************************)
(* gen_smoke.  Its constraints by name, each as what a spend must satisfy. *)
(***************************************************************************)
Constraints == {"nullifiers", "outputs", "realInput", "sinks", "reserved", "authorizer",
                "recipient", "values", "membership"}

InputSum(spend) == spend.inputs[1].value + spend.inputs[2].value

SpendValues(spend) ==
    /\ \A k \in 1..2 : InRange(spend.inputs[k].value) /\ InRange(spend.outputs[k].value)
    /\ InRange(spend.publicAmount) /\ InRange(spend.fee)
    /\ InputSum(spend) = spend.outputs[1].value + spend.outputs[2].value
                             + spend.publicAmount + spend.fee

SpendSinks(spend) ==
    \A k \in 1..2 : spend.outputs[k].value = 0 => spend.outputs[k].inner = Sinks[k].inner

SpendReserved(spend) ==
    \A k \in 1..2 : spend.outputs[k].value > 0 =>
        spend.outputs[k].inner \notin {SinkInner0, SinkInner1}

LEMMA ViolatedIs ==
    ASSUME NEW spend
    PROVE  /\ Violated(spend) \subseteq Constraints
           /\ "nullifiers" \in Violated(spend) <=>
                  InputNullifier(PoolDomain, spend.inputs[1])
                  = InputNullifier(PoolDomain, spend.inputs[2])
           /\ "outputs" \in Violated(spend) <=>
                  OutputCommitment(spend.outputs[1]) = OutputCommitment(spend.outputs[2])
           /\ "realInput" \in Violated(spend) <=> InputSum(spend) = 0
           /\ "sinks" \in Violated(spend) <=> ~SpendSinks(spend)
           /\ "reserved" \in Violated(spend) <=> ~SpendReserved(spend)
           /\ "authorizer" \in Violated(spend) <=> spend.authorizer = NoAddress
           /\ "recipient" \in Violated(spend) <=>
                  ~(spend.publicAmount = 0 <=> spend.recipient = NoAddress)
           /\ "values" \in Violated(spend) <=> ~SpendValues(spend)
           /\ "membership" \in Violated(spend) <=>
                  \E k \in 1..2 : ~Member(TreeRoot(spend.cms), spend.inputs[k])
<1> DEFINE s == Publics(spend)
<1>1. /\ s.root = TreeRoot(spend.cms)
      /\ s.nf1 = InputNullifier(PoolDomain, spend.inputs[1])
      /\ s.nf2 = InputNullifier(PoolDomain, spend.inputs[2])
      /\ s.outCm1 = OutputCommitment(spend.outputs[1])
      /\ s.outCm2 = OutputCommitment(spend.outputs[2])
      /\ s.publicAmount = spend.publicAmount /\ s.fee = spend.fee
      /\ s.recipient = spend.recipient /\ s.authorizer = spend.authorizer
    BY DEF Publics, WalletPublics
<1> HIDE DEF s
<1> DEFINE sum == InputSum(spend)
           holds == [nullifiers |-> s.nf1 # s.nf2,
                  outputs |-> s.outCm1 # s.outCm2,
                  realInput |-> sum # 0,
                  sinks |-> SpendSinks(spend),
                  reserved |-> SpendReserved(spend),
                  authorizer |-> s.authorizer # NoAddress,
                  recipient |-> s.publicAmount = 0 <=> s.recipient = NoAddress,
                  values |-> /\ \A k \in 1..2 : InRange(spend.inputs[k].value)
                                                /\ InRange(spend.outputs[k].value)
                             /\ InRange(s.publicAmount) /\ InRange(s.fee)
                             /\ sum = spend.outputs[1].value + spend.outputs[2].value
                                      + s.publicAmount + s.fee,
                  membership |-> \A k \in 1..2 : Member(s.root, spend.inputs[k])]
<1>2. Violated(spend) = {name \in DOMAIN holds : ~holds[name]}
    BY DEF Violated, InputSum, SpendSinks, SpendReserved, s
<1>3. DOMAIN holds = Constraints
    BY DEF Constraints
<1>4. \A name \in Constraints : name \in Violated(spend) <=> ~holds[name]
    BY <1>2, <1>3
<1>5. Violated(spend) \subseteq Constraints
    BY <1>2, <1>3
<1>6. "nullifiers" \in Violated(spend) <=> s.nf1 = s.nf2
    BY <1>4 DEF Constraints
<1>7. "outputs" \in Violated(spend) <=> s.outCm1 = s.outCm2
    BY <1>4 DEF Constraints
<1>8. "realInput" \in Violated(spend) <=> sum = 0
    BY <1>4 DEF Constraints
<1>9. "sinks" \in Violated(spend) <=> ~SpendSinks(spend)
    BY <1>4 DEF Constraints
<1>10. "reserved" \in Violated(spend) <=> ~SpendReserved(spend)
    BY <1>4 DEF Constraints
<1>11. "authorizer" \in Violated(spend) <=> s.authorizer = NoAddress
    BY <1>4 DEF Constraints
<1>12. "recipient" \in Violated(spend) <=> ~(s.publicAmount = 0 <=> s.recipient = NoAddress)
    BY <1>4 DEF Constraints
<1>13. "values" \in Violated(spend) <=> ~SpendValues(spend)
    BY <1>1, <1>4 DEF Constraints, SpendValues
<1>14. "membership" \in Violated(spend) <=> \E k \in 1..2 : ~Member(s.root, spend.inputs[k])
    BY <1>4 DEF Constraints
<1> HIDE DEF holds
<1> QED
    BY <1>1, <1>5, <1>6, <1>7, <1>8, <1>9, <1>10, <1>11, <1>12, <1>13, <1>14

\* What the override check demands, and what it leaves open.
Ordered(v) ==
    /\ v.shield \in Nat /\ v.payment \in Nat /\ v.fee \in Nat
    /\ 0 < v.fee /\ v.fee < v.payment /\ v.payment < v.shield

Fits(v) == v.payment + v.fee < v.shield /\ v.shield < MAX_VALUE

LEMMA AmountsBalance ==
    ASSUME NEW spend, NEW a \in Nat, NEW b \in Nat, NEW c \in Nat, NEW d \in Nat,
           NEW p \in Nat, NEW q \in Nat,
           a < MAX_VALUE, b < MAX_VALUE, c < MAX_VALUE, d < MAX_VALUE, p < MAX_VALUE, q < MAX_VALUE,
           a + b = c + d + p + q,
           spend.inputs[1].value = a, spend.inputs[2].value = b,
           spend.outputs[1].value = c, spend.outputs[2].value = d,
           spend.publicAmount = p, spend.fee = q
    PROVE  SpendValues(spend)
<1>1. InRange(a) /\ InRange(b) /\ InRange(c) /\ InRange(d) /\ InRange(p) /\ InRange(q)
    BY ValueAssumption DEF InRange
<1>2. \A k \in 1..2 : k = 1 \/ k = 2
    OBVIOUS
<1>3. \A k \in 1..2 : InRange(spend.inputs[k].value) /\ InRange(spend.outputs[k].value)
    BY <1>1, <1>2
<1> QED
    BY <1>1, <1>3 DEF SpendValues, InputSum

LEMMA KeysTellNullifiers ==
    ASSUME NEW x, NEW y, x.spendKey # y.spendKey
    PROVE  InputNullifier(PoolDomain, x) # InputNullifier(PoolDomain, y)
BY DEF InputNullifier, Nullifier

LEMMA InnersTellOutputs ==
    ASSUME NEW x, NEW y, x.inner # y.inner
    PROVE  OutputCommitment(x) # OutputCommitment(y)
BY DEF OutputCommitment, Commit

LEMMA UsesDiffer ==
    /\ \A x, y : x # y => Inner(x, x) # Inner(y, y)
    /\ \A x \in {"b", "a2", "new1", "new2", "dup"} :
           Inner(x, x) # SinkInner0 /\ Inner(x, x) # SinkInner1
BY SmokeAssumption DEF Inner

\* Notes in their places, and dummies, pass the membership constraint.
LEMMA NotesInTree ==
    ASSUME NothingHashesToZero, NEW spend, Len(spend.cms) \in 1..CAPACITY,
           \A k \in 1..2 : spend.inputs[k].value = 0 \/
               /\ spend.inputs[k].index \in 0..(Len(spend.cms) - 1)
               /\ spend.cms[spend.inputs[k].index + 1] = InputCommitment(spend.inputs[k])
    PROVE  \A k \in 1..2 : Member(TreeRoot(spend.cms), spend.inputs[k])
<1> SUFFICES ASSUME NEW k \in 1..2, spend.inputs[k].value # 0
             PROVE  Opens(TreeRoot(spend.cms), InputCommitment(spend.inputs[k]))
    BY DEF Member
<1> DEFINE index == spend.inputs[k].index
<1>1. /\ index \in 0..(Len(spend.cms) - 1)
      /\ spend.cms[index + 1] = InputCommitment(spend.inputs[k])
    OBVIOUS
<1> HIDE DEF index
<1>2. index \in Indices /\ index < Len(spend.cms)
    BY <1>1, ShapeAssumption DEF Indices
<1> QED
    BY <1>1, <1>2, PathsOpen

\* The parts of the two spends.
LEMMA TransferParts ==
    ASSUME NEW v
    PROVE  LET t == TransferSpend(v)
           IN  /\ Len(t.cms) = 1 /\ t.cms[1] = InputCommitment(t.inputs[1])
               /\ t.inputs[1].spendKey = "a" /\ t.inputs[1].rho = "a"
               /\ t.inputs[1].value = v.shield /\ t.inputs[1].index = 0
               /\ t.inputs[2].spendKey = "dummy1" /\ t.inputs[2].value = 0
               /\ t.inputs[2].index = NoIndex
               /\ t.outputs[1].inner = Inner("b", "b") /\ t.outputs[1].value = v.payment
               /\ t.outputs[2].inner = Inner("a2", "a2")
               /\ t.outputs[2].value = v.shield - v.payment - v.fee
               /\ t.publicAmount = 0 /\ t.fee = v.fee
               /\ t.recipient = NoAddress /\ t.authorizer = "signer1"
BY DEF TransferSpend, At, Dummy, Note, NoteA, Output, InputCommitment

LEMMA WithdrawalParts ==
    ASSUME NEW v
    PROVE  LET w == WithdrawalSpend(v)
               t == TransferSpend(v)
           IN  /\ Len(w.cms) = 3 /\ w.cms[1] = InputCommitment(t.inputs[1])
               /\ w.cms[2] = OutputCommitment(t.outputs[1])
               /\ w.cms[3] = OutputCommitment(t.outputs[2])
               /\ w.cms[2] = InputCommitment(w.inputs[1])
               /\ w.inputs[1].spendKey = "b" /\ w.inputs[1].rho = "b"
               /\ w.inputs[1].value = v.payment /\ w.inputs[1].index = 1
               /\ w.inputs[2].spendKey = "dummy2" /\ w.inputs[2].value = 0
               /\ w.inputs[2].index = NoIndex
               /\ w.outputs = Sinks
               /\ w.publicAmount = v.payment - v.fee /\ w.fee = v.fee
               /\ w.recipient = Recipient /\ w.authorizer = "signer2"
<1>1. WithdrawalSpend(v).inputs = <<At(NoteB(v), 1), Dummy("dummy2")>>
    BY DEF WithdrawalSpend
<1>2. TransferSpend(v).outputs[1] = Output("b", v.payment)
    BY DEF TransferSpend
<1>3. InputCommitment(At(NoteB(v), 1)) = OutputCommitment(Output("b", v.payment))
    BY DEF InputCommitment, At, NoteB, Note, OutputCommitment, Output
<1>4. /\ WithdrawalSpend(v).cms = <<TransferSpend(v).cms[1],
             OutputCommitment(TransferSpend(v).outputs[1]),
             OutputCommitment(TransferSpend(v).outputs[2])>>
      /\ WithdrawalSpend(v).outputs = Sinks
      /\ WithdrawalSpend(v).publicAmount = v.payment - v.fee /\ WithdrawalSpend(v).fee = v.fee
      /\ WithdrawalSpend(v).recipient = Recipient /\ WithdrawalSpend(v).authorizer = "signer2"
    BY DEF WithdrawalSpend
<1>5. TransferSpend(v).cms[1] = InputCommitment(TransferSpend(v).inputs[1])
    BY TransferParts
<1>6. /\ At(NoteB(v), 1).spendKey = "b" /\ At(NoteB(v), 1).rho = "b"
      /\ At(NoteB(v), 1).value = v.payment /\ At(NoteB(v), 1).index = 1
      /\ Dummy("dummy2").spendKey = "dummy2" /\ Dummy("dummy2").value = 0
      /\ Dummy("dummy2").index = NoIndex
    BY DEF At, NoteB, Note, Dummy
<1> QED
    BY <1>1, <1>2, <1>3, <1>4, <1>5, <1>6

LEMMA SinkParts ==
    /\ Sinks[1].inner = SinkInner0 /\ Sinks[2].inner = SinkInner1
    /\ Sinks[1].value = 0 /\ Sinks[2].value = 0
    /\ SinkInner0 # SinkInner1
BY SinkAssumption DEF Sinks

-----------------------------------------------------------------------------
LEMMA SameNoteViolates ==
    ASSUME NothingHashesToZero, NEW v, Ordered(v), Fits(v)
    PROVE  /\ Violated(SameNote(v)) = {"nullifiers"}
           /\ Asserts(SameNote(v))
<1> DEFINE f == SameNote(v)
           note == At(NoteA(v), 0)
<1>1. /\ f.inputs[1] = note /\ f.inputs[2] = note
      /\ f.outputs[1].inner = Inner("new1", "new1") /\ f.outputs[1].value = v.shield
      /\ f.outputs[2].inner = Inner("new2", "new2") /\ f.outputs[2].value = v.shield
      /\ f.cms = TransferSpend(v).cms
      /\ f.publicAmount = 0 /\ f.fee = 0 /\ f.recipient = NoAddress /\ f.authorizer = "signer3"
    BY DEF SameNote, TransferSpend, Output
<1>2. /\ note = TransferSpend(v).inputs[1]
      /\ note.value = v.shield /\ note.index = 0
    BY DEF TransferSpend, At, NoteA, Note
<1>3. Len(f.cms) = 1 /\ f.cms[1] = InputCommitment(note)
    BY <1>1, <1>2, TransferParts
<1> HIDE DEF f, note
<1>4. v.shield \in Nat /\ v.shield > 0 /\ v.shield < MAX_VALUE /\ 0 < MAX_VALUE
    BY ValueAssumption DEF Ordered, Fits
<1>5. SpendValues(f)
    <2> DEFINE n == v.shield
    <2>1. n \in Nat /\ n < MAX_VALUE /\ n + n = n + n + 0 + 0
        BY <1>4
    <2>2. /\ f.inputs[1].value = n /\ f.inputs[2].value = n
          /\ f.outputs[1].value = n /\ f.outputs[2].value = n
          /\ f.publicAmount = 0 /\ f.fee = 0
        BY <1>1, <1>2
    <2> HIDE DEF n
    <2> QED
        BY <1>4, <2>1, <2>2, AmountsBalance
<1>6. InputSum(f) # 0
    BY <1>1, <1>2, <1>4 DEF InputSum
<1>7. SpendSinks(f) /\ SpendReserved(f)
    BY <1>1, <1>4, UsesDiffer DEF SpendSinks, SpendReserved
<1>8. OutputCommitment(f.outputs[1]) # OutputCommitment(f.outputs[2])
    BY <1>1, UsesDiffer, InnersTellOutputs
<1>9. \A k \in 1..2 : Member(TreeRoot(f.cms), f.inputs[k])
    <2>1. \A k \in 1..2 : f.inputs[k] = note
        BY <1>1
    <2>2. Len(f.cms) \in 1..CAPACITY /\ note.index \in 0..(Len(f.cms) - 1)
          /\ f.cms[note.index + 1] = InputCommitment(note)
        BY <1>2, <1>3, SmokeAssumption, ShapeAssumption
    <2> QED
        BY <2>1, <2>2, NotesInTree
<1>10. f.authorizer # NoAddress
    BY <1>1, SmokeAssumption
<1>11. Violated(f) = {"nullifiers"}
    <2>1. "nullifiers" \in Violated(f)
        BY <1>1, ViolatedIs
    <2>2. \A name \in Constraints : name # "nullifiers" => name \notin Violated(f)
        BY <1>1, <1>5, <1>6, <1>7, <1>8, <1>9, <1>10, ViolatedIs DEF Constraints
    <2> QED
        BY <2>1, <2>2, ViolatedIs
<1>12. Asserts(f)
    <2>1. \A k \in 1..2 : f.inputs[k].index # NoIndex /\ f.inputs[k].value > 0
        BY <1>1, <1>2, <1>4, SmokeAssumption, ShapeAssumption DEF Indices
    <2>2. OutputAsserts(f.outputs)
        BY <1>1, <1>4, UsesDiffer DEF OutputAsserts
    <2>3. \A value \in {f.publicAmount, f.fee} \cup {f.inputs[k].value : k \in 1..2}
                  \cup {f.outputs[k].value : k \in 1..2} : 0 <= value /\ value < MAX_VALUE
        BY <1>1, <1>2, <1>4
    <2>4. f.inputs[1].value + f.inputs[2].value
          = f.outputs[1].value + f.outputs[2].value + f.publicAmount + f.fee
        BY <1>5 DEF SpendValues, InputSum
    <2> QED
        BY <1>8, <1>10, <2>1, <2>2, <2>3, <2>4 DEF Asserts, WitnessAsserts
<1> QED
    BY <1>11, <1>12 DEF f

\* The transfer itself violates nothing, and neither do its parts.
LEMMA TransferKeeps ==
    ASSUME NothingHashesToZero, NEW v, Ordered(v), Fits(v)
    PROVE  LET t == TransferSpend(v)
           IN  /\ SpendValues(t) /\ InputSum(t) # 0 /\ SpendSinks(t) /\ SpendReserved(t)
               /\ InputNullifier(PoolDomain, t.inputs[1]) # InputNullifier(PoolDomain, t.inputs[2])
               /\ OutputCommitment(t.outputs[1]) # OutputCommitment(t.outputs[2])
               /\ \A k \in 1..2 : Member(TreeRoot(t.cms), t.inputs[k])
               /\ t.authorizer # NoAddress
<1> DEFINE t == TransferSpend(v)
<1>1. /\ Len(t.cms) = 1 /\ t.cms[1] = InputCommitment(t.inputs[1])
      /\ t.inputs[1].spendKey = "a"
      /\ t.inputs[1].value = v.shield /\ t.inputs[1].index = 0
      /\ t.inputs[2].spendKey = "dummy1" /\ t.inputs[2].value = 0
      /\ t.outputs[1].inner = Inner("b", "b") /\ t.outputs[1].value = v.payment
      /\ t.outputs[2].inner = Inner("a2", "a2")
      /\ t.outputs[2].value = v.shield - v.payment - v.fee
      /\ t.publicAmount = 0 /\ t.fee = v.fee
      /\ t.authorizer = "signer1"
    BY TransferParts
<1> HIDE DEF t
<1>2. PICK a, c, q : a = v.shield /\ c = v.payment /\ q = v.fee
    OBVIOUS
<1>3. /\ a \in Nat /\ c \in Nat /\ q \in Nat /\ MAX_VALUE \in Nat
      /\ 0 < q /\ q < c /\ c < a /\ c + q < a /\ a < MAX_VALUE
    BY <1>2, ValueAssumption DEF Ordered, Fits
<1>4. PICK d : d = a - c - q
    OBVIOUS
<1>5. d \in Nat /\ d > 0 /\ d < MAX_VALUE /\ a + 0 = c + d + 0 + q
      /\ c < MAX_VALUE /\ q < MAX_VALUE /\ c > 0 /\ a > 0 /\ 0 < MAX_VALUE
    BY <1>3, <1>4
<1>6. /\ t.inputs[1].value = a /\ t.inputs[2].value = 0
      /\ t.outputs[1].value = c /\ t.outputs[2].value = d
      /\ t.publicAmount = 0 /\ t.fee = q
    BY <1>1, <1>2, <1>4
<1>7. SpendValues(t)
    <2>1. PICK z : z = 0
        OBVIOUS
    <2>2. z \in Nat /\ z < MAX_VALUE /\ a + z = c + d + z + q
        BY <1>3, <1>5, <2>1
    <2>3. t.inputs[2].value = z /\ t.publicAmount = z
        BY <1>6, <2>1
    <2> QED
        BY <1>3, <1>5, <1>6, <2>2, <2>3, AmountsBalance
<1>8. InputSum(t) # 0
    BY <1>3, <1>5, <1>6 DEF InputSum
<1>9. SpendSinks(t) /\ SpendReserved(t)
    BY <1>1, <1>3, <1>5, <1>6, UsesDiffer DEF SpendSinks, SpendReserved
<1>10. InputNullifier(PoolDomain, t.inputs[1]) # InputNullifier(PoolDomain, t.inputs[2])
    BY <1>1, KeysTellNullifiers
<1>11. OutputCommitment(t.outputs[1]) # OutputCommitment(t.outputs[2])
    BY <1>1, UsesDiffer, InnersTellOutputs
<1>12. \A k \in 1..2 : Member(TreeRoot(t.cms), t.inputs[k])
    <2>1. Len(t.cms) \in 1..CAPACITY
        BY <1>1, SmokeAssumption, ShapeAssumption
    <2>2. t.inputs[1].index \in 0..(Len(t.cms) - 1)
          /\ t.cms[t.inputs[1].index + 1] = InputCommitment(t.inputs[1])
        BY <1>1
    <2>3. \A k \in 1..2 : k = 1 \/ k = 2
        OBVIOUS
    <2> QED
        BY <1>1, <2>1, <2>2, <2>3, NotesInTree
<1>13. t.authorizer # NoAddress
    BY <1>1, SmokeAssumption
<1> QED
    BY <1>7, <1>8, <1>9, <1>10, <1>11, <1>12, <1>13 DEF t

\* So does the withdrawal, but for its sinks, which it leaves in their places.
LEMMA WithdrawalKeeps ==
    ASSUME NothingHashesToZero, NEW v, Ordered(v), Fits(v)
    PROVE  LET w == WithdrawalSpend(v)
           IN  /\ SpendValues(w) /\ InputSum(w) # 0 /\ SpendSinks(w) /\ SpendReserved(w)
               /\ InputNullifier(PoolDomain, w.inputs[1]) # InputNullifier(PoolDomain, w.inputs[2])
               /\ OutputCommitment(w.outputs[1]) # OutputCommitment(w.outputs[2])
               /\ \A k \in 1..2 : Member(TreeRoot(w.cms), w.inputs[k])
               /\ w.authorizer # NoAddress
               /\ w.publicAmount # 0
<1> DEFINE w == WithdrawalSpend(v)
<1>1. /\ Len(w.cms) = 3
      /\ w.cms[2] = InputCommitment(w.inputs[1])
      /\ w.inputs[1].spendKey = "b"
      /\ w.inputs[1].value = v.payment /\ w.inputs[1].index = 1
      /\ w.inputs[2].spendKey = "dummy2" /\ w.inputs[2].value = 0
      /\ w.outputs = Sinks
      /\ w.publicAmount = v.payment - v.fee /\ w.fee = v.fee
      /\ w.authorizer = "signer2"
    BY WithdrawalParts
<1> HIDE DEF w
<1>2. PICK a, q : a = v.payment /\ q = v.fee
    OBVIOUS
<1>3. a \in Nat /\ q \in Nat /\ MAX_VALUE \in Nat /\ 0 < q /\ q < a /\ a < MAX_VALUE
    BY <1>2, ValueAssumption DEF Ordered, Fits
<1>4. PICK p : p = a - q
    OBVIOUS
<1>5. p \in Nat /\ p > 0 /\ p < MAX_VALUE /\ a + 0 = 0 + 0 + p + q /\ q < MAX_VALUE
      /\ a > 0 /\ 0 < MAX_VALUE
    BY <1>3, <1>4
<1>6. /\ w.inputs[1].value = a /\ w.inputs[2].value = 0
      /\ w.outputs[1].value = 0 /\ w.outputs[2].value = 0
      /\ w.publicAmount = p /\ w.fee = q
    BY <1>1, <1>2, <1>4, SinkParts
<1>7. SpendValues(w)
    BY <1>3, <1>5, <1>6, AmountsBalance
<1>8. InputSum(w) # 0
    BY <1>3, <1>5, <1>6 DEF InputSum
<1>9. SpendSinks(w) /\ SpendReserved(w)
    BY <1>1, <1>6, SinkParts DEF SpendSinks, SpendReserved
<1>10. InputNullifier(PoolDomain, w.inputs[1]) # InputNullifier(PoolDomain, w.inputs[2])
    BY <1>1, KeysTellNullifiers
<1>11. OutputCommitment(w.outputs[1]) # OutputCommitment(w.outputs[2])
    BY <1>1, SinkParts, InnersTellOutputs
<1>12. \A k \in 1..2 : Member(TreeRoot(w.cms), w.inputs[k])
    <2>1. Len(w.cms) \in 1..CAPACITY
        BY <1>1, SmokeAssumption, ShapeAssumption
    <2>2. w.inputs[1].index \in 0..(Len(w.cms) - 1)
          /\ w.cms[w.inputs[1].index + 1] = InputCommitment(w.inputs[1])
        BY <1>1
    <2>3. \A k \in 1..2 : k = 1 \/ k = 2
        OBVIOUS
    <2> QED
        BY <1>1, <2>1, <2>2, <2>3, NotesInTree
<1>13. w.authorizer # NoAddress
    BY <1>1, SmokeAssumption
<1>14. w.publicAmount # 0
    BY <1>5, <1>6
<1> QED
    BY <1>7, <1>8, <1>9, <1>10, <1>11, <1>12, <1>13, <1>14 DEF w

\* The other forged spends, each by the part that it changes.
LEMMA DuplicateOutputViolates ==
    ASSUME NothingHashesToZero, NEW v, Ordered(v), Fits(v), Halves(v)
    PROVE  Violated(DuplicateOutputs(v)) = {"outputs"}
<1> DEFINE f == DuplicateOutputs(v)
           t == TransferSpend(v)
           half == (v.shield - v.fee) \div 2
<1>1. /\ f.cms = t.cms /\ f.inputs = t.inputs
      /\ f.outputs[1] = Output("dup", half) /\ f.outputs[2] = Output("dup", half)
      /\ f.publicAmount = t.publicAmount /\ f.fee = t.fee
      /\ f.recipient = t.recipient /\ f.authorizer = "signer4"
    BY DEF DuplicateOutputs, TransferSpend
<1>2. /\ t.inputs[1].value = v.shield /\ t.inputs[2].value = 0
      /\ t.publicAmount = 0 /\ t.fee = v.fee /\ t.recipient = NoAddress
    BY TransferParts
<1>3. /\ InputSum(t) # 0
      /\ InputNullifier(PoolDomain, t.inputs[1]) # InputNullifier(PoolDomain, t.inputs[2])
      /\ \A k \in 1..2 : Member(TreeRoot(t.cms), t.inputs[k])
    BY TransferKeeps
<1>4. 2 * half + v.fee = v.shield
    BY DEF Halves
<1>5. half \in Nat /\ half > 0 /\ half < MAX_VALUE
    <2>1. PICK a, q, c : a = v.shield /\ q = v.fee /\ c = v.payment
        OBVIOUS
    <2>2. a \in Nat /\ q \in Nat /\ c \in Nat /\ q < c /\ c < a /\ a < MAX_VALUE /\ MAX_VALUE \in Nat
        BY <2>1, ValueAssumption DEF Ordered, Fits
    <2>3. (a - q) \div 2 \in Nat /\ (a - q) \div 2 > 0 /\ (a - q) \div 2 < MAX_VALUE
        BY <2>2
    <2> QED
        BY <2>1, <2>3
<1>6. f.outputs[1].value = half /\ f.outputs[2].value = half
      /\ f.outputs[1].inner = Inner("dup", "dup") /\ f.outputs[2].inner = Inner("dup", "dup")
    BY <1>1 DEF Output
<1> HIDE DEF f, t, half
<1>7. SpendValues(f)
    <2>1. PICK z, a, q : z = 0 /\ a = v.shield /\ q = v.fee
        OBVIOUS
    <2>2. /\ z \in Nat /\ z < MAX_VALUE /\ a \in Nat /\ a < MAX_VALUE
          /\ q \in Nat /\ q < MAX_VALUE /\ a + z = half + half + z + q
        BY <1>4, <1>5, <2>1, ValueAssumption DEF Ordered, Fits
    <2>3. /\ f.inputs[1].value = a /\ f.inputs[2].value = z
          /\ f.publicAmount = z /\ f.fee = q
        BY <1>1, <1>2, <2>1
    <2> QED
        BY <1>5, <1>6, <2>2, <2>3, AmountsBalance
<1>8. InputSum(f) # 0
    BY <1>1, <1>3 DEF InputSum
<1>9. SpendSinks(f) /\ SpendReserved(f)
    BY <1>5, <1>6, UsesDiffer DEF SpendSinks, SpendReserved
<1>10. f.authorizer # NoAddress
    BY <1>1, SmokeAssumption
<1>11. Violated(f) = {"outputs"}
    <2>1. "outputs" \in Violated(f)
        BY <1>1, ViolatedIs
    <2>2. \A name \in Constraints : name # "outputs" => name \notin Violated(f)
        BY <1>1, <1>2, <1>3, <1>7, <1>8, <1>9, <1>10, ViolatedIs DEF Constraints
    <2> QED
        BY <2>1, <2>2, ViolatedIs
<1> QED
    BY <1>11 DEF f

LEMMA NoRealViolates ==
    ASSUME NEW v, Ordered(v)
    PROVE  Violated(NoReal(v)) = {"realInput"}
<1> DEFINE f == NoReal(v)
           t == TransferSpend(v)
<1>1. /\ f.cms = t.cms /\ f.inputs[2] = t.inputs[2]
      /\ f.inputs[1].spendKey = "a" /\ f.inputs[1].value = 0
      /\ f.outputs = Sinks
      /\ f.publicAmount = t.publicAmount /\ f.fee = 0
      /\ f.recipient = t.recipient /\ f.authorizer = t.authorizer
    BY DEF NoReal, TransferSpend, At, NoteA, Note
<1>2. /\ t.inputs[2].spendKey = "dummy1" /\ t.inputs[2].value = 0
      /\ t.publicAmount = 0 /\ t.recipient = NoAddress /\ t.authorizer = "signer1"
    BY TransferParts
<1> HIDE DEF f, t
<1>3. SpendValues(f)
    BY <1>1, <1>2, SinkParts, ValueAssumption DEF SpendValues, InputSum, InRange
<1>4. InputSum(f) = 0
    BY <1>1, <1>2 DEF InputSum
<1>5. SpendSinks(f) /\ SpendReserved(f)
    BY <1>1, SinkParts DEF SpendSinks, SpendReserved
<1>6. OutputCommitment(f.outputs[1]) # OutputCommitment(f.outputs[2])
    BY <1>1, SinkParts, InnersTellOutputs
<1>7. InputNullifier(PoolDomain, f.inputs[1]) # InputNullifier(PoolDomain, f.inputs[2])
    BY <1>1, <1>2, KeysTellNullifiers
<1>8. \A k \in 1..2 : Member(TreeRoot(f.cms), f.inputs[k])
    BY <1>1, <1>2 DEF Member
<1>9. f.authorizer # NoAddress
    BY <1>1, <1>2, SmokeAssumption
<1>10. Violated(f) = {"realInput"}
    <2>1. "realInput" \in Violated(f)
        BY <1>4, ViolatedIs
    <2>2. \A name \in Constraints : name # "realInput" => name \notin Violated(f)
        BY <1>1, <1>2, <1>3, <1>5, <1>6, <1>7, <1>8, <1>9, ViolatedIs DEF Constraints
    <2> QED
        BY <2>1, <2>2, ViolatedIs
<1> QED
    BY <1>10 DEF f

LEMMA WrongSinksViolates ==
    ASSUME NothingHashesToZero, NEW v, Ordered(v), Fits(v)
    PROVE  Violated(WrongSinks(v)) = {"sinks"}
<1> DEFINE f == WrongSinks(v)
           w == WithdrawalSpend(v)
<1>1. /\ f.cms = w.cms /\ f.inputs = w.inputs
      /\ f.outputs[1] = Sinks[2] /\ f.outputs[2] = Sinks[1]
      /\ f.publicAmount = w.publicAmount /\ f.fee = w.fee
      /\ f.recipient = w.recipient /\ f.authorizer = w.authorizer
    BY DEF WrongSinks, WithdrawalSpend
<1>2. w.outputs = Sinks /\ w.recipient = Recipient
    BY WithdrawalParts
<1>3. /\ SpendValues(w) /\ InputSum(w) # 0
      /\ InputNullifier(PoolDomain, w.inputs[1]) # InputNullifier(PoolDomain, w.inputs[2])
      /\ \A k \in 1..2 : Member(TreeRoot(w.cms), w.inputs[k])
      /\ w.authorizer # NoAddress /\ w.publicAmount # 0
    BY WithdrawalKeeps
<1> HIDE DEF f, w
<1>4. SpendValues(f)
    <2>1. \A k \in 1..2 : f.outputs[k].value = w.outputs[k].value
        BY <1>1, <1>2, SinkParts
    <2>2. 1 \in 1..2 /\ 2 \in 1..2
        OBVIOUS
    <2>3. f.outputs[1].value = w.outputs[1].value /\ f.outputs[2].value = w.outputs[2].value
        BY <2>1, <2>2
    <2>4. InputSum(f) = InputSum(w)
        BY <1>1 DEF InputSum
    <2> QED
        BY <1>1, <1>3, <2>1, <2>3, <2>4 DEF SpendValues
<1>5. InputSum(f) # 0
    BY <1>1, <1>3 DEF InputSum
<1>6. ~SpendSinks(f)
    <2>1. f.outputs[1].value = 0 /\ f.outputs[1].inner # Sinks[1].inner /\ 1 \in 1..2
        BY <1>1, SinkParts
    <2> QED
        BY <2>1 DEF SpendSinks
<1>7. SpendReserved(f)
    BY <1>1, SinkParts DEF SpendReserved
<1>8. OutputCommitment(f.outputs[1]) # OutputCommitment(f.outputs[2])
    BY <1>1, SinkParts, InnersTellOutputs
<1>9. Violated(f) = {"sinks"}
    <2>1. "sinks" \in Violated(f)
        BY <1>6, ViolatedIs
    <2>2. \A name \in Constraints : name # "sinks" => name \notin Violated(f)
        BY <1>1, <1>2, <1>3, <1>4, <1>5, <1>7, <1>8, SmokeAssumption, ViolatedIs DEF Constraints
    <2> QED
        BY <2>1, <2>2, ViolatedIs
<1> QED
    BY <1>9 DEF f

LEMMA ZeroAuthorizerViolates ==
    ASSUME NothingHashesToZero, NEW v, Ordered(v), Fits(v)
    PROVE  Violated(ZeroAuthorizer(v)) = {"authorizer"}
<1> DEFINE f == ZeroAuthorizer(v)
           t == TransferSpend(v)
<1>1. /\ f.cms = t.cms /\ f.inputs = t.inputs /\ f.outputs = t.outputs
      /\ f.publicAmount = t.publicAmount /\ f.fee = t.fee
      /\ f.recipient = t.recipient /\ f.authorizer = NoAddress
    BY DEF ZeroAuthorizer, TransferSpend
<1>2. t.publicAmount = 0 /\ t.recipient = NoAddress
    BY TransferParts
<1>3. /\ SpendValues(t) /\ InputSum(t) # 0 /\ SpendSinks(t) /\ SpendReserved(t)
      /\ InputNullifier(PoolDomain, t.inputs[1]) # InputNullifier(PoolDomain, t.inputs[2])
      /\ OutputCommitment(t.outputs[1]) # OutputCommitment(t.outputs[2])
      /\ \A k \in 1..2 : Member(TreeRoot(t.cms), t.inputs[k])
    BY TransferKeeps
<1> HIDE DEF f, t
<1>4. SpendValues(f) /\ InputSum(f) # 0 /\ SpendSinks(f) /\ SpendReserved(f)
    BY <1>1, <1>3 DEF SpendValues, InputSum, SpendSinks, SpendReserved
<1>5. Violated(f) = {"authorizer"}
    <2>1. "authorizer" \in Violated(f)
        BY <1>1, ViolatedIs
    <2>2. \A name \in Constraints : name # "authorizer" => name \notin Violated(f)
        BY <1>1, <1>2, <1>3, <1>4, ViolatedIs DEF Constraints
    <2> QED
        BY <2>1, <2>2, ViolatedIs
<1> QED
    BY <1>5 DEF f

LEMMA PositiveSinkViolates ==
    ASSUME NothingHashesToZero, NEW v, Ordered(v), Fits(v)
    PROVE  Violated(PositiveSink(v)) = {"reserved"}
<1> DEFINE f == PositiveSink(v)
           t == TransferSpend(v)
<1>1. /\ f.cms = t.cms /\ f.inputs = t.inputs /\ f.outputs[2] = t.outputs[2]
      /\ f.outputs[1].value = t.outputs[1].value /\ f.outputs[1].inner = SinkInner0
      /\ f.publicAmount = t.publicAmount /\ f.fee = t.fee
      /\ f.recipient = t.recipient /\ f.authorizer = t.authorizer
    BY DEF PositiveSink, TransferSpend, Output
<1>2. /\ t.publicAmount = 0 /\ t.recipient = NoAddress
      /\ t.outputs[1].value = v.payment /\ t.outputs[2].inner = Inner("a2", "a2")
    BY TransferParts
<1>3. /\ SpendValues(t) /\ InputSum(t) # 0 /\ SpendSinks(t) /\ SpendReserved(t)
      /\ InputNullifier(PoolDomain, t.inputs[1]) # InputNullifier(PoolDomain, t.inputs[2])
      /\ \A k \in 1..2 : Member(TreeRoot(t.cms), t.inputs[k])
      /\ t.authorizer # NoAddress
    BY TransferKeeps
<1> HIDE DEF f, t
<1>4. v.payment > 0 /\ v.payment # 0 /\ 1 \in 1..2 /\ \A k \in 1..2 : k = 1 \/ k = 2
    BY DEF Ordered
<1>5. SpendValues(f)
    <2>1. \A k \in 1..2 : f.outputs[k].value = t.outputs[k].value
        BY <1>1, <1>4
    <2>2. InputSum(f) = InputSum(t)
        BY <1>1 DEF InputSum
    <2> QED
        BY <1>1, <1>3, <2>1, <2>2 DEF SpendValues
<1>6. InputSum(f) # 0
    BY <1>1, <1>3 DEF InputSum
<1>7. SpendSinks(f)
    BY <1>1, <1>2, <1>3, <1>4 DEF SpendSinks
<1>8. ~SpendReserved(f)
    BY <1>1, <1>2, <1>4 DEF SpendReserved
<1>9. OutputCommitment(f.outputs[1]) # OutputCommitment(f.outputs[2])
    BY <1>1, <1>2, UsesDiffer, InnersTellOutputs
<1>10. Violated(f) = {"reserved"}
    <2>1. "reserved" \in Violated(f)
        BY <1>8, ViolatedIs
    <2>2. \A name \in Constraints : name # "reserved" => name \notin Violated(f)
        BY <1>1, <1>2, <1>3, <1>5, <1>6, <1>7, <1>9, ViolatedIs DEF Constraints
    <2> QED
        BY <2>1, <2>2, ViolatedIs
<1> QED
    BY <1>10 DEF f

LEMMA MissingRecipientViolates ==
    ASSUME NothingHashesToZero, NEW v, Ordered(v), Fits(v)
    PROVE  Violated(MissingRecipient(v)) = {"recipient"}
<1> DEFINE f == MissingRecipient(v)
           w == WithdrawalSpend(v)
<1>1. /\ f.cms = w.cms /\ f.inputs = w.inputs /\ f.outputs = w.outputs
      /\ f.publicAmount = w.publicAmount /\ f.fee = w.fee
      /\ f.recipient = NoAddress /\ f.authorizer = w.authorizer
    BY DEF MissingRecipient, WithdrawalSpend
<1>2. /\ SpendValues(w) /\ InputSum(w) # 0 /\ SpendSinks(w) /\ SpendReserved(w)
      /\ InputNullifier(PoolDomain, w.inputs[1]) # InputNullifier(PoolDomain, w.inputs[2])
      /\ OutputCommitment(w.outputs[1]) # OutputCommitment(w.outputs[2])
      /\ \A k \in 1..2 : Member(TreeRoot(w.cms), w.inputs[k])
      /\ w.authorizer # NoAddress /\ w.publicAmount # 0
    BY WithdrawalKeeps
<1> HIDE DEF f, w
<1>3. SpendValues(f) /\ InputSum(f) # 0 /\ SpendSinks(f) /\ SpendReserved(f)
    BY <1>1, <1>2 DEF SpendValues, InputSum, SpendSinks, SpendReserved
<1>4. Violated(f) = {"recipient"}
    <2>1. "recipient" \in Violated(f)
        BY <1>1, <1>2, ViolatedIs
    <2>2. \A name \in Constraints : name # "recipient" => name \notin Violated(f)
        BY <1>1, <1>2, <1>3, ViolatedIs DEF Constraints
    <2> QED
        BY <2>1, <2>2, ViolatedIs
<1> QED
    BY <1>4 DEF f

-----------------------------------------------------------------------------
\* What passes the asserts and has its real inputs in their places is provable.
LEMMA SoundSpendProves ==
    ASSUME NothingHashesToZero, NEW spend, Len(spend.cms) \in 1..CAPACITY,
           SpendValues(spend), InputSum(spend) # 0, SpendSinks(spend), SpendReserved(spend),
           spend.inputs[1].spendKey # spend.inputs[2].spendKey,
           OutputCommitment(spend.outputs[1]) # OutputCommitment(spend.outputs[2]),
           spend.authorizer # NoAddress,
           spend.publicAmount = 0 <=> spend.recipient = NoAddress,
           \A k \in 1..2 : spend.inputs[k].value = 0 \/
               /\ spend.inputs[k].index \in 0..(Len(spend.cms) - 1)
               /\ spend.cms[spend.inputs[k].index + 1] = InputCommitment(spend.inputs[k])
    PROVE  Asserts(spend) /\ Proves(spend)
<1>1. /\ \A k \in 1..2 : /\ spend.inputs[k].value \in Nat /\ spend.inputs[k].value < MAX_VALUE
                         /\ spend.outputs[k].value \in Nat /\ spend.outputs[k].value < MAX_VALUE
      /\ spend.publicAmount \in Nat /\ spend.publicAmount < MAX_VALUE
      /\ spend.fee \in Nat /\ spend.fee < MAX_VALUE
      /\ spend.inputs[1].value + spend.inputs[2].value
         = spend.outputs[1].value + spend.outputs[2].value + spend.publicAmount + spend.fee
    <2>1. \A n : InRange(n) => n \in Nat /\ n < MAX_VALUE
        BY ValueAssumption DEF InRange
    <2>2. /\ \A k \in 1..2 : InRange(spend.inputs[k].value) /\ InRange(spend.outputs[k].value)
          /\ InRange(spend.publicAmount) /\ InRange(spend.fee)
        BY DEF SpendValues
    <2>3. spend.inputs[1].value + spend.inputs[2].value
          = spend.outputs[1].value + spend.outputs[2].value + spend.publicAmount + spend.fee
        BY DEF SpendValues, InputSum
    <2> QED
        BY <2>1, <2>2, <2>3
<1>2. 1 \in 1..2 /\ 2 \in 1..2 /\ \A k \in 1..2 : k = 1 \/ k = 2
    OBVIOUS
<1>3. \E k \in 1..2 : spend.inputs[k].value > 0
    <2>1. PICK a, b : a = spend.inputs[1].value /\ b = spend.inputs[2].value
        OBVIOUS
    <2>2. a \in Nat /\ b \in Nat
        BY <1>1, <1>2, <2>1
    <2>3. a + b # 0
        BY <2>1 DEF InputSum
    <2>4. a > 0 \/ b > 0
        BY <2>2, <2>3
    <2> QED
        BY <1>2, <2>1, <2>4
<1>4. \A k \in 1..2 : spend.inputs[k].value = 0 \/
          /\ spend.inputs[k].index \in Indices /\ spend.inputs[k].index < Len(spend.cms)
          /\ spend.inputs[k].index # NoIndex
          /\ spend.cms[spend.inputs[k].index + 1] = InputCommitment(spend.inputs[k])
    <2>1. ASSUME NEW i \in 0..(Len(spend.cms) - 1)
          PROVE  i \in Indices /\ i < Len(spend.cms) /\ i # NoIndex
        <3>1. i \in Indices /\ i < Len(spend.cms)
            BY ShapeAssumption DEF Indices
        <3> QED
            BY <3>1, SmokeAssumption
    <2> QED
        BY <2>1
<1>5. OutputAsserts(spend.outputs)
    <2>1. /\ spend.outputs[1].value = 0 => spend.outputs[1].inner = SinkInner0
          /\ spend.outputs[2].value = 0 => spend.outputs[2].inner = SinkInner1
        BY <1>2, SinkParts DEF SpendSinks
    <2> QED
        BY <2>1 DEF OutputAsserts, SpendReserved
<1>6. Asserts(spend)
    <2>1. \A k \in 1..2 : spend.inputs[k].index # NoIndex \/ spend.inputs[k].value = 0
        BY <1>4
    <2>2. \A value \in {spend.publicAmount, spend.fee} \cup {spend.inputs[k].value : k \in 1..2}
                  \cup {spend.outputs[k].value : k \in 1..2} : 0 <= value /\ value < MAX_VALUE
        BY <1>1
    <2> QED
        BY <1>1, <1>3, <1>5, <2>1, <2>2 DEF Asserts, WitnessAsserts
<1>7. InputCommitment(spend.inputs[1]) # InputCommitment(spend.inputs[2])
    BY DEF InputCommitment, Commit, Inner
<1>8. Proves(spend)
    <2>1. WitnessAsserts(spend.inputs, spend.outputs, spend.publicAmount, spend.fee,
                         spend.authorizer)
        BY <1>6 DEF Asserts
    <2>2. Provable(BuildWitness(spend.cms, spend.inputs, spend.outputs),
                   WalletPublics(spend.cms, spend.inputs, spend.outputs, spend.publicAmount,
                                 spend.fee, spend.recipient, spend.authorizer))
        BY <1>1, <1>4, <1>7, <2>1, AssertedIsProvable
    <2> QED
        BY <2>2 DEF Proves, Publics
<1> QED
    BY <1>6, <1>8

LEMMA TransferMade ==
    ASSUME NothingHashesToZero, NEW v, Ordered(v)
    PROVE  /\ Fits(v) => Asserts(TransferSpend(v)) /\ Proves(TransferSpend(v))
           /\ Asserts(TransferSpend(v)) => Fits(v)
<1> DEFINE t == TransferSpend(v)
<1>1. /\ Len(t.cms) = 1 /\ t.cms[1] = InputCommitment(t.inputs[1])
      /\ t.inputs[1].spendKey = "a" /\ t.inputs[2].spendKey = "dummy1"
      /\ t.inputs[1].value = v.shield /\ t.inputs[1].index = 0 /\ t.inputs[2].value = 0
      /\ t.outputs[2].inner = Inner("a2", "a2")
      /\ t.outputs[2].value = v.shield - v.payment - v.fee
      /\ t.publicAmount = 0 /\ t.recipient = NoAddress
    BY TransferParts
<1>2. \A k \in 1..2 : k = 1 \/ k = 2
    OBVIOUS
<1>3. ASSUME Fits(v)
      PROVE  Asserts(t) /\ Proves(t)
    <2>1. /\ SpendValues(t) /\ InputSum(t) # 0 /\ SpendSinks(t) /\ SpendReserved(t)
          /\ OutputCommitment(t.outputs[1]) # OutputCommitment(t.outputs[2])
          /\ t.authorizer # NoAddress
        BY <1>3, TransferKeeps
    <2> HIDE DEF t
    <2>2. Len(t.cms) \in 1..CAPACITY
        BY <1>1, SmokeAssumption, ShapeAssumption
    <2>3. t.inputs[1].spendKey # t.inputs[2].spendKey
        BY <1>1
    <2>4. \A k \in 1..2 : t.inputs[k].value = 0 \/
              /\ t.inputs[k].index \in 0..(Len(t.cms) - 1)
              /\ t.cms[t.inputs[k].index + 1] = InputCommitment(t.inputs[k])
        BY <1>1, <1>2
    <2> QED
        BY <1>1, <2>1, <2>2, <2>3, <2>4, SoundSpendProves
<1>4. ASSUME Asserts(t)
      PROVE  Fits(v)
    <2>1. WitnessAsserts(t.inputs, t.outputs, t.publicAmount, t.fee, t.authorizer)
        BY <1>4 DEF Asserts
    <2> HIDE DEF t
    <2>2. \A k \in 1..2 : t.inputs[k].value < MAX_VALUE /\ 0 <= t.outputs[k].value
        BY <2>1 DEF WitnessAsserts
    <2>3. t.outputs[2].value # 0
        BY <1>1, <2>1, UsesDiffer DEF WitnessAsserts, OutputAsserts
    <2>4. v.shield < MAX_VALUE /\ 0 <= v.shield - v.payment - v.fee
          /\ v.shield - v.payment - v.fee # 0
        BY <1>1, <2>2, <2>3
    <2> QED
        BY <2>4 DEF Ordered, Fits
<1> QED
    BY <1>3, <1>4

LEMMA WithdrawalMade ==
    ASSUME NothingHashesToZero, NEW v, Ordered(v), Fits(v)
    PROVE  Asserts(WithdrawalSpend(v)) /\ Proves(WithdrawalSpend(v))
<1> DEFINE w == WithdrawalSpend(v)
<1>1. /\ Len(w.cms) = 3 /\ w.cms[2] = InputCommitment(w.inputs[1])
      /\ w.inputs[1].spendKey = "b" /\ w.inputs[2].spendKey = "dummy2"
      /\ w.inputs[1].index = 1 /\ w.inputs[2].value = 0
      /\ w.recipient = Recipient
    BY WithdrawalParts
<1>2. /\ SpendValues(w) /\ InputSum(w) # 0 /\ SpendSinks(w) /\ SpendReserved(w)
      /\ OutputCommitment(w.outputs[1]) # OutputCommitment(w.outputs[2])
      /\ w.authorizer # NoAddress /\ w.publicAmount # 0
    BY WithdrawalKeeps
<1> HIDE DEF w
<1>3. Len(w.cms) \in 1..CAPACITY
    BY <1>1, SmokeAssumption, ShapeAssumption
<1>4. w.inputs[1].spendKey # w.inputs[2].spendKey
    BY <1>1
<1>5. \A k \in 1..2 : k = 1 \/ k = 2
    OBVIOUS
<1>6. \A k \in 1..2 : w.inputs[k].value = 0 \/
          /\ w.inputs[k].index \in 0..(Len(w.cms) - 1)
          /\ w.cms[w.inputs[k].index + 1] = InputCommitment(w.inputs[k])
    BY <1>1, <1>5
<1>7. w.publicAmount = 0 <=> w.recipient = NoAddress
    BY <1>1, <1>2, SmokeAssumption
<1>8. Asserts(w) /\ Proves(w)
    BY <1>2, <1>3, <1>4, <1>6, <1>7, SoundSpendProves
<1> QED
    BY <1>8 DEF w

\* A constraint that a spend violates by itself keeps it from being proved.
LEMMA ViolationRefuses ==
    ASSUME NEW spend, NEW name \in Constraints \ {"values", "membership"},
           name \in Violated(spend)
    PROVE  ~Proves(spend)
<1> SUFFICES ASSUME Proves(spend) PROVE FALSE
    OBVIOUS
<1> DEFINE s == Publics(spend)
           w == BuildWitness(spend.cms, spend.inputs, spend.outputs)
<1>1. /\ s.domain = PoolDomain
      /\ s.nf1 = InputNullifier(PoolDomain, spend.inputs[1])
      /\ s.nf2 = InputNullifier(PoolDomain, spend.inputs[2])
      /\ s.outCm1 = OutputCommitment(spend.outputs[1])
      /\ s.outCm2 = OutputCommitment(spend.outputs[2])
      /\ s.publicAmount = spend.publicAmount
      /\ s.recipient = spend.recipient /\ s.authorizer = spend.authorizer
    BY DEF Publics, WalletPublics
<1>2. w.inputs = spend.inputs /\ w.outputs = spend.outputs
    BY DEF BuildWitness
<1>3. CircuitAccepts(w, s)
    BY DEF Proves, Provable
<1> HIDE DEF s, w
<1>4. /\ OutputRules(spend.outputs) /\ Conserved(w, s)
      /\ s.authorizer # NoAddress /\ s.nf1 # s.nf2 /\ s.outCm1 # s.outCm2
      /\ s.publicAmount = 0 <=> s.recipient = NoAddress
    BY <1>2, <1>3 DEF CircuitAccepts
<1>5. InputSum(spend) # 0
    <2>1. InputSum(spend) % FieldOrder # 0
        BY <1>2, <1>4 DEF Conserved, InputSum
    <2>2. 0 % FieldOrder = 0
        BY FieldAssumption, ValueAssumption
    <2> QED
        BY <2>1, <2>2
<1>6. SpendSinks(spend)
    <2>1. \A k \in 1..2 : k = 1 \/ k = 2
        OBVIOUS
    <2> QED
        BY <1>4, <2>1, SinkParts DEF SpendSinks, OutputRules
<1>7. SpendReserved(spend)
    <2>1. \A k \in 1..2 : spend.outputs[k].value > 0 => spend.outputs[k].value # 0
        OBVIOUS
    <2> QED
        BY <1>4, <2>1 DEF SpendReserved, OutputRules
<1> QED
    BY <1>1, <1>4, <1>5, <1>6, <1>7, ViolatedIs DEF Constraints

LEMMA ForgeriesViolate ==
    ASSUME NothingHashesToZero, NEW v, Ordered(v), Fits(v), NEW forged \in Forged(v)
    PROVE  /\ Violated(forged.spend) = {forged.constraint}
           /\ forged.constraint \in Constraints \ {"values", "membership"}
<1>1. \/ forged = [constraint |-> "nullifiers", spend |-> SameNote(v)]
      \/ forged = [constraint |-> "realInput", spend |-> NoReal(v)]
      \/ forged = [constraint |-> "sinks", spend |-> WrongSinks(v)]
      \/ forged = [constraint |-> "authorizer", spend |-> ZeroAuthorizer(v)]
      \/ forged = [constraint |-> "reserved", spend |-> PositiveSink(v)]
      \/ forged = [constraint |-> "recipient", spend |-> MissingRecipient(v)]
      \/ Halves(v) /\ forged = [constraint |-> "outputs", spend |-> DuplicateOutputs(v)]
    BY DEF Forged
<1>2. CASE forged = [constraint |-> "nullifiers", spend |-> SameNote(v)]
    BY <1>2, SameNoteViolates DEF Constraints
<1>3. CASE forged = [constraint |-> "realInput", spend |-> NoReal(v)]
    BY <1>3, NoRealViolates DEF Constraints
<1>4. CASE forged = [constraint |-> "sinks", spend |-> WrongSinks(v)]
    BY <1>4, WrongSinksViolates DEF Constraints
<1>5. CASE forged = [constraint |-> "authorizer", spend |-> ZeroAuthorizer(v)]
    BY <1>5, ZeroAuthorizerViolates DEF Constraints
<1>6. CASE forged = [constraint |-> "reserved", spend |-> PositiveSink(v)]
    BY <1>6, PositiveSinkViolates DEF Constraints
<1>7. CASE forged = [constraint |-> "recipient", spend |-> MissingRecipient(v)]
    BY <1>7, MissingRecipientViolates DEF Constraints
<1>8. CASE Halves(v) /\ forged = [constraint |-> "outputs", spend |-> DuplicateOutputs(v)]
    BY <1>8, DuplicateOutputViolates DEF Constraints
<1> QED
    BY <1>1, <1>2, <1>3, <1>4, <1>5, <1>6, <1>7, <1>8

-----------------------------------------------------------------------------
\* The subtrees that the pool holds after the first n of a list of insertions.
Insertions(cms, n, g) ==
    [k \in 0..n |-> IF k = 0 THEN NoSubtrees ELSE InsertLeaf(g[k - 1], k - 1, cms[k])]

LEMMA InsertionsExist ==
    ASSUME NEW cms
    PROVE  \A n \in Nat : \E g : g = Insertions(cms, n, g)
<1> DEFINE T == {n \in Nat : \E g : g = Insertions(cms, n, g)}
<1>1. 0 \in T
    <2>1. [k \in 0..0 |-> NoSubtrees] = Insertions(cms, 0, [k \in 0..0 |-> NoSubtrees])
        BY DEF Insertions
    <2> QED
        BY <2>1
<1>2. ASSUME NEW n \in Nat, n \in T PROVE n + 1 \in T
    <2>1. PICK g : g = Insertions(cms, n, g)
        BY <1>2
    <2>2. PICK top : top = InsertLeaf(g[n], n, cms[n + 1])
        OBVIOUS
    <2> DEFINE h == [k \in 0..(n + 1) |-> IF k = n + 1 THEN top ELSE g[k]]
    <2>3. \A k \in 0..n : g[k] = IF k = 0 THEN NoSubtrees ELSE InsertLeaf(g[k - 1], k - 1, cms[k])
        BY <2>1 DEF Insertions
    <2>4. ASSUME NEW k \in 0..(n + 1)
          PROVE  h[k] = IF k = 0 THEN NoSubtrees ELSE InsertLeaf(h[k - 1], k - 1, cms[k])
        <3>1. CASE k = n + 1
            <4>1. h[k] = top /\ h[k - 1] = g[n] /\ k # 0 /\ k - 1 = n
                BY <3>1
            <4> QED
                BY <2>2, <3>1, <4>1
        <3>2. CASE k # n + 1
            <4>1. k \in 0..n /\ h[k] = g[k] /\ (k # 0 => h[k - 1] = g[k - 1])
                BY <3>2
            <4> QED
                BY <2>3, <4>1
        <3> QED
            BY <3>1, <3>2
    <2>5. h = Insertions(cms, n + 1, h)
        BY <2>4 DEF Insertions
    <2> QED
        BY <2>5
<1> HIDE DEF T
<1>3. \A n \in Nat : n \in T
    BY <1>1, <1>2, SetInduction
<1> QED
    BY <1>3 DEF T

\* The root that the pool has after a list of insertions is the wallet's.
LEMMA PoolAfterRoot ==
    ASSUME NEW cms, Len(cms) \in 1..CAPACITY
    PROVE  ComputeRoot(PoolAfter(cms), Len(cms)) = TreeRoot(cms)
<1> DEFINE count == Len(cms)
           g == CHOOSE h : h = Insertions(cms, count, h)
           Filled(n) == [i \in Indices |-> IF i < n THEN cms[i + 1] ELSE Zero]
           T == {n \in Nat : n <= count => SubtreesWait(g[n], Filled(n), n)}
<1>1. PoolAfter(cms) = g[count]
    BY DEF PoolAfter, Insertions, NoSubtrees
<1>2. count \in Nat /\ count \in 1..CAPACITY /\ CAPACITY \in Nat
    BY ShapeAssumption
<1>3. g = Insertions(cms, count, g)
    BY <1>2, InsertionsExist
<1> HIDE DEF count, g
<1>4. \A k \in 0..count : g[k] = IF k = 0 THEN NoSubtrees ELSE InsertLeaf(g[k - 1], k - 1, cms[k])
    BY <1>3 DEF Insertions
<1>5. 0 \in T
    <2>1. \A i \in Indices : Filled(0)[i] = Zero
        BY DEF Indices
    <2> HIDE DEF Filled
    <2>2. SubtreesWait(NoSubtrees, Filled(0), 0)
        BY <2>1, EmptyTreeWaits
    <2>3. g[0] = NoSubtrees
        BY <1>2, <1>4
    <2> QED
        BY <2>2, <2>3
<1>6. ASSUME NEW n \in Nat, n \in T PROVE n + 1 \in T
    <2> SUFFICES ASSUME n + 1 <= count PROVE SubtreesWait(g[n + 1], Filled(n + 1), n + 1)
        OBVIOUS
    <2>1. n \in Indices /\ n <= count /\ n + 1 \in 0..count /\ (n + 1) - 1 = n /\ n + 1 # 0
        BY <1>2 DEF Indices
    <2>2. SubtreesWait(g[n], Filled(n), n)
        BY <1>6, <2>1
    <2>3. Filled(n + 1)[n] = cms[n + 1] /\ \A i \in Indices : i # n => Filled(n)[i] = Filled(n + 1)[i]
        BY <2>1 DEF Indices
    <2>4. g[n + 1] = InsertLeaf(g[n], n, cms[n + 1])
        BY <1>4, <2>1
    <2> HIDE DEF Filled
    <2> QED
        BY <2>1, <2>2, <2>3, <2>4, InsertKeepsSubtrees
<1> HIDE DEF T
<1>7. \A n \in Nat : n \in T
    BY <1>5, <1>6, SetInduction
<1>8. SubtreesWait(g[count], Filled(count), count)
    BY <1>2, <1>7 DEF T
<1>9. \A i \in Indices : i >= count => Filled(count)[i] = Zero
    BY <1>2 DEF Indices
<1>10. PaddedList(cms, Filled(count))
    BY <1>2 DEF PaddedList, count
<1> HIDE DEF Filled
<1>11. ComputeRoot(g[count], count) = MerkleRoot(Filled(count))
    BY <1>2, <1>8, <1>9, ComputedRootIsComplete
<1>12. TreeRoot(cms) = MerkleRoot(Filled(count))
    BY <1>10, TreeRootIsComplete
<1> QED
    BY <1>1, <1>11, <1>12 DEF count

-----------------------------------------------------------------------------
\* What the stages of the generator say of the amounts it was given.
SmokeIInv ==
    /\ progress \in {"idle", "refused", "values", "failed", "transferred", "withdrawn", "written"}
    /\ progress \notin {"idle", "refused"} => Ordered(wei)
    /\ progress \in {"transferred", "withdrawn", "written"} => Fits(wei)
    /\ progress = "failed" => ~Fits(wei)

LEMMA SmokeInduction ==
    ASSUME NothingHashesToZero
    PROVE  /\ SmokeInit => SmokeIInv
           /\ SmokeIInv /\ [SmokeNext]_smokeVars => SmokeIInv'
<1>1. SmokeInit => SmokeIInv
    BY DEF SmokeInit, SmokeIInv
<1>2. ASSUME SmokeIInv, NEW shield \in Wei, NEW payment \in Wei, NEW fee \in Wei,
             Override([shield |-> shield, payment |-> payment, fee |-> fee])
      PROVE  SmokeIInv'
    <2> DEFINE v == [shield |-> shield, payment |-> payment, fee |-> fee]
    <2>1. /\ v.shield \in Nat /\ v.payment \in Nat /\ v.fee \in Nat
          /\ wei' = v
          /\ progress' = IF 0 < v.fee /\ v.fee < v.payment /\ v.payment < v.shield
                         THEN "values" ELSE "refused"
        BY <1>2, SmokeAssumption DEF Override
    <2> HIDE DEF v
    <2>2. CASE progress' = "values"
        BY <2>1, <2>2 DEF SmokeIInv, Ordered
    <2>3. CASE progress' = "refused"
        BY <2>3 DEF SmokeIInv
    <2> QED
        BY <2>1, <2>2, <2>3
<1>3. ASSUME SmokeIInv, Transfer
      PROVE  SmokeIInv'
    <2>1. /\ progress = "values" /\ wei' = wei
          /\ progress' = IF Asserts(TransferSpend(wei)) /\ Proves(TransferSpend(wei))
                         THEN "transferred" ELSE "failed"
        BY <1>3 DEF Transfer, Prove
    <2>2. Ordered(wei)
        BY <1>3, <2>1 DEF SmokeIInv
    <2>3. Asserts(TransferSpend(wei)) /\ Proves(TransferSpend(wei)) <=> Fits(wei)
        BY <2>2, TransferMade
    <2>4. \/ progress' = "transferred" /\ Fits(wei)
          \/ progress' = "failed" /\ ~Fits(wei)
        BY <2>1, <2>3
    <2>5. Ordered(wei)' /\ (Fits(wei)' <=> Fits(wei))
        BY <2>1, <2>2 DEF Ordered, Fits
    <2> QED
        BY <2>4, <2>5 DEF SmokeIInv
<1>4. ASSUME SmokeIInv, Withdraw
      PROVE  SmokeIInv'
    <2>1. /\ progress = "transferred" /\ wei' = wei
          /\ progress' = IF Asserts(WithdrawalSpend(wei)) /\ Proves(WithdrawalSpend(wei))
                         THEN "withdrawn" ELSE "failed"
        BY <1>4 DEF Withdraw, Prove
    <2>2. Ordered(wei) /\ Fits(wei)
        BY <1>4, <2>1 DEF SmokeIInv
    <2>3. progress' = "withdrawn"
        BY <2>1, <2>2, WithdrawalMade
    <2>4. Ordered(wei)' /\ Fits(wei)'
        BY <2>1, <2>2 DEF Ordered, Fits
    <2> QED
        BY <2>3, <2>4 DEF SmokeIInv
<1>5. ASSUME SmokeIInv, Review
      PROVE  SmokeIInv'
    <2>1. /\ progress = "withdrawn" /\ wei' = wei
          /\ progress' = IF ~Asserts(SameNote(wei)) THEN "failed"
                         ELSE IF \E forged \in Forged(wei) : Proves(forged.spend)
                              THEN "unsound" ELSE "written"
        BY <1>5 DEF Review
    <2>2. Ordered(wei) /\ Fits(wei)
        BY <1>5, <2>1 DEF SmokeIInv
    <2>3. Asserts(SameNote(wei))
        BY <2>2, SameNoteViolates
    <2>4. \A forged \in Forged(wei) : ~Proves(forged.spend)
        <3> SUFFICES ASSUME NEW forged \in Forged(wei) PROVE ~Proves(forged.spend)
            OBVIOUS
        <3>1. /\ Violated(forged.spend) = {forged.constraint}
              /\ forged.constraint \in Constraints \ {"values", "membership"}
            BY <2>2, ForgeriesViolate
        <3>2. forged.constraint \in Violated(forged.spend)
            BY <3>1
        <3> QED
            BY <3>1, <3>2, ViolationRefuses
    <2>5. progress' = "written"
        BY <2>1, <2>3, <2>4
    <2>6. Ordered(wei)' /\ Fits(wei)'
        BY <2>1, <2>2 DEF Ordered, Fits
    <2> QED
        BY <2>5, <2>6 DEF SmokeIInv
<1>6. SmokeIInv /\ UNCHANGED smokeVars => SmokeIInv'
    BY DEF SmokeIInv, smokeVars, Ordered, Fits
<1> QED
    BY <1>1, <1>2, <1>3, <1>4, <1>5, <1>6 DEF SmokeNext

(***************************************************************************)
(* For all amounts and every tree with room for three leaves: the circuit  *)
(* refuses each forged witness of gen_smoke, and each for the one          *)
(* constraint that it is named after (gen_smoke.py:178-223).               *)
(***************************************************************************)
THEOREM ForgeriesTestOneConstraintHolds ==
    ASSUME NothingHashesToZero
    PROVE  SmokeSpec => []ForgeriesTestOneConstraint
<1>1. SmokeInit => SmokeIInv
    BY SmokeInduction
<1>2. SmokeIInv /\ [SmokeNext]_smokeVars => SmokeIInv'
    BY SmokeInduction
<1>3. SmokeIInv => ForgeriesTestOneConstraint
    BY ForgeriesViolate DEF SmokeIInv, ForgeriesTestOneConstraint
<1> QED
    BY <1>1, <1>2, <1>3, PTL DEF SmokeSpec

LEMMA WrittenSettles ==
    ASSUME NothingHashesToZero, NEW v, Ordered(v), Fits(v)
    PROVE  LET transfer == TransferSpend(v)
               withdrawal == WithdrawalSpend(v)
               t == Publics(transfer)
               w == Publics(withdrawal)
           IN  /\ \A spend \in {transfer, withdrawal} :
                      Publics(spend).root = ComputeRoot(PoolAfter(spend.cms), Len(spend.cms))
               /\ \A nf \in {t.nf1, t.nf2} : nf \notin {w.nf1, w.nf2}
               /\ \A i, j \in 1..3 : i # j => withdrawal.cms[i] # withdrawal.cms[j]
               /\ \A i \in 1..3 : withdrawal.cms[i] \notin {SINK_0, SINK_1}
<1> DEFINE transfer == TransferSpend(v)
           withdrawal == WithdrawalSpend(v)
           t == Publics(transfer)
           w == Publics(withdrawal)
<1>1. ASSUME NEW spend \in {transfer, withdrawal}
      PROVE  Publics(spend).root = ComputeRoot(PoolAfter(spend.cms), Len(spend.cms))
    <2>1. Len(transfer.cms) = 1 /\ Len(withdrawal.cms) = 3
        BY TransferParts, WithdrawalParts
    <2> HIDE DEF transfer, withdrawal
    <2>a. Len(spend.cms) = 1 \/ Len(spend.cms) = 3
        <3>1. CASE spend = transfer
            BY <3>1, <2>1
        <3>2. CASE spend = withdrawal
            BY <3>2, <2>1
        <3> QED
            BY <1>1, <3>1, <3>2
    <2>b. 3 <= CAPACITY /\ CAPACITY \in Nat
        BY SmokeAssumption, ShapeAssumption
    <2>2. Len(spend.cms) \in 1..CAPACITY
        <3> DEFINE length == Len(spend.cms)
        <3>1. length = 1 \/ length = 3
            BY <2>a
        <3> HIDE DEF length
        <3>2. length \in 1..CAPACITY
            BY <3>1, <2>b
        <3> QED
            BY <3>2 DEF length
    <2>3. Publics(spend).root = TreeRoot(spend.cms)
        BY DEF Publics, WalletPublics
    <2> QED
        BY <2>2, <2>3, PoolAfterRoot
<1>2. \A nf \in {t.nf1, t.nf2} : nf \notin {w.nf1, w.nf2}
    <2>1. /\ transfer.inputs[1].spendKey = "a" /\ transfer.inputs[2].spendKey = "dummy1"
          /\ withdrawal.inputs[1].spendKey = "b" /\ withdrawal.inputs[2].spendKey = "dummy2"
        BY TransferParts, WithdrawalParts
    <2>2. /\ t.nf1 = InputNullifier(PoolDomain, transfer.inputs[1])
          /\ t.nf2 = InputNullifier(PoolDomain, transfer.inputs[2])
          /\ w.nf1 = InputNullifier(PoolDomain, withdrawal.inputs[1])
          /\ w.nf2 = InputNullifier(PoolDomain, withdrawal.inputs[2])
        BY DEF Publics, WalletPublics
    <2> HIDE DEF transfer, withdrawal, t, w
    <2> QED
        BY <2>1, <2>2, KeysTellNullifiers
<1>3. /\ withdrawal.cms[1] = Commit(Inner("a", "a"), v.shield)
      /\ withdrawal.cms[2] = Commit(Inner("b", "b"), v.payment)
      /\ withdrawal.cms[3] = Commit(Inner("a2", "a2"), v.shield - v.payment - v.fee)
    <2>1. /\ withdrawal.cms[1] = InputCommitment(transfer.inputs[1])
          /\ withdrawal.cms[2] = OutputCommitment(transfer.outputs[1])
          /\ withdrawal.cms[3] = OutputCommitment(transfer.outputs[2])
        BY WithdrawalParts
    <2>2. /\ transfer.inputs[1].spendKey = "a" /\ transfer.inputs[1].rho = "a"
          /\ transfer.inputs[1].value = v.shield
          /\ transfer.outputs[1].inner = Inner("b", "b") /\ transfer.outputs[1].value = v.payment
          /\ transfer.outputs[2].inner = Inner("a2", "a2")
          /\ transfer.outputs[2].value = v.shield - v.payment - v.fee
        BY TransferParts
    <2> HIDE DEF transfer, withdrawal
    <2> QED
        BY <2>1, <2>2 DEF InputCommitment, OutputCommitment
<1> HIDE DEF transfer, withdrawal, t, w
<1>4. \A i \in 1..3 : i = 1 \/ i = 2 \/ i = 3
    OBVIOUS
<1>5. \A i, j \in 1..3 : i # j => withdrawal.cms[i] # withdrawal.cms[j]
    <2>1. /\ withdrawal.cms[1] # withdrawal.cms[2] /\ withdrawal.cms[1] # withdrawal.cms[3]
          /\ withdrawal.cms[2] # withdrawal.cms[3]
        BY <1>3 DEF Commit, Inner
    <2> QED
        BY <1>4, <2>1
<1>6. \A i \in 1..3 : withdrawal.cms[i] \notin {SINK_0, SINK_1}
    <2>1. v.shield # 0 /\ v.payment # 0 /\ v.shield - v.payment - v.fee # 0
        BY DEF Ordered, Fits
    <2>2. \A inner, value : value # 0 => Commit(inner, value) \notin {SINK_0, SINK_1}
        BY DEF Commit, SINK_0, SINK_1
    <2> QED
        BY <1>3, <1>4, <2>1, <2>2
<1> QED
    BY <1>1, <1>2, <1>5, <1>6 DEF transfer, withdrawal, t, w

(***************************************************************************)
(* For all amounts and every tree with room for three leaves: the two      *)
(* spends of a fixture of gen_smoke meet the successive roots of a pool it *)
(* is used in first, with disjoint keys and outputs that are no leaves yet *)
(* there, and ordered amounts make no fixture only if they                 *)
(* leave no change or are no note's value (gen_smoke.py:145-174).          *)
(***************************************************************************)
THEOREM FixtureSettlesHolds ==
    ASSUME NothingHashesToZero
    PROVE  SmokeSpec => []FixtureSettles
<1>1. SmokeInit => SmokeIInv
    BY SmokeInduction
<1>2. SmokeIInv /\ [SmokeNext]_smokeVars => SmokeIInv'
    BY SmokeInduction
<1>3. SmokeIInv => FixtureSettles
    <2> SUFFICES ASSUME SmokeIInv PROVE FixtureSettles
        OBVIOUS
    <2>1. progress = "failed" => wei.payment + wei.fee >= wei.shield \/ wei.shield >= MAX_VALUE
        BY ValueAssumption DEF SmokeIInv, Ordered, Fits
    <2>2. CASE progress = "written"
        <3>1. Ordered(wei) /\ Fits(wei)
            BY <2>2 DEF SmokeIInv
        <3> QED
            BY <2>1, <3>1, WrittenSettles DEF FixtureSettles
    <2>3. CASE progress # "written"
        BY <2>1, <2>3 DEF FixtureSettles
    <2> QED
        BY <2>2, <2>3
<1> QED
    BY <1>1, <1>2, <1>3, PTL DEF SmokeSpec
=============================================================================
