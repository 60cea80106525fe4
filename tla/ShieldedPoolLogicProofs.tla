---------------------- MODULE ShieldedPoolLogicProofs ----------------------
(***************************************************************************)
(* The incremental tree and the storage of the settlement contract, for    *)
(* every depth of the tree, by themselves: these lemmas hold of every      *)
(* module in which the contract is called, by whomever.                    *)
(*                                                                         *)
(* What a root can never open to: something that was not inserted. A node  *)
(* is called clean if every way down from it to the leaves ends at an      *)
(* inserted commitment or at the empty leaf. Inserting and computing roots *)
(* make clean nodes of clean nodes, whatever the index is, and Opens only  *)
(* follows one way down.                                                   *)
(*                                                                         *)
(* What a root always is: the root of the complete tree over the leaves,   *)
(* padded with empty ones. SubtreesWait says what storage holds of that    *)
(* tree when n leaves are in, as a counter in binary; an insertion carries *)
(* the trailing ones of n, and _computeRoot meets at every level either a  *)
(* waiting subtree or an empty one.                                        *)
(*                                                                         *)
(* TreeBuilt, LeafIInv and RingBuilt say these things of the contract's    *)
(* state, with the closed epochs and the published roots, and the lemmas   *)
(* after each show that every external function keeps it.                  *)
(***************************************************************************)
EXTENDS ShieldedPoolLogic, WellFoundedInduction, TLAPS

\* Induction over the naturals, for a set of them.
LEMMA SetInduction ==
    ASSUME NEW T, 0 \in T, \A n \in Nat : n \in T => n + 1 \in T
    PROVE  \A n \in Nat : n \in T
<1> DEFINE U == {n \in Nat : n \notin T}
<1> SUFFICES ASSUME U # {} PROVE FALSE
    OBVIOUS
<1>1. U \subseteq Nat
    OBVIOUS
<1> HIDE DEF U
<1>2. PICK n \in U : \A m \in U : <<m, n>> \notin OpToRel(<, Nat)
    BY <1>1, NatLessThanWellFounded, WFMin
<1>3. n \in Nat /\ n \notin T /\ \A m \in U : m \in Nat => ~(m < n)
    BY <1>1, <1>2 DEF OpToRel, U
<1>4. n # 0
    BY <1>3
<1>5. n - 1 \in Nat /\ n - 1 \notin U
    BY <1>3, <1>4
<1> QED
    BY <1>3, <1>5 DEF U

-----------------------------------------------------------------------------
(***************************************************************************)
(* The equations of the recursive functions of IncrementalMerkle, and that *)
(* each has a solution.                                                    *)
(***************************************************************************)
Zeros(n, g) == [l \in 0..n |-> IF l = 0 THEN Zero ELSE Hash(g[l - 1], g[l - 1])]

Carried(filled, cm, n, g) ==
    [l \in 0..n |-> IF l = 0 THEN cm ELSE Hash(filled[l - 1], g[l - 1])]

Padded(filled, next, n, g) ==
    [l \in 0..n |-> IF l = 0 THEN Zero
                    ELSE IF Bit(next, l - 1) = 0
                         THEN Hash(g[l - 1], zeros[l - 1])
                         ELSE Hash(filled[l - 1], g[l - 1])]

WayDown(root, index, n, g) ==
    [l \in 0..n |-> IF l = 0 THEN root ELSE Child(g[l - 1], Bit(index, DEPTH - l))]

LEMMA ZerosExists == \A n \in Nat : \E g : g = Zeros(n, g)
<1> DEFINE T == {n \in Nat : \E g : g = Zeros(n, g)}
<1>1. 0 \in T
    <2>1. [l \in 0..0 |-> Zero] = Zeros(0, [l \in 0..0 |-> Zero])
        BY DEF Zeros
    <2> QED
        BY <2>1
<1>2. ASSUME NEW n \in Nat, n \in T PROVE n + 1 \in T
    <2>1. PICK g : g = Zeros(n, g)
        BY <1>2
    <2> DEFINE h == [l \in 0..(n + 1) |-> IF l = n + 1 THEN Hash(g[n], g[n]) ELSE g[l]]
    <2>2. \A l \in 0..n : g[l] = IF l = 0 THEN Zero ELSE Hash(g[l - 1], g[l - 1])
        BY <2>1 DEF Zeros
    <2>3. ASSUME NEW l \in 0..(n + 1)
          PROVE  h[l] = IF l = 0 THEN Zero ELSE Hash(h[l - 1], h[l - 1])
        BY <2>2
    <2>4. h = Zeros(n + 1, h)
        BY <2>3 DEF Zeros
    <2> QED
        BY <2>4
<1> HIDE DEF T
<1>3. \A n \in Nat : n \in T
    BY <1>1, <1>2, SetInduction
<1> QED
    BY <1>3 DEF T

LEMMA CarriedExists ==
    ASSUME NEW filled, NEW cm
    PROVE  \A n \in Nat : \E g : g = Carried(filled, cm, n, g)
<1> DEFINE T == {n \in Nat : \E g : g = Carried(filled, cm, n, g)}
<1>1. 0 \in T
    <2>1. [l \in 0..0 |-> cm] = Carried(filled, cm, 0, [l \in 0..0 |-> cm])
        BY DEF Carried
    <2> QED
        BY <2>1
<1>2. ASSUME NEW n \in Nat, n \in T PROVE n + 1 \in T
    <2>1. PICK g : g = Carried(filled, cm, n, g)
        BY <1>2
    <2> DEFINE h == [l \in 0..(n + 1) |-> IF l = n + 1 THEN Hash(filled[n], g[n]) ELSE g[l]]
    <2>2. \A l \in 0..n : g[l] = IF l = 0 THEN cm ELSE Hash(filled[l - 1], g[l - 1])
        BY <2>1 DEF Carried
    <2>3. ASSUME NEW l \in 0..(n + 1)
          PROVE  h[l] = IF l = 0 THEN cm ELSE Hash(filled[l - 1], h[l - 1])
        BY <2>2
    <2>4. h = Carried(filled, cm, n + 1, h)
        BY <2>3 DEF Carried
    <2> QED
        BY <2>4
<1> HIDE DEF T
<1>3. \A n \in Nat : n \in T
    BY <1>1, <1>2, SetInduction
<1> QED
    BY <1>3 DEF T

LEMMA PaddedExists ==
    ASSUME NEW filled, NEW next
    PROVE  \A n \in Nat : \E g : g = Padded(filled, next, n, g)
<1> DEFINE T == {n \in Nat : \E g : g = Padded(filled, next, n, g)}
           Up(l, below) == IF Bit(next, l) = 0 THEN Hash(below, zeros[l])
                                               ELSE Hash(filled[l], below)
<1>1. 0 \in T
    <2>1. [l \in 0..0 |-> Zero] = Padded(filled, next, 0, [l \in 0..0 |-> Zero])
        BY DEF Padded
    <2> QED
        BY <2>1
<1>2. ASSUME NEW n \in Nat, n \in T PROVE n + 1 \in T
    <2>1. PICK g : g = Padded(filled, next, n, g)
        BY <1>2
    <2> DEFINE h == [l \in 0..(n + 1) |-> IF l = n + 1 THEN Up(n, g[n]) ELSE g[l]]
    <2>2. \A l \in 0..n : g[l] = IF l = 0 THEN Zero ELSE Up(l - 1, g[l - 1])
        BY <2>1 DEF Padded
    <2>3. h = Padded(filled, next, n + 1, h) <=>
              h = [l \in 0..(n + 1) |-> IF l = 0 THEN Zero ELSE Up(l - 1, h[l - 1])]
        BY DEF Padded
    <2>4. ASSUME NEW l \in 0..(n + 1)
          PROVE  h[l] = IF l = 0 THEN Zero ELSE Up(l - 1, h[l - 1])
        <3> HIDE DEF Up
        <3> QED
            BY <2>2
    <2>5. h = Padded(filled, next, n + 1, h)
        <3> HIDE DEF Up
        <3>1. h = [l \in 0..(n + 1) |-> IF l = 0 THEN Zero ELSE Up(l - 1, h[l - 1])]
            BY <2>4
        <3> QED
            BY <2>3, <3>1
    <2> QED
        BY <2>5
<1> HIDE DEF T
<1>3. \A n \in Nat : n \in T
    BY <1>1, <1>2, SetInduction
<1> QED
    BY <1>3 DEF T

LEMMA WayDownExists ==
    ASSUME NEW root, NEW index
    PROVE  \A n \in Nat : \E g : g = WayDown(root, index, n, g)
<1> DEFINE T == {n \in Nat : \E g : g = WayDown(root, index, n, g)}
<1>1. 0 \in T
    <2>1. [l \in 0..0 |-> root] = WayDown(root, index, 0, [l \in 0..0 |-> root])
        BY DEF WayDown
    <2> QED
        BY <2>1
<1>2. ASSUME NEW n \in Nat, n \in T PROVE n + 1 \in T
    <2>1. PICK g : g = WayDown(root, index, n, g)
        BY <1>2
    <2> DEFINE h == [l \in 0..(n + 1) |->
                        IF l = n + 1 THEN Child(g[n], Bit(index, DEPTH - (n + 1))) ELSE g[l]]
    <2>2. \A l \in 0..n : g[l] = IF l = 0 THEN root ELSE Child(g[l - 1], Bit(index, DEPTH - l))
        BY <2>1 DEF WayDown
    <2>3. ASSUME NEW l \in 0..(n + 1)
          PROVE  h[l] = IF l = 0 THEN root ELSE Child(h[l - 1], Bit(index, DEPTH - l))
        BY <2>2
    <2>4. h = WayDown(root, index, n + 1, h)
        BY <2>3 DEF WayDown
    <2> QED
        BY <2>4
<1> HIDE DEF T
<1>3. \A n \in Nat : n \in T
    BY <1>1, <1>2, SetInduction
<1> QED
    BY <1>3 DEF T

-----------------------------------------------------------------------------
\* way[k] is a node k levels below node, reached from child to child.
LeadsDown(way, node, height) ==
    /\ way[0] = node
    /\ \A k \in 1..height : way[k] \in {Child(way[k - 1], 0), Child(way[k - 1], 1)}

\* Every way from a node down to the leaves ends in S or at an empty leaf.
Clean(node, height, S) ==
    \A way : LeadsDown(way, node, height) => way[height] \in S \cup {Zero}

LEMMA CleanGrows ==
    ASSUME NEW node, NEW height, NEW S, NEW T, S \subseteq T, Clean(node, height, S)
    PROVE  Clean(node, height, T)
BY DEF Clean

LEMMA LeafIsClean ==
    ASSUME NEW S, NEW leaf \in S \cup {Zero}
    PROVE  Clean(leaf, 0, S)
BY DEF Clean, LeadsDown

LEMMA ZeroIsClean ==
    ASSUME NEW height \in Nat, NEW S
    PROVE  Clean(Zero, height, S)
<1> SUFFICES ASSUME NEW way, LeadsDown(way, Zero, height)
             PROVE  way[height] = Zero
    BY DEF Clean
<1> DEFINE T == {n \in Nat : n <= height => way[n] = Zero}
<1>1. 0 \in T
    BY DEF LeadsDown
<1>2. ASSUME NEW n \in Nat, n \in T PROVE n + 1 \in T
    <2> SUFFICES ASSUME n + 1 <= height PROVE way[n + 1] = Zero
        OBVIOUS
    <2>1. way[n] = Zero
        BY <1>2
    <2>2. n + 1 \in 1..height /\ (n + 1) - 1 = n
        OBVIOUS
    <2>3. way[n + 1] \in {Child(way[n], 0), Child(way[n], 1)}
        BY <2>2 DEF LeadsDown
    <2> QED
        BY <2>1, <2>3 DEF Child
<1> HIDE DEF T
<1>3. \A n \in Nat : n \in T
    BY <1>1, <1>2, SetInduction
<1> QED
    BY <1>3 DEF T

LEMMA HashIsClean ==
    ASSUME NEW height \in Nat, NEW S, NEW l, NEW r, Clean(l, height, S), Clean(r, height, S)
    PROVE  Clean(Hash(l, r), height + 1, S)
<1> SUFFICES ASSUME NEW way, LeadsDown(way, Hash(l, r), height + 1)
             PROVE  way[height + 1] \in S \cup {Zero}
    BY DEF Clean
<1> DEFINE rest == [k \in 0..height |-> way[k + 1]]
<1>1. way[1] \in {l, r, Zero}
    <2>1. way[1] \in {Child(way[0], 0), Child(way[0], 1)}
        BY DEF LeadsDown
    <2> QED
        BY <2>1 DEF LeadsDown, Child, Hash
<1>2. LeadsDown(rest, way[1], height)
    <2>1. ASSUME NEW k \in 1..height
          PROVE  rest[k] \in {Child(rest[k - 1], 0), Child(rest[k - 1], 1)}
        <3>1. k + 1 \in 1..(height + 1) /\ (k + 1) - 1 = k
            OBVIOUS
        <3>2. way[k + 1] \in {Child(way[k], 0), Child(way[k], 1)}
            BY <3>1 DEF LeadsDown
        <3>3. rest[k] = way[k + 1] /\ rest[k - 1] = way[k]
            OBVIOUS
        <3> QED
            BY <3>2, <3>3
    <2> QED
        BY <2>1 DEF LeadsDown
<1>3. Clean(way[1], height, S)
    BY <1>1, ZeroIsClean
<1>4. rest[height] \in S \cup {Zero}
    <2> HIDE DEF rest
    <2> QED
        BY <1>2, <1>3 DEF Clean
<1> QED
    BY <1>4

(***************************************************************************)
(* A root that is clean opens only to what it was made of.                 *)
(***************************************************************************)
LEMMA CleanRootOpensToLeaves ==
    ASSUME NEW root, NEW S, Clean(root, DEPTH, S), NEW cm, Opens(root, cm)
    PROVE  cm \in S \cup {Zero}
<1>1. PICK index \in Indices : LeafAt(root, index) = cm
    BY DEF Opens
<1> DEFINE g == CHOOSE h : h = WayDown(root, index, DEPTH, h)
<1>2. LeafAt(root, index) = g[DEPTH]
    BY DEF LeafAt, WayDown, Levels
<1>3. g = WayDown(root, index, DEPTH, g)
    BY WayDownExists, ShapeAssumption
<1> HIDE DEF g
<1>4. g[0] = root /\ \A k \in 1..DEPTH : g[k] = Child(g[k - 1], Bit(index, DEPTH - k))
    <2>1. \A k \in 0..DEPTH : g[k] = IF k = 0 THEN root
                                     ELSE Child(g[k - 1], Bit(index, DEPTH - k))
        BY <1>3 DEF WayDown
    <2> QED
        BY <2>1, ShapeAssumption
<1>5. \A node, bit : Child(node, bit) \in {Child(node, 0), Child(node, 1)}
    BY DEF Child
<1>6. LeadsDown(g, root, DEPTH)
    BY <1>4, <1>5 DEF LeadsDown
<1> QED
    BY <1>1, <1>2, <1>6 DEF Clean

-----------------------------------------------------------------------------
\* The subtrees that wait in storage are clean, each at its level.
CleanSubtrees(filled, S) ==
    /\ filled = [level \in Levels |-> filled[level]]
    /\ \A level \in Levels : Clean(filled[level], level, S)

LEMMA ZerosAreClean ==
    ASSUME NEW S
    PROVE  \A level \in Levels : Clean(zeros[level], level, S)
<1>1. zeros = CHOOSE g : g = Zeros(DEPTH, g)
    BY DEF zeros, Zeros, Levels
<1>2. zeros = Zeros(DEPTH, zeros)
    BY <1>1, ZerosExists, ShapeAssumption
<1>3. \A l \in 0..DEPTH : zeros[l] = IF l = 0 THEN Zero ELSE Hash(zeros[l - 1], zeros[l - 1])
    BY <1>2 DEF Zeros
<1> DEFINE T == {n \in Nat : n <= DEPTH => Clean(zeros[n], n, S)}
<1>4. 0 \in T
    BY <1>3, LeafIsClean, ShapeAssumption
<1>5. ASSUME NEW n \in Nat, n \in T PROVE n + 1 \in T
    <2> SUFFICES ASSUME n + 1 <= DEPTH PROVE Clean(zeros[n + 1], n + 1, S)
        OBVIOUS
    <2>1. Clean(zeros[n], n, S)
        BY <1>5, ShapeAssumption
    <2>2. zeros[n + 1] = Hash(zeros[n], zeros[n])
        BY <1>3, ShapeAssumption
    <2> QED
        BY <2>1, <2>2, HashIsClean
<1> HIDE DEF T
<1>6. \A n \in Nat : n \in T
    BY <1>4, <1>5, SetInduction
<1> QED
    BY <1>6, ShapeAssumption DEF T, Levels

(***************************************************************************)
(* _insert leaves clean subtrees, whatever the index it is given.          *)
(***************************************************************************)
LEMMA InsertKeepsClean ==
    ASSUME NEW filled, NEW S, CleanSubtrees(filled, S), NEW index,
           NEW T, S \subseteq T, NEW cm \in T
    PROVE  CleanSubtrees(InsertLeaf(filled, index, cm), T)
<1> DEFINE g == CHOOSE h : h = Carried(filled, cm, DEPTH, h)
           rest == CHOOSE level \in Levels :
                       /\ Bit(index, level) = 0
                       /\ \A below \in 0..(level - 1) : Bit(index, below) = 1
           after == InsertLeaf(filled, index, cm)
<1>1. after = [filled EXCEPT ![rest] = g[rest]]
    BY DEF InsertLeaf, Carried, Levels
<1>2. g = Carried(filled, cm, DEPTH, g)
    BY CarriedExists, ShapeAssumption
<1> HIDE DEF g, rest, after
<1>3. \A l \in 0..DEPTH : g[l] = IF l = 0 THEN cm ELSE Hash(filled[l - 1], g[l - 1])
    BY <1>2 DEF Carried
<1>4. \A level \in Levels : Clean(filled[level], level, T)
    BY CleanGrows DEF CleanSubtrees
<1>5. \A level \in Levels : Clean(g[level], level, T)
    <2> DEFINE U == {n \in Nat : n <= DEPTH => Clean(g[n], n, T)}
    <2>1. 0 \in U
        BY <1>3, LeafIsClean, ShapeAssumption
    <2>2. ASSUME NEW n \in Nat, n \in U PROVE n + 1 \in U
        <3> SUFFICES ASSUME n + 1 <= DEPTH PROVE Clean(g[n + 1], n + 1, T)
            OBVIOUS
        <3>1. Clean(g[n], n, T)
            BY <2>2, ShapeAssumption
        <3>2. Clean(filled[n], n, T)
            BY <1>4, ShapeAssumption DEF Levels
        <3>3. g[n + 1] = Hash(filled[n], g[n])
            BY <1>3, ShapeAssumption
        <3> QED
            BY <3>1, <3>2, <3>3, HashIsClean
    <2> HIDE DEF U
    <2>3. \A n \in Nat : n \in U
        BY <2>1, <2>2, SetInduction
    <2> QED
        BY <2>3, ShapeAssumption DEF U, Levels
<1>6. after = [level \in Levels |-> after[level]]
    BY <1>1 DEF CleanSubtrees
<1>7. ASSUME NEW level \in Levels PROVE Clean(after[level], level, T)
    <2>1. after[level] = IF level = rest THEN g[rest] ELSE filled[level]
        BY <1>1 DEF CleanSubtrees
    <2> QED
        BY <1>4, <1>5, <2>1
<1>8. CleanSubtrees(after, T)
    BY <1>6, <1>7 DEF CleanSubtrees
<1> QED
    BY <1>8 DEF after

(***************************************************************************)
(* _computeRoot returns a clean root, whatever the index it is given.      *)
(***************************************************************************)
LEMMA ComputedRootIsClean ==
    ASSUME NEW filled, NEW S, CleanSubtrees(filled, S), NEW next
    PROVE  Clean(ComputeRoot(filled, next), DEPTH, S)
<1> DEFINE g == CHOOSE h : h = Padded(filled, next, DEPTH, h)
           root == ComputeRoot(filled, next)
<1>1. root = IF next = CAPACITY THEN filled[DEPTH] ELSE g[DEPTH]
    BY DEF ComputeRoot, Padded, Levels
<1>2. g = Padded(filled, next, DEPTH, g)
    BY PaddedExists, ShapeAssumption
<1> HIDE DEF g, root
<1>3. \A l \in 0..DEPTH : g[l] = IF l = 0 THEN Zero
                                  ELSE IF Bit(next, l - 1) = 0
                                       THEN Hash(g[l - 1], zeros[l - 1])
                                       ELSE Hash(filled[l - 1], g[l - 1])
    BY <1>2 DEF Padded
<1>4. \A level \in Levels : Clean(zeros[level], level, S) /\ Clean(filled[level], level, S)
    BY ZerosAreClean DEF CleanSubtrees
<1> DEFINE U == {n \in Nat : n <= DEPTH => Clean(g[n], n, S)}
<1>5. 0 \in U
    BY <1>3, LeafIsClean, ShapeAssumption
<1>6. ASSUME NEW n \in Nat, n \in U PROVE n + 1 \in U
    <2> SUFFICES ASSUME n + 1 <= DEPTH PROVE Clean(g[n + 1], n + 1, S)
        OBVIOUS
    <2>1. Clean(g[n], n, S)
        BY <1>6, ShapeAssumption
    <2>2. Clean(filled[n], n, S) /\ Clean(zeros[n], n, S)
        BY <1>4, ShapeAssumption DEF Levels
    <2>3. g[n + 1] \in {Hash(g[n], zeros[n]), Hash(filled[n], g[n])}
        BY <1>3, ShapeAssumption
    <2> QED
        BY <2>1, <2>2, <2>3, HashIsClean
<1> HIDE DEF U
<1>7. \A n \in Nat : n \in U
    BY <1>5, <1>6, SetInduction
<1>8. Clean(g[DEPTH], DEPTH, S) /\ Clean(filled[DEPTH], DEPTH, S)
    BY <1>4, <1>7, ShapeAssumption DEF U, Levels
<1>9. Clean(root, DEPTH, S)
    BY <1>1, <1>8
<1> QED
    BY <1>9 DEF root

-----------------------------------------------------------------------------
(***************************************************************************)
(* The places of an index in the levels of the tree: idx >>= 1 at each     *)
(* level, until only the root is left.                                     *)
(***************************************************************************)
Doubled(n, g) == [l \in 0..n |-> IF l = 0 THEN 1 ELSE 2 * g[l - 1]]

LEMMA DoubledExists == \A n \in Nat : \E g : g = Doubled(n, g)
<1> DEFINE T == {n \in Nat : \E g : g = Doubled(n, g)}
<1>1. 0 \in T
    <2>1. [l \in 0..0 |-> 1] = Doubled(0, [l \in 0..0 |-> 1])
        BY DEF Doubled
    <2> QED
        BY <2>1
<1>2. ASSUME NEW n \in Nat, n \in T PROVE n + 1 \in T
    <2>1. PICK g : g = Doubled(n, g)
        BY <1>2
    <2> DEFINE h == [l \in 0..(n + 1) |-> IF l = n + 1 THEN 2 * g[n] ELSE g[l]]
    <2>2. \A l \in 0..n : g[l] = IF l = 0 THEN 1 ELSE 2 * g[l - 1]
        BY <2>1 DEF Doubled
    <2>3. ASSUME NEW l \in 0..(n + 1)
          PROVE  h[l] = IF l = 0 THEN 1 ELSE 2 * h[l - 1]
        BY <2>2
    <2>4. h = Doubled(n + 1, h)
        BY <2>3 DEF Doubled
    <2> QED
        BY <2>4
<1> HIDE DEF T
<1>3. \A n \in Nat : n \in T
    BY <1>1, <1>2, SetInduction
<1> QED
    BY <1>3 DEF T

LEMMA PowersDouble ==
    /\ PowerOf2[0] = 1
    /\ \A l \in 0..(DEPTH - 1) : PowerOf2[l + 1] = 2 * PowerOf2[l]
    /\ \A l \in Levels : PowerOf2[l] \in Nat \ {0}
<1>1. PowerOf2 = CHOOSE g : g = Doubled(DEPTH, g)
    BY DEF PowerOf2, Doubled, Levels
<1>2. PowerOf2 = Doubled(DEPTH, PowerOf2)
    BY <1>1, DoubledExists, ShapeAssumption
<1>3. \A l \in 0..DEPTH : PowerOf2[l] = IF l = 0 THEN 1 ELSE 2 * PowerOf2[l - 1]
    BY <1>2 DEF Doubled
<1>4. PowerOf2[0] = 1 /\ \A l \in 0..(DEPTH - 1) : PowerOf2[l + 1] = 2 * PowerOf2[l]
    BY <1>3, ShapeAssumption
<1> DEFINE T == {n \in Nat : n <= DEPTH => PowerOf2[n] \in Nat \ {0}}
<1>5. 0 \in T
    BY <1>4
<1>6. ASSUME NEW n \in Nat, n \in T PROVE n + 1 \in T
    BY <1>4, <1>6, ShapeAssumption
<1> HIDE DEF T
<1>7. \A n \in Nat : n \in T
    BY <1>5, <1>6, SetInduction
<1> QED
    BY <1>4, <1>7, ShapeAssumption DEF T, Levels

LEMMA HalvingTwice ==
    ASSUME NEW n \in Nat, NEW k \in Nat \ {0}
    PROVE  n \div k \in Nat /\ (n \div k) \div 2 = n \div (2 * k)
BY SMT

LEMMA PlaceHalves ==
    ASSUME NEW index \in Nat
    PROVE  /\ Place(index, 0) = index
           /\ \A l \in Levels : Place(index, l) \in Nat /\ Bit(index, l) = Place(index, l) % 2
           /\ \A l \in 0..(DEPTH - 1) : Place(index, l + 1) = Place(index, l) \div 2
<1>1. Place(index, 0) = index
    BY PowersDouble DEF Place
<1>2. \A l \in Levels : Place(index, l) \in Nat /\ Bit(index, l) = Place(index, l) % 2
    BY PowersDouble, HalvingTwice DEF Place, Bit
<1>3. ASSUME NEW l \in 0..(DEPTH - 1)
      PROVE  Place(index, l + 1) = Place(index, l) \div 2
    <2>1. PowerOf2[l] \in Nat \ {0} /\ PowerOf2[l + 1] = 2 * PowerOf2[l]
        BY PowersDouble, ShapeAssumption DEF Levels
    <2>2. (index \div PowerOf2[l]) \div 2 = index \div (2 * PowerOf2[l])
        BY <2>1, HalvingTwice
    <2> QED
        BY <2>1, <2>2 DEF Place
<1> QED
    BY <1>1, <1>2, <1>3

\* The nodes of a level, by their places.
Row(level) == 0..(PowerOf2[DEPTH - level] - 1)

LEMMA RowsHalve ==
    /\ Row(0) = Indices
    /\ Row(DEPTH) = {0}
    /\ \A l \in Levels : Row(l) \subseteq Nat
    /\ \A l \in 0..(DEPTH - 1) : \A i \in Nat :
           /\ i \in Row(l + 1) => 2 * i \in Row(l) /\ 2 * i + 1 \in Row(l)
           /\ i \in Row(l) => i \div 2 \in Row(l + 1)
<1>1. DEPTH \in Nat /\ CAPACITY = PowerOf2[DEPTH]
    BY ShapeAssumption, CapacityAssumption
<1>2. Row(0) = Indices /\ Row(DEPTH) = {0}
    <2>1. DEPTH - 0 = DEPTH /\ DEPTH - DEPTH = 0
        BY <1>1
    <2>2. Row(0) = Indices
        BY <1>1, <2>1 DEF Row, Indices
    <2>3. Row(DEPTH) = 0..(1 - 1)
        BY <2>1, PowersDouble DEF Row
    <2> QED
        BY <2>2, <2>3
<1>3. ASSUME NEW l \in 0..(DEPTH - 1), NEW i \in Nat
      PROVE  /\ i \in Row(l + 1) => 2 * i \in Row(l) /\ 2 * i + 1 \in Row(l)
             /\ i \in Row(l) => i \div 2 \in Row(l + 1)
    <2> DEFINE k == DEPTH - (l + 1)
    <2>1. k \in 0..(DEPTH - 1) /\ k + 1 = DEPTH - l /\ k \in Levels
        BY <1>1 DEF Levels
    <2> HIDE DEF k
    <2>2. PowerOf2[k + 1] = 2 * PowerOf2[k] /\ PowerOf2[k] \in Nat \ {0}
        BY <2>1, PowersDouble
    <2>3. Row(l + 1) = 0..(PowerOf2[k] - 1) /\ Row(l) = 0..(PowerOf2[k + 1] - 1)
        BY <2>1 DEF Row, k
    <2> QED
        BY <2>2, <2>3
<1>4. ASSUME NEW l \in Levels PROVE Row(l) \subseteq Nat
    BY <1>1 DEF Row
<1> QED
    BY <1>2, <1>3, <1>4

\* Of an index the place in every level is a node there, and its path ends at
\* the root; the number of all leaves is one past the row on every level.
LEMMA PlaceInRow ==
    /\ \A index \in Indices : \A l \in Levels : Place(index, l) \in Row(l)
    /\ \A index \in Indices : Place(index, DEPTH) = 0
    /\ Place(CAPACITY, DEPTH) = 1
<1>1. ASSUME NEW index \in Indices
      PROVE  \A l \in Levels : Place(index, l) \in Row(l)
    <2>1. index \in Nat
        BY DEF Indices
    <2> DEFINE T == {n \in Nat : n <= DEPTH => Place(index, n) \in Row(n)}
    <2>2. 0 \in T
        BY <2>1, RowsHalve, PlaceHalves
    <2>3. ASSUME NEW n \in Nat, n \in T PROVE n + 1 \in T
        <3> SUFFICES ASSUME n + 1 <= DEPTH PROVE Place(index, n + 1) \in Row(n + 1)
            OBVIOUS
        <3>1. n \in 0..(DEPTH - 1) /\ n \in Levels
            BY ShapeAssumption DEF Levels
        <3>2. Place(index, n) \in Row(n) /\ Place(index, n) \in Nat
            BY <2>1, <2>3, <3>1, PlaceHalves, ShapeAssumption DEF Levels
        <3>3. Place(index, n + 1) = Place(index, n) \div 2
            BY <2>1, <3>1, PlaceHalves
        <3> QED
            BY <3>1, <3>2, <3>3, RowsHalve
    <2> HIDE DEF T
    <2>4. \A n \in Nat : n \in T
        BY <2>2, <2>3, SetInduction
    <2> QED
        BY <2>4, ShapeAssumption DEF T, Levels
<1>2. ASSUME NEW index \in Indices PROVE Place(index, DEPTH) = 0
    BY <1>1, RowsHalve, ShapeAssumption DEF Levels
<1>3. Place(CAPACITY, DEPTH) = 1
    <2>1. CAPACITY = PowerOf2[DEPTH] /\ CAPACITY \in Nat \ {0}
        BY CapacityAssumption, ShapeAssumption
    <2>2. \A n \in Nat \ {0} : n \div n = 1
        BY SMT
    <2> QED
        BY <2>1, <2>2 DEF Place
<1> QED
    BY <1>1, <1>2, <1>3

-----------------------------------------------------------------------------
(***************************************************************************)
(* The nodes of the complete tree over a leaf for every index.             *)
(***************************************************************************)
Paired(row, level) == [i \in Row(level) |-> Hash(row[2 * i], row[2 * i + 1])]

Complete(leafAt, n, g) ==
    [l \in 0..n |-> IF l = 0 THEN leafAt ELSE Paired(g[l - 1], l)]

Nodes(leafAt) == CHOOSE g : g = Complete(leafAt, DEPTH, g)

LEMMA CompleteExists ==
    ASSUME NEW leafAt
    PROVE  \A n \in Nat : \E g : g = Complete(leafAt, n, g)
<1> DEFINE T == {n \in Nat : \E g : g = Complete(leafAt, n, g)}
<1>1. 0 \in T
    <2>1. [l \in 0..0 |-> leafAt] = Complete(leafAt, 0, [l \in 0..0 |-> leafAt])
        BY DEF Complete
    <2> QED
        BY <2>1
<1>2. ASSUME NEW n \in Nat, n \in T PROVE n + 1 \in T
    <2>1. PICK g : g = Complete(leafAt, n, g)
        BY <1>2
    <2> DEFINE h == [l \in 0..(n + 1) |-> IF l = n + 1 THEN Paired(g[n], n + 1) ELSE g[l]]
    <2>2. \A l \in 0..n : g[l] = IF l = 0 THEN leafAt ELSE Paired(g[l - 1], l)
        BY <2>1 DEF Complete
    <2>3. ASSUME NEW l \in 0..(n + 1)
          PROVE  h[l] = IF l = 0 THEN leafAt ELSE Paired(h[l - 1], l)
        BY <2>2
    <2>4. h = Complete(leafAt, n + 1, h)
        BY <2>3 DEF Complete
    <2> QED
        BY <2>4
<1> HIDE DEF T
<1>3. \A n \in Nat : n \in T
    BY <1>1, <1>2, SetInduction
<1> QED
    BY <1>3 DEF T

LEMMA NodesUnfolded ==
    ASSUME NEW leafAt
    PROVE  /\ MerkleRoot(leafAt) = Nodes(leafAt)[DEPTH][0]
           /\ Nodes(leafAt)[0] = leafAt
           /\ \A l \in 0..(DEPTH - 1) : \A i \in Row(l + 1) :
                  Nodes(leafAt)[l + 1][i] =
                      Hash(Nodes(leafAt)[l][2 * i], Nodes(leafAt)[l][2 * i + 1])
<1> DEFINE g == Nodes(leafAt)
<1>1. MerkleRoot(leafAt) = g[DEPTH][0]
    BY DEF MerkleRoot, Nodes, Complete, Paired, Row, Levels
<1>2. g = Complete(leafAt, DEPTH, g)
    BY CompleteExists, ShapeAssumption DEF Nodes
<1> HIDE DEF g
<1>3. \A l \in 0..DEPTH : g[l] = IF l = 0 THEN leafAt ELSE Paired(g[l - 1], l)
    BY <1>2 DEF Complete
<1>4. g[0] = leafAt /\ \A l \in 0..(DEPTH - 1) : g[l + 1] = Paired(g[l], l + 1)
    BY <1>3, ShapeAssumption
<1>5. \A l \in 0..(DEPTH - 1) : \A i \in Row(l + 1) :
          g[l + 1][i] = Hash(g[l][2 * i], g[l][2 * i + 1])
    BY <1>4 DEF Paired
<1> QED
    BY <1>1, <1>4, <1>5 DEF g

\* Nodes over equal leaves are equal: those that do not lie above index.
LEMMA NodesElsewhere ==
    ASSUME NEW f, NEW g, NEW index \in Indices,
           \A i \in Indices : i # index => f[i] = g[i]
    PROVE  \A l \in Levels : \A i \in Row(l) :
               i # Place(index, l) => Nodes(f)[l][i] = Nodes(g)[l][i]
<1> DEFINE Same(l) == \A i \in Row(l) : i # Place(index, l) => Nodes(f)[l][i] = Nodes(g)[l][i]
           T == {n \in Nat : n <= DEPTH => Same(n)}
<1>0. index \in Nat
    BY DEF Indices
<1>1. 0 \in T
    BY <1>0, NodesUnfolded, RowsHalve, PlaceHalves
<1>2. ASSUME NEW n \in Nat, n \in T PROVE n + 1 \in T
    <2> SUFFICES ASSUME n + 1 <= DEPTH, NEW i \in Row(n + 1), i # Place(index, n + 1)
                 PROVE  Nodes(f)[n + 1][i] = Nodes(g)[n + 1][i]
        OBVIOUS
    <2>1. n \in 0..(DEPTH - 1) /\ n \in Levels /\ n + 1 \in Levels
        BY ShapeAssumption DEF Levels
    <2>2. i \in Nat
        BY <2>1, RowsHalve
    <2>3. 2 * i \in Row(n) /\ 2 * i + 1 \in Row(n)
        BY <2>1, <2>2, RowsHalve
    <2>4. Place(index, n) \in Nat /\ Place(index, n + 1) = Place(index, n) \div 2
        BY <1>0, <2>1, PlaceHalves
    <2>5. 2 * i # Place(index, n) /\ 2 * i + 1 # Place(index, n)
        BY <2>2, <2>4
    <2>6. /\ Nodes(f)[n][2 * i] = Nodes(g)[n][2 * i]
          /\ Nodes(f)[n][2 * i + 1] = Nodes(g)[n][2 * i + 1]
        BY <1>2, <2>1, <2>3, <2>5, ShapeAssumption
    <2> QED
        BY <2>1, <2>6, NodesUnfolded
<1> HIDE DEF T
<1>3. \A n \in Nat : n \in T
    BY <1>1, <1>2, SetInduction
<1> QED
    BY <1>3, ShapeAssumption DEF T, Levels

LEMMA ZerosUnfolded ==
    /\ zeros[0] = Zero
    /\ \A l \in 0..(DEPTH - 1) : zeros[l + 1] = Hash(zeros[l], zeros[l])
<1>1. zeros = CHOOSE g : g = Zeros(DEPTH, g)
    BY DEF zeros, Zeros, Levels
<1>2. zeros = Zeros(DEPTH, zeros)
    BY <1>1, ZerosExists, ShapeAssumption
<1>3. \A l \in 0..DEPTH : zeros[l] = IF l = 0 THEN Zero ELSE Hash(zeros[l - 1], zeros[l - 1])
    BY <1>2 DEF Zeros
<1> QED
    BY <1>3, ShapeAssumption

\* Right of the path of the first empty leaf there are only empty subtrees.
LEMMA NodesBeyond ==
    ASSUME NEW f, NEW next \in Nat, \A i \in Indices : i >= next => f[i] = Zero
    PROVE  \A l \in Levels : \A i \in Row(l) :
               i > Place(next, l) => Nodes(f)[l][i] = zeros[l]
<1> DEFINE Empty(l) == \A i \in Row(l) : i > Place(next, l) => Nodes(f)[l][i] = zeros[l]
           T == {n \in Nat : n <= DEPTH => Empty(n)}
<1>1. 0 \in T
    <2> SUFFICES ASSUME NEW i \in Row(0), i > Place(next, 0)
                 PROVE  Nodes(f)[0][i] = zeros[0]
        OBVIOUS
    <2>1. i \in Indices
        BY RowsHalve
    <2>2. Place(next, 0) = next
        BY PlaceHalves
    <2>3. i >= next
        BY <2>1, <2>2 DEF Indices
    <2>4. f[i] = Zero
        BY <2>1, <2>3
    <2> QED
        BY <2>4, NodesUnfolded, ZerosUnfolded
<1>2. ASSUME NEW n \in Nat, n \in T PROVE n + 1 \in T
    <2> SUFFICES ASSUME n + 1 <= DEPTH, NEW i \in Row(n + 1), i > Place(next, n + 1)
                 PROVE  Nodes(f)[n + 1][i] = zeros[n + 1]
        OBVIOUS
    <2>1. n \in 0..(DEPTH - 1) /\ n \in Levels /\ n + 1 \in Levels
        BY ShapeAssumption DEF Levels
    <2>2. i \in Nat
        BY <2>1, RowsHalve
    <2>3. 2 * i \in Row(n) /\ 2 * i + 1 \in Row(n)
        BY <2>1, <2>2, RowsHalve
    <2>4. Place(next, n) \in Nat /\ Place(next, n + 1) = Place(next, n) \div 2
        BY <2>1, PlaceHalves
    <2>5. 2 * i > Place(next, n) /\ 2 * i + 1 > Place(next, n)
        BY <2>2, <2>4
    <2>6. Nodes(f)[n][2 * i] = zeros[n] /\ Nodes(f)[n][2 * i + 1] = zeros[n]
        BY <1>2, <2>1, <2>3, <2>5, ShapeAssumption
    <2> QED
        BY <2>1, <2>6, NodesUnfolded, ZerosUnfolded
<1> HIDE DEF T
<1>3. \A n \in Nat : n \in T
    BY <1>1, <1>2, SetInduction
<1> QED
    BY <1>3, ShapeAssumption DEF T, Levels

\* EMPTY_ROOT is the root of a tree without leaves.
LEMMA EmptyRootIsComplete ==
    ASSUME NEW f, \A i \in Indices : f[i] = Zero
    PROVE  MerkleRoot(f) = EMPTY_ROOT
<1> DEFINE T == {n \in Nat : n <= DEPTH => \A i \in Row(n) : Nodes(f)[n][i] = zeros[n]}
<1>1. 0 \in T
    BY NodesUnfolded, ZerosUnfolded, RowsHalve
<1>2. ASSUME NEW n \in Nat, n \in T PROVE n + 1 \in T
    <2> SUFFICES ASSUME n + 1 <= DEPTH, NEW i \in Row(n + 1)
                 PROVE  Nodes(f)[n + 1][i] = zeros[n + 1]
        OBVIOUS
    <2>1. n \in 0..(DEPTH - 1) /\ n + 1 \in Levels
        BY ShapeAssumption DEF Levels
    <2>2. i \in Nat /\ 2 * i \in Row(n) /\ 2 * i + 1 \in Row(n)
        BY <2>1, RowsHalve
    <2>3. Nodes(f)[n][2 * i] = zeros[n] /\ Nodes(f)[n][2 * i + 1] = zeros[n]
        BY <1>2, <2>2, ShapeAssumption
    <2> QED
        BY <2>1, <2>3, NodesUnfolded, ZerosUnfolded
<1> HIDE DEF T
<1>3. \A n \in Nat : n \in T
    BY <1>1, <1>2, SetInduction
<1>4. \A i \in Row(DEPTH) : Nodes(f)[DEPTH][i] = zeros[DEPTH]
    BY <1>3, ShapeAssumption DEF T
<1> QED
    BY <1>4, NodesUnfolded, RowsHalve DEF EMPTY_ROOT

-----------------------------------------------------------------------------
(***************************************************************************)
(* What waits in storage when the first n leaves are in: at each one bit   *)
(* of n the node left of the path of the next leaf.                        *)
(***************************************************************************)
SubtreesWait(filled, leafAt, n) ==
    /\ filled = [level \in Levels |-> filled[level]]
    /\ \A l \in Levels : Bit(n, l) = 1 => filled[l] = Nodes(leafAt)[l][Place(n, l) - 1]

\* Counting on: the trailing ones of an index are carried into its first zero.
LEMMA CarryOn ==
    ASSUME NEW index \in Indices, NEW rest \in Levels, Bit(index, rest) = 0,
           \A below \in 0..(rest - 1) : Bit(index, below) = 1
    PROVE  \A l \in Levels :
               /\ l <= rest => Place(index + 1, l) = Place(index, l) + 1
               /\ l > rest => Place(index + 1, l) = Place(index, l)
<1>0. index \in Nat /\ index + 1 \in Nat /\ rest \in Nat
    BY DEF Indices, Levels
<1> DEFINE Counted(l) == /\ l <= rest => Place(index + 1, l) = Place(index, l) + 1
                         /\ l > rest => Place(index + 1, l) = Place(index, l)
           T == {n \in Nat : n <= DEPTH => Counted(n)}
<1>1. 0 \in T
    BY <1>0, PlaceHalves
<1>2. ASSUME NEW n \in Nat, n \in T PROVE n + 1 \in T
    <2> SUFFICES ASSUME n + 1 <= DEPTH PROVE Counted(n + 1)
        OBVIOUS
    <2>1. n \in 0..(DEPTH - 1) /\ n \in Levels
        BY ShapeAssumption DEF Levels
    <2>2. Counted(n)
        BY <1>2, <2>1, ShapeAssumption
    <2> DEFINE p == Place(index, n)
               q == Place(index + 1, n)
    <2>3. /\ p \in Nat /\ Bit(index, n) = p % 2
          /\ Place(index, n + 1) = p \div 2 /\ Place(index + 1, n + 1) = q \div 2
        BY <1>0, <2>1, PlaceHalves
    <2>4. n < rest => p % 2 = 1
        BY <1>0, <2>3
    <2>5. n = rest => p % 2 = 0
        BY <2>3
    <2>6. n <= rest => q = p + 1
        BY <2>2
    <2>7. n > rest => q = p
        BY <2>2
    <2> HIDE DEF p, q
    <2>8. n < rest => q \div 2 = p \div 2 + 1
        BY <1>0, <2>3, <2>4, <2>6
    <2>9. n >= rest => q \div 2 = p \div 2
        BY <1>0, <2>3, <2>5, <2>6, <2>7
    <2> QED
        BY <1>0, <2>3, <2>8, <2>9
<1> HIDE DEF T
<1>3. \A n \in Nat : n \in T
    BY <1>1, <1>2, SetInduction
<1> QED
    BY <1>3, ShapeAssumption DEF T, Levels

\* An index of the tree has a first zero bit, at the root's level at last.
LEMMA FirstZeroExists ==
    ASSUME NEW index \in Indices
    PROVE  \E level \in Levels : /\ Bit(index, level) = 0
                                 /\ \A below \in 0..(level - 1) : Bit(index, below) = 1
<1>1. index \in Nat
    BY DEF Indices
<1>2. \A l \in Levels : Bit(index, l) \in {0, 1}
    BY <1>1, PlaceHalves
<1>3. DEPTH \in Levels /\ Bit(index, DEPTH) = 0
    BY <1>1, PlaceHalves, PlaceInRow, ShapeAssumption DEF Levels
<1> DEFINE U == {l \in Levels : Bit(index, l) = 0}
<1>4. U \subseteq Nat /\ U # {}
    BY <1>3 DEF Levels
<1> HIDE DEF U
<1>5. PICK level \in U : \A l \in U : <<l, level>> \notin OpToRel(<, Nat)
    BY <1>4, NatLessThanWellFounded, WFMin
<1>6. level \in Nat /\ \A l \in U : ~(l < level)
    BY <1>4, <1>5 DEF OpToRel
<1>7. level \in Levels /\ Bit(index, level) = 0
    BY DEF U
<1>8. ASSUME NEW below \in 0..(level - 1) PROVE Bit(index, below) = 1
    <2>1. below \in Levels /\ below < level
        BY <1>6, <1>7, ShapeAssumption DEF Levels
    <2> QED
        BY <1>2, <1>6, <2>1 DEF U
<1> QED
    BY <1>7, <1>8

(***************************************************************************)
(* _insert leaves in storage what the tree with one leaf more needs.       *)
(***************************************************************************)
LEMMA InsertKeepsSubtrees ==
    ASSUME NEW filled, NEW f, NEW g, NEW index \in Indices, NEW cm,
           SubtreesWait(filled, f, index),
           g[index] = cm, \A i \in Indices : i # index => f[i] = g[i]
    PROVE  SubtreesWait(InsertLeaf(filled, index, cm), g, index + 1)
<1> DEFINE node == CHOOSE h : h = Carried(filled, cm, DEPTH, h)
           rest == CHOOSE level \in Levels :
                       /\ Bit(index, level) = 0
                       /\ \A below \in 0..(level - 1) : Bit(index, below) = 1
           after == InsertLeaf(filled, index, cm)
           p(l) == Place(index, l)
<1>1. after = [filled EXCEPT ![rest] = node[rest]]
    BY DEF InsertLeaf, Carried, Levels
<1>2. node = Carried(filled, cm, DEPTH, node)
    BY CarriedExists, ShapeAssumption
<1>3. /\ rest \in Levels /\ Bit(index, rest) = 0
      /\ \A below \in 0..(rest - 1) : Bit(index, below) = 1
    BY FirstZeroExists
<1> HIDE DEF node, rest, after
<1>4. /\ node[0] = cm
      /\ \A l \in 0..(DEPTH - 1) : node[l + 1] = Hash(filled[l], node[l])
    <2>1. \A l \in 0..DEPTH : node[l] = IF l = 0 THEN cm ELSE Hash(filled[l - 1], node[l - 1])
        BY <1>2 DEF Carried
    <2> QED
        BY <2>1, ShapeAssumption
<1>5. index \in Nat /\ index + 1 \in Nat /\ rest \in 0..DEPTH /\ DEPTH \in Nat
    BY <1>3, ShapeAssumption DEF Indices, Levels
<1>6. \A l \in Levels : p(l) \in Nat /\ p(l) \in Row(l) /\ Bit(index, l) = p(l) % 2
    BY <1>5, PlaceHalves, PlaceInRow
<1>7. \A l \in Levels : \A i \in Row(l) : i # p(l) => Nodes(f)[l][i] = Nodes(g)[l][i]
    BY NodesElsewhere
\* The node left of the path is in place, and no new leaf lies below it.
<1>8. ASSUME NEW l \in Levels, Bit(index, l) = 1
      PROVE  filled[l] = Nodes(g)[l][p(l) - 1]
    <2>1. filled[l] = Nodes(f)[l][p(l) - 1]
        BY <1>8 DEF SubtreesWait
    <2>2. p(l) \in Nat /\ p(l) # 0 /\ p(l) \in Row(l)
        BY <1>6, <1>8
    <2>3. p(l) - 1 \in Row(l) /\ p(l) - 1 # p(l)
        <3>1. DEPTH - l \in Levels
            BY <1>5 DEF Levels
        <3>2. PowerOf2[DEPTH - l] \in Nat
            BY <3>1, PowersDouble
        <3> HIDE DEF p
        <3> QED
            BY <2>2, <3>2 DEF Row
    <2> QED
        BY <1>7, <2>1, <2>3
<1>9. \A l \in 0..rest : node[l] = Nodes(g)[l][p(l)]
    <2> DEFINE T == {n \in Nat : n <= rest => node[n] = Nodes(g)[n][p(n)]}
    <2>1. 0 \in T
        BY <1>4, <1>5, NodesUnfolded, PlaceHalves
    <2>2. ASSUME NEW n \in Nat, n \in T PROVE n + 1 \in T
        <3> SUFFICES ASSUME n + 1 <= rest PROVE node[n + 1] = Nodes(g)[n + 1][p(n + 1)]
            OBVIOUS
        <3>1. n \in 0..(rest - 1) /\ n \in 0..(DEPTH - 1) /\ n \in Levels /\ n + 1 \in Levels
            BY <1>5 DEF Levels
        <3>2. Bit(index, n) = 1
            BY <1>3, <3>1
        <3>3. node[n] = Nodes(g)[n][p(n)]
            BY <2>2, <3>1, <1>5
        <3>4. filled[n] = Nodes(g)[n][p(n) - 1]
            BY <1>8, <3>1, <3>2
        <3>5. p(n + 1) = p(n) \div 2 /\ p(n) \in Nat /\ p(n) % 2 = 1 /\ p(n + 1) \in Row(n + 1)
            BY <1>5, <1>6, <3>1, <3>2, PlaceHalves
        <3>6. 2 * p(n + 1) = p(n) - 1 /\ 2 * p(n + 1) + 1 = p(n)
            <4> HIDE DEF p
            <4> QED
                BY <3>5
        <3>7. Nodes(g)[n + 1][p(n + 1)] = Hash(Nodes(g)[n][p(n) - 1], Nodes(g)[n][p(n)])
            BY <3>1, <3>5, <3>6, NodesUnfolded
        <3>8. node[n + 1] = Hash(filled[n], node[n])
            BY <1>4, <3>1
        <3> QED
            BY <3>3, <3>4, <3>7, <3>8
    <2> HIDE DEF T
    <2>3. \A n \in Nat : n \in T
        BY <2>1, <2>2, SetInduction
    <2> QED
        BY <1>5, <2>3 DEF T
<1>10. \A l \in Levels : /\ l <= rest => Place(index + 1, l) = p(l) + 1
                         /\ l > rest => Place(index + 1, l) = p(l)
    BY <1>3, CarryOn
<1>11. after = [level \in Levels |-> after[level]]
    BY <1>1 DEF SubtreesWait
<1>12. ASSUME NEW l \in Levels, Bit(index + 1, l) = 1
       PROVE  after[l] = Nodes(g)[l][Place(index + 1, l) - 1]
    <2>1. Place(index + 1, l) % 2 = 1
        BY <1>5, <1>12, PlaceHalves
    <2>2. p(l) \in Nat /\ Bit(index, l) = p(l) % 2 /\ l \in Int
        BY <1>6 DEF Levels
    <2>3. after[l] = IF l = rest THEN node[rest] ELSE filled[l]
        BY <1>1 DEF SubtreesWait
    <2>4. CASE l = rest
        <3>1. Place(index + 1, l) - 1 = p(l)
            BY <1>5, <1>10, <2>2, <2>4
        <3>2. node[rest] = Nodes(g)[l][p(l)]
            BY <1>5, <1>9, <2>4
        <3> QED
            BY <2>3, <2>4, <3>1, <3>2
    <2>5. CASE l < rest
        <3>1. Bit(index, l) = 1
            BY <1>3, <1>5, <2>5 DEF Levels
        <3>2. Place(index + 1, l) = p(l) + 1
            BY <1>5, <1>10, <2>2, <2>5
        <3> HIDE DEF p
        <3>3. FALSE
            BY <2>1, <2>2, <3>1, <3>2
        <3> QED
            BY <3>3
    <2>6. CASE l > rest
        <3>1. Place(index + 1, l) = p(l)
            BY <1>10, <2>6
        <3>2. Bit(index, l) = 1
            BY <2>1, <2>2, <3>1
        <3> QED
            BY <1>5, <1>8, <2>2, <2>3, <2>6, <3>1, <3>2
    <2> QED
        BY <1>5, <2>2, <2>4, <2>5, <2>6
<1>13. SubtreesWait(after, g, index + 1)
    BY <1>11, <1>12 DEF SubtreesWait
<1> QED
    BY <1>13 DEF after

(***************************************************************************)
(* _computeRoot returns the root of the complete tree over the leaves that *)
(* were inserted, padded with empty ones, up to a tree that is full.       *)
(***************************************************************************)
LEMMA ComputedRootIsComplete ==
    ASSUME NEW filled, NEW f, NEW next \in 0..CAPACITY,
           SubtreesWait(filled, f, next), \A i \in Indices : i >= next => f[i] = Zero
    PROVE  ComputeRoot(filled, next) = MerkleRoot(f)
<1> DEFINE node == CHOOSE h : h = Padded(filled, next, DEPTH, h)
           root == ComputeRoot(filled, next)
           p(l) == Place(next, l)
<1>1. root = IF next = CAPACITY THEN filled[DEPTH] ELSE node[DEPTH]
    BY DEF ComputeRoot, Padded, Levels
<1>2. node = Padded(filled, next, DEPTH, node)
    BY PaddedExists, ShapeAssumption
<1> HIDE DEF node, root
<1>3. /\ node[0] = Zero
      /\ \A l \in 0..(DEPTH - 1) :
             node[l + 1] = IF Bit(next, l) = 0 THEN Hash(node[l], zeros[l])
                                               ELSE Hash(filled[l], node[l])
    <2>1. \A l \in 0..DEPTH : node[l] = IF l = 0 THEN Zero
                                        ELSE IF Bit(next, l - 1) = 0
                                             THEN Hash(node[l - 1], zeros[l - 1])
                                             ELSE Hash(filled[l - 1], node[l - 1])
        BY <1>2 DEF Padded
    <2> QED
        BY <2>1, ShapeAssumption
<1>4. next \in Nat /\ DEPTH \in Nat /\ DEPTH \in Levels /\ CAPACITY \in Nat
    BY ShapeAssumption DEF Levels
<1>5. CASE next = CAPACITY
    <2>1. p(DEPTH) = 1
        BY <1>5, PlaceInRow
    <2>2. Bit(next, DEPTH) = 1
        BY <1>4, <2>1, PlaceHalves
    <2>3. filled[DEPTH] = Nodes(f)[DEPTH][p(DEPTH) - 1]
        BY <1>4, <2>2 DEF SubtreesWait
    <2>4. p(DEPTH) - 1 = 0
        BY <2>1
    <2>5. root = MerkleRoot(f)
        BY <1>1, <1>5, <2>3, <2>4, NodesUnfolded
    <2> QED
        BY <2>5 DEF root
<1>6. CASE next # CAPACITY
    <2>1. next \in Indices
        BY <1>4, <1>6 DEF Indices
    <2> DEFINE T == {n \in Nat : n <= DEPTH => node[n] = Nodes(f)[n][p(n)]}
    <2>2. 0 \in T
        <3>1. f[next] = Zero
            BY <1>4, <2>1
        <3> QED
            BY <1>3, <1>4, <3>1, NodesUnfolded, PlaceHalves
    <2>3. ASSUME NEW n \in Nat, n \in T PROVE n + 1 \in T
        <3> SUFFICES ASSUME n + 1 <= DEPTH PROVE node[n + 1] = Nodes(f)[n + 1][p(n + 1)]
            OBVIOUS
        <3>1. n \in 0..(DEPTH - 1) /\ n \in Levels /\ n + 1 \in Levels
            BY <1>4 DEF Levels
        <3>2. node[n] = Nodes(f)[n][p(n)]
            BY <1>4, <2>3, <3>1
        <3>3. /\ p(n + 1) = p(n) \div 2 /\ p(n) \in Nat /\ Bit(next, n) = p(n) % 2
              /\ p(n + 1) \in Row(n + 1) /\ p(n + 1) \in Nat
            BY <1>4, <2>1, <3>1, PlaceHalves, PlaceInRow
        <3>4. /\ 2 * p(n + 1) \in Row(n) /\ 2 * p(n + 1) + 1 \in Row(n)
              /\ Nodes(f)[n + 1][p(n + 1)]
                 = Hash(Nodes(f)[n][2 * p(n + 1)], Nodes(f)[n][2 * p(n + 1) + 1])
            BY <3>1, <3>3, NodesUnfolded, RowsHalve
        <3>5. CASE Bit(next, n) = 0
            <4>1. 2 * p(n + 1) = p(n) /\ 2 * p(n + 1) + 1 > p(n)
                <5> HIDE DEF p
                <5> QED
                    BY <3>3, <3>5
            <4>2. Nodes(f)[n][2 * p(n + 1) + 1] = zeros[n]
                BY <1>4, <3>1, <3>4, <4>1, NodesBeyond
            <4> QED
                BY <1>3, <3>1, <3>2, <3>4, <3>5, <4>1, <4>2
        <3>6. CASE Bit(next, n) # 0
            <4>1. Bit(next, n) = 1
                <5> HIDE DEF p
                <5> QED
                    BY <3>3, <3>6
            <4>2. 2 * p(n + 1) = p(n) - 1 /\ 2 * p(n + 1) + 1 = p(n)
                <5> HIDE DEF p
                <5> QED
                    BY <3>3, <4>1
            <4>3. filled[n] = Nodes(f)[n][p(n) - 1]
                BY <3>1, <4>1 DEF SubtreesWait
            <4> QED
                BY <1>3, <3>1, <3>2, <3>4, <3>6, <4>2, <4>3
        <3> QED
            BY <3>5, <3>6
    <2> HIDE DEF T
    <2>4. \A n \in Nat : n \in T
        BY <2>2, <2>3, SetInduction
    <2>5. node[DEPTH] = Nodes(f)[DEPTH][p(DEPTH)]
        BY <1>4, <2>4 DEF T
    <2>6. p(DEPTH) = 0
        BY <2>1, PlaceInRow
    <2>7. root = MerkleRoot(f)
        BY <1>1, <1>6, <2>5, <2>6, NodesUnfolded
    <2> QED
        BY <2>7 DEF root
<1> QED
    BY <1>5, <1>6

(***************************************************************************)
(* Completeness of membership paths: the way down along the bits of an     *)
(* index ends at the leaf with that index.                                 *)
(***************************************************************************)
LEMMA WayDownEndsAtLeaf ==
    ASSUME NEW f, NEW index \in Indices,
           \A l \in 1..DEPTH : \A i \in Row(l) : Nodes(f)[l][i] # Zero
    PROVE  LeafAt(MerkleRoot(f), index) = f[index]
<1> DEFINE root == MerkleRoot(f)
           way == CHOOSE h : h = WayDown(root, index, DEPTH, h)
           p(l) == Place(index, l)
<1>1. LeafAt(root, index) = way[DEPTH]
    BY DEF LeafAt, WayDown, Levels
<1>2. way = WayDown(root, index, DEPTH, way)
    BY WayDownExists, ShapeAssumption
<1>3. root = Nodes(f)[DEPTH][0]
    BY NodesUnfolded
<1> HIDE DEF way, root
<1>4. way[0] = root /\ \A k \in 1..DEPTH : way[k] = Child(way[k - 1], Bit(index, DEPTH - k))
    <2>1. \A k \in 0..DEPTH : way[k] = IF k = 0 THEN root
                                       ELSE Child(way[k - 1], Bit(index, DEPTH - k))
        BY <1>2 DEF WayDown
    <2> QED
        BY <2>1, ShapeAssumption
<1>5. index \in Nat /\ DEPTH \in Nat
    BY ShapeAssumption DEF Indices
<1> DEFINE T == {n \in Nat : n <= DEPTH => way[n] = Nodes(f)[DEPTH - n][p(DEPTH - n)]}
<1>6. 0 \in T
    <2>1. p(DEPTH) = 0 /\ DEPTH - 0 = DEPTH
        BY <1>5, PlaceInRow
    <2> QED
        BY <1>3, <1>4, <2>1
<1>7. ASSUME NEW n \in Nat, n \in T PROVE n + 1 \in T
    <2> DEFINE l == DEPTH - (n + 1)
    <2> SUFFICES ASSUME n + 1 <= DEPTH PROVE way[n + 1] = Nodes(f)[l][p(l)]
        OBVIOUS
    <2>1. /\ l \in 0..(DEPTH - 1) /\ l \in Levels /\ l + 1 \in Levels /\ l + 1 \in 1..DEPTH
          /\ DEPTH - n = l + 1 /\ n + 1 \in 1..DEPTH /\ (n + 1) - 1 = n
        BY <1>5 DEF Levels
    <2>2. way[n] = Nodes(f)[l + 1][p(l + 1)]
        BY <1>5, <1>7, <2>1
    <2>3. way[n + 1] = Child(way[n], Bit(index, l))
        BY <1>4, <2>1
    <2> HIDE DEF l
    <2>4. /\ p(l + 1) = p(l) \div 2 /\ p(l) \in Nat /\ Bit(index, l) = p(l) % 2
          /\ p(l + 1) \in Row(l + 1)
        BY <1>5, <2>1, PlaceHalves, PlaceInRow
    <2>5. Nodes(f)[l + 1][p(l + 1)] = Hash(Nodes(f)[l][2 * p(l + 1)], Nodes(f)[l][2 * p(l + 1) + 1])
        BY <2>1, <2>4, NodesUnfolded
    <2>6. Nodes(f)[l + 1][p(l + 1)] # Zero
        BY <2>1, <2>4
    <2>7. p(l) = IF Bit(index, l) = 0 THEN 2 * p(l + 1) ELSE 2 * p(l + 1) + 1
        <3> HIDE DEF p
        <3> QED
            BY <2>4
    <2> QED
        BY <2>2, <2>3, <2>5, <2>6, <2>7 DEF Child, Hash
<1> HIDE DEF T
<1>8. \A n \in Nat : n \in T
    BY <1>6, <1>7, SetInduction
<1>9. way[DEPTH] = Nodes(f)[0][p(0)]
    <2>1. DEPTH - DEPTH = 0
        BY <1>5
    <2> QED
        BY <1>5, <1>8, <2>1 DEF T
<1>10. way[DEPTH] = f[index]
    BY <1>5, <1>9, NodesUnfolded, PlaceHalves
<1> QED
    BY <1>1, <1>10 DEF root

-----------------------------------------------------------------------------
(***************************************************************************)
(* The contract above the tree: what AppendLeaves does to the counters, to *)
(* the LeafAppended events and to the array of leaves they describe.       *)
(***************************************************************************)
TreeShape ==
    /\ DOMAIN filledSubtrees = Levels
    /\ nextIndex \in 0..CAPACITY
    /\ currentEpoch \in Epochs
    /\ DOMAIN finalRoot = Epochs
    /\ \A leaf \in leaves : leaf.epoch \in Nat /\ leaf.index \in Indices

\* The events of the leaves that a call appends.
EventsOf(cms, epoch, start) ==
    {[cm |-> cms[i], epoch |-> epoch, index |-> start + i - 1] : i \in 1..Len(cms)}

\* _insert writes one level and leaves the array as long as it was.
LEMMA InsertLeafDomain ==
    ASSUME NEW filled, NEW index, NEW cm
    PROVE  DOMAIN InsertLeaf(filled, index, cm) = DOMAIN filled
BY DEF InsertLeaf

\* What AppendLeaves does to everything but the hashes.
LEMMA AppendLeavesEffect ==
    ASSUME TreeShape,
           NEW cms, Len(cms) \in 0..2, WithinEpochs(Len(cms)), AppendLeaves(cms)
    PROVE  \E epoch \in Epochs, start \in 0..CAPACITY :
             /\ \/ epoch = currentEpoch /\ start = nextIndex
                \/ epoch = currentEpoch + 1 /\ start = 0 /\ MustRoll(Len(cms))
             /\ start + Len(cms) \in 0..CAPACITY
             /\ currentEpoch' = epoch
             /\ nextIndex' = start + Len(cms)
             /\ isLeaf' = isLeaf \cup {cms[i] : i \in 1..Len(cms)}
             /\ leaves' = leaves \cup EventsOf(cms, epoch, start)
             /\ DOMAIN finalRoot' = Epochs
             /\ DOMAIN filledSubtrees' = Levels
             /\ \A closed \in 0..(currentEpoch - 1) : finalRoot'[closed] = finalRoot[closed]
<1> DEFINE count == Len(cms)
           roll  == MustRoll(count)
           epoch == IF roll THEN currentEpoch + 1 ELSE currentEpoch
           start == IF roll THEN 0 ELSE nextIndex
           none  == IF roll THEN NoSubtrees ELSE filledSubtrees
           one   == IF count >= 1 THEN InsertLeaf(none, start, cms[1]) ELSE none
           two   == IF count = 2 THEN InsertLeaf(one, start + 1, cms[2]) ELSE one
<1>1. count \in 0..2
    OBVIOUS
<1>2. /\ CAPACITY \in Nat /\ CAPACITY >= 2 /\ MaxEpoch \in Nat
      /\ nextIndex \in 0..CAPACITY /\ currentEpoch \in 0..MaxEpoch
    BY ShapeAssumption, EpochAssumption DEF TreeShape, Epochs
<1>3. epoch \in Epochs
    BY <1>2 DEF WithinEpochs, Epochs
<1>4. start \in 0..CAPACITY /\ start + count \in 0..CAPACITY
    <2> HIDE DEF count
    <2>1. CASE roll
        BY <1>1, <1>2, <2>1
    <2>2. CASE ~roll
        BY <1>1, <1>2, <2>2 DEF MustRoll
    <2> QED
        BY <2>1, <2>2
<1>5. \/ epoch = currentEpoch /\ start = nextIndex
      \/ epoch = currentEpoch + 1 /\ start = 0 /\ MustRoll(count)
    OBVIOUS
<1>6. DOMAIN two = Levels
    <2>1. DOMAIN none = Levels
        BY DEF TreeShape, NoSubtrees
    <2>2. DOMAIN one = Levels
        BY <2>1, InsertLeafDomain
    <2> QED
        BY <2>2, InsertLeafDomain
<1>7. /\ currentEpoch' = epoch
      /\ nextIndex' = start + count
      /\ filledSubtrees' = two
      /\ isLeaf' = isLeaf \cup {cms[i] : i \in 1..count}
      /\ leaves' = leaves \cup EventsOf(cms, epoch, start)
      /\ finalRoot' = IF roll THEN ClosedRoots ELSE finalRoot
    BY DEF AppendLeaves, EventsOf
<1>8. DOMAIN finalRoot' = Epochs
    BY <1>7 DEF ClosedRoots, TreeShape
<1>9. \A closed \in 0..(currentEpoch - 1) : finalRoot'[closed] = finalRoot[closed]
    BY <1>2, <1>7 DEF ClosedRoots, TreeShape
<1> HIDE DEF epoch, start, two
<1> QED
    BY <1>3, <1>4, <1>5, <1>6, <1>7, <1>8, <1>9

(***************************************************************************)
(* Appending keeps the shape of the tree, and each epoch dense: every leaf *)
(* of an epoch lies below its fill, so the next place is free, and a fresh *)
(* epoch has no leaf at all.                                               *)
(***************************************************************************)
LEMMA AppendKeepsDense ==
    ASSUME TreeShape, IndicesDense,
           NEW cms, Len(cms) \in 0..2, WithinEpochs(Len(cms)), AppendLeaves(cms)
    PROVE  TreeShape' /\ IndicesDense'
<1> DEFINE count == Len(cms)
           New(epoch, start) == EventsOf(cms, epoch, start)
<1>1. PICK epoch \in Epochs, start \in 0..CAPACITY :
          /\ \/ epoch = currentEpoch /\ start = nextIndex
             \/ epoch = currentEpoch + 1 /\ start = 0
          /\ start + count \in 0..CAPACITY
          /\ currentEpoch' = epoch
          /\ nextIndex' = start + count
          /\ leaves' = leaves \cup New(epoch, start)
          /\ DOMAIN finalRoot' = Epochs
          /\ DOMAIN filledSubtrees' = Levels
    BY AppendLeavesEffect
<1>2. \A leaf \in New(epoch, start) :
          \E i \in 1..count : leaf = [cm |-> cms[i], epoch |-> epoch, index |-> start + i - 1]
    BY DEF EventsOf
<1>3. count \in 0..2
    OBVIOUS
<1>4. \A i \in 1..count :
          [cm |-> cms[i], epoch |-> epoch, index |-> start + i - 1] \in New(epoch, start)
    BY DEF EventsOf
<1> HIDE DEF count, New
<1>5. /\ CAPACITY \in Nat /\ MaxEpoch \in Nat
      /\ nextIndex \in 0..CAPACITY /\ currentEpoch \in 0..MaxEpoch /\ epoch \in 0..MaxEpoch
      /\ start \in Nat
    BY ShapeAssumption, EpochAssumption, <1>1 DEF TreeShape, Epochs
<1>6. \A leaf \in leaves : leaf.epoch \in Nat /\ leaf.epoch <= currentEpoch /\ leaf.index \in Indices
    BY DEF TreeShape, IndicesDense
<1>7. \A leaf \in leaves : leaf.epoch = epoch => leaf.index < start
    BY <1>1, <1>5, <1>6 DEF IndicesDense
<1>8. \A leaf \in New(epoch, start) : leaf.epoch = epoch /\ leaf.index \in Indices
    BY <1>1, <1>2, <1>3, <1>5 DEF Indices
<1>9. TreeShape'
    BY <1>1, <1>5, <1>6, <1>8 DEF TreeShape, Epochs
<1>10. ASSUME NEW a \in leaves', NEW b \in leaves', a.epoch = b.epoch, a.index = b.index
       PROVE  a = b
    <2>1. CASE a \in leaves /\ b \in leaves
        BY <1>10, <2>1 DEF IndicesDense
    <2>2. CASE a \in New(epoch, start) /\ b \in New(epoch, start)
        BY <1>2, <1>3, <1>5, <1>10, <2>2
    <2>3. CASE a \in leaves /\ b \in New(epoch, start)
        BY <1>2, <1>3, <1>5, <1>6, <1>7, <1>10, <2>3 DEF Indices
    <2>4. CASE a \in New(epoch, start) /\ b \in leaves
        BY <1>2, <1>3, <1>5, <1>6, <1>7, <1>10, <2>4 DEF Indices
    <2> QED
        BY <1>1, <2>1, <2>2, <2>3, <2>4
<1>11. \A leaf \in leaves' : leaf.epoch <= currentEpoch'
    BY <1>1, <1>5, <1>6, <1>8
<1>12. ASSUME NEW index \in Indices
       PROVE  index < nextIndex' <=>
                  \E leaf \in leaves' : leaf.epoch = currentEpoch' /\ leaf.index = index
    <2>1. ASSUME NEW leaf \in leaves', leaf.epoch = epoch, leaf.index = index
          PROVE  index < start + count
        <3>1. CASE leaf \in leaves
            BY <1>3, <1>5, <1>7, <2>1, <3>1 DEF Indices
        <3>2. CASE leaf \in New(epoch, start)
            BY <1>2, <1>3, <1>5, <2>1, <3>2 DEF Indices
        <3> QED
            BY <1>1, <3>1, <3>2
    <2>2. ASSUME index < start
          PROVE  \E leaf \in leaves' : leaf.epoch = epoch /\ leaf.index = index
        <3>1. epoch = currentEpoch /\ start = nextIndex
            BY <1>1, <2>2 DEF Indices
        <3> QED
            BY <1>1, <2>2, <3>1 DEF IndicesDense
    <2>3. ASSUME start <= index, index < start + count
          PROVE  \E leaf \in leaves' : leaf.epoch = epoch /\ leaf.index = index
        <3> DEFINE i == index - start + 1
                   leaf == [cm |-> cms[i], epoch |-> epoch, index |-> start + i - 1]
        <3>1. i \in 1..count
            BY <1>3, <1>5, <2>3 DEF Indices
        <3>2. leaf \in leaves'
            BY <1>1, <1>4, <3>1
        <3>3. leaf.epoch = epoch /\ leaf.index = index
            BY <1>5 DEF Indices
        <3> QED
            BY <3>2, <3>3
    <2>4. index \in Int
        BY DEF Indices
    <2> QED
        BY <1>1, <1>3, <1>5, <2>1, <2>2, <2>3, <2>4
<1>13. IndicesDense'
    BY <1>10, <1>11, <1>12 DEF IndicesDense
<1> QED
    BY <1>9, <1>13

-----------------------------------------------------------------------------
\* The first n leaves of an epoch by their index, in a set of events.
LeafRow(S, epoch, n) ==
    LET prefix == {leaf \in {other \in S : other.epoch = epoch} : leaf.index < n}
    IN  [index \in Indices |->
            IF \E leaf \in prefix : leaf.index = index
            THEN (CHOOSE leaf \in prefix : leaf.index = index).cm
            ELSE Zero]

\* No two events share a place.
PlacesDiffer(S) == \A a, b \in S : a.epoch = b.epoch /\ a.index = b.index => a = b

LEMMA RowReads ==
    ASSUME NEW S, PlacesDiffer(S), NEW epoch, NEW n
    PROVE  /\ \A leaf \in S : leaf.epoch = epoch /\ leaf.index < n /\ leaf.index \in Indices =>
                  LeafRow(S, epoch, n)[leaf.index] = leaf.cm
           /\ \A index \in Indices :
                  (\A leaf \in S : leaf.epoch = epoch /\ leaf.index = index => ~(index < n))
                  => LeafRow(S, epoch, n)[index] = Zero
<1> DEFINE prefix == {leaf \in {other \in S : other.epoch = epoch} : leaf.index < n}
<1>1. \A index \in Indices : LeafRow(S, epoch, n)[index] =
          IF \E leaf \in prefix : leaf.index = index
          THEN (CHOOSE leaf \in prefix : leaf.index = index).cm
          ELSE Zero
    BY DEF LeafRow
<1>2. ASSUME NEW leaf \in S, leaf.epoch = epoch, leaf.index < n, leaf.index \in Indices
      PROVE  LeafRow(S, epoch, n)[leaf.index] = leaf.cm
    <2>1. leaf \in prefix
        BY <1>2
    <2>2. \A other \in prefix : other.index = leaf.index => other = leaf
        BY <1>2 DEF PlacesDiffer
    <2> HIDE DEF prefix
    <2>3. (CHOOSE other \in prefix : other.index = leaf.index) = leaf
        BY <2>1, <2>2
    <2> QED
        BY <1>1, <1>2, <2>1, <2>3
<1>3. ASSUME NEW index \in Indices,
             \A leaf \in S : leaf.epoch = epoch /\ leaf.index = index => ~(index < n)
      PROVE  LeafRow(S, epoch, n)[index] = Zero
    <2>1. \A leaf \in prefix : leaf.index # index
        BY <1>3
    <2> HIDE DEF prefix
    <2> QED
        BY <1>1, <2>1
<1> QED
    BY <1>2, <1>3

\* Leaves that come to other epochs, or above the first n, are not among these.
LEMMA RowKept ==
    ASSUME NEW S, NEW T, NEW epoch, NEW n,
           \A leaf : leaf.epoch = epoch /\ leaf.index < n => (leaf \in T <=> leaf \in S)
    PROVE  LeafRow(T, epoch, n) = LeafRow(S, epoch, n)
<1>1. {leaf \in {other \in T : other.epoch = epoch} : leaf.index < n}
      = {leaf \in {other \in S : other.epoch = epoch} : leaf.index < n}
    OBVIOUS
<1> QED
    BY <1>1 DEF LeafRow

\* One leaf more changes the row at its own place only.
LEMMA RowExtended ==
    ASSUME NEW S, NEW leaf, leaf.index \in Indices,
           PlacesDiffer(S \cup {leaf}), \A other \in S : other.index \in Indices
    PROVE  /\ LeafRow(S \cup {leaf}, leaf.epoch, CAPACITY)[leaf.index] = leaf.cm
           /\ \A i \in Indices : i # leaf.index =>
                  LeafRow(S, leaf.epoch, CAPACITY)[i] = LeafRow(S \cup {leaf}, leaf.epoch, CAPACITY)[i]
<1> DEFINE T == S \cup {leaf}
           e == leaf.epoch
<1>1. PlacesDiffer(S)
    BY DEF PlacesDiffer
<1>2. \A i \in Indices : i < CAPACITY
    BY ShapeAssumption DEF Indices
<1>3. LeafRow(T, e, CAPACITY)[leaf.index] = leaf.cm
    BY <1>2, RowReads
<1>4. ASSUME NEW i \in Indices, i # leaf.index
      PROVE  LeafRow(S, e, CAPACITY)[i] = LeafRow(T, e, CAPACITY)[i]
    <2>1. CASE \E other \in S : other.epoch = e /\ other.index = i
        <3>1. PICK other \in S : other.epoch = e /\ other.index = i
            BY <2>1
        <3>2. LeafRow(S, e, CAPACITY)[i] = other.cm
            BY <1>1, <1>2, <1>4, <3>1, RowReads
        <3>3. LeafRow(T, e, CAPACITY)[i] = other.cm
            BY <1>2, <1>4, <3>1, RowReads
        <3> QED
            BY <3>2, <3>3
    <2>2. CASE \A other \in S : ~(other.epoch = e /\ other.index = i)
        <3>1. LeafRow(S, e, CAPACITY)[i] = Zero
            BY <1>1, <1>4, <2>2, RowReads
        <3>2. LeafRow(T, e, CAPACITY)[i] = Zero
            BY <1>4, <2>2, RowReads
        <3> QED
            BY <3>1, <3>2
    <2> QED
        BY <2>1, <2>2
<1> QED
    BY <1>3, <1>4

\* Storage waits for the next leaf of the row that the events describe.
LEMMA InsertFollowsRow ==
    ASSUME NEW S, NEW leaf, leaf.index \in Indices,
           PlacesDiffer(S \cup {leaf}), \A other \in S : other.index \in Indices,
           NEW filled, SubtreesWait(filled, LeafRow(S, leaf.epoch, CAPACITY), leaf.index)
    PROVE  SubtreesWait(InsertLeaf(filled, leaf.index, leaf.cm),
                        LeafRow(S \cup {leaf}, leaf.epoch, CAPACITY), leaf.index + 1)
<1> DEFINE f == LeafRow(S, leaf.epoch, CAPACITY)
           g == LeafRow(S \cup {leaf}, leaf.epoch, CAPACITY)
           index == leaf.index
           cm == leaf.cm
<1>1. g[index] = cm /\ \A i \in Indices : i # index => f[i] = g[i]
    BY RowExtended
<1>2. SubtreesWait(filled, f, index) /\ index \in Indices
    OBVIOUS
<1> HIDE DEF f, g, index, cm
<1>3. SubtreesWait(InsertLeaf(filled, index, cm), g, index + 1)
    BY <1>1, <1>2, InsertKeepsSubtrees
<1> QED
    BY <1>3 DEF f, g, index, cm

\* Nothing waits before the first leaf, and the root is that of no leaves.
LEMMA EmptyTreeWaits ==
    ASSUME NEW f, \A i \in Indices : f[i] = Zero
    PROVE  SubtreesWait(NoSubtrees, f, 0) /\ MerkleRoot(f) = EMPTY_ROOT
<1>1. \A l \in Levels : Bit(0, l) = 0
    <2>1. ASSUME NEW l \in Levels PROVE Bit(0, l) = 0
        <3>1. PowerOf2[l] \in Nat \ {0}
            BY PowersDouble
        <3>2. Place(0, l) = 0
            BY <3>1 DEF Place
        <3> QED
            BY <3>2 DEF Bit
    <2> QED
        BY <2>1
<1>2. SubtreesWait(NoSubtrees, f, 0)
    BY <1>1 DEF SubtreesWait, NoSubtrees
<1>3. MerkleRoot(f) = EMPTY_ROOT
    BY EmptyRootIsComplete
<1> QED
    BY <1>2, <1>3

-----------------------------------------------------------------------------
(***************************************************************************)
(* What makes RootsMatchEvents inductive: the events describe a row of     *)
(* leaves without gaps or overlaps, and storage holds the subtrees that    *)
(* the next insertion into that row needs.                                 *)
(***************************************************************************)
TreeBuilt ==
    /\ TreeShape
    /\ IndicesDense
    /\ SubtreesWait(filledSubtrees, PrefixLeaves(currentEpoch, CAPACITY), nextIndex)
    /\ RootsMatchEvents

LEMMA RowsOfEvents ==
    /\ \A epoch, n : PrefixLeaves(epoch, n) = LeafRow(leaves, epoch, n)
    /\ \A epoch, n : PrefixLeaves(epoch, n)' = LeafRow(leaves', epoch, n)
BY DEF PrefixLeaves, LeafRow, LeavesOf

LEMMA EmptyTreeIsBuilt == LogicInit => TreeBuilt
<1> SUFFICES ASSUME LogicInit PROVE TreeBuilt
    OBVIOUS
<1>1. /\ leaves = {} /\ currentEpoch = 0 /\ nextIndex = 0 /\ currentRoot = EMPTY_ROOT
      /\ filledSubtrees = NoSubtrees /\ DOMAIN finalRoot = Epochs
    BY DEF LogicInit
<1>2. TreeShape
    BY <1>1, ShapeAssumption, EpochAssumption DEF TreeShape, NoSubtrees, Epochs
<1>3. IndicesDense
    BY <1>1 DEF IndicesDense, Indices
<1>4. \A i \in Indices : LeafRow(leaves, 0, CAPACITY)[i] = Zero
    BY <1>1, RowReads DEF PlacesDiffer
<1>5. /\ SubtreesWait(NoSubtrees, LeafRow(leaves, 0, CAPACITY), 0)
      /\ MerkleRoot(LeafRow(leaves, 0, CAPACITY)) = EMPTY_ROOT
    BY <1>4, EmptyTreeWaits
<1>6. LeafRow(leaves, 0, CAPACITY) = PrefixLeaves(currentEpoch, CAPACITY)
    BY <1>1, RowsOfEvents
<1>7. SubtreesWait(filledSubtrees, PrefixLeaves(currentEpoch, CAPACITY), nextIndex)
    BY <1>1, <1>5, <1>6
<1>8. RootsMatchEvents
    <2>1. EpochRoot(0) = PrefixRoot(0, CAPACITY)
        BY <1>1, <1>5, <1>6 DEF EpochRoot, PrefixRoot
    <2>2. \A epoch \in 0..currentEpoch : epoch = 0
        BY <1>1
    <2> QED
        BY <2>1, <2>2 DEF RootsMatchEvents
<1> QED
    BY <1>2, <1>3, <1>7, <1>8 DEF TreeBuilt

(***************************************************************************)
(* AppendLeaves with some leaf in it: the tree of the epoch it ends up in, *)
(* fresh or not, is again the one its events describe.                     *)
(***************************************************************************)
LEMMA AppendBuilds ==
    ASSUME TreeBuilt,
           NEW cms, Len(cms) \in 1..2, WithinEpochs(Len(cms)), AppendLeaves(cms)
    PROVE  /\ SubtreesWait(filledSubtrees', LeafRow(leaves', currentEpoch', CAPACITY), nextIndex')
           /\ currentRoot' = MerkleRoot(LeafRow(leaves', currentEpoch', CAPACITY))
<1> DEFINE count == Len(cms)
           roll  == MustRoll(count)
           epoch == IF roll THEN currentEpoch + 1 ELSE currentEpoch
           start == IF roll THEN 0 ELSE nextIndex
           none  == IF roll THEN NoSubtrees ELSE filledSubtrees
           one   == IF count >= 1 THEN InsertLeaf(none, start, cms[1]) ELSE none
           two   == IF count = 2 THEN InsertLeaf(one, start + 1, cms[2]) ELSE one
           Event(i) == [cm |-> cms[i], epoch |-> epoch, index |-> start + i - 1]
           S1    == leaves \cup {Event(1)}
           S2    == S1 \cup {Event(2)}
           Row2(S) == LeafRow(S, epoch, CAPACITY)
<1>1. /\ currentEpoch' = epoch /\ nextIndex' = start + count /\ filledSubtrees' = two
      /\ leaves' = leaves \cup {Event(i) : i \in 1..count}
    BY DEF AppendLeaves
<1>2. currentRoot' = ComputeRoot(two, start + count)
    <2>1. count # 0
        OBVIOUS
    <2> QED
        BY <2>1, Zenon DEF AppendLeaves
<1>3. count \in 1..2 /\ count \in 0..2
    OBVIOUS
<1>4. TreeShape' /\ IndicesDense'
    BY <1>3, AppendKeepsDense DEF TreeBuilt
<1>5. /\ CAPACITY \in Nat /\ nextIndex \in 0..CAPACITY /\ start \in Nat
      /\ start + count \in 0..CAPACITY
      /\ currentEpoch \in Nat
    BY <1>1, <1>4, ShapeAssumption, EpochAssumption DEF TreeBuilt, TreeShape, Epochs
\* The tree of that epoch before the call.
<1>6. SubtreesWait(none, Row2(leaves), start)
    <2>1. CASE roll
        <3>1. \A leaf \in leaves : leaf.epoch # epoch
            BY <1>5, <2>1 DEF TreeBuilt, TreeShape, IndicesDense
        <3>2. PlacesDiffer(leaves)
            BY DEF TreeBuilt, IndicesDense, PlacesDiffer
        <3>3. \A i \in Indices : Row2(leaves)[i] = Zero
            BY <3>1, <3>2, RowReads
        <3> QED
            BY <2>1, <3>3, EmptyTreeWaits
    <2>2. CASE ~roll
        BY <2>2, RowsOfEvents DEF TreeBuilt
    <2> QED
        BY <2>1, <2>2
<1>7. PlacesDiffer(leaves') /\ \A leaf \in leaves' : leaf.index \in Indices
    BY <1>4 DEF TreeShape, IndicesDense, PlacesDiffer
<1>8. /\ Event(1).cm = cms[1] /\ Event(1).epoch = epoch /\ Event(1).index = start
      /\ Event(2).cm = cms[2] /\ Event(2).epoch = epoch /\ Event(2).index = start + 1
    BY <1>5
<1>9. leaves' = IF count = 2 THEN S2 ELSE S1
    <2>1. CASE count = 1
        <3>1. 1..1 = {1}
            OBVIOUS
        <3> HIDE DEF Event
        <3>2. {Event(i) : i \in 1..count} = {Event(1)}
            BY <2>1, <3>1
        <3> QED
            BY <1>1, <2>1, <3>2
    <2>2. CASE count = 2
        <3>1. 1..2 = {1, 2}
            OBVIOUS
        <3> HIDE DEF Event
        <3>2. {Event(i) : i \in 1..count} = {Event(1), Event(2)}
            BY <2>2, <3>1
        <3> QED
            BY <1>1, <2>2, <3>2
    <2> QED
        BY <1>3, <2>1, <2>2
<1>10. two = IF count = 2 THEN InsertLeaf(one, start + 1, cms[2]) ELSE one
    OBVIOUS
<1>11. one = InsertLeaf(none, start, cms[1])
    BY <1>3
<1> HIDE DEF count, roll, epoch, start, none, one, two, Event
\* The first leaf, at the next free place.
<1>12. SubtreesWait(one, Row2(S1), start + 1)
    <2>1. S1 \subseteq leaves'
        BY <1>9
    <2>2. PlacesDiffer(S1) /\ Event(1).index \in Indices /\ \A leaf \in leaves : leaf.index \in Indices
        BY <1>7, <2>1 DEF PlacesDiffer
    <2>3. SubtreesWait(InsertLeaf(none, Event(1).index, Event(1).cm),
                       LeafRow(S1, Event(1).epoch, CAPACITY), Event(1).index + 1)
        BY <1>6, <1>8, <2>2, InsertFollowsRow
    <2> QED
        BY <1>8, <1>11, <2>3
\* The second, at the place after it.
<1>13. SubtreesWait(two, Row2(leaves'), start + count)
    <2>1. CASE count = 1
        BY <1>9, <1>10, <1>12, <2>1
    <2>2. CASE count = 2
        <3>1. leaves' = S2 /\ two = InsertLeaf(one, start + 1, cms[2])
            BY <1>9, <1>10, <2>2
        <3>2. PlacesDiffer(S2) /\ Event(2).index \in Indices /\ \A leaf \in S1 : leaf.index \in Indices
            BY <1>7, <3>1
        <3>3. SubtreesWait(InsertLeaf(one, Event(2).index, Event(2).cm),
                           LeafRow(S2, Event(2).epoch, CAPACITY), Event(2).index + 1)
            <4> HIDE DEF S1
            <4> QED
                BY <1>8, <1>12, <3>2, InsertFollowsRow
        <3>4. start + 1 + 1 = start + count
            BY <1>5, <2>2
        <3> QED
            BY <1>8, <3>1, <3>3, <3>4
    <2> QED
        BY <1>3, <2>1, <2>2
<1>14. \A i \in Indices : i >= start + count => Row2(leaves')[i] = Zero
    <2>1. ASSUME NEW i \in Indices, i >= start + count
          PROVE  \A leaf \in leaves' : ~(leaf.epoch = epoch /\ leaf.index = i)
        <3>1. ~(i < start + count)
            BY <1>5, <2>1 DEF Indices
        <3> QED
            BY <1>1, <1>4, <3>1 DEF IndicesDense
    <2> QED
        BY <1>7, <2>1, RowReads
<1>15. currentRoot' = MerkleRoot(Row2(leaves'))
    BY <1>2, <1>5, <1>13, <1>14, ComputedRootIsComplete
<1> QED
    BY <1>1, <1>13, <1>15

(***************************************************************************)
(* A call that appends nothing leaves the whole tree as it is.             *)
(***************************************************************************)
LEMMA AppendNothing ==
    ASSUME TreeShape, NEW cms, Len(cms) = 0, AppendLeaves(cms)
    PROVE  /\ UNCHANGED <<filledSubtrees, nextIndex, currentRoot, currentEpoch, finalRoot>>
           /\ leaves' = leaves
<1>1. ~MustRoll(Len(cms))
    BY ShapeAssumption DEF MustRoll, TreeShape
<1>2. 1..Len(cms) = {}
    OBVIOUS
<1>3. nextIndex + 0 = nextIndex
    BY DEF TreeShape
<1> QED
    BY <1>1, <1>2, <1>3 DEF AppendLeaves

\* Rows of epochs up to the active one, within their fill, are there for good.
Fill(epoch) == IF epoch = currentEpoch THEN nextIndex ELSE CAPACITY

LEMMA AppendKeepsRows ==
    ASSUME TreeShape, IndicesDense,
           NEW cms, Len(cms) \in 0..2, WithinEpochs(Len(cms)), AppendLeaves(cms),
           NEW epoch \in 0..currentEpoch, NEW n \in 0..Fill(epoch)
    PROVE  LeafRow(leaves', epoch, n) = LeafRow(leaves, epoch, n)
<1>1. PICK e \in Epochs, start \in 0..CAPACITY :
          /\ \/ e = currentEpoch /\ start = nextIndex
             \/ e = currentEpoch + 1
          /\ leaves' = leaves \cup EventsOf(cms, e, start)
    BY AppendLeavesEffect
<1>2. /\ CAPACITY \in Nat /\ nextIndex \in Nat /\ currentEpoch \in Nat
      /\ start \in Nat /\ e \in Nat /\ Len(cms) \in Nat
    BY <1>1, ShapeAssumption, EpochAssumption DEF TreeShape, Epochs
<1>3. ASSUME NEW leaf \in EventsOf(cms, e, start), leaf.epoch = epoch, leaf.index < n
      PROVE  FALSE
    <2>1. PICK i \in 1..Len(cms) :
              leaf = [cm |-> cms[i], epoch |-> e, index |-> start + i - 1]
        BY <1>3 DEF EventsOf
    <2>2. leaf.epoch = e /\ leaf.index = start + i - 1
        BY <2>1
    <2>3. e = currentEpoch /\ start = nextIndex /\ epoch = currentEpoch
        BY <1>1, <1>2, <1>3, <2>2
    <2>4. n <= nextIndex
        BY <1>2, <2>3 DEF Fill
    <2> QED
        BY <1>2, <1>3, <2>2, <2>3, <2>4
<1> QED
    BY <1>1, <1>3, RowKept

(***************************************************************************)
(* Appending keeps the incremental tree in step with its events: in the    *)
(* epoch that takes the leaves, in the one that may be closed by the call, *)
(* and in all that were closed before.                                     *)
(***************************************************************************)
LEMMA AppendKeepsTree ==
    ASSUME TreeBuilt,
           NEW cms, Len(cms) \in 0..2, WithinEpochs(Len(cms)), AppendLeaves(cms)
    PROVE  TreeBuilt'
<1>1. TreeShape' /\ IndicesDense'
    BY AppendKeepsDense DEF TreeBuilt
<1>2. TreeShape /\ IndicesDense
    BY DEF TreeBuilt
<1>3. CASE Len(cms) = 0
    <2>1. /\ UNCHANGED <<filledSubtrees, nextIndex, currentRoot, currentEpoch, finalRoot>>
          /\ leaves' = leaves
        BY <1>2, <1>3, AppendNothing
    <2>2. \A epoch, n : PrefixLeaves(epoch, n)' = PrefixLeaves(epoch, n)
        BY <2>1, RowsOfEvents
    <2>3. \A epoch, n : PrefixRoot(epoch, n)' = PrefixRoot(epoch, n)
        BY <2>2 DEF PrefixRoot
    <2>4. \A epoch : EpochRoot(epoch)' = EpochRoot(epoch)
        BY <2>1 DEF EpochRoot
    <2>5. RootsMatchEvents'
        BY <2>1, <2>3, <2>4 DEF TreeBuilt, RootsMatchEvents
    <2>6. SubtreesWait(filledSubtrees, PrefixLeaves(currentEpoch, CAPACITY), nextIndex)'
        BY <2>1, <2>2 DEF TreeBuilt
    <2> QED
        BY <1>1, <2>5, <2>6 DEF TreeBuilt
<1>4. CASE Len(cms) \in 1..2
    <2>1. /\ SubtreesWait(filledSubtrees', LeafRow(leaves', currentEpoch', CAPACITY), nextIndex')
          /\ currentRoot' = MerkleRoot(LeafRow(leaves', currentEpoch', CAPACITY))
        BY <1>4, AppendBuilds
    <2>2. SubtreesWait(filledSubtrees, PrefixLeaves(currentEpoch, CAPACITY), nextIndex)'
        BY <2>1, RowsOfEvents
    <2>3. /\ currentEpoch' \in {currentEpoch, currentEpoch + 1}
          /\ currentEpoch \in Nat /\ CAPACITY \in Nat /\ currentEpoch \in Epochs
        BY <1>2, AppendLeavesEffect, ShapeAssumption, EpochAssumption DEF TreeShape, Epochs
    <2>4. ASSUME NEW epoch \in 0..currentEpoch'
          PROVE  EpochRoot(epoch)' = PrefixRoot(epoch, CAPACITY)'
        <3>1. PrefixRoot(epoch, CAPACITY)' = MerkleRoot(LeafRow(leaves', epoch, CAPACITY))
            BY RowsOfEvents DEF PrefixRoot
        <3>2. CASE epoch = currentEpoch'
            BY <2>1, <3>1, <3>2 DEF EpochRoot
        <3>3. CASE epoch # currentEpoch'
            <4>1. epoch \in 0..currentEpoch
                BY <2>3, <3>3
            <4>2. EpochRoot(epoch) = MerkleRoot(LeafRow(leaves, epoch, CAPACITY))
                BY <4>1, RowsOfEvents DEF TreeBuilt, RootsMatchEvents, PrefixRoot
            <4>3. EpochRoot(epoch)' = finalRoot'[epoch]
                BY <3>3 DEF EpochRoot
            <4>4. CASE epoch = currentEpoch
                <5>1. MustRoll(Len(cms)) /\ finalRoot' = ClosedRoots
                    BY <3>3, <4>4 DEF AppendLeaves
                <5>2. finalRoot'[epoch] = EpochRoot(epoch)
                    BY <1>2, <2>3, <4>4, <5>1 DEF ClosedRoots, EpochRoot, TreeShape
                <5>3. LeafRow(leaves', epoch, CAPACITY) = LeafRow(leaves, epoch, CAPACITY)
                    <6>1. PICK e \in Epochs, start \in 0..CAPACITY :
                              /\ currentEpoch' = e
                              /\ leaves' = leaves \cup EventsOf(cms, e, start)
                        BY <1>2, AppendLeavesEffect
                    <6>2. \A leaf \in EventsOf(cms, e, start) : leaf.epoch # epoch
                        BY <3>3, <6>1 DEF EventsOf
                    <6> QED
                        BY <6>1, <6>2, RowKept
                <5> QED
                    BY <3>1, <4>2, <4>3, <5>2, <5>3
            <4>5. CASE epoch # currentEpoch
                <5>1. epoch \in 0..(currentEpoch - 1)
                    BY <2>3, <4>1, <4>5
                <5>2. finalRoot'[epoch] = finalRoot[epoch]
                    BY <1>2, <5>1, AppendLeavesEffect
                <5>3. LeafRow(leaves', epoch, CAPACITY) = LeafRow(leaves, epoch, CAPACITY)
                    <6>1. CAPACITY \in 0..Fill(epoch)
                        BY <2>3, <4>5 DEF Fill
                    <6> QED
                        BY <1>2, <4>1, <6>1, AppendKeepsRows
                <5>4. EpochRoot(epoch) = finalRoot[epoch]
                    BY <4>5 DEF EpochRoot
                <5> QED
                    BY <3>1, <4>2, <4>3, <5>2, <5>3, <5>4
            <4> QED
                BY <4>4, <4>5
        <3> QED
            BY <3>2, <3>3
    <2>5. RootsMatchEvents'
        BY <2>4 DEF RootsMatchEvents
    <2> QED
        BY <1>1, <2>2, <2>5 DEF TreeBuilt
<1> QED
    BY <1>3, <1>4

\* Steps that leave the tree alone leave it built.
LEMMA TreeStaysBuilt ==
    ASSUME TreeBuilt, UNCHANGED treeVars
    PROVE  TreeBuilt'
<1>1. \A epoch, n : PrefixLeaves(epoch, n)' = PrefixLeaves(epoch, n)
    BY RowsOfEvents DEF treeVars
<1>2. \A epoch, n : PrefixRoot(epoch, n)' = PrefixRoot(epoch, n)
    BY <1>1 DEF PrefixRoot
<1>3. \A epoch : EpochRoot(epoch)' = EpochRoot(epoch)
    BY DEF EpochRoot, treeVars
<1>4. TreeShape' /\ IndicesDense'
    BY DEF TreeBuilt, TreeShape, IndicesDense, treeVars
<1>5. RootsMatchEvents'
    BY <1>2, <1>3 DEF TreeBuilt, RootsMatchEvents, treeVars
<1>6. SubtreesWait(filledSubtrees, PrefixLeaves(currentEpoch, CAPACITY), nextIndex)'
    BY <1>1 DEF TreeBuilt, treeVars
<1> QED
    BY <1>4, <1>5, <1>6 DEF TreeBuilt

-----------------------------------------------------------------------------
(***************************************************************************)
(* The leaf discipline.  It is inductive with the shape of the tree: the   *)
(* range of nextIndex and leaf.epoch <= currentEpoch are what shows that a *)
(* fresh epoch starts empty and that an insertion takes a free place.      *)
(***************************************************************************)
LeafIInv ==
    /\ TreeShape
    /\ leaves \subseteq LeafEvent(isLeaf)
    /\ LeafDiscipline

\* The commitments a call appends: at most two, distinct, new, and no sinks.
Appendable(cms) ==
    /\ Len(cms) \in 0..2
    /\ \A i \in 1..Len(cms) : cms[i] \notin isLeaf \cup {SINK_0, SINK_1}
    /\ \A i, j \in 1..Len(cms) : cms[i] = cms[j] => i = j

\* Appending keeps the leaf discipline and the types of the tree.
LEMMA AppendLeavesDiscipline ==
    ASSUME LeafIInv,
           NEW cms, Appendable(cms), WithinEpochs(Len(cms)), AppendLeaves(cms)
    PROVE  LeafIInv'
<1> DEFINE count == Len(cms)
           New(epoch, start) == EventsOf(cms, epoch, start)
<1>1. PICK epoch \in Epochs, start \in 0..CAPACITY :
          /\ \/ epoch = currentEpoch /\ start = nextIndex
             \/ epoch = currentEpoch + 1 /\ start = 0
          /\ start + count \in 0..CAPACITY
          /\ currentEpoch' = epoch
          /\ nextIndex' = start + count
          /\ isLeaf' = isLeaf \cup {cms[i] : i \in 1..count}
          /\ leaves' = leaves \cup New(epoch, start)
          /\ DOMAIN finalRoot' = Epochs
          /\ DOMAIN filledSubtrees' = Levels
    BY AppendLeavesEffect DEF Appendable, LeafIInv
<1>2. /\ count \in 0..2
      /\ \A i \in 1..count : cms[i] \notin isLeaf /\ cms[i] \notin {SINK_0, SINK_1}
      /\ \A i, j \in 1..count : cms[i] = cms[j] => i = j
    BY DEF Appendable
<1> HIDE DEF count
<1>3. /\ CAPACITY \in Nat /\ MaxEpoch \in Nat
      /\ nextIndex \in 0..CAPACITY /\ currentEpoch \in 0..MaxEpoch /\ epoch \in 0..MaxEpoch
    BY ShapeAssumption, EpochAssumption, <1>1 DEF LeafIInv, TreeShape, Epochs
<1>4. \A leaf \in leaves :
          /\ leaf = [cm |-> leaf.cm, epoch |-> leaf.epoch, index |-> leaf.index]
          /\ leaf.cm \in isLeaf /\ leaf.epoch \in 0..currentEpoch /\ leaf.index \in Indices
    BY <1>3 DEF LeafIInv, LeafDiscipline, IndicesDense, LeafEvent, Epochs
<1>5. \A leaf \in New(epoch, start) :
          \E i \in 1..count : leaf = [cm |-> cms[i], epoch |-> epoch, index |-> start + i - 1]
    BY DEF EventsOf, count
<1>6. \A leaf \in leaves : leaf.epoch = epoch => leaf.index < start
    BY <1>1, <1>3, <1>4 DEF LeafIInv, LeafDiscipline, IndicesDense
<1>7. \A i \in 1..count : start + i - 1 \in Indices
    BY <1>1, <1>2, <1>3 DEF Indices
<1>8. AppendedOnce'
    <2>1. isLeaf' = {leaf.cm : leaf \in leaves'}
        <3>1. \A leaf \in New(epoch, start) : leaf.cm \in {cms[i] : i \in 1..count}
            <4> HIDE DEF New
            <4> QED
                BY <1>5
        <3>2. ASSUME NEW i \in 1..count
              PROVE  \E leaf \in New(epoch, start) : leaf.cm = cms[i]
            <4> DEFINE leaf == [cm |-> cms[i], epoch |-> epoch, index |-> start + i - 1]
            <4>1. leaf \in New(epoch, start) /\ leaf.cm = cms[i]
                BY DEF EventsOf, count
            <4> QED
                BY <4>1
        <3>3. isLeaf = {leaf.cm : leaf \in leaves}
            BY DEF LeafIInv, LeafDiscipline, AppendedOnce
        <3> HIDE DEF New
        <3> QED
            BY <1>1, <3>1, <3>2, <3>3
    <2>2. ASSUME NEW a \in leaves', NEW b \in leaves', a.cm = b.cm
          PROVE  a = b
        <3> HIDE DEF New
        <3>1. CASE a \in leaves /\ b \in leaves
            BY <2>2, <3>1 DEF LeafIInv, LeafDiscipline, AppendedOnce
        <3>2. CASE a \in New(epoch, start) /\ b \in New(epoch, start)
            BY <1>2, <1>5, <2>2, <3>2
        <3>3. CASE a \in leaves /\ b \in New(epoch, start)
            BY <1>2, <1>4, <1>5, <2>2, <3>3
        <3>4. CASE a \in New(epoch, start) /\ b \in leaves
            BY <1>2, <1>4, <1>5, <2>2, <3>4
        <3> QED
            BY <1>1, <3>1, <3>2, <3>3, <3>4
    <2> QED
        BY <2>1, <2>2 DEF AppendedOnce
<1>9. TreeShape' /\ IndicesDense'
    BY AppendKeepsDense DEF Appendable, LeafIInv, LeafDiscipline
<1>10. SinksOutside'
    BY <1>1, <1>2 DEF LeafIInv, LeafDiscipline, SinksOutside, SINK_0, SINK_1, Commit
<1>11. leaves' \subseteq LeafEvent(isLeaf')
    <2>1. \A leaf \in leaves : leaf \in LeafEvent(isLeaf')
        BY <1>1, <1>3, <1>4 DEF LeafEvent, Epochs
    <2>2. \A leaf \in New(epoch, start) : leaf \in LeafEvent(isLeaf')
        BY <1>1, <1>5, <1>7 DEF LeafEvent
    <2> QED
        BY <1>1, <2>1, <2>2
<1> QED
    BY <1>8, <1>9, <1>10, <1>11 DEF LeafIInv, LeafDiscipline

LEMMA NoLeavesYet == LogicInit => LeafIInv
<1> SUFFICES ASSUME LogicInit PROVE LeafIInv
    OBVIOUS
<1>1. TreeShape
    BY EmptyTreeIsBuilt DEF TreeBuilt
<1>2. leaves = {} /\ isLeaf = {} /\ nextIndex = 0
    BY DEF LogicInit
<1>3. LeafDiscipline
    BY <1>2 DEF LeafDiscipline, AppendedOnce, IndicesDense, SinksOutside, Indices
<1> QED
    BY <1>1, <1>2, <1>3 DEF LeafIInv

LEMMA DisciplineStays ==
    ASSUME LeafIInv, UNCHANGED treeVars
    PROVE  LeafIInv'
BY DEF LeafIInv, TreeShape, LeafEvent, LeafDiscipline, AppendedOnce, IndicesDense, SinksOutside,
       treeVars

\* Both calls that append leaves append only appendable ones.
LEMMA ShieldAppends ==
    ASSUME NEW inner, NEW value, Shield(inner, value)
    PROVE  \E cms : /\ Appendable(cms) /\ WithinEpochs(Len(cms)) /\ AppendLeaves(cms)
                    /\ \A i \in 1..Len(cms) : cms[i] = Commit(inner, value)
<1> DEFINE cms == <<Commit(inner, value)>>
<1>1. Len(cms) = 1 /\ cms[1] = Commit(inner, value)
    OBVIOUS
<1>2. Appendable(cms) /\ WithinEpochs(Len(cms)) /\ AppendLeaves(cms)
    BY <1>1 DEF Shield, ShieldAccepts, Appendable
<1>3. \A i \in 1..Len(cms) : cms[i] = Commit(inner, value)
    BY <1>1
<1> QED
    BY <1>2, <1>3

LEMMA SettleAppends ==
    ASSUME NEW sender, NEW s, Settle(sender, s)
    PROVE  \E cms : /\ Appendable(cms) /\ WithinEpochs(Len(cms)) /\ AppendLeaves(cms)
                    /\ \A i \in 1..Len(cms) : cms[i] \in {s.outCm1, s.outCm2}
<1> DEFINE cms == NewOutputs(s)
<1>1. /\ s.outCm1 # s.outCm2 /\ s.outCm1 # SINK_1 /\ s.outCm2 # SINK_0
      /\ s.outCm1 # SINK_0 => s.outCm1 \notin isLeaf
      /\ s.outCm2 # SINK_1 => s.outCm2 \notin isLeaf
    BY DEF Settle, SettleAccepts, WellFormed, DuplicateOutput
<1>2. Appendable(cms) /\ \A i \in 1..Len(cms) : cms[i] \in {s.outCm1, s.outCm2}
    <2>1. CASE s.outCm1 = SINK_0 /\ s.outCm2 = SINK_1
        BY <2>1 DEF NewOutputs, Appendable
    <2>2. CASE s.outCm1 = SINK_0 /\ s.outCm2 # SINK_1
        <3>1. cms = <<s.outCm2>>
            BY <2>2 DEF NewOutputs
        <3> QED
            BY <1>1, <2>2, <3>1 DEF Appendable
    <2>3. CASE s.outCm1 # SINK_0 /\ s.outCm2 = SINK_1
        <3>1. cms = <<s.outCm1>>
            BY <2>3 DEF NewOutputs
        <3> QED
            BY <1>1, <2>3, <3>1 DEF Appendable
    <2>4. CASE s.outCm1 # SINK_0 /\ s.outCm2 # SINK_1
        <3>1. cms = <<s.outCm1, s.outCm2>>
            BY <2>4 DEF NewOutputs
        <3> QED
            BY <1>1, <2>4, <3>1 DEF Appendable
    <2> QED
        BY <2>1, <2>2, <2>3, <2>4
<1>3. WithinEpochs(Len(cms)) /\ AppendLeaves(cms)
    BY DEF Settle, SettleEffects
<1> QED
    BY <1>2, <1>3

-----------------------------------------------------------------------------
\* A prefix of the leaves that reaches the fill of an epoch is all of them.
LEMMA WholePrefix ==
    ASSUME TreeBuilt, NEW epoch \in 0..currentEpoch
    PROVE  EpochRoot(epoch) = PrefixRoot(epoch, Fill(epoch))
<1>1. CAPACITY \in Nat /\ currentEpoch \in Nat /\ nextIndex \in 0..CAPACITY
    BY ShapeAssumption, EpochAssumption DEF TreeBuilt, TreeShape, Epochs
<1>2. EpochRoot(epoch) = PrefixRoot(epoch, CAPACITY)
    BY DEF TreeBuilt, RootsMatchEvents
<1>3. CASE epoch # currentEpoch
    BY <1>2, <1>3 DEF Fill
<1>4. CASE epoch = currentEpoch
    <2>1. \A leaf \in leaves : leaf.epoch = epoch =>
              leaf.index < nextIndex /\ leaf.index < CAPACITY
        BY <1>1, <1>4 DEF TreeBuilt, TreeShape, IndicesDense, Indices
    <2>2. {leaf \in LeavesOf(epoch) : leaf.index < nextIndex}
          = {leaf \in LeavesOf(epoch) : leaf.index < CAPACITY}
        BY <2>1 DEF LeavesOf
    <2>3. PrefixLeaves(epoch, nextIndex) = PrefixLeaves(epoch, CAPACITY)
        BY <2>2 DEF PrefixLeaves
    <2> QED
        BY <1>2, <1>4, <2>3 DEF Fill, PrefixRoot
<1> QED
    BY <1>3, <1>4

\* The root of n[i] leaves stands in entry i, later entries with no fewer leaves.
Written(source, i) == ring[source][i] # NoEntry

FillsOf(source, n) ==
    /\ \A i \in Entries : Written(source, i) =>
           /\ source <= currentEpoch
           /\ ring[source][i].slot \in 0..slot
           /\ n[i] <= Fill(source)
           /\ ring[source][i].root = PrefixRoot(source, n[i])
    /\ \A i, j \in Entries :
           /\ Written(source, i) /\ Written(source, j)
           /\ ring[source][i].slot < ring[source][j].slot
           => n[i] <= n[j]

(***************************************************************************)
(* What makes RingAuthentic inductive: no entry commits to more leaves     *)
(* than its epoch has now, and none was written after the current slot, so *)
(* the next entry is the latest and commits to the most leaves.            *)
(***************************************************************************)
RingBuilt ==
    /\ TreeBuilt
    /\ slot \in Nat
    /\ ring = [source \in Sources |-> [i \in Entries |-> ring[source][i]]]
    /\ \A source \in Sources : \E n \in [Entries -> 0..CAPACITY] : FillsOf(source, n)

LEMMA EmptyRingIsBuilt == LogicInit => RingBuilt
<1> SUFFICES ASSUME LogicInit PROVE RingBuilt
    OBVIOUS
<1>1. TreeBuilt
    BY EmptyTreeIsBuilt
<1>2. slot = 0 /\ ring = [source \in Sources |-> [i \in Entries |-> NoEntry]]
    BY DEF LogicInit, RootsInit
<1>3. \A source \in Sources, n \in [Entries -> 0..CAPACITY] : FillsOf(source, n)
    BY <1>2 DEF FillsOf, Written
<1>4. [i \in Entries |-> 0] \in [Entries -> 0..CAPACITY]
    BY ShapeAssumption
<1>5. ring = [source \in Sources |-> [i \in Entries |-> ring[source][i]]]
    BY <1>2
<1> QED
    BY <1>1, <1>2, <1>3, <1>4, <1>5 DEF RingBuilt

\* Leaves are only added, to the active epoch or a later one: no entry ages.
LEMMA AppendKeepsRing ==
    ASSUME RingBuilt, UNCHANGED rootsVars,
           NEW cms, Len(cms) \in 0..2, WithinEpochs(Len(cms)), AppendLeaves(cms)
    PROVE  RingBuilt'
<1>1. TreeBuilt' /\ TreeShape /\ IndicesDense /\ TreeShape'
    BY AppendKeepsTree DEF RingBuilt, TreeBuilt
<1>2. slot' = slot /\ ring' = ring
    BY DEF rootsVars
<1>3. /\ CAPACITY \in Nat /\ currentEpoch \in Nat /\ currentEpoch' \in Nat
      /\ nextIndex \in 0..CAPACITY /\ nextIndex' \in 0..CAPACITY
    BY <1>1, ShapeAssumption, EpochAssumption DEF TreeShape, Epochs
<1>4. /\ currentEpoch' = currentEpoch /\ nextIndex <= nextIndex'
      \/ currentEpoch' = currentEpoch + 1
    BY <1>1, <1>3, AppendLeavesEffect
<1>5. Sources \subseteq Nat
    BY EpochAssumption
<1>6. \A source \in 0..currentEpoch : Fill(source) \in Nat /\ Fill(source)' \in Nat /\ Fill(source) <= Fill(source)'
    BY <1>3, <1>4 DEF Fill
<1>7. ASSUME NEW source \in Sources, NEW n \in [Entries -> 0..CAPACITY], FillsOf(source, n)
      PROVE  FillsOf(source, n)'
    <2>1. ASSUME NEW i \in Entries, Written(source, i)'
          PROVE  /\ source <= currentEpoch'
                 /\ ring'[source][i].slot \in 0..slot'
                 /\ n[i] <= Fill(source)'
                 /\ ring'[source][i].root = PrefixRoot(source, n[i])'
        <3>1. /\ source <= currentEpoch
              /\ ring[source][i].slot \in 0..slot
              /\ n[i] <= Fill(source)
              /\ ring[source][i].root = PrefixRoot(source, n[i])
            BY <1>2, <1>7, <2>1 DEF FillsOf, Written
        <3>2. source \in 0..currentEpoch /\ n[i] \in Nat
            BY <1>3, <1>5, <3>1
        <3>3. n[i] \in 0..Fill(source)
            BY <1>6, <3>1, <3>2
        <3>4. LeafRow(leaves', source, n[i]) = LeafRow(leaves, source, n[i])
            BY <1>1, <3>2, <3>3, AppendKeepsRows
        <3>5. PrefixRoot(source, n[i])' = PrefixRoot(source, n[i])
            BY <3>4, RowsOfEvents DEF PrefixRoot
        <3>6. n[i] <= Fill(source)' /\ source <= currentEpoch'
            BY <1>3, <1>4, <1>5, <1>6, <3>1, <3>2
        <3> QED
            BY <1>2, <3>1, <3>5, <3>6
    <2>2. \A i, j \in Entries :
              /\ Written(source, i)' /\ Written(source, j)'
              /\ ring'[source][i].slot < ring'[source][j].slot
              => n[i] <= n[j]
        BY <1>2, <1>7 DEF FillsOf, Written
    <2> QED
        BY <2>1, <2>2 DEF FillsOf
<1>8. \A source \in Sources : \E n \in [Entries -> 0..CAPACITY] : FillsOf(source, n)'
    BY <1>7 DEF RingBuilt
<1> QED
    BY <1>1, <1>2, <1>8 DEF RingBuilt

\* A publication writes the root of all leaves of its epoch, after all others.
LEMMA PublishKeepsRing ==
    ASSUME RingBuilt, NEW epoch \in Epochs, PublishEpochRoot(epoch)
    PROVE  RingBuilt'
<1> DEFINE here == slot % RING_LENGTH
           entry == [slot |-> slot, root |-> EpochRoot(epoch)]
<1>1. /\ epoch \in 0..currentEpoch /\ slot' = slot /\ UNCHANGED treeVars
      /\ ring' = [ring EXCEPT ![epoch][here] = entry]
    BY EpochAssumption DEF PublishEpochRoot, WriteRoot, Epochs
<1>2. TreeBuilt' /\ currentEpoch' = currentEpoch /\ nextIndex' = nextIndex
    BY <1>1, TreeStaysBuilt DEF RingBuilt, treeVars
<1>3. slot \in Nat /\ here \in Entries
    BY RingAssumption DEF RingBuilt, Entries
<1>4. EpochRoot(epoch) = PrefixRoot(epoch, Fill(epoch)) /\ Fill(epoch) \in 0..CAPACITY
    BY <1>1, WholePrefix, ShapeAssumption DEF RingBuilt, TreeBuilt, TreeShape, Fill
<1>5. /\ \A source, n : PrefixRoot(source, n)' = PrefixRoot(source, n)
      /\ \A source : Fill(source)' = Fill(source)
    <2>1. \A source, n : PrefixLeaves(source, n)' = PrefixLeaves(source, n)
        BY <1>1, RowsOfEvents DEF treeVars
    <2> QED
        BY <1>2, <2>1 DEF PrefixRoot, Fill
<1> HIDE DEF here, entry
<1>6. ring' = [source \in Sources |-> [i \in Entries |-> ring'[source][i]]]
    BY <1>1 DEF RingBuilt
<1>7. \A source \in Sources : \A i \in Entries :
          ring'[source][i] = IF source = epoch /\ i = here THEN entry ELSE ring[source][i]
    BY <1>1 DEF RingBuilt
<1>8. ASSUME NEW source \in Sources
      PROVE  \E n \in [Entries -> 0..CAPACITY] : FillsOf(source, n)'
    <2>1. PICK n \in [Entries -> 0..CAPACITY] : FillsOf(source, n)
        BY DEF RingBuilt
    <2>2. CASE source # epoch
        <3>1. \A i \in Entries : ring'[source][i] = ring[source][i]
            BY <1>7, <2>2
        <3>2. FillsOf(source, n)'
            BY <1>1, <1>2, <1>5, <2>1, <3>1 DEF FillsOf, Written
        <3> QED
            BY <3>2
    <2>3. CASE source = epoch
        <3>1. [i \in Entries |-> IF i = here THEN Fill(epoch) ELSE n[i]] \in [Entries -> 0..CAPACITY]
            BY <1>4
        <3>2. PICK m \in [Entries -> 0..CAPACITY] :
                  m[here] = Fill(epoch) /\ \A i \in Entries : i # here => m[i] = n[i]
            BY <1>3, <3>1
        <3>3. entry.slot = slot /\ entry.root = PrefixRoot(epoch, Fill(epoch))
            BY <1>4 DEF entry
        <3>4. ASSUME NEW i \in Entries, Written(source, i)'
              PROVE  /\ source <= currentEpoch
                     /\ ring'[source][i].slot \in 0..slot
                     /\ m[i] <= Fill(source)
                     /\ ring'[source][i].root = PrefixRoot(source, m[i])
            <4>1. CASE i = here
                BY <1>1, <1>3, <1>4, <1>7, <2>3, <3>2, <3>3, <4>1
            <4>2. CASE i # here
                BY <1>7, <2>1, <2>3, <3>2, <3>4, <4>2 DEF FillsOf, Written
            <4> QED
                BY <4>1, <4>2
        <3>5. ASSUME NEW i \in Entries, NEW j \in Entries, Written(source, i)', Written(source, j)',
                     ring'[source][i].slot < ring'[source][j].slot
              PROVE  m[i] <= m[j]
            <4>1. CASE j = here
                <5>1. m[j] = Fill(source)
                    BY <2>3, <3>2, <4>1
                <5> QED
                    BY <3>4, <3>5, <5>1
            <4>2. CASE j # here /\ i = here
                <5>1. ring'[source][i].slot = slot /\ ring'[source][j].slot \in 0..slot
                    BY <1>7, <2>3, <3>3, <3>4, <3>5, <4>2
                <5> QED
                    BY <1>3, <3>5, <5>1
            <4>3. CASE j # here /\ i # here
                BY <1>7, <2>1, <2>3, <3>2, <3>5, <4>3 DEF FillsOf, Written
            <4> QED
                BY <4>1, <4>2, <4>3
        <3>6. FillsOf(source, m)'
            BY <1>1, <1>2, <1>5, <3>4, <3>5 DEF FillsOf
        <3> QED
            BY <3>6
    <2> QED
        BY <2>2, <2>3
<1> QED
    BY <1>1, <1>2, <1>3, <1>6, <1>8 DEF RingBuilt

LEMMA RingStaysBuilt ==
    ASSUME RingBuilt, UNCHANGED <<treeVars, ring>>, slot' \in Nat, slot <= slot'
    PROVE  RingBuilt'
<1>1. TreeBuilt' /\ currentEpoch' = currentEpoch /\ nextIndex' = nextIndex
    BY TreeStaysBuilt DEF RingBuilt, treeVars
<1>2. /\ \A source, n : PrefixRoot(source, n)' = PrefixRoot(source, n)
      /\ \A source : Fill(source)' = Fill(source)
    <2>1. \A source, n : PrefixLeaves(source, n)' = PrefixLeaves(source, n)
        BY RowsOfEvents DEF treeVars
    <2> QED
        BY <1>1, <2>1 DEF PrefixRoot, Fill
<1>3. \A s \in 0..slot : s \in 0..slot'
    BY DEF RingBuilt
<1>4. \A source \in Sources, n \in [Entries -> 0..CAPACITY] : FillsOf(source, n) => FillsOf(source, n)'
    BY <1>1, <1>2, <1>3 DEF FillsOf, Written
<1> QED
    BY <1>1, <1>4 DEF RingBuilt

-----------------------------------------------------------------------------
NothingHashesToZero == \A l, r : Hash(l, r) # Zero

\* From the root over a row the way of an index ends at its leaf, so rows with
\* the same root are the same.
LEMMA RootOpensRow ==
    ASSUME NothingHashesToZero, NEW f, NEW index \in Indices
    PROVE  LeafAt(MerkleRoot(f), index) = f[index]
<1>1. ASSUME NEW l \in 1..DEPTH, NEW i \in Row(l)
      PROVE  Nodes(f)[l][i] # Zero
    <2>1. l - 1 \in 0..(DEPTH - 1) /\ (l - 1) + 1 = l
        BY ShapeAssumption
    <2>2. Nodes(f)[l][i] = Hash(Nodes(f)[l - 1][2 * i], Nodes(f)[l - 1][2 * i + 1])
        BY <2>1, NodesUnfolded
    <2> QED
        BY <2>2 DEF NothingHashesToZero
<1> QED
    BY <1>1, WayDownEndsAtLeaf
=============================================================================
