------------------------- MODULE IncrementalMerkle -------------------------
(***************************************************************************)
(* The append-only Merkle tree of note commitments, as the functions       *)
(* _insert, _computeRoot and _zeros of ShieldedPoolLogic.sol compute it.   *)
(* Poseidon is collision resistant by assumption, so a hash is the term of *)
(* its arguments: two nodes are equal exactly when they hash the same      *)
(* children.                                                               *)
(*                                                                         *)
(* MerkleRoot is the reference definition the incremental one is checked   *)
(* against, and Opens is what the membership path of the circuit proves.   *)
(***************************************************************************)
EXTENDS Integers

CONSTANTS
    DEPTH,      \* levels of the tree below its root
    CAPACITY,   \* leaves of one epoch's tree
    Zero        \* bytes32(0): the empty leaf, and a storage slot never written

ASSUME ShapeAssumption == DEPTH \in Nat \ {0} /\ CAPACITY \in Nat /\ CAPACITY >= 2

Levels == 0..DEPTH

\* 1 << level
PowerOf2[level \in Levels] == IF level = 0 THEN 1 ELSE 2 * PowerOf2[level - 1]

ASSUME CapacityAssumption == CAPACITY = PowerOf2[DEPTH]

Indices == 0..(CAPACITY - 1)

Hash(l, r) == [left |-> l, right |-> r]

\* idx >> level: the place, in its level of the tree, of the node above a leaf.
Place(index, level) == index \div PowerOf2[level]

Bit(index, level) == Place(index, level) % 2

zeros[level \in Levels] ==
    IF level = 0 THEN Zero ELSE Hash(zeros[level - 1], zeros[level - 1])

EMPTY_ROOT == zeros[DEPTH]

\* Mutant: hashes the carried subtree with its left sibling on the wrong side.
InsertLeaf_Swapped(filled, index, cm) ==
    LET node[level \in Levels] ==
            IF level = 0 THEN cm ELSE Hash(node[level - 1], filled[level - 1])
        rest == CHOOSE level \in Levels :
                    /\ Bit(index, level) = 0
                    /\ \A below \in 0..(level - 1) : Bit(index, below) = 1
    IN  [filled EXCEPT ![rest] = node[rest]]

(***************************************************************************)
(* _insert: the new leaf is hashed with the left subtrees waiting on the   *)
(* trailing one bits of its index; the result waits at the first zero bit. *)
(***************************************************************************)
InsertLeaf(filled, index, cm) ==
    LET node[level \in Levels] ==
            IF level = 0 THEN cm ELSE Hash(filled[level - 1], node[level - 1])
        rest == CHOOSE level \in Levels :
                    /\ Bit(index, level) = 0
                    /\ \A below \in 0..(level - 1) : Bit(index, below) = 1
    IN  [filled EXCEPT ![rest] = node[rest]]

\* Mutant: forgets that a full tree has no next leaf to start from.
ComputeRoot_NoFullCase(filled, next) ==
    LET node[level \in Levels] ==
            IF level = 0 THEN Zero
            ELSE IF Bit(next, level - 1) = 0
                 THEN Hash(node[level - 1], zeros[level - 1])
                 ELSE Hash(filled[level - 1], node[level - 1])
    IN  node[DEPTH]

\* _computeRoot: the path of the next free index, padded with empty subtrees.
ComputeRoot(filled, next) ==
    LET node[level \in Levels] ==
            IF level = 0 THEN Zero
            ELSE IF Bit(next, level - 1) = 0
                 THEN Hash(node[level - 1], zeros[level - 1])
                 ELSE Hash(filled[level - 1], node[level - 1])
    IN  IF next = CAPACITY THEN filled[DEPTH] ELSE node[DEPTH]

(***************************************************************************)
(* Reference: the root of the complete tree over a leaf for every index,   *)
(* and the leaf that the path of an index leads to below a given root.     *)
(***************************************************************************)
MerkleRoot(leafAt) ==
    LET node[level \in Levels] ==
            IF level = 0 THEN leafAt
            ELSE [i \in 0..(PowerOf2[DEPTH - level] - 1) |->
                     Hash(node[level - 1][2 * i], node[level - 1][2 * i + 1])]
    IN  node[DEPTH][0]

\* Nothing hashes to the zero word, so there is no way on below it.
Child(node, bit) ==
    IF node = Zero THEN Zero ELSE IF bit = 0 THEN node.left ELSE node.right

LeafAt(root, index) ==
    LET node[level \in Levels] ==
            IF level = 0 THEN root ELSE Child(node[level - 1], Bit(index, DEPTH - level))
    IN  node[DEPTH]

\* Some authentication path proves that cm is a leaf of the tree under root.
Opens(root, cm) == \E index \in Indices : LeafAt(root, index) = cm
=============================================================================
