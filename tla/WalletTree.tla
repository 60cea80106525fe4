------------------------------ MODULE WalletTree ------------------------------
(***************************************************************************)
(* The class Tree of wallet/wallet.py: the tree an indexer rebuilds from a *)
(* list of commitments.  It keeps only the nodes above the list and pads   *)
(* an odd end with the empty subtree of that level, while the contract     *)
(* keeps one left subtree per level (IncrementalMerkle).                   *)
(***************************************************************************)
EXTENDS IncrementalMerkle, Sequences

\* _levels
TreeLevels(cms) ==
    LET level[d \in Levels] ==
            IF d = 0 THEN (IF cms = <<>> THEN <<zeros[0]>> ELSE cms)
            ELSE LET below == level[d - 1]
                 IN  [i \in 1..((Len(below) + 1) \div 2) |->
                         Hash(below[2 * i - 1],
                              IF 2 * i <= Len(below) THEN below[2 * i] ELSE zeros[d - 1])]
    IN  level

TreeRoot(cms) == TreeLevels(cms)[DEPTH][1]

\* idx ^ 1
Sibling(node) == IF node % 2 = 0 THEN node + 1 ELSE node - 1

\* Mutant: a missing sibling is the empty leaf, whatever its level.
AuthPath_LeafPadding(cms, index) ==
    [d \in 0..(DEPTH - 1) |->
        LET row == TreeLevels(cms)[d]
            sib == Sibling(Place(index, d))
        IN  [sibling |-> IF sib < Len(row) THEN row[sib + 1] ELSE Zero,
             bit |-> Bit(index, d)]]

\* auth_path: for each level below the root, the sibling and the side it is on.
AuthPath(cms, index) ==
    [d \in 0..(DEPTH - 1) |->
        LET row == TreeLevels(cms)[d]
            sib == Sibling(Place(index, d))
        IN  [sibling |-> IF sib < Len(row) THEN row[sib + 1] ELSE zeros[d],
             bit |-> Bit(index, d)]]

\* The root that a path leads to from a leaf.
PathRoot(cm, path) ==
    LET node[d \in Levels] ==
            IF d = 0 THEN cm
            ELSE IF path[d - 1].bit = 0
                 THEN Hash(node[d - 1], path[d - 1].sibling)
                 ELSE Hash(path[d - 1].sibling, node[d - 1])
    IN  node[DEPTH]
=============================================================================
