----------------------------- MODULE GasProfile -----------------------------
(***************************************************************************)
(* The settlement bound of tooling/check_gas_profile.py.  The dispatcher   *)
(* fixes the gas of the SENDER frame in its bytecode, so a settlement that *)
(* needs more reverts for ever, after its approval.  The script bounds the *)
(* cost by a measured run plus a charge per storage write and per storage  *)
(* slot made; the two counts it multiplies with were taken by hand.  Here  *)
(* they are counted on every settlement a proof can bring about.           *)
(***************************************************************************)
EXTENDS ShieldedPoolCalls

SETTLE_FRAME_GAS == 2000000
LOCAL_WORST_SETTLEMENT_GAS == 832626
EIP_8038_COLD_WRITE_GAS == 12100
EIP_8037_NEW_SLOT_STATE_GAS == 64 * 1530
MAX_NEW_STORAGE_SLOTS == 5

\* The script's 33 at the deployed depth: a rollover clears one slot per level.
MAX_SSTORE_OPERATIONS(depth) == 13 + depth

CONSERVATIVE_SETTLEMENT_BOUND(depth) ==
    LOCAL_WORST_SETTLEMENT_GAS
        + MAX_SSTORE_OPERATIONS(depth) * EIP_8038_COLD_WRITE_GAS
        + MAX_NEW_STORAGE_SLOTS * EIP_8037_NEW_SLOT_STATE_GAS

\* What the script asserts before it prints its report.
ASSUME BoundCovers == CONSERVATIVE_SETTLEMENT_BOUND(20) < SETTLE_FRAME_GAS

-----------------------------------------------------------------------------
\* Mutant: proofs of dummies alone are accepted, as without noRealInput.
SpendsValue_Dummies == TRUE

\* A proof consumes private value, so some note was deposited before.
SpendsValue == leaves # {}

\* A step that is a settlement: deposits and claims move native currency.
Settles ==
    /\ balance' = balance
    /\ leaves' # leaves \/ withdrawalCredit' # withdrawalCredit

-----------------------------------------------------------------------------
(***************************************************************************)
(* Storage writes of a settlement: a rollover writes finalRoot,            *)
(* currentEpoch, nextIndex, currentRoot and every subtree, an insertion    *)
(* writes nextIndex, isLeaf and one subtree, and the root is written once. *)
(***************************************************************************)
Writes ==
    LET count == Cardinality(leaves' \ leaves)
    IN  (IF currentEpoch' # currentEpoch THEN 4 + Cardinality(Levels) ELSE 0)
            + 3 * count
            + (IF count > 0 THEN 1 ELSE 0)
            + (IF withdrawalCredit' # withdrawalCredit THEN 1 ELSE 0)

\* Storage slots that hold a value, each by its variable and its key.
Occupied ==
    {<<"filledSubtrees", level>> : level \in {l \in Levels : filledSubtrees[l] # Zero}}
        \cup {<<"isLeaf", cm>> : cm \in isLeaf}
        \cup {<<"withdrawalCredit", who>> : who \in {w \in Accounts : withdrawalCredit[w] # 0}}
        \cup {<<"finalRoot", epoch>> : epoch \in {e \in Epochs : finalRoot[e] # Zero}}
        \cup (IF nextIndex = 0 THEN {} ELSE {<<"nextIndex">>})
        \cup (IF currentEpoch = 0 THEN {} ELSE {<<"currentEpoch">>})

SlotsMade == Cardinality(Occupied' \ Occupied)

(***************************************************************************)
(* No settlement writes more often, or makes more storage slots, than the  *)
(* counts behind the frozen gas limit (check_gas_profile.py:19-23 says 33  *)
(* and five), whatever shields, rollovers and claims came before it.  The  *)
(* subtree slots are why it is not obvious: a settlement that rolls an     *)
(* epoch must find them occupied, and one that does not may make one.      *)
(***************************************************************************)
WithinProfile ==
    (Settles /\ SpendsValue) =>
        /\ Writes <= MAX_SSTORE_OPERATIONS(DEPTH)
        /\ SlotsMade <= MAX_NEW_STORAGE_SLOTS

SettlesWithinProfile == [][WithinProfile]_logicVars
=============================================================================
