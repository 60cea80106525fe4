------------------------- MODULE ShieldedPoolCalls -------------------------
(***************************************************************************)
(* ShieldedPoolLogic under arbitrary callers: every external function may  *)
(* be called at any time by anyone with any argument offered, settlements  *)
(* included, so the tree must keep its promises without relying on what    *)
(* the proof or the dispatcher check.                                      *)
(***************************************************************************)
EXTENDS ShieldedPoolLogic, FiniteSets

CONSTANTS
    Inners,   \* words offered to shield
    Values,   \* amounts of native currency sent along
    Senders,  \* values of msg.sender seen by settle
    Spends    \* settlements offered

ASSUME CallsAssumption ==
    /\ Values \subseteq Nat
    /\ \A s \in Spends : s.publicAmount \in Nat

LogicNext ==
    \/ \E inner \in Inners, value \in Values : Shield(inner, value)
    \/ \E sender \in Senders, s \in Spends : Settle(sender, s)
    \/ \E epoch \in Epochs : PublishEpochRoot(epoch)
    \/ \E who \in Accounts : ClaimWithdrawal(who)
    \/ Tick

LogicSpec == LogicInit /\ [][LogicNext]_logicVars

-----------------------------------------------------------------------------
\* The shape of the contract's storage, of its events and of the predeploy.
LogicTypeOK ==
    /\ DOMAIN filledSubtrees = Levels
    /\ nextIndex \in 0..CAPACITY
    /\ withdrawalCredit \in [Accounts -> Nat]
    /\ currentEpoch \in Epochs
    /\ DOMAIN finalRoot = Epochs
    /\ balance \in Nat
    /\ leaves \subseteq LeafEvent(isLeaf)
    /\ slot \in 0..MaxSlot

-----------------------------------------------------------------------------
(***************************************************************************)
(* Every root the predeploy holds for the source of an epoch was the root  *)
(* of that epoch at some time, and a later publication commits to no fewer *)
(* leaves than an earlier one.                                             *)
(***************************************************************************)
RingAuthentic ==
    \A source \in Sources :
        LET published == {ring[source][i] : i \in Entries} \ {NoEntry}
            roots == [n \in 0..CAPACITY |-> PrefixRoot(source, n)]
            Fills(entry) == {n \in 0..CAPACITY : entry.root = roots[n]}
        IN  /\ published # {} => source <= currentEpoch
            /\ \A entry \in published : Fills(entry) # {}
            /\ \A a, b \in published : a.slot < b.slot =>
                   \E n \in Fills(a), m \in Fills(b) : n <= m

(***************************************************************************)
(* A closed epoch is closed for good: neither its root nor its leaves ever *)
(* change, and no epoch is reopened.                                       *)
(***************************************************************************)
KeepsClosedEpochs ==
    /\ currentEpoch' >= currentEpoch
    /\ \A epoch \in 0..(currentEpoch - 1) :
           /\ finalRoot'[epoch] = finalRoot[epoch]
           /\ LeavesOf(epoch)' = LeavesOf(epoch)

ClosedEpochsFixed == [][KeepsClosedEpochs]_logicVars

(***************************************************************************)
(* An epoch is closed only by a call that appends leaves for which it has  *)
(* no room: at most one place is wasted, and an exit that creates no note  *)
(* goes through a full tree without touching it.                           *)
(***************************************************************************)
RollsForLeaves ==
    currentEpoch' # currentEpoch =>
        /\ leaves' # leaves
        /\ nextIndex >= CAPACITY - 1
        /\ nextIndex + Cardinality(leaves' \ leaves) > CAPACITY

RollOnlyForLeaves == [][RollsForLeaves]_logicVars
=============================================================================
