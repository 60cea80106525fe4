---------------------------- MODULE RecentRoots ----------------------------
(***************************************************************************)
(* The EIP-8272 recent-root predeploy and the consensus slot it is keyed   *)
(* by.  It is not part of the repository; it is modelled from how the      *)
(* pool writes it (publishEpochRoot) and how recent_root_ref of            *)
(* devnet/pool_frametx.py reads it: each source owns RING_LENGTH entries,  *)
(* a write at slot s goes to entry s % RING_LENGTH, and an entry commits   *)
(* to the source, the slot and the root together.                          *)
(***************************************************************************)
EXTENDS Integers

CONSTANTS
    Sources,      \* the source ids that may be written
    RING_LENGTH,  \* entries per source: RECENT_ROOT_LENGTH, 8192 on the network
    NoRoot,       \* stands in an entry never written
    MaxSlot       \* bound of the model: the last consensus slot

ASSUME RingAssumption ==
    /\ RING_LENGTH \in Nat \ {0}
    /\ MaxSlot \in Nat

VARIABLES
    slot,  \* consensus slot of the block being built
    ring   \* ring[source][i]: the entry last written there

rootsVars == <<slot, ring>>

\* An entry never written matches no reference.
NoEntry == [slot |-> -1, root |-> NoRoot]

Entries == 0..(RING_LENGTH - 1)

RootsInit ==
    /\ slot = 0
    /\ ring = [source \in Sources |-> [i \in Entries |-> NoEntry]]

WriteRoot(source, root) ==
    ring' = [ring EXCEPT ![source][slot % RING_LENGTH] =
                [slot |-> slot, root |-> root]]

NextSlot ==
    /\ slot < MaxSlot
    /\ slot' = slot + 1
    /\ UNCHANGED ring

Committed(source, s, root) ==
    /\ source \in Sources
    /\ s \in Nat
    /\ ring[source][s % RING_LENGTH] = [slot |-> s, root |-> root]

\* A reference is to a strictly earlier slot that is still inside the window.
ReferenceValid(source, s, root) ==
    /\ s < slot
    /\ slot - s < RING_LENGTH
    /\ Committed(source, s, root)
=============================================================================
