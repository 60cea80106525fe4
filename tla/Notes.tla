------------------------------- MODULE Notes -------------------------------
(***************************************************************************)
(* Value-carrying notes, as circuits/spend.circom and wallet/wallet.py     *)
(* define them.  Poseidon is collision resistant by assumption, so every   *)
(* digest is the record of what it digests; a word that no digest equals   *)
(* (the reserved inners, the zero word) is a model value.  The words and   *)
(* addresses that the circuit and the contracts share are declared here.   *)
(***************************************************************************)
EXTENDS Integers

CONSTANTS
    MAX_VALUE,     \* amounts are below it: 2^128 in the code
    SinkInner0,    \* the reserved inner of the first zero output
    SinkInner1,    \* the reserved inner of the second zero output
    NonCanonical,  \* words that are not below the field order P
    Pool,          \* the address of the dispatcher, address(this)
    PoolDomain,    \* the nullifier domain of this chain and this pool
    NoAddress      \* address(0)

ASSUME ValueAssumption == MAX_VALUE \in Nat \ {0}
ASSUME SinkAssumption == SinkInner0 # SinkInner1

Canonical(word) == word \notin NonCanonical

\* inner = Poseidon2(owner_pk(spend_key), rho): what a recipient reveals.
Inner(spendKey, rho) == [spendKey |-> spendKey, rho |-> rho]

\* cm = Poseidon3(TAG_LEAF, inner, value)
Commit(inner, value) == [inner |-> inner, value |-> value]

SINK_0 == Commit(SinkInner0, 0)
SINK_1 == Commit(SinkInner1, 0)

\* nf = Poseidon3(TAG_NULL, Poseidon2(domain, spend_key), cm)
Nullifier(domain, spendKey, cm) ==
    [domain |-> domain, spendKey |-> spendKey, cm |-> cm]
=============================================================================
