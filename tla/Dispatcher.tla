----------------------------- MODULE Dispatcher -----------------------------
(***************************************************************************)
(* The validation path of devnet/ShieldedPoolDispatcher.yul: what the      *)
(* pool's VERIFY frame demands of a frame transaction before it approves   *)
(* execution and payment.                                                  *)
(*                                                                         *)
(* A transaction is a record of the fields of FrameTx in                   *)
(* devnet/frametx.py.  Frame data is a record: [length, proof] for the     *)
(* VERIFY frame, where proof is a witness, and [length, selector, spend]   *)
(* for the SENDER frame.  EIP-8250 requires strictly increasing nonce      *)
(* keys, so they are a set.                                                *)
(***************************************************************************)
EXTENDS SpendCircuit, Sequences, FiniteSets

CONSTANT NotAProof  \* eight words that are no valid proof of anything

VERIFY_FRAME_GAS == 320000
SETTLE_FRAME_GAS == 2000000

\* keccak256(pool || epoch) is injective, so a source is its epoch.
sourceId(epoch) == epoch

\* verifyProof
VerifyProof(tx) ==
    LET s == tx.frames[2].data.spend
        proof == tx.frames[1].data.proof
    IN  /\ s.nf1 # Zero /\ s.nf2 # Zero
        /\ s.authorizer # NoAddress
        /\ s.publicAmount = 0 <=> s.recipient = NoAddress
        /\ s.domain = PoolDomain
        /\ \A word \in {s.root, s.domain, s.nf1, s.nf2, s.outCm1, s.outCm2} : Canonical(word)
        /\ s.publicAmount < MAX_VALUE /\ s.fee < MAX_VALUE
        /\ proof # NotAProof
        /\ CircuitAccepts(proof, s)

\* One immutable two-frame grammar, paid for by the pool.
Shape(tx) ==
    /\ tx.sender = Pool
    /\ Len(tx.frames) = 2
    /\ Len(tx.signatures) = 1
    /\ tx.blobs = 0
    /\ tx.nonceSeq = 0
    /\ Len(tx.refs) = 1

VerifyFrame(frame) ==
    /\ frame.target = Pool /\ frame.gas = VERIFY_FRAME_GAS
    /\ frame.mode = 1 /\ frame.flags = 3
    /\ frame.data.length = 256 /\ frame.value = 0

\* Mutant: the gas of the SENDER frame is left to the transaction.
SettleFrame_AnyGas(frame) ==
    /\ frame.target = Pool
    /\ frame.mode = 2 /\ frame.flags = 0
    /\ frame.data.length = 388 /\ frame.value = 0
    /\ frame.data.selector = "settle"

SettleFrame(frame) ==
    /\ frame.target = Pool /\ frame.gas = SETTLE_FRAME_GAS
    /\ frame.mode = 2 /\ frame.flags = 0
    /\ frame.data.length = 388 /\ frame.value = 0
    /\ frame.data.selector = "settle"

\* Mutant: a signature over any message of its own is good enough.
Authorized_AnyMsg(signature, s) ==
    /\ s.authorizer # NoAddress
    /\ signature.signer = s.authorizer
    /\ signature.scheme = 1 /\ signature.length = 65

\* The proof-selected one-time key signs the canonical transaction hash.
Authorized(signature, s) ==
    /\ s.authorizer # NoAddress
    /\ signature.signer = s.authorizer
    /\ signature.scheme = 1 /\ signature.msg = <<>> /\ signature.length = 65

\* Mutant: counts the keys without comparing them.
KeysBound_CountOnly(tx, s) == Cardinality(tx.nonceKeys) = 2

\* The consumed keys are exactly the two nullifiers.
KeysBound(tx, s) ==
    /\ tx.nonceKeys = {s.nf1, s.nf2}
    /\ Cardinality(tx.nonceKeys) = 2

RootBound(tx, s) ==
    tx.refs[1] = [source |-> sourceId(s.epoch), slot |-> s.rootSlot, root |-> s.root]

\* Mutant: any debit will do.
FeeCovers_AnyFee(tx, s) == s.fee >= 0

\* The note debit covers all the pool can be charged for the transaction.
FeeCovers(tx, s) == s.fee >= tx.maxCost

\* verifyFrameApprove
Approves(tx) ==
    LET s == tx.frames[2].data.spend
    IN  /\ Shape(tx)
        /\ Authorized(tx.signatures[1], s)
        /\ VerifyFrame(tx.frames[1])
        /\ SettleFrame(tx.frames[2])
        /\ KeysBound(tx, s)
        /\ RootBound(tx, s)
        /\ VerifyProof(tx)
        /\ FeeCovers(tx, s)
=============================================================================
