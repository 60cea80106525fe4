---------------------------- MODULE SpendCircuit ----------------------------
(***************************************************************************)
(* The statement of circuits/spend.circom: which private inputs satisfy    *)
(* the constraints for which public signals.  Groth16 is sound by          *)
(* assumption, so a proof is a witness and the verifier accepts it exactly *)
(* when CircuitAccepts holds.                                              *)
(*                                                                         *)
(* A witness is a record [inputs, outputs] of two input notes              *)
(* [spendKey, rho, value] and two output notes [inner, value].  Siblings   *)
(* and path bits are private, so only their existence matters (Opens).     *)
(* The public signals are the fields of the settlement the proof is for.   *)
(***************************************************************************)
EXTENDS IncrementalMerkle, Notes

CONSTANT FieldOrder  \* the order of the scalar field of BN254

ASSUME FieldAssumption == FieldOrder \in Nat /\ FieldOrder > 4 * MAX_VALUE

InputCommitment(note) == Commit(Inner(note.spendKey, note.rho), note.value)

InputNullifier(domain, note) == Nullifier(domain, note.spendKey, InputCommitment(note))

OutputCommitment(note) == Commit(note.inner, note.value)

\* Mutant: the opening is computed and never constrained.
Member_Unconstrained(root, note) == TRUE

\* (cur[DEPTH] - root) * value === 0
Member(root, note) == note.value = 0 \/ Opens(root, InputCommitment(note))

\* A zero output uses its positional sink inner, and only a zero output does.
OutputRules(outputs) ==
    /\ outputs[1].value = 0 => outputs[1].inner = SinkInner0
    /\ outputs[2].value = 0 => outputs[2].inner = SinkInner1
    /\ \A k \in 1..2 :
           outputs[k].inner \in {SinkInner0, SinkInner1} => outputs[k].value = 0

\* Mutant: the amounts are not decomposed into bits.
InRange_AnyElement(value) == value \in 0..(FieldOrder - 1)

\* Num2Bits(128)
InRange(value) == value \in 0..(MAX_VALUE - 1)

Conserved(w, s) ==
    /\ \A k \in 1..2 : InRange(w.inputs[k].value) /\ InRange(w.outputs[k].value)
    /\ InRange(s.publicAmount) /\ InRange(s.fee)
    /\ (w.inputs[1].value + w.inputs[2].value) % FieldOrder =
       (w.outputs[1].value + w.outputs[2].value + s.publicAmount + s.fee) % FieldOrder
    /\ (w.inputs[1].value + w.inputs[2].value) % FieldOrder # 0

CircuitAccepts(w, s) ==
    /\ \A k \in 1..2 : Member(s.root, w.inputs[k])
    /\ OutputRules(w.outputs)
    /\ Conserved(w, s)
    /\ s.authorizer # NoAddress
    /\ s.publicAmount = 0 <=> s.recipient = NoAddress
    /\ s.nf1 = InputNullifier(s.domain, w.inputs[1])
    /\ s.nf2 = InputNullifier(s.domain, w.inputs[2])
    /\ s.nf1 # s.nf2
    /\ s.outCm1 = OutputCommitment(w.outputs[1])
    /\ s.outCm2 = OutputCommitment(w.outputs[2])
    /\ s.outCm1 # s.outCm2
=============================================================================
