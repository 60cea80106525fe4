----------------------------- MODULE WalletWitness -----------------------------
(***************************************************************************)
(* build_witness of wallet/wallet.py.  It asserts in integers what the     *)
(* circuit demands in the field, and looks the inputs up in the wallet's   *)
(* own tree.  A real input is a note with the index it is believed to have *)
(* in that tree; a dummy has none.                                         *)
(***************************************************************************)
EXTENDS SpendCircuit, WalletTree

CONSTANT NoIndex  \* None: the index of a dummy

\* A zero output uses its positional sink, and no positive output a sink.
OutputAsserts(outputs) ==
    /\ outputs[1].value = 0 => outputs[1].inner = SinkInner0
    /\ outputs[2].value = 0 => outputs[2].inner = SinkInner1
    /\ \A k \in 1..2 : outputs[k].value > 0 => outputs[k].inner \notin {SinkInner0, SinkInner1}

\* The asserts of build_witness.
WitnessAsserts(inputs, outputs, publicAmount, fee, authorizer) ==
    /\ \E k \in 1..2 : inputs[k].value > 0
    /\ \A k \in 1..2 : inputs[k].index # NoIndex \/ inputs[k].value = 0
    /\ inputs[1].value + inputs[2].value =
           outputs[1].value + outputs[2].value + publicAmount + fee
    /\ \A value \in {publicAmount, fee} \cup {inputs[k].value : k \in 1..2}
                    \cup {outputs[k].value : k \in 1..2} :
           0 <= value /\ value < MAX_VALUE
    /\ authorizer # NoAddress
    /\ OutputAsserts(outputs)
    /\ OutputCommitment(outputs[1]) # OutputCommitment(outputs[2])

\* The witness, with the path of every real input.
BuildWitness(cms, inputs, outputs) ==
    [inputs |-> inputs, outputs |-> outputs,
     paths |-> [k \in 1..2 |->
                   IF inputs[k].index = NoIndex THEN NoIndex
                   ELSE AuthPath(cms, inputs[k].index)]]

\* spend_entry: the public signals that the wallet computes itself.
WalletPublics(cms, inputs, outputs, publicAmount, fee, recipient, authorizer) ==
    [root |-> TreeRoot(cms), domain |-> PoolDomain,
     nf1 |-> InputNullifier(PoolDomain, inputs[1]),
     nf2 |-> InputNullifier(PoolDomain, inputs[2]),
     outCm1 |-> OutputCommitment(outputs[1]), outCm2 |-> OutputCommitment(outputs[2]),
     publicAmount |-> publicAmount, fee |-> fee,
     recipient |-> recipient, authorizer |-> authorizer]

\* prove: witness generation succeeds on these paths, and the proof verifies.
Provable(witness, s) ==
    /\ \A k \in 1..2 :
           witness.inputs[k].value = 0 \/
           PathRoot(InputCommitment(witness.inputs[k]), witness.paths[k]) = s.root
    /\ CircuitAccepts(witness, s)
=============================================================================
