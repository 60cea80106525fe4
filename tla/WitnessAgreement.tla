--------------------------- MODULE WitnessAgreement ---------------------------
(***************************************************************************)
(* What build_witness asserts compared with what the circuit accepts, over *)
(* amounts from the whole field, so that sums may wrap in it.  The fee is  *)
(* what balances the other amounts in the field.                           *)
(***************************************************************************)
EXTENDS WalletWitness

CONSTANTS
    Leaves,           \* the notes in the tree, in the order of their leaves
    Secrets, Places,  \* randomness and indices of the inputs
    Amounts,          \* field elements used as amounts
    PayeeInners,      \* inners of outputs
    Payee, Authorizer

ASSUME WitnessAssumption ==
    /\ Len(Leaves) \in 1..CAPACITY
    /\ Amounts \subseteq 0..(FieldOrder - 1)
    /\ Places \subseteq 0..(Len(Leaves) - 1) /\ NoIndex \notin Places
    /\ Payee # NoAddress

VARIABLES inValues, outValues, publicAmount

witnessVars == <<inValues, outValues, publicAmount>>

Tree == [i \in 1..Len(Leaves) |-> InputCommitment(Leaves[i])]

WitnessInit == inValues = <<0, 0>> /\ outValues = <<0, 0>> /\ publicAmount = 0

ChooseInputs(first, second) ==
    inValues' = <<first, second>> /\ UNCHANGED <<outValues, publicAmount>>

ChooseOutputs(first, second) ==
    outValues' = <<first, second>> /\ UNCHANGED <<inValues, publicAmount>>

ChoosePublic(amount) ==
    publicAmount' = amount /\ UNCHANGED <<inValues, outValues>>

WitnessNext ==
    \/ \E first, second \in Amounts : ChooseInputs(first, second) \/ ChooseOutputs(first, second)
    \/ \E amount \in Amounts : ChoosePublic(amount)

WitnessSpec == WitnessInit /\ [][WitnessNext]_witnessVars

Balancing ==
    (inValues[1] + inValues[2] - outValues[1] - outValues[2] - publicAmount) % FieldOrder

InputsOf(value) ==
    {[spendKey |-> Leaves[1].spendKey, rho |-> rho, value |-> value, index |-> index] :
        rho \in Secrets, index \in {NoIndex} \cup Places}

OutputsOf(value) == {[inner |-> inner, value |-> value] : inner \in PayeeInners}

\* The input is the leaf at its index.
InPlace(input) == input.value = 0 \/ Tree[input.index + 1] = InputCommitment(input)

(***************************************************************************)
(* wallet.py:174-191: what build_witness asserts in integers is what the   *)
(* circuit accepts in the field.  A witness that it builds of two notes in *)
(* their places is provable on the paths it gives, and whatever is         *)
(* provable passes its asserts: no sum that wraps, no amount beyond 128    *)
(* bits, no zero output outside its sink is accepted by the circuit alone. *)
(***************************************************************************)
AssertsAreTheCircuit ==
    \A first \in InputsOf(inValues[1]), second \in InputsOf(inValues[2]) :
        \A one \in OutputsOf(outValues[1]), two \in OutputsOf(outValues[2]) :
            \A authorizer \in {NoAddress, Authorizer} :
                LET inputs == <<first, second>>
                    outputs == <<one, two>>
                    s == WalletPublics(Tree, inputs, outputs, publicAmount, Balancing,
                             IF publicAmount = 0 THEN NoAddress ELSE Payee, authorizer)
                    asserts == WitnessAsserts(inputs, outputs, publicAmount, Balancing, authorizer)
                IN  /\ (asserts /\ InPlace(first) /\ InPlace(second)
                            /\ InputCommitment(first) # InputCommitment(second))
                        => Provable(BuildWitness(Tree, inputs, outputs), s)
                    /\ (CircuitAccepts([inputs |-> inputs, outputs |-> outputs], s)
                            /\ \A k \in 1..2 : inputs[k].value > 0 => inputs[k].index # NoIndex)
                        => asserts
=============================================================================
