----------------------------- MODULE SmokeFixture -----------------------------
(***************************************************************************)
(* wallet/gen_smoke.py: from three amounts of the command line it proves   *)
(* Alice's transfer to Bob and Bob's withdrawal, checks that the circuit   *)
(* refuses seven forged variants of their witnesses, and writes the        *)
(* fixture that deployments and contract tests settle.                     *)
(***************************************************************************)
EXTENDS WalletWitness

CONSTANTS
    Wei,        \* amounts tried as overrides
    Recipient   \* of the withdrawal

\* A fixture has three leaves; Poseidon makes none of the reserved inners.
ASSUME SmokeAssumption ==
    /\ Wei \subseteq Nat
    /\ CAPACITY >= 3
    /\ Recipient # NoAddress /\ NoIndex \notin Indices
    /\ NoAddress \notin {"signer1", "signer2", "signer3", "signer4"}
    /\ \A owner \in {"b", "a2", "new1", "new2", "dup"} :
           Inner(owner, owner) \notin {SinkInner0, SinkInner1}

VARIABLES
    progress,  \* what the generator did last
    wei     \* shield, payment and fee

smokeVars == <<progress, wei>>

\* new_note, new_authorizer: the secrets and signers carry the name of their use.
Note(owner, value) == [spendKey |-> owner, rho |-> owner, value |-> value]

At(note, index) ==
    [spendKey |-> note.spendKey, rho |-> note.rho, value |-> note.value, index |-> index]

Dummy(use) == At(Note(use, 0), NoIndex)

Output(owner, value) == [inner |-> Inner(owner, owner), value |-> value]

Sinks == <<[inner |-> SinkInner0, value |-> 0], [inner |-> SinkInner1, value |-> 0]>>

NoteA(v) == Note("a", v.shield)
NoteB(v) == Note("b", v.payment)

-----------------------------------------------------------------------------
\* A spend: the arguments of build_witness, and the leaves it is proved against.
TransferSpend(v) ==
    [cms |-> <<InputCommitment(NoteA(v))>>,
     inputs |-> <<At(NoteA(v), 0), Dummy("dummy1")>>,
     outputs |-> <<Output("b", v.payment), Output("a2", v.shield - v.payment - v.fee)>>,
     publicAmount |-> 0, fee |-> v.fee, recipient |-> NoAddress, authorizer |-> "signer1"]

WithdrawalSpend(v) ==
    LET transfer == TransferSpend(v)
    IN  [cms |-> <<transfer.cms[1], OutputCommitment(transfer.outputs[1]),
                   OutputCommitment(transfer.outputs[2])>>,
         inputs |-> <<At(NoteB(v), 1), Dummy("dummy2")>>,
         outputs |-> Sinks,
         publicAmount |-> v.payment - v.fee, fee |-> v.fee,
         recipient |-> Recipient, authorizer |-> "signer2"]

Publics(spend) ==
    WalletPublics(spend.cms, spend.inputs, spend.outputs, spend.publicAmount, spend.fee,
                  spend.recipient, spend.authorizer)

Asserts(spend) ==
    WitnessAsserts(spend.inputs, spend.outputs, spend.publicAmount, spend.fee, spend.authorizer)

Proves(spend) == Provable(BuildWitness(spend.cms, spend.inputs, spend.outputs), Publics(spend))

-----------------------------------------------------------------------------
\* The forged witnesses, and the constraint that each is to be refused by.
SameNote(v) ==
    [TransferSpend(v) EXCEPT !.inputs = <<At(NoteA(v), 0), At(NoteA(v), 0)>>,
                          !.outputs = <<Output("new1", v.shield), Output("new2", v.shield)>>,
                          !.fee = 0, !.authorizer = "signer3"]

\* Mutant: half of an odd amount is rounded.
Halves_Rounded(v) == TRUE

Halves(v) == 2 * ((v.shield - v.fee) \div 2) + v.fee = v.shield

DuplicateOutputs(v) ==
    LET half == (v.shield - v.fee) \div 2
    IN  [TransferSpend(v) EXCEPT !.outputs = <<Output("dup", half), Output("dup", half)>>,
                              !.authorizer = "signer4"]

NoReal(v) ==
    [TransferSpend(v) EXCEPT !.inputs[1].value = 0, !.outputs = Sinks, !.fee = 0]

WrongSinks(v) == [WithdrawalSpend(v) EXCEPT !.outputs = <<Sinks[2], Sinks[1]>>]

ZeroAuthorizer(v) == [TransferSpend(v) EXCEPT !.authorizer = NoAddress]

PositiveSink(v) == [TransferSpend(v) EXCEPT !.outputs[1].inner = SinkInner0]

MissingRecipient(v) == [WithdrawalSpend(v) EXCEPT !.recipient = NoAddress]

Forged(v) ==
    {[constraint |-> "nullifiers", spend |-> SameNote(v)],
     [constraint |-> "realInput", spend |-> NoReal(v)],
     [constraint |-> "sinks", spend |-> WrongSinks(v)],
     [constraint |-> "authorizer", spend |-> ZeroAuthorizer(v)],
     [constraint |-> "reserved", spend |-> PositiveSink(v)],
     [constraint |-> "recipient", spend |-> MissingRecipient(v)]}
    \cup {[constraint |-> "outputs", spend |-> spend] :
              spend \in IF Halves(v) THEN {DuplicateOutputs(v)} ELSE {}}

-----------------------------------------------------------------------------
SmokeInit == progress = "idle" /\ wei = [shield |-> 0, payment |-> 0, fee |-> 0]

\* "value overrides require 0 < fee < payment < shield"
Override(v) ==
    /\ progress = "idle"
    /\ wei' = v
    /\ progress' = IF 0 < v.fee /\ v.fee < v.payment /\ v.payment < v.shield
                THEN "values" ELSE "refused"

Prove(spend, before, after) ==
    /\ progress = before
    /\ progress' = IF Asserts(spend) /\ Proves(spend) THEN after ELSE "failed"
    /\ UNCHANGED wei

Transfer == Prove(TransferSpend(wei), "values", "transferred")
Withdraw == Prove(WithdrawalSpend(wei), "transferred", "withdrawn")

\* assert_unprovable of each; only the first of them is built with asserts.
Review ==
    /\ progress = "withdrawn"
    /\ progress' = IF ~Asserts(SameNote(wei)) THEN "failed"
                ELSE IF \E forged \in Forged(wei) : Proves(forged.spend)
                     THEN "unsound" ELSE "written"
    /\ UNCHANGED wei

SmokeNext ==
    \/ \E shield, payment, fee \in Wei :
           Override([shield |-> shield, payment |-> payment, fee |-> fee])
    \/ Transfer \/ Withdraw \/ Review

SmokeSpec == SmokeInit /\ [][SmokeNext]_smokeVars

-----------------------------------------------------------------------------
\* Which constraints of the circuit a spend violates.
Violated(spend) ==
    LET s == Publics(spend)
        sum == spend.inputs[1].value + spend.inputs[2].value
        holds == [nullifiers |-> s.nf1 # s.nf2,
                  outputs |-> s.outCm1 # s.outCm2,
                  realInput |-> sum # 0,
                  sinks |-> \A k \in 1..2 :
                      spend.outputs[k].value = 0 => spend.outputs[k].inner = Sinks[k].inner,
                  reserved |-> \A k \in 1..2 :
                      spend.outputs[k].value > 0 =>
                          spend.outputs[k].inner \notin {SinkInner0, SinkInner1},
                  authorizer |-> s.authorizer # NoAddress,
                  recipient |-> s.publicAmount = 0 <=> s.recipient = NoAddress,
                  values |-> /\ \A k \in 1..2 : InRange(spend.inputs[k].value)
                                                /\ InRange(spend.outputs[k].value)
                             /\ InRange(s.publicAmount) /\ InRange(s.fee)
                             /\ sum = spend.outputs[1].value + spend.outputs[2].value
                                      + s.publicAmount + s.fee,
                  membership |-> \A k \in 1..2 : Member(s.root, spend.inputs[k])]
    IN  {name \in DOMAIN holds : ~holds[name]}

(***************************************************************************)
(* gen_smoke.py:178-223: each forged witness is refused, and for its own   *)
(* constraint alone: with any other defect the check would pass whether or *)
(* not the circuit had the constraint.                                     *)
(***************************************************************************)
ForgeriesTestOneConstraint ==
    /\ progress # "unsound"
    /\ progress = "written" =>
           \A forged \in Forged(wei) : Violated(forged.spend) = {forged.constraint}

\* The left subtrees that the pool holds after these insertions.
PoolAfter(cms) ==
    LET filled[n \in 0..Len(cms)] ==
            IF n = 0 THEN [level \in Levels |-> Zero]
            ELSE InsertLeaf(filled[n - 1], n - 1, cms[n])
    IN  filled[Len(cms)]

(***************************************************************************)
(* gen_smoke.py:145-174: the two spends of a fixture can follow each       *)
(* other in a pool it is used in first, whatever the amounts: each is      *)
(* proved against the root the pool has by then, all four nullifiers       *)
(* differ, and every output is a new leaf.  Amounts that pass the check    *)
(* make no fixture only if they leave no change or are no note's value.    *)
(***************************************************************************)
FixtureSettles ==
    LET transfer == TransferSpend(wei)
        withdrawal == WithdrawalSpend(wei)
        t == Publics(transfer)
        w == Publics(withdrawal)
    IN  /\ progress = "failed" =>
               wei.payment + wei.fee >= wei.shield \/ wei.shield >= MAX_VALUE
        /\ progress = "written" =>
               /\ \A spend \in {transfer, withdrawal} :
                      Publics(spend).root = ComputeRoot(PoolAfter(spend.cms), Len(spend.cms))
               /\ \A nf \in {t.nf1, t.nf2} : nf \notin {w.nf1, w.nf2}
               /\ \A i, j \in 1..3 : i # j => withdrawal.cms[i] # withdrawal.cms[j]
               /\ \A i \in 1..3 : withdrawal.cms[i] \notin {SINK_0, SINK_1}
=============================================================================
