---------------------------- MODULE ShieldedPool ----------------------------
(***************************************************************************)
(* The whole system: the settlement contract, the dispatcher that approves *)
(* its frame transactions, the protocol that includes them, and wallets    *)
(* that build them.                                                        *)
(*                                                                         *)
(* A spend lives through two moments.  At BuildSpend the wallet proves it  *)
(* against a published root, simulates it at the head and submits it.  At  *)
(* IncludeSpend, later, in any order and with anything in between, a block *)
(* runs it: its VERIFY frame approves, which consumes its nonce keys and   *)
(* charges the pool, and then its SENDER frame settles or reverts.  If it  *)
(* reverts, the keys stay consumed: the notes it spends are burned.        *)
(***************************************************************************)
EXTENDS ShieldedPoolLogic, Dispatcher, Functions

CONSTANTS
    SpendKey,      \* the wallets' spending key
    Rhos,          \* randomness of the inners that may be revealed to payers
    ShieldValues,  \* amounts offered to shield
    Authorizers,   \* fresh one-time signers: each builds at most one spend
    Fees,          \* note debits the wallets choose from
    Flags,         \* command-line overrides in use: "none" and any of OverrideFlags
    OtherKey,      \* a nonce key given with --nonce-keys
    LowGas,        \* a gas limit given with --settle-gas
    HighCost,      \* the max_cost that --max-fee-per-gas leads to
    ReuseInners,   \* may an inner be paid to that was already paid to?
    StatusMissing  \* may the node leave executionStatus out of a simulation?

OverrideFlags == {"nonce-keys", "settle-gas", "max-fee-per-gas"}

ASSUME PoolAssumption ==
    /\ NoAddress \notin Accounts
    /\ IsFiniteSet(Accounts)
    /\ ShieldValues \subseteq Nat
    /\ ReuseInners \in BOOLEAN /\ StatusMissing \in BOOLEAN
    /\ Flags \subseteq OverrideFlags \cup {"none"}
    /\ LowGas \in 0..(SETTLE_FRAME_GAS - 1)
    /\ HighCost \in Nat

VARIABLES
    consumedKeys,  \* EIP-8250: the nonce keys of the pool at sequence 1
    mempool,       \* submitted transactions that are not yet included
    usedSigners,   \* one-time signers that were handed out
    burned,        \* settlements that reverted after their approval
    feesCollected  \* sum of the fees of the settlements that took effect

poolVars == <<logicVars, consumedKeys, mempool, usedSigners, burned, feesCollected>>

SpendOf(tx) == tx.frames[2].data.spend

Init ==
    /\ LogicInit
    /\ consumedKeys = {}
    /\ mempool = {}
    /\ usedSigners = {}
    /\ burned = {}
    /\ feesCollected = 0

-----------------------------------------------------------------------------
\* Admission and inclusion run the same checks (EIP-8141, EIP-8250, EIP-8272).
PrefixValid(tx) ==
    /\ tx.nonceKeys \cap consumedKeys = {}
    /\ \A i \in 1..Len(tx.refs) :
           ReferenceValid(tx.refs[i].source, tx.refs[i].slot, tx.refs[i].root)
    /\ Approves(tx)
    /\ balance >= tx.maxCost

\* ethrex_simulateFrameTransaction at the head: valid, and no revert reported.
SimulatesWell(tx) ==
    PrefixValid(tx) /\ (StatusMissing \/ SettleAccepts(Pool, SpendOf(tx)))

-----------------------------------------------------------------------------
\* A wallet: fixtures, witnesses and the transactions made of them.

InnersInUse ==
    {leaf.cm.inner : leaf \in leaves} \cup
    UNION {{SpendOf(tx).outCm1.inner, SpendOf(tx).outCm2.inner} : tx \in mempool}

\* new_note: an inner drawn at random was never revealed before.
PayableInners ==
    {inner \in {Inner(SpendKey, rho) : rho \in Rhos} :
        ReuseInners \/ inner \notin InnersInUse}

\* Notes a wallet knows the secrets of, whether or not they are leaves yet.
KnownNotes ==
    {[spendKey |-> leaf.cm.inner.spendKey, rho |-> leaf.cm.inner.rho, value |-> leaf.cm.value] :
        leaf \in leaves}
    \cup UNION {{[spendKey |-> note.inner.spendKey, rho |-> note.inner.rho, value |-> note.value] :
                    note \in {tx.frames[1].data.proof.outputs[k] : k \in {i \in 1..2 :
                                  tx.frames[1].data.proof.outputs[i].value > 0}}} :
                tx \in mempool}

\* dummy_input: fabricated secrets, fresh for each spend.
DummyInput(signer) == [spendKey |-> SpendKey, rho |-> signer, value |-> 0]

\* The outputs that build_witness accepts for the value that is left to them.
OutputPairs(total) ==
    {<<[inner |-> i1, value |-> v1], [inner |-> i2, value |-> total - v1]>> :
        i1 \in PayableInners \cup {SinkInner0}, i2 \in PayableInners \cup {SinkInner1},
        v1 \in 0..total}

WellChosen(outputs) ==
    /\ \A k \in 1..2 : outputs[k].value < MAX_VALUE
    /\ outputs[1].value = 0 <=> outputs[1].inner = SinkInner0
    /\ outputs[2].value = 0 <=> outputs[2].inner = SinkInner1
    /\ outputs[1] # outputs[2]
    /\ ReuseInners \/ outputs[1].inner # outputs[2].inner

\* A published root, as recent_root_ref finds it committed and not expired.
ReferenceTo(source, i) ==
    [source |-> source, slot |-> ring[source][i].slot, root |-> ring[source][i].root]

References ==
    {ref \in UNION {{ReferenceTo(source, i) : i \in Entries} : source \in Sources} :
        slot - ref.slot < RING_LENGTH /\ Committed(ref.source, ref.slot, ref.root)}

\* build_and_send: the canonical frame transaction around a proof, whose note
\* debit was chosen to be just the cost it may lead to.
FrameTx(witness, s) ==
    [sender     |-> Pool,
     nonceKeys  |-> {s.nf1, s.nf2},
     nonceSeq   |-> 0,
     frames     |-> <<[mode |-> 1, flags |-> 3, target |-> Pool, gas |-> VERIFY_FRAME_GAS,
                       value |-> 0, data |-> [length |-> 256, proof |-> witness]],
                      [mode |-> 2, flags |-> 0, target |-> Pool, gas |-> SETTLE_FRAME_GAS,
                       value |-> 0,
                       data |-> [length |-> 388, selector |-> "settle", spend |-> s]]>>,
     signatures |-> <<[signer |-> s.authorizer, scheme |-> 1, msg |-> <<>>, length |-> 65]>>,
     blobs      |-> 0,
     refs       |-> <<[source |-> sourceId(s.epoch), slot |-> s.rootSlot, root |-> s.root]>>,
     maxCost    |-> s.fee]

\* The same transaction with an operator's override in it.
Overridden(tx, flag) ==
    CASE flag = "nonce-keys" -> [tx EXCEPT !.nonceKeys = {SpendOf(tx).nf2, OtherKey}]
      [] flag = "settle-gas" -> [tx EXCEPT !.frames[2].gas = LowGas]
      [] flag = "max-fee-per-gas" -> [tx EXCEPT !.maxCost = HighCost]
      [] OTHER -> tx

\* The public signals of a witness, with the reference it is bound to.
SpendFor(inputs, outputs, ref, publicAmount, fee, recipient, signer) ==
    [root |-> ref.root, rootSlot |-> ref.slot, epoch |-> ref.source, domain |-> PoolDomain,
     nf1 |-> InputNullifier(PoolDomain, inputs[1]),
     nf2 |-> InputNullifier(PoolDomain, inputs[2]),
     outCm1 |-> OutputCommitment(outputs[1]), outCm2 |-> OutputCommitment(outputs[2]),
     publicAmount |-> publicAmount, fee |-> fee,
     recipient |-> recipient, authorizer |-> signer]

(***************************************************************************)
(* Prove a spend of one or two known notes against a published root,       *)
(* simulate it, and submit it unless it is invalid or reported to revert.  *)
(***************************************************************************)
BuildSpend(signer, ref, first, second, fee, flag) ==
    LET total == first.value + second.value
    IN  /\ signer \notin usedSigners
        /\ first # second
        /\ Member(ref.root, first) /\ Member(ref.root, second)
        /\ \E publicAmount \in 0..(total - fee), recipient \in Accounts \cup {NoAddress} :
               \E outputs \in OutputPairs(total - fee - publicAmount) :
                   LET inputs == <<first, second>>
                       s == SpendFor(inputs, outputs, ref, publicAmount, fee, recipient, signer)
                       tx == Overridden(
                                 FrameTx([inputs |-> inputs, outputs |-> outputs], s), flag)
                   IN  /\ publicAmount = 0 <=> recipient = NoAddress
                       /\ WellChosen(outputs)
                       /\ SimulatesWell(tx)
                       /\ mempool' = mempool \cup {tx}
        /\ usedSigners' = usedSigners \cup {signer}
        /\ UNCHANGED <<logicVars, consumedKeys, burned, feesCollected>>

-----------------------------------------------------------------------------
(***************************************************************************)
(* A block includes a pending transaction.  Approval consumes the keys and *)
(* debits max_cost; what the transaction did not use is refunded, so the   *)
(* pool pays some cost up to it, whatever its SENDER frame does.  The gas  *)
(* settle needs differs from block to block; only SETTLE_FRAME_GAS always  *)
(* suffices, so with less the frame may also run out of gas.               *)
(***************************************************************************)
MayRunOut(tx) == tx.frames[2].gas < SETTLE_FRAME_GAS

IncludeSpend(tx, cost) ==
    LET s == SpendOf(tx)
    IN  /\ PrefixValid(tx)
        /\ mempool' = mempool \ {tx}
        /\ consumedKeys' = consumedKeys \cup tx.nonceKeys
        /\ UNCHANGED usedSigners
        /\ \/ /\ SettleAccepts(Pool, s)
              /\ WithinEpochs(Len(NewOutputs(s)))
              /\ SettleEffects(s, cost)
              /\ feesCollected' = feesCollected + s.fee
              /\ UNCHANGED burned
           \/ /\ ~SettleAccepts(Pool, s) \/ MayRunOut(tx)
              /\ burned' = burned \cup {s}
              /\ balance' = balance - cost
              /\ UNCHANGED <<treeVars, withdrawalCredit, rootsVars, feesCollected>>

\* The calls that come in ordinary transactions, and the passing of slots.
OtherVars == <<consumedKeys, mempool, usedSigners, burned, feesCollected>>

Deposit(inner, value) == Shield(inner, value) /\ UNCHANGED OtherVars
Publish(epoch) == PublishEpochRoot(epoch) /\ UNCHANGED OtherVars
Claim(who) == ClaimWithdrawal(who) /\ UNCHANGED OtherVars
PassSlot == Tick /\ UNCHANGED OtherVars

Next ==
    \/ \E inner \in PayableInners, value \in ShieldValues : Deposit(inner, value)
    \/ \E signer \in Authorizers, ref \in References, first \in KnownNotes :
           \E second \in KnownNotes \cup {DummyInput(signer)}, fee \in Fees, flag \in Flags :
               BuildSpend(signer, ref, first, second, fee, flag)
    \/ \E tx \in mempool : \E cost \in 0..tx.maxCost : IncludeSpend(tx, cost)
    \/ \E epoch \in Epochs : Publish(epoch)
    \/ \E who \in Accounts : Claim(who)
    \/ PassSlot

Spec == Init /\ [][Next]_poolVars

-----------------------------------------------------------------------------
\* The nullifier under which a leaf is spent.
LeafNullifier(cm) == Nullifier(PoolDomain, cm.inner.spendKey, cm)

SpentNotes == {cm \in isLeaf : LeafNullifier(cm) \in consumedKeys}
UnspentNotes == isLeaf \ SpentNotes

\* Commitments and nullifiers that wallets produce, those of dummies included.
Commitments ==
    [inner : {Inner(SpendKey, rho) : rho \in Rhos \cup Authorizers}, value : 0..(MAX_VALUE - 1)]
Nullifiers == {Nullifier(PoolDomain, SpendKey, cm) : cm \in Commitments}

\* No note hashes to the word that stands for an empty leaf.
ASSUME HashAssumption == Zero \notin Commitments

\* Only nullifiers of this pool are ever consumed as nonce keys, only notes are leaves.
TypeOK ==
    /\ consumedKeys \subseteq Nullifiers
    /\ isLeaf \subseteq Commitments
    /\ \A tx \in mempool : SpendOf(tx).authorizer \in usedSigners
    /\ usedSigners \subseteq Authorizers
    /\ feesCollected \in Nat
    /\ balance \in Nat

(***************************************************************************)
(* The pool can always pay: its balance covers every unspent note and      *)
(* every credit, although it pays the gas of every spend itself, reverted  *)
(* ones included.                                                          *)
(***************************************************************************)
Solvent ==
    balance >= SumFunction([note \in UnspentNotes |-> note.value])
               + SumFunction(withdrawalCredit)

(***************************************************************************)
(* SECURITY.md:34-36: settlement is total for every proof-valid admitted   *)
(* transaction, so no approved spend loses its notes without creating its  *)
(* outputs.                                                                *)
(***************************************************************************)
SettlementTotal == burned = {}

(***************************************************************************)
(* Whatever settle rejects, the proof and the dispatcher already rejected, *)
(* with one exception: an output commitment that is a leaf by then,        *)
(* inserted after the simulation or, where that may lack a status, before. *)
(***************************************************************************)
BurnsOnlyDuplicates == \A s \in burned : DuplicateOutput(s)

(***************************************************************************)
(* A pending transaction stays includable whatever else happens, shields,  *)
(* rollovers, publications, claims and other spends: only its own keys     *)
(* being consumed or its reference leaving the window can invalidate it.   *)
(***************************************************************************)
PendingStaysValid ==
    [][ \A tx \in mempool \cap mempool' :
            (/\ PrefixValid(tx)
             /\ tx.nonceKeys \cap consumedKeys' = {}
             /\ slot' - tx.refs[1].slot < RING_LENGTH)
            => PrefixValid(tx)' ]_poolVars

(***************************************************************************)
(* Every unspent note can still be spent: the authenticated root of its    *)
(* epoch opens at it and its value is one the circuit can prove.           *)
(***************************************************************************)
NotesProvable ==
    \A leaf \in leaves :
        /\ Opens(EpochRoot(leaf.epoch), leaf.cm)
        /\ leaf.cm.value \in 1..(MAX_VALUE - 1)

(***************************************************************************)
(* The pool implements the ledger of ValueLedger: each note is created     *)
(* once and spent at most once, and every spend is atomic and conserves    *)
(* value, although it is proved, approved and settled at different times.  *)
(***************************************************************************)
Ledger == INSTANCE ValueLedger WITH
    unspent <- UnspentNotes,
    spent <- SpentNotes,
    credit <- withdrawalCredit,
    fees <- feesCollected

LedgerRefined == Ledger!LedgerSpec
=============================================================================
