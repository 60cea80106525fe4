------------------------------ MODULE SeededTree ------------------------------
(***************************************************************************)
(* wallet/gen_nonce_race.py against a live pool.  seeded_tree reads the    *)
(* LeafAppended events, the epoch and the active root in three calls, each *)
(* at "latest", and rebuilds the tree; main then appends the two deposits  *)
(* it is going to make and proves both transfers against the root of that  *)
(* tree.  The deposits are made afterwards, by pool_frametx.py, while      *)
(* others use the pool: leaves, rollovers and publications come anywhere.  *)
(* The seed is fixed, so the notes are known, and may be deposited, before *)
(* the generator runs: an earlier run had the same ones.                   *)
(***************************************************************************)
EXTENDS ShieldedPoolLogic, SpendCircuit, WalletTree, FiniteSets

CONSTANTS
    NoteWei,      \* --note-wei
    OtherInners,  \* inners that others pay to
    Signer        \* the authorizer of others' settlements

ASSUME SeededAssumption == NoteWei \in 1..(MAX_VALUE - 1)

VARIABLES
    stage,      \* what the generator does next
    seen,       \* the events it read, until they are in its tree
    seenEpoch,  \* the epoch it read
    tree,       \* the commitments of its tree
    fixture,    \* what it wrote
    settledKeys \* nullifiers of its transfers that were settled

genVars == <<stage, seen, seenEpoch, tree, fixture, settledKeys>>
vars == <<logicVars, genVars>>

\* The two notes and what is made of them carry the name of their transfer.
Names == {"A", "C"}

\* No name is the zero address, and no output of theirs digests to a sink.
ASSUME NamesAssumption ==
    /\ NoAddress \notin Names
    /\ \A name \in Names, rho \in {"payee", "change"} :
           Inner(name, rho) \notin {SinkInner0, SinkInner1}

NoteOf(name) == [spendKey |-> name, rho |-> "note", value |-> NoteWei]

NoFixture == [leaf |-> [name \in Names |-> 0], transfer |-> [name \in Names |-> {}]]

Init ==
    /\ LogicInit
    /\ stage = "idle"
    /\ seen = {} /\ seenEpoch = 0 /\ tree = <<>>
    /\ fixture = NoFixture /\ settledKeys = {}

-----------------------------------------------------------------------------
\* The generator.

\* main, up to eth_getLogs at "latest"
ReadLogs ==
    /\ stage = "idle"
    /\ seen' = leaves
    /\ stage' = "epoch"
    /\ UNCHANGED <<seenEpoch, tree, fixture, settledKeys, logicVars>>

\* currentEpoch()
ReadEpoch ==
    /\ stage = "epoch"
    /\ seenEpoch' = currentEpoch
    /\ stage' = "root"
    /\ UNCHANGED <<seen, tree, fixture, settledKeys, logicVars>>

\* The commitments of an epoch in the order of their indices.
InOrder(events, epoch) ==
    LET own == {leaf \in events : leaf.epoch = epoch}
    IN  [i \in 1..Cardinality(own) |-> (CHOOSE leaf \in own : leaf.index = i - 1).cm]

\* Mutant: the root that was read is not compared.
Reconstructs_Unchecked(cms) == TRUE

Reconstructs(cms) == TreeRoot(cms) = currentRoot

\* currentRoot(), compared with the root of the rebuilt tree
ReadRoot ==
    /\ stage = "root"
    /\ tree' = InOrder(seen, seenEpoch)
    /\ stage' = IF Reconstructs(tree') THEN "seeded" ELSE "failed"
    /\ seen' = {}
    /\ UNCHANGED <<seenEpoch, fixture, settledKeys, logicVars>>

ToPayee == (NoteWei * 60) \div 100
ForFee == (NoteWei * 5) \div 100

\* Spend one note and a dummy: 60% to the payee, 5% for the fee, the rest back.
Witness(name) ==
    [inputs |-> <<NoteOf(name), [spendKey |-> name, rho |-> "dummy", value |-> 0]>>,
     outputs |-> <<[inner |-> Inner(name, "payee"), value |-> ToPayee],
                   [inner |-> Inner(name, "change"), value |-> NoteWei - ToPayee - ForFee]>>]

\* spend_entry
SpendEntry(name, cms, epoch) ==
    LET w == Witness(name)
    IN  [root |-> TreeRoot(cms), rootSlot |-> slot, epoch |-> epoch, domain |-> PoolDomain,
         nf1 |-> InputNullifier(PoolDomain, w.inputs[1]),
         nf2 |-> InputNullifier(PoolDomain, w.inputs[2]),
         outCm1 |-> OutputCommitment(w.outputs[1]), outCm2 |-> OutputCommitment(w.outputs[2]),
         publicAmount |-> 0, fee |-> ForFee,
         recipient |-> NoAddress, authorizer |-> name]

Keys(s) == {s.nf1, s.nf2}

\* prove: the path must lead to the root, and the witness satisfy the circuit.
ProvesNote(name, cms, index, s) ==
    /\ PathRoot(InputCommitment(NoteOf(name)), AuthPath(cms, index)) = s.root
    /\ CircuitAccepts(Witness(name), s)

(***************************************************************************)
(* main appends both deposits, which fails in a tree without room, proves  *)
(* a transfer of each against the root R after both, asserts that they     *)
(* share no nullifier, and writes them with the epoch that was given on    *)
(* the command line, right or wrong.                                       *)
(***************************************************************************)
WriteFixture(epochArg) ==
    /\ stage = "seeded"
    /\ LET grown == tree \o <<InputCommitment(NoteOf("A")), InputCommitment(NoteOf("C"))>>
           leaf == [name \in Names |-> IF name = "A" THEN Len(tree) ELSE Len(tree) + 1]
           transfer == [name \in Names |-> SpendEntry(name, grown, epochArg)]
       IN  IF /\ Len(grown) <= CAPACITY
              /\ \A name \in Names : ProvesNote(name, grown, leaf[name], transfer[name])
              /\ Keys(transfer["A"]) \cap Keys(transfer["C"]) = {}
           THEN /\ fixture' = [leaf |-> leaf, transfer |-> transfer]
                /\ stage' = "written"
           ELSE /\ stage' = "failed"
                /\ UNCHANGED fixture
    /\ tree' = <<>>
    /\ UNCHANGED <<seen, seenEpoch, settledKeys, logicVars>>

Generator ==
    \/ ReadLogs \/ ReadEpoch \/ ReadRoot
    \/ \E epoch \in Epochs : WriteFixture(epoch)

-----------------------------------------------------------------------------
\* The pool meanwhile.

\* The client's deposits, pool_frametx.py shield --note N, in either order.
DepositOwn(name) == Shield(Inner(name, "note"), NoteWei) /\ UNCHANGED genVars

\* What of the admission of a transfer depends on the state of the pool.
Admissible(s) ==
    /\ Keys(s) \cap settledKeys = {}
    /\ Committed(s.epoch, s.rootSlot, s.root)
    /\ SettleAccepts(Pool, s)

\* pool_frametx.py transfer --spend-key
SettleOwn(name) ==
    /\ stage = "written"
    /\ Admissible(fixture.transfer[name])
    /\ Settle(Pool, fixture.transfer[name])
    /\ settledKeys' = settledKeys \cup Keys(fixture.transfer[name])
    /\ UNCHANGED <<stage, seen, seenEpoch, tree, fixture>>

\* Others deposit, and others settle transfers with two new outputs.
DepositOther(inner) == Shield(inner, 1) /\ UNCHANGED genVars

TransferOf(first, second) ==
    [root |-> Zero, rootSlot |-> 0, epoch |-> 0, domain |-> PoolDomain,
     nf1 |-> [of |-> first], nf2 |-> [of |-> second],
     outCm1 |-> Commit(first, 1), outCm2 |-> Commit(second, 1),
     publicAmount |-> 0, fee |-> 0, recipient |-> NoAddress, authorizer |-> Signer]

TransferOther(first, second) ==
    Settle(Pool, TransferOf(first, second)) /\ UNCHANGED genVars

Publish(epoch) == PublishEpochRoot(epoch) /\ UNCHANGED genVars

PoolMoves ==
    \/ \E name \in Names : DepositOwn(name) \/ SettleOwn(name)
    \/ \E inner \in OtherInners : DepositOther(inner)
    \/ \E first, second \in OtherInners : TransferOther(first, second)
    \/ \E epoch \in Epochs : Publish(epoch)

Next == Generator \/ PoolMoves

Spec == Init /\ [][Next]_vars

-----------------------------------------------------------------------------
(***************************************************************************)
(* The tree a wallet rebuilds from the events has the authenticated root   *)
(* of its epoch, active or closed, at every fill, and the path it gives    *)
(* for any leaf leads there.                                               *)
(***************************************************************************)
WalletTreeAgrees ==
    \A epoch \in 0..currentEpoch :
        LET cms == InOrder(leaves, epoch)
        IN  /\ TreeRoot(cms) = EpochRoot(epoch)
            /\ \A i \in 1..Len(cms) :
                   PathRoot(cms[i], AuthPath(cms, i - 1)) = EpochRoot(epoch)

ReturnsActive ==
    stage = "root" /\ stage' = "seeded" =>
        /\ seenEpoch = currentEpoch
        /\ tree' = InOrder(leaves, currentEpoch)

RefusesForCause ==
    stage' = "failed" /\ stage # "failed" =>
        \/ stage = "root" /\ leaves # seen
        \/ stage = "seeded" /\ Len(tree) + 2 > CAPACITY
        \/ stage = "seeded" /\ ToPayee = 0

(***************************************************************************)
(* Whatever happens between the three reads, a tree that seeded_tree       *)
(* returns is the active one at the last of them, leaf by leaf, and the    *)
(* epoch it read before is the active epoch.  The generator gives up only  *)
(* if the pool gained leaves between its reads, the tree has no room for   *)
(* two more, or 60% of the note rounds to nothing: the circuit lets only a *)
(* sink hold nothing.                                                      *)
(***************************************************************************)
SeededIsActive == [][ReturnsActive /\ RefusesForCause]_vars

\* Both notes are leaves of the epoch, where the proofs have them.
NotesInPlace(epoch) ==
    \A name \in Names :
        [cm |-> InputCommitment(NoteOf(name)), epoch |-> epoch, index |-> fixture.leaf[name]]
            \in leaves

(***************************************************************************)
(* gen_nonce_race.py:52-54: if the two deposits become the next leaves,    *)
(* the pool's root after them is exactly the fixture's.                    *)
(***************************************************************************)
NextDepositsReachRoot ==
    (/\ stage = "written"
     /\ currentEpoch = seenEpoch /\ nextIndex = fixture.leaf["C"] + 1
     /\ NotesInPlace(seenEpoch))
    => \A name \in Names : fixture.transfer[name].root = currentRoot

(***************************************************************************)
(* The client's check before it signs suffices: if the predeploy holds the *)
(* fixture's root for the epoch the operator gave, right or wrong, then    *)
(* both notes are leaves of that epoch in the places the proofs are for.   *)
(***************************************************************************)
CommittedFixtureSpendable ==
    \A name \in Names :
        LET s == fixture.transfer[name]
        IN  (stage = "written" /\ Committed(s.epoch, s.rootSlot, s.root))
            => NotesInPlace(s.epoch) /\ LeafAt(s.root, fixture.leaf[name]) = InputCommitment(NoteOf(name))

(***************************************************************************)
(* gen_nonce_race.py:10-13: the two transfers are admissible together, in  *)
(* any order: settling one leaves the other admissible, also when it fills *)
(* the tree or closes the epoch both are proved against.                   *)
(***************************************************************************)
TransfersIndependent ==
    [][ \A one, other \in Names :
            (/\ one # other /\ stage = "written"
             /\ Admissible(fixture.transfer[one]) /\ Admissible(fixture.transfer[other])
             /\ settledKeys' = settledKeys \cup Keys(fixture.transfer[one]))
            => Admissible(fixture.transfer[other])' ]_vars
=============================================================================
