------------------------- MODULE ShieldedPoolLogic -------------------------
(***************************************************************************)
(* The settlement contract contracts/src/ShieldedPoolLogic.sol, executed   *)
(* by delegatecall in the storage of the dispatcher.  One action per       *)
(* external function that changes state.  A call the code reverts leaves   *)
(* the state as it was, so it is the step the action does not take; where  *)
(* a caller must know whether its call reverts, the guard is the operator  *)
(* ShieldAccepts or SettleAccepts.                                         *)
(***************************************************************************)
EXTENDS IncrementalMerkle, RecentRoots, Notes, Sequences

CONSTANTS
    Accounts,  \* addresses that may be paid
    MaxEpoch   \* bound of the model: the last epoch that may be opened

ASSUME EpochAssumption == MaxEpoch \in Nat /\ Sources = 0..MaxEpoch

VARIABLES
    filledSubtrees, nextIndex, currentRoot,  \* the active tree
    isLeaf,            \* commitments ever inserted, over all epochs
    withdrawalCredit,  \* what each account may claim
    currentEpoch, finalRoot,
    balance,           \* the native balance of the pool's account
    leaves             \* the LeafAppended events: [cm, epoch, index]

treeVars == <<filledSubtrees, nextIndex, currentRoot, isLeaf, currentEpoch,
              finalRoot, leaves>>
logicVars == <<treeVars, withdrawalCredit, balance, rootsVars>>

Epochs == 0..MaxEpoch

NoSubtrees == [level \in Levels |-> Zero]

\* The dispatcher's constructor writes EMPTY_ROOT; everything else starts at 0.
LogicInit ==
    /\ RootsInit
    /\ filledSubtrees = NoSubtrees
    /\ nextIndex = 0
    /\ currentRoot = EMPTY_ROOT
    /\ isLeaf = {}
    /\ withdrawalCredit = [who \in Accounts |-> 0]
    /\ currentEpoch = 0
    /\ finalRoot = [epoch \in Epochs |-> Zero]
    /\ balance = 0
    /\ leaves = {}

-----------------------------------------------------------------------------
\* Mutant: rolls as soon as the tree would be full.
MustRoll_OffByOne(count) == count >= CAPACITY - nextIndex

\* Mutant: makes room for one leaf, however many will be inserted.
MustRoll_ForOne(count) == 1 > CAPACITY - nextIndex

\* _ensureCapacity
MustRoll(count) == count > CAPACITY - nextIndex

\* Bound of the model: no epoch after MaxEpoch is opened.
WithinEpochs(count) == MustRoll(count) => currentEpoch < MaxEpoch

\* Mutant: records the final root under the epoch before.
ClosedRoots_OffByOne == [finalRoot EXCEPT ![currentEpoch - 1] = currentRoot]

\* What _rollEpoch makes of finalRoot.
ClosedRoots == [finalRoot EXCEPT ![currentEpoch] = currentRoot]

(***************************************************************************)
(* _ensureCapacity, with _rollEpoch when the tree lacks room, then one     *)
(* _insert for each of at most two commitments, then _computeRoot.         *)
(***************************************************************************)
AppendLeaves(cms) ==
    LET count == Len(cms)
        roll  == MustRoll(count)
        epoch == IF roll THEN currentEpoch + 1 ELSE currentEpoch
        start == IF roll THEN 0 ELSE nextIndex
        none  == IF roll THEN NoSubtrees ELSE filledSubtrees
        one   == IF count >= 1 THEN InsertLeaf(none, start, cms[1]) ELSE none
        two   == IF count = 2 THEN InsertLeaf(one, start + 1, cms[2]) ELSE one
        base  == IF roll THEN EMPTY_ROOT ELSE currentRoot
    IN  /\ finalRoot' = IF roll THEN ClosedRoots ELSE finalRoot
        /\ currentEpoch' = epoch
        /\ nextIndex' = start + count
        /\ filledSubtrees' = two
        /\ currentRoot' = IF count = 0 THEN base ELSE ComputeRoot(two, start + count)
        /\ isLeaf' = isLeaf \cup {cms[i] : i \in 1..count}
        /\ leaves' = leaves \cup
               {[cm |-> cms[i], epoch |-> epoch, index |-> start + i - 1] : i \in 1..count}

-----------------------------------------------------------------------------
\* Mutant: takes an amount that no range check of the circuit lets through.
ShieldAccepts_MaxInclusive(inner, value) ==
    /\ value # 0
    /\ value <= MAX_VALUE
    /\ Canonical(inner)
    /\ Commit(inner, value) \notin {SINK_0, SINK_1}
    /\ Commit(inner, value) \notin isLeaf

ShieldAccepts(inner, value) ==
    /\ value # 0
    /\ value < MAX_VALUE
    /\ Canonical(inner)
    /\ Commit(inner, value) \notin {SINK_0, SINK_1}
    /\ Commit(inner, value) \notin isLeaf

Shield(inner, value) ==
    /\ ShieldAccepts(inner, value)
    /\ WithinEpochs(1)
    /\ AppendLeaves(<<Commit(inner, value)>>)
    /\ balance' = balance + value
    /\ UNCHANGED <<withdrawalCredit, rootsVars>>

\* The commitments of a settlement that are not its positional sinks.
NewOutputs(s) ==
    IF s.outCm1 = SINK_0
    THEN IF s.outCm2 = SINK_1 THEN <<>> ELSE <<s.outCm2>>
    ELSE IF s.outCm2 = SINK_1 THEN <<s.outCm1>> ELSE <<s.outCm1, s.outCm2>>

WellFormed(s) ==
    /\ s.nf1 # Zero /\ s.nf2 # Zero
    /\ s.authorizer # NoAddress
    /\ s.domain = PoolDomain
    /\ \A word \in {s.root, s.domain, s.nf1, s.nf2, s.outCm1, s.outCm2} : Canonical(word)
    /\ s.publicAmount < MAX_VALUE /\ s.fee < MAX_VALUE
    /\ s.publicAmount = 0 <=> s.recipient = NoAddress
    /\ s.outCm1 # s.outCm2 /\ s.outCm1 # SINK_1 /\ s.outCm2 # SINK_0

\* Mutant: looks at the first output only.
DuplicateOutput_FirstOnly(s) == s.outCm1 # SINK_0 /\ s.outCm1 \in isLeaf

\* The settlement would append a commitment some epoch already holds.
DuplicateOutput(s) ==
    \/ s.outCm1 # SINK_0 /\ s.outCm1 \in isLeaf
    \/ s.outCm2 # SINK_1 /\ s.outCm2 \in isLeaf

\* Mutant: takes settlements against the active epoch only.
SettleAccepts_ActiveEpoch(sender, s) ==
    /\ sender = Pool
    /\ WellFormed(s)
    /\ s.epoch = currentEpoch
    /\ ~DuplicateOutput(s)

SettleAccepts(sender, s) ==
    /\ sender = Pool
    /\ WellFormed(s)
    /\ s.epoch <= currentEpoch
    /\ ~DuplicateOutput(s)

\* What an accepted settlement writes; cost is the gas the pool pays for it.
SettleEffects(s, cost) ==
    /\ AppendLeaves(NewOutputs(s))
    /\ withdrawalCredit' =
           IF s.publicAmount = 0 THEN withdrawalCredit
           ELSE [withdrawalCredit EXCEPT ![s.recipient] = @ + s.publicAmount]
    /\ balance' = balance - cost
    /\ UNCHANGED rootsVars

Settle(sender, s) ==
    /\ SettleAccepts(sender, s)
    /\ WithinEpochs(Len(NewOutputs(s)))
    /\ SettleEffects(s, 0)

-----------------------------------------------------------------------------
\* Mutant: publishes the active root whatever epoch it is asked for.
EpochRoot_AlwaysActive(epoch) == currentRoot

\* The authenticated root of an epoch: the active one, or the one it closed with.
EpochRoot(epoch) == IF epoch = currentEpoch THEN currentRoot ELSE finalRoot[epoch]

PublishEpochRoot(epoch) ==
    /\ epoch <= currentEpoch
    /\ EpochRoot(epoch) # Zero
    /\ WriteRoot(epoch, EpochRoot(epoch))
    /\ UNCHANGED <<treeVars, withdrawalCredit, balance, slot>>

(***************************************************************************)
(* The credit is zeroed before the call, and a failed call restores it by  *)
(* reverting.  A call to the pool itself always fails: without calldata    *)
(* the dispatcher delegates to a contract that has no receive function.    *)
(***************************************************************************)
ClaimWithdrawal(who) ==
    /\ withdrawalCredit[who] # 0
    /\ who # Pool
    /\ withdrawalCredit[who] <= balance
    /\ withdrawalCredit' = [withdrawalCredit EXCEPT ![who] = 0]
    /\ balance' = balance - withdrawalCredit[who]
    /\ UNCHANGED <<treeVars, rootsVars>>

Tick == NextSlot /\ UNCHANGED <<treeVars, withdrawalCredit, balance>>

-----------------------------------------------------------------------------
LeafEvent(commitments) == [cm : commitments, epoch : Epochs, index : Indices]

\* Each epoch has one leaf at each index below its fill, and none above.
IndicesDense ==
    /\ \A a, b \in leaves : a.epoch = b.epoch /\ a.index = b.index => a = b
    /\ \A leaf \in leaves : leaf.epoch <= currentEpoch
    /\ \A index \in Indices :
           index < nextIndex <=>
               \E leaf \in leaves : leaf.epoch = currentEpoch /\ leaf.index = index

\* A commitment is a leaf exactly if it was appended, and it was appended once.
AppendedOnce ==
    /\ isLeaf = {leaf.cm : leaf \in leaves}
    /\ \A a, b \in leaves : a.cm = b.cm => a = b

SinksOutside == {SINK_0, SINK_1} \cap isLeaf = {}

(***************************************************************************)
(* The leaf discipline: no commitment is inserted twice in the life of the *)
(* pool, across epochs, no two leaves share a place, the positional sinks  *)
(* are never inserted.  A nullifier is a function of the commitment, so a  *)
(* second leaf with the same commitment could never be spent.              *)
(***************************************************************************)
LeafDiscipline == AppendedOnce /\ IndicesDense /\ SinksOutside

LeavesOf(epoch) == {leaf \in leaves : leaf.epoch = epoch}

\* The leaves of an epoch by their index, the first n of them, from the events.
PrefixLeaves(epoch, n) ==
    LET prefix == {leaf \in LeavesOf(epoch) : leaf.index < n}
    IN  [index \in Indices |->
            IF \E leaf \in prefix : leaf.index = index
            THEN (CHOOSE leaf \in prefix : leaf.index = index).cm
            ELSE Zero]

\* The zero-padded tree of the first n leaves of an epoch.
PrefixRoot(epoch, n) == MerkleRoot(PrefixLeaves(epoch, n))

(***************************************************************************)
(* The incremental tree agrees with the tree an indexer builds from the    *)
(* LeafAppended events, in the active and in every closed epoch, at every  *)
(* fill including a full tree: every note stays provable for ever.         *)
(***************************************************************************)
RootsMatchEvents ==
    \A epoch \in 0..currentEpoch : EpochRoot(epoch) = PrefixRoot(epoch, CAPACITY)
=============================================================================
