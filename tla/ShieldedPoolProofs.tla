------------------------- MODULE ShieldedPoolProofs -------------------------
(***************************************************************************)
(* Proofs about the whole system, for every number of wallets, notes,      *)
(* slots and epochs, every depth of the tree and every field order.        *)
(*                                                                         *)
(*   - What the circuit's constraints imply: the sums are taken in the     *)
(*     field, but the range checks keep them from wrapping around.         *)
(*   - The only way an approved spend can burn its notes.                  *)
(*   - That the pool is solvent, and what that rests on: roots open only   *)
(*     to notes, consumed keys are spent notes, approval binds the two.    *)
(*   - That a pending spend cannot be invalidated by others.               *)
(*   - That, as long as no inner is paid to twice, every settlement takes  *)
(*     effect and the pool implements ValueLedger.                         *)
(***************************************************************************)
EXTENDS ShieldedPool, ShieldedPoolLogicProofs, SumTheorems

LEMMA SmallIsItsResidue ==
    ASSUME NEW n \in Nat, n < FieldOrder
    PROVE  n % FieldOrder = n
BY FieldAssumption

(***************************************************************************)
(* A proof can be made only of a spend that consumes value and neither     *)
(* mints nor loses any: inputs equal outputs, payout and fee as integers.  *)
(***************************************************************************)
THEOREM ValueConserved ==
    ASSUME NEW w, NEW s, CircuitAccepts(w, s)
    PROVE  /\ w.inputs[1].value + w.inputs[2].value =
                  w.outputs[1].value + w.outputs[2].value + s.publicAmount + s.fee
           /\ w.inputs[1].value + w.inputs[2].value > 0
<1> DEFINE in == w.inputs[1].value + w.inputs[2].value
           out == w.outputs[1].value + w.outputs[2].value + s.publicAmount + s.fee
<1>1. /\ InRange(w.inputs[1].value) /\ InRange(w.inputs[2].value)
      /\ InRange(w.outputs[1].value) /\ InRange(w.outputs[2].value)
      /\ InRange(s.publicAmount) /\ InRange(s.fee)
      /\ in % FieldOrder = out % FieldOrder /\ in % FieldOrder # 0
    BY DEF CircuitAccepts, Conserved
<1>2. MAX_VALUE \in Nat /\ FieldOrder \in Nat /\ FieldOrder > 4 * MAX_VALUE
    BY ValueAssumption, FieldAssumption
<1>3. in \in Nat /\ in < FieldOrder /\ out \in Nat /\ out < FieldOrder
    BY <1>1, <1>2 DEF InRange
<1> HIDE DEF in, out
<1>4. in % FieldOrder = in /\ out % FieldOrder = out
    BY <1>3, SmallIsItsResidue
<1>5. in = out /\ in > 0
    BY <1>1, <1>3, <1>4
<1> QED
    BY <1>5 DEF in, out

\* A positive output never takes the commitment of a sink, nor the wrong sink.
LEMMA OutputsOffTheSinks ==
    ASSUME NEW w, NEW s, CircuitAccepts(w, s)
    PROVE  s.outCm1 # SINK_1 /\ s.outCm2 # SINK_0
BY SinkAssumption
   DEF CircuitAccepts, OutputRules, OutputCommitment, Commit, SINK_0, SINK_1

-----------------------------------------------------------------------------
(***************************************************************************)
(* The burns.  settle reads one thing that neither the proof nor the       *)
(* VERIFY frame can fix, the state at the time it runs.  Of that state it  *)
(* needs two facts, that the epoch exists and that the outputs are new.    *)
(* The invariant PublishedEpochs supplies the first: a valid reference     *)
(* names a source that was written, and only roots of epochs already open  *)
(* are written.                                                            *)
(***************************************************************************)

\* Only sources of epochs already open hold an entry.
PublishedEpochs ==
    \A source \in Sources, i \in Entries :
        ring[source][i].slot # -1 => source <= currentEpoch

RingShape ==
    /\ ring = [source \in Sources |-> ring[source]]
    /\ \A source \in Sources : ring[source] = [i \in Entries |-> ring[source][i]]

PoolIInv ==
    /\ currentEpoch \in Epochs
    /\ slot \in Nat
    /\ RingShape
    /\ PublishedEpochs
    /\ BurnsOnlyDuplicates

LEMMA PoolInitIInv == Init => PoolIInv
BY EpochAssumption
   DEF Init, LogicInit, RootsInit, PoolIInv, RingShape, PublishedEpochs, NoEntry,
       BurnsOnlyDuplicates, Epochs

\* Everything settle requires of a settlement's shape was approved before.
LEMMA ApprovedIsWellFormed ==
    ASSUME NEW tx, Approves(tx)
    PROVE  WellFormed(SpendOf(tx)) /\ ~MayRunOut(tx)
<1> DEFINE s == SpendOf(tx)
<1>1. /\ VerifyProof(tx)
      /\ s.authorizer # NoAddress
      /\ tx.frames[2].gas = SETTLE_FRAME_GAS
    BY DEF Approves, Authorized, SettleFrame, SpendOf
<1>2. CircuitAccepts(tx.frames[1].data.proof, s)
    BY <1>1 DEF VerifyProof, SpendOf
<1>3. s.outCm1 # SINK_1 /\ s.outCm2 # SINK_0 /\ s.outCm1 # s.outCm2
    BY <1>2, OutputsOffTheSinks DEF CircuitAccepts
<1>4. WellFormed(s)
    BY <1>1, <1>3 DEF VerifyProof, WellFormed, SpendOf
<1>5. ~MayRunOut(tx)
    BY <1>1 DEF MayRunOut, SETTLE_FRAME_GAS
<1> QED
    BY <1>4, <1>5

\* A valid reference is to an epoch that is open or closed, not to a future one.
LEMMA ReferencedEpochExists ==
    ASSUME PoolIInv, NEW tx, PrefixValid(tx)
    PROVE  SpendOf(tx).epoch <= currentEpoch
<1> DEFINE s == SpendOf(tx)
<1>1. tx.refs[1] = [source |-> s.epoch, slot |-> s.rootSlot, root |-> s.root] /\ Len(tx.refs) = 1
    BY DEF PrefixValid, Approves, Shape, RootBound, sourceId, SpendOf
<1>2. ReferenceValid(s.epoch, s.rootSlot, s.root)
    BY <1>1 DEF PrefixValid
<1>3. /\ s.epoch \in Sources /\ s.rootSlot \in Nat
      /\ ring[s.epoch][s.rootSlot % RING_LENGTH] = [slot |-> s.rootSlot, root |-> s.root]
    BY <1>2 DEF ReferenceValid, Committed
<1>4. s.rootSlot % RING_LENGTH \in Entries
    BY <1>3, RingAssumption DEF Entries
<1>5. ring[s.epoch][s.rootSlot % RING_LENGTH].slot # -1
    BY <1>3
<1> HIDE DEF s
<1>6. s.epoch <= currentEpoch
    BY <1>3, <1>4, <1>5 DEF PoolIInv, PublishedEpochs
<1> QED
    BY <1>6 DEF s

\* Appending leaves only adds leaves and only moves on to the next epoch.
LEMMA AppendLeavesGrows ==
    ASSUME currentEpoch \in Epochs,
           NEW cms, WithinEpochs(Len(cms)), AppendLeaves(cms)
    PROVE  currentEpoch' \in Epochs /\ currentEpoch' >= currentEpoch /\ isLeaf \subseteq isLeaf'
<1> DEFINE roll == MustRoll(Len(cms))
<1>1. currentEpoch' = IF roll THEN currentEpoch + 1 ELSE currentEpoch
    BY DEF AppendLeaves
<1>2. isLeaf \subseteq isLeaf'
    BY DEF AppendLeaves
<1>3. roll => currentEpoch < MaxEpoch
    BY DEF WithinEpochs
<1> HIDE DEF roll
<1> QED
    BY <1>1, <1>2, <1>3, EpochAssumption DEF Epochs

\* A step that writes no root and burns nothing keeps the invariant.
LEMMA GrowingKeepsIInv ==
    ASSUME PoolIInv,
           currentEpoch' \in Epochs, currentEpoch' >= currentEpoch, isLeaf \subseteq isLeaf',
           slot' \in Nat, UNCHANGED <<ring, burned>>
    PROVE  PoolIInv'
<1>1. PublishedEpochs'
    BY EpochAssumption DEF PoolIInv, PublishedEpochs, Epochs
<1>2. BurnsOnlyDuplicates'
    BY DEF PoolIInv, BurnsOnlyDuplicates, DuplicateOutput
<1> QED
    BY <1>1, <1>2 DEF PoolIInv, RingShape

LEMMA PoolNextIInv == PoolIInv /\ [Next]_poolVars => PoolIInv'
<1> SUFFICES ASSUME PoolIInv, [Next]_poolVars PROVE PoolIInv'
    OBVIOUS
<1>1. currentEpoch \in Epochs /\ currentEpoch \in Nat /\ slot \in Nat
    BY EpochAssumption DEF PoolIInv, Epochs
<1>2. ASSUME NEW inner, NEW value, Deposit(inner, value)
      PROVE  PoolIInv'
    <2>1. WithinEpochs(1) /\ AppendLeaves(<<Commit(inner, value)>>) /\ UNCHANGED <<ring, slot, burned>>
        BY <1>2 DEF Deposit, Shield, OtherVars, rootsVars
    <2>2. Len(<<Commit(inner, value)>>) = 1
        OBVIOUS
    <2> QED
        BY <1>1, <2>1, <2>2, AppendLeavesGrows, GrowingKeepsIInv
<1>3. ASSUME NEW signer, NEW ref, NEW first, NEW second, NEW fee, NEW flag,
             BuildSpend(signer, ref, first, second, fee, flag)
      PROVE  PoolIInv'
    <2>1. UNCHANGED <<logicVars, burned>>
        BY <1>3 DEF BuildSpend
    <2> QED
        BY <1>1, <2>1, GrowingKeepsIInv DEF logicVars, treeVars, rootsVars
<1>4. ASSUME NEW tx, NEW cost, IncludeSpend(tx, cost)
      PROVE  PoolIInv'
    <2> DEFINE s == SpendOf(tx)
    <2>1. PrefixValid(tx)
        BY <1>4 DEF IncludeSpend
    <2>2. CASE /\ WithinEpochs(Len(NewOutputs(s)))
               /\ SettleEffects(s, cost)
               /\ UNCHANGED burned
        <3>1. AppendLeaves(NewOutputs(s)) /\ UNCHANGED <<ring, slot, burned>>
            BY <2>2 DEF SettleEffects, rootsVars
        <3> QED
            BY <1>1, <2>2, <3>1, AppendLeavesGrows, GrowingKeepsIInv
    <2>3. CASE /\ ~SettleAccepts(Pool, s) \/ MayRunOut(tx)
               /\ burned' = burned \cup {s}
               /\ UNCHANGED <<treeVars, rootsVars>>
        <3>1. WellFormed(s) /\ ~MayRunOut(tx)
            BY <2>1, ApprovedIsWellFormed DEF PrefixValid
        <3>2. s.epoch <= currentEpoch
            BY <2>1, ReferencedEpochExists
        <3>3. DuplicateOutput(s)
            BY <2>3, <3>1, <3>2 DEF SettleAccepts
        <3>4. BurnsOnlyDuplicates'
            BY <2>3, <3>3 DEF PoolIInv, BurnsOnlyDuplicates, DuplicateOutput, treeVars
        <3> QED
            BY <2>3, <3>4 DEF PoolIInv, RingShape, PublishedEpochs, treeVars, rootsVars
    <2> QED
        BY <1>4, <2>2, <2>3 DEF IncludeSpend
<1>5. ASSUME NEW epoch \in Epochs, Publish(epoch)
      PROVE  PoolIInv'
    <2> DEFINE i == slot % RING_LENGTH
               entry == [slot |-> slot, root |-> EpochRoot(epoch)]
    <2>1. /\ epoch <= currentEpoch
          /\ ring' = [ring EXCEPT ![epoch][i] = entry]
          /\ UNCHANGED <<treeVars, slot, burned>>
        BY <1>5 DEF Publish, PublishEpochRoot, WriteRoot, OtherVars
    <2>2. epoch \in Sources /\ i \in Entries
        BY <1>1, EpochAssumption, RingAssumption DEF Epochs, Entries
    <2> HIDE DEF i, entry
    <2>3. \A source \in Sources, j \in Entries :
              ring'[source][j] = IF source = epoch /\ j = i THEN entry ELSE ring[source][j]
        BY <2>1, <2>2 DEF PoolIInv, RingShape
    <2>4. RingShape'
        BY <2>1, <2>2 DEF PoolIInv, RingShape
    <2>5. PublishedEpochs'
        BY <2>1, <2>3 DEF PoolIInv, PublishedEpochs, treeVars
    <2>6. BurnsOnlyDuplicates'
        BY <2>1 DEF PoolIInv, BurnsOnlyDuplicates, DuplicateOutput, treeVars
    <2> QED
        BY <2>1, <2>4, <2>5, <2>6 DEF PoolIInv, treeVars
<1>6. ASSUME NEW who, Claim(who)
      PROVE  PoolIInv'
    BY <1>1, <1>6, GrowingKeepsIInv DEF Claim, ClaimWithdrawal, OtherVars, treeVars, rootsVars
<1>7. CASE PassSlot
    BY <1>1, <1>7, GrowingKeepsIInv DEF PassSlot, Tick, NextSlot, OtherVars, treeVars
<1>8. CASE UNCHANGED poolVars
    BY <1>1, <1>8, GrowingKeepsIInv DEF poolVars, logicVars, treeVars, rootsVars
<1> QED
    BY <1>2, <1>3, <1>4, <1>5, <1>6, <1>7, <1>8 DEF Next

(***************************************************************************)
(* Whatever wallets build and in whatever order blocks include it, an      *)
(* approved spend reverts only if one of its output commitments is a leaf  *)
(* by then.                                                                *)
(***************************************************************************)
THEOREM BurnsOnlyDuplicatesHolds == Spec => []BurnsOnlyDuplicates
<1>1. PoolIInv => BurnsOnlyDuplicates
    BY DEF PoolIInv
<1> QED
    BY <1>1, PoolInitIInv, PoolNextIInv, PTL DEF Spec

-----------------------------------------------------------------------------
(***************************************************************************)
(* The tree.  Every root that the pool keeps or has published leads only   *)
(* to commitments that were inserted, of any epoch.                        *)
(***************************************************************************)
CleanRoots ==
    /\ CleanSubtrees(filledSubtrees, isLeaf)
    /\ Clean(currentRoot, DEPTH, isLeaf)
    /\ finalRoot = [epoch \in Epochs |-> finalRoot[epoch]]
    /\ \A epoch \in Epochs : Clean(finalRoot[epoch], DEPTH, isLeaf)
    /\ \A source \in Sources, i \in Entries :
           ring[source][i].slot # -1 => Clean(ring[source][i].root, DEPTH, isLeaf)

\* The leaves are notes of value, and are the ones the events announced.
LeavesAreNotes ==
    /\ IsFiniteSet(isLeaf)
    /\ isLeaf \subseteq Commitments
    /\ isLeaf = {leaf.cm : leaf \in leaves}
    /\ \A cm \in isLeaf : cm.value > 0

Contents(cms) == {cms[i] : i \in 1..Len(cms)}

LEMMA ZeroIsCleanRoot ==
    ASSUME NEW S
    PROVE  Clean(Zero, DEPTH, S) /\ CleanSubtrees(NoSubtrees, S) /\ Clean(EMPTY_ROOT, DEPTH, S)
<1>1. DEPTH \in Nat /\ DEPTH \in Levels /\ \A level \in Levels : level \in Nat
    BY ShapeAssumption DEF Levels
<1>2. Clean(Zero, DEPTH, S) /\ \A level \in Levels : Clean(Zero, level, S)
    BY <1>1, ZeroIsClean
<1>3. CleanSubtrees(NoSubtrees, S)
    BY <1>2 DEF CleanSubtrees, NoSubtrees
<1>4. Clean(EMPTY_ROOT, DEPTH, S)
    BY <1>1, ZerosAreClean DEF EMPTY_ROOT
<1> QED
    BY <1>2, <1>3, <1>4

LEMMA InitClean == Init => CleanRoots /\ LeavesAreNotes
<1> SUFFICES ASSUME Init PROVE CleanRoots /\ LeavesAreNotes
    OBVIOUS
<1>1. /\ filledSubtrees = NoSubtrees /\ currentRoot = EMPTY_ROOT /\ isLeaf = {} /\ leaves = {}
      /\ finalRoot = [epoch \in Epochs |-> Zero]
      /\ ring = [source \in Sources |-> [i \in Entries |-> NoEntry]]
    BY DEF Init, LogicInit, RootsInit
<1>2. LeavesAreNotes
    BY <1>1, FS_EmptySet DEF LeavesAreNotes
<1>3. \A source \in Sources, i \in Entries : ring[source][i].slot = -1
    BY <1>1 DEF NoEntry
<1> QED
    BY <1>1, <1>2, <1>3, ZeroIsCleanRoot DEF CleanRoots

\* What stays clean when leaves are only added.
LEMMA RootsStayClean ==
    ASSUME CleanRoots, isLeaf \subseteq isLeaf', UNCHANGED ring
    PROVE  /\ CleanSubtrees(filledSubtrees, isLeaf')
           /\ Clean(currentRoot, DEPTH, isLeaf')
           /\ \A epoch \in Epochs : Clean(finalRoot[epoch], DEPTH, isLeaf')
           /\ \A source \in Sources, i \in Entries :
                 ring'[source][i].slot # -1 => Clean(ring'[source][i].root, DEPTH, isLeaf')
BY CleanGrows DEF CleanRoots, CleanSubtrees

(***************************************************************************)
(* Appending up to two leaves, after a roll of the epoch or without one.   *)
(***************************************************************************)
LEMMA AppendLeavesIsClean ==
    ASSUME CleanRoots, NEW cms, Len(cms) \in 0..2, AppendLeaves(cms), UNCHANGED ring
    PROVE  CleanRoots' /\ isLeaf' = isLeaf \cup Contents(cms)
<1> DEFINE count == Len(cms)
           roll  == MustRoll(count)
           start == IF roll THEN 0 ELSE nextIndex
           none  == IF roll THEN NoSubtrees ELSE filledSubtrees
           one   == IF count >= 1 THEN InsertLeaf(none, start, cms[1]) ELSE none
           two   == IF count = 2 THEN InsertLeaf(one, start + 1, cms[2]) ELSE one
           base  == IF roll THEN EMPTY_ROOT ELSE currentRoot
<1>1. /\ finalRoot' = IF roll THEN ClosedRoots ELSE finalRoot
      /\ filledSubtrees' = two
      /\ currentRoot' = IF count = 0 THEN base ELSE ComputeRoot(two, start + count)
      /\ isLeaf' = isLeaf \cup Contents(cms)
    BY DEF AppendLeaves, Contents
<1>2. isLeaf \subseteq isLeaf' /\ \A i \in 1..count : cms[i] \in isLeaf'
    BY <1>1 DEF Contents
<1>3. /\ CleanSubtrees(filledSubtrees, isLeaf')
      /\ Clean(currentRoot, DEPTH, isLeaf')
      /\ \A epoch \in Epochs : Clean(finalRoot[epoch], DEPTH, isLeaf')
      /\ \A source \in Sources, i \in Entries :
            ring'[source][i].slot # -1 => Clean(ring'[source][i].root, DEPTH, isLeaf')
    BY <1>2, RootsStayClean
<1>4. CleanSubtrees(none, isLeaf')
    BY <1>3, ZeroIsCleanRoot
<1>5. CleanSubtrees(one, isLeaf')
    <2> HIDE DEF none, start
    <2>1. CASE count >= 1
        <3>1. cms[1] \in isLeaf'
            BY <1>2, <2>1
        <3>2. CleanSubtrees(InsertLeaf(none, start, cms[1]), isLeaf')
            BY <1>4, <3>1, InsertKeepsClean
        <3> QED
            BY <2>1, <3>2
    <2>2. CASE ~(count >= 1)
        BY <1>4, <2>2
    <2> QED
        BY <2>1, <2>2
<1>6. CleanSubtrees(two, isLeaf')
    <2> HIDE DEF one, start
    <2>1. CASE count = 2
        <3>1. cms[2] \in isLeaf'
            BY <1>2, <2>1
        <3>2. CleanSubtrees(InsertLeaf(one, start + 1, cms[2]), isLeaf')
            BY <1>5, <3>1, InsertKeepsClean
        <3> QED
            BY <2>1, <3>2
    <2>2. CASE count # 2
        BY <1>5, <2>2
    <2> QED
        BY <2>1, <2>2
<1> HIDE DEF two, start
<1>7. Clean(currentRoot', DEPTH, isLeaf')
    <2>1. Clean(base, DEPTH, isLeaf')
        BY <1>3, ZeroIsCleanRoot
    <2>2. Clean(ComputeRoot(two, start + count), DEPTH, isLeaf')
        BY <1>6, ComputedRootIsClean
    <2> QED
        BY <1>1, <2>1, <2>2
<1>8. /\ finalRoot' = [epoch \in Epochs |-> finalRoot'[epoch]]
      /\ \A epoch \in Epochs : finalRoot'[epoch] \in {finalRoot[epoch], currentRoot}
    BY <1>1 DEF ClosedRoots, CleanRoots
<1>9. \A epoch \in Epochs : Clean(finalRoot'[epoch], DEPTH, isLeaf')
    BY <1>3, <1>8
<1> QED
    BY <1>1, <1>3, <1>6, <1>7, <1>8, <1>9 DEF CleanRoots

\* The leaves that are appended are notes if their commitments are.
LEMMA AppendedAreNotes ==
    ASSUME LeavesAreNotes, NEW cms, Len(cms) \in 0..2, AppendLeaves(cms),
           \A cm \in Contents(cms) : cm \in Commitments /\ cm.value > 0
    PROVE  LeavesAreNotes'
<1> DEFINE epoch == IF MustRoll(Len(cms)) THEN currentEpoch + 1 ELSE currentEpoch
           start == IF MustRoll(Len(cms)) THEN 0 ELSE nextIndex
           added == {[cm |-> cms[i], epoch |-> epoch, index |-> start + i - 1] : i \in 1..Len(cms)}
<1>1. leaves' = leaves \cup added
    BY Zenon DEF AppendLeaves
<1>2. isLeaf' = isLeaf \cup Contents(cms)
    BY DEF AppendLeaves, Contents
<1>3. {leaf.cm : leaf \in leaves'} = {leaf.cm : leaf \in leaves} \cup Contents(cms)
    <2> HIDE DEF epoch, start
    <2> DEFINE event(i) == [cm |-> cms[i], epoch |-> epoch, index |-> start + i - 1]
    <2>1. {leaf.cm : leaf \in added} = Contents(cms)
        <3>1. added = {event(i) : i \in 1..Len(cms)} /\ \A i : event(i).cm = cms[i]
            OBVIOUS
        <3> HIDE DEF added, event
        <3> QED
            BY <3>1 DEF Contents
    <2> HIDE DEF added
    <2> QED
        BY <1>1, <2>1
<1>4. IsFiniteSet(isLeaf')
    <2>1. Contents(cms) = {} \/ Contents(cms) = {cms[1]} \/ Contents(cms) = {cms[1], cms[2]}
        <3>1. Len(cms) = 0 \/ Len(cms) = 1 \/ Len(cms) = 2
            OBVIOUS
        <3> QED
            BY <3>1 DEF Contents
    <2>2. IsFiniteSet(isLeaf \cup {}) /\ IsFiniteSet(isLeaf \cup {cms[1]})
        BY FS_AddElement DEF LeavesAreNotes
    <2>3. IsFiniteSet((isLeaf \cup {cms[1]}) \cup {cms[2]})
        BY <2>2, FS_AddElement
    <2>4. isLeaf \cup {cms[1], cms[2]} = (isLeaf \cup {cms[1]}) \cup {cms[2]}
        OBVIOUS
    <2> QED
        BY <1>2, <2>1, <2>2, <2>3, <2>4
<1> QED
    BY <1>2, <1>3, <1>4 DEF LeavesAreNotes

-----------------------------------------------------------------------------
(***************************************************************************)
(* The pending transactions.  Each was made by a wallet and would be       *)
(* approved, so that what it consumes and creates are notes of wallets.    *)
(***************************************************************************)
ProofOf(tx) == tx.frames[1].data.proof

\* The notes of value of two.
OfValue(a, b) == {cm \in {a, b} : cm.value > 0}

\* The notes a transaction proves to spend, and the notes it creates.
Input(tx, k) == InputCommitment(ProofOf(tx).inputs[k])
Outputs(tx) == Contents(NewOutputs(SpendOf(tx)))

WalletMade(tx) ==
    /\ Approves(tx)
    /\ tx.maxCost \in Nat
    /\ SpendOf(tx).recipient \in Accounts \cup {NoAddress}
    /\ \A k \in 1..2 :
           /\ ProofOf(tx).inputs[k].spendKey = SpendKey
           /\ Input(tx, k) \in Commitments
           /\ \/ ProofOf(tx).outputs[k].value = 0
              \/ ProofOf(tx).outputs[k].inner \in {Inner(SpendKey, rho) : rho \in Rhos}

MempoolIsMade ==
    /\ usedSigners \subseteq Authorizers
    /\ \A tx \in mempool : WalletMade(tx) /\ SpendOf(tx).authorizer \in usedSigners

\* What approval says of the inputs, the amounts and the reference of a spend.
LEMMA ApprovedSpend ==
    ASSUME NEW tx, WalletMade(tx)
    PROVE  LET s == SpendOf(tx)
           IN  /\ s.nf1 = LeafNullifier(Input(tx, 1)) /\ s.nf2 = LeafNullifier(Input(tx, 2))
               /\ tx.nonceKeys = {s.nf1, s.nf2} /\ tx.nonceKeys \subseteq Nullifiers
               /\ Input(tx, 1) # Input(tx, 2)
               /\ Input(tx, 1).value \in Nat /\ Input(tx, 2).value \in Nat
               /\ s.outCm1.value \in Nat /\ s.outCm2.value \in Nat
               /\ s.publicAmount \in Nat /\ s.fee \in Nat /\ s.fee >= tx.maxCost
               /\ s.publicAmount = 0 <=> s.recipient = NoAddress
               /\ Input(tx, 1).value + Input(tx, 2).value =
                      s.outCm1.value + s.outCm2.value + s.publicAmount + s.fee
               /\ Input(tx, 1).value + Input(tx, 2).value > 0
               /\ \A k \in 1..2 : Input(tx, k).value > 0 => Opens(s.root, Input(tx, k))
               /\ tx.refs[1] = [source |-> s.epoch, slot |-> s.rootSlot, root |-> s.root]
               /\ Len(tx.refs) = 1
<1> DEFINE s == SpendOf(tx)
           w == ProofOf(tx)
<1>1. /\ s.domain = PoolDomain /\ CircuitAccepts(w, s)
      /\ tx.nonceKeys = {s.nf1, s.nf2} /\ s.fee >= tx.maxCost
      /\ tx.refs[1] = [source |-> s.epoch, slot |-> s.rootSlot, root |-> s.root]
      /\ Len(tx.refs) = 1
    BY DEF WalletMade, Approves, VerifyProof, KeysBound, FeeCovers, Shape, RootBound, sourceId,
           SpendOf, ProofOf
<1>2. \A k \in 1..2 : /\ w.inputs[k].spendKey = SpendKey
                       /\ InputCommitment(w.inputs[k]) \in Commitments
    BY DEF WalletMade, Input
<1> HIDE DEF s, w
<1>3. \A k \in 1..2 :
          /\ InputCommitment(w.inputs[k]).inner.spendKey = w.inputs[k].spendKey
          /\ InputCommitment(w.inputs[k]).value = w.inputs[k].value
    BY DEF InputCommitment, Commit, Inner
<1>4. /\ s.nf1 = LeafNullifier(InputCommitment(w.inputs[1]))
      /\ s.nf2 = LeafNullifier(InputCommitment(w.inputs[2]))
      /\ s.nf1 # s.nf2
    BY <1>1, <1>2, <1>3 DEF CircuitAccepts, InputNullifier, LeafNullifier
<1>5. tx.nonceKeys \subseteq Nullifiers
    BY <1>1, <1>2, <1>3, <1>4 DEF LeafNullifier, Nullifiers
<1>6. /\ \A k \in 1..2 : w.inputs[k].value \in Nat /\ w.outputs[k].value \in Nat
      /\ s.publicAmount \in Nat /\ s.fee \in Nat
    BY <1>1, ValueAssumption DEF CircuitAccepts, Conserved, InRange
<1>7. s.outCm1.value = w.outputs[1].value /\ s.outCm2.value = w.outputs[2].value
    BY <1>1 DEF CircuitAccepts, OutputCommitment, Commit
<1>8. /\ w.inputs[1].value + w.inputs[2].value =
             w.outputs[1].value + w.outputs[2].value + s.publicAmount + s.fee
      /\ w.inputs[1].value + w.inputs[2].value > 0
    BY <1>1, ValueConserved
<1>9. \A k \in 1..2 :
          w.inputs[k].value > 0 => Opens(s.root, InputCommitment(w.inputs[k]))
    BY <1>1, <1>6 DEF CircuitAccepts, Member
<1>10. s.publicAmount = 0 <=> s.recipient = NoAddress
    BY <1>1 DEF CircuitAccepts
<1> QED
    BY <1>1, <1>3, <1>4, <1>5, <1>6, <1>7, <1>8, <1>9, <1>10 DEF s, w, Input

\* The outputs that are appended are those of value, and are notes of wallets.
LEMMA ApprovedOutputs ==
    ASSUME NEW tx, WalletMade(tx)
    PROVE  LET s == SpendOf(tx)
           IN  /\ Len(NewOutputs(s)) \in 0..2
               /\ Outputs(tx) = OfValue(s.outCm1, s.outCm2)
               /\ s.outCm1 # s.outCm2
               /\ \A cm \in Outputs(tx) :
                      cm \in Commitments /\ cm.inner \in {Inner(SpendKey, rho) : rho \in Rhos}
<1> DEFINE s == SpendOf(tx)
           w == ProofOf(tx)
<1>1. CircuitAccepts(w, s)
    BY DEF WalletMade, Approves, VerifyProof, SpendOf, ProofOf
<1>2. \A k \in 1..2 : \/ w.outputs[k].value = 0
                       \/ w.outputs[k].inner \in {Inner(SpendKey, rho) : rho \in Rhos}
    BY DEF WalletMade
<1> HIDE DEF s, w
<1>3. /\ s.outCm1 = [inner |-> w.outputs[1].inner, value |-> w.outputs[1].value]
      /\ s.outCm2 = [inner |-> w.outputs[2].inner, value |-> w.outputs[2].value]
      /\ s.outCm1 # s.outCm2
      /\ \A k \in 1..2 : w.outputs[k].value \in 0..(MAX_VALUE - 1)
      /\ w.outputs[1].value = 0 => w.outputs[1].inner = SinkInner0
      /\ w.outputs[2].value = 0 => w.outputs[2].inner = SinkInner1
    BY <1>1 DEF CircuitAccepts, OutputCommitment, Commit, OutputRules, Conserved, InRange
<1>4. (s.outCm1 = SINK_0 <=> ~(s.outCm1.value > 0)) /\ (s.outCm2 = SINK_1 <=> ~(s.outCm2.value > 0))
    BY <1>3, ValueAssumption DEF SINK_0, SINK_1, Commit
<1>5. /\ Len(NewOutputs(s)) \in 0..2
      /\ Contents(NewOutputs(s)) = OfValue(s.outCm1, s.outCm2)
    <2>1. CASE s.outCm1 = SINK_0 /\ s.outCm2 = SINK_1
        <3>1. NewOutputs(s) = <<>> /\ Contents(<<>>) = {}
            BY <2>1 DEF NewOutputs, Contents
        <3> QED
            BY <1>4, <2>1, <3>1 DEF OfValue
    <2>2. CASE s.outCm1 = SINK_0 /\ s.outCm2 # SINK_1
        <3>1. NewOutputs(s) = <<s.outCm2>> /\ Contents(<<s.outCm2>>) = {s.outCm2}
            BY <2>2 DEF NewOutputs, Contents
        <3> QED
            BY <1>4, <2>2, <3>1 DEF OfValue
    <2>3. CASE s.outCm1 # SINK_0 /\ s.outCm2 = SINK_1
        <3>1. NewOutputs(s) = <<s.outCm1>> /\ Contents(<<s.outCm1>>) = {s.outCm1}
            BY <2>3 DEF NewOutputs, Contents
        <3> QED
            BY <1>4, <2>3, <3>1 DEF OfValue
    <2>4. CASE s.outCm1 # SINK_0 /\ s.outCm2 # SINK_1
        <3>1. /\ NewOutputs(s) = <<s.outCm1, s.outCm2>>
              /\ Contents(<<s.outCm1, s.outCm2>>) = {s.outCm1, s.outCm2}
            BY <2>4 DEF NewOutputs, Contents
        <3> QED
            BY <1>4, <2>4, <3>1 DEF OfValue
    <2> QED
        BY <2>1, <2>2, <2>3, <2>4
<1>6. ASSUME NEW cm \in {s.outCm1, s.outCm2}, cm.value > 0
      PROVE  cm \in Commitments /\ cm.inner \in {Inner(SpendKey, rho) : rho \in Rhos}
    BY <1>2, <1>3, <1>6, ValueAssumption DEF Commitments
<1> QED
    BY <1>3, <1>5, <1>6 DEF s, Outputs, OfValue

\* The root that a valid transaction refers to is clean.
LEMMA ReferencedRootIsClean ==
    ASSUME PoolIInv, CleanRoots, NEW tx, PrefixValid(tx)
    PROVE  Clean(SpendOf(tx).root, DEPTH, isLeaf)
<1> DEFINE s == SpendOf(tx)
<1>1. tx.refs[1] = [source |-> s.epoch, slot |-> s.rootSlot, root |-> s.root] /\ Len(tx.refs) = 1
    BY DEF PrefixValid, Approves, Shape, RootBound, sourceId, SpendOf
<1>2. ReferenceValid(s.epoch, s.rootSlot, s.root)
    BY <1>1 DEF PrefixValid
<1>3. /\ s.epoch \in Sources /\ s.rootSlot \in Nat
      /\ ring[s.epoch][s.rootSlot % RING_LENGTH] = [slot |-> s.rootSlot, root |-> s.root]
    BY <1>2 DEF ReferenceValid, Committed
<1>4. s.rootSlot % RING_LENGTH \in Entries
    BY <1>3, RingAssumption DEF Entries
<1> HIDE DEF s
<1>5. Clean(s.root, DEPTH, isLeaf)
    BY <1>3, <1>4 DEF CleanRoots
<1> QED
    BY <1>5 DEF s

(***************************************************************************)
(* What a valid transaction spends are leaves: the membership proof is of  *)
(* a root that was published, and such a root opens to nothing else.       *)
(***************************************************************************)
LEMMA InputsAreLeaves ==
    ASSUME PoolIInv, CleanRoots, NEW tx, WalletMade(tx), PrefixValid(tx), NEW k \in 1..2,
           Input(tx, k).value > 0
    PROVE  Input(tx, k) \in isLeaf
<1>1. Clean(SpendOf(tx).root, DEPTH, isLeaf)
    BY ReferencedRootIsClean
<1>2. Opens(SpendOf(tx).root, Input(tx, k))
    BY ApprovedSpend
<1>3. Input(tx, k) \in isLeaf \cup {Zero}
    BY <1>1, <1>2, CleanRootOpensToLeaves
<1>4. Input(tx, k) \in Commitments
    BY DEF WalletMade
<1> QED
    BY <1>3, <1>4, HashAssumption

-----------------------------------------------------------------------------
(***************************************************************************)
(* Unless inners may be reused, nothing else will create the commitments   *)
(* that a pending transaction creates.                                     *)
(***************************************************************************)
FreshPending ==
    ~ReuseInners =>
        /\ \A tx \in mempool : \A cm \in Outputs(tx), leaf \in isLeaf : cm.inner # leaf.inner
        /\ \A tx, ux \in mempool :
               tx # ux => \A cm \in Outputs(tx), dm \in Outputs(ux) : cm.inner # dm.inner

\* An override changes neither the settlement nor the proof.
LEMMA OverriddenSpend ==
    ASSUME NEW w, NEW s, NEW flag
    PROVE  LET tx == Overridden(FrameTx(w, s), flag)
           IN  SpendOf(tx) = s /\ ProofOf(tx) = w /\ tx.maxCost \in {s.fee, HighCost}
<1> DEFINE t == FrameTx(w, s)
<1>1. SpendOf(t) = s /\ ProofOf(t) = w /\ t.maxCost = s.fee
    BY DEF FrameTx, SpendOf, ProofOf
<1>2. /\ t.frames = <<t.frames[1], t.frames[2]>>
      /\ t = [sender |-> t.sender, nonceKeys |-> t.nonceKeys, nonceSeq |-> t.nonceSeq,
              frames |-> t.frames, signatures |-> t.signatures, blobs |-> t.blobs,
              refs |-> t.refs, maxCost |-> t.maxCost]
      /\ t.frames[2] = [mode |-> t.frames[2].mode, flags |-> t.frames[2].flags,
                        target |-> t.frames[2].target, gas |-> t.frames[2].gas,
                        value |-> t.frames[2].value, data |-> t.frames[2].data]
    BY DEF FrameTx
<1> HIDE DEF t
<1>3. /\ [t EXCEPT !.nonceKeys = {SpendOf(t).nf2, OtherKey}].frames = t.frames
      /\ [t EXCEPT !.nonceKeys = {SpendOf(t).nf2, OtherKey}].maxCost = t.maxCost
    BY <1>2
<1>4. /\ [t EXCEPT !.maxCost = HighCost].frames = t.frames
      /\ [t EXCEPT !.maxCost = HighCost].maxCost = HighCost
    BY <1>2
<1>5. /\ [t EXCEPT !.frames[2].gas = LowGas].maxCost = t.maxCost
      /\ [t EXCEPT !.frames[2].gas = LowGas].frames = [t.frames EXCEPT ![2].gas = LowGas]
    BY <1>2
<1>6. /\ [t.frames EXCEPT ![2].gas = LowGas][1] = t.frames[1]
      /\ [t.frames EXCEPT ![2].gas = LowGas][2].data = t.frames[2].data
    BY <1>2
<1> QED
    BY <1>1, <1>3, <1>4, <1>5, <1>6 DEF t, Overridden, SpendOf, ProofOf

\* The secrets a wallet knows are those of notes of wallets.
LEMMA KnownNotesAreNotes ==
    ASSUME LeavesAreNotes, MempoolIsMade, NEW signer \in Authorizers,
           NEW note \in KnownNotes \cup {DummyInput(signer)}
    PROVE  note.spendKey = SpendKey /\ InputCommitment(note) \in Commitments
<1>1. ASSUME NEW spendKey, NEW rho \in Rhos \cup Authorizers, NEW value \in 0..(MAX_VALUE - 1),
             spendKey = SpendKey, note = [spendKey |-> spendKey, rho |-> rho, value |-> value]
      PROVE  note.spendKey = SpendKey /\ InputCommitment(note) \in Commitments
    BY <1>1 DEF InputCommitment, Commit, Inner, Commitments
<1>2. CASE note = DummyInput(signer)
    BY <1>1, <1>2, ValueAssumption DEF DummyInput
<1>3. ASSUME NEW leaf \in leaves,
             note = [spendKey |-> leaf.cm.inner.spendKey, rho |-> leaf.cm.inner.rho,
                     value |-> leaf.cm.value]
      PROVE  note.spendKey = SpendKey /\ InputCommitment(note) \in Commitments
    <2>1. leaf.cm \in Commitments
        BY <1>3 DEF LeavesAreNotes
    <2>2. PICK rho \in Rhos \cup Authorizers : leaf.cm.inner = [spendKey |-> SpendKey, rho |-> rho]
        BY <2>1 DEF Commitments, Inner
    <2>3. leaf.cm.value \in 0..(MAX_VALUE - 1)
        BY <2>1 DEF Commitments
    <2> QED
        BY <1>1, <1>3, <2>2, <2>3
<1>4. ASSUME NEW tx \in mempool, NEW k \in 1..2, ProofOf(tx).outputs[k].value > 0,
             note = [spendKey |-> ProofOf(tx).outputs[k].inner.spendKey,
                     rho |-> ProofOf(tx).outputs[k].inner.rho,
                     value |-> ProofOf(tx).outputs[k].value]
      PROVE  note.spendKey = SpendKey /\ InputCommitment(note) \in Commitments
    <2>1. WalletMade(tx)
        BY <1>4 DEF MempoolIsMade
    <2>2. CircuitAccepts(ProofOf(tx), SpendOf(tx))
        BY <2>1 DEF WalletMade, Approves, VerifyProof, SpendOf, ProofOf
    <2>3. ProofOf(tx).outputs[k].value \in 0..(MAX_VALUE - 1)
        BY <2>2 DEF CircuitAccepts, Conserved, InRange
    <2>4. PICK rho \in Rhos : ProofOf(tx).outputs[k].inner = [spendKey |-> SpendKey, rho |-> rho]
        BY <1>4, <2>1, <2>3 DEF WalletMade, Inner
    <2> QED
        BY <1>1, <1>4, <2>3, <2>4
<1> DEFINE ofLeaf(leaf) == [spendKey |-> leaf.cm.inner.spendKey, rho |-> leaf.cm.inner.rho,
                            value |-> leaf.cm.value]
           ofOutput(out) == [spendKey |-> out.inner.spendKey, rho |-> out.inner.rho,
                             value |-> out.value]
           paid(tx) == {ProofOf(tx).outputs[k] : k \in {i \in 1..2 : ProofOf(tx).outputs[i].value > 0}}
           ofTx(tx) == {ofOutput(out) : out \in paid(tx)}
<1>5. KnownNotes = {ofLeaf(leaf) : leaf \in leaves} \cup UNION {ofTx(tx) : tx \in mempool}
    BY DEF KnownNotes, ProofOf
<1>6. \A tx : \A out \in paid(tx) :
          \E k \in 1..2 : ProofOf(tx).outputs[k].value > 0 /\ out = ProofOf(tx).outputs[k]
    OBVIOUS
<1>7. CASE \E leaf \in leaves : note = ofLeaf(leaf)
    BY <1>3, <1>7
<1>8. CASE \E tx \in mempool : \E out \in paid(tx) : note = ofOutput(out)
    BY <1>4, <1>6, <1>8
<1> HIDE DEF ofLeaf, ofOutput, paid
<1> QED
    BY <1>2, <1>5, <1>7, <1>8

(***************************************************************************)
(* What BuildSpend submits is made by a wallet, and pays to inners not in  *)
(* use.                                                                    *)
(***************************************************************************)
LEMMA BuiltSpend ==
    ASSUME LeavesAreNotes, MempoolIsMade,
           NEW signer \in Authorizers, NEW ref, NEW first \in KnownNotes,
           NEW second \in KnownNotes \cup {DummyInput(signer)}, NEW fee, NEW flag,
           BuildSpend(signer, ref, first, second, fee, flag)
    PROVE  /\ UNCHANGED <<logicVars, consumedKeys, burned, feesCollected>>
           /\ signer \notin usedSigners /\ usedSigners' = usedSigners \cup {signer}
           /\ \E tx : /\ mempool' = mempool \cup {tx}
                      /\ WalletMade(tx) /\ SpendOf(tx).authorizer = signer
                      /\ ~ReuseInners => \A cm \in Outputs(tx) : cm.inner \notin InnersInUse
<1> DEFINE total == first.value + second.value
           inputs == <<first, second>>
           W(outputs) == [inputs |-> inputs, outputs |-> outputs]
           S(publicAmount, recipient, outputs) ==
               SpendFor(inputs, outputs, ref, publicAmount, fee, recipient, signer)
           Tx(publicAmount, recipient, outputs) ==
               Overridden(FrameTx(W(outputs), S(publicAmount, recipient, outputs)), flag)
<1>1. PICK publicAmount \in 0..(total - fee), recipient \in Accounts \cup {NoAddress} :
          \E outputs \in OutputPairs(total - fee - publicAmount) :
              /\ WellChosen(outputs)
              /\ SimulatesWell(Tx(publicAmount, recipient, outputs))
              /\ mempool' = mempool \cup {Tx(publicAmount, recipient, outputs)}
    BY Zenon DEF BuildSpend
<1>2. PICK outputs \in OutputPairs(total - fee - publicAmount) :
          /\ WellChosen(outputs)
          /\ SimulatesWell(Tx(publicAmount, recipient, outputs))
          /\ mempool' = mempool \cup {Tx(publicAmount, recipient, outputs)}
    BY <1>1
<1> DEFINE w == W(outputs)
           s == S(publicAmount, recipient, outputs)
           tx == Tx(publicAmount, recipient, outputs)
<1>3. SpendOf(tx) = s /\ ProofOf(tx) = w /\ tx.maxCost \in {s.fee, HighCost}
    BY OverriddenSpend
<1>4. Approves(tx)
    BY <1>2 DEF SimulatesWell, PrefixValid
<1>5. CircuitAccepts(w, s)
    BY <1>3, <1>4 DEF Approves, VerifyProof, SpendOf, ProofOf
<1>6. /\ w.inputs[1] = first /\ w.inputs[2] = second /\ w.outputs = outputs
      /\ s.recipient = recipient /\ s.authorizer = signer
      /\ s.outCm1 = OutputCommitment(outputs[1]) /\ s.outCm2 = OutputCommitment(outputs[2])
    BY DEF SpendFor
<1> HIDE DEF tx, s, w
<1>7. tx.maxCost \in Nat
    BY <1>3, <1>5, PoolAssumption, ValueAssumption DEF CircuitAccepts, Conserved, InRange
<1>8. /\ outputs[1].inner \in PayableInners \cup {SinkInner0}
      /\ outputs[2].inner \in PayableInners \cup {SinkInner1}
    BY <1>2 DEF OutputPairs
<1>9. /\ outputs[1].value = 0 \/ outputs[1].inner \in PayableInners
      /\ outputs[2].value = 0 \/ outputs[2].inner \in PayableInners
    BY <1>2, <1>8 DEF WellChosen
<1>10. PayableInners \subseteq {Inner(SpendKey, rho) : rho \in Rhos}
    BY DEF PayableInners
<1>11. \A k \in 1..2 : ProofOf(tx).inputs[k].spendKey = SpendKey /\ Input(tx, k) \in Commitments
    <2>1. /\ first.spendKey = SpendKey /\ InputCommitment(first) \in Commitments
          /\ second.spendKey = SpendKey /\ InputCommitment(second) \in Commitments
        BY KnownNotesAreNotes
    <2> QED
        BY <1>3, <1>6, <2>1 DEF Input
<1>12. WalletMade(tx)
    BY <1>3, <1>4, <1>6, <1>7, <1>9, <1>10, <1>11 DEF WalletMade
<1>13. ASSUME ~ReuseInners, NEW cm \in Outputs(tx)
       PROVE  cm.inner \notin InnersInUse
    <2>1. cm \in {s.outCm1, s.outCm2} /\ cm.value > 0
        BY <1>3, <1>12, ApprovedOutputs DEF OfValue
    <2>2. \E k \in 1..2 : cm.inner = outputs[k].inner /\ cm.value = outputs[k].value
        BY <1>6, <2>1 DEF OutputCommitment, Commit
    <2>3. cm.inner \in PayableInners
        BY <1>9, <2>1, <2>2
    <2> QED
        BY <1>13, <2>3 DEF PayableInners
<1>14. mempool' = mempool \cup {tx}
    BY <1>2 DEF tx
<1>15. /\ UNCHANGED <<logicVars, consumedKeys, burned, feesCollected>>
       /\ signer \notin usedSigners /\ usedSigners' = usedSigners \cup {signer}
    BY DEF BuildSpend
<1> QED
    BY <1>3, <1>6, <1>12, <1>13, <1>14, <1>15

-----------------------------------------------------------------------------
(***************************************************************************)
(* The two outcomes of including a spend.                                  *)
(***************************************************************************)
Charged(tx, cost) ==
    /\ PrefixValid(tx)
    /\ mempool' = mempool \ {tx}
    /\ consumedKeys' = consumedKeys \cup tx.nonceKeys
    /\ balance' = balance - cost
    /\ UNCHANGED <<usedSigners, rootsVars>>

TakesEffect(tx, cost) ==
    LET s == SpendOf(tx)
    IN  /\ Charged(tx, cost)
        /\ ~DuplicateOutput(s)
        /\ WithinEpochs(Len(NewOutputs(s)))
        /\ AppendLeaves(NewOutputs(s))
        /\ withdrawalCredit' =
               IF s.publicAmount = 0 THEN withdrawalCredit
               ELSE [withdrawalCredit EXCEPT ![s.recipient] = @ + s.publicAmount]
        /\ feesCollected' = feesCollected + s.fee
        /\ UNCHANGED burned

Burns(tx, cost) ==
    /\ Charged(tx, cost)
    /\ DuplicateOutput(SpendOf(tx))
    /\ burned' = burned \cup {SpendOf(tx)}
    /\ UNCHANGED <<treeVars, withdrawalCredit, feesCollected>>

LEMMA IncludedSpend ==
    ASSUME PoolIInv, NEW tx, NEW cost, IncludeSpend(tx, cost)
    PROVE  TakesEffect(tx, cost) \/ Burns(tx, cost)
<1> DEFINE s == SpendOf(tx)
<1>1. PrefixValid(tx)
    BY DEF IncludeSpend
<1>2. WellFormed(s) /\ ~MayRunOut(tx)
    BY <1>1, ApprovedIsWellFormed DEF PrefixValid
<1>3. s.epoch <= currentEpoch
    BY <1>1, ReferencedEpochExists
<1>4. SettleAccepts(Pool, s) <=> ~DuplicateOutput(s)
    BY <1>2, <1>3 DEF SettleAccepts
<1>5. /\ mempool' = mempool \ {tx} /\ consumedKeys' = consumedKeys \cup tx.nonceKeys
      /\ UNCHANGED usedSigners
    BY DEF IncludeSpend
<1>6. \/ /\ SettleAccepts(Pool, s)
         /\ WithinEpochs(Len(NewOutputs(s)))
         /\ SettleEffects(s, cost)
         /\ feesCollected' = feesCollected + s.fee
         /\ UNCHANGED burned
      \/ /\ ~SettleAccepts(Pool, s) \/ MayRunOut(tx)
         /\ burned' = burned \cup {s}
         /\ balance' = balance - cost
         /\ UNCHANGED <<treeVars, withdrawalCredit, rootsVars, feesCollected>>
    BY DEF IncludeSpend
<1> QED
    BY <1>1, <1>2, <1>4, <1>5, <1>6 DEF TakesEffect, Burns, Charged, SettleEffects

-----------------------------------------------------------------------------
(***************************************************************************)
(* The value of sets of notes.                                             *)
(***************************************************************************)
ValueOf(notes) == SumFunction([note \in notes |-> note.value])

LEMMA ValueIsSum ==
    ASSUME NEW B, IsFiniteSet(B), \A note \in B : note.value \in Nat, NEW A, A \subseteq B
    PROVE  ValueOf(A) = SumFunctionOnSet([note \in B |-> note.value], A) /\ ValueOf(A) \in Nat
<1> DEFINE f == [note \in A |-> note.value]
           g == [note \in B |-> note.value]
<1>1. IsFiniteSet(A)
    BY FS_Subset
<1>2. DOMAIN f = A /\ \A note \in A : f[note] \in Nat /\ f[note] = g[note]
    OBVIOUS
<1> HIDE DEF f, g
<1>3. SumFunctionOnSet(f, A) = SumFunctionOnSet(g, A) /\ SumFunctionOnSet(f, A) \in Nat
    BY <1>1, <1>2, SumAgrees, SumType
<1>4. SumFunction(f) = SumFunctionOnSet(f, A)
    BY <1>2 DEF SumFunction
<1> QED
    BY <1>3, <1>4 DEF f, g, ValueOf

LEMMA ValueOfParts ==
    ASSUME NEW B, IsFiniteSet(B), \A note \in B : note.value \in Nat, NEW A, A \subseteq B
    PROVE  /\ ValueOf(B) = ValueOf(A) + ValueOf(B \ A)
           /\ ValueOf(A) \in Nat /\ ValueOf(B) \in Nat /\ ValueOf(B \ A) \in Nat
<1> DEFINE g == [note \in B |-> note.value]
<1>1. \A note \in B : g[note] \in Nat
    OBVIOUS
<1> HIDE DEF g
<1>2. SumFunctionOnSet(g, B) = SumFunctionOnSet(g, A) + SumFunctionOnSet(g, B \ A)
    BY <1>1, SumOfParts
<1>3. /\ ValueOf(A) = SumFunctionOnSet(g, A) /\ ValueOf(A) \in Nat
      /\ ValueOf(B) = SumFunctionOnSet(g, B) /\ ValueOf(B) \in Nat
      /\ ValueOf(B \ A) = SumFunctionOnSet(g, B \ A) /\ ValueOf(B \ A) \in Nat
    <2>1. B \subseteq B /\ B \ A \subseteq B
        OBVIOUS
    <2> QED
        BY <2>1, ValueIsSum DEF g
<1> QED
    BY <1>2, <1>3

LEMMA ValueOfOne ==
    /\ ValueOf({}) = 0
    /\ \A note : note.value \in Nat => ValueOf({note}) = note.value
<1>1. ASSUME NEW note, note.value \in Nat
      PROVE  ValueOf({}) = 0 /\ ValueOf({note}) = note.value
    <2> DEFINE g == [n \in {note} |-> n.value]
    <2>1. IsFiniteSet({note}) /\ IsFiniteSet({}) /\ {} \cup {note} = {note} /\ {} \subseteq {note}
        BY FS_Singleton, FS_EmptySet
    <2>2. g[note] = note.value /\ \A n \in {note} : n.value \in Nat
        BY <1>1
    <2>3. /\ ValueOf({note}) = SumFunctionOnSet(g, {note})
          /\ ValueOf({}) = SumFunctionOnSet(g, {})
        BY <2>1, <2>2, ValueIsSum
    <2> HIDE DEF g
    <2>4. SumFunctionOnSet(g, {}) = 0
        BY SumEmpty
    <2>5. SumFunctionOnSet(g, {} \cup {note}) = SumFunctionOnSet(g, {}) + g[note]
        BY <1>1, <2>1, <2>2, SumAdds
    <2> QED
        BY <1>1, <2>1, <2>2, <2>3, <2>4, <2>5
<1>2. [value |-> 0].value \in Nat
    OBVIOUS
<1> QED
    BY <1>1, <1>2

\* Two different notes, of which those without value are left out.
LEMMA ValueOfPair ==
    ASSUME NEW a, NEW b, a # b, a.value \in Nat, b.value \in Nat
    PROVE  /\ ValueOf(OfValue(a, b)) = a.value + b.value
           /\ IsFiniteSet(OfValue(a, b))
<1> DEFINE notes == OfValue(a, b)
<1>1. IsFiniteSet({a}) /\ IsFiniteSet({a, b}) /\ IsFiniteSet({b}) /\ IsFiniteSet({})
    <2>1. IsFiniteSet({a}) /\ IsFiniteSet({b}) /\ IsFiniteSet({}) /\ {a} \cup {b} = {a, b}
        BY FS_Singleton, FS_EmptySet
    <2> QED
        BY <2>1, FS_AddElement
<1>2. ValueOf({a}) = a.value /\ ValueOf({b}) = b.value /\ ValueOf({}) = 0
    BY ValueOfOne
<1>3. ValueOf({a, b}) = a.value + b.value
    <2>1. ValueOf({a, b}) = ValueOf({a}) + ValueOf({a, b} \ {a})
        BY <1>1, ValueOfParts
    <2>2. {a, b} \ {a} = {b}
        OBVIOUS
    <2> QED
        BY <1>2, <2>1, <2>2
<1>4. CASE a.value > 0 /\ b.value > 0
    <2>1. notes = {a, b}
        BY <1>4 DEF OfValue
    <2> QED
        BY <1>1, <1>3, <2>1
<1>5. CASE a.value > 0 /\ b.value = 0
    <2>1. notes = {a}
        BY <1>5 DEF OfValue
    <2>2. a.value = a.value + b.value
        BY <1>5
    <2> QED
        BY <1>1, <1>2, <2>1, <2>2, Zenon
<1>6. CASE a.value = 0 /\ b.value > 0
    <2>1. notes = {b}
        BY <1>6 DEF OfValue
    <2>2. b.value = a.value + b.value
        BY <1>6
    <2> QED
        BY <1>1, <1>2, <2>1, <2>2, Zenon
<1>7. CASE a.value = 0 /\ b.value = 0
    <2>1. notes = {}
        BY <1>7 DEF OfValue
    <2>2. 0 = a.value + b.value
        BY <1>7
    <2> QED
        BY <1>1, <1>2, <2>1, <2>2, Zenon
<1> QED
    BY <1>4, <1>5, <1>6, <1>7

-----------------------------------------------------------------------------
(***************************************************************************)
(* The invariant.  Every consumed key that could stand for a note of value *)
(* stands for a leaf, so a note that is appended later is not spent yet.   *)
(***************************************************************************)
KeysAreSpent ==
    /\ consumedKeys \subseteq Nullifiers
    /\ \A cm \in Commitments :
           cm.value > 0 /\ LeafNullifier(cm) \in consumedKeys => cm \in isLeaf

Money ==
    /\ withdrawalCredit \in [Accounts -> Nat]
    /\ balance \in Nat
    /\ feesCollected \in Nat
    /\ balance >= ValueOf(UnspentNotes) + SumFunction(withdrawalCredit)

NothingBurned == ~ReuseInners => burned = {}

NotesIInv == CleanRoots /\ LeavesAreNotes /\ MempoolIsMade /\ KeysAreSpent

\* What a transaction takes out of the unspent notes.
SpentBy(tx) == OfValue(Input(tx, 1), Input(tx, 2))

LEMMA ValueOfSpend ==
    ASSUME NEW tx, WalletMade(tx)
    PROVE  LET s == SpendOf(tx)
           IN  /\ ValueOf(SpentBy(tx)) = ValueOf(Outputs(tx)) + s.publicAmount + s.fee
               /\ ValueOf(SpentBy(tx)) \in Nat /\ ValueOf(Outputs(tx)) \in Nat
               /\ ValueOf(SpentBy(tx)) > 0
               /\ IsFiniteSet(SpentBy(tx)) /\ IsFiniteSet(Outputs(tx))
<1> DEFINE s == SpendOf(tx)
<1>1. /\ Input(tx, 1) # Input(tx, 2)
      /\ Input(tx, 1).value \in Nat /\ Input(tx, 2).value \in Nat
      /\ s.outCm1.value \in Nat /\ s.outCm2.value \in Nat
      /\ s.publicAmount \in Nat /\ s.fee \in Nat
      /\ Input(tx, 1).value + Input(tx, 2).value =
             s.outCm1.value + s.outCm2.value + s.publicAmount + s.fee
      /\ Input(tx, 1).value + Input(tx, 2).value > 0
    BY ApprovedSpend
<1>2. Outputs(tx) = OfValue(s.outCm1, s.outCm2) /\ s.outCm1 # s.outCm2
    BY ApprovedOutputs
<1> HIDE DEF s
<1>3. /\ ValueOf(SpentBy(tx)) = Input(tx, 1).value + Input(tx, 2).value
      /\ IsFiniteSet(SpentBy(tx))
    BY <1>1, ValueOfPair DEF SpentBy
<1>4. ValueOf(Outputs(tx)) = s.outCm1.value + s.outCm2.value /\ IsFiniteSet(Outputs(tx))
    BY <1>1, <1>2, ValueOfPair
<1> QED
    BY <1>1, <1>3, <1>4 DEF s

LEMMA NullifierIsOfOneNote ==
    \A a, b : LeafNullifier(a) = LeafNullifier(b) => a = b
BY DEF LeafNullifier, Nullifier

(***************************************************************************)
(* Approval consumes the keys of notes that were unspent, and of no other  *)
(* note of value.                                                          *)
(***************************************************************************)
LEMMA ChargedSpends ==
    ASSUME PoolIInv, NotesIInv, NEW tx \in mempool, NEW cost, Charged(tx, cost)
    PROVE  /\ SpentBy(tx) \subseteq UnspentNotes
           /\ consumedKeys' \subseteq Nullifiers
           /\ \A cm : cm.value > 0 =>
                 (LeafNullifier(cm) \in consumedKeys' <=>
                     LeafNullifier(cm) \in consumedKeys \/ cm \in SpentBy(tx))
<1>1. WalletMade(tx) /\ PrefixValid(tx)
    BY DEF NotesIInv, MempoolIsMade, Charged
<1>2. /\ tx.nonceKeys = {LeafNullifier(Input(tx, 1)), LeafNullifier(Input(tx, 2))}
      /\ tx.nonceKeys \subseteq Nullifiers
    BY <1>1, ApprovedSpend
<1>3. tx.nonceKeys \cap consumedKeys = {} /\ consumedKeys' = consumedKeys \cup tx.nonceKeys
    BY DEF Charged, PrefixValid
<1>4. \A k \in 1..2 : Input(tx, k).value > 0 => Input(tx, k) \in isLeaf
    BY <1>1, InputsAreLeaves DEF NotesIInv
<1>5. SpentBy(tx) \subseteq UnspentNotes
    BY <1>2, <1>3, <1>4 DEF SpentBy, OfValue, UnspentNotes, SpentNotes
<1>6. consumedKeys' \subseteq Nullifiers
    BY <1>2, <1>3 DEF NotesIInv, KeysAreSpent
<1>7. ASSUME NEW cm, cm.value > 0
      PROVE  LeafNullifier(cm) \in consumedKeys' <=>
                 LeafNullifier(cm) \in consumedKeys \/ cm \in SpentBy(tx)
    BY <1>2, <1>3, <1>7, NullifierIsOfOneNote DEF SpentBy, OfValue
<1> QED
    BY <1>5, <1>6, <1>7

-----------------------------------------------------------------------------
(***************************************************************************)
(* What each kind of step does to the notes.                               *)
(***************************************************************************)
NotesStay == UNCHANGED <<isLeaf, leaves, consumedKeys>>

LEMMA NotesStayStep ==
    ASSUME NotesStay
    PROVE  /\ UnspentNotes' = UnspentNotes /\ SpentNotes' = SpentNotes
           /\ LeavesAreNotes => LeavesAreNotes'
           /\ KeysAreSpent => KeysAreSpent'
BY DEF NotesStay, UnspentNotes, SpentNotes, LeavesAreNotes, KeysAreSpent

LEMMA DepositStep ==
    ASSUME PoolIInv, NotesIInv, NEW inner \in PayableInners, NEW value \in ShieldValues,
           Deposit(inner, value)
    PROVE  LET cm == Commit(inner, value)
           IN  /\ NotesIInv'
               /\ cm \notin isLeaf /\ isLeaf' = isLeaf \cup {cm}
               /\ UnspentNotes' = UnspentNotes \cup {cm} /\ SpentNotes' = SpentNotes
               /\ cm.value = value /\ value \in Nat /\ value > 0
<1> DEFINE cm == Commit(inner, value)
<1>1. /\ ShieldAccepts(inner, value) /\ AppendLeaves(<<cm>>)
      /\ UNCHANGED <<ring, consumedKeys, mempool, usedSigners>>
    BY DEF Deposit, Shield, OtherVars, rootsVars
<1>2. value \in Nat /\ value > 0 /\ value < MAX_VALUE /\ cm \notin isLeaf
    BY <1>1, PoolAssumption DEF ShieldAccepts
<1>3. cm \in Commitments /\ cm.value = value
    BY <1>2, ValueAssumption DEF Commitments, Commit, PayableInners
<1> HIDE DEF cm
<1>4. Len(<<cm>>) \in 0..2 /\ Contents(<<cm>>) = {cm}
    BY DEF Contents
<1>5. CleanRoots' /\ isLeaf' = isLeaf \cup {cm}
    BY <1>1, <1>4, AppendLeavesIsClean DEF NotesIInv
<1>6. LeavesAreNotes'
    BY <1>1, <1>2, <1>3, <1>4, AppendedAreNotes DEF NotesIInv
<1>7. MempoolIsMade'
    BY <1>1 DEF NotesIInv, MempoolIsMade
<1>8. KeysAreSpent'
    BY <1>1, <1>5 DEF NotesIInv, KeysAreSpent
<1>9. LeafNullifier(cm) \notin consumedKeys
    BY <1>2, <1>3 DEF NotesIInv, KeysAreSpent
<1>10. UnspentNotes' = UnspentNotes \cup {cm} /\ SpentNotes' = SpentNotes
    BY <1>1, <1>2, <1>5, <1>9 DEF UnspentNotes, SpentNotes
<1> QED
    BY <1>2, <1>3, <1>5, <1>6, <1>7, <1>8, <1>10 DEF cm, NotesIInv

LEMMA BuildSpendStep ==
    ASSUME NotesIInv,
           NEW signer \in Authorizers, NEW ref, NEW first \in KnownNotes,
           NEW second \in KnownNotes \cup {DummyInput(signer)}, NEW fee, NEW flag,
           BuildSpend(signer, ref, first, second, fee, flag)
    PROVE  NotesIInv' /\ NotesStay
<1>1. LeavesAreNotes /\ MempoolIsMade
    BY DEF NotesIInv
<1>2. /\ UNCHANGED <<logicVars, consumedKeys>> /\ usedSigners' = usedSigners \cup {signer}
      /\ \E tx : /\ mempool' = mempool \cup {tx}
                 /\ WalletMade(tx) /\ SpendOf(tx).authorizer = signer
    BY <1>1, BuiltSpend
<1>3. NotesStay
    BY <1>2 DEF NotesStay, logicVars, treeVars
<1>4. MempoolIsMade'
    BY <1>1, <1>2 DEF MempoolIsMade
<1>5. CleanRoots'
    BY <1>2 DEF NotesIInv, CleanRoots, logicVars, treeVars, rootsVars
<1> QED
    BY <1>3, <1>4, <1>5, NotesStayStep DEF NotesIInv

LEMMA TakesEffectStep ==
    ASSUME PoolIInv, NotesIInv, NEW tx \in mempool, NEW cost, TakesEffect(tx, cost)
    PROVE  /\ NotesIInv'
           /\ isLeaf' = isLeaf \cup Outputs(tx) /\ Outputs(tx) \cap isLeaf = {}
           /\ SpentBy(tx) \subseteq UnspentNotes
           /\ UnspentNotes' = (UnspentNotes \ SpentBy(tx)) \cup Outputs(tx)
           /\ SpentNotes' = SpentNotes \cup SpentBy(tx)
<1> DEFINE s == SpendOf(tx)
<1>1. /\ Charged(tx, cost) /\ ~DuplicateOutput(s) /\ AppendLeaves(NewOutputs(s))
      /\ mempool' = mempool \ {tx} /\ UNCHANGED <<usedSigners, ring>>
    BY DEF TakesEffect, Charged, rootsVars
<1>2. WalletMade(tx)
    BY DEF NotesIInv, MempoolIsMade
<1>3. /\ Len(NewOutputs(s)) \in 0..2 /\ Outputs(tx) = Contents(NewOutputs(s))
      /\ Outputs(tx) = OfValue(s.outCm1, s.outCm2)
      /\ \A cm \in Outputs(tx) : cm \in Commitments
    BY <1>2, ApprovedOutputs DEF Outputs
<1>4. \A cm \in Outputs(tx) : cm.value > 0
    BY <1>3 DEF OfValue
<1>5. Outputs(tx) \cap isLeaf = {}
    <2>1. SINK_0.value = 0 /\ SINK_1.value = 0
        BY DEF SINK_0, SINK_1, Commit
    <2> HIDE DEF s
    <2> QED
        BY <1>1, <1>3, <2>1 DEF OfValue, DuplicateOutput
<1> HIDE DEF s
<1>6. CleanRoots' /\ isLeaf' = isLeaf \cup Outputs(tx)
    BY <1>1, <1>3, AppendLeavesIsClean DEF NotesIInv
<1>7. LeavesAreNotes'
    BY <1>1, <1>3, <1>4, AppendedAreNotes DEF NotesIInv
<1>8. /\ SpentBy(tx) \subseteq UnspentNotes
      /\ consumedKeys' \subseteq Nullifiers
      /\ \A cm : cm.value > 0 =>
            (LeafNullifier(cm) \in consumedKeys' <=>
                LeafNullifier(cm) \in consumedKeys \/ cm \in SpentBy(tx))
    BY <1>1, ChargedSpends
<1>9. UnspentNotes \subseteq isLeaf
    BY DEF UnspentNotes
<1>10. KeysAreSpent'
    BY <1>6, <1>8, <1>9 DEF NotesIInv, KeysAreSpent
<1>11. MempoolIsMade'
    BY <1>1 DEF NotesIInv, MempoolIsMade
<1>12. \A cm \in isLeaf' : cm.value > 0
    BY <1>7 DEF LeavesAreNotes
<1>13. \A cm \in Outputs(tx) : LeafNullifier(cm) \notin consumedKeys'
    BY <1>3, <1>4, <1>5, <1>8, <1>9 DEF NotesIInv, KeysAreSpent
<1>14. SpentNotes' = SpentNotes \cup SpentBy(tx)
    <2>1. SpentNotes' = {cm \in isLeaf' : LeafNullifier(cm) \in consumedKeys'}
        BY DEF SpentNotes, LeafNullifier
    <2> QED
        BY <1>6, <1>8, <1>9, <1>12, <1>13, <2>1 DEF SpentNotes
<1>15. UnspentNotes' = (UnspentNotes \ SpentBy(tx)) \cup Outputs(tx)
    <2>1. UnspentNotes' = isLeaf' \ SpentNotes'
        BY DEF UnspentNotes
    <2>2. Outputs(tx) \cap SpentNotes = {}
        BY <1>5 DEF SpentNotes
    <2> QED
        BY <1>5, <1>6, <1>8, <1>9, <1>14, <2>1, <2>2 DEF UnspentNotes
<1> QED
    BY <1>5, <1>6, <1>7, <1>8, <1>10, <1>11, <1>14, <1>15 DEF NotesIInv

LEMMA BurnsStep ==
    ASSUME PoolIInv, NotesIInv, NEW tx \in mempool, NEW cost, Burns(tx, cost)
    PROVE  /\ NotesIInv'
           /\ SpentBy(tx) \subseteq UnspentNotes
           /\ UnspentNotes' = UnspentNotes \ SpentBy(tx)
<1>1. /\ Charged(tx, cost) /\ mempool' = mempool \ {tx}
      /\ UNCHANGED <<usedSigners, treeVars, rootsVars>>
    BY DEF Burns, Charged
<1>2. /\ SpentBy(tx) \subseteq UnspentNotes
      /\ consumedKeys' \subseteq Nullifiers
      /\ \A cm : cm.value > 0 =>
            (LeafNullifier(cm) \in consumedKeys' <=>
                LeafNullifier(cm) \in consumedKeys \/ cm \in SpentBy(tx))
    BY <1>1, ChargedSpends
<1>3. isLeaf' = isLeaf /\ leaves' = leaves
    BY <1>1 DEF treeVars
<1>4. UnspentNotes \subseteq isLeaf
    BY DEF UnspentNotes
<1>5. KeysAreSpent'
    BY <1>2, <1>3, <1>4 DEF NotesIInv, KeysAreSpent
<1>6. LeavesAreNotes' /\ \A cm \in isLeaf : cm.value > 0
    BY <1>3 DEF NotesIInv, LeavesAreNotes
<1>7. CleanRoots'
    BY <1>1 DEF NotesIInv, CleanRoots, treeVars, rootsVars
<1>8. MempoolIsMade'
    BY <1>1 DEF NotesIInv, MempoolIsMade
<1>9. UnspentNotes' = UnspentNotes \ SpentBy(tx)
    <2>1. UnspentNotes' = isLeaf' \ {cm \in isLeaf' : LeafNullifier(cm) \in consumedKeys'}
        BY DEF UnspentNotes, SpentNotes, LeafNullifier
    <2> QED
        BY <1>2, <1>3, <1>6, <2>1 DEF UnspentNotes, SpentNotes
<1> QED
    BY <1>2, <1>5, <1>6, <1>7, <1>8, <1>9 DEF NotesIInv

(***************************************************************************)
(* The steps that neither move value nor touch the wallets: publications,  *)
(* slots and stuttering.                                                   *)
(***************************************************************************)
Quiet ==
    UNCHANGED <<treeVars, withdrawalCredit, balance, consumedKeys, mempool, usedSigners,
                burned, feesCollected>>

LEMMA PublishKeepsRootsClean ==
    ASSUME PoolIInv, CleanRoots, NEW epoch \in Epochs, Publish(epoch)
    PROVE  CleanRoots'
<1> DEFINE i == slot % RING_LENGTH
           entry == [slot |-> slot, root |-> EpochRoot(epoch)]
<1>1. ring' = [ring EXCEPT ![epoch][i] = entry] /\ UNCHANGED treeVars
    BY DEF Publish, PublishEpochRoot, WriteRoot
<1>2. epoch \in Sources /\ i \in Entries
    BY EpochAssumption, RingAssumption DEF Epochs, Entries, PoolIInv
<1>3. entry.root = EpochRoot(epoch)
    OBVIOUS
<1>4. Clean(EpochRoot(epoch), DEPTH, isLeaf)
    BY DEF EpochRoot, CleanRoots
<1> HIDE DEF i, entry
<1>5. \A source \in Sources, j \in Entries :
          ring'[source][j] = IF source = epoch /\ j = i THEN entry ELSE ring[source][j]
    BY <1>1, <1>2 DEF PoolIInv, RingShape
<1>6. \A source \in Sources, j \in Entries :
          ring'[source][j].slot # -1 => Clean(ring'[source][j].root, DEPTH, isLeaf)
    BY <1>3, <1>4, <1>5 DEF CleanRoots
<1> QED
    BY <1>1, <1>6 DEF CleanRoots, treeVars

LEMMA QuietStep ==
    ASSUME PoolIInv, NotesIInv,
           (\E epoch \in Epochs : Publish(epoch)) \/ PassSlot \/ UNCHANGED poolVars
    PROVE  NotesIInv' /\ NotesStay /\ Quiet
<1>1. Quiet
    BY DEF Publish, PublishEpochRoot, PassSlot, Tick, OtherVars, poolVars, logicVars, Quiet
<1>2. NotesStay
    BY <1>1 DEF Quiet, NotesStay, treeVars
<1>3. CleanRoots'
    <2>1. CASE \E epoch \in Epochs : Publish(epoch)
        BY <2>1, PublishKeepsRootsClean DEF NotesIInv
    <2>2. CASE PassSlot \/ UNCHANGED poolVars
        <3>1. UNCHANGED <<treeVars, ring>>
            BY <2>2 DEF PassSlot, Tick, NextSlot, poolVars, logicVars, rootsVars
        <3> QED
            BY <3>1 DEF NotesIInv, CleanRoots, treeVars
    <2> QED
        BY <2>1, <2>2
<1>4. MempoolIsMade'
    BY <1>1 DEF Quiet, NotesIInv, MempoolIsMade
<1> QED
    BY <1>1, <1>2, <1>3, <1>4, NotesStayStep DEF NotesIInv

LEMMA ClaimStep ==
    ASSUME NotesIInv, NEW who, Claim(who)
    PROVE  NotesIInv' /\ NotesStay /\ UNCHANGED <<mempool, burned, feesCollected>>
<1>1. UNCHANGED <<treeVars, rootsVars, consumedKeys, mempool, usedSigners, burned, feesCollected>>
    BY DEF Claim, ClaimWithdrawal, OtherVars
<1>2. NotesStay
    BY <1>1 DEF NotesStay, treeVars
<1>3. CleanRoots' /\ MempoolIsMade'
    BY <1>1 DEF NotesIInv, CleanRoots, MempoolIsMade, treeVars, rootsVars
<1> QED
    BY <1>1, <1>2, <1>3, NotesStayStep DEF NotesIInv

LEMMA NotesInitIInv == Init => NotesIInv
<1> SUFFICES ASSUME Init PROVE NotesIInv
    OBVIOUS
<1>1. mempool = {} /\ usedSigners = {} /\ consumedKeys = {}
    BY DEF Init
<1> QED
    BY <1>1, InitClean DEF NotesIInv, MempoolIsMade, KeysAreSpent

LEMMA NotesNextIInv ==
    ASSUME PoolIInv, NotesIInv, [Next]_poolVars
    PROVE  NotesIInv'
<1>1. ASSUME NEW inner \in PayableInners, NEW value \in ShieldValues, Deposit(inner, value)
      PROVE  NotesIInv'
    BY <1>1, DepositStep
<1>2. ASSUME NEW signer \in Authorizers, NEW ref, NEW first \in KnownNotes,
             NEW second \in KnownNotes \cup {DummyInput(signer)}, NEW fee, NEW flag,
             BuildSpend(signer, ref, first, second, fee, flag)
      PROVE  NotesIInv'
    BY <1>2, BuildSpendStep
<1>3. ASSUME NEW tx \in mempool, NEW cost, IncludeSpend(tx, cost)
      PROVE  NotesIInv'
    BY <1>3, IncludedSpend, TakesEffectStep, BurnsStep
<1>4. ASSUME NEW who, Claim(who)
      PROVE  NotesIInv'
    BY <1>4, ClaimStep
<1>5. ASSUME (\E epoch \in Epochs : Publish(epoch)) \/ PassSlot \/ UNCHANGED poolVars
      PROVE  NotesIInv'
    BY <1>5, QuietStep
<1> QED
    BY <1>1, <1>2, <1>3, <1>4, <1>5, Zenon DEF Next

-----------------------------------------------------------------------------
(***************************************************************************)
(* Solvency.  The circuit conserves value, so what a spend pays out and    *)
(* keeps as a fee comes out of the notes it consumes, and approval demands *)
(* a fee that covers all the gas the pool may be charged.                  *)
(***************************************************************************)
LEMMA UnspentIsCounted ==
    ASSUME LeavesAreNotes
    PROVE  /\ IsFiniteSet(UnspentNotes)
           /\ \A cm \in isLeaf : cm.value \in Nat
           /\ ValueOf(UnspentNotes) \in Nat
<1>1. UnspentNotes \subseteq isLeaf
    BY DEF UnspentNotes
<1>2. \A cm \in isLeaf : cm.value \in Nat
    BY ValueAssumption DEF LeavesAreNotes, Commitments
<1>3. IsFiniteSet(isLeaf)
    BY DEF LeavesAreNotes
<1> QED
    BY <1>1, <1>2, <1>3, FS_Subset, ValueIsSum

\* What a consumed set of notes takes out of the unspent ones.
LEMMA UnspentTakenOut ==
    ASSUME LeavesAreNotes, NEW notes, notes \subseteq UnspentNotes
    PROVE  /\ ValueOf(UnspentNotes) = ValueOf(notes) + ValueOf(UnspentNotes \ notes)
           /\ ValueOf(notes) \in Nat /\ ValueOf(UnspentNotes \ notes) \in Nat
<1>1. IsFiniteSet(UnspentNotes) /\ \A cm \in UnspentNotes : cm.value \in Nat
    BY UnspentIsCounted DEF UnspentNotes
<1> QED
    BY <1>1, ValueOfParts

\* What new notes put into them.
LEMMA UnspentPutIn ==
    ASSUME NEW notes, NEW added, IsFiniteSet(notes), IsFiniteSet(added), notes \cap added = {},
           \A cm \in notes \cup added : cm.value \in Nat
    PROVE  ValueOf(notes \cup added) = ValueOf(notes) + ValueOf(added)
<1>1. IsFiniteSet(notes \cup added)
    BY FS_Union
<1>2. ValueOf(notes \cup added) = ValueOf(notes) + ValueOf((notes \cup added) \ notes)
    BY <1>1, ValueOfParts
<1>3. (notes \cup added) \ notes = added
    OBVIOUS
<1> QED
    BY <1>2, <1>3

\* The total of the credits after one of them changed.
LEMMA OneCreditChanged ==
    ASSUME Money, NEW who \in Accounts, withdrawalCredit' \in [Accounts -> Nat],
           \A other \in Accounts :
               other # who => withdrawalCredit'[other] = withdrawalCredit[other]
    PROVE  SumFunction(withdrawalCredit') =
               SumFunction(withdrawalCredit) - withdrawalCredit[who] + withdrawalCredit'[who]
<1>1. withdrawalCredit \in [Accounts -> Nat] /\ IsFiniteSet(Accounts)
    BY PoolAssumption DEF Money
<1>2. \A f, g \in [Accounts -> Nat] : \A x \in Accounts :
          (\A y \in Accounts : y # x => g[y] = f[y])
          => SumFunction(g) = SumFunction(f) - f[x] + g[x]
    BY <1>1, TotalChanged
<1> QED
    BY <1>1, <1>2, Zenon

\* The credits after a settlement that pays out amount to an account, if any.
LEMMA Credited ==
    ASSUME Money, NEW amount \in Nat, NEW who, amount = 0 \/ who \in Accounts,
           withdrawalCredit' = IF amount = 0 THEN withdrawalCredit
                               ELSE [withdrawalCredit EXCEPT ![who] = @ + amount]
    PROVE  /\ withdrawalCredit' \in [Accounts -> Nat]
           /\ SumFunction(withdrawalCredit) \in Nat
           /\ SumFunction(withdrawalCredit') = SumFunction(withdrawalCredit) + amount
<1>1. withdrawalCredit \in [Accounts -> Nat] /\ IsFiniteSet(Accounts)
    BY PoolAssumption DEF Money
<1>2. SumFunction(withdrawalCredit) \in Nat
    BY <1>1, TotalType
<1>3. CASE amount = 0
    BY <1>1, <1>2, <1>3
<1>4. CASE amount # 0
    <2>1. who \in Accounts /\ withdrawalCredit[who] \in Nat
        BY <1>1, <1>4
    <2>2. /\ withdrawalCredit' \in [Accounts -> Nat]
          /\ withdrawalCredit'[who] = withdrawalCredit[who] + amount
          /\ \A other \in Accounts :
                 other # who => withdrawalCredit'[other] = withdrawalCredit[other]
        BY <1>1, <1>4, <2>1
    <2>3. SumFunction(withdrawalCredit') =
              SumFunction(withdrawalCredit) - withdrawalCredit[who] + withdrawalCredit'[who]
        BY <2>1, <2>2, OneCreditChanged
    <2> QED
        BY <1>2, <2>1, <2>2, <2>3
<1> QED
    BY <1>3, <1>4
LEMMA MoneyAfterDeposit ==
    ASSUME PoolIInv, NotesIInv, Money, NEW inner \in PayableInners, NEW value \in ShieldValues,
           Deposit(inner, value)
    PROVE  Money'
<1> DEFINE cm == Commit(inner, value)
<1>1. /\ cm \notin isLeaf /\ UnspentNotes' = UnspentNotes \cup {cm}
      /\ cm.value = value /\ value \in Nat
    BY DepositStep
<1>2. balance' = balance + value /\ UNCHANGED <<withdrawalCredit, feesCollected>>
    BY DEF Deposit, Shield, OtherVars
<1> HIDE DEF cm
<1>3. /\ IsFiniteSet(UnspentNotes) /\ IsFiniteSet({cm}) /\ UnspentNotes \cap {cm} = {}
      /\ \A note \in UnspentNotes \cup {cm} : note.value \in Nat
    BY <1>1, UnspentIsCounted, FS_Singleton DEF NotesIInv, UnspentNotes
<1>4. ValueOf(UnspentNotes') = ValueOf(UnspentNotes) + value
    <2>1. ValueOf(UnspentNotes \cup {cm}) = ValueOf(UnspentNotes) + ValueOf({cm})
        BY <1>3, UnspentPutIn
    <2> QED
        BY <1>1, <2>1, ValueOfOne
<1>5. ValueOf(UnspentNotes) \in Nat /\ SumFunction(withdrawalCredit) \in Nat
    BY UnspentIsCounted, PoolAssumption, TotalType DEF NotesIInv, Money
<1>6. ValueOf(UnspentNotes)' = ValueOf(UnspentNotes')
    BY DEF ValueOf
<1> QED
    BY <1>1, <1>2, <1>4, <1>5, <1>6 DEF Money

\* A spend that takes effect leaves the pool its fee, less the gas.
LEMMA MoneyAfterSpend ==
    ASSUME PoolIInv, NotesIInv, Money, NEW tx \in mempool, NEW cost \in 0..tx.maxCost,
           TakesEffect(tx, cost)
    PROVE  Money'
<1> DEFINE s == SpendOf(tx)
<1>1. WalletMade(tx) /\ balance >= tx.maxCost /\ balance' = balance - cost
    BY DEF NotesIInv, MempoolIsMade, TakesEffect, Charged, PrefixValid
<1>2. /\ s.publicAmount \in Nat /\ s.fee \in Nat /\ s.fee >= tx.maxCost
      /\ s.publicAmount = 0 <=> s.recipient = NoAddress
    BY <1>1, ApprovedSpend
<1>3. s.publicAmount = 0 \/ s.recipient \in Accounts
    BY <1>1, <1>2 DEF WalletMade
<1>4. /\ withdrawalCredit' = IF s.publicAmount = 0 THEN withdrawalCredit
                             ELSE [withdrawalCredit EXCEPT ![s.recipient] = @ + s.publicAmount]
      /\ feesCollected' = feesCollected + s.fee
    BY DEF TakesEffect
<1>5. /\ ValueOf(SpentBy(tx)) = ValueOf(Outputs(tx)) + s.publicAmount + s.fee
      /\ ValueOf(SpentBy(tx)) \in Nat /\ ValueOf(Outputs(tx)) \in Nat
      /\ IsFiniteSet(Outputs(tx))
    BY <1>1, ValueOfSpend
<1> HIDE DEF s
<1>6. /\ withdrawalCredit' \in [Accounts -> Nat]
      /\ SumFunction(withdrawalCredit) \in Nat
      /\ SumFunction(withdrawalCredit') = SumFunction(withdrawalCredit) + s.publicAmount
    BY <1>2, <1>3, <1>4, Credited
<1>7. /\ Outputs(tx) \cap isLeaf = {} /\ isLeaf' = isLeaf \cup Outputs(tx)
      /\ SpentBy(tx) \subseteq UnspentNotes
      /\ UnspentNotes' = (UnspentNotes \ SpentBy(tx)) \cup Outputs(tx)
      /\ NotesIInv'
    BY TakesEffectStep
<1> DEFINE kept == UnspentNotes \ SpentBy(tx)
<1>8. ValueOf(UnspentNotes) = ValueOf(SpentBy(tx)) + ValueOf(kept) /\ ValueOf(kept) \in Nat
    BY <1>7, UnspentTakenOut DEF NotesIInv
<1>9. ValueOf(kept \cup Outputs(tx)) = ValueOf(kept) + ValueOf(Outputs(tx))
    <2>1. IsFiniteSet(kept)
        BY UnspentIsCounted, FS_Subset DEF NotesIInv
    <2>2. kept \cap Outputs(tx) = {}
        BY <1>7 DEF UnspentNotes
    <2>3. \A cm \in isLeaf' : cm.value \in Nat
        BY <1>7, ValueAssumption DEF NotesIInv, LeavesAreNotes, Commitments
    <2>4. \A cm \in kept \cup Outputs(tx) : cm.value \in Nat
        BY <1>7, <2>3 DEF UnspentNotes
    <2> HIDE DEF kept
    <2> QED
        BY <1>5, <2>1, <2>2, <2>4, UnspentPutIn
<1>10. ValueOf(UnspentNotes)' = ValueOf(kept) + ValueOf(Outputs(tx))
    BY <1>7, <1>9 DEF ValueOf
<1> HIDE DEF kept
<1>11. tx.maxCost \in Nat
    BY <1>1 DEF WalletMade
<1> DEFINE U == ValueOf(UnspentNotes)
           C == SumFunction(withdrawalCredit)
<1>12. /\ balance \in Nat /\ balance >= U + C /\ C \in Nat /\ feesCollected \in Nat
       /\ U' = ValueOf(kept) + ValueOf(Outputs(tx)) /\ C' = C + s.publicAmount
       /\ U = ValueOf(SpentBy(tx)) + ValueOf(kept)
    BY <1>6, <1>8, <1>10 DEF Money
<1>13. U' + C' <= balance - cost /\ balance - cost \in Nat /\ feesCollected' \in Nat
    <2> DEFINE spent == ValueOf(SpentBy(tx))
               created == ValueOf(Outputs(tx))
               rest == ValueOf(kept)
    <2>1. /\ spent = created + s.publicAmount + s.fee
          /\ U' = rest + created /\ U = spent + rest
          /\ rest \in Nat /\ created \in Nat /\ spent \in Nat
        BY <1>5, <1>8, <1>12
    <2> HIDE DEF spent, created, rest, U, C
    <2> QED
        BY <1>1, <1>2, <1>4, <1>11, <1>12, <2>1
<1> QED
    BY <1>1, <1>6, <1>13 DEF Money

\* A spend that reverts costs the pool no more than the notes it burns.
LEMMA MoneyAfterBurn ==
    ASSUME PoolIInv, NotesIInv, Money, NEW tx \in mempool, NEW cost \in 0..tx.maxCost,
           Burns(tx, cost)
    PROVE  Money'
<1> DEFINE s == SpendOf(tx)
<1>1. WalletMade(tx) /\ balance >= tx.maxCost /\ balance' = balance - cost
    BY DEF NotesIInv, MempoolIsMade, Burns, Charged, PrefixValid
<1>2. tx.maxCost \in Nat
    BY <1>1 DEF WalletMade
<1>3. s.publicAmount \in Nat /\ s.fee \in Nat /\ s.fee >= tx.maxCost
    BY <1>1, ApprovedSpend
<1>4. /\ ValueOf(SpentBy(tx)) = ValueOf(Outputs(tx)) + s.publicAmount + s.fee
      /\ ValueOf(SpentBy(tx)) \in Nat /\ ValueOf(Outputs(tx)) \in Nat
    BY <1>1, ValueOfSpend
<1> HIDE DEF s
<1>5. SpentBy(tx) \subseteq UnspentNotes /\ UnspentNotes' = UnspentNotes \ SpentBy(tx)
    BY BurnsStep
<1>6. /\ ValueOf(UnspentNotes) = ValueOf(SpentBy(tx)) + ValueOf(UnspentNotes \ SpentBy(tx))
      /\ ValueOf(UnspentNotes \ SpentBy(tx)) \in Nat
    BY <1>5, UnspentTakenOut DEF NotesIInv
<1>7. ValueOf(UnspentNotes)' = ValueOf(UnspentNotes \ SpentBy(tx))
    BY <1>5 DEF ValueOf
<1>8. UNCHANGED <<withdrawalCredit, feesCollected>>
    BY DEF Burns
<1>9. SumFunction(withdrawalCredit) \in Nat
    BY PoolAssumption, TotalType DEF Money
<1> DEFINE U == ValueOf(UnspentNotes)
           C == SumFunction(withdrawalCredit)
           spent == ValueOf(SpentBy(tx))
           created == ValueOf(Outputs(tx))
           rest == ValueOf(UnspentNotes \ SpentBy(tx))
<1>10. /\ balance \in Nat /\ balance >= U + C /\ C \in Nat /\ U' = rest /\ C' = C
       /\ U = spent + rest /\ spent = created + s.publicAmount + s.fee
       /\ rest \in Nat /\ created \in Nat /\ spent \in Nat
    BY <1>4, <1>6, <1>7, <1>8, <1>9 DEF Money
<1>11. U' + C' <= balance - cost /\ balance - cost \in Nat
    <2> HIDE DEF U, C, spent, created, rest
    <2> QED
        BY <1>1, <1>2, <1>3, <1>10
<1> QED
    BY <1>1, <1>8, <1>11 DEF Money

LEMMA MoneyAfterClaim ==
    ASSUME NotesIInv, Money, NEW who \in Accounts, Claim(who)
    PROVE  Money'
<1>1. /\ withdrawalCredit[who] <= balance
      /\ withdrawalCredit' = [withdrawalCredit EXCEPT ![who] = 0]
      /\ balance' = balance - withdrawalCredit[who]
      /\ UNCHANGED feesCollected
    BY DEF Claim, ClaimWithdrawal, OtherVars
<1>2. withdrawalCredit \in [Accounts -> Nat] /\ withdrawalCredit[who] \in Nat
    BY DEF Money
<1>3. ValueOf(UnspentNotes)' = ValueOf(UnspentNotes) /\ ValueOf(UnspentNotes) \in Nat
    BY ClaimStep, NotesStayStep, UnspentIsCounted DEF NotesIInv, ValueOf
<1>4. SumFunction(withdrawalCredit) \in Nat
    BY <1>2, PoolAssumption, TotalType
<1>5. /\ withdrawalCredit' \in [Accounts -> Nat]
      /\ SumFunction(withdrawalCredit') = SumFunction(withdrawalCredit) - withdrawalCredit[who]
    <2>1. /\ withdrawalCredit' \in [Accounts -> Nat] /\ withdrawalCredit'[who] = 0
          /\ \A other \in Accounts :
                 other # who => withdrawalCredit'[other] = withdrawalCredit[other]
        BY <1>1, <1>2
    <2>2. SumFunction(withdrawalCredit') =
              SumFunction(withdrawalCredit) - withdrawalCredit[who] + withdrawalCredit'[who]
        BY <2>1, OneCreditChanged
    <2> QED
        BY <1>2, <1>4, <2>1, <2>2
<1> DEFINE U == ValueOf(UnspentNotes)
           C == SumFunction(withdrawalCredit)
<1>6. /\ U' = U /\ U \in Nat /\ C \in Nat /\ C' = C - withdrawalCredit[who]
      /\ balance \in Nat /\ balance >= U + C
    BY <1>3, <1>4, <1>5 DEF Money
<1>7. U' + C' <= balance - withdrawalCredit[who] /\ balance - withdrawalCredit[who] \in Nat
    <2> HIDE DEF U, C
    <2> QED
        BY <1>1, <1>2, <1>6
<1> QED
    BY <1>1, <1>5, <1>7 DEF Money

LEMMA MoneyInit == Init => Money
<1> SUFFICES ASSUME Init PROVE Money
    OBVIOUS
<1>1. /\ withdrawalCredit = [who \in Accounts |-> 0] /\ balance = 0 /\ feesCollected = 0
      /\ isLeaf = {}
    BY DEF Init, LogicInit
<1>2. SumFunction(withdrawalCredit) = 0
    BY <1>1, PoolAssumption, TotalOfZeros
<1>3. ValueOf(UnspentNotes) = 0
    BY <1>1, ValueOfOne DEF UnspentNotes
<1> QED
    BY <1>1, <1>2, <1>3 DEF Money

\* What neither moves value nor touches the notes keeps the accounts as they are.
LEMMA MoneyUnmoved ==
    ASSUME Money, NotesStay, UNCHANGED <<withdrawalCredit, balance, feesCollected>>
    PROVE  Money'
<1>1. UnspentNotes' = UnspentNotes
    BY NotesStayStep
<1>2. ValueOf(UnspentNotes)' = ValueOf(UnspentNotes)
    BY <1>1 DEF ValueOf
<1> QED
    BY <1>2 DEF Money

LEMMA MoneyNext ==
    ASSUME PoolIInv, NotesIInv, Money, [Next]_poolVars
    PROVE  Money'
<1>1. ASSUME NEW inner \in PayableInners, NEW value \in ShieldValues, Deposit(inner, value)
      PROVE  Money'
    BY <1>1, MoneyAfterDeposit
<1>2. ASSUME NEW signer \in Authorizers, NEW ref, NEW first \in KnownNotes,
             NEW second \in KnownNotes \cup {DummyInput(signer)}, NEW fee, NEW flag,
             BuildSpend(signer, ref, first, second, fee, flag)
      PROVE  Money'
    <2>1. UNCHANGED <<withdrawalCredit, balance, feesCollected>>
        BY <1>2 DEF BuildSpend, logicVars
    <2> QED
        BY <1>2, <2>1, BuildSpendStep, MoneyUnmoved
<1>3. ASSUME NEW tx \in mempool, NEW cost \in 0..tx.maxCost, IncludeSpend(tx, cost)
      PROVE  Money'
    BY <1>3, IncludedSpend, MoneyAfterSpend, MoneyAfterBurn
<1>4. ASSUME NEW who \in Accounts, Claim(who)
      PROVE  Money'
    BY <1>4, MoneyAfterClaim
<1>5. ASSUME (\E epoch \in Epochs : Publish(epoch)) \/ PassSlot \/ UNCHANGED poolVars
      PROVE  Money'
    BY <1>5, QuietStep, MoneyUnmoved DEF Quiet
<1> QED
    BY <1>1, <1>2, <1>3, <1>4, <1>5, Zenon DEF Next

PoolSafety == PoolIInv /\ NotesIInv /\ Money

LEMMA PoolSafetyHolds == Spec => []PoolSafety
<1>1. Init => PoolSafety
    BY PoolInitIInv, NotesInitIInv, MoneyInit DEF PoolSafety
<1>2. PoolSafety /\ [Next]_poolVars => PoolSafety'
    BY PoolNextIInv, NotesNextIInv, MoneyNext DEF PoolSafety
<1> QED
    BY <1>1, <1>2, PTL DEF Spec

(***************************************************************************)
(* The pool can always pay: in every state its balance covers all that can *)
(* still be spent and all that can still be claimed, however many spends   *)
(* it paid gas for and however many of them reverted.                      *)
(***************************************************************************)
THEOREM SolventHolds == Spec => []Solvent
<1>1. PoolSafety => Solvent
    BY DEF PoolSafety, Money, ValueOf, Solvent
<1> QED
    BY <1>1, PoolSafetyHolds, PTL

(***************************************************************************)
(* Only nullifiers of this pool are consumed, only commitments of wallets' *)
(* notes become leaves, every pending transaction has a signer of its own, *)
(* and neither the balance nor the fees are ever negative.                 *)
(***************************************************************************)
THEOREM TypeOKHolds == Spec => []TypeOK
<1>1. PoolSafety => TypeOK
    BY DEF PoolSafety, NotesIInv, LeavesAreNotes, MempoolIsMade, KeysAreSpent, Money, TypeOK
<1> QED
    BY <1>1, PoolSafetyHolds, PTL

-----------------------------------------------------------------------------
(***************************************************************************)
(* Settlement is total as long as no inner is paid to twice: then nothing  *)
(* that becomes a leaf has the commitment of a pending output.             *)
(***************************************************************************)
LEMMA OutputsAreInUse ==
    ASSUME NotesIInv, NEW tx \in mempool, NEW cm \in Outputs(tx)
    PROVE  cm.inner \in InnersInUse
<1>1. cm \in {SpendOf(tx).outCm1, SpendOf(tx).outCm2}
    BY ApprovedOutputs DEF NotesIInv, MempoolIsMade, OfValue
<1> QED
    BY <1>1 DEF InnersInUse

LEMMA LeavesAreInUse ==
    ASSUME NotesIInv, NEW cm \in isLeaf
    PROVE  cm.inner \in InnersInUse
BY DEF NotesIInv, LeavesAreNotes, InnersInUse

FreshIInv == FreshPending /\ NothingBurned

LEMMA NothingBurns ==
    ASSUME NotesIInv, FreshIInv, ~ReuseInners, NEW tx \in mempool, NEW cost, Burns(tx, cost)
    PROVE  FALSE
<1> DEFINE s == SpendOf(tx)
<1>1. DuplicateOutput(s)
    BY DEF Burns
<1>2. PICK cm \in {s.outCm1, s.outCm2} : cm \in isLeaf
    BY <1>1 DEF DuplicateOutput
<1>3. cm.value > 0 /\ cm.value \in Nat
    BY <1>2, ValueAssumption DEF NotesIInv, LeavesAreNotes, Commitments
<1>4. Outputs(tx) = OfValue(s.outCm1, s.outCm2)
    BY ApprovedOutputs DEF NotesIInv, MempoolIsMade
<1>5. cm \in Outputs(tx)
    BY <1>2, <1>3, <1>4 DEF OfValue
<1>6. \A leaf \in isLeaf : cm.inner # leaf.inner
    BY <1>5 DEF FreshIInv, FreshPending
<1> QED
    BY <1>2, <1>6

LEMMA FreshNext ==
    ASSUME PoolIInv, NotesIInv, FreshIInv, [Next]_poolVars, ~ReuseInners
    PROVE  FreshIInv'
<1>0. /\ \A tx \in mempool : \A cm \in Outputs(tx), leaf \in isLeaf : cm.inner # leaf.inner
      /\ \A tx, ux \in mempool :
             tx # ux => \A cm \in Outputs(tx), dm \in Outputs(ux) : cm.inner # dm.inner
      /\ burned = {}
    BY DEF FreshIInv, FreshPending, NothingBurned
<1>1. ASSUME NEW inner \in PayableInners, NEW value \in ShieldValues, Deposit(inner, value)
      PROVE  FreshIInv'
    <2>1. isLeaf' = isLeaf \cup {Commit(inner, value)} /\ UNCHANGED <<mempool, burned>>
        BY <1>1, DepositStep DEF Deposit, OtherVars
    <2>2. Commit(inner, value).inner = inner /\ inner \notin InnersInUse
        BY <1>1 DEF PayableInners, Commit
    <2>3. \A tx \in mempool : \A cm \in Outputs(tx) : cm.inner # inner
        BY <2>2, OutputsAreInUse
    <2> QED
        BY <1>0, <2>1, <2>2, <2>3 DEF FreshIInv, FreshPending, NothingBurned
<1>2. ASSUME NEW signer \in Authorizers, NEW ref, NEW first \in KnownNotes,
             NEW second \in KnownNotes \cup {DummyInput(signer)}, NEW fee, NEW flag,
             BuildSpend(signer, ref, first, second, fee, flag)
      PROVE  FreshIInv'
    <2>1. LeavesAreNotes /\ MempoolIsMade
        BY DEF NotesIInv
    <2>2. PICK tx : /\ mempool' = mempool \cup {tx}
                    /\ \A cm \in Outputs(tx) : cm.inner \notin InnersInUse
        BY <1>2, <2>1, BuiltSpend
    <2>3. isLeaf' = isLeaf /\ burned' = burned
        BY <1>2 DEF BuildSpend, logicVars, treeVars
    <2>4. \A cm \in Outputs(tx), leaf \in isLeaf : cm.inner # leaf.inner
        BY <2>2, LeavesAreInUse
    <2>5. \A ux \in mempool : \A cm \in Outputs(tx), dm \in Outputs(ux) : cm.inner # dm.inner
        BY <2>2, OutputsAreInUse
    <2> QED
        BY <1>0, <2>2, <2>3, <2>4, <2>5 DEF FreshIInv, FreshPending, NothingBurned
<1>3. ASSUME NEW tx \in mempool, NEW cost, TakesEffect(tx, cost)
      PROVE  FreshIInv'
    <2>1. isLeaf' = isLeaf \cup Outputs(tx)
        BY <1>3, TakesEffectStep
    <2>2. mempool' = mempool \ {tx} /\ burned' = burned
        BY <1>3 DEF TakesEffect, Charged
    <2> QED
        BY <1>0, <2>1, <2>2 DEF FreshIInv, FreshPending, NothingBurned
<1>4. ASSUME NEW tx \in mempool, NEW cost, Burns(tx, cost)
      PROVE  FALSE
    BY <1>4, NothingBurns
<1>5. ASSUME NEW who, Claim(who)
      PROVE  FreshIInv'
    BY <1>0, <1>5, ClaimStep DEF NotesStay, FreshIInv, FreshPending, NothingBurned
<1>6. ASSUME (\E epoch \in Epochs : Publish(epoch)) \/ PassSlot \/ UNCHANGED poolVars
      PROVE  FreshIInv'
    BY <1>0, <1>6, QuietStep DEF Quiet, NotesStay, FreshIInv, FreshPending, NothingBurned
<1>7. ASSUME NEW tx \in mempool, NEW cost, IncludeSpend(tx, cost)
      PROVE  FreshIInv'
    BY <1>3, <1>4, <1>7, IncludedSpend
<1> QED
    BY <1>1, <1>2, <1>5, <1>6, <1>7, Zenon DEF Next

LEMMA FreshHolds == Spec => []FreshIInv
<1>1. Init => FreshIInv
    BY DEF Init, FreshIInv, FreshPending, NothingBurned
<1>2. ReuseInners => FreshIInv'
    BY DEF FreshIInv, FreshPending, NothingBurned
<1>3. PoolSafety /\ FreshIInv /\ [Next]_poolVars => FreshIInv'
    BY <1>2, FreshNext DEF PoolSafety
<1> QED
    BY <1>1, <1>3, PoolSafetyHolds, PTL DEF Spec

(***************************************************************************)
(* No approved spend is burned, in whatever order blocks include what the  *)
(* wallets submit, provided every inner that is paid to is a new one.      *)
(***************************************************************************)
THEOREM SettlementTotalHolds ==
    ASSUME ReuseInners = FALSE
    PROVE  Spec => []SettlementTotal
<1>1. FreshIInv => SettlementTotal
    BY DEF FreshIInv, NothingBurned, SettlementTotal
<1> QED
    BY <1>1, FreshHolds, PTL

-----------------------------------------------------------------------------
(***************************************************************************)
(* Others cannot invalidate a pending spend.  A publication overwrites the *)
(* entry of a slot that is a whole ring behind, and what others spend or   *)
(* claim leaves the pool enough for the notes that are still unspent,      *)
(* those of the pending spend among them.                                  *)
(***************************************************************************)
LEMMA ApartInTheRing ==
    ASSUME NEW s \in Nat, NEW t \in Nat, s < t, t - s < RING_LENGTH
    PROVE  s % RING_LENGTH # t % RING_LENGTH
<1> DEFINE N == RING_LENGTH
           q == s \div N
           p == t \div N
<1>1. N \in Nat /\ N > 0
    BY RingAssumption
<1>2. /\ q \in Int /\ p \in Int /\ s % N \in 0..(N - 1) /\ t % N \in 0..(N - 1)
      /\ s = N * q + (s % N) /\ t = N * p + (t % N)
    BY <1>1
<1> HIDE DEF N, q, p
<1>3. ASSUME s % N = t % N
      PROVE  FALSE
    <2>1. t - s = N * (p - q)
        BY <1>1, <1>2, <1>3
    <2>2. CASE p - q <= 0
        <3>1. N * (p - q) <= 0
            BY <1>1, <1>2, <2>2
        <3> QED
            BY <2>1, <3>1
    <2>3. CASE p - q >= 1
        <3>1. N * (p - q) >= N
            BY <1>1, <1>2, <2>3
        <3> QED
            BY <1>1, <2>1, <3>1 DEF N
    <2> QED
        BY <1>2, <2>2, <2>3
<1> QED
    BY <1>3 DEF N

LEMMA LeavesOnlyGrow ==
    ASSUME PoolIInv, NotesIInv, [Next]_poolVars
    PROVE  isLeaf \subseteq isLeaf'
<1>1. ASSUME NEW inner \in PayableInners, NEW value \in ShieldValues, Deposit(inner, value)
      PROVE  isLeaf \subseteq isLeaf'
    BY <1>1, DepositStep
<1>2. ASSUME NEW signer \in Authorizers, NEW ref, NEW first \in KnownNotes,
             NEW second \in KnownNotes \cup {DummyInput(signer)}, NEW fee, NEW flag,
             BuildSpend(signer, ref, first, second, fee, flag)
      PROVE  isLeaf \subseteq isLeaf'
    BY <1>2, BuildSpendStep DEF NotesStay
<1>3. ASSUME NEW tx \in mempool, NEW cost, IncludeSpend(tx, cost)
      PROVE  isLeaf \subseteq isLeaf'
    <2>1. CASE TakesEffect(tx, cost)
        BY <2>1, TakesEffectStep
    <2>2. CASE Burns(tx, cost)
        BY <2>2 DEF Burns, treeVars
    <2> QED
        BY <1>3, <2>1, <2>2, IncludedSpend
<1>4. ASSUME NEW who, Claim(who)
      PROVE  isLeaf \subseteq isLeaf'
    BY <1>4, ClaimStep DEF NotesStay
<1>5. ASSUME (\E epoch \in Epochs : Publish(epoch)) \/ PassSlot \/ UNCHANGED poolVars
      PROVE  isLeaf \subseteq isLeaf'
    BY <1>5, QuietStep DEF NotesStay
<1> QED
    BY <1>1, <1>2, <1>3, <1>4, <1>5, Zenon DEF Next

LEMMA SlotsAndRing ==
    ASSUME PoolIInv, [Next]_poolVars
    PROVE  /\ slot' >= slot
           /\ \A source \in Sources, i \in Entries :
                 i # slot % RING_LENGTH => ring'[source][i] = ring[source][i]
<1> DEFINE Kept == /\ slot' >= slot
                   /\ \A source \in Sources, i \in Entries :
                         i # slot % RING_LENGTH => ring'[source][i] = ring[source][i]
<1>0. slot \in Nat
    BY DEF PoolIInv
<1>1. UNCHANGED rootsVars => Kept
    BY <1>0 DEF rootsVars
<1>2. ASSUME NEW inner, NEW value, Deposit(inner, value)
      PROVE  UNCHANGED rootsVars
    BY <1>2 DEF Deposit, Shield
<1>3. ASSUME NEW signer, NEW ref, NEW first, NEW second, NEW fee, NEW flag,
             BuildSpend(signer, ref, first, second, fee, flag)
      PROVE  UNCHANGED rootsVars
    BY <1>3 DEF BuildSpend, logicVars
<1>4. ASSUME NEW tx, NEW cost, IncludeSpend(tx, cost)
      PROVE  UNCHANGED rootsVars
    BY <1>4, IncludedSpend DEF TakesEffect, Burns, Charged
<1>5. ASSUME NEW who, Claim(who)
      PROVE  UNCHANGED rootsVars
    BY <1>5 DEF Claim, ClaimWithdrawal
<1>6. ASSUME NEW epoch \in Epochs, Publish(epoch)
      PROVE  Kept
    <2> DEFINE entry == [slot |-> slot, root |-> EpochRoot(epoch)]
    <2>1. ring' = [ring EXCEPT ![epoch][slot % RING_LENGTH] = entry] /\ slot' = slot
        BY <1>6 DEF Publish, PublishEpochRoot, WriteRoot
    <2> HIDE DEF entry
    <2>2. \A source \in Sources, i \in Entries :
              i # slot % RING_LENGTH => ring'[source][i] = ring[source][i]
        BY <2>1 DEF PoolIInv, RingShape
    <2> QED
        BY <1>0, <2>1, <2>2
<1>7. ASSUME PassSlot
      PROVE  Kept
    BY <1>0, <1>7 DEF PassSlot, Tick, NextSlot
<1>8. ASSUME UNCHANGED poolVars
      PROVE  Kept
    BY <1>1, <1>8 DEF poolVars, logicVars
<1> HIDE DEF Kept
<1>9. Kept
    BY <1>1, <1>2, <1>3, <1>4, <1>5, <1>6, <1>7, <1>8, Zenon DEF Next
<1> QED
    BY <1>9 DEF Kept

LEMMA PendingStays ==
    ASSUME PoolSafety, PoolSafety', [Next]_poolVars,
           NEW tx \in mempool \cap mempool', PrefixValid(tx),
           tx.nonceKeys \cap consumedKeys' = {}, slot' - tx.refs[1].slot < RING_LENGTH
    PROVE  PrefixValid(tx)'
<1> DEFINE s == SpendOf(tx)
<1>1. PoolIInv /\ NotesIInv /\ Money' /\ LeavesAreNotes'
    BY DEF PoolSafety, NotesIInv
<1>2. WalletMade(tx) /\ Approves(tx)
    BY <1>1 DEF NotesIInv, MempoolIsMade, WalletMade
<1>3. /\ tx.nonceKeys = {LeafNullifier(Input(tx, 1)), LeafNullifier(Input(tx, 2))}
      /\ s.fee \in Nat /\ s.fee >= tx.maxCost /\ s.publicAmount \in Nat
      /\ tx.refs[1] = [source |-> s.epoch, slot |-> s.rootSlot, root |-> s.root]
      /\ Len(tx.refs) = 1
    BY <1>2, ApprovedSpend
<1>4. tx.maxCost \in Nat
    BY <1>2 DEF WalletMade
<1> HIDE DEF s
<1>5. ReferenceValid(s.epoch, s.rootSlot, s.root)
    BY <1>3 DEF PrefixValid
<1>6. ReferenceValid(s.epoch, s.rootSlot, s.root)'
    <2>1. /\ s.epoch \in Sources /\ s.rootSlot \in Nat /\ slot \in Nat /\ slot' \in Nat
          /\ s.rootSlot < slot /\ slot - s.rootSlot < RING_LENGTH
          /\ ring[s.epoch][s.rootSlot % RING_LENGTH] = [slot |-> s.rootSlot, root |-> s.root]
        BY <1>1, <1>5 DEF ReferenceValid, Committed, PoolIInv, PoolSafety
    <2>2. slot' >= slot /\ slot' - s.rootSlot < RING_LENGTH
        BY <1>1, <1>3, SlotsAndRing
    <2>3. s.rootSlot % RING_LENGTH \in Entries
        BY <2>1, RingAssumption DEF Entries
    <2>4. s.rootSlot % RING_LENGTH # slot % RING_LENGTH
        BY <2>1, ApartInTheRing
    <2>5. ring'[s.epoch][s.rootSlot % RING_LENGTH] = [slot |-> s.rootSlot, root |-> s.root]
        BY <1>1, <2>1, <2>3, <2>4, SlotsAndRing
    <2> QED
        BY <2>1, <2>2, <2>5 DEF ReferenceValid, Committed
<1>7. SpentBy(tx) \subseteq UnspentNotes'
    <2>1. \A k \in 1..2 : Input(tx, k).value > 0 => Input(tx, k) \in isLeaf'
        BY <1>1, <1>2, InputsAreLeaves, LeavesOnlyGrow DEF NotesIInv
    <2>2. UnspentNotes' = {cm \in isLeaf' : LeafNullifier(cm) \notin consumedKeys'}
        BY DEF UnspentNotes, SpentNotes, LeafNullifier
    <2> QED
        BY <1>3, <2>1, <2>2 DEF SpentBy, OfValue
<1>8. balance' >= tx.maxCost
    <2> DEFINE spent == ValueOf(SpentBy(tx))
               rest == ValueOf(UnspentNotes' \ SpentBy(tx))
               credits == SumFunction(withdrawalCredit')
    <2>1. IsFiniteSet(UnspentNotes') /\ \A cm \in UnspentNotes' : cm.value \in Nat
        <3>1. /\ IsFiniteSet(isLeaf') /\ UnspentNotes' \subseteq isLeaf'
              /\ \A cm \in isLeaf' : cm.value \in Nat
            BY <1>1, ValueAssumption DEF LeavesAreNotes, Commitments, UnspentNotes
        <3> QED
            BY <3>1, FS_Subset
    <2>2. ValueOf(UnspentNotes') = spent + rest /\ spent \in Nat /\ rest \in Nat
        BY <1>7, <2>1, ValueOfParts
    <2>3. spent = ValueOf(Outputs(tx)) + s.publicAmount + s.fee /\ ValueOf(Outputs(tx)) \in Nat
        BY <1>2, ValueOfSpend DEF s
    <2>4. /\ withdrawalCredit' \in [Accounts -> Nat] /\ balance' \in Nat
          /\ balance' >= ValueOf(UnspentNotes') + credits
        BY <1>1 DEF Money, ValueOf
    <2>5. credits \in Nat
        BY <2>4, PoolAssumption, TotalType
    <2> HIDE DEF spent, rest, credits
    <2> QED
        BY <1>3, <1>4, <2>2, <2>3, <2>4, <2>5
<1>9. \A i \in 1..Len(tx.refs) :
          ReferenceValid(tx.refs[i].source, tx.refs[i].slot, tx.refs[i].root)'
    BY <1>3, <1>6
<1> QED
    BY <1>2, <1>8, <1>9 DEF PrefixValid

(***************************************************************************)
(* Whatever others do, a pending spend that could be included still can be *)
(* after the next step, unless that step consumed one of its keys or let   *)
(* its reference leave the window.                                         *)
(***************************************************************************)
THEOREM PendingStaysValidHolds == Spec => PendingStaysValid
<1> DEFINE Stays == \A tx \in mempool \cap mempool' :
                        (/\ PrefixValid(tx)
                         /\ tx.nonceKeys \cap consumedKeys' = {}
                         /\ slot' - tx.refs[1].slot < RING_LENGTH)
                        => PrefixValid(tx)'
<1>1. PoolSafety /\ PoolSafety' /\ [Next]_poolVars => Stays
    BY PendingStays
<1> QED
    BY <1>1, PoolSafetyHolds, PTL DEF Spec, PendingStaysValid

-----------------------------------------------------------------------------
(***************************************************************************)
(* The refinement.  A deposit is a deposit of the ledger, a claim is a     *)
(* withdrawal, a spend that takes effect is a spend; nothing else changes  *)
(* what the ledger sees, and nothing is burned.                            *)
(***************************************************************************)
LEMMA PairCounted ==
    ASSUME NEW a, NEW b
    PROVE  /\ IsFiniteSet(OfValue(a, b)) /\ Cardinality(OfValue(a, b)) \in 0..2
           /\ OfValue(a, b) # {} => Cardinality(OfValue(a, b)) \in 1..2
<1>1. IsFiniteSet({a}) /\ Cardinality({a}) = 1
    BY FS_Singleton
<1>2. IsFiniteSet({a} \cup {b}) /\ Cardinality({a} \cup {b}) \in 1..2
    BY <1>1, FS_AddElement
<1>3. OfValue(a, b) \subseteq {a} \cup {b}
    BY DEF OfValue
<1>4. /\ IsFiniteSet(OfValue(a, b))
      /\ Cardinality(OfValue(a, b)) <= Cardinality({a} \cup {b})
    BY <1>2, <1>3, FS_Subset
<1>5. /\ Cardinality(OfValue(a, b)) \in Nat
      /\ Cardinality(OfValue(a, b)) = 0 <=> OfValue(a, b) = {}
    BY <1>4, FS_CardinalityType, FS_EmptySet
<1> QED
    BY <1>2, <1>4, <1>5

\* Between two functions that differ at one account at most.
LEMMA OneAccountChanged ==
    ASSUME NEW f, NEW g, NEW x, \A y \in Accounts : y # x => g[y] = f[y]
    PROVE  Cardinality({y \in Accounts : g[y] # f[y]}) <= 1
<1> DEFINE changed == {y \in Accounts : g[y] # f[y]}
<1>1. changed \subseteq {x}
    OBVIOUS
<1>2. IsFiniteSet({x}) /\ Cardinality({x}) = 1
    BY FS_Singleton
<1> HIDE DEF changed
<1>3. Cardinality(changed) <= 1
    BY <1>1, <1>2, FS_Subset
<1> QED
    BY <1>3 DEF changed

\* The ledger counts and adds as this module does.
LEMMA LedgerCounts == \A S : Ledger!Cardinality(S) = Cardinality(S)
BY DEF Ledger!Cardinality, Cardinality

LEMMA LedgerAdds == \A f : Ledger!SumFunction(f) = SumFunction(f)
BY DEF Ledger!SumFunction, Ledger!SumFunctionOnSet, Ledger!FoldFunctionOnSet,
       Ledger!MapThenFoldSet, SumFunction, SumFunctionOnSet, FoldFunctionOnSet, MapThenFoldSet

LEMMA DepositRefines ==
    ASSUME PoolIInv, NotesIInv, NEW inner \in PayableInners, NEW value \in ShieldValues,
           Deposit(inner, value)
    PROVE  Ledger!Deposit
<1> DEFINE cm == Commit(inner, value)
<1>1. /\ cm \notin isLeaf /\ UnspentNotes' = UnspentNotes \cup {cm}
      /\ SpentNotes' = SpentNotes /\ cm.value > 0
    BY DepositStep
<1>2. UNCHANGED <<withdrawalCredit, feesCollected>>
    BY DEF Deposit, Shield, OtherVars
<1> HIDE DEF cm
<1>3. cm \notin UnspentNotes \cup SpentNotes
    BY <1>1 DEF UnspentNotes, SpentNotes
<1> QED
    BY <1>1, <1>2, <1>3 DEF Ledger!Deposit

LEMMA SpendRefines ==
    ASSUME PoolIInv, NotesIInv, Money, NEW tx \in mempool, NEW cost, TakesEffect(tx, cost)
    PROVE  Ledger!Spend
<1> DEFINE s == SpendOf(tx)
<1>1. WalletMade(tx)
    BY DEF NotesIInv, MempoolIsMade
<1>2. /\ s.publicAmount \in Nat /\ s.fee \in Nat
      /\ s.publicAmount = 0 <=> s.recipient = NoAddress
    BY <1>1, ApprovedSpend
<1>3. s.publicAmount = 0 \/ s.recipient \in Accounts
    BY <1>1, <1>2 DEF WalletMade
<1>4. /\ withdrawalCredit' = IF s.publicAmount = 0 THEN withdrawalCredit
                             ELSE [withdrawalCredit EXCEPT ![s.recipient] = @ + s.publicAmount]
      /\ feesCollected' = feesCollected + s.fee
    BY DEF TakesEffect
<1>5. /\ ValueOf(SpentBy(tx)) = ValueOf(Outputs(tx)) + s.publicAmount + s.fee
      /\ ValueOf(SpentBy(tx)) > 0 /\ ValueOf(Outputs(tx)) \in Nat
    BY <1>1, ValueOfSpend
<1>6. Outputs(tx) = OfValue(s.outCm1, s.outCm2)
    BY <1>1, ApprovedOutputs
<1> HIDE DEF s
<1>7. /\ Outputs(tx) \cap isLeaf = {} /\ SpentBy(tx) \subseteq UnspentNotes
      /\ UnspentNotes' = (UnspentNotes \ SpentBy(tx)) \cup Outputs(tx)
      /\ SpentNotes' = SpentNotes \cup SpentBy(tx)
    BY TakesEffectStep
<1>8. /\ UnspentNotes \ UnspentNotes' = SpentBy(tx)
      /\ UnspentNotes' \ UnspentNotes = Outputs(tx)
      /\ Outputs(tx) \cap SpentNotes = {}
    BY <1>7 DEF UnspentNotes, SpentNotes
<1>9. Cardinality(SpentBy(tx)) \in 1..2 /\ Cardinality(Outputs(tx)) <= 2
    <2>1. SpentBy(tx) # {}
        BY <1>5, ValueOfOne
    <2> QED
        BY <1>6, <2>1, PairCounted DEF SpentBy
<1>10. /\ SumFunction(withdrawalCredit) \in Nat
       /\ SumFunction(withdrawalCredit') = SumFunction(withdrawalCredit) + s.publicAmount
    BY <1>2, <1>3, <1>4, Credited
<1>11. /\ \A who \in Accounts : withdrawalCredit'[who] >= withdrawalCredit[who]
       /\ \A who \in Accounts :
             who # s.recipient => withdrawalCredit'[who] = withdrawalCredit[who]
    BY <1>2, <1>4 DEF Money
<1>12. Cardinality({who \in Accounts : withdrawalCredit'[who] # withdrawalCredit[who]}) <= 1
    BY <1>11, OneAccountChanged
<1>13. feesCollected \in Nat /\ feesCollected' >= feesCollected
    BY <1>2, <1>4 DEF Money
<1>14. ValueOf(SpentBy(tx)) =
           ValueOf(Outputs(tx)) + (SumFunction(withdrawalCredit') - SumFunction(withdrawalCredit))
               + (feesCollected' - feesCollected)
    BY <1>2, <1>4, <1>5, <1>10, <1>13
<1>15. \A notes : Ledger!TotalValue(notes) = ValueOf(notes)
    BY LedgerAdds DEF Ledger!TotalValue, ValueOf
<1> QED
    BY <1>7, <1>8, <1>9, <1>11, <1>12, <1>13, <1>14, <1>15, LedgerCounts, LedgerAdds, Zenon
       DEF Ledger!Spend

LEMMA ClaimRefines ==
    ASSUME NotesIInv, Money, NEW who \in Accounts, Claim(who)
    PROVE  Ledger!Withdraw(who)
<1>1. /\ withdrawalCredit[who] # 0
      /\ withdrawalCredit' = [withdrawalCredit EXCEPT ![who] = 0]
    BY DEF Claim, ClaimWithdrawal
<1>2. withdrawalCredit[who] > 0
    BY <1>1 DEF Money
<1>3. NotesStay /\ UNCHANGED feesCollected
    BY ClaimStep
<1>4. UnspentNotes' = UnspentNotes /\ SpentNotes' = SpentNotes
    BY <1>3, NotesStayStep
<1> QED
    BY <1>1, <1>2, <1>3, <1>4 DEF Ledger!Withdraw

LEMMA LedgerStutters ==
    ASSUME NotesStay, UNCHANGED <<withdrawalCredit, feesCollected>>
    PROVE  UNCHANGED Ledger!ledgerVars
BY NotesStayStep DEF Ledger!ledgerVars

LEMMA PoolStepRefines ==
    ASSUME PoolSafety, FreshIInv, ~ReuseInners, [Next]_poolVars
    PROVE  Ledger!LedgerNext \/ UNCHANGED Ledger!ledgerVars
<1>0. PoolIInv /\ NotesIInv /\ Money
    BY DEF PoolSafety
<1>1. ASSUME NEW inner \in PayableInners, NEW value \in ShieldValues, Deposit(inner, value)
      PROVE  Ledger!LedgerNext
    BY <1>0, <1>1, DepositRefines DEF Ledger!LedgerNext
<1>2. ASSUME NEW signer \in Authorizers, NEW ref, NEW first \in KnownNotes,
             NEW second \in KnownNotes \cup {DummyInput(signer)}, NEW fee, NEW flag,
             BuildSpend(signer, ref, first, second, fee, flag)
      PROVE  UNCHANGED Ledger!ledgerVars
    <2>1. UNCHANGED <<withdrawalCredit, feesCollected>>
        BY <1>2 DEF BuildSpend, logicVars
    <2> QED
        BY <1>0, <1>2, <2>1, BuildSpendStep, LedgerStutters
<1>3. ASSUME NEW tx \in mempool, NEW cost, IncludeSpend(tx, cost)
      PROVE  Ledger!LedgerNext
    BY <1>0, <1>3, IncludedSpend, NothingBurns, SpendRefines DEF Ledger!LedgerNext
<1>4. ASSUME NEW who \in Accounts, Claim(who)
      PROVE  Ledger!LedgerNext
    BY <1>0, <1>4, ClaimRefines DEF Ledger!LedgerNext
<1>5. ASSUME (\E epoch \in Epochs : Publish(epoch)) \/ PassSlot \/ UNCHANGED poolVars
      PROVE  UNCHANGED Ledger!ledgerVars
    BY <1>0, <1>5, QuietStep, LedgerStutters DEF Quiet
<1> QED
    BY <1>1, <1>2, <1>3, <1>4, <1>5, Zenon DEF Next

(***************************************************************************)
(* As long as every inner that is paid to is a new one, the pool is the    *)
(* ledger: no history of proofs, approvals, settlements, rollovers and     *)
(* reorderings creates a note twice, spends one twice, spends part of a    *)
(* pair, or mints or loses value.                                          *)
(***************************************************************************)
THEOREM LedgerRefinedHolds ==
    ASSUME ReuseInners = FALSE
    PROVE  Spec => LedgerRefined
<1>1. Init => Ledger!LedgerInit
    BY DEF Init, LogicInit, Ledger!LedgerInit, UnspentNotes, SpentNotes
<1>2. PoolSafety /\ FreshIInv /\ [Next]_poolVars => [Ledger!LedgerNext]_(Ledger!ledgerVars)
    BY PoolStepRefines
<1> QED
    BY <1>1, <1>2, PoolSafetyHolds, FreshHolds, PTL DEF Spec, LedgerRefined, Ledger!LedgerSpec

-----------------------------------------------------------------------------
(***************************************************************************)
(* Every note stays provable.  The tree is the one its events describe, so *)
(* the way down from the root of an epoch along the index of a leaf ends   *)
(* at that leaf, unless an inner node hashes to the word that stands for   *)
(* an empty one, which for Poseidon nobody can bring about.                *)
(***************************************************************************)
LEMMA AtMostTwoOutputs ==
    ASSUME NEW s
    PROVE  Len(NewOutputs(s)) \in 0..2
BY DEF NewOutputs

LEMMA PoolTreeNext ==
    ASSUME PoolIInv, TreeBuilt, [Next]_poolVars
    PROVE  TreeBuilt'
<1>1. ASSUME NEW inner \in PayableInners, NEW value \in ShieldValues, Deposit(inner, value)
      PROVE  TreeBuilt'
    <2> DEFINE cms == <<Commit(inner, value)>>
    <2>1. Len(cms) = 1 /\ WithinEpochs(1) /\ AppendLeaves(cms)
        BY <1>1 DEF Deposit, Shield
    <2> HIDE DEF cms
    <2>2. Len(cms) \in 0..2 /\ WithinEpochs(Len(cms)) /\ AppendLeaves(cms)
        BY <2>1
    <2> QED
        BY <2>2, AppendKeepsTree
<1>2. ASSUME NEW tx \in mempool, NEW cost, IncludeSpend(tx, cost)
      PROVE  TreeBuilt'
    <2>1. CASE TakesEffect(tx, cost)
        BY <2>1, AtMostTwoOutputs, AppendKeepsTree DEF TakesEffect
    <2>2. CASE Burns(tx, cost)
        BY <2>2, TreeStaysBuilt DEF Burns
    <2> QED
        BY <1>2, <2>1, <2>2, IncludedSpend
<1>3. ASSUME UNCHANGED treeVars
      PROVE  TreeBuilt'
    BY <1>3, TreeStaysBuilt
<1>4. ASSUME NEW signer, NEW ref, NEW first, NEW second, NEW fee, NEW flag,
             BuildSpend(signer, ref, first, second, fee, flag)
      PROVE  UNCHANGED treeVars
    BY <1>4, Zenon DEF BuildSpend, logicVars
<1>5. ASSUME \/ \E epoch \in Epochs : Publish(epoch)
             \/ \E who \in Accounts : Claim(who)
             \/ PassSlot
             \/ UNCHANGED poolVars
      PROVE  UNCHANGED treeVars
    BY <1>5 DEF Publish, PublishEpochRoot, Claim, ClaimWithdrawal, PassSlot, Tick, poolVars,
                logicVars
<1> QED
    BY <1>1, <1>2, <1>3, <1>4, <1>5, Zenon DEF Next

LEMMA PoolTreeHolds == Spec => [](TreeBuilt /\ NotesIInv)
<1>1. Init => PoolSafety /\ TreeBuilt
    BY PoolInitIInv, NotesInitIInv, MoneyInit, EmptyTreeIsBuilt DEF PoolSafety, Init
<1>2. PoolSafety /\ TreeBuilt /\ [Next]_poolVars => TreeBuilt'
    BY PoolTreeNext DEF PoolSafety
<1>3. PoolSafety => NotesIInv
    BY DEF PoolSafety
<1> QED
    BY <1>1, <1>2, <1>3, PoolSafetyHolds, PTL DEF Spec

LEMMA BuiltTreeOpens ==
    ASSUME NothingHashesToZero, TreeBuilt, NEW leaf \in leaves
    PROVE  Opens(EpochRoot(leaf.epoch), leaf.cm)
<1> DEFINE f == PrefixLeaves(leaf.epoch, CAPACITY)
<1>1. leaf.index \in Indices /\ leaf.epoch \in 0..currentEpoch /\ leaf.index < CAPACITY
    BY ShapeAssumption, EpochAssumption DEF TreeBuilt, TreeShape, IndicesDense, Indices, Epochs
<1>2. EpochRoot(leaf.epoch) = MerkleRoot(f)
    BY <1>1 DEF TreeBuilt, RootsMatchEvents, PrefixRoot
<1>3. f[leaf.index] = leaf.cm
    BY <1>1, RowsOfEvents, RowReads DEF TreeBuilt, IndicesDense, PlacesDiffer
<1> HIDE DEF f
<1>4. LeafAt(MerkleRoot(f), leaf.index) = leaf.cm
    BY <1>1, <1>3, RootOpensRow
<1> QED
    BY <1>1, <1>2, <1>4 DEF Opens

(***************************************************************************)
(* Whatever has happened since, the authenticated root of the epoch of a   *)
(* note opens at it, for every depth of the tree, and its value is in the  *)
(* circuit's range: no note is ever stuck (_insert, _computeRoot,          *)
(* _rollEpoch).                                                            *)
(***************************************************************************)
THEOREM NotesProvableHolds ==
    ASSUME NothingHashesToZero
    PROVE  Spec => []NotesProvable
<1>1. TreeBuilt /\ NotesIInv => NotesProvable
    <2> SUFFICES ASSUME TreeBuilt, NotesIInv, NEW leaf \in leaves
                 PROVE  /\ Opens(EpochRoot(leaf.epoch), leaf.cm)
                        /\ leaf.cm.value \in 1..(MAX_VALUE - 1)
        BY DEF NotesProvable
    <2>1. Opens(EpochRoot(leaf.epoch), leaf.cm)
        BY BuiltTreeOpens
    <2>2. leaf.cm \in Commitments /\ leaf.cm.value > 0
        BY DEF NotesIInv, LeavesAreNotes
    <2>3. leaf.cm.value \in 1..(MAX_VALUE - 1)
        BY <2>2, ValueAssumption DEF Commitments
    <2> QED
        BY <2>1, <2>3
<1> QED
    BY <1>1, PoolTreeHolds, PTL
=============================================================================
