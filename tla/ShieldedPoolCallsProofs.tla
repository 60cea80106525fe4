---------------------- MODULE ShieldedPoolCallsProofs ----------------------
(***************************************************************************)
(* The settlement contract under arbitrary callers, for every tree depth,  *)
(* every bound and every set of arguments.                                 *)
(*                                                                         *)
(* LeafDiscipline is inductive together with the type invariant: the range *)
(* of nextIndex and leaf.epoch <= currentEpoch are what shows that a fresh *)
(* epoch starts empty and that an insertion takes a free place. The roots  *)
(* and the ring follow from the invariants TreeBuilt and RingBuilt of      *)
(* ShieldedPoolLogicProofs.                                                *)
(*                                                                         *)
(* The last part counts the storage writes of one settlement, which needs  *)
(* an invariant too: which slots a settlement makes depends on what        *)
(* earlier ones left in them.                                              *)
(***************************************************************************)
EXTENDS GasProfile, ShieldedPoolLogicProofs, FiniteSetTheorems

LogicIInv == LogicTypeOK /\ LeafDiscipline

LEMMA ShapeOfTypes == LogicIInv => LeafIInv
<1> SUFFICES ASSUME LogicIInv PROVE LeafIInv
    OBVIOUS
<1>1. \A leaf \in leaves : leaf.epoch \in Nat /\ leaf.index \in Indices
    BY EpochAssumption DEF LogicIInv, LogicTypeOK, LeafEvent, Epochs
<1> QED
    BY <1>1 DEF LogicIInv, LogicTypeOK, LeafIInv, TreeShape

-----------------------------------------------------------------------------
LEMMA LogicInitIInv == LogicInit => LogicIInv
<1> SUFFICES ASSUME LogicInit PROVE LogicIInv
    OBVIOUS
<1> USE ShapeAssumption, EpochAssumption, RingAssumption DEF LogicInit, RootsInit
<1>1. LogicTypeOK
    BY DEF LogicTypeOK, NoSubtrees, Epochs
<1>2. LeafDiscipline
    BY DEF LeafDiscipline, AppendedOnce, IndicesDense, SinksOutside, Indices
<1> QED
    BY <1>1, <1>2 DEF LogicIInv

\* One step of a call that appends no leaf: only credits, balance and slots move.
LEMMA OtherCallsIInv ==
    ASSUME LogicIInv, UNCHANGED treeVars,
           (withdrawalCredit \in [Accounts -> Nat])', (balance \in Nat)', (slot \in 0..MaxSlot)'
    PROVE  LogicIInv'
<1>1. LogicTypeOK'
    BY DEF LogicIInv, LogicTypeOK, treeVars, LeafEvent
<1>2. LeafDiscipline'
    BY DEF LogicIInv, LeafDiscipline, AppendedOnce, IndicesDense, SinksOutside, treeVars
<1> QED
    BY <1>1, <1>2 DEF LogicIInv

LEMMA LogicNextIInv == LogicIInv /\ [LogicNext]_logicVars => LogicIInv'
<1> SUFFICES ASSUME LogicIInv, [LogicNext]_logicVars PROVE LogicIInv'
    OBVIOUS
<1>1. /\ withdrawalCredit \in [Accounts -> Nat]
      /\ balance \in Nat
      /\ slot \in 0..MaxSlot
    BY DEF LogicIInv, LogicTypeOK
<1>2. ASSUME NEW inner \in Inners, NEW value \in Values, Shield(inner, value)
      PROVE  LogicIInv'
    <2>1. /\ (withdrawalCredit \in [Accounts -> Nat])'
          /\ (balance \in Nat)'
          /\ (slot \in 0..MaxSlot)'
        BY <1>1, <1>2, CallsAssumption DEF Shield, rootsVars
    <2> QED
        BY <1>2, <2>1, ShieldAppends, ShapeOfTypes, AppendLeavesDiscipline
           DEF LogicIInv, LogicTypeOK, LeafIInv, TreeShape
<1>3. ASSUME NEW sender \in Senders, NEW s \in Spends, Settle(sender, s)
      PROVE  LogicIInv'
    <2>1. /\ (withdrawalCredit \in [Accounts -> Nat])'
          /\ (balance \in Nat)'
          /\ (slot \in 0..MaxSlot)'
        <3>1. balance' = balance /\ slot' = slot
            BY <1>1, <1>3 DEF Settle, SettleEffects, rootsVars
        <3>2. \/ withdrawalCredit' = withdrawalCredit
              \/ withdrawalCredit' = [withdrawalCredit EXCEPT
                     ![s.recipient] = withdrawalCredit[s.recipient] + s.publicAmount]
            BY <1>3 DEF Settle, SettleEffects
        <3>3. s.publicAmount \in Nat
            BY CallsAssumption
        <3>4. CASE s.recipient \in Accounts
            <4>1. withdrawalCredit[s.recipient] + s.publicAmount \in Nat
                BY <1>1, <3>3, <3>4
            <4> QED
                BY <1>1, <3>1, <3>2, <4>1
        <3>5. CASE s.recipient \notin Accounts
            BY <1>1, <3>1, <3>2, <3>5
        <3> QED
            BY <3>4, <3>5
    <2> QED
        BY <1>3, <2>1, SettleAppends, ShapeOfTypes, AppendLeavesDiscipline
           DEF LogicIInv, LogicTypeOK, LeafIInv, TreeShape
<1>4. ASSUME NEW epoch \in Epochs, PublishEpochRoot(epoch)
      PROVE  LogicIInv'
    BY <1>1, <1>4, OtherCallsIInv DEF PublishEpochRoot
<1>5. ASSUME NEW who \in Accounts, ClaimWithdrawal(who)
      PROVE  LogicIInv'
    <2>1. withdrawalCredit[who] \in Nat /\ withdrawalCredit[who] <= balance
        BY <1>1, <1>5 DEF ClaimWithdrawal
    <2> QED
        BY <1>1, <1>5, <2>1, OtherCallsIInv DEF ClaimWithdrawal, rootsVars
<1>6. CASE Tick
    BY <1>1, <1>6, OtherCallsIInv, RingAssumption DEF Tick, NextSlot
<1>7. CASE UNCHANGED logicVars
    BY <1>1, <1>7, OtherCallsIInv DEF logicVars, rootsVars
<1> QED
    BY <1>2, <1>3, <1>4, <1>5, <1>6, <1>7 DEF LogicNext

(***************************************************************************)
(* Whoever calls, with whatever arguments, the contract's storage keeps    *)
(* its types and the fill of the tree never exceeds its capacity.          *)
(***************************************************************************)
THEOREM LogicTypeInvariant == LogicSpec => []LogicTypeOK
<1>1. LogicIInv => LogicTypeOK
    BY DEF LogicIInv
<1> QED
    BY <1>1, LogicInitIInv, LogicNextIInv, PTL DEF LogicSpec

(***************************************************************************)
(* Whoever calls, with whatever arguments, no commitment is ever inserted  *)
(* twice over all epochs, no two leaves share a place, and an epoch fills  *)
(* without gaps.                                                           *)
(***************************************************************************)
THEOREM LeafDisciplineHolds == LogicSpec => []LeafDiscipline
<1>1. LogicIInv => LeafDiscipline
    BY DEF LogicIInv
<1> QED
    BY <1>1, LogicInitIInv, LogicNextIInv, PTL DEF LogicSpec

-----------------------------------------------------------------------------
\* Appending reaches the active epoch or the one after it, never a closed one.
LEMMA AppendLeavesKeepsClosed ==
    ASSUME LogicIInv,
           NEW cms, Appendable(cms), WithinEpochs(Len(cms)), AppendLeaves(cms)
    PROVE  KeepsClosedEpochs
<1>1. PICK epoch \in Epochs, start \in 0..CAPACITY :
          /\ epoch = currentEpoch \/ epoch = currentEpoch + 1
          /\ currentEpoch' = epoch
          /\ leaves' = leaves \cup EventsOf(cms, epoch, start)
          /\ \A closed \in 0..(currentEpoch - 1) : finalRoot'[closed] = finalRoot[closed]
    BY ShapeOfTypes, AppendLeavesEffect DEF LeafIInv, Appendable
<1>2. currentEpoch \in Nat
    BY EpochAssumption DEF LogicIInv, LogicTypeOK, Epochs
<1>3. \A leaf \in leaves' \ leaves : leaf.epoch = epoch
    BY <1>1 DEF EventsOf
<1>4. ASSUME NEW closed \in 0..(currentEpoch - 1)
      PROVE  LeavesOf(closed)' = LeavesOf(closed)
    <2>1. epoch # closed
        BY <1>1, <1>2
    <2>2. leaves \subseteq leaves'
        BY <1>1
    <2> QED
        BY <1>3, <2>1, <2>2 DEF LeavesOf
<1> QED
    BY <1>1, <1>2, <1>4 DEF KeepsClosedEpochs

LEMMA NextKeepsClosed == LogicIInv /\ [LogicNext]_logicVars => [KeepsClosedEpochs]_logicVars
<1> SUFFICES ASSUME LogicIInv, LogicNext PROVE KeepsClosedEpochs
    OBVIOUS
<1>1. ASSUME UNCHANGED treeVars
      PROVE  KeepsClosedEpochs
    BY <1>1, EpochAssumption
       DEF KeepsClosedEpochs, LeavesOf, treeVars, LogicIInv, LogicTypeOK, Epochs
<1>2. ASSUME NEW inner \in Inners, NEW value \in Values, Shield(inner, value)
      PROVE  KeepsClosedEpochs
    BY <1>2, ShieldAppends, AppendLeavesKeepsClosed
<1>3. ASSUME NEW sender \in Senders, NEW s \in Spends, Settle(sender, s)
      PROVE  KeepsClosedEpochs
    BY <1>3, SettleAppends, AppendLeavesKeepsClosed
<1> QED
    BY <1>1, <1>2, <1>3 DEF LogicNext, PublishEpochRoot, ClaimWithdrawal, Tick

(***************************************************************************)
(* Whoever calls, with whatever arguments, the root and the leaves of a    *)
(* closed epoch never change again: an old note stays provable.            *)
(***************************************************************************)
THEOREM ClosedEpochsStayFixed == LogicSpec => ClosedEpochsFixed
<1> QED
    BY LogicInitIInv, LogicNextIInv, NextKeepsClosed, PTL DEF LogicSpec, ClosedEpochsFixed

-----------------------------------------------------------------------------
\* The leaves that a call appends are as many as its commitments.
LEMMA AppendedLeavesCounted ==
    ASSUME LogicIInv, NEW cms, Appendable(cms), NEW epoch, NEW start,
           leaves' = leaves \cup EventsOf(cms, epoch, start)
    PROVE  Cardinality(leaves' \ leaves) = Len(cms)
<1> DEFINE Event(i) == [cm |-> cms[i], epoch |-> epoch, index |-> start + i - 1]
           added == leaves' \ leaves
<1>1. /\ Len(cms) \in 0..2
      /\ \A i \in 1..Len(cms) : cms[i] \notin isLeaf
      /\ \A i, j \in 1..Len(cms) : cms[i] = cms[j] => i = j
    BY DEF Appendable
<1>2. \A i \in 1..Len(cms) : Event(i) \notin leaves
    <2>1. \A leaf \in leaves : leaf.cm \in isLeaf
        BY DEF LogicIInv, LeafDiscipline, AppendedOnce
    <2>2. \A i \in 1..Len(cms) : Event(i).cm = cms[i]
        OBVIOUS
    <2> HIDE DEF Event
    <2> QED
        BY <1>1, <2>1, <2>2
<1>3. added = {Event(i) : i \in 1..Len(cms)}
    BY <1>2 DEF EventsOf
<1>4. CASE Len(cms) = 0
    <2>1. added = {}
        BY <1>3, <1>4
    <2> QED
        BY <1>4, <2>1, FS_EmptySet
<1>5. CASE Len(cms) = 1
    <2>1. 1..1 = {1}
        OBVIOUS
    <2>2. added = {Event(1)}
        <3> HIDE DEF Event, added
        <3> QED
            BY <1>3, <1>5, <2>1
    <2> HIDE DEF Event, added
    <2>3. Cardinality(added) = 1
        BY <2>2, FS_Singleton
    <2> QED
        BY <1>5, <2>3 DEF added
<1>6. CASE Len(cms) = 2
    <2>1. 1..2 = {1, 2}
        OBVIOUS
    <2>2. Event(1) # Event(2)
        <3>1. cms[1] # cms[2]
            BY <1>1, <1>6
        <3> QED
            BY <3>1
    <2>3. added = {Event(1)} \cup {Event(2)}
        <3> HIDE DEF Event, added
        <3> QED
            BY <1>3, <1>6, <2>1
    <2> HIDE DEF Event, added
    <2>4. IsFiniteSet({Event(1)}) /\ Cardinality({Event(1)}) = 1
        BY FS_Singleton
    <2>5. Event(2) \notin {Event(1)}
        BY <2>2
    <2>6. Cardinality(added) = 2
        BY <2>3, <2>4, <2>5, FS_AddElement
    <2> QED
        BY <1>6, <2>6 DEF added
<1> QED
    BY <1>1, <1>4, <1>5, <1>6

LEMMA AppendLeavesRolls ==
    ASSUME LogicIInv,
           NEW cms, Appendable(cms), WithinEpochs(Len(cms)), AppendLeaves(cms)
    PROVE  RollsForLeaves
<1> SUFFICES ASSUME currentEpoch' # currentEpoch
             PROVE  /\ leaves' # leaves
                    /\ nextIndex >= CAPACITY - 1
                    /\ nextIndex + Cardinality(leaves' \ leaves) > CAPACITY
    BY DEF RollsForLeaves
<1> DEFINE count == Len(cms)
<1>1. MustRoll(count)
    BY DEF AppendLeaves
<1>2. count \in 0..2
    BY DEF Appendable
<1>3. CAPACITY \in Nat /\ nextIndex \in 0..CAPACITY
    BY ShapeAssumption DEF LogicIInv, LogicTypeOK
<1>4. count > CAPACITY - nextIndex
    BY <1>1 DEF MustRoll
<1>5. leaves' = leaves \cup EventsOf(cms, currentEpoch + 1, 0)
    BY <1>1 DEF AppendLeaves, EventsOf
<1>6. Cardinality(leaves' \ leaves) = count
    BY <1>5, AppendedLeavesCounted
<1> HIDE DEF count
<1>7. nextIndex >= CAPACITY - 1 /\ nextIndex + count > CAPACITY /\ count # 0
    BY <1>2, <1>3, <1>4
<1>8. leaves' # leaves
    <2>1. SUFFICES ASSUME leaves' \ leaves = {} PROVE FALSE
        OBVIOUS
    <2> QED
        BY <1>6, <1>7, <2>1, FS_EmptySet
<1> QED
    BY <1>6, <1>7, <1>8

LEMMA NextRolls == LogicIInv /\ [LogicNext]_logicVars => [RollsForLeaves]_logicVars
<1> SUFFICES ASSUME LogicIInv, LogicNext PROVE RollsForLeaves
    OBVIOUS
<1>1. ASSUME UNCHANGED treeVars
      PROVE  RollsForLeaves
    BY <1>1 DEF RollsForLeaves, treeVars
<1>2. ASSUME NEW inner \in Inners, NEW value \in Values, Shield(inner, value)
      PROVE  RollsForLeaves
    BY <1>2, ShieldAppends, AppendLeavesRolls
<1>3. ASSUME NEW sender \in Senders, NEW s \in Spends, Settle(sender, s)
      PROVE  RollsForLeaves
    BY <1>3, SettleAppends, AppendLeavesRolls
<1> QED
    BY <1>1, <1>2, <1>3 DEF LogicNext, PublishEpochRoot, ClaimWithdrawal, Tick

(***************************************************************************)
(* Whoever calls, with whatever arguments, an epoch is closed only by a    *)
(* call whose leaves do not fit, wasting at most one place; an exit that   *)
(* creates no note leaves a full tree alone (_ensureCapacity).             *)
(***************************************************************************)
THEOREM RollOnlyForLeavesHolds == LogicSpec => RollOnlyForLeaves
<1> QED
    BY LogicInitIInv, LogicNextIInv, NextRolls, PTL DEF LogicSpec, RollOnlyForLeaves

-----------------------------------------------------------------------------
LEMMA NextKeepsTree == TreeBuilt /\ [LogicNext]_logicVars => TreeBuilt'
<1> SUFFICES ASSUME TreeBuilt, [LogicNext]_logicVars PROVE TreeBuilt'
    OBVIOUS
<1>1. ASSUME NEW inner \in Inners, NEW value \in Values, Shield(inner, value)
      PROVE  TreeBuilt'
    BY <1>1, ShieldAppends, AppendKeepsTree DEF Appendable
<1>2. ASSUME NEW sender \in Senders, NEW s \in Spends, Settle(sender, s)
      PROVE  TreeBuilt'
    BY <1>2, SettleAppends, AppendKeepsTree DEF Appendable
<1>3. CASE UNCHANGED treeVars
    BY <1>3, TreeStaysBuilt
<1> QED
    BY <1>1, <1>2, <1>3 DEF LogicNext, PublishEpochRoot, ClaimWithdrawal, Tick, logicVars

(***************************************************************************)
(* Whoever calls, with whatever arguments, for every depth of the tree:    *)
(* the roots of _insert and _computeRoot, in the active and in every       *)
(* closed epoch and at every fill, are those of the complete tree that the *)
(* LeafAppended events describe.                                           *)
(***************************************************************************)
THEOREM RootsMatchEventsHolds == LogicSpec => []RootsMatchEvents
<1>1. LogicInit => TreeBuilt
    BY EmptyTreeIsBuilt
<1>2. TreeBuilt => RootsMatchEvents
    BY DEF TreeBuilt
<1> QED
    BY <1>1, <1>2, NextKeepsTree, PTL DEF LogicSpec

-----------------------------------------------------------------------------
LEMMA NextKeepsRing == RingBuilt /\ [LogicNext]_logicVars => RingBuilt'
<1> SUFFICES ASSUME RingBuilt, [LogicNext]_logicVars PROVE RingBuilt'
    OBVIOUS
<1>1. slot \in Nat
    BY DEF RingBuilt
<1>2. ASSUME NEW inner \in Inners, NEW value \in Values, Shield(inner, value)
      PROVE  RingBuilt'
    <2>1. UNCHANGED rootsVars
        BY <1>2 DEF Shield
    <2> QED
        BY <1>2, <2>1, ShieldAppends, AppendKeepsRing DEF Appendable
<1>3. ASSUME NEW sender \in Senders, NEW s \in Spends, Settle(sender, s)
      PROVE  RingBuilt'
    <2>1. UNCHANGED rootsVars
        BY <1>3 DEF Settle, SettleEffects
    <2> QED
        BY <1>3, <2>1, SettleAppends, AppendKeepsRing DEF Appendable
<1>4. ASSUME NEW epoch \in Epochs, PublishEpochRoot(epoch)
      PROVE  RingBuilt'
    BY <1>4, PublishKeepsRing
<1>5. ASSUME NEW who \in Accounts, ClaimWithdrawal(who)
      PROVE  RingBuilt'
    BY <1>1, <1>5, RingStaysBuilt DEF ClaimWithdrawal, rootsVars
<1>6. CASE Tick
    BY <1>1, <1>6, RingStaysBuilt DEF Tick, NextSlot
<1>7. CASE UNCHANGED logicVars
    BY <1>1, <1>7, RingStaysBuilt DEF logicVars, rootsVars
<1> QED
    BY <1>2, <1>3, <1>4, <1>5, <1>6, <1>7 DEF LogicNext

LEMMA BuiltRingIsAuthentic == RingBuilt => RingAuthentic
<1> SUFFICES ASSUME RingBuilt PROVE RingAuthentic
    OBVIOUS
<1> SUFFICES ASSUME NEW source \in Sources
             PROVE  LET published == {ring[source][i] : i \in Entries} \ {NoEntry}
                        roots == [n \in 0..CAPACITY |-> PrefixRoot(source, n)]
                        Fills(entry) == {n \in 0..CAPACITY : entry.root = roots[n]}
                    IN  /\ published # {} => source <= currentEpoch
                        /\ \A entry \in published : Fills(entry) # {}
                        /\ \A a, b \in published : a.slot < b.slot =>
                               \E n \in Fills(a), m \in Fills(b) : n <= m
    BY DEF RingAuthentic
<1> DEFINE published == {ring[source][i] : i \in Entries} \ {NoEntry}
           roots == [n \in 0..CAPACITY |-> PrefixRoot(source, n)]
           Fills(entry) == {n \in 0..CAPACITY : entry.root = roots[n]}
<1>1. PICK n \in [Entries -> 0..CAPACITY] : FillsOf(source, n)
    BY DEF RingBuilt
<1>2. \A entry \in published : \E i \in Entries : entry = ring[source][i] /\ Written(source, i)
    BY DEF Written
<1>3. \A i \in Entries : Written(source, i) =>
          source <= currentEpoch /\ n[i] \in Fills(ring[source][i])
    BY <1>1 DEF FillsOf
<1> HIDE DEF published, Fills
<1>4. published # {} => source <= currentEpoch
    BY <1>2, <1>3
<1>5. \A entry \in published : Fills(entry) # {}
    BY <1>2, <1>3
<1>6. ASSUME NEW a \in published, NEW b \in published, a.slot < b.slot
      PROVE  \E k \in Fills(a), m \in Fills(b) : k <= m
    <2>1. PICK i \in Entries : a = ring[source][i] /\ Written(source, i)
        BY <1>2
    <2>2. PICK j \in Entries : b = ring[source][j] /\ Written(source, j)
        BY <1>2
    <2>3. n[i] <= n[j]
        BY <1>1, <1>6, <2>1, <2>2 DEF FillsOf
    <2> QED
        BY <1>3, <2>1, <2>2, <2>3
<1> QED
    BY <1>4, <1>5, <1>6 DEF published, Fills

(***************************************************************************)
(* Whoever publishes, whenever and whatever leaves are added in between:   *)
(* every root in the ring of an epoch is the root of its first n leaves    *)
(* for some n, and a later entry commits to no fewer (publishEpochRoot).   *)
(***************************************************************************)
THEOREM RingAuthenticHolds == LogicSpec => []RingAuthentic
<1> QED
    BY EmptyRingIsBuilt, NextKeepsRing, BuiltRingIsAuthentic, PTL DEF LogicSpec

-----------------------------------------------------------------------------
(***************************************************************************)
(* The storage a settlement touches.  The slots of the two lowest subtrees *)
(* are never emptied between rollovers: that is why a settlement that      *)
(* rolls the epoch, and then writes just these two, makes none of them.    *)
(***************************************************************************)
NothingWrittenIsZero ==
    /\ NothingHashesToZero
    /\ \A inner, value : Commit(inner, value) # Zero
    /\ \A s \in Spends : s.outCm1 # Zero /\ s.outCm2 # Zero

LowestFilled(filled, n) == (n >= 1 => filled[0] # Zero) /\ (n >= 2 => filled[1] # Zero)

ProfileIInv ==
    /\ LogicIInv
    /\ LowestFilled(filledSubtrees, nextIndex)
    /\ leaves # {} => nextIndex >= 1

\* _insert writes one subtree, at the first zero bit of the index, and never zero.
LEMMA InsertWrites ==
    ASSUME NothingHashesToZero, NEW filled, DOMAIN filled = Levels,
           NEW index \in Indices, NEW cm, cm # Zero
    PROVE  \E rest \in Levels :
               /\ \A l \in Levels : l # rest => InsertLeaf(filled, index, cm)[l] = filled[l]
               /\ InsertLeaf(filled, index, cm)[rest] # Zero
               /\ rest = 0 <=> index % 2 = 0
               /\ index = 1 => rest = 1
<1> DEFINE node == CHOOSE h : h = Carried(filled, cm, DEPTH, h)
           rest == CHOOSE level \in Levels :
                       /\ Bit(index, level) = 0
                       /\ \A below \in 0..(level - 1) : Bit(index, below) = 1
           after == InsertLeaf(filled, index, cm)
<1>1. after = [filled EXCEPT ![rest] = node[rest]]
    BY DEF InsertLeaf, Carried, Levels
<1>2. node = Carried(filled, cm, DEPTH, node)
    BY CarriedExists, ShapeAssumption
<1>3. /\ rest \in Levels /\ Bit(index, rest) = 0
      /\ \A below \in 0..(rest - 1) : Bit(index, below) = 1
    BY FirstZeroExists
<1> HIDE DEF node, rest, after
<1>4. node[rest] # Zero
    <2>1. \A l \in 0..DEPTH : node[l] = IF l = 0 THEN cm ELSE Hash(filled[l - 1], node[l - 1])
        BY <1>2 DEF Carried
    <2> QED
        BY <1>3, <2>1 DEF Levels, NothingHashesToZero
<1>5. index \in Nat /\ 0 \in Levels /\ 1 \in Levels /\ rest \in Nat /\ 0 \in 0..(DEPTH - 1)
    BY <1>3, ShapeAssumption DEF Indices, Levels
<1>6. /\ Bit(index, 0) = index % 2
      /\ Bit(index, 1) = (index \div 2) % 2
    <2>1. Place(index, 0) = index /\ Place(index, 0 + 1) = Place(index, 0) \div 2
        BY <1>5, PlaceHalves
    <2>2. Bit(index, 0) = Place(index, 0) % 2 /\ Bit(index, 1) = Place(index, 1) % 2
        BY <1>5, PlaceHalves
    <2> QED
        BY <2>1, <2>2
<1>7. rest = 0 <=> index % 2 = 0
    <2>1. rest # 0 => 0 \in 0..(rest - 1)
        BY <1>5
    <2> QED
        BY <1>3, <1>6, <2>1
<1>8. index = 1 => rest = 1
    <2>1. rest # 0 /\ rest # 1 => 1 \in 0..(rest - 1)
        BY <1>5
    <2>2. index = 1 => Bit(index, 1) = 0 /\ index % 2 = 1
        BY <1>6
    <2> QED
        BY <1>3, <1>7, <2>1, <2>2
<1>9. \A l \in Levels : after[l] = IF l = rest THEN node[rest] ELSE filled[l]
    BY <1>1, <1>3
<1> QED
    BY <1>3, <1>4, <1>7, <1>8, <1>9 DEF after

LEMMA InsertKeepsLowest ==
    ASSUME NothingHashesToZero, NEW filled, DOMAIN filled = Levels,
           NEW index \in Indices, NEW cm, cm # Zero, LowestFilled(filled, index)
    PROVE  LowestFilled(InsertLeaf(filled, index, cm), index + 1)
<1> DEFINE after == InsertLeaf(filled, index, cm)
<1>1. PICK rest \in Levels :
          /\ \A l \in Levels : l # rest => after[l] = filled[l]
          /\ after[rest] # Zero
          /\ rest = 0 <=> index % 2 = 0
          /\ index = 1 => rest = 1
    BY InsertWrites
<1> HIDE DEF after
<1>2. index \in Nat /\ 0 \in Levels /\ 1 \in Levels
    BY ShapeAssumption DEF Indices, Levels
<1>3. after[0] # Zero
    BY <1>1, <1>2 DEF LowestFilled
<1>4. index >= 1 => after[1] # Zero
    BY <1>1, <1>2 DEF LowestFilled
<1>5. LowestFilled(after, index + 1)
    BY <1>2, <1>3, <1>4 DEF LowestFilled
<1> QED
    BY <1>5 DEF after

LEMMA DeepIsWide == DEPTH >= 2 => CAPACITY >= 4
<1> SUFFICES ASSUME DEPTH >= 2 PROVE CAPACITY >= 4
    OBVIOUS
<1> DEFINE T == {n \in Nat : n + 2 <= DEPTH => PowerOf2[n + 2] >= 4}
<1>1. 0 \in T
    <2>1. PowerOf2[0] = 1 /\ PowerOf2[0 + 1] = 2 * PowerOf2[0] /\ PowerOf2[1 + 1] = 2 * PowerOf2[1]
        BY PowersDouble, ShapeAssumption
    <2> QED
        BY <2>1
<1>2. ASSUME NEW n \in Nat, n \in T PROVE n + 1 \in T
    <2> SUFFICES ASSUME n + 3 <= DEPTH PROVE PowerOf2[n + 3] >= 4
        OBVIOUS
    <2>1. PowerOf2[n + 2] \in Nat /\ PowerOf2[(n + 2) + 1] = 2 * PowerOf2[n + 2]
        BY PowersDouble, ShapeAssumption DEF Levels
    <2>2. PowerOf2[n + 2] >= 4
        BY <1>2, ShapeAssumption
    <2> QED
        BY <2>1, <2>2
<1> HIDE DEF T
<1>3. \A n \in Nat : n \in T
    BY <1>1, <1>2, SetInduction
<1>4. DEPTH - 2 \in T
    BY <1>3, ShapeAssumption
<1> QED
    BY <1>4, ShapeAssumption, CapacityAssumption DEF T

\* What one call writes among the subtrees, with and without a rollover.
SubtreesWritten ==
    /\ currentEpoch' # currentEpoch =>
           \A l \in Levels : filledSubtrees'[l] # Zero => filledSubtrees[l] # Zero
    /\ (currentEpoch' = currentEpoch /\ nextIndex >= 1) =>
           \E made \in Levels : \A l \in Levels \ {made} :
               filledSubtrees'[l] # Zero => filledSubtrees[l] # Zero

LEMMA AppendKeepsLowest ==
    ASSUME NothingHashesToZero, DEPTH >= 2, ProfileIInv,
           NEW cms, Appendable(cms), \A i \in 1..Len(cms) : cms[i] # Zero,
           WithinEpochs(Len(cms)), AppendLeaves(cms)
    PROVE  /\ LowestFilled(filledSubtrees, nextIndex)'
           /\ (leaves # {} => nextIndex >= 1)'
           /\ SubtreesWritten
<1> DEFINE count == Len(cms)
           roll  == MustRoll(count)
           start == IF roll THEN 0 ELSE nextIndex
           none  == IF roll THEN NoSubtrees ELSE filledSubtrees
           one   == IF count >= 1 THEN InsertLeaf(none, start, cms[1]) ELSE none
           two   == IF count = 2 THEN InsertLeaf(one, start + 1, cms[2]) ELSE one
<1>1. /\ nextIndex' = start + count
      /\ filledSubtrees' = two
      /\ currentEpoch' = IF roll THEN currentEpoch + 1 ELSE currentEpoch
    BY DEF AppendLeaves
<1>2. leaves' = leaves \cup EventsOf(cms, IF roll THEN currentEpoch + 1 ELSE currentEpoch, start)
    BY DEF AppendLeaves, EventsOf
<1>3. count \in 0..2
    BY DEF Appendable
<1>4. /\ CAPACITY \in Nat /\ nextIndex \in 0..CAPACITY /\ currentEpoch \in Nat
      /\ DOMAIN filledSubtrees = Levels /\ DEPTH \in Nat
      /\ 0 \in Levels /\ 1 \in Levels
    BY ShapeAssumption, EpochAssumption DEF ProfileIInv, LogicIInv, LogicTypeOK, Epochs, Levels
<1>5. CAPACITY >= 4
    BY DeepIsWide
<1> HIDE DEF roll, start, none, one, two
<1>6. roll => count > CAPACITY - nextIndex
    BY DEF roll, MustRoll
<1>7. start \in Nat /\ start + count <= CAPACITY
    <2> HIDE DEF count
    <2>1. CASE roll
        BY <1>3, <1>4, <1>5, <2>1 DEF start
    <2>2. CASE ~roll
        <3>1. count <= CAPACITY - nextIndex
            BY <1>3, <1>4, <2>2 DEF roll, MustRoll, count
        <3> QED
            BY <1>3, <1>4, <2>2, <3>1 DEF start
    <2> QED
        BY <2>1, <2>2
<1>8. roll => start = 0 /\ none = NoSubtrees /\ nextIndex >= 2
    <2> HIDE DEF count
    <2>1. roll => nextIndex >= 2
        BY <1>3, <1>4, <1>5, <1>6
    <2> QED
        BY <2>1 DEF start, none
<1>9. ~roll => start = nextIndex /\ none = filledSubtrees
    BY DEF start, none
<1>10. DOMAIN none = Levels /\ LowestFilled(none, start)
    <2>1. CASE roll
        BY <1>8, <2>1 DEF NoSubtrees, LowestFilled
    <2>2. CASE ~roll
        BY <1>4, <1>9, <2>2 DEF ProfileIInv
    <2> QED
        BY <2>1, <2>2
<1>11. ASSUME count >= 1
       PROVE  /\ start \in Indices /\ cms[1] # Zero /\ one = InsertLeaf(none, start, cms[1])
              /\ DOMAIN one = Levels /\ LowestFilled(one, start + 1)
    <2>1. start \in Indices /\ cms[1] # Zero
        BY <1>3, <1>4, <1>7, <1>11 DEF Indices
    <2>2. one = InsertLeaf(none, start, cms[1])
        BY <1>11 DEF one
    <2> QED
        BY <1>10, <2>1, <2>2, InsertKeepsLowest, InsertLeafDomain
<1>12. ASSUME count = 2
       PROVE  /\ start + 1 \in Indices /\ cms[2] # Zero /\ two = InsertLeaf(one, start + 1, cms[2])
              /\ LowestFilled(two, start + 2)
    <2>1. start + 1 \in Indices /\ cms[2] # Zero /\ count >= 1
        BY <1>3, <1>4, <1>7, <1>12 DEF Indices
    <2>2. two = InsertLeaf(one, start + 1, cms[2])
        BY <1>12 DEF two
    <2>3. DOMAIN one = Levels /\ LowestFilled(one, start + 1)
        BY <1>11, <2>1
    <2>4. LowestFilled(InsertLeaf(one, start + 1, cms[2]), start + 1 + 1)
        BY <2>1, <2>3, InsertKeepsLowest
    <2>5. start + 1 + 1 = start + 2
        BY <1>7
    <2> QED
        BY <2>1, <2>2, <2>4, <2>5
<1>13. count = 0 => two = none /\ ~roll
    <2>1. count = 0 => two = none
        BY DEF one, two
    <2> HIDE DEF count
    <2>2. count = 0 => ~roll
        BY <1>4, <1>6
    <2> QED
        BY <2>1, <2>2
<1>14. count = 1 => two = one
    BY DEF two
<1>15. LowestFilled(two, start + count)
    <2>1. CASE count = 0
        BY <1>7, <1>10, <1>13, <2>1
    <2>2. CASE count = 1
        BY <1>11, <1>14, <2>2
    <2>3. CASE count = 2
        BY <1>12, <2>3
    <2> QED
        BY <1>3, <2>1, <2>2, <2>3
<1>16. LowestFilled(filledSubtrees, nextIndex)'
    BY <1>1, <1>15 DEF LowestFilled
<1>17. (leaves # {} => nextIndex >= 1)'
    <2>1. CASE count = 0
        <3>1. leaves' = leaves
            BY <1>2, <2>1 DEF EventsOf
        <3>2. nextIndex' = nextIndex
            BY <1>1, <1>4, <1>9, <1>13, <2>1
        <3> QED
            BY <3>1, <3>2 DEF ProfileIInv
    <2>2. CASE count # 0
        <3>1. count >= 1
            BY <1>3, <2>2
        <3> HIDE DEF count
        <3>2. nextIndex' >= 1
            BY <1>1, <1>3, <1>7, <3>1
        <3> QED
            BY <3>2
    <2> QED
        BY <2>1, <2>2
<1>18. ASSUME roll
       PROVE  \A l \in Levels : two[l] # Zero => filledSubtrees[l] # Zero
    <2>1. filledSubtrees[0] # Zero /\ filledSubtrees[1] # Zero
        BY <1>4, <1>8, <1>18 DEF ProfileIInv, LowestFilled
    <2>2. count # 0
        BY <1>13, <1>18
    <2>3. count >= 1
        BY <1>3, <2>2
    <2>4. \A l \in Levels : l # 0 => one[l] = Zero
        <3>1. start = 0 /\ start \in Indices /\ cms[1] # Zero /\ none = NoSubtrees
              /\ one = InsertLeaf(none, start, cms[1])
            BY <1>8, <1>11, <1>18, <2>3
        <3>2. PICK rest \in Levels :
                  /\ \A l \in Levels : l # rest => InsertLeaf(none, start, cms[1])[l] = none[l]
                  /\ rest = 0 <=> start % 2 = 0
            BY <1>10, <3>1, InsertWrites
        <3>3. rest = 0
            BY <3>1, <3>2
        <3> QED
            BY <3>1, <3>2, <3>3 DEF NoSubtrees
    <2>5. count = 2 => \A l \in Levels : l # 1 => two[l] = one[l]
        <3> SUFFICES ASSUME count = 2 PROVE \A l \in Levels : l # 1 => two[l] = one[l]
            OBVIOUS
        <3>1. start + 1 = 1 /\ start + 1 \in Indices /\ cms[2] # Zero
              /\ two = InsertLeaf(one, start + 1, cms[2]) /\ DOMAIN one = Levels
            BY <1>8, <1>11, <1>12, <1>18, <2>3
        <3>2. PICK rest \in Levels :
                  /\ \A l \in Levels : l # rest => InsertLeaf(one, start + 1, cms[2])[l] = one[l]
                  /\ start + 1 = 1 => rest = 1
            BY <3>1, InsertWrites
        <3> QED
            BY <3>1, <3>2
    <2>6. count = 1 \/ count = 2
        BY <1>3, <2>2
    <2> QED
        BY <1>14, <2>1, <2>4, <2>5, <2>6
<1>19. ASSUME ~roll, nextIndex >= 1
       PROVE  \E made \in Levels : \A l \in Levels \ {made} :
                  two[l] # Zero => filledSubtrees[l] # Zero
    <2>1. filledSubtrees[0] # Zero /\ none = filledSubtrees /\ start = nextIndex
        BY <1>4, <1>9, <1>19 DEF ProfileIInv, LowestFilled
    <2>2. CASE count = 0
        BY <1>4, <1>13, <2>1, <2>2
    <2>3. ASSUME count >= 1
          PROVE  \E rest \in Levels :
                     /\ \A l \in Levels : l # rest => one[l] = none[l]
                     /\ rest = 0 <=> start % 2 = 0
        <3>1. start \in Indices /\ cms[1] # Zero /\ one = InsertLeaf(none, start, cms[1])
            BY <1>11, <2>3
        <3>2. PICK rest \in Levels :
                  /\ \A l \in Levels : l # rest => InsertLeaf(none, start, cms[1])[l] = none[l]
                  /\ rest = 0 <=> start % 2 = 0
            BY <1>10, <3>1, InsertWrites
        <3> QED
            BY <3>1, <3>2
    <2>4. CASE count = 1
        <3>1. PICK rest \in Levels : \A l \in Levels : l # rest => one[l] = none[l]
            BY <2>3, <2>4
        <3> QED
            BY <1>14, <2>1, <2>4, <3>1
    <2>5. CASE count = 2
        <3>1. PICK rest \in Levels :
                  /\ \A l \in Levels : l # rest => one[l] = none[l]
                  /\ rest = 0 <=> start % 2 = 0
            BY <2>3, <2>5
        <3>2. start + 1 \in Indices /\ cms[2] # Zero /\ DOMAIN one = Levels
              /\ two = InsertLeaf(one, start + 1, cms[2])
            BY <1>11, <1>12, <2>5
        <3>3. PICK over \in Levels :
                  /\ \A l \in Levels : l # over => InsertLeaf(one, start + 1, cms[2])[l] = one[l]
                  /\ over = 0 <=> (start + 1) % 2 = 0
            BY <3>2, InsertWrites
        <3>4. rest = 0 \/ over = 0
            <4>1. start % 2 = 0 \/ (start + 1) % 2 = 0
                BY <1>7
            <4> QED
                BY <3>1, <3>3, <4>1
        <3>5. \A l \in Levels : l # rest /\ l # over => two[l] = filledSubtrees[l]
            BY <2>1, <3>1, <3>2, <3>3
        <3> QED
            BY <2>1, <3>1, <3>3, <3>4, <3>5
    <2> QED
        BY <1>3, <2>2, <2>4, <2>5
<1>20. SubtreesWritten
    BY <1>1, <1>4, <1>18, <1>19 DEF SubtreesWritten
<1> QED
    BY <1>16, <1>17, <1>20

LEMMA ProfileStays ==
    ASSUME ProfileIInv, LogicIInv', UNCHANGED treeVars
    PROVE  ProfileIInv'
BY DEF ProfileIInv, LowestFilled, treeVars

LEMMA ShieldKeepsProfile ==
    ASSUME NothingWrittenIsZero, DEPTH >= 2, ProfileIInv, LogicIInv',
           NEW inner, NEW value, Shield(inner, value)
    PROVE  ProfileIInv'
<1>1. PICK cms : /\ Appendable(cms) /\ WithinEpochs(Len(cms)) /\ AppendLeaves(cms)
                 /\ \A i \in 1..Len(cms) : cms[i] = Commit(inner, value)
    BY ShieldAppends
<1>2. \A i \in 1..Len(cms) : cms[i] # Zero
    BY <1>1 DEF NothingWrittenIsZero
<1> QED
    BY <1>1, <1>2, AppendKeepsLowest DEF ProfileIInv, NothingWrittenIsZero

LEMMA SettleWritesSubtrees ==
    ASSUME NothingWrittenIsZero, DEPTH >= 2, ProfileIInv, LogicIInv',
           NEW sender, NEW s \in Spends, Settle(sender, s)
    PROVE  ProfileIInv' /\ SubtreesWritten
<1>1. PICK cms : /\ Appendable(cms) /\ WithinEpochs(Len(cms)) /\ AppendLeaves(cms)
                 /\ \A i \in 1..Len(cms) : cms[i] \in {s.outCm1, s.outCm2}
    BY SettleAppends
<1>2. \A i \in 1..Len(cms) : cms[i] # Zero
    BY <1>1 DEF NothingWrittenIsZero
<1> QED
    BY <1>1, <1>2, AppendKeepsLowest DEF ProfileIInv, NothingWrittenIsZero

LEMMA ProfileNext ==
    ASSUME NothingWrittenIsZero, DEPTH >= 2, ProfileIInv, [LogicNext]_logicVars
    PROVE  ProfileIInv'
<1>1. LogicIInv'
    BY LogicNextIInv DEF ProfileIInv
<1>2. ASSUME NEW inner \in Inners, NEW value \in Values, Shield(inner, value)
      PROVE  ProfileIInv'
    BY <1>1, <1>2, ShieldKeepsProfile
<1>3. ASSUME NEW sender \in Senders, NEW s \in Spends, Settle(sender, s)
      PROVE  ProfileIInv'
    BY <1>1, <1>3, SettleWritesSubtrees
<1>4. CASE UNCHANGED treeVars
    BY <1>1, <1>4, ProfileStays
<1> QED
    BY <1>2, <1>3, <1>4 DEF LogicNext, PublishEpochRoot, ClaimWithdrawal, Tick, logicVars

\* Deposits and claims move native currency, so that what settles is a settlement.
LEMMA OnlySettlementsSettle ==
    ASSUME LogicIInv, LogicNext, Settles
    PROVE  \E sender \in Senders, s \in Spends : Settle(sender, s)
<1>1. /\ withdrawalCredit \in [Accounts -> Nat] /\ balance \in Nat
      /\ balance' = balance
      /\ leaves' # leaves \/ withdrawalCredit' # withdrawalCredit
    BY DEF LogicIInv, LogicTypeOK, Settles
<1>2. ASSUME NEW inner \in Inners, NEW value \in Values, Shield(inner, value)
      PROVE  FALSE
    <2>1. value \in Nat /\ value # 0 /\ balance' = balance + value
        BY <1>2, CallsAssumption DEF Shield, ShieldAccepts
    <2> QED
        BY <1>1, <2>1
<1>3. ASSUME NEW who \in Accounts, ClaimWithdrawal(who)
      PROVE  FALSE
    <2>1. /\ withdrawalCredit[who] \in Nat /\ withdrawalCredit[who] # 0
          /\ balance' = balance - withdrawalCredit[who]
        BY <1>1, <1>3 DEF ClaimWithdrawal
    <2> QED
        BY <1>1, <2>1
<1> QED
    BY <1>1, <1>2, <1>3 DEF LogicNext, PublishEpochRoot, Tick, treeVars

LEMMA FewElements ==
    ASSUME NEW a, NEW b, NEW c, NEW d, NEW e, NEW S, S \subseteq {a, b, c, d, e}
    PROVE  IsFiniteSet(S) /\ Cardinality(S) \in 0..5
<1>1. IsFiniteSet({a}) /\ Cardinality({a}) = 1
    BY FS_Singleton
<1>2. IsFiniteSet({a} \cup {b}) /\ Cardinality({a} \cup {b}) \in 1..2
    BY <1>1, FS_AddElement
<1>3. IsFiniteSet({a} \cup {b} \cup {c}) /\ Cardinality({a} \cup {b} \cup {c}) \in 1..3
    BY <1>2, FS_AddElement
<1>4. IsFiniteSet({a} \cup {b} \cup {c} \cup {d})
      /\ Cardinality({a} \cup {b} \cup {c} \cup {d}) \in 1..4
    BY <1>3, FS_AddElement
<1>5. IsFiniteSet({a} \cup {b} \cup {c} \cup {d} \cup {e})
      /\ Cardinality({a} \cup {b} \cup {c} \cup {d} \cup {e}) \in 1..5
    BY <1>4, FS_AddElement
<1>6. S \in SUBSET ({a} \cup {b} \cup {c} \cup {d} \cup {e})
    OBVIOUS
<1>7. IsFiniteSet(S) /\ Cardinality(S) <= Cardinality({a} \cup {b} \cup {c} \cup {d} \cup {e})
    BY <1>5, <1>6, FS_Subset
<1>8. Cardinality(S) \in Nat
    BY <1>7, FS_CardinalityType
<1> QED
    BY <1>5, <1>7, <1>8

\* What an accepted settlement changes besides the subtrees.
SettlementMoves(cms, recipient) ==
    /\ Len(cms) \in 0..2
    /\ Cardinality(leaves' \ leaves) = Len(cms)
    /\ isLeaf' \subseteq isLeaf \cup {cms[1], cms[2]}
    /\ \/ currentEpoch' = currentEpoch /\ nextIndex' = nextIndex + Len(cms)
             /\ finalRoot' = finalRoot
       \/ currentEpoch' = currentEpoch + 1
             /\ \A e \in Epochs : e # currentEpoch => finalRoot'[e] = finalRoot[e]
    /\ \A who \in Accounts : who # recipient =>
           withdrawalCredit'[who] = withdrawalCredit[who]

LEMMA SettleMoves ==
    ASSUME ProfileIInv, NEW sender, NEW s, Settle(sender, s)
    PROVE  \E cms : SettlementMoves(cms, s.recipient)
<1>1. PICK cms : Appendable(cms) /\ WithinEpochs(Len(cms)) /\ AppendLeaves(cms)
    BY SettleAppends
<1> DEFINE count == Len(cms)
           roll  == MustRoll(count)
           epoch == IF roll THEN currentEpoch + 1 ELSE currentEpoch
           start == IF roll THEN 0 ELSE nextIndex
<1>2. /\ currentEpoch' = epoch /\ nextIndex' = start + count
      /\ isLeaf' = isLeaf \cup {cms[i] : i \in 1..count}
      /\ leaves' = leaves \cup EventsOf(cms, epoch, start)
      /\ finalRoot' = IF roll THEN ClosedRoots ELSE finalRoot
    BY <1>1 DEF AppendLeaves, EventsOf
<1>3. count \in 0..2
    BY <1>1 DEF Appendable
<1>4. Cardinality(leaves' \ leaves) = count
    BY <1>1, <1>2, AppendedLeavesCounted DEF ProfileIInv
<1>5. isLeaf' \subseteq isLeaf \cup {cms[1], cms[2]}
    <2> HIDE DEF count
    <2>1. \A i \in 1..count : i = 1 \/ i = 2
        BY <1>3
    <2> QED
        BY <1>2, <2>1
<1>6. DOMAIN finalRoot = Epochs /\ withdrawalCredit \in [Accounts -> Nat]
    BY DEF ProfileIInv, LogicIInv, LogicTypeOK
<1>7. \A e \in Epochs : e # currentEpoch => ClosedRoots[e] = finalRoot[e]
    BY <1>6 DEF ClosedRoots
<1>8. \A who \in Accounts : who # s.recipient =>
          withdrawalCredit'[who] = withdrawalCredit[who]
    BY <1>6 DEF Settle, SettleEffects
<1> HIDE DEF count, roll
<1>9. \/ currentEpoch' = currentEpoch /\ nextIndex' = nextIndex + count /\ finalRoot' = finalRoot
      \/ currentEpoch' = currentEpoch + 1
            /\ \A e \in Epochs : e # currentEpoch => finalRoot'[e] = finalRoot[e]
    BY <1>2, <1>7
<1> QED
    BY <1>3, <1>4, <1>5, <1>8, <1>9 DEF count, SettlementMoves

LEMMA LevelsCounted == IsFiniteSet(Levels) /\ Cardinality(Levels) = DEPTH + 1
<1>1. DEPTH \in Int /\ 0 \in Int /\ DEPTH >= 0
    BY ShapeAssumption
<1> QED
    BY <1>1, FS_Interval DEF Levels

\* A slot that is new after a step, by the variable it belongs to.
LEMMA SlotsBelong ==
    ASSUME NEW x \in Occupied', x \notin Occupied
    PROVE  \/ \E l \in Levels : x = <<"filledSubtrees", l>>
                                /\ filledSubtrees'[l] # Zero /\ filledSubtrees[l] = Zero
           \/ \E cm \in isLeaf' \ isLeaf : x = <<"isLeaf", cm>>
           \/ \E who \in Accounts : x = <<"withdrawalCredit", who>>
                                    /\ withdrawalCredit'[who] # withdrawalCredit[who]
           \/ \E e \in Epochs : x = <<"finalRoot", e>> /\ finalRoot'[e] # finalRoot[e]
           \/ x = <<"nextIndex">> /\ nextIndex = 0
           \/ x = <<"currentEpoch">> /\ currentEpoch' # currentEpoch
<1>1. CASE x \in {<<"filledSubtrees", level>> : level \in {l \in Levels : filledSubtrees'[l] # Zero}}
    <2>1. PICK l \in Levels : x = <<"filledSubtrees", l>> /\ filledSubtrees'[l] # Zero
        BY <1>1
    <2>2. filledSubtrees[l] = Zero
        BY <2>1 DEF Occupied
    <2> QED
        BY <2>1, <2>2
<1>2. CASE x \in {<<"isLeaf", cm>> : cm \in isLeaf'}
    <2>1. PICK cm \in isLeaf' : x = <<"isLeaf", cm>>
        BY <1>2
    <2>2. cm \notin isLeaf
        BY <2>1 DEF Occupied
    <2> QED
        BY <2>1, <2>2
<1>3. CASE x \in {<<"withdrawalCredit", who>> : who \in {w \in Accounts : withdrawalCredit'[w] # 0}}
    <2>1. PICK who \in Accounts : x = <<"withdrawalCredit", who>> /\ withdrawalCredit'[who] # 0
        BY <1>3
    <2>2. withdrawalCredit[who] = 0
        BY <2>1 DEF Occupied
    <2> QED
        BY <2>1, <2>2
<1>4. CASE x \in {<<"finalRoot", epoch>> : epoch \in {e \in Epochs : finalRoot'[e] # Zero}}
    <2>1. PICK e \in Epochs : x = <<"finalRoot", e>> /\ finalRoot'[e] # Zero
        BY <1>4
    <2>2. finalRoot[e] = Zero
        BY <2>1 DEF Occupied
    <2> QED
        BY <2>1, <2>2
<1>5. CASE x \in IF nextIndex' = 0 THEN {} ELSE {<<"nextIndex">>}
    BY <1>5 DEF Occupied
<1>6. CASE x \in IF currentEpoch' = 0 THEN {} ELSE {<<"currentEpoch">>}
    <2>1. currentEpoch' # 0 /\ x = <<"currentEpoch">>
        BY <1>6
    <2>2. currentEpoch = 0
        BY <2>1 DEF Occupied
    <2> QED
        BY <2>1, <2>2
<1> QED
    BY <1>1, <1>2, <1>3, <1>4, <1>5, <1>6 DEF Occupied

LEMMA SettlementIsWithinProfile ==
    ASSUME NothingWrittenIsZero, DEPTH >= 2, ProfileIInv, LogicNext
    PROVE  WithinProfile
<1> SUFFICES ASSUME Settles, SpendsValue
             PROVE  /\ Writes <= MAX_SSTORE_OPERATIONS(DEPTH)
                    /\ SlotsMade <= MAX_NEW_STORAGE_SLOTS
    BY DEF WithinProfile
<1>1. PICK sender \in Senders, s \in Spends : Settle(sender, s)
    BY OnlySettlementsSettle DEF ProfileIInv
<1>2. LogicIInv'
    BY LogicNextIInv DEF ProfileIInv
<1>3. SubtreesWritten
    BY <1>1, <1>2, SettleWritesSubtrees
<1>4. PICK cms : SettlementMoves(cms, s.recipient)
    BY <1>1, SettleMoves
<1>5. nextIndex >= 1 /\ nextIndex \in Nat /\ currentEpoch \in Nat /\ DEPTH \in Nat
    BY ShapeAssumption, EpochAssumption
       DEF ProfileIInv, SpendsValue, LogicIInv, LogicTypeOK, Epochs
<1>6. Writes <= MAX_SSTORE_OPERATIONS(DEPTH)
    <2>1. PICK count \in 0..2 : count = Cardinality(leaves' \ leaves)
        BY <1>4 DEF SettlementMoves
    <2>2. Writes = (IF currentEpoch' # currentEpoch THEN 4 + (DEPTH + 1) ELSE 0)
                       + 3 * count + (IF count > 0 THEN 1 ELSE 0)
                       + (IF withdrawalCredit' # withdrawalCredit THEN 1 ELSE 0)
        BY <2>1, LevelsCounted DEF Writes
    <2> QED
        BY <1>5, <2>1, <2>2 DEF MAX_SSTORE_OPERATIONS
<1> DEFINE made == Occupied' \ Occupied
           first == <<"isLeaf", cms[1]>>
           second == <<"isLeaf", cms[2]>>
           credit == <<"withdrawalCredit", s.recipient>>
<1>7. \A cm \in isLeaf' \ isLeaf : <<"isLeaf", cm>> \in {first, second}
    BY <1>4 DEF SettlementMoves
<1>8. \A who \in Accounts : withdrawalCredit'[who] # withdrawalCredit[who] =>
          <<"withdrawalCredit", who>> = credit
    BY <1>4 DEF SettlementMoves
<1> HIDE DEF first, second, credit
<1>9. CASE currentEpoch' = currentEpoch
    <2>1. finalRoot' = finalRoot
        BY <1>4, <1>5, <1>9 DEF SettlementMoves
    <2>2. PICK level \in Levels : \A l \in Levels \ {level} :
              filledSubtrees'[l] # Zero => filledSubtrees[l] # Zero
        BY <1>3, <1>5, <1>9 DEF SubtreesWritten
    <2> DEFINE subtree == <<"filledSubtrees", level>>
    <2>3. \A l \in Levels : filledSubtrees'[l] # Zero /\ filledSubtrees[l] = Zero =>
              <<"filledSubtrees", l>> = subtree
        BY <2>2
    <2> HIDE DEF subtree
    <2>4. made \subseteq {first, second, credit, subtree, subtree}
        <3> SUFFICES ASSUME NEW x \in Occupied', x \notin Occupied
                     PROVE  x \in {first, second, credit, subtree}
            OBVIOUS
        <3> QED
            BY <1>5, <1>7, <1>8, <1>9, <2>1, <2>3, SlotsBelong
    <2> HIDE DEF made
    <2>5. Cardinality(made) \in 0..5
        BY <2>4, FewElements
    <2> QED
        BY <1>6, <2>5 DEF SlotsMade, made, MAX_NEW_STORAGE_SLOTS
<1>10. CASE currentEpoch' # currentEpoch
    <2> DEFINE closed == <<"finalRoot", currentEpoch>>
               opened == <<"currentEpoch">>
    <2>1. \A e \in Epochs : finalRoot'[e] # finalRoot[e] => <<"finalRoot", e>> = closed
        BY <1>4, <1>10 DEF SettlementMoves
    <2>2. \A l \in Levels : filledSubtrees'[l] # Zero => filledSubtrees[l] # Zero
        BY <1>3, <1>10 DEF SubtreesWritten
    <2> HIDE DEF closed
    <2>3. made \subseteq {first, second, credit, closed, opened}
        <3> SUFFICES ASSUME NEW x \in Occupied', x \notin Occupied
                     PROVE  x \in {first, second, credit, closed, opened}
            OBVIOUS
        <3> QED
            BY <1>5, <1>7, <1>8, <2>1, <2>2, SlotsBelong
    <2> HIDE DEF made, opened
    <2>4. Cardinality(made) \in 0..5
        BY <2>3, FewElements
    <2> QED
        BY <1>6, <2>4 DEF SlotsMade, made, MAX_NEW_STORAGE_SLOTS
<1> QED
    BY <1>9, <1>10

(***************************************************************************)
(* For every tree of at least two levels, if nothing written digests to    *)
(* the zero word: whatever deposits, settlements, rollovers and claims     *)
(* came before, no settlement that spends value exceeds the counts of      *)
(* writes and of new slots behind the frozen gas (check_gas_profile.py).   *)
(***************************************************************************)
THEOREM SettlesWithinProfileHolds ==
    ASSUME NothingWrittenIsZero, DEPTH >= 2
    PROVE  LogicSpec => SettlesWithinProfile
<1>1. LogicInit => ProfileIInv
    <2>1. LogicInit => LowestFilled(filledSubtrees, nextIndex) /\ leaves = {}
        BY DEF LogicInit, LowestFilled
    <2> QED
        BY <2>1, LogicInitIInv DEF ProfileIInv
<1>2. ProfileIInv /\ [LogicNext]_logicVars => ProfileIInv'
    BY ProfileNext
<1>3. ProfileIInv /\ [LogicNext]_logicVars => [WithinProfile]_logicVars
    BY SettlementIsWithinProfile
<1> QED
    BY <1>1, <1>2, <1>3, PTL DEF LogicSpec, SettlesWithinProfile
=============================================================================
