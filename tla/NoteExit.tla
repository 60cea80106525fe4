------------------------------- MODULE NoteExit -------------------------------
(***************************************************************************)
(* The way of one note out of the pool.  Its owner may prove an exit only  *)
(* against a root that somebody published less than RING_LENGTH slots ago, *)
(* and the exit is included only while that publication lasts, so both     *)
(* have to be repeated for as long as blocks leave the exit out.           *)
(*                                                                         *)
(* Slots go on for ever.  Everything depends only on the distance of slots *)
(* and on their position in the ring, so after MaxSlot they are counted    *)
(* anew from RING_LENGTH less; what is older than that has expired.        *)
(***************************************************************************)
EXTENDS ShieldedPoolLogic, SpendCircuit

CONSTANTS
    NoteWei,      \* the value of the note
    ExitFee,      \* its debit for gas
    OtherInners,  \* inners that others pay to
    Payee, Signer,
    NoSpend

ASSUME ExitAssumption ==
    /\ RING_LENGTH >= 2 /\ MaxSlot = 2 * RING_LENGTH - 1
    /\ ExitFee \in Nat /\ NoteWei \in (ExitFee + 1)..(MAX_VALUE - 1)
    /\ Payee \in Accounts \ {Pool, NoAddress}

VARIABLES
    signed,  \* the exit that was signed last
    spent,   \* the note's nonce key is consumed
    paid     \* what the owner received

vars == <<logicVars, signed, spent, paid>>

Own == [spendKey |-> Signer, rho |-> "note", value |-> NoteWei]
Dummy == [spendKey |-> Signer, rho |-> "dummy", value |-> 0]

Init == LogicInit /\ signed = NoSpend /\ spent = FALSE /\ paid = 0

-----------------------------------------------------------------------------
Witness ==
    [inputs |-> <<Own, Dummy>>,
     outputs |-> <<[inner |-> SinkInner0, value |-> 0], [inner |-> SinkInner1, value |-> 0]>>]

\* Everything leaves: no output commitment is new.
Exit(source, entry) ==
    [root |-> entry.root, rootSlot |-> entry.slot, epoch |-> source, domain |-> PoolDomain,
     nf1 |-> InputNullifier(PoolDomain, Own), nf2 |-> InputNullifier(PoolDomain, Dummy),
     outCm1 |-> SINK_0, outCm2 |-> SINK_1,
     publicAmount |-> NoteWei - ExitFee, fee |-> ExitFee,
     recipient |-> Payee, authorizer |-> Signer]

\* recent_root_ref finds the entry committed and in the window; prove succeeds.
Sign(source) ==
    /\ ~spent
    /\ \E i \in Entries :
           LET entry == ring[source][i]
           IN  /\ entry # NoEntry /\ slot - entry.slot < RING_LENGTH
               /\ CircuitAccepts(Witness, Exit(source, entry))
               /\ signed' = Exit(source, entry)
    /\ UNCHANGED <<logicVars, spent, paid>>

\* A block includes the exit; if its settlement reverts, the note is burned.
Include ==
    /\ signed # NoSpend /\ ~spent
    /\ ReferenceValid(signed.epoch, signed.rootSlot, signed.root)
    /\ spent' = TRUE
    /\ IF SettleAccepts(Pool, signed)
       THEN \E cost \in 0..ExitFee : SettleEffects(signed, cost)
       ELSE UNCHANGED logicVars
    /\ UNCHANGED <<signed, paid>>

\* Anyone may claim for the owner, who is an account that takes payments.
Claim ==
    /\ ClaimWithdrawal(Payee)
    /\ paid' = paid + withdrawalCredit[Payee]
    /\ UNCHANGED <<signed, spent>>

Deposit(inner, value) == Shield(inner, value) /\ UNCHANGED <<signed, spent, paid>>

Publish(epoch) == PublishEpochRoot(epoch) /\ UNCHANGED <<signed, spent, paid>>

\* An entry in the new count.
Recount(entry) ==
    IF entry.slot < RING_LENGTH THEN NoEntry
    ELSE [entry EXCEPT !.slot = @ - RING_LENGTH]

NextBlock ==
    \/ Tick /\ UNCHANGED <<signed, spent, paid>>
    \/ /\ slot = MaxSlot
       /\ slot' = slot + 1 - RING_LENGTH
       /\ ring' = [source \in Sources |-> [i \in Entries |-> Recount(ring[source][i])]]
       /\ signed' = IF signed = NoSpend \/ signed.rootSlot < RING_LENGTH THEN NoSpend
                    ELSE [signed EXCEPT !.rootSlot = @ - RING_LENGTH]
       /\ UNCHANGED <<treeVars, withdrawalCredit, balance, spent, paid>>

Next ==
    \/ Deposit(Inner(Own.spendKey, Own.rho), NoteWei)
    \/ \E inner \in OtherInners : Deposit(inner, 1)
    \/ \E epoch \in Epochs : Publish(epoch) \/ Sign(epoch)
    \/ Include \/ Claim \/ NextBlock

(***************************************************************************)
(* Slots pass, and somebody goes on publishing every epoch: the owner may. *)
(* The owner signs again if that is possible again and again, and blocks   *)
(* do not leave out for ever an exit that is includable again and again.   *)
(***************************************************************************)
Fairness ==
    /\ WF_vars(NextBlock) /\ SF_vars(Include) /\ WF_vars(Claim)
    /\ \A epoch \in Epochs : WF_vars(Publish(epoch)) /\ SF_vars(Sign(epoch))

Spec == Init /\ [][Next]_vars /\ Fairness

-----------------------------------------------------------------------------
(***************************************************************************)
(* README.md:41 ("an exit remains possible at a full tree") and            *)
(* ShieldedPoolLogic.sol:162-173: a note that is a leaf, in the active or  *)
(* a closed epoch, is paid out in the end, all of it but its fee, whatever *)
(* others insert, however many epochs they roll and publications expire.   *)
(***************************************************************************)
NoteExits == InputCommitment(Own) \in isLeaf ~> paid = NoteWei - ExitFee
=============================================================================
