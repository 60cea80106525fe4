-------------------------- MODULE PublicationReorg --------------------------
(***************************************************************************)
(* A publication under reorganisations: run_live_dispatcher.sh publishes a *)
(* root, waits until the publication has two successors, and writes down   *)
(* the consensus slot of its block.  The wallet later signs a spend that   *)
(* refers to that slot.                                                    *)
(*                                                                         *)
(* The chain is a tree of blocks.  A slot has at most one block, so a      *)
(* block is named by its slot.  A block that has had two successors is     *)
(* settled: this is the depth that the script relies on.  Fork choice      *)
(* moves freely among the branches that contain all settled blocks.        *)
(***************************************************************************)
EXTENDS Integers, FiniteSets

CONSTANTS
    StableFrom,  \* bound of the model: from this slot on there is one branch
    MaxSlot      \* bound of the model: the last slot with a block

ASSUME SlotsAssumption == StableFrom \in 2..MaxSlot /\ MaxSlot \in Nat

VARIABLES
    branch,   \* of each block, itself and all blocks below it
    pub,      \* blocks that contain the publication
    head,     \* the block that fork choice selects
    settled,  \* blocks that have had two successors
    slot,     \* the slot of the latest block
    pc,       \* where the script and, after it, the wallet are
    receipt   \* the block in the receipt that the script read last

chainVars == <<branch, pub, head, settled, slot>>
scriptVars == <<pc, receipt>>
reorgVars == <<branch, pub, head, settled, slot, pc, receipt>>

Blocks == DOMAIN branch

Canonical == branch[head]

Height(b) == Cardinality(branch[b])

\* Block 0 stands for what is below every reorganisation that is considered.
ReorgInit ==
    /\ branch = [b \in {0, 1} |-> 0..b]
    /\ pub = {1} /\ head = 1 /\ settled = {0} /\ slot = 1
    /\ pc = "receipt" /\ receipt = 0

-----------------------------------------------------------------------------
\* Consensus, external.
Viable(b) == settled \subseteq branch[b]

WithTwoSuccessors(blocks) ==
    {b \in blocks : Cardinality({s \in blocks : s > b}) >= 2}

Select(b) ==
    /\ head' = b
    /\ settled' = settled \cup WithTwoSuccessors(branch'[b])

WithBlock(b, parent) ==
    [c \in Blocks \cup {b} |-> IF c = b THEN branch[parent] \cup {b} ELSE branch[c]]

\* A block on any viable branch.  It need not become the head at once, and need
\* not contain a publication that its branch lacks.
ProposeEarly(parent, includes) ==
    /\ slot + 1 < StableFrom
    /\ Viable(parent)
    /\ slot' = slot + 1
    /\ branch' = WithBlock(slot', parent)
    /\ includes => pub \cap branch[parent] = {}
    /\ pub' = IF includes THEN pub \cup {slot'} ELSE pub
    /\ Select(slot') \/ UNCHANGED <<head, settled>>
    /\ UNCHANGED scriptVars

\* Calm at last: every block extends the head, and the first one contains the
\* publication if a reorganisation returned it to the mempool.
ProposeOnHead ==
    /\ slot + 1 \in StableFrom..MaxSlot
    /\ slot' = slot + 1
    /\ branch' = WithBlock(slot', head)
    /\ pub' = IF pub \cap Canonical = {} THEN pub \cup {slot'} ELSE pub
    /\ Select(slot')
    /\ UNCHANGED scriptVars

Reorganise(b) ==
    /\ slot + 1 < StableFrom
    /\ b # head /\ Viable(b)
    /\ UNCHANGED <<branch, pub, slot>>
    /\ Select(b)
    /\ UNCHANGED scriptVars

-----------------------------------------------------------------------------
\* Mutant: one successor is enough.
Buried_OneSuccessor(b) == Height(head) >= Height(b) + 1

\* Mutant: the loop waits for an exact height, which it may never see.
Buried_Exactly(b) == Height(head) = Height(b) + 2

Buried(b) == Height(head) >= Height(b) + 2

\* cast receipt waits until the transaction is in the canonical chain.
PublicationBlock == pub \cap Canonical

ReadReceipt ==
    /\ pc = "receipt"
    /\ receipt' \in PublicationBlock
    /\ pc' = "head"
    /\ UNCHANGED chainVars

ReadHead ==
    /\ pc = "head"
    /\ pc' = IF Buried(receipt) THEN "block" ELSE "receipt"
    /\ UNCHANGED receipt
    /\ UNCHANGED chainVars

\* A node may or may not still know a block that is not canonical.
ReadBlock ==
    /\ pc = "block"
    /\ \/ pc' = "written"
       \/ receipt \notin Canonical /\ pc' = "aborted"
    /\ UNCHANGED receipt
    /\ UNCHANGED chainVars

\* The entry of slot s is in the predeploy's storage at the head.
EntryCommitted(s) == s \in pub \cap Canonical

Sign ==
    /\ pc = "written"
    /\ pc' = IF EntryCommitted(receipt) THEN "signed" ELSE "refused"
    /\ UNCHANGED receipt
    /\ UNCHANGED chainVars

-----------------------------------------------------------------------------
Propose ==
    \/ \E parent \in Blocks, includes \in BOOLEAN : ProposeEarly(parent, includes)
    \/ ProposeOnHead

Script == ReadReceipt \/ ReadHead \/ ReadBlock \/ Sign

ReorgNext == Propose \/ (\E b \in Blocks : Reorganise(b)) \/ Script

ReorgSpec == ReorgInit /\ [][ReorgNext]_reorgVars

\* Validators keep proposing and the script keeps running.  Fork choice owes
\* nothing: it need not reorganise.
FairSpec == ReorgSpec /\ WF_reorgVars(Propose) /\ WF_reorgVars(Script)

-----------------------------------------------------------------------------
(***************************************************************************)
(* run_live_dispatcher.sh:119-121 waits for two successors and then reads  *)
(* the receipt again, so that the slot it writes down is the publication's *)
(* whatever a shallow reorganisation did.  The code reads the receipt      *)
(* before the head in each round of the loop, and not again after it.      *)
(***************************************************************************)
WrittenIsSettled == pc = "written" => receipt \in settled

(***************************************************************************)
(* The wallet's own check makes up for it.  A spend is signed only with a  *)
(* slot whose publication no reorganisation can move any more, although    *)
(* neither the wait nor the check alone would give that: the receipt may   *)
(* be stale, and the storage is read at a head that may itself be undone.  *)
(***************************************************************************)
SignedIsSettled == pc = "signed" => receipt \in pub \cap settled

(***************************************************************************)
(* The script's loop ends once the chain is calm, however often the        *)
(* publication was moved or dropped before.                                *)
(***************************************************************************)
ScriptEnds == <>(pc \in {"signed", "refused", "aborted"})
=============================================================================
