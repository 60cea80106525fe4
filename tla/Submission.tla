------------------------------ MODULE Submission ------------------------------
(***************************************************************************)
(* Runs of the sending client, devnet/pool_frametx.py.  A run builds a     *)
(* transaction from a fixture, simulates it at the head, sends it and      *)
(* polls for its receipt, one RPC call after the other while the chain     *)
(* moves.  It may break off at any call, give up while its transaction is  *)
(* still pending, and be repeated with the same fixture; several runs may  *)
(* be under way at once.                                                   *)
(*                                                                         *)
(* The chain is the sequence of the included transactions with their       *)
(* status.  The shields come from one account; references to the root are  *)
(* numbered by publication, and expire in that order.                      *)
(***************************************************************************)
EXTENDS Integers, Sequences, FiniteSets

CONSTANTS
    Runs,              \* invocations of the client
    Fixtures,          \* what they may be given: op, keys, outputs
    SETTLE_FRAME_GAS,  \* the SENDER frame's gas unless it is resized
    GasNeeds,          \* gas that the SENDER frame may need, block by block
    Polls,             \* receipts a run asks for before it gives up
    MaxReference,      \* bound on publications
    NoTx

ASSUME SubmissionAssumption ==
    /\ Polls \in Nat \ {0}
    /\ GasNeeds \subseteq 1..SETTLE_FRAME_GAS
    \* A deposit consumes no nonce key, only the nonce of its account.
    /\ \A fixture \in Fixtures : fixture.op = "shield" => fixture.keys = {}

VARIABLES
    runs,     \* per run: step or result, transaction, polls, gas to resize to, and
              \* head and status of the simulation that its send is gated on
    mempool,  \* pending transactions
    chain,    \* included transactions with their status
    live      \* first and last reference that are valid

vars == <<runs, mempool, chain, live>>

IsSpend(tx) == tx.fixture.op # "shield"

Included == {chain[i].tx : i \in 1..Len(chain)}
Settled == {chain[i].tx : i \in {k \in 1..Len(chain) : chain[k].status = 1}}
Consumed == UNION {tx.keys : tx \in Included}
Leaves == UNION {tx.fixture.outputs : tx \in Settled}

\* eth_getTransactionCount at "latest"
Nonce == Cardinality({i \in 1..Len(chain) : ~IsSpend(chain[i].tx)})

\* Mutant: pending transactions are counted.
ReadNonce_Pending == Nonce + Cardinality({tx \in mempool : ~IsSpend(tx)})

\* build_and_send: nonce
ReadNonce == Nonce

-----------------------------------------------------------------------------
\* The validation prefix of a frame transaction at the head.
PrefixValid(tx) ==
    IF IsSpend(tx) THEN /\ tx.keys \cap Consumed = {}
                        /\ tx.ref \in live.first..live.last
                   ELSE tx.nonce = Nonce

\* The SENDER frame succeeds: DuplicateLeaf and DuplicateCommitment, or gas.
Executes(tx, need) == tx.fixture.outputs \cap Leaves = {} /\ tx.gas >= need

-----------------------------------------------------------------------------
\* A run's steps.  build: the transaction around a fixture.
Build(fixture, nonce, ref) ==
    [fixture |-> fixture, keys |-> fixture.keys, nonce |-> nonce, ref |-> ref,
     gas |-> SETTLE_FRAME_GAS]

Begin(r, tx) ==
    /\ runs[r].pc = "idle"
    /\ runs' = [runs EXCEPT ![r].pc = "simulate", ![r].tx = tx]
    /\ UNCHANGED <<mempool, chain, live>>

\* op shield: the ordinary nonce of the sender, read first.
BeginShield(r, fixture) ==
    /\ fixture.op = "shield"
    /\ Begin(r, Build(fixture, ReadNonce, 0))

\* spend_setup: the reference is checked at the head before anything is built.
BeginSpend(r, fixture, ref) ==
    /\ fixture.op # "shield"
    /\ ref \in live.first..live.last
    /\ Begin(r, Build(fixture, 0, ref))

\* Mutant: a spend is sent without a simulation, like a shield.
Blind_AnyOp(tx) == "send"

\* The endpoint does not expose the simulation.
Blind(tx) == IF IsSpend(tx) THEN "refused" ELSE "send"

\* Mutant: what a simulation found invalid is broadcast, too.
OnInvalid_Broadcast(tx) == "send"

\* An invalid simulation is taken for a defect.
OnInvalid(tx) == "refused"

\* executionStatus of a valid simulation; the node may leave it out.
Statuses(executes) == {"none", IF executes THEN "success" ELSE "reverted"}

\* Refuse to send when the SENDER frame is reported to revert.
Gate(status) == IF status = "reverted" THEN "refused" ELSE "send"

\* Only a shield's frame is resized, and only if the gas it used is known.
Simulate(r) ==
    LET tx == runs[r].tx
        To(pc, status, used) ==
            runs' = [runs EXCEPT ![r].pc = pc, ![r].head = Len(chain),
                                 ![r].status = status, ![r].used = used]
    IN  /\ runs[r].pc = "simulate"
        /\ \/ To(Blind(tx), "unseen", 0)
           \/ ~PrefixValid(tx) /\ To(OnInvalid(tx), "none", 0)
           \/ /\ PrefixValid(tx)
              /\ \E need \in GasNeeds : \E status \in Statuses(Executes(tx, need)) :
                     \/ To(Gate(status), status, 0)
                     \/ ~IsSpend(tx) /\ To("resize", status, need)
        /\ UNCHANGED <<mempool, chain, live>>

\* measured + 25%
Sized(used) == used + (used \div 4)

\* Mutant: the resized transaction is sent on the first simulation's result.
GatedOn_First(first, second) == first

\* The result a resized transaction is sent on is its own.
GatedOn(first, second) == second

\* A second simulation, at a later head, decides whether the size is adopted.
Resize(r) ==
    LET run == runs[r]
        sized == [run.tx EXCEPT !.gas = Sized(run.used)]
        To(tx, head, status) ==
            runs' = [runs EXCEPT ![r].pc = Gate(status), ![r].tx = tx, ![r].head = head,
                                 ![r].status = status, ![r].used = 0]
    IN  /\ run.pc = "resize"
        /\ \/ To(run.tx, run.head, run.status)
           \/ /\ PrefixValid(sized)
              /\ \E need \in GasNeeds : \E status \in Statuses(Executes(sized, need)) :
                     To(sized, Len(chain), GatedOn(run.status, status))
        /\ UNCHANGED <<mempool, chain, live>>

\* eth_sendRawTransaction: an endpoint may take what its later answer refuses.
Send(r) ==
    /\ runs[r].pc = "send"
    /\ \/ /\ runs' = [runs EXCEPT ![r].pc = "poll"]
          /\ mempool' = mempool \cup ({runs[r].tx} \ Included)
       \/ /\ runs' = [runs EXCEPT ![r].pc = "lost"]
          /\ \/ UNCHANGED mempool
             \/ mempool' = mempool \cup ({runs[r].tx} \ Included)
    /\ UNCHANGED <<chain, live>>

\* Mutant: any receipt counts as success.
Verdict_AnyReceipt(status) == "mined"

Verdict(status) == IF status = 1 THEN "mined" ELSE "reverted"

\* Mutant: the polls are not counted.
NextPoll_Uncounted(polls) == polls

NextPoll(polls) == polls + 1

Poll(r) ==
    LET run == runs[r]
        polls == NextPoll(run.polls)
    IN  /\ run.pc = "poll"
        /\ \/ \E i \in 1..Len(chain) :
                  /\ chain[i].tx = run.tx
                  /\ runs' = [runs EXCEPT ![r].pc = Verdict(chain[i].status)]
           \/ /\ run.tx \notin Included
              /\ runs' = [runs EXCEPT ![r].polls = polls,
                                      ![r].pc = IF polls = Polls THEN "timeout" ELSE "poll"]
        /\ UNCHANGED <<mempool, chain, live>>

UnderWay == {"simulate", "resize", "send", "poll"}

\* Any call may raise, and the process may be stopped: "lost" if it had sent.
BreakOff(r) ==
    /\ runs[r].pc \in UnderWay
    /\ runs' = [runs EXCEPT ![r].pc = IF @ = "poll" THEN "lost" ELSE "failed"]
    /\ UNCHANGED <<mempool, chain, live>>

-----------------------------------------------------------------------------
\* A block includes a pending transaction, whatever its SENDER frame does.
Include(tx, need) ==
    /\ PrefixValid(tx)
    /\ chain' = Append(chain, [tx |-> tx, status |-> IF Executes(tx, need) THEN 1 ELSE 0])
    /\ mempool' = mempool \ {tx}
    /\ UNCHANGED <<runs, live>>

\* Nodes forget pending transactions.
Evict(tx) ==
    /\ mempool' = mempool \ {tx}
    /\ UNCHANGED <<runs, chain, live>>

Publish ==
    /\ live.last < MaxReference
    /\ live' = [live EXCEPT !.last = @ + 1]
    /\ UNCHANGED <<runs, mempool, chain>>

Expire ==
    /\ live.first <= live.last
    /\ live' = [live EXCEPT !.first = @ + 1]
    /\ UNCHANGED <<runs, mempool, chain>>

-----------------------------------------------------------------------------
Init ==
    /\ runs = [r \in Runs |-> [pc |-> "idle", tx |-> NoTx, polls |-> 0, head |-> 0,
                               used |-> 0, status |-> "unseen"]]
    /\ mempool = {}
    /\ chain = <<>>
    /\ live = [first |-> 1, last |-> 1]

ClientStep(r) == Simulate(r) \/ Resize(r) \/ Send(r) \/ Poll(r)

Next ==
    \/ \E r \in Runs, fixture \in Fixtures :
           \/ BeginShield(r, fixture)
           \/ \E ref \in 1..MaxReference : BeginSpend(r, fixture, ref)
    \/ \E r \in Runs : ClientStep(r) \/ BreakOff(r)
    \/ \E tx \in mempool : Evict(tx) \/ \E need \in GasNeeds : Include(tx, need)
    \/ Publish
    \/ Expire

\* A process that is not stopped goes on: every call has a timeout.
Spec == Init /\ [][Next]_vars /\ \A r \in Runs : WF_vars(ClientStep(r))

-----------------------------------------------------------------------------
\* The transaction of the run may have reached a node.
Sent(r) == runs[r].pc \in {"poll", "mined", "reverted", "timeout", "lost"}

(***************************************************************************)
(* What a run prints at its end is so.  pool_frametx.py:291-301: "MINED"   *)
(* means that its outputs are leaves; the warning of a reverted spend      *)
(* means that its notes are gone, whatever else is or will be included.    *)
(* :268-282: after "not sending" nothing of it can be included, unless     *)
(* another run sent the very same transaction.                             *)
(***************************************************************************)
ReportsAreTrue ==
    \A r \in Runs :
        LET run == runs[r]
        IN  /\ run.pc = "mined" =>
                   run.tx.fixture.outputs \subseteq Leaves /\ run.tx.keys \subseteq Consumed
            /\ (run.pc = "reverted" /\ IsSpend(run.tx)) =>
                   /\ run.tx.keys \subseteq Consumed
                   /\ \A tx \in Settled : tx.keys \cap run.tx.keys = {}
            /\ (run.pc = "refused" /\ run.tx \in Included \cup mempool) =>
                   \E other \in Runs : Sent(other) /\ runs[other].tx = run.tx

(***************************************************************************)
(* pool_frametx.py:261-274: no doomed transaction is broadcast.  A run may *)
(* be repeated while its transaction is pending (:303, :286), two runs may *)
(* read the same nonce (:161), and two fixtures may share a dummy (:270):  *)
(* what keeps a pending transaction from inclusion, a key consumed or a    *)
(* nonce used, was included after the head of the simulation it was sent   *)
(* on.  Only a shield may be sent without a simulation.                    *)
(***************************************************************************)
Excludes(other, tx) ==
    IF IsSpend(tx) THEN other.keys \cap tx.keys # {}
                   ELSE ~IsSpend(other) /\ other.nonce = tx.nonce

DoomedInFlight ==
    \A tx \in mempool :
        \E r \in Runs :
            /\ Sent(r) /\ runs[r].tx = tx
            /\ \/ runs[r].status = "unseen" /\ ~IsSpend(tx)
               \/ \A i \in 1..runs[r].head : ~Excludes(chain[i].tx, tx)

(***************************************************************************)
(* pool_frametx.py:223-235, :257-259, :276-282: why a transaction fails    *)
(* after it was paid for, which burns the notes of a spend.  Either an     *)
(* output had become a leaf after the head of the simulation of this very  *)
(* transaction that let it be sent, or that simulation reported no status, *)
(* or it was a shield sent without one; or its gas did not suffice, which  *)
(* happens to resized shields only.                                        *)
(***************************************************************************)
Twins(i) ==
    {j \in 1..(i - 1) : /\ chain[j].status = 1
                        /\ chain[j].tx.fixture.outputs \cap chain[i].tx.fixture.outputs # {}}

Explains(run, i) ==
    \/ \E j \in Twins(i) : j > run.head
    \/ run.status = "none" /\ Twins(i) # {}
    \/ run.status = "unseen" /\ ~IsSpend(run.tx) /\ Twins(i) # {}
    \/ ~IsSpend(run.tx) /\ run.tx.gas # SETTLE_FRAME_GAS /\ Twins(i) = {}

FailedInFlight ==
    \A i \in 1..Len(chain) :
        chain[i].status = 0 =>
            \E r \in Runs : Sent(r) /\ runs[r].tx = chain[i].tx /\ Explains(runs[r], i)

(***************************************************************************)
(* devnet/REVIEW.md:594-595: the client "now refuses to send when the      *)
(* simulation's executionStatus is not success"; :1055-1056: spends        *)
(* "hard-refuse to send without a successful simulation".  Whoever sends a *)
(* spend has then seen its SENDER frame succeed.                           *)
(***************************************************************************)
SpendsSeenToSucceed ==
    \A tx \in mempool :
        IsSpend(tx) => \E r \in Runs :
                           Sent(r) /\ runs[r].tx = tx /\ runs[r].status = "success"

(***************************************************************************)
(* pool_frametx.py:161: a pending shield never waits for a transaction     *)
(* that may have been forgotten; whatever is evicted, its nonce is the     *)
(* account's next one or already used.                                     *)
(***************************************************************************)
PendingNeverStuck == \A tx \in mempool : ~IsSpend(tx) => tx.nonce <= Nonce

(***************************************************************************)
(* pool_frametx.py:288-303: every run ends, whether or not its transaction *)
(* is ever included.                                                       *)
(***************************************************************************)
RunsEnd == \A r \in Runs : runs[r].pc \in UnderWay ~> runs[r].pc \notin UnderWay
=============================================================================
