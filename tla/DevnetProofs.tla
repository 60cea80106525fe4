---------------------------- MODULE DevnetProofs ----------------------------
(***************************************************************************)
(* The scripts under devnet that run against a node: the client that       *)
(* sends transactions (Submission) and the deployment that waits for its   *)
(* publication to be settled (PublicationReorg).                           *)
(*                                                                         *)
(* Any number of runs of the sending client, with any fixtures, references *)
(* and gas.  The invariants need what links a pending transaction to the   *)
(* run that sent it, and that run to the head of its simulation: nothing   *)
(* there excluded the transaction, and if a status was reported, none of   *)
(* its outputs was a leaf.                                                 *)
(***************************************************************************)
EXTENDS Submission, PublicationReorg, SequenceTheorems, FiniteSetTheorems, TLAPS

TxShape(tx) ==
    tx = [fixture |-> tx.fixture, keys |-> tx.keys, nonce |-> tx.nonce, ref |-> tx.ref,
          gas |-> tx.gas]

\* What holds of every transaction that is built.
Built(tx) ==
    /\ TxShape(tx)
    /\ ~IsSpend(tx) => tx.keys = {}
    /\ IsSpend(tx) => tx.gas = SETTLE_FRAME_GAS

RunShape(run) ==
    /\ run = [pc |-> run.pc, tx |-> run.tx, polls |-> run.polls, head |-> run.head,
              used |-> run.used, status |-> run.status]
    /\ run.head \in Nat

ChainShape == \E entries : chain \in Seq(entries)

RunsShape ==
    /\ runs = [r \in Runs |-> runs[r]]
    /\ \A r \in Runs : RunShape(runs[r])

AllBuilt ==
    /\ \A r \in Runs : runs[r].pc # "idle" => Built(runs[r].tx)
    /\ \A tx \in mempool : Built(tx)

\* The statuses on which a transaction is sent, and those it is resized on.
GoodStatus == {"unseen", "none", "success"}

StatusAllowed(at, status) ==
    status \in GoodStatus \/ (at = "resize" /\ status = "reverted")

\* What the head of its simulation says of a run's transaction.
Sound(run) ==
    /\ run.head \in 0..Len(chain)
    /\ StatusAllowed(run.pc, run.status)
    /\ run.status = "unseen" => ~IsSpend(run.tx)
    /\ run.status # "unseen" => \A j \in 1..run.head : ~Excludes(chain[j].tx, run.tx)
    /\ run.status = "success" =>
           \A j \in 1..run.head :
               chain[j].status = 1 =>
                   chain[j].tx.fixture.outputs \cap run.tx.fixture.outputs = {}

SentSteps == {"poll", "mined", "reverted", "timeout", "lost"}

AllSound ==
    /\ \A r \in Runs : runs[r].pc \in {"resize", "send"} \cup SentSteps => Sound(runs[r])
    /\ \A r \in Runs : runs[r].pc = "resize" => ~IsSpend(runs[r].tx)

SentBySome(tx) == \E r \in Runs : Sent(r) /\ runs[r].tx = tx

PendingSent == \A tx \in mempool : SentBySome(tx)

\* Every deposit on the chain has used a nonce.
NoncesUsed ==
    \A i \in 1..Len(chain) : ~IsSpend(chain[i].tx) => chain[i].tx.nonce \in 0..(Nonce - 1)

KeysOnce ==
    \A i, j \in 1..Len(chain) : i # j => chain[i].tx.keys \cap chain[j].tx.keys = {}

SubmissionIInv ==
    /\ ChainShape /\ RunsShape /\ AllBuilt /\ AllSound /\ PendingSent
    /\ NoncesUsed /\ KeysOnce /\ FailedInFlight

-----------------------------------------------------------------------------
LEMMA SubmissionInit == Init => SubmissionIInv
  <1> SUFFICES ASSUME Init PROVE SubmissionIInv
    OBVIOUS
  <1> USE DEF Init
  <1>1. ChainShape
    <2>1. chain \in Seq({})
      OBVIOUS
    <2> QED  BY <2>1 DEF ChainShape
  <1>2. RunsShape
    BY DEF RunsShape, RunShape
  <1>3. AllBuilt /\ AllSound /\ PendingSent
    BY DEF AllBuilt, AllSound, SentSteps, PendingSent
  <1>4. NoncesUsed /\ KeysOnce /\ FailedInFlight
    BY DEF NoncesUsed, KeysOnce, FailedInFlight
  <1> QED  BY <1>1, <1>2, <1>3, <1>4 DEF SubmissionIInv

(***************************************************************************)
(* Replacing fields of a record keeps its fields.                          *)
(***************************************************************************)
LEMMA ShapeKept ==
    ASSUME NEW old, NEW new, RunShape(old), DOMAIN new = DOMAIN old,
           new = [f \in DOMAIN new |-> new[f]], new.head \in Nat
    PROVE  RunShape(new)
  <1>1. DOMAIN old = {"pc", "tx", "polls", "head", "used", "status"}
    BY DEF RunShape
  <1>2. DOMAIN new = {"pc", "tx", "polls", "head", "used", "status"}
    BY <1>1
  <1> QED  BY <1>2 DEF RunShape

LEMMA RunFields ==
    ASSUME NEW old, RunShape(old)
    PROVE  /\ {"pc", "tx", "polls", "head", "used", "status"} = DOMAIN old
           /\ old.head \in Nat
  BY DEF RunShape

(***************************************************************************)
(* A step that leaves the chain alone and changes one run, without taking  *)
(* back what it sent or letting it send what was not simulated.  Only the  *)
(* transaction of that run may join the mempool.                           *)
(***************************************************************************)
LEMMA RunStep ==
    ASSUME SubmissionIInv, NEW r \in Runs, NEW run,
           runs' = [runs EXCEPT ![r] = run], UNCHANGED chain,
           RunShape(run), run.pc # "idle", Built(run.tx),
           Sent(r) => run.pc \in SentSteps /\ run.tx = runs[r].tx
                          /\ run.head = runs[r].head /\ run.status = runs[r].status,
           run.pc = "resize" => ~IsSpend(run.tx),
           run.pc \in {"resize", "send"} \cup SentSteps => Sound(run),
           \/ mempool' = mempool
           \/ mempool' \subseteq mempool \cup {run.tx} /\ run.pc \in {"poll", "lost"}
    PROVE  SubmissionIInv'
  <1> USE DEF SubmissionIInv
  <1>1. /\ runs'[r] = run
        /\ \A q \in Runs : q # r => runs'[q] = runs[q]
        /\ runs' = [q \in Runs |-> runs'[q]]
    BY DEF RunsShape
  <1>2. ChainShape' /\ NoncesUsed' /\ KeysOnce'
    BY DEF ChainShape, NoncesUsed, KeysOnce, Nonce
  <1>3. RunsShape'
    BY <1>1 DEF RunsShape
  <1>4. AllBuilt'
    <2>1. mempool' \subseteq mempool \cup {run.tx}
      OBVIOUS
    <2> QED  BY <1>1, <2>1 DEF AllBuilt
  <1>5. \A q \in Runs : Sent(q) => /\ Sent(q)' /\ runs'[q].tx = runs[q].tx
                                  /\ runs'[q].head = runs[q].head
                                  /\ runs'[q].status = runs[q].status
    BY <1>1 DEF Sent, SentSteps
  <1>6. AllSound'
    <2>1. \A any : Sound(any)' <=> Sound(any)
      BY DEF Sound
    <2>2. \A q \in Runs :
              runs'[q].pc \in {"resize", "send"} \cup SentSteps => Sound(runs'[q])
      BY <1>1 DEF AllSound
    <2>3. (\A q \in Runs :
              runs[q].pc \in {"resize", "send"} \cup SentSteps => Sound(runs[q]))'
      BY <2>2 DEF Sound, SentSteps
    <2>4. \A q \in Runs : runs'[q].pc = "resize" => ~IsSpend(runs'[q].tx)
      BY <1>1 DEF AllSound
    <2> QED  BY <2>3, <2>4 DEF AllSound
  <1>7. PendingSent'
    <2>1. ASSUME NEW tx \in mempool PROVE SentBySome(tx)'
      BY <1>5 DEF PendingSent, SentBySome
    <2>2. ASSUME NEW tx \in mempool', tx \notin mempool PROVE SentBySome(tx)'
      BY <2>2, <1>1 DEF SentBySome, Sent
    <2> QED  BY <2>1, <2>2 DEF PendingSent
  <1>8. FailedInFlight'
    <2>1. \A i : Twins(i)' = Twins(i)
      BY DEF Twins
    <2> SUFFICES ASSUME NEW i \in 1..Len(chain), chain[i].status = 0
                 PROVE  \E q \in Runs : /\ Sent(q)' /\ runs'[q].tx = chain[i].tx
                                        /\ Explains(runs[q], i)'
      BY DEF FailedInFlight
    <2>2. PICK q \in Runs : Sent(q) /\ runs[q].tx = chain[i].tx /\ Explains(runs[q], i)
      BY DEF FailedInFlight
    <2>3. Explains(runs[q], i)'
      BY <1>5, <2>1, <2>2 DEF Explains, IsSpend
    <2> QED  BY <1>5, <2>2, <2>3
  <1> QED  BY <1>2, <1>3, <1>4, <1>6, <1>7, <1>8

-----------------------------------------------------------------------------
LEMMA BuiltByBuild ==
    ASSUME NEW fixture \in Fixtures, NEW nonce, NEW ref
    PROVE  Built(Build(fixture, nonce, ref))
  BY SubmissionAssumption DEF Build, Built, TxShape, IsSpend

LEMMA BeginStep ==
    ASSUME SubmissionIInv, NEW r \in Runs, NEW fixture \in Fixtures, NEW nonce, NEW ref,
           Begin(r, Build(fixture, nonce, ref))
    PROVE  SubmissionIInv'
  <1> DEFINE tx == Build(fixture, nonce, ref)
             run == [runs[r] EXCEPT !.pc = "simulate", !.tx = tx]
  <1>1. RunShape(runs[r]) /\ runs = [q \in Runs |-> runs[q]]
    BY DEF SubmissionIInv, RunsShape
  <1>2. /\ run.pc = "simulate" /\ run.tx = tx
        /\ RunShape(run)
    <2>1. DOMAIN run = DOMAIN runs[r] /\ run = [f \in DOMAIN run |-> run[f]]
      OBVIOUS
    <2>2. run.pc = "simulate" /\ run.tx = tx /\ run.head \in Nat
      BY <1>1, RunFields
    <2>3. RunShape(run)
      BY <1>1, <2>1, <2>2, ShapeKept
    <2> QED  BY <2>2, <2>3
  <1>3. runs' = [runs EXCEPT ![r] = run]
    BY <1>1 DEF Begin
  <1>4. ~Sent(r) /\ mempool' = mempool /\ chain' = chain
    BY DEF Begin, Sent
  <1>5. Built(run.tx)
    BY <1>2, BuiltByBuild
  <1> HIDE DEF run
  <1> QED  BY <1>2, <1>3, <1>4, <1>5, RunStep DEF SentSteps

\* What a head at which a transaction is valid, or executes, says of it.
LEMMA HeadSays ==
    ASSUME ChainShape, AllBuilt, NoncesUsed, NEW tx, Built(tx), PrefixValid(tx)
    PROVE  \A j \in 1..Len(chain) : ~Excludes(chain[j].tx, tx)
  <1> SUFFICES ASSUME NEW j \in 1..Len(chain), Excludes(chain[j].tx, tx) PROVE FALSE
    OBVIOUS
  <1>1. CASE IsSpend(tx)
    <2>1. chain[j].tx.keys \subseteq Consumed
      BY DEF Consumed, Included
    <2> QED  BY <1>1, <2>1 DEF Excludes, PrefixValid
  <1>2. CASE ~IsSpend(tx)
    <2>1. chain[j].tx.nonce \in 0..(Nonce - 1) /\ chain[j].tx.nonce = Nonce
      BY <1>2 DEF Excludes, PrefixValid, NoncesUsed
    <2> QED  BY <2>1
  <1> QED  BY <1>1, <1>2

LEMMA ExecutesChecks ==
    ASSUME ChainShape, NEW tx, NEW need, Executes(tx, need)
    PROVE  \A j \in 1..Len(chain) :
               chain[j].status = 1 => chain[j].tx.fixture.outputs \cap tx.fixture.outputs = {}
  <1>1. ASSUME NEW j \in 1..Len(chain), chain[j].status = 1
        PROVE  chain[j].tx.fixture.outputs \subseteq Leaves
    BY <1>1 DEF Leaves, Settled
  <1> QED  BY <1>1 DEF Executes

\* The run goes on with what a simulation at the head found, or none.
LEMMA SeenStep ==
    ASSUME SubmissionIInv, NEW r \in Runs, NEW run, RunShape(run),
           runs' = [runs EXCEPT ![r] = run], UNCHANGED <<mempool, chain>>, ~Sent(r),
           run.pc \in {"resize", "send", "refused"}, Built(run.tx), run.head = Len(chain),
           run.pc = "resize" => ~IsSpend(run.tx),
           run.pc # "refused" =>
               /\ StatusAllowed(run.pc, run.status)
               /\ run.status = "unseen" => ~IsSpend(run.tx)
               /\ run.status # "unseen" => PrefixValid(run.tx)
               /\ run.status = "success" => \E need : Executes(run.tx, need)
    PROVE  SubmissionIInv'
  <1>1. ChainShape /\ AllBuilt /\ NoncesUsed /\ Len(chain) \in 0..Len(chain)
    BY DEF SubmissionIInv, ChainShape
  <1>2. run.pc # "refused" => Sound(run)
    <2>1. PrefixValid(run.tx) => \A j \in 1..run.head : ~Excludes(chain[j].tx, run.tx)
      BY <1>1, HeadSays
    <2>2. (\E need : Executes(run.tx, need)) =>
              \A j \in 1..run.head :
                  chain[j].status = 1 =>
                      chain[j].tx.fixture.outputs \cap run.tx.fixture.outputs = {}
      BY <1>1, ExecutesChecks
    <2> QED  BY <1>1, <2>1, <2>2 DEF Sound
  <1> QED  BY <1>2, RunStep DEF SentSteps

\* What a status reported by a simulation says.
LEMMA StatusSays ==
    ASSUME NEW executes, NEW status \in Statuses(executes)
    PROVE  /\ status \in {"none", "success", "reverted"}
           /\ status = "success" => executes
           /\ Gate(status) \in {"send", "refused"}
           /\ Gate(status) = "send" => status \in GoodStatus
  BY DEF Statuses, Gate, GoodStatus

LEMMA SimulateStep ==
    ASSUME SubmissionIInv, NEW r \in Runs, Simulate(r)
    PROVE  SubmissionIInv'
  <1> DEFINE tx == runs[r].tx
  <1>1. /\ RunShape(runs[r]) /\ runs = [q \in Runs |-> runs[q]]
        /\ Len(chain) \in Nat
    BY DEF SubmissionIInv, RunsShape, ChainShape
  <1>2. ~Sent(r) /\ mempool' = mempool /\ chain' = chain /\ Built(tx)
    <2>1. runs[r].pc = "simulate" /\ mempool' = mempool /\ chain' = chain
      BY Zenon DEF Simulate
    <2> QED  BY <2>1 DEF Sent, SubmissionIInv, AllBuilt
  <1>3. ASSUME NEW at \in {"resize", "send", "refused"}, NEW status, NEW used,
               runs' = [runs EXCEPT ![r].pc = at, ![r].head = Len(chain),
                                    ![r].status = status, ![r].used = used],
               at = "resize" => ~IsSpend(tx),
               at # "refused" =>
                   /\ StatusAllowed(at, status)
                   /\ status = "unseen" => ~IsSpend(tx)
                   /\ status # "unseen" => PrefixValid(tx)
                   /\ status = "success" => \E need : Executes(tx, need)
        PROVE  SubmissionIInv'
    <2> DEFINE run == [runs[r] EXCEPT !.pc = at, !.head = Len(chain), !.status = status,
                                      !.used = used]
    <2>1. /\ RunShape(run) /\ run.pc = at /\ run.tx = tx /\ run.head = Len(chain)
          /\ run.status = status
      <3>1. DOMAIN run = DOMAIN runs[r] /\ run = [f \in DOMAIN run |-> run[f]]
        OBVIOUS
      <3>2. /\ run.pc = at /\ run.tx = tx /\ run.head = Len(chain) /\ run.head \in Nat
            /\ run.status = status
        BY <1>1, RunFields
      <3>3. RunShape(run)
        BY <1>1, <3>1, <3>2, ShapeKept
      <3> QED  BY <3>2, <3>3
    <2>2. runs' = [runs EXCEPT ![r] = run]
      BY <1>1, <1>3
    <2> HIDE DEF run
    <2> QED  BY <1>2, <1>3, <2>1, <2>2, SeenStep
  <1>4. CASE runs' = [runs EXCEPT ![r].pc = Blind(tx), ![r].head = Len(chain),
                                  ![r].status = "unseen", ![r].used = 0]
    <2>1. \A at : StatusAllowed(at, "unseen")
      BY DEF StatusAllowed, GoodStatus
    <2>2. CASE IsSpend(tx)
      <3>1. runs' = [runs EXCEPT ![r].pc = "refused", ![r].head = Len(chain),
                                 ![r].status = "unseen", ![r].used = 0]
        BY <1>4, <2>2 DEF Blind
      <3> QED  BY <1>3, <3>1
    <2>3. CASE ~IsSpend(tx)
      <3>1. runs' = [runs EXCEPT ![r].pc = "send", ![r].head = Len(chain),
                                 ![r].status = "unseen", ![r].used = 0]
        BY <1>4, <2>3 DEF Blind
      <3>2. /\ "send" \in {"resize", "send", "refused"} /\ "send" # "resize"
            /\ "unseen" # "success"
        OBVIOUS
      <3> HIDE DEF tx
      <3> QED  BY <1>3, <2>1, <2>3, <3>1, <3>2, Zenon
    <2> QED  BY <2>2, <2>3
  <1>5. CASE runs' = [runs EXCEPT ![r].pc = OnInvalid(tx), ![r].head = Len(chain),
                                  ![r].status = "none", ![r].used = 0]
    BY <1>3, <1>5 DEF OnInvalid
  <1>6. CASE /\ PrefixValid(tx)
             /\ \E need \in GasNeeds : \E status \in Statuses(Executes(tx, need)) :
                    runs' = [runs EXCEPT ![r].pc = Gate(status), ![r].head = Len(chain),
                                         ![r].status = status, ![r].used = 0]
    <2>0. PICK need \in GasNeeds : \E status \in Statuses(Executes(tx, need)) :
              runs' = [runs EXCEPT ![r].pc = Gate(status), ![r].head = Len(chain),
                                   ![r].status = status, ![r].used = 0]
      BY <1>6
    <2>1. PICK status \in Statuses(Executes(tx, need)) :
              runs' = [runs EXCEPT ![r].pc = Gate(status), ![r].head = Len(chain),
                                   ![r].status = status, ![r].used = 0]
      BY <2>0
    <2>2. /\ status \in {"none", "success", "reverted"}
          /\ status = "success" => Executes(tx, need)
          /\ Gate(status) \in {"send", "refused"}
          /\ Gate(status) = "send" => status \in GoodStatus
      BY StatusSays
    <2> QED  BY <1>3, <1>6, <2>1, <2>2 DEF StatusAllowed
  <1>7. CASE /\ PrefixValid(tx) /\ ~IsSpend(tx)
             /\ \E need \in GasNeeds : \E status \in Statuses(Executes(tx, need)) :
                    runs' = [runs EXCEPT ![r].pc = "resize", ![r].head = Len(chain),
                                         ![r].status = status, ![r].used = need]
    <2>0. PICK need \in GasNeeds : \E status \in Statuses(Executes(tx, need)) :
              runs' = [runs EXCEPT ![r].pc = "resize", ![r].head = Len(chain),
                                   ![r].status = status, ![r].used = need]
      BY <1>7
    <2>1. PICK status \in Statuses(Executes(tx, need)) :
              runs' = [runs EXCEPT ![r].pc = "resize", ![r].head = Len(chain),
                                   ![r].status = status, ![r].used = need]
      BY <2>0
    <2>2. /\ status = "success" => Executes(tx, need)
          /\ status \in {"none", "success", "reverted"}
      BY StatusSays
    <2> QED  BY <1>3, <1>7, <2>1, <2>2 DEF StatusAllowed, GoodStatus
  <1> QED  BY <1>4, <1>5, <1>6, <1>7, Zenon DEF Simulate

LEMMA ResizeStep ==
    ASSUME SubmissionIInv, NEW r \in Runs, Resize(r)
    PROVE  SubmissionIInv'
  <1> DEFINE tx == runs[r].tx
             sized == [tx EXCEPT !.gas = Sized(runs[r].used)]
  <1>1. RunShape(runs[r]) /\ runs = [q \in Runs |-> runs[q]] /\ Len(chain) \in Nat
    BY DEF SubmissionIInv, RunsShape, ChainShape
  <1>2. /\ ~Sent(r) /\ mempool' = mempool /\ chain' = chain
        /\ Built(tx) /\ ~IsSpend(tx) /\ Sound(runs[r])
    <2>1. runs[r].pc = "resize" /\ mempool' = mempool /\ chain' = chain
      BY Zenon DEF Resize
    <2> QED  BY <2>1 DEF Sent, SubmissionIInv, AllBuilt, AllSound
  <1>3. Built(sized) /\ ~IsSpend(sized)
    BY <1>2 DEF Built, TxShape, IsSpend
  <1>4. \E newTx, seenAt, status :
            /\ runs' = [runs EXCEPT ![r].pc = Gate(status), ![r].tx = newTx,
                                    ![r].head = seenAt, ![r].status = status, ![r].used = 0]
            /\ \/ newTx = tx /\ seenAt = runs[r].head /\ status = runs[r].status
               \/ /\ newTx = sized /\ seenAt = Len(chain) /\ PrefixValid(sized)
                  /\ \E need : status \in Statuses(Executes(sized, need))
    <2>1. CASE runs' = [runs EXCEPT ![r].pc = Gate(runs[r].status), ![r].tx = tx,
                                    ![r].head = runs[r].head, ![r].status = runs[r].status,
                                    ![r].used = 0]
      BY <2>1, Zenon
    <2>2. CASE /\ PrefixValid(sized)
               /\ \E need \in GasNeeds : \E status \in Statuses(Executes(sized, need)) :
                      runs' = [runs EXCEPT ![r].pc = Gate(GatedOn(runs[r].status, status)),
                                           ![r].tx = sized, ![r].head = Len(chain),
                                           ![r].status = GatedOn(runs[r].status, status),
                                           ![r].used = 0]
      BY <2>2, Zenon DEF GatedOn
    <2> QED  BY <2>1, <2>2, Zenon DEF Resize
  <1>5. PICK newTx, seenAt, status :
            /\ runs' = [runs EXCEPT ![r].pc = Gate(status), ![r].tx = newTx,
                                    ![r].head = seenAt, ![r].status = status, ![r].used = 0]
            /\ \/ newTx = tx /\ seenAt = runs[r].head /\ status = runs[r].status
               \/ /\ newTx = sized /\ seenAt = Len(chain) /\ PrefixValid(sized)
                  /\ \E need : status \in Statuses(Executes(sized, need))
    BY <1>4, Zenon
  <1> DEFINE run == [runs[r] EXCEPT !.pc = Gate(status), !.tx = newTx, !.head = seenAt,
                                    !.status = status, !.used = 0]
  <1> HIDE DEF tx, sized
  <1>6. /\ run.pc = Gate(status) /\ run.tx = newTx /\ run.head = seenAt
        /\ run.status = status /\ RunShape(run)
    <2>1. DOMAIN run = DOMAIN runs[r] /\ run = [f \in DOMAIN run |-> run[f]]
      OBVIOUS
    <2>2. seenAt \in Nat
      BY <1>1, <1>5, RunFields
    <2>3. /\ run.pc = Gate(status) /\ run.tx = newTx /\ run.head = seenAt
          /\ run.status = status /\ run.head \in Nat
      BY <1>1, <2>2, RunFields
    <2>4. RunShape(run)
      BY <1>1, <2>1, <2>3, ShapeKept
    <2> QED  BY <2>3, <2>4
  <1>7. runs' = [runs EXCEPT ![r] = run]
    BY <1>1, <1>5
  <1> HIDE DEF run
  <1>8. CASE newTx = tx /\ seenAt = runs[r].head /\ status = runs[r].status
    <2>1. run.pc \in {"send", "refused"} /\ (run.pc = "send" => run.status # "reverted")
      BY <1>6 DEF Gate
    <2>2. run.pc = "send" => Sound(run)
      BY <1>2, <1>6, <1>8, <2>1 DEF Sound, StatusAllowed, tx
    <2> QED  BY <1>2, <1>6, <1>7, <1>8, <2>1, <2>2, RunStep DEF SentSteps, tx
  <1>9. CASE /\ newTx = sized /\ seenAt = Len(chain) /\ PrefixValid(sized)
             /\ \E need : status \in Statuses(Executes(sized, need))
    <2>1. PICK need : status \in Statuses(Executes(sized, need))
      BY <1>9
    <2>2. /\ status \in {"none", "success", "reverted"}
          /\ status = "success" => Executes(sized, need)
          /\ Gate(status) \in {"send", "refused"}
          /\ Gate(status) = "send" => status \in GoodStatus
      BY <2>1, StatusSays
    <2> QED  BY <1>2, <1>3, <1>6, <1>7, <1>9, <2>2, SeenStep DEF StatusAllowed
  <1> QED  BY <1>5, <1>8, <1>9

\* The run goes on or ends, with what it had sent, or sends it.
LEMMA KeepStep ==
    ASSUME SubmissionIInv, NEW r \in Runs, NEW at, NEW polls,
           runs' = [runs EXCEPT ![r].polls = polls, ![r].pc = at],
           UNCHANGED chain, runs[r].pc # "idle",
           \/ at \in SentSteps /\ runs[r].pc \in {"send"} \cup SentSteps
           \/ at = "failed" /\ ~Sent(r),
           \/ mempool' = mempool
           \/ mempool' \subseteq mempool \cup {runs[r].tx} /\ at \in {"poll", "lost"}
    PROVE  SubmissionIInv'
  <1>1. RunShape(runs[r]) /\ runs = [q \in Runs |-> runs[q]] /\ Built(runs[r].tx)
    BY DEF SubmissionIInv, RunsShape, AllBuilt
  <1> DEFINE run == [runs[r] EXCEPT !.polls = polls, !.pc = at]
  <1>2. /\ RunShape(run) /\ run.pc = at /\ run.tx = runs[r].tx
        /\ run.head = runs[r].head /\ run.status = runs[r].status
    <2>1. DOMAIN run = DOMAIN runs[r] /\ run = [f \in DOMAIN run |-> run[f]]
      OBVIOUS
    <2>2. /\ run.pc = at /\ run.tx = runs[r].tx /\ run.head \in Nat
          /\ run.head = runs[r].head /\ run.status = runs[r].status
      BY <1>1, RunFields
    <2>3. RunShape(run)
      BY <1>1, <2>1, <2>2, ShapeKept
    <2> QED  BY <2>2, <2>3
  <1>3. runs' = [runs EXCEPT ![r] = run]
    BY <1>1
  <1> HIDE DEF run
  <1>4. at \in SentSteps => Sound(run)
    <2>1. at \in SentSteps => Sound(runs[r]) /\ runs[r].pc # "resize"
      BY DEF SubmissionIInv, AllSound, SentSteps, Sent
    <2> QED  BY <1>2, <2>1 DEF Sound, StatusAllowed
  <1> QED  BY <1>1, <1>2, <1>3, <1>4, RunStep DEF Sent, SentSteps

LEMMA SamePolls ==
    ASSUME RunsShape, NEW r \in Runs, NEW at
    PROVE  [runs EXCEPT ![r].pc = at] = [runs EXCEPT ![r].polls = runs[r].polls, ![r].pc = at]
  BY DEF RunsShape, RunShape

LEMMA SendStep ==
    ASSUME SubmissionIInv, NEW r \in Runs, Send(r)
    PROVE  SubmissionIInv'
  <1>1. /\ runs[r].pc = "send" /\ chain' = chain
        /\ mempool' \subseteq mempool \cup {runs[r].tx}
    BY DEF Send
  <1>2. PICK at \in {"poll", "lost"} : runs' = [runs EXCEPT ![r].pc = at]
    BY DEF Send
  <1>3. runs' = [runs EXCEPT ![r].polls = runs[r].polls, ![r].pc = at]
    BY <1>2, SamePolls DEF SubmissionIInv
  <1> QED  BY <1>1, <1>2, <1>3, KeepStep DEF SentSteps

LEMMA PollStep ==
    ASSUME SubmissionIInv, NEW r \in Runs, Poll(r) \/ BreakOff(r)
    PROVE  SubmissionIInv'
  <1>1. RunsShape
    BY DEF SubmissionIInv
  <1>2. runs[r].pc # "idle" /\ UNCHANGED <<mempool, chain>>
    BY DEF Poll, BreakOff, UnderWay
  <1>4. CASE Poll(r)
    <2>1. \A status : Verdict(status) \in {"mined", "reverted"}
      BY DEF Verdict
    <2>2. CASE \E i \in 1..Len(chain) :
                  runs' = [runs EXCEPT ![r].pc = Verdict(chain[i].status)]
      <3>1. PICK i \in 1..Len(chain) :
                runs' = [runs EXCEPT ![r].pc = Verdict(chain[i].status)]
        BY <2>2
      <3> DEFINE at == Verdict(chain[i].status)
      <3>2. at \in {"mined", "reverted"}
        BY <2>1
      <3> HIDE DEF at
      <3>3. runs' = [runs EXCEPT ![r].polls = runs[r].polls, ![r].pc = at]
        BY <3>1, <1>1, SamePolls DEF at
      <3>4. runs[r].pc = "poll"
        BY <1>4 DEF Poll
      <3> QED  BY <3>2, <3>3, <3>4, <1>2, KeepStep DEF SentSteps
    <2>3. CASE \E polls : runs' = [runs EXCEPT ![r].polls = polls,
                                ![r].pc = IF polls = Polls THEN "timeout" ELSE "poll"]
      <3>1. runs[r].pc = "poll"
        BY <1>4 DEF Poll
      <3> QED  BY <2>3, <1>2, <3>1, KeepStep DEF SentSteps
    <2> QED  BY <1>4, <2>2, <2>3 DEF Poll
  <1>5. CASE BreakOff(r)
    <2> DEFINE at == IF runs[r].pc = "poll" THEN "lost" ELSE "failed"
    <2>1. runs[r].pc \in UnderWay /\ runs' = [runs EXCEPT ![r].pc = at]
      BY <1>1, <1>5 DEF BreakOff, RunsShape, RunShape
    <2>2. \/ at = "lost" /\ runs[r].pc = "poll"
          \/ at = "failed" /\ ~Sent(r)
      BY <2>1 DEF UnderWay, Sent
    <2> HIDE DEF at
    <2>3. runs' = [runs EXCEPT ![r].polls = runs[r].polls, ![r].pc = at]
      BY <2>1, <1>1, SamePolls
    <2> QED  BY <2>2, <2>3, <1>2, KeepStep DEF SentSteps
  <1> QED  BY <1>4, <1>5

-----------------------------------------------------------------------------
LEMMA ChainGrows ==
    ASSUME ChainShape, NEW entry, chain' = Append(chain, entry)
    PROVE  /\ ChainShape'
           /\ Len(chain) \in Nat /\ Len(chain') = Len(chain) + 1
           /\ chain'[Len(chain) + 1] = entry
           /\ \A i \in 1..Len(chain) : chain'[i] = chain[i]
  <1>1. PICK entries : chain \in Seq(entries)
    BY DEF ChainShape
  <1> DEFINE more == entries \cup {entry}
  <1>2. chain \in Seq(more)
    BY <1>1, SeqDef
  <1>3. entry \in more
    OBVIOUS
  <1> HIDE DEF more
  <1>4. chain' \in Seq(more)
    BY <1>2, <1>3, AppendProperties
  <1>5. ChainShape'
    BY <1>4 DEF ChainShape
  <1> QED  BY <1>2, <1>3, <1>5, AppendProperties

\* The deposits on the chain; their number is the nonce that is read.
Shields == {i \in 1..Len(chain) : ~IsSpend(chain[i].tx)}

LEMMA FiniteCount ==
    ASSUME NEW n \in Nat, NEW S, S \subseteq 1..n
    PROVE  IsFiniteSet(S) /\ Cardinality(S) \in Nat
  <1>1. IsFiniteSet(1..n)
    BY FS_Interval
  <1>2. IsFiniteSet(S)
    BY <1>1, FS_Subset
  <1> QED  BY <1>2, FS_CardinalityType

LEMMA NonceIsNat ==
    ASSUME ChainShape
    PROVE  Nonce \in Nat
  BY FiniteCount DEF ChainShape, Nonce

LEMMA NonceGrows ==
    ASSUME ChainShape, ChainShape', Len(chain') = Len(chain) + 1,
           \A i \in 1..Len(chain) : chain'[i] = chain[i]
    PROVE  /\ Nonce \in Nat /\ Nonce' \in Nat /\ Nonce <= Nonce'
           /\ ~IsSpend(chain'[Len(chain')].tx) => Nonce < Nonce'
  <1>1. Len(chain) \in Nat /\ Len(chain') \in Nat
    BY DEF ChainShape
  <1>2. /\ Shields \subseteq Shields'
        /\ ~IsSpend(chain'[Len(chain')].tx) => Shields # Shields'
    BY <1>1 DEF Shields, IsSpend
  <1>3. /\ Nonce = Cardinality(Shields) /\ Nonce' = Cardinality(Shields')
        /\ Shields \subseteq 1..Len(chain) /\ Shields' \subseteq 1..Len(chain')
    BY DEF Nonce, Shields, IsSpend
  <1>4. IsFiniteSet(Shields') /\ Nonce \in Nat /\ Nonce' \in Nat
    BY <1>1, <1>3, FiniteCount
  <1>5. /\ Cardinality(Shields) <= Cardinality(Shields')
        /\ Cardinality(Shields) = Cardinality(Shields') => Shields = Shields'
    BY <1>2, <1>4, FS_Subset
  <1> QED  BY <1>2, <1>3, <1>4, <1>5

LEMMA Below ==
    ASSUME NEW m \in Nat, NEW n \in Nat, m <= n
    PROVE  0..(m - 1) \subseteq 0..(n - 1) /\ (m < n => m \in 0..(n - 1))
  OBVIOUS

LEMMA IncludeStep ==
    ASSUME SubmissionIInv, NEW tx \in mempool, NEW need \in GasNeeds, Include(tx, need)
    PROVE  SubmissionIInv'
  <1> USE DEF SubmissionIInv
  <1> DEFINE status == IF Executes(tx, need) THEN 1 ELSE 0
  <1>0. PICK last : last = Len(chain) + 1
    OBVIOUS
  <1>1. /\ ChainShape'
        /\ Len(chain) \in Nat /\ Len(chain') = last
        /\ chain'[last] = [tx |-> tx, status |-> status]
        /\ \A i \in 1..Len(chain) : chain'[i] = chain[i]
    BY <1>0, ChainGrows DEF Include
  <1>2. runs' = runs /\ mempool' \subseteq mempool /\ PrefixValid(tx) /\ Built(tx)
    BY DEF Include, AllBuilt
  <1>3. RunsShape' /\ AllBuilt'
    BY <1>2 DEF RunsShape, AllBuilt
  <1>4. AllSound'
    <2>1. \A r \in Runs : Sound(runs[r]) => Sound(runs[r])'
      <3> SUFFICES ASSUME NEW r \in Runs, Sound(runs[r]) PROVE Sound(runs[r])'
        OBVIOUS
      <3>1. runs'[r] = runs[r] /\ runs[r].head \in 0..Len(chain)
        BY <1>2 DEF Sound
      <3>2. \A j \in 1..runs[r].head : chain'[j] = chain[j]
        BY <1>0, <1>1, <3>1
      <3>3. runs[r].head \in 0..Len(chain')
        BY <1>0, <1>1, <3>1
      <3> HIDE DEF status
      <3> QED  BY <3>1, <3>2, <3>3 DEF Sound, Excludes, IsSpend
    <2> QED  BY <1>2, <2>1 DEF AllSound
  <1>5. PendingSent'
    BY <1>2 DEF PendingSent, SentBySome, Sent
  <1>6. NoncesUsed'
    <2>1. /\ Nonce \in Nat /\ Nonce' \in Nat /\ Nonce <= Nonce'
          /\ ~IsSpend(tx) => Nonce < Nonce'
      BY <1>0, <1>1, NonceGrows
    <2>2. ASSUME NEW i \in 1..last, ~IsSpend(chain'[i].tx)
          PROVE  chain'[i].tx.nonce \in 0..(Nonce' - 1)
      <3>1. CASE i = last
        <4>1. chain'[i].tx = tx
          BY <1>0, <1>1, <3>1
        <4>2. tx.nonce = Nonce
          BY <1>2, <2>2, <4>1 DEF PrefixValid
        <4>3. Nonce \in 0..(Nonce' - 1)
          BY <2>1, <2>2, <4>1, Below
        <4> QED  BY <4>1, <4>2, <4>3
      <3>2. CASE i # last
        <4>1. i \in 1..Len(chain) /\ chain'[i] = chain[i]
          BY <1>0, <1>1, <3>2
        <4>2. chain[i].tx.nonce \in 0..(Nonce - 1)
          BY <2>2, <4>1 DEF NoncesUsed
        <4>3. 0..(Nonce - 1) \subseteq 0..(Nonce' - 1)
          BY <2>1, Below
        <4> QED  BY <4>1, <4>2, <4>3
      <3> QED  BY <3>1, <3>2
    <2> HIDE DEF status
    <2> QED  BY <1>0, <1>1, <2>2 DEF NoncesUsed, IsSpend
  <1>7. KeysOnce'
    <2>1. \A i \in 1..Len(chain) : chain[i].tx.keys \cap tx.keys = {}
      <3> SUFFICES ASSUME NEW i \in 1..Len(chain)
                   PROVE  chain[i].tx.keys \cap tx.keys = {}
        OBVIOUS
      <3>1. chain[i].tx.keys \subseteq Consumed
        BY DEF Consumed, Included
      <3>2. tx.keys \cap Consumed = {}
        BY <1>2 DEF PrefixValid, Built
      <3> QED  BY <3>1, <3>2
    <2> SUFFICES ASSUME NEW i \in 1..last, NEW j \in 1..last, i # j
                 PROVE  chain'[i].tx.keys \cap chain'[j].tx.keys = {}
      BY <1>0, <1>1 DEF KeysOnce
    <2>2. CASE i = last
      <3>1. j \in 1..Len(chain)
        BY <1>0, <1>1, <2>2
      <3> HIDE DEF status
      <3> QED  BY <1>0, <1>1, <2>1, <2>2, <3>1
    <2>3. CASE j = last
      <3>1. i \in 1..Len(chain)
        BY <1>0, <1>1, <2>3
      <3> HIDE DEF status
      <3> QED  BY <1>0, <1>1, <2>1, <2>3, <3>1
    <2>4. CASE i # last /\ j # last
      <3>1. i \in 1..Len(chain) /\ j \in 1..Len(chain)
        BY <1>0, <1>1, <2>4
      <3> QED  BY <1>0, <1>1, <3>1 DEF KeysOnce
    <2> QED  BY <2>2, <2>3, <2>4
  <1>8. FailedInFlight'
    <2>1. \A i \in 1..Len(chain) : Twins(i)' = Twins(i)
      <3> SUFFICES ASSUME NEW i \in 1..Len(chain) PROVE Twins(i)' = Twins(i)
        OBVIOUS
      <3>1. \A j \in 1..(i - 1) : chain'[j] = chain[j]
        BY <1>0, <1>1
      <3>2. chain'[i] = chain[i]
        BY <1>0, <1>1
      <3> HIDE DEF status
      <3> QED  BY <3>1, <3>2 DEF Twins
    <2>2. Twins(last)' = {j \in 1..Len(chain) :
                              /\ chain[j].status = 1
                              /\ chain[j].tx.fixture.outputs \cap tx.fixture.outputs # {}}
      <3>1. /\ \A j \in 1..Len(chain) : chain'[j] = chain[j]
            /\ chain'[last].tx = tx /\ last - 1 = Len(chain)
        BY <1>0, <1>1
      <3> HIDE DEF status
      <3> QED  BY <3>1 DEF Twins
    <2> SUFFICES ASSUME NEW i \in 1..last, chain'[i].status = 0
                 PROVE  \E r \in Runs : /\ Sent(r) /\ runs[r].tx = chain'[i].tx
                                        /\ Explains(runs[r], i)'
      <3>1. \A r : Sent(r)' <=> Sent(r)
        BY <1>2 DEF Sent
      <3> HIDE DEF status
      <3> QED  BY <1>1, <1>2, <3>1 DEF FailedInFlight
    <2>0. \A r : Explains(runs[r], i)' <=>
                     \/ \E j \in Twins(i)' : j > runs[r].head
                     \/ runs[r].status = "none" /\ Twins(i)' # {}
                     \/ /\ runs[r].status = "unseen"
                        /\ ~IsSpend(runs[r].tx) /\ Twins(i)' # {}
                     \/ /\ ~IsSpend(runs[r].tx)
                        /\ runs[r].tx.gas # SETTLE_FRAME_GAS /\ Twins(i)' = {}
      BY <1>2 DEF Explains, IsSpend
    <2>3. CASE i # last
      <3>1. i \in 1..Len(chain) /\ chain'[i] = chain[i] /\ Twins(i)' = Twins(i)
        BY <1>0, <1>1, <2>1, <2>3
      <3> HIDE DEF status
      <3>2. PICK r \in Runs : Sent(r) /\ runs[r].tx = chain[i].tx /\ Explains(runs[r], i)
        BY <3>1 DEF FailedInFlight
      <3>3. Explains(runs[r], i)'
        BY <1>2, <3>1, <3>2 DEF Explains, IsSpend
      <3> QED  BY <3>1, <3>2, <3>3
    <2>4. CASE i = last
      <3>1. /\ chain'[i].tx = tx /\ ~Executes(tx, need)
        BY <1>0, <1>1, <2>4
      <3>2. PICK r \in Runs : Sent(r) /\ runs[r].tx = tx
        BY DEF PendingSent, SentBySome
      <3>3. Sound(runs[r]) /\ runs[r].pc # "resize" /\ runs[r].status \in GoodStatus
        BY <3>2 DEF AllSound, Sent, SentSteps, Sound, StatusAllowed
      <3> DEFINE twins == {j \in 1..Len(chain) :
                              /\ chain[j].status = 1
                              /\ chain[j].tx.fixture.outputs \cap tx.fixture.outputs # {}}
      <3>4. Twins(i)' = twins
        BY <2>2, <2>4
      <3>5. CASE twins = {}
        <4>1. tx.fixture.outputs \cap Leaves = {}
          BY <3>5 DEF Leaves, Settled
        <4>2. ~(tx.gas >= need)
          BY <3>1, <4>1 DEF Executes
        <4>3. need \in 1..SETTLE_FRAME_GAS
          BY SubmissionAssumption
        <4>4. ~IsSpend(tx)
          BY <1>2, <4>2, <4>3 DEF Built
        <4>5. tx.gas # SETTLE_FRAME_GAS
          BY <4>2, <4>3
        <4> HIDE DEF twins
        <4> QED  BY <2>0, <3>1, <3>2, <3>4, <3>5, <4>4, <4>5
      <3>6. CASE twins # {} /\ runs[r].status = "success"
        <4>1. PICK j \in twins : TRUE
          BY <3>6
        <4>2. ~(j \in 1..runs[r].head) /\ j \in 1..Len(chain) /\ runs[r].head \in Nat
          BY <1>0, <1>1, <3>2, <3>3, <3>6, <4>1 DEF Sound
        <4>3. j > runs[r].head
          BY <1>0, <1>1, <4>2
        <4> HIDE DEF twins
        <4> QED  BY <2>0, <3>1, <3>2, <3>4, <4>1, <4>3
      <3>7. CASE twins # {} /\ runs[r].status \in {"none", "unseen"}
        <4>1. runs[r].status = "unseen" => ~IsSpend(runs[r].tx)
          BY <3>3 DEF Sound
        <4> HIDE DEF twins
        <4> QED  BY <2>0, <3>1, <3>2, <3>4, <3>7, <4>1
      <3> QED  BY <3>3, <3>5, <3>6, <3>7 DEF GoodStatus
    <2> QED  BY <2>3, <2>4
  <1> QED  BY <1>0, <1>1, <1>3, <1>4, <1>5, <1>6, <1>7, <1>8

LEMMA OtherStep ==
    ASSUME SubmissionIInv, UNCHANGED <<runs, chain>>, mempool' \subseteq mempool
    PROVE  SubmissionIInv'
  <1> USE DEF SubmissionIInv
  <1>1. ChainShape' /\ RunsShape' /\ AllBuilt'
    BY DEF ChainShape, RunsShape, AllBuilt
  <1>2. AllSound' /\ PendingSent'
    BY DEF AllSound, Sound, PendingSent, SentBySome, Sent
  <1>3. NoncesUsed' /\ KeysOnce'
    BY DEF NoncesUsed, KeysOnce, Nonce
  <1>4. FailedInFlight'
    BY DEF FailedInFlight, Explains, Twins, Sent
  <1> QED  BY <1>1, <1>2, <1>3, <1>4

LEMMA SubmissionNext == SubmissionIInv /\ [Next]_vars => SubmissionIInv'
  <1> SUFFICES ASSUME SubmissionIInv, [Next]_vars PROVE SubmissionIInv'
    OBVIOUS
  <1>1. ASSUME NEW r \in Runs, NEW fixture \in Fixtures, BeginShield(r, fixture)
        PROVE  SubmissionIInv'
    BY <1>1, BeginStep DEF BeginShield
  <1>2. ASSUME NEW r \in Runs, NEW fixture \in Fixtures, NEW ref, BeginSpend(r, fixture, ref)
        PROVE  SubmissionIInv'
    BY <1>2, BeginStep DEF BeginSpend
  <1>3. ASSUME NEW r \in Runs, ClientStep(r) \/ BreakOff(r)
        PROVE  SubmissionIInv'
    BY <1>3, SimulateStep, ResizeStep, SendStep, PollStep DEF ClientStep
  <1>4. ASSUME NEW tx \in mempool, Evict(tx)
        PROVE  SubmissionIInv'
    BY <1>4, OtherStep DEF Evict
  <1>5. ASSUME NEW tx \in mempool, NEW need \in GasNeeds, Include(tx, need)
        PROVE  SubmissionIInv'
    BY <1>5, IncludeStep
  <1>6. CASE Publish \/ Expire
    BY <1>6, OtherStep DEF Publish, Expire
  <1>7. CASE UNCHANGED vars
    BY <1>7, OtherStep DEF vars
  <1> QED  BY <1>1, <1>2, <1>3, <1>4, <1>5, <1>6, <1>7 DEF Next

(***************************************************************************)
(* However many runs there are, with whatever fixtures, and whenever they  *)
(* break off, give up or are repeated: what is pending could be included   *)
(* at the head of the simulation it was sent on, and whatever excludes it  *)
(* now came later (pool_frametx.py:261-274).                               *)
(***************************************************************************)
THEOREM DoomedInFlightHolds == Spec => []DoomedInFlight
  <1>1. SubmissionIInv => DoomedInFlight
    <2> SUFFICES ASSUME SubmissionIInv, NEW tx \in mempool
                 PROVE  \E r \in Runs :
                            /\ Sent(r) /\ runs[r].tx = tx
                            /\ \/ runs[r].status = "unseen" /\ ~IsSpend(tx)
                               \/ \A i \in 1..runs[r].head : ~Excludes(chain[i].tx, tx)
      BY DEF DoomedInFlight
    <2>1. PICK r \in Runs : Sent(r) /\ runs[r].tx = tx
      BY DEF SubmissionIInv, PendingSent, SentBySome
    <2>2. Sound(runs[r])
      BY <2>1 DEF SubmissionIInv, AllSound, Sent, SentSteps
    <2> QED  BY <2>1, <2>2 DEF Sound
  <1> QED  BY <1>1, SubmissionInit, SubmissionNext, PTL DEF Spec

(***************************************************************************)
(* Why a transaction fails after it was paid for (pool_frametx.py:223-282):*)
(* one of its outputs became a leaf after the head of the simulation of    *)
(* this very transaction, or was one while that simulation reported no     *)
(* status, or it is a shield, sent without a simulation or resized.        *)
(***************************************************************************)
THEOREM FailedInFlightHolds == Spec => []FailedInFlight
  <1>1. SubmissionIInv => FailedInFlight
    BY DEF SubmissionIInv
  <1> QED  BY <1>1, SubmissionInit, SubmissionNext, PTL DEF Spec

-----------------------------------------------------------------------------
\* The nonce that a shield is built with: no transaction is ahead of the chain.
NonceIInv ==
    /\ SubmissionIInv
    /\ \A r \in Runs :
           (runs[r].pc # "idle" /\ ~IsSpend(runs[r].tx)) => runs[r].tx.nonce \in 0..Nonce
    /\ \A tx \in mempool : ~IsSpend(tx) => tx.nonce \in 0..Nonce

LEMMA NonceInit == Init => NonceIInv
  <1> SUFFICES ASSUME Init PROVE NonceIInv
    OBVIOUS
  <1>1. (\A r \in Runs : runs[r].pc = "idle") /\ mempool = {}
    BY DEF Init
  <1> QED  BY <1>1, SubmissionInit DEF NonceIInv

\* A step that changes one run and leaves the chain alone.
LEMMA NonceRunStep ==
    ASSUME NonceIInv, SubmissionIInv', NEW r \in Runs, UNCHANGED chain,
           \A q \in Runs : q # r => runs'[q] = runs[q],
           ~IsSpend(runs'[r].tx) => runs'[r].tx.nonce \in 0..Nonce,
           mempool' \subseteq mempool \cup {runs'[r].tx}
    PROVE  NonceIInv'
  <1>1. Nonce' = Nonce
    BY DEF Nonce
  <1> QED  BY <1>1 DEF NonceIInv

LEMMA BeginTx ==
    ASSUME RunsShape, NEW r \in Runs, NEW tx, Begin(r, tx)
    PROVE  runs'[r].tx = tx /\ \A q \in Runs : q # r => runs'[q] = runs[q]
  <1>1. {"pc", "tx", "polls", "head", "used", "status"} = DOMAIN runs[r]
    BY RunFields DEF RunsShape
  <1>2. /\ runs'[r] = [runs[r] EXCEPT !.pc = "simulate", !.tx = tx]
        /\ \A q \in Runs : q # r => runs'[q] = runs[q]
    BY DEF Begin, RunsShape
  <1> QED  BY <1>1, <1>2

\* What the simulations make of a run: its pc and, if it is resized, its transaction.
LEMMA SimulateSays ==
    ASSUME RunsShape, NEW r \in Runs, Simulate(r)
    PROVE  /\ runs[r].pc = "simulate" /\ mempool' = mempool /\ runs'[r].tx = runs[r].tx
           /\ runs'[r].pc \in {"resize", "send", "refused"}
  <1>1. /\ {"pc", "tx", "polls", "head", "used", "status"} = DOMAIN runs[r]
        /\ runs = [q \in Runs |-> runs[q]]
    BY RunFields DEF RunsShape
  <1>2. \E at, status, used :
            /\ runs' = [runs EXCEPT ![r].pc = at, ![r].head = Len(chain),
                                    ![r].status = status, ![r].used = used]
            /\ at \in {"resize", "send", "refused"}
    <2>1. /\ \A status : Gate(status) \in {"resize", "send", "refused"}
          /\ \A tx : Blind(tx) \in {"resize", "send", "refused"}
          /\ \A tx : OnInvalid(tx) \in {"resize", "send", "refused"}
          /\ "resize" \in {"resize", "send", "refused"}
      BY DEF Gate, Blind, OnInvalid
    <2>2. CASE runs' = [runs EXCEPT ![r].pc = Blind(runs[r].tx), ![r].head = Len(chain),
                                    ![r].status = "unseen", ![r].used = 0]
      BY <2>1, <2>2, Zenon
    <2>3. CASE runs' = [runs EXCEPT ![r].pc = OnInvalid(runs[r].tx), ![r].head = Len(chain),
                                    ![r].status = "none", ![r].used = 0]
      BY <2>1, <2>3, Zenon
    <2>4. CASE \E need \in GasNeeds : \E status \in Statuses(Executes(runs[r].tx, need)) :
                   runs' = [runs EXCEPT ![r].pc = Gate(status), ![r].head = Len(chain),
                                        ![r].status = status, ![r].used = 0]
      BY <2>1, <2>4, Zenon
    <2>5. CASE \E need \in GasNeeds : \E status \in Statuses(Executes(runs[r].tx, need)) :
                   runs' = [runs EXCEPT ![r].pc = "resize", ![r].head = Len(chain),
                                        ![r].status = status, ![r].used = need]
      BY <2>1, <2>5, Zenon
    <2> QED  BY <2>2, <2>3, <2>4, <2>5, Zenon DEF Simulate
  <1>3. PICK at, status, used :
            /\ runs' = [runs EXCEPT ![r].pc = at, ![r].head = Len(chain),
                                    ![r].status = status, ![r].used = used]
            /\ at \in {"resize", "send", "refused"}
    BY <1>2
  <1>4. runs'[r] = [runs[r] EXCEPT !.pc = at, !.head = Len(chain),
                                   !.status = status, !.used = used]
    BY <1>1, <1>3
  <1>5. runs'[r].pc = at /\ runs'[r].tx = runs[r].tx
    BY <1>1, <1>4
  <1>6. runs[r].pc = "simulate" /\ mempool' = mempool
    BY Zenon DEF Simulate
  <1> QED  BY <1>3, <1>5, <1>6

LEMMA ResizeSays ==
    ASSUME RunsShape, NEW r \in Runs, Resize(r)
    PROVE  /\ runs[r].pc = "resize" /\ mempool' = mempool
           /\ \/ runs'[r].tx = runs[r].tx
              \/ \E gas : runs'[r].tx = [runs[r].tx EXCEPT !.gas = gas]
           /\ runs'[r].pc \in {"send", "refused"}
  <1> DEFINE sized == [runs[r].tx EXCEPT !.gas = Sized(runs[r].used)]
  <1>1. /\ {"pc", "tx", "polls", "head", "used", "status"} = DOMAIN runs[r]
        /\ runs = [q \in Runs |-> runs[q]]
    BY RunFields DEF RunsShape
  <1>2. \E tx, seenAt, status :
            /\ runs' = [runs EXCEPT ![r].pc = Gate(status), ![r].tx = tx,
                                    ![r].head = seenAt, ![r].status = status, ![r].used = 0]
            /\ tx = runs[r].tx \/ tx = sized
    <2>1. CASE runs' = [runs EXCEPT ![r].pc = Gate(runs[r].status), ![r].tx = runs[r].tx,
                                    ![r].head = runs[r].head, ![r].status = runs[r].status,
                                    ![r].used = 0]
      BY <2>1, Zenon
    <2>2. CASE \E need \in GasNeeds : \E status \in Statuses(Executes(sized, need)) :
                   runs' = [runs EXCEPT ![r].pc = Gate(GatedOn(runs[r].status, status)),
                                        ![r].tx = sized, ![r].head = Len(chain),
                                        ![r].status = GatedOn(runs[r].status, status),
                                        ![r].used = 0]
      BY <2>2, Zenon DEF GatedOn
    <2> QED  BY <2>1, <2>2, Zenon DEF Resize
  <1>3. PICK tx, seenAt, status :
            /\ runs' = [runs EXCEPT ![r].pc = Gate(status), ![r].tx = tx,
                                    ![r].head = seenAt, ![r].status = status, ![r].used = 0]
            /\ tx = runs[r].tx \/ tx = sized
    BY <1>2
  <1>4. runs'[r] = [runs[r] EXCEPT !.pc = Gate(status), !.tx = tx, !.head = seenAt,
                                   !.status = status, !.used = 0]
    BY <1>1, <1>3
  <1>5. runs'[r].pc = Gate(status) /\ runs'[r].tx = tx
    BY <1>1, <1>4
  <1>6. Gate(status) \in {"send", "refused"}
    BY DEF Gate
  <1>7. runs[r].pc = "resize" /\ mempool' = mempool
    BY Zenon DEF Resize
  <1> QED  BY <1>3, <1>5, <1>6, <1>7

\* No later step takes another transaction, or changes more than its gas.
LEMMA LaterTx ==
    ASSUME RunsShape, NEW r \in Runs, ClientStep(r) \/ BreakOff(r)
    PROVE  \/ runs'[r].tx = runs[r].tx
           \/ \E gas : runs'[r].tx = [runs[r].tx EXCEPT !.gas = gas] /\ mempool' = mempool
  <1>1. /\ {"pc", "tx", "polls", "head", "used", "status"} = DOMAIN runs[r]
        /\ runs = [q \in Runs |-> runs[q]]
    BY RunFields DEF RunsShape
  <1>3. ASSUME NEW at, runs' = [runs EXCEPT ![r].pc = at]
        PROVE  runs'[r].tx = runs[r].tx
    BY <1>1, <1>3
  <1>5. ASSUME NEW at, NEW polls, runs' = [runs EXCEPT ![r].polls = polls, ![r].pc = at]
        PROVE  runs'[r].tx = runs[r].tx
    <2>1. runs'[r] = [runs[r] EXCEPT !.polls = polls, !.pc = at]
      BY <1>1, <1>5
    <2> QED  BY <1>1, <2>1
  <1>7. CASE Simulate(r)
    BY <1>7, SimulateSays
  <1>8. CASE Resize(r)
    BY <1>8, ResizeSays
  <1>9. CASE Send(r) \/ BreakOff(r)
    BY <1>3, <1>9 DEF Send, BreakOff
  <1>10. CASE Poll(r)
    BY <1>3, <1>5, <1>10 DEF Poll
  <1> QED  BY <1>7, <1>8, <1>9, <1>10 DEF ClientStep

\* A step of one run leaves the chain and the other runs alone.
LEMMA OneRunMoves ==
    ASSUME RunsShape, NEW r \in Runs, ClientStep(r) \/ BreakOff(r)
    PROVE  /\ runs[r].pc # "idle" /\ chain' = chain
           /\ \A q \in Runs : q # r => runs'[q] = runs[q]
  BY DEF ClientStep, Simulate, Resize, Send, Poll, BreakOff, UnderWay, RunsShape

LEMMA NonceNext == NonceIInv /\ [Next]_vars => NonceIInv'
  <1> SUFFICES ASSUME NonceIInv, [Next]_vars PROVE NonceIInv'
    OBVIOUS
  <1>1. SubmissionIInv /\ SubmissionIInv' /\ ChainShape /\ RunsShape
    BY SubmissionNext DEF NonceIInv, SubmissionIInv
  <1>3. ASSUME NEW r \in Runs, NEW fixture \in Fixtures, BeginShield(r, fixture)
        PROVE  NonceIInv'
    <2>1. /\ runs'[r].tx = Build(fixture, Nonce, 0)
          /\ \A q \in Runs : q # r => runs'[q] = runs[q]
      BY <1>1, <1>3, BeginTx DEF BeginShield, ReadNonce
    <2>2. runs'[r].tx.nonce \in 0..Nonce
      BY <2>1, <1>1, NonceIsNat DEF Build
    <2>3. mempool' = mempool /\ chain' = chain
      BY <1>3 DEF BeginShield, Begin
    <2> QED  BY <1>1, <2>1, <2>2, <2>3, NonceRunStep
  <1>4. ASSUME NEW r \in Runs, NEW fixture \in Fixtures, NEW ref, BeginSpend(r, fixture, ref)
        PROVE  NonceIInv'
    <2>1. /\ runs'[r].tx = Build(fixture, 0, ref)
          /\ \A q \in Runs : q # r => runs'[q] = runs[q]
      BY <1>1, <1>4, BeginTx DEF BeginSpend
    <2>2. IsSpend(runs'[r].tx)
      BY <2>1, <1>4 DEF Build, BeginSpend, IsSpend
    <2>3. mempool' = mempool /\ chain' = chain
      BY <1>4 DEF BeginSpend, Begin
    <2> QED  BY <1>1, <2>1, <2>2, <2>3, NonceRunStep
  <1>5. ASSUME NEW r \in Runs, ClientStep(r) \/ BreakOff(r)
        PROVE  NonceIInv'
    <2>1. /\ runs[r].pc # "idle" /\ chain' = chain
          /\ \A q \in Runs : q # r => runs'[q] = runs[q]
      BY <1>1, <1>5, OneRunMoves
    <2>2. /\ runs'[r].tx.nonce = runs[r].tx.nonce
          /\ IsSpend(runs'[r].tx) <=> IsSpend(runs[r].tx)
      <3>1. Built(runs[r].tx)
        BY <1>1, <2>1 DEF SubmissionIInv, AllBuilt
      <3>2. \A gas : LET sized == [runs[r].tx EXCEPT !.gas = gas]
                     IN  sized.nonce = runs[r].tx.nonce /\ sized.fixture = runs[r].tx.fixture
        BY <3>1 DEF Built, TxShape
      <3> QED  BY <1>1, <1>5, <3>2, LaterTx DEF IsSpend
    <2>3. mempool' \subseteq mempool \cup {runs'[r].tx}
      <3>1. mempool' \subseteq mempool \cup {runs[r].tx}
        BY <1>5 DEF ClientStep, Simulate, Resize, Send, Poll, BreakOff
      <3> QED  BY <1>1, <1>5, <3>1, LaterTx
    <2> QED  BY <1>1, <2>1, <2>2, <2>3, NonceRunStep DEF NonceIInv
  <1>6. ASSUME UNCHANGED <<runs, chain>>, mempool' \subseteq mempool
        PROVE  NonceIInv'
    BY <1>1, <1>6 DEF NonceIInv, Nonce
  <1>7. ASSUME NEW tx \in mempool, NEW need \in GasNeeds, Include(tx, need)
        PROVE  NonceIInv'
    <2>1. Nonce \in Nat /\ Nonce' \in Nat /\ Nonce <= Nonce'
      BY <1>1, <1>7, ChainGrows, NonceGrows DEF Include
    <2> QED  BY <1>1, <1>7, <2>1 DEF NonceIInv, Include
  <1>8. CASE (\E tx \in mempool : Evict(tx)) \/ Publish \/ Expire \/ UNCHANGED vars
    BY <1>6, <1>8 DEF Evict, Publish, Expire, vars
  <1> QED  BY <1>3, <1>4, <1>5, <1>7, <1>8 DEF Next

(***************************************************************************)
(* A pending shield never waits for another transaction, however many runs *)
(* read the nonce and whatever the nodes forget (pool_frametx.py:161).     *)
(***************************************************************************)
THEOREM PendingNeverStuckHolds == Spec => []PendingNeverStuck
  <1>1. NonceIInv => PendingNeverStuck
    BY NonceIsNat DEF NonceIInv, SubmissionIInv, PendingNeverStuck
  <1> QED  BY <1>1, NonceInit, NonceNext, PTL DEF Spec

-----------------------------------------------------------------------------
\* A receipt with this verdict exists; some run sent the transaction.
Receipt(tx, verdict) ==
    \E i \in 1..Len(chain) : chain[i].tx = tx /\ Verdict(chain[i].status) = verdict

ReportIInv ==
    /\ SubmissionIInv
    /\ \A r \in Runs :
           runs[r].pc \in {"mined", "reverted"} => Receipt(runs[r].tx, runs[r].pc)
    /\ \A tx \in Included \cup mempool : SentBySome(tx)

LEMMA ReportInit == Init => ReportIInv
  <1> SUFFICES ASSUME Init PROVE ReportIInv
    OBVIOUS
  <1>1. (\A r \in Runs : runs[r].pc = "idle") /\ mempool = {} /\ Included = {}
    BY DEF Init, Included
  <1> QED  BY <1>1, SubmissionInit DEF ReportIInv

\* A step of one run that takes nothing back and reports only what it has read.
LEMMA ReportRunStep ==
    ASSUME ReportIInv, SubmissionIInv', NEW r \in Runs, UNCHANGED chain,
           \A q \in Runs : q # r => runs'[q] = runs[q],
           Sent(r) => Sent(r)' /\ runs'[r].tx = runs[r].tx,
           runs'[r].pc \in {"mined", "reverted"} => Receipt(runs'[r].tx, runs'[r].pc),
           mempool' = mempool \/ (Sent(r)' /\ mempool' \subseteq mempool \cup {runs'[r].tx})
    PROVE  ReportIInv'
  <1>1. /\ Included' = Included
        /\ \A tx, verdict : Receipt(tx, verdict)' <=> Receipt(tx, verdict)
    BY DEF Included, Receipt, Verdict
  <1>2. \A q \in Runs :
            runs'[q].pc \in {"mined", "reverted"} => Receipt(runs'[q].tx, runs'[q].pc)
    BY DEF ReportIInv
  <1>3. \A q \in Runs : Sent(q) => Sent(q)' /\ runs'[q].tx = runs[q].tx
    BY DEF Sent
  <1>4. \A tx : SentBySome(tx) => SentBySome(tx)'
    BY <1>3 DEF SentBySome
  <1>5. ASSUME NEW tx \in Included \cup mempool' PROVE SentBySome(tx)'
    <2>1. CASE tx \in Included \cup mempool
      BY <1>4, <2>1 DEF ReportIInv
    <2>2. CASE tx = runs'[r].tx /\ Sent(r)'
      BY <2>2 DEF SentBySome
    <2> QED  BY <2>1, <2>2
  <1> QED  BY <1>1, <1>2, <1>5 DEF ReportIInv

\* What a step of a run makes of its pc.
LEMMA LaterPc ==
    ASSUME RunsShape, NEW r \in Runs, ClientStep(r) \/ BreakOff(r)
    PROVE  /\ runs[r].pc \in UnderWay
           /\ Sent(r) => Sent(r)' /\ runs'[r].tx = runs[r].tx
           /\ runs'[r].pc \in {"mined", "reverted"} => Receipt(runs'[r].tx, runs'[r].pc)
           /\ mempool' = mempool
                  \/ (Sent(r)' /\ mempool' \subseteq mempool \cup {runs'[r].tx})
  <1>1. /\ "pc" \in DOMAIN runs[r] /\ runs = [q \in Runs |-> runs[q]]
        /\ "tx" \in DOMAIN runs[r]
    BY RunFields DEF RunsShape
  <1>2. CASE Simulate(r) \/ Resize(r)
    <2>1. /\ runs[r].pc \in {"simulate", "resize"} /\ mempool' = mempool
          /\ runs'[r].pc \in {"resize", "send", "refused"}
      BY <1>2, SimulateSays, ResizeSays
    <2> QED  BY <2>1 DEF Sent, UnderWay
  <1>3. CASE Send(r) \/ BreakOff(r)
    <2>1. \E at \in {"poll", "lost", "failed"} :
              /\ runs' = [runs EXCEPT ![r].pc = at]
              /\ at = "failed" => mempool' = mempool /\ ~Sent(r)
      BY <1>3 DEF Send, BreakOff, UnderWay, Sent
    <2>2. /\ runs'[r].pc \in {"poll", "lost", "failed"} /\ runs'[r].tx = runs[r].tx
          /\ runs'[r].pc = "failed" => mempool' = mempool /\ ~Sent(r)
      BY <1>1, <2>1
    <2>3. runs[r].pc \in UnderWay /\ mempool' \subseteq mempool \cup {runs[r].tx}
      BY <1>3 DEF Send, BreakOff, UnderWay
    <2> QED  BY <2>2, <2>3 DEF Sent
  <1>4. CASE Poll(r)
    <2>1. runs[r].pc = "poll" /\ mempool' = mempool /\ chain' = chain
      BY <1>4 DEF Poll
    <2>2. ASSUME NEW i \in 1..Len(chain), chain[i].tx = runs[r].tx,
                 runs' = [runs EXCEPT ![r].pc = Verdict(chain[i].status)]
          PROVE  /\ runs'[r].tx = runs[r].tx /\ runs'[r].pc \in {"mined", "reverted"}
                 /\ Receipt(runs'[r].tx, runs'[r].pc)
      <3>1. runs'[r].pc = Verdict(chain[i].status) /\ runs'[r].tx = runs[r].tx
        BY <1>1, <2>2
      <3> QED  BY <3>1, <2>2 DEF Receipt, Verdict
    <2>3. ASSUME NEW polls, runs' = [runs EXCEPT ![r].polls = polls,
                                ![r].pc = IF polls = Polls THEN "timeout" ELSE "poll"]
          PROVE  runs'[r].tx = runs[r].tx /\ runs'[r].pc \in {"timeout", "poll"}
      <3>1. runs'[r] = [runs[r] EXCEPT !.polls = polls,
                            !.pc = IF polls = Polls THEN "timeout" ELSE "poll"]
        BY <1>1, <2>3
      <3> QED  BY <1>1, <3>1
    <2>4. \/ /\ runs'[r].pc \in {"mined", "reverted"}
             /\ Receipt(runs'[r].tx, runs'[r].pc) /\ runs'[r].tx = runs[r].tx
          \/ runs'[r].pc \in {"timeout", "poll"} /\ runs'[r].tx = runs[r].tx
      BY <1>4, <2>2, <2>3 DEF Poll
    <2> QED  BY <2>1, <2>4 DEF Sent, UnderWay
  <1> QED  BY <1>2, <1>3, <1>4 DEF ClientStep

LEMMA ReportNext == ReportIInv /\ [Next]_vars => ReportIInv'
  <1> SUFFICES ASSUME ReportIInv, [Next]_vars PROVE ReportIInv'
    OBVIOUS
  <1>1. SubmissionIInv /\ SubmissionIInv' /\ ChainShape /\ RunsShape
    BY SubmissionNext DEF ReportIInv, SubmissionIInv
  <1>2. ASSUME NEW r \in Runs, NEW tx, Begin(r, tx)
        PROVE  ReportIInv'
    <2>1. runs[r].pc = "idle" /\ mempool' = mempool /\ chain' = chain
      BY <1>2 DEF Begin
    <2>2. runs'[r].pc = "simulate" /\ \A q \in Runs : q # r => runs'[q] = runs[q]
      <3>1. {"pc", "tx", "polls", "head", "used", "status"} = DOMAIN runs[r]
        BY <1>1, RunFields DEF RunsShape
      <3>2. runs'[r] = [runs[r] EXCEPT !.pc = "simulate", !.tx = tx]
        BY <1>1, <1>2 DEF Begin, RunsShape
      <3> QED  BY <1>1, <1>2, <3>1, <3>2 DEF Begin, RunsShape
    <2> QED  BY <1>1, <2>1, <2>2, ReportRunStep DEF Sent
  <1>3. ASSUME NEW r \in Runs, ClientStep(r) \/ BreakOff(r)
        PROVE  ReportIInv'
    <2>1. chain' = chain /\ \A q \in Runs : q # r => runs'[q] = runs[q]
      BY <1>1, <1>3, OneRunMoves
    <2> QED  BY <1>1, <1>3, <2>1, LaterPc, ReportRunStep
  <1>4. ASSUME UNCHANGED <<runs, chain>>, mempool' \subseteq mempool
        PROVE  ReportIInv'
    BY <1>1, <1>4 DEF ReportIInv, Included, Receipt, SentBySome, Sent
  <1>5. ASSUME NEW tx \in mempool, NEW need \in GasNeeds, Include(tx, need)
        PROVE  ReportIInv'
    <2>1. /\ Len(chain) \in Nat /\ Len(chain') = Len(chain) + 1
          /\ chain'[Len(chain) + 1].tx = tx
          /\ \A i \in 1..Len(chain) : chain'[i] = chain[i]
      BY <1>1, <1>5, ChainGrows DEF Include
    <2>2. runs' = runs /\ mempool' \subseteq mempool
      BY <1>5 DEF Include
    <2>3. \A old, verdict : Receipt(old, verdict) => Receipt(old, verdict)'
      BY <2>1 DEF Receipt, Verdict
    <2>4. Included' \subseteq Included \cup {tx}
      BY <2>1 DEF Included
    <2>5. \A old : SentBySome(old) => SentBySome(old)'
      BY <2>2 DEF SentBySome, Sent
    <2>6. \A old \in (Included \cup mempool)' : SentBySome(old)'
      BY <2>2, <2>4, <2>5 DEF ReportIInv
    <2> QED  BY <1>1, <2>2, <2>3, <2>6 DEF ReportIInv
  <1>6. CASE (\E tx \in mempool : Evict(tx)) \/ Publish \/ Expire \/ UNCHANGED vars
    BY <1>4, <1>6 DEF Evict, Publish, Expire, vars
  <1>7. CASE \E r \in Runs, fixture \in Fixtures :
                 \/ BeginShield(r, fixture)
                 \/ \E ref \in 1..MaxReference : BeginSpend(r, fixture, ref)
    BY <1>2, <1>7 DEF BeginShield, BeginSpend
  <1> QED  BY <1>3, <1>5, <1>6, <1>7 DEF Next

(***************************************************************************)
(* What a run prints is so, however many other runs are under way: "MINED" *)
(* means leaves, a reverted spend is gone for good, and "not sending" means *)
(* that nothing of it was sent (pool_frametx.py:268-301).                  *)
(***************************************************************************)
THEOREM ReportsAreTrueHolds == Spec => []ReportsAreTrue
  <1>1. ReportIInv => ReportsAreTrue
    <2> SUFFICES ASSUME ReportIInv, NEW r \in Runs
                 PROVE  /\ runs[r].pc = "mined" =>
                               /\ runs[r].tx.fixture.outputs \subseteq Leaves
                               /\ runs[r].tx.keys \subseteq Consumed
                        /\ (runs[r].pc = "reverted" /\ IsSpend(runs[r].tx)) =>
                               /\ runs[r].tx.keys \subseteq Consumed
                               /\ \A tx \in Settled : tx.keys \cap runs[r].tx.keys = {}
                        /\ (runs[r].pc = "refused" /\ runs[r].tx \in Included \cup mempool) =>
                               \E other \in Runs : Sent(other) /\ runs[other].tx = runs[r].tx
      BY Zenon DEF ReportsAreTrue
    <2>1. ASSUME runs[r].pc \in {"mined", "reverted"}
          PROVE  \E i \in 1..Len(chain) :
                     /\ chain[i].tx = runs[r].tx
                     /\ chain[i].status = 1 <=> runs[r].pc = "mined"
      <3>1. Receipt(runs[r].tx, runs[r].pc)
        BY <2>1 DEF ReportIInv
      <3> QED  BY <3>1 DEF Receipt, Verdict
    <2>2. \A i \in 1..Len(chain) :
              /\ chain[i].tx.keys \subseteq Consumed
              /\ chain[i].status = 1 => chain[i].tx.fixture.outputs \subseteq Leaves
      BY DEF Consumed, Included, Leaves, Settled
    <2>3. ASSUME NEW i \in 1..Len(chain), chain[i].status # 1, NEW tx \in Settled
          PROVE  tx.keys \cap chain[i].tx.keys = {}
      <3>1. PICK j \in 1..Len(chain) : chain[j].status = 1 /\ chain[j].tx = tx
        BY DEF Settled
      <3> QED  BY <2>3, <3>1 DEF ReportIInv, SubmissionIInv, KeysOnce
    <2>4. (runs[r].pc = "refused" /\ runs[r].tx \in Included \cup mempool) =>
              \E other \in Runs : Sent(other) /\ runs[other].tx = runs[r].tx
      BY DEF ReportIInv, SentBySome
    <2> QED  BY <2>1, <2>2, <2>3, <2>4
  <1> QED  BY <1>1, ReportInit, ReportNext, PTL DEF Spec

-----------------------------------------------------------------------------
(***************************************************************************)
(* Any number of slots and any reorganisations that keep settled blocks.   *)
(* The script may hold a stale receipt, but when its loop ends some        *)
(* settled block has the height of the receipt's block; the wallet's check *)
(* then finds both on one branch, where a height names one block.          *)
(***************************************************************************)
\* The tree of blocks: a branch holds, of each of its blocks, that block's branch,
\* and a block of every height up to its own.
TreeOf(tree, last) ==
    /\ last \in Nat
    /\ tree = [b \in 0..last |-> tree[b]]
    /\ \A b \in 0..last :
           /\ b \in tree[b] /\ tree[b] \subseteq 0..b
           /\ \A c \in tree[b] : tree[c] = tree[b] \cap 0..c
           /\ \A n \in 1..Cardinality(tree[b]) : \E c \in tree[b] : Cardinality(tree[c]) = n

ForkChoice ==
    /\ head \in 0..slot
    /\ settled \subseteq Canonical
    /\ WithTwoSuccessors(Canonical) \subseteq settled

\* Some settled block is as high as the receipt's.
SettledAsHigh == \E c \in settled : Cardinality(branch[c]) = Cardinality(branch[receipt])

ReorgIInv ==
    /\ TreeOf(branch, slot)
    /\ ForkChoice
    /\ receipt \in 0..slot
    /\ pc \in {"block", "written"} => SettledAsHigh
    /\ SignedIsSettled

-----------------------------------------------------------------------------
LEMMA BranchIsFinite ==
    ASSUME NEW b \in Nat, NEW blocks, blocks \subseteq 0..b
    PROVE  IsFiniteSet(blocks) /\ Cardinality(blocks) \in Nat
  <1>1. IsFiniteSet(0..b)
    BY FS_Interval
  <1>2. IsFiniteSet(blocks)
    BY <1>1, FS_Subset
  <1> QED  BY <1>2, FS_CardinalityType

\* A proper part of a branch is lower.
LEMMA ProperIsLower ==
    ASSUME NEW b \in Nat, NEW blocks, blocks \subseteq 0..b,
           NEW part, part \subseteq blocks, part # blocks
    PROVE  Cardinality(part) < Cardinality(blocks)
  <1>1. IsFiniteSet(blocks) /\ Cardinality(blocks) \in Nat
    BY BranchIsFinite
  <1>2. IsFiniteSet(part) /\ Cardinality(part) <= Cardinality(blocks)
    BY <1>1, FS_Subset
  <1>3. Cardinality(part) # Cardinality(blocks)
    BY <1>1, FS_Subset
  <1> QED  BY <1>1, <1>2, <1>3, FS_CardinalityType

\* What the tree says of one block of a branch.
LEMMA BlockOfBranch ==
    ASSUME NEW tree, NEW last, TreeOf(tree, last), NEW b \in 0..last, NEW c \in tree[b]
    PROVE  /\ c \in Nat /\ c \in 0..last /\ tree[b] \subseteq 0..b
           /\ tree[c] = tree[b] \cap 0..c
           /\ c \in tree[c] /\ tree[c] \subseteq 0..c
  <1>1. last \in Nat /\ tree[b] \subseteq 0..b
    BY SMTT(30) DEF TreeOf
  <1>2. c \in Nat /\ c \in 0..last
    BY <1>1, SMTT(30)
  <1>3. tree[c] = tree[b] \cap 0..c
    BY SMTT(30) DEF TreeOf
  <1>4. c \in tree[c] /\ tree[c] \subseteq 0..c
    BY <1>2, <1>3, SMTT(30)
  <1> QED  BY <1>1, <1>2, <1>3, <1>4

\* On one branch a height names one block.
LEMMA HeightNames ==
    ASSUME NEW tree, NEW last, TreeOf(tree, last), NEW b \in 0..last,
           NEW c \in tree[b], NEW d \in tree[b],
           Cardinality(tree[c]) = Cardinality(tree[d])
    PROVE  c = d
  <1>1. ASSUME NEW x \in tree[b], NEW y \in tree[b], x < y
        PROVE  Cardinality(tree[x]) < Cardinality(tree[y])
    <2>1. /\ x \in Nat /\ y \in Nat /\ x \in 0..last /\ y \in 0..last
          /\ tree[x] = tree[b] \cap 0..x /\ tree[y] = tree[b] \cap 0..y
          /\ y \in tree[y] /\ tree[y] \subseteq 0..y
      BY BlockOfBranch
    <2>2. tree[x] \subseteq tree[y] /\ y \notin tree[x]
      BY <1>1, <2>1
    <2> QED  BY <2>1, <2>2, ProperIsLower
  <1>2. c \in Nat /\ d \in Nat
    BY BlockOfBranch
  <1>3. Cardinality(tree[c]) \in Nat
    <2>1. c \in 0..last /\ tree[c] \subseteq 0..c
      BY BlockOfBranch
    <2> QED  BY <1>2, <2>1, BranchIsFinite
  <1>4. ~(c < d) /\ ~(d < c)
    BY <1>1, <1>3
  <1> QED  BY <1>2, <1>4

\* A block two lower than the head has two successors on the head's branch.
LEMMA TwoLower ==
    ASSUME NEW tree, NEW last, TreeOf(tree, last), NEW b \in 0..last, NEW c \in tree[b],
           Cardinality(tree[b]) >= Cardinality(tree[c]) + 2
    PROVE  c \in WithTwoSuccessors(tree[b])
  <1> DEFINE above == {s \in tree[b] : s > c}
  <1>1. /\ b \in Nat /\ c \in Nat /\ tree[b] \subseteq 0..b
        /\ tree[c] = tree[b] \cap 0..c
    BY BlockOfBranch
  <1>2. IsFiniteSet(tree[b]) /\ Cardinality(tree[b]) \in Nat
    BY <1>1, BranchIsFinite
  <1>3. above = tree[b] \ tree[c] /\ tree[b] \cap tree[c] = tree[c]
    BY <1>1
  <1>4. Cardinality(above) = Cardinality(tree[b]) - Cardinality(tree[c])
    BY <1>2, <1>3, FS_Difference
  <1>5. IsFiniteSet(tree[c])
    BY <1>2, <1>3, FS_Subset
  <1>6. Cardinality(tree[c]) \in Nat
    BY <1>5, FS_CardinalityType
  <1>7. Cardinality(above) >= 2
    BY <1>2, <1>4, <1>6
  <1> QED  BY <1>7 DEF WithTwoSuccessors

\* A new block on top of any branch.
LEMMA TreeGrows ==
    ASSUME TreeOf(branch, slot), NEW parent \in 0..slot, NEW s, s = slot + 1,
           NEW tree, tree = WithBlock(s, parent)
    PROVE  /\ TreeOf(tree, s)
           /\ \A b \in 0..slot : tree[b] = branch[b]
           /\ tree[s] = branch[parent] \cup {s}
  <1>1. slot \in Nat /\ DOMAIN branch = 0..slot
    BY DEF TreeOf
  <1>2. 0..s = 0..slot \cup {s} /\ s \in Nat /\ s \notin 0..slot
    BY <1>1
  <1>3. /\ tree = [b \in 0..s |-> tree[b]]
        /\ \A b \in 0..slot : tree[b] = branch[b]
        /\ tree[s] = branch[parent] \cup {s}
    BY <1>1, <1>2 DEF WithBlock, Blocks
  <1>4. branch[parent] \subseteq 0..parent /\ branch[parent] \subseteq 0..slot
    BY <1>1 DEF TreeOf
  <1>5. /\ IsFiniteSet(branch[parent])
        /\ Cardinality(branch[parent]) \in Nat
        /\ Cardinality(tree[s]) = Cardinality(branch[parent]) + 1
    <2>1. IsFiniteSet(branch[parent]) /\ Cardinality(branch[parent]) \in Nat
      BY <1>1, <1>4, BranchIsFinite
    <2>2. s \notin branch[parent]
      BY <1>2, <1>4
    <2> QED  BY <1>3, <2>1, <2>2, FS_AddElement
  <1>6. ASSUME NEW b \in 0..slot
        PROVE  /\ b \in tree[b] /\ tree[b] \subseteq 0..b
               /\ \A c \in tree[b] : tree[c] = tree[b] \cap 0..c
               /\ \A n \in 1..Cardinality(tree[b]) : \E c \in tree[b] : Cardinality(tree[c]) = n
    <2>1. tree[b] = branch[b] /\ branch[b] \subseteq 0..b /\ 0..b \subseteq 0..slot
      BY <1>1, <1>3 DEF TreeOf
    <2>2. \A c \in branch[b] : tree[c] = branch[c]
      BY <1>3, <2>1
    <2>3. ASSUME NEW c \in tree[b] PROVE tree[c] = tree[b] \cap 0..c
      <3>1. c \in branch[b] /\ branch[c] = branch[b] \cap 0..c
        BY <2>1 DEF TreeOf
      <3> QED  BY <2>1, <2>2, <3>1
    <2>4. ASSUME NEW n \in 1..Cardinality(tree[b])
          PROVE  \E c \in tree[b] : Cardinality(tree[c]) = n
      <3>1. PICK c \in branch[b] : Cardinality(branch[c]) = n
        BY <2>1 DEF TreeOf
      <3>2. c \in tree[b] /\ tree[c] = branch[c]
        BY <2>1, <2>2, <3>1
      <3> QED  BY <3>1, <3>2
    <2>5. b \in tree[b]
      BY <2>1 DEF TreeOf
    <2> QED  BY <2>1, <2>3, <2>4, <2>5
  <1>7. /\ s \in tree[s] /\ tree[s] \subseteq 0..s
        /\ \A c \in tree[s] : tree[c] = tree[s] \cap 0..c
        /\ \A n \in 1..Cardinality(tree[s]) : \E c \in tree[s] : Cardinality(tree[c]) = n
    <2>1. s \in tree[s] /\ tree[s] \subseteq 0..s
      BY <1>2, <1>3, <1>4
    <2>2. ASSUME NEW c \in tree[s] PROVE tree[c] = tree[s] \cap 0..c
      <3>1. CASE c = s
        BY <2>1, <3>1
      <3>2. CASE c \in branch[parent]
        <4>1. c \in 0..slot /\ tree[c] = branch[parent] \cap 0..c
          BY <1>3, <1>4, <3>2 DEF TreeOf
        <4>2. s \notin 0..c
          BY <1>1, <4>1
        <4> QED  BY <1>3, <4>1, <4>2
      <3> QED  BY <1>3, <3>1, <3>2
    <2>3. ASSUME NEW n \in 1..Cardinality(tree[s])
          PROVE  \E c \in tree[s] : Cardinality(tree[c]) = n
      <3>1. CASE n = Cardinality(tree[s])
        BY <2>1, <3>1
      <3>2. CASE n \in 1..Cardinality(branch[parent])
        <4>1. PICK c \in branch[parent] : Cardinality(branch[c]) = n
          <5>1. \A m \in 1..Cardinality(branch[parent]) :
                    \E c \in branch[parent] : Cardinality(branch[c]) = m
            BY DEF TreeOf
          <5> QED  BY <3>2, <5>1
        <4>2. c \in 0..slot /\ c \in tree[s] /\ tree[c] = branch[c]
          BY <1>3, <1>4, <4>1
        <4> QED  BY <4>1, <4>2
      <3>3. n \in 1..(Cardinality(branch[parent]) + 1)
        BY <1>5
      <3>4. n = Cardinality(branch[parent]) + 1 \/ n \in 1..Cardinality(branch[parent])
        BY <1>5, <3>3
      <3> QED  BY <1>5, <3>1, <3>2, <3>4
    <2> QED  BY <2>1, <2>2, <2>3
  <1>8. ASSUME NEW b \in 0..s
        PROVE  /\ b \in tree[b] /\ tree[b] \subseteq 0..b
               /\ \A c \in tree[b] : tree[c] = tree[b] \cap 0..c
               /\ \A n \in 1..Cardinality(tree[b]) : \E c \in tree[b] : Cardinality(tree[c]) = n
    <2>1. CASE b \in 0..slot
      BY <1>6, <2>1
    <2>2. CASE b = s
      BY <1>7, <2>2
    <2> QED  BY <1>2, <2>1, <2>2
  <1>9. TreeOf(tree, s)
    BY <1>2, <1>3, <1>8 DEF TreeOf
  <1> QED  BY <1>3, <1>9

-----------------------------------------------------------------------------
LEMMA ReorgInitIInv == ReorgInit => ReorgIInv
  <1> SUFFICES ASSUME ReorgInit PROVE ReorgIInv
    OBVIOUS
  <1>1. /\ branch = [b \in 0..1 |-> branch[b]]
        /\ branch[0] = {0} /\ branch[1] = {0, 1}
    <2>1. 0..1 = {0, 1}
      OBVIOUS
    <2> QED  BY <2>1 DEF ReorgInit
  <1>2. Cardinality({0}) = 1 /\ Cardinality({0, 1}) = 2
    <2>1. Cardinality({0}) = 1 /\ IsFiniteSet({0})
      BY FS_Singleton
    <2>2. {0, 1} = {0} \cup {1} /\ 1 \notin {0}
      OBVIOUS
    <2> QED  BY <2>1, <2>2, FS_AddElement
  <1>3. TreeOf(branch, slot)
    <2>1. slot = 1 /\ 0..1 = {0, 1} /\ 1..1 = {1} /\ 1..2 = {1, 2} /\ 0..0 = {0}
      BY DEF ReorgInit
    <2>2. \A c \in branch[1] : branch[c] = branch[1] \cap 0..c
      BY <1>1, <2>1
    <2>3. \A c \in branch[0] : branch[c] = branch[0] \cap 0..c
      BY <1>1, <2>1
    <2>4. \A n \in 1..Cardinality(branch[1]) : \E c \in branch[1] : Cardinality(branch[c]) = n
      BY <1>1, <1>2, <2>1
    <2>5. \A n \in 1..Cardinality(branch[0]) : \E c \in branch[0] : Cardinality(branch[c]) = n
      BY <1>1, <1>2, <2>1
    <2> QED  BY <1>1, <2>1, <2>2, <2>3, <2>4, <2>5 DEF TreeOf
  <1>4. ForkChoice
    <2>1. Canonical = {0, 1} /\ settled = {0} /\ head = 1 /\ slot = 1
      BY <1>1 DEF Canonical, ReorgInit
    <2>2. {s \in {0, 1} : s > 1} = {}
      OBVIOUS
    <2>3. 1 \notin WithTwoSuccessors({0, 1})
      BY <2>2, FS_EmptySet DEF WithTwoSuccessors
    <2> QED  BY <2>1, <2>3 DEF ForkChoice, WithTwoSuccessors
  <1> QED  BY <1>3, <1>4 DEF ReorgIInv, ReorgInit, SignedIsSettled

\* A step of the chain: branches stay, settled blocks stay settled.
LEMMA ChainStep ==
    ASSUME ReorgIInv, TreeOf(branch', slot'), ForkChoice', UNCHANGED scriptVars,
           slot' >= slot, \A b \in 0..slot : branch'[b] = branch[b],
           settled \subseteq settled', pub \subseteq pub'
    PROVE  ReorgIInv'
  <1>1. slot \in Nat /\ slot' \in Nat /\ 0..slot \subseteq 0..slot'
    BY DEF ReorgIInv, TreeOf
  <1>2. settled \subseteq 0..slot
    <2>1. Canonical \subseteq 0..slot
      BY <1>1 DEF ReorgIInv, ForkChoice, TreeOf, Canonical
    <2> QED  BY <2>1 DEF ReorgIInv, ForkChoice
  <1>3. SettledAsHigh => SettledAsHigh'
    BY <1>2 DEF SettledAsHigh, ReorgIInv, scriptVars
  <1>4. SignedIsSettled'
    BY DEF ReorgIInv, SignedIsSettled, scriptVars
  <1> QED  BY <1>1, <1>3, <1>4 DEF ReorgIInv, scriptVars

LEMMA ReorgNextIInv == ReorgIInv /\ [ReorgNext]_reorgVars => ReorgIInv'
  <1> SUFFICES ASSUME ReorgIInv, [ReorgNext]_reorgVars PROVE ReorgIInv'
    OBVIOUS
  <1>1. TreeOf(branch, slot) /\ ForkChoice /\ slot \in Nat /\ DOMAIN branch = 0..slot
    BY DEF ReorgIInv, TreeOf
  <1>2. ASSUME NEW parent \in Blocks, Viable(parent), slot' = slot + 1,
               branch' = WithBlock(slot', parent),
               pub \subseteq pub', UNCHANGED scriptVars,
               Select(slot') \/ UNCHANGED <<head, settled>>
        PROVE  ReorgIInv'
    <2>1. /\ TreeOf(branch', slot')
          /\ \A b \in 0..slot : branch'[b] = branch[b]
          /\ branch'[slot'] = branch[parent] \cup {slot'}
      BY <1>1, <1>2, TreeGrows DEF Blocks
    <2>2. CASE Select(slot')
      <3>1. head' = slot' /\ settled' = settled \cup WithTwoSuccessors(branch'[slot'])
        BY <2>2 DEF Select
      <3>2. settled \subseteq branch'[slot']
        BY <1>2, <2>1 DEF Viable
      <3>3. WithTwoSuccessors(branch'[slot']) \subseteq branch'[slot']
        BY DEF WithTwoSuccessors
      <3>4. Canonical' = branch'[slot'] /\ slot' \in 0..slot'
        BY <1>1, <1>2, <3>1 DEF Canonical
      <3>5. ForkChoice'
        BY <3>1, <3>2, <3>3, <3>4 DEF ForkChoice, WithTwoSuccessors
      <3>6. slot' >= slot /\ settled \subseteq settled'
        BY <1>1, <1>2, <3>1
      <3> QED  BY <1>2, <2>1, <3>5, <3>6, ChainStep
    <2>3. CASE UNCHANGED <<head, settled>>
      <3>1. Canonical' = Canonical /\ head' \in 0..slot'
        BY <1>1, <1>2, <2>1, <2>3 DEF Canonical, ForkChoice
      <3>2. ForkChoice'
        BY <1>1, <2>3, <3>1 DEF ForkChoice, WithTwoSuccessors
      <3>3. slot' >= slot /\ settled \subseteq settled'
        BY <1>1, <1>2, <2>3
      <3> QED  BY <1>2, <2>1, <3>2, <3>3, ChainStep
    <2> QED  BY <1>2, <2>2, <2>3
  <1>3. ASSUME NEW parent \in Blocks, NEW includes \in BOOLEAN, ProposeEarly(parent, includes)
        PROVE  ReorgIInv'
    <2>1. pub \subseteq pub'
      BY <1>3 DEF ProposeEarly
    <2> QED  BY <1>2, <1>3, <2>1 DEF ProposeEarly
  <1>4. CASE ProposeOnHead
    <2>1. head \in Blocks /\ Viable(head) /\ Canonical = branch[head]
      BY <1>1 DEF Blocks, Viable, ForkChoice, Canonical
    <2>2. pub \subseteq pub' /\ slot' = slot + 1 /\ Select(slot') /\ UNCHANGED scriptVars
      BY <1>4 DEF ProposeOnHead
    <2>3. branch' = WithBlock(slot', head)
      BY <1>4 DEF ProposeOnHead
    <2> QED  BY <1>2, <2>1, <2>2, <2>3
  <1>5. ASSUME NEW b \in Blocks, Reorganise(b)
        PROVE  ReorgIInv'
    <2>1. /\ branch' = branch /\ pub' = pub /\ slot' = slot /\ UNCHANGED scriptVars
          /\ Viable(b) /\ b \in 0..slot
          /\ head' = b /\ settled' = settled \cup WithTwoSuccessors(branch[b])
      BY <1>1, <1>5 DEF Reorganise, Select, Blocks
    <2>2. Canonical' = branch[b] /\ WithTwoSuccessors(branch[b]) \subseteq branch[b]
      BY <2>1 DEF Canonical, WithTwoSuccessors
    <2>3. ForkChoice'
      BY <2>1, <2>2 DEF ForkChoice, Viable, WithTwoSuccessors
    <2> QED  BY <1>1, <2>1, <2>3, ChainStep
  <1>6. ASSUME UNCHANGED chainVars
        PROVE  /\ TreeOf(branch, slot)' /\ ForkChoice'
               /\ Canonical' = Canonical
    <2>1. branch' = branch /\ head' = head /\ settled' = settled /\ slot' = slot
      BY <1>6 DEF chainVars
    <2>2. TreeOf(branch', slot')
      BY <1>1, <2>1
    <2>3. Canonical' = Canonical
      BY <2>1 DEF Canonical
    <2>4. ForkChoice'
      BY <1>1, <2>1, <2>3 DEF ForkChoice, WithTwoSuccessors
    <2> QED  BY <2>2, <2>3, <2>4
  <1>7. CASE ReadReceipt
    <2>1. receipt' \in 0..slot'
      <3>1. Canonical \subseteq 0..slot
        BY <1>1 DEF ForkChoice, Canonical, TreeOf
      <3> QED  BY <1>7, <3>1 DEF ReadReceipt, PublicationBlock, chainVars
    <2> QED  BY <1>6, <1>7, <2>1 DEF ReadReceipt, ReorgIInv, SignedIsSettled
  <1>8. CASE ReadHead
    <2>1. UNCHANGED receipt /\ UNCHANGED chainVars /\ pc' \in {"block", "receipt"}
          /\ (pc' = "block" => Buried(receipt))
      BY <1>8 DEF ReadHead
    <2>2. ASSUME Buried(receipt) PROVE SettledAsHigh
      <3>1. receipt \in 0..slot /\ head \in 0..slot
        BY <1>1 DEF ReorgIInv, ForkChoice
      <3>2. /\ receipt \in branch[receipt] /\ branch[receipt] \subseteq 0..receipt
            /\ branch[head] \subseteq 0..head
        BY <1>1, <3>1 DEF TreeOf
      <3>3. /\ Cardinality(branch[head]) \in Nat /\ Cardinality(branch[receipt]) \in Nat
            /\ IsFiniteSet(branch[receipt])
        BY <3>1, <3>2, BranchIsFinite
      <3>4. Cardinality(branch[receipt]) # 0
        BY <3>2, <3>3, FS_EmptySet
      <3>5. Cardinality(branch[receipt]) \in 1..Cardinality(branch[head])
        BY <2>2, <3>3, <3>4 DEF Buried, Height
      <3>6. PICK c \in branch[head] : Cardinality(branch[c]) = Cardinality(branch[receipt])
        BY <1>1, <3>1, <3>5 DEF TreeOf
      <3>7. c \in WithTwoSuccessors(branch[head])
        BY <1>1, <2>2, <3>1, <3>6, TwoLower DEF Buried, Height
      <3> QED  BY <1>1, <3>6, <3>7 DEF SettledAsHigh, ForkChoice, Canonical
    <2>3. pc' = "block" => SettledAsHigh'
      BY <2>1, <2>2 DEF SettledAsHigh, chainVars
    <2> QED  BY <1>6, <2>1, <2>3 DEF ReorgIInv, SignedIsSettled, chainVars
  <1>9. CASE ReadBlock
    <2>1. UNCHANGED receipt /\ UNCHANGED chainVars /\ pc' \in {"written", "aborted"}
          /\ SettledAsHigh
      BY <1>9 DEF ReadBlock, ReorgIInv
    <2>2. SettledAsHigh'
      BY <2>1 DEF SettledAsHigh, chainVars
    <2> QED  BY <1>6, <2>1, <2>2 DEF ReorgIInv, SignedIsSettled, chainVars
  <1>10. CASE Sign
    <2>1. UNCHANGED receipt /\ UNCHANGED chainVars /\ pc' \in {"signed", "refused"}
          /\ (pc' = "signed" => receipt \in pub \cap Canonical) /\ SettledAsHigh
      BY <1>10 DEF Sign, EntryCommitted, ReorgIInv
    <2>2. ASSUME receipt \in Canonical PROVE receipt \in settled
      <3>1. PICK c \in settled : Cardinality(branch[c]) = Cardinality(branch[receipt])
        BY <2>1 DEF SettledAsHigh
      <3>2. c = receipt
        BY <1>1, <2>2, <3>1, HeightNames DEF ForkChoice, Canonical
      <3> QED  BY <3>1, <3>2
    <2> QED  BY <1>6, <2>1, <2>2 DEF ReorgIInv, SignedIsSettled, chainVars
  <1>11. CASE UNCHANGED reorgVars
    <2>1. UNCHANGED chainVars /\ UNCHANGED scriptVars
      BY <1>11 DEF reorgVars, chainVars, scriptVars
    <2>2. SettledAsHigh => SettledAsHigh'
      BY <2>1 DEF SettledAsHigh, chainVars, scriptVars
    <2> QED  BY <1>6, <2>1, <2>2 DEF ReorgIInv, SignedIsSettled, chainVars, scriptVars
  <1> QED  BY <1>3, <1>4, <1>5, <1>7, <1>8, <1>9, <1>10, <1>11 DEF ReorgNext, Propose, Script

(***************************************************************************)
(* A spend is signed only with a slot whose publication is settled, over   *)
(* any number of slots and however often the publication is moved          *)
(* (run_live_dispatcher.sh:119-129 and the check in recent_root_ref).      *)
(***************************************************************************)
THEOREM SignedIsSettledHolds == ReorgSpec => []SignedIsSettled
  <1>1. ReorgIInv => SignedIsSettled
    BY DEF ReorgIInv
  <1> QED  BY <1>1, ReorgInitIInv, ReorgNextIInv, PTL DEF ReorgSpec
=============================================================================
