# A verification project for minimal-shielded-pool

TLA+ modules that model the shielded pool of this repository, TLC
configurations that check them on small instances, and TLAPS proofs of the
results that matter most for every instance.

A *note* is a commitment `cm = H(inner, value)` in an append-only Merkle tree.
A *spend* proves, in zero knowledge, that two notes are in a tree whose root
was published, and replaces them by two new notes, a public payout and a fee.
What makes the pool hard to get right is that a spend happens at three moments
with anything in between: it is **proved** against a root that is already old,
it is **approved** by a VERIFY frame that consumes its nonce keys and commits
the pool to paying its gas, and it is **settled** by a SENDER frame that may
revert without giving the keys back.

## 1. Inventory

### Components

| component | code | state | operations |
|---|---|---|---|
| settlement contract | `contracts/src/ShieldedPoolLogic.sol` | `filledSubtrees`, `nextIndex`, `currentRoot` (the active tree), `isLeaf`, `withdrawalCredit`, `currentEpoch`, `finalRoot`, the native balance | `shield`, `settle`, `publishEpochRoot`, `claimWithdrawal` |
| dispatcher | `devnet/ShieldedPoolDispatcher.yul` | none of its own (the contract's state lives in its storage) | with 256 bytes of calldata, verify and approve a frame transaction; otherwise delegatecall to the contract |
| spend circuit | `circuits/spend.circom` | none | which witnesses satisfy which ten public signals |
| recent-root predeploy | external (EIP-8272), read by `devnet/pool_frametx.py` | a ring of entries per source | write by the pool, membership check by the protocol |
| frame-transaction protocol | external (EIP-8141, EIP-8250), encoded and priced by `devnet/frametx.py` | nonce keys consumed, mempool, consensus slot | signing, admission, inclusion, payment, refund |
| wallet | `wallet/wallet.py` | note secrets, one-time signers, a full `Tree` | notes, nullifiers, witnesses, authentication paths |
| sending client | `devnet/pool_frametx.py` | none between calls | check the root reference, build, simulate, send, poll |
| indexer, fixtures | `wallet/gen_nonce_race.py`, `wallet/gen_smoke.py` | none between calls; the fixture file is used later, by other programs | rebuild the tree from events, prove, forge witnesses that must fail |
| deployment | `devnet/run_live_dispatcher.sh`, `devnet/dispatcher.py` | none | deploy, shield, publish, wait for the publication to settle |
| verifier, Poseidon | `contracts/src/Groth16Verifier.sol`, `PoseidonT3/T4.sol`, `reference/` | none | cryptography |
| gas profile | `tooling/check_gas_profile.py` | none | bound the gas of a settlement by counts of its storage writes |
| activation gates | `tooling/`, `.github/workflows/ci.yml` | none | compare pinned artefacts and constants |

### How they interact

```
 wallet --proof--> client --simulate at head, submit--> mempool
                                                           | inclusion
   EIP-8272 ring <--write-- publishEpochRoot               v
        |                        ^          frame 0 VERIFY: dispatcher
        +---reference valid?-----|--------->   proof, shape, keys, root, fee
                                 |             approve => keys consumed, pool pays
                     settlement contract <-- frame 1 SENDER: settle(Spend)
                       shield, claimWithdrawal <-- ordinary transactions
```

The contract's code runs by `delegatecall` in the dispatcher's account, so
`address(this)`, the balance and the storage are the dispatcher's. The
dispatcher reads the settlement arguments out of frame 1's calldata and ties
them to the transaction: the two nullifiers are its nonce keys, the root is its
one recent-root reference, the signer is the address the proof chose, the note
debit `fee` covers `max_cost`.

### What makes each part correct

* **Settlement contract.** Each commitment is appended at most once over all
  epochs; places are dense and never shared; the incremental root is the root of
  the whole zero-padded tree at every fill; a closed epoch never changes and
  stays provable; an epoch is closed only for leaves that do not fit.
* **Dispatcher.** What it approves, `settle` accepts. Only the two nullifiers
  are consumed. The pool is never charged more than the note debit.
* **Circuit.** Value is conserved as integers, not only in the field; an input
  without a leaf contributes nothing; positive outputs stay off the sinks.
* **Predeploy.** The ring only ever holds roots the epoch really had.
* **Envelope and price.** Whatever is included is what a wallet signed, and of
  several versions of a spend only one. Admission charges for every frame it
  executes, and the minimum fee is neither too low nor too high.
* **Wallet.** Its tree, built in another way than the contract's, has the same
  root at every fill; its asserts, made in integers, accept exactly what the
  circuit accepts in the field.
* **Client.** What it reports is so; it broadcasts nothing that its simulation
  showed to be doomed, retries included; what fails after it was paid for fails for
  a reason that arose in flight or that the simulation kept to itself; and every
  run ends.
* **Fixtures.** A generator proves notes in the places they are in when its root
  is published, or it refuses; a forged witness fails for the constraint it is
  there to test.
* **Gas profile.** No settlement writes more than the frozen limit was computed
  for.
* **Whole system.** The pool is an atomic ledger: a note is spent at most once,
  nothing is minted or lost, the balance covers every note and credit, and every
  note can leave.

The behaviours that are hard to test, each with its line and the properties that
cover it, are the list `hazards` of `PROJECT.json`.

## 2. Modules

| module | models | extends |
|---|---|---|
| `IncrementalMerkle` | `_insert`, `_computeRoot`, `_zeros`; reference `MerkleRoot`, membership `Opens` | – |
| `RecentRoots` | the EIP-8272 ring and the consensus slot | – |
| `Notes` | commitments, nullifiers, sinks, shared words | – |
| `SpendCircuit` | the constraints of `spend.circom` | Merkle, Notes |
| `Dispatcher` | `verifyProof`, `verifyFrameApprove` | SpendCircuit |
| `ShieldedPoolLogic` | the contract, one action per external function | Merkle, RecentRoots, Notes |
| `ShieldedPoolCalls` | the contract under arbitrary callers; its properties | ShieldedPoolLogic |
| `ShieldedPool` | wallets, client, mempool, inclusion, dispatcher and contract together; system properties | ShieldedPoolLogic, Dispatcher |
| `ValueLedger` | the abstract specification of the pool | – |
| `ClaimCalls` | `claimWithdrawal` with the calls that a paid contract makes | – |
| `PullPayments` | the abstract specification of withdrawals | – |
| `PublicationReorg` | the deployment's publication under reorganisations | – |
| `NoteExit` | the way of one note out of the pool, publication after publication | ShieldedPoolLogic, SpendCircuit |
| `GasProfile` | the bound of `check_gas_profile.py` against the contract's writes | ShieldedPoolCalls |
| `WalletTree` | the class `Tree`: `_levels`, `root`, `auth_path` | Merkle |
| `WalletWitness` | `build_witness` with its asserts | SpendCircuit, WalletTree |
| `WitnessAgreement` | those asserts against the circuit, over a whole field | WalletWitness |
| `SmokeFixture` | `gen_smoke.py`: two spends and seven forged witnesses | WalletWitness |
| `SeededTree` | `gen_nonce_race.py` reading a live pool, and what becomes of its fixture | ShieldedPoolLogic, SpendCircuit, WalletTree |
| `MatchaFee` | the pricing of public-mempool admission | – |
| `FrameTxGas` | the gas formulas of `FrameTx` | MatchaFee |
| `Envelope` | what a signature covers, and altered transactions | Dispatcher |
| `Submission` | runs of the sending client and the chain that moves meanwhile | – |
| `MCPoolCalls`, `MCShieldedPool`, `MCSeededTree`, `MCEnvelope`, `MCSideBySide`, `MCSubmission`, `MCWallet`, `MCNoteExit` | model values and bounds for TLC | |
| `ShieldedPoolLogicProofs` | lemmas about the tree and the contract's storage, for the next two and `WalletProofs` | ShieldedPoolLogic |
| `ShieldedPoolCallsProofs` | theorems about the contract under arbitrary callers, and its gas profile | GasProfile, ShieldedPoolLogicProofs |
| `ShieldedPoolProofs` | theorems about circuit, dispatcher and the whole system | ShieldedPool, ShieldedPoolLogicProofs, SumTheorems |
| `ClaimCallsProofs` | theorems about reentrant claims | ClaimCalls, SumTheorems |
| `FrameTxProofs` | theorems about envelopes, gas and price | Envelope, FrameTxGas, SumTheorems |
| `DevnetProofs` | theorems about the client's runs and the deployment's publication | Submission, PublicationReorg |
| `WalletProofs` | theorems about the wallet's tree and witnesses, and both generators | SeededTree, WitnessAgreement, SmokeFixture, ShieldedPoolLogicProofs |
| `SumTheorems` | lemmas about totals of functions over finite sets | – |

`ShieldedPool` composes contract, circuit, dispatcher, predeploy, wallets and
mempool. The other modules that contain the contract (`ShieldedPoolCalls`,
`SeededTree`, `NoteExit`) extend the same `ShieldedPoolLogic`, each with the
actors its question is about. `MCSideBySide` and `MCWallet` put modules without
common state side by side (`Envelope`, `FrameTxGas` and `ClaimCalls`;
`WitnessAgreement` and `SmokeFixture`): a behaviour explores one of them and
leaves the others in their initial state.

### Correspondence with the code

* **Hashes.** Poseidon and Keccak are collision resistant by assumption, so a
  digest is the record of what it digests. Equality of digests is equality of
  preimages; `Zero` (`bytes32(0)`), the reserved inners and the words not below
  the field order are model values that no digest equals.
* **Proofs.** Groth16 is sound by assumption: a proof *is* a witness and the
  verifier accepts it exactly when `CircuitAccepts` holds. Malformed proof words
  are the model value `NotAProof`.
* **The tree.** `InsertLeaf` finds the first zero bit of the index, where the
  loop of `_insert` stops, and changes just that entry of `filledSubtrees`.
  Entries are never cleared within an epoch, so stale ones are in the model as
  they are in storage.
* **Reverts.** A call that reverts changes nothing, so it is the step an action
  does not take. For `settle` it matters that it reverts, since the approval
  before it stands: `SettleAccepts` is both its guard and, negated, the guard of
  the burning disjunct of `IncludeSpend`.
* **Frame transactions.** A transaction is a record of the fields of `FrameTx`.
  `IncludeSpend` is the block executing both frames: the keys are consumed and
  the pool pays some cost between 0 and `max_cost` whichever way frame 1 ends.
  Gas is abstracted to that nondeterministic cost, and to the fact that a
  SENDER frame with less than `SETTLE_FRAME_GAS` may run out.
* **Wallets.** All wallets together are one: it knows every note, spends any of
  them in any pair, pays any known inner, and uses the command-line overrides
  `--nonce-keys`, `--settle-gas` and `--max-fee-per-gas`. It submits only what
  simulates as valid, and without a reported revert, as `build_and_send` does;
  `StatusMissing` says whether the node may leave the status of the SENDER frame
  out, which the client takes for a good one. `ReuseInners` says whether an
  inner may be paid to that was paid to before: the code recommends fresh ones
  (`new_note`) and nothing enforces it.
* **Calls within calls.** `ShieldedPoolLogic` takes a claim as one step.
  `ClaimCalls` opens it: paying a contract pushes a frame with the state before
  the claim, the contract may claim for anyone or deposit while it runs, and
  when it fails its frame's state comes back. `settle` is not among what it may
  call: its caller must be the pool. The contract's state is the part that
  claims touch: credits, balance, the value of all notes.
* **Reorganisations.** In `PublicationReorg` a block is named by its slot, and
  fork choice moves freely among the branches that contain every *settled*
  block, one that has had two successors. The script's three reads (receipt,
  head, block by hash) are three steps, and the wallet's check a fourth.
* **The wallet's tree.** `TreeLevels` is the list of lists of `Tree._levels`,
  padded level by level, and `AuthPath` reads siblings and bits out of it, so
  that its agreement with `filledSubtrees` is a fact about two algorithms.
* **The generator's reads.** `SeededTree` makes the three `eth_` calls of
  `seeded_tree` three steps, each at the head of its moment; deposits, transfers,
  rollovers and publications come between any two, and between the generator
  and the deposits that its fixture presupposes.
* **The client's calls.** In `Submission` every RPC call of `build_and_send` is
  a step: the nonce, the simulation, the second one that resizes a deposit's
  frame, the submission and each poll. A call may raise, the process may be
  stopped, an endpoint may take a transaction and lose its reply, nodes may
  forget it, and the operator may run the client again with the same fixture.
  The chain is the sequence of included transactions with their status; it is
  not reorganised there. A simulation may be unavailable, invalid, or valid with
  a status that is "success", a revert or missing; a run keeps the head and the
  status of the one that its send is gated on. The pool's state is its set of
  leaves and of consumed keys, which is what can make a simulated transaction
  fail; `ShieldedPool` has the rest.
* **Signatures and data.** In `Envelope` a signature is the pair of its key and
  the hash it is over, and the hash is the record of the fields that `sig_hash`
  encodes. In `FrameTxGas` a data field is its numbers of zero and of nonzero
  bytes, for nothing else of it is priced.
* **Slots without end.** Only the distance of slots and their place in the ring
  matter to an exit. `NoteExit` counts them anew from `RING_LENGTH` less once
  `MaxSlot` is reached, so that expiry and publication go on for ever in finitely
  many states. An entry that no longer fits the new count has expired before.
* **Storage writes.** `GasProfile` reads the writes of a settlement off the step:
  how often each variable of the contract is assigned by the code, and which
  slots hold a value after it that held none before.
* **Widths.** `uint32 nextIndex` is at most `CAPACITY = 2^20` and `uint64
  currentEpoch` would need 2^64 rollovers, so both are plain naturals;
  amounts are below `MAX_VALUE`, and the field arithmetic of the circuit keeps
  its modulus (`FieldOrder`).

## 3. Runs

| run | module, config | question | distinct states |
|---|---|---|---|
| `calls` | `MCPoolCalls` | does the contract keep its promises whoever calls it with whatever, over three epochs of four leaves with carries and stale subtrees, and a ring of two entries that wraps? Does a settlement stay within the writes its gas was computed from? | 139 k |
| `system_fresh` | `MCShieldedPool`, `_Fresh` | with every inner paid to once, is the pool an atomic, solvent ledger that never burns a note? | 115 k |
| `system_reuse` | `MCShieldedPool`, `_Reuse` | with inners paid to again, is a duplicate output the only way to burn notes, and is the pool still solvent? | 126 k |
| `settlement_burn` | `MCShieldedPool`, `_Burn` | is settlement total, as `SECURITY.md` requires? **No**: see the findings below | violated |
| `publication_wait` | `PublicationReorg`, `_Wait` | is a spend signed only with a slot that no reorganisation can move any more, and does the wait end? | 162 k |
| `publication_stale` | `PublicationReorg`, `_Stale` | is the slot that the script writes down settled, as its comment means it to be? **No** | violated |
| `seeded_tree` | `MCSeededTree` | is the tree that the generator rebuilds over three calls the active one, are its notes where it proved them whenever its root is published, and do its two transfers leave each other admissible? | 259 k |
| `side_by_side` | `MCSideBySide` | is what a block includes what a wallet signed, whatever is done to a signed transaction? Is admission charged for the frames it executes, at the least sufficient fee? Is every credit paid once and the pool always backed when recipients call back and fail, and may a claim be taken as one step? | 42 k |
| `submission` | `MCSubmission` | with two runs of the client at once, broken off, timed out and repeated: are the reports true, is nothing doomed broadcast, why may something fail, does every run end? | 931 k |
| `sent_without_status` | `MCSubmission`, `_Status` | has whoever sends a spend seen its SENDER frame succeed, as `REVIEW.md` says? **No** | violated |
| `wallet` | `MCWallet` | do the wallet's asserts and the circuit accept the same spends, and does each forged witness test its constraint and no other? | 4 k |
| `note_exit` | `MCNoteExit` | is a note paid out in the end, whatever others do? | 210 k |

### Bounds and why they are enough

* `DEPTH` 2 in `calls`, `seeded_tree` and `wallet`: carries over two levels, a
  left subtree that is stale, a sibling that is an inner node and one that is an
  empty leaf. The system and exit runs take depth 1, where every second insertion
  fills a tree: rollover, a full tree and "one place left for two outputs" happen
  within a few steps.
* Three epochs in `calls` (`MaxEpoch` 2): a closed epoch, the one after it, and the
  active one, with seven created notes besides the one that is deposited, the
  least with which a third epoch opens. The other runs use two.
* `RING_LENGTH` 2 with slots 0..2: publication, use one slot later, expiry, and
  overwriting by the wrapped slot all occur.
* `MAX_VALUE` 3 or 4: a deposit of `MAX_VALUE` itself is offered, and rejected.
  `FieldOrder` 17 is just above four amounts, as `FieldAssumption` demands.
* Two one-time signers: two spends may be pending together, which is what a
  double spend, an inclusion out of order and a duplicate output need.
* Up to four inners: two deposits and the outputs of a spend; the two of
  `system_reuse` make duplicates common.
* In the settlements offered to `calls` every combination of two outputs among a
  deposited note, fresh notes and sinks occurs, and one defect of each kind. Fresh
  notes are numbered and used by their numbers (`InOrder`), which stands for
  their symmetry.
* `BoundedCredit`, `EpochsOrSlots` (not the last epoch in the last slot) and
  `WithinEpochs` only cut the state space.
* `side_by_side`, claims: two contracts, an account without code and the pool itself;
  three payouts nested, so that a contract is in the stack twice with the other
  one between; `Funds` and `MaxCredited` 3, so that every account is credited
  more than once.
* `publication_wait`: five slots of competing branches, enough for a branch of
  two blocks to be replaced by one of three while the publication moves or is
  dropped, then four calm slots, enough to include it again and bury it.
* `seeded_tree`: five notes of others beside the generator's two, so that there
  are leaves before its reads, between them and after them, with a rollover at any
  of these moments.
* `side_by_side`, transactions: two wallet keys, each with a note, and drafts that differ in fee and
  keys, so that there are two versions of a spend and parts of another one to
  combine with; every field altered. Frames of every mode and flag, two sizes
  (one where execution gas prevails, one where the data's floor price does), in
  every sequence of up to three. The golden vector of `frametx.py` is an `ASSUME`.
* `submission`: two runs are what a race needs, and all that two have sent may
  still be pending; the spends share a dummy or an output, the deposit makes an
  output of theirs a leaf, any run may be given the same fixture again, and two
  references expire in turn. Two polls stand for thirty: one that finds nothing and
  the last one. Gas is needed in two amounts, of which the resized frame covers one.
  Its four safety properties are proved for any number of runs and fixtures.
* `StatusMissing` is true in `system_fresh` and `system_reuse`, so that they do not
  rest on the client's gate, and false in `settlement_burn`: settlement burns
  although the simulation was seen to succeed.
* `wallet`: `FieldOrder` 37 is just above four amounts of at most 8, and amounts are
  offered from the rest of the field (36 is -1), so that sums wrap: the only thing
  in the way is the range checks. Three leaves in a tree of four.
* `note_exit`: with a ring of two, a publication serves exactly one slot, the
  tightest case; two epochs of two leaves, which others may fill, so that the note
  is in an active, a full or a closed tree.

Inners, signers and fresh notes are symmetric: the specifications use them only
through equality, so symmetry reduction is sound for safety properties; no run
with a liveness property uses it. `CHECK_DEADLOCK FALSE` is set everywhere because
bounded slots, epochs, signers and inners run out, and a script, a client or a
claim ends, at which point the model stops.

### Fairness

Three runs check liveness; all other properties are invariants, action properties
and refinements of safety specifications, and need no fairness.

* `ScriptEnds` assumes weak fairness of `Propose`, validators keep producing
  blocks, and of `Script`, a sequential program is not stopped for ever. Nothing is
  assumed of `Reorganise`; instead, reorganisations end at `StableFrom`, without
  which a script that waits for two successors need not end.
* `RunsEnd` assumes weak fairness of a run's own steps and nothing else: every HTTP
  call of the client has a timeout, so each of its steps happens or raises. Blocks
  need not include anything.
* `NoteExits` assumes that slots pass (`NextBlock`), that somebody publishes each
  epoch again and again and somebody claims (anyone may do both, so the owner
  may): weak fairness, for these are always possible. `Sign` and `Include` are
  possible only while a publication lasts, so weak fairness would promise nothing:
  strong fairness says that the owner signs again each time it has become possible
  often enough, and that blocks do not leave out for ever an exit they could
  include over and over. Others' deposits are not fair, and not limited except by
  the bounds.

### What the runs show

* `LeafDiscipline`, `RootsMatchEvents`, `RollOnlyForLeaves`,
  `ClosedEpochsFixed`: the tree is right at every fill and across rollovers for
  callers that satisfy *none* of the dispatcher's checks; only `msg.sender` is
  relied on.
* `RingAuthentic`: every entry of the predeploy is a root its epoch had, and
  later entries commit to no fewer leaves, also after overwriting.
* `NotesProvable`: every leaf opens in the authenticated root of its epoch for
  ever, with a value the circuit can prove.
* `LedgerRefined`: at the level of notes, credits and fees, the five-step life
  of a spend is one atomic `Spend` of `ValueLedger`, when inners are fresh.
* `PendingStaysValid`: between simulation and inclusion, only a consumed key or
  an expired reference can invalidate a pending transaction. In particular the
  balance never falls below what a pending spend needs.
* `Solvent`: the balance covers unspent notes and credits, gas included, even
  when settlements revert.

* `PaidOnce`, `Backed`: at any depth of nested payouts, and whichever of them
  fail, what an account may still claim and what it was paid add up to its
  credits, and the balance is the value of all notes and credits. A credit of
  the pool itself stays for ever, and stays backed.
* `ClaimsAreSteps`: seen between transactions, claims are the single steps that
  `ShieldedPoolLogic` and `ShieldedPool` take them for.
* `SignedIsSettled`: neither the wait nor the wallet's check is enough alone
  (with either weakened, it fails); together they are, although the receipt may
  be stale and the storage is read at a head that may be undone.
* `WalletTreeAgrees`, `NextDepositsReachRoot`, `SeededIsActive`: a generator that
  reads a moving pool in three calls either returns the active tree or fails with
  an error for which there is a cause (the pool gained leaves in between, the tree
  has no room for two more, or the payee's 60% of a note rounds to nothing); its
  root is the pool's once its deposits are the next ones.
* `CommittedFixtureSpendable`: if the client's check finds the fixture's root among
  the committed ones, both notes are in the places that the proofs are for, whatever
  came between the generator and the deposits. (Whether a transfer has been settled
  already is another question.) `TransfersIndependent`: the first transfer may fill the tree
  or close the epoch, and the second stays admissible.
* `IncludedAsSigned`, `OneVersionIncluded`: between wallet and block only the
  bytes of the signature can change, and a spend signed twice, with other fees or
  overridden keys, is included once.
* `PrefixIsAllVerify`, `AdmissionIsPaidFor`: the validation prefix that admission
  recognises is exactly the frames it executes before payment, and neither
  admission nor validation ever costs more than the transaction pays.
* `MinFeeIsLeast`, `PricedIsAffordable`: rounding up gives the least fee that
  satisfies the inequality, and there is room for it under the fee cap.
* `ReportsAreTrue`: what the client prints stays so, whoever retries what.
* `DoomedInFlight`: whoever repeats a run, gives one seed's fixtures a common dummy,
  or reads the same nonce twice: what excludes a pending transaction came after the
  head of its simulation. Only a deposit may have been sent without one.
* `FailedInFlight`: the simulation is the client's only defence against the burn
  of the finding below, and it leaves exactly two ways to it: the window between its
  head and inclusion, and a status that was not reported. A spend never fails for
  its gas. A deposit that is resized is gated on the second simulation; with the
  first one's result instead, the property fails. `PendingNeverStuck`: reading the
  nonce at "latest" may waste a deposit but never blocks one.
* `AssertsAreTheCircuit`: integer asserts and field constraints agree on amounts
  of the whole field. `FixtureSettles`, `ForgeriesTestOneConstraint`: the two
  spends meet the pool's successive roots, with disjoint keys and outputs that are no
  leaves yet, for all amounts that the generator does not refuse, and each forged
  witness breaks its constraint and satisfies the others.
* `SettlesWithinProfile`: the counts 33 and 5 of the gas profile are never
  exceeded, because a settlement that rolls an epoch finds its subtree slots
  occupied. It needs `noRealInput`: a settlement of dummies alone, before any
  deposit, would make more slots.
* `NoteExits`: an exit without outputs goes through from active, full and closed
  trees, however many publications expire first.

### Finding: settlement is not total

`SECURITY.md:34-36` says safety requires settlement to be total for every
admitted transaction, and the record of 2026-08-07 under `devnet/vectors` says
that the pool "makes duplicate output insertion a no-op". The code reverts
instead (`ShieldedPoolLogic.sol:129-131`). A payer chooses the value and a
recipient reveals only `inner`, so paying one inner the same value twice, by a
deposit or another spend, after the first payment was simulated and before it is
included, makes it revert after approval: its input notes are gone and
its outputs do not exist. `settlement_burn` is the counterexample. The theorem
`BurnsOnlyDuplicatesHolds` says that nothing else can cause this, and
`system_fresh` that it does not happen when no inner is paid to twice.

### Finding: the receipt is not read again after the wait

The comment at `run_live_dispatcher.sh:119-121` says to wait for two successors
and *then* to read the receipt again. The loop reads the receipt first, then the
head, and ends with that receipt (lines 123-129). If the publication moves to
another block between the two reads and the new branch is two blocks higher, the
script writes down the slot of a block that is no longer canonical.
`publication_stale` is the counterexample. The consequence is a refused spend,
not a wrong one: the wallet's check before signing catches it, as
`publication_wait` shows.

### Finding: a spend is sent although its simulation reports no status

`devnet/REVIEW.md:594-595` says that the client refuses to send when the
simulation's `executionStatus` is not `success`, and `:1055-1056` that spends
"hard-refuse to send without a successful simulation". The gate at
`pool_frametx.py:279` refuses only if the field is there and says something else:
after a valid simulation in which it is null or absent, the spend is sent. The
client reckons with null fields (`:238-239`, for `gasUsed`). `sent_without_status`
is the counterexample, and the second disjunct of `FailedInFlight` what may follow.

## 4. Proofs

Every invariant and action property of the runs that pass is stated by a theorem,
for every value of the constants that satisfies the named assumptions: any depth
of the tree, ring length, number of epochs, wallets, callers, settlements, runs,
amounts and field order.

### What is assumed

Of the constants, in the modules that declare them, and evaluated by TLC on the
runs: `ShapeAssumption` and `CapacityAssumption` (the capacity is two to the depth),
`EpochAssumption`, `RingAssumption`, `ValueAssumption`, `SinkAssumption`,
`FieldAssumption` (the field order exceeds four amounts: 2^130 against BN254's
2^253), `CallsAssumption`, `PoolAssumption` and `ClaimsAssumption` (finitely many
accounts, amounts are naturals, `NoAddress` is nobody), `HashAssumption`,
`SubmissionAssumption`, `SlotsAssumption`, `DraftAssumption` (a wallet signs the
publics it proved), `GasAssumption`, `PriceAssumption`, `SeededAssumption`,
`NamesAssumption`, `WitnessAssumption`, `SmokeAssumption` (fresh inners are not the
reserved ones; no address is `NoAddress`).

As hypotheses of single theorems, where they are needed:

* `NothingHashesToZero` (`NotesProvableHolds`, the theorems on witnesses and on
  `gen_smoke`): no pair of nodes has the digest `bytes32(0)`, the empty leaf. A way
  down could otherwise end above the leaves. `NothingDigestsToZero`
  (`CommittedFixtureSpendableHolds`, `SeededIsActiveHolds`) adds that no commitment
  is the empty leaf, and `NothingWrittenIsZero` (the gas profile) that no output is.
  For a real hash these are part of collision resistance: a preimage of zero is
  not known. In the runs `Zero` is a model value, which no record equals.
* `ReuseInners = FALSE` (`SettlementTotalHolds`, `LedgerRefinedHolds`): without it
  both are false, which is the first finding.
* `DEPTH >= 2` (`SettlesWithinProfileHolds`): with a tree of one level a settlement
  that rolls the epoch finds no subtree slot to reuse but one, and could make a
  sixth slot. The deployed depth is 20.

### The tree and the contract

`ShieldedPoolLogicProofs` is about any module that calls the contract.
`IncrementalMerkle` computes with recursive functions; a function defined by
recursion is a choice, so the equation it satisfies has to be proved: for every
depth such a function exists (`ZerosExists`, `CarriedExists`, `PaddedExists`,
`WayDownExists`), by induction over the numbers as a set (`SetInduction`).

* *Roots are right.* `SubtreesWait` is the invariant of the incremental tree: when n
  leaves are in, storage holds at each one bit of n the node of the complete tree
  that is left of the next leaf's path. Inserting is counting: the trailing ones of n
  are carried into its first zero (`CarryOn`, `InsertKeepsSubtrees`), and
  `_computeRoot` meets at every level a waiting subtree or an empty one
  (`ComputedRootIsComplete`; a full tree is its special case). `TreeBuilt` says this
  of the active tree, whose leaves are the events of its epoch in order, and of
  the final roots of the closed ones. It gives `RootsMatchEventsHolds`.
* *Roots open to nothing else.* A root is clean if every way down ends at an inserted
  commitment or an empty leaf (`CleanRootOpensToLeaves`), and stays so for any index.
  `WayDownEndsAtLeaf` is the converse, so rows with equal roots are equal
  (`RootOpensRow`).
* *Leaf discipline* (`LogicTypeInvariant`, `LeafDisciplineHolds`,
  `ClosedEpochsStayFixed`, `RollOnlyForLeavesHolds`). The inductive invariant
  `LogicIInv` joins types and discipline. `AppendLeavesEffect` reduces the two cases
  (roll or not) of the one operator that changes the tree to an epoch, a start and a
  count; that start plus count stays within the tree is where `_ensureCapacity`
  enters. `AppendedLeavesCounted` adds that a call appends as many leaves as it has
  commitments, which makes a roll without a leaf impossible.
* *The ring* (`RingAuthenticHolds`). `RingBuilt` says of each entry that it is the root
  of a prefix of its epoch's leaves (`WholePrefix`: the prefix of a closed epoch is all
  of it), and that entries written later have prefixes no shorter. Appending keeps
  prefixes, and publishing adds the longest.
* *The gas profile* (`SettlesWithinProfileHolds`). Which slots are new depends on what
  earlier settlements left: `LowestFilled` says that the two lowest subtree slots,
  once filled in an epoch, are never emptied. An epoch is closed only when nearly
  full, so at a rollover both are filled, and the one or two insertions after it
  write exactly these two. Without a rollover, of two insertions one is at an even index
  and writes the lowest slot, which is filled already, so that at most one subtree
  slot is made. That a proof needs
  a deposited note (`SpendsValue`) is what excludes the first settlement ever.

### The whole system

`ShieldedPoolProofs`, from the circuit up:

* `ValueConserved`: each side of the field equation is below the field order, so it
  equals its residue.
* `BurnsOnlyDuplicatesHolds`. `ApprovedIsWellFormed`: dispatcher and circuit imply the
  checks of `settle` that depend on its arguments only. The epoch check depends on the
  state at the time of settlement; the invariant `PublishedEpochs`, that only epochs
  already open hold an entry, together with the validity of the reference gives it.
* `SolventHolds`, `TypeOKHolds`. `NotesIInv` says that all roots are clean of anything
  but notes the wallets know (`CleanRoots`, `LeavesAreNotes`), that what is pending
  was built by a wallet or overrides one of the named fields (`MempoolIsMade`), and
  that every consumed key is the nullifier of a note that was a leaf
  (`KeysAreSpent`). An included spend therefore takes two notes that were unspent out
  of the total (`InputsAreLeaves`, `ChargedSpends`), and `Money` keeps: the balance
  covers the total of unspent notes and credits. The totals are folds over sets;
  `SumTheorems` proves what is needed of them by counting units, for no induction
  over folds is at hand: the total of f is the number of pairs of an element x and a
  unit in 1..f[x].
* `PendingStaysValidHolds`. The balance covers what a pending spend still has to be
  paid, by `Money`; and in the ring, slots less than its length apart have different
  places (`ApartInTheRing`), so that a reference that has not expired is there.
* `SettlementTotalHolds`. `FreshIInv`: with fresh inners, the outputs of a pending
  spend are in use by it alone, so none becomes a leaf before it is included, and
  by `BurnsOnlyDuplicatesHolds` nothing is burned.
* `LedgerRefinedHolds`. Each action of the pool is mapped to a step of `ValueLedger` or
  to a stutter: deposits, effective spends and claims to its `Deposit`, `Spend` and
  `Withdraw` (`DepositRefines`, `SpendRefines`, `ClaimRefines`), all else leaves notes,
  credits and fees alone (`LedgerStutters`).
* `NotesProvableHolds`: `TreeBuilt` and `NotesIInv` together hold in the composed
  system, and a built tree opens at each of its leaves (`BuiltTreeOpens`).

### Claims

`PaidOnceHolds`, `BackedHolds`, `ClaimsAreStepsHolds` (`ClaimCallsProofs`). A failing
payee puts back the state its call began with, so the invariant `ClaimIInv` says of the
state saved in every frame what the properties say of the current one. Credits are
only added while no payout runs. `WholePayments`, that all these states come from the
outermost by whole payments, is what makes a finished claim with everything nested in it
one step of `PullPayments`.

### The wallet and the generators

`WalletProofs`:

* `WalletTreeAgreesHolds`. Each row of the wallet's tree covers the row of the complete
  tree, and right of it there are only empty subtrees; so its root is the complete
  tree's, as the contract's is, and a path leads to it (`PathLeadsToRoot`).
* `SeededIsActiveHolds`, `NextDepositsReachRootHolds`, `CommittedFixtureSpendableHolds`,
  `TransfersIndependentHolds`. `SeededIInv` says what the generator knows between its
  reads: the events it read are leaves without gaps, none of an epoch later than the
  one it read. If the root it reads last is the root of its tree, the two are the same leaf
  by leaf
  (`RootOpensRow`). The other two theorems follow from the same fact about the
  published root, and from the two transfers having different keys and outputs.
* `AssertsAreTheCircuitHolds`, of `AssertedIsProvable` and `AcceptedIsAsserted`: within
  the ranges both check, the field equation is the equation of integers, and a note
  in its place has a path.
* `ForgeriesTestOneConstraintHolds`, `FixtureSettlesHolds`. For each forged witness one
  lemma computes the set of constraints that it violates, by name
  (`ViolatedIs` reduces that set to its members); whatever violates one has no proof
  (`ViolationRefuses`). `SmokeIInv` says what amounts a generator has let through at
  each stage, and `PoolAfterRoot` that the pool after a fixture's insertions has the
  root of the wallet's tree.

### Transactions

`FrameTxProofs`:

* `IncludedAsSignedHolds`, `OneVersionIncludedHolds`, for any set of transactions that
  may arrive. A signature that the dispatcher accepts is over the hash of the whole
  envelope (`SameEnvelopeSignatures` compares the two signed hashes field by field),
  and a wallet's key has signed only hashes of what it signed. The nonce keys are the
  proof's nullifiers and are consumed at the first inclusion.
* `PrefixIsAllVerifyHolds`, `AdmissionIsPaidForHolds`, `MinFeeIsLeastHolds`,
  `PricedIsAffordableHolds`, for every list of frames. The gas formulas are totals over
  frames, so `SumTheorems` gives their types and that the part of a list costs at most the
  list (`FirstPartsTotal`). A prefix is accepted in two shapes only (`PrefixShapes`).
  The last two are `MinPriorityFeeIsLeast` and `PricedHasRoom`, which hold for all
  charges, loads and prices by the definition of integer division alone, at the
  charges that admittable transactions have (`ChargePositive`).

### The client and the deployment

`DevnetProofs`:

* `DoomedInFlightHolds`, `FailedInFlightHolds`, `PendingNeverStuckHolds`,
  `ReportsAreTrueHolds`, for any number of runs, any fixtures, references and gas.
  The invariant `SubmissionIInv` says of a run that is about to send or has sent
  (`AllSound`): nothing in the chain up to the head of its simulation excludes its
  transaction, and if a status was reported, none of that head's leaves is an output
  of it. A run changes neither transaction nor head once it has sent, and whatever
  is pending was sent by some run (`PendingSent`), so this outlives timeouts and
  break-offs and gives `DoomedInFlight`. A valid prefix at the head says that much
  because nonces on the chain are below the account's (`NoncesUsed`) and keys are
  consumed once (`KeysOnce`); at inclusion it gives `FailedInFlight` for the new
  entry. `RunStep` is the step of one run, `IncludeStep` the one that extends
  the chain. `NonceIInv` adds that no transaction is ahead of the chain's nonce,
  which only grows (`NonceGrows`). `ReportIInv` adds that a verdict was read from
  the chain and that whatever is pending or included was sent by some run.
* `SignedIsSettledHolds`, for any number of slots. When the loop ends, the receipt may
  be of an abandoned block, but the head's branch has a block of the same height with
  two successors, which is settled (`SettledAsHigh`; `TwoLower` counts the
  successors). Every branch that fork choice selects later contains that block. If
  the wallet finds the receipt's block on such a branch, it is that block, for a
  branch has one block of each height (`HeightNames`). `TreeOf` is what the induction
  needs of the tree of blocks.

### Only model-checked

The liveness properties `ScriptEnds`, `RunsEnd` and `NoteExits`: liveness under
fairness is out of the prover's reach. The three findings are TLC's counterexamples.

## 5. Not modelled

* Groth16 verification, Poseidon and the reference generators: cryptography, in
  the assumptions above.
* Calls that bypass the dispatcher (`onlyDelegate` rejects them and the
  implementation's own storage is never used), the 200 000-gas static calls to
  the hash libraries (their failure would revert and, in a spend, burn; their
  code is fixed and checked at deployment), and `LeafAppended.newRoot`.
* The bytes of RLP, of the ABI and of the addresses derived from keys: encodings
  are injective by assumption. The hash values of the golden and binding vectors.
* Argument parsing and `--dry-run` of the client, which change no state, and
  snarkjs, which either proves a witness or fails. `gen_smoke.py`'s first check of
  its overrides (`0 < fee < payment < shield`) is in the model as it is: amounts
  that it lets through and that leave no change fail at a later assert.
* Deployment other than the wait for the publication, `check_activation.py`,
  `patch_verifier.py`, the assembler in `dispatcher.py` and CI: straight-line
  scripts over fixed files. The contract tests were read for the cases they mean.
* Reorganisations, except those of the deployment's publication: `ShieldedPool`
  and `Submission` take the chain they see as final.
* The measured settlement gas that the profile starts from, and the gas schedule
  of future forks: constants.

## 6. Plan

What is left, in order of importance:

1. Reorganisations in `Submission`: a run may have simulated on a branch, or read a
   receipt from one, that is given up.
2. The append loop of `settle` refined to single insertions.
3. Safety theorems of `NoteExit`, whose one property is a liveness property: that
   an exit which is included is paid in full, and that a closed tree serves it.
4. The contract as `SeededTree` sees it (`TransferOther`) and the one of
   `ShieldedPoolCalls` share their lemmas but are two specifications: that every
   behaviour of the first is one of the second.
