------------------------------ MODULE MCEnvelope ------------------------------
\* Drafts and their alterations for checking Envelope with TLC.
EXTENDS Envelope, TLC

CONSTANTS SpendKey, Alice, Other  \* a spending key, a recipient, anybody else's key

\* Each wallet key spends the note of the same name; both notes are leaves.
CONSTANTS k1, k2
MCNote(k) == [spendKey |-> SpendKey, rho |-> k, value |-> 3]
MCRoot == Hash(InputCommitment(MCNote(k1)), InputCommitment(MCNote(k2)))

MCWitness(k) ==
    [inputs |-> <<MCNote(k), [spendKey |-> SpendKey, rho |-> Other, value |-> 0]>>,
     outputs |-> <<[inner |-> Inner(SpendKey, Alice), value |-> 2],
                   [inner |-> SinkInner1, value |-> 0]>>]

MCSpend(k) ==
    LET w == [MCWitness(k) EXCEPT !.inputs[2].rho = <<k>>]
    IN  [root |-> MCRoot, rootSlot |-> 1, epoch |-> 0, domain |-> PoolDomain,
         nf1 |-> InputNullifier(PoolDomain, w.inputs[1]),
         nf2 |-> InputNullifier(PoolDomain, w.inputs[2]),
         outCm1 |-> OutputCommitment(w.outputs[1]), outCm2 |-> OutputCommitment(w.outputs[2]),
         publicAmount |-> 0, fee |-> 1, recipient |-> NoAddress, authorizer |-> k]

MCProof(k) ==
    [inputs |-> [MCWitness(k) EXCEPT !.inputs[2].rho = <<k>>].inputs,
     outputs |-> MCWitness(k).outputs, publics |-> Publics(MCSpend(k)), draw |-> 0]

CanonicalTx(k) ==
    [chainId |-> ChainId, nonceKeys |-> {MCSpend(k).nf1, MCSpend(k).nf2}, nonceSeq |-> 0,
     sender |-> Pool,
     frames |-> <<[mode |-> 1, flags |-> 3, target |-> Pool, gas |-> VERIFY_FRAME_GAS,
                   value |-> 0, data |-> [length |-> 256, proof |-> MCProof(k)]],
                  [mode |-> 2, flags |-> 0, target |-> Pool, gas |-> SETTLE_FRAME_GAS,
                   value |-> 0,
                   data |-> [length |-> 388, selector |-> "settle", spend |-> MCSpend(k)]]>>,
     maxPriority |-> 1, maxCost |-> 1, blobs |-> 0,
     refs |-> <<[source |-> 0, slot |-> 1, root |-> MCRoot]>>]

\* The canonical draft, another fee, another chain, overridden nonce keys.
MCDrafts ==
    UNION {{CanonicalTx(k), [CanonicalTx(k) EXCEPT !.maxPriority = 0],
            [CanonicalTx(k) EXCEPT !.nonceKeys = {k, Other}]} : k \in {k1, k2}}

MCSigned == {Signed(draft) : draft \in MCDrafts}
MCBytes == {tx.signatures[1].bytes : tx \in MCSigned}

\* One field of the header, a frame or the settlement changed.
Altered(tx) ==
    {[tx EXCEPT !.chainId = Other], [tx EXCEPT !.sender = Other], [tx EXCEPT !.nonceSeq = 1],
     [tx EXCEPT !.maxPriority = 2], [tx EXCEPT !.maxCost = 0], [tx EXCEPT !.blobs = 1],
     [tx EXCEPT !.refs = <<>>], [tx EXCEPT !.refs[1].slot = 2], [tx EXCEPT !.refs[1].source = 1]}
    \cup {[tx EXCEPT !.nonceKeys = {MCSpend(k).nf1, other}] :
              k \in {k1, k2}, other \in {Other, MCSpend(k1).nf2, MCSpend(k2).nf2}}
    \cup {[tx EXCEPT !.frames[i].gas = 1] : i \in 1..2}
    \cup {[tx EXCEPT !.frames[i].target = Other] : i \in 1..2}
    \cup {[tx EXCEPT !.frames[1].data.proof = MCProof(k)] : k \in {k1, k2}}
    \cup {[tx EXCEPT !.frames[1].data.proof.draw = 1], [tx EXCEPT !.frames[1].data.proof = NotAProof]}
    \cup {[tx EXCEPT !.frames[2].data.spend = MCSpend(k)] : k \in {k1, k2}}
    \cup {[tx EXCEPT !.frames[2].data.spend.recipient = Other, !.frames[2].data.spend.publicAmount = 1],
          [tx EXCEPT !.frames[2].data.spend.epoch = 1],
          [tx EXCEPT !.frames[2].data.spend.rootSlot = 2],
          [tx EXCEPT !.frames[2].data.spend.authorizer = Other],
          [tx EXCEPT !.frames[2].data.spend.fee = 2]}

\* One field of the signature changed, its message to a hash that was signed.
Resigned(tx) ==
    {[tx EXCEPT !.signatures[1].bytes = bytes] :
              bytes \in MCBytes \cup {[key |-> Other, hash |-> SigHash(tx)]}}
    \cup {[tx EXCEPT !.signatures[1].msg = bytes.hash] : bytes \in MCBytes}
    \cup {[tx EXCEPT !.signatures[1].signer = k] : k \in {k1, k2, Other}}
    \cup {[tx EXCEPT !.signatures[1].scheme = 0]}

MCAltered == MCSigned \cup UNION {Altered(tx) : tx \in MCSigned}

MCTransactions == MCAltered \cup UNION {Resigned(tx) : tx \in MCAltered}
=============================================================================
