------------------------------- MODULE Envelope -------------------------------
(***************************************************************************)
(* One admissible envelope per signed intent.  devnet/frametx.py hashes    *)
(* every field of a frame transaction except the bytes of its signatures;  *)
(* devnet/pool_frametx.py signs that hash with the one-time key the proof  *)
(* names; the dispatcher, whose checks are Approves, demands a signature   *)
(* of that key over that hash.  On the way to a block a transaction may be *)
(* altered: any field may change, parts of different transactions may be   *)
(* combined, proofs may be rerandomized.                                   *)
(*                                                                         *)
(* A signature is the pair of its key and the hash it is over.  A proof is *)
(* a witness together with the public signals it is for and a random draw. *)
(***************************************************************************)
EXTENDS Dispatcher

CONSTANTS
    NoBytes,      \* an elided signature
    ChainId,      \* the chain that includes the transactions
    Drafts,       \* transactions that wallets may sign, without their signature
    Transactions  \* transactions that may arrive at a block builder

VARIABLES
    signed,    \* transactions that wallets signed and broadcast
    consumed,  \* nonce keys consumed
    included   \* transactions that blocks included

envelopeVars == <<signed, consumed, included>>

SpendIn(tx) == tx.frames[2].data.spend
ProofIn(tx) == tx.frames[1].data.proof

\* FrameSig.rlp: the bytes are elided only if the signature is over the envelope.
SignatureRlp(signature, elide) ==
    <<signature.scheme, signature.signer, signature.msg,
      IF elide /\ signature.msg = <<>> THEN NoBytes
      ELSE <<signature.length, signature.bytes>>>>

\* _envelope; max_cost stands for the fee caps that it is computed from.
EnvelopeOf(tx, elide) ==
    <<tx.chainId, tx.nonceKeys, tx.nonceSeq, tx.sender, tx.frames,
      [i \in 1..Len(tx.signatures) |-> SignatureRlp(tx.signatures[i], elide)],
      tx.maxPriority, tx.maxCost, tx.blobs, tx.refs>>

\* sig_hash
SigHash(tx) == EnvelopeOf(tx, TRUE)

FrameSig(signer, length, bytes) ==
    [scheme |-> 1, signer |-> signer, msg |-> <<>>, length |-> length, bytes |-> bytes]

WithSignature(draft, signature) ==
    [chainId |-> draft.chainId, nonceKeys |-> draft.nonceKeys, nonceSeq |-> draft.nonceSeq,
     sender |-> draft.sender, frames |-> draft.frames, signatures |-> <<signature>>,
     maxPriority |-> draft.maxPriority, maxCost |-> draft.maxCost, blobs |-> draft.blobs,
     refs |-> draft.refs]

\* build: the hash is taken of the transaction without the signature, which is
\* then put in its place.
Signed(draft) ==
    LET signer == SpendIn(draft).authorizer
        unsigned == WithSignature(draft, FrameSig(signer, 0, NoBytes))
    IN  WithSignature(draft,
            FrameSig(signer, 65, [key |-> signer, hash |-> SigHash(unsigned)]))

-----------------------------------------------------------------------------
\* The protocol recovers the key from the bytes; an explicit message is what
\* the bytes must be over instead of the envelope.
SignatureValid(tx, signature) ==
    /\ signature.bytes # NoBytes
    /\ signature.bytes.key = signature.signer
    /\ signature.bytes.hash = IF signature.msg = <<>> THEN SigHash(tx) ELSE signature.msg

\* The public signals in the order in which verifyProof passes them on.
Publics(s) ==
    <<s.nf1, s.nf2, s.outCm1, s.outCm2, s.root, s.domain, s.publicAmount, s.fee,
      s.recipient, s.authorizer>>

Includable(tx) ==
    /\ tx.chainId = ChainId
    /\ tx.nonceKeys \cap consumed = {}
    /\ Approves(tx)
    /\ ProofIn(tx).publics = Publics(SpendIn(tx))
    /\ \A i \in 1..Len(tx.signatures) : SignatureValid(tx, tx.signatures[i])

\* gen_smoke.py spend_entry: a fixture's proof is for the public signals of the
\* settlement it is written with.
ASSUME DraftAssumption ==
    \A draft \in Drafts : ProofIn(draft).publics = Publics(SpendIn(draft))

WalletKeys == {SpendIn(draft).authorizer : draft \in Drafts}

\* Nobody else has a wallet's keys or can prove what a wallet proves: such a
\* signature was copied, and such a proof copied or rerandomized.
Composable(tx) ==
    /\ \A i \in 1..Len(tx.signatures) :
           LET bytes == tx.signatures[i].bytes
           IN  (bytes # NoBytes /\ bytes.key \in WalletKeys) =>
                   \E other \in signed : other.signatures[1].bytes = bytes
    /\ ProofIn(tx) # NotAProof =>
           \E other \in signed : ProofIn(other).publics = ProofIn(tx).publics

-----------------------------------------------------------------------------
Init == signed = {} /\ consumed = {} /\ included = {}

Sign(draft) ==
    /\ signed' = signed \cup {Signed(draft)}
    /\ UNCHANGED <<consumed, included>>

Include(tx) ==
    /\ Includable(tx)
    /\ Composable(tx)
    /\ consumed' = consumed \cup tx.nonceKeys
    /\ included' = included \cup {tx}
    /\ UNCHANGED signed

Next ==
    \/ \E draft \in Drafts : Sign(draft)
    \/ \E tx \in Transactions : Include(tx)

Spec == Init /\ [][Next]_envelopeVars

-----------------------------------------------------------------------------
(***************************************************************************)
(* SECURITY.md:31: a copied or rerandomized proof cannot be rewrapped.     *)
(* Whatever is included is what a wallet signed: it differs from a signed  *)
(* transaction in nothing but the bytes of its signature.                  *)
(***************************************************************************)
IncludedAsSigned ==
    \A tx \in included : \E other \in signed : EnvelopeOf(tx, TRUE) = EnvelopeOf(other, TRUE)

(***************************************************************************)
(* A wallet may sign a spend again, with other fees or with the nonce keys *)
(* overridden on the command line: at most one of its versions is ever     *)
(* included.                                                               *)
(***************************************************************************)
OneVersionIncluded ==
    \A tx, other \in included :
        {SpendIn(tx).nf1, SpendIn(tx).nf2} \cap {SpendIn(other).nf1, SpendIn(other).nf2} # {}
            => EnvelopeOf(tx, TRUE) = EnvelopeOf(other, TRUE)
=============================================================================
