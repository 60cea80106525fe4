---------------------------- MODULE FrameTxProofs ----------------------------
(***************************************************************************)
(* The two parts of devnet/frametx.py, for every value of their constants: *)
(* one admissible envelope per signed intent, whatever drafts are signed   *)
(* and whatever transactions arrive, and the gas formulas for every        *)
(* transaction that can be put together.                                   *)
(***************************************************************************)
EXTENDS Envelope, FrameTxGas, SumTheorems, TLAPS

\* Wallets sign drafts; what is included has consumed its nullifiers.
EnvelopeIInv ==
    /\ \A tx \in signed : \E draft \in Drafts : tx = Signed(draft)
    /\ \A tx \in included : {SpendIn(tx).nf1, SpendIn(tx).nf2} \subseteq consumed
    /\ IncludedAsSigned
    /\ OneVersionIncluded

\* frametx.py:76-93: only the rlp of a transaction's one signature enters the
\* envelope.
LEMMA SameEnvelopeSignatures ==
    ASSUME NEW a, NEW b, Len(a) = 1, Len(b) = 1,
           SignatureRlp(a[1], TRUE) = SignatureRlp(b[1], TRUE)
    PROVE  [i \in 1..Len(a) |-> SignatureRlp(a[i], TRUE)]
           = [i \in 1..Len(b) |-> SignatureRlp(b[i], TRUE)]
<1>1. 1..Len(a) = {1} /\ 1..Len(b) = {1}
  OBVIOUS
<1>2. \A i \in {1} : SignatureRlp(a[i], TRUE) = SignatureRlp(b[i], TRUE)
  OBVIOUS
<1> QED
  BY <1>1, <1>2, Zenon

\* frametx.py:64 and :98-99: the hash that was signed before the signature was
\* put in place is the hash of the transaction that carries it.
LEMMA SignedOverItself ==
    ASSUME NEW draft \in Drafts
    PROVE  LET tx == Signed(draft)
           IN  /\ tx.frames = draft.frames
               /\ Len(tx.signatures) = 1
               /\ tx.signatures[1].bytes.hash = EnvelopeOf(tx, TRUE)
<1> DEFINE signer == SpendIn(draft).authorizer
           unsigned == WithSignature(draft, FrameSig(signer, 0, NoBytes))
           tx == Signed(draft)
<1>1. /\ tx.frames = draft.frames
      /\ tx.signatures = <<FrameSig(signer, 65, [key |-> signer, hash |-> SigHash(unsigned)])>>
  BY DEF Signed, WithSignature
<1>2. /\ Len(tx.signatures) = 1
      /\ tx.signatures[1].bytes.hash = SigHash(unsigned)
  BY <1>1 DEF FrameSig
<1>3. /\ SignatureRlp(tx.signatures[1], TRUE) = <<1, signer, <<>>, NoBytes>>
      /\ SignatureRlp(unsigned.signatures[1], TRUE) = <<1, signer, <<>>, NoBytes>>
  BY <1>1 DEF SignatureRlp, FrameSig, WithSignature
<1>4. Len(unsigned.signatures) = 1
  BY DEF WithSignature
<1>5. [i \in 1..Len(tx.signatures) |-> SignatureRlp(tx.signatures[i], TRUE)]
      = [i \in 1..Len(unsigned.signatures) |-> SignatureRlp(unsigned.signatures[i], TRUE)]
  <2>1. /\ Len(tx.signatures) = 1 /\ Len(unsigned.signatures) = 1
        /\ SignatureRlp(tx.signatures[1], TRUE) = SignatureRlp(unsigned.signatures[1], TRUE)
    BY <1>2, <1>3, <1>4
  <2> HIDE DEF tx, unsigned
  <2> QED
    BY <2>1, SameEnvelopeSignatures
<1>6. /\ tx.chainId = unsigned.chainId /\ tx.nonceKeys = unsigned.nonceKeys
      /\ tx.nonceSeq = unsigned.nonceSeq /\ tx.sender = unsigned.sender
      /\ tx.frames = unsigned.frames /\ tx.maxPriority = unsigned.maxPriority
      /\ tx.maxCost = unsigned.maxCost /\ tx.blobs = unsigned.blobs /\ tx.refs = unsigned.refs
  BY DEF Signed, WithSignature
<1>7. EnvelopeOf(tx, TRUE) = EnvelopeOf(unsigned, TRUE)
  BY <1>5, <1>6 DEF EnvelopeOf
<1> QED
  BY <1>1, <1>2, <1>7 DEF SigHash

\* The signature of an includable transaction is one that a wallet made over
\* the same envelope: only a wallet's proof names a key, and the key is its own.
LEMMA IncludableWasSigned ==
    ASSUME EnvelopeIInv, NEW tx, Includable(tx), Composable(tx)
    PROVE  \E other \in signed : EnvelopeOf(tx, TRUE) = EnvelopeOf(other, TRUE)
<1> DEFINE s == SpendIn(tx)
           bytes == tx.signatures[1].bytes
<1>1. Approves(tx)
  BY DEF Includable
<1>2. Len(tx.signatures) = 1
  BY <1>1 DEF Approves, Shape
<1>3. /\ tx.signatures[1].signer = s.authorizer
      /\ tx.signatures[1].msg = <<>>
  BY <1>1 DEF Approves, Authorized, SpendIn
<1>4. ProofIn(tx) # NotAProof
  BY <1>1 DEF Approves, VerifyProof, ProofIn
<1>5. SignatureValid(tx, tx.signatures[1])
  BY <1>2 DEF Includable
<1>6. bytes # NoBytes /\ bytes.key = s.authorizer /\ bytes.hash = EnvelopeOf(tx, TRUE)
  BY <1>3, <1>5 DEF SignatureValid, SigHash
<1>7. s.authorizer \in WalletKeys
  <2>1. PICK other \in signed : ProofIn(other).publics = ProofIn(tx).publics
    BY <1>4 DEF Composable
  <2>2. PICK draft \in Drafts : other = Signed(draft)
    BY DEF EnvelopeIInv
  <2>3. ProofIn(other) = ProofIn(draft)
    BY <2>2, SignedOverItself DEF ProofIn
  <2>4. Publics(s) = Publics(SpendIn(draft))
    BY <2>1, <2>3, DraftAssumption DEF Includable
  <2>5. s.authorizer = SpendIn(draft).authorizer
    BY <2>4 DEF Publics
  <2> QED
    BY <2>5 DEF WalletKeys
<1>8. PICK other \in signed : other.signatures[1].bytes = bytes
  BY <1>2, <1>6, <1>7 DEF Composable
<1>9. PICK draft \in Drafts : other = Signed(draft)
  BY DEF EnvelopeIInv
<1>10. bytes.hash = EnvelopeOf(other, TRUE)
  BY <1>8, <1>9, SignedOverItself
<1> QED
  BY <1>6, <1>10

LEMMA EnvelopeInductive ==
    ASSUME EnvelopeIInv, [Next]_envelopeVars
    PROVE  EnvelopeIInv'
<1>1. ASSUME NEW draft \in Drafts, Sign(draft) PROVE EnvelopeIInv'
  <2>1. included' = included /\ consumed' = consumed /\ signed \subseteq signed'
    BY <1>1 DEF Sign
  <2>2. \A tx \in signed' : \E d \in Drafts : tx = Signed(d)
    BY <1>1 DEF Sign, EnvelopeIInv
  <2>3. IncludedAsSigned'
    BY <2>1 DEF EnvelopeIInv, IncludedAsSigned
  <2> QED
    BY <2>1, <2>2, <2>3 DEF EnvelopeIInv, OneVersionIncluded
<1>2. ASSUME NEW tx \in Transactions, Include(tx) PROVE EnvelopeIInv'
  <2>1. /\ signed' = signed /\ included' = included \cup {tx}
        /\ consumed' = consumed \cup tx.nonceKeys
    BY <1>2 DEF Include
  <2>2. \E other \in signed : EnvelopeOf(tx, TRUE) = EnvelopeOf(other, TRUE)
    BY <1>2, IncludableWasSigned DEF Include
  <2>3. tx.nonceKeys = {SpendIn(tx).nf1, SpendIn(tx).nf2} /\ tx.nonceKeys \cap consumed = {}
    BY <1>2 DEF Include, Includable, Approves, KeysBound, SpendIn
  <2>4. IncludedAsSigned'
    BY <2>1, <2>2 DEF EnvelopeIInv, IncludedAsSigned
  <2>5. \A other \in included' :
            {SpendIn(other).nf1, SpendIn(other).nf2} \subseteq consumed'
    BY <2>1, <2>3 DEF EnvelopeIInv
  <2>6. OneVersionIncluded'
    <3> SUFFICES ASSUME NEW x \in included', NEW y \in included',
                        {SpendIn(x).nf1, SpendIn(x).nf2} \cap {SpendIn(y).nf1, SpendIn(y).nf2} # {}
                 PROVE  EnvelopeOf(x, TRUE) = EnvelopeOf(y, TRUE)
      BY DEF OneVersionIncluded
    <3>1. CASE x \in included /\ y \in included
      BY <3>1 DEF EnvelopeIInv, OneVersionIncluded
    <3>2. CASE x = tx /\ y \in included
      BY <2>3, <3>2 DEF EnvelopeIInv
    <3>3. CASE x \in included /\ y = tx
      BY <2>3, <3>3 DEF EnvelopeIInv
    <3>4. CASE x = tx /\ y = tx
      BY <3>4
    <3> QED
      BY <2>1, <3>1, <3>2, <3>3, <3>4
  <2> QED
    BY <2>1, <2>4, <2>5, <2>6 DEF EnvelopeIInv
<1>3. ASSUME UNCHANGED envelopeVars PROVE EnvelopeIInv'
  BY <1>3 DEF EnvelopeIInv, IncludedAsSigned, OneVersionIncluded, envelopeVars
<1> QED
  BY <1>1, <1>2, <1>3 DEF Next

LEMMA EnvelopeSafety == Spec => []EnvelopeIInv
<1>1. Init => EnvelopeIInv
  BY DEF Init, EnvelopeIInv, IncludedAsSigned, OneVersionIncluded
<1>2. EnvelopeIInv /\ [Next]_envelopeVars => EnvelopeIInv'
  BY EnvelopeInductive
<1> QED
  BY <1>1, <1>2, PTL DEF Spec

(***************************************************************************)
(* SECURITY.md:31: whatever is included is what a wallet signed, except    *)
(* for the bytes of its signature.                                         *)
(***************************************************************************)
THEOREM IncludedAsSignedHolds == Spec => []IncludedAsSigned
<1>1. EnvelopeIInv => IncludedAsSigned
  BY DEF EnvelopeIInv
<1> QED
  BY <1>1, EnvelopeSafety, PTL

(***************************************************************************)
(* Of the versions of a spend that a wallet signed, with other fees or     *)
(* other nonce keys, at most one is ever included.                         *)
(***************************************************************************)
THEOREM OneVersionIncludedHolds == Spec => []OneVersionIncluded
<1>1. EnvelopeIInv => OneVersionIncluded
  BY DEF EnvelopeIInv
<1> QED
  BY <1>1, EnvelopeSafety, PTL

-----------------------------------------------------------------------------
\* The quotient by a positive divisor lies within one divisor of the dividend.
LEMMA DivisionBounds ==
    ASSUME NEW a \in Int, NEW b \in Nat \ {0}
    PROVE  /\ a \div b \in Int
           /\ b * (a \div b) <= a
           /\ a < b * (a \div b) + b
BY SMT

\* Multiples of a positive number are ordered as their factors are.
LEMMA FactorOrder ==
    ASSUME NEW q \in Nat \ {0}, NEW x \in Int, NEW y \in Int, q * x < q * y
    PROVE  x < y
<1> SUFFICES ASSUME y <= x PROVE FALSE
  BY SMT
<1>1. x - y \in Nat
  BY SMT
<1>2. q * (x - y) >= 0
  BY <1>1, SMT
<1>3. q * (x - y) = q * x - q * y
  BY SMT
<1>4. q * x \in Int /\ q * y \in Int
  BY SMT
<1> QED
  BY <1>2, <1>3, <1>4, SMT

(***************************************************************************)
(* frametx.py:206-212: the minimum priority fee satisfies the admission    *)
(* inequality q*tip >= p0*(L_other+q), and no lower integer does.          *)
(***************************************************************************)
THEOREM MinPriorityFeeIsLeast ==
    ASSUME NEW charge \in Nat \ {0}, NEW live \in Nat, NEW p0 \in Nat
    PROVE  LET tip == MinPriorityFee(charge, live, p0)
           IN  /\ tip \in Nat
               /\ charge * tip >= p0 * (live + charge)
               /\ \A lower \in Int :
                      charge * lower >= p0 * (live + charge) => tip <= lower
<1> DEFINE price == p0 * (live + charge)
           tip == MinPriorityFee(charge, live, p0)
<1>1. price \in Nat
  BY SMT
<1> HIDE DEF price
<1>2. tip = (price + charge - 1) \div charge
  BY DEF MinPriorityFee, price
<1> HIDE DEF tip
<1>3. price + charge - 1 \in Int
  BY <1>1, SMT
<1>4. /\ tip \in Int
      /\ charge * tip <= price + charge - 1
      /\ price + charge - 1 < charge * tip + charge
  BY <1>2, <1>3, DivisionBounds
<1>5. charge * tip \in Int
  BY <1>4, SMT
<1>6. charge * tip >= price
  BY <1>1, <1>4, <1>5, SMT
<1>7. tip \in Nat
  <2>1. charge * (-1) < charge * tip
    BY <1>1, <1>5, <1>6, SMT
  <2>2. -1 < tip
    BY <2>1, <1>4, FactorOrder, SMT
  <2> QED
    BY <2>2, <1>4, SMT
<1>8. ASSUME NEW lower \in Int, charge * lower >= price
      PROVE  tip <= lower
  <2>1. charge * (tip - 1) = charge * tip - charge
    BY <1>4, SMT
  <2>2. charge * (tip - 1) < charge * lower
    <3>1. charge * lower \in Int
      BY SMT
    <3> QED
      BY <2>1, <3>1, <1>1, <1>4, <1>5, <1>8, SMT
  <2>3. tip - 1 \in Int
    BY <1>4, SMT
  <2>4. tip - 1 < lower
    BY <2>2, <2>3, FactorOrder
  <2> QED
    BY <2>4, <1>4, SMT
<1> QED
  BY <1>6, <1>7, <1>8 DEF price, tip

(***************************************************************************)
(* A transaction that is priced high enough at a base fee has room under   *)
(* its max_fee for the base fee and the minimum priority fee together, so  *)
(* max_cost covers both for all the gas it may use.                        *)
(***************************************************************************)
THEOREM PricedHasRoom ==
    ASSUME NEW charge \in Nat \ {0}, NEW live \in Nat, NEW p0 \in Nat \ {0},
           NEW maxPriority \in Nat, NEW maxFee \in Nat, NEW baseFee \in Nat,
           NEW gas \in Nat,
           PriceOk(charge, live, p0, maxPriority, maxFee, baseFee)
    PROVE  (baseFee + MinPriorityFee(charge, live, p0)) * gas <= maxFee * gas
<1> DEFINE tip == MinPriorityFee(charge, live, p0)
<1>1. /\ tip \in Nat
      /\ charge * tip >= p0 * (live + charge)
  BY MinPriorityFeeIsLeast
<1> HIDE DEF tip
<1>2. EffectivePriorityFee(maxPriority, maxFee, baseFee) >= tip
  BY DEF PriceOk, tip
<1>3. tip # 0
  <2>1. p0 * (live + charge) > 0
    BY SMT
  <2> QED
    BY <1>1, <2>1, SMT
<1>4. baseFee + tip <= maxFee
  BY <1>1, <1>2, <1>3, SMT DEF EffectivePriorityFee
<1>5. maxFee - (baseFee + tip) \in Nat
  BY <1>1, <1>4, SMT
<1>6. (maxFee - (baseFee + tip)) * gas >= 0
  BY <1>5, SMT
<1>7. (maxFee - (baseFee + tip)) * gas = maxFee * gas - (baseFee + tip) * gas
  BY <1>1, SMT
<1>8. maxFee * gas \in Int /\ (baseFee + tip) * gas \in Int
  BY <1>1, SMT
<1> QED
  BY <1>6, <1>7, <1>8, SMT DEF tip

-----------------------------------------------------------------------------
(***************************************************************************)
(* What a transaction put together by FrameTxGas consists of.              *)
(***************************************************************************)
SignatureParts == {SignatureBy(scheme) : scheme \in Schemes}

GasTypeOK ==
    /\ frames \in Seq(FrameKinds)
    /\ signatures \in Seq(SignatureParts)
    /\ refs \in Seq({RefData})
    /\ blobs \in Nat

LEMMA GasTyped == GasSpec => []GasTypeOK
<1>1. GasInit => GasTypeOK
  BY DEF GasInit, GasTypeOK
<1>2. GasTypeOK /\ [GasNext]_gasVars => GasTypeOK'
  <2> SUFFICES ASSUME GasTypeOK, [GasNext]_gasVars PROVE GasTypeOK'
    OBVIOUS
  <2> USE DEF GasTypeOK
  <2>1. ASSUME NEW frame \in FrameKinds, AddFrame(frame) PROVE GasTypeOK'
    BY <2>1 DEF AddFrame
  <2>2. ASSUME NEW scheme \in Schemes, AddSignature(scheme) PROVE GasTypeOK'
    <3>1. SignatureBy(scheme) \in SignatureParts
      BY DEF SignatureParts
    <3> QED
      BY <2>2, <3>1 DEF AddSignature
  <2>3. CASE AddReference
    BY <2>3 DEF AddReference
  <2>4. CASE AddBlob
    BY <2>4 DEF AddBlob
  <2>5. CASE UNCHANGED gasVars
    BY <2>5 DEF gasVars
  <2> QED
    BY <2>1, <2>2, <2>3, <2>4, <2>5 DEF GasNext
<1> QED
  BY <1>1, <1>2, PTL DEF GasSpec

-----------------------------------------------------------------------------
(***************************************************************************)
(* Totals over the parts of a transaction, which are natural numbers, and  *)
(* over its first parts only.                                              *)
(***************************************************************************)
LEMMA PartsTotal ==
    ASSUME NEW n \in Nat, NEW f \in [1..n -> Nat]
    PROVE  SumFunction(f) \in Nat
<1>1. IsFiniteSet(1..n)
  BY FS_Interval
<1> QED
  BY <1>1, TotalType

LEMMA FirstPartsTotal ==
    ASSUME NEW n \in Nat, NEW k \in 0..n, NEW f \in [1..n -> Nat], NEW g \in [1..k -> Nat],
           \A i \in 1..k : g[i] = f[i]
    PROVE  SumFunction(g) <= SumFunction(f)
<1>1. IsFiniteSet(1..n) /\ IsFiniteSet(1..k) /\ 1..k \subseteq 1..n
  BY FS_Interval
<1>2. \A i \in 1..n : f[i] \in Nat
  OBVIOUS
<1>3. SumFunctionOnSet(f, 1..n)
      = SumFunctionOnSet(f, 1..k) + SumFunctionOnSet(f, (1..n) \ (1..k))
  BY <1>1, <1>2, SumOfParts
<1>4. SumFunctionOnSet(g, 1..k) = SumFunctionOnSet(f, 1..k)
  BY <1>1, SumAgrees
<1>5. IsFiniteSet((1..n) \ (1..k))
  BY <1>1, FS_Subset
<1>6. SumFunctionOnSet(f, (1..n) \ (1..k)) \in Nat
  BY <1>2, <1>5, SumType
<1>7. SumFunctionOnSet(f, 1..k) \in Nat
  BY <1>1, <1>2, SumType
<1>8. SumFunction(g) = SumFunctionOnSet(g, 1..k) /\ SumFunction(f) = SumFunctionOnSet(f, 1..n)
  BY DEF SumFunction
<1> QED
  BY <1>3, <1>4, <1>6, <1>7, <1>8

LEMMA CalldataPriced ==
    ASSUME NEW data \in DataSizes
    PROVE  CalldataGas(data) \in Nat /\ CalldataTokens(data) \in Nat
BY DEF DataSizes, CalldataGas, CalldataTokens

\* Every data field of the transaction is a number of zero and nonzero bytes.
LEMMA FieldsTyped ==
    ASSUME GasTypeOK
    PROVE  /\ Len(frames) \in Nat /\ Len(signatures) \in Nat /\ Len(refs) \in Nat
           /\ \A i \in 1..Len(frames) : frames[i].gas \in Nat /\ frames[i].data \in DataSizes
           /\ \A i \in 1..Len(signatures) :
                  /\ SchemeCost[signatures[i].scheme] \in Nat
                  /\ signatures[i].signer \in DataSizes
                  /\ signatures[i].msg \in DataSizes
                  /\ signatures[i].bytes \in DataSizes
           /\ \A i \in 1..Len(refs) : refs[i] \in DataSizes
           /\ NonceData \in DataSizes
<1>1. \A i \in 1..Len(frames) : frames[i] \in FrameKinds
  BY DEF GasTypeOK
<1>2. \A i \in 1..Len(signatures) : signatures[i] \in SignatureParts
  BY DEF GasTypeOK
<1>3. \A i \in 1..Len(refs) : refs[i] \in {RefData}
  BY DEF GasTypeOK
<1>4. Len(frames) \in Nat /\ Len(signatures) \in Nat /\ Len(refs) \in Nat
  BY DEF GasTypeOK
<1>5. \A signature \in SignatureParts :
          /\ SchemeCost[signature.scheme] \in Nat
          /\ signature.signer \in DataSizes
          /\ signature.msg \in DataSizes
          /\ signature.bytes \in DataSizes
  BY GasAssumption DEF SignatureParts, SignatureBy, Data, NoData, DataSizes
<1> QED
  BY <1>1, <1>2, <1>3, <1>4, <1>5, GasAssumption

LEMMA CalldataGasTyped ==
    ASSUME GasTypeOK
    PROVE  DataGas(Tx) \in Nat
<1> DEFINE f == [i \in 1..Len(frames) |-> CalldataGas(frames[i].data)]
           s == [i \in 1..Len(signatures) |->
                    CalldataGas(signatures[i].signer) + CalldataGas(signatures[i].msg)
                    + CalldataGas(signatures[i].bytes)]
           r == [i \in 1..Len(refs) |-> CalldataGas(refs[i])]
<1>1. f \in [1..Len(frames) -> Nat] /\ Len(frames) \in Nat
  BY FieldsTyped, CalldataPriced
<1>2. s \in [1..Len(signatures) -> Nat] /\ Len(signatures) \in Nat
  BY FieldsTyped, CalldataPriced
<1>3. r \in [1..Len(refs) -> Nat] /\ Len(refs) \in Nat
  BY FieldsTyped, CalldataPriced
<1>4. CalldataGas(NonceData) \in Nat
  BY FieldsTyped, CalldataPriced
<1>5. DataGas(Tx)
      = SumFunction(f) + SumFunction(s) + CalldataGas(NonceData) + SumFunction(r)
  BY DEF DataGas, OverData, SumOver, Tx
<1> HIDE DEF f, s, r
<1>6. SumFunction(f) \in Nat /\ SumFunction(s) \in Nat /\ SumFunction(r) \in Nat
  BY <1>1, <1>2, <1>3, PartsTotal
<1> QED
  BY <1>4, <1>5, <1>6

LEMMA CalldataTokensTyped ==
    ASSUME GasTypeOK
    PROVE  DataTokens(Tx) \in Nat
<1> DEFINE f == [i \in 1..Len(frames) |-> CalldataTokens(frames[i].data)]
           s == [i \in 1..Len(signatures) |->
                    CalldataTokens(signatures[i].signer) + CalldataTokens(signatures[i].msg)
                    + CalldataTokens(signatures[i].bytes)]
           r == [i \in 1..Len(refs) |-> CalldataTokens(refs[i])]
<1>1. f \in [1..Len(frames) -> Nat] /\ Len(frames) \in Nat
  BY FieldsTyped, CalldataPriced
<1>2. s \in [1..Len(signatures) -> Nat] /\ Len(signatures) \in Nat
  BY FieldsTyped, CalldataPriced
<1>3. r \in [1..Len(refs) -> Nat] /\ Len(refs) \in Nat
  BY FieldsTyped, CalldataPriced
<1>4. CalldataTokens(NonceData) \in Nat
  BY FieldsTyped, CalldataPriced
<1>5. DataTokens(Tx)
      = SumFunction(f) + SumFunction(s) + CalldataTokens(NonceData) + SumFunction(r)
  BY DEF DataTokens, OverData, SumOver, Tx
<1> HIDE DEF f, s, r
<1>6. SumFunction(f) \in Nat /\ SumFunction(s) \in Nat /\ SumFunction(r) \in Nat
  BY <1>1, <1>2, <1>3, PartsTotal
<1> QED
  BY <1>4, <1>5, <1>6

LEMMA MandatoryTyped ==
    ASSUME GasTypeOK
    PROVE  /\ SignatureVerificationCost(Tx) \in Nat
           /\ MandatoryGas(Tx) \in Nat
           /\ MandatoryGas(Tx) >= 15000 + SignatureVerificationCost(Tx)
<1> DEFINE s == [i \in 1..Len(signatures) |-> SchemeCost[signatures[i].scheme]]
<1>1. s \in [1..Len(signatures) -> Nat] /\ Len(signatures) \in Nat
  BY FieldsTyped
<1>2. SignatureVerificationCost(Tx) = SumFunction(s)
  BY DEF SignatureVerificationCost, SumOver, Tx
<1> HIDE DEF s
<1>3. SignatureVerificationCost(Tx) \in Nat
  BY <1>1, <1>2, PartsTotal
<1>4. Len(frames) \in Nat /\ Len(refs) \in Nat
  BY FieldsTyped
<1>5. RecentRootReferenceIntrinsicGas(Tx) \in Nat
  BY <1>4 DEF RecentRootReferenceIntrinsicGas, Tx
<1>6. MandatoryGas(Tx) = 15000 + Len(frames) * 475 + SignatureVerificationCost(Tx)
                         + RecentRootReferenceIntrinsicGas(Tx)
  BY DEF MandatoryGas, Tx
<1> QED
  BY <1>3, <1>4, <1>5, <1>6

-----------------------------------------------------------------------------
(***************************************************************************)
(* The validation prefix: its length is found from the flags of the frames *)
(* after an expiry frame.                                                  *)
(***************************************************************************)
LEMMA ExpiryIsVerify ==
    ASSUME GasTypeOK
    PROVE  /\ ExpiryFrames(Tx) \in 0..1
           /\ ExpiryFrames(Tx) = 1 => 1 \in 1..Len(frames) /\ frames[1].mode = VERIFY
<1>1. Len(frames) \in Nat /\ (frames # <<>> => Len(frames) # 0)
  BY DEF GasTypeOK
<1>2. Tx.frames = frames
  BY DEF Tx
<1> QED
  BY <1>1, <1>2 DEF ExpiryFrames

\* Either the first VERIFY frame looked at carries flags 3, or both do, 2 and 1.
LEMMA PrefixShapes ==
    ASSUME GasTypeOK, PrefixLength(Tx) > 0
    PROVE  \/ /\ PrefixLength(Tx) = ExpiryFrames(Tx) + 1
              /\ \E i \in LeadingVerify(Tx) : \A j \in LeadingVerify(Tx) : i <= j
           \/ /\ PrefixLength(Tx) = ExpiryFrames(Tx) + 2
              /\ LeadingVerify(Tx) = {ExpiryFrames(Tx) + 1, ExpiryFrames(Tx) + 2}
<1>1. 0 <= 0 /\ ~(0 > 0)
  OBVIOUS
<1> QED
  BY <1>1, Zenon DEF PrefixLength

\* The frames of an accepted prefix are VERIFY frames of the transaction: were
\* the first one looked at no VERIFY frame, one would follow the prefix.
LEMMA PrefixVerified ==
    ASSUME GasTypeOK, PrefixAccepted(Tx)
    PROVE  /\ PrefixLength(Tx) \in 0..Len(frames)
           /\ \A i \in 1..Len(frames) : frames[i].mode = VERIFY <=> i <= PrefixLength(Tx)
<1> DEFINE n == Len(frames)
           k == PrefixLength(Tx)
           e == ExpiryFrames(Tx)
           leading == LeadingVerify(Tx)
           verify(i) == frames[i].mode = VERIFY
<1>1. n \in Nat
  BY DEF GasTypeOK
<1>2. e \in 0..1 /\ (e = 1 => 1 \in 1..n /\ verify(1))
  BY ExpiryIsVerify
<1>3. \A i : i \in leading <=> i \in 1..n /\ i - e \in 1..2 /\ verify(i)
  BY DEF LeadingVerify, Tx
<1>4. k > 0 /\ \A i \in (k + 1)..n : ~verify(i)
  BY DEF PrefixAccepted, Tx
<1>5. \/ k = e + 1 /\ \E i \in leading : \A j \in leading : i <= j
      \/ k = e + 2 /\ leading = {e + 1, e + 2}
  BY <1>4, PrefixShapes
<1> HIDE DEF n, k, e, leading, verify
<1>6. k \in 0..n /\ \A i \in 1..k : verify(i)
  <2>1. CASE k = e + 1 /\ \E i \in leading : \A j \in leading : i <= j
    <3>1. PICK i \in leading : TRUE
      BY <2>1
    <3>2. i \in 1..n /\ i - e \in 1..2 /\ verify(i)
      BY <1>3, <3>1
    <3>3. i = e + 1
      BY <1>1, <1>2, <1>4, <2>1, <3>2
    <3> QED
      BY <1>1, <1>2, <2>1, <3>2, <3>3
  <2>2. CASE k = e + 2 /\ leading = {e + 1, e + 2}
    <3>1. /\ e + 1 \in 1..n /\ verify(e + 1)
          /\ e + 2 \in 1..n /\ verify(e + 2)
      BY <1>3, <2>2
    <3> QED
      BY <1>1, <1>2, <2>2, <3>1
  <2> QED
    BY <1>5, <2>1, <2>2
<1>7. \A i \in 1..n : verify(i) <=> i <= k
  BY <1>1, <1>4, <1>6
<1> QED
  BY <1>6, <1>7 DEF n, k, verify

(***************************************************************************)
(* frametx.py:162-182: of every transaction whose shape is accepted, the   *)
(* prefix consists of all its VERIFY frames.                               *)
(***************************************************************************)
THEOREM PrefixIsAllVerifyHolds == GasSpec => []PrefixIsAllVerify
<1>1. GasTypeOK => PrefixIsAllVerify
  BY PrefixVerified DEF PrefixIsAllVerify
<1> QED
  BY <1>1, GasTyped, PTL

-----------------------------------------------------------------------------
(***************************************************************************)
(* The three totals: the frames of the prefix are among the frames.        *)
(***************************************************************************)
LEMMA FrameGasTyped ==
    ASSUME GasTypeOK, PrefixAccepted(Tx)
    PROVE  /\ GasOf(frames) \in Nat /\ GasOf(ValidationPrefix(Tx)) \in Nat
           /\ GasOf(ValidationPrefix(Tx)) <= GasOf(frames)
<1> DEFINE n == Len(frames)
           k == PrefixLength(Tx)
           f == [i \in 1..n |-> frames[i].gas]
           g == [i \in 1..k |-> frames[i].gas]
<1>1. n \in Nat /\ k \in 0..n
  BY PrefixVerified DEF GasTypeOK
<1>2. f \in [1..n -> Nat]
  BY FieldsTyped
<1>3. g \in [1..k -> Nat] /\ \A i \in 1..k : g[i] = f[i]
  BY <1>1, <1>2
<1>4. GasOf(frames) = SumFunction(f)
  BY DEF GasOf, SumOver
<1>5. GasOf(ValidationPrefix(Tx)) = SumFunction(g)
  <2>1. Tx.frames = frames
    BY DEF Tx
  <2>2. /\ Len(ValidationPrefix(Tx)) = k
        /\ \A i \in 1..k : ValidationPrefix(Tx)[i] = frames[i]
    BY <1>1, <2>1 DEF ValidationPrefix, GasTypeOK
  <2>3. [i \in 1..Len(ValidationPrefix(Tx)) |-> ValidationPrefix(Tx)[i].gas] = g
    BY <2>2
  <2> QED
    BY <2>3 DEF GasOf, SumOver
<1> HIDE DEF n, k, f, g
<1>6. SumFunction(f) \in Nat /\ SumFunction(g) \in Nat
  BY <1>1, <1>2, <1>3, PartsTotal
<1>7. SumFunction(g) <= SumFunction(f)
  BY <1>1, <1>2, <1>3, FirstPartsTotal
<1> QED
  BY <1>4, <1>5, <1>6, <1>7

LEMMA GasBounds ==
    ASSUME GasTypeOK, PrefixAccepted(Tx)
    PROVE  /\ PublicValidationGas(Tx) <= AdmissionGas(Tx)
           /\ AdmissionGas(Tx) <= TotalGasLimit(Tx)
           /\ AdmissionGas(Tx) \in Nat \ {0} /\ TotalGasLimit(Tx) \in Nat
<1> DEFINE verified == SignatureVerificationCost(Tx)
           mandatory == MandatoryGas(Tx)
           data == DataGas(Tx)
           tokens == DataTokens(Tx)
           all == GasOf(frames)
           prefix == GasOf(ValidationPrefix(Tx))
<1>1. verified \in Nat /\ mandatory \in Nat /\ mandatory >= 15000 + verified
  BY MandatoryTyped
<1>2. data \in Nat /\ tokens \in Nat
  BY CalldataGasTyped, CalldataTokensTyped
<1>3. all \in Nat /\ prefix \in Nat /\ prefix <= all
  BY FrameGasTyped
<1>4. /\ PublicValidationGas(Tx) = verified + prefix
      /\ AdmissionGas(Tx) = Greater(mandatory + data + prefix, mandatory + 16 * tokens)
      /\ TotalGasLimit(Tx) = Greater(mandatory + data + all, mandatory + 16 * tokens)
  <2>1. Tx.frames = frames
    BY DEF Tx
  <2> QED
    BY <2>1, Zenon DEF PublicValidationGas, AdmissionGas, TotalGasLimit, StandardGasLimit,
                CalldataFloorGas
<1> HIDE DEF verified, mandatory, data, tokens, all, prefix
<1> QED
  BY <1>1, <1>2, <1>3, <1>4 DEF Greater

(***************************************************************************)
(* frametx.py:147-157, 184-199: what validation may take is within what    *)
(* admission is charged for, and that within the limit that max_cost is    *)
(* computed from.                                                          *)
(***************************************************************************)
THEOREM AdmissionIsPaidForHolds == GasSpec => []AdmissionIsPaidFor
<1>1. GasTypeOK => AdmissionIsPaidFor
  BY GasBounds DEF AdmissionIsPaidFor, Admittable
<1> QED
  BY <1>1, GasTyped, PTL

LEMMA ChargePositive ==
    ASSUME GasTypeOK, Admittable(Tx)
    PROVE  /\ MatchaCharge(Tx) \in Nat \ {0}
           /\ TotalGasLimit(Tx) \in Nat
<1>1. AdmissionGas(Tx) \in Nat \ {0} /\ TotalGasLimit(Tx) \in Nat
  BY GasBounds DEF Admittable
<1> QED
  BY <1>1 DEF MatchaCharge

(***************************************************************************)
(* frametx.py:206-212: of every transaction that can be admitted, the      *)
(* minimum fee meets the admission inequality and the next lower one does  *)
(* not.                                                                    *)
(***************************************************************************)
THEOREM MinFeeIsLeastHolds == GasSpec => []MinFeeIsLeast
<1>1. GasTypeOK => MinFeeIsLeast
  <2> DEFINE q == MatchaCharge(Tx)
  <2> SUFFICES ASSUME GasTypeOK, Admittable(Tx), NEW live \in LiveGas, NEW p0 \in Prices
               PROVE  /\ q * MinPriorityFee(q, live, p0) >= p0 * (live + q)
                      /\ q * (MinPriorityFee(q, live, p0) - 1) < p0 * (live + q)
    BY DEF MinFeeIsLeast
  <2>1. q \in Nat \ {0}
    BY ChargePositive
  <2>2. live \in Nat /\ p0 \in Nat
    BY PriceAssumption
  <2> DEFINE tip == MinPriorityFee(q, live, p0)
             price == p0 * (live + q)
  <2> HIDE DEF q
  <2>3. /\ tip \in Nat
        /\ q * tip >= price
        /\ \A lower \in Int : q * lower >= price => tip <= lower
    BY <2>1, <2>2, MinPriorityFeeIsLeast
  <2>4. price \in Int
    BY <2>1, <2>2
  <2> HIDE DEF tip, price
  <2>5. tip - 1 \in Int /\ ~(tip <= tip - 1) /\ q * (tip - 1) \in Int
    BY <2>1, <2>3
  <2>6. q * (tip - 1) < price
    BY <2>3, <2>4, <2>5
  <2> QED
    BY <2>3, <2>6 DEF tip, price
<1> QED
  BY <1>1, GasTyped, PTL

(***************************************************************************)
(* frametx.py:201-225: of every transaction that can be admitted and is    *)
(* priced high enough at some base fee, the max_cost covers base fee and   *)
(* minimum fee for all the gas that it may use.                            *)
(***************************************************************************)
THEOREM PricedIsAffordableHolds == GasSpec => []PricedIsAffordable
<1>1. GasTypeOK => PricedIsAffordable
  <2> DEFINE q == MatchaCharge(Tx)
             limit == TotalGasLimit(Tx)
  <2> SUFFICES ASSUME GasTypeOK, Admittable(Tx), NEW maxFee \in FeeCaps,
                      NEW live \in LiveGas, NEW p0 \in Prices,
                      NEW maxPriority \in FeeCaps, NEW baseFee \in FeeCaps,
                      PriceOk(q, live, p0, maxPriority, maxFee, baseFee)
               PROVE  (baseFee + MinPriorityFee(q, live, p0)) * limit <= MaxCost(Tx, maxFee, 0)
    BY DEF PricedIsAffordable
  <2>1. q \in Nat \ {0} /\ limit \in Nat
    BY ChargePositive
  <2>2. /\ live \in Nat /\ p0 \in Nat \ {0}
        /\ maxPriority \in Nat /\ maxFee \in Nat /\ baseFee \in Nat
    BY PriceAssumption
  <2>3. MaxCost(Tx, maxFee, 0) = maxFee * limit
    <3>1. Tx.blobs = 0
      BY DEF Admittable
    <3>2. maxFee * limit \in Int
      BY <2>1, <2>2
    <3> HIDE DEF limit
    <3>3. MaxCost(Tx, maxFee, 0) = maxFee * limit + Tx.blobs * 131072 * 0
      BY DEF MaxCost, limit
    <3> QED
      BY <3>1, <3>2, <3>3
  <2> HIDE DEF q, limit
  <2>4. (baseFee + MinPriorityFee(q, live, p0)) * limit <= maxFee * limit
    BY <2>1, <2>2, PricedHasRoom
  <2> QED
    BY <2>3, <2>4
<1> QED
  BY <1>1, GasTyped, PTL
=============================================================================
