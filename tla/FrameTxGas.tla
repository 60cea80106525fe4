------------------------------ MODULE FrameTxGas ------------------------------
(***************************************************************************)
(* The gas formulas of the class FrameTx of devnet/frametx.py: how much a  *)
(* frame transaction may cost at most, what its admission to the public    *)
(* mempool is charged, and which frames that admission executes.           *)
(*                                                                         *)
(* A transaction is put together part by part.  Data only counts by its    *)
(* zero and nonzero bytes, so a data field is a record of two numbers.     *)
(***************************************************************************)
EXTENDS MatchaFee, Sequences, Functions

CONSTANTS
    FrameKinds,             \* frames that may be appended
    Schemes,                \* signature schemes in use
    NonceData, RefData,     \* bytes of the nonce fields, and of one reference
    MaxFrames, MaxOthers    \* bounds of the model: frames, and other parts of each kind

DataSizes == [zero : Nat, nonzero : Nat]

VARIABLES frames, signatures, refs, blobs

gasVars == <<frames, signatures, refs, blobs>>

Data(zero, nonzero) == [zero |-> zero, nonzero |-> nonzero]
NoData == Data(0, 0)

VERIFY == 1

\* Gas that verifying a signature costs, by its scheme.
SchemeCost == [ARBITRARY |-> 100, SECP256K1 |-> 2800, P256 |-> 6700]

ASSUME GasAssumption ==
    /\ \A frame \in FrameKinds : frame.gas \in Nat /\ frame.data \in DataSizes
    /\ \A scheme \in Schemes : SchemeCost[scheme] \in Nat
    /\ NonceData \in DataSizes /\ RefData \in DataSizes

SumOver(Op(_), seq) == SumFunction([i \in 1..Len(seq) |-> Op(seq[i])])

-----------------------------------------------------------------------------
CalldataGas(data) == 4 * data.zero + 16 * data.nonzero
CalldataTokens(data) == data.zero + 4 * data.nonzero

\* The price of the data fields; a reference is priced with the list it is in.
OverData(Price(_), tx) ==
    SumOver(LAMBDA frame : Price(frame.data), tx.frames)
    + SumOver(LAMBDA signature :
                  Price(signature.signer) + Price(signature.msg) + Price(signature.bytes),
              tx.signatures)
    + Price(tx.nonces)
    + SumOver(Price, tx.refs)

DataGas(tx) == OverData(CalldataGas, tx)
DataTokens(tx) == OverData(CalldataTokens, tx)

SignatureVerificationCost(tx) ==
    SumOver(LAMBDA signature : SchemeCost[signature.scheme], tx.signatures)

RecentRootReferenceIntrinsicGas(tx) ==
    IF tx.refs = <<>> THEN 0 ELSE 3000 + Len(tx.refs) * 3102

MandatoryGas(tx) ==
    15000 + Len(tx.frames) * 475
    + SignatureVerificationCost(tx) + RecentRootReferenceIntrinsicGas(tx)

GasOf(those) == SumOver(LAMBDA frame : frame.gas, those)

Greater(a, b) == IF a > b THEN a ELSE b

StandardGasLimit(tx) ==
    MandatoryGas(tx) + DataGas(tx) + GasOf(tx.frames)

CalldataFloorGas(tx) == MandatoryGas(tx) + 16 * DataTokens(tx)

\* Mutant: forgets the floor on what calldata costs.
TotalGasLimit_NoFloor(tx) == StandardGasLimit(tx)

TotalGasLimit(tx) == Greater(StandardGasLimit(tx), CalldataFloorGas(tx))

-----------------------------------------------------------------------------
\* An optional first frame that lets the transaction expire.
ExpiryFrames(tx) ==
    IF /\ tx.frames # <<>>
       /\ tx.frames[1].mode = VERIFY /\ tx.frames[1].flags = 0 /\ tx.frames[1].expiry
    THEN 1 ELSE 0

\* The VERIFY frames among the two that follow it.
LeadingVerify(tx) ==
    {i \in 1..Len(tx.frames) :
        i - ExpiryFrames(tx) \in 1..2 /\ tx.frames[i].mode = VERIFY}

\* How many frames the accepted shapes make the prefix; 0 for an unknown shape.
PrefixLength(tx) ==
    LET offset == ExpiryFrames(tx)
        leading == LeadingVerify(tx)
    IN  IF \E i \in leading : tx.frames[i].flags = 3 /\ \A j \in leading : i <= j
        THEN offset + 1
        ELSE IF /\ leading = {offset + 1, offset + 2}
                /\ tx.frames[offset + 1].flags = 2 /\ tx.frames[offset + 2].flags = 1
        THEN offset + 2
        ELSE 0

\* Mutant: VERIFY frames after the prefix are let through.
PrefixAccepted_LaterVerify(tx) == PrefixLength(tx) > 0

\* validation_prefix does not raise.
PrefixAccepted(tx) ==
    /\ PrefixLength(tx) > 0
    /\ \A i \in (PrefixLength(tx) + 1)..Len(tx.frames) : tx.frames[i].mode # VERIFY

ValidationPrefix(tx) == SubSeq(tx.frames, 1, PrefixLength(tx))

PublicValidationGas(tx) == SignatureVerificationCost(tx) + GasOf(ValidationPrefix(tx))

\* admission_gas does not raise.
Admittable(tx) == tx.blobs = 0 /\ PrefixAccepted(tx)

AdmissionGas(tx) ==
    Greater(MandatoryGas(tx) + DataGas(tx) + GasOf(ValidationPrefix(tx)),
            CalldataFloorGas(tx))

\* matcha_charge with the safety factor that it defaults to
MatchaCharge(tx) == 2 * AdmissionGas(tx)

MaxCost(tx, maxFee, blobBaseFee) ==
    maxFee * TotalGasLimit(tx) + tx.blobs * 131072 * blobBaseFee

-----------------------------------------------------------------------------
\* Putting a transaction together.

Tx == [frames |-> frames, signatures |-> signatures, nonces |-> NonceData,
       refs |-> refs, blobs |-> blobs]

SignatureBy(scheme) ==
    [scheme |-> scheme, signer |-> Data(0, 20), msg |-> NoData, bytes |-> Data(0, 65)]

GasInit == frames = <<>> /\ signatures = <<>> /\ refs = <<>> /\ blobs = 0

AddFrame(frame) ==
    /\ Len(frames) < MaxFrames
    /\ frames' = Append(frames, frame)
    /\ UNCHANGED <<signatures, refs, blobs>>

AddSignature(scheme) ==
    /\ Len(signatures) < MaxOthers
    /\ signatures' = Append(signatures, SignatureBy(scheme))
    /\ UNCHANGED <<frames, refs, blobs>>

AddReference ==
    /\ Len(refs) < MaxOthers
    /\ refs' = Append(refs, RefData)
    /\ UNCHANGED <<frames, signatures, blobs>>

AddBlob ==
    /\ blobs < MaxOthers
    /\ blobs' = blobs + 1
    /\ UNCHANGED <<frames, signatures, refs>>

GasNext ==
    \/ \E frame \in FrameKinds : AddFrame(frame)
    \/ \E scheme \in Schemes : AddSignature(scheme)
    \/ AddReference
    \/ AddBlob

GasSpec == GasInit /\ [][GasNext]_gasVars

-----------------------------------------------------------------------------
(***************************************************************************)
(* frametx.py:162-164: admission charges for exactly the frames it         *)
(* executes.  Of every accepted shape the prefix is all VERIFY frames and  *)
(* nothing else, although its length is chosen by looking only at the      *)
(* flags of VERIFY frames among the first few.                             *)
(***************************************************************************)
PrefixIsAllVerify ==
    PrefixAccepted(Tx) =>
        \A i \in 1..Len(frames) : frames[i].mode = VERIFY <=> i <= PrefixLength(Tx)

(***************************************************************************)
(* frametx.py:147-157, 184-199: the gas that validating a transaction may  *)
(* take is at most what its admission is charged for, and that is part of  *)
(* the limit that max_cost is computed from, whichever of the standard     *)
(* price and the floor on calldata prevails in either.                     *)
(***************************************************************************)
AdmissionIsPaidFor ==
    Admittable(Tx) => /\ PublicValidationGas(Tx) <= AdmissionGas(Tx)
                      /\ AdmissionGas(Tx) <= TotalGasLimit(Tx)

CONSTANTS LiveGas, Prices, FeeCaps  \* gas of others, prices p0, fees per gas

\* matcha_min_priority_fee refuses a price that is not positive.
ASSUME PriceAssumption ==
    LiveGas \subseteq Nat /\ Prices \subseteq Nat \ {0} /\ FeeCaps \subseteq Nat

(***************************************************************************)
(* The minimum fee is the least one that satisfies the admission           *)
(* inequality: the next lower one does not.                                *)
(***************************************************************************)
MinFeeIsLeast ==
    Admittable(Tx) =>
        LET q == MatchaCharge(Tx)
        IN  \A live \in LiveGas, p0 \in Prices :
                LET tip == MinPriorityFee(q, live, p0)
                IN  /\ q * tip >= p0 * (live + q)
                    /\ q * (tip - 1) < p0 * (live + q)

(***************************************************************************)
(* A transaction that meets the admission price at some base fee can pay   *)
(* base fee and price for all the gas it may use within its max_cost,      *)
(* which is what the dispatcher compares the note debit with.              *)
(***************************************************************************)
PricedIsAffordable ==
    Admittable(Tx) =>
        LET q == MatchaCharge(Tx)
            limit == TotalGasLimit(Tx)
        IN  \A maxFee \in FeeCaps :
                LET debit == MaxCost(Tx, maxFee, 0)
                IN  \A live \in LiveGas, p0 \in Prices, maxPriority, baseFee \in FeeCaps :
                        PriceOk(q, live, p0, maxPriority, maxFee, baseFee) =>
                            (baseFee + MinPriorityFee(q, live, p0)) * limit <= debit
=============================================================================
