------------------------------- MODULE MatchaFee -------------------------------
(***************************************************************************)
(* The pricing of public-mempool admission in devnet/frametx.py: a         *)
(* transaction whose validation is charged q gas, beside live_other gas of *)
(* others, must offer a priority fee tip with q*tip >= p0*(live_other+q).  *)
(***************************************************************************)
EXTENDS Integers

\* Mutant: rounds down.
MinPriorityFee_Floor(charge, liveOther, p0) == (p0 * (liveOther + charge)) \div charge

\* matcha_min_priority_fee
MinPriorityFee(charge, liveOther, p0) ==
    (p0 * (liveOther + charge) + charge - 1) \div charge

\* Mutant: does not leave room for the base fee.
EffectivePriorityFee_NoHeadroom(maxPriority, maxFee, baseFee) ==
    IF maxPriority < maxFee THEN maxPriority ELSE maxFee

\* effective_priority_fee
EffectivePriorityFee(maxPriority, maxFee, baseFee) ==
    LET headroom == IF maxFee < baseFee THEN 0 ELSE maxFee - baseFee
    IN  IF maxPriority < headroom THEN maxPriority ELSE headroom

\* matcha_price_ok
PriceOk(charge, liveOther, p0, maxPriority, maxFee, baseFee) ==
    EffectivePriorityFee(maxPriority, maxFee, baseFee)
        >= MinPriorityFee(charge, liveOther, p0)
=============================================================================
