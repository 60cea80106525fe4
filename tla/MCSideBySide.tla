---------------------------- MODULE MCSideBySide ----------------------------
(***************************************************************************)
(* Three small components for TLC: what a signature covers (Envelope) and  *)
(* what a transaction costs (FrameTxGas), both of devnet/frametx.py, and   *)
(* what a claimed withdrawal calls (ClaimCalls).  They share no state, so  *)
(* a behaviour explores one of them and leaves the others at their         *)
(* beginning.                                                              *)
(***************************************************************************)
EXTENDS MCEnvelope, FrameTxGas, ClaimCalls

SideBySideInit == Init /\ GasInit /\ ClaimsInit

OnlyEnvelope == GasInit /\ ClaimsInit /\ UNCHANGED <<gasVars, claimVars>>
OnlyGas == Init /\ ClaimsInit /\ UNCHANGED <<envelopeVars, claimVars>>
OnlyClaims == Init /\ GasInit /\ UNCHANGED <<envelopeVars, gasVars>>

SideBySideNext ==
    \/ \E draft \in Drafts : OnlyEnvelope /\ Sign(draft)
    \/ \E tx \in Transactions : OnlyEnvelope /\ Include(tx)
    \/ OnlyGas /\ GasNext
    \/ OnlyClaims /\ ClaimsNext

SideBySideSpec ==
    SideBySideInit /\ [][SideBySideNext]_<<envelopeVars, gasVars, claimVars>>

MCPayees == Contracts \cup {Alice, Self}

\* Much gas and little data, or the converse, so that each price prevails.
MCSizes == {[gas |-> 40000, data |-> Data(2, 30)], [gas |-> 100, data |-> Data(20, 900)]}

MCFrameKinds ==
    {[mode |-> kind[1], flags |-> kind[2], expiry |-> FALSE, gas |-> size.gas, data |-> size.data] :
        kind \in {<<1, 0>>, <<1, 1>>, <<1, 2>>, <<1, 3>>, <<2, 0>>}, size \in MCSizes}
    \cup {[mode |-> 1, flags |-> 0, expiry |-> TRUE, gas |-> 21000, data |-> Data(4, 4)]}

MCNonceData == Data(0, 68)
MCRefData == Data(4, 70)
MCLiveGas == {0, 1, 99999, 250000}
MCPrices == {1, 7}
MCFeeCaps == {0, 3, 8, 15, 40}

\* The golden vector of frametx.py:231-246 and its total gas.
Golden ==
    [frames |-> <<[mode |-> 1, flags |-> 3, expiry |-> FALSE, gas |-> 21000, data |-> Data(0, 2)],
                  [mode |-> 2, flags |-> 0, expiry |-> FALSE, gas |-> 40000, data |-> NoData]>>,
     signatures |-> <<[scheme |-> "SECP256K1", signer |-> Data(18, 2), msg |-> NoData,
                       bytes |-> Data(0, 65)]>>,
     nonces |-> Data(0, 3), refs |-> <<>>, blobs |-> 0]

ASSUME GoldenVector == TotalGasLimit(Golden) = 80974
=============================================================================
