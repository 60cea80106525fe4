------------------------------- MODULE MCWallet -------------------------------
(***************************************************************************)
(* build_witness and the fixture generator that uses it, for TLC.  They    *)
(* share no state, so a behaviour explores WitnessAgreement or             *)
(* SmokeFixture and leaves the other at its beginning.                     *)
(*                                                                         *)
(* Three leaves in a tree of four, so that the last one's first sibling is *)
(* an empty leaf and the first ones' second an inner node.                 *)
(***************************************************************************)
EXTENDS WitnessAgreement, SmokeFixture

WalletInit == WitnessInit /\ SmokeInit

WalletNext ==
    \/ SmokeInit /\ UNCHANGED smokeVars /\ WitnessNext
    \/ WitnessInit /\ UNCHANGED witnessVars /\ SmokeNext

WalletSpec == WalletInit /\ [][WalletNext]_<<witnessVars, smokeVars>>

MCLeaves ==
    <<[spendKey |-> "k", rho |-> "r1", value |-> 1],
      [spendKey |-> "k", rho |-> "r2", value |-> 3],
      [spendKey |-> "k", rho |-> "r3", value |-> 3]>>

MCPayeeInners == {SinkInner0, SinkInner1, Inner("k", "payee")}
=============================================================================
