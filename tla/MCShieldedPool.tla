--------------------------- MODULE MCShieldedPool ---------------------------
\* Model values and bounds for checking ShieldedPool with TLC.
EXTENDS ShieldedPool, TLC

CONSTANT Alice  \* the account withdrawals go to

MCSources == 0..MaxEpoch
MCAccounts == {Alice}
MCShieldValues == {2, MAX_VALUE}
MCFees == {1}
MCFlags == {"none"} \cup OverrideFlags

MCSymmetry == Permutations(Rhos) \cup Permutations(Authorizers)
=============================================================================
