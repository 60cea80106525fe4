---------------------------- MODULE MCSeededTree ----------------------------
\* Model values and bounds for checking SeededTree with TLC.
EXTENDS SeededTree, TLC

MCSources == 0..MaxEpoch
MCSymmetry == Permutations(OtherInners)
=============================================================================
