--------------------------- MODULE MCBridgeSilence ---------------------------
EXTENDS BridgeSilence, TLC

CONSTANTS mac, s1, w1, w2

AnyWorkers == Permutations(Workers)
=============================================================================
