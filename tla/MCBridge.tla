------------------------------ MODULE MCBridge ------------------------------
(* Bridge on small instances.  The workers run the same code, so they may  *)
(* be permuted in the runs that check no liveness.                         *)
EXTENDS Bridge, TLC

CONSTANTS mac, s1, w1, w2

AnyWorkers == Permutations(Workers)
=============================================================================
