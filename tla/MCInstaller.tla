----------------------------- MODULE MCInstaller -----------------------------
(* Installer on a small instance: one binary and one script, one event, a   *)
(* hook of the user's that names claude-mesh and one that does not.         *)
EXTENDS Installer, TLC

MCBinaries == {"claude-mesh-bridge"}
MCFiles == <<"claude-mesh-bridge", "session-start.sh">>

MCSymmetry == Permutations(Places)
=============================================================================
