---------------------------- MODULE MCMeshQueries ----------------------------
\* Two sessions whose hooks spell the same file; s1 reports late.
EXTENDS MeshQueries
CONSTANTS s1, s2, main_go
MCEventAges == [s \in Sids |-> IF s = s1 THEN {1} ELSE {0}]
MCTarget == [s \in Sids |-> main_go]
=============================================================================
