--------------------------- MODULE MCVirtualTables ---------------------------
(* Constants for the TLC runs of VirtualTables.                            *)
EXTENDS VirtualTables, TLC

CONSTANTS t1, t2, s1, s2

Symmetry == Permutations(Tables) \cup Permutations(Stmts)
=============================================================================
