----------------------------- MODULE MCCallbacks -----------------------------
(* Symmetry for the TLC run of Callbacks.                                  *)
EXTENDS Callbacks, TLC

Symmetry == Permutations(Handles)
=============================================================================
