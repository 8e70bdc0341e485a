---------------------------- MODULE MCFileLocks ----------------------------
(* Constants for the TLC runs of FileLocks.                                *)
EXTENDS FileLocks, TLC

CONSTANTS a, b, i, d

(* Two of the default mode, one with AutoCommit on and one deferred.       *)
MCMode == (a :> "auto") @@ (i :> "immediate") @@ (b :> "immediate") @@ (d :> "deferred")

(* Those of them that take part.                                           *)
MCModeSome == [c \in Conns |-> MCMode[c]]
=============================================================================
