--------------------------- MODULE MCDoStatements ---------------------------
(* Constants for model checking DoStatements.                              *)
EXTENDS DoStatements

(* All failures that leave the handle's flags right, as in                 *)
(* MCDbhTransaction.                                                       *)
CoherentHazards == {"BeginBusy", "StmtFails", "AutoRollback", "CommitFails"}
=============================================================================
