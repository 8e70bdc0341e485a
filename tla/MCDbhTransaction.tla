-------------------------- MODULE MCDbhTransaction --------------------------
(* Constants for model checking DbhTransaction.                            *)
EXTENDS DbhTransaction

(* All failures that leave the handle's flags right: a COMMIT that is      *)
(* refused does not, and neither does AutoCommit=1 after begin_work.       *)
CoherentHazards == {"BeginBusy", "StmtFails", "AutoRollback", "CommitFails"}
=============================================================================
