----------------------------- MODULE TxnContract -----------------------------
(***************************************************************************)
(* What a database handle promises about transactions, whatever flags and  *)
(* engine calls it takes: in auto-commit mode each row is in the file when *)
(* the call that inserted it returns; outside it, rows wait, and all that  *)
(* wait become durable together or not at all.                             *)
(***************************************************************************)
CONSTANT Writes

VARIABLES
  connected,
  auto,       \* the mode the application reads as AutoCommit
  durable,    \* rows in the database file
  waiting     \* rows only this handle sees

vars == <<connected, auto, durable, waiting>>

Init ==
  /\ connected = TRUE /\ auto = TRUE
  /\ durable = {} /\ waiting = {}

Insert(w) ==
  /\ connected
  /\ w \notin durable \cup waiting
  /\ IF auto
       THEN durable' = durable \cup {w} /\ UNCHANGED waiting
       ELSE waiting' = waiting \cup {w} /\ UNCHANGED durable
  /\ UNCHANGED <<connected, auto>>

(* begin_work, AutoCommit=0, a BEGIN or SAVEPOINT statement.               *)
Enter ==
  /\ connected /\ auto
  /\ auto' = FALSE
  /\ UNCHANGED <<connected, durable, waiting>>

(* The mode may be left or stay: AutoCommit=0 is a mode of many            *)
(* transactions.                                                           *)
Commit ==
  /\ connected /\ ~auto
  /\ durable' = durable \cup waiting
  /\ waiting' = {}
  /\ auto' \in BOOLEAN
  /\ UNCHANGED connected

(* rollback, ROLLBACK TO, a failure that takes the transaction along.      *)
Discard ==
  /\ connected /\ ~auto
  /\ waiting' \in SUBSET waiting
  /\ auto' \in BOOLEAN
  /\ auto' => waiting' = {}
  /\ UNCHANGED <<connected, durable>>

Disconnect ==
  /\ connected
  /\ connected' = FALSE
  /\ waiting' = {}
  /\ auto' \in BOOLEAN
  /\ UNCHANGED durable

Connect ==
  /\ ~connected
  /\ connected' = TRUE
  /\ auto' \in BOOLEAN
  /\ UNCHANGED <<durable, waiting>>

Next ==
  \/ \E w \in Writes : Insert(w)
  \/ Enter \/ Commit \/ Discard \/ Disconnect \/ Connect

Spec == Init /\ [][Next]_vars

(* In auto-commit mode nothing waits.                                      *)
NothingWaitsInAuto == connected /\ auto => waiting = {}
=============================================================================
