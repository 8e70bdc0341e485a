------------------------------ MODULE VtabObject ------------------------------
(***************************************************************************)
(* What the Perl object of one virtual table may rely on, whatever tables, *)
(* statements and transactions there are besides: the order in which its   *)
(* methods are called.                                                     *)
(***************************************************************************)
EXTENDS Naturals

VARIABLES
  phase,     \* where the object is in its life and its transaction
  dirty,     \* updated since it was last committed or rolled back
  cursors    \* its open cursors

vars == <<phase, dirty, cursors>>

Init == phase = "none" /\ dirty = FALSE /\ cursors = 0

(* CREATE makes the object a member of the transaction at once.            *)
Create  == phase = "none" /\ phase' = "enlisted" /\ UNCHANGED <<dirty, cursors>>

Connect == phase = "none" /\ phase' = "idle" /\ UNCHANGED <<dirty, cursors>>

Begin   == phase = "idle" /\ phase' = "enlisted" /\ UNCHANGED <<dirty, cursors>>

(* A commit that was refused after SYNC_TRANSACTION leaves the transaction *)
(* open to further updates.                                                *)
Update ==
  /\ phase \in {"enlisted", "synced"}
  /\ phase' = "enlisted"
  /\ dirty' = TRUE
  /\ UNCHANGED cursors

Open  == phase \notin {"none", "ended"} /\ cursors' = cursors + 1 /\ UNCHANGED <<phase, dirty>>
Close == cursors > 0 /\ cursors' = cursors - 1 /\ UNCHANGED <<phase, dirty>>

Sync ==
  /\ phase \in {"enlisted", "synced"}
  /\ phase' = "synced"
  /\ UNCHANGED <<dirty, cursors>>

(* The object may be disconnected as soon as it has left the transaction.  *)
Leave ==
  /\ dirty' = FALSE
  /\ \/ phase' = "idle"
     \/ phase' = "ended" /\ cursors = 0
  /\ UNCHANGED cursors

Commit   == phase = "synced" /\ Leave
Rollback == phase \in {"enlisted", "synced"} /\ Leave

(* DROP, in or out of a transaction; DISCONNECT, only out of it.           *)
Drop ==
  /\ phase \notin {"none", "ended"} /\ cursors = 0
  /\ phase' = "ended" /\ dirty' = FALSE
  /\ UNCHANGED cursors

Disconnect ==
  /\ phase = "idle" /\ cursors = 0
  /\ phase' = "ended"
  /\ UNCHANGED <<dirty, cursors>>

Next ==
  \/ Create \/ Connect \/ Begin \/ Update
  \/ Open \/ Close
  \/ Sync \/ Commit \/ Rollback
  \/ Drop \/ Disconnect

Spec == Init /\ [][Next]_vars
=============================================================================
