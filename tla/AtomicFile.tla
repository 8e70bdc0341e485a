------------------------------ MODULE AtomicFile ------------------------------
(***************************************************************************)
(* What the pager promises of a database file: a transaction reaches it as *)
(* a whole or not at all, whatever fails on the way, and once a commit is  *)
(* safe no failure takes it back.                                          *)
(***************************************************************************)
CONSTANT Images   \* possible contents of the file

VARIABLES
  image,  \* the contents, as the next one to open the file will find them
  work,   \* the contents as the transaction in progress sees them
  safe    \* what image may fall back to when the power fails

Init == image \in Images /\ work = image /\ safe = image

Write == work' \in Images /\ UNCHANGED <<image, safe>>

Commit == image' = work /\ UNCHANGED <<work, safe>>

(* The commit is on the disk for good.                                     *)
Harden == safe' = image /\ UNCHANGED <<image, work>>

(* A rollback, or a process that gave up.                                  *)
Discard == work' = image /\ UNCHANGED <<image, safe>>

PowerLoss ==
  /\ image' \in {image, safe}
  /\ work' = image' /\ safe' = image'

Next == Write \/ Commit \/ Harden \/ Discard \/ PowerLoss

Spec == Init /\ [][Next]_<<image, work, safe>>
=============================================================================
