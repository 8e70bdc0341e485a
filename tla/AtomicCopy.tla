------------------------------ MODULE AtomicCopy ------------------------------
(***************************************************************************)
(* What the backup methods promise: the database is copied as it is at one *)
(* moment and the answer is true, or nothing is copied and it is false.    *)
(* In between other connections go on with their transactions, on any      *)
(* file; what the call itself does can be told from what they do because   *)
(* it gets on by it.                                                       *)
(***************************************************************************)
CONSTANTS Files, Images

VARIABLES
  contents,  \* what each database holds
  asked,     \* the databases of the call in progress: from, to
  progress,  \* how far it has got, any value: it never stays where it is
  copied,    \* has the call copied?
  answer     \* of the last call

NoCall == [from |-> "none", to |-> "none"]

Init ==
  /\ contents \in [Files -> Images]
  /\ asked = NoCall /\ copied = FALSE /\ answer = "none"

(* Somebody else's transaction.                                            *)
Change ==
  /\ \E f \in Files, i \in Images : contents' = [contents EXCEPT ![f] = i]
  /\ UNCHANGED <<asked, progress, copied, answer>>

(* What the call does: it leaves every database alone but for Copy, which  *)
(* it may do once, and without which the answer is false.                  *)
Goes == asked # NoCall /\ progress' # progress

Ask ==
  /\ asked = NoCall
  /\ \E f, g \in Files : asked' = [from |-> f, to |-> g]
  /\ progress' # progress
  /\ copied' = FALSE
  /\ UNCHANGED <<contents, answer>>

Proceed == Goes /\ UNCHANGED <<contents, asked, copied, answer>>

Copy ==
  /\ Goes /\ ~copied
  /\ contents' = [contents EXCEPT ![asked.to] = contents[asked.from]]
  /\ copied' = TRUE
  /\ UNCHANGED <<asked, answer>>

Answer ==
  /\ Goes
  /\ answer' = IF copied THEN "true" ELSE "false"
  /\ asked' = NoCall /\ copied' = FALSE
  /\ UNCHANGED contents

(* A call that is refused at once.                                         *)
Refuse ==
  /\ asked = NoCall
  /\ answer' = "false"
  /\ UNCHANGED <<contents, asked, progress, copied>>

Next == Change \/ Ask \/ Proceed \/ Copy \/ Answer \/ Refuse

Spec == Init /\ [][Next]_<<contents, asked, progress, copied, answer>>
=============================================================================
