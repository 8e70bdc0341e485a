-------------------------- MODULE MCRollbackJournal --------------------------
(* Settings for the TLC runs of RollbackJournal.                           *)
EXTENDS RollbackJournal

Anything == {"operation", "process", "power"}

Sets(sync, mode, what, pages, fails) ==
  [synchronous |-> sync, journal_mode |-> mode, faults |-> what,
   writes |-> pages, failures |-> fails]

(* Journals that are deleted, and whatever may fail (without syncs the     *)
(* power is left on: nothing is promised then); and journals that are      *)
(* kept, and processes that die: two transactions may be given up, and     *)
(* others meet what they left in the journal.                              *)
MCSettings ==
  {Sets("FULL", "DELETE", Anything, 4, 2),
   Sets("NORMAL", "DELETE", Anything, 4, 2),
   Sets("EXTRA", "DELETE", Anything, 4, 1),
   Sets("OFF", "DELETE", {"operation", "process"}, 4, 2),
   Sets("NORMAL", "PERSIST", {"process"}, 6, 2),
   Sets("FULL", "PERSIST", {"process"}, 5, 2),
   Sets("OFF", "PERSIST", {"process"}, 4, 2)}

(* A journal that is kept, and processes that die.                         *)
DocSettings == {Sets("FULL", "PERSIST", {"process"}, 5, 1)}

(* A kept journal with the remains of two transactions that were given up; *)
(* what dies is a process, or an operation of a commit may fail too.       *)
KeptSettings == {Sets("NORMAL", "PERSIST", {"process"}, 7, 2)}
RemainsSettings == {Sets("NORMAL", "PERSIST", {"operation", "process"}, 7, 2)}

(* Where the journal is kept, transactions of few pages are enough to      *)
(* leave remains and to meet them: one page besides the first is in the    *)
(* journal or in the cache at a time.                                      *)
FewPages ==
  deletes \/ /\ Len(journal.now) <= 4
             /\ Cardinality((pager.dirty \cup pager.inJournal) \ {1}) <= 1
=============================================================================
