---------------------------- MODULE SqliteEngine ----------------------------
(***************************************************************************)
(* The part of one sqlite3 connection that the driver's transaction code   *)
(* depends on: the engine's own auto-commit flag, its savepoint stack, the *)
(* contents the connection sees and the contents that would survive it.    *)
(*                                                                         *)
(* A connection is a record and an engine call is an operator from a       *)
(* connection to the SET of its possible outcomes, so that a driver        *)
(* function which makes several engine calls in a row remains one step of  *)
(* the driver's specification.                                             *)
(***************************************************************************)
EXTENDS Sequences, Integers

CONSTANTS
  Writes,     \* identities of the rows the application inserts
  Names,      \* savepoint names
  Handles,    \* statement handles prepared for a statement with columns
  Hazards     \* which failures and which unusual calls may happen

(* What may go wrong is a parameter: a run with fewer hazards can promise  *)
(* more.                                                                   *)
(*   BeginBusy         BEGIN cannot get its lock                           *)
(*   StmtFails         a statement fails and is undone by itself           *)
(*   AutoRollback      a statement fails and takes the transaction along   *)
(*   CommitBusy        COMMIT is refused (lock, deferred foreign key) and  *)
(*                     the transaction stays open                          *)
(*   CommitFails       COMMIT fails and the transaction is rolled back     *)
(*   StoreInBegunWork  the application sets AutoCommit=1 after begin_work  *)
AllHazards == {"BeginBusy", "StmtFails", "AutoRollback", "CommitBusy",
               "CommitFails", "StoreInBegunWork"}

ASSUME HazardsAssumption == Hazards \subseteq AllHazards

-----------------------------------------------------------------------------

(* One entry of the savepoint stack: its name and what ROLLBACK TO brings  *)
(* back.  The stack grows to the right.                                    *)
Savepoint == [name : Names, saved : SUBSET Writes]

Connection ==
  [autoCommit             : BOOLEAN,
   isTransactionSavepoint : BOOLEAN,
   pSavepoint             : Seq(Savepoint),
   work                   : SUBSET Writes,   \* what the connection reads
   disk                   : SUBSET Writes,   \* what the database file holds
   writing                : SUBSET Handles]  \* unfinished writing statements

Outcome == [ok : BOOLEAN, db : Connection]

Done(db)   == [ok |-> TRUE,  db |-> db]
Failed(db) == [ok |-> FALSE, db |-> db]

(* A failure that is only possible under hazard h. *)
MayFail(h, db) == IF h \in Hazards THEN {Failed(db)} ELSE {}

OpenConnection(contents) ==
  [autoCommit |-> TRUE, isTransactionSavepoint |-> FALSE, pSavepoint |-> <<>>,
   work |-> contents, disk |-> contents, writing |-> {}]

(* sqlite3RollbackAll: the file's contents come back. *)
RollbackAll(db) == [db EXCEPT !.work = db.disk]

(* sqlite3CloseSavepoints together with autoCommit = 1. *)
EndTransaction(db) ==
  [db EXCEPT !.autoCommit = TRUE, !.isTransactionSavepoint = FALSE,
             !.pSavepoint = <<>>]

MakeDurable(db) == [db EXCEPT !.disk = db.work]

(* OP_AutoCommit 0: BEGIN of any kind. *)
ExecBegin(db) ==
  IF db.autoCommit
    THEN {Done([db EXCEPT !.autoCommit = FALSE])} \cup MayFail("BeginBusy", db)
    ELSE {Failed(db)}

(* OP_AutoCommit 1: COMMIT.  It is refused outside a transaction and while *)
(* a writing statement is unfinished.  A busy COMMIT puts the engine's     *)
(* flag back; any other failure of the commit rolls everything back.       *)
ExecCommit(db) ==
  IF db.autoCommit \/ db.writing # {}
    THEN {Failed(db)}
    ELSE {Done(EndTransaction(MakeDurable(db)))}
         \cup MayFail("CommitBusy", db)
         \cup MayFail("CommitFails", EndTransaction(RollbackAll(db)))

(* OP_AutoCommit 1 with the rollback operand. *)
ExecRollback(db) ==
  {IF db.autoCommit THEN Failed(db) ELSE Done(EndTransaction(RollbackAll(db)))}

(* OP_Savepoint, SAVEPOINT_BEGIN: outside a transaction it opens one.      *)
ExecSavepoint(db, n) ==
  {IF db.writing # {}
     THEN Failed(db)
     ELSE Done([db EXCEPT
            !.autoCommit = FALSE,
            !.isTransactionSavepoint = db.isTransactionSavepoint \/ db.autoCommit,
            !.pSavepoint = Append(@, [name |-> n, saved |-> db.work])])}

Named(db, n) == {i \in DOMAIN db.pSavepoint : db.pSavepoint[i].name = n}

(* The search of OP_Savepoint finds the innermost savepoint of that name.  *)
Innermost(db, n) ==
  CHOOSE i \in Named(db, n) : \A j \in Named(db, n) : j <= i

(* Does RELEASE n commit the transaction?                                  *)
ReleaseCommits(db, n) ==
  /\ Named(db, n) # {}
  /\ db.isTransactionSavepoint
  /\ Innermost(db, n) = 1

(* OP_Savepoint, SAVEPOINT_RELEASE.  When the commit of a transaction      *)
(* savepoint fails, the engine turns its flag off again and keeps the      *)
(* stack, over whatever contents are left.                                 *)
ExecRelease(db, n) ==
  IF Named(db, n) = {} \/ db.writing # {}
    THEN {Failed(db)}
  ELSE IF ReleaseCommits(db, n)
    THEN {Done(EndTransaction(MakeDurable(db)))}
         \cup MayFail("CommitBusy", db)
         \cup MayFail("CommitFails",
                [RollbackAll(db) EXCEPT
                   !.pSavepoint = [i \in DOMAIN db.pSavepoint |->
                     [name |-> db.pSavepoint[i].name, saved |-> db.disk]]])
    ELSE {Done([db EXCEPT
            !.pSavepoint = SubSeq(@, 1, Innermost(db, n) - 1)])}

(* OP_Savepoint, SAVEPOINT_ROLLBACK: the named savepoint survives, those   *)
(* nested in it do not, and the transaction stays open.                    *)
ExecRollbackTo(db, n) ==
  {IF Named(db, n) = {}
     THEN Failed(db)
     ELSE Done([db EXCEPT
            !.pSavepoint = SubSeq(@, 1, Innermost(db, n)),
            !.work = db.pSavepoint[Innermost(db, n)].saved])}

(* sqlite3VdbeHalt of a writing statement that succeeded: in auto-commit   *)
(* mode the last writing statement to halt commits, and if that commit     *)
(* fails for any reason it rolls everything back.                          *)
HaltWriter(db) ==
  IF db.autoCommit /\ db.writing = {}
    THEN {Done(MakeDurable(db))}
         \cup MayFail("CommitBusy", RollbackAll(db))
         \cup MayFail("CommitFails", RollbackAll(db))
    ELSE {Done(db)}

(* sqlite3VdbeHalt of a statement that failed: undone alone, or together   *)
(* with the transaction.                                                   *)
HaltFailed(db) ==
  MayFail("StmtFails", db)
  \cup MayFail("AutoRollback", EndTransaction(RollbackAll(db)))

ExecInsert(db, w) ==
  HaltWriter([db EXCEPT !.work = @ \cup {w}]) \cup HaltFailed(db)

ExecSelect(db) == {Done(db)} \cup MayFail("StmtFails", db)

(* The first sqlite3_step of an INSERT ... RETURNING does the insertion    *)
(* and then yields rows: the statement is unfinished.                      *)
StepReturning(db, h, w) ==
  {Done([db EXCEPT !.work = @ \cup {w}, !.writing = @ \cup {h}])}
  \cup HaltFailed(db)

(* sqlite3_reset, sqlite3_finalize or the last sqlite3_step of h.          *)
Halt(db, h) ==
  IF h \in db.writing
    THEN HaltWriter([db EXCEPT !.writing = @ \ {h}])
    ELSE {Done(db)}

(* sqlite3_finalize of all unfinished statements and then sqlite3_close,   *)
(* which rolls back what is still open.                                    *)
Close(db) ==
  {OpenConnection(o.db.disk) :
     o \in IF db.writing = {} THEN {Done(db)}
                              ELSE HaltWriter([db EXCEPT !.writing = {}])}
=============================================================================
