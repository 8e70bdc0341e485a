--------------------------- MODULE DbhTransaction ---------------------------
(***************************************************************************)
(* Transactions of one database handle: the AutoCommit and BegunWork flags *)
(* DBI keeps in the handle, the driver's began_transaction field, and the  *)
(* connection underneath.  Every action is one call of the application,    *)
(* with everything the driver does in it.                                  *)
(*                                                                         *)
(* AutoCommit is a mode of the driver, independent of the auto-commit flag *)
(* of the engine: the driver issues BEGIN lazily, before the first         *)
(* statement that needs it, and guesses from the text of a statement and   *)
(* from the engine's flag when a transaction begins and ends.              *)
(***************************************************************************)
EXTENDS SqliteEngine

CONSTANTS
  MaxSavepoints,   \* bound on the savepoint stack
  Returning        \* the handles that hold INSERT ... RETURNING;
                   \* the others hold a SELECT

ASSUME HandleAssumption == Returning \subseteq Handles /\ MaxSavepoints \in Nat

VARIABLES
  dbh,     \* flags of the database handle
  db,      \* imp_dbh->db
  sth,     \* per statement handle: inactive, or imp_sth->retval
  asked,   \* history: rows whose durability a successful call has promised
  last     \* the last call and whether it raised no error

vars == <<dbh, db, sth, asked, last>>

Flags == [Active : BOOLEAN, AutoCommit : BOOLEAN, BegunWork : BOOLEAN,
          began_transaction : BOOLEAN]

(* "error": the step after the last row failed and the statement has yet   *)
(* to be reset; "stale", "reset": already reset by an execute that failed, *)
(* but still active, with the code of the failure or with SQLITE_OK.       *)
SthState == {"inactive", "row", "done", "error", "stale", "reset"}

Calls == {"connect", "begin_work", "AutoCommit=1", "AutoCommit=0",
          "commit", "rollback", "disconnect", "execute query", "fetch",
          "finish", "INSERT", "SELECT", "BEGIN", "COMMIT", "ROLLBACK",
          "SAVEPOINT", "RELEASE", "ROLLBACK TO"}

Statements == {"INSERT", "SELECT", "BEGIN", "COMMIT", "ROLLBACK",
               "SAVEPOINT", "RELEASE", "ROLLBACK TO"}

Returned(call, ok) == last' = [call |-> call, ok |-> ok]

-----------------------------------------------------------------------------

(* sqlite_db_login6, with the AutoCommit attribute of the connect call.    *)
Connected(on) ==
  [Active |-> TRUE, AutoCommit |-> on, BegunWork |-> FALSE,
   began_transaction |-> FALSE]

Init ==
  /\ dbh = Connected(TRUE)
  /\ db = OpenConnection({})
  /\ sth = [h \in Handles |-> "inactive"]
  /\ asked = {}
  /\ last = [call |-> "connect", ok |-> TRUE]

Connect(on) ==
  /\ ~dbh.Active
  /\ dbh' = Connected(on)
  /\ db' = OpenConnection(db.disk)
  /\ sth' = [h \in Handles |-> "inactive"]
  /\ UNCHANGED asked
  /\ Returned("connect", TRUE)

(* Rows no call has used: an INSERT is given one of them.                  *)
Fresh == Writes \ (db.work \cup asked)

-----------------------------------------------------------------------------

StartsWithBegin(stmt) == stmt \in {"BEGIN", "SAVEPOINT"}

(* Mutant of FlagsAtBegin: an explicit BEGIN goes unnoticed.               *)
FlagsAtBegin_Unnoticed(stmt, viaExecute) == dbh

(* The flags after a BEGIN that the engine has yet to run: sqlite_db_do_sv *)
(* and sqlite_st_execute differ when BegunWork is already on.              *)
FlagsAtBegin(stmt, viaExecute) ==
  IF db.autoCommit /\ StartsWithBegin(stmt) /\ dbh.AutoCommit
       /\ (viaExecute \/ ~dbh.BegunWork)
    THEN [dbh EXCEPT !.AutoCommit = FALSE, !.BegunWork = TRUE,
                     !.began_transaction = @ \/ ~dbh.BegunWork]
    ELSE dbh

(* Mutants of ImplicitBegin: never issued; issued after begin_work only.   *)
ImplicitBegin_Never(d, stmt) == {Done(d)}
ImplicitBegin_BegunWorkOnly(d, stmt) ==
  IF d.autoCommit /\ ~StartsWithBegin(stmt) /\ dbh.BegunWork
    THEN ExecBegin(d)
    ELSE {Done(d)}

(* The BEGIN the driver issues itself when AutoCommit is off.              *)
ImplicitBegin(d, stmt) ==
  IF d.autoCommit /\ ~StartsWithBegin(stmt) /\ ~dbh.AutoCommit
    THEN ExecBegin(d)
    ELSE {Done(d)}

(* Mutant of FlagsAtEnd: the engine is not asked whether the transaction   *)
(* has ended.                                                              *)
FlagsAtEnd_NotAsked(flags, d) ==
  IF flags.BegunWork /\ flags.began_transaction
    THEN [flags EXCEPT !.BegunWork = FALSE, !.AutoCommit = TRUE]
    ELSE flags

(* "transaction ended with commit/rollback/release"                        *)
FlagsAtEnd(flags, d) ==
  IF flags.BegunWork /\ d.autoCommit /\ flags.began_transaction
    THEN [flags EXCEPT !.BegunWork = FALSE, !.AutoCommit = TRUE]
    ELSE flags

(* The engine running a statement without result columns.                  *)
Exec(d, stmt, n, w) ==
  CASE stmt = "INSERT"      -> ExecInsert(d, w)
    [] stmt = "SELECT"      -> ExecSelect(d)
    [] stmt = "BEGIN"       -> ExecBegin(d)
    [] stmt = "COMMIT"      -> ExecCommit(d)
    [] stmt = "ROLLBACK"    -> ExecRollback(d)
    [] stmt = "SAVEPOINT"   -> ExecSavepoint(d, n)
    [] stmt = "RELEASE"     -> ExecRelease(d, n)
    [] stmt = "ROLLBACK TO" -> ExecRollbackTo(d, n)

(* What a successful statement promises: an INSERT outside a transaction   *)
(* its row, a statement that ends the transaction all the rows in it.      *)
Promised(d, stmt, n, w) ==
  IF stmt = "INSERT" /\ dbh.AutoCommit
    THEN {w}
  ELSE IF stmt = "COMMIT" \/ (stmt = "RELEASE" /\ ReleaseCommits(d, n))
    THEN d.work
    ELSE {}

(* sqlite_db_do_sv, or sqlite_st_execute of a statement without columns.   *)
Run(stmt, n, w, viaExecute) ==
  /\ dbh.Active
  /\ \E b \in ImplicitBegin(db, stmt) :
       IF b.ok
         THEN \E o \in Exec(b.db, stmt, n, w) :
                LET flags == FlagsAtBegin(stmt, viaExecute) IN
                /\ db' = o.db
                /\ dbh' = IF o.ok THEN FlagsAtEnd(flags, o.db) ELSE flags
                /\ asked' = asked \cup
                     (IF o.ok THEN Promised(b.db, stmt, n, w) ELSE {})
                /\ Returned(stmt, o.ok)
         ELSE /\ db' = b.db
              /\ Returned(stmt, FALSE)
              /\ UNCHANGED <<dbh, asked>>
  /\ UNCHANGED sth

-----------------------------------------------------------------------------

(* The statement is reset first when it is still active.  Resetting one    *)
(* whose last step failed reports that failure again.                      *)
ResetAtExecute(h) ==
  IF sth[h] = "error" THEN {Failed(db)} ELSE Halt(db, h)

(* The first step of a query: what the handle's retval becomes.            *)
FirstStep(d, h, w) ==
  IF h \in Returning
    THEN StepReturning(d, h, w) \X {"row"}
    ELSE ExecSelect(d) \X {"row", "done"}

(* An execute that fails on the way leaves a handle that was active so.    *)
QueryFailed(h, d, retval) ==
  /\ db' = d
  /\ sth' = [sth EXCEPT ![h] = IF @ = "inactive" THEN @ ELSE retval]
  /\ Returned("execute query", FALSE)
  /\ UNCHANGED <<dbh, asked>>

QueryStepped(h, w, d, retval) ==
  /\ db' = d
  /\ sth' = [sth EXCEPT ![h] = retval]
  /\ dbh' = IF dbh.AutoCommit /\ ~d.autoCommit
              THEN [dbh EXCEPT !.BegunWork = TRUE, !.AutoCommit = FALSE]
              ELSE dbh
  /\ asked' = asked \cup
       (IF h \in Returning /\ dbh.AutoCommit THEN {w} ELSE {})
  /\ Returned("execute query", TRUE)

(* The BEGIN if none is open, and the first step.                          *)
StepQuery(h, w, d) ==
  \E b \in ImplicitBegin(d, "SELECT") :
    IF b.ok
      THEN \E s \in FirstStep(b.db, h, w) :
             IF s[1].ok THEN QueryStepped(h, w, s[1].db, s[2])
                        ELSE QueryFailed(h, s[1].db, "stale")
      ELSE QueryFailed(h, b.db, "reset")

(* sqlite_st_execute of a statement with result columns.                   *)
ExecuteQuery(h, w) ==
  /\ dbh.Active
  /\ \E r \in ResetAtExecute(h) :
       IF r.ok THEN StepQuery(h, w, r.db) ELSE QueryFailed(h, r.db, "stale")

(* sqlite_st_finish3 of an active handle, and the finish sqlite_st_fetch   *)
(* does when no row is left.                                               *)
FinishHandle(h, call) ==
  /\ \E o \in Halt(db, h) :
       /\ db' = o.db
       /\ Returned(call, o.ok /\ sth[h] # "error")
  /\ sth' = [sth EXCEPT ![h] = "inactive"]
  /\ UNCHANGED <<dbh, asked>>

(* sqlite_st_fetch returns the current row and steps to the next one.      *)
Fetch(h) ==
  /\ dbh.Active
  /\ \/ /\ sth[h] = "row"
        /\ \/ /\ db' = db
              /\ sth' = [sth EXCEPT ![h] = "row"]
           \/ \E o \in Halt(db, h) :
                /\ db' = o.db
                /\ sth' = [sth EXCEPT ![h] = IF o.ok THEN "done" ELSE "error"]
           \/ \E o \in IF h \in Returning THEN {} ELSE MayFail("StmtFails", db) :
                /\ db' = o.db
                /\ sth' = [sth EXCEPT ![h] = "error"]
        /\ Returned("fetch", TRUE)
        /\ UNCHANGED <<dbh, asked>>
     \/ /\ sth[h] = "done"
        /\ FinishHandle(h, "fetch")
     \/ /\ sth[h] \in {"error", "stale", "reset"}
        /\ db' = db
        /\ sth' = [sth EXCEPT ![h] = "inactive"]
        /\ Returned("fetch", sth[h] = "reset")
        /\ UNCHANGED <<dbh, asked>>

Finish(h) ==
  /\ dbh.Active
  /\ sth[h] # "inactive"
  /\ FinishHandle(h, "finish")

-----------------------------------------------------------------------------

(* DBI's begin_work: AutoCommit off through the driver's STORE, then the   *)
(* flag that says so.                                                      *)
BeginWork ==
  /\ dbh.Active
  /\ dbh' = IF dbh.AutoCommit
              THEN [dbh EXCEPT !.AutoCommit = FALSE, !.BegunWork = TRUE]
              ELSE dbh
  /\ Returned("begin_work", dbh.AutoCommit)
  /\ UNCHANGED <<db, sth, asked>>

(* The AutoCommit branch of sqlite_db_STORE_attrib.                        *)
AutoCommitOff ==
  /\ dbh.Active
  /\ dbh' = [dbh EXCEPT !.AutoCommit = FALSE]
  /\ Returned("AutoCommit=0", TRUE)
  /\ UNCHANGED <<db, sth, asked>>

AutoCommitOn ==
  /\ dbh.Active
  /\ dbh.BegunWork => "StoreInBegunWork" \in Hazards
  /\ \E o \in IF dbh.AutoCommit \/ db.autoCommit THEN {Done(db)}
                                                 ELSE ExecCommit(db) :
       /\ db' = o.db
       /\ dbh' = [dbh EXCEPT !.AutoCommit = @ \/ o.ok]
       /\ asked' = asked \cup
            (IF o.ok /\ ~dbh.AutoCommit THEN db.work ELSE {})
       /\ Returned("AutoCommit=1", o.ok)
  /\ UNCHANGED sth

(* Both end-of-work functions hand AutoCommit back before they touch the   *)
(* engine.                                                                 *)
LeaveBegunWork(flags) ==
  IF flags.BegunWork
    THEN [flags EXCEPT !.BegunWork = FALSE, !.AutoCommit = TRUE]
    ELSE flags

(* DBI's own end-of-work handling after commit and rollback.               *)
DbiEndWork(flags) == [flags EXCEPT !.BegunWork = FALSE]

(* Mutant of Commit: the flags are handed back before AutoCommit is tested. *)
Commit_FlagsFirst ==
  /\ dbh.Active
  /\ \E o \in IF LeaveBegunWork(dbh).AutoCommit \/ db.autoCommit
                THEN {Done(db)} ELSE ExecCommit(db) :
       /\ db' = o.db
       /\ asked' = asked \cup (IF o.ok THEN db.work ELSE {})
       /\ Returned("commit", o.ok)
  /\ dbh' = DbiEndWork(LeaveBegunWork(dbh))
  /\ UNCHANGED sth

(* sqlite_db_commit                                                        *)
Commit ==
  /\ dbh.Active
  /\ \E o \in IF dbh.AutoCommit \/ db.autoCommit THEN {Done(db)}
                                                 ELSE ExecCommit(db) :
       /\ db' = o.db
       /\ asked' = asked \cup (IF o.ok THEN db.work ELSE {})
       /\ Returned("commit", o.ok)
  /\ dbh' = DbiEndWork(IF dbh.AutoCommit THEN dbh ELSE LeaveBegunWork(dbh))
  /\ UNCHANGED sth

(* Mutants of RollbackConnection: the engine is not told; it is told to    *)
(* commit; the early return of sqlite_db_commit is repeated here.          *)
RollbackConnection_Forgotten == {Done(db)}
RollbackConnection_Commits == IF db.autoCommit THEN {Done(db)} ELSE ExecCommit(db)
RollbackConnection_EarlyReturn ==
  IF dbh.AutoCommit \/ db.autoCommit THEN {Done(db)} ELSE ExecRollback(db)

(* sqlite_db_rollback, also the first thing sqlite_db_disconnect does.     *)
RollbackConnection == IF db.autoCommit THEN {Done(db)} ELSE ExecRollback(db)

Rollback ==
  /\ dbh.Active
  /\ \E o \in RollbackConnection :
       /\ db' = o.db
       /\ Returned("rollback", o.ok)
  /\ dbh' = DbiEndWork(LeaveBegunWork(dbh))
  /\ UNCHANGED <<sth, asked>>

(* sqlite_db_disconnect, and the DESTROY of an active handle: roll back    *)
(* when AutoCommit is off, then finalize and close.                        *)
Disconnect ==
  /\ dbh.Active
  /\ \E o \in IF dbh.AutoCommit THEN {Done(db)} ELSE RollbackConnection :
       db' \in Close(o.db)
  /\ dbh' = [(IF dbh.AutoCommit THEN dbh ELSE LeaveBegunWork(dbh))
               EXCEPT !.Active = FALSE]
  /\ Returned("disconnect", TRUE)
  /\ UNCHANGED <<sth, asked>>

-----------------------------------------------------------------------------

Next ==
  \/ \E on \in BOOLEAN : Connect(on)
  \/ BeginWork \/ AutoCommitOff \/ AutoCommitOn
  \/ Commit \/ Rollback \/ Disconnect
  \/ \E viaExecute \in BOOLEAN :
       \/ \E w \in Fresh : Run("INSERT", "", w, viaExecute)
       \/ \E stmt \in {"SELECT", "BEGIN", "COMMIT", "ROLLBACK"} :
            Run(stmt, "", "", viaExecute)
       \/ \E n \in Names, stmt \in {"SAVEPOINT", "RELEASE", "ROLLBACK TO"} :
            /\ stmt = "SAVEPOINT" => Len(db.pSavepoint) < MaxSavepoints
            /\ Run(stmt, n, "", viaExecute)
  \/ \E h \in Returning, w \in Fresh : ExecuteQuery(h, w)
  \/ \E h \in Handles \ Returning : ExecuteQuery(h, "")
  \/ \E h \in Handles : Fetch(h) \/ Finish(h)

Spec == Init /\ [][Next]_vars

-----------------------------------------------------------------------------

(* The engine has savepoints only in a transaction, and marks one as the   *)
(* transaction's own only when there is one: the assertions at the head of *)
(* OP_Savepoint.                                                           *)
SavepointsNeedTransaction ==
  /\ db.autoCommit => db.pSavepoint = <<>>
  /\ db.isTransactionSavepoint => db.pSavepoint # <<>>

(* Shape of the state, and of the engine's savepoint stack.                *)
TypeOK ==
  /\ dbh \in Flags
  /\ db \in Connection
  /\ sth \in [Handles -> SthState]
  /\ asked \subseteq Writes
  /\ last \in [call : Calls, ok : BOOLEAN]
  /\ SavepointsNeedTransaction

(* Nothing reaches the file unless a call that promises it has succeeded:  *)
(* whatever mixture of modes, savepoints and failures led here, rows       *)
(* inserted while AutoCommit is off stay out of the file until a commit    *)
(* (the lazy BEGIN of sqlite_db_do_sv and sqlite_st_execute, the rollback  *)
(* of sqlite_db_disconnect).                                               *)
NothingUnasked == db.disk \subseteq asked

(* A row whose INSERT succeeded with AutoCommit on, or that a successful   *)
(* commit covered, is in the file as soon as no writing statement is       *)
(* unfinished.  Needs the flags and the engine to agree on when a          *)
(* transaction is open.                                                    *)
PromisesKept == db.writing = {} => asked \subseteq db.disk

(* The handle claims auto-commit mode only when the engine has no          *)
(* transaction open.                                                       *)
AutoCommitMeansNoTransaction == dbh.Active /\ dbh.AutoCommit => db.autoCommit

(* With AutoCommit off, a statement that succeeds leaves a transaction     *)
(* open, whichever path ran it.                                            *)
LazyBegin ==
  [][ /\ ~dbh.AutoCommit
      /\ last'.call \in {"INSERT", "SELECT", "execute query"}
      /\ last'.ok
      => ~db'.autoCommit ]_vars

(* commit() that succeeds with AutoCommit off makes durable all the        *)
(* connection could see, and leaves no transaction open.                   *)
CommitMakesDurable ==
  [][ /\ last'.call = "commit" /\ last'.ok
      /\ ~dbh.AutoCommit /\ db.writing = {}
      => db'.autoCommit /\ db'.disk = db.work ]_vars

(* rollback() never fails, never changes the file, ends the transaction    *)
(* even when the flags have lost track of it, and lets the connection see  *)
(* the file's contents again.                                              *)
RollbackDiscards ==
  [][ last'.call = "rollback"
      => /\ last'.ok
         /\ db'.autoCommit
         /\ db'.disk = db.disk
         /\ db.writing = {} => db'.work = db.disk ]_vars

(* A handle that is given up with AutoCommit off leaves the file as its    *)
(* last commit left it, unless a writing statement from auto-commit mode   *)
(* was still unfinished.                                                   *)
DisconnectRollsBack ==
  [][ last'.call = "disconnect" /\ ~dbh.AutoCommit /\ db.writing = {}
      => db'.disk = db.disk ]_vars

(* The driver and the engine together keep TxnContract: the mode is the    *)
(* AutoCommit flag, what waits is what the connection sees beyond the      *)
(* file.  Holds where no writing statement is left unfinished and no       *)
(* hazard drives the flags and the engine apart.                           *)
Contract == INSTANCE TxnContract WITH
  connected <- dbh.Active,
  auto      <- dbh.AutoCommit,
  durable   <- db.disk,
  waiting   <- db.work \ db.disk

ImplementsContract == Contract!Spec

-----------------------------------------------------------------------------
(* Statements of the documentation and the tests, each checked alone.      *)

(* lib/DBD/SQLite.pm:1461-1463: "$dbh->commit; # or $dbh->do('COMMIT');    *)
(* # $dbh->{AutoCommit} is turned on again;"                               *)
CommitStatementRestoresAutoCommit ==
  [][ last'.call = "COMMIT" /\ last'.ok /\ dbh.BegunWork
      => dbh'.AutoCommit ]_vars

(* lib/DBD/SQLite.pm:1459: "$dbh->{AutoCommit} is turned off temporarily   *)
(* during a transaction" -- and a BEGIN that failed began none.            *)
FailedBeginKeepsAutoCommit ==
  [][ last'.call = "BEGIN" /\ ~last'.ok /\ dbh.AutoCommit
      => dbh'.AutoCommit ]_vars

(* lib/DBD/SQLite.pm:1471-1472: in transactional mode, "if you don't issue *)
(* a BEGIN, it will be issued internally".                                 *)
BeginIssuedInternally ==
  [][ /\ last'.call = "SAVEPOINT" /\ last'.ok
      /\ ~dbh.AutoCommit /\ db.autoCommit
      => ~db'.isTransactionSavepoint ]_vars

(* lib/DBD/SQLite.pm:1525: "SQLite prohibits ROLLBACK of unfinished SELECT *)
(* statements in a transaction".                                           *)
RollbackProhibitedWhileSelecting ==
  [][ /\ last'.call = "rollback" /\ ~db.autoCommit
      /\ \E h \in Handles \ Returning : sth[h] = "row"
      => ~last'.ok ]_vars
=============================================================================
