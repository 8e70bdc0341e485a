----------------------------- MODULE DoStatements -----------------------------
(***************************************************************************)
(* $dbh->do() of a text of several statements.  There are two ways through *)
(* it.  _do() hands the whole text to the engine (sqlite3_exec) and looks  *)
(* at its first word before and at the engine's auto-commit flag after.    *)
(* With attributes or values to bind, a loop in Perl prepares and executes *)
(* one statement at a time.  The text is chosen as it is run: each step    *)
(* runs the next statement, and the application does nothing in between.   *)
(***************************************************************************)
EXTENDS DbhTransaction

CONSTANTS
  MaxStatements,  \* bound on the statements of a text
  AnyOrder        \* may a text handed to _do() open a transaction after its
                  \* first statement, or go on after ending one?

ASSUME DoAssumption == MaxStatements \in Nat /\ AnyOrder \in BOOLEAN

VARIABLES
  doing,    \* the do() in progress
  changes,  \* sqlite3_changes: rows of the last INSERT, whoever ran it
  result    \* of the last do(): what it returned, and what was right

doVars == <<dbh, db, sth, asked, last, doing, changes, result>>

(* before: what the file held when the do() began, when its last statement *)
(* ended a transaction, or when its last statement ran with AutoCommit on; *)
(* ended: some statement of _do() has ended a transaction.                 *)
Idle == [via |-> "none", run |-> 0, rows |-> 0, affected |-> 0, before |-> {},
         ended |-> FALSE]

DoInit ==
  /\ Init
  /\ doing = Idle
  /\ changes = 0
  /\ result = [ok |-> TRUE, rows |-> 0, affected |-> 0]

(* do() returns rows, or undef when ok is FALSE.                           *)
ReturnFromDo(ok, rows, affected) ==
  /\ doing' = Idle
  /\ result' = [ok |-> ok, rows |-> rows, affected |-> affected]

(* The next statement succeeded and changed n rows; rows are those the     *)
(* loop adds up.  Did it leave a transaction that was open before it?      *)
GoOn(via, rows, n, left) ==
  /\ doing' = [via |-> via, run |-> doing.run + 1, rows |-> doing.rows + rows,
               affected |-> doing.affected + n,
               ended |-> doing.ended \/ (via = "exec" /\ left),
               before |-> IF left \/ dbh'.AutoCommit THEN db'.disk
                          ELSE IF doing.via = "none" THEN db.disk
                          ELSE doing.before]
  /\ UNCHANGED result

(* sqlite3_exec and the loop both stop at the first error; what was run    *)
(* before it stays done.  $sth->rows is the engine's count after any       *)
(* statement without result columns, 0 after a SELECT.                     *)
Flow(via, stmt, ok, left) ==
  IF ok
    THEN GoOn(via, IF via = "loop" /\ stmt # "SELECT" THEN changes' ELSE 0,
              IF stmt = "INSERT" THEN 1 ELSE 0, left)
    ELSE ReturnFromDo(FALSE, 0, doing.affected)

(* The flags once execute of the loop has run a statement.                 *)
FlagsAfter(stmt, flags, d) ==
  IF stmt # "SELECT"
    THEN FlagsAtEnd(flags, d)
  ELSE IF flags.AutoCommit /\ ~d.autoCommit
    THEN [flags EXCEPT !.BegunWork = TRUE, !.AutoCommit = FALSE]
    ELSE flags

(* The engine runs one statement of the text.                              *)
RunStatement(via, flags, d, stmt, n, w) ==
  /\ doing.run < MaxStatements
  /\ \E o \in Exec(d, stmt, n, w) :
       /\ db' = o.db
       /\ dbh' = IF via = "loop" /\ o.ok THEN FlagsAfter(stmt, flags, o.db) ELSE flags
       /\ asked' = asked \cup (IF o.ok THEN Promised(d, stmt, n, w) ELSE {})
       /\ changes' = IF stmt = "INSERT" THEN (IF o.ok THEN 1 ELSE 0) ELSE changes
       /\ Returned(stmt, o.ok)
       /\ Flow(via, stmt, o.ok, o.db.autoCommit /\ ~d.autoCommit)
  /\ UNCHANGED sth

(* The first statement of _do(), any statement of the loop: the driver     *)
(* looks at the first word, and issues BEGIN if it must.                   *)
AfterBegin(via, stmt, n, w) ==
  \E b \in ImplicitBegin(db, stmt) :
    IF b.ok
      THEN RunStatement(via, FlagsAtBegin(stmt, via = "loop"), b.db, stmt, n, w)
      ELSE /\ db' = b.db
           /\ Returned(stmt, FALSE)
           /\ ReturnFromDo(FALSE, 0, doing.affected)
           /\ UNCHANGED <<dbh, sth, asked, changes>>

(* sqlite_db_do_sv up to the first statement.                              *)
DoExec(stmt, n, w) ==
  /\ doing.via = "none" /\ dbh.Active
  /\ AfterBegin("exec", stmt, n, w)

(* sqlite3_exec goes on by itself: nobody looks at these statements.       *)
ExecNext(stmt, n, w) ==
  /\ doing.via = "exec"
  /\ AnyOrder \/ ~(doing.ended \/ StartsWithBegin(stmt))
  /\ RunStatement("exec", dbh, db, stmt, n, w)

(* The rest of sqlite_db_do_sv.                                            *)
ExecEnd ==
  /\ doing.via = "exec"
  /\ dbh' = FlagsAtEnd(dbh, db)
  /\ ReturnFromDo(TRUE, changes, doing.affected)
  /\ UNCHANGED <<db, sth, asked, last, changes>>

(* DBD::SQLite::db::do: prepare and execute the next statement.            *)
LoopNext(stmt, n, w) ==
  /\ doing.via \in {"none", "loop"} /\ dbh.Active
  /\ AfterBegin("loop", stmt, n, w)

(* The text is used up; or what is left of it is white space or a comment, *)
(* for which prepare succeeds without a statement and rows stays -1.       *)
LoopEnd ==
  /\ doing.via = "loop"
  /\ \E rest \in {0, -1} : ReturnFromDo(TRUE, doing.rows + rest, doing.affected)
  /\ UNCHANGED <<dbh, db, sth, asked, last, changes>>

OtherCall ==
  /\ doing.via = "none"
  /\ \/ /\ \/ BeginWork \/ AutoCommitOff \/ AutoCommitOn
           \/ Commit \/ Rollback \/ Disconnect
           \/ \E h \in Returning, w \in Fresh : ExecuteQuery(h, w)
           \/ \E h \in Handles \ Returning : ExecuteQuery(h, "")
           \/ \E h \in Handles : Fetch(h) \/ Finish(h)
        /\ UNCHANGED changes
     \/ /\ \E on \in BOOLEAN : Connect(on)
        /\ changes' = 0
  /\ UNCHANGED <<doing, result>>

Statement(stmt, n, w) ==
  DoExec(stmt, n, w) \/ ExecNext(stmt, n, w) \/ LoopNext(stmt, n, w)

DoNext ==
  \/ \E w \in Fresh : Statement("INSERT", "", w)
  \/ \E stmt \in {"SELECT", "BEGIN", "COMMIT", "ROLLBACK"} : Statement(stmt, "", "")
  \/ \E n \in Names, stmt \in {"SAVEPOINT", "RELEASE", "ROLLBACK TO"} :
       /\ stmt = "SAVEPOINT" => Len(db.pSavepoint) < MaxSavepoints
       /\ Statement(stmt, n, "")
  \/ ExecEnd \/ LoopEnd \/ OtherCall

DoSpec == DoInit /\ [][DoNext]_doVars

-----------------------------------------------------------------------------

(* Shape of the state; a do() in progress has run a statement.             *)
DoTypeOK ==
  /\ TypeOK
  /\ doing \in [via : {"none", "exec", "loop"}, run : 0..MaxStatements,
                rows : 0..MaxStatements, affected : 0..MaxStatements,
                before : SUBSET Writes, ended : BOOLEAN]
  /\ changes \in 0..1
  /\ result \in [ok : BOOLEAN, rows : -1..MaxStatements, affected : 0..MaxStatements]
  /\ doing.via = "none" <=> doing.run = 0

(* Nobody looks at the statements of _do() behind the first, and yet with  *)
(* AutoCommit off each of them finds the engine in a transaction, unless   *)
(* the text itself has ended one: the BEGIN issued before the first        *)
(* statement is enough for the whole text, whatever its statements do and  *)
(* whatever state the calls before it left behind (sqlite_db_do_sv).       *)
LaterStatementsAreInTheTransaction ==
  [][ /\ doing.via = "exec" /\ doing'.via = "exec"
      /\ ~dbh.AutoCommit /\ ~doing.ended
      => ~db.autoCommit ]_doVars

(* With AutoCommit off, a do() that fails behind its first statement has   *)
(* made nothing durable except by statements of its own that ended a       *)
(* transaction or ran while AutoCommit was still on: the rest of what it   *)
(* did can be rolled back.  The loop keeps this for every text, since it   *)
(* issues BEGIN again after a COMMIT.  _do() keeps it for texts that end   *)
(* no transaction; behind one that does, its statements are committed one  *)
(* by one (AnotherTransactionBegins below), and the property says nothing  *)
(* of them (sqlite_db_do_sv, DBD::SQLite::db::do).                         *)
FailureLeavesAllToRollback ==
  [][ /\ doing.via # "none" /\ doing'.via = "none" /\ ~result'.ok
      /\ ~dbh.AutoCommit /\ ~doing.ended
      => db'.disk = doing.before ]_doVars

-----------------------------------------------------------------------------
(* Statements of the documentation and the tests, each checked alone.      *)

(* lib/DBD/SQLite.pm:1457-1459: after a BEGIN, "$dbh->{AutoCommit} is      *)
(* turned off temporarily during a transaction".                           *)
AutoCommitIsOffDuringATransaction ==
  doing.via = "none" /\ dbh.Active /\ dbh.AutoCommit => db.autoCommit

(* lib/DBD/SQLite.pm:1472-1473: after a commit in transactional mode,      *)
(* "Another transaction will automatically begin if you execute another    *)
(* statement" -- so nothing the statement does is durable yet.             *)
AnotherTransactionBegins ==
  [][ /\ last'.call = "INSERT" /\ last'.ok
      /\ ~dbh.AutoCommit /\ ~dbh.BegunWork
      => db'.disk = db.disk ]_doVars

(* t/15_ak_dbd.t:69-70: "After execution, the number of rows affected by   *)
(* the statement will be returned" -- do() adds these numbers up.          *)
RowsAreThoseAffected == result.ok /\ doing.via = "none" => result.rows = result.affected
=============================================================================
