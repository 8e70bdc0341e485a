# DBD::SQLite in TLA+

DBD::SQLite is the DBI driver for SQLite: a C layer (`dbdimp.c`, its
`.inc` files and `SQLite.xs`) between Perl's DBI and an embedded copy of the
SQLite amalgamation, and a thin Perl front end (`lib/DBD/SQLite.pm`). This
directory holds a specification of the parts of the driver in which state
matters, the TLC configurations that check it, and the proofs TLAPS checks.
Paths below are relative to `src/`.

## 1. Inventory

| Component | Where | State it keeps | Operations |
|---|---|---|---|
| Transactions of a database handle | `dbdimp.c` 592-819, 1100-1217 | DBI flags `AutoCommit`, `BegunWork`, `Active`; `began_transaction` | connect, begin_work, commit, rollback, `AutoCommit=`, do, execute, disconnect, DESTROY |
| Engine, transaction core | `sqlite3.c` `OP_AutoCommit`, `OP_Savepoint`, `sqlite3VdbeHalt`, `sqlite3Close` | `autoCommit`, savepoint list, unfinished statements, file | BEGIN, COMMIT, ROLLBACK, SAVEPOINT, RELEASE, ROLLBACK TO, step, reset, close |
| Statement handles | `dbdimp.c` 947-1413 | `stmt`, `retval`, `nrow`, `Active`; the handle's `stmt_list` | prepare, execute, fetch, finish, DESTROY, finalization at disconnect |
| Several connections on one file | `sqlite3.c` pager and lock layer, `dbdimp.c` 532, 629, 1750 | file locks, busy timeout | BEGIN [IMMEDIATE], read, write, commit, busy handler |
| Multi-statement `do` | `lib/DBD/SQLite.pm` 215-243, `dbdimp.c` 592-652, 990-999 | `unprepared_statements`, the engine's change count | do |
| String modes | `dbdimp.h` 10-60, `dbdimp.c` 30-38, 956 | `string_mode`, `last_dbh_string_mode` | every conversion of a string |
| Binding, number parsing | `dbdimp.c` 79-135, 356-422, 1059-1133 | `params` | bind_param, execute |
| User functions, collations | `dbdimp.c` 1768-1990, 2130-2364 | `functions`, the engine's slots | register, replace, remove, call |
| Aggregates | `dbdimp.c` 1992-2128 | one context per group and aggregate | new, step, finalize |
| Hooks, progress, authorizer, trace, profile | `dbdimp.c` 2366-2745 | the callbacks kept in `functions`, `mTrace` | register, call back |
| Virtual tables | `dbdimp_virtual_table.inc`, `VirtualTable.pm`, `sqlite3.c` 162700-163900 | modules, instances, cursors, the list of tables in the transaction | create, connect, open, update, commit, disconnect, destroy |
| PerlData, FileContent | `VirtualTable/PerlData.pm`, `VirtualTable/FileContent.pm` | a Perl array, cursors | scan, INSERT, UPDATE, DELETE |
| FTS3 tokenizer | `dbdimp_tokenizer.inc` | cursor with the last byte and character offset | create, open, next, close |
| Online backup | `dbdimp.c` 2747-2927, `sqlite3.c` 84500-85100 | none that outlives a call | to/from a file or a handle |
| Pager and rollback journal | `sqlite3.c` 58900-66500 | file, journal, cache, pager state | begin, write, spill, commit, rollback, recover |
| Limits, configuration, status | `dbdimp.c` 2929-3000, `SQLite.xs` | none in the driver | one engine call each |
| Driver front end | `lib/DBD/SQLite.pm` | collation registry | connect (DSN), prepare, metadata queries |
| Static data | `GetInfo.pm`, `Constants.pm`, `constants.inc` | none | lookup |

How they interact. DBI dispatches a method call to the driver, which runs to
completion before the next call of that handle: within one connection the
driver is sequential, and what interleaves is the *order of the calls*, on the
database handle and on all its statement handles, over one engine connection.
The engine calls back into Perl (functions, hooks, virtual tables) in the
middle of a step, in the same thread. Other connections meet this one only in
the database file, through locks. The driver keeps a shadow of engine state
(its flags, its statement list, its functions array) which it brings up to
date at its own entry points; most of what can go wrong is that shadow going
stale.

What makes each component correct.

* *Transactions:* the flags agree with the engine about when a transaction is
  open; rows inserted with AutoCommit off stay out of the file until a commit;
  what a successful call promised is in the file; rollback and disconnect
  leave the file alone.
* *Statement handles:* every live engine statement is in the list once, no
  node outlives its statement, close at disconnect succeeds, nothing is
  finalized twice, calls on a handle after disconnect touch no freed memory.
* *Connections:* no two writers; of two upgraders only one waits; with
  immediate transactions the wait ends.
* *Multi-statement do:* the statements behind the first one are in the
  transaction that was begun for it, and a failure half-way leaves to a
  rollback whatever the text itself has not committed.
* *Callbacks:* what the engine may still call is alive; what runs is what was
  registered, with its own handle's string mode.
* *Aggregates:* each group's object is created once, used only while it may
  be, and released once; a result is that of its group.
* *Virtual tables:* an instance lives until the last of table, transaction and
  statements lets go; an object hears of transactions in order; all objects
  sync before any commits.
* *PerlData:* a scan returns each row once, whatever changes meanwhile.
* *Tokenizer:* byte offsets are those of the characters reported.
* *Number parsing:* a string is bound as an integer only if it is one, and
  exactly that one.
* *Backup:* TRUE means that the copy is complete and of one moment, FALSE that
  nothing was copied; no lock is left.
* *Journal:* a transaction is in the file as a whole or not at all, whatever
  fails, and a commit that is safe stays.

## 2. Modules

| Module | Models | Builds on |
|---|---|---|
| `SqliteEngine` | one engine connection: operators from a connection to its possible outcomes | |
| `DbhTransaction` | the driver's transaction code, one action per application call | `SqliteEngine` |
| `TxnContract` | what a handle promises, without flags or engine; `DbhTransaction` refines it | |
| `DoStatements` | `do()` of several statements, the two ways through it | `DbhTransaction` |
| `StatementHandles` | who owns a prepared statement: statement list, engine, Perl handles | |
| `FileLocks` | several connections on one file: locks, waits, refusals | |
| `Callbacks` | what the engine may call: registration, lifetime, string modes, nesting | |
| `Aggregates` | the dispatchers of a Perl aggregate, methods that die, queries that fail | |
| `VirtualTables` | life of the instances of virtual tables, their modules and transactions | |
| `VtabObject` | what one Perl object may rely on; `VirtualTables` refines it per object | |
| `PerlData` | the bundled table over a Perl array: scans and changes | |
| `Tokenizer` | a cursor of the Perl tokenizer: characters to bytes | |
| `NumberParsing` | strings to integers and floats, against what the strings mean | |
| `Backup` | the four backup methods and the engine's backup between files | |
| `AtomicCopy` | what a backup promises; `Backup` refines it | |
| `RollbackJournal` | pager and journal over a disk that loses unsynced writes | |
| `AtomicFile` | what the pager promises of a file; `RollbackJournal` refines it | |
| `MC*` | constants, symmetry and settings for TLC; `MCDriverParts` puts `NumberParsing`, `Tokenizer`, `PerlData` and `Aggregates` side by side | |
| `TransactionProofs` | theorems about `SqliteEngine`, `DbhTransaction` and `DoStatements`, see section 4 | `DoStatements` |
| `StatementHandlesProofs`, `FileLocksProofs`, `CallbacksProofs`, `AggregatesProofs`, `VirtualTablesProofs`, `BackupProofs`, `RollbackJournalProofs` | theorems, see section 4 | the module of their name; `VirtualTablesProofs` also `PerlData`, `Tokenizer` and `NumberParsing` |

The modules meet in the engine. `DbhTransaction` sees a transaction as sets of
rows; that the engine keeps it whole when something fails is what
`RollbackJournal` shows of the file, and that others do not see half of it is
what `FileLocks` shows of the locks: what `FileLocks` calls a version of the
file is the image of `AtomicFile`. `Backup` uses the locks of `FileLocks`, each
taken in one step.

### SqliteEngine

A connection is a record: the engine's own `autoCommit`, the savepoint stack
`pSavepoint` with what each `ROLLBACK TO` would bring back,
`isTransactionSavepoint`, the rows the connection reads (`work`), the rows in
the file (`disk`), and the handles whose writing statement is unfinished
(`writing`, the engine's `nVdbeWrite`). Pages, journal and locks are
abstracted to these sets. A call is an operator from a connection to the set
of its outcomes `[ok, db]`, because one driver function makes several engine
calls and is still one step of the program. The failures an engine call may
have are named in `Hazards`; a run chooses which are possible.

* `StmtFails` undoes one statement, `AutoRollback` (SQLITE_FULL, IOERR, NOMEM,
  `ON CONFLICT ROLLBACK`) the whole transaction.
* `CommitBusy` refuses a COMMIT and keeps the transaction (lock held elsewhere
  or deferred foreign keys), `CommitFails` rolls it back (I/O error, commit
  hook).
* `BeginBusy` makes a BEGIN fail.

### DbhTransaction

`dbh` is the handle's flags, `db` its connection, `sth` the state of each
statement handle with result columns. Statements without columns run to their
end inside `do` or `execute`, so `Run` covers both; its parameter
`viaExecute` selects the differences between them. `asked` is a history
variable: the rows for which a successful call (an auto-commit INSERT, a
commit by any of its names) promised durability. `last` is the last call and
whether it raised no error; action properties read it.

| Action | Code |
|---|---|
| `Run` | `sqlite_db_do_sv`, `sqlite_st_execute` of a statement without columns |
| `ExecuteQuery` | `sqlite_st_execute` with columns (SELECT, or INSERT ... RETURNING) |
| `Fetch`, `Finish` | `sqlite_st_fetch`, `sqlite_st_finish3` |
| `BeginWork` | DBI's `begin_work` through the driver's STORE |
| `AutoCommitOff`, `AutoCommitOn` | `sqlite_db_STORE_attrib` |
| `Commit`, `Rollback`, `Disconnect`, `Connect` | `sqlite_db_commit`, `_rollback`, `_disconnect` (and DESTROY), `_login6` |

DBI itself is not in the repository; `BeginWork` and `DbiEndWork` are written
from how the driver is called and marked external.

Statement identity: an INSERT inserts a row never inserted before (`Fresh`),
so that the fate of each row can be told.

### TxnContract

Four variables: connected, mode, rows in the file, rows that wait. Insert goes
to the file in auto-commit mode and waits otherwise; all that waits becomes
durable together. The refinement maps the mode to the `AutoCommit` flag and
the waiting rows to `work \ disk`.

### StatementHandles

`stmt_list` is the handle's list, newest node first; `engine` is what
`sqlite3.c` knows: the prepared statements (`pVdbe`), those a virtual table
prepared for itself (`internal`, as FTS does in `fts3SqlStmt`), those that
hold a reference to the virtual table (`locks`), and whether `sqlite3_close`
has already given up the connection's own reference (`closing`); `sth` is the
Perl handles. A statement is its address, and `Prepare` may pick any address
that is free, so that the engine's reuse of memory is part of the model. The
statement of SQL without a statement in it (a comment, an empty string) is
`NULL`: it gets a node like any other, and as `sqlite_st_destroy` looks for
statements that are not `NULL` only, the node stays until the disconnect.
`dangling` is a history variable: the addresses the last call handed to the
engine that were not those of a prepared statement, or that it finalized
twice, or that a virtual table is going to finalize as well.

| Action | Code |
|---|---|
| `Prepare`, `PrepareFails` | `sqlite_st_prepare_sv` |
| `Execute`, `Fetch`, `Finish` | `sqlite_st_execute`, `_fetch`, `_finish3` |
| `Do` | `sqlite_db_do_sv`, whose own statement is gone when it returns |
| `FetchAttrib`, `BindNamed` | `sqlite_st_FETCH_attrib`, `sqlite_bind_ph` |
| `Destroy` | `sqlite_st_destroy` |
| `Disconnect` | `sqlite_db_disconnect`, `sqlite_db_destroy` |

There is one virtual table at most; a second one would be disconnected in the
same way and share nothing with the first. A database handle is not connected
again after a disconnect (DBI makes a new one), so `Disconnect` happens once.

### FileLocks

Any number of handles on one file, each in a mode: AutoCommit on, AutoCommit
off with `sqlite_use_immediate_transaction` (the default) or without it.
A driver call is no longer one step: `Statement`, `Commit` put into `call` the
engine operations it takes, and the engine works them off taking one lock
level per step, so that calls of different connections interleave between any
two system calls of `unixLock`. `lock` is `eFileLock`; `trans` and `reading`
are the btree's `inTransaction` and the unfinished SELECTs (*at least one*; how
many makes no difference to a lock); `current` are the connections whose page
cache is of the file's version; `busy` those whose last call ended in
SQLITE_BUSY.

| Action | Code |
|---|---|
| `Statement`, `CallFor` | `sqlite_st_execute`, `sqlite_db_do_sv`: what they send before and after the statement |
| `Commit`, `Rollback`, `FinishRead` | `sqlite_db_commit`, `_rollback`, `sqlite_st_finish3` |
| `Acquire` | one lock of `unixLock`; the cache check of `sqlite3PagerSharedLock` |
| `Sleep`, `Wake`, `Refuse` | `sqlite3InvokeBusyHandler` and its two callers, `btreeBeginTrans` and `pager_wait_on_lock` |
| `Perform` | the operation, its lock held: `OP_Transaction` and what follows |
| `Publish` | `vdbeCommit`, `btreeEndTransaction` |

A refused COMMIT keeps its PENDING lock and its transaction, a refused
auto-commit statement is rolled back (`sqlite3VdbeHalt`). A SELECT left
unfinished across a commit keeps SHARED, and the next BEGIN IMMEDIATE of that
connection, which then starts inside a transaction of the btree, is refused
without a wait: this is why `ImmediateNeverRefused` speaks of transactions
that have begun.

Left out: crashes (`RollbackJournal` has them), WAL, a cache spill that
needs EXCLUSIVE before the commit, shared cache. The contents of the file are
its version, and of that only whether a cache has it.

### DoStatements

`do()` with neither attributes nor values to bind goes to `_do`
(`sqlite_db_do_sv`), which hands the whole text to `sqlite3_exec`; otherwise a
loop in `SQLite.pm` prepares and executes one statement at a time. `doing` is
the `do()` in progress, by which way it goes, and what it added up; each step
runs one more statement of the text, so that a text is chosen as it is run.
`changes` is `sqlite3_changes`, which the loop adds up by way of `$sth->rows`.

| Action | Code |
|---|---|
| `DoExec`, `ExecNext`, `ExecEnd` | `sqlite_db_do_sv`: before the first statement, each further one, and after `sqlite3_exec` |
| `LoopNext`, `LoopEnd` | `DBD::SQLite::db::do`, one turn of its loop, and its end with or without white space left |
| `OtherCall` | the calls of `DbhTransaction` between two `do()` |

`AnyOrder` allows texts with surprises for `_do`, which looks at the first word
only: a transaction opened behind the first statement, or statements behind
one that ended it. Where the flags have to be right (`txn_coherent`) it is off;
`do_any_text` and the findings have it on. `LaterStatementsAreInTheTransaction`
and `FailureLeavesAllToRollback` hold of any text, with one exception they name
themselves: once a text handed to `_do` has ended a transaction (`ended`) the
rest of it runs in the engine's auto-commit mode, and each of its statements is
durable at once, whatever fails behind it. That is `AnotherTransactionBegins` of
section 5. The loop has no such case, since it issues BEGIN again.

### Callbacks

`frames` is the stack of calls between the program and the engine: odd places
are calls into the engine (`step`, `halted` once a statement does not count as
active any more, `prepare`, `close`), even ones Perl code called from there.
`imp_dbh` has for each handle its `functions` and `aggregates` arrays, the
engine's slots with the mode their dispatcher was chosen for, the bits of
`mTrace`, and whether a SELECT is open. A Perl value is the number of its
registration. `wanted` is a history variable: what the program has asked each
slot to be.

| Action | Code |
|---|---|
| `Create`, `Remove` | `sqlite_db_create_function`, `_create_aggregate`, `_collation`-, hook-, trace- and profile-registrations; `Refused` is the engine's SQLITE_BUSY |
| `SetStringMode`, `Prepare` | STORE of `sqlite_string_mode`; `sqlite_st_prepare_sv` up to `last_dbh_string_mode` |
| `Execute`, `Fetch`, `RowReturned`, `Halt`, `EngineReturns` | steps of a statement |
| `Call`, `CallReturns` | the dispatchers |
| `Disconnect`, `Closed` | `sqlite_db_disconnect`: `sqlite3_close` with what it still calls, then the release of the arrays |

`hook` stands for the commit, rollback and update hooks, the progress handler
and the authorizer, which are kept alike. One SELECT is open per handle at a
time. A callback does not disconnect the handle that is calling it and does
not die where nobody catches it. `collation_needed` and the check that a new
collation is symmetric (`dbdimp.c` 2220-2290) are not modelled.

### Aggregates

`queries` is the stack of running queries, as a method may run one with the
same aggregates; each has an `aggrInfo` per column (`NumCols` aggregates) and
the method that is running. `obj` is what is at each address a Perl object can
have: references, rows it was given, whether a call on it died, whether
`finalize` was called.

| Action | Code |
|---|---|
| `Query`, `Row`, `GroupEnds`, `NextGroup`, `Fails`, `QueryEnds` | the engine: `OP_AggStep`, `OP_AggFinal`, the release of the accumulators when a query fails (`sqlite3.c` 85757) |
| `StepDispatcher`, `FinalizeDispatcher`, `AbortSkips` | `sqlite_db_aggr_step_dispatcher`, `_finalize_dispatcher` |
| `NewReturns`, `NewDies` | `sqlite_db_aggr_new_dispatcher` |
| `StepReturns`, `StepDies`, `FinalizeReturns`, `FinalizeDies` | the Perl methods |

A warning of the driver does not die, and memory does not run out.

### VirtualTables and VtabObject

An instance (`sqlite3.c`'s `VTable`, the driver's `perl_vtab` and its Perl
object) is freed when its last reference goes; the table, `pDisconnect`,
`aVTrans` and every statement compiled against it hold one. A second instance
of the same table arises when the schema is read again while the first is
still referred to. `com` is the commit or rollback whose methods are being
called: `Sync`, `Decide`, `Finish`, `Finished` are one method or decision
each, and statements may run between any two of them, as methods are Perl.
`phase`, `dirty` and `since` are what an object has been told, and
`VtabObject` says what order of calls it may rely on; the refinement maps each
instance to one `VtabObject`.

| Action | Code |
|---|---|
| `CreateModule` | `sqlite_db_create_module` |
| `CreateTable`, `CreateFails`, `Connect`, `CompileFails` | `vtabCallConstructor`, `perl_vt_New` |
| `DropTable` | `sqlite3VtabCallDestroy`, `perl_vt_Destroy` |
| `Compile`, `Finalize`, `Start`, `Open`, `Update`, `Halt`, `HaltFails` | statements: `OP_VBegin`, `OP_VOpen`, `OP_VUpdate`, `sqlite3VdbeHalt` |
| `Begin`, `Commit`, `Rollback`, `Savepoint`, `RollbackTo` | `OP_AutoCommit`, `sqlite3VtabSavepoint` |
| `Sync`, `Decide`, `Finish`, `Finished` | `sqlite3VtabSync`, `vdbeCommit`, `callFinaliser` |
| `Reread`, `OthersChange` | a schema cookie another connection changed |
| `Close`, `CloseAgain` | `sqlite_db_disconnect` |

Not modelled: the arguments of `xBestIndex` and `xFilter`, RENAME, RETURNING,
a failing writer nested in another writer, methods that die (they end the
program's call, not the table), methods that end the transaction or
disconnect, several references of one statement to one instance, lack of
memory.

### PerlData, Tokenizer, NumberParsing

`PerlData` is the array and the cursors of scans that are being fetched. A row
is an identity, written once. A SQL statement is one step with all its method
calls; between two fetches of a scan others may run, and the Perl program may
change its array. `HandOut` is EOF, ROWID and COLUMN; `IsWanted` the condition
`BEST_INDEX` writes; `Erase` and `Assign` are Perl's `delete` and assignment.
The comparison operators and `FileContent` (read-only, its content is text)
are left out.

`Tokenizer` has strings of bytes of three kinds, and any token the Perl code
may report, in any order and overlapping. `perl_tokenizer_Next` hops from the
end of the token before; `ByteOf` is the reference, which counts from the
start. The naive mode is only given valid strings: for others Perl's own
result is undefined.

`NumberParsing` translates `_sqlite_atoi64`, `compare2pow63` and
`sqlite_is_number` character by character of a class; the width of integers is
a parameter, given by the digits of 2^63, and the run uses 8 bits, so that all
strings around the border are among those of five characters. `PrintsBack`
stands for `sprintf("%.*f", atof(v))` giving the string back. A number that
overflows while it is read is reduced modulo the width, as the code's unsigned
variable is. Tabs are among the characters: `isspace` passes over them, so that
a result may begin with them, while `sqlite_is_number` passes over blanks only.
References, blobs and undef take no parsing and are left out; so are zero-padded numbers of more than nineteen digits, which become text.

### Backup and AtomicCopy

`backup` is the engine's backup object and where the call is. A backup of the
driver is one `sqlite3_backup_step` with all pages, and the steps of the model
are its locks, its pages and its commit. Other processes read and write
meanwhile; connections of this process do not, as the call returns first.
Locks are taken in one step each, and a wait ends with the lock or SQLITE_BUSY
at any time. In `AtomicCopy` others may change any file at any moment, the
destination of a call under way included; a call is told from them by
`progress`, which all its steps change and nobody else's do. Of its own steps
one may write to a file, the copy of everything at once, and only a call that
took it answers true. `errcode` is what the driver looks at, the error code of
the destination. That page sizes differ or a file is read-only is a failure that
may happen. `app` is a history variable: the locks the application's own
transactions and SELECTs account for.

Two things the model shows that no document speaks of: `backup_to_file` and
`_to_dbh` report the message of the source handle when the destination
failed, and `backup_from_file` of a file that does not exist creates it and
empties the destination.

### RollbackJournal and AtomicFile

One connection; its locks are those of `FileLocks`. A file has for each part
what is there now (`now`) and what a power failure may leave of it (`maybe`):
the old content, any content written since the last sync, or a torn one.
`ghosts` are the journals the directory may come back with. A part is a page
of the file, a header or a record of the journal. Each file operation is one
step, so that the process, an operation or the power fails between any two; a
setting says which of the three may (`faults`). `safe` is a history variable:
the contents no power failure can take away.

| Action | Code |
|---|---|
| `SharedLock`, `Unlock`, `Begin` | `sqlite3PagerSharedLock` with `hasHotJournal`, `pager_unlock`, `sqlite3PagerBegin` |
| `WritePage` | `pager_write`, `pager_open_journal`, `writeJournalHdr`, `pagerAddPageToRollbackJournal` |
| `Spill` | `pagerStress` |
| `Commit`, `SyncJournal`, `ZeroNextHeader`, `Sync1`, `WriteNRec`, `Sync2`, `NextHeader`, `WriteToFile`, `SyncFile` | `sqlite3PagerCommitPhaseOne`, `syncJournal`, `pager_write_pagelist` |
| `EndJournal`, `EndSync` | `pager_end_transaction`, `zeroJournalHdr`, `unixDelete` |
| `Rollback`, `SyncHotJournal`, `TruncateFile`, `PlayBack`, `PlaybackEnds` | `sqlite3PagerRollback`, `pagerSyncHotJournal`, `pager_playback` |
| `Fail`, `PowerLoss` | the environment |

Page 1 is written by every commit (the change counter). Checksums are taken to
tell an old or torn record from a good one; writing the same bytes again
cannot tear. The directory is synced with the first sync of a journal, as in
`unixSync`. Journal modes DELETE and PERSIST are modelled; TRUNCATE, MEMORY
and OFF are not, nor WAL, super-journals, the journals of savepoints, and
transactions that make the file smaller.

## 3. Runs

| Run | Bounds | Shows |
|---|---|---|
| `txn_coherent` | 2 rows, 1 savepoint name, stack of 2, one SELECT handle, texts of 3 statements, all failures but `CommitBusy`, no AutoCommit=1 after begin_work | the flags agree with the engine in every state; every promise is kept; the handle refines `TxnContract` |
| `do_any_text` | 2 rows, 1 savepoint, one INSERT ... RETURNING handle, texts of any 3 statements, every hazard | whatever state earlier calls left, later statements of a `do()` find the transaction open, and a failure leaves to a rollback what the text itself has not committed |
| `txn_hazards` | 2 rows, 1 name, stack of 2, one SELECT and one INSERT ... RETURNING handle, every hazard | what survives even when flags and engine disagree: nothing unasked in the file, the lazy BEGIN, and what commit, rollback and disconnect do |
| `statement_handles` | 3 handles, 4 addresses, a list of 4 nodes | list, engine and handles agree while connected; the engine is handed prepared statements only; a disconnect leaves none |
| `file_locks` | 3 connections: auto, deferred, immediate; the first two may time out | nobody works on an old version of the file, no lock is forgotten, no ring of waits, no refusal inside an immediate transaction, and a commit that waits for readers gets through |
| `virtual_tables` | 1 table, 2 instances, 2 modules, 2 statements, one savepoint | every reference is counted, objects and transaction list agree, all sync before one commits, nothing is left after a disconnect, each object's calls are in order |
| `callbacks` | 2 handles, 4 slots, 2 registrations, callbacks 2 deep | nothing the engine may call is released, what runs is what was registered and stays alive, also when it replaces itself |
| `rollback_journal` | 3 pages, 2 of them old; journal deleted: 4 writes, 1 or 2 failures of any kind, 4 settings; journal kept: 4 to 6 writes, 2 deaths of a process, journals of 4 places, 3 settings | readers see committed contents, pages are journalled before they are written, a commit with EXTRA is safe when it returns, the pager refines `AtomicFile` |
| `backup` | 2 handles, 2 files, 1 other process, 1 write, 2 pages | a true answer is a complete copy of one moment, before a false one the call has changed no file; no lock is left; a call returns |
| `driver_parts` | strings of 5 characters and 8-bit integers; strings of 5 bytes, 3 tokens; 4 rows, 1 cursor; 2 aggregates, queries 2 deep, 2 rows, 2 groups | integers are exact, offsets are in bytes, scans return each row once; aggregate objects are released once, used only while they may be, results are of their group |
| `doc_stale_header` | journal kept, 4 pages, 7 writes, 2 failures, journals of 4 places | a rollback that plays old records into the cache; see section 5 |
| `doc_busy_commit` | smallest that shows it | the documented AutoCommit during a transaction, after a refused COMMIT; see section 5 |

Why the bounds are enough. Two nested savepoints of one name give shadowed
names, RELEASE of an outer savepoint over an inner one, and a transaction
savepoint with one nested in it; three statements of a text are a first, one
that nobody looks at, and one after that failed. There is no counter: each row
is inserted once. Three statement handles allow a list with a first, a middle
and a last node to destroy; the fourth address is one a virtual table's
statement or a reused one can take while three are owned, and the fourth node
is one an empty statement left behind. Three connections, one of each mode,
are a reader, an upgrader and a writer at once; that two immediate ones add
nothing is what the proofs of section 4 say, which hold for any number. Two
instances of one table are the fewest with an old one that is still in use
while a new one is connected; two modules, with a class that was replaced.
Two callbacks deep is a callback that registers from within a callback. Two
failures are a crash and another during its recovery, four writes two
transactions or one that spills and goes on; the file starts with two pages
and may grow by one.

What `rollback_journal` shows of journals that are kept is true of deaths of a
process and not of every failure. If an operation of a commit may fail as well,
the cache can be wrong afterwards (`doc_stale_header`), and `ReadersSeeCommitted`
and `ImplementsAtomicFile` with it as soon as the next transaction journals what
the cache then holds. A loss of power can revive an earlier header
(`DocRollbackJournal.cfg`). Nothing is claimed of a kept journal in those cases.
The bounds are not what makes the difference: `KeptJournal.cfg` has those of
`doc_stale_header`, of which only the setting's `faults` differ, and TLC finds
no error in it; it is not among the runs as it asks the same question for
longer. Where a journal is kept, `FewPages` bounds the pages besides the first
that are in the journal or dirty to one at a time, in all these configurations.

`rollback_journal` begins with one of several settings (`Settings`), which then
stays; `driver_parts` with one of four modules, the others standing still: they share no state, and no property speaks of two of them.

Deadlock is checked in all runs but those whose system really stops: a virtual
table's connection that was closed, callbacks that used up the bound on
registrations with both handles closed, a pager that used up its failures and
writes, a backup whose handles are all disconnected, a string that was
converted.

Fairness in `file_locks`. The engine's steps of each connection are weakly
fair: a driver call runs until it returns, and the busy handler sleeps for a
limited time. `FinishRead`, and `Commit` or `Rollback` while no SELECT is open,
are strongly fair: the application finishes what it reads and ends its
transactions, as `SQLite.pm` 1505-1525 asks it to, however many other calls it
makes. This is an assumption about the application, and without it a reader
that never finishes holds up a commit for ever. The immediate connection does
not time out in this run, so that its commit must get through for
`WriterIsNotStarved` to hold; the other two may end their waits in
SQLITE_BUSY. Nothing of the kind is claimed of BEGIN: its lock is polled, and
other writers can be faster each time.

Fairness in `backup`: the process that called goes on (`WF_vars(Step)`). Other
processes owe nothing, and `CallsReturn` holds all the same because each wait
is given up in the end.

`PromisesKept` and the refinement are not checked with INSERT ... RETURNING
handles: an unfinished one keeps every auto-commit INSERT of the same
connection out of the file until it is finished or reset, so that the promise
is kept later than the call that made it.

## 4. Proofs

`TransactionProofs` has three parts. The first is about `DbhTransaction` and
proves, for every set of rows, names, handles and hazards and every bound:

* `TypeCorrect`: `Spec => []TypeOK`. `TypeOK` includes the assertions at the
  head of `OP_Savepoint`: savepoints exist only in a transaction, and only a
  non-empty stack is a transaction savepoint.
* `FileHoldsOnlyWhatWasAsked`: `Spec => []NothingUnasked`;
* `LazyBeginHolds`, `CommitIsComplete`, `RollbackIsComplete`,
  `DisconnectIsRollback`: `Spec => LazyBegin`, `CommitMakesDurable`,
  `RollbackDiscards`, `DisconnectRollsBack`.

The inductive invariant is `TypeOK /\ Covered(db, asked)`: the file is within
`asked`, and so are the rows the connection reads *whenever the engine is in
auto-commit mode*. `NothingUnasked` alone is not inductive: an implicit commit
at the halt of a statement copies `work` to the file, and only the second
conjunct says that this is harmless. It is the lazy BEGIN that preserves it:
a row inserted with AutoCommit off finds the engine's flag off. One lemma per
engine call shows that its outcomes are well formed and stay within what was
asked, one per driver action lifts it to the action. The assumptions are
those of the modules: hazards are among the listed ones, returning handles
among the handles, the stack bound a natural number.

The four action properties need one thing more, `Settled`: outside a
transaction, and with no `INSERT ... RETURNING` unfinished, the connection sees
just what the file holds. That is what makes a COMMIT that succeeds complete,
and a disconnect that has nothing to roll back harmless. `CallKept` joins the
four into one formula about a step, which each driver action is shown to
satisfy. None of the hazards is excluded.

The second proves of the same module, for every instance in which
`CoherentAssumption` holds:

* `FlagsAgree`: `Spec => []AutoCommitMeansNoTransaction`;
* `Durability`: `Spec => []PromisesKept`;
* `Refinement`: `Spec => ImplementsContract`, that is, every call is a step of
  `TxnContract` or leaves its state alone.

`CoherentAssumption` leaves out a COMMIT that is refused, AutoCommit set after
`begin_work`, and unfinished `INSERT ... RETURNING`. These are the cases in
which the three do fail; the violation runs and section 5 show how. The
inductive invariant adds two parts: `Whole` (what the file holds, what each
savepoint would return to and what the connection sees are nested in this
order) and `Flagged` (the handle claims auto-commit mode only if the engine is
in it). One lemma per engine call sorts its outcomes into three kinds: nothing
new is kept (`Undone`), all of it is durable (`Committed`), or a row is added;
one lemma per kind makes it a step of the contract.

The third proves the same three of `DoStatements` (`DoFlagsAgree`,
`DoDurability`, `DoRefinement`) for texts of any length, and

* `LaterStatements`: `DoSpec => LaterStatementsAreInTheTransaction`;
* `FailuresRollBack`: `DoSpec => FailureLeavesAllToRollback`.

The first three assume in addition that `AnyOrder = FALSE`: a text that opens a
transaction behind its first statement drives flags and engine apart, which
`DocDoStatements` shows. The last two assume nothing: they hold of every text
and under every hazard, also when flags and engine disagree. `InText` says what
nobody looks at while the rest of a text runs: the transaction issued before
the first statement is still open, and the file is as it was, both up to what
statements of the text itself have ended. `FileStays` is what it rests on: no
statement changes the file if it fails, stays in a transaction, or opens one.

`StatementHandlesProofs` proves, for every set of handles and addresses and
every bound on the list:

* `TypeCorrect`: `Spec => []TypeOK`;
* `ListAgreesWithEngine`: `Spec => []OneOwnerEach`;
* `ConnectionIsClosed`: `Spec => []DisconnectCloses`;
* `EngineGetsPreparedOnly`: `Spec => []OnlyPrepared`, if nobody binds by name
  on a handle whose connection is gone (section 5 says why that is needed).

The inductive invariant is `TypeOK /\ OneOwnerEach /\ DisconnectCloses`. That
list, engine and handles agree is what makes the disconnect complete, because
the disconnect finalizes the list and nothing else; that a virtual table's
statements are apart from the list is what makes it safe. `PushNode` and
`TakeNode` say what a push and `RemoveFirst` do to a list's elements and to
its repetitions; `DisconnectOutcome` follows the two calls of `sqlite3_close`.

`FileLocksProofs` proves, for every set of connections in any modes, with and
without time-outs:

* `SnapshotsHold`: `Spec => []SnapshotHolds`;
* `NoLockIsForgotten`: `Spec => []IdleHoldsNothing`;
* `WaitsEnd`: `Spec => []NoCircularWait`;
* `ImmediateIsSafe`: `Spec => ImmediateNeverRefused`;
* `TypeCorrect`: `Spec => []TypeOK`.

The inductive invariant `IInv` adds to the types and to `SnapshotHolds` one
fact about several connections and five about each. `OneWriter`: RESERVED and
more is held by one, and while EXCLUSIVE is held nobody else has a lock; a
`Publish` that makes all other caches old therefore meets no reader.
`CallShape`, `TransOwned` and `LockOwned` say what may be left of a call and
who is responsible for a transaction or a lock; `ImmediateLocked`, that a
transaction of the default mode holds RESERVED, so that its statements need no
lock it lacks; `SleepsEmpty`, that a sleeper holds a lock only if it is about
to commit. From the last follows that there is no ring: two sleepers about to
commit would be two writers, and the others hold nothing anybody could wait
for. A step changes one connection only (`Frame`, `OthersLocal`), so that most
of the proof is about that one.

`CallbacksProofs` proves, for every set of handles, slots and modes, any number
of registrations and callbacks within callbacks to any depth:

* `TypeCorrect`: `Spec => []TypeOK`;
* `EngineCallsTheLiving`: `Spec => []SlotsAlive`;
* `RunningStaysRegistered`: `Spec => []RunningIsRegistered`;
* `RunningIsAlive`: `Spec => []RunningIsKept`.

The inductive invariant has a part about the handles (`DbhInv`) and one about
the stack of calls (`FramesInv`). `KeptWereRegistered` makes a new Perl value
differ from all that are kept; `WantedIsSet` says that the engine has in each
slot what the program asked for, so that a running function can be compared
with its slot; `GuardedAreStepped`, that below every running function there is
a step of its own handle, which is why a registration that would replace it is
refused; `CloseIsOutermost`, that nothing runs on top of what is being closed
except what the close itself calls. `PushKeeps` and `PopKeeps` carry the part
about the stack through all actions that call or return.

`AggregatesProofs` proves, for any number of aggregates, rows and groups, and
queries within queries to any depth:

* `TypeCorrect`: `AggrSpec => []TypeOK`;
* `ReleasedOnce`: `AggrSpec => []ObjectsAreReleased`;
* `CalledInOrderHolds`: `AggrSpec => []CalledInOrder`;
* `ResultIsRight`: `AggrSpec => []ResultIsOfTheGroup`.

The inductive invariant `IInv` says which method may run in which part of a
query (`Running`), what a context, its object and its result are in each part
(`Column`), and that contexts and living objects correspond one to one
(`Owned`). `Column` tells the columns whose turn has come for the present row
from those that still wait for it (`Seen`), so that the number of rows an
object was given can be compared with those of the group in the middle of a
row. A step touches one column of the innermost query and the object it had or
gets: `TopStep` carries all the rest through every action, `TurnStep` and
`CallStep` leave of each action only what it does to its own column.

`VirtualTablesProofs` proves, for any number of tables, instances, modules,
statements and savepoints:

* `TypeCorrect`: `Spec => []TypeOK`;
* `EveryReferenceCounts`: `Spec => []ReferencesCounted`;
* `EachHearsTheEnd`: `Spec => []TransactionsAgree`;
* `SyncedBeforeCommit`: `Spec => []AllSyncedFirst`;
* `AllAreDisconnected`: `Spec => []NothingLeft`;
* `ObjectsMayRelyOnIt`: `Spec => ObjectContract`, the refinement of `VtabObject`
  for every object.

The inductive invariant says of each instance (`Good`) that its counter is the
number of those that refer to it (table, list of the transaction, statements),
that it has as many cursors as are open, and that the phase its object is in
agrees with both; of the connection, that modules are counted the same way,
that no instance is in two tables or twice in the transaction's list, that
while a commit runs down this list those before its place have been synced or
committed and the others have not, that a statement holds what it uses, and
that a closed connection holds nothing. The key lemma is about
`sqlite3VtabUnlock`: when several references go at once (the end of a
transaction, of a statement), an instance is disconnected by the last of them
and by no other. The refinement then needs, of each action, only which calls
the one object gets. The assumption that `Stmts` is finite (a program prepares
finitely many statements) makes the numbers of references numbers.

Its second part is about the other table the driver has, `PerlData`, and
proves, for any rows and cursors and an array of any length:

* `DataInvariant`: `DataSpec => []DataInv`;
* `ScansReturnRowsOnce`: `DataSpec => []ScanReturnsRowsOnce`.

No change of the array, from SQL or from Perl, moves a row to another index
(`Follows`): Perl's `delete` leaves a hole, an assignment replaces one row, a
push appends. So what a scan has still to return stays behind its position,
and what it has returned does not get there (`InScan`).

Its third part is about the other Perl code FTS3 may call, `Tokenizer`, and
proves, for strings of any length and tokens in any order:

* `OffsetsCorrect`: `[]OffsetsInBytes`, under `TokenizerSpec` and
  `Valid(pInput) \/ mode # "FALLBACK"` of the first state. Without the latter it
  is false (section 5). `MaxBytes` and `MaxTokens` are any numbers.

`Rank` numbers the places of a string, the starts of its characters and its end.
`ForwardStep` and `BackStep` show that a hop over one character goes to the next or
previous number; `HopForward` and `HopBack`, that a hop over any number of
characters, a recursive function, has one solution and which. These are inductions
over a *set* of numbers (`ReachesAll`), which need no theorem with an operator for
its parameter. The invariant `CursorIInv` is that a cursor that is open counts
characters just when Perl sees characters, and that its byte is the place of its
character.

Its fourth part is about `NumberParsing`, through which bind values and the
results of those methods and functions go, and proves, for strings of any length
and integers of any width:

* `IntegersExact`: `NumberSpec => []IntegersAreExact`.

`First` solves the recursion over the digits (`FirstExists`, an induction over a
set again). The rest needs no powers of ten: a number grows digit by digit, so
that the first digit in which two numbers of one length differ decides (`Smaller`),
fewer digits make a smaller number (`Shorter`), and zeros before it change nothing
(`LeadingZeros`). `CompareIs` concludes on which side of the border `Compare` sees
a number, or how far from it when only the last digit may differ;
`AtoiIsExact`, that the return code of `_sqlite_atoi64` is 0 for what fits and
nothing else, and that the unsigned variable has not wrapped then (`Borders`);
`NumberBegins` and `NumberIsSeen`, that `sqlite_is_number` looks at the same
digits, whatever blanks come first, and refuses none that fits. Of 2^63 the
proofs use that its first digit is not zero (`Pow63Assumption`), of characters
that they are ASCII and none is NUL.

`BackupProofs` proves, for any number of files, handles and connections of
other processes:

* `TypeCorrect`: `Spec => []TypeOK`;
* `ReadersSeeTheFile`: `Spec => []ReadsAreStable`;
* `LocksAreReturned`: `Spec => []NoLockLeft`;
* `Refinement`: `Spec => ImplementsAtomicCopy`: each step of a call gets on
  (`StepMoves`) and leaves every file alone, but for the one that copies.

While pages are copied the source is locked against writers and the
destination against everybody: the pages copied so far are those of the source
(`Copying`) and nobody sees them (`Alone`). `Held` says at each step of the call
which locks are its own and which the program had, so that those it gives back
are the right ones; `Coded`, that the error code the driver reads at the end
still tells how the copying ended, as nobody uses the destination in between.
`HomeAssumption` states that the handles of the program, the temporary handle
and the connections of others are different ones.

`RollbackJournalProofs` proves, for a file of any size, any number of writes and
failures, and a connection with `journal_mode` DELETE and `synchronous` NORMAL,
FULL or EXTRA:

* `TypeCorrect`: `Spec /\ deletes /\ ~noSync => []TypeOK`, and likewise
* `ReadersAreServed`: `[]ReadersSeeCommitted`;
* `JournalIsAhead`: `WriteAheadOfFile`;
* `CommitsAreSafe`: `ReturnedCommitIsSafe` (here that is the level EXTRA);
* `AnySubsetIsEnough`, `RollbacksRestoreCache`: `[]AnySubsetRestores`,
  `[]RollbackRestoresCache`, what comments of `sqlite3.c` say, and what does not
  hold when the journal is kept (section 5);
* `Refinement`: `ImplementsAtomicFile`.

`deletes` and `~noSync` are about the first state, and as `setting` never changes
about every other. With a kept journal and operations of a commit that fail
`ReadersSeeCommitted` is false (`doc_stale_header`), so that no invariant can
have it. Without syncs there
is nothing for the power to spare; that setting is model-checked with processes
that die.

The inductive invariant `IInv` says that there is an image `O` of the file, a whole
one, for which `Kept(O)` holds: `Typed`, `Disk(O)` and `Process(O)`. `Disk(O)` is
about the two files alone: whatever mixture of old and new, whole and torn
writes the power may leave of both, playing the journal back gives `O`
(`Gives`), and a journal that the directory may still show after its deletion
gives `O` or what is `safe`. `Process(O)` says how far the pager is. In a
transaction it rests on `Holds`: the part of the journal before the last header is
on the disk and every page in it is one of `O` (`Sealed`); the last header has no
magic before its records are on the disk, or has just been given its number of
records (`Open`); what else may be in the journal has checksums of before. Then
pages that are not in the sealed part are untouched in the file (`Untouched`),
which `SyncJournalFileKeeps`, `WriteNRecKeeps` and `NextHeaderKeeps` maintain as
the header moves on. A rollback writes only `O`'s pages, so it may be cut short
and started again any number of times (`PlayBackKeeps`).

`O` stays the same in every step but two: deleting the journal at the end of a
commit makes it the cache (`EndJournalKeeps`), and a loss of power before this
deletion is on the disk may make it `safe` again (`PowerLossKeeps`). That is the
refinement: `O` is the image of `AtomicFile`. Neither what the files hold nor the
state of the pager is enough by itself, and the invariant that TLC's runs suggest
first (`Recovered` is whole) is not inductive: it does not say that a rollback of
the *unsynced* journal gives the same as one of what is left of it. TLC finds
`IInv` true in the settings of `rollback_journal` that delete and sync.

Two places of the model are written for these proofs: the records a playback
copies are a set of places (`Replayed`) found by a recursive function (`Reached`; it is defined, `ReachedExists`),
and what a loss of power leaves of a file is a set of functions (`Outcomes`).
Recursion over places is well-founded, which the proofs use by the least place
of a set (`LeastNatural`).

Only model-checked are:

* liveness under fairness (`WriterIsNotStarved`, `CallsReturn`), which is
  beyond this prover;
* `RollbackJournal` with `journal_mode` PERSIST or `synchronous` OFF.

## 5. Where code and documentation differ

Each of these is a property of the module named, which TLC finds violated with
the configuration named: `tlc -continue -deadlock -config DocPerlData.cfg
PerlData`, say, or with one property at a time. They are minor.

`DocBusyCommit.cfg`, `DocTransactions.cfg` (`MCDbhTransaction`):

* `AutoCommitMeansNoTransaction`: a `commit()` refused with SQLITE_BUSY hands
  AutoCommit back with the transaction open (`dbdimp.c` 671-677; `SQLite.pm`
  1459).
* `CommitStatementRestoresAutoCommit`: `do('COMMIT')` after `begin_work` leaves
  AutoCommit off (`SQLite.pm` 1461-1463; `dbdimp.c` 645-650 asks for
  `began_transaction`).
* `FailedBeginKeepsAutoCommit`: a BEGIN that fails turns AutoCommit off,
  because the flags are set first (`dbdimp.c` 617-623; `SQLite.pm` 1459).
* `BeginIssuedInternally`: with AutoCommit off a SAVEPOINT gets no internal
  BEGIN (`dbdimp.c` 69; `SQLite.pm` 1471).
* `RollbackProhibitedWhileSelecting`: `rollback()` is not refused while a
  SELECT is unfinished (`SQLite.pm` 1525; the engine has allowed it since
  3.7.11).

`DocDoStatements.cfg` (`MCDoStatements`):

* `AutoCommitIsOffDuringATransaction`: `do('INSERT ...; BEGIN')` leaves a
  transaction open with AutoCommit on: only the first word is looked at
  (`dbdimp.c` 617; `SQLite.pm` 1459).
* `AnotherTransactionBegins`: with AutoCommit off, the INSERT of
  `do('COMMIT; INSERT ...')` is durable at once (`dbdimp.c` 636; `SQLite.pm`
  1472-1473).
* `RowsAreThoseAffected`: the loop adds up `$sth->rows`, which is -1 for
  trailing white space and an earlier count for a COMMIT (`SQLite.pm` 235;
  `t/15_ak_dbd.t` 69-70).

`DocStatementHandles.cfg` (`StatementHandles`):

* `DisconnectedHandlesLeaveEngineAlone`: `bind_param` by name on a handle whose
  connection is gone passes a finalized statement to the engine (`dbdimp.c`
  1578; `Changes` 728).

`DocCallbacks.cfg` (`Callbacks`):

* `TraceIsInvoked`: a profile callback silences the trace callback, as they
  share bits of `mTrace` (`sqlite3.c` 190710; `SQLite.pm` 2319).
* `VtabFollowsHandle`: virtual tables convert strings by the mode of the handle
  that prepared something last (`dbdimp_virtual_table.inc` 435; `SQLite.pm`
  1630).
* `AggregateFollowsHandle`: the arguments of an aggregate are never decoded
  (`dbdimp.c` 2061).
* `CollationFollowsHandle`: a collation converts by the mode at its
  registration, not at its first call (`dbdimp.c` 2307; `SQLite.pm` 2607).

`DocAggregates.cfg` (`Aggregates`):

* `FinalizedWhenComplete`: `finalize` is called for a group whose query failed
  in the middle (`sqlite3.c` 85757; `SQLite.pm` 2081).

`DocVirtualTables.cfg` (`MCVirtualTables`):

* `RollbackToIsSignalled`: the driver's module is of version 1, so that
  SAVEPOINT, RELEASE and ROLLBACK_TO are never called by their statements
  (`dbdimp_virtual_table.inc` 765; `VirtualTable.pm` 706).

`DocPerlData.cfg` (`PerlData`):

* `DeleteRemovesSelected`: DELETE and UPDATE take the rowid for the index and
  hit the row after the one selected (`PerlData.pm` 182, 191, 269).
* `DeletedRowsAreGone`: a deleted element in the middle is still a row of
  NULLs (`PerlData.pm` 182).
* `LastRowidNamesRow`: `last_insert_id` is the index, the rowid one more
  (`PerlData.pm` 175).
* `RowidSelectsRow`: `WHERE rowid = 1` returns the row whose rowid is 2
  (`PerlData.pm` 99).
* `InsertKeepsRows`: an INSERT at the rowid of a `colref` element that is 0 or
  empty overwrites it (`PerlData.pm` 169).

`DocTokenizer.cfg` (`Tokenizer`):

* `CallbacksOnlyWarn`: strict decoding dies in the tokenizer: the cases of the
  switch that would make it warn are labels without `case`
  (`dbdimp_tokenizer.inc` 105-119; `SQLite.pm` 1668).
* `OffsetsInBytes`, with strings that are not valid: under FALLBACK they stay
  undecoded, Perl counts bytes and the cursor hops characters
  (`dbdimp_tokenizer.inc` 131, 222; `SQLite.pm` 1644).

`DocRollbackJournal.cfg` (`MCRollbackJournal`):

* `AnySubsetRestores`: with `journal_mode` PERSIST, a process that dies between
  the write of the zeroed header and its sync leaves a journal that a later
  loss of unsynced writes can revive (`sqlite3.c` 60411; requirement (7) at
  59041).

`DocStaleHeader.cfg` (`MCRollbackJournal`, run `doc_stale_header`):

* `RollbackRestoresCache`: a header of the pager's own is known by its place,
  `Pager.journalHdr`, and not by its magic (`sqlite3.c` 60614), and after the
  sync of a commit that place is the end of the records (63389). With
  `journal_mode` PERSIST there can be an unfinished header of an earlier
  transaction there, one that spilled pages and was then given up. If now the
  commit fails (a full disk), the rollback takes that header and the records
  behind it for its own: the file is left alone, but the cache gets contents
  of before the last commit. In the code the records have to end a sector, as
  every 64th does with sectors of 512 bytes; the model takes every place for
  the end of one. With journals that are deleted there are no such remains,
  and with processes that merely die nobody takes that place for a header
  (`KeptJournal.cfg`).

## 6. What is left

### Not modelled, and why

* The amalgamation outside of transactions, statements, locks, journal,
  backup, virtual table bookkeeping and the slots of callbacks: the SQL
  compiler, the virtual machine's computations, B-trees, FTS, R-trees, JSON.
  It is vendored code of more than 200 000 lines, most of them sequential
  computation that a state machine does not make clearer.
* Limits, configuration and status (`dbdimp.c` 2929-3000): one engine call
  each, without state in the driver.
* The Perl front end besides `do`: DSN parsing, metadata queries, SQL text put
  together and taken apart.
* The conversions of single strings: which mode applies is modelled
  (`Callbacks`, `Tokenizer`), what each mode does to bytes only in the
  tokenizer.
* The bound values a handle keeps (`params`): they are replaced or kept, never
  shared.
* What the engine does with the answer of a progress handler or authorizer.
* The registration of tokenizers with FTS3, `FileContent`, `collation_needed`.
* Generated tables (`Constants.pm`, `constants.inc`, `GetInfo.pm`), XS glue,
  build files and utilities. The tests were read for what they expect.

Worth doing next: the WAL (readers' marks, checkpoints, recovery) in the
manner of `RollbackJournal`; savepoint journals; proofs for a connection without
syncs whose processes die, where `Recovered` is what the system's cache holds.
