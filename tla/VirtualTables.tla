----------------------------- MODULE VirtualTables -----------------------------
(***************************************************************************)
(* Virtual tables written in Perl, on one connection: the life of their    *)
(* instances (sqlite3.c's VTable and the driver's perl_vtab with its Perl  *)
(* object), the modules they come from, the statements that lock them and  *)
(* the transactions they take part in.                                     *)
(*                                                                         *)
(* An instance is freed when its last reference goes.  References are held *)
(* by the table (u.vtab.p), by pDisconnect, by aVTrans and by the          *)
(* statements compiled against it.  A commit calls one Perl method after   *)
(* the other, and a method may run statements of its own between them.     *)
(* A method does not end the transaction or disconnect the handle.         *)
(***************************************************************************)
EXTENDS SequencesExt, FiniteSetsExt, Integers

CONSTANTS
  Tables,
  Stmts,
  MaxInst,     \* bound on the instances ever made
  MaxModules,  \* bound on the calls of create_module
  NULL

(* A program prepares finitely many statements.                            *)
ASSUME VtabAssumption ==
  MaxInst \in Nat /\ MaxModules \in Nat /\ NULL \notin Nat /\ IsFiniteSet(Stmts)

Insts   == 1..MaxInst
Modules == 1..MaxModules

VARIABLES
  aModule,     \* the registration the module's name stands for
  nRefModule,  \* [Modules -> Nat]
  vtab,        \* the instances
  schema,      \* [tab: the tables the connection knows, file: those in the file
               \*  as the transaction sees it, disk: those committed, saved:
               \*  those in the file at the savepoint, change:
               \*  DBFLAG_SchemaChange, stale: the file's cookie is another]
  link,        \* [Tables -> u.vtab.p]
  pDisconnect, \* instances to be unlocked at the next opportunity
  aVTrans,     \* instances in the transaction
  com,         \* the commit or rollback whose methods are being called
  autoCommit,
  nSavepoint,  \* open savepoints, 0 or 1
  stmt,        \* the prepared statements
  open         \* "open", "closing", "closed"

vars == <<aModule, nRefModule, vtab, schema, link, pDisconnect, aVTrans, com,
          autoCommit, nSavepoint, stmt, open>>

(* nRef: references.  obj: pVtab is set.  cursors: pVtab->nRef.  History:  *)
(* phase and dirty, what the Perl object has been told; since, whether it  *)
(* was updated after the savepoint, and "kept" if a ROLLBACK TO passed it. *)
NoInst == [mod |-> NULL, nRef |-> 0, obj |-> FALSE, cursors |-> 0, iSavepoint |-> 0,
           phase |-> "none", dirty |-> FALSE, since |-> "no"]

NoStmt == [exists |-> FALSE, tab |-> NULL, inst |-> NULL, writes |-> FALSE,
           run |-> "idle", expired |-> FALSE]

NoCom == [op |-> "none", method |-> "none", i |-> 0]

Init ==
  /\ aModule = NULL
  /\ nRefModule = [m \in Modules |-> 0]
  /\ vtab = [i \in Insts |-> NoInst]
  /\ \E T \in {{}, Tables} :
       schema = [tab |-> T, file |-> T, disk |-> T, saved |-> {},
                 change |-> FALSE, stale |-> FALSE]
  /\ link = [t \in Tables |-> NULL]
  /\ pDisconnect = {}
  /\ aVTrans = <<>>
  /\ com = NoCom
  /\ autoCommit = TRUE
  /\ nSavepoint = 0
  /\ stmt = [s \in Stmts |-> NoStmt]
  /\ open = "open"

-----------------------------------------------------------------------------
(* References.                                                             *)

(* DISCONNECT, and with it the end of the Perl object.                     *)
Ended(v) == [v EXCEPT !.obj = FALSE, !.nRef = 0, !.dirty = FALSE,
                      !.phase = IF @ = "idle" THEN "ended" ELSE "broken"]

(* sqlite3VtabUnlock, n[i] times each: the last reference disconnects,     *)
(* unless the table was dropped.                                           *)
Unlock(vt, n) ==
  [i \in Insts |->
     LET v == [vt[i] EXCEPT !.nRef = @ - n[i]] IN
     IF n[i] > 0 /\ v.nRef = 0 /\ v.obj THEN Ended(v) ELSE v]

Once(S) == [i \in Insts |-> IF i \in S THEN 1 ELSE 0]

(* Mutant of Unref: a freed instance keeps its reference to the module.    *)
Unref_Never(vt, refs) == refs

(* sqlite3VtabModuleUnref for each instance that vt frees.                 *)
Unref(vt, refs) ==
  [m \in Modules |->
     refs[m] - Cardinality({i \in Insts : /\ vtab[i].mod = m
                                          /\ vtab[i].nRef > 0
                                          /\ vt[i].nRef = 0})]

Settle(vt, refs) == vtab' = vt /\ nRefModule' = Unref(vt, refs)

(* vtabDisconnectAll: the tables' references pass to pDisconnect.          *)
Linked == {link[t] : t \in Tables} \ {NULL}
Unlinked == [t \in Tables |-> NULL]

Expire(st) == [s \in Stmts |-> IF st[s].exists THEN [st[s] EXCEPT !.expired = TRUE] ELSE st[s]]

(* sqlite3VtabInSync, or within callFinaliser: methods of a commit or      *)
(* rollback are being called.                                              *)
InSync == com.op # "none"

Idle == open = "open" /\ ~InSync

NoWriter == \A s \in Stmts : stmt[s].writes => stmt[s].run = "idle"
NoneRuns == \A s \in Stmts : stmt[s].run = "idle"

-----------------------------------------------------------------------------
(* Modules.                                                                *)

(* sqlite_db_create_module: a new registration replaces the one of the     *)
(* same name, which lives on while it has instances.                       *)
CreateModule ==
  /\ Idle
  /\ \E m \in Modules :
       /\ nRefModule[m] = 0
       /\ \A i \in Insts : vtab[i].mod # m
       /\ aModule # NULL => aModule < m
       /\ aModule' = m
       /\ nRefModule' = [n \in Modules |->
            CASE n = m -> 1
              [] n = aModule -> nRefModule[n] - 1
              [] OTHER -> nRefModule[n]]
  /\ UNCHANGED <<vtab, schema, link, pDisconnect, aVTrans, com, autoCommit,
                 nSavepoint, stmt, open>>

(* vtabCallConstructor that succeeds: the new instance belongs to table t. *)
Fresh == {i \in Insts : vtab[i].phase = "none" /\ \A j \in Insts : j < i => vtab[j].phase # "none"}

Construct(vt, i, phase, nRef) ==
  [vt EXCEPT ![i] = [NoInst EXCEPT !.mod = aModule, !.obj = TRUE, !.phase = phase, !.nRef = nRef]]

-----------------------------------------------------------------------------
(* Ends of transactions.                                                   *)

(* vdbeCommit: sqlite3VtabSync first.  A COMMIT statement is told from the *)
(* commit of a single statement by autoCommit, which it sets at the end.   *)
StartSync == com' = [op |-> "sync", method |-> "SYNC", i |-> 1]

Finalise(method) == [op |-> "finish", method |-> method, i |-> 1]

(* One xSync; the driver's always succeeds.  A dropped table has none.     *)
Sync ==
  /\ com.op = "sync" /\ com.i <= Len(aVTrans)
  /\ LET i == aVTrans[com.i] IN
     IF vtab[i].obj
       THEN vtab' = [vtab EXCEPT ![i].phase =
                       IF @ \in {"enlisted", "synced"} THEN "synced" ELSE "broken"]
       ELSE UNCHANGED vtab
  /\ com' = [com EXCEPT !.i = @ + 1]
  /\ UNCHANGED <<aModule, nRefModule, schema, link, pDisconnect, aVTrans, autoCommit,
                 nSavepoint, stmt, open>>

(* All are synced.  The file may be busy: a COMMIT statement may be tried  *)
(* again, the commit of a single statement is rolled back.  A commit hook  *)
(* may turn the commit into a rollback.                                    *)
Decide ==
  /\ com.op = "sync" /\ com.i > Len(aVTrans)
  /\ \/ /\ com' = Finalise("COMMIT")
        /\ schema' = [schema EXCEPT !.disk = schema.file, !.change = FALSE]
        /\ autoCommit' = TRUE
        /\ nSavepoint' = 0
     \/ /\ ~autoCommit
        /\ com' = NoCom
        /\ UNCHANGED <<schema, autoCommit, nSavepoint>>
     \/ /\ com' = Finalise("ROLLBACK")
        /\ autoCommit' = TRUE
        /\ nSavepoint' = 0
        /\ UNCHANGED schema
  /\ UNCHANGED <<aModule, nRefModule, vtab, link, pDisconnect, aVTrans, stmt, open>>

(* One turn of callFinaliser.                                              *)
Finish ==
  /\ com.op = "finish" /\ com.i <= Len(aVTrans)
  /\ LET i == aVTrans[com.i]
         ok == IF com.method = "COMMIT" THEN {"synced"} ELSE {"enlisted", "synced"}
         vt == IF vtab[i].obj
                 THEN [vtab EXCEPT ![i].phase = IF @ \in ok THEN "idle" ELSE "broken",
                                   ![i].dirty = FALSE,
                                   ![i].since = "no", ![i].iSavepoint = 0]
                 ELSE vtab
     IN
     Settle(Unlock(vt, Once({i})), nRefModule)
  /\ com' = [com EXCEPT !.i = @ + 1]
  /\ UNCHANGED <<aModule, schema, link, pDisconnect, aVTrans, autoCommit, nSavepoint,
                 stmt, open>>

(* sqlite3ResetAllSchemasOfConnection: the tables are forgotten and read   *)
(* again, their instances unlocked; statements are to be compiled again.   *)
ResetAll(vt, sch) ==
  /\ Settle(Unlock(vt, Once(pDisconnect \cup Linked)), nRefModule)
  /\ pDisconnect' = {}
  /\ link' = Unlinked
  /\ stmt' = Expire(stmt)
  /\ schema' = [sch EXCEPT !.tab = sch.file, !.stale = FALSE]

(* The end of callFinaliser.  sqlite3RollbackAll resets the schema that    *)
(* the transaction changed.                                                *)
Finished ==
  /\ com.op = "finish" /\ com.i > Len(aVTrans)
  /\ aVTrans' = <<>>
  /\ com' = NoCom
  /\ IF open = "open" /\ com.method = "ROLLBACK" /\ schema.change
       THEN ResetAll(vtab, [schema EXCEPT !.file = schema.disk, !.change = FALSE])
       ELSE UNCHANGED <<vtab, nRefModule, pDisconnect, link, stmt, schema>>
  /\ UNCHANGED <<aModule, autoCommit, nSavepoint, open>>

-----------------------------------------------------------------------------
(* Transactions, from the application.                                     *)

Begin ==
  /\ Idle /\ autoCommit /\ NoWriter
  /\ autoCommit' = FALSE
  /\ UNCHANGED <<aModule, nRefModule, vtab, schema, link, pDisconnect, aVTrans, com,
                 nSavepoint, stmt, open>>

(* OP_AutoCommit: refused while another statement writes.                  *)
Commit ==
  /\ Idle /\ ~autoCommit /\ NoWriter
  /\ IF aVTrans = <<>>
       THEN /\ autoCommit' = TRUE
            /\ nSavepoint' = 0
            /\ schema' = [schema EXCEPT !.disk = schema.file, !.change = FALSE]
            /\ UNCHANGED com
       ELSE StartSync /\ UNCHANGED <<autoCommit, nSavepoint, schema>>
  /\ UNCHANGED <<aModule, nRefModule, vtab, link, pDisconnect, aVTrans, stmt, open>>

Rollback ==
  /\ Idle /\ ~autoCommit /\ NoWriter
  /\ autoCommit' = TRUE
  /\ nSavepoint' = 0
  /\ com' = Finalise("ROLLBACK")
  /\ UNCHANGED <<aModule, nRefModule, vtab, schema, link, pDisconnect, aVTrans, stmt, open>>

(* perl_vt_Module.iVersion *)
iVersion == 1

(* sqlite3VtabSavepoint: modules older than version 2 are passed over.     *)
Reached(i) == i \in Range(aVTrans) /\ vtab[i].obj /\ iVersion >= 2

(* SAVEPOINT within a transaction.                                         *)
Savepoint ==
  /\ Idle /\ ~autoCommit /\ NoWriter /\ nSavepoint = 0
  /\ nSavepoint' = 1
  /\ vtab' = [i \in Insts |->
       [vtab[i] EXCEPT !.iSavepoint = IF Reached(i) THEN 1 ELSE @, !.since = "no"]]
  /\ schema' = [schema EXCEPT !.saved = schema.file]
  /\ UNCHANGED <<aModule, nRefModule, link, pDisconnect, aVTrans, com, autoCommit,
                 stmt, open>>

(* ROLLBACK TO: xRollbackTo of those who know of the savepoint.            *)
RollbackTo ==
  LET vt == [i \in Insts |->
        [vtab[i] EXCEPT !.since =
           IF Reached(i) /\ vtab[i].iSavepoint > 0 THEN "no"
           ELSE IF @ = "yes" THEN "kept" ELSE @]]
      sch == [schema EXCEPT !.file = schema.saved]
  IN
  /\ Idle /\ ~autoCommit /\ NoWriter /\ nSavepoint = 1
  /\ IF schema.change
       THEN ResetAll(vt, sch)
       ELSE /\ vtab' = vt
            /\ schema' = sch
            /\ UNCHANGED <<nRefModule, pDisconnect, link, stmt>>
  /\ UNCHANGED <<aModule, aVTrans, com, autoCommit, nSavepoint, open>>

-----------------------------------------------------------------------------
(* Statements.                                                             *)

(* sqlite3Prepare first unlocks what waits.                                *)
Unlisted == Unlock(vtab, Once(pDisconnect))

(* The references to modules, with that of instance p if it is new.        *)
WithNew(vt, p) ==
  [m \in Modules |-> Unref(vt, nRefModule)[m] + IF vt[p].mod = m THEN 1 ELSE 0]

(* Whatever compiles SQL that names a table without an instance connects   *)
(* it, before anything else can fail (sqlite3VtabCallConnect).             *)
Connect(t) ==
  /\ open = "open" /\ t \in schema.tab /\ link[t] = NULL /\ aModule # NULL
  /\ \E p \in Fresh :
       LET vt == Construct(Unlisted, p, "idle", 1) IN
       /\ vtab' = vt
       /\ nRefModule' = WithNew(vt, p)
       /\ link' = [link EXCEPT ![t] = p]
  /\ pDisconnect' = {}
  /\ UNCHANGED <<aModule, schema, aVTrans, com, autoCommit, nSavepoint, stmt, open>>

(* sqlite3_prepare_v2, and sqlite3Reprepare of a statement whose schema    *)
(* has changed, which gives up its old instance: OP_VBegin, OP_VOpen and   *)
(* OP_VUpdate lock the new one.                                            *)
Compile(s, t, w) ==
  LET old == IF stmt[s].exists THEN {stmt[s].inst} ELSE {}
      p   == link[t]
  IN
  /\ open = "open" /\ t \in schema.tab /\ p # NULL
  /\ \/ ~stmt[s].exists
     \/ stmt[s].expired /\ stmt[s].run = "idle" /\ stmt[s].tab = t /\ stmt[s].writes = w
  /\ Settle(Unlock([Unlisted EXCEPT ![p].nRef = @ + 1], Once(old)), nRefModule)
  /\ stmt' = [stmt EXCEPT ![s] =
       [exists |-> TRUE, tab |-> t, inst |-> p, writes |-> w, run |-> "idle", expired |-> FALSE]]
  /\ pDisconnect' = {}
  /\ UNCHANGED <<aModule, schema, link, aVTrans, com, autoCommit, nSavepoint, open>>

(* The table is gone, there is no module, CONNECT returns no object or     *)
(* what VTAB_TO_DECLARE returns is refused: nothing but the unlocking is   *)
(* done.                                                                   *)
CompileFails ==
  /\ open = "open" /\ pDisconnect # {}
  /\ Settle(Unlisted, nRefModule)
  /\ pDisconnect' = {}
  /\ UNCHANGED <<aModule, schema, link, aVTrans, com, autoCommit, nSavepoint, stmt, open>>

(* Mutant of Reread: what waited to be unlocked is forgotten.              *)
Reread_Forgets ==
  /\ open = "open" /\ schema.stale
  /\ schema' = [schema EXCEPT !.tab = schema.file, !.stale = FALSE]
  /\ pDisconnect' = Linked
  /\ link' = Unlinked
  /\ stmt' = Expire(stmt)
  /\ UNCHANGED <<aModule, nRefModule, vtab, aVTrans, com, autoCommit, nSavepoint, open>>

(* OP_Transaction: the cookie in the file is not that of the schema in     *)
(* memory (sqlite3ResetOneSchema).                                         *)
Reread ==
  /\ open = "open" /\ schema.stale
  /\ schema' = [schema EXCEPT !.tab = schema.file, !.stale = FALSE]
  /\ pDisconnect' = pDisconnect \cup Linked
  /\ link' = Unlinked
  /\ stmt' = Expire(stmt)
  /\ UNCHANGED <<aModule, nRefModule, vtab, aVTrans, com, autoCommit, nSavepoint, open>>

(* Mutant of EnlistIn: a member of the transaction is told to begin again. *)
EnlistIn_Again(i) ==
  /\ vtab' = [vtab EXCEPT ![i].phase = IF @ = "idle" THEN "enlisted" ELSE "broken",
                          ![i].nRef = @ + 1]
  /\ aVTrans' = Append(aVTrans, i)

(* sqlite3VtabBegin; xSavepoint is called whatever the version.            *)
EnlistIn(i) ==
  IF i \in Range(aVTrans)
    THEN UNCHANGED <<vtab, aVTrans>>
    ELSE /\ vtab' = [vtab EXCEPT ![i].phase = IF @ = "idle" THEN "enlisted" ELSE "broken",
                                 ![i].nRef = @ + 1,
                                 ![i].iSavepoint = nSavepoint]
         /\ aVTrans' = Append(aVTrans, i)

(* Mutant of Start: a writer may start between the methods of a commit.    *)
Start_InSync(s) ==
  /\ open = "open" /\ ~schema.stale
  /\ stmt[s].exists /\ ~stmt[s].expired /\ stmt[s].run = "idle"
  /\ IF stmt[s].writes THEN EnlistIn(stmt[s].inst) ELSE UNCHANGED <<vtab, aVTrans>>
  /\ stmt' = [stmt EXCEPT ![s].run = "running"]
  /\ UNCHANGED <<aModule, nRefModule, schema, link, pDisconnect, com, autoCommit,
                 nSavepoint, open>>

(* The first step of a statement.  A writer is refused (SQLITE_LOCKED)     *)
(* while methods of a commit are being called.                             *)
Start(s) ==
  /\ open = "open" /\ ~schema.stale
  /\ stmt[s].exists /\ ~stmt[s].expired /\ stmt[s].run = "idle"
  /\ IF stmt[s].writes
       THEN ~InSync /\ EnlistIn(stmt[s].inst)
       ELSE UNCHANGED <<vtab, aVTrans>>
  /\ stmt' = [stmt EXCEPT ![s].run = "running"]
  /\ UNCHANGED <<aModule, nRefModule, schema, link, pDisconnect, com, autoCommit,
                 nSavepoint, open>>

(* OP_VOpen, which fails if the table was dropped under the statement.     *)
Open(s) ==
  LET p == stmt[s].inst IN
  /\ open = "open" /\ stmt[s].run = "running"
  /\ IF vtab[p].obj
       THEN /\ vtab' = [vtab EXCEPT ![p].cursors = @ + 1]
            /\ stmt' = [stmt EXCEPT ![s].run = "open"]
       ELSE /\ stmt' = [stmt EXCEPT ![s].run = "idle"]
            /\ UNCHANGED vtab
  /\ UNCHANGED <<aModule, nRefModule, schema, link, pDisconnect, aVTrans, com, autoCommit,
                 nSavepoint, open>>

(* OP_VUpdate.                                                             *)
Update(s) ==
  LET p == stmt[s].inst IN
  /\ open = "open" /\ stmt[s].writes /\ stmt[s].run # "idle"
  /\ vtab[p].obj
  /\ vtab' = [vtab EXCEPT
       ![p].phase = IF @ \in {"enlisted", "synced"} THEN "enlisted" ELSE "broken",
       ![p].dirty = TRUE,
       ![p].since = IF nSavepoint = 1 THEN "yes" ELSE @]
  /\ UNCHANGED <<aModule, nRefModule, schema, link, pDisconnect, aVTrans, com, autoCommit,
                 nSavepoint, stmt, open>>

CloseCursor(s) ==
  IF stmt[s].run = "open"
    THEN [vtab EXCEPT ![stmt[s].inst].cursors = @ - 1]
    ELSE vtab

OtherWriters(s) == \E r \in Stmts \ {s} : stmt[r].writes /\ stmt[r].run # "idle"

(* In the course of a disconnect the driver finalizes every statement.     *)
Usable == open = "open" \/ (open = "closing" /\ ~InSync)

(* sqlite3VdbeHalt: outside a transaction the last writer commits, but no  *)
(* statement does that a method of a commit runs.                          *)
Halt(s) ==
  /\ Usable /\ stmt[s].run # "idle"
  /\ vtab' = CloseCursor(s)
  /\ stmt' = [stmt EXCEPT ![s].run = "idle"]
  /\ IF autoCommit /\ ~InSync /\ ~OtherWriters(s) /\ aVTrans # <<>>
       THEN StartSync
       ELSE UNCHANGED com
  /\ UNCHANGED <<aModule, nRefModule, schema, link, pDisconnect, aVTrans, autoCommit,
                 nSavepoint, open>>

(* A writer that fails or is interrupted; within a transaction the latter  *)
(* alone rolls it back.                                                    *)
HaltFails(s) ==
  /\ Idle /\ stmt[s].writes /\ stmt[s].run # "idle" /\ ~OtherWriters(s)
  /\ vtab' = CloseCursor(s)
  /\ stmt' = [stmt EXCEPT ![s].run = "idle"]
  /\ com' = Finalise("ROLLBACK")
  /\ autoCommit' = TRUE
  /\ nSavepoint' = 0
  /\ UNCHANGED <<aModule, nRefModule, schema, link, pDisconnect, aVTrans, open>>

Finalize(s) ==
  /\ Usable /\ stmt[s].exists /\ stmt[s].run = "idle"
  /\ Settle(Unlock(vtab, Once({stmt[s].inst})), nRefModule)
  /\ stmt' = [stmt EXCEPT ![s] = NoStmt]
  /\ UNCHANGED <<aModule, schema, link, pDisconnect, aVTrans, com, autoCommit,
                 nSavepoint, open>>

-----------------------------------------------------------------------------
(* Changes of the schema.                                                  *)

(* The halt of a statement that changed it to sch.                         *)
HaltChanged(sch, list) ==
  IF autoCommit /\ NoWriter
    THEN IF list # <<>>
           THEN StartSync /\ schema' = sch
           ELSE \/ UNCHANGED com /\ schema' = [sch EXCEPT !.disk = sch.file, !.change = FALSE]
                \/ com' = Finalise("ROLLBACK") /\ schema' = sch
    ELSE UNCHANGED com /\ schema' = sch

(* CREATE VIRTUAL TABLE: the new instance is a member of the transaction   *)
(* without having been told BEGIN.                                         *)
CreateTable(t) ==
  /\ Idle /\ ~schema.stale /\ t \notin schema.tab /\ aModule # NULL
  /\ \E p \in Fresh :
       LET vt == Construct(Unlisted, p, "enlisted", 2) IN
       /\ vtab' = vt
       /\ nRefModule' = WithNew(vt, p)
       /\ link' = [link EXCEPT ![t] = p]
       /\ aVTrans' = Append(aVTrans, p)
  /\ pDisconnect' = {}
  /\ stmt' = Expire(stmt)
  /\ HaltChanged([schema EXCEPT !.tab = @ \cup {t}, !.file = @ \cup {t}, !.change = TRUE],
                 aVTrans')
  /\ UNCHANGED <<aModule, autoCommit, nSavepoint, open>>

(* CREATE returns no object, or what VTAB_TO_DECLARE returns is refused:   *)
(* perl_vt_New frees what it made.  The statement is rolled back, alone if *)
(* there is a transaction; the schema in memory is then not that of the    *)
(* file.                                                                   *)
CreateFails(t) ==
  /\ Idle /\ ~schema.stale /\ t \notin schema.tab
  /\ Settle(Unlisted, nRefModule)
  /\ pDisconnect' = {}
  /\ stmt' = Expire(stmt)
  /\ IF autoCommit /\ NoWriter
       THEN com' = Finalise("ROLLBACK") /\ schema' = [schema EXCEPT !.change = TRUE]
       ELSE UNCHANGED com /\ schema' = [schema EXCEPT !.change = TRUE, !.stale = TRUE]
  /\ UNCHANGED <<aModule, link, aVTrans, autoCommit, nSavepoint, open>>

(* Mutant of DropTable: open cursors are not looked at.                    *)
DropTable_Open(t) ==
  LET p == link[t] IN
  /\ Idle /\ ~schema.stale /\ t \in schema.tab /\ p # NULL
  /\ LET vt == [Unlisted EXCEPT
           ![p].obj = FALSE,
           ![p].dirty = FALSE,
           ![p].phase = IF @ \notin {"none", "ended"} THEN "ended" ELSE "broken"]
     IN Settle(Unlock(vt, Once({p})), nRefModule)
  /\ link' = [link EXCEPT ![t] = NULL]
  /\ pDisconnect' = {}
  /\ stmt' = Expire(stmt)
  /\ HaltChanged([schema EXCEPT !.tab = @ \ {t}, !.file = @ \ {t}, !.change = TRUE], aVTrans)
  /\ UNCHANGED <<aModule, aVTrans, autoCommit, nSavepoint, open>>

(* DROP TABLE, refused while a cursor is open on the table's instance.     *)
(* sqlite3VtabCallDestroy: pVtab is cleared, so that who still refers to   *)
(* the instance finds it without object.                                   *)
DropTable(t) ==
  LET p == link[t] IN
  /\ Idle /\ ~schema.stale /\ t \in schema.tab /\ p # NULL
  /\ vtab[p].cursors = 0
  /\ LET vt == [Unlisted EXCEPT
           ![p].obj = FALSE,
           ![p].dirty = FALSE,
           ![p].phase = IF @ \notin {"none", "ended"} THEN "ended" ELSE "broken"]
     IN Settle(Unlock(vt, Once({p})), nRefModule)
  /\ link' = [link EXCEPT ![t] = NULL]
  /\ pDisconnect' = {}
  /\ stmt' = Expire(stmt)
  /\ HaltChanged([schema EXCEPT !.tab = @ \ {t}, !.file = @ \ {t}, !.change = TRUE], aVTrans)
  /\ UNCHANGED <<aModule, aVTrans, autoCommit, nSavepoint, open>>

(* Another connection changes the schema, while this one reads nothing.    *)
OthersChange ==
  /\ Idle /\ autoCommit /\ NoneRuns
  /\ ~schema.stale
  /\ schema' = [schema EXCEPT !.stale = TRUE]
  /\ UNCHANGED <<aModule, nRefModule, vtab, link, pDisconnect, aVTrans, com, autoCommit,
                 nSavepoint, stmt, open>>

-----------------------------------------------------------------------------
(* sqlite_db_disconnect.                                                   *)

(* sqlite3Close: the tables give up their instances, and those in the      *)
(* transaction are rolled back.                                            *)
Close ==
  /\ Idle /\ NoWriter
  /\ Settle(Unlock(vtab, Once(pDisconnect \cup Linked)), nRefModule)
  /\ pDisconnect' = {}
  /\ link' = Unlinked
  /\ com' = Finalise("ROLLBACK")
  /\ open' = "closing"
  /\ UNCHANGED <<aModule, schema, aVTrans, autoCommit, nSavepoint, stmt>>

(* All statements are finalized; the connection gives up its module.       *)
CloseAgain ==
  /\ open = "closing" /\ ~InSync
  /\ \A s \in Stmts : ~stmt[s].exists
  /\ nRefModule' = [m \in Modules |-> nRefModule[m] - IF m = aModule THEN 1 ELSE 0]
  /\ aModule' = NULL
  /\ open' = "closed"
  /\ UNCHANGED <<vtab, schema, link, pDisconnect, aVTrans, com, autoCommit, nSavepoint, stmt>>

Next ==
  \/ CreateModule
  \/ \E t \in Tables : CreateTable(t) \/ CreateFails(t) \/ DropTable(t) \/ Connect(t)
  \/ \E s \in Stmts :
       \/ \E t \in Tables, w \in BOOLEAN : Compile(s, t, w)
       \/ Start(s) \/ Open(s) \/ Update(s)
       \/ Halt(s) \/ HaltFails(s) \/ Finalize(s)
  \/ CompileFails \/ Reread \/ OthersChange
  \/ Begin \/ Commit \/ Rollback \/ Savepoint \/ RollbackTo
  \/ Sync \/ Decide \/ Finish \/ Finished
  \/ Close \/ CloseAgain

Spec == Init /\ [][Next]_vars

-----------------------------------------------------------------------------

Phases == {"none", "idle", "enlisted", "synced", "ended", "broken"}

Instance == [mod : Modules \cup {NULL}, nRef : Nat, obj : BOOLEAN, cursors : Nat,
             iSavepoint : Nat, phase : Phases, dirty : BOOLEAN,
             since : {"no", "yes", "kept"}]

Statement == [exists : BOOLEAN, tab : Tables \cup {NULL}, inst : Insts \cup {NULL},
              writes : BOOLEAN, run : {"idle", "running", "open"}, expired : BOOLEAN]

(* Shape of the state.                                                     *)
TypeOK ==
  /\ aModule \in Modules \cup {NULL}
  /\ nRefModule \in [Modules -> Nat]
  /\ vtab \in [Insts -> Instance]
  /\ schema \in [tab : SUBSET Tables, file : SUBSET Tables, disk : SUBSET Tables,
                 saved : SUBSET Tables, change : BOOLEAN, stale : BOOLEAN]
  /\ link \in [Tables -> Insts \cup {NULL}]
  /\ pDisconnect \subseteq Insts
  /\ aVTrans \in Seq(Insts)
  /\ com \in [op : {"none", "sync", "finish"}, method : {"none", "SYNC", "COMMIT", "ROLLBACK"},
              i : Nat]
  /\ autoCommit \in BOOLEAN
  /\ nSavepoint \in 0..1
  /\ stmt \in [Stmts -> Statement]
  /\ open \in {"open", "closing", "closed"}

(* The members of the transaction whose turn in callFinaliser is to come.  *)
Pending == {aVTrans[k] : k \in IF com.op = "finish" THEN com.i..Len(aVTrans) ELSE DOMAIN aVTrans}

Users(i) == {s \in Stmts : stmt[s].exists /\ stmt[s].inst = i}

(* Each reference is counted: one for the table, one for pDisconnect, one  *)
(* for the transaction, one for each statement; and of a module, one for   *)
(* its registration and one for each instance, so that its class is still  *)
(* there when a table disconnects.  None is forgotten and none given back  *)
(* twice, whatever was reset, dropped, replaced or rolled back between.    *)
ReferencesCounted ==
  /\ \A i \in Insts :
       vtab[i].nRef = Cardinality({t \in Tables : link[t] = i})
                      + (IF i \in pDisconnect THEN 1 ELSE 0)
                      + (IF i \in Pending THEN 1 ELSE 0)
                      + Cardinality(Users(i))
  /\ \A m \in Modules :
       nRefModule[m] = (IF aModule = m THEN 1 ELSE 0)
                       + Cardinality({i \in Insts : vtab[i].nRef > 0 /\ vtab[i].mod = m})

(* Of the objects exactly those in the transaction have been told of it,   *)
(* so that each hears COMMIT or ROLLBACK for each BEGIN.                   *)
TransactionsAgree ==
  \A i \in Insts : vtab[i].phase \in {"enlisted", "synced"} <=> i \in Pending /\ vtab[i].obj

(* Two-phase commit: nobody is told COMMIT before everybody has synced, or *)
(* after an update that came later.                                        *)
AllSyncedFirst ==
  com.method = "COMMIT" => \A i \in Pending : vtab[i].obj => vtab[i].phase = "synced"

(* After a disconnect every object was dropped or disconnected, every      *)
(* module destroyed.                                                       *)
NothingLeft ==
  open = "closed" =>
    /\ \A i \in Insts : vtab[i].phase \in {"none", "ended"}
    /\ \A m \in Modules : nRefModule[m] = 0

Object(i) == INSTANCE VtabObject WITH
  phase <- vtab[i].phase, dirty <- vtab[i].dirty, cursors <- vtab[i].cursors

(* Each Perl object sees its methods called in an order it may rely on:    *)
(* Object(i)!Spec for every i, in the form TLC takes.                      *)
ObjectContract ==
  /\ \A i \in Insts : Object(i)!Init
  /\ [][\A i \in Insts : [Object(i)!Next]_(Object(i)!vars)]_vars

-----------------------------------------------------------------------------
(* lib/DBD/SQLite/VirtualTable.pm:700-706, "ROLLBACK_TO ... Called to      *)
(* signal the virtual table to return to the state $savepoint": no table   *)
(* keeps updates that a ROLLBACK TO undid.  Checked alone.                 *)
RollbackToIsSignalled == \A i \in Insts : vtab[i].since # "kept"
=============================================================================
