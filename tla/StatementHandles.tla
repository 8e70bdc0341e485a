-------------------------- MODULE StatementHandles --------------------------
(***************************************************************************)
(* Who owns a prepared statement.  The engine knows every prepared         *)
(* statement of the connection; a Perl statement handle points at one; the *)
(* database handle lists those the driver prepared, so that a disconnect   *)
(* can finalize what is left.  A virtual table (FTS) may prepare           *)
(* statements of its own on the same connection and finalizes them itself  *)
(* when it is disconnected.                                                *)
(*                                                                         *)
(* A statement is its address.  The engine may give the address of a       *)
(* finalized statement to the next one it prepares.                        *)
(***************************************************************************)
EXTENDS SequencesExt, Integers

CONSTANTS
  Handles,        \* statement handles, as Perl objects
  Addrs,          \* addresses the engine can give to a statement
  NULL,           \* the statement of an empty SQL text
  MaxNodes,       \* bound on the statement list
  BindInactive    \* may the application bind by name after a disconnect?

ASSUME StatementAssumption ==
  NULL \notin Addrs /\ MaxNodes \in Nat /\ BindInactive \in BOOLEAN

VARIABLES
  Active,      \* DBIc_ACTIVE(imp_dbh)
  stmt_list,   \* imp_dbh->stmt_list, the newest node first
  engine,      \* what sqlite3.c knows of the connection's statements
  sth,         \* the statement handles
  dangling     \* history: addresses passed to the engine by the last call
               \* that were not those of a prepared statement

vars == <<Active, stmt_list, engine, sth, dangling>>

(* pVdbe: the prepared statements.  internal: those a virtual table holds  *)
(* for itself.  locks: those that were compiled against the virtual table  *)
(* and keep it from being disconnected.  closing: sqlite3_close was called *)
(* and has given up the connection's own reference to the virtual table.   *)
Engine == [pVdbe    : SUBSET Addrs,
           internal : SUBSET Addrs,
           locks    : SUBSET Addrs,
           closing  : BOOLEAN]

Sth == [exists : BOOLEAN, stmt : Addrs \cup {NULL}, Active : BOOLEAN]

NoHandle == [exists |-> FALSE, stmt |-> NULL, Active |-> FALSE]

Init ==
  /\ Active = TRUE
  /\ stmt_list = <<>>
  /\ engine = [pVdbe |-> {}, internal |-> {}, locks |-> {}, closing |-> FALSE]
  /\ sth = [h \in Handles |-> NoHandle]
  /\ dangling = {}

-----------------------------------------------------------------------------
(* The engine.                                                             *)

(* Addresses in S that the engine must not be handed.                      *)
NotPrepared(S) == S \ (engine.pVdbe \cup {NULL})

(* The last lock goes: the virtual table finalizes what is its own.        *)
DisconnectVtab(e) ==
  IF e.closing /\ e.locks = {}
    THEN [e EXCEPT !.pVdbe = @ \ e.internal, !.internal = {}]
    ELSE e

(* sqlite3_finalize of each of S; of NULL it does nothing.                 *)
Finalize(e, S) ==
  DisconnectVtab([e EXCEPT !.pVdbe = @ \ S, !.locks = @ \ S])

(* sqlite3_close, which answers SQLITE_BUSY while pVdbe is not empty.      *)
TryClose(e) == DisconnectVtab([e EXCEPT !.closing = TRUE])

-----------------------------------------------------------------------------

(* sqlite_st_prepare_sv that succeeds.  SQL without a statement in it      *)
(* gives a NULL statement, which is listed like any other.                 *)
Prepare(h, a, onVtab) ==
  /\ Active
  /\ ~sth[h].exists
  /\ a \notin engine.pVdbe
  /\ Len(stmt_list) < MaxNodes
  /\ stmt_list' = <<a>> \o stmt_list
  /\ engine' = [engine EXCEPT
       !.pVdbe = @ \cup ({a} \ {NULL}),
       !.locks = @ \cup (IF onVtab THEN {a} \ {NULL} ELSE {})]
  /\ sth' = [sth EXCEPT ![h] = [exists |-> TRUE, stmt |-> a, Active |-> FALSE]]
  /\ dangling' = {}
  /\ UNCHANGED Active

(* A syntax error, or an inactive database handle: the new statement       *)
(* handle is thrown away.                                                  *)
PrepareFails(h) ==
  /\ ~sth[h].exists
  /\ dangling' = {}
  /\ UNCHANGED <<Active, stmt_list, engine, sth>>

(* A virtual table prepares a statement of its own the first time it needs *)
(* it, and keeps it.                                                       *)
VtabPrepares ==
  \E b \in Addrs \ engine.pVdbe :
    engine' = [engine EXCEPT !.pVdbe = @ \cup {b}, !.internal = @ \cup {b}]

(* A step of a.                                                            *)
StepMayPrepare(a) ==
  \/ UNCHANGED engine
  \/ a \in engine.locks /\ VtabPrepares

(* sqlite_st_execute: an empty statement does nothing; a query becomes     *)
(* active; everything else leaves the handle as it was.                    *)
Execute(h) ==
  LET a == sth[h].stmt IN
  /\ Active
  /\ sth[h].exists
  /\ StepMayPrepare(a)
  /\ \E on \in IF a = NULL THEN {FALSE} ELSE {sth[h].Active, TRUE} :
       sth' = [sth EXCEPT ![h].Active = on]
  /\ dangling' = NotPrepared({a})
  /\ UNCHANGED <<Active, stmt_list>>

(* sqlite_st_fetch: the next row, or the end and its finish.               *)
Fetch(h) ==
  /\ Active
  /\ sth[h].exists /\ sth[h].Active
  /\ \E on \in BOOLEAN : sth' = [sth EXCEPT ![h].Active = on]
  /\ StepMayPrepare(sth[h].stmt)
  /\ dangling' = NotPrepared({sth[h].stmt})
  /\ UNCHANGED <<Active, stmt_list>>

(* sqlite_db_do_sv: sqlite3_exec finalizes what it prepares before it      *)
(* returns; what a virtual table prepared meanwhile stays.                 *)
Do ==
  /\ Active
  /\ UNCHANGED engine \/ VtabPrepares
  /\ dangling' = {}
  /\ UNCHANGED <<Active, stmt_list, sth>>

(* sqlite_st_finish3: after a disconnect only the flag is cleared.         *)
Finish(h) ==
  /\ sth[h].exists /\ sth[h].Active
  /\ sth' = [sth EXCEPT ![h].Active = FALSE]
  /\ dangling' = IF Active THEN NotPrepared({sth[h].stmt}) ELSE {}
  /\ UNCHANGED <<Active, stmt_list, engine>>

(* sqlite_st_FETCH_attrib: NAME, TYPE, ParamValues and the like.  Refused  *)
(* after a disconnect.                                                     *)
FetchAttrib(h) ==
  /\ sth[h].exists
  /\ dangling' = IF Active THEN NotPrepared({sth[h].stmt}) ELSE {}
  /\ UNCHANGED <<Active, stmt_list, engine, sth>>

(* sqlite_bind_ph with a parameter's name asks the statement for its       *)
(* position, whatever has become of the connection.                        *)
BindNamed(h) ==
  /\ sth[h].exists
  /\ Active \/ BindInactive
  /\ dangling' = NotPrepared({sth[h].stmt})
  /\ UNCHANGED <<Active, stmt_list, engine, sth>>

(* Mutant of RemoveNode: only a statement at the front is found.           *)
RemoveNode_FrontOnly(list, a) ==
  IF list # <<>> /\ list[1] = a THEN Tail(list) ELSE list

(* "find the statement in the statement list and delete it"                *)
RemoveNode(list, a) == RemoveFirst(list, a)

(* sqlite_st_destroy.  An empty statement is not looked for in the list;   *)
(* nothing is when the connection is gone, for the disconnect has          *)
(* finalized all.                                                          *)
Destroy(h) ==
  LET a == sth[h].stmt
      finalizes == Active /\ a # NULL
  IN
  /\ sth[h].exists
  /\ engine' = IF finalizes THEN Finalize(engine, {a}) ELSE engine
  /\ stmt_list' = IF finalizes THEN RemoveNode(stmt_list, a) ELSE stmt_list
  /\ dangling' = IF finalizes THEN NotPrepared({a}) ELSE {}
  /\ sth' = [sth EXCEPT ![h] = NoHandle]
  /\ UNCHANGED Active

(* Mutants of Remaining: whatever the engine knows, with sqlite3_next_stmt *)
(* as before the fix of #97598; the statements of active handles only.     *)
Remaining_Known == SetToSeq(engine.pVdbe)
Remaining_ActiveOnly == SelectSeq(stmt_list,
  LAMBDA a : \E h \in Handles : sth[h].Active /\ sth[h].stmt = a)

(* "Only close the statements that were prepared by this module"           *)
Remaining == stmt_list

Repeated(s) == {a \in Range(s) : \E i, j \in DOMAIN s : i # j /\ s[i] = a /\ s[j] = a}

(* sqlite_db_disconnect: close; when that is refused, finalize what is in  *)
(* the list and close again; free the nodes.  What the list finalizes the  *)
(* virtual table must not, and nothing may be finalized twice.             *)
Disconnect ==
  LET first == TryClose(engine)
      S     == Range(Remaining)
  IN
  /\ Active
  /\ Active' = FALSE
  /\ IF first.pVdbe = {}
       THEN /\ engine' = first
            /\ dangling' = {}
       ELSE /\ engine' = TryClose(Finalize(first, S))
            /\ dangling' = (S \ (first.pVdbe \cup {NULL}))
                             \cup (Repeated(Remaining) \ {NULL})
                             \cup (S \cap first.internal)
  /\ stmt_list' = <<>>
  /\ UNCHANGED sth

Next ==
  \/ \E h \in Handles :
       \/ \E a \in Addrs \cup {NULL}, onVtab \in BOOLEAN : Prepare(h, a, onVtab)
       \/ PrepareFails(h)
       \/ Execute(h) \/ Fetch(h) \/ Finish(h)
       \/ FetchAttrib(h) \/ BindNamed(h)
       \/ Destroy(h)
  \/ Do
  \/ Disconnect

Spec == Init /\ [][Next]_vars

-----------------------------------------------------------------------------

(* Shape of the state; only prepared statements lock the virtual table or  *)
(* belong to it, and none does both.                                       *)
TypeOK ==
  /\ Active \in BOOLEAN
  /\ stmt_list \in Seq(Addrs \cup {NULL})
  /\ engine \in Engine
  /\ engine.internal \subseteq engine.pVdbe
  /\ engine.locks \subseteq engine.pVdbe \ engine.internal
  /\ sth \in [Handles -> Sth]
  /\ dangling \subseteq Addrs

(* The statements of live handles.                                         *)
Owned == {sth[h].stmt : h \in {g \in Handles : sth[g].exists}} \ {NULL}

(* While connected the driver's list, the engine and the handles agree:    *)
(* each statement that is not a virtual table's has one handle and one     *)
(* node, whatever was destroyed in what order and whatever addresses the   *)
(* engine used again.                                                      *)
OneOwnerEach ==
  Active =>
    /\ Range(stmt_list) \ {NULL} = engine.pVdbe \ engine.internal
    /\ Repeated(stmt_list) \subseteq {NULL}
    /\ Owned = engine.pVdbe \ engine.internal
    /\ \A g, h \in Handles :
         /\ g # h
         /\ sth[g].exists /\ sth[h].exists
         /\ sth[g].stmt = sth[h].stmt
         => sth[g].stmt = NULL

(* The engine is only handed statements it has prepared and not yet        *)
(* finalized; in particular a disconnect finalizes nothing twice, and      *)
(* nothing that a virtual table will finalize.                             *)
OnlyPrepared == dangling = {}

(* After a disconnect no statement is left, so that the connection was     *)
(* really closed and not only forgotten.                                   *)
DisconnectCloses == ~Active => engine.pVdbe = {} /\ stmt_list = <<>>

-----------------------------------------------------------------------------
(* Changes:728-729, "Resolved #62370: Segfaults during operations on       *)
(* disconnected handles": no operation on a handle of a connection that is *)
(* gone reaches the engine.  Checked alone, with BindInactive.             *)
DisconnectedHandlesLeaveEngineAlone == ~Active => dangling = {}
=============================================================================
