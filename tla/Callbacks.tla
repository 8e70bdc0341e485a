------------------------------- MODULE Callbacks ------------------------------
(***************************************************************************)
(* Perl code the engine calls: functions, aggregates, collations, hooks,   *)
(* trace and profile callbacks, virtual table methods.  The engine keeps a *)
(* bare pointer per slot; the Perl value it points to is kept alive by the *)
(* arrays `functions' and `aggregates' of the handle.  A callback is Perl  *)
(* code like any other: it may register callbacks, prepare and run         *)
(* statements on each handle.  It does not disconnect the handle that is   *)
(* calling it, and it does not die where the driver does not catch that.   *)
(*                                                                         *)
(* hook stands for the commit, rollback and update hooks, the progress     *)
(* handler and the authorizer, which are kept alike.                       *)
(***************************************************************************)
EXTENDS Sequences, Integers, FiniteSets

CONSTANTS
  Handles,
  Modes,      \* values of sqlite_string_mode
  PV,         \* DBD_SQLITE_STRING_MODE_PV
  Slots,      \* those of a run
  MaxSv,      \* bound on the registrations
  MaxDepth,   \* bound on callbacks within callbacks
  NULL

(* create_function, create_aggregate, create_collation: the engine refuses *)
(* to replace these while a statement runs.                                *)
Guarded == {"func", "aggr", "coll"}

ASSUME CallbackAssumption ==
  /\ Slots \subseteq Guarded \cup {"hook", "trace", "profile", "vtab"}
  /\ PV \in Modes /\ MaxSv \in Nat /\ MaxDepth \in Nat /\ NULL \notin 1..MaxSv

VARIABLES
  imp_dbh,               \* the handles
  last_dbh_string_mode,  \* of the interpreter
  frames,                \* engine calls and Perl calls in progress
  nSv,                   \* registrations so far; a Perl value is their number
  wanted                 \* history: what the program has asked each slot to be

vars == <<imp_dbh, last_dbh_string_mode, frames, nSv, wanted>>

Svs == 1..MaxSv
Empty == [sv |-> NULL, mode |-> PV]

(* running: a SELECT between two fetches, "timed" if it started with a     *)
(* profile callback.  A handle has one such SELECT at a time.              *)
Connected(mode) ==
  [active |-> TRUE, open |-> TRUE, string_mode |-> mode, functions |-> {}, aggregates |-> {},
   slot |-> [s \in Slots |-> Empty], mTrace |-> {}, running |-> "none"]

Init ==
  /\ imp_dbh \in [Handles -> {Connected(m) : m \in Modes}]
  /\ last_dbh_string_mode = PV
  /\ frames = <<>>
  /\ nSv = 0
  /\ wanted = [h \in Handles |-> [s \in Slots |-> Empty]]

(* A frame is a call into the engine, op "step" ("halted" after the        *)
(* statement's end), "prepare" or "close", or a call of Perl code from     *)
(* there, op "perl".                                                       *)
Top == frames[Len(frames)]
InPerl   == IF frames = <<>> THEN TRUE ELSE Top.op = "perl"
InEngine == ~InPerl
Rest == SubSeq(frames, 1, Len(frames) - 1)
Calls == {i \in DOMAIN frames : frames[i].op = "perl"}

Frame(h, op) == [h |-> h, op |-> op, timed |-> FALSE, slot |-> NULL, sv |-> NULL, mode |-> PV]

nVdbeActive(h) ==
  imp_dbh[h].running # "none" \/ \E i \in DOMAIN frames : frames[i].h = h /\ frames[i].op = "step"

-----------------------------------------------------------------------------
(* The program, or a callback.                                             *)

(* STORE of sqlite_string_mode or of an older name of it.                  *)
SetStringMode(h, mode) ==
  /\ InPerl /\ imp_dbh[h].active
  /\ imp_dbh' = [imp_dbh EXCEPT ![h].string_mode = mode]
  /\ UNCHANGED <<last_dbh_string_mode, frames, nSv, wanted>>

(* sqlite_st_prepare_sv.  The mode is noted before the handle is looked at. *)
Prepare(h) ==
  /\ InPerl
  /\ last_dbh_string_mode' = imp_dbh[h].string_mode
  /\ frames' = IF imp_dbh[h].active THEN Append(frames, Frame(h, "prepare")) ELSE frames
  /\ UNCHANGED <<imp_dbh, nSv, wanted>>

(* sqlite_st_execute, sqlite_db_do_sv: a statement starts.                 *)
Execute(h) ==
  /\ InPerl /\ imp_dbh[h].active
  /\ frames' = Append(frames, [Frame(h, "step") EXCEPT !.timed = "profile" \in imp_dbh[h].mTrace])
  /\ UNCHANGED <<imp_dbh, last_dbh_string_mode, nSv, wanted>>

(* sqlite_st_fetch: the open SELECT goes on.                               *)
Fetch(h) ==
  /\ InPerl /\ imp_dbh[h].active /\ imp_dbh[h].running # "none"
  /\ frames' = Append(frames, [Frame(h, "step") EXCEPT !.timed = (imp_dbh[h].running = "timed")])
  /\ imp_dbh' = [imp_dbh EXCEPT ![h].running = "none"]
  /\ UNCHANGED <<last_dbh_string_mode, nSv, wanted>>

(* What the driver gives the engine for slot s: the dispatcher's mode is   *)
(* chosen here, or is PV, or is no concern of the slot's.                  *)
Registered(h, s, sv) ==
  [sv |-> sv, mode |-> IF s \in {"func", "coll"} THEN imp_dbh[h].string_mode ELSE PV]

(* sqlite3_trace and sqlite3_profile share the bits of mTrace.             *)
TraceBits(h, s, on) ==
  CASE s = "trace"   -> IF on THEN {"trace"} ELSE {}
    [] s = "profile" -> IF on THEN {"profile"} ELSE {}
    [] OTHER         -> imp_dbh[h].mTrace

(* Mutant of Kept: the callback that had the slot is released.             *)
Kept_Replaces(h, s, sv) ==
  LET released == {imp_dbh[h].slot[s].sv} IN
  [imp_dbh[h] EXCEPT
     !.functions = (@ \ released) \cup (IF s # "aggr" THEN {sv} \ {NULL} ELSE {}),
     !.aggregates = (@ \ released) \cup (IF s = "aggr" THEN {sv} ELSE {})]

(* The copy of the callback joins the others until the disconnect.         *)
Kept(h, s, sv) ==
  [imp_dbh[h] EXCEPT !.functions = @ \cup (IF s # "aggr" THEN {sv} \ {NULL} ELSE {}),
                     !.aggregates = @ \cup (IF s = "aggr" THEN {sv} ELSE {})]

(* SQLITE_BUSY.                                                            *)
Refused(h, s) == s \in Guarded /\ imp_dbh[h].slot[s].sv # NULL /\ nVdbeActive(h)

(* sqlite_db_create_function and its like, with a callback (sv # NULL) or  *)
(* undef.                                                                  *)
Register(h, s, sv) ==
  /\ InPerl /\ imp_dbh[h].active
  /\ IF Refused(h, s)
     THEN imp_dbh' = [imp_dbh EXCEPT ![h] = Kept(h, s, sv)] /\ UNCHANGED wanted
     ELSE /\ imp_dbh' = [imp_dbh EXCEPT ![h] =
                           [Kept(h, s, sv) EXCEPT !.slot[s] = Registered(h, s, sv),
                                                  !.mTrace = TraceBits(h, s, sv # NULL)]]
          /\ wanted' = [wanted EXCEPT ![h][s] = Registered(h, s, sv)]
  /\ UNCHANGED <<last_dbh_string_mode, frames>>

Create(h, s) ==
  /\ nSv < MaxSv
  /\ nSv' = nSv + 1
  /\ Register(h, s, nSv + 1)

(* There is no way to take an aggregate or a collation back.               *)
Remove(h, s) == s \notin {"aggr", "coll"} /\ UNCHANGED nSv /\ Register(h, s, NULL)

(* Mutant of Closing: the arrays are released before sqlite3_close.        *)
Closing_Released(h) ==
  [imp_dbh[h] EXCEPT !.active = FALSE, !.running = "none", !.functions = {}, !.aggregates = {}]

Closing(h) == [imp_dbh[h] EXCEPT !.active = FALSE, !.running = "none"]

(* sqlite_db_disconnect, from outside of callbacks: sqlite3_close begins.  *)
(* What was open is rolled back and finalized on the way, with callbacks.  *)
Disconnect(h) ==
  /\ frames = <<>> /\ imp_dbh[h].active
  /\ imp_dbh' = [imp_dbh EXCEPT ![h] = Closing(h)]
  /\ frames' = <<[Frame(h, "close") EXCEPT !.timed = (imp_dbh[h].running = "timed")]>>
  /\ UNCHANGED <<last_dbh_string_mode, nSv, wanted>>

-----------------------------------------------------------------------------
(* The engine.                                                             *)

(* The slots an engine call can come to.                                   *)
Reached(op, timed) ==
  CASE op = "prepare" -> {"hook"}
    [] op = "step"    -> {"func", "aggr", "coll", "hook", "trace", "vtab"}
    [] op = "halted"  -> IF timed THEN {"profile"} ELSE {}
    [] op = "close"   -> {"hook"} \cup IF timed THEN {"profile"} ELSE {}

(* Mutant of CallMode: all strings are converted by the last handle's mode. *)
CallMode_Last(h, s) == last_dbh_string_mode

(* The mode strings are converted by: perl_vt_Filter and perl_vt_Update    *)
(* look at last_dbh_string_mode, the dispatchers have their own.           *)
CallMode(h, s) ==
  IF s = "vtab" THEN last_dbh_string_mode ELSE imp_dbh[h].slot[s].mode

Call(s) ==
  /\ InEngine /\ Cardinality(Calls) < MaxDepth
  /\ s \in Reached(Top.op, Top.timed)
  /\ s # "vtab" => imp_dbh[Top.h].slot[s].sv # NULL
  /\ s = "trace" => "trace" \in imp_dbh[Top.h].mTrace
  /\ frames' = Append(frames, [Frame(Top.h, "perl") EXCEPT
                                 !.slot = s,
                                 !.sv = imp_dbh[Top.h].slot[s].sv,
                                 !.mode = CallMode(Top.h, s)])
  /\ UNCHANGED <<imp_dbh, last_dbh_string_mode, nSv, wanted>>

CallReturns ==
  /\ frames # <<>> /\ Top.op = "perl"
  /\ frames' = Rest
  /\ UNCHANGED <<imp_dbh, last_dbh_string_mode, nSv, wanted>>

(* sqlite3VdbeHalt: the statement does not count as active any more.       *)
Halt ==
  /\ InEngine /\ Top.op = "step"
  /\ frames' = [frames EXCEPT ![Len(frames)].op = "halted"]
  /\ UNCHANGED <<imp_dbh, last_dbh_string_mode, nSv, wanted>>

EngineReturns ==
  /\ InEngine /\ Top.op \in {"prepare", "halted"}
  /\ frames' = Rest
  /\ UNCHANGED <<imp_dbh, last_dbh_string_mode, nSv, wanted>>

(* A step returns a row: the SELECT stays open.                            *)
RowReturned ==
  /\ InEngine /\ Top.op = "step" /\ imp_dbh[Top.h].running = "none"
  /\ frames' = Rest
  /\ imp_dbh' = [imp_dbh EXCEPT ![Top.h].running = IF Top.timed THEN "timed" ELSE "plain"]
  /\ UNCHANGED <<last_dbh_string_mode, nSv, wanted>>

(* sqlite3_close has returned: db is NULL, the arrays are released.        *)
Closed ==
  /\ InEngine /\ Top.op = "close"
  /\ frames' = Rest
  /\ imp_dbh' = [imp_dbh EXCEPT ![Top.h].open = FALSE, ![Top.h].functions = {},
                                ![Top.h].aggregates = {}, ![Top.h].mTrace = {},
                                ![Top.h].slot = [s \in Slots |-> Empty]]
  /\ wanted' = [wanted EXCEPT ![Top.h] = [s \in Slots |-> Empty]]
  /\ UNCHANGED <<last_dbh_string_mode, nSv>>

Next ==
  \/ \E h \in Handles :
       \/ \E mode \in Modes : SetStringMode(h, mode)
       \/ Prepare(h) \/ Execute(h) \/ Fetch(h) \/ Disconnect(h)
       \/ \E s \in Slots \ {"vtab"} : Create(h, s) \/ Remove(h, s)
  \/ \E s \in Slots : Call(s)
  \/ CallReturns \/ Halt \/ EngineReturns \/ RowReturned \/ Closed

Spec == Init /\ [][Next]_vars

-----------------------------------------------------------------------------
(* Properties.                                                             *)

SlotOK == [sv : {NULL} \cup Svs, mode : Modes]

(* A package is kept in `aggregates', everything else in `functions', and  *)
(* a callback runs on top of the engine call that made it.                 *)
TypeOK ==
  /\ imp_dbh \in [Handles -> [active : BOOLEAN, open : BOOLEAN, string_mode : Modes,
                               functions : SUBSET Svs, aggregates : SUBSET Svs,
                               slot : [Slots -> SlotOK], mTrace : SUBSET {"trace", "profile"},
                               running : {"none", "plain", "timed"}]]
  /\ \A h \in Handles : imp_dbh[h].functions \cap imp_dbh[h].aggregates = {}
  /\ last_dbh_string_mode \in Modes
  /\ frames \in Seq([h : Handles, op : {"step", "halted", "prepare", "close", "perl"}, timed : BOOLEAN,
                     slot : {NULL} \cup Slots, sv : {NULL} \cup Svs, mode : Modes])
  /\ \A i \in DOMAIN frames : frames[i].op = "perl" <=> i % 2 = 0
  /\ nSv \in 0..MaxSv
  /\ wanted \in [Handles -> [Slots -> SlotOK]]

(* Whatever the engine may still call, to the end of sqlite3_close with    *)
(* its rollback hook and profile callback, is alive (sqlite_db_disconnect  *)
(* closes before it releases the arrays).                                  *)
SlotsAlive ==
  \A h \in Handles : \A s \in Slots :
    imp_dbh[h].slot[s].sv \in {NULL} \cup imp_dbh[h].functions \cup imp_dbh[h].aggregates

(* A function, aggregate or collation that runs is the registered one, and *)
(* converts its strings as its own handle did when it was registered: the  *)
(* engine does not let it be replaced while it runs, and neither the other *)
(* handle nor sqlite_string_mode reaches it.                               *)
RunningIsRegistered ==
  \A i \in Calls :
    LET f == frames[i] IN
    f.slot \in Guarded => [sv |-> f.sv, mode |-> f.mode] = wanted[f.h][f.slot]

(* A callback that runs stays alive to its end, although its slot may have *)
(* gone to another one meanwhile: a hook or a profile callback may replace *)
(* or remove itself, directly or from a callback nested in it, and it may  *)
(* run while the handle is being closed.  The engine forgets the replaced  *)
(* pointer; only the arrays still hold the value (sqlite_db_update_hook,   *)
(* sqlite_db_profile and their like, which add to `functions' and take     *)
(* nothing out).                                                           *)
RunningIsKept ==
  \A i \in Calls :
    LET d == imp_dbh[frames[i].h] IN
    frames[i].sv \in {NULL} \cup d.functions \cup d.aggregates

(* lib/DBD/SQLite.pm: sqlite_trace "registers a trace callback to be       *)
(* invoked whenever SQL statements are being run".  A later sqlite_profile *)
(* puts an end to that.                                                    *)
TraceIsInvoked ==
  \A h \in Handles : wanted[h]["trace"].sv # NULL => "trace" \in imp_dbh[h].mTrace

(* lib/DBD/SQLite.pm: sqlite_string_mode "defines that translation"        *)
(* between SQLite's strings and Perl's for its handle.  Virtual tables     *)
(* take the mode of the handle that prepared something last.               *)
VtabFollowsHandle ==
  \A i \in Calls :
    frames[i].slot = "vtab" => frames[i].mode = imp_dbh[frames[i].h].string_mode

(* The same for the arguments of an aggregate's step(), which are never    *)
(* decoded.                                                                *)
AggregateFollowsHandle ==
  \A i \in Calls :
    frames[i].slot = "aggr" => frames[i].mode = imp_dbh[frames[i].h].string_mode

(* lib/DBD/SQLite.pm: decoding for collations works "if the                *)
(* sqlite_string_mode attribute is set before the first call to a perl     *)
(* collation sequence".  It has to be set before the registration.         *)
CollationFollowsHandle ==
  \A i \in Calls :
    frames[i].slot = "coll" => frames[i].mode = imp_dbh[frames[i].h].string_mode
===============================================================================
