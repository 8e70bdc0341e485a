------------------------------ MODULE Aggregates ------------------------------
(***************************************************************************)
(* Aggregate functions written in Perl.  The engine keeps one aggrInfo for *)
(* each aggregate of a query and group; the driver's dispatchers create an *)
(* object by new(), feed it the rows by step(), and ask finalize() for the *)
(* result.  Each of these methods may die, and may run queries of its own  *)
(* that use the same aggregates, so that the queries form a stack.  The    *)
(* query on top fails for reasons that are not the aggregate's (another    *)
(* function of the row, an interrupt, a full disk) at any point between    *)
(* two calls; the engine then finalizes the contexts that exist.           *)
(*                                                                         *)
(* A warning of the driver does not die, and memory does not run out.      *)
(***************************************************************************)
EXTENDS Sequences, Integers, FiniteSets

CONSTANTS
  NumCols,       \* the aggregates of a query
  MaxDepth,      \* bound on queries within queries
  MaxGroupRows,  \* bound on the rows of a group
  MaxGroups,     \* bound on the groups of a query
  NULL

ASSUME AggrAssumption ==
  /\ NumCols \in Nat /\ NumCols > 0
  /\ MaxDepth \in Nat /\ MaxGroupRows \in Nat /\ MaxGroups \in Nat
  /\ NULL \notin Nat /\ NULL \notin {"new", "step", "finalize"}

Cols == 1..NumCols

(* Addresses of Perl objects: as many as can be in use.                    *)
Objects == 1..(NumCols * MaxDepth)

VARIABLES
  queries,  \* the running queries, the innermost last
  obj       \* [Objects -> what is at the address]

aggrVars == <<queries, obj>>

Depth == Len(queries)
Top   == queries[Depth]

(* aggrInfo.  MEM_Agg is set (mem) if the engine has allocated it.         *)
NoAggr == [mem |-> FALSE, inited |-> FALSE, err |-> FALSE, aggr_inst |-> NULL]

(* refs: the driver's references.  steps: rows it has been given.  died: a *)
(* method called on it died.  done: finalize() was called.                 *)
NewObj  == [refs |-> 1, steps |-> 0, died |-> FALSE, done |-> FALSE]
NoObj   == [NewObj EXCEPT !.refs = 0]

(* grouped: GROUP BY.  at: what the engine does with column col, "step",   *)
(* "final" or "abort", or where it is, "row" before a row, "out" with the  *)
(* result of a group, "over".  method: the Perl method that is running.    *)
(* rows: complete rows of the group.  mishap and result: history, whether  *)
(* a method of the group died, and its answer.                             *)
NoQuery(g) ==
  [grouped |-> g, at |-> "row", col |-> 1, method |-> NULL, rows |-> 0, groups |-> 0,
   aggr |-> [c \in Cols |-> NoAggr],
   mishap |-> [c \in Cols |-> FALSE],
   result |-> [c \in Cols |-> NULL]]

AggrInit == queries = <<>> /\ obj = [o \in Objects |-> NoObj]

SetTop(q) == queries' = [queries EXCEPT ![Depth] = q]
Returned == Depth > 0 /\ Top.method = NULL
In(method) == Depth > 0 /\ Top.method = method
Info == Top.aggr[Top.col]

-----------------------------------------------------------------------------
(* The engine.                                                             *)

(* A query starts: the program's own, or one of the method that runs.      *)
Query ==
  /\ Depth < MaxDepth
  /\ Depth > 0 => Top.method # NULL
  /\ \E g \in BOOLEAN : queries' = Append(queries, NoQuery(g))
  /\ UNCHANGED obj

(* q with the next column to do, or with what follows the last.            *)
NextCol(q) ==
  IF q.col + 1 \in Cols THEN [q EXCEPT !.col = @ + 1, !.method = NULL]
  ELSE [q EXCEPT !.col = 1, !.method = NULL,
                 !.at = [step |-> "row", final |-> "out", abort |-> "over"][@],
                 !.rows = IF q.at = "step" THEN @ + 1 ELSE @]

(* A row of the group: OP_AggStep for each column.  The first of the group *)
(* finds the accumulators reset to NULL.                                   *)
Row ==
  /\ Returned /\ Top.at = "row" /\ Top.rows < MaxGroupRows
  /\ SetTop([Top EXCEPT !.at = "step"])
  /\ UNCHANGED obj

(* The group ends: OP_AggFinal for each column.  A group of a GROUP BY has *)
(* a row.                                                                  *)
GroupEnds ==
  /\ Returned /\ Top.at = "row" /\ Top.groups < MaxGroups
  /\ Top.grouped => Top.rows > 0
  /\ SetTop([Top EXCEPT !.at = "final", !.groups = @ + 1])
  /\ UNCHANGED obj

(* The result row is out, and the accumulators are reset for the next      *)
(* group.                                                                  *)
NextGroup ==
  /\ Returned /\ Top.at = "out" /\ Top.grouped
  /\ SetTop([NoQuery(TRUE) EXCEPT !.groups = Top.groups])
  /\ UNCHANGED obj

(* The query fails before the next call.                                   *)
Fails ==
  /\ Returned /\ Top.at \in {"row", "step", "final", "out"}
  /\ SetTop([Top EXCEPT !.at = "abort", !.col = 1])
  /\ UNCHANGED obj

(* The query is over: its last result is out, or it had no row to group,   *)
(* or it failed.                                                           *)
QueryEnds ==
  /\ Returned
  /\ \/ Top.at \in {"out", "over"}
     \/ Top.at = "row" /\ Top.grouped /\ Top.rows = 0 /\ Top.groups = 0
  /\ queries' = SubSeq(queries, 1, Depth - 1)
  /\ UNCHANGED obj

-----------------------------------------------------------------------------
(* The dispatchers.                                                        *)

Call(q, method) == SetTop([q EXCEPT !.method = method])

(* step() and finalize() are called on the object unless an error was met. *)
Usable(aggr) == ~aggr.err /\ aggr.aggr_inst # NULL

(* Mutant of StepDispatcher: an error of an earlier step is not looked at. *)
StepDispatcher_ErrIgnored ==
  /\ Returned /\ Top.at = "step"
  /\ LET q == [Top EXCEPT !.aggr[Top.col].mem = TRUE] IN
     CASE ~q.aggr[q.col].inited -> Call(q, "new")
       [] q.aggr[q.col].inited /\ q.aggr[q.col].aggr_inst # NULL -> Call(q, "step")
       [] OTHER -> SetTop(NextCol(q))
  /\ UNCHANGED obj

(* sqlite_db_aggr_step_dispatcher.                                         *)
StepDispatcher ==
  /\ Returned /\ Top.at = "step"
  /\ LET q == [Top EXCEPT !.aggr[Top.col].mem = TRUE] IN
     CASE ~q.aggr[q.col].inited -> Call(q, "new")
       [] q.aggr[q.col].inited /\ Usable(q.aggr[q.col]) -> Call(q, "step")
       [] OTHER -> SetTop(NextCol(q))
  /\ UNCHANGED obj

(* Mutant of Conclude: with an error to warn of, the object is left alone. *)
Conclude_ErrOnly(q, objs) ==
  /\ SetTop(NextCol([q EXCEPT !.aggr[q.col] = NoAggr]))
  /\ obj' = [o \in Objects |-> IF o = q.aggr[q.col].aggr_inst /\ ~q.aggr[q.col].err
                                THEN [NoObj EXCEPT !.refs = objs[o].refs - 1] ELSE objs[o]]

(* The end of the finalize dispatcher: warn, and release err and object.   *)
Conclude(q, objs) ==
  /\ SetTop(NextCol([q EXCEPT !.aggr[q.col] = NoAggr]))
  /\ obj' = [o \in Objects |-> IF o = q.aggr[q.col].aggr_inst
                                THEN [NoObj EXCEPT !.refs = objs[o].refs - 1] ELSE objs[o]]

(* sqlite_db_aggr_finalize_dispatcher.  The engine calls it for every      *)
(* column at the end of a group, and when the query fails for those that   *)
(* have a context.                                                         *)
FinalizeDispatcher ==
  /\ Returned
  /\ Top.at = "final" \/ (Top.at = "abort" /\ Info.mem)
  /\ CASE ~Info.mem -> Call(Top, "new") /\ UNCHANGED obj
       [] Info.mem /\ Usable(Info) -> Call(Top, "finalize") /\ UNCHANGED obj
       [] OTHER -> Conclude(Top, obj)

AbortSkips ==
  /\ Returned /\ Top.at = "abort" /\ ~Info.mem
  /\ SetTop(NextCol(Top))
  /\ UNCHANGED obj

(* sqlite_db_aggr_new_dispatcher: new() has returned an object.            *)
Created(q, o) ==
  [q EXCEPT !.aggr[q.col].err = FALSE, !.aggr[q.col].aggr_inst = o,
            !.aggr[q.col].inited = TRUE]

(* Mutant of Died: the error is not kept.                                  *)
Died_NotKept(q) == [q EXCEPT !.mishap[q.col] = TRUE]

(* A method died: err tells.                                               *)
Died(q) == [q EXCEPT !.aggr[q.col].inited = TRUE, !.aggr[q.col].err = TRUE,
                     !.mishap[q.col] = TRUE]

(* new() returns an object, at the first free address.  The dispatcher it  *)
(* was called from goes on to step() or finalize().                        *)
NewReturns ==
  /\ In("new")
  /\ \E o \in Objects :
       /\ obj[o].refs = 0
       /\ \A p \in 1..(o - 1) : obj[p].refs # 0
       /\ Call(Created(Top, o), IF Top.at = "step" THEN "step" ELSE "finalize")
       /\ obj' = [obj EXCEPT ![o] = NewObj]

(* new() dies, or does not return an object.                               *)
NewDies ==
  /\ In("new")
  /\ IF Top.at = "step"
     THEN SetTop(NextCol(Died(Top))) /\ UNCHANGED obj
     ELSE Conclude(Died(Top), obj)

StepReturns ==
  /\ In("step")
  /\ SetTop(NextCol(Top))
  /\ obj' = [obj EXCEPT ![Info.aggr_inst].steps = @ + 1]

StepDies ==
  /\ In("step")
  /\ SetTop(NextCol(Died(Top)))
  /\ obj' = [obj EXCEPT ![Info.aggr_inst].died = TRUE]

(* finalize() returns the number of rows the object has seen.  A query     *)
(* that fails has no use for it.                                           *)
FinalizeReturns ==
  /\ In("finalize")
  /\ Conclude([Top EXCEPT !.result[Top.col] =
                 IF Top.at = "final" THEN obj[Info.aggr_inst].steps ELSE NULL],
              [obj EXCEPT ![Info.aggr_inst].done = TRUE])

FinalizeDies ==
  /\ In("finalize")
  /\ Conclude(Died(Top), [obj EXCEPT ![Info.aggr_inst].done = TRUE,
                                     ![Info.aggr_inst].died = TRUE])

AggrNext ==
  \/ Query \/ Row \/ GroupEnds \/ NextGroup \/ Fails \/ QueryEnds
  \/ StepDispatcher \/ FinalizeDispatcher \/ AbortSkips
  \/ NewReturns \/ NewDies \/ StepReturns \/ StepDies \/ FinalizeReturns \/ FinalizeDies

AggrSpec == AggrInit /\ [][AggrNext]_aggrVars

-----------------------------------------------------------------------------
(* Properties.                                                             *)

TypeOK ==
  /\ queries \in Seq([grouped : BOOLEAN, at : {"row", "step", "final", "abort", "out", "over"},
                      col : Cols, method : {NULL, "new", "step", "finalize"},
                      rows : 0..MaxGroupRows, groups : 0..MaxGroups,
                      aggr : [Cols -> [mem : BOOLEAN, inited : BOOLEAN, err : BOOLEAN,
                                       aggr_inst : {NULL} \cup Objects]],
                      mishap : [Cols -> BOOLEAN], result : [Cols -> {NULL} \cup 0..MaxGroupRows]])
  /\ Depth <= MaxDepth
  /\ obj \in [Objects -> [refs : {0, 1}, steps : 0..MaxGroupRows, died : BOOLEAN, done : BOOLEAN]]

(* The groups of running queries that have object o.                       *)
Holders(o) == {h \in (1..Depth) \X Cols : queries[h[1]].aggr[h[2]].aggr_inst = o}

(* Every object new() returned belongs to one group of one query, and is   *)
(* released when that group is done with, also if a method died or the     *)
(* query failed: none leaks, none is released twice, and queries that      *)
(* methods run do not get hold of it.                                      *)
ObjectsAreReleased ==
  \A o \in Objects : obj[o].refs = Cardinality(Holders(o)) /\ obj[o].refs <= 1

(* A method is called on an object that is alive, on which no earlier call *)
(* died and for which finalize() was not called before.                    *)
CalledInOrder ==
  \A d \in 1..Depth :
    LET q == queries[d] IN
    q.method \in {"step", "finalize"} =>
      LET o == q.aggr[q.col].aggr_inst IN
      /\ o # NULL
      /\ obj[o].refs = 1 /\ ~obj[o].died /\ ~obj[o].done

(* The result of a group is what finalize() made of all its rows and of no *)
(* others, and NULL if and only if a method died for this column.          *)
ResultIsOfTheGroup ==
  \A d \in 1..Depth : \A c \in Cols :
    queries[d].at = "out" =>
      /\ queries[d].mishap[c] <=> queries[d].result[c] = NULL
      /\ ~queries[d].mishap[c] => queries[d].result[c] = queries[d].rows

(* lib/DBD/SQLite.pm: finalize() "will be called once all rows in the      *)
(* aggregate were processed".  It is also called for a group whose query   *)
(* fails halfway.                                                          *)
FinalizedWhenComplete ==
  \A d \in 1..Depth : queries[d].method = "finalize" => queries[d].at = "final"
=============================================================================
