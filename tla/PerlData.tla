------------------------------- MODULE PerlData -------------------------------
(***************************************************************************)
(* The bundled virtual table over a Perl array (PerlData.pm): scans by     *)
(* cursors, changes by SQL statements between two fetches of a scan, and   *)
(* changes the Perl program makes to its array meanwhile.                  *)
(*                                                                         *)
(* A row is an identity: every value written is one never written before,  *)
(* so that a row can be followed.  What SQLite does around the calls of    *)
(* the table (a DELETE or UPDATE first scans, then changes) is part of the *)
(* statement's action.                                                     *)
(***************************************************************************)
EXTENDS SequencesExt, Integers

CONSTANTS
  Rows,        \* the values that may be written
  Falsy,       \* those Perl takes for false: a 0 or '' in a colref table
  Given,       \* rowids an INSERT or UPDATE may ask for
  Cursors,
  MaxRows,     \* bound on the array
  Hole         \* an element that does not exist

ASSUME PerlDataAssumption ==
  /\ Falsy \subseteq Rows /\ Hole \notin Rows
  /\ MaxRows \in Nat /\ Given \subseteq 0..MaxRows-1

VARIABLES
  rows,        \* the Perl array; its index i is rows[i + 1]
  cursor,      \* the SELECTs that are being fetched
  lastRowid,   \* sqlite3_last_insert_rowid
  written,     \* history: values used up
  last         \* history: the last statement, what it was to change or wrote, and
               \* the array before it

dataVars == <<rows, cursor, lastRowid, written, last>>

(* What a WHERE clause asks for, as BEST_INDEX hands it to FILTER: every   *)
(* row, certain values in a column, or a rowid.                            *)
Wanted == [by : {"all"}] \cup [by : {"value"}, of : SUBSET Rows] \cup [by : {"rowid"}, of : Given]

Indices == 0..Len(rows)-1

(* The condition BEST_INDEX writes: a constraint on the rowid compares $i. *)
IsWanted(w, i) ==
  CASE w.by = "all"   -> TRUE
    [] w.by = "value" -> rows[i + 1] \in w.of
    [] w.by = "rowid" -> i = w.of

ROWID(i) == i + 1

Unwritten == Rows \ written

NoCursor == [state |-> "closed", wanted |-> [by |-> "all"], row_ix |-> 0,
             due |-> {}, seen |-> {}, twice |-> FALSE]

NoStatement == [op |-> "none", rows |-> {}, before |-> <<>>]

DataInit ==
  /\ rows = <<>>
  /\ cursor = [c \in Cursors |-> NoCursor]
  /\ lastRowid = 0
  /\ written = {}
  /\ last = NoStatement

-----------------------------------------------------------------------------
(* Scans.                                                                  *)

(* The first wanted row behind row_ix, or the end.                         *)
NEXT(w, row_ix) == Min({i \in Indices : i > row_ix /\ IsWanted(w, i)} \cup {Len(rows)})

(* The engine asks EOF, then ROWID and COLUMN, and hands the row out.      *)
HandOut(cu, i) ==
  IF i \notin Indices
    THEN [cu EXCEPT !.state = "done", !.row_ix = i]
    ELSE [cu EXCEPT !.state = "reading", !.row_ix = i,
                    !.seen = @ \cup {rows[i + 1]},
                    !.twice = @ \/ (rows[i + 1] # Hole /\ rows[i + 1] \in cu.seen)]

Matched(w) == {i \in Indices : IsWanted(w, i)}
RowsAt(I)  == {rows[i + 1] : i \in I} \ {Hole}

(* execute: OPEN, FILTER and the first row.                                *)
Execute(c) ==
  /\ cursor[c].state = "closed"
  /\ \E w \in Wanted :
       cursor' = [cursor EXCEPT ![c] =
         HandOut([NoCursor EXCEPT !.wanted = w, !.due = RowsAt(Matched(w))], NEXT(w, -1))]
  /\ UNCHANGED <<rows, lastRowid, written, last>>

Fetch(c) ==
  /\ cursor[c].state = "reading"
  /\ cursor' = [cursor EXCEPT ![c] = HandOut(@, NEXT(@.wanted, @.row_ix))]
  /\ UNCHANGED <<rows, lastRowid, written, last>>

EndScan(c) ==
  /\ cursor[c].state # "closed"
  /\ cursor' = [cursor EXCEPT ![c] = NoCursor]
  /\ UNCHANGED <<rows, lastRowid, written, last>>

-----------------------------------------------------------------------------
(* Changes.                                                                *)

(* Mutant of Erase: splice instead of delete, so that rows move up.        *)
Erase_Splice(a, I) ==
  LET left == SetToSortSeq({k \in DOMAIN a : k - 1 \notin I}, <)
  IN  [n \in DOMAIN left |-> a[left[n]]]

(* Perl's delete of array elements: it leaves holes, but none at the end.  *)
Erase(a, I) ==
  LET b == [k \in DOMAIN a |-> IF k - 1 \in I THEN Hole ELSE a[k]]
  IN  SubSeq(b, 1, Max({k \in DOMAIN b : b[k] # Hole} \cup {0}))

(* An assignment past the end makes the array longer.                      *)
Assign(a, i, r) ==
  [k \in 1..Max({i + 1, Len(a)}) |->
     IF k = i + 1 THEN r ELSE IF k \in DOMAIN a THEN a[k] ELSE Hole]

(* The array becomes a: what a scan has to return is what stays until it   *)
(* ends.                                                                   *)
Become(a, new) ==
  /\ Len(a) <= MaxRows
  /\ rows' = a
  /\ written' = written \cup new
  /\ cursor' = [c \in Cursors |-> [cursor[c] EXCEPT !.due = @ \cap Range(a)]]

(* DELETE FROM t WHERE w: the rowids are collected first.                  *)
DELETE(w) ==
  /\ Become(Erase(rows, {ROWID(i) : i \in Matched(w)}), {})
  /\ last' = [op |-> "delete", rows |-> RowsAt(Matched(w)), before |-> rows]
  /\ UNCHANGED lastRowid

(* UPDATE of the row at index i, in place or SET rowid = new.              *)
UPDATE(i, new) ==
  LET old == ROWID(i) IN
  \E r \in Unwritten :
    /\ Become(IF new = old THEN Assign(rows, old, r) ELSE Assign(Erase(rows, {old}), new, r),
              {r})
    /\ last' = [op |-> "update", rows |-> {rows[i + 1]}, before |-> rows]
    /\ UNCHANGED lastRowid

(* INSERT that leaves the rowid to the table.                              *)
INSERT ==
  \E r \in Unwritten :
    /\ Become(Append(rows, r), {r})
    /\ lastRowid' = Len(rows)
    /\ last' = [op |-> "insert", rows |-> {r}, before |-> rows]

(* INSERT with a rowid; it dies if there is something there that Perl      *)
(* takes for true.  perl_vt_Update reports no rowid then.                  *)
INSERTAt(new) ==
  /\ ~(new \in Indices /\ rows[new + 1] \notin Falsy \cup {Hole})
  /\ \E r \in Unwritten :
       /\ Become(Assign(rows, new, r), {r})
       /\ lastRowid' = 0
       /\ last' = [op |-> "insert", rows |-> {r}, before |-> rows]

(* The Perl program pushes a row, or stores one in the place of another.   *)
PerlChange ==
  /\ \E r \in Unwritten :
       \/ Become(Append(rows, r), {r})
       \/ \E i \in Indices : Become(Assign(rows, i, r), {r})
  /\ last' = NoStatement
  /\ UNCHANGED lastRowid

Table ==
  \/ \E c \in Cursors : Execute(c) \/ Fetch(c) \/ EndScan(c)
  \/ \E w \in Wanted : DELETE(w)
  \/ \E i \in {j \in Indices : rows[j + 1] # Hole} :
       \E new \in Given \cup {ROWID(i)} : UPDATE(i, new)
  \/ INSERT
  \/ \E new \in Given : INSERTAt(new)
  \/ PerlChange

DataSpec == DataInit /\ [][Table]_dataVars

-----------------------------------------------------------------------------

DataTypeOK ==
  /\ rows \in Seq(Rows \cup {Hole}) /\ Len(rows) <= MaxRows
  /\ cursor \in [Cursors ->
       [state : {"closed", "reading", "done"}, wanted : Wanted, row_ix : 0..MaxRows,
        due : SUBSET Rows, seen : SUBSET (Rows \cup {Hole}), twice : BOOLEAN]]
  /\ lastRowid \in 0..MaxRows
  /\ written \subseteq Rows
  /\ last.op \in {"none", "delete", "update", "insert"}

(* A scan returns each row that is there from its first fetch to its last, *)
(* and returns it once, whatever is inserted, deleted, updated or pushed   *)
(* between two fetches.                                                    *)
ScanReturnsRowsOnce ==
  \A c \in Cursors :
    /\ cursor[c].state = "done" => cursor[c].due \subseteq cursor[c].seen
    /\ ~cursor[c].twice

-----------------------------------------------------------------------------
(* What documentation and tests say, each checked alone.                   *)

(* lib/DBD/SQLite/VirtualTable/PerlData.pm:306, "The data can be read or   *)
(* modified both from SQL and from Perl": a DELETE removes the rows its    *)
(* WHERE clause selects.                                                   *)
DeleteRemovesSelected ==
  last.op = "delete" =>
    Range(rows) \ {Hole} = (Range(last.before) \ {Hole}) \ last.rows

(* lib/DBD/SQLite/VirtualTable.pm:643, DELETE is "deletion of a row from   *)
(* the virtual table": a scan returns no row that is not there.            *)
DeletedRowsAreGone == \A c \in Cursors : Hole \notin cursor[c].seen

(* lib/DBD/SQLite.pm:1911-1913, "This method returns the last inserted     *)
(* rowid ... it is the hidden ROWID column".                               *)
LastRowidNamesRow ==
  last.op = "insert" => RowsAt({i \in Indices : ROWID(i) = lastRowid}) = last.rows

(* PerlData.pm:269, "rowids start at 1 in SQLite": a scan WHERE rowid = n  *)
(* returns the row that has this rowid.                                    *)
RowidSelectsRow ==
  \A c \in Cursors :
    cursor[c].state = "reading" /\ cursor[c].wanted.by = "rowid" =>
      ROWID(cursor[c].row_ix) = cursor[c].wanted.of

(* An INSERT overwrites nothing (PerlData.pm:170, "rowid $new_rowid        *)
(* already in use").                                                       *)
InsertKeepsRows ==
  last.op = "insert" => Range(last.before) \subseteq Range(rows) \cup {Hole}
===============================================================================
