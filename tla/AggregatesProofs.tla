--------------------------- MODULE AggregatesProofs ---------------------------
(***************************************************************************)
(* Proofs about Aggregates, for any number of aggregates, rows and groups  *)
(* and queries nested to any depth.                                        *)
(*                                                                         *)
(* The argument: Running says which method may run in which part of a      *)
(* query, Column what a context and its object have seen in each part,     *)
(* Owned that contexts and living objects correspond one to one.  A step   *)
(* touches one column of the innermost query and the object that column    *)
(* had or gets (TopStep), so that one lemma carries the other columns and  *)
(* queries through all of them.                                            *)
(***************************************************************************)
EXTENDS Aggregates, FiniteSetTheorems, TLAPS

Aggr == [mem : BOOLEAN, inited : BOOLEAN, err : BOOLEAN, aggr_inst : {NULL} \cup Objects]

QueryType ==
  [grouped : BOOLEAN, at : {"row", "step", "final", "abort", "out", "over"},
   col : Cols, method : {NULL, "new", "step", "finalize"},
   rows : 0..MaxGroupRows, groups : 0..MaxGroups, aggr : [Cols -> Aggr],
   mishap : [Cols -> BOOLEAN], result : [Cols -> {NULL} \cup 0..MaxGroupRows]]

ObjType == [refs : {0, 1}, steps : 0..MaxGroupRows, died : BOOLEAN, done : BOOLEAN]

(* Where a query is, and the method that runs there.                       *)
Running(q) ==
  /\ q.at \in {"row", "out", "over"} => q.col = 1 /\ q.method = NULL
  /\ q.at = "step" => q.rows < MaxGroupRows
  /\ q.method = "new" =>
       /\ q.at \in {"step", "final"} /\ ~q.aggr[q.col].inited
       /\ q.at = "step" => q.aggr[q.col].mem
  /\ q.method = "step" =>
       q.at = "step" /\ q.aggr[q.col].mem /\ q.aggr[q.col].inited /\ ~q.aggr[q.col].err
  /\ q.method = "finalize" =>
       q.at \in {"final", "abort"} /\ q.aggr[q.col].inited /\ ~q.aggr[q.col].err

(* A context by itself.                                                    *)
Context(q, c) ==
  /\ q.aggr[c].aggr_inst # NULL => q.aggr[c].inited
  /\ q.aggr[c].inited /\ ~q.aggr[c].err => q.aggr[c].aggr_inst # NULL
  /\ q.aggr[c].err => q.aggr[c].inited
  /\ q.aggr[c].inited
       => q.aggr[c].mem \/ (q.at = "final" /\ c = q.col /\ q.method = "finalize")
  /\ q.aggr[c].mem
       => q.aggr[c].inited \/ (q.at = "step" /\ c = q.col /\ q.method = "new")

(* The contexts that are not in use, or no longer.                         *)
Emptied(q, c) ==
  \/ q.at \in {"out", "over"}
  \/ q.at \in {"final", "abort"} /\ c < q.col
  \/ q.at = "row" /\ q.rows = 0

Gathering(q, c) == q.at \in {"row", "step"} \/ (q.at = "final" /\ c >= q.col)
Answered(q, c)  == q.at = "out" \/ (q.at = "final" /\ c < q.col)

(* Has column c seen the row that the query is in?                         *)
Seen(q, c) == q.at = "step" /\ c < q.col

Column(q, c, b) ==
  /\ Context(q, c)
  /\ q.aggr[c].aggr_inst # NULL =>
       /\ b[q.aggr[c].aggr_inst].died => q.aggr[c].err
       /\ ~b[q.aggr[c].aggr_inst].done
  /\ Emptied(q, c) => ~q.aggr[c].inited /\ ~q.aggr[c].mem
  /\ Gathering(q, c) =>
       /\ q.mishap[c] <=> q.aggr[c].err
       /\ q.result[c] = NULL
       /\ q.aggr[c].inited /\ ~q.aggr[c].err =>
            b[q.aggr[c].aggr_inst].steps = q.rows + (IF Seen(q, c) THEN 1 ELSE 0)
       /\ q.rows > 0 \/ Seen(q, c) => q.aggr[c].inited
  /\ Answered(q, c) =>
       /\ q.mishap[c] <=> q.result[c] = NULL
       /\ ~q.mishap[c] => q.result[c] = q.rows

Inst(d, c) == queries[d].aggr[c].aggr_inst

(* Contexts and living objects correspond one to one.                      *)
Owned ==
  /\ \A o \in Objects : obj[o].refs = 1 => \E d \in 1..Depth, c \in Cols : Inst(d, c) = o
  /\ \A d \in 1..Depth, c \in Cols : Inst(d, c) # NULL => obj[Inst(d, c)].refs = 1
  /\ \A d, e \in 1..Depth, c, k \in Cols :
       Inst(d, c) # NULL /\ Inst(d, c) = Inst(e, k) => d = e /\ c = k

Typed ==
  /\ queries \in Seq(QueryType) /\ Depth <= MaxDepth
  /\ obj \in [Objects -> ObjType]

IInv ==
  /\ Typed /\ Owned
  /\ \A d \in 1..Depth : Running(queries[d])
  /\ \A d \in 1..Depth, c \in Cols : Column(queries[d], c, obj)

LEMMA NullFacts ==
  /\ NULL \notin Objects /\ 1 \in Cols /\ NULL \notin Nat
  /\ NULL \notin {"new", "step", "finalize"}
  /\ \A o \in Objects : o \in Nat
BY AggrAssumption DEF Objects, Cols

LEMMA TopFacts ==
  ASSUME IInv, Depth > 0
  PROVE  /\ Depth \in 1..Depth /\ Depth \in Nat /\ Top = queries[Depth] /\ Top \in QueryType
         /\ Running(Top) /\ \A c \in Cols : Column(Top, c, obj)
         /\ Top.col \in Cols
<1>1. queries \in Seq(QueryType) /\ Depth \in Nat /\ Depth \in 1..Depth
  BY DEF IInv, Typed, Depth
<1>2. Top = queries[Depth] /\ Top \in QueryType
  BY <1>1 DEF Top, Depth
<1>3. \A q \in QueryType : q.col \in Cols
  BY DEF QueryType
<1>4. Running(Top) /\ \A c \in Cols : Column(Top, c, obj)
  BY <1>1, <1>2 DEF IInv
<1>5. QED
  BY <1>1, <1>2, <1>3, <1>4

(* A column looks at no object but the one of its own context.             *)
LEMMA ColumnLocal ==
  ASSUME NEW q, NEW c, NEW b, NEW e, Column(q, c, b),
         q.aggr[c].aggr_inst # NULL => e[q.aggr[c].aggr_inst] = b[q.aggr[c].aggr_inst]
  PROVE  Column(q, c, e)
BY DEF Column, Context

(* A step of the innermost query: old and new are the objects of column k  *)
(* before and after it.                                                    *)
LEMMA TopStep ==
  ASSUME IInv, Depth > 0, NEW q \in QueryType, SetTop(q), obj' \in [Objects -> ObjType],
         Running(q), \A c \in Cols : Column(q, c, obj'),
         NEW k \in Cols,
         \A c \in Cols \ {k} : q.aggr[c].aggr_inst = Top.aggr[c].aggr_inst,
         NEW old, NEW new, old = Top.aggr[k].aggr_inst, new = q.aggr[k].aggr_inst,
         \A p \in Objects \ {old, new} : obj'[p] = obj[p],
         new # NULL => obj'[new].refs = 1 /\ (new = old \/ obj[new].refs = 0),
         old # NULL /\ old # new => obj'[old].refs = 0
  PROVE  IInv'
<1>1. /\ queries \in Seq(QueryType) /\ obj \in [Objects -> ObjType]
      /\ Depth \in 1..Depth /\ Depth \in Nat /\ Depth <= MaxDepth
      /\ Top = queries[Depth] /\ Top \in QueryType
  BY TopFacts DEF IInv, Typed
<1>2. /\ queries' \in Seq(QueryType) /\ Depth' = Depth /\ queries'[Depth] = q
      /\ \A d \in 1..Depth : d # Depth => queries'[d] = queries[d]
  BY <1>1 DEF SetTop, Depth
<1>3. \A d \in 1..Depth : queries[d] \in QueryType
  BY <1>1 DEF Depth
<1>4. /\ old \in {NULL} \cup Objects /\ new \in {NULL} \cup Objects
      /\ \A d \in 1..Depth, c \in Cols : Inst(d, c) \in {NULL} \cup Objects
  <2>1. \A r \in QueryType, c \in Cols : r.aggr[c].aggr_inst \in {NULL} \cup Objects
    BY DEF QueryType, Aggr
  <2>2. QED
    BY <1>1, <1>3, <2>1 DEF Inst
<1>5. \A d \in 1..Depth, c \in Cols :
        Inst(d, c)' = IF d = Depth /\ c = k THEN new ELSE Inst(d, c)
  BY <1>1, <1>2 DEF Inst
<1>6. Inst(Depth, k) = old
  BY <1>1 DEF Inst
<1>7. ASSUME NEW d \in 1..Depth, NEW c \in Cols, d # Depth \/ c # k, Inst(d, c) # NULL
      PROVE  /\ Inst(d, c) \in Objects /\ Inst(d, c) # old /\ Inst(d, c) # new
             /\ obj'[Inst(d, c)] = obj[Inst(d, c)] /\ obj[Inst(d, c)].refs = 1
  <2>1. Inst(d, c) \in Objects /\ obj[Inst(d, c)].refs = 1
    BY <1>4, <1>7 DEF IInv, Owned
  <2>2. Inst(d, c) # old
    <3>1. Inst(d, c) = Inst(Depth, k) => d = Depth /\ c = k
      BY <1>1, <1>7 DEF IInv, Owned
    <3>2. QED
      BY <1>6, <1>7, <3>1
  <2>3. Inst(d, c) # new
    BY <1>7, <2>1, <2>2
  <2>4. QED
    BY <2>1, <2>2, <2>3
<1>8. Owned'
  <2>1. \A o \in Objects : obj'[o].refs = 1 => \E d \in 1..Depth, c \in Cols : Inst(d, c)' = o
    <3> SUFFICES ASSUME NEW o \in Objects, obj'[o].refs = 1
                 PROVE  \E d \in 1..Depth, c \in Cols : Inst(d, c)' = o
      OBVIOUS
    <3>1. CASE o = new
      BY <1>1, <1>5, <3>1
    <3>2. CASE o # new
      <4>1. o # old
        BY <3>2, NullFacts
      <4>2. obj[o].refs = 1
        BY <3>2, <4>1
      <4>3. PICK d \in 1..Depth, c \in Cols : Inst(d, c) = o
        BY <4>2 DEF IInv, Owned
      <4>4. Inst(d, c)' = o
        BY <1>5, <1>6, <4>1, <4>3
      <4>5. QED
        BY <4>4
    <3>3. QED
      BY <3>1, <3>2
  <2>2. \A d \in 1..Depth, c \in Cols : Inst(d, c)' # NULL => obj'[Inst(d, c)'].refs = 1
    BY <1>5, <1>7
  <2>3. \A d, e \in 1..Depth, c, m \in Cols :
          Inst(d, c)' # NULL /\ Inst(d, c)' = Inst(e, m)' => d = e /\ c = m
    <3> SUFFICES ASSUME NEW d \in 1..Depth, NEW e \in 1..Depth, NEW c \in Cols,
                        NEW m \in Cols, Inst(d, c)' # NULL, Inst(d, c)' = Inst(e, m)'
                 PROVE  d = e /\ c = m
      OBVIOUS
    <3>1. CASE (d = Depth /\ c = k) \/ (e = Depth /\ m = k)
      BY <1>5, <1>7, <3>1
    <3>2. CASE ~(d = Depth /\ c = k) /\ ~(e = Depth /\ m = k)
      BY <1>5, <3>2 DEF IInv, Owned
    <3>3. QED
      BY <3>1, <3>2
  <2>4. QED
    BY <1>2, <2>1, <2>2, <2>3 DEF Owned
<1>9. \A d \in 1..Depth' : Running(queries'[d])
  BY <1>2 DEF IInv
<1>10. ASSUME NEW d \in 1..Depth, NEW c \in Cols
       PROVE  Column(queries'[d], c, obj')
  <2>1. CASE d = Depth
    BY <1>2, <2>1
  <2>2. CASE d # Depth
    <3>1. queries'[d] = queries[d] /\ Column(queries[d], c, obj)
      BY <1>2, <2>2 DEF IInv
    <3>2. Inst(d, c) # NULL => obj'[Inst(d, c)] = obj[Inst(d, c)]
      BY <1>7, <2>2
    <3>3. QED
      BY <3>1, <3>2, ColumnLocal DEF Inst
  <2>3. QED
    BY <2>1, <2>2
<1>11. Typed'
  BY <1>1, <1>2 DEF Typed
<1>12. QED
  BY <1>2, <1>8, <1>9, <1>10, <1>11 DEF IInv
-----------------------------------------------------------------------------
(* The turn of a column.                                                   *)

(* What is left of column c of q after its turn.                           *)
TurnOver(q, c, b) ==
  /\ q.aggr[c].aggr_inst # NULL => q.aggr[c].inited
  /\ q.aggr[c].inited /\ ~q.aggr[c].err => q.aggr[c].aggr_inst # NULL
  /\ q.aggr[c].err => q.aggr[c].inited
  /\ q.aggr[c].inited <=> q.aggr[c].mem
  /\ q.aggr[c].aggr_inst # NULL =>
       /\ b[q.aggr[c].aggr_inst].died => q.aggr[c].err
       /\ ~b[q.aggr[c].aggr_inst].done
  /\ q.at = "step" =>
       /\ q.aggr[c].inited
       /\ q.mishap[c] <=> q.aggr[c].err
       /\ q.result[c] = NULL
       /\ ~q.aggr[c].err => b[q.aggr[c].aggr_inst].steps = q.rows + 1
  /\ q.at \in {"final", "abort"} => ~q.aggr[c].inited
  /\ q.at = "final" =>
       /\ q.mishap[c] <=> q.result[c] = NULL
       /\ ~q.mishap[c] => q.result[c] = q.rows

LEMMA NextColFields ==
  ASSUME NEW q \in QueryType, q.at \in {"step", "final", "abort"},
         q.at = "step" => q.rows < MaxGroupRows
  PROVE  /\ NextCol(q) \in QueryType
         /\ NextCol(q).method = NULL
         /\ NextCol(q).aggr = q.aggr
         /\ NextCol(q).mishap = q.mishap
         /\ NextCol(q).result = q.result
         /\ q.col + 1 \in Cols =>
              NextCol(q).at = q.at /\ NextCol(q).col = q.col + 1 /\ NextCol(q).rows = q.rows
         /\ q.col + 1 \notin Cols =>
              /\ NextCol(q).col = 1
              /\ q.at = "step" => NextCol(q).at = "row" /\ NextCol(q).rows = q.rows + 1
              /\ q.at = "final" => NextCol(q).at = "out" /\ NextCol(q).rows = q.rows
              /\ q.at = "abort" => NextCol(q).at = "over" /\ NextCol(q).rows = q.rows
<1>1. CASE q.col + 1 \in Cols
  BY <1>1 DEF NextCol, QueryType
<1>2. CASE q.col + 1 \notin Cols
  <2> DEFINE at == [step |-> "row", final |-> "out", abort |-> "over"][q.at]
             rows == IF q.at = "step" THEN q.rows + 1 ELSE q.rows
             r == [q EXCEPT !.col = 1, !.method = NULL, !.at = at, !.rows = rows]
  <2>1. NextCol(q) = r
    BY <1>2 DEF NextCol
  <2>2. /\ q.at = "step" => at = "row" /\ rows = q.rows + 1
        /\ q.at = "final" => at = "out" /\ rows = q.rows
        /\ q.at = "abort" => at = "over" /\ rows = q.rows
    OBVIOUS
  <2>3. 1 \in Cols /\ MaxGroupRows \in Nat /\ q.rows \in 0..MaxGroupRows
    BY NullFacts, AggrAssumption DEF QueryType
  <2>4. at \in {"row", "out", "over"} /\ rows \in 0..MaxGroupRows
    <3>1. q.at = "step" => q.rows + 1 \in 0..MaxGroupRows
      BY <2>3
    <3>2. QED
      BY <2>2, <2>3, <3>1
  <2> HIDE DEF at, rows
  <2>5. /\ r.grouped = q.grouped /\ r.at = at /\ r.col = 1 /\ r.method = NULL /\ r.rows = rows
        /\ r.groups = q.groups /\ r.aggr = q.aggr /\ r.mishap = q.mishap
        /\ r.result = q.result
    BY DEF QueryType
  <2>6. r \in QueryType
    BY <2>3, <2>4 DEF QueryType
  <2> HIDE DEF r
  <2>7. QED
    BY <1>2, <2>1, <2>2, <2>5, <2>6
<1>3. QED
  BY <1>1, <1>2

LEMMA NextColumn ==
  ASSUME NEW q \in QueryType, q.at \in {"step", "final", "abort"},
         q.at = "step" => q.rows < MaxGroupRows,
         NEW b \in [Objects -> ObjType],
         \A c \in Cols \ {q.col} : Column(q, c, b), TurnOver(q, q.col, b)
  PROVE  Running(NextCol(q)) /\ \A c \in Cols : Column(NextCol(q), c, b)
<1> DEFINE r == NextCol(q)
<1>1. /\ r \in QueryType /\ r.method = NULL
      /\ r.aggr = q.aggr /\ r.mishap = q.mishap /\ r.result = q.result
      /\ q.col + 1 \in Cols => r.at = q.at /\ r.col = q.col + 1 /\ r.rows = q.rows
      /\ q.col + 1 \notin Cols =>
           /\ r.col = 1
           /\ q.at = "step" => r.at = "row" /\ r.rows = q.rows + 1
           /\ q.at = "final" => r.at = "out" /\ r.rows = q.rows
           /\ q.at = "abort" => r.at = "over" /\ r.rows = q.rows
  BY NextColFields
<1>2. q.col \in Cols /\ q.rows \in Nat /\ q.rows \in 0..MaxGroupRows /\ MaxGroupRows \in Nat
  BY AggrAssumption DEF QueryType
<1>3. \A c \in Cols : c \in Nat /\ c <= NumCols
  BY AggrAssumption DEF Cols
<1>4. q.col + 1 \notin Cols => \A c \in Cols \ {q.col} : c < q.col
  BY <1>2, <1>3, AggrAssumption DEF Cols
<1> HIDE DEF r
<1>5. Running(r)
  <2>1. NULL \notin {"new", "step", "finalize"}
    BY NullFacts
  <2>2. QED
    BY <1>1, <1>2, <2>1 DEF Running
<1>6. ASSUME NEW c \in Cols
      PROVE  Column(r, c, b)
  <2>1. NULL # "new" /\ NULL # "finalize"
    BY NullFacts
  <2>2. CASE c = q.col
    <3>1. Context(r, c)
      BY <1>1, <2>2 DEF Context, TurnOver
    <3>2. CASE q.at = "step"
      <4>1. r.at \in {"step", "row"} /\ ~Emptied(r, c) /\ ~Answered(r, c)
        BY <1>1, <1>2, <3>2 DEF Emptied, Answered
      <4>2. r.rows + (IF Seen(r, c) THEN 1 ELSE 0) = q.rows + 1
        BY <1>1, <1>2, <1>3, <2>2, <3>2 DEF Seen
      <4>3. QED
        BY <1>1, <2>2, <3>1, <3>2, <4>1, <4>2 DEF Column, TurnOver
    <3>3. CASE q.at = "final"
      <4>1. ~Gathering(r, c)
        BY <1>1, <1>2, <1>3, <2>2, <3>3 DEF Gathering
      <4>2. r.rows = q.rows
        BY <1>1, <3>3
      <4>3. QED
        BY <1>1, <2>2, <3>1, <3>3, <4>1, <4>2 DEF Column, TurnOver
    <3>4. CASE q.at = "abort"
      <4>1. ~Gathering(r, c) /\ ~Answered(r, c)
        BY <1>1, <1>2, <2>2, <3>4 DEF Gathering, Answered
      <4>2. QED
        BY <1>1, <2>2, <3>1, <3>4, <4>1 DEF Column, TurnOver
    <3>5. QED
      BY <3>2, <3>3, <3>4
  <2>3. CASE c # q.col
    <3>1. Column(q, c, b)
      BY <2>3
    <3>2. Context(r, c)
      BY <1>1, <2>3, <3>1 DEF Context, Column
    <3>3. CASE q.at = "step"
      BY <1>1, <1>2, <1>3, <1>4, <2>3, <3>1, <3>2, <3>3
      DEF Column, Emptied, Gathering, Answered, Seen
    <3>4. CASE q.at = "final"
      BY <1>1, <1>2, <1>3, <1>4, <2>3, <3>1, <3>2, <3>4
      DEF Column, Emptied, Gathering, Answered, Seen
    <3>5. CASE q.at = "abort"
      BY <1>1, <1>2, <1>3, <1>4, <2>3, <3>1, <3>2, <3>5
      DEF Column, Emptied, Gathering, Answered, Seen
    <3>6. QED
      BY <3>3, <3>4, <3>5
  <2>4. QED
    BY <2>2, <2>3
<1>7. QED
  BY <1>5, <1>6 DEF r

-----------------------------------------------------------------------------
(* Steps of the column whose turn it is.                                   *)

(* r differs from q in the current column and in the method that runs.     *)
SameButTurn(q, r) ==
  /\ r \in QueryType
  /\ r.at = q.at /\ r.col = q.col /\ r.rows = q.rows
  /\ \A c \in Cols \ {q.col} :
       r.aggr[c] = q.aggr[c] /\ (r.mishap[c] <=> q.mishap[c]) /\ r.result[c] = q.result[c]

(* What the step does to objects: old and new are those of the current     *)
(* column.                                                                 *)
ObjectStep(old, new) ==
  /\ obj' \in [Objects -> ObjType]
  /\ \A p \in Objects \ {old, new} : obj'[p] = obj[p]
  /\ new # NULL => obj'[new].refs = 1 /\ (new = old \/ obj[new].refs = 0)
  /\ old # NULL /\ old # new => obj'[old].refs = 0

(* The other columns of the query do not notice.                           *)
LEMMA OthersCarry ==
  ASSUME IInv, Depth > 0, NEW q, SameButTurn(Top, q), NEW old, NEW new,
         old = Top.aggr[Top.col].aggr_inst, ObjectStep(old, new),
         NEW c \in Cols, c # Top.col
  PROVE  Column(q, c, obj')
<1>1. /\ Depth \in 1..Depth /\ Top = queries[Depth] /\ Top \in QueryType
      /\ Column(Top, c, obj) /\ Top.col \in Cols
  BY TopFacts
<1>2. \A e \in Cols : Inst(Depth, e) = Top.aggr[e].aggr_inst
  BY <1>1 DEF Inst
<1>3. \A e \in Cols : Top.aggr[e].aggr_inst \in {NULL} \cup Objects
  BY <1>1 DEF QueryType, Aggr
<1>4. Top.aggr[c].aggr_inst # NULL => obj'[Top.aggr[c].aggr_inst] = obj[Top.aggr[c].aggr_inst]
  <2> SUFFICES ASSUME Top.aggr[c].aggr_inst # NULL
               PROVE  obj'[Top.aggr[c].aggr_inst] = obj[Top.aggr[c].aggr_inst]
    OBVIOUS
  <2>1. obj[Inst(Depth, c)].refs = 1
    BY <1>1, <1>2 DEF IInv, Owned
  <2>2. Inst(Depth, c) # old
    <3>1. Inst(Depth, c) = Inst(Depth, Top.col) => c = Top.col
      BY <1>1, <1>2 DEF IInv, Owned
    <3>2. QED
      BY <1>1, <1>2, <3>1
  <2>3. Inst(Depth, c) # new
    BY <1>2, <2>1, <2>2 DEF ObjectStep
  <2>4. QED
    BY <1>2, <1>3, <2>2, <2>3 DEF ObjectStep
<1>5. /\ q.aggr[c] = Top.aggr[c] /\ (q.mishap[c] <=> Top.mishap[c])
      /\ q.result[c] = Top.result[c]
      /\ q.at = Top.at /\ q.col = Top.col /\ q.rows = Top.rows
  BY DEF SameButTurn
<1>6. Context(q, c)
  BY <1>1, <1>5 DEF Column, Context
<1>7. /\ Emptied(q, c) <=> Emptied(Top, c)
      /\ Gathering(q, c) <=> Gathering(Top, c)
      /\ Answered(q, c) <=> Answered(Top, c)
      /\ Seen(q, c) <=> Seen(Top, c)
  BY <1>5 DEF Emptied, Gathering, Answered, Seen
<1>8. q.aggr[c].aggr_inst # NULL =>
        /\ obj'[q.aggr[c].aggr_inst].died => q.aggr[c].err
        /\ ~obj'[q.aggr[c].aggr_inst].done
  BY <1>1, <1>4, <1>5 DEF Column
<1>9. Emptied(q, c) => ~q.aggr[c].inited /\ ~q.aggr[c].mem
  BY <1>1, <1>5, <1>7 DEF Column
<1>10. Gathering(q, c) =>
         /\ q.mishap[c] <=> q.aggr[c].err
         /\ q.result[c] = NULL
         /\ q.aggr[c].inited /\ ~q.aggr[c].err =>
              obj'[q.aggr[c].aggr_inst].steps = q.rows + (IF Seen(q, c) THEN 1 ELSE 0)
         /\ q.rows > 0 \/ Seen(q, c) => q.aggr[c].inited
  <2>1. q.aggr[c].inited /\ ~q.aggr[c].err => q.aggr[c].aggr_inst # NULL
    BY <1>6 DEF Context
  <2>2. (IF Seen(q, c) THEN 1 ELSE 0) = (IF Seen(Top, c) THEN 1 ELSE 0)
    BY <1>7
  <2>3. QED
    BY <1>1, <1>4, <1>5, <1>7, <2>1, <2>2 DEF Column
<1>11. Answered(q, c) =>
         /\ q.mishap[c] <=> q.result[c] = NULL
         /\ ~q.mishap[c] => q.result[c] = q.rows
  BY <1>1, <1>5, <1>7 DEF Column
<1>12. QED
  BY <1>6, <1>8, <1>9, <1>10, <1>11 DEF Column

(* A method is called.                                                     *)
LEMMA CallStep ==
  ASSUME IInv, Depth > 0, NEW q, SameButTurn(Top, q), SetTop(q), Running(q),
         NEW old, NEW new, old = Top.aggr[Top.col].aggr_inst,
         new = q.aggr[Top.col].aggr_inst, ObjectStep(old, new),
         Column(q, Top.col, obj')
  PROVE  IInv'
<1>1. Top.col \in Cols
  BY TopFacts
<1>2. \A c \in Cols : Column(q, c, obj')
  BY OthersCarry
<1>3. q \in QueryType /\ \A c \in Cols \ {Top.col} :
        q.aggr[c].aggr_inst = Top.aggr[c].aggr_inst
  BY DEF SameButTurn
<1>4. QED
  BY <1>1, <1>2, <1>3, TopStep DEF ObjectStep

(* A column has had its turn.                                              *)
LEMMA TurnStep ==
  ASSUME IInv, Depth > 0, NEW q, SameButTurn(Top, q), SetTop(NextCol(q)),
         Top.at \in {"step", "final", "abort"},
         NEW old, NEW new, old = Top.aggr[Top.col].aggr_inst,
         new = q.aggr[Top.col].aggr_inst, ObjectStep(old, new),
         TurnOver(q, Top.col, obj')
  PROVE  IInv'
<1>1. Top.col \in Cols /\ Running(Top)
  BY TopFacts
<1>2. /\ q \in QueryType /\ q.at = Top.at /\ q.col = Top.col /\ q.rows = Top.rows
      /\ \A c \in Cols \ {Top.col} : q.aggr[c].aggr_inst = Top.aggr[c].aggr_inst
  BY DEF SameButTurn
<1>3. \A c \in Cols \ {q.col} : Column(q, c, obj')
  BY <1>2, OthersCarry
<1>4. q.at \in {"step", "final", "abort"} /\ (q.at = "step" => q.rows < MaxGroupRows)
  BY <1>1, <1>2 DEF Running
<1>5. NextCol(q) \in QueryType /\ NextCol(q).aggr = q.aggr
  BY <1>2, <1>4, NextColFields
<1>6. obj' \in [Objects -> ObjType] /\ TurnOver(q, q.col, obj')
  BY <1>2 DEF ObjectStep
<1>7. Running(NextCol(q)) /\ \A c \in Cols : Column(NextCol(q), c, obj')
  BY <1>2, <1>3, <1>4, <1>6, NextColumn
<1>8. \A c \in Cols \ {Top.col} : NextCol(q).aggr[c].aggr_inst = Top.aggr[c].aggr_inst
  BY <1>2, <1>5
<1>9. new = NextCol(q).aggr[Top.col].aggr_inst
  BY <1>5
<1> DEFINE r == NextCol(q)
<1> HIDE DEF r
<1>10. /\ r \in QueryType /\ SetTop(r) /\ Running(r) /\ \A c \in Cols : Column(r, c, obj')
       /\ new = r.aggr[Top.col].aggr_inst
       /\ \A c \in Cols \ {Top.col} : r.aggr[c].aggr_inst = Top.aggr[c].aggr_inst
  BY <1>5, <1>7, <1>8, <1>9 DEF r
<1>11. QED
  BY <1>1, <1>10, TopStep DEF ObjectStep

-----------------------------------------------------------------------------
(* What the dispatchers write.                                             *)

Called(q, m)  == [q EXCEPT !.method = m]
Emptying(q)   == [q EXCEPT !.aggr[q.col] = NoAggr]
Answer(q, n)  == [q EXCEPT !.result[q.col] = n]

LEMMA RecordFacts ==
  /\ NoAggr \in Aggr /\ NewObj \in ObjType
  /\ NoObj \in ObjType /\ NoObj.refs = 0
  /\ \A q \in QueryType : q.col \in Cols /\ q.aggr[q.col] \in Aggr
<1>1. NewObj \in ObjType
  <2>1. 0 \in 0..MaxGroupRows
    BY AggrAssumption
  <2>2. QED
    BY <2>1 DEF NewObj, ObjType
<1>2. \A o \in ObjType : [o EXCEPT !.refs = 0] \in ObjType /\ [o EXCEPT !.refs = 0].refs = 0
  BY DEF ObjType
<1>3. NoObj \in ObjType /\ NoObj.refs = 0
  BY <1>1, <1>2 DEF NoObj
<1>4. QED
  BY <1>1, <1>3 DEF NoAggr, Aggr, QueryType

WithAggr(q, k, a) == [q EXCEPT !.aggr[k] = a]

LEMMA WithAggrFields ==
  ASSUME NEW q \in QueryType, NEW a \in Aggr
  PROVE  /\ SameButTurn(q, WithAggr(q, q.col, a))
         /\ WithAggr(q, q.col, a).method = q.method
         /\ WithAggr(q, q.col, a).aggr[q.col] = a
         /\ WithAggr(q, q.col, a).mishap = q.mishap /\ WithAggr(q, q.col, a).result = q.result
<1>1. q.col \in Cols /\ q.aggr \in [Cols -> Aggr]
  BY DEF QueryType
<1> DEFINE aggr == [q.aggr EXCEPT ![q.col] = a]
<1>2. WithAggr(q, q.col, a) = [q EXCEPT !.aggr = aggr]
  BY DEF WithAggr
<1>3. /\ aggr \in [Cols -> Aggr] /\ aggr[q.col] = a
      /\ \A c \in Cols \ {q.col} : aggr[c] = q.aggr[c]
  BY <1>1
<1> HIDE DEF aggr
<1>4. /\ WithAggr(q, q.col, a) \in QueryType /\ WithAggr(q, q.col, a).aggr = aggr
      /\ WithAggr(q, q.col, a).method = q.method
      /\ WithAggr(q, q.col, a).at = q.at /\ WithAggr(q, q.col, a).col = q.col
      /\ WithAggr(q, q.col, a).rows = q.rows
      /\ WithAggr(q, q.col, a).mishap = q.mishap /\ WithAggr(q, q.col, a).result = q.result
  BY <1>2, <1>3 DEF QueryType
<1>5. QED
  BY <1>3, <1>4 DEF SameButTurn

LEMMA CalledFields ==
  ASSUME NEW q \in QueryType, NEW m \in {"new", "step", "finalize"}
  PROVE  /\ SameButTurn(q, Called(q, m))
         /\ Called(q, m).method = m
         /\ Called(q, m).aggr = q.aggr
         /\ Called(q, m).mishap = q.mishap /\ Called(q, m).result = q.result
BY DEF QueryType, Called, SameButTurn

LEMMA AnswerFields ==
  ASSUME NEW q \in QueryType, NEW n \in {NULL} \cup 0..MaxGroupRows
  PROVE  /\ SameButTurn(q, Answer(q, n))
         /\ Answer(q, n).method = q.method /\ Answer(q, n).aggr = q.aggr
         /\ Answer(q, n).mishap = q.mishap /\ Answer(q, n).result[q.col] = n
<1>1. q.col \in Cols /\ q.result \in [Cols -> {NULL} \cup 0..MaxGroupRows]
  BY DEF QueryType
<1> DEFINE result == [q.result EXCEPT ![q.col] = n]
<1>2. Answer(q, n) = [q EXCEPT !.result = result]
  BY DEF Answer
<1>3. /\ result \in [Cols -> {NULL} \cup 0..MaxGroupRows] /\ result[q.col] = n
      /\ \A c \in Cols \ {q.col} : result[c] = q.result[c]
  BY <1>1
<1> HIDE DEF result
<1>4. /\ Answer(q, n) \in QueryType /\ Answer(q, n).aggr = q.aggr
      /\ Answer(q, n).method = q.method /\ Answer(q, n).mishap = q.mishap
      /\ Answer(q, n).at = q.at /\ Answer(q, n).col = q.col /\ Answer(q, n).rows = q.rows
      /\ Answer(q, n).result = result
  BY <1>2, <1>3 DEF QueryType
<1>5. QED
  BY <1>3, <1>4 DEF SameButTurn

WithMishap(q, k) == [q EXCEPT !.mishap[k] = TRUE]

LEMMA WithMishapFields ==
  ASSUME NEW q \in QueryType
  PROVE  /\ SameButTurn(q, WithMishap(q, q.col))
         /\ WithMishap(q, q.col).method = q.method /\ WithMishap(q, q.col).aggr = q.aggr
         /\ WithMishap(q, q.col).result = q.result /\ WithMishap(q, q.col).mishap[q.col]
<1>1. q.col \in Cols /\ q.mishap \in [Cols -> BOOLEAN]
  BY DEF QueryType
<1> DEFINE mishap == [q.mishap EXCEPT ![q.col] = TRUE]
<1>2. WithMishap(q, q.col) = [q EXCEPT !.mishap = mishap]
  BY DEF WithMishap
<1>3. /\ mishap \in [Cols -> BOOLEAN] /\ mishap[q.col]
      /\ \A c \in Cols \ {q.col} : mishap[c] <=> q.mishap[c]
  BY <1>1
<1> HIDE DEF mishap
<1>4. /\ WithMishap(q, q.col) \in QueryType /\ WithMishap(q, q.col).aggr = q.aggr
      /\ WithMishap(q, q.col).method = q.method /\ WithMishap(q, q.col).mishap = mishap
      /\ WithMishap(q, q.col).at = q.at /\ WithMishap(q, q.col).col = q.col
      /\ WithMishap(q, q.col).rows = q.rows /\ WithMishap(q, q.col).result = q.result
  BY <1>2, <1>3 DEF QueryType
<1>5. QED
  BY <1>3, <1>4 DEF SameButTurn

(* The fields of a context, one at a time.                                 *)
PutMem(q, k)      == [q EXCEPT !.aggr[k].mem = TRUE]
PutInited(q, k)   == [q EXCEPT !.aggr[k].inited = TRUE]
PutErr(q, k)      == [q EXCEPT !.aggr[k].err = TRUE]
ClearErr(q, k)    == [q EXCEPT !.aggr[k].err = FALSE]
PutInst(q, k, o)  == [q EXCEPT !.aggr[k].aggr_inst = o]

(* r is q but for the context of the current column.                       *)
SameButContext(q, r) ==
  /\ SameButTurn(q, r)
  /\ r.method = q.method /\ r.mishap = q.mishap /\ r.result = q.result

LEMMA PutFields ==
  ASSUME NEW q \in QueryType, NEW k, k = q.col
  PROVE  /\ SameButContext(q, PutMem(q, k)) /\ SameButContext(q, PutInited(q, k))
         /\ SameButContext(q, PutErr(q, k)) /\ SameButContext(q, ClearErr(q, k))
         /\ PutMem(q, k).aggr[k] = [q.aggr[k] EXCEPT !.mem = TRUE]
         /\ PutInited(q, k).aggr[k] = [q.aggr[k] EXCEPT !.inited = TRUE]
         /\ PutErr(q, k).aggr[k] = [q.aggr[k] EXCEPT !.err = TRUE]
         /\ ClearErr(q, k).aggr[k] = [q.aggr[k] EXCEPT !.err = FALSE]
<1>1. q.aggr[k] \in Aggr
  BY RecordFacts
<1> DEFINE a == [q.aggr[k] EXCEPT !.mem = TRUE]
           b == [q.aggr[k] EXCEPT !.inited = TRUE]
           c == [q.aggr[k] EXCEPT !.err = TRUE]
           d == [q.aggr[k] EXCEPT !.err = FALSE]
<1>2. a \in Aggr /\ b \in Aggr /\ c \in Aggr /\ d \in Aggr
  BY <1>1 DEF Aggr
<1>3. /\ PutMem(q, k) = WithAggr(q, k, a) /\ PutInited(q, k) = WithAggr(q, k, b)
      /\ PutErr(q, k) = WithAggr(q, k, c) /\ ClearErr(q, k) = WithAggr(q, k, d)
  BY DEF WithAggr, PutMem, PutInited, PutErr, ClearErr
<1> HIDE DEF a, b, c, d
<1>4. \A x \in Aggr : SameButContext(q, WithAggr(q, k, x)) /\ WithAggr(q, k, x).aggr[k] = x
  BY WithAggrFields DEF SameButContext
<1>5. /\ SameButContext(q, PutMem(q, k)) /\ PutMem(q, k).aggr[k] = a
      /\ SameButContext(q, PutInited(q, k)) /\ PutInited(q, k).aggr[k] = b
      /\ SameButContext(q, PutErr(q, k)) /\ PutErr(q, k).aggr[k] = c
      /\ SameButContext(q, ClearErr(q, k)) /\ ClearErr(q, k).aggr[k] = d
  BY <1>2, <1>3, <1>4
<1>6. QED
  BY <1>5 DEF a, b, c, d

LEMMA ContextFields ==
  ASSUME NEW x \in Aggr
  PROVE  /\ [x EXCEPT !.mem = TRUE] \in Aggr /\ [x EXCEPT !.mem = TRUE].mem
         /\ [x EXCEPT !.mem = TRUE].inited <=> x.inited
         /\ [x EXCEPT !.mem = TRUE].err <=> x.err
         /\ [x EXCEPT !.mem = TRUE].aggr_inst = x.aggr_inst
         /\ [x EXCEPT !.inited = TRUE] \in Aggr /\ [x EXCEPT !.inited = TRUE].inited
         /\ [x EXCEPT !.inited = TRUE].mem <=> x.mem
         /\ [x EXCEPT !.inited = TRUE].err <=> x.err
         /\ [x EXCEPT !.inited = TRUE].aggr_inst = x.aggr_inst
         /\ [x EXCEPT !.err = TRUE] \in Aggr /\ [x EXCEPT !.err = TRUE].err
         /\ [x EXCEPT !.err = TRUE].mem <=> x.mem
         /\ [x EXCEPT !.err = TRUE].inited <=> x.inited
         /\ [x EXCEPT !.err = TRUE].aggr_inst = x.aggr_inst
         /\ [x EXCEPT !.err = FALSE] \in Aggr /\ ~[x EXCEPT !.err = FALSE].err
         /\ [x EXCEPT !.err = FALSE].mem <=> x.mem
         /\ [x EXCEPT !.err = FALSE].inited <=> x.inited
         /\ [x EXCEPT !.err = FALSE].aggr_inst = x.aggr_inst
BY DEF Aggr

LEMMA CreatedFields ==
  ASSUME NEW q \in QueryType, NEW o \in Objects
  PROVE  /\ SameButContext(q, Created(q, o))
         /\ Created(q, o).aggr[q.col].inited /\ ~Created(q, o).aggr[q.col].err
         /\ Created(q, o).aggr[q.col].aggr_inst = o
         /\ Created(q, o).aggr[q.col].mem <=> q.aggr[q.col].mem
<1> DEFINE k == q.col
           q1 == ClearErr(q, k)
           q2 == PutInst(q1, k, o)
           q3 == PutInited(q2, k)
<1>1. Created(q, o) = q3
  BY DEF Created, ClearErr, PutInst, PutInited
<1>2. SameButContext(q, q1) /\ q1.aggr[k] = [q.aggr[k] EXCEPT !.err = FALSE]
  BY PutFields
<1>3. q1 \in QueryType /\ q1.col = k
  BY <1>2 DEF SameButContext, SameButTurn
<1> HIDE DEF q1
<1>4. /\ SameButContext(q1, q2) /\ q2.aggr[k].aggr_inst = o
      /\ q2.aggr[k].mem <=> q1.aggr[k].mem
      /\ q2.aggr[k].inited <=> q1.aggr[k].inited
      /\ q2.aggr[k].err <=> q1.aggr[k].err
  <2> DEFINE e == [q1.aggr[k] EXCEPT !.aggr_inst = o]
  <2>1. q2 = WithAggr(q1, k, e)
    BY DEF WithAggr, PutInst
  <2>2. q1.aggr[k] \in Aggr
    BY <1>3, RecordFacts
  <2>3. /\ e \in Aggr /\ e.aggr_inst = o /\ (e.mem <=> q1.aggr[k].mem)
        /\ (e.inited <=> q1.aggr[k].inited) /\ (e.err <=> q1.aggr[k].err)
    BY <2>2 DEF Aggr
  <2> HIDE DEF e, q2
  <2>4. SameButContext(q1, q2) /\ q2.aggr[k] = e
    BY <1>3, <2>1, <2>3, WithAggrFields DEF SameButContext
  <2>5. QED
    BY <2>3, <2>4
<1>5. q2 \in QueryType /\ q2.col = k
  BY <1>3, <1>4 DEF SameButContext, SameButTurn
<1> HIDE DEF q2
<1>6. SameButContext(q2, q3) /\ q3.aggr[k] = [q2.aggr[k] EXCEPT !.inited = TRUE]
  BY <1>5, PutFields
<1>7. q3 \in QueryType
  BY <1>6 DEF SameButContext, SameButTurn
<1> HIDE DEF q3
<1>8. /\ q.aggr[k] \in Aggr /\ q1.aggr[k] \in Aggr /\ q2.aggr[k] \in Aggr
  BY <1>3, <1>5, RecordFacts
<1>9. SameButContext(q, q3)
  BY <1>2, <1>4, <1>6 DEF SameButContext, SameButTurn
<1>10. ~q1.aggr[k].err /\ (q1.aggr[k].mem <=> q.aggr[k].mem)
  BY <1>2, <1>8, ContextFields
<1>11. /\ ~q2.aggr[k].err /\ (q2.aggr[k].mem <=> q.aggr[k].mem)
       /\ q2.aggr[k].aggr_inst = o
  BY <1>4, <1>10
<1>12. /\ ~q3.aggr[k].err /\ (q3.aggr[k].mem <=> q.aggr[k].mem)
       /\ q3.aggr[k].aggr_inst = o /\ q3.aggr[k].inited
  BY <1>6, <1>8, <1>11, ContextFields
<1>13. QED
  BY <1>1, <1>9, <1>12

LEMMA DiedFields ==
  ASSUME NEW q \in QueryType
  PROVE  /\ SameButTurn(q, Died(q))
         /\ Died(q).method = q.method /\ Died(q).result = q.result
         /\ Died(q).aggr[q.col].inited /\ Died(q).aggr[q.col].err
         /\ Died(q).aggr[q.col].aggr_inst = q.aggr[q.col].aggr_inst
         /\ Died(q).aggr[q.col].mem <=> q.aggr[q.col].mem
         /\ Died(q).mishap[q.col]
<1> DEFINE k == q.col
           q1 == PutInited(q, k)
           q2 == PutErr(q1, k)
           q3 == WithMishap(q2, k)
<1>1. Died(q) = q3
  BY DEF Died, PutInited, PutErr, WithMishap
<1>2. SameButContext(q, q1) /\ q1.aggr[k] = [q.aggr[k] EXCEPT !.inited = TRUE]
  BY PutFields
<1>3. q1 \in QueryType /\ q1.col = k
  BY <1>2 DEF SameButContext, SameButTurn
<1> HIDE DEF q1
<1>4. SameButContext(q1, q2) /\ q2.aggr[k] = [q1.aggr[k] EXCEPT !.err = TRUE]
  BY <1>3, PutFields
<1>5. q2 \in QueryType /\ q2.col = k
  BY <1>3, <1>4 DEF SameButContext, SameButTurn
<1> HIDE DEF q2
<1>6. /\ SameButTurn(q2, q3) /\ q3.aggr = q2.aggr /\ q3.method = q2.method
      /\ q3.result = q2.result /\ q3.mishap[k]
  BY <1>5, WithMishapFields
<1> HIDE DEF q3
<1>7. q.aggr[k] \in Aggr /\ q1.aggr[k] \in Aggr
  BY <1>3, RecordFacts
<1>8. SameButTurn(q, q3) /\ q3.method = q.method /\ q3.result = q.result
  BY <1>2, <1>4, <1>6 DEF SameButContext, SameButTurn
<1>9. /\ q1.aggr[k].inited /\ (q1.aggr[k].mem <=> q.aggr[k].mem)
      /\ q1.aggr[k].aggr_inst = q.aggr[k].aggr_inst
  BY <1>2, <1>7, ContextFields
<1>10. /\ q2.aggr[k].inited /\ q2.aggr[k].err /\ (q2.aggr[k].mem <=> q.aggr[k].mem)
       /\ q2.aggr[k].aggr_inst = q.aggr[k].aggr_inst
  BY <1>4, <1>7, <1>9, ContextFields
<1>11. QED
  BY <1>1, <1>6, <1>8, <1>10

-----------------------------------------------------------------------------
(* Steps of the engine.                                                    *)

LEMMA ObjectFacts ==
  ASSUME IInv, Depth > 0
  PROVE  /\ obj \in [Objects -> ObjType]
         /\ \A c \in Cols : Top.aggr[c].aggr_inst \in {NULL} \cup Objects
         /\ \A c \in Cols : Top.aggr[c].aggr_inst # NULL => obj[Top.aggr[c].aggr_inst].refs = 1
<1>1. Depth \in 1..Depth /\ Top = queries[Depth] /\ Top \in QueryType
  BY TopFacts
<1>2. \A c \in Cols : Top.aggr[c].aggr_inst \in {NULL} \cup Objects
  BY <1>1 DEF QueryType, Aggr
<1>3. QED
  BY <1>1, <1>2 DEF IInv, Typed, Owned, Inst

(* A step that calls nothing.                                              *)
LEMMA QuietStep ==
  ASSUME IInv, Depth > 0, NEW q \in QueryType, SetTop(q), Running(q), UNCHANGED obj,
         \A c \in Cols : Column(q, c, obj) /\ q.aggr[c].aggr_inst = Top.aggr[c].aggr_inst
  PROVE  IInv'
<1> DEFINE old == Top.aggr[1].aggr_inst
           new == q.aggr[1].aggr_inst
<1>1. 1 \in Cols /\ old = new
  BY NullFacts
<1>2. obj' \in [Objects -> ObjType] /\ obj' = obj
  BY ObjectFacts
<1>3. new # NULL => obj'[new].refs = 1
  BY <1>1, <1>2, ObjectFacts
<1>4. \A c \in Cols : Column(q, c, obj')
  BY <1>2
<1> HIDE DEF old, new
<1>5. old = Top.aggr[1].aggr_inst /\ new = q.aggr[1].aggr_inst
  BY DEF old, new
<1>6. QED
  BY <1>1, <1>2, <1>3, <1>4, <1>5, TopStep

LEMMA RowStep == IInv /\ Row => IInv'
<1> SUFFICES ASSUME IInv, Row
             PROVE  IInv'
  OBVIOUS
<1>1. /\ Top \in QueryType /\ Running(Top) /\ \A c \in Cols : Column(Top, c, obj)
      /\ Depth > 0 /\ Top.at = "row" /\ Top.method = NULL /\ Top.rows < MaxGroupRows /\ Top.col = 1
  BY TopFacts DEF Row, Returned, Running
<1> DEFINE q == [Top EXCEPT !.at = "step"]
<1>2. /\ q \in QueryType /\ q.at = "step" /\ q.method = NULL /\ q.col = 1
      /\ q.rows = Top.rows /\ q.aggr = Top.aggr /\ q.mishap = Top.mishap
      /\ q.result = Top.result
  BY <1>1 DEF QueryType
<1>3. SetTop(q) /\ UNCHANGED obj
  BY DEF Row
<1> HIDE DEF q
<1>4. Running(q)
  BY <1>1, <1>2, NullFacts DEF Running
<1>5. ASSUME NEW c \in Cols
      PROVE  Column(q, c, obj)
  <2>1. c \in Nat /\ ~(c < 1)
    BY AggrAssumption DEF Cols
  <2>2. Context(q, c)
    BY <1>1, <1>2, NullFacts DEF Column, Context
  <2>3. ~Emptied(q, c) /\ ~Answered(q, c) /\ ~Seen(q, c) /\ ~Seen(Top, c) /\ Gathering(Top, c)
    BY <1>1, <1>2, <2>1 DEF Emptied, Answered, Seen, Gathering
  <2>4. QED
    BY <1>1, <1>2, <2>2, <2>3 DEF Column
<1>6. QED
  BY <1>1, <1>2, <1>3, <1>4, <1>5, QuietStep

LEMMA GroupEndsStep == IInv /\ GroupEnds => IInv'
<1> SUFFICES ASSUME IInv, GroupEnds
             PROVE  IInv'
  OBVIOUS
<1>1. /\ Top \in QueryType /\ Running(Top) /\ \A c \in Cols : Column(Top, c, obj)
      /\ Depth > 0 /\ Top.at = "row" /\ Top.method = NULL /\ Top.col = 1
      /\ Top.groups < MaxGroups
  BY TopFacts DEF GroupEnds, Returned, Running
<1> DEFINE g == Top.groups + 1
           q == [Top EXCEPT !.at = "final", !.groups = g]
<1>2. g \in 0..MaxGroups
  BY <1>1, AggrAssumption DEF QueryType
<1>3. SetTop(q) /\ UNCHANGED obj
  BY DEF GroupEnds
<1> HIDE DEF g
<1>4. /\ q \in QueryType /\ q.at = "final" /\ q.method = NULL /\ q.col = 1
      /\ q.rows = Top.rows /\ q.aggr = Top.aggr /\ q.mishap = Top.mishap
      /\ q.result = Top.result
  BY <1>1, <1>2 DEF QueryType
<1> HIDE DEF q
<1>5. Running(q)
  BY <1>4, NullFacts DEF Running
<1>6. ASSUME NEW c \in Cols
      PROVE  Column(q, c, obj)
  <2>1. c \in Nat /\ ~(c < 1)
    BY AggrAssumption DEF Cols
  <2>2. Context(q, c)
    BY <1>1, <1>4, NullFacts DEF Column, Context
  <2>3. ~Emptied(q, c) /\ ~Answered(q, c) /\ ~Seen(q, c) /\ ~Seen(Top, c) /\ Gathering(Top, c)
    BY <1>1, <1>4, <2>1 DEF Emptied, Answered, Seen, Gathering
  <2>4. QED
    BY <1>1, <1>4, <2>2, <2>3 DEF Column
<1>7. QED
  BY <1>1, <1>3, <1>4, <1>5, <1>6, QuietStep

LEMMA FailsStep == IInv /\ Fails => IInv'
<1> SUFFICES ASSUME IInv, Fails
             PROVE  IInv'
  OBVIOUS
<1>1. /\ Top \in QueryType /\ \A c \in Cols : Column(Top, c, obj)
      /\ Depth > 0 /\ Top.method = NULL
  BY TopFacts DEF Fails, Returned
<1> DEFINE q == [Top EXCEPT !.at = "abort", !.col = 1]
<1>2. /\ q \in QueryType /\ q.at = "abort" /\ q.method = NULL /\ q.col = 1
      /\ q.aggr = Top.aggr /\ q.mishap = Top.mishap /\ q.result = Top.result
  BY <1>1, NullFacts DEF QueryType
<1>3. SetTop(q) /\ UNCHANGED obj
  BY DEF Fails
<1> HIDE DEF q
<1>4. Running(q)
  BY <1>2, NullFacts DEF Running
<1>5. ASSUME NEW c \in Cols
      PROVE  Column(q, c, obj)
  <2>1. c \in Nat /\ ~(c < 1)
    BY AggrAssumption DEF Cols
  <2>2. Context(q, c)
    BY <1>1, <1>2, NullFacts DEF Column, Context
  <2>3. ~Emptied(q, c) /\ ~Answered(q, c) /\ ~Gathering(q, c)
    BY <1>2, <2>1 DEF Emptied, Answered, Gathering
  <2>4. QED
    BY <1>1, <1>2, <2>2, <2>3 DEF Column
<1>6. QED
  BY <1>1, <1>2, <1>3, <1>4, <1>5, QuietStep

(* A query, or a group, that starts.                                       *)
LEMMA NoQueryType ==
  ASSUME NEW g \in BOOLEAN
  PROVE  /\ NoQuery(g) \in QueryType
         /\ NoQuery(g).at = "row" /\ NoQuery(g).col = 1 /\ NoQuery(g).method = NULL
         /\ NoQuery(g).rows = 0
         /\ \A c \in Cols : /\ NoQuery(g).aggr[c] = NoAggr /\ ~NoQuery(g).mishap[c]
                            /\ NoQuery(g).result[c] = NULL
<1>1. 0 \in 0..MaxGroupRows /\ 0 \in 0..MaxGroups /\ 1 \in Cols /\ NoAggr \in Aggr
  BY NullFacts, RecordFacts, AggrAssumption
<1>2. QED
  BY <1>1 DEF NoQuery, QueryType

LEMMA NoQueryFacts ==
  ASSUME NEW q, q.at = "row", q.col = 1, q.method = NULL, q.rows = 0,
         \A c \in Cols : q.aggr[c] = NoAggr /\ ~q.mishap[c] /\ q.result[c] = NULL
  PROVE  /\ Running(q) /\ \A b : \A c \in Cols : Column(q, c, b)
         /\ \A c \in Cols : q.aggr[c].aggr_inst = NULL
<1>2. /\ q.at = "row" /\ q.col = 1 /\ q.method = NULL /\ q.rows = 0
      /\ \A c \in Cols : q.aggr[c] = NoAggr /\ ~q.mishap[c] /\ q.result[c] = NULL
  OBVIOUS
<1>3. /\ ~NoAggr.mem /\ ~NoAggr.inited /\ ~NoAggr.err /\ NoAggr.aggr_inst = NULL
  BY DEF NoAggr
<1>4. Running(q)
  BY <1>2, NullFacts DEF Running
<1>5. \A c \in Cols : Context(q, c)
  BY <1>2, <1>3 DEF Context
<1>6. \A c \in Cols : ~Answered(q, c) /\ ~Seen(q, c)
  BY <1>2 DEF Answered, Seen
<1>7. \A b : \A c \in Cols : Column(q, c, b)
  BY <1>2, <1>3, <1>5, <1>6 DEF Column
<1>8. QED
  BY <1>2, <1>3, <1>4, <1>7

LEMMA NextGroupStep == IInv /\ NextGroup => IInv'
<1> SUFFICES ASSUME IInv, NextGroup
             PROVE  IInv'
  OBVIOUS
<1>1. /\ Top \in QueryType /\ \A c \in Cols : Column(Top, c, obj)
      /\ Depth > 0 /\ Top.at = "out"
  BY TopFacts DEF NextGroup, Returned
<1>2. \A c \in Cols : Top.aggr[c].aggr_inst = NULL
  BY <1>1 DEF Column, Emptied, Context
<1> DEFINE q == [NoQuery(TRUE) EXCEPT !.groups = Top.groups]
<1>3. Top.groups \in 0..MaxGroups
  BY <1>1 DEF QueryType
<1>4. SetTop(q) /\ UNCHANGED obj
  BY DEF NextGroup
<1>5. /\ q \in QueryType /\ Running(q) /\ \A b : \A c \in Cols : Column(q, c, b)
      /\ \A c \in Cols : q.aggr[c].aggr_inst = NULL
  <2> DEFINE r == NoQuery(TRUE)
             n == Top.groups
  <2>2. /\ r \in QueryType /\ r.at = "row" /\ r.col = 1 /\ r.method = NULL /\ r.rows = 0
        /\ \A c \in Cols : r.aggr[c] = NoAggr /\ ~r.mishap[c] /\ r.result[c] = NULL
    BY NoQueryType
  <2> HIDE DEF r, n
  <2>3. q = [r EXCEPT !.groups = n] /\ n \in 0..MaxGroups
    BY <1>3 DEF r, n
  <2> HIDE DEF q
  <2>4. /\ q \in QueryType /\ q.at = "row" /\ q.col = 1 /\ q.method = NULL /\ q.rows = 0
        /\ \A c \in Cols : q.aggr[c] = NoAggr /\ ~q.mishap[c] /\ q.result[c] = NULL
    BY <2>2, <2>3 DEF QueryType
  <2>5. QED
    BY <2>4, NoQueryFacts
<1> HIDE DEF q
<1>6. QED
  BY <1>1, <1>2, <1>4, <1>5, QuietStep

LEMMA QueryStep == IInv /\ Query => IInv'
<1> SUFFICES ASSUME IInv, Query
             PROVE  IInv'
  OBVIOUS
<1>1. PICK g \in BOOLEAN : queries' = Append(queries, NoQuery(g))
  BY DEF Query
<1> DEFINE q == NoQuery(g)
<1>2. /\ q \in QueryType /\ Running(q) /\ \A b : \A c \in Cols : Column(q, c, b)
      /\ \A c \in Cols : q.aggr[c].aggr_inst = NULL
  <2>1. /\ q \in QueryType /\ q.at = "row" /\ q.col = 1 /\ q.method = NULL /\ q.rows = 0
        /\ \A c \in Cols : q.aggr[c] = NoAggr /\ ~q.mishap[c] /\ q.result[c] = NULL
    BY NoQueryType
  <2> HIDE DEF q
  <2>2. QED
    BY <2>1, NoQueryFacts
<1> HIDE DEF q
<1>3. queries \in Seq(QueryType) /\ Depth \in Nat /\ Depth < MaxDepth /\ MaxDepth \in Nat
  BY AggrAssumption DEF IInv, Typed, Depth, Query
<1>4. /\ queries' \in Seq(QueryType) /\ Depth' = Depth + 1 /\ queries'[Depth + 1] = q
      /\ \A d \in 1..Depth : queries'[d] = queries[d]
  BY <1>1, <1>2, <1>3 DEF Depth, q
<1>5. obj' = obj
  BY DEF Query
<1>6. 1..(Depth + 1) = 1..Depth \cup {Depth + 1} /\ Depth + 1 \notin 1..Depth
  BY <1>3
<1>7. PICK n : n = Depth
  OBVIOUS
<1>8. /\ \A d \in 1..n, c \in Cols : Inst(d, c)' = Inst(d, c)
      /\ \A c \in Cols : Inst(n + 1, c)' = NULL
  BY <1>2, <1>4, <1>7 DEF Inst
<1>9. Owned'
  <2>1. 1..Depth' = 1..n \cup {n + 1} /\ n + 1 \notin 1..n
    BY <1>4, <1>6, <1>7
  <2>2. \A o \in Objects : obj[o].refs = 1 => \E d \in 1..n, c \in Cols : Inst(d, c) = o
    BY <1>7 DEF IInv, Owned
  <2>3. \A d \in 1..n, c \in Cols : Inst(d, c) # NULL => obj[Inst(d, c)].refs = 1
    BY <1>7 DEF IInv, Owned
  <2>4. \A d, e \in 1..n, c, k \in Cols :
          Inst(d, c) # NULL /\ Inst(d, c) = Inst(e, k) => d = e /\ c = k
    BY <1>7 DEF IInv, Owned
  <2>5. \A o \in Objects : obj'[o].refs = 1 => \E d \in 1..Depth', c \in Cols : Inst(d, c)' = o
    BY <1>5, <1>8, <2>1, <2>2
  <2>6. \A d \in 1..Depth', c \in Cols : Inst(d, c)' # NULL => obj'[Inst(d, c)'].refs = 1
    BY <1>5, <1>8, <2>1, <2>3
  <2>7. \A d, e \in 1..Depth', c, k \in Cols :
          Inst(d, c)' # NULL /\ Inst(d, c)' = Inst(e, k)' => d = e /\ c = k
    BY <1>8, <2>1, <2>4
  <2>8. QED
    BY <2>5, <2>6, <2>7 DEF Owned
<1>10. \A d \in 1..Depth' : Running(queries'[d])
  BY <1>2, <1>4, <1>6 DEF IInv
<1>11. \A d \in 1..Depth', c \in Cols : Column(queries'[d], c, obj')
  BY <1>2, <1>4, <1>5, <1>6 DEF IInv
<1>12. Typed'
  BY <1>3, <1>4, <1>5 DEF IInv, Typed
<1>13. QED
  BY <1>9, <1>10, <1>11, <1>12 DEF IInv

LEMMA QueryEndsStep == IInv /\ QueryEnds => IInv'
<1> SUFFICES ASSUME IInv, QueryEnds
             PROVE  IInv'
  OBVIOUS
<1>1. /\ Depth > 0 /\ queries' = SubSeq(queries, 1, Depth - 1) /\ obj' = obj
      /\ Top.at \in {"out", "over"} \/ (Top.at = "row" /\ Top.rows = 0)
  BY DEF QueryEnds, Returned
<1>2. /\ queries \in Seq(QueryType) /\ Depth \in Nat /\ Depth \in 1..Depth
      /\ Depth <= MaxDepth /\ MaxDepth \in Nat
      /\ Top = queries[Depth] /\ \A c \in Cols : Column(Top, c, obj)
  BY <1>1, TopFacts, AggrAssumption DEF IInv, Typed
<1>3. /\ queries' \in Seq(QueryType) /\ Depth' = Depth - 1
      /\ \A d \in 1..(Depth - 1) : queries'[d] = queries[d]
  <2>1. \A s \in Seq(QueryType) : \A n \in Nat : n <= Len(s) =>
          /\ SubSeq(s, 1, n) \in Seq(QueryType) /\ Len(SubSeq(s, 1, n)) = n
          /\ \A d \in 1..n : SubSeq(s, 1, n)[d] = s[d]
    OBVIOUS
  <2>2. Depth - 1 \in Nat /\ Depth - 1 <= Len(queries)
    BY <1>1, <1>2 DEF Depth
  <2>3. QED
    BY <1>1, <1>2, <2>1, <2>2 DEF Depth
<1>4. 1..(Depth - 1) \cup {Depth} = 1..Depth /\ \A d \in 1..(Depth - 1) : d \in 1..Depth
  BY <1>1, <1>2
<1>5. \A c \in Cols : Inst(Depth, c) = NULL
  BY <1>1, <1>2 DEF Column, Context, Emptied, Inst
<1>6. \A d \in 1..(Depth - 1), c \in Cols : Inst(d, c)' = Inst(d, c)
  BY <1>3 DEF Inst
<1>7. Owned'
  <2>1. \A o \in Objects : obj'[o].refs = 1 => \E d \in 1..Depth', c \in Cols : Inst(d, c)' = o
    <3> SUFFICES ASSUME NEW o \in Objects, obj[o].refs = 1
                 PROVE  \E d \in 1..Depth', c \in Cols : Inst(d, c)' = o
      BY <1>1
    <3>1. PICK d \in 1..Depth, c \in Cols : Inst(d, c) = o
      BY DEF IInv, Owned
    <3>2. d # Depth
      BY <1>5, <3>1, NullFacts
    <3>3. d \in 1..(Depth - 1)
      BY <1>2, <3>2
    <3>4. QED
      BY <1>3, <1>6, <3>1, <3>3
  <2>2. QED
    BY <1>1, <1>3, <1>4, <1>6, <2>1 DEF IInv, Owned
<1>8. \A d \in 1..Depth' : Running(queries'[d])
  BY <1>3, <1>4 DEF IInv
<1>9. \A d \in 1..Depth', c \in Cols : Column(queries'[d], c, obj')
  BY <1>1, <1>3, <1>4 DEF IInv
<1>10. Typed'
  BY <1>1, <1>2, <1>3 DEF IInv, Typed
<1>11. QED
  BY <1>7, <1>8, <1>9, <1>10 DEF IInv

-----------------------------------------------------------------------------
(* Steps of the dispatchers.                                               *)

(* The current column while its turn is not over.                          *)
LEMMA OwnColumn ==
  ASSUME IInv, Depth > 0, Top.at \in {"step", "final", "abort"}, NEW k, k = Top.col,
         NEW q, SameButTurn(Top, q), NEW b, Context(q, k),
         q.mishap[k] <=> Top.mishap[k], q.result[k] = Top.result[k],
         q.aggr[k].err <=> Top.aggr[k].err, Top.aggr[k].inited => q.aggr[k].inited,
         q.aggr[k].aggr_inst # NULL =>
           /\ b[q.aggr[k].aggr_inst].died => q.aggr[k].err
           /\ ~b[q.aggr[k].aggr_inst].done,
         q.aggr[k].inited /\ ~q.aggr[k].err /\ q.at # "abort" =>
           b[q.aggr[k].aggr_inst].steps = q.rows
  PROVE  Column(q, k, b)
<1>1. /\ k \in Cols /\ k \in Nat /\ Column(Top, k, obj) /\ Top.rows \in Nat
  BY TopFacts, AggrAssumption DEF QueryType, Cols
<1>2. q.at = Top.at /\ q.col = k /\ q.rows = Top.rows
  BY DEF SameButTurn
<1>3. /\ ~Emptied(q, k) /\ ~Answered(q, k) /\ ~Seen(q, k)
      /\ Gathering(q, k) => Gathering(Top, k) /\ q.at # "abort"
  BY <1>1, <1>2 DEF Emptied, Answered, Seen, Gathering
<1>4. ~Seen(Top, k)
  BY <1>1 DEF Seen
<1>5. Gathering(q, k) =>
        /\ q.mishap[k] <=> q.aggr[k].err
        /\ q.result[k] = NULL
        /\ q.rows > 0 => q.aggr[k].inited
  BY <1>1, <1>2, <1>3, <1>4 DEF Column
<1>6. Gathering(q, k) /\ q.aggr[k].inited /\ ~q.aggr[k].err =>
        b[q.aggr[k].aggr_inst].steps = q.rows + (IF Seen(q, k) THEN 1 ELSE 0)
  BY <1>1, <1>2, <1>3
<1>7. QED
  BY <1>3, <1>5, <1>6 DEF Column

LEMMA QuietObjects ==
  ASSUME IInv, Depth > 0, UNCHANGED obj
  PROVE  ObjectStep(Top.aggr[Top.col].aggr_inst, Top.aggr[Top.col].aggr_inst)
<1>1. Top.col \in Cols
  BY TopFacts
<1>2. QED
  BY <1>1, ObjectFacts DEF ObjectStep

LEMMA Transitive ==
  \A q, r, s : SameButTurn(q, r) /\ SameButTurn(r, s) => SameButTurn(q, s)
BY DEF SameButTurn

LEMMA StepDispatcherStep == IInv /\ StepDispatcher => IInv'
<1> SUFFICES ASSUME IInv, StepDispatcher
             PROVE  IInv'
  OBVIOUS
<1> DEFINE k == Top.col
           r == PutMem(Top, k)
<1>1. /\ Depth > 0 /\ Top.at = "step" /\ Top.method = NULL /\ UNCHANGED obj
      /\ \/ ~r.aggr[r.col].inited /\ SetTop(Called(r, "new"))
         \/ r.aggr[r.col].inited /\ Usable(r.aggr[r.col]) /\ SetTop(Called(r, "step"))
         \/ r.aggr[r.col].inited /\ ~Usable(r.aggr[r.col]) /\ SetTop(NextCol(r))
  BY DEF StepDispatcher, Returned, Call, Called, PutMem
<1>2. Top \in QueryType /\ Running(Top) /\ Column(Top, k, obj) /\ k \in Cols
  BY <1>1, TopFacts
<1>3. SameButContext(Top, r) /\ r.aggr[k] = [Top.aggr[k] EXCEPT !.mem = TRUE]
  BY <1>2, PutFields
<1> HIDE DEF r
<1>4. /\ r \in QueryType /\ r.at = "step" /\ r.col = k /\ r.rows = Top.rows
      /\ r.mishap = Top.mishap /\ r.result = Top.result /\ SameButTurn(Top, r)
  BY <1>1, <1>3 DEF SameButContext, SameButTurn
<1>5. /\ r.aggr[k].mem /\ (r.aggr[k].inited <=> Top.aggr[k].inited)
      /\ (r.aggr[k].err <=> Top.aggr[k].err)
      /\ r.aggr[k].aggr_inst = Top.aggr[k].aggr_inst
  BY <1>2, <1>3, RecordFacts, ContextFields
<1>6. ObjectStep(Top.aggr[k].aggr_inst, Top.aggr[k].aggr_inst)
  BY <1>1, QuietObjects
<1>7. /\ Top.aggr[k].aggr_inst # NULL => Top.aggr[k].inited
      /\ Top.aggr[k].inited /\ ~Top.aggr[k].err => Top.aggr[k].aggr_inst # NULL
      /\ Top.aggr[k].err => Top.aggr[k].inited
      /\ Top.aggr[k].aggr_inst # NULL =>
           /\ obj[Top.aggr[k].aggr_inst].died => Top.aggr[k].err
           /\ ~obj[Top.aggr[k].aggr_inst].done
      /\ (Top.mishap[k] <=> Top.aggr[k].err) /\ Top.result[k] = NULL
      /\ Top.aggr[k].inited /\ ~Top.aggr[k].err =>
           obj[Top.aggr[k].aggr_inst].steps = Top.rows
  <2>1. Gathering(Top, k) /\ ~Seen(Top, k) /\ Top.rows \in Nat
    BY <1>1, <1>2, AggrAssumption DEF Gathering, Seen, Cols, QueryType
  <2>2. QED
    BY <1>2, <2>1 DEF Column, Context
<1>8. obj' = obj
  BY <1>1
<1>9. CASE ~r.aggr[r.col].inited /\ SetTop(Called(r, "new"))
  <2> DEFINE q == Called(r, "new")
  <2>1. /\ SameButTurn(r, q) /\ q.method = "new" /\ q.aggr = r.aggr
        /\ q.mishap = r.mishap /\ q.result = r.result
    BY <1>4, CalledFields
  <2> HIDE DEF q
  <2>2. /\ SameButTurn(Top, q) /\ q.at = "step" /\ q.col = k /\ q.rows = Top.rows
    BY <1>4, <2>1, Transitive DEF SameButTurn
  <2>3. Running(q)
    BY <1>1, <1>2, <1>4, <1>5, <1>9, <2>1, <2>2 DEF Running
  <2>4. Context(q, k)
    BY <1>4, <1>5, <1>7, <1>9, <2>1, <2>2 DEF Context
  <2>5. Column(q, k, obj')
    BY <1>1, <1>4, <1>5, <1>7, <1>8, <2>1, <2>2, <2>4, OwnColumn
  <2>6. SetTop(q) /\ q.aggr[k].aggr_inst = Top.aggr[k].aggr_inst
    BY <1>5, <1>9, <2>1 DEF q
  <2>7. QED
    BY <1>1, <1>6, <2>2, <2>3, <2>5, <2>6, CallStep
<1>10. CASE r.aggr[r.col].inited /\ Usable(r.aggr[r.col]) /\ SetTop(Called(r, "step"))
  <2> DEFINE q == Called(r, "step")
  <2>1. /\ SameButTurn(r, q) /\ q.method = "step" /\ q.aggr = r.aggr
        /\ q.mishap = r.mishap /\ q.result = r.result
    BY <1>4, CalledFields
  <2> HIDE DEF q
  <2>2. /\ SameButTurn(Top, q) /\ q.at = "step" /\ q.col = k /\ q.rows = Top.rows
    BY <1>4, <2>1, Transitive DEF SameButTurn
  <2>3. Running(q)
    BY <1>1, <1>2, <1>4, <1>5, <1>10, <2>1, <2>2 DEF Running, Usable
  <2>4. Context(q, k)
    BY <1>4, <1>5, <1>7, <1>10, <2>1, <2>2 DEF Context
  <2>5. Column(q, k, obj')
    BY <1>1, <1>4, <1>5, <1>7, <1>8, <2>1, <2>2, <2>4, OwnColumn
  <2>6. SetTop(q) /\ q.aggr[k].aggr_inst = Top.aggr[k].aggr_inst
    BY <1>5, <1>10, <2>1 DEF q
  <2>7. QED
    BY <1>1, <1>6, <2>2, <2>3, <2>5, <2>6, CallStep
<1>11. CASE r.aggr[r.col].inited /\ ~Usable(r.aggr[r.col]) /\ SetTop(NextCol(r))
  <2>1. r.aggr[k].err
    BY <1>4, <1>5, <1>7, <1>11 DEF Usable
  <2>2. TurnOver(r, k, obj')
    BY <1>4, <1>5, <1>7, <1>8, <1>11, <2>1 DEF TurnOver
  <2>3. QED
    BY <1>1, <1>4, <1>5, <1>6, <1>11, <2>2, TurnStep
<1>12. QED
  BY <1>1, <1>9, <1>10, <1>11

(* The end of the finalize dispatcher.                                     *)
LEMMA ConcludeStep ==
  ASSUME IInv, Depth > 0, Top.at \in {"final", "abort"}, NEW k, k = Top.col,
         NEW q, SameButTurn(Top, q), q.aggr[k].aggr_inst = Top.aggr[k].aggr_inst,
         q.at = "final" =>
           /\ q.mishap[k] <=> q.result[k] = NULL
           /\ ~q.mishap[k] => q.result[k] = q.rows,
         NEW objs \in [Objects -> ObjType],
         \A p \in Objects : p # Top.aggr[k].aggr_inst => objs[p] = obj[p],
         \A p \in Objects : objs[p].refs = obj[p].refs,
         Conclude(q, objs)
  PROVE  IInv'
<1> DEFINE r == Emptying(q)
           old == Top.aggr[k].aggr_inst
<1>1. k \in Cols /\ q \in QueryType /\ q.col = k /\ q.at = Top.at /\ q.rows = Top.rows
  BY TopFacts DEF SameButTurn
<1>2. /\ SameButTurn(q, r) /\ r.aggr[k] = NoAggr
      /\ r.mishap = q.mishap /\ r.result = q.result
  <2>1. r = WithAggr(q, q.col, NoAggr)
    BY DEF Emptying, WithAggr
  <2>2. QED
    BY <1>1, <2>1, RecordFacts, WithAggrFields
<1>3. /\ SetTop(NextCol(r))
      /\ obj' = [o \in Objects |-> IF o = q.aggr[q.col].aggr_inst
                                    THEN [NoObj EXCEPT !.refs = objs[o].refs - 1] ELSE objs[o]]
  BY DEF Conclude, Emptying
<1> HIDE DEF r
<1>4. ~NoAggr.mem /\ ~NoAggr.inited /\ ~NoAggr.err /\ NoAggr.aggr_inst = NULL
  BY DEF NoAggr
<1>5. ObjectStep(old, NULL)
  <2>1. old \in {NULL} \cup Objects /\ (old # NULL => obj[old].refs = 1)
    BY <1>1, ObjectFacts
  <2>2. \A p \in Objects \ {old} : obj'[p] = obj[p]
    BY <1>1, <1>3
  <2>3. old # NULL => obj'[old] \in ObjType /\ obj'[old].refs = 0
    <3> SUFFICES ASSUME old # NULL
                 PROVE  obj'[old] \in ObjType /\ obj'[old].refs = 0
      OBVIOUS
    <3>1. objs[old].refs = 1 /\ old \in Objects
      BY <2>1
    <3>2. obj'[old] = [NoObj EXCEPT !.refs = objs[old].refs - 1]
      BY <1>1, <1>3, <3>1
    <3>3. obj'[old] = [NoObj EXCEPT !.refs = 0]
      BY <3>1, <3>2
    <3>4. \A x \in ObjType :
            [x EXCEPT !.refs = 0] \in ObjType /\ [x EXCEPT !.refs = 0].refs = 0
      BY DEF ObjType
    <3>5. QED
      BY <3>3, <3>4, RecordFacts
  <2>4. obj' \in [Objects -> ObjType]
    <3>1. ASSUME NEW p \in Objects
          PROVE  obj'[p] \in ObjType
      <4>1. obj[p] \in ObjType
        BY ObjectFacts
      <4>2. p # NULL
        BY NullFacts
      <4>3. QED
        BY <2>2, <2>3, <4>1, <4>2
    <3>2. QED
      BY <1>3, <3>1
  <2>5. QED
    BY <2>2, <2>3, <2>4 DEF ObjectStep
<1>6. SameButTurn(Top, r)
  BY <1>2, Transitive
<1>7. r.at = q.at /\ r.rows = q.rows
  BY <1>2 DEF SameButTurn
<1>8. TurnOver(r, k, obj')
  BY <1>1, <1>2, <1>4, <1>7 DEF TurnOver
<1>9. r.aggr[k].aggr_inst = NULL
  BY <1>2, <1>4
<1>10. QED
  BY <1>3, <1>5, <1>6, <1>8, <1>9, TurnStep

LEMMA FinalizeDispatcherStep == IInv /\ FinalizeDispatcher => IInv'
<1> SUFFICES ASSUME IInv, FinalizeDispatcher
             PROVE  IInv'
  OBVIOUS
<1> DEFINE k == Top.col
<1>1. /\ Depth > 0 /\ Top.method = NULL
      /\ Top.at = "final" \/ (Top.at = "abort" /\ Info.mem)
      /\ \/ ~Info.mem /\ SetTop(Called(Top, "new")) /\ UNCHANGED obj
         \/ Info.mem /\ Usable(Info) /\ SetTop(Called(Top, "finalize")) /\ UNCHANGED obj
         \/ Info.mem /\ ~Usable(Info) /\ Conclude(Top, obj)
  BY DEF FinalizeDispatcher, Returned, Call, Called
<1>2. /\ Top \in QueryType /\ Running(Top) /\ Column(Top, k, obj) /\ k \in Cols
      /\ Info = Top.aggr[k] /\ Top.at \in {"final", "abort"}
  BY <1>1, TopFacts DEF Info
<1>3. Context(Top, k) /\ (Top.aggr[k].mem <=> Top.aggr[k].inited)
  BY <1>1, <1>2, NullFacts DEF Column, Context
<1>4. /\ Top.aggr[k].aggr_inst # NULL =>
           /\ obj[Top.aggr[k].aggr_inst].died => Top.aggr[k].err
           /\ ~obj[Top.aggr[k].aggr_inst].done
      /\ Top.at = "final" =>
           /\ Top.mishap[k] <=> Top.aggr[k].err
           /\ Top.result[k] = NULL
           /\ Top.aggr[k].inited /\ ~Top.aggr[k].err =>
                obj[Top.aggr[k].aggr_inst].steps = Top.rows
  <2>1. Top.at = "final" => Gathering(Top, k)
    BY <1>2, AggrAssumption DEF Gathering, Cols
  <2>2. Top.rows \in Nat /\ ~Seen(Top, k)
    BY <1>2, AggrAssumption DEF Seen, Cols, QueryType
  <2>3. QED
    BY <1>2, <2>1, <2>2 DEF Column
<1>5. SameButTurn(Top, Top)
  BY <1>2 DEF SameButTurn
<1>6. CASE ~Info.mem /\ SetTop(Called(Top, "new")) /\ UNCHANGED obj
  <2> DEFINE q == Called(Top, "new")
  <2>1. /\ SameButTurn(Top, q) /\ q.method = "new" /\ q.aggr = Top.aggr
        /\ q.mishap = Top.mishap /\ q.result = Top.result /\ SetTop(q)
    BY <1>2, <1>6, CalledFields
  <2> HIDE DEF q
  <2>2. q.at = "final" /\ q.col = k /\ q.rows = Top.rows
    BY <1>1, <1>6, <2>1 DEF SameButTurn
  <2>3. Running(q)
    BY <1>2, <1>3, <1>6, <2>1, <2>2 DEF Running
  <2>4. Context(q, k)
    BY <1>2, <1>3, <1>6, <2>1, <2>2 DEF Context
  <2>5. Column(q, k, obj')
    BY <1>1, <1>2, <1>3, <1>6, <2>1, <2>2, <2>4, OwnColumn DEF Context
  <2>6. QED
    BY <1>1, <1>6, <2>1, <2>3, <2>5, CallStep, QuietObjects
<1>7. CASE Info.mem /\ Usable(Info) /\ SetTop(Called(Top, "finalize")) /\ UNCHANGED obj
  <2> DEFINE q == Called(Top, "finalize")
  <2>1. /\ SameButTurn(Top, q) /\ q.method = "finalize" /\ q.aggr = Top.aggr
        /\ q.mishap = Top.mishap /\ q.result = Top.result /\ SetTop(q)
    BY <1>2, <1>7, CalledFields
  <2> HIDE DEF q
  <2>2. q.at = Top.at /\ q.col = k /\ q.rows = Top.rows
    BY <2>1 DEF SameButTurn
  <2>3. Running(q)
    BY <1>2, <1>3, <1>7, <2>1, <2>2 DEF Running, Usable
  <2>4. Context(q, k)
    BY <1>2, <1>3, <1>7, <2>1, <2>2 DEF Context
  <2>5. Column(q, k, obj')
    BY <1>1, <1>2, <1>3, <1>4, <1>7, <2>1, <2>2, <2>4, OwnColumn
  <2>6. QED
    BY <1>1, <1>7, <2>1, <2>3, <2>5, CallStep, QuietObjects
<1>8. CASE Info.mem /\ ~Usable(Info) /\ Conclude(Top, obj)
  <2>1. Top.aggr[k].err
    BY <1>2, <1>3, <1>8 DEF Context, Usable
  <2>2. Top.at = "final" =>
          /\ Top.mishap[k] <=> Top.result[k] = NULL
          /\ ~Top.mishap[k] => Top.result[k] = Top.rows
    BY <1>4, <2>1
  <2>3. obj \in [Objects -> ObjType]
    BY <1>1, ObjectFacts
  <2>4. QED
    BY <1>1, <1>2, <1>5, <1>8, <2>2, <2>3, ConcludeStep
<1>9. QED
  BY <1>1, <1>6, <1>7, <1>8

LEMMA AbortSkipsStep == IInv /\ AbortSkips => IInv'
<1> SUFFICES ASSUME IInv, AbortSkips
             PROVE  IInv'
  OBVIOUS
<1> DEFINE k == Top.col
<1>1. /\ Depth > 0 /\ Top.method = NULL /\ Top.at = "abort" /\ ~Info.mem
      /\ SetTop(NextCol(Top)) /\ UNCHANGED obj
  BY DEF AbortSkips, Returned
<1>2. /\ Top \in QueryType /\ Column(Top, k, obj) /\ k \in Cols /\ ~Top.aggr[k].mem
  BY <1>1, TopFacts DEF Info
<1>3. SameButTurn(Top, Top)
  BY <1>2 DEF SameButTurn
<1>4. TurnOver(Top, k, obj')
  BY <1>1, <1>2, NullFacts DEF TurnOver, Column, Context
<1>5. QED
  BY <1>1, <1>3, <1>4, TurnStep, QuietObjects

LEMMA NewReturnsStep == IInv /\ NewReturns => IInv'
<1> SUFFICES ASSUME IInv, NewReturns
             PROVE  IInv'
  OBVIOUS
<1> DEFINE k == Top.col
           m == IF Top.at = "step" THEN "step" ELSE "finalize"
<1>1. PICK o \in Objects : /\ obj[o].refs = 0 /\ SetTop(Called(Created(Top, o), m))
                           /\ obj' = [obj EXCEPT ![o] = NewObj]
  BY DEF NewReturns, Call, Called
<1>2. Depth > 0 /\ Top.method = "new"
  BY DEF NewReturns, In
<1>3. /\ Top \in QueryType /\ Running(Top) /\ Column(Top, k, obj) /\ k \in Cols
      /\ obj \in [Objects -> ObjType] /\ o # NULL
  BY <1>1, <1>2, TopFacts, ObjectFacts, NullFacts
<1>4. /\ Top.at \in {"step", "final"} /\ ~Top.aggr[k].inited
      /\ Top.at = "step" => Top.aggr[k].mem
  BY <1>2, <1>3 DEF Running
<1>5. /\ ~Top.aggr[k].err /\ Top.aggr[k].aggr_inst = NULL /\ ~Top.mishap[k]
      /\ Top.result[k] = NULL /\ Top.rows = 0
  <2>1. Gathering(Top, k) /\ Top.rows \in Nat
    BY <1>3, <1>4, AggrAssumption DEF Gathering, Cols, QueryType
  <2>2. QED
    BY <1>3, <1>4, <2>1 DEF Column, Context
<1> DEFINE r == Created(Top, o)
           q == Called(r, m)
<1>6. /\ SameButContext(Top, r) /\ r.aggr[k].inited /\ ~r.aggr[k].err
      /\ r.aggr[k].aggr_inst = o /\ (r.aggr[k].mem <=> Top.aggr[k].mem)
  BY <1>3, CreatedFields
<1> HIDE DEF r
<1>7. /\ r \in QueryType /\ SameButTurn(Top, r) /\ r.mishap = Top.mishap
      /\ r.result = Top.result
  BY <1>6 DEF SameButContext, SameButTurn
<1>8. /\ SameButTurn(r, q) /\ q.method = m /\ q.aggr = r.aggr
      /\ q.mishap = r.mishap /\ q.result = r.result
  BY <1>7, CalledFields
<1>9. SetTop(q)
  BY <1>1 DEF r
<1> HIDE DEF q
<1>10. SameButTurn(Top, q) /\ q.at = Top.at /\ q.col = k /\ q.rows = 0
  BY <1>5, <1>7, <1>8, Transitive DEF SameButTurn
<1>11. /\ q.aggr[k].inited /\ ~q.aggr[k].err /\ q.aggr[k].aggr_inst = o
       /\ q.aggr[k].mem <=> Top.aggr[k].mem
  BY <1>6, <1>8
<1>12. Running(q)
  BY <1>3, <1>4, <1>5, <1>8, <1>10, <1>11 DEF Running
<1>13. Context(q, k)
  BY <1>3, <1>4, <1>8, <1>10, <1>11 DEF Context
<1>14. obj'[o] = NewObj /\ obj'[o].refs = 1 /\ obj'[o].steps = 0 /\ ~obj'[o].died /\ ~obj'[o].done
  BY <1>1, <1>3 DEF NewObj
<1>15. ObjectStep(NULL, o)
  BY <1>1, <1>3, <1>14, RecordFacts DEF ObjectStep
<1>16. Column(q, k, obj')
  BY <1>2, <1>4, <1>5, <1>7, <1>8, <1>10, <1>11, <1>13, <1>14, OwnColumn
<1>17. QED
  BY <1>2, <1>5, <1>9, <1>10, <1>11, <1>12, <1>15, <1>16, CallStep

LEMMA NewDiesStep == IInv /\ NewDies => IInv'
<1> SUFFICES ASSUME IInv, NewDies
             PROVE  IInv'
  OBVIOUS
<1> DEFINE k == Top.col
           q == Died(Top)
<1>1. /\ Depth > 0 /\ Top.method = "new"
      /\ Top.at = "step" => SetTop(NextCol(q)) /\ UNCHANGED obj
      /\ Top.at # "step" => Conclude(q, obj)
  BY DEF NewDies, In
<1>2. /\ Top \in QueryType /\ Running(Top) /\ Column(Top, k, obj) /\ k \in Cols
      /\ obj \in [Objects -> ObjType]
  BY <1>1, TopFacts, ObjectFacts
<1>3. /\ Top.at \in {"step", "final"} /\ ~Top.aggr[k].inited
      /\ Top.at = "step" => Top.aggr[k].mem
  BY <1>1, <1>2 DEF Running
<1>4. Top.aggr[k].aggr_inst = NULL /\ Top.result[k] = NULL
  <2>1. Gathering(Top, k)
    BY <1>2, <1>3, AggrAssumption DEF Gathering, Cols
  <2>2. QED
    BY <1>2, <1>3, <2>1 DEF Column, Context
<1>5. /\ SameButTurn(Top, q) /\ q.result = Top.result
      /\ q.aggr[k].inited /\ q.aggr[k].err /\ q.aggr[k].aggr_inst = Top.aggr[k].aggr_inst
      /\ (q.aggr[k].mem <=> Top.aggr[k].mem) /\ q.mishap[k]
  BY <1>2, DiedFields
<1> HIDE DEF q
<1>6. q.at = Top.at
  BY <1>5 DEF SameButTurn
<1>7. CASE Top.at = "step"
  <2>1. TurnOver(q, k, obj')
    BY <1>3, <1>4, <1>5, <1>6, <1>7 DEF TurnOver
  <2>2. QED
    BY <1>1, <1>5, <1>7, <2>1, TurnStep, QuietObjects
<1>8. CASE Top.at = "final"
  <2>1. q.at = "final" => /\ q.mishap[k] <=> q.result[k] = NULL
                          /\ ~q.mishap[k] => q.result[k] = q.rows
    BY <1>4, <1>5
  <2>2. QED
    BY <1>1, <1>2, <1>5, <1>8, <2>1, ConcludeStep
<1>9. QED
  BY <1>3, <1>7, <1>8

LEMMA StepReturnsStep == IInv /\ StepReturns => IInv'
<1> SUFFICES ASSUME IInv, StepReturns
             PROVE  IInv'
  OBVIOUS
<1> DEFINE k == Top.col
           o == Top.aggr[k].aggr_inst
           n == obj[o].steps + 1
<1>1. /\ Depth > 0 /\ Top.method = "step" /\ SetTop(NextCol(Top))
      /\ obj' = [obj EXCEPT ![o].steps = n]
  BY DEF StepReturns, In, Info
<1>2. /\ Top \in QueryType /\ Running(Top) /\ Column(Top, k, obj) /\ k \in Cols
      /\ obj \in [Objects -> ObjType]
  BY <1>1, TopFacts, ObjectFacts
<1>3. /\ Top.at = "step" /\ Top.aggr[k].mem /\ Top.aggr[k].inited /\ ~Top.aggr[k].err
      /\ Top.rows < MaxGroupRows
  BY <1>1, <1>2 DEF Running
<1>4. /\ o \in Objects /\ o # NULL /\ ~obj[o].died /\ ~obj[o].done
      /\ obj[o].steps = Top.rows /\ obj[o].refs = 1
      /\ Top.result[k] = NULL /\ ~Top.mishap[k]
  <2>1. Gathering(Top, k) /\ ~Seen(Top, k) /\ Top.rows \in Nat
    BY <1>2, <1>3, AggrAssumption DEF Gathering, Seen, Cols, QueryType
  <2>2. o # NULL
    BY <1>2, <1>3 DEF Column, Context
  <2>3. o \in Objects /\ obj[o].refs = 1
    BY <1>1, <1>2, <2>2, ObjectFacts
  <2>4. QED
    BY <1>2, <1>3, <2>1, <2>2, <2>3 DEF Column
<1>5. n = Top.rows + 1 /\ n \in 0..MaxGroupRows
  BY <1>2, <1>3, <1>4, AggrAssumption DEF QueryType
<1> HIDE DEF n
<1>6. /\ obj'[o] = [obj[o] EXCEPT !.steps = n] /\ obj[o] \in ObjType
      /\ \A p \in Objects \ {o} : obj'[p] = obj[p]
  BY <1>1, <1>2, <1>4
<1>7. /\ obj'[o] \in ObjType /\ obj'[o].refs = 1 /\ obj'[o].steps = n
      /\ ~obj'[o].died /\ ~obj'[o].done
  BY <1>4, <1>5, <1>6 DEF ObjType
<1>8. ObjectStep(o, o)
  <2>1. obj' \in [Objects -> ObjType]
    BY <1>1, <1>2, <1>6, <1>7
  <2>2. QED
    BY <1>4, <1>6, <1>7, <2>1 DEF ObjectStep
<1>9. SameButTurn(Top, Top)
  BY <1>2 DEF SameButTurn
<1>10. TurnOver(Top, k, obj')
  BY <1>3, <1>4, <1>5, <1>7 DEF TurnOver
<1>11. QED
  BY <1>1, <1>3, <1>8, <1>9, <1>10, TurnStep

LEMMA StepDiesStep == IInv /\ StepDies => IInv'
<1> SUFFICES ASSUME IInv, StepDies
             PROVE  IInv'
  OBVIOUS
<1> DEFINE k == Top.col
           o == Top.aggr[k].aggr_inst
           q == Died(Top)
<1>1. /\ Depth > 0 /\ Top.method = "step" /\ SetTop(NextCol(q))
      /\ obj' = [obj EXCEPT ![o].died = TRUE]
  BY DEF StepDies, In, Info
<1>2. /\ Top \in QueryType /\ Running(Top) /\ Column(Top, k, obj) /\ k \in Cols
      /\ obj \in [Objects -> ObjType]
  BY <1>1, TopFacts, ObjectFacts
<1>3. Top.at = "step" /\ Top.aggr[k].mem /\ Top.aggr[k].inited /\ ~Top.aggr[k].err
  BY <1>1, <1>2 DEF Running
<1>4. o \in Objects /\ o # NULL /\ ~obj[o].done /\ obj[o].refs = 1 /\ Top.result[k] = NULL
  <2>1. Gathering(Top, k)
    BY <1>3 DEF Gathering
  <2>2. o # NULL
    BY <1>2, <1>3 DEF Column, Context
  <2>3. o \in Objects /\ obj[o].refs = 1
    BY <1>1, <1>2, <2>2, ObjectFacts
  <2>4. QED
    BY <1>2, <2>1, <2>2, <2>3 DEF Column
<1>5. /\ SameButTurn(Top, q) /\ q.result = Top.result
      /\ q.aggr[k].inited /\ q.aggr[k].err /\ q.aggr[k].aggr_inst = o
      /\ (q.aggr[k].mem <=> Top.aggr[k].mem) /\ q.mishap[k]
  BY <1>2, DiedFields
<1> HIDE DEF q
<1>6. /\ obj'[o] = [obj[o] EXCEPT !.died = TRUE] /\ obj[o] \in ObjType
      /\ \A p \in Objects \ {o} : obj'[p] = obj[p]
  BY <1>1, <1>2, <1>4
<1>7. obj'[o] \in ObjType /\ obj'[o].refs = 1 /\ ~obj'[o].done
  BY <1>4, <1>6 DEF ObjType
<1>8. ObjectStep(o, o)
  <2>1. obj' \in [Objects -> ObjType]
    BY <1>1, <1>2, <1>6, <1>7
  <2>2. QED
    BY <1>4, <1>6, <1>7, <2>1 DEF ObjectStep
<1>9. q.at = "step"
  BY <1>3, <1>5 DEF SameButTurn
<1>10. TurnOver(q, k, obj')
  BY <1>3, <1>4, <1>5, <1>7, <1>9 DEF TurnOver
<1>11. QED
  BY <1>1, <1>3, <1>5, <1>8, <1>10, TurnStep

(* What holds when finalize() comes back.                                  *)
LEMMA FinalizeFacts ==
  ASSUME IInv, In("finalize")
  PROVE  /\ Depth > 0 /\ Top \in QueryType /\ Top.col \in Cols
         /\ Top.at \in {"final", "abort"} /\ Info = Top.aggr[Top.col]
         /\ Info.aggr_inst \in Objects /\ obj \in [Objects -> ObjType]
         /\ Top.at = "final" =>
              /\ obj[Info.aggr_inst].steps = Top.rows
              /\ ~Top.mishap[Top.col] /\ Top.result[Top.col] = NULL
<1> DEFINE k == Top.col
<1>1. Depth > 0 /\ Top.method = "finalize"
  BY DEF In
<1>2. /\ Top \in QueryType /\ Running(Top) /\ Column(Top, k, obj) /\ k \in Cols
      /\ obj \in [Objects -> ObjType] /\ Info = Top.aggr[k]
  BY <1>1, TopFacts, ObjectFacts DEF Info
<1>3. Top.at \in {"final", "abort"} /\ Top.aggr[k].inited /\ ~Top.aggr[k].err
  BY <1>1, <1>2 DEF Running
<1>4. Top.aggr[k].aggr_inst # NULL
  BY <1>2, <1>3 DEF Column, Context
<1>5. Top.aggr[k].aggr_inst \in Objects
  BY <1>1, <1>2, <1>4, ObjectFacts
<1>6. Top.at = "final" =>
        /\ obj[Top.aggr[k].aggr_inst].steps = Top.rows
        /\ ~Top.mishap[k] /\ Top.result[k] = NULL
  <2>1. Top.at = "final" => Gathering(Top, k)
    BY <1>2, AggrAssumption DEF Gathering, Cols
  <2>2. Top.rows \in Nat /\ ~Seen(Top, k)
    BY <1>2, <1>3, AggrAssumption DEF Seen, QueryType
  <2>3. QED
    BY <1>2, <1>3, <2>1, <2>2 DEF Column
<1>7. QED
  BY <1>1, <1>2, <1>3, <1>5, <1>6

LEMMA FinalizeReturnsStep == IInv /\ FinalizeReturns => IInv'
<1> SUFFICES ASSUME IInv, FinalizeReturns
             PROVE  IInv'
  OBVIOUS
<1> DEFINE k == Top.col
           o == Info.aggr_inst
           n == IF Top.at = "final" THEN obj[o].steps ELSE NULL
           q == Answer(Top, n)
           objs == [obj EXCEPT ![o].done = TRUE]
<1>1. Conclude(q, objs) /\ In("finalize")
  BY DEF FinalizeReturns, Answer
<1>2. /\ Depth > 0 /\ Top \in QueryType /\ k \in Cols
      /\ Top.at \in {"final", "abort"} /\ Info = Top.aggr[k]
      /\ o \in Objects /\ obj \in [Objects -> ObjType]
      /\ Top.at = "final" =>
           obj[o].steps = Top.rows /\ ~Top.mishap[k] /\ Top.result[k] = NULL
  BY <1>1, FinalizeFacts
<1>3. /\ n \in {NULL} \cup 0..MaxGroupRows /\ (Top.at = "final" => n = Top.rows /\ n # NULL)
  <2>1. Top.rows \in 0..MaxGroupRows /\ Top.rows # NULL
    BY <1>2, NullFacts, AggrAssumption DEF QueryType
  <2>2. QED
    BY <1>2, <2>1
<1> HIDE DEF n
<1>4. /\ SameButTurn(Top, q) /\ q.aggr = Top.aggr /\ q.mishap = Top.mishap
      /\ q.result[k] = n
  BY <1>2, <1>3, AnswerFields
<1> HIDE DEF q
<1>5. q.at = Top.at /\ q.rows = Top.rows
  BY <1>4 DEF SameButTurn
<1>6. q.at = "final" => /\ q.mishap[k] <=> q.result[k] = NULL
                        /\ ~q.mishap[k] => q.result[k] = q.rows
  BY <1>2, <1>3, <1>4, <1>5
<1>7. /\ objs[o] = [obj[o] EXCEPT !.done = TRUE] /\ obj[o] \in ObjType
      /\ \A p \in Objects \ {o} : objs[p] = obj[p]
  BY <1>2
<1>8. objs[o] \in ObjType /\ objs[o].refs = obj[o].refs
  <2>1. \A x \in ObjType :
          [x EXCEPT !.done = TRUE] \in ObjType /\ [x EXCEPT !.done = TRUE].refs = x.refs
    BY DEF ObjType
  <2> HIDE DEF objs
  <2>2. QED
    BY <1>7, <2>1
<1>9. objs \in [Objects -> ObjType]
  BY <1>2, <1>7, <1>8
<1> HIDE DEF objs
<1>10. /\ \A p \in Objects : p # Top.aggr[k].aggr_inst => objs[p] = obj[p]
       /\ \A p \in Objects : objs[p].refs = obj[p].refs
  BY <1>2, <1>7, <1>8
<1>11. q.aggr[k].aggr_inst = Top.aggr[k].aggr_inst
  BY <1>4
<1>12. QED
  BY <1>1, <1>2, <1>4, <1>6, <1>9, <1>10, <1>11, ConcludeStep

LEMMA FinalizeDiesStep == IInv /\ FinalizeDies => IInv'
<1> SUFFICES ASSUME IInv, FinalizeDies
             PROVE  IInv'
  OBVIOUS
<1> DEFINE k == Top.col
           o == Info.aggr_inst
           q == Died(Top)
           done == [obj EXCEPT ![o].done = TRUE]
           objs == [done EXCEPT ![o].died = TRUE]
<1>1. Conclude(q, objs) /\ In("finalize")
  BY DEF FinalizeDies
<1>2. /\ Depth > 0 /\ Top \in QueryType /\ k \in Cols
      /\ Top.at \in {"final", "abort"} /\ Info = Top.aggr[k]
      /\ o \in Objects /\ obj \in [Objects -> ObjType]
      /\ Top.at = "final" => Top.result[k] = NULL
  BY <1>1, FinalizeFacts
<1>3. /\ SameButTurn(Top, q) /\ q.result = Top.result /\ q.mishap[k]
      /\ q.aggr[k].aggr_inst = Top.aggr[k].aggr_inst
  BY <1>2, DiedFields
<1> HIDE DEF q
<1>4. q.at = Top.at
  BY <1>3 DEF SameButTurn
<1>5. q.at = "final" => /\ q.mishap[k] <=> q.result[k] = NULL
                        /\ ~q.mishap[k] => q.result[k] = q.rows
  BY <1>2, <1>3, <1>4
<1>6. \A x \in ObjType : /\ [x EXCEPT !.done = TRUE] \in ObjType
                         /\ [x EXCEPT !.done = TRUE].refs = x.refs
                         /\ [x EXCEPT !.died = TRUE] \in ObjType
                         /\ [x EXCEPT !.died = TRUE].refs = x.refs
  BY DEF ObjType
<1>7. /\ done[o] = [obj[o] EXCEPT !.done = TRUE] /\ obj[o] \in ObjType
      /\ \A p \in Objects \ {o} : done[p] = obj[p]
  BY <1>2
<1>8. done \in [Objects -> ObjType] /\ done[o].refs = obj[o].refs
  BY <1>2, <1>6, <1>7
<1> HIDE DEF done
<1>9. /\ objs[o] = [done[o] EXCEPT !.died = TRUE] /\ done[o] \in ObjType
      /\ \A p \in Objects \ {o} : objs[p] = done[p]
  BY <1>2, <1>8
<1>10. objs \in [Objects -> ObjType] /\ objs[o].refs = obj[o].refs
  BY <1>2, <1>6, <1>8, <1>9
<1> HIDE DEF objs
<1>11. /\ \A p \in Objects : p # Top.aggr[k].aggr_inst => objs[p] = obj[p]
       /\ \A p \in Objects : objs[p].refs = obj[p].refs
  BY <1>2, <1>7, <1>9, <1>10
<1>12. QED
  BY <1>1, <1>2, <1>3, <1>5, <1>10, <1>11, ConcludeStep

-----------------------------------------------------------------------------
(* The invariant and the properties.                                       *)

LEMMA InitIInv == AggrInit => IInv
<1> SUFFICES ASSUME AggrInit
             PROVE  IInv
  OBVIOUS
<1>1. queries = <<>> /\ obj = [o \in Objects |-> NoObj] /\ Depth = 0 /\ 1..Depth = {}
  BY DEF AggrInit, Depth
<1>2. Typed
  BY <1>1, RecordFacts, AggrAssumption DEF Typed
<1>3. \A o \in Objects : obj[o].refs = 0
  BY <1>1, RecordFacts
<1>4. Owned
  BY <1>1, <1>3 DEF Owned
<1>5. QED
  BY <1>1, <1>2, <1>4 DEF IInv

LEMMA NextIInv == IInv /\ [AggrNext]_aggrVars => IInv'
<1> SUFFICES ASSUME IInv, [AggrNext]_aggrVars
             PROVE  IInv'
  OBVIOUS
<1>1. CASE AggrNext
  BY <1>1, QueryStep, RowStep, GroupEndsStep, NextGroupStep, FailsStep, QueryEndsStep,
     StepDispatcherStep, FinalizeDispatcherStep, AbortSkipsStep, NewReturnsStep, NewDiesStep,
     StepReturnsStep, StepDiesStep, FinalizeReturnsStep, FinalizeDiesStep DEF AggrNext
<1>2. CASE UNCHANGED aggrVars
  <2>1. Depth' = Depth /\ queries' = queries /\ obj' = obj
    BY <1>2 DEF aggrVars, Depth
  <2>2. QED
    BY <2>1 DEF IInv, Typed, Owned, Inst
<1>3. QED
  BY <1>1, <1>2

LEMMA AlwaysIInv == AggrSpec => []IInv
  BY InitIInv, NextIInv, PTL DEF AggrSpec

(* The state of the queries and the objects is of its type.                *)
THEOREM TypeCorrect == AggrSpec => []TypeOK
<1>1. IInv => TypeOK
  BY DEF IInv, Typed, TypeOK, QueryType, Aggr, ObjType
<1>2. QED
  BY <1>1, AlwaysIInv, PTL

(* Every object new() returned is held by exactly one group of one running *)
(* query as long as the driver refers to it, however methods die, queries  *)
(* fail, and methods run queries of their own.                             *)
THEOREM ReleasedOnce == AggrSpec => []ObjectsAreReleased
<1>1. IInv => ObjectsAreReleased
  <2> SUFFICES ASSUME IInv, NEW o \in Objects
               PROVE  obj[o].refs = Cardinality(Holders(o)) /\ obj[o].refs <= 1
    BY DEF ObjectsAreReleased
  <2>1. obj[o].refs \in {0, 1}
    BY DEF IInv, Typed, ObjType
  <2>2. \A h : h \in Holders(o) <=>
          \E d \in 1..Depth, c \in Cols : h = <<d, c>> /\ Inst(d, c) = o
    BY DEF Holders, Inst
  <2>3. CASE obj[o].refs = 0
    <3>1. o # NULL
      BY NullFacts
    <3>2. Holders(o) = {}
      BY <2>2, <2>3, <3>1 DEF IInv, Owned
    <3>3. QED
      BY <2>3, <3>2, FS_EmptySet
  <2>4. CASE obj[o].refs = 1
    <3>1. PICK d \in 1..Depth, c \in Cols : Inst(d, c) = o
      BY <2>4 DEF IInv, Owned
    <3>2. \A e \in 1..Depth, k \in Cols : Inst(e, k) = o => e = d /\ k = c
      BY <3>1, NullFacts DEF IInv, Owned
    <3>3. Holders(o) = {<<d, c>>}
      BY <2>2, <3>1, <3>2
    <3>4. Cardinality({<<d, c>>}) = 1
      BY FS_Singleton
    <3>5. QED
      BY <2>4, <3>3, <3>4
  <2>5. QED
    BY <2>1, <2>3, <2>4
<1>2. QED
  BY <1>1, AlwaysIInv, PTL

(* step() and finalize() are called on an object that is alive, on which   *)
(* no call died and finalize() was not called.                             *)
THEOREM CalledInOrderHolds == AggrSpec => []CalledInOrder
<1>1. IInv => CalledInOrder
  <2> SUFFICES ASSUME IInv, NEW d \in 1..Depth, queries[d].method \in {"step", "finalize"}
               PROVE  LET o == queries[d].aggr[queries[d].col].aggr_inst IN
                      o # NULL /\ obj[o].refs = 1 /\ ~obj[o].died /\ ~obj[o].done
    BY DEF CalledInOrder
  <2> DEFINE q == queries[d]
             k == q.col
  <2>1. q \in QueryType /\ k \in Cols
    <3>1. q \in QueryType
      BY DEF IInv, Typed, Depth
    <3>2. QED
      BY <3>1, RecordFacts
  <2>2. Running(q) /\ Column(q, k, obj)
    BY <2>1 DEF IInv
  <2>3. q.aggr[k].inited /\ ~q.aggr[k].err
    BY <2>2 DEF Running
  <2>4. q.aggr[k].aggr_inst # NULL
    BY <2>2, <2>3 DEF Column, Context
  <2>5. obj[q.aggr[k].aggr_inst].refs = 1
    BY <2>1, <2>4 DEF IInv, Owned, Inst
  <2>6. QED
    BY <2>2, <2>3, <2>4, <2>5 DEF Column
<1>2. QED
  BY <1>1, AlwaysIInv, PTL

(* The result of a group is finalize()'s answer about all rows of the      *)
(* group and no others, and NULL if and only if a method died for it.      *)
THEOREM ResultIsRight == AggrSpec => []ResultIsOfTheGroup
<1>1. IInv => ResultIsOfTheGroup
  <2> SUFFICES ASSUME IInv, NEW d \in 1..Depth, NEW c \in Cols, queries[d].at = "out"
               PROVE  /\ queries[d].mishap[c] <=> queries[d].result[c] = NULL
                      /\ ~queries[d].mishap[c] => queries[d].result[c] = queries[d].rows
    BY DEF ResultIsOfTheGroup
  <2>1. Column(queries[d], c, obj)
    BY DEF IInv
  <2>2. QED
    BY <2>1 DEF Column, Answered
<1>2. QED
  BY <1>1, AlwaysIInv, PTL
=============================================================================
