-------------------------- MODULE VirtualTablesProofs --------------------------
(***************************************************************************)
(* Proofs about virtual tables, for all tables, statements and instances:  *)
(* every reference is counted, every object hears the end of each          *)
(* transaction it is in, nobody is told COMMIT before all have synced, and *)
(* every object sees its methods in the order of VtabObject.               *)
(*                                                                         *)
(* The argument: Good says of one instance that its counters are those of  *)
(* the references and cursors there are, and that its phase agrees with    *)
(* both.  UnlockedOnce shows that sqlite3VtabUnlock takes a Good instance  *)
(* to a Good one and disconnects none that is still in a transaction;      *)
(* every operation then is a change of references, of one instance, or     *)
(* both.                                                                   *)
(*                                                                         *)
(* The second part is about the bundled table over a Perl array, for all   *)
(* rows and cursors and arrays of any length: a scan returns each row that *)
(* stays, and once.  No change moves a row to another index (Follows), so  *)
(* what a scan has still to return lies behind its position, and what it   *)
(* has returned does not (InScan).                                         *)
(*                                                                         *)
(* The third is about the tokenizer of FTS3, for strings of any length and *)
(* tokens in any order: FTS3 gets the bytes of the characters Perl meant.  *)
(* Rank numbers the places of a string; a hop of n characters, either way, *)
(* is the one solution of its recursion (HopForward, HopBack), and so at   *)
(* the place whose number is n away.                                       *)
(*                                                                         *)
(* The fourth is about bind values and results, for strings of any length  *)
(* and integers of any width: what arrives as an integer is the one that   *)
(* is spelled, and all that fit arrive.  First solves the recursion over   *)
(* the digits; numbers then compare digit by digit (Smaller, Shorter), and *)
(* so Compare tells the side of the border (CompareIs), _sqlite_atoi64     *)
(* what the string says (AtoiIsExact).                                     *)
(***************************************************************************)
EXTENDS VirtualTables, PerlData, Tokenizer, NumberParsing,
        FiniteSetTheorems, WellFoundedInduction, TLAPS

(* Counted as one reference, or none.                                      *)
One(i, S) == IF i \in S THEN 1 ELSE 0

-----------------------------------------------------------------------------
(* The invariant.                                                          *)

(* The references to an instance.                                          *)
Refs(i) == One(i, Linked) + One(i, pDisconnect) + One(i, Pending)
           + Cardinality(Users(i))

(* The cursors that statements hold open on it.                            *)
Readers(i) == {s \in Stmts : stmt[s].run = "open" /\ stmt[s].inst = i}

(* Instance i is as it should be if refs references to it exist, if cur    *)
(* cursors are open on it, and if those in pend have to hear of the end of *)
(* a transaction.                                                          *)
Good(i, v, refs, pend, cur) ==
  /\ v \in Instance
  /\ v.nRef = refs
  /\ v.cursors = cur
  /\ v.phase # "broken"
  /\ v.obj <=> v.phase \in {"idle", "enlisted", "synced"}
  /\ v.obj => refs > 0
  /\ v.phase = "none" => refs = 0
  /\ v.dirty => v.phase \in {"enlisted", "synced"}
  /\ v.phase \in {"enlisted", "synced"} <=> i \in pend /\ v.obj

Held == \A i \in Insts : Good(i, vtab[i], Refs(i), Pending, Cardinality(Readers(i)))

Living(m) == {i \in Insts : vtab[i].nRef > 0 /\ vtab[i].mod = m}

ModulesCounted ==
  \A m \in Modules : nRefModule[m] = One(m, {aModule}) + Cardinality(Living(m))

(* The tables of the connection have instances of their own, with objects, *)
(* none of which waits in pDisconnect.                                     *)
TablesApart ==
  /\ \A t, u \in Tables : link[t] = link[u] /\ link[t] # NULL => t = u
  /\ \A t \in Tables : link[t] # NULL => t \in schema.tab /\ vtab[link[t]].obj
  /\ \A i \in pDisconnect : i \notin Linked

EachOnce == \A j, k \in DOMAIN aVTrans : aVTrans[j] = aVTrans[k] => j = k

(* Where a commit or rollback is, and who has synced.                      *)
CommitInOrder ==
  /\ com.op = "none" => com.method = "none"
  /\ com.op = "sync" => com.method = "SYNC"
  /\ com.op = "finish" => com.method \in {"COMMIT", "ROLLBACK"}
  /\ com.op # "none" => com.i \in 1..Len(aVTrans)+1
  /\ com.op = "sync" =>
       \A k \in 1..com.i-1 : vtab[aVTrans[k]].obj => vtab[aVTrans[k]].phase = "synced"

StatementsAgree ==
  \A s \in Stmts :
    /\ ~stmt[s].exists => stmt[s].run = "idle" /\ ~stmt[s].writes
    /\ stmt[s].exists => stmt[s].tab \in Tables /\ stmt[s].inst \in Insts
    /\ open = "open" /\ stmt[s].exists /\ ~stmt[s].expired => link[stmt[s].tab] = stmt[s].inst
    /\ stmt[s].writes /\ stmt[s].run # "idle" =>
         ~InSync /\ open = "open" /\ stmt[s].inst \in Range(aVTrans)

ClosedDown ==
  /\ open # "open" => /\ pDisconnect = {} /\ Linked = {}
                      /\ com.op # "sync"
                      /\ com.op = "none" => aVTrans = <<>>
  /\ open = "closed" => /\ com.op = "none" /\ aModule = NULL
                        /\ \A s \in Stmts : ~stmt[s].exists

IInv ==
  /\ TypeOK
  /\ Held
  /\ ModulesCounted
  /\ TablesApart
  /\ EachOnce
  /\ CommitInOrder
  /\ AllSyncedFirst
  /\ StatementsAgree
  /\ ClosedDown

-----------------------------------------------------------------------------
(* What an operation may do to an instance.                                *)

(* Nothing that its object hears of, or DISCONNECT.                        *)
Unheard(v, u) ==
  /\ u.dirty = v.dirty /\ u.cursors = v.cursors
  /\ \/ u.phase = v.phase
     \/ v.phase = "idle" /\ v.cursors = 0 /\ u.phase = "ended"

(* What its object hears is a step of VtabObject.                          *)
Told(v, u) ==
  \/ Unheard(v, u)
  \/ /\ v.phase = "none" /\ u.phase \in {"enlisted", "idle"}
     /\ u.dirty = v.dirty /\ u.cursors = v.cursors
  \/ /\ v.phase = "idle" /\ u.phase = "enlisted"
     /\ u.dirty = v.dirty /\ u.cursors = v.cursors
  \/ /\ v.phase \in {"enlisted", "synced"} /\ u.phase = "enlisted"
     /\ u.dirty = TRUE /\ u.cursors = v.cursors
  \/ /\ v.phase \notin {"none", "ended"} /\ u.cursors = v.cursors + 1
     /\ u.phase = v.phase /\ u.dirty = v.dirty
  \/ /\ v.cursors > 0 /\ u.cursors = v.cursors - 1
     /\ u.phase = v.phase /\ u.dirty = v.dirty
  \/ /\ v.phase \in {"enlisted", "synced"} /\ u.phase = "synced"
     /\ u.dirty = v.dirty /\ u.cursors = v.cursors
  \/ /\ v.phase \in {"enlisted", "synced"} /\ u.dirty = FALSE /\ u.cursors = v.cursors
     /\ u.phase = "idle" \/ (u.phase = "ended" /\ v.cursors = 0)
  \/ /\ v.phase \notin {"none", "ended"} /\ v.cursors = 0
     /\ u.phase = "ended" /\ u.dirty = FALSE /\ u.cursors = v.cursors

(* An unlocking.                                                           *)
Quiet(v, u) ==
  /\ u.mod = v.mod
  /\ u.nRef > 0 => v.nRef > 0 /\ (v.obj => u.obj)
  /\ u.obj => v.obj /\ u.phase = v.phase
  /\ Unheard(v, u)

LEMMA EndedFields ==
  ASSUME NEW v \in Instance, NEW k \in Nat
  PROVE  LET w == [v EXCEPT !.nRef = k]
             e == Ended(w)
         IN
         /\ w \in Instance /\ w.nRef = k /\ w.obj = v.obj
         /\ w.mod = v.mod /\ w.cursors = v.cursors /\ w.phase = v.phase /\ w.dirty = v.dirty
         /\ e.nRef = 0 /\ e.obj = FALSE /\ e.mod = v.mod /\ e.cursors = v.cursors
         /\ e.dirty = FALSE /\ e.phase = IF v.phase = "idle" THEN "ended" ELSE "broken"
         /\ e \in Instance
BY DEF Instance, Ended, Phases

(* sqlite3VtabUnlock: an instance that loses its last reference is in no   *)
(* transaction and has no cursor, and is disconnected in good order.       *)
LEMMA UnlockedOnce ==
  ASSUME NEW vt, NEW S, NEW i \in Insts, NEW r \in Nat, NEW pend, NEW cur \in Nat,
         Good(i, vt[i], r, pend, cur),
         i \in S => r > 0,
         i \in S /\ (i \in pend \/ cur > 0) => r > 1
  PROVE  LET u == Unlock(vt, Once(S))[i] IN
         /\ Good(i, u, r - One(i, S), pend, cur)
         /\ Quiet(vt[i], u)
<1> DEFINE v == vt[i]
           u == Unlock(vt, Once(S))[i]
<1>1. CASE i \notin S
  <2>1. u = v
    BY <1>1 DEF Unlock, Once, Good, Instance
  <2> QED
    BY <2>1, <1>1 DEF One, Quiet, Unheard, Good
<1>2. CASE i \in S
  <2> DEFINE k == r - 1
             w == [v EXCEPT !.nRef = k]
  <2>1. k \in Nat /\ v \in Instance /\ v.nRef = r
    BY <1>2 DEF Good
  <2>2. u = IF w.nRef = 0 /\ w.obj THEN Ended(w) ELSE w
    BY <2>1, <1>2 DEF Unlock, Once, Instance
  <2>3. /\ w \in Instance /\ w.nRef = k /\ w.obj = v.obj
        /\ w.mod = v.mod /\ w.cursors = v.cursors /\ w.phase = v.phase /\ w.dirty = v.dirty
    BY <2>1, EndedFields, ZenonT(30)
  <2>4. LET e == Ended(w) IN
         /\ e.nRef = 0 /\ e.obj = FALSE /\ e.mod = v.mod /\ e.cursors = v.cursors
         /\ e.dirty = FALSE /\ e.phase = IF v.phase = "idle" THEN "ended" ELSE "broken"
         /\ e \in Instance
    BY <2>1, EndedFields, ZenonT(30)
  <2> HIDE DEF w, u
  <2>5. Good(i, u, k, pend, cur) /\ Quiet(v, u)
    <3>1. CASE k = 0 /\ v.obj
      <4>1. u = Ended(w)
        BY <2>2, <2>3, <3>1
      <4>2. v.phase = "idle" /\ v.dirty = FALSE /\ v.cursors = 0 /\ cur = 0 /\ i \notin pend
        BY <1>2, <2>1, <3>1 DEF Good, Instance
      <4>3. /\ u \in Instance /\ u.nRef = 0 /\ u.mod = v.mod /\ u.cursors = v.cursors
            /\ u.phase = "ended" /\ ~u.obj /\ ~u.dirty /\ u.dirty = v.dirty
        BY <4>1, <4>2, <2>4
      <4>4. Good(i, u, k, pend, cur)
        BY <4>2, <4>3, <3>1 DEF Good
      <4>5. Quiet(v, u)
        BY <4>2, <4>3 DEF Quiet, Unheard
      <4> QED
        BY <4>4, <4>5
    <3>2. CASE ~(k = 0 /\ v.obj)
      <4>1. u = w
        BY <2>2, <2>3, <3>2
      <4>2. v.phase = "none" => k = 0
        BY <1>2 DEF Good
      <4> QED
        <5>1. Good(i, u, k, pend, cur)
          BY <4>1, <4>2, <2>1, <2>3, <3>2, <1>2 DEF Good
        <5>2. Quiet(v, u)
          BY <4>1, <2>1, <2>3, <3>2 DEF Quiet, Unheard
        <5> QED
          BY <5>1, <5>2
    <3> QED
      BY <3>1, <3>2
  <2> QED
    BY <2>5, <1>2 DEF u, One
<1> QED
  BY <1>1, <1>2

-----------------------------------------------------------------------------
(* References.                                                             *)

LEMMA OneOrNone ==
  ASSUME NEW i, NEW S
  PROVE  One(i, S) \in {0, 1} /\ (One(i, S) = 0 <=> i \notin S)
BY DEF One

LEMMA InstsFinite == IsFiniteSet(Insts)
BY VtabAssumption, FS_Interval DEF Insts

(* The Perl program prepares finitely many statements.                     *)
LEMMA SubsetCounts ==
  ASSUME NEW U \in SUBSET Stmts
  PROVE  /\ IsFiniteSet(U) /\ Cardinality(U) \in Nat
         /\ Cardinality(U) = 0 <=> U = {}
<1>1. IsFiniteSet(U)
  BY VtabAssumption, FS_Subset
<1> QED
  BY <1>1, FS_CardinalityType, FS_EmptySet

(* What is known of an instance before each step.                          *)
LEMMA InstanceFacts ==
  ASSUME IInv, NEW i \in Insts
  PROVE  /\ vtab[i] \in Instance /\ vtab[i].nRef = Refs(i)
         /\ Good(i, vtab[i], Refs(i), Pending, Cardinality(Readers(i)))
         /\ Cardinality(Users(i)) \in Nat /\ Cardinality(Readers(i)) \in Nat
         /\ Refs(i) \in Nat
         /\ Cardinality(Readers(i)) > 0 => Cardinality(Users(i)) > 0
         /\ Refs(i) = 0 => /\ i \notin Linked /\ i \notin pDisconnect /\ i \notin Pending
                           /\ Users(i) = {} /\ Readers(i) = {}
<1>1. Users(i) \in SUBSET Stmts /\ Readers(i) \in SUBSET Stmts
  BY DEF Users, Readers
<1>2. Readers(i) \subseteq Users(i)
  BY DEF Users, Readers, IInv, StatementsAgree
<1>3. /\ Cardinality(Users(i)) \in Nat /\ Cardinality(Readers(i)) \in Nat
      /\ Cardinality(Users(i)) = 0 <=> Users(i) = {}
      /\ Cardinality(Readers(i)) = 0 <=> Readers(i) = {}
  BY <1>1, SubsetCounts
<1>4. Good(i, vtab[i], Refs(i), Pending, Cardinality(Readers(i)))
  BY DEF IInv, Held
<1>5. Refs(i) \in Nat /\ (Refs(i) = 0 => /\ i \notin Linked /\ i \notin pDisconnect
                                         /\ i \notin Pending /\ Cardinality(Users(i)) = 0)
  BY <1>3, OneOrNone DEF Refs
<1> QED
  BY <1>2, <1>3, <1>4, <1>5 DEF Good

(* sqlite3VtabModuleUnref for every instance that is freed.                *)
LEMMA ModulesFollow ==
  ASSUME IInv, NEW vt, NEW m \in Modules,
         \A i \in Insts : /\ vt[i].mod = vtab[i].mod
                          /\ vt[i].nRef \in Nat
                          /\ vt[i].nRef > 0 => vtab[i].nRef > 0
  PROVE  Unref(vt, nRefModule)[m]
           = One(m, {aModule}) + Cardinality({i \in Insts : vt[i].nRef > 0 /\ vt[i].mod = m})
<1> DEFINE L == Living(m)
           F == {i \in Insts : vtab[i].mod = m /\ vtab[i].nRef > 0 /\ vt[i].nRef = 0}
           K == {i \in Insts : vt[i].nRef > 0 /\ vt[i].mod = m}
<1>1. IsFiniteSet(L)
  <2>1. IsFiniteSet(Insts)
    BY InstsFinite
  <2> QED
    BY <2>1, FS_Subset DEF Living
<1>2. K = L \ F /\ L \cap F = F
  BY DEF Living
<1>3. /\ Cardinality(K) = Cardinality(L) - Cardinality(F)
      /\ Cardinality(L) \in Nat /\ Cardinality(F) \in Nat
  <2> HIDE DEF L, F, K
  <2>1. /\ IsFiniteSet(F) /\ IsFiniteSet(L \ F)
        /\ Cardinality(L \ F) = Cardinality(L) - Cardinality(L \cap F)
    BY <1>1, <1>2, FS_Difference, FS_Intersection
  <2> QED
    BY <1>1, <1>2, <2>1, FS_CardinalityType
<1>4. nRefModule[m] = One(m, {aModule}) + Cardinality(L)
  BY DEF IInv, ModulesCounted
<1>5. Unref(vt, nRefModule)[m] = nRefModule[m] - Cardinality(F)
  BY DEF Unref
<1> HIDE DEF L, F, K
<1>6. Unref(vt, nRefModule)[m] = One(m, {aModule}) + Cardinality(K)
  BY <1>3, <1>4, <1>5 DEF One
<1> QED
  BY <1>6 DEF K

LEMMA Settled ==
  ASSUME IInv, NEW vt, Settle(vt, nRefModule), aModule' = aModule,
         \A i \in Insts : /\ vt[i].mod = vtab[i].mod
                          /\ vt[i].nRef \in Nat
                          /\ vt[i].nRef > 0 => vtab[i].nRef > 0
  PROVE  vtab' = vt /\ nRefModule' \in [Modules -> Nat] /\ ModulesCounted'
<1>1. vtab' = vt /\ nRefModule' = Unref(vt, nRefModule)
  BY DEF Settle
<1>2. \A m \in Modules : /\ IsFiniteSet({i \in Insts : vt[i].nRef > 0 /\ vt[i].mod = m})
                         /\ Cardinality({i \in Insts : vt[i].nRef > 0 /\ vt[i].mod = m}) \in Nat
  <2>1. IsFiniteSet(Insts)
    BY VtabAssumption, FS_Interval DEF Insts
  <2>2. \A m \in Modules : IsFiniteSet({i \in Insts : vt[i].nRef > 0 /\ vt[i].mod = m})
    BY <2>1, FS_Subset
  <2> QED
    BY <2>2, FS_CardinalityType
<1>3. \A m \in Modules :
        nRefModule'[m] = One(m, {aModule})
                         + Cardinality({i \in Insts : vt[i].nRef > 0 /\ vt[i].mod = m})
  BY <1>1, ModulesFollow
<1>4. \A m \in Modules : nRefModule'[m] \in Nat
  <2> DEFINE C(m) == Cardinality({i \in Insts : vt[i].nRef > 0 /\ vt[i].mod = m})
  <2> TAKE m \in Modules
  <2>1. One(m, {aModule}) \in {0, 1}
    BY OneOrNone
  <2>2. C(m) \in Nat /\ nRefModule'[m] = One(m, {aModule}) + C(m)
    BY <1>2, <1>3
  <2> HIDE DEF C
  <2> QED
    BY <2>1, <2>2
<1>5. nRefModule' \in [Modules -> Nat]
  BY <1>1, <1>4 DEF Unref
<1>6. ModulesCounted'
  BY <1>1, <1>3 DEF ModulesCounted, Living
<1> QED
  BY <1>1, <1>5, <1>6

-----------------------------------------------------------------------------
(* The transaction and its end.                                            *)

PendingOf(a, c) == {a[k] : k \in IF c.op = "finish" THEN c.i..Len(a) ELSE DOMAIN a}

LEMMA PendingIs == Pending = PendingOf(aVTrans, com)
BY DEF Pending, PendingOf

LEMMA AllPending ==
  ASSUME NEW a \in Seq(Insts), NEW c, c.op # "finish" \/ c.i = 1
  PROVE  PendingOf(a, c) = Range(a)
<1>1. DOMAIN a = 1..Len(a)
  OBVIOUS
<1> QED
  BY <1>1 DEF PendingOf, Range

LEMMA NonePending ==
  ASSUME NEW a \in Seq(Insts), NEW c, c.op = "finish", c.i \in Nat, c.i > Len(a)
  PROVE  PendingOf(a, c) = {}
BY DEF PendingOf

(* The turn of one instance in callFinaliser.                              *)
LEMMA TurnOf ==
  ASSUME NEW a \in Seq(Insts), NEW c, NEW d,
         \A j, k \in DOMAIN a : a[j] = a[k] => j = k,
         c.op = "finish", c.i \in 1..Len(a), d.op = "finish", d.i = c.i + 1
  PROVE  /\ a[c.i] \in Insts /\ a[c.i] \in PendingOf(a, c)
         /\ PendingOf(a, d) = PendingOf(a, c) \ {a[c.i]}
<1> DEFINE n == c.i
<1>1. /\ DOMAIN a = 1..Len(a) /\ n \in DOMAIN a /\ Len(a) \in Nat
      /\ d.i = n + 1 /\ n \in Nat
  OBVIOUS
<1>2. /\ PendingOf(a, c) = {a[k] : k \in n..Len(a)}
      /\ PendingOf(a, d) = {a[k] : k \in (n+1)..Len(a)}
  BY <1>1 DEF PendingOf
<1> HIDE DEF n
<1>3. \A k \in n..Len(a) : k \in DOMAIN a /\ (k = n \/ k \in (n+1)..Len(a))
  BY <1>1
<1>4. \A k \in (n+1)..Len(a) : k \in n..Len(a) /\ k \in DOMAIN a /\ a[k] # a[n]
  BY <1>1
<1>5. n \in n..Len(a)
  BY <1>1
<1>6. PendingOf(a, d) = PendingOf(a, c) \ {a[n]}
  BY <1>2, <1>3, <1>4
<1>7. a[n] \in PendingOf(a, c) /\ a[n] \in Insts
  BY <1>1, <1>2, <1>5
<1> QED
  BY <1>6, <1>7 DEF n

LEMMA Enlisted ==
  ASSUME NEW a \in Seq(Insts), NEW p \in Insts, p \notin Range(a),
         \A j, k \in DOMAIN a : a[j] = a[k] => j = k
  PROVE  /\ Append(a, p) \in Seq(Insts)
         /\ Range(Append(a, p)) = Range(a) \cup {p}
         /\ \A j, k \in DOMAIN Append(a, p) : Append(a, p)[j] = Append(a, p)[k] => j = k
         /\ Append(a, p) # <<>>
<1> DEFINE b == Append(a, p)
           n == Len(a)
<1>1. /\ b \in Seq(Insts) /\ Len(b) = n + 1 /\ n \in Nat
      /\ DOMAIN a = 1..n /\ DOMAIN b = 1..(n+1)
      /\ \A k \in 1..n : b[k] = a[k]
      /\ b[n+1] = p
  OBVIOUS
<1> HIDE DEF b, n
<1>2. \A k \in 1..(n+1) : k \in 1..n \/ k = n+1
  BY <1>1
<1>3. \A k \in 1..n : k \in 1..(n+1) /\ k # n+1 /\ a[k] \in Range(a)
  BY <1>1 DEF Range
<1>4. Range(b) = Range(a) \cup {p}
  <2>1. \A x \in Range(b) : x \in Range(a) \cup {p}
    BY <1>1, <1>2, <1>3 DEF Range
  <2>2. n+1 \in 1..(n+1)
    BY <1>1
  <2>3. \A x \in Range(a) \cup {p} : x \in Range(b)
    BY <1>1, <1>3, <2>2 DEF Range
  <2> QED
    BY <2>1, <2>3
<1>5. \A j, k \in DOMAIN b : b[j] = b[k] => j = k
  BY <1>1, <1>2, <1>3
<1>6. b # <<>>
  BY <1>1
<1> QED
  BY <1>1, <1>4, <1>5, <1>6 DEF b

(* Nothing happens to the commit in progress.                              *)
LEMMA SameCommit ==
  ASSUME IInv, UNCHANGED <<com, aVTrans>>,
         \A i \in Insts :
           i \in Pending /\ vtab'[i].obj => vtab[i].obj /\ vtab'[i].phase = vtab[i].phase
  PROVE  EachOnce' /\ CommitInOrder' /\ AllSyncedFirst' /\ Pending' = Pending
<1>1. Pending' = Pending
  BY DEF Pending
<1>2. EachOnce'
  BY DEF IInv, EachOnce
<1>3. aVTrans \in Seq(Insts) /\ com.i \in Nat
  BY DEF IInv, TypeOK
<1>4. Pending \subseteq Insts
  <2>1. com.op = "finish" => com.i \in 1..Len(aVTrans)+1
    BY DEF IInv, CommitInOrder
  <2>2. \A k \in IF com.op = "finish" THEN com.i..Len(aVTrans) ELSE DOMAIN aVTrans :
          aVTrans[k] \in Insts
    BY <1>3, <2>1
  <2> QED
    BY <2>2 DEF Pending
<1>5. AllSyncedFirst'
  BY <1>1, <1>4 DEF IInv, AllSyncedFirst
<1>6. com.op = "sync" => \A k \in 1..com.i-1 : aVTrans[k] \in Pending
  <2>1. com.op = "sync" => com.i \in 1..Len(aVTrans)+1
    BY DEF IInv, CommitInOrder
  <2>2. com.op = "sync" => \A k \in 1..com.i-1 : k \in DOMAIN aVTrans
    BY <1>3, <2>1
  <2> QED
    BY <2>2 DEF Pending
<1>7. CommitInOrder'
  BY <1>4, <1>6 DEF IInv, CommitInOrder
<1> QED
  BY <1>1, <1>2, <1>5, <1>7
-----------------------------------------------------------------------------
(* The schema and the statements.                                          *)

SchemaType == [tab : SUBSET Tables, file : SUBSET Tables, disk : SUBSET Tables,
               saved : SUBSET Tables, change : BOOLEAN, stale : BOOLEAN]

LEMMA SchemaForms ==
  ASSUME NEW c \in SchemaType, NEW t \in Tables
  PROVE  /\ LET d == [c EXCEPT !.disk = c.file, !.change = FALSE] IN
              d \in SchemaType /\ d.tab = c.tab
         /\ LET d == [c EXCEPT !.tab = c.file, !.stale = FALSE] IN d \in SchemaType
         /\ LET d == [c EXCEPT !.file = c.disk, !.change = FALSE] IN d \in SchemaType
         /\ LET d == [c EXCEPT !.saved = c.file] IN d \in SchemaType /\ d.tab = c.tab
         /\ LET d == [c EXCEPT !.file = c.saved] IN d \in SchemaType /\ d.tab = c.tab
         /\ LET d == [c EXCEPT !.tab = @ \cup {t}, !.file = @ \cup {t}, !.change = TRUE] IN
              d \in SchemaType /\ d.tab = c.tab \cup {t}
         /\ LET d == [c EXCEPT !.tab = @ \ {t}, !.file = @ \ {t}, !.change = TRUE] IN
              d \in SchemaType /\ d.tab = c.tab \ {t}
         /\ LET d == [c EXCEPT !.change = TRUE] IN d \in SchemaType /\ d.tab = c.tab
         /\ LET d == [c EXCEPT !.change = TRUE, !.stale = TRUE] IN
              d \in SchemaType /\ d.tab = c.tab
         /\ LET d == [c EXCEPT !.stale = TRUE] IN d \in SchemaType /\ d.tab = c.tab
BY DEF SchemaType

(* Statements that differ in nothing but whether they have expired.        *)
SameStatements ==
  /\ stmt' \in [Stmts -> Statement]
  /\ \A s \in Stmts :
       /\ stmt'[s].exists <=> stmt[s].exists
       /\ stmt'[s].writes <=> stmt[s].writes
       /\ stmt'[s].tab = stmt[s].tab /\ stmt'[s].inst = stmt[s].inst
       /\ stmt'[s].run = stmt[s].run

LEMMA Expired ==
  ASSUME IInv, stmt' = Expire(stmt)
  PROVE  /\ SameStatements
         /\ \A s \in Stmts : stmt'[s].exists => stmt'[s].expired
<1>1. \A q \in Statement :
        LET e == IF q.exists THEN [q EXCEPT !.expired = TRUE] ELSE q IN
        /\ e \in Statement /\ (e.exists <=> q.exists) /\ (e.writes <=> q.writes)
        /\ e.tab = q.tab /\ e.inst = q.inst /\ e.run = q.run
        /\ e.exists => e.expired
  BY DEF Statement
<1>2. stmt \in [Stmts -> Statement]
  BY DEF IInv, TypeOK
<1>3. \A s \in Stmts : stmt'[s] = IF stmt[s].exists THEN [stmt[s] EXCEPT !.expired = TRUE]
                                                    ELSE stmt[s]
  BY DEF Expire
<1>4. stmt' \in [Stmts -> Statement]
  BY <1>1, <1>2, <1>3 DEF Expire
<1>5. ASSUME NEW s \in Stmts
      PROVE  /\ stmt'[s].exists <=> stmt[s].exists
             /\ stmt'[s].writes <=> stmt[s].writes
             /\ stmt'[s].tab = stmt[s].tab /\ stmt'[s].inst = stmt[s].inst
             /\ stmt'[s].run = stmt[s].run
             /\ stmt'[s].exists => stmt'[s].expired
  <2> DEFINE q == stmt[s]
             e == IF q.exists THEN [q EXCEPT !.expired = TRUE] ELSE q
  <2>1. q \in Statement /\ stmt'[s] = e
    BY <1>2, <1>3
  <2>2. /\ e.exists <=> q.exists
        /\ e.writes <=> q.writes
        /\ e.tab = q.tab /\ e.inst = q.inst /\ e.run = q.run
        /\ e.exists => e.expired
    BY <1>1, <2>1
  <2> HIDE DEF e
  <2> QED
    BY <2>1, <2>2
<1> QED
  BY <1>4, <1>5 DEF SameStatements

LEMMA Unchanged ==
  ASSUME IInv, UNCHANGED stmt
  PROVE  SameStatements
BY DEF IInv, TypeOK, SameStatements

LEMMA SameUsers ==
  ASSUME SameStatements, NEW i
  PROVE  Users(i)' = Users(i) /\ Readers(i)' = Readers(i)
BY DEF SameStatements, Users, Readers

(* Writers stay what they are while no transaction ends, and none runs     *)
(* when one begins to end.                                                 *)
LEMMA SameWriters ==
  ASSUME IInv, SameStatements,
         \/ com' = com /\ open' = open
         \/ NoWriter,
         Range(aVTrans) \subseteq Range(aVTrans') \/ NoWriter,
         \A s \in Stmts : open' = "open" /\ stmt'[s].exists /\ ~stmt'[s].expired =>
           link'[stmt[s].tab] = stmt[s].inst
  PROVE  StatementsAgree'
<1> SUFFICES ASSUME NEW s \in Stmts
             PROVE  /\ ~stmt'[s].exists => stmt'[s].run = "idle" /\ ~stmt'[s].writes
                    /\ stmt'[s].exists => stmt'[s].tab \in Tables /\ stmt'[s].inst \in Insts
                    /\ open' = "open" /\ stmt'[s].exists /\ ~stmt'[s].expired
                         => link'[stmt'[s].tab] = stmt'[s].inst
                    /\ stmt'[s].writes /\ stmt'[s].run # "idle" =>
                         ~InSync' /\ open' = "open" /\ stmt'[s].inst \in Range(aVTrans)'
  BY DEF StatementsAgree
<1>1. /\ ~stmt'[s].exists => stmt'[s].run = "idle" /\ ~stmt'[s].writes
      /\ stmt'[s].exists => stmt'[s].tab \in Tables /\ stmt'[s].inst \in Insts
  BY DEF IInv, StatementsAgree, SameStatements
<1>2. open' = "open" /\ stmt'[s].exists /\ ~stmt'[s].expired
        => link'[stmt'[s].tab] = stmt'[s].inst
  BY DEF SameStatements
<1>3. stmt'[s].writes /\ stmt'[s].run # "idle" =>
        ~InSync' /\ open' = "open" /\ stmt'[s].inst \in Range(aVTrans)'
  <2>1. stmt'[s].writes /\ stmt'[s].run # "idle" => ~NoWriter
    BY DEF NoWriter, SameStatements
  <2>2. stmt'[s].writes /\ stmt'[s].run # "idle" =>
          ~InSync /\ open = "open" /\ stmt'[s].inst \in Range(aVTrans)
    BY DEF IInv, StatementsAgree, SameStatements
  <2>3. Range(aVTrans)' = Range(aVTrans')
    OBVIOUS
  <2> QED
    BY <2>1, <2>2, <2>3 DEF InSync
<1> QED
  BY <1>1, <1>2, <1>3

-----------------------------------------------------------------------------
(* Unlocking what the tables and pDisconnect refer to.                     *)

LEMMA Unlocked ==
  ASSUME IInv, NEW vt, NEW S \in SUBSET (Linked \cup pDisconnect),
         \A i \in Insts : /\ Good(i, vt[i], Refs(i), Pending, Cardinality(Readers(i)))
                          /\ vt[i].mod = vtab[i].mod,
         NEW un, un = Unlock(vt, Once(S))
  PROVE  /\ un \in [Insts -> Instance]
         /\ \A i \in Insts :
              /\ Good(i, un[i], Refs(i) - One(i, S), Pending, Cardinality(Readers(i)))
              /\ Quiet(vt[i], un[i])
              /\ un[i].mod = vtab[i].mod /\ un[i].nRef \in Nat
              /\ un[i].nRef > 0 => vtab[i].nRef > 0
<1>1. ASSUME NEW i \in Insts
      PROVE  /\ Good(i, un[i], Refs(i) - One(i, S), Pending, Cardinality(Readers(i)))
             /\ Quiet(vt[i], un[i])
  <2>1. /\ Refs(i) \in Nat /\ Cardinality(Readers(i)) \in Nat /\ Cardinality(Users(i)) \in Nat
        /\ Cardinality(Readers(i)) > 0 => Cardinality(Users(i)) > 0
    BY InstanceFacts
  <2>2. i \in S => Refs(i) > 0 /\ (i \in Pending \/ Cardinality(Readers(i)) > 0 => Refs(i) > 1)
    <3>1. /\ One(i, Linked) \in {0, 1} /\ (One(i, Linked) = 0 <=> i \notin Linked)
          /\ One(i, pDisconnect) \in {0, 1} /\ (One(i, pDisconnect) = 0 <=> i \notin pDisconnect)
          /\ One(i, Pending) \in {0, 1} /\ (One(i, Pending) = 0 <=> i \notin Pending)
      BY OneOrNone
    <3> QED
      BY <2>1, <3>1 DEF Refs
  <2> QED
    BY <2>1, <2>2, UnlockedOnce
<1>2. ASSUME NEW i \in Insts
      PROVE  /\ un[i] \in Instance
             /\ un[i].mod = vtab[i].mod /\ un[i].nRef \in Nat
             /\ un[i].nRef > 0 => vtab[i].nRef > 0
  <2>1. un[i] \in Instance /\ un[i].mod = vt[i].mod /\ (un[i].nRef > 0 => vt[i].nRef > 0)
    BY <1>1 DEF Good, Quiet
  <2>2. vt[i].nRef = vtab[i].nRef
    BY InstanceFacts DEF Good
  <2> QED
    BY <2>1, <2>2 DEF Instance
<1>3. un \in [Insts -> Instance]
  BY <1>2 DEF Unlock
<1> QED
  BY <1>1, <1>2, <1>3

(* sqlite3VtabUnlockList, before any SQL is compiled.                      *)
LEMMA UnlistedGood ==
  ASSUME IInv, NEW un, un = Unlisted
  PROVE  /\ un \in [Insts -> Instance]
         /\ \A i \in Insts :
              /\ Good(i, un[i], Refs(i) - One(i, pDisconnect), Pending, Cardinality(Readers(i)))
              /\ Quiet(vtab[i], un[i])
              /\ un[i].mod = vtab[i].mod /\ un[i].nRef \in Nat
              /\ un[i].nRef > 0 => vtab[i].nRef > 0
<1>1. \A i \in Insts : Good(i, vtab[i], Refs(i), Pending, Cardinality(Readers(i)))
  BY InstanceFacts
<1> QED
  BY <1>1, Unlocked DEF Unlisted

-----------------------------------------------------------------------------
(* Operations that touch no instance.                                      *)

AllTold == \A i \in Insts : Told(vtab[i], vtab'[i])

Kept == IInv' /\ AllTold

ComType == [op : {"none", "sync", "finish"}, method : {"none", "SYNC", "COMMIT", "ROLLBACK"},
            i : Nat]

LEMMA SameInstances ==
  ASSUME IInv, UNCHANGED <<vtab, nRefModule, aModule>>,
         Pending' = Pending,
         \A i \in Insts : Refs(i)' = Refs(i) /\ Readers(i)' = Readers(i)
  PROVE  Held' /\ ModulesCounted' /\ AllTold
<1>1. Held'
  BY DEF IInv, Held
<1>2. ModulesCounted'
  BY DEF IInv, ModulesCounted, Living
<1>3. AllTold
  BY DEF AllTold, Told, Unheard
<1> QED
  BY <1>1, <1>2, <1>3

LEMMA SameRefs ==
  ASSUME SameStatements, UNCHANGED <<link, pDisconnect>>, Pending' = Pending, NEW i
  PROVE  Refs(i)' = Refs(i) /\ Readers(i)' = Readers(i)
BY SameUsers DEF Refs, Linked, One

(* A commit or rollback begins.                                            *)
LEMMA EndBegins ==
  ASSUME IInv, ~InSync, aVTrans' \in Seq(Insts), EachOnce',
         StartSync \/ com' = Finalise("ROLLBACK")
  PROVE  /\ CommitInOrder' /\ AllSyncedFirst' /\ com' \in ComType
         /\ Pending' = Range(aVTrans') /\ Pending = Range(aVTrans)
<1>1. /\ com'.i = 1 /\ com' \in ComType
      /\ \/ com'.op = "sync" /\ com'.method = "SYNC"
         \/ com'.op = "finish" /\ com'.method = "ROLLBACK"
  BY DEF StartSync, Finalise, ComType
<1>2. Pending' = PendingOf(aVTrans', com') /\ Pending = PendingOf(aVTrans, com)
  BY DEF Pending, PendingOf
<1>3. Pending' = Range(aVTrans') /\ Pending = Range(aVTrans)
  BY <1>1, <1>2, AllPending DEF InSync, IInv, TypeOK
<1>4. CommitInOrder'
  BY <1>1 DEF CommitInOrder
<1>5. AllSyncedFirst'
  BY <1>1 DEF AllSyncedFirst
<1> QED
  BY <1>1, <1>3, <1>4, <1>5

LEMMA CreateModuleKeeps ==
  ASSUME IInv, CreateModule
  PROVE  Kept
<1>1. PICK m \in Modules :
        /\ nRefModule[m] = 0
        /\ \A i \in Insts : vtab[i].mod # m
        /\ aModule # NULL => aModule < m
        /\ aModule' = m
        /\ nRefModule' = [n \in Modules |->
             CASE n = m -> 1
               [] n = aModule -> nRefModule[n] - 1
               [] OTHER -> nRefModule[n]]
  BY DEF CreateModule
<1>2. UNCHANGED <<vtab, schema, link, pDisconnect, aVTrans, com, autoCommit,
                  nSavepoint, stmt, open>>
  BY DEF CreateModule
<1>3. aModule # m
  BY VtabAssumption, <1>1 DEF Modules, IInv, TypeOK
<1>4. ASSUME NEW n \in Modules
      PROVE  /\ nRefModule'[n] \in Nat
             /\ nRefModule'[n] = One(n, {aModule'}) + Cardinality(Living(n)')
  <2>1. /\ nRefModule[n] = One(n, {aModule}) + Cardinality(Living(n)) /\ nRefModule[n] \in Nat
        /\ Cardinality(Living(n)) \in Nat
    <3>1. IsFiniteSet(Insts)
      BY InstsFinite
    <3>2. IsFiniteSet(Living(n))
      BY <3>1, FS_Subset DEF Living
    <3> QED
      BY <3>2, FS_CardinalityType DEF IInv, ModulesCounted, TypeOK
  <2>2. Living(n)' = Living(n)
    BY <1>2 DEF Living
  <2>3. n = m => Living(n) = {}
    BY <1>1 DEF Living
  <2>4. Cardinality({}) = 0
    BY FS_EmptySet
  <2>5. nRefModule'[n] = IF n = m THEN 1
                         ELSE IF n = aModule THEN nRefModule[n] - 1 ELSE nRefModule[n]
    <3>1. nRefModule'[n] = CASE n = m -> 1
                             [] n = aModule -> nRefModule[n] - 1
                             [] OTHER -> nRefModule[n]
      BY <1>1
    <3> HIDE <1>1
    <3> QED
      BY <1>3, <3>1
  <2>6. CASE n = m
    BY <1>1, <2>2, <2>3, <2>4, <2>5, <2>6 DEF One
  <2>7. CASE n # m
    BY <1>1, <2>1, <2>2, <2>5, <2>7 DEF One
  <2> QED
    BY <2>6, <2>7
<1>5. TypeOK'
  BY <1>1, <1>2, <1>4 DEF IInv, TypeOK
<1>6. ModulesCounted'
  BY <1>4 DEF ModulesCounted
<1>7. Held' /\ AllTold
  <2>1. Pending' = Pending /\ SameStatements
    BY <1>2, Unchanged DEF Pending
  <2>2. \A i \in Insts : Refs(i)' = Refs(i) /\ Readers(i)' = Readers(i)
    BY <1>2, <2>1, SameRefs
  <2>3. Held'
    BY <1>2, <2>1, <2>2 DEF IInv, Held
  <2> QED
    BY <1>2, <2>3 DEF AllTold, Told, Unheard
<1>8. EachOnce' /\ CommitInOrder' /\ AllSyncedFirst'
  BY <1>2, SameCommit
<1>9. TablesApart' /\ StatementsAgree'
  BY <1>2 DEF IInv, TablesApart, StatementsAgree, Linked, InSync
<1>10. ClosedDown'
  BY <1>2 DEF IInv, ClosedDown, Linked, CreateModule, Idle
<1> QED
  BY <1>5, <1>6, <1>7, <1>8, <1>9, <1>10 DEF IInv, Kept

(* Begin, and a change of the schema by another connection.                *)
LEMMA FlagsKeep ==
  ASSUME IInv, Begin \/ OthersChange
  PROVE  Kept
<1>1. /\ UNCHANGED <<aModule, nRefModule, vtab, link, pDisconnect, aVTrans, com,
                     nSavepoint, stmt, open>>
      /\ autoCommit' \in BOOLEAN
      /\ schema' = schema \/ schema' = [schema EXCEPT !.stale = TRUE]
  BY DEF Begin, OthersChange, IInv, TypeOK
<1>2. schema \in SchemaType /\ schema' \in SchemaType /\ schema'.tab = schema.tab
  BY <1>1 DEF IInv, TypeOK, SchemaType
<1>3. TypeOK'
  BY <1>1, <1>2 DEF IInv, TypeOK, SchemaType
<1>4. Pending' = Pending /\ SameStatements
  BY <1>1, Unchanged DEF Pending
<1>5. Held' /\ ModulesCounted' /\ AllTold
  BY <1>1, <1>4, SameRefs, SameInstances
<1>6. EachOnce' /\ CommitInOrder' /\ AllSyncedFirst'
  BY <1>1, SameCommit
<1>7. TablesApart' /\ StatementsAgree' /\ ClosedDown'
  BY <1>1, <1>2 DEF IInv, TablesApart, StatementsAgree, ClosedDown, Linked, InSync
<1> QED
  BY <1>3, <1>5, <1>6, <1>7 DEF IInv, Kept

-----------------------------------------------------------------------------
(* Commits and rollbacks.                                                  *)

LEMMA NobodyWrites ==
  ASSUME IInv, InSync
  PROVE  NoWriter
BY DEF IInv, StatementsAgree, NoWriter

LEMMA CommitKeeps ==
  ASSUME IInv, Commit
  PROVE  Kept
<1>1. /\ UNCHANGED <<aModule, nRefModule, vtab, link, pDisconnect, aVTrans, stmt, open>>
      /\ ~InSync /\ open = "open" /\ NoWriter
      /\ autoCommit' \in BOOLEAN /\ nSavepoint' \in 0..1
      /\ com' = com \/ StartSync
      /\ schema' = schema \/ schema' = [schema EXCEPT !.disk = schema.file, !.change = FALSE]
  <2>1. autoCommit \in BOOLEAN /\ nSavepoint \in 0..1
    BY DEF IInv, TypeOK
  <2>2. /\ UNCHANGED <<aModule, nRefModule, vtab, link, pDisconnect, aVTrans, stmt, open>>
        /\ ~InSync /\ open = "open" /\ NoWriter
    BY DEF Commit, Idle
  <2>3. CASE aVTrans = <<>>
    <3>1. /\ autoCommit' = TRUE
          /\ nSavepoint' = 0
          /\ schema' = [schema EXCEPT !.disk = schema.file, !.change = FALSE]
          /\ UNCHANGED com
      BY <2>3 DEF Commit
    <3> QED
      BY <2>2, <3>1
  <2>4. CASE aVTrans # <<>>
    <3>1. StartSync /\ UNCHANGED <<autoCommit, nSavepoint, schema>>
      BY <2>4 DEF Commit
    <3> QED
      BY <2>1, <2>2, <3>1
  <2> QED
    BY <2>3, <2>4
<1>2. schema \in SchemaType
  BY DEF IInv, TypeOK, SchemaType
<1>3. schema' \in SchemaType /\ schema'.tab = schema.tab
  BY <1>1, <1>2 DEF SchemaType
<1>4. /\ EachOnce' /\ CommitInOrder' /\ AllSyncedFirst' /\ Pending' = Pending
      /\ com' \in ComType
  <2>1. CASE com' = com
    BY <1>1, <2>1, SameCommit DEF IInv, TypeOK, ComType
  <2>2. CASE StartSync
    <3>1. EachOnce' /\ aVTrans' \in Seq(Insts)
      BY <1>1 DEF IInv, EachOnce, TypeOK
    <3> QED
      BY <1>1, <2>2, <3>1, EndBegins
  <2> QED
    BY <1>1, <2>1, <2>2
<1>5. TypeOK'
  BY <1>1, <1>3, <1>4 DEF IInv, TypeOK, SchemaType, ComType
<1>6. SameStatements
  BY <1>1, Unchanged
<1>7. Held' /\ ModulesCounted' /\ AllTold
  BY <1>1, <1>4, <1>6, SameRefs, SameInstances
<1>8. TablesApart'
  BY <1>1, <1>3 DEF IInv, TablesApart, Linked
<1>9. StatementsAgree'
  BY <1>1, <1>6, SameWriters DEF IInv, StatementsAgree
<1>10. ClosedDown'
  BY <1>1 DEF ClosedDown
<1> QED
  BY <1>4, <1>5, <1>7, <1>8, <1>9, <1>10 DEF IInv, Kept

LEMMA RollbackKeeps ==
  ASSUME IInv, Rollback
  PROVE  Kept
<1>1. /\ UNCHANGED <<aModule, nRefModule, vtab, schema, link, pDisconnect, aVTrans, stmt, open>>
      /\ ~InSync /\ open = "open" /\ NoWriter
      /\ autoCommit' \in BOOLEAN /\ nSavepoint' \in 0..1
      /\ com' = Finalise("ROLLBACK")
  BY DEF Rollback, Idle
<1>2. EachOnce' /\ aVTrans' \in Seq(Insts)
  BY <1>1 DEF IInv, EachOnce, TypeOK
<1>3. CommitInOrder' /\ AllSyncedFirst' /\ Pending' = Pending /\ com' \in ComType
  BY <1>1, <1>2, EndBegins
<1>4. TypeOK'
  BY <1>1, <1>3 DEF IInv, TypeOK, ComType
<1>5. SameStatements
  BY <1>1, Unchanged
<1>6. Held' /\ ModulesCounted' /\ AllTold
  BY <1>1, <1>3, <1>5, SameRefs, SameInstances
<1>7. TablesApart'
  BY <1>1 DEF IInv, TablesApart, Linked
<1>8. StatementsAgree'
  BY <1>1, <1>5, SameWriters DEF IInv, StatementsAgree
<1>9. ClosedDown'
  BY <1>1 DEF ClosedDown
<1> QED
  BY <1>2, <1>3, <1>4, <1>6, <1>7, <1>8, <1>9 DEF IInv, Kept

(* When all have synced, every member of the transaction has.              *)
LEMMA DecideKeeps ==
  ASSUME IInv, Decide
  PROVE  Kept
<1>1. /\ UNCHANGED <<aModule, nRefModule, vtab, link, pDisconnect, aVTrans, stmt>>
      /\ open' = open
      /\ com.op = "sync" /\ com.i > Len(aVTrans)
      /\ autoCommit' \in BOOLEAN /\ nSavepoint' \in 0..1
      /\ com' = Finalise("COMMIT") \/ com' = NoCom \/ com' = Finalise("ROLLBACK")
      /\ schema' = schema \/ schema' = [schema EXCEPT !.disk = schema.file, !.change = FALSE]
  <2>1. autoCommit \in BOOLEAN /\ nSavepoint \in 0..1
    BY DEF IInv, TypeOK
  <2>2. /\ UNCHANGED <<aModule, nRefModule, vtab, link, pDisconnect, aVTrans, stmt>>
        /\ open' = open
        /\ com.op = "sync" /\ com.i > Len(aVTrans)
    BY DEF Decide
  <2>3. \/ /\ com' = Finalise("COMMIT")
           /\ schema' = [schema EXCEPT !.disk = schema.file, !.change = FALSE]
           /\ autoCommit' = TRUE
           /\ nSavepoint' = 0
        \/ com' = NoCom /\ UNCHANGED <<schema, autoCommit, nSavepoint>>
        \/ /\ com' = Finalise("ROLLBACK")
           /\ autoCommit' = TRUE
           /\ nSavepoint' = 0
           /\ UNCHANGED schema
    BY DEF Decide
  <2>4. autoCommit' \in BOOLEAN
    BY <2>1, <2>3
  <2>5. nSavepoint' \in 0..1
    BY <2>1, <2>3
  <2>6. com' = Finalise("COMMIT") \/ com' = NoCom \/ com' = Finalise("ROLLBACK")
    BY <2>3
  <2>7. schema' = schema \/ schema' = [schema EXCEPT !.disk = schema.file, !.change = FALSE]
    BY <2>3
  <2> QED
    BY <2>2, <2>4, <2>5, <2>6, <2>7
<1>2. schema \in SchemaType
  BY DEF IInv, TypeOK, SchemaType
<1>3. schema' \in SchemaType /\ schema'.tab = schema.tab
  BY <1>1, <1>2 DEF SchemaType
<1>4. NoWriter /\ open = "open"
  BY <1>1, NobodyWrites DEF InSync, IInv, ClosedDown
<1>5. /\ com' \in ComType
      /\ com'.op \in {"none", "finish"}
      /\ com'.op = "none" => com'.method = "none"
      /\ com'.op = "finish" => com'.method \in {"COMMIT", "ROLLBACK"} /\ com'.i = 1
  BY <1>1 DEF Finalise, NoCom, ComType
<1>6. aVTrans \in Seq(Insts) /\ com.i \in Nat
  BY DEF IInv, TypeOK
<1>7. Pending' = Range(aVTrans) /\ Pending = Range(aVTrans)
  <2>1. Pending' = PendingOf(aVTrans, com') /\ Pending = PendingOf(aVTrans, com)
    BY <1>1 DEF Pending, PendingOf
  <2> QED
    BY <1>1, <1>5, <1>6, <2>1, AllPending
<1>8. \A i \in Pending : vtab[i].obj => vtab[i].phase = "synced"
  <2>1. \A k \in DOMAIN aVTrans : k \in 1..com.i-1
    BY <1>1, <1>6
  <2>2. \A k \in DOMAIN aVTrans : vtab[aVTrans[k]].obj => vtab[aVTrans[k]].phase = "synced"
    BY <1>1, <2>1 DEF IInv, CommitInOrder
  <2> QED
    BY <1>7, <2>2 DEF Range
<1>9. EachOnce' /\ CommitInOrder' /\ AllSyncedFirst'
  <2>1. EachOnce'
    BY <1>1 DEF IInv, EachOnce
  <2>2. CommitInOrder'
    BY <1>1, <1>5, <1>6 DEF CommitInOrder
  <2>3. AllSyncedFirst'
    BY <1>1, <1>7, <1>8 DEF AllSyncedFirst
  <2> QED
    BY <2>1, <2>2, <2>3
<1>10. TypeOK'
  BY <1>1, <1>3, <1>5 DEF IInv, TypeOK, SchemaType, ComType
<1>11. SameStatements
  BY <1>1, Unchanged
<1>12. Held' /\ ModulesCounted' /\ AllTold
  BY <1>1, <1>7, <1>11, SameRefs, SameInstances
<1>13. TablesApart'
  BY <1>1, <1>3 DEF IInv, TablesApart, Linked
<1>14. StatementsAgree'
  BY <1>1, <1>4, <1>11, SameWriters DEF IInv, StatementsAgree
<1>15. ClosedDown'
  BY <1>1, <1>4 DEF ClosedDown
<1> QED
  BY <1>9, <1>10, <1>12, <1>13, <1>14, <1>15 DEF IInv, Kept


-----------------------------------------------------------------------------
(* Operations on one instance.                                             *)

(* Everybody else is as before.                                            *)
LEMMA OneInstance ==
  ASSUME IInv, NEW p \in Insts, NEW u,
         UNCHANGED <<nRefModule, aModule>>,
         vtab' = [vtab EXCEPT ![p] = u],
         Good(p, u, Refs(p)', Pending', Cardinality(Readers(p)')),
         u.mod = vtab[p].mod,
         u.nRef > 0 <=> vtab[p].nRef > 0,
         Told(vtab[p], u),
         \A i \in Insts \ {p} : /\ Refs(i)' = Refs(i) /\ Readers(i)' = Readers(i)
                                /\ i \in Pending' <=> i \in Pending
  PROVE  vtab' \in [Insts -> Instance] /\ Held' /\ ModulesCounted' /\ AllTold
<1>1. vtab \in [Insts -> Instance] /\ u \in Instance
  BY DEF IInv, TypeOK, Good
<1>2. vtab' \in [Insts -> Instance] /\ vtab'[p] = u
  BY <1>1
<1>3. \A i \in Insts \ {p} : vtab'[i] = vtab[i]
  BY <1>1
<1>4. Held'
  <2>1. ASSUME NEW i \in Insts \ {p}
        PROVE  Good(i, vtab'[i], Refs(i)', Pending', Cardinality(Readers(i)'))
    <3>1. Good(i, vtab[i], Refs(i), Pending, Cardinality(Readers(i)))
      BY DEF IInv, Held
    <3>2. vtab'[i] = vtab[i] /\ Refs(i)' = Refs(i) /\ Readers(i)' = Readers(i)
      BY <1>3
    <3>3. Good(i, vtab'[i], Refs(i)', Pending, Cardinality(Readers(i)'))
      BY <3>1, <3>2
    <3>4. i \in Pending' <=> i \in Pending
      OBVIOUS
    <3> QED
      BY <3>3, <3>4 DEF Good
  <2>2. Good(p, vtab'[p], Refs(p)', Pending', Cardinality(Readers(p)'))
    BY <1>2
  <2>3. \A i \in Insts : Good(i, vtab'[i], Refs(i)', Pending', Cardinality(Readers(i)'))
    BY <2>1, <2>2
  <2> QED
    BY <2>3 DEF Held
<1>5. ModulesCounted'
  <2>1. \A i \in Insts : vtab'[i].mod = vtab[i].mod /\ (vtab'[i].nRef > 0 <=> vtab[i].nRef > 0)
    BY <1>2, <1>3
  <2>2. \A m \in Modules : Living(m)' = Living(m)
    BY <2>1 DEF Living
  <2> QED
    BY <2>2 DEF IInv, ModulesCounted
<1>6. AllTold
  <2>1. \A i \in Insts \ {p} : Told(vtab[i], vtab'[i])
    BY <1>3 DEF Told, Unheard
  <2> QED
    BY <1>2, <2>1 DEF AllTold
<1> QED
  BY <1>2, <1>4, <1>5, <1>6

(* What each operation changes of an instance.                             *)
LEMMA PhaseField ==
  ASSUME NEW v \in Instance, NEW ph \in Phases
  PROVE  LET u == [v EXCEPT !.phase = ph] IN
         /\ u \in Instance /\ u.phase = ph /\ u.mod = v.mod /\ u.nRef = v.nRef
         /\ u.obj = v.obj /\ u.cursors = v.cursors /\ u.dirty = v.dirty
BY DEF Instance

LEMMA FinishFields ==
  ASSUME NEW v \in Instance, NEW ph \in Phases
  PROVE  LET u == [v EXCEPT !.phase = ph, !.dirty = FALSE, !.since = "no", !.iSavepoint = 0] IN
         /\ u \in Instance /\ u.phase = ph /\ u.mod = v.mod /\ u.nRef = v.nRef
         /\ u.obj = v.obj /\ u.cursors = v.cursors /\ ~u.dirty
BY DEF Instance

LEMMA UpdateFields ==
  ASSUME NEW v \in Instance, NEW ph \in Phases, NEW sn \in {"no", "yes", "kept"}
  PROVE  LET u == [v EXCEPT !.phase = ph, !.dirty = TRUE, !.since = sn] IN
         /\ u \in Instance /\ u.phase = ph /\ u.mod = v.mod /\ u.nRef = v.nRef
         /\ u.obj = v.obj /\ u.cursors = v.cursors /\ u.dirty
BY DEF Instance

LEMMA CursorField ==
  ASSUME NEW v \in Instance, NEW n \in Nat
  PROVE  LET u == [v EXCEPT !.cursors = n] IN
         /\ u \in Instance /\ u.phase = v.phase /\ u.mod = v.mod /\ u.nRef = v.nRef
         /\ u.obj = v.obj /\ u.cursors = n /\ u.dirty = v.dirty
BY DEF Instance

LEMMA SavepointFields ==
  ASSUME NEW v \in Instance, NEW k \in Nat, NEW sn \in {"no", "yes", "kept"}
  PROVE  LET u == [v EXCEPT !.iSavepoint = k, !.since = sn] IN
         /\ u \in Instance /\ u.phase = v.phase /\ u.mod = v.mod /\ u.nRef = v.nRef
         /\ u.obj = v.obj /\ u.cursors = v.cursors /\ u.dirty = v.dirty
BY DEF Instance

LEMMA SinceField ==
  ASSUME NEW v \in Instance, NEW sn \in {"no", "yes", "kept"}
  PROVE  LET u == [v EXCEPT !.since = sn] IN
         /\ u \in Instance /\ u.phase = v.phase /\ u.mod = v.mod /\ u.nRef = v.nRef
         /\ u.obj = v.obj /\ u.cursors = v.cursors /\ u.dirty = v.dirty
BY DEF Instance

LEMMA RefField ==
  ASSUME NEW v \in Instance, NEW n \in Nat
  PROVE  LET u == [v EXCEPT !.nRef = n] IN
         /\ u \in Instance /\ u.phase = v.phase /\ u.mod = v.mod /\ u.nRef = n
         /\ u.obj = v.obj /\ u.cursors = v.cursors /\ u.dirty = v.dirty
BY DEF Instance

LEMMA DropFields ==
  ASSUME NEW v \in Instance, NEW ph \in Phases
  PROVE  LET u == [v EXCEPT !.obj = FALSE, !.dirty = FALSE, !.phase = ph] IN
         /\ u \in Instance /\ u.phase = ph /\ u.mod = v.mod /\ u.nRef = v.nRef
         /\ ~u.obj /\ u.cursors = v.cursors /\ ~u.dirty
BY DEF Instance

(* One xSync.                                                              *)
LEMMA SyncKeeps ==
  ASSUME IInv, Sync
  PROVE  Kept
<1>1. /\ UNCHANGED <<aModule, nRefModule, schema, link, pDisconnect, aVTrans, autoCommit,
                     nSavepoint, stmt, open>>
      /\ com.op = "sync" /\ com.i <= Len(aVTrans)
      /\ com' = [com EXCEPT !.i = @ + 1]
  BY DEF Sync
<1>2. aVTrans \in Seq(Insts) /\ com \in ComType /\ com.i \in Nat /\ vtab \in [Insts -> Instance]
  BY DEF IInv, TypeOK, ComType
<1>3. com' \in ComType /\ com'.op = "sync" /\ com'.method = "SYNC" /\ com'.i = com.i + 1
  BY <1>1, <1>2 DEF ComType, IInv, CommitInOrder
<1>4. PICK p \in Insts : /\ com.i \in 1..Len(aVTrans) /\ com.i \in DOMAIN aVTrans
                          /\ p = aVTrans[com.i]
  BY <1>1, <1>2 DEF IInv, CommitInOrder
<1> DEFINE v == vtab[p]
<1>5. Pending = Range(aVTrans) /\ Pending' = Range(aVTrans)
  BY <1>1, <1>2, <1>3, AllPending DEF Pending, PendingOf
<1>6. p \in Pending
  BY <1>4, <1>5 DEF Range
<1>7. SameStatements
  BY <1>1, Unchanged
<1>8. \A i \in Insts : Refs(i)' = Refs(i) /\ Readers(i)' = Readers(i)
  BY <1>1, <1>5, <1>7, SameRefs
<1>9. Good(p, v, Refs(p), Pending, Cardinality(Readers(p)))
  BY <1>4, InstanceFacts
<1>10. PICK u : /\ vtab' = [vtab EXCEPT ![p] = u]
                /\ u \in Instance /\ u.mod = v.mod /\ u.nRef = v.nRef
                /\ u.obj = v.obj /\ u.cursors = v.cursors /\ u.dirty = v.dirty
                /\ IF v.obj THEN u.phase = "synced" ELSE u.phase = v.phase
  <2>1. CASE v.obj
    <3>1. v \in Instance /\ v.phase \in {"enlisted", "synced"}
      BY <1>6, <1>9, <2>1 DEF Good
    <3>2. vtab' = [vtab EXCEPT ![p].phase =
                     IF @ \in {"enlisted", "synced"} THEN "synced" ELSE "broken"]
      BY <1>4, <2>1 DEF Sync
    <3> DEFINE w == [v EXCEPT !.phase = "synced"]
    <3>3. vtab' = [vtab EXCEPT ![p] = w]
      BY <1>2, <1>4, <3>1, <3>2
    <3>4. "synced" \in Phases
      BY DEF Phases
    <3>5. /\ w \in Instance /\ w.phase = "synced" /\ w.mod = v.mod /\ w.nRef = v.nRef
          /\ w.obj = v.obj /\ w.cursors = v.cursors /\ w.dirty = v.dirty
      BY <3>1, <3>4, PhaseField
    <3> HIDE DEF w
    <3> QED
      BY <2>1, <3>3, <3>5
  <2>2. CASE ~v.obj
    <3>1. vtab' = vtab
      BY <1>4, <2>2 DEF Sync
    <3>2. vtab' = [vtab EXCEPT ![p] = v] /\ v \in Instance
      BY <1>2, <1>4, <3>1
    <3> QED
      BY <2>2, <3>2
  <2> QED
    BY <2>1, <2>2
<1>11. Good(p, u, Refs(p), Pending, Cardinality(Readers(p)))
  BY <1>6, <1>9, <1>10 DEF Good
<1>12. Told(v, u)
  BY <1>6, <1>9, <1>10 DEF Good, Told, Unheard
<1>13. vtab' \in [Insts -> Instance] /\ Held' /\ ModulesCounted' /\ AllTold
  <2>1. Good(p, u, Refs(p)', Pending', Cardinality(Readers(p)'))
    BY <1>4, <1>5, <1>8, <1>11
  <2>2. /\ u.mod = vtab[p].mod /\ Told(vtab[p], u)
        /\ u.nRef > 0 <=> vtab[p].nRef > 0
    BY <1>10, <1>12
  <2> QED
    BY <1>1, <1>5, <1>8, <1>10, <2>1, <2>2, OneInstance
<1>14. \A i \in Insts : /\ vtab'[i].obj = vtab[i].obj
                        /\ i # p => vtab'[i] = vtab[i]
  BY <1>2, <1>4, <1>10
<1>15. EachOnce' /\ CommitInOrder' /\ AllSyncedFirst'
  <2>1. EachOnce'
    BY <1>1 DEF IInv, EachOnce
  <2>2. \A k \in 1..com.i : vtab'[aVTrans[k]].obj => vtab'[aVTrans[k]].phase = "synced"
    <3> SUFFICES ASSUME NEW k \in 1..com.i, vtab'[aVTrans[k]].obj
                 PROVE  vtab'[aVTrans[k]].phase = "synced"
      OBVIOUS
    <3>1. k \in DOMAIN aVTrans /\ aVTrans[k] \in Insts
      BY <1>2, <1>4
    <3>2. CASE aVTrans[k] = p
      BY <1>2, <1>4, <1>10, <1>14, <3>1, <3>2
    <3>3. CASE aVTrans[k] # p
      <4>1. k \in 1..com.i-1
        BY <1>2, <1>4, <3>3
      <4> QED
        BY <1>1, <1>14, <3>1, <3>3, <4>1 DEF IInv, CommitInOrder
    <3> QED
      BY <3>2, <3>3
  <2>3. CommitInOrder'
    <3>1. com'.i - 1 = com.i /\ com'.i \in 1..Len(aVTrans')+1
      BY <1>1, <1>2, <1>3, <1>4
    <3> QED
      BY <1>1, <1>3, <2>2, <3>1 DEF CommitInOrder
  <2>4. AllSyncedFirst'
    BY <1>3 DEF AllSyncedFirst
  <2> QED
    BY <2>1, <2>3, <2>4
<1>16. TypeOK'
  BY <1>1, <1>3, <1>13 DEF IInv, TypeOK, ComType
<1>17. TablesApart'
  <2>1. \A t \in Tables : link[t] # NULL => link[t] \in Insts
    BY DEF IInv, TypeOK
  <2> QED
    BY <1>1, <1>14, <2>1 DEF IInv, TablesApart, Linked
<1>18. StatementsAgree'
  BY <1>1, <1>3, <1>7, SameWriters, NobodyWrites DEF IInv, StatementsAgree, InSync
<1>19. ClosedDown'
  BY <1>1 DEF IInv, ClosedDown
<1> QED
  BY <1>13, <1>15, <1>16, <1>17, <1>18, <1>19 DEF IInv, Kept

-----------------------------------------------------------------------------
(* The turns of callFinaliser.                                             *)

LEMMA RefsPrimed ==
  ASSUME NEW i
  PROVE  /\ Cardinality(Users(i)') \in Nat /\ Cardinality(Users(i))' = Cardinality(Users(i)')
         /\ Refs(i)' \in Nat
         /\ i \in Linked' \/ i \in pDisconnect' \/ i \in Pending' \/ Users(i)' # {}
              => Refs(i)' > 0
<1>1. Users(i)' \in SUBSET Stmts
  BY DEF Users
<1>2. Cardinality(Users(i)') \in Nat /\ (Cardinality(Users(i)') = 0 <=> Users(i)' = {})
  BY <1>1, SubsetCounts
<1>3. Refs(i)' = One(i, Linked') + One(i, pDisconnect') + One(i, Pending')
                 + Cardinality(Users(i)')
  BY DEF Refs, One
<1>4. /\ One(i, Linked') \in {0, 1} /\ (One(i, Linked') = 0 <=> i \notin Linked')
      /\ One(i, pDisconnect') \in {0, 1} /\ (One(i, pDisconnect') = 0 <=> i \notin pDisconnect')
      /\ One(i, Pending') \in {0, 1} /\ (One(i, Pending') = 0 <=> i \notin Pending')
  BY OneOrNone
<1> QED
  BY <1>2, <1>3, <1>4

(* A table keeps its object while it keeps its reference.                  *)
LEMMA TablesStay ==
  ASSUME IInv, link' = link, pDisconnect' \subseteq pDisconnect, schema'.tab = schema.tab,
         \A i \in Insts : /\ vtab'[i].nRef = Refs(i)'
                          /\ vtab'[i].nRef > 0 => (vtab[i].obj => vtab'[i].obj)
  PROVE  TablesApart'
<1>1. \A t \in Tables : link[t] # NULL => link[t] \in Insts /\ link[t] \in Linked'
  BY DEF IInv, TypeOK, Linked
<1>2. \A t \in Tables : link[t] # NULL => vtab'[link[t]].nRef > 0
  BY <1>1, RefsPrimed
<1>3. \A t \in Tables : link[t] # NULL => vtab'[link[t]].obj
  BY <1>1, <1>2 DEF IInv, TablesApart
<1> QED
  BY <1>3 DEF IInv, TablesApart, Linked

LEMMA FinishKeeps ==
  ASSUME IInv, Finish
  PROVE  Kept
<1>1. /\ com.op = "finish" /\ com.i <= Len(aVTrans)
      /\ com' = [com EXCEPT !.i = @ + 1]
      /\ UNCHANGED <<aModule, schema, link, pDisconnect, aVTrans, autoCommit, nSavepoint,
                     stmt, open>>
  BY DEF Finish
<1>2. aVTrans \in Seq(Insts) /\ com \in ComType /\ com.i \in Nat /\ vtab \in [Insts -> Instance]
  BY DEF IInv, TypeOK, ComType
<1>3. /\ com' \in ComType /\ com'.op = "finish" /\ com'.i = com.i + 1
      /\ com'.method = com.method /\ com.method \in {"COMMIT", "ROLLBACK"}
  BY <1>1, <1>2 DEF ComType, IInv, CommitInOrder
<1>4. PICK p \in Insts : /\ com.i \in 1..Len(aVTrans) /\ com.i \in DOMAIN aVTrans
                         /\ p = aVTrans[com.i]
  BY <1>1, <1>2 DEF IInv, CommitInOrder
<1>5. p \in Pending /\ Pending' = Pending \ {p}
  <2>1. Pending = PendingOf(aVTrans, com) /\ Pending' = PendingOf(aVTrans, com')
    BY <1>1 DEF Pending, PendingOf
  <2>2. \A j, k \in DOMAIN aVTrans : aVTrans[j] = aVTrans[k] => j = k
    BY DEF IInv, EachOnce
  <2> QED
    BY <1>1, <1>2, <1>3, <1>4, <2>1, <2>2, TurnOf
<1> DEFINE v == vtab[p]
<1>6. Good(p, v, Refs(p), Pending, Cardinality(Readers(p)))
  BY InstanceFacts
<1>7. PICK u : /\ vtab \in [Insts -> Instance]
               /\ u \in Instance /\ u.mod = v.mod /\ u.nRef = v.nRef
               /\ u.obj = v.obj /\ u.cursors = v.cursors
               /\ IF v.obj THEN u.phase = "idle" /\ ~u.dirty
                           ELSE u.phase = v.phase /\ u.dirty = v.dirty
               /\ Settle(Unlock([vtab EXCEPT ![p] = u], Once({p})), nRefModule)
  <2>1. CASE v.obj
    <3> DEFINE ok == IF com.method = "COMMIT" THEN {"synced"} ELSE {"enlisted", "synced"}
               w == [v EXCEPT !.phase = "idle", !.dirty = FALSE, !.since = "no",
                              !.iSavepoint = 0]
    <3>1. v \in Instance /\ v.phase \in ok
      BY <1>5, <1>6, <2>1 DEF Good, IInv, AllSyncedFirst
    <3>2. Settle(Unlock([vtab EXCEPT ![p].phase = IF @ \in ok THEN "idle" ELSE "broken",
                                     ![p].dirty = FALSE,
                                     ![p].since = "no", ![p].iSavepoint = 0],
                        Once({p})), nRefModule)
      BY <1>4, <2>1 DEF Finish
    <3>3. [vtab EXCEPT ![p].phase = IF @ \in ok THEN "idle" ELSE "broken",
                       ![p].dirty = FALSE,
                       ![p].since = "no", ![p].iSavepoint = 0] = [vtab EXCEPT ![p] = w]
      BY <1>2, <3>1
    <3>4. "idle" \in Phases
      BY DEF Phases
    <3>5. /\ w \in Instance /\ w.phase = "idle" /\ w.mod = v.mod /\ w.nRef = v.nRef
          /\ w.obj = v.obj /\ w.cursors = v.cursors /\ ~w.dirty
      BY <3>1, <3>4, FinishFields
    <3> HIDE DEF w
    <3> QED
      BY <1>2, <2>1, <3>2, <3>3, <3>5
  <2>2. CASE ~v.obj
    <3>1. Settle(Unlock(vtab, Once({p})), nRefModule)
      BY <1>4, <2>2 DEF Finish
    <3>2. vtab = [vtab EXCEPT ![p] = v] /\ v \in Instance
      BY <1>2
    <3> QED
      BY <1>2, <2>2, <3>1, <3>2
  <2> QED
    BY <2>1, <2>2
<1> DEFINE vt == [vtab EXCEPT ![p] = u]
           un == Unlock(vt, Once({p}))
<1>8. \A i \in Insts : vt[i] = IF i = p THEN u ELSE vtab[i]
  BY <1>2
<1>9. \A i \in Insts : Good(i, vt[i], Refs(i), Pending', Cardinality(Readers(i)))
  <2> TAKE i \in Insts
  <2>1. CASE i = p
    <3>1. Good(p, u, Refs(p), Pending', Cardinality(Readers(p)))
      BY <1>5, <1>6, <1>7 DEF Good
    <3> QED
      BY <1>8, <2>1, <3>1
  <2>2. CASE i # p
    <3>1. Good(i, vtab[i], Refs(i), Pending, Cardinality(Readers(i)))
      BY InstanceFacts
    <3>2. Good(i, vtab[i], Refs(i), Pending', Cardinality(Readers(i)))
      BY <1>5, <2>2, <3>1 DEF Good
    <3> QED
      BY <1>8, <2>2, <3>2
  <2> QED
    BY <2>1, <2>2
<1> HIDE DEF vt
<1>10. \A i \in Insts : /\ Good(i, un[i], Refs(i) - One(i, {p}), Pending', Cardinality(Readers(i)))
                        /\ Quiet(vt[i], un[i])
  <2> TAKE i \in Insts
  <2>1. /\ Refs(i) \in Nat /\ Cardinality(Readers(i)) \in Nat /\ Cardinality(Users(i)) \in Nat
        /\ Cardinality(Readers(i)) > 0 => Cardinality(Users(i)) > 0
    BY InstanceFacts
  <2>2. i \in {p} => /\ Refs(i) > 0
                     /\ i \in Pending' \/ Cardinality(Readers(i)) > 0 => Refs(i) > 1
    <3>1. /\ One(i, Linked) \in {0, 1}
          /\ One(i, pDisconnect) \in {0, 1}
          /\ i = p => One(i, Pending) = 1
      BY <1>5, OneOrNone DEF One
    <3>2. i = p => i \notin Pending'
      BY <1>5
    <3> QED
      BY <2>1, <3>1, <3>2 DEF Refs
  <2>3. Good(i, vt[i], Refs(i), Pending', Cardinality(Readers(i)))
    BY <1>9
  <2> QED
    BY <2>1, <2>2, <2>3, UnlockedOnce
<1> HIDE DEF un
<1>11. \A i \in Insts : /\ un[i] \in Instance /\ un[i].mod = vtab[i].mod
                        /\ un[i].nRef \in Nat
                        /\ un[i].nRef > 0 => vtab[i].nRef > 0
                        /\ un[i].nRef > 0 => (vtab[i].obj => un[i].obj)
  <2> TAKE i \in Insts
  <2>1. /\ un[i] \in Instance /\ un[i].mod = vt[i].mod /\ (un[i].nRef > 0 => vt[i].nRef > 0)
        /\ un[i].nRef > 0 => (vt[i].obj => un[i].obj)
    BY <1>10 DEF Good, Quiet
  <2>2. vt[i].mod = vtab[i].mod /\ vt[i].nRef = vtab[i].nRef /\ vt[i].obj = vtab[i].obj
    BY <1>7, <1>8
  <2>3. un[i].nRef \in Nat
    BY <2>1 DEF Instance
  <2> QED
    BY <2>1, <2>2, <2>3
<1>12. vtab' = un /\ nRefModule' \in [Modules -> Nat] /\ ModulesCounted'
  <2>1. Settle(un, nRefModule)
    BY <1>7 DEF un, vt
  <2>2. aModule' = aModule
    BY <1>1
  <2> QED
    BY <1>11, <2>1, <2>2, Settled
<1>13. SameStatements
  BY <1>1, Unchanged
<1>14. \A i \in Insts : Refs(i)' = Refs(i) - One(i, {p}) /\ Readers(i)' = Readers(i)
  <2> TAKE i \in Insts
  <2>1. /\ Refs(i)' = One(i, Linked) + One(i, pDisconnect) + One(i, Pending') + Cardinality(Users(i))
        /\ Readers(i)' = Readers(i)
    BY <1>1, <1>13, SameUsers DEF Refs, Linked, One
  <2>2. One(i, Pending') = One(i, Pending) - One(i, {p})
    BY <1>5 DEF One
  <2>3. /\ One(i, Linked) \in {0, 1} /\ One(i, pDisconnect) \in {0, 1}
        /\ One(i, Pending) \in {0, 1} /\ One(i, {p}) \in {0, 1} /\ Cardinality(Users(i)) \in Nat
    BY OneOrNone, InstanceFacts
  <2> QED
    BY <2>1, <2>2, <2>3 DEF Refs
<1>15. Held'
  BY <1>10, <1>12, <1>14 DEF Held
<1>16. AllTold
  <2> SUFFICES ASSUME NEW i \in Insts PROVE Told(vtab[i], un[i])
    BY <1>12 DEF AllTold
  <2>1. Quiet(vt[i], un[i])
    BY <1>10
  <2>2. CASE i = p /\ v.obj
    <3>1. vt[i] = u /\ u.phase = "idle" /\ ~u.dirty /\ u.cursors = v.cursors
      BY <1>7, <1>8, <2>2
    <3>2. v.phase \in {"enlisted", "synced"}
      BY <1>5, <1>6, <2>2 DEF Good
    <3>3. /\ un[i].dirty = u.dirty /\ un[i].cursors = v.cursors
          /\ un[i].phase = "idle" \/ (un[i].phase = "ended" /\ v.cursors = 0)
      BY <2>1, <3>1 DEF Quiet, Unheard
    <3>4. u.dirty = FALSE
      BY <1>7, <3>1 DEF Instance
    <3> QED
      BY <2>2, <3>2, <3>3, <3>4 DEF Told
  <2>3. CASE ~(i = p /\ v.obj)
    <3>1. /\ vt[i].phase = vtab[i].phase /\ vt[i].dirty = vtab[i].dirty
          /\ vt[i].cursors = vtab[i].cursors
      BY <1>7, <1>8, <2>3
    <3> QED
      BY <2>1, <3>1 DEF Quiet, Told, Unheard
  <2> QED
    BY <2>2, <2>3
<1>17. EachOnce' /\ CommitInOrder' /\ AllSyncedFirst'
  <2>1. EachOnce'
    BY <1>1 DEF IInv, EachOnce
  <2>2. CommitInOrder'
    BY <1>1, <1>2, <1>3, <1>4 DEF CommitInOrder
  <2>3. AllSyncedFirst'
    <3> SUFFICES ASSUME com.method = "COMMIT", NEW i \in Pending', un[i].obj
                 PROVE  un[i].phase = "synced"
      BY <1>3, <1>12 DEF AllSyncedFirst
    <3>1. i \in Pending /\ i # p /\ i \in Insts
      <4>1. \A k \in com.i..Len(aVTrans) : aVTrans[k] \in Insts
        BY <1>2, <1>4
      <4> QED
        BY <1>1, <1>5, <4>1 DEF Pending
    <3>2. vt[i] = vtab[i] /\ Quiet(vtab[i], un[i])
      BY <1>8, <1>10, <3>1
    <3> QED
      BY <3>1, <3>2 DEF IInv, AllSyncedFirst, Quiet
  <2> QED
    BY <2>1, <2>2, <2>3
<1>18. TypeOK'
  <2>1. vtab' \in [Insts -> Instance]
    BY <1>11, <1>12 DEF Settle, Unlock, un
  <2> QED
    BY <1>1, <1>3, <1>12, <2>1 DEF IInv, TypeOK, ComType
<1>19. TablesApart'
  <2>1. \A i \in Insts : vtab'[i].nRef = Refs(i)'
    BY <1>15 DEF Held, Good
  <2> QED
    BY <1>1, <1>11, <1>12, <2>1, TablesStay
<1>20. StatementsAgree'
  BY <1>1, <1>3, <1>13, SameWriters, NobodyWrites DEF IInv, StatementsAgree, InSync
<1>21. ClosedDown'
  BY <1>1, <1>3 DEF IInv, ClosedDown, Linked
<1> QED
  BY <1>15, <1>12, <1>16, <1>17, <1>18, <1>19, <1>20, <1>21 DEF IInv, Kept

-----------------------------------------------------------------------------
(* Operations on all instances.                                            *)

(* The same for all but savepoints.                                        *)
Alike(v, u) ==
  /\ u \in Instance /\ u.phase = v.phase /\ u.mod = v.mod /\ u.nRef = v.nRef
  /\ u.obj = v.obj /\ u.cursors = v.cursors /\ u.dirty = v.dirty

LEMMA AlikeGood ==
  ASSUME IInv, NEW vt, NEW i \in Insts, Alike(vtab[i], vt[i])
  PROVE  Good(i, vt[i], Refs(i), Pending, Cardinality(Readers(i)))
<1>1. Good(i, vtab[i], Refs(i), Pending, Cardinality(Readers(i)))
  BY InstanceFacts
<1> QED
  BY <1>1 DEF Good, Alike

(* The tables give up their instances.                                     *)
LEMMA GivenUp ==
  ASSUME IInv, NEW vt,
         \A i \in Insts : Alike(vtab[i], vt[i]),
         Settle(Unlock(vt, Once(pDisconnect \cup Linked)), nRefModule),
         pDisconnect' = {}, link' = Unlinked, aModule' = aModule,
         Pending' = Pending,
         SameStatements
  PROVE  /\ vtab' \in [Insts -> Instance] /\ nRefModule' \in [Modules -> Nat]
         /\ Held' /\ ModulesCounted' /\ TablesApart' /\ AllTold
         /\ Linked' = {} /\ link' \in [Tables -> Insts \cup {NULL}]
         /\ \A i \in Insts : vtab'[i].obj => vtab[i].obj /\ vtab'[i].phase = vtab[i].phase
<1> DEFINE S == pDisconnect \cup Linked
           un == Unlock(vt, Once(S))
<1>1. /\ un \in [Insts -> Instance]
      /\ \A i \in Insts :
           /\ Good(i, un[i], Refs(i) - One(i, S), Pending, Cardinality(Readers(i)))
           /\ Quiet(vt[i], un[i])
           /\ un[i].mod = vtab[i].mod /\ un[i].nRef \in Nat
           /\ un[i].nRef > 0 => vtab[i].nRef > 0
  <2>1. S \in SUBSET (Linked \cup pDisconnect)
    OBVIOUS
  <2>2. \A i \in Insts : /\ Good(i, vt[i], Refs(i), Pending, Cardinality(Readers(i)))
                         /\ vt[i].mod = vtab[i].mod
    BY AlikeGood DEF Alike
  <2>3. un = Unlock(vt, Once(S))
    OBVIOUS
  <2> HIDE DEF S, un
  <2> QED
    BY <2>1, <2>2, <2>3, Unlocked
<1>2. Settle(un, nRefModule)
  OBVIOUS
<1>3. Linked' = {} /\ link' \in [Tables -> Insts \cup {NULL}]
  BY DEF Linked, Unlinked
<1> HIDE DEF un
<1>4. vtab' = un /\ nRefModule' \in [Modules -> Nat] /\ ModulesCounted'
  BY <1>1, <1>2, Settled
<1>5. \A i \in Insts : Refs(i)' = Refs(i) - One(i, S) /\ Readers(i)' = Readers(i)
  <2> TAKE i \in Insts
  <2>1. Refs(i)' = One(i, {}) + One(i, {}) + One(i, Pending) + Cardinality(Users(i))
    BY <1>3, SameUsers DEF Refs, One
  <2>2. One(i, S) = One(i, Linked) + One(i, pDisconnect)
    BY DEF One, IInv, TablesApart
  <2>3. /\ One(i, Linked) \in {0, 1} /\ One(i, pDisconnect) \in {0, 1}
        /\ One(i, Pending) \in {0, 1} /\ Cardinality(Users(i)) \in Nat
    BY OneOrNone, InstanceFacts
  <2>4. One(i, {}) = 0
    BY DEF One
  <2> HIDE DEF S
  <2>5. Refs(i)' = Refs(i) - One(i, S)
    BY <2>1, <2>2, <2>3, <2>4 DEF Refs
  <2> QED
    BY <2>5, SameUsers
<1> HIDE DEF S
<1>6. Held'
  BY <1>1, <1>4, <1>5 DEF Held
<1>7. AllTold
  <2> SUFFICES ASSUME NEW i \in Insts PROVE Told(vtab[i], un[i])
    BY <1>4 DEF AllTold
  <2>1. Quiet(vt[i], un[i]) /\ Alike(vtab[i], vt[i])
    BY <1>1
  <2> QED
    BY <2>1 DEF Alike, Quiet, Told, Unheard
<1>8. TablesApart'
  BY <1>3 DEF TablesApart, Unlinked
<1>9. \A i \in Insts : vtab'[i].obj => vtab[i].obj /\ vtab'[i].phase = vtab[i].phase
  <2> TAKE i \in Insts
  <2>1. Quiet(vt[i], un[i]) /\ Alike(vtab[i], vt[i])
    BY <1>1
  <2> QED
    BY <1>4, <2>1 DEF Alike, Quiet
<1> QED
  BY <1>1, <1>3, <1>4, <1>6, <1>7, <1>8, <1>9

(* No instance has changed but for savepoints.                             *)
LEMMA AllAlike ==
  ASSUME IInv, vtab' \in [Insts -> Instance],
         \A i \in Insts : Alike(vtab[i], vtab'[i]),
         UNCHANGED <<nRefModule, aModule, link, pDisconnect>>,
         schema'.tab = schema.tab,
         Pending' = Pending,
         SameStatements
  PROVE  Held' /\ ModulesCounted' /\ TablesApart' /\ AllTold
<1>1. \A i \in Insts : Refs(i)' = Refs(i) /\ Readers(i)' = Readers(i)
  BY SameRefs
<1>2. Held'
  BY <1>1, AlikeGood DEF Held
<1>3. ModulesCounted'
  BY DEF IInv, ModulesCounted, Living, Alike
<1>4. TablesApart'
  <2>1. \A i \in Insts : vtab'[i].nRef = Refs(i)'
    BY <1>2 DEF Held, Good
  <2> QED
    BY <2>1, TablesStay DEF Alike
<1>5. AllTold
  BY DEF AllTold, Told, Unheard, Alike
<1> QED
  BY <1>2, <1>3, <1>4, <1>5

LEMMA FinishedKeeps ==
  ASSUME IInv, Finished
  PROVE  Kept
<1>1. /\ com.op = "finish" /\ com.i > Len(aVTrans)
      /\ aVTrans' = <<>> /\ com' = NoCom
      /\ UNCHANGED <<aModule, autoCommit, nSavepoint, open>>
  BY DEF Finished
<1>2. /\ aVTrans \in Seq(Insts) /\ com.i \in Nat /\ vtab \in [Insts -> Instance]
      /\ schema \in SchemaType
  BY DEF IInv, TypeOK, SchemaType
<1>3. com' \in ComType /\ com'.op = "none" /\ com'.method = "none" /\ aVTrans' \in Seq(Insts)
  BY <1>1 DEF NoCom, ComType
<1>4. Pending = {} /\ Pending' = {}
  <2>1. Pending = PendingOf(aVTrans, com) /\ Pending' = PendingOf(aVTrans', com')
    BY DEF Pending, PendingOf
  <2>2. Range(aVTrans') = {}
    BY <1>1 DEF Range
  <2> QED
    BY <1>1, <1>2, <1>3, <2>1, <2>2, NonePending, AllPending
<1>5. NoWriter
  BY <1>1, NobodyWrites DEF InSync
<1>6. EachOnce' /\ CommitInOrder' /\ AllSyncedFirst'
  BY <1>1, <1>3 DEF EachOnce, CommitInOrder, AllSyncedFirst
<1>7. CASE open = "open" /\ com.method = "ROLLBACK" /\ schema.change
  <2> DEFINE c == [schema EXCEPT !.file = schema.disk, !.change = FALSE]
  <2>1. ResetAll(vtab, c)
    BY <1>7 DEF Finished
  <2>2. /\ Settle(Unlock(vtab, Once(pDisconnect \cup Linked)), nRefModule)
        /\ pDisconnect' = {}
        /\ link' = Unlinked
        /\ stmt' = Expire(stmt)
        /\ schema' = [c EXCEPT !.tab = c.file, !.stale = FALSE]
    BY <2>1 DEF ResetAll
  <2>3. schema' \in SchemaType
    BY <1>2, <2>2 DEF SchemaType
  <2>4. SameStatements /\ (\A s \in Stmts : stmt'[s].exists => stmt'[s].expired)
    BY <2>2, Expired
  <2>5. \A i \in Insts : Alike(vtab[i], vtab[i])
    BY <1>2 DEF Alike
  <2>6. /\ vtab' \in [Insts -> Instance] /\ nRefModule' \in [Modules -> Nat]
        /\ Held' /\ ModulesCounted' /\ TablesApart' /\ AllTold
        /\ link' \in [Tables -> Insts \cup {NULL}]
    BY <1>1, <1>4, <2>2, <2>4, <2>5, GivenUp
  <2>7. TypeOK'
    BY <1>1, <1>3, <2>2, <2>3, <2>4, <2>6
       DEF IInv, TypeOK, ComType, SchemaType, SameStatements
  <2>8. StatementsAgree'
    BY <1>5, <2>4, SameWriters
  <2>9. ClosedDown'
    BY <1>1, <1>7 DEF ClosedDown
  <2> QED
    BY <1>6, <2>6, <2>7, <2>8, <2>9 DEF IInv, Kept
<1>8. CASE ~(open = "open" /\ com.method = "ROLLBACK" /\ schema.change)
  <2>1. UNCHANGED <<vtab, nRefModule, pDisconnect, link, stmt, schema>>
    BY <1>8 DEF Finished
  <2>2. SameStatements
    BY <2>1, Unchanged
  <2>3. Held' /\ ModulesCounted' /\ AllTold
    BY <1>1, <1>4, <2>1, <2>2, SameRefs, SameInstances
  <2>4. TypeOK'
    BY <1>1, <1>3, <2>1 DEF IInv, TypeOK, ComType
  <2>5. TablesApart'
    BY <2>1 DEF IInv, TablesApart, Linked
  <2>6. StatementsAgree'
    BY <1>1, <1>5, <2>1, <2>2, SameWriters DEF IInv, StatementsAgree
  <2>7. ClosedDown'
    BY <1>1, <1>3, <2>1 DEF IInv, ClosedDown, Linked
  <2> QED
    BY <1>6, <2>3, <2>4, <2>5, <2>6, <2>7 DEF IInv, Kept
<1> QED
  BY <1>7, <1>8

LEMMA SavepointKeeps ==
  ASSUME IInv, Savepoint
  PROVE  Kept
<1>1. /\ Idle /\ NoWriter /\ nSavepoint' = 1
      /\ vtab' = [i \in Insts |->
           [vtab[i] EXCEPT !.iSavepoint = IF Reached(i) THEN 1 ELSE @, !.since = "no"]]
      /\ schema' = [schema EXCEPT !.saved = schema.file]
      /\ UNCHANGED <<aModule, nRefModule, link, pDisconnect, aVTrans, com, autoCommit,
                     stmt, open>>
  BY DEF Savepoint
<1>2. vtab \in [Insts -> Instance] /\ schema \in SchemaType
  BY DEF IInv, TypeOK, SchemaType
<1>3. schema' \in SchemaType /\ schema'.tab = schema.tab
  BY <1>1, <1>2 DEF SchemaType
<1>4. \A i \in Insts : Alike(vtab[i], vtab'[i])
  <2> TAKE i \in Insts
  <2> DEFINE k == IF Reached(i) THEN 1 ELSE vtab[i].iSavepoint
  <2>1. k \in Nat /\ vtab[i] \in Instance
    BY <1>2 DEF Instance
  <2> DEFINE w == [vtab[i] EXCEPT !.iSavepoint = k, !.since = "no"]
  <2>2. vtab'[i] = w
    BY <1>1, <1>2
  <2> HIDE DEF k
  <2>3. Alike(vtab[i], w)
    BY <2>1, SavepointFields DEF Alike
  <2> HIDE DEF w
  <2> QED
    BY <2>2, <2>3
<1>5. vtab' \in [Insts -> Instance]
  BY <1>1, <1>4 DEF Alike
<1>6. SameStatements /\ Pending' = Pending
  BY <1>1, Unchanged DEF Pending
<1>7. Held' /\ ModulesCounted' /\ TablesApart' /\ AllTold
  BY <1>1, <1>3, <1>4, <1>5, <1>6, AllAlike
<1>8. EachOnce' /\ CommitInOrder' /\ AllSyncedFirst'
  BY <1>1, <1>4, SameCommit DEF Alike
<1>9. TypeOK'
  <2>1. UNCHANGED <<aModule, nRefModule, link, pDisconnect, aVTrans, com, autoCommit,
                    stmt, open>>
    BY <1>1
  <2>2. nSavepoint' = 1
    BY <1>1
  <2>3. nSavepoint' \in 0..1
    BY <2>2
  <2> QED
    BY <1>3, <1>5, <2>1, <2>3 DEF IInv, TypeOK, SchemaType
<1>10. StatementsAgree' /\ ClosedDown'
  BY <1>1 DEF IInv, StatementsAgree, ClosedDown, InSync, Linked, Idle
<1> QED
  BY <1>7, <1>8, <1>9, <1>10 DEF IInv, Kept

LEMMA RollbackToKeeps ==
  ASSUME IInv, RollbackTo
  PROVE  Kept
<1> DEFINE vt == [i \in Insts |->
              [vtab[i] EXCEPT !.since =
                 IF Reached(i) /\ vtab[i].iSavepoint > 0 THEN "no"
                 ELSE IF @ = "yes" THEN "kept" ELSE @]]
           c == [schema EXCEPT !.file = schema.saved]
<1>1. /\ Idle /\ NoWriter
      /\ UNCHANGED <<aModule, aVTrans, com, autoCommit, nSavepoint, open>>
  BY DEF RollbackTo
<1>2. vtab \in [Insts -> Instance] /\ schema \in SchemaType /\ aVTrans \in Seq(Insts)
  BY DEF IInv, TypeOK, SchemaType
<1>3. c \in SchemaType /\ c.tab = schema.tab
  BY <1>2 DEF SchemaType
<1>4. \A i \in Insts : Alike(vtab[i], vt[i])
  <2> TAKE i \in Insts
  <2> DEFINE sn == IF Reached(i) /\ vtab[i].iSavepoint > 0 THEN "no"
                   ELSE IF vtab[i].since = "yes" THEN "kept" ELSE vtab[i].since
  <2>1. sn \in {"no", "yes", "kept"} /\ vtab[i] \in Instance
    BY <1>2 DEF Instance
  <2> DEFINE w == [vtab[i] EXCEPT !.since = sn]
  <2>2. vt[i] = w
    BY <1>2
  <2> HIDE DEF sn, vt
  <2>3. Alike(vtab[i], w)
    BY <2>1, SinceField DEF Alike
  <2> HIDE DEF w
  <2> QED
    BY <2>2, <2>3
<1>5. vt \in [Insts -> Instance]
  BY <1>4 DEF Alike
<1>6. Pending' = Pending
  BY <1>1 DEF Pending
<1>7. CASE schema.change
  <2>1. ResetAll(vt, c)
    BY <1>7 DEF RollbackTo
  <2>2. /\ Settle(Unlock(vt, Once(pDisconnect \cup Linked)), nRefModule)
        /\ pDisconnect' = {}
        /\ link' = Unlinked
        /\ stmt' = Expire(stmt)
        /\ schema' = [c EXCEPT !.tab = c.file, !.stale = FALSE]
    BY <2>1 DEF ResetAll
  <2>3. schema' \in SchemaType
    BY <1>3, <2>2 DEF SchemaType
  <2>4. SameStatements /\ (\A s \in Stmts : stmt'[s].exists => stmt'[s].expired)
    BY <2>2, Expired
  <2> HIDE DEF vt
  <2>5. /\ vtab' \in [Insts -> Instance] /\ nRefModule' \in [Modules -> Nat]
        /\ Held' /\ ModulesCounted' /\ TablesApart' /\ AllTold
        /\ link' \in [Tables -> Insts \cup {NULL}]
        /\ \A i \in Insts : vtab'[i].obj => vtab[i].obj /\ vtab'[i].phase = vtab[i].phase
    BY <1>1, <1>4, <1>6, <2>2, <2>4, GivenUp
  <2>6. EachOnce' /\ CommitInOrder' /\ AllSyncedFirst'
    BY <1>1, <2>5, SameCommit
  <2>7. TypeOK'
    BY <1>1, <2>2, <2>3, <2>4, <2>5 DEF IInv, TypeOK, SchemaType, SameStatements
  <2>8. StatementsAgree'
    BY <1>1, <2>4, SameWriters
  <2>9. ClosedDown'
    BY <1>1 DEF ClosedDown, Idle
  <2> QED
    BY <2>5, <2>6, <2>7, <2>8, <2>9 DEF IInv, Kept
<1>8. CASE ~schema.change
  <2>1. vtab' = vt /\ schema' = c /\ UNCHANGED <<nRefModule, pDisconnect, link, stmt>>
    BY <1>8 DEF RollbackTo
  <2> HIDE DEF vt, c
  <2>2. SameStatements
    BY <2>1, Unchanged
  <2>3. Held' /\ ModulesCounted' /\ TablesApart' /\ AllTold
    BY <1>1, <1>3, <1>4, <1>5, <1>6, <2>1, <2>2, AllAlike
  <2>4. EachOnce' /\ CommitInOrder' /\ AllSyncedFirst'
    BY <1>1, <1>4, <2>1, SameCommit DEF Alike
  <2>5. TypeOK'
    BY <1>1, <1>3, <1>5, <2>1 DEF IInv, TypeOK, SchemaType
  <2>6. StatementsAgree' /\ ClosedDown'
    BY <1>1, <2>1 DEF IInv, StatementsAgree, ClosedDown, InSync, Linked, Idle
  <2> QED
    BY <2>3, <2>4, <2>5, <2>6 DEF IInv, Kept
<1> QED
  BY <1>7, <1>8

(* The tables' references pass to pDisconnect.                             *)
LEMMA RereadKeeps ==
  ASSUME IInv, Reread
  PROVE  Kept
<1>1. /\ open = "open"
      /\ schema' = [schema EXCEPT !.tab = schema.file, !.stale = FALSE]
      /\ pDisconnect' = pDisconnect \cup Linked
      /\ link' = Unlinked
      /\ stmt' = Expire(stmt)
      /\ UNCHANGED <<aModule, nRefModule, vtab, aVTrans, com, autoCommit, nSavepoint, open>>
  BY DEF Reread
<1>2. schema \in SchemaType /\ schema' \in SchemaType
  BY <1>1 DEF IInv, TypeOK, SchemaType
<1>3. Linked \subseteq Insts
  BY DEF Linked, IInv, TypeOK
<1>4. Linked' = {} /\ link' \in [Tables -> Insts \cup {NULL}]
  BY <1>1 DEF Linked, Unlinked
<1>5. SameStatements /\ (\A s \in Stmts : stmt'[s].exists => stmt'[s].expired)
  BY <1>1, Expired
<1>6. Pending' = Pending
  BY <1>1 DEF Pending
<1>7. \A i \in Insts : Refs(i)' = Refs(i) /\ Readers(i)' = Readers(i)
  <2> TAKE i \in Insts
  <2>1. Refs(i)' = One(i, {}) + One(i, pDisconnect \cup Linked) + One(i, Pending)
                   + Cardinality(Users(i))
    BY <1>1, <1>4, <1>5, <1>6, SameUsers DEF Refs, One
  <2>2. One(i, {}) = 0 /\ One(i, pDisconnect \cup Linked) = One(i, Linked) + One(i, pDisconnect)
    BY DEF One, IInv, TablesApart
  <2>3. /\ One(i, Linked) \in {0, 1} /\ One(i, pDisconnect) \in {0, 1}
        /\ One(i, Pending) \in {0, 1} /\ Cardinality(Users(i)) \in Nat
    BY OneOrNone, InstanceFacts
  <2>4. Refs(i)' = Refs(i)
    BY <2>1, <2>2, <2>3 DEF Refs
  <2> QED
    BY <1>5, <2>4, SameUsers
<1>8. Held' /\ ModulesCounted' /\ AllTold
  BY <1>1, <1>6, <1>7, SameInstances
<1>9. EachOnce' /\ CommitInOrder' /\ AllSyncedFirst'
  BY <1>1, SameCommit
<1>10. TypeOK'
  BY <1>1, <1>2, <1>3, <1>4, <1>5 DEF IInv, TypeOK, SchemaType, SameStatements
<1>11. TablesApart'
  BY <1>1, <1>4 DEF TablesApart, Unlinked
<1>12. StatementsAgree'
  BY <1>1, <1>5, SameWriters
<1>13. ClosedDown'
  BY <1>1 DEF ClosedDown
<1> QED
  BY <1>8, <1>9, <1>10, <1>11, <1>12, <1>13 DEF IInv, Kept

-----------------------------------------------------------------------------
(* A disconnect.                                                           *)

LEMMA CloseKeeps ==
  ASSUME IInv, Close
  PROVE  Kept
<1>1. /\ ~InSync /\ open = "open" /\ NoWriter
      /\ Settle(Unlock(vtab, Once(pDisconnect \cup Linked)), nRefModule)
      /\ pDisconnect' = {}
      /\ link' = Unlinked
      /\ com' = Finalise("ROLLBACK")
      /\ open' = "closing"
      /\ UNCHANGED <<aModule, schema, aVTrans, autoCommit, nSavepoint, stmt>>
  BY DEF Close, Idle
<1>2. EachOnce' /\ aVTrans' \in Seq(Insts) /\ vtab \in [Insts -> Instance]
  BY <1>1 DEF IInv, EachOnce, TypeOK
<1>3. CommitInOrder' /\ AllSyncedFirst' /\ Pending' = Pending /\ com' \in ComType
  BY <1>1, <1>2, EndBegins
<1>4. SameStatements
  BY <1>1, Unchanged
<1>5. \A i \in Insts : Alike(vtab[i], vtab[i])
  BY <1>2 DEF Alike
<1>6. /\ vtab' \in [Insts -> Instance] /\ nRefModule' \in [Modules -> Nat]
      /\ Held' /\ ModulesCounted' /\ TablesApart' /\ AllTold
      /\ Linked' = {} /\ link' \in [Tables -> Insts \cup {NULL}]
  BY <1>1, <1>3, <1>4, <1>5, GivenUp
<1>7. TypeOK'
  BY <1>1, <1>3, <1>6 DEF IInv, TypeOK, ComType
<1>8. StatementsAgree'
  BY <1>1, <1>4, SameWriters
<1>9. ClosedDown'
  BY <1>1, <1>6 DEF ClosedDown, Finalise
<1> QED
  BY <1>2, <1>3, <1>6, <1>7, <1>8, <1>9 DEF IInv, Kept

LEMMA CloseAgainKeeps ==
  ASSUME IInv, CloseAgain
  PROVE  Kept
<1>1. /\ open = "closing" /\ ~InSync
      /\ \A s \in Stmts : ~stmt[s].exists
      /\ nRefModule' = [m \in Modules |-> nRefModule[m] - IF m = aModule THEN 1 ELSE 0]
      /\ aModule' = NULL
      /\ open' = "closed"
      /\ UNCHANGED <<vtab, schema, link, pDisconnect, aVTrans, com, autoCommit, nSavepoint, stmt>>
  BY DEF CloseAgain
<1>2. ASSUME NEW m \in Modules
      PROVE  /\ nRefModule'[m] \in Nat
             /\ nRefModule'[m] = One(m, {aModule'}) + Cardinality(Living(m)')
  <2>1. nRefModule[m] = One(m, {aModule}) + Cardinality(Living(m)) /\ Cardinality(Living(m)) \in Nat
    <3>1. IsFiniteSet(Insts)
      BY InstsFinite
    <3>2. IsFiniteSet(Living(m))
      BY <3>1, FS_Subset DEF Living
    <3> QED
      BY <3>2, FS_CardinalityType DEF IInv, ModulesCounted
  <2>2. Living(m)' = Living(m)
    BY <1>1 DEF Living
  <2>3. One(m, {aModule'}) = 0
    BY <1>1, VtabAssumption DEF One, Modules
  <2>4. nRefModule'[m] = nRefModule[m] - One(m, {aModule})
    BY <1>1 DEF One
  <2>5. One(m, {aModule}) \in {0, 1}
    BY OneOrNone
  <2> QED
    BY <2>1, <2>2, <2>3, <2>4, <2>5
<1>3. nRefModule' \in [Modules -> Nat]
  BY <1>1, <1>2
<1>4. TypeOK'
  BY <1>1, <1>3 DEF IInv, TypeOK
<1>5. ModulesCounted'
  BY <1>2 DEF ModulesCounted
<1>6. Held' /\ AllTold
  <2>1. Pending' = Pending /\ SameStatements
    BY <1>1, Unchanged DEF Pending
  <2>2. \A i \in Insts : Refs(i)' = Refs(i) /\ Readers(i)' = Readers(i)
    BY <1>1, <2>1, SameRefs
  <2>3. Held'
    BY <1>1, <2>1, <2>2 DEF IInv, Held
  <2> QED
    BY <1>1, <2>3 DEF AllTold, Told, Unheard
<1>7. EachOnce' /\ CommitInOrder' /\ AllSyncedFirst'
  BY <1>1, SameCommit
<1>8. TablesApart' /\ StatementsAgree'
  BY <1>1 DEF IInv, TablesApart, StatementsAgree, Linked, InSync
<1>9. ClosedDown'
  BY <1>1 DEF IInv, ClosedDown, Linked, InSync
<1> QED
  BY <1>4, <1>5, <1>6, <1>7, <1>8, <1>9 DEF IInv, Kept

-----------------------------------------------------------------------------
(* Statements that do nothing but unlock what waits.                       *)

LEMMA UnlistedSettled ==
  ASSUME IInv, Settle(Unlisted, nRefModule), pDisconnect' = {},
         UNCHANGED <<link, aModule>>, schema'.tab = schema.tab,
         Pending' = Pending, SameStatements
  PROVE  /\ vtab' \in [Insts -> Instance] /\ nRefModule' \in [Modules -> Nat]
         /\ Held' /\ ModulesCounted' /\ TablesApart' /\ AllTold
         /\ \A i \in Insts : vtab'[i].obj => vtab[i].obj /\ vtab'[i].phase = vtab[i].phase
<1> DEFINE un == Unlisted
<1>1. /\ un \in [Insts -> Instance]
      /\ \A i \in Insts :
           /\ Good(i, un[i], Refs(i) - One(i, pDisconnect), Pending, Cardinality(Readers(i)))
           /\ Quiet(vtab[i], un[i])
           /\ un[i].mod = vtab[i].mod /\ un[i].nRef \in Nat
           /\ un[i].nRef > 0 => vtab[i].nRef > 0
  BY UnlistedGood
<1>2. Settle(un, nRefModule)
  OBVIOUS
<1> HIDE DEF un
<1>3. vtab' = un /\ nRefModule' \in [Modules -> Nat] /\ ModulesCounted'
  BY <1>1, <1>2, Settled
<1>4. \A i \in Insts : /\ Refs(i)' = Refs(i) - One(i, pDisconnect)
                       /\ Readers(i)' = Readers(i)
  <2> TAKE i \in Insts
  <2>1. Refs(i)' = One(i, Linked) + One(i, {}) + One(i, Pending) + Cardinality(Users(i))
    BY SameUsers DEF Refs, One, Linked
  <2>2. /\ One(i, Linked) \in {0, 1} /\ One(i, pDisconnect) \in {0, 1}
        /\ One(i, Pending) \in {0, 1} /\ Cardinality(Users(i)) \in Nat
        /\ One(i, {}) = 0
    BY OneOrNone, InstanceFacts
  <2>3. Refs(i)' = Refs(i) - One(i, pDisconnect)
    BY <2>1, <2>2 DEF Refs
  <2> QED
    BY <2>3, SameUsers
<1>5. Held'
  BY <1>1, <1>3, <1>4 DEF Held
<1>6. TablesApart'
  <2>1. \A i \in Insts : /\ vtab'[i].nRef = Refs(i)'
                         /\ vtab'[i].nRef > 0 => (vtab[i].obj => vtab'[i].obj)
    BY <1>1, <1>3, <1>5 DEF Held, Good, Quiet
  <2> QED
    BY <2>1, TablesStay
<1>7. AllTold
  BY <1>1, <1>3 DEF AllTold, Told, Quiet
<1>8. \A i \in Insts : vtab'[i].obj => vtab[i].obj /\ vtab'[i].phase = vtab[i].phase
  BY <1>1, <1>3 DEF Quiet
<1> QED
  BY <1>1, <1>3, <1>5, <1>6, <1>7, <1>8

LEMMA CompileFailsKeeps ==
  ASSUME IInv, CompileFails
  PROVE  Kept
<1>1. /\ open = "open"
      /\ Settle(Unlisted, nRefModule)
      /\ pDisconnect' = {}
      /\ UNCHANGED <<aModule, schema, link, aVTrans, com, autoCommit, nSavepoint, stmt, open>>
  BY DEF CompileFails
<1>2. SameStatements /\ Pending' = Pending
  BY <1>1, Unchanged DEF Pending
<1>3. /\ vtab' \in [Insts -> Instance] /\ nRefModule' \in [Modules -> Nat]
      /\ Held' /\ ModulesCounted' /\ TablesApart' /\ AllTold
      /\ \A i \in Insts : vtab'[i].obj => vtab[i].obj /\ vtab'[i].phase = vtab[i].phase
  BY <1>1, <1>2, UnlistedSettled
<1>4. EachOnce' /\ CommitInOrder' /\ AllSyncedFirst'
  BY <1>1, <1>3, SameCommit
<1>5. TypeOK'
  BY <1>1, <1>3 DEF IInv, TypeOK
<1>6. StatementsAgree' /\ ClosedDown'
  BY <1>1 DEF IInv, StatementsAgree, ClosedDown, InSync
<1> QED
  BY <1>3, <1>4, <1>5, <1>6 DEF IInv, Kept

LEMMA CreateFailsKeeps ==
  ASSUME IInv, NEW t \in Tables, CreateFails(t)
  PROVE  Kept
<1>1. /\ open = "open" /\ ~InSync
      /\ Settle(Unlisted, nRefModule)
      /\ pDisconnect' = {}
      /\ stmt' = Expire(stmt)
      /\ UNCHANGED <<aModule, link, aVTrans, autoCommit, nSavepoint, open>>
  BY DEF CreateFails, Idle
<1>2. \/ NoWriter /\ com' = Finalise("ROLLBACK") /\ schema' = [schema EXCEPT !.change = TRUE]
      \/ com' = com /\ schema' = [schema EXCEPT !.change = TRUE, !.stale = TRUE]
  BY DEF CreateFails
<1>3. schema' \in SchemaType /\ schema'.tab = schema.tab
  <2>1. schema \in SchemaType
    BY DEF IInv, TypeOK, SchemaType
  <2> QED
    BY <1>2, <2>1 DEF SchemaType
<1>4. SameStatements /\ (\A s \in Stmts : stmt'[s].exists => stmt'[s].expired)
  BY <1>1, Expired
<1>5. EachOnce' /\ aVTrans' \in Seq(Insts)
  BY <1>1 DEF IInv, EachOnce, TypeOK
<1>6. Pending' = Pending /\ com' \in ComType
  <2>1. CASE com' = com
    BY <1>1, <2>1 DEF Pending, IInv, TypeOK, ComType
  <2>2. CASE com' = Finalise("ROLLBACK")
    BY <1>1, <1>5, <2>2, EndBegins
  <2> QED
    BY <1>2, <2>1, <2>2
<1>7. /\ vtab' \in [Insts -> Instance] /\ nRefModule' \in [Modules -> Nat]
      /\ Held' /\ ModulesCounted' /\ TablesApart' /\ AllTold
      /\ \A i \in Insts : vtab'[i].obj => vtab[i].obj /\ vtab'[i].phase = vtab[i].phase
  BY <1>1, <1>3, <1>4, <1>6, UnlistedSettled
<1>8. CommitInOrder' /\ AllSyncedFirst'
  <2>1. CASE com' = com
    BY <1>1, <1>7, <2>1, SameCommit
  <2>2. CASE com' = Finalise("ROLLBACK")
    BY <1>1, <1>5, <2>2, EndBegins
  <2> QED
    BY <1>2, <2>1, <2>2
<1>9. TypeOK'
  BY <1>1, <1>3, <1>4, <1>6, <1>7 DEF IInv, TypeOK, SchemaType, ComType, SameStatements
<1>10. StatementsAgree'
  BY <1>1, <1>2, <1>4, SameWriters
<1>11. ClosedDown'
  BY <1>1 DEF ClosedDown
<1> QED
  BY <1>5, <1>7, <1>8, <1>9, <1>10, <1>11 DEF IInv, Kept

-----------------------------------------------------------------------------
(* The steps of a statement.                                               *)

Runs == {"idle", "running", "open"}

LEMMA RunField ==
  ASSUME NEW q \in Statement, NEW r \in Runs
  PROVE  LET e == [q EXCEPT !.run = r] IN
         /\ e \in Statement /\ e.run = r /\ e.tab = q.tab /\ e.inst = q.inst
         /\ e.exists <=> q.exists
         /\ e.writes <=> q.writes
         /\ e.expired <=> q.expired
BY DEF Statement, Runs

(* Statement s has come to run as r says, and nothing else of it or of     *)
(* another has changed.                                                    *)
Moves(s, r) ==
  /\ stmt' \in [Stmts -> Statement] /\ stmt'[s].run = r
  /\ \A q \in Stmts : /\ stmt'[q].exists <=> stmt[q].exists
                      /\ stmt'[q].writes <=> stmt[q].writes
                      /\ stmt'[q].tab = stmt[q].tab /\ stmt'[q].inst = stmt[q].inst
                      /\ stmt'[q].expired <=> stmt[q].expired
                      /\ q # s => stmt'[q].run = stmt[q].run
  /\ \A i : /\ Users(i)' = Users(i)
            /\ r # "open" => Readers(i)' = Readers(i) \ {s}
            /\ r = "open" /\ stmt[s].inst = i => Readers(i)' = Readers(i) \cup {s}
            /\ r = "open" /\ stmt[s].inst # i => Readers(i)' = Readers(i)

LEMMA OneRuns ==
  ASSUME IInv, NEW s \in Stmts, NEW r \in Runs, stmt' = [stmt EXCEPT ![s].run = r]
  PROVE  Moves(s, r)
<1>1. stmt \in [Stmts -> Statement]
  BY DEF IInv, TypeOK
<1> DEFINE e == [stmt[s] EXCEPT !.run = r]
<1>2. stmt' = [stmt EXCEPT ![s] = e]
  BY <1>1
<1>3. /\ e \in Statement /\ e.run = r /\ e.tab = stmt[s].tab /\ e.inst = stmt[s].inst
      /\ e.exists <=> stmt[s].exists
      /\ e.writes <=> stmt[s].writes
      /\ e.expired <=> stmt[s].expired
  BY <1>1, RunField
<1> HIDE DEF e
<1>4. stmt' \in [Stmts -> Statement] /\ stmt'[s] = e /\ (\A q \in Stmts \ {s} : stmt'[q] = stmt[q])
  BY <1>1, <1>2, <1>3
<1>5. \A q \in Stmts : /\ stmt'[q].exists <=> stmt[q].exists
                       /\ stmt'[q].writes <=> stmt[q].writes
                       /\ stmt'[q].tab = stmt[q].tab /\ stmt'[q].inst = stmt[q].inst
                       /\ stmt'[q].expired <=> stmt[q].expired
                       /\ q # s => stmt'[q].run = stmt[q].run
  BY <1>3, <1>4
<1>6. stmt'[s].run = r
  BY <1>3, <1>4
<1>7. ASSUME NEW i
      PROVE  /\ Users(i)' = Users(i)
             /\ r # "open" => Readers(i)' = Readers(i) \ {s}
             /\ r = "open" /\ stmt[s].inst = i => Readers(i)' = Readers(i) \cup {s}
             /\ r = "open" /\ stmt[s].inst # i => Readers(i)' = Readers(i)
  BY <1>5, <1>6 DEF Users, Readers
<1> QED
  BY <1>4, <1>5, <1>6, <1>7 DEF Moves

LEMMA StatementsStay ==
  ASSUME IInv, NEW s \in Stmts, NEW r, stmt[s].exists, Moves(s, r),
         UNCHANGED <<link, open>>,
         \A q \in Stmts : stmt[q].writes /\ stmt'[q].run # "idle" =>
           ~InSync' /\ open = "open" /\ stmt[q].inst \in Range(aVTrans')
  PROVE  StatementsAgree'
<1> SUFFICES ASSUME NEW q \in Stmts
             PROVE  /\ ~stmt'[q].exists => stmt'[q].run = "idle" /\ ~stmt'[q].writes
                    /\ stmt'[q].exists => stmt'[q].tab \in Tables /\ stmt'[q].inst \in Insts
                    /\ open = "open" /\ stmt'[q].exists /\ ~stmt'[q].expired
                         => link[stmt'[q].tab] = stmt'[q].inst
                    /\ stmt'[q].writes /\ stmt'[q].run # "idle" =>
                         ~InSync' /\ open = "open" /\ stmt'[q].inst \in Range(aVTrans')
  BY DEF StatementsAgree
<1>1. /\ ~stmt[q].exists => stmt[q].run = "idle" /\ ~stmt[q].writes
      /\ stmt[q].exists => stmt[q].tab \in Tables /\ stmt[q].inst \in Insts
      /\ open = "open" /\ stmt[q].exists /\ ~stmt[q].expired
           => link[stmt[q].tab] = stmt[q].inst
  BY DEF IInv, StatementsAgree
<1>2. /\ stmt'[q].exists <=> stmt[q].exists
      /\ stmt'[q].writes <=> stmt[q].writes
      /\ stmt'[q].expired <=> stmt[q].expired
      /\ stmt'[q].tab = stmt[q].tab /\ stmt'[q].inst = stmt[q].inst
      /\ q # s => stmt'[q].run = stmt[q].run
  BY DEF Moves
<1>3. stmt'[q].writes /\ stmt'[q].run # "idle" =>
        ~InSync' /\ open = "open" /\ stmt[q].inst \in Range(aVTrans')
  BY <1>2
<1>4. ~stmt'[q].exists => stmt'[q].run = "idle" /\ ~stmt'[q].writes
  BY ONLY <1>1, <1>2, stmt[s].exists
<1>5. /\ stmt'[q].exists => stmt'[q].tab \in Tables /\ stmt'[q].inst \in Insts
      /\ open = "open" /\ stmt'[q].exists /\ ~stmt'[q].expired
           => link[stmt'[q].tab] = stmt'[q].inst
  BY ONLY <1>1, <1>2
<1> QED
  BY <1>2, <1>3, <1>4, <1>5

(* OP_VUpdate.                                                             *)
LEMMA UpdateKeeps ==
  ASSUME IInv, NEW s \in Stmts, Update(s)
  PROVE  Kept
<1> DEFINE p == stmt[s].inst
           v == vtab[p]
           sn == IF nSavepoint = 1 THEN "yes" ELSE v.since
           u == [v EXCEPT !.phase = "enlisted", !.dirty = TRUE, !.since = sn]
<1>1. /\ open = "open" /\ stmt[s].writes /\ stmt[s].run # "idle"
      /\ v.obj
      /\ UNCHANGED <<aModule, nRefModule, schema, link, pDisconnect, aVTrans, com, autoCommit,
                     nSavepoint, stmt, open>>
  BY DEF Update
<1>2. /\ vtab \in [Insts -> Instance] /\ aVTrans \in Seq(Insts)
      /\ p \in Insts /\ p \in Range(aVTrans) /\ com.op = "none"
  BY <1>1 DEF IInv, TypeOK, StatementsAgree, InSync
<1>3. Pending = Range(aVTrans) /\ Pending' = Pending
  BY <1>1, <1>2, AllPending DEF Pending, PendingOf
<1>4. Good(p, v, Refs(p), Pending, Cardinality(Readers(p)))
  BY <1>2, InstanceFacts
<1>5. v \in Instance /\ v.phase \in {"enlisted", "synced"}
  BY <1>1, <1>2, <1>3, <1>4 DEF Good
<1>6. vtab' = [vtab EXCEPT ![p] = u]
  <2>1. vtab' = [vtab EXCEPT
          ![p].phase = IF @ \in {"enlisted", "synced"} THEN "enlisted" ELSE "broken",
          ![p].dirty = TRUE,
          ![p].since = IF nSavepoint = 1 THEN "yes" ELSE @]
    BY DEF Update
  <2> QED
    BY <1>2, <1>5, <2>1
<1>7. /\ u \in Instance /\ u.phase = "enlisted" /\ u.mod = v.mod /\ u.nRef = v.nRef
      /\ u.obj = v.obj /\ u.cursors = v.cursors /\ u.dirty
  <2>1. sn \in {"no", "yes", "kept"} /\ "enlisted" \in Phases
    BY <1>5 DEF Instance, Phases
  <2> HIDE DEF sn
  <2> QED
    BY <1>5, <2>1 DEF Instance
<1> HIDE DEF u
<1>8. SameStatements
  BY <1>1, Unchanged
<1>9. \A i \in Insts : Refs(i)' = Refs(i) /\ Readers(i)' = Readers(i)
  BY <1>1, <1>3, <1>8, SameRefs
<1>10. vtab' \in [Insts -> Instance] /\ Held' /\ ModulesCounted' /\ AllTold
  <2>1. PICK c \in Insts : c = p
    BY <1>2
  <2>2. Good(c, u, Refs(c), Pending, Cardinality(Readers(c)))
    BY <1>2, <1>3, <1>4, <1>5, <1>7, <2>1 DEF Good
  <2>3. Good(c, u, Refs(c)', Pending', Cardinality(Readers(c)'))
    BY <1>3, <1>9, <2>2
  <2>4. u.dirty = TRUE
    BY <1>7 DEF Instance
  <2>5. /\ Told(vtab[c], u) /\ u.mod = vtab[c].mod
        /\ u.nRef > 0 <=> vtab[c].nRef > 0
    BY <1>5, <1>7, <2>1, <2>4 DEF Told
  <2>6. vtab' = [vtab EXCEPT ![c] = u]
    BY <1>6, <2>1
  <2> QED
    BY <1>1, <1>3, <1>9, <2>3, <2>5, <2>6, OneInstance
<1>11. EachOnce' /\ CommitInOrder' /\ AllSyncedFirst'
  BY <1>1, <1>2 DEF IInv, EachOnce, CommitInOrder, AllSyncedFirst
<1>12. TypeOK'
  BY <1>1, <1>10 DEF IInv, TypeOK
<1>13. TablesApart'
  <2>1. \A i \in Insts : /\ vtab'[i].nRef = Refs(i)'
                         /\ vtab'[i].nRef > 0 => (vtab[i].obj => vtab'[i].obj)
    BY <1>2, <1>6, <1>7, <1>10 DEF Held, Good
  <2> QED
    BY <1>1, <2>1, TablesStay
<1>14. StatementsAgree' /\ ClosedDown'
  BY <1>1 DEF IInv, StatementsAgree, ClosedDown, InSync
<1> QED
  BY <1>10, <1>11, <1>12, <1>13, <1>14 DEF IInv, Kept

(* OP_VOpen.                                                               *)
LEMMA OpenKeeps ==
  ASSUME IInv, NEW s \in Stmts, Open(s)
  PROVE  Kept
<1>1. /\ open = "open" /\ stmt[s].run = "running"
      /\ UNCHANGED <<aModule, nRefModule, schema, link, pDisconnect, aVTrans, com, autoCommit,
                     nSavepoint, open>>
  BY DEF Open
<1>2. /\ vtab \in [Insts -> Instance] /\ stmt[s].exists
  BY <1>1 DEF IInv, TypeOK, StatementsAgree
<1>3. PICK p \in Insts : p = stmt[s].inst
  BY <1>2 DEF IInv, StatementsAgree
<1> DEFINE v == vtab[p]
           n == v.cursors + 1
           u == [v EXCEPT !.cursors = n]
<1>4. \/ v.obj /\ vtab' = [vtab EXCEPT ![p] = u] /\ stmt' = [stmt EXCEPT ![s].run = "open"]
      \/ vtab' = vtab /\ stmt' = [stmt EXCEPT ![s].run = "idle"]
  BY <1>2, <1>3 DEF Open
<1>5. PICK r \in Runs :
        /\ stmt' = [stmt EXCEPT ![s].run = r]
        /\ \/ r = "idle" /\ vtab' = vtab
           \/ r = "open" /\ v.obj /\ vtab' = [vtab EXCEPT ![p] = u]
  BY <1>4 DEF Runs
<1>6. Moves(s, r)
  BY <1>5, OneRuns
<1>7. Pending' = Pending
  BY <1>1 DEF Pending
<1>8. \A i \in Insts : Refs(i)' = Refs(i)
  BY <1>1, <1>6, <1>7 DEF Moves, Refs, Linked, One
<1>9. \A i \in Insts : s \notin Readers(i)
  BY <1>1 DEF Readers
<1>10. /\ vtab' \in [Insts -> Instance] /\ Held' /\ ModulesCounted' /\ AllTold
       /\ \A i \in Insts : vtab'[i].obj = vtab[i].obj /\ vtab'[i].phase = vtab[i].phase
  <2>1. CASE r = "idle"
    <3>1. \A i \in Insts : Readers(i)' = Readers(i)
      BY <1>6, <1>9, <2>1 DEF Moves
    <3>2. vtab' = vtab
      BY <1>5, <2>1
    <3> QED
      BY <1>1, <1>2, <1>7, <1>8, <3>1, <3>2, SameInstances
  <2>2. CASE r = "open"
    <3>1. v.obj /\ vtab' = [vtab EXCEPT ![p] = u]
      BY <1>5, <2>2
    <3>2. Good(p, v, Refs(p), Pending, Cardinality(Readers(p)))
      BY InstanceFacts
    <3>3. v \in Instance /\ n \in Nat
      BY <3>2 DEF Good, Instance
    <3> HIDE DEF n
    <3>4. /\ u \in Instance /\ u.phase = v.phase /\ u.mod = v.mod /\ u.nRef = v.nRef
          /\ u.obj = v.obj /\ u.cursors = n /\ u.dirty = v.dirty
      BY <3>3, CursorField
    <3> HIDE DEF u
    <3>5. Cardinality(Readers(p)') = Cardinality(Readers(p)) + 1
      <4>1. Readers(p)' = Readers(p) \cup {s} /\ s \notin Readers(p)
        BY <1>3, <1>6, <1>9, <2>2 DEF Moves
      <4>2. IsFiniteSet(Readers(p))
        <5>1. Readers(p) \in SUBSET Stmts
          BY DEF Readers
        <5> QED
          BY <5>1, SubsetCounts
      <4> QED
        BY <4>1, <4>2, FS_AddElement
    <3>6. Good(p, u, Refs(p)', Pending', Cardinality(Readers(p)'))
      <4>1. u.cursors = Cardinality(Readers(p)')
        BY <3>2, <3>4, <3>5 DEF Good, n
      <4>2. Refs(p)' = Refs(p)
        BY <1>8
      <4> QED
        BY <1>7, <3>2, <3>4, <4>1, <4>2 DEF Good
    <3>7. Told(v, u)
      <4>1. v.phase \notin {"none", "ended"} /\ u.cursors = v.cursors + 1
        BY <3>1, <3>2, <3>4 DEF Good, n
      <4> QED
        BY <3>4, <4>1 DEF Told
    <3>8. \A i \in Insts \ {p} : Refs(i)' = Refs(i) /\ Readers(i)' = Readers(i)
      BY <1>3, <1>6, <1>8, <2>2 DEF Moves
    <3>9. /\ u.mod = vtab[p].mod /\ Told(vtab[p], u)
          /\ u.nRef > 0 <=> vtab[p].nRef > 0
      BY <3>4, <3>7
    <3>10. vtab' \in [Insts -> Instance] /\ Held' /\ ModulesCounted' /\ AllTold
      BY <1>1, <1>7, <3>1, <3>6, <3>8, <3>9, OneInstance
    <3>11. \A i \in Insts : vtab'[i].obj = vtab[i].obj /\ vtab'[i].phase = vtab[i].phase
      BY <1>2, <3>1, <3>4
    <3> QED
      BY <3>10, <3>11
  <2> QED
    BY <1>5, <2>1, <2>2
<1>11. EachOnce' /\ CommitInOrder' /\ AllSyncedFirst'
  BY <1>1, <1>10, SameCommit
<1>12. TypeOK'
  BY <1>1, <1>6, <1>10 DEF Moves, IInv, TypeOK
<1>13. TablesApart'
  <2>1. \A i \in Insts : vtab'[i].nRef = Refs(i)'
    BY <1>10 DEF Held, Good
  <2> QED
    BY <1>1, <1>10, <2>1, TablesStay
<1>14. StatementsAgree'
  <2>1. \A q \in Stmts : stmt[q].writes /\ stmt'[q].run # "idle" =>
          ~InSync' /\ open = "open" /\ stmt[q].inst \in Range(aVTrans')
    BY <1>1, <1>6 DEF Moves, IInv, StatementsAgree, InSync
  <2> QED
    BY <1>1, <1>2, <1>6, <2>1, StatementsStay
<1>15. ClosedDown'
  BY <1>1 DEF ClosedDown
<1> QED
  BY <1>10, <1>11, <1>12, <1>13, <1>14, <1>15 DEF IInv, Kept

(* The first step: who writes joins the transaction, unless it has         *)
(* already.                                                                *)
LEMMA StartKeeps ==
  ASSUME IInv, NEW s \in Stmts, Start(s)
  PROVE  Kept
<1>1. /\ open = "open"
      /\ stmt[s].exists /\ ~stmt[s].expired /\ stmt[s].run = "idle"
      /\ stmt' = [stmt EXCEPT ![s].run = "running"]
      /\ UNCHANGED <<aModule, nRefModule, schema, link, pDisconnect, com, autoCommit,
                     nSavepoint, open>>
  BY DEF Start
<1>2. vtab \in [Insts -> Instance] /\ aVTrans \in Seq(Insts) /\ nSavepoint \in Nat
  BY DEF IInv, TypeOK
<1>3. PICK p \in Insts : p = stmt[s].inst
  BY <1>1 DEF IInv, StatementsAgree
<1> DEFINE v == vtab[p]
<1>4. Good(p, v, Refs(p), Pending, Cardinality(Readers(p))) /\ Refs(p) \in Nat
  BY InstanceFacts
<1>5. v.obj
  <2>1. link[stmt[s].tab] = p /\ stmt[s].tab \in Tables
    BY <1>1, <1>3 DEF IInv, StatementsAgree
  <2>2. p # NULL
    BY VtabAssumption DEF Insts
  <2> QED
    BY <2>1, <2>2 DEF IInv, TablesApart
<1>6. Moves(s, "running")
  BY <1>1, OneRuns DEF Runs
<1>7. \A i \in Insts : /\ Users(i)' = Users(i)
                       /\ Readers(i)' = Readers(i)
  BY <1>1, <1>6 DEF Moves, Readers
<1>8. CASE ~stmt[s].writes \/ p \in Range(aVTrans)
  <2>1. UNCHANGED <<vtab, aVTrans>>
    BY <1>3, <1>8 DEF Start, EnlistIn
  <2>2. Pending' = Pending
    BY <1>1, <2>1 DEF Pending
  <2>3. \A i \in Insts : Refs(i)' = Refs(i)
    BY <1>1, <1>7, <2>2 DEF Refs, Linked, One
  <2>4. Held' /\ ModulesCounted' /\ AllTold
    BY <1>1, <1>7, <2>1, <2>2, <2>3, SameInstances
  <2>5. EachOnce' /\ CommitInOrder' /\ AllSyncedFirst'
    BY <1>1, <2>1, SameCommit
  <2>6. TypeOK'
    BY <1>1, <1>6, <2>1 DEF IInv, TypeOK, Moves
  <2>7. TablesApart'
    BY <1>1, <2>1 DEF IInv, TablesApart, Linked
  <2>8. StatementsAgree'
    <3>1. stmt[s].writes => ~InSync /\ p \in Range(aVTrans)
      BY <1>8 DEF Start
    <3>2. \A q \in Stmts : stmt[q].writes /\ stmt'[q].run # "idle" =>
            ~InSync' /\ open = "open" /\ stmt[q].inst \in Range(aVTrans')
      BY <1>1, <1>3, <1>6, <2>1, <3>1 DEF Moves, IInv, StatementsAgree, InSync
    <3> QED
      BY <1>1, <1>6, <3>2, StatementsStay
  <2>9. ClosedDown'
    BY <1>1 DEF ClosedDown
  <2> QED
    BY <2>4, <2>5, <2>6, <2>7, <2>8, <2>9 DEF IInv, Kept
<1>9. CASE stmt[s].writes /\ p \notin Range(aVTrans)
  <2> DEFINE n == v.nRef + 1
             u == [v EXCEPT !.phase = "enlisted", !.nRef = n, !.iSavepoint = nSavepoint]
  <2>1. ~InSync /\ com.op = "none"
    BY <1>9 DEF Start, InSync
  <2>2. aVTrans' = Append(aVTrans, p)
    BY <1>3, <1>9 DEF Start, EnlistIn
  <2>3. /\ aVTrans' \in Seq(Insts) /\ Range(aVTrans') = Range(aVTrans) \cup {p} /\ EachOnce'
    <3>1. \A j, k \in DOMAIN aVTrans : aVTrans[j] = aVTrans[k] => j = k
      BY DEF IInv, EachOnce
    <3> QED
      BY <1>2, <1>9, <2>2, <3>1, Enlisted DEF EachOnce
  <2>4. Pending = Range(aVTrans) /\ Pending' = Pending \cup {p} /\ p \notin Pending
    <3>1. Pending = PendingOf(aVTrans, com) /\ Pending' = PendingOf(aVTrans', com)
      BY <1>1 DEF Pending, PendingOf
    <3> QED
      BY <1>2, <1>9, <2>1, <2>3, <3>1, AllPending
  <2>5. v \in Instance /\ v.phase = "idle" /\ n \in Nat /\ v.nRef > 0
    BY <1>4, <1>5, <2>4 DEF Good, Instance
  <2>6. vtab' = [vtab EXCEPT ![p] = u]
    <3>1. vtab' = [vtab EXCEPT ![p].phase = IF @ = "idle" THEN "enlisted" ELSE "broken",
                               ![p].nRef = @ + 1,
                               ![p].iSavepoint = nSavepoint]
      BY <1>3, <1>9 DEF Start, EnlistIn
    <3> QED
      BY <1>2, <2>5, <3>1
  <2>7. /\ u \in Instance /\ u.phase = "enlisted" /\ u.mod = v.mod /\ u.nRef = n
        /\ u.obj = v.obj /\ u.cursors = v.cursors /\ u.dirty = v.dirty
    <3>1. PICK w \in Instance, k \in Nat, m \in Nat : w = v /\ k = nSavepoint /\ m = n
      BY <1>2, <2>5
    <3> DEFINE x == [w EXCEPT !.phase = "enlisted", !.nRef = m, !.iSavepoint = k]
    <3>2. u = x
      BY <3>1
    <3>3. /\ x \in Instance /\ x.phase = "enlisted" /\ x.mod = w.mod /\ x.nRef = m
          /\ x.obj = w.obj /\ x.cursors = w.cursors /\ x.dirty = w.dirty
      BY DEF Instance, Phases
    <3> HIDE DEF u, x, n
    <3> QED
      BY <3>1, <3>2, <3>3
  <2> HIDE DEF u
  <2>8. /\ Refs(p)' = Refs(p) + 1
        /\ \A i \in Insts \ {p} : Refs(i)' = Refs(i) /\ (i \in Pending' <=> i \in Pending)
    <3>1. \A i \in Insts : Refs(i)' = One(i, Linked) + One(i, pDisconnect) + One(i, Pending')
                                      + Cardinality(Users(i))
      BY <1>1, <1>7 DEF Refs, Linked, One
    <3>2. One(p, Pending) = 0 /\ One(p, Pending') = 1
      BY <2>4 DEF One
    <3>3. One(p, Linked) \in {0, 1} /\ One(p, pDisconnect) \in {0, 1} /\ Cardinality(Users(p)) \in Nat
      BY OneOrNone, InstanceFacts
    <3>4. Refs(p)' = Refs(p) + 1
      BY <3>1, <3>2, <3>3 DEF Refs
    <3>5. \A i \in Insts \ {p} : (i \in Pending' <=> i \in Pending) /\ One(i, Pending') = One(i, Pending)
      BY <2>4 DEF One
    <3>6. \A i \in Insts \ {p} : Refs(i)' = Refs(i)
      BY <3>1, <3>5 DEF Refs
    <3> QED
      BY <3>4, <3>5, <3>6
  <2>9. Good(p, u, Refs(p)', Pending', Cardinality(Readers(p)'))
    <3>1. Readers(p)' = Readers(p)
      BY <1>7
    <3>2. u.nRef = Refs(p)' /\ Refs(p)' > 0
      BY <1>4, <2>7, <2>8 DEF Good
    <3> QED
      BY <1>4, <1>5, <2>4, <2>7, <3>1, <3>2 DEF Good
  <2>10. /\ Told(vtab[p], u) /\ u.mod = vtab[p].mod
         /\ u.nRef > 0 <=> vtab[p].nRef > 0
    BY <2>5, <2>7 DEF Told, Instance
  <2>11. vtab' \in [Insts -> Instance] /\ Held' /\ ModulesCounted' /\ AllTold
    BY <1>1, <1>7, <2>6, <2>8, <2>9, <2>10, OneInstance
  <2>12. CommitInOrder' /\ AllSyncedFirst'
    BY <1>1, <2>1 DEF IInv, CommitInOrder, AllSyncedFirst
  <2>13. TypeOK'
    BY <1>1, <1>6, <2>3, <2>11 DEF IInv, TypeOK, Moves
  <2>14. TablesApart'
    <3>1. \A i \in Insts : /\ vtab'[i].nRef = Refs(i)'
                           /\ vtab'[i].nRef > 0 => (vtab[i].obj => vtab'[i].obj)
      BY <1>2, <2>6, <2>7, <2>11 DEF Held, Good
    <3> QED
      BY <1>1, <3>1, TablesStay
  <2>15. StatementsAgree'
    <3>1. \A q \in Stmts : stmt[q].writes /\ stmt'[q].run # "idle" =>
            ~InSync' /\ open = "open" /\ stmt[q].inst \in Range(aVTrans')
      BY <1>1, <1>3, <1>6, <2>1, <2>3 DEF Moves, IInv, StatementsAgree, InSync
    <3> QED
      BY <1>1, <1>6, <3>1, StatementsStay
  <2>16. ClosedDown'
    BY <1>1 DEF ClosedDown
  <2> QED
    BY <2>3, <2>11, <2>12, <2>13, <2>14, <2>15, <2>16 DEF IInv, Kept
<1> QED
  BY <1>8, <1>9

(* A statement stops: its cursor is closed, and if it was the last to      *)
(* write outside a transaction, a commit or a rollback begins.             *)
LEMMA StopKeeps ==
  ASSUME IInv, NEW s \in Stmts, Usable, stmt[s].run # "idle",
         vtab' = CloseCursor(s),
         stmt' = [stmt EXCEPT ![s].run = "idle"],
         \/ com' = com
         \/ ~InSync /\ ~OtherWriters(s) /\ open = "open" /\ (StartSync \/ com' = Finalise("ROLLBACK")),
         UNCHANGED <<aModule, nRefModule, schema, link, pDisconnect, aVTrans, open>>,
         autoCommit' \in BOOLEAN, nSavepoint' \in 0..1
  PROVE  Kept
<1>1. vtab \in [Insts -> Instance] /\ stmt[s].exists
  BY DEF IInv, TypeOK, StatementsAgree
<1>2. PICK p \in Insts : p = stmt[s].inst
  BY <1>1 DEF IInv, StatementsAgree
<1> DEFINE v == vtab[p]
<1>3. Moves(s, "idle")
  BY OneRuns DEF Runs
<1>4. EachOnce' /\ aVTrans' \in Seq(Insts)
  BY DEF IInv, EachOnce, TypeOK
<1>5. Pending' = Pending /\ com' \in ComType
  <2>1. CASE com' = com
    BY <2>1 DEF Pending, IInv, TypeOK, ComType
  <2>2. CASE ~InSync /\ (StartSync \/ com' = Finalise("ROLLBACK"))
    BY <1>4, <2>2, EndBegins
  <2> QED
    BY <2>1, <2>2
<1>6. \A i \in Insts : Refs(i)' = Refs(i) /\ Readers(i)' = Readers(i) \ {s}
  BY <1>3, <1>5 DEF Moves, Refs, Linked, One
<1>7. /\ vtab' \in [Insts -> Instance] /\ Held' /\ ModulesCounted' /\ AllTold
      /\ \A i \in Insts : vtab'[i].obj = vtab[i].obj /\ vtab'[i].phase = vtab[i].phase
  <2>1. CASE stmt[s].run # "open"
    <3>1. vtab' = vtab
      BY <2>1 DEF CloseCursor
    <3>2. \A i \in Insts : Readers(i)' = Readers(i)
      BY <1>6, <2>1 DEF Readers
    <3> QED
      BY <1>1, <1>5, <1>6, <3>1, <3>2, SameInstances
  <2>2. CASE stmt[s].run = "open"
    <3> DEFINE n == v.cursors - 1
               u == [v EXCEPT !.cursors = n]
    <3>1. Good(p, v, Refs(p), Pending, Cardinality(Readers(p)))
      BY InstanceFacts
    <3>2. s \in Readers(p) /\ (\A i \in Insts \ {p} : s \notin Readers(i))
      BY <1>2, <2>2 DEF Readers
    <3>3. Cardinality(Readers(p)') = Cardinality(Readers(p)) - 1 /\ Cardinality(Readers(p)) > 0
      <4>1. Readers(p) \in SUBSET Stmts /\ Readers(p)' = Readers(p) \ {s}
        BY <1>6 DEF Readers
      <4>2. /\ IsFiniteSet(Readers(p)) /\ Cardinality(Readers(p)) \in Nat
            /\ Cardinality(Readers(p)) = 0 <=> Readers(p) = {}
        BY <4>1, SubsetCounts
      <4>3. Cardinality(Readers(p) \ {s}) = Cardinality(Readers(p)) - 1
        BY <3>2, <4>2, FS_RemoveElement
      <4> QED
        BY <3>2, <4>1, <4>2, <4>3
    <3>4. v \in Instance /\ v.cursors > 0 /\ n \in Nat
      BY <3>1, <3>3 DEF Good, Instance
    <3>5. vtab' = [vtab EXCEPT ![p] = u]
      BY <1>1, <1>2, <2>2 DEF CloseCursor
    <3> HIDE DEF n
    <3>6. /\ u \in Instance /\ u.phase = v.phase /\ u.mod = v.mod /\ u.nRef = v.nRef
          /\ u.obj = v.obj /\ u.cursors = n /\ u.dirty = v.dirty
      BY <3>4, CursorField
    <3> HIDE DEF u
    <3>7. Good(p, u, Refs(p)', Pending', Cardinality(Readers(p)'))
      <4>1. u.cursors = Cardinality(Readers(p)')
        BY <3>1, <3>3, <3>6 DEF Good, n
      <4>2. Refs(p)' = Refs(p)
        BY <1>6
      <4> QED
        BY <1>5, <3>1, <3>6, <4>1, <4>2 DEF Good
    <3>8. /\ Told(vtab[p], u) /\ u.mod = vtab[p].mod
          /\ u.nRef > 0 <=> vtab[p].nRef > 0
      BY <3>4, <3>6 DEF Told, n
    <3>9. \A i \in Insts \ {p} : Refs(i)' = Refs(i) /\ Readers(i)' = Readers(i)
      <4>1. \A i \in Insts \ {p} : Readers(i) \ {s} = Readers(i)
        BY <3>2
      <4> QED
        BY <1>6, <4>1
    <3>10. vtab' \in [Insts -> Instance] /\ Held' /\ ModulesCounted' /\ AllTold
      BY <1>5, <3>5, <3>7, <3>8, <3>9, OneInstance
    <3>11. \A i \in Insts : vtab'[i].obj = vtab[i].obj /\ vtab'[i].phase = vtab[i].phase
      BY <1>1, <3>5, <3>6
    <3> QED
      BY <3>10, <3>11
  <2> QED
    BY <2>1, <2>2
<1>8. CommitInOrder' /\ AllSyncedFirst'
  <2>1. CASE com' = com
    BY <1>7, <2>1, SameCommit
  <2>2. CASE ~InSync /\ (StartSync \/ com' = Finalise("ROLLBACK"))
    BY <1>4, <2>2, EndBegins
  <2> QED
    BY <2>1, <2>2
<1>9. TypeOK'
  BY <1>3, <1>5, <1>7 DEF IInv, TypeOK, ComType, Moves
<1>10. TablesApart'
  <2>1. \A i \in Insts : vtab'[i].nRef = Refs(i)'
    BY <1>7 DEF Held, Good
  <2> QED
    BY <1>7, <2>1, TablesStay
<1>11. StatementsAgree'
  <2>1. \A q \in Stmts : stmt[q].writes /\ stmt'[q].run # "idle" =>
          ~InSync' /\ open = "open" /\ stmt[q].inst \in Range(aVTrans')
    <3> SUFFICES ASSUME NEW q \in Stmts, stmt[q].writes, stmt'[q].run # "idle"
                 PROVE  ~InSync' /\ open = "open" /\ stmt[q].inst \in Range(aVTrans')
      OBVIOUS
    <3>1. q # s /\ stmt[q].run # "idle"
      BY <1>3 DEF Moves
    <3>2. OtherWriters(s)
      BY <3>1 DEF OtherWriters
    <3> QED
      BY <3>1, <3>2 DEF IInv, StatementsAgree, InSync
  <2> QED
    BY <1>1, <1>3, <2>1, StatementsStay
<1>12. ClosedDown'
  <2>1. open # "open" => com' = com
    OBVIOUS
  <2> QED
    BY <2>1, <1>3 DEF IInv, ClosedDown, Linked, Moves
<1> QED
  BY <1>4, <1>7, <1>8, <1>9, <1>10, <1>11, <1>12 DEF IInv, Kept

LEMMA HaltKeeps ==
  ASSUME IInv, NEW s \in Stmts, Halt(s)
  PROVE  Kept
<1>1. /\ Usable /\ stmt[s].run # "idle"
      /\ vtab' = CloseCursor(s)
      /\ stmt' = [stmt EXCEPT ![s].run = "idle"]
      /\ UNCHANGED <<aModule, nRefModule, schema, link, pDisconnect, aVTrans, autoCommit,
                     nSavepoint, open>>
  BY DEF Halt
<1>2. \/ com' = com
      \/ ~InSync /\ ~OtherWriters(s) /\ aVTrans # <<>> /\ StartSync
  BY DEF Halt
<1>3. open # "open" /\ ~InSync => aVTrans = <<>>
  BY DEF IInv, ClosedDown, InSync
<1>4. autoCommit' \in BOOLEAN /\ nSavepoint' \in 0..1
  BY <1>1 DEF IInv, TypeOK
<1> QED
  BY <1>1, <1>2, <1>3, <1>4, StopKeeps

LEMMA HaltFailsKeeps ==
  ASSUME IInv, NEW s \in Stmts, HaltFails(s)
  PROVE  Kept
<1>1. /\ ~InSync /\ open = "open" /\ stmt[s].run # "idle" /\ ~OtherWriters(s)
      /\ vtab' = CloseCursor(s)
      /\ stmt' = [stmt EXCEPT ![s].run = "idle"]
      /\ com' = Finalise("ROLLBACK")
      /\ UNCHANGED <<aModule, nRefModule, schema, link, pDisconnect, aVTrans, open>>
  BY DEF HaltFails, Idle
<1>2. autoCommit' \in BOOLEAN /\ nSavepoint' \in 0..1
  <2>1. autoCommit' = TRUE /\ nSavepoint' = 0
    BY DEF HaltFails
  <2> QED
    BY <2>1
<1>3. Usable
  BY <1>1 DEF Usable
<1> QED
  BY <1>1, <1>2, <1>3, StopKeeps

-----------------------------------------------------------------------------
(* What a statement refers to, before and after.                           *)

(* A statement that does not run has a reference and no cursor.            *)
LEMMA Releasable ==
  ASSUME IInv, NEW s \in Stmts, NEW i \in Insts,
         stmt[s].exists, stmt[s].run = "idle", stmt[s].inst = i
  PROVE  /\ IsFiniteSet(Users(i)) /\ s \in Users(i)
         /\ Cardinality(Users(i) \ {s}) = Cardinality(Users(i)) - 1
         /\ Refs(i) - One(i, pDisconnect) > 0
         /\ i \in Pending \/ Cardinality(Readers(i)) > 0 => Refs(i) - One(i, pDisconnect) > 1
<1>1. s \in Users(i) /\ s \notin Readers(i)
  BY DEF Users, Readers
<1>2. Users(i) \in SUBSET Stmts /\ Users(i) \ {s} \in SUBSET Stmts
  BY DEF Users
<1>3. /\ IsFiniteSet(Users(i)) /\ Cardinality(Users(i)) \in Nat
      /\ Cardinality(Users(i) \ {s}) \in Nat
      /\ Cardinality(Users(i) \ {s}) = 0 <=> Users(i) \ {s} = {}
  BY <1>2, SubsetCounts
<1>4. Cardinality(Users(i) \ {s}) = Cardinality(Users(i)) - 1
  BY <1>1, <1>3, FS_RemoveElement
<1>5. Readers(i) \subseteq Users(i) \ {s}
  BY <1>1 DEF Users, Readers, IInv, StatementsAgree
<1>6. Cardinality(Readers(i)) > 0 => Users(i) \ {s} # {}
  <2>1. Cardinality({}) = 0
    BY FS_EmptySet
  <2>2. Readers(i) = {} => Cardinality(Readers(i)) = 0
    BY <2>1
  <2> QED
    BY <1>5, <2>2
<1>7. /\ One(i, Linked) \in {0, 1} /\ One(i, pDisconnect) \in {0, 1} /\ One(i, Pending) \in {0, 1}
      /\ One(i, Pending) = 0 <=> i \notin Pending
  BY OneOrNone
<1>8. /\ Refs(i) - One(i, pDisconnect) > 0
      /\ i \in Pending \/ Cardinality(Readers(i)) > 0 => Refs(i) - One(i, pDisconnect) > 1
  BY <1>3, <1>4, <1>6, <1>7 DEF Refs
<1> QED
  BY <1>1, <1>3, <1>4, <1>8

LEMMA FinalizeKeeps ==
  ASSUME IInv, NEW s \in Stmts, Finalize(s)
  PROVE  Kept
<1>1. /\ Usable /\ stmt[s].exists /\ stmt[s].run = "idle"
      /\ stmt' = [stmt EXCEPT ![s] = NoStmt]
      /\ UNCHANGED <<aModule, schema, link, pDisconnect, aVTrans, com, autoCommit,
                     nSavepoint, open>>
  BY DEF Finalize
<1>2. stmt \in [Stmts -> Statement] /\ vtab \in [Insts -> Instance]
  BY DEF IInv, TypeOK
<1>3. PICK p \in Insts : p = stmt[s].inst
  BY <1>1 DEF IInv, StatementsAgree
<1> DEFINE un == Unlock(vtab, Once({p}))
<1>4. Settle(un, nRefModule)
  BY <1>3 DEF Finalize
<1>5. /\ stmt' \in [Stmts -> Statement] /\ ~stmt'[s].exists
      /\ stmt'[s].run = "idle" /\ ~stmt'[s].writes
      /\ \A q \in Stmts \ {s} : stmt'[q] = stmt[q]
  <2>1. NoStmt \in Statement /\ ~NoStmt.exists /\ NoStmt.run = "idle" /\ ~NoStmt.writes
    BY DEF NoStmt, Statement
  <2> QED
    BY <1>1, <1>2, <2>1
<1>6. \A i \in Insts : /\ Users(i)' = IF i = p THEN Users(i) \ {s} ELSE Users(i)
                       /\ Readers(i)' = Readers(i)
  BY <1>1, <1>3, <1>5 DEF Users, Readers
<1>7. Pending' = Pending
  BY <1>1 DEF Pending
<1>8. \A i \in Insts : /\ Good(i, un[i], Refs(i) - One(i, {p}), Pending, Cardinality(Readers(i)))
                       /\ Quiet(vtab[i], un[i])
  <2> TAKE i \in Insts
  <2>1. i \in {p} => /\ Refs(i) > 0
                     /\ i \in Pending \/ Cardinality(Readers(i)) > 0 => Refs(i) > 1
    <3>1. One(i, pDisconnect) \in {0, 1} /\ Refs(i) \in Nat
      BY OneOrNone, InstanceFacts
    <3>2. i \in {p} =>
            /\ Refs(i) - One(i, pDisconnect) > 0
            /\ i \in Pending \/ Cardinality(Readers(i)) > 0
                 => Refs(i) - One(i, pDisconnect) > 1
      BY <1>1, <1>3, Releasable
    <3> QED
      BY <3>1, <3>2
  <2>2. /\ Refs(i) \in Nat /\ Cardinality(Readers(i)) \in Nat
        /\ Good(i, vtab[i], Refs(i), Pending, Cardinality(Readers(i)))
    BY InstanceFacts
  <2> QED
    BY <2>1, <2>2, UnlockedOnce
<1> HIDE DEF un
<1>9. \A i \in Insts : /\ un[i] \in Instance /\ un[i].mod = vtab[i].mod
                       /\ un[i].nRef \in Nat
                       /\ un[i].nRef > 0 => vtab[i].nRef > 0
  BY <1>8 DEF Good, Quiet, Instance
<1>10. vtab' = un /\ nRefModule' \in [Modules -> Nat] /\ ModulesCounted'
  BY <1>1, <1>4, <1>9, Settled
<1>11. vtab' \in [Insts -> Instance]
  BY <1>9, <1>10 DEF un, Unlock
<1>12. \A i \in Insts : Refs(i)' = Refs(i) - One(i, {p})
  <2> TAKE i \in Insts
  <2>1. Refs(i)' = One(i, Linked) + One(i, pDisconnect) + One(i, Pending)
                   + Cardinality(Users(i)')
    BY <1>1, <1>7 DEF Refs, Linked, One
  <2>2. Cardinality(Users(i)') = Cardinality(Users(i)) - One(i, {p}) /\ Cardinality(Users(i)) \in Nat
    BY <1>1, <1>3, <1>6, Releasable, InstanceFacts DEF One
  <2>3. /\ One(i, Linked) \in {0, 1} /\ One(i, pDisconnect) \in {0, 1}
        /\ One(i, Pending) \in {0, 1} /\ One(i, {p}) \in {0, 1}
    BY OneOrNone
  <2> QED
    BY <2>1, <2>2, <2>3 DEF Refs
<1>13. Held'
  BY <1>6, <1>7, <1>8, <1>10, <1>12 DEF Held
<1>14. AllTold
  BY <1>8, <1>10 DEF AllTold, Told, Quiet
<1>15. EachOnce' /\ CommitInOrder' /\ AllSyncedFirst'
  BY <1>1, <1>8, <1>10, SameCommit DEF Quiet
<1>16. TypeOK'
  BY <1>1, <1>5, <1>10, <1>11 DEF IInv, TypeOK
<1>17. TablesApart'
  <2>1. \A i \in Insts : /\ vtab'[i].nRef = Refs(i)'
                         /\ vtab'[i].nRef > 0 => (vtab[i].obj => vtab'[i].obj)
    BY <1>8, <1>10, <1>13 DEF Held, Good, Quiet
  <2> QED
    BY <1>1, <2>1, TablesStay
<1>18. StatementsAgree'
  BY <1>1, <1>5 DEF IInv, StatementsAgree, InSync
<1>19. ClosedDown'
  BY <1>1, <1>5 DEF IInv, ClosedDown, Linked
<1> QED
  BY <1>10, <1>13, <1>14, <1>15, <1>16, <1>17, <1>18, <1>19 DEF IInv, Kept

(* sqlite3_prepare_v2 and sqlite3Reprepare.                                *)
LEMMA CompileKeeps ==
  ASSUME IInv, NEW s \in Stmts, NEW t \in Tables, NEW w \in BOOLEAN, Compile(s, t, w)
  PROVE  Kept
<1> DEFINE new == [exists |-> TRUE, tab |-> t, inst |-> link[t], writes |-> w,
                   run |-> "idle", expired |-> FALSE]
           un  == Unlisted
<1>1. /\ open = "open" /\ t \in schema.tab /\ link[t] # NULL
      /\ ~stmt[s].exists \/ stmt[s].run = "idle"
      /\ stmt' = [stmt EXCEPT ![s] = new]
      /\ pDisconnect' = {}
      /\ UNCHANGED <<aModule, schema, link, aVTrans, com, autoCommit, nSavepoint, open>>
  BY DEF Compile
<1>2. stmt \in [Stmts -> Statement]
  BY DEF IInv, TypeOK
<1>3. PICK p \in Insts : p = link[t]
  BY <1>1 DEF IInv, TypeOK
<1>4. PICK old \in SUBSET Insts :
        old = IF stmt[s].exists THEN {stmt[s].inst} ELSE {}
  BY DEF IInv, StatementsAgree
<1> DEFINE vt  == [un EXCEPT ![p].nRef = @ + 1]
           fin == Unlock(vt, Once(old))
<1>5. Settle(fin, nRefModule)
  BY <1>3, <1>4 DEF Compile
<1>6. /\ un \in [Insts -> Instance]
      /\ \A i \in Insts :
           /\ Good(i, un[i], Refs(i) - One(i, pDisconnect), Pending, Cardinality(Readers(i)))
           /\ Quiet(vtab[i], un[i])
           /\ un[i].mod = vtab[i].mod /\ un[i].nRef \in Nat
           /\ un[i].nRef > 0 => vtab[i].nRef > 0
  BY UnlistedGood
<1> HIDE DEF un
<1>7. stmt[s].run = "idle"
  BY <1>1 DEF IInv, StatementsAgree
<1>8. /\ stmt' \in [Stmts -> Statement]
      /\ stmt'[s] = new
      /\ \A q \in Stmts \ {s} : stmt'[q] = stmt[q]
  <2>1. new \in Statement
    BY <1>3 DEF Statement
  <2> HIDE DEF new
  <2> QED
    BY <1>1, <1>2, <2>1
<1>9. \A i \in Insts : /\ Users(i)' = (IF i \in old THEN Users(i) \ {s} ELSE Users(i))
                                      \cup (IF i = p THEN {s} ELSE {})
                       /\ Readers(i)' = Readers(i)
  <2>1. /\ stmt'[s].exists /\ stmt'[s].inst = p /\ stmt'[s].run = "idle"
    BY <1>3, <1>8
  <2> QED
    BY <1>4, <1>7, <1>8, <2>1 DEF Users, Readers
<1>10. Pending' = Pending
  BY <1>1 DEF Pending
<1>11. \A i \in old : /\ IsFiniteSet(Users(i)) /\ s \in Users(i)
                      /\ Cardinality(Users(i) \ {s}) = Cardinality(Users(i)) - 1
                      /\ Refs(i) - One(i, pDisconnect) > 0
                      /\ i \in Pending \/ Cardinality(Readers(i)) > 0
                           => Refs(i) - One(i, pDisconnect) > 1
  BY <1>4, <1>7, Releasable
<1>12. p \in Linked /\ p \notin pDisconnect
  <2>1. p # NULL
    BY <1>1, <1>3
  <2> QED
    BY <1>3, <2>1 DEF Linked, IInv, TablesApart
<1> DEFINE R(i) == Refs(i) - One(i, pDisconnect) + One(i, {p})
<1>13. \A i \in Insts : /\ Refs(i) \in Nat /\ R(i) \in Nat
                        /\ Refs(i) - One(i, pDisconnect) \in Nat
                        /\ One(i, {p}) = IF i = p THEN 1 ELSE 0
                        /\ Cardinality(Readers(i)) \in Nat
  <2> TAKE i \in Insts
  <2>1. /\ One(i, Linked) \in {0, 1} /\ One(i, pDisconnect) \in {0, 1}
        /\ One(i, Pending) \in {0, 1} /\ One(i, {p}) \in {0, 1}
        /\ Cardinality(Users(i)) \in Nat /\ Refs(i) \in Nat /\ Cardinality(Readers(i)) \in Nat
    BY OneOrNone, InstanceFacts
  <2>2. One(i, {p}) = IF i = p THEN 1 ELSE 0
    BY DEF One
  <2>3. Refs(i) - One(i, pDisconnect) \in Nat
    BY <2>1 DEF Refs
  <2> QED
    BY <2>1, <2>2, <2>3
<1>14. un[p].nRef > 0
  <2>1. One(p, Linked) = 1 /\ One(p, pDisconnect) = 0
    BY <1>12 DEF One
  <2>2. One(p, Pending) \in {0, 1} /\ Cardinality(Users(p)) \in Nat
    BY OneOrNone, InstanceFacts
  <2>3. un[p].nRef = Refs(p) - One(p, pDisconnect)
    BY <1>6 DEF Good
  <2> QED
    BY <2>1, <2>2, <2>3 DEF Refs
<1>15. \A i \in Insts :
         /\ Good(i, vt[i], R(i), Pending, Cardinality(Readers(i)))
         /\ vt[i].mod = un[i].mod /\ vt[i].obj = un[i].obj /\ vt[i].phase = un[i].phase
         /\ vt[i].cursors = un[i].cursors /\ vt[i].dirty = un[i].dirty
         /\ vt[i].nRef > 0 => un[i].nRef > 0
  <2> TAKE i \in Insts
  <2>1. CASE i = p
    <3> DEFINE n == un[p].nRef + 1
               u == [un[p] EXCEPT !.nRef = n]
    <3>1. vt[i] = u
      BY <1>6, <2>1
    <3>2. Good(p, un[p], Refs(p) - One(p, pDisconnect), Pending, Cardinality(Readers(p)))
      BY <1>6
    <3>3. un[p] \in Instance /\ un[p].nRef \in Nat /\ n \in Nat
      BY <1>6, <3>2 DEF Good
    <3> HIDE DEF n
    <3>4. /\ u \in Instance /\ u.phase = un[p].phase /\ u.mod = un[p].mod /\ u.nRef = n
          /\ u.obj = un[p].obj /\ u.cursors = un[p].cursors /\ u.dirty = un[p].dirty
      BY <3>3, RefField
    <3> HIDE DEF u, vt
    <3>5. n = R(p) /\ R(p) > 0 /\ (un[p].phase = "none" => FALSE)
      BY <1>13, <1>14, <3>2 DEF Good, n
    <3>6. Good(p, u, R(p), Pending, Cardinality(Readers(p)))
      BY <3>2, <3>4, <3>5 DEF Good
    <3> QED
      BY <1>14, <2>1, <3>1, <3>4, <3>6
  <2>2. CASE i # p
    <3>1. vt[i] = un[i] /\ R(i) = Refs(i) - One(i, pDisconnect)
      <4>1. /\ Refs(i) - One(i, pDisconnect) \in Nat
            /\ One(i, {p}) = 0
        BY <1>13, <2>2
      <4>2. vt[i] = un[i]
        BY <1>6, <2>2
      <4> HIDE DEF vt
      <4> QED
        BY <4>1, <4>2
    <3> HIDE DEF vt, R
    <3> QED
      BY <1>6, <3>1
  <2> QED
    BY <2>1, <2>2
<1> HIDE DEF vt
<1>16. \A i \in Insts : /\ Good(i, fin[i], R(i) - One(i, old), Pending, Cardinality(Readers(i)))
                        /\ Quiet(vt[i], fin[i])
  <2> TAKE i \in Insts
  <2>1. i \in old => /\ R(i) > 0
                     /\ i \in Pending \/ Cardinality(Readers(i)) > 0 => R(i) > 1
    <3>1. /\ Refs(i) - One(i, pDisconnect) \in Nat
          /\ One(i, {p}) \in {0, 1}
      BY <1>13
    <3>2. i \in old =>
            /\ Refs(i) - One(i, pDisconnect) > 0
            /\ i \in Pending \/ Cardinality(Readers(i)) > 0
                 => Refs(i) - One(i, pDisconnect) > 1
      BY <1>11
    <3> QED
      BY <3>1, <3>2
  <2>2. R(i) \in Nat /\ Cardinality(Readers(i)) \in Nat
    BY <1>13
  <2> HIDE DEF R
  <2>3. Good(i, vt[i], R(i), Pending, Cardinality(Readers(i)))
    BY <1>15
  <2> QED
    BY <2>1, <2>2, <2>3, UnlockedOnce
<1> HIDE DEF fin
<1>17. \A i \in Insts :
         /\ fin[i] \in Instance /\ fin[i].mod = vtab[i].mod
         /\ fin[i].nRef \in Nat
         /\ fin[i].nRef > 0 => vtab[i].nRef > 0 /\ (vtab[i].obj => fin[i].obj)
         /\ fin[i].obj => vtab[i].obj /\ fin[i].phase = vtab[i].phase
         /\ Unheard(vtab[i], fin[i])
  <2> TAKE i \in Insts
  <2>1. Quiet(vtab[i], un[i]) /\ Quiet(vt[i], fin[i]) /\ fin[i] \in Instance
    BY <1>6, <1>16 DEF Good
  <2>2. /\ vt[i].mod = un[i].mod /\ vt[i].obj = un[i].obj /\ vt[i].phase = un[i].phase
        /\ vt[i].cursors = un[i].cursors /\ vt[i].dirty = un[i].dirty
        /\ vt[i].nRef > 0 => un[i].nRef > 0
    BY <1>15
  <2>3. fin[i].nRef \in Nat
    BY <2>1 DEF Instance
  <2>4. Unheard(vtab[i], fin[i])
    BY <2>1, <2>2 DEF Quiet, Unheard
  <2> QED
    BY <2>1, <2>2, <2>3, <2>4 DEF Quiet
<1>18. vtab' = fin /\ nRefModule' \in [Modules -> Nat] /\ ModulesCounted'
  BY <1>1, <1>5, <1>17, Settled
<1>19. vtab' \in [Insts -> Instance]
  BY <1>17, <1>18 DEF fin, Unlock
<1>20. \A i \in Insts : Refs(i)' = R(i) - One(i, old)
  <2> TAKE i \in Insts
  <2>1. Refs(i)' = One(i, Linked) + One(i, {}) + One(i, Pending) + Cardinality(Users(i)')
    BY <1>1, <1>10 DEF Refs, Linked, One
  <2>2. /\ One(i, Linked) \in {0, 1} /\ One(i, pDisconnect) \in {0, 1}
        /\ One(i, Pending) \in {0, 1} /\ One(i, {}) = 0
        /\ Cardinality(Users(i)) \in Nat
    BY OneOrNone, InstanceFacts
  <2>3. Cardinality(Users(i)') = Cardinality(Users(i)) + One(i, {p}) - One(i, old)
    <3>1. IsFiniteSet(Users(i))
      <4>1. Users(i) \in SUBSET Stmts
        BY DEF Users
      <4> QED
        BY <4>1, SubsetCounts
    <3>0. One(i, {p}) = IF i = p THEN 1 ELSE 0
      BY <1>13
    <3>2. CASE i \in old
      <4>1. /\ IsFiniteSet(Users(i) \ {s}) /\ s \in Users(i) /\ One(i, old) = 1
            /\ Cardinality(Users(i) \ {s}) = Cardinality(Users(i)) - 1
        BY <1>11, <3>1, <3>2, FS_RemoveElement DEF One
      <4>2. CASE i = p
        <5>1. Users(i)' = Users(i)
          BY <1>9, <3>2, <4>1, <4>2
        <5> QED
          BY <2>2, <3>0, <4>1, <4>2, <5>1
      <4>3. CASE i # p
        <5>1. Users(i)' = Users(i) \ {s}
          BY <1>9, <3>2, <4>3
        <5> QED
          BY <2>2, <3>0, <4>1, <4>3, <5>1
      <4> QED
        BY <4>2, <4>3
    <3>3. CASE i \notin old
      <4>1. s \notin Users(i) /\ One(i, old) = 0
        BY <1>4, <3>3 DEF Users, One
      <4>2. CASE i = p
        <5>1. Users(i)' = Users(i) \cup {s}
          BY <1>9, <3>3, <4>2
        <5>2. Cardinality(Users(i)') = Cardinality(Users(i)) + 1
          BY <3>1, <4>1, <5>1, FS_AddElement
        <5> QED
          BY <2>2, <3>0, <4>1, <4>2, <5>2
      <4>3. CASE i # p
        <5>1. Users(i)' = Users(i)
          BY <1>9, <3>3, <4>3
        <5> QED
          BY <2>2, <3>0, <4>1, <4>3, <5>1
      <4> QED
        BY <4>2, <4>3
    <3> QED
      BY <3>2, <3>3
  <2>4. One(i, old) \in {0, 1} /\ One(i, {p}) \in {0, 1}
    BY OneOrNone
  <2> QED
    BY <2>1, <2>2, <2>3, <2>4 DEF Refs
<1> HIDE DEF R
<1>21. Held'
  BY <1>9, <1>10, <1>16, <1>18, <1>20 DEF Held
<1>22. AllTold
  BY <1>17, <1>18 DEF AllTold, Told
<1>23. EachOnce' /\ CommitInOrder' /\ AllSyncedFirst'
  BY <1>1, <1>17, <1>18, SameCommit
<1>24. TypeOK'
  BY <1>1, <1>8, <1>18, <1>19 DEF IInv, TypeOK
<1>25. TablesApart'
  <2>1. \A i \in Insts : /\ vtab'[i].nRef = Refs(i)'
                         /\ vtab'[i].nRef > 0 => (vtab[i].obj => vtab'[i].obj)
    BY <1>17, <1>18, <1>21 DEF Held, Good
  <2> QED
    BY <1>1, <2>1, TablesStay
<1>26. StatementsAgree'
  <2>1. /\ stmt'[s].exists /\ stmt'[s].tab = t /\ stmt'[s].inst = p /\ stmt'[s].run = "idle"
        /\ link[t] = p
    BY <1>3, <1>8
  <2>2. \A q \in Stmts \ {s} : stmt'[q] = stmt[q]
    BY <1>8
  <2> HIDE DEF new
  <2> QED
    BY <1>1, <2>1, <2>2 DEF IInv, StatementsAgree, InSync
<1>27. ClosedDown'
  BY <1>1 DEF ClosedDown
<1> QED
  BY <1>18, <1>21, <1>22, <1>23, <1>24, <1>25, <1>26, <1>27 DEF IInv, Kept

-----------------------------------------------------------------------------
(* Tables that come and go.                                                *)

New(m, ph, n) == [NoInst EXCEPT !.mod = m, !.obj = TRUE, !.phase = ph, !.nRef = n]

LEMMA NewFields ==
  ASSUME NEW m \in Modules, NEW ph \in Phases, NEW n \in Nat
  PROVE  /\ New(m, ph, n) \in Instance
         /\ New(m, ph, n).phase = ph /\ New(m, ph, n).mod = m /\ New(m, ph, n).nRef = n
         /\ New(m, ph, n).obj /\ New(m, ph, n).cursors = 0 /\ ~New(m, ph, n).dirty
<1>0. NoInst \in Instance /\ NoInst.cursors = 0 /\ NoInst.dirty = FALSE
  BY DEF NoInst, Instance, Phases
<1>1. PICK v \in Instance : v = NoInst /\ v.cursors = 0 /\ v.dirty = FALSE
  BY <1>0
<1> DEFINE a == [v EXCEPT !.mod = m, !.obj = TRUE]
           u == [a EXCEPT !.phase = ph, !.nRef = n]
<1>2. /\ a \in Instance /\ a.mod = m /\ a.obj /\ a.cursors = v.cursors
      /\ a.dirty = v.dirty
  BY DEF Instance
<1>3. New(m, ph, n) = u
  BY <1>1 DEF New
<1> HIDE DEF a
<1>4. /\ u \in Instance /\ u.phase = ph /\ u.nRef = n /\ u.mod = a.mod
      /\ u.obj = a.obj /\ u.cursors = a.cursors /\ u.dirty = a.dirty
  BY <1>2 DEF Instance
<1> HIDE DEF u
<1> QED
  BY <1>1, <1>2, <1>3, <1>4

(* The counters of a module with one instance more.                        *)
LEMMA ModuleOfNew ==
  ASSUME IInv, NEW p \in Insts, NEW vt, NEW un,
         Refs(p) = 0, aModule \in Modules,
         \A i \in Insts : /\ un[i].mod = vtab[i].mod
                          /\ un[i].nRef \in Nat
                          /\ un[i].nRef > 0 => vtab[i].nRef > 0,
         \A i \in Insts \ {p} : vt[i] = un[i],
         vt[p].mod = aModule, vt[p].nRef > 0,
         vtab' = vt, aModule' = aModule, nRefModule' = WithNew(vt, p)
  PROVE  nRefModule' \in [Modules -> Nat] /\ ModulesCounted'
<1>1. ASSUME NEW m \in Modules
      PROVE  /\ nRefModule'[m] \in Nat
             /\ nRefModule'[m] = One(m, {aModule}) + Cardinality(Living(m)')
  <2> DEFINE L == {i \in Insts : un[i].nRef > 0 /\ un[i].mod = m}
  <2>1. vtab[p].nRef = 0 /\ ~(un[p].nRef > 0)
    <3>1. vtab[p].nRef = 0
      BY InstanceFacts
    <3> QED
      BY <3>1
  <2>2. Unref(vt, nRefModule)[m] = Unref(un, nRefModule)[m]
    <3>1. {i \in Insts : vtab[i].mod = m /\ vtab[i].nRef > 0 /\ vt[i].nRef = 0}
          = {i \in Insts : vtab[i].mod = m /\ vtab[i].nRef > 0 /\ un[i].nRef = 0}
      BY <2>1
    <3> QED
      BY <3>1 DEF Unref
  <2>3. Unref(un, nRefModule)[m] = One(m, {aModule}) + Cardinality(L)
    BY ModulesFollow, ZenonT(30)
  <2>4. IsFiniteSet(L) /\ Cardinality(L) \in Nat
    <3>1. IsFiniteSet(Insts)
      BY InstsFinite
    <3>2. IsFiniteSet(L)
      BY <3>1, FS_Subset
    <3> QED
      BY <3>2, FS_CardinalityType
  <2>5. Living(m)' = {i \in Insts : vt[i].nRef > 0 /\ vt[i].mod = m}
    BY DEF Living
  <2>6. p \notin L /\ Living(m)' = IF aModule = m THEN L \cup {p} ELSE L
    BY <2>1, <2>5
  <2>7. nRefModule'[m] = Unref(vt, nRefModule)[m] + IF aModule = m THEN 1 ELSE 0
    BY DEF WithNew
  <2> HIDE DEF L
  <2>8. Cardinality(Living(m)') = Cardinality(L) + IF aModule = m THEN 1 ELSE 0
    <3>1. Cardinality(L \cup {p}) = Cardinality(L) + 1
      BY <2>4, <2>6, FS_AddElement
    <3> QED
      BY <2>4, <2>6, <3>1
  <2>9. One(m, {aModule}) \in {0, 1}
    BY OneOrNone
  <2> QED
    BY <2>2, <2>3, <2>4, <2>7, <2>8, <2>9
<1>2. \A m \in Modules : nRefModule'[m] \in Nat
  BY <1>1
<1>3. nRefModule' \in [Modules -> Nat]
  BY <1>2 DEF WithNew
<1>4. ModulesCounted'
  BY <1>1 DEF ModulesCounted, One
<1> QED
  BY <1>3, <1>4

(* vtabCallConstructor: the instance is referred to by the table, and by   *)
(* the transaction if the table is created.                                *)
LEMMA NewInstance ==
  ASSUME IInv, NEW t \in Tables, link[t] = NULL, aModule # NULL, aModule' = aModule,
         NEW p \in Fresh, NEW ph \in {"idle", "enlisted"}, NEW n \in 1..2,
         vtab' = Construct(Unlisted, p, ph, n),
         nRefModule' = WithNew(vtab', p),
         link' = [link EXCEPT ![t] = p],
         pDisconnect' = {},
         SameStatements,
         \/ ph = "idle" /\ n = 1 /\ Pending' = Pending
         \/ ph = "enlisted" /\ n = 2 /\ Pending' = Pending \cup {p},
         t \in schema'.tab, schema.tab \subseteq schema'.tab
  PROVE  /\ vtab' \in [Insts -> Instance] /\ nRefModule' \in [Modules -> Nat]
         /\ link' \in [Tables -> Insts \cup {NULL}]
         /\ Held' /\ ModulesCounted' /\ TablesApart' /\ AllTold
         /\ p \in Insts /\ p \notin Pending
         /\ \A i \in Insts \ {p} : vtab'[i].obj => vtab[i].obj /\ vtab'[i].phase = vtab[i].phase
<1> DEFINE un == Unlisted
           u  == New(aModule, ph, n)
<1>1. p \in Insts /\ vtab[p].phase = "none"
  BY DEF Fresh
<1>2. /\ un \in [Insts -> Instance]
      /\ \A i \in Insts :
           /\ Good(i, un[i], Refs(i) - One(i, pDisconnect), Pending, Cardinality(Readers(i)))
           /\ Quiet(vtab[i], un[i])
           /\ un[i].mod = vtab[i].mod /\ un[i].nRef \in Nat
           /\ un[i].nRef > 0 => vtab[i].nRef > 0
  BY UnlistedGood
<1>3. aModule \in Modules /\ link \in [Tables -> Insts \cup {NULL}] /\ p # NULL
  BY <1>1, VtabAssumption DEF IInv, TypeOK, Insts
<1>4. /\ u \in Instance /\ u.phase = ph /\ u.mod = aModule /\ u.nRef = n
      /\ u.obj /\ u.cursors = 0 /\ ~u.dirty /\ u.dirty = FALSE
  <2>1. ph \in Phases /\ n \in Nat
    BY DEF Phases
  <2>2. /\ u \in Instance /\ u.phase = ph /\ u.mod = aModule /\ u.nRef = n
        /\ u.obj /\ u.cursors = 0 /\ ~u.dirty
    BY <1>3, <2>1, NewFields
  <2> HIDE DEF u
  <2>3. u.dirty = FALSE
    BY <2>2 DEF Instance
  <2> QED
    BY <2>2, <2>3
<1>5. vtab' = [un EXCEPT ![p] = u]
  BY DEF Construct, New
<1> HIDE DEF un, u
<1>6. /\ vtab' \in [Insts -> Instance] /\ vtab'[p] = u
      /\ \A i \in Insts \ {p} : vtab'[i] = un[i]
  BY <1>1, <1>2, <1>4, <1>5
<1>7. /\ Good(p, vtab[p], Refs(p), Pending, Cardinality(Readers(p)))
      /\ Refs(p) = 0 /\ p \notin Linked /\ p \notin pDisconnect /\ p \notin Pending
      /\ Users(p) = {} /\ Readers(p) = {}
  <2>1. Good(p, vtab[p], Refs(p), Pending, Cardinality(Readers(p)))
    BY <1>1, InstanceFacts
  <2>2. Refs(p) = 0
    BY <1>1, <2>1 DEF Good
  <2> QED
    BY <1>1, <2>1, <2>2, InstanceFacts
<1>8. link' \in [Tables -> Insts \cup {NULL}] /\ Linked' = Linked \cup {p}
  <2>1. link'[t] = p /\ \A q \in Tables \ {t} : link'[q] = link[q]
    BY <1>3
  <2>2. Linked' = Linked \cup {p}
    BY <1>3, <2>1 DEF Linked
  <2> QED
    BY <1>1, <1>3, <2>2
<1>9. nRefModule' \in [Modules -> Nat] /\ ModulesCounted'
  <2>1. vtab'[p].mod = aModule /\ vtab'[p].nRef > 0
    BY <1>4, <1>6
  <2>2. \A i \in Insts : /\ un[i].mod = vtab[i].mod
                         /\ un[i].nRef \in Nat
                         /\ un[i].nRef > 0 => vtab[i].nRef > 0
    BY <1>2
  <2> QED
    BY <1>1, <1>3, <1>6, <1>7, <2>1, <2>2, ModuleOfNew
<1>10. \A i \in Insts : /\ Users(i)' = Users(i) /\ Readers(i)' = Readers(i)
                        /\ Refs(i)' = One(i, Linked \cup {p}) + One(i, {}) + One(i, Pending')
                                      + Cardinality(Users(i))
  BY <1>8, SameUsers DEF Refs, One
<1>11. ASSUME NEW i \in Insts \ {p}
       PROVE  /\ Good(i, vtab'[i], Refs(i)', Pending', Cardinality(Readers(i)'))
              /\ Told(vtab[i], vtab'[i])
  <2>1. /\ One(i, Linked \cup {p}) = One(i, Linked) /\ One(i, {}) = 0
        /\ One(i, Pending') = One(i, Pending)
    BY DEF One
  <2>2. /\ One(i, Linked) \in {0, 1} /\ One(i, pDisconnect) \in {0, 1}
        /\ One(i, Pending) \in {0, 1} /\ Cardinality(Users(i)) \in Nat
    BY OneOrNone, InstanceFacts
  <2>3. Refs(i)' = One(i, Linked \cup {p}) + One(i, {}) + One(i, Pending') + Cardinality(Users(i))
    BY <1>10
  <2>4. Refs(i)' = Refs(i) - One(i, pDisconnect)
    BY <2>1, <2>2, <2>3 DEF Refs
  <2>5. /\ Good(i, un[i], Refs(i) - One(i, pDisconnect), Pending, Cardinality(Readers(i)))
        /\ Quiet(vtab[i], un[i]) /\ vtab'[i] = un[i] /\ Readers(i)' = Readers(i)
    BY <1>2, <1>6, <1>10
  <2>6. Good(i, un[i], Refs(i)', Pending, Cardinality(Readers(i)'))
    BY <2>4, <2>5
  <2>7. i \in Pending' <=> i \in Pending
    OBVIOUS
  <2> QED
    BY <2>5, <2>6, <2>7 DEF Good, Quiet, Told
<1>12. Good(p, vtab'[p], Refs(p)', Pending', Cardinality(Readers(p)'))
  <2>1. Cardinality({}) = 0
    BY FS_EmptySet
  <2>2. /\ Refs(p)' = One(p, Linked \cup {p}) + One(p, {}) + One(p, Pending')
                      + Cardinality(Users(p))
        /\ Readers(p)' = Readers(p)
    BY <1>1, <1>10
  <2>3. /\ One(p, Linked \cup {p}) = 1 /\ One(p, {}) = 0
        /\ One(p, Pending') = IF ph = "enlisted" THEN 1 ELSE 0
    BY <1>7 DEF One
  <2>4. Refs(p)' = n /\ Cardinality(Readers(p)') = 0
    BY <1>7, <2>1, <2>2, <2>3
  <2>5. /\ u \in Instance /\ u.nRef = n /\ u.cursors = 0 /\ u.phase = ph /\ u.obj /\ ~u.dirty
        /\ p \in Pending' <=> ph = "enlisted"
    BY <1>4, <1>7
  <2> QED
    BY <1>6, <2>4, <2>5 DEF Good
<1>13. Told(vtab[p], vtab'[p])
  <2>1. vtab[p].cursors = 0 /\ vtab[p].dirty = FALSE
    <3>1. Cardinality({}) = 0
      BY FS_EmptySet
    <3> QED
      BY <1>1, <1>7, <3>1 DEF Good, Instance
  <2> QED
    BY <1>1, <1>4, <1>6, <2>1 DEF Told
<1>14. Held' /\ AllTold
  BY <1>11, <1>12, <1>13 DEF Held, AllTold
<1>15. TablesApart'
  <2>1. link'[t] = p /\ (\A q \in Tables \ {t} : link'[q] = link[q])
    BY <1>3
  <2>2. \A q \in Tables : link[q] # p
    BY <1>3, <1>7 DEF Linked
  <2>3. \A a, b \in Tables : link'[a] = link'[b] /\ link'[a] # NULL => a = b
    BY <2>1, <2>2 DEF IInv, TablesApart
  <2>4. ASSUME NEW q \in Tables, link'[q] # NULL
        PROVE  q \in schema'.tab /\ vtab'[link'[q]].obj
    <3>1. CASE q = t
      BY <1>4, <1>6, <2>1, <3>1
    <3>2. CASE q # t
      <4> DEFINE i == link[q]
      <4>1. i # NULL /\ i \in Insts \ {p} /\ link'[q] = i /\ q \in schema.tab /\ vtab[i].obj
        BY <1>3, <2>1, <2>2, <2>4, <3>2 DEF IInv, TablesApart
      <4>2. i \in Linked
        BY <4>1 DEF Linked
      <4>3. un[i].nRef > 0
        <5>1. One(i, Linked) = 1 /\ One(i, pDisconnect) = 0
          BY <4>2 DEF One, IInv, TablesApart
        <5>2. One(i, Pending) \in {0, 1} /\ Cardinality(Users(i)) \in Nat
          BY <4>1, OneOrNone, InstanceFacts
        <5>3. un[i].nRef = Refs(i) - One(i, pDisconnect)
          BY <1>2, <4>1 DEF Good
        <5> QED
          BY <5>1, <5>2, <5>3 DEF Refs
      <4>4. un[i].obj /\ vtab'[i] = un[i]
        BY <1>2, <1>6, <4>1, <4>3 DEF Quiet
      <4> QED
        BY <4>1, <4>4
    <3> QED
      BY <3>1, <3>2
  <2> QED
    BY <2>3, <2>4 DEF TablesApart
<1>16. \A i \in Insts \ {p} : vtab'[i].obj => vtab[i].obj /\ vtab'[i].phase = vtab[i].phase
  BY <1>2, <1>6 DEF Quiet
<1> QED
  BY <1>1, <1>6, <1>7, <1>8, <1>9, <1>14, <1>15, <1>16

LEMMA ConnectKeeps ==
  ASSUME IInv, NEW t \in Tables, Connect(t)
  PROVE  Kept
<1>1. /\ open = "open" /\ t \in schema.tab /\ link[t] = NULL /\ aModule # NULL
      /\ pDisconnect' = {}
      /\ UNCHANGED <<aModule, schema, aVTrans, com, autoCommit, nSavepoint, stmt, open>>
  BY DEF Connect
<1>2. PICK p \in Fresh : /\ vtab' = Construct(Unlisted, p, "idle", 1)
                         /\ nRefModule' = WithNew(vtab', p)
                         /\ link' = [link EXCEPT ![t] = p]
  BY DEF Connect
<1>3. SameStatements /\ Pending' = Pending
  BY <1>1, Unchanged DEF Pending
<1>4. /\ vtab' \in [Insts -> Instance] /\ nRefModule' \in [Modules -> Nat]
      /\ link' \in [Tables -> Insts \cup {NULL}]
      /\ Held' /\ ModulesCounted' /\ TablesApart' /\ AllTold
      /\ p \in Insts /\ p \notin Pending
      /\ \A i \in Insts \ {p} : vtab'[i].obj => vtab[i].obj /\ vtab'[i].phase = vtab[i].phase
  <2>1. aModule' = aModule /\ t \in schema'.tab /\ schema.tab \subseteq schema'.tab
    BY <1>1
  <2> DEFINE ph == "idle"
             n == 1
  <2>2. ph \in {"idle", "enlisted"} /\ n \in 1..2 /\ ph = "idle" /\ n = 1
    OBVIOUS
  <2>3. vtab' = Construct(Unlisted, p, ph, n)
    BY <1>2
  <2> HIDE DEF ph, n
  <2> QED
    BY <1>1, <1>2, <1>3, <2>1, <2>2, <2>3, NewInstance
<1>5. EachOnce' /\ CommitInOrder' /\ AllSyncedFirst'
  BY <1>1, <1>4, SameCommit
<1>6. TypeOK'
  BY <1>1, <1>4 DEF IInv, TypeOK
<1>7. StatementsAgree'
  <2>1. \A q \in Tables : link[q] # NULL => link'[q] = link[q]
    BY <1>1, <1>2 DEF IInv, TypeOK
  <2>2. \A s \in Stmts : stmt[s].exists => stmt[s].tab \in Tables /\ stmt[s].inst # NULL
    BY VtabAssumption DEF IInv, StatementsAgree, Insts
  <2>3. \A s \in Stmts : open' = "open" /\ stmt'[s].exists /\ ~stmt'[s].expired =>
          link'[stmt[s].tab] = stmt[s].inst
    BY <1>1, <2>1, <2>2 DEF IInv, StatementsAgree
  <2> QED
    BY <1>1, <1>3, <2>3, SameWriters
<1>8. ClosedDown'
  BY <1>1 DEF ClosedDown
<1> QED
  BY <1>4, <1>5, <1>6, <1>7, <1>8 DEF IInv, Kept

(* The halt of a statement that changed the schema.                        *)
LEMMA HaltChangedForms ==
  ASSUME NEW c \in SchemaType, NEW list, HaltChanged(c, list)
  PROVE  /\ schema' \in SchemaType /\ schema'.tab = c.tab
         /\ com' = com \/ (NoWriter /\ (StartSync \/ com' = Finalise("ROLLBACK")))
<1>1. schema' = c \/ schema' = [c EXCEPT !.disk = c.file, !.change = FALSE]
  BY DEF HaltChanged
<1>2. com' = com \/ (NoWriter /\ (StartSync \/ com' = Finalise("ROLLBACK")))
  BY DEF HaltChanged
<1> QED
  BY <1>1, <1>2 DEF SchemaType

(* The transaction after such a halt.                                      *)
LEMMA ChangedEnds ==
  ASSUME IInv, ~InSync, aVTrans' \in Seq(Insts), EachOnce',
         com' = com \/ (NoWriter /\ (StartSync \/ com' = Finalise("ROLLBACK")))
  PROVE  /\ CommitInOrder' /\ AllSyncedFirst' /\ com' \in ComType
         /\ Pending' = Range(aVTrans') /\ Pending = Range(aVTrans)
<1>1. CASE com' = com
  <2>1. com.op = "none" /\ com.method = "none" /\ com' \in ComType
    BY <1>1 DEF InSync, IInv, CommitInOrder, TypeOK, ComType
  <2>2. com'.op = "none" /\ com'.method = "none"
    BY <1>1, <2>1
  <2>3. Pending' = PendingOf(aVTrans', com') /\ Pending = PendingOf(aVTrans, com)
    BY DEF Pending, PendingOf
  <2>4. aVTrans \in Seq(Insts)
    BY DEF IInv, TypeOK
  <2>5. Pending' = Range(aVTrans') /\ Pending = Range(aVTrans)
    BY <2>1, <2>2, <2>3, <2>4, AllPending
  <2>6. CommitInOrder' /\ AllSyncedFirst'
    BY <2>2 DEF CommitInOrder, AllSyncedFirst
  <2> QED
    BY <2>1, <2>5, <2>6
<1>2. CASE StartSync \/ com' = Finalise("ROLLBACK")
  BY <1>2, EndBegins
<1> QED
  BY <1>1, <1>2

LEMMA CreateTableKeeps ==
  ASSUME IInv, NEW t \in Tables, CreateTable(t)
  PROVE  Kept
<1> DEFINE c == [schema EXCEPT !.tab = @ \cup {t}, !.file = @ \cup {t}, !.change = TRUE]
<1>1. /\ open = "open" /\ ~InSync /\ t \notin schema.tab /\ aModule # NULL
      /\ pDisconnect' = {} /\ stmt' = Expire(stmt)
      /\ HaltChanged(c, aVTrans')
      /\ UNCHANGED <<aModule, autoCommit, nSavepoint, open>>
  BY DEF CreateTable, Idle
<1>2. PICK p \in Fresh : /\ vtab' = Construct(Unlisted, p, "enlisted", 2)
                         /\ nRefModule' = WithNew(vtab', p)
                         /\ link' = [link EXCEPT ![t] = p]
                         /\ aVTrans' = Append(aVTrans, p)
  BY DEF CreateTable
<1>3. /\ schema' \in SchemaType /\ schema'.tab = schema.tab \cup {t}
      /\ com' = com \/ (NoWriter /\ (StartSync \/ com' = Finalise("ROLLBACK")))
  <2>1. schema \in SchemaType
    BY DEF IInv, TypeOK, SchemaType
  <2>2. c \in SchemaType /\ c.tab = schema.tab \cup {t}
    BY <2>1, SchemaForms
  <2> HIDE DEF c
  <2> QED
    BY <1>1, <2>2, HaltChangedForms
<1>4. SameStatements /\ (\A s \in Stmts : stmt'[s].exists => stmt'[s].expired)
  BY <1>1, Expired
<1>5. p \in Insts /\ p \notin Range(aVTrans)
  <2>1. p \in Insts /\ vtab[p].phase = "none"
    BY DEF Fresh
  <2>2. Refs(p) = 0
    BY <2>1, InstanceFacts DEF Good
  <2>3. p \notin Pending
    BY <2>1, <2>2, InstanceFacts
  <2>4. aVTrans \in Seq(Insts) /\ com.op = "none"
    BY <1>1 DEF IInv, TypeOK, InSync
  <2>5. Pending = Range(aVTrans)
    BY <2>4, AllPending, PendingIs
  <2> QED
    BY <2>1, <2>3, <2>5
<1>6. /\ aVTrans' \in Seq(Insts) /\ Range(aVTrans') = Range(aVTrans) \cup {p}
      /\ EachOnce'
  <2>1. aVTrans \in Seq(Insts) /\ \A j, k \in DOMAIN aVTrans : aVTrans[j] = aVTrans[k] => j = k
    BY DEF IInv, TypeOK, EachOnce
  <2> QED
    BY <1>2, <1>5, <2>1, Enlisted DEF EachOnce
<1>7. /\ CommitInOrder' /\ AllSyncedFirst' /\ com' \in ComType
      /\ Pending' = Pending \cup {p}
  BY <1>1, <1>3, <1>6, ChangedEnds
<1>8. /\ vtab' \in [Insts -> Instance] /\ nRefModule' \in [Modules -> Nat]
      /\ link' \in [Tables -> Insts \cup {NULL}]
      /\ Held' /\ ModulesCounted' /\ TablesApart' /\ AllTold
  <2>1. aModule' = aModule /\ t \in schema'.tab /\ schema.tab \subseteq schema'.tab
    BY <1>1, <1>3
  <2>2. link[t] = NULL
    BY <1>1 DEF IInv, TablesApart
  <2> DEFINE ph == "enlisted"
             n == 2
  <2>3. ph \in {"idle", "enlisted"} /\ n \in 1..2 /\ ph = "enlisted" /\ n = 2
    OBVIOUS
  <2>4. vtab' = Construct(Unlisted, p, ph, n)
    BY <1>2
  <2> HIDE DEF ph, n
  <2> QED
    BY <1>1, <1>2, <1>4, <1>7, <2>1, <2>2, <2>3, <2>4, NewInstance
<1>9. TypeOK'
  BY <1>1, <1>3, <1>4, <1>6, <1>7, <1>8 DEF IInv, TypeOK, SchemaType, ComType, SameStatements
<1>10. StatementsAgree'
  <2>1. com' = com \/ NoWriter
    BY <1>3
  <2> QED
    BY <1>1, <1>4, <1>6, <2>1, SameWriters
<1>11. ClosedDown'
  BY <1>1 DEF ClosedDown
<1> QED
  BY <1>6, <1>7, <1>8, <1>9, <1>10, <1>11 DEF IInv, Kept

LEMMA DropTableKeeps ==
  ASSUME IInv, NEW t \in Tables, DropTable(t)
  PROVE  Kept
<1> DEFINE c  == [schema EXCEPT !.tab = @ \ {t}, !.file = @ \ {t}, !.change = TRUE]
           q  == link[t]
           un == Unlisted
           vt == [un EXCEPT ![q].obj = FALSE,
                            ![q].dirty = FALSE,
                            ![q].phase = IF @ \notin {"none", "ended"} THEN "ended" ELSE "broken"]
           fin == Unlock(vt, Once({q}))
<1>1. /\ open = "open" /\ ~InSync /\ t \in schema.tab /\ q # NULL /\ vtab[q].cursors = 0
      /\ Settle(fin, nRefModule)
      /\ link' = [link EXCEPT ![t] = NULL]
      /\ pDisconnect' = {} /\ stmt' = Expire(stmt)
      /\ HaltChanged(c, aVTrans)
      /\ UNCHANGED <<aModule, aVTrans, autoCommit, nSavepoint, open>>
  BY DEF DropTable, Idle
<1>2. /\ schema' \in SchemaType /\ schema'.tab = schema.tab \ {t}
      /\ com' = com \/ (NoWriter /\ (StartSync \/ com' = Finalise("ROLLBACK")))
  <2>1. schema \in SchemaType
    BY DEF IInv, TypeOK, SchemaType
  <2>2. c \in SchemaType /\ c.tab = schema.tab \ {t}
    BY <2>1, SchemaForms
  <2> HIDE DEF c
  <2> QED
    BY <1>1, <2>2, HaltChangedForms
<1>3. SameStatements /\ (\A s \in Stmts : stmt'[s].exists => stmt'[s].expired)
  BY <1>1, Expired
<1>4. EachOnce' /\ aVTrans' \in Seq(Insts)
  BY <1>1 DEF IInv, EachOnce, TypeOK
<1>5. /\ CommitInOrder' /\ AllSyncedFirst' /\ com' \in ComType
      /\ Pending' = Pending
  BY <1>1, <1>2, <1>4, ChangedEnds
<1>6. PICK p \in Insts : p = q
  BY <1>1 DEF IInv, TypeOK
<1>7. /\ p \in Linked /\ p \notin pDisconnect
      /\ One(p, Linked) = 1 /\ One(p, pDisconnect) = 0
      /\ vtab[p].obj /\ vtab[p].cursors = 0
      /\ \A s \in Tables \ {t} : link[s] # p
  <2>1. p \in Linked
    BY <1>1, <1>6 DEF Linked
  <2> QED
    BY <1>1, <1>6, <2>1 DEF One, IInv, TablesApart
<1>8. /\ un \in [Insts -> Instance]
      /\ \A i \in Insts :
           /\ Good(i, un[i], Refs(i) - One(i, pDisconnect), Pending, Cardinality(Readers(i)))
           /\ Quiet(vtab[i], un[i])
           /\ un[i].mod = vtab[i].mod /\ un[i].nRef \in Nat
           /\ un[i].nRef > 0 => vtab[i].nRef > 0
  BY UnlistedGood
<1>9. /\ Refs(p) \in Nat /\ Refs(p) > 0 /\ (p \in Pending => Refs(p) > 1)
      /\ Cardinality(Readers(p)) = 0
      /\ vtab[p].phase \in {"idle", "enlisted", "synced"}
  <2>1. /\ One(p, Pending) \in {0, 1} /\ (One(p, Pending) = 0 <=> p \notin Pending)
        /\ Cardinality(Users(p)) \in Nat
        /\ Good(p, vtab[p], Refs(p), Pending, Cardinality(Readers(p)))
    BY OneOrNone, InstanceFacts
  <2>2. Refs(p) = 1 + 0 + One(p, Pending) + Cardinality(Users(p))
    BY <1>7 DEF Refs
  <2>3. Cardinality(Readers(p)) = 0 /\ vtab[p].phase \in {"idle", "enlisted", "synced"}
    BY <1>7, <2>1 DEF Good
  <2> QED
    BY <2>1, <2>2, <2>3
<1>10. un[p].nRef = Refs(p) /\ un[p].obj /\ un[p].phase = vtab[p].phase /\ un[p].cursors = 0
  <2>1. un[p].nRef = Refs(p) - 0 /\ un[p].cursors = 0
    BY <1>7, <1>8, <1>9 DEF Good
  <2>2. un[p].nRef > 0
    BY <1>9, <2>1
  <2> QED
    BY <1>7, <1>8, <1>9, <2>1, <2>2 DEF Quiet
<1>11. /\ vt \in [Insts -> Instance]
       /\ vt[p].mod = un[p].mod /\ vt[p].nRef = un[p].nRef /\ vt[p].cursors = un[p].cursors
       /\ ~vt[p].obj /\ ~vt[p].dirty /\ vt[p].phase = "ended"
       /\ \A i \in Insts \ {p} : vt[i] = un[i]
  <2> DEFINE v == un[p]
             w == [v EXCEPT !.obj = FALSE, !.dirty = FALSE, !.phase = "ended"]
  <2>1. v \in Instance /\ v.phase \notin {"none", "ended"} /\ "ended" \in Phases
    BY <1>8, <1>9, <1>10 DEF Phases
  <2>2. /\ w \in Instance /\ w.mod = v.mod /\ w.nRef = v.nRef /\ w.cursors = v.cursors
        /\ ~w.obj /\ ~w.dirty /\ w.phase = "ended"
    BY <2>1, DropFields
  <2>3. vt = [un EXCEPT ![p] = w]
    BY <1>6, <1>8, <2>1
  <2> HIDE DEF w, vt, un
  <2> QED
    BY <1>8, <2>2, <2>3
<1> HIDE DEF vt, un
<1>12. ASSUME NEW i \in Insts
       PROVE  /\ Good(i, fin[i], Refs(i) - One(i, pDisconnect) - One(i, {p}), Pending,
                      Cardinality(Readers(i)))
              /\ Quiet(vt[i], fin[i])
  <2> DEFINE r == Refs(i) - One(i, pDisconnect)
  <2>1. /\ One(i, pDisconnect) \in {0, 1} /\ (One(i, pDisconnect) = 0 <=> i \notin pDisconnect)
        /\ Refs(i) \in Nat /\ Cardinality(Readers(i)) \in Nat
    BY OneOrNone, InstanceFacts
  <2>2. r \in Nat
    <3>1. un[i].nRef = r /\ un[i].nRef \in Nat
      BY <1>8 DEF Good
    <3> QED
      BY <3>1
  <2>3. Good(i, vt[i], r, Pending, Cardinality(Readers(i)))
    <3>1. CASE i = p
      <4>1. /\ vt[p] \in Instance /\ vt[p].nRef = Refs(p) - One(p, pDisconnect)
            /\ vt[p].cursors = Cardinality(Readers(p))
            /\ ~vt[p].obj /\ ~vt[p].dirty /\ vt[p].phase = "ended"
        BY <1>7, <1>9, <1>10, <1>11
      <4> QED
        BY <3>1, <4>1 DEF Good
    <3>2. CASE i # p
      BY <1>8, <1>11, <3>2
    <3> QED
      BY <3>1, <3>2
  <2>4. /\ i \in {p} => r > 0
        /\ i \in {p} /\ (i \in Pending \/ Cardinality(Readers(i)) > 0) => r > 1
    BY <1>7, <1>9
  <2> HIDE DEF r
  <2>5. fin = Unlock(vt, Once({p}))
    BY <1>6
  <2>6. Good(i, fin[i], r - One(i, {p}), Pending, Cardinality(Readers(i))) /\ Quiet(vt[i], fin[i])
    BY <2>1, <2>2, <2>3, <2>4, <2>5, UnlockedOnce
  <2> QED
    BY <2>6 DEF r
<1>13. \A i \in Insts : /\ vt[i].mod = vtab[i].mod
                        /\ vt[i].nRef > 0 => vtab[i].nRef > 0
  BY <1>8, <1>11
<1>14. \A i \in Insts : /\ fin[i] \in Instance
                        /\ fin[i].mod = vtab[i].mod
                        /\ fin[i].nRef \in Nat
                        /\ fin[i].nRef > 0 => vtab[i].nRef > 0
  <2>1. \A i \in Insts : fin[i] \in Instance /\ Quiet(vt[i], fin[i])
    BY <1>12 DEF Good
  <2> QED
    BY <1>13, <2>1 DEF Quiet, Instance
<1>15. fin \in [Insts -> Instance]
  BY <1>14 DEF Unlock
<1> HIDE DEF fin
<1>16. vtab' = fin /\ nRefModule' \in [Modules -> Nat] /\ ModulesCounted'
  BY <1>1, <1>14, Settled
<1>17. link' \in [Tables -> Insts \cup {NULL}] /\ Linked' = Linked \ {p}
  <2>1. link'[t] = NULL /\ (\A s \in Tables \ {t} : link'[s] = link[s])
        /\ link' \in [Tables -> Insts \cup {NULL}]
    BY <1>1 DEF IInv, TypeOK
  <2>2. Linked' = Linked \ {p}
    BY <1>6, <1>7, <2>1 DEF Linked
  <2> QED
    BY <2>1, <2>2
<1>18. Held'
  <2>1. ASSUME NEW i \in Insts
        PROVE  Good(i, vtab'[i], Refs(i)', Pending', Cardinality(Readers(i)'))
    <3>1. /\ Users(i)' = Users(i) /\ Readers(i)' = Readers(i)
      BY <1>3, SameUsers
    <3>2. Refs(i)' = One(i, Linked \ {p}) + One(i, {}) + One(i, Pending) + Cardinality(Users(i))
      BY <1>1, <1>5, <1>17, <3>1 DEF Refs, One
    <3>3. One(i, Linked \ {p}) = One(i, Linked) - One(i, {p}) /\ One(i, {}) = 0
      BY <1>7 DEF One
    <3>4. /\ One(i, Linked) \in {0, 1} /\ One(i, {p}) \in {0, 1} /\ One(i, Pending) \in {0, 1}
          /\ One(i, pDisconnect) \in {0, 1} /\ Cardinality(Users(i)) \in Nat
      BY OneOrNone, InstanceFacts
    <3>5. Refs(i)' = Refs(i) - One(i, pDisconnect) - One(i, {p})
      BY <3>2, <3>3, <3>4 DEF Refs
    <3> QED
      BY <1>5, <1>12, <1>16, <3>1, <3>5
  <2> QED
    BY <2>1 DEF Held
<1>19. AllTold
  <2>1. ASSUME NEW i \in Insts
        PROVE  Told(vtab[i], vtab'[i])
    <3>1. CASE i = p
      <4>1. ~fin[p].obj /\ fin[p].dirty = vt[p].dirty /\ fin[p].cursors = vt[p].cursors
            /\ fin[p].phase = "ended"
        BY <1>11, <1>12 DEF Quiet, Unheard
      <4>2. vt[p].dirty = FALSE
        BY <1>11 DEF Instance
      <4> QED
        BY <1>7, <1>9, <1>10, <1>11, <1>16, <3>1, <4>1, <4>2 DEF Told
    <3>2. CASE i # p
      <4>1. Quiet(vtab[i], un[i]) /\ Quiet(un[i], fin[i])
        BY <1>8, <1>11, <1>12, <3>2
      <4>2. Unheard(vtab[i], fin[i])
        BY <4>1 DEF Quiet, Unheard
      <4> QED
        BY <1>16, <4>2 DEF Told
    <3> QED
      BY <3>1, <3>2
  <2> QED
    BY <2>1 DEF AllTold
<1>20. TablesApart'
  <2>1. link'[t] = NULL /\ (\A s \in Tables \ {t} : link'[s] = link[s])
    BY <1>1 DEF IInv, TypeOK
  <2>2. \A a, b \in Tables : link'[a] = link'[b] /\ link'[a] # NULL => a = b
    BY <2>1 DEF IInv, TablesApart
  <2>3. ASSUME NEW s \in Tables, link'[s] # NULL
        PROVE  s \in schema'.tab /\ vtab'[link'[s]].obj
    <3>1. /\ s # t /\ link'[s] = link[s] /\ link[s] # p
      BY <1>7, <2>1, <2>3
    <3>2. PICK i \in Insts : i = link[s]
      BY <2>3, <3>1 DEF IInv, TypeOK
    <3>3. s \in schema.tab /\ vtab[i].obj /\ i \in Linked
      BY <2>3, <3>1, <3>2 DEF IInv, TablesApart, Linked
    <3>4. i \in Linked'
      BY <1>17, <3>1, <3>2, <3>3
    <3>5. Refs(i)' > 0 /\ vtab'[i].nRef = Refs(i)'
      BY <1>18, <3>4, RefsPrimed DEF Held, Good
    <3>6. Quiet(vtab[i], un[i]) /\ Quiet(un[i], vtab'[i])
      BY <1>8, <1>11, <1>12, <1>16, <3>1, <3>2
    <3>7. un[i].nRef > 0 /\ (un[i].obj => vtab'[i].obj)
      BY <3>5, <3>6 DEF Quiet
    <3> QED
      BY <1>2, <3>1, <3>2, <3>3, <3>6, <3>7 DEF Quiet
  <2> QED
    BY <1>1, <2>2, <2>3 DEF TablesApart
<1>21. TypeOK'
  BY <1>1, <1>2, <1>3, <1>4, <1>5, <1>15, <1>16, <1>17
     DEF IInv, TypeOK, SchemaType, ComType, SameStatements
<1>22. StatementsAgree'
  <2>1. com' = com \/ NoWriter
    BY <1>2
  <2> QED
    BY <1>1, <1>3, <2>1, SameWriters
<1>23. ClosedDown'
  BY <1>1 DEF ClosedDown
<1> QED
  BY <1>4, <1>5, <1>16, <1>18, <1>19, <1>20, <1>21, <1>22, <1>23 DEF IInv, Kept

-----------------------------------------------------------------------------
(* The invariant is inductive.                                             *)

LEMMA InitInv == Init => IInv
<1> SUFFICES ASSUME Init PROVE IInv
  OBVIOUS
<1>1. /\ NULL \notin Insts /\ NULL \notin Modules
      /\ NoInst \in Instance /\ NoInst.nRef = 0 /\ NoInst.cursors = 0
      /\ NoInst.phase = "none" /\ NoInst.mod = NULL
  BY VtabAssumption DEF NoInst, Instance, Phases, Insts, Modules
<1>2. NoInst.obj = FALSE /\ NoInst.dirty = FALSE
  BY DEF NoInst
<1>3. ~NoInst.obj /\ ~NoInst.dirty
  BY <1>2
<1>4. NoStmt \in Statement /\ NoStmt.exists = FALSE /\ NoStmt.writes = FALSE /\ NoStmt.run = "idle"
  BY DEF NoStmt, Statement
<1>5. /\ \A i \in Insts : vtab[i] = NoInst
      /\ \A s \in Stmts : stmt[s] = NoStmt
      /\ \A t \in Tables : link[t] = NULL
      /\ \A m \in Modules : nRefModule[m] = 0
      /\ aModule = NULL /\ pDisconnect = {} /\ aVTrans = <<>> /\ open = "open"
      /\ com.op = "none" /\ com.method = "none"
  BY DEF Init, NoCom
<1>6. TypeOK
  <2>1. vtab \in [Insts -> Instance] /\ stmt \in [Stmts -> Statement]
    BY <1>1, <1>4 DEF Init
  <2>2. schema \in SchemaType
    BY DEF Init, SchemaType
  <2>3. /\ com \in ComType /\ link \in [Tables -> Insts \cup {NULL}]
        /\ nRefModule \in [Modules -> Nat] /\ nSavepoint \in 0..1 /\ autoCommit \in BOOLEAN
        /\ aVTrans \in Seq(Insts)
    BY DEF Init, NoCom, ComType
  <2> QED
    BY <1>5, <2>1, <2>2, <2>3 DEF TypeOK, SchemaType, ComType
<1>7. Linked = {} /\ Pending = {}
  BY <1>5 DEF Linked, Pending
<1>8. Cardinality({}) = 0
  BY FS_EmptySet
<1>9. ASSUME NEW i \in Insts
      PROVE  Good(i, vtab[i], Refs(i), Pending, Cardinality(Readers(i)))
  <2>1. Users(i) = {} /\ Readers(i) = {}
    BY <1>4, <1>5 DEF Users, Readers
  <2>2. Refs(i) = 0
    BY <1>5, <1>7, <1>8, <2>1 DEF Refs, One
  <2> QED
    BY <1>1, <1>3, <1>5, <1>7, <1>8, <2>1, <2>2 DEF Good
<1>10. ModulesCounted
  <2>1. ASSUME NEW m \in Modules
        PROVE  nRefModule[m] = One(m, {aModule}) + Cardinality(Living(m))
    <3>1. Living(m) = {} /\ One(m, {aModule}) = 0
      BY <1>1, <1>5 DEF Living, One
    <3>2. nRefModule[m] = 0
      BY <1>5
    <3> QED
      BY <1>8, <3>1, <3>2
  <2> QED
    BY <2>1 DEF ModulesCounted
<1>11. TablesApart /\ EachOnce /\ CommitInOrder /\ AllSyncedFirst
  BY <1>5 DEF TablesApart, EachOnce, CommitInOrder, AllSyncedFirst
<1>12. StatementsAgree /\ ClosedDown
  BY <1>4, <1>5 DEF StatementsAgree, ClosedDown
<1> QED
  BY <1>6, <1>9, <1>10, <1>11, <1>12 DEF IInv, Held

LEMMA StatementsKeep ==
  ASSUME IInv, NEW s \in Stmts,
         \/ \E t \in Tables, w \in BOOLEAN : Compile(s, t, w)
         \/ Start(s) \/ Open(s) \/ Update(s)
         \/ Halt(s) \/ HaltFails(s) \/ Finalize(s)
  PROVE  Kept
<1>1. CASE \E t \in Tables, w \in BOOLEAN : Compile(s, t, w)
  BY <1>1, CompileKeeps
<1>2. CASE Start(s)
  BY <1>2, StartKeeps
<1>3. CASE Open(s)
  BY <1>3, OpenKeeps
<1>4. CASE Update(s)
  BY <1>4, UpdateKeeps
<1>5. CASE Halt(s)
  BY <1>5, HaltKeeps
<1>6. CASE HaltFails(s)
  BY <1>6, HaltFailsKeeps
<1>7. CASE Finalize(s)
  BY <1>7, FinalizeKeeps
<1> QED
  BY <1>1, <1>2, <1>3, <1>4, <1>5, <1>6, <1>7

LEMMA TablesKeep ==
  ASSUME IInv, NEW t \in Tables,
         CreateTable(t) \/ CreateFails(t) \/ DropTable(t) \/ Connect(t)
  PROVE  Kept
<1>1. CASE CreateTable(t)
  BY <1>1, CreateTableKeeps
<1>2. CASE CreateFails(t)
  BY <1>2, CreateFailsKeeps
<1>3. CASE DropTable(t)
  BY <1>3, DropTableKeeps
<1>4. CASE Connect(t)
  BY <1>4, ConnectKeeps
<1> QED
  BY <1>1, <1>2, <1>3, <1>4

LEMMA TransactionsKeep ==
  ASSUME IInv,
         \/ Begin \/ Commit \/ Rollback \/ Savepoint \/ RollbackTo
         \/ Sync \/ Decide \/ Finish \/ Finished
  PROVE  Kept
<1>1. CASE Begin
  BY <1>1, FlagsKeep
<1>2. CASE Commit
  BY <1>2, CommitKeeps
<1>3. CASE Rollback
  BY <1>3, RollbackKeeps
<1>4. CASE Savepoint
  BY <1>4, SavepointKeeps
<1>5. CASE RollbackTo
  BY <1>5, RollbackToKeeps
<1>6. CASE Sync
  BY <1>6, SyncKeeps
<1>7. CASE Decide
  BY <1>7, DecideKeeps
<1>8. CASE Finish
  BY <1>8, FinishKeeps
<1>9. CASE Finished
  BY <1>9, FinishedKeeps
<1> QED
  BY <1>1, <1>2, <1>3, <1>4, <1>5, <1>6, <1>7, <1>8, <1>9

LEMMA StepKept ==
  ASSUME IInv, Next
  PROVE  Kept
<1>1. CASE CreateModule
  BY <1>1, CreateModuleKeeps
<1>2. CASE \E t \in Tables : CreateTable(t) \/ CreateFails(t) \/ DropTable(t) \/ Connect(t)
  BY <1>2, TablesKeep
<1>3. CASE \E s \in Stmts :
             \/ \E t \in Tables, w \in BOOLEAN : Compile(s, t, w)
             \/ Start(s) \/ Open(s) \/ Update(s)
             \/ Halt(s) \/ HaltFails(s) \/ Finalize(s)
  BY <1>3, StatementsKeep
<1>4. CASE CompileFails
  BY <1>4, CompileFailsKeeps
<1>5. CASE Reread
  BY <1>5, RereadKeeps
<1>6. CASE OthersChange
  BY <1>6, FlagsKeep
<1>7. CASE \/ Begin \/ Commit \/ Rollback \/ Savepoint \/ RollbackTo
           \/ Sync \/ Decide \/ Finish \/ Finished
  BY <1>7, TransactionsKeep
<1>8. CASE Close
  BY <1>8, CloseKeeps
<1>9. CASE CloseAgain
  BY <1>9, CloseAgainKeeps
<1> QED
  BY <1>1, <1>2, <1>3, <1>4, <1>5, <1>6, <1>7, <1>8, <1>9 DEF Next

LEMMA StutterKept ==
  ASSUME IInv, UNCHANGED vars
  PROVE  Kept
<1>1. Pending' = Pending /\ Linked' = Linked /\ SameStatements
  BY Unchanged DEF vars, Pending, Linked
<1>2. Held' /\ ModulesCounted' /\ AllTold
  <2>1. UNCHANGED <<vtab, nRefModule, aModule, link, pDisconnect>>
    BY DEF vars
  <2>2. \A i \in Insts : Refs(i)' = Refs(i) /\ Readers(i)' = Readers(i)
    BY <1>1, <2>1, SameRefs
  <2> QED
    BY <1>1, <2>1, <2>2, SameInstances
<1>3. TypeOK' /\ TablesApart' /\ ClosedDown'
  BY <1>1 DEF vars, IInv, TypeOK, TablesApart, ClosedDown
<1>4. EachOnce' /\ CommitInOrder' /\ AllSyncedFirst'
  BY SameCommit DEF vars
<1>5. StatementsAgree'
  BY DEF vars, IInv, StatementsAgree, InSync
<1> QED
  BY <1>2, <1>3, <1>4, <1>5 DEF IInv, Kept

LEMMA EachStep ==
  ASSUME IInv, [Next]_vars
  PROVE  IInv' /\ AllTold
BY StepKept, StutterKept DEF Kept

(* No operation, in whatever order the application and the methods that it *)
(* wrote call them, loses a reference, a cursor or a member of the         *)
(* transaction.                                                            *)
THEOREM InductiveInvariant == Spec => []IInv
<1>1. Init => IInv
  BY InitInv
<1>2. IInv /\ [Next]_vars => IInv'
  BY EachStep
<1> QED
  BY <1>1, <1>2, PTL DEF Spec

-----------------------------------------------------------------------------
(* The theorems.                                                           *)

(* Every reachable state is well formed, for all tables and statements.    *)
THEOREM TypeCorrect == Spec => []TypeOK
<1>1. IInv => TypeOK
  BY DEF IInv
<1> QED
  BY <1>1, InductiveInvariant, PTL

(* A table is the only one of its instance, so that it counts as one.      *)
LEMMA OneTable ==
  ASSUME IInv, NEW i \in Insts
  PROVE  Cardinality({t \in Tables : link[t] = i}) = One(i, Linked)
<1>1. i # NULL
  BY VtabAssumption DEF Insts
<1>2. CASE i \in Linked
  <2>1. PICK t \in Tables : link[t] = i
    BY <1>2 DEF Linked
  <2>2. {u \in Tables : link[u] = i} = {t}
    BY <1>1, <2>1 DEF IInv, TablesApart
  <2>3. Cardinality({t}) = 1
    BY FS_Singleton
  <2> QED
    BY <1>2, <2>2, <2>3 DEF One
<1>3. CASE i \notin Linked
  <2>1. {u \in Tables : link[u] = i} = {}
    BY <1>1, <1>3 DEF Linked
  <2>2. Cardinality({}) = 0
    BY FS_EmptySet
  <2> QED
    BY <1>3, <2>1, <2>2 DEF One
<1> QED
  BY <1>2, <1>3

(* sqlite3VtabLock and sqlite3VtabUnlock: the count of an instance is that *)
(* of the table, the list, the transaction and the statements that refer   *)
(* to it, the count of a module that of its registration and instances,    *)
(* whatever was reset, dropped, replaced or rolled back between.           *)
THEOREM EveryReferenceCounts == Spec => []ReferencesCounted
<1>1. ASSUME IInv
      PROVE  ReferencesCounted
  <2>1. ASSUME NEW i \in Insts
        PROVE  vtab[i].nRef = Cardinality({t \in Tables : link[t] = i})
                              + (IF i \in pDisconnect THEN 1 ELSE 0)
                              + (IF i \in Pending THEN 1 ELSE 0)
                              + Cardinality(Users(i))
    <3>1. vtab[i].nRef = Refs(i)
      BY <1>1, InstanceFacts
    <3>2. Cardinality({t \in Tables : link[t] = i}) = One(i, Linked)
      BY <1>1, OneTable
    <3> QED
      BY <3>1, <3>2 DEF Refs, One
  <2>2. ASSUME NEW m \in Modules
        PROVE  nRefModule[m] = (IF aModule = m THEN 1 ELSE 0)
                               + Cardinality({i \in Insts : vtab[i].nRef > 0 /\ vtab[i].mod = m})
    <3>1. nRefModule[m] = One(m, {aModule}) + Cardinality(Living(m))
      BY <1>1 DEF IInv, ModulesCounted
    <3>2. One(m, {aModule}) = IF aModule = m THEN 1 ELSE 0
      BY DEF One
    <3> QED
      BY <3>1, <3>2 DEF Living
  <2> QED
    BY <2>1, <2>2 DEF ReferencesCounted
<1>2. IInv => ReferencesCounted
  BY <1>1
<1> QED
  BY <1>2, InductiveInvariant, PTL

(* sqlite3VtabBegin and callFinaliser: of the objects those in aVTrans are *)
(* those that have heard BEGIN, and nothing that frees, drops or resets    *)
(* takes one out before it has heard the end.                              *)
THEOREM EachHearsTheEnd == Spec => []TransactionsAgree
<1>1. ASSUME IInv
      PROVE  TransactionsAgree
  <2>1. ASSUME NEW i \in Insts
        PROVE  vtab[i].phase \in {"enlisted", "synced"} <=> i \in Pending /\ vtab[i].obj
    BY <1>1, InstanceFacts DEF Good
  <2> QED
    BY <2>1 DEF TransactionsAgree
<1>2. IInv => TransactionsAgree
  BY <1>1
<1> QED
  BY <1>2, InductiveInvariant, PTL

(* vdbeCommit: the two phases of a commit, with statements of the methods' *)
(* own between them.                                                       *)
THEOREM SyncedBeforeCommit == Spec => []AllSyncedFirst
<1>1. IInv => AllSyncedFirst
  BY DEF IInv
<1> QED
  BY <1>1, InductiveInvariant, PTL

(* sqlite3Close: when the connection goes, so has every object, and every  *)
(* module with it.                                                         *)
THEOREM AllAreDisconnected == Spec => []NothingLeft
<1>1. ASSUME IInv, open = "closed"
      PROVE  /\ \A i \in Insts : vtab[i].phase \in {"none", "ended"}
             /\ \A m \in Modules : nRefModule[m] = 0
  <2>1. /\ pDisconnect = {} /\ Linked = {} /\ aVTrans = <<>> /\ com.op = "none"
        /\ aModule = NULL /\ (\A s \in Stmts : ~stmt[s].exists)
    BY <1>1 DEF IInv, ClosedDown
  <2>2. Pending = {}
    BY <2>1 DEF Pending
  <2>3. Cardinality({}) = 0
    BY FS_EmptySet
  <2>4. ASSUME NEW i \in Insts
        PROVE  vtab[i].phase \in {"none", "ended"} /\ vtab[i].nRef = 0
    <3>1. Users(i) = {}
      BY <2>1 DEF Users
    <3>2. Refs(i) = 0
      BY <2>1, <2>2, <2>3, <3>1 DEF Refs, One
    <3>3. Good(i, vtab[i], Refs(i), Pending, Cardinality(Readers(i)))
      BY <1>1, InstanceFacts
    <3>4. ~vtab[i].obj /\ vtab[i].nRef = 0 /\ vtab[i].phase \in Phases /\ vtab[i].phase # "broken"
      BY <3>2, <3>3 DEF Good, Instance
    <3> QED
      BY <3>3, <3>4 DEF Good, Phases
  <2>5. ASSUME NEW m \in Modules
        PROVE  nRefModule[m] = 0
    <3>1. Living(m) = {}
      BY <2>4 DEF Living
    <3>2. One(m, {aModule}) = 0
      BY <2>1, VtabAssumption DEF One, Modules
    <3> QED
      BY <1>1, <2>3, <3>1, <3>2 DEF IInv, ModulesCounted
  <2> QED
    BY <2>4, <2>5
<1>2. IInv => NothingLeft
  BY <1>1 DEF NothingLeft
<1> QED
  BY <1>2, InductiveInvariant, PTL

(* What Told says is a step of the abstract object.                        *)
LEMMA ToldIsAStep ==
  ASSUME NEW i \in Insts, Told(vtab[i], vtab'[i])
  PROVE  [Object(i)!Next]_(Object(i)!vars)
<1> QED
  BY DEF Told, Unheard, Object!Next, Object!vars, Object!Create, Object!Connect, Object!Begin,
         Object!Update, Object!Open, Object!Close, Object!Sync, Object!Leave, Object!Commit,
         Object!Rollback, Object!Drop, Object!Disconnect

(* Each object sees its methods called in the order of VtabObject: the     *)
(* connection refines the specification of every one of its objects.       *)
THEOREM ObjectsMayRelyOnIt == Spec => ObjectContract
<1>1. Init => \A i \in Insts : Object(i)!Init
  BY DEF Init, NoInst, Object!Init
<1>2. IInv /\ [Next]_vars => [\A i \in Insts : [Object(i)!Next]_(Object(i)!vars)]_vars
  BY EachStep, ToldIsAStep DEF AllTold
<1> QED
  BY <1>1, <1>2, InductiveInvariant, PTL DEF Spec, ObjectContract

-----------------------------------------------------------------------------
(* The table over a Perl array.                                            *)

Values == Rows \cup {Hole}

Scan == [state : {"closed", "reading", "done"}, wanted : Wanted, row_ix : 0..MaxRows,
         due : SUBSET Rows, seen : SUBSET (Rows \cup {Hole}), twice : BOOLEAN]

(* A row is in one place, and is used up.                                  *)
OnePlaceEach ==
  /\ \A j, k \in DOMAIN rows : rows[j] = rows[k] /\ rows[j] # Hole => j = k
  /\ \A k \in DOMAIN rows : rows[k] \in written \cup {Hole}

(* IsWanted, of index i of array a.                                        *)
Wants(w, a, i) ==
  CASE w.by = "all"   -> TRUE
    [] w.by = "value" -> a[i + 1] \in w.of
    [] w.by = "rowid" -> i = w.of

(* What a scan of a that is at index ix for w has seen is not behind it;   *)
(* what it has not seen of the due is, where it is still wanted.           *)
InScan(a, w, ix, due, seen) ==
  /\ \A r \in due \ seen :
       \E k \in DOMAIN a : a[k] = r /\ k - 1 > ix /\ Wants(w, a, k - 1)
  /\ \A k \in DOMAIN a : a[k] \in seen /\ a[k] # Hole => k - 1 <= ix

ScanInv(cu, a, used) ==
  /\ ~cu.twice
  /\ cu.due \subseteq used /\ cu.seen \subseteq used \cup {Hole}
  /\ cu.state # "reading" => cu.due \subseteq cu.seen
  /\ cu.state = "reading" => InScan(a, cu.wanted, cu.row_ix, cu.due, cu.seen)

DataInv ==
  /\ DataTypeOK
  /\ OnePlaceEach
  /\ \A c \in Cursors : ScanInv(cursor[c], rows, written)

-----------------------------------------------------------------------------
(* Least and greatest positions.                                           *)

LEMMA LeastNatural ==
  ASSUME NEW T, T \subseteq Nat, T # {}
  PROVE  Min(T) \in T /\ \A y \in T : Min(T) <= y
<1> DEFINE R == OpToRel(<, Nat)
<1>1. IsWellFoundedOn(R, Nat)
  BY NatLessThanWellFounded
<1>2. \A x, y \in T : y < x => <<y, x>> \in R
  BY DEF OpToRel
<1> HIDE DEF R
<1>3. PICK x \in T : \A y \in T : ~ (<<y, x>> \in R)
  BY <1>1, WFMin
<1>4. \A y \in T : ~ (y < x)
  BY <1>2, <1>3
<1>5. \A y \in T : x <= y
  BY <1>4
<1> QED
  BY <1>5 DEF Min

LEMMA GreatestUpTo ==
  ASSUME NEW n \in Nat, NEW S, S \subseteq 0..n, S # {}
  PROVE  Max(S) \in S /\ \A j \in S : j <= Max(S)
<1> DEFINE T == {n - i : i \in S}
<1>1. \A i \in S : i \in Int /\ n - i \in Nat
  OBVIOUS
<1>2. T \subseteq Nat /\ T # {}
  BY <1>1
<1>3. Min(T) \in T /\ \A y \in T : Min(T) <= y
  <2> HIDE DEF T
  <2> QED
    BY <1>2, LeastNatural
<1>4. PICK i \in S : Min(T) = n - i
  BY <1>3
<1>5. \A j \in S : n - i <= n - j
  BY <1>3, <1>4
<1>6. \A j \in S : i >= j
  BY <1>1, <1>5
<1> QED
  BY <1>1, <1>6 DEF Max

-----------------------------------------------------------------------------
(* Changes of the array.                                                   *)

(* Perl's delete moves nothing.                                            *)
LEMMA EraseKeepsPlaces ==
  ASSUME NEW a \in Seq(Values), NEW I
  PROVE  /\ Erase(a, I) \in Seq(Values) /\ Len(Erase(a, I)) <= Len(a)
         /\ \A k \in DOMAIN Erase(a, I) :
              k \in DOMAIN a /\ Erase(a, I)[k] \in {Hole, a[k]}
<1> DEFINE b == [k \in DOMAIN a |-> IF k - 1 \in I THEN Hole ELSE a[k]]
           S == {k \in DOMAIN b : b[k] # Hole} \cup {0}
           m == Max(S)
<1>1. /\ b \in Seq(Values) /\ Len(b) = Len(a) /\ DOMAIN b = 1..Len(a) /\ DOMAIN a = 1..Len(a)
      /\ Len(a) \in Nat
      /\ \A k \in DOMAIN a : b[k] \in {Hole, a[k]}
  BY DEF Values
<1>2. m \in 0..Len(a)
  <2>1. S \subseteq 0..Len(a) /\ S # {}
    BY <1>1
  <2> HIDE DEF S
  <2>2. m \in S
    BY <1>1, <2>1, GreatestUpTo
  <2> QED
    BY <2>1, <2>2
<1> HIDE DEF m
<1>3. Erase(a, I) = SubSeq(b, 1, m)
  BY DEF Erase, m
<1> HIDE DEF b
<1>4. /\ SubSeq(b, 1, m) \in Seq(Values) /\ Len(SubSeq(b, 1, m)) = m
      /\ \A k \in 1..m : SubSeq(b, 1, m)[k] = b[k]
  BY <1>1, <1>2
<1> QED
  BY <1>1, <1>2, <1>3, <1>4

LEMMA AssignKeepsPlaces ==
  ASSUME NEW a \in Seq(Values), NEW i \in Nat, NEW r \in Values
  PROVE  /\ Assign(a, i, r) \in Seq(Values)
         /\ \A k \in DOMAIN Assign(a, i, r) :
              \/ k = i + 1 /\ Assign(a, i, r)[k] = r
              \/ k # i + 1 /\ Assign(a, i, r)[k] = Hole
              \/ k # i + 1 /\ k \in DOMAIN a /\ Assign(a, i, r)[k] = a[k]
<1> DEFINE n == Max({i + 1, Len(a)})
<1>1. Len(a) \in Nat /\ DOMAIN a = 1..Len(a)
  OBVIOUS
<1>2. n \in Nat
  <2> DEFINE top == i + 1 + Len(a)
             S == {i + 1, Len(a)}
  <2>1. top \in Nat /\ S \subseteq 0..top /\ S # {}
    BY <1>1
  <2>2. S \subseteq Nat
    BY <1>1
  <2> HIDE DEF top, S
  <2>3. Max(S) \in S
    BY <2>1, GreatestUpTo
  <2> QED
    BY <2>2, <2>3 DEF S
<1> HIDE DEF n
<1>3. Assign(a, i, r) = [k \in 1..n |-> IF k = i + 1 THEN r
                                       ELSE IF k \in DOMAIN a THEN a[k] ELSE Hole]
  BY DEF Assign, n
<1>4. \A k \in 1..n : (IF k = i + 1 THEN r ELSE IF k \in DOMAIN a THEN a[k] ELSE Hole) \in Values
  BY <1>1 DEF Values
<1>5. Assign(a, i, r) \in Seq(Values) /\ DOMAIN Assign(a, i, r) = 1..n
  BY <1>2, <1>3, <1>4
<1> QED
  BY <1>3, <1>5

(* In array a the rows are where they were, except those in new, one of    *)
(* which may be in one place.                                              *)
Follows(a, new) ==
  /\ a \in Seq(Values)
  /\ \A k \in DOMAIN a : \/ a[k] \in new \cup {Hole}
                         \/ k \in DOMAIN rows /\ a[k] = rows[k]
  /\ \A j, k \in DOMAIN a : a[j] \in new /\ a[k] \in new => j = k

LEMMA ErasedFollows ==
  ASSUME rows \in Seq(Values), NEW I
  PROVE  Follows(Erase(rows, I), {})
BY EraseKeepsPlaces DEF Follows

(* A fresh row is stored somewhere, after others were erased or not.       *)
LEMMA AssignedFollows ==
  ASSUME rows \in Seq(Values), OnePlaceEach, NEW r \in Unwritten, NEW i \in Nat, NEW a,
         Follows(a, {})
  PROVE  Follows(Assign(a, i, r), {r})
<1>1. r \in Values /\ a \in Seq(Values) /\ r # Hole /\ r \notin written
  BY PerlDataAssumption DEF Unwritten, Values, Follows
<1> DEFINE b == Assign(a, i, r)
<1>2. /\ b \in Seq(Values)
      /\ \A k \in DOMAIN b : \/ k = i + 1 /\ b[k] = r
                             \/ k # i + 1 /\ b[k] = Hole
                             \/ k # i + 1 /\ k \in DOMAIN a /\ b[k] = a[k]
  BY <1>1, AssignKeepsPlaces
<1> HIDE DEF b
<1>3. \A k \in DOMAIN a : a[k] = Hole \/ (k \in DOMAIN rows /\ a[k] = rows[k])
  BY DEF Follows
<1>4. \A k \in DOMAIN a : a[k] # r
  BY <1>1, <1>3 DEF OnePlaceEach
<1>5. \A k \in DOMAIN b : b[k] = r => k = i + 1
  BY <1>1, <1>2, <1>4
<1>6. \A k \in DOMAIN b : b[k] \in {r, Hole} \/ (k \in DOMAIN rows /\ b[k] = rows[k])
  BY <1>2, <1>3
<1> QED
  BY <1>2, <1>5, <1>6 DEF b, Follows

LEMMA AppendedFollows ==
  ASSUME rows \in Seq(Values), OnePlaceEach, NEW r \in Unwritten
  PROVE  Follows(Append(rows, r), {r})
<1>1. r \in Values /\ r # Hole /\ r \notin written
  BY PerlDataAssumption DEF Unwritten, Values
<1> DEFINE b == Append(rows, r)
           n == Len(rows)
<1>2. /\ b \in Seq(Values) /\ n \in Nat /\ DOMAIN b = 1..n+1 /\ DOMAIN rows = 1..n
      /\ b[n + 1] = r /\ \A k \in 1..n : b[k] = rows[k]
  BY <1>1
<1> HIDE DEF b, n
<1>3. \A k \in 1..n+1 : k \in 1..n \/ k = n + 1
  BY <1>2
<1>4. \A k \in 1..n : rows[k] # r
  BY <1>1, <1>2 DEF OnePlaceEach
<1> QED
  BY <1>2, <1>3, <1>4 DEF b, Follows

(* Every change of the array leaves the scans in order.                    *)
LEMMA BecomeKeeps ==
  ASSUME DataInv, NEW a, NEW new \in SUBSET Unwritten, Follows(a, new), Become(a, new),
         lastRowid' \in 0..MaxRows, last'.op \in {"none", "delete", "update", "insert"}
  PROVE  DataInv'
<1>1. /\ rows' = a /\ a \in Seq(Values) /\ Len(a) <= MaxRows
      /\ written' = written \cup new
      /\ cursor' = [c \in Cursors |-> [cursor[c] EXCEPT !.due = @ \cap Range(a)]]
      /\ new \subseteq Rows /\ new \cap written = {} /\ Hole \notin new
      /\ rows \in Seq(Values) /\ written \subseteq Rows /\ cursor \in [Cursors -> Scan]
  BY PerlDataAssumption DEF Become, Follows, Unwritten, DataInv, DataTypeOK, Values, Scan
<1>2. OnePlaceEach'
  <2>1. \A k \in DOMAIN a : a[k] \in written' \cup {Hole}
    BY <1>1 DEF Follows, DataInv, OnePlaceEach
  <2>2. ASSUME NEW j \in DOMAIN a, NEW k \in DOMAIN a, a[j] = a[k], a[j] # Hole
        PROVE  j = k
    <3>1. CASE a[j] \in new
      BY <2>2, <3>1 DEF Follows
    <3>2. CASE a[j] \notin new
      <4>1. j \in DOMAIN rows /\ k \in DOMAIN rows /\ a[j] = rows[j] /\ a[k] = rows[k]
        BY <2>2, <3>2 DEF Follows
      <4> QED
        BY <2>2, <4>1 DEF DataInv, OnePlaceEach
    <3> QED
      BY <3>1, <3>2
  <2> QED
    BY <1>1, <2>1, <2>2 DEF OnePlaceEach
<1>3. ASSUME NEW c \in Cursors
      PROVE  cursor'[c] \in Scan /\ ScanInv(cursor'[c], a, written')
  <2>1. PICK cu \in Scan : cu = cursor[c]
    BY <1>1
  <2> DEFINE nu == [cu EXCEPT !.due = @ \cap Range(a)]
  <2>2. /\ nu \in Scan
        /\ nu.state = cu.state /\ nu.wanted = cu.wanted /\ nu.row_ix = cu.row_ix
        /\ nu.due = cu.due \cap Range(a) /\ nu.seen = cu.seen /\ nu.twice = cu.twice
    BY DEF Scan
  <2>3. cursor'[c] = nu
    BY <1>1, <2>1
  <2>4. ScanInv(cu, rows, written)
    BY <2>1 DEF DataInv
  <2> HIDE DEF nu
  <2>5. ~nu.twice
    BY <2>2, <2>4 DEF ScanInv
  <2>6. /\ nu.due \subseteq written' /\ nu.seen \subseteq written' \cup {Hole}
        /\ nu.state # "reading" => nu.due \subseteq nu.seen
    BY <1>1, <2>2, <2>4 DEF ScanInv
  <2>7. ASSUME nu.state = "reading"
        PROVE  InScan(a, nu.wanted, nu.row_ix, nu.due, nu.seen)
    <3>1. InScan(rows, cu.wanted, cu.row_ix, cu.due, cu.seen)
      BY <2>2, <2>4, <2>7 DEF ScanInv
    <3>2. ASSUME NEW r \in nu.due \ nu.seen
          PROVE  \E k \in DOMAIN a : /\ a[k] = r /\ k - 1 > nu.row_ix
                                     /\ Wants(nu.wanted, a, k - 1)
      <4>1. r \in cu.due \ cu.seen /\ r \in Range(a) /\ r \in written
        BY <2>2, <2>4, <3>2 DEF ScanInv
      <4>2. PICK k \in DOMAIN a : a[k] = r
        BY <4>1 DEF Range
      <4>3. PICK j \in DOMAIN rows : /\ rows[j] = r /\ j - 1 > cu.row_ix
                                     /\ Wants(cu.wanted, rows, j - 1)
        BY <3>1, <4>1 DEF InScan
      <4>4. r # Hole
        BY <1>1, <4>1, PerlDataAssumption
      <4>5. k \in DOMAIN rows /\ rows[k] = r
        BY <1>1, <4>1, <4>2, <4>4 DEF Follows
      <4>6. k = j
        BY <4>3, <4>4, <4>5 DEF DataInv, OnePlaceEach
      <4>7. (k - 1) + 1 = k
        BY <1>1, <4>5
      <4>8. Wants(cu.wanted, a, k - 1)
        BY <4>2, <4>3, <4>6, <4>7 DEF Wants
      <4> QED
        BY <2>2, <4>2, <4>3, <4>6, <4>8
    <3>3. ASSUME NEW k \in DOMAIN a, a[k] \in nu.seen, a[k] # Hole
          PROVE  k - 1 <= nu.row_ix
      <4>1. a[k] \in written /\ a[k] \in cu.seen
        BY <2>2, <2>4, <3>3 DEF ScanInv
      <4>2. k \in DOMAIN rows /\ rows[k] = a[k]
        BY <1>1, <3>3, <4>1 DEF Follows
      <4> QED
        BY <2>2, <3>1, <3>3, <4>1, <4>2 DEF InScan
    <3> QED
      BY <3>2, <3>3 DEF InScan
  <2> QED
    BY <2>2, <2>3, <2>5, <2>6, <2>7 DEF ScanInv
<1>4. DataTypeOK'
  <2>1. cursor' \in [Cursors -> Scan]
    BY <1>1, <1>3
  <2>2. written' \subseteq Rows
    BY <1>1
  <2> QED
    BY <1>1, <2>1, <2>2 DEF DataTypeOK, Scan, Values
<1>5. \A c \in Cursors : ScanInv(cursor'[c], rows', written')
  BY <1>1, <1>3
<1> QED
  BY <1>2, <1>4, <1>5 DEF DataInv

-----------------------------------------------------------------------------
(* Scans.                                                                  *)

(* The index that NEXT finds is the first wanted one behind ix.            *)
LEMMA NextFinds ==
  ASSUME rows \in Seq(Values), NEW w, NEW ix \in Int
  PROVE  /\ NEXT(w, ix) \in 0..Len(rows)
         /\ NEXT(w, ix) \in Indices => NEXT(w, ix) > ix
         /\ \A i \in Indices : i > ix /\ IsWanted(w, i) => NEXT(w, ix) <= i
<1> DEFINE F == {i \in Indices : i > ix /\ IsWanted(w, i)}
           n == Len(rows)
           T == F \cup {n}
<1>1. n \in Nat /\ Indices = 0..n-1
  BY DEF Indices
<1>2. F \subseteq 0..n-1 /\ \A i \in F : i > ix
  BY <1>1
<1>3. NEXT(w, ix) = Min(T)
  BY DEF NEXT
<1>4. \A i \in Indices : i > ix /\ IsWanted(w, i) => i \in F
  OBVIOUS
<1> HIDE DEF F, n
<1>5. T \subseteq Nat /\ T \subseteq 0..n /\ T # {}
  <2>1. 0..n-1 \subseteq 0..n /\ 0..n \subseteq Nat /\ n \in 0..n
    BY <1>1
  <2> QED
    BY <1>2, <2>1
<1> HIDE DEF T
<1>6. Min(T) \in T /\ \A y \in T : Min(T) <= y
  BY <1>5, LeastNatural
<1>7. Min(T) \in Indices => Min(T) \in F
  BY <1>1, <1>6 DEF T
<1> QED
  BY <1>2, <1>3, <1>4, <1>5, <1>6, <1>7 DEF T, n

(* The next row is handed out, or the scan ends with nothing still due.    *)
LEMMA HandOutKeeps ==
  ASSUME DataInv, NEW cu \in Scan, NEW ix \in Int, NEW w, cu.wanted = w,
         ~cu.twice, cu.due \subseteq written, cu.seen \subseteq written \cup {Hole},
         InScan(rows, w, ix, cu.due, cu.seen)
  PROVE  LET nu == HandOut(cu, NEXT(w, ix)) IN nu \in Scan /\ ScanInv(nu, rows, written)
<1> DEFINE i == NEXT(w, ix)
           nu == HandOut(cu, i)
<1>1. /\ rows \in Seq(Values) /\ Len(rows) \in Nat /\ Len(rows) <= MaxRows /\ MaxRows \in Nat
      /\ DOMAIN rows = 1..Len(rows) /\ Indices = 0..Len(rows)-1
  BY PerlDataAssumption DEF DataInv, DataTypeOK, Values, Indices
<1>2. /\ i \in 0..Len(rows) /\ (i \in Indices => i > ix)
      /\ \A k \in Indices : k > ix /\ IsWanted(w, k) => i <= k
  BY <1>1, NextFinds
<1> HIDE DEF i
<1>3. \A r \in cu.due \ cu.seen :
        \E k \in DOMAIN rows : rows[k] = r /\ k - 1 >= i /\ k - 1 \in Indices
                               /\ Wants(w, rows, k - 1)
  <2>1. ASSUME NEW r \in cu.due \ cu.seen
        PROVE  \E k \in DOMAIN rows : rows[k] = r /\ k - 1 >= i /\ k - 1 \in Indices
                                      /\ Wants(w, rows, k - 1)
    <3>1. PICK k \in DOMAIN rows : rows[k] = r /\ k - 1 > ix /\ Wants(w, rows, k - 1)
      BY <2>1 DEF InScan
    <3>2. k - 1 \in Indices
      BY <1>1
    <3>3. IsWanted(w, k - 1)
      BY <3>1 DEF IsWanted, Wants
    <3> QED
      BY <1>1, <1>2, <3>1, <3>2, <3>3
  <2> QED
    BY <2>1
<1>4. CASE i \notin Indices
  <2>1. nu = [cu EXCEPT !.state = "done", !.row_ix = i]
    BY <1>4 DEF HandOut
  <2>2. /\ nu \in Scan /\ nu.state = "done" /\ nu.due = cu.due /\ nu.seen = cu.seen
        /\ ~nu.twice
    <3> HIDE DEF nu
    <3>1. i \in 0..MaxRows
      BY <1>1, <1>2
    <3>2. nu.state = "done" /\ nu.due = cu.due /\ nu.seen = cu.seen
      BY <2>1 DEF Scan
    <3>3. ~nu.twice
      BY <2>1 DEF Scan
    <3>4. nu \in Scan
      BY <2>1, <3>1 DEF Scan
    <3> QED
      BY <3>2, <3>3, <3>4
  <2>3. cu.due \subseteq cu.seen
    BY <1>1, <1>2, <1>3, <1>4
  <2> HIDE DEF nu
  <2> QED
    BY <2>2, <2>3 DEF ScanInv, nu, i
<1>5. CASE i \in Indices
  <2> DEFINE row == rows[i + 1]
             new == cu.seen \cup {row}
             again == cu.twice \/ (row # Hole /\ row \in cu.seen)
  <2>1. i + 1 \in DOMAIN rows /\ row \in Values /\ (i + 1) - 1 = i
    BY <1>1, <1>5
  <2>2. nu = [cu EXCEPT !.state = "reading", !.row_ix = i, !.seen = new, !.twice = again]
    BY <1>5 DEF HandOut
  <2>3. ~again
    BY <1>2, <1>5, <2>1 DEF InScan
  <2>4. again \in BOOLEAN /\ new \subseteq Rows \cup {Hole} /\ i \in 0..MaxRows
    BY <1>1, <1>2, <2>1, <2>3 DEF Scan, Values
  <2>5. row \in written \cup {Hole}
    BY <2>1 DEF DataInv, OnePlaceEach
  <2>6. ASSUME NEW r \in cu.due \ new
        PROVE  \E k \in DOMAIN rows : rows[k] = r /\ k - 1 > i /\ Wants(w, rows, k - 1)
    <3>1. PICK k \in DOMAIN rows : /\ rows[k] = r /\ k - 1 >= i /\ k - 1 \in Indices
                                   /\ Wants(w, rows, k - 1)
      BY <1>3, <2>6
    <3>2. k # i + 1
      BY <2>6, <3>1
    <3>3. k - 1 > i
      BY <1>1, <1>2, <3>1, <3>2
    <3> QED
      BY <3>1, <3>3
  <2>7. ASSUME NEW k \in DOMAIN rows, rows[k] \in new, rows[k] # Hole
        PROVE  k - 1 <= i
    <3>1. CASE rows[k] \in cu.seen
      <4>1. k - 1 <= ix
        BY <2>7, <3>1 DEF InScan
      <4>2. k \in Int /\ i \in Int /\ i > ix
        BY <1>1, <1>2, <1>5
      <4> QED
        BY <4>1, <4>2
    <3>2. CASE rows[k] = row
      <4>1. k = i + 1
        BY <2>1, <2>7, <3>2 DEF DataInv, OnePlaceEach
      <4>2. i \in Int
        BY <1>2
      <4> QED
        BY <4>1, <4>2
    <3> QED
      BY <2>7, <3>1, <3>2
  <2> HIDE DEF row, new, again
  <2>8. /\ nu \in Scan /\ nu.state = "reading" /\ nu.twice = again /\ nu.due = cu.due
        /\ nu.seen = new /\ nu.row_ix = i /\ nu.wanted = w
    BY <2>2, <2>4 DEF Scan
  <2> HIDE DEF nu
  <2>9. InScan(rows, w, i, cu.due, new)
    BY <2>6, <2>7 DEF InScan
  <2>10. new \subseteq written \cup {Hole}
    BY <2>5 DEF new
  <2>11. ~nu.twice
    BY <2>3, <2>8
  <2>12. ScanInv(nu, rows, written)
    BY <2>8, <2>9, <2>10, <2>11 DEF ScanInv
  <2> QED
    BY <2>8, <2>12 DEF nu, i
<1> QED
  BY <1>4, <1>5

(* A step of one scan.                                                     *)
LEMMA ScanKeeps ==
  ASSUME DataInv, NEW c \in Cursors, NEW nu \in Scan, ScanInv(nu, rows, written),
         cursor' = [cursor EXCEPT ![c] = nu],
         UNCHANGED <<rows, lastRowid, written, last>>
  PROVE  DataInv'
<1>1. cursor \in [Cursors -> Scan]
  BY DEF DataInv, DataTypeOK, Scan
<1>2. cursor' \in [Cursors -> Scan]
  BY <1>1
<1>3. DataTypeOK'
  BY <1>2 DEF DataInv, DataTypeOK, Scan
<1>4. \A d \in Cursors : ScanInv(cursor'[d], rows', written')
  BY <1>1 DEF DataInv
<1> QED
  BY <1>3, <1>4 DEF DataInv, OnePlaceEach

(* No scan is running.                                                     *)
LEMMA NoCursorIsAScan ==
  /\ NoCursor \in Scan /\ NoCursor.seen = {} /\ ~NoCursor.twice
  /\ ScanInv(NoCursor, rows, written)
<1>1. NoCursor \in Scan
  BY PerlDataAssumption DEF NoCursor, Scan, Wanted
<1>2. ~NoCursor.twice /\ NoCursor.due = {} /\ NoCursor.seen = {} /\ NoCursor.state = "closed"
  BY DEF NoCursor
<1> QED
  BY <1>1, <1>2 DEF ScanInv

LEMMA ExecuteKeeps ==
  ASSUME DataInv, NEW c \in Cursors, Execute(c)
  PROVE  DataInv'
<1>1. PICK w \in Wanted :
        cursor' = [cursor EXCEPT ![c] =
          HandOut([NoCursor EXCEPT !.wanted = w, !.due = RowsAt(Matched(w))], NEXT(w, -1))]
  BY DEF Execute
<1> DEFINE D == RowsAt(Matched(w))
           cu == [NoCursor EXCEPT !.wanted = w, !.due = D]
           nu == HandOut(cu, NEXT(w, -1))
<1>2. /\ rows \in Seq(Values) /\ Len(rows) \in Nat /\ MaxRows \in Nat
      /\ DOMAIN rows = 1..Len(rows) /\ Indices = 0..Len(rows)-1
  BY PerlDataAssumption DEF DataInv, DataTypeOK, Values, Indices
<1>3. \A r \in D : /\ r # Hole
                   /\ \E k \in DOMAIN rows : /\ rows[k] = r /\ k - 1 > -1
                                              /\ Wants(w, rows, k - 1)
  <2>1. ASSUME NEW r \in D
        PROVE  /\ r # Hole
               /\ \E k \in DOMAIN rows : /\ rows[k] = r /\ k - 1 > -1
                                          /\ Wants(w, rows, k - 1)
    <3>1. PICK i \in Indices : IsWanted(w, i) /\ rows[i + 1] = r /\ r # Hole
      BY <2>1 DEF RowsAt, Matched
    <3>2. i + 1 \in DOMAIN rows /\ (i + 1) - 1 = i /\ i > -1
      BY <1>2
    <3>3. Wants(w, rows, i)
      BY <3>1 DEF IsWanted, Wants
    <3>4. rows[i + 1] = r /\ (i + 1) - 1 > -1 /\ Wants(w, rows, (i + 1) - 1)
      BY <3>1, <3>2, <3>3
    <3> QED
      BY <3>1, <3>2, <3>4
  <2> QED
    BY <2>1
<1>4. D \subseteq written /\ D \subseteq Rows
  BY <1>2, <1>3 DEF DataInv, OnePlaceEach, Values
<1> HIDE DEF D
<1>5. cu \in Scan /\ cu.wanted = w /\ ~cu.twice /\ cu.due = D /\ cu.seen = {}
  <2>1. NoCursor \in Scan /\ NoCursor.seen = {} /\ ~NoCursor.twice
    BY NoCursorIsAScan
  <2>2. cu \in Scan
    BY <1>4, <2>1 DEF Scan
  <2>3. cu.wanted = w /\ cu.due = D /\ cu.seen = {}
    BY <2>1 DEF Scan
  <2>4. ~cu.twice
    BY <2>1 DEF Scan
  <2> QED
    BY <2>2, <2>3, <2>4
<1> HIDE DEF cu
<1>6. InScan(rows, w, -1, cu.due, cu.seen)
  BY <1>3, <1>5 DEF InScan
<1>7. nu \in Scan /\ ScanInv(nu, rows, written)
  <2>1. cu.due \subseteq written /\ cu.seen \subseteq written \cup {Hole} /\ -1 \in Int
    BY <1>4, <1>5
  <2> QED
    BY <1>5, <1>6, <2>1, HandOutKeeps
<1>8. cursor' = [cursor EXCEPT ![c] = nu]
  BY <1>1 DEF cu, D
<1> HIDE DEF nu
<1> QED
  BY <1>7, <1>8, ScanKeeps DEF Execute

LEMMA FetchKeeps ==
  ASSUME DataInv, NEW c \in Cursors, Fetch(c)
  PROVE  DataInv'
<1>1. PICK cu \in Scan : cu = cursor[c]
  BY DEF DataInv, DataTypeOK, Scan
<1> DEFINE nu == HandOut(cu, NEXT(cu.wanted, cu.row_ix))
<1>2. cursor' = [cursor EXCEPT ![c] = nu] /\ cu.state = "reading"
  BY <1>1 DEF Fetch, DataInv, DataTypeOK
<1>3. ScanInv(cu, rows, written)
  BY <1>1 DEF DataInv
<1>4. cu.row_ix \in Int
  BY PerlDataAssumption DEF Scan
<1>5. nu \in Scan /\ ScanInv(nu, rows, written)
  BY <1>2, <1>3, <1>4, HandOutKeeps DEF ScanInv
<1> HIDE DEF nu
<1> QED
  BY <1>2, <1>5, ScanKeeps DEF Fetch

LEMMA EndScanKeeps ==
  ASSUME DataInv, NEW c \in Cursors, EndScan(c)
  PROVE  DataInv'
BY NoCursorIsAScan, ScanKeeps DEF EndScan

-----------------------------------------------------------------------------
(* Statements that change the array, and what the program does to it.      *)

LEMMA RowsAreAnArray ==
  ASSUME DataInv
  PROVE  /\ rows \in Seq(Values) /\ Len(rows) \in 0..MaxRows /\ OnePlaceEach
         /\ Indices \subseteq Nat /\ Given \subseteq Nat /\ lastRowid \in 0..MaxRows
         /\ MaxRows \in Nat /\ Follows(rows, {})
<1>1. /\ rows \in Seq(Values) /\ Len(rows) \in 0..MaxRows /\ OnePlaceEach
      /\ Given \subseteq Nat /\ lastRowid \in 0..MaxRows /\ MaxRows \in Nat
  BY PerlDataAssumption DEF DataInv, DataTypeOK, Values
<1> QED
  BY <1>1 DEF Indices, Follows

LEMMA DeleteKeeps ==
  ASSUME DataInv, NEW w, DELETE(w)
  PROVE  DataInv'
<1> DEFINE a == Erase(rows, {ROWID(i) : i \in Matched(w)})
<1>1. Follows(a, {})
  BY RowsAreAnArray, ErasedFollows
<1>2. Become(a, {})
  BY DEF DELETE
<1>3. lastRowid' \in 0..MaxRows /\ last'.op = "delete"
  BY RowsAreAnArray DEF DELETE
<1> HIDE DEF a
<1> QED
  BY <1>1, <1>2, <1>3, BecomeKeeps

LEMMA RowUpdateKeeps ==
  ASSUME DataInv, NEW i \in Indices, NEW new \in Given \cup {ROWID(i)}, UPDATE(i, new)
  PROVE  DataInv'
<1> DEFINE old == ROWID(i)
           a(r) == IF new = old THEN Assign(rows, old, r) ELSE Assign(Erase(rows, {old}), new, r)
<1>1. PICK r \in Unwritten : Become(a(r), {r})
  BY DEF UPDATE
<1>2. old \in Nat /\ new \in Nat
  BY RowsAreAnArray DEF ROWID
<1>3. Follows(Erase(rows, {old}), {})
  BY RowsAreAnArray, ErasedFollows
<1>4. Follows(Assign(rows, old, r), {r}) /\ Follows(Assign(Erase(rows, {old}), new, r), {r})
  BY <1>2, <1>3, RowsAreAnArray, AssignedFollows
<1>5. Follows(a(r), {r})
  BY <1>4
<1>6. lastRowid' \in 0..MaxRows /\ last'.op = "update"
  BY RowsAreAnArray DEF UPDATE
<1> HIDE DEF a
<1> QED
  BY <1>1, <1>5, <1>6, BecomeKeeps

LEMMA InsertKeeps ==
  ASSUME DataInv, INSERT
  PROVE  DataInv'
<1>1. PICK r \in Unwritten : Become(Append(rows, r), {r})
  BY DEF INSERT
<1>2. Follows(Append(rows, r), {r})
  BY RowsAreAnArray, AppendedFollows
<1>3. lastRowid' \in 0..MaxRows /\ last'.op = "insert"
  BY RowsAreAnArray DEF INSERT
<1> QED
  BY <1>1, <1>2, <1>3, BecomeKeeps

LEMMA InsertAtKeeps ==
  ASSUME DataInv, NEW new \in Given, INSERTAt(new)
  PROVE  DataInv'
<1>1. PICK r \in Unwritten : Become(Assign(rows, new, r), {r})
  BY DEF INSERTAt
<1>2. Follows(Assign(rows, new, r), {r})
  BY RowsAreAnArray, AssignedFollows
<1>3. lastRowid' \in 0..MaxRows /\ last'.op = "insert"
  BY RowsAreAnArray DEF INSERTAt
<1> QED
  BY <1>1, <1>2, <1>3, BecomeKeeps

LEMMA PerlChangeKeeps ==
  ASSUME DataInv, PerlChange
  PROVE  DataInv'
<1>1. lastRowid' \in 0..MaxRows /\ last'.op = "none"
  BY RowsAreAnArray DEF PerlChange, NoStatement
<1>2. PICK r \in Unwritten :
        \/ Become(Append(rows, r), {r})
        \/ \E i \in Indices : Become(Assign(rows, i, r), {r})
  BY DEF PerlChange
<1>3. CASE Become(Append(rows, r), {r})
  <2>1. Follows(Append(rows, r), {r})
    BY RowsAreAnArray, AppendedFollows
  <2> QED
    BY <1>1, <1>3, <2>1, BecomeKeeps
<1>4. CASE \E i \in Indices : Become(Assign(rows, i, r), {r})
  <2>1. PICK i \in Indices : Become(Assign(rows, i, r), {r})
    BY <1>4
  <2>2. Follows(Assign(rows, i, r), {r})
    BY RowsAreAnArray, AssignedFollows
  <2> QED
    BY <1>1, <2>1, <2>2, BecomeKeeps
<1> QED
  BY <1>2, <1>3, <1>4

-----------------------------------------------------------------------------

LEMMA DataInitInv ==
  ASSUME DataInit
  PROVE  DataInv
<1>1. rows = <<>> /\ written = {} /\ lastRowid = 0 /\ last.op = "none"
  BY DEF DataInit, NoStatement
<1>2. \A c \in Cursors : cursor[c] \in Scan /\ ScanInv(cursor[c], rows, written)
  BY NoCursorIsAScan DEF DataInit
<1>3. cursor \in [Cursors -> Scan]
  BY <1>2 DEF DataInit
<1>4. DataTypeOK
  BY <1>1, <1>3, PerlDataAssumption DEF DataTypeOK, Scan
<1>5. OnePlaceEach
  BY <1>1 DEF OnePlaceEach
<1> QED
  BY <1>2, <1>4, <1>5 DEF DataInv

LEMMA DataStepInv ==
  ASSUME DataInv, [Table]_dataVars
  PROVE  DataInv'
<1>1. CASE \E c \in Cursors : Execute(c) \/ Fetch(c) \/ EndScan(c)
  BY <1>1, ExecuteKeeps, FetchKeeps, EndScanKeeps
<1>2. CASE \E w \in Wanted : DELETE(w)
  BY <1>2, DeleteKeeps
<1>3. CASE \E i \in {j \in Indices : rows[j + 1] # Hole} :
             \E new \in Given \cup {ROWID(i)} : UPDATE(i, new)
  BY <1>3, RowUpdateKeeps
<1>4. CASE INSERT
  BY <1>4, InsertKeeps
<1>5. CASE \E new \in Given : INSERTAt(new)
  BY <1>5, InsertAtKeeps
<1>6. CASE PerlChange
  BY <1>6, PerlChangeKeeps
<1>7. CASE UNCHANGED dataVars
  <2>1. /\ rows' = rows /\ cursor' = cursor /\ lastRowid' = lastRowid
        /\ written' = written /\ last' = last
    BY <1>7 DEF dataVars
  <2> QED
    BY <2>1 DEF DataInv, DataTypeOK, OnePlaceEach
<1> QED
  BY <1>1, <1>2, <1>3, <1>4, <1>5, <1>6, <1>7 DEF Table

(* Whatever statements and the program do to the array, and however many   *)
(* scans run: what a scan has still to return lies behind its position,    *)
(* and what it has returned does not.                                      *)
THEOREM DataInvariant == DataSpec => []DataInv
<1>1. DataInit => DataInv
  BY DataInitInv
<1>2. DataInv /\ [Table]_dataVars => DataInv'
  BY DataStepInv
<1> QED
  BY <1>1, <1>2, PTL DEF DataSpec

(* The array holds rows and holes, positions are indexes of it.            *)
THEOREM DataTypeCorrect == DataSpec => []DataTypeOK
<1>1. DataInv => DataTypeOK
  BY DEF DataInv
<1> QED
  BY <1>1, DataInvariant, PTL

(* A scan that ends has returned every row that was there from its first   *)
(* fetch to its last, and no scan ever returns a row twice, whatever is    *)
(* inserted, deleted, updated or pushed between two of its fetches.        *)
THEOREM ScansReturnRowsOnce == DataSpec => []ScanReturnsRowsOnce
<1>1. DataInv => ScanReturnsRowsOnce
  <2> SUFFICES ASSUME DataInv, NEW c \in Cursors
               PROVE  /\ cursor[c].state = "done" => cursor[c].due \subseteq cursor[c].seen
                      /\ ~cursor[c].twice
    BY DEF ScanReturnsRowsOnce
  <2> QED
    BY DEF DataInv, ScanInv
<1> QED
  BY <1>1, DataInvariant, PTL
-----------------------------------------------------------------------------
(* Induction over a set of numbers.                                        *)
LEMMA ReachesAll ==
  ASSUME NEW n \in Nat, NEW S, 0 \in S, \A k \in 0..n - 1 : k \in S => k + 1 \in S
  PROVE  \A k \in 0..n : k \in S
<1> DEFINE T == {k \in 0..n : k \notin S}
<1>1. SUFFICES ASSUME T # {}
               PROVE  FALSE
  OBVIOUS
<1>2. PICK m : m = Min(T)
  OBVIOUS
<1>3. m \in T /\ \A y \in T : m <= y
  <2>1. T \subseteq Nat
    OBVIOUS
  <2> HIDE DEF T
  <2> QED BY <1>1, <1>2, <2>1, LeastNatural
<1>4. m \in 0..n /\ m \notin S /\ m # 0
  BY <1>3
<1>5. m - 1 \in 0..n - 1 /\ m - 1 \in 0..n /\ m - 1 + 1 = m /\ ~(m <= m - 1)
  BY <1>4
<1>6. m - 1 \in S
  BY <1>3, <1>5
<1> QED BY <1>4, <1>5, <1>6

-----------------------------------------------------------------------------
(* Places of characters.                                                    *)

(* The places of characters in a string, of its characters and of its end, *)
(* and their numbers; decoded or not.                                      *)
ByteIn(s, b) == IF b < Len(s) THEN s[b + 1] ELSE "nul"
Firsts(s, decoded) == {b \in 0..Len(s) - 1 : decoded => ByteIn(s, b) # "continuation"}
Edges(s, decoded) == Firsts(s, decoded) \cup {Len(s)}
Upto(s, decoded, b) == {f \in Firsts(s, decoded) : f < b}
Rank(s, decoded, b) == Cardinality(Upto(s, decoded, b))

(* There are finitely many characters before any place.                    *)
LEMMA FirstsFinite ==
  ASSUME NEW s \in Seq(Kinds), NEW d
  PROVE  /\ Len(s) \in Nat
         /\ \A b \in Edges(s, d) : b \in 0..Len(s)
         /\ IsFiniteSet(Firsts(s, d)) /\ Cardinality(Firsts(s, d)) \in Nat
         /\ \A b : IsFiniteSet(Upto(s, d, b)) /\ Rank(s, d, b) \in Nat
<1>1. Len(s) \in Nat
  OBVIOUS
<1>2. IsFiniteSet(0..Len(s) - 1)
  BY <1>1, FS_Interval
<1>3. Firsts(s, d) \in SUBSET (0..Len(s) - 1)
  BY DEF Firsts
<1>4. IsFiniteSet(Firsts(s, d))
  BY <1>2, <1>3, FS_Subset
<1>5. \A b : IsFiniteSet(Upto(s, d, b))
  <2> SUFFICES ASSUME NEW b
               PROVE  IsFiniteSet(Upto(s, d, b))
    OBVIOUS
  <2>1. Upto(s, d, b) \in SUBSET Firsts(s, d)
    BY DEF Upto
  <2> QED BY <1>4, <2>1, FS_Subset
<1>6. \A b \in Edges(s, d) : b \in 0..Len(s)
  BY <1>1, <1>3 DEF Edges
<1> QED BY <1>1, <1>4, <1>5, <1>6, FS_CardinalityType DEF Rank

(* A place behind one character more.                                      *)
LEMMA RankNext ==
  ASSUME NEW s \in Seq(Kinds), NEW d, NEW b \in Firsts(s, d), NEW c \in Int, b < c,
         \A f \in Firsts(s, d) : f < c => f <= b
  PROVE  Rank(s, d, c) = Rank(s, d, b) + 1
<1>1. b \in Int /\ \A f \in Firsts(s, d) : f \in Int
  BY DEF Firsts
<1>2. Upto(s, d, c) = Upto(s, d, b) \cup {b}
  <2>1. \A f : f \in Upto(s, d, c) <=> f \in Firsts(s, d) /\ f < c
    BY DEF Upto
  <2>2. \A f : f \in Upto(s, d, b) <=> f \in Firsts(s, d) /\ f < b
    BY DEF Upto
  <2>3. \A f \in Firsts(s, d) : f < c <=> f < b \/ f = b
    BY <1>1
  <2>4. \A f : f \in Upto(s, d, c) <=> f \in Upto(s, d, b) \cup {b}
    BY <2>1, <2>2, <2>3
  <2> QED BY <2>4
<1>3. b \notin Upto(s, d, b)
  BY <1>1 DEF Upto
<1>4. IsFiniteSet(Upto(s, d, b))
  BY FirstsFinite
<1> QED BY <1>2, <1>3, <1>4, FS_AddElement DEF Rank

(* Characters are numbered in their order.                                 *)
LEMMA RankGrows ==
  ASSUME NEW s \in Seq(Kinds), NEW d, NEW b \in Firsts(s, d), NEW c \in Int, b < c
  PROVE  Rank(s, d, b) < Rank(s, d, c)
<1>1. b \in Int /\ \A f \in Firsts(s, d) : f \in Int
  BY DEF Firsts
<1>2. Upto(s, d, b) \cup {b} \in SUBSET Upto(s, d, c)
  <2>1. \A f : f \in Upto(s, d, c) <=> f \in Firsts(s, d) /\ f < c
    BY DEF Upto
  <2>2. \A f : f \in Upto(s, d, b) <=> f \in Firsts(s, d) /\ f < b
    BY DEF Upto
  <2>3. \A f \in Firsts(s, d) : f < b \/ f = b => f < c
    BY <1>1
  <2> QED BY <2>1, <2>2, <2>3
<1>3. b \notin Upto(s, d, b)
  BY <1>1 DEF Upto
<1>4. IsFiniteSet(Upto(s, d, b)) /\ IsFiniteSet(Upto(s, d, c))
  BY FirstsFinite
<1>5. Cardinality(Upto(s, d, b) \cup {b}) = Cardinality(Upto(s, d, b)) + 1
  BY <1>3, <1>4, FS_AddElement
<1>6. Cardinality(Upto(s, d, b) \cup {b}) <= Cardinality(Upto(s, d, c))
  BY <1>2, <1>4, FS_Subset
<1>7. Rank(s, d, b) \in Nat /\ Rank(s, d, c) \in Nat
  BY FirstsFinite
<1> QED BY <1>5, <1>6, <1>7 DEF Rank

(* The end is behind all of them.                                          *)
LEMMA RankOfEnd ==
  ASSUME NEW s \in Seq(Kinds), NEW d
  PROVE  /\ Rank(s, d, Len(s)) = Cardinality(Firsts(s, d))
         /\ \A b \in Firsts(s, d) : Rank(s, d, b) < Cardinality(Firsts(s, d))
<1>1. Len(s) \in Nat /\ \A b \in Firsts(s, d) : b \in Int /\ b < Len(s)
  BY DEF Firsts
<1>2. Upto(s, d, Len(s)) = Firsts(s, d)
  BY <1>1 DEF Upto
<1>3. \A b \in Firsts(s, d) : Rank(s, d, b) < Rank(s, d, Len(s))
  BY <1>1, RankGrows
<1> QED BY <1>2, <1>3 DEF Rank

(* No two places have the same number.                                     *)
LEMMA EdgeOfRank ==
  ASSUME NEW s \in Seq(Kinds), NEW d, NEW b \in Edges(s, d), NEW c \in Edges(s, d),
         Rank(s, d, b) = Rank(s, d, c)
  PROVE  b = c
<1>1. b \in 0..Len(s) /\ c \in 0..Len(s) /\ Len(s) \in Nat
  BY FirstsFinite
<1>2. Rank(s, d, b) \in Nat /\ Rank(s, d, c) \in Nat
  BY FirstsFinite
<1>3. CASE b < c
  <2>1. b \in Firsts(s, d)
    BY <1>1, <1>3 DEF Edges
  <2> QED BY <1>1, <1>2, <1>3, <2>1, RankGrows
<1>4. CASE c < b
  <2>1. c \in Firsts(s, d)
    BY <1>1, <1>4 DEF Edges
  <2> QED BY <1>1, <1>2, <1>4, <2>1, RankGrows
<1> QED BY <1>1, <1>3, <1>4

(* The first n numbers.                                                    *)
LEMMA IntervalSize ==
  ASSUME NEW n \in Nat
  PROVE  Cardinality(0..n - 1) = n
<1>1. 0 \in Int /\ n - 1 \in Int
  OBVIOUS
<1>2. Cardinality(0..n - 1) = IF 0 > n - 1 THEN 0 ELSE n - 1 - 0 + 1
  BY <1>1, FS_Interval
<1> QED BY <1>2

(* Where Perl sees bytes, these are the characters.                        *)
LEMMA RankOfByte ==
  ASSUME NEW s \in Seq(Kinds), NEW d, ~d, NEW b \in 0..Len(s)
  PROVE  /\ b \in Edges(s, d) /\ Rank(s, d, b) = b
         /\ Cardinality(Firsts(s, d)) = Len(s)
<1>1. Len(s) \in Nat /\ \A f : f \in Firsts(s, d) <=> f \in 0..Len(s) - 1
  BY DEF Firsts
<1>2. Firsts(s, d) = 0..Len(s) - 1
  BY <1>1
<1>3. \A f : f \in Upto(s, d, b) <=> f \in 0..b - 1
  <2>1. \A f : f \in Upto(s, d, b) <=> f \in Firsts(s, d) /\ f < b
    BY DEF Upto
  <2> QED BY <1>1, <2>1
<1>4. Upto(s, d, b) = 0..b - 1
  BY <1>3
<1>5. b \in Nat
  BY <1>1
<1>6. Cardinality(0..b - 1) = b
  BY <1>5, IntervalSize
<1>7. Cardinality(0..Len(s) - 1) = Len(s)
  BY <1>1, IntervalSize
<1>8. b \in Edges(s, d)
  BY <1>1 DEF Edges
<1> QED BY <1>2, <1>4, <1>6, <1>7, <1>8 DEF Rank

(* A string starts with a character.                                       *)
LEMMA FirstEdge ==
  ASSUME NEW s \in Seq(Kinds), NEW d, d => Valid(s)
  PROVE  0 \in Edges(s, d) /\ Rank(s, d, 0) = 0
<1>1. Len(s) \in Nat /\ DOMAIN s = 1..Len(s)
  OBVIOUS
<1>2. 0 \in Edges(s, d)
  <2>1. CASE Len(s) = 0
    BY <2>1 DEF Edges
  <2>2. CASE Len(s) > 0
    <3>1. 1 \in DOMAIN s /\ 0 \in 0..Len(s) - 1 /\ 0 < Len(s)
      BY <1>1, <2>2
    <3>2. Valid(s) => s[1] # "continuation"
      BY <3>1 DEF Valid
    <3>3. ByteIn(s, 0) = s[1]
      BY <3>1 DEF ByteIn
    <3>4. d => ByteIn(s, 0) # "continuation"
      BY <3>2, <3>3
    <3> QED BY <3>1, <3>4 DEF Edges, Firsts
  <2> QED BY <1>1, <2>1, <2>2
<1>3. \A f \in Firsts(s, d) : ~(f < 0)
  BY <1>1 DEF Firsts
<1>4. Upto(s, d, 0) = {}
  BY <1>3 DEF Upto
<1> QED BY <1>2, <1>4, FS_EmptySet DEF Rank

(* One character forward.                                                  *)
LEMMA ForwardStep ==
  ASSUME pInput \in Seq(Kinds), NEW d, d, Valid(pInput), NEW b \in Firsts(pInput, d)
  PROVE  /\ Forward(b) \in Edges(pInput, d)
         /\ Rank(pInput, d, Forward(b)) = Rank(pInput, d, b) + 1
<1>1. PICK n \in Nat : n = Len(pInput) /\ DOMAIN pInput = 1..n
  OBVIOUS
<1>2. /\ b \in 0..n - 1 /\ pInput[b + 1] \in Kinds /\ pInput[b + 1] # "continuation"
      /\ Byte(b) = pInput[b + 1]
  BY <1>1 DEF Firsts, ByteIn, Byte
<1>3. \A i \in 1..n : /\ pInput[i] = "lead" => i < n /\ pInput[i + 1] = "continuation"
                      /\ pInput[i] = "continuation" => i > 1 /\ pInput[i - 1] = "lead"
  BY <1>1 DEF Valid
<1>4. \A f : f \in Firsts(pInput, d) <=> f \in 0..n - 1 /\ pInput[f + 1] # "continuation"
  BY <1>1 DEF Firsts, ByteIn
<1>5. CASE pInput[b + 1] = "lead"
  <2>1. Forward(b) = b + 2
    BY <1>2, <1>5 DEF Forward
  <2>2. b + 1 < n /\ pInput[b + 2] = "continuation"
    BY <1>2, <1>3, <1>5
  <2>3. b + 2 < n => pInput[b + 3] # "continuation"
    <3>1. b + 2 < n => b + 3 \in 1..n
      BY <1>2
    <3>2. b + 2 < n /\ pInput[b + 3] = "continuation" => pInput[b + 2] = "lead"
      <4>1. PICK i \in Int : i = b + 3
        BY <1>2
      <4>2. i - 1 = b + 2
        BY <1>2, <4>1
      <4> QED BY <1>3, <3>1, <4>1, <4>2
    <3> QED BY <1>2, <2>2, <3>2
  <2>4. b + 2 \in Edges(pInput, d)
    <3>1. CASE b + 2 = n
      BY <1>1, <3>1 DEF Edges
    <3>2. CASE b + 2 < n
      <4>1. b + 2 \in 0..n - 1 /\ b + 2 + 1 = b + 3
        BY <1>2, <3>2
      <4> QED BY <1>4, <2>3, <3>2, <4>1 DEF Edges
    <3>3. b + 2 = n \/ b + 2 < n
      BY <1>1, <1>2, <2>2
    <3> QED BY <3>1, <3>2, <3>3
  <2>5. \A f \in Firsts(pInput, d) : f < b + 2 => f <= b
    <3>1. b + 1 \notin Firsts(pInput, d)
      <4>1. b + 1 + 1 = b + 2
        BY <1>2
      <4> QED BY <1>4, <2>2, <4>1
    <3>2. \A f \in Int : f < b + 2 /\ f # b + 1 => f <= b
      BY <1>2
    <3>3. \A f \in Firsts(pInput, d) : f \in Int
      BY <1>1 DEF Firsts
    <3>4. \A f \in Firsts(pInput, d) : f # b + 1
      <4>1. PICK i : i = b + 1
        OBVIOUS
      <4> QED BY <3>1, <4>1
    <3> QED BY <3>2, <3>3, <3>4
  <2>6. b + 2 \in Int /\ b < b + 2
    BY <1>2
  <2>7. Rank(pInput, d, b + 2) = Rank(pInput, d, b) + 1
    BY <2>5, <2>6, RankNext
  <2> QED BY <2>1, <2>4, <2>7
<1>6. CASE pInput[b + 1] = "ascii"
  <2>1. Forward(b) = b + 1
    BY <1>2, <1>6 DEF Forward
  <2>2. b + 1 < n => pInput[b + 2] # "continuation"
    <3>1. b + 1 < n => b + 2 \in 1..n
      BY <1>2
    <3>2. b + 1 < n /\ pInput[b + 2] = "continuation" => pInput[b + 1] = "lead"
      <4>1. PICK i \in Int : i = b + 2
        BY <1>2
      <4>2. i - 1 = b + 1
        BY <1>2, <4>1
      <4> QED BY <1>3, <3>1, <4>1, <4>2
    <3> QED BY <1>2, <1>6, <3>2
  <2>3. b + 1 \in Edges(pInput, d)
    <3>1. CASE b + 1 = n
      BY <1>1, <3>1 DEF Edges
    <3>2. CASE b + 1 < n
      <4>1. b + 1 \in 0..n - 1 /\ b + 1 + 1 = b + 2
        BY <1>2, <3>2
      <4> QED BY <1>4, <2>2, <3>2, <4>1 DEF Edges
    <3>3. b + 1 = n \/ b + 1 < n
      BY <1>1, <1>2
    <3> QED BY <3>1, <3>2, <3>3
  <2>4. \A f \in Firsts(pInput, d) : f < b + 1 => f <= b
    BY <1>2, <1>4
  <2>5. b + 1 \in Int /\ b < b + 1
    BY <1>2
  <2>6. Rank(pInput, d, b + 1) = Rank(pInput, d, b) + 1
    BY <2>4, <2>5, RankNext
  <2> QED BY <2>1, <2>3, <2>6
<1> QED BY <1>2, <1>5, <1>6 DEF Kinds

(* One character back: past the continuation bytes there is always one.    *)
LEMMA BackStep ==
  ASSUME pInput \in Seq(Kinds), NEW d, d, Valid(pInput), NEW c \in Edges(pInput, d), c > 0
  PROVE  /\ Back(c) \in Edges(pInput, d)
         /\ Rank(pInput, d, c) = Rank(pInput, d, Back(c)) + 1
<1>1. PICK n \in Nat : n = Len(pInput) /\ DOMAIN pInput = 1..n
  OBVIOUS
<1>2. c \in 1..n
  <2>1. c \in 0..Len(pInput)
    BY FirstsFinite
  <2> QED BY <1>1, <2>1
<1>3. \A i \in 1..n : pInput[i] = "continuation" => i > 1 /\ pInput[i - 1] = "lead"
  BY <1>1 DEF Valid
<1>4. \A f : f \in Firsts(pInput, d) <=> f \in 0..n - 1 /\ pInput[f + 1] # "continuation"
  BY <1>1 DEF Firsts, ByteIn
<1>5. \A j \in 0..n - 1 : Byte(j) = pInput[j + 1]
  BY <1>1 DEF Byte
<1>6. \E k \in 0..c - 1 : /\ Byte(k) # "continuation"
                          /\ \A j \in k + 1..c - 1 : Byte(j) = "continuation"
  <2>1. CASE pInput[c] = "continuation"
    <3>1. c > 1 /\ pInput[c - 1] = "lead"
      BY <1>2, <1>3, <2>1
    <3>2. c - 2 \in 0..c - 1 /\ c - 2 \in 0..n - 1 /\ c - 1 \in 0..n - 1
      BY <1>2, <3>1
    <3>3. Byte(c - 2) = pInput[c - 2 + 1] /\ Byte(c - 1) = pInput[c - 1 + 1]
      BY <1>5, <3>2
    <3>4. Byte(c - 2) = "lead" /\ Byte(c - 1) = "continuation"
      BY <1>2, <2>1, <3>1, <3>3
    <3>5. \A j \in c - 2 + 1..c - 1 : j = c - 1
      BY <1>2
    <3> QED BY <3>2, <3>4, <3>5
  <2>2. CASE pInput[c] # "continuation"
    <3>1. c - 1 \in 0..c - 1 /\ c - 1 \in 0..n - 1
      BY <1>2
    <3>2. Byte(c - 1) = pInput[c - 1 + 1]
      BY <1>5, <3>1
    <3>3. Byte(c - 1) # "continuation"
      BY <1>2, <2>2, <3>2
    <3>4. ~\E j : j \in c - 1 + 1..c - 1
      BY <1>2
    <3> QED BY <3>1, <3>3, <3>4
  <2> QED BY <2>1, <2>2
<1>7. PICK k : k = Back(c)
  OBVIOUS
<1>8. /\ k \in 0..c - 1 /\ Byte(k) # "continuation"
      /\ \A j \in k + 1..c - 1 : Byte(j) = "continuation"
  BY <1>6, <1>7 DEF Back
<1>9. k \in Firsts(pInput, d) /\ k \in Int /\ k < c /\ c \in Int
  <2>1. k \in 0..n - 1
    BY <1>1, <1>2, <1>8
  <2>2. Byte(k) = pInput[k + 1]
    BY <1>5, <2>1
  <2>3. k \in Firsts(pInput, d)
    BY <1>4, <1>8, <2>1, <2>2
  <2>4. k \in Int /\ k < c /\ c \in Int
    BY <1>1, <1>2, <1>8
  <2> QED BY <2>3, <2>4
<1>10. \A f \in Firsts(pInput, d) : f < c => f <= k
  <2> SUFFICES ASSUME NEW f \in Firsts(pInput, d), f < c, ~(f <= k)
               PROVE  FALSE
    OBVIOUS
  <2>1. f \in 0..n - 1 /\ pInput[f + 1] # "continuation"
    BY <1>4
  <2>2. f \in k + 1..c - 1
    BY <1>2, <1>9, <2>1
  <2> QED BY <1>5, <1>8, <2>1, <2>2
<1>11. Rank(pInput, d, c) = Rank(pInput, d, k) + 1
  BY <1>9, <1>10, RankNext
<1> QED BY <1>7, <1>9, <1>11 DEF Edges

(* Every number up to the number of characters is one of a place: the      *)
(* place behind the one before.                                            *)
LEMMA EachRank ==
  ASSUME pInput \in Seq(Kinds), NEW d, d, Valid(pInput)
  PROVE  \A k \in 0..Cardinality(Firsts(pInput, d)) :
           \E e \in Edges(pInput, d) : Rank(pInput, d, e) = k
<1>1. PICK n \in Nat : n = Cardinality(Firsts(pInput, d))
  BY FirstsFinite
<1> DEFINE S == {Rank(pInput, d, e) : e \in Edges(pInput, d)}
<1>2. 0 \in S
  BY FirstEdge
<1>3. \A k \in 0..n - 1 : k \in S => k + 1 \in S
  <2> SUFFICES ASSUME NEW k \in 0..n - 1, NEW e \in Edges(pInput, d), Rank(pInput, d, e) = k
               PROVE  \E f \in Edges(pInput, d) : Rank(pInput, d, f) = k + 1
    OBVIOUS
  <2>1. k # n
    <3>1. \A j \in 0..n - 1 : j # n
      OBVIOUS
    <3> QED BY <3>1
  <2>2. Rank(pInput, d, Len(pInput)) = n
    BY <1>1, RankOfEnd
  <2>3. e \in Firsts(pInput, d)
    BY <2>1, <2>2 DEF Edges
  <2> QED BY <2>3, ForwardStep
<1>4. \A k \in 0..n : k \in S
  <2> HIDE DEF S
  <2> QED BY <1>1, <1>2, <1>3, ReachesAll
<1> QED BY <1>1, <1>4

(* Hopping forward: the recursion has the solution that numbers the places,*)
(* and no other.                                                           *)
LEMMA HopForward ==
  ASSUME pInput \in Seq(Kinds), NEW d, d, Valid(pInput), NEW b \in Edges(pInput, d),
         NEW off \in Int, off >= 0, NEW r \in Nat, NEW n \in Nat, r + off <= n
  PROVE  r = Rank(pInput, d, b) /\ n = Cardinality(Firsts(pInput, d)) =>
           /\ utf8_hop(b, off) \in Edges(pInput, d)
           /\ Rank(pInput, d, utf8_hop(b, off)) = r + off
<1>1. /\ \A k \in 0..off : r + k \in 0..n
      /\ \A k \in 0..off :
           k # 0 => k - 1 \in 0..off /\ r + (k - 1) + 1 = r + k /\ r + (k - 1) # n
      /\ 0 \in 0..off /\ r + 0 = r /\ off \in Nat
  OBVIOUS
<1>2. SUFFICES ASSUME r = Rank(pInput, d, b), n = Cardinality(Firsts(pInput, d))
               PROVE  /\ utf8_hop(b, off) \in Edges(pInput, d)
                      /\ Rank(pInput, d, utf8_hop(b, off)) = r + off
  OBVIOUS
<1> DEFINE At(k) == CHOOSE e \in Edges(pInput, d) : Rank(pInput, d, e) = r + k
           Step(f) == [k \in 0..off |-> IF k = 0 THEN b ELSE Forward(f[k - 1])]
           g == [k \in 0..off |-> At(k)]
           F == CHOOSE f : f = Step(f)
<1>3. \A k \in 0..off : At(k) \in Edges(pInput, d) /\ Rank(pInput, d, At(k)) = r + k
  <2> SUFFICES ASSUME NEW k \in 0..off
               PROVE  \E e \in Edges(pInput, d) : Rank(pInput, d, e) = r + k
    OBVIOUS
  <2>1. r + k \in 0..n
    BY <1>1
  <2> QED BY <1>2, <2>1, EachRank
<1>4. \A k \in 0..off : k # 0 => At(k) = Forward(At(k - 1))
  <2> SUFFICES ASSUME NEW k \in 0..off, k # 0
               PROVE  At(k) = Forward(At(k - 1))
    OBVIOUS
  <2>1. k - 1 \in 0..off /\ r + (k - 1) + 1 = r + k /\ r + (k - 1) # n
    BY <1>1
  <2>2. PICK e : e = At(k - 1)
    OBVIOUS
  <2>3. e \in Edges(pInput, d) /\ Rank(pInput, d, e) = r + (k - 1)
    BY <1>3, <2>1, <2>2
  <2>4. PICK c : c = At(k)
    OBVIOUS
  <2>5. c \in Edges(pInput, d) /\ Rank(pInput, d, c) = r + k
    BY <1>3, <2>4
  <2> HIDE DEF At
  <2>6. Rank(pInput, d, Len(pInput)) = n
    BY <1>2, RankOfEnd
  <2>7. e \in Firsts(pInput, d)
    <3>1. e # Len(pInput)
      BY <2>1, <2>3, <2>6
    <3> QED BY <2>3, <3>1 DEF Edges
  <2>8. Forward(e) \in Edges(pInput, d) /\ Rank(pInput, d, Forward(e)) = r + k
    BY <2>1, <2>3, <2>7, ForwardStep
  <2>9. Forward(e) = c
    BY <2>5, <2>8, EdgeOfRank
  <2> QED BY <2>2, <2>4, <2>9
<1>5. At(0) = b
  <2>1. PICK c : c = At(0)
    OBVIOUS
  <2>2. c \in Edges(pInput, d) /\ Rank(pInput, d, c) = r
    BY <1>1, <1>3, <2>1
  <2> HIDE DEF At
  <2> QED BY <1>2, <2>1, <2>2, EdgeOfRank
<1> HIDE DEF At
<1>6. g = Step(g)
  <2>1. \A k \in 0..off : k # 0 => k - 1 \in 0..off
    OBVIOUS
  <2>2. \A k \in 0..off : g[k] = Step(g)[k]
    BY <1>4, <1>5, <2>1
  <2> QED BY <2>2
<1> HIDE DEF g, Step
<1>7. F = Step(F)
  BY <1>6
<1>8. utf8_hop(b, off) = F[off]
  BY DEF utf8_hop, Step
<1> HIDE DEF F
<1>9. \A k \in 0..off : F[k] = IF k = 0 THEN b ELSE Forward(F[k - 1])
  BY <1>7 DEF Step
<1>10. \A k \in 0..off : F[k] = At(k)
  <2> DEFINE S == {k \in 0..off : F[k] = At(k)}
  <2>1. 0 \in S
    BY <1>5, <1>9
  <2>2. \A k \in 0..off - 1 : k \in S => k + 1 \in S
    <3> SUFFICES ASSUME NEW k \in 0..off - 1, F[k] = At(k)
                 PROVE  F[k + 1] = At(k + 1)
      OBVIOUS
    <3>1. k + 1 \in 0..off /\ k + 1 # 0 /\ k + 1 - 1 = k
      OBVIOUS
    <3>2. F[k + 1] = Forward(F[k + 1 - 1]) /\ At(k + 1) = Forward(At(k + 1 - 1))
      BY <1>4, <1>9, <3>1
    <3> QED BY <3>1, <3>2
  <2>3. \A k \in 0..off : k \in S
    <3> HIDE DEF S
    <3> QED BY <1>1, <2>1, <2>2, ReachesAll
  <2> QED BY <2>3
<1>11. off \in 0..off
  BY <1>1
<1> QED BY <1>3, <1>8, <1>10, <1>11

(* Hopping back likewise.                                                  *)
LEMMA HopBack ==
  ASSUME pInput \in Seq(Kinds), NEW d, d, Valid(pInput), NEW b \in Edges(pInput, d),
         NEW off \in Int, off < 0, NEW r \in Nat, NEW n \in Nat, r <= n, 0 <= r + off
  PROVE  r = Rank(pInput, d, b) /\ n = Cardinality(Firsts(pInput, d)) =>
           /\ utf8_hop(b, off) \in Edges(pInput, d)
           /\ Rank(pInput, d, utf8_hop(b, off)) = r + off
<1>1. /\ \A k \in 0..-off : r - k \in 0..n
      /\ \A k \in 0..-off :
           k # 0 => k - 1 \in 0..-off /\ r - (k - 1) = r - k + 1 /\ r - (k - 1) # 0
      /\ 0 \in 0..-off /\ r - 0 = r /\ -off \in 0..-off /\ r - (-off) = r + off /\ -off \in Nat
  OBVIOUS
<1>2. SUFFICES ASSUME r = Rank(pInput, d, b), n = Cardinality(Firsts(pInput, d))
               PROVE  /\ utf8_hop(b, off) \in Edges(pInput, d)
                      /\ Rank(pInput, d, utf8_hop(b, off)) = r + off
  OBVIOUS
<1> DEFINE At(k) == CHOOSE e \in Edges(pInput, d) : Rank(pInput, d, e) = r - k
           Step(f) == [k \in 0..-off |-> IF k = 0 THEN b ELSE Back(f[k - 1])]
           g == [k \in 0..-off |-> At(k)]
           F == CHOOSE f : f = Step(f)
<1>3. \A k \in 0..-off : At(k) \in Edges(pInput, d) /\ Rank(pInput, d, At(k)) = r - k
  <2> SUFFICES ASSUME NEW k \in 0..-off
               PROVE  \E e \in Edges(pInput, d) : Rank(pInput, d, e) = r - k
    OBVIOUS
  <2>1. r - k \in 0..n
    BY <1>1
  <2> QED BY <1>2, <2>1, EachRank
<1>4. \A k \in 0..-off : k # 0 => At(k) = Back(At(k - 1))
  <2> SUFFICES ASSUME NEW k \in 0..-off, k # 0
               PROVE  At(k) = Back(At(k - 1))
    OBVIOUS
  <2>1. k - 1 \in 0..-off /\ r - (k - 1) = r - k + 1 /\ r - (k - 1) # 0
    BY <1>1
  <2>2. PICK e : e = At(k - 1)
    OBVIOUS
  <2>3. e \in Edges(pInput, d) /\ Rank(pInput, d, e) = r - (k - 1)
    BY <1>3, <2>1, <2>2
  <2>4. PICK c : c = At(k)
    OBVIOUS
  <2>5. c \in Edges(pInput, d) /\ Rank(pInput, d, c) = r - k
    BY <1>3, <2>4
  <2> HIDE DEF At
  <2>6. e # 0
    BY <2>1, <2>3, FirstEdge
  <2>7. e \in 0..Len(pInput)
    BY <2>3, FirstsFinite
  <2>8. e > 0
    BY <2>6, <2>7
  <2>9. PICK f : f = Back(e)
    OBVIOUS
  <2>10. f \in Edges(pInput, d) /\ Rank(pInput, d, e) = Rank(pInput, d, f) + 1
    BY <2>3, <2>8, <2>9, BackStep
  <2>11. Rank(pInput, d, f) = r - k
    <3>1. PICK q : q = Rank(pInput, d, f)
      OBVIOUS
    <3>2. q \in Nat /\ q + 1 = r - k + 1
      BY <2>1, <2>3, <2>10, <3>1, FirstsFinite
    <3>3. r - k \in Nat
      BY <1>1
    <3>4. \A x, y \in Nat : x + 1 = y + 1 => x = y
      OBVIOUS
    <3> QED BY <3>1, <3>2, <3>3, <3>4
  <2>12. f = c
    BY <2>5, <2>10, <2>11, EdgeOfRank
  <2> QED BY <2>2, <2>4, <2>9, <2>12
<1>5. At(0) = b
  <2>1. PICK c : c = At(0)
    OBVIOUS
  <2>2. c \in Edges(pInput, d) /\ Rank(pInput, d, c) = r
    BY <1>1, <1>3, <2>1
  <2> HIDE DEF At
  <2> QED BY <1>2, <2>1, <2>2, EdgeOfRank
<1> HIDE DEF At
<1>6. g = Step(g)
  <2>1. \A k \in 0..-off : k # 0 => k - 1 \in 0..-off
    OBVIOUS
  <2>2. \A k \in 0..-off : g[k] = Step(g)[k]
    BY <1>4, <1>5, <2>1
  <2> QED BY <2>2
<1> HIDE DEF g, Step
<1>7. F = Step(F)
  BY <1>6
<1>8. utf8_hop(b, off) = F[-off]
  BY DEF utf8_hop, Step
<1> HIDE DEF F
<1>9. \A k \in 0..-off : F[k] = IF k = 0 THEN b ELSE Back(F[k - 1])
  BY <1>7 DEF Step
<1>10. \A k \in 0..-off : F[k] = At(k)
  <2> DEFINE S == {k \in 0..-off : F[k] = At(k)}
  <2>1. 0 \in S
    BY <1>5, <1>9
  <2>2. \A k \in 0..-off - 1 : k \in S => k + 1 \in S
    <3> SUFFICES ASSUME NEW k \in 0..-off - 1, F[k] = At(k)
                 PROVE  F[k + 1] = At(k + 1)
      OBVIOUS
    <3>1. k + 1 \in 0..-off /\ k + 1 # 0 /\ k + 1 - 1 = k
      OBVIOUS
    <3>2. F[k + 1] = Back(F[k + 1 - 1]) /\ At(k + 1) = Back(At(k + 1 - 1))
      BY <1>4, <1>9, <3>1
    <3> QED BY <3>1, <3>2
  <2>3. \A k \in 0..-off : k \in S
    <3> HIDE DEF S
    <3>1. PICK m \in Nat : m = -off
      BY <1>1
    <3> QED BY <2>1, <2>2, <3>1, ReachesAll
  <2> QED BY <2>3
<1>11. -off \in 0..-off /\ r - (-off) = r + off
  BY <1>1
<1> QED BY <1>3, <1>8, <1>10, <1>11

(* Either way.                                                             *)
LEMMA Hop ==
  \A s \in Seq(Kinds), d \in BOOLEAN : s = pInput /\ d /\ Valid(s) =>
    \A b \in Edges(s, d), r \in Nat, off \in Int, n \in Nat :
      /\ r <= n /\ 0 <= r + off /\ r + off <= n
      /\ r = Rank(s, d, b) /\ n = Cardinality(Firsts(s, d))
      => /\ utf8_hop(b, off) \in Edges(s, d)
         /\ Rank(s, d, utf8_hop(b, off)) = r + off
<1> TAKE s \in Seq(Kinds), d \in BOOLEAN
<1> HAVE s = pInput /\ d /\ Valid(s)
<1> TAKE b \in Edges(s, d), r \in Nat, off \in Int, n \in Nat
<1> HAVE /\ r <= n /\ 0 <= r + off /\ r + off <= n
         /\ r = Rank(s, d, b) /\ n = Cardinality(Firsts(s, d))
<1>1. off >= 0 \/ off < 0
  OBVIOUS
<1>2. /\ pInput \in Seq(Kinds) /\ Valid(pInput) /\ b \in Edges(pInput, d)
      /\ r = Rank(pInput, d, b) /\ n = Cardinality(Firsts(pInput, d))
  OBVIOUS
<1>3. CASE off >= 0
  <2>1. /\ utf8_hop(b, off) \in Edges(pInput, d)
        /\ Rank(pInput, d, utf8_hop(b, off)) = r + off
    BY <1>2, <1>3, HopForward
  <2> QED BY <2>1
<1>4. CASE off < 0
  <2>1. /\ utf8_hop(b, off) \in Edges(pInput, d)
        /\ Rank(pInput, d, utf8_hop(b, off)) = r + off
    BY <1>2, <1>4, HopBack
  <2> QED BY <2>1
<1> QED BY <1>1, <1>3, <1>4

(* A place is the one FTS3 should get for its number.                      *)
LEMMA ByteOfRank ==
  ASSUME pInput \in Seq(Kinds), NEW d, d = tcursor.decoded, NEW e \in Edges(pInput, d)
  PROVE  ByteOf(Rank(pInput, d, e)) = e
<1>1. Starts = Firsts(pInput, d)
  BY DEF Starts, Firsts, Byte, ByteIn
<1>2. \A b : {s \in Starts : s < b} = Upto(pInput, d, b)
  BY <1>1 DEF Upto
<1>3. PICK k : k = Rank(pInput, d, e)
  OBVIOUS
<1>4. Length = Rank(pInput, d, Len(pInput))
  BY <1>1, RankOfEnd DEF Length
<1>5. CASE k = Length
  <2>1. Len(pInput) \in Edges(pInput, d)
    BY DEF Edges
  <2>2. e = Len(pInput)
    BY <1>3, <1>4, <1>5, <2>1, EdgeOfRank
  <2> QED BY <1>3, <1>5, <2>2 DEF ByteOf
<1>6. CASE k # Length
  <2>1. e \in Starts
    BY <1>1, <1>3, <1>4, <1>6 DEF Edges
  <2>2. \A b : Cardinality({s \in Starts : s < b}) = Rank(pInput, d, b)
    BY <1>2 DEF Rank
  <2>3. PICK c : c = CHOOSE b \in Starts : Cardinality({s \in Starts : s < b}) = k
    OBVIOUS
  <2>4. c \in Starts /\ Rank(pInput, d, c) = k
    BY <1>3, <2>1, <2>2, <2>3
  <2>5. c \in Edges(pInput, d)
    BY <1>1, <2>4 DEF Edges
  <2>6. c = e
    BY <1>3, <2>4, <2>5, EdgeOfRank
  <2> QED BY <1>3, <1>6, <2>3, <2>6 DEF ByteOf
<1> QED BY <1>5, <1>6

(* The last token is at the places of the characters Perl gave.            *)
Placed(s, d, byte, char) == byte \in Edges(s, d) /\ Rank(s, d, byte) = char
TokenPlaced ==
  /\ pInput \in Seq(Kinds)
  /\ tokens > 0 => /\ Placed(pInput, tcursor.decoded, token.startByte, token.start)
                   /\ Placed(pInput, tcursor.decoded, token.endByte, token.end)

(* Those are the offsets it should have.                                   *)
LEMMA PlacedOffsets == TokenPlaced => OffsetsInBytes
BY ByteOfRank DEF TokenPlaced, Placed, OffsetsInBytes

(* What Perl decodes is valid; the cursor counts characters when Perl sees *)
(* characters, and is at a place whose number it knows.                    *)
CursorIInv ==
  /\ TokenPlaced
  /\ Valid(pInput) \/ mode # "FALLBACK"
  /\ tokens \in Nat
  /\ tokens > 0 => state = "open"
  /\ state = "open" =>
       /\ tcursor.utf8 = tcursor.decoded
       /\ tcursor.decoded => Valid(pInput)
       /\ tcursor.decoded \in BOOLEAN
       /\ tcursor.utf8 => Placed(pInput, tcursor.decoded, tcursor.currentByte, tcursor.currentChar)
       /\ tcursor = [utf8 |-> tcursor.utf8, decoded |-> tcursor.decoded,
                     currentByte |-> tcursor.currentByte, currentChar |-> tcursor.currentChar]

(* The invariant holds at first and is kept by each operation.             *)
LEMMA CursorInit == TokenizerInit(BoundedSeq(Kinds, MaxBytes), StringModes)
                      /\ (Valid(pInput) \/ mode # "FALLBACK") => CursorIInv
<1> SUFFICES ASSUME TokenizerInit(BoundedSeq(Kinds, MaxBytes), StringModes),
                    Valid(pInput) \/ mode # "FALLBACK"
             PROVE  CursorIInv
  OBVIOUS
<1>1. pInput \in Seq(Kinds)
  <2>1. PICK m \in 0..MaxBytes : pInput \in [1..m -> Kinds]
    BY DEF TokenizerInit, BoundedSeq, SeqOf
  <2>2. m \in Nat
    BY <2>1, TokenizerAssumption
  <2> QED BY <2>1, <2>2
<1> QED BY <1>1 DEF CursorIInv, TokenPlaced, TokenizerInit

(* A string that is decoded is valid, unless under FALLBACK.               *)
LEMMA CursorOpens == CursorIInv /\ TokenizerOpen => CursorIInv'
<1> SUFFICES ASSUME CursorIInv, TokenizerOpen
             PROVE  CursorIInv'
  OBVIOUS
<1>1. /\ pInput' = pInput /\ mode' = mode /\ token' = token /\ tokens' = tokens
      /\ state = "new" /\ tokens = 0 /\ pInput \in Seq(Kinds)
  BY DEF CursorIInv, TokenPlaced, TokenizerOpen
<1>2. TokenPlaced'
  BY <1>1 DEF TokenPlaced
<1>3. CASE state' = "died"
  BY <1>1, <1>2, <1>3 DEF CursorIInv
<1>4. CASE state' # "died"
  <2>1. PICK u \in BOOLEAN : u <=> Unicode(mode) /\ Valid(pInput)
    OBVIOUS
  <2>2. Unicode(mode) => Valid(pInput)
    BY <1>4 DEF TokenizerOpen, CursorIInv, Unicode
  <2>3. tcursor' = [utf8 |-> u, decoded |-> u, currentByte |-> 0, currentChar |-> 0]
    <3>1. tcursor' = [utf8 |-> Unicode(mode), decoded |-> Unicode(mode) /\ Valid(pInput),
                      currentByte |-> 0, currentChar |-> 0]
      BY <1>4 DEF TokenizerOpen
    <3>2. Unicode(mode) = u /\ (Unicode(mode) /\ Valid(pInput)) = u
      BY <2>1, <2>2 DEF Unicode
    <3> QED BY <3>1, <3>2
  <2>4. u => Placed(pInput, u, 0, 0)
    BY <1>1, <2>1, FirstEdge DEF Placed
  <2>5. tokens' \in Nat /\ ~(tokens' > 0) /\ (Valid(pInput') \/ mode' # "FALLBACK")
    BY <1>1 DEF CursorIInv
  <2> QED BY <1>1, <1>2, <2>1, <2>3, <2>4, <2>5 DEF CursorIInv
<1> QED BY <1>3, <1>4

(* Two hops: from the end of the token before to the start of this one, and*)
(* from there to its end.                                                  *)
LEMMA CursorNext ==
  ASSUME NEW start \in 0..MaxBytes, NEW end \in 0..MaxBytes
  PROVE  CursorIInv /\ TokenizerNext(start, end) => CursorIInv'
<1> SUFFICES ASSUME CursorIInv, TokenizerNext(start, end)
             PROVE  CursorIInv'
  OBVIOUS
<1>1. start \in Nat /\ end \in Nat /\ start \in Int /\ end \in Int
  BY TokenizerAssumption
<1>2. PICK s \in Seq(Kinds) : s = pInput
  BY DEF CursorIInv, TokenPlaced
<1>3. PICK d : d = tcursor.decoded /\ d \in BOOLEAN
  BY DEF CursorIInv, TokenizerNext
<1>4. PICK n \in Nat : n = Cardinality(Firsts(s, d))
  BY <1>2, FirstsFinite
<1>5. start <= end /\ end <= n
  <2>1. Starts = Firsts(s, d)
    BY <1>2, <1>3 DEF Starts, Firsts, Byte, ByteIn
  <2> QED BY <1>4, <2>1 DEF TokenizerNext, Length
<1>6. /\ s = pInput' /\ mode' = mode /\ state' = "open" /\ tokens' = tokens + 1
      /\ tokens' \in Nat /\ (Valid(pInput') \/ mode' # "FALLBACK")
  BY <1>2 DEF TokenizerNext, CursorIInv
<1>7. CASE d
  <2>1. tcursor.utf8 /\ Valid(s)
    BY <1>2, <1>3, <1>7 DEF CursorIInv, TokenizerNext
  <2>2. PICK c \in Edges(s, d) : c = tcursor.currentByte
    BY <1>2, <1>3, <2>1 DEF CursorIInv, TokenizerNext, Placed
  <2>3. PICK r \in Nat : r = Rank(s, d, c)
    BY FirstsFinite
  <2>4. r = tcursor.currentChar
    BY <1>2, <1>3, <2>1, <2>2, <2>3 DEF CursorIInv, TokenizerNext, Placed
  <2>5. r <= n
    <3>1. PICK l : l = Rank(s, d, c)
      OBVIOUS
    <3>2. l <= n
      BY <1>4, <3>1, RankOfEnd, FirstsFinite DEF Edges
    <3> QED BY <2>3, <3>1, <3>2
  <2>6. \A b \in Edges(s, d), q \in Nat, off \in Int, m \in Nat :
          /\ q <= m /\ 0 <= q + off /\ q + off <= m
          /\ q = Rank(s, d, b) /\ m = Cardinality(Firsts(s, d))
          => /\ utf8_hop(b, off) \in Edges(s, d)
             /\ Rank(s, d, utf8_hop(b, off)) = q + off
    BY <1>2, <1>3, <1>7, <2>1, Hop, Zenon
  <2>7. PICK first : first = utf8_hop(c, start - r)
    OBVIOUS
  <2>8. first \in Edges(s, d) /\ Rank(s, d, first) = start
    <3>1. PICK off \in Int : off = start - r
      BY <1>1
    <3>2. 0 <= r + off /\ r + off <= n /\ r + off = start
      BY <1>1, <1>5, <3>1
    <3>3. /\ utf8_hop(c, off) \in Edges(s, d)
          /\ Rank(s, d, utf8_hop(c, off)) = r + off
      BY <1>4, <2>3, <2>5, <2>6, <3>1, <3>2
    <3> QED BY <2>7, <3>1, <3>2, <3>3
  <2>9. PICK behind : behind = utf8_hop(first, end - start)
    OBVIOUS
  <2>10. behind \in Edges(s, d) /\ Rank(s, d, behind) = end
    <3>1. PICK off \in Int : off = end - start
      BY <1>1
    <3>2. 0 <= start + off /\ start + off <= n /\ start + off = end /\ start <= n
      BY <1>1, <1>5, <3>1
    <3>3. /\ utf8_hop(first, off) \in Edges(s, d)
          /\ Rank(s, d, utf8_hop(first, off)) = start + off
      BY <1>1, <1>4, <2>6, <2>8, <3>1, <3>2
    <3> QED BY <2>9, <3>1, <3>2, <3>3
  <2>11. token' = [start |-> start, end |-> end, startByte |-> first, endByte |-> behind]
    BY <2>1, <2>2, <2>4, <2>7, <2>9 DEF TokenizerNext, TokenFrom
  <2>12. tcursor' = [tcursor EXCEPT !.currentByte = behind, !.currentChar = end]
    BY <2>1, <2>11 DEF TokenizerNext
  <2>13. tcursor = [utf8 |-> d, decoded |-> d, currentByte |-> c, currentChar |-> r]
    BY <1>3, <2>2, <2>4 DEF CursorIInv, TokenizerNext
  <2>14. tcursor' = [utf8 |-> d, decoded |-> d, currentByte |-> behind, currentChar |-> end]
    BY <2>12, <2>13
  <2>15. TokenPlaced'
    BY <1>6, <2>8, <2>10, <2>11, <2>14 DEF TokenPlaced, Placed
  <2> QED BY <1>3, <1>6, <2>1, <2>10, <2>14, <2>15 DEF CursorIInv, Placed
<1>8. CASE ~d
  <2>1. ~tcursor.utf8
    BY <1>3, <1>8 DEF CursorIInv, TokenizerNext
  <2>2. /\ token' = [start |-> start, end |-> end, startByte |-> start, endByte |-> end]
        /\ tcursor' = tcursor
    BY <2>1 DEF TokenizerNext
  <2>3. n = Len(s)
    <3>1. 0 \in 0..Len(s)
      OBVIOUS
    <3> QED BY <1>4, <1>8, <3>1, RankOfByte
  <2>4. start \in 0..Len(s) /\ end \in 0..Len(s)
    BY <1>1, <1>5, <2>3
  <2>5. Placed(s, d, start, start) /\ Placed(s, d, end, end)
    BY <1>8, <2>4, RankOfByte DEF Placed
  <2>6. TokenPlaced'
    BY <1>3, <1>6, <2>2, <2>5 DEF TokenPlaced
  <2> QED BY <1>2, <1>6, <2>1, <2>2, <2>6 DEF CursorIInv, TokenizerNext
<1> QED BY <1>7, <1>8

(* So every step keeps it.                                                 *)
LEMMA CursorStep == CursorIInv /\ [Tokenize]_tokenizerVars => CursorIInv'
<1> SUFFICES ASSUME CursorIInv, [Tokenize]_tokenizerVars
             PROVE  CursorIInv'
  OBVIOUS
<1>1. CASE TokenizerOpen
  BY <1>1, CursorOpens
<1>2. CASE \E start, end \in 0..MaxBytes : TokenizerNext(start, end)
  BY <1>2, CursorNext
<1>3. CASE UNCHANGED tokenizerVars
  BY <1>3 DEF tokenizerVars, CursorIInv, TokenPlaced
<1> QED BY <1>1, <1>2, <1>3 DEF Tokenize

(* The offsets perl_tokenizer_Next hands to FTS3 are those of the bytes of *)
(* the characters Perl reported, whatever tokens were taken before, unless *)
(* sqlite_string_mode is FALLBACK and the string is not valid UTF-8.       *)
THEOREM OffsetsCorrect ==
  TokenizerSpec /\ (Valid(pInput) \/ mode # "FALLBACK") => []OffsetsInBytes
<1>1. CursorIInv => OffsetsInBytes
  BY PlacedOffsets DEF CursorIInv
<1> QED BY <1>1, CursorInit, CursorStep, PTL DEF TokenizerSpec

-----------------------------------------------------------------------------
(* The numbers digits spell.                                               *)

(* The next digit keeps the order of two numbers.                          *)
LEMMA DigitStep ==
  ASSUME NEW x \in Nat, NEW y \in Nat, NEW u \in 0..9, NEW v \in 0..9
  PROVE  /\ x * 10 + u \in Nat
         /\ x < y => x * 10 + u < y * 10 + v
         /\ x = y /\ u < v => x * 10 + u < y * 10 + v
         /\ x < y => x < y * 10 + v
OBVIOUS

(* The number of the first k digits.                                       *)
Rest(d, f) == [k \in 0..Len(d) |-> IF k = 0 THEN 0 ELSE f[k - 1] * 10 + d[k]]
First(d) == CHOOSE f : f = Rest(d, f)

(* The recursion over digits has a solution: one for k digits is one for   *)
(* k + 1 with another value added.                                         *)
LEMMA FirstExists ==
  ASSUME NEW d \in Seq(0..9)
  PROVE  \E f : f = Rest(d, f)
<1>1. PICK n \in Nat : n = Len(d)
  OBVIOUS
<1> DEFINE Part(f, m) == f = [k \in 0..m |-> IF k = 0 THEN 0 ELSE f[k - 1] * 10 + d[k]]
           Has(m) == \E f : Part(f, m)
           S == {m \in 0..n : Has(m)}
<1>2. Has(0)
  <2>1. Part([k \in 0..0 |-> 0], 0)
    OBVIOUS
  <2> QED BY <2>1
<1>3. \A m \in 0..n - 1 : Has(m) => Has(m + 1)
  <2> SUFFICES ASSUME NEW m \in 0..n - 1, NEW f, Part(f, m)
               PROVE  \E g : Part(g, m + 1)
    OBVIOUS
  <2> DEFINE g == [k \in 0..m + 1 |-> IF k = m + 1 THEN f[m] * 10 + d[m + 1] ELSE f[k]]
  <2>1. \A k \in 0..m : f[k] = IF k = 0 THEN 0 ELSE f[k - 1] * 10 + d[k]
    OBVIOUS
  <2>2. \A k \in 0..m + 1 : g[k] = IF k = 0 THEN 0 ELSE g[k - 1] * 10 + d[k]
    <3> SUFFICES ASSUME NEW k \in 0..m + 1
                 PROVE  g[k] = IF k = 0 THEN 0 ELSE g[k - 1] * 10 + d[k]
      OBVIOUS
    <3>1. CASE k = m + 1
      <4>1. k # 0 /\ k - 1 = m /\ m \in 0..m + 1 /\ m # m + 1
        BY <3>1
      <4>2. g[k] = f[m] * 10 + d[m + 1] /\ g[m] = f[m]
        BY <3>1, <4>1
      <4> QED BY <3>1, <4>1, <4>2
    <3>2. CASE k \in 0..m
      <4>1. g[k] = f[k]
        BY <3>2
      <4>2. k # 0 => k - 1 \in 0..m + 1 /\ k - 1 # m + 1
        BY <3>2
      <4>3. k # 0 => g[k - 1] = f[k - 1]
        BY <4>2
      <4> QED BY <2>1, <3>2, <4>1, <4>3
    <3> QED BY <3>1, <3>2
  <2>3. Part(g, m + 1)
    BY <2>2
  <2> QED BY <2>3
<1>4. Has(n)
  <2> HIDE DEF Has
  <2>1. 0 \in S /\ \A m \in 0..n - 1 : m \in S => m + 1 \in S
    BY <1>2, <1>3
  <2>2. \A m \in 0..n : m \in S
    <3> HIDE DEF S
    <3> QED BY <2>1, ReachesAll
  <2> QED BY <2>2
<1> QED BY <1>1, <1>4 DEF Rest

(* The number of the first digits grows digit by digit to that of all.     *)
LEMMA FirstIs ==
  ASSUME NEW d \in Seq(0..9)
  PROVE  /\ First(d)[0] = 0
         /\ \A k \in 1..Len(d) : First(d)[k] = First(d)[k - 1] * 10 + d[k] /\ d[k] \in 0..9
         /\ \A k \in 0..Len(d) : First(d)[k] \in Nat
         /\ Number(d) = First(d)[Len(d)]
<1>1. PICK n \in Nat : n = Len(d)
  OBVIOUS
<1>2. PICK f : f = First(d)
  OBVIOUS
<1>3. f = Rest(d, f)
  BY <1>2, FirstExists DEF First
<1>4. \A k \in 0..n : f[k] = IF k = 0 THEN 0 ELSE f[k - 1] * 10 + d[k]
  BY <1>1, <1>3 DEF Rest
<1>5. f[0] = 0 /\ \A k \in 1..n : f[k] = f[k - 1] * 10 + d[k] /\ d[k] \in 0..9
  BY <1>1, <1>4
<1>6. \A k \in 0..n : f[k] \in Nat
  <2> DEFINE S == {k \in 0..n : f[k] \in Nat}
  <2>1. 0 \in S
    BY <1>5
  <2>2. \A k \in 0..n - 1 : k \in S => k + 1 \in S
    <3> SUFFICES ASSUME NEW k \in 0..n - 1, f[k] \in Nat
                 PROVE  f[k + 1] \in Nat
      OBVIOUS
    <3>1. PICK i \in 1..n : i = k + 1
      OBVIOUS
    <3>2. i - 1 = k
      BY <3>1
    <3>3. f[i] = f[i - 1] * 10 + d[i] /\ d[i] \in 0..9
      BY <1>5
    <3>4. PICK x \in Nat : x = f[k]
      OBVIOUS
    <3>5. PICK u \in 0..9 : u = d[i]
      BY <3>3
    <3>6. f[i] = x * 10 + u
      BY <3>2, <3>3, <3>4, <3>5
    <3>7. x * 10 + u \in Nat
      BY DigitStep
    <3> QED BY <3>1, <3>6, <3>7
  <2>3. \A k \in 0..n : k \in S
    <3> HIDE DEF S
    <3> QED BY <2>1, <2>2, ReachesAll
  <2> QED BY <2>3
<1>7. Number(d) = First(d)[Len(d)]
  BY DEF Number, First, Rest
<1> QED BY <1>1, <1>2, <1>5, <1>6, <1>7

(* Induction from a number on.                                             *)
LEMMA ReachesFrom ==
  ASSUME NEW lo \in Nat, NEW hi \in Nat, NEW S, lo \in S,
         \A k \in lo..hi - 1 : k \in S => k + 1 \in S
  PROVE  \A k \in lo..hi : k \in S
<1> SUFFICES ASSUME lo <= hi
             PROVE  \A k \in lo..hi : k \in S
  OBVIOUS
<1> DEFINE T == {j \in 0..hi - lo : lo + j \in S}
<1>1. PICK n \in Nat : n = hi - lo
  OBVIOUS
<1>2. 0 \in T
  OBVIOUS
<1>3. \A j \in 0..n - 1 : j \in T => j + 1 \in T
  <2> SUFFICES ASSUME NEW j \in 0..n - 1, lo + j \in S
               PROVE  j + 1 \in T
    OBVIOUS
  <2>1. PICK k \in lo..hi - 1 : k = lo + j
    BY <1>1
  <2>2. k + 1 = lo + (j + 1) /\ j + 1 \in 0..hi - lo
    BY <1>1, <2>1
  <2>3. k + 1 \in S
    BY <2>1
  <2> QED BY <2>2, <2>3
<1>4. \A j \in 0..n : j \in T
  <2> HIDE DEF T
  <2> QED BY <1>2, <1>3, ReachesAll
<1> SUFFICES ASSUME NEW k \in lo..hi
             PROVE  k \in S
  OBVIOUS
<1>5. PICK j \in 0..n : j = k - lo
  BY <1>1
<1>6. lo + j = k
  BY <1>5
<1> QED BY <1>4, <1>5, <1>6

(* Numbers are compared digit by digit.                                    *)
LEMMA SameFirst ==
  ASSUME NEW a \in Seq(0..9), NEW b \in Seq(0..9), NEW n \in Nat, n <= Len(a), n <= Len(b),
         \A k \in 1..n : a[k] = b[k]
  PROVE  First(a)[n] = First(b)[n]
<1>1. PICK f : f = First(a)
  OBVIOUS
<1>2. PICK g : g = First(b)
  OBVIOUS
<1>3. f[0] = g[0]
  BY <1>1, <1>2, FirstIs
<1>4. \A k \in 1..n : f[k] = f[k - 1] * 10 + a[k] /\ g[k] = g[k - 1] * 10 + a[k]
  <2>1. \A k \in 1..n : k \in 1..Len(a) /\ k \in 1..Len(b)
    OBVIOUS
  <2> QED BY <1>1, <1>2, <2>1, FirstIs
<1> DEFINE S == {k \in 0..n : f[k] = g[k]}
<1>5. 0 \in S
  BY <1>3
<1>6. \A k \in 0..n - 1 : k \in S => k + 1 \in S
  <2> SUFFICES ASSUME NEW k \in 0..n - 1, f[k] = g[k]
               PROVE  k + 1 \in S
    OBVIOUS
  <2>1. k + 1 \in 1..n /\ k + 1 - 1 = k /\ k + 1 \in 0..n
    OBVIOUS
  <2>2. f[k + 1] = f[k] * 10 + a[k + 1] /\ g[k + 1] = g[k] * 10 + a[k + 1]
    BY <1>4, <2>1
  <2> QED BY <2>1, <2>2
<1>7. \A k \in 0..n : k \in S
  <2> HIDE DEF S
  <2> QED BY <1>5, <1>6, ReachesAll
<1>8. n \in S
  BY <1>7
<1> QED BY <1>1, <1>2, <1>8

(* The first digit that differs decides.                                   *)
LEMMA Smaller ==
  ASSUME NEW a \in Seq(0..9), NEW b \in Seq(0..9), NEW n \in Nat, Len(a) = n, Len(b) = n,
         NEW p \in 1..n, \A k \in 1..p - 1 : a[k] = b[k], a[p] < b[p]
  PROVE  Number(a) < Number(b)
<1>1. PICK f : f = First(a)
  OBVIOUS
<1>2. PICK g : g = First(b)
  OBVIOUS
<1>3. /\ \A k \in 1..n : f[k] = f[k - 1] * 10 + a[k] /\ a[k] \in 0..9
      /\ \A k \in 0..n : f[k] \in Nat
      /\ Number(a) = f[n]
  BY <1>1, FirstIs
<1>4. /\ \A k \in 1..n : g[k] = g[k - 1] * 10 + b[k] /\ b[k] \in 0..9
      /\ \A k \in 0..n : g[k] \in Nat
      /\ Number(b) = g[n]
  BY <1>2, FirstIs
<1> DEFINE S == {k \in p..n : f[k] < g[k]}
<1>5. p \in S
  <2>1. PICK q \in Nat : q = p - 1
    OBVIOUS
  <2>2. f[q] = g[q]
    BY <1>1, <1>2, <2>1, SameFirst
  <2>3. q \in 0..n
    BY <2>1
  <2>4. f[p] = f[q] * 10 + a[p] /\ g[p] = g[q] * 10 + b[p] /\ f[q] \in Nat
        /\ a[p] \in 0..9 /\ b[p] \in 0..9
    BY <1>3, <1>4, <2>1, <2>3
  <2>5. PICK x \in Nat : x = f[q]
    BY <2>4
  <2>6. PICK u \in 0..9 : u = a[p]
    BY <2>4
  <2>7. PICK v \in 0..9 : v = b[p]
    BY <2>4
  <2>8. f[p] = x * 10 + u /\ g[p] = x * 10 + v /\ u < v
    BY <2>2, <2>4, <2>5, <2>6, <2>7
  <2>9. x * 10 + u < x * 10 + v
    BY <2>8, DigitStep
  <2>10. f[p] < g[p]
    BY <2>8, <2>9
  <2> QED BY <2>10
<1>6. \A k \in p..n - 1 : k \in S => k + 1 \in S
  <2> SUFFICES ASSUME NEW k \in p..n - 1, f[k] < g[k]
               PROVE  k + 1 \in S
    OBVIOUS
  <2>1. k + 1 \in 1..n /\ k + 1 - 1 = k /\ k + 1 \in p..n /\ k \in 0..n
    OBVIOUS
  <2>2. /\ f[k + 1] = f[k] * 10 + a[k + 1] /\ a[k + 1] \in 0..9 /\ f[k] \in Nat
        /\ g[k + 1] = g[k] * 10 + b[k + 1] /\ b[k + 1] \in 0..9 /\ g[k] \in Nat
    BY <1>3, <1>4, <2>1
  <2>3. f[k + 1] < g[k + 1]
    <3>1. PICK x \in Nat : x = f[k]
      BY <2>2
    <3>2. PICK y \in Nat : y = g[k]
      BY <2>2
    <3>3. PICK u \in 0..9 : u = a[k + 1]
      BY <2>2
    <3>4. PICK v \in 0..9 : v = b[k + 1]
      BY <2>2
    <3>5. f[k + 1] = x * 10 + u /\ g[k + 1] = y * 10 + v /\ x < y
      BY <2>2, <3>1, <3>2, <3>3, <3>4
    <3>6. x * 10 + u < y * 10 + v
      BY <3>5, DigitStep
    <3> QED BY <3>5, <3>6
  <2> QED BY <2>1, <2>3
<1>7. \A k \in p..n : k \in S
  <2>1. p \in Nat
    OBVIOUS
  <2> HIDE DEF S
  <2> QED BY <1>5, <1>6, <2>1, ReachesFrom
<1>8. n \in S
  BY <1>7
<1> QED BY <1>3, <1>4, <1>8

(* A number of fewer digits is smaller.                                    *)
LEMMA Shorter ==
  ASSUME NEW a \in Seq(0..9), NEW b \in Seq(0..9), NEW m \in Nat, NEW n \in Nat,
         Len(a) = m, Len(b) = n, m < n, b[1] # 0
  PROVE  Number(a) < Number(b)
<1>1. PICK f : f = First(a)
  OBVIOUS
<1>2. PICK g : g = First(b)
  OBVIOUS
<1>3. /\ f[0] = 0
      /\ \A k \in 1..m : f[k] = f[k - 1] * 10 + a[k] /\ a[k] \in 0..9
      /\ \A k \in 0..m : f[k] \in Nat
      /\ Number(a) = f[m]
  BY <1>1, FirstIs
<1>4. /\ g[0] = 0
      /\ \A k \in 1..n : g[k] = g[k - 1] * 10 + b[k] /\ b[k] \in 0..9
      /\ \A k \in 0..n : g[k] \in Nat
      /\ Number(b) = g[n]
  BY <1>2, FirstIs
<1> DEFINE S == {k \in 0..m : f[k] < g[k + 1]}
           T == {k \in m + 1..n : f[m] < g[k]}
<1>5. 0 \in S
  <2>1. g[1] = g[0] * 10 + b[1] /\ b[1] \in 0..9
    <3>1. 1 \in 1..n /\ 1 - 1 = 0
      OBVIOUS
    <3> QED BY <1>4, <3>1
  <2>2. 0 < g[1] /\ 0 \in 0..m /\ 0 + 1 = 1
    BY <1>4, <2>1
  <2> QED BY <1>3, <2>2
<1>6. \A k \in 0..m - 1 : k \in S => k + 1 \in S
  <2> SUFFICES ASSUME NEW k \in 0..m - 1, f[k] < g[k + 1]
               PROVE  k + 1 \in S
    OBVIOUS
  <2>1. PICK i \in 1..m : i = k + 1
    OBVIOUS
  <2>2. PICK j \in 1..n : j = i + 1
    BY <2>1
  <2>3. i - 1 = k /\ j - 1 = i /\ i \in 0..n /\ k \in 0..m /\ i \in 0..m
    BY <2>1, <2>2
  <2>4. /\ f[i] = f[k] * 10 + a[i] /\ a[i] \in 0..9 /\ f[k] \in Nat
        /\ g[j] = g[i] * 10 + b[j] /\ b[j] \in 0..9 /\ g[i] \in Nat
    BY <1>3, <1>4, <2>1, <2>2, <2>3
  <2>5. f[i] < g[j]
    <3>1. PICK x \in Nat : x = f[k]
      BY <2>4
    <3>2. PICK y \in Nat : y = g[i]
      BY <2>4
    <3>3. PICK u \in 0..9 : u = a[i]
      BY <2>4
    <3>4. PICK v \in 0..9 : v = b[j]
      BY <2>4
    <3>5. f[k] < g[i]
      BY <2>1
    <3>6. f[i] = x * 10 + u /\ g[j] = y * 10 + v /\ x < y
      BY <2>4, <3>1, <3>2, <3>3, <3>4, <3>5
    <3>7. x * 10 + u < y * 10 + v
      BY <3>6, DigitStep
    <3> QED BY <3>6, <3>7
  <2> QED BY <2>1, <2>2, <2>3, <2>5
<1>7. \A k \in 0..m : k \in S
  <2> HIDE DEF S
  <2> QED BY <1>5, <1>6, ReachesAll
<1>8. m \in S
  BY <1>7
<1>9. m + 1 \in T
  BY <1>8
<1>10. \A k \in m + 1..n - 1 : k \in T => k + 1 \in T
  <2> SUFFICES ASSUME NEW k \in m + 1..n - 1, f[m] < g[k]
               PROVE  k + 1 \in T
    OBVIOUS
  <2>1. PICK i \in 1..n : i = k + 1
    OBVIOUS
  <2>2. i - 1 = k /\ k \in 0..n /\ i \in m + 1..n
    BY <2>1
  <2>3. g[i] = g[k] * 10 + b[i] /\ b[i] \in 0..9 /\ g[k] \in Nat /\ f[m] \in Nat
    BY <1>3, <1>4, <2>1, <2>2
  <2>4. f[m] < g[i]
    <3>1. PICK x \in Nat : x = f[m]
      BY <2>3
    <3>2. PICK y \in Nat : y = g[k]
      BY <2>3
    <3>3. PICK v \in 0..9 : v = b[i]
      BY <2>3
    <3>4. f[m] < g[k]
      OBVIOUS
    <3>5. g[i] = y * 10 + v /\ x < y
      BY <2>3, <3>1, <3>2, <3>3, <3>4
    <3>6. x < y * 10 + v
      BY <3>5, DigitStep
    <3> QED BY <3>1, <3>5, <3>6
  <2> QED BY <2>1, <2>2, <2>4
<1>11. \A k \in m + 1..n : k \in T
  <2>1. m + 1 \in Nat
    OBVIOUS
  <2> HIDE DEF T
  <2> QED BY <1>9, <1>10, <2>1, ReachesFrom
<1>12. n \in T
  BY <1>11
<1> QED BY <1>3, <1>4, <1>12

(* Zeros before a number do not change it.                                 *)
LEMMA LeadingZeros ==
  ASSUME NEW a \in Seq(0..9), NEW b \in Seq(0..9), NEW m \in Nat, NEW n \in Nat,
         Len(a) = m, Len(b) = n, m <= n,
         \A k \in 1..n - m : b[k] = 0, \A k \in 1..m : a[k] = b[n - m + k]
  PROVE  Number(a) = Number(b)
<1>1. PICK f : f = First(a)
  OBVIOUS
<1>2. PICK g : g = First(b)
  OBVIOUS
<1>3. /\ f[0] = 0
      /\ \A k \in 1..m : f[k] = f[k - 1] * 10 + a[k]
      /\ Number(a) = f[m]
  BY <1>1, FirstIs
<1>4. /\ g[0] = 0
      /\ \A k \in 1..n : g[k] = g[k - 1] * 10 + b[k]
      /\ Number(b) = g[n]
  BY <1>2, FirstIs
<1>5. PICK z \in Nat : z = n - m
  OBVIOUS
<1> DEFINE S == {k \in 0..z : g[k] = 0}
           T == {k \in 0..m : f[k] = g[z + k]}
<1>6. \A k \in 0..z - 1 : k \in S => k + 1 \in S
  <2> SUFFICES ASSUME NEW k \in 0..z - 1, g[k] = 0
               PROVE  k + 1 \in S
    OBVIOUS
  <2>1. PICK i \in 1..z : i = k + 1
    OBVIOUS
  <2>2. i - 1 = k /\ i \in 1..n /\ i \in 1..n - m /\ i \in 0..z
    BY <1>5, <2>1
  <2>3. g[i] = g[k] * 10 + b[i] /\ b[i] = 0
    BY <1>4, <2>2
  <2> QED BY <2>1, <2>2, <2>3
<1>7. \A k \in 0..z : k \in S
  <2>1. 0 \in S
    BY <1>4
  <2> HIDE DEF S
  <2> QED BY <1>6, <2>1, ReachesAll
<1>8. 0 \in T
  <2>1. z \in S
    BY <1>7
  <2> QED BY <1>3, <2>1
<1>9. \A k \in 0..m - 1 : k \in T => k + 1 \in T
  <2> SUFFICES ASSUME NEW k \in 0..m - 1, f[k] = g[z + k]
               PROVE  k + 1 \in T
    OBVIOUS
  <2>1. PICK i \in 1..m : i = k + 1
    OBVIOUS
  <2>2. PICK j \in 1..n : j = z + i
    BY <1>5, <2>1
  <2>3. i - 1 = k /\ j - 1 = z + k /\ n - m + i = j /\ i \in 0..m
    BY <1>5, <2>1, <2>2
  <2>4. f[i] = f[k] * 10 + a[i] /\ g[j] = g[z + k] * 10 + b[j] /\ a[i] = b[j]
    BY <1>3, <1>4, <2>1, <2>2, <2>3
  <2> QED BY <2>1, <2>2, <2>3, <2>4
<1>10. \A k \in 0..m : k \in T
  <2> HIDE DEF T
  <2> QED BY <1>8, <1>9, ReachesAll
<1>11. m \in T /\ z + m = n
  BY <1>5, <1>10
<1> QED BY <1>3, <1>4, <1>11

-----------------------------------------------------------------------------
(* Places in a string.                                                     *)

(* The elements of a sequence.                                             *)
LEMMA ElementIn ==
  ASSUME NEW S, NEW z \in Seq(S), NEW j \in 1..Len(z)
  PROVE  z[j] \in S
OBVIOUS

(* Char is the character, or the NUL behind the string.                    *)
LEMMA CharIs ==
  ASSUME NEW z \in Seq(1..127), NEW j \in Nat
  PROVE  /\ Char(z, j) \in 0..127
         /\ j \in 1..Len(z) => Char(z, j) = z[j] /\ Char(z, j) # 0
         /\ j \notin 1..Len(z) => Char(z, j) = 0
<1>1. j \in DOMAIN z <=> j \in 1..Len(z)
  OBVIOUS
<1>2. CASE j \in 1..Len(z)
  <2>1. z[j] \in 1..127
    BY <1>2, ElementIn
  <2>2. Char(z, j) = z[j]
    BY <1>1, <1>2 DEF Char
  <2>3. \A c \in 1..127 : c \in 0..127 /\ c # 0
    OBVIOUS
  <2> QED BY <1>2, <2>1, <2>2, <2>3
<1>3. CASE j \notin 1..Len(z)
  <2>1. Char(z, j) = 0
    BY <1>1, <1>3 DEF Char
  <2> QED BY <1>3, <2>1
<1> QED BY <1>2, <1>3

(* After passes over the characters of the class, and over no other.       *)
LEMMA AfterIs ==
  ASSUME NEW z \in Seq(1..127), NEW i \in 1..Len(z) + 1, NEW class, 0 \notin class
  PROVE  /\ After(z, i, class) \in i..Len(z) + 1
         /\ Char(z, After(z, i, class)) \notin class
         /\ \A j \in i..After(z, i, class) - 1 : Char(z, j) \in class
<1> DEFINE T == {j \in i..Len(z) + 1 : Char(z, j) \notin class}
<1>1. Len(z) \in Nat
  OBVIOUS
<1>2. Len(z) + 1 \in T
  <2>1. Len(z) + 1 \in Nat /\ Len(z) + 1 \notin 1..Len(z)
    BY <1>1
  <2>2. Char(z, Len(z) + 1) = 0
    BY <2>1, CharIs
  <2> QED BY <1>1, <2>2
<1>3. PICK m : m = Min(T)
  OBVIOUS
<1>4. m \in T /\ \A y \in T : m <= y
  <2>1. T \subseteq Nat
    BY <1>1
  <2> HIDE DEF T
  <2> QED BY <1>2, <1>3, <2>1, LeastNatural
<1>5. \A j \in i..m - 1 : Char(z, j) \in class
  <2> SUFFICES ASSUME NEW j \in i..m - 1, Char(z, j) \notin class
               PROVE  FALSE
    OBVIOUS
  <2>1. m \in i..Len(z) + 1
    BY <1>4
  <2>2. j \in i..Len(z) + 1 /\ ~(m <= j)
    BY <1>1, <2>1
  <2> QED BY <1>4, <2>2
<1>6. m = After(z, i, class)
  BY <1>3 DEF After
<1> QED BY <1>4, <1>5, <1>6

(* And it is the only place of which this is true.                         *)
LEMMA AfterUnique ==
  ASSUME NEW z \in Seq(1..127), NEW i \in 1..Len(z) + 1, NEW class, 0 \notin class,
         NEW e \in i..Len(z) + 1, Char(z, e) \notin class,
         \A j \in i..e - 1 : Char(z, j) \in class
  PROVE  After(z, i, class) = e
<1>1. PICK m : m = After(z, i, class)
  OBVIOUS
<1>2. /\ m \in i..Len(z) + 1 /\ Char(z, m) \notin class
      /\ \A j \in i..m - 1 : Char(z, j) \in class
  BY <1>1, AfterIs
<1>3. Len(z) \in Nat
  OBVIOUS
<1>4. ~(m < e)
  <2>1. m < e => m \in i..e - 1
    BY <1>2, <1>3
  <2> QED BY <1>2, <2>1
<1>5. ~(e < m)
  <2>1. e < m => e \in i..m - 1
    BY <1>2, <1>3
  <2> QED BY <1>2, <2>1
<1> QED BY <1>1, <1>2, <1>3, <1>4, <1>5

(* The digits of a string from a place on.                                 *)
Spelled(z, from, n) == [k \in 1..n |-> Char(z, from + k - 1) - 48]

(* Digits spelled are digits.                                              *)
LEMMA SpelledIs ==
  ASSUME NEW z \in Seq(1..127), NEW from \in Nat, NEW n \in Nat,
         \A j \in from..from + n - 1 : Char(z, j) \in Digits
  PROVE  /\ Spelled(z, from, n) \in Seq(0..9)
         /\ Len(Spelled(z, from, n)) = n
         /\ \A k \in 1..n : Spelled(z, from, n)[k] = Char(z, from + k - 1) - 48
<1>1. \A k \in 1..n : Char(z, from + k - 1) - 48 \in 0..9
  <2> SUFFICES ASSUME NEW k \in 1..n
               PROVE  Char(z, from + k - 1) - 48 \in 0..9
    OBVIOUS
  <2>1. PICK j \in from..from + n - 1 : j = from + k - 1
    OBVIOUS
  <2>2. PICK c \in 48..57 : c = Char(z, j)
    BY DEF Digits
  <2>3. c - 48 \in 0..9
    OBVIOUS
  <2> QED BY <2>1, <2>2, <2>3
<1>2. Spelled(z, from, n) \in [1..n -> 0..9]
  BY <1>1 DEF Spelled
<1>3. \A k \in 1..n : Spelled(z, from, n)[k] = Char(z, from + k - 1) - 48
  BY DEF Spelled
<1> QED BY <1>2, <1>3

(* Digits spell a natural number.                                          *)
LEMMA NumberNat ==
  ASSUME NEW d \in Seq(0..9)
  PROVE  Number(d) \in Nat
<1>1. Len(d) \in 0..Len(d)
  OBVIOUS
<1> QED BY <1>1, FirstIs

(* The border of the width is positive, and its first digit is not zero.   *)
LEMMA LimitIs ==
  /\ N \in Nat /\ N > 0 /\ Pow63 \in Seq(0..9) /\ Pow63[1] # 0
  /\ Limit \in Nat /\ Limit > 0
<1>1. N \in Nat /\ N > 0 /\ Pow63 \in Seq(0..9) /\ Pow63[1] # 0
  BY Pow63Assumption DEF N
<1>2. <<>> \in Seq(0..9) /\ Len(<<>>) = 0
  OBVIOUS
<1>3. Number(<<>>) < Limit
  BY <1>1, <1>2, Shorter DEF Limit, N
<1>4. Number(<<>>) \in Nat /\ Limit \in Nat
  BY <1>1, <1>2, NumberNat DEF Limit
<1> QED BY <1>1, <1>3, <1>4

(* Compare tells on which side of the border N digits are, or how far from *)
(* it they are when only the last digit may differ.                        *)
LEMMA CompareIs ==
  ASSUME NEW z \in Seq(1..127), NEW i \in Nat, NEW least \in Int,
         \A j \in i..i + N - 1 : Char(z, j) \in Digits
  PROVE  LET x == Number(Spelled(z, i, N))
             c == Compare(z, i, least)
         IN  /\ c \in Int
             /\ \/ c > 0 /\ x > Limit
                \/ c < 0 /\ x < Limit
                \/ c = x - Limit + Pow63[N] - least
<1>1. PICK n \in Nat \ {0} : n = N
  BY LimitIs
<1>2. PICK s : s = Spelled(z, i, n)
  OBVIOUS
<1>3. PICK w : w = Pow63
  OBVIOUS
<1>4. /\ s \in Seq(0..9) /\ Len(s) = n
      /\ \A k \in 1..n : s[k] = Char(z, i + k - 1) - 48
  BY <1>1, <1>2, SpelledIs
<1>5. w \in Seq(0..9) /\ Len(w) = n
  BY <1>1, <1>3, LimitIs DEF N
<1> DEFINE D == {k \in 1..n - 1 : Char(z, i + k - 1) - 48 # w[k]}
<1>6. /\ D = {} => Compare(z, i, least) = Char(z, i + n - 1) - 48 - least
      /\ D # {} => Compare(z, i, least) = Char(z, i + Min(D) - 1) - 48 - w[Min(D)]
  BY <1>1, <1>3 DEF Compare
<1>7. \A k \in 1..n : s[k] \in 0..9 /\ w[k] \in 0..9
  BY <1>4, <1>5
<1>8. Number(s) \in Nat /\ Number(w) \in Nat /\ Limit = Number(w)
  BY <1>3, <1>4, <1>5, NumberNat DEF Limit
<1>9. CASE D = {}
  <2>1. PICK m \in Nat : m = n - 1
    OBVIOUS
  <2>2. \A k \in 1..m : s[k] = w[k]
    <3> SUFFICES ASSUME NEW k \in 1..m
                 PROVE  s[k] = w[k]
      OBVIOUS
    <3>1. k \in 1..n - 1 /\ k \in 1..n
      BY <2>1
    <3>2. k \notin D
      BY <1>9
    <3> QED BY <1>4, <3>1, <3>2
  <2>3. m <= Len(s) /\ m <= Len(w)
    BY <1>4, <1>5, <2>1
  <2>4. First(s)[m] = First(w)[m]
    BY <1>4, <1>5, <2>2, <2>3, SameFirst
  <2>5. n \in 1..n /\ n - 1 = m /\ m \in 0..n
    BY <2>1
  <2>6. /\ Number(s) = First(s)[m] * 10 + s[n] /\ First(s)[m] \in Nat
        /\ Number(w) = First(w)[m] * 10 + w[n]
    BY <1>4, <1>5, <2>5, FirstIs
  <2>7. PICK x \in Nat : x = First(s)[m]
    BY <2>6
  <2>8. PICK a \in 0..9 : a = s[n]
    BY <1>7, <2>5
  <2>9. PICK b \in 0..9 : b = w[n]
    BY <1>7, <2>5
  <2>10. Number(s) = x * 10 + a /\ Number(w) = x * 10 + b
    BY <2>4, <2>6, <2>7, <2>8, <2>9
  <2>11. Compare(z, i, least) = a - least
    BY <1>4, <1>6, <1>9, <2>5, <2>8
  <2>12. a - least = (x * 10 + a) - (x * 10 + b) + b - least /\ a - least \in Int
    OBVIOUS
  <2>13. Compare(z, i, least) = Number(s) - Limit + Pow63[N] - least
    BY <1>1, <1>3, <1>8, <2>9, <2>10, <2>11, <2>12
  <2> QED BY <1>1, <1>2, <2>11, <2>12, <2>13
<1>10. CASE D # {}
  <2>1. PICK p : p = Min(D)
    OBVIOUS
  <2>2. p \in D /\ \A y \in D : p <= y
    <3>1. D \subseteq Nat
      OBVIOUS
    <3> HIDE DEF D
    <3> QED BY <1>10, <2>1, <3>1, LeastNatural
  <2>3. p \in 1..n - 1 /\ p \in 1..n
    BY <2>2
  <2>4. \A k \in 1..p - 1 : s[k] = w[k]
    <3> SUFFICES ASSUME NEW k \in 1..p - 1
                 PROVE  s[k] = w[k]
      OBVIOUS
    <3>1. k \in 1..n - 1 /\ k \in 1..n /\ ~(p <= k)
      BY <2>3
    <3>2. k \notin D
      BY <2>2, <3>1
    <3> QED BY <1>4, <3>1, <3>2
  <2>5. PICK a \in 0..9 : a = s[p]
    BY <1>7, <2>3
  <2>6. PICK b \in 0..9 : b = w[p]
    BY <1>7, <2>3
  <2>7. Compare(z, i, least) = a - b
    BY <1>4, <1>6, <1>10, <2>1, <2>3, <2>5, <2>6
  <2>8. a # b
    BY <1>4, <2>2, <2>3, <2>5, <2>6
  <2>9. CASE a < b
    <3>1. Number(s) < Number(w)
      BY <1>4, <1>5, <2>3, <2>4, <2>5, <2>6, <2>9, Smaller
    <3>2. a - b < 0 /\ a - b \in Int
      BY <2>9
    <3> QED BY <1>1, <1>2, <1>8, <2>7, <3>1, <3>2
  <2>10. CASE b < a
    <3>1. Number(w) < Number(s)
      BY <1>4, <1>5, <2>3, <2>4, <2>5, <2>6, <2>10, Smaller
    <3>2. a - b > 0 /\ a - b \in Int
      BY <2>10
    <3>3. Number(s) > Limit
      BY <1>8, <3>1
    <3> QED BY <1>1, <1>2, <2>7, <3>2, <3>3
  <2> QED BY <2>8, <2>9, <2>10
<1> QED BY <1>9, <1>10

(* An unsigned number below the modulus does not wrap.                     *)
LEMMA ModSmall ==
  ASSUME NEW a \in Nat, NEW m \in Nat, a < m
  PROVE  a % m = a
OBVIOUS

(* What _sqlite_atoi64 reads below the border, and at it.                  *)
LEMMA Borders ==
  ASSUME NEW x \in Nat, NEW l \in Nat, l > 0, x <= l
  PROVE  /\ x % (2 * l) = x
         /\ x < l => ~(x > l - 1) /\ x \in -l..l - 1 /\ -x \in -l..l - 1
         /\ x = l => x > l - 1 /\ -x \in -l..l - 1
<1>1. x < 2 * l /\ 2 * l \in Nat
  OBVIOUS
<1>2. x % (2 * l) = x
  BY <1>1, ModSmall
<1> QED BY <1>2

-----------------------------------------------------------------------------
(* _sqlite_atoi64.                                                         *)

(* The number written from p to the end of z: its first digit, whether it  *)
(* has digits and nothing else, its value.                                 *)
Signed(z, p) == IF Char(z, p) \in {Plus, Minus} THEN p + 1 ELSE p
Written(z, p) ==
  Signed(z, p) <= Len(z) /\ \A j \in Signed(z, p)..Len(z) : Char(z, j) \in Digits
Meant(z, p) ==
  LET n == Number(Spelled(z, Signed(z, p), Len(z) + 1 - Signed(z, p)))
  IN  IF Char(z, p) = Minus THEN -n ELSE n

(* A sign is a character of the string.                                    *)
LEMMA SignedIs ==
  ASSUME NEW z \in Seq(1..127), NEW p \in 1..Len(z) + 1
  PROVE  Signed(z, p) \in p..Len(z) + 1
<1>1. Len(z) \in Nat
  OBVIOUS
<1>2. Char(z, p) \in {Plus, Minus} => p \in 1..Len(z)
  <2>1. p \notin 1..Len(z) => Char(z, p) = 0
    BY CharIs
  <2> QED BY <2>1 DEF Plus, Minus
<1> QED BY <1>1, <1>2 DEF Signed

(* The digits after the zeros spell the same number.                       *)
LEMMA WithoutZeros ==
  ASSUME NEW z \in Seq(1..127), NEW q \in 1..Len(z), NEW r \in q..Len(z) + 1,
         \A j \in q..r - 1 : Char(z, j) \in {48},
         \A j \in r..Len(z) : Char(z, j) \in Digits
  PROVE  /\ \A j \in q..Len(z) : Char(z, j) \in Digits
         /\ Number(Spelled(z, q, Len(z) + 1 - q)) = Number(Spelled(z, r, Len(z) + 1 - r))
         /\ Number(Spelled(z, q, Len(z) + 1 - q)) \in Nat
<1>1. PICK l \in Nat : l = Len(z)
  OBVIOUS
<1>2. \A j \in q..l : Char(z, j) \in Digits
  <2>1. 48 \in Digits
    BY DEF Digits
  <2>2. \A j \in q..l : j \in q..r - 1 \/ j \in r..l
    BY <1>1
  <2> QED BY <1>1, <2>1, <2>2
<1>3. PICK n \in Nat : n = l + 1 - q
  <2>1. q \in 1..l
    BY <1>1
  <2> QED BY <2>1
<1>4. PICK m \in Nat : m = l + 1 - r
  <2>1. q \in Nat /\ r \in q..l + 1
    BY <1>1
  <2> QED BY <2>1
<1>5. PICK b : b = Spelled(z, q, n)
  OBVIOUS
<1>6. PICK a : a = Spelled(z, r, m)
  OBVIOUS
<1>7. /\ b \in Seq(0..9) /\ Len(b) = n
      /\ \A k \in 1..n : b[k] = Char(z, q + k - 1) - 48
  <2>1. q + n - 1 = l /\ q \in Nat
    BY <1>1, <1>3
  <2>2. \A j \in q..q + n - 1 : Char(z, j) \in Digits
    BY <1>2, <2>1
  <2> QED BY <1>5, <2>1, <2>2, SpelledIs
<1>8. /\ a \in Seq(0..9) /\ Len(a) = m
      /\ \A k \in 1..m : a[k] = Char(z, r + k - 1) - 48
  <2>1. r + m - 1 = l /\ r \in Nat
    BY <1>1, <1>4
  <2>2. \A j \in r..r + m - 1 : Char(z, j) \in Digits
    BY <1>1, <2>1
  <2> QED BY <1>6, <2>1, <2>2, SpelledIs
<1>9. m <= n /\ n - m = r - q
  BY <1>1, <1>3, <1>4
<1>10. \A k \in 1..n - m : b[k] = 0
  <2> SUFFICES ASSUME NEW k \in 1..n - m
               PROVE  b[k] = 0
    OBVIOUS
  <2>1. k \in 1..n
    BY <1>9
  <2>2. PICK j \in q..r - 1 : j = q + k - 1
    BY <1>9
  <2>3. Char(z, j) = 48
    OBVIOUS
  <2> QED BY <1>7, <2>1, <2>2, <2>3
<1>11. \A k \in 1..m : a[k] = b[n - m + k]
  <2> SUFFICES ASSUME NEW k \in 1..m
               PROVE  a[k] = b[n - m + k]
    OBVIOUS
  <2>1. PICK i \in 1..n : i = n - m + k
    BY <1>9
  <2>2. q + i - 1 = r + k - 1
    BY <1>9, <2>1
  <2>3. b[i] = Char(z, q + i - 1) - 48 /\ a[k] = Char(z, r + k - 1) - 48
    BY <1>7, <1>8
  <2> QED BY <2>1, <2>2, <2>3
<1>12. Number(a) = Number(b)
  BY <1>7, <1>8, <1>9, <1>10, <1>11, LeadingZeros
<1>13. Number(b) \in Nat
  BY <1>7, NumberNat
<1> QED BY <1>1, <1>2, <1>3, <1>4, <1>5, <1>6, <1>12, <1>13

(* An integer comes out with its value, and only when it fits; an integer  *)
(* that fits and has at most N digits comes out.                           *)
LEMMA AtoiIsExact ==
  ASSUME NEW z \in Seq(1..127), NEW p, p = After(z, 1, Spaces)
  PROVE  /\ Atoi64(z).rc = 0
              => Written(z, p) /\ Atoi64(z).num = Meant(z, p) /\ Fits(Meant(z, p))
         /\ Written(z, p) /\ Fits(Meant(z, p)) /\ Len(z) + 1 - Signed(z, p) <= N
              => Atoi64(z).rc = 0
<1>1. PICK l \in Nat : l = Len(z)
  OBVIOUS
<1>2. p \in 1..l + 1
  <2>1. 0 \notin Spaces /\ 1 \in 1..Len(z) + 1
    BY <1>1 DEF Spaces, Space
  <2> QED BY <1>1, <2>1, AfterIs
<1>3. PICK q \in p..l + 1 : q = Signed(z, p)
  BY <1>1, <1>2, SignedIs
<1>4. PICK r \in q..l + 1 :
        /\ r = After(z, q, {48}) /\ Char(z, r) \notin {48}
        /\ \A j \in q..r - 1 : Char(z, j) \in {48}
  <2>1. 0 \notin {48} /\ q \in 1..l + 1
    BY <1>1, <1>2
  <2> QED BY <1>1, <2>1, AfterIs
<1>5. PICK e \in r..l + 1 :
        /\ e = After(z, r, Digits) /\ Char(z, e) \notin Digits
        /\ \A j \in r..e - 1 : Char(z, j) \in Digits
  <2>1. 0 \notin Digits /\ r \in 1..l + 1
    BY <1>1, <1>2 DEF Digits
  <2> QED BY <1>1, <2>1, AfterIs
<1>6. PICK i \in Nat : i = e - r
  BY <1>2
<1>8. PICK x : x = Number(Spelled(z, r, i))
  OBVIOUS
<1>9. PICK u : u = x % (2 * Limit)
  OBVIOUS
<1>10. PICK c : c = Compare(z, r, Pow63[N])
  OBVIOUS
<1>11. /\ Atoi64(z).num = IF u > Limit - 1 THEN (IF Char(z, p) = Minus THEN -Limit ELSE Limit - 1)
                          ELSE IF Char(z, p) = Minus THEN -u ELSE u
       /\ Atoi64(z).rc = IF e <= l \/ (i = 0 /\ q = r) \/ i > N THEN 1
                         ELSE IF i < N \/ c < 0 THEN 0
                         ELSE IF c > 0 THEN 1
                         ELSE IF Char(z, p) = Minus THEN 0 ELSE 2
  BY <1>1, <1>3, <1>4, <1>5, <1>6, <1>8, <1>9, <1>10 DEF Atoi64, Spelled, Signed
<1>12. N \in Nat /\ N > 0 /\ Pow63 \in Seq(0..9) /\ Len(Pow63) = N /\ Pow63[1] # 0
       /\ Limit \in Nat /\ Limit > 0
  BY LimitIs DEF N
(* The number and the border.                                              *)
<1>13. ASSUME \A j \in r..l : Char(z, j) \in Digits, e = l + 1, i <= N
       PROVE  /\ x \in Nat
              /\ i < N => x < Limit
              /\ i = N => /\ c \in Int
                          /\ c < 0 => x < Limit
                          /\ c > 0 => x > Limit
                          /\ c = 0 => x = Limit
  <2>1. r + i - 1 = l /\ r \in Nat
    BY <1>1, <1>2, <1>6, <1>13
  <2>2. Spelled(z, r, i) \in Seq(0..9) /\ Len(Spelled(z, r, i)) = i
    BY <1>13, <2>1, SpelledIs
  <2>3. x \in Nat
    BY <1>8, <2>2, NumberNat
  <2>4. i < N => x < Limit
    BY <1>8, <1>12, <2>2, Shorter DEF Limit
  <2>5. ASSUME i = N
        PROVE  /\ c \in Int
               /\ c < 0 => x < Limit
               /\ c > 0 => x > Limit
               /\ c = 0 => x = Limit
    <3>1. Pow63[N] \in Int
      <4>1. N \in 1..Len(Pow63)
        BY <1>12
      <4>2. Pow63[N] \in 0..9
        BY <1>12, <4>1, ElementIn
      <4> QED BY <4>2
    <3>2. \A j \in r..r + N - 1 : Char(z, j) \in Digits
      BY <1>13, <2>1, <2>5
    <3>3. /\ c \in Int
          /\ \/ c > 0 /\ x > Limit
             \/ c < 0 /\ x < Limit
             \/ c = x - Limit + Pow63[N] - Pow63[N]
      BY <1>8, <1>10, <2>1, <2>5, <3>1, <3>2, CompareIs
    <3>4. PICK w \in Int : w = Pow63[N]
      BY <3>1
    <3>5. PICK m \in Nat : m = Limit
      BY <1>12
    <3> QED BY <2>3, <3>3, <3>4, <3>5
  <2> QED BY <2>3, <2>4, <2>5
<1>14. ASSUME Atoi64(z).rc = 0
       PROVE  Written(z, p) /\ Atoi64(z).num = Meant(z, p) /\ Fits(Meant(z, p))
  <2>1. e = l + 1 /\ ~(i = 0 /\ q = r) /\ i <= N
    <3>1. ~(e <= l) /\ ~(i = 0 /\ q = r) /\ ~(i > N)
      BY <1>11, <1>14
    <3>2. e \in 1..l + 1 /\ i \in Nat /\ N \in Nat
      BY <1>2, <1>6, <1>12
    <3> QED BY <3>1, <3>2
  <2>2. i = N => c < 0 \/ (~(c > 0) /\ Char(z, p) = Minus)
    BY <1>11, <1>12, <1>14, <2>1
  <2>3. \A j \in r..l : Char(z, j) \in Digits
    BY <1>1, <1>5, <2>1
  <2>4. q \in 1..l
    BY <1>1, <1>2, <1>6, <2>1
  <2>5. i = l + 1 - r
    BY <1>6, <2>1
  <2>6. /\ \A j \in q..l : Char(z, j) \in Digits
        /\ Number(Spelled(z, q, l + 1 - q)) = x
    <3>1. /\ q \in 1..Len(z) /\ r \in q..Len(z) + 1
          /\ \A j \in q..r - 1 : Char(z, j) \in {48}
          /\ \A j \in r..Len(z) : Char(z, j) \in Digits
      BY <1>1, <1>4, <2>3, <2>4
    <3>2. /\ \A j \in q..Len(z) : Char(z, j) \in Digits
          /\ Number(Spelled(z, q, Len(z) + 1 - q)) = Number(Spelled(z, r, Len(z) + 1 - r))
      BY <3>1, WithoutZeros
    <3> QED BY <1>1, <1>8, <2>5, <3>2
  <2>7. Written(z, p)
    BY <1>1, <1>3, <2>4, <2>6 DEF Written
  <2>8. Meant(z, p) = IF Char(z, p) = Minus THEN -x ELSE x
    BY <1>1, <1>3, <2>6 DEF Meant
  <2>9. x \in Nat /\ x <= Limit /\ (x < Limit \/ Char(z, p) = Minus)
    BY <1>12, <1>13, <2>1, <2>2, <2>3
  <2>10. /\ x < Limit => u = x /\ ~(u > Limit - 1) /\ x \in -Limit..Limit - 1
                         /\ -x \in -Limit..Limit - 1
         /\ x = Limit => u > Limit - 1 /\ -x \in -Limit..Limit - 1
    <3>1. PICK m \in Nat : m = Limit
      BY <1>12
    <3>2. m > 0 /\ x \in Nat /\ x <= m
      BY <1>12, <2>9, <3>1
    <3>3. /\ x % (2 * m) = x
          /\ x < m => ~(x > m - 1) /\ x \in -m..m - 1 /\ -x \in -m..m - 1
          /\ x = m => x > m - 1 /\ -x \in -m..m - 1
      BY <3>2, Borders
    <3>4. u = x % (2 * m)
      BY <1>9, <3>1
    <3>5. u = x
      BY <3>3, <3>4
    <3> QED BY <3>1, <3>3, <3>5
  <2>11. /\ Atoi64(z).num = IF Char(z, p) = Minus THEN -x ELSE x
         /\ Atoi64(z).num \in -Limit..Limit - 1
    <3>1. CASE x < Limit
      BY <1>11, <2>10, <3>1
    <3>2. CASE x = Limit
      BY <1>11, <2>9, <2>10, <3>2
    <3>3. x < Limit \/ x = Limit
      BY <1>12, <2>9
    <3> QED BY <3>1, <3>2, <3>3
  <2> QED BY <2>7, <2>8, <2>11 DEF Fits
<1>15. ASSUME Written(z, p), Fits(Meant(z, p)), l + 1 - q <= N
       PROVE  Atoi64(z).rc = 0
  <2>1. q <= l /\ \A j \in q..l : Char(z, j) \in Digits
    BY <1>1, <1>3, <1>15 DEF Written
  <2>2. e = l + 1
    <3>1. ~(e <= l)
      <4>1. e <= l => e \in q..l
        BY <1>1, <1>2
      <4> QED BY <1>5, <2>1, <4>1
    <3> QED BY <1>1, <1>2, <3>1
  <2>3. i = l + 1 - r /\ i <= N
    BY <1>1, <1>2, <1>6, <1>12, <1>15, <2>2
  <2>4. ~(i = 0 /\ q = r)
    BY <1>1, <1>2, <2>1, <2>3
  <2>5. \A j \in r..l : Char(z, j) \in Digits
    BY <1>1, <1>2, <2>1
  <2>6. q \in 1..l
    BY <1>1, <1>2, <2>1
  <2>7. Number(Spelled(z, q, l + 1 - q)) = x
    <3>1. /\ q \in 1..Len(z) /\ r \in q..Len(z) + 1
          /\ \A j \in q..r - 1 : Char(z, j) \in {48}
          /\ \A j \in r..Len(z) : Char(z, j) \in Digits
      BY <1>1, <1>4, <2>5, <2>6
    <3>2. Number(Spelled(z, q, Len(z) + 1 - q)) = Number(Spelled(z, r, Len(z) + 1 - r))
      BY <3>1, WithoutZeros
    <3> QED BY <1>1, <1>8, <2>3, <3>2
  <2>8. Meant(z, p) = IF Char(z, p) = Minus THEN -x ELSE x
    BY <1>1, <1>3, <2>7 DEF Meant
  <2>9. x \in Nat
    BY <1>13, <2>2, <2>3, <2>5
  <2>10. x < Limit \/ (Char(z, p) = Minus /\ x = Limit)
    BY <1>12, <1>15, <2>8, <2>9 DEF Fits
  <2>11. i = N => c \in Int /\ ~(c > 0) /\ (c = 0 => Char(z, p) = Minus)
    BY <1>12, <1>13, <2>2, <2>3, <2>5, <2>9, <2>10
  <2>12. i = N => c < 0 \/ (~(c > 0) /\ Char(z, p) = Minus)
    BY <2>11
  <2>13. ~(e <= l)
    BY <1>1, <2>2
  <2> QED BY <1>11, <1>12, <2>3, <2>4, <2>12, <2>13
<1> QED BY <1>1, <1>3, <1>14, <1>15

-----------------------------------------------------------------------------
(* The string from p on, as the reference reads it.                        *)

(* A function on 1..n is a sequence of this length.                        *)
LEMMA FunctionIsSeq ==
  ASSUME NEW S, NEW n \in Nat, NEW s \in [1..n -> S]
  PROVE  s \in Seq(S) /\ Len(s) = n
OBVIOUS

(* The tail of a sequence.                                                 *)
LEMMA TailIs ==
  ASSUME NEW S, NEW s \in Seq(S), NEW n \in Nat, Len(s) = n + 1
  PROVE  /\ Tail(s) \in Seq(S) /\ Len(Tail(s)) = n
         /\ \A k \in 1..n : Tail(s)[k] = s[k + 1]
<1>1. s # <<>>
  OBVIOUS
<1>2. Tail(s) \in Seq(S) /\ Len(Tail(s)) = n
  BY <1>1
<1> QED BY <1>1, <1>2

(* The string from p on.                                                  *)
From(z, p) == SubSeq(z, p, Len(z))

(* The characters from p on.                                               *)
LEMMA RestOfString ==
  ASSUME NEW z \in Seq(1..127), NEW p \in 1..Len(z) + 1
  PROVE  /\ From(z, p) \in Seq(1..127)
         /\ Len(From(z, p)) = Len(z) + 1 - p
         /\ \A k \in 1..Len(From(z, p)) : From(z, p)[k] = z[p + k - 1]
         /\ \A k \in Nat \ {0} : Char(From(z, p), k) = Char(z, p + k - 1)
<1>0. PICK s : s = From(z, p)
  OBVIOUS
<1>1. PICK l \in Nat : l = Len(z)
  OBVIOUS
<1>2. PICK n \in Nat : n = l + 1 - p
  <2>1. p \in 1..l + 1
    BY <1>1
  <2> QED BY <2>1
<1>3. s = [k \in 1..n |-> z[p + k - 1]]
  <2>1. n = 1 + l - p
    BY <1>1, <1>2
  <2>2. SubSeq(z, p, l) = [k \in 1..1 + l - p |-> z[k + p - 1]]
    BY <1>1
  <2>3. \A k \in 1..n : k + p - 1 = p + k - 1
    OBVIOUS
  <2> QED BY <1>0, <1>1, <2>1, <2>2, <2>3 DEF From
<1>4. \A k \in 1..n : z[p + k - 1] \in 1..127
  <2> SUFFICES ASSUME NEW k \in 1..n
               PROVE  z[p + k - 1] \in 1..127
    OBVIOUS
  <2>1. PICK j \in 1..l : j = p + k - 1
    BY <1>1, <1>2
  <2> QED BY <1>1, <2>1, ElementIn
<1>5. s \in [1..n -> 1..127]
  BY <1>3, <1>4
<1>6. s \in Seq(1..127) /\ Len(s) = n
  BY <1>5, FunctionIsSeq
<1>7. \A k \in 1..n : s[k] = z[p + k - 1]
  BY <1>3
<1>8. \A k \in Nat \ {0} : Char(s, k) = Char(z, p + k - 1)
  <2> SUFFICES ASSUME NEW k \in Nat \ {0}
               PROVE  Char(s, k) = Char(z, p + k - 1)
    OBVIOUS
  <2>1. PICK j \in Nat : j = p + k - 1
    BY <1>1
  <2>2. CASE k \in 1..n
    <3>1. j \in 1..Len(z) /\ k \in 1..Len(s)
      BY <1>1, <1>2, <1>6, <2>1, <2>2
    <3>2. Char(s, k) = s[k] /\ Char(z, j) = z[j]
      BY <1>6, <3>1, CharIs
    <3> QED BY <1>7, <2>1, <2>2, <3>2
  <2>3. CASE k \notin 1..n
    <3>1. j \notin 1..Len(z) /\ k \notin 1..Len(s)
      BY <1>1, <1>2, <1>6, <2>1, <2>3
    <3>2. Char(s, k) = 0 /\ Char(z, j) = 0
      BY <1>6, <3>1, CharIs
    <3> QED BY <2>1, <3>2
  <2> QED BY <2>2, <2>3
<1> QED BY <1>0, <1>1, <1>2, <1>6, <1>7, <1>8

(* IsInteger and Value of this rest, in the places of the whole string.    *)
LEMMA FormOfInteger ==
  ASSUME NEW z \in Seq(1..127), NEW p \in 1..Len(z) + 1, NEW s, s = From(z, p)
  PROVE  /\ IsInteger(s) <=> Written(z, p)
         /\ Value(s) = Meant(z, p)
         /\ Len(Unsigned(s)) = Len(z) + 1 - Signed(z, p)
<1>1. PICK l \in Nat : l = Len(z)
  OBVIOUS
<1>2. /\ s \in Seq(1..127) /\ Len(s) = l + 1 - p
      /\ \A k \in 1..Len(s) : s[k] = z[p + k - 1]
      /\ Char(s, 1) = Char(z, p)
  <2>1. 1 \in Nat \ {0} /\ p + 1 - 1 = p
    BY <1>1
  <2>2. /\ s \in Seq(1..127) /\ Len(s) = Len(z) + 1 - p
        /\ \A k \in 1..Len(s) : s[k] = z[p + k - 1]
        /\ \A k \in Nat \ {0} : Char(s, k) = Char(z, p + k - 1)
    BY RestOfString
  <2>3. Char(s, 1) = Char(z, p + 1 - 1)
    BY <2>1, <2>2
  <2> QED BY <1>1, <2>1, <2>2, <2>3
<1>3. PICK q \in p..l + 1 : q = Signed(z, p)
  BY <1>1, SignedIs
<1>4. PICK n \in Nat : n = l + 1 - q
  <2>1. p \in 1..l + 1 /\ q \in p..l + 1
    BY <1>1
  <2> QED BY <2>1
<1>5. PICK t : t = Unsigned(s)
  OBVIOUS
<1>6. /\ t \in Seq(1..127) /\ Len(t) = n
      /\ \A k \in 1..n : t[k] = z[q + k - 1] /\ q + k - 1 \in q..l
  <2>1. \A k \in 1..n : q + k - 1 \in q..l
    BY <1>4
  <2>2. CASE Char(z, p) \in {Plus, Minus}
    <3>1. t = Tail(s) /\ q = p + 1
      BY <1>2, <1>3, <1>5, <2>2 DEF Unsigned, Signed
    <3>2. Len(s) = n + 1
      BY <1>1, <1>2, <1>4, <3>1
    <3>3. s \in Seq(1..127)
      BY <1>2
    <3>4. t \in Seq(1..127) /\ Len(t) = n /\ \A k \in 1..n : t[k] = s[k + 1]
      BY <3>1, <3>2, <3>3, TailIs
    <3>5. \A k \in 1..n : s[k + 1] = z[q + k - 1]
      <4> SUFFICES ASSUME NEW k \in 1..n
                   PROVE  s[k + 1] = z[q + k - 1]
        OBVIOUS
      <4>1. PICK i \in 1..Len(s) : i = k + 1
        BY <3>2
      <4>2. p + i - 1 = q + k - 1
        BY <1>1, <3>1, <4>1
      <4> QED BY <1>2, <4>1, <4>2
    <3> QED BY <2>1, <3>4, <3>5
  <2>3. CASE Char(z, p) \notin {Plus, Minus}
    <3>1. t = s /\ q = p
      BY <1>2, <1>3, <1>5, <2>3 DEF Unsigned, Signed
    <3> QED BY <1>2, <1>4, <2>1, <3>1
  <2> QED BY <2>2, <2>3
<1>7. \A j \in q..l : Char(z, j) = z[j]
  <2> SUFFICES ASSUME NEW j \in q..l
               PROVE  Char(z, j) = z[j]
    OBVIOUS
  <2>1. j \in Nat /\ j \in 1..Len(z)
    BY <1>1
  <2> QED BY <2>1, CharIs
<1>8. IsInteger(s) <=> Written(z, p)
  <2>1. DOMAIN t = 1..n /\ (t # <<>> <=> n # 0)
    BY <1>6
  <2>2. q <= l <=> n # 0
    BY <1>1, <1>4
  <2>3. ASSUME \A k \in 1..n : t[k] \in Digits
        PROVE  \A j \in q..l : Char(z, j) \in Digits
    <3> SUFFICES ASSUME NEW j \in q..l
                 PROVE  Char(z, j) \in Digits
      OBVIOUS
    <3>1. PICK k \in 1..n : k = j + 1 - q
      BY <1>1, <1>4
    <3>2. q + k - 1 = j
      BY <1>1, <3>1
    <3> QED BY <1>6, <1>7, <2>3, <3>2
  <2>4. ASSUME \A j \in q..l : Char(z, j) \in Digits
        PROVE  \A k \in 1..n : t[k] \in Digits
    BY <1>6, <1>7, <2>4
  <2>5. IsInteger(s) <=> t # <<>> /\ \A k \in DOMAIN t : t[k] \in Digits
    BY <1>5 DEF IsInteger
  <2>6. Written(z, p) <=> q <= l /\ \A j \in q..l : Char(z, j) \in Digits
    BY <1>1, <1>3 DEF Written
  <2> QED BY <2>1, <2>2, <2>3, <2>4, <2>5, <2>6
<1>9. Value(s) = Meant(z, p)
  <2>1. DOMAIN t = 1..n
    BY <1>6
  <2>2. \A k \in 1..n : t[k] - 48 = Char(z, q + k - 1) - 48
    BY <1>6, <1>7
  <2>3. [k \in DOMAIN t |-> t[k] - 48] = Spelled(z, q, n)
    BY <2>1, <2>2 DEF Spelled
  <2>4. Value(s) = LET x == Number([k \in DOMAIN t |-> t[k] - 48])
                   IN  IF Char(s, 1) = Minus THEN -x ELSE x
    BY <1>5 DEF Value
  <2>5. Meant(z, p) = LET x == Number(Spelled(z, q, n))
                      IN  IF Char(z, p) = Minus THEN -x ELSE x
    BY <1>1, <1>3, <1>4 DEF Meant
  <2> QED BY <1>2, <2>3, <2>4, <2>5
<1> QED BY <1>1, <1>3, <1>4, <1>5, <1>6, <1>8, <1>9

-----------------------------------------------------------------------------
(* sqlite_is_number.                                                       *)

(* The string sqlite_is_number looks at.                                   *)
Seen(z, ty) == IF ty = "none" THEN z ELSE From(z, After(z, 1, {Space}))

(* Blanks before a string.                                                 *)
LEMMA BlanksAre ==
  ASSUME NEW z \in Seq(1..127)
  PROVE  /\ After(z, 1, {Space}) \in 1..Len(z) + 1
         /\ \A j \in 1..After(z, 1, {Space}) - 1 : Char(z, j) \in {Space}
         /\ From(z, 1) = z
<1>1. PICK l \in Nat : l = Len(z)
  OBVIOUS
<1>2. 0 \notin {Space} /\ 1 \in 1..Len(z) + 1
  BY <1>1 DEF Space
<1>3. From(z, 1) = z
  <2>1. PICK s : s = From(z, 1)
    OBVIOUS
  <2>2. s \in Seq(1..127) /\ Len(s) = l + 1 - 1 /\ \A k \in 1..Len(s) : s[k] = z[1 + k - 1]
    BY <1>1, <1>2, <2>1, RestOfString
  <2>3. \A k \in 1..l : 1 + k - 1 = k
    OBVIOUS
  <2>4. Len(s) = l /\ \A k \in 1..l : s[k] = z[k]
    BY <1>1, <2>2, <2>3
  <2> QED BY <1>1, <2>1, <2>2, <2>4
<1> QED BY <1>2, <1>3, AfterIs

(* Neither a digit nor a sign is a space.                                  *)
LEMMA NoSpaces ==
  ASSUME NEW c \in Digits \cup {Plus, Minus}
  PROVE  c \notin Spaces /\ c \notin {Space}
<1>1. c \in 48..57 \/ c = 43 \/ c = 45
  BY DEF Digits, Plus, Minus
<1>2. c \in Int /\ c > 13 /\ c # 32
  BY <1>1
<1>3. c \notin 9..13 /\ c \notin {32}
  BY <1>2
<1> QED BY <1>3 DEF Spaces, Space

(* A number begins with a sign or a digit.                                 *)
LEMMA NumberBegins ==
  ASSUME NEW z, NEW ty, Seen(z, ty) \in Seq(1..127), IsNumber(z, ty) # 0
  PROVE  Char(Seen(z, ty), 1) \in Digits \cup {Plus, Minus}
<1>1. PICK v \in Seq(1..127) : v = Seen(z, ty)
  OBVIOUS
<1>2. SUFFICES ASSUME Char(v, 1) \notin Digits, Char(v, 1) \notin {Plus, Minus}
               PROVE  FALSE
  BY <1>1
<1>3. After(v, 1, Digits) = 1
  <2>1. 0 \notin Digits
    BY DEF Digits
  <2>2. PICK l \in Nat : l = Len(v)
    OBVIOUS
  <2>3. 1 \in 1..Len(v) + 1 /\ \A j \in 1..1 - 1 : Char(v, j) \in Digits
    BY <2>2
  <2> QED BY <1>2, <2>1, <2>3, AfterUnique
<1>4. v = IF ty = "none" THEN z ELSE SubSeq(z, After(z, 1, {Space}), Len(z))
  BY <1>1 DEF Seen, From
<1>5. IsNumber(z, ty) = 0
  BY <1>2, <1>3, <1>4 DEF IsNumber
<1> QED BY <1>5

(* The last digit is compared with one less, or with the digit itself.     *)
LEMMA AboveBorder ==
  ASSUME NEW x \in Nat, NEW m \in Nat, NEW w \in Int, NEW d \in 0..1,
         x - m + w - (w - 1 + d) > 0
  PROVE  x >= m + d
OBVIOUS

(* An integer that fits and has at most N digits is one to                 *)
(* sqlite_is_number.                                                       *)
LEMMA NumberIsSeen ==
  ASSUME NEW z, NEW ty, Seen(z, ty) \in Seq(1..127), Written(Seen(z, ty), 1),
         Fits(Meant(Seen(z, ty), 1)),
         Len(Seen(z, ty)) + 1 - Signed(Seen(z, ty), 1) <= N
  PROVE  IsNumber(z, ty) = 1
<1>1. PICK v \in Seq(1..127) : v = Seen(z, ty)
  OBVIOUS
<1>2. PICK l \in Nat : l = Len(v)
  OBVIOUS
<1>3. 1 \in 1..Len(v) + 1
  BY <1>2
<1>4. PICK q \in 1..l + 1 : q = Signed(v, 1)
  BY <1>2, <1>3, SignedIs
<1>5. Written(v, 1) /\ Fits(Meant(v, 1)) /\ l + 1 - q <= N
  BY <1>1, <1>2, <1>4
<1>6. q <= l /\ \A j \in q..l : Char(v, j) \in Digits
  BY <1>2, <1>4, <1>5 DEF Written
<1>7. Char(v, l + 1) = 0
  <2>1. l + 1 \in Nat /\ l + 1 \notin 1..Len(v)
    BY <1>2
  <2> QED BY <2>1, CharIs
<1>8. After(v, q, Digits) = l + 1
  <2>1. 0 \notin Digits
    BY DEF Digits
  <2>2. q \in 1..Len(v) + 1 /\ l + 1 \in q..Len(v) + 1
    BY <1>2
  <2>3. \A j \in q..l + 1 - 1 : Char(v, j) \in Digits
    BY <1>6
  <2> QED BY <1>7, <2>1, <2>2, <2>3, AfterUnique
<1>9. Char(v, 1) \notin Spaces
  <2>1. Char(v, 1) \in Digits \cup {Plus, Minus}
    <3>1. Char(v, 1) \notin {Plus, Minus} => q = 1
      BY <1>4 DEF Signed
    <3>2. q = 1 => 1 \in q..l
      BY <1>6
    <3> QED BY <1>6, <3>1, <3>2
  <2> QED BY <2>1, NoSpaces
<1>10. Atoi64(v).rc = 0
  <2>1. 0 \notin Spaces /\ \A j \in 1..1 - 1 : Char(v, j) \in Spaces
    BY DEF Spaces, Space
  <2>2. After(v, 1, Spaces) = 1
    BY <1>3, <1>9, <2>1, AfterUnique
  <2> QED BY <1>2, <1>4, <1>5, <2>2, AtoiIsExact
<1>11. ~TooLarge(v, q, l + 1 - q, Char(v, 1) = Minus)
  <2>1. SUFFICES ASSUME l + 1 - q = N,
                        Compare(v, q, Pow63[N] - 1 + (IF Char(v, 1) = Minus THEN 1 ELSE 0)) > 0
                 PROVE  FALSE
    BY <1>2, <1>4, <1>5, LimitIs DEF TooLarge
  <2>2. PICK n \in Nat : n = N
    BY LimitIs
  <2>3. PICK d \in 0..1 : d = IF Char(v, 1) = Minus THEN 1 ELSE 0
    OBVIOUS
  <2>4. PICK w \in Int : w = Pow63[N]
    <3>1. N \in 1..Len(Pow63) /\ Pow63 \in Seq(0..9)
      BY LimitIs DEF N
    <3>2. Pow63[N] \in 0..9
      BY <3>1, ElementIn
    <3> QED BY <3>2
  <2>5. PICK x : x = Number(Spelled(v, q, n))
    OBVIOUS
  <2>6. PICK c : c = Compare(v, q, w - 1 + d)
    OBVIOUS
  <2>7. \A j \in q..q + n - 1 : Char(v, j) \in Digits
    <3>1. q + n - 1 = l
      BY <1>2, <1>4, <2>1, <2>2
    <3> QED BY <1>6, <3>1
  <2>8. x \in Nat
    <3>1. q \in Nat
      OBVIOUS
    <3>2. Spelled(v, q, n) \in Seq(0..9)
      BY <2>7, <3>1, SpelledIs
    <3> QED BY <2>5, <3>2, NumberNat
  <2>9. /\ c \in Int
        /\ \/ c > 0 /\ x > Limit
           \/ c < 0 /\ x < Limit
           \/ c = x - Limit + w - (w - 1 + d)
    <3>1. q \in Nat /\ w - 1 + d \in Int
      OBVIOUS
    <3> QED BY <2>2, <2>4, <2>5, <2>6, <2>7, <3>1, CompareIs
  <2>10. c > 0
    BY <2>1, <2>3, <2>4, <2>6
  <2>11. PICK m \in Nat : m = Limit
    BY LimitIs
  <2>12. x >= m + d
    <3>1. /\ c > 0
          /\ x > m \/ c < 0 \/ c = x - m + w - (w - 1 + d)
      BY <2>9, <2>10, <2>11
    <3>2. CASE x > m
      BY <2>3, <2>8, <2>11, <3>2
    <3>3. CASE c = x - m + w - (w - 1 + d)
      BY <2>3, <2>4, <2>8, <2>11, <3>1, <3>3, AboveBorder
    <3>4. ~(c > 0 /\ c < 0)
      BY <2>9
    <3> QED BY <3>1, <3>2, <3>3, <3>4
  <2>13. Meant(v, 1) = IF Char(v, 1) = Minus THEN -x ELSE x
    BY <1>2, <1>4, <2>1, <2>2, <2>5 DEF Meant
  <2>14. CASE Char(v, 1) = Minus
    <3>1. d = 1 /\ -x >= -m
      BY <1>5, <2>3, <2>8, <2>11, <2>13, <2>14 DEF Fits
    <3> QED BY <2>8, <2>11, <2>12, <3>1
  <2>15. CASE Char(v, 1) # Minus
    <3>1. d = 0 /\ x <= m - 1
      BY <1>5, <2>3, <2>8, <2>11, <2>13, <2>15 DEF Fits
    <3> QED BY <2>8, <2>12, <3>1
  <2> QED BY <2>14, <2>15
<1>12. 0 # Dot /\ 0 \notin Exponents
  BY DEF Dot, Exponents
<1>13. l + 1 # q /\ ~(l + 1 <= l)
  BY <1>2, <1>4, <1>6
<1>14. q = IF Char(v, 1) \in {Plus, Minus} THEN 2 ELSE 1
  BY <1>4 DEF Signed
<1>15. v = IF ty = "none" THEN z ELSE SubSeq(z, After(z, 1, {Space}), Len(z))
  BY <1>1 DEF Seen, From
<1> QED BY <1>2, <1>7, <1>8, <1>10, <1>11, <1>12, <1>13, <1>14, <1>15 DEF IsNumber

-----------------------------------------------------------------------------
(* Bind values and results.                                                *)

(* IntegersAreExact of a string z, its type ty and what becomes of it.     *)
ExactFor(z, ty, b) ==
  LET p == After(z, 1, IF ty = "result" THEN Spaces ELSE {Space})
      s == IF ty = "none" THEN z ELSE From(z, p)
  IN  /\ b.kind = "int" => /\ IsInteger(From(z, p))
                           /\ b.value = Value(From(z, p)) /\ Fits(b.value)
      /\ b.kind # "none" /\ IsInteger(s) /\ Fits(Value(s)) /\ Len(Unsigned(s)) <= N
           => b = Integer(Value(s))

(* Where only blanks come before it, isspace ends at the same place.       *)
LEMMA SpacesAre ==
  ASSUME NEW z \in Seq(1..127)
  PROVE  /\ After(z, 1, Spaces) \in 1..Len(z) + 1
         /\ \A p \in 1..Len(z) + 1 :
              (\A j \in 1..p - 1 : Char(z, j) \in {Space}) /\ Char(z, p) \notin Spaces
              => After(z, 1, Spaces) = p
<1>1. PICK l \in Nat : l = Len(z)
  OBVIOUS
<1>2. 0 \notin Spaces /\ 1 \in 1..Len(z) + 1 /\ Space \in Spaces
  BY <1>1 DEF Spaces, Space
<1>3. ASSUME NEW p \in 1..Len(z) + 1, \A j \in 1..p - 1 : Char(z, j) \in {Space},
             Char(z, p) \notin Spaces
      PROVE  After(z, 1, Spaces) = p
  <2>1. \A j \in 1..p - 1 : Char(z, j) \in Spaces
    BY <1>2, <1>3
  <2> QED BY <1>2, <1>3, <2>1, AfterUnique
<1> QED BY <1>2, <1>3, AfterIs

(* What sqlite_set_result makes of a string.                               *)
LEMMA ResultIsExact ==
  ASSUME NEW z \in Seq(1..127)
  PROVE  ExactFor(z, "result", SetResult(z))
<1>1. PICK p \in 1..Len(z) + 1 : p = After(z, 1, Spaces)
  BY SpacesAre
<1>2. PICK s : s = From(z, p)
  OBVIOUS
<1>3. /\ IsInteger(s) <=> Written(z, p)
      /\ Value(s) = Meant(z, p)
      /\ Len(Unsigned(s)) = Len(z) + 1 - Signed(z, p)
  BY <1>2, FormOfInteger
<1>4. PICK r : r = Atoi64(z)
  OBVIOUS
<1>5. /\ r.rc = 0 => IsInteger(s) /\ r.num = Value(s) /\ Fits(Value(s))
      /\ IsInteger(s) /\ Fits(Value(s)) /\ Len(Unsigned(s)) <= N => r.rc = 0
  BY <1>1, <1>3, <1>4, AtoiIsExact
<1>6. PICK b : b = SetResult(z)
  OBVIOUS
<1>7. /\ r.rc = 0 => b = Integer(r.num)
      /\ r.rc # 0 => b = Text
  BY <1>4, <1>6 DEF SetResult
<1>8. /\ b.kind = "int" => IsInteger(s) /\ b.value = Value(s) /\ Fits(b.value)
      /\ IsInteger(s) /\ Fits(Value(s)) /\ Len(Unsigned(s)) <= N => b = Integer(Value(s))
  BY <1>5, <1>7 DEF Integer, Text
<1> QED BY <1>1, <1>2, <1>6, <1>8 DEF ExactFor

(* What sqlite_st_execute makes of a bind value.                           *)
LEMMA BindIsExact ==
  ASSUME NEW z \in Seq(1..127), NEW ty, ty # "result"
  PROVE  ExactFor(z, ty, Bind(z, ty))
<1>1. PICK p \in 1..Len(z) + 1 : p = After(z, 1, {Space})
  BY BlanksAre
<1>2. PICK s : s = From(z, p)
  OBVIOUS
<1>3. PICK v : v = Seen(z, ty)
  OBVIOUS
(* What is seen begins at t.                                               *)
<1>4. PICK t : t = IF ty = "none" THEN 1 ELSE p
  OBVIOUS
<1>5. t \in 1..Len(z) + 1 /\ v = From(z, t)
  <2>1. 1 \in 1..Len(z) + 1
    <3>1. PICK l \in Nat : l = Len(z)
      OBVIOUS
    <3> QED BY <3>1
  <2> QED BY <1>1, <1>3, <1>4, <2>1, BlanksAre DEF Seen
<1>6. /\ v \in Seq(1..127) /\ Len(v) = Len(z) + 1 - t
      /\ Char(v, 1) = Char(z, t)
  <2>1. 1 \in Nat \ {0} /\ t + 1 - 1 = t
    BY <1>5
  <2>2. /\ v \in Seq(1..127) /\ Len(v) = Len(z) + 1 - t
        /\ \A k \in Nat \ {0} : Char(v, k) = Char(z, t + k - 1)
    BY <1>5, RestOfString
  <2>3. Char(v, 1) = Char(z, t + 1 - 1)
    BY <2>1, <2>2
  <2> QED BY <2>1, <2>2, <2>3
<1>7. /\ IsInteger(v) <=> Written(z, t)
      /\ Value(v) = Meant(z, t)
      /\ Len(Unsigned(v)) = Len(z) + 1 - Signed(z, t)
  BY <1>5, FormOfInteger
<1>8. /\ IsInteger(v) <=> Written(v, 1)
      /\ Value(v) = Meant(v, 1)
      /\ Len(Unsigned(v)) = Len(v) + 1 - Signed(v, 1)
  <2>1. 1 \in 1..Len(v) + 1 /\ v = From(v, 1)
    <3>1. PICK l \in Nat : l = Len(v)
      BY <1>6
    <3>2. From(v, 1) = v
      BY <1>6, BlanksAre
    <3> QED BY <3>1, <3>2
  <2> QED BY <1>6, <2>1, FormOfInteger
(* When a number begins at t, this is where both find it.                  *)
<1>9. ASSUME Char(v, 1) \in Digits \cup {Plus, Minus}
      PROVE  After(z, 1, Spaces) = t /\ t = p
  <2>1. Char(z, t) \notin Spaces /\ Char(z, t) \notin {Space} /\ 0 \notin {Space}
    <3>1. Char(z, t) \in Digits \cup {Plus, Minus}
      BY <1>6, <1>9
    <3>2. 0 \notin {Space}
      BY DEF Space
    <3> QED BY <3>1, <3>2, NoSpaces
  <2>2. \A j \in 1..t - 1 : Char(z, j) \in {Space}
    <3>1. \A j \in 1..p - 1 : Char(z, j) \in {Space}
      BY <1>1, BlanksAre
    <3>2. \A j \in 1..1 - 1 : Char(z, j) \in {Space}
      OBVIOUS
    <3> QED BY <1>4, <3>1, <3>2
  <2>3. After(z, 1, Spaces) = t
    BY <1>5, <2>1, <2>2, SpacesAre
  <2>4. 1 \in 1..Len(z) + 1 /\ t \in 1..Len(z) + 1
    <3>1. PICK l \in Nat : l = Len(z)
      OBVIOUS
    <3> QED BY <1>5, <3>1
  <2>5. After(z, 1, {Space}) = t
    BY <2>1, <2>2, <2>4, AfterUnique
  <2> QED BY <1>1, <2>3, <2>5
<1>10. PICK r : r = Atoi64(z)
  OBVIOUS
<1>11. ASSUME Char(v, 1) \in Digits \cup {Plus, Minus}
       PROVE  /\ r.rc = 0 => IsInteger(v) /\ r.num = Value(v) /\ Fits(Value(v))
              /\ IsInteger(v) /\ Fits(Value(v)) /\ Len(Unsigned(v)) <= N => r.rc = 0
  BY <1>7, <1>9, <1>10, <1>11, AtoiIsExact
<1>12. PICK b : b = Bind(z, ty)
  OBVIOUS
<1>13. /\ IsNumber(z, ty) = 1 /\ r.rc = 0 => b = Integer(r.num)
       /\ ~(IsNumber(z, ty) = 1 /\ r.rc = 0) => b = Real \/ b = Text
  BY <1>10, <1>12 DEF Bind
<1>14. ASSUME b.kind = "int"
       PROVE  IsInteger(s) /\ b.value = Value(s) /\ Fits(b.value)
  <2>1. IsNumber(z, ty) = 1 /\ r.rc = 0 /\ b = Integer(r.num)
    BY <1>13, <1>14 DEF Real, Text
  <2>2. Char(v, 1) \in Digits \cup {Plus, Minus}
    BY <1>3, <1>6, <2>1, NumberBegins
  <2>3. v = s
    BY <1>2, <1>5, <1>9, <2>2
  <2> QED BY <1>11, <2>1, <2>2, <2>3 DEF Integer
<1>15. ASSUME IsInteger(v), Fits(Value(v)), Len(Unsigned(v)) <= N
       PROVE  b = Integer(Value(v))
  <2>1. IsNumber(z, ty) = 1
    BY <1>3, <1>6, <1>8, <1>15, NumberIsSeen
  <2>2. Char(v, 1) \in Digits \cup {Plus, Minus}
    BY <1>3, <1>6, <2>1, NumberBegins
  <2> QED BY <1>11, <1>13, <1>15, <2>1, <2>2
<1>16. v = IF ty = "none" THEN z ELSE s
  BY <1>1, <1>2, <1>3 DEF Seen
<1> QED BY <1>1, <1>2, <1>12, <1>14, <1>15, <1>16 DEF ExactFor

(* The string is one of ASCII characters, and what became of it is exact.   *)
NumberInv ==
  /\ data \in Seq(1..127) /\ type \in {"none", "integer", "float", "result"}
  /\ ExactFor(data, type, bound)

(* The integers a string becomes when it is bound or returned are those it *)
(* spells, for strings of any length and integers of any width             *)
(* (sqlite_is_number, _sqlite_atoi64).                                     *)
THEOREM IntegersExact == NumberSpec => []IntegersAreExact
<1>1. NumberInit(BoundedSeq(Chars, MaxString), {"none", "integer", "float", "result"})
        => NumberInv
  <2> SUFFICES ASSUME NumberInit(BoundedSeq(Chars, MaxString),
                                 {"none", "integer", "float", "result"})
               PROVE  NumberInv
    OBVIOUS
  <2>1. data \in BoundedSeq(Chars, MaxString) /\ bound = [kind |-> "none"]
        /\ type \in {"none", "integer", "float", "result"}
    BY DEF NumberInit
  <2>2. PICK n \in 0..MaxString : data \in [1..n -> Chars]
    BY <2>1 DEF BoundedSeq, SeqOf
  <2>3. data \in [1..n -> 1..127]
    BY <2>2, Pow63Assumption
  <2>4. data \in Seq(1..127)
    BY <2>3, Pow63Assumption, FunctionIsSeq
  <2>5. ExactFor(data, type, bound)
    BY <2>1 DEF ExactFor
  <2> QED BY <2>1, <2>4, <2>5 DEF NumberInv
<1>2. NumberInv /\ [Convert]_numberVars => NumberInv'
  <2> SUFFICES ASSUME NumberInv, [Convert]_numberVars
               PROVE  NumberInv'
    OBVIOUS
  <2>1. CASE Convert
    <3>1. data' = data /\ type' = type
          /\ bound' = IF type = "result" THEN SetResult(data) ELSE Bind(data, type)
      BY <2>1 DEF Convert
    <3>2. data \in Seq(1..127) /\ type \in {"none", "integer", "float", "result"}
      BY DEF NumberInv
    <3>3. ExactFor(data, type, bound')
      <4>1. CASE type = "result"
        BY <3>1, <3>2, <4>1, ResultIsExact
      <4>2. CASE type # "result"
        BY <3>1, <3>2, <4>2, BindIsExact
      <4> QED BY <4>1, <4>2
    <3> QED BY <3>1, <3>2, <3>3 DEF NumberInv
  <2>2. CASE UNCHANGED numberVars
    BY <2>2 DEF NumberInv, numberVars
  <2> QED BY <2>1, <2>2
<1>3. NumberInv => IntegersAreExact
  BY DEF NumberInv, ExactFor, From, IntegersAreExact, Trimmed, Blanks
<1> QED BY <1>1, <1>2, <1>3, PTL DEF NumberSpec
=============================================================================
