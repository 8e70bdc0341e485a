----------------------- MODULE StatementHandlesProofs -----------------------
(***************************************************************************)
(* Proofs about StatementHandles, for all handles and addresses.           *)
(*                                                                         *)
(* The list is touched at its front by a prepare and anywhere by a         *)
(* destroy.  The two sequence lemmas say what that does to the set of its  *)
(* elements and to repetitions; with them OneOwnerEach is inductive next   *)
(* to TypeOK, and from it follows what a disconnect finalizes.             *)
(***************************************************************************)
EXTENDS StatementHandles, SequenceTheorems, TLAPS

(* A node in front of the list.                                            *)
LEMMA PushNode ==
  ASSUME NEW T, NEW s \in Seq(T), NEW a \in T
  PROVE  /\ <<a>> \o s \in Seq(T)
         /\ Range(<<a>> \o s) = {a} \cup Range(s)
         /\ Repeated(<<a>> \o s) \subseteq Repeated(s) \cup ({a} \cap Range(s))
<1> DEFINE t == <<a>> \o s
<1>1. t \in Seq(T) /\ Len(t) = Len(s) + 1
  OBVIOUS
<1>2. DOMAIN t = 1 .. Len(s) + 1 /\ DOMAIN s = 1 .. Len(s) /\ Len(s) \in Nat
  BY <1>1
<1>3. t[1] = a /\ \A i \in 2 .. Len(s) + 1 : t[i] = s[i - 1]
  OBVIOUS
<1> HIDE DEF t
<1>4. Range(t) \subseteq {a} \cup Range(s)
  <2>1. SUFFICES ASSUME NEW i \in 1 .. Len(s) + 1
                 PROVE  t[i] \in {a} \cup Range(s)
    BY <1>2 DEF Range
  <2>2. CASE i = 1
    BY <2>2, <1>3
  <2>3. CASE i # 1
    <3>1. i - 1 \in DOMAIN s /\ t[i] = s[i - 1]
      BY <2>3, <1>2, <1>3
    <3>2. QED
      BY <3>1 DEF Range
  <2>4. QED
    BY <2>2, <2>3
<1>5. {a} \cup Range(s) \subseteq Range(t)
  <2>1. a \in Range(t)
    BY <1>2, <1>3 DEF Range
  <2>2. ASSUME NEW j \in DOMAIN s
        PROVE  s[j] \in Range(t)
    <3>1. j + 1 \in DOMAIN t /\ t[j + 1] = s[j]
      BY <1>2, <1>3
    <3>2. QED
      BY <3>1 DEF Range
  <2>3. QED
    BY <2>1, <2>2 DEF Range
<1>6. Repeated(t) \subseteq Repeated(s) \cup ({a} \cap Range(s))
  <2>1. SUFFICES ASSUME NEW b \in Repeated(t)
                 PROVE  b \in Repeated(s) \/ (b = a /\ b \in Range(s))
    OBVIOUS
  <2>2. PICK i \in DOMAIN t, j \in DOMAIN t : i < j /\ t[i] = b /\ t[j] = b
    BY <1>2 DEF Repeated
  <2>3. j - 1 \in DOMAIN s /\ s[j - 1] = b
    BY <2>2, <1>2, <1>3
  <2>4. CASE i = 1
    BY <2>2, <2>3, <2>4, <1>3 DEF Range
  <2>5. CASE i # 1
    <3>1. i - 1 \in DOMAIN s /\ s[i - 1] = b /\ i - 1 # j - 1
      BY <2>2, <2>5, <1>2, <1>3
    <3>2. QED
      BY <2>3, <3>1 DEF Repeated, Range
  <2>6. QED
    BY <2>4, <2>5
<1>7. QED
  BY <1>1, <1>4, <1>5, <1>6 DEF t

(* Lengths of the parts of a list around position k.                       *)
LEMMA AroundPosition ==
  ASSUME NEW n \in Nat, NEW k \in 1 .. n
  PROVE  /\ n - (k + 1) + 1 = n - k
         /\ (IF k + 1 <= n THEN n - (k + 1) + 1 ELSE 0) = n - k
         /\ \A i \in 1 .. n - k : k + 1 + i - 1 = k + i
         /\ (k - 1) + (n - k) = n - 1
OBVIOUS

(* A node that occurs once, taken out.                                     *)
LEMMA TakeNode ==
  ASSUME NEW T, NEW s \in Seq(T), NEW a \in Range(s), a \notin Repeated(s)
  PROVE  /\ RemoveFirst(s, a) \in Seq(T)
         /\ Range(RemoveFirst(s, a)) = Range(s) \ {a}
         /\ Repeated(RemoveFirst(s, a)) \subseteq Repeated(s)
<1>0. DOMAIN s = 1 .. Len(s) /\ Len(s) \in Nat
  OBVIOUS
<1>1. PICK k \in 1 .. Len(s) : s[k] = a
  BY <1>0 DEF Range
<1>2. \A i \in 1 .. Len(s) : s[i] = a <=> i = k
  BY <1>0, <1>1 DEF Repeated, Range
<1>3. {i \in 1 .. Len(s) : s[i] = a} = {k}
  BY <1>2
<1>4. Min({k}) = k
  BY DEF Min
<1>5. SelectInSeq(s, LAMBDA v : v = a) = k
  BY <1>3, <1>4 DEF SelectInSeq
<1> DEFINE t == RemoveAt(s, k)
<1>6. RemoveFirst(s, a) = t
  BY <1>1, <1>5 DEF RemoveFirst
<1>7. /\ t \in Seq(T) /\ Len(t) = Len(s) - 1
      /\ \A i \in 1 .. Len(s) - 1 : t[i] = IF i < k THEN s[i] ELSE s[i + 1]
  <2> DEFINE u == SubSeq(s, 1, k - 1)
             v == SubSeq(s, k + 1, Len(s))
  <2>1. /\ u \in Seq(T) /\ Len(u) = k - 1
        /\ \A i \in 1 .. k - 1 : u[i] = s[i]
    BY <1>0, SubSeqProperties
  <2>2. /\ v \in Seq(T) /\ Len(v) = Len(s) - k
        /\ \A i \in 1 .. Len(s) - k : v[i] = s[k + i]
    <3>1. k + 1 \in Int /\ Len(s) \in Int /\ \A i \in k + 1 .. Len(s) : s[i] \in T
      BY <1>0
    <3>2. /\ v \in Seq(T)
          /\ Len(v) = IF k + 1 <= Len(s) THEN Len(s) - (k + 1) + 1 ELSE 0
          /\ \A i \in 1 .. Len(s) - (k + 1) + 1 : v[i] = s[k + 1 + i - 1]
      BY <3>1, SubSeqProperties
    <3> HIDE DEF v
    <3>3. /\ Len(s) - (k + 1) + 1 = Len(s) - k
          /\ (IF k + 1 <= Len(s) THEN Len(s) - (k + 1) + 1 ELSE 0) = Len(s) - k
          /\ \A i \in 1 .. Len(s) - k : k + 1 + i - 1 = k + i
      BY <1>0, AroundPosition
    <3>4. QED
      BY <3>2, <3>3, Zenon
  <2>3. t = u \o v
    BY DEF RemoveAt
  <2> HIDE DEF u, v, t
  <2>4. t \in Seq(T) /\ Len(t) = Len(s) - 1
    <3>1. t \in Seq(T) /\ Len(t) = Len(u) + Len(v)
      BY <2>1, <2>2, <2>3, ConcatProperties
    <3>2. (k - 1) + (Len(s) - k) = Len(s) - 1
      BY <1>0, AroundPosition
    <3>3. QED
      BY <3>1, <3>2, <2>1, <2>2, Zenon
  <2>5. ASSUME NEW i \in 1 .. Len(s) - 1
        PROVE  t[i] = IF i < k THEN s[i] ELSE s[i + 1]
    BY <1>0, <2>1, <2>2, <2>3
  <2>6. QED
    BY <2>4, <2>5
<1> HIDE DEF t
<1>8. DOMAIN t = 1 .. Len(s) - 1
  BY <1>7
<1>9. Range(t) \subseteq Range(s) \ {a}
  <2>1. ASSUME NEW i \in DOMAIN t
        PROVE  t[i] \in Range(s) /\ t[i] # a
    <3>1. PICK j \in 1 .. Len(s) : j # k /\ t[i] = s[j]
      BY <1>0, <1>7, <1>8
    <3>2. QED
      BY <3>1, <1>0, <1>2 DEF Range
  <2>2. QED
    BY <2>1 DEF Range
<1>10. Range(s) \ {a} \subseteq Range(t)
  <2>1. ASSUME NEW j \in 1 .. Len(s), j # k
        PROVE  s[j] \in Range(t)
    <3>1. CASE j < k
      <4>1. j \in DOMAIN t /\ t[j] = s[j]
        BY <3>1, <1>0, <1>7, <1>8
      <4>2. QED
        BY <4>1 DEF Range
    <3>2. CASE k < j
      <4>1. j - 1 \in DOMAIN t /\ t[j - 1] = s[j]
        BY <3>2, <1>0, <1>7, <1>8
      <4>2. QED
        BY <4>1 DEF Range
    <3>3. QED
      BY <2>1, <3>1, <3>2, <1>0
  <2>2. QED
    BY <2>1, <1>0, <1>2 DEF Range
<1>11. Repeated(t) \subseteq Repeated(s)
  <2>1. SUFFICES ASSUME NEW b \in Repeated(t)
                 PROVE  b \in Repeated(s)
    OBVIOUS
  <2>2. PICK i \in DOMAIN t, j \in DOMAIN t : i < j /\ t[i] = b /\ t[j] = b
    BY <1>8 DEF Repeated
  <2> DEFINE p == IF i < k THEN i ELSE i + 1
             q == IF j < k THEN j ELSE j + 1
  <2>3. p \in DOMAIN s /\ q \in DOMAIN s /\ p # q
    BY <2>2, <1>0, <1>8
  <2>4. s[p] = b /\ s[q] = b
    BY <2>2, <1>7, <1>8
  <2>5. QED
    BY <2>3, <2>4 DEF Repeated, Range
<1>12. QED
  BY <1>6, <1>7, <1>9, <1>10, <1>11

-----------------------------------------------------------------------------
(* The inductive invariant.                                                *)
IInv == TypeOK /\ OneOwnerEach /\ DisconnectCloses

(* A statement with a live handle is prepared while connected.             *)
LEMMA OwnedIsPrepared ==
  ASSUME IInv, Active, NEW h \in Handles, sth[h].exists
  PROVE  /\ NotPrepared({sth[h].stmt}) = {}
         /\ sth[h].stmt # NULL =>
              /\ sth[h].stmt \in engine.pVdbe \ engine.internal
              /\ sth[h].stmt \in Range(stmt_list) \ Repeated(stmt_list)
<1>1. CASE sth[h].stmt = NULL
  BY <1>1 DEF NotPrepared
<1>2. CASE sth[h].stmt # NULL
  <2>1. sth[h].stmt \in Owned
    BY <1>2 DEF Owned
  <2>2. QED
    BY <2>1, <1>2 DEF IInv, OneOwnerEach, NotPrepared
<1>3. QED
  BY <1>1, <1>2

LEMMA InitInv ==
  ASSUME Init
  PROVE  IInv
<1>1. <<>> \in Seq(Addrs \cup {NULL}) /\ Range(<<>>) = {} /\ Repeated(<<>>) = {}
  BY DEF Range, Repeated
<1>2. TypeOK
  BY <1>1 DEF Init, TypeOK, Engine, Sth, NoHandle
<1>3. Owned = {}
  BY DEF Init, Owned, NoHandle
<1>4. OneOwnerEach /\ DisconnectCloses
  BY <1>1, <1>3 DEF Init, OneOwnerEach, DisconnectCloses, NoHandle
<1>5. QED
  BY <1>2, <1>4 DEF IInv

LEMMA PrepareInv ==
  ASSUME IInv, NEW h \in Handles, NEW a \in Addrs \cup {NULL},
         NEW onVtab \in BOOLEAN, Prepare(h, a, onVtab)
  PROVE  IInv'
<1> DEFINE T == Addrs \cup {NULL}
           new == {a} \ {NULL}
<1>1. /\ stmt_list' \in Seq(T)
      /\ Range(stmt_list') = {a} \cup Range(stmt_list)
      /\ Repeated(stmt_list') \subseteq Repeated(stmt_list) \cup ({a} \cap Range(stmt_list))
  BY PushNode DEF Prepare, IInv, TypeOK
<1>2. /\ engine' \in Engine
      /\ engine'.pVdbe = engine.pVdbe \cup new
      /\ engine'.internal = engine.internal
      /\ engine'.locks \subseteq engine.locks \cup new
  BY DEF Prepare, IInv, TypeOK, Engine
<1>3. /\ sth' = [sth EXCEPT ![h] = [exists |-> TRUE, stmt |-> a, Active |-> FALSE]]
      /\ sth' \in [Handles -> Sth]
      /\ sth[h].exists = FALSE
  BY DEF Prepare, IInv, TypeOK, Sth
<1>4. a \notin engine.pVdbe /\ Active /\ Active' = Active /\ dangling' = {}
  BY DEF Prepare
<1>5. new \cap engine.internal = {}
  BY <1>4 DEF IInv, TypeOK
<1>6. TypeOK'
  BY <1>1, <1>2, <1>3, <1>4, <1>5 DEF IInv, TypeOK
<1>7. Owned' = Owned \cup new
  BY <1>3 DEF Owned, IInv, TypeOK, Sth
<1>8. Range(stmt_list) \ {NULL} = engine.pVdbe \ engine.internal
      /\ Owned = engine.pVdbe \ engine.internal
      /\ Repeated(stmt_list) \subseteq {NULL}
  BY <1>4 DEF IInv, OneOwnerEach
<1>9. Range(stmt_list') \ {NULL} = engine'.pVdbe \ engine'.internal
  BY <1>1, <1>2, <1>5, <1>8
<1>10. Repeated(stmt_list') \subseteq {NULL}
  BY <1>1, <1>4, <1>8
<1>11. Owned' = engine'.pVdbe \ engine'.internal
  BY <1>2, <1>5, <1>7, <1>8
<1>12. ASSUME NEW f \in Handles, NEW g \in Handles, f # g,
              sth'[f].exists, sth'[g].exists, sth'[f].stmt = sth'[g].stmt
       PROVE  sth'[f].stmt = NULL
  <2>1. ASSUME NEW k \in Handles, k # h, sth'[k].exists
        PROVE  sth'[k].stmt # a \/ a = NULL
    <3>1. sth'[k] = sth[k]
      BY <1>3, <2>1 DEF IInv, TypeOK
    <3>2. sth[k].stmt \in Owned \cup {NULL}
      BY <2>1, <3>1 DEF Owned
    <3>3. QED
      BY <3>1, <3>2, <1>4, <1>8
  <2>2. sth'[h].stmt = a
    BY <1>3 DEF IInv, TypeOK
  <2>3. CASE f = h
    BY <2>1, <2>2, <2>3, <1>12
  <2>4. CASE g = h
    BY <2>1, <2>2, <2>4, <1>12
  <2>5. CASE f # h /\ g # h
    <3>1. sth'[f] = sth[f] /\ sth'[g] = sth[g]
      BY <2>5, <1>3 DEF IInv, TypeOK
    <3>2. QED
      BY <3>1, <1>4, <1>12 DEF IInv, OneOwnerEach
  <2>6. QED
    BY <2>3, <2>4, <2>5
<1>13. OneOwnerEach'
  BY <1>9, <1>10, <1>11, <1>12 DEF OneOwnerEach
<1>14. DisconnectCloses'
  BY <1>4 DEF DisconnectCloses
<1>15. QED
  BY <1>6, <1>13, <1>14 DEF IInv

(* A step that leaves every handle its statement, the list as it was and   *)
(* the engine's statements except for new internal ones.                   *)
LEMMA UseInv ==
  ASSUME IInv, UNCHANGED <<Active, stmt_list>>, TypeOK',
         \A h \in Handles : /\ sth'[h].exists = sth[h].exists
                            /\ sth'[h].stmt = sth[h].stmt,
         engine'.pVdbe \ engine'.internal = engine.pVdbe \ engine.internal,
         ~Active => engine' = engine
  PROVE  IInv'
<1>1. Owned' = Owned
  BY DEF Owned
<1>2. OneOwnerEach'
  BY <1>1 DEF IInv, OneOwnerEach
<1>3. DisconnectCloses'
  BY DEF IInv, DisconnectCloses
<1>4. QED
  BY <1>2, <1>3 DEF IInv

(* Setting the Active flag of a handle changes nothing else.               *)
LEMMA FlagOnly ==
  ASSUME TypeOK, NEW h \in Handles, NEW on \in BOOLEAN,
         sth' = [sth EXCEPT ![h].Active = on]
  PROVE  /\ \A g \in Handles : /\ sth'[g].exists = sth[g].exists
                               /\ sth'[g].stmt = sth[g].stmt
         /\ sth' \in [Handles -> Sth]
<1>1. sth \in [Handles -> Sth]
  BY DEF TypeOK
<1>2. ASSUME NEW g \in Handles
      PROVE  /\ sth'[g].exists = sth[g].exists
             /\ sth'[g].stmt = sth[g].stmt
             /\ sth'[g] \in Sth
  <2>1. sth[g] \in Sth
    BY <1>1
  <2>2. CASE g = h
    <3>1. sth'[g] = [sth[g] EXCEPT !.Active = on]
      BY <1>1, <2>2
    <3>2. QED
      BY <2>1, <3>1 DEF Sth
  <2>3. CASE g # h
    BY <1>1, <2>1, <2>3
  <2>4. QED
    BY <2>2, <2>3
<1>3. sth' \in [Handles -> Sth]
  BY <1>1, <1>2
<1>4. QED
  BY <1>2, <1>3

(* A virtual table's new statement is among the internal ones.             *)
LEMMA VtabStatement ==
  ASSUME IInv, UNCHANGED engine \/ VtabPrepares
  PROVE  /\ engine' \in Engine
         /\ engine'.internal \subseteq engine'.pVdbe
         /\ engine'.locks \subseteq engine'.pVdbe \ engine'.internal
         /\ engine'.pVdbe \ engine'.internal = engine.pVdbe \ engine.internal
<1>1. CASE UNCHANGED engine
  BY <1>1 DEF IInv, TypeOK
<1>2. CASE VtabPrepares
  <2>1. PICK b \in Addrs \ engine.pVdbe :
          engine' = [engine EXCEPT !.pVdbe = engine.pVdbe \cup {b},
                                   !.internal = engine.internal \cup {b}]
    BY <1>2 DEF VtabPrepares
  <2>2. engine \in Engine
    BY DEF IInv, TypeOK
  <2>3. /\ engine' \in Engine
        /\ engine'.pVdbe = engine.pVdbe \cup {b} /\ engine'.internal = engine.internal \cup {b}
        /\ engine'.locks = engine.locks
    <3> DEFINE e == [engine EXCEPT !.pVdbe = engine.pVdbe \cup {b}]
    <3>1. /\ e \in Engine /\ e.pVdbe = engine.pVdbe \cup {b}
          /\ e.internal = engine.internal /\ e.locks = engine.locks
      BY <2>2 DEF Engine
    <3>2. engine' = [e EXCEPT !.internal = e.internal \cup {b}]
      BY <2>1, <2>2 DEF Engine
    <3> DEFINE I == engine.internal \cup {b}
    <3>3. I \in SUBSET Addrs /\ engine' = [e EXCEPT !.internal = I]
      BY <2>2, <3>1, <3>2 DEF Engine
    <3> HIDE DEF e, I
    <3>4. LET x == [e EXCEPT !.internal = I] IN
          x \in Engine /\ x.pVdbe = e.pVdbe /\ x.internal = I /\ x.locks = e.locks
      BY <3>1, <3>3 DEF Engine
    <3> QED
      BY ONLY <3>1, <3>3, <3>4 DEF I
  <2>4. /\ engine.internal \subseteq engine.pVdbe
        /\ engine.locks \subseteq engine.pVdbe \ engine.internal
    BY DEF IInv, TypeOK
  <2> QED
    BY <2>3, <2>4
<1>3. QED
  BY <1>1, <1>2

(* sqlite_st_execute and sqlite_st_fetch step the statement; sqlite_db_do  *)
(* steps one that is gone when it returns.                                 *)
LEMMA StepsInv ==
  ASSUME IInv, Do \/ \E h \in Handles : Execute(h) \/ Fetch(h)
  PROVE  IInv'
<1>0. /\ \/ UNCHANGED sth
         \/ \E h \in Handles, on \in BOOLEAN : sth' = [sth EXCEPT ![h].Active = on]
      /\ dangling' = {}
  <2>1. CASE Do
    BY <2>1 DEF Do
  <2>2. ASSUME NEW h \in Handles, Execute(h) \/ Fetch(h)
        PROVE  /\ \E on \in BOOLEAN : sth' = [sth EXCEPT ![h].Active = on]
               /\ dangling' = {}
    <3>1. sth[h].Active \in BOOLEAN
      BY DEF IInv, TypeOK, Sth
    <3>2. QED
      BY <2>2, <3>1, OwnedIsPrepared DEF Execute, Fetch
  <2>3. QED
    BY <2>1, <2>2
<1>1. /\ \A g \in Handles : /\ sth'[g].exists = sth[g].exists
                            /\ sth'[g].stmt = sth[g].stmt
      /\ sth' \in [Handles -> Sth]
  <2>1. CASE UNCHANGED sth
    BY <2>1 DEF IInv, TypeOK
  <2>2. QED
    BY <1>0, <2>1, FlagOnly DEF IInv
<1>2. UNCHANGED engine \/ VtabPrepares
  BY DEF Do, Execute, Fetch, StepMayPrepare
<1>3. Active /\ UNCHANGED <<Active, stmt_list>>
  BY DEF Do, Execute, Fetch
<1>4. TypeOK'
  BY <1>0, <1>1, <1>2, <1>3, VtabStatement DEF IInv, TypeOK
<1>5. QED
  BY <1>1, <1>2, <1>3, <1>4, VtabStatement, UseInv

(* The calls that only look at the statement.                              *)
LEMMA LookInv ==
  ASSUME IInv, NEW h \in Handles,
         Finish(h) \/ FetchAttrib(h) \/ BindNamed(h) \/ PrepareFails(h)
  PROVE  IInv'
<1>1. UNCHANGED <<Active, stmt_list, engine>>
  BY DEF Finish, FetchAttrib, BindNamed, PrepareFails
<1>2. /\ \A g \in Handles : /\ sth'[g].exists = sth[g].exists
                            /\ sth'[g].stmt = sth[g].stmt
      /\ sth' \in [Handles -> Sth]
  <2>1. CASE UNCHANGED sth
    BY <2>1 DEF IInv, TypeOK
  <2>2. CASE \E on \in BOOLEAN : sth' = [sth EXCEPT ![h].Active = on]
    BY <2>2, FlagOnly DEF IInv
  <2>3. QED
    BY <2>1, <2>2 DEF Finish, FetchAttrib, BindNamed, PrepareFails
<1>3. sth[h].stmt \in Addrs \cup {NULL}
  BY DEF IInv, TypeOK, Sth
<1>4. dangling' \subseteq Addrs
  BY <1>3 DEF Finish, FetchAttrib, BindNamed, PrepareFails, NotPrepared
<1>5. TypeOK'
  BY <1>1, <1>2, <1>4 DEF IInv, TypeOK
<1>6. QED
  BY <1>1, <1>2, <1>5, UseInv

LEMMA DestroyInv ==
  ASSUME IInv, NEW h \in Handles, Destroy(h)
  PROVE  IInv'
<1> DEFINE a == sth[h].stmt
<1>1. /\ sth' = [sth EXCEPT ![h] = NoHandle]
      /\ sth \in [Handles -> Sth]
      /\ sth' \in [Handles -> Sth]
      /\ a \in Addrs \cup {NULL}
      /\ Active' = Active
      /\ dangling' \subseteq Addrs
  BY DEF Destroy, IInv, TypeOK, Sth, NoHandle, NotPrepared
<1>2. sth[h].exists /\ ~sth'[h].exists
  BY <1>1 DEF Destroy, NoHandle
<1>3. \A g \in Handles : g # h => sth'[g] = sth[g]
  BY <1>1
<1>4. CASE Active /\ a # NULL
  <2>1. a \in Range(stmt_list) \ Repeated(stmt_list)
        /\ a \in engine.pVdbe \ engine.internal
    BY <1>2, <1>4, OwnedIsPrepared
  <2>2. /\ stmt_list' \in Seq(Addrs \cup {NULL})
        /\ Range(stmt_list') = Range(stmt_list) \ {a}
        /\ Repeated(stmt_list') \subseteq Repeated(stmt_list)
    BY <1>4, <2>1, TakeNode DEF Destroy, RemoveNode, IInv, TypeOK
  <2>3. /\ engine' \in Engine
        /\ engine'.internal \subseteq engine'.pVdbe
        /\ engine'.locks \subseteq engine'.pVdbe \ engine'.internal
        /\ engine'.pVdbe \ engine'.internal = (engine.pVdbe \ engine.internal) \ {a}
    <3> DEFINE f == [engine EXCEPT !.pVdbe = @ \ {a}, !.locks = @ \ {a}]
    <3>1. engine' = DisconnectVtab(f)
      BY <1>4 DEF Destroy, Finalize
    <3>2. /\ f \in Engine
          /\ f.pVdbe = engine.pVdbe \ {a}
          /\ f.internal = engine.internal
          /\ f.locks = engine.locks \ {a}
      BY DEF IInv, TypeOK, Engine
    <3> HIDE DEF f
    <3>3. /\ f.internal \subseteq f.pVdbe
          /\ f.locks \subseteq f.pVdbe \ f.internal
      BY <2>1, <3>2 DEF IInv, TypeOK
    <3>4. CASE engine' = f
      BY <3>2, <3>3, <3>4
    <3>5. CASE engine' = [f EXCEPT !.pVdbe = @ \ f.internal, !.internal = {}]
      <4>1. /\ engine' \in Engine
            /\ engine'.pVdbe = f.pVdbe \ f.internal
            /\ engine'.internal = {}
            /\ engine'.locks = f.locks
        BY <3>2, <3>5 DEF Engine
      <4>2. QED
        BY <4>1, <3>2, <3>3
    <3>6. QED
      BY <3>1, <3>4, <3>5 DEF DisconnectVtab
  <2>4. TypeOK'
    BY <1>1, <2>2, <2>3 DEF IInv, TypeOK
  <2>5. /\ Range(stmt_list) \ {NULL} = engine.pVdbe \ engine.internal
        /\ Owned = engine.pVdbe \ engine.internal
        /\ Repeated(stmt_list) \subseteq {NULL}
        /\ \A f, g \in Handles :
             f # g /\ sth[f].exists /\ sth[g].exists /\ sth[f].stmt = sth[g].stmt
             => sth[f].stmt = NULL
    BY <1>4 DEF IInv, OneOwnerEach
  <2>6. Owned' = Owned \ {a}
    BY <1>2, <1>3, <1>4, <2>5 DEF Owned
  <2>7. OneOwnerEach'
    <3>1. Range(stmt_list') \ {NULL} = engine'.pVdbe \ engine'.internal
      BY <2>2, <2>3, <2>5
    <3>2. Repeated(stmt_list') \subseteq {NULL}
      BY <2>2, <2>5
    <3>3. Owned' = engine'.pVdbe \ engine'.internal
      BY <2>3, <2>5, <2>6
    <3>4. ASSUME NEW f \in Handles, NEW g \in Handles, f # g,
                 sth'[f].exists, sth'[g].exists, sth'[f].stmt = sth'[g].stmt
          PROVE  sth'[f].stmt = NULL
      BY <1>2, <1>3, <2>5, <3>4
    <3>5. QED
      BY <3>1, <3>2, <3>3, <3>4 DEF OneOwnerEach
  <2>8. DisconnectCloses'
    BY <1>1, <1>4 DEF DisconnectCloses
  <2>9. QED
    BY <2>4, <2>7, <2>8 DEF IInv
<1>5. CASE ~(Active /\ a # NULL)
  <2>1. UNCHANGED <<engine, stmt_list>>
    BY <1>5 DEF Destroy
  <2>2. TypeOK'
    BY <1>1, <2>1 DEF IInv, TypeOK
  <2>3. Active => Owned' = Owned
    BY <1>2, <1>3, <1>5 DEF Owned
  <2>4. ASSUME Active
        PROVE  OneOwnerEach'
    <3>1. ASSUME NEW f \in Handles, NEW g \in Handles, f # g,
                 sth'[f].exists, sth'[g].exists, sth'[f].stmt = sth'[g].stmt
          PROVE  sth'[f].stmt = NULL
      BY <1>2, <1>3, <2>4, <3>1 DEF IInv, OneOwnerEach
    <3>2. QED
      BY <2>1, <2>3, <2>4, <3>1 DEF IInv, OneOwnerEach
  <2>5. ASSUME ~Active
        PROVE  OneOwnerEach'
    BY <1>1, <2>5 DEF OneOwnerEach
  <2>6. DisconnectCloses'
    BY <1>1, <2>1 DEF IInv, DisconnectCloses
  <2>7. QED
    BY <2>2, <2>4, <2>5, <2>6 DEF IInv
<1>6. QED
  BY <1>4, <1>5

(* What a disconnect finalizes is what the driver prepared; then no lock   *)
(* is left, the virtual table finalizes its own, and nothing remains.      *)
LEMMA DisconnectOutcome ==
  ASSUME IInv, Disconnect
  PROVE  /\ engine' \in Engine
         /\ engine'.pVdbe = {} /\ engine'.internal = {} /\ engine'.locks = {}
         /\ dangling' = {}
<1> DEFINE first == TryClose(engine)
           S == Range(stmt_list)
           e == [engine EXCEPT !.closing = TRUE]
<1>1. /\ Active
      /\ S \ {NULL} = engine.pVdbe \ engine.internal
      /\ Repeated(stmt_list) \subseteq {NULL}
  BY DEF Disconnect, IInv, OneOwnerEach
<1>2. /\ engine \in Engine
      /\ engine.internal \subseteq engine.pVdbe
      /\ engine.locks \subseteq engine.pVdbe \ engine.internal
      /\ NULL \notin Addrs
  BY StatementAssumption DEF IInv, TypeOK
<1>3. /\ e \in Engine
      /\ e.pVdbe = engine.pVdbe /\ e.internal = engine.internal
      /\ e.locks = engine.locks /\ e.closing = TRUE
  BY <1>2 DEF Engine
<1>4. first = IF e.locks = {} THEN [e EXCEPT !.pVdbe = @ \ e.internal, !.internal = {}]
                              ELSE e
  BY <1>3 DEF TryClose, DisconnectVtab
<1> HIDE DEF e
<1>5. /\ first \in Engine /\ first.closing = TRUE
      /\ first.locks = engine.locks
      /\ first.internal \subseteq engine.internal
      /\ first.pVdbe \ first.internal = S \ {NULL}
      /\ first.internal \subseteq first.pVdbe
      /\ first.locks = {} => first.internal = {}
  <2>1. CASE e.locks = {}
    <3>1. /\ first \in Engine /\ first.closing = TRUE
          /\ first.locks = e.locks /\ first.internal = {}
          /\ first.pVdbe = e.pVdbe \ e.internal
      BY <1>3, <1>4, <2>1 DEF Engine
    <3>2. QED
      BY <3>1, <1>1, <1>3
  <2>2. CASE e.locks # {}
    BY <1>1, <1>2, <1>3, <1>4, <2>2
  <2>3. QED
    BY <2>1, <2>2
<1> HIDE DEF first, S
<1>6. CASE first.pVdbe = {}
  <2>1. engine' = first /\ dangling' = {}
    BY <1>6 DEF Disconnect, first
  <2>2. engine.locks = {}
    <3>1. engine.locks \subseteq S \ {NULL}
      BY <1>1, <1>2
    <3>2. QED
      BY <3>1, <1>5, <1>6
  <2>3. QED
    BY <2>1, <2>2, <1>5, <1>6
<1>7. CASE first.pVdbe # {}
  <2> DEFINE f == [first EXCEPT !.pVdbe = @ \ S, !.locks = @ \ S]
             g == Finalize(first, S)
  <2>1. engine' = TryClose(g)
    BY <1>7 DEF Disconnect, Remaining, first, S
  <2>2. /\ f \in Engine /\ f.closing = TRUE
        /\ f.pVdbe = first.pVdbe \ S /\ f.locks = first.locks \ S
        /\ f.internal = first.internal
    BY <1>5 DEF Engine
  <2>3. f.locks = {} /\ f.pVdbe \subseteq f.internal
    <3>1. first.locks \subseteq S
      BY <1>1, <1>2, <1>5
    <3>2. first.pVdbe \ first.internal \subseteq S
      BY <1>5
    <3>3. QED
      BY <2>2, <3>1, <3>2
  <2>4. g = [f EXCEPT !.pVdbe = @ \ f.internal, !.internal = {}]
    BY <2>2, <2>3 DEF Finalize, DisconnectVtab
  <2> HIDE DEF f
  <2>5. /\ g \in Engine /\ g.pVdbe = {} /\ g.internal = {} /\ g.locks = {}
    BY <2>2, <2>3, <2>4 DEF Engine
  <2> HIDE DEF g
  <2>6. /\ engine' \in Engine
        /\ engine'.pVdbe = {} /\ engine'.internal = {} /\ engine'.locks = {}
    <3>1. CASE engine' = [g EXCEPT !.closing = TRUE]
      BY <2>5, <3>1 DEF Engine
    <3> DEFINE c == [g EXCEPT !.closing = TRUE]
    <3>2. CASE engine' = [c EXCEPT !.pVdbe = @ \ c.internal, !.internal = {}]
      <4>1. /\ c \in Engine /\ c.pVdbe = {} /\ c.internal = {} /\ c.locks = {}
        BY <2>5 DEF Engine
      <4> HIDE DEF c
      <4>2. QED
        BY <4>1, <3>2 DEF Engine
    <3>3. QED
      BY <2>1, <3>1, <3>2 DEF TryClose, DisconnectVtab
  <2>7. /\ S \ (first.pVdbe \cup {NULL}) = {}
        /\ Repeated(stmt_list) \ {NULL} = {}
        /\ S \cap first.internal = {}
    <3>1. S \subseteq first.pVdbe \cup {NULL}
      BY <1>5
    <3>2. first.internal \subseteq Addrs
      BY <1>5 DEF Engine
    <3>3. QED
      BY <3>1, <3>2, <1>1, <1>2, <1>5
  <2>8. dangling' = {}
    BY <1>7, <2>7 DEF Disconnect, Remaining, first, S
  <2>9. QED
    BY <2>6, <2>8
<1>8. QED
  BY <1>6, <1>7

LEMMA DisconnectInv ==
  ASSUME IInv, Disconnect
  PROVE  IInv'
<1>1. /\ ~Active' /\ Active' \in BOOLEAN
      /\ stmt_list' = <<>> /\ stmt_list' \in Seq(Addrs \cup {NULL})
      /\ sth' = sth
  <2>1. <<>> \in Seq(Addrs \cup {NULL})
    OBVIOUS
  <2>2. QED
    BY <2>1 DEF Disconnect
<1>2. TypeOK'
  BY <1>1, DisconnectOutcome DEF IInv, TypeOK
<1>3. OneOwnerEach' /\ DisconnectCloses'
  BY <1>1, DisconnectOutcome DEF OneOwnerEach, DisconnectCloses
<1>4. QED
  BY <1>2, <1>3 DEF IInv

LEMMA StepInv ==
  ASSUME IInv, [Next]_vars
  PROVE  IInv'
<1>1. CASE Next
  <2>1. ASSUME NEW h \in Handles, NEW a \in Addrs \cup {NULL},
               NEW onVtab \in BOOLEAN, Prepare(h, a, onVtab)
        PROVE  IInv'
    BY <2>1, PrepareInv
  <2>2. ASSUME NEW h \in Handles,
               Finish(h) \/ FetchAttrib(h) \/ BindNamed(h) \/ PrepareFails(h)
        PROVE  IInv'
    BY <2>2, LookInv
  <2>3. CASE Do \/ \E h \in Handles : Execute(h) \/ Fetch(h)
    BY <2>3, StepsInv
  <2>4. ASSUME NEW h \in Handles, Destroy(h)
        PROVE  IInv'
    BY <2>4, DestroyInv
  <2>5. CASE Disconnect
    BY <2>5, DisconnectInv
  <2>6. QED
    BY <1>1, <2>1, <2>2, <2>3, <2>4, <2>5 DEF Next
<1>2. CASE UNCHANGED vars
  <2>1. UNCHANGED <<Active, stmt_list, engine, sth, dangling>>
    BY <1>2 DEF vars
  <2>2. QED
    BY <2>1 DEF IInv, TypeOK, OneOwnerEach, DisconnectCloses, Owned
<1>3. QED
  BY <1>1, <1>2

(* List, engine and handles agree while connected, and nothing is left     *)
(* after the disconnect: together with the types this is kept by every     *)
(* action of dbdimp.c modelled here.                                       *)
THEOREM InductiveInvariant == Spec => []IInv
<1>1. Init => IInv
  BY InitInv
<1>2. IInv /\ [Next]_vars => IInv'
  BY StepInv
<1>3. QED
  BY <1>1, <1>2, PTL DEF Spec

(* The driver's statement list, the engine and the Perl handles agree in   *)
(* every connected state: sqlite_st_prepare_sv, sqlite_st_destroy and the  *)
(* reuse of addresses included.                                            *)
THEOREM ListAgreesWithEngine == Spec => []OneOwnerEach
<1>1. IInv => OneOwnerEach
  BY DEF IInv
<1>2. QED
  BY <1>1, InductiveInvariant, PTL

(* Every reachable state is well formed, with any number of handles: what  *)
(* the list, the engine and a virtual table hold are statements.           *)
THEOREM TypeCorrect == Spec => []TypeOK
<1>1. IInv => TypeOK
  BY DEF IInv
<1>2. QED
  BY <1>1, InductiveInvariant, PTL

(* sqlite_db_disconnect leaves no statement behind, so that its second     *)
(* sqlite3_close succeeds.                                                 *)
THEOREM ConnectionIsClosed == Spec => []DisconnectCloses
<1>1. IInv => DisconnectCloses
  BY DEF IInv
<1>2. QED
  BY <1>1, InductiveInvariant, PTL

LEMMA StepPrepared ==
  ASSUME ~BindInactive, IInv, OnlyPrepared, [Next]_vars
  PROVE  OnlyPrepared'
<1>1. ASSUME NEW h \in Handles, sth[h].exists, Active
      PROVE  NotPrepared({sth[h].stmt}) = {}
  BY <1>1, OwnedIsPrepared
<1>2. ASSUME NEW h \in Handles,
             \/ \E a \in Addrs \cup {NULL}, onVtab \in BOOLEAN : Prepare(h, a, onVtab)
             \/ PrepareFails(h)
      PROVE  OnlyPrepared'
  BY <1>2 DEF Prepare, PrepareFails, OnlyPrepared
<1>3. ASSUME NEW h \in Handles,
             \/ Execute(h) \/ Fetch(h) \/ Finish(h) \/ FetchAttrib(h)
             \/ BindNamed(h) \/ Destroy(h)
      PROVE  OnlyPrepared'
  BY <1>1, <1>3 DEF Execute, Fetch, Finish, FetchAttrib, BindNamed, Destroy,
                    OnlyPrepared
<1>4. CASE Do \/ Disconnect
  BY <1>4, DisconnectOutcome DEF Do, OnlyPrepared
<1>5. CASE UNCHANGED vars
  BY <1>5 DEF vars, OnlyPrepared
<1>6. QED
  BY <1>2, <1>3, <1>4, <1>5 DEF Next

(* As long as nobody binds by name on a handle whose connection is gone,   *)
(* the driver hands the engine only statements it has prepared and not yet *)
(* finalized, and the disconnect finalizes each once.                      *)
THEOREM EngineGetsPreparedOnly ==
  ASSUME ~BindInactive
  PROVE  Spec => []OnlyPrepared
<1>1. Init => OnlyPrepared
  BY DEF Init, OnlyPrepared
<1>2. IInv /\ OnlyPrepared /\ [Next]_vars => OnlyPrepared'
  BY StepPrepared
<1>3. QED
  BY <1>1, <1>2, InductiveInvariant, PTL DEF Spec
=============================================================================
