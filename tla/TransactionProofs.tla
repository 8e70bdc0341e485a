-------------------------- MODULE TransactionProofs --------------------------
(***************************************************************************)
(* Proofs about the transactions of a database handle, DbhTransaction, and *)
(* about do() of several statements, DoStatements, for all rows, names,    *)
(* handles, hazards and texts.                                             *)
(*                                                                         *)
(* First, what reaches the file.  Every engine call takes a well-formed    *)
(* connection to well-formed connections and changes the file in one way   *)
(* only, by making the connection's whole contents durable (one lemma per  *)
(* call).  It is allowed only when those contents have been asked for:     *)
(* either the call is a commit, or the engine is in auto-commit mode,      *)
(* where the lazy BEGIN guarantees that no row got in with AutoCommit off. *)
(*                                                                         *)
(* Then, single calls, with one more invariant: outside a transaction the  *)
(* connection sees the file (Settled).  Then, that the handle keeps        *)
(* TxnContract, and last what do() adds; each part says how.               *)
(***************************************************************************)
EXTENDS DoStatements, WellFoundedInduction, TLAPS

(* A connection the engine can produce.                                    *)
GoodConnection(d) ==
  /\ d \in Connection
  /\ d.autoCommit => d.pSavepoint = <<>>
  /\ d.isTransactionSavepoint => d.pSavepoint # <<>>

LEMMA OpenGood ==
  ASSUME NEW c \in SUBSET Writes
  PROVE  GoodConnection(OpenConnection(c))
BY DEF GoodConnection, OpenConnection, Connection

LEMMA RollbackAllGood ==
  ASSUME NEW d, GoodConnection(d)
  PROVE  GoodConnection(RollbackAll(d))
BY DEF GoodConnection, RollbackAll, Connection

LEMMA EmptyStack == <<>> \in Seq(Savepoint)
OBVIOUS

LEMMA EndGood ==
  ASSUME NEW d, GoodConnection(d)
  PROVE  GoodConnection(EndTransaction(d))
BY EmptyStack DEF GoodConnection, EndTransaction, Connection

LEMMA DurableGood ==
  ASSUME NEW d, GoodConnection(d)
  PROVE  GoodConnection(MakeDurable(d))
BY DEF GoodConnection, MakeDurable, Connection

-----------------------------------------------------------------------------
(* The file holds nothing outside A, and neither does what the next commit *)
(* of auto-commit mode would put there.                                    *)
Covered(d, A) == d.disk \subseteq A /\ (d.autoCommit => d.work \subseteq A)

(* An outcome of an engine call that stays within A.                       *)
Sound(o, A) == GoodConnection(o.db) /\ o.ok \in BOOLEAN /\ Covered(o.db, A)

LEMMA SoundMonotone ==
  ASSUME NEW o, NEW A, NEW B, Sound(o, A), A \subseteq B
  PROVE  Sound(o, B)
BY DEF Sound, Covered

(* An engine call that changes nothing.                                    *)
LEMMA SoundIdle ==
  ASSUME NEW d, GoodConnection(d), NEW A, Covered(d, A)
  PROVE  Sound(Done(d), A) /\ Sound(Failed(d), A)
BY DEF Sound, Done, Failed

(* Rolling back is sound, with or without the end of the transaction.      *)
LEMMA SoundRollback ==
  ASSUME NEW d, GoodConnection(d), NEW A, d.disk \subseteq A
  PROVE  /\ Sound(Failed(RollbackAll(d)), A)
         /\ Sound(Failed(EndTransaction(RollbackAll(d))), A)
         /\ Sound(Done(EndTransaction(RollbackAll(d))), A)
<1>1. GoodConnection(RollbackAll(d)) /\ GoodConnection(EndTransaction(RollbackAll(d)))
  BY RollbackAllGood, EndGood
<1>2. RollbackAll(d).disk = d.disk /\ RollbackAll(d).work = d.disk
  BY DEF RollbackAll, GoodConnection, Connection
<1>3. /\ EndTransaction(RollbackAll(d)).disk = d.disk
      /\ EndTransaction(RollbackAll(d)).work = d.disk
  BY <1>2, RollbackAllGood DEF EndTransaction, GoodConnection, Connection
<1>4. QED
  BY <1>1, <1>2, <1>3 DEF Sound, Covered, Done, Failed

(* So is making everything durable, when the contents are within A.        *)
LEMMA SoundDurable ==
  ASSUME NEW d, GoodConnection(d), NEW A, d.work \subseteq A
  PROVE  /\ Sound(Done(MakeDurable(d)), A)
         /\ Sound(Done(EndTransaction(MakeDurable(d))), A)
<1>1. GoodConnection(MakeDurable(d)) /\ GoodConnection(EndTransaction(MakeDurable(d)))
  BY DurableGood, EndGood
<1>2. MakeDurable(d).disk = d.work /\ MakeDurable(d).work = d.work
  BY DEF MakeDurable, GoodConnection, Connection
<1>3. /\ EndTransaction(MakeDurable(d)).disk = d.work
      /\ EndTransaction(MakeDurable(d)).work = d.work
  BY <1>2, DurableGood DEF EndTransaction, GoodConnection, Connection
<1>4. QED
  BY <1>1, <1>2, <1>3 DEF Sound, Covered, Done

-----------------------------------------------------------------------------
(* One lemma per engine call.                                              *)

LEMMA BeginSound ==
  ASSUME NEW d, GoodConnection(d), NEW A, Covered(d, A), NEW o \in ExecBegin(d)
  PROVE  Sound(o, A) /\ o.db.work = d.work /\ (o.ok => ~o.db.autoCommit)
<1>1. CASE o = Done([d EXCEPT !.autoCommit = FALSE])
  BY <1>1 DEF GoodConnection, Done, Connection, Sound, Covered
<1>2. CASE o = Failed(d)
  BY <1>2, SoundIdle DEF Failed
<1>3. QED
  BY <1>1, <1>2 DEF ExecBegin, MayFail

LEMMA CommitSound ==
  ASSUME NEW d, GoodConnection(d), NEW A, Covered(d, A), NEW o \in ExecCommit(d)
  PROVE  Sound(o, A \cup (IF o.ok THEN d.work ELSE {}))
<1> DEFINE B == A \cup (IF o.ok THEN d.work ELSE {})
<1>1. CASE o = Failed(d)
  BY <1>1, SoundIdle, SoundMonotone
<1>2. CASE o = Failed(EndTransaction(RollbackAll(d)))
  BY <1>2, SoundRollback, SoundMonotone DEF Covered
<1>3. CASE o = Done(EndTransaction(MakeDurable(d)))
  <2>1. o.ok
    BY <1>3 DEF Done
  <2>2. QED
    BY <1>3, <2>1, SoundDurable
<1>4. QED
  BY <1>1, <1>2, <1>3 DEF ExecCommit, MayFail

LEMMA RollbackSound ==
  ASSUME NEW d, GoodConnection(d), NEW A, Covered(d, A), NEW o \in ExecRollback(d)
  PROVE  Sound(o, A)
BY SoundIdle, SoundRollback DEF ExecRollback, Covered

LEMMA SavepointSound ==
  ASSUME NEW d, GoodConnection(d), NEW A, Covered(d, A),
         NEW n \in Names, NEW o \in ExecSavepoint(d, n)
  PROVE  Sound(o, A)
<1> DEFINE sp == [name |-> n, saved |-> d.work]
           e  == [d EXCEPT
                   !.autoCommit = FALSE,
                   !.isTransactionSavepoint = d.isTransactionSavepoint \/ d.autoCommit,
                   !.pSavepoint = Append(@, sp)]
<1>1. sp \in Savepoint /\ d.pSavepoint \in Seq(Savepoint)
  BY DEF Savepoint, GoodConnection, Connection
<1>2. Append(d.pSavepoint, sp) \in Seq(Savepoint) /\ Append(d.pSavepoint, sp) # <<>>
  BY <1>1
<1>3. Sound(Done(e), A)
  BY <1>2 DEF Sound, Covered, Done, GoodConnection, Connection
<1>4. QED
  BY <1>3, SoundIdle DEF ExecSavepoint

(* A nonempty set of positions has a greatest one, so that the search for  *)
(* the innermost savepoint finds what it looks for.                        *)
LEMMA LeastNatural ==
  ASSUME NEW T, T \subseteq Nat, T # {}
  PROVE  \E x \in T : \A y \in T : x <= y
<1> DEFINE R == OpToRel(<, Nat)
<1>1. IsWellFoundedOn(R, Nat)
  BY NatLessThanWellFounded
<1>2. \A x, y \in T : y < x => <<y, x>> \in R
  BY DEF OpToRel
<1> HIDE DEF R
<1>3. PICK x \in T : \A y \in T : ~ (<<y, x>> \in R)
  BY <1>1, WFMin
<1>4. \A y \in T : ~ (y < x)
  BY <1>2, <1>3
<1>5. QED
  BY <1>4

LEMMA GreatestPosition ==
  ASSUME NEW N \in Nat, NEW S, S \subseteq 1 .. N, S # {}
  PROVE  \E i \in S : \A j \in S : j <= i
<1> DEFINE T == {N - i : i \in S}
<1>1. \A i \in S : i \in Int /\ N - i \in Nat
  OBVIOUS
<1>2. T \subseteq Nat
  BY <1>1
<1>3. T # {}
  OBVIOUS
<1>4. \E x \in T : \A y \in T : x <= y
  <2> HIDE DEF T
  <2> QED BY <1>2, <1>3, LeastNatural
<1>5. PICK i \in S : \A y \in T : N - i <= y
  BY <1>4
<1>6. \A j \in S : N - i <= N - j
  BY <1>5
<1>7. QED
  BY <1>1, <1>6

LEMMA InnermostInStack ==
  ASSUME NEW d, GoodConnection(d), NEW n, Named(d, n) # {}
  PROVE  /\ d.pSavepoint \in Seq(Savepoint)
         /\ Innermost(d, n) \in 1 .. Len(d.pSavepoint)
         /\ ~d.autoCommit
<1>1. d.pSavepoint \in Seq(Savepoint)
  BY DEF GoodConnection, Connection
<1>2. Named(d, n) \subseteq 1 .. Len(d.pSavepoint)
  BY <1>1 DEF Named
<1>3. \E i \in Named(d, n) : \A j \in Named(d, n) : j <= i
  <2>1. Len(d.pSavepoint) \in Nat
    BY <1>1
  <2> QED
    BY <1>2, <2>1, GreatestPosition, Zenon
<1>4. Innermost(d, n) \in Named(d, n)
  BY <1>3 DEF Innermost
<1>5. d.pSavepoint # <<>>
  BY <1>2
<1>6. QED
  BY <1>1, <1>2, <1>4, <1>5 DEF GoodConnection

(* Cutting the stack back leaves a stack.                                  *)
LEMMA PrefixInSeq ==
  ASSUME NEW s \in Seq(Savepoint), NEW m \in 0 .. Len(s)
  PROVE  /\ SubSeq(s, 1, m) \in Seq(Savepoint)
         /\ m > 0 => SubSeq(s, 1, m) # <<>>
<1>1. SubSeq(s, 1, m) \in Seq(Savepoint) /\ Len(SubSeq(s, 1, m)) = m
  OBVIOUS
<1>2. QED
  BY <1>1

(* What an entry of the stack holds, and a stack whose contents are        *)
(* replaced by others.                                                     *)
LEMMA StackEntry ==
  ASSUME NEW s \in Seq(Savepoint), NEW i \in 1 .. Len(s)
  PROVE  s[i].name \in Names /\ s[i].saved \in SUBSET Writes
<1>1. s[i] \in Savepoint
  OBVIOUS
<1>2. QED
  BY <1>1 DEF Savepoint

LEMMA RestackedInSeq ==
  ASSUME NEW s \in Seq(Savepoint), s # <<>>, NEW c \in SUBSET Writes,
         NEW stack, stack = [i \in DOMAIN s |-> [name |-> s[i].name, saved |-> c]]
  PROVE  stack \in Seq(Savepoint) /\ stack # <<>>
<1>1. DOMAIN s = 1 .. Len(s) /\ Len(s) \in Nat /\ Len(s) # 0
  OBVIOUS
<1>2. \A i \in 1 .. Len(s) : [name |-> s[i].name, saved |-> c] \in Savepoint
  BY StackEntry DEF Savepoint
<1>3. stack \in [1 .. Len(s) -> Savepoint]
  BY <1>1, <1>2
<1>4. stack \in Seq(Savepoint) /\ Len(stack) = Len(s)
  BY <1>1, <1>3
<1>5. QED
  BY <1>1, <1>4

LEMMA ReleaseSound ==
  ASSUME NEW d, GoodConnection(d), NEW A, Covered(d, A),
         NEW n \in Names, NEW o \in ExecRelease(d, n)
  PROVE  Sound(o, A \cup (IF o.ok /\ ReleaseCommits(d, n) THEN d.work ELSE {}))
<1> DEFINE s     == d.pSavepoint
           m     == Innermost(d, n)
           stack == [i \in DOMAIN s |-> [name |-> s[i].name, saved |-> d.disk]]
           left  == [RollbackAll(d) EXCEPT !.pSavepoint = stack]
           cut   == [d EXCEPT !.pSavepoint = SubSeq(@, 1, m - 1)]
<1>1. CASE o = Failed(d)
  BY <1>1, SoundIdle, SoundMonotone
<1>2. CASE ReleaseCommits(d, n) /\ o = Done(EndTransaction(MakeDurable(d)))
  <2>1. o.ok
    BY <1>2 DEF Done
  <2>2. QED
    BY <1>2, <2>1, SoundDurable
<1>3. CASE ReleaseCommits(d, n) /\ o = Failed(left)
  <2>1. s \in Seq(Savepoint) /\ ~d.autoCommit /\ s # <<>>
    BY <1>3, InnermostInStack DEF ReleaseCommits, GoodConnection
  <2>2. stack \in Seq(Savepoint) /\ stack # <<>>
    <3>1. d.disk \in SUBSET Writes
      BY DEF GoodConnection, Connection
    <3> QED
      BY <2>1, <3>1, RestackedInSeq
  <2>3. Sound(Failed(left), A)
    <3> HIDE DEF stack
    <3> QED
      BY <2>1, <2>2 DEF Sound, Failed, Covered, GoodConnection, RollbackAll, Connection
  <2>4. QED
    BY <1>3, <2>3, SoundMonotone
<1>4. CASE Named(d, n) # {} /\ ~ReleaseCommits(d, n) /\ o = Done(cut)
  <2>1. s \in Seq(Savepoint) /\ m \in 1 .. Len(s) /\ ~d.autoCommit
    BY <1>4, InnermostInStack
  <2>2. m - 1 \in 0 .. Len(s)
    BY <2>1
  <2>3. /\ SubSeq(s, 1, m - 1) \in Seq(Savepoint)
        /\ d.isTransactionSavepoint => SubSeq(s, 1, m - 1) # <<>>
    <3>1. d.isTransactionSavepoint => m - 1 > 0
      BY <1>4, <2>1 DEF ReleaseCommits
    <3> QED
      BY <2>1, <2>2, <3>1, PrefixInSeq
  <2>4. Sound(Done(cut), A)
    BY <2>1, <2>3 DEF Sound, Done, Covered, GoodConnection, Connection
  <2>5. QED
    BY <1>4, <2>4, SoundMonotone
<1>5. QED
  BY <1>1, <1>2, <1>3, <1>4 DEF ExecRelease, ReleaseCommits, MayFail

LEMMA RollbackToSound ==
  ASSUME NEW d, GoodConnection(d), NEW A, Covered(d, A),
         NEW n \in Names, NEW o \in ExecRollbackTo(d, n)
  PROVE  Sound(o, A)
<1> DEFINE s   == d.pSavepoint
           m   == Innermost(d, n)
           cut == [d EXCEPT !.pSavepoint = SubSeq(@, 1, m), !.work = s[m].saved]
<1>1. CASE Named(d, n) = {}
  BY <1>1, SoundIdle DEF ExecRollbackTo
<1>2. CASE Named(d, n) # {}
  <2>1. s \in Seq(Savepoint) /\ m \in 1 .. Len(s) /\ ~d.autoCommit
    BY <1>2, InnermostInStack
  <2>2. s[m].saved \in SUBSET Writes
    BY <2>1, StackEntry
  <2>3. SubSeq(s, 1, m) \in Seq(Savepoint) /\ SubSeq(s, 1, m) # <<>>
    BY <2>1, PrefixInSeq
  <2>4. Sound(Done(cut), A)
    BY <2>1, <2>2, <2>3 DEF Sound, Done, Covered, GoodConnection, Connection
  <2>5. QED
    BY <1>2, <2>4 DEF ExecRollbackTo
<1>3. QED
  BY <1>1, <1>2

(* A writing statement that halts, with contents that are within B once    *)
(* it has succeeded and a file that is within A.                           *)
LEMMA HaltWriterSound ==
  ASSUME NEW d, GoodConnection(d), NEW A, NEW B, d.disk \subseteq A,
         A \subseteq B, d.autoCommit => d.work \subseteq B,
         NEW o \in HaltWriter(d)
  PROVE  Sound(o, B) /\ (~o.ok => Sound(o, A))
<1>1. CASE d.autoCommit /\ o = Done(MakeDurable(d))
  <2>1. o.ok
    BY <1>1 DEF Done
  <2>2. QED
    BY <1>1, <2>1, SoundDurable
<1>2. CASE o = Failed(RollbackAll(d))
  BY <1>2, SoundRollback, SoundMonotone
<1>3. CASE o = Done(d)
  <2>1. Covered(d, B) /\ o.ok
    BY <1>3 DEF Covered, Done
  <2>2. QED
    BY <1>3, <2>1, SoundIdle
<1>4. QED
  BY <1>1, <1>2, <1>3 DEF HaltWriter, MayFail

LEMMA HaltFailedSound ==
  ASSUME NEW d, GoodConnection(d), NEW A, Covered(d, A), NEW o \in HaltFailed(d)
  PROVE  Sound(o, A) /\ ~o.ok
<1>1. CASE o = Failed(d)
  BY <1>1, SoundIdle DEF Failed
<1>2. CASE o = Failed(EndTransaction(RollbackAll(d)))
  BY <1>2, SoundRollback DEF Failed, Covered
<1>3. QED
  BY <1>1, <1>2 DEF HaltFailed, MayFail

(* What an insertion adds to the rows that may reach the file.             *)
Added(d, o, w) == IF o.ok /\ d.autoCommit THEN {w} ELSE {}

LEMMA InsertSound ==
  ASSUME NEW d, GoodConnection(d), NEW A, Covered(d, A),
         NEW w \in Writes, NEW o \in ExecInsert(d, w)
  PROVE  Sound(o, A \cup Added(d, o, w))
<1> DEFINE e == [d EXCEPT !.work = @ \cup {w}]
<1>1. CASE o \in HaltWriter(e)
  <2>1. /\ GoodConnection(e) /\ e.disk = d.disk /\ e.autoCommit = d.autoCommit
        /\ e.work = d.work \cup {w}
    BY DEF GoodConnection, Connection
  <2>2. e.autoCommit => e.work \subseteq A \cup {w}
    BY <2>1 DEF Covered
  <2>3. Sound(o, A \cup {w}) /\ (~o.ok => Sound(o, A))
    <3> HIDE DEF e
    <3> QED
      BY <1>1, <2>1, <2>2, HaltWriterSound DEF Covered
  <2>4. ~d.autoCommit => Sound(o, A)
    <3>1. ~d.autoCommit => o = Done(e)
      BY <1>1, <2>1 DEF HaltWriter
    <3>2. ~d.autoCommit => Covered(e, A)
      BY <2>1 DEF Covered
    <3> HIDE DEF e
    <3> QED
      BY <2>1, <3>1, <3>2, SoundIdle
  <2>5. QED
    BY <2>3, <2>4, SoundMonotone DEF Added
<1>2. CASE o \in HaltFailed(d)
  BY <1>2, HaltFailedSound, SoundMonotone
<1>3. QED
  BY <1>1, <1>2 DEF ExecInsert

LEMMA SelectSound ==
  ASSUME NEW d, GoodConnection(d), NEW A, Covered(d, A), NEW o \in ExecSelect(d)
  PROVE  Sound(o, A) /\ o.db = d
<1>1. o = Done(d) \/ o = Failed(d)
  BY DEF ExecSelect, MayFail
<1>2. o.db = d
  BY <1>1 DEF Done, Failed
<1>3. QED
  BY <1>1, <1>2, SoundIdle

LEMMA StepReturningSound ==
  ASSUME NEW d, GoodConnection(d), NEW A, Covered(d, A),
         NEW h \in Handles, NEW w \in Writes, NEW o \in StepReturning(d, h, w)
  PROVE  Sound(o, A \cup Added(d, o, w))
<1> DEFINE e == [d EXCEPT !.work = @ \cup {w}, !.writing = @ \cup {h}]
<1>1. CASE o = Done(e)
  <2>1. /\ GoodConnection(e) /\ e.disk = d.disk /\ e.autoCommit = d.autoCommit
        /\ e.work = d.work \cup {w}
    BY DEF GoodConnection, Connection
  <2>2. o.ok
    BY <1>1 DEF Done
  <2>3. Covered(e, A \cup Added(d, o, w))
    BY <2>1, <2>2 DEF Covered, Added
  <2>4. QED
    BY <1>1, <2>1, <2>3, SoundIdle
<1>2. CASE o \in HaltFailed(d)
  BY <1>2, HaltFailedSound, SoundMonotone
<1>3. QED
  BY <1>1, <1>2 DEF StepReturning

LEMMA HaltSound ==
  ASSUME NEW d, GoodConnection(d), NEW A, Covered(d, A),
         NEW h, NEW o \in Halt(d, h)
  PROVE  Sound(o, A)
<1> DEFINE e == [d EXCEPT !.writing = @ \ {h}]
<1>1. /\ GoodConnection(e) /\ e.disk = d.disk /\ e.autoCommit = d.autoCommit
      /\ e.work = d.work
  BY DEF GoodConnection, Connection
<1>2. CASE o \in HaltWriter(e)
  <2> HIDE DEF e
  <2> QED
    BY <1>1, <1>2, HaltWriterSound DEF Covered
<1>3. CASE o = Done(d)
  BY <1>3, SoundIdle
<1>4. QED
  BY <1>2, <1>3 DEF Halt

LEMMA CloseSound ==
  ASSUME NEW d, GoodConnection(d), NEW A, Covered(d, A), NEW c \in Close(d)
  PROVE  GoodConnection(c) /\ Covered(c, A)
<1> DEFINE e == [d EXCEPT !.writing = {}]
<1>1. /\ GoodConnection(e) /\ e.disk = d.disk /\ e.autoCommit = d.autoCommit
      /\ e.work = d.work
  BY DEF GoodConnection, Connection
<1>2. PICK o \in HaltWriter(e) \cup {Done(d)} : c = OpenConnection(o.db.disk)
  BY DEF Close
<1>3. Sound(o, A)
  <2>1. CASE o \in HaltWriter(e)
    <3> HIDE DEF e
    <3> QED
      BY <1>1, <2>1, HaltWriterSound DEF Covered
  <2>2. CASE o = Done(d)
    BY <2>2, SoundIdle
  <2>3. QED
    BY <1>2, <2>1, <2>2
<1>4. o.db.disk \in SUBSET Writes /\ o.db.disk \subseteq A
  BY <1>3 DEF Sound, Covered, GoodConnection, Connection
<1>5. GoodConnection(c)
  BY <1>2, <1>4, OpenGood
<1>6. c.disk = o.db.disk /\ c.work = o.db.disk
  BY <1>2 DEF OpenConnection
<1>7. QED
  BY <1>4, <1>5, <1>6 DEF Covered
-----------------------------------------------------------------------------
(* The driver.                                                             *)

(* The BEGIN the driver issues for itself: afterwards the engine is in     *)
(* auto-commit mode only if the handle is, or if the statement is going to *)
(* begin a transaction.                                                    *)
LEMMA ImplicitBeginSound ==
  ASSUME NEW d, GoodConnection(d), NEW A, Covered(d, A), NEW stmt,
         NEW b \in ImplicitBegin(d, stmt)
  PROVE  /\ Sound(b, A) /\ b.db.work = d.work
         /\ b.ok /\ b.db.autoCommit => dbh.AutoCommit \/ StartsWithBegin(stmt)
<1>1. CASE d.autoCommit /\ ~StartsWithBegin(stmt) /\ ~dbh.AutoCommit
  BY <1>1, BeginSound DEF ImplicitBegin
<1>2. CASE ~(d.autoCommit /\ ~StartsWithBegin(stmt) /\ ~dbh.AutoCommit)
  <2>1. b = Done(d)
    BY <1>2 DEF ImplicitBegin
  <2>2. QED
    BY <1>2, <2>1, SoundIdle DEF Done
<1>3. QED
  BY <1>1, <1>2

(* The rows a statement may add to the file when it succeeds on d.         *)
Allowed(d, stmt, n, w) ==
  IF stmt = "INSERT" /\ d.autoCommit
    THEN {w}
  ELSE IF stmt = "COMMIT" \/ (stmt = "RELEASE" /\ ReleaseCommits(d, n))
    THEN d.work
    ELSE {}

LEMMA ExecSound ==
  ASSUME NEW d, GoodConnection(d), NEW A, Covered(d, A),
         NEW stmt \in Statements, NEW n, NEW w,
         stmt = "INSERT" => w \in Writes,
         stmt \in {"SAVEPOINT", "RELEASE", "ROLLBACK TO"} => n \in Names,
         NEW o \in Exec(d, stmt, n, w)
  PROVE  Sound(o, A \cup (IF o.ok THEN Allowed(d, stmt, n, w) ELSE {}))
<1>1. CASE stmt = "INSERT"
  <2>1. o \in ExecInsert(d, w)
    BY <1>1 DEF Exec
  <2>2. Sound(o, A \cup Added(d, o, w))
    BY <1>1, <2>1, InsertSound
  <2>3. QED
    BY <1>1, <2>2, SoundMonotone DEF Added, Allowed
<1>2. CASE stmt = "SELECT"
  <2>1. o \in ExecSelect(d)
    BY <1>2 DEF Exec
  <2>2. QED
    BY <1>2, <2>1, SelectSound, SoundMonotone
<1>3. CASE stmt = "BEGIN"
  <2>1. o \in ExecBegin(d)
    BY <1>3 DEF Exec
  <2>2. QED
    BY <1>3, <2>1, BeginSound, SoundMonotone
<1>4. CASE stmt = "COMMIT"
  <2>1. o \in ExecCommit(d)
    BY <1>4 DEF Exec
  <2>2. Sound(o, A \cup (IF o.ok THEN d.work ELSE {}))
    BY <2>1, CommitSound
  <2>3. QED
    BY <1>4, <2>2 DEF Allowed
<1>5. CASE stmt = "ROLLBACK"
  <2>1. o \in ExecRollback(d)
    BY <1>5 DEF Exec
  <2>2. QED
    BY <1>5, <2>1, RollbackSound, SoundMonotone
<1>6. CASE stmt = "SAVEPOINT"
  <2>1. o \in ExecSavepoint(d, n)
    BY <1>6 DEF Exec
  <2>2. QED
    BY <1>6, <2>1, SavepointSound, SoundMonotone
<1>7. CASE stmt = "RELEASE"
  <2>1. o \in ExecRelease(d, n) /\ n \in Names
    BY <1>7 DEF Exec
  <2>2. Sound(o, A \cup (IF o.ok /\ ReleaseCommits(d, n) THEN d.work ELSE {}))
    BY <2>1, ReleaseSound
  <2>3. Allowed(d, stmt, n, w) = IF ReleaseCommits(d, n) THEN d.work ELSE {}
    BY <1>7 DEF Allowed
  <2>4. CASE o.ok
    <3>1. (IF o.ok /\ ReleaseCommits(d, n) THEN d.work ELSE {})
            = Allowed(d, stmt, n, w)
      BY <2>3, <2>4
    <3>2. QED
      BY <2>2, <2>4, <3>1
  <2>5. CASE ~o.ok
    <3>1. (IF o.ok /\ ReleaseCommits(d, n) THEN d.work ELSE {}) = {}
      BY <2>5
    <3>2. QED
      BY <2>2, <2>5, <3>1
  <2>6. QED
    BY <2>4, <2>5
<1>8. CASE stmt = "ROLLBACK TO"
  <2>1. o \in ExecRollbackTo(d, n) /\ n \in Names
    BY <1>8 DEF Exec
  <2>2. Sound(o, A)
    BY <2>1, RollbackToSound
  <2> DEFINE B == A \cup (IF o.ok THEN Allowed(d, stmt, n, w) ELSE {})
  <2>3. A \subseteq B
    OBVIOUS
  <2> HIDE DEF B
  <2>4. Sound(o, B)
    BY <2>2, <2>3, SoundMonotone
  <2>5. QED
    BY <2>4 DEF B
<1>9. QED
  BY <1>1, <1>2, <1>3, <1>4, <1>5, <1>6, <1>7, <1>8 DEF Statements

LEMMA FlagsTyped ==
  ASSUME dbh \in Flags, NEW f \in Flags, NEW d, NEW stmt, NEW v
  PROVE  /\ FlagsAtBegin(stmt, v) \in Flags
         /\ FlagsAtEnd(f, d) \in Flags
         /\ LeaveBegunWork(f) \in Flags
         /\ DbiEndWork(f) \in Flags
         /\ [f EXCEPT !.Active = FALSE] \in Flags
BY DEF Flags, FlagsAtBegin, FlagsAtEnd, LeaveBegunWork, DbiEndWork

(* What has to be strengthened: the file is covered by what was asked, and *)
(* so is what the engine would commit on its own.                          *)
IInv == TypeOK /\ Covered(db, asked)

LEMMA IInvGood ==
  ASSUME IInv
  PROVE  /\ GoodConnection(db) /\ Covered(db, asked) /\ dbh \in Flags
         /\ sth \in [Handles -> SthState] /\ asked \subseteq Writes
BY DEF IInv, TypeOK, GoodConnection, SavepointsNeedTransaction

LEMMA Preserved ==
  ASSUME dbh' \in Flags, GoodConnection(db'), Covered(db', asked'),
         sth' \in [Handles -> SthState], asked' \subseteq Writes,
         NEW call \in Calls, NEW ok \in BOOLEAN, Returned(call, ok)
  PROVE  IInv'
<1>1. last' \in [call : Calls, ok : BOOLEAN]
  BY DEF Returned
<1>2. QED
  BY <1>1 DEF IInv, TypeOK, GoodConnection, SavepointsNeedTransaction, Covered

LEMMA RunPreserves ==
  ASSUME IInv, NEW stmt \in Statements, NEW n, NEW w, NEW v,
         stmt = "INSERT" => w \in Writes,
         stmt \in {"SAVEPOINT", "RELEASE", "ROLLBACK TO"} => n \in Names,
         Run(stmt, n, w, v)
  PROVE  IInv'
<1>1. PICK b \in ImplicitBegin(db, stmt) :
        IF b.ok
          THEN \E o \in Exec(b.db, stmt, n, w) :
                 LET flags == FlagsAtBegin(stmt, v) IN
                 /\ db' = o.db
                 /\ dbh' = IF o.ok THEN FlagsAtEnd(flags, o.db) ELSE flags
                 /\ asked' = asked \cup
                      (IF o.ok THEN Promised(b.db, stmt, n, w) ELSE {})
                 /\ Returned(stmt, o.ok)
          ELSE /\ db' = b.db
               /\ Returned(stmt, FALSE)
               /\ UNCHANGED <<dbh, asked>>
  BY DEF Run
<1>2. sth' = sth /\ stmt \in Calls
  BY DEF Run, Statements, Calls
<1>3. /\ GoodConnection(db) /\ Covered(db, asked) /\ dbh \in Flags
      /\ sth \in [Handles -> SthState] /\ asked \subseteq Writes
  BY IInvGood
<1>4. /\ Sound(b, asked)
      /\ b.ok /\ b.db.autoCommit => dbh.AutoCommit \/ StartsWithBegin(stmt)
  BY <1>3, ImplicitBeginSound
<1>5. GoodConnection(b.db) /\ Covered(b.db, asked)
  BY <1>4 DEF Sound
<1>6. CASE b.ok
  <2>1. PICK o \in Exec(b.db, stmt, n, w) :
          /\ db' = o.db
          /\ dbh' = IF o.ok THEN FlagsAtEnd(FlagsAtBegin(stmt, v), o.db)
                            ELSE FlagsAtBegin(stmt, v)
          /\ asked' = asked \cup
               (IF o.ok THEN Promised(b.db, stmt, n, w) ELSE {})
          /\ Returned(stmt, o.ok)
    BY <1>1, <1>6
  <2>2. Sound(o, asked \cup (IF o.ok THEN Allowed(b.db, stmt, n, w) ELSE {}))
    BY <1>5, ExecSound
  <2>3. Allowed(b.db, stmt, n, w) \subseteq Promised(b.db, stmt, n, w)
    BY <1>4, <1>6 DEF Allowed, Promised, StartsWithBegin
  <2>4. Sound(o, asked')
    <3> DEFINE B == asked \cup (IF o.ok THEN Allowed(b.db, stmt, n, w) ELSE {})
    <3>1. B \subseteq asked'
      BY <2>1, <2>3
    <3>2. Sound(o, B)
      BY <2>2
    <3> HIDE DEF B
    <3>3. QED
      BY <3>1, <3>2, SoundMonotone
  <2>5. Promised(b.db, stmt, n, w) \subseteq Writes
    BY <1>5 DEF Promised, GoodConnection, Connection
  <2>6. asked' \subseteq Writes
    BY <1>3, <2>1, <2>5
  <2>7. dbh' \in Flags
    BY <1>3, <2>1, FlagsTyped
  <2>8. QED
    BY <1>2, <1>3, <2>1, <2>4, <2>6, <2>7, Preserved DEF Sound
<1>7. CASE ~b.ok
  BY <1>1, <1>2, <1>3, <1>5, <1>7, Preserved
<1>8. QED
  BY <1>6, <1>7

LEMMA FirstStepSound ==
  ASSUME NEW d, GoodConnection(d), NEW A, Covered(d, A), NEW h \in Handles,
         NEW w, h \in Returning => w \in Writes, NEW s \in FirstStep(d, h, w)
  PROVE  /\ Sound(s[1], A \cup (IF h \in Returning THEN Added(d, s[1], w) ELSE {}))
         /\ s[2] \in {"row", "done"}
<1>1. CASE h \in Returning
  <2>1. s[1] \in StepReturning(d, h, w) /\ s[2] = "row"
    BY <1>1 DEF FirstStep
  <2>2. Sound(s[1], A \cup Added(d, s[1], w))
    BY <1>1, <2>1, StepReturningSound
  <2>3. QED
    BY <1>1, <2>1, <2>2
<1>2. CASE h \notin Returning
  <2>1. s[1] \in ExecSelect(d) /\ s[2] \in {"row", "done"}
    BY <1>2 DEF FirstStep
  <2>2. Sound(s[1], A)
    BY <2>1, SelectSound
  <2>3. QED
    BY <1>2, <2>1, <2>2, SoundMonotone
<1>3. QED
  BY <1>1, <1>2

LEMMA QueryFailedPreserves ==
  ASSUME IInv, NEW h \in Handles, NEW o, Sound(o, asked),
         NEW c \in SthState, QueryFailed(h, o.db, c)
  PROVE  IInv'
<1>1. /\ dbh \in Flags /\ sth \in [Handles -> SthState] /\ asked \subseteq Writes
  BY IInvGood
<1>2. sth' \in [Handles -> SthState]
  BY <1>1 DEF QueryFailed
<1>3. "execute query" \in Calls
  BY DEF Calls
<1>4. QED
  BY <1>1, <1>2, <1>3, Preserved DEF QueryFailed, Sound

LEMMA StepQueryPreserves ==
  ASSUME IInv, NEW h \in Handles, NEW w, h \in Returning => w \in Writes,
         NEW d, GoodConnection(d), Covered(d, asked), StepQuery(h, w, d)
  PROVE  IInv'
<1>1. PICK b \in ImplicitBegin(d, "SELECT") :
        IF b.ok
          THEN \E s \in FirstStep(b.db, h, w) :
                 IF s[1].ok THEN QueryStepped(h, w, s[1].db, s[2])
                            ELSE QueryFailed(h, s[1].db, "stale")
          ELSE QueryFailed(h, b.db, "reset")
  BY DEF StepQuery
<1>2. dbh \in Flags /\ sth \in [Handles -> SthState] /\ asked \subseteq Writes
  BY IInvGood
<1>3. Sound(b, asked) /\ (b.ok /\ b.db.autoCommit => dbh.AutoCommit)
  BY ImplicitBeginSound DEF StartsWithBegin
<1>4. GoodConnection(b.db) /\ Covered(b.db, asked)
  BY <1>3 DEF Sound
<1>5. "execute query" \in Calls /\ "stale" \in SthState /\ "reset" \in SthState
  BY DEF Calls, SthState
<1>6. CASE b.ok
  <2>1. PICK s \in FirstStep(b.db, h, w) :
          IF s[1].ok THEN QueryStepped(h, w, s[1].db, s[2])
                     ELSE QueryFailed(h, s[1].db, "stale")
    BY <1>1, <1>6
  <2> DEFINE more == IF h \in Returning THEN Added(b.db, s[1], w) ELSE {}
  <2>2. Sound(s[1], asked \cup more) /\ s[2] \in {"row", "done"}
    BY <1>4, FirstStepSound
  <2>3. CASE s[1].ok
    <3>1. QueryStepped(h, w, s[1].db, s[2])
      BY <2>1, <2>3
    <3>2. asked \cup more \subseteq asked' /\ asked' \subseteq Writes
      BY <1>2, <1>3, <1>6, <3>1 DEF Added, QueryStepped
    <3>3. Sound(s[1], asked')
      <4> HIDE DEF more
      <4> QED
        BY <2>2, <3>2, SoundMonotone
    <3>4. dbh' \in Flags
      BY <1>2, <3>1 DEF Flags, QueryStepped
    <3>5. sth' \in [Handles -> SthState]
      BY <1>2, <2>2, <3>1 DEF QueryStepped, SthState
    <3>6. db' = s[1].db /\ Returned("execute query", TRUE)
      BY <3>1 DEF QueryStepped
    <3>7. QED
      BY <1>5, <3>2, <3>3, <3>4, <3>5, <3>6, Preserved DEF Sound
  <2>4. CASE ~s[1].ok
    <3>1. more = {}
      BY <2>4 DEF Added
    <3>2. Sound(s[1], asked)
      BY <2>2, <3>1
    <3>3. QED
      BY <1>5, <2>1, <2>4, <3>2, QueryFailedPreserves
  <2>5. QED
    BY <2>3, <2>4
<1>7. CASE ~b.ok
  BY <1>1, <1>3, <1>5, <1>7, QueryFailedPreserves
<1>8. QED
  BY <1>6, <1>7

LEMMA ExecuteQueryPreserves ==
  ASSUME IInv, NEW h \in Handles, NEW w, h \in Returning => w \in Writes,
         ExecuteQuery(h, w)
  PROVE  IInv'
<1>1. PICK r \in ResetAtExecute(h) :
        IF r.ok THEN StepQuery(h, w, r.db) ELSE QueryFailed(h, r.db, "stale")
  BY DEF ExecuteQuery
<1>2. GoodConnection(db) /\ Covered(db, asked)
  BY IInvGood
<1>3. Sound(r, asked)
  <2>1. CASE r = Failed(db)
    BY <1>2, <2>1, SoundIdle
  <2>2. CASE r \in Halt(db, h)
    BY <1>2, <2>2, HaltSound
  <2>3. QED
    BY <1>1, <2>1, <2>2 DEF ResetAtExecute
<1>4. CASE r.ok
  BY <1>1, <1>3, <1>4, StepQueryPreserves DEF Sound
<1>5. CASE ~r.ok
  BY <1>1, <1>3, <1>5, QueryFailedPreserves DEF SthState
<1>6. QED
  BY <1>4, <1>5

LEMMA FinishHandlePreserves ==
  ASSUME IInv, NEW h \in Handles, NEW call \in Calls, FinishHandle(h, call)
  PROVE  IInv'
<1>1. PICK o \in Halt(db, h) :
        db' = o.db /\ Returned(call, o.ok /\ sth[h] # "error")
  BY DEF FinishHandle
<1>2. /\ GoodConnection(db) /\ Covered(db, asked) /\ dbh \in Flags
      /\ sth \in [Handles -> SthState] /\ asked \subseteq Writes
  BY IInvGood
<1>3. Sound(o, asked)
  BY <1>2, HaltSound
<1>4. /\ sth' \in [Handles -> SthState]
      /\ UNCHANGED <<dbh, asked>>
  BY <1>2 DEF FinishHandle, SthState
<1>5. (o.ok /\ sth[h] # "error") \in BOOLEAN
  OBVIOUS
<1>6. QED
  BY <1>1, <1>2, <1>3, <1>4, <1>5, Preserved DEF Sound

LEMMA FetchPreserves ==
  ASSUME IInv, NEW h \in Handles, Fetch(h)
  PROVE  IInv'
<1>1. /\ GoodConnection(db) /\ Covered(db, asked) /\ dbh \in Flags
      /\ sth \in [Handles -> SthState] /\ asked \subseteq Writes
  BY IInvGood
<1>2. "fetch" \in Calls
  BY DEF Calls
<1>3. \A c \in SthState : [sth EXCEPT ![h] = c] \in [Handles -> SthState]
  BY <1>1
<1>4. "row" \in SthState /\ "done" \in SthState /\ "error" \in SthState
      /\ "inactive" \in SthState
  BY DEF SthState
<1>5. ASSUME NEW o, Sound(o, asked), NEW c \in SthState, NEW ok \in BOOLEAN,
             db' = o.db, sth' = [sth EXCEPT ![h] = c], Returned("fetch", ok),
             UNCHANGED <<dbh, asked>>
      PROVE  IInv'
  BY <1>1, <1>2, <1>3, <1>5, Preserved DEF Sound
<1>6. Sound(Done(db), asked) /\ Sound(Failed(db), asked)
  BY <1>1, SoundIdle
<1>7. Done(db).db = db /\ Failed(db).db = db
  BY DEF Done, Failed
<1>8. CASE sth[h] = "row"
  <2>1. /\ \/ db' = db /\ sth' = [sth EXCEPT ![h] = "row"]
           \/ \E o \in Halt(db, h) :
                db' = o.db /\ sth' = [sth EXCEPT ![h] = IF o.ok THEN "done" ELSE "error"]
           \/ \E o \in IF h \in Returning THEN {} ELSE MayFail("StmtFails", db) :
                db' = o.db /\ sth' = [sth EXCEPT ![h] = "error"]
        /\ Returned("fetch", TRUE)
        /\ UNCHANGED <<dbh, asked>>
    BY <1>8 DEF Fetch
  <2>2. CASE db' = db /\ sth' = [sth EXCEPT ![h] = "row"]
    BY <1>4, <1>5, <1>6, <1>7, <2>1, <2>2
  <2>3. ASSUME NEW o \in Halt(db, h), db' = o.db,
               sth' = [sth EXCEPT ![h] = IF o.ok THEN "done" ELSE "error"]
        PROVE  IInv'
    <3>1. Sound(o, asked)
      BY <1>1, HaltSound
    <3>2. (IF o.ok THEN "done" ELSE "error") \in SthState
      BY <1>4
    <3>3. QED
      BY <1>5, <2>1, <2>3, <3>1, <3>2
  <2>4. ASSUME NEW o \in IF h \in Returning THEN {} ELSE MayFail("StmtFails", db),
               db' = o.db, sth' = [sth EXCEPT ![h] = "error"]
        PROVE  IInv'
    <3>1. o = Failed(db)
      BY <2>4 DEF MayFail
    <3>2. QED
      BY <1>4, <1>5, <1>6, <2>1, <2>4, <3>1
  <2>5. QED
    BY <2>1, <2>2, <2>3, <2>4
<1>9. CASE sth[h] = "done" /\ FinishHandle(h, "fetch")
  BY <1>2, <1>9, FinishHandlePreserves
<1>10. CASE /\ db' = db /\ sth' = [sth EXCEPT ![h] = "inactive"]
            /\ Returned("fetch", sth[h] = "reset") /\ UNCHANGED <<dbh, asked>>
  BY <1>4, <1>5, <1>6, <1>7, <1>10
<1>11. QED
  BY <1>8, <1>9, <1>10 DEF Fetch

-----------------------------------------------------------------------------
(* The actions that end work, and the invariant.                           *)

LEMMA CommitPreserves ==
  ASSUME IInv, Commit
  PROVE  IInv'
<1>1. PICK o \in IF dbh.AutoCommit \/ db.autoCommit THEN {Done(db)}
                                                    ELSE ExecCommit(db) :
        /\ db' = o.db
        /\ asked' = asked \cup (IF o.ok THEN db.work ELSE {})
        /\ Returned("commit", o.ok)
  BY DEF Commit
<1>2. /\ GoodConnection(db) /\ Covered(db, asked) /\ dbh \in Flags
      /\ sth \in [Handles -> SthState] /\ asked \subseteq Writes
  BY IInvGood
<1>3. Sound(o, asked')
  <2>1. CASE o \in ExecCommit(db)
    BY <1>1, <1>2, <2>1, CommitSound
  <2>2. CASE o = Done(db)
    <3>1. asked \subseteq asked'
      BY <1>1
    <3>2. QED
      BY <1>2, <2>2, <3>1, SoundIdle, SoundMonotone
  <2>3. QED
    BY <1>1, <2>1, <2>2
<1>4. asked' \subseteq Writes
  BY <1>1, <1>2 DEF GoodConnection, Connection
<1>5. dbh' \in Flags
  BY <1>2, FlagsTyped DEF Commit
<1>6. sth' = sth /\ "commit" \in Calls
  BY DEF Commit, Calls
<1>7. QED
  BY <1>1, <1>2, <1>3, <1>4, <1>5, <1>6, Preserved DEF Sound

LEMMA AutoCommitOnPreserves ==
  ASSUME IInv, AutoCommitOn
  PROVE  IInv'
<1>1. PICK o \in IF dbh.AutoCommit \/ db.autoCommit THEN {Done(db)}
                                                    ELSE ExecCommit(db) :
        /\ db' = o.db
        /\ dbh' = [dbh EXCEPT !.AutoCommit = @ \/ o.ok]
        /\ asked' = asked \cup
             (IF o.ok /\ ~dbh.AutoCommit THEN db.work ELSE {})
        /\ Returned("AutoCommit=1", o.ok)
  BY DEF AutoCommitOn
<1>2. /\ GoodConnection(db) /\ Covered(db, asked) /\ dbh \in Flags
      /\ sth \in [Handles -> SthState] /\ asked \subseteq Writes
  BY IInvGood
<1>3. Sound(o, asked')
  <2>1. CASE o \in ExecCommit(db) /\ ~dbh.AutoCommit
    <3>1. asked' = asked \cup (IF o.ok THEN db.work ELSE {})
      BY <1>1, <2>1
    <3>2. QED
      BY <1>2, <2>1, <3>1, CommitSound
  <2>2. CASE o = Done(db)
    <3>1. asked \subseteq asked'
      BY <1>1
    <3>2. QED
      BY <1>2, <2>2, <3>1, SoundIdle, SoundMonotone
  <2>3. QED
    BY <1>1, <2>1, <2>2
<1>4. asked' \subseteq Writes
  BY <1>1, <1>2 DEF GoodConnection, Connection
<1>5. dbh' \in Flags
  BY <1>1, <1>2, <1>3 DEF Flags, Sound
<1>6. sth' = sth /\ "AutoCommit=1" \in Calls
  BY DEF AutoCommitOn, Calls
<1>7. QED
  BY <1>1, <1>2, <1>3, <1>4, <1>5, <1>6, Preserved DEF Sound

LEMMA RollbackConnectionSound ==
  ASSUME GoodConnection(db), NEW A, Covered(db, A), NEW o \in RollbackConnection
  PROVE  Sound(o, A)
BY SoundIdle, RollbackSound DEF RollbackConnection

LEMMA RollbackPreserves ==
  ASSUME IInv, Rollback
  PROVE  IInv'
<1>1. PICK o \in RollbackConnection : db' = o.db /\ Returned("rollback", o.ok)
  BY DEF Rollback
<1>2. /\ GoodConnection(db) /\ Covered(db, asked) /\ dbh \in Flags
      /\ sth \in [Handles -> SthState] /\ asked \subseteq Writes
  BY IInvGood
<1>3. Sound(o, asked)
  BY <1>2, RollbackConnectionSound
<1>4. dbh' \in Flags
  BY <1>2, FlagsTyped DEF Rollback
<1>5. UNCHANGED <<sth, asked>> /\ "rollback" \in Calls
  BY DEF Rollback, Calls
<1>6. QED
  BY <1>1, <1>2, <1>3, <1>4, <1>5, Preserved DEF Sound

LEMMA DisconnectPreserves ==
  ASSUME IInv, Disconnect
  PROVE  IInv'
<1>1. PICK o \in IF dbh.AutoCommit THEN {Done(db)} ELSE RollbackConnection :
        db' \in Close(o.db)
  BY DEF Disconnect
<1>2. /\ GoodConnection(db) /\ Covered(db, asked) /\ dbh \in Flags
      /\ sth \in [Handles -> SthState] /\ asked \subseteq Writes
  BY IInvGood
<1>3. Sound(o, asked)
  <2>1. CASE o = Done(db)
    BY <1>2, <2>1, SoundIdle
  <2>2. CASE o \in RollbackConnection
    BY <1>2, <2>2, RollbackConnectionSound
  <2>3. QED
    BY <1>1, <2>1, <2>2
<1>4. GoodConnection(db') /\ Covered(db', asked)
  BY <1>1, <1>3, CloseSound DEF Sound
<1>5. dbh' \in Flags
  BY <1>2, FlagsTyped DEF Disconnect
<1>6. /\ UNCHANGED <<sth, asked>> /\ "disconnect" \in Calls
      /\ Returned("disconnect", TRUE)
  BY DEF Disconnect, Calls
<1>7. QED
  BY <1>2, <1>4, <1>5, <1>6, Preserved

LEMMA ConnectPreserves ==
  ASSUME IInv, NEW on \in BOOLEAN, Connect(on)
  PROVE  IInv'
<1>1. GoodConnection(db) /\ Covered(db, asked) /\ asked \subseteq Writes
  BY IInvGood
<1>2. db.disk \in SUBSET Writes /\ db.disk \subseteq asked
  BY <1>1 DEF GoodConnection, Connection, Covered
<1>3. GoodConnection(db')
  BY <1>2, OpenGood DEF Connect
<1>4. Covered(db', asked')
  BY <1>2 DEF Connect, OpenConnection, Covered
<1>5. dbh' \in Flags /\ sth' \in [Handles -> SthState]
  BY DEF Connect, Connected, Flags, SthState
<1>6. UNCHANGED asked /\ Returned("connect", TRUE) /\ "connect" \in Calls
  BY DEF Connect, Calls
<1>7. QED
  BY <1>1, <1>3, <1>4, <1>5, <1>6, Preserved

LEMMA InitIInv ==
  ASSUME Init
  PROVE  IInv
<1>1. GoodConnection(db)
  BY OpenGood DEF Init
<1>2. Covered(db, asked)
  BY DEF Init, OpenConnection, Covered
<1>3. /\ dbh \in Flags /\ sth \in [Handles -> SthState] /\ asked \subseteq Writes
      /\ last \in [call : Calls, ok : BOOLEAN]
  BY DEF Init, Connected, Flags, SthState, Calls
<1>4. QED
  BY <1>1, <1>2, <1>3
     DEF IInv, TypeOK, GoodConnection, SavepointsNeedTransaction

LEMMA NextIInv ==
  ASSUME IInv, [Next]_vars
  PROVE  IInv'
<1>1. /\ GoodConnection(db) /\ Covered(db, asked) /\ dbh \in Flags
      /\ sth \in [Handles -> SthState] /\ asked \subseteq Writes
  BY IInvGood
<1>2. Fresh \subseteq Writes /\ Returning \subseteq Handles
  BY HandleAssumption DEF Fresh
<1>3. CASE \E on \in BOOLEAN : Connect(on)
  BY <1>3, ConnectPreserves
<1>4. CASE BeginWork
  <2>1. dbh' \in Flags /\ dbh.AutoCommit \in BOOLEAN
    BY <1>1, <1>4 DEF BeginWork, Flags
  <2>2. "begin_work" \in Calls
    BY DEF Calls
  <2>3. QED
    BY <1>1, <1>4, <2>1, <2>2, Preserved DEF BeginWork
<1>5. CASE AutoCommitOff
  <2>1. dbh' \in Flags /\ "AutoCommit=0" \in Calls
    BY <1>1, <1>5 DEF AutoCommitOff, Flags, Calls
  <2>2. QED
    BY <1>1, <1>5, <2>1, Preserved DEF AutoCommitOff
<1>6. CASE AutoCommitOn
  BY <1>6, AutoCommitOnPreserves
<1>7. CASE Commit
  BY <1>7, CommitPreserves
<1>8. CASE Rollback
  BY <1>8, RollbackPreserves
<1>9. CASE Disconnect
  BY <1>9, DisconnectPreserves
<1>10. CASE \E v \in BOOLEAN, w \in Fresh : Run("INSERT", "", w, v)
  BY <1>2, <1>10, RunPreserves DEF Statements
<1>11. CASE \E v \in BOOLEAN, stmt \in {"SELECT", "BEGIN", "COMMIT", "ROLLBACK"} :
              Run(stmt, "", "", v)
  BY <1>11, RunPreserves DEF Statements
<1>12. CASE \E v \in BOOLEAN, n \in Names,
               stmt \in {"SAVEPOINT", "RELEASE", "ROLLBACK TO"} : Run(stmt, n, "", v)
  BY <1>12, RunPreserves DEF Statements
<1>13. CASE \E h \in Returning, w \in Fresh : ExecuteQuery(h, w)
  BY <1>2, <1>13, ExecuteQueryPreserves
<1>14. CASE \E h \in Handles \ Returning : ExecuteQuery(h, "")
  BY <1>14, ExecuteQueryPreserves
<1>15. CASE \E h \in Handles : Fetch(h)
  BY <1>15, FetchPreserves
<1>16. CASE \E h \in Handles : Finish(h)
  BY <1>16, FinishHandlePreserves DEF Finish, Calls
<1>17. CASE UNCHANGED vars
  BY <1>17 DEF vars, IInv, TypeOK, SavepointsNeedTransaction, Covered
<1>18. QED
  BY <1>3, <1>4, <1>5, <1>6, <1>7, <1>8, <1>9, <1>10, <1>11, <1>12, <1>13,
     <1>14, <1>15, <1>16, <1>17 DEF Next

LEMMA Invariance == Spec => []IInv
<1>1. Init => IInv
  BY InitIInv
<1>2. IInv /\ [Next]_vars => IInv'
  BY NextIInv
<1>3. QED
  BY <1>1, <1>2, PTL DEF Spec

(* The state always has its shape, and the engine's savepoint stack is     *)
(* empty outside a transaction and never loses its transaction savepoint.  *)
THEOREM TypeCorrect == Spec => []TypeOK
<1>1. IInv => TypeOK
  BY DEF IInv
<1>2. QED
  BY <1>1, Invariance, PTL

(* Whatever the hazards, the savepoints and the mixture of modes, no row   *)
(* reaches the file before a call that promises it has succeeded.          *)
THEOREM FileHoldsOnlyWhatWasAsked == Spec => []NothingUnasked
<1>1. IInv => NothingUnasked
  BY DEF IInv, Covered, NothingUnasked
<1>2. QED
  BY <1>1, Invariance, PTL
-----------------------------------------------------------------------------
(* What a single call does, under every combination of hazards.  Outside a *)
(* transaction, and while no writing statement is unfinished, a connection *)
(* sees the file and nothing else: a failed statement, a refused COMMIT    *)
(* and a rolled-back transaction leave nothing of theirs behind.           *)
Settled(d) == d.autoCommit /\ d.writing = {} => d.work = d.disk

LEMMA OutcomeFields ==
  ASSUME NEW d
  PROVE  /\ Done(d).db = d /\ Done(d).ok
         /\ Failed(d).db = d /\ ~Failed(d).ok
BY DEF Done, Failed

LEMMA EndFields ==
  ASSUME NEW d, GoodConnection(d)
  PROVE  /\ EndTransaction(d).disk = d.disk /\ EndTransaction(d).work = d.work
         /\ EndTransaction(d).autoCommit
         /\ RollbackAll(d).disk = d.disk /\ RollbackAll(d).work = d.disk
         /\ RollbackAll(d).autoCommit <=> d.autoCommit
         /\ MakeDurable(d).disk = d.work /\ MakeDurable(d).work = d.work
BY DEF GoodConnection, Connection, EndTransaction, RollbackAll, MakeDurable

LEMMA EndedFields ==
  ASSUME NEW d, GoodConnection(d)
  PROVE  /\ EndTransaction(RollbackAll(d)).disk = d.disk
         /\ EndTransaction(RollbackAll(d)).work = d.disk
         /\ EndTransaction(RollbackAll(d)).autoCommit
         /\ EndTransaction(MakeDurable(d)).disk = d.work
         /\ EndTransaction(MakeDurable(d)).work = d.work
         /\ EndTransaction(MakeDurable(d)).autoCommit
BY EndFields, RollbackAllGood, DurableGood

LEMMA HaltWriterSettled ==
  ASSUME NEW d, GoodConnection(d), NEW o \in HaltWriter(d)
  PROVE  Settled(o.db)
<1>1. CASE d.autoCommit /\ d.writing = {}
  <2>1. o = Done(MakeDurable(d)) \/ o = Failed(RollbackAll(d))
    BY <1>1 DEF HaltWriter, MayFail
  <2>2. QED
    BY <2>1, OutcomeFields, EndFields DEF Settled
<1>2. CASE ~(d.autoCommit /\ d.writing = {})
  <2>1. o = Done(d)
    BY <1>2 DEF HaltWriter
  <2>2. QED
    BY <1>2, <2>1, OutcomeFields DEF Settled
<1>3. QED
  BY <1>1, <1>2

LEMMA HaltFailedSettled ==
  ASSUME NEW d, GoodConnection(d), Settled(d), NEW o \in HaltFailed(d)
  PROVE  Settled(o.db) /\ ~o.ok
<1>1. o = Failed(d) \/ o = Failed(EndTransaction(RollbackAll(d)))
  BY DEF HaltFailed, MayFail
<1>2. QED
  BY <1>1, OutcomeFields, EndedFields DEF Settled

LEMMA HaltSettled ==
  ASSUME NEW d, GoodConnection(d), Settled(d), NEW h, NEW o \in Halt(d, h)
  PROVE  Settled(o.db)
<1>1. GoodConnection([d EXCEPT !.writing = @ \ {h}])
  BY DEF GoodConnection, Connection
<1>2. QED
  BY <1>1, HaltWriterSettled, OutcomeFields DEF Halt

LEMMA BeginSettled ==
  ASSUME NEW d, GoodConnection(d), Settled(d), NEW o \in ExecBegin(d)
  PROVE  Settled(o.db)
<1> DEFINE e == [d EXCEPT !.autoCommit = FALSE]
<1>1. o = Done(e) \/ o = Failed(d)
  BY DEF ExecBegin, MayFail
<1>2. e.autoCommit = FALSE
  BY DEF GoodConnection, Connection
<1> HIDE DEF e
<1>3. QED
  BY <1>1, <1>2, OutcomeFields DEF Settled

LEMMA ImplicitBeginSettled ==
  ASSUME NEW d, GoodConnection(d), Settled(d), NEW stmt,
         NEW b \in ImplicitBegin(d, stmt)
  PROVE  Settled(b.db)
BY BeginSettled, OutcomeFields DEF ImplicitBegin

LEMMA CommitSettled ==
  ASSUME NEW d, GoodConnection(d), Settled(d), NEW o \in ExecCommit(d)
  PROVE  /\ Settled(o.db)
         /\ o.ok => o.db.autoCommit /\ o.db.disk = d.work
<1>1. \/ o = Failed(d)
      \/ o = Done(EndTransaction(MakeDurable(d)))
      \/ o = Failed(EndTransaction(RollbackAll(d)))
  BY DEF ExecCommit, MayFail
<1>2. QED
  BY <1>1, OutcomeFields, EndedFields DEF Settled

LEMMA RollbackSettled ==
  ASSUME NEW d, GoodConnection(d), Settled(d), NEW o \in ExecRollback(d)
  PROVE  /\ Settled(o.db)
         /\ ~d.autoCommit => o.ok /\ o.db.autoCommit /\ o.db.disk = d.disk /\ o.db.work = d.disk
<1>1. \/ d.autoCommit /\ o = Failed(d)
      \/ o = Done(EndTransaction(RollbackAll(d)))
  BY DEF ExecRollback
<1>2. QED
  BY <1>1, OutcomeFields, EndedFields DEF Settled

LEMMA SavepointSettled ==
  ASSUME NEW d, GoodConnection(d), Settled(d), NEW n \in Names,
         NEW o \in ExecSavepoint(d, n) \cup ExecRelease(d, n) \cup ExecRollbackTo(d, n)
  PROVE  Settled(o.db)
<1> DEFINE opened == [d EXCEPT
              !.autoCommit = FALSE,
              !.isTransactionSavepoint = d.isTransactionSavepoint \/ d.autoCommit,
              !.pSavepoint = Append(@, [name |-> n, saved |-> d.work])]
           left == [RollbackAll(d) EXCEPT
              !.pSavepoint = [i \in DOMAIN d.pSavepoint |->
                [name |-> d.pSavepoint[i].name, saved |-> d.disk]]]
           released == [d EXCEPT !.pSavepoint = SubSeq(@, 1, Innermost(d, n) - 1)]
           back == [d EXCEPT !.pSavepoint = SubSeq(@, 1, Innermost(d, n)),
                             !.work = d.pSavepoint[Innermost(d, n)].saved]
<1>1. opened.autoCommit = FALSE
  BY DEF GoodConnection, Connection
<1>2. left.disk = d.disk /\ left.work = d.disk
  BY EndFields, RollbackAllGood DEF GoodConnection, Connection
<1>3. /\ released.autoCommit = d.autoCommit /\ released.writing = d.writing
      /\ released.work = d.work /\ released.disk = d.disk
  BY DEF GoodConnection, Connection
<1>4. back.autoCommit = d.autoCommit
  BY DEF GoodConnection, Connection
<1>5. Named(d, n) # {} => ~d.autoCommit
  BY InnermostInStack
<1>6. \/ o = Failed(d) \/ o = Done(opened)
      \/ o = Done(EndTransaction(MakeDurable(d))) \/ o = Failed(left)
      \/ o = Done(released)
      \/ (Named(d, n) # {} /\ o = Done(back))
  BY DEF ExecSavepoint, ExecRelease, ExecRollbackTo, MayFail
<1> HIDE DEF opened, left, released, back
<1>7. QED
  BY <1>1, <1>2, <1>3, <1>4, <1>5, <1>6, OutcomeFields, EndedFields DEF Settled

LEMMA InsertSettled ==
  ASSUME NEW d, GoodConnection(d), Settled(d), NEW w \in Writes,
         NEW o \in ExecInsert(d, w)
  PROVE  /\ Settled(o.db)
         /\ o.ok /\ ~d.autoCommit => ~o.db.autoCommit
<1> DEFINE e == [d EXCEPT !.work = @ \cup {w}]
<1>1. GoodConnection(e) /\ (e.autoCommit <=> d.autoCommit)
  BY DEF GoodConnection, Connection
<1>2. CASE o \in HaltWriter(e)
  <2> HIDE DEF e
  <2>1. Settled(o.db)
    BY <1>1, <1>2, HaltWriterSettled
  <2>2. ~d.autoCommit => o = Done(e)
    BY <1>1, <1>2 DEF HaltWriter
  <2>3. QED
    BY <1>1, <2>1, <2>2, OutcomeFields
<1>3. CASE o \in HaltFailed(d)
  BY <1>3, HaltFailedSettled
<1>4. QED
  BY <1>2, <1>3 DEF ExecInsert

LEMMA StepReturningSettled ==
  ASSUME NEW d, GoodConnection(d), Settled(d), NEW h \in Handles, NEW w \in Writes,
         NEW o \in StepReturning(d, h, w)
  PROVE  /\ Settled(o.db)
         /\ o.ok /\ ~d.autoCommit => ~o.db.autoCommit
<1> DEFINE e == [d EXCEPT !.work = @ \cup {w}, !.writing = @ \cup {h}]
<1>1. (e.autoCommit <=> d.autoCommit) /\ h \in e.writing
  BY DEF GoodConnection, Connection
<1>2. CASE o = Done(e)
  <2> HIDE DEF e
  <2> QED
    BY <1>1, <1>2, OutcomeFields DEF Settled
<1>3. CASE o \in HaltFailed(d)
  BY <1>3, HaltFailedSettled
<1>4. QED
  BY <1>2, <1>3 DEF StepReturning

LEMMA ExecSettled ==
  ASSUME NEW d, GoodConnection(d), Settled(d), NEW stmt \in Statements, NEW n, NEW w,
         stmt = "INSERT" => w \in Writes,
         stmt \in {"SAVEPOINT", "RELEASE", "ROLLBACK TO"} => n \in Names,
         NEW o \in Exec(d, stmt, n, w)
  PROVE  /\ Settled(o.db)
         /\ stmt \in {"INSERT", "SELECT"} /\ o.ok /\ ~d.autoCommit
              => ~o.db.autoCommit
<1>1. CASE stmt = "INSERT"
  BY <1>1, InsertSettled DEF Exec
<1>2. CASE stmt = "SELECT"
  <2>1. o \in ExecSelect(d)
    BY <1>2 DEF Exec
  <2>2. o.db = d
    BY <2>1, OutcomeFields DEF ExecSelect, MayFail
  <2>3. QED
    BY <2>2
<1>3. CASE stmt = "BEGIN"
  <2>1. o \in ExecBegin(d)
    BY <1>3 DEF Exec
  <2>2. QED
    BY <1>3, <2>1, BeginSettled
<1>4. CASE stmt = "COMMIT"
  <2>1. o \in ExecCommit(d)
    BY <1>4 DEF Exec
  <2>2. QED
    BY <1>4, <2>1, CommitSettled
<1>5. CASE stmt = "ROLLBACK"
  <2>1. o \in ExecRollback(d)
    BY <1>5 DEF Exec
  <2>2. QED
    BY <1>5, <2>1, RollbackSettled
<1>6. CASE stmt \in {"SAVEPOINT", "RELEASE", "ROLLBACK TO"}
  <2>1. o \in ExecSavepoint(d, n) \cup ExecRelease(d, n) \cup ExecRollbackTo(d, n)
    BY <1>6 DEF Exec
  <2>2. QED
    BY <1>6, <2>1, SavepointSettled
<1>7. QED
  BY <1>1, <1>2, <1>3, <1>4, <1>5, <1>6 DEF Statements
(* The formulas of the four action properties.                             *)
BegunLazily ==
  /\ ~dbh.AutoCommit
  /\ last'.call \in {"INSERT", "SELECT", "execute query"}
  /\ last'.ok
  => ~db'.autoCommit

CommittedAll ==
  /\ last'.call = "commit" /\ last'.ok
  /\ ~dbh.AutoCommit /\ db.writing = {}
  => db'.autoCommit /\ db'.disk = db.work

DiscardedAll ==
  last'.call = "rollback"
  => /\ last'.ok
     /\ db'.autoCommit
     /\ db'.disk = db.disk
     /\ db.writing = {} => db'.work = db.disk

RolledBackAtDisconnect ==
  last'.call = "disconnect" /\ ~dbh.AutoCommit /\ db.writing = {}
  => db'.disk = db.disk

CallKept ==
  Settled(db') /\ BegunLazily /\ CommittedAll /\ DiscardedAll /\ RolledBackAtDisconnect

LEMMA QuietCall ==
  ASSUME NEW call, NEW ok, Returned(call, ok), Settled(db'),
         call \notin {"INSERT", "SELECT", "execute query", "commit", "rollback",
                      "disconnect"}
  PROVE  CallKept
BY DEF Returned, CallKept, BegunLazily, CommittedAll, DiscardedAll,
       RolledBackAtDisconnect

LEMMA RunKept ==
  ASSUME IInv, Settled(db), NEW stmt \in Statements, NEW n, NEW w, NEW v,
         stmt = "INSERT" => w \in Writes,
         stmt \in {"SAVEPOINT", "RELEASE", "ROLLBACK TO"} => n \in Names,
         Run(stmt, n, w, v)
  PROVE  CallKept
<1>1. PICK b \in ImplicitBegin(db, stmt) :
        IF b.ok
          THEN \E o \in Exec(b.db, stmt, n, w) :
                 db' = o.db /\ Returned(stmt, o.ok)
          ELSE db' = b.db /\ Returned(stmt, FALSE)
  BY DEF Run
<1>2. GoodConnection(db) /\ Covered(db, asked)
  BY IInvGood
<1>3. /\ GoodConnection(b.db) /\ Settled(b.db)
      /\ b.ok /\ b.db.autoCommit => dbh.AutoCommit \/ StartsWithBegin(stmt)
  BY <1>2, ImplicitBeginSound, ImplicitBeginSettled DEF Sound
<1>4. PICK ok \in BOOLEAN :
        /\ Returned(stmt, ok) /\ Settled(db')
        /\ ok /\ ~b.db.autoCommit /\ stmt \in {"INSERT", "SELECT"} => ~db'.autoCommit
        /\ ok => b.ok
  <2>1. CASE b.ok
    <3>1. PICK o \in Exec(b.db, stmt, n, w) : db' = o.db /\ Returned(stmt, o.ok)
      BY <1>1, <2>1
    <3>2. /\ Settled(o.db)
          /\ stmt \in {"INSERT", "SELECT"} /\ o.ok /\ ~b.db.autoCommit
               => ~o.db.autoCommit
      BY <1>3, <3>1, ExecSettled
    <3>3. o.ok \in BOOLEAN
      <4>1. Covered(b.db, asked)
        BY <1>2, ImplicitBeginSound DEF Sound
      <4>2. QED
        BY <1>3, <3>1, <4>1, ExecSound DEF Sound
    <3>4. QED
      BY <2>1, <3>1, <3>2, <3>3
  <2>2. CASE ~b.ok
    BY <1>1, <1>3, <2>2
  <2>3. QED
    BY <2>1, <2>2
<1>5. last'.call = stmt /\ last'.ok = ok
  BY <1>4 DEF Returned
<1>6. BegunLazily
  BY <1>3, <1>4, <1>5 DEF BegunLazily, StartsWithBegin, Statements
<1>7. stmt \notin {"commit", "rollback", "disconnect"}
  BY DEF Statements
<1>8. QED
  BY <1>4, <1>5, <1>6, <1>7
     DEF CallKept, CommittedAll, DiscardedAll, RolledBackAtDisconnect

LEMMA FirstStepSettled ==
  ASSUME NEW d, GoodConnection(d), Settled(d), NEW h \in Handles, NEW w,
         h \in Returning => w \in Writes, NEW s \in FirstStep(d, h, w)
  PROVE  /\ Settled(s[1].db)
         /\ s[1].ok /\ ~d.autoCommit => ~s[1].db.autoCommit
<1>1. CASE h \in Returning
  <2>1. s[1] \in StepReturning(d, h, w)
    BY <1>1 DEF FirstStep
  <2>2. QED
    BY <1>1, <2>1, StepReturningSettled
<1>2. CASE h \notin Returning
  <2>1. s[1] \in ExecSelect(d)
    BY <1>2 DEF FirstStep
  <2>2. s[1].db = d
    BY <2>1, OutcomeFields DEF ExecSelect, MayFail
  <2>3. QED
    BY <2>2
<1>3. QED
  BY <1>1, <1>2

(* An execute of a query, up to its first row.                             *)
LEMMA QueryFailedKept ==
  ASSUME NEW h, NEW d, Settled(d), NEW c, QueryFailed(h, d, c)
  PROVE  CallKept
BY DEF QueryFailed, Returned, CallKept, BegunLazily, CommittedAll,
       DiscardedAll, RolledBackAtDisconnect

LEMMA QuerySteppedKept ==
  ASSUME NEW h, NEW w, NEW d, Settled(d), NEW c, QueryStepped(h, w, d, c),
         ~dbh.AutoCommit => ~d.autoCommit
  PROVE  CallKept
<1>1. /\ db' = d /\ last'.call = "execute query" /\ last'.ok
  BY DEF QueryStepped, Returned
<1>2. QED
  BY <1>1 DEF CallKept, BegunLazily, CommittedAll, DiscardedAll,
              RolledBackAtDisconnect

LEMMA ExecuteQueryKept ==
  ASSUME IInv, Settled(db), NEW h \in Handles, NEW w, h \in Returning => w \in Writes,
         ExecuteQuery(h, w)
  PROVE  CallKept
<1>1. PICK r \in ResetAtExecute(h) :
        IF r.ok THEN StepQuery(h, w, r.db) ELSE QueryFailed(h, r.db, "stale")
  BY DEF ExecuteQuery
<1>2. GoodConnection(db) /\ Covered(db, asked)
  BY IInvGood
<1>3. Sound(r, asked) /\ Settled(r.db)
  <2>1. CASE r = Failed(db)
    BY <1>2, <2>1, SoundIdle, OutcomeFields
  <2>2. CASE r \in Halt(db, h)
    BY <1>2, <2>2, HaltSound, HaltSettled
  <2>3. QED
    BY <1>1, <2>1, <2>2 DEF ResetAtExecute
<1>4. CASE r.ok
  <2>1. PICK b \in ImplicitBegin(r.db, "SELECT") :
          IF b.ok
            THEN \E s \in FirstStep(b.db, h, w) :
                   IF s[1].ok THEN QueryStepped(h, w, s[1].db, s[2])
                              ELSE QueryFailed(h, s[1].db, "stale")
            ELSE QueryFailed(h, b.db, "reset")
    BY <1>1, <1>4 DEF StepQuery
  <2>2. GoodConnection(r.db) /\ Covered(r.db, asked)
    BY <1>3 DEF Sound
  <2>3. /\ GoodConnection(b.db) /\ Settled(b.db)
        /\ b.ok /\ b.db.autoCommit => dbh.AutoCommit
    BY <1>3, <2>2, ImplicitBeginSound, ImplicitBeginSettled
       DEF Sound, StartsWithBegin
  <2>4. CASE b.ok
    <3>1. PICK s \in FirstStep(b.db, h, w) :
            IF s[1].ok THEN QueryStepped(h, w, s[1].db, s[2])
                       ELSE QueryFailed(h, s[1].db, "stale")
      BY <2>1, <2>4
    <3>2. /\ Settled(s[1].db)
          /\ s[1].ok /\ ~b.db.autoCommit => ~s[1].db.autoCommit
      BY <2>3, FirstStepSettled
    <3>3. QED
      BY <2>3, <2>4, <3>1, <3>2, QuerySteppedKept, QueryFailedKept
  <2>5. QED
    BY <2>1, <2>3, <2>4, QueryFailedKept
<1>5. QED
  BY <1>1, <1>3, <1>4, QueryFailedKept

LEMMA FetchKept ==
  ASSUME IInv, Settled(db), NEW h \in Handles, Fetch(h) \/ Finish(h)
  PROVE  CallKept
<1>1. GoodConnection(db)
  BY IInvGood
<1>2. \E o \in Halt(db, h) \cup {Done(db), Failed(db)} : db' = o.db
  BY OutcomeFields DEF Fetch, Finish, FinishHandle, MayFail
<1>3. Settled(db')
  BY <1>1, <1>2, HaltSettled, OutcomeFields
<1>4. \E call \in {"fetch", "finish"}, ok \in BOOLEAN : Returned(call, ok)
  <2>1. ASSUME NEW call \in {"fetch", "finish"}, FinishHandle(h, call)
        PROVE  \E ok \in BOOLEAN : Returned(call, ok)
    <3>1. PICK o \in Halt(db, h) : Returned(call, o.ok /\ sth[h] # "error")
      BY <2>1 DEF FinishHandle
    <3>2. (o.ok /\ sth[h] # "error") \in BOOLEAN
      OBVIOUS
    <3>3. QED
      BY <3>1, <3>2
  <2>2. CASE \E ok \in {TRUE, sth[h] = "reset"} : Returned("fetch", ok)
    BY <2>2
  <2>3. QED
    BY <2>1, <2>2 DEF Fetch, Finish
<1>5. QED
  BY <1>3, <1>4, QuietCall

LEMMA CommitKept ==
  ASSUME IInv, Settled(db), Commit
  PROVE  CallKept
<1>1. PICK o \in IF dbh.AutoCommit \/ db.autoCommit THEN {Done(db)}
                                                    ELSE ExecCommit(db) :
        db' = o.db /\ Returned("commit", o.ok)
  BY DEF Commit
<1>2. GoodConnection(db)
  BY IInvGood
<1>3. last'.call = "commit" /\ last'.ok = o.ok
  BY <1>1 DEF Returned
<1>4. CASE dbh.AutoCommit \/ db.autoCommit
  BY <1>1, <1>3, <1>4, OutcomeFields
     DEF CallKept, BegunLazily, CommittedAll, DiscardedAll,
         RolledBackAtDisconnect, Settled
<1>5. CASE ~(dbh.AutoCommit \/ db.autoCommit)
  <2>1. o \in ExecCommit(db)
    BY <1>1, <1>5
  <2>2. Settled(o.db) /\ (o.ok => o.db.autoCommit /\ o.db.disk = db.work)
    BY <1>2, <2>1, CommitSettled
  <2>3. QED
    BY <1>1, <1>3, <2>2
       DEF CallKept, BegunLazily, CommittedAll, DiscardedAll,
           RolledBackAtDisconnect
<1>6. QED
  BY <1>4, <1>5

LEMMA RollbackConnectionSettled ==
  ASSUME GoodConnection(db), Settled(db), NEW o \in RollbackConnection
  PROVE  /\ Settled(o.db) /\ o.ok /\ o.db.autoCommit /\ o.db.disk = db.disk
         /\ db.writing = {} => o.db.work = db.disk
<1>1. CASE db.autoCommit
  BY <1>1, OutcomeFields DEF RollbackConnection, Settled
<1>2. CASE ~db.autoCommit
  BY <1>2, RollbackSettled DEF RollbackConnection
<1>3. QED
  BY <1>1, <1>2

LEMMA RollbackKept ==
  ASSUME IInv, Settled(db), Rollback
  PROVE  CallKept
<1>1. PICK o \in RollbackConnection : db' = o.db /\ Returned("rollback", o.ok)
  BY DEF Rollback
<1>2. last'.call = "rollback" /\ last'.ok = o.ok
  BY <1>1 DEF Returned
<1>3. QED
  BY <1>1, <1>2, IInvGood, RollbackConnectionSettled
     DEF CallKept, BegunLazily, CommittedAll, DiscardedAll,
         RolledBackAtDisconnect

LEMMA DisconnectKept ==
  ASSUME IInv, Settled(db), Disconnect
  PROVE  CallKept
<1>1. PICK o \in IF dbh.AutoCommit THEN {Done(db)} ELSE RollbackConnection :
        db' \in Close(o.db)
  BY DEF Disconnect
<1>2. GoodConnection(db)
  BY IInvGood
<1>3. last'.call = "disconnect"
  BY DEF Disconnect, Returned
<1>4. \E c : db' = OpenConnection(c)
  BY <1>1 DEF Close
<1>5. Settled(db')
  BY <1>4 DEF Settled, OpenConnection
<1>6. ASSUME ~dbh.AutoCommit, db.writing = {}
      PROVE  db'.disk = db.disk
  <2>1. CASE db.autoCommit
    <3>1. o = Done(db)
      BY <1>1, <1>6, <2>1 DEF RollbackConnection
    <3>2. db' = OpenConnection(db.disk)
      BY <1>1, <1>6, <3>1, OutcomeFields DEF Close
    <3>3. QED
      BY <3>2 DEF OpenConnection
  <2>2. CASE ~db.autoCommit
    <3>1. o = Done(EndTransaction(RollbackAll(db)))
      BY <1>1, <1>6, <2>2 DEF RollbackConnection, ExecRollback
    <3>2. o.db.writing = {} /\ o.db.disk = db.disk
      <4>1. o.db = EndTransaction(RollbackAll(db))
        BY <3>1, OutcomeFields
      <4>2. RollbackAll(db).writing = db.writing /\ GoodConnection(RollbackAll(db))
        BY <1>2, RollbackAllGood DEF RollbackAll, GoodConnection, Connection
      <4>3. EndTransaction(RollbackAll(db)).writing = RollbackAll(db).writing
        BY <4>2 DEF EndTransaction, GoodConnection, Connection
      <4>4. QED
        BY <1>2, <1>6, <4>1, <4>2, <4>3, EndedFields
    <3>3. db' = OpenConnection(db.disk)
      BY <1>1, <3>2, OutcomeFields DEF Close
    <3>4. QED
      BY <3>3 DEF OpenConnection
  <2>3. QED
    BY <2>1, <2>2
<1>7. QED
  BY <1>3, <1>5, <1>6
     DEF CallKept, BegunLazily, CommittedAll, DiscardedAll,
         RolledBackAtDisconnect

LEMMA AutoCommitOnKept ==
  ASSUME IInv, Settled(db), AutoCommitOn
  PROVE  CallKept
<1>1. PICK o \in ExecCommit(db) \cup {Done(db)} :
        db' = o.db /\ Returned("AutoCommit=1", o.ok)
  BY DEF AutoCommitOn
<1>2. Settled(db')
  BY <1>1, IInvGood, CommitSettled, OutcomeFields
<1>3. QED
  BY <1>1, <1>2, QuietCall

LEMMA NextKept ==
  ASSUME IInv, Settled(db), Next
  PROVE  CallKept
<1>1. Fresh \subseteq Writes /\ Returning \subseteq Handles
  BY HandleAssumption DEF Fresh
<1>2. CASE \E on \in BOOLEAN : Connect(on)
  <2>1. db' = OpenConnection(db.disk) /\ Returned("connect", TRUE)
    BY <1>2 DEF Connect
  <2>2. OpenConnection(db.disk).work = OpenConnection(db.disk).disk
    BY DEF OpenConnection
  <2>3. QED
    BY <2>1, <2>2, QuietCall DEF Settled
<1>3. CASE BeginWork
  BY <1>3, QuietCall DEF BeginWork
<1>4. CASE AutoCommitOff
  BY <1>4, QuietCall DEF AutoCommitOff
<1>5. CASE \E v \in BOOLEAN, w \in Fresh : Run("INSERT", "", w, v)
  BY <1>1, <1>5, RunKept DEF Statements
<1>6. CASE \E v \in BOOLEAN, stmt \in {"SELECT", "BEGIN", "COMMIT", "ROLLBACK"} :
             Run(stmt, "", "", v)
  BY <1>6, RunKept DEF Statements
<1>7. CASE \E v \in BOOLEAN, n \in Names,
              stmt \in {"SAVEPOINT", "RELEASE", "ROLLBACK TO"} : Run(stmt, n, "", v)
  BY <1>7, RunKept DEF Statements
<1>8. CASE \E h \in Returning, w \in Fresh : ExecuteQuery(h, w)
  BY <1>1, <1>8, ExecuteQueryKept
<1>9. CASE \E h \in Handles \ Returning : ExecuteQuery(h, "")
  BY <1>9, ExecuteQueryKept
<1>10. CASE \E h \in Handles : Fetch(h) \/ Finish(h)
  BY <1>10, FetchKept
<1>11. QED
  BY <1>2, <1>3, <1>4, <1>5, <1>6, <1>7, <1>8, <1>9, <1>10, AutoCommitOnKept,
     CommitKept, RollbackKept, DisconnectKept DEF Next

LEMMA AlwaysKept == Spec => []Settled(db) /\ [][CallKept]_vars
<1>1. Init => Settled(db)
  BY DEF Init, OpenConnection, Settled
<1>2. IInv /\ Settled(db) /\ [Next]_vars => Settled(db)'
  <2>1. CASE Next
    BY <2>1, NextKept DEF CallKept
  <2>2. CASE UNCHANGED vars
    BY <2>2 DEF vars, Settled
  <2>3. QED
    BY <2>1, <2>2
<1>3. IInv /\ Settled(db) /\ [Next]_vars => [CallKept]_vars
  BY NextKept
<1>4. QED
  BY <1>1, <1>2, <1>3, Invariance, PTL DEF Spec

(* Whatever has failed before: with AutoCommit off, do and execute leave   *)
(* a transaction open whenever their statement succeeds.                   *)
THEOREM LazyBeginHolds == Spec => LazyBegin
<1>1. [CallKept]_vars => [BegunLazily]_vars
  BY DEF CallKept
<1>2. QED
  BY <1>1, AlwaysKept, PTL DEF LazyBegin, BegunLazily

(* A commit() that succeeds has made durable all that the connection could *)
(* see, the refused commits before it notwithstanding.                     *)
THEOREM CommitIsComplete == Spec => CommitMakesDurable
<1>1. [CallKept]_vars => [CommittedAll]_vars
  BY DEF CallKept
<1>2. QED
  BY <1>1, AlwaysKept, PTL DEF CommitMakesDurable, CommittedAll

(* rollback() gives the file's contents back even when the flags have lost *)
(* track of the transaction.                                               *)
THEOREM RollbackIsComplete == Spec => RollbackDiscards
<1>1. [CallKept]_vars => [DiscardedAll]_vars
  BY DEF CallKept
<1>2. QED
  BY <1>1, AlwaysKept, PTL DEF RollbackDiscards, DiscardedAll

(* A handle given up with AutoCommit off leaves the file as it was.        *)
THEOREM DisconnectIsRollback == Spec => DisconnectRollsBack
<1>1. [CallKept]_vars => [RolledBackAtDisconnect]_vars
  BY DEF CallKept
<1>2. QED
  BY <1>1, AlwaysKept, PTL DEF DisconnectRollsBack, RolledBackAtDisconnect

-----------------------------------------------------------------------------
(* The handle keeps TxnContract: its flags agree with the engine, what it  *)
(* promised is in the file, and every call is a step of the contract or    *)
(* none.                                                                   *)
(*                                                                         *)
(* This fails when a COMMIT may be refused (the driver hands AutoCommit    *)
(* back all the same), when AutoCommit is set after begin_work, and while  *)
(* an INSERT ... RETURNING is unfinished, which is why CoherentAssumption  *)
(* excludes them.                                                          *)
(*                                                                         *)
(* The engine never loses a committed row (Whole), and the handle claims   *)
(* auto-commit mode only if the engine is in it (Flagged).  One lemma per  *)
(* engine call says which of three things it does to the contents: nothing *)
(* new is kept (Undone), all of it is made durable (Committed), or a row   *)
(* is added.  One lemma for each of the three then turns it into a step of *)
(* the contract.                                                           *)

CoherentAssumption ==
  /\ Returning = {}
  /\ Hazards \cap {"CommitBusy", "StoreInBegunWork"} = {}

(* The file, the savepoints and the connection's view are nested in one    *)
(* another; outside a transaction the view is the file.                    *)
Whole(d) ==
  /\ d.writing = {}
  /\ d.disk \subseteq d.work
  /\ d.autoCommit => d.work = d.disk
  /\ \A i \in DOMAIN d.pSavepoint :
       d.disk \subseteq d.pSavepoint[i].saved /\ d.pSavepoint[i].saved \subseteq d.work
  /\ \A i, j \in DOMAIN d.pSavepoint :
       i <= j => d.pSavepoint[i].saved \subseteq d.pSavepoint[j].saved

Flagged(f, d) ==
  /\ f.AutoCommit => ~f.BegunWork
  /\ f.AutoCommit \/ ~f.Active => d.autoCommit

(* What an engine call did to the contents.                                *)
Undone(d, e)    == e.disk = d.disk /\ e.work \subseteq d.work
Committed(d, e) == e.disk = d.work /\ e.work = d.work /\ e.autoCommit

-----------------------------------------------------------------------------
(* The engine.                                                             *)

LEMMA RolledBack ==
  ASSUME NEW d, GoodConnection(d), Whole(d),
         NEW e, e = EndTransaction(RollbackAll(d)) \/ (d.autoCommit /\ e = RollbackAll(d))
  PROVE  Whole(e) /\ Undone(d, e) /\ e.autoCommit /\ e.work = e.disk
<1>1. /\ RollbackAll(d).disk = d.disk /\ RollbackAll(d).work = d.disk
      /\ RollbackAll(d).writing = d.writing
      /\ RollbackAll(d).autoCommit = d.autoCommit
      /\ RollbackAll(d).pSavepoint = d.pSavepoint
      /\ GoodConnection(RollbackAll(d))
  BY RollbackAllGood DEF GoodConnection, Connection, RollbackAll
<1>2. CASE e = RollbackAll(d) /\ d.autoCommit
  <2>1. d.pSavepoint = <<>>
    BY <1>2 DEF GoodConnection
  <2>2. QED
    BY <1>1, <1>2, <2>1 DEF Whole, Undone
<1>3. CASE e = EndTransaction(RollbackAll(d))
  <2> DEFINE r == RollbackAll(d)
  <2> HIDE DEF r
  <2>1. GoodConnection(r) /\ e = EndTransaction(r)
    BY <1>1, <1>3 DEF r
  <2>2. /\ e.disk = r.disk /\ e.work = r.work /\ e.writing = r.writing
        /\ e.autoCommit /\ e.pSavepoint = <<>>
    BY <2>1 DEF EndTransaction, GoodConnection, Connection
  <2>3. r.disk = d.disk /\ r.work = d.disk /\ r.writing = d.writing
    BY <1>1 DEF r
  <2>4. QED
    BY <2>2, <2>3 DEF Whole, Undone
<1>4. QED
  BY <1>2, <1>3

LEMMA MadeDurable ==
  ASSUME NEW d, GoodConnection(d), Whole(d),
         NEW e, e = EndTransaction(MakeDurable(d)) \/ (d.autoCommit /\ e = MakeDurable(d))
  PROVE  Whole(e) /\ Committed(d, e)
<1>1. /\ MakeDurable(d).disk = d.work /\ MakeDurable(d).work = d.work
      /\ MakeDurable(d).writing = d.writing
      /\ MakeDurable(d).autoCommit = d.autoCommit
      /\ MakeDurable(d).pSavepoint = d.pSavepoint
      /\ GoodConnection(MakeDurable(d))
  BY DurableGood DEF GoodConnection, Connection, MakeDurable
<1>2. CASE e = MakeDurable(d) /\ d.autoCommit
  <2>1. d.pSavepoint = <<>>
    BY <1>2 DEF GoodConnection
  <2>2. QED
    BY <1>1, <1>2, <2>1 DEF Whole, Committed
<1>3. CASE e = EndTransaction(MakeDurable(d))
  <2> DEFINE r == MakeDurable(d)
  <2> HIDE DEF r
  <2>1. GoodConnection(r) /\ e = EndTransaction(r)
    BY <1>1, <1>3 DEF r
  <2>2. /\ e.disk = r.disk /\ e.work = r.work /\ e.writing = r.writing
        /\ e.autoCommit /\ e.pSavepoint = <<>>
    BY <2>1 DEF EndTransaction, GoodConnection, Connection
  <2>3. r.disk = d.work /\ r.work = d.work /\ r.writing = d.writing
    BY <1>1 DEF r
  <2>4. QED
    BY <2>2, <2>3 DEF Whole, Committed
<1>4. QED
  BY <1>2, <1>3

LEMMA IdleCall ==
  ASSUME NEW d, Whole(d)
  PROVE  /\ Whole(Done(d).db) /\ Undone(d, Done(d).db) /\ Done(d).db = d /\ Done(d).ok
         /\ Whole(Failed(d).db) /\ Undone(d, Failed(d).db) /\ Failed(d).db = d
         /\ ~Failed(d).ok
BY DEF Done, Failed, Undone

LEMMA BeginWhole ==
  ASSUME NEW d, GoodConnection(d), Whole(d), NEW o \in ExecBegin(d)
  PROVE  /\ Whole(o.db) /\ o.db.disk = d.disk /\ o.db.work = d.work
         /\ o.ok => ~o.db.autoCommit
         /\ ~o.ok => o.db = d
<1> DEFINE e == [d EXCEPT !.autoCommit = FALSE]
<1>1. CASE o = Done(e)
  <2>1. /\ e.disk = d.disk /\ e.work = d.work /\ e.writing = d.writing
        /\ e.pSavepoint = d.pSavepoint /\ e.autoCommit = FALSE
    BY DEF GoodConnection, Connection
  <2>2. o.db = e /\ o.ok
    BY <1>1 DEF Done
  <2> HIDE DEF e
  <2>3. QED
    BY <2>1, <2>2 DEF Whole
<1>2. CASE o = Failed(d)
  BY <1>2 DEF Failed
<1>3. QED
  BY <1>1, <1>2 DEF ExecBegin, MayFail

(* What a COMMIT, or a RELEASE that commits, may do.                       *)
LEMMA CommitWhole ==
  ASSUME CoherentAssumption, NEW d, GoodConnection(d), Whole(d),
         NEW o \in ExecCommit(d)
  PROVE  /\ Whole(o.db)
         /\ o.ok => Committed(d, o.db) /\ ~d.autoCommit
         /\ ~o.ok => Undone(d, o.db)
         /\ o.db.autoCommit
<1>1. CASE d.autoCommit
  <2>1. o = Failed(d)
    BY <1>1 DEF ExecCommit
  <2>2. QED
    BY <1>1, <2>1, IdleCall
<1>2. CASE ~d.autoCommit
  <2>1. d.writing = {} /\ "CommitBusy" \notin Hazards
    BY DEF Whole, CoherentAssumption
  <2>2. \/ o = Done(EndTransaction(MakeDurable(d)))
        \/ o = Failed(EndTransaction(RollbackAll(d)))
    BY <1>2, <2>1 DEF ExecCommit, MayFail
  <2>3. CASE o = Done(EndTransaction(MakeDurable(d)))
    BY <1>2, <2>3, MadeDurable DEF Done, Committed
  <2>4. CASE o = Failed(EndTransaction(RollbackAll(d)))
    BY <1>2, <2>4, RolledBack DEF Failed
  <2>5. QED
    BY <2>2, <2>3, <2>4
<1>3. QED
  BY <1>1, <1>2

LEMMA RollbackWhole ==
  ASSUME NEW d, GoodConnection(d), Whole(d), NEW o \in ExecRollback(d)
  PROVE  Whole(o.db) /\ Undone(d, o.db) /\ o.db.autoCommit
<1>1. CASE d.autoCommit
  <2>1. o = Failed(d)
    BY <1>1 DEF ExecRollback
  <2>2. QED
    BY <1>1, <2>1, IdleCall
<1>2. CASE ~d.autoCommit
  <2>1. o = Done(EndTransaction(RollbackAll(d)))
    BY <1>2 DEF ExecRollback
  <2>2. o.db = EndTransaction(RollbackAll(d))
    BY <2>1 DEF Done
  <2>3. QED
    BY <2>2, RolledBack
<1>3. QED
  BY <1>1, <1>2

LEMMA SavepointWhole ==
  ASSUME NEW d, GoodConnection(d), Whole(d), NEW n \in Names,
         NEW o \in ExecSavepoint(d, n)
  PROVE  /\ Whole(o.db) /\ Undone(d, o.db)
         /\ o.ok /\ ~o.db.autoCommit
<1> DEFINE sp == [name |-> n, saved |-> d.work]
           ts == d.isTransactionSavepoint \/ d.autoCommit
           s  == d.pSavepoint
           e  == [d EXCEPT !.autoCommit = FALSE, !.isTransactionSavepoint = ts,
                           !.pSavepoint = Append(@, sp)]
<1>1. s \in Seq(Savepoint) /\ sp \in Savepoint /\ d.work \in SUBSET Writes
  BY DEF Savepoint, GoodConnection, Connection
<1>2. /\ e.disk = d.disk /\ e.work = d.work /\ e.writing = d.writing
      /\ e.autoCommit = FALSE /\ e.pSavepoint = Append(s, sp)
  BY DEF GoodConnection, Connection
<1>3. o = Done(e)
  BY DEF ExecSavepoint, Whole
<1>4. /\ DOMAIN Append(s, sp) = 1 .. (Len(s) + 1) /\ DOMAIN s = 1 .. Len(s)
      /\ \A i \in 1 .. Len(s) : Append(s, sp)[i] = s[i]
      /\ Append(s, sp)[Len(s) + 1] = sp /\ Len(s) \in Nat
  BY <1>1
<1>5. /\ d.disk \subseteq d.work
      /\ \A i \in 1 .. Len(s) : d.disk \subseteq s[i].saved /\ s[i].saved \subseteq d.work
      /\ \A i, j \in 1 .. Len(s) : i <= j => s[i].saved \subseteq s[j].saved
  BY <1>4 DEF Whole
<1>6. sp.saved = d.work
  OBVIOUS
<1>7. Whole(e)
  <2> DEFINE t == Append(s, sp)
  <2> HIDE DEF t, sp, e
  <2>1. \A i \in 1 .. (Len(s) + 1) : i \in 1 .. Len(s) \/ i = Len(s) + 1
    BY <1>4
  <2>2. \A i \in 1 .. (Len(s) + 1) :
          d.disk \subseteq t[i].saved /\ t[i].saved \subseteq d.work
    BY <1>4, <1>5, <1>6, <2>1 DEF t
  <2>3. \A i, j \in 1 .. (Len(s) + 1) : i <= j => t[i].saved \subseteq t[j].saved
    <3> TAKE i, j \in 1 .. (Len(s) + 1)
    <3> HAVE i <= j
    <3>1. CASE j \in 1 .. Len(s)
      <4>1. i \in 1 .. Len(s)
        BY <1>4, <3>1
      <4>2. QED
        BY <1>4, <1>5, <3>1, <4>1 DEF t
    <3>2. CASE j = Len(s) + 1
      <4>1. t[j].saved = d.work
        BY <1>4, <1>6, <3>2 DEF t
      <4>2. QED
        BY <2>2, <4>1
    <3>3. QED
      BY <2>1, <3>1, <3>2
  <2>4. e.pSavepoint = t /\ DOMAIN t = 1 .. (Len(s) + 1)
    BY <1>2, <1>4 DEF t
  <2>5. e.writing = {} /\ e.disk \subseteq e.work /\ ~e.autoCommit
    BY <1>2 DEF Whole
  <2>6. QED
    BY <1>2, <2>2, <2>3, <2>4, <2>5 DEF Whole
<1>8. o.db = e /\ o.ok
  BY <1>3 DEF Done
<1>9. QED
  <2> HIDE DEF e
  <2> QED BY <1>2, <1>7, <1>8 DEF Undone

(* A stack cut back to its first m entries.                                *)
LEMMA CutWhole ==
  ASSUME NEW d, GoodConnection(d), Whole(d), ~d.autoCommit,
         NEW m \in 0 .. Len(d.pSavepoint),
         NEW e, e.disk = d.disk, e.writing = d.writing, e.autoCommit = d.autoCommit,
         e.pSavepoint = SubSeq(d.pSavepoint, 1, m),
         \/ e.work = d.work
         \/ m # 0 /\ e.work = d.pSavepoint[m].saved
  PROVE  Whole(e) /\ Undone(d, e)
<1> DEFINE s == d.pSavepoint
           t == SubSeq(s, 1, m)
<1>1. s \in Seq(Savepoint)
  BY DEF GoodConnection, Connection
<1>2. /\ DOMAIN s = 1 .. Len(s) /\ DOMAIN t = 1 .. m
      /\ \A i \in 1 .. m : t[i] = s[i] /\ i \in 1 .. Len(s)
      /\ m # 0 => m \in 1 .. Len(s)
  BY <1>1
<1>3. /\ d.writing = {} /\ d.disk \subseteq d.work
      /\ \A i \in 1 .. Len(s) : d.disk \subseteq s[i].saved /\ s[i].saved \subseteq d.work
      /\ \A i, j \in 1 .. Len(s) : i <= j => s[i].saved \subseteq s[j].saved
  BY <1>2 DEF Whole
<1> HIDE DEF s, t
<1>4. d.disk \subseteq e.work /\ e.work \subseteq d.work
  BY <1>2, <1>3 DEF s
<1>5. \A i \in 1 .. m : t[i].saved \subseteq e.work
  <2>1. CASE e.work = d.work
    BY <1>2, <1>3, <2>1
  <2>2. CASE m # 0 /\ e.work = s[m].saved
    <3>1. \A i \in 1 .. m : i <= m
      OBVIOUS
    <3>2. QED
      BY <1>2, <1>3, <2>2, <3>1
  <2>3. QED
    BY <2>1, <2>2 DEF s
<1>6. e.pSavepoint = t
  BY DEF t, s
<1>7. QED
  BY <1>2, <1>3, <1>4, <1>5, <1>6 DEF Whole, Undone

LEMMA RollbackToWhole ==
  ASSUME NEW d, GoodConnection(d), Whole(d), NEW n \in Names,
         NEW o \in ExecRollbackTo(d, n)
  PROVE  Whole(o.db) /\ Undone(d, o.db) /\ o.db.autoCommit = d.autoCommit
<1> DEFINE s == d.pSavepoint
           m == Innermost(d, n)
           e == [d EXCEPT !.pSavepoint = SubSeq(@, 1, m), !.work = s[m].saved]
<1>1. CASE Named(d, n) = {}
  <2>1. o = Failed(d)
    BY <1>1 DEF ExecRollbackTo
  <2>2. QED
    BY <2>1, IdleCall
<1>2. CASE Named(d, n) # {}
  <2>1. s \in Seq(Savepoint) /\ m \in 1 .. Len(s) /\ ~d.autoCommit
    BY <1>2, InnermostInStack
  <2>2. /\ e.disk = d.disk /\ e.writing = d.writing /\ e.autoCommit = d.autoCommit
        /\ e.pSavepoint = SubSeq(s, 1, m) /\ e.work = s[m].saved
    BY DEF GoodConnection, Connection
  <2>3. o = Done(e)
    BY <1>2 DEF ExecRollbackTo
  <2>4. o.db = e
    BY <2>3 DEF Done
  <2>5. m \in 0 .. Len(s) /\ m # 0
    BY <2>1
  <2> HIDE DEF e, m, s
  <2>6. Whole(e) /\ Undone(d, e)
    BY <2>1, <2>2, <2>5, CutWhole DEF s
  <2>7. QED
    BY <2>2, <2>4, <2>6
<1>3. QED
  BY <1>1, <1>2

LEMMA ReleaseWhole ==
  ASSUME CoherentAssumption, NEW d, GoodConnection(d), Whole(d), NEW n \in Names,
         NEW o \in ExecRelease(d, n)
  PROVE  /\ Whole(o.db)
         /\ o.ok /\ ReleaseCommits(d, n) => Committed(d, o.db) /\ ~d.autoCommit
         /\ ~(o.ok /\ ReleaseCommits(d, n)) =>
              Undone(d, o.db) /\ o.db.autoCommit = d.autoCommit
<1> DEFINE s     == d.pSavepoint
           m     == Innermost(d, n)
           stack == [i \in DOMAIN s |-> [name |-> s[i].name, saved |-> d.disk]]
           left  == [RollbackAll(d) EXCEPT !.pSavepoint = stack]
           cut   == [d EXCEPT !.pSavepoint = SubSeq(@, 1, m - 1)]
<1>1. d.writing = {} /\ "CommitBusy" \notin Hazards
  BY DEF Whole, CoherentAssumption
<1>2. CASE Named(d, n) = {}
  <2>1. o = Failed(d)
    BY <1>2 DEF ExecRelease
  <2>2. QED
    BY <2>1, IdleCall
<1>3. CASE Named(d, n) # {} /\ ReleaseCommits(d, n)
  <2>1. o = Done(EndTransaction(MakeDurable(d))) \/ o = Failed(left)
    BY <1>1, <1>3 DEF ExecRelease, MayFail
  <2>2. s \in Seq(Savepoint) /\ ~d.autoCommit
    BY <1>3, InnermostInStack
  <2>3. CASE o = Done(EndTransaction(MakeDurable(d)))
    BY <1>3, <2>2, <2>3, MadeDurable DEF Done
  <2>4. CASE o = Failed(left)
    <3>1. /\ left.disk = d.disk /\ left.work = d.disk /\ left.writing = d.writing
          /\ left.autoCommit = d.autoCommit /\ left.pSavepoint = stack
      <4> HIDE DEF stack
      <4> QED BY DEF GoodConnection, Connection, RollbackAll
    <3>2. DOMAIN stack = DOMAIN s /\ \A i \in DOMAIN stack : stack[i].saved = d.disk
      OBVIOUS
    <3> HIDE DEF left, stack
    <3>3. Whole(left) /\ Undone(d, left)
      BY <2>2, <3>1, <3>2 DEF Whole, Undone
    <3>4. o.db = left /\ ~o.ok
      BY <2>4 DEF Failed
    <3>5. QED
      BY <3>1, <3>3, <3>4
  <2>5. QED
    BY <2>1, <2>3, <2>4
<1>4. CASE Named(d, n) # {} /\ ~ReleaseCommits(d, n)
  <2>1. s \in Seq(Savepoint) /\ m \in 1 .. Len(s) /\ ~d.autoCommit
    BY <1>4, InnermostInStack
  <2>2. /\ cut.disk = d.disk /\ cut.writing = d.writing /\ cut.autoCommit = d.autoCommit
        /\ cut.pSavepoint = SubSeq(s, 1, m - 1) /\ cut.work = d.work
    BY DEF GoodConnection, Connection
  <2>3. o = Done(cut)
    BY <1>1, <1>4 DEF ExecRelease
  <2>4. o.db = cut
    BY <2>3 DEF Done
  <2>5. m - 1 \in 0 .. Len(s)
    BY <2>1
  <2> HIDE DEF cut, m, s
  <2>6. Whole(cut) /\ Undone(d, cut)
    BY <2>1, <2>2, <2>5, CutWhole DEF s
  <2>7. QED
    BY <1>4, <2>2, <2>4, <2>6
<1>5. QED
  BY <1>2, <1>3, <1>4

LEMMA HaltFailedWhole ==
  ASSUME NEW d, GoodConnection(d), Whole(d), NEW o \in HaltFailed(d)
  PROVE  /\ Whole(o.db) /\ Undone(d, o.db) /\ ~o.ok
         /\ d.autoCommit => o.db.autoCommit
<1>1. CASE o = Failed(d)
  BY <1>1, IdleCall
<1>2. CASE o = Failed(EndTransaction(RollbackAll(d)))
  BY <1>2, RolledBack DEF Failed
<1>3. QED
  BY <1>1, <1>2 DEF HaltFailed, MayFail

(* What an INSERT did when it succeeded: the row is in the file at once,   *)
(* or waits together with the others.                                      *)
Inserted(d, e, w) ==
  /\ e.work = d.work \cup {w}
  /\ e.disk = IF d.autoCommit THEN e.work ELSE d.disk
  /\ e.autoCommit = d.autoCommit

LEMMA InsertWhole ==
  ASSUME NEW d, GoodConnection(d), Whole(d), NEW w \in Writes,
         NEW o \in ExecInsert(d, w)
  PROVE  /\ Whole(o.db)
         /\ o.ok => Inserted(d, o.db, w)
         /\ ~o.ok => Undone(d, o.db) /\ (d.autoCommit => o.db.autoCommit)
<1> DEFINE e == [d EXCEPT !.work = @ \cup {w}]
<1>1. /\ e.work = d.work \cup {w} /\ e.disk = d.disk /\ e.writing = d.writing
      /\ e.autoCommit = d.autoCommit /\ e.pSavepoint = d.pSavepoint
      /\ GoodConnection(e)
  BY DEF GoodConnection, Connection
<1>2. d.writing = {} /\ d.disk \subseteq d.work
  BY DEF Whole
<1> HIDE DEF e
<1>3. CASE o \in HaltWriter(e) /\ d.autoCommit
  <2>1. d.pSavepoint = <<>> /\ d.work = d.disk
    BY <1>3 DEF GoodConnection, Whole
  <2>2. o = Done(MakeDurable(e)) \/ o = Failed(RollbackAll(e))
    BY <1>1, <1>2, <1>3 DEF HaltWriter, MayFail
  <2>3. CASE o = Done(MakeDurable(e))
    <3> DEFINE r == MakeDurable(e)
    <3>1. /\ r.disk = e.work /\ r.work = e.work /\ r.writing = e.writing
          /\ r.autoCommit = e.autoCommit /\ r.pSavepoint = e.pSavepoint
      BY <1>1 DEF GoodConnection, Connection, MakeDurable
    <3>2. o.db = r /\ o.ok
      BY <2>3 DEF Done
    <3> HIDE DEF r
    <3>3. Whole(r)
      BY <1>1, <1>2, <1>3, <2>1, <3>1 DEF Whole
    <3>4. Inserted(d, r, w)
      BY <1>1, <1>3, <3>1, Zenon DEF Inserted
    <3>5. QED
      BY <3>2, <3>3, <3>4
  <2>4. CASE o = Failed(RollbackAll(e))
    <3> DEFINE r == RollbackAll(e)
    <3>1. /\ r.disk = e.disk /\ r.work = e.disk /\ r.writing = e.writing
          /\ r.autoCommit = e.autoCommit /\ r.pSavepoint = e.pSavepoint
      BY <1>1 DEF GoodConnection, Connection, RollbackAll
    <3>2. o.db = r /\ ~o.ok
      BY <2>4 DEF Failed
    <3> HIDE DEF r
    <3>3. Whole(r) /\ Undone(d, r) /\ r.autoCommit
      BY <1>1, <1>2, <1>3, <2>1, <3>1 DEF Whole, Undone
    <3>4. QED
      BY <3>2, <3>3
  <2>5. QED
    BY <2>2, <2>3, <2>4
<1>4. CASE o \in HaltWriter(e) /\ ~d.autoCommit
  <2>1. o = Done(e)
    BY <1>1, <1>4 DEF HaltWriter
  <2>2. Whole(e)
    BY <1>1, <1>4 DEF Whole
  <2>3. Inserted(d, e, w)
    BY <1>1, <1>4 DEF Inserted
  <2>4. o.db = e /\ o.ok
    BY <2>1 DEF Done
  <2>5. QED
    BY <2>2, <2>3, <2>4
<1>5. CASE o \in HaltFailed(d)
  BY <1>5, HaltFailedWhole
<1>6. QED
  BY <1>3, <1>4, <1>5 DEF ExecInsert, e

LEMMA SelectWhole ==
  ASSUME NEW d, NEW o \in ExecSelect(d)
  PROVE  o.db = d
BY DEF ExecSelect, MayFail, Done, Failed

(* No writing statement is unfinished: a halt changes nothing, a close     *)
(* leaves the file.                                                        *)
LEMMA HaltWhole ==
  ASSUME NEW d, Whole(d), NEW h, NEW o \in Halt(d, h)
  PROVE  o = Done(d)
BY DEF Halt, Whole

LEMMA CloseWhole ==
  ASSUME NEW d, Whole(d), NEW c \in Close(d)
  PROVE  c = OpenConnection(d.disk)
BY DEF Close, Whole, Done

LEMMA OpenWhole ==
  ASSUME NEW c, NEW e, e = OpenConnection(c)
  PROVE  Whole(e) /\ e.disk = c /\ e.work = c /\ e.autoCommit
BY DEF OpenConnection, Whole

-----------------------------------------------------------------------------
(* What any statement without result columns does.                         *)

CommitsAll(d, stmt, n) == stmt = "COMMIT" \/ (stmt = "RELEASE" /\ ReleaseCommits(d, n))

LEMMA ExecWhole ==
  ASSUME CoherentAssumption, NEW d, GoodConnection(d), Whole(d),
         NEW stmt \in Statements, NEW n, NEW w,
         stmt = "INSERT" => w \in Writes,
         stmt \in {"SAVEPOINT", "RELEASE", "ROLLBACK TO"} => n \in Names,
         NEW o \in Exec(d, stmt, n, w)
  PROVE  /\ Whole(o.db)
         /\ o.ok /\ stmt = "INSERT" => Inserted(d, o.db, w)
         /\ o.ok /\ CommitsAll(d, stmt, n) => Committed(d, o.db) /\ ~d.autoCommit
         /\ ~(o.ok /\ (stmt = "INSERT" \/ CommitsAll(d, stmt, n))) => Undone(d, o.db)
         /\ d.autoCommit /\ ~StartsWithBegin(stmt) => o.db.autoCommit
         /\ stmt = "SELECT" => o.db = d
         /\ o.ok /\ stmt \notin {"COMMIT", "ROLLBACK", "RELEASE"} /\ ~d.autoCommit
              => ~o.db.autoCommit
         /\ StartsWithBegin(stmt) /\ o.ok => ~o.db.autoCommit
<1>1. CASE stmt = "INSERT"
  <2>1. o \in ExecInsert(d, w)
    BY <1>1 DEF Exec
  <2>2. QED
    BY <1>1, <2>1, InsertWhole DEF Inserted, StartsWithBegin, CommitsAll
<1>2. CASE stmt = "SELECT"
  <2>1. o \in ExecSelect(d)
    BY <1>2 DEF Exec
  <2>2. QED
    BY <1>2, <2>1, SelectWhole DEF StartsWithBegin, CommitsAll, Undone
<1>3. CASE stmt = "BEGIN"
  <2>1. o \in ExecBegin(d)
    BY <1>3 DEF Exec
  <2>2. QED
    BY <1>3, <2>1, BeginWhole DEF StartsWithBegin, CommitsAll, Undone
<1>4. CASE stmt = "COMMIT"
  <2>1. o \in ExecCommit(d)
    BY <1>4 DEF Exec
  <2>2. QED
    BY <1>4, <2>1, CommitWhole DEF StartsWithBegin, CommitsAll
<1>5. CASE stmt = "ROLLBACK"
  <2>1. o \in ExecRollback(d)
    BY <1>5 DEF Exec
  <2>2. QED
    BY <1>5, <2>1, RollbackWhole DEF StartsWithBegin, CommitsAll
<1>6. CASE stmt = "SAVEPOINT"
  <2>1. o \in ExecSavepoint(d, n) /\ n \in Names
    BY <1>6 DEF Exec
  <2>2. QED
    BY <1>6, <2>1, SavepointWhole DEF StartsWithBegin, CommitsAll
<1>7. CASE stmt = "RELEASE"
  <2>1. o \in ExecRelease(d, n) /\ n \in Names
    BY <1>7 DEF Exec
  <2>2. QED
    BY <1>7, <2>1, ReleaseWhole DEF StartsWithBegin, CommitsAll, Committed
<1>8. CASE stmt = "ROLLBACK TO"
  <2>1. o \in ExecRollbackTo(d, n) /\ n \in Names
    BY <1>8 DEF Exec
  <2>2. QED
    BY <1>8, <2>1, RollbackToWhole DEF StartsWithBegin, CommitsAll
<1>9. QED
  BY <1>1, <1>2, <1>3, <1>4, <1>5, <1>6, <1>7, <1>8 DEF Statements

(* The driver's BEGIN, which is issued only with AutoCommit off.           *)
LEMMA ImplicitBeginWhole ==
  ASSUME NEW d, GoodConnection(d), Whole(d), NEW stmt, NEW b \in ImplicitBegin(d, stmt),
         dbh.AutoCommit => d.autoCommit
  PROVE  /\ Whole(b.db) /\ b.db.disk = d.disk /\ b.db.work = d.work
         /\ dbh.AutoCommit \/ ~b.ok => b.db = d
         /\ b.ok /\ ~dbh.AutoCommit => ~b.db.autoCommit \/ StartsWithBegin(stmt)
         /\ b.ok /\ StartsWithBegin(stmt) => b.db = d
<1>1. CASE d.autoCommit /\ ~StartsWithBegin(stmt) /\ ~dbh.AutoCommit
  <2>1. b \in ExecBegin(d)
    BY <1>1 DEF ImplicitBegin
  <2>2. QED
    BY <1>1, <2>1, BeginWhole
<1>2. CASE ~(d.autoCommit /\ ~StartsWithBegin(stmt) /\ ~dbh.AutoCommit)
  <2>1. b = Done(d)
    BY <1>2 DEF ImplicitBegin
  <2>2. QED
    BY <1>2, <2>1, IdleCall
<1>3. QED
  BY <1>1, <1>2

-----------------------------------------------------------------------------
(* Steps of the contract.                                                  *)

Agreed ==
  /\ IInv
  /\ Whole(db)
  /\ asked \subseteq db.disk
  /\ Flagged(dbh, db)

ContractStep == [Contract!Next]_(Contract!vars)

(* A call that keeps nothing new: nothing in auto-commit mode, where       *)
(* nothing waits, but it may leave that mode; a loss of what waited in the *)
(* other.                                                                  *)
LEMMA UndoneStep ==
  ASSUME Agreed, dbh' \in Flags, dbh.Active, dbh'.Active,
         Whole(db'), Undone(db, db'), Flagged(dbh', db')
  PROVE  ContractStep
<1>1. /\ db'.disk = db.disk /\ db'.work \subseteq db.work
      /\ db'.disk \subseteq db'.work
      /\ db'.autoCommit => db'.work = db'.disk
      /\ db.autoCommit => db.work = db.disk
  BY DEF Undone, Whole, Agreed
<1>2. /\ dbh.AutoCommit \in BOOLEAN /\ dbh'.AutoCommit \in BOOLEAN
      /\ dbh.Active = TRUE /\ dbh'.Active = TRUE
      /\ dbh.AutoCommit => db.autoCommit
      /\ dbh'.AutoCommit => db'.autoCommit
  BY IInvGood DEF Flags, Agreed, Flagged
<1>3. CASE dbh.AutoCommit
  <2>1. db'.disk = db.disk /\ db'.work \ db'.disk = db.work \ db.disk
    BY <1>1, <1>2, <1>3
  <2>2. CASE dbh'.AutoCommit
    <3>1. Contract!vars' = Contract!vars
      BY <1>2, <1>3, <2>1, <2>2 DEF Contract!vars
    <3>2. QED
      BY <3>1 DEF ContractStep
  <2>3. CASE ~dbh'.AutoCommit
    <3>1. Contract!Enter
      BY <1>2, <1>3, <2>1, <2>3 DEF Contract!Enter
    <3>2. QED
      BY <3>1 DEF ContractStep, Contract!Next
  <2>4. QED
    BY <2>2, <2>3
<1>4. CASE ~dbh.AutoCommit
  <2>1. /\ db'.work \ db'.disk \in SUBSET (db.work \ db.disk)
        /\ dbh'.AutoCommit => db'.work \ db'.disk = {}
    BY <1>1, <1>2
  <2>2. Contract!Discard
    BY <1>1, <1>2, <1>4, <2>1 DEF Contract!Discard
  <2>3. QED
    BY <2>2 DEF ContractStep, Contract!Next
<1>5. QED
  BY <1>3, <1>4

(* Everything that waits becomes durable.                                  *)
LEMMA CommittedStep ==
  ASSUME Agreed, dbh' \in Flags, dbh.Active, dbh'.Active, ~dbh.AutoCommit,
         Committed(db, db')
  PROVE  ContractStep
<1>1. /\ db'.disk = db.disk \cup (db.work \ db.disk)
      /\ db'.work \ db'.disk = {}
  BY DEF Committed, Agreed, Whole
<1>2. dbh'.AutoCommit \in BOOLEAN /\ dbh.Active = TRUE /\ dbh'.Active = TRUE
  BY IInvGood DEF Flags, Agreed
<1>3. Contract!Commit
  BY <1>1, <1>2 DEF Contract!Commit
<1>4. QED
  BY <1>3 DEF ContractStep, Contract!Next

(* One more row, in the file or among those that wait.                     *)
LEMMA InsertedStep ==
  ASSUME Agreed, dbh' \in Flags, dbh.Active, dbh' = dbh,
         NEW w \in Writes, w \notin db.work,
         db'.work = db.work \cup {w},
         db'.disk = IF dbh.AutoCommit THEN db'.work ELSE db.disk
  PROVE  ContractStep
<1>1. db.disk \subseteq db.work /\ (dbh.AutoCommit => db.work = db.disk)
  BY DEF Agreed, Whole, Flagged
<1>2. w \notin db.disk \cup (db.work \ db.disk)
  BY <1>1
<1>3. CASE dbh.AutoCommit
  <2>1. db'.disk = db.disk \cup {w} /\ db'.work \ db'.disk = db.work \ db.disk
    BY <1>1, <1>3
  <2>2. Contract!Insert(w)
    BY <1>2, <1>3, <2>1 DEF Contract!Insert
  <2>3. QED
    BY <2>2 DEF ContractStep, Contract!Next
<1>4. CASE ~dbh.AutoCommit
  <2>1. db'.disk = db.disk /\ db'.work \ db'.disk = (db.work \ db.disk) \cup {w}
    BY <1>1, <1>4
  <2>2. Contract!Insert(w)
    BY <1>2, <1>4, <2>1 DEF Contract!Insert
  <2>3. QED
    BY <2>2 DEF ContractStep, Contract!Next
<1>5. QED
  BY <1>3, <1>4

-----------------------------------------------------------------------------
(* The driver.                                                             *)

(* One statement, run on a connection d that has the contents of db.       *)
LEMMA StatementAgrees ==
  ASSUME CoherentAssumption, Agreed, IInv', dbh.Active, dbh'.Active,
         NEW d, GoodConnection(d), Whole(d), d.disk = db.disk, d.work = db.work,
         dbh.AutoCommit => d.autoCommit,
         NEW stmt \in Statements, NEW n, NEW w,
         stmt = "INSERT" => w \in Writes /\ w \notin db.work,
         stmt \in {"SAVEPOINT", "RELEASE", "ROLLBACK TO"} => n \in Names,
         NEW o \in Exec(d, stmt, n, w),
         db' = o.db,
         Flagged(dbh', o.db),
         stmt = "INSERT" /\ o.ok => dbh' = dbh /\ (d.autoCommit => dbh.AutoCommit),
         asked' = asked \cup (IF o.ok THEN Promised(d, stmt, n, w) ELSE {})
  PROVE  Agreed' /\ ContractStep
<1>1. /\ Whole(o.db)
      /\ o.ok /\ stmt = "INSERT" => Inserted(d, o.db, w)
      /\ o.ok /\ CommitsAll(d, stmt, n) => Committed(d, o.db) /\ ~d.autoCommit
      /\ ~(o.ok /\ (stmt = "INSERT" \/ CommitsAll(d, stmt, n))) => Undone(d, o.db)
  BY ExecWhole
<1>2. Whole(db') /\ Flagged(dbh', db') /\ dbh' \in Flags
  BY <1>1 DEF IInv, TypeOK
<1>3. asked \subseteq db.disk /\ db.disk \subseteq db.work
  BY DEF Agreed, Whole
<1>4. CASE o.ok /\ stmt = "INSERT"
  <2>1. Inserted(d, db', w) /\ dbh' = dbh /\ w \in Writes /\ w \notin db.work
    BY <1>1, <1>4
  <2>2. /\ db'.work = db.work \cup {w}
        /\ db'.disk = IF d.autoCommit THEN db'.work ELSE db.disk
    BY <2>1 DEF Inserted
  <2>3. d.autoCommit <=> dbh.AutoCommit
    BY <1>4
  <2>4. db'.disk = IF dbh.AutoCommit THEN db'.work ELSE db.disk
    BY <2>2, <2>3
  <2>5. asked' = asked \cup (IF dbh.AutoCommit THEN {w} ELSE {})
    BY <1>4 DEF Promised
  <2>6. asked' \subseteq db'.disk
    BY <1>3, <2>2, <2>4, <2>5
  <2>7. ContractStep
    BY <1>2, <2>1, <2>2, <2>4, InsertedStep
  <2>8. QED
    BY <1>2, <2>6, <2>7 DEF Agreed
<1>5. CASE o.ok /\ CommitsAll(d, stmt, n)
  <2>1. Committed(db, db') /\ ~dbh.AutoCommit
    BY <1>1, <1>5 DEF Committed
  <2>2. asked' = asked \cup db.work
    BY <1>5 DEF Promised, CommitsAll
  <2>3. asked' \subseteq db'.disk
    BY <1>3, <2>1, <2>2 DEF Committed
  <2>4. ContractStep
    BY <1>2, <2>1, CommittedStep
  <2>5. QED
    BY <1>2, <2>3, <2>4 DEF Agreed
<1>6. CASE ~(o.ok /\ (stmt = "INSERT" \/ CommitsAll(d, stmt, n)))
  <2>1. Undone(db, db')
    BY <1>1, <1>6 DEF Undone
  <2>2. asked' = asked
    BY <1>6 DEF Promised, CommitsAll
  <2>3. asked' \subseteq db'.disk
    BY <1>3, <2>1, <2>2 DEF Undone
  <2>4. ContractStep
    BY <1>2, <2>1, UndoneStep
  <2>5. QED
    BY <1>2, <2>3, <2>4 DEF Agreed
<1>7. QED
  BY <1>4, <1>5, <1>6

(* The flags before and after a statement that the driver looks at.        *)
LEMMA FlagsFollow ==
  ASSUME CoherentAssumption, Agreed, dbh.Active,
         NEW stmt \in Statements, NEW n, NEW w, NEW v,
         stmt = "INSERT" => w \in Writes,
         stmt \in {"SAVEPOINT", "RELEASE", "ROLLBACK TO"} => n \in Names,
         NEW b \in ImplicitBegin(db, stmt), b.ok,
         NEW o \in Exec(b.db, stmt, n, w),
         NEW f, f = FlagsAtBegin(stmt, v)
  PROVE  /\ f \in Flags /\ f.Active /\ Flagged(f, o.db)
         /\ FlagsAtEnd(f, o.db) \in Flags /\ FlagsAtEnd(f, o.db).Active
         /\ Flagged(FlagsAtEnd(f, o.db), o.db)
         /\ stmt = "INSERT" => f = dbh /\ (b.db.autoCommit => dbh.AutoCommit)
         /\ stmt = "INSERT" /\ o.ok => FlagsAtEnd(f, o.db) = dbh
<1>1. /\ GoodConnection(db) /\ Covered(db, asked) /\ Whole(db) /\ dbh \in Flags
      /\ dbh.AutoCommit => ~dbh.BegunWork /\ db.autoCommit
  BY IInvGood DEF Agreed, Flagged
<1>2. /\ Whole(b.db)
      /\ dbh.AutoCommit => b.db = db
      /\ ~dbh.AutoCommit => ~b.db.autoCommit \/ StartsWithBegin(stmt)
  BY <1>1, ImplicitBeginWhole
<1>3. GoodConnection(b.db)
  BY <1>1, ImplicitBeginSound DEF Sound
<1>4. /\ b.db.autoCommit /\ ~StartsWithBegin(stmt) => o.db.autoCommit
      /\ stmt = "INSERT" /\ o.ok /\ ~b.db.autoCommit => ~o.db.autoCommit
  BY <1>2, <1>3, ExecWhole
<1>5. /\ f \in Flags
      /\ FlagsAtEnd(f, o.db) \in Flags
  BY <1>1, FlagsTyped
<1>6. /\ f.Active
      /\ f.AutoCommit => ~f.BegunWork /\ dbh.AutoCommit /\ ~StartsWithBegin(stmt)
      /\ ~StartsWithBegin(stmt) => f = dbh
  BY <1>1 DEF FlagsAtBegin, Flags
<1>7. Flagged(f, o.db)
  BY <1>1, <1>2, <1>4, <1>6 DEF Flagged
<1>8. FlagsAtEnd(f, o.db).Active /\ Flagged(FlagsAtEnd(f, o.db), o.db)
  <2>1. CASE f.BegunWork /\ o.db.autoCommit /\ f.began_transaction
    <3>1. FlagsAtEnd(f, o.db) = [f EXCEPT !.BegunWork = FALSE, !.AutoCommit = TRUE]
      BY <2>1 DEF FlagsAtEnd
    <3>2. /\ FlagsAtEnd(f, o.db).Active = f.Active
          /\ FlagsAtEnd(f, o.db).BegunWork = FALSE
      BY <1>5, <3>1 DEF Flags
    <3>3. QED
      BY <1>6, <2>1, <3>2 DEF Flagged
  <2>2. CASE ~(f.BegunWork /\ o.db.autoCommit /\ f.began_transaction)
    <3>1. FlagsAtEnd(f, o.db) = f
      BY <2>2 DEF FlagsAtEnd
    <3>2. QED
      BY <1>6, <1>7, <3>1
  <2>3. QED
    BY <2>1, <2>2
<1>9. ASSUME stmt = "INSERT"
      PROVE  f = dbh /\ (b.db.autoCommit => dbh.AutoCommit)
  BY <1>2, <1>6, <1>9 DEF StartsWithBegin
<1>10. ASSUME stmt = "INSERT", o.ok
       PROVE  FlagsAtEnd(f, o.db) = dbh
  BY <1>1, <1>4, <1>9, <1>10 DEF FlagsAtEnd
<1>11. QED
  BY <1>5, <1>6, <1>7, <1>8, <1>9, <1>10

LEMMA RunAgrees ==
  ASSUME CoherentAssumption, Agreed, IInv', NEW stmt \in Statements, NEW n, NEW w, NEW v,
         stmt = "INSERT" => w \in Writes /\ w \notin db.work,
         stmt \in {"SAVEPOINT", "RELEASE", "ROLLBACK TO"} => n \in Names,
         Run(stmt, n, w, v)
  PROVE  Agreed' /\ ContractStep
<1>1. PICK b \in ImplicitBegin(db, stmt) :
        IF b.ok
          THEN \E o \in Exec(b.db, stmt, n, w) :
                 LET flags == FlagsAtBegin(stmt, v) IN
                 /\ db' = o.db
                 /\ dbh' = IF o.ok THEN FlagsAtEnd(flags, o.db) ELSE flags
                 /\ asked' = asked \cup
                      (IF o.ok THEN Promised(b.db, stmt, n, w) ELSE {})
                 /\ Returned(stmt, o.ok)
          ELSE /\ db' = b.db
               /\ Returned(stmt, FALSE)
               /\ UNCHANGED <<dbh, asked>>
  BY DEF Run
<1>2. /\ GoodConnection(db) /\ Covered(db, asked) /\ Whole(db) /\ dbh.Active
      /\ dbh.AutoCommit => db.autoCommit
  BY IInvGood DEF Agreed, Flagged, Run
<1>3. /\ Whole(b.db) /\ b.db.disk = db.disk /\ b.db.work = db.work
      /\ dbh.AutoCommit \/ ~b.ok => b.db = db
  BY <1>2, ImplicitBeginWhole
<1>4. GoodConnection(b.db)
  BY <1>2, ImplicitBeginSound DEF Sound
<1>5. CASE b.ok
  <2> DEFINE f == FlagsAtBegin(stmt, v)
  <2>1. PICK o \in Exec(b.db, stmt, n, w) :
          /\ db' = o.db
          /\ dbh' = IF o.ok THEN FlagsAtEnd(f, o.db) ELSE f
          /\ asked' = asked \cup
               (IF o.ok THEN Promised(b.db, stmt, n, w) ELSE {})
    BY <1>1, <1>5
  <2>2. /\ f \in Flags /\ f.Active /\ Flagged(f, o.db)
        /\ FlagsAtEnd(f, o.db) \in Flags /\ FlagsAtEnd(f, o.db).Active
        /\ Flagged(FlagsAtEnd(f, o.db), o.db)
        /\ stmt = "INSERT" => f = dbh /\ (b.db.autoCommit => dbh.AutoCommit)
        /\ stmt = "INSERT" /\ o.ok => FlagsAtEnd(f, o.db) = dbh
    BY <1>2, <1>5, FlagsFollow
  <2> HIDE DEF f
  <2>3. /\ dbh'.Active /\ Flagged(dbh', o.db)
        /\ stmt = "INSERT" /\ o.ok => dbh' = dbh /\ (b.db.autoCommit => dbh.AutoCommit)
    BY <2>1, <2>2
  <2>4. dbh.AutoCommit => b.db.autoCommit
    BY <1>2, <1>3
  <2>5. QED
    BY <1>2, <1>3, <1>4, <2>1, <2>3, <2>4, StatementAgrees
<1>6. CASE ~b.ok
  <2>1. db' = db /\ dbh' = dbh /\ asked' = asked
    BY <1>1, <1>3, <1>6
  <2>2. Agreed'
    BY <2>1 DEF Agreed, Whole, Flagged
  <2>3. Contract!vars' = Contract!vars
    BY <2>1 DEF Contract!vars
  <2>4. QED
    BY <2>2, <2>3 DEF ContractStep
<1>7. QED
  BY <1>5, <1>6

(* A call that keeps nothing new, and promises nothing.                    *)
LEMMA QuietAgrees ==
  ASSUME Agreed, IInv', dbh.Active, dbh'.Active, Whole(db'), Undone(db, db'),
         Flagged(dbh', db'), asked' = asked
  PROVE  Agreed' /\ ContractStep
<1>1. dbh' \in Flags
  BY DEF IInv, TypeOK
<1>2. asked' \subseteq db'.disk
  BY DEF Agreed, Undone
<1>3. QED
  BY <1>1, <1>2, UndoneStep DEF Agreed

(* A SELECT, and what is done with its handle afterwards.                  *)
LEMMA ExecuteQueryAgrees ==
  ASSUME CoherentAssumption, Agreed, IInv', NEW h \in Handles, ExecuteQuery(h, "")
  PROVE  Agreed' /\ ContractStep
<1>1. PICK r \in ResetAtExecute(h) :
        IF r.ok THEN StepQuery(h, "", r.db) ELSE QueryFailed(h, r.db, "stale")
  BY DEF ExecuteQuery
<1>2. /\ GoodConnection(db) /\ Covered(db, asked) /\ Whole(db) /\ dbh.Active
      /\ Flagged(dbh, db) /\ dbh \in Flags
  BY IInvGood DEF Agreed, ExecuteQuery
<1>3. r = Failed(db) \/ r = Done(db)
  BY <1>1, <1>2, HaltWhole DEF ResetAtExecute
<1>4. r.db = db
  BY <1>2, <1>3, IdleCall
<1>5. ASSUME NEW d, NEW c, QueryFailed(h, d, c), Whole(d), Undone(db, d),
             Flagged(dbh, d)
      PROVE  Agreed' /\ ContractStep
  <2>1. db' = d /\ dbh' = dbh /\ asked' = asked
    BY <1>5 DEF QueryFailed
  <2>2. QED
    BY <1>2, <1>5, <2>1, QuietAgrees
<1>6. CASE r.ok
  <2>1. PICK b \in ImplicitBegin(db, "SELECT") :
          IF b.ok
            THEN \E s \in FirstStep(b.db, h, "") :
                   IF s[1].ok THEN QueryStepped(h, "", s[1].db, s[2])
                              ELSE QueryFailed(h, s[1].db, "stale")
            ELSE QueryFailed(h, b.db, "reset")
    BY <1>1, <1>4, <1>6 DEF StepQuery
  <2>2. /\ Whole(b.db) /\ b.db.disk = db.disk /\ b.db.work = db.work
        /\ dbh.AutoCommit \/ ~b.ok => b.db = db
    BY <1>2, ImplicitBeginWhole DEF Flagged
  <2>3. Undone(db, b.db) /\ Flagged(dbh, b.db)
    BY <1>2, <2>2 DEF Undone, Flagged
  <2>4. CASE b.ok
    <3>1. PICK s \in FirstStep(b.db, h, "") :
            IF s[1].ok THEN QueryStepped(h, "", s[1].db, s[2])
                       ELSE QueryFailed(h, s[1].db, "stale")
      BY <2>1, <2>4
    <3>2. h \notin Returning
      BY DEF CoherentAssumption
    <3>3. s[1] \in ExecSelect(b.db)
      BY <3>1, <3>2 DEF FirstStep
    <3>4. s[1].db = b.db
      BY <3>3, SelectWhole
    <3>5. CASE s[1].ok
      <4>1. QueryStepped(h, "", b.db, s[2])
        BY <3>1, <3>4, <3>5
      <4>2. db' = b.db /\ asked' = asked
        BY <3>2, <4>1 DEF QueryStepped
      <4>3. dbh' = dbh
        BY <2>3, <4>1 DEF QueryStepped, Flagged
      <4>4. QED
        BY <1>2, <2>2, <2>3, <4>2, <4>3, QuietAgrees
    <3>6. CASE ~s[1].ok
      BY <1>5, <2>2, <2>3, <3>1, <3>4, <3>6
    <3>7. QED
      BY <3>5, <3>6
  <2>5. CASE ~b.ok
    BY <1>5, <2>1, <2>2, <2>3, <2>5
  <2>6. QED
    BY <2>4, <2>5
<1>7. CASE ~r.ok
  <2>1. Undone(db, db)
    BY DEF Undone
  <2>2. QED
    BY <1>1, <1>2, <1>4, <1>5, <1>7, <2>1
<1>8. QED
  BY <1>6, <1>7

LEMMA HandleAgrees ==
  ASSUME Agreed, IInv', NEW h \in Handles, Fetch(h) \/ Finish(h)
  PROVE  Agreed' /\ ContractStep
<1>1. Whole(db) /\ Flagged(dbh, db) /\ dbh.Active
  BY DEF Agreed, Fetch, Finish
<1>2. \A o \in Halt(db, h) : o.db = db
  BY <1>1, HaltWhole, IdleCall
<1>3. \A o \in MayFail("StmtFails", db) : o.db = db
  BY <1>1, IdleCall DEF MayFail
<1>4. ASSUME NEW call, FinishHandle(h, call)
      PROVE  db' = db /\ dbh' = dbh /\ asked' = asked
  BY <1>2, <1>4 DEF FinishHandle
<1>5. db' = db /\ dbh' = dbh /\ asked' = asked
  BY <1>2, <1>3, <1>4 DEF Fetch, Finish
<1>6. Undone(db, db')
  BY <1>5 DEF Undone
<1>7. QED
  BY <1>1, <1>5, <1>6, QuietAgrees

LEMMA EnterAgrees ==
  ASSUME Agreed, IInv', BeginWork \/ AutoCommitOff
  PROVE  Agreed' /\ ContractStep
<1>1. Whole(db) /\ Flagged(dbh, db) /\ dbh.Active /\ dbh \in Flags
  BY IInvGood DEF Agreed, BeginWork, AutoCommitOff
<1>2. db' = db /\ asked' = asked
  BY DEF BeginWork, AutoCommitOff
<1>3. dbh'.Active /\ ~dbh'.AutoCommit
  BY <1>1 DEF BeginWork, AutoCommitOff, Flags
<1>4. Flagged(dbh', db') /\ Undone(db, db') /\ Whole(db')
  BY <1>1, <1>2, <1>3 DEF Flagged, Undone
<1>5. QED
  BY <1>1, <1>2, <1>3, <1>4, QuietAgrees

(* A call that commits with AutoCommit off, or does nothing.               *)
LEMMA CommitCallAgrees ==
  ASSUME CoherentAssumption, Agreed, IInv', dbh.Active, dbh'.Active,
         NEW o \in IF dbh.AutoCommit \/ db.autoCommit THEN {Done(db)} ELSE ExecCommit(db),
         db' = o.db, Flagged(dbh', db'),
         asked' = asked \/ (o.ok /\ asked' = asked \cup db.work)
  PROVE  Agreed' /\ ContractStep
<1>1. GoodConnection(db) /\ Whole(db) /\ Flagged(dbh, db) /\ dbh' \in Flags
  BY IInvGood DEF Agreed, IInv, TypeOK
<1>2. asked \subseteq db.disk /\ db.disk \subseteq db.work
  BY DEF Agreed, Whole
<1>3. CASE dbh.AutoCommit \/ db.autoCommit
  <2>1. o = Done(db) /\ db.autoCommit
    BY <1>1, <1>3 DEF Flagged
  <2>2. db' = db /\ db.work = db.disk
    BY <1>1, <2>1, IdleCall DEF Whole
  <2>3. asked' \subseteq db'.disk
    BY <1>2, <2>2
  <2>4. Undone(db, db') /\ Whole(db')
    BY <1>1, <2>2 DEF Undone
  <2>5. QED
    BY <1>1, <2>3, <2>4, UndoneStep DEF Agreed
<1>4. CASE ~(dbh.AutoCommit \/ db.autoCommit)
  <2>1. /\ Whole(o.db)
        /\ o.ok => Committed(db, o.db)
        /\ ~o.ok => Undone(db, o.db)
    BY <1>1, <1>4, CommitWhole
  <2>2. asked' \subseteq db'.disk
    BY <1>2, <2>1 DEF Committed, Undone
  <2>3. ContractStep
    BY <1>1, <1>4, <2>1, CommittedStep, UndoneStep
  <2>4. QED
    BY <2>1, <2>2, <2>3 DEF Agreed
<1>5. QED
  BY <1>3, <1>4

(* After either of the engine calls that end a transaction it is in        *)
(* auto-commit mode.                                                       *)
LEMMA EndedByCall ==
  ASSUME CoherentAssumption, Agreed,
         NEW o, \/ o \in IF dbh.AutoCommit \/ db.autoCommit THEN {Done(db)}
                                                             ELSE ExecCommit(db)
                \/ o \in RollbackConnection
  PROVE  o.db.autoCommit
<1>1. GoodConnection(db) /\ Whole(db) /\ (dbh.AutoCommit => db.autoCommit)
  BY IInvGood DEF Agreed, Flagged
<1>2. CASE o = Done(db) /\ db.autoCommit
  BY <1>1, <1>2, IdleCall
<1>3. CASE o \in ExecCommit(db)
  BY <1>1, <1>3, CommitWhole
<1>4. CASE o \in ExecRollback(db)
  BY <1>1, <1>4, RollbackWhole
<1>5. QED
  BY <1>1, <1>2, <1>3, <1>4 DEF RollbackConnection

LEMMA CommitAgrees ==
  ASSUME CoherentAssumption, Agreed, IInv', Commit
  PROVE  Agreed' /\ ContractStep
<1>1. PICK o \in IF dbh.AutoCommit \/ db.autoCommit THEN {Done(db)}
                                                    ELSE ExecCommit(db) :
        /\ db' = o.db
        /\ asked' = asked \cup (IF o.ok THEN db.work ELSE {})
  BY DEF Commit
<1>2. dbh \in Flags /\ dbh.Active
  BY IInvGood DEF Agreed, Commit
<1>3. dbh' = DbiEndWork(IF dbh.AutoCommit THEN dbh ELSE LeaveBegunWork(dbh))
  BY DEF Commit
<1>4. dbh'.Active /\ ~dbh'.BegunWork
  BY <1>2, <1>3 DEF DbiEndWork, LeaveBegunWork, Flags
<1>5. Flagged(dbh', db')
  BY <1>1, <1>4, EndedByCall DEF Flagged
<1>6. asked' = asked \/ (o.ok /\ asked' = asked \cup db.work)
  BY <1>1
<1>7. QED
  BY <1>1, <1>2, <1>4, <1>5, <1>6, CommitCallAgrees

LEMMA AutoCommitOnAgrees ==
  ASSUME CoherentAssumption, Agreed, IInv', AutoCommitOn
  PROVE  Agreed' /\ ContractStep
<1>1. PICK o \in IF dbh.AutoCommit \/ db.autoCommit THEN {Done(db)}
                                                    ELSE ExecCommit(db) :
        /\ db' = o.db
        /\ dbh' = [dbh EXCEPT !.AutoCommit = @ \/ o.ok]
        /\ asked' = asked \cup
             (IF o.ok /\ ~dbh.AutoCommit THEN db.work ELSE {})
  BY DEF AutoCommitOn
<1>2. dbh \in Flags /\ dbh.Active /\ ~dbh.BegunWork
  BY IInvGood DEF Agreed, AutoCommitOn, CoherentAssumption
<1>3. dbh'.Active /\ ~dbh'.BegunWork
  BY <1>1, <1>2 DEF Flags
<1>4. Flagged(dbh', db')
  BY <1>1, <1>3, EndedByCall DEF Flagged
<1>5. asked' = asked \/ (o.ok /\ asked' = asked \cup db.work)
  BY <1>1
<1>6. QED
  BY <1>1, <1>2, <1>3, <1>4, <1>5, CommitCallAgrees

LEMMA RollbackConnectionWhole ==
  ASSUME GoodConnection(db), Whole(db), NEW o \in RollbackConnection
  PROVE  Whole(o.db) /\ Undone(db, o.db)
BY IdleCall, RollbackWhole DEF RollbackConnection

LEMMA RollbackAgrees ==
  ASSUME CoherentAssumption, Agreed, IInv', Rollback
  PROVE  Agreed' /\ ContractStep
<1>1. PICK o \in RollbackConnection : db' = o.db
  BY DEF Rollback
<1>2. GoodConnection(db) /\ Whole(db) /\ dbh \in Flags /\ dbh.Active
  BY IInvGood DEF Agreed, Rollback
<1>3. Whole(db') /\ Undone(db, db')
  BY <1>1, <1>2, RollbackConnectionWhole
<1>4. dbh' = DbiEndWork(LeaveBegunWork(dbh)) /\ asked' = asked
  BY DEF Rollback
<1>5. dbh'.Active /\ ~dbh'.BegunWork
  BY <1>2, <1>4 DEF DbiEndWork, LeaveBegunWork, Flags
<1>6. Flagged(dbh', db')
  BY <1>1, <1>5, EndedByCall DEF Flagged
<1>7. QED
  BY <1>2, <1>3, <1>4, <1>5, <1>6, QuietAgrees

LEMMA DisconnectAgrees ==
  ASSUME CoherentAssumption, Agreed, IInv', Disconnect
  PROVE  Agreed' /\ ContractStep
<1>1. PICK o \in IF dbh.AutoCommit THEN {Done(db)} ELSE RollbackConnection :
        db' \in Close(o.db)
  BY DEF Disconnect
<1>2. GoodConnection(db) /\ Whole(db) /\ dbh \in Flags /\ dbh.Active
  BY IInvGood DEF Agreed, Disconnect
<1>3. Whole(o.db) /\ o.db.disk = db.disk
  BY <1>1, <1>2, IdleCall, RollbackConnectionWhole DEF Undone
<1>4. Whole(db') /\ db'.disk = db.disk /\ db'.work = db.disk /\ db'.autoCommit
  BY <1>1, <1>3, CloseWhole, OpenWhole
<1>5. /\ dbh' = [(IF dbh.AutoCommit THEN dbh ELSE LeaveBegunWork(dbh))
                   EXCEPT !.Active = FALSE]
      /\ asked' = asked
  BY DEF Disconnect
<1>6. dbh' \in Flags
  BY DEF IInv, TypeOK
<1>7. dbh'.Active = FALSE /\ (dbh'.AutoCommit => ~dbh'.BegunWork)
  <2>1. CASE dbh.AutoCommit
    <3>1. ~dbh.BegunWork /\ dbh' = [dbh EXCEPT !.Active = FALSE]
      BY <1>5, <2>1 DEF Agreed, Flagged
    <3>2. QED
      BY <1>2, <3>1 DEF Flags
  <2>2. CASE ~dbh.AutoCommit
    <3> DEFINE f == LeaveBegunWork(dbh)
    <3>1. f \in Flags /\ ~f.BegunWork
      BY <1>2, FlagsTyped DEF LeaveBegunWork, Flags
    <3> HIDE DEF f
    <3>2. dbh' = [f EXCEPT !.Active = FALSE]
      BY <1>5, <2>2 DEF f
    <3>3. QED
      BY <3>1, <3>2 DEF Flags
  <2>3. QED
    BY <2>1, <2>2
<1>8. Agreed'
  BY <1>4, <1>5, <1>7 DEF Agreed, Flagged
<1>9. Contract!Disconnect
  <2>1. db'.work \ db'.disk = {}
    BY <1>4
  <2>2. dbh'.AutoCommit \in BOOLEAN /\ dbh'.Active = FALSE
    BY <1>6, <1>7 DEF Flags
  <2>3. QED
    BY <1>2, <1>4, <2>1, <2>2 DEF Contract!Disconnect
<1>10. QED
  BY <1>8, <1>9 DEF ContractStep, Contract!Next

LEMMA ConnectAgrees ==
  ASSUME Agreed, IInv', NEW on \in BOOLEAN, Connect(on)
  PROVE  Agreed' /\ ContractStep
<1>1. /\ ~dbh.Active /\ dbh \in Flags
      /\ dbh' = Connected(on) /\ db' = OpenConnection(db.disk) /\ asked' = asked
  BY IInvGood DEF Agreed, Connect
<1>2. Whole(db') /\ db'.disk = db.disk /\ db'.work = db.disk /\ db'.autoCommit
  BY <1>1, OpenWhole
<1>3. dbh'.Active = TRUE /\ dbh'.BegunWork = FALSE /\ dbh'.AutoCommit \in BOOLEAN
  BY <1>1 DEF Connected
<1>4. Agreed'
  BY <1>1, <1>2, <1>3 DEF Agreed, Flagged
<1>5. db.work \ db.disk = {} /\ db'.work \ db'.disk = {}
  BY <1>1, <1>2 DEF Agreed, Flagged, Whole
<1>6. Contract!Connect
  BY <1>1, <1>2, <1>3, <1>5 DEF Contract!Connect
<1>7. QED
  BY <1>4, <1>6 DEF ContractStep, Contract!Next

-----------------------------------------------------------------------------

LEMMA InitAgreed ==
  ASSUME Init
  PROVE  Agreed /\ Contract!Init
<1>1. db = OpenConnection({}) /\ asked = {} /\ dbh = Connected(TRUE)
  BY DEF Init
<1>2. Whole(db) /\ db.disk = {} /\ db.work = {} /\ db.autoCommit
  BY <1>1, OpenWhole
<1>3. dbh.Active = TRUE /\ dbh.AutoCommit = TRUE /\ dbh.BegunWork = FALSE
  BY <1>1 DEF Connected
<1>4. Agreed
  BY <1>1, <1>2, <1>3, InitIInv DEF Agreed, Flagged
<1>5. db.work \ db.disk = {}
  BY <1>2
<1>6. Contract!Init
  BY <1>2, <1>3, <1>5 DEF Contract!Init
<1>7. QED
  BY <1>4, <1>6

LEMMA NextAgreed ==
  ASSUME CoherentAssumption, Agreed, [Next]_vars
  PROVE  Agreed' /\ ContractStep
<1>1. IInv'
  BY NextIInv DEF Agreed
<1>2. Fresh \subseteq Writes /\ \A w \in Fresh : w \notin db.work
  BY DEF Fresh
<1>3. CASE \E on \in BOOLEAN : Connect(on)
  BY <1>1, <1>3, ConnectAgrees
<1>4. CASE BeginWork \/ AutoCommitOff
  BY <1>1, <1>4, EnterAgrees
<1>5. CASE AutoCommitOn
  BY <1>1, <1>5, AutoCommitOnAgrees
<1>6. CASE Commit
  BY <1>1, <1>6, CommitAgrees
<1>7. CASE Rollback
  BY <1>1, <1>7, RollbackAgrees
<1>8. CASE Disconnect
  BY <1>1, <1>8, DisconnectAgrees
<1>9. CASE \E v \in BOOLEAN, w \in Fresh : Run("INSERT", "", w, v)
  BY <1>1, <1>2, <1>9, RunAgrees DEF Statements
<1>10. CASE \E v \in BOOLEAN, stmt \in {"SELECT", "BEGIN", "COMMIT", "ROLLBACK"} :
              Run(stmt, "", "", v)
  BY <1>1, <1>10, RunAgrees DEF Statements
<1>11. CASE \E v \in BOOLEAN, n \in Names,
               stmt \in {"SAVEPOINT", "RELEASE", "ROLLBACK TO"} : Run(stmt, n, "", v)
  BY <1>1, <1>11, RunAgrees DEF Statements
<1>12. CASE \E h \in Returning, w \in Fresh : ExecuteQuery(h, w)
  BY <1>12 DEF CoherentAssumption
<1>13. CASE \E h \in Handles \ Returning : ExecuteQuery(h, "")
  BY <1>1, <1>13, ExecuteQueryAgrees
<1>14. CASE \E h \in Handles : Fetch(h) \/ Finish(h)
  BY <1>1, <1>14, HandleAgrees
<1>15. CASE UNCHANGED vars
  <2>1. db' = db /\ dbh' = dbh /\ asked' = asked
    BY <1>15 DEF vars
  <2>2. Agreed'
    BY <1>1, <2>1 DEF Agreed, Whole, Flagged
  <2>3. Contract!vars' = Contract!vars
    BY <2>1 DEF Contract!vars
  <2>4. QED
    BY <2>2, <2>3 DEF ContractStep
<1>16. QED
  BY <1>3, <1>4, <1>5, <1>6, <1>7, <1>8, <1>9, <1>10, <1>11, <1>12, <1>13,
     <1>14, <1>15 DEF Next

(* The flag the application reads never claims auto-commit mode while the  *)
(* engine has a transaction open (sqlite_db_do_sv, sqlite_st_execute and   *)
(* the functions that end work).                                           *)
THEOREM FlagsAgree ==
  ASSUME CoherentAssumption
  PROVE  Spec => []AutoCommitMeansNoTransaction
<1>1. Init => Agreed
  BY InitAgreed
<1>2. Agreed /\ [Next]_vars => Agreed'
  BY NextAgreed
<1>3. Agreed => AutoCommitMeansNoTransaction
  BY DEF Agreed, Flagged, AutoCommitMeansNoTransaction
<1>4. QED
  BY <1>1, <1>2, <1>3, PTL DEF Spec

(* A row whose INSERT succeeded in auto-commit mode, or that a successful  *)
(* commit by any of its names covered, is in the file from then on.        *)
THEOREM Durability ==
  ASSUME CoherentAssumption
  PROVE  Spec => []PromisesKept
<1>1. Init => Agreed
  BY InitAgreed
<1>2. Agreed /\ [Next]_vars => Agreed'
  BY NextAgreed
<1>3. Agreed => PromisesKept
  BY DEF Agreed, PromisesKept
<1>4. QED
  BY <1>1, <1>2, <1>3, PTL DEF Spec

(* Every call on the handle is one step of TxnContract or none: the lazy   *)
(* BEGIN, the savepoints and the failures of the engine are invisible.     *)
THEOREM Refinement ==
  ASSUME CoherentAssumption
  PROVE  Spec => ImplementsContract
<1>1. Init => Agreed /\ Contract!Init
  BY InitAgreed
<1>2. Agreed /\ [Next]_vars => Agreed' /\ [Contract!Next]_(Contract!vars)
  BY NextAgreed DEF ContractStep
<1>3. QED
  BY <1>1, <1>2, PTL DEF Spec, ImplementsContract, Contract!Spec

-----------------------------------------------------------------------------
(* do() of several statements.                                             *)
(*                                                                         *)
(* First what holds of every text and under every hazard, whether or not   *)
(* flags and engine still agree.  Of a do() in progress, InText says that  *)
(* the file is as it was when the do() began, up to what statements of its *)
(* own ended or ran in auto-commit mode, and, for _do() with AutoCommit    *)
(* off, that the transaction it needs is open: the driver opened it before *)
(* the first statement, and no statement but one that sets ended can have  *)
(* left it.                                                                *)
InText ==
  /\ doing.via # "none" => dbh.Active
  /\ doing.via # "none" /\ ~doing.ended => db.disk = doing.before
  /\ doing.via = "exec" /\ ~doing.ended /\ ~dbh.AutoCommit => ~db.autoCommit

TextInv == GoodConnection(db) /\ dbh \in Flags /\ InText

(* The formulas of the two properties.                                     *)
FoundOpen ==
  /\ doing.via = "exec" /\ doing'.via = "exec"
  /\ ~dbh.AutoCommit /\ ~doing.ended
  => ~db.autoCommit

LeftToRollback ==
  /\ doing.via # "none" /\ doing'.via = "none" /\ ~result'.ok
  /\ ~dbh.AutoCommit /\ ~doing.ended
  => db'.disk = doing.before

(* Which statements leave the file alone: all that fail, all that stay in  *)
(* a transaction, all that open one, and SELECT.                           *)
LEMMA FileStays ==
  ASSUME NEW d, GoodConnection(d), NEW stmt \in Statements, NEW n, NEW w,
         stmt = "INSERT" => w \in Writes,
         stmt \in {"SAVEPOINT", "RELEASE", "ROLLBACK TO"} => n \in Names,
         NEW o \in Exec(d, stmt, n, w)
  PROVE  /\ ~o.ok => o.db.disk = d.disk
         /\ ~d.autoCommit /\ ~o.db.autoCommit => o.db.disk = d.disk
         /\ StartsWithBegin(stmt) /\ o.ok => ~o.db.autoCommit /\ o.db.disk = d.disk
         /\ stmt = "SELECT" => o.db.disk = d.disk
<1>1. CASE stmt = "INSERT"
  <2> DEFINE e == [d EXCEPT !.work = @ \cup {w}]
  <2>1. o \in HaltWriter(e) \cup HaltFailed(d)
    BY <1>1 DEF Exec, ExecInsert
  <2>2. /\ GoodConnection(e) /\ e.disk = d.disk
        /\ e.autoCommit <=> d.autoCommit
    BY <1>1 DEF GoodConnection, Connection
  <2> HIDE DEF e
  <2>3. \/ e.autoCommit /\ o = Done(MakeDurable(e))
        \/ o = Failed(RollbackAll(e)) \/ o = Done(e)
        \/ o = Failed(d) \/ o = Failed(EndTransaction(RollbackAll(d)))
    BY <2>1 DEF HaltWriter, HaltFailed, MayFail
  <2>4. QED
    BY <1>1, <2>2, <2>3, OutcomeFields, EndFields, EndedFields DEF StartsWithBegin
<1>2. CASE stmt = "SELECT"
  BY <1>2, OutcomeFields DEF Exec, ExecSelect, MayFail, StartsWithBegin
<1>3. CASE stmt = "BEGIN"
  <2> DEFINE e == [d EXCEPT !.autoCommit = FALSE]
  <2>1. o = Done(e) \/ o = Failed(d)
    BY <1>3 DEF Exec, ExecBegin, MayFail
  <2>2. e.disk = d.disk /\ ~e.autoCommit
    BY DEF GoodConnection, Connection
  <2> HIDE DEF e
  <2>3. QED
    BY <1>3, <2>1, <2>2, OutcomeFields
<1>4. CASE stmt = "COMMIT" \/ stmt = "ROLLBACK"
  <2>1. \/ o = Failed(d) \/ o = Failed(EndTransaction(RollbackAll(d)))
        \/ o = Done(EndTransaction(MakeDurable(d)))
        \/ o = Done(EndTransaction(RollbackAll(d)))
    BY <1>4 DEF Exec, ExecCommit, ExecRollback, MayFail
  <2>2. ~StartsWithBegin(stmt) /\ stmt # "SELECT"
    BY <1>4 DEF StartsWithBegin
  <2> DEFINE back == EndTransaction(RollbackAll(d))
             kept == EndTransaction(MakeDurable(d))
  <2>3. back.disk = d.disk /\ back.autoCommit /\ kept.autoCommit
    BY EndedFields
  <2>4. o = Failed(d) \/ o = Failed(back) \/ o = Done(kept) \/ o = Done(back)
    BY <2>1
  <2> HIDE DEF back, kept
  <2>5. QED
    BY <2>2, <2>3, <2>4, OutcomeFields
<1>5. CASE stmt = "SAVEPOINT"
  <2> DEFINE e == [d EXCEPT
              !.autoCommit = FALSE,
              !.isTransactionSavepoint = d.isTransactionSavepoint \/ d.autoCommit,
              !.pSavepoint = Append(@, [name |-> n, saved |-> d.work])]
  <2>1. o = Failed(d) \/ o = Done(e)
    BY <1>5 DEF Exec, ExecSavepoint
  <2>2. e.disk = d.disk /\ ~e.autoCommit
    BY DEF GoodConnection, Connection
  <2> HIDE DEF e
  <2>3. QED
    BY <1>5, <2>1, <2>2, OutcomeFields
<1>6. CASE stmt = "RELEASE" \/ stmt = "ROLLBACK TO"
  <2> DEFINE cut == [d EXCEPT !.pSavepoint = SubSeq(@, 1, Innermost(d, n) - 1)]
             back == [d EXCEPT !.pSavepoint = SubSeq(@, 1, Innermost(d, n)),
                               !.work = d.pSavepoint[Innermost(d, n)].saved]
             left == [RollbackAll(d) EXCEPT
                        !.pSavepoint = [i \in DOMAIN d.pSavepoint |->
                          [name |-> d.pSavepoint[i].name, saved |-> d.disk]]]
  <2>1. \/ o = Failed(d) \/ o = Done(EndTransaction(MakeDurable(d)))
        \/ o = Failed(left) \/ o = Done(cut) \/ o = Done(back)
    BY <1>6 DEF Exec, ExecRelease, ExecRollbackTo, MayFail
  <2>2. cut.disk = d.disk /\ back.disk = d.disk
    BY DEF GoodConnection, Connection
  <2>3. left.disk = d.disk
    <3>1. RollbackAll(d) \in Connection /\ RollbackAll(d).disk = d.disk
      BY EndFields, RollbackAllGood DEF GoodConnection
    <3>2. QED
      BY <3>1 DEF Connection
  <2> HIDE DEF cut, back, left
  <2>4. ~StartsWithBegin(stmt) /\ stmt # "SELECT"
    BY <1>6 DEF StartsWithBegin
  <2>5. CASE o = Done(EndTransaction(MakeDurable(d)))
    <3> DEFINE kept == EndTransaction(MakeDurable(d))
    <3>1. kept.autoCommit /\ o = Done(kept)
      BY <2>5, EndedFields
    <3> HIDE DEF kept
    <3>2. QED
      BY <2>4, <3>1, OutcomeFields
  <2>6. CASE o \in {Failed(d), Failed(left), Done(cut), Done(back)}
    BY <2>2, <2>3, <2>4, <2>6, OutcomeFields
  <2>7. QED
    BY <2>1, <2>5, <2>6
<1>7. QED
  BY <1>1, <1>2, <1>3, <1>4, <1>5, <1>6 DEF Statements

(* Any connection is covered by the set of all rows.                       *)
LEMMA CoveredByAll ==
  ASSUME NEW d, GoodConnection(d)
  PROVE  Covered(d, Writes)
BY DEF GoodConnection, Connection, Covered

LEMMA ExecGood ==
  ASSUME NEW d, GoodConnection(d), NEW stmt \in Statements, NEW n, NEW w,
         stmt = "INSERT" => w \in Writes,
         stmt \in {"SAVEPOINT", "RELEASE", "ROLLBACK TO"} => n \in Names,
         NEW o \in Exec(d, stmt, n, w)
  PROVE  GoodConnection(o.db)
BY CoveredByAll, ExecSound DEF Sound

(* What the driver does to its flags around a statement.                   *)
LEMMA FlagsAround ==
  ASSUME dbh \in Flags, NEW f \in Flags, NEW d, NEW stmt, NEW looks
  PROVE  /\ FlagsAtBegin(stmt, looks) \in Flags
         /\ FlagsAtBegin(stmt, looks).Active = dbh.Active
         /\ FlagsAtBegin(stmt, looks).AutoCommit # dbh.AutoCommit
              => StartsWithBegin(stmt) /\ db.autoCommit
         /\ FlagsAfter(stmt, f, d) \in Flags
         /\ FlagsAfter(stmt, f, d).Active = f.Active
         /\ ~FlagsAfter(stmt, f, d).AutoCommit => ~f.AutoCommit \/ stmt = "SELECT"
         /\ FlagsAtEnd(f, d) \in Flags
BY DEF Flags, FlagsAtBegin, FlagsAfter, FlagsAtEnd

(* One statement of a text, run on a connection d with the file of db.     *)
LEMMA TextStatement ==
  ASSUME TextInv, dbh.Active, NEW d, GoodConnection(d), d.disk = db.disk,
         NEW via \in {"exec", "loop"}, doing.via \in {"none", via},
         NEW f \in Flags, f.Active,
         NEW stmt \in Statements, NEW n, NEW w,
         ~f.AutoCommit /\ (doing.via = "exec" => ~doing.ended)
           => ~d.autoCommit \/ StartsWithBegin(stmt),
         stmt = "INSERT" => w \in Writes,
         stmt \in {"SAVEPOINT", "RELEASE", "ROLLBACK TO"} => n \in Names,
         RunStatement(via, f, d, stmt, n, w)
  PROVE  TextInv' /\ LeftToRollback
<1>1. PICK o \in Exec(d, stmt, n, w) :
        /\ db' = o.db
        /\ dbh' = IF via = "loop" /\ o.ok THEN FlagsAfter(stmt, f, o.db) ELSE f
        /\ Flow(via, stmt, o.ok, o.db.autoCommit /\ ~d.autoCommit)
  BY DEF RunStatement
<1>2. /\ ~o.ok => o.db.disk = d.disk
      /\ ~d.autoCommit /\ ~o.db.autoCommit => o.db.disk = d.disk
      /\ StartsWithBegin(stmt) /\ o.ok => ~o.db.autoCommit /\ o.db.disk = d.disk
      /\ stmt = "SELECT" => o.db.disk = d.disk
  BY FileStays
<1>3. GoodConnection(db')
  BY <1>1, ExecGood
<1>4. /\ dbh' \in Flags /\ dbh'.Active
      /\ ~dbh'.AutoCommit => ~f.AutoCommit \/ stmt = "SELECT"
      /\ via = "exec" => dbh' = f
  BY <1>1, FlagsAround DEF TextInv
<1>5. CASE ~o.ok
  <2>1. doing' = Idle
    BY <1>1, <1>5 DEF Flow, ReturnFromDo
  <2>2. doing'.via = "none"
    BY <2>1 DEF Idle
  <2>3. db'.disk = db.disk
    BY <1>1, <1>2, <1>5
  <2>4. QED
    BY <1>3, <1>4, <2>2, <2>3 DEF TextInv, InText, LeftToRollback
<1>6. CASE o.ok
  <2> DEFINE left == o.db.autoCommit /\ ~d.autoCommit
  <2>1. /\ doing'.via = via
        /\ doing'.ended <=> (doing.ended \/ (via = "exec" /\ left))
        /\ doing'.before = IF left \/ dbh'.AutoCommit THEN db'.disk
                           ELSE IF doing.via = "none" THEN db.disk
                           ELSE doing.before
    <3>1. GoOn(via, IF via = "loop" /\ stmt # "SELECT" THEN changes' ELSE 0,
               IF stmt = "INSERT" THEN 1 ELSE 0, left)
      BY <1>1, <1>6 DEF Flow
    <3> HIDE DEF left
    <3>2. QED
      BY <3>1 DEF GoOn
  <2>2. ASSUME ~doing'.ended, ~left, ~dbh'.AutoCommit
        PROVE  db'.disk = doing'.before
    <3>1. doing'.before = db.disk
      BY <2>1, <2>2 DEF TextInv, InText
    <3>2. o.db.disk = d.disk
      <4>1. CASE stmt = "SELECT"
        BY <1>2, <4>1
      <4>2. CASE ~f.AutoCommit
        <5>1. ~d.autoCommit \/ StartsWithBegin(stmt)
          BY <2>1, <2>2, <4>2
        <5>2. QED
          BY <1>2, <1>6, <2>2, <5>1
      <4>3. QED
        BY <1>4, <2>2, <4>1, <4>2
    <3>3. QED
      BY <1>1, <3>1, <3>2
  <2>3. ASSUME via = "exec", ~doing'.ended, ~dbh'.AutoCommit
        PROVE  ~db'.autoCommit
    <3>1. ~d.autoCommit \/ StartsWithBegin(stmt)
      BY <1>4, <2>1, <2>3
    <3>2. QED
      BY <1>1, <1>2, <1>6, <2>1, <2>3, <3>1
  <2>4. ~doing'.ended => db'.disk = doing'.before
    BY <2>1, <2>2
  <2>5. InText'
    BY <1>4, <2>1, <2>3, <2>4 DEF InText
  <2>6. doing'.via # "none"
    BY <2>1
  <2>7. QED
    BY <1>3, <1>4, <2>5, <2>6 DEF TextInv, LeftToRollback
<1>7. QED
  BY <1>5, <1>6

LEMMA TextAfterBegin ==
  ASSUME TextInv, dbh.Active, NEW via \in {"exec", "loop"},
         doing.via \in {"none", "loop"}, doing.via = "loop" => via = "loop",
         NEW stmt \in Statements, NEW n, NEW w,
         stmt = "INSERT" => w \in Writes,
         stmt \in {"SAVEPOINT", "RELEASE", "ROLLBACK TO"} => n \in Names,
         AfterBegin(via, stmt, n, w)
  PROVE  TextInv' /\ LeftToRollback
<1> DEFINE f == FlagsAtBegin(stmt, via = "loop")
<1>1. PICK b \in ImplicitBegin(db, stmt) :
        IF b.ok
          THEN RunStatement(via, f, b.db, stmt, n, w)
          ELSE /\ db' = b.db
               /\ ReturnFromDo(FALSE, 0, doing.affected)
               /\ UNCHANGED <<dbh, sth, asked, changes>>
  BY DEF AfterBegin
<1>2. /\ GoodConnection(b.db)
      /\ b.ok /\ b.db.autoCommit => dbh.AutoCommit \/ StartsWithBegin(stmt)
  BY CoveredByAll, ImplicitBeginSound DEF Sound, TextInv
<1>3. b.db.disk = db.disk
  <2>1. CASE b \in ExecBegin(db)
    <3> DEFINE e == [db EXCEPT !.autoCommit = FALSE]
    <3>1. b = Done(e) \/ b = Failed(db)
      BY <2>1 DEF ExecBegin, MayFail
    <3>2. e.disk = db.disk
      BY DEF TextInv, GoodConnection, Connection
    <3> HIDE DEF e
    <3>3. QED
      BY <3>1, <3>2, OutcomeFields
  <2>2. CASE b = Done(db)
    BY <2>2 DEF Done
  <2>3. QED
    BY <2>1, <2>2 DEF ImplicitBegin
<1>4. /\ f \in Flags /\ f.Active
      /\ f.AutoCommit # dbh.AutoCommit => StartsWithBegin(stmt)
  BY FlagsAround DEF TextInv
<1> HIDE DEF f
<1>5. CASE b.ok
  <2>1. RunStatement(via, f, b.db, stmt, n, w)
    BY <1>1, <1>5
  <2>2. ~f.AutoCommit => ~b.db.autoCommit \/ StartsWithBegin(stmt)
    BY <1>2, <1>4, <1>5
  <2>3. doing.via \in {"none", via}
    OBVIOUS
  <2>4. QED
    BY <1>2, <1>3, <1>4, <2>1, <2>2, <2>3, TextStatement
<1>6. CASE ~b.ok
  <2>1. db' = b.db /\ dbh' = dbh /\ doing' = Idle
    BY <1>1, <1>6 DEF ReturnFromDo
  <2>2. doing'.via = "none"
    BY <2>1 DEF Idle
  <2>3. QED
    BY <1>2, <1>3, <2>1, <2>2 DEF TextInv, InText, LeftToRollback
<1>7. QED
  BY <1>5, <1>6

LEMMA TextStatementStep ==
  ASSUME TextInv, NEW stmt \in Statements, NEW n, NEW w,
         stmt = "INSERT" => w \in Writes,
         stmt \in {"SAVEPOINT", "RELEASE", "ROLLBACK TO"} => n \in Names,
         Statement(stmt, n, w)
  PROVE  TextInv' /\ LeftToRollback
<1>1. CASE DoExec(stmt, n, w)
  BY <1>1, TextAfterBegin DEF DoExec
<1>2. CASE LoopNext(stmt, n, w)
  BY <1>2, TextAfterBegin DEF LoopNext
<1>3. CASE ExecNext(stmt, n, w)
  <2>1. doing.via = "exec" /\ RunStatement("exec", dbh, db, stmt, n, w)
    BY <1>3 DEF ExecNext
  <2>2. /\ GoodConnection(db) /\ dbh \in Flags /\ dbh.Active
        /\ ~dbh.AutoCommit /\ ~doing.ended => ~db.autoCommit
    BY <2>1 DEF TextInv, InText
  <2>3. QED
    BY <2>1, <2>2, TextStatement
<1>4. QED
  BY <1>1, <1>2, <1>3 DEF Statement

(* The other calls leave a connection the engine can produce.              *)
LEMMA QueryGood ==
  ASSUME GoodConnection(db), NEW h \in Handles, NEW w,
         h \in Returning => w \in Writes, ExecuteQuery(h, w)
  PROVE  GoodConnection(db')
<1>1. PICK r \in ResetAtExecute(h) :
        IF r.ok THEN StepQuery(h, w, r.db) ELSE QueryFailed(h, r.db, "stale")
  BY DEF ExecuteQuery
<1>2. GoodConnection(r.db)
  BY CoveredByAll, HaltSound, SoundIdle DEF ResetAtExecute, Sound
<1>3. CASE r.ok
  <2>1. PICK b \in ImplicitBegin(r.db, "SELECT") :
          IF b.ok
            THEN \E s \in FirstStep(b.db, h, w) : db' = s[1].db
            ELSE db' = b.db
    BY <1>1, <1>3 DEF StepQuery, QueryStepped, QueryFailed
  <2>2. GoodConnection(b.db)
    BY <1>2, CoveredByAll, ImplicitBeginSound DEF Sound
  <2>3. \A s \in FirstStep(b.db, h, w) : GoodConnection(s[1].db)
    BY <2>2, CoveredByAll, FirstStepSound DEF Sound
  <2>4. QED
    BY <2>1, <2>2, <2>3
<1>4. CASE ~r.ok
  BY <1>1, <1>2, <1>4 DEF QueryFailed
<1>5. QED
  BY <1>3, <1>4

LEMMA FetchGood ==
  ASSUME GoodConnection(db), NEW h, Fetch(h) \/ Finish(h)
  PROVE  GoodConnection(db')
<1>1. \/ db' = db
      \/ \E o \in Halt(db, h) : db' = o.db
      \/ \E o \in MayFail("StmtFails", db) : db' = o.db
  BY DEF Fetch, Finish, FinishHandle
<1>2. \A o \in MayFail("StmtFails", db) : o.db = db
  BY OutcomeFields DEF MayFail
<1>3. QED
  BY <1>1, <1>2, CoveredByAll, HaltSound DEF Sound

LEMMA EndOfWorkGood ==
  ASSUME GoodConnection(db), Commit \/ Rollback \/ AutoCommitOn \/ Disconnect
  PROVE  GoodConnection(db')
<1>1. \A o \in ExecCommit(db) \cup RollbackConnection \cup {Done(db)} :
        GoodConnection(o.db)
  BY CoveredByAll, CommitSound, RollbackConnectionSound, SoundIdle DEF Sound
<1>2. CASE Disconnect
  <2>1. PICK o \in RollbackConnection \cup {Done(db)} : db' \in Close(o.db)
    BY <1>2 DEF Disconnect
  <2>2. QED
    BY <1>1, <2>1, CoveredByAll, CloseSound
<1>3. CASE Commit \/ Rollback \/ AutoCommitOn
  <2>1. PICK o \in ExecCommit(db) \cup RollbackConnection \cup {Done(db)} : db' = o.db
    BY <1>3 DEF Commit, Rollback, AutoCommitOn
  <2>2. QED
    BY <1>1, <2>1
<1>4. QED
  BY <1>2, <1>3

LEMMA TextOtherCall ==
  ASSUME TextInv, OtherCall
  PROVE  TextInv' /\ doing.via = "none"
<1>1. doing.via = "none" /\ doing' = doing
  BY DEF OtherCall
<1>2. Fresh \subseteq Writes /\ Returning \subseteq Handles
  BY HandleAssumption DEF Fresh
<1>3. GoodConnection(db) /\ dbh \in Flags
  BY DEF TextInv
<1>4. GoodConnection(db') /\ dbh' \in Flags
  <2>1. CASE BeginWork \/ AutoCommitOff
    BY <1>3, <2>1 DEF BeginWork, AutoCommitOff, Flags
  <2>2. CASE Commit \/ Rollback \/ Disconnect
    BY <1>3, <2>2, EndOfWorkGood, FlagsTyped DEF Commit, Rollback, Disconnect
  <2>3. CASE AutoCommitOn
    <3>1. PICK ok : dbh' = [dbh EXCEPT !.AutoCommit = @ \/ ok]
      BY <2>3 DEF AutoCommitOn
    <3>2. QED
      BY <1>3, <2>3, <3>1, EndOfWorkGood DEF Flags
  <2>4. CASE \/ \E h \in Returning, w \in Fresh : ExecuteQuery(h, w)
             \/ \E h \in Handles \ Returning : ExecuteQuery(h, "")
    <3>1. PICK h \in Handles, w \in Writes \cup {""} :
            (h \in Returning => w \in Writes) /\ ExecuteQuery(h, w)
      BY <1>2, <2>4
    <3>2. dbh' \in Flags
      BY <1>3, <3>1 DEF ExecuteQuery, StepQuery, QueryStepped, QueryFailed, Flags
    <3>3. QED
      BY <1>3, <3>1, <3>2, QueryGood
  <2>5. CASE \E h \in Handles : Fetch(h) \/ Finish(h)
    <3>1. dbh' = dbh
      BY <2>5 DEF Fetch, Finish, FinishHandle
    <3>2. QED
      BY <1>3, <2>5, <3>1, FetchGood
  <2>6. CASE \E on \in BOOLEAN : Connect(on)
    <3>1. db.disk \in SUBSET Writes
      BY <1>3 DEF GoodConnection, Connection
    <3>2. QED
      BY <2>6, <3>1, OpenGood DEF Connect, Connected, Flags
  <2>7. QED
    BY <2>1, <2>2, <2>3, <2>4, <2>5, <2>6 DEF OtherCall
<1>5. QED
  BY <1>1, <1>4 DEF TextInv, InText

LEMMA TextNext ==
  ASSUME TextInv, [DoNext]_doVars
  PROVE  TextInv' /\ [FoundOpen /\ LeftToRollback]_doVars
<1>1. FoundOpen
  BY DEF FoundOpen, TextInv, InText
<1>2. CASE \/ \E w \in Fresh : Statement("INSERT", "", w)
           \/ \E stmt \in {"SELECT", "BEGIN", "COMMIT", "ROLLBACK"} : Statement(stmt, "", "")
           \/ \E n \in Names, stmt \in {"SAVEPOINT", "RELEASE", "ROLLBACK TO"} :
                Statement(stmt, n, "")
  <2>1. PICK stmt \in Statements, n \in Names \cup {""}, w \in Writes \cup {""} :
          /\ stmt = "INSERT" => w \in Writes
          /\ stmt \in {"SAVEPOINT", "RELEASE", "ROLLBACK TO"} => n \in Names
          /\ Statement(stmt, n, w)
    BY <1>2 DEF Statements, Fresh
  <2>2. TextInv' /\ LeftToRollback
    BY <2>1, TextStatementStep
  <2>3. QED
    BY <1>1, <2>2
<1>3. CASE ExecEnd \/ LoopEnd
  <2>1. /\ db' = db /\ dbh' \in {dbh, FlagsAtEnd(dbh, db)} /\ doing' = Idle
        /\ result'.ok
    BY <1>3 DEF ExecEnd, LoopEnd, ReturnFromDo
  <2>2. doing'.via = "none" /\ dbh' \in Flags
    BY <2>1, FlagsAround DEF Idle, TextInv
  <2>3. QED
    BY <1>1, <2>1, <2>2 DEF TextInv, InText, LeftToRollback
<1>4. CASE OtherCall
  BY <1>1, <1>4, TextOtherCall DEF LeftToRollback
<1>5. CASE UNCHANGED doVars
  BY <1>5 DEF doVars, TextInv, InText, GoodConnection
<1>6. QED
  BY <1>2, <1>3, <1>4, <1>5 DEF DoNext

LEMMA InitText ==
  ASSUME DoInit
  PROVE  TextInv
BY OpenGood DEF DoInit, Init, Connected, Flags, Idle, TextInv, InText

LEMMA TextInvariance == DoSpec => []TextInv
<1>1. DoInit => TextInv
  BY InitText
<1>2. TextInv /\ [DoNext]_doVars => TextInv'
  BY TextNext
<1>3. QED
  BY <1>1, <1>2, PTL DEF DoSpec

(* With AutoCommit off, the statements behind the first one of _do() find  *)
(* the engine in a transaction unless the text has ended one: for every    *)
(* text and under every combination of hazards (sqlite_db_do_sv).          *)
THEOREM LaterStatements == DoSpec => LaterStatementsAreInTheTransaction
<1>1. TextInv /\ [DoNext]_doVars => [FoundOpen]_doVars
  BY TextNext
<1>2. [FoundOpen]_doVars
        <=> [ /\ doing.via = "exec" /\ doing'.via = "exec"
              /\ ~dbh.AutoCommit /\ ~doing.ended
              => ~db.autoCommit ]_doVars
  BY DEF FoundOpen
<1>3. QED
  BY <1>1, <1>2, TextInvariance, PTL DEF DoSpec, LaterStatementsAreInTheTransaction

(* With AutoCommit off, a do() that fails behind its first statement has   *)
(* made nothing durable but by statements of its own that ended a          *)
(* transaction or ran with AutoCommit on; of _do(), this covers the texts  *)
(* that end no transaction, of the loop all texts, under every combination *)
(* of hazards (sqlite_db_do_sv, DBD::SQLite::db::do).                      *)
THEOREM FailuresRollBack == DoSpec => FailureLeavesAllToRollback
<1>1. TextInv /\ [DoNext]_doVars => [LeftToRollback]_doVars
  BY TextNext
<1>2. [LeftToRollback]_doVars
        <=> [ /\ doing.via # "none" /\ doing'.via = "none" /\ ~result'.ok
              /\ ~dbh.AutoCommit /\ ~doing.ended
              => db'.disk = doing.before ]_doVars
  BY DEF LeftToRollback
<1>3. QED
  BY <1>1, <1>2, TextInvariance, PTL DEF DoSpec, FailureLeavesAllToRollback

-----------------------------------------------------------------------------
(* The contract over texts.  Of one statement that the driver looked at,   *)
(* flags and engine agree afterwards.  Nobody looks at the statements      *)
(* behind the first one of _do(), but by InText the transaction that was   *)
(* opened before the first statement is still there.                       *)

(* Texts that open a transaction behind their first statement, or go on    *)
(* after ending one, do drive flags and engine apart.                      *)
DoCoherentAssumption == CoherentAssumption /\ AnyOrder = FALSE

DoInv == Agreed /\ TextInv

(* One statement of the text, run on a connection d with the contents of   *)
(* db.                                                                     *)
LEMMA StatementPreserves ==
  ASSUME IInv, NEW d, GoodConnection(d), Covered(d, asked),
         NEW stmt \in Statements, NEW n, NEW w,
         stmt = "INSERT" => w \in Writes,
         stmt = "INSERT" /\ d.autoCommit => dbh.AutoCommit,
         stmt \in {"SAVEPOINT", "RELEASE", "ROLLBACK TO"} => n \in Names,
         NEW o \in Exec(d, stmt, n, w),
         db' = o.db, sth' = sth, dbh' \in Flags, Returned(stmt, o.ok),
         asked' = asked \cup (IF o.ok THEN Promised(d, stmt, n, w) ELSE {})
  PROVE  IInv'
<1>1. sth \in [Handles -> SthState] /\ asked \subseteq Writes /\ stmt \in Calls
  BY IInvGood DEF Statements, Calls
<1>2. Allowed(d, stmt, n, w) \subseteq Promised(d, stmt, n, w)
  BY DEF Allowed, Promised
<1>3. Sound(o, asked')
  <2> DEFINE B == asked \cup (IF o.ok THEN Allowed(d, stmt, n, w) ELSE {})
  <2>1. B \subseteq asked'
    BY <1>2
  <2>2. Sound(o, B)
    BY ExecSound
  <2> HIDE DEF B
  <2>3. QED
    BY <2>1, <2>2, SoundMonotone
<1>4. Promised(d, stmt, n, w) \subseteq Writes
  BY DEF Promised, GoodConnection, Connection
<1>5. asked' \subseteq Writes
  BY <1>1, <1>4
<1>6. QED
  BY <1>1, <1>3, <1>5, Preserved DEF Sound

LEMMA StatementKeeps ==
  ASSUME CoherentAssumption, Agreed, dbh.Active,
         NEW d, GoodConnection(d), Covered(d, asked), Whole(d),
         d.disk = db.disk, d.work = db.work, dbh.AutoCommit => d.autoCommit,
         NEW stmt \in Statements, NEW n, NEW w,
         stmt = "INSERT" => w \in Writes /\ w \notin db.work,
         stmt = "INSERT" /\ d.autoCommit => dbh.AutoCommit,
         stmt \in {"SAVEPOINT", "RELEASE", "ROLLBACK TO"} => n \in Names,
         NEW o \in Exec(d, stmt, n, w),
         db' = o.db, sth' = sth, dbh' \in Flags, dbh'.Active, Flagged(dbh', o.db),
         stmt = "INSERT" /\ o.ok => dbh' = dbh,
         Returned(stmt, o.ok),
         asked' = asked \cup (IF o.ok THEN Promised(d, stmt, n, w) ELSE {})
  PROVE  Agreed' /\ ContractStep
<1>1. IInv'
  BY StatementPreserves DEF Agreed
<1>2. QED
  BY <1>1, StatementAgrees

-----------------------------------------------------------------------------
(* What every statement of a text keeps: the next one finds the handle as  *)
(* the contract wants it.                                                  *)
Kept == Agreed' /\ ContractStep

(* A statement that the driver looks at: the first of _do(), all of the    *)
(* loop.                                                                   *)
LEMMA AfterBeginKeeps ==
  ASSUME CoherentAssumption, DoInv, dbh.Active, NEW via \in {"exec", "loop"},
         doing.via # "exec",
         NEW stmt \in Statements, NEW n, NEW w,
         stmt = "INSERT" => w \in Writes /\ w \notin db.work,
         stmt \in {"SAVEPOINT", "RELEASE", "ROLLBACK TO"} => n \in Names,
         via = "exec" => doing.via = "none",
         AfterBegin(via, stmt, n, w)
  PROVE  Kept
<1> DEFINE looks == via = "loop"
           f == FlagsAtBegin(stmt, looks)
<1>1. PICK b \in ImplicitBegin(db, stmt) :
        IF b.ok
          THEN RunStatement(via, f, b.db, stmt, n, w)
          ELSE /\ db' = b.db
               /\ Returned(stmt, FALSE)
               /\ ReturnFromDo(FALSE, 0, doing.affected)
               /\ UNCHANGED <<dbh, sth, asked, changes>>
  BY DEF AfterBegin
<1> HIDE DEF looks
<1>2. /\ GoodConnection(db) /\ Covered(db, asked) /\ Whole(db)
      /\ dbh.AutoCommit => db.autoCommit
      /\ Agreed
  BY IInvGood DEF DoInv, Agreed, Flagged
<1>3. /\ Whole(b.db) /\ b.db.disk = db.disk /\ b.db.work = db.work
      /\ dbh.AutoCommit \/ ~b.ok => b.db = db
      /\ b.ok /\ ~dbh.AutoCommit => ~b.db.autoCommit \/ StartsWithBegin(stmt)
  <2>1. GoodConnection(db) /\ Whole(db) /\ (dbh.AutoCommit => db.autoCommit)
    BY <1>2
  <2> QED
    BY ONLY <2>1, ImplicitBeginWhole, b \in ImplicitBegin(db, stmt)
<1>4. GoodConnection(b.db) /\ Covered(b.db, asked)
  BY <1>2, ImplicitBeginSound DEF Sound
<1>5. CASE b.ok
  <2>1. PICK o \in Exec(b.db, stmt, n, w) :
          /\ db' = o.db
          /\ dbh' = IF via = "loop" /\ o.ok THEN FlagsAfter(stmt, f, o.db) ELSE f
          /\ asked' = asked \cup (IF o.ok THEN Promised(b.db, stmt, n, w) ELSE {})
          /\ Returned(stmt, o.ok)
    BY <1>1, <1>5 DEF RunStatement
  <2>2. sth' = sth
    BY <1>1, <1>5 DEF RunStatement
  <2>3. /\ f \in Flags /\ f.Active /\ Flagged(f, o.db)
        /\ FlagsAtEnd(f, o.db) \in Flags /\ FlagsAtEnd(f, o.db).Active
        /\ Flagged(FlagsAtEnd(f, o.db), o.db)
        /\ stmt = "INSERT" => f = dbh /\ (b.db.autoCommit => dbh.AutoCommit)
        /\ stmt = "INSERT" /\ o.ok => FlagsAtEnd(f, o.db) = dbh
    BY <1>2, <1>5, FlagsFollow
  <2>4. f.AutoCommit => o.db.autoCommit
    BY <2>3 DEF Flagged
  <2>5. ~StartsWithBegin(stmt) => f = dbh
    BY DEF FlagsAtBegin
  <2> HIDE DEF f
  <2>6. dbh' = f \/ (dbh' = FlagsAtEnd(f, o.db) /\ o.ok)
    BY <2>1, <2>4 DEF FlagsAfter
  <2>7. /\ dbh' \in Flags /\ dbh'.Active /\ Flagged(dbh', o.db)
        /\ stmt = "INSERT" /\ o.ok => dbh' = dbh
    BY <2>3, <2>6
  <2>8. stmt = "INSERT" /\ b.db.autoCommit => dbh.AutoCommit
    BY <2>3
  <2>9. Agreed' /\ ContractStep
    BY <1>2, <1>3, <1>4, <2>1, <2>2, <2>7, <2>8, StatementKeeps
  <2>10. QED
    BY <2>9 DEF Kept
<1>6. CASE ~b.ok
  <2>1. /\ db' = db /\ dbh' = dbh /\ asked' = asked /\ sth' = sth
        /\ Returned(stmt, FALSE)
    BY <1>1, <1>3, <1>6
  <2>2. IInv'
    <3>1. /\ dbh \in Flags /\ sth \in [Handles -> SthState] /\ asked \subseteq Writes
          /\ stmt \in Calls
      BY <1>2, IInvGood DEF Agreed, Statements, Calls
    <3>2. QED
      BY <1>2, <2>1, <3>1, Preserved
  <2>3. Agreed'
    BY <1>2, <2>1, <2>2 DEF Agreed, Whole, Flagged
  <2>4. Contract!vars' = Contract!vars
    BY <2>1 DEF Contract!vars
  <2>5. QED
    BY <2>3, <2>4 DEF Kept, ContractStep
<1>7. QED
  BY <1>5, <1>6

(* A statement nobody looks at.                                            *)
LEMMA ExecNextKeeps ==
  ASSUME DoCoherentAssumption, DoInv,
         NEW stmt \in Statements, NEW n, NEW w,
         stmt = "INSERT" => w \in Writes /\ w \notin db.work,
         stmt \in {"SAVEPOINT", "RELEASE", "ROLLBACK TO"} => n \in Names,
         ExecNext(stmt, n, w)
  PROVE  Kept
<1>1. /\ GoodConnection(db) /\ Covered(db, asked) /\ Whole(db) /\ dbh \in Flags
      /\ dbh.AutoCommit => db.autoCommit /\ ~dbh.BegunWork
      /\ Agreed /\ CoherentAssumption
  BY IInvGood DEF DoInv, Agreed, Flagged, DoCoherentAssumption
<1>2. doing.via = "exec" /\ ~doing.ended /\ ~StartsWithBegin(stmt)
  BY DEF ExecNext, DoCoherentAssumption
<1>3. /\ dbh.Active
      /\ ~dbh.AutoCommit => ~db.autoCommit
  BY <1>2 DEF DoInv, TextInv, InText
<1>4. PICK o \in Exec(db, stmt, n, w) :
        /\ db' = o.db
        /\ dbh' = dbh
        /\ asked' = asked \cup (IF o.ok THEN Promised(db, stmt, n, w) ELSE {})
        /\ Returned(stmt, o.ok)
        /\ sth' = sth
  BY DEF ExecNext, RunStatement
<1>5. db.autoCommit => o.db.autoCommit
  BY <1>1, <1>2, ExecWhole
<1>6. Flagged(dbh', o.db)
  BY <1>1, <1>3, <1>4, <1>5 DEF Flagged
<1>7. Agreed' /\ ContractStep
  BY <1>1, <1>3, <1>4, <1>6, StatementKeeps
<1>8. QED
  BY <1>7 DEF Kept

(* The engine's flag is looked at once more when the text is used up.      *)
LEMMA ExecEndKeeps ==
  ASSUME DoInv, ExecEnd
  PROVE  Kept
<1>1. /\ GoodConnection(db) /\ Covered(db, asked) /\ Whole(db) /\ dbh \in Flags
      /\ sth \in [Handles -> SthState] /\ asked \subseteq Writes
      /\ Flagged(dbh, db) /\ Agreed
  BY IInvGood DEF DoInv, Agreed
<1>2. /\ doing.via = "exec" /\ dbh' = FlagsAtEnd(dbh, db)
      /\ db' = db /\ sth' = sth /\ asked' = asked /\ last' = last
  BY DEF ExecEnd
<1>3. dbh.Active /\ dbh' \in Flags
  BY <1>1, <1>2, FlagsTyped DEF DoInv, TextInv, InText
<1>4. dbh'.Active /\ Flagged(dbh', db)
  <2>1. CASE dbh.BegunWork /\ db.autoCommit /\ dbh.began_transaction
    <3>1. dbh' = [dbh EXCEPT !.BegunWork = FALSE, !.AutoCommit = TRUE]
      BY <1>2, <2>1 DEF FlagsAtEnd
    <3>2. dbh'.Active = dbh.Active /\ dbh'.BegunWork = FALSE
      BY <1>1, <3>1 DEF Flags
    <3>3. QED
      BY <1>3, <2>1, <3>2 DEF Flagged
  <2>2. CASE ~(dbh.BegunWork /\ db.autoCommit /\ dbh.began_transaction)
    BY <1>1, <1>2, <1>3, <2>2 DEF FlagsAtEnd
  <2>3. QED
    BY <2>1, <2>2
<1>5. IInv'
  BY <1>1, <1>2, <1>3
     DEF IInv, TypeOK, SavepointsNeedTransaction, Covered, DoInv, Agreed
<1>6. Undone(db, db') /\ Whole(db') /\ Flagged(dbh', db')
  BY <1>1, <1>2, <1>4 DEF Undone
<1>7. Agreed' /\ ContractStep
  BY <1>1, <1>2, <1>3, <1>4, <1>5, <1>6, QuietAgrees
<1>8. QED
  BY <1>7 DEF Kept

(* The handle and its connection stand still.                              *)
LEMMA HandleStill ==
  ASSUME DoInv, UNCHANGED <<dbh, db, sth, asked, last>>
  PROVE  Kept
<1>1. UNCHANGED vars /\ UNCHANGED <<dbh, db>>
  BY DEF vars
<1>2. Agreed'
  BY <1>1 DEF vars, DoInv, Agreed, IInv, TypeOK, SavepointsNeedTransaction, Covered,
              Whole, Flagged
<1>3. Contract!vars' = Contract!vars
  BY <1>1 DEF Contract!vars
<1>4. QED
  BY <1>2, <1>3 DEF Kept, ContractStep

LEMMA OtherCallKeeps ==
  ASSUME CoherentAssumption, DoInv, OtherCall
  PROVE  Kept
<1>1. Next
  BY DEF OtherCall, Next
<1>2. QED
  BY <1>1, NextAgreed DEF DoInv, Kept

LEMMA StatementStep ==
  ASSUME DoCoherentAssumption, DoInv,
         NEW stmt \in Statements, NEW n, NEW w,
         stmt = "INSERT" => w \in Writes /\ w \notin db.work,
         stmt \in {"SAVEPOINT", "RELEASE", "ROLLBACK TO"} => n \in Names,
         Statement(stmt, n, w)
  PROVE  Kept
<1>1. CASE DoExec(stmt, n, w)
  BY <1>1, AfterBeginKeeps DEF DoExec, DoCoherentAssumption
<1>2. CASE LoopNext(stmt, n, w)
  BY <1>2, AfterBeginKeeps DEF LoopNext, DoCoherentAssumption
<1>3. CASE ExecNext(stmt, n, w)
  BY <1>3, ExecNextKeeps
<1>4. QED
  BY <1>1, <1>2, <1>3 DEF Statement

(* Every step keeps the invariant and is a step of the contract or none.   *)
LEMMA DoNextKeeps ==
  ASSUME DoCoherentAssumption, DoInv, DoNext
  PROVE  Kept
<1>1. Fresh \subseteq Writes /\ \A w \in Fresh : w \notin db.work
  BY DEF Fresh
<1>2. CASE \/ \E w \in Fresh : Statement("INSERT", "", w)
           \/ \E stmt \in {"SELECT", "BEGIN", "COMMIT", "ROLLBACK"} : Statement(stmt, "", "")
           \/ \E n \in Names, stmt \in {"SAVEPOINT", "RELEASE", "ROLLBACK TO"} :
                Statement(stmt, n, "")
  BY <1>1, <1>2, StatementStep DEF Statements
<1>3. CASE ExecEnd
  BY <1>3, ExecEndKeeps
<1>4. CASE LoopEnd
  BY <1>4, HandleStill DEF LoopEnd
<1>5. CASE OtherCall
  BY <1>5, OtherCallKeeps DEF DoCoherentAssumption
<1>6. QED
  BY <1>2, <1>3, <1>4, <1>5 DEF DoNext

LEMMA InitDoInv ==
  ASSUME DoInit
  PROVE  DoInv /\ Contract!Init
<1>1. Agreed /\ Contract!Init
  BY InitAgreed DEF DoInit
<1>2. TextInv
  BY InitText
<1>3. QED
  BY <1>1, <1>2 DEF DoInv

LEMMA NextDoInv ==
  ASSUME DoCoherentAssumption, DoInv, [DoNext]_doVars
  PROVE  DoInv' /\ ContractStep
<1>1. Kept
  BY DoNextKeeps, HandleStill DEF doVars
<1>2. TextInv'
  BY TextNext DEF DoInv
<1>3. QED
  BY <1>1, <1>2 DEF DoInv, Kept

LEMMA DoInvariance ==
  ASSUME DoCoherentAssumption
  PROVE  DoSpec => []DoInv
<1>1. DoInit => DoInv
  BY InitDoInv
<1>2. DoInv /\ [DoNext]_doVars => DoInv'
  BY NextDoInv
<1>3. QED
  BY <1>1, <1>2, PTL DEF DoSpec

-----------------------------------------------------------------------------

(* The flags agree with the engine after every statement of every text,    *)
(* by _do() and by the loop.                                               *)
THEOREM DoFlagsAgree ==
  ASSUME DoCoherentAssumption
  PROVE  DoSpec => []AutoCommitMeansNoTransaction
<1>1. DoInv => AutoCommitMeansNoTransaction
  BY DEF DoInv, Agreed, Flagged, AutoCommitMeansNoTransaction
<1>2. QED
  BY <1>1, DoInvariance, PTL

(* What a statement of a text promised is in the file from then on.        *)
THEOREM DoDurability ==
  ASSUME DoCoherentAssumption
  PROVE  DoSpec => []PromisesKept
<1>1. DoInv => PromisesKept
  BY DEF DoInv, Agreed, PromisesKept
<1>2. QED
  BY <1>1, DoInvariance, PTL

(* Each statement of a text is one step of TxnContract or none.            *)
THEOREM DoRefinement ==
  ASSUME DoCoherentAssumption
  PROVE  DoSpec => ImplementsContract
<1>1. DoInit => DoInv /\ Contract!Init
  BY InitDoInv
<1>2. DoInv /\ [DoNext]_doVars => DoInv' /\ [Contract!Next]_(Contract!vars)
  BY NextDoInv DEF ContractStep
<1>3. QED
  BY <1>1, <1>2, PTL DEF DoSpec, ImplementsContract, Contract!Spec
==============================================================================
