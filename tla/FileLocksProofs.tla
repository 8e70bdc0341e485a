-------------------------- MODULE FileLocksProofs --------------------------
(***************************************************************************)
(* Safety of FileLocks for any number of connections in any modes.         *)
(***************************************************************************)
EXTENDS FileLocks, TLAPS

(* What a call may still have to do, and for whom.                         *)
CallShape(c) ==
  \/ Idle(c)
  \/ /\ call[c] \in {<<"begin", "read">>, <<"begin", "write">>}
     /\ Mode[c] = "immediate" /\ c \notin txn
  \/ call[c] = <<"read">> /\ (Mode[c] = "auto" \/ c \in txn)
  \/ call[c] = <<"write">> /\ c \in txn
  \/ call[c] \in {<<"write", "halt">>, <<"halt">>} /\ Mode[c] = "auto"
  \/ call[c] = <<"commit">> /\ c \in txn

(* A btree transaction belongs to a transaction of the connection, to a    *)
(* SELECT, or to the auto-commit statement that is about to end.           *)
TransOwned(c) == c \in trans => c \in txn \cup reading \/ call[c] = <<"halt">>

(* Between calls a lock belongs to a btree transaction.                    *)
LockOwned(c) == Idle(c) /\ c \notin trans => lock[c] = NO_LOCK

(* A transaction begun by BEGIN IMMEDIATE has the right to write.          *)
ImmediateLocked(c) ==
  Mode[c] = "immediate" /\ c \in txn => lock[c] >= RESERVED_LOCK /\ c \in trans

(* Whoever sleeps holds nothing, or is about to commit.                    *)
SleepsEmpty(c) == c \in sleeping /\ ~Commits(c) => lock[c] = NO_LOCK

Local(c) == /\ CallShape(c) /\ TransOwned(c) /\ LockOwned(c)
            /\ ImmediateLocked(c) /\ SleepsEmpty(c)

(* One writer, and alone when it writes to the file.                       *)
OneWriter ==
  \A c, e \in Conns : c # e /\ lock[c] >= RESERVED_LOCK =>
    /\ lock[e] < RESERVED_LOCK
    /\ lock[c] = EXCLUSIVE_LOCK => lock[e] = NO_LOCK

(* The inductive invariant.                                                *)
IInv == TypeOK /\ OneWriter /\ SnapshotHolds /\ \A c \in Conns : Local(c)

-----------------------------------------------------------------------------
(* Calls as sequences.                                                     *)

LEMMA Heads ==
  /\ Head(<<"read">>) = "read" /\ Tail(<<"read">>) = <<>>
  /\ Head(<<"write">>) = "write" /\ Tail(<<"write">>) = <<>>
  /\ Head(<<"halt">>) = "halt" /\ Tail(<<"halt">>) = <<>>
  /\ Head(<<"commit">>) = "commit" /\ Tail(<<"commit">>) = <<>>
  /\ Head(<<"begin", "read">>) = "begin" /\ Tail(<<"begin", "read">>) = <<"read">>
  /\ Head(<<"begin", "write">>) = "begin" /\ Tail(<<"begin", "write">>) = <<"write">>
  /\ Head(<<"write", "halt">>) = "write" /\ Tail(<<"write", "halt">>) = <<"halt">>
OBVIOUS

LEMMA Differ ==
  /\ <<"halt">> # <<>> /\ <<"halt">> # <<"write">> /\ <<"halt">> # <<"commit">>
  /\ <<"halt">> # <<"read">> /\ <<"halt">> # <<"write", "halt">>
  /\ <<"halt">> # <<"begin", "read">> /\ <<"halt">> # <<"begin", "write">>
OBVIOUS
-----------------------------------------------------------------------------
(* A connection's steps are its own.                                       *)

LEMMA Frame ==
  ASSUME TypeOK, NEW c \in Conns, Engine(c) \/ Application(c),
         NEW e \in Conns, e # c
  PROVE  /\ lock'[e] = lock[e] /\ call'[e] = call[e]
         /\ e \in sleeping' <=> e \in sleeping
         /\ e \in txn' <=> e \in txn
         /\ e \in trans' <=> e \in trans
         /\ e \in reading' <=> e \in reading
<1>1. CASE Engine(c)
  BY <1>1 DEF Engine, Acquire, Sleep, Wake, Refuse, Perform, Publish, GiveBack,
              EndTransaction, Proceed, TypeOK
<1>2. CASE Application(c)
  BY <1>2 DEF Application, Statement, FinishRead, Commit, Rollback,
              EndTransaction, TypeOK
<1>3. QED
  BY <1>1, <1>2

LEMMA OthersLocal ==
  ASSUME TypeOK, NEW c \in Conns, Engine(c) \/ Application(c),
         NEW e \in Conns, e # c, Local(e)
  PROVE  Local(e)'
BY Frame DEF Local, CallShape, TransOwned, LockOwned, ImmediateLocked,
             SleepsEmpty, Idle, Commits

-----------------------------------------------------------------------------
(* The steps of the application.                                           *)

LEMMA StatementInv ==
  ASSUME IInv, NEW c \in Conns, NEW op \in {"read", "write"}, Statement(c, op)
  PROVE  TypeOK' /\ Local(c)'
<1>1. /\ Idle(c) /\ c \notin sleeping /\ Mode[c] \in {"auto", "immediate", "deferred"}
      /\ Local(c)
  BY ModeAssumption DEF Statement, IInv, TypeOK
<1>2. /\ call'[c] = CallFor(c, op)
      /\ call' = [call EXCEPT ![c] = CallFor(c, op)]
      /\ UNCHANGED <<lock, sleeping, trans, reading, current>>
      /\ txn' = IF Mode[c] = "deferred" THEN txn \cup {c} ELSE txn
      /\ busy' \subseteq Conns
  BY DEF Statement, IInv, TypeOK
<1>3. CallFor(c, op) \in Seq(Ops) /\ CallFor(c, op) # <<>>
  <2>1. op \in Ops /\ "begin" \in Ops /\ "halt" \in Ops
    BY DEF Ops
  <2>2. /\ <<"begin", op>> \in Seq(Ops) /\ <<"begin", op>> # <<>>
        /\ <<op, "halt">> \in Seq(Ops) /\ <<op, "halt">> # <<>>
        /\ <<op>> \in Seq(Ops) /\ <<op>> # <<>>
    BY <2>1
  <2>3. CallFor(c, op) \in {<<"begin", op>>, <<op, "halt">>, <<op>>}
    BY DEF CallFor
  <2>4. QED
    BY <2>2, <2>3
<1>4. TypeOK'
  BY <1>2, <1>3 DEF IInv, TypeOK, Idle
<1>5. CallShape(c)'
  <2>1. CASE Mode[c] = "immediate" /\ c \notin txn
    BY <1>2, <2>1 DEF CallFor, CallShape
  <2>2. CASE Mode[c] = "auto"
    BY <1>2, <2>2 DEF CallFor, CallShape
  <2>3. CASE Mode[c] = "deferred" \/ (Mode[c] = "immediate" /\ c \in txn)
    <3>1. call'[c] = <<op>> /\ c \in txn'
      BY <1>2, <2>3 DEF CallFor
    <3>2. QED
      BY <3>1 DEF CallShape
  <2>4. QED
    BY <1>1, <2>1, <2>2, <2>3
<1>6. TransOwned(c)' /\ LockOwned(c)' /\ ImmediateLocked(c)' /\ SleepsEmpty(c)'
  BY <1>1, <1>2, <1>3, Differ DEF Local, TransOwned, LockOwned, ImmediateLocked,
                                  SleepsEmpty, Idle
<1>7. QED
  BY <1>4, <1>5, <1>6 DEF Local

LEMMA FinishReadInv ==
  ASSUME IInv, NEW c \in Conns, FinishRead(c)
  PROVE  TypeOK' /\ Local(c)'
<1>1. Idle(c) /\ Local(c) /\ call[c] # <<"halt">>
  BY Differ DEF FinishRead, IInv, Idle
<1>2. TypeOK'
  <2>1. CASE c \in txn
    BY <2>1 DEF FinishRead, IInv, TypeOK, Idle
  <2>2. CASE c \notin txn
    <3>1. /\ lock' = [lock EXCEPT ![c] = NO_LOCK]
          /\ trans' = trans \ {c} /\ reading' = reading \ {c}
          /\ UNCHANGED <<call, sleeping, txn, current, busy>>
      BY <2>2 DEF FinishRead
    <3>2. lock' \in [Conns -> Locks]
      BY <3>1 DEF IInv, TypeOK, Locks, NO_LOCK, EXCLUSIVE_LOCK
    <3>3. trans' \subseteq {e \in Conns : lock'[e] >= SHARED_LOCK}
      BY <3>1 DEF IInv, TypeOK
    <3>4. QED
      BY <3>1, <3>2, <3>3 DEF IInv, TypeOK, Idle
  <2>3. QED
    BY <2>1, <2>2
<1>3. CASE c \in txn
  BY <1>1, <1>2, <1>3 DEF FinishRead, Local, CallShape, TransOwned, LockOwned,
       ImmediateLocked, SleepsEmpty, Idle, Commits
<1>4. CASE c \notin txn
  <2>1. lock'[c] = NO_LOCK /\ c \notin trans' /\ UNCHANGED <<call, txn>>
    BY <1>4 DEF FinishRead, IInv, TypeOK
  <2>2. QED
    BY <1>1, <1>2, <1>4, <2>1 DEF Local, CallShape, TransOwned, LockOwned,
       ImmediateLocked, SleepsEmpty, Idle, Commits
<1>5. QED
  BY <1>3, <1>4

LEMMA CommitInv ==
  ASSUME IInv, NEW c \in Conns, Commit(c)
  PROVE  TypeOK' /\ Local(c)'
<1>1. /\ Idle(c) /\ Local(c) /\ c \in txn /\ c \notin sleeping
      /\ call'[c] = <<"commit">> /\ <<"commit">> # <<>>
      /\ UNCHANGED <<lock, sleeping, txn, trans, reading, current>>
  BY DEF Commit, IInv, TypeOK
<1>2. TypeOK'
  BY <1>1 DEF Commit, IInv, TypeOK, Idle, Ops
<1>3. QED
  BY <1>1, <1>2 DEF Local, CallShape, TransOwned, LockOwned, ImmediateLocked,
                    SleepsEmpty, Idle

(* What the end of a transaction leaves.                                   *)
LEMMA EndTransactionLeaves ==
  ASSUME TypeOK, NEW c \in Conns, EndTransaction(c)
  PROVE  /\ lock' \in [Conns -> Locks]
         /\ lock'[c] = IF c \in reading THEN SHARED_LOCK ELSE NO_LOCK
         /\ c \notin txn'
         /\ c \in trans' <=> c \in reading
         /\ trans' \subseteq {e \in Conns : lock'[e] >= SHARED_LOCK}
         /\ reading \subseteq trans'
         /\ txn' \subseteq Conns
<1>1. /\ lock' = [lock EXCEPT ![c] = LockAtEnd(c)]
      /\ lock'[c] = LockAtEnd(c)
      /\ LockAtEnd(c) \in Locks
  BY DEF EndTransaction, TypeOK, LockAtEnd, Locks, NO_LOCK, SHARED_LOCK, EXCLUSIVE_LOCK
<1>2. /\ trans' = IF c \in reading THEN trans ELSE trans \ {c}
      /\ txn' = txn \ {c}
      /\ reading \subseteq trans
  BY DEF EndTransaction, TypeOK
<1>3. ASSUME NEW e \in trans'
      PROVE  e \in Conns /\ lock'[e] >= SHARED_LOCK
  <2>1. CASE e = c
    BY <1>1, <1>2, <1>3, <2>1 DEF LockAtEnd, SHARED_LOCK
  <2>2. CASE e # c
    BY <1>1, <1>2, <1>3, <2>2 DEF TypeOK
  <2>3. QED
    BY <2>1, <2>2
<1>4. QED
  BY <1>1, <1>2, <1>3 DEF LockAtEnd, TypeOK

LEMMA RollbackInv ==
  ASSUME IInv, NEW c \in Conns, Rollback(c)
  PROVE  TypeOK' /\ Local(c)'
<1>1. /\ Idle(c) /\ Local(c) /\ EndTransaction(c) /\ TypeOK /\ c \notin sleeping
      /\ UNCHANGED <<call, sleeping, reading, current>>
      /\ busy' \subseteq Conns
  BY DEF Rollback, IInv, TypeOK
<1>2. TypeOK'
  BY <1>1, EndTransactionLeaves DEF TypeOK, Idle
<1>3. QED
  BY <1>1, <1>2, EndTransactionLeaves DEF Local, CallShape, TransOwned, LockOwned,
     ImmediateLocked, SleepsEmpty, Idle

-----------------------------------------------------------------------------
(* The steps of the engine.                                                *)

(* What the operations of a call need.                                     *)
LEMMA Needs ==
  ASSUME TypeOK, NEW c \in Conns, CallShape(c), ~Idle(c)
  PROVE  /\ Head(call[c]) \in Ops
         /\ Need(c) \in Locks
         /\ Commits(c) => Need(c) = IF lock[c] >= RESERVED_LOCK THEN EXCLUSIVE_LOCK ELSE NO_LOCK
         /\ ~Commits(c) => Need(c) \in {SHARED_LOCK, RESERVED_LOCK}
         /\ Head(call[c]) # "read" /\ ~Commits(c) => Need(c) = RESERVED_LOCK
         /\ Commits(c) => call[c] \in {<<"commit">>, <<"halt">>} /\ Tail(call[c]) = <<>>
         /\ Head(call[c]) = "halt" <=> call[c] = <<"halt">>
<1>1. Head(call[c]) \in Ops
  BY Heads DEF CallShape, Idle, Ops
<1>2. /\ Commits(c) => call[c] \in {<<"commit">>, <<"halt">>} /\ Tail(call[c]) = <<>>
      /\ Head(call[c]) = "halt" <=> call[c] = <<"halt">>
  BY Heads DEF CallShape, Idle, Commits
<1>3. QED
  BY <1>1, <1>2 DEF Need, Commits, Ops, Locks, NO_LOCK, SHARED_LOCK, RESERVED_LOCK,
                    EXCLUSIVE_LOCK

LEMMA AcquireInv ==
  ASSUME IInv, NEW c \in Conns, Acquire(c)
  PROVE  TypeOK' /\ Local(c)'
<1>1. /\ ~Idle(c) /\ c \notin sleeping /\ Local(c)
      /\ lock[c] \in Locks /\ lock[c] < Need(c) /\ Need(c) \in Locks
      /\ lock' = [lock EXCEPT ![c] = lock[c] + 1]
      /\ UNCHANGED <<call, sleeping, txn, trans, reading, busy>>
  BY Needs DEF Acquire, Runs, IInv, TypeOK, Local
<1>2. lock' \in [Conns -> Locks] /\ lock'[c] = lock[c] + 1
  BY <1>1 DEF IInv, TypeOK, Locks, NO_LOCK, EXCLUSIVE_LOCK
<1>3. current' \subseteq Conns
  BY DEF Acquire, IInv, TypeOK
<1>4. \A e \in Conns : lock[e] >= SHARED_LOCK => lock'[e] >= SHARED_LOCK
  BY <1>1 DEF IInv, TypeOK, Locks, NO_LOCK, SHARED_LOCK, EXCLUSIVE_LOCK
<1>5. TypeOK'
  BY <1>1, <1>2, <1>3, <1>4 DEF IInv, TypeOK, Idle
<1>6. QED
  BY <1>1, <1>2, <1>5 DEF Local, CallShape, TransOwned, LockOwned, ImmediateLocked,
     SleepsEmpty, Idle, Commits, Locks, NO_LOCK, RESERVED_LOCK, EXCLUSIVE_LOCK

(* What a failed attempt gives back.                                       *)
LEMMA GiveBackLeaves ==
  ASSUME TypeOK, NEW c \in Conns, GiveBack(c)
  PROVE  /\ lock' \in [Conns -> Locks]
         /\ lock'[c] = IF c \in trans THEN lock[c] ELSE NO_LOCK
         /\ trans \subseteq {e \in Conns : lock'[e] >= SHARED_LOCK}
<1>1. CASE c \in trans
  BY <1>1 DEF GiveBack, TypeOK
<1>2. CASE c \notin trans
  <2>1. lock' = [lock EXCEPT ![c] = NO_LOCK]
    BY <1>2 DEF GiveBack
  <2>2. QED
    BY <1>2, <2>1 DEF TypeOK, Locks, NO_LOCK, EXCLUSIVE_LOCK
<1>3. QED
  BY <1>1, <1>2

LEMMA SleepInv ==
  ASSUME IInv, NEW c \in Conns, Sleep(c)
  PROVE  TypeOK' /\ Local(c)'
<1>1. /\ ~Idle(c) /\ c \notin sleeping /\ Local(c) /\ GiveBack(c) /\ TypeOK
      /\ Commits(c) \/ c \notin trans
      /\ sleeping' = sleeping \cup {c}
      /\ UNCHANGED <<call, txn, trans, reading, current, busy>>
  BY DEF Sleep, Runs, MayWait, IInv
<1>2. TypeOK'
  BY <1>1, GiveBackLeaves DEF TypeOK, Idle
<1>3. CallShape(c)' /\ TransOwned(c)' /\ LockOwned(c)'
  BY <1>1 DEF Local, CallShape, TransOwned, LockOwned, Idle
<1>4. ImmediateLocked(c)'
  BY <1>1, GiveBackLeaves DEF Local, ImmediateLocked
<1>5. SleepsEmpty(c)'
  BY <1>1, GiveBackLeaves DEF SleepsEmpty, Commits
<1>6. QED
  BY <1>2, <1>3, <1>4, <1>5 DEF Local

LEMMA WakeInv ==
  ASSUME IInv, NEW c \in Conns, Wake(c)
  PROVE  TypeOK' /\ Local(c)'
BY DEF Wake, IInv, TypeOK, Local, CallShape, TransOwned, LockOwned, ImmediateLocked,
       SleepsEmpty, Idle, Commits

LEMMA RefuseInv ==
  ASSUME IInv, NEW c \in Conns, Refuse(c)
  PROVE  TypeOK' /\ Local(c)'
<1>1. /\ ~Idle(c) /\ c \notin sleeping /\ Local(c) /\ TypeOK
      /\ call' = [call EXCEPT ![c] = <<>>] /\ call'[c] = <<>>
      /\ UNCHANGED <<sleeping, reading, current>>
      /\ busy' \subseteq Conns
  BY DEF Refuse, Runs, IInv, TypeOK
<1>2. call' \in [Conns -> Seq(Ops)]
  BY <1>1 DEF TypeOK
<1>3. sleeping' \subseteq {e \in Conns : ~Idle(e)}'
  BY <1>1 DEF TypeOK, Idle
<1>4. CASE Head(call[c]) = "halt"
  <2>1. EndTransaction(c)
    BY <1>4 DEF Refuse
  <2>2. TypeOK'
    BY <1>1, <1>2, <1>3, <2>1, EndTransactionLeaves DEF TypeOK
  <2>3. QED
    BY <1>1, <2>1, <2>2, EndTransactionLeaves DEF Local, CallShape, TransOwned,
       LockOwned, ImmediateLocked, SleepsEmpty, Idle
<1>5. CASE Head(call[c]) # "halt"
  <2>1. GiveBack(c) /\ UNCHANGED <<txn, trans>>
    BY <1>5 DEF Refuse
  <2>2. TypeOK'
    BY <1>1, <1>2, <1>3, <2>1, GiveBackLeaves DEF TypeOK
  <2>3. call[c] # <<"halt">>
    BY <1>5, Heads
  <2>4. CallShape(c)' /\ TransOwned(c)'
    BY <1>1, <2>1, <2>3 DEF Local, CallShape, TransOwned, Idle
  <2>5. LockOwned(c)' /\ ImmediateLocked(c)' /\ SleepsEmpty(c)'
    BY <1>1, <2>1, GiveBackLeaves DEF Local, LockOwned, ImmediateLocked, SleepsEmpty
  <2>6. QED
    BY <2>2, <2>4, <2>5 DEF Local
<1>6. QED
  BY <1>4, <1>5

LEMMA PerformInv ==
  ASSUME IInv, NEW c \in Conns, Perform(c)
  PROVE  TypeOK' /\ Local(c)'
<1>1. /\ ~Idle(c) /\ c \notin sleeping /\ Local(c) /\ TypeOK /\ CallShape(c)
      /\ ~Commits(c) /\ lock[c] >= Need(c) /\ lock[c] \in Locks
      /\ call' = [call EXCEPT ![c] = Tail(call[c])]
      /\ trans' = trans \cup {c}
      /\ txn' = IF Head(call[c]) = "begin" THEN txn \cup {c} ELSE txn
      /\ reading' = IF Head(call[c]) = "read" THEN reading \cup {c} ELSE reading
      /\ UNCHANGED <<lock, sleeping, busy, current>>
  BY DEF Perform, Runs, Proceed, IInv, TypeOK, Local
<1>2. /\ Need(c) \in {SHARED_LOCK, RESERVED_LOCK}
      /\ Head(call[c]) # "read" => Need(c) = RESERVED_LOCK
  BY <1>1, Needs
<1>3. lock[c] >= SHARED_LOCK
  BY <1>1, <1>2 DEF Locks, NO_LOCK, EXCLUSIVE_LOCK, SHARED_LOCK, RESERVED_LOCK
<1>4. call' \in [Conns -> Seq(Ops)] /\ call'[c] = Tail(call[c])
  <2>1. call[c] \in Seq(Ops) /\ call[c] # <<>>
    BY <1>1 DEF TypeOK, Idle
  <2>2. Tail(call[c]) \in Seq(Ops)
    BY <2>1
  <2>3. QED
    BY <1>1, <2>2 DEF TypeOK
<1>5. TypeOK'
  <2>1. sleeping' \subseteq {e \in Conns : ~Idle(e)}'
    BY <1>1 DEF TypeOK, Idle
  <2>2. trans' \subseteq {e \in Conns : lock'[e] >= SHARED_LOCK} /\ reading' \subseteq trans'
    BY <1>1, <1>3 DEF TypeOK
  <2>3. QED
    BY <1>1, <1>4, <2>1, <2>2 DEF TypeOK
<1>6. CASE Head(call[c]) = "begin"
  <2>1. /\ call'[c] \in {<<"read">>, <<"write">>}
        /\ c \in txn' /\ c \in trans'
        /\ Mode[c] = "immediate"
    BY <1>1, <1>4, <1>6, Heads DEF CallShape, Idle
  <2>2. lock'[c] >= RESERVED_LOCK
    BY <1>1, <1>2, <1>6
  <2>3. CallShape(c)' /\ TransOwned(c)' /\ LockOwned(c)'
    BY <2>1 DEF CallShape, TransOwned, LockOwned
  <2>4. QED
    BY <1>1, <1>5, <2>1, <2>2, <2>3 DEF Local, ImmediateLocked, SleepsEmpty
<1>7. CASE Head(call[c]) = "read"
  <2>1. call'[c] = <<>> /\ c \in reading' /\ c \in trans' /\ UNCHANGED txn
    BY <1>1, <1>4, <1>7, Heads DEF CallShape, Idle
  <2>2. QED
    BY <1>1, <1>5, <2>1 DEF Local, CallShape, TransOwned, LockOwned,
       ImmediateLocked, SleepsEmpty, Idle
<1>8. CASE Head(call[c]) = "write"
  <2>1. /\ \/ call'[c] = <<>> /\ c \in txn
           \/ call'[c] = <<"halt">> /\ Mode[c] = "auto"
        /\ c \in trans' /\ UNCHANGED txn
    BY <1>1, <1>4, <1>8, Heads DEF CallShape, Idle
  <2>2. QED
    BY <1>1, <1>5, <2>1 DEF Local, CallShape, TransOwned, LockOwned,
       ImmediateLocked, SleepsEmpty, Idle
<1>9. QED
  BY <1>1, <1>6, <1>7, <1>8, Needs DEF Commits, Ops

LEMMA PublishInv ==
  ASSUME IInv, NEW c \in Conns, Publish(c)
  PROVE  TypeOK' /\ Local(c)'
<1>1. /\ ~Idle(c) /\ c \notin sleeping /\ TypeOK /\ CallShape(c)
      /\ Commits(c) /\ EndTransaction(c)
      /\ call' = [call EXCEPT ![c] = Tail(call[c])]
      /\ current' \subseteq Conns
      /\ UNCHANGED <<sleeping, busy, reading>>
  BY DEF Publish, Runs, Proceed, IInv, TypeOK, Local
<1>2. call'[c] = <<>> /\ call' \in [Conns -> Seq(Ops)]
  <2>1. Tail(call[c]) = <<>>
    BY <1>1, Needs
  <2>2. call' = [call EXCEPT ![c] = <<>>]
    BY <1>1, <2>1
  <2>3. <<>> \in Seq(Ops)
    OBVIOUS
  <2>4. QED
    BY <1>1, <2>2, <2>3 DEF TypeOK
<1>3. sleeping' \subseteq {e \in Conns : ~Idle(e)}'
  BY <1>1 DEF TypeOK, Idle
<1>4. TypeOK'
  BY <1>1, <1>2, <1>3, EndTransactionLeaves DEF TypeOK
<1>5. QED
  BY <1>1, <1>2, <1>4, EndTransactionLeaves DEF Local, CallShape, TransOwned,
     LockOwned, ImmediateLocked, SleepsEmpty, Idle

-----------------------------------------------------------------------------
(* The locks of all connections together.                                  *)

(* A step that takes no lock and publishes nothing keeps the order.        *)
LEMMA NoMoreLocks ==
  ASSUME IInv, TypeOK', NEW c \in Conns,
         \A e \in Conns : e # c => lock'[e] = lock[e],
         lock'[c] <= lock[c], UNCHANGED current
  PROVE  OneWriter' /\ SnapshotHolds'
<1>1. \A e \in Conns : lock'[e] <= lock[e] /\ lock[e] \in Locks /\ lock'[e] \in Locks
  BY DEF IInv, TypeOK, Locks, NO_LOCK, EXCLUSIVE_LOCK
<1>2. SnapshotHolds'
  BY <1>1 DEF IInv, SnapshotHolds, Locks, NO_LOCK, EXCLUSIVE_LOCK, SHARED_LOCK
<1>3. OneWriter'
  BY <1>1 DEF IInv, OneWriter, Locks, NO_LOCK, EXCLUSIVE_LOCK, SHARED_LOCK,
              RESERVED_LOCK
<1>4. QED
  BY <1>2, <1>3

LEMMA AcquireLocks ==
  ASSUME IInv, NEW c \in Conns, Acquire(c)
  PROVE  OneWriter' /\ SnapshotHolds'
<1>1. /\ lock' = [lock EXCEPT ![c] = lock[c] + 1]
      /\ lock \in [Conns -> Locks] /\ lock[c] \in Locks
      /\ lock[c] < Need(c) /\ Need(c) \in Locks
      /\ Obstacles(c, lock[c] + 1) = {}
  BY Needs DEF Acquire, Runs, IInv, TypeOK, Local
<1>2. \A e \in Conns : /\ lock[e] \in Locks
                       /\ e # c => lock'[e] = lock[e]
      /\ lock'[c] = lock[c] + 1
  BY <1>1
<1>3. SnapshotHolds'
  <2>1. c \in current'
    BY <1>1 DEF Acquire, IInv, SnapshotHolds, Locks, NO_LOCK, SHARED_LOCK
  <2>2. current \subseteq current'
    BY DEF Acquire
  <2>3. QED
    BY <1>2, <2>1, <2>2 DEF IInv, SnapshotHolds
<1>4. OneWriter'
  <2> USE DEF NO_LOCK, SHARED_LOCK, RESERVED_LOCK, PENDING_LOCK, EXCLUSIVE_LOCK,
              Locks, Holders, Others
  <2>1. lock[c] \in {0, 1, 2, 3}
    BY <1>1
  <2>2. CASE lock[c] = 0
    <3>1. \A e \in Conns : e # c => ~(lock[e] >= 3)
      BY <1>1, <2>2 DEF Obstacles
    <3>2. QED
      BY <1>2, <2>2, <3>1 DEF IInv, OneWriter
  <2>3. CASE lock[c] = 1
    <3>1. \A e \in Conns : e # c => ~(lock[e] >= 2)
      BY <1>1, <2>3 DEF Obstacles
    <3>2. QED
      BY <1>2, <2>3, <3>1 DEF IInv, OneWriter
  <2>4. CASE lock[c] = 2
    BY <1>2, <2>4 DEF IInv, OneWriter
  <2>5. CASE lock[c] = 3
    <3>1. \A e \in Conns : e # c => ~(lock[e] >= 1)
      BY <1>1, <2>5 DEF Obstacles
    <3>2. QED
      BY <1>2, <2>5, <3>1 DEF IInv, OneWriter
  <2>6. QED
    BY <2>1, <2>2, <2>3, <2>4, <2>5
<1>5. QED
  BY <1>3, <1>4

LEMMA EndsLower ==
  ASSUME IInv, NEW c \in Conns, EndTransaction(c) \/ GiveBack(c)
  PROVE  /\ lock'[c] <= lock[c]
         /\ \A e \in Conns : e # c => lock'[e] = lock[e]
<1>1. lock \in [Conns -> Locks] /\ lock[c] \in Locks /\ TypeOK
  BY DEF IInv, TypeOK
<1>2. CASE EndTransaction(c)
  <2>1. c \in reading => lock[c] >= SHARED_LOCK
    BY <1>1 DEF TypeOK
  <2>2. lock' = [lock EXCEPT ![c] = LockAtEnd(c)]
    BY <1>2 DEF EndTransaction
  <2>3. QED
    BY <1>1, <2>1, <2>2 DEF LockAtEnd, Locks, NO_LOCK, SHARED_LOCK, EXCLUSIVE_LOCK
<1>3. CASE GiveBack(c)
  BY <1>1, <1>3 DEF GiveBack, Locks, NO_LOCK, EXCLUSIVE_LOCK
<1>4. QED
  BY <1>2, <1>3

LEMMA PublishLocks ==
  ASSUME IInv, TypeOK', NEW c \in Conns, Publish(c)
  PROVE  OneWriter' /\ SnapshotHolds'
<1>1. EndTransaction(c) /\ TypeOK /\ lock[c] \in Locks
  BY DEF Publish, IInv, TypeOK
<1>2. /\ lock'[c] <= lock[c]
      /\ \A e \in Conns : e # c => lock'[e] = lock[e]
  BY <1>1, EndsLower
<1>3. CASE lock[c] = EXCLUSIVE_LOCK
  <2>1. current' = {c}
    BY <1>3 DEF Publish
  <2>2. \A e \in Conns : e # c => lock'[e] = NO_LOCK
    BY <1>2, <1>3 DEF IInv, OneWriter, EXCLUSIVE_LOCK, RESERVED_LOCK
  <2>3. lock'[c] \in {NO_LOCK, SHARED_LOCK}
    BY <1>1, EndTransactionLeaves
  <2>4. QED
    BY <2>1, <2>2, <2>3 DEF OneWriter, SnapshotHolds, NO_LOCK, SHARED_LOCK,
                            RESERVED_LOCK, EXCLUSIVE_LOCK
<1>4. CASE lock[c] # EXCLUSIVE_LOCK
  BY <1>2, <1>4, NoMoreLocks DEF Publish
<1>5. QED
  BY <1>3, <1>4

LEMMA EngineInv ==
  ASSUME IInv, NEW c \in Conns, Engine(c)
  PROVE  TypeOK' /\ Local(c)' /\ OneWriter' /\ SnapshotHolds'
<1>1. CASE Acquire(c)
  BY <1>1, AcquireInv, AcquireLocks
<1>2. CASE Sleep(c)
  <2>1. GiveBack(c) /\ UNCHANGED current
    BY <1>2 DEF Sleep
  <2>2. QED
    BY <1>2, <2>1, SleepInv, EndsLower, NoMoreLocks
<1>3. CASE Wake(c)
  <2>1. UNCHANGED <<lock, current>>
    BY <1>3 DEF Wake
  <2>2. QED
    BY <1>3, <2>1, WakeInv DEF IInv, OneWriter, SnapshotHolds
<1>4. CASE Refuse(c)
  <2>1. (EndTransaction(c) \/ GiveBack(c)) /\ UNCHANGED current
    BY <1>4 DEF Refuse
  <2>2. QED
    BY <1>4, <2>1, RefuseInv, EndsLower, NoMoreLocks
<1>5. CASE Perform(c)
  <2>1. UNCHANGED <<lock, current>>
    BY <1>5 DEF Perform
  <2>2. QED
    BY <1>5, <2>1, PerformInv DEF IInv, OneWriter, SnapshotHolds
<1>6. CASE Publish(c)
  BY <1>6, PublishInv, PublishLocks
<1>7. QED
  BY <1>1, <1>2, <1>3, <1>4, <1>5, <1>6 DEF Engine

LEMMA ApplicationInv ==
  ASSUME IInv, NEW c \in Conns, Application(c)
  PROVE  TypeOK' /\ Local(c)' /\ OneWriter' /\ SnapshotHolds'
<1>1. ASSUME NEW op \in {"read", "write"}, Statement(c, op)
      PROVE  TypeOK' /\ Local(c)' /\ OneWriter' /\ SnapshotHolds'
  <2>1. UNCHANGED <<lock, current>>
    BY <1>1 DEF Statement
  <2>2. QED
    BY <1>1, <2>1, StatementInv DEF IInv, OneWriter, SnapshotHolds
<1>2. CASE FinishRead(c)
  <2>1. /\ lock'[c] <= lock[c]
        /\ \A e \in Conns : e # c => lock'[e] = lock[e]
        /\ UNCHANGED current
    BY <1>2 DEF FinishRead, IInv, TypeOK, Locks, NO_LOCK, EXCLUSIVE_LOCK
  <2>2. QED
    BY <1>2, <2>1, FinishReadInv, NoMoreLocks
<1>3. CASE Commit(c)
  <2>1. UNCHANGED <<lock, current>>
    BY <1>3 DEF Commit
  <2>2. QED
    BY <1>3, <2>1, CommitInv DEF IInv, OneWriter, SnapshotHolds
<1>4. CASE Rollback(c)
  <2>1. EndTransaction(c) /\ UNCHANGED current
    BY <1>4 DEF Rollback
  <2>2. QED
    BY <1>4, <2>1, RollbackInv, EndsLower, NoMoreLocks
<1>5. QED
  BY <1>1, <1>2, <1>3, <1>4 DEF Application

LEMMA InitInv ==
  ASSUME Init
  PROVE  IInv
<1>1. TypeOK
  BY DEF Init, TypeOK, Idle, Locks, NO_LOCK, EXCLUSIVE_LOCK
<1>2. \A c \in Conns : Local(c)
  BY Differ DEF Init, Local, CallShape, TransOwned, LockOwned, ImmediateLocked,
                SleepsEmpty, Idle
<1>3. OneWriter /\ SnapshotHolds
  BY DEF Init, OneWriter, SnapshotHolds, NO_LOCK, SHARED_LOCK, RESERVED_LOCK
<1>4. QED
  BY <1>1, <1>2, <1>3 DEF IInv

LEMMA StepInv ==
  ASSUME IInv, [Next]_vars
  PROVE  IInv'
<1>1. ASSUME NEW c \in Conns, Engine(c) \/ Application(c)
      PROVE  IInv'
  <2>1. TypeOK' /\ Local(c)' /\ OneWriter' /\ SnapshotHolds'
    BY <1>1, EngineInv, ApplicationInv
  <2>2. ASSUME NEW e \in Conns, e # c
        PROVE  Local(e)'
    BY <1>1, <2>2, OthersLocal DEF IInv
  <2>3. QED
    BY <2>1, <2>2 DEF IInv
<1>2. CASE UNCHANGED vars
  BY <1>2 DEF vars, IInv, TypeOK, OneWriter, SnapshotHolds, Local, CallShape,
     TransOwned, LockOwned, ImmediateLocked, SleepsEmpty, Idle, Commits
<1>3. QED
  BY <1>1, <1>2 DEF Next

(* Every action of the application and every step of the engine keeps the  *)
(* order of locks and what ties a connection's locks to its transaction.   *)
THEOREM InductiveInvariant == Spec => []IInv
<1>1. Init => IInv
  BY InitInv
<1>2. IInv /\ [Next]_vars => IInv'
  BY StepInv
<1>3. QED
  BY <1>1, <1>2, PTL DEF Spec

-----------------------------------------------------------------------------
(* The theorems.                                                           *)

(* However many connections there are: each one that holds a lock reads,   *)
(* and writes from, the version of the file that is the last.              *)
THEOREM SnapshotsHold == Spec => []SnapshotHolds
<1>1. IInv => SnapshotHolds
  BY DEF IInv
<1>2. QED
  BY <1>1, InductiveInvariant, PTL

(* Every reachable state is well formed, for any connections and modes.    *)
THEOREM TypeCorrect == Spec => []TypeOK
<1>1. IInv => TypeOK
  BY DEF IInv
<1>2. QED
  BY <1>1, InductiveInvariant, PTL

(* No call of the driver leaves a lock behind, refused ones included.      *)
THEOREM NoLockIsForgotten == Spec => []IdleHoldsNothing
<1>1. IInv => IdleHoldsNothing
  BY Differ DEF IInv, Local, TransOwned, LockOwned, IdleHoldsNothing, Idle
<1>2. QED
  BY <1>1, InductiveInvariant, PTL

(* Whom a connection waits for.                                            *)
LEMMA WaitFacts ==
  ASSUME IInv, NEW c \in Conns, NEW e \in WaitsFor(c)
  PROVE  e \in Conns /\ e # c /\ lock[e] >= SHARED_LOCK /\ lock[c] < Need(c)
<1> USE DEF Locks, NO_LOCK, SHARED_LOCK, RESERVED_LOCK, PENDING_LOCK, EXCLUSIVE_LOCK
<1>1. PICK level \in lock[c] + 1 .. Need(c) : e \in Obstacles(c, level)
  BY DEF WaitsFor
<1>2. c \in sleeping /\ ~Idle(c) /\ CallShape(c) /\ TypeOK /\ lock[c] \in Locks
  BY DEF WaitsFor, IInv, TypeOK, Local
<1>3. Need(c) \in Locks
  BY <1>2, Needs
<1>4. level \in 1 .. 4 /\ lock[c] < Need(c)
  BY <1>1, <1>2, <1>3
<1>5. \E l \in 1 .. 4 : e \in Holders(c, l)
  BY <1>1, <1>4 DEF Obstacles
<1>6. PICK l \in 1 .. 4 : e \in Holders(c, l)
  BY <1>5
<1>7. e \in Conns /\ e # c /\ lock[e] >= l /\ lock[e] \in Locks
  BY <1>2, <1>6 DEF Holders, Others, TypeOK
<1>8. QED
  BY <1>4, <1>7

(* Connections asleep in the busy handler never wait for each other in a   *)
(* ring: only one of them can hold a lock, the one that is about to        *)
(* commit, and it does not wait for those that hold none.                  *)
THEOREM WaitsEnd == Spec => []NoCircularWait
<1> USE DEF NO_LOCK, SHARED_LOCK, RESERVED_LOCK, PENDING_LOCK, EXCLUSIVE_LOCK
<1>1. ASSUME IInv, NEW c \in Conns, NEW e \in WaitsFor(c), WaitsFor(e) # {}
      PROVE  lock[e] >= RESERVED_LOCK
  <2>1. e \in Conns /\ lock[e] >= SHARED_LOCK /\ lock[e] < Need(e)
    BY <1>1, WaitFacts
  <2>2. e \in sleeping /\ ~Idle(e) /\ CallShape(e) /\ TypeOK
    BY <1>1, <2>1 DEF WaitsFor, IInv, TypeOK, Local
  <2>3. Commits(e)
    BY <1>1, <2>1, <2>2 DEF IInv, Local, SleepsEmpty
  <2>4. lock[e] \in Locks /\ Need(e) = IF lock[e] >= RESERVED_LOCK
                                         THEN EXCLUSIVE_LOCK ELSE NO_LOCK
    BY <2>1, <2>2, <2>3, Needs DEF TypeOK
  <2>5. QED
    BY <2>1, <2>4 DEF Locks
<1>2. ASSUME IInv
      PROVE  NoCircularWait
  <2>1. SUFFICES ASSUME NEW S \in SUBSET Conns, S # {},
                        \A c \in S : WaitsFor(c) \cap S # {}
                 PROVE  FALSE
    BY DEF NoCircularWait
  <2>2. \A c \in S : \E e \in S : e # c /\ e \in WaitsFor(c)
    <3>1. S \subseteq Conns
      BY <2>1
    <3>2. QED
      BY <1>2, <2>1, <3>1, WaitFacts
  <2>3. \A e \in S : WaitsFor(e) # {}
    BY <2>1
  <2>4. PICK c \in S : TRUE
    BY <2>1
  <2>5. PICK e \in S : e # c /\ e \in WaitsFor(c)
    BY <2>2
  <2>6. PICK f \in S : f # e /\ f \in WaitsFor(e)
    BY <2>2
  <2>7. lock[e] >= RESERVED_LOCK /\ lock[f] >= RESERVED_LOCK
    BY <1>1, <1>2, <2>1, <2>3, <2>5, <2>6
  <2>8. lock[f] < RESERVED_LOCK /\ lock[f] \in Locks
    BY <1>2, <2>1, <2>6, <2>7 DEF IInv, OneWriter, TypeOK
  <2>9. QED
    BY <2>7, <2>8 DEF Locks
<1>3. QED
  BY <1>2, InductiveInvariant, PTL

(* BEGIN IMMEDIATE is enough: after it no statement of the transaction is  *)
(* refused, whatever the mode of the other connections.                    *)
THEOREM ImmediateIsSafe == Spec => ImmediateNeverRefused
<1>1. ASSUME IInv, NEW c \in Conns, Mode[c] = "immediate", Runs(c), c \in txn,
             ~Commits(c), [Next]_vars
      PROVE  c \notin busy' \ busy
  <2>1. lock[c] >= RESERVED_LOCK /\ lock[c] \in Locks /\ CallShape(c) /\ ~Idle(c) /\ TypeOK
    BY <1>1 DEF IInv, Local, ImmediateLocked, Runs, TypeOK
  <2>2. ~Blocked(c)
    <3>1. Need(c) \in {SHARED_LOCK, RESERVED_LOCK}
      BY <1>1, <2>1, Needs
    <3>2. QED
      BY <2>1, <3>1 DEF Blocked, Locks, NO_LOCK, SHARED_LOCK, RESERVED_LOCK, EXCLUSIVE_LOCK
  <2>3. ASSUME NEW e \in Conns, Engine(e) \/ Application(e)
        PROVE  c \notin busy' \ busy
    BY <2>2, <2>3 DEF Engine, Application, Acquire, Sleep, Wake, Refuse, Perform, Publish,
                 Proceed, Statement, FinishRead, Commit, Rollback
  <2>4. QED
    BY <1>1, <2>3 DEF Next, vars
<1>2. IInv /\ [Next]_vars =>
        [\A c \in Conns :
           Mode[c] = "immediate" /\ Runs(c) /\ c \in txn /\ ~Commits(c)
           => c \notin busy' \ busy]_vars
  BY <1>1
<1>3. QED
  BY <1>2, InductiveInvariant, PTL DEF Spec, ImmediateNeverRefused
=============================================================================
