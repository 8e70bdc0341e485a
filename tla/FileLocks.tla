----------------------------- MODULE FileLocks -----------------------------
(***************************************************************************)
(* Several connections on one database file in rollback-journal mode.      *)
(* Each is a DBD::SQLite handle in one of three modes: AutoCommit on;      *)
(* AutoCommit off with sqlite_use_immediate_transaction (the default); and *)
(* AutoCommit off without it.  A call of the driver runs the engine        *)
(* operations it needs one after another, and each takes its file locks    *)
(* one system call at a time, so the calls of different connections        *)
(* interleave between any two of these.                                    *)
(***************************************************************************)
EXTENDS Integers, Sequences

CONSTANTS
  Conns,      \* the connections
  Mode,       \* Mode[c] is "auto", "immediate" or "deferred"
  TimeOuts    \* those whose waits may last longer than sqlite_busy_timeout

ASSUME ModeAssumption == Mode \in [Conns -> {"auto", "immediate", "deferred"}]
ASSUME TimeOutsAssumption == TimeOuts \subseteq Conns

VARIABLES
  lock,      \* pFile->eFileLock
  call,      \* what is left of the driver call in progress
  sleeping,  \* connections in the busy handler's sleep
  txn,       \* connections whose autoCommit flag is off in the engine
  trans,     \* connections whose btree has a transaction (inTransaction)
  reading,   \* connections with an unfinished SELECT
  current,   \* connections whose page cache is that of the file
  busy       \* connections whose last call ended in SQLITE_BUSY

vars == <<lock, call, sleeping, txn, trans, reading, current, busy>>

NO_LOCK        == 0
SHARED_LOCK    == 1
RESERVED_LOCK  == 2
PENDING_LOCK   == 3
EXCLUSIVE_LOCK == 4

Locks == NO_LOCK .. EXCLUSIVE_LOCK

(* begin is BEGIN IMMEDIATE, commit the statement COMMIT, and halt the     *)
(* implicit commit at the end of an auto-commit statement.                 *)
Ops == {"begin", "read", "write", "commit", "halt"}

Init ==
  /\ lock = [c \in Conns |-> NO_LOCK]
  /\ call = [c \in Conns |-> <<>>]
  /\ sleeping = {} /\ txn = {} /\ trans = {} /\ reading = {}
  /\ current = {} /\ busy = {}

-----------------------------------------------------------------------------
(* File locks.                                                             *)

Others(c) == Conns \ {c}

Holders(c, level) == {d \in Others(c) : lock[d] >= level}

(* Mutant of Obstacles: PENDING does not keep new readers out.             *)
Obstacles_NoPending(c, level) ==
  CASE level \in {SHARED_LOCK, PENDING_LOCK} -> Holders(c, EXCLUSIVE_LOCK)
    [] level = RESERVED_LOCK               -> Holders(c, RESERVED_LOCK)
    [] level = EXCLUSIVE_LOCK              -> Holders(c, SHARED_LOCK)

(* Mutant of Obstacles: EXCLUSIVE does not wait for readers.               *)
Obstacles_NotReaders(c, level) ==
  CASE level \in {SHARED_LOCK, PENDING_LOCK}    -> Holders(c, PENDING_LOCK)
    [] level \in {RESERVED_LOCK, EXCLUSIVE_LOCK} -> Holders(c, RESERVED_LOCK)

(* The connections that keep c from getting a lock (unixLock): EXCLUSIVE   *)
(* needs the shared range of the file for itself, and PENDING closes the   *)
(* way to it.                                                              *)
Obstacles(c, level) ==
  CASE level \in {SHARED_LOCK, PENDING_LOCK} -> Holders(c, PENDING_LOCK)
    [] level = RESERVED_LOCK               -> Holders(c, RESERVED_LOCK)
    [] level = EXCLUSIVE_LOCK              -> Holders(c, SHARED_LOCK)

-----------------------------------------------------------------------------
(* The call in progress.                                                   *)

Idle(c) == call[c] = <<>>

Commits(c) == Head(call[c]) \in {"commit", "halt"}

(* Mutant of Need: BEGIN without IMMEDIATE.                                *)
Need_BeginDeferred(c) ==
  CASE Head(call[c]) \in {"begin", "read"} -> SHARED_LOCK
    [] Head(call[c]) = "write"            -> RESERVED_LOCK
    [] Commits(c) -> IF lock[c] >= RESERVED_LOCK THEN EXCLUSIVE_LOCK ELSE NO_LOCK

(* The lock the operation needs.  A commit needs none if nothing can have  *)
(* been written.                                                           *)
Need(c) ==
  CASE Head(call[c]) = "read"              -> SHARED_LOCK
    [] Head(call[c]) \in {"begin", "write"} -> RESERVED_LOCK
    [] Commits(c) -> IF lock[c] >= RESERVED_LOCK THEN EXCLUSIVE_LOCK ELSE NO_LOCK

Runs(c) == ~Idle(c) /\ c \notin sleeping

Blocked(c) == lock[c] < Need(c) /\ Obstacles(c, lock[c] + 1) # {}

(* The operation is done; the call goes on to the next one.                *)
Proceed(c) == call' = [call EXCEPT ![c] = Tail(@)] /\ UNCHANGED <<sleeping, busy>>

(* The lock that is left when a transaction ends: a SELECT that is not     *)
(* finished keeps its read transaction.                                    *)
LockAtEnd(c) == IF c \in reading THEN SHARED_LOCK ELSE NO_LOCK

(* btreeEndTransaction                                                     *)
EndTransaction(c) ==
  /\ lock' = [lock EXCEPT ![c] = LockAtEnd(c)]
  /\ trans' = IF c \in reading THEN trans ELSE trans \ {c}
  /\ txn' = txn \ {c}

(* Mutant of MayWait: the busy handler even with a read lock held.         *)
MayWait_Always(c) == TRUE

(* The busy handler is asked before a transaction and for the exclusive    *)
(* lock of a commit, never between: then SQLITE_BUSY comes at once.        *)
MayWait(c) == Commits(c) \/ c \notin trans

(* Mutant of GiveBack: the read lock is kept through the wait.             *)
GiveBack_Nothing(c) == UNCHANGED lock

(* unlockBtreeIfUnused: what a failed attempt to begin had got already.    *)
GiveBack(c) ==
  IF c \in trans THEN UNCHANGED lock ELSE lock' = [lock EXCEPT ![c] = NO_LOCK]

-----------------------------------------------------------------------------
(* What the application calls.                                             *)

(* The engine operations a statement takes: with AutoCommit off a BEGIN    *)
(* before it if no transaction is open, with AutoCommit on the commit      *)
(* after it.                                                               *)
CallFor(c, op) ==
  CASE Mode[c] = "immediate" /\ c \notin txn -> <<"begin", op>>
    [] Mode[c] = "auto" /\ op = "write"      -> <<op, "halt">>
    [] OTHER                                 -> <<op>>

(* do, execute.  A deferred BEGIN only sets the flag.                      *)
Statement(c, op) ==
  /\ Idle(c)
  /\ call' = [call EXCEPT ![c] = CallFor(c, op)]
  /\ txn' = IF Mode[c] = "deferred" THEN txn \cup {c} ELSE txn
  /\ busy' = busy \ {c}
  /\ UNCHANGED <<lock, sleeping, trans, reading, current>>

(* finish, or the fetch that meets the end.  Outside a transaction it ends *)
(* the engine's read transaction.                                          *)
FinishRead(c) ==
  /\ Idle(c) /\ c \in reading
  /\ reading' = reading \ {c}
  /\ IF c \in txn
       THEN UNCHANGED <<lock, trans>>
       ELSE /\ lock' = [lock EXCEPT ![c] = NO_LOCK]
            /\ trans' = trans \ {c}
  /\ UNCHANGED <<call, sleeping, txn, current, busy>>

Commit(c) ==
  /\ Idle(c) /\ c \in txn
  /\ call' = [call EXCEPT ![c] = <<"commit">>]
  /\ busy' = busy \ {c}
  /\ UNCHANGED <<lock, sleeping, txn, trans, reading, current>>

(* rollback, and the rollback of a disconnect: no lock is needed.          *)
Rollback(c) ==
  /\ Idle(c) /\ c \in txn
  /\ EndTransaction(c)
  /\ busy' = busy \ {c}
  /\ UNCHANGED <<call, sleeping, reading, current>>

-----------------------------------------------------------------------------
(* What the engine does.                                                   *)

(* One level more.  A cache that is not of the file's version is dropped   *)
(* when the read lock is taken.                                            *)
Acquire(c) ==
  /\ Runs(c)
  /\ lock[c] < Need(c) /\ Obstacles(c, lock[c] + 1) = {}
  /\ lock' = [lock EXCEPT ![c] = @ + 1]
  /\ current' = IF lock[c] = NO_LOCK THEN current \cup {c} ELSE current
  /\ UNCHANGED <<call, sleeping, txn, trans, reading, busy>>

(* The busy handler sleeps and asks for another attempt.                   *)
Sleep(c) ==
  /\ Runs(c) /\ Blocked(c) /\ MayWait(c)
  /\ GiveBack(c)
  /\ sleeping' = sleeping \cup {c}
  /\ UNCHANGED <<call, txn, trans, reading, current, busy>>

Wake(c) ==
  /\ c \in sleeping
  /\ sleeping' = sleeping \ {c}
  /\ UNCHANGED <<lock, call, txn, trans, reading, current, busy>>

(* SQLITE_BUSY: no wait was allowed or it has been long enough.  A COMMIT  *)
(* leaves the transaction open, an auto-commit statement is rolled back.   *)
Refuse(c) ==
  /\ Runs(c) /\ Blocked(c)
  /\ c \in TimeOuts \/ ~MayWait(c)
  /\ IF Head(call[c]) = "halt"
       THEN EndTransaction(c)
       ELSE GiveBack(c) /\ UNCHANGED <<txn, trans>>
  /\ call' = [call EXCEPT ![c] = <<>>]
  /\ busy' = busy \cup {c}
  /\ UNCHANGED <<sleeping, reading, current>>

(* BEGIN IMMEDIATE, the first row of a SELECT, an INSERT.                  *)
Perform(c) ==
  /\ Runs(c) /\ ~Commits(c) /\ lock[c] >= Need(c)
  /\ trans' = trans \cup {c}
  /\ txn' = IF Head(call[c]) = "begin" THEN txn \cup {c} ELSE txn
  /\ reading' = IF Head(call[c]) = "read" THEN reading \cup {c} ELSE reading
  /\ Proceed(c)
  /\ UNCHANGED <<lock, current>>

(* With the exclusive lock held the pages go to the file and all other     *)
(* caches are out of date.                                                 *)
Publish(c) ==
  /\ Runs(c) /\ Commits(c) /\ lock[c] >= Need(c)
  /\ current' = IF lock[c] = EXCLUSIVE_LOCK THEN {c} ELSE current
  /\ EndTransaction(c)
  /\ Proceed(c)
  /\ UNCHANGED reading

Engine(c) == Acquire(c) \/ Sleep(c) \/ Wake(c) \/ Refuse(c) \/ Perform(c) \/ Publish(c)

Application(c) ==
  \/ \E op \in {"read", "write"} : Statement(c, op)
  \/ FinishRead(c) \/ Commit(c) \/ Rollback(c)

Next == \E c \in Conns : Engine(c) \/ Application(c)

Spec == Init /\ [][Next]_vars

(* The engine goes on with a call as long as it can; an application        *)
(* finishes its SELECTs, and ends its transactions while none is open,     *)
(* sooner or later, however many other calls it makes in between.          *)
FairSpec ==
  /\ Spec
  /\ \A c \in Conns :
       /\ WF_vars(Engine(c))
       /\ SF_vars(FinishRead(c))
       /\ SF_vars(c \notin reading /\ (Commit(c) \/ Rollback(c)))

-----------------------------------------------------------------------------

(* Shape of the state.  Only a connection whose call waits sleeps, and a   *)
(* read transaction of the btree is a read lock on the file.               *)
TypeOK ==
  /\ lock \in [Conns -> Locks]
  /\ call \in [Conns -> Seq(Ops)]
  /\ sleeping \subseteq {c \in Conns : ~Idle(c)}
  /\ txn \subseteq Conns
  /\ reading \subseteq trans
  /\ trans \subseteq {c \in Conns : lock[c] >= SHARED_LOCK}
  /\ current \subseteq Conns
  /\ busy \subseteq Conns

(* Whoever holds a lock works on the file as it is: no reader sees a       *)
(* commit in the middle of its transaction, and no writer's pages are      *)
(* computed from a version that another has replaced.                      *)
SnapshotHolds == \A c \in Conns : lock[c] >= SHARED_LOCK => c \in current

(* A call that is over leaves no lock behind unless a transaction or a     *)
(* SELECT is open, whether it succeeded, was refused or timed out.         *)
IdleHoldsNothing ==
  \A c \in Conns : Idle(c) /\ c \notin txn \cup reading => lock[c] = NO_LOCK

(* The connections a sleeper waits for.                                    *)
WaitsFor(c) ==
  IF c \in sleeping
    THEN UNION {Obstacles(c, level) : level \in lock[c] + 1 .. Need(c)}
    ELSE {}

(* No ring of connections asleep in the busy handler, each waiting for a   *)
(* lock the next one holds (the comment before btreeBeginTrans).           *)
NoCircularWait ==
  \A S \in SUBSET Conns : S # {} => \E c \in S : WaitsFor(c) \cap S = {}

(* Once BEGIN IMMEDIATE has succeeded no statement of the transaction is   *)
(* refused for a lock, whatever the other connections do; only the commit  *)
(* can be.                                                                 *)
ImmediateNeverRefused ==
  [][\A c \in Conns :
       Mode[c] = "immediate" /\ Runs(c) /\ c \in txn /\ ~Commits(c)
       => c \notin busy' \ busy]_vars

(* A commit that has to wait for readers gets through, unless its own wait *)
(* is too long: PENDING keeps new readers out until the old ones are gone. *)
WriterIsNotStarved ==
  \A c \in Conns :
    ~Idle(c) /\ Commits(c) /\ lock[c] = PENDING_LOCK ~> Idle(c)
=============================================================================
