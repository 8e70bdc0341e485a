------------------------------- MODULE Backup -------------------------------
(***************************************************************************)
(* sqlite_backup_from_file, _to_file, _from_dbh and _to_dbh: one call of   *)
(* the driver opens a backup, copies every page in a single                *)
(* sqlite3_backup_step and finishes it, while connections of other         *)
(* processes read and write both files.  The return values of step and     *)
(* finish are thrown away; the answer is the error code of the connection  *)
(* written to.                                                             *)
(*                                                                         *)
(* Locks are those of FileLocks, taken in one step each; a wait for one    *)
(* ends with the lock or with SQLITE_BUSY.  An in-memory database is a     *)
(* file that no other connection opens.                                    *)
(***************************************************************************)
EXTENDS Naturals

CONSTANTS
  Files,
  Handles,   \* database handles of this process
  Others,    \* connections of other processes
  Home,      \* the file each of them is open on
  MaxWrites  \* bound on the pages written by transactions

NoFile == "none"
temp == "temp"   \* the connection that a method opens on a file name

ASSUME HomeAssumption ==
  /\ Home \in [Handles \cup Others -> Files] /\ NoFile \notin Files
  /\ temp \notin Handles \cup Others /\ Handles \cap Others = {}
  /\ MaxWrites \in Nat

Conns == Handles \cup Others \cup {temp}
Pages == {1, 2}
Image == [Pages -> (Files \cup {NoFile}) \X (0..MaxWrites)]
Fresh(f) == [p \in Pages |-> <<f, 0>>]
NoImage == Fresh(NoFile)

VARIABLES
  file,     \* the committed contents of each file
  at,       \* the file each connection is open on
  level,    \* the lock of each connection
  image,    \* the file as its transaction sees it
  app,      \* history: the lock its transactions, or SELECTs, account for
  active,   \* DBIc_ACTIVE
  errcode,  \* db->errCode
  backup,   \* sqlite3_backup, and where the call is
  answer,   \* what the last call returned
  writes

vars == <<file, at, level, image, app, active, errcode, backup, answer, writes>>

NoBackup == [step |-> "idle", src |-> temp, dest |-> temp, own |-> FALSE,
             iNext |-> 1, rc |-> "OK", locked |-> FALSE]

Init ==
  /\ file = [f \in Files |-> Fresh(f)]
  /\ at = [c \in Conns |-> IF c = temp THEN NoFile ELSE Home[c]]
  /\ level = [c \in Conns |-> "none"]
  /\ image = [c \in Conns |-> NoImage]
  /\ app = level
  /\ active = Handles
  /\ errcode = [c \in Conns |-> "OK"]
  /\ backup = NoBackup
  /\ answer = "none"
  /\ writes = 0

-----------------------------------------------------------------------------
(* Transactions of the connections; those of this process run while no     *)
(* backup does.                                                            *)

Free(c) == c \in Others \/ (c \in active /\ backup.step = "idle")

(* The locks other connections have on the file of c.                      *)
Against(c) == {level[d] : d \in {d \in Conns \ {c} : at[d] = at[c]}}

MayRead(c) == "exclusive" \notin Against(c)
MayWrite(c) == Against(c) \cap {"reserved", "exclusive"} = {}
MayOwn(c) == Against(c) \subseteq {"none"}

Unlocked(c) ==
  /\ level' = [level EXCEPT ![c] = "none"]
  /\ image' = [image EXCEPT ![c] = NoImage]

Select(c) ==
  /\ Free(c) /\ level[c] = "none" /\ MayRead(c)
  /\ level' = [level EXCEPT ![c] = "shared"]
  /\ app' = [app EXCEPT ![c] = "shared"]
  /\ image' = [image EXCEPT ![c] = file[at[c]]]
  /\ errcode' = [errcode EXCEPT ![c] = "OK"]
  /\ UNCHANGED <<file, at, active, backup, answer, writes>>

Update(c, p) ==
  /\ Free(c) /\ writes < MaxWrites
  /\ IF level[c] = "none" THEN MayRead(c) /\ MayWrite(c) ELSE MayWrite(c)
  /\ level' = [level EXCEPT ![c] = "reserved"]
  /\ app' = [app EXCEPT ![c] = "reserved"]
  /\ image' = [image EXCEPT ![c] =
       [IF level[c] = "none" THEN file[at[c]] ELSE @ EXCEPT ![p] = <<at[c], writes + 1>>]]
  /\ errcode' = [errcode EXCEPT ![c] = "OK"]
  /\ writes' = writes + 1
  /\ UNCHANGED <<file, at, active, backup, answer>>

(* A handle that had to wait too long remembers it.                        *)
Busy(c) ==
  /\ Free(c) /\ c \in Handles /\ ~MayWrite(c)
  /\ errcode' = [errcode EXCEPT ![c] = "BUSY"]
  /\ UNCHANGED <<file, at, level, image, app, active, backup, answer, writes>>

Commit(c) ==
  /\ Free(c) /\ level[c] = "reserved" /\ MayOwn(c)
  /\ file' = [file EXCEPT ![at[c]] = image[c]]
  /\ Unlocked(c) /\ app' = [app EXCEPT ![c] = "none"]
  /\ UNCHANGED <<at, active, errcode, backup, answer, writes>>

(* The end of a SELECT, or a rollback.                                     *)
End(c) ==
  /\ Free(c) /\ level[c] # "none"
  /\ Unlocked(c) /\ app' = [app EXCEPT ![c] = "none"]
  /\ UNCHANGED <<file, at, active, errcode, backup, answer, writes>>

Disconnect(h) ==
  /\ Free(h) /\ h \in Handles
  /\ active' = active \ {h}
  /\ Unlocked(h) /\ app' = [app EXCEPT ![h] = "none"]
  /\ UNCHANGED <<file, at, errcode, backup, answer, writes>>

-----------------------------------------------------------------------------
(* The call.                                                               *)

Calling(step) == backup.step = step

(* sqlite_db_backup_from_dbh and _to_dbh; the two directions differ in     *)
(* which handle the method is called on.                                   *)
BackupDbh(src, dest) ==
  /\ Calling("idle")
  /\ IF {src, dest} \subseteq active
       THEN /\ backup' = [NoBackup EXCEPT !.step = "init", !.src = src, !.dest = dest]
            /\ UNCHANGED answer
       ELSE /\ answer' = "false"
            /\ UNCHANGED backup
  /\ UNCHANGED <<file, at, level, image, app, active, errcode, writes>>

(* sqlite_db_backup_from_file and _to_file open the file themselves, and   *)
(* may fail to.                                                            *)
BackupFile(h, f, from) ==
  /\ Calling("idle")
  /\ \/ /\ h \in active
        /\ at' = [at EXCEPT ![temp] = f]
        /\ backup' = [NoBackup EXCEPT !.step = "init",
             !.src = IF from THEN temp ELSE h, !.dest = IF from THEN h ELSE temp]
        /\ errcode' = [errcode EXCEPT ![temp] = "OK"]
        /\ UNCHANGED answer
     \/ answer' = "false" /\ UNCHANGED <<at, backup, errcode>>
  /\ UNCHANGED <<file, level, image, app, active, writes>>

(* sqlite3_backup_init: no backup object comes of it when the destination  *)
(* is the source or has a transaction open.                                *)
BackupInit ==
  /\ Calling("init")
  /\ IF backup.src = backup.dest \/ level[backup.dest] # "none"
       THEN /\ errcode' = [errcode EXCEPT ![backup.dest] = "ERROR"]
            /\ backup' = [backup EXCEPT !.step = "return"]
       ELSE /\ backup' = [backup EXCEPT !.step = "source"]
            /\ UNCHANGED errcode
  /\ UNCHANGED <<file, at, level, image, app, active, answer, writes>>

(* The step ends with an error.                                            *)
Fails(rc) == backup' = [backup EXCEPT !.step = "closesource", !.rc = rc]

(* sqlite3_backup_step: a source with a write transaction is refused; one  *)
(* without a transaction gets one for the time of the step.                *)
LockSource ==
  /\ Calling("source")
  /\ CASE level[backup.src] = "reserved" ->
            Fails("BUSY") /\ UNCHANGED <<level, image>>
       [] level[backup.src] = "shared" ->
            /\ backup' = [backup EXCEPT !.step = "dest"]
            /\ UNCHANGED <<level, image>>
       [] OTHER ->
            IF MayRead(backup.src)
              THEN /\ level' = [level EXCEPT ![backup.src] = "shared"]
                   /\ image' = [image EXCEPT ![backup.src] = file[at[backup.src]]]
                   /\ backup' = [backup EXCEPT !.step = "dest", !.own = TRUE]
              ELSE Fails("BUSY") /\ UNCHANGED <<level, image>>
  /\ UNCHANGED <<file, at, app, active, errcode, answer, writes>>

(* Mutant of LockDest: a write lock will do.                               *)
LockDest_Reserved ==
  /\ Calling("dest")
  /\ IF MayWrite(backup.dest) /\ MayRead(backup.dest)
       THEN /\ level' = [level EXCEPT ![backup.dest] = "exclusive"]
            /\ image' = [image EXCEPT ![backup.dest] = file[at[backup.dest]]]
            /\ backup' = [backup EXCEPT !.step = "copy", !.locked = TRUE]
       ELSE Fails("BUSY") /\ UNCHANGED <<level, image>>
  /\ UNCHANGED <<file, at, app, active, errcode, answer, writes>>

(* Mutant of LockDest: waits for as long as it takes.                      *)
LockDest_NoTimeout ==
  /\ Calling("dest") /\ MayOwn(backup.dest)
  /\ level' = [level EXCEPT ![backup.dest] = "exclusive"]
  /\ image' = [image EXCEPT ![backup.dest] = file[at[backup.dest]]]
  /\ backup' = [backup EXCEPT !.step = "copy", !.locked = TRUE]
  /\ UNCHANGED <<file, at, app, active, errcode, answer, writes>>

(* The exclusive lock on the destination.  It may be refused for another   *)
(* reason too: page sizes that differ, a read-only file.                   *)
LockDest ==
  /\ Calling("dest")
  /\ \/ /\ MayOwn(backup.dest)
        /\ level' = [level EXCEPT ![backup.dest] = "exclusive"]
        /\ image' = [image EXCEPT ![backup.dest] = file[at[backup.dest]]]
        /\ backup' = [backup EXCEPT !.step = "copy", !.locked = TRUE]
     \/ /\ Fails(IF MayOwn(backup.dest) THEN "READONLY" ELSE "BUSY")
        /\ UNCHANGED <<level, image>>
  /\ UNCHANGED <<file, at, app, active, errcode, answer, writes>>

(* backupOnePage, in order.                                                *)
CopyPage ==
  /\ Calling("copy") /\ backup.iNext \in Pages
  /\ \/ /\ image' = [image EXCEPT ![backup.dest][backup.iNext] =
                       file[at[backup.src]][backup.iNext]]
        /\ backup' = [backup EXCEPT !.iNext = @ + 1]
     \/ Fails("IOERR") /\ UNCHANGED image
  /\ UNCHANGED <<file, at, level, app, active, errcode, answer, writes>>

(* Both phases of the commit of the destination.                           *)
CommitDest ==
  /\ Calling("copy") /\ backup.iNext \notin Pages
  /\ \/ /\ file' = [file EXCEPT ![at[backup.dest]] = image[backup.dest]]
        /\ Unlocked(backup.dest)
        /\ Fails("DONE")
     \/ Fails("IOERR") /\ UNCHANGED <<file, level, image>>
  /\ UNCHANGED <<at, app, active, errcode, answer, writes>>

(* Mutant of CloseSource: the transaction is left open after an error.     *)
CloseSource_WhenDone ==
  /\ Calling("closesource")
  /\ IF backup.own /\ backup.rc = "DONE" THEN Unlocked(backup.src) ELSE UNCHANGED <<level, image>>
  /\ backup' = [backup EXCEPT !.step = "finish"]
  /\ UNCHANGED <<file, at, app, active, errcode, answer, writes>>

CloseSource ==
  /\ Calling("closesource")
  /\ IF backup.own THEN Unlocked(backup.src) ELSE UNCHANGED <<level, image>>
  /\ backup' = [backup EXCEPT !.step = "finish"]
  /\ UNCHANGED <<file, at, app, active, errcode, answer, writes>>

(* Mutant of Finish: what was copied so far is committed.                  *)
Finish_Kept ==
  /\ Calling("finish")
  /\ file' = IF level[backup.dest] = "exclusive"
       THEN [file EXCEPT ![at[backup.dest]] = image[backup.dest]] ELSE file
  /\ IF backup.locked THEN Unlocked(backup.dest) ELSE UNCHANGED <<level, image>>
  /\ errcode' = [errcode EXCEPT ![backup.dest] =
                   IF backup.rc = "DONE" THEN "OK" ELSE backup.rc]
  /\ backup' = [backup EXCEPT !.step = "return"]
  /\ UNCHANGED <<at, app, active, answer, writes>>

(* sqlite3_backup_finish: what is still open on the destination is rolled  *)
(* back, and the destination gets the error code of the step.              *)
Finish ==
  /\ Calling("finish")
  /\ IF backup.locked THEN Unlocked(backup.dest) ELSE UNCHANGED <<level, image>>
  /\ errcode' = [errcode EXCEPT ![backup.dest] =
                   IF backup.rc = "DONE" THEN "OK" ELSE backup.rc]
  /\ backup' = [backup EXCEPT !.step = "return"]
  /\ UNCHANGED <<file, at, app, active, answer, writes>>

(* Mutant of Looked: the error code of the connection read from.           *)
Looked_Source == backup.src
Looked == backup.dest

Return ==
  /\ Calling("return")
  /\ answer' = IF errcode[Looked] = "OK" THEN "true" ELSE "false"
  /\ backup' = NoBackup
  /\ at' = [at EXCEPT ![temp] = NoFile]
  /\ UNCHANGED <<file, level, image, app, active, errcode, writes>>

-----------------------------------------------------------------------------

Step ==
  \/ BackupInit \/ LockSource \/ LockDest \/ CopyPage \/ CommitDest
  \/ CloseSource \/ Finish \/ Return

Next ==
  \/ \E c \in Handles \cup Others :
       Select(c) \/ Commit(c) \/ End(c) \/ Busy(c) \/ \E p \in Pages : Update(c, p)
  \/ \E h \in Handles : Disconnect(h)
  \/ \E src, dest \in Handles : BackupDbh(src, dest)
  \/ \E h \in Handles, f \in Files, from \in BOOLEAN : BackupFile(h, f, from)
  \/ Step

(* The process that calls goes on.                                         *)
Spec == Init /\ [][Next]_vars /\ WF_vars(Step)

-----------------------------------------------------------------------------

(* Shape of the state, and writers exclude one another.                    *)
TypeOK ==
  /\ file \in [Files -> Image] /\ image \in [Conns -> Image]
  /\ level \in [Conns -> {"none", "shared", "reserved", "exclusive"}]
  /\ backup.src \in Conns /\ backup.dest \in Conns
  /\ answer \in {"none", "true", "false"} /\ writes \in 0..MaxWrites
  /\ \A c \in Conns : level[c] = "exclusive" => MayOwn(c)

(* A connection that reads sees the file as it is, never a part of a copy  *)
(* (the exclusive lock of sqlite3_backup_step).                            *)
ReadsAreStable ==
  \A c \in Conns : level[c] = "shared" => image[c] = file[at[c]]

(* After a call every lock left is that of a transaction or SELECT of the  *)
(* application, whatever failed (sqlite3_backup_finish, sqlite3_close).    *)
NoLockLeft == backup.step = "idle" => level = app

(* A call returns, even when it copies a file onto itself.                 *)
CallsReturn == backup.step # "idle" ~> backup.step = "idle"

(* The calls keep AtomicCopy: a true answer means that the destination     *)
(* became what the source was at one moment during the call; before a      *)
(* false one the call has left every file as it found it, wherever it      *)
(* failed and whatever other connections wrote meanwhile.  Every step of   *)
(* the call changes backup, and no step of anybody else does.              *)
Promise == INSTANCE AtomicCopy WITH
  Images <- Image,
  contents <- file,
  asked <- IF backup.step = "idle" THEN [from |-> "none", to |-> "none"]
           ELSE [from |-> at[backup.src], to |-> at[backup.dest]],
  progress <- backup,
  copied <- backup.step # "idle" /\ backup.rc = "DONE",
  answer <- answer

ImplementsAtomicCopy == Promise!Spec
=============================================================================
