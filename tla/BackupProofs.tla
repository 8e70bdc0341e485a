----------------------------- MODULE BackupProofs -----------------------------
(***************************************************************************)
(* Proofs about Backup, for any number of files, handles and connections   *)
(* of other processes.                                                     *)
(*                                                                         *)
(* The argument: while pages are copied the source is locked against       *)
(* writers and the destination against everybody, so that what is          *)
(* committed is the source as it is at the commit (Copying), and whoever   *)
(* reads does not see it happen (Alone).  Which lock is the call's own is  *)
(* known from the step the call is in (Held); the error code read at the   *)
(* end still tells how the step ended, because nobody uses the destination *)
(* in between (Coded).                                                     *)
(***************************************************************************)
EXTENDS Backup, TLAPS

Levels == {"none", "shared", "reserved", "exclusive"}
Codes  == {"OK", "ERROR", "BUSY", "READONLY", "IOERR", "DONE"}
Steps  == {"idle", "init", "source", "dest", "copy", "closesource", "finish", "return"}

BackupType == [step : Steps, src : Conns, dest : Conns, own : BOOLEAN,
               iNext : Nat \ {0}, rc : Codes, locked : BOOLEAN]

Typed ==
  /\ file \in [Files -> Image] /\ image \in [Conns -> Image]
  /\ level \in [Conns -> Levels] /\ app \in [Conns -> Levels \ {"exclusive"}]
  /\ at \in [Conns -> Files \cup {NoFile}] /\ errcode \in [Conns -> Codes]
  /\ active \subseteq Handles /\ backup \in BackupType
  /\ answer \in {"none", "true", "false"} /\ writes \in 0..MaxWrites

Placed ==
  /\ \A c \in Handles \cup Others : at[c] = Home[c]
  /\ app[temp] = "none"

(* Who has a file for itself.                                              *)
Alone ==
  \A c, d \in Conns :
    c # d /\ at[c] = at[d] /\ level[c] = "exclusive" => level[d] = "none"

(* The parties of a call.                                                  *)
Called ==
  IF backup.step = "idle"
    THEN backup = NoBackup
    ELSE /\ {backup.src, backup.dest} \subseteq Handles \cup {temp}
         /\ at[backup.src] \in Files /\ at[backup.dest] \in Files

(* The locks that the call took for itself and has not given back.         *)
SourceHeld == backup.own /\ backup.step \in {"dest", "copy", "closesource"}
DestHeld   == backup.locked /\ backup.step \in {"copy", "closesource", "finish"}

Held ==
  /\ \A c \in Conns : \/ level[c] = app[c]
                      \/ c = backup.src /\ SourceHeld
                      \/ c = backup.dest /\ DestHeld
  /\ SourceHeld => app[backup.src] = "none"
  /\ backup.step \in {"init", "source"} => ~backup.own
  /\ backup.step \in {"source", "dest", "copy", "closesource", "finish"}
       => backup.src # backup.dest /\ app[backup.dest] = "none"

(* What has been copied is what the source holds.                          *)
Copying ==
  /\ backup.step \in {"init", "source", "dest"} => backup.iNext = 1
  /\ backup.step \in {"dest", "copy"} => level[backup.src] = "shared"
  /\ backup.step = "copy" =>
       /\ level[backup.dest] = "exclusive"
       /\ \A p \in Pages : p < backup.iNext =>
            image[backup.dest][p] = file[at[backup.src]][p]

Coded ==
  /\ backup.step \in {"init", "source", "dest", "copy"} => backup.rc = "OK"
  /\ backup.step \in {"closesource", "finish"} => backup.rc # "OK"
  /\ backup.step = "return" => (backup.rc = "DONE" <=> errcode[backup.dest] = "OK")

IInv ==
  Typed /\ Placed /\ Alone /\ ReadsAreStable /\ Called /\ Held /\ Copying /\ Coded

-----------------------------------------------------------------------------
(* Transactions of the connections.                                        *)

LEMMA Outsider ==
  ASSUME IInv, NEW c \in Handles \cup Others, Free(c)
  PROVE  /\ c \in Conns /\ c # temp /\ at[c] \in Files
         /\ backup.step # "idle" => c # backup.src /\ c # backup.dest
         /\ level[c] = app[c]
<1>1. c \in Conns /\ c # temp /\ at[c] \in Files
  BY HomeAssumption DEF Conns, IInv, Placed
<1>2. backup.step # "idle" => c # backup.src /\ c # backup.dest
  <2>1. ASSUME backup.step # "idle"
        PROVE  c \notin Handles \cup {temp}
    BY <1>1, <2>1, HomeAssumption DEF Free
  <2>2. QED
    BY <2>1 DEF IInv, Called
<1>3. level[c] = app[c]
  <2>1. CASE backup.step = "idle"
    BY <1>1, <2>1 DEF IInv, Held, SourceHeld, DestHeld
  <2>2. CASE backup.step # "idle"
    BY <1>1, <1>2, <2>2 DEF IInv, Held
  <2>3. QED
    BY <2>1, <2>2
<1>4. QED
  BY <1>1, <1>2, <1>3

(* Rights, in terms of the other connections.                              *)
LEMMA Rights ==
  ASSUME NEW c \in Conns, NEW d \in Conns, c # d, at[d] = at[c]
  PROVE  /\ MayRead(c) => level[d] # "exclusive"
         /\ MayWrite(c) => level[d] \notin {"reserved", "exclusive"}
         /\ MayOwn(c) => level[d] = "none"
BY DEF MayRead, MayWrite, MayOwn, Against

LEMMA TransactionPreserves ==
  ASSUME IInv, Typed', NEW c \in Handles \cup Others, Free(c),
         NEW l \in Levels \ {"exclusive"}, l # "none" => MayRead(c),
         level' = [level EXCEPT ![c] = l], app' = [app EXCEPT ![c] = l],
         UNCHANGED <<at, backup>>,
         \A d \in Conns \ {c} : image'[d] = image[d] /\ errcode'[d] = errcode[d],
         l = "shared" => image'[c] = file[at[c]],
         \/ file' = file
         \/ l = "none" /\ MayOwn(c) /\ file' = [file EXCEPT ![at[c]] = image[c]]
  PROVE  IInv'
<1>1. /\ c \in Conns /\ c # temp /\ at[c] \in Files
      /\ backup.step # "idle" => c # backup.src /\ c # backup.dest
  BY Outsider
<1>2. /\ Typed /\ backup.src \in Conns /\ backup.dest \in Conns
      /\ level \in [Conns -> Levels] /\ app \in [Conns -> Levels \ {"exclusive"}]
  BY DEF IInv, Typed, BackupType
<1>3. Placed'
  BY <1>1, <1>2 DEF IInv, Placed, Typed, Conns
<1>4. Alone'
  <2> SUFFICES ASSUME NEW a \in Conns, NEW b \in Conns, a # b, at[a] = at[b],
                      level'[a] = "exclusive"
               PROVE  level'[b] = "none"
    BY DEF Alone
  <2>1. a # c /\ level[a] = "exclusive"
    BY <1>1, <1>2
  <2>2. CASE b = c
    BY <1>1, <1>2, <2>1, <2>2, Rights
  <2>3. CASE b # c
    BY <1>2, <2>1, <2>3 DEF IInv, Alone
  <2>4. QED
    BY <2>2, <2>3
<1>5. ASSUME NEW d \in Conns, d # c, level[d] # "none"
      PROVE  file'[at[d]] = file[at[d]]
  <2>1. CASE file' = file
    BY <2>1
  <2>2. CASE MayOwn(c) /\ file' = [file EXCEPT ![at[c]] = image[c]]
    <3>1. at[d] # at[c]
      BY <1>1, <1>5, <2>2, Rights
    <3>2. QED
      BY <2>2, <3>1
  <2>3. QED
    BY <2>1, <2>2
<1>6. ReadsAreStable'
  <2> SUFFICES ASSUME NEW d \in Conns, level'[d] = "shared"
               PROVE  image'[d] = file'[at[d]]
    BY DEF ReadsAreStable
  <2>1. CASE d = c
    BY <1>1, <1>2, <2>1
  <2>2. CASE d # c
    <3>1. level[d] = "shared"
      BY <1>2, <2>2
    <3>2. QED
      BY <1>5, <2>2, <3>1 DEF IInv, ReadsAreStable
  <2>3. QED
    BY <2>1, <2>2
<1>7. Called'
  BY DEF IInv, Called
<1>8. Held'
  <2>1. \A d \in Conns \ {c} : level'[d] = level[d] /\ app'[d] = app[d]
    BY <1>2
  <2>2. level'[c] = l /\ app'[c] = l
    BY <1>1, <1>2
  <2>3. \A d \in Conns : \/ level'[d] = app'[d]
                         \/ d = backup.src /\ SourceHeld
                         \/ d = backup.dest /\ DestHeld
    BY <2>1, <2>2 DEF IInv, Held
  <2>4. backup.step # "idle" => app'[backup.src] = app[backup.src]
                                /\ app'[backup.dest] = app[backup.dest]
    BY <1>1, <1>2, <2>1
  <2>5. QED
    BY <2>3, <2>4 DEF IInv, Held, SourceHeld, DestHeld
<1>9. Copying'
  <2>1. CASE backup.step \notin {"dest", "copy"}
    BY <2>1 DEF IInv, Copying
  <2>2. CASE backup.step \in {"dest", "copy"}
    <3>0. backup.step = "dest" => backup.iNext = 1
      BY DEF IInv, Copying
    <3>1. c # backup.src /\ c # backup.dest /\ level[backup.src] = "shared"
      BY <1>1, <2>2 DEF IInv, Copying
    <3>2. /\ level'[backup.src] = level[backup.src]
          /\ level'[backup.dest] = level[backup.dest]
          /\ image'[backup.dest] = image[backup.dest]
          /\ file'[at[backup.src]] = file[at[backup.src]]
      BY <1>2, <1>5, <3>1
    <3>3. QED
      BY <2>2, <3>0, <3>2 DEF IInv, Copying
  <2>3. QED
    BY <2>1, <2>2
<1>10. Coded'
  BY <1>1, <1>2 DEF IInv, Coded
<1>11. QED
  BY <1>3, <1>4, <1>6, <1>7, <1>8, <1>9, <1>10 DEF IInv

LEMMA ImageFacts ==
  /\ NoImage \in Image
  /\ \A f \in Files : Fresh(f) \in Image
  /\ \A i \in Image, p \in Pages, f \in Files, n \in 0..MaxWrites :
       [i EXCEPT ![p] = <<f, n>>] \in Image
  /\ \A i, j \in Image, p \in Pages : [i EXCEPT ![p] = j[p]] \in Image
BY HomeAssumption DEF NoImage, Fresh, Image

LEMMA TransactionsPreserve ==
  ASSUME IInv, NEW c \in Handles \cup Others,
         \/ Select(c) \/ Commit(c) \/ End(c) \/ Busy(c)
         \/ \E p \in Pages : Update(c, p)
         \/ c \in Handles /\ Disconnect(c)
  PROVE  IInv'
<1>1. Free(c)
  BY DEF Select, Commit, End, Busy, Update, Disconnect
<1>2. /\ c \in Conns /\ at[c] \in Files /\ level[c] = app[c]
      /\ level[c] \in Levels \ {"exclusive"}
  BY <1>1, Outsider DEF IInv, Typed
<1>3. /\ file \in [Files -> Image] /\ image \in [Conns -> Image]
      /\ level \in [Conns -> Levels] /\ app \in [Conns -> Levels \ {"exclusive"}]
      /\ errcode \in [Conns -> Codes] /\ active \subseteq Handles
      /\ writes \in 0..MaxWrites
  BY DEF IInv, Typed
<1>4. file[at[c]] \in Image /\ image[c] \in Image
  BY <1>2, <1>3
<1>5. level' = [level EXCEPT ![c] = level[c]] /\ app' = [app EXCEPT ![c] = level[c]]
        <=> level' = level /\ app' = app
  BY <1>2, <1>3
<1>6. CASE Select(c)
  <2>1. Typed'
    BY <1>2, <1>3, <1>4, <1>6 DEF IInv, Typed, Select, Levels, Codes
  <2>2. QED
    BY <1>1, <1>2, <1>3, <1>6, <2>1, TransactionPreserves DEF Select, Levels
<1>7. CASE Commit(c)
  <2>1. Typed'
    BY <1>2, <1>3, <1>4, <1>7, ImageFacts DEF IInv, Typed, Commit, Unlocked, Levels
  <2>2. QED
    BY <1>1, <1>2, <1>3, <1>7, <2>1, TransactionPreserves DEF Commit, Unlocked, Levels
<1>8. CASE End(c) \/ Disconnect(c)
  <2>1. level' \in [Conns -> Levels] /\ app' \in [Conns -> Levels \ {"exclusive"}]
    BY <1>2, <1>3, <1>8 DEF End, Disconnect, Unlocked, Levels
  <2>2. image' \in [Conns -> Image]
    BY <1>2, <1>3, <1>8, ImageFacts DEF End, Disconnect, Unlocked
  <2>3. active' \subseteq Handles
    BY <1>3, <1>8 DEF End, Disconnect
  <2>4. UNCHANGED <<file, at, errcode, backup, answer, writes>>
    BY <1>8 DEF End, Disconnect
  <2>5. Typed'
    BY <2>1, <2>2, <2>3, <2>4 DEF IInv, Typed
  <2>6. QED
    BY <1>1, <1>2, <1>3, <1>8, <2>4, <2>5, TransactionPreserves
       DEF End, Disconnect, Unlocked, Levels
<1>9. CASE Busy(c)
  <2>1. Typed'
    BY <1>2, <1>3, <1>9 DEF IInv, Typed, Busy, Codes
  <2>2. UNCHANGED <<file, at, level, image, app, active, backup, answer, writes>>
    BY <1>9 DEF Busy
  <2>3. \A d \in Conns \ {c} : errcode'[d] = errcode[d]
    BY <1>3, <1>9 DEF Busy
  <2>4. backup.step # "idle" => errcode'[backup.dest] = errcode[backup.dest]
    BY <1>1, <2>3, Outsider DEF IInv, Typed, BackupType
  <2>5. Coded'
    BY <2>2, <2>4 DEF IInv, Coded
  <2>6. QED
    BY <2>1, <2>2, <2>5
       DEF IInv, Placed, Alone, ReadsAreStable, Called, Held, SourceHeld, DestHeld,
           Copying
<1>10. CASE \E p \in Pages : Update(c, p)
  <2>1. PICK p \in Pages : Update(c, p)
    BY <1>10
  <2>2. writes + 1 \in 0..MaxWrites
    <3>1. writes < MaxWrites
      BY <2>1 DEF Update
    <3>2. QED
      BY <1>3, <3>1, HomeAssumption
  <2>3. image'[c] \in Image
    BY <1>2, <1>3, <1>4, <2>1, <2>2, ImageFacts DEF Update
  <2>4. image' \in [Conns -> Image]
    BY <1>2, <1>3, <2>1, <2>3 DEF Update
  <2>5. Typed'
    BY <1>2, <1>3, <2>1, <2>2, <2>4 DEF IInv, Typed, Update, Levels, Codes
  <2>6. MayRead(c)
    BY <2>1 DEF Update, MayRead, MayWrite
  <2>7. QED
    BY <1>1, <1>2, <1>3, <2>1, <2>5, <2>6, TransactionPreserves DEF Update, Levels
<1>11. QED
  BY <1>6, <1>7, <1>8, <1>9, <1>10
-----------------------------------------------------------------------------
(* The call.                                                               *)

(* The fields of the backup object after each kind of change.              *)
Same(e, b) == /\ e \in BackupType /\ e.src = b.src /\ e.dest = b.dest

LEMMA ToStep ==
  ASSUME NEW b \in BackupType, NEW s \in Steps, NEW e, e = [b EXCEPT !.step = s]
  PROVE  /\ Same(e, b) /\ e.step = s /\ e.iNext = b.iNext /\ e.rc = b.rc
         /\ e.own <=> b.own
         /\ e.locked <=> b.locked
BY DEF BackupType, Same

LEMMA ToDest ==
  ASSUME NEW b \in BackupType, NEW e, e = [b EXCEPT !.step = "dest", !.own = TRUE]
  PROVE  /\ Same(e, b) /\ e.step = "dest" /\ e.rc = b.rc
         /\ e.locked <=> b.locked
BY DEF BackupType, Same, Steps

LEMMA ToCopy ==
  ASSUME NEW b \in BackupType, NEW e, e = [b EXCEPT !.step = "copy", !.locked = TRUE]
  PROVE  /\ Same(e, b) /\ e.step = "copy" /\ e.rc = b.rc /\ e.iNext = b.iNext
         /\ e.locked
         /\ e.own <=> b.own
BY DEF BackupType, Same, Steps

LEMMA ToNextPage ==
  ASSUME NEW b \in BackupType, NEW e, e = [b EXCEPT !.iNext = @ + 1]
  PROVE  /\ Same(e, b) /\ e.step = b.step /\ e.rc = b.rc /\ e.iNext = b.iNext + 1
         /\ e.own <=> b.own
         /\ e.locked <=> b.locked
BY DEF BackupType, Same

LEMMA NoBackupFields ==
  /\ NoBackup \in BackupType /\ NoBackup.step = "idle" /\ NoBackup.rc = "OK"
BY DEF BackupType, NoBackup, Steps, Codes, Conns

(* What is known of a call in progress.                                    *)
LEMMA Parties ==
  ASSUME IInv, backup.step # "idle"
  PROVE  /\ backup \in BackupType
         /\ backup.src \in Conns /\ backup.dest \in Conns
         /\ backup.src \in Handles \cup {temp} /\ backup.dest \in Handles \cup {temp}
         /\ at[backup.src] \in Files /\ at[backup.dest] \in Files
BY DEF IInv, Typed, Called, Conns

LEMMA BackupDbhPreserves ==
  ASSUME IInv, NEW src \in Handles, NEW dest \in Handles, BackupDbh(src, dest)
  PROVE  IInv'
<1>1. UNCHANGED <<file, at, level, image, app, active, errcode, writes>>
      /\ backup.step = "idle"
  BY DEF BackupDbh, Calling
<1>2. src \in Conns /\ dest \in Conns /\ at[src] \in Files /\ at[dest] \in Files
  BY HomeAssumption DEF IInv, Placed, Conns
<1>3. CASE {src, dest} \subseteq active
  <2>1. backup' = [NoBackup EXCEPT !.step = "init", !.src = src, !.dest = dest]
        /\ answer' = answer
    BY <1>3 DEF BackupDbh
  <2>2. /\ backup' \in BackupType /\ backup'.src = src /\ backup'.dest = dest
        /\ backup'.step = "init" /\ backup'.rc = "OK" /\ ~backup'.own
        /\ backup'.iNext = 1
    <3>1. backup' = [step |-> "init", src |-> src, dest |-> dest, own |-> FALSE,
                     iNext |-> 1, rc |-> "OK", locked |-> FALSE]
      BY <2>1 DEF NoBackup
    <3>2. QED
      BY <1>2, <3>1 DEF BackupType, Steps, Codes
  <2>3. Typed' /\ Placed' /\ Alone' /\ ReadsAreStable'
    BY <1>1, <2>1, <2>2 DEF IInv, Typed, Placed, Alone, ReadsAreStable
  <2>4. Called' /\ Copying' /\ Coded'
    BY <1>1, <1>2, <2>2 DEF Called, Copying, Coded
  <2>5. Held'
    BY <1>1, <2>2 DEF IInv, Held, SourceHeld, DestHeld
  <2>6. QED
    BY <2>3, <2>4, <2>5 DEF IInv
<1>4. CASE ~({src, dest} \subseteq active)
  <2>1. backup' = backup /\ answer' = "false"
    BY <1>4 DEF BackupDbh
  <2>2. QED
    BY <1>1, <2>1
       DEF IInv, Typed, Placed, Alone, ReadsAreStable, Called, Held, SourceHeld,
           DestHeld, Copying, Coded
<1>5. QED
  BY <1>3, <1>4

LEMMA BackupFilePreserves ==
  ASSUME IInv, NEW h \in Handles, NEW f \in Files, NEW from \in BOOLEAN,
         BackupFile(h, f, from)
  PROVE  IInv'
<1>1. UNCHANGED <<file, level, image, app, active, writes>> /\ backup.step = "idle"
  BY DEF BackupFile, Calling
<1>2. /\ at[h] \in Files /\ h \in Conns /\ temp \in Conns /\ h # temp
      /\ at \in [Conns -> Files \cup {NoFile}] /\ errcode \in [Conns -> Codes]
  BY HomeAssumption DEF IInv, Typed, Placed, Conns
<1>3. CASE /\ at' = [at EXCEPT ![temp] = f]
           /\ backup' = [NoBackup EXCEPT !.step = "init",
                !.src = IF from THEN temp ELSE h, !.dest = IF from THEN h ELSE temp]
           /\ errcode' = [errcode EXCEPT ![temp] = "OK"]
           /\ UNCHANGED answer
  <2> DEFINE s == IF from THEN temp ELSE h
             d == IF from THEN h ELSE temp
  <2>1. s \in Conns /\ d \in Conns /\ {s, d} \subseteq Handles \cup {temp}
    BY <1>2
  <2>2. /\ backup' \in BackupType /\ backup'.src = s /\ backup'.dest = d
        /\ backup'.step = "init" /\ backup'.rc = "OK" /\ ~backup'.own
        /\ backup'.iNext = 1
    <3>1. backup' = [NoBackup EXCEPT !.step = "init", !.src = s, !.dest = d]
      BY <1>3
    <3> HIDE DEF s, d
    <3>2. QED
      <4>1. backup' = [step |-> "init", src |-> s, dest |-> d, own |-> FALSE,
                       iNext |-> 1, rc |-> "OK", locked |-> FALSE]
        BY <3>1 DEF NoBackup
      <4>2. QED
        BY <2>1, <4>1 DEF BackupType, Steps, Codes
  <2>3. at'[s] \in Files /\ at'[d] \in Files
    BY <1>2, <1>3
  <2>4. level[temp] = "none"
    BY <1>1, <1>2 DEF IInv, Placed, Held, SourceHeld, DestHeld
  <2>5. \A c \in Conns : c # temp => at'[c] = at[c]
    BY <1>2, <1>3
  <2>6. Typed' /\ Placed'
    <3>1. at' \in [Conns -> Files \cup {NoFile}] /\ errcode' \in [Conns -> Codes]
      BY <1>2, <1>3 DEF Codes
    <3>2. \A c \in Handles \cup Others : at'[c] = at[c]
      BY <2>5, HomeAssumption DEF Conns
    <3>3. QED
      BY <1>1, <1>3, <2>2, <3>1, <3>2 DEF IInv, Typed, Placed
  <2>7. Alone' /\ ReadsAreStable'
    BY <1>1, <2>4, <2>5 DEF IInv, Alone, ReadsAreStable
  <2>8. Called' /\ Copying' /\ Coded'
    BY <2>1, <2>2, <2>3 DEF Called, Copying, Coded
  <2>9. Held'
    BY <1>1, <2>2 DEF IInv, Held, SourceHeld, DestHeld
  <2>10. QED
    BY <2>6, <2>7, <2>8, <2>9 DEF IInv
<1>4. CASE answer' = "false" /\ UNCHANGED <<at, backup, errcode>>
  BY <1>1, <1>4
     DEF IInv, Typed, Placed, Alone, ReadsAreStable, Called, Held, SourceHeld,
         DestHeld, Copying, Coded
<1>5. QED
  BY <1>3, <1>4 DEF BackupFile

LEMMA BackupInitPreserves ==
  ASSUME IInv, BackupInit
  PROVE  IInv'
<1>1. UNCHANGED <<file, at, level, image, app, active, answer, writes>>
      /\ backup.step = "init"
  BY DEF BackupInit, Calling
<1>2. /\ backup \in BackupType /\ backup.src \in Conns /\ backup.dest \in Conns
      /\ errcode \in [Conns -> Codes] /\ backup.rc = "OK"
  BY <1>1, Parties DEF IInv, Typed, Coded
<1>3. Placed' /\ Alone' /\ ReadsAreStable'
  BY <1>1 DEF IInv, Placed, Alone, ReadsAreStable
<1>4. \A c \in Conns : level[c] = app[c]
  BY <1>1 DEF IInv, Held, SourceHeld, DestHeld
<1>5. CASE backup.src = backup.dest \/ level[backup.dest] # "none"
  <2>1. errcode' = [errcode EXCEPT ![backup.dest] = "ERROR"]
        /\ backup' = [backup EXCEPT !.step = "return"]
    BY <1>5 DEF BackupInit
  <2>2. Same(backup', backup) /\ backup'.step = "return" /\ backup'.rc = "OK"
    BY <1>2, <2>1, ToStep DEF Steps
  <2>3. errcode' \in [Conns -> Codes] /\ errcode'[backup.dest] = "ERROR"
    BY <1>2, <2>1 DEF Codes
  <2>4. Typed' /\ Called' /\ Copying' /\ Coded'
    BY <1>1, <2>2, <2>3 DEF IInv, Typed, Called, Copying, Coded, Same
  <2>5. Held'
    BY <1>1, <1>4, <2>2 DEF Held, SourceHeld, DestHeld
  <2>6. QED
    BY <1>3, <2>4, <2>5 DEF IInv
<1>6. CASE backup.src # backup.dest /\ level[backup.dest] = "none"
  <2>1. errcode' = errcode /\ backup' = [backup EXCEPT !.step = "source"]
    BY <1>6 DEF BackupInit
  <2>2. /\ Same(backup', backup) /\ backup'.step = "source" /\ backup'.rc = "OK"
        /\ backup'.own <=> backup.own
    BY <1>2, <2>1, ToStep DEF Steps
  <2>3. Typed' /\ Called' /\ Copying' /\ Coded'
    BY <1>1, <2>1, <2>2 DEF IInv, Typed, Called, Copying, Coded, Same
  <2>4. Held'
    BY <1>1, <1>2, <1>4, <1>6, <2>2 DEF IInv, Held, SourceHeld, DestHeld, Same
  <2>5. QED
    BY <1>3, <2>3, <2>4 DEF IInv
<1>7. QED
  BY <1>5, <1>6

(* A step that fails without having changed anything: the call will close  *)
(* the source and finish.                                                  *)
LEMMA FailurePreserves ==
  ASSUME IInv, backup.step \in {"source", "dest", "copy"},
         UNCHANGED <<file, at, level, image, app, active, errcode, answer, writes>>,
         NEW rc \in Codes \ {"OK"}, Fails(rc)
  PROVE  IInv'
<1>1. /\ Same(backup', backup) /\ backup'.step = "closesource" /\ backup'.rc = rc
      /\ backup'.own <=> backup.own
      /\ backup'.locked <=> backup.locked
  <2>1. backup \in BackupType /\ rc \in Codes
    BY Parties
  <2>2. QED
    BY <2>1 DEF Fails, BackupType, Same, Steps
<1>2. Typed' /\ Placed' /\ Alone' /\ ReadsAreStable'
  BY <1>1 DEF IInv, Typed, Placed, Alone, ReadsAreStable, Same
<1>3. Called' /\ Copying' /\ Coded'
  BY <1>1 DEF IInv, Called, Copying, Coded, Same
<1>4. Held'
  BY <1>1 DEF IInv, Held, SourceHeld, DestHeld, Same
<1>5. QED
  BY <1>2, <1>3, <1>4 DEF IInv

LEMMA LockSourcePreserves ==
  ASSUME IInv, LockSource
  PROVE  IInv'
<1>1. UNCHANGED <<file, at, app, active, errcode, answer, writes>>
      /\ backup.step = "source"
  BY DEF LockSource, Calling
<1>2. /\ backup \in BackupType /\ backup.src \in Conns /\ backup.dest \in Conns
      /\ at[backup.src] \in Files /\ backup.rc = "OK"
      /\ level \in [Conns -> Levels] /\ image \in [Conns -> Image]
      /\ file \in [Files -> Image]
  BY <1>1, Parties DEF IInv, Typed, Coded
<1>3. /\ \A c \in Conns : level[c] = app[c] /\ level[c] \in Levels \ {"exclusive"}
      /\ backup.src # backup.dest /\ ~backup.own /\ app[backup.dest] = "none"
  BY <1>1 DEF IInv, Typed, Held, SourceHeld, DestHeld
<1>4. CASE Fails("BUSY") /\ UNCHANGED <<level, image>>
  BY <1>1, <1>4, FailurePreserves DEF Codes
<1>5. CASE /\ level[backup.src] = "shared" /\ UNCHANGED <<level, image>>
           /\ backup' = [backup EXCEPT !.step = "dest"]
  <2>1. /\ Same(backup', backup) /\ backup'.step = "dest" /\ backup'.rc = "OK"
        /\ backup'.own <=> backup.own
    BY <1>2, <1>5, ToStep DEF Steps
  <2>2. Typed' /\ Placed' /\ Alone' /\ ReadsAreStable'
    BY <1>1, <1>5, <2>1 DEF IInv, Typed, Placed, Alone, ReadsAreStable, Same
  <2>3. Called' /\ Copying' /\ Coded'
    BY <1>1, <1>5, <2>1 DEF IInv, Called, Copying, Coded, Same
  <2>4. Held'
    BY <1>1, <1>3, <1>5, <2>1 DEF IInv, Held, SourceHeld, DestHeld, Same
  <2>5. QED
    BY <2>2, <2>3, <2>4 DEF IInv
<1>6. CASE /\ level[backup.src] \notin {"reserved", "shared"} /\ MayRead(backup.src)
           /\ level' = [level EXCEPT ![backup.src] = "shared"]
           /\ image' = [image EXCEPT ![backup.src] = file[at[backup.src]]]
           /\ backup' = [backup EXCEPT !.step = "dest", !.own = TRUE]
  <2>1. Same(backup', backup) /\ backup'.step = "dest" /\ backup'.rc = "OK"
    BY <1>2, <1>6, ToDest
  <2>2. level[backup.src] = "none" /\ app[backup.src] = "none"
    BY <1>2, <1>3, <1>6 DEF Levels
  <2>3. level' \in [Conns -> Levels] /\ image' \in [Conns -> Image]
    BY <1>2, <1>6 DEF Levels
  <2>4. Typed' /\ Placed'
    BY <1>1, <2>1, <2>3 DEF IInv, Typed, Placed, Same
  <2>5. Alone'
    <3> SUFFICES ASSUME NEW a \in Conns, NEW b \in Conns, a # b, at[a] = at[b],
                        level'[a] = "exclusive"
                 PROVE  level'[b] = "none"
      BY <1>1 DEF Alone
    <3>1. a # backup.src /\ level[a] = "exclusive"
      BY <1>2, <1>6
    <3>2. QED
      BY <1>3, <3>1
  <2>6. ReadsAreStable'
    BY <1>1, <1>2, <1>6 DEF IInv, ReadsAreStable
  <2>7. Called' /\ Copying' /\ Coded'
    BY <1>1, <1>2, <1>6, <2>1 DEF IInv, Called, Copying, Coded, Same
  <2>8. \A c \in Conns \ {backup.src} : level'[c] = app[c]
    BY <1>2, <1>3, <1>6
  <2>9. Held'
    <3>1. SourceHeld'
      BY <1>2, <1>6, <2>1 DEF SourceHeld, BackupType
    <3>2. QED
      BY <1>1, <1>3, <2>1, <2>2, <2>8, <3>1 DEF Held, Same
  <2>10. QED
    BY <2>4, <2>5, <2>6, <2>7, <2>9 DEF IInv
<1>7. \/ Fails("BUSY") /\ UNCHANGED <<level, image>>
      \/ /\ level[backup.src] = "shared" /\ UNCHANGED <<level, image>>
         /\ backup' = [backup EXCEPT !.step = "dest"]
      \/ /\ level[backup.src] \notin {"reserved", "shared"} /\ MayRead(backup.src)
         /\ level' = [level EXCEPT ![backup.src] = "shared"]
         /\ image' = [image EXCEPT ![backup.src] = file[at[backup.src]]]
         /\ backup' = [backup EXCEPT !.step = "dest", !.own = TRUE]
  BY DEF LockSource
<1>8. QED
  BY <1>4, <1>5, <1>6, <1>7
LEMMA LockDestPreserves ==
  ASSUME IInv, LockDest
  PROVE  IInv'
<1>1. UNCHANGED <<file, at, app, active, errcode, answer, writes>>
      /\ backup.step = "dest"
  BY DEF LockDest, Calling
<1>2. /\ backup \in BackupType /\ backup.src \in Conns /\ backup.dest \in Conns
      /\ at[backup.dest] \in Files /\ backup.rc = "OK"
      /\ level \in [Conns -> Levels] /\ image \in [Conns -> Image]
      /\ file \in [Files -> Image]
  BY <1>1, Parties DEF IInv, Typed, Coded
<1>3. backup.src # backup.dest /\ app[backup.dest] = "none" /\ level[backup.src] = "shared"
  BY <1>1 DEF IInv, Held, Copying
<1>4. CASE /\ MayOwn(backup.dest)
           /\ level' = [level EXCEPT ![backup.dest] = "exclusive"]
           /\ image' = [image EXCEPT ![backup.dest] = file[at[backup.dest]]]
           /\ backup' = [backup EXCEPT !.step = "copy", !.locked = TRUE]
  <2>1. /\ Same(backup', backup) /\ backup'.step = "copy" /\ backup'.rc = "OK"
        /\ backup'.iNext = backup.iNext /\ backup'.locked
        /\ backup'.own <=> backup.own
    <3>1. backup \in BackupType /\ backup.rc = "OK"
      BY <1>2
    <3>2. backup' = [backup EXCEPT !.step = "copy", !.locked = TRUE]
      BY <1>4
    <3> QED
      BY ONLY <3>1, <3>2, ToCopy
  <2>2. level' \in [Conns -> Levels] /\ image' \in [Conns -> Image]
    <3>1. "exclusive" \in Levels /\ file[at[backup.dest]] \in Image
      BY <1>2 DEF Levels
    <3>2. level' \in [Conns -> Levels]
      BY <1>2, <1>4, <3>1
    <3>3. image' \in [Conns -> Image]
      BY <1>2, <1>4, <3>1
    <3> QED
      BY <3>2, <3>3
  <2>3. \A c \in Conns \ {backup.dest} : level'[c] = level[c] /\ image'[c] = image[c]
    BY <1>2, <1>4
  <2>4. level'[backup.dest] = "exclusive"
    BY <1>2, <1>4
  <2>5. Typed' /\ Placed'
    BY <1>1, <2>1, <2>2 DEF IInv, Typed, Placed, Same
  <2>6. Alone'
    <3> SUFFICES ASSUME NEW a \in Conns, NEW b \in Conns, a # b, at[a] = at[b],
                        level'[a] = "exclusive"
                 PROVE  level'[b] = "none"
      BY <1>1 DEF Alone
    <3>1. CASE a = backup.dest
      BY <1>2, <1>4, <2>3, <3>1, Rights
    <3>2. CASE a # backup.dest
      <4>1. level[a] = "exclusive"
        BY <2>3, <3>2
      <4>2. b # backup.dest
        BY <1>2, <1>4, <3>2, <4>1, Rights
      <4>3. QED
        BY <2>3, <4>1, <4>2 DEF IInv, Alone
    <3>3. QED
      BY <3>1, <3>2
  <2>7. ReadsAreStable'
    BY <1>1, <2>3, <2>4 DEF IInv, ReadsAreStable
  <2>8. Copying'
    <3>1. backup.iNext = 1
      BY <1>1 DEF IInv, Copying
    <3>2. QED
      BY <1>1, <1>2, <1>3, <2>1, <2>3, <2>4, <3>1 DEF Copying, Same, Pages
  <2>9. Called' /\ Coded'
    BY <1>1, <2>1 DEF IInv, Called, Coded, Same
  <2>10. Held'
    BY <1>1, <2>1, <2>3 DEF IInv, Held, SourceHeld, DestHeld, Same
  <2>11. QED
    BY <2>5, <2>6, <2>7, <2>8, <2>9, <2>10 DEF IInv
<1>5. CASE /\ Fails(IF MayOwn(backup.dest) THEN "READONLY" ELSE "BUSY")
           /\ UNCHANGED <<level, image>>
  BY <1>1, <1>5, FailurePreserves DEF Codes
<1>6. QED
  BY <1>4, <1>5 DEF LockDest

LEMMA CopyPagePreserves ==
  ASSUME IInv, CopyPage
  PROVE  IInv'
<1>1. UNCHANGED <<file, at, level, app, active, errcode, answer, writes>>
      /\ backup.step = "copy" /\ backup.iNext \in Pages
  BY DEF CopyPage, Calling
<1>2. /\ backup \in BackupType /\ backup.src \in Conns /\ backup.dest \in Conns
      /\ at[backup.src] \in Files /\ backup.rc = "OK"
      /\ image \in [Conns -> Image] /\ file \in [Files -> Image]
      /\ backup.iNext \in Nat
  BY <1>1, Parties DEF IInv, Typed, Coded, BackupType
<1>3. CASE /\ image' = [image EXCEPT ![backup.dest][backup.iNext] =
                          file[at[backup.src]][backup.iNext]]
           /\ backup' = [backup EXCEPT !.iNext = @ + 1]
  <2> DEFINE copied == [image[backup.dest] EXCEPT ![backup.iNext] =
                          file[at[backup.src]][backup.iNext]]
  <2>1. /\ Same(backup', backup) /\ backup'.step = "copy" /\ backup'.rc = "OK"
        /\ backup'.iNext = backup.iNext + 1
        /\ backup'.own <=> backup.own
        /\ backup'.locked <=> backup.locked
    BY <1>1, <1>2, <1>3, ToNextPage
  <2>2. image' = [image EXCEPT ![backup.dest] = copied]
    BY <1>3
  <2>3. copied \in Image
    BY <1>1, <1>2, ImageFacts
  <2>4. /\ copied[backup.iNext] = file[at[backup.src]][backup.iNext]
        /\ \A p \in Pages : p # backup.iNext => copied[p] = image[backup.dest][p]
    BY <1>1, <1>2 DEF Image
  <2>5. /\ level[backup.dest] = "exclusive" /\ level[backup.src] = "shared"
        /\ \A p \in Pages : p < backup.iNext =>
             image[backup.dest][p] = file[at[backup.src]][p]
    BY <1>1 DEF IInv, Copying
  <2> HIDE DEF copied
  <2>6. /\ image' \in [Conns -> Image] /\ image'[backup.dest] = copied
        /\ \A c \in Conns \ {backup.dest} : image'[c] = image[c]
    BY <1>2, <2>2, <2>3
  <2>7. Typed' /\ Placed' /\ Alone' /\ ReadsAreStable'
    BY <1>1, <2>1, <2>5, <2>6 DEF IInv, Typed, Placed, Alone, ReadsAreStable, Same
  <2>8. Copying'
    <3>1. \A p \in Pages : p < backup.iNext + 1 => p = backup.iNext \/ p < backup.iNext
      BY <1>2 DEF Pages
    <3>2. QED
      BY <1>1, <2>1, <2>4, <2>5, <2>6, <3>1 DEF Copying, Same
  <2>9. Called' /\ Coded'
    BY <1>1, <2>1 DEF IInv, Called, Coded, Same
  <2>10. Held'
    BY <1>1, <2>1 DEF IInv, Held, SourceHeld, DestHeld, Same
  <2>11. QED
    BY <2>7, <2>8, <2>9, <2>10 DEF IInv
<1>4. CASE Fails("IOERR") /\ UNCHANGED image
  BY <1>1, <1>4, FailurePreserves DEF Codes
<1>5. QED
  BY <1>3, <1>4 DEF CopyPage

(* Whoever gives up a lock hinders nobody.                                 *)
LEMMA UnlockedKeeps ==
  ASSUME IInv, NEW c \in Conns, Unlocked(c), UNCHANGED <<at, file>>
  PROVE  /\ level' \in [Conns -> Levels] /\ image' \in [Conns -> Image]
         /\ level'[c] = "none"
         /\ \A d \in Conns \ {c} : level'[d] = level[d] /\ image'[d] = image[d]
         /\ Alone' /\ ReadsAreStable'
<1>1. level \in [Conns -> Levels] /\ image \in [Conns -> Image]
  BY DEF IInv, Typed
<1>2. level' \in [Conns -> Levels] /\ image' \in [Conns -> Image]
  BY <1>1, ImageFacts DEF Unlocked, Levels
<1>3. /\ level'[c] = "none"
      /\ \A d \in Conns \ {c} : level'[d] = level[d] /\ image'[d] = image[d]
  BY <1>1 DEF Unlocked
<1>4. Alone'
  <2> SUFFICES ASSUME NEW a \in Conns, NEW b \in Conns, a # b, at[a] = at[b],
                      level'[a] = "exclusive"
               PROVE  level'[b] = "none"
    BY DEF Alone
  <2>1. a # c /\ level[a] = "exclusive"
    BY <1>3
  <2>2. QED
    BY <1>3, <2>1 DEF IInv, Alone
<1>5. ReadsAreStable'
  <2> SUFFICES ASSUME NEW d \in Conns, level'[d] = "shared"
               PROVE  image'[d] = file[at[d]]
    BY DEF ReadsAreStable
  <2>1. d # c
    BY <1>3
  <2>2. QED
    BY <1>3, <2>1 DEF IInv, ReadsAreStable
<1>6. QED
  BY <1>2, <1>3, <1>4, <1>5

LEMMA CommitDestPreserves ==
  ASSUME IInv, CommitDest
  PROVE  IInv'
<1>1. UNCHANGED <<at, app, active, errcode, answer, writes>>
      /\ backup.step = "copy"
  BY DEF CommitDest, Calling
<1>2. /\ backup \in BackupType /\ backup.src \in Conns /\ backup.dest \in Conns
      /\ at[backup.dest] \in Files /\ level[backup.dest] = "exclusive"
      /\ image \in [Conns -> Image] /\ file \in [Files -> Image]
      /\ level \in [Conns -> Levels]
  BY <1>1, Parties DEF IInv, Typed, Copying
<1>3. CASE /\ file' = [file EXCEPT ![at[backup.dest]] = image[backup.dest]]
           /\ Unlocked(backup.dest) /\ Fails("DONE")
  <2>1. /\ Same(backup', backup) /\ backup'.step = "closesource" /\ backup'.rc = "DONE"
        /\ backup'.own <=> backup.own
        /\ backup'.locked <=> backup.locked
    BY <1>2, <1>3 DEF Fails, BackupType, Same, Steps, Codes
  <2>2. /\ level' \in [Conns -> Levels] /\ image' \in [Conns -> Image]
        /\ level'[backup.dest] = "none"
        /\ \A d \in Conns \ {backup.dest} : level'[d] = level[d] /\ image'[d] = image[d]
    BY <1>2, <1>3, ImageFacts DEF Unlocked, Levels
  <2>3. file' \in [Files -> Image]
    BY <1>2, <1>3
  <2>4. Typed' /\ Placed'
    BY <1>1, <2>1, <2>2, <2>3 DEF IInv, Typed, Placed, Same
  <2>5. Alone'
    <3> SUFFICES ASSUME NEW a \in Conns, NEW b \in Conns, a # b, at[a] = at[b],
                        level'[a] = "exclusive"
                 PROVE  level'[b] = "none"
      BY <1>1 DEF Alone
    <3>1. a # backup.dest /\ level[a] = "exclusive"
      BY <2>2
    <3>2. QED
      BY <2>2, <3>1 DEF IInv, Alone
  <2>6. ReadsAreStable'
    <3> SUFFICES ASSUME NEW d \in Conns, level'[d] = "shared"
                 PROVE  image'[d] = file'[at[d]]
      BY <1>1 DEF ReadsAreStable
    <3>1. d # backup.dest /\ level[d] = "shared"
      BY <2>2
    <3>2. at[d] # at[backup.dest]
      BY <1>2, <3>1 DEF IInv, Alone
    <3>3. QED
      BY <1>3, <2>2, <3>1, <3>2 DEF IInv, ReadsAreStable
  <2>7. Called' /\ Copying' /\ Coded'
    BY <1>1, <2>1 DEF IInv, Called, Copying, Coded, Same
  <2>8. Held'
    BY <1>1, <2>1, <2>2 DEF IInv, Held, SourceHeld, DestHeld, Same
  <2>9. QED
    BY <2>4, <2>5, <2>6, <2>7, <2>8 DEF IInv
<1>4. CASE Fails("IOERR") /\ UNCHANGED <<file, level, image>>
  BY <1>1, <1>4, FailurePreserves DEF Codes
<1>5. QED
  BY <1>3, <1>4 DEF CommitDest

LEMMA CloseSourcePreserves ==
  ASSUME IInv, CloseSource
  PROVE  IInv'
<1>1. /\ UNCHANGED <<file, at, app, active, errcode, answer, writes>>
      /\ backup.step = "closesource" /\ backup' = [backup EXCEPT !.step = "finish"]
      /\ IF backup.own THEN Unlocked(backup.src) ELSE UNCHANGED <<level, image>>
  BY DEF CloseSource, Calling
<1>2. backup \in BackupType /\ backup.src \in Conns /\ backup.rc # "OK"
  BY <1>1, Parties DEF IInv, Coded
<1>3. /\ Same(backup', backup) /\ backup'.step = "finish" /\ backup'.rc = backup.rc
      /\ backup'.own <=> backup.own
      /\ backup'.locked <=> backup.locked
  BY <1>1, <1>2, ToStep DEF Steps
<1>4. /\ level' \in [Conns -> Levels] /\ image' \in [Conns -> Image]
      /\ Alone' /\ ReadsAreStable'
  <2>1. CASE backup.own
    BY <1>1, <1>2, <2>1, UnlockedKeeps
  <2>2. CASE ~backup.own
    BY <1>1, <2>2 DEF IInv, Typed, Alone, ReadsAreStable
  <2>3. QED
    BY <2>1, <2>2
<1>5. Typed' /\ Placed' /\ Called' /\ Copying' /\ Coded'
  BY <1>1, <1>2, <1>3, <1>4 DEF IInv, Typed, Placed, Called, Copying, Coded, Same
<1>6. Held'
  <2>1. CASE backup.own
    <3>1. /\ level'[backup.src] = "none" /\ app[backup.src] = "none"
          /\ \A d \in Conns \ {backup.src} : level'[d] = level[d]
      BY <1>1, <1>2, <2>1, UnlockedKeeps DEF IInv, Held, SourceHeld
    <3>2. QED
      BY <1>1, <1>3, <3>1 DEF IInv, Held, SourceHeld, DestHeld, Same
  <2>2. CASE ~backup.own
    BY <1>1, <1>3, <2>2 DEF IInv, Held, SourceHeld, DestHeld, Same
  <2>3. QED
    BY <2>1, <2>2
<1>7. QED
  BY <1>4, <1>5, <1>6 DEF IInv

LEMMA FinishPreserves ==
  ASSUME IInv, Finish
  PROVE  IInv'
<1>1. /\ UNCHANGED <<file, at, app, active, answer, writes>>
      /\ backup.step = "finish" /\ backup' = [backup EXCEPT !.step = "return"]
      /\ IF backup.locked THEN Unlocked(backup.dest) ELSE UNCHANGED <<level, image>>
      /\ errcode' = [errcode EXCEPT ![backup.dest] =
                       IF backup.rc = "DONE" THEN "OK" ELSE backup.rc]
  BY DEF Finish, Calling
<1>2. /\ backup \in BackupType /\ backup.dest \in Conns /\ backup.rc # "OK"
      /\ errcode \in [Conns -> Codes] /\ backup.rc \in Codes
  BY <1>1, Parties DEF IInv, Typed, Coded, BackupType
<1>3. /\ Same(backup', backup) /\ backup'.step = "return" /\ backup'.rc = backup.rc
  BY <1>1, <1>2, ToStep DEF Steps
<1>4. /\ errcode' \in [Conns -> Codes]
      /\ backup.rc = "DONE" <=> errcode'[backup.dest] = "OK"
  BY <1>1, <1>2 DEF Codes
<1>5. /\ level' \in [Conns -> Levels] /\ image' \in [Conns -> Image]
      /\ Alone' /\ ReadsAreStable'
  <2>1. CASE backup.locked
    BY <1>1, <1>2, <2>1, UnlockedKeeps
  <2>2. CASE ~backup.locked
    BY <1>1, <2>2 DEF IInv, Typed, Alone, ReadsAreStable
  <2>3. QED
    BY <2>1, <2>2
<1>6. Typed' /\ Placed' /\ Called' /\ Copying' /\ Coded'
  BY <1>1, <1>3, <1>4, <1>5 DEF IInv, Typed, Placed, Called, Copying, Coded, Same
<1>7. Held'
  <2>1. \A d \in Conns : level'[d] = app[d]
    <3>1. CASE backup.locked
      <4>1. /\ level'[backup.dest] = "none" /\ app[backup.dest] = "none"
            /\ \A d \in Conns \ {backup.dest} : level'[d] = level[d]
        BY <1>1, <1>2, <3>1, UnlockedKeeps DEF IInv, Held
      <4>2. QED
        BY <1>1, <4>1 DEF IInv, Held, SourceHeld
    <3>2. CASE ~backup.locked
      BY <1>1, <3>2 DEF IInv, Held, SourceHeld, DestHeld
    <3>3. QED
      BY <3>1, <3>2
  <2>2. QED
    BY <1>1, <1>3, <2>1 DEF Held, SourceHeld, DestHeld
<1>8. QED
  BY <1>5, <1>6, <1>7 DEF IInv

LEMMA ReturnPreserves ==
  ASSUME IInv, Return
  PROVE  IInv'
<1>1. /\ UNCHANGED <<file, level, image, app, active, errcode, writes>>
      /\ backup.step = "return" /\ backup' = NoBackup
      /\ answer' \in {"true", "false"}
      /\ at' = [at EXCEPT ![temp] = NoFile]
  BY DEF Return, Calling
<1>2. at \in [Conns -> Files \cup {NoFile}] /\ temp \in Conns
  BY DEF IInv, Typed, Conns
<1>3. \A c \in Conns : level[c] = app[c]
  BY <1>1 DEF IInv, Held, SourceHeld, DestHeld
<1>4. /\ at' \in [Conns -> Files \cup {NoFile}]
      /\ \A c \in Conns : c # temp => at'[c] = at[c]
  BY <1>1, <1>2
<1>5. level[temp] = "none"
  BY <1>2, <1>3 DEF IInv, Placed
<1>6. Typed' /\ Placed'
  <2>1. \A c \in Handles \cup Others : at'[c] = at[c]
    BY <1>4, HomeAssumption DEF Conns
  <2>2. QED
    BY <1>1, <1>4, <2>1, NoBackupFields DEF IInv, Typed, Placed
<1>7. Alone' /\ ReadsAreStable'
  BY <1>1, <1>4, <1>5 DEF IInv, Alone, ReadsAreStable
<1>8. Called' /\ Copying' /\ Coded'
  BY <1>1, NoBackupFields DEF Called, Copying, Coded
<1>9. Held'
  BY <1>1, <1>3, NoBackupFields DEF Held, SourceHeld, DestHeld
<1>10. QED
  BY <1>6, <1>7, <1>8, <1>9 DEF IInv

LEMMA InitIInv ==
  ASSUME Init
  PROVE  IInv
<1>1. Typed
  <2>1. file \in [Files -> Image] /\ image \in [Conns -> Image]
    BY ImageFacts DEF Init
  <2>2. at \in [Conns -> Files \cup {NoFile}]
    BY HomeAssumption DEF Init, Conns
  <2>3. /\ level \in [Conns -> Levels] /\ app \in [Conns -> Levels \ {"exclusive"}]
        /\ errcode \in [Conns -> Codes]
    BY DEF Init, Levels, Codes
  <2>4. active \subseteq Handles /\ answer \in {"none", "true", "false"}
        /\ writes \in 0..MaxWrites /\ backup \in BackupType
    BY HomeAssumption, NoBackupFields DEF Init
  <2>5. QED
    BY <2>1, <2>2, <2>3, <2>4 DEF Typed
<1>2. Placed /\ Alone /\ ReadsAreStable
  BY HomeAssumption DEF Init, Placed, Alone, ReadsAreStable, Conns
<1>3. Called /\ Held /\ Copying /\ Coded
  BY NoBackupFields DEF Init, Called, Held, SourceHeld, DestHeld, Copying, Coded
<1>4. QED
  BY <1>1, <1>2, <1>3 DEF IInv

LEMMA NextIInv ==
  ASSUME IInv, [Next]_vars
  PROVE  IInv'
<1>1. CASE \E c \in Handles \cup Others :
             \/ Select(c) \/ Commit(c) \/ End(c) \/ Busy(c)
             \/ \E p \in Pages : Update(c, p)
  BY <1>1, TransactionsPreserve
<1>2. CASE \E h \in Handles : Disconnect(h)
  BY <1>2, TransactionsPreserve
<1>3. CASE \E src, dest \in Handles : BackupDbh(src, dest)
  BY <1>3, BackupDbhPreserves
<1>4. CASE \E h \in Handles, f \in Files, from \in BOOLEAN : BackupFile(h, f, from)
  BY <1>4, BackupFilePreserves
<1>5. CASE Step
  BY <1>5, BackupInitPreserves, LockSourcePreserves, LockDestPreserves,
     CopyPagePreserves, CommitDestPreserves, CloseSourcePreserves, FinishPreserves,
     ReturnPreserves DEF Step
<1>6. CASE UNCHANGED vars
  BY <1>6 DEF vars, IInv, Typed, Placed, Alone, ReadsAreStable, Called, Held,
              SourceHeld, DestHeld, Copying, Coded
<1>7. QED
  BY <1>1, <1>2, <1>3, <1>4, <1>5, <1>6 DEF Next

LEMMA Invariance == Spec => []IInv
<1>1. Init => IInv
  BY InitIInv
<1>2. IInv /\ [Next]_vars => IInv'
  BY NextIInv
<1>3. QED
  BY <1>1, <1>2, PTL DEF Spec
(* Locks and contents have their shape, and an exclusive lock excludes.    *)
THEOREM TypeCorrect == Spec => []TypeOK
<1>1. IInv => TypeOK
  <2> SUFFICES ASSUME IInv PROVE TypeOK
    OBVIOUS
  <2>1. \A c \in Conns : level[c] = "exclusive" => MayOwn(c)
    BY DEF IInv, Alone, MayOwn, Against
  <2>2. QED
    BY <2>1 DEF IInv, Typed, TypeOK, Levels, BackupType
<1>2. QED
  BY <1>1, Invariance, PTL

(* A connection that reads sees the file as it is, whatever backups to and *)
(* from the file are under way.                                            *)
THEOREM ReadersSeeTheFile == Spec => []ReadsAreStable
<1>1. IInv => ReadsAreStable
  BY DEF IInv
<1>2. QED
  BY <1>1, Invariance, PTL

(* Wherever a backup fails, it gives back the locks it took and no others. *)
THEOREM LocksAreReturned == Spec => []NoLockLeft
<1>1. IInv => NoLockLeft
  <2> SUFFICES ASSUME IInv, backup.step = "idle" PROVE level = app
    BY DEF NoLockLeft
  <2>1. \A c \in Conns : level[c] = app[c]
    BY DEF IInv, Held, SourceHeld, DestHeld
  <2>2. level \in [Conns -> Levels] /\ app \in [Conns -> Levels \ {"exclusive"}]
    BY DEF IInv, Typed
  <2>3. QED
    BY <2>1, <2>2
<1>2. QED
  BY <1>1, Invariance, PTL

-----------------------------------------------------------------------------
(* The refinement.                                                         *)

(* asked and copied of AtomicCopy.                                         *)
Asking == IF backup.step = "idle" THEN [from |-> "none", to |-> "none"]
          ELSE [from |-> at[backup.src], to |-> at[backup.dest]]
Copied == backup.step # "idle" /\ backup.rc = "DONE"

PromiseVars == <<file, Asking, backup, Copied, answer>>
Promised == Promise!Next \/ UNCHANGED PromiseVars

LEMMA SameCall ==
  ASSUME IInv, NEW e, e = backup', Same(e, backup), UNCHANGED <<file, at, answer>>,
         backup.step # "idle", backup'.step # "idle", backup' # backup,
         backup.rc = "DONE" <=> backup'.rc = "DONE"
  PROVE  Promised
<1>1. /\ backup.src \in Conns /\ at[backup.src] \in Files
      /\ Asking = [from |-> at[backup.src], to |-> at[backup.dest]]
  BY Parties DEF IInv, Asking
<1>2. Asking # [from |-> "none", to |-> "none"]
  BY <1>1, HomeAssumption DEF NoFile
<1>3. Asking' = Asking /\ Copied' = Copied
  BY DEF Asking, Copied, Same
<1>4. Promise!Proceed
  BY <1>2, <1>3 DEF Promise!Proceed, Promise!Goes, Promise!NoCall, Asking, Copied
<1>5. QED
  BY <1>4 DEF Promised, Promise!Next

(* Every step of a call gets on.                                           *)
LEMMA StepMoves ==
  ASSUME IInv, Step
  PROVE  backup' # backup
<1>1. backup \in BackupType /\ backup.iNext \in Nat
  <2>1. backup.step # "idle"
    BY DEF Step, BackupInit, LockSource, LockDest, CopyPage, CommitDest, CloseSource,
           Finish, Return, Calling
  <2>2. QED
    BY <2>1, Parties DEF BackupType
<1>2. \A s : [backup EXCEPT !.step = s].step = s
  BY <1>1 DEF BackupType
<1>3. \A rc : Fails(rc) => backup'.step = "closesource"
  BY <1>1 DEF Fails, BackupType
<1>4. CASE BackupInit
  BY <1>2, <1>4 DEF BackupInit, Calling
<1>5. CASE LockSource
  <2>1. [backup EXCEPT !.step = "dest", !.own = TRUE].step = "dest"
    BY <1>1 DEF BackupType
  <2>2. QED
    BY <1>2, <1>3, <1>5, <2>1 DEF LockSource, Calling
<1>6. CASE LockDest
  <2>1. [backup EXCEPT !.step = "copy", !.locked = TRUE].step = "copy"
    BY <1>1 DEF BackupType
  <2>2. QED
    BY <1>3, <1>6, <2>1 DEF LockDest, Calling
<1>7. CASE CopyPage
  <2>1. [backup EXCEPT !.iNext = @ + 1].iNext = backup.iNext + 1
    BY <1>1 DEF BackupType
  <2>2. backup.iNext + 1 # backup.iNext
    BY <1>1
  <2>3. QED
    BY <1>3, <1>7, <2>1, <2>2 DEF CopyPage, Calling
<1>8. CASE CommitDest
  BY <1>3, <1>8 DEF CommitDest, Calling
<1>9. CASE CloseSource
  BY <1>2, <1>9 DEF CloseSource, Calling
<1>10. CASE Finish
  BY <1>2, <1>10 DEF Finish, Calling
<1>11. CASE Return
  BY <1>11, NoBackupFields DEF Return, Calling
<1>12. QED
  BY <1>4, <1>5, <1>6, <1>7, <1>8, <1>9, <1>10, <1>11 DEF Step

(* An application's transaction.                                           *)
LEMMA TransactionRefines ==
  ASSUME IInv, NEW c \in Handles \cup Others,
         \/ Select(c) \/ Commit(c) \/ End(c) \/ Busy(c)
         \/ \E p \in Pages : Update(c, p)
         \/ c \in Handles /\ Disconnect(c)
  PROVE  Promised
<1>1. UNCHANGED <<at, backup, answer>>
  BY DEF Select, Commit, End, Busy, Update, Disconnect
<1>2. UNCHANGED <<Asking, Copied>>
  BY <1>1 DEF Asking, Copied
<1>3. CASE Commit(c)
  <2>1. c \in Conns /\ at[c] \in Files /\ image[c] \in Image
    BY <1>3, Outsider DEF Commit, IInv, Typed
  <2>2. file' = [file EXCEPT ![at[c]] = image[c]]
    BY <1>3 DEF Commit
  <2>3. Promise!Change
    BY <1>1, <1>2, <2>1, <2>2 DEF Promise!Change, Asking, Copied
  <2>4. QED
    BY <2>3 DEF Promised, Promise!Next
<1>4. CASE file' = file
  BY <1>1, <1>2, <1>4 DEF Promised, PromiseVars
<1>5. QED
  BY <1>3, <1>4 DEF Select, End, Busy, Update, Disconnect

(* A call that is refused at once.                                         *)
LEMMA RefuseRefines ==
  ASSUME UNCHANGED <<file, backup>>, answer' = "false", backup.step = "idle"
  PROVE  Promised
<1>1. /\ Asking = [from |-> "none", to |-> "none"] /\ Asking' = Asking
      /\ Copied' = Copied
  BY DEF Asking, Copied
<1>2. Promise!Refuse
  BY <1>1 DEF Promise!Refuse, Promise!NoCall, Asking, Copied
<1>3. QED
  BY <1>2 DEF Promised, Promise!Next

(* The return of a call.                                                   *)
LEMMA AnswerRefines ==
  ASSUME IInv, UNCHANGED file, answer' = IF Copied THEN "true" ELSE "false",
         backup.step # "idle", backup'.step = "idle", backup' # backup
  PROVE  Promised
<1>1. Asking' = [from |-> "none", to |-> "none"] /\ Copied' = FALSE
  BY DEF Asking, Copied
<1>2. Asking # [from |-> "none", to |-> "none"]
  <2>1. at[backup.src] \in Files /\ Asking = [from |-> at[backup.src], to |-> at[backup.dest]]
    BY Parties DEF IInv, Asking
  <2>2. QED
    BY <2>1, HomeAssumption DEF NoFile
<1>3. Promise!Answer
  BY <1>1, <1>2 DEF Promise!Answer, Promise!Goes, Promise!NoCall, Asking, Copied
<1>4. QED
  BY <1>3 DEF Promised, Promise!Next

LEMMA AskRefines ==
  ASSUME backup.step = "idle", UNCHANGED <<file, answer>>,
         backup'.step = "init", backup'.rc = "OK",
         at'[backup'.src] \in Files, at'[backup'.dest] \in Files
  PROVE  Promised
<1>1. Asking = [from |-> "none", to |-> "none"]
  BY DEF Asking
<1>2. /\ Asking' = [from |-> at'[backup'.src], to |-> at'[backup'.dest]]
      /\ Copied' = FALSE
  BY DEF Asking, Copied
<1>3. backup' # backup /\ Promise!Ask
  BY <1>1, <1>2 DEF Promise!Ask, Promise!NoCall, Asking, Copied
<1>4. QED
  BY <1>3 DEF Promised, Promise!Next

LEMMA CallRefines ==
  ASSUME IInv, IInv',
         \/ \E src, dest \in Handles : BackupDbh(src, dest)
         \/ \E h \in Handles, f \in Files, from \in BOOLEAN : BackupFile(h, f, from)
  PROVE  Promised
<1>1. backup.step = "idle" /\ UNCHANGED file
  BY DEF BackupDbh, BackupFile, Calling
<1>2. CASE backup'.step = "init" /\ UNCHANGED answer
  <2>1. at'[backup'.src] \in Files /\ at'[backup'.dest] \in Files
    BY <1>2 DEF IInv, Called
  <2>2. backup'.rc = "OK"
    BY <1>2 DEF IInv, Coded
  <2>3. QED
    BY <1>1, <1>2, <2>1, <2>2, AskRefines
<1>3. CASE answer' = "false" /\ UNCHANGED backup
  BY <1>1, <1>3, RefuseRefines
<1>4. ASSUME NEW s, NEW d, backup' = [NoBackup EXCEPT !.step = "init", !.src = s, !.dest = d]
      PROVE  backup'.step = "init"
  BY <1>4 DEF NoBackup
<1>5. QED
  BY <1>2, <1>3, <1>4 DEF BackupDbh, BackupFile

(* The moment at which the destination becomes what the source is.         *)
LEMMA CommitDestRefines ==
  ASSUME IInv, CommitDest
  PROVE  Promised
<1>1. /\ UNCHANGED <<at, answer>> /\ backup.step = "copy"
      /\ backup.iNext \notin Pages
  BY DEF CommitDest, Calling
<1>2. /\ backup \in BackupType /\ backup.src \in Conns /\ backup.dest \in Conns
      /\ at[backup.src] \in Files /\ at[backup.dest] \in Files /\ backup.rc = "OK"
      /\ file \in [Files -> Image] /\ image \in [Conns -> Image]
  BY <1>1, Parties DEF IInv, Typed, Coded
<1>3. CASE file' = [file EXCEPT ![at[backup.dest]] = image[backup.dest]] /\ Fails("DONE")
  <2>1. image[backup.dest] = file[at[backup.src]]
    <3>1. \A p \in Pages : image[backup.dest][p] = file[at[backup.src]][p]
      <4>1. \A p \in Pages : p < backup.iNext
        BY <1>1, <1>2 DEF BackupType, Pages
      <4>2. QED
        BY <1>1, <4>1 DEF IInv, Copying
    <3>2. image[backup.dest] \in Image /\ file[at[backup.src]] \in Image
      BY <1>2
    <3>3. QED
      BY <3>1, <3>2 DEF Image
  <2>2. Same(backup', backup) /\ backup'.step = "closesource" /\ backup'.rc = "DONE"
    BY <1>2, <1>3 DEF Fails, BackupType, Same, Steps, Codes
  <2>3. /\ Asking = [from |-> at[backup.src], to |-> at[backup.dest]]
        /\ Asking' = Asking /\ Copied' = TRUE /\ ~Copied
    BY <1>1, <1>2, <2>2 DEF Asking, Copied, Same
  <2>4. Asking # [from |-> "none", to |-> "none"]
    BY <1>2, <2>3, HomeAssumption DEF NoFile
  <2>5. file' = [file EXCEPT ![Asking.to] = file[Asking.from]]
    BY <1>3, <2>1, <2>3
  <2>6. backup' # backup
    BY <1>1, <2>2
  <2>7. Promise!Copy
    BY <1>1, <2>3, <2>4, <2>5, <2>6
       DEF Promise!Copy, Promise!Goes, Promise!NoCall, Asking, Copied
  <2>8. QED
    BY <2>7 DEF Promised, Promise!Next
<1>4. CASE Fails("IOERR") /\ UNCHANGED file
  <2>1. Same(backup', backup) /\ backup'.step = "closesource" /\ backup'.rc = "IOERR"
    BY <1>2, <1>4 DEF Fails, BackupType, Same, Steps, Codes
  <2>2. QED
    BY <1>1, <1>2, <1>4, <2>1, SameCall
<1>5. QED
  BY <1>3, <1>4 DEF CommitDest

LEMMA StepRefines ==
  ASSUME IInv, Step
  PROVE  Promised
<1>1. /\ backup.step # "idle" /\ backup \in BackupType
      /\ ~CommitDest => file' = file
  <2>1. backup.step # "idle"
    BY DEF Step, BackupInit, LockSource, LockDest, CopyPage, CommitDest, CloseSource,
           Finish, Return, Calling
  <2>2. QED
    BY <2>1, Parties DEF Step, BackupInit, LockSource, LockDest, CopyPage, CommitDest,
           CloseSource, Finish, Return
<1>2. CASE CommitDest
  BY <1>2, CommitDestRefines
<1>3. CASE Return
  <2>1. Copied <=> errcode[backup.dest] = "OK"
    BY <1>3 DEF Return, Calling, Copied, IInv, Coded
  <2>2. UNCHANGED file /\ backup'.step = "idle"
        /\ answer' = IF Copied THEN "true" ELSE "false"
    BY <1>3, <2>1, NoBackupFields DEF Return, Looked
  <2>3. QED
    BY <1>1, <2>2, StepMoves, AnswerRefines
<1>4. CASE \/ \E s \in Steps \ {"idle"} : backup' = [backup EXCEPT !.step = s]
           \/ backup' = [backup EXCEPT !.step = "dest", !.own = TRUE]
           \/ backup' = [backup EXCEPT !.step = "copy", !.locked = TRUE]
           \/ backup' = [backup EXCEPT !.iNext = @ + 1]
  <2> SUFFICES ASSUME ~CommitDest, ~Return PROVE Promised
    BY <1>2, <1>3
  <2>1. UNCHANGED <<at, answer>>
    BY DEF Step, BackupInit, LockSource, LockDest, CopyPage, CloseSource, Finish
  <2>2. /\ Same(backup', backup) /\ backup'.step # "idle" /\ backup'.rc = backup.rc
    <3>1. CASE \E s \in Steps \ {"idle"} : backup' = [backup EXCEPT !.step = s]
      BY <1>1, <3>1 DEF BackupType, Same
    <3>2. CASE \/ backup' = [backup EXCEPT !.step = "dest", !.own = TRUE]
               \/ backup' = [backup EXCEPT !.step = "copy", !.locked = TRUE]
               \/ backup' = [backup EXCEPT !.iNext = @ + 1]
      <4>1. backup' = [backup EXCEPT !.step = "dest", !.own = TRUE] =>
              Same(backup', backup) /\ backup'.step = "dest" /\ backup'.rc = backup.rc
        BY <1>1, ToDest
      <4>2. backup' = [backup EXCEPT !.step = "copy", !.locked = TRUE] =>
              Same(backup', backup) /\ backup'.step = "copy" /\ backup'.rc = backup.rc
        BY <1>1, ToCopy
      <4>3. backup' = [backup EXCEPT !.iNext = @ + 1] =>
              Same(backup', backup) /\ backup'.step = backup.step /\ backup'.rc = backup.rc
        BY <1>1, ToNextPage
      <4> QED
        BY <1>1, <3>2, <4>1, <4>2, <4>3
    <3>3. QED
      BY <1>4, <3>1, <3>2
  <2>3. QED
    BY <1>1, <2>1, <2>2, StepMoves, SameCall
<1>5. CASE \E rc \in {"BUSY", "READONLY", "IOERR"} :
             Fails(rc) /\ (LockSource \/ LockDest \/ CopyPage)
  <2>1. PICK rc \in {"BUSY", "READONLY", "IOERR"} : Fails(rc)
    BY <1>5
  <2>2. /\ UNCHANGED <<file, at, answer>> /\ backup.step \in {"source", "dest", "copy"}
    BY <1>5 DEF LockSource, LockDest, CopyPage, Calling
  <2>3. backup \in BackupType /\ backup.rc = "OK"
    BY <2>2, Parties DEF IInv, Coded
  <2>4. Same(backup', backup) /\ backup'.step = "closesource" /\ backup'.rc = rc
    BY <2>1, <2>3 DEF Fails, BackupType, Same, Steps, Codes
  <2>5. QED
    BY <2>1, <2>2, <2>3, <2>4, SameCall
<1>6. QED
  <2>1. CASE BackupInit
    BY <1>4, <2>1 DEF BackupInit, Steps
  <2>2. CASE LockSource
    BY <1>4, <1>5, <2>2 DEF LockSource, Steps
  <2>3. CASE LockDest
    BY <1>4, <1>5, <2>3 DEF LockDest
  <2>4. CASE CopyPage
    BY <1>4, <1>5, <2>4 DEF CopyPage
  <2>5. CASE CloseSource
    BY <1>4, <2>5 DEF CloseSource, Steps
  <2>6. CASE Finish
    BY <1>4, <2>6 DEF Finish, Steps
  <2>7. QED
    BY <1>2, <1>3, <2>1, <2>2, <2>3, <2>4, <2>5, <2>6 DEF Step

LEMMA NextRefines ==
  ASSUME IInv, IInv', [Next]_vars
  PROVE  Promised
<1>1. CASE UNCHANGED vars
  BY <1>1 DEF vars, Promised, PromiseVars, Asking, Copied
<1>2. CASE \E c \in Handles \cup Others :
             \/ Select(c) \/ Commit(c) \/ End(c) \/ Busy(c)
             \/ \E p \in Pages : Update(c, p)
  BY <1>2, TransactionRefines
<1>3. CASE \E h \in Handles : Disconnect(h)
  BY <1>3, TransactionRefines
<1>4. QED
  BY <1>1, <1>2, <1>3, CallRefines, StepRefines DEF Next

(* A backup method that answers true has made its destination what the     *)
(* source was at one moment, and one that answers false has itself changed *)
(* no file, wherever it failed and for any number of processes that use    *)
(* both files meanwhile.                                                   *)
THEOREM Refinement == Spec => ImplementsAtomicCopy
<1>1. Init => Promise!Init
  <2> SUFFICES ASSUME Init PROVE Promise!Init
    OBVIOUS
  <2>1. IInv /\ backup.step = "idle" /\ answer = "none"
    BY InitIInv, NoBackupFields DEF Init
  <2>2. QED
    BY <2>1 DEF Promise!Init, Promise!NoCall, IInv, Typed
<1>2. IInv /\ IInv' /\ [Next]_vars => Promised
  BY NextRefines
<1>3. Promised <=> [Promise!Next]_<<file,
          IF backup.step = "idle" THEN [from |-> "none", to |-> "none"]
          ELSE [from |-> at[backup.src], to |-> at[backup.dest]],
          backup, backup.step # "idle" /\ backup.rc = "DONE", answer>>
  BY DEF Promised, PromiseVars, Asking, Copied
<1>4. QED
  BY <1>1, <1>2, <1>3, Invariance, PTL DEF Spec, ImplementsAtomicCopy, Promise!Spec
=============================================================================
