--------------------------- MODULE RollbackJournal ---------------------------
(***************************************************************************)
(* The pager of one connection in rollback-journal mode, over a disk that  *)
(* may keep or lose any write that has not been synced.  A transaction     *)
(* saves the original of every page it changes in the journal; the journal *)
(* must be on the disk before the first changed page is written to the     *)
(* file, and finishing the journal off is the commit.  Whoever opens the   *)
(* file next plays a journal that was left behind back into it.            *)
(*                                                                         *)
(* One file operation is one step, so that the process, an operation or    *)
(* the power may fail between any two of them.  The locks are those of     *)
(* FileLocks and are not repeated: there is one connection.  Page 1, with  *)
(* the change counter, is written by every commit; the application writes  *)
(* the other pages.  Checksums are taken to tell a torn or an old record   *)
(* from a good one.                                                        *)
(***************************************************************************)
EXTENDS Integers, Sequences, FiniteSets, FiniteSetsExt, SequencesExt

CONSTANTS
  MaxPage,      \* bound on the size of the file, in pages
  OldPages,     \* its size at first
  Settings,     \* the settings the connection may have; see Setting
  MaxWrites     \* the largest bound on the pages written in any of them

(* synchronous and journal_mode are those of the PRAGMAs.  faults is what  *)
(* may fail: an operation of a commit, which is then rolled back by the    *)
(* pager that lives on; the process, or an operation whose failure makes   *)
(* the pager give up; the power.  writes and failures are bounds on the    *)
(* pages written and on the failures of any kind.                          *)
Setting ==
  [synchronous : {"OFF", "NORMAL", "FULL", "EXTRA"}, journal_mode : {"DELETE", "PERSIST"},
   faults : SUBSET {"operation", "process", "power"},
   writes : 0..MaxWrites, failures : Nat]

ASSUME PagerAssumption ==
  /\ MaxPage \in Nat /\ MaxWrites \in Nat
  /\ Settings # {} /\ \A s \in Settings : s \in Setting
  /\ OldPages \in 1..MaxPage

Pages == 1..MaxPage

VARIABLES
  setting,   \* those of the connection, as long as it is modelled
  db,        \* the database file
  journal,   \* the journal file
  ghosts,    \* journals the directory may show instead after a power failure
  pager,     \* Pager
  pc,        \* the pager function in progress
  safe,      \* history: the contents no power failure can take away
  writes,    \* pages written so far; the number is the content
  failures

vars == <<setting, db, journal, ghosts, pager, pc, safe, writes, failures>>

noSync == setting.synchronous = "OFF"
fullSync == setting.synchronous \in {"FULL", "EXTRA"}
extraSync == setting.synchronous = "EXTRA"
deletes == setting.journal_mode = "DELETE"

Absent == 0      \* beyond the end of the file
Garbage == -1    \* a torn write, or a page of zeros
Image == [Pages -> -1..MaxWrites + 1]
Size(img) == Cardinality({p \in Pages : img[p] # Absent})

-----------------------------------------------------------------------------
(* Files: `now' is what any process reads, `maybe' what each part may be   *)
(* found to hold after a power failure.                                    *)

Settled(now) == [now |-> now, maybe |-> [i \in DOMAIN now |-> {now[i]}]]

(* What a place may hold when v is written over one of before: the same    *)
(* bytes once more cannot tear.                                            *)
Torn(before, v, torn) == IF before = {v} THEN {v} ELSE before \cup {v, torn}

PutPage(p, v) ==
  db' = [now |-> [db.now EXCEPT ![p] = v],
         maybe |-> [db.maybe EXCEPT ![p] = Torn(@, v, Garbage)]]

SyncDb == db' = Settled(db.now)

(* Parts of the journal: headers and records, cells for short.             *)
Bad == [kind |-> "bad"]
Header(size, magic, nRec) ==
  [kind |-> "hdr", cksumInit |-> writes, size |-> size, magic |-> magic, nRec |-> nRec]
Counted(c, n) ==
  [kind |-> "hdr", cksumInit |-> c.cksumInit, size |-> c.size, magic |-> TRUE, nRec |-> n]
ZeroHeader == [kind |-> "hdr", cksumInit |-> -1, size |-> 0, magic |-> FALSE, nRec |-> 0]
IsHeader(c) == c.kind = "hdr" /\ c.magic

NoJournal == [exists |-> FALSE, now |-> <<>>, maybe |-> <<>>]

JournalFile(cells) ==
  [exists |-> TRUE, now |-> cells, maybe |-> [i \in DOMAIN cells |-> {cells[i]}]]

(* j with cell c written at i.                                             *)
PutCell(j, i, c) ==
  IF i <= Len(j.now)
    THEN [j EXCEPT !.now[i] = c, !.maybe[i] = Torn(@, c, Bad)]
    ELSE [j EXCEPT !.now = Append(@, c), !.maybe = Append(@, {c, Bad})]

SyncedJournal == JournalFile(journal.now)

-----------------------------------------------------------------------------
(* Reading a journal back.                                                 *)

(* The header at i counts for a playback; own is the place of the header   *)
(* the pager itself has written last, or of the end of its records when    *)
(* they were synced for a commit, 0 for a hot journal.  A header begins a  *)
(* sector; every place is taken for the beginning of one.                  *)
Readable(cells, i, own) ==
  /\ i \in DOMAIN cells
  /\ cells[i].kind = "hdr"
  /\ cells[i].magic \/ i = own

(* Records the header claims.                                              *)
Claimed(cells, i, own) ==
  IF cells[i].nRec = -1 \/ (cells[i].nRec = 0 /\ i = own)
    THEN Len(cells) - i
    ELSE cells[i].nRec

Good(cells, i, k) ==
  /\ k \in DOMAIN cells
  /\ cells[k].kind = "rec"
  /\ cells[k].cksum = cells[i].cksumInit

(* The places where pager_playback looks for a header: the beginning, and  *)
(* after the records of a header when every one of them is good.           *)
Reached(cells, own) ==
  LET reached[i \in 1..Len(cells) + 1] ==
        \/ i = 1
        \/ \E g \in 1..i - 1 :
             /\ Readable(cells, g, own) /\ i = g + Claimed(cells, g, own) + 1
             /\ reached[g]
             /\ \A r \in g + 1..i - 1 : Good(cells, g, r)
  IN  {i \in 1..Len(cells) + 1 : reached[i]}

(* The records pager_playback copies back, in the order of their places.   *)
(* A bad checksum or the end of the file ends it, and so does a header     *)
(* that does not count.                                                    *)
Replayed(cells, own) ==
  LET records(i) == {r \in i + 1..i + Claimed(cells, i, own) :
                       \A q \in i + 1..r : Good(cells, i, q)}
      heads == {i \in Reached(cells, own) : Readable(cells, i, own)}
  IN  {k \in UNION {records(i) : i \in heads} : cells[k].pg <= cells[1].size}

(* pager_truncate                                                          *)
Truncated(img, size) ==
  [p \in Pages |-> IF p > size THEN Absent
                   ELSE IF img[p] = Absent THEN Garbage ELSE img[p]]

(* A page that is there more than once keeps what is copied last.          *)
Played(img, cells, own) ==
  IF Readable(cells, 1, own)
    THEN LET records == Replayed(cells, own)
             before == Truncated(img, cells[1].size)
         IN  [p \in Pages |->
                LET places == {k \in records : cells[k].pg = p}
                IN  IF places = {} THEN before[p] ELSE cells[Max(places)].data]
    ELSE img

(* hasHotJournal: there is a journal, and its first byte is not zero.      *)
Hot(j) ==
  /\ j.exists /\ j.now # <<>>
  /\ j.now[1].kind = "hdr" => j.now[1].magic

(* The contents of the file for the next one who opens it.                 *)
Restored(img, j) == IF Hot(j) THEN Played(img, j.now, 0) ELSE img

Recovered == Restored(db.now, journal)

-----------------------------------------------------------------------------

Closed == [eState |-> "OPEN", cache |-> [p \in Pages |-> Absent], dirty |-> {},
           needSync |-> {}, inJournal |-> {}, nRec |-> 0, journalHdr |-> 0,
           journalOff |-> 0, dbOrigSize |-> 0]

Idle == [goal |-> "none", step |-> "none", page |-> 0]
At(step) == pc' = [pc EXCEPT !.step = step]

Init ==
  /\ setting \in Settings
  /\ db = Settled([p \in Pages |-> IF p <= OldPages THEN 1 ELSE Absent])
  /\ journal = NoJournal
  /\ ghosts = {}
  /\ pager = Closed
  /\ pc = Idle
  /\ safe = db.now
  /\ writes = 1
  /\ failures = 0

Reading(img) == [Closed EXCEPT !.eState = "READER", !.cache = img]

(* sqlite3PagerSharedLock                                                  *)
SharedLock ==
  /\ pager.eState = "OPEN" /\ pc = Idle
  /\ IF Hot(journal)
       THEN /\ pc' = [goal |-> "recover", step |-> "hotsync", page |-> 1]
            /\ UNCHANGED pager
       ELSE pager' = Reading(db.now) /\ UNCHANGED pc
  /\ UNCHANGED <<db, journal, ghosts, safe, writes, failures>>

(* pager_unlock                                                            *)
Unlock ==
  /\ pager.eState = "READER" /\ pc = Idle
  /\ pager' = Closed
  /\ UNCHANGED <<db, journal, ghosts, pc, safe, writes, failures>>

(* sqlite3PagerBegin                                                       *)
Begin ==
  /\ pager.eState = "READER" /\ pc = Idle
  /\ pager' = [pager EXCEPT !.eState = "WRITER_LOCKED", !.dbOrigSize = Size(pager.cache)]
  /\ UNCHANGED <<db, journal, ghosts, pc, safe, writes, failures>>

(* pager_open_journal and writeJournalHdr: an old file is written over,    *)
(* not emptied.  The header has no magic until its records are synced.     *)
OpenedJournal ==
  LET old == IF journal.exists THEN journal ELSE JournalFile(<<>>)
  IN  PutCell(old, 1, Header(pager.dbOrigSize, noSync, IF noSync THEN -1 ELSE 0))

(* pagerAddPageToRollbackJournal                                           *)
Original(j, off, p) ==
  [kind |-> "rec", pg |-> p, data |-> pager.cache[p],
   cksum |-> IF pager.eState = "WRITER_LOCKED" THEN writes
             ELSE j.now[pager.journalHdr].cksumInit]

(* Mutant of PagerWrite: a page the journal has already is added again,    *)
(* with what it has become since.                                          *)
NotYetJournalled_Ever(p) == p <= pager.dbOrigSize
NotYetJournalled(p) == p <= pager.dbOrigSize /\ p \notin pager.inJournal

(* pager_write: page p gets a new content.                                 *)
PagerWrite(p) ==
  LET opening == pager.eState = "WRITER_LOCKED"
      j == IF opening THEN OpenedJournal ELSE journal
      off == IF opening THEN 1 ELSE pager.journalOff
      add == NotYetJournalled(p)
  IN  /\ journal' = IF add THEN PutCell(j, off + 1, Original(j, off, p)) ELSE j
      /\ ghosts' = IF journal.exists THEN ghosts
                   ELSE ghosts \cup {NoJournal}
      /\ pager' = [pager EXCEPT
           !.eState = IF opening THEN "WRITER_CACHEMOD" ELSE @,
           !.cache[p] = writes + 1,
           !.dirty = @ \cup {p},
           !.needSync = IF add \/ (p > pager.dbOrigSize /\ pager.eState # "WRITER_DBMOD")
                          THEN @ \cup {p} ELSE @,
           !.inJournal = IF add THEN @ \cup {p} ELSE @,
           !.nRec = IF add THEN @ + 1 ELSE @,
           !.journalHdr = IF opening THEN 1 ELSE @,
           !.journalOff = IF add THEN off + 1 ELSE off]
      /\ writes' = writes + 1

Writer == pager.eState \in {"WRITER_LOCKED", "WRITER_CACHEMOD", "WRITER_DBMOD"}
Changed == pager.eState \in {"WRITER_CACHEMOD", "WRITER_DBMOD", "WRITER_FINISHED"}

WritePage(p) ==
  /\ Writer /\ pc = Idle /\ writes < setting.writes
  /\ p # 1 /\ p <= Size(pager.cache) + 1
  /\ PagerWrite(p)
  /\ UNCHANGED <<db, pc, safe, failures>>

-----------------------------------------------------------------------------
(* Writing to the file: pagerStress for one page, the commit for all.      *)

(* The first step of syncJournal.                                          *)
FirstOfSync ==
  IF noSync THEN "header"
  ELSE IF /\ pager.journalOff + 1 \in DOMAIN journal.now
          /\ IsHeader(journal.now[pager.journalOff + 1])
    THEN "zero"
  ELSE IF fullSync THEN "sync1" ELSE "nrec"

(* Mutant of MustSync: a page is looked at, the journal is not.            *)
MustSync_PageOnly(p) == p \in pager.needSync \cap pager.inJournal
MustSync(p) == p \in pager.needSync \/ pager.eState = "WRITER_CACHEMOD"

(* pagerStress, when the cache is full.                                    *)
Spill(p) ==
  /\ Changed /\ pc = Idle /\ p \in pager.dirty
  /\ pc' = [goal |-> "spill", page |-> p,
            step |-> IF MustSync(p) THEN FirstOfSync ELSE "page"]
  /\ UNCHANGED <<db, journal, ghosts, pager, safe, writes, failures>>

(* sqlite3PagerCommitPhaseOne up to pager_incr_changecounter; the journal  *)
(* is synced next.  A transaction that changed nothing just ends.          *)
Commit ==
  /\ Writer /\ pc = Idle
  /\ IF pager.eState = "WRITER_LOCKED"
       THEN /\ pager' = Reading(pager.cache)
            /\ UNCHANGED <<journal, ghosts, pc, writes>>
       ELSE /\ PagerWrite(1)
            /\ pc' = [goal |-> "commit", step |-> "syncJournal", page |-> 0]
  /\ UNCHANGED <<db, safe, failures>>

SyncJournal ==
  /\ pc.step = "syncJournal"
  /\ At(FirstOfSync)
  /\ UNCHANGED <<db, journal, ghosts, pager, safe, writes, failures>>

(* Mutant of ZeroNextHeader: the header of an earlier transaction stays.   *)
ZeroNextHeader_Not ==
  /\ pc.step = "zero"
  /\ At(IF fullSync THEN "sync1" ELSE "nrec")
  /\ UNCHANGED <<db, journal, ghosts, pager, safe, writes, failures>>

ZeroNextHeader ==
  /\ pc.step = "zero"
  /\ journal' = PutCell(journal, pager.journalOff + 1, ZeroHeader)
  /\ At(IF fullSync THEN "sync1" ELSE "nrec")
  /\ UNCHANGED <<db, ghosts, pager, safe, writes, failures>>

(* unixSync of a journal that was opened for writing syncs the directory   *)
(* along with it, and with that the end of the transaction before.         *)
SyncJournalFile(step, then) ==
  /\ pc.step = step
  /\ journal' = SyncedJournal
  /\ ghosts' = {}
  /\ safe' = Recovered
  /\ At(then)
  /\ UNCHANGED <<db, pager, writes, failures>>

Sync1 == SyncJournalFile("sync1", "nrec")
Sync2 == SyncJournalFile("sync2", "header")

(* The header now counts, and says how many records follow.                *)
WriteNRec ==
  /\ pc.step = "nrec"
  /\ journal' = PutCell(journal, pager.journalHdr,
       Counted(journal.now[pager.journalHdr], pager.nRec))
  /\ At("sync2")
  /\ UNCHANGED <<db, ghosts, pager, safe, writes, failures>>

(* The end of syncJournal; a spill goes on with a new header.              *)
NextHeader ==
  /\ pc.step = "header"
  /\ IF noSync
       THEN UNCHANGED journal
            /\ pager' = [pager EXCEPT !.eState = "WRITER_DBMOD", !.needSync = {}]
       ELSE LET next == pager.journalOff + 1
                new == pc.goal = "spill"
            IN  /\ journal' = IF new
                     THEN PutCell(journal, next, Header(pager.dbOrigSize, FALSE, 0))
                     ELSE journal
                /\ pager' = [pager EXCEPT
                     !.eState = "WRITER_DBMOD", !.needSync = {}, !.journalHdr = next,
                     !.journalOff = IF new THEN next ELSE @,
                     !.nRec = IF new THEN 0 ELSE @]
  /\ At("page")
  /\ UNCHANGED <<db, ghosts, safe, writes, failures>>

(* pager_write_pagelist: in the order of the pages.                        *)
PageToWrite == IF pc.goal = "spill" THEN pc.page ELSE Min(pager.dirty)

WriteToFile ==
  /\ pc.step = "page"
  /\ PutPage(PageToWrite, pager.cache[PageToWrite])
  /\ pager' = [pager EXCEPT !.dirty = @ \ {PageToWrite}]
  /\ IF pc.goal = "spill" THEN pc' = Idle
     ELSE At(IF pager.dirty = {PageToWrite} THEN "dbsync" ELSE "page")
  /\ UNCHANGED <<journal, ghosts, safe, writes, failures>>

(* Mutant of SyncFile: the file is left to the operating system.           *)
SyncFile_Not ==
  /\ pc.step = "dbsync"
  /\ pager' = IF pc.goal = "commit" THEN [pager EXCEPT !.eState = "WRITER_FINISHED"]
              ELSE pager
  /\ At("end")
  /\ UNCHANGED <<db, journal, ghosts, safe, writes, failures>>

(* sqlite3PagerSync, at the end of a commit or of a playback.              *)
SyncFile ==
  /\ pc.step = "dbsync"
  /\ IF noSync THEN UNCHANGED db ELSE SyncDb
  /\ pager' = IF pc.goal = "commit" THEN [pager EXCEPT !.eState = "WRITER_FINISHED"]
              ELSE pager
  /\ At("end")
  /\ UNCHANGED <<journal, ghosts, safe, writes, failures>>

-----------------------------------------------------------------------------
(* pager_end_transaction: the journal is finished off.                     *)

(* What the connection goes on with: after a recovery it reads the file.   *)
Ended == Reading(IF pc.goal = "recover" THEN db.now ELSE pager.cache)

(* Mutant of EndJournal: the journal is gone, but not yet on the disk.      *)
EndJournal_NoSync ==
  /\ pc.step = "end"
  /\ IF deletes
       THEN journal' = NoJournal /\ ghosts' = ghosts \cup {journal}
       ELSE journal' = PutCell(journal, 1, ZeroHeader) /\ UNCHANGED ghosts
  /\ pc' = Idle /\ pager' = Ended
  /\ UNCHANGED <<db, safe, writes, failures>>

EndJournal ==
  /\ pc.step = "end"
  /\ IF deletes
       THEN /\ journal' = NoJournal
            /\ ghosts' = ghosts \cup {journal}
            /\ IF extraSync
                 THEN At("endsync") /\ UNCHANGED pager
                 ELSE pc' = Idle /\ pager' = Ended
       ELSE /\ journal' = PutCell(journal, 1, ZeroHeader)
            /\ UNCHANGED ghosts
            /\ IF noSync
                 THEN pc' = Idle /\ pager' = Ended
                 ELSE At("endsync") /\ UNCHANGED pager
  /\ UNCHANGED <<db, safe, writes, failures>>

(* The sync of the directory (unixDelete), or of the zeroed header         *)
(* (zeroJournalHdr).                                                       *)
EndSync ==
  /\ pc.step = "endsync"
  /\ IF deletes
       THEN ghosts' = {} /\ UNCHANGED journal
       ELSE journal' = SyncedJournal /\ UNCHANGED ghosts
  /\ safe' = Recovered
  /\ pc' = Idle
  /\ pager' = Ended
  /\ UNCHANGED <<db, writes, failures>>

-----------------------------------------------------------------------------
(* pager_playback, of the transaction in progress or of a hot journal.     *)

InFile == pager.eState \in {"WRITER_DBMOD", "WRITER_FINISHED", "OPEN"}

(* sqlite3PagerRollback, asked for, or because an operation of the commit  *)
(* failed.                                                                 *)
Rollback ==
  /\ \/ Writer /\ pc = Idle
     \/ /\ pc.goal = "commit" /\ pc.step \notin {"end", "endsync"}
        /\ "operation" \in setting.faults /\ failures < setting.failures
  /\ failures' = IF pc = Idle THEN failures ELSE failures + 1
  /\ IF pager.eState = "WRITER_LOCKED"
       THEN pager' = Reading(pager.cache) /\ UNCHANGED pc
       ELSE pc' = [goal |-> "rollback", step |-> "truncate", page |-> 1]
            /\ UNCHANGED pager
  /\ UNCHANGED <<db, journal, ghosts, safe, writes>>

(* pagerSyncHotJournal                                                     *)
SyncHotJournal ==
  /\ pc.step = "hotsync"
  /\ journal' = IF noSync THEN journal ELSE SyncedJournal
  /\ At("truncate")
  /\ UNCHANGED <<db, ghosts, pager, safe, writes, failures>>

Own == IF pc.goal = "recover" THEN 0 ELSE pager.journalHdr

TruncateFile ==
  /\ pc.step = "truncate"
  /\ IF Readable(journal.now, 1, Own)
       THEN LET size == journal.now[1].size
                now == Truncated(db.now, size) IN
            /\ db' = IF InFile
                 THEN [now |-> now,
                       maybe |-> [p \in Pages |-> db.maybe[p] \cup {now[p]}]]
                 ELSE db
            /\ pager' = IF pc.goal = "recover" THEN pager
                 ELSE [pager EXCEPT !.cache = Truncated(@, size)]
       ELSE UNCHANGED <<db, pager>>
  /\ At("play")
  /\ UNCHANGED <<journal, ghosts, safe, writes, failures>>

Restorable(k) == InFile /\ (pc.goal = "recover" \/ noSync \/ k < pager.journalHdr)

(* pager_playback_one_page, of the next record; pc.page is the place of    *)
(* the last one.                                                           *)
ToPlay == {k \in Replayed(journal.now, Own) : k > pc.page}

PlayBack ==
  /\ pc.step = "play" /\ ToPlay # {}
  /\ LET k == Min(ToPlay)
         r == journal.now[k] IN
     /\ IF Restorable(k) THEN PutPage(r.pg, r.data) ELSE UNCHANGED db
     /\ pager' = IF pc.goal = "recover" THEN pager
                 ELSE [pager EXCEPT !.cache[r.pg] = r.data]
     /\ pc' = [pc EXCEPT !.page = k]
  /\ UNCHANGED <<journal, ghosts, safe, writes, failures>>

PlaybackEnds ==
  /\ pc.step = "play" /\ ToPlay = {}
  /\ At(IF InFile THEN "dbsync" ELSE "end")
  /\ UNCHANGED <<db, journal, ghosts, pager, safe, writes, failures>>

-----------------------------------------------------------------------------

(* The process dies, or an operation fails that puts the pager into its    *)
(* error state: the cache is gone and the locks are given up, the files    *)
(* stay as they are.                                                       *)
Fail ==
  /\ "process" \in setting.faults /\ failures < setting.failures
  /\ pager.eState # "OPEN" \/ pc # Idle
  /\ pager' = Closed
  /\ pc' = Idle
  /\ failures' = failures + 1
  /\ UNCHANGED <<db, journal, ghosts, safe, writes>>

(* Every way the parts of a file can come out.                             *)
Outcomes(f) ==
  LET unsure == {i \in DOMAIN f.now : f.maybe[i] # {f.now[i]}}
      values == UNION {f.maybe[i] : i \in unsure}
  IN  {[i \in DOMAIN f.now |-> IF i \in unsure THEN part[i] ELSE f.now[i]] :
         part \in {q \in [unsure -> values] : \A i \in unsure : q[i] \in f.maybe[i]}}

Possible(j) == IF j.exists THEN {JournalFile(cells) : cells \in Outcomes(j)} ELSE {NoJournal}

PowerLoss ==
  /\ "power" \in setting.faults /\ failures < setting.failures
  /\ \E now \in Outcomes(db) : db' = Settled(now)
  /\ \E j \in {journal} \cup ghosts : journal' \in Possible(j)
  /\ ghosts' = {}
  /\ pager' = Closed
  /\ pc' = Idle
  /\ safe' = Recovered'
  /\ failures' = failures + 1
  /\ UNCHANGED writes

-----------------------------------------------------------------------------

Step ==
  \/ SharedLock \/ Unlock \/ Begin
  \/ \E p \in Pages : WritePage(p) \/ Spill(p)
  \/ Commit \/ SyncJournal \/ ZeroNextHeader \/ Sync1 \/ WriteNRec \/ Sync2
  \/ NextHeader \/ WriteToFile \/ SyncFile \/ EndJournal \/ EndSync
  \/ Rollback \/ SyncHotJournal \/ TruncateFile \/ PlayBack \/ PlaybackEnds
  \/ Fail \/ PowerLoss

Next == Step /\ UNCHANGED setting

Spec == Init /\ [][Next]_vars

-----------------------------------------------------------------------------

(* Shape of the state, and what belongs to a transaction is gone with it   *)
(* (assert_pager_state).                                                   *)
TypeOK ==
  /\ db.now \in Image /\ \A p \in Pages : db.now[p] \in db.maybe[p]
  /\ Len(journal.now) = Len(journal.maybe)
  /\ pager.eState \in {"OPEN", "READER", "WRITER_LOCKED", "WRITER_CACHEMOD",
                       "WRITER_DBMOD", "WRITER_FINISHED"}
  /\ pager.cache \in Image
  /\ pager.eState \in {"OPEN", "READER", "WRITER_LOCKED"}
       => pager.dirty \cup pager.needSync \cup pager.inJournal = {}
  /\ pager.eState = "WRITER_FINISHED" => pager.dirty = {}
  /\ pager.dirty \cup pager.needSync \cup pager.inJournal \subseteq Pages
  /\ safe \in Image /\ writes \in 1..MaxWrites + 1 /\ failures \in 0..setting.failures

(* What a connection reads is what a transaction committed: no torn page,  *)
(* nothing of a transaction that was rolled back or cut short, no page of  *)
(* the cache that differs from the file (sqlite3PagerSharedLock,           *)
(* pager_playback, pager_end_transaction).  This and what follows is not   *)
(* so of a journal that is kept and operations of a commit that fail: see  *)
(* RollbackRestoresCache at the end.                                       *)
ReadersSeeCommitted ==
  pager.eState \in {"READER", "WRITER_LOCKED"}
    => /\ pager.cache = db.now
       /\ db.now = Recovered
       /\ \A p \in Pages : db.now[p] # Garbage

(* A page that was there before the transaction is never written to the    *)
(* file before its original is in the journal on the disk (syncJournal,    *)
(* pagerStress, pager_playback_one_page).                                  *)
WriteAheadOfFile ==
  [][ \A p \in Pages :
        /\ pc.goal \in {"spill", "commit"} /\ ~noSync
        /\ db'.now[p] # db.now[p] /\ p <= pager.dbOrigSize
        => \E k \in DOMAIN journal.now :
             /\ journal.now[k].kind = "rec" /\ journal.now[k].pg = p
             /\ journal.now[k].data = safe[p]
             /\ Cardinality(journal.maybe[k]) = 1 ]_vars

(* While a transaction is on its way into the file.                        *)
InTransaction ==
  Changed /\ pc.goal \in {"none", "spill", "commit"} /\ pc.step # "endsync" /\ ~noSync

(* Whatever part of the writes to the journal that were not synced is      *)
(* lost.                                                                   *)
Restores ==
  \A cells \in Outcomes(journal) : Restored(db.now, JournalFile(cells)) = Recovered

(* With synchronous EXTRA a commit that has returned survives a power      *)
(* failure (sqlite3PagerCommitPhaseTwo).                                   *)
ReturnedCommitIsSafe ==
  [][ /\ extraSync
      /\ pc.goal = "commit" /\ pc' = Idle /\ pager'.eState = "READER"
      => safe' = Recovered' ]_vars

(* The pager keeps AtomicFile.                                             *)
Atomic == INSTANCE AtomicFile WITH
  Images <- Image,
  image <- Recovered,
  work <- IF Changed THEN pager.cache ELSE Recovered,
  safe <- safe

ImplementsAtomicFile == Atomic!Spec

-----------------------------------------------------------------------------
(* sqlite3.c:59041, requirement (7) on the journal: whatever part of it is *)
(* lost, playing the rest back gives the file as the transaction found it. *)
(* Checked alone.                                                          *)
AnySubsetRestores == InTransaction => Restores

(* sqlite3.c:65774-65776, of a rollback: it restores "all database file    *)
(* and in-memory cache pages to the state they were in when the            *)
(* transaction was opened".  File and cache agreed then, and so they have  *)
(* to when it is over.  Checked alone.                                     *)
RollbackRestoresCache == pager.eState = "READER" => pager.cache = db.now
=============================================================================
