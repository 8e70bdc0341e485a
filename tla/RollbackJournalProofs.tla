------------------------ MODULE RollbackJournalProofs ------------------------
(***************************************************************************)
(* Proofs about the pager and its rollback journal, for files of any size, *)
(* any number of writes and failures, and processes and power that fail at *)
(* any moment: readers see what was committed last, whole; pages are in    *)
(* the journal before they are overwritten; and a transaction takes effect *)
(* in one step (AtomicFile), the deletion of its journal.                  *)
(*                                                                         *)
(* The theorems are about connections that delete their journals and sync  *)
(* (journal_mode DELETE; synchronous NORMAL, FULL or EXTRA).  With a kept  *)
(* journal and operations of a commit that fail the first of them does not *)
(* hold: see RollbackRestoresCache.                                        *)
(*                                                                         *)
(* The argument: there is one image of the file, O, that every rollback    *)
(* makes of every content the file may have with every journal there may   *)
(* be (Disk).  This needs the part of the journal before its last header   *)
(* to be on the disk and to hold O's pages (Sealed, Holds), and the pages  *)
(* of the file it does not hold to be untouched.  Process says how far the *)
(* pager is and what it may rely on.  O changes in two steps only, when    *)
(* the journal is deleted and when the power fails before this is synced.  *)
(***************************************************************************)
EXTENDS RollbackJournal, FiniteSetTheorems, WellFoundedInduction, TLAPS

(* Parts of a journal. *)
Headers == [kind : {"hdr"}, cksumInit : Int, size : Nat, magic : BOOLEAN, nRec : Nat]
Records == [kind : {"rec"}, pg : Pages, data : Int, cksum : Int]
Cells == {Bad} \cup Headers \cup Records

IsRecord(c) == c.kind = "rec"

(* A journal file: what was written last may be there, in each place.      *)
Filed(j) ==
  /\ j \in [exists : BOOLEAN, now : Seq(Cells), maybe : Seq(SUBSET Cells)]
  /\ Len(j.maybe) = Len(j.now)
  /\ \A i \in 1..Len(j.now) : j.now[i] \in j.maybe[i]

FileOK(j) == Filed(j) /\ (j.exists => Len(j.now) > 0)

(* Nothing is in doubt.                                                    *)
Settl(j) == \A i \in 1..Len(j.now) : j.maybe[i] = {j.now[i]}

(* What there may be of records has checksums from before bound.           *)
Older(j, bound) ==
  \A i \in 1..Len(j.now) : \A c \in j.maybe[i] : IsRecord(c) => c.cksum < bound

NoHeaderAfter(j, i) ==
  \A k \in i + 1..Len(j.now) : \A c \in j.maybe[k] : c.kind # "hdr"

(* A header before its first sync.                                         *)
Cold(c) == c.kind = "hdr" /\ ~c.magic

(* Every journal: a header without magic is the only one, and may not have *)
(* been another.                                                           *)
Clean(j, bound) ==
  /\ FileOK(j)
  /\ Older(j, bound)
  /\ j.exists /\ (\E c \in j.maybe[1] : Cold(c)) => NoHeaderAfter(j, 1)
  /\ j.exists /\ Cold(j.now[1]) => \A c \in j.maybe[1] : ~IsHeader(c)

Values == -1..MaxWrites + 1

DbOK(d) ==
  /\ d \in [now : [Pages -> Values], maybe : [Pages -> SUBSET Values]]
  /\ \A p \in Pages : d.now[p] \in d.maybe[p]

(* A whole file of that size.                                              *)
Contents(O, size) ==
  /\ O \in [Pages -> 0..MaxWrites + 1]
  /\ size \in 1..MaxPage
  /\ \A p \in Pages : O[p] # Absent <=> p <= size

Whole(O) == \E size \in 1..MaxPage : Contents(O, size)

(* m: what the pages of the file may hold *)
AllAre(m, O) == \A p \in Pages : m[p] = {O[p]}

(* A rollback of j makes O of every file m allows.                         *)
Gives(m, j, O) ==
  IF Hot(j) /\ Readable(j.now, 1, 0)
    THEN /\ Contents(O, j.now[1].size)
         /\ \A k \in Replayed(j.now, 0) : j.now[k].data = O[j.now[k].pg]
         /\ \A p \in 1..j.now[1].size :
              (\A k \in Replayed(j.now, 0) : j.now[k].pg # p) => m[p] = {O[p]}
    ELSE AllAre(m, O)

(* The files as a power failure may leave them give O, and with a journal  *)
(* the directory may still show, O or safe.                                *)
Disk(O) ==
  /\ DbOK(db) /\ Clean(journal, writes) /\ \A g \in ghosts : Clean(g, writes)
  /\ Whole(O) /\ Whole(safe)
  /\ \A j \in Possible(journal) : Gives(db.maybe, j, O)
  /\ \A g \in ghosts : \A j \in Possible(g) : Gives(db.maybe, j, O) \/ Gives(db.maybe, j, safe)
  /\ ghosts # {} => AllAre(db.maybe, O)

(* The part of the journal before hd. *)
Sealed(j, hd, size) ==
  /\ hd \in Reached(j.now, 0)
  /\ \A i \in 1..hd - 1 :
       /\ j.maybe[i] = {j.now[i]}
       /\ j.now[i].kind = "hdr" => i + j.now[i].nRec < hd
       /\ IsRecord(j.now[i]) => i \in Replayed(j.now, 0)
  /\ hd > 1 => IsHeader(j.now[1]) /\ j.now[1].size = size

(* The last header and its records, not yet synced: a header that counts   *)
(* is this one, a record that does is one of its own.                      *)
Open(j, hd, end, size) ==
  /\ j.now[hd].kind = "hdr" /\ j.now[hd].size = size
  /\ j.now[hd].nRec = IF j.now[hd].magic THEN end - hd ELSE 0
  /\ \A c \in j.maybe[hd] : IsHeader(c) => c = j.now[hd]
  /\ \A k \in hd + 1..end :
       /\ IsRecord(j.now[k]) /\ j.now[k].cksum = j.now[hd].cksumInit
       /\ \A c \in j.maybe[k] :
            /\ c.kind # "hdr"
            /\ IsRecord(c) => c = j.now[k] \/ c.cksum < j.now[hd].cksumInit
  /\ \A k \in end + 1..Len(j.now) : \A c \in j.maybe[k] :
       IsRecord(c) => c.cksum < j.now[hd].cksumInit

(* A journal with hd as its last header and end as its last record.        *)
Holds(j, hd, end, size, O) ==
  /\ j.exists /\ Contents(O, size)
  /\ end \in 1..Len(j.now) /\ hd \in 1..end + 1
  /\ Sealed(j, hd, size)
  /\ \A k \in 1..end : IsRecord(j.now[k]) =>
       j.now[k].data = O[j.now[k].pg] /\ j.now[k].pg <= size
  /\ NoHeaderAfter(j, end)
  /\ hd <= end => Open(j, hd, end, size)

(* What the file may hold while the journal is as above. *)
Untouched(m, j, hd, size, O) ==
  IF hd = 1 THEN AllAre(m, O)
  ELSE \A p \in 1..size :
         (\A k \in 1..hd - 1 : IsRecord(j.now[k]) => j.now[k].pg # p) => m[p] = {O[p]}

hdr == pager.journalHdr
last == pager.journalOff
orig == pager.dbOrigSize

(* The journal of the transaction. *)
Journalled(O) ==
  /\ Holds(journal, hdr, last, orig, O)
  /\ Untouched(db.maybe, journal, hdr, orig, O)
  /\ hdr <= last => journal.now[hdr].cksumInit <= writes
  /\ pager.inJournal = {journal.now[k].pg : k \in {k \in 1..last : IsRecord(journal.now[k])}}
  /\ IF hdr = 1 THEN pager.eState = "WRITER_CACHEMOD"
     ELSE /\ pager.eState \in {"WRITER_DBMOD", "WRITER_FINISHED"}
          /\ ghosts = {} /\ safe = O

(* The cache has the file's pages, those of O unless they are changed.     *)
CacheOK(O) ==
  /\ Whole(pager.cache)
  /\ \A p \in Pages \ pager.dirty : db.now[p] = pager.cache[p]
  /\ \A p \in 1..orig : p \notin pager.inJournal =>
       pager.cache[p] = O[p] /\ p \notin pager.dirty

Synced(O) == Settl(journal) /\ ghosts = {} /\ safe = O

(* hdr is past the records *)
Past == pc.goal = "commit" /\ pc.step \in {"page", "dbsync", "end"}

(* A transaction, with its spills and commit.                              *)
Underway(O) ==
  /\ Journalled(O) /\ CacheOK(O)
  /\ ~Past => hdr <= last /\ pager.nRec = last - hdr
  /\ Past => hdr > last /\ Settl(journal)
  /\ \A k \in hdr + 1..last : journal.now[k].pg \in pager.needSync
  /\ hdr <= last /\ pc.step \notin {"sync2", "header"} => ~journal.now[hdr].magic
  /\ pc.step \in {"sync2", "header"} => journal.now[hdr].magic
  /\ pc.step = "header" => Synced(O)
  /\ pc.step \in {"page", "dbsync", "end"} => hdr > 1
  /\ pc.step \in {"dbsync", "end"} => pager.dirty = {}
  /\ pager.eState = "WRITER_FINISHED" => pc.step = "end"
  /\ pc.step = "end" => AllAre(db.maybe, pager.cache)
  /\ \/ pc = Idle /\ writes <= setting.writes
     \/ /\ pc.goal = "spill" /\ writes <= setting.writes
        /\ pc.page \in pager.dirty
        /\ pc.step \in {"sync1", "nrec", "sync2", "header", "page"}
        /\ pc.step = "page" => pc.page \notin pager.needSync
     \/ /\ pc.goal = "commit"
        /\ pc.step \in {"syncJournal", "sync1", "nrec", "sync2", "header", "page", "dbsync", "end"}
        /\ pc.step \notin {"dbsync", "end"} => pager.dirty # {}

(* Page p is as it was.                                                    *)
Back(O, p) == pager.cache[p] = O[p] /\ db.now[p] = O[p]

(* A rollback copies the pages back, and need not be the last to do so.    *)
RollingBack(O) ==
  /\ pc.goal = "rollback" /\ pc.step \in {"truncate", "play", "dbsync", "end"}
  /\ Journalled(O)
  /\ pager.eState # "WRITER_FINISHED"
  /\ pc.step = "truncate" =>
       /\ pc.page = 1
       /\ \A p \in 1..orig : p \notin pager.inJournal => pager.cache[p] = O[p]
  /\ pc.step = "play" =>
       /\ \A p \in Pages : p > orig \/ p \notin pager.inJournal => Back(O, p)
       /\ \A k \in 1..last : k <= pc.page /\ IsRecord(journal.now[k]) => Back(O, journal.now[k].pg)
  /\ pc.step \in {"dbsync", "end"} => \A p \in Pages : Back(O, p)
  /\ pc.step = "end" => AllAre(db.maybe, O)
  /\ pc.step = "dbsync" => hdr > 1

(* A hot journal is rolled back.                                           *)
Recovering(O) ==
  /\ pc.goal = "recover" /\ pc.step \in {"hotsync", "truncate", "play", "dbsync", "end"}
  /\ pager = Closed
  /\ Hot(journal)
  /\ pc.step # "hotsync" => Settl(journal)
  /\ pc.step \in {"hotsync", "truncate"} => pc.page = 1
  /\ pc.step = "play" /\ Readable(journal.now, 1, 0) =>
       /\ \A p \in Pages :
            p > journal.now[1].size
              \/ (\A k \in Replayed(journal.now, 0) : journal.now[k].pg # p)
            => db.now[p] = O[p]
       /\ \A k \in Replayed(journal.now, 0) : k <= pc.page =>
            db.now[journal.now[k].pg] = O[journal.now[k].pg]
  /\ pc.step = "dbsync" => db.now = O
  /\ pc.step = "end" => AllAre(db.maybe, O)

Unused == pager.dirty = {} /\ pager.needSync = {} /\ pager.inJournal = {} /\ pager.nRec = 0

(* A reader, or a writer before its first write.                           *)
Reader(O) ==
  /\ pc = Idle /\ pager.eState \in {"READER", "WRITER_LOCKED"}
  /\ Unused
  /\ pager.cache = O /\ AllAre(db.maybe, O) /\ ~Hot(journal)
  /\ pager.eState = "WRITER_LOCKED" => Contents(O, orig)

(* The journal is deleted, the directory not yet synced.                   *)
Ending(O) ==
  /\ pc.goal \in {"commit", "rollback", "recover"} /\ pc.step = "endsync"
  /\ journal = NoJournal /\ AllAre(db.maybe, O)
  /\ IF pc.goal = "recover" THEN pager = Closed
     ELSE /\ pager.cache = O
          /\ pager.eState \in {"WRITER_CACHEMOD", "WRITER_DBMOD", "WRITER_FINISHED"}

Process(O) ==
  \/ pager = Closed /\ pc = Idle
  \/ Reader(O)
  \/ Underway(O)
  \/ RollingBack(O)
  \/ Recovering(O)
  \/ Ending(O)

States == {"OPEN", "READER", "WRITER_LOCKED", "WRITER_CACHEMOD", "WRITER_DBMOD", "WRITER_FINISHED"}
Goals == {"none", "recover", "spill", "commit", "rollback"}

Steps ==
  {"none", "hotsync", "truncate", "play", "syncJournal", "zero", "sync1", "nrec", "sync2",
   "header", "page", "dbsync", "end", "endsync"}
Pcs == [goal : Goals, step : Steps, page : Nat]
Pagers ==
  [eState : States, cache : [Pages -> Int], dirty : SUBSET Pages, needSync : SUBSET Pages,
   inJournal : SUBSET Pages, nRec : Nat, journalHdr : Nat, journalOff : Nat, dbOrigSize : Nat]

Typed ==
  /\ setting \in Settings /\ deletes /\ ~noSync
  /\ pager \in Pagers /\ pc \in Pcs
  /\ pager.cache \in Image
  /\ pager.eState = "WRITER_FINISHED" => pager.dirty = {}
  /\ pager.eState \in {"OPEN", "READER", "WRITER_LOCKED"}
       => pager.dirty \cup pager.needSync \cup pager.inJournal = {}
  /\ writes \in 1..setting.writes + 1
  /\ failures \in 0..setting.failures

(* The images a transaction can leave.                                     *)
Transactions == [Pages -> 0..MaxWrites + 1]

(* The invariant, of the image that is restored.                           *)
Kept(O) == Typed /\ Disk(O) /\ Process(O)

IInv == \E O \in Transactions : Kept(O)

-----------------------------------------------------------------------------
(* Least and greatest positions.                                           *)

(* Min of a set of naturals, the first record or header there is.          *)
LEMMA LeastNatural ==
  ASSUME NEW T, T \subseteq Nat, T # {}
  PROVE  Min(T) \in T /\ \A y \in T : Min(T) <= y
<1> DEFINE R == OpToRel(<, Nat)
<1>1. IsWellFoundedOn(R, Nat)
  BY NatLessThanWellFounded
<1>2. \A x, y \in T : y < x => <<y, x>> \in R
  BY DEF OpToRel
<1> HIDE DEF R
<1>3. PICK x \in T : \A y \in T : ~ (<<y, x>> \in R)
  BY <1>1, WFMin
<1>4. \A y \in T : ~ (y < x)
  BY <1>2, <1>3
<1>5. \A y \in T : x <= y
  BY <1>4
<1> QED
  BY <1>5 DEF Min

(* Max of a set of places in the journal, the last of them.                *)
LEMMA GreatestUpTo ==
  ASSUME NEW n \in Nat, NEW S, S \subseteq 0..n, S # {}
  PROVE  Max(S) \in S /\ \A j \in S : j <= Max(S)
<1> DEFINE T == {n - i : i \in S}
<1>1. \A i \in S : i \in Int /\ n - i \in Nat
  OBVIOUS
<1>2. T \subseteq Nat /\ T # {}
  BY <1>1
<1>3. Min(T) \in T /\ \A y \in T : Min(T) <= y
  <2> HIDE DEF T
  <2> QED
    BY <1>2, LeastNatural
<1>4. PICK i \in S : Min(T) = n - i
  BY <1>3
<1>5. \A j \in S : n - i <= n - j
  BY <1>3, <1>4
<1>6. \A j \in S : i >= j
  BY <1>1, <1>5
<1> QED
  BY <1>1, <1>6 DEF Max

-----------------------------------------------------------------------------
(* The places a playback comes to.                                         *)

(* The recursion that defines them has a solution: the least set that      *)
(* holds the first place and goes on with every header.                    *)
LEMMA ReachedExists ==
  ASSUME NEW n \in Nat, NEW E
  PROVE  \E f : f = [i \in 1..n + 1 |-> i = 1 \/ \E g \in 1..i - 1 : <<g, i>> \in E /\ f[g]]
<1> DEFINE D == 1..n + 1
           GoesOn(S) == /\ 1 \in S
                        /\ \A g \in S, i \in D : g < i /\ <<g, i>> \in E => i \in S
           H == {i \in D : \A S \in SUBSET D : GoesOn(S) => i \in S}
           f == [i \in D |-> i \in H]
<1>1. GoesOn(H) /\ H \subseteq D
  <2>1. 1 \in H
    OBVIOUS
  <2>2. ASSUME NEW g \in H, NEW i \in D, g < i, <<g, i>> \in E
        PROVE  i \in H
    <3>1. ASSUME NEW S \in SUBSET D, GoesOn(S)
          PROVE  i \in S
      BY <2>2, <3>1
    <3> HIDE DEF GoesOn
    <3> QED BY <3>1
  <2>3. H \subseteq D
    OBVIOUS
  <2> HIDE DEF H
  <2> QED BY <2>1, <2>2, <2>3
<1>2. ASSUME NEW i \in H, i # 1
      PROVE  \E g \in H : g < i /\ <<g, i>> \in E
  <2>1. SUFFICES ASSUME \A g \in H : ~ (g < i /\ <<g, i>> \in E)
                 PROVE  FALSE
    OBVIOUS
  <2>2. GoesOn(H \ {i})
    BY <1>1, <1>2, <2>1
  <2>3. H \ {i} \in SUBSET D
    BY <1>1
  <2> HIDE DEF GoesOn
  <2> QED BY <2>2, <2>3, <1>2
<1> HIDE DEF GoesOn
<1>3. \A i \in D : (i \in H) <=> (i = 1 \/ \E g \in 1..i - 1 : <<g, i>> \in E /\ f[g])
  <2> SUFFICES ASSUME NEW i \in D
               PROVE  (i \in H) <=> (i = 1 \/ \E g \in 1..i - 1 : <<g, i>> \in E /\ f[g])
    OBVIOUS
  <2>1. \A g \in 1..i - 1 : g \in D /\ g < i
    OBVIOUS
  <2>2. \A g \in D : f[g] <=> g \in H
    OBVIOUS
  <2> HIDE DEF f
  <2>3. i \in H /\ i # 1 => \E g \in 1..i - 1 : <<g, i>> \in E /\ g \in H
    <3> HIDE DEF H
    <3> QED BY <1>2, <1>1
  <2>4. ASSUME NEW g \in 1..i - 1, <<g, i>> \in E, g \in H
        PROVE  i \in H
    <3> HIDE DEF H
    <3> QED BY <1>1, <2>1, <2>4 DEF GoesOn
  <2>5. 1 \in H
    BY <1>1 DEF GoesOn
  <2> HIDE DEF H, D
  <2> QED BY <2>1, <2>2, <2>3, <2>4, <2>5
<1>4. f = [i \in D |-> i = 1 \/ \E g \in 1..i - 1 : <<g, i>> \in E /\ f[g]]
  <2> HIDE DEF H
  <2> QED BY <1>3
<1> QED BY <1>4

(* The header at g counts, and the next one is looked for at i.            *)
Leads(cells, own, g, i) ==
  /\ Readable(cells, g, own) /\ i = g + Claimed(cells, g, own) + 1
  /\ \A r \in g + 1..i - 1 : Good(cells, g, r)

(* pager_playback looks for a header at the beginning, and where a header  *)
(* with good records leads.                                                *)
LEMMA ReachedStep ==
  ASSUME NEW cells \in Seq(Cells), NEW own
  PROVE  /\ Reached(cells, own) \subseteq 1..Len(cells) + 1
         /\ 1 \in Reached(cells, own)
         /\ \A i \in 1..Len(cells) + 1 :
              i \in Reached(cells, own)
                <=> i = 1 \/ \E g \in 1..i - 1 :
                      Leads(cells, own, g, i) /\ g \in Reached(cells, own)
<1> DEFINE n == Len(cells)
           E == {x \in (1..n) \X (1..n + 1) : Leads(cells, own, x[1], x[2])}
           Sol(f) == f = [i \in 1..n + 1 |->
                            \/ i = 1
                            \/ \E g \in 1..i - 1 :
                                 /\ Readable(cells, g, own)
                                 /\ i = g + Claimed(cells, g, own) + 1
                                 /\ f[g]
                                 /\ \A r \in g + 1..i - 1 : Good(cells, g, r)]
           f == CHOOSE f : Sol(f)
<1>1. n \in Nat
  OBVIOUS
<1>2. \A i \in 1..n + 1 : \A g \in 1..i - 1 : <<g, i>> \in E <=> Leads(cells, own, g, i)
  <2> SUFFICES ASSUME NEW i \in 1..n + 1, NEW g \in 1..i - 1
               PROVE  <<g, i>> \in E <=> Leads(cells, own, g, i)
    OBVIOUS
  <2>1. <<g, i>> \in (1..n) \X (1..n + 1)
    BY <1>1
  <2> QED BY <2>1
<1>3. PICK f0 : f0 = [i \in 1..n + 1 |-> i = 1 \/ \E g \in 1..i - 1 : <<g, i>> \in E /\ f0[g]]
  <2> HIDE DEF n, E
  <2> QED BY <1>1, ReachedExists
<1> HIDE DEF E
<1>4. Sol(f0)
  <2> HIDE DEF n
  <2>1. \A i \in 1..n + 1 :
          (\E g \in 1..i - 1 : <<g, i>> \in E /\ f0[g])
            <=> \E g \in 1..i - 1 :
                 /\ Readable(cells, g, own)
                 /\ i = g + Claimed(cells, g, own) + 1
                 /\ f0[g]
                 /\ \A r \in g + 1..i - 1 : Good(cells, g, r)
    BY <1>2 DEF Leads
  <2> QED BY <1>3, <2>1
<1>5. Sol(f)
  <2> HIDE DEF Sol
  <2> QED BY <1>4
<1>6. Reached(cells, own) = {i \in 1..n + 1 : f[i]}
  BY DEF Reached
<1> HIDE DEF f
<1>7. \A i \in 1..n + 1 : f[i] <=> (i = 1 \/ \E g \in 1..i - 1 : Leads(cells, own, g, i) /\ f[g])
  <2> HIDE DEF n
  <2>1. \A i \in 1..n + 1 :
          (\E g \in 1..i - 1 : <<g, i>> \in E /\ f[g])
            <=> \E g \in 1..i - 1 :
                 /\ Readable(cells, g, own)
                 /\ i = g + Claimed(cells, g, own) + 1
                 /\ f[g]
                 /\ \A r \in g + 1..i - 1 : Good(cells, g, r)
    BY <1>2 DEF Leads
  <2>2. f = [i \in 1..n + 1 |-> i = 1 \/ \E g \in 1..i - 1 : <<g, i>> \in E /\ f[g]]
    BY <1>5, <2>1
  <2> HIDE DEF Sol
  <2>3. \A i \in 1..n + 1 : f[i] <=> (i = 1 \/ \E g \in 1..i - 1 : <<g, i>> \in E /\ f[g])
    BY <2>2
  <2> QED BY <1>2, <2>3
<1>8. \A i \in 1..n + 1 : \A g \in 1..i - 1 : g \in 1..n + 1
  BY <1>1
<1> HIDE DEF Sol
<1> QED BY <1>1, <1>6, <1>7, <1>8

(* Replayed, place by place.                                               *)
RecordsOf(cells, own) ==
  {k \in DOMAIN cells :
     /\ \E i \in Reached(cells, own) :
          /\ Readable(cells, i, own) /\ k \in i + 1..i + Claimed(cells, i, own)
          /\ \A r \in i + 1..k : Good(cells, i, r)
     /\ cells[k].pg <= cells[1].size}

(* What pager_playback copies back are the good records of the headers it  *)
(* finds.                                                                  *)
LEMMA ReplayedAs ==
  ASSUME NEW cells, NEW own
  PROVE  Replayed(cells, own) = RecordsOf(cells, own)
<1> DEFINE records(i) == {r \in i + 1..i + Claimed(cells, i, own) :
                            \A q \in i + 1..r : Good(cells, i, q)}
           heads == {i \in Reached(cells, own) : Readable(cells, i, own)}
<1>1. Replayed(cells, own) = {k \in UNION {records(i) : i \in heads} : cells[k].pg <= cells[1].size}
  BY DEF Replayed
<1>2. \A i \in heads : i \in Int
  BY DEF Reached
<1>3. ASSUME NEW i \in heads, NEW k \in records(i)
      PROVE  k \in DOMAIN cells
  <2>1. k \in i + 1..k
    BY <1>2
  <2> QED BY <2>1 DEF Good
<1>4. ASSUME NEW k
      PROVE  k \in Replayed(cells, own) <=> k \in RecordsOf(cells, own)
  <2>1. k \in Replayed(cells, own)
          <=> (\E i \in heads : k \in records(i)) /\ cells[k].pg <= cells[1].size
    BY <1>1
  <2>2. k \in RecordsOf(cells, own)
          <=> /\ k \in DOMAIN cells
              /\ \E i \in heads : k \in records(i)
              /\ cells[k].pg <= cells[1].size
    BY DEF RecordsOf
  <2> QED BY <1>3, <2>1, <2>2
<1> QED BY <1>4

(* What is reached up to m depends on the cells before m alone.            *)
LEMMA ReachedAgrees ==
  ASSUME NEW c \in Seq(Cells), NEW d \in Seq(Cells), NEW m \in Nat,
         m <= Len(c) + 1, m <= Len(d) + 1,
         \A i \in 1..m - 1 : c[i] = d[i],
         NEW own \in Nat, own = 0 \/ own >= m,
         NEW i \in Reached(c, 0), i <= m
  PROVE  i \in Reached(d, own)
<1> DEFINE T == {k \in Reached(c, 0) : k <= m /\ k \notin Reached(d, own)}
<1>1. SUFFICES ASSUME T # {}
               PROVE  FALSE
  OBVIOUS
<1>2. T \subseteq Nat
  BY ReachedStep
<1>3. Min(T) \in T /\ \A y \in T : Min(T) <= y
  <2> HIDE DEF T
  <2> QED BY <1>1, <1>2, LeastNatural
<1>4. PICK k \in Reached(c, 0) : k <= m /\ k \notin Reached(d, own) /\ \A y \in T : k <= y
  BY <1>3
<1>5. k \in 1..Len(c) + 1 /\ k \in 1..Len(d) + 1 /\ k # 1
  BY <1>4, ReachedStep
<1>6. PICK g \in 1..k - 1 : Leads(c, 0, g, k) /\ g \in Reached(c, 0)
  BY <1>4, <1>5, ReachedStep
<1>7. g \in Reached(d, own)
  <2>1. g < k /\ g <= m
    BY <1>4, <1>5
  <2>2. g \notin T
    BY <1>4, <1>5, <2>1
  <2> QED BY <1>6, <2>1, <2>2
<1>8. Leads(d, own, g, k)
  <2>1. g \in 1..m - 1 /\ g \in DOMAIN c /\ g \in DOMAIN d /\ g # own /\ g # 0
    BY <1>4, <1>5
  <2>2. c[g] = d[g] /\ c[g] \in Cells
    BY <2>1
  <2>3. Readable(d, g, own) /\ Readable(c, g, 0)
    BY <1>6, <2>1, <2>2 DEF Leads, Readable
  <2>4. c[g].nRec \in Nat
    BY <2>2, <2>3 DEF Readable, Cells, Bad, Headers, Records
  <2>5. Claimed(c, g, 0) = c[g].nRec /\ Claimed(d, g, own) = d[g].nRec
    BY <2>1, <2>2, <2>4 DEF Claimed
  <2>6. ASSUME NEW r \in g + 1..k - 1
        PROVE  Good(d, g, r)
    <3>1. r \in 1..m - 1 /\ r \in DOMAIN d
      BY <1>4, <1>5
    <3>2. c[r] = d[r]
      BY <3>1
    <3>3. Good(c, g, r)
      BY <1>6 DEF Leads
    <3> QED BY <3>1, <3>2, <3>3, <2>2 DEF Good
  <2>7. k = g + Claimed(d, g, own) + 1
    BY <1>6, <2>2, <2>5 DEF Leads
  <2> QED BY <2>3, <2>6, <2>7 DEF Leads
<1> QED BY <1>4, <1>5, <1>6, <1>7, <1>8, ReachedStep

-----------------------------------------------------------------------------
(* Files.                                                                  *)

(* What a file may hold after a power failure: each place one of the       *)
(* values it may hold.                                                     *)
LEMMA OutcomesAre ==
  ASSUME NEW f, \A i \in DOMAIN f.now : f.now[i] \in f.maybe[i], NEW x
  PROVE  x \in Outcomes(f)
           <=> /\ x = [i \in DOMAIN f.now |-> x[i]]
               /\ \A i \in DOMAIN f.now : x[i] \in f.maybe[i]
<1> DEFINE D == DOMAIN f.now
           unsure == {i \in D : f.maybe[i] # {f.now[i]}}
           values == UNION {f.maybe[i] : i \in unsure}
           parts == {q \in [unsure -> values] : \A i \in unsure : q[i] \in f.maybe[i]}
           whole(q) == [i \in D |-> IF i \in unsure THEN q[i] ELSE f.now[i]]
<1>1. Outcomes(f) = {whole(q) : q \in parts}
  BY DEF Outcomes
<1>2. ASSUME NEW q \in parts, x = whole(q)
      PROVE  x = [i \in D |-> x[i]] /\ \A i \in D : x[i] \in f.maybe[i]
  BY <1>2
<1>3. ASSUME x = [i \in D |-> x[i]], \A i \in D : x[i] \in f.maybe[i]
      PROVE  \E q \in parts : x = whole(q)
  <2> DEFINE q == [i \in unsure |-> x[i]]
  <2>1. q \in parts
    BY <1>3
  <2>2. \A i \in D : x[i] = IF i \in unsure THEN q[i] ELSE f.now[i]
    BY <1>3
  <2>3. x = whole(q)
    <3> HIDE DEF unsure, q
    <3> QED BY <1>3, <2>2
  <2> QED BY <2>1, <2>3
<1> HIDE DEF whole, parts
<1> QED BY <1>1, <1>2, <1>3

(* A journal file with nothing in doubt.                                   *)
LEMMA SettledFile ==
  ASSUME NEW cells \in Seq(Cells)
  PROVE  /\ Filed(JournalFile(cells)) /\ JournalFile(cells).exists
         /\ JournalFile(cells).now = cells
         /\ Settl(JournalFile(cells))
<1> DEFINE m == [i \in DOMAIN cells |-> {cells[i]}]
<1>1. /\ DOMAIN cells = 1..Len(cells) /\ Len(cells) \in Nat
      /\ \A i \in DOMAIN cells : cells[i] \in Cells
  OBVIOUS
<1>2. m \in [1..Len(cells) -> SUBSET Cells]
  BY <1>1
<1>3. m \in Seq(SUBSET Cells) /\ Len(m) = Len(cells)
  <2> HIDE DEF m
  <2> QED BY <1>1, <1>2
<1>4. \A i \in 1..Len(cells) : m[i] = {cells[i]}
  BY <1>1
<1> HIDE DEF m
<1>5. JournalFile(cells) = [exists |-> TRUE, now |-> cells, maybe |-> m]
  BY DEF JournalFile, m
<1> QED BY <1>1, <1>3, <1>4, <1>5 DEF Filed, Settl

(* A write to the journal, unsynced: the place may hold what it held, the  *)
(* new cell or a torn one; the others stay.                                *)
LEMMA PutCellIs ==
  ASSUME NEW j, Filed(j), NEW i \in 1..Len(j.now) + 1, NEW c \in Cells,
         NEW k, k = PutCell(j, i, c)
  PROVE  /\ Filed(k)
         /\ k.exists <=> j.exists
         /\ Len(k.now) = (IF i <= Len(j.now) THEN Len(j.now) ELSE i)
         /\ k.now[i] = c
         /\ \A d \in k.maybe[i] : d \in {c, Bad} \/ (i <= Len(j.now) /\ d \in j.maybe[i])
         /\ \A m \in 1..Len(k.now) \ {i} :
              m \in 1..Len(j.now) /\ k.now[m] = j.now[m] /\ k.maybe[m] = j.maybe[m]
<1>1. /\ j.now \in Seq(Cells) /\ j.maybe \in Seq(SUBSET Cells)
      /\ Len(j.maybe) = Len(j.now) /\ Len(j.now) \in Nat
      /\ j \in [exists : BOOLEAN, now : Seq(Cells), maybe : Seq(SUBSET Cells)]
      /\ \A m \in 1..Len(j.now) : j.now[m] \in j.maybe[m]
  BY DEF Filed
<1>2. Bad \in Cells
  BY DEF Cells
<1>3. CASE i <= Len(j.now)
  <2> DEFINE t == Torn(j.maybe[i], c, Bad)
             a == [j.now EXCEPT ![i] = c]
             b == [j.maybe EXCEPT ![i] = t]
  <2>1. j.maybe[i] \subseteq Cells /\ i \in 1..Len(j.maybe)
    BY <1>1, <1>3
  <2>2. t \subseteq Cells /\ c \in t /\ \A d \in t : d \in {c, Bad} \/ d \in j.maybe[i]
    BY <2>1, <1>2 DEF Torn
  <2>3. k = [j EXCEPT !.now[i] = c, !.maybe[i] = t]
    BY <1>3 DEF PutCell
  <2> HIDE DEF t
  <2>4. k \in [exists : BOOLEAN, now : Seq(Cells), maybe : Seq(SUBSET Cells)]
        /\ k.now = a /\ k.maybe = b /\ (k.exists <=> j.exists)
    <3>1. k.now = a /\ k.maybe = b /\ k.exists = j.exists
      BY <2>3, <1>1
    <3>2. a \in Seq(Cells) /\ b \in Seq(SUBSET Cells)
      BY <1>1, <2>1, <2>2
    <3>3. k = [j EXCEPT !.now = a, !.maybe = b]
      BY <2>3
    <3> HIDE DEF a, b
    <3> QED BY <3>1, <3>2, <3>3, <1>1
  <2>5. /\ a \in Seq(Cells) /\ Len(a) = Len(j.now) /\ a[i] = c
        /\ \A m \in 1..Len(j.now) \ {i} : a[m] = j.now[m]
    BY <1>1, <1>3
  <2>6. /\ b \in Seq(SUBSET Cells) /\ Len(b) = Len(j.now) /\ b[i] = t
        /\ \A m \in 1..Len(j.now) \ {i} : b[m] = j.maybe[m]
    BY <1>1, <1>3, <2>1, <2>2
  <2> HIDE DEF a, b
  <2>7. \A m \in 1..Len(a) : a[m] \in b[m]
    BY <1>1, <2>2, <2>5, <2>6
  <2> QED BY <1>3, <2>2, <2>4, <2>5, <2>6, <2>7 DEF Filed
<1>4. CASE i = Len(j.now) + 1
  <2> DEFINE t == {c, Bad}
             a == Append(j.now, c)
             b == Append(j.maybe, t)
  <2>1. ~ (i <= Len(j.now))
    BY <1>1, <1>4
  <2>2. k = [j EXCEPT !.now = Append(@, c), !.maybe = Append(@, {c, Bad})]
    BY <2>1 DEF PutCell
  <2>3. k.now = a /\ k.maybe = b /\ k.exists = j.exists
    BY <2>2, <1>1
  <2>4. t \subseteq Cells /\ c \in t
    BY <1>2
  <2> HIDE DEF t
  <2>5. /\ a \in Seq(Cells) /\ Len(a) = i /\ a[i] = c
        /\ \A m \in 1..Len(j.now) : a[m] = j.now[m]
    BY <1>1, <1>4
  <2>6. /\ b \in Seq(SUBSET Cells) /\ Len(b) = i /\ b[i] = t
        /\ \A m \in 1..Len(j.now) : b[m] = j.maybe[m]
    BY <1>1, <1>4, <2>4
  <2>7. k = [j EXCEPT !.now = a, !.maybe = b]
    BY <2>2 DEF t
  <2> HIDE DEF a, b
  <2>8. k \in [exists : BOOLEAN, now : Seq(Cells), maybe : Seq(SUBSET Cells)]
    BY <2>7, <2>5, <2>6, <1>1
  <2>9. \A m \in 1..Len(a) : a[m] \in b[m]
    BY <1>1, <1>4, <2>4, <2>5, <2>6
  <2>10. \A m \in 1..Len(a) \ {i} : m \in 1..Len(j.now)
    BY <2>5, <1>1, <1>4
  <2> QED BY <2>1, <2>3, <2>4, <2>5, <2>6, <2>8, <2>9, <2>10 DEF Filed, t
<1> QED BY <1>1, <1>3, <1>4

(* The journal files a power failure can leave.                            *)
LEMMA PossibleAre ==
  ASSUME NEW j, Filed(j), j.exists
  PROVE  /\ JournalFile(j.now) \in Possible(j)
         /\ \A k \in Possible(j) :
              /\ k = JournalFile(k.now) /\ k.exists
              /\ k.now \in Seq(Cells) /\ Len(k.now) = Len(j.now)
              /\ \A i \in 1..Len(j.now) : k.now[i] \in j.maybe[i]
              /\ Settl(j) => k.now = j.now
<1>1. /\ j.now \in Seq(Cells) /\ Len(j.now) \in Nat /\ DOMAIN j.now = 1..Len(j.now)
      /\ j.maybe \in Seq(SUBSET Cells) /\ Len(j.maybe) = Len(j.now)
      /\ \A i \in DOMAIN j.now : j.now[i] \in j.maybe[i]
  BY DEF Filed
<1>2. \A x : x \in Outcomes(j) <=> /\ x = [i \in DOMAIN j.now |-> x[i]]
                                   /\ \A i \in DOMAIN j.now : x[i] \in j.maybe[i]
  BY <1>1, OutcomesAre
<1>3. j.now \in Outcomes(j)
  BY <1>1, <1>2
<1>4. Possible(j) = {JournalFile(cells) : cells \in Outcomes(j)}
  BY DEF Possible
<1>5. ASSUME NEW x \in Outcomes(j)
      PROVE  /\ x \in Seq(Cells) /\ Len(x) = Len(j.now)
             /\ \A i \in 1..Len(j.now) : x[i] \in j.maybe[i]
             /\ Settl(j) => x = j.now
  <2>1. \A i \in 1..Len(j.now) : x[i] \in j.maybe[i] /\ x[i] \in Cells
    BY <1>1, <1>2
  <2>2. x \in [1..Len(j.now) -> Cells]
    BY <1>1, <1>2, <2>1
  <2>3. Settl(j) => \A i \in 1..Len(j.now) : x[i] = j.now[i]
    BY <2>1 DEF Settl
  <2>4. x \in Seq(Cells) /\ Len(x) = Len(j.now)
    BY <1>1, <2>2
  <2>5. Settl(j) => x = j.now
    BY <1>1, <2>2, <2>3
  <2> QED BY <2>1, <2>4, <2>5
<1>6. \A x \in Outcomes(j) : JournalFile(x).now = x /\ JournalFile(x).exists
  BY DEF JournalFile
<1> QED BY <1>3, <1>4, <1>5, <1>6

-----------------------------------------------------------------------------
(* What playing a journal back gives.                                      *)

(* Gives says what it should: whatever the file holds of what it may hold, *)
(* a rollback of the journal makes it O.                                   *)
LEMMA GivesRestored ==
  ASSUME NEW d, DbOK(d), NEW j, j.now \in Seq(Cells), NEW O, Whole(O),
         Gives(d.maybe, j, O), NEW img \in Outcomes(d)
  PROVE  Restored(img, j) = O
<1>1. /\ DOMAIN d.now = Pages /\ d.maybe \in [Pages -> SUBSET Values]
      /\ \A p \in Pages : d.now[p] \in d.maybe[p]
  BY DEF DbOK
<1>2. /\ img = [p \in Pages |-> img[p]]
      /\ \A p \in Pages : img[p] \in d.maybe[p]
  BY <1>1, OutcomesAre
<1>3. O = [p \in Pages |-> O[p]]
  BY DEF Whole, Contents
<1>4. CASE AllAre(d.maybe, O) /\ ~ (Hot(j) /\ Readable(j.now, 1, 0))
  <2>1. \A p \in Pages : img[p] = O[p]
    BY <1>2, <1>4 DEF AllAre
  <2>2. img = O
    BY <1>2, <1>3, <2>1
  <2> QED BY <1>4, <2>2 DEF Restored, Played
<1>5. CASE Hot(j) /\ Readable(j.now, 1, 0)
  <2> DEFINE size == j.now[1].size
             R == Replayed(j.now, 0)
             before == Truncated(img, size)
             places(p) == {k \in R : j.now[k].pg = p}
             value(p) == IF places(p) = {} THEN before[p] ELSE j.now[Max(places(p))].data
  <2>1. /\ Contents(O, size)
        /\ \A k \in R : j.now[k].data = O[j.now[k].pg]
        /\ \A p \in 1..size : (\A k \in R : j.now[k].pg # p) => d.maybe[p] = {O[p]}
    BY <1>5 DEF Gives
  <2>2. Restored(img, j) = [p \in Pages |-> value(p)]
    BY <1>5 DEF Restored, Played
  <2>3. R \subseteq 0..Len(j.now) /\ Len(j.now) \in Nat
    BY ReplayedAs DEF RecordsOf
  <2>4. \A p \in Pages : before[p] = IF p > size THEN Absent
                                     ELSE IF img[p] = Absent THEN Garbage ELSE img[p]
    BY DEF Truncated
  <2> HIDE DEF R, before, size
  <2>5. ASSUME NEW p \in Pages
        PROVE  value(p) = O[p]
    <3>1. CASE places(p) # {}
      <4>1. places(p) \subseteq 0..Len(j.now)
        BY <2>3
      <4>2. Max(places(p)) \in places(p)
        <5> HIDE DEF places
        <5> QED BY <4>1, <2>3, <3>1, GreatestUpTo
      <4>3. j.now[Max(places(p))].data = O[p]
        BY <4>2, <2>1
      <4> HIDE DEF places
      <4> QED BY <3>1, <4>3
    <3>2. CASE places(p) = {}
      <4>1. CASE p > size
        <5>1. size \in Int /\ p \in Int /\ ~ (p <= size)
          BY <4>1, <2>1 DEF Contents, Pages
        <5>2. O[p] = Absent
          BY <5>1, <2>1 DEF Contents
        <5> QED BY <4>1, <3>2, <2>4, <5>2
      <4>2. CASE ~ (p > size)
        <5>1. size \in Nat /\ p \in Int /\ p \in 1..size
          BY <4>2, <2>1 DEF Contents, Pages
        <5>2. d.maybe[p] = {O[p]}
          BY <5>1, <3>2, <2>1
        <5>3. img[p] = O[p]
          BY <5>2, <1>2
        <5>4. O[p] # Absent
          BY <5>1, <2>1 DEF Contents
        <5>5. before[p] = O[p]
          BY <2>4, <4>2, <5>3, <5>4
        <5> QED BY <3>2, <5>5
      <4> QED BY <4>1, <4>2
    <3> QED BY <3>1, <3>2
  <2> HIDE DEF value
  <2> QED BY <2>2, <2>5, <1>3
<1> QED BY <1>4, <1>5 DEF Gives

(* The contents that every outcome gives are those found now.              *)
LEMMA RecoveredIs ==
  ASSUME NEW d, DbOK(d), NEW j, Filed(j), NEW O, Whole(O),
         \A k \in Possible(j) : Gives(d.maybe, k, O)
  PROVE  Restored(d.now, j) = O
<1>1. d.now \in Outcomes(d)
  <2>1. /\ DOMAIN d.now = Pages /\ d.now = [p \in Pages |-> d.now[p]]
        /\ \A p \in Pages : d.now[p] \in d.maybe[p]
    BY DEF DbOK
  <2> QED BY <2>1, OutcomesAre
<1>2. CASE j.exists
  <2> DEFINE k == JournalFile(j.now)
  <2>1. k \in Possible(j)
    BY <1>2, PossibleAre
  <2>2. k.now = j.now /\ k.exists
    BY DEF JournalFile
  <2>3. j.now \in Seq(Cells)
    BY DEF Filed
  <2>4. Gives(d.maybe, k, O) /\ k.now \in Seq(Cells)
    BY <2>1, <2>2, <2>3
  <2> HIDE DEF k
  <2>5. Restored(d.now, k) = O
    BY <1>1, <2>4, GivesRestored
  <2>6. Hot(k) <=> Hot(j)
    BY <1>2, <2>2 DEF Hot
  <2> QED BY <2>2, <2>5, <2>6 DEF Restored
<1>3. CASE ~j.exists
  <2>1. Gives(d.maybe, NoJournal, O)
    BY <1>3 DEF Possible
  <2>2. NoJournal.now \in Seq(Cells) /\ ~NoJournal.exists
    BY DEF NoJournal
  <2>3. Restored(d.now, NoJournal) = O
    BY <1>1, <2>1, <2>2, GivesRestored
  <2>4. ~Hot(NoJournal) /\ ~Hot(j)
    BY <1>3, <2>2 DEF Hot
  <2> QED BY <2>3, <2>4 DEF Restored
<1> QED BY <1>2, <1>3

-----------------------------------------------------------------------------
(* The journal of a transaction.                                           *)

(* In every journal a power failure can leave, the headers that count are  *)
(* those the pager wrote, up to its own, and each leads to the next.       *)
LEMMA OutcomeHeaders ==
  ASSUME NEW j, Filed(j), NEW hd, NEW end, NEW size, NEW O, Holds(j, hd, end, size, O),
         NEW c \in Seq(Cells), Len(c) = Len(j.now),
         \A i \in 1..Len(j.now) : c[i] \in j.maybe[i],
         NEW i, Readable(c, i, 0)
  PROVE  /\ i \in 1..hd /\ c[i] = j.now[i] /\ c[i] \in Headers
         /\ i < hd => i + Claimed(c, i, 0) < hd
         /\ i = hd => hd <= end /\ Claimed(c, hd, 0) = end - hd
<1>1. /\ i \in 1..Len(j.now) /\ i # 0 /\ c[i] \in Cells /\ c[i].kind = "hdr"
      /\ c[i].magic /\ c[i] \in j.maybe[i]
  BY DEF Readable
<1>2. c[i] \in Headers
  BY <1>1 DEF Cells, Bad, Records
<1>3. c[i].nRec \in Nat
  BY <1>2 DEF Headers
<1>4. Claimed(c, i, 0) = c[i].nRec
  BY <1>1, <1>3 DEF Claimed
<1>5. hd \in Nat /\ end \in 1..Len(j.now) /\ Len(j.now) \in Nat /\ hd <= end + 1 /\ i \in Int
  BY <1>1 DEF Holds, Filed
<1>6. CASE i < hd
  <2>1. i \in 1..hd - 1
    BY <1>1, <1>5, <1>6
  <2>2. j.maybe[i] = {j.now[i]} /\ (j.now[i].kind = "hdr" => i + j.now[i].nRec < hd)
    BY <2>1 DEF Holds, Sealed
  <2>3. c[i] = j.now[i]
    BY <2>2, <1>1
  <2> QED BY <1>1, <1>2, <1>4, <1>5, <1>6, <2>2, <2>3
<1>7. CASE i >= hd /\ i > end
  <2>1. i \in end + 1..Len(j.now)
    BY <1>1, <1>5, <1>7
  <2> QED BY <2>1, <1>1 DEF Holds, NoHeaderAfter
<1>8. CASE i >= hd /\ i <= end
  <2>1. Open(j, hd, end, size)
    BY <1>8, <1>5 DEF Holds
  <2>2. i = hd
    <3>1. CASE i > hd
      <4>1. i \in hd + 1..end
        BY <1>8, <1>5, <3>1
      <4> QED BY <4>1, <2>1, <1>1 DEF Open
    <3> QED BY <3>1, <1>8, <1>5
  <2>3. c[i] = j.now[hd]
    BY <2>1, <2>2, <1>1 DEF Open, IsHeader
  <2>4. j.now[hd].nRec = end - hd
    BY <2>1, <2>3, <1>1 DEF Open
  <2> QED BY <1>1, <1>2, <1>4, <1>5, <1>8, <2>2, <2>3, <2>4
<1> QED BY <1>5, <1>6, <1>7, <1>8

(* Only records of the transaction are replayed, whatever is lost.         *)
LEMMA OutcomeRecords ==
  ASSUME NEW j, Filed(j), NEW hd, NEW end, NEW size, NEW O, Holds(j, hd, end, size, O),
         NEW c \in Seq(Cells), Len(c) = Len(j.now),
         \A i \in 1..Len(j.now) : c[i] \in j.maybe[i],
         NEW k \in Replayed(c, 0)
  PROVE  k \in 1..end /\ c[k] = j.now[k] /\ IsRecord(j.now[k])
<1>1. PICK i : /\ Readable(c, i, 0) /\ k \in i + 1..i + Claimed(c, i, 0)
               /\ \A r \in i + 1..k : Good(c, i, r)
  BY ReplayedAs DEF RecordsOf
<1>2. /\ i \in 1..hd /\ c[i] = j.now[i] /\ c[i] \in Headers
      /\ i < hd => i + Claimed(c, i, 0) < hd
      /\ i = hd => hd <= end /\ Claimed(c, hd, 0) = end - hd
  BY <1>1, OutcomeHeaders
<1>3. hd \in Nat /\ end \in 1..Len(j.now) /\ Len(j.now) \in Nat /\ hd <= end + 1 /\ i \in Int
  BY <1>2 DEF Holds, Filed
<1>4. k \in 1..Len(j.now) /\ k >= i + 1 /\ k <= i + Claimed(c, i, 0)
  BY <1>1, <1>3, ReplayedAs DEF RecordsOf
<1>5. Good(c, i, k)
  BY <1>1, <1>3, <1>4
<1>6. c[k].kind = "rec" /\ c[k].cksum = c[i].cksumInit /\ c[k] \in j.maybe[k] /\ c[k] \in Cells
  BY <1>5, <1>4 DEF Good
<1>7. Claimed(c, i, 0) \in Int
  <2>1. i \in DOMAIN c /\ c[i].nRec \in Int /\ Len(c) \in Int
    BY <1>1, <1>2 DEF Readable, Headers
  <2> QED BY <2>1, <1>3 DEF Claimed
<1>8. CASE i < hd
  <2>1. k < hd
    BY <1>2, <1>3, <1>4, <1>7, <1>8
  <2>2. k \in 1..hd - 1
    BY <2>1, <1>3, <1>4
  <2>3. j.maybe[k] = {j.now[k]}
    BY <2>2 DEF Holds, Sealed
  <2> QED BY <1>6, <2>1, <2>3, <1>3, <1>4 DEF IsRecord
<1>9. CASE i = hd
  <2>1. hd <= end /\ k \in hd + 1..end /\ k \in 1..end
    BY <1>2, <1>3, <1>4, <1>9
  <2>2. Open(j, hd, end, size)
    BY <2>1 DEF Holds
  <2>3. /\ IsRecord(j.now[k])
        /\ \A d \in j.maybe[k] : IsRecord(d) => d = j.now[k] \/ d.cksum < j.now[hd].cksumInit
    BY <2>1, <2>2 DEF Open
  <2>4. c[k] = j.now[k] \/ c[k].cksum < j.now[hd].cksumInit
    BY <2>3, <1>6 DEF IsRecord
  <2>5. c[k].cksum = j.now[hd].cksumInit /\ j.now[hd].cksumInit \in Int
    BY <1>6, <1>2, <1>9 DEF Headers
  <2> QED BY <2>1, <2>3, <2>4, <2>5
<1> QED BY <1>2, <1>3, <1>8, <1>9

(* Every record of the part that was synced is.                            *)
LEMMA SealedReplayed ==
  ASSUME NEW j, Filed(j), NEW hd, NEW end, NEW size, NEW O, Holds(j, hd, end, size, O),
         NEW c \in Seq(Cells), hd <= Len(c) + 1,
         \A i \in 1..hd - 1 : c[i] = j.now[i],
         NEW own \in Nat, own = 0 \/ own >= hd,
         NEW k \in 1..hd - 1, IsRecord(j.now[k])
  PROVE  k \in Replayed(c, own)
<1>1. /\ hd \in Nat /\ end \in 1..Len(j.now) /\ Len(j.now) \in Nat /\ hd <= end + 1 /\ k \in Int
      /\ j.now \in Seq(Cells) /\ Len(c) \in Nat /\ DOMAIN c = 1..Len(c)
  BY DEF Holds, Filed
<1>2. k \in Replayed(j.now, 0)
  BY DEF Holds, Sealed
<1>3. PICK i \in Reached(j.now, 0) :
               /\ Readable(j.now, i, 0) /\ k \in i + 1..i + Claimed(j.now, i, 0)
               /\ \A r \in i + 1..k : Good(j.now, i, r)
  BY <1>2, ReplayedAs DEF RecordsOf
<1>4. i \in 1..Len(j.now) /\ j.now[i].kind = "hdr" /\ j.now[i].magic /\ j.now[i] \in Cells
  BY <1>3, <1>1 DEF Readable
<1>5. j.now[i] \in Headers /\ j.now[i].nRec \in Nat
  BY <1>4 DEF Cells, Bad, Records, Headers
<1>6. Claimed(j.now, i, 0) = j.now[i].nRec
  BY <1>4, <1>5 DEF Claimed
<1>7. i < k /\ k <= i + j.now[i].nRec /\ i \in Int
  BY <1>1, <1>3, <1>4, <1>5, <1>6
<1>8. i \in 1..hd - 1 /\ i # own /\ c[i] = j.now[i] /\ i \in DOMAIN c
  BY <1>1, <1>4, <1>7
<1>9. i \in Reached(c, own)
  <2>1. hd <= Len(j.now) + 1 /\ hd <= Len(c) + 1 /\ i <= hd
    BY <1>1, <1>8
  <2>2. \A r \in 1..hd - 1 : j.now[r] = c[r]
    OBVIOUS
  <2> QED BY <1>1, <1>3, <2>1, <2>2, ReachedAgrees
<1>10. Readable(c, i, own)
  BY <1>4, <1>8 DEF Readable
<1>11. Claimed(c, i, own) = j.now[i].nRec
  BY <1>5, <1>8 DEF Claimed
<1>12. ASSUME NEW r \in i + 1..k
       PROVE  Good(c, i, r)
  <2>1. r \in 1..hd - 1 /\ r \in DOMAIN c
    BY <1>1, <1>7, <1>8
  <2>2. c[r] = j.now[r] /\ Good(j.now, i, r)
    BY <2>1, <1>3
  <2> QED BY <2>1, <2>2, <1>8 DEF Good
<1>13. k \in DOMAIN c /\ c[k].pg <= c[1].size
  <2>1. k \in DOMAIN c /\ 1 \in 1..hd - 1
    BY <1>1
  <2>2. j.now[k].pg <= j.now[1].size
    BY <1>2, ReplayedAs DEF RecordsOf
  <2> QED BY <2>1, <2>2
<1>14. k \in i + 1..i + Claimed(c, i, own)
  BY <1>1, <1>5, <1>7, <1>11
<1> QED BY <1>9, <1>10, <1>12, <1>13, <1>14, ReplayedAs DEF RecordsOf

(* Whatever is lost of the writes not synced, the journal restores the     *)
(* file.                                                                   *)
LEMMA JournalGives ==
  ASSUME NEW j, Filed(j), NEW hd, NEW end, NEW size, NEW O, Holds(j, hd, end, size, O),
         NEW m, Untouched(m, j, hd, size, O), NEW k \in Possible(j)
  PROVE  Gives(m, k, O)
<1> DEFINE c == k.now
<1>1. /\ k.exists /\ c \in Seq(Cells) /\ Len(c) = Len(j.now)
      /\ \A i \in 1..Len(j.now) : c[i] \in j.maybe[i]
  <2>1. j.exists
    BY DEF Holds
  <2> QED BY <2>1, PossibleAre
<1>2. hd \in Nat /\ end \in 1..Len(j.now) /\ Len(j.now) \in Nat /\ hd <= end + 1 /\ hd >= 1
  BY DEF Holds, Filed
<1> HIDE DEF c
<1>3. \A i \in 1..hd - 1 : c[i] = j.now[i]
  <2> SUFFICES ASSUME NEW i \in 1..hd - 1 PROVE c[i] = j.now[i]
    OBVIOUS
  <2>1. i \in 1..Len(j.now)
    BY <1>2
  <2>2. j.maybe[i] = {j.now[i]}
    BY DEF Holds, Sealed
  <2> QED BY <2>1, <2>2, <1>1
<1>4. CASE hd > 1 \/ Readable(c, 1, 0)
  <2>1. Hot(k) /\ Readable(c, 1, 0) /\ c[1].size = size
    <3>1. CASE hd > 1
      <4>1. 1 \in 1..hd - 1 /\ 1 \in DOMAIN c /\ c # <<>>
        BY <3>1, <1>1, <1>2
      <4>2. c[1] = j.now[1] /\ IsHeader(j.now[1]) /\ j.now[1].size = size
        BY <4>1, <3>1, <1>3 DEF Holds, Sealed
      <4> QED BY <4>1, <4>2, <1>1 DEF Hot, Readable, IsHeader, c
    <3>2. CASE hd = 1 /\ Readable(c, 1, 0)
      <4>1. c[1] = j.now[1] /\ hd <= end
        BY <1>1, <3>2, OutcomeHeaders
      <4>2. c[1].size = size
        BY <4>1, <3>2 DEF Holds, Open
      <4>3. c # <<>> /\ c[1].magic
        BY <3>2, <1>1 DEF Readable
      <4> QED BY <4>2, <4>3, <3>2, <1>1 DEF Hot, c
    <3> QED BY <3>1, <3>2, <1>2, <1>4
  <2>2. Contents(O, size)
    BY DEF Holds
  <2>3. ASSUME NEW r \in Replayed(c, 0)
        PROVE  c[r].data = O[c[r].pg]
    <3>1. r \in 1..end /\ c[r] = j.now[r] /\ IsRecord(j.now[r])
      BY <1>1, OutcomeRecords
    <3> QED BY <3>1 DEF Holds
  <2>4. ASSUME NEW p \in 1..size, \A r \in Replayed(c, 0) : c[r].pg # p
        PROVE  m[p] = {O[p]}
    <3>1. CASE hd = 1
      <4>1. AllAre(m, O)
        BY <3>1 DEF Untouched
      <4>2. p \in Pages
        BY <2>2, PagerAssumption DEF Contents, Pages
      <4> QED BY <4>1, <4>2 DEF AllAre
    <3>2. CASE hd # 1
      <4>1. ASSUME NEW r \in 1..hd - 1, IsRecord(j.now[r])
            PROVE  j.now[r].pg # p
        <5>1. hd <= Len(c) + 1
          BY <1>1, <1>2
        <5>2. r \in Replayed(c, 0)
          BY <4>1, <5>1, <1>1, <1>3, SealedReplayed
        <5> QED BY <5>2, <1>3, <2>4
      <4> QED BY <4>1, <3>2 DEF Untouched
    <3> QED BY <3>1, <3>2
  <2> QED BY <2>1, <2>2, <2>3, <2>4 DEF Gives, c
<1>5. CASE hd = 1 /\ ~Readable(c, 1, 0)
  BY <1>5 DEF Gives, Untouched, c
<1> QED BY <1>2, <1>4, <1>5

(* A rollback replays every record of the transaction.                     *)
LEMMA RollbackReplays ==
  ASSUME NEW j, Filed(j), NEW hd, NEW end, NEW size, NEW O, Holds(j, hd, end, size, O)
  PROVE  /\ Readable(j.now, 1, hd) /\ j.now[1].size = size
         /\ Replayed(j.now, hd) = {k \in 1..end : IsRecord(j.now[k])}
<1> DEFINE c == j.now
<1>1. /\ hd \in Nat /\ end \in 1..Len(c) /\ Len(c) \in Nat /\ hd <= end + 1 /\ hd >= 1
      /\ c \in Seq(Cells) /\ DOMAIN c = 1..Len(c) /\ end \in Int
      /\ \A i \in 1..Len(c) : c[i] \in j.maybe[i] /\ c[i] \in Cells
  BY DEF Holds, Filed
<1>2. hd <= end => Open(j, hd, end, size) /\ c[hd] \in Headers
  <2>1. hd <= end => Open(j, hd, end, size)
    BY DEF Holds
  <2>2. hd <= end => hd \in 1..Len(c)
    BY <1>1
  <2> QED BY <1>1, <2>1, <2>2 DEF Open, Cells, Bad, Records
<1>3. Readable(c, 1, hd) /\ c[1].size = size
  <2>1. CASE hd = 1
    <3>1. hd <= end
      BY <2>1, <1>1
    <3> QED BY <1>1, <1>2, <2>1, <3>1 DEF Open, Readable
  <2>2. CASE hd > 1
    <3>1. IsHeader(c[1]) /\ c[1].size = size
      BY <2>2 DEF Holds, Sealed
    <3> QED BY <1>1, <3>1 DEF Readable, IsHeader
  <2> QED BY <1>1, <2>1, <2>2
<1>4. ASSUME NEW k \in Replayed(c, hd)
      PROVE  k \in 1..end /\ IsRecord(c[k])
  <2>1. PICK i : /\ Readable(c, i, hd) /\ k \in i + 1..i + Claimed(c, i, hd)
                 /\ \A r \in i + 1..k : Good(c, i, r)
    BY ReplayedAs DEF RecordsOf
  <2>2. i \in 1..Len(c) /\ c[i].kind = "hdr" /\ c[i] \in Headers /\ i \in Int
    BY <2>1, <1>1 DEF Readable, Cells, Bad, Records
  <2>3. c[i].nRec \in Nat
    BY <2>2 DEF Headers
  <2>4. Claimed(c, i, hd) \in Int
    BY <2>2, <2>3, <1>1 DEF Claimed
  <2>5. k \in 1..Len(c) /\ k >= i + 1 /\ k <= i + Claimed(c, i, hd)
    BY <2>1, <2>2, <2>4, <1>1, ReplayedAs DEF RecordsOf
  <2>6. Good(c, i, k)
    BY <2>1, <2>2, <2>5
  <2>7. IsRecord(c[k])
    BY <2>6 DEF Good, IsRecord
  <2>8. CASE i < hd
    <3>1. i \in 1..hd - 1
      BY <2>2, <2>8, <1>1
    <3>2. i + c[i].nRec < hd
      BY <3>1, <2>2 DEF Holds, Sealed
    <3>3. Claimed(c, i, hd) = c[i].nRec
      BY <2>3, <2>8, <1>1, <2>2 DEF Claimed
    <3> QED BY <2>5, <2>7, <3>2, <3>3, <2>2, <2>3, <1>1
  <2>9. CASE i > end
    <3>1. i \in end + 1..Len(c)
      BY <2>9, <2>2, <1>1
    <3> QED BY <3>1, <1>1, <2>2 DEF Holds, NoHeaderAfter
  <2>10. CASE i >= hd /\ i <= end
    <3>1. hd <= end
      BY <2>10, <2>2, <1>1
    <3>2. i = hd
      <4>1. CASE i > hd
        <5>1. i \in hd + 1..end
          BY <2>10, <2>2, <1>1, <4>1
        <5> QED BY <5>1, <1>2, <3>1, <2>2 DEF Open, IsRecord
      <4> QED BY <4>1, <2>10, <2>2, <1>1
    <3>3. CASE k > end
      <4>1. k \in end + 1..Len(c) /\ c[k] \in j.maybe[k]
        BY <3>3, <2>5, <1>1
      <4>2. c[k].cksum < c[hd].cksumInit
        BY <4>1, <2>7, <1>2, <3>1 DEF Open
      <4>3. c[k].cksum = c[hd].cksumInit /\ c[hd].cksumInit \in Int
        BY <2>6, <3>2, <2>2 DEF Good, Headers
      <4> QED BY <4>2, <4>3
    <3> QED BY <3>3, <2>5, <2>7, <1>1
  <2> QED BY <2>8, <2>9, <2>10, <2>2, <1>1
<1>5. ASSUME NEW k \in 1..end, IsRecord(c[k])
      PROVE  k \in Replayed(c, hd)
  <2>1. k \in Int /\ k \in DOMAIN c
    BY <1>1
  <2>2. CASE k < hd
    <3>1. k \in 1..hd - 1
      BY <2>2, <2>1, <1>1
    <3>2. hd = 0 \/ hd >= hd
      BY <1>1
    <3>3. \A i \in 1..hd - 1 : c[i] = j.now[i]
      OBVIOUS
    <3>4. c \in Seq(Cells) /\ hd <= Len(c) + 1 /\ hd \in Nat
      BY <1>1
    <3>5. IsRecord(j.now[k])
      BY <1>5
    <3> HIDE DEF c
    <3> QED BY <3>1, <3>2, <3>3, <3>4, <3>5, SealedReplayed
  <2>3. CASE k >= hd
    <3>1. hd <= end /\ k # hd /\ k \in hd + 1..end /\ hd \in 1..Len(c) /\ hd \in DOMAIN c
      <4>1. hd <= end /\ hd \in 1..Len(c)
        BY <2>3, <2>1, <1>1
      <4>2. k # hd
        BY <4>1, <1>2, <1>5 DEF Open, IsRecord
      <4> QED BY <4>1, <4>2, <2>1, <2>3, <1>1
    <3>2. Readable(c, hd, hd)
      BY <3>1, <1>2 DEF Readable, Open
    <3>3. hd \in Reached(c, hd)
      <4>1. hd \in Reached(c, 0)
        BY DEF Holds, Sealed
      <4>2. hd <= Len(c) + 1
        BY <1>1
      <4> QED BY <4>1, <4>2, <1>1, ReachedAgrees
    <3>4. k <= hd + Claimed(c, hd, hd) /\ Claimed(c, hd, hd) \in Int
      <4>1. c[hd].nRec = 0 \/ c[hd].nRec = end - hd
        BY <1>2, <3>1 DEF Open
      <4>2. k <= end /\ k > hd /\ end <= Len(c)
        BY <3>1, <2>1, <1>1
      <4>3. CASE c[hd].nRec = 0
        <5>1. Claimed(c, hd, hd) = Len(c) - hd
          BY <4>3 DEF Claimed
        <5> QED BY <5>1, <4>2, <2>1, <1>1
      <4>4. CASE c[hd].nRec = end - hd
        <5>1. end - hd # 0 /\ end - hd # -1
          BY <4>2, <2>1, <1>1
        <5>2. Claimed(c, hd, hd) = end - hd
          BY <4>4, <5>1 DEF Claimed
        <5> QED BY <5>2, <4>2, <2>1, <1>1
      <4> QED BY <4>1, <4>3, <4>4
    <3>5. ASSUME NEW r \in hd + 1..k
          PROVE  Good(c, hd, r)
      <4>1. r \in hd + 1..end /\ r \in DOMAIN c
        BY <3>1, <2>1, <1>1
      <4> QED BY <4>1, <1>2, <3>1 DEF Open, Good, IsRecord
    <3>6. c[k].pg <= c[1].size
      BY <1>3, <1>5 DEF Holds
    <3>7. k \in hd + 1..hd + Claimed(c, hd, hd)
      BY <3>1, <3>4, <2>1, <1>1
    <3> QED BY <2>1, <3>2, <3>3, <3>5, <3>6, <3>7, ReplayedAs DEF RecordsOf
  <2> QED BY <2>1, <2>2, <2>3, <1>1
<1>6. Replayed(c, hd) = {k \in 1..end : IsRecord(c[k])}
  BY <1>4, <1>5
<1> QED BY <1>3, <1>6

-----------------------------------------------------------------------------
(* Changes of a journal.                                                   *)

(* A rollback that restores O from all the file may hold restores it from  *)
(* part of that.                                                           *)
LEMMA FewerMay ==
  ASSUME NEW m, NEW m2, \A p \in Pages : m2[p] \subseteq m[p] /\ m2[p] # {},
         NEW j, NEW O, Gives(m, j, O)
  PROVE  Gives(m2, j, O)
<1>1. \A p \in Pages : m[p] = {O[p]} => m2[p] = {O[p]}
  <2> SUFFICES ASSUME NEW p \in Pages, m[p] = {O[p]} PROVE m2[p] = {O[p]}
    OBVIOUS
  <2>1. m2[p] \subseteq {O[p]} /\ m2[p] # {}
    OBVIOUS
  <2> QED BY <2>1
<1>2. CASE Hot(j) /\ Readable(j.now, 1, 0)
  <2>1. Contents(O, j.now[1].size)
    BY <1>2 DEF Gives
  <2>2. \A p \in 1..j.now[1].size : p \in Pages
    BY <2>1, PagerAssumption DEF Contents, Pages
  <2> QED BY <1>1, <1>2, <2>2 DEF Gives
<1>3. CASE ~ (Hot(j) /\ Readable(j.now, 1, 0))
  BY <1>1, <1>3 DEF Gives, AllAre
<1> QED BY <1>2, <1>3

(* A journal without records of a later checksum than the bound has none   *)
(* later than a greater bound.                                             *)
LEMMA CleanLonger ==
  ASSUME NEW j, NEW b \in Int, NEW b2 \in Int, b <= b2, Clean(j, b)
  PROVE  Clean(j, b2)
<1>1. Filed(j) /\ Older(j, b)
  BY DEF Clean, FileOK
<1>2. Older(j, b2)
  <2> SUFFICES ASSUME NEW i \in 1..Len(j.now), NEW c \in j.maybe[i], IsRecord(c)
               PROVE  c.cksum < b2
    BY DEF Older
  <2>1. c.cksum < b
    BY <1>1 DEF Older
  <2>2. c \in Cells
    BY <1>1 DEF Filed
  <2>3. c.cksum \in Int
    BY <2>2 DEF Cells, Bad, Headers, Records, IsRecord
  <2> QED BY <2>1, <2>3
<1> QED BY <1>2 DEF Clean

(* A sync leaves a journal clean, and nothing in doubt.                    *)
LEMMA CleanSettled ==
  ASSUME NEW j, NEW b, Clean(j, b), j.exists
  PROVE  Clean(JournalFile(j.now), b) /\ Settl(JournalFile(j.now))
<1> DEFINE k == JournalFile(j.now)
<1>1. Filed(j) /\ Len(j.now) > 0 /\ Older(j, b)
  BY DEF Clean, FileOK
<1>2. j.now \in Seq(Cells) /\ Len(j.now) \in Nat /\ \A i \in 1..Len(j.now) : j.now[i] \in j.maybe[i]
  BY <1>1 DEF Filed
<1>3. Filed(k) /\ k.exists /\ k.now = j.now /\ \A i \in 1..Len(j.now) : k.maybe[i] = {j.now[i]}
  BY <1>2, SettledFile DEF Settl
<1> HIDE DEF k
<1>4. Older(k, b)
  BY <1>1, <1>2, <1>3 DEF Older
<1>5. 1 \in 1..Len(j.now)
  BY <1>1, <1>2
<1>6. (\E c \in k.maybe[1] : Cold(c)) => NoHeaderAfter(k, 1)
  <2>1. SUFFICES ASSUME Cold(j.now[1]) PROVE NoHeaderAfter(k, 1)
    BY <1>3, <1>5
  <2>2. NoHeaderAfter(j, 1)
    BY <2>1, <1>2, <1>5 DEF Clean
  <2>3. \A i \in 2..Len(j.now) : i \in 1..Len(j.now)
    BY <1>2
  <2> QED BY <2>2, <2>3, <1>2, <1>3 DEF NoHeaderAfter
<1>7. Cold(k.now[1]) => \A c \in k.maybe[1] : ~IsHeader(c)
  BY <1>3, <1>5 DEF Cold, IsHeader
<1>8. Settl(k)
  BY <1>3 DEF Settl
<1> QED BY <1>1, <1>3, <1>4, <1>6, <1>7, <1>8 DEF Clean, FileOK, k

(* What a transaction writes is a journal as any other.                    *)
LEMMA HoldsClean ==
  ASSUME NEW j, Filed(j), NEW hd, NEW end, NEW size, NEW O, Holds(j, hd, end, size, O),
         NEW b, Older(j, b)
  PROVE  Clean(j, b)
<1>1. /\ hd \in Nat /\ end \in 1..Len(j.now) /\ Len(j.now) \in Nat /\ hd <= end + 1 /\ hd >= 1
      /\ j.exists
  BY DEF Holds, Filed
<1>2. CASE hd = 1
  <2>1. Open(j, hd, end, size)
    BY <1>1, <1>2 DEF Holds
  <2>2. NoHeaderAfter(j, 1)
    <3> SUFFICES ASSUME NEW k \in 2..Len(j.now), NEW c \in j.maybe[k] PROVE c.kind # "hdr"
      BY DEF NoHeaderAfter
    <3>1. CASE k <= end
      <4>1. k \in hd + 1..end
        BY <1>1, <1>2, <3>1
      <4> QED BY <4>1, <2>1 DEF Open
    <3>2. CASE k > end
      <4>1. k \in end + 1..Len(j.now)
        BY <1>1, <3>2
      <4> QED BY <4>1 DEF Holds, NoHeaderAfter
    <3> QED BY <1>1, <3>1, <3>2
  <2>3. Cold(j.now[1]) => \A c \in j.maybe[1] : ~IsHeader(c)
    BY <1>2, <2>1 DEF Open, Cold, IsHeader
  <2> QED BY <1>1, <2>2, <2>3 DEF Clean, FileOK
<1>3. CASE hd > 1
  <2>1. 1 \in 1..hd - 1
    BY <1>1, <1>3
  <2>2. j.maybe[1] = {j.now[1]} /\ IsHeader(j.now[1])
    BY <1>3, <2>1 DEF Holds, Sealed
  <2> QED BY <1>1, <2>2 DEF Clean, FileOK, Cold, IsHeader
<1> QED BY <1>1, <1>2, <1>3

(* What is written from the header on leaves the part before it sealed.    *)
LEMMA SealedKept ==
  ASSUME NEW j, Filed(j), NEW hd, NEW end, NEW size, NEW O, Holds(j, hd, end, size, O),
         NEW k, Filed(k), hd <= Len(k.now) + 1,
         \A i \in 1..hd - 1 : k.now[i] = j.now[i] /\ k.maybe[i] = j.maybe[i]
  PROVE  Sealed(k, hd, size)
<1>1. /\ hd \in Nat /\ end \in 1..Len(j.now) /\ Len(j.now) \in Nat /\ hd <= end + 1 /\ hd >= 1
      /\ j.now \in Seq(Cells) /\ k.now \in Seq(Cells) /\ Len(k.now) \in Nat
  BY DEF Holds, Filed
<1>2. hd \in Reached(k.now, 0)
  <2>1. hd \in Reached(j.now, 0) /\ hd <= Len(j.now) + 1 /\ hd <= hd
    BY <1>1 DEF Holds, Sealed
  <2>2. \A i \in 1..hd - 1 : j.now[i] = k.now[i]
    OBVIOUS
  <2> QED BY <1>1, <2>1, <2>2, ReachedAgrees
<1>3. ASSUME NEW i \in 1..hd - 1
      PROVE  /\ k.maybe[i] = {k.now[i]}
             /\ k.now[i].kind = "hdr" => i + k.now[i].nRec < hd
             /\ IsRecord(k.now[i]) => i \in Replayed(k.now, 0)
  <2>1. /\ j.maybe[i] = {j.now[i]}
        /\ j.now[i].kind = "hdr" => i + j.now[i].nRec < hd
    BY DEF Holds, Sealed
  <2>2. ASSUME IsRecord(j.now[i]) PROVE i \in Replayed(k.now, 0)
    <3>1. \A r \in 1..hd - 1 : k.now[r] = j.now[r]
      OBVIOUS
    <3> QED BY <1>1, <2>2, <3>1, SealedReplayed
  <2> QED BY <2>1, <2>2
<1>4. hd > 1 => IsHeader(k.now[1]) /\ k.now[1].size = size
  <2>1. hd > 1 => 1 \in 1..hd - 1
    BY <1>1
  <2> QED BY <2>1 DEF Holds, Sealed
<1> QED BY <1>2, <1>3, <1>4 DEF Sealed

(* The records of a header that was synced are part of what is.            *)
LEMMA SealedFurther ==
  ASSUME NEW j, Filed(j), NEW hd, NEW end, NEW size, NEW O, Holds(j, hd, end, size, O),
         hd <= end, j.now[hd].magic, Settl(j),
         NEW k, Filed(k), end <= Len(k.now),
         \A i \in 1..end : k.now[i] = j.now[i] /\ k.maybe[i] = j.maybe[i]
  PROVE  Sealed(k, end + 1, size)
<1>1. /\ hd \in Nat /\ end \in 1..Len(j.now) /\ Len(j.now) \in Nat /\ hd <= end + 1 /\ hd >= 1
      /\ end \in Nat
      /\ j.now \in Seq(Cells) /\ k.now \in Seq(Cells) /\ Len(k.now) \in Nat
      /\ DOMAIN k.now = 1..Len(k.now)
  BY DEF Holds, Filed
<1>2. Open(j, hd, end, size)
  BY DEF Holds
<1>3. Sealed(k, hd, size)
  <2>1. hd <= Len(k.now) + 1 /\ \A i \in 1..hd - 1 : i \in 1..end
    BY <1>1
  <2> QED BY <2>1, SealedKept
<1>4. /\ hd \in 1..end /\ hd \in DOMAIN k.now /\ k.now[hd] = j.now[hd]
      /\ \A r \in hd + 1..end : r \in 1..end /\ r \in DOMAIN k.now /\ k.now[r] = j.now[r]
  BY <1>1
<1>5. /\ k.now[hd].kind = "hdr" /\ k.now[hd].magic /\ k.now[hd].nRec = end - hd
      /\ Readable(k.now, hd, 0)
  BY <1>2, <1>4 DEF Open, Readable
<1>6. Claimed(k.now, hd, 0) = end - hd
  BY <1>5, <1>1 DEF Claimed
<1>7. \A r \in hd + 1..end : Good(k.now, hd, r)
  BY <1>2, <1>4 DEF Open, Good, IsRecord
<1>8. end + 1 \in Reached(k.now, 0)
  <2>1. hd \in Reached(k.now, 0)
    BY <1>3 DEF Sealed
  <2>2. Leads(k.now, 0, hd, end + 1)
    <3>1. end + 1 = hd + Claimed(k.now, hd, 0) + 1 /\ (end + 1) - 1 = end
      BY <1>1, <1>6
    <3> QED BY <3>1, <1>5, <1>7 DEF Leads
  <2>3. hd \in 1..(end + 1) - 1 /\ end + 1 \in 1..Len(k.now) + 1
    BY <1>1
  <2> QED BY <1>1, <2>1, <2>2, <2>3, ReachedStep
<1>9. k.now[1].size = size /\ IsHeader(k.now[1])
  <2>1. CASE hd = 1
    BY <2>1, <1>2, <1>4, <1>5 DEF Open, IsHeader
  <2>2. CASE hd > 1
    BY <2>2, <1>3 DEF Sealed
  <2> QED BY <2>1, <2>2, <1>1
<1>10. ASSUME NEW i \in 1..end
       PROVE  /\ k.maybe[i] = {k.now[i]}
              /\ k.now[i].kind = "hdr" => i + k.now[i].nRec < end + 1
              /\ IsRecord(k.now[i]) => i \in Replayed(k.now, 0)
  <2>1. i \in 1..Len(j.now) /\ i \in DOMAIN k.now /\ i \in Int
    BY <1>1
  <2>2. k.maybe[i] = {k.now[i]} /\ k.now[i] = j.now[i] /\ k.now[i] \in Cells
    BY <2>1, <1>1 DEF Settl
  <2>3. CASE i < hd
    <3>1. i \in 1..hd - 1
      BY <2>1, <2>3, <1>1
    <3>2. /\ k.now[i].kind = "hdr" => i + k.now[i].nRec < hd
          /\ IsRecord(k.now[i]) => i \in Replayed(k.now, 0)
      BY <3>1, <1>3 DEF Sealed
    <3>3. k.now[i].kind = "hdr" => k.now[i].nRec \in Nat
      BY <2>2 DEF Cells, Bad, Headers, Records
    <3> QED BY <2>1, <2>2, <3>2, <3>3, <1>1
  <2>4. CASE i = hd
    BY <2>2, <2>4, <1>1, <1>5 DEF IsRecord
  <2>5. CASE i > hd
    <3>1. i \in hd + 1..end
      BY <2>1, <2>5, <1>1
    <3>2. IsRecord(k.now[i])
      BY <3>1, <1>2, <2>2 DEF Open
    <3>3. \A r \in hd + 1..i : Good(k.now, hd, r)
      <4>1. \A r \in hd + 1..i : r \in hd + 1..end
        BY <3>1, <1>1
      <4> QED BY <4>1, <1>7
    <3>4. k.now[i].pg <= size
      BY <2>2, <3>2 DEF Holds
    <3>5. i \in hd + 1..hd + Claimed(k.now, hd, 0)
      BY <3>1, <1>1, <1>6
    <3>6. hd \in Reached(k.now, 0)
      BY <1>3 DEF Sealed
    <3>7. i \in Replayed(k.now, 0)
      BY <2>1, <3>3, <3>4, <3>5, <3>6, <1>5, <1>9, ReplayedAs DEF RecordsOf
    <3> QED BY <2>2, <3>2, <3>7 DEF IsRecord
  <2> QED BY <2>1, <2>3, <2>4, <2>5, <1>1
<1>11. (end + 1) - 1 = end
  BY <1>1
<1> QED BY <1>8, <1>9, <1>10, <1>11 DEF Sealed

(* A sync of the journal.                                                  *)
LEMMA HoldsSettled ==
  ASSUME NEW j, Filed(j), NEW hd, NEW end, NEW size, NEW O, Holds(j, hd, end, size, O),
         NEW k, k = JournalFile(j.now)
  PROVE  Holds(k, hd, end, size, O)
<1>1. /\ hd \in Nat /\ end \in 1..Len(j.now) /\ Len(j.now) \in Nat /\ hd <= end + 1 /\ hd >= 1
      /\ j.now \in Seq(Cells) /\ \A i \in 1..Len(j.now) : j.now[i] \in j.maybe[i]
  BY DEF Holds, Filed
<1>2. /\ Filed(k) /\ k.exists /\ k.now = j.now
      /\ \A i \in 1..Len(j.now) : k.maybe[i] = {j.now[i]}
  BY <1>1, SettledFile DEF Settl
<1>3. Sealed(k, hd, size)
  <2>1. hd <= Len(k.now) + 1
    BY <1>1, <1>2
  <2>2. \A i \in 1..hd - 1 : i \in 1..Len(j.now) /\ j.maybe[i] = {j.now[i]}
    BY <1>1 DEF Holds, Sealed
  <2>3. \A i \in 1..hd - 1 : k.now[i] = j.now[i] /\ k.maybe[i] = j.maybe[i]
    BY <1>2, <2>2
  <2> QED BY <1>2, <2>1, <2>3, SealedKept
<1>4. NoHeaderAfter(k, end)
  <2> SUFFICES ASSUME NEW i \in end + 1..Len(j.now) PROVE j.now[i].kind # "hdr"
    BY <1>1, <1>2 DEF NoHeaderAfter
  <2>1. i \in 1..Len(j.now)
    BY <1>1
  <2> QED BY <2>1, <1>1 DEF Holds, NoHeaderAfter
<1>5. ASSUME hd <= end PROVE Open(k, hd, end, size)
  <2>1. Open(j, hd, end, size)
    BY <1>5 DEF Holds
  <2>2. hd \in 1..Len(j.now)
    BY <1>1, <1>5
  <2>3. \A c \in k.maybe[hd] : c = j.now[hd]
    BY <1>2, <2>2
  <2>4. ASSUME NEW i \in hd + 1..end
        PROVE  /\ IsRecord(k.now[i]) /\ k.now[i].cksum = k.now[hd].cksumInit
               /\ \A c \in k.maybe[i] :
                    /\ c.kind # "hdr"
                    /\ IsRecord(c) => c = k.now[i] \/ c.cksum < k.now[hd].cksumInit
    <3>1. i \in 1..Len(j.now)
      BY <1>1
    <3> QED BY <3>1, <1>2, <2>1 DEF Open, IsRecord
  <2>5. ASSUME NEW i \in end + 1..Len(k.now), NEW c \in k.maybe[i], IsRecord(c)
        PROVE  c.cksum < k.now[hd].cksumInit
    <3>1. i \in 1..Len(j.now) /\ i \in end + 1..Len(j.now)
      BY <1>1, <1>2
    <3>2. c \in j.maybe[i]
      BY <3>1, <1>1, <1>2, <2>5
    <3> QED BY <3>1, <3>2, <1>2, <2>1, <2>5 DEF Open
  <2>6. /\ k.now[hd].kind = "hdr" /\ k.now[hd].size = size
        /\ k.now[hd].nRec = IF k.now[hd].magic THEN end - hd ELSE 0
    BY <1>2, <2>1 DEF Open
  <2> QED BY <1>2, <2>3, <2>4, <2>5, <2>6 DEF Open
<1>6. \A i \in 1..end : IsRecord(k.now[i]) => k.now[i].data = O[k.now[i].pg] /\ k.now[i].pg <= size
  BY <1>2 DEF Holds
<1>7. Contents(O, size) /\ end \in 1..Len(k.now) /\ hd \in 1..end + 1
  BY <1>2 DEF Holds
<1> QED BY <1>2, <1>3, <1>4, <1>5, <1>6, <1>7 DEF Holds

(* One cell is written, of a kind and an age that leaves the rest alone.   *)
LEMMA OlderKept ==
  ASSUME NEW j, Filed(j), NEW i \in 1..Len(j.now) + 1, NEW c \in Cells,
         NEW b \in Int, NEW b2 \in Int, b <= b2, Older(j, b), IsRecord(c) => c.cksum < b2
  PROVE  Older(PutCell(j, i, c), b2)
<1> DEFINE k == PutCell(j, i, c)
<1>1. /\ Filed(k)
      /\ Len(k.now) = (IF i <= Len(j.now) THEN Len(j.now) ELSE i)
      /\ \A d \in k.maybe[i] : d \in {c, Bad} \/ (i <= Len(j.now) /\ d \in j.maybe[i])
      /\ \A m \in 1..Len(k.now) \ {i} :
           m \in 1..Len(j.now) /\ k.now[m] = j.now[m] /\ k.maybe[m] = j.maybe[m]
  BY PutCellIs
<1> HIDE DEF k
<1>2. ASSUME NEW m \in 1..Len(j.now), NEW d \in j.maybe[m], IsRecord(d)
      PROVE  d.cksum < b2
  <2>1. d.cksum < b
    BY <1>2 DEF Older
  <2>2. d \in Cells
    BY <1>2 DEF Filed
  <2>3. d.cksum \in Int
    BY <1>2, <2>2 DEF Cells, Bad, Headers, Records, IsRecord
  <2> QED BY <2>1, <2>3
<1>3. ASSUME NEW m \in 1..Len(k.now), NEW d \in k.maybe[m], IsRecord(d)
      PROVE  d.cksum < b2
  <2>1. CASE m # i
    BY <1>1, <1>2, <1>3, <2>1
  <2>2. CASE m = i
    <3>1. CASE d = c
      BY <3>1, <1>3
    <3>2. CASE d = Bad
      BY <3>2, <1>3 DEF Bad, IsRecord
    <3>3. CASE i <= Len(j.now) /\ d \in j.maybe[i]
      <4>1. i \in 1..Len(j.now)
        BY <3>3 DEF Filed
      <4> QED BY <4>1, <3>3, <1>2, <1>3
    <3> QED BY <2>2, <3>1, <3>2, <3>3, <1>1, <1>3
  <2> QED BY <2>1, <2>2
<1> QED BY <1>3 DEF Older, k

(* A header as writeJournalHdr writes it before its records.               *)
NewHeader(c, b, size) ==
  /\ c \in Headers /\ c.kind = "hdr" /\ c.cksumInit = b /\ c.size = size
  /\ ~c.magic /\ c.nRec = 0

(* What writeJournalHdr puts at the beginning is a header without records. *)
LEMMA NewHeaderIs ==
  ASSUME NEW b \in Int, NEW size \in Nat
  PROVE  NewHeader([kind |-> "hdr", cksumInit |-> b, size |-> size,
                    magic |-> FALSE, nRec |-> 0], b, size)
<1> DEFINE c == [kind |-> "hdr", cksumInit |-> b, size |-> size, magic |-> FALSE, nRec |-> 0]
<1>1. c \in Headers
  BY DEF Headers
<1>2. /\ c.kind = "hdr" /\ c.cksumInit = b /\ c.size = size /\ ~c.magic /\ c.nRec = 0
  OBVIOUS
<1> HIDE DEF c
<1>3. NewHeader(c, b, size)
  BY <1>1, <1>2 DEF NewHeader
<1> QED BY <1>3 DEF c

(* The first header, over what an older journal left.                      *)
LEMMA HoldsOpened ==
  ASSUME NEW j, Filed(j), j.exists, NEW b \in Int, Older(j, b),
         NoHeaderAfter(j, 1),
         Len(j.now) > 0 => \A c \in j.maybe[1] : ~IsHeader(c),
         NEW size, NEW O, Contents(O, size),
         NEW c, NewHeader(c, b, size), NEW k, k = PutCell(j, 1, c)
  PROVE  /\ Filed(k) /\ Holds(k, 1, 1, size, O)
         /\ k.now[1].cksumInit = b /\ ~k.now[1].magic /\ k.now[1].kind = "hdr"
<1>2. c \in Cells /\ c \in Headers
  BY DEF Cells, NewHeader
<1>3. /\ c.kind = "hdr" /\ c.cksumInit = b /\ c.size = size /\ ~c.magic /\ c.nRec = 0
  BY DEF NewHeader
<1>4. Len(j.now) \in Nat /\ 1 \in 1..Len(j.now) + 1
  BY DEF Filed
<1>5. /\ Filed(k)
      /\ k.exists <=> j.exists
      /\ Len(k.now) = (IF 1 <= Len(j.now) THEN Len(j.now) ELSE 1)
      /\ k.now[1] = c
      /\ \A d \in k.maybe[1] : d \in {c, Bad} \/ (1 <= Len(j.now) /\ d \in j.maybe[1])
      /\ \A m \in 1..Len(k.now) \ {1} :
           m \in 1..Len(j.now) /\ k.now[m] = j.now[m] /\ k.maybe[m] = j.maybe[m]
  BY <1>2, <1>4, PutCellIs
<1>6. k.now \in Seq(Cells) /\ Len(k.now) \in Nat /\ 1 \in 1..Len(k.now)
  BY <1>4, <1>5 DEF Filed
<1>7. Sealed(k, 1, size)
  <2>1. 1 \in Reached(k.now, 0)
    BY <1>6, ReachedStep
  <2> QED BY <2>1 DEF Sealed
<1>8. \A m \in 2..Len(k.now) : m \in 1..Len(k.now) \ {1} /\ m \in 2..Len(j.now)
  BY <1>4, <1>5, <1>6
<1>9. NoHeaderAfter(k, 1)
  <2> SUFFICES ASSUME NEW m \in 1 + 1..Len(k.now), NEW d \in k.maybe[m]
               PROVE  d.kind # "hdr"
    BY DEF NoHeaderAfter
  <2>1. m \in 2..Len(k.now)
    OBVIOUS
  <2>2. m \in 1..Len(k.now) \ {1} /\ m \in 1 + 1..Len(j.now)
    BY <2>1, <1>8, SMTT(30)
  <2>3. d \in j.maybe[m]
    BY <2>2, <1>5
  <2> QED BY <2>2, <2>3 DEF NoHeaderAfter
<1>10. \A d \in k.maybe[1] : ~IsHeader(d)
  <2> SUFFICES ASSUME NEW d \in k.maybe[1] PROVE ~IsHeader(d)
    OBVIOUS
  <2>1. CASE d \in {c, Bad}
    BY <2>1, <1>3 DEF IsHeader, Bad
  <2>2. CASE 1 <= Len(j.now) /\ d \in j.maybe[1]
    BY <2>2, <1>4
  <2> QED BY <2>1, <2>2, <1>5
<1>11. ASSUME NEW m \in 2..Len(k.now), NEW d \in k.maybe[m], IsRecord(d)
       PROVE  d.cksum < b
  BY <1>5, <1>8, <1>11 DEF Older
<1>12. Open(k, 1, 1, size)
  <2>1. \A m \in 2..1 : FALSE
    OBVIOUS
  <2>2. 1 + 1 = 2
    OBVIOUS
  <2>3. k.now[1].nRec = IF k.now[1].magic THEN 1 - 1 ELSE 0
    BY <1>3, <1>5
  <2>4. k.now[1].kind = "hdr" /\ k.now[1].size = size /\ k.now[1].cksumInit = b
    BY <1>3, <1>5
  <2> QED BY <2>1, <2>2, <2>3, <2>4, <1>10, <1>11 DEF Open
<1>13. \A i \in 1..1 : ~IsRecord(k.now[i])
  BY <1>3, <1>5 DEF IsRecord
<1> QED BY <1>3, <1>5, <1>6, <1>7, <1>9, <1>12, <1>13 DEF Holds

(* The next record.                                                        *)
LEMMA HoldsAdded ==
  ASSUME NEW j, Filed(j), NEW hd, NEW end, NEW size, NEW O, Holds(j, hd, end, size, O),
         hd <= end, ~j.now[hd].magic,
         NEW r \in Records, r.cksum = j.now[hd].cksumInit, r.data = O[r.pg], r.pg <= size,
         NEW k, k = PutCell(j, end + 1, r)
  PROVE  /\ Filed(k) /\ Holds(k, hd, end + 1, size, O)
         /\ k.now[end + 1] = r /\ \A i \in 1..end : k.now[i] = j.now[i]
<1>1. /\ hd \in Nat /\ end \in 1..Len(j.now) /\ Len(j.now) \in Nat /\ hd >= 1 /\ end \in Nat
      /\ j.exists /\ end + 1 \in 1..Len(j.now) + 1
  BY DEF Holds, Filed
<1>2. r \in Cells /\ IsRecord(r) /\ r.kind = "rec"
  BY DEF Cells, Records, IsRecord
<1>3. /\ Filed(k)
      /\ k.exists <=> j.exists
      /\ Len(k.now) = (IF end + 1 <= Len(j.now) THEN Len(j.now) ELSE end + 1)
      /\ k.now[end + 1] = r
      /\ \A d \in k.maybe[end + 1] :
           d \in {r, Bad} \/ (end + 1 <= Len(j.now) /\ d \in j.maybe[end + 1])
      /\ \A m \in 1..Len(k.now) \ {end + 1} :
           m \in 1..Len(j.now) /\ k.now[m] = j.now[m] /\ k.maybe[m] = j.maybe[m]
  BY <1>1, <1>2, PutCellIs
<1>4. Len(k.now) \in Nat /\ end + 1 \in 1..Len(k.now)
  BY <1>1, <1>3
<1>5. \A i \in 1..end :
        i \in 1..Len(k.now) \ {end + 1} /\ k.now[i] = j.now[i] /\ k.maybe[i] = j.maybe[i]
  <2>1. \A i \in 1..end : i \in 1..Len(k.now) \ {end + 1}
    BY <1>1, <1>4
  <2> QED BY <2>1, <1>3
<1>6. Open(j, hd, end, size)
  BY DEF Holds
<1>7. Sealed(k, hd, size)
  <2>1. hd <= Len(k.now) + 1 /\ \A i \in 1..hd - 1 : i \in 1..end
    BY <1>1, <1>4
  <2> QED BY <1>3, <1>5, <2>1, SealedKept
<1>8. \A m \in end + 2..Len(k.now) :
         m \in end + 1..Len(j.now) /\ k.maybe[m] = j.maybe[m]
  <2>1. \A m \in end + 2..Len(k.now) : m \in 1..Len(k.now) \ {end + 1} /\ m >= end + 1
    BY <1>1, <1>4
  <2> QED BY <2>1, <1>1, <1>3
<1>9. NoHeaderAfter(k, end + 1)
  <2>1. (end + 1) + 1 = end + 2
    BY <1>1
  <2> QED BY <2>1, <1>8 DEF Holds, NoHeaderAfter
<1>10. hd \in 1..end /\ k.now[hd] = j.now[hd] /\ k.maybe[hd] = j.maybe[hd]
  BY <1>1, <1>5
<1>11. ASSUME NEW d \in k.maybe[end + 1]
       PROVE  /\ d.kind # "hdr"
              /\ IsRecord(d) => d = r \/ d.cksum < j.now[hd].cksumInit
  <2>1. CASE d \in {r, Bad}
    BY <2>1, <1>2 DEF Bad, IsRecord
  <2>2. CASE end + 1 <= Len(j.now) /\ d \in j.maybe[end + 1]
    <3>1. end + 1 \in end + 1..Len(j.now)
      BY <2>2, <1>1
    <3> QED BY <3>1, <2>2, <1>6 DEF Holds, NoHeaderAfter, Open
  <2> QED BY <2>1, <2>2, <1>3
<1>12. Open(k, hd, end + 1, size)
  <2>1. /\ k.now[hd].kind = "hdr" /\ k.now[hd].size = size
        /\ k.now[hd].nRec = 0 /\ ~k.now[hd].magic
        /\ \A c \in k.maybe[hd] : IsHeader(c) => c = k.now[hd]
    BY <1>6, <1>10 DEF Open
  <2>2. ASSUME NEW m \in hd + 1..end + 1
        PROVE  /\ IsRecord(k.now[m]) /\ k.now[m].cksum = k.now[hd].cksumInit
               /\ \A c \in k.maybe[m] :
                    /\ c.kind # "hdr"
                    /\ IsRecord(c) => c = k.now[m] \/ c.cksum < k.now[hd].cksumInit
    <3>1. CASE m = end + 1
      BY <3>1, <1>2, <1>3, <1>10, <1>11
    <3>2. CASE m # end + 1
      <4>1. m \in hd + 1..end /\ m \in 1..end
        BY <3>2, <1>1
      <4> QED BY <4>1, <1>5, <1>6, <1>10 DEF Open
    <3> QED BY <3>1, <3>2
  <2>3. ASSUME NEW m \in (end + 1) + 1..Len(k.now), NEW c \in k.maybe[m], IsRecord(c)
        PROVE  c.cksum < k.now[hd].cksumInit
    <3>1. m \in end + 2..Len(k.now)
      BY <1>1, <1>4
    <3> QED BY <3>1, <1>6, <1>8, <1>10, <2>3 DEF Open
  <2> QED BY <2>1, <2>2, <2>3 DEF Open
<1>13. \A i \in 1..end + 1 : IsRecord(k.now[i]) =>
          k.now[i].data = O[k.now[i].pg] /\ k.now[i].pg <= size
  <2> SUFFICES ASSUME NEW i \in 1..end + 1, IsRecord(k.now[i])
               PROVE  k.now[i].data = O[k.now[i].pg] /\ k.now[i].pg <= size
    OBVIOUS
  <2>1. CASE i = end + 1
    BY <2>1, <1>3
  <2>2. CASE i # end + 1
    <3>1. i \in 1..end
      BY <2>2, <1>1
    <3> QED BY <3>1, <1>5 DEF Holds
  <2> QED BY <2>1, <2>2
<1>14. Contents(O, size) /\ hd \in 1..(end + 1) + 1
  BY <1>1 DEF Holds
<1> QED BY <1>1, <1>3, <1>4, <1>5, <1>7, <1>9, <1>12, <1>13, <1>14 DEF Holds

(* The header counts, with its records.                                    *)
LEMMA HoldsCounted ==
  ASSUME NEW j, Filed(j), NEW hd, NEW end, NEW size, NEW O, Holds(j, hd, end, size, O),
         hd <= end, ~j.now[hd].magic,
         NEW k, k = PutCell(j, hd, Counted(j.now[hd], end - hd))
  PROVE  /\ Filed(k) /\ Holds(k, hd, end, size, O)
         /\ k.now[hd].magic /\ k.now[hd].cksumInit = j.now[hd].cksumInit
         /\ k.now[hd].kind = "hdr"
         /\ Len(k.now) = Len(j.now)
         /\ \A i \in 1..Len(j.now) \ {hd} : k.now[i] = j.now[i]
<1> DEFINE c == Counted(j.now[hd], end - hd)
<1>1. /\ hd \in Nat /\ end \in 1..Len(j.now) /\ Len(j.now) \in Nat /\ hd >= 1 /\ end \in Nat
      /\ j.exists /\ hd \in 1..Len(j.now) /\ hd \in 1..Len(j.now) + 1 /\ end - hd \in Nat
      /\ j.now[hd] \in Cells
  BY DEF Holds, Filed
<1>2. Open(j, hd, end, size)
  BY DEF Holds
<1>3. j.now[hd] \in Headers
  BY <1>1, <1>2 DEF Open, Cells, Bad, Records
<1>4. /\ c.kind = "hdr" /\ c.cksumInit = j.now[hd].cksumInit /\ c.size = size
      /\ c.magic /\ c.nRec = end - hd
  BY <1>2 DEF Counted, Open
<1>5. c \in Headers /\ c \in Cells
  BY <1>1, <1>3 DEF Counted, Headers, Cells
<1>6. k = PutCell(j, hd, c)
  OBVIOUS
<1> HIDE DEF c
<1>7. /\ Filed(k)
      /\ k.exists <=> j.exists
      /\ Len(k.now) = Len(j.now)
      /\ k.now[hd] = c
      /\ \A d \in k.maybe[hd] : d \in {c, Bad} \/ d \in j.maybe[hd]
      /\ \A m \in 1..Len(j.now) \ {hd} : k.now[m] = j.now[m] /\ k.maybe[m] = j.maybe[m]
  BY <1>1, <1>5, <1>6, PutCellIs
<1>8. Sealed(k, hd, size)
  <2>1. hd <= Len(k.now) + 1 /\ \A i \in 1..hd - 1 : i \in 1..Len(j.now) \ {hd}
    BY <1>1, <1>7
  <2> QED BY <1>7, <2>1, SealedKept
<1>9. NoHeaderAfter(k, end)
  <2>1. \A m \in end + 1..Len(j.now) : m \in 1..Len(j.now) \ {hd}
    BY <1>1
  <2> QED BY <2>1, <1>7 DEF Holds, NoHeaderAfter
<1>10. Open(k, hd, end, size)
  <2>1. ASSUME NEW d \in k.maybe[hd], IsHeader(d) PROVE d = c
    BY <1>2, <1>7, <2>1 DEF Open, IsHeader, Bad
  <2>2. /\ \A m \in hd + 1..end : m \in 1..Len(j.now) \ {hd}
        /\ \A m \in end + 1..Len(j.now) : m \in 1..Len(j.now) \ {hd}
    BY <1>1
  <2> QED BY <2>1, <2>2, <1>2, <1>4, <1>7 DEF Open
<1>11. \A i \in 1..end : IsRecord(k.now[i]) =>
          k.now[i].data = O[k.now[i].pg] /\ k.now[i].pg <= size
  <2> SUFFICES ASSUME NEW i \in 1..end, IsRecord(k.now[i])
               PROVE  k.now[i].data = O[k.now[i].pg] /\ k.now[i].pg <= size
    OBVIOUS
  <2>1. CASE i = hd
    BY <2>1, <1>4, <1>7 DEF IsRecord
  <2>2. CASE i # hd
    <3>1. i \in 1..Len(j.now) \ {hd}
      BY <2>2, <1>1
    <3> QED BY <3>1, <1>7 DEF Holds
  <2> QED BY <2>1, <2>2
<1>12. Contents(O, size) /\ end \in 1..Len(k.now) /\ hd \in 1..end + 1
  BY <1>7 DEF Holds
<1> QED BY <1>1, <1>4, <1>7, <1>8, <1>9, <1>10, <1>11, <1>12 DEF Holds

(* A new header after the records of one that was synced; or none, but the *)
(* end of the records.                                                     *)
LEMMA HoldsNext ==
  ASSUME NEW j, Filed(j), NEW hd, NEW end, NEW size, NEW O, Holds(j, hd, end, size, O),
         hd <= end, j.now[hd].magic, Settl(j)
  PROVE  /\ Holds(j, end + 1, end, size, O)
         /\ \A b \in Int : \A c, k :
              Older(j, b) /\ NewHeader(c, b, size) /\ k = PutCell(j, end + 1, c)
              => /\ Filed(k) /\ Holds(k, end + 1, end + 1, size, O)
                 /\ k.now[end + 1].cksumInit = b /\ ~k.now[end + 1].magic
                 /\ k.now[end + 1].kind = "hdr"
                 /\ \A i \in 1..end : k.now[i] = j.now[i]
<1>1. /\ hd \in Nat /\ end \in 1..Len(j.now) /\ Len(j.now) \in Nat /\ hd >= 1 /\ end \in Nat
      /\ j.exists /\ end + 1 \in 1..Len(j.now) + 1 /\ size \in Nat
  BY PagerAssumption DEF Holds, Filed, Contents
<1>2. Holds(j, end + 1, end, size, O)
  <2>1. Sealed(j, end + 1, size)
    BY <1>1, SealedFurther
  <2>2. ~ (end + 1 <= end) /\ end + 1 \in 1..end + 1
    BY <1>1
  <2> QED BY <2>1, <2>2 DEF Holds
<1>3. ASSUME NEW b \in Int, NEW c, NEW k, Older(j, b), NewHeader(c, b, size),
             k = PutCell(j, end + 1, c)
      PROVE  /\ Filed(k) /\ Holds(k, end + 1, end + 1, size, O)
             /\ k.now[end + 1].cksumInit = b /\ ~k.now[end + 1].magic
             /\ k.now[end + 1].kind = "hdr"
             /\ \A i \in 1..end : k.now[i] = j.now[i]
  <2>1. c \in Cells /\ c \in Headers
    BY <1>3 DEF Cells, NewHeader
  <2>2. /\ c.kind = "hdr" /\ c.cksumInit = b /\ c.size = size /\ ~c.magic /\ c.nRec = 0
    BY <1>3 DEF NewHeader
  <2>3. k = PutCell(j, end + 1, c)
    BY <1>3
  <2>4. /\ Filed(k)
        /\ k.exists <=> j.exists
        /\ Len(k.now) = (IF end + 1 <= Len(j.now) THEN Len(j.now) ELSE end + 1)
        /\ k.now[end + 1] = c
        /\ \A d \in k.maybe[end + 1] :
             d \in {c, Bad} \/ (end + 1 <= Len(j.now) /\ d \in j.maybe[end + 1])
        /\ \A m \in 1..Len(k.now) \ {end + 1} :
             m \in 1..Len(j.now) /\ k.now[m] = j.now[m] /\ k.maybe[m] = j.maybe[m]
    BY <1>1, <2>1, <2>3, PutCellIs
  <2>5. Len(k.now) \in Nat /\ end + 1 \in 1..Len(k.now) /\ end <= Len(k.now)
    BY <1>1, <2>4
  <2>6. \A i \in 1..end :
          i \in 1..Len(k.now) \ {end + 1} /\ k.now[i] = j.now[i] /\ k.maybe[i] = j.maybe[i]
    <3>1. \A i \in 1..end : i \in 1..Len(k.now) \ {end + 1}
      BY <1>1, <2>5
    <3> QED BY <3>1, <2>4
  <2>7. Sealed(k, end + 1, size)
    BY <1>1, <2>4, <2>5, <2>6, SealedFurther
  <2>8. \A m \in end + 2..Len(k.now) :
           m \in end + 1..Len(j.now) /\ m \in 1..Len(j.now) /\ k.maybe[m] = j.maybe[m]
    <3>1. \A m \in end + 2..Len(k.now) : m \in 1..Len(k.now) \ {end + 1} /\ m >= end + 1
      BY <1>1, <2>5
    <3> QED BY <3>1, <1>1, <2>4
  <2>9. (end + 1) + 1 = end + 2
    BY <1>1
  <2>10. NoHeaderAfter(k, end + 1)
    BY <2>8, <2>9 DEF Holds, NoHeaderAfter
  <2>11. ASSUME NEW d \in k.maybe[end + 1] PROVE ~IsHeader(d)
    <3>1. CASE d \in {c, Bad}
      BY <3>1, <2>2 DEF IsHeader, Bad
    <3>2. CASE end + 1 <= Len(j.now) /\ d \in j.maybe[end + 1]
      <4>1. end + 1 \in end + 1..Len(j.now)
        BY <3>2, <1>1
      <4> QED BY <4>1, <3>2 DEF Holds, NoHeaderAfter, IsHeader
    <3> QED BY <3>1, <3>2, <2>4
  <2>12. Open(k, end + 1, end + 1, size)
    <3>1. \A m \in (end + 1) + 1..end + 1 : FALSE
      BY <1>1
    <3>2. \A m \in (end + 1) + 1..Len(k.now) : \A d \in k.maybe[m] : IsRecord(d) => d.cksum < b
      BY <2>8, <2>9, <1>3 DEF Older
    <3> QED BY <2>2, <2>4, <2>11, <3>1, <3>2 DEF Open
  <2>13. \A i \in 1..end + 1 : IsRecord(k.now[i]) =>
            k.now[i].data = O[k.now[i].pg] /\ k.now[i].pg <= size
    <3> SUFFICES ASSUME NEW i \in 1..end + 1, IsRecord(k.now[i])
                 PROVE  k.now[i].data = O[k.now[i].pg] /\ k.now[i].pg <= size
      OBVIOUS
    <3>1. i # end + 1
      BY <2>2, <2>4 DEF IsRecord
    <3>2. i \in 1..end
      BY <3>1, <1>1
    <3> QED BY <3>2, <2>6 DEF Holds
  <2>14. Contents(O, size) /\ end + 1 \in 1..(end + 1) + 1
    BY <1>1 DEF Holds
  <2> QED BY <1>1, <2>2, <2>4, <2>5, <2>6, <2>7, <2>10, <2>12, <2>13, <2>14 DEF Holds
<1> QED BY <1>2, <1>3

-----------------------------------------------------------------------------
(* Steps of the pager.                                                     *)

(* What the pager is doing follows from its state and from the function in *)
(* progress.                                                               *)
LEMMA WhichProcess ==
  ASSUME NEW O, Typed, Process(O)
  PROVE  /\ pager.eState = "OPEN" /\ pc = Idle => pager = Closed
         /\ pager.eState \in {"READER", "WRITER_LOCKED"} => Reader(O)
         /\ Changed /\ pc = Idle => Underway(O)
         /\ pc.goal \in {"spill", "commit"} /\ pc.step # "endsync" => Underway(O)
         /\ pc.goal = "rollback" /\ pc.step # "endsync" => RollingBack(O)
         /\ pc.goal = "recover" /\ pc.step # "endsync" => Recovering(O)
         /\ pc.step = "endsync" => Ending(O)
         /\ pc.goal = "none" => pc = Idle
<1>1. pager = Closed => pager.eState = "OPEN"
  BY DEF Closed
<1>2. pc = Idle => pc.goal = "none" /\ pc.step = "none"
  BY DEF Idle
<1>3. Underway(O) \/ RollingBack(O)
        => pager.eState \in {"WRITER_CACHEMOD", "WRITER_DBMOD", "WRITER_FINISHED"}
  BY DEF Underway, RollingBack, Journalled
<1>4. Reader(O) => pc = Idle /\ pager.eState \in {"READER", "WRITER_LOCKED"}
  BY DEF Reader
<1>5. Underway(O) => \/ pc = Idle
                     \/ pc.goal \in {"spill", "commit"} /\ pc.step # "endsync"
  BY DEF Underway
<1>6. RollingBack(O) => pc.goal = "rollback" /\ pc.step # "endsync"
  BY DEF RollingBack
<1>7. Recovering(O) => pc.goal = "recover" /\ pc.step # "endsync" /\ pager = Closed
  BY DEF Recovering
<1>8. Ending(O) => /\ pc.step = "endsync" /\ pc.goal \in {"commit", "rollback", "recover"}
                   /\ \/ pager = Closed
                      \/ pager.eState \in {"WRITER_CACHEMOD", "WRITER_DBMOD", "WRITER_FINISHED"}
  BY DEF Ending
<1> QED BY <1>1, <1>2, <1>3, <1>4, <1>5, <1>6, <1>7, <1>8 DEF Process, Changed

(* A step of a pager function goes to the step named.                      *)
LEMMA AtStep ==
  ASSUME pc \in Pcs, NEW s \in Steps, At(s)
  PROVE  pc' \in Pcs /\ pc'.step = s /\ pc'.goal = pc.goal /\ pc'.page = pc.page
BY DEF At, Pcs

(* The steps of the pager's functions.                                     *)
LEMMA StepsAre ==
  \A s \in {"none", "hotsync", "truncate", "play", "syncJournal", "zero", "sync1", "nrec",
            "sync2", "header", "page", "dbsync", "end", "endsync"} : s \in Steps
BY DEF Steps

(* Conditions of the settings, and what a step leaves of the rest.         *)
LEMMA SettingKept ==
  ASSUME Typed, UNCHANGED setting
  PROVE  /\ setting' \in Settings /\ setting' = setting
         /\ deletes /\ deletes' /\ ~noSync /\ ~noSync'
         /\ setting.writes \in 0..MaxWrites /\ setting.failures \in Nat
<1>1. setting \in Setting
  BY PagerAssumption DEF Typed
<1>2. setting.writes \in 0..MaxWrites /\ setting.failures \in Nat
  BY <1>1 DEF Setting
<1> QED BY <1>2 DEF Typed, deletes, noSync

(* A pager that holds no lock has nothing in its cache.                    *)
LEMMA ClosedIs ==
  /\ Closed \in Pagers /\ Closed.cache \in Image
  /\ Closed.eState = "OPEN"
  /\ Closed.dirty = {} /\ Closed.needSync = {} /\ Closed.inJournal = {} /\ Closed.nRec = 0
<1>1. [p \in Pages |-> Absent] \in [Pages -> Int] /\ [p \in Pages |-> Absent] \in Image
  BY PagerAssumption DEF Absent, Image
<1>2. /\ Closed.eState = "OPEN" /\ Closed.cache = [p \in Pages |-> Absent]
      /\ Closed.dirty = {} /\ Closed.needSync = {} /\ Closed.inJournal = {} /\ Closed.nRec = 0
  BY DEF Closed
<1>3. Closed \in Pagers
  BY <1>1 DEF Closed, Pagers, States
<1> QED BY <1>1, <1>2, <1>3

(* A record of the pager with one more field changed.                      *)
LEMMA PagerWith ==
  ASSUME NEW q \in Pagers
  PROVE  /\ \A s \in States : [q EXCEPT !.eState = s] \in Pagers
         /\ \A c \in [Pages -> Int] : [q EXCEPT !.cache = c] \in Pagers
         /\ \A d \in SUBSET Pages :
              /\ [q EXCEPT !.dirty = d] \in Pagers /\ [q EXCEPT !.needSync = d] \in Pagers
              /\ [q EXCEPT !.inJournal = d] \in Pagers
         /\ \A n \in Nat :
              /\ [q EXCEPT !.nRec = n] \in Pagers /\ [q EXCEPT !.journalHdr = n] \in Pagers
              /\ [q EXCEPT !.journalOff = n] \in Pagers
              /\ [q EXCEPT !.dbOrigSize = n] \in Pagers
BY DEF Pagers

(* A pager with a shared lock has what it read, and has changed nothing.   *)
LEMMA ReadingIs ==
  ASSUME NEW img \in Transactions
  PROVE  /\ Reading(img) \in Pagers /\ Reading(img).cache = img /\ img \in Image
         /\ Reading(img).eState = "READER"
         /\ Reading(img).dirty = {} /\ Reading(img).needSync = {}
         /\ Reading(img).inJournal = {} /\ Reading(img).nRec = 0
<1>1. img \in [Pages -> Int] /\ img \in Image
  BY PagerAssumption DEF Image, Transactions
<1> DEFINE q == [Closed EXCEPT !.eState = "READER"]
<1>2. q \in Pagers
  BY ClosedIs, PagerWith DEF States
<1>3. Reading(img) = [q EXCEPT !.cache = img]
  BY DEF Reading
<1> HIDE DEF q
<1>4. Reading(img) \in Pagers
  BY <1>1, <1>2, <1>3, PagerWith
<1>5. /\ Reading(img).cache = img /\ Reading(img).eState = "READER"
      /\ Reading(img).dirty = Closed.dirty /\ Reading(img).needSync = Closed.needSync
      /\ Reading(img).inJournal = Closed.inJournal /\ Reading(img).nRec = Closed.nRec
  BY ClosedIs DEF Reading, Pagers
<1> QED BY <1>1, <1>4, <1>5, ClosedIs

(* No pager function in progress.                                          *)
LEMMA IdleIs == Idle \in Pcs /\ Idle.goal = "none" /\ Idle.step = "none"
BY DEF Idle, Pcs, Goals, Steps

(* The contents of a whole file are those of a transaction.                *)
LEMMA WholeIs ==
  ASSUME NEW O, Whole(O)
  PROVE  O \in Transactions
BY DEF Whole, Contents, Transactions

(* The file as it is read when it can only be found to hold O.             *)
LEMMA AllAreNow ==
  ASSUME NEW d, DbOK(d), NEW O \in Transactions, AllAre(d.maybe, O)
  PROVE  d.now = O
<1>1. \A p \in Pages : d.now[p] = O[p]
  BY DEF DbOK, AllAre
<1>2. d.now = [p \in Pages |-> d.now[p]] /\ O = [p \in Pages |-> O[p]]
  BY DEF DbOK, Transactions
<1> QED BY <1>1, <1>2

(* Without a hot journal, the file itself is what is restored.             *)
LEMMA NotHot ==
  ASSUME NEW m, NEW j, Filed(j), NEW O, ~Hot(j), \A k \in Possible(j) : Gives(m, k, O)
  PROVE  AllAre(m, O)
<1>1. CASE j.exists
  <2> DEFINE k == JournalFile(j.now)
  <2>1. k \in Possible(j) /\ k.now = j.now /\ k.exists
    BY <1>1, PossibleAre DEF JournalFile
  <2> HIDE DEF k
  <2>2. ~Hot(k)
    BY <2>1, <1>1 DEF Hot
  <2>3. Gives(m, k, O)
    BY <2>1
  <2> QED BY <2>2, <2>3 DEF Gives
<1>2. CASE ~j.exists
  <2>1. Gives(m, NoJournal, O) /\ ~Hot(NoJournal)
    BY <1>2 DEF Possible, Hot, NoJournal
  <2> QED BY <2>1 DEF Gives
<1> QED BY <1>1, <1>2

(* sqlite3PagerSharedLock: a hot journal is rolled back before anything is *)
(* read.                                                                   *)
LEMMA SharedLockKeeps ==
  ASSUME NEW O \in Transactions, Typed, Disk(O), Process(O), SharedLock, UNCHANGED setting
  PROVE  Kept(O)'
<1>1. /\ pager = Closed /\ pc = Idle
      /\ UNCHANGED <<db, journal, ghosts, safe, writes, failures>>
  BY WhichProcess DEF SharedLock
<1>2. Disk(O)'
  BY <1>1 DEF Disk
<1>3. CASE Hot(journal)
  <2>1. pc' = [goal |-> "recover", step |-> "hotsync", page |-> 1] /\ pager' = pager
    BY <1>3 DEF SharedLock
  <2>2. pc' \in Pcs /\ pc'.goal = "recover" /\ pc'.step = "hotsync" /\ pc'.page = 1
    BY <2>1 DEF Pcs, Goals, Steps
  <2>3. Typed'
    BY <1>1, <2>1, <2>2, SettingKept DEF Typed
  <2>4. Recovering(O)'
    BY <1>1, <1>3, <2>1, <2>2 DEF Recovering
  <2> QED BY <1>2, <2>3, <2>4 DEF Kept, Process
<1>4. CASE ~Hot(journal)
  <2>1. pager' = Reading(db.now) /\ pc' = pc
    BY <1>4 DEF SharedLock
  <2>2. AllAre(db.maybe, O) /\ db.now = O
    <3>1. Filed(journal) /\ \A k \in Possible(journal) : Gives(db.maybe, k, O)
      BY DEF Disk, Clean, FileOK
    <3>2. AllAre(db.maybe, O)
      BY <1>4, <3>1, NotHot
    <3> QED BY <3>2, AllAreNow DEF Disk
  <2>3. Reader(O)'
    BY <1>1, <1>4, <2>1, <2>2, ReadingIs DEF Reader, Unused
  <2>4. Typed'
    BY <1>1, <2>1, <2>2, ReadingIs, SettingKept DEF Typed
  <2> QED BY <1>2, <2>3, <2>4 DEF Kept, Process
<1> QED BY <1>3, <1>4

(* pager_unlock, of a reader.                                              *)
LEMMA UnlockKeeps ==
  ASSUME NEW O \in Transactions, Typed, Disk(O), Process(O), Unlock, UNCHANGED setting
  PROVE  Kept(O)'
<1>1. /\ pager' = Closed /\ pc = Idle
      /\ UNCHANGED <<db, journal, ghosts, pc, safe, writes, failures>>
  BY DEF Unlock
<1>2. Disk(O)'
  BY <1>1 DEF Disk
<1>3. Typed'
  BY <1>1, ClosedIs, SettingKept DEF Typed
<1>4. (pager = Closed /\ pc = Idle)'
  BY <1>1 DEF Closed, Idle
<1> QED BY <1>2, <1>3, <1>4 DEF Kept, Process

(* What a process that dies, or an error, leaves behind is a journal that  *)
(* restores O.                                                             *)
LEMMA FailKeeps ==
  ASSUME NEW O \in Transactions, Typed, Disk(O), Process(O), Fail, UNCHANGED setting
  PROVE  Kept(O)'
<1>1. /\ pager' = Closed /\ pc' = Idle /\ failures' = failures + 1 /\ failures < setting.failures
      /\ UNCHANGED <<db, journal, ghosts, safe, writes>>
  BY DEF Fail
<1>2. Disk(O)'
  BY <1>1 DEF Disk
<1>3. Typed'
  BY <1>1, ClosedIs, IdleIs, SettingKept DEF Typed
<1>4. (pager = Closed /\ pc = Idle)'
  BY <1>1 DEF Closed, Idle
<1> QED BY <1>2, <1>3, <1>4 DEF Kept, Process

(* Pages are counted from the first to the last.                           *)
LEMMA SizeIs ==
  ASSUME NEW O, NEW s, Contents(O, s)
  PROVE  Size(O) = s
<1>1. s \in Nat /\ s <= MaxPage
  BY PagerAssumption DEF Contents
<1>2. {p \in Pages : O[p] # Absent} = 1..s
  BY <1>1, PagerAssumption DEF Contents, Pages
<1>3. Cardinality(1..s) = s
  <2>1. 1 \in Int /\ s \in Int /\ s >= 1
    BY <1>1 DEF Contents
  <2>2. Cardinality(1..s) = IF 1 > s THEN 0 ELSE s - 1 + 1
    BY <2>1, FS_Interval
  <2> QED BY <2>1, <2>2
<1> QED BY <1>2, <1>3 DEF Size

(* sqlite3PagerBegin takes the size the file has.                          *)
LEMMA BeginKeeps ==
  ASSUME NEW O \in Transactions, Typed, Disk(O), Process(O), Begin, UNCHANGED setting
  PROVE  Kept(O)'
<1>1. /\ Reader(O) /\ pc = Idle /\ pager.eState = "READER"
      /\ pager' = [pager EXCEPT !.eState = "WRITER_LOCKED", !.dbOrigSize = Size(pager.cache)]
      /\ UNCHANGED <<db, journal, ghosts, pc, safe, writes, failures>>
  BY WhichProcess DEF Begin
<1>2. Disk(O)'
  BY <1>1 DEF Disk
<1>3. PICK s \in 1..MaxPage : Contents(O, s)
  BY DEF Disk, Whole
<1>4. Size(pager.cache) = s
  BY <1>1, <1>3, SizeIs DEF Reader
<1>5. pager \in Pagers
  BY DEF Typed
<1>6. /\ pager'.eState = "WRITER_LOCKED" /\ pager'.dbOrigSize = s
      /\ pager'.cache = pager.cache /\ pager'.dirty = pager.dirty
      /\ pager'.needSync = pager.needSync /\ pager'.inJournal = pager.inJournal
      /\ pager'.nRec = pager.nRec
  BY <1>1, <1>4, <1>5 DEF Pagers
<1>7. pager' \in Pagers
  <2> DEFINE q == [pager EXCEPT !.eState = "WRITER_LOCKED"]
  <2>1. q \in Pagers
    BY <1>5, PagerWith DEF States
  <2>2. pager' = [q EXCEPT !.dbOrigSize = s]
    BY <1>1, <1>4
  <2> HIDE DEF q
  <2>3. s \in Nat
    BY PagerAssumption
  <2> QED BY <2>1, <2>2, <2>3, PagerWith
<1>8. Reader(O)'
  BY <1>1, <1>3, <1>6 DEF Reader, Unused, orig
<1>9. Typed'
  BY <1>1, <1>6, <1>7, SettingKept DEF Typed
<1> QED BY <1>2, <1>8, <1>9 DEF Kept, Process

(* The journal ends before the next place that could hold a header.        *)
LEMMA FirstOfSyncIs ==
  ASSUME NEW O \in Transactions, Typed, Disk(O), Journalled(O)
  PROVE  FirstOfSync \in {"sync1", "nrec"}
<1>1. Filed(journal) /\ NoHeaderAfter(journal, last) /\ last \in Nat
  BY DEF Disk, Clean, FileOK, Journalled, Holds, Typed, Pagers, last
<1>2. ASSUME last + 1 \in DOMAIN journal.now, IsHeader(journal.now[last + 1])
      PROVE  FALSE
  <2>1. last + 1 \in 1..Len(journal.now)
    BY <1>1, <1>2 DEF Filed
  <2>2. journal.now[last + 1] \in journal.maybe[last + 1]
    BY <1>1, <2>1 DEF Filed
  <2>3. journal.now[last + 1].kind # "hdr"
    BY <1>1, <2>1, <2>2 DEF NoHeaderAfter
  <2> QED BY <1>2, <2>3 DEF IsHeader
<1> QED BY <1>2 DEF FirstOfSync, last, Typed

(* What is kept when only the function in progress changes.                *)
LEMMA OnlyStep ==
  ASSUME NEW O, UNCHANGED <<db, journal, ghosts, pager, safe, writes>>, UNCHANGED setting
  PROVE  /\ Disk(O) => Disk(O)'
         /\ Journalled(O) => Journalled(O)'
         /\ CacheOK(O) => CacheOK(O)'
BY DEF Disk, Journalled, CacheOK, hdr, last, orig

(* pagerStress: a page to be written before its journal is synced has the  *)
(* journal synced first.                                                   *)
LEMMA SpillKeeps ==
  ASSUME NEW O \in Transactions, Typed, Disk(O), Process(O),
         NEW p \in Pages, Spill(p), UNCHANGED setting
  PROVE  Kept(O)'
<1>1. /\ Changed /\ pc = Idle /\ p \in pager.dirty
      /\ pc' = [goal |-> "spill", page |-> p,
                step |-> IF MustSync(p) THEN FirstOfSync ELSE "page"]
      /\ UNCHANGED <<db, journal, ghosts, pager, safe, writes, failures>>
  BY DEF Spill
<1>2. Underway(O) /\ Journalled(O) /\ CacheOK(O)
  BY <1>1, WhichProcess DEF Underway
<1>3. Disk(O)' /\ Journalled(O)' /\ CacheOK(O)'
  BY <1>1, <1>2, OnlyStep
<1>4. /\ pc'.goal = "spill" /\ pc'.page = p
      /\ \/ pc'.step \in {"sync1", "nrec"}
         \/ pc'.step = "page" /\ ~MustSync(p)
  BY <1>1, <1>2, FirstOfSyncIs
<1>5. pc' \in Pcs
  <2>1. p \in Nat
    BY PagerAssumption DEF Pages
  <2>2. pc'.step \in Steps
    BY <1>4 DEF Steps
  <2>3. pc' = [goal |-> "spill", page |-> p, step |-> pc'.step]
    BY <1>1
  <2> QED BY <2>1, <2>2, <2>3 DEF Pcs, Goals
<1>6. Typed'
  BY <1>1, <1>5, SettingKept DEF Typed
<1>7. /\ pc.goal = "none" /\ pc.step = "none" /\ ~Past /\ ~Past'
  BY <1>1, <1>4, IdleIs DEF Past
<1>8. /\ hdr <= last /\ pager.nRec = last - hdr
      /\ \A k \in hdr + 1..last : journal.now[k].pg \in pager.needSync
      /\ ~journal.now[hdr].magic
      /\ pager.eState # "WRITER_FINISHED"
      /\ writes <= setting.writes
  BY <1>2, <1>7 DEF Underway
<1>9. pc'.step = "page" => hdr > 1 /\ p \notin pager.needSync
  <2>1. hdr \in Nat /\ hdr >= 1
    BY <1>2 DEF Typed, Pagers, hdr, Journalled, Holds
  <2>2. hdr = 1 => pager.eState = "WRITER_CACHEMOD"
    BY <1>2 DEF Journalled
  <2> QED BY <1>4, <2>1, <2>2 DEF MustSync
<1>10. Underway(O)'
  <2>1. pager' = pager /\ hdr' = hdr /\ last' = last /\ journal' = journal /\ writes' = writes
        /\ setting' = setting
    BY <1>1 DEF hdr, last
  <2> QED BY <1>1, <1>3, <1>4, <1>7, <1>8, <1>9, <2>1 DEF Underway
<1> QED BY <1>3, <1>6, <1>10 DEF Kept, Process

(* syncJournal, at the start of a commit.                                  *)
LEMMA SyncJournalKeeps ==
  ASSUME NEW O \in Transactions, Typed, Disk(O), Process(O), SyncJournal, UNCHANGED setting
  PROVE  Kept(O)'
<1>1. /\ pc.step = "syncJournal" /\ At(FirstOfSync)
      /\ UNCHANGED <<db, journal, ghosts, pager, safe, writes, failures>>
  BY DEF SyncJournal
<1>2. Underway(O) /\ pc.goal = "commit"
  <2>1. Underway(O)
    BY <1>1, IdleIs, ClosedIs DEF Process, Reader, RollingBack, Recovering, Ending
  <2> QED BY <1>1, <2>1, IdleIs DEF Underway
<1>3. Journalled(O) /\ CacheOK(O)
  BY <1>2 DEF Underway
<1>4. Disk(O)' /\ Journalled(O)' /\ CacheOK(O)'
  BY <1>1, <1>3, OnlyStep
<1>5. FirstOfSync \in {"sync1", "nrec"}
  BY <1>3, FirstOfSyncIs
<1>6. pc' \in Pcs /\ pc'.step \in {"sync1", "nrec"} /\ pc'.goal = "commit"
  <2> DEFINE s == FirstOfSync
  <2>1. s \in Steps /\ s \in {"sync1", "nrec"} /\ At(s)
    BY <1>1, <1>5 DEF Steps
  <2> HIDE DEF s
  <2> QED BY <1>2, <2>1, AtStep DEF Typed
<1>7. Typed'
  BY <1>1, <1>6, SettingKept DEF Typed
<1>8. ~Past /\ ~Past'
  BY <1>1, <1>6 DEF Past
<1>9. pager' = pager /\ hdr' = hdr /\ last' = last /\ journal' = journal /\ setting' = setting
  BY <1>1 DEF hdr, last
<1>10. Underway(O)'
  <2>1. /\ hdr <= last /\ pager.nRec = last - hdr
        /\ \A k \in hdr + 1..last : journal.now[k].pg \in pager.needSync
        /\ ~journal.now[hdr].magic
        /\ pager.eState # "WRITER_FINISHED" /\ pager.dirty # {}
    BY <1>1, <1>2, <1>8, IdleIs DEF Underway
  <2> QED BY <1>4, <1>6, <1>8, <1>9, <2>1 DEF Underway
<1> QED BY <1>4, <1>7, <1>10 DEF Kept, Process

(* syncJournal never has the old header behind the records to zero when    *)
(* the journal is deleted after each transaction.                          *)
LEMMA NoZeroNextHeader ==
  ASSUME NEW O \in Transactions, Typed, Process(O)
  PROVE  ~ZeroNextHeader
<1>1. pc.step # "zero"
  BY IdleIs DEF Process, Reader, Underway, RollingBack, Recovering, Ending
<1> QED BY <1>1 DEF ZeroNextHeader

(* Which function a step belongs to.                                       *)
LEMMA WhichStep ==
  ASSUME NEW O, Typed, Process(O)
  PROVE  /\ pc.step \in {"syncJournal", "sync1", "nrec", "sync2", "header", "page"}
              => Underway(O) /\ pc.goal \in {"spill", "commit"}
         /\ pc.step = "hotsync" => Recovering(O)
         /\ pc.step \in {"truncate", "play"} => RollingBack(O) \/ Recovering(O)
         /\ pc.step \in {"dbsync", "end"}
              => \/ Underway(O) /\ pc.goal = "commit"
                 \/ RollingBack(O) \/ Recovering(O)
         /\ pc.step = "endsync" => Ending(O)
<1>1. pc = Idle => pc.step = "none"
  BY IdleIs
<1>2. Underway(O) =>
        \/ pc = Idle
        \/ /\ pc.goal = "spill"
           /\ pc.step \in {"sync1", "nrec", "sync2", "header", "page"}
        \/ /\ pc.goal = "commit"
           /\ pc.step \in {"syncJournal", "sync1", "nrec", "sync2", "header", "page", "dbsync", "end"}
  BY DEF Underway
<1>3. RollingBack(O) => pc.step \in {"truncate", "play", "dbsync", "end"}
  BY DEF RollingBack
<1>4. Recovering(O) => pc.step \in {"hotsync", "truncate", "play", "dbsync", "end"}
  BY DEF Recovering
<1>5. Ending(O) => pc.step = "endsync"
  BY DEF Ending
<1>6. Reader(O) => pc = Idle
  BY DEF Reader
<1> QED BY <1>1, <1>2, <1>3, <1>4, <1>5, <1>6 DEF Process

(* sqlite3PagerRollback starts from the journal of the transaction.        *)
LEMMA RollbackKeeps ==
  ASSUME NEW O \in Transactions, Typed, Disk(O), Process(O), Rollback, UNCHANGED setting
  PROVE  Kept(O)'
<1>1. UNCHANGED <<db, journal, ghosts, safe, writes>>
  BY DEF Rollback
<1>2. Disk(O)'
  BY <1>1 DEF Disk
<1>3. failures' \in 0..setting'.failures
  <2>1. failures \in 0..setting.failures /\ setting' = setting /\ setting.failures \in Nat
    BY SettingKept DEF Typed
  <2> QED BY <2>1 DEF Rollback
<1>4. CASE pager.eState = "WRITER_LOCKED"
  <2>1. pager' = Reading(pager.cache) /\ pc' = pc
    BY <1>4 DEF Rollback
  <2>2. Reader(O)
    BY <1>4, WhichProcess
  <2>3. pager.cache = O
    BY <2>2 DEF Reader
  <2>4. Reader(O)'
    BY <1>1, <2>1, <2>2, <2>3, ReadingIs DEF Reader, Unused
  <2>5. Typed'
    BY <1>1, <1>3, <2>1, <2>3, ReadingIs, SettingKept DEF Typed
  <2> QED BY <1>2, <2>4, <2>5 DEF Kept, Process
<1>5. CASE pager.eState # "WRITER_LOCKED"
  <2>1. pc' = [goal |-> "rollback", step |-> "truncate", page |-> 1] /\ pager' = pager
    BY <1>5 DEF Rollback
  <2>2. pc' \in Pcs /\ pc'.goal = "rollback" /\ pc'.step = "truncate" /\ pc'.page = 1
    BY <2>1 DEF Pcs, Goals, Steps
  <2>3. Underway(O) /\ pc.step # "end"
    <3>1. CASE Writer /\ pc = Idle
      BY <1>5, <3>1, WhichProcess, IdleIs DEF Writer, Changed
    <3>2. CASE pc.goal = "commit" /\ pc.step \notin {"end", "endsync"}
      BY <3>2, WhichProcess
    <3> QED BY <3>1, <3>2 DEF Rollback
  <2>4. Journalled(O) /\ CacheOK(O) /\ pager.eState # "WRITER_FINISHED"
    BY <2>3 DEF Underway
  <2>5. Typed'
    BY <1>1, <1>3, <2>1, <2>2, SettingKept DEF Typed
  <2>6. Journalled(O)'
    BY <1>1, <2>1, <2>4 DEF Journalled, hdr, last, orig
  <2>7. RollingBack(O)'
    BY <1>1, <2>1, <2>2, <2>4, <2>6 DEF RollingBack, CacheOK, orig
  <2> QED BY <1>2, <2>5, <2>7 DEF Kept, Process
<1> QED BY <1>4, <1>5

(* A file with nothing unsettled has the contents it is read with.         *)
LEMMA SettledGives ==
  ASSUME NEW m, NEW j, Filed(j), j.exists, NEW O, \A k \in Possible(j) : Gives(m, k, O),
         NEW i, i = JournalFile(j.now)
  PROVE  \A k \in Possible(i) : Gives(m, k, O)
<1>1. j.now \in Seq(Cells) /\ i \in Possible(j)
  BY PossibleAre DEF Filed
<1>2. Filed(i) /\ i.exists /\ Settl(i) /\ i.now = j.now
  BY <1>1, SettledFile
<1>3. ASSUME NEW k \in Possible(i)
      PROVE  k = i
  BY <1>2, <1>3, PossibleAre
<1> QED BY <1>1, <1>3

(* pagerSyncHotJournal settles a hot journal; it restores what it restored *)
(* before.                                                                 *)
LEMMA SyncHotJournalKeeps ==
  ASSUME NEW O \in Transactions, Typed, Disk(O), Process(O), SyncHotJournal, UNCHANGED setting
  PROVE  Kept(O)'
<1>1. /\ pc.step = "hotsync" /\ journal' = JournalFile(journal.now) /\ At("truncate")
      /\ UNCHANGED <<db, ghosts, pager, safe, writes, failures>>
  BY DEF SyncHotJournal, SyncedJournal, Typed
<1>2. Recovering(O)
  BY <1>1, WhichStep
<1>3. journal.exists /\ Hot(journal) /\ pager = Closed /\ pc.goal = "recover" /\ pc.page = 1
  BY <1>1, <1>2 DEF Recovering, Hot
<1>4. Filed(journal)
  BY DEF Disk, Clean, FileOK
<1>5. /\ Clean(JournalFile(journal.now), writes) /\ Settl(JournalFile(journal.now))
      /\ JournalFile(journal.now).now = journal.now /\ JournalFile(journal.now).exists
  BY <1>3, CleanSettled DEF Disk, JournalFile
<1>6. \A k \in Possible(JournalFile(journal.now)) : Gives(db.maybe, k, O)
  BY <1>3, <1>4, SettledGives DEF Disk
<1>7. Disk(O)'
  BY <1>1, <1>5, <1>6 DEF Disk
<1>8. pc' \in Pcs /\ pc'.step = "truncate" /\ pc'.goal = "recover" /\ pc'.page = 1
  BY <1>1, <1>3, AtStep, StepsAre DEF Typed
<1>9. Typed'
  BY <1>1, <1>8, SettingKept DEF Typed
<1>10. Hot(journal')
  BY <1>1, <1>3, <1>5 DEF Hot
<1>11. Recovering(O)'
  BY <1>1, <1>3, <1>5, <1>8, <1>10 DEF Recovering, Closed
<1> QED BY <1>7, <1>9, <1>11 DEF Kept, Process

(* The syncs of syncJournal, before the number of records is written and   *)
(* after.  From the second on the transaction is all the power can take    *)
(* back.                                                                   *)
LEMMA SyncJournalFileKeeps ==
  ASSUME NEW O \in Transactions, Typed, Disk(O), Process(O),
         NEW step, NEW then,
         \/ step = "sync1" /\ then = "nrec"
         \/ step = "sync2" /\ then = "header",
         SyncJournalFile(step, then), UNCHANGED setting
  PROVE  Kept(O)'
<1>1. /\ pc.step = step /\ journal' = JournalFile(journal.now) /\ ghosts' = {}
      /\ safe' = Recovered /\ At(then)
      /\ UNCHANGED <<db, pager, writes, failures>>
  BY DEF SyncJournalFile, SyncedJournal
<1>2. Underway(O) /\ pc.goal \in {"spill", "commit"}
  BY <1>1, WhichStep
<1>3. Journalled(O) /\ CacheOK(O) /\ journal.exists /\ Filed(journal)
  BY <1>2 DEF Underway, Journalled, Holds, Disk, Clean, FileOK
<1>4. safe' = O /\ Whole(O)
  BY <1>1, <1>3, RecoveredIs DEF Disk, Recovered
<1>5. journal.now \in Seq(Cells)
  BY <1>3 DEF Filed
<1>6. /\ Clean(journal', writes) /\ Settl(journal') /\ journal'.now = journal.now
      /\ \A k \in Possible(journal') : Gives(db.maybe, k, O)
  <2>1. Clean(journal', writes) /\ Settl(journal')
    BY <1>1, <1>3, CleanSettled DEF Disk
  <2>2. journal'.now = journal.now
    BY <1>1, <1>5, SettledFile
  <2>3. \A k \in Possible(journal') : Gives(db.maybe, k, O)
    BY <1>1, <1>3, SettledGives DEF Disk
  <2> QED BY <2>1, <2>2, <2>3
<1>7. Disk(O)'
  <2>1. DbOK(db') /\ writes' = writes /\ db' = db
    BY <1>1 DEF Disk
  <2> QED BY <1>1, <1>4, <1>6, <2>1 DEF Disk
<1>8. pc' \in Pcs /\ pc'.step = then /\ pc'.goal = pc.goal /\ pc'.page = pc.page
  <2>1. then \in Steps
    BY DEF Steps
  <2> QED BY <1>1, <2>1, AtStep DEF Typed
<1>9. Typed'
  BY <1>1, <1>8, SettingKept DEF Typed
<1>10. pager' = pager /\ hdr' = hdr /\ last' = last /\ orig' = orig
  BY <1>1 DEF hdr, last, orig
<1>11. Journalled(O)'
  <2>1. Holds(journal', hdr, last, orig, O)
    BY <1>1, <1>3, HoldsSettled DEF Journalled
  <2>2. Untouched(db.maybe, journal', hdr, orig, O)
    BY <1>3, <1>6 DEF Journalled, Untouched
  <2> QED BY <1>1, <1>3, <1>4, <1>6, <1>10, <2>1, <2>2 DEF Journalled
<1>12. CacheOK(O)'
  BY <1>1, <1>3, <1>10 DEF CacheOK
<1>13. ~Past /\ ~Past'
  BY <1>1, <1>8 DEF Past
<1>14. Synced(O)'
  BY <1>1, <1>4, <1>6 DEF Synced
<1>15. Underway(O)'
  <2>1. /\ hdr <= last /\ pager.nRec = last - hdr
        /\ \A k \in hdr + 1..last : journal.now[k].pg \in pager.needSync
        /\ pager.eState # "WRITER_FINISHED"
        /\ then = "nrec" => ~journal.now[hdr].magic
        /\ then = "header" => journal.now[hdr].magic
    BY <1>1, <1>2, <1>13 DEF Underway
  <2>2. \/ /\ pc.goal = "spill" /\ writes <= setting.writes /\ pc.page \in pager.dirty
        \/ pc.goal = "commit" /\ pager.dirty # {}
    BY <1>1, <1>2, IdleIs DEF Underway
  <2>3. setting' = setting /\ writes' = writes
    BY <1>1
  <2> QED BY <1>6, <1>8, <1>10, <1>11, <1>12, <1>13, <1>14, <2>1, <2>2, <2>3 DEF Underway
<1> QED BY <1>7, <1>9, <1>15 DEF Kept, Process

(* syncJournal writes magic and number of records into a header whose      *)
(* records are on the disk.                                                *)
LEMMA WriteNRecKeeps ==
  ASSUME NEW O \in Transactions, Typed, Disk(O), Process(O), WriteNRec, UNCHANGED setting
  PROVE  Kept(O)'
<1>1. /\ pc.step = "nrec" /\ At("sync2")
      /\ journal' = PutCell(journal, hdr, Counted(journal.now[hdr], pager.nRec))
      /\ UNCHANGED <<db, ghosts, pager, safe, writes, failures>>
  BY DEF WriteNRec, hdr
<1>2. Underway(O) /\ pc.goal \in {"spill", "commit"}
  BY <1>1, WhichStep
<1>3. ~Past
  BY <1>1 DEF Past
<1>4. /\ Journalled(O) /\ CacheOK(O) /\ Filed(journal)
      /\ hdr <= last /\ pager.nRec = last - hdr /\ ~journal.now[hdr].magic
      /\ Holds(journal, hdr, last, orig, O)
  BY <1>1, <1>2, <1>3 DEF Underway, Journalled, Disk, Clean, FileOK
<1>5. /\ Filed(journal') /\ Holds(journal', hdr, last, orig, O)
      /\ journal'.now[hdr].magic /\ journal'.now[hdr].cksumInit = journal.now[hdr].cksumInit
      /\ journal'.now[hdr].kind = "hdr"
      /\ Len(journal'.now) = Len(journal.now)
      /\ \A i \in 1..Len(journal.now) \ {hdr} : journal'.now[i] = journal.now[i]
  BY <1>1, <1>4, HoldsCounted
<1>6. hdr \in 1..last /\ last \in 1..Len(journal.now) /\ journal.now[hdr].kind = "hdr"
  BY <1>4 DEF Holds, Open
<1>7. Clean(journal', writes)
  <2>1. Counted(journal.now[hdr], pager.nRec) \in Cells
    <3>1. journal.now[hdr] \in Headers
      <4>1. journal.now[hdr] \in Cells
        BY <1>4, <1>6 DEF Filed
      <4> QED BY <1>6, <4>1 DEF Cells, Bad, Records
    <3>2. pager.nRec \in Nat
      BY DEF Typed, Pagers
    <3> QED BY <3>1, <3>2 DEF Counted, Headers, Cells
  <2>2. ~IsRecord(Counted(journal.now[hdr], pager.nRec))
    BY DEF Counted, IsRecord
  <2>3. hdr \in 1..Len(journal.now) + 1 /\ Older(journal, writes) /\ writes \in Int
    BY <1>6 DEF Disk, Clean, Typed
  <2>4. Older(journal', writes)
    BY <1>1, <1>4, <2>1, <2>2, <2>3, OlderKept
  <2> QED BY <1>5, <2>4, HoldsClean
<1>8. Untouched(db.maybe, journal', hdr, orig, O)
  <2>1. \A k \in 1..hdr - 1 : journal'.now[k] = journal.now[k]
    BY <1>5, <1>6
  <2>2. Untouched(db.maybe, journal, hdr, orig, O)
    BY <1>4 DEF Journalled
  <2> QED BY <2>1, <2>2 DEF Untouched
<1>9. \A k \in Possible(journal') : Gives(db.maybe, k, O)
  BY <1>5, <1>8, JournalGives
<1>10. Disk(O)'
  <2>1. DbOK(db') /\ writes' = writes /\ db' = db /\ ghosts' = ghosts /\ safe' = safe
    BY <1>1 DEF Disk
  <2> QED BY <1>7, <1>9, <2>1 DEF Disk
<1>11. pager' = pager /\ hdr' = hdr /\ last' = last /\ orig' = orig
  BY <1>1 DEF hdr, last, orig
<1>12. /\ pc' \in Pcs /\ pc'.step = "sync2" /\ pc'.goal = pc.goal /\ pc'.page = pc.page
  BY <1>1, AtStep, StepsAre DEF Typed
<1>13. Typed'
  BY <1>1, <1>12, SettingKept DEF Typed
<1>14. Journalled(O)'
  <2>1. {journal'.now[k].pg : k \in {k \in 1..last : IsRecord(journal'.now[k])}}
          = {journal.now[k].pg : k \in {k \in 1..last : IsRecord(journal.now[k])}}
    <3>1. ~IsRecord(journal'.now[hdr]) /\ ~IsRecord(journal.now[hdr])
      BY <1>5, <1>6 DEF IsRecord
    <3>2. \A k \in 1..last : k # hdr => journal'.now[k] = journal.now[k]
      BY <1>5, <1>6
    <3>3. {k \in 1..last : IsRecord(journal'.now[k])} = {k \in 1..last : IsRecord(journal.now[k])}
      BY <3>1, <3>2
    <3>4. \A k \in {k \in 1..last : IsRecord(journal.now[k])} : journal'.now[k] = journal.now[k]
      BY <3>1, <3>2
    <3> QED BY <3>3, <3>4
  <2> QED BY <1>1, <1>4, <1>5, <1>8, <1>11, <2>1 DEF Journalled
<1>15. CacheOK(O)'
  BY <1>1, <1>4, <1>11 DEF CacheOK
<1>16. \A k \in hdr + 1..last : journal'.now[k].pg \in pager.needSync
  <2>1. \A k \in hdr + 1..last : journal'.now[k] = journal.now[k]
    BY <1>5, <1>6
  <2> QED BY <1>2, <2>1 DEF Underway
<1>17. Underway(O)'
  <2>1. ~Past' /\ pager.eState # "WRITER_FINISHED"
    BY <1>1, <1>2, <1>12 DEF Past, Underway
  <2>2. \/ /\ pc.goal = "spill" /\ writes <= setting.writes /\ pc.page \in pager.dirty
        \/ pc.goal = "commit" /\ pager.dirty # {}
    BY <1>1, <1>2, IdleIs DEF Underway
  <2>3. setting' = setting /\ writes' = writes
    BY <1>1
  <2> QED BY <1>4, <1>5, <1>11, <1>12, <1>14, <1>15, <1>16, <2>1, <2>2, <2>3 DEF Underway
<1> QED BY <1>10, <1>13, <1>17 DEF Kept, Process

(* syncJournal starts another header behind the records, which are sealed  *)
(* now.                                                                    *)
LEMMA NextHeaderKeeps ==
  ASSUME NEW O \in Transactions, Typed, Disk(O), Process(O), NextHeader, UNCHANGED setting
  PROVE  Kept(O)'
<1> DEFINE next == last + 1
           new == pc.goal = "spill"
           c == Header(orig, FALSE, 0)
<1>1. /\ pc.step = "header" /\ At("page")
      /\ journal' = IF new THEN PutCell(journal, next, c) ELSE journal
      /\ pager' = [pager EXCEPT
           !.eState = "WRITER_DBMOD", !.needSync = {}, !.journalHdr = next,
           !.journalOff = IF new THEN next ELSE @, !.nRec = IF new THEN 0 ELSE @]
      /\ UNCHANGED <<db, ghosts, safe, writes, failures>>
  BY DEF NextHeader, Typed, last, orig
<1>2. Underway(O) /\ pc.goal \in {"spill", "commit"}
  BY <1>1, WhichStep
<1>3. ~Past
  BY <1>1 DEF Past
<1>4. /\ Journalled(O) /\ CacheOK(O) /\ Filed(journal)
      /\ hdr <= last /\ pager.nRec = last - hdr /\ journal.now[hdr].magic
      /\ Holds(journal, hdr, last, orig, O)
      /\ Settl(journal) /\ ghosts = {} /\ safe = O
  BY <1>1, <1>2, <1>3 DEF Underway, Journalled, Synced, Disk, Clean, FileOK
<1>5. pager \in Pagers /\ writes \in Int /\ Older(journal, writes)
  BY DEF Typed, Disk, Clean
<1>6. /\ hdr \in 1..last /\ last \in 1..Len(journal.now) /\ orig \in 1..MaxPage
      /\ last \in Nat /\ next \in Nat /\ orig \in Nat /\ MaxPage \in Nat
  BY <1>4, <1>5, PagerAssumption DEF Holds, Contents, Pagers, last, orig, hdr
<1>7. /\ pager'.eState = "WRITER_DBMOD" /\ pager'.needSync = {} /\ pager'.journalHdr = next
      /\ pager'.journalOff = (IF new THEN next ELSE last)
      /\ pager'.nRec = (IF new THEN 0 ELSE pager.nRec)
      /\ pager'.cache = pager.cache /\ pager'.dirty = pager.dirty
      /\ pager'.inJournal = pager.inJournal /\ pager'.dbOrigSize = pager.dbOrigSize
  BY <1>1, <1>5 DEF Pagers, last
<1>8. pager' \in Pagers
  <2> DEFINE q1 == [pager EXCEPT !.eState = "WRITER_DBMOD"]
             q2 == [q1 EXCEPT !.needSync = {}]
             q3 == [q2 EXCEPT !.journalHdr = next]
             off == IF new THEN next ELSE pager.journalOff
             n == IF new THEN 0 ELSE pager.nRec
             q4 == [q3 EXCEPT !.journalOff = off]
             q5 == [q4 EXCEPT !.nRec = n]
  <2>1. pager' = q5
    BY <1>1
  <2>2. off \in Nat /\ n \in Nat
    BY <1>5, <1>6 DEF Pagers
  <2>3. {} \in SUBSET Pages /\ "WRITER_DBMOD" \in States
    BY DEF States
  <2> HIDE DEF off, n, next
  <2>4. q1 \in Pagers
    BY <1>5, <2>3, PagerWith
  <2> HIDE DEF q1
  <2>5. q2 \in Pagers
    BY <2>3, <2>4, PagerWith
  <2> HIDE DEF q2
  <2>6. q3 \in Pagers
    BY <1>6, <2>5, PagerWith
  <2> HIDE DEF q3
  <2>7. q4 \in Pagers
    BY <2>2, <2>6, PagerWith
  <2> HIDE DEF q4
  <2>8. q5 \in Pagers
    BY <2>2, <2>7, PagerWith
  <2> QED BY <2>1, <2>8
<1>9. /\ hdr' = next /\ orig' = orig /\ last' = (IF new THEN next ELSE last)
  BY <1>7 DEF hdr, orig, last
<1>10. NewHeader(c, writes, orig)
  BY <1>5, <1>6, NewHeaderIs DEF Header
<1>11. /\ Filed(journal') /\ Holds(journal', hdr', last', orig, O)
       /\ hdr' <= last' <=> new
       /\ new => /\ journal'.now[next].cksumInit = writes /\ ~journal'.now[next].magic
                 /\ journal'.now[next].kind = "hdr"
       /\ \A i \in 1..last : journal'.now[i] = journal.now[i]
       /\ Clean(journal', writes)
  <2>1. CASE new
    <3>1. journal' = PutCell(journal, next, c)
      BY <1>1, <2>1
    <3> HIDE DEF c
    <3>2. /\ Filed(journal') /\ Holds(journal', last + 1, last + 1, orig, O)
          /\ journal'.now[last + 1].cksumInit = writes /\ ~journal'.now[last + 1].magic
          /\ journal'.now[last + 1].kind = "hdr"
          /\ \A i \in 1..last : journal'.now[i] = journal.now[i]
      BY <1>4, <1>5, <1>10, <3>1, HoldsNext
    <3>3. Older(journal', writes)
      <4>1. c \in Cells /\ ~IsRecord(c)
        BY <1>10 DEF NewHeader, Cells, IsRecord
      <4>2. next \in 1..Len(journal.now) + 1
        BY <1>6, <1>4 DEF Filed
      <4> QED BY <1>4, <1>5, <3>1, <4>1, <4>2, OlderKept
    <3>4. Clean(journal', writes)
      BY <3>2, <3>3, HoldsClean
    <3> QED BY <1>6, <1>9, <2>1, <3>2, <3>4
  <2>2. CASE ~new
    <3>1. Holds(journal, last + 1, last, orig, O)
      BY <1>4, HoldsNext
    <3> QED BY <1>1, <1>4, <1>6, <1>9, <2>2, <3>1 DEF Disk
  <2> QED BY <2>1, <2>2
<1>12. Untouched(db.maybe, journal', hdr', orig, O)
  <2>1. hdr' # 1
    BY <1>6, <1>9
  <2>2. ASSUME NEW p \in 1..orig,
               \A k \in 1..last : IsRecord(journal'.now[k]) => journal'.now[k].pg # p
        PROVE  db.maybe[p] = {O[p]}
    <3>1. \A k \in 1..hdr - 1 : IsRecord(journal.now[k]) => journal.now[k].pg # p
      <4>1. \A k \in 1..hdr - 1 : k \in 1..last
        BY <1>6
      <4> QED BY <1>11, <2>2, <4>1
    <3>2. p \in Pages
      BY <1>6 DEF Pages
    <3> QED BY <1>4, <3>1, <3>2 DEF Journalled, Untouched, AllAre
  <2>3. hdr' - 1 = last
    BY <1>6, <1>9
  <2> QED BY <2>1, <2>2, <2>3 DEF Untouched
<1>13. \A k \in Possible(journal') : Gives(db.maybe, k, O)
  BY <1>11, <1>12, JournalGives
<1>14. Disk(O)'
  <2>1. DbOK(db') /\ writes' = writes /\ db' = db /\ ghosts' = ghosts /\ safe' = safe
    BY <1>1 DEF Disk
  <2> QED BY <1>11, <1>13, <2>1 DEF Disk
<1>15. pc' \in Pcs /\ pc'.step = "page" /\ pc'.goal = pc.goal /\ pc'.page = pc.page
  BY <1>1, AtStep, StepsAre DEF Typed
<1>16. Typed'
  BY <1>1, <1>7, <1>8, <1>15, SettingKept DEF Typed
<1>17. Journalled(O)'
  <2>1. pager'.inJournal = {journal'.now[k].pg : k \in {k \in 1..last' : IsRecord(journal'.now[k])}}
    <3>1. \A k \in 1..last' : k \in 1..last \/ (new /\ k = next)
      BY <1>6, <1>9
    <3>2. \A k \in 1..last : k \in 1..last'
      BY <1>6, <1>9
    <3>3. new => ~IsRecord(journal'.now[next])
      BY <1>11 DEF IsRecord
    <3>4. {k \in 1..last' : IsRecord(journal'.now[k])} = {k \in 1..last : IsRecord(journal.now[k])}
      BY <1>11, <3>1, <3>2, <3>3
    <3>5. \A k \in {k \in 1..last : IsRecord(journal.now[k])} : journal'.now[k] = journal.now[k]
      BY <1>11
    <3>6. {journal'.now[k].pg : k \in {k \in 1..last' : IsRecord(journal'.now[k])}}
            = {journal.now[k].pg : k \in {k \in 1..last : IsRecord(journal.now[k])}}
      BY <3>4, <3>5
    <3> QED BY <1>4, <1>7, <3>6 DEF Journalled
  <2>2. hdr' <= last' => journal'.now[hdr'].cksumInit <= writes'
    <3>1. writes' = writes /\ writes <= writes
      BY <1>1, <1>5
    <3> QED BY <1>9, <1>11, <3>1
  <2>3. hdr' # 1
    BY <1>6, <1>9
  <2>4. ghosts' = {} /\ safe' = O /\ db' = db
    BY <1>1, <1>4
  <2>5. Holds(journal', hdr', last', orig', O) /\ Untouched(db'.maybe, journal', hdr', orig', O)
    BY <1>9, <1>11, <1>12, <2>4
  <2> QED BY <1>7, <2>1, <2>2, <2>3, <2>4, <2>5 DEF Journalled
<1>18. CacheOK(O)'
  BY <1>1, <1>4, <1>7, <1>9 DEF CacheOK
<1>19. Underway(O)'
  <2>1. \/ /\ new /\ writes <= setting.writes /\ pc.page \in pager.dirty
        \/ pc.goal = "commit" /\ pager.dirty # {}
    BY <1>1, <1>2, IdleIs DEF Underway
  <2>2. setting' = setting /\ writes' = writes
    BY <1>1
  <2>3. ~Past' => hdr' <= last' /\ pager'.nRec = last' - hdr'
    <3>1. ~Past' => new
      BY <1>15, <2>1 DEF Past
    <3> QED BY <1>6, <1>7, <1>9, <3>1
  <2>4. Past' => hdr' > last' /\ Settl(journal')
    <3>1. ASSUME Past' PROVE ~new
      BY <1>15, <3>1 DEF Past
    <3>2. ASSUME ~new PROVE hdr' > last' /\ journal' = journal
      BY <1>1, <1>6, <1>9, <3>2
    <3> QED BY <1>4, <3>1, <3>2
  <2>5. \A k \in hdr' + 1..last' : journal'.now[k].pg \in pager'.needSync
    BY <1>6, <1>9
  <2>6. hdr' <= last' => ~journal'.now[hdr'].magic
    BY <1>9, <1>11
  <2>7. hdr' > 1
    BY <1>6, <1>9
  <2> QED BY <1>7, <1>15, <1>17, <1>18, <2>1, <2>2, <2>3, <2>4, <2>5, <2>6, <2>7 DEF Underway
<1> QED BY <1>14, <1>16, <1>19 DEF Kept, Process

(* What a write to the file leaves of the pages the journal does not cover.*)
LEMMA UntouchedKept ==
  ASSUME NEW m, NEW m2, NEW j, NEW hd, NEW size, size \in 0..MaxPage, NEW O,
         Untouched(m, j, hd, size, O),
         \A p \in Pages :
           hd = 1 \/ (p <= size /\ (\A k \in 1..hd - 1 : IsRecord(j.now[k]) => j.now[k].pg # p))
             => (m[p] = {O[p]} => m2[p] = {O[p]})
  PROVE  Untouched(m2, j, hd, size, O)
<1>1. CASE hd = 1
  BY <1>1 DEF Untouched, AllAre
<1>2. CASE hd # 1
  <2>1. ASSUME NEW p \in 1..size,
               \A k \in 1..hd - 1 : IsRecord(j.now[k]) => j.now[k].pg # p
        PROVE  m2[p] = {O[p]}
    <3>1. p \in Pages /\ p <= size
      BY PagerAssumption DEF Pages
    <3>2. m[p] = {O[p]}
      BY <1>2, <2>1 DEF Untouched
    <3> QED BY <2>1, <3>1, <3>2
  <2> QED BY <1>2, <2>1 DEF Untouched
<1> QED BY <1>1, <1>2

(* An unsynced write to a page of the file.                                *)
LEMMA PutPageIs ==
  ASSUME DbOK(db), NEW p \in Pages, NEW v \in Values, PutPage(p, v)
  PROVE  /\ DbOK(db') /\ db'.now[p] = v
         /\ db.maybe[p] = {v} => db'.maybe[p] = {v}
         /\ \A q \in Pages \ {p} : db'.now[q] = db.now[q] /\ db'.maybe[q] = db.maybe[q]
<1>1. /\ db'.now = [db.now EXCEPT ![p] = v]
      /\ db'.maybe = [db.maybe EXCEPT ![p] = Torn(db.maybe[p], v, Garbage)]
      /\ db' = [now |-> db'.now, maybe |-> db'.maybe]
  BY DEF PutPage
<1>2. db.now \in [Pages -> Values] /\ db.maybe \in [Pages -> SUBSET Values]
  BY DEF DbOK
<1>3. /\ Torn(db.maybe[p], v, Garbage) \in SUBSET Values
      /\ v \in Torn(db.maybe[p], v, Garbage)
      /\ db.maybe[p] = {v} => Torn(db.maybe[p], v, Garbage) = {v}
  <2>1. Garbage \in Values
    BY PagerAssumption DEF Garbage, Values
  <2> QED BY <1>2, <2>1 DEF Torn
<1>4. db'.now \in [Pages -> Values] /\ db'.maybe \in [Pages -> SUBSET Values]
  BY <1>1, <1>2, <1>3
<1>5. /\ db'.now[p] = v /\ db'.maybe[p] = Torn(db.maybe[p], v, Garbage)
      /\ \A q \in Pages \ {p} : db'.now[q] = db.now[q] /\ db'.maybe[q] = db.maybe[q]
  BY <1>1, <1>2
<1>6. \A q \in Pages : db'.now[q] \in db'.maybe[q]
  BY <1>3, <1>5 DEF DbOK
<1>7. db' \in [now : [Pages -> Values], maybe : [Pages -> SUBSET Values]]
  BY <1>1, <1>4
<1> QED BY <1>3, <1>5, <1>6, <1>7 DEF DbOK

(* A page is written when it is new or its original is below the header.   *)
LEMMA PageIsCovered ==
  ASSUME NEW O \in Transactions, Typed, Disk(O), Underway(O), pc.step = "page"
  PROVE  LET p == PageToWrite IN
         /\ p \in pager.dirty
         /\ p > orig \/ \E k \in 1..hdr - 1 : IsRecord(journal.now[k]) /\ journal.now[k].pg = p
<1> DEFINE p == PageToWrite
<1>1. pager.dirty \subseteq Pages /\ Pages \subseteq Nat /\ hdr \in Nat /\ last \in Nat /\ orig \in Nat
  BY PagerAssumption DEF Typed, Pagers, Pages, hdr, last, orig
<1>2. \/ pc.goal = "spill" /\ pc.page \in pager.dirty /\ pc.page \notin pager.needSync
      \/ pc.goal = "commit" /\ pager.dirty # {}
  BY IdleIs DEF Underway
<1>3. p \in pager.dirty
  <2>1. CASE pc.goal = "spill"
    BY <1>2, <2>1 DEF PageToWrite
  <2>2. CASE pc.goal # "spill"
    <3>1. p = Min(pager.dirty) /\ pager.dirty # {} /\ pager.dirty \subseteq Nat
      BY <1>1, <1>2, <2>2 DEF PageToWrite
    <3> QED BY <3>1, LeastNatural
  <2> QED BY <2>1, <2>2
<1>4. ASSUME p <= orig
      PROVE  \E k \in 1..hdr - 1 : IsRecord(journal.now[k]) /\ journal.now[k].pg = p
  <2>1. p \in 1..orig
    BY <1>1, <1>3, <1>4 DEF Pages
  <2>2. p \in pager.inJournal
    BY <1>3, <2>1 DEF Underway, CacheOK
  <2>3. PICK k \in 1..last : IsRecord(journal.now[k]) /\ journal.now[k].pg = p
    BY <2>2 DEF Underway, Journalled
  <2>4. CASE hdr > last
    <3>1. k \in 1..hdr - 1
      BY <1>1, <2>3, <2>4
    <3> QED BY <2>3, <3>1
  <2>5. CASE hdr <= last
    <3>1. ~Past /\ pc.goal = "spill"
      BY <1>1, <1>2, <2>5 DEF Underway, Past
    <3>2. p \notin pager.needSync
      BY <1>2, <3>1 DEF PageToWrite
    <3>3. k \notin hdr + 1..last
      BY <2>3, <3>2 DEF Underway
    <3>4. k # hdr
      BY <2>3, <2>5 DEF Underway, Journalled, Holds, Open, IsRecord
    <3>5. k \in 1..hdr - 1
      BY <1>1, <3>3, <3>4
    <3> QED BY <2>3, <3>5
  <2> QED BY <1>1, <2>4, <2>5
<1>5. p > orig \/ \E k \in 1..hdr - 1 : IsRecord(journal.now[k]) /\ journal.now[k].pg = p
  <2>1. p \in Nat
    BY <1>1, <1>3
  <2> HIDE DEF p
  <2>2. p > orig \/ p <= orig
    BY <1>1, <2>1
  <2> QED BY <1>4, <2>2
<1> QED BY <1>3, <1>5

(* pager_write_pagelist: every page it writes is in the sealed part of the *)
(* journal, or is new.                                                     *)
LEMMA WriteToFileKeeps ==
  ASSUME NEW O \in Transactions, Typed, Disk(O), Process(O), WriteToFile, UNCHANGED setting
  PROVE  Kept(O)'
<1> DEFINE p == PageToWrite
<1>1. /\ pc.step = "page" /\ PutPage(p, pager.cache[p])
      /\ pager' = [pager EXCEPT !.dirty = @ \ {p}]
      /\ IF pc.goal = "spill" THEN pc' = Idle
         ELSE At(IF pager.dirty = {p} THEN "dbsync" ELSE "page")
      /\ UNCHANGED <<journal, ghosts, safe, writes, failures>>
  BY DEF WriteToFile
<1>2. Underway(O) /\ pc.goal \in {"spill", "commit"}
  BY <1>1, WhichStep
<1>3. /\ p \in pager.dirty
      /\ p > orig \/ \E k \in 1..hdr - 1 : IsRecord(journal.now[k]) /\ journal.now[k].pg = p
  BY <1>1, <1>2, PageIsCovered
<1> HIDE DEF p
<1>4. /\ pager \in Pagers /\ pager.dirty \subseteq Pages /\ p \in Pages
      /\ pager.cache[p] \in Values /\ DbOK(db) /\ Filed(journal)
  BY <1>3 DEF Typed, Pagers, Image, Values, Disk, Clean, FileOK
<1>5. /\ DbOK(db') /\ db'.now[p] = pager.cache[p]
      /\ \A q \in Pages \ {p} : db'.now[q] = db.now[q] /\ db'.maybe[q] = db.maybe[q]
  BY <1>1, <1>4, PutPageIs
<1>6. /\ Journalled(O) /\ CacheOK(O) /\ Holds(journal, hdr, last, orig, O)
      /\ hdr > 1 /\ hdr \in Nat /\ ghosts = {} /\ safe = O
      /\ pager.eState = "WRITER_DBMOD"
  BY <1>1, <1>2 DEF Underway, Journalled, Typed, Pagers, hdr
<1>7. Untouched(db'.maybe, journal, hdr, orig, O)
  <2>1. orig \in 0..MaxPage /\ hdr # 1
    BY <1>6, PagerAssumption DEF Holds, Contents
  <2>2. ASSUME NEW q \in Pages, q <= orig,
               \A k \in 1..hdr - 1 : IsRecord(journal.now[k]) => journal.now[k].pg # q
        PROVE  db'.maybe[q] = db.maybe[q]
    <3>1. p \in Nat /\ orig \in Nat
      BY <1>4, <2>1, PagerAssumption DEF Pages
    <3>2. q # p
      BY <1>3, <2>2, <3>1
    <3> QED BY <1>5, <3>2
  <2>3. Untouched(db.maybe, journal, hdr, orig, O)
    BY <1>6 DEF Journalled
  <2> QED BY <2>1, <2>2, <2>3, UntouchedKept
<1>8. \A k \in Possible(journal) : Gives(db'.maybe, k, O)
  BY <1>4, <1>6, <1>7, JournalGives
<1>9. Disk(O)'
  <2>1. /\ journal' = journal /\ ghosts' = ghosts /\ safe' = safe /\ writes' = writes
    BY <1>1
  <2> QED BY <1>5, <1>6, <1>8, <2>1 DEF Disk
<1>10. /\ pager'.dirty = pager.dirty \ {p} /\ pager'.eState = pager.eState
       /\ pager'.cache = pager.cache /\ pager'.needSync = pager.needSync
       /\ pager'.inJournal = pager.inJournal /\ pager'.nRec = pager.nRec
       /\ pager'.journalHdr = pager.journalHdr /\ pager'.journalOff = pager.journalOff
       /\ pager'.dbOrigSize = pager.dbOrigSize
  BY <1>1, <1>4 DEF Pagers
<1>11. pager' \in Pagers
  <2>1. pager.dirty \ {p} \in SUBSET Pages
    BY <1>4
  <2> QED BY <1>1, <1>4, <2>1, PagerWith
<1>12. hdr' = hdr /\ last' = last /\ orig' = orig
  BY <1>10 DEF hdr, last, orig
<1>13. /\ pc' \in Pcs
       /\ pc.goal = "spill" => pc' = Idle
       /\ pc.goal = "commit" => /\ pc'.goal = "commit"
                                /\ pc'.step = IF pager'.dirty = {} THEN "dbsync" ELSE "page"
  <2>1. CASE pc.goal = "spill"
    BY <1>1, <2>1, IdleIs
  <2>2. CASE pc.goal = "commit"
    <3>1. pager'.dirty = {} <=> pager.dirty = {p}
      BY <1>3, <1>10
    <3> DEFINE s == IF pager.dirty = {p} THEN "dbsync" ELSE "page"
    <3>2. s \in Steps /\ At(s) /\ s = IF pager'.dirty = {} THEN "dbsync" ELSE "page"
      BY <1>1, <2>2, <3>1 DEF Steps
    <3> HIDE DEF s
    <3>3. pc' \in Pcs /\ pc'.step = s /\ pc'.goal = pc.goal
      BY <3>2, AtStep DEF Typed
    <3> QED BY <2>2, <3>2, <3>3
  <2> QED BY <1>2, <2>1, <2>2
<1>14. Typed'
  BY <1>1, <1>6, <1>10, <1>11, <1>13, SettingKept DEF Typed
<1>15. Journalled(O)'
  BY <1>1, <1>6, <1>7, <1>10, <1>12 DEF Journalled
<1>16. CacheOK(O)'
  <2>1. \A q \in Pages \ (pager.dirty \ {p}) : db'.now[q] = pager.cache[q]
    BY <1>5, <1>6 DEF CacheOK
  <2> QED BY <1>6, <1>10, <1>12, <2>1 DEF CacheOK
<1>17. /\ ~Past => hdr <= last /\ pager.nRec = last - hdr
       /\ Past => hdr > last /\ Settl(journal)
       /\ \A k \in hdr + 1..last : journal.now[k].pg \in pager.needSync
       /\ hdr <= last => ~journal.now[hdr].magic
  BY <1>1, <1>2 DEF Underway
<1>18. Past' <=> Past
  <2>1. Past <=> pc.goal = "commit"
    BY <1>1 DEF Past
  <2>2. Past' <=> pc'.goal = "commit" /\ pc'.step \in {"page", "dbsync", "end"}
    BY DEF Past
  <2> QED BY <1>2, <1>13, <2>1, <2>2, IdleIs
<1>19. journal' = journal /\ writes' = writes /\ setting' = setting
  BY <1>1
<1>20. CASE pc.goal = "spill"
  <2>1. writes <= setting.writes
    BY <1>2, <1>20, IdleIs DEF Underway
  <2>2. pc' = Idle /\ pc'.step = "none" /\ pc'.goal = "none"
    BY <1>13, <1>20, IdleIs
  <2>3. Underway(O)'
    BY <1>6, <1>10, <1>12, <1>15, <1>16, <1>17, <1>18, <1>19, <2>1, <2>2 DEF Underway, Idle
  <2> QED BY <1>9, <1>14, <2>3 DEF Kept, Process
<1>21. CASE pc.goal = "commit"
  <2>1. pc'.goal = "commit" /\ pc'.step = IF pager'.dirty = {} THEN "dbsync" ELSE "page"
    BY <1>13, <1>21
  <2>2. Underway(O)'
    BY <1>6, <1>10, <1>12, <1>15, <1>16, <1>17, <1>18, <1>19, <2>1 DEF Underway
  <2> QED BY <1>9, <1>14, <2>2 DEF Kept, Process
<1> QED BY <1>2, <1>20, <1>21

(* A synced file holds what was written last.                              *)
LEMMA SettledOutcome ==
  ASSUME NEW d, DbOK(d)
  PROVE  /\ DbOK(Settled(d.now)) /\ Settled(d.now).now = d.now
         /\ \A p \in Pages : Settled(d.now).maybe[p] = {d.now[p]}
<1>1. d.now \in [Pages -> Values] /\ DOMAIN d.now = Pages
  BY DEF DbOK
<1>2. /\ Settled(d.now).now = d.now
      /\ Settled(d.now).maybe = [p \in Pages |-> {d.now[p]}]
      /\ Settled(d.now) = [now |-> d.now, maybe |-> [p \in Pages |-> {d.now[p]}]]
  BY <1>1 DEF Settled
<1>3. [p \in Pages |-> {d.now[p]}] \in [Pages -> SUBSET Values]
  BY <1>1
<1>4. Settled(d.now) \in [now : [Pages -> Values], maybe : [Pages -> SUBSET Values]]
  BY <1>1, <1>2, <1>3
<1> QED BY <1>2, <1>4 DEF DbOK

(* Syncing the file takes possibilities away.                              *)
LEMMA FileSynced ==
  ASSUME NEW O, Disk(O), db' = Settled(db.now),
         UNCHANGED <<journal, ghosts, safe, writes>>
  PROVE  /\ Disk(O)'
         /\ db'.now = db.now
         /\ \A p \in Pages : db'.maybe[p] = {db.now[p]}
         /\ \A p \in Pages : db.maybe[p] = {O[p]} => db'.maybe[p] = {O[p]}
<1>1. /\ DbOK(db') /\ db'.now = db.now
      /\ \A p \in Pages : db'.maybe[p] = {db.now[p]}
  BY SettledOutcome DEF Disk
<1>2. \A p \in Pages : db.now[p] \in db.maybe[p]
  BY DEF Disk, DbOK
<1>3. \A p \in Pages : db'.maybe[p] \subseteq db.maybe[p] /\ db'.maybe[p] # {}
  BY <1>1, <1>2
<1>4. \A j, Q : Gives(db.maybe, j, Q) => Gives(db'.maybe, j, Q)
  BY <1>3, FewerMay
<1>5. \A p \in Pages : db.maybe[p] = {O[p]} => db'.maybe[p] = {O[p]}
  BY <1>1, <1>2
<1>6. AllAre(db.maybe, O) => AllAre(db'.maybe, O)
  BY <1>5 DEF AllAre
<1>7. /\ journal' = journal /\ ghosts' = ghosts /\ safe' = safe /\ writes' = writes
  OBVIOUS
<1>8. /\ \A j \in Possible(journal) : Gives(db'.maybe, j, O)
      /\ \A g \in ghosts : \A j \in Possible(g) : Gives(db'.maybe, j, O) \/ Gives(db'.maybe, j, safe)
  BY <1>4 DEF Disk
<1>9. /\ Clean(journal, writes) /\ \A g \in ghosts : Clean(g, writes)
      /\ Whole(O) /\ Whole(safe) /\ (ghosts # {} => AllAre(db'.maybe, O))
  BY <1>6 DEF Disk
<1>10. Disk(O)'
  BY <1>1, <1>7, <1>8, <1>9 DEF Disk
<1> QED BY <1>1, <1>5, <1>10

(* Steps that leave the journal alone leave it that of the transaction.    *)
LEMMA JournalStays ==
  ASSUME NEW O, Disk(O), Journalled(O), UNCHANGED <<journal, ghosts, safe, writes>>,
         \A p \in Pages : db.maybe[p] = {O[p]} => db'.maybe[p] = {O[p]},
         hdr' = hdr, last' = last, orig' = orig, pager'.inJournal = pager.inJournal,
         \/ pager'.eState = pager.eState
         \/ hdr # 1 /\ pager'.eState = "WRITER_FINISHED"
  PROVE  Journalled(O)'
<1>1. orig \in 0..MaxPage
  BY PagerAssumption DEF Journalled, Holds, Contents
<1>2. Untouched(db'.maybe, journal, hdr, orig, O)
  <2>1. Untouched(db.maybe, journal, hdr, orig, O)
    BY DEF Journalled
  <2> QED BY <1>1, <2>1, UntouchedKept
<1>3. CASE pager'.eState = pager.eState
  BY <1>2, <1>3 DEF Journalled
<1>4. CASE hdr # 1 /\ pager'.eState = "WRITER_FINISHED"
  BY <1>2, <1>4 DEF Journalled
<1> QED BY <1>3, <1>4

(* sqlite3OsSync of the database file: at a commit it holds the cache from *)
(* then on, at a rollback the old contents.                                *)
LEMMA SyncFileKeeps ==
  ASSUME NEW O \in Transactions, Typed, Disk(O), Process(O), SyncFile, UNCHANGED setting
  PROVE  Kept(O)'
<1>1. /\ pc.step = "dbsync" /\ db' = Settled(db.now) /\ At("end")
      /\ pager' = (IF pc.goal = "commit" THEN [pager EXCEPT !.eState = "WRITER_FINISHED"]
                   ELSE pager)
      /\ UNCHANGED <<journal, ghosts, safe, writes, failures>>
  BY DEF SyncFile, SyncDb, Typed
<1>2. /\ Disk(O)' /\ db'.now = db.now
      /\ \A p \in Pages : db'.maybe[p] = {db.now[p]}
      /\ \A p \in Pages : db.maybe[p] = {O[p]} => db'.maybe[p] = {O[p]}
  BY <1>1, FileSynced
<1>3. pc' \in Pcs /\ pc'.step = "end" /\ pc'.goal = pc.goal
  BY <1>1, AtStep, StepsAre DEF Typed
<1>4. CASE Underway(O) /\ pc.goal = "commit"
  <2>1. pager' = [pager EXCEPT !.eState = "WRITER_FINISHED"] /\ pager \in Pagers
    BY <1>1, <1>4 DEF Typed
  <2>2. /\ pager'.dirty = pager.dirty /\ pager'.eState = "WRITER_FINISHED"
        /\ pager'.cache = pager.cache /\ pager'.needSync = pager.needSync
        /\ pager'.inJournal = pager.inJournal /\ pager'.nRec = pager.nRec
        /\ pager'.journalHdr = pager.journalHdr /\ pager'.journalOff = pager.journalOff
        /\ pager'.dbOrigSize = pager.dbOrigSize
    BY <2>1 DEF Pagers
  <2>3. pager' \in Pagers
    BY <2>1, PagerWith DEF States
  <2>4. hdr' = hdr /\ last' = last /\ orig' = orig
    BY <2>2 DEF hdr, last, orig
  <2>5. Past /\ Past'
    BY <1>1, <1>3, <1>4 DEF Past
  <2>6. /\ Journalled(O) /\ CacheOK(O) /\ hdr > 1 /\ hdr > last /\ Settl(journal)
        /\ pager.dirty = {} /\ hdr \in Nat /\ last \in Nat
        /\ \A k \in hdr + 1..last : journal.now[k].pg \in pager.needSync
    BY <1>1, <1>4, <2>5 DEF Underway, Typed, Pagers, hdr, last
  <2>7. Journalled(O)'
    <3>1. hdr # 1
      BY <2>6
    <3>2. UNCHANGED <<journal, ghosts, safe, writes>>
      BY <1>1
    <3> QED BY <1>2, <2>2, <2>4, <2>6, <3>1, <3>2, JournalStays
  <2>8. CacheOK(O)'
    BY <1>2, <2>2, <2>4, <2>6 DEF CacheOK
  <2>9. AllAre(db'.maybe, pager'.cache)
    <3>1. \A p \in Pages : db.now[p] = pager.cache[p]
      BY <2>6 DEF CacheOK
    <3> QED BY <1>2, <2>2, <3>1 DEF AllAre
  <2>10. Typed'
    BY <1>1, <1>3, <2>2, <2>3, <2>6, SettingKept DEF Typed
  <2>11. journal' = journal /\ ~(hdr' <= last')
    BY <1>1, <2>4, <2>6
  <2>12. Underway(O)'
    BY <1>3, <1>4, <2>2, <2>4, <2>5, <2>6, <2>7, <2>8, <2>9, <2>11 DEF Underway
  <2> QED BY <1>2, <2>10, <2>12 DEF Kept, Process
<1>5. CASE RollingBack(O)
  <2>1. pc.goal = "rollback" /\ pager' = pager
    BY <1>1, <1>5 DEF RollingBack
  <2>2. hdr' = hdr /\ last' = last /\ orig' = orig
    BY <2>1 DEF hdr, last, orig
  <2>3. Journalled(O)'
    BY <1>1, <1>2, <1>5, <2>1, <2>2, JournalStays DEF RollingBack
  <2>4. \A p \in Pages : Back(O, p) /\ Back(O, p)'
    BY <1>1, <1>2, <1>5, <2>1 DEF RollingBack, Back
  <2>5. AllAre(db'.maybe, O)
    BY <1>2, <2>4 DEF AllAre, Back
  <2>6. Typed'
    BY <1>1, <1>3, <2>1, SettingKept DEF Typed
  <2>7. RollingBack(O)'
    BY <1>3, <1>5, <2>1, <2>3, <2>4, <2>5 DEF RollingBack
  <2> QED BY <1>2, <2>6, <2>7 DEF Kept, Process
<1>6. CASE Recovering(O)
  <2>1. pc.goal = "recover" /\ pager' = pager /\ pager = Closed /\ db.now = O
    BY <1>1, <1>6 DEF Recovering
  <2>2. AllAre(db'.maybe, O)
    BY <1>2, <2>1 DEF AllAre
  <2>3. Typed'
    BY <1>1, <1>3, <2>1, SettingKept DEF Typed
  <2>4. journal' = journal /\ Hot(journal) /\ Settl(journal)
    BY <1>1, <1>6 DEF Recovering
  <2>5. Recovering(O)'
    BY <1>3, <2>1, <2>2, <2>4 DEF Recovering, Closed
  <2> QED BY <1>2, <2>3, <2>5 DEF Kept, Process
<1> QED BY <1>1, <1>4, <1>5, <1>6, WhichStep

(* Without a journal the file itself is what a reader gets.                *)
LEMMA NoJournalIs ==
  ASSUME NEW m, NEW O, NEW b
  PROVE  /\ Clean(NoJournal, b) /\ ~Hot(NoJournal)
         /\ \A j \in Possible(NoJournal) : Gives(m, j, O) <=> AllAre(m, O)
<1>1. /\ NoJournal.exists = FALSE /\ NoJournal.now = <<>> /\ NoJournal.maybe = <<>>
      /\ Len(<<>>) = 0 /\ <<>> \in Seq(Cells) /\ <<>> \in Seq(SUBSET Cells)
  BY DEF NoJournal
<1>2. ~NoJournal.exists
  BY <1>1
<1>3. NoJournal \in [exists : BOOLEAN, now : Seq(Cells), maybe : Seq(SUBSET Cells)]
  BY DEF NoJournal
<1>4. \A i : i \notin 1..Len(NoJournal.now)
  BY <1>1
<1>5. Filed(NoJournal)
  BY <1>1, <1>3, <1>4 DEF Filed
<1>6. FileOK(NoJournal)
  BY <1>2, <1>5 DEF FileOK
<1>7. Clean(NoJournal, b)
  BY <1>2, <1>4, <1>6 DEF Clean, Older
<1>8. ~Hot(NoJournal)
  BY <1>2 DEF Hot
<1>9. Possible(NoJournal) = {NoJournal}
  BY <1>2 DEF Possible
<1> QED BY <1>7, <1>8, <1>9 DEF Gives

(* The journal is deleted: the file holds Q for good, and whatever the     *)
(* directory shows after a power failure gives it or what was safe.        *)
LEMMA JournalDeleted ==
  ASSUME NEW O, NEW Q, Disk(O), Whole(Q), AllAre(db.maybe, Q),
         Q = O \/ (ghosts = {} /\ safe = O),
         journal' = NoJournal, ghosts' = ghosts \cup {journal},
         UNCHANGED <<db, safe, writes>>
  PROVE  Disk(Q)'
<1>1. /\ Clean(journal', writes) /\ \A j \in Possible(journal') : Gives(db.maybe, j, Q)
  BY NoJournalIs
<1>2. ASSUME NEW g \in ghosts', NEW j \in Possible(g)
      PROVE  Clean(g, writes) /\ (Gives(db.maybe, j, Q) \/ Gives(db.maybe, j, safe))
  <2>1. CASE g \in ghosts
    BY <1>2, <2>1 DEF Disk
  <2>2. CASE g = journal
    BY <1>2, <2>2 DEF Disk
  <2> QED BY <1>2, <2>1, <2>2
<1>3. \A g \in ghosts' : Clean(g, writes)
  BY DEF Disk
<1>4. db' = db /\ safe' = safe /\ writes' = writes
  OBVIOUS
<1> QED BY <1>1, <1>2, <1>3, <1>4 DEF Disk

(* pager_end_transaction deletes the journal: the commit, if it is one,    *)
(* happens here.                                                           *)
LEMMA EndJournalKeeps ==
  ASSUME NEW O \in Transactions, Typed, Disk(O), Process(O), EndJournal, UNCHANGED setting
  PROVE  \E Q \in Transactions : Kept(Q)' /\ (Q = O \/ (pc.goal = "commit" /\ Q = pager.cache))
<1>1. /\ pc.step = "end" /\ journal' = NoJournal /\ ghosts' = ghosts \cup {journal}
      /\ IF extraSync THEN At("endsync") /\ UNCHANGED pager
         ELSE pc' = Idle /\ pager' = Ended
      /\ UNCHANGED <<db, safe, writes, failures>>
  BY DEF EndJournal, Typed
<1>2. ASSUME NEW Q \in Transactions, Disk(Q)', AllAre(db.maybe, Q),
             pc.goal \in {"commit", "rollback", "recover"},
             IF pc.goal = "recover" THEN pager = Closed
             ELSE /\ pager.cache = Q
                  /\ pager.eState \in {"WRITER_CACHEMOD", "WRITER_DBMOD", "WRITER_FINISHED"}
      PROVE  Kept(Q)'
  <2>1. AllAre(db'.maybe, Q) /\ db.now = Q
    BY <1>1, <1>2, AllAreNow DEF Disk
  <2>2. CASE extraSync
    <3>1. pager' = pager /\ pc' \in Pcs /\ pc'.step = "endsync" /\ pc'.goal = pc.goal
      BY <1>1, <2>2, AtStep, StepsAre DEF Typed
    <3>2. Ending(Q)'
      BY <1>1, <1>2, <2>1, <3>1 DEF Ending, Closed
    <3>3. Typed'
      BY <1>1, <3>1, SettingKept DEF Typed
    <3> QED BY <1>2, <3>2, <3>3 DEF Kept, Process
  <2>3. CASE ~extraSync
    <3>1. pager' = Reading(Q) /\ pc' = Idle
      BY <1>1, <1>2, <2>1, <2>3 DEF Ended
    <3>2. Reader(Q)'
      BY <1>1, <2>1, <3>1, ReadingIs, NoJournalIs DEF Reader, Unused, Idle
    <3>3. Typed'
      BY <1>1, <3>1, ReadingIs, IdleIs, SettingKept DEF Typed
    <3> QED BY <1>2, <3>2, <3>3 DEF Kept, Process
  <2> QED BY <2>2, <2>3
<1>3. CASE Underway(O) /\ pc.goal = "commit"
  <2>1. /\ Whole(pager.cache) /\ AllAre(db.maybe, pager.cache) /\ hdr > 1 /\ Journalled(O)
    BY <1>1, <1>3 DEF Underway, CacheOK
  <2>2. hdr \in Nat
    BY DEF Typed, Pagers, hdr
  <2>3. hdr # 1
    BY <2>1, <2>2
  <2>4. ghosts = {} /\ safe = O /\ pager.eState \in {"WRITER_DBMOD", "WRITER_FINISHED"}
    BY <2>1, <2>3 DEF Journalled
  <2>5. PICK Q \in Transactions : Q = pager.cache
    BY <2>1, WholeIs
  <2>6. Whole(Q) /\ AllAre(db.maybe, Q)
    BY <2>1, <2>5
  <2>7. Disk(Q)'
    BY <1>1, <2>4, <2>6, JournalDeleted
  <2> QED BY <1>2, <1>3, <2>4, <2>5, <2>6, <2>7
<1>4. CASE RollingBack(O)
  <2>1. /\ pc.goal = "rollback" /\ AllAre(db.maybe, O)
        /\ pager.eState \in {"WRITER_CACHEMOD", "WRITER_DBMOD", "WRITER_FINISHED"}
        /\ \A p \in Pages : pager.cache[p] = O[p]
    BY <1>1, <1>4 DEF RollingBack, Journalled, Back
  <2>2. pager.cache = O
    <3>1. pager.cache \in [Pages -> Int] /\ O \in [Pages -> 0..MaxWrites + 1]
      BY DEF Typed, Pagers, Transactions
    <3>2. pager.cache = [p \in Pages |-> pager.cache[p]] /\ O = [p \in Pages |-> O[p]]
      BY <3>1
    <3> QED BY <2>1, <3>2
  <2>3. Disk(O)'
    <3>1. Whole(O)
      BY DEF Disk
    <3> QED BY <1>1, <2>1, <3>1, JournalDeleted
  <2> QED BY <1>2, <2>1, <2>2, <2>3
<1>5. CASE Recovering(O)
  <2>1. pc.goal = "recover" /\ AllAre(db.maybe, O) /\ pager = Closed
    BY <1>1, <1>5 DEF Recovering
  <2>2. Disk(O)'
    <3>1. Whole(O)
      BY DEF Disk
    <3> QED BY <1>1, <2>1, <3>1, JournalDeleted
  <2> QED BY <1>2, <2>1, <2>2
<1> QED BY <1>1, <1>3, <1>4, <1>5, WhichStep

(* The sync of the directory after the journal is deleted.                 *)
LEMMA EndSyncKeeps ==
  ASSUME NEW O \in Transactions, Typed, Disk(O), Process(O), EndSync, UNCHANGED setting
  PROVE  Kept(O)'
<1>1. /\ pc.step = "endsync" /\ ghosts' = {} /\ journal' = journal
      /\ safe' = Recovered /\ pc' = Idle /\ pager' = Ended
      /\ UNCHANGED <<db, writes, failures>>
  BY DEF EndSync, Typed
<1>2. Ending(O)
  BY <1>1, WhichStep
<1>3. journal = NoJournal /\ AllAre(db.maybe, O) /\ db.now = O
  BY <1>2, AllAreNow DEF Ending, Disk
<1>4. pager' = Reading(O)
  BY <1>1, <1>2, <1>3 DEF Ending, Ended
<1>5. safe' = O /\ Whole(O)
  BY <1>1, <1>3, NoJournalIs DEF Recovered, Restored, Disk
<1>6. Disk(O)'
  <2>1. /\ DbOK(db) /\ Clean(journal, writes) /\ \A j \in Possible(journal) : Gives(db.maybe, j, O)
    BY DEF Disk
  <2> QED BY <1>1, <1>5, <2>1 DEF Disk
<1>7. Reader(O)'
  BY <1>1, <1>3, <1>4, ReadingIs, NoJournalIs DEF Reader, Unused, Idle
<1>8. Typed'
  BY <1>1, <1>4, ReadingIs, IdleIs, SettingKept DEF Typed
<1> QED BY <1>6, <1>7, <1>8 DEF Kept, Process

(* What pager_playback copies back are records, behind a header.           *)
LEMMA ReplayedAre ==
  ASSUME NEW cells \in Seq(Cells), NEW own, NEW k \in Replayed(cells, own)
  PROVE  /\ k \in 2..Len(cells) /\ IsRecord(cells[k]) /\ cells[k] \in Records
         /\ Readable(cells, 1, own)
<1> DEFINE heads == {i \in Reached(cells, own) : Readable(cells, i, own)}
<1>1. Reached(cells, own) \subseteq 1..Len(cells) + 1 /\ Len(cells) \in Nat
  BY ReachedStep
<1>2. PICK i \in heads :
        k \in i + 1..i + Claimed(cells, i, own) /\ \A r \in i + 1..k : Good(cells, i, r)
  BY ReplayedAs DEF RecordsOf
<1>3. i \in Nat /\ i >= 1 /\ k \in Nat /\ k > i /\ k \in i + 1..k
  BY <1>1, <1>2
<1>4. Good(cells, i, k)
  BY <1>2, <1>3
<1>5. k \in 1..Len(cells) /\ IsRecord(cells[k])
  BY <1>4 DEF Good, IsRecord
<1>6. cells[k] \in Records
  BY <1>5 DEF Cells, Headers, Bad, IsRecord
<1>7. heads \subseteq Nat /\ heads # {}
  BY <1>1, <1>2
<1>8. PICK m \in heads : \A g \in heads : m <= g
  <2> HIDE DEF heads
  <2> QED BY <1>7, LeastNatural
<1>9. m = 1
  <2>1. SUFFICES ASSUME m # 1
                 PROVE  FALSE
    OBVIOUS
  <2>2. m \in 1..Len(cells) + 1 /\ m \in Reached(cells, own)
    BY <1>1, <1>8
  <2>3. PICK g \in 1..m - 1 : Leads(cells, own, g, m) /\ g \in Reached(cells, own)
    BY <2>1, <2>2, ReachedStep
  <2>4. g \in heads
    BY <2>3 DEF Leads
  <2> QED BY <1>8, <2>2, <2>3, <2>4
<1> QED BY <1>1, <1>3, <1>5, <1>6, <1>8, <1>9

(* pager_truncate takes away the pages beyond the size, and may add pages  *)
(* of zeros.                                                               *)
LEMMA TruncatedIs ==
  ASSUME NEW img \in [Pages -> Int], NEW size
  PROVE  /\ Truncated(img, size) \in [Pages -> Int]
         /\ img \in Image => Truncated(img, size) \in Image
         /\ \A p \in Pages :
              /\ p > size => Truncated(img, size)[p] = Absent
              /\ ~(p > size) /\ img[p] # Absent => Truncated(img, size)[p] = img[p]
<1>1. \A p \in Pages :
        Truncated(img, size)[p] = IF p > size THEN Absent
                                  ELSE IF img[p] = Absent THEN Garbage ELSE img[p]
  BY DEF Truncated
<1>2. Truncated(img, size) \in [Pages -> Int]
  BY DEF Truncated, Absent, Garbage
<1>3. img \in Image => Truncated(img, size) \in Image
  <2>1. -1 \in -1..MaxWrites + 1 /\ 0 \in -1..MaxWrites + 1
    BY PagerAssumption
  <2> QED BY <2>1 DEF Truncated, Absent, Garbage, Image
<1> QED BY <1>1, <1>2, <1>3

(* What the journal says during a recovery.                                *)
LEMMA RecoveryIs ==
  ASSUME NEW O \in Transactions, Disk(O), Recovering(O), pc.step # "hotsync"
  PROVE  /\ journal.now \in Seq(Cells)
         /\ Readable(journal.now, 1, 0) =>
              /\ Contents(O, journal.now[1].size)
              /\ \A k \in Replayed(journal.now, 0) :
                   /\ k \in 2..Len(journal.now) /\ journal.now[k].pg \in Pages
                   /\ journal.now[k].data = O[journal.now[k].pg]
              /\ \A p \in 1..journal.now[1].size :
                   (\A k \in Replayed(journal.now, 0) : journal.now[k].pg # p)
                     => db.maybe[p] = {O[p]}
         /\ ~Readable(journal.now, 1, 0) =>
              AllAre(db.maybe, O) /\ Replayed(journal.now, 0) = {}
<1>1. Filed(journal) /\ journal.exists /\ Hot(journal)
  BY DEF Disk, Clean, FileOK, Recovering, Hot
<1> DEFINE j == JournalFile(journal.now)
<1>2. j \in Possible(journal) /\ j.now = journal.now /\ j.exists /\ journal.now \in Seq(Cells)
  BY <1>1, PossibleAre, SettledFile DEF Filed
<1> HIDE DEF j
<1>3. Gives(db.maybe, j, O) /\ Hot(j)
  BY <1>1, <1>2 DEF Disk, Hot
<1>4. \A k \in Replayed(journal.now, 0) :
        /\ k \in 2..Len(journal.now) /\ journal.now[k].pg \in Pages
        /\ Readable(journal.now, 1, 0)
  BY <1>2, ReplayedAre DEF Records
<1> QED BY <1>2, <1>3, <1>4 DEF Gives

(* When pager_playback has copied all back the file holds O.               *)
LEMMA PlaybackEndsKeeps ==
  ASSUME NEW O \in Transactions, Typed, Disk(O), Process(O), PlaybackEnds, UNCHANGED setting
  PROVE  Kept(O)'
<1>1. /\ pc.step = "play" /\ ToPlay = {} /\ At(IF InFile THEN "dbsync" ELSE "end")
      /\ UNCHANGED <<db, journal, ghosts, pager, safe, writes, failures>>
  BY DEF PlaybackEnds
<1>2. /\ pc' \in Pcs /\ pc'.goal = pc.goal
      /\ pc'.step = (IF InFile THEN "dbsync" ELSE "end")
  <2> DEFINE s == IF InFile THEN "dbsync" ELSE "end"
  <2>1. s \in Steps /\ At(s)
    BY <1>1 DEF Steps
  <2> HIDE DEF s
  <2>2. pc' \in Pcs /\ pc'.goal = pc.goal /\ pc'.step = s
    BY <2>1, AtStep DEF Typed
  <2> QED BY <2>2 DEF s
<1>3. Disk(O)' /\ (Journalled(O) => Journalled(O)')
  BY <1>1, OnlyStep
<1>4. Typed'
  BY <1>1, <1>2, SettingKept DEF Typed
<1>5. Filed(journal) /\ journal.now \in Seq(Cells) /\ pc.page \in Nat
  BY DEF Disk, Clean, FileOK, Filed, Typed, Pcs
<1>6. CASE RollingBack(O)
  <2>1. Journalled(O) /\ pc.goal = "rollback" /\ Own = hdr
    BY <1>6 DEF RollingBack, Own, hdr
  <2>2. Replayed(journal.now, hdr) = {k \in 1..last : IsRecord(journal.now[k])}
    BY <1>5, <2>1, RollbackReplays DEF Journalled
  <2>3. last \in Nat
    BY DEF Typed, Pagers, last
  <2>4. \A k \in 1..last : IsRecord(journal.now[k]) => k <= pc.page
    BY <1>1, <1>5, <2>1, <2>2, <2>3 DEF ToPlay
  <2>5. \A k \in 1..last : IsRecord(journal.now[k]) => Back(O, journal.now[k].pg)
    BY <1>1, <1>6, <2>4 DEF RollingBack
  <2>6. \A p \in Pages : p \in pager.inJournal => Back(O, p)
    BY <2>1, <2>5 DEF Journalled
  <2>7. \A p \in Pages : Back(O, p)
    BY <1>1, <1>6, <2>6 DEF RollingBack
  <2>8. \A p \in Pages : Back(O, p)'
    BY <1>1, <2>7 DEF Back
  <2>9. hdr \in Nat /\ hdr >= 1
    BY <2>1 DEF Typed, Pagers, hdr, Journalled, Holds
  <2>10. InFile => hdr > 1
    BY <2>1, <2>9 DEF Journalled, InFile
  <2>11. ~InFile => AllAre(db.maybe, O)
    BY <2>1 DEF Journalled, InFile, Untouched
  <2>12. RollingBack(O)'
    BY <1>1, <1>2, <1>3, <1>6, <2>1, <2>8, <2>10, <2>11 DEF RollingBack, hdr
  <2> QED BY <1>3, <1>4, <2>12 DEF Kept, Process
<1>7. CASE Recovering(O)
  <2>1. /\ pc.goal = "recover" /\ Own = 0 /\ pager = Closed /\ InFile
        /\ Settl(journal) /\ Hot(journal)
    BY <1>1, <1>7, ClosedIs DEF Recovering, Own, InFile
  <2>2. \A p \in Pages : db.now[p] = O[p]
    <3>1. CASE ~Readable(journal.now, 1, 0)
      <4>1. AllAre(db.maybe, O)
        BY <1>1, <1>7, <3>1, RecoveryIs
      <4> QED BY <4>1, AllAreNow DEF Disk
    <3>2. CASE Readable(journal.now, 1, 0)
      <4>1. \A k \in Replayed(journal.now, 0) : k \in Nat
        BY <1>1, <1>7, <3>2, RecoveryIs
      <4>2. \A k \in Replayed(journal.now, 0) : k <= pc.page
        BY <1>1, <1>5, <2>1, <4>1 DEF ToPlay
      <4>3. /\ \A p \in Pages :
                 (\A k \in Replayed(journal.now, 0) : journal.now[k].pg # p)
                   => db.now[p] = O[p]
            /\ \A k \in Replayed(journal.now, 0) :
                 db.now[journal.now[k].pg] = O[journal.now[k].pg]
        BY <1>1, <1>7, <3>2, <4>2 DEF Recovering
      <4> QED BY <4>3
    <3> QED BY <3>1, <3>2
  <2>3. db.now = O
    <3>1. db.now = [p \in Pages |-> db.now[p]] /\ O = [p \in Pages |-> O[p]]
      BY DEF Disk, DbOK, Transactions
    <3> QED BY <2>2, <3>1
  <2>4. Recovering(O)'
    BY <1>1, <1>2, <2>1, <2>3 DEF Recovering, Closed
  <2> QED BY <1>3, <1>4, <2>4 DEF Kept, Process
<1> QED BY <1>1, <1>6, <1>7, WhichStep

(* A rollback of a journal restores O as long as the pages the journal     *)
(* does not have are kept.                                                 *)
LEMMA GivesKept ==
  ASSUME NEW m, NEW m2, NEW j, NEW O, Gives(m, j, O),
         \A p \in Pages : m[p] = {O[p]} => m2[p] = {O[p]}
  PROVE  Gives(m2, j, O)
<1>1. \A size : Contents(O, size) => \A p \in 1..size : p \in Pages
  BY PagerAssumption DEF Contents, Pages
<1>2. AllAre(m, O) => AllAre(m2, O)
  BY DEF AllAre
<1> QED BY <1>1, <1>2 DEF Gives

(* A playback puts back what the transaction found.                        *)
LEMMA DiskKept ==
  ASSUME NEW O, Disk(O), DbOK(db'), UNCHANGED <<journal, ghosts, safe, writes>>,
         \A p \in Pages : db.maybe[p] = {O[p]} => db'.maybe[p] = {O[p]}
  PROVE  Disk(O)'
<1>1. \A j : Gives(db.maybe, j, O) => Gives(db'.maybe, j, O)
  BY GivesKept
<1>2. AllAre(db.maybe, O) => AllAre(db'.maybe, O)
  BY DEF AllAre
<1>3. ASSUME NEW g \in ghosts, NEW j \in Possible(g)
      PROVE  Gives(db'.maybe, j, O) \/ Gives(db'.maybe, j, safe)
  <2>1. Gives(db.maybe, j, O) \/ Gives(db.maybe, j, safe)
    BY <1>3 DEF Disk
  <2>2. \A p \in Pages : db.maybe[p] = {O[p]} /\ db'.maybe[p] = {O[p]}
    BY <1>3 DEF Disk, AllAre
  <2>3. \A p \in Pages : db'.maybe[p] \subseteq db.maybe[p] /\ db'.maybe[p] # {}
    BY <2>2
  <2> QED BY <2>1, <2>3, FewerMay
<1>4. /\ Clean(journal, writes) /\ \A g \in ghosts : Clean(g, writes)
      /\ Whole(O) /\ Whole(safe) /\ (ghosts # {} => AllAre(db'.maybe, O))
      /\ \A j \in Possible(journal) : Gives(db'.maybe, j, O)
  BY <1>1, <1>2 DEF Disk
<1>5. journal' = journal /\ ghosts' = ghosts /\ safe' = safe /\ writes' = writes
  OBVIOUS
<1> QED BY <1>3, <1>4, <1>5 DEF Disk

(* The file cut to the size of the contents that belong in it.             *)
LEMMA CutIs ==
  ASSUME NEW d, DbOK(d), NEW size, NEW O, Contents(O, size),
         NEW e, e = [now |-> Truncated(d.now, size),
                     maybe |-> [p \in Pages |-> d.maybe[p] \cup {Truncated(d.now, size)[p]}]]
  PROVE  /\ DbOK(e)
         /\ \A p \in Pages : d.maybe[p] = {O[p]} => e.maybe[p] = {O[p]}
         /\ \A p \in Pages : p > size \/ d.now[p] = O[p] => e.now[p] = O[p]
<1> DEFINE now == Truncated(d.now, size)
<1>1. d.now \in [Pages -> Values] /\ d.maybe \in [Pages -> SUBSET Values]
      /\ \A p \in Pages : d.now[p] \in d.maybe[p]
  BY DEF DbOK
<1>2. /\ now \in [Pages -> Values]
      /\ \A p \in Pages :
           /\ p > size => now[p] = Absent
           /\ ~(p > size) /\ d.now[p] # Absent => now[p] = d.now[p]
  <2>1. d.now \in [Pages -> Int] /\ d.now \in Image
    BY <1>1, PagerAssumption DEF Values, Image
  <2>2. now \in Image
    BY <2>1, TruncatedIs
  <2>3. Image = [Pages -> Values]
    BY DEF Image, Values
  <2> QED BY <2>1, <2>2, <2>3, TruncatedIs
<1> HIDE DEF now
<1>3. /\ e = [now |-> now, maybe |-> [p \in Pages |-> d.maybe[p] \cup {now[p]}]]
      /\ e.now = now /\ e.maybe = [p \in Pages |-> d.maybe[p] \cup {now[p]}]
  BY DEF now
<1>4. [p \in Pages |-> d.maybe[p] \cup {now[p]}] \in [Pages -> SUBSET Values]
  BY <1>1, <1>2
<1>5. e \in [now : [Pages -> Values], maybe : [Pages -> SUBSET Values]]
  BY <1>2, <1>3, <1>4
<1>6. \A p \in Pages : e.maybe[p] = d.maybe[p] \cup {now[p]}
  BY <1>3
<1>7. ASSUME NEW p \in Pages
      PROVE  p > size \/ d.now[p] = O[p] => now[p] = O[p]
  <2>1. p \in Nat /\ size \in Nat
    BY PagerAssumption DEF Pages, Contents
  <2>2. p > size => O[p] = Absent
    BY <2>1 DEF Contents
  <2>3. ~(p > size) => O[p] # Absent
    BY <2>1 DEF Contents
  <2> QED BY <1>2, <2>2, <2>3
<1>8. \A p \in Pages : d.maybe[p] = {O[p]} => d.now[p] = O[p]
  BY <1>1
<1>9. \A p \in Pages : d.maybe[p] = {O[p]} => e.maybe[p] = {O[p]}
  BY <1>6, <1>7, <1>8
<1>10. \A p \in Pages : e.now[p] \in e.maybe[p]
  BY <1>3, <1>6
<1>11. \A p \in Pages : p > size \/ d.now[p] = O[p] => e.now[p] = O[p]
  BY <1>3, <1>7
<1> QED BY <1>5, <1>9, <1>10, <1>11 DEF DbOK

(* pager_playback takes the file back to the size in the journal's first   *)
(* header, and no page of O with it.                                       *)
LEMMA TruncateFileKeeps ==
  ASSUME NEW O \in Transactions, Typed, Disk(O), Process(O), TruncateFile, UNCHANGED setting
  PROVE  Kept(O)'
<1> DEFINE size == journal.now[1].size
           cut == [now |-> Truncated(db.now, size),
                   maybe |-> [p \in Pages |-> db.maybe[p] \cup {Truncated(db.now, size)[p]}]]
<1>1. /\ pc.step = "truncate" /\ At("play")
      /\ UNCHANGED <<journal, ghosts, safe, writes, failures>>
  BY DEF TruncateFile
<1>2. /\ Readable(journal.now, 1, Own) =>
           /\ db' = IF InFile THEN cut ELSE db
           /\ pager' = IF pc.goal = "recover" THEN pager
                       ELSE [pager EXCEPT !.cache = Truncated(@, size)]
      /\ ~Readable(journal.now, 1, Own) => db' = db /\ pager' = pager
  BY DEF TruncateFile
<1> HIDE DEF size, cut
<1>0. ASSUME Contents(O, size), DbOK(db)
      PROVE  /\ DbOK(cut)
             /\ \A p \in Pages : db.maybe[p] = {O[p]} => cut.maybe[p] = {O[p]}
             /\ \A p \in Pages : p > size \/ db.now[p] = O[p] => cut.now[p] = O[p]
  <2>1. PICK n : n = size
    OBVIOUS
  <2>2. PICK e : e = [now |-> Truncated(db.now, n),
                      maybe |-> [p \in Pages |-> db.maybe[p] \cup {Truncated(db.now, n)[p]}]]
    OBVIOUS
  <2>3. e = cut
    BY <2>1, <2>2 DEF cut
  <2> QED BY <1>0, <2>1, <2>2, <2>3, CutIs
<1>3. /\ pc' \in Pcs /\ pc'.goal = pc.goal /\ pc'.step = "play" /\ pc'.page = pc.page
  BY <1>1, AtStep, StepsAre DEF Typed
<1>4. DbOK(db) /\ Filed(journal)
  BY DEF Disk, Clean, FileOK
<1>5. CASE RollingBack(O)
  <2>1. Journalled(O) /\ pc.goal = "rollback" /\ Own = hdr /\ pc.page = 1
        /\ Holds(journal, hdr, last, orig, O)
    BY <1>1, <1>5 DEF RollingBack, Own, hdr, Journalled
  <2>2. Readable(journal.now, 1, hdr) /\ size = orig /\ Contents(O, orig)
    BY <1>4, <2>1, RollbackReplays DEF Holds, size
  <2>3. /\ db' = (IF InFile THEN cut ELSE db)
        /\ pager' = [pager EXCEPT !.cache = Truncated(pager.cache, orig)]
    BY <1>2, <2>1, <2>2
  <2>4. /\ DbOK(cut)
        /\ \A p \in Pages : db.maybe[p] = {O[p]} => cut.maybe[p] = {O[p]}
        /\ \A p \in Pages : p > orig \/ db.now[p] = O[p] => cut.now[p] = O[p]
    BY <1>0, <1>4, <2>2
  <2>5. /\ DbOK(db')
        /\ \A p \in Pages : db.maybe[p] = {O[p]} => db'.maybe[p] = {O[p]}
    BY <1>4, <2>3, <2>4
  <2>6. Disk(O)'
    BY <1>1, <2>5, DiskKept
  <2>7. /\ pager \in Pagers /\ pager.cache \in [Pages -> Int] /\ pager.cache \in Image
    BY DEF Typed, Pagers
  <2>8. /\ Truncated(pager.cache, orig) \in [Pages -> Int]
        /\ Truncated(pager.cache, orig) \in Image
        /\ \A p \in Pages :
             /\ p > orig => Truncated(pager.cache, orig)[p] = Absent
             /\ ~(p > orig) /\ pager.cache[p] # Absent
                  => Truncated(pager.cache, orig)[p] = pager.cache[p]
    BY <2>7, TruncatedIs
  <2>9. /\ pager'.cache = Truncated(pager.cache, orig) /\ pager'.eState = pager.eState
        /\ pager'.dirty = pager.dirty /\ pager'.needSync = pager.needSync
        /\ pager'.inJournal = pager.inJournal /\ pager'.nRec = pager.nRec
        /\ pager'.journalHdr = pager.journalHdr /\ pager'.journalOff = pager.journalOff
        /\ pager'.dbOrigSize = pager.dbOrigSize
    BY <2>3, <2>7 DEF Pagers
  <2>10. pager' \in Pagers
    BY <2>3, <2>7, <2>8, PagerWith
  <2>11. hdr' = hdr /\ last' = last /\ orig' = orig
    BY <2>9 DEF hdr, last, orig
  <2>12. Journalled(O)'
    BY <1>1, <2>1, <2>5, <2>9, <2>11, JournalStays
  <2>13. Typed'
    BY <1>1, <1>3, <2>8, <2>9, <2>10, SettingKept DEF Typed
  <2>14. ASSUME NEW p \in Pages, p > orig \/ p \notin pager.inJournal
         PROVE  Back(O, p)'
    <3>1. p \in Nat /\ orig \in 0..MaxPage /\ hdr \in Nat /\ last \in Nat /\ hdr <= last + 1
      BY <2>1, PagerAssumption DEF Pages, Holds, Contents, Typed, Pagers, hdr, last
    <3>2. pager'.cache[p] = O[p]
      <4>1. CASE p > orig
        BY <2>2, <2>8, <2>9, <4>1, <3>1 DEF Contents
      <4>2. CASE ~(p > orig)
        <5>1. p \in 1..orig
          BY <3>1, <4>2 DEF Pages
        <5>2. pager.cache[p] = O[p]
          BY <1>1, <1>5, <2>14, <4>2, <5>1 DEF RollingBack
        <5>3. O[p] # Absent
          BY <2>2, <3>1, <4>2 DEF Contents
        <5> QED BY <2>8, <2>9, <4>2, <5>2, <5>3
      <4> QED BY <4>1, <4>2
    <3>3. (p > orig /\ InFile) \/ db.now[p] = O[p]
      <4>1. CASE hdr = 1
        <5>1. AllAre(db.maybe, O)
          BY <2>1, <4>1 DEF Journalled, Untouched
        <5> QED BY <1>4, <5>1 DEF AllAre, DbOK
      <4>2. CASE hdr # 1
        <5>1. InFile
          BY <2>1, <4>2 DEF Journalled, InFile
        <5>2. CASE ~(p > orig)
          <6>1. p \in 1..orig /\ p \notin pager.inJournal
            BY <2>14, <3>1, <5>2 DEF Pages
          <6>2. \A k \in 1..last : IsRecord(journal.now[k]) => journal.now[k].pg # p
            BY <2>1, <6>1 DEF Journalled
          <6>3. \A k \in 1..hdr - 1 : k \in 1..last
            BY <3>1
          <6>4. db.maybe[p] = {O[p]}
            BY <2>1, <4>2, <6>1, <6>2, <6>3 DEF Journalled, Untouched
          <6> QED BY <1>4, <6>4 DEF DbOK
        <5> QED BY <5>1, <5>2
      <4> QED BY <4>1, <4>2
    <3>4. db'.now[p] = O[p]
      BY <2>3, <2>4, <3>3
    <3> QED BY <3>2, <3>4 DEF Back
  <2>15. ASSUME NEW k \in 1..last, k <= 1
         PROVE  ~IsRecord(journal.now[k])
    <3>1. k = 1
      BY <2>15
    <3> QED BY <2>2, <3>1 DEF Readable, IsRecord
  <2>16. pc'.page = 1 /\ journal' = journal
    BY <1>1, <1>3, <2>1
  <2>17. (\A k \in 1..last : k <= pc.page /\ IsRecord(journal.now[k])
                               => Back(O, journal.now[k].pg))'
    BY <2>11, <2>15, <2>16
  <2>18. (\A p \in Pages : p > orig \/ p \notin pager.inJournal => Back(O, p))'
    BY <2>9, <2>11, <2>14
  <2>19. pager'.eState # "WRITER_FINISHED"
    BY <1>5, <2>9 DEF RollingBack
  <2>20. RollingBack(O)'
    BY <1>3, <2>1, <2>12, <2>17, <2>18, <2>19 DEF RollingBack
  <2> QED BY <2>6, <2>13, <2>20 DEF Kept, Process
<1>6. CASE Recovering(O)
  <2>1. /\ pc.goal = "recover" /\ Own = 0 /\ pager = Closed /\ InFile /\ pc.page = 1
        /\ Settl(journal) /\ Hot(journal) /\ pager' = pager
    BY <1>1, <1>2, <1>6, ClosedIs DEF Recovering, Own, InFile
  <2>2. Typed'
    BY <1>1, <1>3, <2>1, SettingKept DEF Typed
  <2>3. CASE ~Readable(journal.now, 1, 0)
    <3>1. db' = db
      BY <1>2, <2>1, <2>3
    <3>2. Disk(O)'
      BY <1>1, <3>1 DEF Disk
    <3>3. journal' = journal
      BY <1>1
    <3>4. Recovering(O)'
      BY <1>3, <2>1, <2>3, <3>3 DEF Recovering, Closed
    <3> QED BY <2>2, <3>2, <3>4 DEF Kept, Process
  <2>4. CASE Readable(journal.now, 1, 0)
    <3>1. /\ Contents(O, size) /\ journal.now \in Seq(Cells)
          /\ \A k \in Replayed(journal.now, 0) : k \in 2..Len(journal.now)
          /\ \A p \in 1..size :
               (\A k \in Replayed(journal.now, 0) : journal.now[k].pg # p)
                 => db.maybe[p] = {O[p]}
      BY <1>1, <1>6, <2>4, RecoveryIs DEF size
    <3>2. db' = cut
      BY <1>2, <2>1, <2>4
    <3>3. /\ DbOK(cut)
          /\ \A p \in Pages : db.maybe[p] = {O[p]} => cut.maybe[p] = {O[p]}
          /\ \A p \in Pages : p > size \/ db.now[p] = O[p] => cut.now[p] = O[p]
      BY <1>0, <1>4, <3>1
    <3>4. Disk(O)'
      BY <1>1, <3>2, <3>3, DiskKept
    <3>5. ASSUME NEW p \in Pages,
                 p > size \/ (\A k \in Replayed(journal.now, 0) : journal.now[k].pg # p)
          PROVE  db'.now[p] = O[p]
      <4>1. CASE p > size
        BY <3>2, <3>3, <4>1
      <4>2. CASE ~(p > size)
        <5>1. p \in 1..size
          <6>1. p \in Nat /\ p >= 1 /\ size \in Nat
            BY <3>1, PagerAssumption DEF Pages, Contents
          <6> QED BY <4>2, <6>1
        <5>2. db.maybe[p] = {O[p]}
          BY <3>1, <3>5, <4>2, <5>1
        <5>3. db.now[p] = O[p]
          BY <1>4, <5>2 DEF DbOK
        <5> QED BY <3>2, <3>3, <5>3
      <4> QED BY <4>1, <4>2
    <3>6. \A k \in Replayed(journal.now, 0) : ~(k <= 1)
      BY <3>1
    <3>7. journal' = journal /\ pc'.page = 1
      BY <1>1, <1>3, <2>1
    <3>8. Recovering(O)'
      BY <1>3, <2>1, <3>5, <3>6, <3>7 DEF Recovering, Closed, size
    <3> QED BY <2>2, <3>4, <3>8 DEF Kept, Process
  <2> QED BY <2>3, <2>4
<1> QED BY <1>1, <1>5, <1>6, WhichStep

(* pager_playback_one_page: each page it writes gets what it had in O, so  *)
(* the journal can be rolled back once more.                               *)
LEMMA PlayBackKeeps ==
  ASSUME NEW O \in Transactions, Typed, Disk(O), Process(O), PlayBack, UNCHANGED setting
  PROVE  Kept(O)'
<1>1. PICK k : k = Min(ToPlay)
  OBVIOUS
<1>2. PICK q, v : q = journal.now[k].pg /\ v = journal.now[k].data
  OBVIOUS
<1>3. /\ pc.step = "play" /\ ToPlay # {}
      /\ IF Restorable(k) THEN PutPage(q, v) ELSE UNCHANGED db
      /\ pager' = (IF pc.goal = "recover" THEN pager ELSE [pager EXCEPT !.cache[q] = v])
      /\ pc' = [pc EXCEPT !.page = k]
      /\ UNCHANGED <<journal, ghosts, safe, writes, failures>>
  BY <1>1, <1>2 DEF PlayBack
<1>4. DbOK(db) /\ Filed(journal) /\ journal.now \in Seq(Cells) /\ pc.page \in Nat /\ pc \in Pcs
  BY DEF Disk, Clean, FileOK, Filed, Typed, Pcs
<1>5. \A i \in Replayed(journal.now, Own) : i \in 2..Len(journal.now) /\ journal.now[i].pg \in Pages
  BY <1>4, ReplayedAre DEF Records
<1>6. /\ k \in Nat /\ k \in Replayed(journal.now, Own) /\ k > pc.page
      /\ \A i \in Replayed(journal.now, Own) : i > pc.page => k <= i
  <2>1. ToPlay \subseteq Nat
    BY <1>5 DEF ToPlay
  <2>2. k \in ToPlay /\ \A i \in ToPlay : k <= i
    BY <1>1, <1>3, <2>1, LeastNatural
  <2> QED BY <2>1, <2>2 DEF ToPlay
<1>7. /\ pc' \in Pcs /\ pc'.goal = pc.goal /\ pc'.step = "play" /\ pc'.page = k
  BY <1>3, <1>4, <1>6 DEF Pcs
<1>8. q \in Pages /\ journal' = journal
  BY <1>2, <1>3, <1>5, <1>6
<1>9. O[q] \in Int /\ O[q] \in -1..MaxWrites + 1 /\ O[q] \in Values
  BY <1>8, PagerAssumption DEF Transactions, Values
<1>10. ASSUME v = O[q]
       PROVE  /\ Disk(O)'
              /\ \A p \in Pages : db.maybe[p] = {O[p]} => db'.maybe[p] = {O[p]}
              /\ \A p \in Pages : db.now[p] = O[p] => db'.now[p] = O[p]
              /\ Restorable(k) => db'.now[q] = O[q]
  <2>1. CASE Restorable(k)
    <3>1. PutPage(q, O[q])
      BY <1>3, <1>10, <2>1
    <3>2. /\ DbOK(db') /\ db'.now[q] = O[q]
          /\ db.maybe[q] = {O[q]} => db'.maybe[q] = {O[q]}
          /\ \A p \in Pages \ {q} : db'.now[p] = db.now[p] /\ db'.maybe[p] = db.maybe[p]
      BY <1>4, <1>8, <1>9, <3>1, PutPageIs
    <3>3. /\ \A p \in Pages : db.maybe[p] = {O[p]} => db'.maybe[p] = {O[p]}
          /\ \A p \in Pages : db.now[p] = O[p] => db'.now[p] = O[p]
      BY <3>2
    <3> QED BY <1>3, <3>2, <3>3, DiskKept
  <2>2. CASE ~Restorable(k)
    <3>1. db' = db
      BY <1>3, <2>2
    <3>2. Disk(O)'
      BY <1>3, <3>1 DEF Disk
    <3> QED BY <2>2, <3>1, <3>2
  <2> QED BY <2>1, <2>2
<1>11. CASE RollingBack(O)
  <2>1. Journalled(O) /\ pc.goal = "rollback" /\ Own = hdr /\ Holds(journal, hdr, last, orig, O)
        /\ pager.eState \in {"WRITER_CACHEMOD", "WRITER_DBMOD"}
    BY <1>11 DEF RollingBack, Own, hdr, Journalled
  <2>2. Replayed(journal.now, hdr) = {i \in 1..last : IsRecord(journal.now[i])}
    BY <1>4, <2>1, RollbackReplays
  <2>3. k \in 1..last /\ IsRecord(journal.now[k]) /\ last \in Nat /\ hdr \in Nat /\ orig \in Nat
    BY <1>6, <2>1, <2>2 DEF Typed, Pagers, hdr, last, orig
  <2>4. v = O[q] /\ q <= orig
    <3>1. last \in Nat /\ \A i \in 1..last : IsRecord(journal.now[i]) =>
            journal.now[i].data = O[journal.now[i].pg] /\ journal.now[i].pg <= orig
      BY <2>1, <2>3 DEF Holds
    <3> QED BY <1>2, <2>3, <3>1
  <2>5. pager \in Pagers /\ pager.cache \in [Pages -> Int] /\ pager.cache \in Image
    BY DEF Typed, Pagers
  <2> DEFINE c == [pager.cache EXCEPT ![q] = O[q]]
  <2>6. c \in [Pages -> Int] /\ c \in Image
    BY <1>8, <1>9, <2>5 DEF Image
  <2>7. pager' = [pager EXCEPT !.cache = c]
    BY <1>3, <2>1, <2>4
  <2>8. /\ c[q] = O[q]
        /\ \A p \in Pages : p # q => c[p] = pager.cache[p]
    BY <1>8, <2>5
  <2> HIDE DEF c
  <2>9. /\ pager'.cache = c /\ pager'.eState = pager.eState
         /\ pager'.dirty = pager.dirty /\ pager'.needSync = pager.needSync
         /\ pager'.inJournal = pager.inJournal /\ pager'.nRec = pager.nRec
         /\ pager'.journalHdr = pager.journalHdr /\ pager'.journalOff = pager.journalOff
         /\ pager'.dbOrigSize = pager.dbOrigSize
    BY <2>5, <2>7 DEF Pagers
  <2>10. pager' \in Pagers
    BY <2>5, <2>6, <2>7, PagerWith
  <2>11. hdr' = hdr /\ last' = last /\ orig' = orig
    BY <2>9 DEF hdr, last, orig
  <2>12. Journalled(O)'
    BY <1>3, <1>10, <2>1, <2>4, <2>9, <2>11, JournalStays
  <2>13. Typed'
    BY <1>3, <1>7, <2>6, <2>9, <2>10, SettingKept DEF Typed
  <2>14. /\ \A p \in Pages : p > orig \/ p \notin pager.inJournal => Back(O, p)
         /\ \A i \in 1..last : i <= pc.page /\ IsRecord(journal.now[i])
              => Back(O, journal.now[i].pg)
    BY <1>3, <1>11 DEF RollingBack
  <2>15. db'.now[q] = O[q]
    <3>1. CASE Restorable(k)
      BY <1>10, <2>4, <3>1
    <3>2. CASE db.now[q] = O[q]
      BY <1>8, <1>10, <2>4, <3>2
    <3>3. CASE ~Restorable(k)
      <4>1. CASE hdr = 1
        <5>1. AllAre(db.maybe, O)
          BY <2>1, <4>1 DEF Journalled, Untouched
        <5>2. db.now[q] = O[q]
          BY <1>4, <1>8, <5>1 DEF AllAre, DbOK
        <5> QED BY <3>2, <5>2
      <4>2. CASE hdr # 1
        <5>1. InFile /\ ~(k < hdr)
          BY <2>1, <3>3, <4>2 DEF Restorable, Journalled, InFile, hdr
        <5>2. CASE \E i \in 1..hdr - 1 : IsRecord(journal.now[i]) /\ journal.now[i].pg = q
          <6>1. PICK i \in 1..hdr - 1 : IsRecord(journal.now[i]) /\ journal.now[i].pg = q
            BY <5>2
          <6>2. i \in 1..last /\ i < k
            BY <2>3, <5>1
          <6>3. i \in Replayed(journal.now, Own)
            BY <2>1, <2>2, <6>1, <6>2
          <6>4. i <= pc.page
            BY <1>4, <1>6, <6>2, <6>3
          <6>5. Back(O, q)
            BY <2>14, <6>1, <6>2, <6>4
          <6> QED BY <3>2, <6>5 DEF Back
        <5>3. CASE ~\E i \in 1..hdr - 1 : IsRecord(journal.now[i]) /\ journal.now[i].pg = q
          <6>1. q \in 1..orig
            BY <1>8, <2>3, <2>4, PagerAssumption DEF Pages
          <6>2. db.maybe[q] = {O[q]}
            BY <2>1, <4>2, <5>3, <6>1 DEF Journalled, Untouched
          <6>3. db.now[q] = O[q]
            BY <1>4, <1>8, <6>2 DEF DbOK
          <6> QED BY <3>2, <6>3
        <5> QED BY <5>2, <5>3
      <4> QED BY <4>1, <4>2
    <3> QED BY <3>1, <3>3
  <2>16. ASSUME NEW p \in Pages, Back(O, p) \/ p = q
         PROVE  Back(O, p)'
    <3>1. pager'.cache[p] = O[p]
      BY <2>8, <2>9, <2>16 DEF Back
    <3>2. db'.now[p] = O[p]
      BY <1>10, <2>4, <2>15, <2>16 DEF Back
    <3> QED BY <3>1, <3>2 DEF Back
  <2>17. (\A p \in Pages : p > orig \/ p \notin pager.inJournal => Back(O, p))'
    BY <2>9, <2>11, <2>14, <2>16
  <2>18. ASSUME NEW i \in 1..last, i <= k, IsRecord(journal.now[i]), NEW p, p = journal.now[i].pg
         PROVE  Back(O, p)'
    <3>1. i \in Replayed(journal.now, Own) /\ i \in Nat
      BY <2>1, <2>2, <2>18
    <3>2. i <= pc.page \/ i = k
      BY <1>4, <1>6, <2>18, <3>1
    <3>3. p \in Pages
      BY <1>5, <2>18, <3>1
    <3>4. Back(O, p) \/ p = q
      BY <1>2, <2>14, <2>18, <3>2
    <3> QED BY <2>16, <3>3, <3>4
  <2>19. (\A i \in 1..last : i <= pc.page /\ IsRecord(journal.now[i])
            => Back(O, journal.now[i].pg))'
    BY <1>7, <1>8, <2>11, <2>18
  <2>20. RollingBack(O)'
    BY <1>7, <1>11, <2>1, <2>9, <2>12, <2>17, <2>19 DEF RollingBack
  <2> QED BY <1>10, <2>4, <2>13, <2>20 DEF Kept, Process
<1>12. CASE Recovering(O)
  <2>1. /\ pc.goal = "recover" /\ Own = 0 /\ pager = Closed /\ InFile
        /\ Settl(journal) /\ Hot(journal) /\ pager' = pager
    BY <1>3, <1>12, ClosedIs DEF Recovering, Own, InFile
  <2>2. Readable(journal.now, 1, 0) /\ k \in Replayed(journal.now, 0)
    BY <1>4, <1>6, <2>1, ReplayedAre
  <2>3. v = O[q] /\ \A i \in Replayed(journal.now, 0) : i \in Nat /\ journal.now[i].pg \in Pages
    BY <1>2, <1>3, <1>12, <2>2, RecoveryIs
  <2>4. db'.now[q] = O[q]
    BY <1>10, <2>1, <2>3 DEF Restorable
  <2>5. /\ \A p \in Pages :
             p > journal.now[1].size
               \/ (\A i \in Replayed(journal.now, 0) : journal.now[i].pg # p)
             => db.now[p] = O[p]
        /\ \A i \in Replayed(journal.now, 0) : i <= pc.page =>
             db.now[journal.now[i].pg] = O[journal.now[i].pg]
    BY <1>3, <1>12, <2>2 DEF Recovering
  <2>6. /\ \A p \in Pages :
             p > journal.now[1].size
               \/ (\A i \in Replayed(journal.now, 0) : journal.now[i].pg # p)
             => db'.now[p] = O[p]
    BY <1>10, <2>3, <2>5
  <2>7. ASSUME NEW i \in Replayed(journal.now, 0), i <= k
        PROVE  db'.now[journal.now[i].pg] = O[journal.now[i].pg]
    <3>1. i <= pc.page \/ i = k
      BY <1>4, <1>6, <2>1, <2>3, <2>7
    <3> QED BY <1>2, <1>10, <2>3, <2>4, <2>5, <3>1
  <2>8. Typed'
    BY <1>3, <1>7, <2>1, SettingKept DEF Typed
  <2>9. Recovering(O)'
    BY <1>7, <1>8, <2>1, <2>6, <2>7 DEF Recovering, Closed
  <2> QED BY <1>10, <2>3, <2>8, <2>9 DEF Kept, Process
<1> QED BY <1>3, <1>11, <1>12, WhichStep

(* What is found after a power failure is a file with nothing unsettled.   *)
LEMMA CleanOutcome ==
  ASSUME NEW j, NEW b, Clean(j, b), NEW k \in Possible(j)
  PROVE  Clean(k, b) /\ Filed(k) /\ \A i \in Possible(k) : i = k
<1>1. Filed(j) /\ FileOK(j) /\ Older(j, b)
  BY DEF Clean, FileOK
<1>2. CASE ~j.exists
  <2>1. k = NoJournal
    BY <1>2 DEF Possible
  <2>2. Clean(NoJournal, b) /\ Possible(NoJournal) = {NoJournal}
    BY NoJournalIs DEF Possible, NoJournal
  <2> QED BY <2>1, <2>2 DEF Clean, FileOK
<1>3. CASE j.exists
  <2>1. /\ k = JournalFile(k.now) /\ k.exists
        /\ k.now \in Seq(Cells) /\ Len(k.now) = Len(j.now)
        /\ \A i \in 1..Len(j.now) : k.now[i] \in j.maybe[i]
    BY <1>1, <1>3, PossibleAre
  <2>2. Filed(k) /\ Settl(k)
    BY <2>1, SettledFile
  <2>3. FileOK(k) /\ Len(k.now) > 0 /\ Len(k.now) \in Nat
    BY <1>1, <1>3, <2>1, <2>2 DEF FileOK
  <2>4. \A i \in 1..Len(k.now) : k.maybe[i] = {k.now[i]} /\ k.maybe[i] \subseteq j.maybe[i]
    BY <2>1, <2>2 DEF Settl
  <2>5. Older(k, b)
    BY <1>1, <2>1, <2>4 DEF Older
  <2>6. ASSUME NEW c \in k.maybe[1], Cold(c)
        PROVE  NoHeaderAfter(k, 1)
    <3>1. c \in j.maybe[1]
      BY <2>3, <2>4, <2>6
    <3>2. NoHeaderAfter(j, 1)
      BY <1>3, <2>6, <3>1 DEF Clean
    <3>3. \A i \in 1 + 1..Len(k.now) : i \in 1..Len(k.now)
      BY <2>3
    <3> QED BY <2>1, <2>4, <3>2, <3>3 DEF NoHeaderAfter
  <2>7. Cold(k.now[1]) => \A c \in k.maybe[1] : ~IsHeader(c)
    BY <2>3, <2>4 DEF Cold, IsHeader
  <2>8. Clean(k, b)
    BY <2>3, <2>5, <2>6, <2>7 DEF Clean
  <2>9. \A i \in Possible(k) : i = k
    BY <2>1, <2>2, PossibleAre
  <2> QED BY <2>2, <2>8, <2>9
<1> QED BY <1>2, <1>3

(* After a power failure the file with its journal is the old or the new   *)
(* content: O, or safe if the commit had not been synced.                  *)
LEMMA PowerLossKeeps ==
  ASSUME NEW O \in Transactions, Typed, Disk(O), Process(O), PowerLoss, UNCHANGED setting
  PROVE  \E Q \in {O, safe} : Q \in Transactions /\ Kept(Q)'
<1>1. /\ failures < setting.failures
      /\ ghosts' = {} /\ pager' = Closed /\ pc' = Idle
      /\ safe' = Recovered' /\ failures' = failures + 1 /\ writes' = writes
  BY DEF PowerLoss
<1>2. PICK now \in Outcomes(db) : db' = Settled(now)
  BY DEF PowerLoss
<1>3. PICK j \in {journal} \cup ghosts : journal' \in Possible(j)
  BY DEF PowerLoss
<1>4. /\ DbOK(db)  /\ db.now \in [Pages -> Values] /\ db.maybe \in [Pages -> SUBSET Values]
      /\ Whole(O) /\ Whole(safe)
  BY DEF Disk, DbOK
<1>5. now = [p \in Pages |-> now[p]] /\ \A p \in Pages : now[p] \in db.maybe[p]
  BY <1>2, <1>4, OutcomesAre DEF DbOK
<1>6. now \in [Pages -> Values]
  BY <1>4, <1>5
<1>7. /\ db'.now = now /\ DbOK(db')
      /\ \A p \in Pages : db'.maybe[p] = {now[p]}
  <2>1. /\ Settled(now).now = now
        /\ Settled(now).maybe = [p \in Pages |-> {now[p]}]
        /\ Settled(now) = [now |-> now, maybe |-> [p \in Pages |-> {now[p]}]]
    BY <1>6 DEF Settled
  <2>2. [p \in Pages |-> {now[p]}] \in [Pages -> SUBSET Values]
    BY <1>6
  <2>3. Settled(now) \in [now : [Pages -> Values], maybe : [Pages -> SUBSET Values]]
    BY <1>6, <2>1, <2>2
  <2> QED BY <1>2, <2>1, <2>3 DEF DbOK
<1>8. \A p \in Pages : db'.maybe[p] \subseteq db.maybe[p] /\ db'.maybe[p] # {}
  BY <1>5, <1>7
<1>9. /\ Clean(journal', writes) /\ Filed(journal')
      /\ \A i \in Possible(journal') : i = journal'
  BY <1>3, CleanOutcome DEF Disk
<1>10. PICK Q \in {O, safe} : Gives(db.maybe, journal', Q)
  BY <1>3 DEF Disk
<1>11. Q \in Transactions /\ Whole(Q)
  BY <1>4, <1>10, WholeIs
<1>12. \A i \in Possible(journal') : Gives(db'.maybe, i, Q)
  <2>1. Gives(db'.maybe, journal', Q)
    BY <1>8, <1>9, <1>10, FewerMay
  <2> QED BY <1>9, <2>1
<1>13. safe' = Q
  BY <1>1, <1>7, <1>9, <1>11, <1>12, RecoveredIs DEF Recovered
<1>14. Disk(Q)'
  BY <1>1, <1>7, <1>9, <1>11, <1>12, <1>13 DEF Disk
<1>15. Typed'
  BY <1>1, ClosedIs, IdleIs, SettingKept DEF Typed
<1>16. (pager = Closed /\ pc = Idle)'
  BY <1>1 DEF Closed, Idle
<1> QED BY <1>11, <1>14, <1>15, <1>16 DEF Kept, Process

(* A journal a page may be added to.                                       *)
Writable(j, hd, off, O) ==
  /\ Filed(j) /\ Holds(j, hd, off, orig, O) /\ hd <= off /\ hd \in Nat /\ off \in Nat
  /\ ~j.now[hd].magic /\ j.now[hd].cksumInit \in Int /\ j.now[hd].cksumInit <= writes
  /\ Older(j, writes) /\ Untouched(db.maybe, j, hd, orig, O)
  /\ pager.inJournal = {j.now[k].pg : k \in {k \in 1..off : IsRecord(j.now[k])}}
  /\ pager.nRec = off - hd
  /\ \A k \in hd + 1..off : j.now[k].pg \in pager.needSync

(* pager_open_journal: records may follow the header of a new journal.     *)
LEMMA OpenedIsWritable ==
  ASSUME NEW O \in Transactions, Typed, Disk(O), Reader(O), pager.eState = "WRITER_LOCKED"
  PROVE  Writable(OpenedJournal, 1, 1, O) /\ OpenedJournal.now[1].cksumInit = writes
<1> DEFINE old == IF journal.exists THEN journal ELSE JournalFile(<<>>)
           c == Header(orig, FALSE, 0)
<1>1. ~noSync /\ OpenedJournal = PutCell(old, 1, c)
  <2>1. ~noSync
    BY DEF Typed
  <2>2. PICK f, n : f = noSync /\ n = IF noSync THEN -1 ELSE 0
    OBVIOUS
  <2>3. f = FALSE /\ n = 0
    BY <2>1, <2>2 DEF noSync
  <2>4. OpenedJournal = PutCell(old, 1, Header(orig, f, n))
    BY <2>2 DEF OpenedJournal, orig
  <2> QED BY <2>1, <2>3, <2>4
<1>2. writes \in Int /\ orig \in Nat
  BY DEF Typed, Pagers, orig
<1>3. NewHeader(c, writes, orig)
  BY <1>2, NewHeaderIs DEF Header
<1>4. /\ Filed(old) /\ old.exists /\ Older(old, writes) /\ NoHeaderAfter(old, 1)
      /\ Len(old.now) > 0 => \A d \in old.maybe[1] : ~IsHeader(d)
  <2>1. CASE journal.exists
    <3>1. old = journal /\ Clean(journal, writes) /\ Filed(journal) /\ Len(journal.now) > 0
      BY <2>1 DEF Disk, Clean, FileOK
    <3>2. ~Hot(journal)
      BY DEF Reader
    <3>3. Cold(journal.now[1])
      <4>1. journal.now # <<>>
        BY <3>1
      <4> QED BY <2>1, <3>2, <4>1 DEF Hot, Cold
    <3>4. journal.now[1] \in journal.maybe[1]
      BY <3>1 DEF Filed
    <3> QED BY <2>1, <3>1, <3>3, <3>4 DEF Clean
  <2>2. CASE ~journal.exists
    <3>1. old = JournalFile(<<>>) /\ <<>> \in Seq(Cells) /\ Len(<<>>) = 0
      BY <2>2
    <3>2. Filed(old) /\ old.exists /\ old.now = <<>>
      BY <3>1, SettledFile
    <3>3. Len(old.now) = 0
      BY <3>1, <3>2
    <3> HIDE DEF old
    <3>4. 1..Len(old.now) = {} /\ 1 + 1..Len(old.now) = {}
      BY <3>3
    <3> QED BY <3>2, <3>3, <3>4 DEF Older, NoHeaderAfter
  <2> QED BY <2>1, <2>2
<1>5. Contents(O, orig) /\ AllAre(db.maybe, O) /\ pager.inJournal = {} /\ pager.nRec = 0
  BY DEF Reader, Unused
<1> HIDE DEF old, c
<1>6. PICK k : k = OpenedJournal
  OBVIOUS
<1>7. /\ Filed(k) /\ Holds(k, 1, 1, orig, O)
      /\ k.now[1].cksumInit = writes /\ ~k.now[1].magic /\ k.now[1].kind = "hdr"
  BY <1>1, <1>2, <1>3, <1>4, <1>5, <1>6, HoldsOpened
<1>8. Older(k, writes)
  <2>1. c \in Cells /\ ~IsRecord(c) /\ 1 \in 1..Len(old.now) + 1
    BY <1>3, <1>4 DEF NewHeader, Cells, IsRecord, Filed
  <2> QED BY <1>1, <1>2, <1>4, <1>6, <2>1, OlderKept
<1>9. Untouched(db.maybe, k, 1, orig, O)
  BY <1>5 DEF Untouched
<1>10. {i \in 1..1 : IsRecord(k.now[i])} = {}
  BY <1>7 DEF IsRecord
<1>11. \A i \in 1 + 1..1 : k.now[i].pg \in pager.needSync
  OBVIOUS
<1>12. k.now[1].cksumInit \in Int /\ k.now[1].cksumInit <= writes
  BY <1>2, <1>7
<1> QED BY <1>5, <1>6, <1>7, <1>8, <1>9, <1>10, <1>11, <1>12 DEF Writable

(* Between two statements records may follow those of the journal.         *)
LEMMA JournalIsWritable ==
  ASSUME NEW O \in Transactions, Typed, Disk(O), Underway(O), pc = Idle
  PROVE  Writable(journal, hdr, last, O)
<1>1. ~Past /\ pc.step = "none"
  BY IdleIs DEF Past
<1>2. /\ Journalled(O) /\ hdr <= last /\ pager.nRec = last - hdr /\ ~journal.now[hdr].magic
      /\ \A k \in hdr + 1..last : journal.now[k].pg \in pager.needSync
  BY <1>1 DEF Underway
<1>3. Filed(journal) /\ Older(journal, writes) /\ hdr \in Nat /\ last \in Nat
  BY DEF Disk, Clean, FileOK, Typed, Pagers, hdr, last
<1>4. journal.now[hdr].cksumInit \in Int
  <2>1. hdr \in 1..Len(journal.now) /\ journal.now[hdr].kind = "hdr"
    BY <1>2, <1>3 DEF Journalled, Holds, Open
  <2>2. journal.now[hdr] \in Headers
    <3>1. journal.now[hdr] \in Cells
      BY <1>3, <2>1 DEF Filed
    <3> QED BY <2>1, <3>1 DEF Cells, Bad, Records
  <2> QED BY <2>2 DEF Headers
<1> QED BY <1>2, <1>3, <1>4 DEF Journalled, Writable

(* A page of the cache is changed, or the first one after the last added.  *)
LEMMA WholeWith ==
  ASSUME NEW c \in [Pages -> Int], NEW s, Contents(c, s),
         NEW p \in Pages, p <= s + 1, NEW v \in 1..MaxWrites + 1
  PROVE  Whole([c EXCEPT ![p] = v])
<1>1. s \in Nat /\ s >= 1 /\ s <= MaxPage /\ p \in Nat /\ p >= 1 /\ p <= MaxPage /\ MaxPage \in Nat
  BY PagerAssumption DEF Contents, Pages
<1> DEFINE d == [c EXCEPT ![p] = v]
           n == IF p <= s THEN s ELSE p
<1>2. n \in 1..MaxPage
  BY <1>1
<1>3. d \in [Pages -> 0..MaxWrites + 1]
  <2>1. v \in 0..MaxWrites + 1 /\ c \in [Pages -> 0..MaxWrites + 1]
    BY PagerAssumption DEF Contents
  <2> QED BY <2>1
<1>4. ASSUME NEW q \in Pages
      PROVE  d[q] # Absent <=> q <= n
  <2>1. q \in Nat
    BY PagerAssumption DEF Pages
  <2>2. c[q] # Absent <=> q <= s
    BY DEF Contents
  <2>3. d[q] = IF q = p THEN v ELSE c[q]
    OBVIOUS
  <2>4. v # Absent
    BY PagerAssumption DEF Absent
  <2> HIDE DEF d
  <2>5. CASE q = p
    BY <1>1, <2>1, <2>3, <2>4, <2>5
  <2>6. CASE q # p
    <3>1. q <= s <=> q <= n
      BY <1>1, <2>1, <2>6
    <3> QED BY <2>2, <2>3, <2>6, <3>1
  <2> QED BY <2>5, <2>6
<1> HIDE DEF n, d
<1>5. Contents(d, n)
  BY <1>2, <1>3, <1>4 DEF Contents
<1>6. Whole(d)
  BY <1>2, <1>5 DEF Whole
<1> QED BY <1>6 DEF d

(* pager_write: the original of a page that was in the file is in the      *)
(* journal before the page is changed in the cache.                        *)
LEMMA PagerWriteIs ==
  ASSUME NEW O \in Transactions, Typed, Disk(O), Process(O), Writer, pc = Idle,
         writes <= setting.writes, NEW p \in Pages, p <= Size(pager.cache) + 1,
         PagerWrite(p), UNCHANGED <<setting, db, safe>>
  PROVE  /\ Disk(O)' /\ Journalled(O)' /\ CacheOK(O)'
         /\ pager' \in Pagers /\ pager'.cache \in Image
         /\ writes' = writes + 1 /\ p \in pager'.dirty
         /\ hdr' <= last' /\ pager'.nRec = last' - hdr' /\ ~journal'.now[hdr'].magic
         /\ \A k \in hdr' + 1..last' : journal'.now[k].pg \in pager'.needSync
         /\ pager'.eState \in {"WRITER_CACHEMOD", "WRITER_DBMOD"}
<1>1. pager \in Pagers /\ pager.cache \in Image /\ writes \in 1..MaxWrites /\ writes \in Int
      /\ orig \in Nat /\ hdr \in Nat /\ last \in Nat
  <2>1. setting.writes \in 0..MaxWrites
    BY SettingKept
  <2> QED BY <2>1, PagerAssumption DEF Typed, Pagers, orig, hdr, last
<1> DEFINE opening == pager.eState = "WRITER_LOCKED"
<1>2. opening => Reader(O)
  BY WhichProcess
<1>3. ~opening => Underway(O) /\ Journalled(O) /\ CacheOK(O)
                  /\ pager.eState \in {"WRITER_CACHEMOD", "WRITER_DBMOD"}
  BY WhichProcess DEF Writer, Changed, Underway
<1>4. PICK j, hd, off :
        /\ j = (IF opening THEN OpenedJournal ELSE journal)
        /\ hd = (IF opening THEN 1 ELSE hdr) /\ off = (IF opening THEN 1 ELSE last)
  OBVIOUS
<1>5. /\ Writable(j, hd, off, O)
      /\ opening => j.now[hd].cksumInit = writes
  BY <1>2, <1>3, <1>4, OpenedIsWritable, JournalIsWritable
<1>6. /\ Filed(j) /\ Holds(j, hd, off, orig, O) /\ hd <= off /\ hd \in Nat /\ off \in Nat
      /\ ~j.now[hd].magic /\ j.now[hd].cksumInit \in Int /\ j.now[hd].cksumInit <= writes
      /\ Older(j, writes) /\ Untouched(db.maybe, j, hd, orig, O)
      /\ pager.inJournal = {j.now[k].pg : k \in {k \in 1..off : IsRecord(j.now[k])}}
      /\ pager.nRec = off - hd
      /\ \A k \in hd + 1..off : j.now[k].pg \in pager.needSync
  BY <1>5 DEF Writable
<1>7. /\ hd \in 1..off /\ off \in 1..Len(j.now)
  BY <1>6 DEF Holds
<1> DEFINE add == p <= orig /\ p \notin pager.inJournal
<1>8. PICK r : r = Original(j, off, p)
  OBVIOUS
<1>9. PICK n : n = IF add THEN off + 1 ELSE off
  OBVIOUS
<1>10. PICK sync : sync = IF add \/ (p > orig /\ pager.eState # "WRITER_DBMOD")
                            THEN pager.needSync \cup {p} ELSE pager.needSync
  OBVIOUS
<1>11. /\ journal' = (IF add THEN PutCell(j, off + 1, r) ELSE j)
       /\ ghosts' = (IF journal.exists THEN ghosts ELSE ghosts \cup {NoJournal})
       /\ writes' = writes + 1
  BY <1>4, <1>8 DEF PagerWrite, NotYetJournalled, orig, last
<1>12. pager' = [pager EXCEPT
           !.eState = IF opening THEN "WRITER_CACHEMOD" ELSE @,
           !.cache[p] = writes + 1,
           !.dirty = @ \cup {p},
           !.needSync = sync,
           !.inJournal = IF add THEN @ \cup {p} ELSE @,
           !.nRec = IF add THEN @ + 1 ELSE @,
           !.journalHdr = IF opening THEN 1 ELSE @,
           !.journalOff = n]
  BY <1>4, <1>9, <1>10 DEF PagerWrite, NotYetJournalled, orig, last
<1>13. /\ pager'.eState = (IF opening THEN "WRITER_CACHEMOD" ELSE pager.eState)
       /\ pager'.cache = [pager.cache EXCEPT ![p] = writes + 1]
       /\ pager'.dirty = pager.dirty \cup {p} /\ pager'.needSync = sync
       /\ pager'.inJournal = (IF add THEN pager.inJournal \cup {p} ELSE pager.inJournal)
       /\ pager'.nRec = (IF add THEN pager.nRec + 1 ELSE pager.nRec)
       /\ pager'.journalHdr = (IF opening THEN 1 ELSE pager.journalHdr)
       /\ pager'.journalOff = n /\ pager'.dbOrigSize = pager.dbOrigSize
  BY <1>1, <1>12 DEF Pagers
<1>14. hdr' = hd /\ last' = n /\ orig' = orig /\ n \in Nat /\ sync \in SUBSET Pages
  <2>1. hdr' = hd
    BY <1>4, <1>13 DEF hdr
  <2>2. last' = n /\ orig' = orig
    BY <1>13 DEF last, orig
  <2>3. n \in Nat
    BY <1>6, <1>9
  <2>4. sync \in SUBSET Pages
    <3>1. pager.needSync \in SUBSET Pages /\ p \in Pages
      BY <1>1 DEF Pagers
    <3> QED BY <1>10, <3>1
  <2> QED BY <2>1, <2>2, <2>3, <2>4
<1>15. pager' \in Pagers /\ pager'.cache \in Image
  <2> DEFINE e == IF opening THEN "WRITER_CACHEMOD" ELSE pager.eState
             c == [pager.cache EXCEPT ![p] = writes + 1]
             d == pager.dirty \cup {p}
             i == IF add THEN pager.inJournal \cup {p} ELSE pager.inJournal
             m == IF add THEN pager.nRec + 1 ELSE pager.nRec
             h == IF opening THEN 1 ELSE pager.journalHdr
             q1 == [pager EXCEPT !.eState = e]
             q2 == [q1 EXCEPT !.cache = c]
             q3 == [q2 EXCEPT !.dirty = d]
             q4 == [q3 EXCEPT !.needSync = sync]
             q5 == [q4 EXCEPT !.inJournal = i]
             q6 == [q5 EXCEPT !.nRec = m]
             q7 == [q6 EXCEPT !.journalHdr = h]
             q8 == [q7 EXCEPT !.journalOff = n]
  <2>1. pager' = q8
    BY <1>12
  <2>2. /\ e \in States /\ d \in SUBSET Pages /\ i \in SUBSET Pages /\ m \in Nat /\ h \in Nat
    BY <1>1 DEF Pagers, States
  <2>3. c \in [Pages -> Int] /\ c \in Image
    <3>1. writes + 1 \in Int /\ writes + 1 \in -1..MaxWrites + 1
      BY <1>1, PagerAssumption
    <3> QED BY <1>1, <3>1 DEF Pagers, Image
  <2>4. pager'.cache = c
    BY <1>13
  <2> HIDE DEF e, c, d, i, m, h, opening, add
  <2>5. q1 \in Pagers
    BY <1>1, <2>2, PagerWith
  <2> HIDE DEF q1
  <2>6. q2 \in Pagers
    BY <2>3, <2>5, PagerWith
  <2> HIDE DEF q2
  <2>7. q3 \in Pagers
    BY <2>2, <2>6, PagerWith
  <2> HIDE DEF q3
  <2>8. q4 \in Pagers
    BY <1>14, <2>7, PagerWith
  <2> HIDE DEF q4
  <2>9. q5 \in Pagers
    BY <2>2, <2>8, PagerWith
  <2> HIDE DEF q5
  <2>10. q6 \in Pagers
    BY <2>2, <2>9, PagerWith
  <2> HIDE DEF q6
  <2>11. q7 \in Pagers
    BY <2>2, <2>10, PagerWith
  <2> HIDE DEF q7
  <2>12. q8 \in Pagers
    BY <1>14, <2>11, PagerWith
  <2> QED BY <2>1, <2>3, <2>4, <2>12
<1>16. /\ r \in Records /\ IsRecord(r) /\ r.pg = p /\ r.data = pager.cache[p]
       /\ r.cksum = j.now[hd].cksumInit
  <2>1. r = [kind |-> "rec", pg |-> p, data |-> pager.cache[p], cksum |-> j.now[hd].cksumInit]
    <3>1. CASE opening
      BY <1>5, <1>8, <3>1 DEF Original
    <3>2. CASE ~opening
      BY <1>4, <1>8, <3>2 DEF Original, hdr
    <3> QED BY <3>1, <3>2
  <2>2. pager.cache[p] \in Int
    BY <1>1 DEF Pagers
  <2> QED BY <1>6, <2>1, <2>2 DEF Records, IsRecord
<1>17. \A q \in 1..orig : q \notin pager.inJournal => pager.cache[q] = O[q] /\ q \notin pager.dirty
  BY <1>2, <1>3 DEF Reader, Unused, CacheOK
<1>18. ASSUME add
       PROVE  r.data = O[r.pg] /\ r.pg <= orig
  <2>1. p \in 1..orig
    BY <1>1, <1>18, PagerAssumption DEF Pages
  <2> QED BY <1>16, <1>17, <1>18, <2>1
<1>19. /\ Filed(journal') /\ Holds(journal', hd, n, orig, O)
       /\ \A i \in 1..off : journal'.now[i] = j.now[i]
       /\ add => journal'.now[off + 1] = r
       /\ Older(journal', writes + 1)
  <2>1. CASE add
    <3>1. journal' = PutCell(j, off + 1, r) /\ n = off + 1
      BY <1>9, <1>11, <2>1
    <3>2. /\ Filed(journal') /\ Holds(journal', hd, off + 1, orig, O)
          /\ journal'.now[off + 1] = r /\ \A i \in 1..off : journal'.now[i] = j.now[i]
      BY <1>6, <1>16, <1>18, <2>1, <3>1, HoldsAdded
    <3>3. r \in Cells /\ r.cksum < writes + 1 /\ off + 1 \in 1..Len(j.now) + 1
          /\ writes + 1 \in Int /\ writes <= writes + 1
      BY <1>1, <1>6, <1>7, <1>16 DEF Cells, Filed
    <3>4. Older(PutCell(j, off + 1, r), writes + 1)
      BY <1>1, <1>6, <3>3, OlderKept
    <3> QED BY <3>1, <3>2, <3>4
  <2>2. CASE ~add
    <3>1. journal' = j /\ n = off
      BY <1>9, <1>11, <2>2
    <3>2. Older(j, writes + 1)
      <4>1. \A x \in Int : x < writes => x < writes + 1
        BY <1>1
      <4>2. ASSUME NEW i \in 1..Len(j.now), NEW c \in j.maybe[i], IsRecord(c)
            PROVE  c.cksum < writes + 1
        <5>1. c \in Cells
          BY <1>6, <4>2 DEF Filed
        <5>2. c \in Records
          BY <4>2, <5>1 DEF Cells, Headers, Bad, IsRecord
        <5>3. c.cksum \in Int /\ c.cksum < writes
          BY <1>6, <4>2, <5>2 DEF Older, Records
        <5> QED BY <4>1, <5>3
      <4> QED BY <4>2 DEF Older
    <3> QED BY <1>6, <2>2, <3>1, <3>2
  <2> QED BY <2>1, <2>2
<1>20. Untouched(db'.maybe, journal', hd, orig, O)
  <2>1. \A k \in 1..hd - 1 : journal'.now[k] = j.now[k]
    BY <1>7, <1>19
  <2> QED BY <1>6, <2>1 DEF Untouched
<1>21. \A k \in hd + 1..n : journal'.now[k].pg \in sync
  <2>1. ASSUME NEW k \in hd + 1..n
        PROVE  journal'.now[k].pg \in sync
    <3>1. CASE k <= off
      <4>1. k \in hd + 1..off /\ k \in 1..off
        BY <1>6, <1>7, <1>14, <3>1
      <4>2. journal'.now[k].pg \in pager.needSync
        BY <1>6, <1>19, <4>1
      <4> QED BY <1>10, <4>2
    <3>2. CASE ~(k <= off)
      <4>1. add /\ k = off + 1
        BY <1>6, <1>9, <3>2
      <4> QED BY <1>10, <1>16, <1>19, <4>1
    <3> QED BY <3>1, <3>2
  <2> QED BY <2>1
<1>22. pager'.inJournal = {journal'.now[k].pg : k \in {k \in 1..n : IsRecord(journal'.now[k])}}
  <2>1. \A k \in 1..n : k \in 1..off \/ (add /\ k = off + 1)
    BY <1>6, <1>9
  <2>2. \A k \in 1..off : k \in 1..n
    BY <1>6, <1>9
  <2>3. add => off + 1 \in 1..n /\ IsRecord(journal'.now[off + 1]) /\ journal'.now[off + 1].pg = p
    BY <1>6, <1>9, <1>16, <1>19
  <2>4. ASSUME NEW x
        PROVE  x \in pager'.inJournal
                 <=> \E k \in 1..n : IsRecord(journal'.now[k]) /\ journal'.now[k].pg = x
    <3>1. x \in pager.inJournal
            <=> \E k \in 1..off : IsRecord(j.now[k]) /\ j.now[k].pg = x
      BY <1>6
    <3>2. x \in pager'.inJournal <=> x \in pager.inJournal \/ (add /\ x = p)
      BY <1>13
    <3>3. x \in pager.inJournal
            <=> \E k \in 1..off : IsRecord(journal'.now[k]) /\ journal'.now[k].pg = x
      BY <1>19, <3>1
    <3> HIDE DEF add
    <3> QED BY <2>1, <2>2, <2>3, <3>2, <3>3
  <2> QED BY <2>4
<1>23. hd <= n /\ pager'.nRec = n - hd /\ ~journal'.now[hd].magic
       /\ journal'.now[hd].cksumInit <= writes'
  <2>1. journal'.now[hd] = j.now[hd]
    BY <1>7, <1>19
  <2>2. hd <= n /\ pager'.nRec = n - hd
    BY <1>6, <1>9, <1>13
  <2>3. j.now[hd].cksumInit <= writes + 1
    BY <1>1, <1>6
  <2> QED BY <1>6, <1>11, <2>1, <2>2, <2>3
<1>24. /\ opening => hd = 1
       /\ IF hd = 1 THEN pager'.eState = "WRITER_CACHEMOD"
          ELSE /\ pager'.eState \in {"WRITER_DBMOD", "WRITER_FINISHED"}
               /\ ghosts' = {} /\ safe' = O
  <2>1. CASE opening
    BY <1>4, <1>13, <2>1
  <2>2. CASE ~opening
    <3>1. hd = hdr /\ pager'.eState = pager.eState /\ journal.exists
      BY <1>3, <1>4, <1>13, <2>2 DEF Journalled, Holds
    <3>2. ghosts' = ghosts /\ safe' = safe
      BY <1>11, <3>1
    <3> QED BY <1>3, <2>2, <3>1, <3>2 DEF Journalled
  <2> QED BY <2>1, <2>2
<1>25. Journalled(O)'
  BY <1>14, <1>19, <1>20, <1>22, <1>23, <1>24 DEF Journalled
<1>26. Clean(journal', writes + 1) /\ \A k \in Possible(journal') : Gives(db'.maybe, k, O)
  BY <1>19, <1>20, HoldsClean, JournalGives
<1>27. /\ \A g \in ghosts' : /\ Clean(g, writes + 1)
                             /\ \A k \in Possible(g) : Gives(db.maybe, k, O) \/ Gives(db.maybe, k, safe)
       /\ ghosts' # {} => AllAre(db.maybe, O)
  <2>1. \A g \in ghosts : /\ Clean(g, writes + 1)
                          /\ \A k \in Possible(g) : Gives(db.maybe, k, O) \/ Gives(db.maybe, k, safe)
    <3>1. writes + 1 \in Int /\ writes <= writes + 1
      BY <1>1
    <3> QED BY <1>1, <3>1, CleanLonger DEF Disk
  <2>2. CASE journal.exists
    BY <1>11, <2>1, <2>2 DEF Disk
  <2>3. CASE ~journal.exists
    <3>1. opening
      BY <1>3, <2>3 DEF Journalled, Holds
    <3>2. AllAre(db.maybe, O)
      BY <1>2, <3>1 DEF Reader
    <3>3. Clean(NoJournal, writes + 1) /\ \A k \in Possible(NoJournal) : Gives(db.maybe, k, O)
      BY <3>2, NoJournalIs
    <3>4. \A g \in ghosts' : g \in ghosts \/ g = NoJournal
      BY <1>11
    <3> QED BY <2>1, <3>2, <3>3, <3>4
  <2> QED BY <2>2, <2>3
<1>28. Disk(O)'
  <2>1. DbOK(db) /\ Whole(O) /\ Whole(safe) /\ db' = db /\ safe' = safe
    BY DEF Disk
  <2> QED BY <1>11, <1>26, <1>27, <2>1 DEF Disk
<1>29. CacheOK(O)'
  <2>1. PICK s \in 1..MaxPage : Contents(pager.cache, s)
    BY <1>2, <1>3 DEF Reader, CacheOK, Disk, Whole
  <2>2. p <= s + 1
    BY <2>1, SizeIs
  <2>3. writes + 1 \in 1..MaxWrites + 1 /\ pager.cache \in [Pages -> Int]
    BY <1>1, PagerAssumption DEF Pagers
  <2>4. Whole(pager'.cache)
    BY <1>13, <2>1, <2>2, <2>3, WholeWith
  <2>5. \A q \in Pages : q # p => pager'.cache[q] = pager.cache[q]
    BY <1>13, <2>3
  <2>6. \A q \in Pages \ pager.dirty : db.now[q] = pager.cache[q]
    <3>1. CASE opening
      <4>1. AllAre(db.maybe, O) /\ pager.cache = O
        BY <1>2, <3>1 DEF Reader
      <4>2. db.now = O
        BY <4>1, AllAreNow DEF Disk
      <4> QED BY <4>1, <4>2
    <3>2. CASE ~opening
      BY <1>3, <3>2 DEF CacheOK
    <3> QED BY <3>1, <3>2
  <2>7. \A q \in Pages \ pager'.dirty : db'.now[q] = pager'.cache[q]
    BY <1>13, <2>5, <2>6
  <2>8. ASSUME NEW q \in 1..orig, q \notin pager'.inJournal
        PROVE  pager'.cache[q] = O[q] /\ q \notin pager'.dirty
    <3>1. q \notin pager.inJournal /\ q # p
      <4>1. q \notin pager.inJournal
        BY <1>13, <2>8
      <4>2. ASSUME q = p PROVE FALSE
        <5>1. p <= orig
          BY <1>1, <4>2
        <5> QED BY <1>13, <2>8, <4>1, <4>2, <5>1
      <4> QED BY <4>1, <4>2
    <3>2. q \in Pages
      <4>1. orig <= MaxPage
        BY <1>6 DEF Holds, Contents
      <4> QED BY <1>1, <4>1, PagerAssumption DEF Pages
    <3> QED BY <1>13, <1>17, <2>5, <3>1, <3>2
  <2> QED BY <1>14, <2>4, <2>7, <2>8 DEF CacheOK
<1>30. pager'.eState \in {"WRITER_CACHEMOD", "WRITER_DBMOD"} /\ p \in pager'.dirty
  BY <1>3, <1>13
<1> QED BY <1>11, <1>13, <1>14, <1>15, <1>21, <1>23, <1>25, <1>28, <1>29, <1>30

(* sqlite3PagerWrite, with the opening of the journal by the first.        *)
LEMMA WritePageKeeps ==
  ASSUME NEW O \in Transactions, Typed, Disk(O), Process(O),
         NEW p \in Pages, WritePage(p), UNCHANGED setting
  PROVE  Kept(O)'
<1>1. /\ Writer /\ pc = Idle /\ writes < setting.writes /\ p <= Size(pager.cache) + 1
      /\ PagerWrite(p) /\ UNCHANGED <<setting, db, safe>> /\ pc' = pc /\ failures' = failures
      /\ setting' = setting
  BY DEF WritePage
<1>2. writes \in Int /\ setting.writes \in Int /\ writes >= 1
  BY SettingKept DEF Typed
<1>3. writes <= setting.writes
  BY <1>1, <1>2
<1>4. /\ Disk(O)' /\ Journalled(O)' /\ CacheOK(O)'
      /\ pager' \in Pagers /\ pager'.cache \in Image
      /\ writes' = writes + 1
      /\ hdr' <= last' /\ pager'.nRec = last' - hdr' /\ ~journal'.now[hdr'].magic
      /\ \A k \in hdr' + 1..last' : journal'.now[k].pg \in pager'.needSync
      /\ pager'.eState \in {"WRITER_CACHEMOD", "WRITER_DBMOD"}
  BY <1>1, <1>3, PagerWriteIs
<1>5. writes' \in 1..setting.writes + 1 /\ writes' <= setting.writes
  BY <1>1, <1>2, <1>4
<1>6. Typed'
  BY <1>1, <1>4, <1>5, SettingKept DEF Typed
<1>7. pc' = Idle /\ ~Past' /\ pc'.step = "none"
  BY <1>1, IdleIs DEF Past
<1>8. Underway(O)'
  BY <1>1, <1>4, <1>5, <1>7 DEF Underway, Idle
<1> QED BY <1>4, <1>6, <1>8 DEF Kept, Process

(* sqlite3PagerCommitPhaseOne changes page 1 as any other, or has nothing  *)
(* to end.                                                                 *)
LEMMA CommitKeeps ==
  ASSUME NEW O \in Transactions, Typed, Disk(O), Process(O), Commit, UNCHANGED setting
  PROVE  Kept(O)'
<1>1. /\ Writer /\ pc = Idle /\ UNCHANGED <<db, safe, failures>> /\ setting' = setting
  BY DEF Commit
<1>2. CASE pager.eState = "WRITER_LOCKED"
  <2>1. pager' = Reading(pager.cache) /\ UNCHANGED <<journal, ghosts, pc, writes>>
    BY <1>2 DEF Commit
  <2>2. Reader(O) /\ pager.cache = O
    BY <1>2, WhichProcess DEF Reader
  <2>3. Disk(O)'
    BY <1>1, <2>1 DEF Disk
  <2>4. Reader(O)'
    BY <1>1, <2>1, <2>2, ReadingIs DEF Reader, Unused
  <2>5. Typed'
    BY <1>1, <2>1, <2>2, ReadingIs, SettingKept DEF Typed
  <2> QED BY <2>3, <2>4, <2>5 DEF Kept, Process
<1>3. CASE pager.eState # "WRITER_LOCKED"
  <2>1. PagerWrite(1) /\ pc' = [goal |-> "commit", step |-> "syncJournal", page |-> 0]
    BY <1>3 DEF Commit
  <2>2. Underway(O)
    BY <1>1, <1>3, WhichProcess DEF Writer, Changed
  <2>3. writes <= setting.writes /\ writes \in Int /\ setting.writes \in Int /\ writes >= 1
    BY <1>1, <2>2, IdleIs, SettingKept DEF Underway, Typed
  <2>4. PICK s \in 1..MaxPage : Contents(pager.cache, s)
    BY <2>2 DEF Underway, CacheOK, Whole
  <2>5. 1 \in Pages /\ 1 <= Size(pager.cache) + 1
    BY <2>4, SizeIs, PagerAssumption DEF Pages
  <2>6. PICK p \in Pages : p = 1
    BY <2>5
  <2>7. /\ Disk(O)' /\ Journalled(O)' /\ CacheOK(O)'
        /\ pager' \in Pagers /\ pager'.cache \in Image
        /\ writes' = writes + 1 /\ p \in pager'.dirty
        /\ hdr' <= last' /\ pager'.nRec = last' - hdr' /\ ~journal'.now[hdr'].magic
        /\ \A k \in hdr' + 1..last' : journal'.now[k].pg \in pager'.needSync
        /\ pager'.eState \in {"WRITER_CACHEMOD", "WRITER_DBMOD"}
    <3>1. PagerWrite(p) /\ p <= Size(pager.cache) + 1 /\ UNCHANGED <<setting, db, safe>>
      BY <1>1, <2>1, <2>5, <2>6
    <3> QED BY <1>1, <2>3, <3>1, PagerWriteIs
  <2>8. pc' \in Pcs /\ pc'.goal = "commit" /\ pc'.step = "syncJournal"
    BY <2>1 DEF Pcs, Goals, Steps
  <2>9. writes' \in 1..setting.writes + 1
    BY <2>3, <2>7
  <2>10. Typed'
    BY <1>1, <2>7, <2>8, <2>9, SettingKept DEF Typed
  <2>11. ~Past' /\ pager'.dirty # {}
    BY <2>7, <2>8 DEF Past
  <2>12. Underway(O)'
    BY <2>7, <2>8, <2>11 DEF Underway
  <2> QED BY <2>7, <2>10, <2>12 DEF Kept, Process
<1> QED BY <1>2, <1>3

-----------------------------------------------------------------------------
(* The invariant.                                                          *)

(* At first the file is whole, and there is no journal.                    *)
LEMMA InitInv == Init /\ deletes /\ ~noSync => IInv
<1> SUFFICES ASSUME Init, deletes, ~noSync
             PROVE  IInv
  OBVIOUS
<1>1. PICK O : O = [p \in Pages |-> IF p <= OldPages THEN 1 ELSE Absent]
  OBVIOUS
<1>2. OldPages \in Nat /\ MaxWrites \in Nat /\ OldPages \in 1..MaxPage
  BY PagerAssumption
<1>3. O \in Transactions /\ O \in [Pages -> Values]
  BY <1>1, <1>2 DEF Transactions, Absent, Values
<1>4. Contents(O, OldPages) /\ Whole(O)
  <2>1. \A p \in Pages : O[p] # Absent <=> p <= OldPages
    BY <1>1 DEF Absent
  <2> QED BY <1>2, <1>3, <2>1 DEF Contents, Whole, Transactions
<1>5. /\ setting \in Settings /\ db = Settled(O) /\ journal = NoJournal /\ ghosts = {}
      /\ pager = Closed /\ pc = Idle /\ safe = db.now /\ writes = 1 /\ failures = 0
  BY <1>1 DEF Init
<1>6. /\ DbOK(db) /\ db.now = O /\ AllAre(db.maybe, O)
  <2>1. /\ Settled(O).now = O /\ Settled(O).maybe = [p \in Pages |-> {O[p]}]
        /\ Settled(O) = [now |-> O, maybe |-> [p \in Pages |-> {O[p]}]]
    BY <1>3 DEF Settled
  <2>2. [p \in Pages |-> {O[p]}] \in [Pages -> SUBSET Values]
    BY <1>3
  <2>3. Settled(O) \in [now : [Pages -> Values], maybe : [Pages -> SUBSET Values]]
    BY <1>3, <2>1, <2>2
  <2> QED BY <1>5, <2>1, <2>3 DEF DbOK, AllAre
<1>7. Disk(O)
  BY <1>4, <1>5, <1>6, NoJournalIs DEF Disk
<1>8. setting.writes \in Nat /\ setting.failures \in Nat
  BY <1>5, PagerAssumption DEF Setting
<1>9. writes \in 1..setting.writes + 1 /\ failures \in 0..setting.failures
  BY <1>5, <1>8
<1>10. Typed
  BY <1>5, <1>9, ClosedIs, IdleIs DEF Typed
<1> QED BY <1>3, <1>5, <1>7, <1>10 DEF IInv, Kept, Process

(* Every step but the end of a transaction and a power failure leaves the  *)
(* contents the file will be found to have.                                *)
LEMMA StepKeeps ==
  ASSUME NEW O \in Transactions, Kept(O), Next
  PROVE  \/ Kept(O)'
         \/ EndJournal /\ pc.goal = "commit"
            /\ \E Q \in Transactions : Kept(Q)' /\ Q = pager.cache
         \/ PowerLoss /\ \E Q \in {O, safe} : Q \in Transactions /\ Kept(Q)'
<1>1. Typed /\ Disk(O) /\ Process(O) /\ UNCHANGED setting /\ Step
  BY DEF Kept, Next
<1>2. SharedLock \/ Unlock \/ Begin => Kept(O)'
  BY <1>1, SharedLockKeeps, UnlockKeeps, BeginKeeps
<1>3. (\E p \in Pages : WritePage(p) \/ Spill(p)) => Kept(O)'
  BY <1>1, WritePageKeeps, SpillKeeps
<1>4. Commit \/ SyncJournal \/ ZeroNextHeader => Kept(O)'
  BY <1>1, CommitKeeps, SyncJournalKeeps, NoZeroNextHeader
<1>5. Sync1 \/ Sync2 => Kept(O)'
  BY <1>1, SyncJournalFileKeeps DEF Sync1, Sync2
<1>6. WriteNRec \/ NextHeader \/ WriteToFile \/ SyncFile => Kept(O)'
  BY <1>1, WriteNRecKeeps, NextHeaderKeeps, WriteToFileKeeps, SyncFileKeeps
<1>7. EndSync \/ Rollback \/ SyncHotJournal \/ TruncateFile => Kept(O)'
  BY <1>1, EndSyncKeeps, RollbackKeeps, SyncHotJournalKeeps, TruncateFileKeeps
<1>8. PlayBack \/ PlaybackEnds \/ Fail => Kept(O)'
  BY <1>1, PlayBackKeeps, PlaybackEndsKeeps, FailKeeps
<1>9. EndJournal => \/ Kept(O)'
                    \/ /\ pc.goal = "commit"
                       /\ \E Q \in Transactions : Kept(Q)' /\ Q = pager.cache
  BY <1>1, EndJournalKeeps
<1>10. PowerLoss => \E Q \in {O, safe} : Q \in Transactions /\ Kept(Q)'
  BY <1>1, PowerLossKeeps
<1> QED BY <1>1, <1>2, <1>3, <1>4, <1>5, <1>6, <1>7, <1>8, <1>9, <1>10 DEF Step

(* Kept is about the variables only.                                       *)
LEMMA KeptWhenUnchanged ==
  ASSUME NEW O, Kept(O), UNCHANGED vars
  PROVE  Kept(O)'
<1>1. /\ setting' = setting /\ db' = db /\ journal' = journal /\ ghosts' = ghosts
      /\ pager' = pager /\ pc' = pc /\ safe' = safe /\ writes' = writes /\ failures' = failures
  BY DEF vars
<1>2. Typed'
  BY <1>1 DEF Kept, Typed, deletes, noSync
<1>3. Disk(O)'
  BY <1>1 DEF Kept, Disk
<1>4. Journalled(O) => Journalled(O)'
  BY <1>1 DEF Journalled, hdr, last, orig
<1>5. CacheOK(O) => CacheOK(O)'
  BY <1>1 DEF CacheOK, orig
<1>6. Underway(O) => Underway(O)'
  BY <1>1, <1>4, <1>5 DEF Underway, Past, Synced, hdr, last
<1>7. RollingBack(O) => RollingBack(O)'
  BY <1>1, <1>4 DEF RollingBack, Back, hdr, last, orig
<1>8. Recovering(O) => Recovering(O)'
  BY <1>1 DEF Recovering, Closed
<1>9. Reader(O) => Reader(O)'
  BY <1>1 DEF Reader, Unused, Idle, orig
<1>10. Ending(O) => Ending(O)'
  BY <1>1 DEF Ending, Closed
<1>11. pager = Closed /\ pc = Idle => (pager = Closed /\ pc = Idle)'
  BY <1>1 DEF Closed, Idle
<1>12. Process(O)'
  BY <1>6, <1>7, <1>8, <1>9, <1>10, <1>11 DEF Kept, Process
<1> QED BY <1>2, <1>3, <1>12 DEF Kept

(* A journal that is deleted, with syncs: in every state some O, a whole   *)
(* file, is what any rollback of the journal makes of whatever the disk    *)
(* may hold, and the pager is as far as the invariant says.                *)
THEOREM InductiveInvariant == Spec /\ deletes /\ ~noSync => []IInv
<1>1. Init /\ deletes /\ ~noSync => IInv
  BY InitInv
<1>2. IInv /\ [Next]_vars => IInv'
  <2> SUFFICES ASSUME IInv, [Next]_vars
               PROVE  IInv'
    OBVIOUS
  <2>1. PICK O \in Transactions : Kept(O)
    BY DEF IInv
  <2>2. CASE Next
    <3>1. \E Q \in Transactions : Kept(Q)'
      BY <2>1, <2>2, StepKeeps
    <3> QED BY <3>1 DEF IInv
  <2>3. CASE UNCHANGED vars
    <3>1. Kept(O)'
      BY <2>1, <2>3, KeptWhenUnchanged
    <3> QED BY <2>1, <3>1 DEF IInv
  <2> QED BY <2>2, <2>3
<1> QED BY <1>1, <1>2, PTL DEF Spec

-----------------------------------------------------------------------------
(* What the invariant is for.                                              *)

(* What Kept says of O: it is what the next reader gets, whatever the      *)
(* power does.                                                             *)
LEMMA KeptRecovers ==
  ASSUME NEW O \in Transactions, Kept(O)
  PROVE  /\ Recovered = O /\ O \in Image /\ safe \in Image /\ db.now \in Image
         /\ pager.cache \in Image /\ Whole(O)
<1>1. /\ DbOK(db) /\ Filed(journal) /\ Whole(O) /\ Whole(safe)
      /\ \A k \in Possible(journal) : Gives(db.maybe, k, O)
  BY DEF Kept, Disk, Clean, FileOK
<1>2. Recovered = O
  BY <1>1, RecoveredIs DEF Recovered
<1>3. \A n \in 0..MaxWrites + 1 : n \in -1..MaxWrites + 1
  BY PagerAssumption
<1>4. O \in Image /\ safe \in Image
  BY <1>1, <1>3, WholeIs DEF Transactions, Image
<1>5. db.now \in Image
  BY <1>1 DEF DbOK, Values, Image
<1> QED BY <1>1, <1>2, <1>4, <1>5 DEF Kept, Typed

(* The invariant has the type invariant as part.                           *)
LEMMA IInvTypeOK == IInv => TypeOK
<1> SUFFICES ASSUME IInv
             PROVE  TypeOK
  OBVIOUS
<1>1. PICK O \in Transactions : Kept(O)
  BY DEF IInv
<1>2. safe \in Image /\ db.now \in Image /\ pager.cache \in Image
  BY <1>1, KeptRecovers
<1>3. /\ \A p \in Pages : db.now[p] \in db.maybe[p]
      /\ Len(journal.now) = Len(journal.maybe)
  BY <1>1 DEF Kept, Disk, DbOK, Clean, FileOK, Filed
<1>4. /\ pager \in Pagers
      /\ pager.eState = "WRITER_FINISHED" => pager.dirty = {}
      /\ pager.eState \in {"OPEN", "READER", "WRITER_LOCKED"}
           => pager.dirty \cup pager.needSync \cup pager.inJournal = {}
      /\ writes \in 1..setting.writes + 1 /\ failures \in 0..setting.failures
  BY <1>1 DEF Kept, Typed
<1>5. /\ pager.eState \in States
      /\ pager.dirty \cup pager.needSync \cup pager.inJournal \subseteq Pages
  BY <1>4 DEF Pagers
<1>6. writes \in 1..MaxWrites + 1
  <2>1. setting \in Settings
    BY <1>1 DEF Kept, Typed
  <2>2. setting.writes \in 0..MaxWrites
    BY <2>1, PagerAssumption DEF Setting
  <2> QED BY <1>4, <2>2, PagerAssumption
<1> QED BY <1>2, <1>3, <1>4, <1>5, <1>6 DEF TypeOK, States

(* TypeOK, of a connection that deletes its journal and syncs, for any     *)
(* size of the file and any number of writes and failures.                 *)
THEOREM TypeCorrect == Spec /\ deletes /\ ~noSync => []TypeOK
BY InductiveInvariant, IInvTypeOK, PTL

(* The invariant has what readers see as part.                             *)
LEMMA IInvReaders == IInv => ReadersSeeCommitted
<1> SUFFICES ASSUME IInv, pager.eState \in {"READER", "WRITER_LOCKED"}
             PROVE  /\ pager.cache = db.now /\ db.now = Recovered
                    /\ \A p \in Pages : db.now[p] # Garbage
  BY DEF ReadersSeeCommitted
<1>1. PICK O \in Transactions : Kept(O)
  BY DEF IInv
<1>2. pager.cache = O /\ AllAre(db.maybe, O)
  BY <1>1, WhichProcess DEF Kept, Reader
<1>3. db.now = O
  BY <1>1, <1>2, AllAreNow DEF Kept, Disk
<1>4. \A p \in Pages : O[p] # Garbage
  <2>1. \A p \in Pages : O[p] \in 0..MaxWrites + 1
    BY DEF Transactions
  <2> QED BY <2>1, PagerAssumption DEF Garbage
<1> QED BY <1>1, <1>2, <1>3, <1>4, KeptRecovers

(* A reader that has its shared lock sees the last committed contents,     *)
(* whole, whatever crashed before it (sqlite3PagerSharedLock,              *)
(* pager_playback).                                                        *)
THEOREM ReadersAreServed == Spec /\ deletes /\ ~noSync => []ReadersSeeCommitted
BY InductiveInvariant, IInvReaders, PTL

(* A page below the header has its original on the disk.                   *)
LEMMA SealedOriginal ==
  ASSUME NEW O \in Transactions, Disk(O), Journalled(O), NEW p,
         NEW k \in 1..hdr - 1, IsRecord(journal.now[k]), journal.now[k].pg = p
  PROVE  \E i \in DOMAIN journal.now :
           /\ journal.now[i].kind = "rec" /\ journal.now[i].pg = p
           /\ journal.now[i].data = safe[p]
           /\ Cardinality(journal.maybe[i]) = 1
<1>1. /\ Holds(journal, hdr, last, orig, O) /\ hdr \in Nat /\ last \in 1..Len(journal.now)
      /\ hdr \in 1..last + 1 /\ last \in Nat
  BY DEF Journalled, Holds
<1>2. k \in 1..last /\ k \in 1..Len(journal.now) /\ hdr # 1
  BY <1>1
<1>3. journal.maybe[k] = {journal.now[k]}
  BY <1>1 DEF Holds, Sealed
<1>4. journal.now[k].data = O[p]
  BY <1>1, <1>2 DEF Holds
<1>5. safe = O
  BY <1>2 DEF Journalled
<1>6. k \in DOMAIN journal.now
  BY <1>2 DEF Disk, Clean, FileOK, Filed
<1>7. Cardinality(journal.maybe[k]) = 1
  BY <1>3, FS_Singleton
<1> QED BY <1>4, <1>5, <1>6, <1>7 DEF IsRecord

(* A step of a spill or a commit that writes to a page of the old file     *)
(* finds its original synced in the journal.                               *)
LEMMA StepWritesAhead ==
  ASSUME NEW O \in Transactions, Kept(O), Next, NEW p \in Pages,
         pc.goal \in {"spill", "commit"}, db'.now[p] # db.now[p], p <= orig
  PROVE  \E i \in DOMAIN journal.now :
           /\ journal.now[i].kind = "rec" /\ journal.now[i].pg = p
           /\ journal.now[i].data = safe[p]
           /\ Cardinality(journal.maybe[i]) = 1
<1>1. /\ Typed /\ Disk(O) /\ Process(O) /\ Step /\ DbOK(db)
  BY DEF Kept, Next, Disk
<1>2. pc # Idle
  BY IdleIs
<1>3. db' # db
  OBVIOUS
<1>4. WriteToFile \/ PowerLoss
  <2>1. ~(SharedLock \/ Unlock \/ Begin \/ Commit \/ \E q \in Pages : WritePage(q) \/ Spill(q))
    BY <1>2 DEF SharedLock, Unlock, Begin, Commit, WritePage, Spill
  <2>2. ~(SyncJournal \/ ZeroNextHeader \/ Sync1 \/ WriteNRec \/ Sync2 \/ NextHeader)
    BY <1>3 DEF SyncJournal, ZeroNextHeader, Sync1, Sync2, SyncJournalFile, WriteNRec, NextHeader
  <2>3. ~(EndJournal \/ EndSync \/ Rollback \/ SyncHotJournal \/ PlaybackEnds \/ Fail)
    BY <1>3 DEF EndJournal, EndSync, Rollback, SyncHotJournal, PlaybackEnds, Fail
  <2>4. ~SyncFile
    <3>1. SyncFile => db' = Settled(db.now)
      BY <1>1 DEF SyncFile, SyncDb, Typed
    <3>2. Settled(db.now).now = db.now
      BY <1>1, SettledOutcome
    <3> QED BY <3>1, <3>2
  <2>5. ~(TruncateFile \/ PlayBack)
    <3>1. TruncateFile \/ PlayBack => pc.step \in {"truncate", "play"}
      BY DEF TruncateFile, PlayBack
    <3>2. pc.step \in {"truncate", "play"} => pc.goal \in {"rollback", "recover"}
      BY <1>1, WhichStep DEF RollingBack, Recovering
    <3> QED BY <3>1, <3>2
  <2> QED BY <1>1, <2>1, <2>2, <2>3, <2>4, <2>5 DEF Step
<1>5. db.maybe[p] # {db.now[p]} \/ WriteToFile
  <2>1. PowerLoss => db'.now[p] \in db.maybe[p]
    <3>1. SUFFICES ASSUME PowerLoss
                   PROVE  db'.now[p] \in db.maybe[p]
      OBVIOUS
    <3>2. PICK now \in Outcomes(db) : db' = Settled(now)
      BY <3>1 DEF PowerLoss
    <3>3. db'.now = now
      BY <3>2 DEF Settled
    <3>4. now[p] \in db.maybe[p]
      BY <1>1, <3>2, OutcomesAre DEF DbOK
    <3> QED BY <3>3, <3>4
  <2> QED BY <1>4, <2>1
<1>6. Underway(O)
  <2>1. pc.step # "endsync"
    <3>1. pc.step = "endsync" => AllAre(db.maybe, O)
      BY <1>1, WhichStep DEF Ending
    <3>2. AllAre(db.maybe, O) => db.maybe[p] = {db.now[p]}
      BY <1>1 DEF AllAre, DbOK
    <3>3. WriteToFile => pc.step = "page"
      BY DEF WriteToFile
    <3> QED BY <1>5, <3>1, <3>2, <3>3
  <2> QED BY <1>1, <2>1, WhichProcess
<1>7. Journalled(O)
  BY <1>6 DEF Underway
<1>8. orig \in Nat /\ p \in Nat
  BY <1>1, PagerAssumption DEF Typed, Pagers, orig, Pages
<1>9. \E k \in 1..hdr - 1 : IsRecord(journal.now[k]) /\ journal.now[k].pg = p
  <2>1. CASE WriteToFile
    <3>1. pc.step = "page" /\ PutPage(PageToWrite, pager.cache[PageToWrite])
      BY <2>1 DEF WriteToFile
    <3>2. /\ PageToWrite \in pager.dirty
          /\ \/ PageToWrite > orig
             \/ \E k \in 1..hdr - 1 : IsRecord(journal.now[k]) /\ journal.now[k].pg = PageToWrite
      BY <1>1, <1>6, <3>1, PageIsCovered
    <3>3. p = PageToWrite
      <4>1. db'.now = [db.now EXCEPT ![PageToWrite] = pager.cache[PageToWrite]]
        BY <3>1 DEF PutPage
      <4>2. db.now \in [Pages -> Values]
        BY <1>1 DEF DbOK
      <4> QED BY <4>1, <4>2
    <3>4. ~(p > orig)
      BY <1>8
    <3> QED BY <3>2, <3>3, <3>4
  <2>2. CASE ~WriteToFile
    <3>1. db.maybe[p] # {O[p]}
      BY <1>1, <1>5, <2>2 DEF DbOK
    <3>2. p \in 1..orig
      BY <1>8, PagerAssumption DEF Pages
    <3> QED BY <1>7, <3>1, <3>2 DEF Journalled, Untouched, AllAre
  <2> QED BY <2>1, <2>2
<1> QED BY <1>1, <1>7, <1>9, SealedOriginal

(* No page of the old file is overwritten by a spill or a commit before    *)
(* its original is on the disk in the journal (pagerStress,                *)
(* pager_write_pagelist).                                                  *)
THEOREM JournalIsAhead == Spec /\ deletes /\ ~noSync => WriteAheadOfFile
<1> DEFINE Ahead ==
      \A p \in Pages :
        /\ pc.goal \in {"spill", "commit"} /\ ~noSync
        /\ db'.now[p] # db.now[p] /\ p <= pager.dbOrigSize
        => \E k \in DOMAIN journal.now :
             /\ journal.now[k].kind = "rec" /\ journal.now[k].pg = p
             /\ journal.now[k].data = safe[p]
             /\ Cardinality(journal.maybe[k]) = 1
<1>1. IInv /\ [Next]_vars => [Ahead]_vars
  <2> SUFFICES ASSUME IInv, Next
               PROVE  Ahead
    OBVIOUS
  <2>1. PICK O \in Transactions : Kept(O)
    BY DEF IInv
  <2> QED BY <2>1, StepWritesAhead DEF orig
<1> QED BY <1>1, InductiveInvariant, PTL DEF Spec, WriteAheadOfFile

(* A commit with EXTRA ends with the sync of the directory.                *)
LEMMA StepReturnsSafe ==
  ASSUME Next, pc \in Pcs, pc.goal = "commit", pc' = Idle, pager'.eState = "READER",
         extraSync, deletes
  PROVE  safe' = Recovered'
<1>1. pc # Idle /\ pc'.goal = "none"
  BY IdleIs
<1>2. Step
  BY DEF Next
<1>3. \A s : ~At(s)
  BY <1>1 DEF At, Pcs
<1>4. pager' # Closed
  BY ClosedIs
<1>5. EndSync
  <2>1. ~(SharedLock \/ Unlock \/ Begin \/ Commit \/ \E q \in Pages : WritePage(q) \/ Spill(q))
    BY <1>1 DEF SharedLock, Unlock, Begin, Commit, WritePage, Spill
  <2>2. ~(SyncJournal \/ ZeroNextHeader \/ Sync1 \/ WriteNRec \/ Sync2 \/ NextHeader)
    BY <1>3 DEF SyncJournal, ZeroNextHeader, Sync1, Sync2, SyncJournalFile, WriteNRec, NextHeader
  <2>3. ~(SyncFile \/ SyncHotJournal \/ TruncateFile \/ PlaybackEnds \/ WriteToFile \/ EndJournal)
    BY <1>3 DEF SyncFile, SyncHotJournal, TruncateFile, PlaybackEnds, WriteToFile, EndJournal
  <2>4. ~(Fail \/ PowerLoss)
    BY <1>4 DEF Fail, PowerLoss
  <2>5. ~Rollback
    <3>1. SUFFICES ASSUME Rollback
                   PROVE  FALSE
      OBVIOUS
    <3>2. pc' = pc \/ pc' = [goal |-> "rollback", step |-> "truncate", page |-> 1]
      BY <3>1 DEF Rollback
    <3> QED BY <1>1, <3>2
  <2>6. ~PlayBack
    <3>1. SUFFICES ASSUME PlayBack
                   PROVE  FALSE
      OBVIOUS
    <3>2. PICK k : pc' = [pc EXCEPT !.page = k]
      BY <3>1 DEF PlayBack
    <3>3. pc'.goal = pc.goal
      BY <3>2 DEF Pcs
    <3> QED BY <1>1, <3>3
  <2> QED BY <1>2, <2>1, <2>2, <2>3, <2>4, <2>5, <2>6 DEF Step
<1>6. safe' = Recovered /\ db' = db /\ journal' = journal
  BY <1>5 DEF EndSync
<1> QED BY <1>6 DEF Recovered

(* A commit that returned, with the directory synced, is not taken back by *)
(* a power failure.                                                        *)
THEOREM CommitsAreSafe == Spec /\ deletes /\ ~noSync => ReturnedCommitIsSafe
<1> DEFINE Safe ==
      /\ extraSync
      /\ pc.goal = "commit" /\ pc' = Idle /\ pager'.eState = "READER"
      => safe' = Recovered'
<1>1. IInv /\ [Next]_vars => [Safe]_vars
  <2> SUFFICES ASSUME IInv, Next
               PROVE  Safe
    OBVIOUS
  <2>1. deletes /\ pc \in Pcs
    BY DEF IInv, Kept, Typed
  <2> QED BY <2>1, StepReturnsSafe
<1> QED BY <1>1, InductiveInvariant, PTL DEF Spec, ReturnedCommitIsSafe

-----------------------------------------------------------------------------
(* What the comments of sqlite3.c say of every connection is true of these.*)

(* The invariant has requirement (7) as part.                              *)
LEMMA IInvSubsets == IInv => AnySubsetRestores
<1> SUFFICES ASSUME IInv, InTransaction, NEW cells \in Outcomes(journal)
             PROVE  Restored(db.now, JournalFile(cells)) = Recovered
  BY DEF AnySubsetRestores, Restores
<1>1. PICK O \in Transactions : Kept(O)
  BY DEF IInv
<1>2. /\ Disk(O) /\ Typed /\ Process(O) /\ DbOK(db) /\ Whole(O)
      /\ \A k \in Possible(journal) : Gives(db.maybe, k, O)
  BY <1>1 DEF Kept, Disk
<1>3. Underway(O)
  BY <1>2, WhichProcess DEF InTransaction
<1>4. Filed(journal) /\ journal.exists
  BY <1>2, <1>3 DEF Disk, Clean, FileOK, Underway, Journalled, Holds
<1>5. PICK k : k = JournalFile(cells)
  OBVIOUS
<1>6. k \in Possible(journal)
  BY <1>4, <1>5 DEF Possible
<1>7. k.now \in Seq(Cells) /\ Gives(db.maybe, k, O)
  BY <1>2, <1>4, <1>6, PossibleAre
<1>8. db.now \in Outcomes(db)
  <2>1. /\ DOMAIN db.now = Pages /\ db.now = [p \in Pages |-> db.now[p]]
        /\ \A p \in Pages : db.now[p] \in db.maybe[p]
    BY <1>2 DEF DbOK
  <2> QED BY <2>1, OutcomesAre
<1>9. Restored(db.now, k) = O
  BY <1>2, <1>7, <1>8, GivesRestored
<1> QED BY <1>1, <1>5, <1>9, KeptRecovers

(* Requirement (7) on the journal (sqlite3.c 59041): in the middle of a    *)
(* transaction, whatever the power takes of the journal that was not       *)
(* synced, playing the rest back gives the file the transaction found.     *)
THEOREM AnySubsetIsEnough == Spec /\ deletes /\ ~noSync => []AnySubsetRestores
BY InductiveInvariant, IInvSubsets, PTL

(* After a rollback (sqlite3.c 65774) cache and file agree, as they did    *)
(* when the transaction was opened.                                        *)
THEOREM RollbacksRestoreCache == Spec /\ deletes /\ ~noSync => []RollbackRestoresCache
<1>1. ReadersSeeCommitted => RollbackRestoresCache
  BY DEF ReadersSeeCommitted, RollbackRestoresCache
<1> QED BY <1>1, ReadersAreServed, PTL

-----------------------------------------------------------------------------
(* The pager keeps AtomicFile.                                             *)

Work == IF Changed THEN pager.cache ELSE Recovered

(* KeptRecovers as one formula, for steps that need it of the next state.  *)
LEMMA KeptReads ==
  \A O \in Transactions : Kept(O) =>
    Recovered = O /\ O \in Image /\ safe \in Image /\ pager.cache \in Image
BY KeptRecovers

(* KeptReads, of the state after a step.                                   *)
LEMMA KeptReadsNext ==
  (\A O \in Transactions : Kept(O) =>
     Recovered = O /\ O \in Image /\ safe \in Image /\ pager.cache \in Image)'
BY KeptReads, PTL

(* Every step of the pager is one of AtomicFile, or changes nothing of it: *)
(* Work is what the transaction would make of the file.                    *)
LEMMA PagerStep ==
  ASSUME NEW O \in Transactions, Kept(O), Next
  PROVE  [Atomic!Next]_<<Recovered, Work, safe>>
<1>1. /\ Typed /\ Disk(O) /\ Process(O) /\ Step /\ Recovered = O /\ DbOK(db)
      /\ O \in Image /\ pager.cache \in Image
  BY KeptRecovers DEF Kept, Next, Disk
<1>2. pc = Idle <=> pc.goal = "none"
  BY <1>1, WhichProcess, IdleIs
<1>3. CASE EndJournal /\ pc.goal = "commit"
           /\ \E Q \in Transactions : Kept(Q)' /\ Q = pager.cache
  <2>1. PICK Q \in Transactions : Kept(Q)' /\ Q = pager.cache
    BY <1>3
  <2>2. Recovered' = Q
    BY <2>1, KeptReadsNext
  <2>3. Changed /\ safe' = safe
    <3>1. Underway(O)
      BY <1>1, <1>3, WhichProcess DEF EndJournal
    <3> QED BY <1>3, <3>1 DEF EndJournal, Underway, Journalled, Changed
  <2>4. Work' = Q
    <3>1. pager' = pager \/ ~Changed'
      <4>1. pager' = pager \/ pager'.eState = "READER"
        <5>1. pager' = pager \/ pager' = Reading(Q)
          BY <1>1, <1>3, <2>1 DEF EndJournal, Ended, Typed
        <5> QED BY <5>1, ReadingIs
      <4> QED BY <4>1 DEF Changed
    <3> QED BY <2>1, <2>2, <3>1 DEF Work
  <2>5. Work = Q
    BY <2>1, <2>3 DEF Work
  <2>6. Atomic!Commit
    BY <2>2, <2>3, <2>4, <2>5 DEF Atomic!Commit, Work
  <2> QED BY <2>6 DEF Atomic!Next
<1>4. CASE PowerLoss /\ \E Q \in {O, safe} : Q \in Transactions /\ Kept(Q)'
  <2>1. PICK Q \in {O, safe} : Q \in Transactions /\ Kept(Q)'
    BY <1>4
  <2>2. Recovered' = Q /\ safe' = Q
    BY <1>4, <2>1, KeptReadsNext DEF PowerLoss
  <2>3. ~Changed'
    BY <1>4, ClosedIs DEF PowerLoss, Changed
  <2>4. Work' = Recovered'
    BY <2>3 DEF Work
  <2>5. Atomic!PowerLoss
    BY <1>1, <2>1, <2>2, <2>4 DEF Atomic!PowerLoss, Work
  <2> QED BY <2>5 DEF Atomic!Next
<1>5. CASE Kept(O)'
  <2>1. Recovered' = O /\ Work' \in Image
    BY <1>1, <1>5, KeptReadsNext DEF Work
  <2>2. CASE safe' = safe
    <3>1. Atomic!Write
      BY <1>1, <2>1, <2>2 DEF Atomic!Write, Work
    <3> QED BY <3>1 DEF Atomic!Next
  <2>3. CASE \E s, t : SyncJournalFile(s, t)
    <3>1. safe' = Recovered /\ pager' = pager
      BY <2>3 DEF SyncJournalFile
    <3>2. Work' = Work
      BY <1>1, <2>1, <3>1 DEF Work, Changed
    <3>3. Atomic!Harden
      BY <1>1, <2>1, <3>1, <3>2 DEF Atomic!Harden, Work
    <3> QED BY <3>3 DEF Atomic!Next
  <2>4. CASE EndSync
    <3>1. Ending(O)
      BY <1>1, <2>4, WhichStep DEF EndSync
    <3>2. Work = O
      BY <1>1, <3>1, ClosedIs DEF Work, Ending, Changed
    <3>3. safe' = Recovered
      BY <2>4 DEF EndSync
    <3>4. Work' = O
      <4>1. pager'.eState = "READER"
        <5>1. db.now = O
          BY <1>1, <3>1, AllAreNow DEF Ending
        <5>2. pager' = Reading(O)
          BY <2>4, <3>1, <5>1 DEF EndSync, Ended, Ending
        <5> QED BY <5>2, ReadingIs
      <4> QED BY <2>1, <4>1 DEF Work, Changed
    <3>5. Atomic!Harden
      BY <1>1, <2>1, <3>2, <3>3, <3>4 DEF Atomic!Harden, Work
    <3> QED BY <3>5 DEF Atomic!Next
  <2>5. CASE PowerLoss
    <3>1. ~Changed' /\ safe' = Recovered'
      BY <2>5, ClosedIs DEF PowerLoss, Changed
    <3>2. Atomic!PowerLoss
      BY <1>1, <2>1, <3>1 DEF Atomic!PowerLoss, Work
    <3> QED BY <3>2 DEF Atomic!Next
  <2>6. safe' = safe \/ (\E s, t : SyncJournalFile(s, t)) \/ EndSync \/ PowerLoss
    <3>1. SharedLock \/ Unlock \/ Begin \/ Commit \/ SyncJournal \/ ZeroNextHeader
            \/ (\E p \in Pages : WritePage(p) \/ Spill(p)) => safe' = safe
      BY DEF SharedLock, Unlock, Begin, Commit, SyncJournal, ZeroNextHeader, WritePage, Spill
    <3>2. WriteNRec \/ NextHeader \/ WriteToFile \/ SyncFile \/ EndJournal \/ Rollback
            \/ SyncHotJournal \/ TruncateFile \/ PlayBack \/ PlaybackEnds \/ Fail => safe' = safe
      BY DEF WriteNRec, NextHeader, WriteToFile, SyncFile, EndJournal, Rollback,
             SyncHotJournal, TruncateFile, PlayBack, PlaybackEnds, Fail
    <3>3. Sync1 \/ Sync2 => \E s, t : SyncJournalFile(s, t)
      BY DEF Sync1, Sync2
    <3> QED BY <1>1, <3>1, <3>2, <3>3 DEF Step
  <2> QED BY <2>2, <2>3, <2>4, <2>5, <2>6
<1> QED BY <1>3, <1>4, <1>5, StepKeeps

(* The pager implements AtomicFile: each transaction takes effect in one   *)
(* step, that of deleting the journal, or not at all, with processes that  *)
(* die and power that fails at any moment.                                 *)
THEOREM Refinement == Spec /\ deletes /\ ~noSync => ImplementsAtomicFile
<1>1. Init /\ deletes /\ ~noSync => Atomic!Init
  <2> SUFFICES ASSUME Init, deletes, ~noSync
               PROVE  Atomic!Init
    OBVIOUS
  <2>1. PICK O \in Transactions : Kept(O)
    BY InitInv DEF IInv
  <2>2. Recovered \in Image
    BY <2>1, KeptRecovers
  <2>3. ~Changed
    BY ClosedIs DEF Init, Changed
  <2>4. Recovered = db.now
    BY NoJournalIs DEF Init, Recovered, Restored
  <2> QED BY <2>2, <2>3, <2>4 DEF Atomic!Init, Init
<1>2. IInv /\ [Next]_vars => [Atomic!Next]_<<Recovered, Work, safe>>
  <2> SUFFICES ASSUME IInv, [Next]_vars
               PROVE  [Atomic!Next]_<<Recovered, Work, safe>>
    OBVIOUS
  <2>1. CASE Next
    BY <2>1, PagerStep DEF IInv
  <2>2. CASE UNCHANGED vars
    BY <2>2 DEF vars, Recovered, Work, Changed
  <2> QED BY <2>1, <2>2
<1>3. [Atomic!Next]_<<Recovered, Work, safe>>
        <=> [Atomic!Next]_<<Recovered, IF Changed THEN pager.cache ELSE Recovered, safe>>
  BY DEF Work
<1> QED BY <1>1, <1>2, <1>3, InductiveInvariant, PTL DEF Spec, ImplementsAtomicFile, Atomic!Spec

=============================================================================
