--------------------------- MODULE CallbacksProofs ----------------------------
(***************************************************************************)
(* What the engine may still call is alive, and what runs is what was      *)
(* registered: proved for any handles, modes, slots and bounds.            *)
(***************************************************************************)
EXTENDS Callbacks, TLAPS

-----------------------------------------------------------------------------
(* The inductive invariant.                                                *)

Conn == [active : BOOLEAN, open : BOOLEAN, string_mode : Modes,
         functions : SUBSET Svs, aggregates : SUBSET Svs,
         slot : [Slots -> SlotOK], mTrace : SUBSET {"trace", "profile"},
         running : {"none", "plain", "timed"}]

FrameOK == [h : Handles, op : {"step", "halted", "prepare", "close", "perl"}, timed : BOOLEAN,
            slot : {NULL} \cup Slots, sv : {NULL} \cup Svs, mode : Modes]

(* A Perl value is kept only once it was registered, so that the next one  *)
(* is in neither array.                                                    *)
KeptWereRegistered ==
  \A h \in Handles : imp_dbh[h].functions \cup imp_dbh[h].aggregates \subseteq 1..nSv

(* What the program asked of a slot is what the engine has.                *)
WantedIsSet == \A h \in Handles : wanted[h] = imp_dbh[h].slot

(* sqlite3_close is called from outside of callbacks, on a handle that is  *)
(* not active any more.                                                    *)
CloseIsOutermost ==
  \A i \in DOMAIN frames :
    frames[i].op = "close" => i = 1 /\ ~imp_dbh[frames[i].h].active

(* A function, aggregate or collation is called by a step of its handle.   *)
GuardedAreStepped ==
  \A i \in DOMAIN frames :
    frames[i].op = "perl" /\ frames[i].slot \in Guarded
    => /\ i - 1 \in DOMAIN frames
       /\ frames[i - 1].op = "step"
       /\ frames[i - 1].h = frames[i].h
       /\ frames[i].slot \in Slots
       /\ frames[i].sv # NULL

(* The part of it about the handles, and the part about the calls.         *)
DbhInv ==
  /\ imp_dbh \in [Handles -> Conn]
  /\ \A h \in Handles : imp_dbh[h].functions \cap imp_dbh[h].aggregates = {}
  /\ last_dbh_string_mode \in Modes
  /\ nSv \in 0..MaxSv
  /\ wanted \in [Handles -> [Slots -> SlotOK]]
  /\ SlotsAlive
  /\ KeptWereRegistered
  /\ WantedIsSet

FramesInv ==
  /\ frames \in Seq(FrameOK)
  /\ \A i \in DOMAIN frames : frames[i].op = "perl" <=> i % 2 = 0
  /\ RunningIsRegistered
  /\ CloseIsOutermost
  /\ GuardedAreStepped

IInv == DbhInv /\ FramesInv

LEMMA ItHoldsTypes == IInv => TypeOK
BY DEF IInv, DbhInv, FramesInv, TypeOK, Conn, FrameOK

LEMMA EmptyOK == Empty \in SlotOK
BY CallbackAssumption DEF Empty, SlotOK, Svs

LEMMA FrameIsOK ==
  ASSUME NEW h \in Handles, NEW op \in {"step", "halted", "prepare", "close", "perl"}
  PROVE  Frame(h, op) \in FrameOK
BY CallbackAssumption DEF Frame, FrameOK, Svs

(* A call on top of the others, and a return to the one below.             *)
LEMMA PushFrame ==
  ASSUME NEW fs \in Seq(FrameOK), NEW f \in FrameOK
  PROVE  /\ Append(fs, f) \in Seq(FrameOK)
         /\ Len(fs) \in Nat
         /\ DOMAIN fs = 1..Len(fs)
         /\ DOMAIN Append(fs, f) = 1..(Len(fs) + 1)
         /\ Append(fs, f)[Len(fs) + 1] = f
         /\ \A i \in 1..Len(fs) : Append(fs, f)[i] = fs[i]
OBVIOUS

LEMMA PopFrame ==
  ASSUME NEW fs \in Seq(FrameOK), fs # <<>>
  PROVE  LET rest == SubSeq(fs, 1, Len(fs) - 1) IN
         /\ rest \in Seq(FrameOK)
         /\ Len(fs) \in Nat \ {0}
         /\ DOMAIN fs = 1..Len(fs)
         /\ DOMAIN rest = 1..(Len(fs) - 1)
         /\ \A i \in 1..(Len(fs) - 1) : rest[i] = fs[i]
OBVIOUS

-----------------------------------------------------------------------------
(* Steps of the calls.                                                     *)

(* A new call keeps the part about the calls if it is of the right kind.   *)
LEMMA PushKeeps ==
  ASSUME IInv, NEW f \in FrameOK, frames' = Append(frames, f),
         f.op = "perl" <=> InEngine,
         f.op = "perl" /\ f.slot \in Guarded
           => /\ Top.op = "step" /\ Top.h = f.h /\ f.slot \in Slots /\ f.sv # NULL
              /\ [sv |-> f.sv, mode |-> f.mode] = wanted[f.h][f.slot],
         f.op = "close" => frames = <<>> /\ ~imp_dbh'[f.h].active,
         wanted' = wanted,
         \A h \in Handles : imp_dbh'[h].active => imp_dbh[h].active
  PROVE  FramesInv'
<1> DEFINE n == Len(frames)
<1>1. /\ frames' \in Seq(FrameOK) /\ n \in Nat /\ DOMAIN frames = 1..n
      /\ DOMAIN frames' = 1..(n + 1) /\ frames'[n + 1] = f
      /\ \A i \in 1..n : frames'[i] = frames[i] /\ frames[i] \in FrameOK
  BY PushFrame DEF IInv, FramesInv
<1>2. (n + 1) % 2 = 0 <=> InEngine
  <2>1. CASE n = 0
    BY <2>1, <1>1 DEF InEngine, InPerl
  <2>2. CASE n # 0
    <3>1. n \in DOMAIN frames /\ frames # <<>>
      BY <2>2, <1>1
    <3>2. frames[n].op = "perl" <=> n % 2 = 0
      BY <3>1 DEF IInv, FramesInv
    <3>3. InEngine <=> frames[n].op # "perl"
      BY <3>1 DEF InEngine, InPerl, Top
    <3>4. n % 2 = 0 <=> (n + 1) % 2 # 0
      BY <1>1
    <3> QED
      BY <3>2, <3>3, <3>4
  <2> QED
    BY <2>1, <2>2
<1>3. \A i \in DOMAIN frames' : frames'[i].op = "perl" <=> i % 2 = 0
  BY <1>1, <1>2 DEF IInv, FramesInv
<1>4. RunningIsRegistered'
  BY <1>1 DEF IInv, FramesInv, RunningIsRegistered, Calls
<1>5. CloseIsOutermost'
  <2>1. SUFFICES ASSUME NEW i \in DOMAIN frames', frames'[i].op = "close"
                 PROVE  i = 1 /\ ~imp_dbh'[frames'[i].h].active
    BY DEF CloseIsOutermost
  <2>2. CASE i = n + 1
    BY <2>1, <2>2, <1>1
  <2>3. CASE i \in 1..n
    BY <2>1, <2>3, <1>1 DEF IInv, FramesInv, CloseIsOutermost, FrameOK
  <2> QED
    BY <2>2, <2>3, <1>1
<1>6. GuardedAreStepped'
  <2>1. SUFFICES ASSUME NEW i \in DOMAIN frames',
                        frames'[i].op = "perl", frames'[i].slot \in Guarded
                 PROVE  /\ i - 1 \in DOMAIN frames' /\ frames'[i - 1].op = "step"
                        /\ frames'[i - 1].h = frames'[i].h
                        /\ frames'[i].slot \in Slots /\ frames'[i].sv # NULL
    BY DEF GuardedAreStepped
  <2>2. CASE i = n + 1
    <3>1. frames # <<>> /\ n \in 1..n
      BY <2>1, <2>2, <1>1 DEF InEngine, InPerl
    <3> QED
      BY <2>1, <2>2, <3>1, <1>1 DEF Top
  <2>3. CASE i \in 1..n
    BY <2>1, <2>3, <1>1 DEF IInv, FramesInv, GuardedAreStepped
  <2> QED
    BY <2>2, <2>3, <1>1
<1> QED
  BY <1>1, <1>3, <1>4, <1>5, <1>6 DEF FramesInv

(* A return keeps it.                                                      *)
LEMMA PopKeeps ==
  ASSUME IInv, frames # <<>>, frames' = Rest,
         wanted' = wanted \/ Len(frames) = 1,
         \A h \in Handles : imp_dbh'[h].active => imp_dbh[h].active
  PROVE  FramesInv'
<1> DEFINE n == Len(frames)
<1>1. /\ frames' \in Seq(FrameOK) /\ n \in Nat \ {0} /\ DOMAIN frames = 1..n
      /\ DOMAIN frames' = 1..(n - 1)
      /\ \A i \in 1..(n - 1) : frames'[i] = frames[i] /\ frames[i] \in FrameOK
  BY PopFrame DEF IInv, FramesInv, Rest
<1>2. \A i \in DOMAIN frames' : frames'[i].op = "perl" <=> i % 2 = 0
  BY <1>1 DEF IInv, FramesInv
<1>3. RunningIsRegistered'
  BY <1>1 DEF IInv, FramesInv, RunningIsRegistered, Calls
<1>4. CloseIsOutermost'
  BY <1>1 DEF IInv, FramesInv, CloseIsOutermost, FrameOK
<1>5. GuardedAreStepped'
  BY <1>1 DEF IInv, FramesInv, GuardedAreStepped
<1> QED
  BY <1>1, <1>2, <1>3, <1>4, <1>5 DEF FramesInv

(* Steps that leave the slots and arrays of all handles alone.             *)
LEMMA SameSlots ==
  ASSUME IInv, imp_dbh' \in [Handles -> Conn], last_dbh_string_mode' \in Modes,
         \A h \in Handles : /\ imp_dbh'[h].slot = imp_dbh[h].slot
                            /\ imp_dbh'[h].functions = imp_dbh[h].functions
                            /\ imp_dbh'[h].aggregates = imp_dbh[h].aggregates,
         nSv' = nSv, wanted' = wanted
  PROVE  DbhInv'
BY DEF IInv, DbhInv, SlotsAlive, KeptWereRegistered, WantedIsSet

-----------------------------------------------------------------------------
(* Registrations.                                                          *)

(* What runs is not replaced: its handle has a statement active.           *)
LEMMA RunningIsRefused ==
  ASSUME IInv, NEW i \in DOMAIN frames, frames[i].op = "perl", frames[i].slot \in Guarded
  PROVE  Refused(frames[i].h, frames[i].slot)
<1>1. /\ i - 1 \in DOMAIN frames /\ frames[i - 1].op = "step"
      /\ frames[i - 1].h = frames[i].h /\ frames[i].sv # NULL
  BY DEF IInv, FramesInv, GuardedAreStepped
<1>2. nVdbeActive(frames[i].h)
  BY <1>1 DEF nVdbeActive
<1>3. frames[i] \in FrameOK
  BY DEF IInv, FramesInv
<1>4. frames[i].slot \in Slots /\ frames[i].h \in Handles
  BY <1>3 DEF FrameOK, IInv, FramesInv, GuardedAreStepped
<1>5. imp_dbh[frames[i].h].slot[frames[i].slot].sv = frames[i].sv
  <2>1. [sv |-> frames[i].sv, mode |-> frames[i].mode] = wanted[frames[i].h][frames[i].slot]
    BY DEF IInv, FramesInv, RunningIsRegistered, Calls
  <2> QED
    BY <2>1, <1>4 DEF IInv, DbhInv, WantedIsSet
<1> QED
  BY <1>1, <1>2, <1>5 DEF Refused

(* A callback registered, or taken back, refused or not.                   *)
LEMMA RegisterKeeps ==
  ASSUME IInv, NEW h \in Handles, NEW s \in Slots \ {"vtab"}, NEW sv \in {NULL} \cup Svs,
         sv = NULL => s \notin {"aggr", "coll"} /\ nSv' = nSv,
         sv # NULL => sv = nSv + 1 /\ nSv' = nSv + 1,
         Register(h, s, sv)
  PROVE  IInv'
<1> DEFINE new == IF Refused(h, s) THEN Kept(h, s, sv)
                  ELSE [Kept(h, s, sv) EXCEPT !.slot[s] = Registered(h, s, sv),
                                              !.mTrace = TraceBits(h, s, sv # NULL)]
           old == imp_dbh[h]
<1> USE DEF IInv
<1>1. /\ imp_dbh' = [imp_dbh EXCEPT ![h] = new]
      /\ wanted' = IF Refused(h, s) THEN wanted ELSE [wanted EXCEPT ![h][s] = Registered(h, s, sv)]
      /\ UNCHANGED <<last_dbh_string_mode, frames>>
  BY DEF Register
<1>2. old \in Conn /\ nSv \in 0..MaxSv /\ MaxSv \in Nat
  BY CallbackAssumption DEF DbhInv
<1>3. Registered(h, s, sv) \in SlotOK /\ Registered(h, s, sv).sv = sv
  BY <1>2, CallbackAssumption DEF Registered, SlotOK, Conn
<1>4. TraceBits(h, s, sv # NULL) \in SUBSET {"trace", "profile"}
  BY <1>2 DEF TraceBits, Conn
<1>5. nSv' \in 0..MaxSv /\ nSv <= nSv'
  BY <1>2, CallbackAssumption DEF Svs
<1>6. /\ new \in Conn
      /\ new.active = old.active
      /\ new.functions = old.functions \cup (IF s # "aggr" THEN {sv} \ {NULL} ELSE {})
      /\ new.aggregates = old.aggregates \cup (IF s = "aggr" THEN {sv} ELSE {})
      /\ new.slot = IF Refused(h, s) THEN old.slot
                    ELSE [old.slot EXCEPT ![s] = Registered(h, s, sv)]
  <2> DEFINE F == old.functions \cup (IF s # "aggr" THEN {sv} \ {NULL} ELSE {})
             A == old.aggregates \cup (IF s = "aggr" THEN {sv} ELSE {})
  <2>1. F \in SUBSET Svs /\ A \in SUBSET Svs
    <3>1. old.functions \in SUBSET Svs /\ old.aggregates \in SUBSET Svs
      BY <1>2 DEF Conn
    <3>2. sv = NULL => s # "aggr"
      OBVIOUS
    <3> QED
      BY <3>1, <3>2
  <2>2. /\ Kept(h, s, sv) \in Conn
        /\ Kept(h, s, sv).active = old.active
        /\ Kept(h, s, sv).functions = F
        /\ Kept(h, s, sv).aggregates = A
        /\ Kept(h, s, sv).slot = old.slot
    <3>1. Kept(h, s, sv) = [old EXCEPT !.functions = F, !.aggregates = A]
      BY DEF Kept
    <3>2. old \in Conn
      BY <1>2
    <3> HIDE DEF F, A, old, new
    <3> QED
      BY <3>1, <3>2, <2>1 DEF Conn
  <2>3. [old.slot EXCEPT ![s] = Registered(h, s, sv)] \in [Slots -> SlotOK]
    BY <1>2, <1>3 DEF Conn
  <2> HIDE DEF IInv
  <2> QED
    BY <2>2, <2>3, <1>4 DEF Conn
<1> HIDE DEF new
<1>7. imp_dbh' \in [Handles -> Conn]
  BY <1>1, <1>6 DEF DbhInv
<1>8. \A g \in Handles : g # h => imp_dbh'[g] = imp_dbh[g]
  BY <1>1 DEF DbhInv
<1>9. imp_dbh'[h] = new
  BY <1>1 DEF DbhInv
<1>10. imp_dbh'[h].functions \cap imp_dbh'[h].aggregates = {}
  <2>1. /\ old.functions \cap old.aggregates = {}
        /\ old.functions \cup old.aggregates \subseteq 1..nSv
    BY DEF DbhInv, KeptWereRegistered
  <2>2. sv # NULL => sv \notin 1..nSv
    BY <1>2
  <2>3. sv = NULL => s # "aggr"
    OBVIOUS
  <2> QED
    BY <1>6, <1>9, <2>1, <2>2, <2>3
<1>11. wanted' \in [Handles -> [Slots -> SlotOK]]
  BY <1>1, <1>3 DEF DbhInv
<1>12. SlotsAlive'
  <2>1. SUFFICES ASSUME NEW g \in Handles, NEW t \in Slots
                 PROVE  imp_dbh'[g].slot[t].sv
                          \in {NULL} \cup imp_dbh'[g].functions \cup imp_dbh'[g].aggregates
    BY DEF SlotsAlive
  <2>2. imp_dbh[g].slot[t].sv \in {NULL} \cup imp_dbh[g].functions \cup imp_dbh[g].aggregates
    BY DEF DbhInv, SlotsAlive
  <2>3. CASE g # h
    BY <2>2, <2>3, <1>8
  <2>4. CASE g = h
    <3>1. old.slot \in [Slots -> SlotOK]
      BY <1>2 DEF Conn
    <3>2. CASE t = s /\ ~Refused(h, s)
      BY <3>1, <3>2, <2>4, <1>3, <1>6, <1>9
    <3>3. CASE ~(t = s /\ ~Refused(h, s))
      <4>1. new.slot[t] = old.slot[t]
        BY <3>1, <3>3, <1>6
      <4> QED
        BY <4>1, <2>2, <2>4, <1>6, <1>9
    <3> QED
      BY <3>2, <3>3
  <2> QED
    BY <2>3, <2>4
<1>13. KeptWereRegistered'
  <2>1. SUFFICES ASSUME NEW g \in Handles
                 PROVE  imp_dbh'[g].functions \cup imp_dbh'[g].aggregates \subseteq 1..nSv'
    BY DEF KeptWereRegistered
  <2>2. imp_dbh[g].functions \cup imp_dbh[g].aggregates \subseteq 1..nSv
    BY DEF DbhInv, KeptWereRegistered
  <2>3. 1..nSv \subseteq 1..nSv'
    BY <1>2, <1>5
  <2>4. sv # NULL => sv \in 1..nSv'
    BY <1>2
  <2>5. sv = NULL => s # "aggr"
    OBVIOUS
  <2> QED
    BY <2>2, <2>3, <2>4, <2>5, <1>6, <1>8, <1>9
<1>14. WantedIsSet'
  <2>1. SUFFICES ASSUME NEW g \in Handles
                 PROVE  wanted'[g] = imp_dbh'[g].slot
    BY DEF WantedIsSet
  <2>2. wanted[g] = imp_dbh[g].slot /\ wanted \in [Handles -> [Slots -> SlotOK]]
    BY DEF DbhInv, WantedIsSet
  <2> QED
    BY <2>2, <1>1, <1>6, <1>8, <1>9
<1>15. DbhInv'
  <2>1. \A g \in Handles : imp_dbh'[g].functions \cap imp_dbh'[g].aggregates = {}
    BY <1>8, <1>10 DEF DbhInv
  <2> QED
    BY <2>1, <1>1, <1>5, <1>7, <1>11, <1>12, <1>13, <1>14 DEF DbhInv
<1>16. RunningIsRegistered'
  <2>1. SUFFICES ASSUME NEW i \in Calls, frames[i].slot \in Guarded
                 PROVE  [sv |-> frames[i].sv, mode |-> frames[i].mode]
                          = wanted'[frames[i].h][frames[i].slot]
    BY <1>1 DEF RunningIsRegistered, Calls
  <2>2. [sv |-> frames[i].sv, mode |-> frames[i].mode] = wanted[frames[i].h][frames[i].slot]
    BY <2>1 DEF FramesInv, RunningIsRegistered
  <2>3. Refused(frames[i].h, frames[i].slot)
    BY <2>1, RunningIsRefused DEF Calls
  <2>4. wanted'[frames[i].h][frames[i].slot] = wanted[frames[i].h][frames[i].slot]
    <3>1. frames[i] \in FrameOK
      BY DEF FramesInv, Calls
    <3>2. frames[i].h \in Handles
      BY <3>1 DEF FrameOK
    <3>3. CASE Refused(h, s)
      BY <3>3, <1>1
    <3>4. CASE ~Refused(h, s)
      <4>1. frames[i].h # h \/ frames[i].slot # s
        BY <2>3, <3>4
      <4>2. wanted \in [Handles -> [Slots -> SlotOK]]
        BY DEF DbhInv
      <4> QED
        BY <4>1, <4>2, <3>2, <3>4, <1>1
    <3> QED
      BY <3>3, <3>4
  <2> QED
    BY <2>2, <2>4
<1>17. CloseIsOutermost'
  <2>1. \A g \in Handles : imp_dbh'[g].active = imp_dbh[g].active
    BY <1>6, <1>8, <1>9
  <2>2. SUFFICES ASSUME NEW i \in DOMAIN frames, frames[i].op = "close"
                 PROVE  i = 1 /\ ~imp_dbh'[frames[i].h].active
    BY <1>1 DEF CloseIsOutermost
  <2>3. frames[i] \in FrameOK /\ i = 1 /\ ~imp_dbh[frames[i].h].active
    BY <2>2 DEF FramesInv, CloseIsOutermost
  <2>4. frames[i].h \in Handles
    BY <2>3 DEF FrameOK
  <2> QED
    BY <2>1, <2>3, <2>4
<1> QED
  BY <1>1, <1>15, <1>16, <1>17 DEF FramesInv, GuardedAreStepped

(* The end of sqlite3_close takes the slots and the arrays with it.        *)
LEMMA ClosedKeeps ==
  ASSUME IInv, Closed
  PROVE  IInv'
<1> DEFINE n == Len(frames)
           h == Top.h
           none == [s \in Slots |-> Empty]
<1>1. frames \in Seq(FrameOK) /\ frames # <<>> /\ Top.op = "close"
  BY DEF IInv, FramesInv, Closed, InEngine, InPerl
<1>2. n \in DOMAIN frames /\ Top = frames[n] /\ Top \in FrameOK
  BY <1>1 DEF Top
<1>3. n = 1 /\ h \in Handles
  BY <1>1, <1>2 DEF IInv, FramesInv, CloseIsOutermost, FrameOK
<1> HIDE DEF h
<1>4. none \in [Slots -> SlotOK]
  BY EmptyOK
<1>5. /\ imp_dbh \in [Handles -> Conn] /\ imp_dbh[h] \in Conn
      /\ wanted \in [Handles -> [Slots -> SlotOK]]
  BY <1>3 DEF IInv, DbhInv
<1>6. /\ imp_dbh' = [imp_dbh EXCEPT ![h].open = FALSE, ![h].functions = {}, ![h].aggregates = {},
                                    ![h].mTrace = {}, ![h].slot = none]
      /\ wanted' = [wanted EXCEPT ![h] = none]
      /\ frames' = Rest /\ UNCHANGED <<last_dbh_string_mode, nSv>>
  BY DEF Closed, h
<1> HIDE DEF none
<1>7. /\ imp_dbh'[h] \in Conn /\ imp_dbh'[h].slot = none
      /\ imp_dbh'[h].functions = {} /\ imp_dbh'[h].aggregates = {}
      /\ imp_dbh'[h].active = imp_dbh[h].active
  BY <1>3, <1>4, <1>5, <1>6 DEF Conn
<1>8. /\ imp_dbh' \in [Handles -> Conn]
      /\ \A g \in Handles : g # h => imp_dbh'[g] = imp_dbh[g]
  BY <1>3, <1>5, <1>6, <1>7
<1>9. FramesInv'
  <2>1. \A g \in Handles : imp_dbh'[g].active => imp_dbh[g].active
    BY <1>7, <1>8
  <2> QED
    BY <2>1, <1>1, <1>3, <1>6, PopKeeps
<1>10. DbhInv'
  <2>1. SlotsAlive'
    <3>1. \A s \in Slots : none[s].sv = NULL
      BY DEF none, Empty
    <3> QED
      BY <3>1, <1>7, <1>8 DEF IInv, DbhInv, SlotsAlive
  <2>2. KeptWereRegistered'
    BY <1>6, <1>7, <1>8 DEF IInv, DbhInv, KeptWereRegistered
  <2>3. WantedIsSet'
    BY <1>5, <1>6, <1>7, <1>8 DEF IInv, DbhInv, WantedIsSet
  <2>4. wanted' \in [Handles -> [Slots -> SlotOK]]
    BY <1>4, <1>5, <1>6
  <2>5. \A g \in Handles : imp_dbh'[g].functions \cap imp_dbh'[g].aggregates = {}
    BY <1>7, <1>8 DEF IInv, DbhInv
  <2> QED
    BY <2>1, <2>2, <2>3, <2>4, <2>5, <1>6, <1>8 DEF IInv, DbhInv
<1> QED
  BY <1>9, <1>10 DEF IInv

(* The engine calls Perl.                                                  *)
LEMMA CallKeeps ==
  ASSUME IInv, NEW s \in Slots, Call(s)
  PROVE  IInv'
<1> DEFINE f == [Frame(Top.h, "perl") EXCEPT !.slot = s, !.sv = imp_dbh[Top.h].slot[s].sv,
                                             !.mode = CallMode(Top.h, s)]
<1>1. frames # <<>> /\ Top \in FrameOK /\ Top.op # "perl"
  BY DEF IInv, FramesInv, Call, InEngine, InPerl, Top
<1>2. Top.h \in Handles
  BY <1>1 DEF FrameOK
<1>3. imp_dbh[Top.h].slot[s] \in SlotOK
  BY <1>2 DEF IInv, DbhInv, Conn
<1>4. CallMode(Top.h, s) \in Modes
  BY <1>3 DEF CallMode, SlotOK, IInv, DbhInv
<1>5. /\ f \in FrameOK /\ f.op = "perl" /\ f.h = Top.h /\ f.slot = s
      /\ f.sv = imp_dbh[Top.h].slot[s].sv /\ f.mode = CallMode(Top.h, s)
  BY <1>2, <1>3, <1>4, FrameIsOK DEF FrameOK, SlotOK, Frame
<1>6. frames' = Append(frames, f) /\ UNCHANGED <<imp_dbh, last_dbh_string_mode, nSv, wanted>>
  BY DEF Call
<1> HIDE DEF f
<1>7. ASSUME s \in Guarded
      PROVE  /\ Top.op = "step" /\ f.sv # NULL
             /\ [sv |-> f.sv, mode |-> f.mode] = wanted[f.h][s]
  <2>1. s \notin {"hook", "profile", "vtab"}
    BY <1>7 DEF Guarded
  <2>2. Top.op = "step"
    <3>1. s \in Reached(Top.op, Top.timed)
      BY DEF Call
    <3>2. Top.op \in {"step", "halted", "prepare", "close"}
      BY <1>1 DEF FrameOK
    <3> QED
      BY <3>1, <3>2, <2>1 DEF Reached
  <2>3. f.sv # NULL
    BY <2>1, <1>5 DEF Call
  <2>4. wanted[f.h][s] = imp_dbh[f.h].slot[s]
    BY <1>2, <1>5 DEF IInv, DbhInv, WantedIsSet
  <2>5. f.mode = imp_dbh[f.h].slot[s].mode
    BY <2>1, <1>5 DEF CallMode
  <2> QED
    BY <2>2, <2>3, <2>4, <2>5, <1>3, <1>5 DEF SlotOK
<1>8. FramesInv'
  BY <1>1, <1>5, <1>6, <1>7, PushKeeps DEF Call
<1>9. DbhInv'
  BY <1>6 DEF IInv, DbhInv, SlotsAlive, KeptWereRegistered, WantedIsSet
<1> QED
  BY <1>8, <1>9 DEF IInv

-----------------------------------------------------------------------------
(* The specification.                                                      *)

LEMMA InitOK == Init => IInv
<1> SUFFICES ASSUME Init PROVE IInv
  OBVIOUS
<1>1. imp_dbh \in [Handles -> Conn]
  <2>1. [s \in Slots |-> Empty] \in [Slots -> SlotOK]
    BY EmptyOK
  <2>2. \A m \in Modes : Connected(m) \in Conn
    BY <2>1 DEF Connected, Conn
  <2> QED
    BY <2>2 DEF Init
<1>2. \A h \in Handles : /\ imp_dbh[h].functions = {} /\ imp_dbh[h].aggregates = {}
                         /\ imp_dbh[h].slot = [s \in Slots |-> Empty]
  BY DEF Init, Connected
<1>3. DbhInv
  BY <1>1, <1>2, EmptyOK, CallbackAssumption
     DEF Init, DbhInv, SlotsAlive, KeptWereRegistered, WantedIsSet, Empty
<1>4. FramesInv
  BY DEF Init, FramesInv, RunningIsRegistered, Calls, CloseIsOutermost, GuardedAreStepped
<1> QED
  BY <1>3, <1>4 DEF IInv

(* A string mode and the clock of a statement change no registration.      *)
SameRegistrations(d, e) ==
  /\ e.slot = d.slot /\ e.functions = d.functions
  /\ e.aggregates = d.aggregates /\ e.active = d.active

LEMMA OtherFields ==
  ASSUME NEW d \in Conn
  PROVE  /\ \A m \in Modes : LET e == [d EXCEPT !.string_mode = m] IN
              e \in Conn /\ SameRegistrations(d, e)
         /\ \A r \in {"none", "plain", "timed"} : LET e == [d EXCEPT !.running = r] IN
              e \in Conn /\ SameRegistrations(d, e)
<1>1. \A m \in Modes : LET e == [d EXCEPT !.string_mode = m] IN
              e \in Conn /\ SameRegistrations(d, e)
  BY DEF Conn, SameRegistrations
<1>2. \A r \in {"none", "plain", "timed"} : LET e == [d EXCEPT !.running = r] IN
              e \in Conn /\ SameRegistrations(d, e)
  BY DEF Conn, SameRegistrations
<1> QED
  BY <1>1, <1>2

LEMMA RegistrationsKept ==
  ASSUME imp_dbh \in [Handles -> Conn], NEW h \in Handles, NEW d \in Conn,
         SameRegistrations(imp_dbh[h], d),
         imp_dbh' = [imp_dbh EXCEPT ![h] = d]
  PROVE  /\ imp_dbh' \in [Handles -> Conn]
         /\ \A g \in Handles : /\ imp_dbh'[g].slot = imp_dbh[g].slot
                                /\ imp_dbh'[g].functions = imp_dbh[g].functions
                                /\ imp_dbh'[g].aggregates = imp_dbh[g].aggregates
                                /\ imp_dbh'[g].active = imp_dbh[g].active
BY DEF SameRegistrations

(* Every step of the program and of the engine.                            *)
LEMMA StepKeeps == IInv /\ [Next]_vars => IInv'
<1> SUFFICES ASSUME IInv, [Next]_vars PROVE IInv'
  OBVIOUS
<1>0. /\ frames \in Seq(FrameOK)
      /\ imp_dbh \in [Handles -> Conn]
      /\ \A h \in Handles : imp_dbh[h] \in Conn /\ imp_dbh[h].string_mode \in Modes
  BY DEF IInv, DbhInv, FramesInv, Conn
<1>1. ASSUME NEW h \in Handles, NEW mode \in Modes, SetStringMode(h, mode) PROVE IInv'
  <2>1. /\ imp_dbh' \in [Handles -> Conn]
        /\ \A g \in Handles : /\ imp_dbh'[g].slot = imp_dbh[g].slot
                              /\ imp_dbh'[g].functions = imp_dbh[g].functions
                              /\ imp_dbh'[g].aggregates = imp_dbh[g].aggregates
                              /\ imp_dbh'[g].active = imp_dbh[g].active
    <3> DEFINE d == [imp_dbh[h] EXCEPT !.string_mode = mode]
    <3>1. d \in Conn /\ SameRegistrations(imp_dbh[h], d)
      BY <1>0, OtherFields
    <3>2. imp_dbh' = [imp_dbh EXCEPT ![h] = d]
      BY <1>1 DEF SetStringMode
    <3> HIDE DEF d
    <3> QED
      BY <1>0, <3>1, <3>2, RegistrationsKept
  <2>2. DbhInv'
    BY <1>1, <2>1, SameSlots DEF SetStringMode, IInv, DbhInv
  <2>3. FramesInv'
    <3>1. CloseIsOutermost'
      <4>1. SUFFICES ASSUME NEW i \in DOMAIN frames, frames[i].op = "close"
                     PROVE  i = 1 /\ ~imp_dbh'[frames[i].h].active
        BY <1>1 DEF SetStringMode, CloseIsOutermost
      <4>2. frames[i] \in FrameOK /\ i = 1 /\ ~imp_dbh[frames[i].h].active
        BY <4>1 DEF IInv, FramesInv, CloseIsOutermost
      <4>3. frames[i].h \in Handles
        BY <4>2 DEF FrameOK
      <4> QED
        BY <2>1, <4>2, <4>3
    <3> QED
      BY <3>1, <1>1 DEF SetStringMode, IInv, FramesInv, RunningIsRegistered, Calls,
                        GuardedAreStepped
  <2> QED
    BY <2>2, <2>3 DEF IInv
<1>2. ASSUME NEW h \in Handles, Prepare(h) PROVE IInv'
  <2> DEFINE f == Frame(h, "prepare")
  <2>1. f \in FrameOK /\ f.op = "prepare"
    BY FrameIsOK DEF Frame
  <2>2. DbhInv'
    BY <1>0, <1>2, SameSlots DEF Prepare
  <2>3. FramesInv'
    <3>1. CASE frames' = frames
      BY <3>1, <1>2 DEF Prepare, IInv, FramesInv, RunningIsRegistered, Calls, CloseIsOutermost,
                        GuardedAreStepped
    <3>2. CASE frames' = Append(frames, f)
      BY <2>1, <3>2, <1>2, PushKeeps DEF Prepare, InEngine
    <3> QED
      BY <3>1, <3>2, <1>2 DEF Prepare
  <2> QED
    BY <2>2, <2>3 DEF IInv
<1>3. ASSUME NEW h \in Handles, Execute(h) PROVE IInv'
  <2> DEFINE f == [Frame(h, "step") EXCEPT !.timed = "profile" \in imp_dbh[h].mTrace]
  <2>1. f \in FrameOK /\ f.op = "step"
    <3>1. ("profile" \in imp_dbh[h].mTrace) \in BOOLEAN
      OBVIOUS
    <3>2. f = [h |-> h, op |-> "step", timed |-> "profile" \in imp_dbh[h].mTrace,
               slot |-> NULL, sv |-> NULL, mode |-> PV]
      BY DEF Frame
    <3> QED
      BY <3>1, <3>2, CallbackAssumption DEF FrameOK
  <2>2. frames' = Append(frames, f) /\ UNCHANGED <<imp_dbh, last_dbh_string_mode, nSv, wanted>>
    BY <1>3 DEF Execute
  <2> HIDE DEF f
  <2>3. FramesInv'
    BY <2>1, <2>2, <1>3, PushKeeps DEF Execute, InEngine
  <2>4. DbhInv'
    BY <2>2 DEF IInv, DbhInv, SlotsAlive, KeptWereRegistered, WantedIsSet
  <2> QED
    BY <2>3, <2>4 DEF IInv
<1>4. ASSUME NEW h \in Handles, Fetch(h) PROVE IInv'
  <2> DEFINE f == [Frame(h, "step") EXCEPT !.timed = (imp_dbh[h].running = "timed")]
  <2>1. f \in FrameOK /\ f.op = "step"
    BY FrameIsOK DEF Frame, FrameOK
  <2>2. /\ frames' = Append(frames, f) /\ UNCHANGED <<last_dbh_string_mode, nSv, wanted>>
        /\ imp_dbh' = [imp_dbh EXCEPT ![h].running = "none"]
    BY <1>4 DEF Fetch
  <2> HIDE DEF f
  <2>3. /\ imp_dbh' \in [Handles -> Conn]
        /\ \A g \in Handles : /\ imp_dbh'[g].slot = imp_dbh[g].slot
                              /\ imp_dbh'[g].functions = imp_dbh[g].functions
                              /\ imp_dbh'[g].aggregates = imp_dbh[g].aggregates
                              /\ imp_dbh'[g].active = imp_dbh[g].active
    <3> DEFINE d == [imp_dbh[h] EXCEPT !.running = "none"]
    <3>1. d \in Conn /\ SameRegistrations(imp_dbh[h], d)
      BY <1>0, OtherFields
    <3>2. imp_dbh' = [imp_dbh EXCEPT ![h] = d]
      BY <2>2
    <3> HIDE DEF d
    <3> QED
      BY <1>0, <3>1, <3>2, RegistrationsKept
  <2>4. FramesInv'
    BY <2>1, <2>2, <2>3, <1>4, PushKeeps DEF Fetch, InEngine
  <2>5. DbhInv'
    BY <2>2, <2>3, SameSlots DEF IInv, DbhInv
  <2> QED
    BY <2>4, <2>5 DEF IInv
<1>5. ASSUME NEW h \in Handles, Disconnect(h) PROVE IInv'
  <2> DEFINE f == [Frame(h, "close") EXCEPT !.timed = (imp_dbh[h].running = "timed")]
  <2>1. f \in FrameOK /\ f.op = "close" /\ f.h = h
    BY FrameIsOK DEF Frame, FrameOK
  <2>2. /\ frames = <<>> /\ frames' = <<f>> /\ UNCHANGED <<last_dbh_string_mode, nSv, wanted>>
        /\ imp_dbh' = [imp_dbh EXCEPT ![h] = Closing(h)]
    BY <1>5 DEF Disconnect
  <2> HIDE DEF f
  <2>3. /\ imp_dbh' \in [Handles -> Conn] /\ ~imp_dbh'[h].active
        /\ \A g \in Handles : /\ imp_dbh'[g].slot = imp_dbh[g].slot
                              /\ imp_dbh'[g].functions = imp_dbh[g].functions
                              /\ imp_dbh'[g].aggregates = imp_dbh[g].aggregates
                              /\ imp_dbh'[g].active => imp_dbh[g].active
    <3>1. /\ Closing(h) \in Conn /\ ~Closing(h).active
          /\ Closing(h).slot = imp_dbh[h].slot
          /\ Closing(h).functions = imp_dbh[h].functions
          /\ Closing(h).aggregates = imp_dbh[h].aggregates
      BY <1>0 DEF Closing, Conn
    <3> QED
      BY <3>1, <2>2, <1>0
  <2>4. FramesInv'
    <3>1. frames' = Append(frames, f)
      BY <2>2
    <3> QED
      BY <3>1, <2>1, <2>2, <2>3, PushKeeps DEF InEngine, InPerl
  <2>5. DbhInv'
    BY <2>2, <2>3, SameSlots DEF IInv, DbhInv
  <2> QED
    BY <2>4, <2>5 DEF IInv
<1>6. ASSUME NEW h \in Handles, NEW s \in Slots \ {"vtab"}, Create(h, s) PROVE IInv'
  <2>1. nSv + 1 \in Svs
    BY <1>6, CallbackAssumption DEF Create, Svs, IInv, DbhInv
  <2>2. nSv + 1 # NULL
    BY <2>1, CallbackAssumption DEF Svs
  <2> QED
    BY <1>6, <2>1, <2>2, RegisterKeeps DEF Create
<1>7. ASSUME NEW h \in Handles, NEW s \in Slots \ {"vtab"}, Remove(h, s) PROVE IInv'
  BY <1>7, RegisterKeeps DEF Remove
<1>8. ASSUME NEW s \in Slots, Call(s) PROVE IInv'
  BY <1>8, CallKeeps
<1>9. CASE CallReturns
  BY <1>9, PopKeeps DEF CallReturns, IInv, DbhInv, SlotsAlive, KeptWereRegistered, WantedIsSet
<1>10. CASE Halt
  <2> DEFINE n == Len(frames)
  <2>1. /\ frames' = [frames EXCEPT ![n].op = "halted"]
        /\ UNCHANGED <<imp_dbh, last_dbh_string_mode, nSv, wanted>>
        /\ frames # <<>> /\ frames[n].op = "step"
    BY <1>10 DEF Halt, InEngine, InPerl, Top
  <2>2. n \in DOMAIN frames /\ DOMAIN frames = 1..n /\ n \in Nat /\ frames[n] \in FrameOK
    BY <1>0, <2>1
  <2>3. [frames[n] EXCEPT !.op = "halted"] \in FrameOK
    BY <2>2 DEF FrameOK
  <2>4. /\ frames' \in Seq(FrameOK) /\ DOMAIN frames' = DOMAIN frames
        /\ \A i \in DOMAIN frames : i # n => frames'[i] = frames[i]
        /\ frames'[n].op = "halted"
    BY <1>0, <2>1, <2>2, <2>3 DEF FrameOK
  <2>5. \A i \in DOMAIN frames : frames[i].op = "perl" \/ frames'[i].op = "perl"
                                 => i # n /\ i - 1 # n
    BY <2>1, <2>2, <2>4
  <2>6. \A i \in DOMAIN frames' : frames'[i].op = "perl" <=> i % 2 = 0
    BY <2>1, <2>2, <2>4 DEF IInv, FramesInv
  <2>7. RunningIsRegistered'
    BY <2>1, <2>4, <2>5 DEF IInv, FramesInv, RunningIsRegistered, Calls
  <2>8. CloseIsOutermost'
    BY <2>1, <2>4 DEF IInv, FramesInv, CloseIsOutermost
  <2>9. GuardedAreStepped'
    BY <2>1, <2>4, <2>5 DEF IInv, FramesInv, GuardedAreStepped
  <2>10. DbhInv'
    BY <2>1 DEF IInv, DbhInv, SlotsAlive, KeptWereRegistered, WantedIsSet
  <2> QED
    BY <2>4, <2>6, <2>7, <2>8, <2>9, <2>10 DEF IInv, FramesInv
<1>11. CASE EngineReturns
  BY <1>11, PopKeeps DEF EngineReturns, InEngine, InPerl, IInv, DbhInv, SlotsAlive,
                         KeptWereRegistered, WantedIsSet
<1>12. CASE RowReturned
  <2> DEFINE h == Top.h
             now == IF Top.timed THEN "timed" ELSE "plain"
  <2>1. /\ frames # <<>> /\ frames' = Rest /\ UNCHANGED <<last_dbh_string_mode, nSv, wanted>>
        /\ imp_dbh' = [imp_dbh EXCEPT ![h].running = now]
    BY <1>12 DEF RowReturned, InEngine, InPerl
  <2>2. h \in Handles /\ now \in {"timed", "plain"}
    <3>1. Top \in FrameOK
      BY <1>0, <2>1 DEF Top
    <3> QED
      BY <3>1 DEF FrameOK
  <2> HIDE DEF h, now
  <2>3. /\ imp_dbh' \in [Handles -> Conn]
        /\ \A g \in Handles : /\ imp_dbh'[g].slot = imp_dbh[g].slot
                              /\ imp_dbh'[g].functions = imp_dbh[g].functions
                              /\ imp_dbh'[g].aggregates = imp_dbh[g].aggregates
                              /\ imp_dbh'[g].active = imp_dbh[g].active
    <3> DEFINE d == [imp_dbh[h] EXCEPT !.running = now]
    <3>1. d \in Conn /\ SameRegistrations(imp_dbh[h], d)
      BY <1>0, <2>2, OtherFields
    <3>2. imp_dbh' = [imp_dbh EXCEPT ![h] = d]
      BY <2>1
    <3> HIDE DEF d
    <3> QED
      BY <1>0, <2>2, <3>1, <3>2, RegistrationsKept
  <2>4. FramesInv'
    BY <2>1, <2>3, PopKeeps
  <2>5. DbhInv'
    BY <2>1, <2>3, SameSlots DEF IInv, DbhInv
  <2> QED
    BY <2>4, <2>5 DEF IInv
<1>13. CASE Closed
  BY <1>13, ClosedKeeps
<1>14. CASE UNCHANGED vars
  BY <1>14 DEF vars, IInv, DbhInv, FramesInv, SlotsAlive, KeptWereRegistered, WantedIsSet,
               RunningIsRegistered, Calls, CloseIsOutermost, GuardedAreStepped
<1> QED
  BY <1>1, <1>2, <1>3, <1>4, <1>5, <1>6, <1>7, <1>8, <1>9, <1>10, <1>11, <1>12, <1>13, <1>14
     DEF Next

(* The inductive invariant holds: a registration is refused while what it  *)
(* would replace may run, and nothing else touches the slots.              *)
THEOREM InductiveInvariant == Spec => []IInv
BY InitOK, StepKeeps, PTL DEF Spec

(* Every handle and every call in progress is of its type; a Perl value is *)
(* in one of the two arrays, and Perl runs on top of an engine call.       *)
THEOREM TypeCorrect == Spec => []TypeOK
BY InductiveInvariant, ItHoldsTypes, PTL

(* The engine never calls a Perl value that was released.                  *)
THEOREM EngineCallsTheLiving == Spec => []SlotsAlive
BY InductiveInvariant, PTL DEF IInv, DbhInv

(* A function, aggregate or collation that runs is the registered one,     *)
(* with the string mode of its handle at the registration.                 *)
THEOREM RunningStaysRegistered == Spec => []RunningIsRegistered
BY InductiveInvariant, PTL DEF IInv, FramesInv

-----------------------------------------------------------------------------
(* What runs is kept.  The arrays only grow until the close has returned,  *)
(* and by then no callback runs.                                           *)

LEMMA KeptCalls ==
  ASSUME IInv, RunningIsKept,
         \A i \in Calls' : /\ i \in Calls
                           /\ frames'[i].h = frames[i].h
                           /\ frames'[i].sv = frames[i].sv,
         \A h \in Handles : /\ imp_dbh[h].functions \subseteq imp_dbh'[h].functions
                            /\ imp_dbh[h].aggregates \subseteq imp_dbh'[h].aggregates
  PROVE  RunningIsKept'
<1>1. SUFFICES ASSUME NEW i \in Calls'
               PROVE  frames'[i].sv \in {NULL} \cup imp_dbh'[frames'[i].h].functions
                                                \cup imp_dbh'[frames'[i].h].aggregates
  BY DEF RunningIsKept
<1>2. i \in Calls /\ frames'[i].h = frames[i].h /\ frames'[i].sv = frames[i].sv
  OBVIOUS
<1>3. frames[i] \in FrameOK
  BY <1>2 DEF IInv, FramesInv, Calls
<1>4. frames[i].h \in Handles
  BY <1>3 DEF FrameOK
<1>5. frames[i].sv \in {NULL} \cup imp_dbh[frames[i].h].functions
                              \cup imp_dbh[frames[i].h].aggregates
  BY <1>2 DEF RunningIsKept
<1> QED
  BY <1>2, <1>4, <1>5

(* The calls of Perl code that were in progress are the only ones after a  *)
(* step that starts none.                                                  *)
LEMMA NoNewCall ==
  ASSUME IInv, Next, \A s \in Slots : ~Call(s)
  PROVE  \A i \in Calls' : /\ i \in Calls
                           /\ frames'[i].h = frames[i].h
                           /\ frames'[i].sv = frames[i].sv
<1>1. frames \in Seq(FrameOK)
  BY DEF IInv, FramesInv
<1>2. CASE frames' = frames
  BY <1>2 DEF Calls
<1>3. ASSUME NEW f, f \in FrameOK, f.op # "perl", frames' = Append(frames, f)
      PROVE  \A i \in Calls' : i \in Calls /\ frames'[i] = frames[i]
  BY <1>1, <1>3, PushFrame DEF Calls
<1>4. CASE frames # <<>> /\ frames' = Rest
  BY <1>1, <1>4, PopFrame DEF Calls, Rest
<1>5. CASE Halt
  <2>1. /\ frames' = [frames EXCEPT ![Len(frames)].op = "halted"]
        /\ frames # <<>>
    BY <1>5 DEF Halt, InEngine, InPerl
  <2>2. Len(frames) \in DOMAIN frames /\ frames[Len(frames)] \in FrameOK
    BY <1>1, <2>1
  <2>3. DOMAIN frames' = DOMAIN frames
    BY <2>1
  <2>4. frames'[Len(frames)].op = "halted"
    BY <2>1, <2>2 DEF FrameOK
  <2>5. \A i \in DOMAIN frames : i # Len(frames) => frames'[i] = frames[i]
    BY <2>1
  <2> QED
    BY <2>3, <2>4, <2>5 DEF Calls
<1>6. ASSUME NEW h \in Handles, Prepare(h) \/ Execute(h) \/ Fetch(h) \/ Disconnect(h),
             frames' # frames
      PROVE  \E f \in FrameOK : f.op # "perl" /\ frames' = Append(frames, f)
  <2>1. \A op \in {"step", "prepare", "close"}, timed \in BOOLEAN :
          LET f == [Frame(h, op) EXCEPT !.timed = timed] IN
          f \in FrameOK /\ f.op # "perl"
    BY FrameIsOK DEF FrameOK, Frame
  <2>2. Frame(h, "prepare") \in FrameOK /\ Frame(h, "prepare").op # "perl"
    BY FrameIsOK DEF Frame
  <2>3. CASE Prepare(h)
    BY <1>6, <2>2, <2>3 DEF Prepare
  <2>4. CASE Execute(h)
    <3>1. ("profile" \in imp_dbh[h].mTrace) \in BOOLEAN
      OBVIOUS
    <3> QED
      BY <2>1, <2>4, <3>1 DEF Execute
  <2>5. CASE Fetch(h)
    <3>1. (imp_dbh[h].running = "timed") \in BOOLEAN
      OBVIOUS
    <3> QED
      BY <2>1, <2>5, <3>1 DEF Fetch
  <2>6. CASE Disconnect(h)
    <3> DEFINE f == [Frame(h, "close") EXCEPT !.timed = (imp_dbh[h].running = "timed")]
    <3>1. frames' = <<f>> /\ frames = <<>>
      BY <2>6 DEF Disconnect
    <3>2. f \in FrameOK /\ f.op # "perl"
      BY <2>1
    <3> HIDE DEF f
    <3>3. frames' = Append(frames, f)
      BY <3>1
    <3> QED
      BY <3>2, <3>3
  <2> QED
    BY <1>6, <2>3, <2>4, <2>5, <2>6
<1>7. CASE \E h \in Handles : Prepare(h) \/ Execute(h) \/ Fetch(h) \/ Disconnect(h)
  BY <1>2, <1>3, <1>6, <1>7
<1>8. CASE CallReturns \/ EngineReturns \/ RowReturned \/ Closed
  BY <1>4, <1>8 DEF CallReturns, EngineReturns, RowReturned, Closed, InEngine, InPerl
<1>9. CASE \E h \in Handles : \/ \E mode \in Modes : SetStringMode(h, mode)
                              \/ \E s \in Slots \ {"vtab"} : Create(h, s) \/ Remove(h, s)
  BY <1>2, <1>9 DEF SetStringMode, Create, Remove, Register
<1> QED
  BY <1>5, <1>7, <1>8, <1>9 DEF Next

(* Nothing leaves the arrays before the end of the close.                  *)
LEMMA ArraysGrow ==
  ASSUME IInv, Next, ~Closed, NEW g \in Handles
  PROVE  /\ imp_dbh[g].functions \subseteq imp_dbh'[g].functions
         /\ imp_dbh[g].aggregates \subseteq imp_dbh'[g].aggregates
<1>1. imp_dbh \in [Handles -> Conn] /\ imp_dbh[g] \in Conn
  BY DEF IInv, DbhInv
<1>2. ASSUME NEW h \in Handles, NEW s \in Slots, NEW sv, Register(h, s, sv)
      PROVE  /\ imp_dbh[g].functions \subseteq imp_dbh'[g].functions
             /\ imp_dbh[g].aggregates \subseteq imp_dbh'[g].aggregates
  <2>1. CASE g # h
    BY <1>1, <1>2, <2>1 DEF Register
  <2>2. CASE g = h
    <3> DEFINE F == imp_dbh[h].functions \cup (IF s # "aggr" THEN {sv} \ {NULL} ELSE {})
               A == imp_dbh[h].aggregates \cup (IF s = "aggr" THEN {sv} ELSE {})
               k == [imp_dbh[h] EXCEPT !.functions = F, !.aggregates = A]
    <3>1. Kept(h, s, sv) = k
      BY DEF Kept
    <3>2. \/ imp_dbh' = [imp_dbh EXCEPT ![h] = k]
          \/ imp_dbh' = [imp_dbh EXCEPT ![h] =
                           [k EXCEPT !.slot[s] = Registered(h, s, sv),
                                     !.mTrace = TraceBits(h, s, sv # NULL)]]
      BY <1>2, <3>1 DEF Register
    <3>3. imp_dbh[h].functions \subseteq F /\ imp_dbh[h].aggregates \subseteq A
      OBVIOUS
    <3> HIDE DEF F, A
    <3>4. /\ k.functions = F /\ k.aggregates = A
          /\ DOMAIN k = DOMAIN imp_dbh[h]
      BY <1>1, <2>2 DEF Conn
    <3>5. /\ "functions" \in DOMAIN k /\ "aggregates" \in DOMAIN k
      BY <1>1, <2>2, <3>4 DEF Conn
    <3> HIDE DEF k
    <3>6. imp_dbh'[h].functions = F /\ imp_dbh'[h].aggregates = A
      BY <1>1, <3>2, <3>4, <3>5
    <3> QED
      BY <2>2, <3>3, <3>6
  <2> QED
    BY <2>1, <2>2
<1>3. ASSUME NEW h \in Handles,
             \/ \E mode \in Modes : SetStringMode(h, mode)
             \/ Fetch(h) \/ Disconnect(h)
      PROVE  /\ imp_dbh'[g].functions = imp_dbh[g].functions
             /\ imp_dbh'[g].aggregates = imp_dbh[g].aggregates
  <2>1. CASE \E mode \in Modes : SetStringMode(h, mode)
    BY <1>1, <2>1 DEF SetStringMode, Conn
  <2>2. CASE Fetch(h)
    BY <1>1, <2>2 DEF Fetch, Conn
  <2>3. CASE Disconnect(h)
    <3>1. imp_dbh' = [imp_dbh EXCEPT ![h] = [imp_dbh[h] EXCEPT !.active = FALSE,
                                                               !.running = "none"]]
      BY <2>3 DEF Disconnect, Closing
    <3> QED
      BY <1>1, <3>1 DEF Conn
  <2> QED
    BY <1>3, <2>1, <2>2, <2>3
<1>4. CASE RowReturned
  BY <1>1, <1>4 DEF RowReturned, Conn
<1>5. CASE CallReturns \/ Halt \/ EngineReturns \/ \E s \in Slots : Call(s)
  BY <1>5 DEF CallReturns, Halt, EngineReturns, Call
<1>6. ASSUME NEW h \in Handles, Prepare(h) \/ Execute(h)
      PROVE  imp_dbh' = imp_dbh
  BY <1>6 DEF Prepare, Execute
<1> QED
  BY <1>2, <1>3, <1>4, <1>5, <1>6 DEF Next, Create, Remove

LEMMA StepKeepsRunning ==
  ASSUME IInv, RunningIsKept, [Next]_vars
  PROVE  RunningIsKept'
<1>1. CASE UNCHANGED vars
  BY <1>1 DEF vars, RunningIsKept, Calls
<1>2. ASSUME NEW s \in Slots, Call(s)
      PROVE  RunningIsKept'
  <2> DEFINE f == [Frame(Top.h, "perl") EXCEPT !.slot = s, !.sv = imp_dbh[Top.h].slot[s].sv,
                                               !.mode = CallMode(Top.h, s)]
  <2>1. frames' = Append(frames, f) /\ imp_dbh' = imp_dbh
    BY <1>2 DEF Call
  <2>2. frames # <<>> /\ frames \in Seq(FrameOK) /\ Top \in FrameOK
    BY <1>2 DEF IInv, FramesInv, Call, InEngine, InPerl, Top
  <2>3. f.h = Top.h /\ f.sv = imp_dbh[Top.h].slot[s].sv /\ Top.h \in Handles
    BY <2>2 DEF Frame, FrameOK
  <2>4. f.sv \in {NULL} \cup imp_dbh[f.h].functions \cup imp_dbh[f.h].aggregates
    BY <2>3 DEF IInv, DbhInv, SlotsAlive
  <2> HIDE DEF f
  <2>5. /\ DOMAIN frames = 1..Len(frames) /\ Len(frames) \in Nat
        /\ DOMAIN frames' = 1..(Len(frames) + 1) /\ frames'[Len(frames) + 1] = f
        /\ \A i \in 1..Len(frames) : frames'[i] = frames[i]
    BY <2>1, <2>2
  <2>6. SUFFICES ASSUME NEW i \in Calls'
                 PROVE  frames'[i].sv \in {NULL} \cup imp_dbh[frames'[i].h].functions
                                                  \cup imp_dbh[frames'[i].h].aggregates
    BY <2>1 DEF RunningIsKept
  <2>7. CASE i = Len(frames) + 1
    BY <2>4, <2>5, <2>7
  <2>8. CASE i \in 1..Len(frames)
    <3>1. i \in Calls /\ frames'[i] = frames[i]
      BY <2>5, <2>8 DEF Calls
    <3> QED
      BY <3>1 DEF RunningIsKept
  <2> QED
    BY <2>5, <2>7, <2>8 DEF Calls
<1>3. CASE Closed
  <2>1. frames \in Seq(FrameOK) /\ frames # <<>> /\ Top.op = "close" /\ frames' = Rest
    BY <1>3 DEF IInv, FramesInv, Closed, InEngine, InPerl
  <2>2. Len(frames) \in DOMAIN frames
    BY <2>1
  <2>3. Len(frames) = 1
    BY <2>1, <2>2 DEF IInv, FramesInv, CloseIsOutermost, Top
  <2>4. DOMAIN frames' = {}
    BY <2>1, <2>3, PopFrame DEF Rest
  <2> QED
    BY <2>4 DEF RunningIsKept, Calls
<1>4. CASE Next /\ ~Closed /\ \A s \in Slots : ~Call(s)
  BY <1>4, NoNewCall, ArraysGrow, KeptCalls
<1> QED
  BY <1>1, <1>2, <1>3, <1>4

(* A callback that runs is alive, even one that its own slot has lost.     *)
THEOREM RunningIsAlive == Spec => []RunningIsKept
<1>1. Init => RunningIsKept
  BY DEF Init, RunningIsKept, Calls
<1>2. IInv /\ RunningIsKept /\ [Next]_vars => RunningIsKept'
  BY StepKeepsRunning
<1> QED
  BY <1>1, <1>2, InductiveInvariant, PTL DEF Spec
===============================================================================
