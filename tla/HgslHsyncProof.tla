--------------------------- MODULE HgslHsyncProof ---------------------------
(***************************************************************************)
(* Proofs about HgslHsync, for every finite set of fences, every width of  *)
(* the timestamp and every way of assigning timestamps.                    *)
(*                                                                         *)
(* The properties are not inductive.  That a callback finds its fence off  *)
(* the list, and that an open fence still has its event, needs what each   *)
(* step of the ioctl leaves behind (Sound).  That a signal never runs      *)
(* ahead of the GPU needs that the timestamps in play can be ordered       *)
(* (Window) and that last_ts and the events queued to the kthread are      *)
(* behind eop (WindowI).                                                   *)
(***************************************************************************)
EXTENDS HgslHsync, FiniteSetTheorems, WellFoundedInduction, TLAPS

FenceT == [pc : {"idle", "got", "placed", "event", "end"},
           ts : Ts, sig : BOOLEAN, refs : Int,
           on : {"none", "list", "flist", "passed"},
           sf : {"none", "made", "open", "closed"},
           ev : {"none", "listed", "work"}]

TypeI ==
    /\ {queued_ts, eop, last_ts} \subseteq Ts
    /\ kref \in Int
    /\ fence \in [Fences -> FenceT]
    /\ cb \in Fences \cup {NoCb}
    /\ in_table \in BOOLEAN
    /\ dpc \in {"none", "removed", "flushed", "spin", "gone"}

\* One fence: where its ioctl is tells which list, sync_file and event it has,
\* and its references are those of the list and of the sync_file.  One that has
\* not signalled is on the list, and its event is there until its callback.
One(b) == IF b THEN 1 ELSE 0
Sound(r) ==
    /\ r.pc \in {"idle", "got"} => r.on = "none" /\ r.sf = "none" /\ ~r.sig
    /\ r.pc \in {"placed", "event"} => r.sf = "made"
    /\ r.pc = "end" => r.sf # "none"
    /\ r.ev # "none" => r.pc \in {"event", "end"}
    /\ r.on = "list" => ~r.sig /\ (r.pc = "event" \/ r.sf \in {"open", "closed"} => r.ev # "none")
    /\ r.pc \notin {"idle", "got"} /\ ~r.sig => r.on = "list"
    /\ r.refs = One(r.on # "none") + One(r.sf \in {"made", "open"})
FenceI == \A f \in Fences : Sound(fence[f])

\* The fence whose callback runs is off the list, and its event is not over.
CbI == cb # NoCb => fence[cb].ev = "work" /\ fence[cb].on # "list"

DestroyI ==
    /\ in_table <=> dpc = "none"
    /\ dpc = "gone" => ~ContextHeld

Live == {f \in Fences : fence[f].refs > 0}
CountI == kref = One(dpc # "gone") + Cardinality(Live) + One(cb # NoCb)

\* The timeline has not passed a fence on its list.
ListI == \A f \in OnList : ~hgsl_ts32_ge(last_ts, fence[f].ts)

\* The timestamps in play lie in one window, so that hgsl_ts32_ge orders them.
Window(S) == \E base \in Ts : \A ts \in S : U32Sub(ts, base) < Half
WindowI ==
    /\ \A f, g \in InFlight : U32Sub(fence[f].ts, fence[g].ts) # Half
    /\ dpc # "gone" => Window(InPlay \cup {queued_ts}) /\ hgsl_ts32_ge(queued_ts, eop)
    /\ in_table =>
          /\ hgsl_ts32_ge(eop, last_ts)
          /\ \A f \in Fences : fence[f].ev = "work" => hgsl_ts32_ge(eop, fence[f].ts)

GoneI == dpc = "gone" => OnList = {} \/ WrapLeft

IInv == TypeI /\ FenceI /\ CbI /\ DestroyI /\ CountI /\ ListI /\ WindowI /\ GoneI

-----------------------------------------------------------------------------
(* Timestamps inside one window.                                           *)

\* Inside a window hgsl_ts32_ge is transitive, and no two are half a turn apart.
LEMMA WindowOrder ==
    ASSUME NEW a \in Ts, NEW b \in Ts, NEW c \in Ts, NEW base \in Ts,
           U32Sub(a, base) < Half, U32Sub(b, base) < Half, U32Sub(c, base) < Half
    PROVE  /\ hgsl_ts32_ge(a, b) /\ hgsl_ts32_ge(b, c) => hgsl_ts32_ge(a, c)
           /\ U32Sub(a, b) # Half
  BY HalfAssumption DEF U32Sub, hgsl_ts32_ge, Ts, TsMod

\* What lies between two timestamps of a window lies in the window.
LEMMA Between ==
    ASSUME NEW a \in Ts, NEW b \in Ts, NEW c \in Ts, NEW base \in Ts,
           U32Sub(a, base) < Half, U32Sub(c, base) < Half,
           hgsl_ts32_ge(a, b), hgsl_ts32_ge(b, c), hgsl_ts32_ge(a, c)
    PROVE  U32Sub(b, base) < Half
  BY HalfAssumption DEF U32Sub, hgsl_ts32_ge, Ts, TsMod

\* A timestamp is at or after itself; of two that are not half a turn apart one
\* is at or after the other.
LEMMA GeReflexive == \A a \in Ts : hgsl_ts32_ge(a, a)
  BY HalfAssumption DEF U32Sub, hgsl_ts32_ge, Ts, TsMod

LEMMA GeTotal ==
    ASSUME NEW a \in Ts, NEW b \in Ts, U32Sub(a, b) # Half, ~hgsl_ts32_ge(a, b)
    PROVE  hgsl_ts32_ge(b, a) /\ a # b
  BY HalfAssumption DEF U32Sub, hgsl_ts32_ge, Ts, TsMod

\* The next timestamp is a timestamp.
LEMMA NextTs ==
    ASSUME NEW q \in Ts, NEW u \in Ts
    PROVE  hgsl_db_next_timestamp(TsMode, q, u) \in Ts
<1>1. DriverTs(q) \in Ts
  BY HalfAssumption DEF DriverTs, UINT_MAX, Ts, TsMod
<1> QED
  BY <1>1 DEF hgsl_db_next_timestamp

\* A nonempty set of timestamps has a greatest one.
Less == {pair \in Nat \X Nat : pair[1] < pair[2]}
LEMMA LeastTs ==
    ASSUME NEW S \in SUBSET Nat, S # {}
    PROVE  \E x \in S : \A y \in S : x <= y
<1>1. IsWellFoundedOn(Less, Nat)
  BY NatLessThanWellFounded DEF OpToRel, Less
<1>2. PICK x \in S : \A y \in S : ~(<<y, x>> \in Less)
  BY <1>1, WFMin
<1>3. \A y \in S : y < x => <<y, x>> \in Less
  BY DEF Less
<1>4. \A y \in S : ~(y < x)
  BY <1>2, <1>3
<1> QED
  BY <1>2, <1>4

LEMMA GreatestTs ==
    ASSUME NEW S \in SUBSET Ts, S # {}
    PROVE  \E x \in S : \A y \in S : y <= x
<1> DEFINE R == {n \in Nat : \E x \in S : n = TsMod - x}
<1>1. \A x \in S : x \in Nat /\ TsMod - x \in Nat
  BY HalfAssumption DEF Ts, TsMod
<1>2. R \in SUBSET Nat /\ R # {}
  BY <1>1
<1>3. PICK n \in R : \A m \in R : n <= m
  BY <1>2, LeastTs
<1>4. PICK x \in S : n = TsMod - x
  BY <1>3
<1>5. ASSUME NEW y \in S PROVE y <= x
  <2>1. TsMod - y \in R
    BY <1>1
  <2>2. n <= TsMod - y
    BY <1>3, <2>1
  <2> QED
    BY <1>1, <1>4, <2>2, HalfAssumption DEF TsMod
<1> QED
  BY <1>4, <1>5

-----------------------------------------------------------------------------
(* What can happen to one fence.                                           *)

InF(r) == r.pc # "idle" /\ (r.pc # "end" \/ ~r.sig \/ r.ev # "none")

\* From q the fence becomes r: still sound, and not newly in flight or listed.
Moves(q, r) ==
    /\ r \in FenceT /\ Sound(r)
    /\ InF(r) => InF(q) /\ r.ts = q.ts
    /\ r.on = "list" => q.on = "list" /\ r.ts = q.ts

LEMMA MovesSame == ASSUME NEW r \in FenceT, Sound(r) PROVE Moves(r, r)
  BY DEF Moves

LEMMA MovesTwice ==
    ASSUME NEW a \in FenceT, NEW b, NEW c, Moves(a, b), Moves(b, c)
    PROVE  Moves(a, c)
  BY DEF Moves

\* The event fires.
LEMMA RecFire ==
    ASSUME NEW q \in FenceT, Sound(q), q.ev = "listed",
           NEW r, r = [q EXCEPT !.ev = "work"]
    PROVE  /\ Moves(q, r) /\ r.ev = "work" /\ r.refs = q.refs /\ r.on = q.on
           /\ r.sig = q.sig /\ r.pc = q.pc /\ r.ts = q.ts /\ r.sf = q.sf
  BY DEF Moves, FenceT, Sound, InF

\* The callback of an event that is off the list ends.
LEMMA RecEnd ==
    ASSUME NEW q \in FenceT, Sound(q), q.ev = "work", q.on # "list",
           NEW r, r = [q EXCEPT !.ev = "none"]
    PROVE  /\ Moves(q, r) /\ r.ev = "none" /\ r.refs = q.refs /\ r.on = q.on
           /\ r.sig = q.sig /\ r.pc = q.pc /\ r.ts = q.ts /\ r.sf = q.sf
  BY DEF Moves, FenceT, Sound, InF

\* The ioctl has its timestamp.
LEMMA RecGot ==
    ASSUME NEW q \in FenceT, Sound(q), q.pc = "idle",
           NEW r \in FenceT, r.pc = "got", r.refs = q.refs, r.on = q.on, r.ev = q.ev,
           r.sig = q.sig, r.sf = q.sf
    PROVE  Sound(r) /\ r.on = "none"
  BY DEF Sound

LEMMA NoFenceFields ==
    /\ NoFence \in FenceT /\ Sound(NoFence) /\ NoFence.pc = "idle" /\ NoFence.refs = 0
    /\ NoFence.on = "none" /\ NoFence.ev = "none" /\ NoFence.sf = "none" /\ NoFence.sig = FALSE
<1>1. 0 \in Ts
  BY HalfAssumption DEF Ts, TsMod
<1>2. NoFence \in FenceT
  BY <1>1 DEF NoFence, FenceT
<1>3. /\ NoFence.pc = "idle" /\ NoFence.refs = 0 /\ NoFence.on = "none" /\ NoFence.ev = "none"
      /\ NoFence.sf = "none" /\ NoFence.sig = FALSE
  BY DEF NoFence
<1> QED
  BY <1>2, <1>3 DEF Sound, One

\* The fence is placed: on the list, unless the timeline has passed it.
LEMMA RecPlace ==
    ASSUME NEW q \in FenceT, Sound(q), q.pc = "got",
           NEW r \in FenceT, r.pc = "placed", r.refs = 2, r.ev = q.ev, r.sf = "made",
           r.on = "list" <=> ~r.sig, r.on # "none"
    PROVE  Sound(r) /\ q.refs = 0
<1>1. q.ev = "none" /\ q.on = "none" /\ q.sf = "none"
  BY DEF Sound
<1>2. q.refs = 0
  BY <1>1 DEF Sound, One
<1> QED
  BY <1>1, <1>2 DEF Sound, One

\* The event could not be added.
LEMMA RecEventFails ==
    ASSUME NEW q \in FenceT, Sound(q), q.pc = "placed",
           NEW r, r = [q EXCEPT !.pc = "end"]
    PROVE  /\ Moves(q, r) /\ r.ev = q.ev /\ r.refs = q.refs /\ r.on = q.on
           /\ r.sig = q.sig /\ r.pc = "end" /\ r.ts = q.ts /\ r.sf = q.sf
  BY DEF Moves, FenceT, Sound, InF

\* The event is added.
LEMMA RecAdd ==
    ASSUME NEW q \in FenceT, Sound(q), q.pc = "placed",
           NEW r \in FenceT, r.pc = "event", r.ev # "none", r.refs = q.refs, r.on = q.on,
           r.sig = q.sig, r.ts = q.ts, r.sf = q.sf
    PROVE  Moves(q, r)
  BY DEF Sound, Moves, InF

\* The descriptor is installed.
LEMMA RecInstall ==
    ASSUME NEW q \in FenceT, Sound(q), q.pc = "event",
           NEW r, r = [[q EXCEPT !.pc = "end"] EXCEPT !.sf = "open"]
    PROVE  /\ Moves(q, r) /\ r.ev = q.ev /\ r.refs = q.refs /\ r.on = q.on
           /\ r.sig = q.sig /\ r.pc = "end" /\ r.ts = q.ts /\ r.sf = "open" /\ q.sf = "made"
<1> DEFINE a == [q EXCEPT !.pc = "end"]
<1>1. /\ a \in FenceT /\ a.pc = "end" /\ a.refs = q.refs /\ a.on = q.on /\ a.ev = q.ev
      /\ a.sig = q.sig /\ a.sf = q.sf /\ a.ts = q.ts
  BY DEF FenceT
<1> HIDE DEF a
<1>2. r = [a EXCEPT !.sf = "open"]
  BY DEF a
<1>3. /\ r \in FenceT /\ r.pc = "end" /\ r.ts = q.ts /\ r.refs = q.refs /\ r.on = q.on
      /\ r.ev = q.ev /\ r.sig = q.sig /\ r.sf = "open"
  BY <1>1, <1>2 DEF FenceT
<1> HIDE DEF FenceT
<1> QED
  BY <1>3 DEF Sound, Moves, InF

\* The sync_file puts the fence.
LEMMA RecClose ==
    ASSUME NEW q \in FenceT, Sound(q), q.sf = "open",
           NEW r, r = [[[q EXCEPT !.refs = q.refs - 1, !.on = "none"]
                          EXCEPT !.sf = "closed"] EXCEPT !.on = q.on]
    PROVE  /\ Moves(q, r) /\ r.ev = q.ev /\ r.refs = q.refs - 1 /\ r.on = q.on /\ q.refs >= 1
           /\ r.sig = q.sig /\ r.pc = q.pc /\ r.ts = q.ts /\ r.sf = "closed"
<1> DEFINE a == [q EXCEPT !.refs = q.refs - 1]
           b == [a EXCEPT !.on = "none"]
           c == [b EXCEPT !.sf = "closed"]
<1>1. /\ a \in FenceT /\ a.pc = q.pc /\ a.refs = q.refs - 1 /\ a.ev = q.ev
      /\ a.sig = q.sig /\ a.ts = q.ts
  BY DEF FenceT
<1> HIDE DEF a
<1>2. /\ b \in FenceT /\ b.pc = q.pc /\ b.refs = q.refs - 1 /\ b.ev = q.ev
      /\ b.sig = q.sig /\ b.ts = q.ts
  BY <1>1 DEF FenceT
<1> HIDE DEF b
<1>3. /\ c \in FenceT /\ c.pc = q.pc /\ c.refs = q.refs - 1 /\ c.ev = q.ev
      /\ c.sig = q.sig /\ c.ts = q.ts /\ c.sf = "closed"
  BY <1>2 DEF FenceT
<1> HIDE DEF c
<1>4. r = [c EXCEPT !.on = q.on]
  BY DEF a, b, c
<1>5. /\ r \in FenceT /\ r.pc = q.pc /\ r.refs = q.refs - 1 /\ r.ev = q.ev
      /\ r.sig = q.sig /\ r.ts = q.ts /\ r.sf = "closed" /\ r.on = q.on
  BY <1>3, <1>4 DEF FenceT
<1>6. q.pc = "end" /\ q.refs = One(q.on # "none") + 1 /\ One(q.on # "none") \in Nat
  BY DEF Sound, One, FenceT
<1>7. One(q.sf \in {"made", "open"}) = 1 /\ One(r.sf \in {"made", "open"}) = 0
  BY <1>5 DEF One
<1>8. r.refs = One(r.on # "none") + One(r.sf \in {"made", "open"})
  BY <1>5, <1>6, <1>7
<1> HIDE DEF FenceT
<1>9. Sound(r)
  BY <1>5, <1>6, <1>8 DEF Sound
<1> QED
  BY <1>5, <1>6, <1>9 DEF Moves, InF

\* The signal takes a fence off the list.
LEMMA RecSignal ==
    ASSUME NEW q \in FenceT, Sound(q), q.on = "list",
           NEW r, r = [[q EXCEPT !.sig = TRUE] EXCEPT !.on = "flist"]
    PROVE  /\ Moves(q, r) /\ r.ev = q.ev /\ r.refs = q.refs /\ r.on = "flist"
           /\ r.sig = TRUE /\ r.pc = q.pc /\ r.ts = q.ts /\ r.sf = q.sf
<1> DEFINE a == [q EXCEPT !.sig = TRUE]
<1>1. /\ a \in FenceT /\ a.pc = q.pc /\ a.refs = q.refs /\ a.ev = q.ev
      /\ a.sig = TRUE /\ a.ts = q.ts /\ a.sf = q.sf
  BY DEF FenceT
<1> HIDE DEF a
<1>2. r = [a EXCEPT !.on = "flist"]
  BY DEF a
<1>3. /\ r \in FenceT /\ r.pc = q.pc /\ r.refs = q.refs /\ r.ev = q.ev
      /\ r.sig = TRUE /\ r.ts = q.ts /\ r.sf = q.sf /\ r.on = "flist"
  BY <1>1, <1>2 DEF FenceT
<1>4. One(q.on # "none") = One(r.on # "none")
  BY <1>3 DEF One
<1> HIDE DEF FenceT
<1>5. Sound(r)
  BY <1>3, <1>4 DEF Sound
<1> QED
  BY <1>3, <1>5 DEF Moves, InF, Sound

\* A signalled fence loses the reference of its list.
LEMMA RecPut ==
    ASSUME NEW q \in FenceT, Sound(q), q.on = "flist",
           NEW r, r = [[q EXCEPT !.refs = q.refs - 1] EXCEPT !.on = "none"]
    PROVE  /\ Moves(q, r) /\ r.ev = q.ev /\ r.refs = q.refs - 1 /\ r.on = "none" /\ q.refs >= 1
           /\ r.sig = q.sig /\ r.pc = q.pc /\ r.ts = q.ts /\ r.sf = q.sf
<1> DEFINE a == [q EXCEPT !.refs = q.refs - 1]
<1>1. /\ a \in FenceT /\ a.pc = q.pc /\ a.refs = q.refs - 1 /\ a.ev = q.ev
      /\ a.sig = q.sig /\ a.ts = q.ts /\ a.sf = q.sf
  BY DEF FenceT
<1> HIDE DEF a
<1>2. r = [a EXCEPT !.on = "none"]
  BY DEF a
<1>3. /\ r \in FenceT /\ r.pc = q.pc /\ r.refs = q.refs - 1 /\ r.ev = q.ev
      /\ r.sig = q.sig /\ r.ts = q.ts /\ r.sf = q.sf /\ r.on = "none"
  BY <1>1, <1>2 DEF FenceT
<1>4. One(q.on # "none") = 1 /\ One(r.on # "none") = 0 /\ One(q.sf \in {"made", "open"}) \in Nat
  BY <1>3 DEF One
<1>5. q.refs = 1 + One(q.sf \in {"made", "open"})
  BY <1>4 DEF Sound
<1>6. r.refs = One(r.on # "none") + One(r.sf \in {"made", "open"}) /\ q.refs >= 1
  BY <1>3, <1>4, <1>5
<1> HIDE DEF FenceT
<1>7. q.sig
  BY DEF Sound
<1>8. Sound(r)
  BY <1>3, <1>6, <1>7 DEF Sound
<1> QED
  BY <1>3, <1>6, <1>8 DEF Moves, InF

-----------------------------------------------------------------------------
(* What can happen to all of them.                                         *)

Quiet ==
    /\ fence' = [g \in Fences |-> fence'[g]]
    /\ \A g \in Fences : Moves(fence[g], fence'[g])

LEMMA FenceFacts ==
    ASSUME TypeI, FenceI, NEW f \in Fences
    PROVE  fence[f] \in FenceT /\ Sound(fence[f]) /\ fence[f].ts \in Ts
  BY DEF TypeI, FenceI, FenceT

\* No fence is newly in flight or on the list.
LEMMA QuietFences ==
    ASSUME TypeI, FenceI, Quiet
    PROVE  /\ fence' \in [Fences -> FenceT] /\ FenceI'
           /\ InFlight' \subseteq InFlight /\ OnList' \subseteq OnList
           /\ \A f \in InFlight' : fence'[f].ts = fence[f].ts
           /\ \A f \in OnList' : fence'[f].ts = fence[f].ts
<1>1. \A g \in Fences : fence'[g] \in FenceT /\ Sound(fence'[g])
  BY DEF Quiet, Moves
<1>2. fence' \in [Fences -> FenceT]
  BY <1>1 DEF Quiet
<1>3. FenceI'
  BY <1>1 DEF FenceI
<1>4. \A g \in Fences : InF(fence'[g]) => InF(fence[g]) /\ fence'[g].ts = fence[g].ts
  BY DEF Quiet, Moves
<1>5. \A g \in Fences : fence'[g].on = "list" => fence[g].on = "list" /\ fence'[g].ts = fence[g].ts
  BY DEF Quiet, Moves
<1> QED
  BY <1>2, <1>3, <1>4, <1>5 DEF InFlight, InF, OnList

\* One fence changes.
LEMMA OneFence ==
    ASSUME TypeI, FenceI, NEW f \in Fences, NEW r, fence' = [fence EXCEPT ![f] = r]
    PROVE  /\ fence'[f] = r /\ \A g \in Fences : g # f => fence'[g] = fence[g]
           /\ r \in FenceT => fence' \in [Fences -> FenceT]
           /\ Moves(fence[f], r) => Quiet
<1>1. fence'[f] = r /\ \A g \in Fences : g # f => fence'[g] = fence[g]
  BY DEF TypeI
<1>2. r \in FenceT => fence' \in [Fences -> FenceT]
  BY DEF TypeI
<1>3. fence' = [g \in Fences |-> fence'[g]]
  BY DEF TypeI
<1>4. ASSUME Moves(fence[f], r), NEW g \in Fences
      PROVE  Moves(fence[g], fence'[g])
  <2>1. CASE g = f
    BY <1>1, <1>4, <2>1
  <2>2. CASE g # f
    BY <1>1, <2>2, FenceFacts, MovesSame
  <2> QED
    BY <2>1, <2>2
<1> QED
  BY <1>1, <1>2, <1>3, <1>4 DEF Quiet

\* The fence list and the events hold fences in flight.
LEMMA ListInFlight ==
    ASSUME TypeI, FenceI, NEW f \in Fences,
           fence[f].on = "list" \/ fence[f].ev # "none" \/ fence[f].pc \in {"got", "placed", "event"}
    PROVE  f \in InFlight
  BY FenceFacts DEF InFlight, Sound

\* The callback in progress belongs to another fence than one without event.
LEMMA CbOther ==
    ASSUME TypeI, FenceI, CbI, cb # NoCb
    PROVE  cb \in Fences /\ fence[cb].ev = "work" /\ fence[cb].pc \in {"event", "end"}
<1>1. cb \in Fences /\ fence[cb].ev = "work"
  BY DEF TypeI, CbI
<1> QED
  BY <1>1, FenceFacts DEF Sound

-----------------------------------------------------------------------------
(* Steps that change neither counts nor timestamps.                        *)

LEMMA WindowSubset ==
    ASSUME NEW S, NEW T, S \subseteq T, Window(T)
    PROVE  Window(S)
  BY DEF Window

LEMMA QuietWindow ==
    ASSUME TypeI, FenceI, Quiet, UNCHANGED <<queued_ts, eop>>,
           last_ts' = last_ts \/ \E f \in InFlight : last_ts' = fence[f].ts
    PROVE  /\ (InPlay \cup {queued_ts})' \subseteq InPlay \cup {queued_ts}
           /\ Window(InPlay \cup {queued_ts}) => Window(InPlay \cup {queued_ts})'
<1>1. (InPlay \cup {queued_ts})' \subseteq InPlay \cup {queued_ts}
  BY QuietFences DEF InPlay
<1> QED
  BY <1>1, WindowSubset DEF Window

QuietStep ==
    /\ Quiet
    /\ UNCHANGED <<queued_ts, eop, last_ts, kref, cb>>
    /\ \A g \in Fences : fence'[g].refs = fence[g].refs
    /\ cb # NoCb => fence'[cb].ev = "work"
    /\ in_table' => in_table
    /\ in_table' \in BOOLEAN /\ (in_table' <=> dpc' = "none")
    /\ dpc # "gone" /\ dpc' \in {"none", "removed", "flushed", "spin"}
    /\ in_table' => \A g \in Fences : fence'[g].ev = "work" =>
                        \/ fence[g].ev = "work" /\ fence'[g].ts = fence[g].ts
                        \/ hgsl_ts32_ge(eop, fence'[g].ts)

LEMMA QuietStepKeeps ==
    ASSUME IInv, QuietStep
    PROVE  IInv'
<1> USE DEF QuietStep
<1>1. TypeI /\ FenceI /\ CbI /\ DestroyI /\ CountI /\ ListI /\ WindowI
  BY DEF IInv
<1>2. TypeI'
  BY <1>1, QuietFences DEF TypeI
<1>3. FenceI'
  BY <1>1, QuietFences
<1>4. CbI'
  BY <1>1, QuietFences DEF CbI, OnList, TypeI
<1>5. DestroyI'
  BY DEF DestroyI
<1>6. CountI'
  <2>1. Live' = Live
    BY DEF Live
  <2> QED
    BY <1>1, <2>1 DEF CountI, One
<1>7. ListI'
  BY <1>1, QuietFences DEF ListI
<1>8. WindowI'
  <2>1. \A f, g \in InFlight' : U32Sub(fence'[f].ts, fence'[g].ts) # Half
    BY <1>1, QuietFences DEF WindowI
  <2>2. Window(InPlay \cup {queued_ts})' /\ hgsl_ts32_ge(queued_ts, eop)'
    BY <1>1, QuietWindow DEF WindowI
  <2>3. in_table' => /\ hgsl_ts32_ge(eop, last_ts)'
                     /\ \A f \in Fences : fence'[f].ev = "work" => hgsl_ts32_ge(eop', fence'[f].ts)
    BY <1>1 DEF WindowI
  <2> QED
    BY <2>1, <2>2, <2>3 DEF WindowI
<1>9. GoneI'
  BY DEF GoneI
<1> QED
  BY <1>2, <1>3, <1>4, <1>5, <1>6, <1>7, <1>8, <1>9 DEF IInv

\* The events of S fire.
LEMMA FireFences ==
    ASSUME TypeI, FenceI, NEW S \in SUBSET Fences, \A f \in S : fence[f].ev = "listed", Fire(S)
    PROVE  /\ Quiet
           /\ \A g \in Fences :
                 /\ fence'[g].refs = fence[g].refs /\ fence'[g].ts = fence[g].ts
                 /\ fence'[g].ev = IF g \in S THEN "work" ELSE fence[g].ev
<1>1. \A g \in Fences : fence'[g] = IF g \in S THEN [fence[g] EXCEPT !.ev = "work"] ELSE fence[g]
  BY DEF Fire
<1>2. ASSUME NEW g \in Fences
      PROVE  /\ Moves(fence[g], fence'[g])
             /\ fence'[g].refs = fence[g].refs /\ fence'[g].ts = fence[g].ts
             /\ fence'[g].ev = IF g \in S THEN "work" ELSE fence[g].ev
  <2>1. CASE g \in S
    <3>1. fence'[g] = [fence[g] EXCEPT !.ev = "work"] /\ fence[g].ev = "listed"
      BY <1>1, <2>1
    <3> QED
      BY <2>1, <3>1, FenceFacts, RecFire
  <2>2. CASE g \notin S
    BY <1>1, <2>2, FenceFacts, MovesSame
  <2> QED
    BY <2>1, <2>2
<1>3. fence' = [g \in Fences |-> fence'[g]]
  BY DEF Fire
<1> QED
  BY <1>2, <1>3 DEF Quiet

\* A fence with a callback in progress is not one of the events that fire.
LEMMA FireKeeps ==
    ASSUME IInv, NEW S \in SUBSET Listed, Fire(S), UNCHANGED <<queued_ts, eop, last_ts, kref, cb>>,
           dpc # "gone", dpc' \in {"none", "removed", "flushed", "spin"},
           in_table' => in_table, in_table' \in BOOLEAN, in_table' <=> dpc' = "none",
           in_table' => S \subseteq Retired
    PROVE  IInv'
<1>1. TypeI /\ FenceI /\ CbI
  BY DEF IInv
<1>2. S \in SUBSET Fences /\ \A f \in S : fence[f].ev = "listed"
  BY DEF Listed
<1>3. /\ Quiet
      /\ \A g \in Fences :
            /\ fence'[g].refs = fence[g].refs /\ fence'[g].ts = fence[g].ts
            /\ fence'[g].ev = IF g \in S THEN "work" ELSE fence[g].ev
  BY <1>1, <1>2, FireFences
<1>4. cb # NoCb => fence'[cb].ev = "work"
  BY <1>1, <1>3, CbOther
<1>5. in_table' => \A g \in S : hgsl_ts32_ge(eop, fence[g].ts)
  BY DEF Retired
<1>6. QuietStep
  BY <1>3, <1>4, <1>5 DEF QuietStep
<1> QED
  BY <1>6, QuietStepKeeps

LEMMA ProcessEventsKeeps ==
    ASSUME IInv, ProcessEvents
    PROVE  IInv'
<1>1. Retired \in SUBSET Listed /\ in_table \in BOOLEAN /\ (in_table <=> dpc = "none")
  BY DEF Retired, IInv, TypeI, DestroyI
<1> QED
  BY <1>1, FireKeeps DEF ProcessEvents

LEMMA FlushKeeps ==
    ASSUME IInv, hgsl_flush_event_group
    PROVE  IInv'
<1>1. Listed \in SUBSET Listed /\ in_table \in BOOLEAN /\ (in_table <=> dpc = "none")
  BY DEF IInv, TypeI, DestroyI
<1> QED
  BY <1>1, FireKeeps DEF hgsl_flush_event_group

LEMMA DetachKeeps ==
    ASSUME IInv, NEW dispatch \in BOOLEAN, NEW dropped \in SUBSET (Listed \ Retired),
           Detach(dispatch, dropped)
    PROVE  IInv'
<1> DEFINE S == dropped \cup (IF dispatch THEN Retired ELSE {})
<1>1. S \in SUBSET Listed
  BY DEF Retired
<1>2. in_table \in BOOLEAN /\ (in_table <=> dpc = "none")
  BY DEF IInv, TypeI, DestroyI
<1>3. Fire(S)
  BY DEF Detach
<1> HIDE DEF S
<1> QED
  BY <1>1, <1>2, <1>3, FireKeeps DEF Detach

LEMMA RemoveKeeps ==
    ASSUME IInv, hgsl_remove_context
    PROVE  IInv'
<1>1. TypeI /\ FenceI /\ CbI /\ DestroyI
  BY DEF IInv
<1>2. Quiet
  <2>1. \A g \in Fences : Moves(fence[g], fence'[g])
    BY <1>1, FenceFacts, MovesSame DEF hgsl_remove_context
  <2>2. fence' = [g \in Fences |-> fence'[g]]
    BY <1>1 DEF hgsl_remove_context, TypeI
  <2> QED
    BY <2>1, <2>2 DEF Quiet
<1>3. cb # NoCb => fence'[cb].ev = "work"
  BY <1>1 DEF hgsl_remove_context, CbI
<1>4. QuietStep
  BY <1>1, <1>2, <1>3 DEF hgsl_remove_context, DestroyI, QuietStep
<1> QED
  BY <1>4, QuietStepKeeps

-----------------------------------------------------------------------------
(* The ioctl.                                                              *)

\* Inside the ioctl the context is not gone.
LEMMA InIoctl ==
    ASSUME IInv, NEW f \in Fences, fence[f].pc \in {"got", "placed", "event"} \/ fence[f].ev # "none"
    PROVE  dpc # "gone"
  BY DEF IInv, DestroyI, ContextHeld

IoctlStep(f, r) ==
    /\ fence' = [fence EXCEPT ![f] = r]
    /\ Moves(fence[f], r)
    /\ r.refs = fence[f].refs
    /\ fence[f].ev = "work" => r.ev = "work" /\ r.ts = fence[f].ts
    /\ r.ev = "work" => fence[f].ev = "work" \/ hgsl_ts32_ge(eop, r.ts)
    /\ dpc # "gone"
    /\ UNCHANGED <<queued_ts, eop, last_ts, kref, cb, in_table, dpc>>

LEMMA IoctlKeeps ==
    ASSUME IInv, NEW f \in Fences, NEW r, IoctlStep(f, r)
    PROVE  IInv'
<1>1. TypeI /\ FenceI /\ CbI /\ DestroyI
  BY DEF IInv
<1>2. /\ Quiet /\ fence'[f] = r /\ \A g \in Fences : g # f => fence'[g] = fence[g]
  BY <1>1, OneFence DEF IoctlStep
<1>3. cb # NoCb => fence'[cb].ev = "work"
  BY <1>1, <1>2, CbOther DEF IoctlStep
<1>4. \A g \in Fences : fence'[g].refs = fence[g].refs
  BY <1>2 DEF IoctlStep
<1>5. \A g \in Fences : fence'[g].ev = "work" =>
                        \/ fence[g].ev = "work" /\ fence'[g].ts = fence[g].ts
                        \/ hgsl_ts32_ge(eop, fence'[g].ts)
  BY <1>2 DEF IoctlStep
<1>6. QuietStep
  BY <1>1, <1>2, <1>3, <1>4, <1>5 DEF IoctlStep, QuietStep, TypeI, DestroyI
<1> QED
  BY <1>6, QuietStepKeeps

LEMMA FenceFailsKeeps ==
    ASSUME IInv, NEW f \in Fences, FenceFails(f)
    PROVE  IInv'
<1>1. TypeI /\ FenceI
  BY DEF IInv
<1>2. fence[f] \in FenceT /\ Sound(fence[f]) /\ fence[f].pc = "got"
  BY <1>1, FenceFacts DEF FenceFails
<1>3. fence[f].refs = 0 /\ fence[f].ev = "none"
  BY <1>2 DEF Sound, One
<1>4. Moves(fence[f], NoFence)
  BY NoFenceFields DEF Moves, InF
<1>5. IoctlStep(f, NoFence)
  BY <1>2, <1>3, <1>4, NoFenceFields, InIoctl DEF IoctlStep, FenceFails
<1> QED
  BY <1>5, IoctlKeeps

LEMMA EventFailsKeeps ==
    ASSUME IInv, NEW f \in Fences, EventFails(f)
    PROVE  IInv'
<1>1. fence[f] \in FenceT /\ Sound(fence[f]) /\ fence[f].pc = "placed"
  BY FenceFacts DEF EventFails, IInv
<1> DEFINE r == [fence[f] EXCEPT !.pc = "end"]
<1>2. fence' = [fence EXCEPT ![f] = r]
  BY DEF EventFails
<1> HIDE DEF r
<1>3. Moves(fence[f], r) /\ r.ev = fence[f].ev /\ r.refs = fence[f].refs /\ r.ts = fence[f].ts
  BY <1>1, RecEventFails DEF r
<1>4. IoctlStep(f, r)
  BY <1>1, <1>2, <1>3, InIoctl DEF IoctlStep, EventFails
<1> QED
  BY <1>4, IoctlKeeps

LEMMA AddEventKeeps ==
    ASSUME IInv, NEW f \in Fences, _add_fence_event(f)
    PROVE  IInv'
<1>1. fence[f] \in FenceT /\ Sound(fence[f]) /\ fence[f].pc = "placed"
  BY FenceFacts DEF _add_fence_event, IInv
<1>2. PICK v : v = IF hgsl_ts32_ge(eop, fence[f].ts) THEN "work" ELSE "listed"
  OBVIOUS
<1>3. (v = "listed" \/ v = "work") /\ (v = "work" => hgsl_ts32_ge(eop, fence[f].ts))
  BY <1>2
<1>4. PICK r : r = [[fence[f] EXCEPT !.pc = "event"] EXCEPT !.ev = v]
  OBVIOUS
<1>7. fence' = [fence EXCEPT ![f] = r]
  <2>1. fence \in [Fences -> FenceT]
    BY DEF IInv, TypeI
  <2>2. fence' = [[fence EXCEPT ![f].pc = "event"] EXCEPT ![f].ev = v]
    BY <1>2 DEF _add_fence_event
  <2> QED
    BY <1>4, <2>1, <2>2
<1>8. Moves(fence[f], r) /\ r.ev = v /\ r.refs = fence[f].refs /\ r.ts = fence[f].ts
  <2> DEFINE a == [fence[f] EXCEPT !.pc = "event"]
  <2>1. /\ a \in FenceT /\ a.pc = "event" /\ a.refs = fence[f].refs /\ a.on = fence[f].on
        /\ a.ev = fence[f].ev /\ a.sig = fence[f].sig /\ a.sf = fence[f].sf /\ a.ts = fence[f].ts
    BY <1>1 DEF FenceT
  <2>2. r = [a EXCEPT !.ev = v]
    BY <1>4
  <2> HIDE DEF a
  <2>3. /\ r \in FenceT /\ r.pc = "event" /\ r.refs = a.refs /\ r.on = a.on
        /\ r.ev = v /\ r.sig = a.sig /\ r.sf = a.sf /\ r.ts = a.ts
    BY <1>3, <2>1, <2>2 DEF FenceT
  <2> QED
    BY <1>1, <1>3, <2>1, <2>3, RecAdd
<1>5. fence[f].ev = "none"
  BY <1>1 DEF Sound
<1>6. IoctlStep(f, r)
  BY <1>1, <1>3, <1>5, <1>7, <1>8, InIoctl DEF IoctlStep, _add_fence_event
<1> QED
  BY <1>6, IoctlKeeps

LEMMA FdInstallKeeps ==
    ASSUME IInv, NEW f \in Fences, FdInstall(f)
    PROVE  IInv'
<1>1. fence[f] \in FenceT /\ Sound(fence[f]) /\ fence[f].pc = "event"
  BY FenceFacts DEF FdInstall, IInv
<1> DEFINE r == [[fence[f] EXCEPT !.pc = "end"] EXCEPT !.sf = "open"]
<1>2. fence' = [fence EXCEPT ![f] = r]
  <2>1. fence \in [Fences -> FenceT]
    BY DEF IInv, TypeI
  <2>2. fence' = [[fence EXCEPT ![f].pc = "end"] EXCEPT ![f].sf = "open"]
    BY DEF FdInstall
  <2> QED
    BY <2>1, <2>2
<1> HIDE DEF r
<1>3. Moves(fence[f], r) /\ r.ev = fence[f].ev /\ r.refs = fence[f].refs /\ r.ts = fence[f].ts
  <2>1. r = [[fence[f] EXCEPT !.pc = "end"] EXCEPT !.sf = "open"]
    BY DEF r
  <2> QED
    BY <1>1, <2>1, RecInstall, ZenonT(60)
<1>4. IoctlStep(f, r)
  BY <1>1, <1>2, <1>3, InIoctl DEF IoctlStep, FdInstall
<1> QED
  BY <1>4, IoctlKeeps

-----------------------------------------------------------------------------
(* Timestamps come into play.                                              *)

\* The guard of the bound.
LEMMA GuardWindow ==
    ASSUME NEW S \in SUBSET Ts, InWindow(S)
    PROVE  Window(S)
  BY DEF InWindow, Window

LEMMA InPlayTs ==
    ASSUME TypeI, FenceI
    PROVE  InPlay \cup {queued_ts} \in SUBSET Ts
<1>1. \A f \in InFlight : fence[f].ts \in Ts
  BY FenceFacts DEF InFlight
<1> QED
  BY <1>1 DEF InPlay, TypeI

\* When no fence changes only the timestamps can break the invariant.
LEMMA SameFences ==
    ASSUME IInv, UNCHANGED <<last_ts, kref, fence, cb, in_table, dpc>>,
           queued_ts' \in Ts, eop' \in Ts, WindowI'
    PROVE  IInv'
<1>1. TypeI'
  BY DEF IInv, TypeI
<1>2. FenceI' /\ CbI' /\ DestroyI'
  BY DEF IInv, FenceI, CbI, DestroyI, ContextHeld
<1>3. CountI' /\ ListI'
  BY DEF IInv, CountI, Live, ListI, OnList
<1>4. GoneI'
  BY DEF IInv, GoneI, OnList, WrapLeft
<1> QED
  BY <1>1, <1>2, <1>3, <1>4 DEF IInv

LEMMA SubmitKeeps ==
    ASSUME IInv, NEW user_ts \in Ts, Submit(user_ts)
    PROVE  IInv'
<1>1. TypeI /\ FenceI /\ DestroyI /\ WindowI
  BY DEF IInv
<1>2. PICK ts \in Ts : ts = hgsl_db_next_timestamp(TsMode, queued_ts, user_ts)
  BY <1>1, NextTs DEF TypeI
<1>3. /\ in_table /\ hgsl_ts32_ge(ts, queued_ts) /\ InWindow(InPlay \cup {queued_ts, ts})
      /\ queued_ts' = ts /\ UNCHANGED <<eop, last_ts, kref, fence, cb, in_table, dpc>>
  BY <1>2 DEF Submit
<1>4. queued_ts \in Ts /\ eop \in Ts
  BY <1>1 DEF TypeI
<1>5. InPlay \cup {queued_ts, ts} \in SUBSET Ts
  BY <1>1, InPlayTs
<1>6. PICK base \in Ts : \A x \in InPlay \cup {queued_ts, ts} : U32Sub(x, base) < Half
  BY <1>3, <1>5, GuardWindow DEF Window
<1>7. InPlay' = InPlay /\ InFlight' = InFlight
  BY <1>3 DEF InPlay, InFlight
<1>8. Window(InPlay \cup {queued_ts})'
  <2>1. \A x \in InPlay \cup {ts} : U32Sub(x, base) < Half
    BY <1>6
  <2>2. Window(InPlay \cup {ts})
    BY <2>1 DEF Window
  <2> QED
    BY <1>3, <1>7, <2>2 DEF Window
<1>9. dpc # "gone"
  BY <1>1, <1>3 DEF DestroyI
<1>10. hgsl_ts32_ge(queued_ts, eop)'
  <2>1. hgsl_ts32_ge(queued_ts, eop) /\ eop \in InPlay
    BY <1>1, <1>9 DEF WindowI, InPlay
  <2>2. hgsl_ts32_ge(ts, eop)
    BY <1>3, <1>4, <1>6, <2>1, WindowOrder
  <2> QED
    BY <1>3, <2>2
<1>11. WindowI'
  BY <1>1, <1>3, <1>7, <1>8, <1>10 DEF WindowI
<1> QED
  BY <1>3, <1>4, <1>11, SameFences

LEMMA GpuRetireKeeps ==
    ASSUME IInv, NEW ts \in Ts, GpuRetire(ts)
    PROVE  IInv'
<1>1. TypeI /\ FenceI /\ DestroyI /\ WindowI
  BY DEF IInv
<1>2. /\ dpc # "gone" /\ hgsl_ts32_ge(ts, eop) /\ hgsl_ts32_ge(queued_ts, ts)
      /\ eop' = ts /\ UNCHANGED <<queued_ts, last_ts, kref, fence, cb, in_table, dpc>>
  BY DEF GpuRetire
<1>3. queued_ts \in Ts /\ eop \in Ts /\ last_ts \in Ts
  BY <1>1 DEF TypeI
<1>4. PICK base \in Ts : \A x \in InPlay \cup {queued_ts} : U32Sub(x, base) < Half
  BY <1>1, <1>2 DEF WindowI, Window
<1>5. /\ InFlight' = InFlight /\ InPlay' = {ts, last_ts} \cup {fence[f].ts : f \in InFlight}
  BY <1>2 DEF InPlay, InFlight
<1>6. U32Sub(eop, base) < Half /\ U32Sub(last_ts, base) < Half /\ U32Sub(queued_ts, base) < Half
  BY <1>4 DEF InPlay
<1>7. \A f \in InFlight : U32Sub(fence[f].ts, base) < Half
  BY <1>4 DEF InPlay
<1>8. U32Sub(ts, base) < Half
  <2>1. hgsl_ts32_ge(queued_ts, eop)
    BY <1>1, <1>2 DEF WindowI
  <2> QED
    BY <1>2, <1>3, <1>6, <2>1, Between
<1>9. Window(InPlay \cup {queued_ts})'
  <2>1. \A x \in InPlay' \cup {queued_ts} : U32Sub(x, base) < Half
    BY <1>5, <1>6, <1>7, <1>8
  <2>2. Window(InPlay' \cup {queued_ts})
    BY <2>1 DEF Window
  <2> QED
    BY <1>2, <2>2 DEF Window
<1>10. in_table => /\ hgsl_ts32_ge(ts, last_ts)
                   /\ \A f \in Fences : fence[f].ev = "work" => hgsl_ts32_ge(ts, fence[f].ts)
  <2> SUFFICES ASSUME in_table
               PROVE  /\ hgsl_ts32_ge(ts, last_ts)
                      /\ \A f \in Fences : fence[f].ev = "work" => hgsl_ts32_ge(ts, fence[f].ts)
    OBVIOUS
  <2>1. hgsl_ts32_ge(ts, last_ts)
    <3>1. hgsl_ts32_ge(eop, last_ts)
      BY <1>1 DEF WindowI
    <3> QED
      BY <1>2, <1>3, <1>6, <1>8, <3>1, WindowOrder
  <2>2. ASSUME NEW f \in Fences, fence[f].ev = "work"
        PROVE  hgsl_ts32_ge(ts, fence[f].ts)
    <3>1. hgsl_ts32_ge(eop, fence[f].ts)
      BY <1>1, <2>2 DEF WindowI
    <3>2. f \in InFlight /\ fence[f].ts \in Ts
      BY <1>1, <2>2, ListInFlight, FenceFacts
    <3>3. U32Sub(fence[f].ts, base) < Half
      BY <1>7, <3>2
    <3> QED
      BY <1>2, <1>3, <1>6, <1>8, <3>1, <3>2, <3>3, WindowOrder
  <2> QED
    BY <2>1, <2>2
<1>11. WindowI'
  <2>1. \A f, g \in InFlight' : U32Sub(fence'[f].ts, fence'[g].ts) # Half
    BY <1>1, <1>2, <1>5 DEF WindowI
  <2>2. hgsl_ts32_ge(queued_ts, eop)'
    BY <1>2
  <2> QED
    BY <1>2, <1>9, <1>10, <2>1, <2>2 DEF WindowI
<1> QED
  BY <1>2, <1>3, <1>11, SameFences

\* The ioctl takes its timestamp.
LEMMA IoctlCreateKeeps ==
    ASSUME IInv, NEW f \in Fences, NEW ts \in Ts, hgsl_ioctl_hsync_fence_create(f, ts)
    PROVE  IInv'
<1>1. TypeI /\ FenceI /\ CbI /\ DestroyI /\ CountI /\ ListI /\ WindowI
  BY DEF IInv
<1>2. /\ fence[f].pc = "idle" /\ in_table /\ InWindow(InPlay \cup {queued_ts, ts})
      /\ UNCHANGED <<queued_ts, eop, last_ts, kref, cb, in_table, dpc>>
  BY DEF hgsl_ioctl_hsync_fence_create
<1> DEFINE r == [[fence[f] EXCEPT !.pc = "got"] EXCEPT !.ts = ts]
<1>3. fence' = [fence EXCEPT ![f] = r]
  <2>1. fence' = [[fence EXCEPT ![f].pc = "got"] EXCEPT ![f].ts = ts]
    BY DEF hgsl_ioctl_hsync_fence_create
  <2> QED
    BY <1>1, <2>1 DEF TypeI
<1>4. fence[f] \in FenceT /\ Sound(fence[f])
  BY <1>1, FenceFacts
<1>5. /\ r \in FenceT /\ Sound(r) /\ r.pc = "got" /\ r.ts = ts /\ r.refs = fence[f].refs
      /\ r.on = "none" /\ r.ev = fence[f].ev /\ r.sig = fence[f].sig /\ r.sf = fence[f].sf
  <2> DEFINE a == [fence[f] EXCEPT !.pc = "got"]
  <2>1. /\ a \in FenceT /\ a.pc = "got" /\ a.refs = fence[f].refs /\ a.on = fence[f].on
        /\ a.ev = fence[f].ev /\ a.sig = fence[f].sig /\ a.sf = fence[f].sf
    BY <1>4 DEF FenceT
  <2>2. r = [a EXCEPT !.ts = ts]
    OBVIOUS
  <2> HIDE DEF a, r
  <2>3. /\ r \in FenceT /\ r.pc = "got" /\ r.refs = a.refs /\ r.on = a.on
        /\ r.ev = a.ev /\ r.sig = a.sig /\ r.sf = a.sf /\ r.ts = ts
    BY <2>1, <2>2 DEF FenceT
  <2> QED
    BY <1>2, <1>4, <2>1, <2>3, RecGot
<1> HIDE DEF r
<1>6. /\ fence'[f] = r /\ fence' \in [Fences -> FenceT]
      /\ \A g \in Fences : g # f => fence'[g] = fence[g]
  BY <1>1, <1>3, <1>5, OneFence
<1>7. TypeI' /\ FenceI'
  BY <1>1, <1>2, <1>5, <1>6 DEF TypeI, FenceI
<1>8. CbI'
  <2>1. cb # NoCb => cb \in Fences /\ cb # f
    BY <1>1, <1>2, CbOther
  <2> QED
    BY <1>1, <1>2, <1>6, <2>1 DEF CbI
<1>9. dpc # "gone"
  BY <1>1, <1>2 DEF DestroyI
<1>10. DestroyI' /\ GoneI'
  BY <1>1, <1>2, <1>9 DEF DestroyI, GoneI
<1>11. CountI'
  <2>1. Live' = Live
    BY <1>5, <1>6 DEF Live
  <2> QED
    BY <1>1, <1>2, <2>1 DEF CountI
<1>12. ListI'
  <2>1. OnList' \subseteq OnList /\ f \notin OnList'
    BY <1>5, <1>6 DEF OnList
  <2> QED
    BY <1>1, <1>2, <1>6, <2>1 DEF ListI, OnList
<1>13. WindowI'
  <2>1. InPlay \cup {queued_ts, ts} \in SUBSET Ts
    BY <1>1, InPlayTs
  <2>2. PICK base \in Ts : \A x \in InPlay \cup {queued_ts, ts} : U32Sub(x, base) < Half
    BY <1>2, <2>1, GuardWindow DEF Window
  <2>3. \A g \in InFlight' : fence'[g].ts \in InPlay \cup {queued_ts, ts}
    <3>1. \A g \in Fences : g # f /\ g \in InFlight' => g \in InFlight /\ fence'[g].ts = fence[g].ts
      BY <1>6 DEF InFlight
    <3>2. \A g \in InFlight' : g \in Fences
      BY DEF InFlight
    <3> QED
      BY <1>5, <1>6, <3>1, <3>2 DEF InPlay
  <2>4. (InPlay \cup {queued_ts})' \subseteq InPlay \cup {queued_ts, ts}
    BY <1>2, <2>3 DEF InPlay
  <2>5. Window(InPlay \cup {queued_ts})'
    BY <2>2, <2>4 DEF Window
  <2>6. \A g, h \in InFlight' : U32Sub(fence'[g].ts, fence'[h].ts) # Half
    BY <2>1, <2>2, <2>3, WindowOrder
  <2>7. \A g \in Fences : fence'[g].ev = "work" => fence[g].ev = "work" /\ g # f
    BY <1>2, <1>4, <1>5, <1>6 DEF Sound
  <2> QED
    BY <1>1, <1>2, <1>6, <1>9, <2>5, <2>6, <2>7 DEF WindowI
<1> QED
  BY <1>7, <1>8, <1>10, <1>11, <1>12, <1>13 DEF IInv

-----------------------------------------------------------------------------
(* Counting.                                                               *)

LEMMA LiveCount ==
    /\ IsFiniteSet(Live) /\ Cardinality(Live) \in Nat
    /\ \A f \in Fences \ Live : Cardinality(Live \cup {f}) = Cardinality(Live) + 1
<1>1. IsFiniteSet(Live)
  BY FS_Subset, FencesAssumption DEF Live
<1> QED
  BY <1>1, FS_CardinalityType, FS_AddElement

\* Each fence of S loses a reference: those that lose the last one put the timeline.
LEMMA PutsCount ==
    ASSUME TypeI, NEW S \in SUBSET Fences,
           \A f \in S : fence[f].refs >= 1 /\ fence'[f].refs = fence[f].refs - 1,
           \A f \in Fences \ S : fence'[f].refs = fence[f].refs
    PROVE  /\ Cardinality(Live') = Cardinality(Live) - hgsl_hsync_fence_release(S, fence)
           /\ Cardinality(Live') \in Nat /\ hgsl_hsync_fence_release(S, fence) \in Nat
           /\ Cardinality(Live) \in Nat
<1> DEFINE D == {f \in S : fence[f].refs = 1}
<1>1. \A f \in Fences : fence[f].refs \in Int
  BY DEF TypeI, FenceT
<1>2. Live' = Live \ D /\ Live \cap D = D /\ D \subseteq Fences
  BY <1>1 DEF Live
<1> HIDE DEF D
<1>3. IsFiniteSet(Live) /\ IsFiniteSet(D)
  BY <1>2, LiveCount, FS_Subset, FencesAssumption
<1>4. /\ IsFiniteSet(Live \ D)
      /\ Cardinality(Live \ D) = Cardinality(Live) - Cardinality(Live \cap D)
  BY <1>3, FS_Difference
<1>5. hgsl_hsync_fence_release(S, fence) = Cardinality(D)
  BY DEF hgsl_hsync_fence_release, D
<1> QED
  BY <1>2, <1>3, <1>4, <1>5, FS_CardinalityType

-----------------------------------------------------------------------------
(* hgsl_hsync_fence_create.                                                *)

LEMMA FenceCreateKeeps ==
    ASSUME IInv, NEW f \in Fences, hgsl_hsync_fence_create(f)
    PROVE  IInv'
<1>1. TypeI /\ FenceI /\ CbI /\ DestroyI /\ CountI /\ ListI /\ WindowI
  BY DEF IInv
<1>2. PICK passed \in BOOLEAN : passed = hgsl_ts32_ge(last_ts, fence[f].ts)
  <2>1. hgsl_ts32_ge(last_ts, fence[f].ts) \in BOOLEAN
    BY DEF hgsl_ts32_ge
  <2> QED
    BY <2>1, Zenon
<1>3. PICK r : r = [fence[f] EXCEPT !.pc = "placed", !.refs = 2, !.sf = "made",
                                    !.sig = passed,
                                    !.on = IF passed THEN "passed" ELSE "list"]
  OBVIOUS
<1>4. /\ fence[f].pc = "got" /\ kref' = kref + 1
      /\ UNCHANGED <<queued_ts, eop, last_ts, cb, in_table, dpc>>
      /\ fence' = [fence EXCEPT ![f] = r]
  BY <1>2, <1>3 DEF hgsl_hsync_fence_create, hgsl_hsync_has_signaled
<1>5. fence[f] \in FenceT /\ Sound(fence[f])
  BY <1>1, FenceFacts
<1>6. /\ r \in FenceT /\ Sound(r) /\ r.pc = "placed" /\ r.ts = fence[f].ts /\ r.refs = 2
      /\ fence[f].refs = 0 /\ r.ev = fence[f].ev /\ r.sf = "made" /\ r.sig = passed
      /\ r.on = "list" <=> ~passed
  <2> DEFINE a == [fence[f] EXCEPT !.pc = "placed"]
             b == [a EXCEPT !.refs = 2]
             c == [b EXCEPT !.sf = "made"]
             d == [c EXCEPT !.sig = passed]
             on == IF passed THEN "passed" ELSE "list"
  <2>1. a \in FenceT /\ a.pc = "placed" /\ a.ts = fence[f].ts /\ a.ev = fence[f].ev
    BY <1>5 DEF FenceT
  <2> HIDE DEF a
  <2>2. b \in FenceT /\ b.pc = "placed" /\ b.ts = fence[f].ts /\ b.ev = fence[f].ev /\ b.refs = 2
    BY <2>1 DEF FenceT
  <2> HIDE DEF b
  <2>3. /\ c \in FenceT /\ c.pc = "placed" /\ c.ts = fence[f].ts /\ c.ev = fence[f].ev /\ c.refs = 2
        /\ c.sf = "made"
    BY <2>2 DEF FenceT
  <2> HIDE DEF c
  <2>4. /\ d \in FenceT /\ d.pc = "placed" /\ d.ts = fence[f].ts /\ d.ev = fence[f].ev /\ d.refs = 2
        /\ d.sf = "made" /\ d.sig = passed
    BY <2>3 DEF FenceT
  <2> HIDE DEF d
  <2>5. on \in {"none", "list", "flist", "passed"} /\ (on = "list" <=> ~passed) /\ on # "none"
    BY <1>2
  <2> HIDE DEF on
  <2>6. r = [d EXCEPT !.on = on]
    BY <1>3 DEF a, b, c, d, on
  <2>7. /\ r \in FenceT /\ r.pc = "placed" /\ r.ts = fence[f].ts /\ r.ev = fence[f].ev /\ r.refs = 2
        /\ r.sf = "made" /\ r.sig = passed /\ r.on = on
    BY <2>4, <2>5, <2>6 DEF FenceT
  <2> HIDE DEF FenceT
  <2> QED
    BY <1>4, <1>5, <2>5, <2>7, RecPlace
<1>7. /\ fence'[f] = r /\ fence' \in [Fences -> FenceT]
      /\ \A g \in Fences : g # f => fence'[g] = fence[g]
  BY <1>1, <1>4, <1>6, OneFence
<1>8. TypeI' /\ FenceI'
  BY <1>1, <1>4, <1>6, <1>7 DEF TypeI, FenceI
<1>9. CbI'
  <2>1. cb # NoCb => cb \in Fences /\ cb # f
    BY <1>1, <1>4, CbOther
  <2> QED
    BY <1>1, <1>4, <1>7, <2>1 DEF CbI
<1>10. dpc # "gone"
  BY <1>4, InIoctl
<1>11. DestroyI' /\ GoneI'
  BY <1>1, <1>4, <1>10 DEF DestroyI, GoneI
<1>12. CountI'
  <2>1. Live' = Live \cup {f} /\ f \notin Live
    BY <1>6, <1>7 DEF Live
  <2>2. Cardinality(Live') = Cardinality(Live) + 1 /\ Cardinality(Live) \in Nat
    BY <2>1, LiveCount
  <2>3. kref = One(dpc # "gone") + Cardinality(Live) + One(cb # NoCb)
    BY <1>1 DEF CountI
  <2>4. One(dpc # "gone") \in Nat /\ One(cb # NoCb) \in Nat
    BY DEF One
  <2>5. kref' = One(dpc # "gone") + Cardinality(Live') + One(cb # NoCb)
    BY <1>4, <2>2, <2>3, <2>4
  <2> QED
    BY <1>4, <2>5 DEF CountI, One
<1>13. ListI'
  BY <1>1, <1>2, <1>4, <1>6, <1>7 DEF ListI, OnList
<1>14. WindowI'
  <2>1. InFlight' \subseteq InFlight /\ \A g \in Fences : fence'[g].ts = fence[g].ts
    BY <1>4, <1>6, <1>7 DEF InFlight
  <2>2. (InPlay \cup {queued_ts})' \subseteq InPlay \cup {queued_ts}
    <3>1. \A g \in InFlight : g \in Fences
      BY DEF InFlight
    <3> QED
      BY <1>4, <2>1, <3>1 DEF InPlay
  <2>3. Window(InPlay \cup {queued_ts})'
    BY <1>1, <1>10, <2>2, WindowSubset DEF WindowI, Window
  <2>4. \A g, h \in InFlight' : U32Sub(fence'[g].ts, fence'[h].ts) # Half
    <3>1. \A g \in InFlight : g \in Fences
      BY DEF InFlight
    <3> QED
      BY <1>1, <2>1, <3>1 DEF WindowI
  <2>5. \A g \in Fences : fence'[g].ev = fence[g].ev
    BY <1>6, <1>7
  <2> QED
    BY <1>1, <1>4, <1>10, <2>1, <2>3, <2>4, <2>5 DEF WindowI
<1> QED
  BY <1>8, <1>9, <1>11, <1>12, <1>13, <1>14 DEF IInv

-----------------------------------------------------------------------------
(* CloseFd.                                                                *)

LEMMA CloseFdKeeps ==
    ASSUME IInv, NEW f \in Fences, CloseFd(f)
    PROVE  IInv'
<1>1. TypeI /\ FenceI /\ CbI /\ DestroyI /\ CountI /\ ListI /\ WindowI /\ GoneI
  BY DEF IInv
<1>2. PICK r : r = [[[fence[f] EXCEPT !.refs = fence[f].refs - 1, !.on = "none"]
                       EXCEPT !.sf = "closed"] EXCEPT !.on = fence[f].on]
  OBVIOUS
<1>3. /\ fence[f].sf = "open" /\ kref' = kref - hgsl_hsync_fence_release({f}, fence)
      /\ UNCHANGED <<queued_ts, eop, last_ts, cb, in_table, dpc>>
  BY DEF CloseFd
<1>4. fence' = [fence EXCEPT ![f] = r]
  <2> DEFINE x == PutFences({f}, fence)
  <2>1. x = [fence EXCEPT ![f] = [fence[f] EXCEPT !.refs = fence[f].refs - 1, !.on = "none"]]
    BY <1>1 DEF PutFences, TypeI
  <2>2. fence' = [x EXCEPT ![f].sf = "closed", ![f].on = fence[f].on]
    BY DEF CloseFd
  <2> HIDE DEF x
  <2> QED
    BY <1>1, <1>2, <2>1, <2>2 DEF TypeI
<1>5. fence[f] \in FenceT /\ Sound(fence[f])
  BY <1>1, FenceFacts
<1>6. /\ Moves(fence[f], r) /\ r.ev = fence[f].ev /\ r.refs = fence[f].refs - 1
      /\ r.on = fence[f].on /\ fence[f].refs >= 1 /\ r.sig = fence[f].sig
      /\ r.pc = fence[f].pc /\ r.ts = fence[f].ts /\ r.sf = "closed"
  BY <1>2, <1>3, <1>5, RecClose, ZenonT(60)
<1>7. /\ Quiet /\ fence'[f] = r /\ \A g \in Fences : g # f => fence'[g] = fence[g]
  BY <1>1, <1>4, <1>6, OneFence
<1>8. kref' = One(dpc # "gone") + Cardinality(Live') + One(cb # NoCb) /\ kref' \in Int
  <2>1. /\ Cardinality(Live') = Cardinality(Live) - hgsl_hsync_fence_release({f}, fence)
        /\ Cardinality(Live') \in Nat /\ hgsl_hsync_fence_release({f}, fence) \in Nat
        /\ Cardinality(Live) \in Nat
    BY <1>1, <1>6, <1>7, PutsCount
  <2>2. kref = One(dpc # "gone") + Cardinality(Live) + One(cb # NoCb)
    BY <1>1 DEF CountI
  <2>3. One(dpc # "gone") \in Nat /\ One(cb # NoCb) \in Nat
    BY DEF One
  <2> QED
    BY <1>3, <2>1, <2>2, <2>3
<1>9. TypeI' /\ FenceI'
  BY <1>1, <1>3, <1>7, <1>8, QuietFences DEF TypeI
<1>10. CountI'
  BY <1>3, <1>8 DEF CountI, One
<1>11. \A g \in Fences : /\ fence'[g].ev = fence[g].ev /\ fence'[g].on = fence[g].on
                         /\ fence'[g].pc = fence[g].pc /\ fence'[g].ts = fence[g].ts
                         /\ fence'[g].sig = fence[g].sig
                         /\ fence[g].sf = "made" => fence'[g].sf = "made"
  BY <1>3, <1>6, <1>7
<1>12. CbI'
  BY <1>1, <1>3, <1>11, CbOther DEF CbI
<1>13. OnList' = OnList /\ InFlight' = InFlight
  BY <1>11 DEF OnList, InFlight
<1>14. DestroyI'
  BY <1>1, <1>3, <1>11 DEF DestroyI, ContextHeld
<1>15. ListI'
  BY <1>1, <1>3, <1>7, QuietFences DEF ListI
<1>16. WindowI'
  <2>1. \A g, h \in InFlight' : U32Sub(fence'[g].ts, fence'[h].ts) # Half
    BY <1>1, <1>7, QuietFences DEF WindowI
  <2>2. dpc # "gone" => Window(InPlay \cup {queued_ts})'
    BY <1>1, <1>3, <1>7, QuietWindow DEF WindowI
  <2> QED
    BY <1>1, <1>3, <1>11, <2>1, <2>2 DEF WindowI
<1>17. GoneI'
  <2>1. WrapLeft => WrapLeft'
    <3>1. \A g \in OnList : g \in Fences
      BY DEF OnList
    <3> QED
      BY <1>11, <1>13, <3>1 DEF WrapLeft
  <2> QED
    BY <1>1, <1>3, <1>13, <2>1 DEF GoneI
<1> QED
  BY <1>9, <1>10, <1>12, <1>14, <1>15, <1>16, <1>17 DEF IInv

-----------------------------------------------------------------------------
(* The callback.                                                           *)

\* What the critical section of hgsl_hsync_timeline_signal does to the fences.
LEMMA SignalFences ==
    ASSUME TypeI, FenceI, NEW ts \in Ts, hgsl_hsync_timeline_signal(ts)
    PROVE  /\ Quiet
           /\ \A g \in Fences :
                 /\ fence'[g].refs = fence[g].refs /\ fence'[g].ev = fence[g].ev
                 /\ fence'[g].on = IF g \in Reached(ts) THEN "flist" ELSE fence[g].on
                 /\ fence'[g].ts = fence[g].ts /\ fence'[g].sf = fence[g].sf
                 /\ fence'[g].sig = IF g \in Reached(ts) THEN TRUE ELSE fence[g].sig
<1>1. \A g \in Fences : fence'[g] = IF g \in Reached(ts)
                                    THEN [fence[g] EXCEPT !.sig = TRUE, !.on = "flist"]
                                    ELSE fence[g]
  BY DEF hgsl_hsync_timeline_signal
<1>2. \A g \in Reached(ts) : fence[g].on = "list"
  BY DEF Reached, OnList
<1>3. ASSUME NEW g \in Fences
      PROVE  /\ Moves(fence[g], fence'[g])
             /\ fence'[g].refs = fence[g].refs /\ fence'[g].ev = fence[g].ev
             /\ fence'[g].on = IF g \in Reached(ts) THEN "flist" ELSE fence[g].on
             /\ fence'[g].ts = fence[g].ts /\ fence'[g].sf = fence[g].sf
             /\ fence'[g].sig = IF g \in Reached(ts) THEN TRUE ELSE fence[g].sig
  <2>1. CASE g \in Reached(ts)
    <3>1. fence'[g] = [[fence[g] EXCEPT !.sig = TRUE] EXCEPT !.on = "flist"]
      BY <1>1, <2>1
    <3>2. PICK r : r = fence'[g]
      OBVIOUS
    <3>3. PICK q \in FenceT : q = fence[g]
      BY FenceFacts
    <3>4. q.on = "list" /\ Sound(q) /\ r = [[q EXCEPT !.sig = TRUE] EXCEPT !.on = "flist"]
      BY <1>2, <2>1, <3>1, <3>2, <3>3, FenceFacts
    <3>5. /\ Moves(q, r) /\ r.ev = q.ev /\ r.refs = q.refs /\ r.on = "flist"
          /\ r.sig = TRUE /\ r.ts = q.ts /\ r.sf = q.sf
      BY <3>4, RecSignal
    <3> QED
      BY <2>1, <3>2, <3>3, <3>5
  <2>2. CASE g \notin Reached(ts)
    BY <1>1, <2>2, FenceFacts, MovesSame
  <2> QED
    BY <2>1, <2>2
<1>4. fence' = [g \in Fences |-> fence'[g]]
  BY DEF hgsl_hsync_timeline_signal
<1> QED
  BY <1>3, <1>4 DEF Quiet

\* After the signal the timeline has passed no fence that is still on the list.
LEMMA SignalList ==
    ASSUME ListI, NEW ts, last_ts' = IF hgsl_ts32_ge(last_ts, ts) THEN last_ts ELSE ts,
           OnList' \subseteq OnList \ Reached(ts),
           \A g \in OnList' : fence'[g].ts = fence[g].ts
    PROVE  ListI'
<1>1. CASE hgsl_ts32_ge(last_ts, ts)
  BY <1>1 DEF ListI
<1>2. CASE ~hgsl_ts32_ge(last_ts, ts)
  BY <1>2 DEF ListI, Reached
<1> QED
  BY <1>1, <1>2

LEMMA CallbackKeeps ==
    ASSUME IInv, NEW f \in Fences, _hsync_fence_event_cb(f)
    PROVE  IInv'
<1>1. TypeI /\ FenceI /\ CbI /\ DestroyI /\ CountI /\ ListI /\ WindowI
  BY DEF IInv
<1>2. PICK ts \in Ts : ts = fence[f].ts
  BY <1>1, FenceFacts
<1>3. /\ cb = NoCb /\ fence[f].ev = "work" /\ kref' = kref + 1 /\ cb' = f
      /\ UNCHANGED <<queued_ts, eop, in_table, dpc>>
      /\ hgsl_hsync_timeline_signal(ts)
  BY <1>2 DEF _hsync_fence_event_cb
<1>4. /\ Quiet
      /\ \A g \in Fences :
            /\ fence'[g].refs = fence[g].refs /\ fence'[g].ev = fence[g].ev
            /\ fence'[g].on = IF g \in Reached(ts) THEN "flist" ELSE fence[g].on
            /\ fence'[g].ts = fence[g].ts
  BY <1>1, <1>3, SignalFences
<1>5. last_ts' = IF hgsl_ts32_ge(last_ts, ts) THEN last_ts ELSE ts
  BY <1>3 DEF hgsl_hsync_timeline_signal
<1>6. f \in InFlight /\ f # NoCb /\ dpc # "gone"
  BY <1>1, <1>3, ListInFlight, FencesAssumption, InIoctl DEF NoCb
<1>7. TypeI' /\ FenceI'
  <2>1. last_ts' \in Ts
    BY <1>1, <1>5 DEF TypeI
  <2>2. kref' \in Int /\ cb' \in Fences \cup {NoCb}
    BY <1>1, <1>3 DEF TypeI
  <2> QED
    BY <1>1, <1>3, <1>4, <2>1, <2>2, QuietFences DEF TypeI
<1>8. CbI'
  <2>1. fence'[f].on # "list"
    <3>1. CASE hgsl_ts32_ge(last_ts, ts)
      <4>1. f \notin OnList
        BY <1>1, <1>2, <3>1 DEF ListI
      <4> QED
        BY <1>4, <4>1 DEF OnList
    <3>2. CASE ~hgsl_ts32_ge(last_ts, ts)
      <4>1. f \in OnList => f \in Reached(ts)
        BY <1>2, <3>2, GeReflexive DEF Reached
      <4> QED
        BY <1>4, <4>1 DEF OnList
    <3> QED
      BY <3>1, <3>2
  <2> QED
    BY <1>3, <1>4, <2>1 DEF CbI
<1>9. DestroyI' /\ GoneI'
  BY <1>1, <1>3, <1>6 DEF DestroyI, GoneI
<1>10. CountI'
  <2>1. Live' = Live
    BY <1>4 DEF Live
  <2>2. One(cb # NoCb) = 0 /\ One(cb' # NoCb) = 1 /\ One(dpc # "gone") \in Nat
    BY <1>3, <1>6 DEF One
  <2>3. kref = One(dpc # "gone") + Cardinality(Live) + One(cb # NoCb)
    BY <1>1 DEF CountI
  <2>4. kref' = One(dpc # "gone") + Cardinality(Live) + One(cb' # NoCb)
    BY <1>3, <2>2, <2>3, LiveCount
  <2> QED
    BY <1>3, <2>1, <2>4 DEF CountI, One
<1>11. ListI'
  <2>1. OnList' \subseteq OnList \ Reached(ts) /\ \A g \in OnList' : fence'[g].ts = fence[g].ts
    BY <1>4 DEF OnList
  <2> QED
    BY <1>1, <1>5, <2>1, SignalList
<1>12. WindowI'
  <2>1. \A g, h \in InFlight' : U32Sub(fence'[g].ts, fence'[h].ts) # Half
    BY <1>1, <1>4, QuietFences DEF WindowI
  <2>2. last_ts' = last_ts \/ \E g \in InFlight : last_ts' = fence[g].ts
    BY <1>2, <1>5, <1>6
  <2>3. Window(InPlay \cup {queued_ts})'
    BY <1>1, <1>3, <1>4, <1>6, <2>2, QuietWindow DEF WindowI
  <2>4. in_table => hgsl_ts32_ge(eop, last_ts')
    BY <1>1, <1>2, <1>3, <1>5 DEF WindowI
  <2>5. in_table => \A g \in Fences : fence'[g].ev = "work" => hgsl_ts32_ge(eop, fence'[g].ts)
    BY <1>1, <1>4 DEF WindowI
  <2>6. hgsl_ts32_ge(queued_ts, eop)
    BY <1>1, <1>6 DEF WindowI
  <2> QED
    BY <1>3, <2>1, <2>3, <2>4, <2>5, <2>6 DEF WindowI
<1> QED
  BY <1>7, <1>8, <1>9, <1>10, <1>11, <1>12 DEF IInv

\* What the end of the callback does to the fences.
LEMMA PutsFences ==
    ASSUME TypeI, FenceI, CbI, CallbackPuts
    PROVE  /\ Quiet
           /\ \A g \in Fences :
                 /\ fence'[g].refs = IF g \in Flist THEN fence[g].refs - 1 ELSE fence[g].refs
                 /\ g \in Flist => fence[g].refs >= 1
                 /\ fence'[g].ev = IF g = cb THEN "none" ELSE fence[g].ev
                 /\ fence'[g].ts = fence[g].ts /\ fence'[g].sig = fence[g].sig
                 /\ fence'[g].sf = fence[g].sf
<1>1. /\ cb \in Fences /\ fence[cb].ev = "work" /\ fence[cb].on # "list"
  BY CbOther DEF CallbackPuts, CbI
<1>2. PICK x : x = PutFences(Flist, fence)
  OBVIOUS
<1>3. x = [g \in Fences |-> IF g \in Flist THEN [fence[g] EXCEPT !.refs = fence[g].refs - 1, !.on = "none"]
                            ELSE fence[g]]
  BY <1>2 DEF PutFences
<1>4. fence' = [x EXCEPT ![cb].ev = "none"]
  BY <1>2 DEF CallbackPuts
<1>5. ASSUME NEW g \in Fences
      PROVE  /\ Moves(fence[g], x[g])
             /\ x[g].refs = IF g \in Flist THEN fence[g].refs - 1 ELSE fence[g].refs
             /\ g \in Flist => fence[g].refs >= 1
             /\ x[g].ev = fence[g].ev /\ x[g].ts = fence[g].ts /\ x[g].sig = fence[g].sig
             /\ x[g].sf = fence[g].sf
             /\ fence[g].on # "list" => x[g].on # "list"
  <2>1. CASE g \in Flist
    <3>1. x[g] = [[fence[g] EXCEPT !.refs = fence[g].refs - 1] EXCEPT !.on = "none"]
      BY <1>3, <2>1
    <3>2. fence[g].on = "flist"
      BY <2>1 DEF Flist
    <3>3. PICK r : r = x[g]
      OBVIOUS
    <3>4. PICK q \in FenceT : q = fence[g]
      BY FenceFacts
    <3>5. q.on = "flist" /\ Sound(q) /\ r = [[q EXCEPT !.refs = q.refs - 1] EXCEPT !.on = "none"]
      BY <3>1, <3>2, <3>3, <3>4, FenceFacts
    <3>6. /\ Moves(q, r) /\ r.ev = q.ev /\ r.refs = q.refs - 1 /\ r.on = "none" /\ q.refs >= 1
          /\ r.sig = q.sig /\ r.ts = q.ts /\ r.sf = q.sf
      BY <3>5, RecPut
    <3> QED
      BY <2>1, <3>3, <3>4, <3>6
  <2>2. CASE g \notin Flist
    BY <1>3, <2>2, FenceFacts, MovesSame
  <2> QED
    BY <2>1, <2>2
<1>6. \A g \in Fences : fence'[g] = IF g = cb THEN [x[g] EXCEPT !.ev = "none"] ELSE x[g]
  BY <1>1, <1>3, <1>4
<1>7. ASSUME NEW g \in Fences
      PROVE  /\ Moves(fence[g], fence'[g])
             /\ fence'[g].refs = x[g].refs /\ fence'[g].ts = x[g].ts
             /\ fence'[g].ev = IF g = cb THEN "none" ELSE x[g].ev
             /\ fence'[g].sig = x[g].sig /\ fence'[g].sf = x[g].sf
  <2>1. CASE g = cb
    <3>1. x[g] \in FenceT /\ Sound(x[g]) /\ x[g].ev = "work" /\ x[g].on # "list"
      BY <1>1, <1>5, <2>1 DEF Moves
    <3>2. fence'[g] = [x[g] EXCEPT !.ev = "none"]
      BY <1>6, <2>1
    <3>3. /\ Moves(x[g], fence'[g]) /\ fence'[g].ev = "none" /\ fence'[g].refs = x[g].refs
          /\ fence'[g].ts = x[g].ts /\ fence'[g].sig = x[g].sig /\ fence'[g].sf = x[g].sf
      BY <3>1, <3>2, RecEnd
    <3>4. Moves(fence[g], fence'[g])
      BY <1>5, <3>3, FenceFacts, MovesTwice
    <3> QED
      BY <2>1, <3>3, <3>4
  <2>2. CASE g # cb
    BY <1>5, <1>6, <2>2
  <2> QED
    BY <2>1, <2>2
<1>8. fence' = [g \in Fences |-> fence'[g]]
  BY <1>3, <1>4
<1> QED
  BY <1>5, <1>7, <1>8 DEF Quiet

LEMMA CallbackPutsKeeps ==
    ASSUME IInv, CallbackPuts
    PROVE  IInv'
<1>1. TypeI /\ FenceI /\ CbI /\ DestroyI /\ CountI /\ ListI /\ WindowI
  BY DEF IInv
<1>2. /\ cb # NoCb /\ cb' = NoCb
      /\ kref' = kref - hgsl_hsync_fence_release(Flist, fence) - 1
      /\ UNCHANGED <<queued_ts, eop, last_ts, in_table, dpc>>
  BY DEF CallbackPuts
<1>3. /\ Quiet
      /\ \A g \in Fences :
            /\ fence'[g].refs = IF g \in Flist THEN fence[g].refs - 1 ELSE fence[g].refs
            /\ g \in Flist => fence[g].refs >= 1
            /\ fence'[g].ev = IF g = cb THEN "none" ELSE fence[g].ev
            /\ fence'[g].ts = fence[g].ts
  BY <1>1, PutsFences
<1>4. dpc # "gone"
  BY <1>1, <1>2, CbOther, InIoctl
<1>5. /\ Cardinality(Live') = Cardinality(Live) - hgsl_hsync_fence_release(Flist, fence)
      /\ Cardinality(Live') \in Nat /\ hgsl_hsync_fence_release(Flist, fence) \in Nat
      /\ Cardinality(Live) \in Nat
  <2>1. Flist \in SUBSET Fences
    BY DEF Flist
  <2>2. \A g \in Flist : fence[g].refs >= 1 /\ fence'[g].refs = fence[g].refs - 1
    BY <1>3, <2>1
  <2>3. \A g \in Fences \ Flist : fence'[g].refs = fence[g].refs
    BY <1>3
  <2> QED
    BY <1>1, <2>1, <2>2, <2>3, PutsCount
<1>6. kref' = One(dpc # "gone") + Cardinality(Live') + One(cb' # NoCb) /\ kref' \in Int
  <2>1. One(cb # NoCb) = 1 /\ One(cb' # NoCb) = 0 /\ One(dpc # "gone") \in Nat
    BY <1>2 DEF One
  <2>2. kref = One(dpc # "gone") + Cardinality(Live) + One(cb # NoCb)
    BY <1>1 DEF CountI
  <2> QED
    BY <1>2, <1>5, <2>1, <2>2
<1>7. TypeI' /\ FenceI'
  BY <1>1, <1>2, <1>3, <1>6, QuietFences DEF TypeI
<1>8. CbI' /\ DestroyI' /\ GoneI'
  BY <1>1, <1>2, <1>4 DEF CbI, DestroyI, GoneI
<1>9. CountI'
  BY <1>2, <1>6 DEF CountI, One
<1>10. ListI'
  BY <1>1, <1>2, <1>3, QuietFences DEF ListI
<1>11. WindowI'
  <2>1. \A g, h \in InFlight' : U32Sub(fence'[g].ts, fence'[h].ts) # Half
    BY <1>1, <1>3, QuietFences DEF WindowI
  <2>2. Window(InPlay \cup {queued_ts})'
    BY <1>1, <1>2, <1>3, <1>4, QuietWindow DEF WindowI
  <2>3. in_table => \A g \in Fences : fence'[g].ev = "work" => hgsl_ts32_ge(eop, fence'[g].ts)
    BY <1>1, <1>3 DEF WindowI
  <2> QED
    BY <1>1, <1>2, <2>1, <2>2, <2>3 DEF WindowI
<1> QED
  BY <1>7, <1>8, <1>9, <1>10, <1>11 DEF IInv

-----------------------------------------------------------------------------
(* hgsl_hsync_timeline_fini.                                               *)

\* A fence on the list signals and loses the reference of the list.
LEMMA RecDrain ==
    ASSUME NEW q \in FenceT, Sound(q), q.on = "list",
           NEW r, r = [[[q EXCEPT !.sig = TRUE] EXCEPT !.refs = q.refs - 1] EXCEPT !.on = "none"]
    PROVE  /\ Moves(q, r) /\ r.ev = q.ev /\ r.refs = q.refs - 1 /\ r.on = "none" /\ q.refs >= 1
           /\ r.pc = q.pc /\ r.ts = q.ts /\ r.sf = q.sf
<1> DEFINE a == [q EXCEPT !.sig = TRUE]
           b == [a EXCEPT !.refs = q.refs - 1]
<1>1. /\ a \in FenceT /\ a.pc = q.pc /\ a.ev = q.ev /\ a.sig = TRUE /\ a.ts = q.ts /\ a.sf = q.sf
  BY DEF FenceT
<1>2. q.refs - 1 \in Int
  BY DEF FenceT
<1> HIDE DEF a
<1>3. /\ b \in FenceT /\ b.pc = q.pc /\ b.ev = q.ev /\ b.sig = TRUE /\ b.ts = q.ts /\ b.sf = q.sf
      /\ b.refs = q.refs - 1
  BY <1>1, <1>2 DEF FenceT
<1> HIDE DEF b
<1>4. r = [b EXCEPT !.on = "none"]
  BY DEF a, b
<1>5. /\ r \in FenceT /\ r.pc = q.pc /\ r.ev = q.ev /\ r.sig = TRUE /\ r.ts = q.ts /\ r.sf = q.sf
      /\ r.refs = q.refs - 1 /\ r.on = "none"
  BY <1>3, <1>4 DEF FenceT
<1>6. One(q.on # "none") = 1 /\ One(r.on # "none") = 0 /\ One(q.sf \in {"made", "open"}) \in Nat
  BY <1>5 DEF One
<1>7. q.refs = 1 + One(q.sf \in {"made", "open"})
  BY <1>6 DEF Sound
<1>8. r.refs = One(r.on # "none") + One(r.sf \in {"made", "open"}) /\ q.refs >= 1
  BY <1>5, <1>6, <1>7
<1> HIDE DEF FenceT
<1>9. q.pc \notin {"idle", "got"}
  BY DEF Sound
<1>10. Sound(r)
  BY <1>5, <1>8, <1>9 DEF Sound
<1> QED
  BY <1>5, <1>8, <1>9, <1>10 DEF Moves, InF, Sound

\* The fences that max_ts reaches leave the list; the others do not change.
LEMMA FiniFences ==
    ASSUME TypeI, FenceI, hgsl_hsync_timeline_fini
    PROVE  /\ Quiet
           /\ \A g \in Reached(MaxTs) :
                 /\ g \in Fences /\ fence[g].refs >= 1
                 /\ fence'[g].refs = fence[g].refs - 1 /\ fence'[g].on = "none"
                 /\ fence'[g].ev = fence[g].ev /\ fence'[g].ts = fence[g].ts
                 /\ fence'[g].pc = fence[g].pc /\ fence'[g].sf = fence[g].sf
           /\ \A g \in Fences \ Reached(MaxTs) : fence'[g] = fence[g]
<1>1. PICK S : S = Reached(MaxTs)
  OBVIOUS
<1>2. S \subseteq Fences /\ \A g \in S : fence[g].on = "list"
  BY <1>1 DEF Reached, OnList
<1>3. PICK x : x = [g \in Fences |-> [fence[g] EXCEPT !.sig = @ \/ g \in S]]
  OBVIOUS
<1>4. fence' = PutFences(S, x)
  BY <1>1, <1>3 DEF hgsl_hsync_timeline_fini
<1>5. fence' = [g \in Fences |-> IF g \in S THEN [x[g] EXCEPT !.refs = @ - 1, !.on = "none"] ELSE x[g]]
  BY <1>4 DEF PutFences
<1>6. ASSUME NEW g \in Fences, g \notin S
      PROVE  fence'[g] = fence[g]
  <2>1. fence'[g] = x[g]
    BY <1>5, <1>6
  <2>2. PICK q \in FenceT : q = fence[g]
    BY FenceFacts
  <2>3. x[g] = [fence[g] EXCEPT !.sig = @ \/ g \in S]
    BY <1>3
  <2>4. x[g] = [q EXCEPT !.sig = q.sig \/ g \in S]
    BY <2>2, <2>3
  <2>5. q.sig \in BOOLEAN
    BY DEF FenceT
  <2>6. (q.sig \/ g \in S) = q.sig
    BY <1>6, <2>5
  <2>7. x[g] = [q EXCEPT !.sig = q.sig]
    BY <2>4, <2>6
  <2>8. [q EXCEPT !.sig = q.sig] = q
    BY DEF FenceT
  <2> QED
    BY <2>1, <2>2, <2>7, <2>8
<1>7. ASSUME NEW g \in S
      PROVE  /\ g \in Fences /\ Moves(fence[g], fence'[g]) /\ fence[g].refs >= 1
             /\ fence'[g].refs = fence[g].refs - 1 /\ fence'[g].on = "none"
             /\ fence'[g].ev = fence[g].ev /\ fence'[g].ts = fence[g].ts
             /\ fence'[g].pc = fence[g].pc /\ fence'[g].sf = fence[g].sf
  <2>1. g \in Fences
    BY <1>2
  <2>2. PICK q \in FenceT : q = fence[g]
    BY <2>1, FenceFacts
  <2>3. x[g] = [q EXCEPT !.sig = q.sig \/ g \in S]
    BY <1>3, <2>1, <2>2
  <2>4. (q.sig \/ g \in S) = TRUE
    BY <1>7
  <2>5. x[g] = [q EXCEPT !.sig = TRUE]
    BY <2>3, <2>4
  <2>6. fence'[g] = [x[g] EXCEPT !.refs = x[g].refs - 1, !.on = "none"]
    BY <1>5, <1>7, <2>1
  <2>7. x[g].refs = q.refs
    BY <2>5 DEF FenceT
  <2>8. PICK r : r = fence'[g]
    OBVIOUS
  <2>9. r = [[[q EXCEPT !.sig = TRUE] EXCEPT !.refs = q.refs - 1] EXCEPT !.on = "none"]
    BY <2>5, <2>6, <2>7, <2>8
  <2>10. q.on = "list" /\ Sound(q)
    BY <1>2, <2>1, <2>2, FenceFacts
  <2>11. /\ Moves(q, r) /\ r.ev = q.ev /\ r.refs = q.refs - 1 /\ r.on = "none" /\ q.refs >= 1
         /\ r.pc = q.pc /\ r.ts = q.ts /\ r.sf = q.sf
    BY <2>9, <2>10, RecDrain
  <2> QED
    BY <2>1, <2>2, <2>8, <2>11
<1>8. fence' = [g \in Fences |-> fence'[g]]
  BY <1>5
<1>9. \A g \in Fences : Moves(fence[g], fence'[g])
  BY <1>6, <1>7, FenceFacts, MovesSame
<1> QED
  BY <1>1, <1>6, <1>7, <1>8, <1>9 DEF Quiet

\* max_ts is the greatest timestamp on the list, when there is one.
LEMMA MaxTsIs ==
    ASSUME TypeI, FenceI
    PROVE  /\ MaxTs \in Ts
           /\ \A f \in OnList : fence[f].ts <= MaxTs
           /\ OnList # {} => \E g \in OnList : fence[g].ts = MaxTs
<1> DEFINE S == {0} \cup {fence[f].ts : f \in OnList}
<1>1. \A f \in OnList : fence[f].ts \in Ts
  BY FenceFacts DEF OnList
<1>2. 0 \in Ts /\ \A x \in Ts : x >= 0 /\ x \in Int
  BY HalfAssumption DEF Ts, TsMod
<1>3. S \in SUBSET Ts /\ S # {}
  BY <1>1, <1>2
<1>4. \E x \in S : \A y \in S : y <= x
  BY <1>3, GreatestTs
<1>5. MaxTs = CHOOSE ts \in S : \A x \in S : x <= ts
  BY DEF MaxTs
<1>6. MaxTs \in S /\ \A y \in S : y <= MaxTs
  BY <1>4, <1>5
<1>7. \A f \in OnList : fence[f].ts <= MaxTs
  BY <1>6
<1>8. ASSUME OnList # {}, ~\E g \in OnList : fence[g].ts = MaxTs PROVE FALSE
  <2>1. MaxTs = 0
    BY <1>6, <1>8
  <2>2. PICK f \in OnList : TRUE
    BY <1>8
  <2>3. fence[f].ts = 0
    BY <1>1, <1>2, <1>7, <2>1, <2>2
  <2> QED
    BY <1>8, <2>1, <2>2, <2>3
<1> QED
  BY <1>3, <1>6, <1>7, <1>8

\* With no reference on the context left, a fence on the list has no event: its
\* sync_file has no owner.
LEMMA LeftIsMade ==
    ASSUME TypeI, FenceI, ~ContextHeld, NEW f \in OnList
    PROVE  f \in Fences /\ fence[f].sf = "made" /\ fence[f].pc = "end"
<1>1. f \in Fences /\ fence[f].on = "list"
  BY DEF OnList
<1>2. fence[f] \in FenceT /\ Sound(fence[f])
  BY <1>1, FenceFacts
<1>3. fence[f].pc \in {"idle", "end"} /\ fence[f].ev = "none"
  BY <1>1 DEF ContextHeld
<1> QED
  BY <1>1, <1>2, <1>3 DEF Sound, FenceT

LEMMA FiniKeeps ==
    ASSUME IInv, hgsl_hsync_timeline_fini
    PROVE  IInv'
<1>1. TypeI /\ FenceI /\ CbI /\ DestroyI /\ CountI /\ ListI /\ WindowI
  BY DEF IInv
<1>2. PICK M \in Ts : M = MaxTs
  BY <1>1, MaxTsIs
<1>3. PICK S : S = Reached(M)
  OBVIOUS
<1>4. /\ dpc = "spin" /\ ~ContextHeld /\ dpc' = "gone"
      /\ last_ts' = IF hgsl_ts32_ge(last_ts, M) THEN last_ts ELSE M
      /\ kref' = kref - hgsl_hsync_fence_release(S, fence) - 1
      /\ UNCHANGED <<queued_ts, eop, cb, in_table>>
  BY <1>2, <1>3 DEF hgsl_hsync_timeline_fini
<1>5. /\ Quiet
      /\ \A g \in S :
            /\ g \in Fences /\ fence[g].refs >= 1
            /\ fence'[g].refs = fence[g].refs - 1 /\ fence'[g].on = "none"
            /\ fence'[g].ev = fence[g].ev /\ fence'[g].ts = fence[g].ts
            /\ fence'[g].pc = fence[g].pc /\ fence'[g].sf = fence[g].sf
      /\ \A g \in Fences \ S : fence'[g] = fence[g]
  BY <1>1, <1>2, <1>3, FiniFences
<1>6. cb = NoCb
  BY <1>1, <1>4, CbOther DEF ContextHeld
<1>7. /\ Cardinality(Live') = Cardinality(Live) - hgsl_hsync_fence_release(S, fence)
      /\ Cardinality(Live') \in Nat /\ hgsl_hsync_fence_release(S, fence) \in Nat
      /\ Cardinality(Live) \in Nat
  <2>1. S \in SUBSET Fences
    BY <1>5
  <2> QED
    BY <1>1, <1>5, <2>1, PutsCount
<1>8. kref' = One(dpc' # "gone") + Cardinality(Live') + One(cb' # NoCb) /\ kref' \in Int
  <2>1. /\ One(cb # NoCb) = 0 /\ One(cb' # NoCb) = 0 /\ One(dpc # "gone") = 1
        /\ One(dpc' # "gone") = 0
    BY <1>4, <1>6 DEF One
  <2>2. kref = One(dpc # "gone") + Cardinality(Live) + One(cb # NoCb)
    BY <1>1 DEF CountI
  <2> QED
    BY <1>4, <1>7, <2>1, <2>2
<1>9. TypeI' /\ FenceI'
  <2>1. last_ts' \in Ts
    BY <1>1, <1>4 DEF TypeI
  <2> QED
    BY <1>1, <1>4, <1>5, <1>8, <2>1, QuietFences DEF TypeI
<1>10. CbI'
  BY <1>4, <1>6 DEF CbI
<1>11. DestroyI'
  <2>1. \A g \in Fences : fence'[g].pc = fence[g].pc /\ fence'[g].ev = fence[g].ev
    BY <1>5
  <2> QED
    BY <1>1, <1>4, <2>1 DEF DestroyI, ContextHeld
<1>12. CountI'
  BY <1>8 DEF CountI, One
<1>13. OnList' \subseteq OnList \ S /\ \A g \in OnList \ S : g \in OnList'
  BY <1>5 DEF OnList
<1>14. ListI'
  <2>1. \A g \in OnList' : fence'[g].ts = fence[g].ts
    BY <1>1, <1>5, QuietFences
  <2> QED
    BY <1>1, <1>3, <1>4, <1>13, <2>1, SignalList
<1>15. WindowI'
  <2>1. \A g, h \in InFlight' : U32Sub(fence'[g].ts, fence'[h].ts) # Half
    BY <1>1, <1>5, QuietFences DEF WindowI
  <2>2. ~in_table'
    BY <1>1, <1>4 DEF DestroyI
  <2> QED
    BY <1>4, <2>1, <2>2 DEF WindowI
<1>16. GoneI'
  <2> SUFFICES ASSUME NEW f \in OnList' PROVE WrapLeft'
    BY DEF GoneI
  <2>1. f \in OnList /\ f \notin S /\ f \in Fences
    BY <1>13 DEF OnList
  <2>2. PICK g \in OnList : fence[g].ts = M
    BY <1>1, <1>2, <2>1, MaxTsIs
  <2>3. g \in Fences /\ fence[g].sf = "made"
    BY <1>1, <1>4, LeftIsMade
  <2>4. ~hgsl_ts32_ge(last_ts, M)
    BY <1>1, <2>2 DEF ListI
  <2>5. ~hgsl_ts32_ge(M, fence[f].ts)
    BY <1>3, <2>1, <2>4 DEF Reached
  <2>6. f \in InFlight /\ g \in InFlight
    BY <1>1, <2>1, <2>2, ListInFlight DEF OnList
  <2>7. U32Sub(M, fence[f].ts) # Half
    BY <1>1, <2>2, <2>6 DEF WindowI
  <2>8. fence[f].ts \in Ts
    BY <1>1, <2>1, FenceFacts
  <2>9. hgsl_ts32_ge(fence[f].ts, M) /\ M # fence[f].ts
    BY <2>5, <2>7, <2>8, GeTotal
  <2>10. fence[f].ts <= M
    BY <1>1, <1>2, <2>1, MaxTsIs
  <2>11. M > fence[f].ts
    BY <2>8, <2>9, <2>10 DEF Ts
  <2>12. fence'[f] = fence[f] /\ fence'[g].ts = M /\ fence'[g].sf = "made"
    BY <1>5, <2>1, <2>2, <2>3
  <2> QED
    BY <2>3, <2>9, <2>11, <2>12 DEF WrapLeft
<1> QED
  BY <1>9, <1>10, <1>11, <1>12, <1>14, <1>15, <1>16 DEF IInv

-----------------------------------------------------------------------------
(* The invariant.                                                          *)

LEMMA InitHolds == Init => IInv
<1> SUFFICES ASSUME Init PROVE IInv
  OBVIOUS
<1>1. \A f \in Fences : fence[f] = NoFence
  BY DEF Init
<1>2. queued_ts \in Ts /\ eop = queued_ts /\ last_ts = queued_ts
  BY StartTsAssumption DEF Init
<1>3. fence \in [Fences -> FenceT]
  BY NoFenceFields DEF Init
<1>4. TypeI
  BY <1>2, <1>3 DEF Init, TypeI
<1>5. FenceI
  BY <1>1, NoFenceFields DEF FenceI
<1>6. CbI /\ DestroyI /\ GoneI
  BY DEF Init, CbI, DestroyI, GoneI
<1>7. OnList = {} /\ InFlight = {} /\ Live = {}
  BY <1>1, NoFenceFields DEF OnList, InFlight, Live
<1>8. CountI
  BY <1>7, FS_EmptySet DEF CountI, Init, One
<1>9. ListI
  BY <1>7 DEF ListI
<1>10. WindowI
  <2>1. InPlay \cup {queued_ts} = {queued_ts}
    BY <1>2, <1>7 DEF InPlay
  <2>2. hgsl_ts32_ge(queued_ts, queued_ts)
    BY <1>2, GeReflexive
  <2>3. Window(InPlay \cup {queued_ts})
    BY <1>2, <2>1, <2>2 DEF Window, hgsl_ts32_ge
  <2>4. \A f \in Fences : fence[f].ev # "work"
    BY <1>1, NoFenceFields
  <2> QED
    BY <1>2, <1>7, <2>2, <2>3, <2>4 DEF WindowI
<1> QED
  BY <1>4, <1>5, <1>6, <1>8, <1>9, <1>10 DEF IInv

LEMMA StutterKeeps ==
    ASSUME IInv, UNCHANGED vars
    PROVE  IInv'
<1>1. queued_ts \in Ts /\ eop \in Ts
  BY DEF IInv, TypeI
<1>2. WindowI'
  BY DEF vars, IInv, WindowI, Window, InPlay, InFlight
<1> QED
  BY <1>1, <1>2, SameFences DEF vars

LEMMA NextKeeps ==
    ASSUME IInv, [Next]_vars
    PROVE  IInv'
<1>1. CASE UNCHANGED vars
  BY <1>1, StutterKeeps
<1>2. CASE \E ts \in Ts : Submit(ts) \/ GpuRetire(ts)
  BY <1>2, SubmitKeeps, GpuRetireKeeps
<1>3. CASE ProcessEvents
  BY <1>3, ProcessEventsKeeps
<1>4. CASE \E f \in Fences : \/ \E ts \in Ts : hgsl_ioctl_hsync_fence_create(f, ts)
                             \/ Create(f)
                             \/ CloseFd(f)
                             \/ _hsync_fence_event_cb(f)
  BY <1>4, IoctlCreateKeeps, FenceFailsKeeps, FenceCreateKeeps, EventFailsKeeps, AddEventKeeps,
     FdInstallKeeps, CloseFdKeeps, CallbackKeeps DEF Create
<1>5. CASE CallbackPuts
  BY <1>5, CallbackPutsKeeps
<1>6. CASE hgsl_remove_context
  BY <1>6, RemoveKeeps
<1>7. CASE Destroy
  BY <1>7, FlushKeeps, DetachKeeps, FiniKeeps DEF Destroy
<1> QED
  BY <1>1, <1>2, <1>3, <1>4, <1>5, <1>6, <1>7 DEF Next

LEMMA Invariant == Spec => []IInv
<1>1. IInv /\ [Next]_vars => IInv'
  BY NextKeeps
<1> QED
  BY InitHolds, <1>1, PTL DEF Spec

-----------------------------------------------------------------------------
\* hgsl_hsync_timeline_get and _put: the timeline is counted exactly by its
\* context, its fences and the callback in progress, and each fence by its list
\* and its sync_file.
THEOREM HsyncCounted == Spec => []KrefExact
<1>1. IInv => KrefExact
  <2> SUFFICES ASSUME IInv PROVE KrefExact
    OBVIOUS
  <2>1. kref = (IF dpc = "gone" THEN 0 ELSE 1) + Cardinality({f \in Fences : fence[f].refs > 0})
               + (IF cb = NoCb THEN 0 ELSE 1)
    BY DEF IInv, CountI, One, Live
  <2>2. \A f \in Fences : fence[f].refs = RefsOf(f)
    BY DEF IInv, FenceI, Sound, One, RefsOf
  <2> QED
    BY <2>1, <2>2 DEF KrefExact
<1> QED
  BY Invariant, <1>1, PTL

\* hgsl_hsync_timeline_signal and _fini: no fence is left behind on the list,
\* short of two fences without event that straddle the wrap of the timestamp.
THEOREM HsyncListDrained == Spec => []NoFenceLeft
<1>1. IInv => NoFenceLeft
  <2> SUFFICES ASSUME IInv PROVE NoFenceLeft
    OBVIOUS
  <2>1. \A f \in OnList : /\ ~hgsl_hsync_has_signaled(fence[f].ts)
                          /\ fence[f].sf \in {"open", "closed"} => fence[f].ev # "none"
    BY DEF IInv, ListI, FenceI, Sound, OnList, hgsl_hsync_has_signaled
  <2>2. ASSUME NEW f \in Fences, fence[f].sf \in {"open", "closed"}, ~fence[f].sig
        PROVE  f \in OnList
    BY <2>2 DEF IInv, FenceI, Sound, OnList
  <2>3. dpc = "gone" => OnList = {} \/ WrapLeft
    BY DEF IInv, GoneI
  <2> QED
    BY <2>1, <2>2, <2>3 DEF NoFenceLeft
<1> QED
  BY Invariant, <1>1, PTL

-----------------------------------------------------------------------------
(* No signal runs ahead of the GPU.                                        *)

\* What is behind last_ts, or behind an event that has fired, has retired.
LEMMA BehindEop ==
    ASSUME IInv, in_table, NEW f \in InFlight, NEW ts \in Ts, hgsl_ts32_ge(ts, fence[f].ts),
           ts = last_ts \/ \E g \in Fences : fence[g].ev = "work" /\ ts = fence[g].ts
    PROVE  hgsl_ts32_ge(eop, fence[f].ts)
<1>1. TypeI /\ FenceI /\ DestroyI /\ WindowI
  BY DEF IInv
<1>2. PICK base \in Ts : \A x \in InPlay \cup {queued_ts} : U32Sub(x, base) < Half
  BY <1>1 DEF WindowI, DestroyI, Window
<1>3. hgsl_ts32_ge(eop, ts)
  BY <1>1 DEF WindowI
<1>4. U32Sub(ts, base) < Half
  BY <1>1, <1>2, ListInFlight DEF InPlay
<1>5. U32Sub(eop, base) < Half /\ U32Sub(fence[f].ts, base) < Half
  BY <1>2 DEF InPlay
<1>6. eop \in Ts /\ fence[f].ts \in Ts
  BY <1>1, FenceFacts DEF TypeI, InFlight
<1> QED
  BY <1>3, <1>4, <1>5, <1>6, WindowOrder

LEMMA Truthful ==
    ASSUME IInv, [Next]_vars
    PROVE  TruthfulStep
<1> SUFFICES ASSUME NEW f \in Fences, ~fence[f].sig, fence'[f].sig, in_table
             PROVE  hgsl_ts32_ge(eop, fence[f].ts)
  BY DEF TruthfulStep
<1>1. TypeI /\ FenceI /\ CbI /\ DestroyI
  BY DEF IInv
<1>2. fence[f] \in FenceT /\ Sound(fence[f])
  BY <1>1, FenceFacts
<1>3. CASE fence' = fence
  BY <1>3
<1>4. ASSUME NEW S, Fire(S) PROVE FALSE
  <2>1. fence'[f] = IF f \in S THEN [fence[f] EXCEPT !.ev = "work"] ELSE fence[f]
    BY <1>4 DEF Fire
  <2>2. [fence[f] EXCEPT !.ev = "work"].sig = fence[f].sig
    BY <1>2 DEF FenceT
  <2> QED
    BY <2>1, <2>2
<1>5. ASSUME NEW g \in Fences, NEW r, fence' = [fence EXCEPT ![g] = r], r.sig = fence[g].sig
      PROVE  FALSE
  BY <1>1, <1>5, OneFence
<1>6. ASSUME NEW g \in Fences, NEW ts \in Ts, hgsl_ioctl_hsync_fence_create(g, ts) PROVE FALSE
  <2>1. fence[g] \in FenceT
    BY <1>1, FenceFacts
  <2> DEFINE a == [fence[g] EXCEPT !.pc = "got"]
             r == [a EXCEPT !.ts = ts]
  <2>2. a \in FenceT /\ a.sig = fence[g].sig
    BY <2>1 DEF FenceT
  <2>3. fence' = [fence EXCEPT ![g] = r]
    <3>1. fence' = [[fence EXCEPT ![g].pc = "got"] EXCEPT ![g].ts = ts]
      BY <1>6 DEF hgsl_ioctl_hsync_fence_create
    <3> QED
      BY <1>1, <3>1 DEF TypeI
  <2> HIDE DEF a
  <2>4. r.sig = a.sig
    BY <2>2 DEF FenceT
  <2> HIDE DEF r
  <2> QED
    BY <1>5, <2>2, <2>3, <2>4
<1>7. ASSUME NEW g \in Fences, FenceFails(g) PROVE FALSE
  <2>1. fence[g].sig = FALSE
    <3>1. fence[g] \in FenceT /\ Sound(fence[g]) /\ fence[g].pc = "got"
      BY <1>1, <1>7, FenceFacts DEF FenceFails
    <3>2. fence[g].sig \in BOOLEAN /\ ~fence[g].sig
      BY <3>1 DEF FenceT, Sound
    <3> QED
      BY <3>2
  <2> QED
    BY <1>5, <1>7, <2>1, NoFenceFields DEF FenceFails
<1>8. ASSUME NEW g \in Fences, EventFails(g) PROVE FALSE
  <2>1. fence[g] \in FenceT
    BY <1>1, FenceFacts
  <2> DEFINE r == [fence[g] EXCEPT !.pc = "end"]
  <2>2. fence' = [fence EXCEPT ![g] = r] /\ r.sig = fence[g].sig
    BY <1>8, <2>1 DEF EventFails, FenceT
  <2> HIDE DEF r
  <2> QED
    BY <1>5, <2>2
<1>9. ASSUME NEW g \in Fences, _add_fence_event(g) PROVE FALSE
  <2>1. fence[g] \in FenceT
    BY <1>1, FenceFacts
  <2>2. PICK v : v = IF hgsl_ts32_ge(eop, fence[g].ts) THEN "work" ELSE "listed"
    OBVIOUS
  <2> DEFINE a == [fence[g] EXCEPT !.pc = "event"]
             r == [a EXCEPT !.ev = v]
  <2>3. a \in FenceT /\ a.sig = fence[g].sig
    BY <2>1 DEF FenceT
  <2>4. fence' = [fence EXCEPT ![g] = r]
    <3>1. fence' = [[fence EXCEPT ![g].pc = "event"] EXCEPT ![g].ev = v]
      BY <1>9, <2>2 DEF _add_fence_event
    <3> QED
      BY <1>1, <3>1 DEF TypeI
  <2> HIDE DEF a
  <2>5. r.sig = a.sig
    BY <2>3 DEF FenceT
  <2> HIDE DEF r
  <2> QED
    BY <1>5, <2>3, <2>4, <2>5
<1>10. ASSUME NEW g \in Fences, FdInstall(g) PROVE FALSE
  <2>1. fence[g] \in FenceT
    BY <1>1, FenceFacts
  <2> DEFINE a == [fence[g] EXCEPT !.pc = "end"]
             r == [a EXCEPT !.sf = "open"]
  <2>2. a \in FenceT /\ a.sig = fence[g].sig
    BY <2>1 DEF FenceT
  <2>3. fence' = [fence EXCEPT ![g] = r]
    <3>1. fence' = [[fence EXCEPT ![g].pc = "end"] EXCEPT ![g].sf = "open"]
      BY <1>10 DEF FdInstall
    <3> QED
      BY <1>1, <3>1 DEF TypeI
  <2> HIDE DEF a
  <2>4. r.sig = a.sig
    BY <2>2 DEF FenceT
  <2> HIDE DEF r
  <2> QED
    BY <1>5, <2>2, <2>3, <2>4
<1>11. ASSUME NEW g \in Fences, CloseFd(g) PROVE FALSE
  <2>1. PICK r : r = [[[fence[g] EXCEPT !.refs = fence[g].refs - 1, !.on = "none"]
                         EXCEPT !.sf = "closed"] EXCEPT !.on = fence[g].on]
    OBVIOUS
  <2>2. fence' = [fence EXCEPT ![g] = r]
    <3> DEFINE x == PutFences({g}, fence)
    <3>1. x = [fence EXCEPT ![g] = [fence[g] EXCEPT !.refs = fence[g].refs - 1, !.on = "none"]]
      BY <1>1 DEF PutFences, TypeI
    <3>2. fence' = [x EXCEPT ![g].sf = "closed", ![g].on = fence[g].on]
      BY <1>11 DEF CloseFd
    <3> HIDE DEF x
    <3> QED
      BY <1>1, <2>1, <3>1, <3>2 DEF TypeI
  <2>3. r.sig = fence[g].sig
    <3>1. fence[g] \in FenceT /\ Sound(fence[g]) /\ fence[g].sf = "open"
      BY <1>1, <1>11, FenceFacts DEF CloseFd
    <3> QED
      BY <2>1, <3>1, RecClose
  <2> QED
    BY <1>5, <2>2, <2>3
<1>12. ASSUME CallbackPuts PROVE FALSE
  <2>1. fence'[f].sig = fence[f].sig
    BY <1>1, <1>12, PutsFences
  <2> QED
    BY <2>1
<1>13. ASSUME NEW g \in Fences, hgsl_hsync_fence_create(g)
       PROVE  hgsl_ts32_ge(eop, fence[f].ts)
  <2>1. f = g
    <3>1. \E r : fence' = [fence EXCEPT ![g] = r]
      BY <1>13 DEF hgsl_hsync_fence_create
    <3> QED
      BY <1>1, <3>1, OneFence
  <2>2. PICK passed \in BOOLEAN : passed = hgsl_ts32_ge(last_ts, fence[f].ts)
    <3>1. hgsl_ts32_ge(last_ts, fence[f].ts) \in BOOLEAN
      BY DEF hgsl_ts32_ge
    <3> QED
      BY <3>1, Zenon
  <2> DEFINE a == [fence[f] EXCEPT !.pc = "placed"]
             b == [a EXCEPT !.refs = 2]
             c == [b EXCEPT !.sf = "made"]
             d == [c EXCEPT !.sig = passed]
             on == IF passed THEN "passed" ELSE "list"
             r == [d EXCEPT !.on = on]
  <2>3. fence' = [fence EXCEPT ![f] = r]
    BY <1>13, <2>1, <2>2 DEF hgsl_hsync_fence_create, hgsl_hsync_has_signaled
  <2>4. fence'[f] = r
    BY <1>1, <2>3, OneFence
  <2>5. a \in FenceT
    BY <1>2 DEF FenceT
  <2> HIDE DEF a
  <2>6. b \in FenceT
    BY <2>5 DEF FenceT
  <2> HIDE DEF b
  <2>7. c \in FenceT
    BY <2>6 DEF FenceT
  <2> HIDE DEF c
  <2>8. d \in FenceT /\ d.sig = passed
    BY <2>7 DEF FenceT
  <2> HIDE DEF d, on
  <2>9. r.sig = passed
    BY <2>8 DEF FenceT
  <2> HIDE DEF r
  <2>10. hgsl_ts32_ge(last_ts, fence[f].ts)
    BY <2>2, <2>4, <2>9
  <2>11. f \in InFlight
    BY <1>1, <1>13, <2>1, ListInFlight DEF hgsl_hsync_fence_create
  <2> QED
    BY <1>1, <2>10, <2>11, BehindEop DEF TypeI
<1>14. ASSUME NEW g \in Fences, _hsync_fence_event_cb(g)
       PROVE  hgsl_ts32_ge(eop, fence[f].ts)
  <2>1. PICK ts \in Ts : ts = fence[g].ts
    BY <1>1, FenceFacts
  <2>2. hgsl_hsync_timeline_signal(ts) /\ fence[g].ev = "work"
    BY <1>14, <2>1 DEF _hsync_fence_event_cb
  <2>3. fence'[f].sig = IF f \in Reached(ts) THEN TRUE ELSE fence[f].sig
    BY <1>1, <2>2, SignalFences
  <2>4. f \in Reached(ts)
    BY <2>3
  <2>5. hgsl_ts32_ge(ts, fence[f].ts) /\ fence[f].on = "list"
    BY <2>4 DEF Reached, OnList
  <2>6. f \in InFlight
    BY <1>1, <2>5, ListInFlight
  <2> QED
    BY <2>1, <2>2, <2>5, <2>6, BehindEop
<1>15. ASSUME hgsl_hsync_timeline_fini PROVE FALSE
  BY <1>1, <1>15 DEF hgsl_hsync_timeline_fini, DestroyI
<1>16. CASE Next
  <2>1. CASE \E ts \in Ts : Submit(ts) \/ GpuRetire(ts)
    BY <1>3, <2>1 DEF Submit, GpuRetire
  <2>2. CASE ProcessEvents
    BY <1>4, <2>2 DEF ProcessEvents
  <2>3. CASE \E g \in Fences : \/ \E ts \in Ts : hgsl_ioctl_hsync_fence_create(g, ts)
                               \/ Create(g)
                               \/ CloseFd(g)
                               \/ _hsync_fence_event_cb(g)
    BY <1>6, <1>7, <1>8, <1>9, <1>10, <1>11, <1>13, <1>14, <2>3 DEF Create
  <2>4. CASE CallbackPuts
    BY <1>12, <2>4
  <2>5. CASE hgsl_remove_context
    BY <1>3, <2>5 DEF hgsl_remove_context
  <2>6. CASE Destroy
    BY <1>4, <1>15, <2>6 DEF Destroy, hgsl_flush_event_group, Detach
  <2> QED
    BY <1>16, <2>1, <2>2, <2>3, <2>4, <2>5, <2>6 DEF Next
<1> QED
  BY <1>3, <1>16 DEF vars

\* hgsl_hsync_fence_create and hgsl_hsync_timeline_signal: a fence signals only
\* when its timestamp has retired or its context is being destroyed, also when
\* the signal is the one of another fence.
THEOREM HsyncSignalTruthful == Spec => SignalTruthful
<1>1. IInv /\ [Next]_vars => TruthfulStep
  BY Truthful
<1> QED
  BY Invariant, <1>1, PTL DEF Spec, SignalTruthful

=============================================================================
