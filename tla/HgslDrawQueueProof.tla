-------------------------- MODULE HgslDrawQueueProof --------------------------
(***************************************************************************)
(* Proofs about HgslDrawQueue, for every size of the ring, set of threads, *)
(* set of batches, way of giving timestamps and width of the timestamps:   *)
(* the ring is consistent, no kick is lost and no batch is half queued,    *)
(* provided no wait for room lasts its ten seconds (~Timeouts; the model   *)
(* has a counterexample to the first otherwise); and the queue implements  *)
(* HgslInOrder when the driver gives or checks the timestamps.             *)
(*                                                                         *)
(* The inductive invariant IInv adds to the three properties who holds     *)
(* drawq_lock and what the holder knows: the slots a thread found free are *)
(* still free for the rest of its batch, the client's timestamp it checked *)
(* is still fresh, and the dispatcher knows whether it has to come back.   *)
(***************************************************************************)
EXTENDS HgslDrawQueue, FiniteSetTheorems, SequenceTheorems, WellFoundedInduction, TLAPS

ThreadPc == {"idle", "got", "lock", "room", "enq", "inc", "sched", "put", "fail"}
WorkerPc == {"idle", "xchg", "send", "scan", "issue", "requeue", "done"}

ThreadT == [pc : ThreadPc, objs : Seq(DrawObj), n : Nat, ts : Ts]
WorkerT == [pc : WorkerPc, taken : Nat, obj : DrawObj, again : BOOLEAN]

\* Types, of the fields too; queued may be any integer here.
TypeI ==
    /\ drawq \in [Slots -> DrawObj]
    /\ drawq_head \in Slots /\ drawq_tail \in Slots /\ queued \in Int
    /\ drawq_lock \in {"free", "worker"} \cup Threads
    /\ queued_ts \in Ts /\ eop \in Ts
    /\ gpu \in Seq(Ts) /\ sent \subseteq Ts
    /\ count \in Nat /\ kref \in Int
    /\ works \in Seq({"work", "flush"})
    /\ wk \in WorkerT
    /\ th \in [Threads -> ThreadT]
    /\ dispatch \in BOOLEAN /\ in_destroy \in BOOLEAN
    /\ dpc \in DestroyPc

\* drawq_lock has one holder.
LockI ==
    /\ \A t \in Threads : th[t].pc = "enq" <=> drawq_lock = t
    /\ wk.pc = "scan" <=> drawq_lock = "worker"

\* What the dispatcher has in hand where it is.
Holds == wk.pc \in {"issue", "requeue"}
WorkerI ==
    /\ Holds => HasTs(wk.obj)
    /\ ~Holds => wk.obj = NoObj
    /\ wk.pc \in {"idle", "xchg"} => wk.taken = 0
    /\ wk.pc \notin {"idle", "xchg"} => wk.taken > 0

\* A batch, and how far it is queued.  The client's timestamp is good as long as
\* the object it is for has not been queued.
Batch(objs) ==
    /\ \A i \in 1 .. Len(objs) : objs[i].kind \in Kinds
    /\ \A i \in 1 .. (Len(objs) - 1) : objs[i].kind \in {"sync", "timeline"}
Fresh(r, q) ==
    TsMode = "client" /\ r.n < Len(r.objs) /\ HasTs(r.objs[Len(r.objs)]) => ~hgsl_ts32_ge(q, r.ts)
ThreadI ==
    \A t \in Threads :
        /\ Batch(th[t].objs)
        /\ th[t].n <= Len(th[t].objs)
        /\ th[t].pc \in {"idle", "got", "lock", "room", "fail"} => th[t].n = 0
        /\ th[t].pc = "enq" => Fresh(th[t], queued_ts)

\* The ring: the objects between head and tail are counted, and there is room for
\* the rest of a batch that is being queued and for the object the dispatcher has.
Used == (drawq_tail - drawq_head) % QSize
Early == dpc \in {"none", "removed", "drain"}
RingI ==
    /\ Cardinality(Occupied) = Used
    /\ Used <= queued /\ (Early => Used = queued)
    /\ InQueue <= QSize - 1
    /\ \A i \in Occupied : drawq[i].kind # "none"
    /\ \A t \in Threads : th[t].pc = "enq" =>
          Early /\ queued + Len(th[t].objs) - th[t].n <= QSize - 2
    /\ in_destroy <=> dpc \notin {"none", "removed"}

\* Somebody will look at what is in the ring.
Kicked ==
    \/ count > 0
    \/ wk.pc \notin {"idle", "xchg"} /\ (wk.pc = "done" => wk.again)
    \/ \E t \in Threads : th[t].pc = "inc"
KickI ==
    /\ Occupied # {} /\ dpc = "none" =>
          Kicked \/ \E t \in Threads : th[t].pc = "enq" /\ th[t].n > 0
    /\ count > 0 =>
          \/ \E i \in DOMAIN works : works[i] = "work"
          \/ wk.pc = "xchg"
          \/ \E t \in Threads : th[t].pc = "sched"

IInv == TypeI /\ LockI /\ WorkerI /\ ThreadI /\ RingI /\ KickI

-----------------------------------------------------------------------------
(* The ring.                                                               *)

\* Distances in the ring, without the modulus.
Dist(a, b) == IF a >= b THEN a - b ELSE a - b + QSize

LEMMA SizeFacts == QSize \in Nat /\ QSize >= 3 /\ Slots = 0 .. (QSize - 1)
  BY DrawQueueAssumption DEF Slots

LEMMA SlotDist ==
    ASSUME NEW a \in Slots, NEW b \in Slots
    PROVE  (a - b) % QSize = Dist(a, b) /\ Dist(a, b) \in 0 .. (QSize - 1)
<1>1. a \in Int /\ b \in Int /\ 0 <= a /\ a < QSize /\ 0 <= b /\ b < QSize
  BY SizeFacts
<1>2. PICK d \in Int : d = a - b
  BY <1>1
<1>3. -QSize <= d /\ d < QSize
  BY <1>1, <1>2, SizeFacts
<1>4. d % QSize = IF d < 0 THEN d + QSize ELSE d
  BY <1>3, SizeFacts
<1> QED
  BY <1>1, <1>2, <1>4, SizeFacts DEF Dist

LEMMA NextSlot ==
    ASSUME NEW a \in Slots
    PROVE  DRAWQUEUE_NEXT(a) = (IF a = QSize - 1 THEN 0 ELSE a + 1) /\ DRAWQUEUE_NEXT(a) \in Slots
<1>1. PICK d \in Int : d = a + 1
  BY SizeFacts
<1>2. 0 <= d /\ d <= QSize
  BY <1>1, SizeFacts
<1>3. d % QSize = IF d < QSize THEN d ELSE d - QSize
  BY <1>2, SizeFacts
<1> QED
  BY <1>1, <1>3, SizeFacts DEF DRAWQUEUE_NEXT

LEMMA OccupiedIs ==
    ASSUME drawq_head \in Slots, drawq_tail \in Slots
    PROVE  /\ Used = Dist(drawq_tail, drawq_head) /\ Used \in 0 .. (QSize - 1)
           /\ Occupied = {i \in Slots : Dist(i, drawq_head) < Dist(drawq_tail, drawq_head)}
           /\ Used = 0 <=> drawq_head = drawq_tail
<1>1. Used = Dist(drawq_tail, drawq_head) /\ Used \in 0 .. (QSize - 1)
  BY SlotDist DEF Used
<1>2. \A i \in Slots : (i - drawq_head) % QSize = Dist(i, drawq_head)
  BY SlotDist
<1>3. Occupied = {i \in Slots : Dist(i, drawq_head) < Dist(drawq_tail, drawq_head)}
  BY <1>1, <1>2 DEF Occupied, Used
<1>4. Used = 0 <=> drawq_head = drawq_tail
  BY <1>1, SizeFacts DEF Dist
<1> QED
  BY <1>1, <1>3, <1>4

\* An object is queued at the tail,
LEMMA RingPush ==
    ASSUME drawq_head \in Slots, drawq_tail \in Slots, Used < QSize - 1,
           drawq_head' = drawq_head, drawq_tail' = DRAWQUEUE_NEXT(drawq_tail)
    PROVE  /\ drawq_tail \notin Occupied /\ Occupied' = Occupied \cup {drawq_tail}
           /\ Used' = Used + 1 /\ drawq_tail' \in Slots
<1>1. /\ drawq_tail' = (IF drawq_tail = QSize - 1 THEN 0 ELSE drawq_tail + 1)
      /\ drawq_tail' \in Slots
  BY NextSlot
<1>2. Used = Dist(drawq_tail, drawq_head)
  BY OccupiedIs
<1>3. Used' = Dist(drawq_tail', drawq_head)
  BY <1>1, SlotDist DEF Used
<1>4. Used' = Used + 1
  BY <1>1, <1>2, <1>3, SizeFacts DEF Dist
<1>5. Occupied = {i \in Slots : Dist(i, drawq_head) < Used}
  BY <1>2, OccupiedIs
<1>6. Occupied' = {i \in Slots : Dist(i, drawq_head) < Used'}
  <2>1. \A i \in Slots : (i - drawq_head) % QSize = Dist(i, drawq_head)
    BY SlotDist
  <2> QED
    BY <2>1 DEF Occupied, Used
<1>7. \A i \in Slots : Dist(i, drawq_head) \in Int /\ (Dist(i, drawq_head) = Used <=> i = drawq_tail)
  BY <1>2, SizeFacts DEF Dist
<1>8. Used \in Int
  BY OccupiedIs
<1>9. \A i \in Slots : i \in Occupied' <=> i \in Occupied \/ i = drawq_tail
  BY <1>4, <1>5, <1>6, <1>7, <1>8
<1>10. drawq_tail \notin Occupied
  BY <1>5, <1>7, <1>8
<1>11. Occupied' = Occupied \cup {drawq_tail}
  BY <1>9 DEF Occupied
<1> QED
  BY <1>1, <1>4, <1>10, <1>11

\* taken from the head,
LEMMA RingPop ==
    ASSUME drawq_head \in Slots, drawq_tail \in Slots, drawq_head # drawq_tail,
           drawq_head' = DRAWQUEUE_NEXT(drawq_head), drawq_tail' = drawq_tail
    PROVE  /\ drawq_head \in Occupied /\ Occupied' = Occupied \ {drawq_head}
           /\ Used' = Used - 1 /\ drawq_head' \in Slots
<1>1. /\ drawq_head' = (IF drawq_head = QSize - 1 THEN 0 ELSE drawq_head + 1)
      /\ drawq_head' \in Slots
  BY NextSlot
<1>2. Used = Dist(drawq_tail, drawq_head)
  BY OccupiedIs
<1>3. Used' = Dist(drawq_tail, drawq_head')
  BY <1>1, SlotDist DEF Used
<1>4. Used' = Used - 1
  BY <1>1, <1>2, <1>3, SizeFacts DEF Dist
<1>5. Occupied = {i \in Slots : Dist(i, drawq_head) < Used}
  BY <1>2, OccupiedIs
<1>6. Occupied' = {i \in Slots : Dist(i, drawq_head') < Used'}
  <2>1. \A i \in Slots : (i - drawq_head') % QSize = Dist(i, drawq_head')
    BY <1>1, SlotDist
  <2> QED
    BY <2>1 DEF Occupied, Used
<1>7. \A i \in Slots : /\ i # drawq_head => Dist(i, drawq_head') = Dist(i, drawq_head) - 1
                       /\ i = drawq_head => Dist(i, drawq_head') = QSize - 1
                       /\ Dist(i, drawq_head) \in Int
  BY <1>1, SizeFacts DEF Dist
<1>8. Used \in Int /\ Used < QSize /\ Dist(drawq_head, drawq_head) = 0 /\ Used > 0
  BY OccupiedIs, SizeFacts DEF Dist
<1>9. \A i \in Slots : i \in Occupied' <=> i \in Occupied /\ i # drawq_head
  BY <1>4, <1>5, <1>6, <1>7, <1>8, SizeFacts
<1>10. drawq_head \in Occupied
  BY <1>5, <1>8
<1>11. Occupied' = Occupied \ {drawq_head}
  BY <1>9 DEF Occupied
<1> QED
  BY <1>1, <1>4, <1>10, <1>11

\* or put back before it.
LEMMA RingRequeue ==
    ASSUME drawq_head \in Slots, drawq_tail \in Slots, Used < QSize - 1,
           drawq_head' = PrevSlot, drawq_tail' = drawq_tail
    PROVE  /\ PrevSlot \notin Occupied /\ Occupied' = Occupied \cup {PrevSlot}
           /\ Used' = Used + 1 /\ drawq_head' \in Slots /\ PrevSlot \in Slots
<1>1. /\ drawq_head' = (IF drawq_head = 0 THEN QSize - 1 ELSE drawq_head - 1)
      /\ drawq_head' \in Slots
  BY SizeFacts DEF PrevSlot
<1>2. Used = Dist(drawq_tail, drawq_head)
  BY OccupiedIs
<1>3. Used' = Dist(drawq_tail, drawq_head')
  BY <1>1, SlotDist DEF Used
<1>4. Used' = Used + 1
  BY <1>1, <1>2, <1>3, SizeFacts DEF Dist
<1>5. Occupied = {i \in Slots : Dist(i, drawq_head) < Used}
  BY <1>2, OccupiedIs
<1>6. Occupied' = {i \in Slots : Dist(i, drawq_head') < Used'}
  <2>1. \A i \in Slots : (i - drawq_head') % QSize = Dist(i, drawq_head')
    BY <1>1, SlotDist
  <2> QED
    BY <2>1 DEF Occupied, Used
<1>7. \A i \in Slots : /\ i # drawq_head' => Dist(i, drawq_head') = Dist(i, drawq_head) + 1
                       /\ i = drawq_head' => Dist(i, drawq_head') = 0 /\ Dist(i, drawq_head) = QSize - 1
                       /\ Dist(i, drawq_head) \in Int
  BY <1>1, SizeFacts DEF Dist
<1>8. Used \in Int /\ Used >= 0
  BY OccupiedIs
<1>9. \A i \in Slots : i \in Occupied' <=> i \in Occupied \/ i = drawq_head'
  BY <1>4, <1>5, <1>6, <1>7, <1>8, SizeFacts
<1>10. drawq_head' \notin Occupied
  BY <1>1, <1>5, <1>7, <1>8, SizeFacts
<1>11. Occupied' = Occupied \cup {drawq_head'}
  BY <1>1, <1>9 DEF Occupied
<1> QED
  BY <1>1, <1>4, <1>10, <1>11

\* Sets of slots count one more or one less.
LEMMA SlotCount ==
    ASSUME NEW S \in SUBSET Slots
    PROVE  /\ Cardinality(S) \in Nat /\ (Cardinality(S) = 0 <=> S = {})
           /\ \A i \in Slots \ S : Cardinality(S \cup {i}) = Cardinality(S) + 1
           /\ \A i \in S : Cardinality(S \ {i}) = Cardinality(S) - 1
<1>1. IsFiniteSet(Slots)
  BY FS_Interval, SizeFacts
<1>2. IsFiniteSet(S)
  BY <1>1, FS_Subset
<1>3. \A i \in Slots \ S : Cardinality(S \cup {i}) = Cardinality(S) + 1
  BY <1>2, FS_AddElement
<1>4. \A i \in S : Cardinality(S \ {i}) = Cardinality(S) - 1
  BY <1>2, FS_RemoveElement
<1> QED
  BY <1>2, <1>3, <1>4, FS_CardinalityType, FS_EmptySet

-----------------------------------------------------------------------------
(* Records, and what most steps leave alone.                               *)

HasWork == \E i \in DOMAIN works : works[i] = "work"

LEMMA Zeros == 0 \in Ts /\ NoObj \in DrawObj /\ NoObj.kind = "none" /\ ~HasTs(NoObj)
<1>1. 0 \in Ts
  BY HalfAssumption DEF Ts, TsMod
<1> QED
  BY <1>1 DEF NoObj, DrawObj, HasTs

\* Queueing the work leaves it on the list once.
LEMMA QueueWork ==
    ASSUME works \in Seq({"work", "flush"})
    PROVE  /\ kthread_queue_work("work") \in Seq({"work", "flush"})
           /\ \E i \in DOMAIN kthread_queue_work("work") : kthread_queue_work("work")[i] = "work"
<1>1. CASE HasWork
  <2>1. kthread_queue_work("work") = works
    BY <1>1 DEF kthread_queue_work, HasWork
  <2> QED
    BY <1>1, <2>1 DEF HasWork
<1>2. CASE ~HasWork
  <2>1. kthread_queue_work("work") = Append(works, "work")
    BY <1>2 DEF kthread_queue_work, HasWork
  <2>2. /\ Append(works, "work") \in Seq({"work", "flush"})
        /\ Len(works) + 1 \in DOMAIN Append(works, "work")
        /\ Append(works, "work")[Len(works) + 1] = "work"
    OBVIOUS
  <2> QED
    BY <2>1, <2>2
<1> QED
  BY <1>1, <1>2

\* One thread moves on.
LEMMA OneThread ==
    ASSUME TypeI, NEW t \in Threads, NEW r \in ThreadT, th' = [th EXCEPT ![t] = r]
    PROVE  /\ th' \in [Threads -> ThreadT] /\ th'[t] = r
           /\ \A u \in Threads : u # t => th'[u] = th[u]
  BY DEF TypeI

LEMMA SetPc ==
    ASSUME TypeI, NEW t \in Threads, NEW x \in ThreadPc, th' = [th EXCEPT ![t].pc = x]
    PROVE  /\ th'[t] \in ThreadT /\ th' = [th EXCEPT ![t] = th'[t]]
           /\ th'[t].pc = x /\ th'[t].objs = th[t].objs
           /\ th'[t].n = th[t].n /\ th'[t].ts = th[t].ts
<1>1. th[t] \in ThreadT
  BY DEF TypeI
<1>2. th'[t] = [th[t] EXCEPT !.pc = x]
  BY DEF TypeI
<1>3. th' = [th EXCEPT ![t] = th'[t]]
  BY <1>2 DEF TypeI
<1> QED
  BY <1>1, <1>2, <1>3 DEF ThreadT

\* Queued draw objects keep their kinds and nobody comes into the critical
\* section or pops an object: the ring stays as it should be.
LEMMA RingSame ==
    ASSUME TypeI, RingI, UNCHANGED <<drawq_head, drawq_tail, queued>>,
           \A i \in Slots : drawq'[i].kind = drawq[i].kind,
           \A t \in Threads : th'[t].pc = "enq" => th'[t] = th[t],
           Holds' => Holds,
           Early' <=> Early, in_destroy' <=> dpc' \notin {"none", "removed"}
    PROVE  RingI' /\ Occupied' = Occupied
<1>1. Occupied' = Occupied /\ Used' = Used /\ Occupied \subseteq Slots
  BY DEF Occupied, Used
<1>2. queued \in Int /\ queued' = queued
  BY DEF TypeI
<1>3. InQueue' <= QSize - 1
  <2>1. CASE Holds'
    <3>1. InQueue' = queued + 1 /\ InQueue = queued + 1
      BY <2>1 DEF InQueue, Holds
    <3> QED
      BY <3>1 DEF RingI
  <2>2. CASE ~Holds'
    <3>1. InQueue' = queued + 0
      BY <2>2 DEF InQueue, Holds
    <3>2. InQueue \in {queued + 1, queued + 0}
      BY DEF InQueue
    <3>3. queued <= QSize - 1
      BY <1>2, <3>2, SizeFacts DEF RingI
    <3> QED
      BY <1>2, <3>1, <3>3
  <2> QED
    BY <2>1, <2>2
<1>4. \A i \in Occupied' : drawq'[i].kind # "none"
  BY <1>1 DEF RingI
<1>5. \A t \in Threads : th'[t].pc = "enq" =>
          Early' /\ queued' + Len(th'[t].objs) - th'[t].n <= QSize - 2
  BY DEF RingI
<1> QED
  BY <1>1, <1>3, <1>4, <1>5 DEF RingI

-----------------------------------------------------------------------------
(* Steps of a thread outside the critical section.                         *)

ThreadStep(t, r) ==
    /\ th' = [th EXCEPT ![t] = r] /\ r \in ThreadT
    /\ Batch(r.objs) /\ r.n <= Len(r.objs)
    /\ r.pc \in {"idle", "got", "lock", "room", "fail"} => r.n = 0
    /\ th[t].pc # "enq" /\ r.pc # "enq"
    /\ UNCHANGED <<ring, drawq_lock, queued_ts, eop, gpu, sent, wk, life>>
    /\ kref' \in Int /\ dispatch' \in BOOLEAN
    /\ count' \in Nat /\ works' \in Seq({"work", "flush"})
    /\ count' = count \/ (count' = count + 1 /\ r.pc = "sched")
    /\ th[t].pc = "inc" => count' > 0
    /\ th[t].pc = "sched" => HasWork'
    /\ HasWork => HasWork'

LEMMA ThreadStepKeeps ==
    ASSUME IInv, NEW t \in Threads, NEW r, ThreadStep(t, r)
    PROVE  IInv'
<1>1. TypeI /\ LockI /\ WorkerI /\ ThreadI /\ RingI /\ KickI
  BY DEF IInv
<1>2. /\ th' \in [Threads -> ThreadT] /\ th'[t] = r
      /\ \A u \in Threads : u # t => th'[u] = th[u]
  BY <1>1, OneThread DEF ThreadStep
<1>3. TypeI'
  BY <1>1, <1>2 DEF TypeI, ThreadStep, ring, life
<1>4. LockI'
  BY <1>1, <1>2 DEF LockI, ThreadStep
<1>5. WorkerI'
  BY <1>1 DEF WorkerI, ThreadStep, Holds
<1>6. ThreadI'
  <2> SUFFICES ASSUME NEW u \in Threads
               PROVE  /\ Batch(th'[u].objs)
                      /\ th'[u].n <= Len(th'[u].objs)
                      /\ th'[u].pc \in {"idle", "got", "lock", "room", "fail"} => th'[u].n = 0
                      /\ th'[u].pc = "enq" => Fresh(th'[u], queued_ts')
    BY DEF ThreadI
  <2>1. CASE u = t
    BY <1>2, <2>1 DEF ThreadStep
  <2>2. CASE u # t
    BY <1>1, <1>2, <2>2 DEF ThreadStep, ThreadI
  <2> QED
    BY <2>1, <2>2
<1>7. RingI' /\ Occupied' = Occupied
  <2>1. /\ UNCHANGED <<drawq_head, drawq_tail, queued>>
        /\ \A i \in Slots : drawq'[i].kind = drawq[i].kind
        /\ Holds' = Holds /\ (Early' <=> Early) /\ dpc' = dpc
        /\ in_destroy' <=> dpc' \notin {"none", "removed"}
    BY <1>1 DEF ThreadStep, ring, life, Holds, Early, RingI
  <2>2. \A u \in Threads : th'[u].pc = "enq" => th'[u] = th[u]
    BY <1>2 DEF ThreadStep
  <2> QED
    BY <1>1, <2>1, <2>2, RingSame
<1>8. KickI'
  <2>1. count \in Nat
    BY <1>1 DEF TypeI
  <2>2. Kicked => Kicked'
    <3>1. CASE count > 0
      BY <2>1, <3>1 DEF Kicked, ThreadStep
    <3>2. CASE wk.pc \notin {"idle", "xchg"} /\ (wk.pc = "done" => wk.again)
      BY <3>2 DEF Kicked, ThreadStep
    <3>3. ASSUME NEW u \in Threads, th[u].pc = "inc" PROVE Kicked'
      <4>1. CASE u = t
        BY <3>3, <4>1 DEF Kicked, ThreadStep
      <4>2. CASE u # t
        BY <1>2, <3>3, <4>2 DEF Kicked
      <4> QED
        BY <4>1, <4>2
    <3> QED
      BY <3>1, <3>2, <3>3 DEF Kicked
  <2>3. ASSUME NEW u \in Threads, th[u].pc = "enq", th[u].n > 0
        PROVE  \E v \in Threads : th'[v].pc = "enq" /\ th'[v].n > 0
    BY <1>2, <2>3 DEF ThreadStep
  <2>4. Occupied' # {} /\ dpc' = "none" =>
          Kicked' \/ \E u \in Threads : th'[u].pc = "enq" /\ th'[u].n > 0
    BY <1>1, <1>7, <2>2, <2>3 DEF KickI, ThreadStep, life
  <2>5. ASSUME count' > 0
        PROVE  HasWork' \/ wk'.pc = "xchg" \/ \E u \in Threads : th'[u].pc = "sched"
    <3>1. CASE count' = count + 1 /\ r.pc = "sched"
      BY <1>2, <3>1
    <3>2. CASE count' = count
      <4>1. HasWork \/ wk.pc = "xchg" \/ \E u \in Threads : th[u].pc = "sched"
        BY <1>1, <2>5, <3>2 DEF KickI, HasWork
      <4>2. ASSUME NEW u \in Threads, th[u].pc = "sched"
            PROVE  HasWork' \/ th'[u].pc = "sched"
        BY <1>2, <4>2 DEF ThreadStep
      <4> QED
        BY <4>1, <4>2 DEF ThreadStep
    <3> QED
      BY <3>1, <3>2 DEF ThreadStep
  <2> QED
    BY <2>4, <2>5 DEF KickI, HasWork
<1> QED
  BY <1>3, <1>4, <1>5, <1>6, <1>7, <1>8 DEF IInv

\* The program counter alone moves.
PcStep(t, x) ==
    /\ th' = [th EXCEPT ![t].pc = x] /\ x \in ThreadPc
    /\ x \in {"idle", "got", "lock", "room", "fail"} => th[t].n = 0
    /\ th[t].pc # "enq" /\ x # "enq"
    /\ UNCHANGED <<ring, drawq_lock, queued_ts, eop, gpu, sent, wk, life>>
    /\ kref' \in Int /\ dispatch' \in BOOLEAN
    /\ count' \in Nat /\ works' \in Seq({"work", "flush"})
    /\ count' = count \/ (count' = count + 1 /\ x = "sched")
    /\ th[t].pc = "inc" => count' > 0
    /\ th[t].pc = "sched" => HasWork'
    /\ HasWork => HasWork'

LEMMA PcStepKeeps ==
    ASSUME IInv, NEW t \in Threads, NEW x, PcStep(t, x)
    PROVE  IInv'
<1>1. TypeI /\ ThreadI
  BY DEF IInv
<1>2. /\ th'[t] \in ThreadT /\ th' = [th EXCEPT ![t] = th'[t]]
      /\ th'[t].pc = x /\ th'[t].objs = th[t].objs
      /\ th'[t].n = th[t].n /\ th'[t].ts = th[t].ts
  BY <1>1, SetPc DEF PcStep
<1>3. PICK r : r = th'[t]
  OBVIOUS
<1>4. Batch(r.objs) /\ r.n <= Len(r.objs)
  BY <1>1, <1>2, <1>3 DEF ThreadI
<1>5. ThreadStep(t, r)
  BY <1>2, <1>3, <1>4 DEF PcStep, ThreadStep
<1> QED
  BY <1>5, ThreadStepKeeps

LEMMA SubmitBeginKeeps ==
    ASSUME IInv, NEW t \in Threads, SubmitBegin(t)
    PROVE  IInv'
<1>1. TypeI /\ ThreadI
  BY DEF IInv
<1>2. th[t].n = 0
  BY <1>1 DEF ThreadI, SubmitBegin
<1>3. PcStep(t, "got")
  BY <1>1, <1>2 DEF PcStep, SubmitBegin, TypeI, ThreadPc, ring, disp, life, HasWork
<1> QED
  BY <1>3, PcStepKeeps

LEMMA SubmitCreateFailsKeeps ==
    ASSUME IInv, NEW t \in Threads, SubmitCreateFails(t)
    PROVE  IInv'
<1>1. TypeI /\ ThreadI
  BY DEF IInv
<1>2. PcStep(t, "put")
  BY <1>1 DEF PcStep, SubmitCreateFails, TypeI, ThreadPc, ring, disp, life, HasWork
<1> QED
  BY <1>2, PcStepKeeps

LEMMA SubmitCreateKeeps ==
    ASSUME IInv, NEW t \in Threads, NEW b \in Batches, NEW u \in UserTs, NEW p \in BOOLEAN,
           SubmitCreate(t, b, u, p)
    PROVE  IInv'
<1>1. TypeI /\ ThreadI
  BY DEF IInv
<1>2. b \in Seq(Kinds) /\ Len(b) \in Nat /\ DOMAIN b = 1 .. Len(b)
  BY DrawQueueAssumption
<1>3. PICK os : os = [i \in DOMAIN b |-> NewObj(b[i], p)]
  OBVIOUS
<1>4. \A i \in 1 .. Len(b) : b[i] \in Kinds /\ NewObj(b[i], p) \in DrawObj /\ NewObj(b[i], p).kind = b[i]
  <2>1. \A i \in 1 .. Len(b) : b[i] \in Kinds
    BY <1>2
  <2> QED
    BY <2>1, Zeros DEF NewObj, DrawObj
<1>5. os \in Seq(DrawObj) /\ Len(os) = Len(b) /\ \A i \in 1 .. Len(b) : os[i].kind = b[i]
  <2>1. os = [i \in 1 .. Len(b) |-> NewObj(b[i], p)]
    BY <1>2, <1>3
  <2>2. os \in [1 .. Len(b) -> DrawObj]
    BY <1>4, <2>1
  <2>3. os \in Seq(DrawObj)
    BY <1>2, <2>2
  <2>4. DOMAIN os = 1 .. Len(b)
    BY <2>1
  <2>5. Len(os) = Len(b)
    BY <1>2, <2>3, <2>4
  <2> QED
    BY <1>4, <2>1, <2>3, <2>5
<1>6. Batch(os)
  <2>1. \A i \in 1 .. (Len(b) - 1) : b[i] \in {"sync", "timeline"}
    BY DrawQueueAssumption
  <2>2. \A i \in 1 .. (Len(b) - 1) : i \in 1 .. Len(b)
    BY <1>2
  <2>3. \A i \in 1 .. (Len(b) - 1) : os[i].kind \in {"sync", "timeline"}
    BY <1>5, <2>1, <2>2
  <2> QED
    BY <1>4, <1>5, <2>3 DEF Batch
<1>7. PICK r : r = [pc |-> "lock", n |-> 0, ts |-> u, objs |-> os]
  OBVIOUS
<1>8. r.pc = "lock" /\ r.n = 0 /\ r.objs = os /\ r \in ThreadT
  <2>1. u \in Ts
    BY Zeros DEF UserTs
  <2> QED
    BY <1>5, <1>7, <2>1 DEF ThreadT, ThreadPc
<1>9. th' = [th EXCEPT ![t] = r]
  BY <1>3, <1>7 DEF SubmitCreate
<1>10. kref' \in Int /\ th[t].pc = "got" /\ dispatch' \in BOOLEAN
  BY <1>1, <1>2 DEF SubmitCreate, TypeI
<1>11. r.n <= Len(r.objs)
  BY <1>2, <1>5, <1>8
<1>12. ThreadStep(t, r)
  <2>1. UNCHANGED <<ring, drawq_lock, queued_ts, eop, gpu, disp, life>>
    BY DEF SubmitCreate
  <2>2. count' = count /\ works' = works /\ count \in Nat /\ works \in Seq({"work", "flush"})
    BY <1>1, <2>1 DEF TypeI, disp
  <2> QED
    BY <1>6, <1>8, <1>9, <1>10, <1>11, <2>1, <2>2 DEF ThreadStep, disp, HasWork
<1> QED
  BY <1>12, ThreadStepKeeps

LEMMA KickCountKeeps ==
    ASSUME IInv, NEW t \in Threads, KickCount(t)
    PROVE  IInv'
<1>1. TypeI /\ ThreadI
  BY DEF IInv
<1>2. PcStep(t, "sched")
  BY <1>1 DEF PcStep, KickCount, TypeI, ThreadPc, ring, life, HasWork
<1> QED
  BY <1>2, PcStepKeeps

LEMMA KickScheduleKeeps ==
    ASSUME IInv, NEW t \in Threads, KickSchedule(t)
    PROVE  IInv'
<1>1. TypeI /\ ThreadI
  BY DEF IInv
<1>2. works' \in Seq({"work", "flush"}) /\ HasWork'
  <2>1. works' = kthread_queue_work("work")
    BY DEF KickSchedule
  <2> QED
    BY <1>1, <2>1, QueueWork DEF TypeI, HasWork
<1>3. PcStep(t, "put")
  BY <1>1, <1>2 DEF PcStep, KickSchedule, TypeI, ThreadPc, ring, life
<1> QED
  BY <1>3, PcStepKeeps

LEMMA SubmitEndKeeps ==
    ASSUME IInv, NEW t \in Threads, SubmitEnd(t)
    PROVE  IInv'
<1>1. TypeI /\ ThreadI
  BY DEF IInv
<1>2. PICK r : r = IdleThread
  OBVIOUS
<1>3. /\ r \in ThreadT /\ r.pc = "idle" /\ r.n = 0 /\ Len(r.objs) = 0
      /\ Batch(r.objs) /\ r.n <= Len(r.objs)
  BY <1>2, Zeros DEF IdleThread, ThreadT, ThreadPc, Batch
<1>4. kref' \in Int
  <2>1. th[t] \in ThreadT
    BY <1>1 DEF TypeI
  <2>2. Len(th[t].objs) \in Nat /\ kref \in Int
    BY <1>1, <2>1 DEF TypeI, ThreadT
  <2> QED
    BY <2>2 DEF SubmitEnd
<1>5. ThreadStep(t, r)
  BY <1>1, <1>2, <1>3, <1>4 DEF ThreadStep, SubmitEnd, TypeI, ring, disp, life, HasWork
<1> QED
  BY <1>5, ThreadStepKeeps

-----------------------------------------------------------------------------
(* The critical section of hgsl_dispatch_queue_cmds.                       *)

\* A thread that enters, leaves or queues an object does not lose a kick.
LEMMA KickThread ==
    ASSUME KickI, UNCHANGED <<count, works, wk, dpc>>, NEW t \in Threads,
           \A u \in Threads : u # t => th'[u] = th[u],
           th[t].pc \notin {"inc", "sched"},
           \/ Occupied' = {}
           \/ th'[t].pc = "inc"
           \/ th'[t].pc = "enq" /\ th'[t].n > 0
           \/ Occupied' = Occupied /\ th[t].pc # "enq"
    PROVE  KickI'
<1>1. ASSUME count' > 0
      PROVE  HasWork' \/ wk'.pc = "xchg" \/ \E u \in Threads : th'[u].pc = "sched"
  <2>1. HasWork \/ wk.pc = "xchg" \/ \E u \in Threads : th[u].pc = "sched"
    BY <1>1 DEF KickI, HasWork
  <2>2. ASSUME NEW u \in Threads, th[u].pc = "sched" PROVE th'[u].pc = "sched"
    BY <2>2
  <2> QED
    BY <2>1, <2>2 DEF HasWork
<1>2. Kicked => Kicked'
  <2>1. ASSUME NEW u \in Threads, th[u].pc = "inc" PROVE th'[u].pc = "inc"
    BY <2>1
  <2> QED
    BY <2>1 DEF Kicked
<1>3. ASSUME Occupied' # {}, dpc' = "none"
      PROVE  Kicked' \/ \E u \in Threads : th'[u].pc = "enq" /\ th'[u].n > 0
  <2>1. CASE th'[t].pc = "inc"
    BY <2>1 DEF Kicked
  <2>2. CASE th'[t].pc = "enq" /\ th'[t].n > 0
    BY <2>2
  <2>3. CASE Occupied' = Occupied /\ th[t].pc # "enq"
    <3>1. ASSUME NEW u \in Threads, th[u].pc = "enq", th[u].n > 0
          PROVE  th'[u].pc = "enq" /\ th'[u].n > 0
      BY <2>3, <3>1
    <3> QED
      BY <1>2, <1>3, <2>3, <3>1 DEF KickI
  <2> QED
    BY <1>3, <2>1, <2>2, <2>3
<1> QED
  BY <1>1, <1>3 DEF KickI, HasWork

LEMMA EnterKeeps ==
    ASSUME IInv, NEW t \in Threads, th[t].pc = "lock", drawq_lock = "free", ~in_destroy,
           queued + Len(th[t].objs) <= QSize - 2,
           ~ClientTsStale(th[t].objs, th[t].ts),
           th' = [th EXCEPT ![t].pc = "enq"], drawq_lock' = t,
           UNCHANGED <<ring, queued_ts, eop, gpu, dispatch, disp, kref, life>>
    PROVE  IInv'
<1>1. TypeI /\ LockI /\ WorkerI /\ ThreadI /\ RingI /\ KickI
  BY DEF IInv
<1>2. /\ th'[t] \in ThreadT /\ th' = [th EXCEPT ![t] = th'[t]]
      /\ th'[t].pc = "enq" /\ th'[t].objs = th[t].objs
      /\ th'[t].n = th[t].n /\ th'[t].ts = th[t].ts
  BY <1>1, SetPc DEF ThreadPc
<1>3. th' \in [Threads -> ThreadT] /\ \A u \in Threads : u # t => th'[u] = th[u]
  BY <1>1, <1>2, OneThread
<1>4. TypeI'
  BY <1>1, <1>3 DEF TypeI, ring, disp, life
<1>5. \A u \in Threads : th[u].pc # "enq"
  BY <1>1, DrawQueueAssumption DEF LockI
<1>6. LockI'
  <2>1. wk'.pc = "scan" <=> drawq_lock' = "worker"
    BY <1>1, DrawQueueAssumption DEF LockI, disp
  <2>2. \A u \in Threads : th'[u].pc = "enq" <=> drawq_lock' = u
    BY <1>2, <1>3, <1>5
  <2> QED
    BY <2>1, <2>2 DEF LockI
<1>7. WorkerI'
  BY <1>1 DEF WorkerI, Holds, disp
<1>8. th[t].n = 0 /\ th[t] \in ThreadT
  BY <1>1 DEF ThreadI, TypeI
<1>9. Fresh(th'[t], queued_ts')
  <2> SUFFICES ASSUME TsMode = "client", th'[t].n < Len(th'[t].objs),
                      HasTs(th'[t].objs[Len(th'[t].objs)])
               PROVE  ~hgsl_ts32_ge(queued_ts', th'[t].ts)
    BY DEF Fresh
  <2>1. ~(Len(th[t].objs) = 1 /\ th[t].objs[1].kind = "sync")
    BY <1>2 DEF HasTs
  <2> QED
    BY <1>2, <2>1 DEF ClientTsStale
<1>10. ThreadI'
  <2> SUFFICES ASSUME NEW u \in Threads
               PROVE  /\ Batch(th'[u].objs)
                      /\ th'[u].n <= Len(th'[u].objs)
                      /\ th'[u].pc \in {"idle", "got", "lock", "room", "fail"} => th'[u].n = 0
                      /\ th'[u].pc = "enq" => Fresh(th'[u], queued_ts')
    BY DEF ThreadI
  <2>1. CASE u = t
    BY <1>1, <1>2, <1>8, <1>9, <2>1 DEF ThreadI
  <2>2. CASE u # t
    BY <1>1, <1>3, <1>5, <2>2 DEF ThreadI
  <2> QED
    BY <2>1, <2>2
<1>11. /\ Occupied' = Occupied /\ Used' = Used /\ (Early' <=> Early) /\ InQueue' = InQueue
       /\ queued' = queued /\ drawq' = drawq /\ in_destroy' = in_destroy /\ dpc' = dpc
  BY DEF Occupied, Used, Early, InQueue, ring, life, disp
<1>12. RingI'
  <2>1. \A u \in Threads : th'[u].pc = "enq" =>
            Early' /\ queued' + Len(th'[u].objs) - th'[u].n <= QSize - 2
    <3>1. Early
      BY <1>1 DEF RingI, Early
    <3>2. queued \in Int /\ Len(th[t].objs) \in Nat
      BY <1>1, <1>8 DEF TypeI, ThreadT
    <3>3. queued' + Len(th'[t].objs) - th'[t].n <= QSize - 2
      BY <1>2, <1>8, <1>11, <3>2, SizeFacts
    <3> QED
      BY <1>3, <1>5, <1>11, <3>1, <3>3
  <2> QED
    BY <1>1, <1>11, <2>1 DEF RingI
<1>13. KickI'
  BY <1>1, <1>3, <1>11, KickThread DEF disp
<1> QED
  BY <1>4, <1>6, <1>7, <1>10, <1>12, <1>13 DEF IInv

LEMMA QueueEnterKeeps ==
    ASSUME IInv, NEW t \in Threads, QueueEnter(t)
    PROVE  IInv'
<1>1. TypeI /\ ThreadI
  BY DEF IInv
<1>2. th[t].pc = "lock" /\ th[t].n = 0 /\ drawq_lock = "free"
  BY <1>1 DEF ThreadI, QueueEnter
<1>3. UNCHANGED <<ring, queued_ts, eop, gpu, dispatch, disp, kref, life>>
  BY DEF QueueEnter
<1>4. ASSUME NEW x \in {"fail", "room"}, th' = [th EXCEPT ![t].pc = x], UNCHANGED drawq_lock
      PROVE  IInv'
  <2>1. PcStep(t, x)
    BY <1>1, <1>2, <1>3, <1>4 DEF PcStep, TypeI, ThreadPc, disp, HasWork
  <2> QED
    BY <2>1, PcStepKeeps
<1>5. CASE th' = [th EXCEPT ![t].pc = "fail"] /\ UNCHANGED drawq_lock
  BY <1>4, <1>5
<1>6. CASE th' = [th EXCEPT ![t].pc = "room"] /\ UNCHANGED drawq_lock
  BY <1>4, <1>6
<1>7. CASE /\ ~in_destroy /\ ~(queued + Len(th[t].objs) > QSize - 1 - 1)
           /\ ~ClientTsStale(th[t].objs, th[t].ts)
           /\ th' = [th EXCEPT ![t].pc = "enq"] /\ drawq_lock' = t
  <2>1. th[t] \in ThreadT
    BY <1>1 DEF TypeI
  <2>2. queued \in Int /\ Len(th[t].objs) \in Nat
    BY <1>1, <2>1 DEF TypeI, ThreadT
  <2>3. queued + Len(th[t].objs) <= QSize - 2
    BY <1>7, <2>2, SizeFacts
  <2> QED
    BY <1>2, <1>3, <1>7, <2>3, EnterKeeps
<1> QED
  BY <1>5, <1>6, <1>7 DEF QueueEnter, GoOnQueueing, _context_drawqueue_size

\* Without a timeout no thread comes back from its sleep to queue.
LEMMA RoomWaitedKeeps ==
    ASSUME IInv, ~Timeouts, NEW t \in Threads, NEW ret, RoomWaited(t, ret)
    PROVE  IInv'
<1>1. TypeI /\ ThreadI
  BY DEF IInv
<1>2. th[t].pc = "room" /\ th[t].n = 0
  BY <1>1 DEF ThreadI, RoomWaited
<1>3. ret # "zero"
  BY DEF RoomWaited, WaitReturns
<1>4. PcStep(t, "fail")
  BY <1>1, <1>2, <1>3 DEF PcStep, RoomWaited, TypeI, ThreadPc, ring, disp, life, HasWork
<1> QED
  BY <1>4, PcStepKeeps

\* The object a thread is about to queue; only the last of a batch is timed, and
\* its timestamp was checked when the thread entered.
LEMMA CurObjIs ==
    ASSUME IInv, NEW t \in Threads, th[t].pc = "enq", th[t].n < Len(th[t].objs)
    PROVE  /\ CurObj(t) \in DrawObj /\ CurObj(t).kind \in Kinds
           /\ HasTs(CurObj(t)) => NextTsOk(t) /\ th[t].n + 1 = Len(th[t].objs)
<1>1. TypeI /\ ThreadI
  BY DEF IInv
<1>2. PICK r \in ThreadT : r = th[t]
  BY <1>1 DEF TypeI
<1>3. r.objs \in Seq(DrawObj) /\ r.n \in Nat /\ Len(r.objs) \in Nat /\ r.n < Len(r.objs)
  BY <1>2 DEF ThreadT
<1>4. PICK k \in 1 .. Len(r.objs) : k = r.n + 1
  BY <1>3
<1>5. CurObj(t) = r.objs[k] /\ r.objs[k] \in DrawObj
  BY <1>2, <1>3, <1>4 DEF CurObj
<1>6. Batch(r.objs) /\ Fresh(r, queued_ts)
  BY <1>1, <1>2 DEF ThreadI
<1>7. r.objs[k].kind \in Kinds
  BY <1>6 DEF Batch
<1>8. ASSUME HasTs(r.objs[k])
      PROVE  k = Len(r.objs) /\ (TsMode = "client" => ~hgsl_ts32_ge(queued_ts, r.ts))
  <2>1. k \notin 1 .. (Len(r.objs) - 1)
    BY <1>6, <1>8 DEF Batch, HasTs
  <2>2. k = Len(r.objs)
    BY <1>3, <2>1
  <2> QED
    BY <1>3, <1>6, <1>8, <2>2 DEF Fresh
<1> QED
  BY <1>2, <1>4, <1>5, <1>7, <1>8 DEF NextTsOk, hgsl_db_next_timestamp_ok

LEMMA NextTsIs ==
    ASSUME TypeI, NEW t \in Threads
    PROVE  NextTs(t) \in Ts
<1>1. queued_ts \in Ts /\ th[t].ts \in Ts
  BY DEF TypeI, ThreadT
<1>2. DriverTs(queued_ts) \in Ts
  BY <1>1, HalfAssumption DEF DriverTs, Ts, TsMod, UINT_MAX
<1> QED
  BY <1>1, <1>2 DEF NextTs, hgsl_db_next_timestamp

LEMMA PushKeeps ==
    ASSUME IInv, NEW t \in Threads, th[t].pc = "enq", th[t].n < Len(th[t].objs),
           NEW o \in DrawObj, o.kind # "none",
           NEW q \in [Slots -> DrawObj], \A i \in Slots : q[i].kind = drawq[i].kind,
           _queue_drawobj(t, o, q),
           queued_ts' \in Ts, queued_ts' = queued_ts \/ th[t].n + 1 = Len(th[t].objs),
           UNCHANGED <<drawq_lock, eop, gpu, dispatch, disp, kref, life>>
    PROVE  IInv'
<1>1. TypeI /\ LockI /\ WorkerI /\ ThreadI /\ RingI /\ KickI
  BY DEF IInv
<1>2. PICK r \in ThreadT : r = th[t]
  BY <1>1 DEF TypeI
<1>3. /\ r.objs \in Seq(DrawObj) /\ r.n \in Nat /\ Len(r.objs) \in Nat /\ r.n < Len(r.objs)
      /\ r.pc = "enq" /\ r.ts \in Ts
  BY <1>2 DEF ThreadT
<1>4. PICK s : s = [r EXCEPT !.n = @ + 1]
  OBVIOUS
<1>5. /\ s \in ThreadT /\ s.pc = "enq" /\ s.objs = r.objs /\ s.n = r.n + 1 /\ s.ts = r.ts
  BY <1>3, <1>4 DEF ThreadT
<1>6. th' = [th EXCEPT ![t] = s]
  BY <1>1, <1>2, <1>4 DEF _queue_drawobj, TypeI
<1>7. /\ th' \in [Threads -> ThreadT] /\ th'[t] = s
      /\ \A u \in Threads : u # t => th'[u] = th[u]
  BY <1>1, <1>5, <1>6, OneThread
<1>8. drawq_lock = t /\ \A u \in Threads : u # t => th[u].pc # "enq"
  BY <1>1 DEF LockI
<1>9. queued \in Int /\ Early /\ queued + Len(r.objs) - r.n <= QSize - 2 /\ Used = queued
  BY <1>1, <1>2 DEF RingI, TypeI
<1>10. /\ drawq_tail \notin Occupied /\ Occupied' = Occupied \cup {drawq_tail}
       /\ Used' = Used + 1 /\ drawq_tail' \in Slots
  <2>1. Used < QSize - 1
    BY <1>3, <1>9, SizeFacts
  <2> QED
    BY <1>1, <2>1, RingPush DEF TypeI, _queue_drawobj
<1>11. /\ drawq' \in [Slots -> DrawObj] /\ drawq'[drawq_tail] = o
       /\ \A i \in Slots : i # drawq_tail => drawq'[i] = q[i]
  BY <1>1 DEF _queue_drawobj, TypeI
<1>12. queued' = queued + 1 /\ drawq_head' = drawq_head
  BY DEF _queue_drawobj
<1>13. TypeI'
  <2>1. drawq_head' \in Slots /\ queued' \in Int
    BY <1>1, <1>9, <1>12 DEF TypeI
  <2> QED
    BY <1>1, <1>7, <1>10, <1>11, <2>1 DEF TypeI, disp, life
<1>14. LockI'
  BY <1>1, <1>5, <1>7, <1>8 DEF LockI, disp
<1>15. WorkerI'
  BY <1>1 DEF WorkerI, Holds, disp
<1>16. ThreadI'
  <2> SUFFICES ASSUME NEW u \in Threads
               PROVE  /\ Batch(th'[u].objs)
                      /\ th'[u].n <= Len(th'[u].objs)
                      /\ th'[u].pc \in {"idle", "got", "lock", "room", "fail"} => th'[u].n = 0
                      /\ th'[u].pc = "enq" => Fresh(th'[u], queued_ts')
    BY DEF ThreadI
  <2>1. CASE u = t
    <3>1. Batch(r.objs) /\ Fresh(r, queued_ts)
      BY <1>1, <1>2, <1>3 DEF ThreadI
    <3>2. Fresh(s, queued_ts')
      <4>1. CASE s.n < Len(s.objs)
        <5>1. queued_ts' = queued_ts
          BY <1>2, <1>3, <1>5, <4>1
        <5> QED
          BY <1>3, <1>5, <3>1, <5>1 DEF Fresh
      <4>2. CASE ~(s.n < Len(s.objs))
        BY <4>2 DEF Fresh
      <4> QED
        BY <4>1, <4>2
    <3>3. s.n <= Len(s.objs)
      BY <1>3, <1>5
    <3> QED
      BY <1>5, <1>7, <2>1, <3>1, <3>2, <3>3
  <2>2. CASE u # t
    BY <1>1, <1>7, <1>8, <2>2 DEF ThreadI
  <2> QED
    BY <2>1, <2>2
<1>17. RingI'
  <2>1. Cardinality(Occupied') = Used'
    <3>1. Occupied \in SUBSET Slots /\ drawq_tail \in Slots
      BY <1>1 DEF Occupied, TypeI
    <3>2. Cardinality(Occupied \cup {drawq_tail}) = Cardinality(Occupied) + 1
      BY <1>10, <3>1, SlotCount
    <3> QED
      BY <1>1, <1>10, <3>2 DEF RingI
  <2>2. Used' = queued' /\ Used' <= queued'
    BY <1>9, <1>10, <1>12
  <2>3. InQueue' <= QSize - 1
    <3>1. InQueue' \in {queued' + 1, queued' + 0}
      BY DEF InQueue
    <3> QED
      BY <1>3, <1>9, <1>12, <3>1, SizeFacts
  <2>4. \A i \in Occupied' : drawq'[i].kind # "none"
    <3>1. Occupied \subseteq Slots
      BY DEF Occupied
    <3>2. ASSUME NEW i \in Occupied PROVE drawq'[i].kind # "none"
      <4>1. i \in Slots /\ i # drawq_tail
        BY <1>10, <3>1
      <4>2. drawq'[i].kind = drawq[i].kind
        BY <1>11, <4>1
      <4> QED
        BY <1>1, <4>2 DEF RingI
    <3> QED
      BY <1>10, <1>11, <3>2
  <2>5. \A u \in Threads : th'[u].pc = "enq" =>
            Early' /\ queued' + Len(th'[u].objs) - th'[u].n <= QSize - 2
    <3>1. Early'
      BY <1>9 DEF Early, life
    <3>2. queued' + Len(s.objs) - s.n <= QSize - 2
      BY <1>3, <1>5, <1>9, <1>12, SizeFacts
    <3> QED
      BY <1>7, <1>8, <3>1, <3>2
  <2>6. in_destroy' <=> dpc' \notin {"none", "removed"}
    BY <1>1 DEF RingI, life
  <2> QED
    BY <2>1, <2>2, <2>3, <2>4, <2>5, <2>6 DEF RingI
<1>18. KickI'
  <2>1. th'[t].pc = "enq" /\ th'[t].n > 0
    BY <1>3, <1>5, <1>7
  <2>2. UNCHANGED <<count, works, wk, dpc>>
    BY DEF disp, life
  <2> QED
    BY <1>1, <1>7, <2>1, <2>2, KickThread
<1> QED
  BY <1>13, <1>14, <1>15, <1>16, <1>17, <1>18 DEF IInv

\* Out of the critical section: leaving it, or a marker on the fast path.
LEMMA LeaveKeeps ==
    ASSUME IInv, NEW t \in Threads, th[t].pc = "enq", NEW x \in {"inc", "put"},
           th' = [th EXCEPT ![t].pc = x], drawq_lock' = "free",
           x = "put" => queued = 0,
           queued_ts' \in Ts, eop' \in Ts, kref' \in Int,
           UNCHANGED <<ring, gpu, dispatch, disp, life>>
    PROVE  IInv'
<1>1. TypeI /\ LockI /\ WorkerI /\ ThreadI /\ RingI /\ KickI
  BY DEF IInv
<1>2. /\ th'[t] \in ThreadT /\ th' = [th EXCEPT ![t] = th'[t]]
      /\ th'[t].pc = x /\ th'[t].objs = th[t].objs
      /\ th'[t].n = th[t].n /\ th'[t].ts = th[t].ts
  BY <1>1, SetPc DEF ThreadPc
<1>3. th' \in [Threads -> ThreadT] /\ \A u \in Threads : u # t => th'[u] = th[u]
  BY <1>1, <1>2, OneThread
<1>4. TypeI'
  BY <1>1, <1>3 DEF TypeI, ring, disp, life
<1>5. \A u \in Threads : th'[u].pc # "enq"
  BY <1>1, <1>2, <1>3 DEF LockI
<1>6. LockI'
  <2>1. drawq_lock = t /\ wk.pc # "scan"
    BY <1>1, DrawQueueAssumption DEF LockI
  <2> QED
    BY <1>5, <2>1, DrawQueueAssumption DEF LockI, disp
<1>7. WorkerI'
  BY <1>1 DEF WorkerI, Holds, disp
<1>8. ThreadI'
  <2> SUFFICES ASSUME NEW u \in Threads
               PROVE  /\ Batch(th'[u].objs)
                      /\ th'[u].n <= Len(th'[u].objs)
                      /\ th'[u].pc \in {"idle", "got", "lock", "room", "fail"} => th'[u].n = 0
                      /\ th'[u].pc = "enq" => Fresh(th'[u], queued_ts')
    BY DEF ThreadI
  <2>1. CASE u = t
    BY <1>1, <1>2, <1>5, <2>1 DEF ThreadI
  <2>2. CASE u # t
    BY <1>1, <1>3, <1>5, <2>2 DEF ThreadI
  <2> QED
    BY <2>1, <2>2
<1>9. RingI' /\ Occupied' = Occupied
  <2>1. /\ UNCHANGED <<drawq_head, drawq_tail, queued>>
        /\ \A i \in Slots : drawq'[i].kind = drawq[i].kind
        /\ Holds' = Holds /\ (Early' <=> Early)
        /\ in_destroy' <=> dpc' \notin {"none", "removed"}
    BY <1>1 DEF ring, disp, life, Holds, Early, RingI
  <2> QED
    BY <1>1, <1>5, <2>1, RingSame
<1>10. KickI'
  <2>1. x = "put" => Occupied' = {}
    <3>1. ASSUME queued = 0 PROVE Occupied = {}
      <4>1. Used = 0
        BY <1>1, <3>1, OccupiedIs DEF RingI, TypeI
      <4>2. Cardinality(Occupied) = 0 /\ Occupied \in SUBSET Slots
        BY <1>1, <4>1 DEF RingI, Occupied
      <4> QED
        BY <4>2, SlotCount
    <3> QED
      BY <1>9, <3>1
  <2>2. UNCHANGED <<count, works, wk, dpc>>
    BY DEF disp, life
  <2> QED
    BY <1>1, <1>2, <1>3, <2>1, <2>2, KickThread
<1> QED
  BY <1>4, <1>6, <1>7, <1>8, <1>9, <1>10 DEF IInv

LEMMA QueueLeaveKeeps ==
    ASSUME IInv, NEW t \in Threads, QueueLeave(t)
    PROVE  IInv'
<1>1. TypeI
  BY DEF IInv
<1>2. queued_ts' \in Ts /\ eop' \in Ts /\ kref' \in Int
  BY <1>1 DEF QueueLeave, TypeI
<1> QED
  BY <1>2, LeaveKeeps DEF QueueLeave

LEMMA QueueCmdKeeps ==
    ASSUME IInv, NEW t \in Threads, _queue_cmdobj(t)
    PROVE  IInv'
<1>1. TypeI
  BY DEF IInv
<1>2. th[t].pc = "enq" /\ th[t].n < Len(th[t].objs) /\ CurObj(t).kind = "cmd"
  BY DEF _queue_cmdobj, Enqueuing
<1>3. CurObj(t) \in DrawObj /\ NextTsOk(t) /\ th[t].n + 1 = Len(th[t].objs)
  BY <1>2, CurObjIs DEF HasTs
<1>4. PICK o : o = [CurObj(t) EXCEPT !.ts = NextTs(t)]
  OBVIOUS
<1>5. o \in DrawObj /\ o.kind # "none"
  <2>1. PICK c \in DrawObj : c = CurObj(t)
    BY <1>3
  <2>2. PICK ts \in Ts : ts = NextTs(t)
    BY <1>1, NextTsIs
  <2> QED
    BY <1>2, <1>4, <2>1, <2>2 DEF DrawObj
<1>6. PICK q : q = SkipMarkers
  OBVIOUS
<1>7. q \in [Slots -> DrawObj] /\ \A i \in Slots : q[i].kind = drawq[i].kind
  <2>1. \A i \in Slots : drawq[i] \in DrawObj
    BY <1>1 DEF TypeI
  <2>2. \A d \in DrawObj : /\ [d EXCEPT !.skip = TRUE] \in DrawObj
                           /\ [d EXCEPT !.skip = TRUE].kind = d.kind
    BY DEF DrawObj
  <2>3. \A i \in Slots : /\ [drawq[i] EXCEPT !.skip = TRUE] \in DrawObj
                         /\ [drawq[i] EXCEPT !.skip = TRUE].kind = drawq[i].kind
    BY <2>1, <2>2
  <2> QED
    BY <1>6, <2>1, <2>3 DEF SkipMarkers
<1>8. _queue_drawobj(t, o, q) /\ queued_ts' = NextTs(t) /\ UNCHANGED <<drawq_lock, eop, kref>>
  BY <1>3, <1>4, <1>6 DEF _queue_cmdobj
<1>9. UNCHANGED <<drawq_lock, eop, gpu, dispatch, disp, kref, life>> /\ queued_ts' \in Ts
  BY <1>1, <1>8, NextTsIs DEF _queue_cmdobj
<1> QED
  BY <1>2, <1>3, <1>5, <1>7, <1>8, <1>9, PushKeeps

LEMMA QueueMarkerKeeps ==
    ASSUME IInv, NEW t \in Threads, _queue_markerobj(t)
    PROVE  IInv'
<1>1. TypeI
  BY DEF IInv
<1>2. th[t].pc = "enq" /\ th[t].n < Len(th[t].objs) /\ CurObj(t).kind \in {"marker", "bare"}
  BY DEF _queue_markerobj, Enqueuing
<1>3. CurObj(t) \in DrawObj /\ NextTsOk(t) /\ th[t].n + 1 = Len(th[t].objs)
  BY <1>2, CurObjIs DEF HasTs
<1>4. queued_ts' = NextTs(t) /\ NextTs(t) \in Ts /\ UNCHANGED <<gpu, dispatch, disp, life>>
  BY <1>1, <1>3, NextTsIs DEF _queue_markerobj
<1>5. CASE MarkerFast
  <2>1. /\ eop' = NextTs(t) /\ kref' = kref - 1 /\ th' = [th EXCEPT ![t].pc = "put"]
        /\ drawq_lock' = "free" /\ UNCHANGED ring
    BY <1>3, <1>5 DEF _queue_markerobj
  <2>2. queued = 0 /\ kref' \in Int
    BY <1>1, <1>5, <2>1 DEF MarkerFast, TypeI
  <2> QED
    BY <1>2, <1>4, <2>1, <2>2, LeaveKeeps
<1>6. CASE ~MarkerFast
  <2>1. PICK o : o = [CurObj(t) EXCEPT !.ts = NextTs(t), !.mts = queued_ts]
    OBVIOUS
  <2>2. o \in DrawObj /\ o.kind # "none"
    <3>1. PICK c \in DrawObj : c = CurObj(t)
      BY <1>3
    <3>2. PICK ts \in Ts : ts = NextTs(t)
      BY <1>4
    <3>3. queued_ts \in Ts
      BY <1>1 DEF TypeI
    <3> QED
      BY <1>2, <2>1, <3>1, <3>2, <3>3 DEF DrawObj
  <2>3. _queue_drawobj(t, o, drawq) /\ UNCHANGED <<eop, kref, drawq_lock>>
    BY <1>3, <1>6, <2>1 DEF _queue_markerobj
  <2>4. drawq \in [Slots -> DrawObj]
    BY <1>1 DEF TypeI
  <2> QED
    BY <1>2, <1>3, <1>4, <2>2, <2>3, <2>4, PushKeeps
<1> QED
  BY <1>5, <1>6

LEMMA QueueUntimedKeeps ==
    ASSUME IInv, NEW t \in Threads,
           _queue_syncobj(t) \/ _queue_timelineobj(t)
    PROVE  IInv'
<1>1. TypeI
  BY DEF IInv
<1>2. th[t].pc = "enq" /\ th[t].n < Len(th[t].objs) /\ CurObj(t).kind \in {"sync", "timeline"}
  BY DEF _queue_syncobj, _queue_timelineobj, Enqueuing
<1>3. CurObj(t) \in DrawObj
  BY <1>2, CurObjIs
<1>4. PICK o \in DrawObj : o = CurObj(t)
  BY <1>3
<1>5. o.kind # "none" /\ _queue_drawobj(t, o, drawq) /\ queued_ts' \in Ts /\ queued_ts' = queued_ts
  BY <1>1, <1>2, <1>4 DEF _queue_syncobj, _queue_timelineobj, TypeI
<1>6. drawq \in [Slots -> DrawObj]
  BY <1>1 DEF TypeI
<1>7. UNCHANGED <<drawq_lock, eop, gpu, dispatch, disp, kref, life>>
  BY DEF _queue_syncobj, _queue_timelineobj
<1> QED
  BY <1>2, <1>5, <1>6, <1>7, PushKeeps

-----------------------------------------------------------------------------
(* The dispatch kthread.                                                   *)

LEMMA RetiredCount ==
    ASSUME TypeI
    PROVE  Cardinality(RetiredOf(sent)) \in Nat /\ sent \ RetiredOf(sent) \subseteq Ts
<1>1. IsFiniteSet(Ts)
  BY FS_Interval, HalfAssumption DEF Ts, TsMod
<1>2. RetiredOf(sent) \subseteq Ts
  BY DEF RetiredOf, TypeI
<1>3. IsFiniteSet(RetiredOf(sent))
  BY <1>1, <1>2, FS_Subset
<1> QED
  BY <1>3, FS_CardinalityType DEF TypeI

\* A step of the dispatcher that leaves the ring alone and pops nothing.
WorkerStep ==
    /\ wk' \in WorkerT /\ WorkerI'
    /\ UNCHANGED <<ring, queued_ts, eop, dispatch, th, life>>
    /\ gpu' \in Seq(Ts) /\ sent' \subseteq Ts /\ count' \in Nat /\ kref' \in Int
    /\ works' \in Seq({"work", "flush"})
    /\ \/ drawq_lock' = drawq_lock /\ (wk'.pc = "scan" <=> wk.pc = "scan")
       \/ /\ drawq_lock \in {"free", "worker"} /\ drawq_lock' \in {"free", "worker"}
          /\ wk'.pc = "scan" <=> drawq_lock' = "worker"
    /\ Holds' => Holds
    /\ Kicked => Kicked' \/ Occupied = {}
    /\ \/ count' = 0 \/ HasWork' \/ wk'.pc = "xchg"
       \/ count' = count /\ works' = works /\ wk.pc # "xchg"

LEMMA WorkerStepKeeps ==
    ASSUME IInv, WorkerStep
    PROVE  IInv'
<1>1. TypeI /\ LockI /\ WorkerI /\ ThreadI /\ RingI /\ KickI
  BY DEF IInv
<1>2. th' = th /\ dpc' = dpc /\ in_destroy' = in_destroy /\ queued_ts' = queued_ts
  BY DEF WorkerStep, life
<1>3. LockI'
  BY <1>1, <1>2, DrawQueueAssumption DEF LockI, WorkerStep
<1>4. TypeI'
  <2>1. drawq_lock' \in {"free", "worker"} \cup Threads
    BY <1>1 DEF WorkerStep, TypeI
  <2> QED
    BY <1>1, <2>1 DEF TypeI, WorkerStep, ring, life
<1>5. ThreadI'
  BY <1>1, <1>2 DEF ThreadI
<1>6. RingI' /\ Occupied' = Occupied
  <2>1. /\ UNCHANGED <<drawq_head, drawq_tail, queued>>
        /\ \A i \in Slots : drawq'[i].kind = drawq[i].kind
        /\ Holds' => Holds
        /\ (Early' <=> Early)
        /\ in_destroy' <=> dpc' \notin {"none", "removed"}
    BY <1>1, <1>2 DEF WorkerStep, ring, Early, RingI
  <2> QED
    BY <1>1, <1>2, <2>1, RingSame
<1>7. KickI'
  <2>1. Occupied' # {} /\ dpc' = "none" =>
            Kicked' \/ \E u \in Threads : th'[u].pc = "enq" /\ th'[u].n > 0
    BY <1>1, <1>2, <1>6 DEF KickI, WorkerStep
  <2>2. ASSUME count' > 0
        PROVE  HasWork' \/ wk'.pc = "xchg" \/ \E u \in Threads : th'[u].pc = "sched"
    <3>1. CASE HasWork' \/ wk'.pc = "xchg"
      BY <3>1
    <3>2. CASE count' = count /\ works' = works /\ wk.pc # "xchg"
      BY <1>1, <1>2, <2>2, <3>2 DEF KickI, HasWork
    <3> QED
      BY <2>2, <3>1, <3>2 DEF WorkerStep
  <2> QED
    BY <2>1, <2>2 DEF KickI, HasWork
<1> QED
  BY <1>3, <1>4, <1>5, <1>6, <1>7 DEF IInv, WorkerStep

\* The fields of the dispatcher's record that a step moves.
LEMMA WorkerIs ==
    ASSUME TypeI
    PROVE  /\ wk \in WorkerT /\ wk.pc \in WorkerPc /\ wk.taken \in Nat
           /\ wk.obj \in DrawObj /\ wk.again \in BOOLEAN
           /\ IdleWorker \in WorkerT /\ IdleWorker.pc = "idle" /\ IdleWorker.taken = 0
           /\ IdleWorker.obj = NoObj
  BY Zeros DEF TypeI, WorkerT, IdleWorker, WorkerPc

LEMMA WorkStartKeeps ==
    ASSUME IInv, WorkStart
    PROVE  IInv'
<1>1. TypeI /\ WorkerI
  BY DEF IInv
<1>2. wk.pc = "idle" /\ wk' = [wk EXCEPT !.pc = "xchg"] /\ wk \in WorkerT
  BY <1>1 DEF WorkStart, TypeI
<1>3. wk' \in WorkerT /\ wk'.pc = "xchg" /\ wk'.obj = wk.obj /\ wk'.taken = wk.taken
  BY <1>2 DEF WorkerT, WorkerPc
<1>4. WorkerI'
  BY <1>1, <1>2, <1>3 DEF WorkerI, Holds
<1>5. Kicked => Kicked'
  BY <1>2 DEF Kicked, WorkStart
<1>6. works' \in Seq({"work", "flush"})
  BY <1>1 DEF WorkStart, TypeI
<1>7. kref' \in Int /\ sent' \subseteq Ts
  BY <1>1, RetiredCount DEF WorkStart, TypeI
<1>8. gpu' \in Seq(Ts) /\ count' \in Nat
  BY <1>1 DEF WorkStart, TypeI
<1>9. WorkerStep
  BY <1>2, <1>3, <1>4, <1>5, <1>6, <1>7, <1>8 DEF WorkerStep, WorkStart, Holds
<1> QED
  BY <1>9, WorkerStepKeeps

LEMMA WorkXchgKeeps ==
    ASSUME IInv, WorkXchg
    PROVE  IInv'
<1>1. TypeI /\ WorkerI
  BY DEF IInv
<1>2. wk.pc = "xchg" /\ wk.obj = NoObj /\ wk \in WorkerT /\ count \in Nat /\ count' = 0
  BY <1>1 DEF WorkXchg, TypeI, WorkerI, Holds
<1>3. /\ wk' \in WorkerT /\ wk'.obj = NoObj
      /\ count = 0 => wk'.pc = "idle" /\ wk'.taken = 0
      /\ count # 0 => wk'.pc = "send" /\ wk'.taken = count
  <2>1. CASE count = 0
    BY <1>1, <2>1, WorkerIs DEF WorkXchg
  <2>2. CASE count # 0
    <3>1. wk' = [wk EXCEPT !.pc = "send", !.taken = count]
      BY <2>2 DEF WorkXchg
    <3> QED
      BY <1>2, <2>2, <3>1 DEF WorkerT, WorkerPc
  <2> QED
    BY <2>1, <2>2
<1>4. WorkerI'
  BY <1>2, <1>3 DEF WorkerI, Holds
<1>5. Kicked => Kicked'
  BY <1>2, <1>3 DEF Kicked, WorkXchg
<1>6. WorkerStep
  BY <1>1, <1>2, <1>3, <1>4, <1>5 DEF WorkerStep, WorkXchg, Holds, TypeI
<1> QED
  BY <1>6, WorkerStepKeeps

LEMMA SendLockKeeps ==
    ASSUME IInv, SendLock
    PROVE  IInv'
<1>1. TypeI /\ WorkerI
  BY DEF IInv
<1>2. wk.pc = "send" /\ wk' = [wk EXCEPT !.pc = "scan"] /\ wk \in WorkerT
  BY <1>1 DEF SendLock, TypeI
<1>3. wk' \in WorkerT /\ wk'.pc = "scan" /\ wk'.obj = wk.obj /\ wk'.taken = wk.taken
  BY <1>2 DEF WorkerT, WorkerPc
<1>4. WorkerI'
  BY <1>1, <1>2, <1>3 DEF WorkerI, Holds
<1>5. Kicked'
  BY <1>3 DEF Kicked
<1>6. WorkerStep
  BY <1>1, <1>2, <1>3, <1>4, <1>5 DEF WorkerStep, SendLock, Holds, TypeI
<1> QED
  BY <1>6, WorkerStepKeeps

LEMMA ScanEndKeeps ==
    ASSUME IInv, ScanEnd
    PROVE  IInv'
<1>1. TypeI /\ WorkerI /\ LockI
  BY DEF IInv
<1>2. wk.pc = "scan" /\ wk \in WorkerT /\ drawq_lock = "worker" /\ drawq_lock' = "free"
  BY <1>1 DEF ScanEnd, TypeI, LockI
<1>3. /\ wk' \in WorkerT /\ wk'.pc = "done" /\ wk'.obj = wk.obj /\ wk'.taken = wk.taken
      /\ wk'.again \/ drawq_head = drawq_tail
  <2>1. CASE wk' = [wk EXCEPT !.pc = "done", !.again = TRUE]
    BY <1>2, <2>1 DEF WorkerT, WorkerPc
  <2>2. CASE drawq_head = drawq_tail /\ wk' = [wk EXCEPT !.pc = "done"]
    BY <1>2, <2>2 DEF WorkerT, WorkerPc
  <2> QED
    BY <2>1, <2>2 DEF ScanEnd
<1>4. WorkerI'
  BY <1>1, <1>2, <1>3 DEF WorkerI, Holds
<1>5. Kicked' \/ Occupied = {}
  <2>1. ASSUME drawq_head = drawq_tail PROVE Occupied = {}
    <3>1. drawq_head \in Slots /\ drawq_tail \in Slots
      BY <1>1 DEF TypeI
    <3>2. Dist(drawq_tail, drawq_head) = 0 /\ \A i \in Slots : Dist(i, drawq_head) >= 0
      BY <2>1, <3>1, SizeFacts DEF Dist
    <3>3. \A i \in Slots : Dist(i, drawq_head) \in Int
      BY <3>1, SizeFacts DEF Dist
    <3>4. Occupied = {i \in Slots : Dist(i, drawq_head) < Dist(drawq_tail, drawq_head)}
      BY <3>1, OccupiedIs
    <3> QED
      BY <3>2, <3>3, <3>4
  <2> QED
    BY <1>3, <2>1 DEF Kicked
<1>6. UNCHANGED <<ring, queued_ts, eop, gpu, dispatch, sent, count, works, th, kref, life>>
  BY DEF ScanEnd
<1>7. WorkerStep
  BY <1>1, <1>2, <1>3, <1>4, <1>5, <1>6 DEF WorkerStep, Holds, TypeI
<1> QED
  BY <1>7, WorkerStepKeeps

LEMMA SendKeeps ==
    ASSUME IInv, _sendcmd \/ _sendcmd_fails
    PROVE  IInv'
<1>1. TypeI /\ WorkerI
  BY DEF IInv
<1>2. wk.pc = "issue" /\ wk \in WorkerT /\ wk.taken > 0 /\ HasTs(wk.obj)
  BY <1>1 DEF _sendcmd, _sendcmd_fails, TypeI, WorkerI, Holds
<1>3. CASE _sendcmd
  <2>1. wk' = [wk EXCEPT !.pc = "send", !.obj = NoObj, !.again = TRUE]
    BY <1>3 DEF _sendcmd
  <2>2. wk' \in WorkerT /\ wk'.pc = "send" /\ wk'.obj = NoObj /\ wk'.taken = wk.taken
    BY <1>2, <2>1, Zeros DEF WorkerT, WorkerPc
  <2>3. WorkerI' /\ Kicked'
    BY <1>2, <2>2 DEF WorkerI, Holds, Kicked
  <2>4. PICK ts \in Ts : ts = wk.obj.ts
    BY <1>2 DEF WorkerT, DrawObj
  <2>5. gpu' \in Seq(Ts) /\ sent' \subseteq Ts
    BY <1>1, <1>3, <2>4 DEF _sendcmd, TypeI
  <2>6. WorkerStep
    BY <1>1, <1>2, <1>3, <2>2, <2>3, <2>5 DEF WorkerStep, _sendcmd, Holds, TypeI
  <2> QED
    BY <2>6, WorkerStepKeeps
<1>4. CASE _sendcmd_fails
  <2>1. wk' = [wk EXCEPT !.pc = "requeue"]
    BY <1>4 DEF _sendcmd_fails
  <2>2. wk' \in WorkerT /\ wk'.pc = "requeue" /\ wk'.obj = wk.obj /\ wk'.taken = wk.taken
    BY <1>2, <2>1 DEF WorkerT, WorkerPc
  <2>3. WorkerI' /\ Kicked'
    BY <1>2, <2>2 DEF WorkerI, Holds, Kicked
  <2>4. WorkerStep
    BY <1>1, <1>2, <1>4, <2>2, <2>3 DEF WorkerStep, _sendcmd_fails, Holds, TypeI
  <2> QED
    BY <2>4, WorkerStepKeeps
<1> QED
  BY <1>3, <1>4

LEMMA WorkEndKeeps ==
    ASSUME IInv, WorkEnd
    PROVE  IInv'
<1>1. TypeI /\ WorkerI
  BY DEF IInv
<1>2. wk.pc = "done" /\ wk' = IdleWorker /\ wk.taken \in Nat /\ kref \in Int /\ count \in Nat
  BY <1>1, WorkerIs DEF WorkEnd, TypeI
<1>3. wk' \in WorkerT /\ wk'.pc = "idle" /\ wk'.obj = NoObj /\ wk'.taken = 0
  BY <1>1, <1>2, WorkerIs
<1>4. WorkerI'
  BY <1>3 DEF WorkerI, Holds
<1>5. kref' \in Int
  BY <1>2 DEF WorkEnd
<1>6. CASE ~wk.again
  <2>1. count' = count /\ works' = works
    BY <1>6 DEF WorkEnd
  <2>2. Kicked => Kicked'
    BY <1>2, <1>6, <2>1 DEF Kicked, WorkEnd
  <2>3. WorkerStep
    BY <1>1, <1>2, <1>3, <1>4, <1>5, <2>1, <2>2 DEF WorkerStep, WorkEnd, Holds, TypeI
  <2> QED
    BY <2>3, WorkerStepKeeps
<1>7. CASE wk.again
  <2>1. count' = count + 1 /\ works' = kthread_queue_work("work")
    BY <1>7 DEF WorkEnd
  <2>2. works' \in Seq({"work", "flush"}) /\ HasWork'
    BY <1>1, <2>1, QueueWork DEF TypeI, HasWork
  <2>3. Kicked' /\ count' \in Nat
    BY <1>2, <2>1 DEF Kicked
  <2>4. WorkerStep
    BY <1>1, <1>2, <1>3, <1>4, <1>5, <2>2, <2>3 DEF WorkerStep, WorkEnd, Holds, TypeI
  <2> QED
    BY <2>4, WorkerStepKeeps
<1> QED
  BY <1>6, <1>7

\* The dispatcher takes the head of the ring, to retire it under the lock or to
\* issue it after the lock is dropped,
LEMMA PopKeeps ==
    ASSUME IInv, wk.pc = "scan", drawq_head # drawq_tail, _pop_drawobj,
           eop' \in Ts, kref' \in Int,
           UNCHANGED <<queued_ts, gpu, dispatch, sent, count, works, th, life>>,
           \/ wk' = wk /\ drawq_lock' = drawq_lock
           \/ /\ wk' \in WorkerT /\ wk'.pc = "issue" /\ wk'.taken = wk.taken
              /\ HasTs(wk'.obj) /\ drawq_lock' = "free"
    PROVE  IInv'
<1>1. TypeI /\ LockI /\ WorkerI /\ ThreadI /\ RingI /\ KickI
  BY DEF IInv
<1>2. drawq_lock = "worker" /\ \A u \in Threads : th[u].pc # "enq"
  BY <1>1, DrawQueueAssumption DEF LockI
<1>3. th' = th /\ dpc' = dpc /\ in_destroy' = in_destroy /\ queued_ts' = queued_ts
  BY DEF life
<1>4. wk' \in WorkerT /\ wk'.pc \in {"scan", "issue"}
  BY <1>1 DEF TypeI
<1>5. /\ drawq_head \in Occupied /\ Occupied' = Occupied \ {drawq_head}
      /\ Used' = Used - 1 /\ drawq_head' \in Slots
  BY <1>1, RingPop DEF TypeI, _pop_drawobj
<1>6. /\ drawq' \in [Slots -> DrawObj] /\ queued' = queued - 1 /\ queued \in Int
      /\ \A i \in Slots : i # drawq_head => drawq'[i] = drawq[i]
  BY <1>1, Zeros DEF TypeI, _pop_drawobj
<1>7. TypeI'
  <2>1. /\ queued' \in Int /\ drawq_tail' \in Slots
        /\ drawq_lock' \in {"free", "worker"} \cup Threads
    BY <1>1, <1>6 DEF TypeI, _pop_drawobj
  <2> QED
    BY <1>1, <1>3, <1>4, <1>5, <1>6, <2>1 DEF TypeI
<1>8. LockI'
  BY <1>2, <1>3, DrawQueueAssumption DEF LockI
<1>9. WorkerI'
  BY <1>1 DEF WorkerI, Holds
<1>10. ThreadI'
  BY <1>1, <1>3 DEF ThreadI
<1>11. RingI'
  <2>1. Cardinality(Occupied') = Used'
    <3>1. Occupied \in SUBSET Slots
      BY DEF Occupied
    <3>2. Cardinality(Occupied \ {drawq_head}) = Cardinality(Occupied) - 1
      BY <1>5, <3>1, SlotCount
    <3> QED
      BY <1>1, <1>5, <3>2 DEF RingI
  <2>2. Used' <= queued' /\ (Early' => Used' = queued')
    <3>1. Used \in Int /\ (Early' <=> Early)
      BY <1>1, <1>3, OccupiedIs DEF TypeI, Early
    <3> QED
      BY <1>1, <1>5, <1>6, <3>1 DEF RingI
  <2>3. InQueue' <= QSize - 1
    <3>1. InQueue' \in {queued' + 1, queued' + 0}
      BY DEF InQueue
    <3>2. InQueue = queued + 0
      BY DEF InQueue
    <3> QED
      BY <1>1, <1>6, <3>1, <3>2, SizeFacts DEF RingI
  <2>4. \A i \in Occupied' : drawq'[i].kind # "none"
    <3>1. Occupied \subseteq Slots
      BY DEF Occupied
    <3> QED
      BY <1>1, <1>5, <1>6, <3>1 DEF RingI
  <2> QED
    BY <1>1, <1>2, <1>3, <2>1, <2>2, <2>3, <2>4 DEF RingI
<1>12. KickI'
  <2>1. Kicked'
    BY <1>4 DEF Kicked
  <2>2. count' > 0 => HasWork' \/ \E u \in Threads : th'[u].pc = "sched"
    BY <1>1, <1>3 DEF KickI, HasWork
  <2> QED
    BY <2>1, <2>2 DEF KickI, HasWork
<1> QED
  BY <1>7, <1>8, <1>9, <1>10, <1>11, <1>12 DEF IInv

LEMMA RetireKeeps ==
    ASSUME IInv, _retire_syncobj \/ _retire_markerobj
    PROVE  IInv'
<1>1. TypeI
  BY DEF IInv
<1>2. /\ wk.pc = "scan" /\ drawq_head # drawq_tail /\ _pop_drawobj /\ kref' = kref - 1
      /\ UNCHANGED <<drawq_lock, queued_ts, gpu, dispatch, disp, th, life>>
      /\ eop' = eop \/ eop' = HeadObj.ts
  BY DEF _retire_syncobj, _retire_markerobj, Scanning
<1>3. eop' \in Ts /\ kref' \in Int
  <2>1. PICK o \in DrawObj : o = HeadObj
    BY <1>1 DEF TypeI, HeadObj
  <2>2. HeadObj.ts \in Ts
    BY <2>1 DEF DrawObj
  <2> QED
    BY <1>1, <1>2, <2>2 DEF TypeI
<1> QED
  BY <1>2, <1>3, PopKeeps DEF disp

LEMMA ScanPopKeeps ==
    ASSUME IInv, ScanPop
    PROVE  IInv'
<1>1. TypeI
  BY DEF IInv
<1>2. /\ wk.pc = "scan" /\ drawq_head # drawq_tail /\ _pop_drawobj
      /\ HeadObj.kind \in {"cmd", "marker", "bare"}
  BY DEF ScanPop, Scanning
<1>3. PICK o \in DrawObj : o = HeadObj
  BY <1>1 DEF TypeI, HeadObj
<1>4. wk \in WorkerT /\ wk' = [wk EXCEPT !.pc = "issue", !.obj = o]
  BY <1>1, <1>3 DEF TypeI, ScanPop
<1>5. wk' \in WorkerT /\ wk'.pc = "issue" /\ wk'.taken = wk.taken /\ wk'.obj = o
  BY <1>4 DEF WorkerT, WorkerPc
<1>6. HasTs(wk'.obj)
  BY <1>2, <1>3, <1>5 DEF HasTs
<1>7. eop' \in Ts /\ kref' \in Int /\ drawq_lock' = "free"
  BY <1>1 DEF ScanPop, TypeI
<1>8. UNCHANGED <<queued_ts, gpu, dispatch, sent, count, works, th, life>>
  BY DEF ScanPop
<1> QED
  BY <1>2, <1>5, <1>6, <1>7, <1>8, PopKeeps

\* and puts it back when it could not be issued.
LEMMA RequeueKeeps ==
    ASSUME IInv, hgsl_dispatch_requeue_drawobj
    PROVE  IInv'
<1>1. TypeI /\ LockI /\ WorkerI /\ ThreadI /\ RingI /\ KickI
  BY DEF IInv
<1>2. wk.pc = "requeue" /\ wk \in WorkerT /\ HasTs(wk.obj) /\ wk.taken > 0 /\ drawq_lock = "free"
  BY <1>1 DEF hgsl_dispatch_requeue_drawobj, TypeI, WorkerI, Holds
<1>3. wk' = [wk EXCEPT !.pc = "done", !.obj = NoObj, !.again = TRUE]
  BY DEF hgsl_dispatch_requeue_drawobj
<1>4. /\ wk' \in WorkerT /\ wk'.pc = "done" /\ wk'.obj = NoObj /\ wk'.taken = wk.taken
      /\ wk'.again
  BY <1>2, <1>3, Zeros DEF WorkerT, WorkerPc
<1>5. /\ th' = th /\ dpc' = dpc /\ in_destroy' = in_destroy /\ queued_ts' = queued_ts
      /\ drawq_lock' = drawq_lock
  BY DEF hgsl_dispatch_requeue_drawobj, life
<1>6. queued \in Int /\ queued + 1 <= QSize - 1 /\ queued' = queued + 1 /\ Used \in Int
  <2>1. InQueue = queued + 1
    BY <1>2 DEF InQueue
  <2> QED
    BY <1>1, <2>1, OccupiedIs DEF RingI, TypeI, hgsl_dispatch_requeue_drawobj
<1>7. /\ PrevSlot \notin Occupied /\ Occupied' = Occupied \cup {PrevSlot}
      /\ Used' = Used + 1 /\ drawq_head' \in Slots /\ PrevSlot \in Slots
  <2>1. Used < QSize - 1
    BY <1>1, <1>6, SizeFacts DEF RingI
  <2> QED
    BY <1>1, <2>1, RingRequeue DEF TypeI, hgsl_dispatch_requeue_drawobj
<1>8. /\ drawq' \in [Slots -> DrawObj] /\ drawq'[PrevSlot] = wk.obj
      /\ \A i \in Slots : i # PrevSlot => drawq'[i] = drawq[i]
  <2>1. PICK o \in DrawObj : o = wk.obj
    BY <1>2 DEF WorkerT
  <2>2. drawq' = [drawq EXCEPT ![PrevSlot] = o]
    BY <2>1 DEF hgsl_dispatch_requeue_drawobj
  <2> QED
    BY <1>1, <1>7, <2>1, <2>2 DEF TypeI
<1>9. TypeI'
  <2>1. queued' \in Int
    BY <1>6
  <2> QED
    BY <1>1, <1>4, <1>5, <1>7, <1>8, <2>1 DEF TypeI, hgsl_dispatch_requeue_drawobj
<1>10. LockI'
  BY <1>1, <1>2, <1>4, <1>5 DEF LockI
<1>11. WorkerI'
  BY <1>2, <1>4 DEF WorkerI, Holds
<1>12. ThreadI'
  BY <1>1, <1>5 DEF ThreadI
<1>13. RingI'
  <2>1. Cardinality(Occupied') = Used'
    <3>1. Occupied \in SUBSET Slots
      BY DEF Occupied
    <3>2. Cardinality(Occupied \cup {PrevSlot}) = Cardinality(Occupied) + 1
      BY <1>7, <3>1, SlotCount
    <3> QED
      BY <1>1, <1>7, <3>2 DEF RingI
  <2>2. Used' <= queued' /\ (Early' => Used' = queued')
    <3>1. Early' <=> Early
      BY <1>5 DEF Early
    <3> QED
      BY <1>1, <1>6, <1>7, <3>1 DEF RingI
  <2>3. InQueue' <= QSize - 1
    <3>1. InQueue' = queued' + 0
      BY <1>4 DEF InQueue
    <3> QED
      BY <1>6, <3>1, SizeFacts
  <2>4. \A i \in Occupied' : drawq'[i].kind # "none"
    <3>1. Occupied \subseteq Slots
      BY DEF Occupied
    <3>2. drawq'[PrevSlot].kind # "none"
      BY <1>2, <1>8 DEF HasTs
    <3> QED
      BY <1>1, <1>7, <1>8, <3>1, <3>2 DEF RingI
  <2>5. \A u \in Threads : th'[u].pc # "enq"
    BY <1>1, <1>2, <1>5, DrawQueueAssumption DEF LockI
  <2> QED
    BY <1>1, <1>5, <2>1, <2>2, <2>3, <2>4, <2>5 DEF RingI
<1>14. KickI'
  <2>1. Kicked'
    BY <1>4 DEF Kicked
  <2>2. count' > 0 => HasWork' \/ \E u \in Threads : th'[u].pc = "sched"
    BY <1>1, <1>2, <1>5 DEF KickI, HasWork, hgsl_dispatch_requeue_drawobj
  <2> QED
    BY <2>1, <2>2 DEF KickI, HasWork
<1> QED
  BY <1>9, <1>10, <1>11, <1>12, <1>13, <1>14 DEF IInv

LEMMA DispatchKeeps ==
    ASSUME IInv, Dispatch
    PROVE  IInv'
  BY WorkStartKeeps, WorkXchgKeeps, SendLockKeeps, RetireKeeps, ScanEndKeeps,
     ScanPopKeeps, SendKeeps, RequeueKeeps, WorkEndKeeps DEF Dispatch

-----------------------------------------------------------------------------
(* The GPU, sync points and hgsl_ctxt_destroy.                             *)

\* Steps that leave the ring's objects, the threads and the dispatcher alone.
RestStep ==
    /\ UNCHANGED <<drawq_head, drawq_tail, queued, drawq_lock, queued_ts, wk, th>>
    /\ drawq' \in [Slots -> DrawObj] /\ \A i \in Slots : drawq'[i].kind = drawq[i].kind
    /\ eop' \in Ts /\ gpu' \in Seq(Ts) /\ sent' \subseteq Ts /\ kref' \in Int
    /\ count' \in Nat /\ works' \in Seq({"work", "flush"})
    /\ dispatch' \in BOOLEAN /\ in_destroy' \in BOOLEAN /\ dpc' \in DestroyPc
    /\ (Early' <=> Early) /\ (in_destroy' <=> dpc' \notin {"none", "removed"})
    /\ dpc' = "none" => dpc = "none"
    /\ (count' = count) \/ (count' > 0 /\ HasWork')
    /\ HasWork => HasWork'

LEMMA RestStepKeeps ==
    ASSUME IInv, RestStep
    PROVE  IInv'
<1>1. TypeI /\ LockI /\ WorkerI /\ ThreadI /\ RingI /\ KickI
  BY DEF IInv
<1>2. TypeI' /\ LockI' /\ WorkerI' /\ ThreadI'
  BY <1>1 DEF TypeI, LockI, WorkerI, Holds, ThreadI, RestStep
<1>3. RingI' /\ Occupied' = Occupied
  <2>1. /\ UNCHANGED <<drawq_head, drawq_tail, queued, th>>
        /\ \A i \in Slots : drawq'[i].kind = drawq[i].kind
        /\ Holds' = Holds
        /\ (Early' <=> Early)
        /\ in_destroy' <=> dpc' \notin {"none", "removed"}
    BY DEF RestStep, Holds
  <2> QED
    BY <1>1, <2>1, RingSame
<1>4. KickI'
  <2>1. Kicked => Kicked'
    BY DEF Kicked, RestStep
  <2>2. Occupied' # {} /\ dpc' = "none" =>
            Kicked' \/ \E u \in Threads : th'[u].pc = "enq" /\ th'[u].n > 0
    BY <1>1, <1>3, <2>1 DEF KickI, RestStep
  <2>3. ASSUME count' > 0
        PROVE  HasWork' \/ wk'.pc = "xchg" \/ \E u \in Threads : th'[u].pc = "sched"
    <3>1. CASE HasWork'
      BY <3>1
    <3>2. CASE count' = count
      <4>1. HasWork \/ wk.pc = "xchg" \/ \E u \in Threads : th[u].pc = "sched"
        BY <1>1, <2>3, <3>2 DEF KickI, HasWork
      <4> QED
        BY <4>1 DEF RestStep
    <3> QED
      BY <3>1, <3>2 DEF RestStep
  <2> QED
    BY <2>2, <2>3 DEF KickI, HasWork
<1> QED
  BY <1>2, <1>3, <1>4 DEF IInv

LEMMA StutterKeeps ==
    ASSUME IInv, UNCHANGED vars
    PROVE  IInv'
<1>1. TypeI /\ RingI
  BY DEF IInv
<1>2. UNCHANGED <<drawq, drawq_head, drawq_tail, queued, drawq_lock, queued_ts, wk, th, eop, gpu,
                  sent, kref, count, works, dispatch, in_destroy, dpc>>
  BY DEF vars, ring, disp, life
<1>3. (Early' <=> Early) /\ (HasWork => HasWork') /\ (in_destroy' <=> dpc' \notin {"none", "removed"})
  BY <1>1, <1>2 DEF Early, HasWork, RingI
<1>4. RestStep
  BY <1>1, <1>2, <1>3 DEF RestStep, TypeI
<1> QED
  BY <1>4, RestStepKeeps

LEMMA GpuRetireKeeps ==
    ASSUME IInv, GpuRetire
    PROVE  IInv'
<1>1. TypeI /\ RingI
  BY DEF IInv
<1>2. eop' \in Ts /\ gpu' \in Seq(Ts)
  BY <1>1 DEF GpuRetire, TypeI
<1>3. UNCHANGED <<drawq, drawq_head, drawq_tail, queued, drawq_lock, queued_ts, wk, th,
                  sent, kref, count, works, dispatch, in_destroy, dpc>>
  BY DEF GpuRetire, ring, disp, life
<1>4. (Early' <=> Early) /\ (HasWork => HasWork') /\ (in_destroy' <=> dpc' \notin {"none", "removed"})
  BY <1>1, <1>3 DEF Early, HasWork, RingI
<1>5. RestStep
  BY <1>1, <1>2, <1>3, <1>4 DEF RestStep, TypeI
<1> QED
  BY <1>5, RestStepKeeps

LEMMA SyncExpireKeeps ==
    ASSUME IInv, NEW i \in Slots, SyncExpire(i)
    PROVE  IInv'
<1>1. TypeI /\ RingI
  BY DEF IInv
<1>2. drawq' \in [Slots -> DrawObj] /\ \A j \in Slots : drawq'[j].kind = drawq[j].kind
  <2>1. PICK o \in DrawObj : o = drawq[i]
    BY <1>1 DEF TypeI
  <2>2. PICK p : p = [o EXCEPT !.pend = FALSE]
    OBVIOUS
  <2>3. p \in DrawObj /\ p.kind = o.kind
    BY <2>2 DEF DrawObj
  <2>4. drawq' = [drawq EXCEPT ![i] = p]
    BY <1>1, <2>1, <2>2 DEF SyncExpire, TypeI
  <2> QED
    BY <1>1, <2>1, <2>3, <2>4 DEF TypeI
<1>3. count' = count + 1 /\ count' \in Nat /\ count' > 0 /\ kref' \in Int
  BY <1>1 DEF SyncExpire, TypeI
<1>4. works' \in Seq({"work", "flush"}) /\ HasWork'
  <2>1. works' = kthread_queue_work("work")
    BY DEF SyncExpire
  <2> QED
    BY <1>1, <2>1, QueueWork DEF TypeI, HasWork
<1>5. RestStep
  BY <1>1, <1>2, <1>3, <1>4 DEF RestStep, SyncExpire, TypeI, RingI, Early, life
<1> QED
  BY <1>5, RestStepKeeps

\* The ring is emptied; its count is not.
LEMMA DetachDrainKeeps ==
    ASSUME IInv, DetachDrain
    PROVE  IInv'
<1>1. TypeI /\ LockI /\ WorkerI /\ ThreadI /\ RingI /\ KickI
  BY DEF IInv
<1>2. /\ dpc = "drain" /\ dpc' = "flush" /\ in_destroy' = in_destroy /\ in_destroy
      /\ drawq_lock = "free" /\ drawq_head' = drawq_tail /\ drawq_tail' = drawq_tail
      /\ UNCHANGED <<queued, drawq_lock, queued_ts, eop, gpu, dispatch, sent, count, works, wk, th>>
  BY <1>1 DEF DetachDrain, disp, RingI
<1>3. drawq_head' \in Slots /\ drawq_tail' \in Slots
  BY <1>1, <1>2 DEF TypeI
<1>4. kref' \in Int
  <2>1. Cardinality(Occupied) \in Nat
    BY SlotCount DEF Occupied
  <2> QED
    BY <1>1, <2>1 DEF DetachDrain, TypeI
<1>5. drawq' \in [Slots -> DrawObj]
  BY <1>1, Zeros DEF DetachDrain, TypeI
<1>6. TypeI'
  BY <1>1, <1>2, <1>3, <1>4, <1>5 DEF TypeI, DestroyPc
<1>7. LockI' /\ WorkerI' /\ ThreadI'
  BY <1>1, <1>2 DEF LockI, WorkerI, Holds, ThreadI
<1>8. Used' = 0 /\ Occupied' = {}
  <2>1. \A i \in Slots : (i - drawq_tail) % QSize = Dist(i, drawq_tail) /\ Dist(i, drawq_tail) \in 0 .. (QSize - 1)
    BY <1>2, <1>3, SlotDist
  <2>2. Dist(drawq_tail, drawq_tail) = 0
    BY <1>2, <1>3, SizeFacts DEF Dist
  <2>3. (drawq_tail - drawq_tail) % QSize = 0
    BY <1>2, <1>3, <2>1, <2>2
  <2>4. \A i \in Slots : ~((i - drawq_tail) % QSize < 0)
    BY <2>1, SizeFacts
  <2>5. Used' = 0
    BY <1>2, <2>3 DEF Used
  <2>6. Occupied' = {i \in Slots : (i - drawq_tail) % QSize < (drawq_tail - drawq_tail) % QSize}
    BY <1>2 DEF Occupied
  <2> QED
    BY <2>3, <2>4, <2>5, <2>6
<1>9. RingI'
  <2>1. Cardinality(Occupied') = Used'
    BY <1>8, FS_EmptySet
  <2>2. Used' <= queued' /\ ~Early'
    <3>1. Used \in 0 .. (QSize - 1) /\ queued \in Int
      BY <1>1, OccupiedIs DEF TypeI
    <3> QED
      BY <1>1, <1>2, <1>8, <3>1, SizeFacts DEF RingI, Early
  <2>3. InQueue' = InQueue
    BY <1>2 DEF InQueue
  <2>4. \A u \in Threads : th'[u].pc # "enq"
    BY <1>1, <1>2, DrawQueueAssumption DEF LockI
  <2> QED
    BY <1>1, <1>2, <1>8, <2>1, <2>2, <2>3, <2>4 DEF RingI
<1>10. KickI'
  BY <1>1, <1>2 DEF KickI
<1> QED
  BY <1>6, <1>7, <1>9, <1>10 DEF IInv

LEMMA DestroyKeeps ==
    ASSUME IInv, Destroy
    PROVE  IInv'
<1>1. TypeI /\ RingI
  BY DEF IInv
<1>2. ASSUME DestroyRemove \/ DestroyMark PROVE IInv'
  <2>1. kref' \in Int
    BY <1>1, <1>2 DEF DestroyRemove, DestroyMark, TypeI
  <2>2. UNCHANGED <<drawq, drawq_head, drawq_tail, queued, drawq_lock, queued_ts, eop, gpu, wk, th,
                    sent, count, works, dispatch>>
    BY <1>2 DEF DestroyRemove, DestroyMark, ring, disp
  <2>3. /\ (Early' <=> Early) /\ (HasWork => HasWork') /\ (in_destroy' <=> dpc' \notin {"none", "removed"})
        /\ dpc' \in DestroyPc /\ in_destroy' \in BOOLEAN /\ dpc' # "none"
    <3>1. HasWork => HasWork'
      BY <2>2 DEF HasWork
    <3>2. in_destroy \in BOOLEAN /\ (in_destroy <=> dpc \notin {"none", "removed"})
      BY <1>1 DEF TypeI, RingI
    <3>3. CASE DestroyRemove
      <4>1. dpc = "none" /\ dpc' = "removed" /\ in_destroy' = in_destroy
        BY <3>3 DEF DestroyRemove
      <4> QED
        BY <3>1, <3>2, <4>1 DEF Early, DestroyPc
    <3>4. CASE DestroyMark
      <4>1. dpc = "removed" /\ dpc' = "drain" /\ in_destroy' = TRUE
        BY <3>4 DEF DestroyMark
      <4> QED
        BY <3>1, <4>1 DEF Early, DestroyPc
    <3> QED
      BY <1>2, <3>3, <3>4
  <2>4. RestStep
    BY <1>1, <2>1, <2>2, <2>3 DEF RestStep, TypeI
  <2> QED
    BY <2>4, RestStepKeeps
<1>3. ASSUME dpc \in {"flush", "flushing", "reclaim", "put", "spin", "deinit"},
             dpc' \in {"flushing", "reclaim", "put", "spin", "deinit", "freed"},
             UNCHANGED <<ring, drawq_lock, queued_ts, eop, gpu, dispatch, count, wk, th, in_destroy>>,
             sent' \subseteq Ts, kref' \in Int, works' \in Seq({"work", "flush"}),
             HasWork => HasWork'
      PROVE  IInv'
  <2>1. UNCHANGED <<drawq, drawq_head, drawq_tail, queued>>
    BY <1>3 DEF ring
  <2>2. /\ (Early' <=> Early) /\ (in_destroy' <=> dpc' \notin {"none", "removed"})
        /\ dpc' \in DestroyPc /\ in_destroy' \in BOOLEAN /\ dpc' # "none"
    BY <1>1, <1>3 DEF Early, RingI, TypeI, DestroyPc
  <2>3. RestStep
    BY <1>1, <1>3, <2>1, <2>2 DEF RestStep, TypeI
  <2> QED
    BY <2>3, RestStepKeeps
<1>4. ASSUME DetachSchedule PROVE IInv'
  <2>1. works' \in Seq({"work", "flush"}) /\ (HasWork => HasWork')
    <3>1. CASE dispatch
      <4>1. PICK w \in Seq({"work", "flush"}) :
                w = kthread_queue_work("work") /\ \E i \in DOMAIN w : w[i] = "work"
        BY <1>1, QueueWork DEF TypeI
      <4>2. works' = Append(w, "flush")
        BY <1>4, <3>1, <4>1 DEF DetachSchedule
      <4>3. PICK i \in DOMAIN w : w[i] = "work"
        BY <4>1
      <4>4. works' \in Seq({"work", "flush"}) /\ i \in DOMAIN works' /\ works'[i] = "work"
        BY <4>1, <4>2, <4>3
      <4> QED
        BY <4>4 DEF HasWork
    <3>2. CASE ~dispatch
      BY <1>1, <1>4, <3>2 DEF DetachSchedule, HasWork, TypeI
    <3> QED
      BY <3>1, <3>2
  <2>2. /\ dpc = "flush" /\ dpc' \in {"flushing", "put"}
        /\ UNCHANGED <<ring, drawq_lock, queued_ts, eop, gpu, dispatch, sent, count, wk, th, kref,
                       in_destroy>>
    BY <1>4 DEF DetachSchedule
  <2>3. sent' \subseteq Ts /\ kref' \in Int
    BY <1>1, <2>2 DEF TypeI
  <2> QED
    BY <1>3, <2>1, <2>2, <2>3
<1>5. ASSUME DetachFlushed PROVE IInv'
  <2>1. works' = Tail(works) /\ works # <<>> /\ Head(works) = "flush" /\ works \in Seq({"work", "flush"})
    BY <1>1, <1>5 DEF DetachFlushed, TypeI
  <2>2. works' \in Seq({"work", "flush"})
    BY <2>1
  <2>3. HasWork => HasWork'
    <3>1. SUFFICES ASSUME NEW i \in DOMAIN works, works[i] = "work" PROVE HasWork'
      BY DEF HasWork
    <3>2. Len(works) \in Nat /\ i \in 1 .. Len(works) /\ i # 1
      BY <2>1, <3>1
    <3>3. i - 1 \in 1 .. Len(works') /\ works'[i - 1] = "work"
      BY <2>1, <3>1, <3>2
    <3>4. i - 1 \in DOMAIN works'
      BY <2>2, <3>3
    <3> QED
      BY <3>3, <3>4 DEF HasWork
  <2>4. /\ dpc = "flushing" /\ dpc' = "reclaim"
        /\ UNCHANGED <<ring, drawq_lock, queued_ts, eop, gpu, dispatch, sent, count, wk, th, kref,
                       in_destroy>>
    BY <1>5 DEF DetachFlushed
  <2>5. sent' \subseteq Ts /\ kref' \in Int
    BY <1>1, <2>4 DEF TypeI
  <2> QED
    BY <1>3, <2>2, <2>3, <2>4, <2>5
<1>6. ASSUME hgsl_reclaim_drawobjs PROVE IInv'
  <2>1. sent' \subseteq Ts /\ kref' \in Int /\ dpc = "reclaim" /\ dpc' \in {"reclaim", "put"}
    BY <1>1, <1>6, RetiredCount DEF hgsl_reclaim_drawobjs, TypeI
  <2>2. UNCHANGED <<ring, drawq_lock, queued_ts, eop, gpu, dispatch, count, works, wk, th, in_destroy>>
    BY <1>6 DEF hgsl_reclaim_drawobjs
  <2> QED
    BY <1>1, <1>3, <2>1, <2>2 DEF TypeI, HasWork
<1>7. ASSUME DestroyPut \/ SpinUntilDestroyed \/ hgsl_dispatch_ctxt_deinit PROVE IInv'
  <2>1. /\ dpc \in {"put", "spin", "deinit"} /\ dpc' \in {"spin", "deinit", "freed"}
        /\ UNCHANGED <<ring, drawq_lock, queued_ts, eop, gpu, dispatch, disp, th, in_destroy>>
        /\ kref' = kref \/ kref' = kref - 2
    BY <1>7 DEF DestroyPut, SpinUntilDestroyed, hgsl_dispatch_ctxt_deinit
  <2>2. kref' \in Int /\ sent' \subseteq Ts /\ works' \in Seq({"work", "flush"}) /\ (HasWork => HasWork')
    BY <1>1, <2>1 DEF TypeI, disp, HasWork
  <2>3. count' = count /\ wk' = wk
    BY <2>1 DEF disp
  <2> QED
    BY <1>3, <2>1, <2>2, <2>3
<1> QED
  BY <1>2, <1>4, <1>5, <1>6, <1>7, DetachDrainKeeps DEF Destroy

-----------------------------------------------------------------------------
(* The invariant, and the theorems.                                        *)

LEMMA InitIInv ==
    ASSUME Init
    PROVE  IInv
<1>1. drawq_head = 0 /\ drawq_tail = 0 /\ queued = 0 /\ 0 \in Slots
  BY SizeFacts DEF Init
<1>2. Used = 0 /\ Occupied = {}
  <2>1. Used = 0
    BY <1>1, OccupiedIs
  <2>2. \A i \in Slots : (i - 0) % QSize = Dist(i, 0) /\ Dist(i, 0) \in 0 .. (QSize - 1)
    BY <1>1, SlotDist
  <2>3. \A i \in Slots : ~((i - 0) % QSize < 0)
    BY <2>2, SizeFacts
  <2>4. Occupied = {i \in Slots : (i - 0) % QSize < Used}
    BY <1>1 DEF Occupied, Used
  <2> QED
    BY <2>1, <2>3, <2>4
<1>3. wk = IdleWorker /\ wk \in WorkerT /\ wk.pc = "idle" /\ wk.taken = 0 /\ wk.obj = NoObj
  BY Zeros DEF Init, IdleWorker, WorkerT, WorkerPc
<1>4. /\ th \in [Threads -> ThreadT]
      /\ \A t \in Threads : th[t].pc = "idle" /\ th[t].n = 0 /\ th[t].objs = <<>>
  BY Zeros DEF Init, IdleThread, ThreadT, ThreadPc
<1>5. TypeI
  <2>1. queued_ts \in Ts /\ eop \in Ts
    BY DrawQueueAssumption DEF Init
  <2>2. drawq \in [Slots -> DrawObj]
    BY Zeros DEF Init
  <2> QED
    BY <1>1, <1>3, <1>4, <2>1, <2>2 DEF Init, TypeI, DestroyPc
<1>6. LockI
  BY <1>3, <1>4, DrawQueueAssumption DEF Init, LockI
<1>7. WorkerI
  BY <1>3 DEF WorkerI, Holds
<1>8. ThreadI
  BY <1>4 DEF ThreadI, Batch
<1>9. RingI
  <2>1. InQueue <= QSize - 1
    BY <1>1, <1>3, SizeFacts DEF InQueue
  <2> QED
    BY <1>1, <1>2, <1>4, <2>1, FS_EmptySet DEF RingI, Init
<1>10. KickI
  BY <1>2 DEF KickI, Init
<1> QED
  BY <1>5, <1>6, <1>7, <1>8, <1>9, <1>10 DEF IInv

LEMMA NextIInv ==
    ASSUME IInv, ~Timeouts, [Next]_vars
    PROVE  IInv'
<1>1. ASSUME NEW t \in Threads, SubmitBegin(t) PROVE IInv'
  BY <1>1, SubmitBeginKeeps
<1>2. ASSUME NEW t \in Threads, ThreadRuns(t) PROVE IInv'
  <2>1. ASSUME NEW b \in Batches, NEW u \in UserTs, NEW p \in BOOLEAN, SubmitCreate(t, b, u, p)
        PROVE  IInv'
    BY <2>1, SubmitCreateKeeps
  <2>2. ASSUME NEW ret, RoomWaited(t, ret) PROVE IInv'
    BY <2>2, RoomWaitedKeeps
  <2> QED
    BY <1>2, <2>1, <2>2, SubmitCreateFailsKeeps, QueueEnterKeeps, QueueCmdKeeps, QueueMarkerKeeps,
       QueueUntimedKeeps, QueueLeaveKeeps, KickCountKeeps, KickScheduleKeeps, SubmitEndKeeps
       DEF ThreadRuns
<1>3. ASSUME NEW t \in Threads, RoomWaited(t, "signal") PROVE IInv'
  BY <1>3, RoomWaitedKeeps
<1>4. ASSUME NEW i \in Slots, SyncExpire(i) PROVE IInv'
  BY <1>4, SyncExpireKeeps
<1> QED
  BY <1>1, <1>2, <1>3, <1>4, DispatchKeeps, GpuRetireKeeps, DestroyKeeps, StutterKeeps DEF Next

LEMMA Inductive ==
    ASSUME ~Timeouts
    PROVE  Spec => []IInv
<1>1. Init => IInv
  BY InitIInv
<1>2. IInv /\ [Next]_vars => IInv'
  BY NextIInv
<1> QED
  BY <1>1, <1>2, PTL DEF Spec

(***************************************************************************)
(* The ring of the context is consistent at every moment, for every size   *)
(* of the ring, set of threads and batches: `queued' counts the objects    *)
(* between head and tail and the object the dispatcher has popped always   *)
(* finds a free slot to go back to.  What it takes is that no wait for     *)
(* room outlasts its ten seconds: a thread whose time is up goes on to     *)
(* queue without room (`if (ret) goto out', hgsl_dispatch_queue_cmds).     *)
(***************************************************************************)
THEOREM DrawQueueRing ==
    ASSUME ~Timeouts
    PROVE  Spec => []RingConsistent
<1>1. IInv => RingConsistent
  <2> SUFFICES ASSUME IInv PROVE RingConsistent
    OBVIOUS
  <2>1. TypeI /\ RingI
    BY DEF IInv
  <2>2. queued \in 0 .. QSize
    <3>1. Used \in 0 .. (QSize - 1) /\ queued \in Int
      BY <2>1, OccupiedIs DEF TypeI
    <3>2. InQueue \in {queued + 1, queued + 0}
      BY DEF InQueue
    <3> QED
      BY <2>1, <3>1, <3>2, SizeFacts DEF RingI
  <2>3. TypeOK
    BY <2>1, <2>2 DEF TypeOK, TypeI
  <2> QED
    BY <2>1, <2>3 DEF RingConsistent, RingI, Early, InRing, _context_drawqueue_size
<1> QED
  BY <1>1, Inductive, PTL

(***************************************************************************)
(* No kick is lost: whatever the interleaving of submitting threads, the   *)
(* dispatcher's exchange of dispatch->count and expiring sync points, an   *)
(* object in the ring has a kick counted, being served or about to be      *)
(* counted, and a counted kick has the work pending that will claim it.    *)
(***************************************************************************)
THEOREM DrawQueueKicked ==
    ASSUME ~Timeouts
    PROVE  Spec => []NoLostKick
<1>1. IInv => NoLostKick
  <2> SUFFICES ASSUME IInv PROVE NoLostKick
    OBVIOUS
  <2>1. TypeI /\ WorkerI /\ KickI
    BY DEF IInv
  <2>2. count \in Nat /\ wk.taken \in Nat
    BY <2>1, WorkerIs DEF TypeI
  <2>3. ASSUME Kicked PROVE count + wk.taken > 0 \/ \E t \in Threads : th[t].pc \in {"enq", "inc"}
    BY <2>1, <2>2, <2>3 DEF Kicked, WorkerI
  <2> QED
    BY <2>1, <2>3 DEF NoLostKick, KickI
<1> QED
  BY <1>1, Inductive, PTL

(***************************************************************************)
(* A submission that fails has queued nothing, so the ioctl may destroy    *)
(* every object of its batch: the client's timestamp is checked under the  *)
(* same drawq_lock as the whole batch is queued, and only the last object  *)
(* of a batch takes a timestamp.                                           *)
(***************************************************************************)
THEOREM DrawQueueWhole ==
    ASSUME ~Timeouts
    PROVE  Spec => []NoPartialQueue
<1>1. IInv => NoPartialQueue
  BY DEF IInv, ThreadI, NoPartialQueue
<1> QED
  BY <1>1, Inductive, PTL

-----------------------------------------------------------------------------
(* What HgslInOrder gives those who compare timestamps, for every width of *)
(* the timestamp: time is linear, so the wrap-around comparison is right   *)
(* for what is pending.  Nothing of the draw queue is used here but that   *)
(* Pipeline stands for the pending timestamps.                             *)

(***************************************************************************)
(* Unsigned subtraction of timestamps is a timestamp, and distances from a *)
(* later base are the distances from the earlier one, less how far the     *)
(* base moved (hgsl_ts32_ge of hgsl.h rests on it).                        *)
(***************************************************************************)
LEMMA SubType == \A a, b \in InOrder!Ts : InOrder!U32Sub(a, b) \in InOrder!Ts
  BY HalfAssumption DEF InOrder!U32Sub, InOrder!Ts, InOrder!TsMod

LEMMA SubRebase ==
    \A x, h, e \in InOrder!Ts : InOrder!U32Sub(h, e) <= InOrder!U32Sub(x, e)
        => InOrder!U32Sub(x, h) = InOrder!U32Sub(x, e) - InOrder!U32Sub(h, e)
  BY HalfAssumption DEF InOrder!U32Sub, InOrder!Ts, InOrder!TsMod

LEMMA SubReverse ==
    \A x, e \in InOrder!Ts : 0 < InOrder!U32Sub(x, e) => InOrder!U32Sub(e, x) = InOrder!TsMod - InOrder!U32Sub(x, e)
  BY HalfAssumption DEF InOrder!U32Sub, InOrder!Ts, InOrder!TsMod

LEMMA SubSelf == \A x \in InOrder!Ts : InOrder!U32Sub(x, x) = 0
  BY HalfAssumption DEF InOrder!U32Sub, InOrder!Ts, InOrder!TsMod

\* The inductive invariant: the types and the order.
OrderI == InOrder!TypeOK /\ InOrder!TimeLinear

LEMMA OrderInit == InOrder!Init => OrderI
<1>1. StartTs \subseteq InOrder!Ts
  BY DrawQueueAssumption DEF InOrder!Ts, InOrder!TsMod, Ts, TsMod
<1> QED
  BY <1>1, SubSelf, HalfAssumption DEF InOrder!Init, OrderI, InOrder!TypeOK, InOrder!TimeLinear, InOrder!Ahead

\* The next timestamp goes to the end.
LEMMA OrderQueue == ASSUME OrderI, NEW ts \in InOrder!Ts, InOrder!Queue(ts) PROVE OrderI'
<1>1. InOrder!TypeOK'
  BY DEF OrderI, InOrder!TypeOK, InOrder!Queue
<1>2. \A i \in DOMAIN Pipeline' : Pipeline'[i] = IF i = Len(Pipeline) + 1 THEN ts ELSE Pipeline[i]
  BY DEF OrderI, InOrder!TypeOK, InOrder!Queue
<1>3. DOMAIN Pipeline' = 1 .. (Len(Pipeline) + 1) /\ DOMAIN Pipeline = 1 .. Len(Pipeline) /\ Len(Pipeline) \in Nat
  BY DEF OrderI, InOrder!TypeOK, InOrder!Queue
<1>4. \A x \in InOrder!Ts : InOrder!Ahead(x)' = InOrder!Ahead(x) /\ InOrder!Ahead(x) \in Int
  BY SubType DEF InOrder!Ahead, InOrder!Queue, OrderI, InOrder!TypeOK, InOrder!Ts, InOrder!TsMod
<1>5. \A i \in DOMAIN Pipeline : Pipeline[i] \in InOrder!Ts
  BY DEF OrderI, InOrder!TypeOK
<1>6. InOrder!Ahead(queued_ts) < InOrder!Ahead(ts) /\ InOrder!Ahead(ts) < Half /\ InOrder!Ahead(queued_ts) >= 0
  BY SubType DEF InOrder!Queue, InOrder!IsNext, InOrder!Ahead, OrderI, InOrder!TypeOK, InOrder!Ts
<1>7. InOrder!Ahead(queued_ts)' = InOrder!Ahead(ts)
  BY <1>4 DEF InOrder!Queue, InOrder!Ahead
<1>8. InOrder!TimeLinear'
  <2>1. \A i \in DOMAIN Pipeline' : 0 < InOrder!Ahead(Pipeline'[i]) /\ InOrder!Ahead(Pipeline'[i]) <= InOrder!Ahead(ts)
    BY <1>2, <1>3, <1>4, <1>5, <1>6, HalfAssumption DEF OrderI, InOrder!TimeLinear, InOrder!TypeOK
  <2>2. \A i, j \in DOMAIN Pipeline' : i < j => InOrder!Ahead(Pipeline'[i]) < InOrder!Ahead(Pipeline'[j])
    <3> SUFFICES ASSUME NEW i \in DOMAIN Pipeline', NEW j \in DOMAIN Pipeline', i < j
                 PROVE InOrder!Ahead(Pipeline'[i]) < InOrder!Ahead(Pipeline'[j])
      OBVIOUS
    <3>1. i \in DOMAIN Pipeline /\ Pipeline'[i] = Pipeline[i]
      BY <1>2, <1>3
    <3>2. CASE j = Len(Pipeline) + 1
      <4>1. InOrder!Ahead(Pipeline[i]) <= InOrder!Ahead(queued_ts)
        BY <3>1 DEF OrderI, InOrder!TimeLinear
      <4> QED
        BY <1>2, <1>4, <1>5, <1>6, <3>1, <3>2, <4>1 DEF OrderI, InOrder!TypeOK
    <3>3. CASE j # Len(Pipeline) + 1
      BY <1>2, <1>3, <3>1, <3>3 DEF OrderI, InOrder!TimeLinear
    <3> QED
      BY <3>2, <3>3
  <2>3. \A i \in DOMAIN Pipeline' : Pipeline'[i] \in InOrder!Ts
    BY <1>1 DEF InOrder!TypeOK
  <2> QED
    BY <1>4, <1>6, <1>7, <2>1, <2>2, <2>3 DEF InOrder!TimeLinear
<1> QED
  BY <1>1, <1>8 DEF OrderI

\* A timestamp that retires at once leaves nothing pending.
LEMMA OrderQueueRetire == ASSUME OrderI, NEW ts \in InOrder!Ts, InOrder!QueueAndRetire(ts) PROVE OrderI'
  BY SubSelf, HalfAssumption DEF OrderI, InOrder!TypeOK, InOrder!TimeLinear, InOrder!QueueAndRetire, InOrder!Ahead

\* The base moves to the oldest timestamp and the others come nearer.
LEMMA OrderRetire == ASSUME OrderI, InOrder!Retire PROVE OrderI'
<1>1. InOrder!TypeOK'
  BY DEF OrderI, InOrder!TypeOK, InOrder!Retire
<1>2. /\ DOMAIN Pipeline = 1 .. Len(Pipeline) /\ Len(Pipeline) \in Nat /\ 1 \in DOMAIN Pipeline
      /\ DOMAIN Pipeline' = 1 .. (Len(Pipeline) - 1)
      /\ \A i \in DOMAIN Pipeline' : Pipeline'[i] = Pipeline[i + 1]
      /\ eop' = Pipeline[1] /\ queued_ts' = queued_ts
  BY DEF OrderI, InOrder!TypeOK, InOrder!Retire
<1>3. \A i \in DOMAIN Pipeline : Pipeline[i] \in InOrder!Ts
  BY DEF OrderI, InOrder!TypeOK
<1>4. eop \in InOrder!Ts /\ queued_ts \in InOrder!Ts /\ Pipeline[1] \in InOrder!Ts
  BY <1>2, <1>3 DEF OrderI, InOrder!TypeOK
<1>5. \A x \in InOrder!Ts : InOrder!Ahead(x) \in Int
  BY SubType, <1>4 DEF InOrder!Ahead, InOrder!Ts, InOrder!TsMod
<1>6. \A x \in InOrder!Ts : InOrder!Ahead(Pipeline[1]) <= InOrder!Ahead(x) => InOrder!U32Sub(x, Pipeline[1]) = InOrder!Ahead(x) - InOrder!Ahead(Pipeline[1])
  BY SubRebase, <1>4 DEF InOrder!Ahead
<1>7. \A i \in DOMAIN Pipeline' :
          /\ i + 1 \in DOMAIN Pipeline /\ 1 < i + 1
          /\ InOrder!Ahead(Pipeline[1]) < InOrder!Ahead(Pipeline[i + 1])
          /\ InOrder!U32Sub(Pipeline'[i], eop') = InOrder!Ahead(Pipeline[i + 1]) - InOrder!Ahead(Pipeline[1])
  <2> SUFFICES ASSUME NEW i \in DOMAIN Pipeline'
               PROVE /\ i + 1 \in DOMAIN Pipeline /\ 1 < i + 1
                     /\ InOrder!Ahead(Pipeline[1]) < InOrder!Ahead(Pipeline[i + 1])
                     /\ InOrder!U32Sub(Pipeline'[i], eop') = InOrder!Ahead(Pipeline[i + 1]) - InOrder!Ahead(Pipeline[1])
    OBVIOUS
  <2>1. i + 1 \in DOMAIN Pipeline /\ 1 < i + 1
    BY <1>2
  <2>2. InOrder!Ahead(Pipeline[1]) < InOrder!Ahead(Pipeline[i + 1])
    BY <1>2, <2>1 DEF OrderI, InOrder!TimeLinear
  <2>3. InOrder!Ahead(Pipeline[1]) <= InOrder!Ahead(Pipeline[i + 1])
    BY <1>3, <1>5, <2>1, <2>2, <1>4
  <2>4. InOrder!U32Sub(Pipeline[i + 1], Pipeline[1]) = InOrder!Ahead(Pipeline[i + 1]) - InOrder!Ahead(Pipeline[1])
    BY <1>3, <1>6, <2>1, <2>3
  <2> QED
    BY <1>2, <2>1, <2>2, <2>4
<1>8. /\ 0 < InOrder!Ahead(Pipeline[1]) /\ InOrder!Ahead(Pipeline[1]) <= InOrder!Ahead(queued_ts) /\ InOrder!Ahead(queued_ts) < Half
      /\ InOrder!U32Sub(queued_ts', eop') = InOrder!Ahead(queued_ts) - InOrder!Ahead(Pipeline[1])
  BY <1>2, <1>4, <1>6 DEF OrderI, InOrder!TimeLinear
<1>9. \A i \in DOMAIN Pipeline' :
          0 < InOrder!U32Sub(Pipeline'[i], eop') /\ InOrder!U32Sub(Pipeline'[i], eop') <= InOrder!U32Sub(queued_ts', eop')
  <2> SUFFICES ASSUME NEW i \in DOMAIN Pipeline'
               PROVE 0 < InOrder!U32Sub(Pipeline'[i], eop') /\ InOrder!U32Sub(Pipeline'[i], eop') <= InOrder!U32Sub(queued_ts', eop')
    OBVIOUS
  <2>1. InOrder!Ahead(Pipeline[i + 1]) <= InOrder!Ahead(queued_ts) /\ InOrder!Ahead(Pipeline[i + 1]) \in Int
    BY <1>3, <1>5, <1>7 DEF OrderI, InOrder!TimeLinear
  <2> QED
    BY <1>4, <1>5, <1>7, <1>8, <2>1
<1>10. \A i, j \in DOMAIN Pipeline' : i < j => InOrder!U32Sub(Pipeline'[i], eop') < InOrder!U32Sub(Pipeline'[j], eop')
  <2> SUFFICES ASSUME NEW i \in DOMAIN Pipeline', NEW j \in DOMAIN Pipeline', i < j
               PROVE InOrder!U32Sub(Pipeline'[i], eop') < InOrder!U32Sub(Pipeline'[j], eop')
    OBVIOUS
  <2>1. i + 1 \in DOMAIN Pipeline /\ j + 1 \in DOMAIN Pipeline /\ i + 1 < j + 1
    BY <1>2, <1>7
  <2>2. InOrder!Ahead(Pipeline[i + 1]) < InOrder!Ahead(Pipeline[j + 1])
    BY <2>1 DEF OrderI, InOrder!TimeLinear
  <2>3. InOrder!Ahead(Pipeline[i + 1]) \in Int /\ InOrder!Ahead(Pipeline[j + 1]) \in Int /\ InOrder!Ahead(Pipeline[1]) \in Int
    BY <1>3, <1>4, <1>5, <2>1
  <2> QED
    BY <1>7, <2>2, <2>3
<1>11. InOrder!U32Sub(queued_ts', eop') < Half
  BY <1>4, <1>5, <1>8, HalfAssumption
<1> QED
  BY <1>1, <1>9, <1>10, <1>11 DEF OrderI, InOrder!TimeLinear, InOrder!Ahead

\* What is left after a drop is as it was.
LEMMA OrderDrop == ASSUME OrderI, NEW n \in 0 .. Len(Pipeline), InOrder!Drop(n) PROVE OrderI'
<1>1. Pipeline' = [i \in 1 .. n |-> Pipeline[i]] /\ DOMAIN Pipeline' = 1 .. n /\ 1 .. n \subseteq DOMAIN Pipeline
  BY DEF OrderI, InOrder!TypeOK, InOrder!Drop
<1>2. InOrder!TypeOK'
  BY DEF OrderI, InOrder!TypeOK, InOrder!Drop
<1>3. \A i \in DOMAIN Pipeline' : i \in DOMAIN Pipeline /\ Pipeline'[i] = Pipeline[i]
  BY <1>1
<1>4. eop' = eop /\ queued_ts' = queued_ts
  BY DEF InOrder!Drop
<1> QED
  BY <1>2, <1>3, <1>4 DEF OrderI, InOrder!TimeLinear, InOrder!Ahead

LEMMA OrderStep == OrderI /\ [InOrder!Next]_(InOrder!vars) => OrderI'
<1> SUFFICES ASSUME OrderI, [InOrder!Next]_(InOrder!vars) PROVE OrderI'
  OBVIOUS
<1>1. CASE \E ts \in InOrder!Ts : InOrder!Queue(ts) \/ InOrder!QueueAndRetire(ts)
  BY <1>1, OrderQueue, OrderQueueRetire
<1>2. CASE InOrder!Retire
  BY <1>2, OrderRetire
<1>3. CASE \E n \in 0 .. Len(Pipeline) : InOrder!Drop(n)
  BY <1>3, OrderDrop
<1>4. CASE UNCHANGED InOrder!vars
  BY <1>4 DEF InOrder!vars, OrderI, InOrder!TypeOK, InOrder!TimeLinear, InOrder!Ahead
<1> QED
  BY <1>1, <1>2, <1>3, <1>4 DEF InOrder!Next

\* The order makes the comparison right.
LEMMA LinearCompares == OrderI => InOrder!PendingNotRetired
<1> SUFFICES ASSUME OrderI, NEW i \in DOMAIN Pipeline
             PROVE /\ ~InOrder!hgsl_ts32_ge(eop, Pipeline[i])
                   /\ \A j \in DOMAIN Pipeline : i <= j => InOrder!hgsl_ts32_ge(Pipeline[j], Pipeline[i])
  BY DEF InOrder!PendingNotRetired
<1>1. /\ \A k \in DOMAIN Pipeline : Pipeline[k] \in InOrder!Ts /\ InOrder!Ahead(Pipeline[k]) \in Int
      /\ eop \in InOrder!Ts /\ queued_ts \in InOrder!Ts /\ InOrder!Ahead(queued_ts) \in Int
  <2>1. eop \in InOrder!Ts /\ queued_ts \in InOrder!Ts /\ \A k \in DOMAIN Pipeline : Pipeline[k] \in InOrder!Ts
    BY DEF OrderI, InOrder!TypeOK
  <2>2. \A x \in InOrder!Ts : InOrder!Ahead(x) \in Int
    BY <2>1, SubType DEF InOrder!Ahead, InOrder!Ts, InOrder!TsMod
  <2> QED
    BY <2>1, <2>2
<1>2. \A k \in DOMAIN Pipeline : 0 < InOrder!Ahead(Pipeline[k]) /\ InOrder!Ahead(Pipeline[k]) < Half
  BY <1>1, HalfAssumption DEF OrderI, InOrder!TimeLinear
<1>3. InOrder!U32Sub(eop, Pipeline[i]) = InOrder!TsMod - InOrder!Ahead(Pipeline[i])
  BY <1>1, <1>2, SubReverse DEF InOrder!Ahead
<1>4. ~InOrder!hgsl_ts32_ge(eop, Pipeline[i])
  BY <1>1, <1>2, <1>3, HalfAssumption DEF InOrder!hgsl_ts32_ge, InOrder!TsMod
<1>5. ASSUME NEW j \in DOMAIN Pipeline, i <= j PROVE InOrder!hgsl_ts32_ge(Pipeline[j], Pipeline[i])
  <2>1. InOrder!Ahead(Pipeline[i]) <= InOrder!Ahead(Pipeline[j])
    <3>1. CASE i = j
      BY <1>1, <3>1
    <3>2. CASE i < j
      BY <1>1, <3>2 DEF OrderI, InOrder!TimeLinear
    <3> QED
      BY <1>5, <3>1, <3>2 DEF OrderI, InOrder!TypeOK
  <2>2. InOrder!U32Sub(Pipeline[j], Pipeline[i]) = InOrder!Ahead(Pipeline[j]) - InOrder!Ahead(Pipeline[i])
    BY <1>1, <2>1, SubRebase DEF InOrder!Ahead
  <2> QED
    BY <1>1, <1>2, <2>1, <2>2, HalfAssumption DEF InOrder!hgsl_ts32_ge
<1> QED
  BY <1>4, <1>5

-----------------------------------------------------------------------------
(* The timestamps of a sequence of objects, by induction over its prefixes *)
(* with the least counterexample.                                          *)

\* The order of the naturals as a relation, for the library's minimum.
Less == {p \in Nat \X Nat : p[1] < p[2]}

\* A set without 0 that has the predecessor of each of its elements is empty.
LEMMA NoLeast ==
    ASSUME NEW S \in SUBSET Nat, 0 \notin S, \A k \in S : k - 1 \in S
    PROVE  S = {}
<1>1. ASSUME S # {} PROVE FALSE
  <2>1. IsWellFoundedOn(Less, Nat)
    BY NatLessThanWellFounded DEF OpToRel, Less
  <2>2. PICK x \in S : \A y \in S : ~(<<y, x>> \in Less)
    BY <1>1, <2>1, WFMin
  <2>3. x \in Nat /\ x - 1 \in S /\ x - 1 \in Nat /\ x - 1 < x
    BY <2>2
  <2>4. <<x - 1, x>> \in Less
    BY <2>3 DEF Less
  <2> QED
    BY <2>2, <2>3, <2>4
<1> QED
  BY <1>1

\* The timestamp of one more object, if it has one.
Add(q, o) == IF HasTs(o) THEN Append(q, o.ts) ELSE q

LEMMA AddType ==
    ASSUME NEW q \in Seq(Ts), NEW o \in DrawObj PROVE Add(q, o) \in Seq(Ts)
<1>1. o.ts \in Ts
  BY DEF DrawObj
<1> QED
  BY <1>1 DEF Add

\* The equation of TimedUpTo for the first n objects.
TimedEq(f, n, s) == f = [k \in 0 .. n |-> IF k = 0 THEN <<>> ELSE Add(f[k - 1], s[k])]

LEMMA TimedExists ==
    ASSUME NEW s \in Seq(DrawObj)
    PROVE  \E f : f \in [0 .. Len(s) -> Seq(Ts)] /\ TimedEq(f, Len(s), s)
<1> DEFINE Has(n) == \E f : f \in [0 .. n -> Seq(Ts)] /\ TimedEq(f, n, s)
           S == {n \in 0 .. Len(s) : ~Has(n)}
<1>1. Len(s) \in Nat /\ \A k \in 1 .. Len(s) : s[k] \in DrawObj
  OBVIOUS
<1>2. Has(0)
  <2>1. PICK f : f = [k \in 0 .. 0 |-> <<>>]
    OBVIOUS
  <2>2. f \in [0 .. 0 -> Seq(Ts)] /\ TimedEq(f, 0, s)
    BY <2>1 DEF TimedEq
  <2> QED
    BY <2>2
<1>3. ASSUME NEW n \in 1 .. Len(s), Has(n - 1) PROVE Has(n)
  <2>1. PICK f : f \in [0 .. n - 1 -> Seq(Ts)] /\ TimedEq(f, n - 1, s)
    BY <1>3
  <2>2. n \in Nat /\ n - 1 \in 0 .. n - 1
    BY <1>1
  <2>3. PICK x \in Seq(Ts) : x = Add(f[n - 1], s[n])
    BY <1>1, <2>1, <2>2, AddType
  <2>4. PICK g : g = [k \in 0 .. n |-> IF k = n THEN x ELSE f[k]]
    OBVIOUS
  <2>5. g \in [0 .. n -> Seq(Ts)]
    BY <2>1, <2>2, <2>4
  <2>6. /\ \A k \in 0 .. n - 1 : g[k] = f[k]
        /\ g[n] = x
    BY <2>2, <2>4
  <2>7. \A k \in 0 .. n - 1 : f[k] = IF k = 0 THEN <<>> ELSE Add(f[k - 1], s[k])
    BY <2>1 DEF TimedEq
  <2>8. ASSUME NEW k \in 0 .. n PROVE g[k] = IF k = 0 THEN <<>> ELSE Add(g[k - 1], s[k])
    <3>1. CASE k = n
      BY <2>2, <2>3, <2>6, <3>1
    <3>2. CASE k = 0
      BY <2>2, <2>6, <2>7, <3>2
    <3>3. CASE k # n /\ k # 0
      <4>1. k \in 0 .. n - 1 /\ k - 1 \in 0 .. n - 1
        BY <2>2, <3>3
      <4> QED
        BY <2>6, <2>7, <3>3, <4>1
    <3> QED
      BY <3>1, <3>2, <3>3
  <2>9. TimedEq(g, n, s)
    <3>1. g = [k \in 0 .. n |-> g[k]]
      BY <2>5
    <3> QED
      BY <2>8, <3>1 DEF TimedEq
  <2> QED
    BY <2>5, <2>9
<1> HIDE DEF Has
<1>4. S = {}
  <2>1. S \in SUBSET Nat /\ 0 \notin S
    BY <1>1, <1>2
  <2>2. ASSUME NEW k \in S PROVE k - 1 \in S
    <3>1. k \in 1 .. Len(s) /\ ~Has(k)
      BY <1>1, <1>2
    <3>2. ~Has(k - 1)
      BY <1>3, <3>1
    <3> QED
      BY <1>1, <3>1, <3>2
  <2> HIDE DEF S
  <2> QED
    BY <2>1, <2>2, NoLeast
<1>5. Has(Len(s))
  BY <1>1, <1>4
<1> QED
  BY <1>5 DEF Has

LEMMA TimedIs ==
    ASSUME NEW s \in Seq(DrawObj), NEW f, f = TimedUpTo(s)
    PROVE  /\ f \in [0 .. Len(s) -> Seq(Ts)] /\ f[0] = <<>> /\ Len(s) \in Nat
           /\ \A k \in 1 .. Len(s) : f[k] = Add(f[k - 1], s[k])
<1>1. PICK g : TimedEq(g, Len(s), s)
  BY TimedExists
<1>2. f = CHOOSE of : of = [k \in 0 .. Len(s) |->
              IF k = 0 THEN <<>>
              ELSE IF HasTs(s[k]) THEN Append(of[k - 1], s[k].ts) ELSE of[k - 1]]
  BY DEF TimedUpTo
<1>3. f = [k \in 0 .. Len(s) |-> IF k = 0 THEN <<>> ELSE Add(f[k - 1], s[k])]
  BY <1>1, <1>2 DEF TimedEq, Add
<1>4. /\ DOMAIN f = 0 .. Len(s) /\ Len(s) \in Nat
      /\ \A k \in 0 .. Len(s) : f[k] = IF k = 0 THEN <<>> ELSE Add(f[k - 1], s[k])
  BY <1>3
<1>5. f[0] = <<>> /\ \A k \in 1 .. Len(s) : f[k] = Add(f[k - 1], s[k])
  BY <1>4
<1> DEFINE S == {k \in 0 .. Len(s) : f[k] \notin Seq(Ts)}
<1>6. S = {}
  <2>3. <<>> \in Seq(Ts)
    OBVIOUS
  <2>4. 0 \notin S
    BY <1>5, <2>3
  <2>5. S \subseteq 0 .. Len(s)
    OBVIOUS
  <2>1. S \in SUBSET Nat /\ 0 \notin S
    BY <1>4, <2>4, <2>5
  <2>2. ASSUME NEW k \in S PROVE k - 1 \in S
    <3>1. k \in 1 .. Len(s) /\ f[k] \notin Seq(Ts)
      BY <2>1, <1>4
    <3>2. s[k] \in DrawObj /\ f[k] = Add(f[k - 1], s[k])
      BY <1>5, <3>1
    <3>3. f[k - 1] \notin Seq(Ts)
      BY <3>1, <3>2, AddType
    <3> QED
      BY <1>4, <3>1, <3>3
  <2> HIDE DEF S
  <2> QED
    BY <2>1, <2>2, NoLeast
<1>7. \A k \in 0 .. Len(s) : f[k] \in Seq(Ts)
  BY <1>6
<1>8. f \in [0 .. Len(s) -> Seq(Ts)]
  <2>1. f = [k \in 0 .. Len(s) |-> f[k]]
    BY <1>3
  <2> QED
    BY <1>7, <2>1
<1> QED
  BY <1>4, <1>5, <1>8

\* The timestamps of all the objects of s.
AllTimed(s) == TimedUpTo(s)[Len(s)]

LEMMA AllTimedType ==
    ASSUME NEW s \in Seq(DrawObj)
    PROVE  AllTimed(s) \in Seq(Ts) /\ (s = <<>> => AllTimed(s) = <<>>)
<1>1. PICK f : f = TimedUpTo(s)
  OBVIOUS
<1>2. f \in [0 .. Len(s) -> Seq(Ts)] /\ f[0] = <<>> /\ Len(s) \in Nat
  BY <1>1, TimedIs
<1> QED
  BY <1>1, <1>2 DEF AllTimed

\* Objects that differ in their skip and pending bits only.
Alike(a, b) == a.kind = b.kind /\ a.ts = b.ts /\ a.mts = b.mts

LEMMA AddAlike == ASSUME NEW q, NEW a, NEW b, Alike(a, b) PROVE Add(q, a) = Add(q, b)
  BY DEF Alike, Add, HasTs

LEMMA TimedPrefix ==
    ASSUME NEW s \in Seq(DrawObj), NEW t \in Seq(DrawObj), NEW n \in Nat, n <= Len(s), n <= Len(t),
           \A k \in 1 .. n : Alike(s[k], t[k])
    PROVE  \A k \in 0 .. n : TimedUpTo(s)[k] = TimedUpTo(t)[k]
<1>1. PICK f, g : f = TimedUpTo(s) /\ g = TimedUpTo(t)
  OBVIOUS
<1>2. /\ f[0] = <<>> /\ g[0] = <<>>
      /\ \A k \in 1 .. Len(s) : f[k] = Add(f[k - 1], s[k])
      /\ \A k \in 1 .. Len(t) : g[k] = Add(g[k - 1], t[k])
      /\ Len(s) \in Nat /\ Len(t) \in Nat
  BY <1>1, TimedIs
<1> DEFINE S == {k \in 0 .. n : f[k] # g[k]}
<1>3. S \in SUBSET Nat /\ 0 \notin S
  BY <1>2
<1>4. ASSUME NEW k \in S PROVE k - 1 \in S
  <2>1. k \in 1 .. n /\ f[k] # g[k] /\ k \in 1 .. Len(s) /\ k \in 1 .. Len(t)
    BY <1>2
  <2>2. f[k] = Add(f[k - 1], s[k]) /\ g[k] = Add(g[k - 1], t[k])
    BY <1>2, <2>1
  <2>3. Add(g[k - 1], s[k]) = Add(g[k - 1], t[k])
    BY <2>1, AddAlike
  <2>4. f[k - 1] # g[k - 1]
    BY <2>1, <2>2, <2>3
  <2> QED
    BY <2>1, <2>4
<1> HIDE DEF S
<1>5. S = {}
  BY <1>3, <1>4, NoLeast
<1> QED
  BY <1>1, <1>5 DEF S

LEMMA TimedSame ==
    ASSUME NEW s \in Seq(DrawObj), NEW t \in Seq(DrawObj), Len(s) = Len(t),
           \A k \in 1 .. Len(s) : Alike(s[k], t[k])
    PROVE  AllTimed(s) = AllTimed(t)
<1>1. Len(s) \in Nat /\ Len(s) <= Len(s) /\ Len(s) <= Len(t) /\ Len(s) \in 0 .. Len(s)
  OBVIOUS
<1>2. TimedUpTo(s)[Len(s)] = TimedUpTo(t)[Len(s)]
  BY <1>1, TimedPrefix
<1> QED
  BY <1>2 DEF AllTimed

\* One more at the end,
LEMMA TimedAppend ==
    ASSUME NEW s \in Seq(DrawObj), NEW t \in Seq(DrawObj), Len(t) = Len(s) + 1,
           \A k \in 1 .. Len(s) : Alike(t[k], s[k])
    PROVE  AllTimed(t) = Add(AllTimed(s), t[Len(t)])
<1>1. Len(s) \in Nat /\ Len(s) <= Len(s) /\ Len(s) <= Len(t) /\ Len(s) \in 0 .. Len(s)
      /\ Len(t) \in 1 .. Len(t) /\ Len(t) - 1 = Len(s)
  OBVIOUS
<1>2. TimedUpTo(t)[Len(s)] = TimedUpTo(s)[Len(s)]
  BY <1>1, TimedPrefix
<1>3. TimedUpTo(t)[Len(t)] = Add(TimedUpTo(t)[Len(t) - 1], t[Len(t)])
  BY <1>1, TimedIs
<1> QED
  BY <1>1, <1>2, <1>3 DEF AllTimed

LEMMA TsAssoc ==
    \A a, b, c \in Seq(Ts) : (a \o b) \o c = a \o (b \o c)
  BY ConcatAssociative

LEMMA AddConcat ==
    ASSUME NEW p \in Seq(Ts), NEW q \in Seq(Ts), NEW o \in DrawObj
    PROVE  Add(p \o q, o) = p \o Add(q, o)
<1>1. o.ts \in Ts /\ p \o q \in Seq(Ts)
  BY DEF DrawObj
<1>2. Append(p \o q, o.ts) = p \o Append(q, o.ts)
  <2>1. <<o.ts>> \in Seq(Ts) /\ Append(p \o q, o.ts) = (p \o q) \o <<o.ts>>
        /\ Append(q, o.ts) = q \o <<o.ts>>
    BY <1>1, AppendIsConcat
  <2> QED
    BY <2>1, ConcatAssociative
<1> QED
  BY <1>2 DEF Add

\* one less at the front,
LEMMA TimedCons ==
    ASSUME NEW s \in Seq(DrawObj), NEW t \in Seq(DrawObj), Len(s) = Len(t) + 1,
           \A k \in 1 .. Len(t) : t[k] = s[k + 1]
    PROVE  AllTimed(s) = Add(<<>>, s[1]) \o AllTimed(t)
<1>1. PICK f, g, p : f = TimedUpTo(s) /\ g = TimedUpTo(t) /\ p = Add(<<>>, s[1])
  OBVIOUS
<1>2. /\ f[0] = <<>> /\ g[0] = <<>> /\ g \in [0 .. Len(t) -> Seq(Ts)]
      /\ \A k \in 1 .. Len(s) : f[k] = Add(f[k - 1], s[k])
      /\ \A k \in 1 .. Len(t) : g[k] = Add(g[k - 1], t[k])
      /\ Len(s) \in Nat /\ Len(t) \in Nat
  BY <1>1, TimedIs
<1>3. 1 \in 1 .. Len(s) /\ s[1] \in DrawObj /\ <<>> \in Seq(Ts)
  BY <1>2
<1>4. p \in Seq(Ts)
  BY <1>1, <1>3, AddType
<1> DEFINE S == {k \in 0 .. Len(t) : f[k + 1] # p \o g[k]}
<1>5. S \in SUBSET Nat /\ 0 \notin S
  <2>1. S \in SUBSET Nat
    BY <1>2
  <2>2. f[0 + 1] = p
    BY <1>1, <1>2, <1>3
  <2>3. p \o g[0] = p
    BY <1>2, <1>4, ConcatEmptySeq
  <2> QED
    BY <2>1, <2>2, <2>3
<1>6. ASSUME NEW k \in S PROVE k - 1 \in S
  <2>1. k \in 1 .. Len(t) /\ f[k + 1] # p \o g[k]
    BY <1>2, <1>5
  <2>2. /\ k + 1 \in 1 .. Len(s) /\ (k + 1) - 1 = k /\ k - 1 \in 0 .. Len(t) /\ (k - 1) + 1 = k
        /\ t[k] = s[k + 1] /\ t[k] \in DrawObj
    BY <1>2, <2>1
  <2>3. f[k + 1] = Add(f[k], t[k]) /\ g[k] = Add(g[k - 1], t[k]) /\ g[k - 1] \in Seq(Ts)
    BY <1>2, <2>1, <2>2
  <2>4. Add(p \o g[k - 1], t[k]) = p \o Add(g[k - 1], t[k])
    BY <1>4, <2>2, <2>3, AddConcat
  <2>5. f[k] # p \o g[k - 1]
    BY <2>1, <2>3, <2>4
  <2> QED
    BY <2>2, <2>5
<1> HIDE DEF S
<1>7. S = {}
  BY <1>5, <1>6, NoLeast
<1>8. Len(t) \in 0 .. Len(t) /\ f[Len(t) + 1] = p \o g[Len(t)]
  <2>1. Len(t) \in 0 .. Len(t)
    BY <1>2
  <2>2. \A k \in 0 .. Len(t) : f[k + 1] = p \o g[k]
    BY <1>7, ZenonT(30) DEF S
  <2> QED
    BY <2>1, <2>2
<1> QED
  BY <1>1, <1>8 DEF AllTimed

\* and the timestamp of each object is among them.
LEMMA TimedHas ==
    ASSUME NEW s \in Seq(DrawObj), NEW k \in 1 .. Len(s), HasTs(s[k])
    PROVE  \E j \in 1 .. Len(AllTimed(s)) : AllTimed(s)[j] = s[k].ts
<1>1. PICK f : f = TimedUpTo(s)
  OBVIOUS
<1>2. /\ f \in [0 .. Len(s) -> Seq(Ts)] /\ Len(s) \in Nat
      /\ \A i \in 1 .. Len(s) : f[i] = Add(f[i - 1], s[i])
  BY <1>1, TimedIs
<1> DEFINE Has(q) == \E j \in 1 .. Len(q) : q[j] = s[k].ts
           S == {d \in 0 .. Len(s) - k : ~Has(f[k + d])}
<1>3. ASSUME NEW q \in Seq(Ts), NEW o \in DrawObj, Has(q) \/ o = s[k] PROVE Has(Add(q, o))
  <2>1. CASE ~HasTs(o)
    BY <1>3, <2>1 DEF Add
  <2>2. CASE HasTs(o)
    <3>1. /\ Len(Append(q, o.ts)) = Len(q) + 1 /\ Len(q) \in Nat
          /\ \A j \in 1 .. Len(q) : Append(q, o.ts)[j] = q[j]
          /\ Append(q, o.ts)[Len(q) + 1] = o.ts
      OBVIOUS
    <3>2. Has(Append(q, o.ts))
      BY <1>3, <3>1
    <3> QED
      BY <2>2, <3>2 DEF Add
  <2> QED
    BY <2>1, <2>2
<1> HIDE DEF Has
<1>4. S \in SUBSET Nat /\ 0 \notin S
  <2>1. k - 1 \in 0 .. Len(s) /\ k \in 1 .. Len(s) /\ k + 0 = k /\ s[k] \in DrawObj
    BY <1>2
  <2>2. Has(f[k + 0])
    BY <1>2, <1>3, <2>1
  <2> QED
    BY <1>2, <2>2
<1>5. ASSUME NEW d \in S PROVE d - 1 \in S
  <2>1. d \in 1 .. Len(s) - k /\ ~Has(f[k + d])
    BY <1>2, <1>4
  <2>2. PICK e \in 1 .. Len(s) : e = k + d /\ e - 1 = k + (d - 1)
    BY <1>2, <2>1
  <2>3. e - 1 \in 0 .. Len(s) /\ d - 1 \in 0 .. Len(s) - k
    BY <1>2, <2>1, <2>2
  <2>7. s[e] \in DrawObj
    BY <2>2
  <2>8. f[e - 1] \in Seq(Ts)
    BY <1>2, <2>3
  <2>4. s[e] \in DrawObj /\ f[e] = Add(f[e - 1], s[e]) /\ f[e - 1] \in Seq(Ts)
    BY <1>2, <2>2, <2>7, <2>8
  <2>5. ~Has(f[e])
    BY <2>1, <2>2
  <2>6. ~Has(f[e - 1])
    BY <1>3, <2>4, <2>5
  <2> QED
    BY <2>2, <2>3, <2>6
<1> HIDE DEF S
<1>6. S = {}
  BY <1>4, <1>5, NoLeast
<1>7. Len(s) - k \in 0 .. Len(s) - k /\ k + (Len(s) - k) = Len(s)
  BY <1>2
<1>8. Has(f[Len(s)])
  BY <1>6, <1>7 DEF S
<1> QED
  BY <1>1, <1>8 DEF Has, AllTimed

-----------------------------------------------------------------------------
(* The objects of the ring as a sequence.                                  *)

\* The slot j after h.
Pos(h, j) == IF h + j < QSize THEN h + j ELSE h + j - QSize

LEMMA PosIs ==
    ASSUME NEW h \in Slots, NEW j \in 0 .. QSize - 1
    PROVE  Pos(h, j) \in Slots /\ (h + j) % QSize = Pos(h, j) /\ Dist(Pos(h, j), h) = j
<1>1. PICK d \in Int : d = h + j
  BY SizeFacts
<1>2. 0 <= d /\ d < QSize + QSize
  BY <1>1, SizeFacts
<1>3. d % QSize = IF d < QSize THEN d ELSE d - QSize
  BY <1>2, SizeFacts
<1> QED
  BY <1>1, <1>3, SizeFacts DEF Pos, Dist

RingT ==
    /\ drawq \in [Slots -> DrawObj] /\ drawq_head \in Slots /\ drawq_tail \in Slots
    /\ Cardinality(Occupied) = Used

SeqT ==
    /\ RingSeq \in Seq(DrawObj) /\ Len(RingSeq) = Used /\ Used \in 0 .. QSize - 1
    /\ \A k \in 1 .. Used : /\ RingSeq[k] = drawq[Pos(drawq_head, k - 1)]
                            /\ Pos(drawq_head, k - 1) \in Occupied

LEMMA RingSeqIs == RingT => SeqT
<1> SUFFICES ASSUME RingT PROVE SeqT
  OBVIOUS
<1>1. Used \in 0 .. QSize - 1 /\ Used = Dist(drawq_tail, drawq_head)
  BY OccupiedIs DEF RingT
<1>2. ASSUME NEW k \in 1 .. Used
      PROVE  /\ (drawq_head + k - 1) % QSize = Pos(drawq_head, k - 1)
             /\ Pos(drawq_head, k - 1) \in Slots /\ Pos(drawq_head, k - 1) \in Occupied
  <2>1. PICK j \in 0 .. QSize - 1 : j = k - 1 /\ j < Used
    BY <1>1, SizeFacts
  <2>2. drawq_head \in Slots /\ drawq_head + k - 1 = drawq_head + j
    BY <1>1, <2>1, SizeFacts DEF RingT
  <2>3. Pos(drawq_head, j) \in Slots /\ (drawq_head + j) % QSize = Pos(drawq_head, j)
        /\ Dist(Pos(drawq_head, j), drawq_head) = j
    BY <2>2, PosIs
  <2>4. Occupied = {i \in Slots : Dist(i, drawq_head) < Used}
    BY <1>1, OccupiedIs DEF RingT
  <2>5. Pos(drawq_head, j) \in Occupied
    BY <2>1, <2>3, <2>4
  <2> QED
    BY <2>1, <2>2, <2>3, <2>5
<1>3. RingSeq = [k \in 1 .. Used |-> drawq[(drawq_head + k - 1) % QSize]]
  BY DEF RingSeq, RingT
<1>4. \A k \in 1 .. Used : RingSeq[k] = drawq[Pos(drawq_head, k - 1)] /\ RingSeq[k] \in DrawObj
  BY <1>2, <1>3 DEF RingT
<1>5. RingSeq \in Seq(DrawObj) /\ Len(RingSeq) = Used
  <2>1. Used \in Nat
    BY <1>1, SizeFacts
  <2> QED
    BY <1>3, <1>4, <2>1
<1> QED
  BY <1>1, <1>2, <1>4, <1>5 DEF SeqT

LEMMA RingSeqNext == ASSUME RingT' PROVE SeqT'
  BY RingSeqIs, PTL

\* An object in the ring is in the sequence.
LEMMA RingSeqHas ==
    ASSUME RingT, NEW i \in Occupied PROVE \E k \in 1 .. Len(RingSeq) : RingSeq[k] = drawq[i]
<1>1. Used \in 0 .. QSize - 1 /\ Occupied = {j \in Slots : Dist(j, drawq_head) < Used}
  BY OccupiedIs DEF RingT
<1>2. i \in Slots /\ Dist(i, drawq_head) < Used /\ drawq_head \in Slots
  BY <1>1 DEF RingT
<1>3. PICK k \in 1 .. Used : k - 1 = Dist(i, drawq_head)
  <2>1. Dist(i, drawq_head) \in Nat
    BY <1>2, SizeFacts DEF Dist
  <2> QED
    BY <1>1, <1>2, <2>1
<1>4. Pos(drawq_head, k - 1) = i
  BY <1>2, <1>3, SizeFacts DEF Pos, Dist
<1> QED
  BY <1>3, <1>4, RingSeqIs DEF SeqT

\* Nothing moves; one more at the tail,
LEMMA SeqSame ==
    ASSUME RingT, RingT', drawq_head' = drawq_head, drawq_tail' = drawq_tail,
           \A i \in Slots : Alike(drawq'[i], drawq[i])
    PROVE  Len(RingSeq') = Len(RingSeq) /\ \A k \in 1 .. Len(RingSeq) : Alike(RingSeq'[k], RingSeq[k])
<1>1. Used' = Used
  BY DEF Used
<1>2. /\ Len(RingSeq) = Used /\ Len(RingSeq') = Used'
      /\ \A k \in 1 .. Used : /\ RingSeq[k] = drawq[Pos(drawq_head, k - 1)]
                              /\ Pos(drawq_head, k - 1) \in Occupied
      /\ \A k \in 1 .. Used' : RingSeq'[k] = drawq'[Pos(drawq_head', k - 1)]
  BY RingSeqIs, RingSeqNext DEF SeqT
<1>3. Occupied \subseteq Slots
  BY DEF Occupied
<1> QED
  BY <1>1, <1>2, <1>3

LEMMA SeqPush ==
    ASSUME RingT, RingT', drawq_head' = drawq_head, drawq_tail' = DRAWQUEUE_NEXT(drawq_tail),
           Used < QSize - 1, \A i \in Occupied : Alike(drawq'[i], drawq[i])
    PROVE  /\ Len(RingSeq') = Len(RingSeq) + 1 /\ RingSeq'[Len(RingSeq')] = drawq'[drawq_tail]
           /\ \A k \in 1 .. Len(RingSeq) : Alike(RingSeq'[k], RingSeq[k])
<1>1. Used' = Used + 1 /\ Used \in Nat
  BY RingPush, RingSeqIs, SizeFacts DEF RingT, SeqT
<1>2. /\ Len(RingSeq) = Used /\ Len(RingSeq') = Used'
      /\ \A k \in 1 .. Used : /\ RingSeq[k] = drawq[Pos(drawq_head, k - 1)]
                              /\ Pos(drawq_head, k - 1) \in Occupied
      /\ \A k \in 1 .. Used' : RingSeq'[k] = drawq'[Pos(drawq_head', k - 1)]
  BY RingSeqIs, RingSeqNext DEF SeqT
<1>3. Pos(drawq_head, Used) = drawq_tail
  <2>1. Used = Dist(drawq_tail, drawq_head) /\ drawq_tail \in Slots /\ drawq_head \in Slots
    BY OccupiedIs DEF RingT
  <2> QED
    BY <2>1, SizeFacts DEF Pos, Dist
<1>4. Used' \in 1 .. Used' /\ Used' - 1 = Used /\ \A k \in 1 .. Used : k \in 1 .. Used'
  BY <1>1
<1>5. RingSeq'[Used'] = drawq'[drawq_tail]
  BY <1>2, <1>3, <1>4
<1>6. \A k \in 1 .. Used : Alike(RingSeq'[k], RingSeq[k])
  BY <1>2, <1>4
<1> QED
  BY <1>1, <1>2, <1>5, <1>6

\* one less at the head,
LEMMA SeqPop ==
    ASSUME RingT, RingT', drawq_head' = DRAWQUEUE_NEXT(drawq_head), drawq_tail' = drawq_tail,
           drawq_head # drawq_tail, \A i \in Slots : i # drawq_head => drawq'[i] = drawq[i]
    PROVE  /\ Len(RingSeq) = Len(RingSeq') + 1 /\ RingSeq[1] = drawq[drawq_head]
           /\ \A k \in 1 .. Len(RingSeq') : RingSeq'[k] = RingSeq[k + 1]
<1>1. Used' = Used - 1 /\ Used \in Nat /\ Used >= 1
  BY RingPop, RingSeqIs, OccupiedIs, SizeFacts DEF RingT, SeqT
<1>2. /\ Len(RingSeq) = Used /\ Len(RingSeq') = Used'
      /\ \A k \in 1 .. Used : RingSeq[k] = drawq[Pos(drawq_head, k - 1)]
      /\ \A k \in 1 .. Used' : RingSeq'[k] = drawq'[Pos(drawq_head', k - 1)]
  BY RingSeqIs, RingSeqNext DEF SeqT
<1>3. /\ drawq_head \in Slots /\ Used <= QSize - 1
      /\ drawq_head' = (IF drawq_head = QSize - 1 THEN 0 ELSE drawq_head + 1)
  BY NextSlot, RingSeqIs DEF RingT, SeqT
<1>4. RingSeq[1] = drawq[drawq_head]
  <2>1. 1 \in 1 .. Used /\ Pos(drawq_head, 1 - 1) = drawq_head
    BY <1>1, <1>3, SizeFacts DEF Pos
  <2> QED
    BY <1>2, <2>1
<1>5. ASSUME NEW k \in 1 .. Used' PROVE RingSeq'[k] = RingSeq[k + 1]
  <2>1. /\ k + 1 \in 1 .. Used /\ (k + 1) - 1 = k /\ k \in 1 .. QSize - 1
    BY <1>1, <1>3, SizeFacts
  <2>2. Pos(drawq_head', k - 1) = Pos(drawq_head, k) /\ Pos(drawq_head, k) # drawq_head
        /\ Pos(drawq_head, k) \in Slots
    BY <1>3, <2>1, SizeFacts DEF Pos
  <2>3. RingSeq[k + 1] = drawq[Pos(drawq_head, k)]
    BY <1>2, <2>1
  <2> QED
    BY <1>2, <2>2, <2>3
<1> QED
  BY <1>1, <1>2, <1>4, <1>5

\* and one more at the head.
LEMMA SeqRequeue ==
    ASSUME RingT, RingT', drawq_head' = PrevSlot, drawq_tail' = drawq_tail,
           Used < QSize - 1, \A i \in Slots : i # PrevSlot => drawq'[i] = drawq[i]
    PROVE  /\ Len(RingSeq') = Len(RingSeq) + 1 /\ RingSeq'[1] = drawq'[PrevSlot]
           /\ \A k \in 1 .. Len(RingSeq) : RingSeq[k] = RingSeq'[k + 1]
<1>1. Used' = Used + 1 /\ Used \in Nat
  BY RingRequeue, RingSeqIs, SizeFacts DEF RingT, SeqT
<1>2. /\ Len(RingSeq) = Used /\ Len(RingSeq') = Used'
      /\ \A k \in 1 .. Used : RingSeq[k] = drawq[Pos(drawq_head, k - 1)]
      /\ \A k \in 1 .. Used' : RingSeq'[k] = drawq'[Pos(drawq_head', k - 1)]
  BY RingSeqIs, RingSeqNext DEF SeqT
<1>3. /\ drawq_head \in Slots /\ Used < QSize - 1
      /\ drawq_head' = (IF drawq_head = 0 THEN QSize - 1 ELSE drawq_head - 1)
      /\ drawq_head' \in Slots /\ PrevSlot = drawq_head'
  BY SizeFacts DEF RingT, PrevSlot
<1>4. RingSeq'[1] = drawq'[PrevSlot]
  <2>1. 1 \in 1 .. Used' /\ Pos(drawq_head', 1 - 1) = drawq_head'
    BY <1>1, <1>3, SizeFacts DEF Pos
  <2> QED
    BY <1>2, <1>3, <2>1
<1>5. ASSUME NEW k \in 1 .. Used PROVE RingSeq[k] = RingSeq'[k + 1]
  <2>1. /\ k + 1 \in 1 .. Used' /\ (k + 1) - 1 = k /\ k \in 1 .. QSize - 2
    BY <1>1, <1>3, SizeFacts
  <2>2. Pos(drawq_head', k) = Pos(drawq_head, k - 1) /\ Pos(drawq_head', k) # drawq_head'
        /\ Pos(drawq_head', k) \in Slots
    <3>1. PICK h \in Slots, g \in Slots : h = drawq_head /\ g = drawq_head'
      BY <1>3
    <3>2. g = (IF h = 0 THEN QSize - 1 ELSE h - 1)
      BY <1>3, <3>1
    <3>3. k \in Int /\ 1 <= k /\ k <= QSize - 2 /\ h \in Int /\ 0 <= h /\ h <= QSize - 1
      BY <2>1, SizeFacts
    <3>4. Pos(g, k) = Pos(h, k - 1) /\ Pos(g, k) # g /\ Pos(g, k) \in 0 .. (QSize - 1)
      <4>1. CASE h = 0
        BY <3>2, <3>3, <4>1, SizeFacts DEF Pos
      <4>2. CASE h # 0
        BY <3>2, <3>3, <4>2, SizeFacts DEF Pos
      <4> QED
        BY <4>1, <4>2
    <3> QED
      BY <3>1, <3>4, SizeFacts
  <2>3. RingSeq'[k + 1] = drawq'[Pos(drawq_head', k)]
    BY <1>2, <2>1
  <2> QED
    BY <1>2, <1>3, <2>2, <2>3
<1> QED
  BY <1>1, <1>2, <1>4, <1>5

-----------------------------------------------------------------------------
(* The pipeline.                                                           *)

PipeT ==
    /\ RingT /\ RingSeq \in Seq(DrawObj) /\ gpu \in Seq(Ts) /\ HeldTs \in Seq(Ts)
    /\ AllTimed(RingSeq) \in Seq(Ts) /\ gpu \o HeldTs \in Seq(Ts) /\ Pipeline \in Seq(Ts)
    /\ Pipeline = (gpu \o HeldTs) \o AllTimed(RingSeq)
    /\ Holds => wk.obj # NoObj /\ wk.obj \in DrawObj /\ HasTs(wk.obj) /\ HeldTs = <<wk.obj.ts>>
    /\ ~Holds => wk.obj = NoObj /\ HeldTs = <<>>

LEMMA PipeIs == IInv => PipeT
<1> SUFFICES ASSUME IInv PROVE PipeT
  OBVIOUS
<1>1. RingT
  BY DEF IInv, TypeI, RingI, RingT
<1>2. RingSeq \in Seq(DrawObj) /\ gpu \in Seq(Ts) /\ wk.obj \in DrawObj
  BY <1>1, RingSeqIs DEF SeqT, IInv, TypeI, WorkerT
<1>3. /\ Holds => wk.obj # NoObj /\ HasTs(wk.obj)
      /\ ~Holds => wk.obj = NoObj
  BY Zeros DEF IInv, WorkerI
<1>4. wk.obj.ts \in Ts
  BY <1>2 DEF DrawObj
<1>5. /\ Holds => HeldTs = <<wk.obj.ts>>
      /\ ~Holds => HeldTs = <<>>
  BY <1>3 DEF HeldTs
<1>6. HeldTs \in Seq(Ts)
  <2>1. <<>> \in Seq(Ts) /\ <<wk.obj.ts>> \in Seq(Ts)
    BY <1>4
  <2> QED
    BY <1>5, <2>1
<1>7. AllTimed(RingSeq) \in Seq(Ts)
  BY <1>2, AllTimedType
<1>8. Pipeline = (gpu \o HeldTs) \o AllTimed(RingSeq)
  BY DEF Pipeline, AllTimed
<1>9. gpu \o HeldTs \in Seq(Ts) /\ Pipeline \in Seq(Ts)
  BY <1>2, <1>6, <1>7, <1>8, ConcatProperties
<1> QED
  BY <1>1, <1>2, <1>3, <1>5, <1>6, <1>7, <1>8, <1>9 DEF PipeT

LEMMA PipeNext == ASSUME IInv' PROVE PipeT'
  BY PipeIs, PTL

\* The objects in the ring and in the dispatcher's hands.
Objs == {drawq[i] : i \in Occupied} \cup (IF wk.obj = NoObj THEN {} ELSE {wk.obj})

\* The timestamps of these objects are in the pipeline.
ObjsIn == \A o \in Objs : o \in DrawObj /\ (HasTs(o) => \E j \in 1 .. Len(Pipeline) : Pipeline[j] = o.ts)

LEMMA ObjsInIs == PipeT => ObjsIn
<1> SUFFICES ASSUME PipeT PROVE ObjsIn
  OBVIOUS
<1>1. PICK b, a : b = gpu \o HeldTs /\ a = AllTimed(RingSeq)
  OBVIOUS
<1>2. /\ b \in Seq(Ts) /\ a \in Seq(Ts) /\ Pipeline = b \o a
      /\ gpu \in Seq(Ts) /\ HeldTs \in Seq(Ts)
  BY <1>1 DEF PipeT
<1>3. /\ Len(b) \in Nat /\ Len(a) \in Nat /\ Len(Pipeline) = Len(b) + Len(a)
      /\ \A i \in 1 .. Len(b) + Len(a) : Pipeline[i] = IF i <= Len(b) THEN b[i] ELSE a[i - Len(b)]
  BY <1>2, ConcatProperties
<1>4. ASSUME NEW o, o = wk.obj, o # NoObj
      PROVE  o \in DrawObj /\ \E j \in 1 .. Len(Pipeline) : Pipeline[j] = o.ts
  <2>1. Holds /\ HeldTs = <<o.ts>> /\ o \in DrawObj
    BY <1>4 DEF PipeT
  <2>2. Len(HeldTs) = 1 /\ HeldTs[1] = o.ts /\ Len(gpu) \in Nat
    BY <1>2, <2>1
  <2>3. Len(b) = Len(gpu) + 1 /\ b[Len(gpu) + 1] = HeldTs[(Len(gpu) + 1) - Len(gpu)]
    <3>1. /\ Len(b) = Len(gpu) + Len(HeldTs)
          /\ \A i \in 1 .. Len(gpu) + Len(HeldTs) :
                b[i] = IF i <= Len(gpu) THEN gpu[i] ELSE HeldTs[i - Len(gpu)]
      BY <1>1, <1>2, ConcatProperties
    <3> QED
      BY <2>2, <3>1
  <2>4. Len(gpu) + 1 \in 1 .. Len(Pipeline) /\ Pipeline[Len(gpu) + 1] = b[Len(gpu) + 1]
    BY <1>3, <2>2, <2>3
  <2>5. (Len(gpu) + 1) - Len(gpu) = 1
    BY <2>2
  <2> QED
    BY <2>1, <2>2, <2>3, <2>4, <2>5
<1>5. ASSUME NEW i \in Occupied, HasTs(drawq[i])
      PROVE  \E j \in 1 .. Len(Pipeline) : Pipeline[j] = drawq[i].ts
  <2>1. RingT /\ RingSeq \in Seq(DrawObj)
    BY DEF PipeT
  <2>2. PICK k \in 1 .. Len(RingSeq) : RingSeq[k] = drawq[i]
    BY <2>1, RingSeqHas
  <2>3. PICK j \in 1 .. Len(a) : a[j] = drawq[i].ts
    BY <1>1, <1>5, <2>1, <2>2, TimedHas
  <2>4. PICK e \in Nat : e = Len(b) + j
    BY <1>3
  <2>5. e \in 1 .. Len(b) + Len(a) /\ e > Len(b) /\ e - Len(b) = j
    BY <1>3, <2>3, <2>4
  <2>6. Pipeline[e] = a[j]
    BY <1>3, <2>5
  <2> QED
    BY <1>3, <2>3, <2>5, <2>6
<1>6. \A i \in Occupied : drawq[i] \in DrawObj
  BY DEF PipeT, RingT, Occupied
<1> QED
  BY <1>4, <1>5, <1>6 DEF ObjsIn, Objs

LEMMA ObjsInNext == ASSUME IInv' PROVE ObjsIn'
  BY PipeIs, ObjsInIs, PTL

-----------------------------------------------------------------------------
(* The order of the pipeline in the words of HgslInOrder.                  *)

LEMMA SubBridge ==
    /\ InOrder!Ts = Ts /\ InOrder!TsMod = TsMod
    /\ \A a, b : InOrder!U32Sub(a, b) = U32Sub(a, b)
    /\ \A a, b : InOrder!hgsl_ts32_ge(a, b) = hgsl_ts32_ge(a, b)
  BY DEF InOrder!Ts, InOrder!TsMod, InOrder!U32Sub, InOrder!hgsl_ts32_ge, Ts, TsMod, U32Sub, hgsl_ts32_ge

\* The timestamps p ascend from e to q, inside the window.
Linear(p, e, q) ==
    /\ p \in Seq(Ts) /\ e \in Ts /\ q \in Ts
    /\ \A i \in 1 .. Len(p) : 0 < U32Sub(p[i], e) /\ U32Sub(p[i], e) <= U32Sub(q, e)
    /\ \A i, j \in 1 .. Len(p) : i < j => U32Sub(p[i], e) < U32Sub(p[j], e)
    /\ U32Sub(q, e) < Half

LEMMA OrderLinear == OrderI <=> Linear(Pipeline, eop, queued_ts)
<1>1. Pipeline \in Seq(Ts) => DOMAIN Pipeline = 1 .. Len(Pipeline)
  OBVIOUS
<1> QED
  BY <1>1, SubBridge DEF OrderI, Linear, InOrder!TypeOK, InOrder!TimeLinear, InOrder!Ahead

\* A marker waits for what was pending before it: when something older than the
\* marker is pending, marker_timestamp is no older than that and still ahead.
MarkAt(o, p, e) ==
    IsMarker(o) =>
        \A i \in 1 .. Len(p) : U32Sub(p[i], e) < U32Sub(o.ts, e) =>
            U32Sub(p[i], e) <= U32Sub(o.mts, e) /\ U32Sub(o.mts, e) < Half

MarkI == \A o \in Objs : MarkAt(o, Pipeline, eop)

LEMMA SubNat == ASSUME NEW a \in Ts, NEW b \in Ts PROVE U32Sub(a, b) \in Nat
  BY HalfAssumption DEF U32Sub, Ts, TsMod

LEMMA Rebase ==
    ASSUME NEW x \in Ts, NEW h \in Ts, NEW e \in Ts, U32Sub(h, e) <= U32Sub(x, e)
    PROVE  U32Sub(x, h) = U32Sub(x, e) - U32Sub(h, e)
  BY HalfAssumption DEF U32Sub, Ts, TsMod

LEMMA MarkAlike ==
    ASSUME NEW a, NEW b, NEW p, NEW e, Alike(a, b), MarkAt(b, p, e) PROVE MarkAt(a, p, e)
  BY DEF Alike, MarkAt, IsMarker

LEMMA MarkEmpty == ASSUME NEW o, NEW e PROVE MarkAt(o, <<>>, e)
  BY DEF MarkAt

LEMMA MarkSub ==
    ASSUME NEW o, NEW p, NEW e, NEW p2, MarkAt(o, p, e),
           \A i \in 1 .. Len(p2) : \E j \in 1 .. Len(p) : p2[i] = p[j]
    PROVE  MarkAt(o, p2, e)
  BY DEF MarkAt

LEMMA AppendTs ==
    ASSUME NEW p \in Seq(Ts), NEW ts \in Ts, NEW p2, p2 = Append(p, ts)
    PROVE  /\ Len(p) \in Nat /\ Len(p2) = Len(p) + 1 /\ p2[Len(p) + 1] = ts
           /\ \A i \in 1 .. Len(p2) : i = Len(p) + 1 \/ (i \in 1 .. Len(p) /\ p2[i] = p[i])
<1>1. /\ Len(p) \in Nat /\ Len(p2) = Len(p) + 1 /\ p2[Len(p) + 1] = ts
      /\ \A i \in 1 .. Len(p) : p2[i] = p[i]
  BY AppendProperties
<1> QED
  BY <1>1

\* A newer timestamp does not matter to a marker that is queued,
LEMMA MarkQueue ==
    ASSUME NEW p, NEW e, NEW q, Linear(p, e, q), NEW ts \in Ts, U32Sub(q, e) < U32Sub(ts, e),
           NEW o, MarkAt(o, p, e), NEW j \in 1 .. Len(p), p[j] = o.ts, NEW p2, p2 = Append(p, ts)
    PROVE  MarkAt(o, p2, e)
<1>1. p \in Seq(Ts) /\ e \in Ts /\ q \in Ts
  BY DEF Linear
<1>2. U32Sub(o.ts, e) <= U32Sub(q, e) /\ o.ts \in Ts
  BY <1>1 DEF Linear
<1>3. U32Sub(o.ts, e) \in Nat /\ U32Sub(q, e) \in Nat /\ U32Sub(ts, e) \in Nat
  BY <1>1, <1>2, SubNat
<1>4. ~(U32Sub(ts, e) < U32Sub(o.ts, e))
  BY <1>2, <1>3
<1>5. \A i \in 1 .. Len(p2) : p2[i] = ts \/ (i \in 1 .. Len(p) /\ p2[i] = p[i])
  BY <1>1, AppendTs
<1> QED
  BY <1>4, <1>5 DEF MarkAt

\* a new marker waits for the last timestamp queued,
LEMMA MarkNew ==
    ASSUME NEW p, NEW e, NEW q, Linear(p, e, q), NEW ts \in Ts, NEW o, o.ts = ts, o.mts = q,
           NEW p2, p2 = Append(p, ts)
    PROVE  MarkAt(o, p2, e)
<1>1. p \in Seq(Ts) /\ e \in Ts
  BY DEF Linear
<1>2. \A i \in 1 .. Len(p2) : p2[i] = ts \/ (i \in 1 .. Len(p) /\ p2[i] = p[i])
  BY <1>1, AppendTs
<1>3. ~(U32Sub(ts, e) < U32Sub(ts, e))
  BY <1>1, SubNat
<1>4. U32Sub(q, e) < Half /\ \A i \in 1 .. Len(p) : U32Sub(p[i], e) <= U32Sub(q, e)
  BY DEF Linear
<1> QED
  BY <1>2, <1>3, <1>4 DEF MarkAt

\* and the retirement of the oldest moves everything by the same distance.
LEMMA MarkRetire ==
    ASSUME NEW p, NEW e, NEW q, Linear(p, e, q), p # <<>>, NEW o \in DrawObj, MarkAt(o, p, e),
           NEW h, h = Head(p), NEW p2, p2 = Tail(p), NEW j \in 1 .. Len(p2), p2[j] = o.ts
    PROVE  MarkAt(o, p2, h)
<1>1. p \in Seq(Ts) /\ e \in Ts /\ q \in Ts /\ o.ts \in Ts /\ o.mts \in Ts
  BY DEF Linear, DrawObj
<1>2. /\ h = p[1] /\ h \in Ts /\ p2 \in Seq(Ts) /\ Len(p) \in Nat /\ Len(p) >= 1 /\ Len(p2) = Len(p) - 1
      /\ \A i \in 1 .. Len(p2) : p2[i] = p[i + 1]
  BY <1>1
<1>3. \A i \in 1 .. Len(p2) : /\ i + 1 \in 1 .. Len(p) /\ p2[i] = p[i + 1] /\ p2[i] \in Ts
                              /\ U32Sub(h, e) < U32Sub(p2[i], e)
  <2>1. ASSUME NEW i \in 1 .. Len(p2) PROVE i + 1 \in 1 .. Len(p) /\ 1 \in 1 .. Len(p) /\ 1 < i + 1
    BY <1>2
  <2>2. \A i \in 1 .. Len(p2) : p2[i] \in Ts
    BY <1>2
  <2> QED
    BY <1>2, <2>1, <2>2 DEF Linear
<1>4. U32Sub(h, e) \in Nat /\ \A x \in Ts : U32Sub(x, e) \in Nat
  BY <1>1, <1>2, SubNat
<1>5. \A x \in Ts : U32Sub(h, e) < U32Sub(x, e) => U32Sub(x, h) = U32Sub(x, e) - U32Sub(h, e)
  <2>1. ASSUME NEW x \in Ts, U32Sub(h, e) < U32Sub(x, e) PROVE U32Sub(x, h) = U32Sub(x, e) - U32Sub(h, e)
    BY <1>1, <1>2, <1>4, <2>1, Rebase
  <2> QED
    BY <2>1
<1>6. U32Sub(o.ts, h) = U32Sub(o.ts, e) - U32Sub(h, e)
  BY <1>1, <1>3, <1>5
<1>7. ASSUME IsMarker(o), NEW i \in 1 .. Len(p2), U32Sub(p2[i], h) < U32Sub(o.ts, h)
      PROVE  U32Sub(p2[i], h) <= U32Sub(o.mts, h) /\ U32Sub(o.mts, h) < Half
  <2>1. PICK x \in Ts : x = p2[i] /\ U32Sub(h, e) < U32Sub(x, e)
    BY <1>3
  <2>2. PICK a \in Nat, b \in Nat, c \in Nat, d \in Nat :
            /\ a = U32Sub(x, e) /\ b = U32Sub(o.ts, e) /\ c = U32Sub(o.mts, e) /\ d = U32Sub(h, e)
    BY <1>1, <1>4
  <2>3. U32Sub(x, h) = a - d /\ U32Sub(o.ts, h) = b - d /\ d < a
    BY <1>5, <1>6, <2>1, <2>2
  <2>4. a < b
    BY <1>7, <2>1, <2>2, <2>3
  <2>5. a <= c /\ c < Half
    BY <1>3, <1>7, <2>1, <2>2, <2>4 DEF MarkAt
  <2>6. U32Sub(o.mts, h) = c - d
    <3>1. d < c
      BY <2>3, <2>5
    <3>2. U32Sub(h, e) < U32Sub(o.mts, e) /\ o.mts \in Ts
      BY <1>1, <2>2, <3>1
    <3>3. U32Sub(o.mts, h) = U32Sub(o.mts, e) - U32Sub(h, e)
      BY <1>5, <3>2
    <3> QED
      BY <2>2, <3>3
  <2>7. a - d <= c - d /\ c - d < Half
    BY <2>3, <2>5, HalfAssumption
  <2> QED
    BY <2>1, <2>3, <2>6, <2>7
<1> QED
  BY <1>7 DEF MarkAt

-----------------------------------------------------------------------------
(* Steps of the pipeline.                                                  *)

\* What a step of the draw queue must do.
Good == [InOrder!Next]_(InOrder!vars) /\ MarkI'

LEMMA GoodSame ==
    ASSUME IInv, MarkI, Pipeline' = Pipeline, UNCHANGED <<queued_ts, eop>>,
           \A o \in Objs' : \E u \in Objs : Alike(o, u)
    PROVE  Good
<1>1. UNCHANGED InOrder!vars
  BY DEF InOrder!vars
<1>2. ASSUME NEW o \in Objs' PROVE MarkAt(o, Pipeline', eop')
  BY MarkAlike DEF MarkI
<1> QED
  BY <1>1, <1>2 DEF Good, MarkI

LEMMA GoodQueue ==
    ASSUME IInv, MarkI, OrderI, NEW ts \in Ts, InOrder!IsNext(ts),
           Pipeline' = Append(Pipeline, ts), queued_ts' = ts, eop' = eop,
           \A o \in Objs' : \/ \E u \in Objs : Alike(o, u)
                            \/ o.ts = ts /\ (IsMarker(o) => o.mts = queued_ts)
    PROVE  Good
<1>1. Linear(Pipeline, eop, queued_ts) /\ U32Sub(queued_ts, eop) < U32Sub(ts, eop)
  BY OrderLinear, SubBridge DEF InOrder!IsNext, InOrder!Ahead
<1>2. InOrder!Next
  <2>1. InOrder!Queue(ts)
    BY DEF InOrder!Queue
  <2> QED
    BY <2>1, SubBridge DEF InOrder!Next
<1>3. ASSUME NEW o \in Objs' PROVE MarkAt(o, Pipeline', eop')
  <2>1. ASSUME NEW u \in Objs, Alike(o, u) PROVE MarkAt(o, Pipeline', eop)
    <3>1. MarkAt(u, Pipeline, eop)
      BY DEF MarkI
    <3>2. CASE ~HasTs(u)
      BY <2>1, <3>2 DEF MarkAt, IsMarker, HasTs, Alike
    <3>3. CASE HasTs(u)
      <4>1. PICK j \in 1 .. Len(Pipeline) : Pipeline[j] = u.ts
        BY <3>3, PipeIs, ObjsInIs DEF ObjsIn
      <4>2. MarkAt(u, Pipeline', eop)
        BY <1>1, <3>1, <4>1, MarkQueue
      <4> QED
        BY <2>1, <4>2, MarkAlike
    <3> QED
      BY <3>2, <3>3
  <2>2. ASSUME o.ts = ts, IsMarker(o) => o.mts = queued_ts PROVE MarkAt(o, Pipeline', eop)
    <3>1. CASE IsMarker(o)
      BY <1>1, <2>2, <3>1, MarkNew
    <3>2. CASE ~IsMarker(o)
      BY <3>2 DEF MarkAt
    <3> QED
      BY <3>1, <3>2
  <2> QED
    BY <2>1, <2>2
<1> QED
  BY <1>2, <1>3 DEF Good, MarkI

LEMMA GoodFast ==
    ASSUME IInv, NEW ts \in Ts, InOrder!IsNext(ts), Pipeline = <<>>, Pipeline' = <<>>,
           queued_ts' = ts, eop' = ts
    PROVE  Good
<1>1. InOrder!Next
  <2>1. InOrder!QueueAndRetire(ts)
    BY DEF InOrder!QueueAndRetire
  <2> QED
    BY <2>1, SubBridge DEF InOrder!Next
<1>2. MarkI'
  BY MarkEmpty DEF MarkI
<1> QED
  BY <1>1, <1>2 DEF Good

LEMMA GoodRetire ==
    ASSUME IInv, IInv', MarkI, OrderI, Pipeline # <<>>, Pipeline' = Tail(Pipeline),
           eop' = Head(Pipeline), queued_ts' = queued_ts, Objs' \subseteq Objs
    PROVE  Good
<1>1. InOrder!Next
  BY DEF InOrder!Next, InOrder!Retire
<1>2. ASSUME NEW o \in Objs' PROVE MarkAt(o, Pipeline', eop')
  <2>1. MarkAt(o, Pipeline, eop) /\ Linear(Pipeline, eop, queued_ts)
    BY OrderLinear DEF MarkI
  <2>2. CASE ~HasTs(o)
    BY <2>2 DEF MarkAt, IsMarker, HasTs
  <2>3. CASE HasTs(o)
    <3>1. o \in DrawObj /\ \E j \in 1 .. Len(Pipeline') : Pipeline'[j] = o.ts
      BY <2>3, ObjsInNext DEF ObjsIn
    <3> QED
      BY <2>1, <3>1, MarkRetire
  <2> QED
    BY <2>2, <2>3
<1> QED
  BY <1>1, <1>2 DEF Good, MarkI

LEMMA GoodDrop ==
    ASSUME IInv, MarkI, NEW b \in Seq(Ts), NEW a \in Seq(Ts), Pipeline = b \o a, Pipeline' = b,
           UNCHANGED <<queued_ts, eop>>, Objs' \subseteq Objs
    PROVE  Good
<1>1. /\ Len(b) \in Nat /\ Len(a) \in Nat /\ Len(Pipeline) = Len(b) + Len(a)
      /\ \A i \in 1 .. Len(b) + Len(a) : Pipeline[i] = IF i <= Len(b) THEN b[i] ELSE a[i - Len(b)]
      /\ Pipeline \in Seq(Ts)
  BY ConcatProperties
<1>2. \A i \in 1 .. Len(b) : i \in 1 .. Len(Pipeline) /\ Pipeline[i] = b[i]
  BY <1>1
<1>3. MarkI'
  <2>1. ASSUME NEW o \in Objs' PROVE MarkAt(o, Pipeline', eop')
    <3>1. MarkAt(o, Pipeline, eop)
      BY DEF MarkI
    <3> QED
      BY <1>2, <3>1, MarkSub
  <2> QED
    BY <2>1 DEF MarkI
<1>4. CASE a = <<>>
  <2>1. Pipeline' = Pipeline
    BY <1>4, ConcatEmptySeq
  <2> QED
    BY <1>3, <2>1 DEF Good, InOrder!vars
<1>5. CASE a # <<>>
  <2>1. Len(a) >= 1
    BY <1>5
  <2>2. Len(b) < Len(Pipeline) /\ Len(b) \in 0 .. Len(Pipeline)
    BY <1>1, <2>1
  <2>3. b = SubSeq(Pipeline, 1, Len(b))
    <3>1. PICK c : c = SubSeq(Pipeline, 1, Len(b))
      OBVIOUS
    <3>2. \A i \in 1 .. Len(b) : Pipeline[i] \in Ts
      BY <1>2
    <3>3. /\ c \in Seq(Ts) /\ Len(c) = Len(b)
          /\ \A i \in 1 .. Len(b) : c[i] = Pipeline[i]
      BY <1>1, <3>1, <3>2, SubSeqProperties
    <3>4. c = b
      BY <1>2, <3>3, SeqEqual
    <3> QED
      BY <3>1, <3>4
  <2>4. InOrder!Drop(Len(b))
    BY <2>2, <2>3 DEF InOrder!Drop
  <2> QED
    BY <1>3, <2>2, <2>4 DEF Good, InOrder!Next
<1> QED
  BY <1>4, <1>5

-----------------------------------------------------------------------------
(* Steps of the draw queue.                                                *)

\* Nothing moves in the pipeline.
LEMMA StillGood ==
    ASSUME IInv, IInv', MarkI, UNCHANGED <<queued_ts, eop, gpu, drawq_head, drawq_tail>>,
           wk'.obj = wk.obj, \A i \in Slots : Alike(drawq'[i], drawq[i])
    PROVE  Good
<1>1. PipeT /\ PipeT'
  BY PipeIs, PipeNext
<1>2. Len(RingSeq') = Len(RingSeq) /\ \A k \in 1 .. Len(RingSeq) : Alike(RingSeq'[k], RingSeq[k])
  BY <1>1, SeqSame DEF PipeT
<1>3. AllTimed(RingSeq') = AllTimed(RingSeq)
  BY <1>1, <1>2, TimedSame DEF PipeT
<1>4. HeldTs' = HeldTs
  BY DEF HeldTs
<1>5. Pipeline' = Pipeline
  <2>1. Pipeline' = (gpu' \o HeldTs') \o AllTimed(RingSeq')
    BY <1>1 DEF PipeT
  <2>2. Pipeline = (gpu \o HeldTs) \o AllTimed(RingSeq)
    BY <1>1 DEF PipeT
  <2> QED
    BY <1>3, <1>4, <2>1, <2>2
<1>6. Occupied' = Occupied /\ Occupied \subseteq Slots
  BY DEF Occupied
<1>7. \A o \in Objs' : \E u \in Objs : Alike(o, u)
  BY <1>6 DEF Objs, Alike
<1> QED
  BY <1>5, <1>7, GoodSame

LEMMA RingStillGood ==
    ASSUME IInv, IInv', MarkI, UNCHANGED <<queued_ts, eop, gpu, ring>>, wk'.obj = wk.obj
    PROVE  Good
<1>1. \A i \in Slots : Alike(drawq'[i], drawq[i])
  BY DEF ring, Alike
<1> QED
  BY <1>1, StillGood DEF ring

\* An object is queued.
LEMMA PushGood ==
    ASSUME IInv, IInv', MarkI, OrderI, NEW t \in Threads, th[t].pc = "enq", th[t].n < Len(th[t].objs),
           NEW o \in DrawObj, NEW q \in [Slots -> DrawObj], \A i \in Slots : Alike(q[i], drawq[i]),
           _queue_drawobj(t, o, q), UNCHANGED <<eop, gpu, wk>>,
           \/ /\ HasTs(o) /\ InOrder!IsNext(o.ts) /\ queued_ts' = o.ts
              /\ IsMarker(o) => o.mts = queued_ts
           \/ ~HasTs(o) /\ queued_ts' = queued_ts
    PROVE  Good
<1>1. PipeT /\ PipeT'
  BY PipeIs, PipeNext
<1>2. /\ drawq' = [q EXCEPT ![drawq_tail] = o] /\ drawq_tail' = DRAWQUEUE_NEXT(drawq_tail)
      /\ drawq_head' = drawq_head /\ drawq_tail \in Slots /\ drawq_head \in Slots
  BY DEF _queue_drawobj, IInv, TypeI
<1>3. Used < QSize - 1
  <2>1. /\ Used <= queued /\ queued + Len(th[t].objs) - th[t].n <= QSize - 2
        /\ queued \in Int /\ th[t] \in ThreadT /\ Used \in 0 .. QSize - 1
    BY <1>2, OccupiedIs DEF IInv, RingI, TypeI
  <2>2. th[t].n \in Nat /\ Len(th[t].objs) \in Nat
    BY <2>1 DEF ThreadT
  <2> QED
    BY <2>1, <2>2, SizeFacts
<1>4. drawq_tail \notin Occupied /\ Occupied' = Occupied \cup {drawq_tail} /\ Occupied \subseteq Slots
  <2>1. Occupied \subseteq Slots
    BY DEF Occupied
  <2> QED
    BY <1>2, <1>3, <2>1, RingPush
<1>5. drawq'[drawq_tail] = o /\ \A i \in Occupied : drawq'[i] = q[i] /\ Alike(drawq'[i], drawq[i])
  BY <1>2, <1>4
<1>6. /\ Len(RingSeq') = Len(RingSeq) + 1 /\ RingSeq'[Len(RingSeq')] = o
      /\ \A k \in 1 .. Len(RingSeq) : Alike(RingSeq'[k], RingSeq[k])
  BY <1>1, <1>2, <1>3, <1>5, SeqPush DEF PipeT
<1>7. AllTimed(RingSeq') = Add(AllTimed(RingSeq), o)
  BY <1>1, <1>6, TimedAppend DEF PipeT
<1>8. HeldTs' = HeldTs
  BY DEF HeldTs
<1>9. Pipeline' = Add(Pipeline, o)
  <2>1. Pipeline' = (gpu' \o HeldTs') \o AllTimed(RingSeq')
    BY <1>1 DEF PipeT
  <2>2. Pipeline = (gpu \o HeldTs) \o AllTimed(RingSeq) /\ gpu \o HeldTs \in Seq(Ts)
        /\ AllTimed(RingSeq) \in Seq(Ts)
    BY <1>1 DEF PipeT
  <2>3. Add((gpu \o HeldTs) \o AllTimed(RingSeq), o) = (gpu \o HeldTs) \o Add(AllTimed(RingSeq), o)
    BY <2>2, AddConcat
  <2> QED
    BY <1>7, <1>8, <2>1, <2>2, <2>3
<1>10. \A x \in Objs' : x = o \/ \E u \in Objs : Alike(x, u)
  BY <1>4, <1>5 DEF Objs, Alike
<1>11. CASE HasTs(o) /\ InOrder!IsNext(o.ts) /\ queued_ts' = o.ts /\ (IsMarker(o) => o.mts = queued_ts)
  <2>1. o.ts \in Ts /\ Pipeline' = Append(Pipeline, o.ts)
    BY <1>9, <1>11 DEF Add, DrawObj
  <2>2. \A x \in Objs' : \/ \E u \in Objs : Alike(x, u)
                         \/ x.ts = o.ts /\ (IsMarker(x) => x.mts = queued_ts)
    BY <1>10, <1>11
  <2> QED
    BY <1>11, <2>1, <2>2, GoodQueue
<1>12. CASE ~HasTs(o) /\ queued_ts' = queued_ts
  <2>1. Pipeline' = Pipeline
    BY <1>9, <1>12 DEF Add
  <2>2. ASSUME NEW x \in Objs' PROVE MarkAt(x, Pipeline', eop')
    <3>1. CASE x = o
      BY <1>12, <3>1 DEF MarkAt, IsMarker, HasTs
    <3>2. CASE \E u \in Objs : Alike(x, u)
      BY <2>1, <3>2, MarkAlike DEF MarkI
    <3> QED
      BY <1>10, <3>1, <3>2
  <2> QED
    BY <1>12, <2>1, <2>2 DEF Good, MarkI, InOrder!vars
<1> QED
  BY <1>11, <1>12

\* The next timestamp is after the last one queued.  From ~0 - 1 the driver goes
\* to 1, three steps on, which a window of two would not hold.
LEMMA DriverAhead ==
    ASSUME Half >= 3, NEW q \in Ts, NEW e \in Ts, U32Sub(q, e) < Half
    PROVE  U32Sub(q, e) < U32Sub(DriverTs(q), e)
<1>1. /\ Half \in Nat /\ q \in Int /\ e \in Int /\ 0 <= q /\ q < 2 * Half /\ 0 <= e /\ e < 2 * Half
      /\ TsMod = 2 * Half /\ UINT_MAX = 2 * Half - 1
  BY HalfAssumption DEF Ts, TsMod, UINT_MAX
<1>2. PICK d : d = DriverTs(q)
  OBVIOUS
<1>3. CASE q = 2 * Half - 1
  <2>1. d = 0
    BY <1>1, <1>2, <1>3 DEF DriverTs
  <2> QED
    BY <1>1, <1>2, <1>3, <2>1 DEF U32Sub
<1>4. CASE q = 2 * Half - 2
  <2>1. d = 1
    BY <1>1, <1>2, <1>4 DEF DriverTs
  <2> QED
    BY <1>1, <1>2, <1>4, <2>1 DEF U32Sub
<1>5. CASE q # 2 * Half - 1 /\ q # 2 * Half - 2
  <2>1. d = q + 1
    BY <1>1, <1>2, <1>5 DEF DriverTs
  <2> QED
    BY <1>1, <1>2, <1>5, <2>1 DEF U32Sub
<1> QED
  BY <1>3, <1>4, <1>5

LEMMA IsNextIs ==
    ASSUME IInv, OrderI, Half >= 3, TsMode # "verbatim", NEW t \in Threads, NextTsOk(t), InWindow(NextTs(t))
    PROVE  InOrder!IsNext(NextTs(t))
<1>1. /\ queued_ts \in Ts /\ eop \in Ts /\ th[t].ts \in Ts /\ NextTs(t) \in Ts
      /\ U32Sub(queued_ts, eop) < Half
  BY OrderLinear, NextTsIs DEF Linear, IInv, TypeI, ThreadT
<1>2. U32Sub(NextTs(t), eop) < Half
  BY DEF InWindow
<1>3. CASE TsMode = "client"
  <2>1. NextTs(t) = th[t].ts /\ ~(U32Sub(queued_ts, th[t].ts) < Half)
    BY <1>3 DEF NextTs, NextTsOk, hgsl_db_next_timestamp, hgsl_db_next_timestamp_ok, hgsl_ts32_ge
  <2>2. U32Sub(queued_ts, eop) < U32Sub(NextTs(t), eop)
    BY <1>1, <1>2, <2>1, HalfAssumption DEF U32Sub, Ts, TsMod
  <2> QED
    BY <1>2, <2>2, SubBridge DEF InOrder!IsNext, InOrder!Ahead
<1>4. CASE TsMode = "driver"
  <2>1. NextTs(t) = DriverTs(queued_ts)
    BY <1>4 DEF NextTs, hgsl_db_next_timestamp
  <2>2. U32Sub(queued_ts, eop) < U32Sub(NextTs(t), eop)
    BY <1>1, <2>1, DriverAhead
  <2> QED
    BY <1>2, <2>2, SubBridge DEF InOrder!IsNext, InOrder!Ahead
<1> QED
  BY <1>3, <1>4, DrawQueueAssumption DEF TsModes

LEMMA QueueCmdGood ==
    ASSUME IInv, IInv', MarkI, OrderI, Half >= 3, TsMode # "verbatim", NEW t \in Threads, _queue_cmdobj(t)
    PROVE  Good
<1>1. TypeI
  BY DEF IInv
<1>2. th[t].pc = "enq" /\ th[t].n < Len(th[t].objs) /\ CurObj(t).kind = "cmd"
  BY DEF _queue_cmdobj, Enqueuing
<1>3. CurObj(t) \in DrawObj /\ NextTsOk(t)
  BY <1>2, CurObjIs DEF HasTs
<1>4. PICK o : o = [CurObj(t) EXCEPT !.ts = NextTs(t)]
  OBVIOUS
<1>5. o \in DrawObj /\ o.kind = "cmd" /\ o.ts = NextTs(t)
  <2>1. PICK c \in DrawObj : c = CurObj(t)
    BY <1>3
  <2>2. PICK ts \in Ts : ts = NextTs(t)
    BY <1>1, NextTsIs
  <2> QED
    BY <1>2, <1>4, <2>1, <2>2 DEF DrawObj
<1>6. PICK q : q = SkipMarkers
  OBVIOUS
<1>7. q \in [Slots -> DrawObj] /\ \A i \in Slots : Alike(q[i], drawq[i])
  <2>1. \A i \in Slots : drawq[i] \in DrawObj
    BY <1>1 DEF TypeI
  <2>2. \A d \in DrawObj : [d EXCEPT !.skip = TRUE] \in DrawObj /\ Alike([d EXCEPT !.skip = TRUE], d) /\ Alike(d, d)
    BY DEF DrawObj, Alike
  <2>3. ASSUME NEW i \in Slots PROVE q[i] \in DrawObj /\ Alike(q[i], drawq[i])
    <3>1. q[i] = [drawq[i] EXCEPT !.skip = TRUE] \/ q[i] = drawq[i]
      BY <1>6 DEF SkipMarkers
    <3> QED
      BY <2>1, <2>2, <3>1
  <2>4. q = [i \in Slots |-> q[i]]
    BY <1>6 DEF SkipMarkers
  <2> QED
    BY <2>3, <2>4
<1>8. /\ _queue_drawobj(t, o, q) /\ queued_ts' = o.ts /\ InWindow(NextTs(t))
      /\ UNCHANGED <<eop, gpu, wk>>
  BY <1>3, <1>4, <1>5, <1>6 DEF _queue_cmdobj, disp
<1>9. HasTs(o) /\ InOrder!IsNext(o.ts) /\ ~IsMarker(o)
  BY <1>3, <1>5, <1>8, IsNextIs DEF HasTs, IsMarker
<1> QED
  BY <1>2, <1>5, <1>7, <1>8, <1>9, PushGood

\* An idle context has nothing pending, wherever it is.
LEMMA IdleEmpty == ASSUME OrderI, hgsl_ts32_ge(eop, queued_ts) PROVE Pipeline = <<>>
<1>1. PICK p : p = Pipeline
  OBVIOUS
<1>2. Linear(p, eop, queued_ts) /\ p \in Seq(Ts) /\ eop \in Ts /\ queued_ts \in Ts
  BY <1>1, OrderLinear DEF Linear
<1>3. U32Sub(queued_ts, eop) < Half /\ U32Sub(eop, queued_ts) < Half
  BY <1>2 DEF Linear, hgsl_ts32_ge
<1>4. U32Sub(queued_ts, eop) = 0
  BY <1>2, <1>3, HalfAssumption DEF U32Sub, Ts, TsMod
<1>5. ASSUME p # <<>> PROVE FALSE
  <2>1. 1 \in 1 .. Len(p) /\ p[1] \in Ts
    BY <1>2, <1>5
  <2>2. 0 < U32Sub(p[1], eop) /\ U32Sub(p[1], eop) <= 0
    BY <1>2, <1>4, <2>1 DEF Linear
  <2>3. U32Sub(p[1], eop) \in Nat
    BY <1>2, <2>1, SubNat
  <2> QED
    BY <2>2, <2>3
<1> QED
  BY <1>1, <1>5

LEMMA QueueMarkerGood ==
    ASSUME IInv, IInv', MarkI, OrderI, Half >= 3, TsMode # "verbatim", NEW t \in Threads, _queue_markerobj(t)
    PROVE  Good
<1>1. TypeI
  BY DEF IInv
<1>2. th[t].pc = "enq" /\ th[t].n < Len(th[t].objs) /\ CurObj(t).kind \in {"marker", "bare"}
  BY DEF _queue_markerobj, Enqueuing
<1>3. CurObj(t) \in DrawObj /\ NextTsOk(t)
  BY <1>2, CurObjIs DEF HasTs
<1>4. /\ queued_ts' = NextTs(t) /\ NextTs(t) \in Ts /\ InWindow(NextTs(t)) /\ UNCHANGED <<gpu, wk>>
  BY <1>1, <1>3, NextTsIs DEF _queue_markerobj, disp
<1>5. InOrder!IsNext(NextTs(t))
  BY <1>3, <1>4, IsNextIs
<1>6. CASE MarkerFast
  <2>1. eop' = NextTs(t) /\ UNCHANGED <<drawq, drawq_head, drawq_tail>>
    BY <1>3, <1>6 DEF _queue_markerobj, ring
  <2>2. Pipeline = <<>>
    BY <1>6, IdleEmpty DEF MarkerFast
  <2>3. Pipeline' = Pipeline
    <3>1. RingSeq' = RingSeq /\ HeldTs' = HeldTs
      BY <1>4, <2>1 DEF RingSeq, HeldTs, Occupied
    <3> QED
      BY <1>4, <3>1 DEF Pipeline
  <2> QED
    BY <1>4, <1>5, <2>1, <2>2, <2>3, GoodFast
<1>7. CASE ~MarkerFast
  <2>1. PICK o : o = [CurObj(t) EXCEPT !.ts = NextTs(t), !.mts = queued_ts]
    OBVIOUS
  <2>2. o \in DrawObj /\ o.kind \in {"marker", "bare"} /\ o.ts = NextTs(t) /\ o.mts = queued_ts
    <3>1. PICK c \in DrawObj : c = CurObj(t)
      BY <1>3
    <3>2. PICK ts \in Ts : ts = NextTs(t)
      BY <1>4
    <3>3. queued_ts \in Ts
      BY <1>1 DEF TypeI
    <3> QED
      BY <1>2, <2>1, <3>1, <3>2, <3>3 DEF DrawObj
  <2>3. _queue_drawobj(t, o, drawq) /\ eop' = eop
    BY <1>3, <1>7, <2>1 DEF _queue_markerobj
  <2>4. drawq \in [Slots -> DrawObj] /\ \A i \in Slots : Alike(drawq[i], drawq[i])
    BY <1>1 DEF TypeI, Alike
  <2>5. HasTs(o)
    BY <2>2 DEF HasTs
  <2> QED
    BY <1>2, <1>4, <1>5, <2>2, <2>3, <2>4, <2>5, PushGood
<1> QED
  BY <1>6, <1>7

LEMMA QueueUntimedGood ==
    ASSUME IInv, IInv', MarkI, OrderI, NEW t \in Threads,
           _queue_syncobj(t) \/ _queue_timelineobj(t)
    PROVE  Good
<1>1. TypeI
  BY DEF IInv
<1>2. th[t].pc = "enq" /\ th[t].n < Len(th[t].objs) /\ CurObj(t).kind \in {"sync", "timeline"}
  BY DEF _queue_syncobj, _queue_timelineobj, Enqueuing
<1>3. PICK o \in DrawObj : o = CurObj(t)
  BY <1>2, CurObjIs
<1>4. ~HasTs(o) /\ _queue_drawobj(t, o, drawq) /\ queued_ts' = queued_ts /\ UNCHANGED <<eop, gpu, wk>>
  BY <1>2, <1>3 DEF _queue_syncobj, _queue_timelineobj, HasTs, disp
<1>5. drawq \in [Slots -> DrawObj] /\ \A i \in Slots : Alike(drawq[i], drawq[i])
  BY <1>1 DEF TypeI, Alike
<1> QED
  BY <1>2, <1>4, <1>5, PushGood

-----------------------------------------------------------------------------
(* The dispatch kthread.                                                   *)

\* The head of the ring is taken out.
LEMMA PopIs ==
    ASSUME IInv, IInv', wk.pc = "scan", drawq_head # drawq_tail, _pop_drawobj,
           wk'.obj = wk.obj \/ wk'.obj = HeadObj
    PROVE  /\ HeadObj \in DrawObj /\ HeadObj \in Objs /\ HeldTs = <<>> /\ wk.obj = NoObj
           /\ Pipeline = gpu \o (Add(<<>>, HeadObj) \o AllTimed(RingSeq'))
           /\ gpu \in Seq(Ts) /\ AllTimed(RingSeq') \in Seq(Ts)
           /\ Pipeline' = (gpu' \o HeldTs') \o AllTimed(RingSeq')
           /\ gpu' \in Seq(Ts) /\ HeldTs' \in Seq(Ts)
           /\ Objs' \subseteq Objs
<1>1. PipeT /\ PipeT'
  BY PipeIs, PipeNext
<1>2. /\ drawq' = [drawq EXCEPT ![drawq_head] = NoObj]
      /\ drawq_head' = DRAWQUEUE_NEXT(drawq_head) /\ drawq_tail' = drawq_tail
      /\ drawq \in [Slots -> DrawObj] /\ drawq_head \in Slots /\ drawq_tail \in Slots
  BY DEF _pop_drawobj, IInv, TypeI
<1>3. \A i \in Slots : i # drawq_head => drawq'[i] = drawq[i]
  BY <1>2
<1>4. drawq_head \in Occupied /\ Occupied' = Occupied \ {drawq_head} /\ Occupied \subseteq Slots
  <2>1. Occupied \subseteq Slots
    BY DEF Occupied
  <2> QED
    BY <1>2, <2>1, RingPop
<1>5. HeadObj = drawq[drawq_head] /\ HeadObj \in DrawObj /\ HeadObj \in Objs
  BY <1>2, <1>4 DEF HeadObj, Objs
<1>6. ~Holds /\ HeldTs = <<>> /\ wk.obj = NoObj
  BY <1>1 DEF Holds, PipeT
<1>7. /\ Len(RingSeq) = Len(RingSeq') + 1 /\ RingSeq[1] = drawq[drawq_head]
      /\ \A k \in 1 .. Len(RingSeq') : RingSeq'[k] = RingSeq[k + 1]
  BY <1>1, <1>2, <1>3, SeqPop DEF PipeT
<1>8. AllTimed(RingSeq) = Add(<<>>, HeadObj) \o AllTimed(RingSeq')
  BY <1>1, <1>5, <1>7, TimedCons DEF PipeT
<1>9. /\ Pipeline' = (gpu' \o HeldTs') \o AllTimed(RingSeq') /\ AllTimed(RingSeq') \in Seq(Ts)
      /\ gpu' \in Seq(Ts) /\ HeldTs' \in Seq(Ts) /\ gpu \in Seq(Ts)
      /\ Pipeline = (gpu \o HeldTs) \o AllTimed(RingSeq)
  BY <1>1 DEF PipeT
<1>10. gpu \o HeldTs = gpu
  BY <1>6, <1>9, ConcatEmptySeq
<1>11. Objs' \subseteq Objs
  BY <1>3, <1>4, <1>5, <1>6 DEF Objs
<1> QED
  BY <1>5, <1>6, <1>8, <1>9, <1>10, <1>11

LEMMA AlikeSelf == \A o : Alike(o, o)
  BY DEF Alike

\* A sync or timeline object takes no timestamp away,
LEMMA RetireSyncGood ==
    ASSUME IInv, IInv', MarkI, _retire_syncobj
    PROVE  Good
<1>1. /\ wk.pc = "scan" /\ drawq_head # drawq_tail /\ _pop_drawobj /\ ~HasTs(HeadObj)
      /\ UNCHANGED <<queued_ts, eop, gpu, wk>>
  BY DEF _retire_syncobj, Scanning, HasTs, disp
<1>2. PICK a : a = AllTimed(RingSeq')
  OBVIOUS
<1>3. /\ Pipeline = gpu \o (Add(<<>>, HeadObj) \o a) /\ Pipeline' = (gpu' \o HeldTs') \o a
      /\ HeldTs = <<>> /\ gpu \in Seq(Ts) /\ a \in Seq(Ts) /\ Objs' \subseteq Objs
  BY <1>1, <1>2, PopIs
<1>4. HeldTs' = <<>>
  BY <1>1, <1>3 DEF HeldTs
<1>5. Pipeline = gpu \o (<<>> \o a) /\ Pipeline' = (gpu \o <<>>) \o a
  BY <1>1, <1>3, <1>4 DEF Add
<1>6. <<>> \o a = a /\ gpu \o <<>> = gpu
  BY <1>3, ConcatEmptySeq
<1> QED
  BY <1>1, <1>3, <1>5, <1>6, AlikeSelf, GoodSame

\* a command goes from the ring to the dispatcher's hands,
LEMMA ScanPopGood ==
    ASSUME IInv, IInv', MarkI, ScanPop
    PROVE  Good
<1>1. /\ wk.pc = "scan" /\ drawq_head # drawq_tail /\ _pop_drawobj /\ HasTs(HeadObj)
      /\ UNCHANGED <<queued_ts, eop, gpu>> /\ wk' = [wk EXCEPT !.pc = "issue", !.obj = HeadObj]
  BY DEF ScanPop, Scanning, HasTs
<1>2. wk'.obj = HeadObj
  BY <1>1 DEF IInv, TypeI, WorkerT
<1>3. PICK a : a = AllTimed(RingSeq')
  OBVIOUS
<1>4. /\ Pipeline = gpu \o (Add(<<>>, HeadObj) \o a) /\ Pipeline' = (gpu' \o HeldTs') \o a
      /\ gpu \in Seq(Ts) /\ a \in Seq(Ts) /\ HeadObj \in DrawObj /\ Objs' \subseteq Objs
  BY <1>1, <1>2, <1>3, PopIs
<1>5. HeadObj # NoObj /\ HeldTs' = <<HeadObj.ts>>
  BY <1>1, <1>2, Zeros DEF HeldTs
<1>6. Add(<<>>, HeadObj) = <<HeadObj.ts>>
  BY <1>1 DEF Add
<1>7. PICK h \in Seq(Ts) : h = <<HeadObj.ts>>
  <2>1. PICK ts \in Ts : ts = HeadObj.ts
    BY <1>4 DEF DrawObj
  <2>2. <<ts>> \in Seq(Ts)
    OBVIOUS
  <2> QED
    BY <2>1, <2>2
<1>8. Pipeline' = Pipeline
  <2>1. (gpu \o h) \o a = gpu \o (h \o a)
    BY <1>4, <1>7, TsAssoc, ZenonT(60)
  <2> QED
    BY <1>1, <1>4, <1>5, <1>6, <1>7, <2>1
<1> QED
  BY <1>1, <1>4, <1>8, AlikeSelf, GoodSame

\* and from there to the GPU,
LEMMA SendGood ==
    ASSUME IInv, IInv', MarkI, _sendcmd
    PROVE  Good
<1>1. /\ wk.pc = "issue" /\ gpu' = Append(gpu, wk.obj.ts) /\ wk' = [wk EXCEPT !.pc = "send", !.obj = NoObj, !.again = TRUE]
      /\ UNCHANGED <<queued_ts, eop, drawq, drawq_head, drawq_tail>>
  BY DEF _sendcmd, ring
<1>2. wk'.obj = NoObj
  BY <1>1 DEF IInv, TypeI, WorkerT
<1>3. PipeT /\ PipeT' /\ Holds
  BY <1>1, PipeIs, PipeNext DEF Holds
<1>4. RingSeq' = RingSeq /\ HeldTs' = <<>> /\ Occupied' = Occupied
  BY <1>1, <1>2 DEF RingSeq, HeldTs, Occupied
<1>5. /\ Pipeline = (gpu \o HeldTs) \o AllTimed(RingSeq) /\ Pipeline' = (gpu' \o HeldTs') \o AllTimed(RingSeq')
      /\ HeldTs = <<wk.obj.ts>> /\ wk.obj \in DrawObj /\ gpu \in Seq(Ts) /\ gpu' \in Seq(Ts)
  BY <1>3 DEF PipeT
<1>6. PICK ts \in Ts : ts = wk.obj.ts
  BY <1>5 DEF DrawObj
<1>7. gpu' = gpu \o <<ts>>
  BY <1>1, <1>5, <1>6, AppendIsConcat
<1>8. gpu' \o <<>> = gpu'
  BY <1>5, ConcatEmptySeq
<1>9. Pipeline' = Pipeline
  BY <1>4, <1>5, <1>6, <1>7, <1>8
<1>10. Objs' \subseteq Objs
  BY <1>1, <1>2, <1>4 DEF Objs
<1> QED
  BY <1>1, <1>9, <1>10, AlikeSelf, GoodSame

\* or back to the head of the ring.
LEMMA RequeueGood ==
    ASSUME IInv, IInv', MarkI, hgsl_dispatch_requeue_drawobj
    PROVE  Good
<1>1. /\ wk.pc = "requeue" /\ drawq' = [drawq EXCEPT ![PrevSlot] = wk.obj] /\ drawq_head' = PrevSlot
      /\ wk' = [wk EXCEPT !.pc = "done", !.obj = NoObj, !.again = TRUE]
      /\ UNCHANGED <<queued_ts, eop, gpu, drawq_tail>>
  BY DEF hgsl_dispatch_requeue_drawobj
<1>2. wk'.obj = NoObj
  BY <1>1 DEF IInv, TypeI, WorkerT
<1>3. PipeT /\ PipeT' /\ Holds
  BY <1>1, PipeIs, PipeNext DEF Holds
<1>4. PICK o \in DrawObj : o = wk.obj /\ o # NoObj /\ HasTs(o) /\ HeldTs = <<o.ts>>
  BY <1>3 DEF PipeT
<1>5. drawq_head \in Slots /\ drawq_tail \in Slots /\ Used < QSize - 1
  <2>1. InQueue = queued + 1 /\ queued \in Int /\ drawq_head \in Slots /\ drawq_tail \in Slots
    BY <1>1 DEF InQueue, IInv, TypeI
  <2>2. Used \in Int /\ Used <= queued /\ InQueue <= QSize - 1
    BY <2>1, OccupiedIs DEF IInv, RingI
  <2> QED
    BY <2>1, <2>2, SizeFacts
<1>6. /\ PrevSlot \notin Occupied /\ Occupied' = Occupied \cup {PrevSlot} /\ PrevSlot \in Slots
      /\ Occupied \subseteq Slots
  <2>1. Occupied \subseteq Slots
    BY DEF Occupied
  <2> QED
    BY <1>1, <1>5, <2>1, RingRequeue
<1>7. drawq'[PrevSlot] = o /\ \A i \in Slots : i # PrevSlot => drawq'[i] = drawq[i]
  BY <1>1, <1>4, <1>6 DEF IInv, TypeI
<1>8. /\ Len(RingSeq') = Len(RingSeq) + 1 /\ RingSeq'[1] = drawq'[PrevSlot]
      /\ \A k \in 1 .. Len(RingSeq) : RingSeq[k] = RingSeq'[k + 1]
  BY <1>1, <1>3, <1>5, <1>7, SeqRequeue DEF PipeT
<1>9. AllTimed(RingSeq') = Add(<<>>, o) \o AllTimed(RingSeq)
  BY <1>3, <1>7, <1>8, TimedCons DEF PipeT
<1>10. /\ Pipeline = (gpu \o HeldTs) \o AllTimed(RingSeq) /\ Pipeline' = (gpu' \o HeldTs') \o AllTimed(RingSeq')
       /\ gpu \in Seq(Ts) /\ AllTimed(RingSeq) \in Seq(Ts) /\ HeldTs \in Seq(Ts)
  BY <1>3 DEF PipeT
<1>11. Add(<<>>, o) = HeldTs
  BY <1>4 DEF Add
<1>12. HeldTs' = <<>> /\ gpu \o <<>> = gpu
  BY <1>2, <1>10, ConcatEmptySeq DEF HeldTs
<1>13. Pipeline' = Pipeline
  <2>1. PICK h \in Seq(Ts), a \in Seq(Ts) : h = HeldTs /\ a = AllTimed(RingSeq)
    BY <1>10
  <2>2. (gpu \o h) \o a = gpu \o (h \o a)
    BY <1>10, <2>1, TsAssoc, ZenonT(60)
  <2> QED
    BY <1>1, <1>9, <1>10, <1>11, <1>12, <2>1, <2>2
<1>14. Objs' \subseteq Objs
  BY <1>2, <1>4, <1>6, <1>7 DEF Objs
<1> QED
  BY <1>1, <1>13, <1>14, AlikeSelf, GoodSame

\* The front of two sequences in a row.
LEMMA FrontOf ==
    ASSUME NEW g \in Seq(Ts), g # <<>>, NEW x \in Seq(Ts), NEW p, p = g \o x
    PROVE  p # <<>> /\ Head(p) = Head(g) /\ Tail(p) = Tail(g) \o x
<1>1. Len(g) \in Nat /\ Len(g) >= 1 /\ Len(x) \in Nat
  OBVIOUS
<1>2. /\ p \in Seq(Ts) /\ Len(p) = Len(g) + Len(x)
      /\ \A i \in 1 .. Len(g) + Len(x) : p[i] = IF i <= Len(g) THEN g[i] ELSE x[i - Len(g)]
  BY ConcatProperties
<1>3. p # <<>> /\ Head(p) = Head(g)
  <2>1. 1 \in 1 .. Len(g) + Len(x) /\ 1 <= Len(g)
    BY <1>1
  <2>2. p[1] = g[1] /\ Len(p) >= 1
    BY <1>1, <1>2, <2>1
  <2> QED
    BY <1>2, <2>2
<1>4. PICK h, k : h = Tail(p) /\ k = Tail(g)
  OBVIOUS
<1>5. h \in Seq(Ts) /\ Len(h) = Len(p) - 1 /\ \A i \in 1 .. Len(h) : h[i] = p[i + 1]
  BY <1>2, <1>3, <1>4
<1>6. k \in Seq(Ts) /\ Len(k) = Len(g) - 1 /\ \A i \in 1 .. Len(k) : k[i] = g[i + 1]
  BY <1>4
<1>7. PICK c : c = k \o x
  OBVIOUS
<1>8. /\ c \in Seq(Ts) /\ Len(c) = Len(k) + Len(x)
      /\ \A i \in 1 .. Len(k) + Len(x) : c[i] = IF i <= Len(k) THEN k[i] ELSE x[i - Len(k)]
  BY <1>6, <1>7, ConcatProperties
<1>9. Len(h) = Len(c) /\ Len(h) \in Nat
  BY <1>1, <1>2, <1>5, <1>6, <1>8
<1>10. ASSUME NEW i \in 1 .. Len(h) PROVE h[i] = c[i]
  <2>1. i \in Nat /\ i >= 1 /\ i + 1 \in 1 .. Len(g) + Len(x) /\ i \in 1 .. Len(k) + Len(x)
    BY <1>1, <1>2, <1>5, <1>6
  <2>2. CASE i <= Len(k)
    <3>1. i + 1 <= Len(g) /\ i \in 1 .. Len(k)
      BY <1>1, <1>6, <2>1, <2>2
    <3> QED
      BY <1>2, <1>5, <1>6, <1>8, <2>1, <2>2, <3>1
  <2>3. CASE ~(i <= Len(k))
    <3>1. ~(i + 1 <= Len(g)) /\ (i + 1) - Len(g) = i - Len(k)
      BY <1>1, <1>6, <2>1, <2>3
    <3>2. h[i] = p[i + 1] /\ p[i + 1] = x[(i + 1) - Len(g)] /\ c[i] = x[i - Len(k)]
      BY <1>2, <1>5, <1>8, <2>1, <2>3, <3>1
    <3> QED
      BY <3>1, <3>2
  <2> QED
    BY <2>2, <2>3
<1>11. h = c
  BY <1>5, <1>8, <1>9, <1>10, SeqEqual
<1> QED
  BY <1>3, <1>4, <1>7, <1>11

\* A marker that retires from the CPU has nothing at the GPU before it: what is
\* there is older, and the retired timestamp has passed marker_timestamp.
LEMMA ExpiredFirst ==
    ASSUME NEW g \in Seq(Ts), NEW ts \in Ts, NEW a \in Seq(Ts), NEW p, p = g \o (<<ts>> \o a),
           NEW e, NEW q, Linear(p, e, q), NEW o \in DrawObj, o.ts = ts, IsMarker(o), MarkAt(o, p, e),
           hgsl_ts32_ge(e, o.mts)
    PROVE  g = <<>>
<1>1. SUFFICES ASSUME g # <<>> PROVE FALSE
  OBVIOUS
<1>2. Len(g) \in Nat /\ Len(g) >= 1 /\ e \in Ts /\ o.mts \in Ts /\ p \in Seq(Ts)
  BY <1>1 DEF Linear, DrawObj
<1>3. PICK x : x = <<ts>> \o a
  OBVIOUS
<1>4. x \in Seq(Ts) /\ Len(x) \in Nat /\ Len(x) >= 1 /\ x[1] = ts
  <2>1. <<ts>> \in Seq(Ts) /\ Len(<<ts>>) = 1 /\ <<ts>>[1] = ts /\ Len(a) \in Nat
    OBVIOUS
  <2>2. /\ x \in Seq(Ts) /\ Len(x) = 1 + Len(a)
        /\ \A i \in 1 .. 1 + Len(a) : x[i] = IF i <= 1 THEN <<ts>>[i] ELSE a[i - 1]
    BY <1>3, <2>1, ConcatProperties
  <2>3. 1 \in 1 .. 1 + Len(a) /\ 1 + Len(a) >= 1
    BY <2>1
  <2> QED
    BY <2>1, <2>2, <2>3
<1>5. /\ Len(p) = Len(g) + Len(x)
      /\ \A i \in 1 .. Len(g) + Len(x) : p[i] = IF i <= Len(g) THEN g[i] ELSE x[i - Len(g)]
  BY <1>3, <1>4, ConcatProperties
<1>6. PICK n \in Nat : n = Len(g) + 1
  BY <1>2
<1>7. n \in 1 .. Len(p) /\ 1 \in 1 .. Len(p) /\ 1 < n /\ ~(n <= Len(g)) /\ n - Len(g) = 1
  BY <1>2, <1>4, <1>5, <1>6
<1>8. p[n] = ts
  BY <1>4, <1>5, <1>7
<1>9. 0 < U32Sub(p[1], e) /\ U32Sub(p[1], e) < U32Sub(ts, e)
  BY <1>7, <1>8 DEF Linear
<1>10. U32Sub(p[1], e) <= U32Sub(o.mts, e) /\ U32Sub(o.mts, e) < Half
  BY <1>7, <1>9 DEF MarkAt
<1>11. p[1] \in Ts
  BY <1>2, <1>7
<1>12. U32Sub(p[1], e) \in Nat /\ U32Sub(o.mts, e) \in Nat
  BY <1>2, <1>11, SubNat
<1>13. 0 < U32Sub(o.mts, e) /\ U32Sub(o.mts, e) < Half /\ U32Sub(e, o.mts) < Half
  BY <1>9, <1>10, <1>12 DEF hgsl_ts32_ge
<1>14. PICK m \in Ts : m = o.mts
  BY <1>2
<1> QED
  BY <1>2, <1>13, <1>14, HalfAssumption DEF U32Sub, Ts, TsMod

LEMMA RetireMarkerGood ==
    ASSUME IInv, IInv', MarkI, OrderI, _retire_markerobj
    PROVE  Good
<1>1. /\ wk.pc = "scan" /\ drawq_head # drawq_tail /\ _pop_drawobj /\ IsMarker(HeadObj) /\ HasTs(HeadObj)
      /\ hgsl_ts32_ge(eop, HeadObj.mts) /\ eop' = HeadObj.ts /\ UNCHANGED <<queued_ts, gpu, wk>>
  BY DEF _retire_markerobj, _marker_expired, Scanning, HasTs, IsMarker, disp
<1>2. PICK a : a = AllTimed(RingSeq')
  OBVIOUS
<1>3. /\ Pipeline = gpu \o (Add(<<>>, HeadObj) \o a) /\ Pipeline' = (gpu' \o HeldTs') \o a
      /\ HeldTs = <<>> /\ gpu \in Seq(Ts) /\ a \in Seq(Ts) /\ Objs' \subseteq Objs
      /\ HeadObj \in DrawObj /\ HeadObj \in Objs
  BY <1>1, <1>2, PopIs
<1>4. PICK ts \in Ts : ts = HeadObj.ts
  BY <1>3 DEF DrawObj
<1>5. PICK h \in Seq(Ts) : h = <<ts>>
  <2>1. <<ts>> \in Seq(Ts)
    OBVIOUS
  <2> QED
    BY <2>1
<1>6. Pipeline = gpu \o (h \o a)
  BY <1>1, <1>3, <1>4, <1>5 DEF Add
<1>7. gpu = <<>>
  <2>1. Linear(Pipeline, eop, queued_ts) /\ MarkAt(HeadObj, Pipeline, eop)
    BY <1>3, OrderLinear DEF MarkI
  <2> QED
    BY <1>1, <1>3, <1>4, <1>5, <1>6, <2>1, ExpiredFirst
<1>8. Pipeline = h \o a
  <2>1. PICK x \in Seq(Ts) : x = h \o a
    BY <1>3, ConcatProperties
  <2>2. <<>> \o x = x
    BY <2>1, ConcatEmptySeq
  <2> QED
    BY <1>6, <1>7, <2>1, <2>2
<1>9. Pipeline' = a
  <2>1. HeldTs' = <<>> /\ gpu' = <<>>
    BY <1>1, <1>3, <1>7 DEF HeldTs
  <2>2. <<>> \o a = a /\ <<>> \o <<>> = <<>>
    <3>1. <<>> \in Seq(Ts)
      OBVIOUS
    <3> QED
      BY <1>3, <3>1, ConcatEmptySeq
  <2> QED
    BY <1>3, <2>1, <2>2
<1>10. Pipeline # <<>> /\ Head(Pipeline) = ts /\ Tail(Pipeline) = a
  <2>1. h # <<>> /\ Head(h) = ts /\ Tail(h) = <<>>
    BY <1>5
  <2>2. Pipeline # <<>> /\ Head(Pipeline) = Head(h) /\ Tail(Pipeline) = Tail(h) \o a
    BY <1>3, <1>5, <1>8, <2>1, FrontOf
  <2>3. <<>> \o a = a
    BY <1>3, ConcatEmptySeq
  <2> QED
    BY <2>1, <2>2, <2>3
<1> QED
  BY <1>1, <1>3, <1>4, <1>9, <1>10, GoodRetire

LEMMA DispatchGood ==
    ASSUME IInv, IInv', MarkI, OrderI, Dispatch
    PROVE  Good
<1>1. wk \in WorkerT /\ wk' \in WorkerT
  BY DEF IInv, TypeI
<1>2. /\ wk.pc \notin {"issue", "requeue"} => wk.obj = NoObj
      /\ wk'.pc \notin {"issue", "requeue"} => wk'.obj = NoObj
  BY DEF IInv, WorkerI, Holds
<1>3. ASSUME WorkStart \/ SendLock \/ WorkXchg \/ WorkEnd \/ ScanEnd PROVE Good
  <2>1. UNCHANGED <<queued_ts, eop, gpu, ring>> /\ wk.pc \in {"idle", "send", "xchg", "done", "scan"}
    BY <1>3 DEF WorkStart, SendLock, WorkXchg, WorkEnd, ScanEnd
  <2>2. wk'.pc \in {"idle", "send", "xchg", "done", "scan"}
    <3>1. IdleWorker.pc = "idle"
      BY DEF IdleWorker
    <3>2. CASE WorkStart
      BY <1>1, <3>2 DEF WorkStart, WorkerT
    <3>3. CASE SendLock
      BY <1>1, <3>3 DEF SendLock, WorkerT
    <3>4. CASE WorkXchg
      BY <1>1, <3>1, <3>4 DEF WorkXchg, WorkerT
    <3>5. CASE WorkEnd
      BY <3>1, <3>5 DEF WorkEnd
    <3>6. CASE ScanEnd
      BY <1>1, <3>6 DEF ScanEnd, WorkerT
    <3> QED
      BY <1>3, <3>2, <3>3, <3>4, <3>5, <3>6
  <2> QED
    BY <1>2, <2>1, <2>2, RingStillGood
<1>4. ASSUME _sendcmd_fails PROVE Good
  <2>1. wk'.obj = wk.obj /\ UNCHANGED <<queued_ts, eop, gpu, ring>>
    BY <1>1, <1>4 DEF _sendcmd_fails, WorkerT
  <2> QED
    BY <2>1, RingStillGood
<1> QED
  BY <1>3, <1>4, RetireSyncGood, RetireMarkerGood, ScanPopGood, SendGood, RequeueGood DEF Dispatch

-----------------------------------------------------------------------------
(* The GPU, sync points, hgsl_ctxt_destroy and the threads.                *)

LEMMA GpuRetireGood ==
    ASSUME IInv, IInv', MarkI, OrderI, GpuRetire
    PROVE  Good
<1>1. /\ gpu # <<>> /\ eop' = Head(gpu) /\ gpu' = Tail(gpu)
      /\ UNCHANGED <<drawq, drawq_head, drawq_tail, queued_ts, wk>>
  BY DEF GpuRetire, ring, disp
<1>2. RingSeq' = RingSeq /\ HeldTs' = HeldTs /\ Occupied' = Occupied
  BY <1>1 DEF RingSeq, HeldTs, Occupied
<1>3. PipeT /\ PipeT'
  BY PipeIs, PipeNext
<1>4. PICK h \in Seq(Ts), a \in Seq(Ts), g \in Seq(Ts) : h = HeldTs /\ a = AllTimed(RingSeq) /\ g = gpu'
  BY <1>3 DEF PipeT
<1>5. Pipeline = (gpu \o h) \o a /\ Pipeline' = (g \o h) \o a /\ gpu \in Seq(Ts)
  BY <1>2, <1>3, <1>4 DEF PipeT
<1>6. PICK x \in Seq(Ts) : x = h \o a
  BY ConcatProperties
<1>7. Pipeline = gpu \o x /\ Pipeline' = g \o x
  <2>1. gpu \in Seq(Ts)
    BY <1>5
  <2>2. (gpu \o h) \o a = gpu \o (h \o a)
    BY <2>1, TsAssoc, ZenonT(60)
  <2>3. (g \o h) \o a = g \o (h \o a)
    BY TsAssoc, ZenonT(60)
  <2> QED
    BY <1>5, <1>6, <2>2, <2>3
<1>8. Pipeline # <<>> /\ Head(Pipeline) = Head(gpu) /\ Tail(Pipeline) = Tail(gpu) \o x
  BY <1>1, <1>5, <1>7, FrontOf
<1>9. Objs' = Objs
  BY <1>1, <1>2 DEF Objs
<1> QED
  BY <1>1, <1>4, <1>7, <1>8, <1>9, GoodRetire

LEMMA SyncExpireGood ==
    ASSUME IInv, IInv', MarkI, NEW i \in Slots, SyncExpire(i)
    PROVE  Good
<1>1. /\ drawq' = [drawq EXCEPT ![i].pend = FALSE]
      /\ UNCHANGED <<queued_ts, eop, gpu, drawq_head, drawq_tail, wk>>
  BY DEF SyncExpire
<1>2. drawq \in [Slots -> DrawObj]
  BY DEF IInv, TypeI
<1>3. ASSUME NEW j \in Slots PROVE Alike(drawq'[j], drawq[j])
  <2>1. PICK o \in DrawObj : o = drawq[j]
    BY <1>2
  <2>2. drawq'[j] = o \/ drawq'[j] = [o EXCEPT !.pend = FALSE]
    BY <1>1, <1>2, <2>1
  <2> QED
    BY <2>1, <2>2 DEF DrawObj, Alike
<1> QED
  BY <1>1, <1>3, StillGood

LEMMA DetachDrainGood ==
    ASSUME IInv, IInv', MarkI, DetachDrain
    PROVE  Good
<1>1. drawq_head' = drawq_tail /\ UNCHANGED <<drawq_tail, queued_ts, eop, gpu, wk>>
  BY DEF DetachDrain, disp
<1>2. PipeT /\ PipeT'
  BY PipeIs, PipeNext
<1>3. Used' = 0
  <2>1. drawq_tail \in Slots
    BY DEF IInv, TypeI
  <2>2. (drawq_tail - drawq_tail) % QSize = Dist(drawq_tail, drawq_tail) /\ Dist(drawq_tail, drawq_tail) = 0
    BY <2>1, SlotDist, SizeFacts DEF Dist
  <2> QED
    BY <1>1, <2>2 DEF Used
<1>4. Occupied' = {}
  <2>1. Cardinality(Occupied') = 0
    BY <1>2, <1>3 DEF PipeT, RingT
  <2>2. Occupied' \in SUBSET Slots
    BY DEF Occupied
  <2> QED
    BY <2>1, <2>2, SlotCount
<1>5. RingSeq' = <<>> /\ RingSeq' \in Seq(DrawObj)
  <2>1. SeqT'
    BY <1>2, RingSeqNext DEF PipeT
  <2>2. RingSeq' \in Seq(DrawObj) /\ Len(RingSeq') = 0
    BY <1>3, <2>1 DEF SeqT
  <2> QED
    BY <2>2
<1>6. AllTimed(RingSeq') = <<>>
  BY <1>5, AllTimedType
<1>7. HeldTs' = HeldTs
  BY <1>1 DEF HeldTs
<1>8. PICK b \in Seq(Ts), a \in Seq(Ts) : b = gpu \o HeldTs /\ a = AllTimed(RingSeq)
  BY <1>2 DEF PipeT
<1>9. Pipeline = b \o a
  BY <1>2, <1>8 DEF PipeT
<1>10. Pipeline' = b
  <2>1. Pipeline' = (gpu' \o HeldTs') \o AllTimed(RingSeq')
    BY <1>2 DEF PipeT
  <2>2. b \o <<>> = b
    BY ConcatEmptySeq
  <2> QED
    BY <1>1, <1>6, <1>7, <1>8, <2>1, <2>2
<1>11. Objs' \subseteq Objs
  BY <1>1, <1>4 DEF Objs
<1> QED
  BY <1>1, <1>9, <1>10, <1>11, GoodDrop

LEMMA DestroyGood ==
    ASSUME IInv, IInv', MarkI, Destroy
    PROVE  Good
<1>1. ASSUME \/ DestroyRemove \/ DestroyMark \/ DetachSchedule \/ DetachFlushed \/ hgsl_reclaim_drawobjs
             \/ DestroyPut \/ SpinUntilDestroyed \/ hgsl_dispatch_ctxt_deinit
      PROVE  Good
  <2>1. UNCHANGED <<queued_ts, eop, gpu, ring, wk>>
    BY <1>1 DEF DestroyRemove, DestroyMark, DetachSchedule, DetachFlushed, hgsl_reclaim_drawobjs,
                DestroyPut, SpinUntilDestroyed, hgsl_dispatch_ctxt_deinit, disp
  <2> QED
    BY <2>1, RingStillGood
<1> QED
  BY <1>1, DetachDrainGood DEF Destroy

\* A thread moves the pipeline only when it queues an object.
LEMMA ThreadGood ==
    ASSUME IInv, IInv', MarkI, OrderI, Half >= 3, TsMode # "verbatim", NEW t \in Threads,
           SubmitBegin(t) \/ ThreadRuns(t) \/ RoomWaited(t, "signal")
    PROVE  Good
<1>1. ASSUME UNCHANGED <<queued_ts, eop, gpu, ring, wk>> PROVE Good
  BY <1>1, RingStillGood
<1>2. ASSUME NEW b \in Batches, NEW u \in UserTs, NEW p \in BOOLEAN, SubmitCreate(t, b, u, p)
      PROVE  Good
  BY <1>1, <1>2 DEF SubmitCreate, disp
<1>3. ASSUME NEW ret, RoomWaited(t, ret) PROVE Good
  BY <1>1, <1>3 DEF RoomWaited, disp
<1>4. ASSUME SubmitBegin(t) \/ SubmitCreateFails(t) \/ QueueEnter(t) \/ QueueLeave(t) PROVE Good
  BY <1>1, <1>4 DEF SubmitBegin, SubmitCreateFails, QueueEnter, QueueLeave, disp
<1>5. ASSUME KickCount(t) \/ KickSchedule(t) \/ SubmitEnd(t) PROVE Good
  BY <1>1, <1>5 DEF KickCount, KickSchedule, SubmitEnd, disp
<1> QED
  BY <1>2, <1>3, <1>4, <1>5, QueueCmdGood, QueueMarkerGood, QueueUntimedGood DEF ThreadRuns

LEMMA NextGood ==
    ASSUME IInv, IInv', MarkI, OrderI, Half >= 3, TsMode # "verbatim", [Next]_vars
    PROVE  Good
<1>1. ASSUME UNCHANGED vars PROVE Good
  <2>1. UNCHANGED <<queued_ts, eop, gpu, ring, wk>>
    BY <1>1 DEF vars, disp
  <2> QED
    BY <2>1, RingStillGood
<1> QED
  BY <1>1, ThreadGood, DispatchGood, GpuRetireGood, SyncExpireGood, DestroyGood DEF Next

LEMMA InitGood == ASSUME Init PROVE InOrder!Init /\ MarkI
<1>1. IInv
  BY InitIInv
<1>2. PipeT
  BY <1>1, PipeIs
<1>3. Used = 0
  BY SizeFacts, OccupiedIs DEF Init
<1>4. RingSeq = <<>> /\ RingSeq \in Seq(DrawObj)
  <2>1. SeqT
    BY <1>2, RingSeqIs DEF PipeT
  <2>2. RingSeq \in Seq(DrawObj) /\ Len(RingSeq) = 0
    BY <1>3, <2>1 DEF SeqT
  <2> QED
    BY <2>2
<1>5. AllTimed(RingSeq) = <<>>
  BY <1>4, AllTimedType
<1>6. gpu = <<>> /\ HeldTs = <<>>
  BY DEF Init, HeldTs, IdleWorker
<1>7. <<>> \o <<>> = <<>>
  <2>1. <<>> \in Seq(Ts)
    OBVIOUS
  <2> QED
    BY <2>1, ConcatEmptySeq
<1>8. Pipeline = <<>>
  BY <1>2, <1>5, <1>6, <1>7 DEF PipeT
<1>9. InOrder!Init
  BY <1>8 DEF Init, InOrder!Init
<1>10. MarkI
  BY <1>8, MarkEmpty DEF MarkI
<1> QED
  BY <1>9, <1>10

(***************************************************************************)
(* The draw queue implements HgslInOrder, for every ring, set of threads   *)
(* and batches and every width of the timestamp: commands reach the GPU in *)
(* the order of their timestamps even when one is pushed back to the ring, *)
(* and a marker that retires from the CPU, on the fast path or by the      *)
(* dispatcher, is the oldest timestamp pending.  It takes that no wait for *)
(* room outlasts its ten seconds and that somebody orders the timestamps:  *)
(* without USER_GENERATED_TS the caller's value is taken as it is.  In a   *)
(* word of two bits the driver's step from ~0 - 1 over ~0 and 0 to 1 would *)
(* leave the window (hgsl_db_next_timestamp); the code's word has 32.      *)
(***************************************************************************)
THEOREM DrawQueueInOrder ==
    ASSUME ~Timeouts, TsMode # "verbatim", Half >= 3
    PROVE  Spec => RefinesInOrder
<1>1. Init => InOrder!Init /\ MarkI /\ OrderI
  BY InitGood, OrderInit
<1>2. IInv /\ IInv' /\ MarkI /\ OrderI /\ [Next]_vars
          => [InOrder!Next]_(InOrder!vars) /\ MarkI' /\ OrderI'
  BY NextGood, OrderStep DEF Good
<1>3. Spec => []IInv
  BY Inductive
<1> QED
  BY <1>1, <1>2, <1>3, PTL DEF Spec, RefinesInOrder, InOrder!Spec

(***************************************************************************)
(* Time is linear in every such context, for every width of the counter    *)
(* and however often it wraps: the timestamps pending in the draw queue    *)
(* and at the GPU ascend from the retired one to the last one given out.   *)
(***************************************************************************)
THEOREM LinearTime ==
    ASSUME ~Timeouts, TsMode # "verbatim", Half >= 3
    PROVE  Spec => []InOrder!TimeLinear
<1>1. InOrder!Init => OrderI
  BY OrderInit
<1>2. OrderI => InOrder!TimeLinear
  BY DEF OrderI
<1>3. Spec => RefinesInOrder
  BY DrawQueueInOrder
<1> QED
  BY <1>1, <1>2, <1>3, OrderStep, PTL DEF RefinesInOrder, InOrder!Spec

(***************************************************************************)
(* hgsl_check_shadow_timestamp is right about every pending timestamp: it  *)
(* is not retired, and a later one retires no earlier.                     *)
(***************************************************************************)
THEOREM ComparisonRight ==
    ASSUME ~Timeouts, TsMode # "verbatim", Half >= 3
    PROVE  Spec => []InOrder!PendingNotRetired
<1>1. InOrder!Init => OrderI
  BY OrderInit
<1>2. Spec => RefinesInOrder
  BY DrawQueueInOrder
<1> QED
  BY <1>1, <1>2, LinearCompares, OrderStep, PTL DEF RefinesInOrder, InOrder!Spec

===============================================================================
