--------------------------- MODULE HgslIsyncProof ---------------------------
(***************************************************************************)
(* Proofs about HgslIsync, for every finite set of fences and of calls and *)
(* every width of the timestamp word.                                      *)
(*                                                                         *)
(* KrefExact and NoLostSignal are not inductive.  That a call which takes  *)
(* a fence off the list finds it alive needs the exact reference count of  *)
(* every fence (RefsI); that no signal is lost needs that a fence which is *)
(* not signalled is on the list or taken even when nobody waits for it yet *)
(* (Pending), and that users who come in by the descriptor, before the     *)
(* fence has been linked, find the creator's own reference (PlaceI).       *)
(***************************************************************************)
EXTENDS HgslIsync, FiniteSetTheorems, TLAPS

Callers == {t \in Threads : thread[t].pc # "idle"}
LiveFences == {f \in Fences : Live(f)}
Holders(f) == {t \in Threads : f \in thread[t].fences}

FenceI == [pc : FencePc, ts : Ts, refs : Nat, held : BOOLEAN, creating : BOOLEAN,
           signaled : BOOLEAN, enabled : BOOLEAN, missed : BOOLEAN]
CallI == [pc : ThreadPc, ts : Ts, fences : SUBSET Fences]

\* TypeOK without the bounds of the counts, which follow from CountI and RefsI.
TypeI ==
    /\ idr \in BOOLEAN
    /\ last_ts \in Ts
    /\ fence_list \subseteq Fences
    /\ fence \in [Fences -> FenceI]
    /\ thread \in [Threads -> CallI]

CountI ==
    kref = (IF idr THEN 1 ELSE 0) + Cardinality(Callers) + Cardinality(LiveFences)

\* The references of a fence: its user's, its creator's and those of calls.
UserRefs(r) == (IF r.held THEN 1 ELSE 0) + (IF r.creating THEN 1 ELSE 0)
RefsI ==
    \A f \in Fences :
        fence[f].refs = UserRefs(fence[f]) + Cardinality(Holders(f))

\* What a call holds where it is.
CallsI ==
    \A t \in Threads :
        /\ thread[t].pc \in {"idle", "forward", "destruct"} => thread[t].fences = {}
        /\ thread[t].pc = "fence" => \E f \in Fences : thread[t].fences = {f}

\* A fence of an array that is not on the list is known to its creator only.
PrivateI(f) ==
    fence[f].pc \in {"init", "checked"} /\ ~fence[f].creating =>
        fence[f].held /\ ~fence[f].enabled /\ Holders(f) = {}

\* Where a fence is, and who holds it there.
InUse == {"installed", "init", "checked", "ready"}
Place(f) ==
    /\ fence[f].refs = 0 <=> fence[f].pc \in {"none", "alloc", "dying", "freed"}
    /\ fence[f].pc = "alloc" => ~fence[f].enabled
    /\ PrivateI(f)
    /\ fence[f].creating => fence[f].pc \in InUse
    /\ fence[f].pc = "installed" => fence[f].creating
    /\ fence[f].pc \in {"installed", "init", "checked"} => ~Taken(f)
    /\ f \in fence_list => fence[f].pc \in {"ready", "dying"} /\ ~Taken(f)
    /\ \A t, u \in Threads :
          thread[t].pc = "signal" /\ f \in thread[t].fences
          /\ thread[u].pc = "signal" /\ f \in thread[u].fences => t = u
PlaceI == \A f \in Fences : Place(f)

\* A fence that is not signalled is on the list or taken off it.
PendingAt(f) ==
    fence[f].pc = "ready" /\ ~fence[f].signaled => f \in fence_list \/ Taken(f)
Pending == \A f \in Fences : PendingAt(f)

\* NoLostSignal, of one fence.
KeptAt(f) ==
    fence[f].pc = "ready" /\ fence[f].enabled /\ ~fence[f].signaled =>
        \/ Taken(f)
        \/ f \in fence_list /\ (~hgsl_isync_has_signaled(f) \/ fence[f].missed)

IInv == TypeI /\ CountI /\ RefsI /\ CallsI /\ PlaceI /\ Pending /\ NoLostSignal

-----------------------------------------------------------------------------
(* Counting.                                                               *)

\* Sets of calls and of fences are finite, and count one more or one less.
LEMMA CountCalls ==
    ASSUME NEW S \in SUBSET Threads
    PROVE  /\ IsFiniteSet(S) /\ Cardinality(S) \in Nat
           /\ Cardinality(S) <= Cardinality(Threads)
           /\ Cardinality(S) = 0 <=> S = {}
           /\ \A t \in Threads \ S : Cardinality(S \cup {t}) = Cardinality(S) + 1
           /\ \A t \in S : Cardinality(S \ {t}) = Cardinality(S) - 1
<1>1. IsFiniteSet(S) /\ Cardinality(S) <= Cardinality(Threads)
  BY FS_Subset, IsyncAssumption
<1>2. \A t \in Threads \ S : Cardinality(S \cup {t}) = Cardinality(S) + 1
  BY <1>1, FS_AddElement
<1>3. \A t \in S : Cardinality(S \ {t}) = Cardinality(S) - 1
  BY <1>1, FS_RemoveElement
<1> QED
  BY <1>1, <1>2, <1>3, FS_CardinalityType, FS_EmptySet

LEMMA CountFences ==
    ASSUME NEW S \in SUBSET Fences
    PROVE  /\ IsFiniteSet(S) /\ Cardinality(S) \in Nat
           /\ \A f \in Fences \ S : Cardinality(S \cup {f}) = Cardinality(S) + 1
           /\ \A f \in S : Cardinality(S \ {f}) = Cardinality(S) - 1
<1>1. IsFiniteSet(S)
  BY FS_Subset, IsyncAssumption
<1>2. \A f \in Fences \ S : Cardinality(S \cup {f}) = Cardinality(S) + 1
  BY <1>1, FS_AddElement
<1>3. \A f \in S : Cardinality(S \ {f}) = Cardinality(S) - 1
  BY <1>1, FS_RemoveElement
<1> QED
  BY <1>1, <1>2, <1>3, FS_CardinalityType

-----------------------------------------------------------------------------
(* What the steps have in common.                                          *)

\* A step of no call changes nobody's hold on a fence.
LEMMA SameCalls ==
    ASSUME thread' = thread
    PROVE  /\ Callers' = Callers
           /\ CallsI => CallsI'
           /\ \A f \in Fences : Holders(f)' = Holders(f) /\ Taken(f)' = Taken(f)
  BY DEF Callers, CallsI, Holders, Taken

\* The terms of the reference count are numbers.
LEMMA CountsAreNumbers ==
    Cardinality(Callers) \in Nat /\ Cardinality(LiveFences) \in Nat
  BY CountCalls, CountFences DEF Callers, LiveFences

\* A fence without references is held by nobody.
LEMMA NoReference ==
    ASSUME TypeI, RefsI, NEW f \in Fences, fence[f].refs = 0
    PROVE  ~fence[f].held /\ ~fence[f].creating /\ Holders(f) = {} /\ ~Taken(f)
<1>1. Cardinality(Holders(f)) \in Nat /\ (Cardinality(Holders(f)) = 0 <=> Holders(f) = {})
  BY CountCalls DEF Holders
<1>a. fence[f].refs = UserRefs(fence[f]) + Cardinality(Holders(f))
  BY DEF RefsI
<1>b. UserRefs(fence[f]) \in Nat
  BY DEF UserRefs
<1>c. UserRefs(fence[f]) = 0 => ~fence[f].held /\ ~fence[f].creating
  BY DEF UserRefs
<1>2. ~fence[f].held /\ ~fence[f].creating /\ Holders(f) = {}
  BY <1>1, <1>a, <1>b, <1>c
<1> QED
  BY <1>2 DEF Holders, Taken

\* The reference count of a fence that nothing touches stays exact.
LEMMA SameRefs ==
    ASSUME RefsI, NEW g \in Fences, Holders(g)' = Holders(g),
           fence'[g].refs = fence[g].refs, fence'[g].held = fence[g].held,
           fence'[g].creating = fence[g].creating
    PROVE  fence'[g].refs = UserRefs(fence'[g]) + Cardinality(Holders(g)')
  BY DEF RefsI, UserRefs

\* dma_fence_put takes one reference; the fence is dying when it was the last.
LEMMA PutTakesOne ==
    ASSUME NEW r \in FenceI, r.refs > 0
    PROVE  /\ Put(r) \in FenceI
           /\ Put(r).refs = r.refs - 1 /\ Put(r).held = r.held
           /\ Put(r).pc = IF r.refs = 1 THEN "dying" ELSE r.pc
           /\ Put(r).signaled = r.signaled /\ Put(r).enabled = r.enabled /\ Put(r).ts = r.ts
           /\ Put(r).creating = r.creating /\ Put(r).missed = r.missed
<1>1. r.refs - 1 \in Nat
  BY DEF FenceI
<1>2. CASE r.refs = 1
  <2>1. Put(r) = [[r EXCEPT !.refs = r.refs - 1] EXCEPT !.pc = "dying"]
    BY <1>2 DEF Put, FenceI
  <2> QED
    BY <1>1, <1>2, <2>1 DEF FenceI, FencePc
<1>3. CASE r.refs # 1
  <2>1. Put(r) = [r EXCEPT !.refs = r.refs - 1]
    BY <1>3 DEF Put, FenceI
  <2> QED
    BY <1>1, <1>3, <2>1 DEF FenceI, FencePc
<1> QED
  BY <1>2, <1>3

-----------------------------------------------------------------------------
(* The life of a fence.                                                    *)

\* A step of its creator or of a user changes one fence, to r: what has to be
\* shown of it is the count, its references, its place and its signal.
LEMMA OneFence ==
    ASSUME IInv, NEW f \in Fences, NEW r \in FenceI, fence' = [fence EXCEPT ![f] = r],
           UNCHANGED <<idr, last_ts, thread>>, fence_list' \subseteq Fences,
           \A g \in Fences \ {f} : g \in fence_list' <=> g \in fence_list,
           CountI', r.refs = UserRefs(r) + Cardinality(Holders(f)),
           Place(f)', PendingAt(f)', KeptAt(f)'
    PROVE  IInv'
<1>1. fence'[f] = r /\ \A g \in Fences \ {f} : fence'[g] = fence[g]
  BY DEF IInv, TypeI
<1>2. TypeI'
  BY DEF IInv, TypeI
<1>3. /\ CallsI'
      /\ \A g \in Fences : Holders(g)' = Holders(g) /\ Taken(g)' = Taken(g)
  BY SameCalls DEF IInv
<1>4. RefsI'
  <2>1. fence'[f].refs = UserRefs(fence'[f]) + Cardinality(Holders(f)')
    BY <1>1, <1>3
  <2>2. ASSUME NEW g \in Fences, g # f
        PROVE  fence'[g].refs = UserRefs(fence'[g]) + Cardinality(Holders(g)')
    BY <1>1, <1>3, <2>2, SameRefs DEF IInv
  <2> QED
    BY <2>1, <2>2 DEF RefsI
<1>5. ASSUME NEW g \in Fences, g # f PROVE Place(g)' /\ PendingAt(g)' /\ KeptAt(g)'
  <2>1. fence'[g] = fence[g] /\ (g \in fence_list' <=> g \in fence_list)
    BY <1>1, <1>5
  <2>2. Place(g) /\ PendingAt(g) /\ KeptAt(g)
    BY DEF IInv, PlaceI, Pending, NoLostSignal, KeptAt
  <2>3. Place(g)'
    BY <1>3, <2>1, <2>2 DEF Place, PrivateI
  <2>4. PendingAt(g)' /\ KeptAt(g)'
    BY <1>3, <2>1, <2>2 DEF PendingAt, KeptAt, hgsl_isync_has_signaled
  <2> QED
    BY <2>3, <2>4
<1>6. PlaceI' /\ Pending' /\ NoLostSignal'
  BY <1>5 DEF PlaceI, Pending, NoLostSignal, KeptAt
<1> QED
  BY <1>2, <1>3, <1>4, <1>6 DEF IInv

\* The count of a step that neither begins nor ends a fence.
LEMMA SameCount ==
    ASSUME IInv, NEW f \in Fences, NEW r, fence' = [fence EXCEPT ![f] = r],
           UNCHANGED <<idr, kref, thread>>, Live(f),
           r.pc \in {"alloc", "installed", "init", "checked", "ready", "dying"}
    PROVE  CountI'
<1>1. LiveFences' = LiveFences
  BY DEF IInv, TypeI, LiveFences, Live
<1> QED
  BY <1>1, SameCalls DEF IInv, CountI

\* What is known of a fence before the step.
LEMMA Before ==
    ASSUME IInv, NEW f \in Fences
    PROVE  /\ fence[f] \in FenceI /\ Place(f) /\ PendingAt(f) /\ KeptAt(f)
           /\ fence[f].refs = UserRefs(fence[f]) + Cardinality(Holders(f))
           /\ Cardinality(Holders(f)) \in Nat
           /\ fence_list \subseteq Fences
<1>1. Cardinality(Holders(f)) \in Nat
  BY CountCalls DEF Holders
<1> QED
  BY <1>1 DEF IInv, TypeI, RefsI, PlaceI, Pending, NoLostSignal, KeptAt

LEMMA CreateStep ==
    ASSUME IInv, NEW f \in Fences, NEW ts \in Ts, FenceCreate(f, ts) PROVE IInv'
<1> DEFINE r == NewFence(ts)
<1>1. /\ r \in FenceI /\ r.pc = "alloc" /\ r.refs = 0 /\ ~r.held /\ ~r.creating
      /\ ~r.enabled
  BY DEF NewFence, FenceI, FencePc
<1>2. /\ fence' = [fence EXCEPT ![f] = r] /\ fence[f].pc = "none" /\ kref' = kref + 1
      /\ UNCHANGED <<idr, last_ts, fence_list, thread>>
  BY DEF FenceCreate
<1> HIDE DEF r
<1>3. fence'[f] = r
  BY <1>2 DEF IInv, TypeI
<1>4. fence[f].refs = 0 /\ f \notin fence_list /\ Place(f) /\ fence_list \subseteq Fences
  BY <1>2, Before DEF Place
<1>5. Holders(f) = {} /\ ~Taken(f)
  BY <1>4, NoReference DEF IInv
<1>6. CountI'
  <2>1. LiveFences' = LiveFences \cup {f} /\ f \in Fences \ LiveFences
    BY <1>1, <1>2 DEF IInv, TypeI, LiveFences, Live
  <2>2. Cardinality(LiveFences)' = Cardinality(LiveFences) + 1
    BY <2>1, CountFences DEF LiveFences
  <2> QED
    BY <1>2, <2>2, SameCalls, CountsAreNumbers DEF IInv, CountI
<1>7. r.refs = UserRefs(r) + Cardinality(Holders(f))
  BY <1>1, <1>5, FS_EmptySet DEF UserRefs
<1>8. Place(f)'
  BY <1>1, <1>2, <1>3, <1>4, <1>5, SameCalls DEF Place, PrivateI
<1>9. PendingAt(f)' /\ KeptAt(f)'
  BY <1>1, <1>3 DEF PendingAt, KeptAt
<1> QED
  BY <1>1, <1>2, <1>4, <1>6, <1>7, <1>8, <1>9, OneFence

LEMMA CreateFailsStep ==
    ASSUME IInv, NEW f \in Fences, FenceCreateFails(f) PROVE IInv'
<1> DEFINE r == [fence[f] EXCEPT !.pc = "freed"]
<1>1. /\ fence' = [fence EXCEPT ![f] = r] /\ fence[f].pc = "alloc" /\ kref' = kref - 1
      /\ UNCHANGED <<idr, last_ts, fence_list, thread>>
  BY DEF FenceCreateFails
<1>2. /\ fence[f].refs = 0 /\ f \notin fence_list /\ Place(f) /\ fence[f] \in FenceI
      /\ fence_list \subseteq Fences
      /\ fence[f].refs = UserRefs(fence[f]) + Cardinality(Holders(f))
  BY <1>1, Before DEF Place
<1>3. /\ r \in FenceI /\ r.pc = "freed" /\ r.refs = fence[f].refs
      /\ r.held = fence[f].held /\ r.creating = fence[f].creating
  BY <1>2 DEF FenceI, FencePc
<1> HIDE DEF r
<1>4. fence'[f] = r
  BY <1>1 DEF IInv, TypeI
<1>5. ~fence[f].held /\ ~fence[f].creating /\ Holders(f) = {} /\ ~Taken(f)
  BY <1>2, NoReference DEF IInv
<1>6. CountI'
  <2>1. LiveFences' = LiveFences \ {f} /\ f \in LiveFences
    BY <1>1, <1>3 DEF IInv, TypeI, LiveFences, Live
  <2>2. Cardinality(LiveFences)' = Cardinality(LiveFences) - 1
    BY <2>1, CountFences DEF LiveFences
  <2> QED
    BY <1>1, <2>2, SameCalls, CountsAreNumbers DEF IInv, CountI
<1>7. r.refs = UserRefs(r) + Cardinality(Holders(f))
  BY <1>2, <1>3 DEF UserRefs
<1>8. Place(f)'
  BY <1>1, <1>2, <1>3, <1>4, <1>5, SameCalls DEF Place, PrivateI
<1>9. PendingAt(f)' /\ KeptAt(f)'
  BY <1>3, <1>4 DEF PendingAt, KeptAt
<1> QED
  BY <1>1, <1>2, <1>3, <1>6, <1>7, <1>8, <1>9, OneFence

LEMMA InstallStep ==
    ASSUME IInv, NEW f \in Fences, FenceInstall(f) PROVE IInv'
<1> DEFINE r == [fence[f] EXCEPT !.pc = "installed", !.refs = 2, !.held = TRUE, !.creating = TRUE]
<1>1. /\ fence' = [fence EXCEPT ![f] = r] /\ fence[f].pc = "alloc"
      /\ UNCHANGED <<idr, kref, last_ts, fence_list, thread>>
  BY DEF FenceInstall, IInv, TypeI
<1>2. /\ fence[f].refs = 0 /\ f \notin fence_list /\ Place(f) /\ fence[f] \in FenceI
      /\ fence_list \subseteq Fences
  BY <1>1, Before DEF Place
<1>3. r \in FenceI /\ r.pc = "installed" /\ r.refs = 2 /\ r.held /\ r.creating
  BY <1>2 DEF FenceI, FencePc
<1> HIDE DEF r
<1>4. fence'[f] = r
  BY <1>1 DEF IInv, TypeI
<1>5. Holders(f) = {} /\ ~Taken(f)
  BY <1>2, NoReference DEF IInv
<1>6. CountI'
  BY <1>1, <1>3, SameCount DEF Live
<1>7. r.refs = UserRefs(r) + Cardinality(Holders(f))
  BY <1>3, <1>5, FS_EmptySet DEF UserRefs
<1>8. Place(f)'
  BY <1>1, <1>2, <1>3, <1>4, <1>5, SameCalls DEF Place, PrivateI, InUse
<1>9. PendingAt(f)' /\ KeptAt(f)'
  BY <1>3, <1>4 DEF PendingAt, KeptAt
<1> QED
  BY <1>1, <1>2, <1>3, <1>6, <1>7, <1>8, <1>9, OneFence

LEMMA PrivateStep ==
    ASSUME IInv, NEW f \in Fences, FencePrivate(f) PROVE IInv'
<1> DEFINE r == [fence[f] EXCEPT !.pc = "init", !.refs = 1, !.held = TRUE]
<1>1. /\ fence' = [fence EXCEPT ![f] = r] /\ fence[f].pc = "alloc"
      /\ UNCHANGED <<idr, kref, last_ts, fence_list, thread>>
  BY DEF FencePrivate, IInv, TypeI
<1>2. /\ fence[f].refs = 0 /\ f \notin fence_list /\ Place(f) /\ fence[f] \in FenceI
      /\ ~fence[f].enabled /\ fence_list \subseteq Fences
  BY <1>1, Before DEF Place
<1>3. /\ r \in FenceI /\ r.pc = "init" /\ r.refs = 1 /\ r.held
      /\ r.creating = fence[f].creating /\ r.enabled = fence[f].enabled
  BY <1>2 DEF FenceI, FencePc
<1> HIDE DEF r
<1>4. fence'[f] = r
  BY <1>1 DEF IInv, TypeI
<1>5. ~fence[f].creating /\ Holders(f) = {} /\ ~Taken(f)
  BY <1>2, NoReference DEF IInv
<1>6. CountI'
  BY <1>1, <1>3, SameCount DEF Live
<1>7. r.refs = UserRefs(r) + Cardinality(Holders(f))
  BY <1>3, <1>5, FS_EmptySet DEF UserRefs
<1>8. Place(f)'
  BY <1>1, <1>2, <1>3, <1>4, <1>5, SameCalls DEF Place, PrivateI, InUse
<1>9. PendingAt(f)' /\ KeptAt(f)'
  BY <1>3, <1>4 DEF PendingAt, KeptAt
<1> QED
  BY <1>1, <1>2, <1>3, <1>6, <1>7, <1>8, <1>9, OneFence

\* A step that leaves the references of a fence alone (FenceAttach, FenceCheck,
\* FenceLink, hgsl_isync_enable_signaling, UserPoll).
LEMMA SameUse ==
    ASSUME IInv, NEW f \in Fences, NEW r \in FenceI, fence' = [fence EXCEPT ![f] = r],
           r.refs = fence[f].refs, r.held = fence[f].held, r.creating = fence[f].creating,
           fence[f].pc \in InUse, r.pc \in InUse,
           r.pc = "installed" => fence[f].pc = "installed",
           r.pc \in {"init", "checked"} =>
               /\ fence[f].pc \in {"installed", "init", "checked"}
               /\ fence[f].creating \/ (fence[f].pc # "installed" /\ r.enabled = fence[f].enabled),
           UNCHANGED <<idr, kref, last_ts, thread>>,
           \/ fence_list' = fence_list /\ (f \in fence_list => r.pc = "ready")
           \/ fence_list' = fence_list \cup {f} /\ r.pc = "ready" /\ ~Taken(f),
           PendingAt(f)', KeptAt(f)'
    PROVE  IInv'
<1>1. /\ Place(f) /\ fence_list \subseteq Fences
      /\ fence[f].refs = UserRefs(fence[f]) + Cardinality(Holders(f))
  BY Before
<1>2. fence'[f] = r
  BY DEF IInv, TypeI
<1>3. CountI'
  BY SameCount DEF Live, InUse
<1>4. r.refs = UserRefs(r) + Cardinality(Holders(f))
  BY <1>1 DEF UserRefs
<1>5. Place(f)'
  BY <1>1, <1>2, SameCalls DEF Place, PrivateI, InUse
<1>6. fence_list' \subseteq Fences /\ \A g \in Fences \ {f} : g \in fence_list' <=> g \in fence_list
  BY <1>1
<1> QED
  BY <1>3, <1>4, <1>5, <1>6, OneFence

LEMMA AttachStep ==
    ASSUME IInv, NEW f \in Fences, FenceAttach(f) PROVE IInv'
<1> DEFINE r == [fence[f] EXCEPT !.pc = "init"]
<1>1. /\ fence' = [fence EXCEPT ![f] = r] /\ fence[f].pc = "installed"
      /\ UNCHANGED <<idr, kref, last_ts, fence_list, thread>>
  BY DEF FenceAttach
<1>2. fence[f].creating /\ f \notin fence_list /\ fence[f] \in FenceI
  BY <1>1, Before DEF Place
<1>3. /\ r \in FenceI /\ r.pc = "init" /\ r.refs = fence[f].refs
      /\ r.held = fence[f].held /\ r.creating = fence[f].creating
  BY <1>2 DEF FenceI, FencePc
<1> HIDE DEF r
<1>4. fence'[f] = r
  BY <1>1 DEF IInv, TypeI
<1>5. PendingAt(f)' /\ KeptAt(f)'
  BY <1>3, <1>4 DEF PendingAt, KeptAt
<1> QED
  BY <1>1, <1>2, <1>3, <1>5, SameUse DEF InUse

LEMMA CheckStep ==
    ASSUME IInv, NEW f \in Fences, FenceCheck(f) PROVE IInv'
<1> DEFINE b == fence[f].signaled \/ hgsl_isync_has_signaled(f)
           r == [fence[f] EXCEPT !.signaled = b, !.pc = IF b THEN "ready" ELSE "checked"]
<1>1. /\ fence' = [fence EXCEPT ![f] = r] /\ fence[f].pc = "init"
      /\ UNCHANGED <<idr, kref, last_ts, fence_list, thread>>
  BY DEF FenceCheck, IInv, TypeI
<1>2. f \notin fence_list /\ fence[f] \in FenceI
  BY <1>1, Before DEF Place
<1>3. b \in BOOLEAN
  OBVIOUS
<1> HIDE DEF b
<1>4. /\ r \in FenceI /\ r.pc \in {"ready", "checked"} /\ r.refs = fence[f].refs
      /\ (r.pc = "ready" => r.signaled)
      /\ r.held = fence[f].held /\ r.creating = fence[f].creating /\ r.enabled = fence[f].enabled
  <2>1. CASE b
    BY <1>2, <1>3, <2>1 DEF FenceI, FencePc
  <2>2. CASE ~b
    BY <1>2, <1>3, <2>2 DEF FenceI, FencePc
  <2> QED
    BY <2>1, <2>2
<1> HIDE DEF r
<1>5. fence'[f] = r
  BY <1>1 DEF IInv, TypeI
<1>6. PendingAt(f)' /\ KeptAt(f)'
  BY <1>4, <1>5 DEF PendingAt, KeptAt
<1> QED
  BY <1>1, <1>2, <1>4, <1>6, SameUse DEF InUse

LEMMA LinkStep ==
    ASSUME IInv, NEW f \in Fences, FenceLink(f) PROVE IInv'
<1> DEFINE b == fence[f].enabled /\ ~fence[f].signaled /\ hgsl_isync_has_signaled(f)
           r == [fence[f] EXCEPT !.pc = "ready", !.missed = b]
<1>1. /\ fence' = [fence EXCEPT ![f] = r] /\ fence[f].pc = "checked"
      /\ UNCHANGED <<idr, kref, last_ts, thread>> /\ fence_list' = fence_list \cup {f}
  BY DEF FenceLink, IInv, TypeI
<1>2. f \notin fence_list /\ fence[f] \in FenceI /\ ~Taken(f)
  BY <1>1, Before DEF Place
<1>3. b \in BOOLEAN
  BY <1>2 DEF FenceI
<1>a. fence[f].enabled /\ ~fence[f].signaled /\ ~b => ~hgsl_ts32_ge(last_ts, fence[f].ts)
  BY <1>1 DEF hgsl_isync_has_signaled
<1> HIDE DEF b
<1>4. /\ r \in FenceI /\ r.pc = "ready" /\ r.refs = fence[f].refs /\ r.missed = b
      /\ r.held = fence[f].held /\ r.creating = fence[f].creating
      /\ r.enabled = fence[f].enabled /\ r.signaled = fence[f].signaled /\ r.ts = fence[f].ts
  BY <1>2, <1>3 DEF FenceI, FencePc
<1> HIDE DEF r
<1>5. fence'[f] = r
  BY <1>1 DEF IInv, TypeI
<1>6. PendingAt(f)'
  BY <1>1, <1>4, <1>5 DEF PendingAt
<1>7. KeptAt(f)'
  BY <1>1, <1>a, <1>4, <1>5 DEF KeptAt, hgsl_isync_has_signaled
<1> QED
  BY <1>1, <1>2, <1>4, <1>6, <1>7, SameUse DEF InUse

LEMMA EnableStep ==
    ASSUME IInv, NEW f \in Fences, hgsl_isync_enable_signaling(f) PROVE IInv'
<1> DEFINE b == hgsl_isync_has_signaled(f)
           r == [fence[f] EXCEPT !.signaled = b, !.enabled = ~b]
<1>1. /\ fence' = [fence EXCEPT ![f] = r] /\ Usable(f) /\ ~fence[f].signaled
      /\ UNCHANGED <<idr, kref, last_ts, fence_list, thread>>
  BY DEF hgsl_isync_enable_signaling, IInv, TypeI
<1>2. /\ fence[f] \in FenceI /\ fence[f].pc \in InUse /\ PendingAt(f)
      /\ fence[f].creating \/ fence[f].pc = "ready"
      /\ f \in fence_list => fence[f].pc = "ready"
  BY <1>1, Before DEF Place, Usable, InUse
<1>3. b \in BOOLEAN /\ (fence[f].pc = "ready" /\ ~b => ~hgsl_ts32_ge(last_ts, fence[f].ts))
  BY DEF hgsl_isync_has_signaled, hgsl_ts32_ge
<1> HIDE DEF b
<1>4. /\ r \in FenceI /\ r.pc = fence[f].pc /\ r.refs = fence[f].refs
      /\ r.held = fence[f].held /\ r.creating = fence[f].creating
      /\ r.enabled = ~b /\ r.signaled = b /\ r.ts = fence[f].ts
  BY <1>2, <1>3 DEF FenceI
<1> HIDE DEF r
<1>5. fence'[f] = r
  BY <1>1 DEF IInv, TypeI
<1>6. PendingAt(f)'
  BY <1>1, <1>2, <1>4, <1>5, SameCalls DEF PendingAt
<1>7. KeptAt(f)'
  BY <1>1, <1>2, <1>3, <1>4, <1>5, SameCalls DEF PendingAt, KeptAt, hgsl_isync_has_signaled
<1> QED
  BY <1>1, <1>2, <1>4, <1>6, <1>7, SameUse DEF InUse

LEMMA PollStep ==
    ASSUME IInv, NEW f \in Fences, UserPoll(f) PROVE IInv'
<1> DEFINE r == [fence[f] EXCEPT !.signaled = TRUE]
<1>1. /\ fence' = [fence EXCEPT ![f] = r] /\ Usable(f)
      /\ UNCHANGED <<idr, kref, last_ts, fence_list, thread>>
  BY DEF UserPoll
<1>2. /\ fence[f] \in FenceI /\ fence[f].pc \in InUse
      /\ fence[f].creating \/ fence[f].pc = "ready"
      /\ f \in fence_list => fence[f].pc = "ready"
  BY <1>1, Before DEF Place, Usable, InUse
<1>3. /\ r \in FenceI /\ r.pc = fence[f].pc /\ r.refs = fence[f].refs /\ r.signaled
      /\ r.held = fence[f].held /\ r.creating = fence[f].creating
  BY <1>2 DEF FenceI
<1> HIDE DEF r
<1>4. fence'[f] = r
  BY <1>1 DEF IInv, TypeI
<1>5. PendingAt(f)' /\ KeptAt(f)'
  BY <1>3, <1>4 DEF PendingAt, KeptAt
<1> QED
  BY <1>1, <1>2, <1>3, <1>5, SameUse DEF InUse

\* A user or the creator gives its reference up.
DropsUse(f, r) ==
    /\ r \in FenceI /\ r.refs = fence[f].refs /\ r.pc = fence[f].pc
    /\ r.signaled = fence[f].signaled /\ r.enabled = fence[f].enabled
    /\ r.missed = fence[f].missed /\ r.ts = fence[f].ts
    /\ UserRefs(fence[f]) = UserRefs(r) + 1
    /\ r.creating => fence[f].creating
    /\ r.creating \/ fence[f].pc = "ready"
    /\ fence' = [fence EXCEPT ![f] = Put(r)]
    /\ UNCHANGED <<idr, kref, last_ts, fence_list, thread>>

LEMMA DropStep ==
    ASSUME IInv, NEW f \in Fences, NEW r, DropsUse(f, r) PROVE IInv'
<1>1. /\ fence[f] \in FenceI /\ Place(f) /\ PendingAt(f) /\ KeptAt(f)
      /\ fence[f].refs = UserRefs(fence[f]) + Cardinality(Holders(f))
      /\ Cardinality(Holders(f)) \in Nat /\ fence_list \subseteq Fences
  BY Before
<1>2. fence[f].pc \in InUse /\ fence[f].refs > 0 /\ fence[f].refs \in Nat
  BY <1>1 DEF DropsUse, Place, InUse, FenceI
<1> DEFINE q == Put(r)
<1>3. /\ q \in FenceI /\ q.refs = fence[f].refs - 1
      /\ q.held = r.held /\ q.creating = r.creating
      /\ q.pc = (IF fence[f].refs = 1 THEN "dying" ELSE fence[f].pc)
      /\ q.signaled = fence[f].signaled /\ q.enabled = fence[f].enabled
      /\ q.missed = fence[f].missed /\ q.ts = fence[f].ts
  <2>1. r \in FenceI /\ r.refs > 0
    BY <1>2 DEF DropsUse
  <2> QED
    BY <2>1, PutTakesOne DEF DropsUse
<1>4. fence' = [fence EXCEPT ![f] = q] /\ UNCHANGED <<idr, kref, last_ts, fence_list, thread>>
  BY DEF DropsUse
<1> HIDE DEF q
<1>5. fence'[f] = q
  BY <1>4 DEF IInv, TypeI
<1>6. CountI'
  BY <1>2, <1>3, <1>4, SameCount DEF Live, InUse
<1>7. UserRefs(q) = UserRefs(r) /\ UserRefs(r) \in Nat
  BY <1>3 DEF UserRefs
<1>8. q.refs = UserRefs(q) + Cardinality(Holders(f))
  BY <1>1, <1>3, <1>7 DEF DropsUse
<1>9. fence[f].refs = 1 => ~q.creating
  <2>1. q.creating => UserRefs(q) >= 1
    BY DEF UserRefs
  <2> QED
    BY <1>1, <1>3, <1>7, <1>8, <2>1
<1>10. Place(f)'
  BY <1>1, <1>2, <1>3, <1>4, <1>5, <1>9, SameCalls DEF Place, PrivateI, InUse, DropsUse
<1>11. PendingAt(f)' /\ KeptAt(f)'
  BY <1>1, <1>3, <1>4, <1>5, SameCalls DEF PendingAt, KeptAt, hgsl_isync_has_signaled
<1> QED
  BY <1>1, <1>3, <1>4, <1>6, <1>8, <1>10, <1>11, OneFence

LEMMA UserPutStep ==
    ASSUME IInv, NEW f \in Fences, UserPut(f) PROVE IInv'
<1> DEFINE r == [fence[f] EXCEPT !.held = FALSE]
<1>1. fence[f] \in FenceI /\ fence[f].held /\ (fence[f].creating \/ fence[f].pc = "ready")
  BY Before DEF UserPut, Usable
<1>2. /\ r \in FenceI /\ r.refs = fence[f].refs /\ r.pc = fence[f].pc
      /\ r.signaled = fence[f].signaled /\ r.enabled = fence[f].enabled
      /\ r.missed = fence[f].missed /\ r.ts = fence[f].ts
      /\ ~r.held /\ r.creating = fence[f].creating
  BY <1>1 DEF FenceI
<1>3. fence' = [fence EXCEPT ![f] = Put(r)] /\ UNCHANGED <<idr, kref, last_ts, fence_list, thread>>
  BY DEF UserPut
<1> HIDE DEF r
<1>4. UserRefs(fence[f]) = UserRefs(r) + 1
  BY <1>1, <1>2 DEF UserRefs
<1>5. DropsUse(f, r)
  BY <1>1, <1>2, <1>3, <1>4 DEF DropsUse
<1> QED
  BY <1>5, DropStep

LEMMA CreatorPutStep ==
    ASSUME IInv, NEW f \in Fences, CreatorPut(f) PROVE IInv'
<1> DEFINE r == [fence[f] EXCEPT !.creating = FALSE]
<1>1. fence[f] \in FenceI /\ fence[f].creating /\ fence[f].pc = "ready"
  BY Before DEF CreatorPut
<1>2. /\ r \in FenceI /\ r.refs = fence[f].refs /\ r.pc = fence[f].pc
      /\ r.signaled = fence[f].signaled /\ r.enabled = fence[f].enabled
      /\ r.missed = fence[f].missed /\ r.ts = fence[f].ts
      /\ ~r.creating /\ r.held = fence[f].held
  BY <1>1 DEF FenceI
<1>3. fence' = [fence EXCEPT ![f] = Put(r)] /\ UNCHANGED <<idr, kref, last_ts, fence_list, thread>>
  BY DEF CreatorPut
<1> HIDE DEF r
<1>4. UserRefs(fence[f]) = UserRefs(r) + 1
  BY <1>1, <1>2 DEF UserRefs
<1>5. DropsUse(f, r)
  BY <1>1, <1>2, <1>3, <1>4 DEF DropsUse
<1> QED
  BY <1>5, DropStep

LEMMA ReleaseStep ==
    ASSUME IInv, NEW f \in Fences, hgsl_isync_fence_release(f) PROVE IInv'
<1> DEFINE r == [fence[f] EXCEPT !.pc = "freed"]
<1>1. /\ fence' = [fence EXCEPT ![f] = r] /\ fence[f].pc = "dying" /\ kref' = kref - 1
      /\ UNCHANGED <<idr, last_ts, thread>> /\ fence_list' = fence_list \ {f}
  BY DEF hgsl_isync_fence_release
<1>2. /\ fence[f].refs = 0 /\ Place(f) /\ fence[f] \in FenceI
      /\ fence_list \subseteq Fences
      /\ fence[f].refs = UserRefs(fence[f]) + Cardinality(Holders(f))
  BY <1>1, Before DEF Place
<1>3. /\ r \in FenceI /\ r.pc = "freed" /\ r.refs = fence[f].refs
      /\ r.held = fence[f].held /\ r.creating = fence[f].creating
  BY <1>2 DEF FenceI, FencePc
<1> HIDE DEF r
<1>4. fence'[f] = r
  BY <1>1 DEF IInv, TypeI
<1>5. ~fence[f].held /\ ~fence[f].creating /\ Holders(f) = {} /\ ~Taken(f)
  BY <1>2, NoReference DEF IInv
<1>6. CountI'
  <2>1. LiveFences' = LiveFences \ {f} /\ f \in LiveFences
    BY <1>1, <1>3 DEF IInv, TypeI, LiveFences, Live
  <2>2. Cardinality(LiveFences)' = Cardinality(LiveFences) - 1
    BY <2>1, CountFences DEF LiveFences
  <2> QED
    BY <1>1, <2>2, SameCalls, CountsAreNumbers DEF IInv, CountI
<1>7. r.refs = UserRefs(r) + Cardinality(Holders(f))
  BY <1>2, <1>3 DEF UserRefs
<1>8. Place(f)'
  BY <1>1, <1>2, <1>3, <1>4, <1>5, SameCalls DEF Place, PrivateI
<1>9. PendingAt(f)' /\ KeptAt(f)'
  BY <1>3, <1>4 DEF PendingAt, KeptAt
<1>10. fence_list' \subseteq Fences /\ \A g \in Fences \ {f} : g \in fence_list' <=> g \in fence_list
  BY <1>1, <1>2
<1> QED
  BY <1>1, <1>3, <1>6, <1>7, <1>8, <1>9, <1>10, OneFence

-----------------------------------------------------------------------------
(* Calls on the timeline.                                                  *)

\* A call that begins takes a reference on the timeline.
LEMMA BeginCounts ==
    ASSUME IInv, NEW t \in Threads, NEW call \in CallI, call.pc # "idle",
           hgsl_isync_timeline_get(t, call), LiveFences' = LiveFences
    PROVE  CountI'
<1>1. Callers' = Callers \cup {t} /\ t \in Threads \ Callers
  BY DEF IInv, TypeI, CallI, Callers, hgsl_isync_timeline_get
<1>2. Cardinality(Callers)' = Cardinality(Callers) + 1
  BY <1>1, CountCalls DEF Callers
<1> QED
  BY <1>2, CountsAreNumbers DEF IInv, CountI, hgsl_isync_timeline_get

\* A call that begins without a fence in hand (hgsl_isync_forward,
\* hgsl_isync_query) keeps the invariant.
LEMMA BeginStep ==
    ASSUME IInv, NEW t \in Threads, NEW call \in CallI, call.pc \in {"forward", "signal"},
           call.fences = {}, hgsl_isync_timeline_get(t, call), UNCHANGED fence
    PROVE  IInv'
<1> USE DEF hgsl_isync_timeline_get
<1>1. TypeI'
  BY DEF IInv, TypeI
<1>2. CountI'
  <2>1. LiveFences' = LiveFences
    BY DEF LiveFences, Live
  <2> QED
    BY <2>1, BeginCounts
<1>3. thread[t].fences = {}
  BY DEF IInv, CallsI
<1>4. \A g \in Fences : Holders(g)' = Holders(g) /\ Taken(g)' = Taken(g)
  BY <1>3 DEF IInv, TypeI, CallI, Holders, Taken
<1>5. RefsI'
  BY <1>4 DEF IInv, RefsI
<1>6. CallsI'
  BY DEF IInv, TypeI, CallI, CallsI
<1>7. PlaceI'
  BY <1>3, <1>4 DEF IInv, TypeI, CallI, PlaceI, Place, PrivateI
<1>8. Pending' /\ NoLostSignal'
  BY <1>4 DEF IInv, Pending, PendingAt, NoLostSignal, hgsl_isync_has_signaled
<1> QED
  BY <1>1, <1>2, <1>5, <1>6, <1>7, <1>8 DEF IInv

\* A call moves fences that have references from the list to its own.
TakesFrom(t, fs) ==
    /\ thread[t].pc \in {"forward", "destruct"}
    /\ fs \subseteq fence_list
    /\ \A f \in fs : fence[f].refs > 0
    /\ Take(t, fs)
    /\ fence_list' \subseteq fence_list \ fs

\* Then the call holds them, and nothing else of a fence has changed.
CallTook(t, fs) ==
    /\ thread' \in [Threads -> CallI]
    /\ thread'[t].pc = "signal" /\ thread'[t].fences = fs /\ thread[t].fences = {}
    /\ \A u \in Threads \ {t} : thread'[u] = thread[u]
FencesTaken(fs) ==
    /\ fence' = [f \in Fences |-> fence'[f]]
    /\ \A f \in Fences :
          /\ fence'[f] \in FenceI
          /\ fence'[f].refs = fence[f].refs + (IF f \in fs THEN 1 ELSE 0)
          /\ fence'[f].pc = fence[f].pc /\ fence'[f].held = fence[f].held
          /\ fence'[f].signaled = fence[f].signaled /\ fence'[f].enabled = fence[f].enabled
          /\ fence'[f].ts = fence[f].ts /\ fence'[f].creating = fence[f].creating
          /\ fence'[f].missed = fence[f].missed

LEMMA TakeFacts ==
    ASSUME IInv, NEW t \in Threads, NEW fs \in SUBSET Fences, TakesFrom(t, fs)
    PROVE  CallTook(t, fs) /\ FencesTaken(fs)
<1> USE DEF TakesFrom, Take
<1>1. thread[t].fences = {} /\ thread[t] \in CallI
  BY DEF IInv, TypeI, CallsI
<1>2. thread' = [thread EXCEPT ![t] = [thread[t] EXCEPT !.pc = "signal", !.ts = 0, !.fences = fs]]
  BY DEF IInv, TypeI
<1>3. [thread[t] EXCEPT !.pc = "signal", !.ts = 0, !.fences = fs] \in CallI
  <2>1. PICK z \in Ts : z = 0
    BY HalfAssumption DEF Ts, TsMod
  <2>2. [thread[t] EXCEPT !.pc = "signal", !.ts = z, !.fences = fs] \in CallI
    BY <1>1 DEF CallI, ThreadPc
  <2> QED
    BY <2>1, <2>2
<1>4. thread'[t] = [thread[t] EXCEPT !.pc = "signal", !.ts = 0, !.fences = fs]
  BY <1>2 DEF IInv, TypeI
<1>5. thread'[t].pc = "signal" /\ thread'[t].fences = fs
  BY <1>1, <1>4 DEF CallI
<1>6. \A u \in Threads \ {t} : thread'[u] = thread[u]
  BY <1>2 DEF IInv, TypeI
<1>7. ASSUME NEW f \in Fences
      PROVE  /\ fence'[f] \in FenceI
             /\ fence'[f].refs = fence[f].refs + (IF f \in fs THEN 1 ELSE 0)
             /\ fence'[f].pc = fence[f].pc /\ fence'[f].held = fence[f].held
             /\ fence'[f].signaled = fence[f].signaled /\ fence'[f].enabled = fence[f].enabled
             /\ fence'[f].ts = fence[f].ts /\ fence'[f].creating = fence[f].creating
             /\ fence'[f].missed = fence[f].missed
  <2>1. fence[f] \in FenceI
    BY DEF IInv, TypeI
  <2>2. CASE f \in fs
    <3>1. fence'[f] = [fence[f] EXCEPT !.refs = @ + 1]
      BY <2>2
    <3> QED
      BY <2>1, <2>2, <3>1 DEF FenceI
  <2>3. CASE f \notin fs
    <3>1. fence'[f] = fence[f]
      BY <2>3
    <3> QED
      BY <2>1, <2>3, <3>1 DEF FenceI
  <2> QED
    BY <2>2, <2>3
<1>8. fence' = [f \in Fences |-> fence'[f]]
  OBVIOUS
<1>9. CallTook(t, fs)
  <2>1. thread' \in [Threads -> CallI]
    BY <1>2, <1>3 DEF IInv, TypeI
  <2> QED
    BY <1>1, <1>5, <1>6, <2>1 DEF CallTook
<1> QED
  BY <1>7, <1>8, <1>9 DEF FencesTaken

\* So the counts stay exact and every fence is in one place.
LEMMA TakeKeeps ==
    ASSUME IInv, NEW t \in Threads, NEW fs \in SUBSET Fences, TakesFrom(t, fs),
           UNCHANGED <<idr, kref>>, last_ts' \in Ts
    PROVE  /\ TypeI' /\ CountI' /\ RefsI' /\ CallsI' /\ PlaceI'
           /\ \A f \in Fences : Taken(f)' <=> Taken(f) \/ f \in fs
<1>a. CallTook(t, fs)
  BY TakeFacts
<1>b. FencesTaken(fs)
  BY TakeFacts
<1>1. TypeI'
  <2>1. thread' \in [Threads -> CallI]
    BY <1>a, <1>b DEF CallTook, FencesTaken, IInv, TypeI
  <2>2. fence' \in [Fences -> FenceI]
    BY <1>a, <1>b DEF CallTook, FencesTaken
  <2>3. fence_list' \subseteq Fences /\ idr' \in BOOLEAN
    BY DEF IInv, TypeI, TakesFrom
  <2> QED
    BY <2>1, <2>2, <2>3 DEF TypeI
<1>2. CountI'
  <2>1. Callers' = Callers
    BY <1>a, <1>b DEF CallTook, FencesTaken, Callers, TakesFrom
  <2>2. LiveFences' = LiveFences
    BY <1>a, <1>b DEF CallTook, FencesTaken, LiveFences, Live
  <2> QED
    BY <2>1, <2>2 DEF IInv, CountI
<1>3. \A f \in Fences : Holders(f)' = IF f \in fs THEN Holders(f) \cup {t} ELSE Holders(f)
  BY <1>a, <1>b DEF CallTook, FencesTaken, Holders
<1>4. \A f \in Fences : t \notin Holders(f)
  BY <1>a, <1>b DEF CallTook, FencesTaken, Holders
<1>5. RefsI'
  <2> SUFFICES ASSUME NEW f \in Fences
               PROVE  fence'[f].refs = UserRefs(fence'[f]) + Cardinality(Holders(f)')
    BY DEF RefsI
  <2>1. Cardinality(Holders(f)) \in Nat
    BY CountCalls DEF Holders
  <2>2. Holders(f) \in SUBSET Threads /\ t \in Threads \ Holders(f)
    BY <1>4 DEF Holders
  <2>3. Cardinality(Holders(f) \cup {t}) = Cardinality(Holders(f)) + 1
    BY <2>2, CountCalls
  <2>4. Cardinality(Holders(f)') = Cardinality(Holders(f)) + (IF f \in fs THEN 1 ELSE 0)
    <3>1. CASE f \in fs
      <4>1. Holders(f)' = Holders(f) \cup {t}
        BY <1>3, <3>1
      <4> QED
        BY <2>3, <3>1, <4>1
    <3>2. CASE f \notin fs
      <4>1. Holders(f)' = Holders(f)
        BY <1>3, <3>2
      <4> QED
        BY <2>1, <3>2, <4>1
    <3> QED
      BY <3>1, <3>2
  <2>5. UserRefs(fence'[f]) = UserRefs(fence[f]) /\ UserRefs(fence[f]) \in Nat
    BY <1>b DEF FencesTaken, UserRefs
  <2>6. fence'[f].refs = fence[f].refs + (IF f \in fs THEN 1 ELSE 0)
    BY <1>b DEF FencesTaken
  <2>7. fence[f].refs = UserRefs(fence[f]) + Cardinality(Holders(f))
    BY DEF IInv, RefsI
  <2> QED
    BY <2>1, <2>4, <2>5, <2>6, <2>7
<1>6. CallsI'
  BY <1>a, <1>b DEF CallTook, FencesTaken, IInv, CallsI
<1>7. \A f \in Fences : Taken(f)' <=> Taken(f) \/ f \in fs
  BY <1>a, <1>b DEF CallTook, FencesTaken, Taken
<1>8. \A f \in fs : f \in fence_list /\ fence[f].refs > 0 /\ fence[f].pc = "ready" /\ ~Taken(f)
  BY DEF TakesFrom, IInv, PlaceI, Place, PrivateI, TypeI, FenceI
<1>9. PlaceI'
  <2> SUFFICES ASSUME NEW f \in Fences PROVE Place(f)'
    BY DEF PlaceI
  <2>a. Place(f) /\ fence[f] \in FenceI
    BY Before
  <2>b. /\ fence'[f].pc = fence[f].pc /\ fence'[f].held = fence[f].held
        /\ fence'[f].enabled = fence[f].enabled /\ fence'[f].creating = fence[f].creating
        /\ fence'[f].refs = fence[f].refs + (IF f \in fs THEN 1 ELSE 0)
    BY <1>b DEF FencesTaken
  <2>1. fence'[f].refs = 0 <=> fence'[f].pc \in {"none", "alloc", "dying", "freed"}
    BY <1>8, <2>a, <2>b DEF Place, FenceI
  <2>2. PrivateI(f)'
    BY <1>3, <1>8, <2>a, <2>b DEF Place, PrivateI
  <2>3. f \in fence_list' => fence'[f].pc \in {"ready", "dying"} /\ ~Taken(f)'
    BY <1>7, <2>a, <2>b DEF Place, TakesFrom
  <2>4. \A u, v \in Threads :
              thread'[u].pc = "signal" /\ f \in thread'[u].fences
              /\ thread'[v].pc = "signal" /\ f \in thread'[v].fences => u = v
    BY <1>8, <1>a, <2>a DEF CallTook, Place, Taken
  <2>5. fence'[f].pc \in {"installed", "init", "checked"} => ~Taken(f)'
    BY <1>7, <1>8, <2>a, <2>b DEF Place
  <2> QED
    BY <2>a, <2>b, <2>1, <2>2, <2>3, <2>4, <2>5 DEF Place
<1> QED
  BY <1>1, <1>2, <1>5, <1>6, <1>7, <1>9

LEMMA ForwardStep ==
    ASSUME IInv, NEW t \in Threads, ForwardWalk(t) PROVE IInv'
<1>1. CASE hgsl_ts32_ge(last_ts, thread[t].ts)
  <2>1. TakesFrom(t, {}) /\ UNCHANGED <<idr, kref, last_ts, fence_list>>
    BY <1>1 DEF ForwardWalk, TakesFrom
  <2>2. last_ts' \in Ts
    BY <2>1 DEF IInv, TypeI
  <2>3. /\ TypeI' /\ CountI' /\ RefsI' /\ CallsI' /\ PlaceI'
        /\ \A f \in Fences : Taken(f)' <=> Taken(f)
    BY <2>1, <2>2, TakeKeeps
  <2>a. FencesTaken({})
    BY <2>1, TakeFacts
  <2>4. Pending' /\ NoLostSignal'
    BY <2>1, <2>3, <2>a DEF FencesTaken, IInv, Pending, PendingAt, NoLostSignal, hgsl_isync_has_signaled
  <2> QED
    BY <2>3, <2>4 DEF IInv
<1>2. CASE ~hgsl_ts32_ge(last_ts, thread[t].ts)
  <2> DEFINE fs == {f \in Reached(t) : fence[f].refs > 0}
  <2>1. /\ fs \in SUBSET Fences /\ TakesFrom(t, fs)
        /\ UNCHANGED <<idr, kref>> /\ last_ts' = thread[t].ts /\ last_ts' \in Ts
        /\ fence_list' = fence_list \ Reached(t)
    BY <1>2 DEF ForwardWalk, TakesFrom, Reached, IInv, TypeI, CallI
  <2>2. /\ TypeI' /\ CountI' /\ RefsI' /\ CallsI' /\ PlaceI'
        /\ \A f \in Fences : Taken(f)' <=> Taken(f) \/ f \in fs
    BY <2>1, TakeKeeps
  <2>3. \A f \in Fences : fence[f].pc = "ready" => fence[f].refs > 0
    BY DEF IInv, PlaceI, Place, PrivateI, TypeI, FenceI
  <2>4. \A f \in Fences : /\ fence'[f].pc = fence[f].pc /\ fence'[f].signaled = fence[f].signaled
                          /\ fence'[f].enabled = fence[f].enabled /\ fence'[f].ts = fence[f].ts
                          /\ fence'[f].missed = fence[f].missed
    BY <2>1, TakeFacts DEF FencesTaken
  <2>5. Pending'
    BY <2>1, <2>2, <2>3, <2>4 DEF IInv, Pending, PendingAt
  <2>6. NoLostSignal'
    BY <2>1, <2>2, <2>3, <2>4 DEF IInv, NoLostSignal, Reached, hgsl_isync_has_signaled
  <2> QED
    BY <2>2, <2>5, <2>6 DEF IInv
<1> QED
  BY <1>1, <1>2

LEMMA DestructStep ==
    ASSUME IInv, NEW t \in Threads, hgsl_isync_timeline_destruct(t) PROVE IInv'
<1> DEFINE fs == {f \in fence_list : fence[f].refs > 0}
<1>1. /\ fs \in SUBSET Fences /\ TakesFrom(t, fs)
      /\ UNCHANGED <<idr, kref, last_ts>> /\ fence_list' = fence_list \ fs
  BY DEF hgsl_isync_timeline_destruct, TakesFrom, IInv, TypeI
<1>2. last_ts' \in Ts
  BY <1>1 DEF IInv, TypeI
<1>3. /\ TypeI' /\ CountI' /\ RefsI' /\ CallsI' /\ PlaceI'
      /\ \A f \in Fences : Taken(f)' <=> Taken(f) \/ f \in fs
  BY <1>1, <1>2, TakeKeeps
<1>4. \A f \in Fences : /\ fence'[f].pc = fence[f].pc /\ fence'[f].signaled = fence[f].signaled
                        /\ fence'[f].enabled = fence[f].enabled /\ fence'[f].ts = fence[f].ts
                        /\ fence'[f].missed = fence[f].missed
  BY <1>1, TakeFacts DEF FencesTaken
<1>5. Pending' /\ NoLostSignal'
  BY <1>1, <1>3, <1>4 DEF IInv, Pending, PendingAt, NoLostSignal, hgsl_isync_has_signaled
<1> QED
  BY <1>3, <1>5 DEF IInv

\* The remaining calls touch one fence at most: what one of them does to the
\* fence's count and to its holders decides the rest.
LEMMA FenceSignalStep ==
    ASSUME IInv, NEW t \in Threads, NEW f \in Fences, hgsl_isync_fence_signal(t, f)
    PROVE  IInv'
<1> DEFINE call == [pc |-> "fence", ts |-> 0, fences |-> {f}]
<1>1. call \in CallI /\ call.pc = "fence" /\ call.fences = {f}
  BY HalfAssumption DEF CallI, ThreadPc, Ts, TsMod
<1>2. /\ hgsl_isync_timeline_get(t, call) /\ thread[t].pc = "idle"
      /\ thread' = [thread EXCEPT ![t] = call]
      /\ Usable(f) /\ fence' = [fence EXCEPT ![f].refs = @ + 1]
      /\ UNCHANGED <<idr, last_ts, fence_list>>
  BY DEF hgsl_isync_fence_signal, hgsl_isync_timeline_get
<1>3. thread[t].fences = {}
  BY <1>2 DEF IInv, CallsI
<1> HIDE DEF call
<1>4. /\ thread' \in [Threads -> CallI] /\ thread'[t] = call
      /\ \A u \in Threads \ {t} : thread'[u] = thread[u]
  BY <1>1, <1>2 DEF IInv, TypeI
<1>5. /\ fence' \in [Fences -> FenceI]
      /\ fence'[f].refs = fence[f].refs + 1 /\ fence'[f].pc = fence[f].pc
      /\ fence'[f].held = fence[f].held /\ fence'[f].signaled = fence[f].signaled
      /\ fence'[f].enabled = fence[f].enabled /\ fence'[f].ts = fence[f].ts
      /\ fence'[f].creating = fence[f].creating /\ fence'[f].missed = fence[f].missed
      /\ \A g \in Fences \ {f} : fence'[g] = fence[g]
  BY <1>2 DEF IInv, TypeI, FenceI
<1>6. TypeI'
  BY <1>2, <1>4, <1>5 DEF IInv, TypeI
<1>7. CountI'
  <2>1. LiveFences' = LiveFences
    BY <1>2, <1>5 DEF LiveFences, Live
  <2> QED
    BY <1>1, <1>2, <2>1, BeginCounts
<1>8. /\ Holders(f)' = Holders(f) \cup {t} /\ t \in Threads \ Holders(f)
      /\ \A g \in Fences \ {f} : Holders(g)' = Holders(g)
      /\ \A g \in Fences : Taken(g)' <=> Taken(g)
  BY <1>1, <1>2, <1>3, <1>4 DEF Holders, Taken
<1>9. RefsI'
  <2>1. Cardinality(Holders(f)') = Cardinality(Holders(f)) + 1 /\ Cardinality(Holders(f)) \in Nat
    <3>1. Holders(f) \in SUBSET Threads
      BY DEF Holders
    <3> QED
      BY <1>8, <3>1, CountCalls
  <2>2. fence'[f].refs = UserRefs(fence'[f]) + Cardinality(Holders(f)')
    <3>1. UserRefs(fence'[f]) = UserRefs(fence[f]) /\ UserRefs(fence[f]) \in Nat
      BY <1>5 DEF UserRefs
    <3>2. fence[f].refs = UserRefs(fence[f]) + Cardinality(Holders(f))
      BY DEF IInv, RefsI
    <3> QED
      BY <1>5, <2>1, <3>1, <3>2
  <2>3. ASSUME NEW g \in Fences, g # f
        PROVE  fence'[g].refs = UserRefs(fence'[g]) + Cardinality(Holders(g)')
    BY <1>5, <1>8, <2>3, SameRefs DEF IInv
  <2> QED
    BY <2>2, <2>3 DEF RefsI
<1>10. CallsI'
  BY <1>1, <1>4 DEF IInv, CallsI
<1>11. PlaceI'
  <2>1. \A g \in Fences : \A u, v \in Threads :
              thread'[u].pc = "signal" /\ g \in thread'[u].fences
              /\ thread'[v].pc = "signal" /\ g \in thread'[v].fences => u = v
    BY <1>1, <1>4 DEF IInv, PlaceI, Place
  <2>2. fence[f].refs \in Nat /\ Place(f)
    BY Before DEF FenceI
  <2>3. fence[f].pc \in InUse /\ (fence[f].creating \/ fence[f].pc = "ready")
    BY <1>2, <2>2 DEF Usable, Place, InUse
  <2>4. Place(f)'
    <3>1. fence'[f].refs # 0 /\ fence'[f].pc \in InUse
      BY <1>5, <2>2, <2>3
    <3>2. PrivateI(f)'
      BY <1>5, <2>3 DEF PrivateI
    <3> QED
      BY <1>2, <1>5, <1>8, <2>1, <2>2, <3>1, <3>2 DEF Place, InUse
  <2>5. ASSUME NEW g \in Fences, g # f PROVE Place(g)'
    <3>1. Place(g) /\ fence'[g] = fence[g] /\ Holders(g)' = Holders(g)
      BY <1>5, <1>8, <2>5, Before
    <3> QED
      BY <1>2, <1>8, <2>1, <3>1 DEF Place, PrivateI
  <2> QED
    BY <2>4, <2>5 DEF PlaceI
<1>12. Pending' /\ NoLostSignal'
  BY <1>2, <1>5, <1>8 DEF IInv, Pending, PendingAt, NoLostSignal, hgsl_isync_has_signaled
<1> QED
  BY <1>6, <1>7, <1>9, <1>10, <1>11, <1>12 DEF IInv

LEMMA DestroyStep ==
    ASSUME IInv, NEW t \in Threads, hgsl_isync_timeline_destroy(t) PROVE IInv'
<1> USE DEF hgsl_isync_timeline_destroy
<1>1. thread[t].fences = {} /\ thread[t] \in CallI
  BY DEF IInv, CallsI, TypeI
<1>2. /\ thread' \in [Threads -> CallI]
      /\ thread'[t].pc = "destruct" /\ thread'[t].fences = {}
      /\ \A u \in Threads \ {t} : thread'[u] = thread[u]
  BY <1>1 DEF IInv, TypeI, CallI, ThreadPc
<1>3. TypeI'
  BY <1>2 DEF IInv, TypeI
<1>4. CountI'
  <2>1. Callers' = Callers \cup {t} /\ t \in Threads \ Callers
    BY <1>2 DEF Callers
  <2>2. Cardinality(Callers)' = Cardinality(Callers) + 1
    BY <2>1, CountCalls DEF Callers
  <2>3. LiveFences' = LiveFences
    BY DEF LiveFences, Live
  <2> QED
    BY <2>2, <2>3, CountsAreNumbers DEF IInv, CountI
<1>5. \A g \in Fences : Holders(g)' = Holders(g) /\ (Taken(g)' <=> Taken(g))
  BY <1>1, <1>2 DEF Holders, Taken
<1>6. RefsI'
  BY <1>5 DEF IInv, RefsI
<1>7. CallsI'
  BY <1>2 DEF IInv, CallsI
<1>8. PlaceI'
  <2>1. \A g \in Fences : \A u, v \in Threads :
              thread'[u].pc = "signal" /\ g \in thread'[u].fences
              /\ thread'[v].pc = "signal" /\ g \in thread'[v].fences => u = v
    BY <1>2 DEF IInv, PlaceI, Place, PrivateI
  <2> QED
    BY <1>5, <2>1 DEF IInv, PlaceI, Place, PrivateI
<1>9. Pending' /\ NoLostSignal'
  BY <1>5 DEF IInv, Pending, PendingAt, NoLostSignal, hgsl_isync_has_signaled
<1> QED
  BY <1>3, <1>4, <1>6, <1>7, <1>8, <1>9 DEF IInv

LEMMA EndStep ==
    ASSUME IInv, NEW t \in Threads, hgsl_isync_timeline_put(t) PROVE IInv'
<1> USE DEF hgsl_isync_timeline_put
<1>1. Idle \in CallI /\ Idle.pc = "idle" /\ Idle.fences = {}
  BY HalfAssumption DEF Idle, CallI, ThreadPc, Ts, TsMod
<1>2. /\ thread' \in [Threads -> CallI]
      /\ thread'[t].pc = "idle" /\ thread'[t].fences = {}
      /\ \A u \in Threads \ {t} : thread'[u] = thread[u]
  BY <1>1 DEF IInv, TypeI
<1>3. TypeI'
  BY <1>2 DEF IInv, TypeI
<1>4. CountI'
  <2>1. Callers' = Callers \ {t} /\ t \in Callers
    BY <1>2 DEF Callers
  <2>2. Cardinality(Callers)' = Cardinality(Callers) - 1
    BY <2>1, CountCalls DEF Callers
  <2>3. LiveFences' = LiveFences
    BY DEF LiveFences, Live
  <2> QED
    BY <2>2, <2>3, CountsAreNumbers DEF IInv, CountI
<1>5. \A g \in Fences : Holders(g)' = Holders(g) /\ (Taken(g)' <=> Taken(g))
  BY <1>2 DEF Holders, Taken
<1>6. RefsI'
  BY <1>5 DEF IInv, RefsI
<1>7. CallsI'
  BY <1>2 DEF IInv, CallsI
<1>8. PlaceI'
  <2>1. \A g \in Fences : \A u, v \in Threads :
              thread'[u].pc = "signal" /\ g \in thread'[u].fences
              /\ thread'[v].pc = "signal" /\ g \in thread'[v].fences => u = v
    BY <1>2 DEF IInv, PlaceI, Place, PrivateI
  <2> QED
    BY <1>5, <2>1 DEF IInv, PlaceI, Place, PrivateI
<1>9. Pending' /\ NoLostSignal'
  BY <1>5 DEF IInv, Pending, PendingAt, NoLostSignal, hgsl_isync_has_signaled
<1> QED
  BY <1>3, <1>4, <1>6, <1>7, <1>8, <1>9 DEF IInv

\* A fence that a call has in hand is alive and usable.
LEMMA InHand ==
    ASSUME IInv, NEW t \in Threads, NEW f \in thread[t].fences
    PROVE  f \in Fences /\ fence[f] \in FenceI /\ fence[f].refs > 0 /\ fence[f].pc \in InUse
<1>1. f \in Fences /\ t \in Holders(f)
  BY DEF IInv, TypeI, CallI, Holders
<1>2. fence[f] \in FenceI
  BY <1>1 DEF IInv, TypeI
<1>3. fence[f].refs # 0
  BY <1>1, NoReference DEF IInv
<1> QED
  BY <1>1, <1>2, <1>3 DEF IInv, PlaceI, Place, InUse, FenceI, FencePc

\* A call puts its reference on fence f, and leaves everything else alone.
PutsFence(t, f, r) ==
    /\ r \in FenceI /\ r.refs = fence[f].refs /\ r.pc = fence[f].pc
    /\ r.held = fence[f].held /\ r.creating = fence[f].creating /\ r.missed = fence[f].missed
    /\ r.signaled \in {fence[f].signaled, TRUE}
    /\ r.enabled = fence[f].enabled /\ r.ts = fence[f].ts
    /\ fence' = [fence EXCEPT ![f] = Put(r)]
    /\ thread' \in [Threads -> CallI]
    /\ thread'[t].pc = "signal" /\ thread'[t].fences = thread[t].fences \ {f}
    /\ \A u \in Threads \ {t} : thread'[u] = thread[u]
    /\ UNCHANGED <<idr, kref, last_ts, fence_list>>

\* The counts stay exact and every fence stays in its place.
LEMMA PutFenceKeeps ==
    ASSUME IInv, NEW t \in Threads, NEW f \in thread[t].fences, NEW r, PutsFence(t, f, r),
           thread[t].pc \in {"fence", "signal"}
    PROVE  TypeI' /\ CountI' /\ RefsI' /\ CallsI' /\ PlaceI'
<1>1. f \in Fences /\ fence[f].refs > 0 /\ fence[f].pc \in InUse /\ fence[f].refs \in Nat
  BY InHand DEF FenceI
<1>2. /\ Put(r) \in FenceI
      /\ Put(r).refs = fence[f].refs - 1 /\ Put(r).held = fence[f].held
      /\ Put(r).pc = (IF fence[f].refs = 1 THEN "dying" ELSE fence[f].pc)
      /\ Put(r).enabled = fence[f].enabled /\ Put(r).creating = fence[f].creating
  <2>1. r \in FenceI /\ r.refs > 0
    BY <1>1 DEF PutsFence
  <2> QED
    BY <2>1, PutTakesOne DEF PutsFence
<1>3. /\ fence' \in [Fences -> FenceI] /\ fence'[f] = Put(r)
      /\ \A g \in Fences \ {f} : fence'[g] = fence[g]
  BY <1>1, <1>2 DEF PutsFence, IInv, TypeI
<1>4. TypeI'
  BY <1>3 DEF PutsFence, IInv, TypeI
<1>5. CountI'
  <2>1. Callers' = Callers
    BY DEF Callers, PutsFence
  <2>2. LiveFences' = LiveFences
    BY <1>1, <1>2, <1>3 DEF LiveFences, Live, InUse
  <2> QED
    BY <2>1, <2>2 DEF IInv, CountI, PutsFence
<1>6. /\ Holders(f)' = Holders(f) \ {t} /\ t \in Holders(f)
      /\ \A g \in Fences \ {f} : Holders(g)' = Holders(g)
  BY DEF Holders, PutsFence
<1>7. RefsI'
  <2>1. Holders(f) \in SUBSET Threads
    BY DEF Holders
  <2>2. Cardinality(Holders(f)') = Cardinality(Holders(f)) - 1 /\ Cardinality(Holders(f)) \in Nat
    BY <1>6, <2>1, CountCalls
  <2>3. fence'[f].refs = UserRefs(fence'[f]) + Cardinality(Holders(f)')
    <3>1. fence[f].refs = UserRefs(fence[f]) + Cardinality(Holders(f))
      BY <1>1 DEF IInv, RefsI
    <3>2. fence'[f].refs = fence[f].refs - 1
      BY <1>2, <1>3
    <3>3. UserRefs(fence'[f]) = UserRefs(fence[f]) /\ UserRefs(fence[f]) \in Nat
      BY <1>2, <1>3 DEF UserRefs
    <3> QED
      BY <2>2, <3>1, <3>2, <3>3
  <2>4. ASSUME NEW g \in Fences, g # f
        PROVE  fence'[g].refs = UserRefs(fence'[g]) + Cardinality(Holders(g)')
    BY <1>3, <1>6, <2>4, SameRefs DEF IInv
  <2> QED
    BY <2>3, <2>4 DEF RefsI
<1>8. CallsI'
  BY DEF IInv, CallsI, PutsFence
<1>9. \A g \in Fences : Taken(g)' => Taken(g)
  <2>1. thread[t].pc = "fence" => thread'[t].fences = {}
    BY DEF IInv, CallsI, PutsFence
  <2> QED
    BY <2>1 DEF Taken, PutsFence
<1>10. PlaceI'
  <2>1. thread[t].pc = "fence" => thread'[t].fences = {}
    BY DEF IInv, CallsI, PutsFence
  <2>2. \A g \in Fences : \A u, v \in Threads :
              thread'[u].pc = "signal" /\ g \in thread'[u].fences
              /\ thread'[v].pc = "signal" /\ g \in thread'[v].fences => u = v
    BY <2>1 DEF IInv, PlaceI, Place, PutsFence
  <2>3. fence_list' = fence_list
    BY DEF PutsFence
  <2>4. Place(f)'
    <3>1. Place(f) /\ fence'[f] = Put(r)
      BY <1>1, <1>3, Before
    <3>2. fence[f].creating => fence[f].refs # 1
      <4>1. fence[f].creating => UserRefs(fence[f]) >= 1
        BY DEF UserRefs
      <4>2. Cardinality(Holders(f)) \in Nat /\ Cardinality(Holders(f)) # 0
        BY <1>6, CountCalls DEF Holders
      <4>3. fence[f].refs = UserRefs(fence[f]) + Cardinality(Holders(f))
        BY <1>1, Before
      <4>4. UserRefs(fence[f]) \in Nat
        BY DEF UserRefs
      <4> QED
        BY <4>1, <4>2, <4>3, <4>4
    <3>3. fence'[f].refs = 0 <=> fence'[f].pc \in {"none", "alloc", "dying", "freed"}
      BY <1>1, <1>2, <3>1 DEF InUse
    <3>4. PrivateI(f)'
      BY <1>2, <1>6, <3>1 DEF Place, PrivateI
    <3>5. (fence'[f].creating => fence'[f].pc \in InUse)
          /\ (fence'[f].pc = "installed" => fence'[f].creating)
          /\ (fence'[f].pc = "alloc" => ~fence'[f].enabled)
      BY <1>1, <1>2, <3>1, <3>2 DEF Place, InUse
    <3>6. /\ fence'[f].pc \in {"installed", "init", "checked"} => ~Taken(f)'
          /\ f \in fence_list' => fence'[f].pc \in {"ready", "dying"} /\ ~Taken(f)'
      BY <1>1, <1>2, <1>9, <2>3, <3>1 DEF Place
    <3> QED
      BY <1>1, <2>2, <3>3, <3>4, <3>5, <3>6 DEF Place
  <2>5. ASSUME NEW g \in Fences, g # f PROVE Place(g)'
    <3>1. Place(g) /\ fence'[g] = fence[g] /\ Holders(g)' = Holders(g)
      BY <1>3, <1>6, <2>5, Before
    <3> QED
      BY <1>9, <2>2, <2>3, <3>1 DEF Place, PrivateI
  <2> QED
    BY <2>4, <2>5 DEF PlaceI
<1> QED
  BY <1>4, <1>5, <1>7, <1>8, <1>10

LEMMA SignalFenceStep ==
    ASSUME IInv, NEW t \in Threads, NEW f \in Fences, SignalFence(t, f) PROVE IInv'
<1> DEFINE r == [fence[f] EXCEPT !.signaled = TRUE]
<1>1. f \in thread[t].fences /\ thread[t].pc = "signal"
  BY DEF SignalFence
<1>2. fence[f] \in FenceI /\ fence[f].refs > 0
  BY <1>1, InHand
<1>3. /\ r \in FenceI /\ r.refs = fence[f].refs /\ r.pc = fence[f].pc
      /\ r.held = fence[f].held /\ r.creating = fence[f].creating /\ r.missed = fence[f].missed
      /\ r.signaled = TRUE /\ r.enabled = fence[f].enabled /\ r.ts = fence[f].ts
  BY <1>2 DEF FenceI
<1>4. /\ thread' \in [Threads -> CallI]
      /\ thread'[t].pc = "signal" /\ thread'[t].fences = thread[t].fences \ {f}
      /\ \A u \in Threads \ {t} : thread'[u] = thread[u]
  BY <1>1 DEF SignalFence, IInv, TypeI, CallI
<1>5. fence' = [fence EXCEPT ![f] = Put(r)] /\ UNCHANGED <<idr, kref, last_ts, fence_list>>
  BY DEF SignalFence
<1> HIDE DEF r
<1>6. PutsFence(t, f, r)
  BY <1>3, <1>4, <1>5 DEF PutsFence
<1>7. TypeI' /\ CountI' /\ RefsI' /\ CallsI' /\ PlaceI'
  BY <1>1, <1>6, PutFenceKeeps
<1>8. fence'[f].signaled = TRUE /\ \A g \in Fences \ {f} : fence'[g] = fence[g]
  BY <1>2, <1>3, <1>5, PutTakesOne DEF IInv, TypeI
<1>9. \A g \in Fences \ {f} : Taken(g)' <=> Taken(g)
  BY <1>1, <1>4 DEF Taken
<1>10. Pending' /\ NoLostSignal'
  BY <1>5, <1>8, <1>9 DEF IInv, Pending, PendingAt, NoLostSignal, hgsl_isync_has_signaled
<1> QED
  BY <1>7, <1>10 DEF IInv

LEMMA TimelineSignalStep ==
    ASSUME IInv, NEW t \in Threads, _isync_timeline_signal(t) PROVE IInv'
<1>1. PICK f \in Fences : thread[t].fences = {f}
  BY DEF _isync_timeline_signal, IInv, CallsI
<1>2. fence[f] \in FenceI /\ fence[f].refs > 0
  BY <1>1, InHand
<1>3. /\ thread[t].pc = "fence" /\ fence_list' = fence_list \ {f}
      /\ UNCHANGED <<idr, kref, last_ts>>
  BY <1>1 DEF _isync_timeline_signal
<1>4. CASE f \in fence_list
  <2>1. thread' = [thread EXCEPT ![t].pc = "signal"] /\ UNCHANGED fence
    BY <1>1, <1>4 DEF _isync_timeline_signal
  <2>2. /\ thread' \in [Threads -> CallI]
        /\ thread'[t].pc = "signal" /\ thread'[t].fences = {f}
        /\ \A u \in Threads \ {t} : thread'[u] = thread[u]
    BY <1>1, <2>1 DEF IInv, TypeI, CallI, ThreadPc
  <2>3. TypeI'
    BY <1>3, <2>1, <2>2 DEF IInv, TypeI
  <2>4. CountI'
    <3>1. Callers' = Callers
      BY <1>3, <2>2 DEF Callers
    <3>2. LiveFences' = LiveFences
      BY <2>1 DEF LiveFences, Live
    <3> QED
      BY <1>3, <3>1, <3>2 DEF IInv, CountI
  <2>5. \A g \in Fences : Holders(g)' = Holders(g)
    BY <1>1, <2>2 DEF Holders
  <2>6. Taken(f)' /\ ~Taken(f) /\ \A g \in Fences \ {f} : Taken(g)' <=> Taken(g)
    BY <1>1, <1>3, <1>4, <2>2 DEF Taken, IInv, PlaceI, Place, PrivateI
  <2>7. RefsI'
    BY <2>1, <2>5 DEF IInv, RefsI
  <2>8. CallsI'
    BY <2>2 DEF IInv, CallsI
  <2>9. PlaceI'
    <3>1. \A g \in Fences : \A u, v \in Threads :
                thread'[u].pc = "signal" /\ g \in thread'[u].fences
                /\ thread'[v].pc = "signal" /\ g \in thread'[v].fences => u = v
      BY <2>2, <2>6 DEF IInv, PlaceI, Place, PrivateI, Taken
    <3>2. ASSUME NEW g \in Fences PROVE Place(g)'
      <4>1. Place(g) /\ Place(f) /\ fence'[g] = fence[g] /\ Holders(g)' = Holders(g)
        BY <2>1, <2>5, Before
      <4>2. PrivateI(g)'
        BY <4>1 DEF Place, PrivateI
      <4>3. CASE g = f
        BY <1>3, <1>4, <2>1, <3>1, <4>1, <4>2, <4>3 DEF Place
      <4>4. CASE g # f
        BY <1>3, <2>1, <2>6, <3>1, <4>1, <4>2, <4>4 DEF Place
      <4> QED
        BY <4>3, <4>4
    <3> QED
      BY <3>2 DEF PlaceI
  <2>10. Pending' /\ NoLostSignal'
    BY <1>3, <2>1, <2>6 DEF IInv, Pending, PendingAt, NoLostSignal, hgsl_isync_has_signaled
  <2> QED
    BY <2>3, <2>4, <2>7, <2>8, <2>9, <2>10 DEF IInv
<1>5. CASE f \notin fence_list
  <2>1. /\ thread' = [thread EXCEPT ![t].pc = "signal", ![t].fences = {}]
        /\ fence' = [fence EXCEPT ![f] = Put(fence[f])]
    BY <1>1, <1>5 DEF _isync_timeline_signal
  <2>2. /\ thread' \in [Threads -> CallI]
        /\ thread'[t].pc = "signal" /\ thread'[t].fences = {}
        /\ \A u \in Threads \ {t} : thread'[u] = thread[u]
    <3>1. thread' = [thread EXCEPT ![t] = [thread[t] EXCEPT !.pc = "signal", !.fences = {}]]
      BY <2>1 DEF IInv, TypeI
    <3>2. thread[t] \in CallI
      BY DEF IInv, TypeI
    <3>3. /\ [thread[t] EXCEPT !.pc = "signal", !.fences = {}] \in CallI
          /\ [thread[t] EXCEPT !.pc = "signal", !.fences = {}].pc = "signal"
          /\ [thread[t] EXCEPT !.pc = "signal", !.fences = {}].fences = {}
      BY <3>2 DEF CallI, ThreadPc
    <3> QED
      BY <3>1, <3>3 DEF IInv, TypeI
  <2>3. PutsFence(t, f, fence[f])
    BY <1>1, <1>2, <1>3, <1>5, <2>1, <2>2 DEF PutsFence
  <2>4. TypeI' /\ CountI' /\ RefsI' /\ CallsI' /\ PlaceI'
    BY <1>1, <1>3, <2>3, PutFenceKeeps
  <2>5. /\ fence'[f].signaled = fence[f].signaled /\ fence'[f].enabled = fence[f].enabled
        /\ fence'[f].ts = fence[f].ts /\ fence'[f].missed = fence[f].missed
        /\ fence'[f].pc \in {fence[f].pc, "dying"}
        /\ \A g \in Fences \ {f} : fence'[g] = fence[g]
    BY <1>2, <2>1, PutTakesOne DEF IInv, TypeI
  <2>6. \A g \in Fences : Taken(g)' <=> Taken(g)
    BY <1>3, <2>2 DEF Taken
  <2>7. Pending' /\ NoLostSignal'
    BY <1>2, <1>3, <1>5, <2>5, <2>6 DEF IInv, Pending, PendingAt, NoLostSignal, hgsl_isync_has_signaled
  <2> QED
    BY <2>4, <2>7 DEF IInv
<1> QED
  BY <1>4, <1>5

-----------------------------------------------------------------------------
(* The theorems.                                                           *)

LEMMA InitIInv == Init => IInv
<1> SUFFICES ASSUME Init PROVE IInv
  OBVIOUS
<1> USE DEF Init, NewFence, Idle, UserRefs
<1>1. 0 \in Ts
  BY HalfAssumption DEF Ts, TsMod
<1>2. TypeI
  BY <1>1 DEF TypeI, FenceI, FencePc, CallI, ThreadPc
<1>3. Callers = {} /\ LiveFences = {} /\ \A f \in Fences : Holders(f) = {} /\ ~Taken(f)
  BY DEF Callers, LiveFences, Live, Holders, Taken
<1>4. CountI
  BY <1>3, FS_EmptySet DEF CountI
<1>5. RefsI
  <2>1. \A f \in Fences : fence[f].refs = 0 /\ ~fence[f].held /\ ~fence[f].creating
    OBVIOUS
  <2> QED
    BY <1>3, <2>1, FS_EmptySet DEF RefsI
<1>6. CallsI /\ PlaceI /\ Pending /\ NoLostSignal
  BY <1>3 DEF CallsI, PlaceI, Place, PrivateI, Pending, PendingAt, NoLostSignal
<1> QED
  BY <1>2, <1>4, <1>5, <1>6 DEF IInv

LEMMA NextIInv == IInv /\ [Next]_vars => IInv'
<1> SUFFICES ASSUME IInv, [Next]_vars PROVE IInv'
  OBVIOUS
<1>1. CASE UNCHANGED vars
  BY <1>1 DEF vars, IInv, TypeI, CountI, RefsI, CallsI, PlaceI, Place, PrivateI, Pending, PendingAt, NoLostSignal,
              Callers, LiveFences, Live, Holders, Taken, hgsl_isync_has_signaled
<1>2. ASSUME NEW f \in Fences,
             \/ \E ts \in Ts : FenceCreate(f, ts)
             \/ FenceCreateFails(f) \/ Creator(f) \/ hgsl_isync_enable_signaling(f)
             \/ UserPoll(f) \/ UserPut(f) \/ hgsl_isync_fence_release(f)
      PROVE  IInv'
  BY <1>2, CreateStep, CreateFailsStep, InstallStep, AttachStep, PrivateStep, CheckStep,
     LinkStep, CreatorPutStep, EnableStep, PollStep, UserPutStep, ReleaseStep
     DEF Creator
<1>3. ASSUME NEW t \in Threads, Start(t) PROVE IInv'
  <2>1. ASSUME NEW ts \in Ts, hgsl_isync_forward(t, ts) PROVE IInv'
    <3> DEFINE call == [pc |-> "forward", ts |-> ts, fences |-> {}]
    <3>1. call \in CallI /\ call.pc = "forward" /\ call.fences = {}
      BY DEF CallI, ThreadPc
    <3>2. hgsl_isync_timeline_get(t, call) /\ UNCHANGED fence
      BY <2>1 DEF hgsl_isync_forward
    <3> HIDE DEF call
    <3> QED
      BY <3>1, <3>2, BeginStep
  <2>2. CASE hgsl_isync_query(t)
    <3> DEFINE call == [pc |-> "signal", ts |-> 0, fences |-> {}]
    <3>1. call \in CallI /\ call.pc = "signal" /\ call.fences = {}
      BY HalfAssumption DEF CallI, ThreadPc, Ts, TsMod
    <3>2. hgsl_isync_timeline_get(t, call) /\ UNCHANGED fence
      BY <2>2 DEF hgsl_isync_query
    <3> HIDE DEF call
    <3> QED
      BY <3>1, <3>2, BeginStep
  <2> QED
    BY <1>3, <2>1, <2>2, FenceSignalStep, DestroyStep DEF Start
<1>4. ASSUME NEW t \in Threads, Call(t) PROVE IInv'
  BY <1>4, ForwardStep, TimelineSignalStep, DestructStep, SignalFenceStep, EndStep DEF Call
<1> QED
  BY <1>1, <1>2, <1>3, <1>4 DEF Next

\* The counts of the invariant are those of the properties.
LEMMA IInvKrefExact == IInv => KrefExact
<1> SUFFICES ASSUME IInv PROVE KrefExact
  OBVIOUS
<1>1. kref \in Nat /\ kref = (IF idr THEN 1 ELSE 0)
                             + Cardinality({t \in Threads : thread[t].pc # "idle"})
                             + Cardinality({f \in Fences : Live(f)})
  BY CountsAreNumbers DEF IInv, CountI, Callers, LiveFences
<1>2. fence \in [Fences -> Fence]
  <2>1. \A f \in Fences : fence[f].refs \in 0 .. Cardinality(Threads) + 2
    <3> TAKE f \in Fences
    <3>1. /\ Cardinality(Holders(f)) \in Nat /\ Cardinality(Threads) \in Nat
          /\ Cardinality(Holders(f)) <= Cardinality(Threads)
      BY CountCalls DEF Holders
    <3>2. UserRefs(fence[f]) \in 0 .. 2
      BY DEF UserRefs
    <3> QED
      BY <3>1, <3>2 DEF IInv, RefsI
  <2> QED
    BY <2>1 DEF IInv, TypeI, FenceI, Fence
<1>3. TypeOK
  BY <1>1, <1>2 DEF TypeOK, IInv, TypeI, CallI
<1>4. ASSUME NEW f \in Fences
      PROVE  /\ f \in fence_list => fence[f].pc \in {"ready", "dying"} /\ ~Taken(f)
             /\ Cardinality({t \in Threads : thread[t].pc = "signal" /\ f \in thread[t].fences}) <= 1
             /\ Taken(f) => fence[f].pc = "ready"
  <2>1. Taken(f) => fence[f].pc = "ready"
    BY InHand, Before DEF Taken, Place, InUse
  <2> DEFINE S == {t \in Threads : thread[t].pc = "signal" /\ f \in thread[t].fences}
  <2>2. Cardinality(S) <= 1
    <3>1. CASE S = {}
      BY <3>1, FS_EmptySet
    <3>2. CASE S # {}
      <4>1. PICK t \in S : TRUE
        BY <3>2
      <4>2. S = {t}
        BY <4>1 DEF IInv, PlaceI, Place, PrivateI
      <4> QED
        BY <4>2, FS_Singleton
    <3> QED
      BY <3>1, <3>2
  <2> QED
    BY <2>1, <2>2 DEF IInv, PlaceI, Place, PrivateI
<1> QED
  BY <1>1, <1>3, <1>4 DEF KrefExact

\* A software timeline lives exactly as long as its table entry, its fences and
\* the calls on it, and no fence is on two lists (hgsl_isync_timeline_put,
\* hgsl_isync_fence_release).
THEOREM TimelineCounted == Spec => []KrefExact
  BY InitIInv, NextIInv, IInvKrefExact, PTL DEF Spec

\* No waiter misses a signal, except one that came through the descriptor while
\* hgsl_isync_fence_create was between its check and its link and the timeline
\* passed the fence there: a fence that somebody waits for and that is not
\* signalled is on the list and ahead of the timeline, or is such a fence and on
\* the list, or a call is about to signal it.
THEOREM SignalKept == Spec => []NoLostSignal
<1>1. IInv => NoLostSignal
  BY DEF IInv
<1> QED
  BY <1>1, InitIInv, NextIInv, PTL DEF Spec
=============================================================================
