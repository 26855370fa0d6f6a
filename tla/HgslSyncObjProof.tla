--------------------------- MODULE HgslSyncObjProof ---------------------------
(***************************************************************************)
(* Proofs about HgslSyncObj, for any number of sync points of any types:   *)
(* references are exact and nothing touches a freed object, and the expiry *)
(* of the last sync point is not lost.                                     *)
(*                                                                         *)
(* The pending bit of a point decides who owns what the point holds.  The  *)
(* inductive invariant says, for each point, which stages of its callback  *)
(* go with a bit that is set, cleared by the callback and cleared by the   *)
(* destroyer, and what the point then holds on its source.                 *)
(***************************************************************************)
EXTENDS HgslSyncObj, FiniteSetTheorems, TLAPS

\* The submitter registers the callback of p; the destroyer cancels it.
Registering(p) == own = "registering" /\ p = id
Cancelling(p) == own = "cancel" /\ p = id

\* What a point with a registered callback holds on its source.
Held(p) == IF PointType[p] = "fence" THEN 0 ELSE 1

\* Who owns the point: nobody yet, the submitter, its pending bit, the callback
\* that cleared the bit, or the destroyer that did.
BitI(p) ==
    /\ p > numsyncs => p \notin pending /\ cb[p] = "none"
    /\ Registering(p) => p \in pending /\ cb[p] = "none"
    /\ p \in pending /\ ~Registering(p) => cb[p] \in {"armed", "fired"}
    /\ Cancelling(p) => p \notin pending /\ cb[p] \in {"armed", "fired", "lost", "done"}
    /\ p \notin pending /\ cb[p] = "armed" => Cancelling(p)
    /\ p \notin pending /\ cb[p] \in {"fired", "lost"} =>
          PointType[p] = "timestamp" \/ Cancelling(p)
    /\ cb[p] = "work" => PointType[p] = "timeline"
SrcI(p) ==
    src[p] = IF Registering(p) THEN SrcRefs(p)
             ELSE IF p \in pending \/ cb[p] \in {"won", "kicked", "work"} \/ Cancelling(p)
             THEN Held(p) ELSE 0
PointI == \A p \in Points : BitI(p) /\ SrcI(p)

\* How far the owner is.
OwnI ==
    /\ own = "adding" => numsyncs = id - 1
    /\ own = "registering" => numsyncs = id
    /\ own = "cancel" => id <= numsyncs
    /\ own = "canary" => timer = "off"
    /\ own \in {"claim", "cancel", "put", "gone"} => timer = "over"

\* The references on the object.
Holders == {p \in Points : Holding(p)}
CountI ==
    /\ refcount = Cardinality(Holders) + (IF own = "gone" THEN 0 ELSE 1)
                  + (IF timer = "running" THEN 1 ELSE 0)
    /\ freed <=> refcount = 0

IInv == TypeOK /\ PointI /\ OwnI /\ CountI

-----------------------------------------------------------------------------
(* Points and references that a step leaves alone, and those it moves.     *)

LEMMA PointCount ==
    ASSUME NEW S \in SUBSET Points
    PROVE  /\ Cardinality(S) \in Nat /\ (Cardinality(S) = 0 <=> S = {})
           /\ \A p \in Points \ S : Cardinality(S \cup {p}) = Cardinality(S) + 1
           /\ \A p \in S : Cardinality(S \ {p}) = Cardinality(S) - 1
<1>1. IsFiniteSet(Points)
  BY FS_Interval, SyncObjAssumption DEF Points
<1>2. IsFiniteSet(S)
  BY <1>1, FS_Subset
<1>3. \A p \in Points \ S : Cardinality(S \cup {p}) = Cardinality(S) + 1
  BY <1>2, FS_AddElement
<1>4. \A p \in S : Cardinality(S \ {p}) = Cardinality(S) - 1
  BY <1>2, FS_RemoveElement
<1> QED
  BY <1>2, <1>3, <1>4, FS_CardinalityType, FS_EmptySet

\* A step does not concern p.
Same(p) ==
    /\ p \in pending' <=> p \in pending
    /\ cb'[p] = cb[p] /\ src'[p] = src[p]
    /\ p > numsyncs' => p > numsyncs
    /\ Registering(p)' <=> Registering(p)
    /\ Cancelling(p)' <=> Cancelling(p)

LEMMA SamePoint ==
    ASSUME NEW p \in Points, BitI(p), SrcI(p), Same(p)
    PROVE  BitI(p)' /\ SrcI(p)' /\ (Holding(p)' <=> Holding(p))
<1>1. BitI(p)'
  BY DEF BitI, Same
<1>2. SrcI(p)'
  BY DEF SrcI, Same, SrcRefs, Held
<1>3. Holding(p)' <=> Holding(p)
  BY DEF Holding, Same, Cancelling
<1> QED
  BY <1>1, <1>2, <1>3

LEMMA QuietPoints ==
    ASSUME PointI, \A p \in Points : Same(p)
    PROVE  PointI' /\ Holders' = Holders
<1>1. \A p \in Points : BitI(p)' /\ SrcI(p)' /\ (Holding(p)' <=> Holding(p))
  BY SamePoint DEF PointI
<1> QED
  BY <1>1 DEF PointI, Holders

LEMMA OnePoint ==
    ASSUME PointI, NEW q \in Points, \A p \in Points : p # q => Same(p), BitI(q)', SrcI(q)'
    PROVE  /\ PointI'
           /\ (Holding(q)' <=> Holding(q)) => Holders' = Holders
           /\ ~Holding(q) /\ Holding(q)' => q \notin Holders /\ Holders' = Holders \cup {q}
           /\ Holding(q) /\ ~Holding(q)' => q \in Holders /\ Holders' = Holders \ {q}
<1>1. \A p \in Points : p # q => BitI(p)' /\ SrcI(p)' /\ (Holding(p)' <=> Holding(p))
  BY SamePoint DEF PointI
<1>2. PointI'
  BY <1>1 DEF PointI
<1>3. (Holding(q)' <=> Holding(q)) => Holders' = Holders
  BY <1>1 DEF Holders
<1>4. ~Holding(q) /\ Holding(q)' => q \notin Holders /\ Holders' = Holders \cup {q}
  BY <1>1 DEF Holders
<1>5. Holding(q) /\ ~Holding(q)' => q \in Holders /\ Holders' = Holders \ {q}
  BY <1>1 DEF Holders
<1> QED
  BY <1>2, <1>3, <1>4, <1>5

LEMMA CountSame ==
    ASSUME CountI, Holders' = Holders, refcount' = refcount, freed' = freed,
           own' = "gone" <=> own = "gone", timer' = "running" <=> timer = "running"
    PROVE  CountI'
  BY DEF CountI

LEMMA CountMore ==
    ASSUME TypeOK, CountI, NEW q \in Points, q \notin Holders, Holders' = Holders \cup {q},
           refcount' = refcount + 1, freed' = freed, own # "gone", own' # "gone", timer' = timer
    PROVE  CountI' /\ refcount' \in Nat
<1>1. Holders \in SUBSET Points
  BY DEF Holders
<1>2. Cardinality(Holders') = Cardinality(Holders) + 1 /\ Cardinality(Holders) \in Nat
  BY <1>1, PointCount
<1>3. refcount \in Nat
  BY DEF TypeOK
<1> QED
  BY <1>2, <1>3 DEF CountI

\* A put by somebody who has a reference.
LEMMA PutIs ==
    ASSUME TypeOK, CountI, refcount >= 1, hgsl_drawobj_put
    PROVE  (freed' <=> refcount' = 0) /\ refcount' \in Nat /\ freed' \in BOOLEAN
<1>1. refcount \in Nat /\ freed \in BOOLEAN
  BY DEF TypeOK
<1>2. ~freed
  BY <1>1 DEF CountI
<1>3. freed' = (freed \/ refcount = 1) /\ refcount' = refcount - 1
  BY DEF hgsl_drawobj_put
<1>4. freed' <=> refcount = 1
  BY <1>2, <1>3
<1>5. freed' \in BOOLEAN
  BY <1>3
<1>6. refcount' = 0 <=> refcount = 1
  BY <1>1, <1>3
<1> QED
  BY <1>1, <1>3, <1>4, <1>5, <1>6

LEMMA CountLess ==
    ASSUME TypeOK, CountI, NEW q \in Points, q \in Holders, Holders' = Holders \ {q},
           hgsl_drawobj_put,
           own' = "gone" <=> own = "gone", timer' = "running" <=> timer = "running"
    PROVE  CountI' /\ refcount' \in Nat /\ freed' \in BOOLEAN
<1>1. Holders \in SUBSET Points
  BY DEF Holders
<1>2. Cardinality(Holders') = Cardinality(Holders) - 1 /\ Cardinality(Holders) \in Nat
  BY <1>1, PointCount
<1>3. Cardinality(Holders) # 0
  BY <1>1, PointCount
<1>4. refcount \in Nat /\ freed \in BOOLEAN
  BY DEF TypeOK
<1>5. refcount >= 1
  BY <1>2, <1>3, <1>4 DEF CountI
<1>6. /\ refcount' = Cardinality(Holders') + (IF own' = "gone" THEN 0 ELSE 1)
                     + (IF timer' = "running" THEN 1 ELSE 0)
  BY <1>2, <1>4 DEF CountI, hgsl_drawobj_put
<1>7. (freed' <=> refcount' = 0) /\ refcount' \in Nat /\ freed' \in BOOLEAN
  BY <1>5, PutIs
<1> QED
  BY <1>6, <1>7 DEF CountI

-----------------------------------------------------------------------------
(* Steps that concern no point.                                            *)

TimerT == {"off", "armed", "fired", "running", "over"}

LEMMA QuietKeeps ==
    ASSUME IInv, UNCHANGED <<refcount, freed, pending, cb, src, numsyncs, claimed>>,
           own \notin {"registering", "cancel", "gone"}, own' \in OwnPc \ {"registering", "cancel", "gone"},
           timer' \in TimerT, timer' = "running" <=> timer = "running",
           id' \in 1 .. NumSyncs + 1, kicked' \in BOOLEAN, OwnI'
    PROVE  IInv'
<1>1. TypeOK /\ PointI /\ OwnI /\ CountI
  BY DEF IInv
<1>2. \A p \in Points : Same(p)
  BY DEF Same, Registering, Cancelling
<1>3. PointI' /\ Holders' = Holders
  BY <1>1, <1>2, QuietPoints
<1>4. TypeOK'
  BY <1>1 DEF TypeOK, TimerT
<1>5. CountI'
  BY <1>1, <1>3, CountSame
<1> QED
  BY <1>3, <1>4, <1>5 DEF IInv

LEMMA QuietSteps ==
    ASSUME IInv,
           \/ AddRefused \/ (\E ok \in BOOLEAN : Queue(ok))
           \/ _retire_syncobj \/ StartCanary \/ Detach \/ DestroyTimer \/ DestroyCheck
    PROVE  IInv'
<1>1. TypeOK /\ OwnI
  BY DEF IInv
<1>2. 1 \in 1 .. NumSyncs + 1
  BY SyncObjAssumption
<1>3. ASSUME AddRefused PROVE IInv'
  <2>1. OwnI'
    BY <1>3 DEF OwnI, AddRefused
  <2> QED
    BY <1>1, <1>2, <1>3, <2>1, QuietKeeps DEF AddRefused, TypeOK, OwnPc, TimerT
<1>4. ASSUME NEW ok \in BOOLEAN, Queue(ok) PROVE IInv'
  <2>1. OwnI'
    BY <1>4 DEF OwnI, Queue
  <2> QED
    BY <1>1, <1>2, <1>4, <2>1, QuietKeeps DEF Queue, TypeOK, OwnPc, TimerT
<1>5. ASSUME _retire_syncobj PROVE IInv'
  <2>1. OwnI'
    BY <1>5 DEF OwnI, _retire_syncobj
  <2> QED
    BY <1>1, <1>5, <2>1, QuietKeeps DEF _retire_syncobj, TypeOK, OwnPc, TimerT
<1>6. ASSUME Detach PROVE IInv'
  <2>1. OwnI'
    BY <1>6 DEF OwnI, Detach
  <2> QED
    BY <1>1, <1>6, <2>1, QuietKeeps DEF Detach, TypeOK, OwnPc, TimerT
<1>7. ASSUME DestroyTimer PROVE IInv'
  <2>1. OwnI'
    BY <1>7 DEF OwnI, DestroyTimer
  <2>2. timer # "running"
    BY <1>7 DEF DestroyTimer, TimerInHandler
  <2> QED
    BY <1>1, <1>7, <2>1, <2>2, QuietKeeps DEF DestroyTimer, TypeOK, OwnPc, TimerT
<1>8. ASSUME DestroyCheck PROVE IInv'
  <2>1. OwnI'
    BY <1>1, <1>8 DEF OwnI, DestroyCheck
  <2> QED
    BY <1>1, <1>8, <2>1, QuietKeeps DEF DestroyCheck, TypeOK, OwnPc, TimerT
<1>9. ASSUME StartCanary PROVE IInv'
  <2>1. OwnI'
    BY <1>9 DEF OwnI, StartCanary
  <2>2. timer # "running"
    BY <1>1, <1>9 DEF OwnI, StartCanary
  <2> QED
    BY <1>1, <1>9, <2>1, <2>2, QuietKeeps DEF StartCanary, TypeOK, OwnPc, TimerT
<1> QED
  BY <1>3, <1>4, <1>5, <1>6, <1>7, <1>8, <1>9

LEMMA StutterKeeps ==
    ASSUME IInv, UNCHANGED vars
    PROVE  IInv'
<1>1. TypeOK /\ PointI /\ OwnI /\ CountI
  BY DEF IInv
<1>2. \A p \in Points : Same(p)
  BY DEF Same, Registering, Cancelling, vars
<1>3. PointI' /\ Holders' = Holders
  BY <1>1, <1>2, QuietPoints
<1>4. TypeOK' /\ OwnI'
  BY <1>1 DEF TypeOK, OwnI, vars
<1>5. CountI'
  BY <1>1, <1>3, CountSame DEF vars
<1> QED
  BY <1>3, <1>4, <1>5 DEF IInv

LEMMA TimerKeeps ==
    ASSUME IInv, Timer
    PROVE  IInv'
<1>1. TypeOK /\ PointI /\ OwnI /\ CountI
  BY DEF IInv
<1>2. UNCHANGED <<pending, cb, src, numsyncs, own, id, claimed, kicked>>
  BY DEF Timer, TimerFires, TimerGets, TimerDone
<1>3. \A p \in Points : Same(p)
  BY <1>2 DEF Same, Registering, Cancelling
<1>4. PointI' /\ Holders' = Holders
  BY <1>1, <1>3, QuietPoints
<1>5. OwnI'
  <2>1. timer # "over" /\ timer # "off"
    BY DEF Timer, TimerFires, TimerGets, TimerDone
  <2> QED
    BY <1>1, <1>2, <2>1 DEF OwnI
<1>6. Cardinality(Holders) \in Nat
  BY PointCount DEF Holders
<1>7. refcount \in Nat /\ freed \in BOOLEAN
  BY <1>1 DEF TypeOK
<1>8. CASE TimerFires
  <2>1. TypeOK'
    BY <1>1, <1>8 DEF TypeOK, TimerFires
  <2>2. CountI'
    BY <1>1, <1>4, <1>8, CountSame DEF TimerFires
  <2> QED
    BY <1>4, <1>5, <2>1, <2>2 DEF IInv
<1>9. CASE TimerGets /\ refcount > 0
  <2>1. refcount' = refcount + 1 /\ timer = "fired" /\ timer' = "running" /\ freed' = freed
    BY <1>9 DEF TimerGets
  <2>2. TypeOK'
    BY <1>1, <1>2, <1>7, <2>1 DEF TypeOK
  <2>3. CountI'
    BY <1>1, <1>2, <1>4, <1>6, <1>7, <1>9, <2>1 DEF CountI
  <2> QED
    BY <1>4, <1>5, <2>2, <2>3 DEF IInv
<1>10. CASE TimerGets /\ ~(refcount > 0)
  <2>1. refcount' = refcount /\ timer = "fired" /\ timer' = "over" /\ freed' = freed
    BY <1>10 DEF TimerGets
  <2>2. TypeOK'
    BY <1>1, <1>2, <2>1 DEF TypeOK
  <2>3. CountI'
    BY <1>1, <1>2, <1>4, <2>1, CountSame
  <2> QED
    BY <1>4, <1>5, <2>2, <2>3 DEF IInv
<1>11. CASE TimerDone
  <2>1. hgsl_drawobj_put /\ timer = "running" /\ timer' = "over"
    BY <1>11 DEF TimerDone
  <2>2. refcount >= 1
    BY <1>1, <1>6, <2>1 DEF CountI
  <2>3. (freed' <=> refcount' = 0) /\ refcount' \in Nat /\ freed' \in BOOLEAN
    BY <1>1, <2>1, <2>2, PutIs
  <2>4. CountI'
    BY <1>1, <1>2, <1>4, <1>6, <1>7, <2>1, <2>3 DEF CountI, hgsl_drawobj_put
  <2>5. TypeOK'
    BY <1>1, <1>2, <2>1, <2>3 DEF TypeOK
  <2> QED
    BY <1>4, <1>5, <2>4, <2>5 DEF IInv
<1> QED
  BY <1>8, <1>9, <1>10, <1>11 DEF Timer

LEMMA DestroyPutKeeps ==
    ASSUME IInv, DestroyPut
    PROVE  IInv'
<1>1. TypeOK /\ PointI /\ OwnI /\ CountI
  BY DEF IInv
<1>2. own = "put" /\ own' = "gone" /\ hgsl_drawobj_put
  BY DEF DestroyPut
<1>3. \A p \in Points : Same(p)
  BY <1>2 DEF Same, Registering, Cancelling, DestroyPut
<1>4. PointI' /\ Holders' = Holders
  BY <1>1, <1>3, QuietPoints
<1>5. OwnI'
  BY <1>1, <1>2 DEF OwnI, DestroyPut
<1>6. Cardinality(Holders) \in Nat /\ refcount \in Nat
  BY <1>1, PointCount DEF Holders, TypeOK
<1>7. refcount >= 1
  BY <1>1, <1>2, <1>6 DEF CountI
<1>8. (freed' <=> refcount' = 0) /\ refcount' \in Nat /\ freed' \in BOOLEAN
  BY <1>1, <1>2, <1>7, PutIs
<1>9. CountI'
  <2>1. timer' = timer /\ timer # "running"
    BY <1>1, <1>2 DEF OwnI, DestroyPut
  <2> QED
    BY <1>1, <1>2, <1>4, <1>6, <1>8, <2>1 DEF CountI, hgsl_drawobj_put
<1>10. TypeOK'
  BY <1>1, <1>2, <1>8 DEF TypeOK, OwnPc, DestroyPut
<1> QED
  BY <1>4, <1>5, <1>9, <1>10 DEF IInv

-----------------------------------------------------------------------------
(* The submitter.                                                          *)

LEMMA SrcRange == \A p \in Points : SrcRefs(p) \in 0 .. 2 /\ Held(p) \in 0 .. 1
  BY DEF SrcRefs, Held

LEMMA AddBeginKeeps ==
    ASSUME IInv, AddBegin
    PROVE  IInv'
<1>1. TypeOK /\ PointI /\ OwnI /\ CountI
  BY DEF IInv
<1>2. /\ own = "adding" /\ own' = "registering" /\ numsyncs = id - 1 /\ numsyncs' = id
      /\ id \in Points /\ id' = id /\ cb' = cb /\ timer' = timer
      /\ pending' = pending \cup {id} /\ src' = [src EXCEPT ![id] = SrcRefs(id)]
  BY <1>1, SyncObjAssumption DEF AddBegin, OwnI, TypeOK, Points
<1>3. PICK q \in Points : q = id
  BY <1>2
<1>4. BitI(q) /\ SrcI(q) /\ q > numsyncs /\ numsyncs \in Int /\ numsyncs' \in 0 .. NumSyncs
  BY <1>1, <1>2, <1>3, SyncObjAssumption DEF PointI, TypeOK, Points
<1>5. q \notin pending /\ cb[q] = "none"
  BY <1>4 DEF BitI
<1>6. \A p \in Points : p # q => Same(p)
  <2>1. \A p \in Points : p \in Int
    BY DEF Points
  <2>2. src \in [Points -> 0 .. 2]
    BY <1>1 DEF TypeOK
  <2> QED
    BY <1>2, <1>3, <1>4, <2>1, <2>2 DEF Same, Registering, Cancelling
<1>7. BitI(q)'
  <2>1. ~(q > numsyncs')
    BY <1>2, <1>3, <1>4
  <2> QED
    BY <1>2, <1>3, <1>5, <2>1 DEF BitI, Registering, Cancelling
<1>8. src'[q] = SrcRefs(q) /\ src' \in [Points -> 0 .. 2]
  BY <1>1, <1>2, <1>3, SrcRange DEF TypeOK
<1>9. SrcI(q)'
  BY <1>2, <1>3, <1>8 DEF SrcI, Registering, SrcRefs
<1>10. ~Holding(q) /\ Holding(q)'
  BY <1>2, <1>3, <1>5 DEF Holding
<1>11. PointI' /\ q \notin Holders /\ Holders' = Holders \cup {q}
  BY <1>1, <1>6, <1>7, <1>9, <1>10, OnePoint
<1>12. CountI' /\ refcount' \in Nat
  BY <1>1, <1>2, <1>11, CountMore DEF AddBegin
<1>13. OwnI'
  BY <1>2 DEF OwnI
<1>14. TypeOK'
  BY <1>1, <1>2, <1>4, <1>8, <1>12 DEF TypeOK, OwnPc, AddBegin
<1> QED
  BY <1>11, <1>12, <1>13, <1>14 DEF IInv

LEMMA AddRegisteredKeeps ==
    ASSUME IInv, AddRegistered
    PROVE  IInv'
<1>1. TypeOK /\ PointI /\ OwnI /\ CountI
  BY DEF IInv
<1>2. /\ own = "registering" /\ own' = "adding" /\ numsyncs = id /\ numsyncs' = numsyncs
      /\ id \in Points /\ id' = id + 1 /\ cb' = [cb EXCEPT ![id] = "armed"] /\ timer' = timer
      /\ pending' = pending
      /\ src' = [src EXCEPT ![id] = IF PointType[id] = "timeline" THEN 1 ELSE src[id]]
  BY <1>1, SyncObjAssumption DEF AddRegistered, OwnI, TypeOK, Points
<1>3. PICK q \in Points : q = id
  BY <1>2
<1>4. q \in pending /\ cb[q] = "none" /\ src[q] = SrcRefs(q)
  BY <1>1, <1>2, <1>3 DEF PointI, BitI, SrcI, Registering
<1>5. \A p \in Points : p # q => Same(p)
  BY <1>1, <1>2, <1>3 DEF Same, Registering, Cancelling, TypeOK
<1>6. cb'[q] = "armed" /\ cb' \in [Points -> CbState]
  BY <1>1, <1>2, <1>3 DEF TypeOK, CbState
<1>7. BitI(q)'
  <2>1. ~(q > numsyncs')
    BY <1>2, <1>3, SyncObjAssumption DEF Points
  <2> QED
    BY <1>2, <1>4, <1>6, <2>1 DEF BitI, Registering, Cancelling
<1>8. src'[q] = Held(q)
  <2>1. src'[q] = IF PointType[q] = "timeline" THEN 1 ELSE src[q]
    BY <1>1, <1>2, <1>3 DEF TypeOK
  <2>2. PointType[q] \in Types
    BY SyncObjAssumption
  <2> QED
    BY <1>4, <2>1, <2>2 DEF Held, SrcRefs, Types
<1>9. SrcI(q)' /\ src' \in [Points -> 0 .. 2]
  <2>1. SrcI(q)'
    BY <1>2, <1>4, <1>8 DEF SrcI, Registering, Held
  <2>2. src' \in [Points -> 0 .. 2]
    BY <1>1, <1>2 DEF TypeOK
  <2> QED
    BY <2>1, <2>2
<1>10. Holding(q)' <=> Holding(q)
  BY <1>2, <1>4 DEF Holding
<1>11. PointI' /\ Holders' = Holders
  BY <1>1, <1>5, <1>7, <1>9, <1>10, OnePoint
<1>12. CountI'
  BY <1>1, <1>2, <1>11, CountSame DEF AddRegistered
<1>13. OwnI' /\ id' \in 1 .. NumSyncs + 1
  BY <1>2, SyncObjAssumption DEF OwnI, Points
<1>14. TypeOK'
  BY <1>1, <1>2, <1>6, <1>9, <1>13 DEF TypeOK, OwnPc, AddRegistered
<1> QED
  BY <1>11, <1>12, <1>13, <1>14 DEF IInv

LEMMA AddUnregisteredKeeps ==
    ASSUME IInv, NEW error \in BOOLEAN, AddUnregistered(error)
    PROVE  IInv'
<1>1. TypeOK /\ PointI /\ OwnI /\ CountI
  BY DEF IInv
<1>2. /\ own = "registering" /\ numsyncs = id /\ numsyncs' = numsyncs
      /\ (own' = "destroy" /\ id' = 1) \/ (own' = "adding" /\ id' = id + 1)
      /\ id \in Points /\ cb' = cb /\ timer' = timer /\ hgsl_drawobj_put
      /\ pending' = pending \ {id} /\ src' = [src EXCEPT ![id] = 0]
  BY <1>1, SyncObjAssumption DEF AddUnregistered, OwnI, TypeOK, Points
<1>3. PICK q \in Points : q = id
  BY <1>2
<1>4. q \in pending /\ cb[q] = "none"
  BY <1>1, <1>2, <1>3 DEF PointI, BitI, Registering
<1>5. \A p \in Points : p # q => Same(p)
  BY <1>1, <1>2, <1>3 DEF Same, Registering, Cancelling, TypeOK
<1>6. BitI(q)'
  BY <1>2, <1>3, <1>4 DEF BitI, Registering, Cancelling
<1>7. src'[q] = 0 /\ src' \in [Points -> 0 .. 2]
  BY <1>1, <1>2, <1>3 DEF TypeOK
<1>8. SrcI(q)'
  BY <1>2, <1>3, <1>4, <1>7 DEF SrcI, Registering, Cancelling
<1>9. Holding(q) /\ ~Holding(q)'
  BY <1>2, <1>3, <1>4 DEF Holding
<1>10. PointI' /\ q \in Holders /\ Holders' = Holders \ {q}
  BY <1>1, <1>5, <1>6, <1>8, <1>9, OnePoint
<1>11. CountI' /\ refcount' \in Nat /\ freed' \in BOOLEAN
  BY <1>1, <1>2, <1>10, CountLess
<1>12. OwnI' /\ id' \in 1 .. NumSyncs + 1
  BY <1>2, SyncObjAssumption DEF OwnI, Points
<1>13. TypeOK'
  BY <1>1, <1>2, <1>7, <1>11, <1>12 DEF TypeOK, OwnPc, AddUnregistered
<1> QED
  BY <1>10, <1>11, <1>12, <1>13 DEF IInv

-----------------------------------------------------------------------------
(* Callbacks.                                                              *)

\* A stage of a callback that keeps the references it has,
LEMMA CbKeeps ==
    ASSUME IInv, NEW q \in Points, NEW x \in CbState, cb' = [cb EXCEPT ![q] = x],
           UNCHANGED <<refcount, freed, src, numsyncs, own, id, claimed>>,
           pending' \in {pending, pending \ {q}}, kicked' \in BOOLEAN,
           timer' = timer \/ (timer = "armed" /\ timer' = "over"),
           BitI(q)', SrcI(q)', Holding(q)' <=> Holding(q)
    PROVE  IInv'
<1>1. TypeOK /\ PointI /\ OwnI /\ CountI
  BY DEF IInv
<1>2. \A p \in Points : p # q => Same(p)
  BY <1>1 DEF Same, Registering, Cancelling, TypeOK
<1>3. PointI' /\ Holders' = Holders
  BY <1>1, <1>2, OnePoint
<1>4. CountI'
  BY <1>1, <1>3, CountSame
<1>5. OwnI' /\ TypeOK'
  BY <1>1 DEF OwnI, TypeOK
<1> QED
  BY <1>3, <1>4, <1>5 DEF IInv

\* and the end of one, which gives up what it has.
LEMMA CbPuts ==
    ASSUME IInv, NEW q \in Points, cb' = [cb EXCEPT ![q] = "done"],
           hgsl_drawobj_put, UNCHANGED <<pending, numsyncs, timer, own, id, claimed, kicked>>,
           src' \in [Points -> 0 .. 2], \A p \in Points : p # q => src'[p] = src[p],
           BitI(q)', SrcI(q)', Holding(q), ~Holding(q)'
    PROVE  IInv'
<1>1. TypeOK /\ PointI /\ OwnI /\ CountI
  BY DEF IInv
<1>2. \A p \in Points : p # q => Same(p)
  BY <1>1 DEF Same, Registering, Cancelling, TypeOK
<1>3. PointI' /\ q \in Holders /\ Holders' = Holders \ {q}
  BY <1>1, <1>2, OnePoint
<1>4. CountI' /\ refcount' \in Nat /\ freed' \in BOOLEAN
  BY <1>1, <1>3, CountLess
<1>5. OwnI' /\ TypeOK'
  BY <1>1, <1>4 DEF OwnI, TypeOK, CbState
<1> QED
  BY <1>3, <1>4, <1>5 DEF IInv

LEMMA FireKeeps ==
    ASSUME IInv, NEW p \in Points, Fire(p)
    PROVE  IInv'
<1>1. TypeOK /\ BitI(p) /\ SrcI(p)
  BY DEF IInv, PointI
<1>2. cb[p] = "armed" /\ cb'[p] = "fired" /\ cb' = [cb EXCEPT ![p] = "fired"]
  BY <1>1 DEF Fire, TypeOK
<1>3. UNCHANGED <<refcount, freed, pending, src, numsyncs, timer, own, id, claimed, kicked>>
  BY DEF Fire
<1>4. BitI(p)'
  BY <1>1, <1>2, <1>3 DEF BitI, Registering, Cancelling
<1>5. SrcI(p)'
  BY <1>1, <1>2, <1>3 DEF SrcI, Registering, Cancelling, SrcRefs, Held
<1>6. Holding(p)' <=> Holding(p)
  BY <1>2, <1>3 DEF Holding
<1>7. kicked' \in BOOLEAN /\ "fired" \in CbState
  BY <1>1, <1>3 DEF TypeOK, CbState
<1> QED
  BY <1>2, <1>3, <1>4, <1>5, <1>6, <1>7, CbKeeps

LEMMA SyncExpireKeeps ==
    ASSUME IInv, NEW p \in Points, SyncExpire(p)
    PROVE  IInv'
<1>1. TypeOK /\ BitI(p) /\ SrcI(p)
  BY DEF IInv, PointI
<1>2. PICK x \in {"won", "lost"} : x = IF p \in pending THEN "won" ELSE "lost"
  OBVIOUS
<1>3. /\ cb[p] = "fired" /\ cb'[p] = x /\ cb' = [cb EXCEPT ![p] = x]
      /\ p \notin pending' /\ pending' = pending \ {p}
  BY <1>1, <1>2 DEF SyncExpire, TypeOK
<1>4. UNCHANGED <<refcount, freed, src, numsyncs, timer, own, id, claimed, kicked>>
  BY DEF SyncExpire
<1>5. ~Registering(p)
  BY <1>1, <1>3 DEF BitI
<1>6. BitI(p)'
  BY <1>1, <1>2, <1>3, <1>4, <1>5 DEF BitI, Registering, Cancelling
<1>7. SrcI(p)'
  BY <1>1, <1>2, <1>3, <1>4, <1>5 DEF SrcI, Registering, Cancelling, SrcRefs, Held
<1>8. Holding(p)' <=> Holding(p)
  BY <1>2, <1>3, <1>4 DEF Holding
<1>9. kicked' \in BOOLEAN /\ x \in CbState
  BY <1>1, <1>4 DEF TypeOK, CbState
<1> QED
  BY <1>3, <1>4, <1>6, <1>7, <1>8, <1>9, CbKeeps

LEMMA SyncExpireLastKeeps ==
    ASSUME IInv, NEW p \in Points, SyncExpireLast(p)
    PROVE  IInv'
<1>1. TypeOK /\ BitI(p) /\ SrcI(p)
  BY DEF IInv, PointI
<1>2. cb[p] = "won" /\ cb'[p] = "kicked" /\ cb' = [cb EXCEPT ![p] = "kicked"]
  BY <1>1 DEF SyncExpireLast, TypeOK
<1>3. UNCHANGED <<refcount, freed, pending, src, numsyncs, own, id, claimed>>
  BY DEF SyncExpireLast
<1>4. ~Registering(p) /\ ~Cancelling(p) /\ p \notin pending
  BY <1>1, <1>2 DEF BitI
<1>5. BitI(p)'
  BY <1>1, <1>2, <1>3, <1>4 DEF BitI, Registering, Cancelling
<1>6. SrcI(p)'
  BY <1>1, <1>2, <1>3, <1>4 DEF SrcI, Registering, Cancelling, SrcRefs, Held
<1>7. Holding(p)' <=> Holding(p)
  BY <1>2, <1>3 DEF Holding
<1>8. kicked' \in BOOLEAN /\ "kicked" \in CbState
  BY <1>1 DEF TypeOK, CbState, SyncExpireLast
<1>9. timer' = timer \/ (timer = "armed" /\ timer' = "over")
  BY DEF SyncExpireLast
<1> QED
  BY <1>2, <1>3, <1>5, <1>6, <1>7, <1>8, <1>9, CbKeeps

\* A callback that has decided who owns the point.
LEMMA Decided ==
    ASSUME IInv, NEW p \in Points, cb[p] \in {"kicked", "lost", "work"}
    PROVE  /\ ~Registering(p) /\ p \notin pending
           /\ cb[p] # "lost" => ~Cancelling(p) /\ src[p] = Held(p)
           /\ cb[p] = "lost" /\ PointType[p] # "timestamp" => Cancelling(p)
           /\ cb[p] = "lost" => src[p] = IF Cancelling(p) THEN Held(p) ELSE 0
           /\ cb[p] = "work" => PointType[p] = "timeline"
           /\ src \in [Points -> 0 .. 2]
<1>1. TypeOK /\ BitI(p) /\ SrcI(p)
  BY DEF IInv, PointI
<1>2. ~Registering(p) /\ p \notin pending
  BY <1>1 DEF BitI
<1> QED
  BY <1>1, <1>2 DEF BitI, SrcI, TypeOK

LEMMA TimestampSignaledKeeps ==
    ASSUME IInv, NEW p \in Points, _timestamp_signaled(p)
    PROVE  IInv'
<1>1. TypeOK /\ BitI(p) /\ SrcI(p)
  BY DEF IInv, PointI
<1>2. PointType[p] = "timestamp" /\ cb[p] \in {"kicked", "lost"} /\ hgsl_drawobj_put
  BY DEF _timestamp_signaled
<1>3. UNCHANGED <<pending, numsyncs, timer, own, id, claimed, kicked>>
  BY DEF _timestamp_signaled
<1>4. cb'[p] = "done" /\ cb' = [cb EXCEPT ![p] = "done"]
  BY <1>1 DEF _timestamp_signaled, TypeOK
<1>5. /\ ~Registering(p) /\ p \notin pending
      /\ cb[p] # "lost" => ~Cancelling(p) /\ src[p] = Held(p)
      /\ cb[p] = "lost" => src[p] = IF Cancelling(p) THEN Held(p) ELSE 0
      /\ src \in [Points -> 0 .. 2]
  BY <1>2, Decided
<1>6. PICK v : v = IF cb[p] = "kicked" THEN src[p] - 1 ELSE src[p]
  OBVIOUS
<1>7. src' = [src EXCEPT ![p] = v]
  BY <1>5, <1>6 DEF _timestamp_signaled
<1>8. v = (IF Cancelling(p) THEN Held(p) ELSE 0) /\ v \in 0 .. 2
  BY <1>2, <1>5, <1>6 DEF Held
<1>9. src' \in [Points -> 0 .. 2] /\ src'[p] = v /\ \A q \in Points : q # p => src'[q] = src[q]
  BY <1>5, <1>7, <1>8
<1>10. BitI(p)'
  BY <1>1, <1>2, <1>3, <1>4, <1>5 DEF BitI, Registering, Cancelling
<1>11. SrcI(p)'
  BY <1>3, <1>4, <1>5, <1>8, <1>9 DEF SrcI, Registering, Cancelling, Held
<1>12. Holding(p) /\ ~Holding(p)'
  BY <1>2, <1>3, <1>4, <1>5 DEF Holding
<1> QED
  BY <1>2, <1>3, <1>4, <1>9, <1>10, <1>11, <1>12, CbPuts

LEMMA FenceFuncKeeps ==
    ASSUME IInv, NEW p \in Points, drawobj_sync_fence_func(p)
    PROVE  IInv'
<1>1. TypeOK /\ BitI(p) /\ SrcI(p)
  BY DEF IInv, PointI
<1>2. PointType[p] = "fence" /\ cb[p] \in {"kicked", "lost"}
  BY DEF drawobj_sync_fence_func
<1>3. UNCHANGED <<pending, src, numsyncs, timer, own, id, claimed, kicked>>
  BY DEF drawobj_sync_fence_func
<1>4. cb'[p] = "done" /\ cb' = [cb EXCEPT ![p] = "done"] /\ "done" \in CbState
  BY <1>1 DEF drawobj_sync_fence_func, TypeOK, CbState
<1>5. /\ ~Registering(p) /\ p \notin pending
      /\ cb[p] # "lost" => ~Cancelling(p)
      /\ cb[p] = "lost" => Cancelling(p)
      /\ src \in [Points -> 0 .. 2] /\ src[p] = 0
  BY <1>2, Decided DEF Held
<1>6. BitI(p)'
  BY <1>1, <1>2, <1>3, <1>4, <1>5 DEF BitI, Registering, Cancelling
<1>7. SrcI(p)'
  BY <1>2, <1>3, <1>4, <1>5 DEF SrcI, Registering, Cancelling, Held
<1>8. CASE cb[p] = "kicked"
  <2>1. hgsl_drawobj_put
    BY <1>8 DEF drawobj_sync_fence_func
  <2>2. Holding(p) /\ ~Holding(p)'
    BY <1>2, <1>3, <1>4, <1>5, <1>8 DEF Holding, Cancelling
  <2> QED
    BY <1>3, <1>4, <1>5, <1>6, <1>7, <2>1, <2>2, CbPuts
<1>9. CASE cb[p] = "lost"
  <2>1. UNCHANGED <<refcount, freed>>
    BY <1>9 DEF drawobj_sync_fence_func
  <2>2. Holding(p) <=> Holding(p)'
    BY <1>2, <1>3, <1>4, <1>5, <1>9 DEF Holding, Cancelling
  <2>3. kicked' \in BOOLEAN
    BY <1>1, <1>3 DEF TypeOK
  <2> QED
    BY <1>3, <1>4, <1>6, <1>7, <2>1, <2>2, <2>3, CbKeeps
<1> QED
  BY <1>2, <1>8, <1>9

LEMMA TimelineCallbackKeeps ==
    ASSUME IInv, NEW p \in Points, drawobj_sync_timeline_fence_callback(p)
    PROVE  IInv'
<1>1. TypeOK /\ BitI(p) /\ SrcI(p)
  BY DEF IInv, PointI
<1>2. PointType[p] = "timeline" /\ cb[p] \in {"kicked", "lost"}
  BY DEF drawobj_sync_timeline_fence_callback
<1>3. UNCHANGED <<refcount, freed, pending, src, numsyncs, timer, own, id, claimed, kicked>>
  BY DEF drawobj_sync_timeline_fence_callback
<1>4. PICK x \in {"work", "done"} : x = IF cb[p] = "kicked" THEN "work" ELSE "done"
  OBVIOUS
<1>5. cb'[p] = x /\ cb' = [cb EXCEPT ![p] = x] /\ x \in CbState /\ kicked' \in BOOLEAN
  BY <1>1, <1>3, <1>4 DEF drawobj_sync_timeline_fence_callback, TypeOK, CbState
<1>6. /\ ~Registering(p) /\ p \notin pending
      /\ cb[p] # "lost" => ~Cancelling(p)
      /\ cb[p] = "lost" => Cancelling(p)
      /\ src[p] = Held(p)
  BY <1>2, Decided
<1>7. BitI(p)'
  BY <1>1, <1>2, <1>3, <1>4, <1>5, <1>6 DEF BitI, Registering, Cancelling
<1>8. SrcI(p)'
  BY <1>2, <1>3, <1>4, <1>5, <1>6 DEF SrcI, Registering, Cancelling, Held
<1>9. Holding(p)' <=> Holding(p)
  BY <1>2, <1>3, <1>4, <1>5, <1>6 DEF Holding, Cancelling
<1> QED
  BY <1>3, <1>5, <1>7, <1>8, <1>9, CbKeeps

LEMMA TimelineWorkKeeps ==
    ASSUME IInv, NEW p \in Points, drawobj_sync_timeline_fence_work(p)
    PROVE  IInv'
<1>1. TypeOK /\ BitI(p) /\ SrcI(p)
  BY DEF IInv, PointI
<1>2. cb[p] = "work" /\ hgsl_drawobj_put
  BY DEF drawobj_sync_timeline_fence_work
<1>3. UNCHANGED <<pending, numsyncs, timer, own, id, claimed, kicked>>
  BY DEF drawobj_sync_timeline_fence_work
<1>4. cb'[p] = "done" /\ cb' = [cb EXCEPT ![p] = "done"]
  BY <1>1 DEF drawobj_sync_timeline_fence_work, TypeOK
<1>5. /\ ~Registering(p) /\ p \notin pending /\ ~Cancelling(p) /\ src[p] = 1
      /\ PointType[p] = "timeline" /\ src \in [Points -> 0 .. 2]
  BY <1>2, Decided DEF Held
<1>6. src' \in [Points -> 0 .. 2] /\ src'[p] = 0 /\ \A q \in Points : q # p => src'[q] = src[q]
  BY <1>5 DEF drawobj_sync_timeline_fence_work
<1>7. BitI(p)'
  BY <1>1, <1>2, <1>3, <1>4, <1>5 DEF BitI, Registering, Cancelling
<1>8. SrcI(p)'
  BY <1>3, <1>4, <1>5, <1>6 DEF SrcI, Registering, Cancelling
<1>9. Holding(p) /\ ~Holding(p)'
  BY <1>2, <1>3, <1>4, <1>5 DEF Holding, Cancelling
<1> QED
  BY <1>2, <1>3, <1>4, <1>6, <1>7, <1>8, <1>9, CbPuts

-----------------------------------------------------------------------------
(* The destroyer.                                                          *)

LEMMA DestroyClaimKeeps ==
    ASSUME IInv, DestroyClaim
    PROVE  IInv'
<1>1. TypeOK /\ PointI /\ OwnI /\ CountI
  BY DEF IInv
<1>2. /\ own = "claim" /\ timer = "over" /\ timer' = timer /\ id \in Points /\ id <= numsyncs
      /\ numsyncs \in 0 .. NumSyncs
      /\ UNCHANGED <<refcount, freed, cb, src, numsyncs, kicked>> /\ pending' = pending \ {id}
  BY <1>1, SyncObjAssumption DEF DestroyClaim, OwnI, TypeOK, Points
<1>3. PICK q \in Points : q = id
  BY <1>2
<1>4. CASE q \notin pending
  <2>1. pending' = pending /\ id' = id + 1 /\ UNCHANGED <<own, claimed>>
    BY <1>2, <1>3, <1>4 DEF DestroyClaim
  <2>2. OwnI'
    BY <1>2, <2>1 DEF OwnI
  <2>3. id' \in 1 .. NumSyncs + 1
    BY <1>2, <2>1, SyncObjAssumption DEF Points
  <2> QED
    BY <1>1, <1>2, <2>1, <2>2, <2>3, QuietKeeps DEF TypeOK, OwnPc, TimerT
<1>5. CASE q \in pending
  <2>1. own' = "cancel" /\ claimed' = claimed \cup {id} /\ id' = id
    BY <1>3, <1>5 DEF DestroyClaim
  <2>2. BitI(q) /\ SrcI(q) /\ ~Registering(q) /\ ~Cancelling(q)
    BY <1>1, <1>2 DEF PointI, Registering, Cancelling
  <2>3. cb[q] \in {"armed", "fired"} /\ src[q] = Held(q)
    BY <1>5, <2>2 DEF BitI, SrcI
  <2>4. Cancelling(q)' /\ ~Registering(q)'
    BY <1>3, <2>1 DEF Cancelling, Registering
  <2>5. \A p \in Points : p # q => Same(p)
    BY <1>2, <1>3, <2>1 DEF Same, Registering, Cancelling
  <2>6. BitI(q)'
    <3>1. ~(q > numsyncs')
      BY <1>2, <1>3, SyncObjAssumption DEF Points
    <3> QED
      BY <1>2, <1>3, <2>3, <2>4, <3>1 DEF BitI
  <2>7. SrcI(q)'
    BY <1>2, <2>3, <2>4 DEF SrcI, Held
  <2>8. Holding(q) <=> Holding(q)'
    BY <1>2, <1>3, <1>5, <2>1, <2>3 DEF Holding
  <2>9. PointI' /\ Holders' = Holders
    BY <1>1, <2>5, <2>6, <2>7, <2>8, OnePoint
  <2>10. CountI'
    BY <1>1, <1>2, <2>1, <2>9, CountSame
  <2>11. OwnI'
    BY <1>2, <2>1 DEF OwnI
  <2>12. TypeOK'
    BY <1>1, <1>2, <2>1 DEF TypeOK, OwnPc
  <2> QED
    BY <2>9, <2>10, <2>11, <2>12 DEF IInv
<1> QED
  BY <1>4, <1>5

\* The point the destroyer is at.
LEMMA AtPoint ==
    ASSUME IInv, own = "cancel", NextPoint
    PROVE  /\ id \in Points /\ Cancelling(id) /\ ~Registering(id) /\ id \notin pending
           /\ cb[id] \in {"armed", "fired", "lost", "done"} /\ src[id] = Held(id)
           /\ cb \in [Points -> CbState] /\ src \in [Points -> 0 .. 2]
           /\ own' = "claim" /\ id' = id + 1 /\ id' \in 1 .. NumSyncs + 1 /\ timer = "over"
           /\ ~(id > numsyncs)
<1>1. TypeOK /\ PointI /\ OwnI
  BY DEF IInv
<1>2. id \in Points /\ id' = id + 1 /\ id' \in 1 .. NumSyncs + 1 /\ ~(id > numsyncs)
  BY <1>1, SyncObjAssumption DEF OwnI, TypeOK, Points, NextPoint
<1>3. BitI(id) /\ SrcI(id) /\ Cancelling(id) /\ ~Registering(id)
  BY <1>1, <1>2 DEF PointI, Cancelling, Registering
<1>4. id \notin pending /\ cb[id] \in {"armed", "fired", "lost", "done"} /\ src[id] = Held(id)
  BY <1>3 DEF BitI, SrcI
<1> QED
  BY <1>1, <1>2, <1>3, <1>4 DEF TypeOK, OwnI, NextPoint

LEMMA CancelTimestampKeeps ==
    ASSUME IInv, CancelTimestamp
    PROVE  IInv'
<1>1. TypeOK /\ PointI /\ OwnI /\ CountI
  BY DEF IInv
<1>2. /\ own = "cancel" /\ PointType[id] = "timestamp" /\ NextPoint
      /\ UNCHANGED <<refcount, freed, pending, numsyncs, timer, kicked, claimed>>
  BY DEF CancelTimestamp, NextPoint
<1>3. PICK q \in Points : q = id
  BY <1>2, AtPoint
<1>4. /\ q \notin pending /\ cb[q] \in {"armed", "fired", "lost", "done"} /\ src[q] = 1
      /\ cb \in [Points -> CbState] /\ src \in [Points -> 0 .. 2]
      /\ own' = "claim" /\ id' = id + 1 /\ id' \in 1 .. NumSyncs + 1 /\ timer = "over"
      /\ ~(q > numsyncs)
  BY <1>2, <1>3, AtPoint DEF Held
<1>5. PICK x \in {"fired", "lost", "done"} : x = IF cb[q] = "armed" THEN "fired" ELSE cb[q]
  BY <1>4
<1>6. cb' = [cb EXCEPT ![q] = x] /\ src' = [src EXCEPT ![q] = 0]
  BY <1>3, <1>4, <1>5 DEF CancelTimestamp
<1>7. cb'[q] = x /\ src'[q] = 0 /\ cb' \in [Points -> CbState] /\ src' \in [Points -> 0 .. 2]
  BY <1>4, <1>6 DEF CbState
<1>8. \A p \in Points : p # q => Same(p)
  <2>1. \A p \in Points : p # q => cb'[p] = cb[p] /\ src'[p] = src[p]
    BY <1>4, <1>6
  <2> QED
    BY <1>2, <1>3, <1>4, <2>1 DEF Same, Registering, Cancelling
<1>9. ~Cancelling(q)' /\ ~Registering(q)'
  BY <1>4 DEF Cancelling, Registering
<1>10. BitI(q)'
  BY <1>2, <1>3, <1>4, <1>7, <1>9 DEF BitI
<1>11. SrcI(q)'
  BY <1>2, <1>4, <1>7, <1>9 DEF SrcI
<1>12. Holding(q)' <=> Holding(q)
  BY <1>2, <1>3, <1>4, <1>5, <1>7 DEF Holding
<1>13. PointI' /\ Holders' = Holders
  BY <1>1, <1>8, <1>10, <1>11, <1>12, OnePoint
<1>14. CountI'
  BY <1>1, <1>2, <1>4, <1>13, CountSame
<1>15. OwnI' /\ TypeOK'
  BY <1>1, <1>2, <1>4, <1>7 DEF OwnI, TypeOK, OwnPc
<1> QED
  BY <1>13, <1>14, <1>15 DEF IInv

LEMMA CancelFenceKeeps ==
    ASSUME IInv, CancelFence
    PROVE  IInv'
<1>1. TypeOK /\ PointI /\ OwnI /\ CountI
  BY DEF IInv
<1>2. /\ own = "cancel" /\ PointType[id] # "timestamp" /\ NextPoint /\ ~Running(id)
      /\ UNCHANGED <<pending, numsyncs, timer, kicked, claimed>> /\ hgsl_drawobj_put
  BY DEF CancelFence, NextPoint
<1>3. PICK q \in Points : q = id
  BY <1>2, AtPoint
<1>4. /\ q \notin pending /\ cb[q] \in {"armed", "done"} /\ src[q] = Held(q)
      /\ cb \in [Points -> CbState] /\ src \in [Points -> 0 .. 2]
      /\ own' = "claim" /\ id' = id + 1 /\ id' \in 1 .. NumSyncs + 1 /\ timer = "over"
      /\ ~(q > numsyncs)
  BY <1>2, <1>3, AtPoint DEF Running
<1>5. cb' = [cb EXCEPT ![q] = "done"] /\ src' = [src EXCEPT ![q] = 0]
  <2>1. PointType[q] \in Types
    BY SyncObjAssumption
  <2>2. cb' = [cb EXCEPT ![q] = IF cb[q] = "armed" THEN "done" ELSE cb[q]]
    BY <1>3 DEF CancelFence
  <2>3. src' = [src EXCEPT ![q] = IF PointType[q] = "timeline" THEN src[q] - 1 ELSE src[q]]
    BY <1>3 DEF CancelFence
  <2>4. (IF PointType[q] = "timeline" THEN src[q] - 1 ELSE src[q]) = 0
    BY <1>2, <1>3, <1>4, <2>1 DEF Held, Types
  <2>5. (IF cb[q] = "armed" THEN "done" ELSE cb[q]) = "done"
    BY <1>4
  <2> QED
    BY <2>2, <2>3, <2>4, <2>5
<1>6. cb'[q] = "done" /\ src'[q] = 0 /\ cb' \in [Points -> CbState] /\ src' \in [Points -> 0 .. 2]
  BY <1>4, <1>5 DEF CbState
<1>7. \A p \in Points : p # q => Same(p)
  <2>1. \A p \in Points : p # q => cb'[p] = cb[p] /\ src'[p] = src[p]
    BY <1>4, <1>5
  <2> QED
    BY <1>2, <1>3, <1>4, <2>1 DEF Same, Registering, Cancelling
<1>8. ~Cancelling(q)' /\ ~Registering(q)'
  BY <1>4 DEF Cancelling, Registering
<1>9. BitI(q)'
  BY <1>2, <1>4, <1>6, <1>8 DEF BitI
<1>10. SrcI(q)'
  BY <1>2, <1>4, <1>6, <1>8 DEF SrcI
<1>11. Holding(q) /\ ~Holding(q)'
  BY <1>2, <1>3, <1>4, <1>6 DEF Holding
<1>12. PointI' /\ q \in Holders /\ Holders' = Holders \ {q}
  BY <1>1, <1>7, <1>9, <1>10, <1>11, OnePoint
<1>13. CountI' /\ refcount' \in Nat /\ freed' \in BOOLEAN
  BY <1>1, <1>2, <1>4, <1>12, CountLess
<1>14. OwnI' /\ TypeOK'
  BY <1>1, <1>2, <1>4, <1>6, <1>13 DEF OwnI, TypeOK, OwnPc
<1> QED
  BY <1>12, <1>13, <1>14 DEF IInv

-----------------------------------------------------------------------------
(* The invariant, and the theorems.                                        *)

LEMMA InitIInv ==
    ASSUME Init
    PROVE  IInv
<1>1. TypeOK
  <2>1. cb \in [Points -> CbState] /\ src \in [Points -> 0 .. 2]
    BY DEF Init, CbState
  <2>2. numsyncs \in 0 .. NumSyncs /\ id \in 1 .. NumSyncs + 1
    BY SyncObjAssumption DEF Init
  <2> QED
    BY <2>1, <2>2 DEF Init, TypeOK, OwnPc
<1>2. PointI
  <2> SUFFICES ASSUME NEW p \in Points PROVE BitI(p) /\ SrcI(p)
    BY DEF PointI
  <2> QED
    BY DEF Init, BitI, SrcI, Registering, Cancelling
<1>3. OwnI
  BY DEF Init, OwnI
<1>4. Holders = {}
  BY DEF Init, Holders, Holding
<1>5. CountI
  BY <1>4, FS_EmptySet DEF Init, CountI
<1> QED
  BY <1>1, <1>2, <1>3, <1>5 DEF IInv

LEMMA NextIInv ==
    ASSUME IInv, [Next]_vars
    PROVE  IInv'
<1>1. ASSUME Submitter PROVE IInv'
  BY <1>1, AddBeginKeeps, AddRegisteredKeeps, AddUnregisteredKeeps, QuietSteps DEF Submitter
<1>2. ASSUME NEW p \in Points, Fire(p) \/ Callback(p) PROVE IInv'
  BY <1>2, FireKeeps, SyncExpireKeeps, SyncExpireLastKeeps, TimestampSignaledKeeps,
     FenceFuncKeeps, TimelineCallbackKeeps, TimelineWorkKeeps DEF Callback
<1>3. ASSUME Dispatcher PROVE IInv'
  BY <1>3, QuietSteps DEF Dispatcher
<1>4. ASSUME Destroyer PROVE IInv'
  BY <1>4, QuietSteps, DestroyClaimKeeps, CancelTimestampKeeps, CancelFenceKeeps, DestroyPutKeeps
     DEF Destroyer
<1> QED
  BY <1>1, <1>2, <1>3, <1>4, TimerKeeps, StutterKeeps DEF Next

LEMMA Inductive == Spec => []IInv
<1>1. Init => IInv
  BY InitIInv
<1>2. IInv /\ [Next]_vars => IInv'
  BY NextIInv
<1> QED
  BY <1>1, <1>2, PTL DEF Spec

(***************************************************************************)
(* The references on a sync object and of its points on their sources are  *)
(* exact, and a freed object is not touched again by a callback, a work or *)
(* the canary timer, for any number of points of any types and whoever     *)
(* wins the race for a pending bit (drawobj_sync_expire, syncobj_destroy). *)
(***************************************************************************)
THEOREM SyncObjSafe == Spec => []NoUseAfterFree
<1>1. IInv => NoUseAfterFree
  <2> SUFFICES ASSUME IInv PROVE NoUseAfterFree
    OBVIOUS
  <2>1. TypeOK /\ PointI /\ OwnI /\ CountI
    BY DEF IInv
  <2>2. ASSUME freed
        PROVE  /\ own = "gone" /\ timer = "over"
               /\ \A p \in Points : cb[p] \in {"none", "done"} /\ src[p] = 0
    <3>1. Holders \in SUBSET Points
      BY DEF Holders
    <3>2. Cardinality(Holders) \in Nat /\ (Cardinality(Holders) = 0 <=> Holders = {})
      BY <3>1, PointCount
    <3>3. own = "gone" /\ Cardinality(Holders) = 0
      BY <2>1, <2>2, <3>2 DEF CountI
    <3>4. \A p \in Points : ~Holding(p)
      BY <3>2, <3>3 DEF Holders
    <3>5. ASSUME NEW p \in Points PROVE cb[p] \in {"none", "done"} /\ src[p] = 0
      <4>1. BitI(p) /\ SrcI(p) /\ ~Registering(p) /\ ~Cancelling(p) /\ cb[p] \in CbState
        BY <2>1, <3>3 DEF PointI, Registering, Cancelling, TypeOK
      <4>2. p \notin pending /\ cb[p] \notin {"won", "kicked", "work"}
        BY <3>4 DEF Holding
      <4>3. cb[p] \notin {"armed", "fired", "lost"}
        BY <3>4, <4>1, <4>2 DEF Holding, BitI
      <4> QED
        BY <4>1, <4>2, <4>3 DEF SrcI, CbState
    <3> QED
      BY <2>1, <3>3, <3>5 DEF OwnI
  <2>3. \A p \in pending : src[p] = SrcRefs(p) \/ (PointType[p] = "timeline" /\ src[p] = 1)
    <3>1. \A p \in pending : p \in Points /\ SrcI(p) /\ PointType[p] \in Types
      BY <2>1, SyncObjAssumption DEF PointI, TypeOK
    <3> QED
      BY <3>1 DEF SrcI, Held, SrcRefs, Types
  <2>4. own = "cancel" /\ PointType[id] # "fence" => src[id] = 1
    <3>1. SUFFICES ASSUME own = "cancel", PointType[id] # "fence" PROVE src[id] = 1
      OBVIOUS
    <3>2. id \in Points
      BY <2>1, <3>1, SyncObjAssumption DEF OwnI, TypeOK, Points
    <3>3. SrcI(id) /\ Cancelling(id) /\ ~Registering(id)
      BY <2>1, <3>1, <3>2 DEF PointI, Cancelling, Registering
    <3> QED
      BY <3>1, <3>3 DEF SrcI, Held
  <2>5. RefcountExact
    BY <2>1, <2>2, <2>3, <2>4 DEF RefcountExact, CountI, Holders
  <2> QED
    BY <2>1, <2>2, <2>5 DEF NoUseAfterFree
<1> QED
  BY <1>1, Inductive, PTL

(***************************************************************************)
(* The expiry of the last sync point is not lost: test_and_clear_bit of    *)
(* the point and the look at the whole bitmap are two steps, and           *)
(* callbacks of other points and the dispatcher run between them.          *)
(***************************************************************************)
THEOREM SyncObjKicks == Spec => []LastExpiryKicks
<1>1. Init => LastExpiryKicks
  BY DEF Init, LastExpiryKicks
<1>2. IInv /\ LastExpiryKicks /\ [Next]_vars => LastExpiryKicks'
  <2> SUFFICES ASSUME IInv, LastExpiryKicks, [Next]_vars,
                      own' \in {"queued", "canary"}, pending' = {}, ~kicked'
               PROVE  \E p \in Points : cb'[p] = "won"
    BY DEF LastExpiryKicks
  <2>1. cb \in [Points -> CbState] /\ pending \subseteq Points /\ kicked \in BOOLEAN
    BY DEF IInv, TypeOK
  <2>2. ASSUME NEW p \in Points, SyncExpire(p) PROVE \E q \in Points : cb'[q] = "won"
    <3>1. own' = own /\ kicked' = kicked /\ pending' = pending \ {p} /\ cb[p] = "fired"
      BY <2>2 DEF SyncExpire
    <3>2. CASE p \in pending
      BY <2>1, <2>2, <3>2 DEF SyncExpire
    <3>3. CASE p \notin pending
      <4>1. PICK q \in Points : cb[q] = "won"
        BY <3>1, <3>3 DEF LastExpiryKicks
      <4>2. cb'[q] = "won"
        BY <2>1, <2>2, <3>1, <4>1 DEF SyncExpire
      <4> QED
        BY <4>2
    <3> QED
      BY <3>2, <3>3
  <2>3. ASSUME NEW p \in Points, SyncExpireLast(p) PROVE FALSE
    BY <2>3 DEF SyncExpireLast
  <2>4. ASSUME NEW p \in Points, NEW x, cb[p] # "won", cb' = [cb EXCEPT ![p] = x],
               UNCHANGED <<own, pending, kicked>>
        PROVE  \E q \in Points : cb'[q] = "won"
    <3>1. PICK q \in Points : cb[q] = "won"
      BY <2>4 DEF LastExpiryKicks
    <3>2. cb'[q] = "won"
      BY <2>1, <2>4, <3>1
    <3> QED
      BY <3>2
  <2>5. ASSUME NEW p \in Points,
               \/ Fire(p) \/ _timestamp_signaled(p) \/ drawobj_sync_fence_func(p)
               \/ drawobj_sync_timeline_fence_callback(p) \/ drawobj_sync_timeline_fence_work(p)
        PROVE  \E q \in Points : cb'[q] = "won"
    <3>1. PICK x : cb' = [cb EXCEPT ![p] = x]
      BY <2>5 DEF Fire, _timestamp_signaled, drawobj_sync_fence_func,
         drawobj_sync_timeline_fence_callback, drawobj_sync_timeline_fence_work
    <3>2. cb[p] # "won" /\ UNCHANGED <<own, pending, kicked>>
      BY <2>5 DEF Fire, _timestamp_signaled, drawobj_sync_fence_func,
         drawobj_sync_timeline_fence_callback, drawobj_sync_timeline_fence_work
    <3> QED
      BY <2>4, <3>1, <3>2
  <2>6. ASSUME UNCHANGED <<own, pending, kicked, cb>> PROVE \E q \in Points : cb'[q] = "won"
    BY <2>6 DEF LastExpiryKicks
  <2>7. ASSUME Timer \/ UNCHANGED vars PROVE \E q \in Points : cb'[q] = "won"
    BY <2>6, <2>7 DEF Timer, TimerFires, TimerGets, TimerDone, vars
  <2>8. ASSUME Submitter PROVE FALSE
    BY <2>8 DEF Submitter, AddBegin, AddRefused, AddRegistered, AddUnregistered, Queue
  <2>9. ASSUME Dispatcher PROVE \E q \in Points : cb'[q] = "won"
    <3>1. ~_retire_syncobj /\ ~Detach
      BY DEF _retire_syncobj, Detach
    <3>2. StartCanary
      BY <2>9, <3>1 DEF Dispatcher
    <3> QED
      BY <3>2 DEF StartCanary, LastExpiryKicks
  <2>10. ~Destroyer
    BY DEF Destroyer, DestroyTimer, DestroyClaim, CancelTimestamp, CancelFence, DestroyCheck,
       DestroyPut, NextPoint
  <2> QED
    BY <2>2, <2>3, <2>5, <2>7, <2>8, <2>9, <2>10 DEF Next, Callback
<1> QED
  BY <1>1, <1>2, Inductive, PTL DEF Spec

=============================================================================
