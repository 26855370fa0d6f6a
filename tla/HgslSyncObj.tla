----------------------------- MODULE HgslSyncObj -----------------------------
(***************************************************************************)
(* One sync object and its sync points (hgsl_drawobj.c): created and       *)
(* filled by the submitting ioctl, waited for by the dispatcher, expired   *)
(* by asynchronous callbacks, and destroyed while those may be running.    *)
(*                                                                         *)
(* A sync point is of one of three types: a timestamp of a context, whose  *)
(* callback _timestamp_signaled runs on the events worker; the fence of a  *)
(* file descriptor (drawobj_sync_fence_func); or points of timelines       *)
(* (drawobj_sync_timeline_fence_callback).  The last two run under the     *)
(* lock of the dma_fence.  The pending bit of a point decides which side,  *)
(* callback or destroyer, gives up what the point holds.                   *)
(***************************************************************************)
EXTENDS Integers, FiniteSets

CONSTANTS
    NumSyncs,     \* sync points of the submission
    PointType     \* their types

Types == {"timestamp", "fence", "timeline"}
Points == 1 .. NumSyncs

ASSUME SyncObjAssumption ==
    NumSyncs \in Nat \ {0} /\ PointType \in [Points -> Types]

VARIABLES
    refcount,     \* drawobj->refcount
    freed,        \* hgsl_drawobj_destroy_object has run
    pending,      \* syncobj->pending
    cb,           \* where the callback of each point is
    src,          \* references of each point on its context or fence
    numsyncs,     \* syncobj->numsyncs
    timer,        \* the canary timer
    own,          \* the owner: submitter, then the dispatcher, then the destroyer
    id,           \* the point the owner is at
    claimed,      \* the points whose bit the destroyer cleared
    kicked        \* hgsl_dispatch_queue_context has asked for a dispatch

vars == <<refcount, freed, pending, cb, src, numsyncs, timer, own, id,
          claimed, kicked>>

(***************************************************************************)
(* A callback is "none" before it is registered, "armed" when it is, and   *)
(* then "fired" (running), "won" or "lost" (it did or did not clear the    *)
(* pending bit), "kicked" (after the check for the last point), "work"     *)
(* (drawobj_sync_timeline_fence_work is queued) and "done".                *)
(***************************************************************************)
CbState == {"none", "armed", "fired", "won", "kicked", "lost", "work", "done"}
Running(p) == cb[p] \in {"fired", "won", "kicked", "lost"}
TimerInHandler == timer \in {"fired", "running"}
OwnPc == {"adding", "registering", "queued", "canary", "destroy", "claim",
          "cancel", "put", "gone"}

Init ==
    /\ refcount = 1
    /\ freed = FALSE
    /\ pending = {}
    /\ cb = [p \in Points |-> "none"]
    /\ src = [p \in Points |-> 0]
    /\ numsyncs = 0
    /\ timer = "off"
    /\ own = "adding"
    /\ id = 1
    /\ claimed = {}
    /\ kicked = FALSE

\* hgsl_drawobj_put: the last put frees the object.
hgsl_drawobj_put ==
    /\ refcount' = refcount - 1
    /\ freed' = (freed \/ refcount = 1)

-----------------------------------------------------------------------------
(* hgsl_drawobj_sync_add_synclist: add the points one by one.              *)

\* What a point holds on its source while its bit is set: a context for a
\* timestamp; for a timeline the fence's first reference and the callback's.
\* (A "fence" point holds its fence until the object is freed.)
SrcRefs(p) == CASE PointType[p] = "timestamp" -> 1
                [] PointType[p] = "timeline" -> 2
                [] OTHER -> 0

\* Before the callback is registered: reference, slot, pending bit.
AddBegin ==
    /\ own = "adding" /\ id <= NumSyncs
    /\ refcount' = refcount + 1
    /\ numsyncs' = numsyncs + 1
    /\ pending' = pending \cup {id}
    /\ src' = [src EXCEPT ![id] = SrcRefs(id)]
    /\ own' = "registering"
    /\ UNCHANGED <<freed, cb, timer, id, claimed, kicked>>

\* A point that cannot be had (bad arguments, no context, a future timestamp
\* of the own context) ends the submission before anything was taken.
AddRefused ==
    /\ own = "adding" /\ id <= NumSyncs
    /\ own' = "destroy" /\ id' = 1
    /\ UNCHANGED <<refcount, freed, pending, cb, src, numsyncs, timer, claimed, kicked>>

\* The source accepts the callback: hgsl_add_event, dma_fence_add_callback.
\* The submitter puts the reference of the fence's creation.
AddRegistered ==
    /\ own = "registering"
    /\ cb' = [cb EXCEPT ![id] = "armed"]
    /\ src' = [src EXCEPT ![id] = IF PointType[id] = "timeline" THEN 1 ELSE @]
    /\ own' = "adding" /\ id' = id + 1
    /\ UNCHANGED <<refcount, freed, pending, numsyncs, timer, claimed, kicked>>

\* The source refuses it: the fence has signalled, which is no error, or the
\* registration failed, which ends the submission.
AddUnregistered(error) ==
    /\ own = "registering"
    /\ PointType[id] = "timestamp" => error
    /\ PointType[id] = "timeline" => ~error
    /\ pending' = pending \ {id}
    /\ src' = [src EXCEPT ![id] = 0]
    /\ hgsl_drawobj_put
    /\ IF error THEN own' = "destroy" /\ id' = 1
                ELSE own' = "adding" /\ id' = id + 1
    /\ UNCHANGED <<cb, numsyncs, timer, claimed, kicked>>

\* hgsl_dispatch_queue_cmds puts the object into the ring and kicks the
\* dispatcher, or fails and the submitter destroys the object.
Queue(ok) ==
    /\ own = "adding" /\ id = NumSyncs + 1
    /\ own' = IF ok THEN "queued" ELSE "destroy"
    /\ kicked' = (kicked \/ ok)
    /\ id' = 1
    /\ UNCHANGED <<refcount, freed, pending, cb, src, numsyncs, timer, claimed>>

-----------------------------------------------------------------------------
(* Callbacks.                                                              *)

\* The source fires: the timestamp retired or its event was cancelled, the
\* fence signalled.
Fire(p) ==
    /\ cb[p] = "armed"
    /\ cb' = [cb EXCEPT ![p] = "fired"]
    /\ UNCHANGED <<refcount, freed, pending, src, numsyncs, timer, own, id, claimed,
                   kicked>>

\* drawobj_sync_expire, test_and_clear_bit.
SyncExpire(p) ==
    /\ cb[p] = "fired"
    /\ pending' = pending \ {p}
    /\ cb' = [cb EXCEPT ![p] = IF p \in pending THEN "won" ELSE "lost"]
    /\ UNCHANGED <<refcount, freed, src, numsyncs, timer, own, id, claimed, kicked>>

\* Mutant: the callback looks for other points that have signalled instead of
\* for pending ones, and kicks with the first.
Mut_kick_not_last(p) ==
    /\ cb[p] = "won"
    /\ kicked' = (kicked \/ pending # {})
    /\ timer' = IF pending # {} /\ timer = "armed" THEN "over" ELSE timer
    /\ cb' = [cb EXCEPT ![p] = "kicked"]
    /\ UNCHANGED <<refcount, freed, pending, src, numsyncs, own, id, claimed>>

\* Its end: with no point pending the timer is deleted and the context kicked.
SyncExpireLast(p) ==
    /\ cb[p] = "won"
    /\ kicked' = (kicked \/ pending = {})
    /\ timer' = IF pending = {} /\ timer = "armed" THEN "over" ELSE timer
    /\ cb' = [cb EXCEPT ![p] = "kicked"]
    /\ UNCHANGED <<refcount, freed, pending, src, numsyncs, own, id, claimed>>

\* The end of _timestamp_signaled: the context is put by the one that cleared
\* the bit, the object in any case.
_timestamp_signaled(p) ==
    /\ PointType[p] = "timestamp"
    /\ cb[p] \in {"kicked", "lost"}
    /\ src' = [src EXCEPT ![p] = IF cb[p] = "kicked" THEN @ - 1 ELSE @]
    /\ hgsl_drawobj_put
    /\ cb' = [cb EXCEPT ![p] = "done"]
    /\ UNCHANGED <<pending, numsyncs, timer, own, id, claimed, kicked>>

\* The end of drawobj_sync_fence_func.
drawobj_sync_fence_func(p) ==
    /\ PointType[p] = "fence"
    /\ cb[p] \in {"kicked", "lost"}
    /\ IF cb[p] = "kicked" THEN hgsl_drawobj_put ELSE UNCHANGED <<refcount, freed>>
    /\ cb' = [cb EXCEPT ![p] = "done"]
    /\ UNCHANGED <<pending, src, numsyncs, timer, own, id, claimed, kicked>>

\* The end of drawobj_sync_timeline_fence_callback, and the work it queues.
drawobj_sync_timeline_fence_callback(p) ==
    /\ PointType[p] = "timeline"
    /\ cb[p] \in {"kicked", "lost"}
    /\ cb' = [cb EXCEPT ![p] = IF cb[p] = "kicked" THEN "work" ELSE "done"]
    /\ UNCHANGED <<refcount, freed, pending, src, numsyncs, timer, own, id, claimed,
                   kicked>>

\* Mutant: the work puts the fence only.
Mut_work_keeps_object(p) ==
    /\ cb[p] = "work"
    /\ src' = [src EXCEPT ![p] = @ - 1]
    /\ cb' = [cb EXCEPT ![p] = "done"]
    /\ UNCHANGED <<refcount, freed, pending, numsyncs, timer, own, id, claimed, kicked>>

drawobj_sync_timeline_fence_work(p) ==
    /\ cb[p] = "work"
    /\ src' = [src EXCEPT ![p] = @ - 1]
    /\ hgsl_drawobj_put
    /\ cb' = [cb EXCEPT ![p] = "done"]
    /\ UNCHANGED <<pending, numsyncs, timer, own, id, claimed, kicked>>

-----------------------------------------------------------------------------
(* The object in the ring.                                                 *)

\* The dispatcher, kicked or running for another object, looks at this one:
\* nothing pending, and it is taken out of the ring to be destroyed; or the
\* canary timer is started, the first time.
_retire_syncobj ==
    /\ own = "queued"
    /\ kicked' = FALSE
    /\ own' = IF pending = {} THEN "destroy"
              ELSE IF timer = "off" THEN "canary" ELSE "queued"
    /\ UNCHANGED <<refcount, freed, pending, cb, src, numsyncs, timer, id, claimed>>

\* mod_timer; the last point may have expired since the check.
StartCanary ==
    /\ own = "canary"
    /\ timer' = "armed"
    /\ own' = "queued"
    /\ UNCHANGED <<refcount, freed, pending, cb, src, numsyncs, id, claimed, kicked>>

\* The canary timer expires: syncobj_timer starts, takes a reference, unless
\* the last one is gone, walks the points and puts its reference.
TimerFires ==
    /\ timer = "armed"
    /\ timer' = "fired"
    /\ UNCHANGED <<refcount, freed, pending, cb, src, numsyncs, own, id, claimed, kicked>>

TimerGets ==
    /\ timer = "fired"
    /\ IF refcount > 0 THEN refcount' = refcount + 1 /\ timer' = "running"
                       ELSE timer' = "over" /\ UNCHANGED refcount
    /\ UNCHANGED <<freed, pending, cb, src, numsyncs, own, id, claimed, kicked>>

TimerDone ==
    /\ timer = "running"
    /\ hgsl_drawobj_put
    /\ timer' = "over"
    /\ UNCHANGED <<pending, cb, src, numsyncs, own, id, claimed, kicked>>

\* hgsl_ctxt_detach_drawobjs takes the object out, whatever is pending.
Detach ==
    /\ own = "queued"
    /\ own' = "destroy"
    /\ UNCHANGED <<refcount, freed, pending, cb, src, numsyncs, timer, id, claimed,
                   kicked>>

-----------------------------------------------------------------------------
(* hgsl_drawobj_destroy, syncobj_destroy.                                  *)

\* Mutant: del_timer instead of del_timer_sync.
Mut_del_timer ==
    /\ own = "destroy"
    /\ timer' = IF TimerInHandler THEN timer ELSE "over"
    /\ own' = "claim"
    /\ UNCHANGED <<refcount, freed, pending, cb, src, numsyncs, id, claimed, kicked>>

\* del_timer_sync waits for a timer that is running.
DestroyTimer ==
    /\ own = "destroy"
    /\ ~TimerInHandler
    /\ timer' = "over"
    /\ own' = "claim"
    /\ UNCHANGED <<refcount, freed, pending, cb, src, numsyncs, id, claimed, kicked>>

\* test_and_clear_bit of the next point.
DestroyClaim ==
    /\ own = "claim" /\ id <= numsyncs
    /\ pending' = pending \ {id}
    /\ IF id \in pending
          THEN own' = "cancel" /\ claimed' = claimed \cup {id} /\ UNCHANGED id
          ELSE id' = id + 1 /\ UNCHANGED <<own, claimed>>
    /\ UNCHANGED <<refcount, freed, cb, src, numsyncs, timer, kicked>>

NextPoint == own' = "claim" /\ id' = id + 1 /\ UNCHANGED claimed

\* A claimed timestamp: cancel the event, if it still is in its group, so that
\* its callback runs; put the context.
CancelTimestamp ==
    /\ own = "cancel" /\ PointType[id] = "timestamp"
    /\ cb' = [cb EXCEPT ![id] = IF @ = "armed" THEN "fired" ELSE @]
    /\ src' = [src EXCEPT ![id] = @ - 1]
    /\ NextPoint
    /\ UNCHANGED <<refcount, freed, pending, numsyncs, timer, kicked>>

\* A claimed fence: dma_fence_remove_callback waits for the lock under which
\* the callback runs; the object is put here, the callback does not.
CancelFence ==
    /\ own = "cancel" /\ PointType[id] # "timestamp"
    /\ ~Running(id)
    /\ cb' = [cb EXCEPT ![id] = IF @ = "armed" THEN "done" ELSE @]
    /\ src' = [src EXCEPT ![id] = IF PointType[id] = "timeline" THEN @ - 1 ELSE @]
    /\ hgsl_drawobj_put
    /\ NextPoint
    /\ UNCHANGED <<pending, numsyncs, timer, kicked>>

\* The bitmap is looked at once more, to kick the context if it is not empty.
DestroyCheck ==
    /\ own = "claim" /\ id > numsyncs
    /\ kicked' = (kicked \/ pending # {})
    /\ own' = "put"
    /\ UNCHANGED <<refcount, freed, pending, cb, src, numsyncs, timer, id, claimed>>

DestroyPut ==
    /\ own = "put"
    /\ hgsl_drawobj_put
    /\ own' = "gone"
    /\ UNCHANGED <<pending, cb, src, numsyncs, timer, id, claimed, kicked>>

-----------------------------------------------------------------------------
Submitter ==
    \/ AddBegin
    \/ AddRefused
    \/ AddRegistered
    \/ \E error \in BOOLEAN : AddUnregistered(error)
    \/ \E ok \in BOOLEAN : Queue(ok)

Callback(p) ==
    \/ SyncExpire(p)
    \/ SyncExpireLast(p)
    \/ _timestamp_signaled(p)
    \/ drawobj_sync_fence_func(p)
    \/ drawobj_sync_timeline_fence_callback(p)
    \/ drawobj_sync_timeline_fence_work(p)

Dispatcher == _retire_syncobj \/ StartCanary \/ Detach

Timer == TimerFires \/ TimerGets \/ TimerDone

Destroyer ==
    \/ DestroyTimer
    \/ DestroyClaim
    \/ CancelTimestamp
    \/ CancelFence
    \/ DestroyCheck
    \/ DestroyPut

Next ==
    \/ Submitter
    \/ \E p \in Points : Fire(p) \/ Callback(p)
    \/ Dispatcher
    \/ Timer
    \/ Destroyer

Spec == Init /\ [][Next]_vars

(***************************************************************************)
(* Fairness: callbacks, works, the timer handler and the threads inside    *)
(* the ioctl or the destroyer run on; the dispatcher, once kicked, looks   *)
(* at the object.  No source has to fire.                                  *)
(***************************************************************************)
Fairness ==
    /\ WF_vars(Submitter)
    /\ \A p \in Points : WF_vars(Callback(p))
    /\ WF_vars(TimerGets \/ TimerDone)
    /\ WF_vars(Destroyer)
    /\ WF_vars(kicked /\ _retire_syncobj)
    /\ WF_vars(StartCanary)

FairSpec == Spec /\ Fairness

-----------------------------------------------------------------------------
\* Types; no point holds its source less than zero or more than two times.
TypeOK ==
    /\ refcount \in Nat
    /\ freed \in BOOLEAN
    /\ pending \subseteq Points
    /\ cb \in [Points -> CbState]
    /\ src \in [Points -> 0 .. 2]
    /\ numsyncs \in 0 .. NumSyncs
    /\ timer \in {"off", "armed", "fired", "running", "over"}
    /\ own \in OwnPc
    /\ id \in 1 .. NumSyncs + 1
    /\ claimed \subseteq Points
    /\ kicked \in BOOLEAN

\* Points whose callback, or whose destroyer in its stead, has yet to put the
\* object: the callback of a timestamp always does, of the others the one that
\* cleared the pending bit.
Holding(p) ==
    \/ p \in pending
    \/ cb[p] \in {"won", "kicked", "work"}
    \/ IF PointType[p] = "timestamp" THEN cb[p] \in {"armed", "fired", "lost"}
                                     ELSE own = "cancel" /\ p = id

\* Those on the object, and those of a point on its context or fence, which are
\* put exactly once, not before the destroyer is done with the source, and are
\* gone with the object.
RefcountExact ==
    /\ refcount = Cardinality({p \in Points : Holding(p)})
                  + (IF own = "gone" THEN 0 ELSE 1)
                  + (IF timer = "running" THEN 1 ELSE 0)
    /\ freed => \A p \in Points : src[p] = 0
    /\ \A p \in pending : src[p] = SrcRefs(p) \/ (PointType[p] = "timeline" /\ src[p] = 1)
    /\ own = "cancel" /\ PointType[id] # "fence" => src[id] = 1

(***************************************************************************)
(* References are exact, whichever side of the race between a callback and *)
(* the destroyer clears the pending bit, and nothing touches the object    *)
(* after it is freed: no callback is running or can still be called, no    *)
(* work is queued, the timer is not armed and its handler not running      *)
(* ("this will render any subsequent async callbacks harmless",            *)
(* syncobj_destroy).                                                       *)
(***************************************************************************)
NoUseAfterFree ==
    /\ TypeOK
    /\ RefcountExact
    /\ freed => /\ own = "gone"
                /\ timer = "over"
                /\ \A p \in Points : cb[p] \in {"none", "done"}

(***************************************************************************)
(* The dispatcher hears of the last expiry: while an object none of whose  *)
(* points is pending sits in the ring, a dispatch has been asked for, or   *)
(* the callback that cleared the last bit is about to ask for it.          *)
(***************************************************************************)
LastExpiryKicks ==
    own \in {"queued", "canary"} /\ pending = {} =>
        kicked \/ \E p \in Points : cb[p] = "won"

(***************************************************************************)
(* A destroyed object is freed: events, works and callbacks that were      *)
(* still to come give up their references.                                 *)
(***************************************************************************)
DestroyedIsFreed == (own = "destroy") ~> freed

=============================================================================
