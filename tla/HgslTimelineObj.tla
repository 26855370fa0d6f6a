--------------------------- MODULE HgslTimelineObj ---------------------------
(***************************************************************************)
(* A timeline object (hgsl_drawobj.c): an auxiliary command that signals   *)
(* points of software timelines when it leaves the draw queue and the      *)
(* commands before it have retired.  sig_refcount joins the two; whichever *)
(* comes last forwards the timelines.  Another thread queues commands to   *)
(* the same context meanwhile.                                             *)
(*                                                                         *)
(* Commands are counted: command n has timestamp n.  The timelines of the  *)
(* object are treated alike, by one loop, and stand for one.               *)
(***************************************************************************)
EXTENDS Integers

CONSTANTS
    MaxCmds,          \* commands of the other thread
    UserGeneratedTs   \* GSL_CONTEXT_FLAG_USER_GENERATED_TS

ASSUME TimelineObjAssumption == MaxCmds \in Nat /\ UserGeneratedTs \in BOOLEAN

VARIABLES
    queued,      \* last queued command of the context
    sent,        \* last command that left the ring
    retired,     \* last retired command
    detached,    \* hgsl_ctxt_detach_drawobjs has run
    pc,          \* the owner: the ioctl, then the ring, then the destroyer
    eventTs,     \* the timestamp of the event, read before queueing
    at,          \* last command ahead of the object in the ring
    event,       \* the event _timeline_signaled
    refcount,    \* drawobj->refcount
    sig,         \* timelineobj->sig_refcount
    count,       \* timelineobj->count
    timelines,   \* timelineobj->timelines
    tlRef,       \* references on the timeline, each with one on the context
    forwarded    \* hgsl_isync_forward was called

owner == <<pc, eventTs, at>>
gpu == <<queued, sent, retired, detached>>
obj == <<refcount, sig, count, timelines, tlRef, forwarded>>
vars == <<gpu, owner, event, obj>>

OwnerPc == {"create", "get", "event", "ready", "queued", "destroy", "put", "gone",
            "fault"}
EventPc == {"none", "armed", "fired", "signalled", "done", "fault"}

Init ==
    /\ queued = 0 /\ sent = 0 /\ retired = 0 /\ detached = FALSE
    /\ pc = "create"
    /\ eventTs = 0 /\ at = 0
    /\ event = "none"
    /\ refcount = 1 /\ sig = 1
    /\ count = 0 /\ timelines = "null" /\ tlRef = 0
    /\ forwarded = FALSE

-----------------------------------------------------------------------------
(* The context: another submitter, the dispatcher and the GPU.             *)

QueueCmd ==
    /\ queued < MaxCmds /\ ~detached
    /\ queued' = queued + 1
    /\ UNCHANGED <<sent, retired, detached, owner, event, obj>>

\* Commands behind the object wait for it to leave the ring.
SendCmd ==
    /\ sent < queued /\ ~detached
    /\ pc = "queued" => sent < at
    /\ sent' = sent + 1
    /\ UNCHANGED <<queued, retired, detached, owner, event, obj>>

GpuRetire ==
    /\ retired < sent
    /\ retired' = retired + 1
    /\ UNCHANGED <<queued, sent, detached, owner, event, obj>>

\* The context is destroyed: its events are cancelled and its ring is emptied.
Detach ==
    /\ ~detached
    /\ detached' = TRUE
    /\ pc' = IF pc = "queued" THEN "destroy" ELSE pc
    /\ UNCHANGED <<queued, sent, retired, eventTs, at, event, obj>>

-----------------------------------------------------------------------------
(* hgsl_drawobj_add_timeline.                                              *)

\* The last queued timestamp is read and the array allocated; or the command
\* is malformed or there is no memory.
ReadQueued(ok) ==
    /\ pc = "create"
    /\ eventTs' = queued
    /\ timelines' = IF ok THEN "array" ELSE "null"
    /\ pc' = IF ok THEN "get" ELSE "destroy"
    /\ UNCHANGED <<gpu, at, event, refcount, sig, count, tlRef, forwarded>>

\* The timelines are got, then the references for the event.
GetTimelines ==
    /\ pc = "get"
    /\ tlRef' = tlRef + 1
    /\ count' = 1
    /\ refcount' = refcount + 1
    /\ sig' = sig + 1
    /\ pc' = "event"
    /\ UNCHANGED <<gpu, eventTs, at, event, timelines, forwarded>>

\* A timeline or the context is gone: what was taken is put, the array freed.
GetTimelinesFails ==
    /\ pc = "get"
    /\ timelines' = "null"
    /\ pc' = "destroy"
    /\ UNCHANGED <<gpu, eventTs, at, event, refcount, sig, count, tlRef, forwarded>>

\* What hgsl_add_event requires of the timestamp.
EventAccepted == UserGeneratedTs \/ eventTs < queued

AddEvent ==
    /\ pc = "event"
    /\ EventAccepted
    /\ event' = "armed"
    /\ pc' = "ready"
    /\ UNCHANGED <<gpu, eventTs, at, obj>>

\* event_err: the references for the event and the timelines are put and the
\* array is freed.  The count stays.
AddEventFails ==
    /\ pc = "event"
    /\ sig' = sig - 1
    /\ refcount' = refcount - 1
    /\ tlRef' = tlRef - 1
    /\ timelines' = "null"
    /\ pc' = "destroy"
    /\ UNCHANGED <<gpu, eventTs, at, event, count, forwarded>>

\* _queue_timelineobj; or the context is in destroy, or queueing, or the
\* creation of the marker behind the object, fails.
Queue(ok) ==
    /\ pc = "ready"
    /\ ok => ~detached
    /\ at' = IF ok THEN queued ELSE 0
    /\ pc' = IF ok THEN "queued" ELSE "destroy"
    /\ UNCHANGED <<gpu, eventTs, event, obj>>

\* The dispatcher pops the object behind the commands ahead of it.
Pop ==
    /\ pc = "queued"
    /\ sent >= at
    /\ pc' = "destroy"
    /\ UNCHANGED <<gpu, eventTs, at, event, obj>>

-----------------------------------------------------------------------------
(* Signalling.                                                             *)

\* The last put of sig_refcount walks count entries of an array that is not
\* there: a NULL pointer is followed, and the walk gets no further.
Faults == sig = 1 /\ count > 0 /\ timelines = "null"

\* _drawobj_timelineobj_retire: each timeline is forwarded and put, and the
\* array freed.
_drawobj_timelineobj_retire ==
    /\ forwarded' = (forwarded \/ count > 0)
    /\ tlRef' = tlRef - count
    /\ timelines' = "null"
    /\ count' = 0

\* Mutant: every put of sig_refcount signals.
Mut_signal_each_put ==
    /\ sig' = sig - 1
    /\ IF ~Faults THEN _drawobj_timelineobj_retire
                  ELSE UNCHANGED <<forwarded, tlRef, timelines, count>>

\* The last put retires the object.
hgsl_timelineobj_signal ==
    /\ sig' = sig - 1
    /\ IF sig = 1 /\ ~Faults THEN _drawobj_timelineobj_retire
                              ELSE UNCHANGED <<forwarded, tlRef, timelines, count>>

\* The event fires when its timestamp has retired, or is cancelled when the
\* context is destroyed; the callback does not look at which.
EventFires(cancelled) ==
    /\ event = "armed"
    /\ IF cancelled THEN detached ELSE retired >= eventTs
    /\ event' = "fired"
    /\ UNCHANGED <<gpu, owner, obj>>

_timeline_signaled ==
    /\ event = "fired"
    /\ hgsl_timelineobj_signal
    /\ event' = IF Faults THEN "fault" ELSE "signalled"
    /\ UNCHANGED <<gpu, owner, refcount>>

\* Mutant: the event's reference on the object is not put.
Mut_event_keeps_object ==
    /\ event = "signalled"
    /\ event' = "done"
    /\ UNCHANGED <<gpu, owner, obj>>

EventPut ==
    /\ event = "signalled"
    /\ refcount' = refcount - 1
    /\ event' = "done"
    /\ UNCHANGED <<gpu, owner, sig, count, timelines, tlRef, forwarded>>

timelineobj_destroy ==
    /\ pc = "destroy"
    /\ hgsl_timelineobj_signal
    /\ pc' = IF Faults THEN "fault" ELSE "put"
    /\ UNCHANGED <<gpu, eventTs, at, event, refcount>>

DestroyPut ==
    /\ pc = "put"
    /\ refcount' = refcount - 1
    /\ pc' = "gone"
    /\ UNCHANGED <<gpu, eventTs, at, event, sig, count, timelines, tlRef, forwarded>>

-----------------------------------------------------------------------------
Owner ==
    \/ \E ok \in BOOLEAN : ReadQueued(ok)
    \/ GetTimelines
    \/ GetTimelinesFails
    \/ AddEvent
    \/ AddEventFails
    \/ \E ok \in BOOLEAN : Queue(ok)
    \/ Pop
    \/ timelineobj_destroy
    \/ DestroyPut

Event ==
    \/ \E cancelled \in BOOLEAN : EventFires(cancelled)
    \/ _timeline_signaled
    \/ EventPut

Next == QueueCmd \/ SendCmd \/ GpuRetire \/ Detach \/ Owner \/ Event

Spec == Init /\ [][Next]_vars

(***************************************************************************)
(* Fairness: the ioctl, the dispatcher and the events worker go on, and    *)
(* the GPU executes what was sent.                                         *)
(***************************************************************************)
FairSpec ==
    /\ Spec
    /\ WF_vars(Owner)
    /\ WF_vars(SendCmd)
    /\ WF_vars(GpuRetire)
    /\ WF_vars(Event)

-----------------------------------------------------------------------------
\* Types; references of the object and its timelines stay in range.
TypeOK ==
    /\ queued \in 0 .. MaxCmds /\ sent \in 0 .. queued /\ retired \in 0 .. sent
    /\ pc \in OwnerPc
    /\ eventTs \in 0 .. queued /\ at \in 0 .. queued
    /\ event \in EventPc
    /\ refcount \in 0 .. 2 /\ sig \in 0 .. 2
    /\ count \in 0 .. 1 /\ tlRef \in 0 .. 1
    /\ timelines \in {"null", "array"}
    /\ forwarded \in BOOLEAN /\ detached \in BOOLEAN

(***************************************************************************)
(* The last one to come forwards, and the last one to go frees.  The       *)
(* timelines are not forwarded before the object left the queue and the    *)
(* event of the last command it knew of has fired, so that this command    *)
(* has retired or the context is destroyed; and nobody touches the freed   *)
(* object, which holds no timeline.                                        *)
(* Two cases are excepted.  Commands that are ahead of the object in the   *)
(* ring but were queued after it had read its timestamp are not waited     *)
(* for.  And the call that destroys an object whose event was refused      *)
(* faults, on the array that the error path of hgsl_drawobj_add_timeline   *)
(* has freed.  It is the only one that does, and it has nothing forwarded  *)
(* and no timeline kept.                                                   *)
(***************************************************************************)
LastForwardsAndFrees ==
    /\ TypeOK
    /\ forwarded => /\ pc \in {"put", "gone"} /\ event \in {"signalled", "done"}
                    /\ retired >= eventTs \/ detached
    /\ refcount = 0 => /\ pc = "gone" /\ event \in {"none", "done"}
                       /\ sig = 0 /\ tlRef = 0
    /\ event # "fault"
    /\ pc = "fault" => event = "none" /\ ~forwarded /\ tlRef = 0

(***************************************************************************)
(* A queued timeline object signals its timelines, and is freed.           *)
(***************************************************************************)
QueuedForwards == (pc = "queued") ~> (forwarded /\ refcount = 0)

=============================================================================
