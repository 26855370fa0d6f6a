---------------------------- MODULE HgslDrawQueue ----------------------------
(***************************************************************************)
(* The draw queue of one context and its dispatcher (hgsl_dispatch.c),     *)
(* from the submitting ioctls (hgsl_ioctl_gpu_command,                     *)
(* hgsl_ioctl_gpu_aux_command) to the GPU and to context destruction       *)
(* (hgsl_ctxt_destroy, hgsl_ctxt_detach_drawobjs).                         *)
(*                                                                         *)
(* Actors: submitting threads, the dispatch kthread of the context, the    *)
(* GPU, sync points that expire, and one thread in hgsl_ctxt_destroy.      *)
(* drawq_lock is explicit: a holder that walks the queue takes one step    *)
(* per draw object, and every other user of the lock waits.                *)
(*                                                                         *)
(* The context has its shadow timestamps mapped.  ctxt->is_killed is never *)
(* set by the driver and is left out.  The sync points of a sync object    *)
(* are one pending bit here; HgslSyncObj has them in detail.               *)
(***************************************************************************)
EXTENDS HgslTimestamp, Sequences, FiniteSets

CONSTANTS
    QSize,        \* CONTEXT_DRAWQUEUE_SIZE
    Threads,      \* threads that submit
    Batches,      \* kinds of the draw objects of one submission, in order
    TsMode,       \* how the context gets its timestamps
    StartTs,      \* last timestamp of the idle context the model starts from
    MaxSubmits,   \* bound: submissions
    MaxSendFails, \* bound: failures of hgsl_issue_drawobj
    Timeouts      \* whether a wait for room lasts longer than its 10 seconds

Kinds == {"cmd", "marker", "bare", "sync", "timeline"}

ASSUME DrawQueueAssumption ==
    /\ QSize \in Nat /\ QSize >= 3
    /\ Batches \subseteq Seq(Kinds) \ {<<>>}
    \* Only the last object of a submission has a timestamp.
    /\ \A b \in Batches : \A i \in 1 .. (Len(b) - 1) : b[i] \in {"sync", "timeline"}
    /\ "free" \notin Threads /\ "worker" \notin Threads
    /\ TsMode \in TsModes
    /\ StartTs \subseteq Ts
    /\ MaxSubmits \in Nat /\ MaxSendFails \in Nat
    /\ Timeouts \in BOOLEAN

_context_drawqueue_size == QSize - 1
Slots == 0 .. (QSize - 1)
DRAWQUEUE_NEXT(i) == (i + 1) % QSize

VARIABLES
    drawq, drawq_head, drawq_tail, queued,    \* the ring of the context
    drawq_lock,   \* who holds ctxt->drawq_lock
    queued_ts,    \* ctxt->queued_ts
    eop,          \* the retired timestamp: GPU-written, or by marker retirement
    gpu,          \* timestamps issued to the GPU and not retired, oldest first
    dispatch,     \* ctxt->dispatch exists
    sent,         \* dispatch->drawobj_list, as timestamps
    count,        \* dispatch->count
    works,        \* the work list of the dispatch kthread
    wk,           \* the dispatch kthread
    th,           \* the submitting threads
    kref,         \* ctxt->kref
    in_destroy,   \* ctxt->in_destroy
    dpc,          \* program counter of hgsl_ctxt_destroy
    submits, fails    \* counters of the two bounds

ring == <<drawq, drawq_head, drawq_tail, queued>>
disp == <<sent, count, works, wk>>
life == <<in_destroy, dpc>>
bounds == <<submits, fails>>
vars == <<ring, drawq_lock, queued_ts, eop, gpu, dispatch, disp, th, kref, life, bounds>>

(***************************************************************************)
(* A draw object.  "bare" is a MARKEROBJ_TYPE object whose flags do not    *)
(* have HGSL_DRAWOBJ_MARKER: _get_command_type makes one of a submission   *)
(* without commands.  mts is marker_timestamp, pend the sync points.       *)
(***************************************************************************)
DrawObj == [kind : Kinds \cup {"none"}, ts : Ts, mts : Ts, skip : BOOLEAN, pend : BOOLEAN]
NewObj(k, p) == [kind |-> k, ts |-> 0, mts |-> 0, skip |-> FALSE, pend |-> k = "sync" /\ p]
NoObj == [kind |-> "none", ts |-> 0, mts |-> 0, skip |-> FALSE, pend |-> FALSE]
IsMarker(o) == o.kind \in {"marker", "bare"}
HasTs(o) == o.kind \in {"cmd", "marker", "bare"}

\* The objects in the ring, and their slots from head to tail.
Occupied == {i \in Slots : (i - drawq_head) % QSize < (drawq_tail - drawq_head) % QSize}
InRing == {drawq[i] : i \in Occupied}

IdleThread == [pc |-> "idle", objs |-> <<>>, n |-> 0, ts |-> 0]
IdleWorker == [pc |-> "idle", taken |-> 0, obj |-> NoObj, again |-> FALSE]

Init ==
    /\ drawq = [i \in Slots |-> NoObj]
    /\ drawq_head = 0 /\ drawq_tail = 0 /\ queued = 0
    /\ drawq_lock = "free"
    /\ queued_ts \in StartTs
    /\ eop = queued_ts
    /\ gpu = <<>>
    /\ dispatch = FALSE
    /\ sent = {}
    /\ count = 0
    /\ works = <<>>
    /\ wk = IdleWorker
    /\ th = [t \in Threads |-> IdleThread]
    /\ kref = 1
    /\ in_destroy = FALSE
    /\ dpc = "none"
    /\ submits = 0 /\ fails = 0

-----------------------------------------------------------------------------
(* Submission.                                                             *)

\* Assumption: the timestamps in flight stay inside the comparison window, and
\* a client does not ask for one beyond it.
InWindow(ts) == U32Sub(ts, eop) < Half

\* hgsl_ioctl_gpu_command, hgsl_ioctl_gpu_aux_command: look the context up.
SubmitBegin(t) ==
    /\ th[t].pc = "idle"
    /\ dpc = "none"
    /\ submits < MaxSubmits
    /\ submits' = submits + 1
    /\ th' = [th EXCEPT ![t].pc = "got"]
    /\ kref' = kref + 1
    /\ UNCHANGED <<ring, drawq_lock, queued_ts, eop, gpu, dispatch, disp, life, fails>>

\* Then start the dispatcher if there is none, and create the draw objects,
\* each with a reference of its own on the context.  The sync points of the
\* submission may all have expired before it is queued.
SubmitCreate(t, b, user_ts, p) ==
    /\ th[t].pc = "got"
    /\ TsMode = "client" => hgsl_ts32_ge(queued_ts, user_ts) \/ InWindow(user_ts)
    /\ dispatch' = TRUE
    /\ th' = [th EXCEPT ![t] = [pc |-> "lock", n |-> 0, ts |-> user_ts,
                                objs |-> [i \in DOMAIN b |-> NewObj(b[i], p)]]]
    /\ kref' = kref + Len(b)
    /\ UNCHANGED <<ring, drawq_lock, queued_ts, eop, gpu, disp, life, bounds>>

\* Or the submission is refused before it has objects to queue: the context has
\* no doorbell queue, a list of the caller is bad, memory runs out.  What was
\* created is destroyed; the dispatcher, once started, stays.
SubmitCreateFails(t) ==
    /\ th[t].pc = "got"
    /\ dispatch' \in {dispatch, TRUE}
    /\ th' = [th EXCEPT ![t].pc = "put"]
    /\ UNCHANGED <<ring, drawq_lock, queued_ts, eop, gpu, disp, kref, life, bounds>>

\* Mutant: the client's timestamp is not checked before queueing.
Mut_no_precheck(objs, ts) == FALSE

\* The check of a client's timestamp before anything is queued.
ClientTsStale(objs, ts) ==
    /\ ~(Len(objs) = 1 /\ objs[1].kind = "sync")
    /\ TsMode = "client"
    /\ hgsl_ts32_ge(queued_ts, ts)

\* With room, or believed to have it: go on with the lock held, or fail.
GoOnQueueing(t) ==
    IF ClientTsStale(th[t].objs, th[t].ts)
    THEN th' = [th EXCEPT ![t].pc = "fail"] /\ UNCHANGED drawq_lock
    ELSE th' = [th EXCEPT ![t].pc = "enq"] /\ drawq_lock' = t

\* Mutant: no slot is kept for the object the dispatcher may push back.
Mut_room_off_by_one(t) ==
    LET n == Len(th[t].objs) IN
    /\ th[t].pc = "lock"
    /\ drawq_lock = "free"
    /\ IF in_destroy \/ n > _context_drawqueue_size
       THEN th' = [th EXCEPT ![t].pc = "fail"] /\ UNCHANGED drawq_lock
       ELSE IF queued + n > _context_drawqueue_size
       THEN th' = [th EXCEPT ![t].pc = "room"] /\ UNCHANGED drawq_lock
       ELSE GoOnQueueing(t)
    /\ UNCHANGED <<ring, queued_ts, eop, gpu, dispatch, disp, kref, life, bounds>>

\* hgsl_dispatch_queue_cmds takes the lock and looks for room
\* (_check_for_room_in_context_drawq).
QueueEnter(t) ==
    LET n == Len(th[t].objs) IN
    /\ th[t].pc = "lock"
    /\ drawq_lock = "free"
    /\ IF in_destroy \/ n > _context_drawqueue_size - 1
       THEN th' = [th EXCEPT ![t].pc = "fail"] /\ UNCHANGED drawq_lock
       ELSE IF queued + n > _context_drawqueue_size - 1
       THEN th' = [th EXCEPT ![t].pc = "room"] /\ UNCHANGED drawq_lock
       ELSE GoOnQueueing(t)
    /\ UNCHANGED <<ring, queued_ts, eop, gpu, dispatch, disp, kref, life, bounds>>

\* _check_context_queue: the condition the sleepers on drawq_wq wait for.
_check_context_queue(n) == queued + n < _context_drawqueue_size

\* What wait_event_interruptible_timeout may return to thread t: the remaining
\* time, which is not zero, when the condition holds; zero when the time is up;
\* an error when a signal arrives.
WaitReturns(t) ==
    {"signal"} \cup (IF _check_context_queue(Len(th[t].objs)) THEN {"remaining"}
                     ELSE IF Timeouts THEN {"zero"} ELSE {})

\* _check_for_room_in_context_drawq after its sleep, and the `if (ret) goto out'
\* of its caller: only the thread whose time is up goes on to queue.
RoomWaited(t, ret) ==
    /\ th[t].pc = "room"
    /\ drawq_lock = "free"
    /\ ret \in WaitReturns(t)
    /\ IF ret = "zero" THEN GoOnQueueing(t)
       ELSE th' = [th EXCEPT ![t].pc = "fail"] /\ UNCHANGED drawq_lock
    /\ UNCHANGED <<ring, queued_ts, eop, gpu, dispatch, disp, kref, life, bounds>>

-----------------------------------------------------------------------------
(* The _queue_* functions, one draw object each, with drawq_lock held.     *)

CurObj(t) == th[t].objs[th[t].n + 1]

\* Thread t is about to queue an object whose kind is in K.
Enqueuing(t, K) ==
    /\ th[t].pc = "enq"
    /\ th[t].n < Len(th[t].objs)
    /\ CurObj(t).kind \in K

_queue_drawobj(t, o, q) ==
    /\ drawq' = [q EXCEPT ![drawq_tail] = o]
    /\ drawq_tail' = DRAWQUEUE_NEXT(drawq_tail)
    /\ queued' = queued + 1
    /\ th' = [th EXCEPT ![t].n = @ + 1]
    /\ UNCHANGED drawq_head

\* The timestamp of the next object, and whether it can be had.
NextTsOk(t) == hgsl_db_next_timestamp_ok(TsMode, queued_ts, th[t].ts)
NextTs(t) == hgsl_db_next_timestamp(TsMode, queued_ts, th[t].ts)

\* Leave with an error in the middle of the batch.
QueueFails(t) ==
    /\ th' = [th EXCEPT ![t].pc = "fail"]
    /\ drawq_lock' = "free"
    /\ UNCHANGED <<ring, queued_ts, eop, kref>>

\* The markers queued before a real command are forced to dispatch.
SkipMarkers ==
    [i \in Slots |-> IF i \in Occupied /\ IsMarker(drawq[i])
                     THEN [drawq[i] EXCEPT !.skip = TRUE]
                     ELSE drawq[i]]

_queue_cmdobj(t) ==
    /\ Enqueuing(t, {"cmd"})
    /\ IF ~NextTsOk(t) THEN QueueFails(t)
       ELSE /\ InWindow(NextTs(t))
            /\ _queue_drawobj(t, [CurObj(t) EXCEPT !.ts = NextTs(t)], SkipMarkers)
            /\ queued_ts' = NextTs(t)
            /\ UNCHANGED <<drawq_lock, eop, kref>>
    /\ UNCHANGED <<gpu, dispatch, disp, life, bounds>>

\* Mutant: the fast path only looks at the queue, not at what is in flight.
Mut_fast_ignores_inflight == queued = 0

\* Nothing queued and nothing in flight: retire without bothering the GPU.
MarkerFast == queued = 0 /\ hgsl_ts32_ge(eop, queued_ts)

\* Otherwise the marker waits for the last timestamp queued before it.
_queue_markerobj(t) ==
    /\ Enqueuing(t, {"marker", "bare"})
    /\ IF ~NextTsOk(t) THEN QueueFails(t)
       ELSE /\ InWindow(NextTs(t))
            /\ queued_ts' = NextTs(t)
            /\ IF MarkerFast
               THEN /\ eop' = NextTs(t)
                    /\ kref' = kref - 1
                    /\ th' = [th EXCEPT ![t].pc = "put"]
                    /\ drawq_lock' = "free"
                    /\ UNCHANGED ring
               ELSE /\ _queue_drawobj(t, [CurObj(t) EXCEPT !.ts = NextTs(t),
                                                           !.mts = queued_ts], drawq)
                    /\ UNCHANGED <<eop, kref, drawq_lock>>
    /\ UNCHANGED <<gpu, dispatch, disp, life, bounds>>

\* The timestamp is 0, in either case.
_queue_syncobj(t) ==
    /\ Enqueuing(t, {"sync"})
    /\ _queue_drawobj(t, CurObj(t), drawq)
    /\ UNCHANGED <<drawq_lock, queued_ts, eop, gpu, dispatch, disp, kref, life, bounds>>

_queue_timelineobj(t) ==
    /\ Enqueuing(t, {"timeline"})
    /\ _queue_drawobj(t, CurObj(t), drawq)
    /\ UNCHANGED <<drawq_lock, queued_ts, eop, gpu, dispatch, disp, kref, life, bounds>>

QueueLeave(t) ==
    /\ th[t].pc = "enq"
    /\ th[t].n = Len(th[t].objs)
    /\ th' = [th EXCEPT ![t].pc = "inc"]
    /\ drawq_lock' = "free"
    /\ UNCHANGED <<ring, queued_ts, eop, gpu, dispatch, disp, kref, life, bounds>>

-----------------------------------------------------------------------------
(* hgsl_dispatch_queue_context, and the end of the ioctl.                  *)

\* kthread_queue_work does nothing for a work that is already pending.
kthread_queue_work(w) == IF \E i \in DOMAIN works : works[i] = w
                         THEN works ELSE Append(works, w)

KickCount(t) ==
    /\ th[t].pc = "inc"
    /\ kref' = kref + 1
    /\ count' = count + 1
    /\ th' = [th EXCEPT ![t].pc = "sched"]
    /\ UNCHANGED <<ring, drawq_lock, queued_ts, eop, gpu, dispatch, sent, works, wk,
                   life, bounds>>

KickSchedule(t) ==
    /\ th[t].pc = "sched"
    /\ works' = kthread_queue_work("work")
    /\ th' = [th EXCEPT ![t].pc = "put"]
    /\ UNCHANGED <<ring, drawq_lock, queued_ts, eop, gpu, dispatch, sent, count, wk,
                   kref, life, bounds>>

\* The ioctl puts its reference; after an error it first destroys the objects.
SubmitEnd(t) ==
    /\ th[t].pc \in {"put", "fail"}
    /\ kref' = kref - 1 - (IF th[t].pc = "fail" THEN Len(th[t].objs) ELSE 0)
    /\ th' = [th EXCEPT ![t] = IdleThread]
    /\ UNCHANGED <<ring, drawq_lock, queued_ts, eop, gpu, dispatch, disp, life, bounds>>

-----------------------------------------------------------------------------
(* The dispatch kthread: hgsl_dispatch_ctxt_work.  It holds dispatch->mutex *)
(* from WorkStart until it is idle again.                                  *)

\* Objects of S that have retired: the ones _retire_drawobjs destroys.
RetiredOf(S) == {ts \in S : hgsl_ts32_ge(eop, ts)}

\* The first half of the handler: _retire_drawobjs (and the event group).
WorkStart ==
    /\ wk.pc = "idle"
    /\ works # <<>> /\ Head(works) = "work"
    /\ works' = Tail(works)
    /\ sent' = sent \ RetiredOf(sent)
    /\ kref' = kref - Cardinality(RetiredOf(sent))
    /\ wk' = [wk EXCEPT !.pc = "xchg"]
    /\ UNCHANGED <<ring, drawq_lock, queued_ts, eop, gpu, dispatch, count, th, life,
                   bounds>>

\* hgsl_dispatch_ctxt_issuecmds claims every kick at once.
WorkXchg ==
    /\ wk.pc = "xchg"
    /\ count' = 0
    /\ wk' = IF count = 0 THEN IdleWorker ELSE [wk EXCEPT !.pc = "send", !.taken = count]
    /\ UNCHANGED <<ring, drawq_lock, queued_ts, eop, gpu, dispatch, sent, works, th,
                   kref, life, bounds>>

\* hgsl_dispatch_sendcmds takes drawq_lock for one round of its loop.
SendLock ==
    /\ wk.pc = "send"
    /\ drawq_lock = "free"
    /\ drawq_lock' = "worker"
    /\ wk' = [wk EXCEPT !.pc = "scan"]
    /\ UNCHANGED <<ring, queued_ts, eop, gpu, dispatch, sent, count, works, th, kref,
                   life, bounds>>

HeadObj == drawq[drawq_head]
Scanning(K) ==
    /\ wk.pc = "scan"
    /\ drawq_head # drawq_tail
    /\ HeadObj.kind \in K

\* The popped slot keeps its pointer in the code, which never reads it again;
\* here it is cleared.
_pop_drawobj ==
    /\ drawq' = [drawq EXCEPT ![drawq_head] = NoObj]
    /\ drawq_head' = DRAWQUEUE_NEXT(drawq_head)
    /\ queued' = queued - 1
    /\ UNCHANGED drawq_tail

\* A sync object without pending sync points, or a timeline object.
_retire_syncobj ==
    /\ Scanning({"sync", "timeline"})
    /\ ~HeadObj.pend
    /\ _pop_drawobj
    /\ kref' = kref - 1
    /\ UNCHANGED <<drawq_lock, queued_ts, eop, gpu, dispatch, disp, th, life, bounds>>

_marker_expired(o) == o.kind = "marker" /\ hgsl_ts32_ge(eop, o.mts)

\* An expired marker retires its own timestamp from the CPU.
_retire_markerobj ==
    /\ Scanning({"marker", "bare"})
    /\ _marker_expired(HeadObj)
    /\ _pop_drawobj
    /\ eop' = HeadObj.ts
    /\ kref' = kref - 1
    /\ UNCHANGED <<drawq_lock, queued_ts, gpu, dispatch, disp, th, life, bounds>>

\* The queue is empty, or its head waits for sync points (-EAGAIN) or for the
\* marker's timestamp (-EAGAIN).
Blocked == \/ Scanning({"sync"}) /\ HeadObj.pend
           \/ Scanning({"marker", "bare"}) /\ ~_marker_expired(HeadObj) /\ ~HeadObj.skip

ScanEnd ==
    /\ wk.pc = "scan"
    /\ \/ Blocked /\ wk' = [wk EXCEPT !.pc = "done", !.again = TRUE]
       \/ drawq_head = drawq_tail /\ wk' = [wk EXCEPT !.pc = "done"]
    /\ drawq_lock' = "free"
    /\ UNCHANGED <<ring, queued_ts, eop, gpu, dispatch, sent, count, works, th, kref,
                   life, bounds>>

\* A command, or a marker that must be dispatched, is popped to be sent.
ScanPop ==
    /\ \/ Scanning({"cmd"})
       \/ Scanning({"marker", "bare"}) /\ ~_marker_expired(HeadObj) /\ HeadObj.skip
    /\ _pop_drawobj
    /\ drawq_lock' = "free"
    /\ wk' = [wk EXCEPT !.pc = "issue", !.obj = HeadObj]
    /\ UNCHANGED <<queued_ts, eop, gpu, dispatch, sent, count, works, th, kref, life,
                   bounds>>

\* _sendcmd: the GPU has the command, which is listed until it retires.
_sendcmd ==
    /\ wk.pc = "issue"
    /\ gpu' = Append(gpu, wk.obj.ts)
    /\ sent' = sent \cup {wk.obj.ts}
    /\ wk' = [wk EXCEPT !.pc = "send", !.obj = NoObj, !.again = TRUE]
    /\ UNCHANGED <<ring, drawq_lock, queued_ts, eop, dispatch, count, works, th, kref,
                   life, bounds>>

\* No memory, or no room in the doorbell queue.
_sendcmd_fails ==
    /\ wk.pc = "issue"
    /\ fails < MaxSendFails
    /\ fails' = fails + 1
    /\ wk' = [wk EXCEPT !.pc = "requeue"]
    /\ UNCHANGED <<ring, drawq_lock, queued_ts, eop, gpu, dispatch, sent, count, works,
                   th, kref, life, submits>>

PrevSlot == IF drawq_head = 0 THEN QSize - 1 ELSE drawq_head - 1

hgsl_dispatch_requeue_drawobj ==
    /\ wk.pc = "requeue"
    /\ drawq_lock = "free"
    /\ drawq' = [drawq EXCEPT ![PrevSlot] = wk.obj]
    /\ drawq_head' = PrevSlot
    /\ queued' = queued + 1
    /\ wk' = [wk EXCEPT !.pc = "done", !.obj = NoObj, !.again = TRUE]
    /\ UNCHANGED <<drawq_tail, drawq_lock, queued_ts, eop, gpu, dispatch, sent, count,
                   works, th, kref, life, bounds>>

\* Mutant: the job is dropped when the head of the queue is blocked.
Mut_never_rescheduled ==
    /\ wk.pc = "done"
    /\ kref' = kref - wk.taken
    /\ wk' = IdleWorker
    /\ UNCHANGED <<ring, drawq_lock, queued_ts, eop, gpu, dispatch, sent, count, works, th,
                   life, bounds>>

\* Mutant: the references of the kicks claimed together are not put.
Mut_extra_kicks_leak ==
    /\ wk.pc = "done"
    /\ IF ~wk.again
       THEN /\ kref' = kref - 1
            /\ UNCHANGED <<count, works>>
       ELSE /\ UNCHANGED kref
            /\ count' = count + 1
            /\ works' = kthread_queue_work("work")
    /\ wk' = IdleWorker
    /\ UNCHANGED <<ring, drawq_lock, queued_ts, eop, gpu, dispatch, sent, th, life, bounds>>

\* The end of hgsl_dispatch_ctxt_issuecmds.  The first kick is kept when the
\* loop sent something or met an error, else put; the others are put.
WorkEnd ==
    /\ wk.pc = "done"
    /\ IF ~wk.again
       THEN /\ kref' = kref - wk.taken
            /\ UNCHANGED <<count, works>>
       ELSE /\ kref' = kref - (wk.taken - 1)
            /\ count' = count + 1
            /\ works' = kthread_queue_work("work")
    /\ wk' = IdleWorker
    /\ UNCHANGED <<ring, drawq_lock, queued_ts, eop, gpu, dispatch, sent, th, life, bounds>>

-----------------------------------------------------------------------------
(* The GPU and the sync points.                                            *)

GpuRetire ==
    /\ gpu # <<>>
    /\ eop' = Head(gpu)
    /\ gpu' = Tail(gpu)
    /\ UNCHANGED <<ring, drawq_lock, queued_ts, dispatch, disp, th, kref, life, bounds>>

\* drawobj_sync_expire of the last sync point of the object in slot i: the
\* context is kicked.  The bit is cleared without drawq_lock.
SyncExpire(i) ==
    /\ i \in Occupied
    /\ drawq[i].pend
    /\ drawq' = [drawq EXCEPT ![i].pend = FALSE]
    /\ kref' = kref + 1
    /\ count' = count + 1
    /\ works' = kthread_queue_work("work")
    /\ UNCHANGED <<drawq_head, drawq_tail, queued, drawq_lock, queued_ts, eop, gpu,
                   dispatch, sent, wk, th, life, bounds>>

-----------------------------------------------------------------------------
(* hgsl_ctxt_destroy and hgsl_ctxt_detach_drawobjs.                        *)

DestroyPc == {"none", "removed", "drain", "flush", "flushing", "reclaim", "put", "spin",
              "deinit", "freed"}

\* hgsl_remove_context, then in_destroy, then detach's own reference.
DestroyRemove ==
    /\ dpc = "none"
    /\ dpc' = "removed"
    /\ UNCHANGED <<ring, drawq_lock, queued_ts, eop, gpu, dispatch, disp, th, kref,
                   in_destroy, bounds>>

DestroyMark ==
    /\ dpc = "removed"
    /\ in_destroy' = TRUE
    /\ kref' = kref + 1
    /\ dpc' = "drain"
    /\ UNCHANGED <<ring, drawq_lock, queued_ts, eop, gpu, dispatch, disp, th, bounds>>

\* The queue is emptied under drawq_lock (queued keeps its value) and the
\* objects taken out are destroyed.
DetachDrain ==
    /\ dpc = "drain"
    /\ drawq_lock = "free"
    /\ drawq' = [i \in Slots |-> IF i \in Occupied THEN NoObj ELSE drawq[i]]
    /\ drawq_head' = drawq_tail
    /\ kref' = kref - Cardinality(Occupied)
    /\ dpc' = "flush"
    /\ UNCHANGED <<drawq_tail, queued, drawq_lock, queued_ts, eop, gpu, dispatch, disp,
                   th, in_destroy, bounds>>

\* hgsl_dispatch_ctxt_schedule, then kthread_flush_worker queues a marker work
\* and waits for it.
DetachSchedule ==
    /\ dpc = "flush"
    /\ IF dispatch
       THEN /\ works' = Append(kthread_queue_work("work"), "flush")
            /\ dpc' = "flushing"
       ELSE dpc' = "put" /\ UNCHANGED works
    /\ UNCHANGED <<ring, drawq_lock, queued_ts, eop, gpu, dispatch, sent, count, wk, th,
                   kref, in_destroy, bounds>>

DetachFlushed ==
    /\ dpc = "flushing"
    /\ wk.pc = "idle"
    /\ works # <<>> /\ Head(works) = "flush"
    /\ works' = Tail(works)
    /\ dpc' = "reclaim"
    /\ UNCHANGED <<ring, drawq_lock, queued_ts, eop, gpu, dispatch, sent, count, wk, th,
                   kref, in_destroy, bounds>>

\* Mutant: one round of reclaiming, whatever is still in flight.
Mut_reclaim_once ==
    /\ dpc = "reclaim"
    /\ wk.pc = "idle"
    /\ sent' = sent \ RetiredOf(sent)
    /\ kref' = kref - Cardinality(RetiredOf(sent))
    /\ dpc' = "put"
    /\ UNCHANGED <<ring, drawq_lock, queued_ts, eop, gpu, dispatch, count, works, wk, th,
                   in_destroy, bounds>>

\* One round of hgsl_reclaim_drawobjs, under dispatch->mutex.
hgsl_reclaim_drawobjs ==
    /\ dpc = "reclaim"
    /\ wk.pc = "idle"
    /\ IF sent = {} THEN dpc' = "put" /\ UNCHANGED <<sent, kref>>
       ELSE /\ sent' = sent \ RetiredOf(sent)
            /\ kref' = kref - Cardinality(RetiredOf(sent))
            /\ UNCHANGED dpc
    /\ UNCHANGED <<ring, drawq_lock, queued_ts, eop, gpu, dispatch, count, works, wk, th,
                   in_destroy, bounds>>

\* Detach's reference and the one of the table.
DestroyPut ==
    /\ dpc = "put"
    /\ kref' = kref - 2
    /\ dpc' = "spin"
    /\ UNCHANGED <<ring, drawq_lock, queued_ts, eop, gpu, dispatch, disp, th, in_destroy,
                   bounds>>

SpinUntilDestroyed ==
    /\ dpc = "spin"
    /\ kref = 0
    /\ dpc' = "deinit"
    /\ UNCHANGED <<ring, drawq_lock, queued_ts, eop, gpu, dispatch, disp, th, kref,
                   in_destroy, bounds>>

\* kthread_destroy_worker waits for the work list to run dry.
hgsl_dispatch_ctxt_deinit ==
    /\ dpc = "deinit"
    /\ wk.pc = "idle"
    /\ works = <<>>
    /\ dpc' = "freed"
    /\ UNCHANGED <<ring, drawq_lock, queued_ts, eop, gpu, dispatch, disp, th, kref,
                   in_destroy, bounds>>

-----------------------------------------------------------------------------
\* The value is not used when the driver assigns the timestamps.
UserTs == IF TsMode = "driver" THEN {0} ELSE Ts

\* The steps a submitting thread takes of itself, once in the ioctl.
ThreadRuns(t) ==
    \/ \E b \in Batches, ts \in UserTs, p \in BOOLEAN : SubmitCreate(t, b, ts, p)
    \/ SubmitCreateFails(t)
    \/ QueueEnter(t)
    \/ \E ret \in {"remaining", "zero"} : RoomWaited(t, ret)
    \/ _queue_cmdobj(t)
    \/ _queue_markerobj(t)
    \/ _queue_syncobj(t)
    \/ _queue_timelineobj(t)
    \/ QueueLeave(t)
    \/ KickCount(t)
    \/ KickSchedule(t)
    \/ SubmitEnd(t)

Dispatch ==
    \/ WorkStart
    \/ WorkXchg
    \/ SendLock
    \/ _retire_syncobj
    \/ _retire_markerobj
    \/ ScanEnd
    \/ ScanPop
    \/ _sendcmd
    \/ _sendcmd_fails
    \/ hgsl_dispatch_requeue_drawobj
    \/ WorkEnd

Destroy ==
    \/ DestroyRemove
    \/ DestroyMark
    \/ DetachDrain
    \/ DetachSchedule
    \/ DetachFlushed
    \/ hgsl_reclaim_drawobjs
    \/ DestroyPut
    \/ SpinUntilDestroyed
    \/ hgsl_dispatch_ctxt_deinit

Next ==
    \/ \E t \in Threads : SubmitBegin(t) \/ ThreadRuns(t) \/ RoomWaited(t, "signal")
    \/ Dispatch
    \/ GpuRetire
    \/ \E i \in Slots : SyncExpire(i)
    \/ Destroy

Spec == Init /\ [][Next]_vars

(***************************************************************************)
(* Fairness: a thread inside an ioctl and the dispatch kthread run on, the *)
(* GPU executes what it was given, a destroy that began runs on.  It is    *)
(* strong fairness where the step takes drawq_lock or dispatch->mutex: the *)
(* kernel's queued spinlocks and rt_mutexes hand over to waiters, so the   *)
(* polling dispatcher cannot starve them.  Nothing forces a client to      *)
(* submit or a signal to arrive.                                           *)
(***************************************************************************)
Fairness ==
    /\ \A t \in Threads : SF_vars(ThreadRuns(t))
    /\ SF_vars(Dispatch)
    /\ WF_vars(GpuRetire)
    /\ SF_vars(Destroy /\ dpc # "none")

FairSpec == Spec /\ Fairness


-----------------------------------------------------------------------------
\* Types; the ring's indices stay in the ring.
TypeOK ==
    /\ drawq \in [Slots -> DrawObj]
    /\ drawq_head \in Slots /\ drawq_tail \in Slots /\ queued \in 0 .. QSize
    /\ drawq_lock \in {"free", "worker"} \cup Threads
    /\ queued_ts \in Ts /\ eop \in Ts
    /\ gpu \in Seq(Ts) /\ sent \subseteq Ts
    /\ count \in Nat /\ kref \in Int
    /\ dpc \in DestroyPc

\* Objects in the ring, and the one popped that may have to go back to it.
InQueue == queued + (IF wk.pc \in {"issue", "requeue"} THEN 1 ELSE 0)

(***************************************************************************)
(* What the comment of hgsl_dispatch_queue_cmds promises: "make sure we    *)
(* never let drawq->queued exceed _context_drawqueue_size", so that there  *)
(* is room to put back the object the dispatcher has popped.               *)
(***************************************************************************)
RoomToPushBack == dpc = "none" => InQueue <= _context_drawqueue_size

(***************************************************************************)
(* The ring is consistent: `queued' is the number of objects between head  *)
(* and tail, each a draw object, and one slot always stays free for the    *)
(* object the dispatcher may push back (until detach empties the ring).    *)
(***************************************************************************)
RingConsistent ==
    /\ TypeOK
    /\ dpc \in {"none", "removed", "drain"} =>
          /\ queued = Cardinality(Occupied)
          /\ InQueue <= _context_drawqueue_size
          /\ \A o \in InRing : o.kind # "none"

(***************************************************************************)
(* The reference count of the context is exact: the table entry, detach,   *)
(* every ioctl in flight, every live draw object (with its thread, in the  *)
(* ring, in the dispatcher's hands or sent) and every kick not yet put.    *)
(***************************************************************************)
ThreadRefs(t) ==
    CASE th[t].pc = "idle" -> 0
      [] th[t].pc \in {"got", "inc", "sched", "put"} -> 1
      [] OTHER -> 1 + Len(th[t].objs) - th[t].n

KrefExact ==
    kref = Cardinality(UNION {{t} \X (1 .. ThreadRefs(t)) : t \in Threads})
           + Cardinality(Occupied) + Cardinality(sent)
           + (IF wk.obj = NoObj THEN 0 ELSE 1)
           + count + wk.taken
           + (IF dpc \in {"spin", "deinit", "freed"} THEN 0 ELSE 1)
           + (IF dpc \in {"none", "removed", "spin", "deinit", "freed"} THEN 0 ELSE 1)

\* The objects in the ring from head to tail, the timestamps of the first k of the
\* objects of s that have one, and the one in the dispatcher's hands.
RingSeq == [k \in 1 .. Cardinality(Occupied) |-> drawq[(drawq_head + k - 1) % QSize]]
TimedUpTo(s) ==
    LET of[k \in 0 .. Len(s)] ==
            IF k = 0 THEN <<>>
            ELSE IF HasTs(s[k]) THEN Append(of[k - 1], s[k].ts) ELSE of[k - 1]
    IN  of
HeldTs == IF wk.obj = NoObj THEN <<>> ELSE <<wk.obj.ts>>

\* The timestamps given out and not retired, in the order they were queued:
\* at the GPU, in the dispatcher's hands, in the ring.
Pipeline == LET s == RingSeq IN (gpu \o HeldTs) \o TimedUpTo(s)[Len(s)]

InOrder == INSTANCE HgslInOrder WITH pend <- Pipeline

(***************************************************************************)
(* The draw queue implements HgslInOrder.  Commands reach the GPU in the   *)
(* order of their timestamps even when one is pushed back to the ring, and *)
(* a marker that retires from the CPU, at once or by the dispatcher, is    *)
(* the oldest timestamp pending: moving the retired timestamp to it does   *)
(* not retire a command that is queued, popped or executing.               *)
(***************************************************************************)
RefinesInOrder == InOrder!Spec

(***************************************************************************)
(* No kick is lost: while something is queued, some kick is counted, being *)
(* served or about to be counted, and a counted kick has its work pending. *)
(***************************************************************************)
NoLostKick ==
    /\ Occupied # {} /\ dpc = "none" =>
          \/ count + wk.taken > 0
          \/ \E t \in Threads : th[t].pc \in {"enq", "inc"}
    /\ count > 0 =>
          \/ \E i \in DOMAIN works : works[i] = "work"
          \/ wk.pc = "xchg"
          \/ \E t \in Threads : th[t].pc = "sched"

(***************************************************************************)
(* A submission that fails has queued nothing: the caller destroys all the *)
(* objects of the batch, so one left in the ring would dangle.             *)
(***************************************************************************)
NoPartialQueue == \A t \in Threads : th[t].pc = "fail" => th[t].n = 0

\* Nobody keeps a sync point from expiring.
SyncsExpire == \A i \in Slots : WF_vars(SyncExpire(i))

(***************************************************************************)
(* The queue drains: everything in the ring is sent, retired or dropped    *)
(* with the context (submissions are bounded, so they come to an end),     *)
(* provided the sync points in it expire and no object is a marker without *)
(* HGSL_DRAWOBJ_MARKER, which never expires by itself (_marker_expired).   *)
(***************************************************************************)
QueueDrains == SyncsExpire => (Occupied # {} ~> Occupied = {})

Sleeping == \E t \in Threads : th[t].pc = "room"

(***************************************************************************)
(* hgsl_ctxt_destroy terminates, whatever is queued, sent or blocked on    *)
(* sync points, unless a thread sleeps for room in the queue.              *)
(***************************************************************************)
DestroyTerminates == (dpc # "none") ~> (dpc = "freed" \/ Sleeping)
=============================================================================
