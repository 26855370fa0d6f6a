------------------------------ MODULE HgslHsync ------------------------------
(***************************************************************************)
(* The hardware timeline of a context and its fences (hgsl_sync.c, hsync): *)
(* a fence is a file descriptor that signals when a timestamp of the       *)
(* context retires.  What makes it signal is a timestamp event, so the     *)
(* module composes the timeline with the part of hgsl_events.c it rests    *)
(* on: an event fires when its timestamp has retired or when the context   *)
(* is destroyed (HgslEvents models the event groups themselves).           *)
(*                                                                         *)
(* Actors: one ioctl thread per fence, the GPU, the retire worker, the one *)
(* kthread that runs event callbacks, user space closing descriptors, and  *)
(* a thread inside hgsl_ctxt_destroy.  A step is the code between two      *)
(* operations of timeline->lock, of the event group or of a kref.          *)
(***************************************************************************)
EXTENDS HgslTimestamp, FiniteSets

CONSTANTS
    Fences,        \* struct hgsl_hsync_fence allocations, one per ioctl
    StartTs,       \* the timestamps the context may be at in the beginning
    TsMode         \* how the context gets its timestamps

ASSUME StartTsAssumption == StartTs \subseteq Ts
ASSUME TsModeAssumption == TsMode \in TsModes
ASSUME FencesAssumption == IsFiniteSet(Fences) /\ "no callback" \notin Fences

VARIABLES
    queued_ts,     \* the newest timestamp submitted to the context
    eop,           \* the retired timestamp, written by the GPU
    last_ts,       \* timeline->last_ts
    kref,          \* timeline->kref; 0 is a freed timeline
    fence,         \* each fence, with the ioctl and the event that belong to it
    cb,            \* the callback the events kthread is in
    in_table,      \* the context can be looked up
    dpc            \* program counter of hgsl_ctxt_destroy

vars == <<queued_ts, eop, last_ts, kref, fence, cb, in_table, dpc>>

(***************************************************************************)
(* A fence:                                                                *)
(*   pc   its ioctl: "idle", "got" the context, "placed" the fence on the  *)
(*        timeline, "event" added, "end"                                   *)
(*   refs dma_fence references: the first one belongs to the fence list,   *)
(*        one to the sync_file                                             *)
(*   on   the list it is on: fence_list, or the flist of a signal call;    *)
(*        "passed" for a fence that was never linked                       *)
(*   sf   its sync_file: not there, not installed, an open fd, closed      *)
(*   ev   its event: on the group, or its callback queued on the kthread   *)
(***************************************************************************)
Fence == [pc : {"idle", "got", "placed", "event", "end"},
          ts : Ts, sig : BOOLEAN, refs : 0 .. 2,
          on : {"none", "list", "flist", "passed"},
          sf : {"none", "made", "open", "closed"},
          ev : {"none", "listed", "work"}]

NoFence == [pc |-> "idle", ts |-> 0, sig |-> FALSE, refs |-> 0,
            on |-> "none", sf |-> "none", ev |-> "none"]

NoCb == "no callback"

\* hgsl_hsync_timeline_create: one reference, held by the context.  A start at 0
\* is a new context, another start one whose earlier fences are all gone.
Init ==
    /\ queued_ts \in StartTs
    /\ eop = queued_ts
    /\ last_ts = queued_ts
    /\ kref = 1
    /\ fence = [f \in Fences |-> NoFence]
    /\ cb = NoCb
    /\ in_table = TRUE
    /\ dpc = "none"

OnList == {f \in Fences : fence[f].on = "list"}
Listed == {f \in Fences : fence[f].ev = "listed"}
InFlight == {f \in Fences : /\ fence[f].pc # "idle"
                            /\ fence[f].pc # "end" \/ ~fence[f].sig \/ fence[f].ev # "none"}

\* References on the context other than the table's: an ioctl that found it,
\* and an event until its callback is over.
ContextHeld == \E f \in Fences : \/ fence[f].pc \notin {"idle", "end"}
                                 \/ fence[f].ev # "none"

(***************************************************************************)
(* BOUND.  The timestamps in play stay inside one comparison window (2^31  *)
(* of them in the code): those submitted and retired, those of fences that *)
(* have not signalled or not had their callback, and last_ts, which only a *)
(* fence's callback moves.                                                 *)
(***************************************************************************)
InWindow(S) == \E base \in S : \A ts \in S : U32Sub(ts, base) < Half
InPlay == {eop, last_ts} \cup {fence[f].ts : f \in InFlight}

-----------------------------------------------------------------------------
(* The GPU and the event group.                                            *)

Submit(user_ts) ==
    LET ts == hgsl_db_next_timestamp(TsMode, queued_ts, user_ts) IN
    /\ in_table
    /\ hgsl_db_next_timestamp_ok(TsMode, queued_ts, user_ts)
    /\ hgsl_ts32_ge(ts, queued_ts)
    /\ InWindow(InPlay \cup {queued_ts, ts})
    /\ queued_ts' = ts
    /\ UNCHANGED <<eop, last_ts, kref, fence, cb, in_table, dpc>>

GpuRetire(ts) ==
    /\ dpc # "gone"
    /\ ts # eop /\ hgsl_ts32_ge(ts, eop) /\ hgsl_ts32_ge(queued_ts, ts)
    /\ eop' = ts
    /\ UNCHANGED <<queued_ts, last_ts, kref, fence, cb, in_table, dpc>>

\* The events of S leave the group and their callbacks are queued.
Fire(S) == fence' = [f \in Fences |-> IF f \in S THEN [fence[f] EXCEPT !.ev = "work"]
                                      ELSE fence[f]]
Retired == {f \in Listed : hgsl_ts32_ge(eop, fence[f].ts)}

\* The retire worker processes the event group of a context in the table.
ProcessEvents ==
    /\ in_table
    /\ Retired # {}
    /\ Fire(Retired)
    /\ UNCHANGED <<queued_ts, eop, last_ts, kref, cb, in_table, dpc>>

-----------------------------------------------------------------------------
(* hgsl_ioctl_hsync_fence_create and hgsl_hsync_fence_create_fd.           *)

\* The context is looked up; the timestamp is the caller's.
hgsl_ioctl_hsync_fence_create(f, ts) ==
    /\ fence[f].pc = "idle"
    /\ in_table
    /\ InWindow(InPlay \cup {queued_ts, ts})
    /\ fence' = [fence EXCEPT ![f].pc = "got", ![f].ts = ts]
    /\ UNCHANGED <<queued_ts, eop, last_ts, kref, cb, in_table, dpc>>

\* No descriptor is free, or hgsl_hsync_fence_create returns NULL: the fence or
\* the sync_file cannot be allocated and the timeline reference is put again.
\* A fence without sync_file is not freed, but it has no timeline yet.
FenceFails(f) ==
    /\ fence[f].pc = "got"
    /\ fence' = [fence EXCEPT ![f] = NoFence]
    /\ UNCHANGED <<queued_ts, eop, last_ts, kref, cb, in_table, dpc>>

\* hgsl_hsync_has_signaled for timestamp ts.
hgsl_hsync_has_signaled(ts) == hgsl_ts32_ge(last_ts, ts)

\* Mutant: the fence is linked without looking at the timeline.
Mut_create_unchecked(f) ==
    /\ fence[f].pc = "got"
    /\ kref > 0
    /\ kref' = kref + 1
    /\ fence' = [fence EXCEPT ![f] = [@ EXCEPT !.pc = "placed", !.refs = 2, !.sf = "made",
                                              !.on = "list"]]
    /\ UNCHANGED <<queued_ts, eop, last_ts, cb, in_table, dpc>>

\* The fence takes the timeline and has its own first reference and the
\* sync_file's.  Then, under timeline->lock, it is linked; but a fence the
\* timeline has passed signals at once and is not linked, so that nobody will
\* put its first reference.
hgsl_hsync_fence_create(f) ==
    LET passed == hgsl_hsync_has_signaled(fence[f].ts) IN
    /\ fence[f].pc = "got"
    /\ kref > 0
    /\ kref' = kref + 1
    /\ fence' = [fence EXCEPT ![f] = [@ EXCEPT !.pc = "placed", !.refs = 2, !.sf = "made",
                                              !.sig = passed,
                                              !.on = IF passed THEN "passed" ELSE "list"]]
    /\ UNCHANGED <<queued_ts, eop, last_ts, cb, in_table, dpc>>

\* _add_fence_event fails (no memory, or hgsl_add_event refuses): the descriptor
\* is given back, the fence stays where it is and its sync_file has no owner.
EventFails(f) ==
    /\ fence[f].pc = "placed"
    /\ fence' = [fence EXCEPT ![f].pc = "end"]
    /\ UNCHANGED <<queued_ts, eop, last_ts, kref, cb, in_table, dpc>>

\* hgsl_add_event links the event, or fires it when its timestamp has retired.
_add_fence_event(f) ==
    /\ fence[f].pc = "placed"
    /\ fence' = [fence EXCEPT ![f].pc = "event",
                              ![f].ev = IF hgsl_ts32_ge(eop, fence[f].ts)
                                        THEN "work" ELSE "listed"]
    /\ UNCHANGED <<queued_ts, eop, last_ts, kref, cb, in_table, dpc>>

\* fd_install; the ioctl puts the context.
FdInstall(f) ==
    /\ fence[f].pc = "event"
    /\ fence' = [fence EXCEPT ![f].pc = "end", ![f].sf = "open"]
    /\ UNCHANGED <<queued_ts, eop, last_ts, kref, cb, in_table, dpc>>

-----------------------------------------------------------------------------
(* References of fences and of the timeline.                               *)

\* dma_fence_put on each fence of S, once they are as x says.  The last one
\* releases the fence, which puts the timeline (hgsl_hsync_fence_release).
PutFences(S, x) ==
    [f \in Fences |-> IF f \in S THEN [x[f] EXCEPT !.refs = @ - 1, !.on = "none"] ELSE x[f]]
hgsl_hsync_fence_release(S, x) == Cardinality({f \in S : x[f].refs = 1})

\* User space closes the descriptor: the sync_file puts its fence.
CloseFd(f) ==
    /\ fence[f].sf = "open"
    /\ fence' = [PutFences({f}, fence) EXCEPT ![f].sf = "closed", ![f].on = fence[f].on]
    /\ kref' = kref - hgsl_hsync_fence_release({f}, fence)
    /\ UNCHANGED <<queued_ts, eop, last_ts, cb, in_table, dpc>>

\* Mutant: only the fence of this very timestamp is signalled.
Mut_reach_exact(ts) ==
    IF hgsl_ts32_ge(last_ts, ts) THEN {} ELSE {f \in OnList : fence[f].ts = ts}

\* Mutant: the fence that is next signals with the one that retired.
Mut_reach_one_more(ts) ==
    IF hgsl_ts32_ge(last_ts, ts) THEN {}
    ELSE {f \in OnList : hgsl_ts32_ge(ts + 1, fence[f].ts)}

\* The fences a signal of the timeline at ts reaches: none when the timeline
\* is there already.
Reached(ts) ==
    IF hgsl_ts32_ge(last_ts, ts) THEN {} ELSE {f \in OnList : hgsl_ts32_ge(ts, fence[f].ts)}

\* The critical section of hgsl_hsync_timeline_signal: reached fences signal
\* under the lock and are moved to the caller's flist.
hgsl_hsync_timeline_signal(ts) ==
    /\ last_ts' = IF hgsl_ts32_ge(last_ts, ts) THEN last_ts ELSE ts
    /\ fence' = [f \in Fences |->
                   IF f \in Reached(ts)
                   THEN [fence[f] EXCEPT !.sig = TRUE, !.on = "flist"] ELSE fence[f]]

\* _hsync_fence_event_cb, whether the event retired or was cancelled.
_hsync_fence_event_cb(f) ==
    /\ cb = NoCb
    /\ fence[f].ev = "work"
    /\ kref > 0
    /\ kref' = kref + 1
    /\ hgsl_hsync_timeline_signal(fence[f].ts)
    /\ cb' = f
    /\ UNCHANGED <<queued_ts, eop, in_table, dpc>>

Flist == {f \in Fences : fence[f].on = "flist"}

\* Mutant: the call does not put the timeline it took.
Mut_signal_no_put ==
    /\ cb # NoCb
    /\ fence' = [PutFences(Flist, fence) EXCEPT ![cb].ev = "none"]
    /\ kref' = kref - hgsl_hsync_fence_release(Flist, fence)
    /\ cb' = NoCb
    /\ UNCHANGED <<queued_ts, eop, last_ts, in_table, dpc>>

\* Outside the lock: the moved fences and the timeline are put, and the
\* callback and the event worker put the context.
CallbackPuts ==
    /\ cb # NoCb
    /\ fence' = [PutFences(Flist, fence) EXCEPT ![cb].ev = "none"]
    /\ kref' = kref - hgsl_hsync_fence_release(Flist, fence) - 1
    /\ cb' = NoCb
    /\ UNCHANGED <<queued_ts, eop, last_ts, in_table, dpc>>

-----------------------------------------------------------------------------
(* hgsl_ctxt_destroy and, at the last put of the context, the timeline.    *)

hgsl_remove_context ==
    /\ in_table
    /\ in_table' = FALSE
    /\ dpc' = "removed"
    /\ UNCHANGED <<queued_ts, eop, last_ts, kref, fence, cb>>

\* The event group is flushed once: every event fires.
hgsl_flush_event_group ==
    /\ dpc = "removed"
    /\ Fire(Listed)
    /\ dpc' = "flushed"
    /\ UNCHANGED <<queued_ts, eop, last_ts, kref, cb, in_table>>

\* The rest of detach cancels events on the timestamps of the draw objects it
\* drops, and processes the group once more if there is a dispatcher.
Detach(dispatch, dropped) ==
    /\ dpc = "flushed"
    /\ Fire(dropped \cup (IF dispatch THEN Retired ELSE {}))
    /\ dpc' = "spin"
    /\ UNCHANGED <<queued_ts, eop, last_ts, kref, cb, in_table>>

\* max_ts starts at 0 and is compared as a plain number.
MaxTs == LET S == {0} \cup {fence[f].ts : f \in OnList}
         IN  CHOOSE ts \in S : \A x \in S : x <= ts

\* _destroy_context: hgsl_hsync_timeline_fini sleeps while fences are listed
\* (nothing removes one any more), signals up to max_ts and puts what it
\* reached; then the context's reference is put.
hgsl_hsync_timeline_fini ==
    /\ dpc = "spin" /\ ~ContextHeld
    /\ LET S == Reached(MaxTs)
       IN  /\ last_ts' = IF hgsl_ts32_ge(last_ts, MaxTs) THEN last_ts ELSE MaxTs
           /\ fence' = PutFences(S, [f \in Fences |-> [fence[f] EXCEPT !.sig = @ \/ f \in S]])
           /\ kref' = kref - hgsl_hsync_fence_release(S, fence) - 1
    /\ dpc' = "gone"
    /\ UNCHANGED <<queued_ts, eop, cb, in_table>>

-----------------------------------------------------------------------------
Create(f) ==
    \/ FenceFails(f)
    \/ hgsl_hsync_fence_create(f)
    \/ EventFails(f)
    \/ _add_fence_event(f)
    \/ FdInstall(f)

Destroy ==
    \/ hgsl_flush_event_group
    \/ \E dispatch \in BOOLEAN, dropped \in SUBSET (Listed \ Retired) : Detach(dispatch, dropped)
    \/ hgsl_hsync_timeline_fini

Next ==
    \/ \E ts \in Ts : Submit(ts) \/ GpuRetire(ts)
    \/ ProcessEvents
    \/ \E f \in Fences : \/ \E ts \in Ts : hgsl_ioctl_hsync_fence_create(f, ts)
                         \/ Create(f)
                         \/ CloseFd(f)
                         \/ _hsync_fence_event_cb(f)
    \/ CallbackPuts
    \/ hgsl_remove_context
    \/ Destroy

Spec == Init /\ [][Next]_vars

(***************************************************************************)
(* Fairness: threads inside a call, the retire worker and the events       *)
(* kthread run on; every queued callback gets its turn.  Nothing forces a  *)
(* submission, a retirement, a close or a destroy.                         *)
(***************************************************************************)
Fairness ==
    /\ WF_vars(ProcessEvents)
    /\ WF_vars(CallbackPuts)
    /\ WF_vars(Destroy)
    /\ \A f \in Fences : WF_vars(Create(f)) /\ SF_vars(_hsync_fence_event_cb(f))

FairSpec == Spec /\ Fairness

-----------------------------------------------------------------------------
\* What holds a fence: the list it is on, or nobody for the first reference of a
\* fence that was not linked; and the sync_file until it is closed, which it
\* never is when it got no descriptor.
RefsOf(f) ==
    (IF fence[f].on # "none" THEN 1 ELSE 0)
    + (IF fence[f].sf \in {"made", "open"} THEN 1 ELSE 0)

(***************************************************************************)
(* The timeline is counted exactly: by its context, by every fence that    *)
(* has a reference and by the callback in its signal call; and every fence *)
(* by its list and its sync_file.  So the timeline outlives all of them,   *)
(* and after the context only fences keep it: those user space has open,   *)
(* and for good those that had signalled when they were placed and those   *)
(* whose event could not be added.                                         *)
(***************************************************************************)
KrefExact ==
    /\ kref = (IF dpc = "gone" THEN 0 ELSE 1)
           + Cardinality({f \in Fences : fence[f].refs > 0})
           + (IF cb = NoCb THEN 0 ELSE 1)
    /\ \A f \in Fences : fence[f].refs = RefsOf(f)

TruthfulStep ==
    \A f \in Fences :
        ~fence[f].sig /\ fence'[f].sig /\ fence'[f].sf # "none"
            => hgsl_ts32_ge(eop, fence[f].ts) \/ ~in_table

(***************************************************************************)
(* A fence does not signal before its timestamp has retired, except when   *)
(* its context is being destroyed: although one signal signals everything  *)
(* up to its timestamp and new fences are measured against last_ts only.   *)
(***************************************************************************)
SignalTruthful == [][TruthfulStep]_vars

\* Two fences without an event that straddle the wrap of the timestamp.
WrapLeft == \E f \in OnList, g \in Fences :
               /\ fence[g].sf = "made" /\ fence[g].ts > fence[f].ts
               /\ hgsl_ts32_ge(fence[f].ts, fence[g].ts)

(***************************************************************************)
(* No fence is left behind on the list.  The timeline has not passed it,   *)
(* for hgsl_hsync_timeline_signal returns early from then on; its event is *)
(* still to call back if user space has its descriptor; and when the       *)
(* context is gone the list is empty, also of the fences whose event could *)
(* not be added, unless two of these straddle the wrap of the timestamp:   *)
(* hgsl_hsync_timeline_fini compares them as plain numbers.                *)
(***************************************************************************)
NoFenceLeft ==
    /\ \A f \in OnList : /\ ~hgsl_hsync_has_signaled(fence[f].ts)
                         /\ fence[f].sf \in {"open", "closed"} => fence[f].ev # "none"
    /\ \A f \in Fences : fence[f].sf \in {"open", "closed"} /\ ~fence[f].sig => f \in OnList
    /\ dpc = "gone" => OnList = {} \/ WrapLeft

\* An event that was linked behind the only flush of the group.
Stranded(f) == dpc = "spin" /\ f \in Listed

(***************************************************************************)
(* A fence user space has a descriptor of signals when its timestamp       *)
(* retires and also when its context is destroyed first, unless its event  *)
(* was added behind the flush (hgsl_ctxt_destroy then does not end).       *)
(***************************************************************************)
FenceSignals ==
    \A f \in Fences :
        (fence[f].sf = "open" /\ (~in_table \/ hgsl_ts32_ge(eop, fence[f].ts)))
            ~> (fence[f].sig \/ Stranded(f))
=============================================================================
