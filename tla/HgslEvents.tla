----------------------------- MODULE HgslEvents -----------------------------
(***************************************************************************)
(* The timestamp events of one context (hgsl_events.c) together with the   *)
(* life of that context (hgsl.c: hgsl_get_context, hgsl_put_context,       *)
(* hgsl_ctxt_destroy), because an event lives exactly as long as it can    *)
(* keep its context alive.                                                 *)
(*                                                                         *)
(* Actors: ioctl threads that register events (one per event), the GPU     *)
(* that writes the retired timestamp to shared memory, the retire worker   *)
(* that walks the context table, the events kthread that runs callbacks,   *)
(* and one thread inside hgsl_ctxt_destroy.  Steps are the code between    *)
(* two lock operations: group->lock, ctxt_lock and the kref are atomic.    *)
(*                                                                         *)
(* Modelled: contexts whose shadow timestamp memory is mapped.             *)
(***************************************************************************)
EXTENDS HgslTimestamp, FiniteSets

CONSTANTS
    Events,       \* struct hgsl_event allocations, each with its ioctl thread
    TsMode        \* how the context gets its timestamps

ASSUME TsModeAssumption == TsMode \in TsModes
ASSUME EventsAssumption == IsFiniteSet(Events)

VARIABLES
    queued_ts,    \* ctxt->queued_ts
    eop,          \* ctxt->shadow_ts->eop: the retired timestamp, GPU-written
    processed,    \* group->processed
    ev,           \* what became of each event
    kref,         \* ctxt->kref
    in_table,     \* hgsl->contexts[dev][id] points to the context
    retire_work,  \* ts_retire_work is queued
    irq,          \* the retire worker is between hgsl_get_context and its put
    dpc           \* program counter of hgsl_ctxt_destroy

vars == <<queued_ts, eop, processed, ev, kref, in_table, retire_work, irq, dpc>>

(***************************************************************************)
(* States of an event:                                                     *)
(*   "idle"     no event                                                   *)
(*   "got"      caller holds the context and is about to call add_event    *)
(*   "refused"  add_event failed, the caller has its reference to put      *)
(*   "checked"  allocated, holds its own context reference, not yet linked *)
(*   "listed"   on group->events                                           *)
(*   "work"     unlinked, its kthread_work queued on the events worker     *)
(* res is the result given to the callback, or the error of add_event.     *)
(* cl is its client, a timestamp sync point on this context: it holds a    *)
(* context reference while its pending bit is set ("pending"), and then    *)
(* whoever cleared the bit puts it: the callback, or syncobj_destroy, which *)
(* is "clearing" until it has cancelled the event.                         *)
(***************************************************************************)
EventState == {"idle", "got", "refused", "checked", "listed", "work"}
Result == {"none", "RETIRED", "CANCELLED", "EINVAL", "ENOMEM"}
Client == {"none", "pending", "clearing"}
Event == [st : EventState, ts : Ts, res : Result, cl : Client]
NoEvent == [st |-> "idle", ts |-> 0, res |-> "none", cl |-> "none"]

DestroyPc == {"none", "removed", "flushed", "worked", "spin", "deinit", "freed"}

Init ==
    /\ queued_ts = 0
    /\ eop = 0
    /\ processed = 0
    /\ ev = [e \in Events |-> NoEvent]
    /\ kref = 1
    /\ in_table = TRUE
    /\ retire_work = FALSE
    /\ irq = FALSE
    /\ dpc = "none"

-----------------------------------------------------------------------------
(* Timestamps: submission and retirement.                                  *)

\* A submission takes the next timestamp.  The commands in flight are assumed
\* to stay inside the comparison window (Half is 2^31 in the code).
Submit(user_ts) ==
    LET ts == hgsl_db_next_timestamp(TsMode, queued_ts, user_ts) IN
    /\ kref > 0
    /\ hgsl_db_next_timestamp_ok(TsMode, queued_ts, user_ts)
    /\ U32Sub(ts, eop) < Half
    /\ queued_ts' = ts
    /\ UNCHANGED <<eop, processed, ev, kref, in_table, retire_work, irq, dpc>>

\* The GPU retires some submitted timestamp and raises the interrupt, whose
\* handler queues ts_retire_work.  The interrupt is assumed to be served before
\* Half further timestamps retire.
GpuRetire(ts) ==
    /\ dpc # "freed"
    /\ ts # eop
    /\ hgsl_ts32_ge(ts, eop)
    /\ hgsl_ts32_ge(queued_ts, ts)
    /\ U32Sub(ts, processed) < Half
    /\ eop' = ts
    /\ retire_work' = TRUE
    /\ UNCHANGED <<queued_ts, processed, ev, kref, in_table, irq, dpc>>

-----------------------------------------------------------------------------
(* hgsl_add_event and its callers.                                         *)

\* hgsl_get_context under ctxt_lock: only a context in the table is found.
hgsl_get_context(e, ts) ==
    /\ ev[e].st = "idle" /\ ev[e].cl = "none"
    /\ in_table
    /\ ev' = [ev EXCEPT ![e] = [st |-> "got", ts |-> ts, res |-> "none", cl |-> "pending"]]
    /\ kref' = kref + 1
    /\ UNCHANGED <<queued_ts, eop, processed, in_table, retire_work, irq, dpc>>

\* The early returns of hgsl_add_event, before group->lock is taken: the
\* timestamp is refused, or the allocation fails (kmem_cache_alloc).
TsRefused(ts) == TsMode = "verbatim" /\ hgsl_ts32_ge(ts, queued_ts)

hgsl_add_event_refuse(e) ==
    /\ ev[e].st = "got"
    /\ TsRefused(ev[e].ts)
    /\ ev' = [ev EXCEPT ![e].st = "refused", ![e].res = "EINVAL"]
    /\ UNCHANGED <<queued_ts, eop, processed, kref, in_table, retire_work, irq, dpc>>

hgsl_add_event_nomem(e) ==
    /\ ev[e].st = "got"
    /\ ~TsRefused(ev[e].ts)
    /\ ev' = [ev EXCEPT ![e].st = "refused", ![e].res = "ENOMEM"]
    /\ UNCHANGED <<queued_ts, eop, processed, kref, in_table, retire_work, irq, dpc>>

\* Callers that got an error put the reference they took for the event.
PutAfterRefusal(e) ==
    /\ ev[e].st = "refused"
    /\ ev' = [ev EXCEPT ![e] = NoEvent]
    /\ kref' = kref - 1
    /\ UNCHANGED <<queued_ts, eop, processed, in_table, retire_work, irq, dpc>>

\* The event is allocated and takes a reference of its own.
hgsl_add_event_alloc(e) ==
    /\ ev[e].st = "got"
    /\ ~TsRefused(ev[e].ts)
    /\ ev' = [ev EXCEPT ![e].st = "checked"]
    /\ kref' = kref + 1
    /\ UNCHANGED <<queued_ts, eop, processed, in_table, retire_work, irq, dpc>>

\* The event with its work queued and its result set.
Signalled(x, res) == [st |-> "work", ts |-> x.ts, res |-> res, cl |-> x.cl]

\* Mutant: the event is linked without reading the retired timestamp again.
Mut_link_without_recheck(e) ==
    /\ ev[e].st = "checked"
    /\ ev' = [ev EXCEPT ![e].st = "listed"]
    /\ UNCHANGED <<queued_ts, eop, processed, kref, in_table, retire_work, irq, dpc>>

\* Under group->lock: fire at once when already retired, else link.
hgsl_add_event_link(e) ==
    /\ ev[e].st = "checked"
    /\ ev' = IF hgsl_ts32_ge(eop, ev[e].ts)
             THEN [ev EXCEPT ![e] = Signalled(ev[e], "RETIRED")]
             ELSE [ev EXCEPT ![e].st = "listed"]
    /\ UNCHANGED <<queued_ts, eop, processed, kref, in_table, retire_work, irq, dpc>>

-----------------------------------------------------------------------------
(* Signalling.                                                             *)

Listed == {e \in Events : ev[e].st = "listed"}

\* signal_event on the events of S.
signal_event(S, res) ==
    [e \in Events |-> IF e \in S THEN Signalled(ev[e], res) ELSE ev[e]]

\* Mutant: a flush cancels every event, the retired ones too.
Mut_flush_cancels_all(flush) ==
    LET retired == {e \in Listed : hgsl_ts32_ge(eop, ev[e].ts)}
    IN  IF ~flush /\ hgsl_ts32_ge(processed, eop)
        THEN UNCHANGED <<ev, processed>>
        ELSE /\ processed' = eop
             /\ ev' = IF flush THEN signal_event(Listed, "CANCELLED")
                      ELSE signal_event(retired, "RETIRED")

\* The body of _process_event_group under group->lock.
_process_event_group(flush) ==
    LET retired == {e \in Listed : hgsl_ts32_ge(eop, ev[e].ts)}
    IN  IF ~flush /\ hgsl_ts32_ge(processed, eop)
        THEN UNCHANGED <<ev, processed>>
        ELSE /\ processed' = eop
             /\ ev' = [e \in Events |->
                         IF e \in retired THEN Signalled(ev[e], "RETIRED")
                         ELSE IF flush /\ e \in Listed
                              THEN Signalled(ev[e], "CANCELLED")
                         ELSE ev[e]]

\* _signal_contexts, run by ts_retire_worker: look the context up in the table,
\* process its group, put it.  The interrupt may queue the work again meanwhile.
SignalGet ==
    /\ retire_work
    /\ ~irq
    /\ retire_work' = FALSE
    /\ irq' = in_table
    /\ kref' = IF in_table THEN kref + 1 ELSE kref
    /\ UNCHANGED <<queued_ts, eop, processed, ev, in_table, dpc>>

SignalProcess ==
    /\ irq
    /\ _process_event_group(FALSE)
    /\ irq' = FALSE
    /\ kref' = kref - 1
    /\ UNCHANGED <<queued_ts, eop, in_table, retire_work, dpc>>

\* syncobj_destroy, the only caller of hgsl_cancel_event, first claims the
\* pending bit of the sync point.
ClearPending(e) ==
    /\ ev[e].st \in {"listed", "work"}
    /\ ev[e].cl = "pending"
    /\ ev' = [ev EXCEPT ![e].cl = "clearing"]
    /\ UNCHANGED <<queued_ts, eop, processed, kref, in_table, retire_work, irq, dpc>>

\* Then it cancels the event, if it is still listed, and puts the context.
hgsl_cancel_event(e) ==
    /\ ev[e].cl = "clearing"
    /\ LET x == IF e \in Listed THEN Signalled(ev[e], "CANCELLED") ELSE ev[e]
       IN  ev' = [ev EXCEPT ![e] = [x EXCEPT !.cl = "none"]]
    /\ kref' = kref - 1
    /\ UNCHANGED <<queued_ts, eop, processed, in_table, retire_work, irq, dpc>>

\* Mutant: the callback puts the context whoever cleared the pending bit.
Mut_callback_always_puts(e) ==
    /\ ev[e].st = "work"
    /\ ev' = [ev EXCEPT ![e] = NoEvent]
    /\ kref' = kref - 2
    /\ UNCHANGED <<queued_ts, eop, processed, in_table, retire_work, irq, dpc>>

\* Mutant: the worker frees the event without putting the event's reference.
Mut_worker_leaks(e) ==
    /\ ev[e].st = "work"
    /\ IF ev[e].cl = "pending"
       THEN ev' = [ev EXCEPT ![e] = NoEvent] /\ kref' = kref - 1
       ELSE ev' = [ev EXCEPT ![e] = [NoEvent EXCEPT !.cl = ev[e].cl]] /\ UNCHANGED kref
    /\ UNCHANGED <<queued_ts, eop, processed, in_table, retire_work, irq, dpc>>

\* _hgsl_event_worker: the callback _timestamp_signaled puts its client's
\* reference if it is the one to clear the pending bit, the worker puts the
\* event's own, and the event is freed.
_hgsl_event_worker(e) ==
    /\ ev[e].st = "work"
    /\ IF ev[e].cl = "pending"
       THEN ev' = [ev EXCEPT ![e] = NoEvent] /\ kref' = kref - 2
       ELSE ev' = [ev EXCEPT ![e] = [NoEvent EXCEPT !.cl = ev[e].cl]] /\ kref' = kref - 1
    /\ UNCHANGED <<queued_ts, eop, processed, in_table, retire_work, irq, dpc>>

-----------------------------------------------------------------------------
(* hgsl_ctxt_destroy and hgsl_ctxt_detach_drawobjs.                        *)

\* hgsl_remove_context clears the table entry; in_destroy is set; detach takes
\* a reference of its own.
hgsl_remove_context ==
    /\ dpc = "none"
    /\ in_table
    /\ in_table' = FALSE
    /\ kref' = kref + 1
    /\ dpc' = "removed"
    /\ UNCHANGED <<queued_ts, eop, processed, ev, retire_work, irq>>

hgsl_flush_event_group ==
    /\ dpc = "removed"
    /\ _process_event_group(TRUE)
    /\ dpc' = "flushed"
    /\ UNCHANGED <<queued_ts, eop, kref, in_table, retire_work, irq>>

\* Timestamps of the draw objects still queued when `last' is the newest one
\* given to the GPU; sync and timeline objects carry timestamp 0.
DroppedTs(last, has_zero) ==
    {ts \in Ts : ts # last /\ hgsl_ts32_ge(ts, last) /\ hgsl_ts32_ge(queued_ts, ts)}
        \cup (IF has_zero THEN {0} ELSE {})

\* The queued draw objects are dropped, and events registered on exactly
\* their timestamps are cancelled.
hgsl_cancel_events_timestamp(S) ==
    /\ dpc = "flushed"
    /\ ev' = signal_event({e \in Listed : ev[e].ts \in S}, "CANCELLED")
    /\ dpc' = "worked"
    /\ UNCHANGED <<queued_ts, eop, processed, kref, in_table, retire_work, irq>>

\* If the context ever had a dispatcher its work is scheduled and flushed,
\* which processes the group once more.  Then detach puts its reference and
\* hgsl_ctxt_destroy the one of the table.
DetachWorkAndPut(dispatch) ==
    /\ dpc = "worked"
    /\ IF dispatch THEN _process_event_group(FALSE) ELSE UNCHANGED <<ev, processed>>
    /\ kref' = kref - 2
    /\ dpc' = "spin"
    /\ UNCHANGED <<queued_ts, eop, in_table, retire_work, irq>>

\* Mutant: the context is freed without waiting for the last reference.
Mut_no_spin ==
    /\ dpc = "spin"
    /\ dpc' = "deinit"
    /\ UNCHANGED <<queued_ts, eop, processed, ev, kref, in_table, retire_work, irq>>

\* while (!ctxt->destroyed) cpu_relax(): _destroy_context ran at the last put.
SpinUntilDestroyed ==
    /\ dpc = "spin"
    /\ kref = 0
    /\ dpc' = "deinit"
    /\ UNCHANGED <<queued_ts, eop, processed, ev, kref, in_table, retire_work, irq>>

\* hgsl_dispatch_ctxt_deinit unlinks the event group; then hgsl_free(ctxt).
FreeContext ==
    /\ dpc = "deinit"
    /\ dpc' = "freed"
    /\ UNCHANGED <<queued_ts, eop, processed, ev, kref, in_table, retire_work, irq>>

-----------------------------------------------------------------------------
AddEvent(e) ==
    \/ \E ts \in Ts : hgsl_get_context(e, ts)
    \/ hgsl_add_event_refuse(e)
    \/ hgsl_add_event_nomem(e)
    \/ PutAfterRefusal(e)
    \/ hgsl_add_event_alloc(e)
    \/ hgsl_add_event_link(e)

Destroy ==
    \/ hgsl_remove_context
    \/ hgsl_flush_event_group
    \/ \E last \in Ts, has_zero \in BOOLEAN :
          /\ hgsl_ts32_ge(last, eop)
          /\ hgsl_cancel_events_timestamp(DroppedTs(last, has_zero))
    \/ \E dispatch \in BOOLEAN : DetachWorkAndPut(dispatch)
    \/ SpinUntilDestroyed
    \/ FreeContext

Next ==
    \/ \E ts \in Ts : Submit(ts) \/ GpuRetire(ts)
    \/ \E e \in Events : \/ AddEvent(e)
                         \/ ClearPending(e)
                         \/ hgsl_cancel_event(e)
                         \/ _hgsl_event_worker(e)
    \/ SignalGet
    \/ SignalProcess
    \/ Destroy

Spec == Init /\ [][Next]_vars

(***************************************************************************)
(* Fairness: workers run the work that is queued on them, and a thread     *)
(* inside an ioctl runs on.  Nothing forces a client to register, cancel   *)
(* or destroy, and nothing forces the GPU to retire.                       *)
(***************************************************************************)
Fairness ==
    /\ WF_vars(SignalGet)
    /\ WF_vars(SignalProcess)
    /\ \A e \in Events :
          /\ WF_vars(_hgsl_event_worker(e))
          /\ WF_vars(hgsl_add_event_refuse(e) \/ hgsl_add_event_alloc(e))
          /\ WF_vars(PutAfterRefusal(e))
          /\ WF_vars(hgsl_add_event_link(e))
          /\ WF_vars(hgsl_cancel_event(e))
    /\ WF_vars(Destroy /\ dpc # "none")

FairSpec == Spec /\ Fairness

-----------------------------------------------------------------------------
TypeOK ==
    /\ queued_ts \in Ts
    /\ eop \in Ts
    /\ processed \in Ts
    /\ ev \in [Events -> Event]
    /\ kref \in Nat
    /\ in_table \in BOOLEAN
    /\ retire_work \in BOOLEAN
    /\ irq \in BOOLEAN
    /\ dpc \in DestroyPc

(***************************************************************************)
(* No wake-up is lost: when a linked event's timestamp has retired, the    *)
(* next _process_event_group does not take its early return (processed at  *)
(* or after retired), so the event is signalled.  This is what registering *)
(* under group->lock and re-reading the retired timestamp there is for.    *)
(***************************************************************************)
NoLostEvent ==
    \A e \in Listed : hgsl_ts32_ge(eop, ev[e].ts) => ~hgsl_ts32_ge(processed, eop)

\* Events whose client holds a context reference for them, and events that
\* hold a reference of their own.
ClientHeld == {e \in Events : ev[e].cl # "none"}
EventHeld == {e \in Events : ev[e].st \in {"checked", "listed", "work"}}

(***************************************************************************)
(* kref is exact: it counts the table entry, detach's own reference, the   *)
(* retire worker's and one or two per event in flight.  So no path of      *)
(* add, refuse, signal, cancel or destroy leaks or double-puts the context,*)
(* even when a callback races the cancellation of its sync point.          *)
(***************************************************************************)
KrefExact ==
    kref = Cardinality(ClientHeld) + Cardinality(EventHeld)
           + (IF dpc \in {"none", "removed", "flushed", "worked"} THEN 1 ELSE 0)
           + (IF dpc \in {"removed", "flushed", "worked"} THEN 1 ELSE 0)
           + (IF irq THEN 1 ELSE 0)

(***************************************************************************)
(* The context is freed only when nobody can touch it again: no event of   *)
(* it is registered or has its callback pending, no retire worker is in    *)
(* its group, and its event list is empty (the WARN_ON of                  *)
(* hgsl_del_event_group).                                                  *)
(***************************************************************************)
NoUseAfterFree ==
    dpc \in {"deinit", "freed"} =>
        ~irq /\ \A e \in Events : ev[e].st = "idle" /\ ev[e].cl = "none"

TruthfulStep ==
    \A e \in Events :
        ev[e].st \in {"checked", "listed"} /\ ev'[e].st = "work"
          => /\ ev'[e].res = "RETIRED" => hgsl_ts32_ge(eop, ev[e].ts)
             /\ dpc' = "flushed" /\ dpc = "removed" /\ ev'[e].res = "CANCELLED"
                  => ~hgsl_ts32_ge(eop, ev[e].ts)

(***************************************************************************)
(* A callback is told RETIRED only for a timestamp that has retired, and   *)
(* CANCELLED only when it was given up: an event that has retired when the *)
(* context is destroyed is still reported as retired.                      *)
(***************************************************************************)
ResultTruthful == [][TruthfulStep]_vars

(***************************************************************************)
(* An event whose timestamp has retired while its context is in the table  *)
(* gets its callback, whatever registers, retires or is destroyed meanwhile.*)
(***************************************************************************)
RetiredEventDelivered ==
    \A e \in Events :
        (ev[e].st = "listed" /\ in_table /\ hgsl_ts32_ge(eop, ev[e].ts))
            ~> (ev[e].st = "idle")

\* An event that was linked after the group was flushed.
Stranded == dpc = "spin" /\ Listed # {}

(***************************************************************************)
(* hgsl_ctxt_destroy, which busy-waits for the last reference, terminates  *)
(* unless some event was linked behind the flush.                          *)
(***************************************************************************)
DestroyTerminates == (dpc # "none") ~> (dpc = "freed" \/ Stranded)

=============================================================================
