-------------------------- MODULE HgslEventsProof --------------------------
(***************************************************************************)
(* Proofs about HgslEvents, for every number of events, every width of the *)
(* timestamp word and every timestamp mode.                                *)
(*                                                                         *)
(* NoLostEvent is not inductive: it needs Window, which says that the last *)
(* processed timestamp trails the retired one by less than half the range  *)
(* and that a pass that has caught up left nothing retired on the list.    *)
(* NoUseAfterFree needs the exact count of references, Refs.               *)
(***************************************************************************)
EXTENDS HgslEvents, FiniteSetTheorems, TLAPS

\* An event on its way into the group has a client that holds the context.
EventI == {x \in Event : x.st \in {"got", "refused", "checked"} => x.cl = "pending"}

\* TypeOK without the reference count, which Refs bounds.
TypeI ==
    /\ queued_ts \in Ts
    /\ eop \in Ts
    /\ processed \in Ts
    /\ ev \in [Events -> EventI]
    /\ in_table \in BOOLEAN
    /\ retire_work \in BOOLEAN
    /\ irq \in BOOLEAN
    /\ dpc \in DestroyPc

Window ==
    /\ U32Sub(eop, processed) < Half
    /\ \A e \in Listed : processed = eop => ~hgsl_ts32_ge(eop, ev[e].ts)

Refs ==
    /\ KrefExact
    /\ in_table <=> dpc = "none"
    /\ dpc \in {"deinit", "freed"} => kref = 0

IInv == TypeI /\ Window /\ Refs

-----------------------------------------------------------------------------
(* Timestamps.                                                             *)

\* The driver's next timestamp is a timestamp.
LEMMA NextTsType ==
    ASSUME NEW q \in Ts, NEW ts \in Ts
    PROVE  hgsl_db_next_timestamp(TsMode, q, ts) \in Ts
BY HalfAssumption DEF hgsl_db_next_timestamp, DriverTs, Ts, TsMod, UINT_MAX

\* Two timestamps that are each inside the other's window are equal.
LEMMA WindowAntisymmetric ==
    ASSUME NEW a \in Ts, NEW b \in Ts, hgsl_ts32_ge(a, b), hgsl_ts32_ge(b, a)
    PROVE  a = b
BY HalfAssumption DEF hgsl_ts32_ge, U32Sub, Ts, TsMod

-----------------------------------------------------------------------------
(* Types.                                                                  *)

\* What one pass over the group leaves has its type.
LEMMA ProcessType ==
    ASSUME TypeI, NEW flush \in BOOLEAN, _process_event_group(flush)
    PROVE  processed' \in Ts /\ ev' \in [Events -> EventI]
<1>1. CASE UNCHANGED <<ev, processed>>
  BY <1>1 DEF TypeI
<1>2. CASE ~UNCHANGED <<ev, processed>>
  <2>1. processed' = eop
    BY <1>2 DEF _process_event_group
  <2>2. ASSUME NEW e \in Events PROVE ev'[e] \in EventI
    <3>1. ev[e] \in EventI
      BY DEF TypeI
    <3>2. \/ ev'[e] = ev[e]
          \/ ev'[e] = Signalled(ev[e], "RETIRED")
          \/ ev'[e] = Signalled(ev[e], "CANCELLED")
      BY <1>2 DEF _process_event_group
    <3>3. QED BY <3>1, <3>2 DEF Signalled, EventI, Event, EventState, Result
  <2>3. ev' = [e \in Events |-> ev'[e]]
    BY <1>2 DEF _process_event_group
  <2>4. QED BY <2>1, <2>2, <2>3 DEF TypeI
<1>3. QED BY <1>1, <1>2

\* Every action keeps the types.
LEMMA TypeStep == TypeI /\ [Next]_vars => TypeI'
<1> SUFFICES ASSUME TypeI, [Next]_vars PROVE TypeI'
  OBVIOUS
<1> USE DEF TypeI, Signalled, EventI, Event, EventState, Result, Client, NoEvent, DestroyPc
<1>1. CASE UNCHANGED vars
  BY <1>1 DEF vars
<1>2. ASSUME NEW ts \in Ts, Submit(ts) PROVE TypeI'
  BY <1>2, NextTsType DEF Submit
<1>3. ASSUME NEW ts \in Ts, GpuRetire(ts) PROVE TypeI'
  BY <1>3 DEF GpuRetire
<1>4. ASSUME NEW e \in Events, AddEvent(e) PROVE TypeI'
  <2>1. ASSUME NEW ts \in Ts, hgsl_get_context(e, ts) PROVE TypeI'
    BY <2>1 DEF hgsl_get_context
  <2>2. CASE hgsl_add_event_refuse(e)
    <3>1. ev[e] \in EventI /\ ev[e].st = "got"
      BY <2>2 DEF hgsl_add_event_refuse
    <3>2. [ev[e] EXCEPT !.st = "refused", !.res = "EINVAL"] \in EventI
      BY <3>1
    <3>3. ev' = [ev EXCEPT ![e] = [ev[e] EXCEPT !.st = "refused", !.res = "EINVAL"]]
      BY <2>2 DEF hgsl_add_event_refuse
    <3>4. ev' \in [Events -> EventI]
      <4> HIDE DEF EventI
      <4> QED BY <3>2, <3>3
    <3>5. QED BY <2>2, <3>4 DEF hgsl_add_event_refuse
  <2>3. CASE hgsl_add_event_nomem(e)
    <3>1. ev[e] \in EventI /\ ev[e].st = "got"
      BY <2>3 DEF hgsl_add_event_nomem
    <3>2. [ev[e] EXCEPT !.st = "refused", !.res = "ENOMEM"] \in EventI
      BY <3>1
    <3>3. ev' = [ev EXCEPT ![e] = [ev[e] EXCEPT !.st = "refused", !.res = "ENOMEM"]]
      BY <2>3 DEF hgsl_add_event_nomem
    <3>4. ev' \in [Events -> EventI]
      <4> HIDE DEF EventI
      <4> QED BY <3>2, <3>3
    <3>5. QED BY <2>3, <3>4 DEF hgsl_add_event_nomem
  <2>4. CASE PutAfterRefusal(e)
    <3>1. 0 \in Ts
      BY HalfAssumption DEF Ts, TsMod
    <3>2. QED BY <2>4, <3>1 DEF PutAfterRefusal
  <2>5. CASE hgsl_add_event_alloc(e)
    BY <2>5 DEF hgsl_add_event_alloc
  <2>6. CASE hgsl_add_event_link(e)
    BY <2>6 DEF hgsl_add_event_link
  <2>7. QED BY <1>4, <2>1, <2>2, <2>3, <2>4, <2>5, <2>6 DEF AddEvent
<1>5. ASSUME NEW e \in Events, ClearPending(e) \/ hgsl_cancel_event(e) PROVE TypeI'
  <2>1. CASE ClearPending(e)
    BY <2>1 DEF ClearPending
  <2>2. CASE hgsl_cancel_event(e)
    BY <2>2 DEF hgsl_cancel_event, Listed
  <2>3. QED BY <1>5, <2>1, <2>2
<1>6. ASSUME NEW e \in Events, _hgsl_event_worker(e) PROVE TypeI'
  <2>1. 0 \in Ts
    BY HalfAssumption DEF Ts, TsMod
  <2>2. QED BY <1>6, <2>1 DEF _hgsl_event_worker
<1>7. CASE SignalGet
  BY <1>7 DEF SignalGet
<1>8. CASE SignalProcess
  <2>1. processed' \in Ts /\ ev' \in [Events -> EventI]
    BY <1>8, ProcessType DEF SignalProcess
  <2>2. QED BY <1>8, <2>1 DEF SignalProcess
<1>9. CASE Destroy
  <2>1. CASE hgsl_remove_context
    BY <2>1 DEF hgsl_remove_context
  <2>2. CASE hgsl_flush_event_group
    <3>1. processed' \in Ts /\ ev' \in [Events -> EventI]
      BY <2>2, ProcessType DEF hgsl_flush_event_group
    <3>2. QED BY <2>2, <3>1 DEF hgsl_flush_event_group
  <2>3. ASSUME NEW S, hgsl_cancel_events_timestamp(S) PROVE TypeI'
    BY <2>3 DEF hgsl_cancel_events_timestamp, signal_event, Listed
  <2>4. ASSUME NEW d \in BOOLEAN, DetachWorkAndPut(d) PROVE TypeI'
    <3>1. processed' \in Ts /\ ev' \in [Events -> EventI]
      BY <2>4, ProcessType DEF DetachWorkAndPut
    <3>2. QED BY <2>4, <3>1 DEF DetachWorkAndPut
  <2>5. CASE SpinUntilDestroyed
    BY <2>5 DEF SpinUntilDestroyed
  <2>6. CASE FreeContext
    BY <2>6 DEF FreeContext
  <2>7. QED BY <1>9, <2>1, <2>2, <2>3, <2>4, <2>5, <2>6 DEF Destroy
<1>10. QED BY <1>1, <1>2, <1>3, <1>4, <1>5, <1>6, <1>7, <1>8, <1>9 DEF Next

-----------------------------------------------------------------------------
(* The window: no wake-up is lost.                                         *)

\* A step that reads nothing retired and links nothing keeps the window.
LEMMA ShrinkKeepsWindow ==
    ASSUME Window, eop' = eop, processed' = processed,
           \A e \in Events : ev'[e].st = "listed"
                                => ev[e].st = "listed" /\ ev'[e].ts = ev[e].ts
    PROVE  Window'
BY DEF Window, Listed, hgsl_ts32_ge, U32Sub

\* One pass over the group, the early return included, keeps the window.
LEMMA ProcessKeepsWindow ==
    ASSUME TypeI, Window, NEW flush \in BOOLEAN, _process_event_group(flush),
           eop' = eop
    PROVE  Window'
<1>1. CASE UNCHANGED <<ev, processed>>
  BY <1>1, ShrinkKeepsWindow
<1>2. CASE ~UNCHANGED <<ev, processed>>
  <2>1. processed' = eop
    BY <1>2 DEF _process_event_group
  <2>2. U32Sub(eop', processed') < Half
    BY <2>1, HalfAssumption DEF U32Sub, TypeI, Ts, TsMod
  <2>3. ASSUME NEW e \in Events, ev'[e].st = "listed"
        PROVE  ~hgsl_ts32_ge(eop, ev'[e].ts)
    <3>1. e \notin {x \in Listed : hgsl_ts32_ge(eop, ev[x].ts)} /\ ev'[e] = ev[e]
      BY <1>2, <2>3 DEF _process_event_group, Signalled
    <3>2. QED BY <2>3, <3>1 DEF Listed
  <2>4. QED BY <2>2, <2>3 DEF Window, Listed, hgsl_ts32_ge, U32Sub
<1>3. QED BY <1>1, <1>2

\* Every action keeps the window, GPU retirement included.
LEMMA WindowStep == TypeI /\ Window /\ [Next]_vars => Window'
<1> SUFFICES ASSUME TypeI, Window, [Next]_vars PROVE Window'
  OBVIOUS
<1>1. CASE UNCHANGED vars
  BY <1>1, ShrinkKeepsWindow DEF vars
<1>2. ASSUME NEW ts \in Ts, Submit(ts) PROVE Window'
  BY <1>2, ShrinkKeepsWindow DEF Submit
<1>3. ASSUME NEW ts \in Ts, GpuRetire(ts) PROVE Window'
  <2>1. U32Sub(eop', processed') < Half
    BY <1>3 DEF GpuRetire, U32Sub
  <2>2. processed' # eop'
    <3>1. SUFFICES ASSUME processed = ts PROVE FALSE
      BY <1>3 DEF GpuRetire
    <3>2. hgsl_ts32_ge(eop, ts) /\ hgsl_ts32_ge(ts, eop)
      BY <1>3, <3>1 DEF GpuRetire, Window, hgsl_ts32_ge
    <3>3. QED BY <1>3, <3>2, WindowAntisymmetric DEF GpuRetire, TypeI
  <2>3. QED BY <2>1, <2>2 DEF Window
<1>4. ASSUME NEW e \in Events, AddEvent(e) PROVE Window'
  <2>1. ASSUME NEW ts \in Ts, hgsl_get_context(e, ts) PROVE Window'
    BY <2>1, ShrinkKeepsWindow DEF hgsl_get_context, NoEvent, TypeI
  <2>2. CASE hgsl_add_event_refuse(e)
    BY <2>2, ShrinkKeepsWindow DEF hgsl_add_event_refuse, TypeI
  <2>3. CASE hgsl_add_event_nomem(e)
    BY <2>3, ShrinkKeepsWindow DEF hgsl_add_event_nomem, TypeI
  <2>4. CASE PutAfterRefusal(e)
    BY <2>4, ShrinkKeepsWindow DEF PutAfterRefusal, NoEvent, TypeI
  <2>5. CASE hgsl_add_event_alloc(e)
    BY <2>5, ShrinkKeepsWindow DEF hgsl_add_event_alloc, TypeI
  <2>6. CASE hgsl_add_event_link(e)
    <3>1. CASE hgsl_ts32_ge(eop, ev[e].ts)
      BY <2>6, <3>1, ShrinkKeepsWindow DEF hgsl_add_event_link, Signalled, TypeI
    <3>2. CASE ~hgsl_ts32_ge(eop, ev[e].ts)
      <4>1. \A x \in Events : ev'[x].ts = ev[x].ts
                              /\ (x # e => ev'[x] = ev[x])
        BY <2>6, <3>2 DEF hgsl_add_event_link, TypeI, Event
      <4>2. eop' = eop /\ processed' = processed
        BY <2>6 DEF hgsl_add_event_link
      <4>3. QED BY <3>2, <4>1, <4>2 DEF Window, Listed, hgsl_ts32_ge, U32Sub
    <3>3. QED BY <3>1, <3>2
  <2>7. QED BY <1>4, <2>1, <2>2, <2>3, <2>4, <2>5, <2>6 DEF AddEvent
<1>5. ASSUME NEW e \in Events, ClearPending(e) \/ hgsl_cancel_event(e) PROVE Window'
  <2>1. CASE ClearPending(e)
    BY <2>1, ShrinkKeepsWindow DEF ClearPending, TypeI, EventI, Event
  <2>2. CASE hgsl_cancel_event(e)
    BY <2>2, ShrinkKeepsWindow DEF hgsl_cancel_event, Listed, Signalled, TypeI, EventI, Event
  <2>3. QED BY <1>5, <2>1, <2>2
<1>6. ASSUME NEW e \in Events, _hgsl_event_worker(e) PROVE Window'
  BY <1>6, ShrinkKeepsWindow DEF _hgsl_event_worker, NoEvent, TypeI
<1>7. CASE SignalGet
  BY <1>7, ShrinkKeepsWindow DEF SignalGet
<1>8. CASE SignalProcess
  BY <1>8, ProcessKeepsWindow DEF SignalProcess
<1>9. CASE Destroy
  <2>1. CASE hgsl_remove_context
    BY <2>1, ShrinkKeepsWindow DEF hgsl_remove_context
  <2>2. CASE hgsl_flush_event_group
    BY <2>2, ProcessKeepsWindow DEF hgsl_flush_event_group
  <2>3. ASSUME NEW S, hgsl_cancel_events_timestamp(S) PROVE Window'
    BY <2>3, ShrinkKeepsWindow
       DEF hgsl_cancel_events_timestamp, signal_event, Signalled
  <2>4. ASSUME NEW d \in BOOLEAN, DetachWorkAndPut(d) PROVE Window'
    BY <2>4, ProcessKeepsWindow, ShrinkKeepsWindow DEF DetachWorkAndPut
  <2>5. CASE SpinUntilDestroyed
    BY <2>5, ShrinkKeepsWindow DEF SpinUntilDestroyed
  <2>6. CASE FreeContext
    BY <2>6, ShrinkKeepsWindow DEF FreeContext
  <2>7. QED BY <1>9, <2>1, <2>2, <2>3, <2>4, <2>5, <2>6 DEF Destroy
<1>10. QED BY <1>1, <1>2, <1>3, <1>4, <1>5, <1>6, <1>7, <1>8, <1>9 DEF Next

-----------------------------------------------------------------------------
(* The reference count.                                                    *)

\* References of the table entry, of detach and of the retire worker.
Others(pc, worker) ==
    (IF pc \in {"none", "removed", "flushed", "worked"} THEN 1 ELSE 0)
    + (IF pc \in {"removed", "flushed", "worked"} THEN 1 ELSE 0)
    + (IF worker THEN 1 ELSE 0)

\* The sets of reference holders are finite.
LEMMA HeldFinite ==
    /\ IsFiniteSet(ClientHeld) /\ Cardinality(ClientHeld) \in Nat
    /\ IsFiniteSet(EventHeld) /\ Cardinality(EventHeld) \in Nat
<1>1. ClientHeld \in SUBSET Events /\ EventHeld \in SUBSET Events
  BY DEF ClientHeld, EventHeld
<1>2. IsFiniteSet(ClientHeld) /\ IsFiniteSet(EventHeld)
  BY <1>1, EventsAssumption, FS_Subset
<1>3. QED BY <1>2, FS_CardinalityType

\* KrefExact with the references outside the events as one term.
LEMMA KrefIs ==
    KrefExact <=> kref = Cardinality(ClientHeld) + Cardinality(EventHeld)
                         + Others(dpc, irq)
BY HeldFinite DEF KrefExact, Others

\* Events change hands without a reference moving when their held sets stay.
LEMMA SameHeld ==
    ASSUME \A e \in Events :
              /\ ev'[e].cl = ev[e].cl
              /\ ev'[e].st \in {"checked", "listed", "work"}
                    <=> ev[e].st \in {"checked", "listed", "work"}
    PROVE  ClientHeld' = ClientHeld /\ EventHeld' = EventHeld
BY DEF ClientHeld, EventHeld

\* One pass over the group moves no reference.
LEMMA ProcessSameHeld ==
    ASSUME TypeI, NEW flush \in BOOLEAN, _process_event_group(flush)
    PROVE  ClientHeld' = ClientHeld /\ EventHeld' = EventHeld
<1>1. CASE UNCHANGED <<ev, processed>>
  BY <1>1 DEF ClientHeld, EventHeld
<1>2. CASE ~UNCHANGED <<ev, processed>>
  <2>1. ASSUME NEW e \in Events
        PROVE ev'[e] = ev[e] \/ (/\ ev[e].st = "listed" /\ ev'[e].st = "work"
                                 /\ ev'[e].cl = ev[e].cl)
    BY <1>2 DEF _process_event_group, Listed, Signalled, TypeI, EventI, Event
  <2>2. QED BY <2>1, SameHeld
<1>3. QED BY <1>1, <1>2

\* The counts after a step that moves one event across the two sets.
LEMMA MoveOne ==
    ASSUME NEW e \in Events, TypeI,
           ev' \in [Events -> EventI],
           \A x \in Events : x # e => ev'[x] = ev[x]
    PROVE  /\ Cardinality(ClientHeld') = Cardinality(ClientHeld)
                - (IF ev[e].cl # "none" THEN 1 ELSE 0)
                + (IF ev'[e].cl # "none" THEN 1 ELSE 0)
           /\ Cardinality(EventHeld') = Cardinality(EventHeld)
                - (IF ev[e].st \in {"checked", "listed", "work"} THEN 1 ELSE 0)
                + (IF ev'[e].st \in {"checked", "listed", "work"} THEN 1 ELSE 0)
<1>1. IsFiniteSet(ClientHeld \ {e}) /\ IsFiniteSet(EventHeld \ {e})
      /\ Cardinality(ClientHeld \ {e}) = Cardinality(ClientHeld)
                - (IF ev[e].cl # "none" THEN 1 ELSE 0)
      /\ Cardinality(EventHeld \ {e}) = Cardinality(EventHeld)
                - (IF ev[e].st \in {"checked", "listed", "work"} THEN 1 ELSE 0)
  <2>1. e \in ClientHeld <=> ev[e].cl # "none"
    BY DEF ClientHeld
  <2>2. e \in EventHeld <=> ev[e].st \in {"checked", "listed", "work"}
    BY DEF EventHeld
  <2>3. /\ IsFiniteSet(ClientHeld \ {e})
        /\ Cardinality(ClientHeld \ {e}) = IF e \in ClientHeld THEN Cardinality(ClientHeld) - 1
                                          ELSE Cardinality(ClientHeld)
    BY HeldFinite, FS_RemoveElement
  <2>4. /\ IsFiniteSet(EventHeld \ {e})
        /\ Cardinality(EventHeld \ {e}) = IF e \in EventHeld THEN Cardinality(EventHeld) - 1
                                         ELSE Cardinality(EventHeld)
    BY HeldFinite, FS_RemoveElement
  <2>5. QED BY <2>1, <2>2, <2>3, <2>4, HeldFinite
<1>2. ClientHeld' = IF ev'[e].cl # "none" THEN (ClientHeld \ {e}) \cup {e}
                                          ELSE ClientHeld \ {e}
  BY DEF ClientHeld
<1>3. EventHeld' = IF ev'[e].st \in {"checked", "listed", "work"}
                   THEN (EventHeld \ {e}) \cup {e} ELSE EventHeld \ {e}
  BY DEF EventHeld
<1>4. Cardinality((ClientHeld \ {e}) \cup {e}) = Cardinality(ClientHeld \ {e}) + 1
      /\ Cardinality((EventHeld \ {e}) \cup {e}) = Cardinality(EventHeld \ {e}) + 1
  BY <1>1, FS_AddElement
<1>5. QED BY <1>1, <1>2, <1>3, <1>4, HeldFinite

\* A step that moves no reference between events and none of the others.
LEMMA StillRefs ==
    ASSUME Refs, ClientHeld' = ClientHeld, EventHeld' = EventHeld,
           kref' = kref, irq' = irq, in_table' = in_table, dpc' = dpc
    PROVE  Refs'
BY DEF Refs, KrefExact

\* Once the context is being freed nobody holds it.
LEMMA FreedHeldByNone ==
    ASSUME TypeI, Refs, kref = 0
    PROVE  ~irq /\ \A e \in Events : ev[e].st = "idle" /\ ev[e].cl = "none"
<1>0. Others(dpc, irq) \in Nat
  BY DEF Others
<1>1. /\ Cardinality(ClientHeld) = 0 /\ Cardinality(EventHeld) = 0
      /\ Others(dpc, irq) = 0
  BY <1>0, HeldFinite, KrefIs DEF Refs
<1>2. ClientHeld = {} /\ EventHeld = {}
  BY <1>1, HeldFinite, FS_EmptySet
<1>3. ASSUME NEW e \in Events PROVE ev[e].st = "idle" /\ ev[e].cl = "none"
  BY <1>2 DEF ClientHeld, EventHeld, TypeI, EventI, Event, EventState
<1>4. QED BY <1>1, <1>3 DEF Others

\* A step of one event that moves only that event's references.
LEMMA EventStepRefs ==
    ASSUME NEW e \in Events, TypeI, Refs,
           ev' \in [Events -> EventI],
           \A x \in Events : x # e => ev'[x] = ev[x],
           kref' = kref - (IF ev[e].cl # "none" THEN 1 ELSE 0)
                        + (IF ev'[e].cl # "none" THEN 1 ELSE 0)
                        - (IF ev[e].st \in {"checked", "listed", "work"} THEN 1 ELSE 0)
                        + (IF ev'[e].st \in {"checked", "listed", "work"} THEN 1 ELSE 0),
           ev[e].st = "idle" /\ ev[e].cl = "none" => in_table,
           irq' = irq, in_table' = in_table, dpc' = dpc
    PROVE  Refs'
<1>1. kref' = Cardinality(ClientHeld') + Cardinality(EventHeld') + Others(dpc', irq')
  BY MoveOne, HeldFinite, KrefIs DEF Refs, Others
<1>2. Cardinality(ClientHeld') \in Nat /\ Cardinality(EventHeld') \in Nat
  <2>1. ClientHeld' \in SUBSET Events /\ EventHeld' \in SUBSET Events
    BY DEF ClientHeld, EventHeld
  <2>2. IsFiniteSet(ClientHeld') /\ IsFiniteSet(EventHeld')
    BY <2>1, EventsAssumption, FS_Subset
  <2>3. QED BY <2>2, FS_CardinalityType
<1>3. KrefExact'
  BY <1>1, <1>2 DEF KrefExact, Others
<1>4. kref = 0 => ev[e].st = "idle" /\ ev[e].cl = "none"
  BY FreedHeldByNone
<1>5. QED BY <1>3, <1>4 DEF Refs

\* Every action keeps the count of references exact.
LEMMA RefsStep == TypeI /\ Refs /\ [Next]_vars => Refs'
<1> SUFFICES ASSUME TypeI, Refs, [Next]_vars PROVE Refs'
  OBVIOUS
<1>t. TypeI'
  BY TypeStep
<1>k. kref \in Int
  BY HeldFinite, KrefIs DEF Refs, Others
<1>1. CASE UNCHANGED vars
  BY <1>1, StillRefs DEF vars, ClientHeld, EventHeld
<1>2. ASSUME NEW ts \in Ts, Submit(ts) PROVE Refs'
  BY <1>2, StillRefs DEF Submit, ClientHeld, EventHeld
<1>3. ASSUME NEW ts \in Ts, GpuRetire(ts) PROVE Refs'
  BY <1>3, StillRefs DEF GpuRetire, ClientHeld, EventHeld
<1>4. ASSUME NEW e \in Events, AddEvent(e) PROVE Refs'
  <2>1. ASSUME NEW ts \in Ts, hgsl_get_context(e, ts) PROVE Refs'
    BY <1>t, <1>k, <2>1, EventStepRefs DEF hgsl_get_context, NoEvent, TypeI
  <2>2. CASE hgsl_add_event_refuse(e)
    BY <1>t, <1>k, <2>2, EventStepRefs DEF hgsl_add_event_refuse, TypeI
  <2>3. CASE hgsl_add_event_nomem(e)
    BY <1>t, <1>k, <2>3, EventStepRefs DEF hgsl_add_event_nomem, TypeI
  <2>4. CASE PutAfterRefusal(e)
    <3>1. ev[e].cl = "pending"
      BY <2>4 DEF PutAfterRefusal, TypeI, EventI
    <3>2. QED BY <1>t, <1>k, <2>4, <3>1, EventStepRefs DEF PutAfterRefusal, NoEvent, TypeI
  <2>5. CASE hgsl_add_event_alloc(e)
    BY <1>t, <1>k, <2>5, EventStepRefs DEF hgsl_add_event_alloc, TypeI
  <2>6. CASE hgsl_add_event_link(e)
    BY <1>t, <1>k, <2>6, EventStepRefs DEF hgsl_add_event_link, Signalled, TypeI
  <2>7. QED BY <1>4, <2>1, <2>2, <2>3, <2>4, <2>5, <2>6 DEF AddEvent
<1>5. ASSUME NEW e \in Events, ClearPending(e) \/ hgsl_cancel_event(e) PROVE Refs'
  <2>1. CASE ClearPending(e)
    BY <1>t, <1>k, <2>1, EventStepRefs DEF ClearPending, TypeI, EventI, Event
  <2>2. CASE hgsl_cancel_event(e)
    <3>1. \A x \in Events : x # e => ev'[x] = ev[x]
      BY <2>2 DEF hgsl_cancel_event
    <3>2. /\ ev'[e].cl = "none" /\ ev[e].cl = "clearing"
          /\ ev'[e].st \in {"checked", "listed", "work"}
               <=> ev[e].st \in {"checked", "listed", "work"}
      BY <2>2 DEF hgsl_cancel_event, Listed, Signalled, TypeI, EventI, Event
    <3>3. QED BY <1>t, <1>k, <2>2, <3>1, <3>2, EventStepRefs DEF hgsl_cancel_event, TypeI
  <2>3. QED BY <1>5, <2>1, <2>2
<1>6. ASSUME NEW e \in Events, _hgsl_event_worker(e) PROVE Refs'
  BY <1>t, <1>k, <1>6, EventStepRefs DEF _hgsl_event_worker, NoEvent, TypeI
<1>7. CASE SignalGet
  <2>1. ClientHeld' = ClientHeld /\ EventHeld' = EventHeld
    BY <1>7 DEF SignalGet, ClientHeld, EventHeld
  <2>2. QED BY <1>7, <1>k, <2>1, HeldFinite DEF SignalGet, Refs, KrefExact, TypeI
<1>8. CASE SignalProcess
  <2>1. ClientHeld' = ClientHeld /\ EventHeld' = EventHeld
    BY <1>8, ProcessSameHeld DEF SignalProcess
  <2>2. kref # 0
    BY <1>8, FreedHeldByNone DEF SignalProcess
  <2>3. QED BY <1>8, <1>k, <2>1, <2>2, HeldFinite DEF SignalProcess, Refs, KrefExact
<1>9. CASE Destroy
  <2>1. CASE hgsl_remove_context
    <3>1. ClientHeld' = ClientHeld /\ EventHeld' = EventHeld
      BY <2>1 DEF hgsl_remove_context, ClientHeld, EventHeld
    <3>2. QED BY <2>1, <1>k, <3>1, HeldFinite DEF hgsl_remove_context, Refs, KrefExact
  <2>2. CASE hgsl_flush_event_group
    <3>1. ClientHeld' = ClientHeld /\ EventHeld' = EventHeld
      BY <2>2, ProcessSameHeld DEF hgsl_flush_event_group
    <3>2. QED BY <2>2, <1>k, <3>1, HeldFinite
             DEF hgsl_flush_event_group, Refs, KrefExact
  <2>3. ASSUME NEW S, hgsl_cancel_events_timestamp(S) PROVE Refs'
    <3>1. ClientHeld' = ClientHeld /\ EventHeld' = EventHeld
      BY <2>3, SameHeld
         DEF hgsl_cancel_events_timestamp, signal_event, Signalled, Listed
    <3>2. QED BY <2>3, <1>k, <3>1, HeldFinite
             DEF hgsl_cancel_events_timestamp, Refs, KrefExact
  <2>4. ASSUME NEW d \in BOOLEAN, DetachWorkAndPut(d) PROVE Refs'
    <3>1. ClientHeld' = ClientHeld /\ EventHeld' = EventHeld
      BY <2>4, ProcessSameHeld DEF DetachWorkAndPut, ClientHeld, EventHeld
    <3>2. QED BY <2>4, <1>k, <3>1, HeldFinite DEF DetachWorkAndPut, Refs, KrefExact
  <2>5. CASE SpinUntilDestroyed
    <3>1. ClientHeld' = ClientHeld /\ EventHeld' = EventHeld
      BY <2>5 DEF SpinUntilDestroyed, ClientHeld, EventHeld
    <3>2. QED BY <2>5, <1>k, <3>1, HeldFinite DEF SpinUntilDestroyed, Refs, KrefExact
  <2>6. CASE FreeContext
    <3>1. ClientHeld' = ClientHeld /\ EventHeld' = EventHeld
      BY <2>6 DEF FreeContext, ClientHeld, EventHeld
    <3>2. QED BY <2>6, <1>k, <3>1, HeldFinite DEF FreeContext, Refs, KrefExact
  <2>7. QED BY <1>9, <2>1, <2>2, <2>3, <2>4, <2>5, <2>6 DEF Destroy
<1>10. QED BY <1>1, <1>2, <1>3, <1>4, <1>5, <1>6, <1>7, <1>8, <1>9 DEF Next

-----------------------------------------------------------------------------
(* The theorems.                                                           *)

\* The inductive invariant holds in every reachable state.
THEOREM Inductive == Spec => []IInv
<1>1. Init => IInv
  <2> SUFFICES ASSUME Init PROVE IInv
    OBVIOUS
  <2>1. 0 \in Ts
    BY HalfAssumption DEF Ts, TsMod
  <2>2. TypeI
    BY <2>1 DEF Init, TypeI, EventI, Event, EventState, Result, Client, NoEvent, DestroyPc
  <2>3. Window
    BY HalfAssumption DEF Init, Window, Listed, NoEvent, U32Sub
  <2>4. ClientHeld = {} /\ EventHeld = {}
    BY DEF Init, ClientHeld, EventHeld, NoEvent
  <2>5. Refs
    BY <2>4, FS_EmptySet DEF Init, Refs, KrefExact
  <2>6. QED BY <2>2, <2>3, <2>5 DEF IInv
<1>2. IInv /\ [Next]_vars => IInv'
  BY TypeStep, WindowStep, RefsStep DEF IInv
<1>3. QED BY <1>1, <1>2, PTL DEF Spec

\* Every variable keeps its type; in particular no sequence of puts takes the
\* reference count of the context below zero.
THEOREM TypeCorrect == Spec => []TypeOK
<1>1. IInv => TypeOK
  <2> SUFFICES ASSUME IInv PROVE TypeOK
    OBVIOUS
  <2>1. kref \in Nat
    BY HeldFinite, KrefIs DEF IInv, Refs, Others
  <2>2. QED BY <2>1 DEF IInv, TypeI, TypeOK, EventI
<1>2. QED BY <1>1, Inductive, PTL

\* No wake-up is lost: _process_event_group never takes its early return while
\* an event on the list has retired.
THEOREM NoWakeupLost == Spec => []NoLostEvent
<1>1. IInv => NoLostEvent
  <2> SUFFICES ASSUME IInv, NEW e \in Listed,
                      hgsl_ts32_ge(eop, ev[e].ts), hgsl_ts32_ge(processed, eop)
               PROVE  FALSE
    BY DEF NoLostEvent
  <2>1. processed = eop
    BY WindowAntisymmetric DEF IInv, TypeI, Window, hgsl_ts32_ge
  <2>2. QED BY <2>1 DEF IInv, Window
<1>2. QED BY <1>1, Inductive, PTL

\* The reference count equals the references held, whatever fails or races.
THEOREM RefcountExact == Spec => []KrefExact
<1>1. IInv => KrefExact
  BY DEF IInv, Refs
<1>2. QED BY <1>1, Inductive, PTL

\* hgsl_ctxt_destroy frees the context only when nothing refers to it.
THEOREM FreeIsSafe == Spec => []NoUseAfterFree
<1>1. IInv => NoUseAfterFree
  BY FreedHeldByNone DEF IInv, Refs, NoUseAfterFree
<1>2. QED BY <1>1, Inductive, PTL

\* The callback of an event is told the truth: RETIRED only for a timestamp
\* that has retired, and not CANCELLED by the flush for one that has.
THEOREM CallbackTruthful == Spec => ResultTruthful
<1>1. TypeI /\ [Next]_vars => [TruthfulStep]_vars
  <2> SUFFICES ASSUME TypeI, Next PROVE TruthfulStep
    OBVIOUS
  <2> USE DEF TruthfulStep
  <2>1. ASSUME NEW flush \in BOOLEAN, _process_event_group(flush) PROVE TruthfulStep
    BY <2>1 DEF _process_event_group, Signalled, Listed
  <2>2. ASSUME NEW ts \in Ts, Submit(ts) \/ GpuRetire(ts) PROVE TruthfulStep
    BY <2>2 DEF Submit, GpuRetire
  <2>3. ASSUME NEW e \in Events, AddEvent(e) PROVE TruthfulStep
    <3>1. ASSUME NEW ts \in Ts, hgsl_get_context(e, ts) PROVE TruthfulStep
      BY <3>1 DEF hgsl_get_context, TypeI
    <3>2. CASE hgsl_add_event_refuse(e) \/ hgsl_add_event_nomem(e)
      BY <3>2 DEF hgsl_add_event_refuse, hgsl_add_event_nomem, TypeI, EventI, Event
    <3>3. CASE PutAfterRefusal(e)
      BY <3>3 DEF PutAfterRefusal, NoEvent, TypeI
    <3>4. CASE hgsl_add_event_alloc(e)
      BY <3>4 DEF hgsl_add_event_alloc, TypeI, EventI, Event
    <3>5. CASE hgsl_add_event_link(e)
      BY <3>5 DEF hgsl_add_event_link, Signalled, TypeI, EventI, Event
    <3>6. QED BY <2>3, <3>1, <3>2, <3>3, <3>4, <3>5 DEF AddEvent
  <2>4. ASSUME NEW e \in Events, ClearPending(e) \/ hgsl_cancel_event(e)
        PROVE  TruthfulStep
    <3>1. CASE ClearPending(e)
      BY <3>1 DEF ClearPending, TypeI, EventI, Event
    <3>2. CASE hgsl_cancel_event(e)
      BY <3>2 DEF hgsl_cancel_event, Listed, Signalled, TypeI, EventI, Event
    <3>3. QED BY <2>4, <3>1, <3>2
  <2>5. ASSUME NEW e \in Events, _hgsl_event_worker(e) PROVE TruthfulStep
    BY <2>5 DEF _hgsl_event_worker, NoEvent, TypeI
  <2>6. CASE SignalGet
    BY <2>6 DEF SignalGet
  <2>7. CASE SignalProcess
    BY <2>1, <2>7 DEF SignalProcess
  <2>8. CASE Destroy
    <3>1. CASE hgsl_remove_context \/ SpinUntilDestroyed \/ FreeContext
      BY <3>1 DEF hgsl_remove_context, SpinUntilDestroyed, FreeContext
    <3>2. CASE hgsl_flush_event_group
      BY <2>1, <3>2 DEF hgsl_flush_event_group
    <3>3. ASSUME NEW S, hgsl_cancel_events_timestamp(S) PROVE TruthfulStep
      BY <3>3 DEF hgsl_cancel_events_timestamp, signal_event, Signalled, Listed
    <3>4. ASSUME NEW d \in BOOLEAN, DetachWorkAndPut(d) PROVE TruthfulStep
      BY <2>1, <3>4 DEF DetachWorkAndPut
    <3>5. QED BY <2>8, <3>1, <3>2, <3>3, <3>4 DEF Destroy
  <2>9. QED BY <2>2, <2>3, <2>4, <2>5, <2>6, <2>7, <2>8 DEF Next
<1>2. QED BY <1>1, Inductive, PTL DEF Spec, ResultTruthful, IInv

=============================================================================
