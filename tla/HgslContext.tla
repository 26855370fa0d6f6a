----------------------------- MODULE HgslContext -----------------------------
(***************************************************************************)
(* The contexts of the device (hgsl.c): the table hgsl->contexts, the      *)
(* reference counts of its entries, threads that wait for a timestamp of a *)
(* context, the worker that wakes them when timestamps retire, and the     *)
(* destruction of a context by its process or by the release of the file.  *)
(*                                                                         *)
(* The destroyer takes the context out of the table, wakes its waiters,    *)
(* drops the table's reference and spins until the count is zero: from     *)
(* then on the structure is its own to free.  The back end, external here, *)
(* hands out context ids and may reuse one it was told to destroy.         *)
(***************************************************************************)
EXTENDS Integers, FiniteSets

CONSTANTS
    Clients,      \* client threads
    ProcOf,       \* the process of each
    NumIds,       \* context ids of the back end
    NumObjs       \* bound on the contexts created

Ids == 1 .. NumIds
Objs == 1 .. NumObjs
Procs == {ProcOf[t] : t \in Clients}
Release == "release"               \* hgsl_release_worker
Retire == "retire"                 \* ts_retire_worker
Threads == Clients \cup {Release, Retire}

ASSUME ContextAssumption ==
    /\ {NumIds, NumObjs} \subseteq Nat
    /\ IsFiniteSet(Clients) /\ {Release, Retire} \cap Clients = {}
    /\ "none" \notin Procs

VARIABLES
    contexts,     \* hgsl->contexts: id -> structure, 0 for none
    obj,          \* the structures
    backend,      \* ids of the contexts the back end has
    pc,           \* where each thread is
    at,           \* the structure it works on, 0 for none
    cid,          \* the context id it works on
    active_wait_list, \* threads with an entry in hgsl->active_wait_list
    work,         \* hgsl->ts_retire_work is pending
    file          \* the file of each process: "open", "closed", "releasing", "released"

vars == <<contexts, obj, backend, pc, at, cid, active_wait_list, work, file>>

\* kref counts; async is the reference of an event or draw object; retired
\* says that the timestamp waited for has retired.
NoObj == [st |-> "none", id |-> 0, priv |-> "none", kref |-> 0, async |-> FALSE,
          retired |-> FALSE, in_destroy |-> FALSE, destroyed |-> FALSE]

Init ==
    /\ contexts = [i \in Ids |-> 0]
    /\ obj = [o \in Objs |-> NoObj]
    /\ backend = {}
    /\ pc = [t \in Threads |-> "idle"]
    /\ at = [t \in Threads |-> 0]
    /\ cid = [t \in Threads |-> 0]
    /\ active_wait_list = {}
    /\ work = FALSE
    /\ file = [p \in Procs |-> "open"]

-----------------------------------------------------------------------------
(* References.                                                             *)

\* kref_get, and kref_put with _destroy_context.
Got(o) == [o EXCEPT !.kref = @ + 1]
Put(o) == [o EXCEPT !.kref = @ - 1, !.destroyed = (o.kref = 1)]

Go(t, where) == pc' = [pc EXCEPT ![t] = where]
Return(t) ==
    /\ Go(t, "idle")
    /\ at' = [at EXCEPT ![t] = 0]
    /\ cid' = [cid EXCEPT ![t] = IF t = Release THEN @ ELSE 0]

\* hgsl_get_context, under ctxt_lock.
hgsl_get_context(t, id) ==
    /\ contexts[id] # 0
    /\ at' = [at EXCEPT ![t] = contexts[id]]
    /\ cid' = [cid EXCEPT ![t] = id]
    /\ obj' = [obj EXCEPT ![contexts[id]] = Got(@)]

Idle(t) == t \in Clients /\ pc[t] = "idle" /\ file[ProcOf[t]] = "open"

\* An ioctl looks its context up (hgsl_get_context_owner) to use it or to wait
\* for its timestamp; that of another process is put again.
Lookup(t, id, what) ==
    /\ Idle(t)
    /\ hgsl_get_context(t, id)
    /\ Go(t, IF obj[contexts[id]].priv = ProcOf[t] THEN what ELSE "put")
    /\ UNCHANGED <<contexts, backend, active_wait_list, work, file>>

\* The ioctl leaves an event or a draw object behind, which holds a reference
\* (hgsl_context_get).
LeaveAsync(t) ==
    /\ pc[t] = "use" /\ ~obj[at[t]].async
    /\ obj' = [obj EXCEPT ![at[t]] = [Got(@) EXCEPT !.async = TRUE]]
    /\ Go(t, "put")
    /\ UNCHANGED <<contexts, backend, at, cid, active_wait_list, work, file>>

\* hgsl_put_context at the end of the ioctl.
EndUse(t) ==
    /\ pc[t] \in {"use", "put"}
    /\ obj' = [obj EXCEPT ![at[t]] = Put(@)]
    /\ Return(t)
    /\ UNCHANGED <<contexts, backend, active_wait_list, work, file>>

\* The event has fired or was cancelled, the draw object has retired.
AsyncPut(o) ==
    /\ obj[o].async
    /\ obj' = [obj EXCEPT ![o] = [Put(@) EXCEPT !.async = FALSE]]
    /\ UNCHANGED <<contexts, backend, pc, at, cid, active_wait_list, work, file>>

-----------------------------------------------------------------------------
(* hgsl_wait_timestamp and hgsl_retire_common.                             *)

\* wake_up_all(&ctxt->wait_q).
Woken(os) == [t \in Threads |-> IF pc[t] = "asleep" /\ at[t] \in os THEN "check" ELSE pc[t]]

WaitEnlist(t) ==
    /\ pc[t] = "wait"
    /\ active_wait_list' = active_wait_list \cup {t}
    /\ Go(t, "check")
    /\ UNCHANGED <<contexts, obj, backend, at, cid, work, file>>

\* wait_event_interruptible_timeout tests its condition, on the wait queue.
WaitCheck(t) ==
    /\ pc[t] = "check"
    /\ Go(t, IF obj[at[t]].retired \/ obj[at[t]].in_destroy THEN "delist" ELSE "asleep")
    /\ UNCHANGED <<contexts, obj, backend, at, cid, active_wait_list, work, file>>

\* A signal or the timeout.
WaitGivenUp(t) ==
    /\ pc[t] = "asleep"
    /\ Go(t, "delist")
    /\ UNCHANGED <<contexts, obj, backend, at, cid, active_wait_list, work, file>>

WaitDelist(t) ==
    /\ pc[t] = "delist"
    /\ active_wait_list' = active_wait_list \ {t}
    /\ Go(t, "put")
    /\ UNCHANGED <<contexts, obj, backend, at, cid, work, file>>

\* _retire_timestamp_only: the timestamp of a marker is retired from the CPU.  The
\* events of the context are processed, but nobody looks at its wait queue.
CpuRetire(o) ==
    /\ obj[o].st = "live" /\ ~obj[o].retired
    /\ obj' = [obj EXCEPT ![o].retired = TRUE]
    /\ UNCHANGED <<contexts, backend, pc, at, cid, active_wait_list, work, file>>

\* The GPU retires the timestamp, or one after it, and interrupts:
\* ts_retire_work is queued.
Interrupt(o) ==
    /\ obj[o].st = "live"
    /\ obj' = [obj EXCEPT ![o].retired = TRUE]
    /\ work' = TRUE
    /\ UNCHANGED <<contexts, backend, pc, at, cid, active_wait_list, file>>

\* hgsl_retire_common walks the waits under active_wait_lock, and wakes those
\* that retired ...
RetireScan ==
    /\ pc[Retire] = "idle" /\ work
    /\ work' = FALSE
    /\ pc' = [Woken({at[t] : t \in {u \in active_wait_list : obj[at[u]].retired}})
              EXCEPT ![Retire] = "signal"]
    /\ cid' = [cid EXCEPT ![Retire] = 1]
    /\ UNCHANGED <<contexts, obj, backend, at, active_wait_list, file>>

\* ... then _signal_contexts takes the contexts in turn.
SignalNext ==
    LET id == cid[Retire] IN
    /\ pc[Retire] = "signal" /\ at[Retire] = 0
    /\ \/ id \in Ids /\ hgsl_get_context(Retire, id) /\ UNCHANGED pc
       \/ /\ id \in Ids /\ contexts[id] = 0
          /\ cid' = [cid EXCEPT ![Retire] = id + 1]
          /\ UNCHANGED <<obj, pc, at>>
       \/ id \notin Ids /\ Return(Retire) /\ UNCHANGED obj
    /\ UNCHANGED <<contexts, backend, active_wait_list, work, file>>

SignalPut ==
    /\ pc[Retire] = "signal" /\ at[Retire] # 0
    /\ obj' = [obj EXCEPT ![at[Retire]] = Put(@)]
    /\ at' = [at EXCEPT ![Retire] = 0]
    /\ cid' = [cid EXCEPT ![Retire] = @ + 1]
    /\ UNCHANGED <<contexts, backend, pc, active_wait_list, work, file>>

-----------------------------------------------------------------------------
(* hgsl_ioctl_ctxt_create.                                                 *)

\* The back end creates the context and the structure is set up.
Create(t, id) ==
    LET unused == {o \in Objs : obj[o].st = "none"}
        o == CHOOSE u \in unused : \A v \in unused : u <= v
    IN  /\ Idle(t)
        /\ id \notin backend /\ unused # {}
        /\ backend' = backend \cup {id}
        /\ obj' = [obj EXCEPT ![o] = [NoObj EXCEPT !.st = "live", !.id = id, !.kref = 1,
                                                  !.priv = ProcOf[t]]]
        /\ at' = [at EXCEPT ![t] = o] /\ cid' = [cid EXCEPT ![t] = id]
        /\ Go(t, "insert")
        /\ UNCHANGED <<contexts, active_wait_list, work, file>>

\* It enters the table.  When its timeline (hgsl_hsync_timeline_create) could
\* not be made, the context is destroyed again by its id.  When the slot is
\* taken (-EBUSY), the creation is undone.
Insert(t) ==
    /\ pc[t] = "insert"
    /\ IF contexts[cid[t]] = 0
       THEN /\ contexts' = [contexts EXCEPT ![cid[t]] = at[t]]
            /\ \/ Return(t)
               \/ Go(t, "destroy") /\ at' = [at EXCEPT ![t] = 0] /\ UNCHANGED cid
            /\ UNCHANGED <<obj, backend>>
       ELSE /\ backend' = backend \ {cid[t]}
            /\ obj' = [obj EXCEPT ![at[t]].st = "freed"]
            /\ Return(t)
            /\ UNCHANGED contexts
    /\ UNCHANGED <<active_wait_list, work, file>>

-----------------------------------------------------------------------------
(* hgsl_ctxt_destroy, of an ioctl (which may be told to retry: can_retry), *)
(* of a failed creation, or of the release.                                *)

\* Take the context to free the ibdesc it holds in the doorbell queue; without
\* a context the ioctl fails.
DestroyIoctl(t, id) ==
    /\ Idle(t)
    /\ hgsl_get_context(t, id)
    /\ Go(t, "ibdesc_retry")
    /\ UNCHANGED <<contexts, backend, active_wait_list, work, file>>

DestroyGet(t) ==
    /\ pc[t] = "destroy"
    /\ IF contexts[cid[t]] = 0
       THEN Return(t) /\ UNCHANGED obj
       ELSE hgsl_get_context(t, cid[t]) /\ Go(t, "ibdesc")
    /\ UNCHANGED <<contexts, backend, active_wait_list, work, file>>

\* A plausible mistake: an error return that forgets the reference.
Mut_ibdesc_leak(t) ==
    /\ pc[t] \in {"ibdesc", "ibdesc_retry"}
    /\ \/ /\ Go(t, "remove") /\ at' = [at EXCEPT ![t] = 0] /\ UNCHANGED cid
          /\ obj' = [obj EXCEPT ![at[t]] = Put(@)]
       \/ pc[t] = "ibdesc_retry" /\ Return(t) /\ UNCHANGED obj
    /\ UNCHANGED <<contexts, backend, active_wait_list, work, file>>

\* A plausible mistake: the back end is told before the table is changed.
Mut_tell_first(t) ==
    /\ pc[t] \in {"ibdesc", "ibdesc_retry"}
    /\ obj' = [obj EXCEPT ![at[t]] = Put(@)]
    /\ Go(t, "remove") /\ at' = [at EXCEPT ![t] = 0] /\ UNCHANGED cid
    /\ backend' = backend \ {cid[t]}
    /\ UNCHANGED <<contexts, active_wait_list, work, file>>

\* dbq_wait_free_ibdesc: when it fails, an ioctl gives up and others go on.
DestroyIbdesc(t) ==
    /\ pc[t] \in {"ibdesc", "ibdesc_retry"}
    /\ obj' = [obj EXCEPT ![at[t]] = Put(@)]
    /\ \/ Go(t, "remove") /\ at' = [at EXCEPT ![t] = 0] /\ UNCHANGED cid
       \/ pc[t] = "ibdesc_retry" /\ Return(t)
    /\ UNCHANGED <<contexts, backend, active_wait_list, work, file>>

Priv(t) == IF t \in Clients THEN ProcOf[t] ELSE CHOOSE p \in Procs : file[p] = "releasing"

\* hgsl_remove_context: only a context of the own process, and only once.
DestroyRemove(t) ==
    LET o == contexts[cid[t]] IN
    /\ pc[t] = "remove"
    /\ IF o # 0 /\ obj[o].priv = Priv(t)
       THEN /\ contexts' = [contexts EXCEPT ![cid[t]] = 0]
            /\ at' = [at EXCEPT ![t] = o]
            /\ Go(t, "flag") /\ UNCHANGED cid
       ELSE Return(t) /\ UNCHANGED contexts
    /\ UNCHANGED <<obj, backend, active_wait_list, work, file>>

DestroyFlag(t) ==
    /\ pc[t] = "flag"
    /\ obj' = [obj EXCEPT ![at[t]].in_destroy = TRUE]
    /\ Go(t, "wake")
    /\ UNCHANGED <<contexts, backend, at, cid, active_wait_list, work, file>>

\* A plausible mistake: the waiters are not woken.
Mut_no_wake(t) ==
    /\ pc[t] = "wake"
    /\ Go(t, "drop")
    /\ UNCHANGED <<contexts, obj, backend, at, cid, active_wait_list, work, file>>

\* hgsl_ctxt_detach_drawobjs cancels pending events and draw objects, which put
\* their references when they come to it (AsyncPut); then the waiters are woken.
DestroyWake(t) ==
    /\ pc[t] = "wake"
    /\ pc' = [Woken({at[t]}) EXCEPT ![t] = "drop"]
    /\ UNCHANGED <<contexts, obj, backend, at, cid, active_wait_list, work, file>>

\* Put the reference of the table, and spin until no one holds another.
DestroyDrop(t) ==
    /\ pc[t] = "drop"
    /\ obj' = [obj EXCEPT ![at[t]] = Put(@)]
    /\ Go(t, "spin")
    /\ UNCHANGED <<contexts, backend, at, cid, active_wait_list, work, file>>

\* A plausible mistake: the context is freed without waiting for its users.
Mut_no_spin(t) ==
    /\ pc[t] = "spin"
    /\ backend' \in {backend, backend \ {cid[t]}}
    /\ Go(t, "free")
    /\ UNCHANGED <<contexts, obj, at, cid, active_wait_list, work, file>>

\* Then hgsl_hyp_ctxt_destroy, which may fail.
DestroyTell(t) ==
    /\ pc[t] = "spin" /\ obj[at[t]].destroyed
    /\ backend' \in {backend, backend \ {cid[t]}}
    /\ Go(t, "free")
    /\ UNCHANGED <<contexts, obj, at, cid, active_wait_list, work, file>>

DestroyFree(t) ==
    /\ pc[t] = "free"
    /\ obj' = [obj EXCEPT ![at[t]].st = "freed"]
    /\ Return(t)
    /\ UNCHANGED <<contexts, backend, active_wait_list, work, file>>

DestroyStep(t) ==
    \/ DestroyGet(t) \/ DestroyIbdesc(t) \/ DestroyRemove(t) \/ DestroyFlag(t)
    \/ DestroyWake(t) \/ DestroyDrop(t) \/ DestroyTell(t) \/ DestroyFree(t)

-----------------------------------------------------------------------------
(* The release of a file: hgsl_release after the last ioctl, then the      *)
(* contexts of _hgsl_release, one file at a time.                          *)

Close(p) ==
    /\ file[p] = "open"
    /\ \A t \in Clients : ProcOf[t] = p => pc[t] = "idle"
    /\ file' = [file EXCEPT ![p] = "closed"]
    /\ UNCHANGED <<contexts, obj, backend, pc, at, cid, active_wait_list, work>>

OwnedBy(p) == {id \in Ids : contexts[id] # 0 /\ obj[contexts[id]].priv = p}

\* Whether the worker is at p or may take it from release_list.
Takes(p) ==
    /\ pc[Release] = "idle"
    /\ file[p] = "closed" => \A q \in Procs : file[q] # "releasing"
    /\ file[p] \in {"closed", "releasing"}

\* The loop over the context table, on from the context destroyed last.
ReleaseNext(p) ==
    LET left == {id \in OwnedBy(p) : id > cid[Release]} IN
    /\ Takes(p)
    /\ IF left # {}
       THEN /\ cid' = [cid EXCEPT ![Release] = CHOOSE i \in left : \A j \in left : i <= j]
            /\ Go(Release, "destroy")
            /\ file' = [file EXCEPT ![p] = "releasing"]
       ELSE /\ cid' = [cid EXCEPT ![Release] = 0]
            /\ file' = [file EXCEPT ![p] = "released"]
            /\ UNCHANGED pc
    /\ UNCHANGED <<contexts, obj, backend, at, active_wait_list, work>>

-----------------------------------------------------------------------------
WaitStep(t) == WaitEnlist(t) \/ WaitCheck(t) \/ WaitDelist(t)
ClientStep(t) == EndUse(t) \/ WaitStep(t) \/ Insert(t) \/ DestroyStep(t)
RetireStep == RetireScan \/ SignalNext \/ SignalPut
ReleaseStep == (\E p \in Procs : ReleaseNext(p)) \/ DestroyStep(Release)

Next ==
    \/ \E t \in Clients :
          \/ \E id \in Ids :
                \/ \E what \in {"use", "wait"} : Lookup(t, id, what)
                \/ Create(t, id) \/ DestroyIoctl(t, id)
          \/ LeaveAsync(t) \/ WaitGivenUp(t) \/ ClientStep(t)
    \/ \E o \in Objs : AsyncPut(o) \/ CpuRetire(o) \/ Interrupt(o)
    \/ \E p \in Procs : Close(p)
    \/ RetireStep \/ ReleaseStep

Spec == Init /\ [][Next]_vars

\* Threads and workers run.  Nothing says that the reference of an event or a
\* draw object is put.
FairSpec ==
    /\ Spec
    /\ \A t \in Clients : WF_vars(ClientStep(t))
    /\ WF_vars(RetireStep) /\ WF_vars(ReleaseStep)

-----------------------------------------------------------------------------
(* Properties.                                                             *)

Destroying(t) == pc[t] \in {"flag", "wake", "drop", "spin", "free"}
Holding(t) == at[t] # 0 /\ pc[t] # "insert" /\ ~Destroying(t)

\* Types; no reference count goes below zero.
TypeOK ==
    /\ contexts \in [Ids -> 0 .. NumObjs]
    /\ \A o \in Objs :
          /\ obj[o].st \in {"none", "live", "freed"}
          /\ obj[o].kref \in Nat
          /\ {obj[o].async, obj[o].retired, obj[o].in_destroy, obj[o].destroyed} \subseteq BOOLEAN
    /\ backend \subseteq Ids
    /\ at \in [Threads -> 0 .. NumObjs]
    /\ active_wait_list \subseteq Clients
    /\ file \in [Procs -> {"open", "closed", "releasing", "released"}]

\* Every reference is counted: that of the table (which passes from the
\* creator to the destroyer), of each thread, of the event or draw object.
KrefExact ==
    \A o \in Objs : obj[o].st = "live" =>
        obj[o].kref =
            Cardinality({i \in Ids : contexts[i] = o})
            + Cardinality({t \in Threads : at[t] = o /\
                             (Holding(t) \/ pc[t] \in {"insert", "flag", "wake", "drop"})})
            + (IF obj[o].async THEN 1 ELSE 0)

\* The references to a context are exact, and nothing refers to a freed one: not
\* the table, not a thread, not an entry of active_wait_list
\* (hgsl_retire_common follows wait->ctxt), not an event; and one thread at most
\* is destroying it.
NoUseAfterFree ==
    /\ TypeOK
    /\ KrefExact
    /\ \A id \in Ids : contexts[id] # 0 => obj[contexts[id]].st = "live"
    /\ \A t \in Threads : at[t] # 0 => obj[at[t]].st = "live"
    /\ \A t \in active_wait_list : at[t] # 0
    /\ \A o \in Objs : obj[o].async => obj[o].st = "live"
    /\ \A t, u \in Threads : Destroying(t) /\ Destroying(u) /\ at[t] = at[u] => t = u

\* Nothing stays in the table too long.  An id that the back end hands out finds
\* its slot empty, so a creation is never refused for one ("context id already
\* created"): a context leaves the table before the back end is told to destroy
\* it.  And a released process has no context left, not even one that a failed
\* creation or another destroy was busy with.
TableClean ==
    /\ \A t \in Clients : pc[t] = "insert" => contexts[cid[t]] = 0
    /\ \A p \in Procs : file[p] = "released" =>
          \A o \in Objs : obj[o].priv = p => obj[o].st = "freed"

\* A thread asleep on a timestamp that has retired is woken once the GPU has
\* interrupted, and one asleep on a context that is being destroyed in any case.
\* The exception is a timestamp that _retire_timestamp_only retired: the sleeper
\* is not woken for it, but by the next interrupt, the destruction or its
\* timeout.
WaiterIsWoken ==
    \A t \in Clients :
        (pc[t] = "asleep" /\ ((obj[at[t]].retired /\ work) \/ obj[at[t]].in_destroy))
            ~> pc[t] # "asleep"

\* A destruction ends, and the context is freed: the destroyer's spin ends
\* because all threads that hold a reference are woken and put it.  The exception
\* is the reference of an event or a draw object, which may be there already or
\* be taken by a thread that is still at work, and which may never be put
\* (Stranded of HgslEvents, Sleeping of HgslDrawQueue).
DestroyEnds ==
    \A o \in Objs :
        (obj[o].in_destroy /\ ~obj[o].async) ~> (obj[o].st = "freed" \/ obj[o].async)
=============================================================================
