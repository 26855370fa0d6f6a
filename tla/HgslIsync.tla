------------------------------ MODULE HgslIsync ------------------------------
(***************************************************************************)
(* A software timeline (the isync half of hgsl_sync.c): fences are created *)
(* on it by one thread, while others move its timestamp forward, signal    *)
(* single fences, drop fences, and destroy the timeline.                   *)
(*                                                                         *)
(* The list of the timeline does not own its fences: a fence whose last    *)
(* reference is gone leaves the list in its release function.  A fence     *)
(* owns a reference on the timeline, and so does every call in progress.   *)
(*                                                                         *)
(* A fence is made in one of two ways.  hgsl_timelines_to_fence_array      *)
(* shows it to nobody before it is on the list.  hgsl_isync_fence_create   *)
(* installs the descriptor first, so that users may wait for the fence,    *)
(* poll it, signal it and close it while it has no timeline yet, while it  *)
(* is checked, and before it is on the list.                               *)
(***************************************************************************)
EXTENDS HgslTimestamp, FiniteSets

CONSTANTS Fences, Threads

ASSUME IsyncAssumption == IsFiniteSet(Fences) /\ IsFiniteSet(Threads)

VARIABLES
    idr,          \* the timeline is in isync_timeline_idr
    kref,         \* timeline->kref
    last_ts,      \* timeline->last_ts
    fence_list,   \* timeline->fence_list
    fence,        \* the fences
    thread        \* calls in progress

vars == <<idr, kref, last_ts, fence_list, fence, thread>>

(***************************************************************************)
(* A fence: where its creation is ("alloc", "installed", "init",           *)
(* "checked", "ready") or whether its last reference is gone ("dying") and *)
(* it is freed; the references of its users (held), of the call that       *)
(* creates it behind an open descriptor (creating) and of other calls; the *)
(* signalled bit of the dma_fence; whether somebody waits, so that its     *)
(* signalling was enabled.                                                 *)
(* missed is history: somebody waited already when the fence was put on    *)
(* the list, and the timeline had passed it since the check.               *)
(***************************************************************************)
FencePc == {"none", "alloc", "installed", "init", "checked", "ready", "dying", "freed"}
Fence == [pc : FencePc, ts : Ts, refs : 0 .. Cardinality(Threads) + 2,
          held : BOOLEAN, creating : BOOLEAN,
          signaled : BOOLEAN, enabled : BOOLEAN, missed : BOOLEAN]
NewFence(ts) == [pc |-> "alloc", ts |-> ts, refs |-> 0, held |-> FALSE, creating |-> FALSE,
                 signaled |-> FALSE, enabled |-> FALSE, missed |-> FALSE]

\* A call: what it is about to do, its argument and the fences it has taken
\* off the list and will signal.
ThreadPc == {"idle", "forward", "fence", "destruct", "signal"}
Idle == [pc |-> "idle", ts |-> 0, fences |-> {}]

Init ==
    /\ idr = TRUE
    /\ kref = 1
    /\ last_ts \in Ts
    /\ fence_list = {}
    /\ fence = [f \in Fences |-> [NewFence(0) EXCEPT !.pc = "none"]]
    /\ thread = [t \in Threads |-> Idle]

Live(f) == fence[f].pc \in {"alloc", "installed", "init", "checked", "ready", "dying"}

\* hgsl_isync_has_signaled: never, while the fence has no timeline.
hgsl_isync_has_signaled(f) ==
    fence[f].pc # "installed" /\ hgsl_ts32_ge(last_ts, fence[f].ts)

\* A fence record after dma_fence_put.
Put(r) == [r EXCEPT !.refs = @ - 1, !.pc = IF r.refs = 1 THEN "dying" ELSE @]

-----------------------------------------------------------------------------
(* hgsl_isync_fence_create, hgsl_timelines_to_fence_array.                 *)

\* The timeline is found and counted; the fence is allocated or not.
FenceCreate(f, ts) ==
    /\ fence[f].pc = "none"
    /\ idr
    /\ kref' = kref + 1
    /\ fence' = [fence EXCEPT ![f] = NewFence(ts)]
    /\ UNCHANGED <<idr, last_ts, fence_list, thread>>

\* No memory for the fence, the sync_file or the descriptor: the timeline is
\* put, and the fence, if there is one, freed without it.
FenceCreateFails(f) ==
    /\ fence[f].pc = "alloc"
    /\ kref' = kref - 1
    /\ fence' = [fence EXCEPT ![f].pc = "freed"]
    /\ UNCHANGED <<idr, last_ts, fence_list, thread>>

\* hgsl_isync_fence_create: fd_install.  The descriptor has a reference of the
\* fence, which has no timeline, and the call has another.
FenceInstall(f) ==
    /\ fence[f].pc = "alloc"
    /\ fence' = [fence EXCEPT ![f].pc = "installed", ![f].refs = 2,
                              ![f].held = TRUE, ![f].creating = TRUE]
    /\ UNCHANGED <<idr, kref, last_ts, fence_list, thread>>

\* hgsl_isync_fence_create: the timeline of the fence is set.
FenceAttach(f) ==
    /\ fence[f].pc = "installed"
    /\ fence' = [fence EXCEPT ![f].pc = "init"]
    /\ UNCHANGED <<idr, kref, last_ts, fence_list, thread>>

\* hgsl_timelines_to_fence_array: the fence has its timeline and no user.
FencePrivate(f) ==
    /\ fence[f].pc = "alloc"
    /\ fence' = [fence EXCEPT ![f].pc = "init", ![f].refs = 1, ![f].held = TRUE]
    /\ UNCHANGED <<idr, kref, last_ts, fence_list, thread>>

\* dma_fence_is_signaled, without the lock of the list: the timeline has passed
\* the fence, or a user has found so before.
FenceCheck(f) ==
    /\ fence[f].pc = "init"
    /\ LET signaled == fence[f].signaled \/ hgsl_isync_has_signaled(f)
       IN  fence' = [fence EXCEPT ![f].signaled = signaled,
                                  ![f].pc = IF signaled THEN "ready" ELSE "checked"]
    /\ UNCHANGED <<idr, kref, last_ts, fence_list, thread>>

\* list_add_tail under the lock, which looks at the timeline no more.
FenceLink(f) ==
    /\ fence[f].pc = "checked"
    /\ fence_list' = fence_list \cup {f}
    /\ fence' = [fence EXCEPT
          ![f].pc = "ready",
          ![f].missed = fence[f].enabled /\ ~fence[f].signaled /\ hgsl_isync_has_signaled(f)]
    /\ UNCHANGED <<idr, kref, last_ts, thread>>

\* hgsl_isync_fence_create puts the reference of its own.
CreatorPut(f) ==
    /\ fence[f].pc = "ready" /\ fence[f].creating
    /\ fence' = [fence EXCEPT ![f] = Put([@ EXCEPT !.creating = FALSE])]
    /\ UNCHANGED <<idr, kref, last_ts, fence_list, thread>>

-----------------------------------------------------------------------------
(* The users of a fence.                                                   *)

\* The fence is in the hands of users: its descriptor is open, from its
\* installation on, or the call that waits for its array has been given it.
Usable(f) == fence[f].held /\ (fence[f].creating \/ fence[f].pc = "ready")

\* Mutant: enable_signaling that never looks at the timeline.
Mut_enable_without_check(f) ==
    /\ Usable(f)
    /\ ~fence[f].signaled /\ ~fence[f].enabled
    /\ fence' = [fence EXCEPT ![f].enabled = TRUE]
    /\ UNCHANGED <<idr, kref, last_ts, fence_list, thread>>

\* dma_fence_wait, dma_fence_add_callback: signalling is enabled, unless the
\* timeline is past the fence, which is signalled then.
hgsl_isync_enable_signaling(f) ==
    /\ Usable(f)
    /\ ~fence[f].signaled /\ ~fence[f].enabled
    /\ fence' = [fence EXCEPT
          ![f].signaled = hgsl_isync_has_signaled(f),
          ![f].enabled = ~hgsl_isync_has_signaled(f)]
    /\ UNCHANGED <<idr, kref, last_ts, fence_list, thread>>

\* dma_fence_is_signaled without a wait: finding the fence passed signals it.
UserPoll(f) ==
    /\ Usable(f)
    /\ ~fence[f].signaled /\ hgsl_isync_has_signaled(f)
    /\ fence' = [fence EXCEPT ![f].signaled = TRUE]
    /\ UNCHANGED <<idr, kref, last_ts, fence_list, thread>>

\* The user closes the descriptor, or its wait ended or timed out.
UserPut(f) ==
    /\ Usable(f)
    /\ fence' = [fence EXCEPT ![f] = Put([@ EXCEPT !.held = FALSE])]
    /\ UNCHANGED <<idr, kref, last_ts, fence_list, thread>>

\* The last reference is gone; the release function waits for the list lock.
hgsl_isync_fence_release(f) ==
    /\ fence[f].pc = "dying"
    /\ fence_list' = fence_list \ {f}
    /\ kref' = kref - 1
    /\ fence' = [fence EXCEPT ![f].pc = "freed"]
    /\ UNCHANGED <<idr, last_ts, thread>>

-----------------------------------------------------------------------------
(* Calls on the timeline.                                                  *)

\* hgsl_isync_timeline_get at the start of a call.
hgsl_isync_timeline_get(t, call) ==
    /\ thread[t].pc = "idle"
    /\ idr
    /\ kref' = kref + 1
    /\ thread' = [thread EXCEPT ![t] = call]
    /\ UNCHANGED <<idr, last_ts, fence_list>>

\* From the list to the private list of the call, with a reference each.  The
\* timestamp of the call is of no use any more.
Take(t, fs) ==
    /\ fence' = [f \in Fences |-> IF f \in fs THEN [fence[f] EXCEPT !.refs = @ + 1]
                                             ELSE fence[f]]
    /\ thread' = [thread EXCEPT ![t].pc = "signal", ![t].ts = 0, ![t].fences = fs]

hgsl_isync_forward(t, ts) ==
    /\ hgsl_isync_timeline_get(t, [pc |-> "forward", ts |-> ts, fences |-> {}])
    /\ UNCHANGED fence

\* The fences the timeline reaches with the call of thread t.
Reached(t) == {f \in fence_list : hgsl_ts32_ge(thread[t].ts, fence[f].ts)}

\* Under the lock of the list: last_ts moves, never back, and the fences it
\* reaches leave the list; a fence without references is left to its release.
ForwardWalk(t) ==
    /\ thread[t].pc = "forward"
    /\ IF hgsl_ts32_ge(last_ts, thread[t].ts)
          THEN Take(t, {}) /\ UNCHANGED <<last_ts, fence_list>>
          ELSE /\ last_ts' = thread[t].ts
               /\ fence_list' = fence_list \ Reached(t)
               /\ Take(t, {f \in Reached(t) : fence[f].refs > 0})
    /\ UNCHANGED <<idr, kref>>

\* hgsl_isync_fence_signal, with the fence of an open descriptor.
hgsl_isync_fence_signal(t, f) ==
    /\ Usable(f)
    /\ hgsl_isync_timeline_get(t, [pc |-> "fence", ts |-> 0, fences |-> {f}])
    /\ fence' = [fence EXCEPT ![f].refs = @ + 1]

\* _isync_timeline_signal: only a fence that still is on the list is signalled;
\* otherwise the reference is put at once.
_isync_timeline_signal(t) ==
    /\ thread[t].pc = "fence"
    /\ fence_list' = fence_list \ thread[t].fences
    /\ \E f \in thread[t].fences :
          IF f \in fence_list
             THEN thread' = [thread EXCEPT ![t].pc = "signal"] /\ UNCHANGED fence
             ELSE /\ thread' = [thread EXCEPT ![t].pc = "signal", ![t].fences = {}]
                  /\ fence' = [fence EXCEPT ![f] = Put(@)]
    /\ UNCHANGED <<idr, kref, last_ts>>

\* hgsl_isync_query, and the holders of a reference that change nothing else.
hgsl_isync_query(t) ==
    /\ hgsl_isync_timeline_get(t, [pc |-> "signal", ts |-> 0, fences |-> {}])
    /\ UNCHANGED fence

\* hgsl_isync_timeline_destroy, hgsl_isync_fini: the id is taken out; the call
\* goes on with the reference of the table.
hgsl_isync_timeline_destroy(t) ==
    /\ thread[t].pc = "idle"
    /\ idr
    /\ idr' = FALSE
    /\ thread' = [thread EXCEPT ![t].pc = "destruct"]
    /\ UNCHANGED <<kref, last_ts, fence_list, fence>>

\* Mutant: only the fences the timeline has reached are signalled.
Mut_destruct_reached_only(t) ==
    /\ thread[t].pc = "destruct"
    /\ LET fs == {f \in fence_list : fence[f].refs > 0 /\ hgsl_isync_has_signaled(f)}
       IN  Take(t, fs) /\ fence_list' = fence_list \ fs
    /\ UNCHANGED <<idr, kref, last_ts>>

hgsl_isync_timeline_destruct(t) ==
    /\ thread[t].pc = "destruct"
    /\ LET fs == {f \in fence_list : fence[f].refs > 0}
       IN  Take(t, fs) /\ fence_list' = fence_list \ fs
    /\ UNCHANGED <<idr, kref, last_ts>>

\* dma_fence_signal and dma_fence_put of one fence taken off the list.
SignalFence(t, f) ==
    /\ thread[t].pc = "signal"
    /\ f \in thread[t].fences
    /\ fence' = [fence EXCEPT ![f] = Put([@ EXCEPT !.signaled = TRUE])]
    /\ thread' = [thread EXCEPT ![t].fences = @ \ {f}]
    /\ UNCHANGED <<idr, kref, last_ts, fence_list>>

\* Mutant: a call that ends when the timeline is out of the table does not put it.
Mut_put_forgotten(t) ==
    /\ thread[t].pc = "signal" /\ thread[t].fences = {}
    /\ kref' = IF idr THEN kref - 1 ELSE kref
    /\ thread' = [thread EXCEPT ![t] = Idle]
    /\ UNCHANGED <<idr, last_ts, fence_list, fence>>

\* The end of a call.
hgsl_isync_timeline_put(t) ==
    /\ thread[t].pc = "signal" /\ thread[t].fences = {}
    /\ kref' = kref - 1
    /\ thread' = [thread EXCEPT ![t] = Idle]
    /\ UNCHANGED <<idr, last_ts, fence_list, fence>>

-----------------------------------------------------------------------------
Creator(f) ==
    \/ FenceInstall(f) \/ FenceAttach(f) \/ FencePrivate(f)
    \/ FenceCheck(f) \/ FenceLink(f) \/ CreatorPut(f)

Call(t) ==
    \/ ForwardWalk(t)
    \/ _isync_timeline_signal(t)
    \/ hgsl_isync_timeline_destruct(t)
    \/ \E f \in Fences : SignalFence(t, f)
    \/ hgsl_isync_timeline_put(t)

Start(t) ==
    \/ \E ts \in Ts : hgsl_isync_forward(t, ts)
    \/ \E f \in Fences : hgsl_isync_fence_signal(t, f)
    \/ hgsl_isync_query(t)
    \/ hgsl_isync_timeline_destroy(t)

Next ==
    \/ \E f \in Fences :
          \/ \E ts \in Ts : FenceCreate(f, ts)
          \/ FenceCreateFails(f)
          \/ Creator(f)
          \/ hgsl_isync_enable_signaling(f)
          \/ UserPoll(f)
          \/ UserPut(f)
          \/ hgsl_isync_fence_release(f)
    \/ \E t \in Threads : Start(t) \/ Call(t)

Spec == Init /\ [][Next]_vars

(***************************************************************************)
(* Fairness: a call that has begun, the creation of a fence and a release  *)
(* function go on; nobody has to begin a call or to put a fence.           *)
(***************************************************************************)
Fairness ==
    /\ \A t \in Threads : WF_vars(Call(t))
    /\ \A f \in Fences : WF_vars(Creator(f)) /\ WF_vars(hgsl_isync_fence_release(f))

FairSpec == Spec /\ Fairness

-----------------------------------------------------------------------------
\* Types.
TypeOK ==
    /\ idr \in BOOLEAN
    /\ kref \in Nat
    /\ last_ts \in Ts
    /\ fence_list \subseteq Fences
    /\ fence \in [Fences -> Fence]
    /\ thread \in [Threads -> [pc : ThreadPc, ts : Ts, fences : SUBSET Fences]]

Taken(f) == \E t \in Threads : thread[t].pc = "signal" /\ f \in thread[t].fences

(***************************************************************************)
(* The reference count of the timeline is exact: the table, every fence    *)
(* that is not freed and every call in progress hold one, so that the      *)
(* timeline, its lock and its list live as long as any of them.  And the   *)
(* links of a fence are never used twice: it is on the list of the         *)
(* timeline or on the private list of one call, and only while it is not   *)
(* freed.                                                                  *)
(***************************************************************************)
KrefExact ==
    /\ TypeOK
    /\ kref = (IF idr THEN 1 ELSE 0)
              + Cardinality({t \in Threads : thread[t].pc # "idle"})
              + Cardinality({f \in Fences : Live(f)})
    /\ \A f \in Fences :
          /\ f \in fence_list => fence[f].pc \in {"ready", "dying"} /\ ~Taken(f)
          /\ Cardinality({t \in Threads : thread[t].pc = "signal" /\ f \in thread[t].fences}) <= 1
          /\ Taken(f) => fence[f].pc = "ready"

(***************************************************************************)
(* No signal is lost for a waiter, although a fence is checked and put on  *)
(* the list in two steps, and users come in before either of them: a fence *)
(* that somebody waits for and that is not signalled is on the list and    *)
(* ahead of the timeline, or a call is about to signal it.                 *)
(* One case is excepted, and it takes three parties: a user waits for a    *)
(* fence whose descriptor is installed, and a forward passes it between    *)
(* the check and the link.  Such a fence (missed) still is on the list,    *)
(* where the next forward and the destruction of the timeline find it, but *)
(* its own forward has gone by.                                            *)
(***************************************************************************)
NoLostSignal ==
    \A f \in Fences :
        fence[f].pc = "ready" /\ fence[f].enabled /\ ~fence[f].signaled =>
            \/ Taken(f)
            \/ f \in fence_list /\ (~hgsl_isync_has_signaled(f) \/ fence[f].missed)

(***************************************************************************)
(* Destroying a timeline signals the fences it finds on the list, reached  *)
(* or not, unless they are being freed.                                    *)
(***************************************************************************)
DestroySignals ==
    \A f \in Fences :
        (f \in fence_list /\ \E t \in Threads : thread[t].pc = "destruct")
            ~> (fence[f].signaled \/ fence[f].pc = "freed")

=============================================================================
