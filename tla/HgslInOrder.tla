---------------------------- MODULE HgslInOrder ----------------------------
(***************************************************************************)
(* What a context promises to those who wait for its timestamps, without   *)
(* a ring, a dispatcher or a GPU: the timestamps given out are pending in  *)
(* the order they were given out, they retire one by one from the front,   *)
(* and a context that is destroyed drops some from the back.  Everybody    *)
(* who compares a timestamp with the retired one (events, markers, sync    *)
(* points, waiting ioctls) relies on it.  HgslDrawQueue implements it.     *)
(***************************************************************************)
EXTENDS HgslTimestamp, Sequences

CONSTANT StartTs     \* last timestamp of the idle context it starts from

VARIABLES
    queued_ts,    \* the last timestamp given out
    eop,          \* the retired timestamp
    pend          \* timestamps given out and not retired, oldest first

vars == <<queued_ts, eop, pend>>

Init ==
    /\ queued_ts \in StartTs
    /\ eop = queued_ts
    /\ pend = <<>>

\* How far ts is after the retired timestamp.
Ahead(ts) == U32Sub(ts, eop)

\* ts is after the last timestamp, inside the window of those in flight.
IsNext(ts) == Ahead(queued_ts) < Ahead(ts) /\ Ahead(ts) < Half

\* The next timestamp is given out.
Queue(ts) ==
    /\ IsNext(ts)
    /\ queued_ts' = ts
    /\ pend' = Append(pend, ts)
    /\ UNCHANGED eop

\* It is given out and retires at once, which it may only do if nothing is
\* pending before it.
QueueAndRetire(ts) ==
    /\ pend = <<>>
    /\ IsNext(ts)
    /\ queued_ts' = ts
    /\ eop' = ts
    /\ UNCHANGED pend

\* The oldest one retires.
Retire ==
    /\ pend # <<>>
    /\ eop' = Head(pend)
    /\ pend' = Tail(pend)
    /\ UNCHANGED queued_ts

\* The destroyed context drops what the GPU was not given, the newest ones.
Drop(n) ==
    /\ n < Len(pend)
    /\ pend' = SubSeq(pend, 1, n)
    /\ UNCHANGED <<queued_ts, eop>>

Next ==
    \/ \E ts \in Ts : Queue(ts) \/ QueueAndRetire(ts)
    \/ Retire
    \/ \E n \in 0 .. Len(pend) : Drop(n)

Spec == Init /\ [][Next]_vars

-----------------------------------------------------------------------------
TypeOK ==
    /\ queued_ts \in Ts
    /\ eop \in Ts
    /\ pend \in Seq(Ts)

(***************************************************************************)
(* Time is linear ("keep time linear", _queue_cmdobj): the pending         *)
(* timestamps ascend after the retired one and up to the last one queued,  *)
(* across the wrap of the counter.                                         *)
(***************************************************************************)
TimeLinear ==
    /\ \A i \in DOMAIN pend : 0 < Ahead(pend[i]) /\ Ahead(pend[i]) <= Ahead(queued_ts)
    /\ \A i, j \in DOMAIN pend : i < j => Ahead(pend[i]) < Ahead(pend[j])
    /\ Ahead(queued_ts) < Half

(***************************************************************************)
(* No pending timestamp counts as retired, and a later one counts as at or *)
(* after an earlier one: what hgsl_check_shadow_timestamp tells a waiter   *)
(* is right, and a wait for one timestamp is a wait for all before it.     *)
(***************************************************************************)
PendingNotRetired ==
    \A i \in DOMAIN pend :
        /\ ~hgsl_ts32_ge(eop, pend[i])
        /\ \A j \in DOMAIN pend : i <= j => hgsl_ts32_ge(pend[j], pend[i])
=============================================================================
