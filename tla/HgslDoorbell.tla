---------------------------- MODULE HgslDoorbell ----------------------------
(***************************************************************************)
(* How commands get to the GPU firmware (hgsl.c).  A context writes them   *)
(* to a ring of dwords in shared memory and rings a doorbell.  The back    *)
(* end supports either one ring for all contexts (doorbell queue, dbq) or  *)
(* a ring per context (doorbell context queue, dbcq).  A command with more *)
(* ibs than a message can hold is sent as a batch: its descriptors go to a *)
(* buffer beside the ring, of which each ring has one.                     *)
(*                                                                         *)
(* Actors: one issuing thread per context (ctxt->lock), one thread in      *)
(* hgsl_ctxt_destroy per context, the firmware that reads the rings and    *)
(* retires timestamps, and the host that resets the GPU: it asks with      *)
(* hard_reset_req and goes ahead once the guest is not busy.  A step is    *)
(* the code between two accesses to memory that another actor writes.      *)
(* Shared memory is taken to be sequentially consistent.                   *)
(*                                                                         *)
(* Timestamps are the driver's.  A dispatched draw object that is sent     *)
(* again keeps its timestamp, and so does an ioctl that is tried again.    *)
(***************************************************************************)
EXTENDS HgslTimestamp, Sequences, SequencesExt, FiniteSets

CONSTANTS
    Ctxts,       \* contexts
    RingSize,    \* dwords of a ring
    AlignTo,     \* messages take a multiple of this many dwords (4)
    MsgSizes,    \* dwords of a message with its descriptors
    InfoSize,    \* dwords of a message without them, MSG_ISSUE_INF_SZ
    MaxMsg,      \* dwords the size field of a message can say (255)
    StartTs,     \* the timestamp contexts start with
    MaxIssues,   \* bound: how far the timestamps of each context advance
    MaxResets,   \* bound: hard resets
    None

ASSUME DoorbellAssumption ==
    /\ RingSize \in Nat /\ AlignTo \in Nat \ {0} /\ RingSize % AlignTo = 0
    /\ MsgSizes \subseteq Nat \ {0}
    /\ InfoSize \in 1 .. RingSize - AlignTo /\ MaxMsg \in Nat
    /\ StartTs \in Ts \ {UINT_MAX} /\ MaxIssues \in [Ctxts -> 0 .. Half - 2] /\ MaxResets \in Nat
    /\ None \notin Ctxts

VARIABLES
    dbcq_supported,  \* the back end has context queues (hgsl_hyp_query_dbcq)
    dbq_ready,       \* dbq->state is DB_STATE_Q_INIT_DONE
    queue,           \* the rings
    lock,            \* who holds dbq->lock over several steps
    req,             \* hard_reset_req, written by the host
    busy,            \* dispatch_in_busy, read by the host
    host,            \* the host: "idle", "asked" for a reset, in "reset"
    resets,          \* resets so far
    ibdesc,          \* dbq->ibdesc_priv and the content of its buffer
    indirect,        \* dbcq->indirect_ib_ts and the content of its buffer
    ctxt,            \* where each context is in its life
    queued,          \* the last timestamp sent
    running,         \* commands the firmware has read and not retired
    retired,         \* the retired timestamp in shared memory
    th,              \* the issuing threads
    dt,              \* the destroying threads
    misfreed,        \* history: a buffer in use was given up
    forgotten        \* history: contexts that forgot their indirect buffer

life == <<dbcq_supported, dbq_ready, ctxt>>
handshake == <<req, busy, host, resets>>
buffers == <<ibdesc, indirect, misfreed, forgotten>>
gpu == <<running, retired>>
vars == <<life, queue, lock, handshake, buffers, queued, gpu, th, dt>>

Shared == "dbq"
Queues == Ctxts \cup {Shared}
QueueOf(c) == IF dbcq_supported THEN c ELSE Shared

Align(n) == ((n + AlignTo - 1) \div AlignTo) * AlignTo

\* A message, and the dwords of a ring: a dword of a message, or one that the
\* firmware has read and whose content no longer matters.
Msg == [c : Ctxts, ts : Ts, n : 1 .. RingSize, batch : BOOLEAN]
Dword == [m : Msg, i : 0 .. RingSize - 1] \cup {None}
EmptyQueue == [wptr |-> 0, rptr |-> 0, pending |-> << >>,
               body |-> [i \in 0 .. RingSize - 1 |-> None]]

\* Where an issuing thread is.
IssuePc == {"idle", "open", "claim", "wait", "lock", "req", "busy", "room",
            "grant", "copy", "publish", "quit"}
Idle == [pc |-> "idle", m |-> None, owner |-> None, gave |-> FALSE]
NoDestroy == [pc |-> "none", retry |-> FALSE]

Init ==
    /\ dbcq_supported \in BOOLEAN
    /\ dbq_ready = FALSE
    /\ queue = [q \in Queues |-> EmptyQueue]
    /\ lock = None
    /\ req = FALSE /\ busy = FALSE /\ host = "idle" /\ resets = 0
    /\ ibdesc = [inuse |-> FALSE, c |-> None, ts |-> 0, data |-> None]
    /\ indirect = [c \in Ctxts |-> [ts |-> 0, data |-> None]]
    /\ ctxt = [c \in Ctxts |-> "new"]
    /\ queued = [c \in Ctxts |-> StartTs]
    /\ running = [c \in Ctxts |-> << >>]
    /\ retired = [c \in Ctxts |-> StartTs]
    /\ th = [c \in Ctxts |-> Idle]
    /\ dt = [c \in Ctxts |-> NoDestroy]
    /\ misfreed = FALSE /\ forgotten = {}

Goto(c, pc) == th' = [th EXCEPT ![c].pc = pc]
Return(c) == th' = [th EXCEPT ![c] = Idle]

\* Contexts that hgsl_get_context finds.
InTable(c) == ctxt[c] \in {"dbq", "dbcq", "open", "remote"}

-----------------------------------------------------------------------------
(* hgsl_ctxt_create_dbq.                                                   *)

\* With context queues the structure is set up by hgsl_dbcq_init and opened by
\* the first command; a context whose queue cannot be had uses remote calls.
hgsl_dbcq_init(c, ok) ==
    /\ ctxt[c] = "new" /\ dbcq_supported
    /\ ctxt' = [ctxt EXCEPT ![c] = IF ok THEN "dbcq" ELSE "remote"]
    /\ UNCHANGED <<dbcq_supported, dbq_ready, queue, lock, handshake, buffers, queued, gpu, th, dt>>

\* Under dbq->lock the shared queue is set up once; a failure resets it.
hgsl_dbq_init(c, ok) ==
    /\ ctxt[c] = "new" /\ ~dbcq_supported
    /\ lock = None
    /\ dbq_ready' = (dbq_ready \/ ok)
    /\ ctxt' = [ctxt EXCEPT ![c] = IF dbq_ready' THEN "dbq" ELSE "remote"]
    /\ UNCHANGED <<dbcq_supported, queue, lock, handshake, buffers, queued, gpu, th, dt>>

-----------------------------------------------------------------------------
(* hgsl_db_issue_cmd and hgsl_dbcq_issue_cmd, up to the send.              *)

\* A message that does not fit into the ring, or whose size does not fit into its
\* header, goes without its descriptors.
IsBatch(n) == Align(n) >= RingSize \/ Align(n) > MaxMsg
Message(c, n) == [c |-> c, ts |-> DriverTs(queued[c]), batch |-> IsBatch(n),
                  n |-> IF IsBatch(n) THEN InfoSize ELSE n]

Issue(c, n) ==
    /\ th[c].pc = "idle"
    /\ ctxt[c] \in {"dbq", "dbcq", "open"}
    /\ U32Sub(queued[c], StartTs) < MaxIssues[c]
    /\ th' = [th EXCEPT ![c].m = Message(c, n),
                        ![c].pc = IF ctxt[c] = "dbcq" THEN "open"
                                  ELSE IF IsBatch(n) THEN "claim"
                                  ELSE IF ctxt[c] = "dbq" THEN "lock" ELSE "room"]
    /\ UNCHANGED <<life, queue, lock, handshake, buffers, queued, gpu, dt>>

\* hgsl_dbcq_open: the queue memory is allocated, mapped and registered.
hgsl_dbcq_open(c) ==
    /\ th[c].pc = "open"
    /\ ctxt' = [ctxt EXCEPT ![c] = IF @ = "dbcq" THEN "open" ELSE @]
    /\ Goto(c, IF th[c].m.batch THEN "claim" ELSE "room")
    /\ UNCHANGED <<dbcq_supported, dbq_ready, queue, lock, handshake, buffers, queued, gpu, dt>>

\* An error closes the queue for good; an interrupted wait for a channel does not.
hgsl_dbcq_open_fails(c, intr) ==
    /\ th[c].pc = "open"
    /\ ctxt' = [ctxt EXCEPT ![c] = IF intr \/ @ # "dbcq" THEN @ ELSE "remote"]
    /\ Return(c)
    /\ UNCHANGED <<dbcq_supported, dbq_ready, queue, lock, handshake, buffers, queued, gpu, dt>>

-----------------------------------------------------------------------------
(* The descriptor buffer of the shared queue.                              *)

hgsl_check_shadow_timestamp(c, ts) == hgsl_ts32_ge(retired[c], ts)

\* The buffer becomes the sender's and its descriptors are copied, all under
\* dbq->lock.
Own(m) == ibdesc' = [inuse |-> TRUE, c |-> m.c, ts |-> m.ts, data |-> m]

\* Whether setting buf_inuse to false now takes the buffer from a command that
\* is not retired, though it may not be sent yet.
TakenAway == ibdesc.inuse /\ ~hgsl_check_shadow_timestamp(ibdesc.c, ibdesc.ts)

\* Mutant: the buffer is taken when its owner is found, retired or not.
Mut_claim_unretired(c) ==
    /\ th[c].pc = "claim" /\ ~dbcq_supported
    /\ lock = None
    /\ ibdesc.inuse => InTable(ibdesc.c)
    /\ Own(th[c].m)
    /\ Goto(c, "lock")
    /\ UNCHANGED <<life, queue, lock, handshake, indirect, misfreed, forgotten, queued, gpu, dt>>

\* dbq_wait_free_ibdesc (ACQUIRE): nobody uses the buffer, or its owner, looked
\* up once, has retired.
ClaimFree(c) ==
    /\ th[c].pc = "claim" /\ ~dbcq_supported
    /\ lock = None
    /\ ibdesc.inuse => InTable(ibdesc.c) /\ hgsl_check_shadow_timestamp(ibdesc.c, ibdesc.ts)
    /\ Own(th[c].m)
    /\ Goto(c, "lock")
    /\ UNCHANGED <<life, queue, lock, handshake, indirect, misfreed, forgotten, queued, gpu, dt>>

\* The owner is no context any more: -EINVAL.
ClaimOrphan(c) ==
    /\ th[c].pc = "claim" /\ ~dbcq_supported
    /\ lock = None
    /\ ibdesc.inuse /\ ~InTable(ibdesc.c)
    /\ Return(c)
    /\ UNCHANGED <<life, queue, lock, handshake, buffers, queued, gpu, dt>>

\* The owner has not retired: the lock is dropped for a millisecond.
ClaimWait(c) ==
    /\ th[c].pc = "claim" /\ ~dbcq_supported
    /\ lock = None
    /\ ibdesc.inuse /\ InTable(ibdesc.c)
    /\ ~hgsl_check_shadow_timestamp(ibdesc.c, ibdesc.ts)
    /\ th' = [th EXCEPT ![c].pc = "wait", ![c].owner = ibdesc.c]
    /\ UNCHANGED <<life, queue, lock, handshake, buffers, queued, gpu, dt>>

\* With the lock again, the context looked up at first is compared with the
\* timestamp that is in the buffer now.
ClaimAgain(c) ==
    /\ th[c].pc = "wait"
    /\ lock = None
    /\ hgsl_check_shadow_timestamp(th[c].owner, ibdesc.ts)
    /\ misfreed' = (misfreed \/ TakenAway)
    /\ Own(th[c].m)
    /\ th' = [th EXCEPT ![c].pc = "lock", ![c].owner = None]
    /\ UNCHANGED <<life, queue, lock, handshake, indirect, forgotten, queued, gpu, dt>>

\* Interrupted, or timed out.
ClaimGivesUp(c) ==
    /\ th[c].pc = "wait"
    /\ lock = None
    /\ Return(c)
    /\ UNCHANGED <<life, queue, lock, handshake, buffers, queued, gpu, dt>>

-----------------------------------------------------------------------------
(* The indirect buffer of a context queue: dbcq_get_free_indirect_ib_buffer. *)

IndirectFree(c) ==
    \/ indirect[c].ts = 0
    \/ hgsl_check_shadow_timestamp(c, indirect[c].ts)

\* Also after a sleep in hgsl_wait_timestamp; it ends early, and well, when the
\* context is being destroyed.
IndirectClaim(c) ==
    /\ th[c].pc = "claim" /\ dbcq_supported
    /\ IndirectFree(c) \/ dt[c].pc # "none"
    /\ forgotten' = IF IndirectFree(c) THEN forgotten ELSE forgotten \cup {c}
    /\ indirect' = [indirect EXCEPT ![c] = [ts |-> th[c].m.ts, data |-> th[c].m]]
    /\ Goto(c, "room")
    /\ UNCHANGED <<life, queue, lock, handshake, ibdesc, misfreed, queued, gpu, dt>>

IndirectGivesUp(c) ==
    /\ th[c].pc = "claim" /\ dbcq_supported
    /\ ~IndirectFree(c)
    /\ Return(c)
    /\ UNCHANGED <<life, queue, lock, handshake, buffers, queued, gpu, dt>>

-----------------------------------------------------------------------------
(* Sending: db_send_msg, dbcq_send_msg.                                    *)

\* Mutant: a full ring looks like an empty one.
Mut_free_all(q) ==
    RingSize - ((queue[q].wptr + RingSize - queue[q].rptr) % RingSize)

\* db_queue_freedwords, db_context_queue_freedwords.
FreeDwords(q) ==
    RingSize - ((queue[q].wptr + RingSize - queue[q].rptr) % RingSize) - 1

\* db_send_msg takes dbq->lock, keeps it over its sleeps, and sleeps while the
\* host asks for a reset.
SendLock(c) ==
    /\ th[c].pc = "lock"
    /\ lock = None
    /\ lock' = c
    /\ Goto(c, IF req THEN "req" ELSE "busy")
    /\ UNCHANGED <<life, queue, handshake, buffers, queued, gpu, dt>>

SendReq(c) ==
    /\ th[c].pc = "req"
    /\ ~req
    /\ Goto(c, "busy")
    /\ UNCHANGED <<life, queue, lock, handshake, buffers, queued, gpu, dt>>

SendBusy(c) ==
    /\ th[c].pc = "busy"
    /\ busy' = TRUE
    /\ Goto(c, "room")
    /\ UNCHANGED <<life, queue, lock, req, host, resets, buffers, queued, gpu, dt>>

\* db_queue_wait_freewords: the request is read again now that the guest is
\* busy; if it is there, the guest gives way.
GiveWay(c) ==
    /\ th[c].pc = "room" /\ ~dbcq_supported
    /\ req
    /\ busy' = FALSE
    /\ th' = [th EXCEPT ![c].gave = TRUE]
    /\ UNCHANGED <<life, queue, lock, req, host, resets, buffers, queued, gpu, dt>>

\* Mutant: only the room is looked at.
Mut_room_without_req(c) ==
    /\ th[c].pc = "room" /\ ~dbcq_supported
    /\ FreeDwords(Shared) >= Align(th[c].m.n)
    /\ Goto(c, "grant")
    /\ UNCHANGED <<life, queue, lock, handshake, buffers, queued, gpu, dt>>

\* No request and enough room.
Room(c) ==
    /\ th[c].pc = "room" /\ ~dbcq_supported
    /\ ~req
    /\ FreeDwords(Shared) >= Align(th[c].m.n)
    /\ Goto(c, "grant")
    /\ UNCHANGED <<life, queue, lock, handshake, buffers, queued, gpu, dt>>

\* The guest is busy, again if it gave way before.
Granted(c) ==
    /\ th[c].pc = "grant"
    /\ busy' = TRUE
    /\ Goto(c, "copy")
    /\ UNCHANGED <<life, queue, lock, req, host, resets, buffers, queued, gpu, dt>>

\* dbcq_queue_wait_freewords: a context queue has no handshake.
ContextRoom(c) ==
    /\ th[c].pc = "room" /\ dbcq_supported
    /\ FreeDwords(c) >= Align(th[c].m.n)
    /\ Goto(c, "copy")
    /\ UNCHANGED <<life, queue, lock, handshake, buffers, queued, gpu, dt>>

\* A signal, or too many sleeps, while waiting for the reset or for room.
SendGivesUp(c) ==
    /\ \/ th[c].pc = "req" /\ req
       \/ th[c].pc = "room"
    /\ IF dbcq_supported THEN Return(c) ELSE Goto(c, "quit")
    /\ UNCHANGED <<life, queue, lock, handshake, buffers, queued, gpu, dt>>

\* The dwords of a message copied to the ring at wptr: what does not fit before
\* the end goes to the start.
Copied(body, wptr, m) ==
    LET move == IF m.n + wptr >= RingSize THEN RingSize - wptr ELSE m.n
    IN  [k \in 0 .. RingSize - 1 |->
           IF k >= wptr /\ k - wptr < move THEN [m |-> m, i |-> k - wptr]
           ELSE IF k < m.n - move THEN [m |-> m, i |-> move + k]
           ELSE body[k]]

Copy(c) ==
    /\ th[c].pc = "copy"
    /\ queue' = [queue EXCEPT ![QueueOf(c)].body = Copied(@, queue[QueueOf(c)].wptr, th[c].m)]
    /\ Goto(c, "publish")
    /\ UNCHANGED <<life, lock, handshake, buffers, queued, gpu, dt>>

\* The ring with the message handed to the firmware.
Published(q, m) ==
    [q EXCEPT !.wptr = (q.wptr + Align(m.n)) % RingSize, !.pending = Append(@, m)]

\* The end of db_send_msg: not busy, unlocked.
SendEnd(c) ==
    /\ busy' = FALSE
    /\ lock' = None
    /\ Return(c)
    /\ UNCHANGED <<life, req, host, resets, buffers, gpu, dt>>

\* The write index moves, the context info is written and the doorbell rings;
\* hgsl_db_issue_cmd keeps the timestamp.
Publish(c) ==
    /\ th[c].pc = "publish" /\ ~dbcq_supported
    /\ queue' = [queue EXCEPT ![Shared] = Published(@, th[c].m)]
    /\ queued' = [queued EXCEPT ![c] = th[c].m.ts]
    /\ SendEnd(c)

\* Mutant: a send that failed leaves the guest busy.
Mut_quit_busy(c) ==
    /\ th[c].pc = "quit"
    /\ lock' = None
    /\ Return(c)
    /\ UNCHANGED <<life, queue, handshake, buffers, queued, gpu, dt>>

SendQuit(c) ==
    /\ th[c].pc = "quit"
    /\ SendEnd(c)
    /\ UNCHANGED <<queue, queued>>

\* The end of dbcq_send_msg and hgsl_dbcq_issue_cmd.  After a message that is
\* no batch the buffer is "checked" with time-out 0, and its timestamp is
\* dropped whether it has retired or not.
ContextPublish(c) ==
    /\ th[c].pc = "publish" /\ dbcq_supported
    /\ queue' = [queue EXCEPT ![c] = Published(@, th[c].m)]
    /\ queued' = [queued EXCEPT ![c] = th[c].m.ts]
    /\ IF th[c].m.batch
       THEN UNCHANGED <<indirect, forgotten>>
       ELSE /\ indirect' = [indirect EXCEPT ![c].ts = 0]
            /\ forgotten' = IF IndirectFree(c) THEN forgotten ELSE forgotten \cup {c}
    /\ Return(c)
    /\ UNCHANGED <<life, lock, handshake, ibdesc, misfreed, gpu, dt>>

-----------------------------------------------------------------------------
(* hgsl_ctxt_destroy.                                                      *)

\* ctxt->in_destroy and the table entry; the rest is in HgslContext.
RemoveContext(c) ==
    /\ ctxt' = [ctxt EXCEPT ![c] = "gone"]
    /\ dt' = [dt EXCEPT ![c] = [pc |-> "removed", retry |-> FALSE]]

Holds(c) == ibdesc.inuse /\ ibdesc.c = c

\* dbq_wait_free_ibdesc (RELEASE): the context does not hold the buffer or has
\* retired.
DestroyFree(c) ==
    /\ dt[c].pc = "none" /\ InTable(c)
    /\ lock = None
    /\ Holds(c) => hgsl_check_shadow_timestamp(c, ibdesc.ts)
    /\ ibdesc' = IF Holds(c) THEN [ibdesc EXCEPT !.inuse = FALSE] ELSE ibdesc
    /\ RemoveContext(c)
    /\ UNCHANGED <<dbcq_supported, dbq_ready, queue, lock, handshake, indirect, misfreed, forgotten, queued, gpu, th>>

DestroyWait(c, retry) ==
    /\ dt[c].pc = "none" /\ InTable(c)
    /\ lock = None
    /\ Holds(c) /\ ~hgsl_check_shadow_timestamp(c, ibdesc.ts)
    /\ dt' = [dt EXCEPT ![c] = [pc |-> "wait", retry |-> retry]]
    /\ UNCHANGED <<life, queue, lock, handshake, buffers, queued, gpu, th>>

DestroyAgain(c) ==
    /\ dt[c].pc = "wait"
    /\ lock = None
    /\ hgsl_check_shadow_timestamp(c, ibdesc.ts)
    /\ misfreed' = (misfreed \/ TakenAway)
    /\ ibdesc' = [ibdesc EXCEPT !.inuse = FALSE]
    /\ RemoveContext(c)
    /\ UNCHANGED <<dbcq_supported, dbq_ready, queue, lock, handshake, indirect, forgotten, queued, gpu, th>>

\* Interrupted or timed out: the ioctl returns, the release worker goes on.
DestroyGivesUp(c) ==
    /\ dt[c].pc = "wait"
    /\ lock = None
    /\ IF dt[c].retry
       THEN dt' = [dt EXCEPT ![c] = NoDestroy] /\ UNCHANGED <<ibdesc, misfreed, ctxt>>
       ELSE /\ misfreed' = (misfreed \/ TakenAway)
            /\ ibdesc' = [ibdesc EXCEPT !.inuse = FALSE]
            /\ RemoveContext(c)
    /\ UNCHANGED <<dbcq_supported, dbq_ready, queue, lock, handshake, indirect, forgotten, queued, gpu, th>>

\* When nobody uses the context any more the host is told, which drops what is
\* left of its commands, and hgsl_dbcq_close frees the queue.
DestroyClose(c) ==
    /\ dt[c].pc = "removed" /\ dbcq_supported
    /\ th[c].pc = "idle"
    /\ dt' = [dt EXCEPT ![c].pc = "closed"]
    /\ queue' = [queue EXCEPT ![c] = EmptyQueue]
    /\ running' = [running EXCEPT ![c] = << >>]
    /\ UNCHANGED <<life, lock, handshake, buffers, queued, retired, th>>

-----------------------------------------------------------------------------
(* The firmware and the host (external).                                   *)

\* The firmware reads the message at the read index, unless it is being reset.
FirmwareRead(q) ==
    LET r == queue[q]
        m == r.body[r.rptr].m
        read == {(r.rptr + i) % RingSize : i \in 0 .. m.n - 1}
    IN  /\ r.rptr # r.wptr
        /\ host # "reset"
        /\ r.body[r.rptr] # None
        /\ queue' = [queue EXCEPT ![q] =
              [wptr |-> r.wptr, rptr |-> (r.rptr + Align(m.n)) % RingSize, pending |-> Tail(r.pending),
               body |-> [k \in DOMAIN r.body |-> IF k \in read THEN None ELSE r.body[k]]]]
        /\ running' = [running EXCEPT ![m.c] = Append(@, m)]
        /\ UNCHANGED <<life, lock, handshake, buffers, queued, retired, th, dt>>

\* The oldest command of a context ends.
Retire(c) ==
    /\ running[c] # << >>
    /\ host # "reset"
    /\ retired' = [retired EXCEPT ![c] = Head(running[c]).ts]
    /\ running' = [running EXCEPT ![c] = Tail(@)]
    /\ UNCHANGED <<life, queue, lock, handshake, buffers, queued, th, dt>>

HostAsk ==
    /\ host = "idle" /\ dbq_ready
    /\ resets < MaxResets
    /\ host' = "asked" /\ req' = TRUE /\ resets' = resets + 1
    /\ UNCHANGED <<life, queue, lock, busy, buffers, queued, gpu, th, dt>>

HostReset ==
    /\ host = "asked"
    /\ ~busy
    /\ host' = "reset"
    /\ UNCHANGED <<life, queue, lock, req, busy, resets, buffers, queued, gpu, th, dt>>

HostDone ==
    /\ host = "reset"
    /\ host' = "idle" /\ req' = FALSE
    /\ UNCHANGED <<life, queue, lock, busy, resets, buffers, queued, gpu, th, dt>>

-----------------------------------------------------------------------------
Create(c) == \E ok \in BOOLEAN : hgsl_dbcq_init(c, ok) \/ hgsl_dbq_init(c, ok)

IssueSteps(c) ==
    \/ hgsl_dbcq_open(c)
    \/ \E intr \in BOOLEAN : hgsl_dbcq_open_fails(c, intr)
    \/ ClaimFree(c) \/ ClaimOrphan(c) \/ ClaimWait(c) \/ ClaimAgain(c) \/ ClaimGivesUp(c)
    \/ IndirectClaim(c) \/ IndirectGivesUp(c)
    \/ SendLock(c) \/ SendReq(c) \/ SendBusy(c) \/ Room(c) \/ Granted(c)
    \/ ContextRoom(c) \/ SendGivesUp(c) \/ Copy(c) \/ Publish(c) \/ SendQuit(c)
    \/ ContextPublish(c)

DestroySteps(c) == DestroyAgain(c) \/ DestroyGivesUp(c) \/ DestroyClose(c)

Host == HostReset \/ HostDone

Next ==
    \/ \E c \in Ctxts :
          \/ Create(c)
          \/ \E n \in MsgSizes : Issue(c, n)
          \/ IssueSteps(c)
          \/ GiveWay(c)
          \/ DestroyFree(c)
          \/ \E retry \in BOOLEAN : DestroyWait(c, retry)
          \/ DestroySteps(c)
          \/ Retire(c)
    \/ \E q \in Queues : FirmwareRead(q)
    \/ HostAsk
    \/ Host

Spec == Init /\ [][Next]_vars

(***************************************************************************)
(* Fairness: a thread inside a call gets on: every loop is bounded by a    *)
(* count of sleeps, so that it gives up if nothing else happens, and a     *)
(* mutex is handed to its waiters (strong fairness).  A request is read in *)
(* each turn of the loop.  The host goes on with a reset.  Nothing forces  *)
(* the firmware to read, clients to issue, or the host to ask.             *)
(***************************************************************************)
Fairness ==
    /\ \A c \in Ctxts : SF_vars(IssueSteps(c))
    /\ WF_vars(Host)

FairSpec == Spec /\ Fairness

-----------------------------------------------------------------------------
TypeOK ==
    /\ dbcq_supported \in BOOLEAN /\ dbq_ready \in BOOLEAN
    /\ \A q \in Queues : /\ queue[q].wptr \in 0 .. RingSize - 1
                         /\ queue[q].rptr \in 0 .. RingSize - 1
                         /\ queue[q].body \in [0 .. RingSize - 1 -> Dword]
                         /\ queue[q].pending \in Seq(Msg)
    /\ lock \in Ctxts \cup {None}
    /\ req \in BOOLEAN /\ busy \in BOOLEAN
    /\ host \in {"idle", "asked", "reset"} /\ resets \in 0 .. MaxResets
    /\ ctxt \in [Ctxts -> {"new", "dbq", "dbcq", "open", "remote", "gone"}]
    /\ queued \in [Ctxts -> Ts] /\ retired \in [Ctxts -> Ts]
    /\ \A c \in Ctxts : th[c].pc \in IssuePc /\ running[c] \in Seq(Msg)
    /\ \A c \in Ctxts : dt[c].pc \in {"none", "wait", "removed", "closed"}

\* Dwords taken by the first k of the messages p.
Offsets(p) ==
    LET off[k \in 0 .. Len(p)] == IF k = 0 THEN 0 ELSE off[k - 1] + Align(p[k].n) IN off

(***************************************************************************)
(* The firmware finds every message that was sent, whole and in order:     *)
(* between the read and the write index of a ring lie exactly the dwords   *)
(* of the messages that were published and not read, and no sender writes  *)
(* over them or past the read index, also where the ring wraps.            *)
(***************************************************************************)
RingHoldsMessages ==
    /\ TypeOK
    /\ \A q \in Queues :
          LET p == queue[q].pending
              off == Offsets(p)
          IN  /\ off[Len(p)] < RingSize
              /\ queue[q].wptr = (queue[q].rptr + off[Len(p)]) % RingSize
              /\ \A k \in 1 .. Len(p) : \A i \in 0 .. p[k].n - 1 :
                    queue[q].body[(queue[q].rptr + off[k - 1] + i) % RingSize] = [m |-> p[k], i |-> i]

(***************************************************************************)
(* The shared ring is not written while the host resets the GPU.  What     *)
(* makes it so is that the guest sets busy before it reads the request     *)
(* again; a sender that gave way to an earlier reset sets busy after it    *)
(* has read, and is the exception.                                         *)
(***************************************************************************)
ResetQuiet ==
    host = "reset" => \A c \in Ctxts :
        th[c].pc \in {"copy", "publish"} => dbcq_supported \/ th[c].gave

\* Batches that the firmware can still look at.
Unretired ==
    {m \in UNION ({ToSet(queue[q].pending) : q \in Queues} \cup {ToSet(running[c]) : c \in Ctxts}) : m.batch}

(***************************************************************************)
(* The descriptors of a batch stay in the buffer until it has retired: the *)
(* buffer is not reused, whoever waits for it, destroys its context or     *)
(* gives up.  Two ways of losing track of the owner are excepted: a waiter *)
(* that compares the timestamp of a new owner with the context of an old   *)
(* one, or a destroyer that stops waiting (misfreed), and a context queue  *)
(* that forgets the timestamp of its buffer (forgotten).                   *)
(***************************************************************************)
BatchKept ==
    \A m \in Unretired :
        IF dbcq_supported THEN indirect[m.c].data = m \/ m.c \in forgotten
                          ELSE ibdesc.data = m \/ misfreed

(***************************************************************************)
(* A reset the host asks for is granted: every sender gives way, stops     *)
(* waiting or finishes, and says that it is not busy.                      *)
(***************************************************************************)
ResetGranted == (host = "asked") ~> (host = "reset")

=============================================================================
