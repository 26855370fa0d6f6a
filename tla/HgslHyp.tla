------------------------------- MODULE HgslHyp -------------------------------
(***************************************************************************)
(* The remote procedure calls to the back end (hgsl_hyp.c over             *)
(* hgsl_hyp_socket.c): the pool of HAB channels of one hgsl_hyp_priv_t,    *)
(* the calls that client threads make over them, and the close of the      *)
(* pool.                                                                   *)
(*                                                                         *)
(* A call takes a channel, writes its arguments into the channel's send    *)
(* parcel, sends it and waits for the reply.  An interruptible call that a *)
(* signal ends leaves its request outstanding: the channel is parked, off  *)
(* the free list, and the client retries by the channel's id.  The id comes *)
(* from user space, and nothing ties it to the call that is parked there.  *)
(*                                                                         *)
(* The back end and HAB are external: sockets are reliable and ordered     *)
(* until they break, and a broken one fails every later send and receive.  *)
(***************************************************************************)
EXTENDS Integers, Sequences, FiniteSets, SequencesExt

CONSTANTS
    Threads,      \* client threads
    NumChannels,  \* bound on the channels of the pool
    MaxCalls,     \* bound on the number of calls
    MaxFaults     \* bound on failures

Channels == 1 .. NumChannels

VARIABLES
    free_channels, \* priv->free_channels
    busy_channels, \* priv->busy_channels
    chan,          \* the channels, by id (priv->channel_idr)
    conn_id,       \* priv->conn_id, 0 before the handshake
    thr,           \* the client threads
    calls,         \* calls so far
    executed,      \* how often the back end executed each of them
    faults,        \* failures so far
    closer,        \* the closing thread: <<state, channel>>
    shared,        \* history: the channels got by id while another call used them
    strays         \* history: the channels got by id for a call not parked there

vars == <<free_channels, busy_channels, chan, conn_id, thr, calls, executed, faults,
          closer, shared, strays>>
pool == <<free_channels, busy_channels>>
mixups == <<shared, strays>>

-----------------------------------------------------------------------------
(***************************************************************************)
(* The calls.  What tells them apart here:                                 *)
(*   held    the caller took the channel and makes several calls on it     *)
(*   intr    waits interruptibly, and can be retried by channel id         *)
(*   resets  resets the parcels itself (else the pool's reset is relied on)*)
(*   rval    the back end's status is passed on ("out"), turned into an    *)
(*           error ("checked"), or into an error or a timeout ("timed")    *)
(*   leaks   an error return does not put the channel                      *)
(* A row stands for the transaction only, from the get or the reset of the *)
(* channel to the status; what a call does with the contents of its reply  *)
(* (imports, memory nodes, clean-up) is not in it.                         *)
(***************************************************************************)
Rpc(held, intr, resets, rval) ==
    [held |-> held, intr |-> intr, resets |-> resets, rval |-> rval, leaks |-> FALSE]
Pooled(rval) == Rpc(FALSE, FALSE, FALSE, rval)
Held(rval) == Rpc(TRUE, FALSE, TRUE, rval)

hgsl_hyp_generic_transaction == Pooled("out")
hgsl_hyp_lib_open == Pooled("out")
hgsl_hyp_lib_close == Pooled("out")
hgsl_hyp_device_open == Pooled("out")
hgsl_hyp_device_close == Pooled("out")
hgsl_hyp_activate_device_handle == Pooled("checked")
hgsl_hyp_ctxt_create == Held("out")
hgsl_hyp_ctxt_create_v1 == Held("out")
hgsl_hyp_ctxt_create_v2 == Held("checked")
hgsl_hyp_ctxt_destroy == Held("out")
hgsl_hyp_get_shadowts_mem == Held("out")
hgsl_hyp_put_shadowts_mem == Held("checked")
hgsl_hyp_mem_map_smmu == Held("checked")
hgsl_hyp_mem_unmap_smmu == Held("checked")
hgsl_hyp_set_metainfo == Pooled("checked")
hgsl_hyp_issueib == Rpc(FALSE, TRUE, FALSE, "out")
hgsl_hyp_issueib_with_alloc_list == Rpc(FALSE, TRUE, FALSE, "out")
hgsl_hyp_wait_timestamp == Rpc(FALSE, TRUE, TRUE, "timed")
hgsl_hyp_read_timestamp == Pooled("checked")
hgsl_hyp_check_timestamp == Pooled("out")
hgsl_hyp_get_system_time == Pooled("checked")
hgsl_hyp_syncobj_wait_multiple == Pooled("out")
hgsl_hyp_perfcounter_select == Pooled("out")
hgsl_hyp_perfcounter_deselect == Pooled("out")
hgsl_hyp_perfcounter_query_selections == Pooled("out")
hgsl_hyp_perfcounter_read == Pooled("out")
hgsl_hyp_dbq_create == Held("checked")
hgsl_hyp_get_dbq_info == Pooled("checked")
hgsl_hyp_notify_cleanup == Held("timed")
hgsl_hyp_query_dbcq == Held("checked")
hgsl_hyp_context_register_dbcq == Held("checked")
hgsl_hyp_export_ipc_queue == Pooled("checked")
hgsl_hyp_deinit_ipcq == [Rpc(FALSE, FALSE, TRUE, "checked") EXCEPT !.leaks = TRUE]
hgsl_hyp_gslprofiler_per_proc_gpu_busy == Rpc(FALSE, TRUE, TRUE, "checked")
hgsl_hyp_gslprofiler_per_proc_gpu_pmem == Rpc(FALSE, TRUE, TRUE, "checked")

Calls == {
    hgsl_hyp_generic_transaction, hgsl_hyp_lib_open, hgsl_hyp_lib_close,
    hgsl_hyp_device_open, hgsl_hyp_device_close, hgsl_hyp_activate_device_handle,
    hgsl_hyp_ctxt_create, hgsl_hyp_ctxt_create_v1, hgsl_hyp_ctxt_create_v2,
    hgsl_hyp_ctxt_destroy, hgsl_hyp_get_shadowts_mem, hgsl_hyp_put_shadowts_mem,
    hgsl_hyp_mem_map_smmu, hgsl_hyp_mem_unmap_smmu, hgsl_hyp_set_metainfo,
    hgsl_hyp_issueib, hgsl_hyp_issueib_with_alloc_list, hgsl_hyp_wait_timestamp,
    hgsl_hyp_read_timestamp, hgsl_hyp_check_timestamp, hgsl_hyp_get_system_time,
    hgsl_hyp_syncobj_wait_multiple, hgsl_hyp_perfcounter_select,
    hgsl_hyp_perfcounter_deselect, hgsl_hyp_perfcounter_query_selections,
    hgsl_hyp_perfcounter_read, hgsl_hyp_dbq_create, hgsl_hyp_get_dbq_info,
    hgsl_hyp_notify_cleanup, hgsl_hyp_query_dbcq, hgsl_hyp_context_register_dbcq,
    hgsl_hyp_export_ipc_queue, hgsl_hyp_deinit_ipcq,
    hgsl_hyp_gslprofiler_per_proc_gpu_busy, hgsl_hyp_gslprofiler_per_proc_gpu_pmem }

ASSUME HypAssumption ==
    {NumChannels, MaxCalls, MaxFaults} \subseteq Nat

-----------------------------------------------------------------------------
(***************************************************************************)
(* State.  Calls are numbered.  A parcel is the calls whose arguments it   *)
(* holds; a request is the parcel that was sent.                           *)
(* Opcodes are left out: the test of gsl_rpc_transact_ext cannot tell the  *)
(* reply to one call from that to another of the same kind.                *)
(***************************************************************************)
Status == {"success", "failure", "timeout"}
Returns == {"none", "ok", "error", "timeout", "again", "eintr"}

Idle == [pc |-> "idle", rpc |-> hgsl_hyp_lib_open, ch |-> 0, channel_id |-> 0,
         n |-> 0, ret |-> "none"]
NoChannel == [sock |-> "none", busy |-> FALSE, wait_retry |-> FALSE,
              parcel |-> <<>>, req |-> <<>>, rsp |-> <<>>]

Init ==                            \* hgsl_hyp_init
    /\ free_channels = <<>> /\ busy_channels = <<>>
    /\ chan = [c \in Channels |-> NoChannel]
    /\ conn_id = 0
    /\ thr = [t \in Threads |-> Idle]
    /\ calls = 0
    /\ executed = [n \in 1 .. MaxCalls |-> 0]
    /\ faults = 0
    /\ closer = <<"open", 0>>
    /\ shared = {} /\ strays = {}

Fault == faults < MaxFaults /\ faults' = faults + 1

-----------------------------------------------------------------------------
(* The channel pool, under priv->lock.                                     *)

\* The outcomes of the two handshakes: the call's return and conn_id.  When
\* the back end refuses both versions, rpc_handshake returns 0 all the same,
\* and the sub handshake is what fails then.
rpc_handshake ==
    {[ret |-> r, conn |-> c] : r \in {"ok", "error"}, c \in {0, 1}}
rpc_sub_handshake(conn) == IF conn = 0 THEN {"error"} ELSE {"ok", "error"}

\* A failure after the first handshake drops the connection and asks the
\* client to try again.
hgsl_rpc_create_channel ==
    LET sub(conn, first) ==
            {[ret |-> IF r = "error" /\ first THEN "again" ELSE r,
              conn |-> IF r = "error" /\ first THEN 0 ELSE conn] : r \in rpc_sub_handshake(conn)}
    IN  {[ret |-> "error", conn |-> conn_id]} \cup
        IF conn_id # 0 THEN sub(conn_id, FALSE)
        ELSE UNION {IF h.ret = "ok" THEN sub(h.conn, TRUE) ELSE {h} : h \in rpc_handshake}

\* idr_alloc: the lowest id.
FreeIds == {c \in Channels : chan[c].sock = "none"}
NewId == CHOOSE c \in FreeIds : \A d \in FreeIds : c <= d

Without(s, c) == SelectSeq(s, LAMBDA d : d # c)

\* The thread now owns channel c, its parcels reset.
Take(t, c, sock) ==
    /\ busy_channels' = Append(busy_channels, c)
    /\ chan' = [chan EXCEPT ![c].sock = sock, ![c].busy = TRUE, ![c].parcel = <<>>]
    /\ thr' = [thr EXCEPT ![t].ch = c, ![t].pc = "fill"]

GetFails(t, ret) ==
    thr' = [thr EXCEPT ![t] = [Idle EXCEPT !.ret = ret]]

\* Mutant: the channel stays on the free list.
Mut_get_without_list_del(t) ==
    /\ thr[t].pc = "get" /\ thr[t].channel_id = 0
    /\ free_channels # <<>>
    /\ free_channels' = free_channels
    /\ Take(t, Head(free_channels), chan[Head(free_channels)].sock)
    /\ UNCHANGED <<conn_id, calls, executed, faults, closer, mixups>>

\* hgsl_hyp_channel_pool_get with id 0: the first free channel, else a new one.
PoolGetFree(t) ==
    /\ thr[t].pc = "get" /\ thr[t].channel_id = 0
    /\ free_channels # <<>>
    /\ free_channels' = Tail(free_channels)
    /\ Take(t, Head(free_channels), chan[Head(free_channels)].sock)
    /\ UNCHANGED <<conn_id, calls, executed, faults, closer, mixups>>

PoolGetNew(t) ==
    /\ thr[t].pc = "get" /\ thr[t].channel_id = 0
    /\ free_channels = <<>>
    /\ \E r \in hgsl_rpc_create_channel :
          /\ conn_id' = r.conn
          /\ IF r.ret = "ok"
             THEN /\ FreeIds # {}
                  /\ Take(t, NewId, "open")
                  /\ UNCHANGED faults
             ELSE /\ Fault \/ (FreeIds = {} /\ UNCHANGED faults)
                  /\ GetFails(t, r.ret)
                  /\ UNCHANGED <<busy_channels, chan>>
    /\ UNCHANGED <<free_channels, calls, executed, closer, mixups>>

\* hgsl_hyp_channel_pool_get with an id: the channel must wait for a retry, be
\* it the caller's or not, and may be busy with one already.  The parcels stay
\* as they are.
PoolGetById(t) ==
    LET c == thr[t].channel_id IN
    /\ thr[t].pc = "get" /\ c # 0
    /\ IF chan[c].sock # "none" /\ chan[c].wait_retry
       THEN /\ chan' = [chan EXCEPT ![c].busy = TRUE]
            /\ thr' = [thr EXCEPT ![t].ch = c, ![t].pc = "fill"]
            /\ shared' = IF chan[c].busy THEN shared \cup {c} ELSE shared
            /\ strays' = IF chan[c].parcel # <<thr[t].n>> THEN strays \cup {c} ELSE strays
       ELSE GetFails(t, "error") /\ UNCHANGED <<chan, mixups>>
    /\ UNCHANGED <<pool, conn_id, calls, executed, faults, closer>>

\* hgsl_hyp_channel_pool_put: from the list it is on to the tail of the free
\* list.
PoolPut(t) ==
    LET c == thr[t].ch IN
    /\ thr[t].pc = "put"
    /\ busy_channels' = Without(busy_channels, c)
    /\ free_channels' = Append(Without(free_channels, c), c)
    /\ chan' = [chan EXCEPT ![c].busy = FALSE]
    /\ thr' = [thr EXCEPT ![t] = Idle]
    /\ UNCHANGED <<conn_id, calls, executed, faults, closer, mixups>>

-----------------------------------------------------------------------------
(* A client's calls.                                                       *)

\* A new call, possibly abandoning an interrupted one.
Begin(t, rpc) ==
    /\ closer[1] = "open"
    /\ thr[t].pc = "idle" /\ calls < MaxCalls
    /\ calls' = calls + 1
    /\ thr' = [thr EXCEPT ![t] = [Idle EXCEPT !.pc = "get", !.rpc = rpc, !.n = calls']]
    /\ UNCHANGED <<pool, chan, conn_id, executed, faults, closer, mixups>>

\* A new call of a kind that takes a channel id, with an id that the client did
\* not get from this call (another thread's, an old one, any).
BeginById(t, rpc, c) ==
    /\ closer[1] = "open"
    /\ thr[t].pc = "idle" /\ calls < MaxCalls /\ rpc.intr
    /\ calls' = calls + 1
    /\ thr' = [thr EXCEPT ![t] = [Idle EXCEPT !.pc = "get", !.rpc = rpc, !.n = calls',
                                             !.channel_id = c]]
    /\ UNCHANGED <<pool, chan, conn_id, executed, faults, closer, mixups>>

\* The interrupted call again, with the channel id the driver returned.
Retry(t) ==
    /\ closer[1] = "open"
    /\ thr[t].pc = "idle" /\ thr[t].channel_id # 0
    /\ thr' = [thr EXCEPT ![t].pc = "get"]
    /\ UNCHANGED <<pool, chan, conn_id, calls, executed, faults, closer, mixups>>

\* The holder of a channel makes its next call on it.
NextHeld(t, rpc) ==
    /\ thr[t].pc = "put" /\ thr[t].rpc.held /\ rpc.held /\ calls < MaxCalls
    /\ calls' = calls + 1
    /\ thr' = [thr EXCEPT ![t].pc = "fill", ![t].rpc = rpc, ![t].n = calls',
                          ![t].ret = "none"]
    /\ UNCHANGED <<pool, chan, conn_id, executed, faults, closer, mixups>>

\* The call is over; one of them keeps the channel when it fails.
Finish(t, ret) ==
    thr' = [thr EXCEPT ![t] = IF @.rpc.leaks /\ ret # "ok" THEN [Idle EXCEPT !.ret = ret]
                              ELSE [@ EXCEPT !.ret = ret, !.pc = "put"]]

\* Write the arguments, unless the request of a retried call is out already.
\* What is written before the call (habmm_export) may fail as a write does.  A
\* call to issue commands came without them when it came with a channel id.
Fill(t) ==
    LET c == thr[t].ch
        before == IF thr[t].rpc.resets THEN <<>> ELSE chan[c].parcel
        written == [chan EXCEPT ![c].parcel = Append(before, thr[t].n)]
        retried == thr[t].rpc.intr /\ chan[c].wait_retry
        nothing == thr[t].rpc.intr /\ ~thr[t].rpc.resets /\ thr[t].channel_id # 0
    IN  /\ thr[t].pc = "fill"
        /\ \/ /\ retried
              /\ thr' = [thr EXCEPT ![t].pc = "send"]
              /\ UNCHANGED <<chan, faults>>
           \/ /\ ~retried /\ nothing
              /\ Finish(t, "error")
              /\ UNCHANGED <<chan, faults>>
           \/ /\ ~retried /\ ~nothing
              /\ chan' = written
              /\ thr' = [thr EXCEPT ![t].pc = "send"]
              /\ UNCHANGED faults
           \/ /\ ~retried /\ ~nothing
              /\ chan' = written
              /\ Fault
              /\ Finish(t, "error")
        /\ UNCHANGED <<pool, conn_id, calls, executed, closer, mixups>>

\* Mutant: a retried call is sent again.
Mut_resend(t) ==
    LET c == thr[t].ch IN
    /\ thr[t].pc = "send"
    /\ chan' = [chan EXCEPT ![c].req = IF chan[c].sock = "open"
                                      THEN Append(@, chan[c].parcel) ELSE @]
    /\ thr' = [thr EXCEPT ![t].pc = "recv"]
    /\ UNCHANGED <<pool, conn_id, calls, executed, faults, closer, mixups>>

\* gsl_rpc_transact_ext up to the receive: a retried call has been sent.
Send(t) ==
    LET c == thr[t].ch IN
    /\ thr[t].pc = "send"
    /\ \/ /\ chan[c].wait_retry /\ thr[t].rpc.intr
          /\ thr' = [thr EXCEPT ![t].pc = "recv"]
          /\ UNCHANGED chan
       \/ /\ chan[c].wait_retry /\ ~thr[t].rpc.intr
          /\ Finish(t, "error")
          /\ UNCHANGED chan
       \/ /\ ~chan[c].wait_retry /\ chan[c].sock = "open"
          /\ chan' = [chan EXCEPT ![c].req = Append(@, chan[c].parcel)]
          /\ thr' = [thr EXCEPT ![t].pc = "recv"]
       \/ /\ ~chan[c].wait_retry /\ chan[c].sock = "broken"
          /\ Finish(t, "error")
          /\ UNCHANGED chan
    /\ UNCHANGED <<pool, conn_id, calls, executed, faults, closer, mixups>>

\* What a call returns for the status of its reply.
RetOf(rpc, status) ==
    CASE rpc.rval = "out" \/ status = "success" -> "ok"
      [] rpc.rval = "timed" /\ status = "timeout" -> "timeout"
      [] OTHER -> "error"

\* Mutant: an interrupted call leaves busy set.
Mut_keep_busy(ch) == [ch EXCEPT !.wait_retry = TRUE]

\* The flags of the channel when the transaction is over
\* (gsl_rpc_transact, gsl_rpc_transact_interrruptible).
Transacted(rpc, ch) == IF rpc.intr THEN [ch EXCEPT !.wait_retry = FALSE] ELSE ch
Interrupted(ch) == [ch EXCEPT !.busy = FALSE, !.wait_retry = TRUE]

\* The reply is there: the call reads it, or finds it malformed, or takes it for
\* what it is, the reply to a call of another kind.
Receive(t) ==
    LET c == thr[t].ch IN
    /\ thr[t].pc = "recv" /\ chan[c].rsp # <<>>
    /\ chan' = [chan EXCEPT ![c] = Transacted(thr[t].rpc, [@ EXCEPT !.rsp = Tail(@)])]
    /\ \/ Finish(t, RetOf(thr[t].rpc, Head(chan[c].rsp).status)) /\ UNCHANGED faults
       \/ Finish(t, "error") /\ Fault
       \/ /\ Head(chan[c].rsp).call # thr[t].n
          /\ Finish(t, "error")
          /\ UNCHANGED faults
    /\ UNCHANGED <<pool, conn_id, calls, executed, closer, mixups>>

\* The socket broke.
ReceiveFails(t) ==
    LET c == thr[t].ch IN
    /\ thr[t].pc = "recv" /\ chan[c].sock = "broken"
    /\ chan' = [chan EXCEPT ![c] = Transacted(thr[t].rpc, @)]
    /\ Finish(t, "error")
    /\ UNCHANGED <<pool, conn_id, calls, executed, faults, closer, mixups>>

\* A signal ends an interruptible wait: the call returns with the channel's
\* id and does not put the channel.
ReceiveInterrupted(t) ==
    LET c == thr[t].ch IN
    /\ thr[t].pc = "recv" /\ thr[t].rpc.intr
    /\ chan[c].rsp = <<>> /\ chan[c].sock = "open"
    /\ chan' = [chan EXCEPT ![c] = Interrupted(@)]
    /\ thr' = [thr EXCEPT ![t].pc = "idle", ![t].ch = 0, ![t].channel_id = c,
                          ![t].ret = "eintr"]
    /\ UNCHANGED <<pool, conn_id, calls, executed, faults, closer, mixups>>

-----------------------------------------------------------------------------
(* The back end and HAB (external).                                        *)

\* The back end executes the next request of a channel and replies.  (A request
\* without the arguments of a call counts for none.)
NoCall == 0
Execute(c) ==
    /\ chan[c].sock = "open" /\ chan[c].req # <<>>
    /\ LET request == Head(chan[c].req)
           call == IF request = <<>> THEN NoCall ELSE Head(request)
       IN
       \E s \in Status :
          /\ chan' = [chan EXCEPT ![c].req = Tail(@),
                                  ![c].rsp = Append(@, [call |-> call, status |-> s])]
          /\ executed' = IF call = NoCall THEN executed
                         ELSE [executed EXCEPT ![call] = @ + 1]
    /\ UNCHANGED <<pool, conn_id, thr, calls, faults, closer, mixups>>

\* A socket breaks, and what was on its way is lost.
Break(c) ==
    /\ chan[c].sock = "open"
    /\ Fault
    /\ chan' = [chan EXCEPT ![c].sock = "broken", ![c].req = <<>>, ![c].rsp = <<>>]
    /\ UNCHANGED <<pool, conn_id, thr, calls, executed, closer, mixups>>

-----------------------------------------------------------------------------
(* hgsl_hyp_close.  It runs on the release of the file, after the last     *)
(* ioctl.                                                                  *)

CloseBegin ==
    /\ closer[1] = "open" /\ \A t \in Threads : thr[t].pc = "idle"
    /\ closer' = <<"sweep", 0>>
    /\ UNCHANGED <<pool, chan, conn_id, thr, calls, executed, faults, mixups>>

\* hgsl_hyp_put_waiting_channel: the parked channels go to the free list; the
\* close goes on when no channel is busy, and looks again later else.
Waiting(c) == ~chan[c].busy
Sweep ==
    LET waiting == SelectSeq(busy_channels, Waiting) IN
    /\ closer[1] = "sweep"
    /\ free_channels' = free_channels \o waiting
    /\ busy_channels' = SelectSeq(busy_channels, LAMBDA c : ~Waiting(c))
    /\ chan' = [c \in Channels |-> IF c \in ToSet(waiting)
                                   THEN [chan[c] EXCEPT !.wait_retry = FALSE]
                                   ELSE chan[c]]
    /\ closer' = IF busy_channels' = <<>> THEN <<"close", 0>> ELSE closer
    /\ UNCHANGED <<conn_id, thr, calls, executed, faults, mixups>>

\* hgsl_hyp_close_channel: tell the back end ...
CloseChannel ==
    LET c == Head(free_channels) IN
    /\ closer[1] = "close" /\ free_channels # <<>>
    /\ free_channels' = Tail(free_channels)
    /\ IF chan[c].sock = "open" /\ ~chan[c].wait_retry
       THEN /\ chan' = [chan EXCEPT ![c].parcel = <<>>,
                                    ![c].req = Append(@, <<NoCall>>)]
            /\ closer' = <<"disconnect", c>>
       ELSE /\ chan' = [chan EXCEPT ![c] = NoChannel]
            /\ closer' = closer
    /\ UNCHANGED <<busy_channels, conn_id, thr, calls, executed, faults, mixups>>

\* ... and close on any reply, be it one that an abandoned call left behind,
\* or on the failure to receive one.
Disconnected ==
    LET c == closer[2] IN
    /\ closer[1] = "disconnect"
    /\ chan[c].rsp # <<>> \/ chan[c].sock = "broken"
    /\ chan' = [chan EXCEPT ![c] = NoChannel]
    /\ closer' = <<"close", 0>>
    /\ UNCHANGED <<pool, conn_id, thr, calls, executed, faults, mixups>>

CloseEnd ==
    /\ closer[1] = "close" /\ free_channels = <<>>
    /\ conn_id' = 0
    /\ closer' = <<"closed", 0>>
    /\ UNCHANGED <<pool, chan, thr, calls, executed, faults, mixups>>

-----------------------------------------------------------------------------
CallStep(t) ==
    \/ PoolGetFree(t) \/ PoolGetNew(t) \/ PoolGetById(t)
    \/ Fill(t) \/ Send(t) \/ Receive(t) \/ ReceiveFails(t) \/ PoolPut(t)

CloseStep == Sweep \/ CloseChannel \/ Disconnected \/ CloseEnd

Next ==
    \/ \E t \in Threads :
          \/ \E rpc \in Calls :
                \/ Begin(t, rpc) \/ NextHeld(t, rpc)
                \/ \E c \in Channels : BeginById(t, rpc, c)
          \/ Retry(t) \/ ReceiveInterrupted(t)
          \/ CallStep(t)
    \/ \E c \in Channels : Execute(c) \/ Break(c)
    \/ CloseBegin \/ CloseStep

Spec == Init /\ [][Next]_vars

\* The threads and the closer run; the back end answers what it was sent (a
\* wait for a timestamp is sent in slices of bounded length).
FairSpec ==
    /\ Spec
    /\ \A t \in Threads : WF_vars(CallStep(t))
    /\ \A c \in Channels : WF_vars(Execute(c))
    /\ WF_vars(CloseStep)

-----------------------------------------------------------------------------
(* Properties.                                                             *)

\* A thread between the get and the put of a channel.
Using(c) == {t \in Threads : thr[t].ch = c /\ thr[t].pc \in {"fill", "send", "recv", "put"}}

\* The thread whose interrupted call waits on channel c, if it still means to
\* retry it.
Waiters(c) == {t \in Threads : /\ thr[t].channel_id = c /\ thr[t].ret = "eintr"
                             /\ thr[t].pc \in {"idle", "get"}}

\* Types; and a channel is linked into a list at most once (list_add_tail of
\* a linked node corrupts both lists).
TypeOK ==
    /\ free_channels \in Seq(Channels) /\ busy_channels \in Seq(Channels)
    /\ Len(free_channels \o busy_channels) =
          Cardinality(ToSet(free_channels) \cup ToSet(busy_channels))
    /\ \A c \in Channels :
          /\ chan[c].sock \in {"none", "open", "broken"}
          /\ {chan[c].busy, chan[c].wait_retry} \subseteq BOOLEAN
          /\ \A i \in DOMAIN chan[c].rsp : chan[c].rsp[i].status \in Status
    /\ conn_id \in {0, 1}
    /\ \A t \in Threads :
          /\ thr[t].pc \in {"idle", "get", "fill", "send", "recv", "put"}
          /\ thr[t].rpc \in Calls
          /\ {thr[t].ch, thr[t].channel_id} \subseteq 0 .. NumChannels
          /\ thr[t].n \in 0 .. MaxCalls
          /\ thr[t].ret \in Returns
    /\ faults \in 0 .. MaxFaults

\* A channel is used by one thread at a time, and while it is, it is on the
\* busy list and marked so (hgsl_hyp_channel_pool_get and _put, and the
\* parking of an interrupted call).  The exception is a channel that
\* hgsl_hyp_channel_pool_get_by_id, which does not look at busy, has handed out
\* a second time; even then it stays on one list.
PoolExclusive ==
    /\ TypeOK
    /\ \A c \in Channels \ shared :
          /\ Cardinality(Using(c)) <= 1
          /\ Using(c) # {} => c \in ToSet(busy_channels) /\ chan[c].busy
          /\ c \in ToSet(free_channels) => ~chan[c].busy /\ ~chan[c].wait_retry

\* The channels that were only ever retried by the call parked on them.
Unmixed == Channels \ (shared \cup strays)

\* What goes over a socket is the arguments of one call: the parcel is reset
\* between calls, by the pool or by the holder of the channel.  A reply that a
\* thread is about to read answers its own call, and nothing of an earlier call
\* is left on a free channel.
CallsSeparate ==
    /\ \A c \in Unmixed : \A i \in DOMAIN chan[c].req : Len(chan[c].req[i]) = 1
    /\ \A t \in Threads : thr[t].pc = "recv" /\ thr[t].ch \in Unmixed =>
          \A i \in DOMAIN chan[thr[t].ch].rsp : chan[thr[t].ch].rsp[i].call = thr[t].n
    /\ closer[1] = "open" =>
          \A c \in ToSet(free_channels) \cap Unmixed : chan[c].req = <<>> /\ chan[c].rsp = <<>>

\* A client that retries finds its channel parked, with the request of its own
\* call as the last one out, or its reply there, or the socket broken.
RetryFindsCall ==
    closer[1] = "open" =>
        \A c \in Unmixed : \A t \in Waiters(c) :
            /\ Waiters(c) = {t} /\ Using(c) = {}
            /\ c \in ToSet(busy_channels) /\ chan[c].wait_retry
            /\ \/ chan[c].sock = "broken"
               \/ chan[c].req = <<<<thr[t].n>>>> /\ chan[c].rsp = <<>>
               \/ /\ chan[c].req = <<>>
                  /\ \E s \in Status : chan[c].rsp = <<[call |-> thr[t].n, status |-> s]>>

\* Across interruptions, retries and abandoned calls, calls do not mix (the
\* opcode test of gsl_rpc_transact_ext could not tell two replies of a kind
\* apart), a retry meets its own call, the back end never executes a call twice,
\* and it has executed every call that returned 0.  (The close of the pool frees
\* parked channels, to disconnect them.)  The exception is a channel got with an
\* id that was not the caller's, or twice at a time: a call that starts there
\* reads a reply of another, and a shared request is sent twice.
AtMostOnce ==
    /\ CallsSeparate
    /\ RetryFindsCall
    /\ Unmixed = Channels =>
          /\ \A n \in 1 .. MaxCalls : executed[n] <= 1
          /\ \A t \in Threads :
                thr[t].pc = "put" /\ thr[t].ret \in {"ok", "timeout"} => executed[thr[t].n] = 1

\* A channel that a failed call kept for good (hgsl_hyp_deinit_ipcq).
Leaked(c) ==
    /\ c \in ToSet(busy_channels) /\ Using(c) = {}
    /\ chan[c].busy /\ (chan[c].wait_retry => c \in shared)

\* The close of the pool ends, whatever calls were abandoned or given ids that
\* were not theirs, unless a failed call has leaked its channel.
CloseTerminates ==
    (closer[1] = "sweep" /\ \A c \in Channels : ~Leaked(c)) ~> closer[1] = "closed"
=============================================================================
