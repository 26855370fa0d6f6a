------------------------------- MODULE HgslMem -------------------------------
(***************************************************************************)
(* GPU memory of a process, and the release of the process (hgsl.c,        *)
(* hgsl_memory.c, and the two mapping calls of hgsl_hyp.c).                *)
(*                                                                         *)
(* The driver keeps one hgsl_priv per process that has the device open,    *)
(* and in it two trees of memory nodes keyed by GPU address: memory it     *)
(* allocated, and buffers of others it mapped.  An allocated node lives as *)
(* long as its dma_buf, which user space may hold by file descriptors.     *)
(* The last close moves the hgsl_priv to release_list, where a worker      *)
(* unmaps and frees what is left.  The host that maps the memory is        *)
(* external: it hands out addresses, and its answers may be lost.          *)
(* Mappings made by the driver's own MMU code (use_fv) are left out, and   *)
(* so are cache operations on buffers of others.                           *)
(***************************************************************************)
EXTENDS Integers, FiniteSets, Sequences

CONSTANTS
    Threads,      \* threads of the process
    NumPrivs,     \* bound on the hgsl_priv structures
    NumNodes,     \* bound on the memory nodes
    NumAddrs,     \* GPU addresses of the host
    MaxOpens,     \* bound on the open files of a priv
    MaxFds,       \* bound on the descriptors of a node when one more is asked for
    MaxFaults     \* bound on failures of the host and of the file table

Privs == 1 .. NumPrivs
Nodes == 1 .. NumNodes
Addrs == 1 .. NumAddrs

ASSUME MemAssumption ==
    /\ {NumPrivs, NumNodes, NumAddrs, MaxOpens, MaxFds, MaxFaults} \subseteq Nat
    /\ MaxOpens # 0 /\ IsFiniteSet(Threads)

VARIABLES
    priv,         \* the hgsl_priv structures
    release_list, \* hgsl->release_list
    release_work, \* hgsl->release_work is queued
    worker,       \* hgsl_release_worker: where it is, its priv, the last result
    node,         \* the memory nodes
    tree,         \* nodes in priv->mem_allocated and priv->mem_mapped
    host,         \* the node mapped at each address, 0 for none
    pc,           \* where each thread is
    at,           \* the node in its hands, 0 for none
    of,           \* the priv of the file it uses, 0 for none
    ignored,      \* nodes that are freed in spite of a failed call to the host
    faults

vars == <<priv, release_list, release_work, worker, node, tree, host, pc, at, of,
          ignored, faults>>
privVars == <<priv, release_list, release_work, worker>>

\* own: the reference of the node on its dma_buf; refs: all references on it.
NoNode == [st |-> "none", priv |-> 0, kind |-> "alloc", gpuaddr |-> 0, export_id |-> FALSE,
           own |-> FALSE, refs |-> 0, fds |-> 0, sgt_ext |-> FALSE]

Init ==
    /\ priv = [v \in Privs |-> [st |-> "none", open_count |-> 0]]
    /\ release_list = <<>> /\ release_work = FALSE
    /\ worker = [pc |-> "idle", v |-> 0, ret |-> 0]
    /\ node = [n \in Nodes |-> NoNode]
    /\ tree = [v \in Privs |-> [k \in {"alloc", "map"} |-> {}]]
    /\ host = [g \in Addrs |-> 0]
    /\ pc = [t \in Threads |-> "idle"]
    /\ at = [t \in Threads |-> 0]
    /\ of = [t \in Threads |-> 0]
    /\ ignored = {} /\ faults = 0

Go(t, where) == pc' = [pc EXCEPT ![t] = where]
Return(t) == Go(t, "idle") /\ at' = [at EXCEPT ![t] = 0] /\ of' = [of EXCEPT ![t] = 0]
Fault == faults < MaxFaults /\ faults' = faults + 1

-----------------------------------------------------------------------------
(* Files: hgsl_open and hgsl_release, under hgsl->mutex.                   *)

hgsl_open ==
    LET active == {v \in Privs : priv[v].st = "active"}
        unused == {v \in Privs : priv[v].st = "none"}
    IN  /\ \/ \E v \in active :
                 /\ priv[v].open_count < MaxOpens
                 /\ priv' = [priv EXCEPT ![v].open_count = @ + 1]
           \/ /\ active = {} /\ unused # {}
              /\ priv' = [priv EXCEPT ![CHOOSE v \in unused : \A w \in unused : v <= w] =
                                          [st |-> "active", open_count |-> 1]]
        /\ UNCHANGED <<release_list, release_work, worker, node, tree, host, pc, at, of,
                       ignored, faults>>

\* A file is released once no ioctl runs on it; threads may share a file.
Unused(v) == priv[v].open_count > 1 \/ \A t \in Threads : of[t] # v

\* A plausible mistake: no work is queued while the worker runs.
Mut_release_no_queue(v) ==
    /\ priv[v].st = "active" /\ Unused(v)
    /\ IF priv[v].open_count > 1
       THEN /\ priv' = [priv EXCEPT ![v].open_count = @ - 1]
            /\ UNCHANGED <<release_list, release_work>>
       ELSE /\ priv' = [priv EXCEPT ![v] = [st |-> "listed", open_count |-> 0]]
            /\ release_list' = <<v>> \o release_list
            /\ release_work' = (release_work \/ worker.pc = "idle")
    /\ UNCHANGED <<worker, node, tree, host, pc, at, of, ignored, faults>>

hgsl_release(v) ==
    /\ priv[v].st = "active" /\ Unused(v)
    /\ IF priv[v].open_count > 1
       THEN /\ priv' = [priv EXCEPT ![v].open_count = @ - 1]
            /\ UNCHANGED <<release_list, release_work>>
       ELSE /\ priv' = [priv EXCEPT ![v] = [st |-> "listed", open_count |-> 0]]
            /\ release_list' = <<v>> \o release_list
            /\ release_work' = TRUE
    /\ UNCHANGED <<worker, node, tree, host, pc, at, of, ignored, faults>>

-----------------------------------------------------------------------------
(* Nodes.                                                                  *)

\* dma_buf_put: the last reference frees pages and node (hgsl_mem_free_actual).
RefPut(n) == [n EXCEPT !.refs = @ - 1, !.st = IF n.refs = 1 THEN "freed" ELSE @]

\* hgsl_put_sgt: the scatter list of a cache operation holds a reference.
hgsl_put_sgt(n) == IF n.sgt_ext THEN [RefPut(n) EXCEPT !.sgt_ext = FALSE] ELSE n

\* hgsl_sharedmem_free of an allocated node, hgsl_free of a mapped one.
hgsl_sharedmem_free(n) ==
    IF n.kind = "alloc"
    THEN [RefPut(hgsl_put_sgt(n)) EXCEPT !.own = FALSE]
    ELSE [n EXCEPT !.st = "freed"]

\* hgsl_mem_add_node fails (-EEXIST) on an address the tree has.
hgsl_mem_add_node(n) ==
    {tr \in {[tree EXCEPT ![node[n].priv][node[n].kind] = @ \cup {n}]} :
        \A m \in tree[node[n].priv][node[n].kind] : node[m].gpuaddr # node[n].gpuaddr}

\* hgsl_hyp_mem_unmap_smmu: the call to the host, when the node has an address
\* (the host knows a mapping by address and export), then the unexport.  Each
\* may fail, and the answer may be lost.
UnmapHost(n) == [g \in Addrs |-> IF host[g] = n /\ g = node[n].gpuaddr THEN 0 ELSE host[g]]

UnmapSucceeds(n) ==
    /\ node[n].gpuaddr # 0 => host[node[n].gpuaddr] = n
    /\ host' = UnmapHost(n) /\ UNCHANGED faults

UnmapFails(n) ==
    \/ node[n].gpuaddr # 0 /\ host[node[n].gpuaddr] # n /\ UNCHANGED <<host, faults>>
    \/ /\ node[n].gpuaddr # 0 \/ node[n].export_id
       /\ Fault /\ host' \in {host, UnmapHost(n)}

-----------------------------------------------------------------------------
(* hgsl_ioctl_mem_alloc and hgsl_ioctl_mem_map_smmu.                       *)

Idle(t, v) == pc[t] = "idle" /\ priv[v].st = "active"

\* hgsl_mem_node_zalloc, and hgsl_sharedmem_alloc with hgsl_export_dma_buf.
Begin(t, v, kind) ==
    LET unused == {n \in Nodes : node[n].st = "none"}
        n == CHOOSE m \in unused : \A k \in unused : m <= k
    IN  /\ Idle(t, v) /\ unused # {}
        /\ node' = [node EXCEPT ![n] =
                      [NoNode EXCEPT !.st = "live", !.priv = v, !.kind = kind,
                                     !.own = (kind = "alloc"),
                                     !.refs = IF kind = "alloc" THEN 1 ELSE 0]]
        /\ Go(t, "map") /\ at' = [at EXCEPT ![t] = n] /\ of' = [of EXCEPT ![t] = v]
        /\ UNCHANGED <<privVars, tree, host, ignored, faults>>

\* hgsl_hyp_mem_map_smmu; export_id is kept even when the call fails.
hgsl_hyp_mem_map_smmu(t) ==
    LET n == at[t] IN
    /\ pc[t] = "map"
    /\ \/ \E g \in Addrs :
             /\ host[g] = 0 /\ host' = [host EXCEPT ![g] = n]
             /\ \/ /\ node' = [node EXCEPT ![n].gpuaddr = g, ![n].export_id = TRUE]
                   /\ Go(t, "add") /\ UNCHANGED <<ignored, faults>>
                \/ /\ Fault /\ ignored' = ignored \cup {n}
                   /\ node' = [node EXCEPT ![n].export_id = TRUE]
                   /\ Go(t, "undo")
       \/ /\ Fault /\ ignored' = ignored \cup {n}
          /\ \E e \in BOOLEAN : node' = [node EXCEPT ![n].export_id = e]
          /\ Go(t, "undo") /\ UNCHANGED host
    /\ UNCHANGED <<privVars, tree, at, of>>

\* The descriptor of the memory cannot be copied to user space.
CopyFails(t) ==
    /\ pc[t] = "add"
    /\ Go(t, "undo")
    /\ UNCHANGED <<privVars, tree, node, host, at, of, ignored, faults>>

\* Under priv->lock; an allocated node comes with a descriptor, which gets a
\* reference first.
Add(t) ==
    LET n == at[t] IN
    /\ pc[t] = "add"
    /\ IF hgsl_mem_add_node(n) # {}
       THEN /\ tree' \in hgsl_mem_add_node(n)
            /\ node' = IF node[n].kind = "alloc"
                       THEN [node EXCEPT ![n].refs = @ + 1, ![n].fds = @ + 1] ELSE node
            /\ Return(t)
       ELSE Go(t, "undo") /\ UNCHANGED <<tree, node, at, of>>
    /\ UNCHANGED <<privVars, host, ignored, faults>>

\* The error path frees the node whether or not it can be unmapped.
Undo(t) ==
    LET n == at[t] IN
    /\ pc[t] = "undo"
    /\ \/ UnmapSucceeds(n) /\ UNCHANGED ignored
       \/ UnmapFails(n) /\ ignored' = ignored \cup {n}
    /\ node' = [node EXCEPT ![n] = hgsl_sharedmem_free(@)]
    /\ Return(t)
    /\ UNCHANGED <<privVars, tree>>

-----------------------------------------------------------------------------
(* hgsl_ioctl_mem_free and hgsl_ioctl_mem_unmap_smmu.                      *)

\* A plausible mistake: the node stays in the tree while it is unmapped.
Mut_take_keeps(t, v, n) ==
    /\ Idle(t, v) /\ n \in tree[v]["alloc"] \cup tree[v]["map"]
    /\ Go(t, "unmap") /\ at' = [at EXCEPT ![t] = n] /\ of' = [of EXCEPT ![t] = v]
    /\ UNCHANGED <<privVars, tree, node, host, ignored, faults>>

\* Under priv->lock.
Take(t, v, n) ==
    /\ Idle(t, v) /\ n \in tree[v]["alloc"] \cup tree[v]["map"]
    /\ tree' = [tree EXCEPT ![v][node[n].kind] = @ \ {n}]
    /\ Go(t, "unmap") /\ at' = [at EXCEPT ![t] = n] /\ of' = [of EXCEPT ![t] = v]
    /\ UNCHANGED <<privVars, node, host, ignored, faults>>

\* A plausible mistake: the result of the unmap is not looked at.
Mut_free_anyway(t) ==
    LET n == at[t] IN
    /\ pc[t] = "unmap"
    /\ UnmapSucceeds(n) \/ UnmapFails(n)
    /\ node' = [node EXCEPT ![n] = hgsl_sharedmem_free(@)]
    /\ Return(t)
    /\ UNCHANGED <<privVars, tree, ignored>>

Unmap(t) ==
    LET n == at[t] IN
    /\ pc[t] = "unmap"
    /\ \/ /\ UnmapSucceeds(n)
          /\ node' = [node EXCEPT ![n] = hgsl_sharedmem_free(@)]
          /\ Return(t)
       \/ UnmapFails(n) /\ Go(t, "readd") /\ UNCHANGED <<node, at, of>>
    /\ UNCHANGED <<privVars, tree, ignored>>

\* Back into the tree, to be freed later.  A node whose address the host has
\* given away meanwhile may find it taken, and is out of reach for good.
Readd(t) ==
    LET n == at[t] IN
    /\ pc[t] = "readd"
    /\ IF hgsl_mem_add_node(n) # {}
       THEN tree' \in hgsl_mem_add_node(n) /\ UNCHANGED node
       ELSE node' = [node EXCEPT ![n].st = "leaked"] /\ UNCHANGED tree
    /\ Return(t)
    /\ UNCHANGED <<privVars, host, ignored, faults>>

-----------------------------------------------------------------------------
(* hgsl_ioctl_mem_get_fd, hgsl_ioctl_mem_cache_operation; user space       *)
(* closing a descriptor.                                                   *)

GetFd(t, v, n) ==
    /\ Idle(t, v) /\ n \in tree[v]["alloc"] /\ node[n].fds < MaxFds
    /\ node' = [node EXCEPT ![n].refs = @ + 1]
    /\ Go(t, "fd") /\ at' = [at EXCEPT ![t] = n] /\ of' = [of EXCEPT ![t] = v]
    /\ UNCHANGED <<privVars, tree, host, ignored, faults>>

\* dma_buf_fd, without the lock.
InstallFd(t) ==
    /\ pc[t] = "fd"
    /\ \/ node' = [node EXCEPT ![at[t]].fds = @ + 1] /\ UNCHANGED faults
       \/ node' = [node EXCEPT ![at[t]] = RefPut(@)] /\ Fault
    /\ Return(t)
    /\ UNCHANGED <<privVars, tree, host, ignored>>

CloseFd(n) ==
    /\ node[n].fds > 0
    /\ node' = [node EXCEPT ![n] = [RefPut(node[n]) EXCEPT !.fds = @ - 1]]
    /\ UNCHANGED <<privVars, tree, host, pc, at, of, ignored, faults>>

\* hgsl_mem_cache_op with hgsl_get_sgt_internal, under priv->lock.
CacheOp(v, n) ==
    /\ priv[v].st = "active"
    /\ n \in tree[v]["alloc"] /\ ~node[n].sgt_ext
    /\ node' = [node EXCEPT ![n].sgt_ext = TRUE, ![n].refs = @ + 1]
    /\ UNCHANGED <<privVars, tree, host, pc, at, of, ignored, faults>>

-----------------------------------------------------------------------------
(* hgsl_release_worker and hgsl_cleanup.                                   *)

WorkerStart ==
    /\ worker.pc = "idle" /\ release_work
    /\ release_work' = FALSE
    /\ worker' = [worker EXCEPT !.pc = "loop"]
    /\ UNCHANGED <<priv, release_list, node, tree, host, pc, at, of, ignored, faults>>

WorkerLoop ==
    /\ worker.pc = "loop"
    /\ IF release_list = <<>>
       THEN worker' = [worker EXCEPT !.pc = "stop"] /\ UNCHANGED <<priv, release_list>>
       ELSE LET v == Head(release_list) IN
            /\ release_list' = Tail(release_list)
            /\ priv' = [priv EXCEPT ![v].st = "releasing"]
            /\ worker' = [pc |-> "cleanup", v |-> v, ret |-> 0]
    /\ UNCHANGED <<release_work, node, tree, host, pc, at, of, ignored, faults>>

\* The worker has seen an empty list, let go of the mutex, and returns.
WorkerStop ==
    /\ worker.pc = "stop"
    /\ worker' = [worker EXCEPT !.pc = "idle"]
    /\ UNCHANGED <<priv, release_list, release_work, node, tree, host, pc, at, of, ignored,
                   faults>>

Left(v) == tree[v]["alloc"] \cup tree[v]["map"]

\* Done with worker.v: freed, or left behind (neither freed nor requeued) when
\* an error other than -ETIMEDOUT came out of hgsl_cleanup.
Released(st) ==
    /\ priv' = [priv EXCEPT ![worker.v].st = st]
    /\ worker' = [pc |-> "loop", v |-> 0, ret |-> 0]

\* No memory: done.  Otherwise a channel is needed (-EINVAL without one) and
\* the host is asked whether the GPU is done with the memory.
CleanupDone ==
    /\ worker.pc = "cleanup" /\ Left(worker.v) = {}
    /\ Released("freed")
    /\ UNCHANGED <<release_list, release_work, node, tree, host, pc, at, of, ignored, faults>>

CleanupNoChannel ==
    /\ worker.pc = "cleanup" /\ Left(worker.v) # {}
    /\ Fault
    /\ Released("lost")
    /\ UNCHANGED <<release_list, release_work, node, tree, host, pc, at, of, ignored>>

CleanupTimeout ==
    /\ worker.pc = "cleanup" /\ Left(worker.v) # {}
    /\ priv' = [priv EXCEPT ![worker.v].st = "listed"]
    /\ release_list' = Append(release_list, worker.v)
    /\ worker' = [pc |-> "loop", v |-> 0, ret |-> 0]
    /\ UNCHANGED <<release_work, node, tree, host, pc, at, of, ignored, faults>>

CleanupGo ==
    /\ worker.pc = "cleanup" /\ Left(worker.v) # {}
    /\ worker' = [worker EXCEPT !.pc = "sweep"]
    /\ UNCHANGED <<priv, release_list, release_work, node, tree, host, pc, at, of, ignored,
                   faults>>

\* The next node: mapped ones first, by address.
NextLeft(v) ==
    LET left == IF tree[v]["map"] # {} THEN tree[v]["map"] ELSE tree[v]["alloc"]
    IN  CHOOSE n \in left : \A m \in left : node[n].gpuaddr <= node[m].gpuaddr

\* A plausible mistake: a node that cannot be unmapped is kept.
Mut_sweep_keeps ==
    LET v == worker.v n == NextLeft(v) IN
    /\ worker.pc = "sweep" /\ Left(v) # {}
    /\ \/ /\ UnmapSucceeds(n)
          /\ node' = [node EXCEPT ![n] = hgsl_sharedmem_free(@)]
          /\ tree' = [tree EXCEPT ![v][node[n].kind] = @ \ {n}]
          /\ UNCHANGED <<priv, worker>>
       \/ /\ UnmapFails(n)
          /\ Released("freed")
          /\ UNCHANGED <<node, tree>>
    /\ UNCHANGED <<release_list, release_work, pc, at, of, ignored>>

\* Each is unmapped, and freed even when that fails.
Sweep ==
    LET v == worker.v n == NextLeft(v) IN
    /\ worker.pc = "sweep" /\ Left(v) # {}
    /\ \/ UnmapSucceeds(n) /\ worker' = [worker EXCEPT !.ret = 0] /\ UNCHANGED ignored
       \/ /\ UnmapFails(n) /\ worker' = [worker EXCEPT !.ret = 1]
          /\ ignored' = ignored \cup {n}
    /\ node' = [node EXCEPT ![n] = hgsl_sharedmem_free(@)]
    /\ tree' = [tree EXCEPT ![v][node[n].kind] = @ \ {n}]
    /\ UNCHANGED <<priv, release_list, release_work, pc, at, of>>

\* The result of the last unmap is that of the whole.
SweepEnd ==
    /\ worker.pc = "sweep" /\ Left(worker.v) = {}
    /\ Released(IF worker.ret = 0 THEN "freed" ELSE "lost")
    /\ UNCHANGED <<release_list, release_work, node, tree, host, pc, at, of, ignored, faults>>

-----------------------------------------------------------------------------
WorkerStep ==
    \/ WorkerStart \/ WorkerLoop \/ WorkerStop
    \/ CleanupDone \/ CleanupTimeout \/ CleanupGo \/ Sweep \/ SweepEnd

Next ==
    \/ hgsl_open
    \/ \E v \in Privs :
          \/ hgsl_release(v)
          \/ \E n \in Nodes : CacheOp(v, n)
          \/ \E t \in Threads :
                \/ \E kind \in {"alloc", "map"} : Begin(t, v, kind)
                \/ \E n \in Nodes : Take(t, v, n) \/ GetFd(t, v, n)
    \/ \E t \in Threads :
          \/ hgsl_hyp_mem_map_smmu(t) \/ CopyFails(t) \/ Add(t) \/ Undo(t)
          \/ Unmap(t) \/ Readd(t) \/ InstallFd(t)
    \/ \E n \in Nodes : CloseFd(n)
    \/ CleanupNoChannel \/ WorkerStep

Spec == Init /\ [][Next]_vars

\* The worker runs, and the GPU is done with the memory of a process that is
\* gone after finitely many slices of waiting.
FairSpec == Spec /\ WF_vars(WorkerStep) /\ SF_vars(CleanupGo)

-----------------------------------------------------------------------------
(* Properties.                                                             *)

\* Types; the counts of references and of open files stay in range.
TypeOK ==
    /\ \A v \in Privs :
          /\ priv[v].st \in {"none", "active", "listed", "releasing", "freed", "lost"}
          /\ priv[v].open_count \in 0 .. MaxOpens
          /\ \A k \in {"alloc", "map"} : tree[v][k] \subseteq Nodes
    /\ \A n \in Nodes :
          /\ node[n].st \in {"none", "live", "freed", "leaked"}
          /\ node[n].gpuaddr \in 0 .. NumAddrs
          /\ node[n].refs \in Nat /\ node[n].fds \in Nat
    /\ host \in [Addrs -> 0 .. NumNodes]
    /\ \A t \in Threads : at[t] \in {0} \cup Nodes /\ of[t] \in {0} \cup Privs
    /\ faults \in 0 .. MaxFaults

\* A node that the driver has not given up is in one place: a tree, that of its
\* process and kind, or the hands of one thread that maps or unmaps it.  Two
\* threads freeing the same address never both get the node.  And the keys of a
\* tree are different, also after a node whose unmap failed was put back
\* (hgsl_mem_find_node_locked would never see the second one).
NodePlaced ==
    /\ TypeOK
    /\ \A n \in Nodes :
          LET places == {p \in Privs \X {"alloc", "map"} : n \in tree[p[1]][p[2]]}
              hands == {t \in Threads : at[t] = n /\ pc[t] # "fd"}
              held == node[n].st = "live" /\ (node[n].kind = "alloc" => node[n].own)
          IN  /\ places \subseteq {<<node[n].priv, node[n].kind>>}
              /\ Cardinality(places) + Cardinality(hands) = IF held THEN 1 ELSE 0
    /\ \A v \in Privs, k \in {"alloc", "map"} : \A m, n \in tree[v][k] :
          m # n => node[m].gpuaddr # node[n].gpuaddr

\* The references on a dma_buf are the node's own, the descriptors', that of a
\* thread installing one and that of the scatter list.
RefsExact ==
    \A n \in Nodes : node[n].kind = "alloc" =>
        /\ node[n].refs = (IF node[n].own THEN 1 ELSE 0) + node[n].fds
                          + Cardinality({t \in Threads : at[t] = n /\ pc[t] = "fd"})
                          + (IF node[n].sgt_ext THEN 1 ELSE 0)
        /\ node[n].st = "freed" <=> node[n].refs = 0 /\ node[n].priv # 0
        /\ node[n].sgt_ext => node[n].own

\* Nobody uses pages that were freed.  They are freed with the last reference,
\* so that no descriptor or scatter list outlives them; and the host maps no
\* node that was freed, unless it was freed by one of the two paths that do not
\* look at the result: the undoing of a failed allocation or mapping, and the
\* release of the process.
PagesLive ==
    /\ RefsExact
    /\ \A g \in Addrs : LET n == host[g] IN
          n # 0 => node[n].st \in {"live", "leaked"} \/ n \in ignored

\* The release of a structure meets nobody: an ioctl works on one that is not on
\* its way out, and each is on release_list once.  Released, it has nothing left
\* in its trees, and no node that the driver still holds except those it lost
\* track of.
ReleaseClean ==
    /\ \A t \in Threads : of[t] # 0 => priv[of[t]].st = "active"
    /\ \A v \in Privs :
          Cardinality({i \in 1 .. Len(release_list) : release_list[i] = v})
             = IF priv[v].st = "listed" THEN 1 ELSE 0
    /\ \A v \in Privs : priv[v].st = "freed" =>
          \A n \in Nodes : node[n].priv = v =>
              n \notin Left(v) /\ (node[n].own => node[n].st = "leaked")

\* A structure on release_list does not stay: work is queued while the worker
\* runs or is about to stop, and a timeout puts the structure back.
ReleaseEnds == \A v \in Privs : priv[v].st = "listed" ~> priv[v].st \in {"freed", "lost"}
=============================================================================
