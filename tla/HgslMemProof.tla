---------------------------- MODULE HgslMemProof ----------------------------
(***************************************************************************)
(* Proofs about HgslMem for any number of threads, structures, nodes and   *)
(* addresses: a node is in one place, the references on its buffer are     *)
(* counted exactly, and the release of a process meets nobody.             *)
(***************************************************************************)
EXTENDS HgslMem, FiniteSetTheorems, WellFoundedInduction, TLAPS

Kinds == {"alloc", "map"}
PrivSt == {"none", "active", "listed", "releasing", "freed", "lost"}
NodeT == [st : {"none", "live", "freed", "leaked"}, priv : 0 .. NumPrivs, kind : Kinds,
          gpuaddr : 0 .. NumAddrs, export_id : BOOLEAN, own : BOOLEAN, refs : Nat, fds : Nat,
          sgt_ext : BOOLEAN]

\* Where a thread is; it has a node in its hands at these but "fd".
HandPc == {"map", "add", "undo", "unmap", "readd"}
Pcs == HandPc \cup {"idle", "fd"}

TypeI ==
    /\ priv \in [Privs -> [st : PrivSt, open_count : 0 .. MaxOpens]]
    /\ release_list \in Seq(Privs) /\ release_work \in BOOLEAN
    /\ worker \in [pc : {"idle", "loop", "stop", "cleanup", "sweep"}, v : 0 .. NumPrivs,
                   ret : 0 .. 1]
    /\ node \in [Nodes -> NodeT]
    /\ tree \in [Privs -> [Kinds -> SUBSET Nodes]]
    /\ host \in [Addrs -> 0 .. NumNodes]
    /\ pc \in [Threads -> Pcs]
    /\ at \in [Threads -> 0 .. NumNodes] /\ of \in [Threads -> 0 .. NumPrivs]
    /\ ignored \in SUBSET Nodes /\ faults \in 0 .. MaxFaults

\* The driver has the node: it is not given up.
HeldBy(r) == r.st = "live" /\ (r.kind = "alloc" => r.own)
Held(n) == HeldBy(node[n])
InHands(t, n) == at[t] = n /\ pc[t] \in HandPc

\* A thread outside of a call has nothing; inside it works for the structure
\* of its node.  A node that is being mapped has no address yet.
ThreadOK(t) ==
    /\ pc[t] = "idle" => at[t] = 0 /\ of[t] = 0
    /\ pc[t] # "idle" => /\ at[t] \in Nodes /\ of[t] \in Privs
                         /\ node[at[t]].priv = of[t]
    /\ pc[t] = "map" => node[at[t]].gpuaddr = 0
    /\ pc[t] = "fd" => node[at[t]].kind = "alloc"

ThreadI == \A t \in Threads : ThreadOK(t)

\* One place: a tree, or one pair of hands.
PlaceOK(n) ==
    /\ \A v \in Privs, k \in Kinds : n \in tree[v][k] =>
          v = node[n].priv /\ k = node[n].kind /\ Held(n) /\ \A t \in Threads : ~InHands(t, n)
    /\ \A t \in Threads : InHands(t, n) =>
          Held(n) /\ \A u \in Threads : InHands(u, n) => u = t
    /\ Held(n) =>
          \/ \E t \in Threads : InHands(t, n)
          \/ node[n].priv \in Privs /\ n \in tree[node[n].priv][node[n].kind]

PlaceI == \A n \in Nodes : PlaceOK(n)

KeyI ==
    \A v \in Privs, k \in Kinds : \A m, n \in tree[v][k] :
        m # n => node[m].gpuaddr # node[n].gpuaddr

Installers(n) == {t \in Threads : at[t] = n /\ pc[t] = "fd"}
One(b) == IF b THEN 1 ELSE 0

\* The shape of a node with `fd' threads installing a descriptor.
NodeOK(r, fd) ==
    /\ r.st = "none" <=> r.priv = 0
    /\ r.st = "none" => r.kind = "alloc" /\ ~r.own /\ r.refs = 0 /\ r.gpuaddr = 0
    /\ r.kind = "map" => ~r.own /\ r.fds = 0 /\ ~r.sgt_ext
    /\ r.kind = "alloc" => /\ r.refs = One(r.own) + r.fds + fd + One(r.sgt_ext)
                           /\ (r.st = "freed" <=> r.refs = 0 /\ r.priv # 0)
                           /\ (r.sgt_ext => r.own)
                           /\ (r.st = "leaked" => r.own)

RefI == \A n \in Nodes : NodeOK(node[n], Cardinality(Installers(n)))

\* A mapping the host still has is that of a node the driver knows, at the
\* address the node has, unless a failed call was ignored.
HostI ==
    \A g \in Addrs : host[g] # 0 =>
        \/ host[g] \in ignored
        \/ /\ node[host[g]].gpuaddr = g
           /\ Held(host[g]) \/ node[host[g]].st = "leaked"

\* A structure is used only while it is active, is on the list once when it is
\* listed, and is in the worker's hands when it is being released.
PrivI ==
    /\ \A t \in Threads : of[t] # 0 => priv[of[t]].st = "active"
    /\ \A v \in Privs : priv[v].st = "active" => priv[v].open_count > 0
    /\ \A i, j \in DOMAIN release_list : release_list[i] = release_list[j] => i = j
    /\ \A i \in DOMAIN release_list : priv[release_list[i]].st = "listed"
    /\ \A v \in Privs : priv[v].st = "listed" => \E i \in DOMAIN release_list : release_list[i] = v
    /\ \A v \in Privs : priv[v].st \in {"none", "freed"} => Left(v) = {}
    /\ worker.pc \in {"cleanup", "sweep"} => /\ worker.v \in Privs
                                             /\ priv[worker.v].st = "releasing"

IInv == TypeI /\ ThreadI /\ PlaceI /\ KeyI /\ RefI /\ HostI /\ PrivI

-----------------------------------------------------------------------------
(* Arithmetic and records.                                                 *)

\* The order of the naturals as a relation, for the library's minimum.
Less == {p \in Nat \X Nat : p[1] < p[2]}

LEMMA LeastExists ==
    ASSUME NEW S \in SUBSET Nat, S # {}
    PROVE  \E x \in S : \A y \in S : x <= y
<1>1. IsWellFoundedOn(Less, Nat)
  BY NatLessThanWellFounded DEF OpToRel, Less
<1>2. PICK x \in S : \A y \in S : ~(<<y, x>> \in Less)
  BY <1>1, WFMin
<1>3. \A y \in S : y < x => <<y, x>> \in Less
  BY DEF Less
<1>4. \A y \in S : ~(y < x)
  BY <1>2, <1>3
<1> QED
  BY <1>2, <1>4

LEMMA Bounds ==
    /\ NumPrivs \in Nat /\ NumNodes \in Nat /\ NumAddrs \in Nat
    /\ MaxOpens \in Nat /\ MaxOpens >= 1 /\ MaxFds \in Nat /\ MaxFaults \in Nat
    /\ IsFiniteSet(Threads)
  BY MemAssumption

\* dma_buf_put takes one reference, and frees with the last.
LEMMA RefPutIs ==
    ASSUME NEW r \in NodeT, r.refs # 0
    PROVE  /\ RefPut(r) \in NodeT
           /\ RefPut(r).refs = r.refs - 1
           /\ RefPut(r).st = IF r.refs = 1 THEN "freed" ELSE r.st
           /\ RefPut(r).priv = r.priv /\ RefPut(r).kind = r.kind
           /\ RefPut(r).gpuaddr = r.gpuaddr
           /\ RefPut(r).own = r.own /\ RefPut(r).fds = r.fds /\ RefPut(r).sgt_ext = r.sgt_ext
<1>1. PICK x \in {"none", "live", "freed", "leaked"} : x = IF r.refs = 1 THEN "freed" ELSE r.st
  BY DEF NodeT
<1>2. PICK d \in Nat : d = r.refs - 1
  BY DEF NodeT
<1>3. RefPut(r) = [r EXCEPT !.refs = d, !.st = x]
  BY <1>1, <1>2 DEF RefPut
<1>4. PICK y : y = [r EXCEPT !.refs = d, !.st = x]
  OBVIOUS
<1>5. y \in NodeT
  BY <1>4 DEF NodeT
<1>6. /\ y.refs = d /\ y.st = x /\ y.priv = r.priv /\ y.kind = r.kind /\ y.gpuaddr = r.gpuaddr
      /\ y.own = r.own /\ y.fds = r.fds /\ y.sgt_ext = r.sgt_ext
  BY <1>4 DEF NodeT
<1> QED
  BY <1>1, <1>2, <1>3, <1>4, <1>5, <1>6

\* hgsl_sharedmem_free puts the scatter list and the node's own reference.
LEMMA FreeIs ==
    ASSUME NEW r \in NodeT, NEW fd \in Nat, NodeOK(r, fd), HeldBy(r)
    PROVE  /\ hgsl_sharedmem_free(r) \in NodeT /\ NodeOK(hgsl_sharedmem_free(r), fd)
           /\ ~HeldBy(hgsl_sharedmem_free(r))
           /\ hgsl_sharedmem_free(r).priv = r.priv /\ hgsl_sharedmem_free(r).kind = r.kind
<1>1. CASE r.kind = "alloc"
  <2>1. r.own /\ r.refs = 1 + r.fds + fd + One(r.sgt_ext) /\ r.st = "live" /\ r.priv # 0
    BY <1>1 DEF NodeOK, HeldBy, One
  <2>2. PICK s \in NodeT : /\ s = hgsl_put_sgt(r) /\ s.refs = 1 + r.fds + fd /\ s.st = "live"
                           /\ ~s.sgt_ext /\ s.own /\ s.fds = r.fds
                           /\ s.priv = r.priv /\ s.kind = r.kind
    <3>1. CASE r.sgt_ext
      <4>1. r.refs # 0 /\ r.refs # 1 /\ r.refs = 2 + r.fds + fd
        BY <2>1, <3>1 DEF NodeT, One
      <4>2. PICK q \in NodeT : /\ q = RefPut(r) /\ q.refs = 1 + r.fds + fd
                               /\ q.st = "live" /\ q.own /\ q.fds = r.fds
                               /\ q.priv = r.priv /\ q.kind = r.kind
        BY <2>1, <4>1, RefPutIs DEF NodeT
      <4>3. hgsl_put_sgt(r) = [q EXCEPT !.sgt_ext = FALSE]
        BY <3>1, <4>2 DEF hgsl_put_sgt
      <4>4. PICK z : z = [q EXCEPT !.sgt_ext = FALSE]
        OBVIOUS
      <4>5. z \in NodeT
        BY <4>4 DEF NodeT
      <4>6. /\ z.refs = q.refs /\ z.st = q.st /\ z.priv = q.priv /\ z.kind = q.kind
            /\ z.own = q.own /\ z.fds = q.fds /\ z.sgt_ext = FALSE
        BY <4>4 DEF NodeT
      <4> QED
        BY <4>2, <4>3, <4>4, <4>5, <4>6
    <3>2. CASE ~r.sgt_ext
      <4>1. hgsl_put_sgt(r) = r /\ r.refs = 1 + r.fds + fd
        BY <2>1, <3>2 DEF hgsl_put_sgt, One, NodeT
      <4> QED
        BY <2>1, <3>2, <4>1
    <3> QED
      BY <3>1, <3>2
  <2>3. s.refs # 0 /\ (s.refs = 1 <=> r.fds + fd = 0)
    BY <2>2 DEF NodeT
  <2>4. PICK q \in NodeT : /\ q = RefPut(s) /\ q.refs = r.fds + fd /\ q.fds = r.fds /\ ~q.sgt_ext
                           /\ q.st = IF r.fds + fd = 0 THEN "freed" ELSE "live"
                           /\ q.priv = r.priv /\ q.kind = r.kind
    <3>1. s.refs - 1 = r.fds + fd
      BY <2>2 DEF NodeT
    <3> QED
      BY <2>2, <2>3, <3>1, RefPutIs
  <2>5. PICK x \in NodeT : /\ x = hgsl_sharedmem_free(r) /\ x.refs = r.fds + fd /\ x.fds = r.fds
                           /\ ~x.sgt_ext /\ ~x.own
                           /\ x.st = IF r.fds + fd = 0 THEN "freed" ELSE "live"
                           /\ x.priv = r.priv /\ x.kind = r.kind
    <3>1. hgsl_sharedmem_free(r) = [q EXCEPT !.own = FALSE]
      BY <1>1, <2>2, <2>4 DEF hgsl_sharedmem_free
    <3> QED
      BY <2>4, <3>1 DEF NodeT
  <2> QED
    BY <1>1, <2>1, <2>5 DEF NodeOK, HeldBy, One, NodeT
<1>2. CASE r.kind # "alloc"
  <2>1. r.kind = "map" /\ r.st = "live"
    BY <1>2 DEF NodeT, Kinds, HeldBy
  <2>2. hgsl_sharedmem_free(r) = [r EXCEPT !.st = "freed"]
    BY <1>2 DEF hgsl_sharedmem_free
  <2>3. PICK x \in NodeT : /\ x = hgsl_sharedmem_free(r) /\ x.st = "freed" /\ x.kind = "map"
                           /\ x.priv = r.priv /\ x.own = r.own /\ x.fds = r.fds
                           /\ x.sgt_ext = r.sgt_ext
    BY <2>1, <2>2 DEF NodeT
  <2> QED
    BY <2>1, <2>3 DEF NodeOK, HeldBy
<1> QED
  BY <1>1, <1>2

-----------------------------------------------------------------------------
(* What a step that is about node n leaves alone.                          *)

\* Only the threads of M move, and they have no other node than n.
Frame(n, M) ==
    /\ pc' \in [Threads -> Pcs]
    /\ at' \in [Threads -> 0 .. NumNodes] /\ of' \in [Threads -> 0 .. NumPrivs]
    /\ \A u \in Threads \ M : pc'[u] = pc[u] /\ at'[u] = at[u] /\ of'[u] = of[u]
    /\ \A u \in M : at[u] \in {0, n} /\ at'[u] \in {0, n}

LEMMA FrameHands ==
    ASSUME NEW n \in Nodes, NEW M \in SUBSET Threads, Frame(n, M)
    PROVE  /\ \A m \in Nodes : m # n =>
                 /\ \A u \in Threads : (InHands(u, m)' <=> InHands(u, m))
                 /\ Installers(m)' = Installers(m)
           /\ \A u \in Threads \ M : (InHands(u, n)' <=> InHands(u, n))
<1>1. \A u \in Threads : u \in M \/ (pc'[u] = pc[u] /\ at'[u] = at[u])
  BY DEF Frame
<1>2. \A u \in M : at[u] \in {0, n} /\ at'[u] \in {0, n}
  BY DEF Frame
<1>3. \A m \in Nodes : m # 0
  BY DEF Nodes
<1> QED
  BY <1>1, <1>2, <1>3 DEF InHands, Installers

LEMMA FdCount ==
    \A n : IsFiniteSet(Installers(n)) /\ Cardinality(Installers(n)) \in Nat
<1>1. \A n : Installers(n) \in SUBSET Threads
  BY DEF Installers
<1> QED
  BY <1>1, Bounds, FS_Subset, FS_CardinalityType

LEMMA FdSame ==
    ASSUME NEW n \in Nodes, NEW M \in SUBSET Threads, Frame(n, M),
           \A u \in M : pc[u] # "fd" /\ pc'[u] # "fd"
    PROVE  Installers(n)' = Installers(n)
  BY DEF Frame, Installers

LEMMA PlaceRefKeep ==
    ASSUME IInv, NEW n \in Nodes, NEW r \in NodeT, node' = [node EXCEPT ![n] = r],
           NEW M \in SUBSET Threads, Frame(n, M),
           \A v \in Privs, k \in Kinds : \A m \in Nodes :
               m # n => (m \in tree'[v][k] <=> m \in tree[v][k]),
           PlaceOK(n)', NodeOK(r, Cardinality(Installers(n)'))
    PROVE  PlaceI' /\ RefI'
<1>1. node'[n] = r /\ \A m \in Nodes : m # n => node'[m] = node[m]
  BY DEF IInv, TypeI
<1>2. ASSUME NEW m \in Nodes, m # n PROVE PlaceOK(m)' /\ NodeOK(node[m], Cardinality(Installers(m)'))
  <2>1. PlaceOK(m) /\ NodeOK(node[m], Cardinality(Installers(m)))
    BY DEF IInv, PlaceI, RefI
  <2>2. /\ \A u \in Threads : (InHands(u, m)' <=> InHands(u, m))
        /\ Installers(m)' = Installers(m)
    BY <1>2, FrameHands
  <2>3. (Held(m)' <=> Held(m)) /\ node'[m] = node[m]
    BY <1>1, <1>2 DEF Held
  <2>4. node[m].kind \in Kinds
    BY DEF IInv, TypeI, NodeT
  <2> QED
    BY <1>2, <2>1, <2>2, <2>3, <2>4 DEF PlaceOK
<1>3. \A m \in Nodes : PlaceOK(m)'
  BY <1>2
<1>4. \A m \in Nodes : NodeOK(node'[m], Cardinality(Installers(m)'))
  BY <1>1, <1>2
<1> QED
  BY <1>3, <1>4 DEF PlaceI, RefI

LEMMA ThreadKeep ==
    ASSUME IInv, NEW n \in Nodes, NEW r \in NodeT, node' = [node EXCEPT ![n] = r],
           NEW M \in SUBSET Threads, Frame(n, M),
           NEW u \in Threads, u \notin M,
           at[u] = n => /\ r.priv = node[n].priv /\ r.kind = node[n].kind
                        /\ pc[u] = "map" => r.gpuaddr = 0
    PROVE  ThreadOK(u)'
<1>1. node'[n] = r /\ \A m \in Nodes : m # n => node'[m] = node[m]
  BY DEF IInv, TypeI
<1>2. ThreadOK(u) /\ pc'[u] = pc[u] /\ at'[u] = at[u] /\ of'[u] = of[u]
  BY DEF Frame, IInv, ThreadI
<1>3. pc[u] # "idle" => /\ node'[at[u]].priv = node[at[u]].priv
                        /\ node'[at[u]].kind = node[at[u]].kind
                        /\ (pc[u] = "map" => node'[at[u]].gpuaddr = 0)
  BY <1>1, <1>2 DEF ThreadOK
<1> QED
  BY <1>2, <1>3 DEF ThreadOK

LEMMA KeyKeep ==
    ASSUME IInv, NEW n \in Nodes, NEW r \in NodeT, node' = [node EXCEPT ![n] = r],
           \A v \in Privs, k \in Kinds : tree'[v][k] \in SUBSET tree[v][k],
           \A v \in Privs, k \in Kinds : n \in tree'[v][k] => r.gpuaddr = node[n].gpuaddr
    PROVE  KeyI'
<1>1. node'[n] = r /\ \A m \in Nodes : m # n => node'[m] = node[m]
  BY DEF IInv, TypeI
<1>2. \A v \in Privs, k \in Kinds : tree[v][k] \in SUBSET Nodes
  BY DEF IInv, TypeI
<1>3. \A v \in Privs, k \in Kinds : \A m \in tree'[v][k] : node'[m].gpuaddr = node[m].gpuaddr
  BY <1>1, <1>2
<1>4. \A v \in Privs, k \in Kinds : \A x, y \in tree[v][k] :
          x # y => node[x].gpuaddr # node[y].gpuaddr
  BY DEF IInv, KeyI
<1>5. ASSUME NEW v \in Privs, NEW k \in Kinds, NEW x \in tree'[v][k], NEW y \in tree'[v][k], x # y
      PROVE node'[x].gpuaddr # node'[y].gpuaddr
  <2>1. x \in tree[v][k] /\ y \in tree[v][k]
    OBVIOUS
  <2> QED
    BY <1>3, <1>4, <1>5, <2>1
<1> QED
  BY <1>5 DEF KeyI

LEMMA HostKeep ==
    ASSUME IInv, NEW n \in Nodes, NEW r \in NodeT, node' = [node EXCEPT ![n] = r],
           host' \in [Addrs -> 0 .. NumNodes], ignored \in SUBSET ignored',
           \A g \in Addrs : host'[g] # n => host'[g] \in {0, host[g]},
           \A g \in Addrs : host'[g] = n =>
               n \in ignored' \/ (r.gpuaddr = g /\ (HeldBy(r) \/ r.st = "leaked"))
    PROVE  HostI'
<1>1. node'[n] = r /\ \A m \in Nodes : m # n => node'[m] = node[m]
  BY DEF IInv, TypeI
<1>2. ASSUME NEW g \in Addrs, host'[g] # 0
      PROVE \/ host'[g] \in ignored'
            \/ /\ node'[host'[g]].gpuaddr = g
               /\ HeldBy(node'[host'[g]]) \/ node'[host'[g]].st = "leaked"
  <2>1. host'[g] \in Nodes
    BY <1>2, Bounds DEF Nodes
  <2>2. CASE host'[g] = n
    BY <1>1, <2>2
  <2>3. CASE host'[g] # n
    <3>1. host'[g] = host[g] /\ host[g] \in Nodes /\ node'[host[g]] = node[host[g]]
      BY <1>1, <1>2, <2>1, <2>3
    <3> QED
      BY <1>2, <3>1 DEF IInv, HostI, Held
  <2> QED
    BY <2>2, <2>3
<1> QED
  BY <1>2 DEF HostI, Held

LEMMA PrivKeep ==
    ASSUME IInv, UNCHANGED <<priv, release_list>>,
           worker'.pc = worker.pc /\ worker'.v = worker.v,
           \A u \in Threads : of'[u] # 0 => of'[u] \in Privs /\ priv[of'[u]].st = "active",
           \A v \in Privs : priv[v].st = "active" \/ Left(v)' \in SUBSET Left(v)
    PROVE  PrivI'
<1>1. \A v \in Privs : priv[v].st \in {"none", "freed"} => Left(v)' = {}
  BY DEF IInv, PrivI
<1> QED
  BY <1>1 DEF IInv, PrivI

-----------------------------------------------------------------------------
(* One thread and its node.                                                *)

Moves(t, p, a, o) ==
    /\ pc' = [pc EXCEPT ![t] = p] /\ at' = [at EXCEPT ![t] = a] /\ of' = [of EXCEPT ![t] = o]

LEMMA GoMoves ==
    ASSUME IInv, NEW t \in Threads, NEW p \in Pcs, Go(t, p), UNCHANGED <<at, of>>
    PROVE  Moves(t, p, at[t], of[t])
<1>1. at' = [at EXCEPT ![t] = at[t]] /\ of' = [of EXCEPT ![t] = of[t]]
  BY DEF IInv, TypeI
<1> QED
  BY <1>1 DEF Moves, Go

LEMMA ReturnMoves == \A t \in Threads : Return(t) => Moves(t, "idle", 0, 0)
  BY DEF Return, Go, Moves

Moved(t, n, p, a, o) ==
    /\ Frame(n, {t}) /\ {t} \in SUBSET Threads
    /\ pc'[t] = p /\ at'[t] = a /\ of'[t] = o
    /\ (InHands(t, n)' <=> a = n /\ p \in HandPc)
    /\ \A u \in Threads : u # t => (InHands(u, n)' <=> InHands(u, n))
    /\ \A u \in Threads : u # t => pc'[u] = pc[u] /\ at'[u] = at[u] /\ of'[u] = of[u]

LEMMA MovesFrame ==
    ASSUME IInv, NEW t \in Threads, NEW n \in Nodes, NEW p \in Pcs, NEW a,
           NEW o \in 0 .. NumPrivs, Moves(t, p, a, o), at[t] = 0 \/ at[t] = n, a = 0 \/ a = n
    PROVE  Moved(t, n, p, a, o)
<1>1. a \in 0 .. NumNodes
  BY Bounds DEF Nodes
<1>2. pc'[t] = p /\ at'[t] = a /\ of'[t] = o
  BY DEF Moves, IInv, TypeI
<1>3. \A u \in Threads : u # t => pc'[u] = pc[u] /\ at'[u] = at[u] /\ of'[u] = of[u]
  BY DEF Moves, IInv, TypeI
<1>4. /\ pc' \in [Threads -> Pcs] /\ at' \in [Threads -> 0 .. NumNodes]
      /\ of' \in [Threads -> 0 .. NumPrivs]
  BY <1>1 DEF Moves, IInv, TypeI
<1>5. Frame(n, {t})
  BY <1>2, <1>3, <1>4 DEF Frame
<1> QED
  BY <1>2, <1>3, <1>5, FrameHands DEF InHands, Moved

\* An idle thread has no node; one with a node in its hands is alone with it.
LEMMA HandsFacts ==
    ASSUME IInv, NEW t \in Threads, pc[t] \in HandPc
    PROVE  /\ at[t] \in Nodes /\ InHands(t, at[t]) /\ Held(at[t])
           /\ \A u \in Threads : InHands(u, at[t]) => u = t
           /\ \A v \in Privs, k \in Kinds : at[t] \notin tree[v][k]
           /\ node[at[t]].priv = of[t] /\ of[t] \in Privs /\ priv[of[t]].st = "active"
<1>1. pc[t] # "idle"
  BY DEF HandPc
<1>2. at[t] \in Nodes /\ node[at[t]].priv = of[t] /\ of[t] \in Privs /\ of[t] # 0
  BY <1>1 DEF IInv, ThreadI, ThreadOK, Privs
<1>3. InHands(t, at[t]) /\ PlaceOK(at[t])
  BY <1>2 DEF IInv, PlaceI, InHands
<1> QED
  BY <1>2, <1>3 DEF PlaceOK, IInv, PrivI

LEMMA NodeFacts ==
    ASSUME IInv, NEW n \in Nodes
    PROVE  /\ node[n] \in NodeT /\ NodeOK(node[n], Cardinality(Installers(n)))
           /\ Cardinality(Installers(n)) \in Nat
  BY FdCount DEF IInv, TypeI, RefI

\* A thread with a node in its hands does something to it and keeps it, or puts
\* it down for good.
LEMMA HandStep ==
    ASSUME IInv, NEW t \in Threads, pc[t] \in HandPc, NEW r \in NodeT,
           node' = [node EXCEPT ![at[t]] = r],
           NodeOK(r, Cardinality(Installers(at[t]))),
           r.priv = node[at[t]].priv /\ r.kind = node[at[t]].kind,
           NEW p \in {"add", "undo", "readd", "idle"},
           \/ p # "idle" /\ HeldBy(r) /\ Moves(t, p, at[t], of[t])
           \/ p = "idle" /\ ~HeldBy(r) /\ Moves(t, p, 0, 0),
           UNCHANGED <<privVars, tree>>, faults' \in 0 .. MaxFaults, ignored' \in SUBSET Nodes,
           host' \in [Addrs -> 0 .. NumNodes], ignored \in SUBSET ignored',
           \A g \in Addrs : host'[g] # at[t] => host'[g] \in {0, host[g]},
           \A g \in Addrs : host'[g] = at[t] =>
               at[t] \in ignored' \/ (r.gpuaddr = g /\ (HeldBy(r) \/ r.st = "leaked"))
    PROVE  IInv'
<1>1. PICK n \in Nodes : n = at[t]
  BY HandsFacts
<1>2. /\ InHands(t, n) /\ Held(n) /\ \A u \in Threads : InHands(u, n) => u = t
      /\ \A v \in Privs, k \in Kinds : n \notin tree[v][k]
      /\ node[n].priv = of[t] /\ of[t] \in Privs /\ priv[of[t]].st = "active"
  BY <1>1, HandsFacts
<1>3. PICK a \in {0, n}, o \in {0, of[t]} :
        Moves(t, p, a, o) /\ (p = "idle" => a = 0 /\ o = 0) /\ (p # "idle" => a = n /\ o = of[t])
  BY <1>1
<1>4. p \in Pcs /\ o \in 0 .. NumPrivs /\ at[t] \in {0, n}
  BY <1>1, <1>2, Bounds DEF Pcs, HandPc, Privs
<1>5. /\ Frame(n, {t}) /\ {t} \in SUBSET Threads
      /\ pc'[t] = p /\ at'[t] = a /\ of'[t] = o
      /\ (InHands(t, n)' <=> a = n /\ p \in HandPc)
      /\ \A u \in Threads : u # t => (InHands(u, n)' <=> InHands(u, n))
      /\ \A u \in Threads : u # t => pc'[u] = pc[u] /\ at'[u] = at[u] /\ of'[u] = of[u]
  <2>1. (a = 0 \/ a = n) /\ Moves(t, p, a, o) /\ (at[t] = 0 \/ at[t] = n)
    BY <1>3, <1>4
  <2>2. Moved(t, n, p, a, o)
    BY <1>4, <2>1, MovesFrame
  <2> QED
    BY <2>2 DEF Moved
<1>6. Installers(n)' = Installers(n)
  BY <1>5, FdSame DEF HandPc
<1>7. node'[n] = r /\ node' = [node EXCEPT ![n] = r] /\ node' \in [Nodes -> NodeT]
  BY <1>1 DEF IInv, TypeI
<1>8. UNCHANGED <<priv, release_list, release_work, worker, tree>>
  BY DEF privVars
<1>9. (InHands(t, n)' <=> HeldBy(r)) /\ \A u \in Threads : InHands(u, n)' => u = t
  <2>1. n # 0 /\ (p # "idle" <=> HeldBy(r)) /\ (p # "idle" => p \in HandPc)
    BY <1>1 DEF Nodes, HandPc
  <2> QED
    BY <1>2, <1>3, <1>5, <2>1 DEF HandPc
<1>10. PlaceOK(n)'
  <2>1. (Held(n)' <=> HeldBy(r)) /\ \A v \in Privs, k \in Kinds : n \notin tree'[v][k]
    BY <1>2, <1>7, <1>8 DEF Held
  <2> QED
    BY <1>9, <2>1 DEF PlaceOK
<1>11. PlaceI' /\ RefI'
  BY <1>1, <1>5, <1>6, <1>7, <1>8, <1>10, PlaceRefKeep
<1>12. ThreadI'
  <2>1. ThreadOK(t)'
    BY <1>1, <1>2, <1>3, <1>5, <1>7 DEF ThreadOK
  <2>2. \A u \in Threads \ {t} : at[u] = n => pc[u] # "map"
    BY <1>2 DEF InHands, HandPc
  <2>3. ASSUME NEW u \in Threads, u # t PROVE ThreadOK(u)'
    <3>1. u \notin {t} /\ Frame(n, {t}) /\ {t} \in SUBSET Threads /\ node' = [node EXCEPT ![n] = r]
      BY <1>5, <1>7, <2>3
    <3>2. at[u] = n => /\ r.priv = node[n].priv /\ r.kind = node[n].kind
                       /\ pc[u] = "map" => r.gpuaddr = 0
      BY <1>1, <2>2, <2>3
    <3> QED
      BY <3>1, <3>2, ThreadKeep, ZenonT(60)
  <2> QED
    BY <2>1, <2>3 DEF ThreadI
<1>13. KeyI'
  <2>1. \A v \in Privs, k \in Kinds : tree'[v][k] \in SUBSET tree[v][k]
    BY <1>8
  <2>2. \A v \in Privs, k \in Kinds : n \in tree'[v][k] => r.gpuaddr = node[n].gpuaddr
    BY <1>2, <1>8
  <2> QED
    BY <1>7, <2>1, <2>2, KeyKeep
<1>14. HostI'
  BY <1>1, <1>7, HostKeep
<1>15. PrivI'
  <2>1. \A u \in Threads : of'[u] # 0 => of'[u] \in Privs /\ priv[of'[u]].st = "active"
    <3>1. \A u \in Threads : of[u] \in 0 .. NumPrivs /\ (of[u] # 0 => priv[of[u]].st = "active")
      BY DEF IInv, TypeI, PrivI
    <3> QED
      BY <1>2, <1>3, <1>5, <3>1, Bounds DEF Privs
  <2>2. \A v \in Privs : Left(v)' = Left(v)
    BY <1>8 DEF Left
  <2> QED
    BY <1>8, <2>1, <2>2, PrivKeep
<1>16. TypeI'
  <2>1. /\ pc' \in [Threads -> Pcs] /\ at' \in [Threads -> 0 .. NumNodes]
        /\ of' \in [Threads -> 0 .. NumPrivs]
    BY <1>5 DEF Frame
  <2> QED
    BY <1>7, <1>8, <2>1 DEF IInv, TypeI
<1> QED
  BY <1>11, <1>12, <1>13, <1>14, <1>15, <1>16 DEF IInv

-----------------------------------------------------------------------------
(* Mapping and unmapping.                                                  *)

\* A mapping that was removed leaves none of the node that the driver knows of.
LEMMA UnmapOK ==
    ASSUME IInv, NEW n \in Nodes, UnmapSucceeds(n)
    PROVE  /\ host' \in [Addrs -> 0 .. NumNodes] /\ faults' \in 0 .. MaxFaults
           /\ \A g \in Addrs : host'[g] # n => host'[g] \in {0, host[g]}
           /\ \A g \in Addrs : host'[g] = n => n \in ignored
<1>1. /\ host' = [g \in Addrs |-> IF host[g] = n /\ g = node[n].gpuaddr THEN 0 ELSE host[g]]
      /\ faults' = faults
  BY DEF UnmapSucceeds, UnmapHost
<1>2. host \in [Addrs -> 0 .. NumNodes] /\ faults \in 0 .. MaxFaults
  BY DEF IInv, TypeI
<1>3. n # 0
  BY DEF Nodes
<1>4. \A g \in Addrs : host[g] = n /\ n \notin ignored => node[n].gpuaddr = g
  BY <1>3 DEF IInv, HostI
<1> QED
  BY <1>1, <1>2, <1>3, <1>4, Bounds

LEMMA FaultIs == IInv /\ Fault => faults' \in 0 .. MaxFaults
  BY Bounds DEF Fault, IInv, TypeI

LEMMA UnmapBad ==
    ASSUME IInv, NEW n \in Nodes, UnmapFails(n)
    PROVE  /\ host' \in [Addrs -> 0 .. NumNodes] /\ faults' \in 0 .. MaxFaults
           /\ \A g \in Addrs : host'[g] \in {0, host[g]}
<1>1. host' \in {host, UnmapHost(n)} /\ (faults' = faults \/ Fault)
  BY DEF UnmapFails
<1>2. host \in [Addrs -> 0 .. NumNodes] /\ faults \in 0 .. MaxFaults
  BY DEF IInv, TypeI
<1>3. UnmapHost(n) = [g \in Addrs |-> IF host[g] = n /\ g = node[n].gpuaddr THEN 0 ELSE host[g]]
  BY DEF UnmapHost
<1>4. faults' \in 0 .. MaxFaults
  BY <1>1, <1>2, FaultIs
<1> QED
  BY <1>1, <1>2, <1>3, <1>4, Bounds

\* The address and the export id are not part of the counts.
LEMMA SameCounts ==
    ASSUME NEW s \in NodeT, NEW r \in NodeT, NEW fd, NodeOK(s, fd), HeldBy(s),
           r.st = s.st /\ r.priv = s.priv /\ r.kind = s.kind /\ r.refs = s.refs,
           (r.own <=> s.own) /\ r.fds = s.fds /\ (r.sgt_ext <=> s.sgt_ext)
    PROVE  NodeOK(r, fd) /\ HeldBy(r)
  BY DEF NodeOK, HeldBy, One

LEMMA MapAction == ASSUME IInv, NEW t \in Threads, hgsl_hyp_mem_map_smmu(t) PROVE IInv'
<1>1. pc[t] = "map" /\ pc[t] \in HandPc
  BY DEF hgsl_hyp_mem_map_smmu, HandPc
<1>2. PICK n \in Nodes : n = at[t] /\ Held(n)
  BY <1>1, HandsFacts
<1>3. /\ node[n] \in NodeT /\ NodeOK(node[n], Cardinality(Installers(n))) /\ HeldBy(node[n])
      /\ n # 0 /\ node[n].gpuaddr = 0
  BY <1>1, <1>2, NodeFacts DEF Held, Nodes, IInv, ThreadI, ThreadOK
<1>4. UNCHANGED <<privVars, tree>> /\ UNCHANGED <<at, of>>
  BY DEF hgsl_hyp_mem_map_smmu
<1>5. host \in [Addrs -> 0 .. NumNodes] /\ faults \in 0 .. MaxFaults /\ ignored \in SUBSET Nodes
  BY DEF IInv, TypeI
<1>6. ASSUME NEW g \in Addrs, host[g] = 0, host' = [host EXCEPT ![g] = n],
             node' = [node EXCEPT ![n].gpuaddr = g, ![n].export_id = TRUE],
             Go(t, "add"), UNCHANGED <<ignored, faults>>
      PROVE IInv'
  <2>1. PICK r \in NodeT : /\ r = [node[n] EXCEPT !.gpuaddr = g, !.export_id = TRUE]
                           /\ r.gpuaddr = g
                           /\ r.st = node[n].st /\ r.priv = node[n].priv /\ r.kind = node[n].kind
                           /\ r.refs = node[n].refs /\ (r.own <=> node[n].own)
                           /\ r.fds = node[n].fds /\ (r.sgt_ext <=> node[n].sgt_ext)
    <3>1. PICK r : r = [node[n] EXCEPT !.gpuaddr = g, !.export_id = TRUE]
      OBVIOUS
    <3>2. g \in 0 .. NumAddrs
      BY Bounds DEF Addrs
    <3>3. r \in NodeT
      BY <1>3, <3>1, <3>2 DEF NodeT
    <3> QED
      BY <1>3, <3>1, <3>3 DEF NodeT
  <2>2. node' = [node EXCEPT ![at[t]] = r]
    BY <1>2, <1>6, <2>1 DEF IInv, TypeI
  <2>3. NodeOK(r, Cardinality(Installers(at[t]))) /\ HeldBy(r)
    BY <1>2, <1>3, <2>1, SameCounts, ZenonT(60)
  <2>4. Moves(t, "add", at[t], of[t])
    BY <1>4, <1>6, GoMoves DEF Pcs, HandPc
  <2>5. /\ host' \in [Addrs -> 0 .. NumNodes]
        /\ \A a \in Addrs : host'[a] # n => host'[a] \in {0, host[a]}
    BY <1>5, <1>6, Bounds DEF Nodes
  <2>6. \A a \in Addrs : host'[a] = n => n \in ignored \/ r.gpuaddr = a
    <3>1. \A a \in Addrs : host[a] = n => n \in ignored
      BY <1>3 DEF IInv, HostI, Addrs
    <3> QED
      BY <1>5, <1>6, <2>1, <3>1
  <2>7. r.priv = node[at[t]].priv /\ r.kind = node[at[t]].kind
    BY <1>2, <2>1
  <2>8. ignored' \in SUBSET Nodes /\ ignored \in SUBSET ignored' /\ faults' \in 0 .. MaxFaults
    BY <1>5, <1>6
  <2>9. \A a \in Addrs : host'[a] = at[t] =>
            at[t] \in ignored' \/ (r.gpuaddr = a /\ (HeldBy(r) \/ r.st = "leaked"))
    BY <1>2, <1>6, <2>3, <2>6
  <2> QED
    BY <1>1, <1>2, <1>4, <2>2, <2>3, <2>4, <2>5, <2>7, <2>8, <2>9, HandStep
<1>7. ASSUME NEW e \in BOOLEAN, node' = [node EXCEPT ![n].export_id = e], Go(t, "undo"), Fault,
             ignored' = ignored \cup {n},
             \/ host' = host
             \/ \E g \in Addrs : host[g] = 0 /\ host' = [host EXCEPT ![g] = n]
      PROVE IInv'
  <2>1. PICK r \in NodeT : /\ r = [node[n] EXCEPT !.export_id = e]
                           /\ r.st = node[n].st /\ r.priv = node[n].priv /\ r.kind = node[n].kind
                           /\ r.refs = node[n].refs /\ (r.own <=> node[n].own)
                           /\ r.fds = node[n].fds /\ (r.sgt_ext <=> node[n].sgt_ext)
    <3>1. PICK r : r = [node[n] EXCEPT !.export_id = e]
      OBVIOUS
    <3>2. r \in NodeT
      BY <1>3, <3>1 DEF NodeT
    <3> QED
      BY <1>3, <3>1, <3>2 DEF NodeT
  <2>2. node' = [node EXCEPT ![at[t]] = r]
    BY <1>2, <1>7, <2>1 DEF IInv, TypeI
  <2>3. NodeOK(r, Cardinality(Installers(at[t]))) /\ HeldBy(r)
    BY <1>2, <1>3, <2>1, SameCounts, ZenonT(60)
  <2>4. Moves(t, "undo", at[t], of[t])
    BY <1>4, <1>7, GoMoves DEF Pcs, HandPc
  <2>5. /\ host' \in [Addrs -> 0 .. NumNodes]
        /\ \A a \in Addrs : host'[a] # n => host'[a] \in {0, host[a]}
    BY <1>5, <1>7, Bounds DEF Nodes
  <2>6. r.priv = node[at[t]].priv /\ r.kind = node[at[t]].kind
    BY <1>2, <2>1
  <2>7. ignored' \in SUBSET Nodes /\ ignored \in SUBSET ignored' /\ faults' \in 0 .. MaxFaults
    BY <1>5, <1>7, FaultIs
  <2>8. at[t] \in ignored'
    BY <1>2, <1>7
  <2> QED
    BY <1>1, <1>2, <1>4, <2>2, <2>3, <2>4, <2>5, <2>6, <2>7, <2>8, HandStep
<1>8. \/ \E g \in Addrs :
            /\ host[g] = 0 /\ host' = [host EXCEPT ![g] = n]
            /\ \/ /\ node' = [node EXCEPT ![n].gpuaddr = g, ![n].export_id = TRUE]
                  /\ Go(t, "add") /\ UNCHANGED <<ignored, faults>>
               \/ /\ Fault /\ ignored' = ignored \cup {n}
                  /\ node' = [node EXCEPT ![n].export_id = TRUE]
                  /\ Go(t, "undo")
      \/ /\ Fault /\ ignored' = ignored \cup {n}
         /\ \E e \in BOOLEAN : node' = [node EXCEPT ![n].export_id = e]
         /\ Go(t, "undo") /\ UNCHANGED host
  BY <1>2 DEF hgsl_hyp_mem_map_smmu
<1> QED
  BY <1>6, <1>7, <1>8

\* The tree with n added to or taken out of one part of it.
LEMMA TreeAdds ==
    ASSUME IInv, NEW n \in Nodes, NEW v \in Privs, NEW k \in Kinds,
           tree' = [tree EXCEPT ![v][k] = @ \cup {n}]
    PROVE  /\ tree' \in [Privs -> [Kinds -> SUBSET Nodes]]
           /\ tree'[v][k] = tree[v][k] \cup {n}
           /\ \A w \in Privs, j \in Kinds : w # v \/ j # k => tree'[w][j] = tree[w][j]
  BY DEF IInv, TypeI

LEMMA TreeDrops ==
    ASSUME IInv, NEW n \in Nodes, NEW v \in Privs, NEW k \in Kinds,
           tree' = [tree EXCEPT ![v][k] = @ \ {n}]
    PROVE  /\ tree' \in [Privs -> [Kinds -> SUBSET Nodes]]
           /\ tree'[v][k] = tree[v][k] \ {n}
           /\ \A w \in Privs, j \in Kinds : w # v \/ j # k => tree'[w][j] = tree[w][j]
  BY DEF IInv, TypeI

\* A thread adds its node to the tree and is done.
LEMMA AddStep ==
    ASSUME IInv, NEW t \in Threads, pc[t] \in HandPc, NEW r \in NodeT,
           node' = [node EXCEPT ![at[t]] = r], HeldBy(r),
           NodeOK(r, Cardinality(Installers(at[t]))),
           r.priv = node[at[t]].priv /\ r.kind = node[at[t]].kind,
           r.gpuaddr = node[at[t]].gpuaddr,
           tree' \in hgsl_mem_add_node(at[t]), Return(t),
           UNCHANGED privVars, UNCHANGED <<host, ignored, faults>>
    PROVE  IInv'
<1>1. PICK n \in Nodes : n = at[t]
  BY HandsFacts
<1>2. /\ InHands(t, n) /\ Held(n) /\ \A u \in Threads : InHands(u, n) => u = t
      /\ \A v \in Privs, k \in Kinds : n \notin tree[v][k]
      /\ node[n].priv = of[t] /\ of[t] \in Privs /\ priv[of[t]].st = "active"
  BY <1>1, HandsFacts
<1>3. PICK v \in Privs, k \in Kinds : v = node[n].priv /\ k = node[n].kind /\ v = of[t]
  BY <1>2 DEF IInv, TypeI, NodeT
<1>4. /\ tree' = [tree EXCEPT ![v][k] = @ \cup {n}]
      /\ \A m \in tree[v][k] : node[m].gpuaddr # node[n].gpuaddr
  BY <1>1, <1>3 DEF hgsl_mem_add_node
<1>5. /\ tree' \in [Privs -> [Kinds -> SUBSET Nodes]]
      /\ tree'[v][k] = tree[v][k] \cup {n}
      /\ \A w \in Privs, j \in Kinds : w # v \/ j # k => tree'[w][j] = tree[w][j]
  BY <1>4, TreeAdds, ZenonT(60)
<1>6. Moves(t, "idle", 0, 0) /\ (at[t] = 0 \/ at[t] = n) /\ "idle" \in Pcs /\ 0 \in 0 .. NumPrivs
  BY <1>1, ReturnMoves, Bounds DEF Pcs
<1>7. /\ Frame(n, {t}) /\ {t} \in SUBSET Threads
      /\ pc'[t] = "idle" /\ at'[t] = 0 /\ of'[t] = 0
      /\ (InHands(t, n)' <=> 0 = n /\ "idle" \in HandPc)
      /\ \A u \in Threads : u # t => (InHands(u, n)' <=> InHands(u, n))
      /\ \A u \in Threads : u # t => pc'[u] = pc[u] /\ at'[u] = at[u] /\ of'[u] = of[u]
  <2>1. Moved(t, n, "idle", 0, 0)
    BY <1>6, MovesFrame
  <2> QED
    BY <2>1 DEF Moved
<1>8. Installers(n)' = Installers(n)
  BY <1>7, FdSame DEF HandPc
<1>9. node'[n] = r /\ node' = [node EXCEPT ![n] = r] /\ node' \in [Nodes -> NodeT]
  BY <1>1 DEF IInv, TypeI
<1>10. UNCHANGED <<priv, release_list, release_work, worker>>
  BY DEF privVars
<1>11. \A u \in Threads : ~(InHands(u, n)')
  BY <1>2, <1>7 DEF HandPc
<1>12. PlaceOK(n)'
  <2>1. Held(n)' /\ r.priv = v /\ r.kind = k
    BY <1>1, <1>3, <1>9 DEF Held
  <2>2. \A w \in Privs, j \in Kinds : n \in tree'[w][j] <=> w = v /\ j = k
    BY <1>2, <1>5
  <2> QED
    BY <1>9, <1>11, <2>1, <2>2 DEF PlaceOK
<1>13. PlaceI' /\ RefI'
  <2>1. \A w \in Privs, j \in Kinds : \A m \in Nodes :
            m # n => (m \in tree'[w][j] <=> m \in tree[w][j])
    BY <1>5
  <2>2. NodeOK(r, Cardinality(Installers(n)'))
    BY <1>1, <1>8
  <2> QED
    BY <1>7, <1>9, <1>12, <2>1, <2>2, PlaceRefKeep
<1>14. ThreadI'
  <2>1. ThreadOK(t)'
    BY <1>7 DEF ThreadOK
  <2>2. ASSUME NEW u \in Threads, u # t PROVE ThreadOK(u)'
    <3>1. u \notin {t} /\ Frame(n, {t}) /\ {t} \in SUBSET Threads /\ node' = [node EXCEPT ![n] = r]
      BY <1>7, <1>9, <2>2
    <3>2. at[u] = n => /\ r.priv = node[n].priv /\ r.kind = node[n].kind
                       /\ pc[u] = "map" => r.gpuaddr = 0
      BY <1>1, <1>2, <2>2 DEF InHands, HandPc
    <3> QED
      BY <3>1, <3>2, ThreadKeep
  <2> QED
    BY <2>1, <2>2 DEF ThreadI
<1>15. KeyI'
  <2>1. \A m \in Nodes : node'[m].gpuaddr = node[m].gpuaddr
    BY <1>1, <1>9 DEF IInv, TypeI
  <2>2. ASSUME NEW w \in Privs, NEW j \in Kinds, NEW x \in tree'[w][j], NEW y \in tree'[w][j], x # y
        PROVE node'[x].gpuaddr # node'[y].gpuaddr
    <3>1. x \in Nodes /\ y \in Nodes
      BY <1>5
    <3>2. x \in tree[w][j] /\ y \in tree[w][j] => node[x].gpuaddr # node[y].gpuaddr
      BY <2>2 DEF IInv, KeyI
    <3> QED
      BY <1>4, <1>5, <2>1, <2>2, <3>1, <3>2
  <2> QED
    BY <2>2 DEF KeyI
<1>16. HostI'
  <2>1. \A g \in Addrs : host'[g] = n =>
            n \in ignored' \/ (r.gpuaddr = g /\ (HeldBy(r) \/ r.st = "leaked"))
    BY <1>1 DEF IInv, HostI, Nodes
  <2>2. /\ host' \in [Addrs -> 0 .. NumNodes] /\ ignored \in SUBSET ignored'
        /\ \A g \in Addrs : host'[g] # n => host'[g] \in {0, host[g]}
    BY DEF IInv, TypeI
  <2> QED
    BY <1>9, <2>1, <2>2, HostKeep
<1>17. PrivI'
  <2>1. \A u \in Threads : of'[u] # 0 => of'[u] \in Privs /\ priv[of'[u]].st = "active"
    <3>1. \A u \in Threads : of[u] \in 0 .. NumPrivs /\ (of[u] # 0 => priv[of[u]].st = "active")
      BY DEF IInv, TypeI, PrivI
    <3> QED
      BY <1>7, <3>1, Bounds DEF Privs
  <2>2. \A w \in Privs : priv[w].st = "active" \/ Left(w)' \in SUBSET Left(w)
    BY <1>2, <1>3, <1>5 DEF Left, Kinds
  <2> QED
    BY <1>10, <2>1, <2>2, PrivKeep
<1>18. TypeI'
  <2>1. /\ pc' \in [Threads -> Pcs] /\ at' \in [Threads -> 0 .. NumNodes]
        /\ of' \in [Threads -> 0 .. NumPrivs]
    BY <1>7 DEF Frame
  <2> QED
    BY <1>5, <1>9, <1>10, <2>1 DEF IInv, TypeI
<1> QED
  BY <1>13, <1>14, <1>15, <1>16, <1>17, <1>18 DEF IInv

\* One more reference, with what it is for.
LEMMA OneMore ==
    ASSUME NEW s \in NodeT, NEW r \in NodeT, NEW fd \in Nat, NEW d \in Nat, NodeOK(s, fd),
           s.kind = "alloc", s.refs # 0, s.st # "none",
           r.st = s.st /\ r.priv = s.priv /\ r.kind = s.kind /\ (r.own <=> s.own),
           r.refs = s.refs + 1,
           \/ r.fds = s.fds + 1 /\ d = fd /\ (r.sgt_ext <=> s.sgt_ext)
           \/ r.fds = s.fds /\ d = fd + 1 /\ (r.sgt_ext <=> s.sgt_ext)
           \/ r.fds = s.fds /\ d = fd /\ r.sgt_ext /\ ~s.sgt_ext /\ s.own
    PROVE  NodeOK(r, d) /\ (HeldBy(r) <=> HeldBy(s))
<1>1. s.refs \in Nat /\ s.fds \in Nat /\ s.kind # "map"
  BY DEF NodeT
<1>2. s.refs = One(s.own) + s.fds + fd + One(s.sgt_ext)
  BY DEF NodeOK
<1>3. r.refs = One(r.own) + r.fds + d + One(r.sgt_ext)
  BY <1>1, <1>2 DEF One
<1>4. r.refs # 0 /\ s.st # "freed" /\ s.priv # 0
  BY <1>1 DEF NodeOK
<1>5. r.sgt_ext => r.own
  BY DEF NodeOK
<1>6. NodeOK(r, d)
  BY <1>1, <1>3, <1>4, <1>5 DEF NodeOK
<1> QED
  BY <1>6 DEF HeldBy

LEMMA HeldHasRef ==
    ASSUME NEW s \in NodeT, NEW fd \in Nat, NodeOK(s, fd), HeldBy(s), s.kind = "alloc"
    PROVE  s.refs # 0 /\ s.st # "none" /\ s.own
  BY DEF NodeT, NodeOK, HeldBy, One

\* The node stays in the hands of the thread, which turns to the undo path.
LEMMA UndoBegins ==
    ASSUME IInv, NEW t \in Threads, pc[t] = "add", Go(t, "undo"), UNCHANGED <<at, of>>,
           UNCHANGED <<tree, node>>, UNCHANGED privVars, UNCHANGED <<host, ignored, faults>>
    PROVE  IInv'
<1>1. pc[t] \in HandPc
  BY DEF HandPc
<1>2. PICK n \in Nodes : n = at[t] /\ Held(n)
  BY <1>1, HandsFacts
<1>3. /\ node[n] \in NodeT /\ NodeOK(node[n], Cardinality(Installers(n))) /\ HeldBy(node[n])
      /\ node \in [Nodes -> NodeT]
  BY <1>1, <1>2, NodeFacts DEF Held, IInv, TypeI
<1>4. PICK r \in NodeT : r = node[n]
  BY <1>3
<1>5. node' = [node EXCEPT ![at[t]] = r]
  BY <1>2, <1>3, <1>4
<1>6. Moves(t, "undo", at[t], of[t])
  BY GoMoves DEF Pcs, HandPc
<1>7. /\ r.priv = node[at[t]].priv /\ r.kind = node[at[t]].kind
      /\ NodeOK(r, Cardinality(Installers(at[t]))) /\ HeldBy(r)
  BY <1>2, <1>3, <1>4
<1>8. /\ UNCHANGED <<privVars, tree>> /\ faults' \in 0 .. MaxFaults /\ ignored' \in SUBSET Nodes
      /\ host' \in [Addrs -> 0 .. NumNodes] /\ ignored \in SUBSET ignored'
      /\ \A g \in Addrs : host'[g] # at[t] => host'[g] \in {0, host[g]}
  BY DEF IInv, TypeI
<1>9. \A g \in Addrs : host'[g] = at[t] =>
          at[t] \in ignored' \/ (r.gpuaddr = g /\ (HeldBy(r) \/ r.st = "leaked"))
  BY <1>2, <1>4, <1>7 DEF IInv, HostI, Nodes
<1> QED
  BY <1>1, <1>5, <1>6, <1>7, <1>8, <1>9, HandStep

LEMMA CopyFailsAction == ASSUME IInv, NEW t \in Threads, CopyFails(t) PROVE IInv'
  BY UndoBegins DEF CopyFails

LEMMA AddAction == ASSUME IInv, NEW t \in Threads, Add(t) PROVE IInv'
<1>1. pc[t] = "add" /\ pc[t] \in HandPc
  BY DEF Add, HandPc
<1>2. PICK n \in Nodes : n = at[t] /\ Held(n)
  BY <1>1, HandsFacts
<1>3. /\ node[n] \in NodeT /\ NodeOK(node[n], Cardinality(Installers(n))) /\ HeldBy(node[n])
      /\ Cardinality(Installers(n)) \in Nat /\ node \in [Nodes -> NodeT]
  BY <1>1, <1>2, NodeFacts DEF Held, IInv, TypeI
<1>4. UNCHANGED privVars /\ UNCHANGED <<host, ignored, faults>>
  BY DEF Add
<1>5. CASE hgsl_mem_add_node(n) # {}
  <2>1. /\ tree' \in hgsl_mem_add_node(at[t]) /\ Return(t)
        /\ node' = IF node[n].kind = "alloc"
                   THEN [node EXCEPT ![n].refs = @ + 1, ![n].fds = @ + 1] ELSE node
    BY <1>2, <1>5 DEF Add
  <2>2. CASE node[n].kind = "alloc"
    <3>1. node[n].refs # 0 /\ node[n].st # "none"
      BY <1>3, <2>2, HeldHasRef
    <3>2. PICK r : r = [node[n] EXCEPT !.refs = @ + 1, !.fds = @ + 1]
      OBVIOUS
    <3>3. /\ r.refs = node[n].refs + 1 /\ r.fds = node[n].fds + 1 /\ r.st = node[n].st
          /\ (r.sgt_ext <=> node[n].sgt_ext) /\ (r.own <=> node[n].own)
          /\ r.priv = node[n].priv /\ r.kind = node[n].kind /\ r.gpuaddr = node[n].gpuaddr
      BY <1>3, <3>2 DEF NodeT
    <3>4. r \in NodeT
      <4>1. PICK c \in Nat, f \in Nat : c = node[n].refs + 1 /\ f = node[n].fds + 1
        BY <1>3 DEF NodeT
      <4>2. r = [node[n] EXCEPT !.refs = c, !.fds = f]
        BY <3>2, <4>1
      <4> QED
        BY <1>3, <4>2 DEF NodeT
    <3>5. NodeOK(r, Cardinality(Installers(n))) /\ (HeldBy(r) <=> HeldBy(node[n]))
      BY <1>3, <2>2, <3>1, <3>3, <3>4, OneMore
    <3>6. node' = [node EXCEPT ![at[t]] = r]
      BY <1>2, <1>3, <2>1, <2>2, <3>2 DEF NodeT
    <3>7. r.priv = node[at[t]].priv /\ r.kind = node[at[t]].kind /\ r.gpuaddr = node[at[t]].gpuaddr
      BY <1>2, <3>3
    <3>8. NodeOK(r, Cardinality(Installers(at[t]))) /\ HeldBy(r)
      BY <1>2, <1>3, <3>5
    <3> QED
      BY <1>1, <1>4, <2>1, <3>4, <3>6, <3>7, <3>8, AddStep
  <2>3. CASE node[n].kind # "alloc"
    <3>1. PICK r \in NodeT : r = node[n]
      BY <1>3
    <3>2. node' = [node EXCEPT ![at[t]] = r]
      BY <1>2, <1>3, <2>1, <2>3, <3>1
    <3>3. /\ r.priv = node[at[t]].priv /\ r.kind = node[at[t]].kind
          /\ r.gpuaddr = node[at[t]].gpuaddr
          /\ NodeOK(r, Cardinality(Installers(at[t]))) /\ HeldBy(r)
      BY <1>2, <1>3, <3>1
    <3> QED
      BY <1>1, <1>4, <2>1, <3>2, <3>3, AddStep
  <2> QED
    BY <2>2, <2>3
<1>6. CASE ~(hgsl_mem_add_node(n) # {})
  <2>1. Go(t, "undo") /\ UNCHANGED <<at, of>> /\ UNCHANGED <<tree, node>>
    BY <1>2, <1>6 DEF Add
  <2> QED
    BY <1>1, <1>4, <2>1, UndoBegins
<1> QED
  BY <1>5, <1>6

\* Both the error path and the worker free in spite of a failed call.
LEMMA UndoAction == ASSUME IInv, NEW t \in Threads, Undo(t) PROVE IInv'
<1>1. pc[t] = "undo" /\ pc[t] \in HandPc
  BY DEF Undo, HandPc
<1>2. PICK n \in Nodes : n = at[t] /\ Held(n)
  BY <1>1, HandsFacts
<1>3. /\ node[n] \in NodeT /\ NodeOK(node[n], Cardinality(Installers(n))) /\ HeldBy(node[n])
      /\ Cardinality(Installers(n)) \in Nat /\ node \in [Nodes -> NodeT] /\ ignored \in SUBSET Nodes
  BY <1>1, <1>2, NodeFacts DEF Held, IInv, TypeI
<1>4. PICK r \in NodeT : /\ r = hgsl_sharedmem_free(node[n])
                         /\ NodeOK(r, Cardinality(Installers(n))) /\ ~HeldBy(r)
                         /\ r.priv = node[n].priv /\ r.kind = node[n].kind
  BY <1>3, FreeIs
<1>5. /\ node' = [node EXCEPT ![at[t]] = r] /\ UNCHANGED <<privVars, tree>> /\ Return(t)
      /\ \/ UnmapSucceeds(n) /\ ignored' = ignored
         \/ UnmapFails(n) /\ ignored' = ignored \cup {n}
  BY <1>2, <1>4 DEF Undo
<1>6. /\ host' \in [Addrs -> 0 .. NumNodes] /\ faults' \in 0 .. MaxFaults
      /\ ignored' \in SUBSET Nodes /\ ignored \in SUBSET ignored'
      /\ \A g \in Addrs : host'[g] # n => host'[g] \in {0, host[g]}
      /\ \A g \in Addrs : host'[g] = n => n \in ignored'
  <2>1. CASE UnmapSucceeds(n) /\ ignored' = ignored
    BY <1>3, <2>1, UnmapOK
  <2>2. CASE UnmapFails(n) /\ ignored' = ignored \cup {n}
    BY <1>3, <2>2, UnmapBad
  <2> QED
    BY <1>5, <2>1, <2>2
<1>7. Moves(t, "idle", 0, 0)
  BY <1>5, ReturnMoves
<1>8. /\ r.priv = node[at[t]].priv /\ r.kind = node[at[t]].kind
      /\ NodeOK(r, Cardinality(Installers(at[t]))) /\ ~HeldBy(r)
      /\ \A g \in Addrs : host'[g] # at[t] => host'[g] \in {0, host[g]}
      /\ \A g \in Addrs : host'[g] = at[t] => at[t] \in ignored'
  BY <1>2, <1>4, <1>6
<1> QED
  BY <1>1, <1>5, <1>6, <1>7, <1>8, HandStep

LEMMA UnmapAction == ASSUME IInv, NEW t \in Threads, Unmap(t) PROVE IInv'
<1>1. pc[t] = "unmap" /\ pc[t] \in HandPc
  BY DEF Unmap, HandPc
<1>2. PICK n \in Nodes : n = at[t] /\ Held(n)
  BY <1>1, HandsFacts
<1>3. /\ node[n] \in NodeT /\ NodeOK(node[n], Cardinality(Installers(n))) /\ HeldBy(node[n])
      /\ Cardinality(Installers(n)) \in Nat /\ node \in [Nodes -> NodeT] /\ ignored \in SUBSET Nodes
  BY <1>1, <1>2, NodeFacts DEF Held, IInv, TypeI
<1>4. UNCHANGED <<privVars, tree>> /\ ignored' = ignored
  BY DEF Unmap
<1>5. CASE UnmapSucceeds(n) /\ Return(t) /\ node' = [node EXCEPT ![n] = hgsl_sharedmem_free(@)]
  <2>1. PICK r \in NodeT : /\ r = hgsl_sharedmem_free(node[n])
                           /\ NodeOK(r, Cardinality(Installers(n))) /\ ~HeldBy(r)
                           /\ r.priv = node[n].priv /\ r.kind = node[n].kind
    BY <1>3, FreeIs
  <2>2. node' = [node EXCEPT ![at[t]] = r] /\ Moves(t, "idle", 0, 0)
    BY <1>2, <1>5, <2>1, ReturnMoves
  <2>3. /\ host' \in [Addrs -> 0 .. NumNodes] /\ faults' \in 0 .. MaxFaults
        /\ ignored' \in SUBSET Nodes /\ ignored \in SUBSET ignored'
        /\ \A g \in Addrs : host'[g] # n => host'[g] \in {0, host[g]}
        /\ \A g \in Addrs : host'[g] = n => n \in ignored'
    BY <1>3, <1>4, <1>5, UnmapOK
  <2>4. /\ r.priv = node[at[t]].priv /\ r.kind = node[at[t]].kind
        /\ NodeOK(r, Cardinality(Installers(at[t]))) /\ ~HeldBy(r)
        /\ \A g \in Addrs : host'[g] # at[t] => host'[g] \in {0, host[g]}
        /\ \A g \in Addrs : host'[g] = at[t] => at[t] \in ignored'
    BY <1>2, <2>1, <2>3
  <2> QED
    BY <1>1, <1>4, <2>2, <2>3, <2>4, HandStep
<1>6. CASE UnmapFails(n) /\ Go(t, "readd") /\ UNCHANGED <<node, at, of>>
  <2>1. PICK r \in NodeT : r = node[n]
    BY <1>3
  <2>2. node' = [node EXCEPT ![at[t]] = r]
    BY <1>2, <1>3, <1>6, <2>1
  <2>3. UNCHANGED <<at, of>>
    BY <1>6
  <2>4. Moves(t, "readd", at[t], of[t])
    BY <1>6, <2>3, GoMoves DEF Pcs, HandPc
  <2>5. /\ r.priv = node[at[t]].priv /\ r.kind = node[at[t]].kind
        /\ NodeOK(r, Cardinality(Installers(at[t]))) /\ HeldBy(r)
    BY <1>2, <1>3, <2>1
  <2>6. /\ host' \in [Addrs -> 0 .. NumNodes] /\ faults' \in 0 .. MaxFaults
        /\ \A g \in Addrs : host'[g] \in {0, host[g]}
    BY <1>6, UnmapBad
  <2>7. \A g \in Addrs : host'[g] = n => n \in ignored' \/ r.gpuaddr = g
    BY <1>2, <1>4, <2>1, <2>6 DEF IInv, HostI, Nodes
  <2>8. \A g \in Addrs : host'[g] = at[t] =>
            at[t] \in ignored' \/ (r.gpuaddr = g /\ (HeldBy(r) \/ r.st = "leaked"))
    BY <1>2, <2>5, <2>7
  <2>9. ignored' \in SUBSET Nodes /\ ignored \in SUBSET ignored'
    BY <1>3, <1>4
  <2> QED
    BY <1>1, <1>4, <2>2, <2>4, <2>5, <2>6, <2>8, <2>9, HandStep
<1> QED
  BY <1>2, <1>5, <1>6 DEF Unmap

\* A node that finds its address taken is given up as it is.
LEMMA ReaddAction == ASSUME IInv, NEW t \in Threads, Readd(t) PROVE IInv'
<1>1. pc[t] = "readd" /\ pc[t] \in HandPc
  BY DEF Readd, HandPc
<1>2. PICK n \in Nodes : n = at[t] /\ Held(n)
  BY <1>1, HandsFacts
<1>3. /\ node[n] \in NodeT /\ NodeOK(node[n], Cardinality(Installers(n))) /\ HeldBy(node[n])
      /\ Cardinality(Installers(n)) \in Nat /\ node \in [Nodes -> NodeT] /\ ignored \in SUBSET Nodes
  BY <1>1, <1>2, NodeFacts DEF Held, IInv, TypeI
<1>4. UNCHANGED privVars /\ UNCHANGED <<host, ignored, faults>> /\ Return(t)
  BY DEF Readd
<1>5. CASE tree' \in hgsl_mem_add_node(n) /\ UNCHANGED node
  <2>1. PICK r \in NodeT : r = node[n]
    BY <1>3
  <2>2. node' = [node EXCEPT ![at[t]] = r]
    BY <1>2, <1>3, <1>5, <2>1
  <2>3. /\ r.priv = node[at[t]].priv /\ r.kind = node[at[t]].kind
        /\ r.gpuaddr = node[at[t]].gpuaddr
        /\ NodeOK(r, Cardinality(Installers(at[t]))) /\ HeldBy(r)
        /\ tree' \in hgsl_mem_add_node(at[t])
    BY <1>2, <1>3, <1>5, <2>1
  <2> QED
    BY <1>1, <1>4, <2>2, <2>3, AddStep
<1>6. CASE node' = [node EXCEPT ![n].st = "leaked"] /\ UNCHANGED tree
  <2>1. PICK r : r = [node[n] EXCEPT !.st = "leaked"]
    OBVIOUS
  <2>2. /\ r.st = "leaked" /\ r.priv = node[n].priv /\ r.kind = node[n].kind
        /\ r.gpuaddr = node[n].gpuaddr /\ (r.own <=> node[n].own) /\ r.refs = node[n].refs
        /\ r.fds = node[n].fds /\ (r.sgt_ext <=> node[n].sgt_ext)
    BY <1>3, <2>1 DEF NodeT
  <2>3. r \in NodeT
    BY <1>3, <2>1 DEF NodeT
  <2>4. NodeOK(r, Cardinality(Installers(n))) /\ ~HeldBy(r)
    BY <1>3, <2>2, HeldHasRef DEF NodeOK, HeldBy, One
  <2>5. node' = [node EXCEPT ![at[t]] = r] /\ Moves(t, "idle", 0, 0)
    BY <1>2, <1>3, <1>4, <1>6, <2>1, ReturnMoves
  <2>6. /\ UNCHANGED <<privVars, tree>> /\ faults' \in 0 .. MaxFaults /\ ignored' \in SUBSET Nodes
        /\ host' \in [Addrs -> 0 .. NumNodes] /\ ignored \in SUBSET ignored'
        /\ \A g \in Addrs : host'[g] # at[t] => host'[g] \in {0, host[g]}
    BY <1>4, <1>6 DEF IInv, TypeI
  <2>7. \A g \in Addrs : host'[g] = at[t] =>
            at[t] \in ignored' \/ (r.gpuaddr = g /\ (HeldBy(r) \/ r.st = "leaked"))
    BY <1>2, <1>4, <2>2 DEF IInv, HostI, Nodes
  <2>8. r.priv = node[at[t]].priv /\ r.kind = node[at[t]].kind
        /\ NodeOK(r, Cardinality(Installers(at[t])))
    BY <1>2, <2>2, <2>4
  <2> QED
    BY <1>1, <2>3, <2>4, <2>5, <2>6, <2>7, <2>8, HandStep
<1> QED
  BY <1>2, <1>5, <1>6 DEF Readd

-----------------------------------------------------------------------------
(* Nodes taken from the trees, and references on those in them.            *)

WorkerT == [pc : {"idle", "loop", "stop", "cleanup", "sweep"}, v : 0 .. NumPrivs, ret : 0 .. 1]

\* A step about n that adds nothing to the trees.
LEMMA NodeStep ==
    ASSUME IInv, NEW n \in Nodes, NEW r \in NodeT, node' = [node EXCEPT ![n] = r],
           NEW M \in SUBSET Threads, Frame(n, M), ThreadI', PlaceOK(n)',
           NodeOK(r, Cardinality(Installers(n)')),
           tree' \in [Privs -> [Kinds -> SUBSET Nodes]],
           \A v \in Privs, k \in Kinds : \A m \in Nodes :
               m # n => (m \in tree'[v][k] <=> m \in tree[v][k]),
           \A v \in Privs, k \in Kinds : n \in tree'[v][k] =>
               n \in tree[v][k] /\ r.gpuaddr = node[n].gpuaddr,
           host' \in [Addrs -> 0 .. NumNodes], ignored \in SUBSET ignored',
           ignored' \in SUBSET Nodes, faults' \in 0 .. MaxFaults,
           \A g \in Addrs : host'[g] # n => host'[g] \in {0, host[g]},
           \A g \in Addrs : host'[g] = n =>
               n \in ignored' \/ (r.gpuaddr = g /\ (HeldBy(r) \/ r.st = "leaked")),
           UNCHANGED <<priv, release_list, release_work>>,
           worker' \in WorkerT, worker'.pc = worker.pc /\ worker'.v = worker.v,
           \A u \in Threads : of'[u] # 0 => priv[of'[u]].st = "active"
    PROVE  IInv'
<1>1. \A v \in Privs, k \in Kinds : tree'[v][k] \in SUBSET tree[v][k]
  OBVIOUS
<1>2. PlaceI' /\ RefI'
  BY PlaceRefKeep
<1>3. KeyI'
  <2>1. \A v \in Privs, k \in Kinds : n \in tree'[v][k] => r.gpuaddr = node[n].gpuaddr
    OBVIOUS
  <2> QED
    BY <1>1, <2>1, KeyKeep
<1>4. HostI'
  BY HostKeep
<1>5. of' \in [Threads -> 0 .. NumPrivs]
  BY DEF Frame
<1>6. PrivI'
  <2>1. \A u \in Threads : of'[u] # 0 => of'[u] \in Privs /\ priv[of'[u]].st = "active"
    BY <1>5, Bounds DEF Privs
  <2>2. \A v \in Privs : Left(v)' \in SUBSET Left(v)
    BY <1>1 DEF Left, Kinds
  <2> QED
    BY <2>1, <2>2, PrivKeep
<1>7. TypeI'
  <2>1. /\ pc' \in [Threads -> Pcs] /\ at' \in [Threads -> 0 .. NumNodes]
        /\ of' \in [Threads -> 0 .. NumPrivs]
    BY DEF Frame
  <2>2. node' \in [Nodes -> NodeT]
    BY DEF IInv, TypeI
  <2> QED
    BY <2>1, <2>2 DEF IInv, TypeI, WorkerT
<1> QED
  BY <1>2, <1>3, <1>4, <1>6, <1>7 DEF IInv

\* Starting and ending a call.
LEMMA OfMoves ==
    ASSUME IInv, NEW t \in Threads, NEW o \in 0 .. NumPrivs, NEW p, NEW a, Moves(t, p, a, o),
           o # 0 => priv[o].st = "active"
    PROVE  \A u \in Threads : of'[u] # 0 => priv[of'[u]].st = "active"
<1>1. \A u \in Threads : of'[u] = IF u = t THEN o ELSE of[u]
  BY DEF Moves, IInv, TypeI
<1> QED
  BY <1>1 DEF IInv, PrivI

LEMMA CallFrame ==
    ASSUME IInv, NEW t \in Threads, pc[t] = "idle", NEW n \in Nodes, NEW v \in Privs,
           NEW p \in {"map", "unmap", "fd"}, Moves(t, p, n, v)
    PROVE  Moved(t, n, p, n, v)
<1>1. at[t] = 0 /\ of[t] = 0 /\ p \in Pcs /\ v \in 0 .. NumPrivs
  BY Bounds DEF IInv, ThreadI, ThreadOK, Pcs, HandPc, Privs
<1> QED
  BY <1>1, MovesFrame

\* A call takes a node that no thread has in its hands, new or out of a tree.
CallOn(n, r, v, p) ==
    /\ r.priv = v /\ HeldBy(r)
    /\ p = "map" => r.gpuaddr = 0
    /\ \A u \in Threads : at[u] = n => r.priv = node[n].priv /\ r.kind = node[n].kind
    /\ \A u \in Threads : ~InHands(u, n)
    /\ NodeOK(r, Cardinality(Installers(n)))
    /\ HeldBy(node[n]) => r.gpuaddr = node[n].gpuaddr
    /\ ~HeldBy(node[n]) => node[n].st = "none"

CallTree(n) ==
    /\ tree' \in [Privs -> [Kinds -> SUBSET Nodes]]
    /\ \A w \in Privs, k \in Kinds : \A m \in Nodes :
          m # n => (m \in tree'[w][k] <=> m \in tree[w][k])
    /\ \A w \in Privs, k \in Kinds : n \notin tree'[w][k]

LEMMA CallStep ==
    ASSUME IInv, NEW t \in Threads, pc[t] = "idle", NEW n \in Nodes, NEW r \in NodeT,
           node' = [node EXCEPT ![n] = r], NEW v \in Privs, priv[v].st = "active",
           NEW p \in {"map", "unmap"}, Moves(t, p, n, v),
           CallOn(n, r, v, p), CallTree(n),
           UNCHANGED privVars, UNCHANGED <<host, ignored, faults>>
    PROVE  IInv'
<1>1. at[t] = 0 /\ of[t] = 0 /\ p \in Pcs /\ v \in 0 .. NumPrivs
  BY Bounds DEF IInv, ThreadI, ThreadOK, Pcs, HandPc, Privs
<1>2. /\ Frame(n, {t}) /\ {t} \in SUBSET Threads
      /\ pc'[t] = p /\ at'[t] = n /\ of'[t] = v
      /\ (InHands(t, n)' <=> p \in HandPc)
      /\ \A u \in Threads : u # t => (InHands(u, n)' <=> InHands(u, n))
      /\ \A u \in Threads : u # t => pc'[u] = pc[u] /\ at'[u] = at[u] /\ of'[u] = of[u]
  <2>1. Moved(t, n, p, n, v)
    BY CallFrame
  <2> QED
    BY <2>1 DEF Moved
<1>3. node'[n] = r
  BY DEF IInv, TypeI
<1>4. p \in HandPc /\ n # 0
  BY DEF HandPc, Nodes
<1>5. PlaceOK(n)'
  <2>1. Held(n)'
    BY <1>3 DEF Held, CallOn
  <2>2. \A u \in Threads : InHands(u, n)' <=> u = t
    BY <1>2, <1>4 DEF CallOn
  <2>3. r.kind \in Kinds
    BY DEF NodeT
  <2>4. r.priv = v /\ \A w \in Privs, k \in Kinds : n \notin tree'[w][k]
    BY DEF CallOn, CallTree
  <2> QED
    BY <1>3, <2>1, <2>2, <2>3, <2>4 DEF PlaceOK
<1>6. NodeOK(r, Cardinality(Installers(n)'))
  <2>1. Installers(n)' = Installers(n)
    BY <1>2, FdSame
  <2> QED
    BY <2>1 DEF CallOn
<1>7. ThreadI'
  <2>1. ThreadOK(t)'
    BY <1>2, <1>3 DEF ThreadOK, CallOn
  <2>2. ASSUME NEW u \in Threads, u # t PROVE ThreadOK(u)'
    <3>1. u \notin {t} /\ Frame(n, {t}) /\ {t} \in SUBSET Threads
      BY <1>2, <2>2
    <3>2. at[u] = n => /\ r.priv = node[n].priv /\ r.kind = node[n].kind
                       /\ pc[u] = "map" => r.gpuaddr = 0
      BY DEF InHands, HandPc, CallOn
    <3> QED
      BY <3>1, <3>2, ThreadKeep
  <2> QED
    BY <2>1, <2>2 DEF ThreadI
<1>8. \A g \in Addrs : host'[g] = n => n \in ignored' \/ (r.gpuaddr = g /\ HeldBy(r))
  <2>1. HeldBy(r) /\ (HeldBy(node[n]) => r.gpuaddr = node[n].gpuaddr)
    BY DEF CallOn
  <2>2. node[n].st # "leaked" \/ HeldBy(node[n])
    BY DEF CallOn
  <2> QED
    BY <1>4, <2>1, <2>2 DEF IInv, HostI, Held
<1>9. /\ host' \in [Addrs -> 0 .. NumNodes] /\ ignored \in SUBSET ignored'
      /\ ignored' \in SUBSET Nodes /\ faults' \in 0 .. MaxFaults
      /\ \A g \in Addrs : host'[g] # n => host'[g] \in {0, host[g]}
      /\ \A g \in Addrs : host'[g] = n =>
            n \in ignored' \/ (r.gpuaddr = g /\ (HeldBy(r) \/ r.st = "leaked"))
  BY <1>8 DEF IInv, TypeI
<1>10. \A u \in Threads : of'[u] # 0 => priv[of'[u]].st = "active"
  BY <1>1, OfMoves
<1>11. /\ UNCHANGED <<priv, release_list, release_work>>
       /\ worker' \in WorkerT /\ worker'.pc = worker.pc /\ worker'.v = worker.v
  BY DEF privVars, IInv, TypeI, WorkerT
<1>12. /\ tree' \in [Privs -> [Kinds -> SUBSET Nodes]]
       /\ \A w \in Privs, k \in Kinds : \A m \in Nodes :
             m # n => (m \in tree'[w][k] <=> m \in tree[w][k])
       /\ \A w \in Privs, k \in Kinds : n \in tree'[w][k] =>
             n \in tree[w][k] /\ r.gpuaddr = node[n].gpuaddr
  BY DEF CallTree
<1>13. PICK M \in SUBSET Threads : Frame(n, M)
  BY <1>2
<1> QED
  BY <1>5, <1>6, <1>7, <1>9, <1>10, <1>11, <1>12, <1>13, NodeStep

LEMMA BeginAction ==
    ASSUME IInv, NEW t \in Threads, NEW v \in Privs, NEW kind \in Kinds, Begin(t, v, kind)
    PROVE  IInv'
<1> DEFINE unused == {n \in Nodes : node[n].st = "none"}
<1>1. PICK n \in unused : n = CHOOSE m \in unused : \A k \in unused : m <= k
  <2>1. unused \in SUBSET Nat /\ unused # {}
    BY Bounds DEF Begin, Nodes
  <2>2. \E u \in unused : \A w \in unused : u <= w
    BY <2>1, LeastExists
  <2> QED
    BY <2>2
<1>2. n \in Nodes /\ node[n].st = "none"
  BY <1>1
<1> DEFINE r == [NoNode EXCEPT !.st = "live", !.priv = v, !.kind = kind, !.own = (kind = "alloc"),
                               !.refs = IF kind = "alloc" THEN 1 ELSE 0]
<1>3. PICK s : s = r
  OBVIOUS
<1>4. /\ Idle(t, v) /\ node' = [node EXCEPT ![n] = s]
      /\ Go(t, "map") /\ at' = [at EXCEPT ![t] = n] /\ of' = [of EXCEPT ![t] = v]
      /\ UNCHANGED privVars /\ UNCHANGED tree /\ UNCHANGED <<host, ignored, faults>>
  BY <1>1, <1>3 DEF Begin
<1>5. /\ pc[t] = "idle" /\ priv[v].st = "active" /\ Moves(t, "map", n, v)
  BY <1>4 DEF Idle, Moves, Go
<1>6. /\ s.st = "live" /\ s.priv = v /\ s.kind = kind /\ s.gpuaddr = 0 /\ s.fds = 0
      /\ (s.own <=> kind = "alloc") /\ s.refs = (IF kind = "alloc" THEN 1 ELSE 0)
      /\ ~s.sgt_ext /\ ~s.export_id
  BY <1>3 DEF NoNode
<1>7. s \in NodeT
  <2>1. PICK o \in BOOLEAN, c \in Nat : /\ o = (kind = "alloc") /\ c = IF kind = "alloc" THEN 1 ELSE 0
    OBVIOUS
  <2>2. s = [NoNode EXCEPT !.st = "live", !.priv = v, !.kind = kind, !.own = o, !.refs = c]
    BY <1>3, <2>1
  <2>3. v \in 0 .. NumPrivs /\ 0 \in 0 .. NumAddrs
    BY Bounds DEF Privs
  <2> QED
    BY <2>2, <2>3 DEF NoNode, NodeT
<1>8. node[n].priv = 0 /\ ~HeldBy(node[n]) /\ node[n].kind = "alloc"
  BY <1>2 DEF IInv, RefI, NodeOK, HeldBy
<1>9. \A u \in Threads : at[u] # n
  BY <1>2, <1>8 DEF IInv, ThreadI, ThreadOK, Nodes, Privs
<1>10. (\A u \in Threads : ~InHands(u, n)) /\ Installers(n) = {}
  BY <1>9 DEF InHands, Installers
<1>11. NodeOK(s, Cardinality(Installers(n)))
  <2>1. Cardinality(Installers(n)) = 0
    BY <1>10, FS_EmptySet
  <2>2. v # 0
    BY DEF Privs
  <2> QED
    BY <1>6, <2>1, <2>2 DEF NodeOK, One, Kinds
<1>12. HeldBy(s)
  BY <1>6 DEF HeldBy
<1>13. \A w \in Privs, k \in Kinds : n \notin tree[w][k]
  BY <1>2, <1>8 DEF IInv, PlaceI, PlaceOK, Held
<1>14. /\ tree' = tree /\ tree \in [Privs -> [Kinds -> SUBSET Nodes]]
  BY <1>4 DEF IInv, TypeI
<1>15. /\ \A w \in Privs, k \in Kinds : \A m \in Nodes : m # n => (m \in tree'[w][k] <=> m \in tree[w][k])
       /\ \A w \in Privs, k \in Kinds : n \notin tree'[w][k]
       /\ tree' \in [Privs -> [Kinds -> SUBSET Nodes]]
  BY <1>13, <1>14
<1>16. CallOn(n, s, v, "map")
  BY <1>2, <1>6, <1>8, <1>9, <1>10, <1>11, <1>12 DEF CallOn
<1>17. CallTree(n)
  BY <1>15 DEF CallTree
<1> HIDE DEF r, unused
<1> QED
  BY <1>2, <1>4, <1>5, <1>7, <1>16, <1>17, CallStep

LEMMA TakeAction ==
    ASSUME IInv, NEW t \in Threads, NEW v \in Privs, NEW n \in Nodes, Take(t, v, n)
    PROVE  IInv'
<1>1. /\ pc[t] = "idle" /\ priv[v].st = "active" /\ Moves(t, "unmap", n, v)
      /\ tree' = [tree EXCEPT ![v][node[n].kind] = @ \ {n}]
      /\ UNCHANGED privVars /\ UNCHANGED node /\ UNCHANGED <<host, ignored, faults>>
  BY DEF Take, Idle, Moves, Go
<1>2. PICK k \in Kinds : n \in tree[v][k]
  BY DEF Take, Kinds
<1>3. PICK r \in NodeT : r = node[n]
  BY NodeFacts
<1>4. /\ r.priv = v /\ r.kind = k /\ HeldBy(r)
      /\ \A u \in Threads : ~InHands(u, n)
      /\ \A w \in Privs, j \in Kinds : n \in tree[w][j] => w = v /\ j = k
  BY <1>2, <1>3 DEF IInv, PlaceI, PlaceOK, Held
<1>5. /\ tree' \in [Privs -> [Kinds -> SUBSET Nodes]]
      /\ tree'[v][k] = tree[v][k] \ {n}
      /\ \A w \in Privs, j \in Kinds : w # v \/ j # k => tree'[w][j] = tree[w][j]
  <2>1. tree' = [tree EXCEPT ![v][k] = @ \ {n}]
    BY <1>1, <1>3, <1>4
  <2> QED
    BY <2>1, TreeDrops, ZenonT(60)
<1>6. /\ \A w \in Privs, j \in Kinds : \A m \in Nodes : m # n => (m \in tree'[w][j] <=> m \in tree[w][j])
      /\ \A w \in Privs, j \in Kinds : n \notin tree'[w][j]
  BY <1>4, <1>5
<1>7. node' = [node EXCEPT ![n] = r]
  BY <1>1, <1>3 DEF IInv, TypeI
<1>8. NodeOK(r, Cardinality(Installers(n)))
  BY <1>3, NodeFacts
<1>9. CallOn(n, r, v, "unmap")
  BY <1>3, <1>4, <1>8 DEF CallOn
<1>10. CallTree(n)
  BY <1>5, <1>6 DEF CallTree
<1> QED
  BY <1>1, <1>7, <1>9, <1>10, CallStep

\* A step that counts references on n and leaves it where it is.
LEMMA CountStep ==
    ASSUME IInv, NEW n \in Nodes, NEW r \in NodeT, node' = [node EXCEPT ![n] = r],
           NEW M \in SUBSET Threads, Frame(n, M),
           \A u \in Threads : u \in M => ThreadOK(u)' /\ ~InHands(u, n) /\ ~(InHands(u, n)'),
           r.priv = node[n].priv /\ r.kind = node[n].kind /\ r.gpuaddr = node[n].gpuaddr,
           HeldBy(r) <=> HeldBy(node[n]), node[n].st = "leaked" => r.st = "leaked",
           NodeOK(r, Cardinality(Installers(n)')),
           UNCHANGED privVars, UNCHANGED <<tree, host, ignored>>, faults' \in 0 .. MaxFaults,
           \A u \in Threads : of'[u] # 0 => priv[of'[u]].st = "active"
    PROVE  IInv'
<1>1. \A u \in Threads : (InHands(u, n)' <=> InHands(u, n))
  BY FrameHands
<1>2. node'[n] = r
  BY DEF IInv, TypeI
<1>3. PlaceOK(n)'
  <2>1. PlaceOK(n) /\ (Held(n)' <=> Held(n)) /\ tree' = tree
    BY <1>2 DEF IInv, PlaceI, Held
  <2> QED
    BY <1>1, <1>2, <2>1 DEF PlaceOK
<1>4. ThreadI'
  <2>1. ASSUME NEW u \in Threads, u \notin M PROVE ThreadOK(u)'
    <3>1. pc[u] = "map" /\ at[u] = n => r.gpuaddr = 0
      BY DEF IInv, ThreadI, ThreadOK
    <3>2. at[u] = n => /\ r.priv = node[n].priv /\ r.kind = node[n].kind
                       /\ pc[u] = "map" => r.gpuaddr = 0
      BY <3>1
    <3> QED
      BY <2>1, <3>2, ThreadKeep
  <2> QED
    BY <2>1 DEF ThreadI
<1>5. \A g \in Addrs : host'[g] = n =>
          n \in ignored' \/ (r.gpuaddr = g /\ (HeldBy(r) \/ r.st = "leaked"))
  BY DEF IInv, HostI, Held, Nodes
<1>6. /\ host' \in [Addrs -> 0 .. NumNodes] /\ ignored \in SUBSET ignored'
      /\ ignored' \in SUBSET Nodes
      /\ \A g \in Addrs : host'[g] # n => host'[g] \in {0, host[g]}
      /\ tree' = tree /\ tree' \in [Privs -> [Kinds -> SUBSET Nodes]]
  BY DEF IInv, TypeI
<1>7. /\ UNCHANGED <<priv, release_list, release_work>>
      /\ worker' \in WorkerT /\ worker'.pc = worker.pc /\ worker'.v = worker.v
  BY DEF privVars, IInv, TypeI, WorkerT
<1> QED
  BY <1>3, <1>4, <1>5, <1>6, <1>7, NodeStep

\* One reference less, with what it was for.
LEMMA OneLess ==
    ASSUME NEW s \in NodeT, NEW r \in NodeT, NEW fd \in Nat, NEW d \in Nat, NodeOK(s, fd),
           s.kind = "alloc", s.refs # 0,
           r.priv = s.priv /\ r.kind = s.kind /\ (r.own <=> s.own) /\ (r.sgt_ext <=> s.sgt_ext),
           r.refs = s.refs - 1, r.st = IF s.refs = 1 THEN "freed" ELSE s.st,
           \/ r.fds = s.fds - 1 /\ d = fd
           \/ r.fds = s.fds /\ d = fd - 1
    PROVE  NodeOK(r, d) /\ (HeldBy(r) <=> HeldBy(s)) /\ (s.st = "leaked" => r.st = "leaked")
<1>1. s.refs \in Nat /\ s.fds \in Nat /\ r.fds \in Nat /\ s.kind # "map" /\ s.st # "none" /\ s.priv # 0
  BY DEF NodeT, NodeOK
<1>2. s.refs = One(s.own) + s.fds + fd + One(s.sgt_ext)
  BY DEF NodeOK
<1>3. r.refs = One(r.own) + r.fds + d + One(r.sgt_ext)
  BY <1>1, <1>2 DEF One
<1>4. s.refs = 1 => ~s.own
  <2>1. s.own => One(s.own) = 1
    BY DEF One
  <2>2. One(s.sgt_ext) \in Nat
    BY DEF One
  <2>3. s.fds + fd >= 1
    BY <1>1
  <2> QED
    BY <1>1, <1>2, <2>1, <2>2, <2>3
<1>5. s.st # "freed" /\ (r.refs = 0 <=> s.refs = 1)
  BY <1>1 DEF NodeOK
<1>6. NodeOK(r, d)
  BY <1>1, <1>3, <1>4, <1>5 DEF NodeOK
<1> QED
  BY <1>1, <1>4, <1>5, <1>6 DEF HeldBy, NodeOK

LEMMA GetFdAction ==
    ASSUME IInv, NEW t \in Threads, NEW v \in Privs, NEW n \in Nodes, GetFd(t, v, n)
    PROVE  IInv'
<1>1. /\ pc[t] = "idle" /\ priv[v].st = "active" /\ Moves(t, "fd", n, v) /\ n \in tree[v]["alloc"]
      /\ node' = [node EXCEPT ![n].refs = @ + 1]
      /\ UNCHANGED privVars /\ UNCHANGED <<tree, host, ignored>> /\ faults' = faults
  BY DEF GetFd, Idle, Moves, Go
<1>2. /\ node[n] \in NodeT /\ NodeOK(node[n], Cardinality(Installers(n)))
      /\ Cardinality(Installers(n)) \in Nat
  BY NodeFacts
<1>3. /\ node[n].priv = v /\ node[n].kind = "alloc" /\ HeldBy(node[n])
  BY <1>1 DEF IInv, PlaceI, PlaceOK, Held, Kinds
<1>4. node[n].refs # 0 /\ node[n].st # "none"
  BY <1>2, <1>3, HeldHasRef
<1>5. at[t] = 0 /\ of[t] = 0 /\ v \in 0 .. NumPrivs /\ n # 0
  BY <1>1, Bounds DEF IInv, ThreadI, ThreadOK, Privs, Nodes
<1>6. /\ Frame(n, {t}) /\ {t} \in SUBSET Threads
      /\ pc'[t] = "fd" /\ at'[t] = n /\ of'[t] = v
      /\ \A u \in Threads : u # t => pc'[u] = pc[u] /\ at'[u] = at[u] /\ of'[u] = of[u]
  <2>1. Moved(t, n, "fd", n, v)
    BY <1>1, CallFrame
  <2> QED
    BY <2>1 DEF Moved
<1>7. PICK r : r = [node[n] EXCEPT !.refs = @ + 1]
  OBVIOUS
<1>8. /\ r.refs = node[n].refs + 1 /\ r.fds = node[n].fds /\ r.st = node[n].st
      /\ (r.sgt_ext <=> node[n].sgt_ext) /\ (r.own <=> node[n].own)
      /\ r.priv = node[n].priv /\ r.kind = node[n].kind /\ r.gpuaddr = node[n].gpuaddr
  BY <1>2, <1>7 DEF NodeT
<1>9. r \in NodeT
  <2>1. PICK c \in Nat : c = node[n].refs + 1
    BY <1>2 DEF NodeT
  <2>2. r = [node[n] EXCEPT !.refs = c]
    BY <1>7, <2>1
  <2> QED
    BY <1>2, <2>2 DEF NodeT
<1>10. node' = [node EXCEPT ![n] = r]
  BY <1>1, <1>7 DEF IInv, TypeI
<1>11. Cardinality(Installers(n)') = Cardinality(Installers(n)) + 1
  <2>1. Installers(n)' = Installers(n) \cup {t} /\ t \notin Installers(n)
    BY <1>1, <1>6 DEF Installers
  <2> QED
    BY <2>1, FdCount, FS_AddElement
<1>12. NodeOK(r, Cardinality(Installers(n)')) /\ (HeldBy(r) <=> HeldBy(node[n]))
  <2>1. PICK d \in Nat : d = Cardinality(Installers(n)) + 1
    BY <1>2
  <2>2. NodeOK(r, d) /\ (HeldBy(r) <=> HeldBy(node[n]))
    BY <1>2, <1>3, <1>4, <1>8, <1>9, <2>1, OneMore
  <2> QED
    BY <1>11, <2>1, <2>2
<1>13. ThreadOK(t)'
  BY <1>3, <1>6, <1>8, <1>10 DEF ThreadOK, IInv, TypeI
<1>14. ~InHands(t, n) /\ ~(InHands(t, n)')
  BY <1>1, <1>6 DEF InHands, HandPc
<1>15. \A u \in Threads : of'[u] # 0 => priv[of'[u]].st = "active"
  BY <1>1, <1>5, OfMoves
<1>16. faults' \in 0 .. MaxFaults
  BY <1>1 DEF IInv, TypeI
<1>17. PICK M \in SUBSET Threads : M = {t} /\ Frame(n, M)
  BY <1>6
<1>18. \A u \in Threads : u \in M => ThreadOK(u)' /\ ~InHands(u, n) /\ ~(InHands(u, n)')
  BY <1>13, <1>14, <1>17
<1>19. node[n].st = "leaked" => r.st = "leaked"
  BY <1>8
<1> QED
  BY <1>1, <1>8, <1>9, <1>10, <1>12, <1>15, <1>16, <1>17, <1>18, <1>19, CountStep

LEMMA InstallFdAction == ASSUME IInv, NEW t \in Threads, InstallFd(t) PROVE IInv'
<1>1. /\ pc[t] = "fd" /\ Moves(t, "idle", 0, 0)
      /\ UNCHANGED privVars /\ UNCHANGED <<tree, host, ignored>>
  BY ReturnMoves DEF InstallFd
<1>2. PICK n \in Nodes : n = at[t] /\ node[n].kind = "alloc"
  BY <1>1 DEF IInv, ThreadI, ThreadOK
<1>3. /\ node[n] \in NodeT /\ NodeOK(node[n], Cardinality(Installers(n)))
      /\ Cardinality(Installers(n)) \in Nat
  BY NodeFacts
<1>4. /\ Frame(n, {t}) /\ {t} \in SUBSET Threads
      /\ pc'[t] = "idle" /\ at'[t] = 0 /\ of'[t] = 0
      /\ \A u \in Threads : u # t => pc'[u] = pc[u] /\ at'[u] = at[u] /\ of'[u] = of[u]
  <2>1. (at[t] = 0 \/ at[t] = n) /\ "idle" \in Pcs /\ 0 \in 0 .. NumPrivs
    BY <1>2, Bounds DEF Pcs
  <2>2. Moved(t, n, "idle", 0, 0)
    BY <1>1, <2>1, MovesFrame
  <2> QED
    BY <2>2 DEF Moved
<1>5. PICK d \in Nat : /\ d = Cardinality(Installers(n)) - 1 /\ Cardinality(Installers(n)') = d
                       /\ Cardinality(Installers(n)) # 0
  <2>1. Installers(n)' = Installers(n) \ {t} /\ t \in Installers(n)
    BY <1>1, <1>2, <1>4 DEF Installers, Nodes
  <2>2. Cardinality(Installers(n) \ {t}) = Cardinality(Installers(n)) - 1
    BY <2>1, FdCount, FS_RemoveElement
  <2>3. Cardinality(Installers(n)) # 0
    BY <2>1, FdCount, FS_EmptySet
  <2> QED
    BY <1>3, <2>1, <2>2, <2>3
<1>6. node[n].refs # 0 /\ node[n].refs \in Nat
  BY <1>2, <1>3, <1>5 DEF NodeOK, One, NodeT
<1>7. PICK r \in NodeT :
        /\ node' = [node EXCEPT ![n] = r] /\ faults' \in 0 .. MaxFaults
        /\ r.priv = node[n].priv /\ r.kind = node[n].kind /\ r.gpuaddr = node[n].gpuaddr
        /\ (HeldBy(r) <=> HeldBy(node[n])) /\ (node[n].st = "leaked" => r.st = "leaked")
        /\ NodeOK(r, d)
  <2>1. CASE node' = [node EXCEPT ![n].fds = @ + 1] /\ UNCHANGED faults
    <3>1. PICK r : r = [node[n] EXCEPT !.fds = @ + 1]
      OBVIOUS
    <3>2. /\ r.refs = node[n].refs /\ r.fds = node[n].fds + 1 /\ r.st = node[n].st
          /\ (r.sgt_ext <=> node[n].sgt_ext) /\ (r.own <=> node[n].own)
          /\ r.priv = node[n].priv /\ r.kind = node[n].kind /\ r.gpuaddr = node[n].gpuaddr
      BY <1>3, <3>1 DEF NodeT
    <3>3. r \in NodeT
      <4>1. PICK c \in Nat : c = node[n].fds + 1
        BY <1>3 DEF NodeT
      <4>2. r = [node[n] EXCEPT !.fds = c]
        BY <3>1, <4>1
      <4> QED
        BY <1>3, <4>2 DEF NodeT
    <3>4. node' = [node EXCEPT ![n] = r]
      BY <2>1, <3>1 DEF IInv, TypeI
    <3>5. node[n].refs = One(node[n].own) + node[n].fds + Cardinality(Installers(n)) + One(node[n].sgt_ext)
      BY <1>2, <1>3 DEF NodeOK
    <3>6. r.refs = One(r.own) + r.fds + d + One(r.sgt_ext)
      BY <1>3, <1>5, <3>2, <3>5 DEF One, NodeT
    <3>7. NodeOK(r, d)
      BY <1>2, <1>3, <1>6, <3>2, <3>6 DEF NodeOK
    <3>8. faults' \in 0 .. MaxFaults
      BY <2>1 DEF IInv, TypeI
    <3>9. HeldBy(r) <=> HeldBy(node[n])
      BY <3>2 DEF HeldBy
    <3> QED
      BY <3>2, <3>3, <3>4, <3>7, <3>8, <3>9
  <2>2. CASE node' = [node EXCEPT ![n] = RefPut(@)] /\ Fault
    <3>1. PICK r \in NodeT : /\ r = RefPut(node[n]) /\ r.refs = node[n].refs - 1
                             /\ r.st = (IF node[n].refs = 1 THEN "freed" ELSE node[n].st)
                             /\ r.priv = node[n].priv /\ r.kind = node[n].kind
                             /\ r.gpuaddr = node[n].gpuaddr
                             /\ r.own = node[n].own /\ r.fds = node[n].fds
                             /\ r.sgt_ext = node[n].sgt_ext
      BY <1>3, <1>6, RefPutIs
    <3>2. NodeOK(r, d) /\ (HeldBy(r) <=> HeldBy(node[n])) /\ (node[n].st = "leaked" => r.st = "leaked")
      BY <1>2, <1>3, <1>5, <1>6, <3>1, OneLess
    <3>3. node' = [node EXCEPT ![n] = r] /\ faults' \in 0 .. MaxFaults
      BY <2>2, <3>1, FaultIs DEF IInv, TypeI
    <3> QED
      BY <3>1, <3>2, <3>3
  <2> QED
    BY <1>2, <2>1, <2>2 DEF InstallFd
<1>8. ThreadOK(t)'
  BY <1>4 DEF ThreadOK
<1>9. ~InHands(t, n) /\ ~(InHands(t, n)')
  BY <1>1, <1>4 DEF InHands, HandPc
<1>10. \A u \in Threads : of'[u] # 0 => priv[of'[u]].st = "active"
  <2>1. 0 \in 0 .. NumPrivs
    BY Bounds
  <2> QED
    BY <1>1, <2>1, OfMoves
<1>11. PICK M \in SUBSET Threads : M = {t} /\ Frame(n, M)
  BY <1>4
<1>12. \A u \in Threads : u \in M => ThreadOK(u)' /\ ~InHands(u, n) /\ ~(InHands(u, n)')
  BY <1>8, <1>9, <1>11
<1>13. NodeOK(r, Cardinality(Installers(n)'))
  BY <1>5, <1>7
<1> QED
  BY <1>1, <1>7, <1>10, <1>11, <1>12, <1>13, CountStep

\* No thread moves.
LEMMA StillFrame ==
    ASSUME IInv, UNCHANGED <<pc, at, of>>, NEW n \in Nodes
    PROVE  Frame(n, {}) /\ Installers(n)' = Installers(n)
           /\ \A u \in Threads : of'[u] # 0 => priv[of'[u]].st = "active"
  BY DEF Frame, IInv, TypeI, Installers, PrivI

LEMMA CloseFdAction == ASSUME IInv, NEW n \in Nodes, CloseFd(n) PROVE IInv'
<1>1. /\ node[n].fds > 0 /\ node' = [node EXCEPT ![n] = [RefPut(node[n]) EXCEPT !.fds = @ - 1]]
      /\ UNCHANGED privVars /\ UNCHANGED <<tree, host, ignored>> /\ UNCHANGED <<pc, at, of>>
      /\ faults' = faults
  BY DEF CloseFd
<1>2. /\ node[n] \in NodeT /\ NodeOK(node[n], Cardinality(Installers(n)))
      /\ Cardinality(Installers(n)) \in Nat
  BY NodeFacts
<1>3. node[n].kind = "alloc" /\ node[n].fds \in Nat /\ node[n].fds # 0
  BY <1>1, <1>2 DEF NodeOK, NodeT, Kinds
<1>4. node[n].refs # 0
  BY <1>2, <1>3 DEF NodeOK, One
<1>5. PICK s \in NodeT : /\ s = RefPut(node[n]) /\ s.refs = node[n].refs - 1
                         /\ s.st = (IF node[n].refs = 1 THEN "freed" ELSE node[n].st)
                         /\ s.priv = node[n].priv /\ s.kind = node[n].kind
                         /\ s.gpuaddr = node[n].gpuaddr
                         /\ s.own = node[n].own /\ s.fds = node[n].fds
                         /\ s.sgt_ext = node[n].sgt_ext
  BY <1>2, <1>4, RefPutIs
<1>6. PICK r : r = [s EXCEPT !.fds = @ - 1]
  OBVIOUS
<1>7. /\ r.refs = s.refs /\ r.fds = s.fds - 1 /\ r.st = s.st /\ r.priv = s.priv /\ r.kind = s.kind
      /\ r.gpuaddr = s.gpuaddr /\ r.own = s.own /\ r.sgt_ext = s.sgt_ext
  BY <1>5, <1>6 DEF NodeT
<1>8. r \in NodeT
  <2>1. PICK c \in Nat : c = s.fds - 1
    BY <1>3, <1>5
  <2>2. r = [s EXCEPT !.fds = c]
    BY <1>6, <2>1
  <2> QED
    BY <1>5, <2>2 DEF NodeT
<1>9. node' = [node EXCEPT ![n] = r]
  <2>1. r = [RefPut(node[n]) EXCEPT !.fds = @ - 1]
    BY <1>5, <1>6
  <2> QED
    BY <1>1, <2>1
<1>10. /\ NodeOK(r, Cardinality(Installers(n))) /\ (HeldBy(r) <=> HeldBy(node[n]))
       /\ (node[n].st = "leaked" => r.st = "leaked")
  <2>1. /\ r.refs = node[n].refs - 1 /\ r.st = (IF node[n].refs = 1 THEN "freed" ELSE node[n].st)
        /\ r.priv = node[n].priv /\ r.kind = node[n].kind /\ (r.own <=> node[n].own)
        /\ (r.sgt_ext <=> node[n].sgt_ext) /\ r.fds = node[n].fds - 1
    BY <1>5, <1>7
  <2> QED
    BY <1>2, <1>3, <1>4, <1>8, <2>1, OneLess
<1>11. /\ Frame(n, {}) /\ Installers(n)' = Installers(n)
       /\ \A u \in Threads : of'[u] # 0 => priv[of'[u]].st = "active"
  BY <1>1, StillFrame
<1>12. PICK M \in SUBSET Threads : Frame(n, M) /\ M = {}
  BY <1>11
<1>13. \A u \in Threads : u \in M => ThreadOK(u)' /\ ~InHands(u, n) /\ ~(InHands(u, n)')
  BY <1>12
<1>14. /\ NodeOK(r, Cardinality(Installers(n)')) /\ faults' \in 0 .. MaxFaults
       /\ r.priv = node[n].priv /\ r.kind = node[n].kind /\ r.gpuaddr = node[n].gpuaddr
  BY <1>1, <1>5, <1>7, <1>10, <1>11 DEF IInv, TypeI
<1> QED
  BY <1>1, <1>8, <1>9, <1>10, <1>11, <1>12, <1>13, <1>14, CountStep

LEMMA CacheOpAction ==
    ASSUME IInv, NEW v \in Privs, NEW n \in Nodes, CacheOp(v, n) PROVE IInv'
<1>1. /\ n \in tree[v]["alloc"] /\ ~node[n].sgt_ext
      /\ node' = [node EXCEPT ![n].sgt_ext = TRUE, ![n].refs = @ + 1]
      /\ UNCHANGED privVars /\ UNCHANGED <<tree, host, ignored>> /\ UNCHANGED <<pc, at, of>>
      /\ faults' = faults
  BY DEF CacheOp
<1>2. /\ node[n] \in NodeT /\ NodeOK(node[n], Cardinality(Installers(n)))
      /\ Cardinality(Installers(n)) \in Nat
  BY NodeFacts
<1>3. /\ node[n].kind = "alloc" /\ HeldBy(node[n])
  BY <1>1 DEF IInv, PlaceI, PlaceOK, Held, Kinds
<1>4. node[n].refs # 0 /\ node[n].st # "none" /\ node[n].own
  BY <1>2, <1>3, HeldHasRef
<1>5. PICK r : r = [node[n] EXCEPT !.sgt_ext = TRUE, !.refs = @ + 1]
  OBVIOUS
<1>6. /\ r.refs = node[n].refs + 1 /\ r.fds = node[n].fds /\ r.st = node[n].st /\ r.sgt_ext
      /\ r.priv = node[n].priv /\ r.kind = node[n].kind /\ r.gpuaddr = node[n].gpuaddr
      /\ (r.own <=> node[n].own)
  BY <1>2, <1>5 DEF NodeT
<1>7. r \in NodeT
  <2>1. PICK c \in Nat : c = node[n].refs + 1
    BY <1>2 DEF NodeT
  <2>2. r = [node[n] EXCEPT !.sgt_ext = TRUE, !.refs = c]
    BY <1>2, <1>5, <2>1 DEF NodeT
  <2> QED
    BY <1>2, <2>2 DEF NodeT
<1>8. node' = [node EXCEPT ![n] = r]
  BY <1>1, <1>2, <1>5 DEF IInv, TypeI, NodeT
<1>9. NodeOK(r, Cardinality(Installers(n))) /\ (HeldBy(r) <=> HeldBy(node[n]))
  BY <1>1, <1>2, <1>3, <1>4, <1>6, <1>7, OneMore
<1>10. /\ Frame(n, {}) /\ Installers(n)' = Installers(n)
       /\ \A u \in Threads : of'[u] # 0 => priv[of'[u]].st = "active"
  BY <1>1, StillFrame
<1>11. PICK M \in SUBSET Threads : Frame(n, M) /\ M = {}
  BY <1>10
<1>12. \A u \in Threads : u \in M => ThreadOK(u)' /\ ~InHands(u, n) /\ ~(InHands(u, n)')
  BY <1>11
<1>13. /\ NodeOK(r, Cardinality(Installers(n)')) /\ faults' \in 0 .. MaxFaults
       /\ (node[n].st = "leaked" => r.st = "leaked")
  BY <1>1, <1>6, <1>9, <1>10 DEF IInv, TypeI
<1> QED
  BY <1>1, <1>6, <1>7, <1>8, <1>9, <1>10, <1>11, <1>12, <1>13, CountStep

-----------------------------------------------------------------------------
(* The worker.                                                             *)

LEMMA NextLeftIs ==
    ASSUME IInv, NEW v \in Privs, Left(v) # {}
    PROVE  \E k \in Kinds : NextLeft(v) \in tree[v][k]
<1>1. PICK k \in Kinds : tree[v][k] # {} /\ tree[v][k] = IF tree[v]["map"] # {} THEN tree[v]["map"]
                                                         ELSE tree[v]["alloc"]
  BY DEF Left, Kinds
<1> DEFINE G == {node[m].gpuaddr : m \in tree[v][k]}
<1>2. tree[v][k] \in SUBSET Nodes
  BY DEF IInv, TypeI
<1>3. \A m \in tree[v][k] : node[m].gpuaddr \in Nat
  BY <1>2, Bounds DEF IInv, TypeI, NodeT
<1>4. G \in SUBSET Nat /\ G # {}
  BY <1>1, <1>3
<1>5. PICK x \in G : \A y \in G : x <= y
  <2> HIDE DEF G
  <2> QED
    BY <1>4, LeastExists
<1>6. \E n \in tree[v][k] : \A m \in tree[v][k] : node[n].gpuaddr <= node[m].gpuaddr
  BY <1>5
<1>7. NextLeft(v) = CHOOSE n \in tree[v][k] : \A m \in tree[v][k] : node[n].gpuaddr <= node[m].gpuaddr
  BY <1>1 DEF NextLeft
<1> QED
  BY <1>6, <1>7

LEMMA SweepAction == ASSUME IInv, Sweep PROVE IInv'
<1>1. PICK v \in Privs : v = worker.v /\ Left(v) # {} /\ worker.pc = "sweep"
  BY DEF Sweep, IInv, PrivI
<1>2. PICK k \in Kinds, n \in Nodes : n = NextLeft(v) /\ n \in tree[v][k]
  <2>1. PICK k \in Kinds : NextLeft(v) \in tree[v][k]
    BY <1>1, NextLeftIs
  <2>2. tree[v][k] \in SUBSET Nodes
    BY DEF IInv, TypeI
  <2> QED
    BY <2>1, <2>2
<1>3. /\ node[n].priv = v /\ node[n].kind = k /\ HeldBy(node[n])
      /\ \A u \in Threads : ~InHands(u, n)
      /\ \A w \in Privs, j \in Kinds : n \in tree[w][j] => w = v /\ j = k
  BY <1>2 DEF IInv, PlaceI, PlaceOK, Held
<1>4. /\ node[n] \in NodeT /\ NodeOK(node[n], Cardinality(Installers(n)))
      /\ Cardinality(Installers(n)) \in Nat
  BY NodeFacts
<1>5. PICK r \in NodeT : /\ r = hgsl_sharedmem_free(node[n])
                         /\ NodeOK(r, Cardinality(Installers(n))) /\ ~HeldBy(r)
                         /\ r.priv = node[n].priv /\ r.kind = node[n].kind
  BY <1>3, <1>4, FreeIs
<1>6. /\ node' = [node EXCEPT ![n] = r] /\ tree' = [tree EXCEPT ![v][k] = @ \ {n}]
      /\ UNCHANGED <<priv, release_list, release_work>> /\ UNCHANGED <<pc, at, of>>
      /\ \/ UnmapSucceeds(n) /\ ignored' = ignored /\ worker' = [worker EXCEPT !.ret = 0]
         \/ UnmapFails(n) /\ ignored' = ignored \cup {n} /\ worker' = [worker EXCEPT !.ret = 1]
  BY <1>1, <1>2, <1>3, <1>5 DEF Sweep
<1>7. ignored \in SUBSET Nodes /\ worker \in WorkerT
  BY DEF IInv, TypeI, WorkerT
<1>8. /\ host' \in [Addrs -> 0 .. NumNodes] /\ faults' \in 0 .. MaxFaults
      /\ ignored' \in SUBSET Nodes /\ ignored \in SUBSET ignored'
      /\ \A g \in Addrs : host'[g] # n => host'[g] \in {0, host[g]}
      /\ \A g \in Addrs : host'[g] = n =>
            n \in ignored' \/ (r.gpuaddr = g /\ (HeldBy(r) \/ r.st = "leaked"))
  <2>1. CASE UnmapSucceeds(n) /\ ignored' = ignored
    BY <1>7, <2>1, UnmapOK
  <2>2. CASE UnmapFails(n) /\ ignored' = ignored \cup {n}
    BY <1>7, <2>2, UnmapBad
  <2> QED
    BY <1>6, <2>1, <2>2
<1>9. worker' \in WorkerT /\ worker'.pc = worker.pc /\ worker'.v = worker.v
  BY <1>6, <1>7 DEF WorkerT
<1>10. /\ Frame(n, {}) /\ Installers(n)' = Installers(n)
       /\ \A u \in Threads : of'[u] # 0 => priv[of'[u]].st = "active"
  BY <1>6, StillFrame
<1>11. /\ tree' \in [Privs -> [Kinds -> SUBSET Nodes]]
       /\ \A w \in Privs, j \in Kinds : \A m \in Nodes :
             m # n => (m \in tree'[w][j] <=> m \in tree[w][j])
       /\ \A w \in Privs, j \in Kinds : n \notin tree'[w][j]
  <2>1. /\ tree' \in [Privs -> [Kinds -> SUBSET Nodes]]
        /\ tree'[v][k] = tree[v][k] \ {n}
        /\ \A w \in Privs, j \in Kinds : w # v \/ j # k => tree'[w][j] = tree[w][j]
    BY <1>6, TreeDrops, ZenonT(60)
  <2> QED
    BY <1>3, <2>1
<1>12. node'[n] = r
  BY <1>6 DEF IInv, TypeI
<1>13. \A u \in Threads : ~(InHands(u, n)')
  BY <1>3, <1>6 DEF InHands
<1>14. PlaceOK(n)'
  <2>1. ~(Held(n)')
    BY <1>5, <1>12 DEF Held
  <2> QED
    BY <1>11, <1>13, <2>1 DEF PlaceOK
<1>15. ThreadI'
  <2>1. ASSUME NEW u \in Threads PROVE ThreadOK(u)'
    <3>1. at[u] = n => /\ r.priv = node[n].priv /\ r.kind = node[n].kind
                       /\ pc[u] = "map" => r.gpuaddr = 0
      BY <1>3, <1>5 DEF InHands, HandPc
    <3>2. PICK M \in SUBSET Threads : Frame(n, M) /\ u \notin M
      BY <1>10
    <3> QED
      BY <1>6, <3>1, <3>2, ThreadKeep
  <2> QED
    BY <2>1 DEF ThreadI
<1>16. NodeOK(r, Cardinality(Installers(n)'))
  BY <1>5, <1>10
<1>17. PICK M \in SUBSET Threads : Frame(n, M)
  BY <1>10
<1>18. \A u \in Threads : of'[u] # 0 => priv[of'[u]].st = "active"
  BY <1>10
<1>19. node' = [node EXCEPT ![n] = r] /\ UNCHANGED <<priv, release_list, release_work>>
  BY <1>6
<1> QED
  BY <1>8, <1>9, <1>11, <1>14, <1>15, <1>16, <1>17, <1>18, <1>19, NodeStep

\* Files and the worker's own steps leave the nodes alone.
LEMMA NodesKept ==
    ASSUME IInv, UNCHANGED <<node, tree, host, pc, at, of, ignored>>
    PROVE  ThreadI' /\ PlaceI' /\ KeyI' /\ RefI' /\ HostI'
<1>1. /\ node' = node /\ tree' = tree /\ host' = host /\ pc' = pc /\ at' = at /\ of' = of
      /\ ignored' = ignored
  OBVIOUS
<1>2. ThreadI'
  BY <1>1 DEF IInv, ThreadI, ThreadOK
<1>3. PlaceI'
  BY <1>1 DEF IInv, PlaceI, PlaceOK, InHands, Held
<1>4. KeyI' /\ HostI'
  BY <1>1 DEF IInv, KeyI, HostI, Held
<1>5. RefI'
  <2>1. \A n : Installers(n)' = Installers(n)
    BY <1>1 DEF Installers
  <2> QED
    BY <1>1, <2>1 DEF IInv, RefI
<1> QED
  BY <1>2, <1>3, <1>4, <1>5

PrivT == [st : PrivSt, open_count : 0 .. MaxOpens]

LEMMA PrivStep ==
    ASSUME IInv, UNCHANGED <<node, tree, host, pc, at, of, ignored>>, faults' \in 0 .. MaxFaults,
           priv' \in [Privs -> PrivT], release_list' \in Seq(Privs), release_work' \in BOOLEAN,
           worker' \in WorkerT, PrivI'
    PROVE  IInv'
<1>1. TypeI'
  BY DEF IInv, TypeI, PrivT, WorkerT
<1> QED
  BY <1>1, NodesKept DEF IInv

LEMMA OpenAction == ASSUME IInv, hgsl_open PROVE IInv'
<1> DEFINE unused == {v \in Privs : priv[v].st = "none"}
<1>1. /\ UNCHANGED <<release_list, release_work, worker>> /\ faults' = faults
      /\ UNCHANGED <<node, tree, host, pc, at, of, ignored>>
  BY DEF hgsl_open
<1>2. priv \in [Privs -> PrivT]
  BY DEF IInv, TypeI, PrivT
<1>3. PICK v \in Privs, x \in PrivT :
        /\ priv[v].st \in {"active", "none"} /\ x.st = "active" /\ x.open_count > 0
        /\ priv' = [priv EXCEPT ![v] = x]
  <2>1. CASE \E v \in {w \in Privs : priv[w].st = "active"} :
                 /\ priv[v].open_count < MaxOpens
                 /\ priv' = [priv EXCEPT ![v].open_count = @ + 1]
    <3>1. PICK v \in Privs : /\ priv[v].st = "active" /\ priv[v].open_count < MaxOpens
                             /\ priv' = [priv EXCEPT ![v].open_count = @ + 1]
      BY <2>1
    <3>2. PICK c \in 0 .. MaxOpens : c = priv[v].open_count + 1 /\ c > 0
      BY <1>2, <3>1, Bounds DEF PrivT
    <3>3. PICK x : x = [priv[v] EXCEPT !.open_count = c]
      OBVIOUS
    <3>4. x \in PrivT /\ x.st = "active" /\ x.open_count = c
      BY <1>2, <3>1, <3>3 DEF PrivT
    <3>5. priv' = [priv EXCEPT ![v] = x]
      BY <1>2, <3>1, <3>2, <3>3
    <3> QED
      BY <3>1, <3>2, <3>4, <3>5
  <2>2. CASE /\ unused # {}
             /\ priv' = [priv EXCEPT ![CHOOSE v \in unused : \A w \in unused : v <= w] =
                                         [st |-> "active", open_count |-> 1]]
    <3>1. unused \in SUBSET Nat
      BY Bounds DEF Privs
    <3>2. \E v \in unused : \A w \in unused : v <= w
      BY <2>2, <3>1, LeastExists
    <3>3. PICK v \in unused : v = CHOOSE u \in unused : \A w \in unused : u <= w
      BY <3>2
    <3>4. PICK x : x = [st |-> "active", open_count |-> 1]
      OBVIOUS
    <3>5. x \in PrivT
      BY <3>4, Bounds DEF PrivT, PrivSt
    <3>6. x.st = "active" /\ x.open_count > 0
      BY <3>4
    <3>7. v \in Privs /\ priv[v].st = "none"
      BY <3>3
    <3>8. priv' = [priv EXCEPT ![v] = x]
      BY <2>2, <3>3, <3>4
    <3> QED
      BY <3>5, <3>6, <3>7, <3>8
  <2> QED
    BY <2>1, <2>2 DEF hgsl_open
<1>4. priv' \in [Privs -> PrivT] /\ priv'[v] = x /\ \A w \in Privs : w # v => priv'[w] = priv[w]
  BY <1>2, <1>3
<1>5. PrivI'
  <2>1. /\ \A t \in Threads : of[t] # 0 => priv[of[t]].st = "active" /\ of[t] \in Privs
        /\ \A w \in Privs : priv[w].st = "active" => priv[w].open_count > 0
        /\ \A i \in DOMAIN release_list : release_list[i] \in Privs
    BY Bounds DEF IInv, TypeI, PrivI, Privs
  <2>2. \A t \in Threads : of'[t] # 0 => priv'[of'[t]].st = "active"
    BY <1>1, <1>3, <1>4, <2>1
  <2>3. \A w \in Privs : priv'[w].st = "active" => priv'[w].open_count > 0
    BY <1>3, <1>4, <2>1
  <2>4. \A i \in DOMAIN release_list' : priv'[release_list'[i]].st = "listed"
    BY <1>1, <1>3, <1>4, <2>1 DEF IInv, PrivI
  <2>5. \A w \in Privs : priv'[w].st = "listed" => \E i \in DOMAIN release_list' : release_list'[i] = w
    BY <1>1, <1>3, <1>4 DEF IInv, PrivI
  <2>6. \A w \in Privs : priv'[w].st \in {"none", "freed"} => Left(w)' = {}
    BY <1>1, <1>3, <1>4 DEF IInv, PrivI, Left
  <2>7. worker'.pc \in {"cleanup", "sweep"} => worker'.v \in Privs /\ priv'[worker'.v].st = "releasing"
    BY <1>1, <1>3, <1>4 DEF IInv, PrivI
  <2>8. \A i, j \in DOMAIN release_list' : release_list'[i] = release_list'[j] => i = j
    BY <1>1 DEF IInv, PrivI
  <2> QED
    BY <2>2, <2>3, <2>4, <2>5, <2>6, <2>7, <2>8 DEF PrivI
<1>6. /\ release_list' \in Seq(Privs) /\ release_work' \in BOOLEAN /\ worker' \in WorkerT
      /\ faults' \in 0 .. MaxFaults
  BY <1>1 DEF IInv, TypeI, WorkerT
<1> QED
  BY <1>1, <1>4, <1>5, <1>6, PrivStep

\* The list with v in front, without its head, with v behind.
LEMMA ListFront ==
    ASSUME IInv, NEW v \in Privs, NEW l, l = <<v>> \o release_list
    PROVE  /\ l \in Seq(Privs) /\ Len(l) = Len(release_list) + 1 /\ DOMAIN l = 1 .. Len(release_list) + 1
           /\ DOMAIN release_list = 1 .. Len(release_list) /\ Len(release_list) \in Nat
           /\ l[1] = v /\ \A i \in 2 .. Len(release_list) + 1 : l[i] = release_list[i - 1]
  BY DEF IInv, TypeI

LEMMA ReleaseAction == ASSUME IInv, NEW v \in Privs, hgsl_release(v) PROVE IInv'
<1>1. /\ priv[v].st = "active" /\ Unused(v) /\ faults' = faults /\ worker' = worker
      /\ UNCHANGED <<node, tree, host, pc, at, of, ignored>>
  BY DEF hgsl_release
<1>2. priv \in [Privs -> PrivT] /\ release_list \in Seq(Privs) /\ release_work \in BOOLEAN
  BY DEF IInv, TypeI, PrivT
<1>3. worker' \in WorkerT /\ faults' \in 0 .. MaxFaults
  BY <1>1 DEF IInv, TypeI, WorkerT
<1>4. /\ \A t \in Threads : of[t] # 0 => priv[of[t]].st = "active" /\ of[t] \in Privs
      /\ \A w \in Privs : priv[w].st = "active" => priv[w].open_count > 0
      /\ \A i \in DOMAIN release_list : release_list[i] \in Privs
      /\ \A i \in DOMAIN release_list : priv[release_list[i]].st = "listed"
      /\ \A i, j \in DOMAIN release_list : release_list[i] = release_list[j] => i = j
  BY Bounds DEF IInv, TypeI, PrivI, Privs
<1>5. CASE priv[v].open_count > 1
  <2>1. UNCHANGED <<release_list, release_work>> /\ priv' = [priv EXCEPT ![v].open_count = @ - 1]
    BY <1>5 DEF hgsl_release
  <2>2. PICK x \in PrivT : /\ priv' = [priv EXCEPT ![v] = x] /\ x.st = "active" /\ x.open_count > 0
    <3>1. PICK c \in 0 .. MaxOpens : c = priv[v].open_count - 1 /\ c > 0
      BY <1>2, <1>5, Bounds DEF PrivT
    <3>2. PICK x : x = [priv[v] EXCEPT !.open_count = c]
      OBVIOUS
    <3>3. x \in PrivT /\ x.st = "active" /\ x.open_count = c
      BY <1>1, <1>2, <3>2 DEF PrivT
    <3> QED
      BY <1>2, <2>1, <3>1, <3>2, <3>3
  <2>3. priv' \in [Privs -> PrivT] /\ priv'[v] = x /\ \A w \in Privs : w # v => priv'[w] = priv[w]
    BY <1>2, <2>2
  <2>4. \A w \in Privs : priv'[w].st = priv[w].st
    BY <1>1, <2>2, <2>3
  <2>5. \A w \in Privs : priv'[w].st = "active" => priv'[w].open_count > 0
    BY <1>4, <2>2, <2>3
  <2>6. PrivI'
    <3>1. \A w \in Privs : Left(w)' = Left(w)
      BY <1>1 DEF Left
    <3>2. \A w \in Privs : priv'[w].st \in {"none", "freed"} => Left(w)' = {}
      BY <2>4, <3>1 DEF IInv, PrivI
    <3>3. worker'.pc \in {"cleanup", "sweep"} => worker'.v \in Privs /\ priv'[worker'.v].st = "releasing"
      BY <1>1, <2>4 DEF IInv, PrivI
    <3>4. \A t \in Threads : of'[t] # 0 => priv'[of'[t]].st = "active"
      BY <1>1, <1>4, <2>4
    <3>5. \A i \in DOMAIN release_list' : priv'[release_list'[i]].st = "listed"
      BY <1>4, <2>1, <2>4
    <3>6. \A w \in Privs : priv'[w].st = "listed" => \E i \in DOMAIN release_list' : release_list'[i] = w
      BY <2>1, <2>4 DEF IInv, PrivI
    <3>7. \A i, j \in DOMAIN release_list' : release_list'[i] = release_list'[j] => i = j
      BY <1>4, <2>1
    <3> QED
      BY <2>5, <3>2, <3>3, <3>4, <3>5, <3>6, <3>7 DEF PrivI
  <2>7. release_list' \in Seq(Privs) /\ release_work' \in BOOLEAN
    BY <1>2, <2>1
  <2> QED
    BY <1>1, <1>3, <2>3, <2>6, <2>7, PrivStep
<1>6. CASE ~(priv[v].open_count > 1)
  <2>1. /\ release_list' = <<v>> \o release_list /\ release_work' = TRUE
        /\ priv' = [priv EXCEPT ![v] = [st |-> "listed", open_count |-> 0]]
    BY <1>6 DEF hgsl_release
  <2>2. PICK x \in PrivT : x = [st |-> "listed", open_count |-> 0] /\ x.st = "listed"
    <3>1. PICK x : x = [st |-> "listed", open_count |-> 0]
      OBVIOUS
    <3>2. x \in PrivT
      BY <3>1, Bounds DEF PrivT, PrivSt
    <3>3. x.st = "listed"
      BY <3>1
    <3> QED
      BY <3>1, <3>2, <3>3
  <2>3. priv' \in [Privs -> PrivT] /\ priv'[v] = x /\ \A w \in Privs : w # v => priv'[w] = priv[w]
    BY <1>2, <2>1, <2>2
  <2>4. \A t \in Threads : of[t] # v
    BY <1>1, <1>6 DEF Unused
  <2>5. PICK l : l = release_list'
    OBVIOUS
  <2>6. /\ l \in Seq(Privs) /\ DOMAIN l = 1 .. Len(release_list) + 1
        /\ DOMAIN release_list = 1 .. Len(release_list) /\ Len(release_list) \in Nat
        /\ l[1] = v /\ \A i \in 2 .. Len(release_list) + 1 : l[i] = release_list[i - 1]
    BY <2>1, <2>5, ListFront, ZenonT(60)
  <2>7. \A i \in DOMAIN l : i # 1 => i - 1 \in DOMAIN release_list /\ l[i] = release_list[i - 1]
    BY <2>6
  <2>8. \A i \in DOMAIN release_list : release_list[i] # v
    BY <1>1, <1>4
  <2>9. PrivI'
    <3>1. \A w \in Privs : Left(w)' = Left(w)
      BY <1>1 DEF Left
    <3>2. \A w \in Privs : priv'[w].st \in {"none", "freed"} => Left(w)' = {}
      BY <2>2, <2>3, <3>1 DEF IInv, PrivI
    <3>3. worker'.pc \in {"cleanup", "sweep"} => worker'.v \in Privs /\ priv'[worker'.v].st = "releasing"
      BY <1>1, <2>3 DEF IInv, PrivI
    <3>4. \A t \in Threads : of'[t] # 0 => priv'[of'[t]].st = "active"
      BY <1>1, <1>4, <2>3, <2>4
    <3>5. \A i \in DOMAIN l : priv'[l[i]].st = "listed"
      BY <1>4, <2>2, <2>3, <2>6, <2>7, <2>8
    <3>6. \A w \in Privs : priv'[w].st = "listed" => \E i \in DOMAIN l : l[i] = w
      <4>1. ASSUME NEW w \in Privs, priv'[w].st = "listed" PROVE \E i \in DOMAIN l : l[i] = w
        <5>1. CASE w = v
          <6>1. 1 \in DOMAIN l
            BY <2>6
          <6> QED
            BY <2>6, <5>1, <6>1
        <5>2. CASE w # v
          <6>1. PICK i \in DOMAIN release_list : release_list[i] = w
            BY <2>3, <4>1, <5>2 DEF IInv, PrivI
          <6>2. i + 1 \in DOMAIN l /\ i + 1 # 1 /\ (i + 1) - 1 = i
            BY <2>6
          <6> QED
            BY <2>7, <6>1, <6>2
        <5> QED
          BY <5>1, <5>2
      <4> QED
        BY <4>1
    <3>7. \A i, j \in DOMAIN l : l[i] = l[j] => i = j
      <4>1. \A i, j \in DOMAIN l : i # 1 /\ j # 1 /\ l[i] = l[j] => i - 1 = j - 1
        BY <1>4, <2>7
      <4> QED
        BY <2>6, <2>7, <2>8, <4>1
    <3>8. \A w \in Privs : priv'[w].st = "active" => priv'[w].open_count > 0
      BY <1>4, <2>2, <2>3
    <3> QED
      BY <2>5, <3>2, <3>3, <3>4, <3>5, <3>6, <3>7, <3>8 DEF PrivI
  <2>10. release_list' \in Seq(Privs) /\ release_work' \in BOOLEAN
    BY <2>1, <2>5, <2>6
  <2> QED
    BY <1>1, <1>3, <2>3, <2>9, <2>10, PrivStep
<1> QED
  BY <1>5, <1>6

\* Steps of the worker that only change where it is.
LEMMA WorkerMoves ==
    ASSUME IInv, UNCHANGED <<priv, release_list>>, release_work' \in BOOLEAN, worker' \in WorkerT,
           UNCHANGED <<node, tree, host, pc, at, of, ignored>>, faults' = faults,
           worker'.pc \in {"cleanup", "sweep"} =>
              worker.pc \in {"cleanup", "sweep"} /\ worker'.v = worker.v
    PROVE  IInv'
<1>1. priv' = priv /\ release_list' = release_list /\ of' = of /\ tree' = tree
  OBVIOUS
<1>2. worker'.pc \in {"cleanup", "sweep"} => worker'.v \in Privs /\ priv'[worker'.v].st = "releasing"
  BY <1>1 DEF IInv, PrivI
<1>3. PrivI'
  BY <1>1, <1>2 DEF IInv, PrivI, Left
<1>4. /\ priv' \in [Privs -> PrivT] /\ release_list' \in Seq(Privs) /\ faults' \in 0 .. MaxFaults
  BY <1>1 DEF IInv, TypeI, PrivT
<1> QED
  BY <1>3, <1>4, PrivStep

LEMMA WorkerStartAction == ASSUME IInv, WorkerStart PROVE IInv'
<1>1. worker \in WorkerT
  BY DEF IInv, TypeI, WorkerT
<1>2. worker' \in WorkerT /\ worker'.pc = "loop"
  BY <1>1 DEF WorkerStart, WorkerT
<1>3. /\ UNCHANGED <<priv, release_list>> /\ release_work' \in BOOLEAN /\ faults' = faults
      /\ UNCHANGED <<node, tree, host, pc, at, of, ignored>>
  BY DEF WorkerStart
<1> QED
  BY <1>2, <1>3, WorkerMoves

LEMMA WorkerStopAction == ASSUME IInv, WorkerStop PROVE IInv'
<1>1. worker \in WorkerT /\ release_work \in BOOLEAN
  BY DEF IInv, TypeI, WorkerT
<1>2. worker' \in WorkerT /\ worker'.pc = "idle"
  BY <1>1 DEF WorkerStop, WorkerT
<1>3. /\ UNCHANGED <<priv, release_list>> /\ release_work' \in BOOLEAN /\ faults' = faults
      /\ UNCHANGED <<node, tree, host, pc, at, of, ignored>>
  BY <1>1 DEF WorkerStop
<1> QED
  BY <1>2, <1>3, WorkerMoves

LEMMA CleanupGoAction == ASSUME IInv, CleanupGo PROVE IInv'
<1>1. worker \in WorkerT /\ release_work \in BOOLEAN /\ worker.pc = "cleanup"
  BY DEF IInv, TypeI, WorkerT, CleanupGo
<1>2. worker' \in WorkerT /\ worker'.pc = "sweep" /\ worker'.v = worker.v
  BY <1>1 DEF CleanupGo, WorkerT
<1>3. /\ UNCHANGED <<priv, release_list>> /\ release_work' \in BOOLEAN /\ faults' = faults
      /\ UNCHANGED <<node, tree, host, pc, at, of, ignored>>
  BY <1>1 DEF CleanupGo
<1> QED
  BY <1>1, <1>2, <1>3, WorkerMoves

\* The structure of v goes on to st, which is no longer "active".
Onto(v, st) ==
    /\ priv' \in [Privs -> PrivT] /\ priv'[v].st = st
    /\ \A w \in Privs : w # v => priv'[w] = priv[w]

LEMMA OntoIs ==
    ASSUME IInv, NEW v \in Privs, NEW st \in PrivSt, priv' = [priv EXCEPT ![v].st = st]
    PROVE  Onto(v, st)
<1>1. priv \in [Privs -> PrivT]
  BY DEF IInv, TypeI, PrivT
<1>2. PICK x : x = [priv[v] EXCEPT !.st = st]
  OBVIOUS
<1>3. x \in PrivT /\ x.st = st
  BY <1>1, <1>2 DEF PrivT
<1>4. priv' = [priv EXCEPT ![v] = x]
  BY <1>1, <1>2
<1> QED
  BY <1>1, <1>3, <1>4 DEF Onto

\* What the other structures keep.
LEMMA OntoKeeps ==
    ASSUME IInv, NEW v \in Privs, NEW st, Onto(v, st), priv[v].st # "active",
           st # "active", UNCHANGED <<tree, of>>, st \in {"none", "freed"} => Left(v) = {}
    PROVE  /\ \A t \in Threads : of'[t] # 0 => priv'[of'[t]].st = "active"
           /\ \A w \in Privs : priv'[w].st = "active" => priv'[w].open_count > 0
           /\ \A w \in Privs : priv'[w].st \in {"none", "freed"} => Left(w)' = {}
<1>1. \A t \in Threads : of[t] # 0 => priv[of[t]].st = "active" /\ of[t] \in Privs
  BY Bounds DEF IInv, TypeI, PrivI, Privs
<1>2. \A t \in Threads : of'[t] # 0 => priv'[of'[t]].st = "active"
  BY <1>1 DEF Onto
<1>3. \A w \in Privs : priv'[w].st = "active" => priv'[w].open_count > 0
  BY DEF Onto, IInv, PrivI
<1>4. \A w \in Privs : Left(w)' = Left(w)
  BY DEF Left
<1>5. \A w \in Privs : priv'[w].st \in {"none", "freed"} => Left(w)' = {}
  BY <1>4 DEF Onto, IInv, PrivI
<1> QED
  BY <1>2, <1>3, <1>5

LEMMA ReleasedStep ==
    ASSUME IInv, worker.pc \in {"cleanup", "sweep"}, NEW st \in {"freed", "lost"}, Released(st),
           st = "freed" => Left(worker.v) = {}, UNCHANGED <<release_list, release_work>>,
           UNCHANGED <<node, tree, host, pc, at, of, ignored>>, faults' \in 0 .. MaxFaults
    PROVE  IInv'
<1>1. PICK v \in Privs : v = worker.v /\ priv[v].st = "releasing"
  BY DEF IInv, PrivI
<1>2. priv' = [priv EXCEPT ![v].st = st] /\ worker' = [pc |-> "loop", v |-> 0, ret |-> 0]
  BY <1>1 DEF Released
<1>3. Onto(v, st)
  BY <1>2, OntoIs DEF PrivSt
<1>4. worker' \in WorkerT /\ worker'.pc = "loop"
  BY <1>2, Bounds DEF WorkerT
<1>5. /\ \A t \in Threads : of'[t] # 0 => priv'[of'[t]].st = "active"
      /\ \A w \in Privs : priv'[w].st = "active" => priv'[w].open_count > 0
      /\ \A w \in Privs : priv'[w].st \in {"none", "freed"} => Left(w)' = {}
  BY <1>1, <1>3, OntoKeeps
<1>6. \A i \in DOMAIN release_list : release_list[i] \in Privs /\ priv[release_list[i]].st = "listed"
  BY DEF IInv, TypeI, PrivI
<1>7. \A i \in DOMAIN release_list' : priv'[release_list'[i]].st = "listed"
  BY <1>1, <1>3, <1>6 DEF Onto
<1>8. \A w \in Privs : priv'[w].st = "listed" => \E i \in DOMAIN release_list' : release_list'[i] = w
  BY <1>1, <1>3 DEF Onto, IInv, PrivI
<1>9. \A i, j \in DOMAIN release_list' : release_list'[i] = release_list'[j] => i = j
  BY DEF IInv, PrivI
<1>10. PrivI'
  BY <1>4, <1>5, <1>7, <1>8, <1>9 DEF PrivI
<1>11. priv' \in [Privs -> PrivT] /\ release_list' \in Seq(Privs) /\ release_work' \in BOOLEAN
  BY <1>3 DEF Onto, IInv, TypeI
<1> QED
  BY <1>4, <1>10, <1>11, PrivStep

LEMMA CleanupDoneAction == ASSUME IInv, CleanupDone PROVE IInv'
<1>1. faults' \in 0 .. MaxFaults
  BY DEF CleanupDone, IInv, TypeI
<1> QED
  BY <1>1, ReleasedStep DEF CleanupDone

LEMMA CleanupNoChannelAction == ASSUME IInv, CleanupNoChannel PROVE IInv'
<1>1. faults' \in 0 .. MaxFaults
  BY Bounds DEF CleanupNoChannel, Fault, IInv, TypeI
<1> QED
  BY <1>1, ReleasedStep DEF CleanupNoChannel

LEMMA SweepEndAction == ASSUME IInv, SweepEnd PROVE IInv'
<1>1. faults' \in 0 .. MaxFaults
  BY DEF SweepEnd, IInv, TypeI
<1>2. PICK st \in {"freed", "lost"} : st = IF worker.ret = 0 THEN "freed" ELSE "lost"
  OBVIOUS
<1>3. Released(st)
  BY <1>2 DEF SweepEnd
<1> QED
  BY <1>1, <1>3, ReleasedStep DEF SweepEnd

\* The list without its first element, and with one more behind.
LEMMA ListTail ==
    ASSUME IInv, release_list # <<>>, NEW l, l = Tail(release_list)
    PROVE  /\ l \in Seq(Privs) /\ DOMAIN l = 1 .. Len(release_list) - 1
           /\ DOMAIN release_list = 1 .. Len(release_list) /\ Len(release_list) \in Nat
           /\ Len(release_list) >= 1 /\ Head(release_list) = release_list[1]
           /\ \A i \in 1 .. Len(release_list) - 1 : l[i] = release_list[i + 1]
  BY DEF IInv, TypeI

LEMMA ListBack ==
    ASSUME IInv, NEW v \in Privs, NEW l, l = Append(release_list, v)
    PROVE  /\ l \in Seq(Privs) /\ DOMAIN l = 1 .. Len(release_list) + 1
           /\ DOMAIN release_list = 1 .. Len(release_list) /\ Len(release_list) \in Nat
           /\ l[Len(release_list) + 1] = v
           /\ \A i \in 1 .. Len(release_list) : l[i] = release_list[i]
  BY DEF IInv, TypeI

LEMMA WorkerLoopAction == ASSUME IInv, WorkerLoop PROVE IInv'
<1>1. /\ UNCHANGED <<node, tree, host, pc, at, of, ignored>> /\ faults' = faults
      /\ release_work' = release_work /\ release_work \in BOOLEAN /\ worker \in WorkerT
      /\ faults' \in 0 .. MaxFaults
  BY DEF WorkerLoop, IInv, TypeI, WorkerT
<1>2. CASE release_list = <<>>
  <2>1. UNCHANGED <<priv, release_list>> /\ worker' = [worker EXCEPT !.pc = "stop"]
    BY <1>2 DEF WorkerLoop
  <2>2. worker' \in WorkerT /\ worker'.pc = "stop"
    BY <1>1, <2>1 DEF WorkerT
  <2>3. release_work' \in BOOLEAN
    BY <1>1
  <2> QED
    BY <1>1, <2>1, <2>2, <2>3, WorkerMoves
<1>3. CASE release_list # <<>>
  <2>1. PICK l : l = Tail(release_list)
    OBVIOUS
  <2>2. /\ l \in Seq(Privs) /\ DOMAIN l = 1 .. Len(release_list) - 1
        /\ DOMAIN release_list = 1 .. Len(release_list) /\ Len(release_list) \in Nat
        /\ Len(release_list) >= 1 /\ Head(release_list) = release_list[1]
        /\ \A i \in 1 .. Len(release_list) - 1 : l[i] = release_list[i + 1]
    BY <1>3, <2>1, ListTail
  <2>3. \A i \in DOMAIN release_list : release_list[i] \in Privs /\ priv[release_list[i]].st = "listed"
    BY DEF IInv, TypeI, PrivI
  <2>4. 1 \in DOMAIN release_list
    BY <2>2
  <2>5. PICK v \in Privs : v = Head(release_list) /\ v = release_list[1] /\ priv[v].st = "listed"
    BY <2>2, <2>3, <2>4
  <2>6. /\ release_list' = l /\ priv' = [priv EXCEPT ![v].st = "releasing"]
        /\ worker' = [pc |-> "cleanup", v |-> v, ret |-> 0]
    BY <1>3, <2>1, <2>5 DEF WorkerLoop
  <2>7. Onto(v, "releasing")
    BY <2>6, OntoIs DEF PrivSt
  <2>8. /\ \A t \in Threads : of'[t] # 0 => priv'[of'[t]].st = "active"
        /\ \A w \in Privs : priv'[w].st = "active" => priv'[w].open_count > 0
        /\ \A w \in Privs : priv'[w].st \in {"none", "freed"} => Left(w)' = {}
    BY <1>1, <2>5, <2>7, OntoKeeps
  <2>9. \A i \in DOMAIN l : /\ i + 1 \in DOMAIN release_list /\ i + 1 # 1 /\ i \in Nat
                            /\ l[i] = release_list[i + 1]
    BY <2>2
  <2>10. \A i, j \in DOMAIN release_list : release_list[i] = release_list[j] => i = j
    BY DEF IInv, PrivI
  <2>11. \A i \in DOMAIN l : l[i] \in Privs /\ l[i] # v /\ priv[l[i]].st = "listed"
    BY <2>3, <2>4, <2>5, <2>9, <2>10
  <2>12. \A i \in DOMAIN l : priv'[l[i]].st = "listed"
    BY <2>7, <2>11 DEF Onto
  <2>13. \A i, j \in DOMAIN l : l[i] = l[j] => i = j
    <3>1. \A i, j \in DOMAIN l : l[i] = l[j] => i + 1 = j + 1
      BY <2>9, <2>10
    <3> QED
      BY <2>9, <3>1
  <2>14. ASSUME NEW w \in Privs, priv'[w].st = "listed" PROVE \E i \in DOMAIN l : l[i] = w
    <3>1. w # v /\ priv[w].st = "listed"
      BY <2>7, <2>14 DEF Onto
    <3>2. PICK i \in DOMAIN release_list : release_list[i] = w
      BY <3>1 DEF IInv, PrivI
    <3>3. i # 1
      BY <2>5, <3>1, <3>2
    <3>4. PICK j \in 1 .. Len(release_list) - 1 : j = i - 1 /\ j + 1 = i
      BY <2>2, <3>3
    <3> QED
      BY <2>2, <3>2, <3>4
  <2>15. worker' \in WorkerT /\ worker'.v = v
    BY <2>5, <2>6, Bounds DEF WorkerT, Privs
  <2>16. PrivI'
    BY <2>6, <2>7, <2>8, <2>12, <2>13, <2>14, <2>15 DEF PrivI, Onto
  <2>17. priv' \in [Privs -> PrivT] /\ release_list' \in Seq(Privs) /\ release_work' \in BOOLEAN
    BY <1>1, <2>2, <2>6, <2>7 DEF Onto
  <2> QED
    BY <1>1, <2>15, <2>16, <2>17, PrivStep
<1> QED
  BY <1>2, <1>3

LEMMA CleanupTimeoutAction == ASSUME IInv, CleanupTimeout PROVE IInv'
<1>1. /\ UNCHANGED <<node, tree, host, pc, at, of, ignored>> /\ faults' = faults
      /\ release_work' = release_work /\ release_work \in BOOLEAN
      /\ faults' \in 0 .. MaxFaults
  BY DEF CleanupTimeout, IInv, TypeI
<1>2. PICK v \in Privs : v = worker.v /\ priv[v].st = "releasing"
  BY DEF IInv, PrivI, CleanupTimeout
<1>3. PICK l : l = Append(release_list, v)
  OBVIOUS
<1>4. /\ l \in Seq(Privs) /\ DOMAIN l = 1 .. Len(release_list) + 1
      /\ DOMAIN release_list = 1 .. Len(release_list) /\ Len(release_list) \in Nat
      /\ l[Len(release_list) + 1] = v
      /\ \A i \in 1 .. Len(release_list) : l[i] = release_list[i]
  BY <1>3, ListBack, ZenonT(60)
<1>5. /\ release_list' = l /\ priv' = [priv EXCEPT ![v].st = "listed"]
      /\ worker' = [pc |-> "loop", v |-> 0, ret |-> 0]
  BY <1>2, <1>3 DEF CleanupTimeout
<1>6. Onto(v, "listed")
  BY <1>5, OntoIs DEF PrivSt
<1>7. /\ \A t \in Threads : of'[t] # 0 => priv'[of'[t]].st = "active"
      /\ \A w \in Privs : priv'[w].st = "active" => priv'[w].open_count > 0
      /\ \A w \in Privs : priv'[w].st \in {"none", "freed"} => Left(w)' = {}
  BY <1>1, <1>2, <1>6, OntoKeeps
<1>8. \A i \in DOMAIN release_list : /\ release_list[i] \in Privs /\ release_list[i] # v
                                     /\ priv[release_list[i]].st = "listed"
  BY <1>2 DEF IInv, TypeI, PrivI
<1>9. \A i \in DOMAIN l : i # Len(release_list) + 1 =>
         i \in DOMAIN release_list /\ l[i] = release_list[i]
  BY <1>4
<1>10. \A i \in DOMAIN l : priv'[l[i]].st = "listed"
  BY <1>4, <1>6, <1>8, <1>9 DEF Onto
<1>11. \A i, j \in DOMAIN l : l[i] = l[j] => i = j
  <2>1. \A i, j \in DOMAIN release_list : release_list[i] = release_list[j] => i = j
    BY DEF IInv, PrivI
  <2> QED
    BY <1>4, <1>8, <1>9, <2>1
<1>12. ASSUME NEW w \in Privs, priv'[w].st = "listed" PROVE \E i \in DOMAIN l : l[i] = w
  <2>1. CASE w = v
    <3>1. Len(release_list) + 1 \in DOMAIN l
      BY <1>4
    <3> QED
      BY <1>4, <2>1, <3>1
  <2>2. CASE w # v
    <3>1. PICK i \in DOMAIN release_list : release_list[i] = w
      BY <1>6, <1>12, <2>2 DEF IInv, PrivI, Onto
    <3>2. i \in DOMAIN l /\ l[i] = release_list[i]
      BY <1>4
    <3> QED
      BY <3>1, <3>2
  <2> QED
    BY <2>1, <2>2
<1>13. worker' \in WorkerT /\ worker'.pc = "loop"
  BY <1>5, Bounds DEF WorkerT
<1>14. PrivI'
  BY <1>5, <1>7, <1>10, <1>11, <1>12, <1>13 DEF PrivI
<1>15. priv' \in [Privs -> PrivT] /\ release_list' \in Seq(Privs) /\ release_work' \in BOOLEAN
  BY <1>1, <1>4, <1>5, <1>6 DEF Onto
<1> QED
  BY <1>1, <1>13, <1>14, <1>15, PrivStep

-----------------------------------------------------------------------------
(* The invariant.                                                          *)

LEMMA InitIInv == Init => IInv
<1> SUFFICES ASSUME Init PROVE IInv
  OBVIOUS
<1> USE DEF Init
<1>1. NoNode \in NodeT
  BY Bounds DEF NoNode, NodeT, Kinds
<1>2. TypeI
  <2>1. /\ priv \in [Privs -> [st : PrivSt, open_count : 0 .. MaxOpens]]
        /\ worker \in [pc : {"idle", "loop", "stop", "cleanup", "sweep"}, v : 0 .. NumPrivs,
                       ret : 0 .. 1]
    BY Bounds DEF PrivSt
  <2>2. tree \in [Privs -> [Kinds -> SUBSET Nodes]]
    BY DEF Kinds
  <2>3. /\ node \in [Nodes -> NodeT] /\ host \in [Addrs -> 0 .. NumNodes]
        /\ pc \in [Threads -> Pcs] /\ at \in [Threads -> 0 .. NumNodes]
        /\ of \in [Threads -> 0 .. NumPrivs]
    BY <1>1, Bounds DEF Pcs
  <2>4. /\ release_list \in Seq(Privs) /\ release_work \in BOOLEAN
        /\ ignored \in SUBSET Nodes /\ faults \in 0 .. MaxFaults
    <3>1. release_list = <<>> /\ release_work = FALSE /\ ignored = {} /\ faults = 0
      OBVIOUS
    <3> HIDE DEF Init
    <3>2. release_list \in Seq(Privs)
      BY <3>1
    <3>3. faults \in 0 .. MaxFaults
      BY <3>1, Bounds
    <3>4. release_work \in BOOLEAN /\ ignored \in SUBSET Nodes
      BY <3>1
    <3> QED
      BY <3>2, <3>3, <3>4
  <2> HIDE DEF Init
  <2> QED
    BY <2>1, <2>2, <2>3, <2>4 DEF TypeI
<1>3. \A v \in Privs, k \in Kinds : tree[v][k] = {}
  BY DEF Kinds
<1>4. ThreadI
  BY DEF ThreadI, ThreadOK
<1>5. /\ NoNode.st = "none" /\ NoNode.priv = 0 /\ NoNode.kind = "alloc" /\ NoNode.own = FALSE
      /\ NoNode.refs = 0 /\ NoNode.fds = 0 /\ NoNode.sgt_ext = FALSE /\ NoNode.gpuaddr = 0
  BY DEF NoNode
<1>6. PlaceI
  <2>1. \A n \in Nodes : ~Held(n)
    BY <1>5 DEF Held, HeldBy
  <2>2. \A t \in Threads, n \in Nodes : ~InHands(t, n)
    BY DEF InHands, HandPc
  <2> QED
    BY <1>3, <2>1, <2>2 DEF PlaceI, PlaceOK
<1>7. KeyI
  BY <1>3 DEF KeyI
<1>8. RefI
  <2>1. \A n \in Nodes : Installers(n) = {}
    BY DEF Installers
  <2>2. \A n \in Nodes : Cardinality(Installers(n)) = 0
    BY <2>1, FS_EmptySet
  <2>3. NodeOK(NoNode, 0)
    BY <1>5 DEF NodeOK, One
  <2> QED
    BY <2>2, <2>3 DEF RefI
<1>9. HostI
  BY DEF HostI
<1>10. PrivI
  <2>1. \A v \in Privs : priv[v].st = "none" /\ Left(v) = {}
    BY DEF Left
  <2>2. DOMAIN release_list = {} /\ worker.pc = "idle"
    OBVIOUS
  <2> QED
    BY <2>1, <2>2 DEF PrivI
<1> QED
  BY <1>2, <1>4, <1>6, <1>7, <1>8, <1>9, <1>10 DEF IInv

LEMMA StutterStep == ASSUME IInv, UNCHANGED vars PROVE IInv'
<1>1. /\ UNCHANGED <<node, tree, host, pc, at, of, ignored>>
      /\ UNCHANGED <<priv, release_list, release_work, worker, faults>>
  BY DEF vars
<1>2. release_work' \in BOOLEAN /\ worker' \in WorkerT
  BY <1>1 DEF IInv, TypeI, WorkerT
<1>3. worker' = worker /\ faults' = faults
  BY <1>1
<1>4. worker'.pc \in {"cleanup", "sweep"} =>
         worker.pc \in {"cleanup", "sweep"} /\ worker'.v = worker.v
  BY <1>3
<1> QED
  BY <1>1, <1>2, <1>3, <1>4, WorkerMoves

LEMMA NextIInv == ASSUME IInv, [Next]_vars PROVE IInv'
<1>1. CASE hgsl_open
  BY <1>1, OpenAction
<1>2. CASE \E v \in Privs : hgsl_release(v)
  BY <1>2, ReleaseAction
<1>3. CASE \E v \in Privs, n \in Nodes : CacheOp(v, n)
  BY <1>3, CacheOpAction
<1>4. CASE \E v \in Privs, t \in Threads : \E kind \in {"alloc", "map"} : Begin(t, v, kind)
  BY <1>4, BeginAction DEF Kinds
<1>5. CASE \E v \in Privs, t \in Threads, n \in Nodes : Take(t, v, n)
  BY <1>5, TakeAction
<1>6. CASE \E v \in Privs, t \in Threads, n \in Nodes : GetFd(t, v, n)
  BY <1>6, GetFdAction
<1>7. CASE \E t \in Threads : hgsl_hyp_mem_map_smmu(t)
  BY <1>7, MapAction
<1>8. CASE \E t \in Threads : Add(t)
  BY <1>8, AddAction
<1>9. CASE \E t \in Threads : Undo(t)
  BY <1>9, UndoAction
<1>10. CASE \E t \in Threads : Unmap(t)
  BY <1>10, UnmapAction
<1>11. CASE \E t \in Threads : Readd(t)
  BY <1>11, ReaddAction
<1>12. CASE \E t \in Threads : InstallFd(t)
  BY <1>12, InstallFdAction
<1>13. CASE \E n \in Nodes : CloseFd(n)
  BY <1>13, CloseFdAction
<1>14. CASE CleanupNoChannel
  BY <1>14, CleanupNoChannelAction
<1>15. CASE WorkerStep
  BY <1>15, WorkerStartAction, WorkerLoopAction, WorkerStopAction, CleanupDoneAction,
     CleanupTimeoutAction, CleanupGoAction, SweepAction, SweepEndAction DEF WorkerStep
<1>16. CASE UNCHANGED vars
  BY <1>16, StutterStep
<1>17. CASE \E t \in Threads : CopyFails(t)
  BY <1>17, CopyFailsAction
<1> QED
  BY <1>1, <1>2, <1>3, <1>4, <1>5, <1>6, <1>7, <1>8, <1>9, <1>10, <1>11, <1>12, <1>13, <1>14,
     <1>15, <1>16, <1>17 DEF Next

LEMMA SpecIInv == Spec => []IInv
<1>1. IInv /\ [Next]_vars => IInv'
  BY NextIInv
<1> QED
  BY <1>1, InitIInv, PTL DEF Spec

-----------------------------------------------------------------------------
(* What it implies.                                                        *)

LEMMA InvType == IInv => TypeOK
<1> SUFFICES ASSUME IInv PROVE TypeOK
  OBVIOUS
<1>1. \A v \in Privs : /\ priv[v].st \in PrivSt /\ priv[v].open_count \in 0 .. MaxOpens
                       /\ \A k \in {"alloc", "map"} : tree[v][k] \subseteq Nodes
  BY DEF IInv, TypeI, Kinds
<1>2. \A n \in Nodes : /\ node[n].st \in {"none", "live", "freed", "leaked"}
                       /\ node[n].gpuaddr \in 0 .. NumAddrs
                       /\ node[n].refs \in Nat /\ node[n].fds \in Nat
  BY DEF IInv, TypeI, NodeT
<1>3. \A t \in Threads : at[t] \in {0} \cup Nodes /\ of[t] \in {0} \cup Privs
  BY Bounds DEF IInv, TypeI, Nodes, Privs
<1>4. host \in [Addrs -> 0 .. NumNodes] /\ faults \in 0 .. MaxFaults
  BY DEF IInv, TypeI
<1> QED
  BY <1>1, <1>2, <1>3, <1>4 DEF TypeOK, PrivSt

\* The places of one node, counted.
LEMMA OnePlace ==
    ASSUME IInv, NEW n \in Nodes
    PROVE  LET places == {p \in Privs \X {"alloc", "map"} : n \in tree[p[1]][p[2]]}
               hands == {t \in Threads : at[t] = n /\ pc[t] # "fd"}
               held == node[n].st = "live" /\ (node[n].kind = "alloc" => node[n].own)
           IN  /\ places \subseteq {<<node[n].priv, node[n].kind>>}
               /\ Cardinality(places) + Cardinality(hands) = IF held THEN 1 ELSE 0
<1> DEFINE places == {p \in Privs \X {"alloc", "map"} : n \in tree[p[1]][p[2]]}
           hands == {t \in Threads : at[t] = n /\ pc[t] # "fd"}
           held == node[n].st = "live" /\ (node[n].kind = "alloc" => node[n].own)
<1>1. held <=> Held(n)
  BY DEF Held, HeldBy
<1>2. PlaceOK(n)
  BY DEF IInv, PlaceI
<1>3. hands = {t \in Threads : InHands(t, n)}
  <2>1. \A t \in Threads : pc[t] = "idle" => at[t] # n
    BY Bounds DEF IInv, ThreadI, ThreadOK, Nodes
  <2>2. \A t \in Threads : pc[t] \in Pcs
    BY DEF IInv, TypeI
  <2> QED
    BY <2>1, <2>2 DEF InHands, HandPc, Pcs
<1>4. places \subseteq {<<node[n].priv, node[n].kind>>}
  <2>1. ASSUME NEW p \in places PROVE p = <<node[n].priv, node[n].kind>>
    <3>1. PICK v \in Privs, k \in Kinds : p = <<v, k>> /\ n \in tree[v][k]
      BY DEF Kinds
    <3>2. v = node[n].priv /\ k = node[n].kind
      BY <1>2, <3>1 DEF PlaceOK
    <3> QED
      BY <3>1, <3>2
  <2> QED
    BY <2>1
<1>5. places # {} => Held(n) /\ hands = {}
  <2>1. ASSUME NEW p \in places PROVE Held(n) /\ hands = {}
    <3>1. PICK v \in Privs, k \in Kinds : n \in tree[v][k]
      BY DEF Kinds
    <3> QED
      BY <1>2, <1>3, <3>1 DEF PlaceOK
  <2> QED
    BY <2>1
<1>6. hands # {} => Held(n) /\ \E t \in Threads : hands = {t}
  <2>1. ASSUME NEW t \in hands PROVE Held(n) /\ hands = {t}
    BY <1>2, <1>3 DEF PlaceOK
  <2> QED
    BY <2>1
<1>7. Held(n) => hands # {} \/ <<node[n].priv, node[n].kind>> \in places
  <2>1. node[n].kind \in {"alloc", "map"}
    BY DEF IInv, TypeI, NodeT, Kinds
  <2>2. ASSUME Held(n), hands = {} PROVE <<node[n].priv, node[n].kind>> \in places
    <3>1. node[n].priv \in Privs /\ n \in tree[node[n].priv][node[n].kind]
      BY <1>2, <1>3, <2>2 DEF PlaceOK
    <3> QED
      BY <2>1, <3>1
  <2> QED
    BY <2>2
<1> HIDE DEF places, hands, held
<1>8. Cardinality(places) + Cardinality(hands) = IF held THEN 1 ELSE 0
  <2>1. CASE ~Held(n)
    <3>1. places = {} /\ hands = {}
      BY <1>5, <1>6, <2>1
    <3> QED
      BY <1>1, <2>1, <3>1, FS_EmptySet
  <2>2. CASE Held(n) /\ hands # {}
    <3>1. places = {}
      BY <1>5, <2>2
    <3>2. PICK t \in Threads : hands = {t}
      BY <1>6, <2>2
    <3>3. Cardinality(hands) = 1
      BY <3>2, FS_Singleton
    <3> QED
      BY <1>1, <2>2, <3>1, <3>3, FS_EmptySet
  <2>3. CASE Held(n) /\ hands = {}
    <3>1. places = {<<node[n].priv, node[n].kind>>}
      BY <1>4, <1>7, <2>3
    <3>2. Cardinality(places) = 1
      BY <3>1, FS_Singleton
    <3> QED
      BY <1>1, <2>3, <3>2, FS_EmptySet
  <2> QED
    BY <2>1, <2>2, <2>3
<1> QED
  BY <1>4, <1>8 DEF places, hands, held

\* A memory node is in one place, the tree of its process and kind or the hands
\* of one thread, and the keys of a tree are different: two calls of
\* hgsl_ioctl_mem_free for the same address never both get the node.
THEOREM NodePlacedAlways == Spec => []NodePlaced
<1>1. IInv => NodePlaced
  <2> SUFFICES ASSUME IInv PROVE NodePlaced
    OBVIOUS
  <2>1. TypeOK
    BY InvType
  <2>2. \A v \in Privs, k \in {"alloc", "map"} : \A m, n \in tree[v][k] :
          m # n => node[m].gpuaddr # node[n].gpuaddr
    BY DEF IInv, KeyI, Kinds
  <2> QED
    BY <2>1, <2>2, OnePlace DEF NodePlaced
<1> QED
  BY <1>1, SpecIInv, PTL

\* The references on a dma_buf are exactly the node's, the descriptors', those
\* of threads installing one and the scatter list's; the pages go with the last,
\* and the host maps no freed node unless a failed unmap was ignored.
THEOREM PagesLiveAlways == Spec => []PagesLive
<1>1. IInv => PagesLive
  <2> SUFFICES ASSUME IInv PROVE PagesLive
    OBVIOUS
  <2>1. ASSUME NEW n \in Nodes, node[n].kind = "alloc"
        PROVE  /\ node[n].refs = (IF node[n].own THEN 1 ELSE 0) + node[n].fds
                                 + Cardinality({t \in Threads : at[t] = n /\ pc[t] = "fd"})
                                 + (IF node[n].sgt_ext THEN 1 ELSE 0)
               /\ node[n].st = "freed" <=> node[n].refs = 0 /\ node[n].priv # 0
               /\ node[n].sgt_ext => node[n].own
    <3>1. NodeOK(node[n], Cardinality(Installers(n)))
      BY DEF IInv, RefI
    <3> QED
      BY <2>1, <3>1 DEF NodeOK, One, Installers
  <2>2. ASSUME NEW g \in Addrs, host[g] # 0
        PROVE  node[host[g]].st \in {"live", "leaked"} \/ host[g] \in ignored
    BY <2>2 DEF IInv, HostI, Held, HeldBy
  <2> QED
    BY <2>1, <2>2 DEF PagesLive, RefsExact
<1> QED
  BY <1>1, SpecIInv, PTL

\* A freed structure: no node is left in its trees, and one that still has its
\* own reference was lost track of.
LEMMA FreedClean ==
    ASSUME IInv, NEW v \in Privs, priv[v].st = "freed", NEW n \in Nodes, node[n].priv = v
    PROVE  n \notin Left(v) /\ (node[n].own => node[n].st = "leaked")
<1>1. Left(v) = {}
  BY DEF IInv, PrivI
<1>2. ASSUME node[n].own PROVE node[n].st = "leaked"
  <2>1. /\ node[n] \in NodeT /\ NodeOK(node[n], Cardinality(Installers(n)))
        /\ Cardinality(Installers(n)) \in Nat
    BY NodeFacts
  <2>2. node[n].kind = "alloc"
    BY <1>2, <2>1 DEF NodeOK, NodeT, Kinds
  <2>3. node[n].st # "none"
    BY <1>2, <2>1 DEF NodeOK
  <2>4. node[n].st # "freed"
    BY <1>2, <2>1, <2>2 DEF NodeOK, One, NodeT
  <2>5. ~Held(n)
    <3>1. \A t \in Threads : ~InHands(t, n)
      <4>1. ASSUME NEW t \in Threads, InHands(t, n) PROVE FALSE
        <5>1. at[t] = n /\ pc[t] # "idle"
          BY <4>1 DEF InHands, HandPc
        <5>2. of[t] = v
          BY <5>1 DEF IInv, ThreadI, ThreadOK
        <5>3. v # 0
          BY Bounds DEF Privs
        <5> QED
          BY <5>2, <5>3 DEF IInv, PrivI
      <4> QED
        BY <4>1
    <3>2. \A k \in Kinds : n \notin tree[v][k]
      BY <1>1 DEF Left, Kinds
    <3>3. node[n].kind \in Kinds
      BY <2>1 DEF NodeT
    <3> QED
      BY <3>1, <3>2, <3>3 DEF IInv, PlaceI, PlaceOK
  <2> QED
    BY <1>2, <2>1, <2>2, <2>3, <2>4, <2>5 DEF Held, HeldBy, NodeT
<1> QED
  BY <1>1, <1>2

\* The release of a process meets nobody (hgsl_release, hgsl_release_worker): no
\* call uses a structure on its way out, each is on release_list once, and a
\* freed one has left nothing behind.
THEOREM ReleaseCleanAlways == Spec => []ReleaseClean
<1>1. IInv => ReleaseClean
  <2> SUFFICES ASSUME IInv PROVE ReleaseClean
    OBVIOUS
  <2>1. \A t \in Threads : of[t] # 0 => priv[of[t]].st = "active"
    BY DEF IInv, PrivI
  <2>2. ASSUME NEW v \in Privs
        PROVE  Cardinality({i \in 1 .. Len(release_list) : release_list[i] = v})
                  = IF priv[v].st = "listed" THEN 1 ELSE 0
    <3> DEFINE S == {i \in 1 .. Len(release_list) : release_list[i] = v}
    <3>1. DOMAIN release_list = 1 .. Len(release_list)
      BY DEF IInv, TypeI
    <3>2. CASE priv[v].st = "listed"
      <4>1. PICK i \in DOMAIN release_list : release_list[i] = v
        BY <3>2 DEF IInv, PrivI
      <4>2. S = {i}
        BY <3>1, <4>1 DEF IInv, PrivI
      <4> QED
        BY <3>2, <4>2, FS_Singleton
    <3>3. CASE priv[v].st # "listed"
      <4>1. S = {}
        BY <3>1, <3>3 DEF IInv, PrivI
      <4> QED
        BY <3>3, <4>1, FS_EmptySet
    <3> QED
      BY <3>2, <3>3
  <2>3. \A v \in Privs : priv[v].st = "freed" =>
          \A n \in Nodes : node[n].priv = v =>
              n \notin Left(v) /\ (node[n].own => node[n].st = "leaked")
    BY FreedClean
  <2> QED
    BY <2>1, <2>2, <2>3 DEF ReleaseClean
<1> QED
  BY <1>1, SpecIInv, PTL

=============================================================================
