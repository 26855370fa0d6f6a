-------------------------- MODULE HgslDoorbellProof --------------------------
(***************************************************************************)
(* Proofs about HgslDoorbell for any number of contexts, ring size,        *)
(* alignment and width of the timestamps: the firmware finds every message *)
(* whole, nobody writes the shared ring during a reset, and descriptors    *)
(* stay until their batch has retired.                                     *)
(***************************************************************************)
EXTENDS HgslDoorbell, WellFoundedInduction, TLAPS

Body == 0 .. RingSize - 1
QueueT == [wptr : Body, rptr : Body, pending : Seq(Msg), body : [Body -> Dword]]
ThreadT == [pc : IssuePc, m : Msg \cup {None}, owner : Ctxts \cup {None}, gave : BOOLEAN]
DestroyT == [pc : {"none", "wait", "removed", "closed"}, retry : BOOLEAN]
IbdescT == [inuse : BOOLEAN, c : Ctxts \cup {None}, ts : Ts, data : Msg \cup {None}]
IndirectT == [ts : Ts, data : Msg \cup {None}]
CtxtSt == {"new", "dbq", "dbcq", "open", "remote", "gone"}

\* Types, in parts: what only the life of contexts, only the handshake, only
\* the buffers, only the rings and the GPU, and only the threads change.
LifeT == dbcq_supported \in BOOLEAN /\ dbq_ready \in BOOLEAN /\ ctxt \in [Ctxts -> CtxtSt]
HandT ==
    /\ lock \in Ctxts \cup {None} /\ req \in BOOLEAN /\ busy \in BOOLEAN
    /\ host \in {"idle", "asked", "reset"} /\ resets \in 0 .. MaxResets
BufferT ==
    /\ ibdesc \in IbdescT /\ indirect \in [Ctxts -> IndirectT]
    /\ misfreed \in BOOLEAN /\ forgotten \in SUBSET Ctxts
GpuT ==
    /\ queue \in [Queues -> QueueT] /\ queued \in [Ctxts -> Ts]
    /\ running \in [Ctxts -> Seq(Msg)] /\ retired \in [Ctxts -> Ts]
ThT == th \in [Ctxts -> ThreadT] /\ dt \in [Ctxts -> DestroyT]

\* The kind of queue is the back end's, and a reset is preceded by a request.
ModeI ==
    /\ \A c \in Ctxts : /\ ctxt[c] = "dbq" => ~dbcq_supported
                        /\ ctxt[c] \in {"dbcq", "open"} => dbcq_supported
    /\ host # "idle" => req

\* The ring has the pending messages one behind the other, from the read index.
Ring(r) ==
    LET p == r.pending
        off == Offsets(p)
    IN  /\ off[Len(p)] < RingSize
        /\ r.wptr = (r.rptr + off[Len(p)]) % RingSize
        /\ \A k \in 1 .. Len(p) : \A i \in 0 .. p[k].n - 1 :
              r.body[(r.rptr + off[k - 1] + i) % RingSize] = [m |-> p[k], i |-> i]

RingI == \A q \in Queues : Ring(queue[q])

\* How far a timestamp is from the first one.
Age(ts) == U32Sub(ts, StartTs)

\* m has not retired, and the comparison of timestamps knows.
Live(m) == Age(retired[m.c]) < Age(m.ts) /\ Age(m.ts) <= Half /\ m.ts # 0

\* Each context's commands are in order: retired, running, pending, queued.
InFlight(m) == Live(m) /\ Age(m.ts) <= Age(queued[m.c])
ClockOK(c) == /\ queued[c] # UINT_MAX /\ Age(retired[c]) <= Age(queued[c])
              /\ Age(queued[c]) <= Half
RunOK(c) ==
    /\ \A i \in DOMAIN running[c] : running[c][i].c = c /\ InFlight(running[c][i])
    /\ \A i, j \in DOMAIN running[c] : i < j => Age(running[c][i].ts) < Age(running[c][j].ts)
PendOK(q) ==
    LET p == queue[q].pending IN
    /\ \A i \in DOMAIN p :
          /\ InFlight(p[i]) /\ QueueOf(p[i].c) = q
          /\ \A k \in DOMAIN running[p[i].c] : Age(running[p[i].c][k].ts) < Age(p[i].ts)
    /\ \A i, j \in DOMAIN p : i < j /\ p[i].c = p[j].c => Age(p[i].ts) < Age(p[j].ts)
OrderI ==
    /\ \A c \in Ctxts : ClockOK(c) /\ RunOK(c)
    /\ \A q \in Queues : PendOK(q)

\* The descriptors of m are in their buffer, and the buffer is known to be m's.
Kept(m) ==
    IF dbcq_supported
    THEN indirect[m.c] = [ts |-> m.ts, data |-> m] \/ m.c \in forgotten
    ELSE ibdesc = [inuse |-> TRUE, c |-> m.c, ts |-> m.ts, data |-> m] \/ misfreed

KeptI ==
    /\ \A q \in Queues : \A i \in DOMAIN queue[q].pending :
          queue[q].pending[i].batch => Kept(queue[q].pending[i])
    /\ \A c \in Ctxts : \A i \in DOMAIN running[c] : running[c][i].batch => Kept(running[c][i])

\* What a sender has where it is.
Locked == {"req", "busy", "room", "grant", "copy", "publish", "quit"}
Roomy == {"grant", "copy", "publish"}
Claimed == {"lock", "req", "busy", "room", "grant", "copy", "publish"}

\* Dwords between the indices.
Used(r) == (r.wptr + RingSize - r.rptr) % RingSize

\* The room that a sender waits for.
Fits(r, m) == RingSize - Used(r) - 1 >= Align(m.n)

\* The dwords behind the write index are m's.
Written(r, m) ==
    \A i \in 0 .. m.n - 1 : r.body[(r.wptr + i) % RingSize] = [m |-> m, i |-> i]

ThreadOK(c) ==
    /\ th[c].pc = "open" => dbcq_supported
    /\ th[c].pc \in {"lock", "req", "busy", "grant", "wait", "quit"} => ~dbcq_supported
    /\ th[c].pc # "idle" => /\ th[c].m \in Msg /\ th[c].m.c = c
                            /\ th[c].m.ts = DriverTs(queued[c])
                            /\ Age(queued[c]) < MaxIssues[c]
    /\ ~dbcq_supported /\ th[c].pc \in Locked => lock = c
    /\ ~dbcq_supported /\ th[c].pc \in {"room"} \cup Roomy /\ ~th[c].gave => busy
    /\ host = "reset" /\ th[c].pc \in Roomy => dbcq_supported \/ th[c].gave
    /\ th[c].pc \in Roomy => Fits(queue[QueueOf(c)], th[c].m)
    /\ th[c].pc = "publish" => Written(queue[QueueOf(c)], th[c].m)
    /\ th[c].pc \in Claimed /\ th[c].m.batch => Kept(th[c].m)

ThreadI == \A c \in Ctxts : ThreadOK(c)

IInv == /\ LifeT /\ HandT /\ BufferT /\ GpuT /\ ThT
        /\ ModeI /\ RingI /\ OrderI /\ KeptI /\ ThreadI

-----------------------------------------------------------------------------
(* Arithmetic.                                                             *)

LEMMA Sizes ==
    /\ RingSize \in Nat /\ RingSize >= 2 /\ AlignTo \in Nat /\ AlignTo >= 1
    /\ InfoSize \in 1 .. RingSize /\ MaxResets \in Nat
    /\ StartTs \in Ts /\ StartTs # UINT_MAX /\ None \notin Ctxts
    /\ \A c \in Ctxts : MaxIssues[c] \in 0 .. Half - 2
    /\ \A n \in MsgSizes : n \in Nat /\ n >= 1
    /\ Half \in Nat /\ Half >= 2
  BY DoorbellAssumption, HalfAssumption

\* Arithmetic: an offset below o, shifted by a, stays below a + o and above what a covers.
LEMMA ShiftBelow ==
    ASSUME NEW a \in Nat, NEW e \in Nat, NEW o \in Nat, NEW n \in Nat, NEW z \in Nat,
           e < o, a + o < z, a >= n
    PROVE  a + e \in Nat /\ a + e < z /\ a + e <= z /\ a + e >= n
  OBVIOUS

\* Arithmetic: dword i of a message that starts at u ends before w, where its space does.
LEMMA WithinSpace ==
    ASSUME NEW u \in Nat, NEW v \in Nat, NEW n \in Nat, NEW x \in Nat, NEW w \in Nat,
           NEW i \in 0 .. n - 1, x >= n, v = u + x, v <= w
    PROVE  u + i \in Nat /\ u + i < w
  OBVIOUS

LEMMA SumAssoc ==
    ASSUME NEW a \in Int, NEW u \in Int, NEW i \in Int
    PROVE  a + u + i = a + (u + i)
  OBVIOUS

\* Arithmetic: a slot behind the write index is outside the n dwords about to be copied.
LEMMA BehindCopy ==
    ASSUME NEW z \in Nat, NEW o \in Nat, NEW e \in Nat, NEW n \in Nat, n < z - o, e < o
    PROVE  z - o + e \in n .. z - 1
  OBVIOUS

LEMMA SizeNat == RingSize \in Nat
  BY Sizes

LEMMA Div ==
    ASSUME NEW a \in Nat, NEW b \in Nat, b >= 1
    PROVE  (a \div b) \in Nat /\ (a \div b) * b <= a /\ a < (a \div b) * b + b
  OBVIOUS

LEMMA AlignIs ==
    ASSUME NEW n \in Nat
    PROVE  Align(n) \in Nat /\ Align(n) >= n
<1>1. PICK a \in Nat : a = n + AlignTo - 1
  BY Sizes
<1>2. PICK d \in Nat : d = a \div AlignTo /\ d * AlignTo <= a /\ a < d * AlignTo + AlignTo
  BY Sizes, Div
<1>3. PICK e \in Nat : e = d * AlignTo
  BY Sizes
<1>4. Align(n) = e
  BY <1>1, <1>2, <1>3 DEF Align
<1> QED
  BY <1>1, <1>2, <1>3, <1>4, Sizes

LEMMA ModIs ==
    ASSUME NEW x \in Nat, x < 2 * RingSize
    PROVE  x % RingSize = (IF x < RingSize THEN x ELSE x - RingSize) /\ x % RingSize \in Body
<1>1. x % RingSize = IF x < RingSize THEN x ELSE x - RingSize
  BY Sizes
<1> QED
  BY <1>1, Sizes DEF Body

LEMMA AgeIs == \A x \in Ts : Age(x) \in Nat
  BY Sizes DEF Age, U32Sub, Ts, TsMod

LEMMA NextAge ==
    ASSUME NEW q \in Ts, q # UINT_MAX, NEW n \in 0 .. Half - 2, Age(q) < n
    PROVE  /\ DriverTs(q) \in Ts /\ DriverTs(q) # 0 /\ DriverTs(q) # UINT_MAX
           /\ Age(q) < Age(DriverTs(q)) /\ Age(DriverTs(q)) <= Half
  BY Sizes DEF Age, U32Sub, Ts, TsMod, UINT_MAX, DriverTs

LEMMA NotRetired ==
    ASSUME NEW r \in Ts, NEW t \in Ts, Age(r) < Age(t), Age(t) <= Half
    PROVE  ~hgsl_ts32_ge(r, t)
  BY Sizes DEF Age, U32Sub, Ts, TsMod, hgsl_ts32_ge

LEMMA StartAge == Age(StartTs) = 0
  BY Sizes DEF Age, U32Sub, Ts, TsMod

-----------------------------------------------------------------------------
(* Induction over the messages of a ring, by the least counterexample.     *)

\* The order of the naturals as a relation, for the library's minimum.
Less == {p \in Nat \X Nat : p[1] < p[2]}

LEMMA LeastExists ==
    ASSUME NEW S \in SUBSET Nat, S # {}
    PROVE  \E x \in S : \A y \in S : x <= y
<1>1. IsWellFoundedOn(Less, Nat)
  BY NatLessThanWellFounded DEF OpToRel, Less
<1>2. PICK x \in S : \A y \in S : ~(<<y, x>> \in Less)
  BY <1>1, WFMin
<1>3. \A y \in S : y < x => <<y, x>> \in Less
  BY DEF Less
<1>4. \A y \in S : ~(y < x)
  BY <1>2, <1>3
<1> QED
  BY <1>2, <1>4

\* A set without 0 that has the predecessor of each of its elements is empty.
LEMMA NoLeast ==
    ASSUME NEW S \in SUBSET Nat, 0 \notin S, \A k \in S : k - 1 \in S
    PROVE  S = {}
<1>1. ASSUME S # {} PROVE FALSE
  <2>1. PICK x \in S : \A y \in S : x <= y
    BY <1>1, LeastExists
  <2> QED
    BY <2>1
<1> QED
  BY <1>1

\* The equation of Offsets for the first n messages.
OffEq(f, n, p) == f = [k \in 0 .. n |-> IF k = 0 THEN 0 ELSE f[k - 1] + Align(p[k].n)]

LEMMA SizeOf == ASSUME NEW p \in Seq(Msg), NEW k \in 1 .. Len(p)
                PROVE  /\ p[k] \in Msg /\ p[k].n \in Nat /\ p[k].n >= 1 /\ p[k].n <= RingSize
                       /\ Align(p[k].n) \in Nat /\ Align(p[k].n) >= p[k].n
<1>1. p[k] \in Msg
  OBVIOUS
<1>2. p[k].n \in 1 .. RingSize
  BY <1>1 DEF Msg
<1>3. p[k].n \in Nat /\ p[k].n >= 1 /\ p[k].n <= RingSize
  BY <1>2, Sizes
<1>4. Align(p[k].n) \in Nat /\ Align(p[k].n) >= p[k].n
  BY <1>3, AlignIs
<1> QED
  BY <1>1, <1>3, <1>4

LEMMA OffExists ==
    ASSUME NEW p \in Seq(Msg)
    PROVE  \E f : f \in [0 .. Len(p) -> Nat] /\ OffEq(f, Len(p), p)
<1> DEFINE Has(n) == \E f : f \in [0 .. n -> Nat] /\ OffEq(f, n, p)
           S == {n \in 0 .. Len(p) : ~Has(n)}
<1>1. Len(p) \in Nat
  OBVIOUS
<1>2. Has(0)
  <2>1. PICK f : f = [k \in 0 .. 0 |-> 0]
    OBVIOUS
  <2>2. f \in [0 .. 0 -> Nat] /\ OffEq(f, 0, p)
    BY <2>1 DEF OffEq
  <2> QED
    BY <2>2
<1>3. ASSUME NEW n \in 1 .. Len(p), Has(n - 1) PROVE Has(n)
  <2>1. PICK f : f \in [0 .. n - 1 -> Nat] /\ OffEq(f, n - 1, p)
    BY <1>3
  <2>2. n \in Nat /\ n - 1 \in 0 .. n - 1
    BY <1>1
  <2>3. PICK s \in Nat : s = f[n - 1] + Align(p[n].n)
    BY <2>1, <2>2, SizeOf
  <2>4. PICK g : g = [k \in 0 .. n |-> IF k = n THEN s ELSE f[k]]
    OBVIOUS
  <2>5. g \in [0 .. n -> Nat]
    BY <2>1, <2>2, <2>4
  <2>6. /\ \A k \in 0 .. n - 1 : g[k] = f[k]
        /\ g[n] = s
    BY <2>2, <2>4
  <2>7. \A k \in 0 .. n - 1 : f[k] = IF k = 0 THEN 0 ELSE f[k - 1] + Align(p[k].n)
    BY <2>1 DEF OffEq
  <2>8. \A k \in 0 .. n : g[k] = IF k = 0 THEN 0 ELSE g[k - 1] + Align(p[k].n)
    <3>1. ASSUME NEW k \in 0 .. n PROVE g[k] = IF k = 0 THEN 0 ELSE g[k - 1] + Align(p[k].n)
      <4>1. CASE k = n
        BY <2>2, <2>3, <2>6, <4>1
      <4>2. CASE k = 0
        BY <2>2, <2>6, <2>7, <4>2
      <4>3. CASE k # n /\ k # 0
        <5>1. k \in 0 .. n - 1 /\ k - 1 \in 0 .. n - 1
          BY <2>2, <4>3
        <5> QED
          BY <2>6, <2>7, <4>3, <5>1
      <4> QED
        BY <4>1, <4>2, <4>3
    <3> QED
      BY <3>1
  <2>9. OffEq(g, n, p)
    <3>1. g = [k \in 0 .. n |-> g[k]]
      BY <2>5
    <3> QED
      BY <2>8, <3>1 DEF OffEq
  <2> QED
    BY <2>5, <2>9
<1> HIDE DEF Has
<1>4. S = {}
  <2>1. S \in SUBSET Nat /\ 0 \notin S
    BY <1>1, <1>2
  <2>2. ASSUME NEW k \in S PROVE k - 1 \in S
    <3>1. k \in 1 .. Len(p) /\ ~Has(k)
      BY <1>1, <1>2
    <3>2. ~Has(k - 1)
      BY <1>3, <3>1
    <3> QED
      BY <1>1, <3>1, <3>2
  <2> HIDE DEF S
  <2> QED
    BY <2>1, <2>2, NoLeast
<1>5. Has(Len(p))
  BY <1>1, <1>4
<1> QED
  BY <1>5 DEF Has

LEMMA OffsetsEq == ASSUME NEW p \in Seq(Msg) PROVE OffEq(Offsets(p), Len(p), p)
<1>1. PICK f : OffEq(f, Len(p), p)
  BY OffExists
<1>2. Offsets(p) = CHOOSE off : off = [k \in 0 .. Len(p) |-> IF k = 0 THEN 0 ELSE off[k - 1] + Align(p[k].n)]
  BY DEF Offsets
<1> QED
  BY <1>1, <1>2 DEF OffEq

LEMMA OffsetsIs ==
    ASSUME NEW p \in Seq(Msg)
    PROVE  /\ Offsets(p) \in [0 .. Len(p) -> Nat] /\ Offsets(p)[0] = 0
           /\ \A k \in 1 .. Len(p) : Offsets(p)[k] = Offsets(p)[k - 1] + Align(p[k].n)
<1>1. PICK f : f = Offsets(p)
  OBVIOUS
<1>2. f = [k \in 0 .. Len(p) |-> IF k = 0 THEN 0 ELSE f[k - 1] + Align(p[k].n)]
  BY <1>1, OffsetsEq DEF OffEq
<1>3. /\ DOMAIN f = 0 .. Len(p) /\ Len(p) \in Nat
      /\ \A k \in 0 .. Len(p) : f[k] = IF k = 0 THEN 0 ELSE f[k - 1] + Align(p[k].n)
  BY <1>2
<1>4. f[0] = 0 /\ \A k \in 1 .. Len(p) : f[k] = f[k - 1] + Align(p[k].n)
  BY <1>3
<1> DEFINE S == {k \in 0 .. Len(p) : f[k] \notin Nat}
<1>5. S = {}
  <2>1. S \in SUBSET Nat /\ 0 \notin S
    BY <1>3, <1>4
  <2>2. ASSUME NEW k \in S PROVE k - 1 \in S
    <3>1. k \in 1 .. Len(p) /\ f[k] \notin Nat
      BY <2>1
    <3>2. f[k - 1] \notin Nat
      BY <1>4, <3>1, SizeOf
    <3> QED
      BY <3>1, <3>2
  <2> HIDE DEF S
  <2> QED
    BY <2>1, <2>2, NoLeast
<1>6. f \in [0 .. Len(p) -> Nat]
  BY <1>2, <1>3, <1>5
<1> QED
  BY <1>1, <1>4, <1>6

LEMMA OffsetsGrow ==
    ASSUME NEW p \in Seq(Msg), NEW j \in 0 .. Len(p), NEW k \in 0 .. Len(p), j <= k
    PROVE  Offsets(p)[j] <= Offsets(p)[k]
<1>1. PICK f \in [0 .. Len(p) -> Nat] : /\ f = Offsets(p)
                                        /\ \A i \in 1 .. Len(p) : f[i] = f[i - 1] + Align(p[i].n)
  BY OffsetsIs
<1> DEFINE S == {i \in 0 .. Len(p) : i >= j /\ ~(f[j] <= f[i])}
<1>2. S = {}
  <2>1. S \in SUBSET Nat /\ 0 \notin S
    BY <1>1
  <2>2. ASSUME NEW i \in S PROVE i - 1 \in S
    <3>1. i \in 1 .. Len(p) /\ i >= j /\ ~(f[j] <= f[i]) /\ i # j
      BY <1>1, <2>1
    <3>2. f[i] = f[i - 1] + Align(p[i].n) /\ Align(p[i].n) \in Nat
      BY <1>1, <3>1, SizeOf
    <3>3. i - 1 \in 0 .. Len(p) /\ i - 1 >= j
      BY <3>1
    <3>4. f[i - 1] \in Nat /\ f[j] \in Nat
      BY <1>1, <3>3
    <3>5. ~(f[j] <= f[i - 1])
      BY <3>1, <3>2, <3>4
    <3> QED
      BY <3>3, <3>5
  <2> HIDE DEF S
  <2> QED
    BY <2>1, <2>2, NoLeast
<1> QED
  BY <1>1, <1>2

\* The equation has one solution.
LEMMA OffsetsOnly ==
    ASSUME NEW p \in Seq(Msg), NEW n \in 0 .. Len(p), NEW g, g[0] = 0,
           \A k \in 1 .. n : g[k] = g[k - 1] + Align(p[k].n)
    PROVE  \A k \in 0 .. n : g[k] = Offsets(p)[k]
<1>1. PICK f \in [0 .. Len(p) -> Nat] : /\ f = Offsets(p) /\ f[0] = 0
                                        /\ \A i \in 1 .. Len(p) : f[i] = f[i - 1] + Align(p[i].n)
  BY OffsetsIs
<1> DEFINE S == {i \in 0 .. n : g[i] # f[i]}
<1>2. S = {}
  <2>1. S \in SUBSET Nat /\ 0 \notin S
    BY <1>1
  <2>2. ASSUME NEW i \in S PROVE i - 1 \in S
    <3>1. i \in 1 .. n /\ i \in 1 .. Len(p) /\ g[i] # f[i]
      BY <2>1
    <3>2. f[i] = f[i - 1] + Align(p[i].n) /\ g[i] = g[i - 1] + Align(p[i].n)
      BY <1>1, <3>1
    <3>3. g[i - 1] # f[i - 1] /\ i - 1 \in 0 .. n
      BY <3>1, <3>2
    <3> QED
      BY <3>3
  <2> HIDE DEF S
  <2> QED
    BY <2>1, <2>2, NoLeast
<1> QED
  BY <1>1, <1>2

\* One more message behind; one less in front.
LEMMA OffsetsAppend ==
    ASSUME NEW p \in Seq(Msg), NEW m \in Msg
    PROVE  /\ Append(p, m) \in Seq(Msg) /\ Len(Append(p, m)) = Len(p) + 1
           /\ \A k \in 0 .. Len(p) : Offsets(Append(p, m))[k] = Offsets(p)[k]
           /\ Offsets(Append(p, m))[Len(p) + 1] = Offsets(p)[Len(p)] + Align(m.n)
<1>1. PICK r \in Seq(Msg) : /\ r = Append(p, m) /\ Len(r) = Len(p) + 1 /\ r[Len(p) + 1] = m
                            /\ \A k \in 1 .. Len(p) : r[k] = p[k]
  <2>1. PICK r : r = Append(p, m)
    OBVIOUS
  <2>2. r \in Seq(Msg) /\ Len(r) = Len(p) + 1 /\ r[Len(p) + 1] = m
    BY <2>1
  <2>3. \A k \in 1 .. Len(p) : r[k] = p[k]
    BY <2>1
  <2> QED
    BY <2>1, <2>2, <2>3
<1>2. PICK g : g = Offsets(r)
  OBVIOUS
<1>3. g[0] = 0 /\ \A k \in 1 .. Len(p) + 1 : g[k] = g[k - 1] + Align(r[k].n)
  BY <1>1, <1>2, OffsetsIs
<1>4. \A k \in 1 .. Len(p) : g[k] = g[k - 1] + Align(p[k].n)
  BY <1>1, <1>3
<1>5. \A k \in 0 .. Len(p) : g[k] = Offsets(p)[k]
  BY <1>3, <1>4, OffsetsOnly
<1>6. g[Len(p) + 1] = g[Len(p)] + Align(m.n)
  <2>1. Len(p) + 1 \in 1 .. Len(p) + 1 /\ (Len(p) + 1) - 1 = Len(p)
    OBVIOUS
  <2> QED
    BY <1>1, <1>3, <2>1
<1> QED
  BY <1>1, <1>2, <1>5, <1>6

LEMMA OffsetsTail ==
    ASSUME NEW p \in Seq(Msg), p # <<>>
    PROVE  /\ Tail(p) \in Seq(Msg) /\ Len(Tail(p)) = Len(p) - 1 /\ Len(p) >= 1
           /\ \A k \in 1 .. Len(p) - 1 : Tail(p)[k] = p[k + 1]
           /\ \A k \in 0 .. Len(p) - 1 : Offsets(p)[k + 1] = Offsets(Tail(p))[k] + Align(p[1].n)
<1>1. PICK r \in Seq(Msg) : /\ r = Tail(p) /\ Len(r) = Len(p) - 1 /\ Len(p) >= 1
                            /\ \A k \in 1 .. Len(p) - 1 : r[k] = p[k + 1]
  <2>1. PICK r : r = Tail(p)
    OBVIOUS
  <2>2. r \in Seq(Msg) /\ Len(r) = Len(p) - 1 /\ Len(p) >= 1
    BY <2>1
  <2>3. \A k \in 1 .. Len(p) - 1 : r[k] = p[k + 1]
    BY <2>1
  <2> QED
    BY <2>1, <2>2, <2>3
<1>2. PICK f \in [0 .. Len(p) - 1 -> Nat] :
          /\ f = Offsets(r) /\ f[0] = 0
          /\ \A k \in 1 .. Len(p) - 1 : f[k] = f[k - 1] + Align(r[k].n)
  BY <1>1, OffsetsIs, ZenonT(60)
<1>3. PICK a \in Nat : a = Align(p[1].n)
  BY <1>1, SizeOf
<1>4. PICK g : g = [k \in 0 .. Len(p) |-> IF k = 0 THEN 0 ELSE f[k - 1] + a]
  OBVIOUS
<1>5. g[0] = 0 /\ \A k \in 1 .. Len(p) : g[k] = f[k - 1] + a
  BY <1>1, <1>4
<1>6. \A k \in 1 .. Len(p) : g[k] = g[k - 1] + Align(p[k].n)
  <2>1. ASSUME NEW k \in 1 .. Len(p) PROVE g[k] = g[k - 1] + Align(p[k].n)
    <3>1. CASE k = 1
      BY <1>1, <1>2, <1>3, <1>5, <3>1
    <3>2. CASE k # 1
      <4>1. k - 1 \in 1 .. Len(p) - 1 /\ k - 1 \in 1 .. Len(p) /\ (k - 1) + 1 = k
        BY <1>1, <3>2
      <4>2. r[k - 1] = p[k]
        BY <1>1, <4>1
      <4>3. f[k - 1] = f[(k - 1) - 1] + Align(p[k].n) /\ Align(p[k].n) \in Nat
        BY <1>2, <4>1, <4>2, SizeOf
      <4>4. f[k - 1] \in Nat /\ f[(k - 1) - 1] \in Nat
        <5>1. k - 1 \in 0 .. Len(p) - 1 /\ (k - 1) - 1 \in 0 .. Len(p) - 1
          BY <1>1, <4>1
        <5> QED
          BY <1>2, <5>1
      <4>5. g[k - 1] = f[(k - 1) - 1] + a /\ g[k] = f[k - 1] + a
        BY <1>5, <4>1
      <4> QED
        BY <4>3, <4>4, <4>5
    <3> QED
      BY <3>1, <3>2
  <2> QED
    BY <2>1
<1>7. \A k \in 0 .. Len(p) : g[k] = Offsets(p)[k]
  BY <1>5, <1>6, OffsetsOnly
<1>8. \A k \in 0 .. Len(p) - 1 : Offsets(p)[k + 1] = f[k] + a
  <2>1. ASSUME NEW k \in 0 .. Len(p) - 1 PROVE Offsets(p)[k + 1] = f[k] + a
    <3>1. k + 1 \in 1 .. Len(p) /\ k + 1 \in 0 .. Len(p) /\ (k + 1) - 1 = k
      BY <1>1
    <3> QED
      BY <1>5, <1>7, <3>1
  <2> QED
    BY <2>1
<1> QED
  BY <1>1, <1>2, <1>3, <1>8

-----------------------------------------------------------------------------
(* One ring: reading, copying, publishing.                                 *)

LEMMA QueueFields ==
    ASSUME NEW r \in QueueT
    PROVE  /\ r.wptr \in Body /\ r.rptr \in Body /\ r.pending \in Seq(Msg)
           /\ r.body \in [Body -> Dword]
           /\ r.wptr \in Nat /\ r.rptr \in Nat /\ r.wptr < RingSize /\ r.rptr < RingSize
<1>1. /\ r.wptr \in Body /\ r.rptr \in Body /\ r.pending \in Seq(Msg)
      /\ r.body \in [Body -> Dword]
  BY DEF QueueT
<1> QED
  BY <1>1, Sizes DEF Body

LEMMA MsgFields ==
    ASSUME NEW m \in Msg
    PROVE  /\ m.c \in Ctxts /\ m.ts \in Ts /\ m.n \in Nat /\ m.n >= 1 /\ m.n <= RingSize
           /\ m.batch \in BOOLEAN /\ Align(m.n) \in Nat /\ Align(m.n) >= m.n
<1>1. m.c \in Ctxts /\ m.ts \in Ts /\ m.n \in 1 .. RingSize /\ m.batch \in BOOLEAN
  BY DEF Msg
<1>2. m.n \in Nat /\ m.n >= 1 /\ m.n <= RingSize
  BY <1>1, Sizes
<1> QED
  BY <1>1, <1>2, AlignIs

\* A place in the ring, by its distance from an index.
Slot(w, d) == IF w + d < RingSize THEN w + d ELSE w + d - RingSize

LEMMA SlotIs ==
    ASSUME NEW w \in Body, NEW d \in Nat, d <= RingSize
    PROVE  (w + d) % RingSize = Slot(w, d) /\ Slot(w, d) \in Body
<1>1. PICK x \in Nat : x = w + d /\ x < 2 * RingSize
  BY Sizes DEF Body
<1>2. x % RingSize = (IF x < RingSize THEN x ELSE x - RingSize) /\ x % RingSize \in Body
  BY <1>1, ModIs
<1>3. Slot(w, d) = IF x < RingSize THEN x ELSE x - RingSize
  BY <1>1, Sizes DEF Slot, Body
<1> QED
  BY <1>1, <1>2, <1>3

LEMMA SlotInj ==
    ASSUME NEW w \in Body, NEW d \in Body, NEW e \in Body, Slot(w, d) = Slot(w, e)
    PROVE  d = e
  BY Sizes DEF Slot, Body

LEMMA SlotAdd ==
    ASSUME NEW w \in Body, NEW d \in Nat, d < RingSize, NEW e \in Nat, d + e <= RingSize
    PROVE  Slot(Slot(w, d), e) = Slot(w, d + e)
  BY Sizes DEF Slot, Body

\* The indices give the dwords that are taken.
LEMMA UsedIs ==
    ASSUME NEW w \in Body, NEW d \in Body
    PROVE  (Slot(w, d) + RingSize - w) % RingSize = d
<1>1. PICK x \in Nat : x = Slot(w, d) + RingSize - w
  BY Sizes DEF Slot, Body
<1>2. x < 2 * RingSize /\ (x = d \/ x = d + RingSize)
  BY <1>1, Sizes DEF Slot, Body
<1>3. x % RingSize = d
  BY <1>2, ModIs, Sizes DEF Body
<1> QED
  BY <1>1, <1>3

\* What Ring says, with slots.
Holding(rptr, wptr, body, p, off) ==
    /\ off[Len(p)] < RingSize
    /\ wptr = Slot(rptr, off[Len(p)])
    /\ \A k \in 1 .. Len(p) : \A i \in 0 .. p[k].n - 1 :
          body[Slot(rptr, off[k - 1] + i)] = [m |-> p[k], i |-> i]

LEMMA RingIs ==
    ASSUME NEW r \in QueueT, NEW p, p = r.pending, NEW off, off = Offsets(p)
    PROVE  Ring(r) <=>
             /\ off[Len(p)] < RingSize
             /\ r.wptr = Slot(r.rptr, off[Len(p)])
             /\ \A k \in 1 .. Len(p) : \A i \in 0 .. p[k].n - 1 :
                   r.body[Slot(r.rptr, off[k - 1] + i)] = [m |-> p[k], i |-> i]
<1>1. /\ p \in Seq(Msg) /\ r.rptr \in Body /\ off \in [0 .. Len(p) -> Nat] /\ Len(p) \in Nat
  BY QueueFields, OffsetsIs
<1>2. off[Len(p)] \in Nat
  BY <1>1
<1>3. CASE ~(off[Len(p)] < RingSize)
  BY <1>3 DEF Ring
<1>4. CASE off[Len(p)] < RingSize
  <2>1. (r.rptr + off[Len(p)]) % RingSize = Slot(r.rptr, off[Len(p)])
    BY <1>1, <1>2, <1>4, SlotIs, Sizes
  <2>2. ASSUME NEW k \in 1 .. Len(p), NEW i \in 0 .. p[k].n - 1
        PROVE  (r.rptr + off[k - 1] + i) % RingSize = Slot(r.rptr, off[k - 1] + i)
    <3>1. k - 1 \in 0 .. Len(p) /\ k \in 0 .. Len(p) /\ Len(p) \in 0 .. Len(p) /\ k <= Len(p)
      BY <1>1
    <3>2. /\ off[k - 1] \in Nat /\ off[k] \in Nat
          /\ off[k] = off[k - 1] + Align(p[k].n) /\ off[k] <= off[Len(p)]
      BY <1>1, <3>1, OffsetsIs, OffsetsGrow
    <3>3. p[k].n \in Nat /\ Align(p[k].n) \in Nat /\ Align(p[k].n) >= p[k].n
      BY <1>1, SizeOf
    <3>7. off[k - 1] + i \in Nat /\ off[k - 1] + i < off[Len(p)]
      BY <1>2, <3>2, <3>3, WithinSpace
    <3>8. ASSUME NEW x \in Nat, NEW y \in Nat, x < y, y < RingSize PROVE x < RingSize
      BY <3>8, SizeNat
    <3>4. PICK d \in Nat : d = off[k - 1] + i /\ d < RingSize
      BY <1>2, <1>4, <3>7, <3>8
    <3>5. (r.rptr + d) % RingSize = Slot(r.rptr, d)
      BY <1>1, <3>4, SlotIs, Sizes
    <3>9. r.rptr \in Int /\ off[k - 1] \in Int /\ i \in Int
      BY <1>1, <3>2, <3>3, SizeNat DEF Body
    <3>6. r.rptr + off[k - 1] + i = r.rptr + d
      BY <3>4, <3>9, SumAssoc
    <3> QED
      BY <3>4, <3>5, <3>6
  <2> QED
    BY <1>4, <2>1, <2>2 DEF Ring
<1> QED
  BY <1>3, <1>4

LEMMA RingHolding ==
    ASSUME NEW r \in QueueT
    PROVE  Ring(r) <=> Holding(r.rptr, r.wptr, r.body, r.pending, Offsets(r.pending))
  BY RingIs DEF Holding

\* Bounds of the messages in a ring.
LEMMA OffsetsIn ==
    ASSUME NEW p \in Seq(Msg), NEW off, off = Offsets(p), NEW k \in 1 .. Len(p),
           NEW i \in 0 .. p[k].n - 1
    PROVE  /\ off[k - 1] \in Nat /\ off[k - 1] + i \in Nat /\ off[Len(p)] \in Nat
           /\ off[k - 1] + i < off[Len(p)]
           /\ k # 1 => off[k - 1] >= Align(p[1].n)
<1>1. off \in [0 .. Len(p) -> Nat] /\ Len(p) \in Nat
  BY OffsetsIs
<1>2. k - 1 \in 0 .. Len(p) /\ k \in 0 .. Len(p) /\ Len(p) \in 0 .. Len(p) /\ k <= Len(p)
  BY <1>1
<1>3. /\ off[k - 1] \in Nat /\ off[k] \in Nat /\ off[Len(p)] \in Nat
      /\ off[k] = off[k - 1] + Align(p[k].n) /\ off[k] <= off[Len(p)]
  BY <1>1, <1>2, OffsetsIs, OffsetsGrow
<1>4. p[k].n \in Nat /\ Align(p[k].n) \in Nat /\ Align(p[k].n) >= p[k].n
  BY SizeOf
<1>5. off[k - 1] + i \in Nat /\ off[k - 1] + i < off[Len(p)]
  BY <1>3, <1>4, WithinSpace
<1>6. ASSUME k # 1 PROVE off[k - 1] >= Align(p[1].n)
  <2>1. 1 \in 1 .. Len(p) /\ 1 \in 0 .. Len(p) /\ 1 <= k - 1 /\ 1 - 1 = 0
    BY <1>1, <1>6
  <2>2. off[1] = off[0] + Align(p[1].n) /\ off[0] = 0 /\ Align(p[1].n) \in Nat
    BY <2>1, OffsetsIs, SizeOf
  <2>3. off[1] <= off[k - 1]
    BY <1>2, <2>1, OffsetsGrow
  <2> QED
    BY <1>3, <2>2, <2>3
<1> QED
  BY <1>3, <1>5, <1>6

LEMMA EmptyRing == EmptyQueue \in QueueT /\ Ring(EmptyQueue)
<1>1. PICK r : r = EmptyQueue
  OBVIOUS
<1>2. /\ r.wptr = 0 /\ r.rptr = 0 /\ r.pending = <<>> /\ 0 \in Body
      /\ r = [wptr |-> 0, rptr |-> 0, pending |-> << >>, body |-> [i \in Body |-> None]]
  BY <1>1, Sizes DEF EmptyQueue, Body
<1>3. [i \in Body |-> None] \in [Body -> Dword] /\ << >> \in Seq(Msg)
  BY DEF Dword
<1>4. r \in QueueT
  BY <1>2, <1>3 DEF QueueT
<1>5. Offsets(r.pending)[0] = 0 /\ Len(r.pending) = 0
  BY <1>2, OffsetsIs
<1>6. r.wptr = Slot(r.rptr, 0)
  BY <1>2, Sizes DEF Slot
<1>7. Ring(r)
  BY <1>4, <1>5, <1>6, RingIs, Sizes
<1> QED
  BY <1>1, <1>4, <1>7

\* The indices and the offsets of a ring.
LEMMA RingOff ==
    ASSUME NEW r \in QueueT, Ring(r), NEW p, p = r.pending, NEW off, off = Offsets(p)
    PROVE  /\ p \in Seq(Msg) /\ Len(p) \in Nat /\ off \in [0 .. Len(p) -> Nat] /\ off[0] = 0
           /\ off[Len(p)] \in Body /\ off[Len(p)] \in Nat
           /\ r.rptr \in Body /\ r.wptr \in Body
           /\ r.wptr = Slot(r.rptr, off[Len(p)]) /\ Used(r) = off[Len(p)]
<1>1. /\ p \in Seq(Msg) /\ Len(p) \in Nat /\ off \in [0 .. Len(p) -> Nat] /\ off[0] = 0
      /\ r.rptr \in Body /\ r.wptr \in Body
  BY QueueFields, OffsetsIs
<1>2. off[Len(p)] < RingSize /\ r.wptr = Slot(r.rptr, off[Len(p)])
  BY RingIs
<1>3. off[Len(p)] \in Nat
  BY <1>1
<1>4. off[Len(p)] \in Body
  BY <1>2, <1>3, Sizes DEF Body
<1>5. (r.wptr + RingSize - r.rptr) % RingSize = off[Len(p)]
  BY <1>1, <1>2, <1>4, UsedIs
<1> QED
  BY <1>1, <1>2, <1>3, <1>4, <1>5 DEF Used

\* The firmware finds the oldest message at the read index.
LEMMA RingFront ==
    ASSUME NEW r \in QueueT, Ring(r), r.rptr # r.wptr
    PROVE  /\ r.pending # <<>> /\ r.pending[1] \in Msg /\ 1 \in 1 .. Len(r.pending)
           /\ r.body[r.rptr] = [m |-> r.pending[1], i |-> 0]
           /\ r.body[r.rptr].m = r.pending[1]
<1>1. PICK p, off : p = r.pending /\ off = Offsets(p)
  OBVIOUS
<1>2. /\ p \in Seq(Msg) /\ Len(p) \in Nat /\ off[0] = 0 /\ r.rptr \in Body
      /\ r.wptr = Slot(r.rptr, off[Len(p)])
  BY <1>1, RingOff
<1>3. Slot(r.rptr, 0) = r.rptr
  BY <1>2, Sizes DEF Slot, Body
<1>4. Len(p) # 0
  BY <1>2, <1>3
<1>5. 1 \in 1 .. Len(p) /\ p # <<>> /\ 1 - 1 = 0
  BY <1>2, <1>4
<1>6. p[1] \in Msg /\ p[1].n \in Nat /\ p[1].n >= 1
  BY <1>2, <1>5, SizeOf
<1>7. 0 \in 0 .. p[1].n - 1
  BY <1>6
<1>8. r.body[Slot(r.rptr, off[1 - 1] + 0)] = [m |-> p[1], i |-> 0]
  BY <1>1, <1>5, <1>7, RingIs
<1>9. r.body[r.rptr] = [m |-> p[1], i |-> 0]
  BY <1>2, <1>3, <1>5, <1>8
<1> QED
  BY <1>1, <1>5, <1>6, <1>9

\* A place is as far from the write index as it is from the read index.
LEMMA SlotBehind ==
    ASSUME NEW w \in Body, NEW o \in Body, NEW e \in Nat, e < o
    PROVE  RingSize - o + e \in Body /\ Slot(Slot(w, o), RingSize - o + e) = Slot(w, e)
  BY Sizes DEF Slot, Body

\* Copying fills the dwords behind the write index and leaves the others.
LEMMA CopiedIs ==
    ASSUME NEW body \in [Body -> Dword], NEW w \in Body, NEW m \in Msg, m.n < RingSize
    PROVE  /\ Copied(body, w, m) \in [Body -> Dword]
           /\ \A d \in 0 .. m.n - 1 : Copied(body, w, m)[Slot(w, d)] = [m |-> m, i |-> d]
           /\ \A d \in m.n .. RingSize - 1 : Copied(body, w, m)[Slot(w, d)] = body[Slot(w, d)]
<1>1. m.n \in Nat /\ m.n >= 1 /\ w \in Nat /\ w < RingSize
  BY MsgFields, Sizes DEF Body
<1>2. PICK mv \in Nat : mv = IF m.n + w >= RingSize THEN RingSize - w ELSE m.n
  BY <1>1, Sizes
<1>3. PICK g : g = Copied(body, w, m)
  OBVIOUS
<1>4. g = [k \in Body |-> IF k >= w /\ k - w < mv THEN [m |-> m, i |-> k - w]
                          ELSE IF k < m.n - mv THEN [m |-> m, i |-> mv + k]
                          ELSE body[k]]
  BY <1>2, <1>3 DEF Copied, Body
<1>5. ASSUME NEW k \in Body PROVE g[k] \in Dword
  <2>1. k \in Nat /\ k < RingSize
    BY Sizes DEF Body
  <2>2. CASE k >= w /\ k - w < mv
    <3>1. k - w \in 0 .. RingSize - 1
      BY <1>1, <2>1, <2>2, Sizes
    <3> QED
      BY <1>4, <2>2, <3>1 DEF Dword
  <2>3. CASE ~(k >= w /\ k - w < mv) /\ k < m.n - mv
    <3>1. mv + k \in 0 .. RingSize - 1
      BY <1>1, <1>2, <2>1, <2>3, Sizes
    <3> QED
      BY <1>4, <2>3, <3>1 DEF Dword
  <2>4. CASE ~(k >= w /\ k - w < mv) /\ ~(k < m.n - mv)
    BY <1>4, <2>4
  <2> QED
    BY <2>2, <2>3, <2>4
<1>6. g \in [Body -> Dword]
  BY <1>4, <1>5
<1>7. ASSUME NEW d \in 0 .. m.n - 1 PROVE g[Slot(w, d)] = [m |-> m, i |-> d]
  <2>1. PICK k \in Body : k = Slot(w, d)
    <3>1. d \in Nat /\ d <= RingSize
      BY <1>1, Sizes
    <3> QED
      BY <3>1, SlotIs
  <2>2. d \in Nat /\ d < m.n /\ k \in Nat
    BY <1>1, Sizes DEF Body
  <2>3. CASE w + d < RingSize
    <3>1. k = w + d /\ k >= w /\ k - w < mv /\ k - w = d
      BY <1>1, <1>2, <2>1, <2>2, <2>3, Sizes DEF Slot
    <3> QED
      BY <1>4, <2>1, <3>1
  <2>4. CASE ~(w + d < RingSize)
    <3>1. k = w + d - RingSize /\ ~(k >= w) /\ k < m.n - mv /\ mv + k = d
      BY <1>1, <1>2, <2>1, <2>2, <2>4, Sizes DEF Slot
    <3> QED
      BY <1>4, <2>1, <3>1
  <2> QED
    BY <2>3, <2>4
<1>8. ASSUME NEW d \in m.n .. RingSize - 1 PROVE g[Slot(w, d)] = body[Slot(w, d)]
  <2>1. PICK k \in Body : k = Slot(w, d)
    <3>1. d \in Nat /\ d <= RingSize
      BY <1>1, Sizes
    <3> QED
      BY <3>1, SlotIs
  <2>2. d \in Nat /\ d >= m.n /\ d < RingSize /\ k \in Nat
    BY <1>1, Sizes DEF Body
  <2>3. ~(k >= w /\ k - w < mv) /\ ~(k < m.n - mv)
    BY <1>1, <1>2, <2>1, <2>2, Sizes DEF Slot
  <2> QED
    BY <1>4, <2>1, <2>3
<1> QED
  BY <1>3, <1>6, <1>7, <1>8

\* What the firmware leaves of a ring.
Consumed(r, m) ==
    [wptr |-> r.wptr, rptr |-> (r.rptr + Align(m.n)) % RingSize, pending |-> Tail(r.pending),
     body |-> [k \in DOMAIN r.body |->
                 IF k \in {(r.rptr + i) % RingSize : i \in 0 .. m.n - 1} THEN None ELSE r.body[k]]]

LEMMA RingRead ==
    ASSUME NEW r \in QueueT, Ring(r), r.rptr # r.wptr, NEW r2, r2 = Consumed(r, r.pending[1])
    PROVE  /\ r2 \in QueueT /\ Ring(r2) /\ Used(r2) \in Nat /\ Used(r2) <= Used(r) /\ Used(r) \in Nat
           /\ r2.pending = Tail(r.pending)
           /\ \A m \in Msg : Written(r, m) /\ Fits(r, m) => Written(r2, m)
<1>1. PICK p, off, t, of2, m1 : /\ p = r.pending /\ off = Offsets(p) /\ t = Tail(p)
                                /\ of2 = Offsets(t) /\ m1 = p[1]
  OBVIOUS
<1>2. /\ p \in Seq(Msg) /\ Len(p) \in Nat /\ off \in [0 .. Len(p) -> Nat] /\ off[0] = 0
      /\ off[Len(p)] \in Body /\ off[Len(p)] \in Nat /\ r.rptr \in Body /\ r.wptr \in Body
      /\ r.wptr = Slot(r.rptr, off[Len(p)]) /\ Used(r) = off[Len(p)]
  BY <1>1, RingOff
<1>3. p # <<>> /\ m1 \in Msg /\ 1 \in 1 .. Len(p)
  BY <1>1, RingFront
<1>4. PICK a \in Nat : a = Align(m1.n) /\ a >= m1.n /\ m1.n \in Nat /\ m1.n >= 1
  BY <1>3, MsgFields
<1>5. /\ t \in Seq(Msg) /\ Len(t) = Len(p) - 1 /\ Len(p) >= 1
      /\ \A k \in 1 .. Len(p) - 1 : t[k] = p[k + 1]
      /\ \A k \in 0 .. Len(p) - 1 : off[k + 1] = of2[k] + a
  BY <1>1, <1>2, <1>3, <1>4, OffsetsTail
<1>6. of2 \in [0 .. Len(t) -> Nat] /\ of2[0] = 0
  BY <1>1, <1>5, OffsetsIs
<1>7. PICK o \in Nat : o = of2[Len(t)]
  BY <1>5, <1>6
<1>8. off[Len(p)] = o + a
  <2>1. Len(p) - 1 \in 0 .. Len(p) - 1 /\ (Len(p) - 1) + 1 = Len(p)
    BY <1>2, <1>5
  <2> QED
    BY <1>5, <1>7, <2>1
<1>9. a \in Body /\ o \in Body /\ a + o < RingSize /\ o < RingSize /\ a <= RingSize /\ a < RingSize
  BY <1>2, <1>4, <1>7, <1>8, Sizes DEF Body
<1>10. PICK R \in Body : R = (r.rptr + a) % RingSize /\ R = Slot(r.rptr, a)
  BY <1>2, <1>9, SlotIs
<1>11. ASSUME NEW e \in Nat, a + e <= RingSize PROVE Slot(R, e) = Slot(r.rptr, a + e)
  <2>1. Slot(Slot(r.rptr, a), e) = Slot(r.rptr, a + e)
    <3>1. r.rptr \in Body /\ a \in Nat /\ e \in Nat /\ a + e <= RingSize /\ a < RingSize
      BY <1>2, <1>9, <1>11, Zenon
    <3> QED
      BY <3>1, SlotAdd, Zenon
  <2> QED
    BY <1>10, <2>1
<1>12. r.wptr = Slot(R, o)
  <2>1. a + o <= RingSize /\ off[Len(p)] = a + o
    BY <1>8, <1>9, SizeNat
  <2> QED
    BY <1>2, <1>11, <2>1
<1> DEFINE gone == {(r.rptr + i) % RingSize : i \in 0 .. m1.n - 1}
<1>13. PICK b : b = [k \in DOMAIN r.body |-> IF k \in gone THEN None ELSE r.body[k]]
  OBVIOUS
<1>14. r2 = [wptr |-> r.wptr, rptr |-> R, pending |-> t, body |-> b]
  BY <1>1, <1>4, <1>10, <1>13 DEF Consumed
<1>15. r.body \in [Body -> Dword] /\ None \in Dword
  BY QueueFields DEF Dword
<1>16. b \in [Body -> Dword]
  BY <1>13, <1>15
<1>17. r2 \in QueueT
  BY <1>2, <1>5, <1>10, <1>14, <1>16 DEF QueueT
<1>18. r2.wptr = r.wptr /\ r2.rptr = R /\ r2.pending = t /\ r2.body = b
  BY <1>14
<1>19. ASSUME NEW e \in Nat, e >= m1.n, e < RingSize
       PROVE  b[Slot(r.rptr, e)] = r.body[Slot(r.rptr, e)]
  <2>1. e \in Body /\ e <= RingSize
    BY <1>19, Sizes DEF Body
  <2>2. Slot(r.rptr, e) \in Body
    BY <1>2, <2>1, SlotIs
  <2>3. ASSUME NEW i \in 0 .. m1.n - 1 PROVE Slot(r.rptr, e) # (r.rptr + i) % RingSize
    <3>1. i \in Body /\ i \in Nat /\ i <= RingSize /\ i # e
      BY <1>4, <1>9, <1>19, Sizes DEF Body
    <3>2. (r.rptr + i) % RingSize = Slot(r.rptr, i)
      BY <1>2, <3>1, SlotIs
    <3> QED
      BY <1>2, <2>1, <3>1, <3>2, SlotInj
  <2>4. Slot(r.rptr, e) \notin gone
    BY <2>3
  <2> QED
    BY <1>13, <1>15, <2>2, <2>4
<1> HIDE DEF gone
<1>20. ASSUME NEW k \in 1 .. Len(t), NEW i \in 0 .. t[k].n - 1
       PROVE  b[Slot(R, of2[k - 1] + i)] = [m |-> t[k], i |-> i]
  <2>1. /\ k + 1 \in 1 .. Len(p) /\ (k + 1) - 1 = k /\ k - 1 \in 0 .. Len(p) - 1 /\ k + 1 # 1
        /\ k \in 1 .. Len(p) - 1 /\ (k - 1) + 1 = k
    BY <1>2, <1>5
  <2>2. t[k] = p[k + 1] /\ off[k] = of2[k - 1] + a
    BY <1>5, <2>1
  <2>3. /\ of2[k - 1] \in Nat /\ of2[k - 1] + i \in Nat
        /\ of2[k - 1] + i < of2[Len(t)]
    BY <1>1, <1>5, OffsetsIn
  <2>4. PICK e \in Nat : e = of2[k - 1] + i /\ e < o
    BY <1>7, <2>3
  <2>5. i \in Int
    BY <1>5, SizeOf
  <2>6. a + e \in Nat /\ a + e < RingSize /\ a + e <= RingSize /\ a + e >= m1.n
    <3>1. /\ m1.n \in Nat /\ RingSize \in Nat /\ e < o /\ a + o < RingSize /\ a >= m1.n
          /\ a \in Nat /\ e \in Nat /\ o \in Nat
      BY <1>4, <1>7, <1>9, <2>4, SizeNat
    <3> QED
      BY <3>1, ShiftBelow
  <2>10. a + e = off[k] + i
    BY <2>2, <2>3, <2>4, <2>5
  <2>7. Slot(R, e) = Slot(r.rptr, a + e)
    BY <1>11, <2>6
  <2>8. r.body[Slot(r.rptr, off[(k + 1) - 1] + i)] = [m |-> p[k + 1], i |-> i]
    <3>1. i \in 0 .. p[k + 1].n - 1
      BY <2>2
    <3> QED
      BY <1>1, <2>1, <3>1, RingIs
  <2>9. b[Slot(r.rptr, a + e)] = r.body[Slot(r.rptr, a + e)]
    BY <1>19, <2>6
  <2> QED
    BY <2>1, <2>2, <2>4, <2>7, <2>8, <2>9, <2>10
<1>21. Ring(r2)
  <2>1. of2[Len(t)] < RingSize /\ r2.wptr = Slot(r2.rptr, of2[Len(t)])
    BY <1>7, <1>9, <1>12, <1>18
  <2>2. \A k \in 1 .. Len(t) : \A i \in 0 .. t[k].n - 1 :
                   r2.body[Slot(r2.rptr, of2[k - 1] + i)] = [m |-> t[k], i |-> i]
    BY <1>18, <1>20
  <2>3. t = r2.pending /\ of2 = Offsets(t)
    BY <1>1, <1>18
  <2>4. Holding(r2.rptr, r2.wptr, r2.body, t, of2)
    BY <2>1, <2>2 DEF Holding
  <2> QED
    BY <1>17, <2>3, <2>4, RingHolding
<1>22. Used(r2) = o
  BY <1>1, <1>7, <1>17, <1>18, <1>21, RingOff
<1>23. ASSUME NEW m \in Msg, Written(r, m), Fits(r, m) PROVE Written(r2, m)
  <2>1. ASSUME NEW i \in 0 .. m.n - 1 PROVE r2.body[(r2.wptr + i) % RingSize] = [m |-> m, i |-> i]
    <3>1. m.n \in Nat /\ Align(m.n) \in Nat /\ Align(m.n) >= m.n /\ i \in Nat
      BY MsgFields
    <3>2. RingSize - (o + a) - 1 >= Align(m.n)
      BY <1>2, <1>8, <1>23 DEF Fits
    <3>9. i < m.n
      BY <3>1
    <3>3. PICK e \in Nat : e = o + a + i /\ e < RingSize /\ e >= m1.n
      <4>1. PICK x \in Nat : x = Align(m.n) /\ i < x
        BY <3>1, <3>9
      <4>2. o + a + i \in Nat /\ o + a + i < RingSize /\ o + a + i >= m1.n
        BY <1>4, <3>1, <3>2, <4>1, Sizes
      <4> QED
        BY <4>2
    <3>4. i <= RingSize /\ off[Len(p)] + i <= RingSize /\ off[Len(p)] + i = e
      BY <1>7, <1>8, <3>1, <3>3, Sizes
    <3>5. (r.wptr + i) % RingSize = Slot(r.wptr, i)
      BY <1>2, <3>4, SlotIs
    <3>6. Slot(r.wptr, i) = Slot(r.rptr, e)
      <4>1. PICK f \in Nat : f = off[Len(p)] /\ f < RingSize /\ f + i <= RingSize
        BY <1>7, <1>8, <1>9, <3>4
      <4>2. Slot(Slot(r.rptr, f), i) = Slot(r.rptr, f + i)
        BY <1>2, <3>1, <4>1, SlotAdd, SizeNat
      <4> QED
        BY <1>2, <3>4, <4>1, <4>2
    <3>7. r.body[Slot(r.rptr, e)] = [m |-> m, i |-> i]
      BY <1>23, <3>5, <3>6 DEF Written
    <3>8. b[Slot(r.rptr, e)] = r.body[Slot(r.rptr, e)]
      BY <1>19, <3>3
    <3> QED
      BY <1>18, <3>5, <3>6, <3>7, <3>8
  <2> QED
    BY <2>1 DEF Written
<1>24. Used(r2) \in Nat /\ Used(r) \in Nat /\ Used(r2) <= Used(r)
  BY <1>2, <1>4, <1>7, <1>8, <1>22
<1> QED
  BY <1>1, <1>17, <1>18, <1>21, <1>23, <1>24

LEMMA RingCopy ==
    ASSUME NEW r \in QueueT, Ring(r), NEW m \in Msg, Fits(r, m), NEW r2,
           r2 = [r EXCEPT !.body = Copied(@, r.wptr, m)]
    PROVE  /\ r2 \in QueueT /\ Ring(r2) /\ Written(r2, m) /\ Used(r2) = Used(r)
           /\ r2.pending = r.pending
<1>1. PICK p, off, b : p = r.pending /\ off = Offsets(p) /\ b = Copied(r.body, r.wptr, m)
  OBVIOUS
<1>2. /\ p \in Seq(Msg) /\ Len(p) \in Nat /\ off[Len(p)] \in Body /\ off[Len(p)] \in Nat
      /\ r.rptr \in Body /\ r.wptr \in Body /\ r.body \in [Body -> Dword]
      /\ r.wptr = Slot(r.rptr, off[Len(p)]) /\ Used(r) = off[Len(p)]
  BY <1>1, RingOff, QueueFields
<1>3. /\ m.n \in Nat /\ m.n >= 1 /\ Align(m.n) \in Nat /\ Align(m.n) >= m.n
  BY MsgFields
<1>4. PICK o \in Nat : o = off[Len(p)] /\ RingSize - o - 1 >= Align(m.n)
  BY <1>2 DEF Fits
<1>5. m.n < RingSize - o /\ m.n < RingSize
  BY <1>3, <1>4, Sizes
<1>6. /\ b \in [Body -> Dword]
      /\ \A d \in 0 .. m.n - 1 : b[Slot(r.wptr, d)] = [m |-> m, i |-> d]
      /\ \A d \in m.n .. RingSize - 1 : b[Slot(r.wptr, d)] = r.body[Slot(r.wptr, d)]
  BY <1>1, <1>2, <1>5, CopiedIs
<1>7. r2 = [wptr |-> r.wptr, rptr |-> r.rptr, pending |-> p, body |-> b]
  BY <1>1 DEF QueueT
<1>8. r2 \in QueueT /\ r2.wptr = r.wptr /\ r2.rptr = r.rptr /\ r2.pending = p /\ r2.body = b
  BY <1>2, <1>6, <1>7 DEF QueueT
<1>9. ASSUME NEW k \in 1 .. Len(p), NEW i \in 0 .. p[k].n - 1
      PROVE  b[Slot(r.rptr, off[k - 1] + i)] = [m |-> p[k], i |-> i]
  <2>1. off[k - 1] + i \in Nat /\ off[k - 1] + i < off[Len(p)]
    BY <1>1, <1>2, OffsetsIn
  <2>2. PICK e \in Nat : e = off[k - 1] + i /\ e < o
    BY <1>4, <2>1
  <2>3. PICK d \in Body : d = RingSize - o + e /\ Slot(r.wptr, d) = Slot(r.rptr, e)
    BY <1>2, <1>4, <2>2, SlotBehind
  <2>4. d \in m.n .. RingSize - 1
    BY <1>3, <1>5, <2>2, <2>3, SizeNat, BehindCopy
  <2>5. r.body[Slot(r.rptr, off[k - 1] + i)] = [m |-> p[k], i |-> i]
    BY <1>1, RingIs
  <2> QED
    BY <1>6, <2>2, <2>3, <2>4, <2>5
<1>10. Ring(r2)
  <2>1. off[Len(p)] < RingSize /\ r2.wptr = Slot(r2.rptr, off[Len(p)])
    BY <1>2, <1>8, Sizes DEF Body
  <2>2. \A k \in 1 .. Len(p) : \A i \in 0 .. p[k].n - 1 :
                   r2.body[Slot(r2.rptr, off[k - 1] + i)] = [m |-> p[k], i |-> i]
    BY <1>8, <1>9
  <2>3. p = r2.pending /\ off = Offsets(p)
    BY <1>1, <1>8
  <2>4. r2 \in QueueT
    BY <1>8
  <2> QED
    <3>1. Holding(r2.rptr, r2.wptr, r2.body, p, off)
      BY <2>1, <2>2 DEF Holding
    <3>2. Holding(r2.rptr, r2.wptr, r2.body, r2.pending, Offsets(r2.pending))
      BY <2>3, <3>1
    <3> QED
      BY <2>4, <3>2, RingHolding
<1>11. Written(r2, m)
  <2>1. ASSUME NEW i \in 0 .. m.n - 1 PROVE r2.body[(r2.wptr + i) % RingSize] = [m |-> m, i |-> i]
    <3>1. i \in Nat /\ i <= RingSize
      BY <1>3, <1>5, Sizes
    <3>2. (r.wptr + i) % RingSize = Slot(r.wptr, i)
      BY <1>2, <3>1, SlotIs
    <3> QED
      BY <1>6, <1>8, <3>2
  <2> QED
    BY <2>1 DEF Written
<1>12. Used(r2) = Used(r)
  BY <1>8 DEF Used
<1> QED
  BY <1>1, <1>8, <1>10, <1>11, <1>12

LEMMA RingPublish ==
    ASSUME NEW r \in QueueT, Ring(r), NEW m \in Msg, Fits(r, m), Written(r, m), NEW r2,
           r2 = Published(r, m)
    PROVE  r2 \in QueueT /\ Ring(r2) /\ r2.pending = Append(r.pending, m)
<1>1. PICK p, off, t, of2 : p = r.pending /\ off = Offsets(p) /\ t = Append(p, m) /\ of2 = Offsets(t)
  OBVIOUS
<1>2. /\ p \in Seq(Msg) /\ Len(p) \in Nat /\ off[Len(p)] \in Body /\ off[Len(p)] \in Nat
      /\ r.rptr \in Body /\ r.wptr \in Body /\ r.body \in [Body -> Dword]
      /\ r.wptr = Slot(r.rptr, off[Len(p)]) /\ Used(r) = off[Len(p)]
  BY <1>1, RingOff, QueueFields
<1>3. PICK a \in Nat : m.n \in Nat /\ m.n >= 1 /\ a = Align(m.n) /\ a >= m.n
  BY MsgFields
<1>4. PICK o \in Nat : o = off[Len(p)] /\ RingSize - o - 1 >= a
  BY <1>2, <1>3 DEF Fits
<1>5. o + a < RingSize /\ o + a <= RingSize /\ a <= RingSize /\ o < RingSize /\ o \in Body
  BY <1>2, <1>4, Sizes
<1>6. /\ t \in Seq(Msg) /\ Len(t) = Len(p) + 1
      /\ \A k \in 0 .. Len(p) : of2[k] = off[k]
      /\ of2[Len(p) + 1] = o + a
  BY <1>1, <1>2, <1>3, <1>4, OffsetsAppend
<1>7. PICK w \in Body : w = (r.wptr + a) % RingSize /\ w = Slot(r.wptr, a)
  BY <1>2, <1>5, SlotIs
<1>8. w = Slot(r.rptr, o + a)
  <2>1. r.wptr = Slot(r.rptr, o)
    BY <1>2, <1>4
  <2> QED
    <3>1. Slot(Slot(r.rptr, o), a) = Slot(r.rptr, o + a)
      BY <1>2, <1>5, SlotAdd, SizeNat
    <3> QED
      BY <1>7, <2>1, <3>1
<1>9. r2 = [wptr |-> w, rptr |-> r.rptr, pending |-> t, body |-> r.body]
  BY <1>1, <1>3, <1>7 DEF QueueT, Published
<1>10. r2 \in QueueT /\ r2.wptr = w /\ r2.rptr = r.rptr /\ r2.pending = t /\ r2.body = r.body
  BY <1>2, <1>6, <1>9 DEF QueueT
<1>11. ASSUME NEW k \in 1 .. Len(t), NEW i \in 0 .. t[k].n - 1
       PROVE  r.body[Slot(r.rptr, of2[k - 1] + i)] = [m |-> t[k], i |-> i]
  <2>1. CASE k \in 1 .. Len(p)
    <3>1. t[k] = p[k] /\ k - 1 \in 0 .. Len(p)
      BY <1>1, <1>2, <2>1
    <3>2. i \in 0 .. p[k].n - 1 /\ of2[k - 1] = off[k - 1]
      BY <1>6, <3>1
    <3>3. r.body[Slot(r.rptr, off[k - 1] + i)] = [m |-> p[k], i |-> i]
      BY <1>1, <2>1, <3>2, RingIs
    <3> QED
      BY <3>1, <3>2, <3>3
  <2>2. CASE k = Len(p) + 1
    <3>1. t[k] = m /\ k - 1 = Len(p) /\ Len(p) \in 0 .. Len(p)
      BY <1>1, <1>2, <2>2
    <3>2. of2[k - 1] = o /\ i \in 0 .. m.n - 1
      BY <1>4, <1>6, <3>1
    <3>8. m.n \in Nat /\ a \in Nat /\ o \in Nat /\ a >= m.n /\ o + a < RingSize
      BY <1>3, <1>5
    <3>9. ASSUME NEW n \in Nat, NEW j \in 0 .. n - 1, a >= n
          PROVE  j \in Nat /\ j <= RingSize /\ o + j <= RingSize
      BY <3>8, <3>9, SizeNat
    <3>3. i \in Nat /\ i <= RingSize /\ o + i <= RingSize
      BY <3>2, <3>8, <3>9
    <3>6. r.wptr = Slot(r.rptr, o)
      BY <1>2, <1>4
    <3>4. (r.wptr + i) % RingSize = Slot(r.wptr, i) /\ Slot(r.wptr, i) = Slot(r.rptr, o + i)
      <4>1. (r.wptr + i) % RingSize = Slot(r.wptr, i)
        BY <1>2, <3>3, SlotIs
      <4>2. Slot(Slot(r.rptr, o), i) = Slot(r.rptr, o + i)
        BY <1>2, <1>5, <3>3, SlotAdd, SizeNat
      <4> QED
        BY <3>6, <4>1, <4>2
    <3>5. r.body[(r.wptr + i) % RingSize] = [m |-> m, i |-> i]
      BY <3>2 DEF Written
    <3> QED
      BY <3>1, <3>2, <3>4, <3>5
  <2> QED
    BY <1>2, <1>6, <2>1, <2>2
<1>12. Ring(r2)
  <2>1. Len(t) = Len(p) + 1 /\ of2[Len(t)] < RingSize /\ r2.wptr = Slot(r2.rptr, of2[Len(t)])
    BY <1>5, <1>6, <1>8, <1>10
  <2>2. \A k \in 1 .. Len(t) : \A i \in 0 .. t[k].n - 1 :
                   r2.body[Slot(r2.rptr, of2[k - 1] + i)] = [m |-> t[k], i |-> i]
    BY <1>10, <1>11
  <2>3. t = r2.pending /\ of2 = Offsets(t)
    BY <1>1, <1>10
  <2> QED
    BY <1>10, <2>1, <2>2, <2>3, RingIs
<1> QED
  BY <1>1, <1>10, <1>12

-----------------------------------------------------------------------------
(* What a step leaves to the others.                                       *)

\* Descriptors of a message that has not retired stay in their buffer.
Keeps == \A m \in Msg : Kept(m) /\ Live(m) => Kept(m)'

\* The message a thread is about to send will be the youngest of its context.
LEMMA NewLive ==
    ASSUME IInv, NEW c \in Ctxts, th[c].pc # "idle", NEW m, m = th[c].m
    PROVE  /\ m \in Msg /\ m.c = c /\ m.ts = DriverTs(queued[c]) /\ m.ts \in Ts
           /\ m.ts # UINT_MAX /\ Live(m) /\ Age(queued[c]) < Age(m.ts)
           /\ Age(queued[c]) \in Nat /\ Age(m.ts) \in Nat /\ Age(retired[c]) \in Nat
<1>1. m \in Msg /\ m.c = c /\ m.ts = DriverTs(queued[c]) /\ Age(queued[c]) < MaxIssues[c]
  BY DEF IInv, ThreadI, ThreadOK
<1>2. queued[c] \in Ts /\ retired[c] \in Ts
  BY DEF IInv, GpuT
<1>3. queued[c] # UINT_MAX /\ Age(retired[c]) <= Age(queued[c])
  BY DEF IInv, OrderI, ClockOK
<1>4. /\ m.ts \in Ts /\ m.ts # 0 /\ m.ts # UINT_MAX
      /\ Age(queued[c]) < Age(m.ts) /\ Age(m.ts) <= Half
  BY <1>1, <1>2, <1>3, NextAge, Sizes
<1>5. Age(queued[c]) \in Nat /\ Age(m.ts) \in Nat /\ Age(retired[c]) \in Nat
  BY <1>2, <1>4, AgeIs
<1>6. Age(retired[c]) < Age(m.ts)
  BY <1>3, <1>4, <1>5
<1> QED
  BY <1>1, <1>4, <1>5, <1>6 DEF Live

LEMMA OtherThread ==
    ASSUME IInv, NEW d \in Ctxts, th'[d] = th[d], queued'[d] = queued[d],
           dbcq_supported' = dbcq_supported, host' = host,
           dbcq_supported => queue'[d] = queue[d],
           ~dbcq_supported /\ lock = d =>
               lock' = lock /\ busy' = busy /\ queue'[Shared] = queue[Shared],
           Keeps
    PROVE  ThreadOK(d)'
<1>1. ThreadOK(d) /\ dbcq_supported \in BOOLEAN
  BY DEF IInv, ThreadI, LifeT
<1>2. CASE th[d].pc = "idle"
  BY <1>1, <1>2 DEF ThreadOK, Locked, Roomy, Claimed
<1>3. CASE th[d].pc # "idle"
  <2>1. PICK m \in Msg : m = th[d].m /\ Live(m)
    BY <1>3, NewLive
  <2>2. th[d].pc \in Claimed /\ m.batch => Kept(m)'
    BY <1>1, <2>1 DEF ThreadOK, Keeps
  <2>3. (th[d].pc \in Claimed /\ th[d].m.batch => Kept(th[d].m))'
    BY <2>1, <2>2 DEF Kept
  <2>4. CASE dbcq_supported
    BY <1>1, <2>3, <2>4 DEF ThreadOK, QueueOf, Locked, Roomy, Claimed
  <2>5. CASE ~dbcq_supported /\ lock = d
    BY <1>1, <2>3, <2>5 DEF ThreadOK, QueueOf, Locked, Roomy, Claimed
  <2>6. CASE ~dbcq_supported /\ lock # d
    BY <1>1, <2>3, <2>6 DEF ThreadOK, QueueOf, Locked, Roomy, Claimed
  <2> QED
    BY <1>1, <2>4, <2>5, <2>6
<1> QED
  BY <1>2, <1>3

\* Commands in flight.
LEMMA PendingLive ==
    ASSUME IInv, NEW q \in Queues, NEW p, p = queue[q].pending, NEW i \in DOMAIN p
    PROVE  /\ p \in Seq(Msg) /\ p[i] \in Msg /\ Live(p[i]) /\ (p[i].batch => Kept(p[i]))
           /\ Age(p[i].ts) <= Age(queued[p[i].c]) /\ QueueOf(p[i].c) = q
<1>1. queue[q] \in QueueT
  BY DEF IInv, GpuT
<1>2. p \in Seq(Msg)
  BY <1>1, QueueFields
<1>3. p[i] \in Msg
  BY <1>2
<1>4. InFlight(p[i]) /\ QueueOf(p[i].c) = q
  BY DEF IInv, OrderI, PendOK
<1>5. p[i].batch => Kept(p[i])
  BY DEF IInv, KeptI
<1> QED
  BY <1>2, <1>3, <1>4, <1>5 DEF InFlight

LEMMA RunningLive ==
    ASSUME IInv, NEW c \in Ctxts, NEW p, p = running[c], NEW i \in DOMAIN p
    PROVE  /\ p \in Seq(Msg) /\ p[i] \in Msg /\ Live(p[i]) /\ (p[i].batch => Kept(p[i]))
           /\ Age(p[i].ts) <= Age(queued[c]) /\ p[i].c = c
<1>1. p \in Seq(Msg)
  BY DEF IInv, GpuT
<1>2. p[i] \in Msg
  BY <1>1
<1>3. InFlight(p[i]) /\ p[i].c = c
  BY DEF IInv, OrderI, RunOK
<1>4. p[i].batch => Kept(p[i])
  BY DEF IInv, KeptI
<1> QED
  BY <1>1, <1>2, <1>3, <1>4 DEF InFlight

\* Commands of one context are pending in the order of their timestamps.
LEMMA PendOrder ==
    ASSUME NEW q \in Queues, PendOK(q), NEW p, p = queue[q].pending
    PROVE  \A i, j \in DOMAIN p : i < j /\ p[i].c = p[j].c => Age(p[i].ts) < Age(p[j].ts)
  BY DEF PendOK

\* The rings and the order of the commands when a step leaves them alone.
LEMMA DataFrame ==
    ASSUME IInv, dbcq_supported' = dbcq_supported, UNCHANGED <<queue, queued, gpu>>, Keeps
    PROVE  GpuT' /\ RingI' /\ OrderI' /\ KeptI'
<1>1. running' = running /\ retired' = retired /\ queue' = queue /\ queued' = queued
  BY DEF gpu
<1>2. GpuT'
  BY <1>1 DEF IInv, GpuT
<1>3. RingI'
  BY <1>1 DEF IInv, RingI
<1>4. OrderI'
  <2>1. OrderI
    BY DEF IInv
  <2>2. ASSUME NEW d \in Ctxts PROVE (ClockOK(d) /\ RunOK(d))'
    BY <1>1, <2>1 DEF OrderI, ClockOK, RunOK, InFlight, Live
  <2>3. ASSUME NEW q \in Queues PROVE PendOK(q)'
    BY <1>1, <2>1 DEF OrderI, PendOK, InFlight, Live, QueueOf
  <2> QED
    BY <2>2, <2>3 DEF OrderI
<1>5. ASSUME NEW q \in Queues, NEW i \in DOMAIN queue[q].pending, queue[q].pending[i].batch
      PROVE  Kept(queue[q].pending[i])'
  <2>1. PICK m \in Msg : m = queue[q].pending[i] /\ Live(m) /\ Kept(m)
    BY <1>5, PendingLive
  <2>2. Kept(m)'
    BY <2>1 DEF Keeps
  <2> QED
    BY <1>1, <2>1, <2>2 DEF Kept
<1>6. ASSUME NEW c \in Ctxts, NEW i \in DOMAIN running[c], running[c][i].batch
      PROVE  Kept(running[c][i])'
  <2>1. PICK m \in Msg : m = running[c][i] /\ Live(m) /\ Kept(m)
    BY <1>6, RunningLive
  <2>2. Kept(m)'
    BY <2>1 DEF Keeps
  <2> QED
    BY <1>1, <2>1, <2>2 DEF Kept
<1>7. KeptI'
  BY <1>1, <1>5, <1>6 DEF KeptI
<1> QED
  BY <1>2, <1>3, <1>4, <1>7

LEMMA BuffersKeep ==
    ASSUME IInv, dbcq_supported' = dbcq_supported, UNCHANGED buffers
    PROVE  Keeps /\ BufferT'
<1>1. BufferT'
  BY DEF buffers, BufferT, IInv
<1>2. Keeps
  BY DEF buffers, Keeps, Kept
<1> QED
  BY <1>1, <1>2

\* Thread c is at pc with the message m.
At(c, pc, m, gave) ==
    /\ th' \in [Ctxts -> ThreadT]
    /\ th'[c].pc = pc /\ th'[c].m = m /\ th'[c].gave = gave
    /\ \A d \in Ctxts : d # c => th'[d] = th[d]

\* Thread c goes on, and at most takes, gives or uses the lock.
Alone(c) ==
    /\ UNCHANGED <<dbcq_supported, req, host, resets, queue, queued, gpu, dt>>
    /\ lock' \in Ctxts \cup {None} /\ busy' \in BOOLEAN
    /\ lock' = lock \/ lock = c \/ lock = None
    /\ busy' = busy \/ (~dbcq_supported /\ lock = c)

LEMMA ThreadStep ==
    ASSUME IInv, NEW c \in Ctxts, Alone(c), NEW pc, NEW m, NEW g, At(c, pc, m, g),
           LifeT', ModeI', BufferT', Keeps, ThreadOK(c)'
    PROVE  IInv'
<1>1. UNCHANGED <<dbcq_supported, req, host, resets, queue, queued, gpu, dt>>
  BY DEF Alone
<1>2. GpuT' /\ RingI' /\ OrderI' /\ KeptI'
  BY <1>1, DataFrame
<1>3. ASSUME NEW d \in Ctxts, d # c PROVE ThreadOK(d)'
  <2>1. th'[d] = th[d]
    BY <1>3 DEF At
  <2>2. lock = d => lock' = lock /\ busy' = busy
    BY <1>3, Sizes DEF Alone
  <2> QED
    BY <1>1, <2>1, <2>2, OtherThread
<1>4. ThreadI'
  BY <1>3 DEF ThreadI
<1>5. HandT'
  BY <1>1 DEF Alone, IInv, HandT
<1>6. ThT'
  BY <1>1 DEF At, IInv, ThT
<1> QED
  BY <1>2, <1>4, <1>5, <1>6 DEF IInv

\* The usual case: neither the buffers nor the contexts change.
LEMMA PlainStep ==
    ASSUME IInv, NEW c \in Ctxts, Alone(c), NEW pc, NEW m, NEW g, At(c, pc, m, g),
           UNCHANGED <<life, buffers>>, ThreadOK(c)'
    PROVE  IInv'
<1>1. dbcq_supported' = dbcq_supported /\ dbq_ready' = dbq_ready /\ ctxt' = ctxt
  BY DEF life
<1>2. UNCHANGED buffers /\ host' = host /\ req' = req
  BY DEF Alone
<1>3. LifeT'
  BY <1>1 DEF IInv, LifeT
<1>4. ModeI'
  BY <1>1, <1>2 DEF IInv, ModeI
<1>5. BufferT' /\ Keeps
  BY <1>1, <1>2, BuffersKeep
<1> QED
  BY <1>3, <1>4, <1>5, ThreadStep

LEMMA GotoIs ==
    ASSUME IInv, NEW c \in Ctxts, NEW pc \in IssuePc, Goto(c, pc)
    PROVE  At(c, pc, th[c].m, th[c].gave)
  BY DEF IInv, ThT, ThreadT, Goto, At

LEMMA ReturnIs ==
    ASSUME IInv, NEW c \in Ctxts, Return(c)
    PROVE  At(c, "idle", None, FALSE)
  BY DEF IInv, ThT, ThreadT, Return, At, Idle, IssuePc

LEMMA IdleOK ==
    ASSUME NEW c \in Ctxts, NEW m, NEW g, At(c, "idle", m, g)
    PROVE  ThreadOK(c)'
  BY DEF At, ThreadOK, Locked, Roomy, Claimed

-----------------------------------------------------------------------------
(* Steps of the issuing threads that change nothing but the thread and the *)
(* lock.                                                                   *)

\* What is known of a thread inside a call.
LEMMA Inside ==
    ASSUME IInv, NEW c \in Ctxts
    PROVE  /\ ThreadOK(c) /\ dbcq_supported \in BOOLEAN /\ lock \in Ctxts \cup {None}
           /\ req \in BOOLEAN /\ busy \in BOOLEAN /\ (host # "idle" => req)
           /\ (ctxt[c] = "dbq" => ~dbcq_supported)
           /\ (ctxt[c] \in {"dbcq", "open"} => dbcq_supported)
           /\ th[c].gave \in BOOLEAN
  BY DEF IInv, ThreadI, LifeT, HandT, ModeI, ThT, ThreadT

LEMMA Returns ==
    ASSUME IInv, NEW c \in Ctxts, Return(c),
           UNCHANGED <<life, queue, lock, handshake, buffers, queued, gpu, dt>>
    PROVE  IInv'
<1>1. At(c, "idle", None, FALSE)
  BY ReturnIs
<1>2. Alone(c)
  BY Inside DEF Alone, life, handshake
<1> QED
  BY <1>1, <1>2, IdleOK, PlainStep

\* A thread that goes to pc and keeps what it has.
LEMMA Goes ==
    ASSUME IInv, NEW c \in Ctxts, NEW pc \in IssuePc, Goto(c, pc),
           UNCHANGED <<life, queue, req, host, resets, buffers, queued, gpu, dt>>,
           lock' \in Ctxts \cup {None}, busy' \in BOOLEAN,
           lock' = lock \/ lock = c \/ lock = None,
           busy' = busy \/ (~dbcq_supported /\ lock = c),
           ThreadOK(c)'
    PROVE  IInv'
<1>1. At(c, pc, th[c].m, th[c].gave)
  BY GotoIs
<1>2. Alone(c)
  BY DEF Alone, life
<1> QED
  BY <1>1, <1>2, PlainStep

LEMMA IssueOK == ASSUME IInv, NEW c \in Ctxts, NEW n \in MsgSizes, Issue(c, n) PROVE IInv'
<1>1. PICK m : m = Message(c, n)
  OBVIOUS
<1>2. queued[c] \in Ts /\ queued[c] # UINT_MAX /\ Age(queued[c]) < MaxIssues[c]
  BY DEF IInv, GpuT, OrderI, ClockOK, Issue, Age
<1>3. DriverTs(queued[c]) \in Ts
  BY <1>2, NextAge, Sizes
<1>4. PICK k : k = IF IsBatch(n) THEN InfoSize ELSE n
  OBVIOUS
<1>5. k \in 1 .. RingSize
  <2>1. n \in Nat /\ n >= 1 /\ Align(n) \in Nat /\ Align(n) >= n
    BY Sizes, AlignIs
  <2> QED
    BY <1>4, <2>1, Sizes DEF IsBatch
<1>6. IsBatch(n) \in BOOLEAN
  BY DEF IsBatch
<1>7. /\ m = [c |-> c, ts |-> DriverTs(queued[c]), batch |-> IsBatch(n), n |-> k]
  BY <1>1, <1>4 DEF Message
<1>8. m \in Msg /\ m.c = c /\ m.ts = DriverTs(queued[c]) /\ m.batch = IsBatch(n)
  BY <1>3, <1>5, <1>6, <1>7 DEF Msg
<1>9. PICK pc : pc = IF ctxt[c] = "dbcq" THEN "open"
                     ELSE IF IsBatch(n) THEN "claim"
                     ELSE IF ctxt[c] = "dbq" THEN "lock" ELSE "room"
  OBVIOUS
<1>10. pc \in IssuePc
  BY <1>9 DEF IssuePc
<1>11. /\ th' = [th EXCEPT ![c].m = m, ![c].pc = pc]
       /\ UNCHANGED <<life, queue, lock, handshake, buffers, queued, gpu, dt>>
       /\ ctxt[c] \in {"dbq", "dbcq", "open"}
  BY <1>1, <1>9 DEF Issue
<1>12. At(c, pc, m, th[c].gave)
  BY <1>8, <1>10, <1>11, ZenonT(60) DEF IInv, ThT, ThreadT, At
<1>13. Alone(c)
  BY <1>11, Inside DEF Alone, life, handshake
<1>14. th[c].pc = "idle"
  BY DEF Issue
<1>15. ThreadOK(c)'
  <2>1. dbcq_supported' = dbcq_supported /\ queued' = queued /\ busy' = busy /\ host' = host
    BY <1>11 DEF life, handshake
  <2>2. /\ pc = "open" => dbcq_supported
        /\ pc = "lock" => ~dbcq_supported
        /\ pc = "room" => dbcq_supported
        /\ pc \in Claimed => ~IsBatch(n)
        /\ pc \in {"open", "claim", "lock", "room"}
    BY <1>9, <1>11, Inside DEF Claimed
  <2> QED
    BY <1>2, <1>8, <1>12, <2>1, <2>2 DEF At, ThreadOK, Locked, Roomy, Claimed
<1> QED
  BY <1>11, <1>12, <1>13, <1>15, PlainStep

LEMMA OpenOK == ASSUME IInv, NEW c \in Ctxts, hgsl_dbcq_open(c) PROVE IInv'
<1>1. PICK pc \in IssuePc : pc = (IF th[c].m.batch THEN "claim" ELSE "room") /\ Goto(c, pc)
  BY DEF hgsl_dbcq_open, IssuePc
<1>2. At(c, pc, th[c].m, th[c].gave)
  BY <1>1, GotoIs
<1>3. /\ UNCHANGED <<dbcq_supported, dbq_ready, queue, lock, handshake, buffers, queued, gpu, dt>>
      /\ ctxt' = [ctxt EXCEPT ![c] = IF @ = "dbcq" THEN "open" ELSE @] /\ th[c].pc = "open"
  BY DEF hgsl_dbcq_open
<1>4. Alone(c) /\ req' = req /\ host' = host
  BY <1>3, Inside DEF Alone, handshake
<1>5. LifeT' /\ ModeI'
  BY <1>3, <1>4 DEF IInv, LifeT, ModeI, CtxtSt
<1>6. BufferT' /\ Keeps
  BY <1>3, BuffersKeep
<1>7. ThreadOK(c)'
  BY <1>1, <1>2, <1>3, Inside DEF At, ThreadOK, Locked, Roomy, Claimed
<1> QED
  BY <1>2, <1>4, <1>5, <1>6, <1>7, ThreadStep

LEMMA OpenFailsOK ==
    ASSUME IInv, NEW c \in Ctxts, NEW intr \in BOOLEAN, hgsl_dbcq_open_fails(c, intr) PROVE IInv'
<1>1. At(c, "idle", None, FALSE)
  BY ReturnIs DEF hgsl_dbcq_open_fails
<1>2. /\ UNCHANGED <<dbcq_supported, dbq_ready, queue, lock, handshake, buffers, queued, gpu, dt>>
      /\ ctxt' = [ctxt EXCEPT ![c] = IF intr \/ @ # "dbcq" THEN @ ELSE "remote"]
  BY DEF hgsl_dbcq_open_fails
<1>3. Alone(c) /\ req' = req /\ host' = host
  BY <1>2, Inside DEF Alone, handshake
<1>4. LifeT' /\ ModeI'
  BY <1>2, <1>3 DEF IInv, LifeT, ModeI, CtxtSt
<1>5. BufferT' /\ Keeps
  BY <1>2, BuffersKeep
<1> QED
  BY <1>1, <1>3, <1>4, <1>5, IdleOK, ThreadStep

LEMMA ClaimWaitOK == ASSUME IInv, NEW c \in Ctxts, ClaimWait(c) PROVE IInv'
<1>1. /\ th' = [th EXCEPT ![c].pc = "wait", ![c].owner = ibdesc.c]
      /\ UNCHANGED <<life, queue, lock, handshake, buffers, queued, gpu, dt>>
      /\ th[c].pc = "claim" /\ ~dbcq_supported
  BY DEF ClaimWait
<1>2. ibdesc.c \in Ctxts \cup {None}
  BY DEF IInv, BufferT, IbdescT
<1>3. At(c, "wait", th[c].m, th[c].gave)
  BY <1>1, <1>2, ZenonT(60) DEF IInv, ThT, ThreadT, At, IssuePc
<1>4. Alone(c)
  BY <1>1, Inside DEF Alone, life, handshake
<1>5. ThreadOK(c)'
  BY <1>1, <1>3, Inside DEF At, life, ThreadOK, Locked, Roomy, Claimed
<1> QED
  BY <1>1, <1>3, <1>4, <1>5, PlainStep

LEMMA SendLockOK == ASSUME IInv, NEW c \in Ctxts, SendLock(c) PROVE IInv'
<1>1. PICK pc \in IssuePc : pc = (IF req THEN "req" ELSE "busy") /\ Goto(c, pc)
  BY DEF SendLock, IssuePc
<1>2. /\ UNCHANGED <<life, queue, handshake, buffers, queued, gpu, dt>>
      /\ th[c].pc = "lock" /\ lock = None /\ lock' = c
  BY DEF SendLock
<1>3. UNCHANGED <<req, busy, host, resets, dbcq_supported, indirect, ibdesc, misfreed, forgotten>>
  BY <1>2 DEF life, handshake, buffers
<1>4. ThreadOK(c)'
  BY <1>1, <1>2, <1>3, Inside, GotoIs DEF At, ThreadOK, Kept, Locked, Roomy, Claimed
<1> QED
  BY <1>1, <1>2, <1>3, <1>4, Inside, Goes

LEMMA SendReqOK == ASSUME IInv, NEW c \in Ctxts, SendReq(c) PROVE IInv'
<1>1. "busy" \in IssuePc /\ Goto(c, "busy")
  BY DEF SendReq, IssuePc
<1>2. /\ UNCHANGED <<life, queue, lock, handshake, buffers, queued, gpu, dt>>
      /\ th[c].pc = "req"
  BY DEF SendReq
<1>3. UNCHANGED <<req, busy, host, resets, dbcq_supported, indirect, ibdesc, misfreed, forgotten>>
  BY <1>2 DEF life, handshake, buffers
<1>4. ThreadOK(c)'
  BY <1>1, <1>2, <1>3, Inside, GotoIs DEF At, ThreadOK, Kept, Locked, Roomy, Claimed
<1> QED
  BY <1>1, <1>2, <1>3, <1>4, Inside, Goes

LEMMA SendBusyOK == ASSUME IInv, NEW c \in Ctxts, SendBusy(c) PROVE IInv'
<1>1. "room" \in IssuePc /\ Goto(c, "room")
  BY DEF SendBusy, IssuePc
<1>2. /\ UNCHANGED <<life, queue, lock, req, host, resets, buffers, queued, gpu, dt>>
      /\ th[c].pc = "busy" /\ busy' = TRUE
  BY DEF SendBusy
<1>3. UNCHANGED <<dbcq_supported, indirect, ibdesc, misfreed, forgotten>>
  BY <1>2 DEF life, buffers
<1>4. ThreadOK(c)'
  BY <1>1, <1>2, <1>3, Inside, GotoIs DEF At, ThreadOK, Kept, Locked, Roomy, Claimed
<1>5. ~dbcq_supported /\ lock = c
  BY <1>2, Inside DEF ThreadOK, Locked
<1> QED
  BY <1>1, <1>2, <1>4, <1>5, Inside, Goes

LEMMA GiveWayOK == ASSUME IInv, NEW c \in Ctxts, GiveWay(c) PROVE IInv'
<1>1. /\ th' = [th EXCEPT ![c].gave = TRUE]
      /\ UNCHANGED <<life, queue, lock, req, host, resets, buffers, queued, gpu, dt>>
      /\ th[c].pc = "room" /\ ~dbcq_supported /\ busy' = FALSE
  BY DEF GiveWay
<1>2. At(c, "room", th[c].m, TRUE)
  BY <1>1 DEF IInv, ThT, ThreadT, At
<1>3. lock = c
  BY <1>1, Inside DEF ThreadOK, Locked
<1>4. Alone(c)
  BY <1>1, <1>3, Inside DEF Alone, life
<1>5. UNCHANGED <<dbcq_supported, indirect, ibdesc, misfreed, forgotten>>
  BY <1>1 DEF life, buffers
<1>6. ThreadOK(c)'
  BY <1>1, <1>2, <1>3, <1>5, Inside DEF At, ThreadOK, Kept, Locked, Roomy, Claimed
<1> QED
  BY <1>1, <1>2, <1>4, <1>6, PlainStep

LEMMA RoomOK == ASSUME IInv, NEW c \in Ctxts, Room(c) PROVE IInv'
<1>1. "grant" \in IssuePc /\ Goto(c, "grant")
  BY DEF Room, IssuePc
<1>2. /\ UNCHANGED <<life, queue, lock, handshake, buffers, queued, gpu, dt>>
      /\ th[c].pc = "room" /\ ~dbcq_supported /\ ~req
  BY DEF Room
<1>3. UNCHANGED <<req, busy, host, resets, dbcq_supported, indirect, ibdesc, misfreed, forgotten>>
  BY <1>2 DEF life, handshake, buffers
<1>4. Fits(queue[Shared], th[c].m)
  BY DEF Room, FreeDwords, Fits, Used
<1>5. ThreadOK(c)'
  BY <1>1, <1>2, <1>3, <1>4, Inside, GotoIs DEF At, ThreadOK, Kept, QueueOf, Locked, Roomy, Claimed
<1> QED
  BY <1>1, <1>2, <1>3, <1>5, Inside, Goes

LEMMA GrantedOK == ASSUME IInv, NEW c \in Ctxts, Granted(c) PROVE IInv'
<1>1. "copy" \in IssuePc /\ Goto(c, "copy")
  BY DEF Granted, IssuePc
<1>2. /\ UNCHANGED <<life, queue, lock, req, host, resets, buffers, queued, gpu, dt>>
      /\ th[c].pc = "grant" /\ busy' = TRUE
  BY DEF Granted
<1>3. UNCHANGED <<dbcq_supported, indirect, ibdesc, misfreed, forgotten>>
  BY <1>2 DEF life, buffers
<1>4. ThreadOK(c)'
  BY <1>1, <1>2, <1>3, Inside, GotoIs DEF At, ThreadOK, Kept, QueueOf, Locked, Roomy, Claimed
<1>5. ~dbcq_supported /\ lock = c
  BY <1>2, Inside DEF ThreadOK, Locked
<1> QED
  BY <1>1, <1>2, <1>4, <1>5, Inside, Goes

LEMMA ContextRoomOK == ASSUME IInv, NEW c \in Ctxts, ContextRoom(c) PROVE IInv'
<1>1. "copy" \in IssuePc /\ Goto(c, "copy")
  BY DEF ContextRoom, IssuePc
<1>2. /\ UNCHANGED <<life, queue, lock, handshake, buffers, queued, gpu, dt>>
      /\ th[c].pc = "room" /\ dbcq_supported
  BY DEF ContextRoom
<1>3. UNCHANGED <<req, busy, host, resets, dbcq_supported, indirect, ibdesc, misfreed, forgotten>>
  BY <1>2 DEF life, handshake, buffers
<1>4. Fits(queue[c], th[c].m)
  BY DEF ContextRoom, FreeDwords, Fits, Used
<1>5. ThreadOK(c)'
  BY <1>1, <1>2, <1>3, <1>4, Inside, GotoIs DEF At, ThreadOK, Kept, QueueOf, Locked, Roomy, Claimed
<1> QED
  BY <1>1, <1>2, <1>3, <1>5, Inside, Goes

LEMMA SendGivesUpOK == ASSUME IInv, NEW c \in Ctxts, SendGivesUp(c) PROVE IInv'
<1>1. /\ UNCHANGED <<life, queue, lock, handshake, buffers, queued, gpu, dt>>
      /\ th[c].pc \in {"req", "room"}
  BY DEF SendGivesUp
<1>2. CASE dbcq_supported
  <2>1. Return(c)
    BY <1>2 DEF SendGivesUp
  <2> QED
    BY <1>1, <2>1, Returns
<1>3. CASE ~dbcq_supported
  <2>1. "quit" \in IssuePc /\ Goto(c, "quit")
    BY <1>3 DEF SendGivesUp, IssuePc
  <2>2. UNCHANGED <<req, busy, host, resets, dbcq_supported>>
    BY <1>1 DEF life, handshake
  <2>3. ThreadOK(c)'
    BY <1>1, <1>3, <2>1, <2>2, Inside, GotoIs DEF At, ThreadOK, Locked, Roomy, Claimed
  <2> QED
    BY <1>1, <2>1, <2>2, <2>3, Inside, Goes
<1> QED
  BY <1>2, <1>3

LEMMA SendQuitOK == ASSUME IInv, NEW c \in Ctxts, SendQuit(c) PROVE IInv'
<1>1. /\ UNCHANGED <<life, req, host, resets, buffers, gpu, dt, queue, queued>>
      /\ busy' = FALSE /\ lock' = None /\ Return(c) /\ th[c].pc = "quit"
  BY DEF SendQuit, SendEnd
<1>2. At(c, "idle", None, FALSE)
  BY <1>1, ReturnIs
<1>3. ~dbcq_supported /\ lock = c
  BY <1>1, Inside DEF ThreadOK, Locked
<1>4. Alone(c)
  BY <1>1, <1>3, Inside DEF Alone, life
<1> QED
  BY <1>1, <1>2, <1>4, IdleOK, PlainStep

-----------------------------------------------------------------------------
(* The descriptor buffers.                                                 *)

LEMMA LiveUnretired ==
    ASSUME IInv, NEW m \in Msg, Live(m)
    PROVE  ~hgsl_check_shadow_timestamp(m.c, m.ts) /\ m.ts # 0 /\ m.c \in Ctxts
<1>1. m.c \in Ctxts /\ m.ts \in Ts
  BY MsgFields
<1>2. retired[m.c] \in Ts
  BY <1>1 DEF IInv, GpuT
<1> QED
  BY <1>1, <1>2, NotRetired DEF Live, hgsl_check_shadow_timestamp

LEMMA OwnType ==
    ASSUME NEW m \in Msg, Own(m)
    PROVE  ibdesc' \in IbdescT /\ ibdesc' = [inuse |-> TRUE, c |-> m.c, ts |-> m.ts, data |-> m]
  BY MsgFields DEF Own, IbdescT

LEMMA ClaimFreeOK == ASSUME IInv, NEW c \in Ctxts, ClaimFree(c) PROVE IInv'
<1>1. /\ UNCHANGED <<life, queue, lock, handshake, indirect, misfreed, forgotten, queued, gpu, dt>>
      /\ th[c].pc = "claim" /\ ~dbcq_supported
      /\ ibdesc.inuse => hgsl_check_shadow_timestamp(ibdesc.c, ibdesc.ts)
      /\ "lock" \in IssuePc /\ Goto(c, "lock")
  BY DEF ClaimFree, IssuePc
<1>2. PICK m \in Msg : m = th[c].m /\ Own(m)
  BY <1>1, NewLive DEF ClaimFree
<1>3. ibdesc' \in IbdescT /\ ibdesc' = [inuse |-> TRUE, c |-> m.c, ts |-> m.ts, data |-> m]
  BY <1>2, OwnType
<1>4. At(c, "lock", m, th[c].gave)
  BY <1>1, <1>2, GotoIs
<1>5. Alone(c)
  BY <1>1, Inside DEF Alone, life, handshake
<1>6. /\ UNCHANGED <<dbcq_supported, dbq_ready, ctxt, req, host, busy, queued>>
  BY <1>1 DEF life, handshake
<1>7. LifeT' /\ ModeI'
  BY <1>6 DEF IInv, LifeT, ModeI
<1>8. BufferT'
  BY <1>1, <1>3 DEF IInv, BufferT
<1>9. Keeps
  <2>1. ASSUME NEW k \in Msg, Kept(k), Live(k) PROVE Kept(k)'
    <3>1. CASE misfreed
      BY <1>1, <1>6, <3>1 DEF Kept
    <3>2. CASE ~misfreed
      <4>1. ibdesc = [inuse |-> TRUE, c |-> k.c, ts |-> k.ts, data |-> k]
        BY <1>1, <2>1, <3>2 DEF Kept
      <4>2. hgsl_check_shadow_timestamp(k.c, k.ts)
        BY <1>1, <4>1
      <4> QED
        BY <2>1, <4>2, LiveUnretired
    <3> QED
      BY <3>1, <3>2
  <2> QED
    BY <2>1 DEF Keeps
<1>10. ThreadOK(c)'
  <2>1. Kept(m)'
    BY <1>1, <1>3, <1>6 DEF Kept
  <2>2. (th[c].pc \in Claimed /\ th[c].m.batch => Kept(th[c].m))'
    BY <1>4, <2>1 DEF Kept, At
  <2> QED
    BY <1>1, <1>2, <1>4, <1>6, <2>2, Inside DEF At, ThreadOK, Locked, Roomy
<1> QED
  BY <1>4, <1>5, <1>7, <1>8, <1>9, <1>10, ThreadStep

LEMMA ClaimAgainOK == ASSUME IInv, NEW c \in Ctxts, ClaimAgain(c) PROVE IInv'
<1>1. /\ UNCHANGED <<life, queue, lock, handshake, indirect, forgotten, queued, gpu, dt>>
      /\ th[c].pc = "wait" /\ misfreed' = (misfreed \/ TakenAway)
      /\ th' = [th EXCEPT ![c].pc = "lock", ![c].owner = None]
  BY DEF ClaimAgain
<1>2. PICK m \in Msg : m = th[c].m /\ Own(m)
  BY <1>1, NewLive DEF ClaimAgain
<1>3. ibdesc' \in IbdescT /\ ibdesc' = [inuse |-> TRUE, c |-> m.c, ts |-> m.ts, data |-> m]
  BY <1>2, OwnType
<1>4. At(c, "lock", m, th[c].gave)
  BY <1>1, <1>2, ZenonT(60) DEF IInv, ThT, ThreadT, At, IssuePc
<1>5. Alone(c) /\ ~dbcq_supported
  BY <1>1, Inside DEF Alone, life, handshake, ThreadOK
<1>6. /\ UNCHANGED <<dbcq_supported, dbq_ready, ctxt, req, host, busy, queued>>
  BY <1>1 DEF life, handshake
<1>7. LifeT' /\ ModeI'
  BY <1>6 DEF IInv, LifeT, ModeI
<1>8. BufferT'
  <2>1. misfreed \in BOOLEAN /\ TakenAway \in BOOLEAN
    BY DEF IInv, BufferT, TakenAway
  <2>2. misfreed' \in BOOLEAN
    BY <1>1, <2>1
  <2> QED
    BY <1>1, <1>3, <2>2 DEF IInv, BufferT
<1>9. Keeps
  <2>1. ASSUME NEW k \in Msg, Kept(k), Live(k) PROVE Kept(k)'
    <3>1. misfreed \/ TakenAway
      <4>1. CASE ~misfreed
        <5>1. ibdesc = [inuse |-> TRUE, c |-> k.c, ts |-> k.ts, data |-> k]
          BY <1>5, <2>1, <4>1 DEF Kept
        <5> QED
          BY <2>1, <5>1, LiveUnretired DEF TakenAway
      <4> QED
        BY <4>1
    <3> QED
      BY <1>1, <1>5, <1>6, <3>1 DEF Kept
  <2> QED
    BY <2>1 DEF Keeps
<1>10. ThreadOK(c)'
  <2>1. Kept(m)'
    BY <1>3, <1>5, <1>6 DEF Kept
  <2>2. (th[c].pc \in Claimed /\ th[c].m.batch => Kept(th[c].m))'
    BY <1>4, <2>1 DEF Kept, At
  <2> QED
    BY <1>1, <1>2, <1>4, <1>5, <1>6, <2>2, Inside DEF At, ThreadOK, Locked, Roomy
<1> QED
  BY <1>4, <1>5, <1>7, <1>8, <1>9, <1>10, ThreadStep

LEMMA IndirectClaimOK == ASSUME IInv, NEW c \in Ctxts, IndirectClaim(c) PROVE IInv'
<1>1. /\ UNCHANGED <<life, queue, lock, handshake, ibdesc, misfreed, queued, gpu, dt>>
      /\ th[c].pc = "claim" /\ dbcq_supported
      /\ forgotten' = IF IndirectFree(c) THEN forgotten ELSE forgotten \cup {c}
      /\ "room" \in IssuePc /\ Goto(c, "room")
  BY DEF IndirectClaim, IssuePc
<1>2. PICK m \in Msg : m = th[c].m /\ m.c = c /\ m.ts \in Ts
  BY <1>1, NewLive
<1>3. indirect' = [indirect EXCEPT ![c] = [ts |-> m.ts, data |-> m]]
  BY <1>2 DEF IndirectClaim
<1>4. At(c, "room", m, th[c].gave)
  BY <1>1, <1>2, GotoIs
<1>5. Alone(c)
  BY <1>1, Inside DEF Alone, life, handshake
<1>6. /\ UNCHANGED <<dbcq_supported, dbq_ready, ctxt, req, host, busy, queued>>
  BY <1>1 DEF life, handshake
<1>7. LifeT' /\ ModeI'
  BY <1>6 DEF IInv, LifeT, ModeI
<1>8. BufferT'
  <2>1. [ts |-> m.ts, data |-> m] \in IndirectT
    BY <1>2 DEF IndirectT
  <2>2. indirect' \in [Ctxts -> IndirectT]
    BY <1>3, <2>1 DEF IInv, BufferT
  <2>3. forgotten' \in SUBSET Ctxts
    BY <1>1 DEF IInv, BufferT
  <2> QED
    BY <1>1, <2>2, <2>3 DEF IInv, BufferT
<1>11. indirect'[c] = [ts |-> m.ts, data |-> m] /\ \A d \in Ctxts : d # c => indirect'[d] = indirect[d]
  BY <1>3 DEF IInv, BufferT
<1>9. Keeps
  <2>1. ASSUME NEW k \in Msg, Kept(k), Live(k) PROVE Kept(k)'
    <3>1. k.c \in Ctxts /\ k.ts # 0 /\ ~hgsl_check_shadow_timestamp(k.c, k.ts)
      BY <2>1, LiveUnretired
    <3>2. CASE k.c \in forgotten
      BY <1>1, <1>6, <3>2 DEF Kept
    <3>3. CASE k.c \notin forgotten
      <4>1. indirect[k.c] = [ts |-> k.ts, data |-> k]
        BY <1>1, <2>1, <3>3 DEF Kept
      <4>2. CASE k.c = c
        <5>1. ~IndirectFree(c)
          BY <3>1, <4>1, <4>2 DEF IndirectFree
        <5> QED
          BY <1>1, <1>6, <4>2, <5>1 DEF Kept
      <4>3. CASE k.c # c
        BY <1>1, <1>6, <1>11, <3>1, <4>1, <4>3 DEF Kept
      <4> QED
        BY <4>2, <4>3
    <3> QED
      BY <3>2, <3>3
  <2> QED
    BY <2>1 DEF Keeps
<1>10. ThreadOK(c)'
  <2>1. Kept(m)'
    BY <1>1, <1>2, <1>6, <1>11 DEF Kept
  <2>2. (th[c].pc \in Claimed /\ th[c].m.batch => Kept(th[c].m))'
    BY <1>4, <2>1 DEF Kept, At
  <2> QED
    BY <1>1, <1>2, <1>4, <1>6, <2>2, Inside DEF At, ThreadOK, Locked, Roomy
<1> QED
  BY <1>4, <1>5, <1>7, <1>8, <1>9, <1>10, ThreadStep

-----------------------------------------------------------------------------
(* The destroying threads, the host and the creation of contexts: no       *)
(* issuing thread moves.                                                   *)

LEMMA QuietStep ==
    ASSUME IInv, UNCHANGED <<dbcq_supported, queue, lock, handshake, queued, gpu, th>>,
           ctxt' \in [Ctxts -> CtxtSt], dbq_ready' \in BOOLEAN, dt' \in [Ctxts -> DestroyT],
           ModeI', BufferT', Keeps
    PROVE  IInv'
<1>1. UNCHANGED <<req, busy, host, resets>>
  BY DEF handshake
<1>2. GpuT' /\ RingI' /\ OrderI' /\ KeptI'
  BY DataFrame
<1>3. ASSUME NEW d \in Ctxts PROVE ThreadOK(d)'
  BY <1>1, OtherThread
<1>4. ThreadI'
  BY <1>3 DEF ThreadI
<1>5. LifeT' /\ ThT'
  BY DEF IInv, LifeT, ThT
<1>6. HandT'
  BY <1>1 DEF IInv, HandT
<1> QED
  BY <1>2, <1>4, <1>5, <1>6 DEF IInv

LEMMA CreateOK == ASSUME IInv, NEW c \in Ctxts, Create(c) PROVE IInv'
<1>1. PICK ok \in BOOLEAN : hgsl_dbcq_init(c, ok) \/ hgsl_dbq_init(c, ok)
  BY DEF Create
<1>2. CASE hgsl_dbcq_init(c, ok)
  <2>1. /\ dbcq_supported /\ ctxt' = [ctxt EXCEPT ![c] = IF ok THEN "dbcq" ELSE "remote"]
        /\ UNCHANGED <<dbcq_supported, dbq_ready, queue, lock, handshake, buffers, queued, gpu, th, dt>>
    BY <1>2 DEF hgsl_dbcq_init
  <2>2. ctxt' \in [Ctxts -> CtxtSt] /\ dbq_ready' \in BOOLEAN /\ dt' \in [Ctxts -> DestroyT]
    BY <2>1 DEF IInv, LifeT, ThT, CtxtSt
  <2>3. ModeI'
    BY <2>1 DEF IInv, LifeT, ModeI, handshake
  <2> QED
    BY <2>1, <2>2, <2>3, BuffersKeep, QuietStep
<1>3. CASE hgsl_dbq_init(c, ok)
  <2>1. /\ ~dbcq_supported /\ ctxt' = [ctxt EXCEPT ![c] = IF dbq_ready' THEN "dbq" ELSE "remote"]
        /\ dbq_ready' = (dbq_ready \/ ok)
        /\ UNCHANGED <<dbcq_supported, queue, lock, handshake, buffers, queued, gpu, th, dt>>
    BY <1>3 DEF hgsl_dbq_init
  <2>2. ctxt' \in [Ctxts -> CtxtSt] /\ dt' \in [Ctxts -> DestroyT]
    BY <2>1 DEF IInv, LifeT, ThT, CtxtSt
  <2>3. ModeI'
    BY <2>1 DEF IInv, LifeT, ModeI, handshake
  <2>4. dbq_ready \in BOOLEAN
    BY DEF IInv, LifeT
  <2>5. dbq_ready' \in BOOLEAN
    BY <2>1, <2>4
  <2> QED
    BY <2>1, <2>2, <2>3, <2>5, BuffersKeep, QuietStep
<1> QED
  BY <1>1, <1>2, <1>3

\* Giving the buffer up when its owner, if not retired, is noted.
LEMMA GiveUpKeeps ==
    ASSUME IInv, dbcq_supported' = dbcq_supported, UNCHANGED <<indirect, forgotten>>,
           misfreed' = (misfreed \/ TakenAway)
    PROVE  Keeps
<1>1. ASSUME NEW k \in Msg, Kept(k), Live(k) PROVE Kept(k)'
  <2>1. CASE dbcq_supported
    BY <1>1, <2>1 DEF Kept
  <2>2. CASE ~dbcq_supported
    <3>1. misfreed \/ TakenAway
      <4>1. CASE ~misfreed
        <5>1. ibdesc = [inuse |-> TRUE, c |-> k.c, ts |-> k.ts, data |-> k]
          BY <1>1, <2>2, <4>1 DEF Kept
        <5> QED
          BY <1>1, <5>1, LiveUnretired DEF TakenAway
      <4> QED
        BY <4>1
    <3> QED
      BY <2>2, <3>1 DEF Kept
  <2> QED
    BY <2>1, <2>2
<1> QED
  BY <1>1 DEF Keeps

LEMMA RemoveIs ==
    ASSUME IInv, NEW c \in Ctxts, RemoveContext(c), UNCHANGED <<dbcq_supported, handshake>>
    PROVE  ctxt' \in [Ctxts -> CtxtSt] /\ dt' \in [Ctxts -> DestroyT] /\ ModeI'
  BY DEF IInv, LifeT, ThT, ModeI, RemoveContext, CtxtSt, DestroyT, handshake

LEMMA DestroyFreeOK == ASSUME IInv, NEW c \in Ctxts, DestroyFree(c) PROVE IInv'
<1>1. /\ Holds(c) => hgsl_check_shadow_timestamp(c, ibdesc.ts)
      /\ ibdesc' = IF Holds(c) THEN [ibdesc EXCEPT !.inuse = FALSE] ELSE ibdesc
      /\ RemoveContext(c)
      /\ UNCHANGED <<dbcq_supported, dbq_ready, queue, lock, handshake, indirect, misfreed, forgotten, queued, gpu, th>>
  BY DEF DestroyFree
<1>2. ctxt' \in [Ctxts -> CtxtSt] /\ dt' \in [Ctxts -> DestroyT] /\ ModeI' /\ dbq_ready' \in BOOLEAN
  BY <1>1, RemoveIs DEF IInv, LifeT
<1>3. BufferT'
  BY <1>1 DEF IInv, BufferT, IbdescT
<1>4. Keeps
  <2>1. ASSUME NEW k \in Msg, Kept(k), Live(k) PROVE Kept(k)'
    <3>1. CASE dbcq_supported \/ misfreed
      BY <1>1, <2>1, <3>1 DEF Kept
    <3>2. CASE ~dbcq_supported /\ ~misfreed
      <4>1. ibdesc = [inuse |-> TRUE, c |-> k.c, ts |-> k.ts, data |-> k]
        BY <2>1, <3>2 DEF Kept
      <4>2. ~Holds(c)
        BY <1>1, <2>1, <4>1, LiveUnretired DEF Holds
      <4> QED
        BY <1>1, <3>2, <4>1, <4>2 DEF Kept
    <3> QED
      BY <3>1, <3>2
  <2> QED
    BY <2>1 DEF Keeps
<1> QED
  BY <1>1, <1>2, <1>3, <1>4, QuietStep

LEMMA DestroyWaitOK ==
    ASSUME IInv, NEW c \in Ctxts, NEW retry \in BOOLEAN, DestroyWait(c, retry) PROVE IInv'
<1>1. /\ dt' = [dt EXCEPT ![c] = [pc |-> "wait", retry |-> retry]]
      /\ UNCHANGED <<life, queue, lock, handshake, buffers, queued, gpu, th>>
  BY DEF DestroyWait
<1>2. UNCHANGED <<dbcq_supported, dbq_ready, ctxt>>
  BY <1>1 DEF life
<1>3. ctxt' \in [Ctxts -> CtxtSt] /\ dt' \in [Ctxts -> DestroyT] /\ dbq_ready' \in BOOLEAN
  BY <1>1, <1>2 DEF IInv, LifeT, ThT, DestroyT
<1>4. ModeI'
  BY <1>1, <1>2 DEF IInv, ModeI, handshake
<1> QED
  BY <1>1, <1>2, <1>3, <1>4, BuffersKeep, QuietStep

LEMMA GivenUp ==
    ASSUME IInv, NEW c \in Ctxts, misfreed' = (misfreed \/ TakenAway),
           ibdesc' = [ibdesc EXCEPT !.inuse = FALSE], RemoveContext(c),
           UNCHANGED <<dbcq_supported, dbq_ready, queue, lock, handshake, indirect, forgotten, queued, gpu, th>>
    PROVE  IInv'
<1>1. ctxt' \in [Ctxts -> CtxtSt] /\ dt' \in [Ctxts -> DestroyT] /\ ModeI' /\ dbq_ready' \in BOOLEAN
  BY RemoveIs DEF IInv, LifeT
<1>2. misfreed \in BOOLEAN /\ TakenAway \in BOOLEAN
  BY DEF IInv, BufferT, TakenAway
<1>3. misfreed' \in BOOLEAN
  BY <1>2
<1>4. BufferT'
  BY <1>3 DEF IInv, BufferT, IbdescT
<1> QED
  BY <1>1, <1>4, GiveUpKeeps, QuietStep

LEMMA DestroyAgainOK == ASSUME IInv, NEW c \in Ctxts, DestroyAgain(c) PROVE IInv'
  BY GivenUp DEF DestroyAgain

LEMMA DestroyGivesUpOK == ASSUME IInv, NEW c \in Ctxts, DestroyGivesUp(c) PROVE IInv'
<1>1. UNCHANGED <<dbcq_supported, dbq_ready, queue, lock, handshake, indirect, forgotten, queued, gpu, th>>
  BY DEF DestroyGivesUp
<1>2. CASE dt[c].retry
  <2>1. dt' = [dt EXCEPT ![c] = NoDestroy] /\ UNCHANGED <<ibdesc, misfreed, ctxt>>
    BY <1>2 DEF DestroyGivesUp
  <2>2. ctxt' \in [Ctxts -> CtxtSt] /\ dt' \in [Ctxts -> DestroyT] /\ dbq_ready' \in BOOLEAN
    BY <1>1, <2>1 DEF IInv, LifeT, ThT, DestroyT, NoDestroy
  <2>3. ModeI'
    BY <1>1, <2>1 DEF IInv, ModeI, handshake
  <2>4. BufferT' /\ Keeps
    BY <1>1, <2>1, BuffersKeep DEF buffers
  <2> QED
    BY <1>1, <2>2, <2>3, <2>4, QuietStep
<1>3. CASE ~dt[c].retry
  <2>1. misfreed' = (misfreed \/ TakenAway) /\ ibdesc' = [ibdesc EXCEPT !.inuse = FALSE] /\ RemoveContext(c)
    BY <1>3 DEF DestroyGivesUp
  <2> QED
    BY <1>1, <2>1, GivenUp
<1> QED
  BY <1>2, <1>3

\* The host: the guest is not busy when the reset begins, so that a sender
\* that has seen no request has room only if it gave way before.
LEMMA HostOK == ASSUME IInv, HostAsk \/ Host PROVE IInv'
<1>1. UNCHANGED <<life, queue, lock, busy, buffers, queued, gpu, th, dt>>
  BY DEF HostAsk, Host, HostReset, HostDone
<1>2. UNCHANGED <<dbcq_supported, dbq_ready, ctxt>>
  BY <1>1 DEF life
<1>3. LifeT' /\ ThT'
  BY <1>1, <1>2 DEF IInv, LifeT, ThT
<1>4. HandT'
  <2>1. HandT /\ resets \in Nat
    BY Sizes DEF IInv, HandT
  <2>2. CASE HostAsk
    <3>1. resets' = resets + 1 /\ resets < MaxResets /\ host' = "asked" /\ req' = TRUE
      BY <2>2 DEF HostAsk
    <3>2. resets' \in 0 .. MaxResets
      BY <2>1, <3>1, Sizes
    <3> QED
      BY <1>1, <2>1, <3>1, <3>2 DEF HandT
  <2>3. CASE Host
    BY <1>1, <2>1, <2>3 DEF HandT, Host, HostReset, HostDone
  <2> QED
    BY <2>2, <2>3
<1>5. ModeI'
  BY <1>2 DEF IInv, HandT, ModeI, HostAsk, Host, HostReset, HostDone
<1>6. BufferT' /\ Keeps
  BY <1>1, <1>2, BuffersKeep
<1>7. GpuT' /\ RingI' /\ OrderI' /\ KeptI'
  BY <1>1, <1>2, <1>6, DataFrame
<1>8. host' = "reset" => ~busy
  BY DEF HostAsk, Host, HostReset, HostDone
<1>9. ASSUME NEW d \in Ctxts PROVE ThreadOK(d)'
  <2>1. UNCHANGED <<indirect, forgotten, ibdesc, misfreed>>
    BY <1>1 DEF buffers
  <2>2. (host = "reset" /\ th[d].pc \in Roomy => dbcq_supported \/ th[d].gave)'
    BY <1>1, <1>2, <1>8, Inside DEF ThreadOK
  <2> QED
    BY <1>1, <1>2, <2>1, <2>2, Inside DEF ThreadOK, Kept, QueueOf
<1> QED
  BY <1>3, <1>4, <1>5, <1>6, <1>7, <1>9 DEF IInv, ThreadI

-----------------------------------------------------------------------------
(* Steps that change a ring.                                               *)

LEMMA QueueIn == ASSUME IInv, NEW c \in Ctxts
                 PROVE  /\ QueueOf(c) \in Queues /\ queue \in [Queues -> QueueT]
                        /\ queue[QueueOf(c)] \in QueueT /\ Ring(queue[QueueOf(c)])
  BY DEF IInv, QueueOf, Queues, GpuT, RingI

LEMMA CopyOK == ASSUME IInv, NEW c \in Ctxts, Copy(c) PROVE IInv'
<1>1. /\ UNCHANGED <<life, lock, handshake, buffers, queued, gpu, dt>>
      /\ th[c].pc = "copy" /\ "publish" \in IssuePc /\ Goto(c, "publish")
  BY DEF Copy, IssuePc
<1>2. PICK m \in Msg : m = th[c].m
  BY <1>1, NewLive
<1>3. PICK Q, r : Q = QueueOf(c) /\ r = queue[Q]
  OBVIOUS
<1>4. Q \in Queues /\ queue \in [Queues -> QueueT] /\ r \in QueueT /\ Ring(r)
  BY <1>3, QueueIn
<1>5. PICK r2 : r2 = [r EXCEPT !.body = Copied(@, r.wptr, m)]
  OBVIOUS
<1>6. Fits(r, m)
  BY <1>1, <1>2, <1>3, Inside DEF ThreadOK, Roomy
<1>7. r2 \in QueueT /\ Ring(r2) /\ Written(r2, m) /\ Used(r2) = Used(r) /\ r2.pending = r.pending
  BY <1>4, <1>5, <1>6, RingCopy
<1>8. queue' = [queue EXCEPT ![Q] = r2]
  BY <1>2, <1>3, <1>4, <1>5 DEF Copy
<1>9. /\ queue' \in [Queues -> QueueT] /\ queue'[Q] = r2
      /\ \A q \in Queues : q # Q => queue'[q] = queue[q]
      /\ \A q \in Queues : queue'[q].pending = queue[q].pending
  BY <1>3, <1>4, <1>7, <1>8
<1>10. UNCHANGED <<dbcq_supported, dbq_ready, ctxt, req, busy, host, resets, running, retired,
                   ibdesc, indirect, misfreed, forgotten>>
  BY <1>1 DEF life, handshake, gpu, buffers
<1>11. LifeT' /\ HandT' /\ BufferT' /\ GpuT' /\ ModeI'
  BY <1>1, <1>9, <1>10 DEF IInv, LifeT, HandT, BufferT, GpuT, ModeI
<1>12. RingI'
  BY <1>7, <1>9 DEF IInv, RingI
<1>13. OrderI'
  <2>1. ASSUME NEW d \in Ctxts PROVE (ClockOK(d) /\ RunOK(d))'
    BY <1>1, <1>10 DEF IInv, OrderI, ClockOK, RunOK, InFlight, Live
  <2>2. ASSUME NEW q \in Queues PROVE PendOK(q)'
    <3>1. PendOK(q) /\ queue'[q].pending = queue[q].pending
      BY <1>9 DEF IInv, OrderI
    <3> QED
      BY <1>1, <1>10, <3>1 DEF PendOK, InFlight, Live, QueueOf
  <2> QED
    BY <2>1, <2>2 DEF OrderI
<1>14. KeptI'
  BY <1>9, <1>10, SMTT(60) DEF IInv, KeptI, Kept
<1>15. At(c, "publish", m, th[c].gave)
  BY <1>1, <1>2, GotoIs
<1>16. ThT'
  BY <1>1, <1>15 DEF IInv, ThT, At
<1>17. ~dbcq_supported => lock = c
  BY <1>1, Inside DEF ThreadOK, Locked
<1>18. ASSUME NEW d \in Ctxts, d # c PROVE ThreadOK(d)'
  <2>1. th'[d] = th[d] /\ d \in Queues
    BY <1>15, <1>18 DEF At, Queues
  <2>2. dbcq_supported => queue'[d] = queue[d]
    BY <1>3, <1>9, <1>18, <2>1 DEF QueueOf
  <2>3. ~(~dbcq_supported /\ lock = d)
    BY <1>17, <1>18
  <2>4. Keeps
    BY <1>1, <1>10, BuffersKeep
  <2> QED
    BY <1>1, <1>10, <2>1, <2>2, <2>3, <2>4, OtherThread
<1>19. ThreadOK(c)'
  <2>1. QueueOf(c)' = Q
    BY <1>3, <1>10 DEF QueueOf
  <2>2. Fits(r2, m)
    BY <1>6, <1>7 DEF Fits
  <2>3. (th[c].pc \in Claimed /\ th[c].m.batch => Kept(th[c].m))'
    BY <1>1, <1>2, <1>10, <1>15, Inside DEF ThreadOK, At, Kept, Claimed
  <2>4. queue'[QueueOf(c)'] = r2
    BY <1>9, <2>1
  <2> QED
    BY <1>1, <1>2, <1>7, <1>10, <1>15, <2>2, <2>3, <2>4, Inside DEF At, ThreadOK, Locked, Roomy
<1> QED
  BY <1>11, <1>12, <1>13, <1>14, <1>16, <1>18, <1>19 DEF IInv, ThreadI

\* The message becomes the youngest of its context and of its ring.
Sends(c, m, Q) ==
    /\ dbcq_supported' = dbcq_supported /\ UNCHANGED gpu
    /\ queued' = [queued EXCEPT ![c] = m.ts]
    /\ queue' \in [Queues -> QueueT]
    /\ queue'[Q].pending = Append(queue[Q].pending, m)
    /\ \A q \in Queues : q # Q => queue'[q] = queue[q]

LEMMA AppendIs ==
    ASSUME NEW p \in Seq(Msg), NEW m \in Msg, NEW t, t = Append(p, m)
    PROVE  /\ t \in Seq(Msg) /\ Len(p) \in Nat /\ Len(t) = Len(p) + 1
           /\ DOMAIN t = 1 .. Len(p) + 1 /\ DOMAIN p = 1 .. Len(p)
           /\ t[Len(p) + 1] = m /\ \A i \in 1 .. Len(p) : t[i] = p[i]
<1>1. t \in Seq(Msg) /\ Len(p) \in Nat /\ Len(t) = Len(p) + 1 /\ t[Len(p) + 1] = m
  OBVIOUS
<1>2. \A i \in 1 .. Len(p) : t[i] = p[i]
  OBVIOUS
<1>3. DOMAIN t = 1 .. Len(p) + 1 /\ DOMAIN p = 1 .. Len(p)
  BY <1>1
<1> QED
  BY <1>1, <1>2, <1>3

LEMMA SendOrder ==
    ASSUME IInv, NEW c \in Ctxts, th[c].pc = "publish", NEW m, m = th[c].m,
           NEW Q, Q = QueueOf(c), Sends(c, m, Q)
    PROVE  GpuT' /\ OrderI'
<1>1. /\ m \in Msg /\ m.c = c /\ m.ts \in Ts /\ m.ts # UINT_MAX /\ Live(m)
      /\ Age(queued[c]) < Age(m.ts) /\ Age(queued[c]) \in Nat /\ Age(m.ts) \in Nat
      /\ Age(retired[c]) \in Nat
  BY NewLive
<1>2. /\ queued \in [Ctxts -> Ts] /\ retired \in [Ctxts -> Ts] /\ running \in [Ctxts -> Seq(Msg)]
      /\ queue \in [Queues -> QueueT] /\ Q \in Queues
  BY QueueIn DEF IInv, GpuT
<1>3. UNCHANGED <<dbcq_supported, running, retired>>
  BY DEF Sends, gpu
<1>4. /\ queued' \in [Ctxts -> Ts] /\ queued'[c] = m.ts
      /\ \A d \in Ctxts : d # c => queued'[d] = queued[d]
  BY <1>1, <1>2 DEF Sends
<1>5. GpuT'
  BY <1>2, <1>3, <1>4 DEF GpuT, Sends
<1>6. \A d \in Ctxts : /\ Age(queued[d]) \in Nat /\ Age(queued'[d]) \in Nat
                       /\ Age(queued[d]) <= Age(queued'[d])
  <2>1. ASSUME NEW d \in Ctxts
        PROVE  Age(queued[d]) \in Nat /\ Age(queued'[d]) \in Nat /\ Age(queued[d]) <= Age(queued'[d])
    <3>1. Age(queued[d]) \in Nat /\ Age(queued'[d]) \in Nat
      BY <1>2, <1>4, AgeIs
    <3>2. CASE d = c
      BY <1>1, <1>4, <3>1, <3>2
    <3>3. CASE d # c
      BY <1>4, <3>1, <3>3
    <3> QED
      BY <3>1, <3>2, <3>3
  <2> QED
    BY <2>1
<1>7. ASSUME NEW x \in Msg, InFlight(x) PROVE InFlight(x)'
  <2>1. x.c \in Ctxts /\ x.ts \in Ts
    BY MsgFields
  <2>2. Age(x.ts) \in Nat
    BY <2>1, AgeIs
  <2>3. Live(x)'
    BY <1>3, <1>7 DEF InFlight, Live
  <2>4. Age(x.ts) <= Age(queued'[x.c])
    BY <1>6, <1>7, <2>1, <2>2 DEF InFlight
  <2> QED
    BY <2>3, <2>4 DEF InFlight
<1>8. ASSUME NEW d \in Ctxts PROVE ClockOK(d)'
  <2>1. ClockOK(d)
    BY DEF IInv, OrderI
  <2>2. CASE d = c
    BY <1>1, <1>3, <1>4, <2>2 DEF ClockOK, Live
  <2>3. CASE d # c
    BY <1>3, <1>4, <2>1, <2>3 DEF ClockOK
  <2> QED
    BY <2>2, <2>3
<1>9. ASSUME NEW d \in Ctxts PROVE RunOK(d)'
  <2>1. RunOK(d) /\ running' = running
    BY <1>3 DEF IInv, OrderI
  <2>2. ASSUME NEW i \in DOMAIN running[d] PROVE running[d][i].c = d /\ InFlight(running[d][i])'
    <3>1. PICK x \in Msg : x = running[d][i] /\ x.c = d /\ InFlight(x)
      BY <2>1, RunningLive DEF RunOK
    <3>2. InFlight(x)'
      BY <1>7, <3>1
    <3> QED
      BY <2>1, <3>1, <3>2 DEF InFlight, Live
  <2> QED
    BY <2>1, <2>2 DEF RunOK
<1>10. PICK p, t : p = queue[Q].pending /\ t = Append(p, m)
  OBVIOUS
<1>11. p \in Seq(Msg) /\ queue'[Q].pending = t
  BY <1>2, <1>10, QueueFields DEF Sends
<1>12. /\ t \in Seq(Msg) /\ Len(p) \in Nat /\ DOMAIN t = 1 .. Len(p) + 1 /\ DOMAIN p = 1 .. Len(p)
       /\ t[Len(p) + 1] = m /\ \A i \in 1 .. Len(p) : t[i] = p[i]
  BY <1>1, <1>10, <1>11, AppendIs
<1>13. ASSUME NEW q \in Queues, NEW i \in DOMAIN queue[q].pending, NEW x, x = queue[q].pending[i]
       PROVE  /\ InFlight(x)' /\ QueueOf(x.c)' = q /\ x.c \in Ctxts /\ x \in Msg
              /\ \A k \in DOMAIN running'[x.c] : Age(running'[x.c][k].ts) < Age(x.ts)
              /\ Age(x.ts) <= Age(queued[x.c]) /\ Age(x.ts) \in Nat
  <2>1. PendOK(q)
    BY DEF IInv, OrderI
  <2>2. x \in Msg /\ QueueOf(x.c) = q /\ InFlight(x)
    BY <1>13, <2>1, PendingLive DEF PendOK
  <2>3. InFlight(x)' /\ x.c \in Ctxts /\ x.ts \in Ts
    BY <1>7, <2>2, MsgFields
  <2>4. QueueOf(x.c)' = q
    BY <1>3, <2>2 DEF QueueOf
  <2>5. \A k \in DOMAIN running'[x.c] : Age(running'[x.c][k].ts) < Age(x.ts)
    BY <1>3, <1>13, <2>1 DEF PendOK
  <2> QED
    BY <2>2, <2>3, <2>4, <2>5, AgeIs DEF InFlight
<1>14. /\ InFlight(m)' /\ QueueOf(m.c)' = Q
       /\ \A k \in DOMAIN running'[m.c] : Age(running'[m.c][k].ts) < Age(m.ts)
  <2>1. InFlight(m)'
    BY <1>1, <1>3, <1>4 DEF InFlight, Live
  <2>2. QueueOf(m.c)' = Q
    BY <1>1, <1>3 DEF QueueOf
  <2>3. ASSUME NEW k \in DOMAIN running[c] PROVE Age(running[c][k].ts) < Age(m.ts)
    <3>1. PICK x \in Msg : x = running[c][k] /\ Age(x.ts) <= Age(queued[c])
      BY RunningLive
    <3>2. Age(x.ts) \in Nat
      BY MsgFields, AgeIs
    <3> QED
      BY <1>1, <3>1, <3>2
  <2> QED
    BY <1>1, <1>3, <2>1, <2>2, <2>3
<1>15. ASSUME NEW q \in Queues PROVE PendOK(q)'
  <2>1. PendOK(q)
    BY DEF IInv, OrderI
  <2>2. CASE q # Q
    <3>1. queue'[q].pending = queue[q].pending
      BY <2>2 DEF Sends
    <3>2. ASSUME NEW i \in DOMAIN queue[q].pending
          PROVE  /\ InFlight(queue[q].pending[i])' /\ QueueOf(queue[q].pending[i].c)' = q
                 /\ \A k \in DOMAIN running'[queue[q].pending[i].c] :
                       Age(running'[queue[q].pending[i].c][k].ts) < Age(queue[q].pending[i].ts)
      <4>1. PICK x : x = queue[q].pending[i]
        OBVIOUS
      <4>2. /\ InFlight(x)' /\ QueueOf(x.c)' = q
            /\ \A k \in DOMAIN running'[x.c] : Age(running'[x.c][k].ts) < Age(x.ts)
        BY <1>13, <4>1
      <4> QED
        BY <3>1, <4>1, <4>2 DEF InFlight, Live, QueueOf
    <3> QED
      BY <2>1, <3>1, <3>2 DEF PendOK, InFlight, Live, QueueOf
  <2>3. CASE q = Q
    <3>1. ASSUME NEW i \in DOMAIN t, NEW x, x = t[i]
          PROVE  /\ InFlight(x)' /\ QueueOf(x.c)' = q
                 /\ \A k \in DOMAIN running'[x.c] : Age(running'[x.c][k].ts) < Age(x.ts)
      <4>1. CASE i = Len(p) + 1
        <5>1. x = m
          BY <1>12, <3>1, <4>1
        <5> QED
          BY <1>14, <2>3, <5>1 DEF InFlight, Live, QueueOf
      <4>2. CASE i \in 1 .. Len(p)
        BY <1>10, <1>12, <1>13, <2>3, <3>1, <4>2, ZenonT(60)
      <4> QED
        BY <1>12, <4>1, <4>2
    <3>2. ASSUME NEW i \in DOMAIN t, NEW j \in DOMAIN t, i < j, t[i].c = t[j].c
          PROVE  Age(t[i].ts) < Age(t[j].ts)
      <4>1. i \in 1 .. Len(p)
        BY <1>12, <3>2
      <4>2. CASE j \in 1 .. Len(p)
        <5>3. p = queue[q].pending
          BY <1>10, <2>3
        <5>1. \A u, v \in DOMAIN p : u < v /\ p[u].c = p[v].c => Age(p[u].ts) < Age(p[v].ts)
          BY <2>1, <5>3, PendOrder
        <5>2. i \in DOMAIN p /\ j \in DOMAIN p /\ t[i] = p[i] /\ t[j] = p[j]
          BY <1>12, <4>1, <4>2
        <5> QED
          BY <3>2, <5>1, <5>2
      <4>3. CASE j = Len(p) + 1
        <5>1. PICK x : x = p[i]
          OBVIOUS
        <5>2. Age(x.ts) <= Age(queued[x.c]) /\ Age(x.ts) \in Nat
          BY <1>2, <1>10, <1>12, <1>13, <4>1, <5>1
        <5>3. t[i] = x /\ t[j] = m /\ x.c = c
          BY <1>1, <1>12, <3>2, <4>1, <4>3, <5>1
        <5> QED
          BY <1>1, <5>2, <5>3
      <4> QED
        BY <1>12, <4>2, <4>3
    <3>3. queue'[q].pending = t
      BY <1>11, <2>3
    <3> QED
      BY <3>1, <3>2, <3>3 DEF PendOK, InFlight, Live, QueueOf
  <2> QED
    BY <2>2, <2>3
<1> QED
  BY <1>5, <1>8, <1>9, <1>15 DEF OrderI

LEMMA SendKept ==
    ASSUME IInv, NEW c \in Ctxts, NEW m \in Msg, NEW Q \in Queues, Sends(c, m, Q), Keeps,
           m.batch => Kept(m)'
    PROVE  KeptI'
<1>1. PICK p, t : p = queue[Q].pending /\ t = Append(p, m)
  OBVIOUS
<1>2. queue[Q] \in QueueT
  BY DEF IInv, GpuT
<1>3. p \in Seq(Msg) /\ queue'[Q].pending = t
  BY <1>1, <1>2, QueueFields DEF Sends
<1>4. /\ Len(p) \in Nat /\ DOMAIN t = 1 .. Len(p) + 1 /\ DOMAIN p = 1 .. Len(p)
      /\ t[Len(p) + 1] = m /\ \A i \in 1 .. Len(p) : t[i] = p[i]
  BY <1>1, <1>3, AppendIs
<1>5. running' = running
  BY DEF Sends, gpu
<1>6. ASSUME NEW q \in Queues, NEW i \in DOMAIN queue[q].pending, NEW x, x = queue[q].pending[i],
             x.batch
      PROVE  Kept(x)'
  <2>1. x \in Msg /\ Live(x) /\ Kept(x)
    BY <1>6, PendingLive
  <2> QED
    BY <2>1 DEF Keeps
<1>7. ASSUME NEW q \in Queues, NEW i \in DOMAIN queue'[q].pending, NEW x, x = queue'[q].pending[i],
             x.batch
      PROVE  Kept(x)'
  <2>1. CASE q # Q
    <3>1. queue'[q].pending = queue[q].pending
      BY <2>1 DEF Sends
    <3> QED
      BY <1>6, <1>7, <3>1
  <2>2. CASE q = Q /\ i \in 1 .. Len(p)
    <3>1. i \in DOMAIN queue[q].pending /\ x = queue[q].pending[i]
      BY <1>1, <1>3, <1>4, <1>7, <2>2
    <3> QED
      BY <1>6, <1>7, <3>1
  <2>3. CASE q = Q /\ i = Len(p) + 1
    <3>1. x = m
      BY <1>3, <1>4, <1>7, <2>3
    <3> QED
      BY <1>7, <3>1 DEF Kept
  <2> QED
    BY <1>3, <1>4, <2>1, <2>2, <2>3
<1>8. ASSUME NEW d \in Ctxts, NEW i \in DOMAIN running[d], NEW x, x = running[d][i], x.batch
      PROVE  Kept(x)'
  <2>1. x \in Msg /\ Live(x) /\ Kept(x)
    BY <1>8, RunningLive
  <2> QED
    BY <2>1 DEF Keeps
<1>9. (\A q \in Queues : \A i \in DOMAIN queue[q].pending :
          queue[q].pending[i].batch => Kept(queue[q].pending[i]))'
  BY <1>7 DEF Kept
<1>10. (\A d \in Ctxts : \A i \in DOMAIN running[d] : running[d][i].batch => Kept(running[d][i]))'
  BY <1>5, <1>8 DEF Kept
<1> QED
  BY <1>9, <1>10 DEF KeptI

\* The ring with the message behind.
LEMMA SendRing ==
    ASSUME IInv, NEW c \in Ctxts, th[c].pc = "publish", NEW m, m = th[c].m, NEW Q, Q = QueueOf(c),
           queue' = [queue EXCEPT ![Q] = Published(queue[Q], m)]
    PROVE  /\ RingI' /\ queue' \in [Queues -> QueueT] /\ Q \in Queues
           /\ queue'[Q].pending = Append(queue[Q].pending, m)
           /\ \A q \in Queues : q # Q => queue'[q] = queue[q]
<1>1. PICK r, r2 : r = queue[Q] /\ r2 = Published(r, m)
  OBVIOUS
<1>2. Q \in Queues /\ queue \in [Queues -> QueueT] /\ r \in QueueT /\ Ring(r) /\ m \in Msg
  BY <1>1, QueueIn, NewLive
<1>3. Fits(r, m) /\ Written(r, m)
  BY <1>1, Inside DEF ThreadOK, Roomy
<1>4. r2 \in QueueT /\ Ring(r2) /\ r2.pending = Append(r.pending, m)
  BY <1>1, <1>2, <1>3, RingPublish
<1>5. /\ queue' \in [Queues -> QueueT] /\ queue'[Q] = r2
      /\ \A q \in Queues : q # Q => queue'[q] = queue[q]
  BY <1>1, <1>2, <1>4
<1>6. RingI'
  BY <1>4, <1>5 DEF IInv, RingI
<1> QED
  BY <1>1, <1>2, <1>4, <1>5, <1>6

LEMMA PublishOK == ASSUME IInv, NEW c \in Ctxts, Publish(c) PROVE IInv'
<1>1. /\ UNCHANGED <<life, req, host, resets, buffers, gpu, dt>> /\ busy' = FALSE /\ lock' = None
      /\ th[c].pc = "publish" /\ ~dbcq_supported /\ Return(c)
  BY DEF Publish, SendEnd
<1>2. PICK m, Q : m = th[c].m /\ Q = QueueOf(c) /\ Q = Shared
  BY <1>1 DEF QueueOf
<1>3. /\ queue' = [queue EXCEPT ![Q] = Published(queue[Q], m)]
      /\ queued' = [queued EXCEPT ![c] = m.ts]
  BY <1>2 DEF Publish
<1>4. /\ RingI' /\ queue' \in [Queues -> QueueT] /\ Q \in Queues
      /\ queue'[Q].pending = Append(queue[Q].pending, m)
      /\ \A q \in Queues : q # Q => queue'[q] = queue[q]
  BY <1>1, <1>2, <1>3, SendRing
<1>5. UNCHANGED <<dbcq_supported, dbq_ready, ctxt, ibdesc, indirect, misfreed, forgotten>>
  BY <1>1 DEF life, buffers
<1>6. Sends(c, m, Q)
  BY <1>1, <1>3, <1>4, <1>5 DEF Sends
<1>7. GpuT' /\ OrderI'
  BY <1>1, <1>2, <1>6, SendOrder
<1>8. BufferT' /\ Keeps
  BY <1>1, <1>5, BuffersKeep
<1>9. m \in Msg
  BY <1>1, <1>2, NewLive
<1>10. m.batch => Kept(m)'
  <2>1. m.batch => Kept(m)
    BY <1>1, <1>2, Inside DEF ThreadOK, Claimed
  <2> QED
    BY <1>5, <2>1 DEF Kept
<1>11. KeptI'
  BY <1>4, <1>6, <1>8, <1>9, <1>10, SendKept
<1>12. At(c, "idle", None, FALSE)
  BY <1>1, ReturnIs
<1>13. LifeT' /\ HandT' /\ ModeI' /\ ThT'
  BY <1>1, <1>5, <1>12 DEF IInv, LifeT, HandT, ModeI, ThT, At
<1>14. lock = c
  BY <1>1, Inside DEF ThreadOK, Locked
<1>15. ASSUME NEW d \in Ctxts, d # c PROVE ThreadOK(d)'
  <2>1. th'[d] = th[d] /\ queued'[d] = queued[d]
    BY <1>3, <1>12, <1>15 DEF At, IInv, GpuT
  <2> QED
    BY <1>1, <1>5, <1>8, <1>14, <1>15, <2>1, OtherThread
<1>16. ThreadOK(c)'
  BY <1>12, IdleOK
<1> QED
  BY <1>4, <1>7, <1>8, <1>11, <1>13, <1>15, <1>16 DEF IInv, ThreadI

LEMMA ContextPublishOK == ASSUME IInv, NEW c \in Ctxts, ContextPublish(c) PROVE IInv'
<1>1. /\ UNCHANGED <<life, lock, handshake, ibdesc, misfreed, gpu, dt>>
      /\ th[c].pc = "publish" /\ dbcq_supported /\ Return(c)
  BY DEF ContextPublish
<1>2. PICK m, Q : m = th[c].m /\ Q = QueueOf(c) /\ Q = c
  BY <1>1 DEF QueueOf
<1>3. /\ queue' = [queue EXCEPT ![Q] = Published(queue[Q], m)]
      /\ queued' = [queued EXCEPT ![c] = m.ts]
  BY <1>2 DEF ContextPublish
<1>4. /\ RingI' /\ queue' \in [Queues -> QueueT] /\ Q \in Queues
      /\ queue'[Q].pending = Append(queue[Q].pending, m)
      /\ \A q \in Queues : q # Q => queue'[q] = queue[q]
  BY <1>1, <1>2, <1>3, SendRing
<1>5. UNCHANGED <<dbcq_supported, dbq_ready, ctxt, req, busy, host, resets>>
  BY <1>1 DEF life, handshake
<1>6. Sends(c, m, Q)
  BY <1>1, <1>3, <1>4, <1>5 DEF Sends
<1>7. GpuT' /\ OrderI'
  BY <1>1, <1>2, <1>6, SendOrder
<1>8. BufferT' /\ Keeps /\ (m.batch => Kept(m)')
  <2>1. CASE m.batch
    <3>1. indirect' = indirect /\ forgotten' = forgotten
      BY <1>2, <2>1 DEF ContextPublish
    <3>2. BufferT' /\ Keeps
      BY <1>1, <1>5, <3>1, BuffersKeep DEF buffers
    <3>3. Kept(m)
      BY <1>1, <1>2, <2>1, Inside DEF ThreadOK, Claimed
    <3>4. Kept(m)'
      BY <1>1, <1>5, <3>1, <3>3 DEF Kept
    <3> QED
      BY <3>2, <3>4
  <2>2. CASE ~m.batch
    <3>1. /\ indirect' = [indirect EXCEPT ![c].ts = 0]
          /\ forgotten' = IF IndirectFree(c) THEN forgotten ELSE forgotten \cup {c}
      BY <1>2, <2>2 DEF ContextPublish
    <3>2. 0 \in Ts
      BY Sizes DEF Ts, TsMod
    <3>3. BufferT'
      BY <1>1, <3>1, <3>2 DEF IInv, BufferT, IndirectT
    <3>4. \A d \in Ctxts : d # c => indirect'[d] = indirect[d]
      BY <3>1 DEF IInv, BufferT
    <3>5. ASSUME NEW k \in Msg, Kept(k), Live(k) PROVE Kept(k)'
      <4>1. k.c \in Ctxts /\ k.ts # 0 /\ ~hgsl_check_shadow_timestamp(k.c, k.ts)
        BY <3>5, LiveUnretired
      <4>2. CASE k.c \in forgotten
        BY <1>1, <1>5, <3>1, <4>2 DEF Kept
      <4>3. CASE k.c \notin forgotten
        <5>1. indirect[k.c] = [ts |-> k.ts, data |-> k]
          BY <1>1, <3>5, <4>3 DEF Kept
        <5>2. CASE k.c = c
          <6>1. ~IndirectFree(c)
            BY <4>1, <5>1, <5>2 DEF IndirectFree
          <6> QED
            BY <1>1, <1>5, <3>1, <5>2, <6>1 DEF Kept
        <5>3. CASE k.c # c
          BY <1>1, <1>5, <3>4, <4>1, <5>1, <5>3 DEF Kept
        <5> QED
          BY <5>2, <5>3
      <4> QED
        BY <4>2, <4>3
    <3> QED
      BY <2>2, <3>3, <3>5 DEF Keeps
  <2> QED
    BY <2>1, <2>2
<1>9. m \in Msg
  BY <1>1, <1>2, NewLive
<1>10. KeptI'
  BY <1>4, <1>6, <1>8, <1>9, SendKept
<1>11. At(c, "idle", None, FALSE)
  BY <1>1, ReturnIs
<1>12. LifeT' /\ HandT' /\ ModeI' /\ ThT'
  BY <1>1, <1>5, <1>11 DEF IInv, LifeT, HandT, ModeI, ThT, At
<1>13. ASSUME NEW d \in Ctxts, d # c PROVE ThreadOK(d)'
  <2>1. th'[d] = th[d] /\ queued'[d] = queued[d] /\ d \in Queues
    BY <1>3, <1>11, <1>13 DEF At, IInv, GpuT, Queues
  <2>2. queue'[d] = queue[d]
    BY <1>2, <1>4, <1>13, <2>1
  <2> QED
    BY <1>1, <1>5, <1>8, <2>1, <2>2, OtherThread
<1>14. ThreadOK(c)'
  BY <1>11, IdleOK
<1> QED
  BY <1>4, <1>7, <1>8, <1>10, <1>12, <1>13, <1>14 DEF IInv, ThreadI

LEMMA TailIs ==
    ASSUME NEW p \in Seq(Msg), p # << >>, NEW t, t = Tail(p)
    PROVE  /\ t \in Seq(Msg) /\ Len(p) \in Nat /\ Len(p) >= 1
           /\ DOMAIN t = 1 .. Len(p) - 1 /\ DOMAIN p = 1 .. Len(p)
           /\ \A i \in 1 .. Len(p) - 1 : t[i] = p[i + 1] /\ i + 1 \in 1 .. Len(p)
<1>1. t \in Seq(Msg) /\ Len(p) \in Nat /\ Len(p) >= 1 /\ Len(t) = Len(p) - 1
  OBVIOUS
<1>2. \A i \in 1 .. Len(p) - 1 : t[i] = p[i + 1]
  OBVIOUS
<1>3. DOMAIN t = 1 .. Len(p) - 1 /\ DOMAIN p = 1 .. Len(p)
  BY <1>1
<1>4. \A i \in 1 .. Len(p) - 1 : i + 1 \in 1 .. Len(p)
  BY <1>1
<1> QED
  BY <1>1, <1>2, <1>3, <1>4

\* The oldest message of a ring becomes the youngest running one.
Reads(q, m) ==
    /\ UNCHANGED <<dbcq_supported, queued, retired>>
    /\ queue[q].pending # << >> /\ m = queue[q].pending[1]
    /\ queue' \in [Queues -> QueueT]
    /\ queue'[q].pending = Tail(queue[q].pending)
    /\ \A u \in Queues : u # q => queue'[u] = queue[u]
    /\ running' = [running EXCEPT ![m.c] = Append(@, m)]

LEMMA ReadOrder ==
    ASSUME IInv, NEW q \in Queues, NEW m, Reads(q, m)
    PROVE  GpuT' /\ OrderI'
<1>1. PICK p, t, R, R2 : p = queue[q].pending /\ t = Tail(p) /\ R = running[m.c] /\ R2 = Append(R, m)
  OBVIOUS
<1>2. queue[q] \in QueueT /\ running \in [Ctxts -> Seq(Msg)]
  BY DEF IInv, GpuT
<1>3. p \in Seq(Msg) /\ p # <<>> /\ m = p[1]
  BY <1>1, <1>2, QueueFields DEF Reads
<1>4. /\ t \in Seq(Msg) /\ Len(p) \in Nat /\ Len(p) >= 1
      /\ DOMAIN t = 1 .. Len(p) - 1 /\ DOMAIN p = 1 .. Len(p)
      /\ \A i \in 1 .. Len(p) - 1 : t[i] = p[i + 1] /\ i + 1 \in 1 .. Len(p)
  BY <1>1, <1>3, TailIs
<1>5. m \in Msg /\ m.c \in Ctxts /\ 1 \in DOMAIN p
  BY <1>3, <1>4, MsgFields
<1>6. /\ PendOK(q) /\ InFlight(m) /\ QueueOf(m.c) = q
      /\ \A k \in DOMAIN R : Age(R[k].ts) < Age(m.ts)
  BY <1>1, <1>3, <1>5 DEF IInv, OrderI, PendOK
<1>7. R \in Seq(Msg)
  BY <1>1, <1>2, <1>5
<1>8. /\ R2 \in Seq(Msg) /\ Len(R) \in Nat /\ DOMAIN R2 = 1 .. Len(R) + 1 /\ DOMAIN R = 1 .. Len(R)
      /\ R2[Len(R) + 1] = m /\ \A i \in 1 .. Len(R) : R2[i] = R[i]
  BY <1>1, <1>5, <1>7, AppendIs
<1>9. /\ running' \in [Ctxts -> Seq(Msg)] /\ running'[m.c] = R2
      /\ \A d \in Ctxts : d # m.c => running'[d] = running[d]
  BY <1>1, <1>2, <1>5, <1>8 DEF Reads
<1>10. UNCHANGED <<dbcq_supported, queued, retired>>
  BY DEF Reads
<1>11. GpuT'
  BY <1>9, <1>10 DEF IInv, GpuT, Reads
<1>12. ASSUME NEW d \in Ctxts PROVE ClockOK(d)'
  BY <1>10 DEF IInv, OrderI, ClockOK
<1>13. ASSUME NEW d \in Ctxts PROVE RunOK(d)'
  <2>1. RunOK(d)
    BY DEF IInv, OrderI
  <2>2. CASE d # m.c
    <3>1. running'[d] = running[d]
      BY <1>9, <2>2
    <3> QED
      BY <1>10, <2>1, <3>1 DEF RunOK, InFlight, Live
  <2>3. CASE d = m.c
    <3>1. ASSUME NEW i \in DOMAIN R2 PROVE R2[i].c = d /\ InFlight(R2[i])
      <4>1. CASE i = Len(R) + 1
        BY <1>6, <1>8, <2>3, <4>1
      <4>2. CASE i \in 1 .. Len(R)
        BY <1>1, <1>8, <2>1, <2>3, <4>2 DEF RunOK
      <4> QED
        BY <1>8, <4>1, <4>2
    <3>2. ASSUME NEW i \in DOMAIN R2, NEW j \in DOMAIN R2, i < j
          PROVE  Age(R2[i].ts) < Age(R2[j].ts)
      <4>1. i \in 1 .. Len(R)
        BY <1>8, <3>2
      <4>2. CASE j = Len(R) + 1
        BY <1>6, <1>8, <4>1, <4>2
      <4>3. CASE j \in 1 .. Len(R)
        BY <1>1, <1>8, <2>1, <2>3, <3>2, <4>1, <4>3 DEF RunOK
      <4> QED
        BY <1>8, <4>2, <4>3
    <3>3. running'[d] = R2
      BY <1>9, <2>3
    <3> QED
      BY <1>10, <3>1, <3>2, <3>3 DEF RunOK, InFlight, Live
  <2> QED
    BY <2>2, <2>3
<1>14. ASSUME NEW u \in Queues PROVE PendOK(u)'
  <2>1. PendOK(u)
    BY DEF IInv, OrderI
  <2>2. CASE u # q
    <3>1. queue'[u] = queue[u]
      BY <2>2 DEF Reads
    <3>2. ASSUME NEW i \in DOMAIN queue[u].pending
          PROVE  running'[queue[u].pending[i].c] = running[queue[u].pending[i].c]
      <4>1. PICK x \in Msg : x = queue[u].pending[i] /\ QueueOf(x.c) = u
        BY PendingLive
      <4>2. x.c \in Ctxts /\ x.c # m.c
        BY <1>6, <2>2, <4>1, MsgFields
      <4> QED
        BY <1>9, <4>1, <4>2
    <3> QED
      BY <1>10, <2>1, <3>1, <3>2 DEF PendOK, InFlight, Live, QueueOf
  <2>3. CASE u = q
    <3>1. ASSUME NEW i \in DOMAIN t, NEW x, x = t[i]
          PROVE  /\ InFlight(x) /\ QueueOf(x.c) = q
                 /\ \A k \in DOMAIN running'[x.c] : Age(running'[x.c][k].ts) < Age(x.ts)
      <4>1. i + 1 \in DOMAIN p /\ x = p[i + 1] /\ 1 < i + 1
        BY <1>4, <3>1
      <4>2. /\ InFlight(x) /\ QueueOf(x.c) = q
            /\ \A k \in DOMAIN running[x.c] : Age(running[x.c][k].ts) < Age(x.ts)
        BY <1>1, <2>1, <2>3, <4>1 DEF PendOK
      <4>3. x \in Msg
        BY <1>3, <1>4, <4>1
      <4>4. CASE x.c # m.c
        <5>1. running'[x.c] = running[x.c]
          BY <1>9, <4>3, <4>4, MsgFields
        <5> QED
          BY <4>2, <5>1
      <4>5. CASE x.c = m.c
        <5>1. Age(m.ts) < Age(x.ts)
          BY <1>1, <1>3, <1>5, <2>1, <2>3, <4>1, <4>5 DEF PendOK
        <5>2. ASSUME NEW k \in DOMAIN R2 PROVE Age(R2[k].ts) < Age(x.ts)
          <6>1. CASE k = Len(R) + 1
            BY <1>8, <5>1, <6>1
          <6>2. CASE k \in 1 .. Len(R)
            BY <1>1, <1>8, <4>2, <4>5, <6>2
          <6> QED
            BY <1>8, <6>1, <6>2
        <5> QED
          BY <1>9, <4>2, <4>5, <5>2
      <4> QED
        BY <4>4, <4>5
    <3>2. ASSUME NEW i \in DOMAIN t, NEW j \in DOMAIN t, i < j, t[i].c = t[j].c
          PROVE  Age(t[i].ts) < Age(t[j].ts)
      <4>1. /\ i + 1 \in DOMAIN p /\ t[i] = p[i + 1] /\ j + 1 \in DOMAIN p /\ t[j] = p[j + 1]
            /\ i + 1 < j + 1
        BY <1>4, <3>2
      <4> QED
        BY <1>1, <2>1, <2>3, <3>2, <4>1 DEF PendOK
    <3>3. queue'[u].pending = t
      BY <1>1, <2>3 DEF Reads
    <3> QED
      BY <1>10, <2>3, <3>1, <3>2, <3>3 DEF PendOK, InFlight, Live, QueueOf
  <2> QED
    BY <2>2, <2>3
<1> QED
  BY <1>11, <1>12, <1>13, <1>14 DEF OrderI

LEMMA ReadKept ==
    ASSUME IInv, NEW q \in Queues, NEW m, Reads(q, m), UNCHANGED buffers
    PROVE  KeptI'
<1>1. PICK p, t, R, R2 : p = queue[q].pending /\ t = Tail(p) /\ R = running[m.c] /\ R2 = Append(R, m)
  OBVIOUS
<1>2. queue[q] \in QueueT /\ running \in [Ctxts -> Seq(Msg)]
  BY DEF IInv, GpuT
<1>3. p \in Seq(Msg) /\ p # <<>> /\ m = p[1]
  BY <1>1, <1>2, QueueFields DEF Reads
<1>4. /\ Len(p) \in Nat /\ Len(p) >= 1
      /\ DOMAIN t = 1 .. Len(p) - 1 /\ DOMAIN p = 1 .. Len(p)
      /\ \A i \in 1 .. Len(p) - 1 : t[i] = p[i + 1] /\ i + 1 \in 1 .. Len(p)
  BY <1>1, <1>3, TailIs
<1>5. m \in Msg /\ m.c \in Ctxts /\ 1 \in DOMAIN p
  BY <1>3, <1>4, MsgFields
<1>6. R \in Seq(Msg)
  BY <1>1, <1>2, <1>5
<1>7. /\ Len(R) \in Nat /\ DOMAIN R2 = 1 .. Len(R) + 1 /\ DOMAIN R = 1 .. Len(R)
      /\ R2[Len(R) + 1] = m /\ \A i \in 1 .. Len(R) : R2[i] = R[i]
  BY <1>1, <1>5, <1>6, AppendIs
<1>8. UNCHANGED <<dbcq_supported, ibdesc, indirect, misfreed, forgotten>>
  BY DEF Reads, buffers
<1>9. \A x : Kept(x)' <=> Kept(x)
  BY <1>8 DEF Kept
<1>10. KeptI
  BY DEF IInv
<1>11. ASSUME NEW u \in Queues, NEW i \in DOMAIN queue'[u].pending, NEW x,
              x = queue'[u].pending[i], x.batch
       PROVE  Kept(x)
  <2>1. CASE u # q
    <3>1. queue'[u] = queue[u]
      BY <2>1 DEF Reads
    <3> QED
      BY <1>10, <1>11, <3>1 DEF KeptI
  <2>2. CASE u = q
    <3>1. queue'[u].pending = t
      BY <1>1, <2>2 DEF Reads
    <3>2. i + 1 \in DOMAIN p /\ x = p[i + 1]
      BY <1>4, <1>11, <3>1
    <3> QED
      BY <1>1, <1>10, <1>11, <3>2 DEF KeptI
  <2> QED
    BY <2>1, <2>2
<1>12. ASSUME NEW d \in Ctxts, NEW i \in DOMAIN running'[d], NEW x, x = running'[d][i], x.batch
       PROVE  Kept(x)
  <2>1. CASE d # m.c
    <3>1. running'[d] = running[d]
      BY <1>2, <1>5, <2>1 DEF Reads
    <3> QED
      BY <1>10, <1>12, <3>1 DEF KeptI
  <2>2. CASE d = m.c
    <3>1. running'[d] = R2
      BY <1>1, <1>2, <1>5, <2>2 DEF Reads
    <3>2. CASE i = Len(R) + 1
      <4>1. x = p[1]
        BY <1>3, <1>7, <1>12, <3>1, <3>2
      <4> QED
        BY <1>1, <1>5, <1>10, <1>12, <4>1 DEF KeptI
    <3>3. CASE i \in 1 .. Len(R)
      <4>1. i \in DOMAIN running[d] /\ x = running[d][i]
        BY <1>1, <1>7, <1>12, <2>2, <3>1, <3>3
      <4> QED
        BY <1>10, <1>12, <4>1 DEF KeptI
    <3> QED
      BY <1>7, <3>1, <3>2, <3>3
  <2> QED
    BY <2>1, <2>2
<1>13. (\A u \in Queues : \A i \in DOMAIN queue[u].pending :
          queue[u].pending[i].batch => Kept(queue[u].pending[i]))'
  BY <1>8, <1>11 DEF Kept
<1>14. (\A d \in Ctxts : \A i \in DOMAIN running[d] : running[d][i].batch => Kept(running[d][i]))'
  BY <1>8, <1>12 DEF Kept
<1> QED
  BY <1>13, <1>14 DEF KeptI

LEMMA FirmwareReadOK == ASSUME IInv, NEW q \in Queues, FirmwareRead(q) PROVE IInv'
<1>1. PICK r, m, r2 : r = queue[q] /\ m = r.pending[1] /\ r2 = Consumed(r, m)
  OBVIOUS
<1>2. r \in QueueT /\ Ring(r) /\ queue \in [Queues -> QueueT]
  BY <1>1 DEF IInv, GpuT, RingI
<1>3. r.rptr # r.wptr /\ UNCHANGED <<life, lock, handshake, buffers, queued, retired, th, dt>>
  BY <1>1 DEF FirmwareRead
<1>4. r.pending # <<>> /\ m \in Msg /\ r.body[r.rptr].m = m
  BY <1>1, <1>2, <1>3, RingFront
<1>5. /\ r2 \in QueueT /\ Ring(r2) /\ Used(r2) \in Nat /\ Used(r2) <= Used(r) /\ Used(r) \in Nat
      /\ r2.pending = Tail(r.pending)
      /\ \A k \in Msg : Written(r, k) /\ Fits(r, k) => Written(r2, k)
  BY <1>1, <1>2, <1>3, RingRead
<1>6. queue' = [queue EXCEPT ![q] = r2] /\ running' = [running EXCEPT ![m.c] = Append(@, m)]
  BY <1>1, <1>4 DEF FirmwareRead, Consumed
<1>7. /\ queue' \in [Queues -> QueueT] /\ queue'[q] = r2
      /\ \A u \in Queues : u # q => queue'[u] = queue[u]
  BY <1>2, <1>5, <1>6
<1>8. UNCHANGED <<dbcq_supported, dbq_ready, ctxt, req, busy, host, resets, ibdesc, indirect,
                  misfreed, forgotten>>
  BY <1>3 DEF life, handshake, buffers
<1>9. Reads(q, m)
  BY <1>1, <1>3, <1>4, <1>5, <1>6, <1>7, <1>8 DEF Reads
<1>10. GpuT' /\ OrderI' /\ KeptI'
  BY <1>3, <1>9, ReadOrder, ReadKept
<1>11. LifeT' /\ HandT' /\ BufferT' /\ ModeI' /\ ThT'
  BY <1>3, <1>8 DEF IInv, LifeT, HandT, BufferT, ModeI, ThT
<1>12. RingI'
  BY <1>5, <1>7 DEF IInv, RingI
<1>13. ASSUME NEW d \in Ctxts PROVE ThreadOK(d)'
  <2>1. CASE QueueOf(d) # q
    <3>1. QueueOf(d)' = QueueOf(d) /\ QueueOf(d) \in Queues
      BY <1>8, QueueIn DEF QueueOf
    <3>2. queue'[QueueOf(d)'] = queue[QueueOf(d)]
      BY <1>7, <2>1, <3>1
    <3> QED
      BY <1>3, <1>8, <3>2, Inside DEF ThreadOK, Kept
  <2>2. CASE QueueOf(d) = q
    <3>1. QueueOf(d)' = q
      BY <1>8, <2>2 DEF QueueOf
    <3>2. queue'[QueueOf(d)'] = r2 /\ queue[QueueOf(d)] = r
      BY <1>1, <1>7, <2>2, <3>1
    <3>3. CASE th[d].pc \in Roomy
      <4>1. PICK x \in Msg : x = th[d].m
        BY <3>3, NewLive DEF Roomy
      <4>2. Fits(r, x) /\ (th[d].pc = "publish" => Written(r, x))
        BY <3>2, <3>3, <4>1, Inside DEF ThreadOK
      <4>3. Fits(r2, x)
        BY <1>5, <4>1, <4>2, MsgFields, SizeNat DEF Fits
      <4>4. th[d].pc = "publish" => Written(r2, x)
        BY <1>5, <4>1, <4>2
      <4> QED
        BY <1>3, <1>8, <3>2, <4>1, <4>3, <4>4, Inside DEF ThreadOK, Kept
    <3>4. CASE th[d].pc \notin Roomy
      BY <1>3, <1>8, <3>2, <3>4, Inside DEF ThreadOK, Kept, Roomy
    <3> QED
      BY <3>3, <3>4
  <2> QED
    BY <2>1, <2>2
<1> QED
  BY <1>10, <1>11, <1>12, <1>13 DEF IInv, ThreadI

LEMMA RetireOK == ASSUME IInv, NEW c \in Ctxts, Retire(c) PROVE IInv'
<1>1. PICK R, T, h : R = running[c] /\ T = Tail(R) /\ h = R[1]
  OBVIOUS
<1>2. /\ R # << >> /\ UNCHANGED <<life, queue, lock, handshake, buffers, queued, th, dt>>
      /\ running' = [running EXCEPT ![c] = T]
  BY <1>1 DEF Retire
<1>3. /\ running \in [Ctxts -> Seq(Msg)] /\ retired \in [Ctxts -> Ts] /\ R \in Seq(Msg)
      /\ queued \in [Ctxts -> Ts]
  BY <1>1 DEF IInv, GpuT
<1>4. /\ T \in Seq(Msg) /\ Len(R) \in Nat /\ Len(R) >= 1
      /\ DOMAIN T = 1 .. Len(R) - 1 /\ DOMAIN R = 1 .. Len(R)
      /\ \A i \in 1 .. Len(R) - 1 : T[i] = R[i + 1] /\ i + 1 \in 1 .. Len(R)
  BY <1>1, <1>2, <1>3, TailIs
<1>5. 1 \in DOMAIN R /\ h \in Msg /\ h.ts \in Ts /\ h.c = c /\ InFlight(h) /\ RunOK(c)
  <2>1. 1 \in DOMAIN R /\ h \in Msg
    BY <1>1, <1>3, <1>4
  <2>2. RunOK(c)
    BY DEF IInv, OrderI
  <2>3. h.c = c /\ InFlight(h)
    BY <1>1, <2>1, <2>2 DEF RunOK
  <2> QED
    BY <2>1, <2>2, <2>3, MsgFields
<1>6. retired' = [retired EXCEPT ![c] = h.ts]
  BY <1>1, <1>2, <1>3 DEF Retire
<1>7. /\ running'[c] = T /\ retired'[c] = h.ts
      /\ \A d \in Ctxts : d # c => running'[d] = running[d] /\ retired'[d] = retired[d]
      /\ running' \in [Ctxts -> Seq(Msg)] /\ retired' \in [Ctxts -> Ts]
  BY <1>2, <1>3, <1>4, <1>5, <1>6
<1>8. UNCHANGED <<dbcq_supported, dbq_ready, ctxt, req, busy, host, resets, ibdesc, indirect,
                  misfreed, forgotten>>
  BY <1>2 DEF life, handshake, buffers
<1>9. LifeT' /\ HandT' /\ BufferT' /\ ModeI' /\ ThT' /\ GpuT' /\ RingI'
  BY <1>2, <1>7, <1>8 DEF IInv, LifeT, HandT, BufferT, ModeI, ThT, GpuT, RingI
<1>10. ASSUME NEW x \in Msg, InFlight(x), x.c = c => Age(h.ts) < Age(x.ts) PROVE InFlight(x)'
  <2>1. CASE x.c = c
    BY <1>2, <1>7, <1>10, <2>1 DEF InFlight, Live
  <2>2. CASE x.c # c
    <3>1. retired'[x.c] = retired[x.c]
      BY <1>7, <2>2, MsgFields
    <3> QED
      BY <1>2, <1>10, <3>1 DEF InFlight, Live
  <2> QED
    BY <2>1, <2>2
<1>11. ASSUME NEW d \in Ctxts PROVE ClockOK(d)'
  <2>1. ClockOK(d)
    BY DEF IInv, OrderI
  <2>2. CASE d = c
    BY <1>2, <1>5, <1>7, <2>1, <2>2 DEF ClockOK, InFlight
  <2>3. CASE d # c
    BY <1>2, <1>7, <2>1, <2>3 DEF ClockOK
  <2> QED
    BY <2>2, <2>3
<1>12. ASSUME NEW d \in Ctxts PROVE RunOK(d)'
  <2>1. RunOK(d)
    BY DEF IInv, OrderI
  <2>2. CASE d # c
    <3>1. running'[d] = running[d]
      BY <1>7, <2>2
    <3>2. ASSUME NEW i \in DOMAIN running[d], NEW x, x = running[d][i] PROVE x.c = d /\ InFlight(x)'
      <4>1. x \in Msg /\ x.c = d /\ InFlight(x)
        BY <2>1, <3>2, RunningLive DEF RunOK
      <4> QED
        BY <1>10, <2>2, <4>1
    <3> QED
      BY <2>1, <3>1, <3>2 DEF RunOK, InFlight, Live
  <2>3. CASE d = c
    <3>1. running'[d] = T
      BY <1>7, <2>3
    <3>2. ASSUME NEW i \in DOMAIN T, NEW x, x = T[i] PROVE x.c = d /\ InFlight(x)'
      <4>1. i + 1 \in DOMAIN R /\ x = R[i + 1] /\ 1 < i + 1
        BY <1>4, <3>2
      <4>2. x \in Msg /\ x.c = c /\ InFlight(x) /\ Age(h.ts) < Age(x.ts)
        <5>1. x \in Msg
          BY <1>3, <1>4, <4>1
        <5>2. x.c = c /\ InFlight(x)
          BY <1>1, <1>5, <4>1 DEF RunOK
        <5>3. Age(R[1].ts) < Age(R[i + 1].ts)
          BY <1>1, <1>5, <4>1 DEF RunOK
        <5> QED
          BY <1>1, <4>1, <5>1, <5>2, <5>3
      <4> QED
        BY <1>10, <2>3, <4>2
    <3>3. ASSUME NEW i \in DOMAIN T, NEW j \in DOMAIN T, i < j PROVE Age(T[i].ts) < Age(T[j].ts)
      <4>1. /\ i + 1 \in DOMAIN R /\ T[i] = R[i + 1] /\ j + 1 \in DOMAIN R /\ T[j] = R[j + 1]
            /\ i + 1 < j + 1
        BY <1>4, <3>3
      <4> QED
        BY <1>1, <1>5, <4>1 DEF RunOK
    <3> QED
      BY <3>1, <3>2, <3>3 DEF RunOK, InFlight, Live
  <2> QED
    BY <2>2, <2>3
<1>13. ASSUME NEW u \in Queues PROVE PendOK(u)'
  <2>1. PendOK(u) /\ queue' = queue
    BY <1>2 DEF IInv, OrderI
  <2>2. ASSUME NEW i \in DOMAIN queue[u].pending, NEW x, x = queue[u].pending[i]
        PROVE  /\ InFlight(x)' /\ QueueOf(x.c) = u
               /\ \A k \in DOMAIN running'[x.c] : Age(running'[x.c][k].ts) < Age(x.ts)
    <3>1. /\ x \in Msg /\ InFlight(x) /\ QueueOf(x.c) = u
          /\ \A k \in DOMAIN running[x.c] : Age(running[x.c][k].ts) < Age(x.ts)
      BY <2>1, <2>2, PendingLive DEF PendOK
    <3>2. x.c = c => Age(h.ts) < Age(x.ts)
      BY <1>1, <1>5, <3>1
    <3>3. InFlight(x)'
      BY <1>10, <3>1, <3>2
    <3>4. ASSUME NEW k \in DOMAIN running'[x.c] PROVE Age(running'[x.c][k].ts) < Age(x.ts)
      <4>1. CASE x.c # c
        <5>1. running'[x.c] = running[x.c]
          BY <1>7, <3>1, <4>1, MsgFields
        <5> QED
          BY <3>1, <3>4, <5>1
      <4>2. CASE x.c = c
        <5>1. running'[x.c] = T
          BY <1>7, <4>2
        <5>2. k + 1 \in DOMAIN R /\ T[k] = R[k + 1]
          BY <1>4, <3>4, <5>1
        <5> QED
          BY <1>1, <3>1, <4>2, <5>1, <5>2
      <4> QED
        BY <4>1, <4>2
    <3> QED
      BY <3>1, <3>3, <3>4
  <2> QED
    BY <1>8, <2>1, <2>2 DEF PendOK, InFlight, Live, QueueOf
<1>14. OrderI'
  BY <1>11, <1>12, <1>13 DEF OrderI
<1>15. KeptI'
  <2>1. KeptI /\ queue' = queue
    BY <1>2 DEF IInv
  <2>2. ASSUME NEW d \in Ctxts, NEW i \in DOMAIN running'[d], NEW x, x = running'[d][i], x.batch
        PROVE  Kept(x)
    <3>1. CASE d # c
      <4>1. running'[d] = running[d]
        BY <1>7, <3>1
      <4> QED
        BY <2>1, <2>2, <4>1 DEF KeptI
    <3>2. CASE d = c
      <4>1. running'[d] = T
        BY <1>7, <3>2
      <4>2. i + 1 \in DOMAIN R /\ x = R[i + 1]
        BY <1>4, <2>2, <4>1
      <4> QED
        BY <1>1, <2>1, <2>2, <3>2, <4>2 DEF KeptI
    <3> QED
      BY <3>1, <3>2
  <2>3. (\A d \in Ctxts : \A i \in DOMAIN running[d] : running[d][i].batch => Kept(running[d][i]))'
    BY <1>8, <2>2 DEF Kept
  <2> QED
    BY <1>8, <2>1, <2>3 DEF KeptI, Kept
<1>16. ASSUME NEW d \in Ctxts PROVE ThreadOK(d)'
  <2>1. Keeps
    BY <1>2, <1>8, BuffersKeep
  <2> QED
    BY <1>2, <1>8, <2>1, OtherThread
<1> QED
  BY <1>9, <1>14, <1>15, <1>16 DEF IInv, ThreadI

LEMMA DestroyCloseOK == ASSUME IInv, NEW c \in Ctxts, DestroyClose(c) PROVE IInv'
<1>1. /\ dbcq_supported /\ th[c].pc = "idle" /\ dt' = [dt EXCEPT ![c].pc = "closed"]
      /\ queue' = [queue EXCEPT ![c] = EmptyQueue] /\ running' = [running EXCEPT ![c] = << >>]
      /\ UNCHANGED <<life, lock, handshake, buffers, queued, retired, th>>
  BY DEF DestroyClose
<1>2. /\ running \in [Ctxts -> Seq(Msg)] /\ queue \in [Queues -> QueueT] /\ c \in Queues
      /\ EmptyQueue \in QueueT /\ Ring(EmptyQueue) /\ EmptyQueue.pending = << >>
  BY EmptyRing DEF IInv, GpuT, Queues, EmptyQueue
<1>3. /\ queue' \in [Queues -> QueueT] /\ queue'[c] = EmptyQueue /\ queue'[c].pending = << >>
      /\ \A u \in Queues : u # c => queue'[u] = queue[u]
  BY <1>1, <1>2
<1>4. /\ running' \in [Ctxts -> Seq(Msg)] /\ running'[c] = << >>
      /\ \A d \in Ctxts : d # c => running'[d] = running[d]
  BY <1>1, <1>2
<1>5. UNCHANGED <<dbcq_supported, dbq_ready, ctxt, req, busy, host, resets, ibdesc, indirect,
                  misfreed, forgotten>>
  BY <1>1 DEF life, handshake, buffers
<1>6. LifeT' /\ HandT' /\ BufferT' /\ ModeI' /\ GpuT'
  BY <1>1, <1>3, <1>4, <1>5 DEF IInv, LifeT, HandT, BufferT, ModeI, GpuT
<1>7. ThT'
  BY <1>1 DEF IInv, ThT, DestroyT
<1>8. RingI'
  BY <1>2, <1>3 DEF IInv, RingI
<1>9. ASSUME NEW d \in Ctxts PROVE (ClockOK(d) /\ RunOK(d))'
  <2>1. ClockOK(d) /\ RunOK(d)
    BY DEF IInv, OrderI
  <2>2. CASE d = c
    BY <1>1, <1>4, <2>1, <2>2 DEF ClockOK, RunOK
  <2>3. CASE d # c
    <3>1. running'[d] = running[d]
      BY <1>4, <2>3
    <3> QED
      BY <1>1, <2>1, <3>1 DEF ClockOK, RunOK, InFlight, Live
  <2> QED
    BY <2>2, <2>3
<1>10. ASSUME NEW u \in Queues PROVE PendOK(u)'
  <2>1. PendOK(u)
    BY DEF IInv, OrderI
  <2>2. CASE u = c
    BY <1>3, <2>2 DEF PendOK
  <2>3. CASE u # c
    <3>1. queue'[u] = queue[u]
      BY <1>3, <2>3
    <3>2. ASSUME NEW i \in DOMAIN queue[u].pending
          PROVE  running'[queue[u].pending[i].c] = running[queue[u].pending[i].c]
      <4>1. PICK x \in Msg : x = queue[u].pending[i] /\ QueueOf(x.c) = u
        BY PendingLive
      <4>2. x.c \in Ctxts /\ x.c # c
        BY <1>1, <2>3, <4>1, MsgFields DEF QueueOf
      <4> QED
        BY <1>4, <4>1, <4>2
    <3>3. UNCHANGED <<dbcq_supported, queued, retired>>
      BY <1>1, <1>5
    <3> QED
      BY <2>1, <3>1, <3>2, <3>3 DEF PendOK, InFlight, Live, QueueOf
  <2> QED
    BY <2>2, <2>3
<1>11. OrderI'
  BY <1>9, <1>10 DEF OrderI
<1>12. KeptI'
  <2>1. KeptI
    BY DEF IInv
  <2>2. ASSUME NEW u \in Queues, NEW i \in DOMAIN queue'[u].pending PROVE queue'[u] = queue[u]
    BY <1>3, <2>2
  <2>3. ASSUME NEW d \in Ctxts, NEW i \in DOMAIN running'[d] PROVE running'[d] = running[d]
    BY <1>4, <2>3
  <2> QED
    BY <1>5, <2>1, <2>2, <2>3, ZenonT(60) DEF KeptI, Kept
<1>13. ASSUME NEW d \in Ctxts PROVE ThreadOK(d)'
  <2>1. CASE d = c
    BY <1>1, <2>1 DEF ThreadOK, Locked, Roomy, Claimed
  <2>2. CASE d # c
    <3>1. Keeps
      BY <1>1, <1>5, BuffersKeep
    <3>2. queue'[d] = queue[d]
      BY <1>3, <2>2 DEF Queues
    <3> QED
      BY <1>1, <1>5, <3>1, <3>2, OtherThread
  <2> QED
    BY <2>1, <2>2
<1> QED
  BY <1>6, <1>7, <1>8, <1>11, <1>12, <1>13 DEF IInv, ThreadI

-----------------------------------------------------------------------------
(* The specification.                                                      *)

LEMMA InitIInv == ASSUME Init PROVE IInv
<1>1. 0 \in Ts /\ StartTs \in Ts
  BY Sizes DEF Ts, TsMod
<1>2. LifeT /\ HandT
  <2>1. LifeT
    BY DEF Init, LifeT, CtxtSt
  <2>2. resets = 0 /\ 0 \in 0 .. MaxResets
    BY Sizes DEF Init
  <2>3. HandT
    BY <2>2 DEF Init, HandT
  <2> QED
    BY <2>1, <2>3
<1>3. BufferT
  <2>1. ibdesc \in IbdescT
    BY <1>1 DEF Init, IbdescT
  <2>2. indirect \in [Ctxts -> IndirectT]
    BY <1>1 DEF Init, IndirectT
  <2> QED
    BY <2>1, <2>2 DEF Init, BufferT
<1>4. GpuT /\ RingI
  BY <1>1, EmptyRing DEF Init, GpuT, RingI
<1>5. ThT
  BY DEF Init, ThT, ThreadT, DestroyT, Idle, NoDestroy, IssuePc
<1>6. ModeI
  BY DEF Init, ModeI
<1>7. \A q \in Queues : queue[q].pending = << >>
  BY DEF Init, EmptyQueue
<1>8. ASSUME NEW c \in Ctxts PROVE ClockOK(c) /\ RunOK(c)
  <2>1. queued[c] = StartTs /\ retired[c] = StartTs /\ running[c] = << >>
    BY DEF Init
  <2>2. ClockOK(c)
    BY <2>1, StartAge, Sizes DEF ClockOK
  <2> QED
    BY <2>1, <2>2 DEF RunOK
<1>9. OrderI
  BY <1>7, <1>8 DEF OrderI, PendOK
<1>10. KeptI
  BY <1>7 DEF Init, KeptI
<1>11. ThreadI
  <2>1. ASSUME NEW c \in Ctxts PROVE th[c].pc = "idle"
    BY DEF Init, Idle
  <2> QED
    BY <2>1 DEF ThreadI, ThreadOK, Locked, Roomy, Claimed
<1> QED
  BY <1>2, <1>3, <1>4, <1>5, <1>6, <1>9, <1>10, <1>11 DEF IInv

LEMMA IssueStepsOK == ASSUME IInv, NEW c \in Ctxts, IssueSteps(c) PROVE IInv'
<1>1. CASE hgsl_dbcq_open(c)
  BY <1>1, OpenOK
<1>2. CASE \E intr \in BOOLEAN : hgsl_dbcq_open_fails(c, intr)
  BY <1>2, OpenFailsOK
<1>3. CASE ClaimFree(c)
  BY <1>3, ClaimFreeOK
<1>4. CASE ClaimOrphan(c)
  BY <1>4, Returns DEF ClaimOrphan
<1>5. CASE ClaimWait(c)
  BY <1>5, ClaimWaitOK
<1>6. CASE ClaimAgain(c)
  BY <1>6, ClaimAgainOK
<1>7. CASE ClaimGivesUp(c)
  BY <1>7, Returns DEF ClaimGivesUp
<1>8. CASE IndirectClaim(c)
  BY <1>8, IndirectClaimOK
<1>9. CASE IndirectGivesUp(c)
  BY <1>9, Returns DEF IndirectGivesUp
<1>10. CASE SendLock(c)
  BY <1>10, SendLockOK
<1>11. CASE SendReq(c)
  BY <1>11, SendReqOK
<1>12. CASE SendBusy(c)
  BY <1>12, SendBusyOK
<1>13. CASE Room(c)
  BY <1>13, RoomOK
<1>14. CASE Granted(c)
  BY <1>14, GrantedOK
<1>15. CASE ContextRoom(c)
  BY <1>15, ContextRoomOK
<1>16. CASE SendGivesUp(c)
  BY <1>16, SendGivesUpOK
<1>17. CASE Copy(c)
  BY <1>17, CopyOK
<1>18. CASE Publish(c)
  BY <1>18, PublishOK
<1>19. CASE SendQuit(c)
  BY <1>19, SendQuitOK
<1>20. CASE ContextPublish(c)
  BY <1>20, ContextPublishOK
<1> QED
  BY <1>1, <1>2, <1>3, <1>4, <1>5, <1>6, <1>7, <1>8, <1>9, <1>10, <1>11, <1>12, <1>13, <1>14,
     <1>15, <1>16, <1>17, <1>18, <1>19, <1>20 DEF IssueSteps

LEMMA StutterIInv == ASSUME IInv, UNCHANGED vars PROVE IInv'
<1>1. /\ UNCHANGED <<life, queue, lock, handshake, buffers, queued, gpu, th, dt>>
      /\ UNCHANGED <<dbcq_supported, dbq_ready, ctxt>>
  BY DEF vars, life
<1>2. ctxt' \in [Ctxts -> CtxtSt] /\ dbq_ready' \in BOOLEAN /\ dt' \in [Ctxts -> DestroyT]
  BY <1>1 DEF IInv, LifeT, ThT
<1>3. ModeI'
  BY <1>1 DEF IInv, ModeI, handshake
<1> QED
  BY <1>1, <1>2, <1>3, BuffersKeep, QuietStep

LEMMA NextIInv == ASSUME IInv, [Next]_vars PROVE IInv'
<1>1. ASSUME NEW c \in Ctxts, Create(c) PROVE IInv'
  BY <1>1, CreateOK
<1>2. ASSUME NEW c \in Ctxts, NEW n \in MsgSizes, Issue(c, n) PROVE IInv'
  BY <1>2, IssueOK
<1>3. ASSUME NEW c \in Ctxts, IssueSteps(c) PROVE IInv'
  BY <1>3, IssueStepsOK
<1>4. ASSUME NEW c \in Ctxts, GiveWay(c) PROVE IInv'
  BY <1>4, GiveWayOK
<1>5. ASSUME NEW c \in Ctxts, DestroyFree(c) PROVE IInv'
  BY <1>5, DestroyFreeOK
<1>6. ASSUME NEW c \in Ctxts, NEW retry \in BOOLEAN, DestroyWait(c, retry) PROVE IInv'
  BY <1>6, DestroyWaitOK
<1>7. ASSUME NEW c \in Ctxts, DestroySteps(c) PROVE IInv'
  BY <1>7, DestroyAgainOK, DestroyGivesUpOK, DestroyCloseOK DEF DestroySteps
<1>8. ASSUME NEW c \in Ctxts, Retire(c) PROVE IInv'
  BY <1>8, RetireOK
<1>9. ASSUME NEW q \in Queues, FirmwareRead(q) PROVE IInv'
  BY <1>9, FirmwareReadOK
<1>10. CASE HostAsk \/ Host
  BY <1>10, HostOK
<1>11. CASE UNCHANGED vars
  BY <1>11, StutterIInv
<1> QED
  BY <1>1, <1>2, <1>3, <1>4, <1>5, <1>6, <1>7, <1>8, <1>9, <1>10, <1>11 DEF Next

LEMMA IInvAlways == Spec => []IInv
<1>1. Init => IInv
  BY InitIInv
<1>2. IInv /\ [Next]_vars => IInv'
  BY NextIInv
<1> QED
  BY <1>1, <1>2, PTL DEF Spec

\* TypeOK follows from the parts of the invariant.
LEMMA TypesOK == ASSUME IInv PROVE TypeOK
<1>1. ASSUME NEW q \in Queues
      PROVE  /\ queue[q].wptr \in 0 .. RingSize - 1 /\ queue[q].rptr \in 0 .. RingSize - 1
             /\ queue[q].body \in [0 .. RingSize - 1 -> Dword] /\ queue[q].pending \in Seq(Msg)
  <2>1. queue[q] \in QueueT
    BY DEF IInv, GpuT
  <2> QED
    BY <2>1, QueueFields DEF Body
<1>2. ASSUME NEW c \in Ctxts PROVE th[c].pc \in IssuePc /\ running[c] \in Seq(Msg)
  BY DEF IInv, ThT, ThreadT, GpuT
<1>3. ASSUME NEW c \in Ctxts PROVE dt[c].pc \in {"none", "wait", "removed", "closed"}
  BY DEF IInv, ThT, DestroyT
<1>4. LifeT /\ HandT /\ GpuT
  BY DEF IInv
<1> QED
  BY <1>1, <1>2, <1>3, <1>4 DEF TypeOK, LifeT, HandT, GpuT, CtxtSt

\* The firmware finds every message that was sent, whole and in order, in every
\* ring: db_send_msg and dbcq_send_msg write neither over a message that was
\* not read nor past the read index, whatever the sizes and wherever it wraps.
THEOREM RingHoldsAlways == Spec => []RingHoldsMessages
<1>1. IInv => RingHoldsMessages
  <2>1. ASSUME IInv PROVE RingHoldsMessages
    <3>1. TypeOK
      BY <2>1, TypesOK
    <3>2. \A q \in Queues : Ring(queue[q])
      BY <2>1 DEF IInv, RingI
    <3> QED
      BY <3>1, <3>2 DEF RingHoldsMessages, Ring
  <2> QED
    BY <2>1
<1> QED
  BY <1>1, IInvAlways, PTL

\* Nobody writes the shared ring while the host resets the GPU, except a sender
\* that gave way before: dispatch_in_busy is set before hard_reset_req is read
\* again (db_queue_wait_freewords).
THEOREM ResetQuietAlways == Spec => []ResetQuiet
<1>1. IInv => ResetQuiet
  <2>1. ASSUME IInv, NEW c \in Ctxts, host = "reset", th[c].pc \in {"copy", "publish"}
        PROVE  dbcq_supported \/ th[c].gave
    BY <2>1, Inside DEF ThreadOK, Roomy
  <2> QED
    BY <2>1 DEF ResetQuiet
<1> QED
  BY <1>1, IInvAlways, PTL

\* The descriptors of a batch stay in their buffer until the batch has retired
\* (dbq_wait_free_ibdesc, dbcq_get_free_indirect_ib_buffer), up to the two ways
\* of losing track of the owner that the model records.
THEOREM BatchKeptAlways == Spec => []BatchKept
<1>1. IInv => BatchKept
  <2>1. ASSUME IInv, NEW m \in Unretired
        PROVE  IF dbcq_supported THEN indirect[m.c].data = m \/ m.c \in forgotten
                                 ELSE ibdesc.data = m \/ misfreed
    <3>1. m.batch
      BY DEF Unretired
    <3>2. \/ \E q \in Queues : m \in ToSet(queue[q].pending)
          \/ \E c \in Ctxts : m \in ToSet(running[c])
      BY DEF Unretired
    <3>3. Kept(m)
      <4>1. CASE \E q \in Queues : m \in ToSet(queue[q].pending)
        <5>1. PICK q \in Queues : m \in ToSet(queue[q].pending)
          BY <4>1
        <5>2. PICK i \in DOMAIN queue[q].pending : m = queue[q].pending[i]
          BY <5>1 DEF ToSet
        <5> QED
          BY <2>1, <3>1, <5>2, PendingLive
      <4>2. CASE \E c \in Ctxts : m \in ToSet(running[c])
        <5>1. PICK c \in Ctxts : m \in ToSet(running[c])
          BY <4>2
        <5>2. PICK i \in DOMAIN running[c] : m = running[c][i]
          BY <5>1 DEF ToSet
        <5> QED
          BY <2>1, <3>1, <5>2, RunningLive
      <4> QED
        BY <3>2, <4>1, <4>2
    <3> QED
      BY <3>3 DEF Kept
  <2> QED
    BY <2>1 DEF BatchKept
<1> QED
  BY <1>1, IInvAlways, PTL

=============================================================================
