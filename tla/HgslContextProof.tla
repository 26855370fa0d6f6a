-------------------------- MODULE HgslContextProof --------------------------
(***************************************************************************)
(* Proofs about HgslContext, for every finite set of client threads in any *)
(* number of processes, every size of the context table and every number   *)
(* of contexts.                                                            *)
(*                                                                         *)
(* The argument is one of ownership.  A context that lives has exactly one *)
(* owner: the table, the thread that creates it, or the thread that took   *)
(* it out of the table to destroy it (OwnI).  The owner's reference and    *)
(* those of its users are counted exactly (RefsI), so that when the count  *)
(* is zero nobody but the destroyer has it.  The id of a context has one   *)
(* claimant in the same way (IdsI), and what the worker of hgsl_release    *)
(* has passed over stays empty (ReleaseI).                                 *)
(***************************************************************************)
EXTENDS HgslContext, FiniteSetTheorems, WellFoundedInduction, TLAPS

ClientPc == {"use", "put", "wait", "check", "asleep", "delist", "insert", "ibdesc_retry"}
OwnerPc == {"insert", "flag", "wake", "drop", "spin", "free"}
DestroyPc == {"destroy", "ibdesc", "remove"}
NoObjectPc == {"idle", "destroy", "remove"}
Pcs == ClientPc \cup OwnerPc \cup DestroyPc \cup {"idle", "signal"}

ObjT == [st : {"none", "live", "freed"}, id : 0 .. NumIds, priv : Procs \cup {"none"},
         kref : Int, async : BOOLEAN, retired : BOOLEAN, in_destroy : BOOLEAN,
         destroyed : BOOLEAN]

\* TypeOK with every variable; that the counts are not negative is in RefsI.
TypeI ==
    /\ contexts \in [Ids -> 0 .. NumObjs]
    /\ obj \in [Objs -> ObjT]
    /\ backend \subseteq Ids
    /\ pc \in [Threads -> Pcs]
    /\ at \in [Threads -> 0 .. NumObjs]
    /\ cid \in [Threads -> 0 .. NumIds + 1]
    /\ active_wait_list \subseteq Clients
    /\ work \in BOOLEAN
    /\ file \in [Procs -> {"open", "closed", "releasing", "released"}]

\* What a thread has in hand where it is.
ThreadI ==
    /\ \A t \in Threads :
          /\ pc[t] \in NoObjectPc => at[t] = 0
          /\ pc[t] \notin NoObjectPc \cup {"signal"} => at[t] # 0
          /\ pc[t] \in (OwnerPc \ {"free"}) \cup DestroyPc \cup {"ibdesc_retry"} => cid[t] \in Ids
          /\ pc[t] = "signal" =>
                t = Retire /\ cid[t] # 0 /\ (at[t] # 0 => cid[t] \in Ids)
    /\ pc[Retire] \in {"idle", "signal"}
    /\ pc[Release] \notin ClientPc
    /\ \A t \in active_wait_list : pc[t] \in {"check", "asleep", "delist"}

Own(t) == pc[t] \in OwnerPc
Slots(o) == {i \in Ids : contexts[i] = o}
Holders(o) == {t \in Threads : at[t] = o /\ pc[t] \notin {"spin", "free"}}
One(b) == IF b THEN 1 ELSE 0

\* The reference count of every context.
Counted(o) ==
    IF obj[o].st = "live"
    THEN /\ obj[o].kref = Cardinality(Slots(o)) + Cardinality(Holders(o)) + One(obj[o].async)
         /\ obj[o].destroyed => obj[o].kref = 0
    ELSE obj[o].kref \in Nat /\ ~obj[o].async
RefsI == \A o \in Objs : Counted(o)

\* A context that is referred to lives, and has one owner.
OwnI ==
    /\ \A i \in Ids : contexts[i] # 0 => obj[contexts[i]].st = "live"
    /\ \A t \in Threads : at[t] # 0 => obj[at[t]].st = "live"
    /\ \A i, j \in Ids : contexts[i] # 0 /\ contexts[i] = contexts[j] => i = j
    /\ \A t \in Threads : Own(t) => \A i \in Ids : contexts[i] # at[t]
    /\ \A t, u \in Threads : Own(t) /\ Own(u) /\ at[t] = at[u] => t = u
    /\ \A t \in Threads : pc[t] = "free" => obj[at[t]].destroyed
    /\ \A o \in Objs : obj[o].st = "live" =>
          Slots(o) # {} \/ \E t \in Threads : Own(t) /\ at[t] = o

\* The id of a context in the table, or of one being created or destroyed, is the
\* back end's, and nobody else has it.
Claims(t) == pc[t] \in {"insert", "flag", "wake", "drop", "spin"}
IdsI ==
    /\ \A i \in Ids : contexts[i] # 0 => i \in backend
    /\ \A t \in Threads : Claims(t) => cid[t] \in backend /\ contexts[cid[t]] = 0
    /\ \A t, u \in Threads : Claims(t) /\ Claims(u) /\ cid[t] = cid[u] => t = u

\* A closed process does nothing more, and the release destroys its contexts in
\* the order of their ids.
ReleaseI ==
    /\ \A t \in Clients : file[ProcOf[t]] # "open" => pc[t] = "idle"
    /\ \A p, q \in Procs : file[p] = "releasing" /\ file[q] = "releasing" => p = q
    /\ (\A p \in Procs : file[p] # "releasing") => cid[Release] = 0 /\ pc[Release] = "idle"
    /\ \A o \in Objs : obj[o].st = "none" <=> obj[o].priv = "none"
    /\ \A t \in Clients : Own(t) => obj[at[t]].priv = ProcOf[t]
    /\ Own(Release) => file[obj[at[Release]].priv] = "releasing"
    /\ \A i \in Ids : contexts[i] # 0 /\ file[obj[contexts[i]].priv] = "releasing" =>
          i > cid[Release] \/ (i = cid[Release] /\ pc[Release] \in DestroyPc)
    /\ \A o \in Objs : obj[o].st = "live" => file[obj[o].priv] # "released"

IInv == TypeI /\ ThreadI /\ RefsI /\ OwnI /\ IdsI /\ ReleaseI

-----------------------------------------------------------------------------
(* Counting, and the records of contexts.                                  *)

LEMMA ThreadFacts ==
    /\ Release \in Threads /\ Retire \in Threads /\ Release # Retire
    /\ Release \notin Clients /\ Retire \notin Clients /\ Clients \subseteq Threads
    /\ \A t \in Clients : ProcOf[t] \in Procs
    /\ NumIds \in Nat /\ NumObjs \in Nat /\ "none" \notin Procs
<1>1. Release # Retire
  BY DEF Release, Retire
<1> QED
  BY <1>1, ContextAssumption DEF Threads, Procs

LEMMA ThreadsFinite == IsFiniteSet(Threads)
<1>1. IsFiniteSet(Clients \cup {Release})
  BY FS_AddElement, ContextAssumption
<1>2. IsFiniteSet((Clients \cup {Release}) \cup {Retire})
  BY <1>1, FS_AddElement
<1>3. (Clients \cup {Release}) \cup {Retire} = Threads
  BY DEF Threads
<1> QED
  BY <1>2, <1>3

\* Sets of threads and of ids count one more or one less.
LEMMA CountThreads ==
    ASSUME NEW S \in SUBSET Threads
    PROVE  /\ Cardinality(S) \in Nat
           /\ Cardinality(S) = 0 <=> S = {}
           /\ \A t \in Threads \ S : Cardinality(S \cup {t}) = Cardinality(S) + 1
           /\ \A t \in S : Cardinality(S \ {t}) = Cardinality(S) - 1
<1>1. IsFiniteSet(S)
  BY FS_Subset, ThreadsFinite
<1>2. \A t \in Threads \ S : Cardinality(S \cup {t}) = Cardinality(S) + 1
  BY <1>1, FS_AddElement
<1>3. \A t \in S : Cardinality(S \ {t}) = Cardinality(S) - 1
  BY <1>1, FS_RemoveElement
<1> QED
  BY <1>1, <1>2, <1>3, FS_CardinalityType, FS_EmptySet

LEMMA CountIds ==
    ASSUME NEW S \in SUBSET Ids
    PROVE  /\ Cardinality(S) \in Nat
           /\ Cardinality(S) = 0 <=> S = {}
           /\ \A i \in Ids \ S : Cardinality(S \cup {i}) = Cardinality(S) + 1
           /\ \A i \in S : Cardinality(S \ {i}) = Cardinality(S) - 1
<1>1. IsFiniteSet(Ids)
  BY FS_Interval, ContextAssumption DEF Ids
<1>2. IsFiniteSet(S)
  BY <1>1, FS_Subset
<1>3. \A i \in Ids \ S : Cardinality(S \cup {i}) = Cardinality(S) + 1
  BY <1>2, FS_AddElement
<1>4. \A i \in S : Cardinality(S \ {i}) = Cardinality(S) - 1
  BY <1>2, FS_RemoveElement
<1> QED
  BY <1>2, <1>3, <1>4, FS_CardinalityType, FS_EmptySet

\* A set of natural numbers has a least one.
Less == {pair \in Nat \X Nat : pair[1] < pair[2]}

LEMMA LeastExists ==
    ASSUME NEW S \in SUBSET Nat, S # {}
    PROVE  \E x \in S : \A y \in S : x <= y
<1>1. IsWellFoundedOn(Less, Nat)
  BY NatLessThanWellFounded DEF OpToRel, Less
<1>2. PICK x \in S : \A y \in S : ~(<<y, x>> \in Less)
  BY <1>1, WFMin
<1>3. \A y \in S : y < x => <<y, x>> \in Less
  BY DEF Less
<1>4. \A y \in S : ~(y < x)
  BY <1>2, <1>3
<1> QED
  BY <1>2, <1>4

LEMMA OneIsNat == \A b : One(b) \in Nat
  BY DEF One

\* kref_get and kref_put change the count, and kref_put tells the destroyer.
LEMMA GotIs ==
    ASSUME NEW r \in ObjT
    PROVE  /\ Got(r) \in ObjT /\ Got(r).kref = r.kref + 1
           /\ Got(r).st = r.st /\ Got(r).priv = r.priv /\ Got(r).async = r.async
           /\ Got(r).destroyed = r.destroyed
  BY DEF Got, ObjT

LEMMA PutIs ==
    ASSUME NEW r \in ObjT
    PROVE  /\ Put(r) \in ObjT /\ Put(r).kref = r.kref - 1
           /\ Put(r).st = r.st /\ Put(r).priv = r.priv /\ Put(r).async = r.async
           /\ Put(r).destroyed <=> r.kref = 1
<1> DEFINE b == (r.kref = 1)
<1>1. b \in BOOLEAN
  OBVIOUS
<1>2. Put(r) = [r EXCEPT !.kref = r.kref - 1, !.destroyed = b]
  BY DEF Put, ObjT
<1>3. b <=> r.kref = 1
  OBVIOUS
<1> HIDE DEF b
<1> DEFINE q == [r EXCEPT !.kref = r.kref - 1]
<1>5. /\ q \in ObjT /\ q.kref = r.kref - 1
      /\ q.st = r.st /\ q.priv = r.priv /\ q.async = r.async
  BY DEF ObjT
<1>6. Put(r) = [q EXCEPT !.destroyed = b]
  BY <1>2 DEF ObjT
<1> HIDE DEF q
<1>4. /\ Put(r) \in ObjT /\ Put(r).kref = r.kref - 1
      /\ Put(r).st = r.st /\ Put(r).priv = r.priv /\ Put(r).async = r.async
      /\ Put(r).destroyed = b
  BY <1>1, <1>5, <1>6 DEF ObjT
<1> QED
  BY <1>3, <1>4

\* What a slot or a thread refers to is a context.
LEMMA RefersTo ==
    ASSUME TypeI
    PROVE  /\ 0 \notin Objs
           /\ \A i \in Ids : contexts[i] # 0 => contexts[i] \in Objs
           /\ \A t \in Threads : at[t] # 0 => at[t] \in Objs
           /\ \A o \in Objs : obj[o] \in ObjT
  BY ThreadFacts DEF TypeI, Objs

\* The count of a context that lives, and what it says when it is zero.
LEMMA RefsAre ==
    ASSUME TypeI, RefsI, NEW o \in Objs, obj[o].st = "live"
    PROVE  /\ Cardinality(Slots(o)) \in Nat /\ Cardinality(Holders(o)) \in Nat
           /\ obj[o].kref \in Nat
           /\ obj[o].kref = Cardinality(Slots(o)) + Cardinality(Holders(o)) + One(obj[o].async)
           /\ obj[o].kref = 0 => Slots(o) = {} /\ Holders(o) = {} /\ ~obj[o].async
           /\ Slots(o) # {} \/ Holders(o) # {} \/ obj[o].async =>
                 obj[o].kref > 0 /\ ~obj[o].destroyed
<1>1. /\ Cardinality(Slots(o)) \in Nat
      /\ Cardinality(Slots(o)) = 0 <=> Slots(o) = {}
  BY CountIds DEF Slots
<1>2. /\ Cardinality(Holders(o)) \in Nat
      /\ Cardinality(Holders(o)) = 0 <=> Holders(o) = {}
  BY CountThreads DEF Holders
<1>3. /\ obj[o].kref = Cardinality(Slots(o)) + Cardinality(Holders(o)) + One(obj[o].async)
      /\ obj[o].destroyed => obj[o].kref = 0
  BY DEF RefsI, Counted
<1> QED
  BY <1>1, <1>2, <1>3 DEF One

-----------------------------------------------------------------------------
(* The kinds of steps.                                                     *)

SameObj(o) ==
    /\ obj'[o].st = obj[o].st /\ obj'[o].kref = obj[o].kref /\ obj'[o].async = obj[o].async
    /\ obj'[o].destroyed = obj[o].destroyed

\* The counts of all contexts but one are as they were.
SameRefs(o) ==
    \A q \in Objs \ {o} : SameObj(q) /\ Slots(q)' = Slots(q) /\ Holders(q)' = Holders(q)

LEMMA RefsOfOne ==
    ASSUME IInv, NEW o \in Objs, SameRefs(o), Counted(o)' PROVE RefsI'
<1>1. ASSUME NEW q \in Objs, q # o PROVE Counted(q)'
  BY <1>1 DEF SameRefs, SameObj, IInv, RefsI, Counted
<1> QED
  BY <1>1 DEF RefsI

\* Most steps leave the table, the owners and the ids alone: a thread that does
\* not own a context takes or puts a reference, or goes on with what it has.
Calm ==
    /\ UNCHANGED <<contexts, backend, file>>
    /\ \A o \in Objs :
          /\ obj'[o].st = obj[o].st /\ obj'[o].priv = obj[o].priv
          /\ obj[o].st = "live" /\ obj[o].destroyed => obj'[o].destroyed
    /\ \A u \in Threads :
          /\ Own(u)' <=> Own(u)
          /\ Claims(u)' <=> Claims(u)
          /\ Own(u) => at'[u] = at[u] /\ cid'[u] = cid[u]
          /\ at'[u] # 0 => at'[u] \in Objs /\ obj[at'[u]].st = "live"
          /\ pc'[u] = "free" => pc[u] = "free"
    /\ \A u \in Clients : pc'[u] # "idle" => pc[u] # "idle" \/ file[ProcOf[u]] = "open"
    /\ cid'[Release] = cid[Release]
    /\ pc[Release] = "idle" => pc'[Release] = "idle"
    /\ pc[Release] \in DestroyPc => pc'[Release] \in DestroyPc

LEMMA CalmKeeps == ASSUME IInv, Calm PROVE OwnI' /\ IdsI' /\ ReleaseI'
<1>1. \A o \in Objs : Slots(o)' = Slots(o)
  BY DEF Calm, Slots
<1>2. \A u \in Threads : Own(u) => at[u] # 0
  BY DEF IInv, ThreadI, Own, OwnerPc, NoObjectPc
<1>3. \A u \in Threads : Claims(u) => Own(u)
  BY DEF Claims, Own, OwnerPc
<1>4. OwnI'
  <2>1. \A i \in Ids : contexts'[i] # 0 => obj'[contexts'[i]].st = "live"
    BY RefersTo DEF Calm, IInv, OwnI
  <2>2. \A u \in Threads : at'[u] # 0 => obj'[at'[u]].st = "live"
    BY DEF Calm
  <2>3. \A i, j \in Ids : contexts'[i] # 0 /\ contexts'[i] = contexts'[j] => i = j
    BY DEF Calm, IInv, OwnI
  <2>4. \A u \in Threads : Own(u)' => \A i \in Ids : contexts'[i] # at'[u]
    BY DEF Calm, IInv, OwnI
  <2>5. \A t, u \in Threads : Own(t)' /\ Own(u)' /\ at'[t] = at'[u] => t = u
    BY DEF Calm, IInv, OwnI
  <2>6. \A u \in Threads : pc'[u] = "free" => obj'[at'[u]].destroyed
    <3> SUFFICES ASSUME NEW u \in Threads, pc'[u] = "free" PROVE obj'[at'[u]].destroyed
      OBVIOUS
    <3>1. pc[u] = "free" /\ Own(u) /\ at'[u] = at[u]
      BY DEF Calm, Own, OwnerPc
    <3>2. at[u] \in Objs /\ obj[at[u]].st = "live" /\ obj[at[u]].destroyed
      BY <1>2, <3>1, RefersTo DEF IInv, OwnI
    <3> QED
      BY <3>1, <3>2 DEF Calm
  <2>7. \A o \in Objs : obj'[o].st = "live" =>
            Slots(o)' # {} \/ \E t \in Threads : Own(t)' /\ at'[t] = o
    BY <1>1 DEF Calm, IInv, OwnI
  <2> QED
    BY <2>1, <2>2, <2>3, <2>4, <2>5, <2>6, <2>7 DEF OwnI
<1>5. IdsI'
  BY <1>3 DEF Calm, IInv, IdsI
<1>6. ReleaseI'
  <2>1. \A t \in Clients : file'[ProcOf[t]] # "open" => pc'[t] = "idle"
    BY DEF Calm, IInv, ReleaseI
  <2>2. \A p, q \in Procs : file'[p] = "releasing" /\ file'[q] = "releasing" => p = q
    BY DEF Calm, IInv, ReleaseI
  <2>3. (\A p \in Procs : file'[p] # "releasing") => cid'[Release] = 0 /\ pc'[Release] = "idle"
    BY DEF Calm, IInv, ReleaseI
  <2>4. \A o \in Objs : obj'[o].st = "none" <=> obj'[o].priv = "none"
    BY DEF Calm, IInv, ReleaseI
  <2>5. \A t \in Threads : Own(t)' => Own(t) /\ at'[t] = at[t] /\ at[t] \in Objs
    BY <1>2, RefersTo DEF Calm, IInv
  <2>6. \A t \in Clients : Own(t)' => obj'[at'[t]].priv = ProcOf[t]
    BY <2>5, ThreadFacts DEF Calm, IInv, ReleaseI
  <2>7. Own(Release)' => file'[obj'[at'[Release]].priv] = "releasing"
    BY <2>5, ThreadFacts DEF Calm, IInv, ReleaseI
  <2>8. \A i \in Ids : contexts'[i] # 0 /\ file'[obj'[contexts'[i]].priv] = "releasing" =>
            i > cid'[Release] \/ (i = cid'[Release] /\ pc'[Release] \in DestroyPc)
    BY RefersTo DEF Calm, IInv, ReleaseI
  <2>9. \A o \in Objs : obj'[o].st = "live" => file'[obj'[o].priv] # "released"
    BY DEF Calm, IInv, ReleaseI
  <2> QED
    BY <2>1, <2>2, <2>3, <2>4, <2>6, <2>7, <2>8, <2>9 DEF ReleaseI
<1> QED
  BY <1>4, <1>5, <1>6

\* No reference moves.
Quiet ==
    /\ contexts' = contexts /\ at' = at
    /\ \A o \in Objs : SameObj(o)
    /\ \A u \in Threads : pc'[u] \in {"spin", "free"} <=> pc[u] \in {"spin", "free"}

LEMMA QuietKeeps == ASSUME IInv, Quiet PROVE RefsI'
<1>1. \A o \in Objs : Slots(o)' = Slots(o) /\ Holders(o)' = Holders(o)
  BY DEF Quiet, Slots, Holders
<1> QED
  BY <1>1 DEF Quiet, SameObj, IInv, RefsI, Counted

\* Thread t takes a reference on the context in slot i.
Gets(t, i) ==
    /\ contexts' = contexts /\ contexts[i] # 0
    /\ at[t] = 0 /\ at' = [at EXCEPT ![t] = contexts[i]]
    /\ obj' = [obj EXCEPT ![contexts[i]] = Got(@)]
    /\ ~Own(t) /\ ~Own(t)'
    /\ \A u \in Threads \ {t} : pc'[u] = pc[u]

\* What Calm asks of the contexts and of the threads' hold on them.
Safe ==
    /\ obj' \in [Objs -> ObjT] /\ at' \in [Threads -> 0 .. NumObjs]
    /\ \A o \in Objs :
          /\ obj'[o].st = obj[o].st /\ obj'[o].priv = obj[o].priv
          /\ obj[o].st = "live" /\ obj[o].destroyed => obj'[o].destroyed
    /\ \A u \in Threads : at'[u] # 0 => at'[u] \in Objs /\ obj[at'[u]].st = "live"

LEMMA GetKeeps ==
    ASSUME IInv, NEW t \in Threads, NEW i \in Ids, Gets(t, i)
    PROVE  RefsI' /\ Safe
<1>0. PICK o \in Objs : o = contexts[i]
  BY RefersTo DEF Gets, IInv
<1>1. obj[o].st = "live" /\ obj[o] \in ObjT /\ i \in Slots(o)
  BY <1>0, RefersTo DEF Gets, IInv, OwnI, Slots
<1>2. obj' = [obj EXCEPT ![o] = Got(obj[o])] /\ at' = [at EXCEPT ![t] = o] /\ o # 0 /\ at[t] = 0
  BY <1>0 DEF Gets
<1>3. /\ obj' \in [Objs -> ObjT] /\ obj'[o].kref = obj[o].kref + 1
      /\ obj'[o].st = "live" /\ obj'[o].async = obj[o].async /\ obj'[o].priv = obj[o].priv
      /\ obj'[o].destroyed = obj[o].destroyed
      /\ \A q \in Objs \ {o} : obj'[q] = obj[q]
  BY <1>1, <1>2, GotIs DEF IInv, TypeI
<1>4. /\ at' \in [Threads -> 0 .. NumObjs] /\ at'[t] = o
      /\ \A u \in Threads \ {t} : at'[u] = at[u]
  BY <1>1, <1>2, ThreadFacts DEF IInv, TypeI, Objs
<1>5. Holders(o)' = Holders(o) \cup {t} /\ t \in Threads \ Holders(o)
  BY <1>2, <1>4 DEF Gets, Holders, Own, OwnerPc
<1>6. SameRefs(o) /\ Slots(o)' = Slots(o)
  <2>1. \A q \in Objs \ {o} : Holders(q)' = Holders(q)
    BY <1>2, <1>4, RefersTo DEF Gets, Holders, Own, OwnerPc, IInv
  <2>2. \A q \in Objs : Slots(q)' = Slots(q)
    BY DEF Gets, Slots
  <2> QED
    BY <1>3, <2>1, <2>2 DEF SameRefs, SameObj
<1>7. RefsI'
  <2>1. ~obj[o].destroyed /\ obj[o].kref \in Nat /\ Cardinality(Holders(o)) \in Nat
        /\ Cardinality(Slots(o)) \in Nat
        /\ obj[o].kref = Cardinality(Slots(o)) + Cardinality(Holders(o)) + One(obj[o].async)
    BY <1>1, RefsAre DEF IInv
  <2>2. Cardinality(Holders(o)') = Cardinality(Holders(o)) + 1
    BY <1>5, CountThreads DEF Holders
  <2>3. Cardinality(Slots(o)') = Cardinality(Slots(o)) /\ One(obj'[o].async) = One(obj[o].async)
    BY <1>3, <1>6
  <2>4. obj'[o].kref = Cardinality(Slots(o)') + Cardinality(Holders(o)') + One(obj'[o].async)
    BY <1>3, <2>1, <2>2, <2>3, OneIsNat
  <2>5. Counted(o)'
    BY <1>3, <2>1, <2>4 DEF Counted
  <2> QED
    BY <1>6, <2>5, RefsOfOne
<1>8. Safe
  BY <1>1, <1>3, <1>4, RefersTo DEF Safe, IInv, OwnI
<1> QED
  BY <1>7, <1>8

\* Thread t, a user of a context, puts its reference.
Puts(t) ==
    /\ contexts' = contexts
    /\ at[t] # 0 /\ at' = [at EXCEPT ![t] = 0]
    /\ obj' = [obj EXCEPT ![at[t]] = Put(@)]
    /\ ~Own(t) /\ ~Own(t)'
    /\ \A u \in Threads \ {t} : pc'[u] = pc[u]

LEMMA PutKeeps ==
    ASSUME IInv, NEW t \in Threads, Puts(t)
    PROVE  RefsI' /\ Safe
<1>0. PICK o \in Objs : o = at[t]
  BY RefersTo DEF Puts, IInv
<1>1. obj[o].st = "live" /\ obj[o] \in ObjT /\ t \in Holders(o)
  BY <1>0, RefersTo DEF Puts, IInv, OwnI, Holders, Own, OwnerPc
<1>2. obj' = [obj EXCEPT ![o] = Put(obj[o])] /\ at' = [at EXCEPT ![t] = 0] /\ o # 0
  BY <1>0 DEF Puts
<1>3. /\ obj' \in [Objs -> ObjT] /\ obj'[o].kref = obj[o].kref - 1
      /\ obj'[o].st = "live" /\ obj'[o].async = obj[o].async /\ obj'[o].priv = obj[o].priv
      /\ obj'[o].destroyed <=> obj[o].kref = 1
      /\ \A q \in Objs \ {o} : obj'[q] = obj[q]
  BY <1>1, <1>2, PutIs DEF IInv, TypeI
<1>4. /\ at' \in [Threads -> 0 .. NumObjs] /\ at'[t] = 0
      /\ \A u \in Threads \ {t} : at'[u] = at[u]
  BY <1>1, <1>2, ThreadFacts DEF IInv, TypeI
<1>5. Holders(o)' = Holders(o) \ {t}
  BY <1>2, <1>4 DEF Puts, Holders, Own, OwnerPc
<1>6. SameRefs(o) /\ Slots(o)' = Slots(o)
  <2>1. \A q \in Objs \ {o} : Holders(q)' = Holders(q)
    BY <1>0, <1>2, <1>4, RefersTo DEF Puts, Holders, Own, OwnerPc, IInv
  <2>2. \A q \in Objs : Slots(q)' = Slots(q)
    BY DEF Puts, Slots
  <2> QED
    BY <1>3, <2>1, <2>2 DEF SameRefs, SameObj
<1>7. /\ ~obj[o].destroyed /\ obj[o].kref \in Nat /\ Cardinality(Holders(o)) \in Nat
      /\ Cardinality(Slots(o)) \in Nat
      /\ obj[o].kref = Cardinality(Slots(o)) + Cardinality(Holders(o)) + One(obj[o].async)
  BY <1>1, RefsAre DEF IInv
<1>8. RefsI'
  <2>1. Cardinality(Holders(o)') = Cardinality(Holders(o)) - 1
    BY <1>1, <1>5, CountThreads DEF Holders
  <2>2. Cardinality(Slots(o)') = Cardinality(Slots(o)) /\ One(obj'[o].async) = One(obj[o].async)
    BY <1>3, <1>6
  <2>3. obj'[o].kref = Cardinality(Slots(o)') + Cardinality(Holders(o)') + One(obj'[o].async)
    BY <1>3, <1>7, <2>1, <2>2, OneIsNat
  <2>4. obj'[o].destroyed => obj'[o].kref = 0
    BY <1>3
  <2>5. Counted(o)'
    BY <1>3, <2>3, <2>4 DEF Counted
  <2> QED
    BY <1>6, <2>5, RefsOfOne
<1>9. Safe
  BY <1>1, <1>3, <1>4, <1>7, RefersTo DEF Safe, IInv, OwnI
<1> QED
  BY <1>8, <1>9

-----------------------------------------------------------------------------
(* The ioctls that use a context, and the waits.                           *)

\* A client looks a context up, to use it, to wait or to destroy it.
LEMMA ClientGets ==
    ASSUME IInv, NEW t \in Threads, NEW id \in Ids, NEW w \in {"use", "wait", "put", "ibdesc_retry", "ibdesc"},
           hgsl_get_context(t, id), Go(t, w),
           UNCHANGED <<contexts, backend, active_wait_list, work, file>>,
           \/ Idle(t) /\ w \in {"use", "wait", "put", "ibdesc_retry"}
           \/ pc[t] = "destroy" /\ cid[t] = id /\ w = "ibdesc"
    PROVE  IInv'
<1>1. /\ pc[t] \in {"idle", "destroy"} /\ at[t] = 0 /\ t # Retire
      /\ pc[t] = "idle" => t \in Clients /\ file[ProcOf[t]] = "open"
  BY ThreadFacts DEF Idle, IInv, ThreadI, NoObjectPc
<1>2. /\ pc' = [pc EXCEPT ![t] = w] /\ cid' = [cid EXCEPT ![t] = id]
      /\ w \notin OwnerPc /\ w \in Pcs /\ w \notin NoObjectPc /\ w # "signal" /\ w # "idle"
  BY DEF Go, hgsl_get_context, OwnerPc, ClientPc, DestroyPc, Pcs, NoObjectPc
<1>3. /\ pc' \in [Threads -> Pcs] /\ pc'[t] = w
      /\ \A u \in Threads \ {t} : pc'[u] = pc[u] /\ cid'[u] = cid[u] /\ at'[u] = at[u]
      /\ at'[t] = contexts[id] /\ contexts[id] # 0 /\ cid'[t] = id
      /\ cid' \in [Threads -> 0 .. NumIds + 1]
  BY <1>2, ThreadFacts DEF IInv, TypeI, hgsl_get_context, Ids
<1>4. Gets(t, id)
  BY <1>1, <1>2, <1>3 DEF Gets, hgsl_get_context, Own, OwnerPc
<1>5. RefsI' /\ Safe
  BY <1>4, GetKeeps
<1>6. TypeI'
  BY <1>3, <1>5 DEF IInv, TypeI, Safe
<1>7. ThreadI'
  <2>1. t = Release => w = "ibdesc"
    BY <1>1, ThreadFacts DEF Idle
  <2>2. pc'[Release] \notin ClientPc /\ pc'[Retire] \in {"idle", "signal"}
    BY <1>1, <1>3, <2>1, ThreadFacts DEF IInv, ThreadI, ClientPc
  <2>3. \A u \in active_wait_list' : pc'[u] \in {"check", "asleep", "delist"}
    BY <1>1, <1>3, ThreadFacts DEF IInv, ThreadI, TypeI
  <2>4. ASSUME NEW u \in Threads
        PROVE  /\ pc'[u] \in NoObjectPc => at'[u] = 0
               /\ pc'[u] \notin NoObjectPc \cup {"signal"} => at'[u] # 0
               /\ pc'[u] \in (OwnerPc \ {"free"}) \cup DestroyPc \cup {"ibdesc_retry"}
                     => cid'[u] \in Ids
               /\ pc'[u] = "signal" =>
                     u = Retire /\ cid'[u] # 0 /\ (at'[u] # 0 => cid'[u] \in Ids)
    BY <1>1, <1>2, <1>3 DEF IInv, ThreadI
  <2> QED
    BY <2>2, <2>3, <2>4 DEF ThreadI
<1>8. Calm
  <2>1. ~Own(t) /\ ~Own(t)' /\ ~Claims(t) /\ ~Claims(t)' /\ pc'[t] # "free"
    BY <1>1, <1>2, <1>3 DEF Own, Claims, OwnerPc
  <2>2. \A u \in Threads \ {t} : (Own(u)' <=> Own(u)) /\ (Claims(u)' <=> Claims(u))
    BY <1>3 DEF Own, Claims
  <2>3. t = Release => pc[t] = "destroy" /\ w \in DestroyPc /\ cid[t] = id
    BY <1>1, <1>2, ThreadFacts DEF Idle, DestroyPc
  <2> QED
    BY <1>1, <1>3, <1>5, <2>1, <2>2, <2>3, ThreadFacts DEF Calm, Safe
<1> QED
  BY <1>5, <1>6, <1>7, <1>8, CalmKeeps DEF IInv

LEMMA LookupStep ==
    ASSUME IInv, NEW t \in Clients, NEW id \in Ids, NEW what \in {"use", "wait"},
           Lookup(t, id, what)
    PROVE  IInv'
<1> DEFINE w == IF obj[contexts[id]].priv = ProcOf[t] THEN what ELSE "put"
<1>1. w \in {"use", "wait", "put"}
  OBVIOUS
<1>2. /\ Go(t, w) /\ Idle(t) /\ hgsl_get_context(t, id) /\ t \in Threads
      /\ UNCHANGED <<contexts, backend, active_wait_list, work, file>>
  BY ThreadFacts DEF Lookup
<1>3. PICK x \in {"use", "wait", "put"} : x = w
  BY <1>1
<1> HIDE DEF w
<1> QED
  BY <1>2, <1>3, ClientGets DEF ClientPc

LEMMA DestroyIoctlStep ==
    ASSUME IInv, NEW t \in Clients, NEW id \in Ids, DestroyIoctl(t, id) PROVE IInv'
  BY ClientGets, ThreadFacts DEF DestroyIoctl, ClientPc

\* A client or the release puts the context it has looked up and goes on.
LEMMA ThreadPuts ==
    ASSUME IInv, NEW t \in Threads, NEW w \in {"idle", "remove"},
           pc[t] \in {"use", "put", "ibdesc", "ibdesc_retry"},
           w = "remove" => pc[t] \in {"ibdesc", "ibdesc_retry"},
           w = "idle" => pc[t] # "ibdesc",
           Go(t, w), at' = [at EXCEPT ![t] = 0],
           obj' = [obj EXCEPT ![at[t]] = Put(@)],
           cid' = IF w = "remove" \/ t = Release THEN cid ELSE [cid EXCEPT ![t] = 0],
           UNCHANGED <<contexts, backend, active_wait_list, work, file>>
    PROVE  IInv'
<1>1. /\ at[t] # 0 /\ t # Retire
      /\ t = Release => pc[t] = "ibdesc"
      /\ pc[t] \in {"ibdesc", "ibdesc_retry"} => cid[t] \in Ids
  BY ThreadFacts DEF IInv, ThreadI, NoObjectPc, ClientPc, DestroyPc
<1>2. /\ pc' \in [Threads -> Pcs] /\ pc'[t] = w /\ at'[t] = 0
      /\ \A u \in Threads \ {t} : pc'[u] = pc[u] /\ at'[u] = at[u]
  BY DEF Go, IInv, TypeI, Pcs, DestroyPc
<1>3. /\ cid' \in [Threads -> 0 .. NumIds + 1]
      /\ w = "remove" => cid'[t] = cid[t]
      /\ \A u \in Threads \ {t} : cid'[u] = cid[u]
      /\ t = Release => cid'[t] = cid[t]
  BY ThreadFacts DEF IInv, TypeI
<1>4. ~Own(t) /\ ~Own(t)' /\ ~Claims(t) /\ ~Claims(t)' /\ pc'[t] # "free"
  BY <1>2 DEF Own, Claims, OwnerPc
<1>5. Puts(t)
  BY <1>1, <1>2, <1>4 DEF Puts
<1>6. RefsI' /\ Safe
  BY <1>5, PutKeeps
<1>7. TypeI'
  BY <1>2, <1>3, <1>6 DEF IInv, TypeI, Safe
<1>8. ThreadI'
  <2>1. pc'[Release] \notin ClientPc /\ pc'[Retire] \in {"idle", "signal"}
    BY <1>1, <1>2, ThreadFacts DEF IInv, ThreadI, ClientPc
  <2>2. \A u \in active_wait_list' : pc'[u] \in {"check", "asleep", "delist"}
    BY <1>2, ThreadFacts DEF IInv, ThreadI, TypeI
  <2>3. ASSUME NEW u \in Threads
        PROVE  /\ pc'[u] \in NoObjectPc => at'[u] = 0
               /\ pc'[u] \notin NoObjectPc \cup {"signal"} => at'[u] # 0
               /\ pc'[u] \in (OwnerPc \ {"free"}) \cup DestroyPc \cup {"ibdesc_retry"}
                     => cid'[u] \in Ids
               /\ pc'[u] = "signal" =>
                     u = Retire /\ cid'[u] # 0 /\ (at'[u] # 0 => cid'[u] \in Ids)
    <3>1. CASE u = t
      BY <1>1, <1>2, <1>3, <3>1 DEF NoObjectPc, OwnerPc, DestroyPc
    <3>2. CASE u # t
      BY <1>2, <1>3, <3>2 DEF IInv, ThreadI
    <3> QED
      BY <3>1, <3>2
  <2> QED
    BY <2>1, <2>2, <2>3 DEF ThreadI
<1>9. Calm
  <2>1. \A u \in Threads \ {t} : (Own(u)' <=> Own(u)) /\ (Claims(u)' <=> Claims(u))
    BY <1>2 DEF Own, Claims
  <2>2. t = Release => w = "remove" /\ w \in DestroyPc
    BY <1>1 DEF DestroyPc
  <2> QED
    BY <1>1, <1>2, <1>3, <1>4, <1>6, <2>1, <2>2, ThreadFacts DEF Calm, Safe
<1> QED
  BY <1>6, <1>7, <1>8, <1>9, CalmKeeps DEF IInv

LEMMA EndUseStep == ASSUME IInv, NEW t \in Clients, EndUse(t) PROVE IInv'
<1>1. cid' = [cid EXCEPT ![t] = 0]
  BY ThreadFacts DEF EndUse, Return
<1> QED
  BY <1>1, ThreadPuts, ThreadFacts DEF EndUse, Return

LEMMA DestroyIbdescStep == ASSUME IInv, NEW t \in Threads, DestroyIbdesc(t) PROVE IInv'
<1>1. CASE Go(t, "remove") /\ at' = [at EXCEPT ![t] = 0] /\ UNCHANGED cid
  BY <1>1, ThreadPuts DEF DestroyIbdesc
<1>2. CASE pc[t] = "ibdesc_retry" /\ Return(t)
  <2>1. t # Release
    BY <1>2 DEF IInv, ThreadI, ClientPc
  <2>2. cid' = [cid EXCEPT ![t] = 0]
    BY <1>2, <2>1 DEF Return
  <2> QED
    BY <1>2, <2>1, <2>2, ThreadPuts DEF DestroyIbdesc, Return
<1> QED
  BY <1>1, <1>2 DEF DestroyIbdesc

\* A waiting thread goes on to its next step.
WaitPc == {"wait", "check", "asleep", "delist", "put"}

LEMMA WaitMoves ==
    ASSUME IInv, NEW t \in Clients, NEW w \in WaitPc \ {"wait"}, pc[t] \in WaitPc \ {"put"},
           Go(t, w), UNCHANGED <<contexts, obj, backend, at, cid, work, file>>,
           active_wait_list' \subseteq active_wait_list \cup {t},
           t \in active_wait_list' => w # "put"
    PROVE  IInv'
<1>1. t \in Threads /\ t # Release /\ t # Retire
  BY ThreadFacts
<1>2. /\ pc' \in [Threads -> Pcs] /\ pc'[t] = w
      /\ \A u \in Threads \ {t} : pc'[u] = pc[u]
  BY <1>1 DEF Go, IInv, TypeI, Pcs, ClientPc, WaitPc
<1>3. /\ ~Own(t) /\ ~Own(t)' /\ ~Claims(t) /\ ~Claims(t)'
      /\ pc'[t] \notin {"spin", "free"} /\ pc[t] \notin {"spin", "free"} /\ pc[t] # "idle"
  BY <1>2 DEF Own, Claims, OwnerPc, WaitPc
<1>4. \A u \in Threads \ {t} : (Own(u)' <=> Own(u)) /\ (Claims(u)' <=> Claims(u))
  BY <1>2 DEF Own, Claims
<1>5. TypeI'
  BY <1>2 DEF IInv, TypeI
<1>6. ThreadI'
  <2>1. pc'[Release] \notin ClientPc /\ pc'[Retire] \in {"idle", "signal"}
    BY <1>1, <1>2, ThreadFacts DEF IInv, ThreadI
  <2>2. \A u \in active_wait_list' : pc'[u] \in {"check", "asleep", "delist"}
    BY <1>1, <1>2, ThreadFacts DEF IInv, ThreadI, TypeI, WaitPc
  <2>3. ASSUME NEW u \in Threads
        PROVE  /\ pc'[u] \in NoObjectPc => at'[u] = 0
               /\ pc'[u] \notin NoObjectPc \cup {"signal"} => at'[u] # 0
               /\ pc'[u] \in (OwnerPc \ {"free"}) \cup DestroyPc \cup {"ibdesc_retry"}
                     => cid'[u] \in Ids
               /\ pc'[u] = "signal" =>
                     u = Retire /\ cid'[u] # 0 /\ (at'[u] # 0 => cid'[u] \in Ids)
    BY <1>2 DEF IInv, ThreadI, NoObjectPc, OwnerPc, DestroyPc, WaitPc
  <2> QED
    BY <2>1, <2>2, <2>3 DEF ThreadI
<1>7. RefsI'
  <2>1. Quiet
    BY <1>2, <1>3 DEF Quiet, SameObj
  <2> QED
    BY <2>1, QuietKeeps
<1>8. Calm
  BY <1>1, <1>2, <1>3, <1>4, RefersTo, ThreadFacts DEF Calm, IInv, OwnI
<1> QED
  BY <1>5, <1>6, <1>7, <1>8, CalmKeeps DEF IInv

LEMMA WaitSteps ==
    ASSUME IInv, NEW t \in Clients, WaitStep(t) \/ WaitGivenUp(t) PROVE IInv'
<1>1. CASE WaitEnlist(t)
  BY <1>1, WaitMoves DEF WaitEnlist, WaitPc
<1>2. CASE WaitCheck(t)
  <2>1. PICK w \in {"delist", "asleep"} : Go(t, w)
    BY <1>2 DEF WaitCheck
  <2> QED
    BY <1>2, <2>1, WaitMoves DEF WaitCheck, WaitPc
<1>3. CASE WaitDelist(t)
  BY <1>3, WaitMoves DEF WaitDelist, WaitPc
<1>4. CASE WaitGivenUp(t)
  BY <1>4, WaitMoves DEF WaitGivenUp, WaitPc
<1> QED
  BY <1>1, <1>2, <1>3, <1>4 DEF WaitStep

-----------------------------------------------------------------------------
(* Events, draw objects and the worker for retired timestamps.             *)

\* Nothing but a context's reference for its event or draw object changes.
LEMMA AsyncStep ==
    ASSUME IInv, NEW o \in Objs, NEW r \in ObjT, obj[o].st = "live",
           obj' = [obj EXCEPT ![o] = r], r.st = "live", r.priv = obj[o].priv,
           \/ /\ ~obj[o].async /\ r.async /\ r.kref = obj[o].kref + 1
              /\ r.destroyed = obj[o].destroyed /\ Holders(o) # {}
           \/ /\ obj[o].async /\ ~r.async /\ r.kref = obj[o].kref - 1
              /\ r.destroyed <=> obj[o].kref = 1,
           contexts' = contexts, at' = at,
           \A u \in Threads : pc'[u] \in {"spin", "free"} <=> pc[u] \in {"spin", "free"}
    PROVE  RefsI' /\ Safe
<1>1. /\ obj' \in [Objs -> ObjT] /\ obj'[o] = r /\ \A q \in Objs \ {o} : obj'[q] = obj[q]
  BY DEF IInv, TypeI
<1>2. \A q \in Objs : Slots(q)' = Slots(q) /\ Holders(q)' = Holders(q)
  BY DEF Slots, Holders
<1>3. /\ Cardinality(Slots(o)) \in Nat /\ Cardinality(Holders(o)) \in Nat
      /\ obj[o].kref = Cardinality(Slots(o)) + Cardinality(Holders(o)) + One(obj[o].async)
      /\ Holders(o) # {} \/ obj[o].async => ~obj[o].destroyed
  BY RefsAre DEF IInv
<1>4. Counted(o)'
  <2>1. CASE ~obj[o].async
    <3>1. One(obj[o].async) = 0 /\ One(obj'[o].async) = 1
      BY <1>1, <2>1 DEF One
    <3>2. obj'[o].kref = Cardinality(Slots(o)') + Cardinality(Holders(o)') + One(obj'[o].async)
      <4>1. obj'[o].kref = obj[o].kref + 1
        BY <1>1, <2>1
      <4> QED
        BY <1>2, <1>3, <3>1, <4>1
    <3> QED
      BY <1>1, <1>3, <2>1, <3>2 DEF Counted
  <2>2. CASE obj[o].async
    <3>1. One(obj[o].async) = 1 /\ One(obj'[o].async) = 0
      BY <1>1, <2>2 DEF One
    <3>2. obj'[o].kref = Cardinality(Slots(o)') + Cardinality(Holders(o)') + One(obj'[o].async)
      <4>1. obj'[o].kref = obj[o].kref - 1
        BY <1>1, <2>2
      <4> QED
        BY <1>2, <1>3, <3>1, <4>1
    <3>3. obj'[o].destroyed => obj'[o].kref = 0
      BY <1>1, <2>2
    <3> QED
      BY <1>1, <3>2, <3>3 DEF Counted
  <2> QED
    BY <2>1, <2>2
<1>5. SameRefs(o)
  BY <1>1, <1>2 DEF SameRefs, SameObj
<1>6. RefsI'
  BY <1>4, <1>5, RefsOfOne
<1>7. Safe
  BY <1>1, <1>3, RefersTo DEF Safe, IInv, OwnI, TypeI
<1> QED
  BY <1>6, <1>7

LEMMA AsyncPutStep == ASSUME IInv, NEW o \in Objs, AsyncPut(o) PROVE IInv'
<1> DEFINE r == [Put(obj[o]) EXCEPT !.async = FALSE]
<1>1. obj[o].async /\ obj[o].st = "live" /\ obj[o] \in ObjT
  BY RefersTo DEF AsyncPut, IInv, RefsI, Counted
<1>2. /\ r \in ObjT /\ r.st = "live" /\ r.priv = obj[o].priv /\ r.kref = obj[o].kref - 1
      /\ ~r.async
      /\ r.destroyed <=> obj[o].kref = 1
  <2>1. /\ Put(obj[o]) \in ObjT /\ Put(obj[o]).kref = obj[o].kref - 1
        /\ Put(obj[o]).st = obj[o].st /\ Put(obj[o]).priv = obj[o].priv
        /\ Put(obj[o]).destroyed <=> obj[o].kref = 1
    BY <1>1, PutIs
  <2> QED
    BY <1>1, <2>1 DEF ObjT
<1>3. /\ obj' = [obj EXCEPT ![o] = r]
      /\ UNCHANGED <<contexts, backend, pc, at, cid, active_wait_list, work, file>>
  BY DEF AsyncPut
<1> HIDE DEF r
<1>4. RefsI' /\ Safe
  BY <1>1, <1>2, <1>3, AsyncStep
<1>5. TypeI'
  BY <1>3, <1>4 DEF IInv, TypeI, Safe
<1>6. ThreadI'
  BY <1>3 DEF IInv, ThreadI
<1>7. Calm
  BY <1>3, <1>4 DEF Calm, Safe, Own, Claims
<1> QED
  BY <1>4, <1>5, <1>6, <1>7, CalmKeeps DEF IInv

LEMMA LeaveAsyncStep == ASSUME IInv, NEW t \in Clients, LeaveAsync(t) PROVE IInv'
<1>0. t \in Threads /\ t # Release /\ t # Retire
  BY ThreadFacts
<1>1. PICK o \in Objs : o = at[t]
  BY <1>0, RefersTo DEF LeaveAsync, IInv, ThreadI, NoObjectPc
<1> DEFINE r == [Got(obj[o]) EXCEPT !.async = TRUE]
<1>2. obj[o].st = "live" /\ obj[o] \in ObjT /\ ~obj[o].async /\ t \in Holders(o)
  BY <1>0, <1>1, RefersTo DEF LeaveAsync, IInv, OwnI, Holders
<1>3. /\ r \in ObjT /\ r.st = "live" /\ r.priv = obj[o].priv /\ r.kref = obj[o].kref + 1
      /\ r.async /\ r.destroyed = obj[o].destroyed
  <2>1. /\ Got(obj[o]) \in ObjT /\ Got(obj[o]).kref = obj[o].kref + 1
        /\ Got(obj[o]).st = obj[o].st /\ Got(obj[o]).priv = obj[o].priv
        /\ Got(obj[o]).destroyed = obj[o].destroyed
    BY <1>2, GotIs
  <2> QED
    BY <1>2, <2>1 DEF ObjT
<1>4. /\ obj' = [obj EXCEPT ![o] = r] /\ pc[t] = "use" /\ pc' = [pc EXCEPT ![t] = "put"]
      /\ UNCHANGED <<contexts, backend, at, cid, active_wait_list, work, file>>
  BY <1>1 DEF LeaveAsync, Go
<1> HIDE DEF r
<1>5. /\ pc' \in [Threads -> Pcs] /\ pc'[t] = "put"
      /\ \A u \in Threads \ {t} : pc'[u] = pc[u]
  BY <1>0, <1>4 DEF IInv, TypeI, Pcs, ClientPc
<1>6. RefsI' /\ Safe
  <2>1. \A u \in Threads : pc'[u] \in {"spin", "free"} <=> pc[u] \in {"spin", "free"}
    BY <1>4, <1>5
  <2> QED
    BY <1>2, <1>3, <1>4, <2>1, AsyncStep
<1>7. TypeI'
  BY <1>4, <1>5, <1>6 DEF IInv, TypeI, Safe
<1>8. ThreadI'
  <2>1. pc'[Release] \notin ClientPc /\ pc'[Retire] \in {"idle", "signal"}
    BY <1>0, <1>5, ThreadFacts DEF IInv, ThreadI
  <2>2. \A u \in active_wait_list' : pc'[u] \in {"check", "asleep", "delist"}
    BY <1>0, <1>4, <1>5, ThreadFacts DEF IInv, ThreadI, TypeI
  <2>3. ASSUME NEW u \in Threads
        PROVE  /\ pc'[u] \in NoObjectPc => at'[u] = 0
               /\ pc'[u] \notin NoObjectPc \cup {"signal"} => at'[u] # 0
               /\ pc'[u] \in (OwnerPc \ {"free"}) \cup DestroyPc \cup {"ibdesc_retry"}
                     => cid'[u] \in Ids
               /\ pc'[u] = "signal" =>
                     u = Retire /\ cid'[u] # 0 /\ (at'[u] # 0 => cid'[u] \in Ids)
    BY <1>4, <1>5 DEF IInv, ThreadI, NoObjectPc, OwnerPc, DestroyPc
  <2> QED
    BY <2>1, <2>2, <2>3 DEF ThreadI
<1>9. Calm
  <2>1. \A u \in Threads : (Own(u)' <=> Own(u)) /\ (Claims(u)' <=> Claims(u))
    BY <1>4, <1>5 DEF Own, Claims, OwnerPc
  <2> QED
    BY <1>0, <1>4, <1>5, <1>6, <2>1, ThreadFacts DEF Calm, Safe
<1> QED
  BY <1>6, <1>7, <1>8, <1>9, CalmKeeps DEF IInv

LEMMA CpuRetireStep == ASSUME IInv, NEW o \in Objs, CpuRetire(o) PROVE IInv'
<1>1. /\ obj' \in [Objs -> ObjT] /\ \A q \in Objs : SameObj(q) /\ obj'[q].priv = obj[q].priv
  BY ZenonT(60) DEF CpuRetire, IInv, TypeI, ObjT, SameObj
<1>2. TypeI'
  BY <1>1 DEF CpuRetire, IInv, TypeI
<1>3. ThreadI'
  BY DEF CpuRetire, IInv, ThreadI
<1>4. RefsI'
  <2>1. Quiet
    BY <1>1 DEF Quiet, CpuRetire
  <2> QED
    BY <2>1, QuietKeeps
<1>5. Calm
  BY <1>1, RefersTo DEF Calm, CpuRetire, SameObj, Own, Claims, IInv, OwnI
<1> QED
  BY <1>2, <1>3, <1>4, <1>5, CalmKeeps DEF IInv

LEMMA InterruptStep == ASSUME IInv, NEW o \in Objs, Interrupt(o) PROVE IInv'
<1>1. /\ obj' \in [Objs -> ObjT] /\ \A q \in Objs : SameObj(q) /\ obj'[q].priv = obj[q].priv
  BY ZenonT(60) DEF Interrupt, IInv, TypeI, ObjT, SameObj
<1>2. TypeI'
  BY <1>1 DEF Interrupt, IInv, TypeI
<1>3. ThreadI'
  BY DEF Interrupt, IInv, ThreadI
<1>4. RefsI'
  <2>1. Quiet
    BY <1>1 DEF Quiet, Interrupt
  <2> QED
    BY <2>1, QuietKeeps
<1>5. Calm
  BY <1>1, RefersTo DEF Calm, Interrupt, SameObj, Own, Claims, IInv, OwnI
<1> QED
  BY <1>2, <1>3, <1>4, <1>5, CalmKeeps DEF IInv

\* Waking waiters moves them from "asleep" to "check".
LEMMA WokenIs ==
    ASSUME IInv, NEW os
    PROVE  /\ Woken(os) \in [Threads -> Pcs]
           /\ \A u \in Threads : \/ Woken(os)[u] = pc[u]
                                 \/ pc[u] = "asleep" /\ Woken(os)[u] = "check"
  BY DEF Woken, IInv, TypeI, Pcs, ClientPc

\* The worker for retired timestamps, or the destroyer of a context, wakes waiters.
Wakes(t, os, w) ==
    /\ pc' = [Woken(os) EXCEPT ![t] = w]
    /\ \/ pc[t] = "idle" /\ w = "signal" /\ t = Retire
       \/ pc[t] = "wake" /\ w = "drop"
    /\ obj' \in [Objs -> ObjT] /\ \A o \in Objs : SameObj(o) /\ obj'[o].priv = obj[o].priv
    /\ cid' = IF t = Retire THEN [cid EXCEPT ![t] = 1] ELSE cid
    /\ work' \in BOOLEAN
    /\ UNCHANGED <<contexts, backend, at, active_wait_list, file>>

LEMMA WakeStep ==
    ASSUME IInv, NEW t \in Threads, NEW os, NEW w \in Pcs, Wakes(t, os, w)
    PROVE  IInv'
<1> USE DEF Wakes
<1>1. /\ pc' \in [Threads -> Pcs] /\ pc'[t] = w
      /\ \A u \in Threads \ {t} : pc'[u] = pc[u] \/ (pc[u] = "asleep" /\ pc'[u] = "check")
  BY WokenIs
<1>2. /\ cid' \in [Threads -> 0 .. NumIds + 1]
      /\ \A u \in Threads : (u # Retire => cid'[u] = cid[u])
      /\ t = Retire => cid'[Retire] = 1
      /\ t # Retire => cid'[Retire] = cid[Retire]
  BY ThreadFacts DEF IInv, TypeI
<1>3. \A u \in Threads :
        /\ (Own(u)' <=> Own(u)) /\ (Claims(u)' <=> Claims(u))
        /\ pc'[u] \in {"spin", "free"} <=> pc[u] \in {"spin", "free"}
        /\ pc'[u] = "free" <=> pc[u] = "free"
  BY <1>1 DEF Own, Claims, OwnerPc
<1>4. t = Retire \/ pc[t] = "wake"
  OBVIOUS
<1>5. pc[Retire] # "wake" /\ pc[Release] \notin ClientPc
  BY DEF IInv, ThreadI
<1>6. TypeI'
  BY <1>1, <1>2 DEF IInv, TypeI
<1>7. ThreadI'
  <2>1. pc'[Release] \notin ClientPc
    BY <1>1, <1>5, ThreadFacts DEF ClientPc
  <2>2. pc'[Retire] \in {"idle", "signal"}
    BY <1>1, ThreadFacts DEF IInv, ThreadI
  <2>3. \A u \in active_wait_list' : pc'[u] \in {"check", "asleep", "delist"}
    BY <1>1, ThreadFacts DEF IInv, ThreadI, TypeI
  <2>4. ASSUME NEW u \in Threads
        PROVE  /\ pc'[u] \in NoObjectPc => at'[u] = 0
               /\ pc'[u] \notin NoObjectPc \cup {"signal"} => at'[u] # 0
               /\ pc'[u] \in (OwnerPc \ {"free"}) \cup DestroyPc \cup {"ibdesc_retry"}
                     => cid'[u] \in Ids
               /\ pc'[u] = "signal" =>
                     u = Retire /\ cid'[u] # 0 /\ (at'[u] # 0 => cid'[u] \in Ids)
    <3>1. CASE u = t
      BY <1>1, <1>2, <1>5, <3>1 DEF IInv, ThreadI, NoObjectPc, OwnerPc, DestroyPc
    <3>2. CASE u # t
      <4>1. pc'[u] = pc[u] \/ (pc[u] = "asleep" /\ pc'[u] = "check")
        BY <1>1, <3>2
      <4>2. pc'[u] \in (OwnerPc \ {"free"}) \cup DestroyPc \cup {"ibdesc_retry"} =>
               pc[u] \in (OwnerPc \ {"free"}) \cup DestroyPc \cup {"ibdesc_retry"} /\ u # Retire
        BY <4>1 DEF OwnerPc, DestroyPc, IInv, ThreadI
      <4>3. pc'[u] \in NoObjectPc <=> pc[u] \in NoObjectPc
        BY <4>1 DEF NoObjectPc
      <4>4. pc'[u] = "signal" <=> pc[u] = "signal"
        BY <4>1
      <4> QED
        BY <1>2, <3>2, <4>2, <4>3, <4>4 DEF IInv, ThreadI
    <3> QED
      BY <3>1, <3>2
  <2> QED
    BY <2>1, <2>2, <2>3, <2>4 DEF ThreadI
<1>8. RefsI'
  <2>1. Quiet
    BY <1>3 DEF Quiet
  <2> QED
    BY <2>1, QuietKeeps
<1>9. Calm
  <2>1. \A u \in Threads : Own(u) => cid'[u] = cid[u]
    BY <1>2 DEF Own, OwnerPc, IInv, ThreadI
  <2>2. pc[Release] = "idle" => pc'[Release] = "idle"
    BY <1>1, <1>4, ThreadFacts
  <2>3. pc[Release] \in DestroyPc => pc'[Release] \in DestroyPc
    BY <1>1, <1>4, ThreadFacts DEF DestroyPc
  <2>4. \A u \in Clients : pc'[u] # "idle" => pc[u] # "idle" \/ file[ProcOf[u]] = "open"
    BY <1>1, <1>4, ThreadFacts
  <2>5. \A u \in Threads : at'[u] # 0 => at'[u] \in Objs /\ obj[at'[u]].st = "live"
    BY RefersTo DEF IInv, OwnI
  <2>6. cid'[Release] = cid[Release]
    BY <1>2, ThreadFacts
  <2> QED
    BY <1>3, <2>1, <2>2, <2>3, <2>4, <2>5, <2>6 DEF Calm, SameObj
<1> QED
  BY <1>6, <1>7, <1>8, <1>9, CalmKeeps DEF IInv

LEMMA RetireScanStep == ASSUME IInv, RetireScan PROVE IInv'
<1> DEFINE os == {at[t] : t \in {u \in active_wait_list : obj[at[u]].retired}}
<1>1. /\ pc' = [Woken(os) EXCEPT ![Retire] = "signal"] /\ cid' = [cid EXCEPT ![Retire] = 1]
      /\ pc[Retire] = "idle" /\ work' = FALSE
      /\ UNCHANGED <<contexts, obj, backend, at, active_wait_list, file>>
  BY DEF RetireScan
<1>2. "signal" \in Pcs /\ obj' \in [Objs -> ObjT]
  BY <1>1 DEF Pcs, IInv, TypeI
<1>3. \A o \in Objs : SameObj(o) /\ obj'[o].priv = obj[o].priv
  BY <1>1 DEF SameObj
<1>4. PICK S : S = os
  OBVIOUS
<1> HIDE DEF os
<1>5. /\ pc' = [Woken(S) EXCEPT ![Retire] = "signal"] /\ work' \in BOOLEAN
      /\ cid' = IF Retire = Retire THEN [cid EXCEPT ![Retire] = 1] ELSE cid
      /\ Retire \in Threads /\ Retire \notin Clients
  BY <1>1, <1>4, ThreadFacts
<1>6. Wakes(Retire, S, "signal")
  BY <1>1, <1>2, <1>3, <1>5 DEF Wakes
<1> QED
  BY <1>2, <1>5, <1>6, WakeStep

LEMMA DestroyWakeStep == ASSUME IInv, NEW t \in Threads, DestroyWake(t) PROVE IInv'
<1>1. /\ obj' \in [Objs -> ObjT] /\ \A q \in Objs : SameObj(q) /\ obj'[q].priv = obj[q].priv
  BY DEF DestroyWake, IInv, TypeI, SameObj
<1>2. /\ pc' = [Woken({at[t]}) EXCEPT ![t] = "drop"] /\ pc[t] = "wake"
      /\ UNCHANGED <<contexts, backend, at, cid, active_wait_list, work, file>>
  BY DEF DestroyWake
<1>3. t # Retire /\ Own(t) /\ "drop" \in Pcs /\ work' \in BOOLEAN
  BY <1>2 DEF IInv, ThreadI, TypeI, Own, OwnerPc, Pcs
<1>4. PICK S : S = {at[t]}
  OBVIOUS
<1>5. Wakes(t, S, "drop")
  BY <1>1, <1>2, <1>3, <1>4 DEF Wakes
<1> QED
  BY <1>3, <1>5, WakeStep

\* _signal_contexts, which touches only what the retire worker has in hand.
Signals ==
    /\ pc[Retire] = "signal" /\ pc'[Retire] \in {"idle", "signal"}
    /\ pc'[Retire] = "idle" => at'[Retire] = 0
    /\ pc'[Retire] = "signal" => cid'[Retire] # 0
    /\ at'[Retire] # 0 => cid'[Retire] \in Ids
    /\ pc' \in [Threads -> Pcs] /\ cid' \in [Threads -> 0 .. NumIds + 1]
    /\ \A u \in Threads \ {Retire} : pc'[u] = pc[u] /\ cid'[u] = cid[u] /\ at'[u] = at[u]
    /\ UNCHANGED <<contexts, backend, active_wait_list, work, file>>

LEMMA SignalKeeps == ASSUME IInv, Signals, Safe, RefsI' PROVE IInv'
<1> USE DEF Signals
<1>1. \A u \in Threads : (Own(u)' <=> Own(u)) /\ (Claims(u)' <=> Claims(u))
  BY DEF Own, Claims, OwnerPc
<1>2. ~Own(Retire)
  BY DEF Own, OwnerPc
<1>3. TypeI'
  BY DEF IInv, TypeI, Safe
<1>4. ThreadI'
  <2>1. pc'[Release] \notin ClientPc
    BY ThreadFacts DEF IInv, ThreadI
  <2>2. \A u \in active_wait_list' : pc'[u] \in {"check", "asleep", "delist"}
    BY ThreadFacts DEF IInv, ThreadI, TypeI
  <2>3. ASSUME NEW u \in Threads
        PROVE  /\ pc'[u] \in NoObjectPc => at'[u] = 0
               /\ pc'[u] \notin NoObjectPc \cup {"signal"} => at'[u] # 0
               /\ pc'[u] \in (OwnerPc \ {"free"}) \cup DestroyPc \cup {"ibdesc_retry"}
                     => cid'[u] \in Ids
               /\ pc'[u] = "signal" =>
                     u = Retire /\ cid'[u] # 0 /\ (at'[u] # 0 => cid'[u] \in Ids)
    <3>1. CASE u = Retire
      BY <3>1 DEF NoObjectPc, OwnerPc, DestroyPc
    <3>2. CASE u # Retire
      BY <3>2 DEF IInv, ThreadI
    <3> QED
      BY <3>1, <3>2
  <2> QED
    BY <2>1, <2>2, <2>3 DEF ThreadI
<1>5. Calm
  BY <1>1, <1>2, ThreadFacts DEF Calm, Safe
<1> QED
  BY <1>3, <1>4, <1>5, CalmKeeps DEF IInv

LEMMA SignalStep == ASSUME IInv, SignalNext \/ SignalPut PROVE IInv'
<1>0. /\ Retire \in Threads /\ ~Own(Retire) /\ pc[Retire] = "signal" /\ cid[Retire] # 0
      /\ cid[Retire] \in 0 .. NumIds + 1 /\ NumIds \in Nat
  BY ThreadFacts DEF SignalNext, SignalPut, IInv, ThreadI, TypeI, Own, OwnerPc
<1>1. ASSUME NEW id \in Ids, id = cid[Retire], at[Retire] = 0,
             hgsl_get_context(Retire, id), UNCHANGED pc,
             UNCHANGED <<contexts, backend, active_wait_list, work, file>>
      PROVE  IInv'
  <2>1. Gets(Retire, id)
    BY <1>0, <1>1 DEF Gets, hgsl_get_context, Own
  <2>2. Signals
    BY <1>0, <1>1 DEF Signals, hgsl_get_context, IInv, TypeI
  <2> QED
    BY <1>0, <2>1, <2>2, GetKeeps, SignalKeeps
<1>2. ASSUME at[Retire] = 0, obj' = obj, at' = at,
             \/ pc' = pc /\ cid' = [cid EXCEPT ![Retire] = cid[Retire] + 1] /\ cid[Retire] \in Ids
             \/ pc' = [pc EXCEPT ![Retire] = "idle"] /\ cid' = [cid EXCEPT ![Retire] = 0],
             UNCHANGED <<contexts, backend, active_wait_list, work, file>>
      PROVE  IInv'
  <2>1. Signals
    <3>1. CASE pc' = pc /\ cid' = [cid EXCEPT ![Retire] = cid[Retire] + 1] /\ cid[Retire] \in Ids
      <4>1. cid[Retire] + 1 \in 0 .. NumIds + 1 /\ cid[Retire] + 1 # 0
        BY <1>0, <3>1 DEF Ids
      <4> QED
        BY <1>0, <1>2, <3>1, <4>1 DEF Signals, IInv, TypeI
    <3>2. CASE pc' = [pc EXCEPT ![Retire] = "idle"] /\ cid' = [cid EXCEPT ![Retire] = 0]
      BY <1>0, <1>2, <3>2 DEF Signals, IInv, TypeI, Pcs
    <3> QED
      BY <1>2, <3>1, <3>2
  <2>2. Quiet
    BY <1>0, <1>2, <2>1 DEF Quiet, SameObj, Signals
  <2>3. Safe
    BY <1>2, RefersTo DEF Safe, IInv, TypeI, OwnI
  <2> QED
    BY <2>1, <2>2, <2>3, QuietKeeps, SignalKeeps
<1>3. CASE SignalPut
  <2>1. Puts(Retire)
    BY <1>0, <1>3 DEF SignalPut, Puts, Own
  <2>2. RefsI' /\ Safe
    BY <1>0, <2>1, PutKeeps
  <2>3. PICK i \in Ids : i = cid[Retire]
    BY <1>0, <1>3 DEF SignalPut, IInv, ThreadI
  <2>4. Signals
    BY <1>0, <1>3, <2>3 DEF SignalPut, Signals, IInv, TypeI, Ids
  <2> QED
    BY <2>2, <2>4, SignalKeeps
<1>4. CASE SignalNext
  <2>1. at[Retire] = 0 /\ UNCHANGED <<contexts, backend, active_wait_list, work, file>>
    BY <1>4 DEF SignalNext
  <2>2. CASE cid[Retire] \in Ids /\ hgsl_get_context(Retire, cid[Retire]) /\ UNCHANGED pc
    <3>1. PICK id \in Ids : id = cid[Retire]
      BY <2>2
    <3> QED
      BY <1>1, <2>1, <2>2, <3>1
  <2>3. CASE /\ cid[Retire] \in Ids /\ cid' = [cid EXCEPT ![Retire] = cid[Retire] + 1]
             /\ UNCHANGED <<obj, pc, at>>
    BY <1>2, <2>1, <2>3
  <2>4. CASE Return(Retire) /\ UNCHANGED obj
    <3>1. at' = at
      BY <1>0, <2>1, <2>4 DEF Return, IInv, TypeI
    <3>2. pc' = [pc EXCEPT ![Retire] = "idle"] /\ cid' = [cid EXCEPT ![Retire] = 0]
      BY <2>4, ThreadFacts DEF Return, Go
    <3> QED
      BY <1>2, <2>1, <2>4, <3>1, <3>2
  <2> QED
    BY <1>4, <2>2, <2>3, <2>4 DEF SignalNext
<1> QED
  BY <1>3, <1>4

-----------------------------------------------------------------------------
(* The destruction of a context by its owner.                              *)

\* The destroyer goes on to its next step, with the context still its own.
OwnerMoves(t, v, w) ==
    /\ pc[t] = v /\ v \in OwnerPc /\ w \in OwnerPc \ {"insert"} /\ v # "insert"
    /\ pc' = [pc EXCEPT ![t] = w]
    /\ UNCHANGED <<contexts, at, cid, active_wait_list, work, file>>

LEMMA OwnerFacts ==
    ASSUME IInv, NEW t \in Threads, NEW v, NEW w, OwnerMoves(t, v, w)
    PROVE  /\ pc' \in [Threads -> Pcs] /\ pc'[t] = w
           /\ \A u \in Threads \ {t} : pc'[u] = pc[u]
           /\ \A u \in Threads : Own(u)' <=> Own(u)
           /\ t # Retire /\ at[t] \in Objs /\ obj[at[t]].st = "live"
           /\ v # "free" => ThreadI'
<1> USE DEF OwnerMoves
<1>1. /\ pc' \in [Threads -> Pcs] /\ pc'[t] = w
      /\ \A u \in Threads \ {t} : pc'[u] = pc[u]
  BY DEF IInv, TypeI, Pcs
<1>2. \A u \in Threads : Own(u)' <=> Own(u)
  BY <1>1 DEF Own
<1>3. t # Retire
  BY DEF IInv, ThreadI, OwnerPc
<1>4. at[t] \in Objs /\ obj[at[t]].st = "live"
  BY RefersTo DEF IInv, ThreadI, OwnI, NoObjectPc, OwnerPc
<1>5. ASSUME v # "free" PROVE ThreadI'
  <2>1. pc'[Release] \notin ClientPc
    BY <1>1, ThreadFacts DEF IInv, ThreadI, ClientPc, OwnerPc
  <2>2. pc'[Retire] \in {"idle", "signal"}
    BY <1>1, <1>3, ThreadFacts DEF IInv, ThreadI
  <2>3. \A u \in active_wait_list' : pc'[u] \in {"check", "asleep", "delist"}
    BY <1>1, ThreadFacts DEF IInv, ThreadI, TypeI, OwnerPc
  <2>4. ASSUME NEW u \in Threads
        PROVE  /\ pc'[u] \in NoObjectPc => at'[u] = 0
               /\ pc'[u] \notin NoObjectPc \cup {"signal"} => at'[u] # 0
               /\ pc'[u] \in (OwnerPc \ {"free"}) \cup DestroyPc \cup {"ibdesc_retry"}
                     => cid'[u] \in Ids
               /\ pc'[u] = "signal" =>
                     u = Retire /\ cid'[u] # 0 /\ (at'[u] # 0 => cid'[u] \in Ids)
    <3>1. CASE u = t
      <4>1. at[t] # 0 /\ cid[t] \in Ids
        BY <1>5 DEF IInv, ThreadI, NoObjectPc, OwnerPc
      <4> QED
        BY <1>1, <3>1, <4>1 DEF NoObjectPc, OwnerPc
    <3>2. CASE u # t
      BY <1>1, <3>2 DEF IInv, ThreadI
    <3> QED
      BY <3>1, <3>2
  <2> QED
    BY <2>1, <2>2, <2>3, <2>4 DEF ThreadI
<1> QED
  BY <1>1, <1>2, <1>3, <1>4, <1>5

\* While it keeps its claim on the id, the rest is untouched.
LEMMA OwnerCalm ==
    ASSUME IInv, NEW t \in Threads, NEW v \in {"flag", "wake", "drop"},
           NEW w \in {"wake", "drop", "spin"}, OwnerMoves(t, v, w), Safe, backend' = backend
    PROVE  TypeI' /\ ThreadI' /\ OwnI' /\ IdsI' /\ ReleaseI'
<1>1. /\ pc' \in [Threads -> Pcs] /\ pc'[t] = w
      /\ \A u \in Threads \ {t} : pc'[u] = pc[u]
      /\ \A u \in Threads : Own(u)' <=> Own(u)
      /\ ThreadI'
  BY OwnerFacts
<1>2. TypeI'
  BY <1>1 DEF OwnerMoves, Safe, IInv, TypeI
<1>3. Calm
  <2>1. \A u \in Threads : (Claims(u)' <=> Claims(u)) /\ (pc'[u] = "free" => pc[u] = "free")
    BY <1>1 DEF OwnerMoves, Claims
  <2>2. t = Release => pc[t] # "idle" /\ pc[t] \notin DestroyPc
    BY DEF OwnerMoves, DestroyPc
  <2>3. pc[t] # "idle"
    BY DEF OwnerMoves
  <2> QED
    BY <1>1, <2>1, <2>2, <2>3, ThreadFacts DEF Calm, OwnerMoves, Safe
<1> QED
  BY <1>1, <1>2, <1>3, CalmKeeps

LEMMA DestroyFlagStep == ASSUME IInv, NEW t \in Threads, DestroyFlag(t) PROVE IInv'
<1>1. OwnerMoves(t, "flag", "wake")
  BY DEF DestroyFlag, OwnerMoves, Go, OwnerPc
<1>2. PICK o \in Objs : o = at[t]
  BY <1>1, OwnerFacts
<1>3. obj' = [obj EXCEPT ![o] = [obj[o] EXCEPT !.in_destroy = TRUE]]
  BY <1>2 DEF DestroyFlag, IInv, TypeI
<1>4. /\ obj' \in [Objs -> ObjT] /\ \A q \in Objs : SameObj(q) /\ obj'[q].priv = obj[q].priv
  BY <1>3, ZenonT(60) DEF IInv, TypeI, ObjT, SameObj
<1>5. Safe
  BY <1>1, <1>4, RefersTo DEF Safe, SameObj, OwnerMoves, IInv, TypeI, OwnI
<1>6. Quiet
  <2>1. \A u \in Threads : pc'[u] \in {"spin", "free"} <=> pc[u] \in {"spin", "free"}
    BY <1>1 DEF OwnerMoves, IInv, TypeI
  <2> QED
    BY <1>1, <1>4, <2>1 DEF Quiet, OwnerMoves
<1>7. backend' = backend
  BY DEF DestroyFlag
<1> QED
  BY <1>1, <1>5, <1>6, <1>7, QuietKeeps, OwnerCalm DEF IInv

\* The table's reference is put; its count no longer holds the destroyer's.
LEMMA DestroyDropStep == ASSUME IInv, NEW t \in Threads, DestroyDrop(t) PROVE IInv'
<1>1. OwnerMoves(t, "drop", "spin") /\ backend' = backend
  BY DEF DestroyDrop, OwnerMoves, Go, OwnerPc
<1>2. /\ at[t] \in Objs /\ obj[at[t]].st = "live" /\ pc'[t] = "spin"
      /\ \A u \in Threads \ {t} : pc'[u] = pc[u]
  BY <1>1, OwnerFacts
<1>3. PICK o \in Objs : o = at[t]
  BY <1>2
<1>4. obj' = [obj EXCEPT ![o] = Put(obj[o])] /\ obj[o] \in ObjT /\ obj[o].st = "live"
  BY <1>2, <1>3 DEF DestroyDrop, IInv, TypeI
<1>5. /\ obj' \in [Objs -> ObjT] /\ obj'[o].kref = obj[o].kref - 1
      /\ obj'[o].st = "live" /\ obj'[o].async = obj[o].async /\ obj'[o].priv = obj[o].priv
      /\ obj'[o].destroyed <=> obj[o].kref = 1
      /\ \A q \in Objs \ {o} : obj'[q] = obj[q]
  BY <1>4, PutIs DEF IInv, TypeI
<1>6. /\ Holders(o)' = Holders(o) \ {t} /\ t \in Holders(o)
      /\ \A q \in Objs \ {o} : Holders(q)' = Holders(q)
  BY <1>1, <1>2, <1>3 DEF OwnerMoves, Holders
<1>7. \A q \in Objs : Slots(q)' = Slots(q)
  BY <1>1 DEF OwnerMoves, Slots
<1>8. /\ ~obj[o].destroyed /\ obj[o].kref \in Nat /\ Cardinality(Holders(o)) \in Nat
      /\ Cardinality(Slots(o)) \in Nat
      /\ obj[o].kref = Cardinality(Slots(o)) + Cardinality(Holders(o)) + One(obj[o].async)
  BY <1>4, <1>6, RefsAre DEF IInv
<1>9. RefsI'
  <2>1. Cardinality(Holders(o)') = Cardinality(Holders(o)) - 1
    BY <1>6, CountThreads DEF Holders
  <2>2. Cardinality(Slots(o)') = Cardinality(Slots(o)) /\ One(obj'[o].async) = One(obj[o].async)
    BY <1>5, <1>7
  <2>3. obj'[o].kref = Cardinality(Slots(o)') + Cardinality(Holders(o)') + One(obj'[o].async)
    BY <1>5, <1>8, <2>1, <2>2, OneIsNat
  <2>4. obj'[o].destroyed => obj'[o].kref = 0
    BY <1>5
  <2>5. Counted(o)'
    BY <1>5, <2>3, <2>4 DEF Counted
  <2>6. SameRefs(o)
    BY <1>5, <1>6, <1>7 DEF SameRefs, SameObj
  <2> QED
    BY <2>5, <2>6, RefsOfOne
<1>10. Safe
  BY <1>1, <1>4, <1>5, <1>8, RefersTo DEF Safe, OwnerMoves, IInv, TypeI, OwnI
<1> QED
  BY <1>1, <1>9, <1>10, OwnerCalm DEF IInv

\* The count is zero; the claim on the id ends when the back end has been told.
LEMMA DestroyTellStep == ASSUME IInv, NEW t \in Threads, DestroyTell(t) PROVE IInv'
<1>1. OwnerMoves(t, "spin", "free") /\ obj' = obj /\ backend' \in {backend, backend \ {cid[t]}}
      /\ obj[at[t]].destroyed
  BY DEF DestroyTell, OwnerMoves, Go, OwnerPc
<1>2. /\ pc' \in [Threads -> Pcs] /\ pc'[t] = "free" /\ pc[t] = "spin"
      /\ \A u \in Threads \ {t} : pc'[u] = pc[u]
      /\ \A u \in Threads : Own(u)' <=> Own(u)
      /\ t # Retire /\ ThreadI'
  BY <1>1, OwnerFacts DEF OwnerMoves
<1>3. UNCHANGED <<contexts, obj, at, cid, active_wait_list, work, file>>
  BY <1>1 DEF OwnerMoves
<1>4. TypeI'
  BY <1>1, <1>2, <1>3 DEF IInv, TypeI
<1>5. RefsI'
  <2>1. Quiet
    BY <1>2, <1>3 DEF Quiet, SameObj
  <2> QED
    BY <2>1, QuietKeeps
<1>6. OwnI'
  <2>1. \A o \in Objs : Slots(o)' = Slots(o)
    BY <1>3 DEF Slots
  <2>2. \A u \in Threads : pc'[u] = "free" => obj'[at'[u]].destroyed
    BY <1>1, <1>2, <1>3 DEF IInv, OwnI
  <2> QED
    BY <1>2, <1>3, <2>1, <2>2 DEF IInv, OwnI
<1>7. IdsI'
  <2>1. Claims(t) /\ ~Claims(t)' /\ \A u \in Threads \ {t} : Claims(u)' <=> Claims(u)
    BY <1>2 DEF Claims
  <2>2. \A i \in Ids : contexts[i] # 0 => i # cid[t]
    BY <2>1 DEF IInv, IdsI
  <2>3. \A u \in Threads : Claims(u)' => u # t /\ Claims(u) /\ cid[u] # cid[t]
    BY <2>1 DEF IInv, IdsI
  <2> QED
    BY <1>1, <1>3, <2>2, <2>3 DEF IInv, IdsI
<1>8. ReleaseI'
  <2>1. \A u \in Threads : pc'[u] = "idle" <=> pc[u] = "idle"
    BY <1>2
  <2>2. pc'[Release] \in DestroyPc <=> pc[Release] \in DestroyPc
    BY <1>2, ThreadFacts DEF DestroyPc
  <2> QED
    BY <1>2, <1>3, <2>1, <2>2, ThreadFacts DEF IInv, ReleaseI
<1> QED
  BY <1>2, <1>4, <1>5, <1>6, <1>7, <1>8 DEF IInv

\* A client or the release goes on from where it had no wait to answer for.
Moves(t, w, a, c) ==
    /\ pc' = [pc EXCEPT ![t] = w] /\ at' = [at EXCEPT ![t] = a] /\ cid' = [cid EXCEPT ![t] = c]
    /\ active_wait_list' = active_wait_list
    /\ t # Retire /\ pc[t] \notin {"check", "asleep", "delist"} /\ w # "signal"
    /\ w \in Pcs /\ a \in 0 .. NumObjs /\ c \in 0 .. NumIds + 1
    /\ w \in NoObjectPc <=> a = 0
    /\ w \in (OwnerPc \ {"free"}) \cup DestroyPc \cup {"ibdesc_retry"} => c \in Ids
    /\ t = Release => w \notin ClientPc

LEMMA MovesKeeps ==
    ASSUME IInv, NEW t \in Threads, NEW w, NEW a, NEW c, Moves(t, w, a, c)
    PROVE  /\ pc' \in [Threads -> Pcs] /\ at' \in [Threads -> 0 .. NumObjs]
           /\ cid' \in [Threads -> 0 .. NumIds + 1]
           /\ pc'[t] = w /\ at'[t] = a /\ cid'[t] = c
           /\ \A u \in Threads \ {t} : pc'[u] = pc[u] /\ at'[u] = at[u] /\ cid'[u] = cid[u]
           /\ \A u \in Threads \ {t} : (Own(u)' <=> Own(u)) /\ (Claims(u)' <=> Claims(u))
           /\ ThreadI'
<1>1. /\ pc' \in [Threads -> Pcs] /\ at' \in [Threads -> 0 .. NumObjs]
      /\ cid' \in [Threads -> 0 .. NumIds + 1]
      /\ pc'[t] = w /\ at'[t] = a /\ cid'[t] = c
      /\ \A u \in Threads \ {t} : pc'[u] = pc[u] /\ at'[u] = at[u] /\ cid'[u] = cid[u]
  BY DEF Moves, IInv, TypeI
<1>2. \A u \in Threads \ {t} : (Own(u)' <=> Own(u)) /\ (Claims(u)' <=> Claims(u))
  BY <1>1 DEF Own, Claims
<1>3. ThreadI'
  <2>1. pc'[Release] \notin ClientPc /\ pc'[Retire] \in {"idle", "signal"}
    BY <1>1, ThreadFacts DEF Moves, IInv, ThreadI
  <2>2. \A u \in active_wait_list' : pc'[u] \in {"check", "asleep", "delist"}
    BY <1>1, ThreadFacts DEF Moves, IInv, ThreadI, TypeI
  <2>3. ASSUME NEW u \in Threads
        PROVE  /\ pc'[u] \in NoObjectPc => at'[u] = 0
               /\ pc'[u] \notin NoObjectPc \cup {"signal"} => at'[u] # 0
               /\ pc'[u] \in (OwnerPc \ {"free"}) \cup DestroyPc \cup {"ibdesc_retry"}
                     => cid'[u] \in Ids
               /\ pc'[u] = "signal" =>
                     u = Retire /\ cid'[u] # 0 /\ (at'[u] # 0 => cid'[u] \in Ids)
    <3>1. CASE u = t
      BY <1>1, <3>1 DEF Moves
    <3>2. CASE u # t
      BY <1>1, <3>2 DEF IInv, ThreadI
    <3> QED
      BY <3>1, <3>2
  <2> QED
    BY <2>1, <2>2, <2>3 DEF ThreadI
<1> QED
  BY <1>1, <1>2, <1>3

\* Where a thread that returns goes.
Back(t) == IF t = Release THEN cid[t] ELSE 0

LEMMA ReturnMoves ==
    ASSUME IInv, NEW t \in Threads, t # Retire, Return(t),
           pc[t] \notin {"check", "asleep", "delist"}, active_wait_list' = active_wait_list
    PROVE  Moves(t, "idle", 0, Back(t))
<1>1. Back(t) \in 0 .. NumIds + 1
  BY ThreadFacts DEF Back, IInv, TypeI
<1>2. cid' = [cid EXCEPT ![t] = Back(t)]
  BY DEF Return, Back
<1>4. pc' = [pc EXCEPT ![t] = "idle"] /\ at' = [at EXCEPT ![t] = 0]
  BY DEF Return, Go
<1>5. 0 \in 0 .. NumObjs
  BY ThreadFacts
<1>3. "idle" \notin (OwnerPc \ {"free"}) \cup DestroyPc \cup {"ibdesc_retry"}
      /\ "idle" \in NoObjectPc /\ "idle" \in Pcs /\ "idle" \notin ClientPc
  BY DEF OwnerPc, DestroyPc, NoObjectPc, Pcs, ClientPc
<1> QED
  BY <1>1, <1>2, <1>3, <1>4, <1>5 DEF Moves

\* A thread that returns leaves the release's order as it is, if what the release
\* has come to is out of the table.
Returns(t) ==
    /\ UNCHANGED <<contexts, file>>
    /\ pc[t] # "idle" /\ pc'[t] = "idle" /\ cid'[t] = Back(t)
    /\ \A u \in Threads \ {t} : pc'[u] = pc[u] /\ at'[u] = at[u] /\ cid'[u] = cid[u]
    /\ \A o \in Objs :
          /\ obj'[o].priv = obj[o].priv
          /\ obj'[o].st = obj[o].st \/ (obj[o].st = "live" /\ obj'[o].st = "freed")
    /\ t = Release =>
          \A i \in Ids : contexts[i] # 0 /\ file[obj[contexts[i]].priv] = "releasing" =>
              i > cid[Release]

LEMMA ReturnsKeeps == ASSUME IInv, NEW t \in Threads, Returns(t) PROVE ReleaseI'
<1>1. \A u \in Threads : Own(u)' => u # t /\ Own(u) /\ at'[u] = at[u] /\ at[u] \in Objs
  <2>1. \A u \in Threads : Own(u) => at[u] # 0
    BY DEF IInv, ThreadI, Own, OwnerPc, NoObjectPc
  <2> QED
    BY <2>1, RefersTo DEF Returns, Own, OwnerPc, IInv
<1>2. cid'[Release] = cid[Release]
  BY ThreadFacts DEF Returns, Back
<1>3. \A u \in Clients : file'[ProcOf[u]] # "open" => pc'[u] = "idle"
  BY ThreadFacts DEF Returns, IInv, ReleaseI
<1>4. \A p, q \in Procs : file'[p] = "releasing" /\ file'[q] = "releasing" => p = q
  BY DEF Returns, IInv, ReleaseI
<1>5. (\A p \in Procs : file'[p] # "releasing") => cid'[Release] = 0 /\ pc'[Release] = "idle"
  BY <1>2, ThreadFacts DEF Returns, IInv, ReleaseI
<1>6. \A o \in Objs : obj'[o].st = "none" <=> obj'[o].priv = "none"
  BY DEF Returns, IInv, ReleaseI
<1>7. \A u \in Clients : Own(u)' => obj'[at'[u]].priv = ProcOf[u]
  BY <1>1, ThreadFacts DEF Returns, IInv, ReleaseI
<1>8. Own(Release)' => file'[obj'[at'[Release]].priv] = "releasing"
  BY <1>1, ThreadFacts DEF Returns, IInv, ReleaseI
<1>9. \A i \in Ids : contexts'[i] # 0 /\ file'[obj'[contexts'[i]].priv] = "releasing" =>
          i > cid'[Release] \/ (i = cid'[Release] /\ pc'[Release] \in DestroyPc)
  BY <1>2, RefersTo, ThreadFacts DEF Returns, IInv, ReleaseI
<1>10. \A o \in Objs : obj'[o].st = "live" => file'[obj'[o].priv] # "released"
  BY DEF Returns, IInv, ReleaseI
<1> QED
  BY <1>3, <1>4, <1>5, <1>6, <1>7, <1>8, <1>9, <1>10 DEF ReleaseI

\* The context is freed: nobody refers to it but its destroyer.
LEMMA DestroyFreeStep == ASSUME IInv, NEW t \in Threads, DestroyFree(t) PROVE IInv'
<1>1. PICK o \in Objs : o = at[t]
  BY RefersTo DEF DestroyFree, IInv, ThreadI, NoObjectPc
<1>2. /\ pc[t] = "free" /\ Own(t) /\ obj[o].st = "live" /\ obj[o].destroyed /\ t # Retire /\ o # 0
  BY <1>1, RefersTo DEF DestroyFree, IInv, ThreadI, OwnI, Own, OwnerPc
<1>3. Moves(t, "idle", 0, Back(t))
  BY <1>2, ReturnMoves DEF DestroyFree
<1>4. /\ pc' \in [Threads -> Pcs] /\ at' \in [Threads -> 0 .. NumObjs]
      /\ cid' \in [Threads -> 0 .. NumIds + 1]
      /\ pc'[t] = "idle" /\ at'[t] = 0 /\ cid'[t] = Back(t)
      /\ \A u \in Threads \ {t} : pc'[u] = pc[u] /\ at'[u] = at[u] /\ cid'[u] = cid[u]
      /\ \A u \in Threads \ {t} : (Own(u)' <=> Own(u)) /\ (Claims(u)' <=> Claims(u))
      /\ ThreadI'
  BY <1>3, MovesKeeps
<1>5. obj' = [obj EXCEPT ![o] = [obj[o] EXCEPT !.st = "freed"]]
      /\ UNCHANGED <<contexts, backend, active_wait_list, work, file>>
  BY <1>1 DEF DestroyFree, IInv, TypeI
<1>6. /\ obj' \in [Objs -> ObjT] /\ obj'[o].st = "freed" /\ obj'[o].kref = obj[o].kref
      /\ obj'[o].async = obj[o].async /\ obj'[o].priv = obj[o].priv
      /\ \A q \in Objs \ {o} : obj'[q] = obj[q]
  BY <1>5 DEF IInv, TypeI, ObjT
<1>7. obj[o].kref = 0 /\ Slots(o) = {} /\ Holders(o) = {} /\ ~obj[o].async
  BY <1>2, RefsAre DEF IInv, RefsI, Counted
<1>8. \A u \in Threads \ {t} : at[u] # o
  <2>1. ASSUME NEW u \in Threads \ {t}, at[u] = o PROVE FALSE
    <3>1. pc[u] \in {"spin", "free"}
      BY <1>7, <2>1 DEF Holders
    <3> QED
      BY <1>1, <1>2, <2>1, <3>1 DEF IInv, OwnI, Own, OwnerPc
  <2> QED
    BY <2>1
<1>9. \A i \in Ids : contexts[i] # o
  BY <1>7 DEF Slots
<1>10. ~Own(t)' /\ ~Claims(t)'
  BY <1>4 DEF Own, Claims, OwnerPc
<1>11. TypeI'
  BY <1>4, <1>5, <1>6 DEF IInv, TypeI
<1>12. RefsI'
  <2>1. SameRefs(o)
    <3>1. \A q \in Objs \ {o} : Holders(q)' = Holders(q)
      BY <1>1, <1>2, <1>4, RefersTo DEF Holders, IInv
    <3> QED
      BY <1>5, <1>6, <3>1 DEF SameRefs, SameObj, Slots
  <2>2. Counted(o)'
    BY <1>6, <1>7 DEF Counted
  <2> QED
    BY <2>1, <2>2, RefsOfOne
<1>13. OwnI'
  <2>1. \A i \in Ids : contexts'[i] # 0 => obj'[contexts'[i]].st = "live"
    BY <1>5, <1>6, <1>9, RefersTo DEF IInv, OwnI
  <2>2. \A u \in Threads : at'[u] # 0 => obj'[at'[u]].st = "live"
    BY <1>4, <1>6, <1>8, RefersTo DEF IInv, OwnI
  <2>3. \A i, j \in Ids : contexts'[i] # 0 /\ contexts'[i] = contexts'[j] => i = j
    BY <1>5 DEF IInv, OwnI
  <2>4. \A u \in Threads : Own(u)' => u # t /\ Own(u) /\ at'[u] = at[u] /\ at[u] \in Objs \ {o}
    <3>1. \A u \in Threads : Own(u) => at[u] # 0
      BY DEF IInv, ThreadI, Own, OwnerPc, NoObjectPc
    <3> QED
      BY <1>4, <1>8, <1>10, <3>1, RefersTo DEF IInv
  <2>5. \A u \in Threads : Own(u)' => \A i \in Ids : contexts'[i] # at'[u]
    BY <1>5, <2>4 DEF IInv, OwnI
  <2>6. \A u, v \in Threads : Own(u)' /\ Own(v)' /\ at'[u] = at'[v] => u = v
    BY <2>4 DEF IInv, OwnI
  <2>7. \A u \in Threads : pc'[u] = "free" => obj'[at'[u]].destroyed
    <3>1. \A u \in Threads : pc'[u] = "free" => Own(u)' /\ pc[u] = "free"
      BY <1>4 DEF Own, OwnerPc
    <3> QED
      BY <1>6, <2>4, <3>1 DEF IInv, OwnI
  <2>8. ASSUME NEW q \in Objs, obj'[q].st = "live"
        PROVE  Slots(q)' # {} \/ \E u \in Threads : Own(u)' /\ at'[u] = q
    <3>1. q # o /\ obj[q].st = "live" /\ Slots(q)' = Slots(q)
      BY <1>5, <1>6, <2>8 DEF Slots
    <3>2. CASE Slots(q) # {}
      BY <3>1, <3>2
    <3>3. CASE \E u \in Threads : Own(u) /\ at[u] = q
      <4>1. PICK u \in Threads : Own(u) /\ at[u] = q
        BY <3>3
      <4>2. u # t
        BY <1>1, <3>1, <4>1
      <4> QED
        BY <1>4, <4>1, <4>2
    <3> QED
      BY <3>1, <3>2, <3>3 DEF IInv, OwnI
  <2> QED
    BY <2>1, <2>2, <2>3, <2>5, <2>6, <2>7, <2>8 DEF OwnI
<1>14. IdsI'
  BY <1>4, <1>5, <1>10 DEF IInv, IdsI
<1>15. ReleaseI'
  <2>1. t = Release =>
            \A i \in Ids : contexts[i] # 0 /\ file[obj[contexts[i]].priv] = "releasing" =>
                i > cid[Release]
    BY <1>2 DEF IInv, ReleaseI, DestroyPc
  <2>2. \A q \in Objs :
            /\ obj'[q].priv = obj[q].priv
            /\ obj'[q].st = obj[q].st \/ (obj[q].st = "live" /\ obj'[q].st = "freed")
    BY <1>2, <1>6
  <2>3. Returns(t)
    BY <1>2, <1>4, <1>5, <2>1, <2>2 DEF Returns
  <2> QED
    BY <2>3, ReturnsKeeps
<1> QED
  BY <1>4, <1>11, <1>12, <1>13, <1>14, <1>15 DEF IInv

\* A destroyer that finds no context to destroy returns.
LEMMA GivesUp ==
    ASSUME IInv, NEW t \in Threads, pc[t] \in {"destroy", "remove"}, Return(t),
           UNCHANGED <<contexts, obj, backend, active_wait_list, work, file>>,
           t = Release => \/ contexts[cid[t]] = 0
                          \/ file[obj[contexts[cid[t]]].priv] # "releasing"
    PROVE  IInv'
<1>1. t # Retire /\ at[t] = 0
  BY DEF IInv, ThreadI, NoObjectPc
<1>2. Moves(t, "idle", 0, Back(t))
  BY <1>1, ReturnMoves
<1>3. /\ pc' \in [Threads -> Pcs] /\ at' \in [Threads -> 0 .. NumObjs]
      /\ cid' \in [Threads -> 0 .. NumIds + 1]
      /\ pc'[t] = "idle" /\ at'[t] = 0 /\ cid'[t] = Back(t)
      /\ \A u \in Threads \ {t} : pc'[u] = pc[u] /\ at'[u] = at[u] /\ cid'[u] = cid[u]
      /\ \A u \in Threads \ {t} : (Own(u)' <=> Own(u)) /\ (Claims(u)' <=> Claims(u))
      /\ ThreadI'
  BY <1>2, MovesKeeps
<1>4. ~Own(t) /\ ~Own(t)' /\ ~Claims(t) /\ ~Claims(t)'
  BY <1>3 DEF Own, Claims, OwnerPc
<1>5. at' = at
  BY <1>1 DEF Return, IInv, TypeI
<1>6. TypeI'
  BY <1>3 DEF IInv, TypeI
<1>7. RefsI'
  <2>1. Quiet
    BY <1>3, <1>5 DEF Quiet, SameObj
  <2> QED
    BY <2>1, QuietKeeps
<1>8. OwnI'
  <2>1. \A u \in Threads : (Own(u)' <=> Own(u)) /\ (pc'[u] = "free" => pc[u] = "free")
    BY <1>3, <1>4
  <2>2. \A o \in Objs : Slots(o)' = Slots(o)
    BY DEF Slots
  <2> QED
    BY <1>5, <2>1, <2>2 DEF IInv, OwnI
<1>9. IdsI'
  BY <1>3, <1>4 DEF IInv, IdsI
<1>10. ReleaseI'
  <2>1. t = Release =>
            \A i \in Ids : contexts[i] # 0 /\ file[obj[contexts[i]].priv] = "releasing" =>
                i > cid[Release]
    BY DEF IInv, ReleaseI
  <2>2. Returns(t)
    BY <1>3, <2>1 DEF Returns
  <2> QED
    BY <2>2, ReturnsKeeps
<1> QED
  BY <1>3, <1>6, <1>7, <1>8, <1>9, <1>10 DEF IInv

LEMMA DestroyGetStep == ASSUME IInv, NEW t \in Threads, DestroyGet(t) PROVE IInv'
<1>1. CASE contexts[cid[t]] = 0
  BY <1>1, GivesUp DEF DestroyGet
<1>2. CASE contexts[cid[t]] # 0
  <2>1. PICK id \in Ids : id = cid[t]
    BY DEF DestroyGet, IInv, ThreadI, DestroyPc
  <2>2. /\ pc[t] = "destroy" /\ hgsl_get_context(t, id) /\ Go(t, "ibdesc")
        /\ UNCHANGED <<contexts, backend, active_wait_list, work, file>>
    BY <1>2, <2>1 DEF DestroyGet
  <2>3. PICK w \in {"use", "wait", "put", "ibdesc_retry", "ibdesc"} : w = "ibdesc"
    OBVIOUS
  <2>4. Go(t, w) /\ cid[t] = id
    BY <2>1, <2>2, <2>3
  <2> QED
    BY <2>2, <2>3, <2>4, ClientGets
<1> QED
  BY <1>1, <1>2

\* The release destroys for the one process whose file it is releasing.
LEMMA PrivIs ==
    ASSUME IInv, NEW t \in Threads, t # Retire, pc[t] # "idle"
    PROVE  /\ t \in Clients => Priv(t) = ProcOf[t]
           /\ t = Release => Priv(t) \in Procs /\ file[Priv(t)] = "releasing"
<1>1. ASSUME t = Release PROVE Priv(t) \in Procs /\ file[Priv(t)] = "releasing"
  <2>1. \E p \in Procs : file[p] = "releasing"
    BY <1>1 DEF IInv, ReleaseI
  <2>2. Priv(t) = CHOOSE p \in Procs : file[p] = "releasing"
    BY <1>1, ThreadFacts DEF Priv
  <2> QED
    BY <2>1, <2>2
<1> QED
  BY <1>1 DEF Priv

\* The context leaves the table, and its reference passes to the destroyer.
RemovesFrom(t, o, c) ==
    /\ pc[t] = "remove" /\ c = cid[t] /\ o = contexts[c]
    /\ contexts' = [contexts EXCEPT ![c] = 0]
    /\ t \in Clients => obj[o].priv = ProcOf[t]
    /\ t = Release => file[obj[o].priv] = "releasing"
    /\ Moves(t, "flag", o, c)
    /\ UNCHANGED <<obj, backend, active_wait_list, work, file>>

LEMMA RemovesKeeps ==
    ASSUME IInv, NEW t \in Threads, NEW o \in Objs, NEW c \in Ids, RemovesFrom(t, o, c)
    PROVE  IInv'
<1>1. /\ pc' \in [Threads -> Pcs] /\ at' \in [Threads -> 0 .. NumObjs]
      /\ cid' \in [Threads -> 0 .. NumIds + 1]
      /\ pc'[t] = "flag" /\ at'[t] = o /\ cid'[t] = c
      /\ \A u \in Threads \ {t} : pc'[u] = pc[u] /\ at'[u] = at[u] /\ cid'[u] = cid[u]
      /\ \A u \in Threads \ {t} : (Own(u)' <=> Own(u)) /\ (Claims(u)' <=> Claims(u))
      /\ ThreadI'
  BY MovesKeeps DEF RemovesFrom
<1>2. /\ contexts[c] = o /\ o # 0 /\ obj[o].st = "live" /\ pc[t] = "remove" /\ cid[t] = c
      /\ at[t] = 0 /\ t # Retire /\ ~Own(t) /\ ~Claims(t) /\ Own(t)' /\ Claims(t)'
      /\ UNCHANGED <<obj, backend, active_wait_list, work, file>>
  BY <1>1, RefersTo DEF RemovesFrom, Moves, IInv, OwnI, ThreadI, NoObjectPc, Own, OwnerPc, Claims
<1>3. /\ contexts' \in [Ids -> 0 .. NumObjs] /\ contexts'[c] = 0
      /\ \A i \in Ids \ {c} : contexts'[i] = contexts[i] /\ contexts[i] # o
  BY <1>2, ThreadFacts DEF RemovesFrom, IInv, TypeI, OwnI
<1>4. TypeI'
  BY <1>1, <1>2, <1>3 DEF IInv, TypeI
<1>5. RefsI'
  <2>1. Slots(o)' = Slots(o) \ {c} /\ c \in Slots(o)
    BY <1>2, <1>3 DEF Slots
  <2>2. Holders(o)' = Holders(o) \cup {t} /\ t \in Threads \ Holders(o)
    BY <1>1, <1>2 DEF Holders
  <2>3. SameRefs(o)
    <3>1. \A q \in Objs \ {o} : Slots(q)' = Slots(q)
      BY <1>2, <1>3, RefersTo DEF Slots, IInv
    <3>2. \A q \in Objs \ {o} : Holders(q)' = Holders(q)
      BY <1>1, <1>2, RefersTo DEF Holders, IInv
    <3> QED
      BY <1>2, <3>1, <3>2 DEF SameRefs, SameObj
  <2>4. /\ obj[o].kref = Cardinality(Slots(o)) + Cardinality(Holders(o)) + One(obj[o].async)
        /\ Cardinality(Slots(o)) \in Nat /\ Cardinality(Holders(o)) \in Nat
        /\ ~obj[o].destroyed
    BY <1>2, <2>1, RefsAre DEF IInv
  <2>5. Cardinality(Slots(o)') = Cardinality(Slots(o)) - 1
    BY <2>1, CountIds DEF Slots
  <2>6. Cardinality(Holders(o)') = Cardinality(Holders(o)) + 1
    BY <2>2, CountThreads DEF Holders
  <2>7. Counted(o)'
    <3>1. obj[o].kref = Cardinality(Slots(o)') + Cardinality(Holders(o)') + One(obj[o].async)
      BY <2>4, <2>5, <2>6, OneIsNat
    <3> QED
      BY <1>2, <2>4, <3>1 DEF Counted
  <2> QED
    BY <2>3, <2>7, RefsOfOne
<1>6. \A u \in Threads : Own(u) => u # t /\ at'[u] = at[u] /\ at[u] # o /\ Own(u)'
  BY <1>1, <1>2 DEF IInv, OwnI
<1>7. OwnI'
  <2>1. \A i \in Ids : contexts'[i] # 0 => obj'[contexts'[i]].st = "live"
    BY <1>2, <1>3 DEF IInv, OwnI
  <2>2. \A u \in Threads : at'[u] # 0 => obj'[at'[u]].st = "live"
    BY <1>1, <1>2 DEF IInv, OwnI
  <2>3. \A i, j \in Ids : contexts'[i] # 0 /\ contexts'[i] = contexts'[j] => i = j
    BY <1>3 DEF IInv, OwnI
  <2>4. \A u \in Threads : Own(u)' => \A i \in Ids : contexts'[i] # at'[u]
    <3>1. \A i \in Ids : contexts'[i] # o
      BY <1>2, <1>3
    <3>2. \A u \in Threads : Own(u) => at[u] # 0
      BY DEF IInv, ThreadI, Own, OwnerPc, NoObjectPc
    <3> QED
      BY <1>1, <1>3, <3>1, <3>2 DEF IInv, OwnI
  <2>5. \A u, v \in Threads : Own(u)' /\ Own(v)' /\ at'[u] = at'[v] => u = v
    BY <1>1, <1>6 DEF IInv, OwnI
  <2>6. \A u \in Threads : pc'[u] = "free" => obj'[at'[u]].destroyed
    BY <1>1, <1>2 DEF IInv, OwnI
  <2>7. ASSUME NEW q \in Objs, obj'[q].st = "live"
        PROVE  Slots(q)' # {} \/ \E u \in Threads : Own(u)' /\ at'[u] = q
    <3>1. CASE q = o
      BY <1>1, <1>2, <3>1
    <3>2. CASE q # o
      <4>1. Slots(q)' = Slots(q)
        BY <1>2, <1>3, <3>2, RefersTo DEF Slots, IInv
      <4> QED
        BY <1>2, <1>6, <2>7, <4>1 DEF IInv, OwnI
    <3> QED
      BY <3>1, <3>2
  <2> QED
    BY <2>1, <2>2, <2>3, <2>4, <2>5, <2>6, <2>7 DEF OwnI
<1>8. IdsI'
  <2>1. c \in backend
    BY <1>2 DEF IInv, IdsI
  <2>2. \A u \in Threads : Claims(u) => u # t /\ cid[u] # c /\ cid[u] \in Ids
    BY <1>2 DEF IInv, IdsI, ThreadI, Claims, OwnerPc
  <2>3. \A i \in Ids : contexts'[i] # 0 => i \in backend'
    BY <1>2, <1>3 DEF IInv, IdsI
  <2>4. \A u \in Threads : Claims(u)' => cid'[u] \in backend' /\ contexts'[cid'[u]] = 0
    BY <1>1, <1>2, <1>3, <2>1, <2>2 DEF IInv, IdsI
  <2>5. \A u, v \in Threads : Claims(u)' /\ Claims(v)' /\ cid'[u] = cid'[v] => u = v
    BY <1>1, <2>2 DEF IInv, IdsI
  <2> QED
    BY <2>3, <2>4, <2>5 DEF IdsI
<1>9. ReleaseI'
  <2>1. cid'[Release] = cid[Release] /\ (pc'[Release] = "idle" <=> pc[Release] = "idle")
    BY <1>1, <1>2, ThreadFacts
  <2>2. \A u \in Clients : file'[ProcOf[u]] # "open" => pc'[u] = "idle"
    BY <1>1, <1>2, ThreadFacts DEF IInv, ReleaseI
  <2>3. \A u \in Clients : Own(u)' => obj'[at'[u]].priv = ProcOf[u]
    BY <1>1, <1>2, ThreadFacts DEF RemovesFrom, IInv, ReleaseI
  <2>4. Own(Release)' => file'[obj'[at'[Release]].priv] = "releasing"
    BY <1>1, <1>2, ThreadFacts DEF RemovesFrom, IInv, ReleaseI
  <2>5. \A i \in Ids : contexts'[i] # 0 /\ file'[obj'[contexts'[i]].priv] = "releasing" =>
            i > cid'[Release] \/ (i = cid'[Release] /\ pc'[Release] \in DestroyPc)
    BY <1>1, <1>2, <1>3, <2>1, ThreadFacts DEF IInv, ReleaseI
  <2> QED
    BY <1>2, <2>1, <2>2, <2>3, <2>4, <2>5 DEF IInv, ReleaseI
<1> QED
  BY <1>1, <1>4, <1>5, <1>7, <1>8, <1>9 DEF IInv

LEMMA DestroyRemoveStep == ASSUME IInv, NEW t \in Threads, DestroyRemove(t) PROVE IInv'
<1>1. /\ pc[t] = "remove" /\ cid[t] \in Ids /\ t # Retire /\ at[t] = 0
  BY DEF DestroyRemove, IInv, ThreadI, DestroyPc, NoObjectPc
<1>2. /\ t \in Clients => Priv(t) = ProcOf[t]
      /\ t = Release => Priv(t) \in Procs /\ file[Priv(t)] = "releasing"
  BY <1>1, PrivIs
<1>3. PICK c \in Ids : c = cid[t]
  BY <1>1
<1>4. CASE contexts[c] # 0 /\ obj[contexts[c]].priv = Priv(t)
  <2>1. PICK o \in Objs : o = contexts[c]
    BY <1>4, RefersTo DEF IInv
  <2>2. /\ contexts' = [contexts EXCEPT ![c] = 0] /\ at' = [at EXCEPT ![t] = o]
        /\ pc' = [pc EXCEPT ![t] = "flag"] /\ cid' = cid
        /\ UNCHANGED <<obj, backend, active_wait_list, work, file>>
    BY <1>3, <1>4, <2>1 DEF DestroyRemove, Go
  <2>3. cid' = [cid EXCEPT ![t] = c] /\ c \in 0 .. NumIds + 1 /\ o \in 0 .. NumObjs /\ o # 0
    BY <1>3, <2>2, ThreadFacts DEF IInv, TypeI, Ids, Objs
  <2>4. "flag" \in Pcs /\ "flag" \notin NoObjectPc /\ "flag" \notin ClientPc
    BY DEF Pcs, OwnerPc, NoObjectPc, ClientPc
  <2>5. Moves(t, "flag", o, c)
    BY <1>1, <1>3, <2>2, <2>3, <2>4 DEF Moves
  <2>6. RemovesFrom(t, o, c)
    BY <1>1, <1>2, <1>3, <1>4, <2>1, <2>2, <2>5 DEF RemovesFrom
  <2> QED
    BY <2>6, RemovesKeeps
<1>5. CASE ~(contexts[c] # 0 /\ obj[contexts[c]].priv = Priv(t))
  <2>1. /\ Return(t) /\ UNCHANGED <<contexts, obj, backend, active_wait_list, work, file>>
    BY <1>3, <1>5 DEF DestroyRemove
  <2>2. t = Release => \/ contexts[cid[t]] = 0
                       \/ file[obj[contexts[cid[t]]].priv] # "releasing"
    <3>1. SUFFICES ASSUME t = Release, contexts[c] # 0, file[obj[contexts[c]].priv] = "releasing"
                   PROVE FALSE
      BY <1>3
    <3>2. obj[contexts[c]].priv \in Procs
      <4>1. /\ contexts[c] \in Objs /\ obj[contexts[c]].st = "live"
            /\ obj[contexts[c]] \in ObjT
        BY <3>1, RefersTo DEF IInv, OwnI
      <4>2. obj[contexts[c]].priv # "none"
        BY <4>1 DEF IInv, ReleaseI
      <4> QED
        BY <4>1, <4>2 DEF ObjT
    <3> QED
      BY <1>2, <1>5, <3>1, <3>2 DEF IInv, ReleaseI
  <2> QED
    BY <1>1, <2>1, <2>2, GivesUp
<1> QED
  BY <1>4, <1>5

-----------------------------------------------------------------------------
(* The creation of a context.                                              *)

LEMMA CreateStep == ASSUME IInv, NEW t \in Clients, NEW id \in Ids, Create(t, id) PROVE IInv'
<1> DEFINE unused == {o \in Objs : obj[o].st = "none"}
<1>1. PICK o \in Objs : o = CHOOSE u \in unused : \A v \in unused : u <= v
  <2>1. unused \in SUBSET Nat /\ unused # {}
    BY ThreadFacts DEF Create, Objs
  <2>2. \E u \in unused : \A v \in unused : u <= v
    BY <2>1, LeastExists
  <2> QED
    BY <2>2
<1>2. obj[o].st = "none"
  <2>1. unused \in SUBSET Nat /\ unused # {}
    BY ThreadFacts DEF Create, Objs
  <2>2. \E u \in unused : \A v \in unused : u <= v
    BY <2>1, LeastExists
  <2> QED
    BY <1>1, <2>2
<1> DEFINE r == [NoObj EXCEPT !.st = "live", !.id = id, !.kref = 1, !.priv = ProcOf[t]]
<1>3. /\ Idle(t) /\ id \notin backend /\ backend' = backend \cup {id}
      /\ obj' = [obj EXCEPT ![o] = r] /\ at' = [at EXCEPT ![t] = o]
      /\ cid' = [cid EXCEPT ![t] = id] /\ pc' = [pc EXCEPT ![t] = "insert"]
      /\ UNCHANGED <<contexts, active_wait_list, work, file>>
  BY <1>1 DEF Create, Go
<1>4. /\ r \in ObjT /\ r.st = "live" /\ r.kref = 1 /\ r.priv = ProcOf[t] /\ r.async = FALSE
      /\ r.destroyed = FALSE
  <2>1. ProcOf[t] \in Procs /\ id \in 0 .. NumIds
    BY ThreadFacts DEF Ids
  <2> DEFINE a == [NoObj EXCEPT !.st = "live"]
             b == [a EXCEPT !.id = id]
             c == [b EXCEPT !.kref = 1]
  <2>6. NoObj \in ObjT /\ NoObj.async = FALSE /\ NoObj.destroyed = FALSE
    BY ThreadFacts DEF NoObj, ObjT
  <2>2. a \in ObjT /\ a.st = "live" /\ a.async = FALSE /\ a.destroyed = FALSE
    BY <2>6 DEF ObjT
  <2> HIDE DEF a
  <2>3. b \in ObjT /\ b.st = "live" /\ b.async = FALSE /\ b.destroyed = FALSE
    BY <2>1, <2>2 DEF ObjT
  <2> HIDE DEF b
  <2>4. c \in ObjT /\ c.st = "live" /\ c.async = FALSE /\ c.destroyed = FALSE /\ c.kref = 1
    BY <2>3 DEF ObjT
  <2>5. r = [c EXCEPT !.priv = ProcOf[t]]
    BY DEF a, b
  <2> HIDE DEF c, r
  <2> QED
    BY <2>1, <2>4, <2>5 DEF ObjT
<1> HIDE DEF unused, r
<1>5. /\ pc[t] = "idle" /\ file[ProcOf[t]] = "open" /\ t \in Threads /\ t # Release /\ t # Retire
      /\ at[t] = 0 /\ o # 0 /\ o \in 0 .. NumObjs /\ id \in 0 .. NumIds + 1
  BY <1>3, ThreadFacts DEF Idle, IInv, ThreadI, NoObjectPc, Objs, Ids
<1>6. Moves(t, "insert", o, id)
  <2>1. "insert" \in Pcs /\ "insert" \notin NoObjectPc
    BY DEF Pcs, OwnerPc, NoObjectPc
  <2> QED
    BY <1>3, <1>5, <2>1 DEF Moves
<1>7. /\ pc' \in [Threads -> Pcs] /\ at' \in [Threads -> 0 .. NumObjs]
      /\ cid' \in [Threads -> 0 .. NumIds + 1]
      /\ pc'[t] = "insert" /\ at'[t] = o /\ cid'[t] = id
      /\ \A u \in Threads \ {t} : pc'[u] = pc[u] /\ at'[u] = at[u] /\ cid'[u] = cid[u]
      /\ \A u \in Threads \ {t} : (Own(u)' <=> Own(u)) /\ (Claims(u)' <=> Claims(u))
      /\ ThreadI'
  BY <1>5, <1>6, MovesKeeps
<1>8. /\ obj' \in [Objs -> ObjT] /\ obj'[o] = r
      /\ \A q \in Objs \ {o} : obj'[q] = obj[q]
  BY <1>3, <1>4 DEF IInv, TypeI
<1>9. /\ \A i \in Ids : contexts[i] # o
      /\ \A u \in Threads : at[u] # o
      /\ ~Own(t) /\ ~Claims(t) /\ Own(t)' /\ Claims(t)'
  BY <1>2, <1>5, <1>7 DEF IInv, OwnI, Own, Claims, OwnerPc
<1>10. TypeI'
  BY <1>3, <1>7, <1>8 DEF IInv, TypeI
<1>11. RefsI'
  <2>1. Slots(o)' = {} /\ Holders(o)' = {} \cup {t}
    BY <1>3, <1>7, <1>9 DEF Slots, Holders
  <2>2. Cardinality(Slots(o)') = 0 /\ Cardinality(Holders(o)') = 1
    <3>1. {} \in SUBSET Threads /\ {} \in SUBSET Ids
      OBVIOUS
    <3>2. Cardinality({}) = 0
      BY FS_EmptySet
    <3> QED
      BY <1>5, <2>1, <3>1, <3>2, CountThreads
  <2>3. SameRefs(o)
    <3>1. \A q \in Objs \ {o} : Slots(q)' = Slots(q)
      BY <1>3 DEF Slots
    <3>2. \A q \in Objs \ {o} : Holders(q)' = Holders(q)
      BY <1>5, <1>7, RefersTo DEF Holders, IInv
    <3> QED
      BY <1>8, <3>1, <3>2 DEF SameRefs, SameObj
  <2>4. Counted(o)'
    BY <1>4, <1>8, <2>2 DEF Counted, One
  <2> QED
    BY <2>3, <2>4, RefsOfOne
<1>12. \A u \in Threads : Own(u) => u # t /\ at'[u] = at[u] /\ at[u] # o /\ Own(u)' /\ at[u] \in Objs
  <2>1. \A u \in Threads : Own(u) => at[u] # 0
    BY DEF IInv, ThreadI, Own, OwnerPc, NoObjectPc
  <2> QED
    BY <1>7, <1>9, <2>1, RefersTo DEF IInv
<1>13. OwnI'
  <2>1. \A i \in Ids : contexts'[i] # 0 => obj'[contexts'[i]].st = "live"
    BY <1>3, <1>8, <1>9, RefersTo DEF IInv, OwnI
  <2>2. \A u \in Threads : at'[u] # 0 => obj'[at'[u]].st = "live"
    BY <1>4, <1>7, <1>8, <1>9, RefersTo DEF IInv, OwnI
  <2>3. \A i, j \in Ids : contexts'[i] # 0 /\ contexts'[i] = contexts'[j] => i = j
    BY <1>3 DEF IInv, OwnI
  <2>4. \A u \in Threads : Own(u)' => \A i \in Ids : contexts'[i] # at'[u]
    BY <1>3, <1>7, <1>9, <1>12 DEF IInv, OwnI
  <2>5. \A u, v \in Threads : Own(u)' /\ Own(v)' /\ at'[u] = at'[v] => u = v
    BY <1>7, <1>12 DEF IInv, OwnI
  <2>6. \A u \in Threads : pc'[u] = "free" => obj'[at'[u]].destroyed
    <3>1. \A u \in Threads : pc'[u] = "free" => pc[u] = "free" /\ Own(u)
      BY <1>7 DEF Own, OwnerPc
    <3> QED
      BY <1>8, <1>12, <3>1 DEF IInv, OwnI
  <2>7. ASSUME NEW q \in Objs, obj'[q].st = "live"
        PROVE  Slots(q)' # {} \/ \E u \in Threads : Own(u)' /\ at'[u] = q
    <3>1. CASE q = o
      BY <1>5, <1>7, <1>9, <3>1
    <3>2. CASE q # o
      <4>1. Slots(q)' = Slots(q) /\ obj[q].st = "live"
        BY <1>3, <1>8, <2>7, <3>2 DEF Slots
      <4> QED
        BY <1>12, <4>1 DEF IInv, OwnI
    <3> QED
      BY <3>1, <3>2
  <2> QED
    BY <2>1, <2>2, <2>3, <2>4, <2>5, <2>6, <2>7 DEF OwnI
<1>14. IdsI'
  <2>1. \A u \in Threads : Claims(u) => u # t /\ cid[u] # id
    BY <1>3, <1>9 DEF IInv, IdsI
  <2>2. contexts[id] = 0
    BY <1>3 DEF IInv, IdsI
  <2>3. \A i \in Ids : contexts'[i] # 0 => i \in backend'
    BY <1>3 DEF IInv, IdsI
  <2>4. \A u \in Threads : Claims(u)' => cid'[u] \in backend' /\ contexts'[cid'[u]] = 0
    BY <1>3, <1>7, <2>1, <2>2 DEF IInv, IdsI
  <2>5. \A u, v \in Threads : Claims(u)' /\ Claims(v)' /\ cid'[u] = cid'[v] => u = v
    BY <1>7, <2>1 DEF IInv, IdsI
  <2> QED
    BY <2>3, <2>4, <2>5 DEF IdsI
<1>15. ReleaseI'
  <2>1. cid'[Release] = cid[Release] /\ pc'[Release] = pc[Release] /\ at'[Release] = at[Release]
    BY <1>5, <1>7, ThreadFacts
  <2>2. \A u \in Clients : file'[ProcOf[u]] # "open" => pc'[u] = "idle"
    BY <1>3, <1>5, <1>7, ThreadFacts DEF IInv, ReleaseI
  <2>3. \A q \in Objs : obj'[q].st = "none" <=> obj'[q].priv = "none"
    BY <1>4, <1>8, ThreadFacts DEF IInv, ReleaseI
  <2>4. \A u \in Clients : Own(u)' => obj'[at'[u]].priv = ProcOf[u]
    BY <1>4, <1>7, <1>8, <1>12, ThreadFacts DEF IInv, ReleaseI
  <2>5. Own(Release)' => file'[obj'[at'[Release]].priv] = "releasing"
    BY <1>3, <1>5, <1>7, <1>8, <1>12, ThreadFacts DEF IInv, ReleaseI
  <2>6. \A i \in Ids : contexts'[i] # 0 /\ file'[obj'[contexts'[i]].priv] = "releasing" =>
            i > cid'[Release] \/ (i = cid'[Release] /\ pc'[Release] \in DestroyPc)
    BY <1>3, <1>8, <1>9, <2>1, RefersTo DEF IInv, ReleaseI
  <2>7. \A q \in Objs : obj'[q].st = "live" => file'[obj'[q].priv] # "released"
    BY <1>3, <1>4, <1>5, <1>8 DEF IInv, ReleaseI
  <2> QED
    BY <1>3, <2>1, <2>2, <2>3, <2>4, <2>5, <2>6, <2>7 DEF IInv, ReleaseI
<1> QED
  BY <1>7, <1>10, <1>11, <1>13, <1>14, <1>15 DEF IInv

\* The table takes the reference of the creator; the slot of its id is empty.
InsertsInto(t, o, c, w, d) ==
    /\ pc[t] = "insert" /\ c = cid[t] /\ o = at[t]
    /\ contexts' = [contexts EXCEPT ![c] = o]
    /\ w \in {"idle", "destroy"} /\ Moves(t, w, 0, d)
    /\ UNCHANGED <<obj, backend, active_wait_list, work, file>>

LEMMA InsertsKeeps ==
    ASSUME IInv, NEW t \in Clients, NEW o \in Objs, NEW c \in Ids, NEW w, NEW d,
           InsertsInto(t, o, c, w, d)
    PROVE  IInv'
<1>1. /\ t \in Threads /\ t # Release /\ t # Retire
  BY ThreadFacts
<1>2. /\ pc' \in [Threads -> Pcs] /\ at' \in [Threads -> 0 .. NumObjs]
      /\ cid' \in [Threads -> 0 .. NumIds + 1]
      /\ pc'[t] = w /\ at'[t] = 0 /\ cid'[t] = d
      /\ \A u \in Threads \ {t} : pc'[u] = pc[u] /\ at'[u] = at[u] /\ cid'[u] = cid[u]
      /\ \A u \in Threads \ {t} : (Own(u)' <=> Own(u)) /\ (Claims(u)' <=> Claims(u))
      /\ ThreadI'
  BY <1>1, MovesKeeps DEF InsertsInto
<1>3. /\ pc[t] = "insert" /\ at[t] = o /\ o # 0 /\ cid[t] = c
      /\ Own(t) /\ Claims(t) /\ ~Own(t)' /\ ~Claims(t)'
      /\ UNCHANGED <<obj, backend, active_wait_list, work, file>>
  BY <1>2, RefersTo DEF InsertsInto, Own, Claims, OwnerPc, IInv
<1>4. contexts[c] = 0 /\ c \in backend /\ obj[o].st = "live"
  BY <1>1, <1>3 DEF IInv, IdsI, OwnI
<1>5. /\ contexts' \in [Ids -> 0 .. NumObjs] /\ contexts'[c] = o
      /\ \A i \in Ids \ {c} : contexts'[i] = contexts[i]
      /\ \A i \in Ids : contexts[i] # o
  BY <1>1, <1>3, ThreadFacts DEF InsertsInto, IInv, TypeI, OwnI, Objs
<1>6. TypeI'
  BY <1>2, <1>3, <1>5 DEF IInv, TypeI
<1>7. RefsI'
  <2>1. Slots(o)' = Slots(o) \cup {c} /\ c \in Ids \ Slots(o)
    BY <1>3, <1>4, <1>5 DEF Slots
  <2>2. Holders(o)' = Holders(o) \ {t} /\ t \in Holders(o)
    BY <1>1, <1>2, <1>3 DEF Holders
  <2>3. SameRefs(o)
    <3>1. \A q \in Objs \ {o} : Slots(q)' = Slots(q)
      BY <1>4, <1>5, RefersTo DEF Slots, IInv
    <3>2. \A q \in Objs \ {o} : Holders(q)' = Holders(q)
      BY <1>2, <1>3, RefersTo DEF Holders, IInv
    <3> QED
      BY <1>3, <3>1, <3>2 DEF SameRefs, SameObj
  <2>4. /\ obj[o].kref = Cardinality(Slots(o)) + Cardinality(Holders(o)) + One(obj[o].async)
        /\ Cardinality(Slots(o)) \in Nat /\ Cardinality(Holders(o)) \in Nat
        /\ ~obj[o].destroyed
    BY <1>4, <2>2, RefsAre DEF IInv
  <2>5. Cardinality(Slots(o)') = Cardinality(Slots(o)) + 1
    BY <2>1, CountIds DEF Slots
  <2>6. Cardinality(Holders(o)') = Cardinality(Holders(o)) - 1
    BY <2>2, CountThreads, ZenonT(60) DEF Holders
  <2>7. Counted(o)'
    <3>1. obj[o].kref = Cardinality(Slots(o)') + Cardinality(Holders(o)') + One(obj[o].async)
      BY <2>4, <2>5, <2>6, OneIsNat
    <3> QED
      BY <1>3, <1>4, <2>4, <3>1 DEF Counted
  <2> QED
    BY <2>3, <2>7, RefsOfOne
<1>8. \A u \in Threads : Own(u)' => u # t /\ Own(u) /\ at'[u] = at[u] /\ at[u] # o
  BY <1>1, <1>2, <1>3 DEF IInv, OwnI
<1>9. OwnI'
  <2>1. \A i \in Ids : contexts'[i] # 0 => obj'[contexts'[i]].st = "live"
    BY <1>3, <1>4, <1>5 DEF IInv, OwnI
  <2>2. \A u \in Threads : at'[u] # 0 => obj'[at'[u]].st = "live"
    BY <1>2, <1>3 DEF IInv, OwnI
  <2>3. \A i, j \in Ids : contexts'[i] # 0 /\ contexts'[i] = contexts'[j] => i = j
    BY <1>5 DEF IInv, OwnI
  <2>4. \A u \in Threads : Own(u)' => \A i \in Ids : contexts'[i] # at'[u]
    BY <1>5, <1>8 DEF IInv, OwnI
  <2>5. \A u, v \in Threads : Own(u)' /\ Own(v)' /\ at'[u] = at'[v] => u = v
    BY <1>8 DEF IInv, OwnI
  <2>6. \A u \in Threads : pc'[u] = "free" => obj'[at'[u]].destroyed
    <3>1. w # "free"
      BY DEF InsertsInto
    <3> QED
      BY <1>2, <1>3, <3>1 DEF IInv, OwnI
  <2>7. ASSUME NEW q \in Objs, obj'[q].st = "live"
        PROVE  Slots(q)' # {} \/ \E u \in Threads : Own(u)' /\ at'[u] = q
    <3>1. CASE q = o
      BY <1>5, <3>1 DEF Slots
    <3>2. CASE q # o
      <4>1. Slots(q)' = Slots(q)
        BY <1>4, <1>5, <3>2, RefersTo DEF Slots, IInv
      <4>2. \A u \in Threads : Own(u) /\ at[u] = q => Own(u)' /\ at'[u] = q
        BY <1>2, <1>3, <3>2
      <4> QED
        BY <1>3, <2>7, <4>1, <4>2 DEF IInv, OwnI
    <3> QED
      BY <3>1, <3>2
  <2> QED
    BY <2>1, <2>2, <2>3, <2>4, <2>5, <2>6, <2>7 DEF OwnI
<1>10. IdsI'
  <2>1. \A u \in Threads : Claims(u)' =>
            Claims(u) /\ cid'[u] = cid[u] /\ cid[u] # c /\ cid[u] \in Ids
    <3>1. \A u \in Threads : Claims(u) => cid[u] \in Ids
      BY DEF IInv, ThreadI, Claims, OwnerPc
    <3> QED
      BY <1>1, <1>2, <1>3, <3>1 DEF IInv, IdsI
  <2>2. \A i \in Ids : contexts'[i] # 0 => i \in backend'
    BY <1>3, <1>4, <1>5 DEF IInv, IdsI
  <2>3. \A u \in Threads : Claims(u)' => cid'[u] \in backend' /\ contexts'[cid'[u]] = 0
    BY <1>3, <1>5, <2>1 DEF IInv, IdsI
  <2>4. \A u, v \in Threads : Claims(u)' /\ Claims(v)' /\ cid'[u] = cid'[v] => u = v
    BY <2>1 DEF IInv, IdsI
  <2> QED
    BY <2>2, <2>3, <2>4 DEF IdsI
<1>11. ReleaseI'
  <2>1. cid'[Release] = cid[Release] /\ pc'[Release] = pc[Release] /\ at'[Release] = at[Release]
        /\ (Own(Release)' <=> Own(Release))
    BY <1>1, <1>2, ThreadFacts
  <2>2. file[ProcOf[t]] = "open" /\ obj[o].priv = ProcOf[t]
    BY <1>3 DEF IInv, ReleaseI
  <2>3. \A u \in Clients : file'[ProcOf[u]] # "open" => pc'[u] = "idle"
    BY <1>2, <1>3, <2>2, ThreadFacts DEF IInv, ReleaseI
  <2>4. \A u \in Clients : Own(u)' => obj'[at'[u]].priv = ProcOf[u]
    BY <1>3, <1>8, ThreadFacts DEF IInv, ReleaseI
  <2>5. \A i \in Ids : contexts'[i] # 0 /\ file'[obj'[contexts'[i]].priv] = "releasing" =>
            i > cid'[Release] \/ (i = cid'[Release] /\ pc'[Release] \in DestroyPc)
    BY <1>3, <1>5, <2>1, <2>2 DEF IInv, ReleaseI
  <2> QED
    BY <1>3, <2>1, <2>3, <2>4, <2>5 DEF IInv, ReleaseI
<1> QED
  BY <1>2, <1>6, <1>7, <1>9, <1>10, <1>11 DEF IInv

LEMMA InsertStep == ASSUME IInv, NEW t \in Clients, Insert(t) PROVE IInv'
<1>1. /\ t \in Threads /\ t # Release /\ t # Retire /\ pc[t] = "insert"
      /\ at[t] # 0 /\ cid[t] \in Ids /\ Claims(t)
  BY ThreadFacts DEF Insert, IInv, ThreadI, OwnerPc, NoObjectPc, Claims
<1>2. PICK o \in Objs, c \in Ids : o = at[t] /\ c = cid[t]
  BY <1>1, RefersTo DEF IInv
<1>3. contexts[c] = 0
  BY <1>1, <1>2 DEF IInv, IdsI
<1>4. /\ contexts' = [contexts EXCEPT ![c] = o]
      /\ UNCHANGED <<obj, backend, active_wait_list, work, file>>
      /\ \/ Return(t)
         \/ Go(t, "destroy") /\ at' = [at EXCEPT ![t] = 0] /\ UNCHANGED cid
  BY <1>2, <1>3 DEF Insert
<1>5. CASE Return(t)
  <2>1. Moves(t, "idle", 0, Back(t))
    BY <1>1, <1>4, <1>5, ReturnMoves
  <2>2. InsertsInto(t, o, c, "idle", Back(t))
    BY <1>1, <1>2, <1>4, <2>1 DEF InsertsInto
  <2> QED
    BY <2>2, InsertsKeeps
<1>6. CASE Go(t, "destroy") /\ at' = [at EXCEPT ![t] = 0] /\ UNCHANGED cid
  <2>1. cid' = [cid EXCEPT ![t] = c] /\ c \in 0 .. NumIds + 1 /\ 0 \in 0 .. NumObjs
    BY <1>2, <1>6, ThreadFacts DEF IInv, TypeI, Ids
  <2>2. "destroy" \in Pcs /\ "destroy" \in NoObjectPc
    BY DEF Pcs, DestroyPc, NoObjectPc
  <2>3. Moves(t, "destroy", 0, c)
    BY <1>1, <1>4, <1>6, <2>1, <2>2 DEF Moves, Go
  <2>4. InsertsInto(t, o, c, "destroy", c)
    BY <1>1, <1>2, <1>4, <2>3 DEF InsertsInto
  <2> QED
    BY <2>4, InsertsKeeps
<1> QED
  BY <1>4, <1>5, <1>6

-----------------------------------------------------------------------------
(* The release of a file.                                                  *)

LEMMA CloseStep == ASSUME IInv, NEW p \in Procs, Close(p) PROVE IInv'
<1>1. /\ file[p] = "open" /\ \A t \in Clients : ProcOf[t] = p => pc[t] = "idle"
      /\ UNCHANGED <<contexts, obj, backend, pc, at, cid, active_wait_list, work>>
  BY DEF Close
<1>2. /\ file' \in [Procs -> {"open", "closed", "releasing", "released"}] /\ file'[p] = "closed"
      /\ \A q \in Procs \ {p} : file'[q] = file[q]
  BY DEF Close, IInv, TypeI
<1>3. TypeI' /\ ThreadI'
  BY <1>1, <1>2 DEF IInv, TypeI, ThreadI
<1>4. RefsI'
  <2>1. Quiet
    BY <1>1 DEF Quiet, SameObj
  <2> QED
    BY <2>1, QuietKeeps
<1>5. /\ \A o \in Objs : Slots(o)' = Slots(o)
      /\ \A u \in Threads : (Own(u)' <=> Own(u)) /\ (Claims(u)' <=> Claims(u))
  BY <1>1 DEF Slots, Own, Claims
<1>6. OwnI' /\ IdsI'
  BY <1>1, <1>5 DEF IInv, OwnI, IdsI
<1>7. ReleaseI'
  <2>1. \A u \in Clients : file'[ProcOf[u]] # "open" => pc'[u] = "idle"
    BY <1>1, <1>2, ThreadFacts DEF IInv, ReleaseI
  <2>2. \A q \in Procs : file'[q] = "releasing" <=> file[q] = "releasing"
    BY <1>1, <1>2
  <2>3. \A q \in Procs : file'[q] = "released" <=> file[q] = "released"
    BY <1>1, <1>2
  <2>4. \A o \in Objs : obj[o].st = "live" => obj[o].priv \in Procs
    BY RefersTo DEF IInv, ReleaseI, ObjT
  <2>5. Own(Release)' => file'[obj'[at'[Release]].priv] = "releasing"
    <3>1. Own(Release) => at[Release] \in Objs /\ obj[at[Release]].st = "live"
      BY RefersTo, ThreadFacts DEF IInv, ThreadI, OwnI, Own, OwnerPc, NoObjectPc
    <3> QED
      BY <1>1, <1>5, <2>2, <2>4, <3>1, ThreadFacts DEF IInv, ReleaseI
  <2>6. \A i \in Ids : contexts'[i] # 0 /\ file'[obj'[contexts'[i]].priv] = "releasing" =>
            i > cid'[Release] \/ (i = cid'[Release] /\ pc'[Release] \in DestroyPc)
    BY <1>1, <2>2, <2>4, RefersTo DEF IInv, OwnI, ReleaseI
  <2>7. \A o \in Objs : obj'[o].st = "live" => file'[obj'[o].priv] # "released"
    BY <1>1, <2>3, <2>4 DEF IInv, ReleaseI
  <2>8. \A u \in Clients : Own(u)' => obj'[at'[u]].priv = ProcOf[u]
    BY <1>1, <1>5, ThreadFacts DEF IInv, ReleaseI
  <2> QED
    BY <1>1, <2>1, <2>2, <2>5, <2>6, <2>7, <2>8 DEF IInv, ReleaseI
<1> QED
  BY <1>3, <1>4, <1>6, <1>7 DEF IInv

\* What is left of the contexts of a process when the worker looks for the next.
Left(p) == {id \in OwnedBy(p) : id > cid[Release]}

LEMMA ReleaseLooks ==
    ASSUME IInv, NEW p \in Procs, Takes(p)
    PROVE  /\ pc[Release] = "idle" /\ at[Release] = 0 /\ file[p] \in {"closed", "releasing"}
           /\ \A q \in Procs : file[q] = "releasing" => q = p
           /\ \A i \in Ids : contexts[i] # 0 /\ obj[contexts[i]].priv = p => i \in Left(p)
           /\ \A o \in Objs : obj[o].st = "live" => obj[o].priv \in Procs
           /\ \A t \in Clients : ProcOf[t] = p => pc[t] = "idle"
           /\ ~Own(Release)
<1>1. /\ pc[Release] = "idle" /\ at[Release] = 0 /\ file[p] \in {"closed", "releasing"}
      /\ ~Own(Release)
  BY ThreadFacts DEF Takes, IInv, ThreadI, NoObjectPc, Own, OwnerPc
<1>2. \A q \in Procs : file[q] = "releasing" => q = p
  BY DEF Takes, IInv, ReleaseI
<1>3. ASSUME NEW i \in Ids, contexts[i] # 0, obj[contexts[i]].priv = p PROVE i \in Left(p)
  <2>1. i > cid[Release]
    <3>1. CASE file[p] = "releasing"
      BY <1>1, <1>3, <3>1 DEF IInv, ReleaseI, DestroyPc
    <3>2. CASE file[p] = "closed"
      <4>1. cid[Release] = 0
        BY <3>2 DEF Takes, IInv, ReleaseI
      <4> QED
        BY <4>1, ThreadFacts DEF Ids
    <3> QED
      BY <1>1, <3>1, <3>2
  <2> QED
    BY <1>3, <2>1 DEF Left, OwnedBy
<1>4. \A o \in Objs : obj[o].st = "live" => obj[o].priv \in Procs
  BY RefersTo DEF IInv, ReleaseI, ObjT
<1>5. \A t \in Clients : ProcOf[t] = p => pc[t] = "idle"
  BY <1>1 DEF IInv, ReleaseI
<1> QED
  BY <1>1, <1>2, <1>3, <1>4, <1>5

\* The worker turns to the next context of the process.
LEMMA ReleaseOne ==
    ASSUME IInv, NEW p \in Procs, ReleaseNext(p), Left(p) # {} PROVE IInv'
<1>0. Takes(p)
  BY DEF ReleaseNext
<1>1. /\ pc[Release] = "idle" /\ at[Release] = 0 /\ file[p] \in {"closed", "releasing"}
      /\ \A q \in Procs : file[q] = "releasing" => q = p
      /\ \A i \in Ids : contexts[i] # 0 /\ obj[contexts[i]].priv = p => i \in Left(p)
      /\ \A o \in Objs : obj[o].st = "live" => obj[o].priv \in Procs
      /\ \A t \in Clients : ProcOf[t] = p => pc[t] = "idle"
      /\ ~Own(Release)
  BY <1>0, ReleaseLooks
<1>2. PICK c \in Ids : /\ c = CHOOSE i \in Left(p) : \A j \in Left(p) : i <= j
                       /\ \A j \in Left(p) : c <= j
  <2>1. Left(p) \in SUBSET Nat /\ Left(p) \in SUBSET Ids
    BY ThreadFacts DEF Left, OwnedBy, Ids
  <2>2. \E i \in Left(p) : \A j \in Left(p) : i <= j
    BY <2>1, LeastExists
  <2> QED
    BY <2>1, <2>2
<1>3. /\ cid' = [cid EXCEPT ![Release] = c] /\ pc' = [pc EXCEPT ![Release] = "destroy"]
      /\ file' = [file EXCEPT ![p] = "releasing"]
      /\ UNCHANGED <<contexts, obj, backend, at, active_wait_list, work>>
  BY <1>2 DEF ReleaseNext, Left, Go
<1>4. Moves(Release, "destroy", 0, c)
  <2>1. "destroy" \in Pcs /\ "destroy" \in NoObjectPc /\ "destroy" \notin ClientPc
    BY DEF Pcs, DestroyPc, NoObjectPc, ClientPc
  <2>2. c \in 0 .. NumIds + 1 /\ 0 \in 0 .. NumObjs
    BY ThreadFacts DEF Ids
  <2>3. at' = [at EXCEPT ![Release] = 0]
    BY <1>1, <1>3 DEF IInv, TypeI
  <2> QED
    BY <1>1, <1>3, <2>1, <2>2, <2>3, ThreadFacts DEF Moves
<1>5. /\ pc' \in [Threads -> Pcs] /\ cid' \in [Threads -> 0 .. NumIds + 1]
      /\ pc'[Release] = "destroy" /\ cid'[Release] = c
      /\ \A u \in Threads \ {Release} : pc'[u] = pc[u] /\ cid'[u] = cid[u]
      /\ \A u \in Threads \ {Release} : (Own(u)' <=> Own(u)) /\ (Claims(u)' <=> Claims(u))
      /\ ThreadI'
  BY <1>4, MovesKeeps, ThreadFacts
<1>6. /\ file' \in [Procs -> {"open", "closed", "releasing", "released"}]
      /\ file'[p] = "releasing" /\ \A q \in Procs \ {p} : file'[q] = file[q]
  BY <1>3 DEF IInv, TypeI
<1>7. ~Own(Release)' /\ ~Claims(Release) /\ ~Claims(Release)'
  BY <1>1, <1>5 DEF Own, Claims, OwnerPc
<1>8. TypeI'
  BY <1>3, <1>5, <1>6 DEF IInv, TypeI
<1>9. RefsI'
  <2>1. Quiet
    BY <1>1, <1>3, <1>5 DEF Quiet, SameObj
  <2> QED
    BY <2>1, QuietKeeps
<1>10. OwnI'
  <2>1. /\ \A o \in Objs : Slots(o)' = Slots(o)
        /\ \A u \in Threads : (Own(u)' <=> Own(u)) /\ (pc'[u] = "free" => pc[u] = "free")
    BY <1>1, <1>3, <1>5, <1>7 DEF Slots
  <2> QED
    BY <1>3, <2>1 DEF IInv, OwnI
<1>11. IdsI'
  <2>1. \A u \in Threads : (Claims(u)' <=> Claims(u)) /\ (Claims(u) => cid'[u] = cid[u])
    BY <1>5, <1>7
  <2> QED
    BY <1>3, <2>1 DEF IInv, IdsI
<1>12. ReleaseI'
  <2>1. \A u \in Clients : file'[ProcOf[u]] # "open" => pc'[u] = "idle"
    BY <1>1, <1>5, <1>6, ThreadFacts DEF IInv, ReleaseI
  <2>2. \A q \in Procs : file'[q] = "releasing" <=> q = p
    BY <1>1, <1>6
  <2>3. \A i \in Ids : contexts'[i] # 0 /\ file'[obj'[contexts'[i]].priv] = "releasing" =>
            i > cid'[Release] \/ (i = cid'[Release] /\ pc'[Release] \in DestroyPc)
    <3>1. SUFFICES ASSUME NEW i \in Ids, contexts[i] # 0, file'[obj[contexts[i]].priv] = "releasing"
                   PROVE  i > c \/ i = c
      BY <1>3, <1>5 DEF DestroyPc
    <3>2. obj[contexts[i]].priv = p
      BY <1>1, <2>2, <3>1, RefersTo DEF IInv, OwnI
    <3> QED
      BY <1>1, <1>2, <3>1, <3>2, ThreadFacts DEF Ids
  <2>4. \A o \in Objs : obj'[o].st = "live" => file'[obj'[o].priv] # "released"
    BY <1>1, <1>3, <1>6 DEF IInv, ReleaseI
  <2>5. \A u \in Clients : Own(u)' => obj'[at'[u]].priv = ProcOf[u]
    BY <1>3, <1>5, ThreadFacts DEF IInv, ReleaseI
  <2> QED
    BY <1>3, <1>7, <2>1, <2>2, <2>3, <2>4, <2>5 DEF IInv, ReleaseI
<1> QED
  BY <1>5, <1>8, <1>9, <1>10, <1>11, <1>12 DEF IInv

\* The process has no context left.
LEMMA ReleaseEnds ==
    ASSUME IInv, NEW p \in Procs, ReleaseNext(p), Left(p) = {} PROVE IInv'
<1>0. Takes(p)
  BY DEF ReleaseNext
<1>1. /\ pc[Release] = "idle" /\ at[Release] = 0 /\ file[p] \in {"closed", "releasing"}
      /\ \A q \in Procs : file[q] = "releasing" => q = p
      /\ \A i \in Ids : contexts[i] # 0 /\ obj[contexts[i]].priv = p => i \in Left(p)
      /\ \A o \in Objs : obj[o].st = "live" => obj[o].priv \in Procs
      /\ \A t \in Clients : ProcOf[t] = p => pc[t] = "idle"
      /\ ~Own(Release)
  BY <1>0, ReleaseLooks
<1>2. /\ cid' = [cid EXCEPT ![Release] = 0] /\ pc' = pc
      /\ file' = [file EXCEPT ![p] = "released"]
      /\ UNCHANGED <<contexts, obj, backend, at, active_wait_list, work>>
  BY DEF ReleaseNext, Left
<1>3. /\ cid' \in [Threads -> 0 .. NumIds + 1] /\ cid'[Release] = 0
      /\ \A u \in Threads \ {Release} : cid'[u] = cid[u]
      /\ \A u \in Threads : (Own(u)' <=> Own(u)) /\ (Claims(u)' <=> Claims(u))
  BY <1>2, ThreadFacts DEF IInv, TypeI, Own, Claims
<1>4. /\ file' \in [Procs -> {"open", "closed", "releasing", "released"}]
      /\ file'[p] = "released" /\ \A q \in Procs \ {p} : file'[q] = file[q]
  BY <1>2 DEF IInv, TypeI
<1>5. TypeI'
  BY <1>2, <1>3, <1>4 DEF IInv, TypeI
<1>6. ThreadI'
  <2>1. ASSUME NEW u \in Threads
        PROVE  /\ pc'[u] \in NoObjectPc => at'[u] = 0
               /\ pc'[u] \notin NoObjectPc \cup {"signal"} => at'[u] # 0
               /\ pc'[u] \in (OwnerPc \ {"free"}) \cup DestroyPc \cup {"ibdesc_retry"}
                     => cid'[u] \in Ids
               /\ pc'[u] = "signal" =>
                     u = Retire /\ cid'[u] # 0 /\ (at'[u] # 0 => cid'[u] \in Ids)
    <3>1. CASE u = Release
      BY <1>1, <1>2, <3>1 DEF NoObjectPc, OwnerPc, DestroyPc
    <3>2. CASE u # Release
      BY <1>2, <1>3, <3>2 DEF IInv, ThreadI
    <3> QED
      BY <3>1, <3>2
  <2> QED
    BY <1>2, <2>1 DEF IInv, ThreadI
<1>7. RefsI'
  <2>1. Quiet
    BY <1>2 DEF Quiet, SameObj
  <2> QED
    BY <2>1, QuietKeeps
<1>8. OwnI'
  <2>1. \A o \in Objs : Slots(o)' = Slots(o)
    BY <1>2 DEF Slots
  <2> QED
    BY <1>2, <1>3, <2>1 DEF IInv, OwnI
<1>9. IdsI'
  <2>1. \A u \in Threads : Claims(u) => u # Release
    BY <1>1 DEF Claims
  <2> QED
    BY <1>2, <1>3, <2>1 DEF IInv, IdsI
<1>10. ASSUME NEW o \in Objs, obj[o].st = "live" PROVE obj[o].priv # p
  <2>1. SUFFICES ASSUME obj[o].priv = p PROVE FALSE
    OBVIOUS
  <2>2. CASE Slots(o) # {}
    BY <1>1, <2>1, <2>2, RefersTo DEF Slots, IInv
  <2>3. CASE \E t \in Threads : Own(t) /\ at[t] = o
    <3>1. PICK t \in Threads : Own(t) /\ at[t] = o
      BY <2>3
    <3>2. t # Retire
      BY <3>1 DEF IInv, ThreadI, Own, OwnerPc
    <3>3. t \in Clients
      BY <1>1, <3>1, <3>2 DEF Threads
    <3>4. pc[t] = "idle"
      BY <1>1, <2>1, <3>1, <3>3 DEF IInv, ReleaseI
    <3> QED
      BY <3>1, <3>4 DEF Own, OwnerPc
  <2> QED
    BY <1>10, <2>2, <2>3 DEF IInv, OwnI
<1>11. ReleaseI'
  <2>1. \A u \in Clients : file'[ProcOf[u]] # "open" => pc'[u] = "idle"
    BY <1>1, <1>2, <1>4, ThreadFacts DEF IInv, ReleaseI
  <2>2. \A q \in Procs : file'[q] # "releasing"
    BY <1>1, <1>4
  <2>3. \A o \in Objs : obj'[o].st = "live" => file'[obj'[o].priv] # "released"
    BY <1>1, <1>2, <1>4, <1>10 DEF IInv, ReleaseI
  <2>4. \A i \in Ids : contexts'[i] # 0 => file'[obj'[contexts'[i]].priv] # "releasing"
    BY <1>1, <1>2, <2>2, RefersTo DEF IInv, OwnI
  <2>5. \A u \in Clients : Own(u)' => obj'[at'[u]].priv = ProcOf[u]
    BY <1>2, <1>3, ThreadFacts DEF IInv, ReleaseI
  <2>6. ~Own(Release)'
    BY <1>1, <1>3, ThreadFacts
  <2> QED
    BY <1>1, <1>2, <1>3, <2>1, <2>2, <2>3, <2>4, <2>5, <2>6 DEF IInv, ReleaseI
<1> QED
  BY <1>5, <1>6, <1>7, <1>8, <1>9, <1>11 DEF IInv

-----------------------------------------------------------------------------
(* The inductive invariant.                                                *)

LEMMA InitIInv == Init => IInv
<1> SUFFICES ASSUME Init PROVE IInv
  OBVIOUS
<1>1. NoObj \in ObjT /\ NoObj.st = "none" /\ NoObj.kref = 0 /\ NoObj.priv = "none"
      /\ NoObj.async = FALSE
  BY ThreadFacts DEF NoObj, ObjT
<1>2. /\ \A o \in Objs : obj[o] = NoObj
      /\ \A i \in Ids : contexts[i] = 0
      /\ \A t \in Threads : pc[t] = "idle" /\ at[t] = 0 /\ cid[t] = 0
      /\ \A p \in Procs : file[p] = "open"
      /\ active_wait_list = {}
  BY DEF Init
<1>3. TypeI
  <2>1. obj \in [Objs -> ObjT]
    BY <1>1 DEF Init
  <2>2. "idle" \in Pcs
    BY DEF Pcs
  <2>3. 0 \in 0 .. NumObjs /\ 0 \in 0 .. NumIds + 1
    BY ThreadFacts
  <2>4. pc \in [Threads -> Pcs]
    BY <2>2 DEF Init
  <2> QED
    BY <2>1, <2>3, <2>4 DEF Init, TypeI
<1>4. ThreadI
  BY <1>2, ThreadFacts DEF ThreadI, NoObjectPc, OwnerPc, DestroyPc, ClientPc
<1>5. RefsI
  BY <1>1, <1>2 DEF RefsI, Counted
<1>6. \A t \in Threads : ~Own(t) /\ ~Claims(t)
  BY <1>2 DEF Own, Claims, OwnerPc
<1>7. OwnI /\ IdsI
  BY <1>1, <1>2, <1>6 DEF OwnI, IdsI
<1>8. ReleaseI
  BY <1>1, <1>2, <1>6, ThreadFacts DEF ReleaseI
<1> QED
  BY <1>3, <1>4, <1>5, <1>7, <1>8 DEF IInv

LEMMA DestroySteps == ASSUME IInv, NEW t \in Threads, DestroyStep(t) PROVE IInv'
  BY DestroyGetStep, DestroyIbdescStep, DestroyRemoveStep, DestroyFlagStep, DestroyWakeStep,
     DestroyDropStep, DestroyTellStep, DestroyFreeStep DEF DestroyStep

LEMMA NextIInv == IInv /\ [Next]_vars => IInv'
<1> SUFFICES ASSUME IInv, [Next]_vars PROVE IInv'
  OBVIOUS
<1>1. ASSUME NEW t \in Clients, NEW id \in Ids, NEW what \in {"use", "wait"}, Lookup(t, id, what)
      PROVE  IInv'
  BY <1>1, LookupStep
<1>2. ASSUME NEW t \in Clients, NEW id \in Ids, Create(t, id) PROVE IInv'
  BY <1>2, CreateStep
<1>3. ASSUME NEW t \in Clients, NEW id \in Ids, DestroyIoctl(t, id) PROVE IInv'
  BY <1>3, DestroyIoctlStep
<1>4. ASSUME NEW t \in Clients, LeaveAsync(t) PROVE IInv'
  BY <1>4, LeaveAsyncStep
<1>5. ASSUME NEW t \in Clients, WaitGivenUp(t) PROVE IInv'
  BY <1>5, WaitSteps
<1>6. ASSUME NEW t \in Clients, ClientStep(t) PROVE IInv'
  BY <1>6, EndUseStep, WaitSteps, InsertStep, DestroySteps, ThreadFacts DEF ClientStep
<1>7. ASSUME NEW o \in Objs, AsyncPut(o) PROVE IInv'
  BY <1>7, AsyncPutStep
<1>8. ASSUME NEW o \in Objs, CpuRetire(o) \/ Interrupt(o) PROVE IInv'
  BY <1>8, CpuRetireStep, InterruptStep
<1>9. ASSUME NEW p \in Procs, Close(p) PROVE IInv'
  BY <1>9, CloseStep
<1>10. CASE RetireStep
  BY <1>10, RetireScanStep, SignalStep DEF RetireStep
<1>11. CASE ReleaseStep
  <2>1. ASSUME NEW p \in Procs, ReleaseNext(p) PROVE IInv'
    BY <2>1, ReleaseOne, ReleaseEnds
  <2> QED
    BY <1>11, <2>1, DestroySteps, ThreadFacts DEF ReleaseStep
<1>12. CASE UNCHANGED vars
  <2>1. UNCHANGED <<contexts, obj, backend, pc, at, cid, active_wait_list, work, file>>
    BY <1>12 DEF vars
  <2>2. /\ \A o \in Objs : Slots(o)' = Slots(o) /\ Holders(o)' = Holders(o)
        /\ \A t \in Threads : (Own(t)' <=> Own(t)) /\ (Claims(t)' <=> Claims(t))
    BY <2>1 DEF Slots, Holders, Own, Claims
  <2>3. TypeI' /\ ThreadI' /\ RefsI'
    BY <2>1, <2>2 DEF IInv, TypeI, ThreadI, RefsI, Counted
  <2>4. OwnI' /\ IdsI' /\ ReleaseI'
    BY <2>1, <2>2, ThreadFacts DEF IInv, OwnI, IdsI, ReleaseI
  <2> QED
    BY <2>3, <2>4 DEF IInv
<1> QED
  BY <1>1, <1>2, <1>3, <1>4, <1>5, <1>6, <1>7, <1>8, <1>9, <1>10, <1>11, <1>12 DEF Next

LEMMA IInvSafe == IInv => NoUseAfterFree
<1> SUFFICES ASSUME IInv PROVE NoUseAfterFree
  OBVIOUS
<1>1. \A o \in Objs : obj[o] \in ObjT /\ obj[o].kref \in Nat
  <2>1. ASSUME NEW o \in Objs PROVE obj[o].kref \in Nat
    <3>1. CASE obj[o].st = "live"
      BY <3>1, RefsAre DEF IInv
    <3>2. CASE obj[o].st # "live"
      BY <3>2 DEF IInv, RefsI, Counted
    <3> QED
      BY <3>1, <3>2
  <2> QED
    BY <2>1, RefersTo DEF IInv
<1>2. TypeOK
  BY <1>1 DEF IInv, TypeI, TypeOK, ObjT
<1>3. KrefExact
  <2> SUFFICES ASSUME NEW o \in Objs, obj[o].st = "live"
               PROVE  obj[o].kref =
                        Cardinality({i \in Ids : contexts[i] = o})
                        + Cardinality({t \in Threads : at[t] = o /\
                             (Holding(t) \/ pc[t] \in {"insert", "flag", "wake", "drop"})})
                        + (IF obj[o].async THEN 1 ELSE 0)
    BY DEF KrefExact
  <2>1. o # 0
    BY RefersTo DEF IInv
  <2>2. {t \in Threads : at[t] = o /\ (Holding(t) \/ pc[t] \in {"insert", "flag", "wake", "drop"})}
        = Holders(o)
    BY <2>1 DEF Holders, Holding, Destroying
  <2>3. {i \in Ids : contexts[i] = o} = Slots(o)
    BY DEF Slots
  <2> QED
    BY <2>2, <2>3, RefsAre DEF IInv, One
<1>4. \A t \in Threads : Destroying(t) => Own(t)
  BY DEF Destroying, Own, OwnerPc
<1>5. \A t, u \in Threads : Destroying(t) /\ Destroying(u) /\ at[t] = at[u] => t = u
  BY <1>4 DEF IInv, OwnI
<1>6. \A t \in active_wait_list : at[t] # 0
  BY ThreadFacts DEF IInv, TypeI, ThreadI, NoObjectPc
<1>7. \A o \in Objs : obj[o].async => obj[o].st = "live"
  BY DEF IInv, RefsI, Counted
<1> QED
  BY <1>2, <1>3, <1>5, <1>6, <1>7 DEF NoUseAfterFree, IInv, OwnI

LEMMA IInvClean == IInv => TableClean
<1> SUFFICES ASSUME IInv PROVE TableClean
  OBVIOUS
<1>1. \A t \in Clients : pc[t] = "insert" => contexts[cid[t]] = 0
  BY ThreadFacts DEF IInv, IdsI, Claims
<1>2. ASSUME NEW p \in Procs, file[p] = "released", NEW o \in Objs, obj[o].priv = p
      PROVE  obj[o].st = "freed"
  <2>1. obj[o].st # "live"
    BY <1>2 DEF IInv, ReleaseI
  <2>2. obj[o].st # "none"
    BY <1>2, ThreadFacts DEF IInv, ReleaseI
  <2> QED
    BY <2>1, <2>2, RefersTo DEF IInv, ObjT
<1> QED
  BY <1>1, <1>2 DEF TableClean

\* For every number of threads, processes, ids and contexts: the references to a
\* context are counted exactly, nothing refers to one that hgsl_ctxt_destroy has
\* freed, and no two threads destroy the same one.
THEOREM ContextSafe == Spec => []NoUseAfterFree
<1>1. Spec => []IInv
  BY InitIInv, NextIInv, PTL DEF Spec
<1> QED
  BY <1>1, IInvSafe, PTL

\* For every number of threads, processes, ids and contexts: hgsl_ioctl_ctxt_create
\* finds the slot of a new id empty, and when _hgsl_release is done with a process
\* every context of it has been freed.
THEOREM ContextTableClean == Spec => []TableClean
<1>1. Spec => []IInv
  BY InitIInv, NextIInv, PTL DEF Spec
<1> QED
  BY <1>1, IInvClean, PTL

=============================================================================
