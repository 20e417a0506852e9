---------------------------- MODULE FrDataProofs ----------------------------
(***************************************************************************)
(* Proofs about the pools of frlib.                                        *)
(*                                                                         *)
(* The event pool: an event has one user, for any number of threads and    *)
(* any length of the pool, also when several threads make the pool.        *)
(* OneUser alone is not kept by evpool_acquire, which looks at the flag    *)
(* used only: UserInv says that the flag of an event is set as long as     *)
(* somebody has it, until evpool_release is done with it.                  *)
(*                                                                         *)
(* The number pools: Canonical, which speaks of two ranges in a row, says  *)
(* too little of a list from whose middle ranges are taken; Ascends says   *)
(* it of any two.  Every function of ipool.c rewrites a list as one new    *)
(* range, or none, in the place of some in a row: the lemmas on Spliced    *)
(* carry the rest.  The loop of ipool_subtract_pool is followed by way of  *)
(* the smallest number of rounds after which it would be wrong.            *)
(***************************************************************************)
EXTENDS FrEvpool, FrIpool, SequenceTheorems, WellFoundedInduction,
        NaturalsInduction, TLAPS

Places == {"idle", "initlock", "make", "made", "lock", "search", "malloc",
           "clear", "unused"}

PoolEvents == (Nat \ {0}) \X Nat
MallocEvents == {0} \X (Nat \ {0})

EvTypeOK ==
    /\ evpool \in Nat /\ pools \in Nat
    /\ used \subseteq PoolEvents
    /\ heap \subseteq MallocEvents
    /\ pc \in [Thread -> Places]
    /\ mine \in [Thread -> SUBSET (PoolEvents \cup MallocEvents)]
    /\ ev \in [Thread -> PoolEvents \cup {None}]

\* Who has an event keeps it from the others.
Kept ==
    \A t \in Thread :
        /\ mine[t] \subseteq used \cup heap
        /\ ev[t] # None => ev[t] \in used
        /\ ev[t] \notin mine[t]
        /\ pc[t] \notin {"clear", "unused"} => ev[t] = None

UserInv == EvTypeOK /\ Kept /\ OneUser

\* The three sorts of events are apart.
LEMMA Apart ==
    /\ PoolEvents \cap MallocEvents = {}
    /\ None \notin PoolEvents /\ None \notin MallocEvents
  BY DEF PoolEvents, MallocEvents, None

\* At the start nobody has an event.
LEMMA UserInit == Init => UserInv
<1> SUFFICES ASSUME Init PROVE UserInv
  OBVIOUS
<1>1. evpool \in Nat /\ pools \in Nat
  BY DEF Init
<1>2. /\ used \subseteq PoolEvents /\ heap \subseteq MallocEvents
      /\ pc \in [Thread -> Places]
  BY DEF Init, Places
<1>5. /\ mine \in [Thread -> SUBSET (PoolEvents \cup MallocEvents)]
      /\ ev \in [Thread -> PoolEvents \cup {None}]
  BY DEF Init
<1>3. Kept
  BY DEF Init, Kept
<1>4. OneUser
  BY DEF Init, OneUser
<1> QED
  BY <1>1, <1>2, <1>3, <1>4, <1>5 DEF UserInv, EvTypeOK

\* evpool_acquire gives out an event nobody has: a free one has its flag
\* clear.
LEMMA SearchStep ==
    ASSUME UserInv, NEW t \in Thread, Search(t)
    PROVE  UserInv'
<1> USE DEF UserInv, Places
<1>1. CASE UNCHANGED <<used, mine>> /\ (Go(t, "malloc") \/ Go(t, "idle"))
  BY <1>1 DEF Search, Go, EvTypeOK, Kept, OneUser
<1>2. ASSUME NEW e \in Free, Go(t, "idle"), used' = used \cup {e},
             mine' = [mine EXCEPT ![t] = @ \cup {e}]
      PROVE  UserInv'
  <2>1. e \in PoolEvents /\ e \notin used
    BY EvpoolAssumption DEF Free, Slot, PoolEvents, EvTypeOK, Search
  <2>2. \A u \in Thread : e \notin mine[u] /\ e # ev[u]
    BY <2>1, Apart DEF EvTypeOK, Kept
  <2>3. EvTypeOK'
    BY <1>2, <2>1 DEF EvTypeOK, Search, Go
  <2>4. Kept'
    BY <1>2, <2>2 DEF EvTypeOK, Kept, Search, Go
  <2>5. OneUser'
    BY <1>2, <2>2 DEF EvTypeOK, OneUser, Search, Go
  <2> QED
    BY <2>3, <2>4, <2>5
<1> QED
  BY <1>1, <1>2 DEF Search

\* What malloc returns nobody has.
LEMMA MallocStep ==
    ASSUME UserInv, NEW t \in Thread, Malloc(t)
    PROVE  UserInv'
<1> USE DEF UserInv, Places
<1>1. CASE UNCHANGED <<heap, mine>>
  BY <1>1 DEF Malloc, Go, EvTypeOK, Kept, OneUser
<1>2. ASSUME NEW i \in 1 .. MaxMalloc, <<0, i>> \notin heap,
             heap' = heap \cup {<<0, i>>},
             mine' = [mine EXCEPT ![t] = @ \cup {<<0, i>>}]
      PROVE  UserInv'
  <2> DEFINE e == <<0, i>>
  <2>1. e \in MallocEvents
    BY EvpoolAssumption DEF MallocEvents
  <2>2. \A u \in Thread : e \notin mine[u] /\ e # ev[u]
    BY <1>2, <2>1, Apart DEF EvTypeOK, Kept
  <2> HIDE DEF e
  <2>3. EvTypeOK'
    BY <1>2, <2>1 DEF EvTypeOK, Malloc, Go, e
  <2>4. heap' = heap \cup {e} /\ mine' = [mine EXCEPT ![t] = @ \cup {e}]
    BY <1>2 DEF e
  <2>5. Kept'
    BY <2>2, <2>4 DEF EvTypeOK, Kept, Malloc, Go
  <2>6. OneUser'
    BY <2>2, <2>4 DEF EvTypeOK, OneUser, Malloc, Go
  <2> QED
    BY <2>3, <2>5, <2>6
<1> QED
  BY <1>1, <1>2 DEF Malloc

\* An event that is handed on or released leaves its owner; its flag stays
\* set until evpool_release has cleared it.
LEMMA HandStep ==
    ASSUME UserInv, NEW t \in Thread,
           \/ \E e \in mine[t] : Release(t, e)
           \/ \E e \in mine[t], u \in Thread : Pass(t, u, e)
           \/ Clear(t)
    PROVE  UserInv'
<1> USE DEF UserInv, Places
<1>1. ASSUME NEW e \in mine[t], Release(t, e), InPool(e) PROVE UserInv'
  <2>1. e \in PoolEvents /\ e \in used
    BY <1>1 DEF Release, InPool, EvTypeOK, Kept, MallocEvents, PoolEvents
  <2>2. EvTypeOK'
    BY <1>1, <2>1 DEF EvTypeOK, Release, Go
  <2>3. Kept'
    BY <1>1, <2>1 DEF EvTypeOK, Kept, Release, Go
  <2>4. OneUser'
    BY <1>1, <2>1 DEF EvTypeOK, Kept, OneUser, Release, Go
  <2> QED
    BY <2>2, <2>3, <2>4
<1>2. ASSUME NEW e \in mine[t], Release(t, e), ~InPool(e) PROVE UserInv'
  <2>1. EvTypeOK'
    <3>1. /\ mine' = [mine EXCEPT ![t] = @ \ {e}] /\ heap' = heap \ {e}
          /\ UNCHANGED <<evpool, pools, used, ev, pc>>
      BY <1>2 DEF Release
    <3>2. mine[t] \in SUBSET (PoolEvents \cup MallocEvents)
      BY DEF EvTypeOK
    <3> QED
      BY <3>1, <3>2 DEF EvTypeOK
  <2>2. Kept'
    <3>1. /\ mine' = [mine EXCEPT ![t] = @ \ {e}] /\ heap' = heap \ {e}
          /\ UNCHANGED <<used, ev, pc>>
      BY <1>2 DEF Release
    <3>2. \A u \in Thread : mine'[u] \subseteq mine[u] /\ e \notin mine'[u]
      BY <3>1 DEF EvTypeOK, OneUser
    <3> QED
      BY <3>1, <3>2 DEF Kept
  <2>3. OneUser'
    BY <1>2 DEF EvTypeOK, OneUser, Release
  <2> QED
    BY <2>1, <2>2, <2>3
<1>3. ASSUME NEW e \in mine[t], NEW u \in Thread, Pass(t, u, e) PROVE UserInv'
  <2>1. EvTypeOK'
    BY <1>3 DEF EvTypeOK, Pass
  <2>2. Kept'
    BY <1>3 DEF EvTypeOK, Kept, OneUser, Pass
  <2>3. OneUser'
    BY <1>3 DEF EvTypeOK, Kept, OneUser, Pass
  <2> QED
    BY <2>1, <2>2, <2>3
<1>4. CASE Clear(t)
  <2>1. EvTypeOK'
    BY <1>4 DEF EvTypeOK, Clear, Go
  <2>2. Kept'
    BY <1>4, Apart DEF EvTypeOK, Kept, OneUser, Clear, Go
  <2>3. OneUser'
    BY <1>4, Apart DEF EvTypeOK, Kept, OneUser, Clear, Go
  <2> QED
    BY <2>1, <2>2, <2>3
<1> QED
  BY <1>1, <1>2, <1>3, <1>4

\* The other steps leave the events alone.
LEMMA OtherStep ==
    ASSUME UserInv, NEW t \in Thread,
           \/ Acquire(t) \/ InitLock(t) \/ Make(t) \/ Made(t)
           \/ Lock(t) \/ SearchNull(t)
    PROVE  UserInv'
<1>1. /\ evpool' \in Nat /\ pools' \in Nat
      /\ pc' \in [Thread -> Places]
      /\ \A u \in Thread : pc'[u] \notin {"clear", "unused"} =>
            pc[u] \notin {"clear", "unused"}
      /\ UNCHANGED <<used, heap, mine, ev>>
  BY DEF Acquire, InitLock, Make, Made, Lock, SearchNull, Go, UserInv, EvTypeOK, Places
<1> QED
  BY <1>1 DEF UserInv, EvTypeOK, Kept, OneUser

LEMMA UserStep == UserInv /\ [Next]_vars => UserInv'
<1>1. ASSUME UserInv, UNCHANGED vars PROVE UserInv'
  BY <1>1 DEF vars, UserInv, EvTypeOK, Kept, OneUser
<1>2. ASSUME UserInv, Next PROVE UserInv'
  BY <1>2, SearchStep, MallocStep, HandStep, OtherStep DEF Next
<1> QED
  BY <1>1, <1>2

\* For every number of threads and every length of the pool, with the pool
\* made once or by several threads: evpool_acquire gives an event to one
\* user, and to none as long as evpool_release is clearing it.
THEOREM ExclusiveUse == Spec => []OneUser
<1>1. UserInv => OneUser
  BY DEF UserInv
<1> QED
  BY <1>1, UserInit, UserStep, PTL DEF Spec

-----------------------------------------------------------------------------
(* No event is lost, and free gets what came from malloc.                  *)

\* The events that were given out are of pools that were made, and while the
\* first pool is in use there is no other.
PoolInv ==
    /\ evpool <= pools /\ (evpool = 1 => pools = 1)
    /\ \A e \in used : e[1] <= pools
    /\ EvpoolSound

Held == (UNION {mine[t] : t \in Thread}) \cup {ev[t] : t \in Thread}

LEMMA HeldBy ==
    /\ \A x : x \in Held <=> \E u \in Thread : x \in mine[u] \/ x = ev[u]
    /\ \A x : x \in Held' <=> \E u \in Thread : x \in mine'[u] \/ x = ev'[u]
  BY DEF Held

\* evpool_acquire: what becomes used becomes somebody's.
LEMMA SearchPool ==
    ASSUME UserInv, PoolInv, ~corrupt, NEW t \in Thread, Search(t)
    PROVE  PoolInv'
<1>1. CASE UNCHANGED <<used, mine>>
  BY <1>1 DEF Search, PoolInv, EvpoolSound, NoneLost, FreeRight
<1>2. ASSUME NEW e \in Free, used' = used \cup {e},
             mine' = [mine EXCEPT ![t] = @ \cup {e}]
      PROVE  PoolInv'
  <2>1. e[1] = evpool /\ UNCHANGED <<evpool, pools, heap, ev, corrupt>>
    BY DEF Free, Slot, Search
  <2>2. e \in mine'[t] /\ \A u \in Thread : mine[u] \subseteq mine'[u]
    BY <1>2 DEF UserInv, EvTypeOK
  <2>3. used' \cup heap' \subseteq Held'
    BY <1>2, <2>1, <2>2 DEF PoolInv, EvpoolSound, NoneLost, Held
  <2> QED
    BY <1>2, <2>1, <2>3 DEF PoolInv, EvpoolSound, NoneLost, FreeRight, Held
<1> QED
  BY <1>1, <1>2 DEF Search

LEMMA MallocPool ==
    ASSUME UserInv, PoolInv, ~corrupt, NEW t \in Thread, Malloc(t)
    PROVE  PoolInv'
<1>1. CASE UNCHANGED <<heap, mine>>
  BY <1>1 DEF Malloc, PoolInv, EvpoolSound, NoneLost, FreeRight
<1>2. ASSUME NEW e, heap' = heap \cup {e}, mine' = [mine EXCEPT ![t] = @ \cup {e}]
      PROVE  PoolInv'
  <2>1. UNCHANGED <<evpool, pools, used, ev, corrupt>>
    BY DEF Malloc
  <2>2. e \in mine'[t] /\ \A u \in Thread : mine[u] \subseteq mine'[u]
    BY <1>2 DEF UserInv, EvTypeOK
  <2>3. used' \cup heap' \subseteq Held'
    BY <1>2, <2>1, <2>2 DEF PoolInv, EvpoolSound, NoneLost, Held
  <2> QED
    BY <2>1, <2>3 DEF PoolInv, EvpoolSound, NoneLost, FreeRight, Held
<1> QED
  BY <1>1, <1>2 DEF Malloc

\* An event that is handed on stays somebody's; one that is released is being
\* cleared, or it was freed.
LEMMA HandPool ==
    ASSUME UserInv, PoolInv, ~corrupt, NEW t \in Thread,
           \/ \E e \in mine[t] : Release(t, e)
           \/ \E e \in mine[t], u \in Thread : Pass(t, u, e)
           \/ Clear(t)
    PROVE  PoolInv'
<1> USE DEF PoolInv, EvpoolSound, FreeRight
<1>1. ASSUME NEW e \in mine[t], Release(t, e), InPool(e) PROVE PoolInv'
  <2>1. /\ mine' = [mine EXCEPT ![t] = @ \ {e}] /\ ev' = [ev EXCEPT ![t] = e]
        /\ UNCHANGED <<evpool, pools, used, heap, corrupt>> /\ ev[t] = None
    BY <1>1 DEF Release, UserInv, Kept
  <2>2. None \notin used \cup heap
    BY Apart DEF UserInv, EvTypeOK
  <2>3. ASSUME NEW x \in used \cup heap PROVE x \in Held'
    <3>1. PICK u \in Thread : x \in mine[u] \/ x = ev[u]
      <4>1. x \in Held
        BY <2>3 DEF NoneLost, Held
      <4> QED
        BY <4>1, HeldBy
    <3>2. x \in mine[u] => x \in mine'[u] \/ x = ev'[t]
      BY <2>1 DEF UserInv, EvTypeOK
    <3>3. x = ev[u] => x = ev'[u]
      BY <2>1, <2>2, <2>3 DEF UserInv, EvTypeOK
    <3> QED
      BY <3>1, <3>2, <3>3, HeldBy
  <2> QED
    BY <2>1, <2>3 DEF NoneLost, Held
<1>2. ASSUME NEW e \in mine[t], Release(t, e), ~InPool(e) PROVE PoolInv'
  <2>1. /\ mine' = [mine EXCEPT ![t] = @ \ {e}] /\ heap' = heap \ {e}
        /\ corrupt' = (corrupt \/ e \notin heap)
        /\ UNCHANGED <<evpool, pools, used, ev>>
    BY <1>2 DEF Release
  <2>2. evpool = 1 => e \in heap
    <3>1. e \in used \cup heap
      BY DEF UserInv, Kept
    <3>2. e \in used => e[1] \in Nat \ {0} /\ e[1] <= pools
      BY DEF UserInv, EvTypeOK, PoolEvents
    <3> QED
      BY <1>2, <3>1, <3>2 DEF InPool
  <2>3. e \in heap => used \cup heap' \subseteq Held'
    <3>1. e \in heap => e \notin used
      BY Apart DEF UserInv, EvTypeOK
    <3> QED
      BY <2>1, <3>1 DEF NoneLost, Held, UserInv, EvTypeOK
  <2> QED
    BY <2>1, <2>2, <2>3 DEF NoneLost, Held
<1>3. ASSUME NEW e \in mine[t], NEW u \in Thread, Pass(t, u, e) PROVE PoolInv'
  <2>1. /\ mine' = [mine EXCEPT ![t] = @ \ {e}, ![u] = @ \cup {e}] /\ t # u
        /\ UNCHANGED <<evpool, pools, used, heap, ev, corrupt>>
    BY <1>3 DEF Pass
  <2>2. used \cup heap \subseteq Held'
    BY <2>1 DEF NoneLost, Held, UserInv, EvTypeOK
  <2> QED
    BY <2>1, <2>2 DEF NoneLost, Held
<1>4. CASE Clear(t)
  <2>1. CASE UNCHANGED <<used, ev>>
    BY <1>4, <2>1 DEF Clear, NoneLost
  <2>2. CASE used' = used \ {ev[t]} /\ ev' = [ev EXCEPT ![t] = None]
    <3>1. UNCHANGED <<evpool, pools, heap, mine, corrupt>>
      BY <1>4 DEF Clear
    <3>2. ev[t] \notin heap
      BY Apart DEF UserInv, EvTypeOK
    <3>3. ASSUME NEW x \in used' \cup heap PROVE x \in Held'
      <4>1. PICK u \in Thread : x \in mine[u] \/ x = ev[u]
        <5>1. x \in Held
          BY <2>2, <3>3 DEF NoneLost, Held
        <5> QED
          BY <5>1, HeldBy
      <4>2. x = ev[u] => x = ev'[u]
        BY <2>2, <3>2, <3>3 DEF UserInv, EvTypeOK
      <4> QED
        BY <3>1, <4>1, <4>2, HeldBy
    <3> QED
      BY <2>2, <3>1, <3>3 DEF NoneLost, Held
  <2> QED
    BY <1>4, <2>1, <2>2 DEF Clear
<1> QED
  BY <1>1, <1>2, <1>3, <1>4

\* A pool that is made, or could not be made, is never the first one again.
LEMMA OtherPool ==
    ASSUME UserInv, PoolInv, ~corrupt, NEW t \in Thread,
           \/ Acquire(t) \/ InitLock(t) \/ Make(t) \/ Made(t)
           \/ Lock(t) \/ SearchNull(t)
    PROVE  PoolInv'
<1>1. UNCHANGED <<used, heap, mine, ev>>
  BY DEF Acquire, InitLock, Make, Made, Lock, SearchNull
<1>2. /\ evpool' \in Nat /\ pools' \in Nat /\ evpool' <= pools' /\ pools <= pools'
      /\ evpool' = 1 => pools' = 1 /\ ~corrupt'
  BY DEF Acquire, InitLock, Make, Made, Lock, SearchNull, PoolInv, UserInv, EvTypeOK
<1>3. \A e \in used : e[1] \in Nat /\ pools \in Nat
  BY DEF UserInv, EvTypeOK, PoolEvents
<1> QED
  BY <1>1, <1>2, <1>3 DEF PoolInv, EvpoolSound, NoneLost, FreeRight

LEMMA PoolStep == UserInv /\ PoolInv /\ [Next]_vars => PoolInv'
<1>1. ASSUME PoolInv, UNCHANGED vars PROVE PoolInv'
  BY <1>1 DEF vars, PoolInv, EvpoolSound, NoneLost, FreeRight
<1>2. ASSUME UserInv, PoolInv, Next PROVE PoolInv'
  BY <1>2, SearchPool, MallocPool, HandPool, OtherPool DEF Next
<1> QED
  BY <1>1, <1>2

\* evpool_acquire and evpool_release lose no event; and until a second pool is
\* made or attempted, nothing is freed that did not come from malloc.
THEOREM PoolKept == Spec => []EvpoolSound
<1>1. UserInv /\ [Next]_vars => UserInv'
  BY UserStep
<1>2. Init => PoolInv
  BY DEF Init, PoolInv, EvpoolSound, NoneLost, FreeRight
<1>3. PoolInv => EvpoolSound
  BY DEF PoolInv
<1> QED
  BY <1>1, <1>2, <1>3, UserInit, PoolStep, PTL DEF Spec

\* If evpool_init is called before there are threads, as its users should,
\* no thread ever makes a pool again.
MadeInTime ==
    /\ evpoolinit /\ evpool = 1
    /\ \A t \in Thread : pc[t] \notin {"initlock", "make", "made"}

\* A pool that was made before there are threads never frees what did not come
\* from malloc, and is there when evpool_acquire searches it.
THEOREM FreedRight ==
    ASSUME InitFirst
    PROVE  Spec => []FreeRight
<1>1. Init => MadeInTime
  BY DEF Init, MadeInTime
<1>2. ASSUME UserInv, MadeInTime, [Next]_vars PROVE MadeInTime'
  <2>1. CASE UNCHANGED vars
    BY <1>2, <2>1 DEF vars, MadeInTime
  <2>2. CASE Next
    <3> USE <1>2 DEF MadeInTime, UserInv, EvTypeOK, Go
    <3>1. ASSUME NEW t \in Thread,
                 \/ Acquire(t) \/ InitLock(t) \/ Make(t) \/ Made(t) \/ Lock(t)
                 \/ Search(t) \/ SearchNull(t) \/ Malloc(t) \/ Clear(t)
          PROVE  MadeInTime'
      BY <3>1 DEF Acquire, InitLock, Make, Made, Lock, Search, SearchNull, Malloc, Clear
    <3>2. ASSUME NEW t \in Thread, NEW e \in mine[t],
                 Release(t, e) \/ \E u \in Thread : Pass(t, u, e)
          PROVE  MadeInTime'
      BY <3>2 DEF Release, Pass
    <3> QED
      BY <2>2, <3>1, <3>2 DEF Next
  <2> QED
    BY <1>2, <2>1, <2>2
<1>3. MadeInTime /\ EvpoolSound => FreeRight
  BY DEF MadeInTime, EvpoolSound
<1> QED
  BY <1>1, <1>2, <1>3, UserInit, UserStep, PoolKept, PTL DEF Spec

-----------------------------------------------------------------------------
(* The number pools.  A list of ranges ascends if each ends before the next *)
(* begins, with a number between them.                                     *)

Ranges == [b : Number, e : Number]

Ascends(l) ==
    /\ l \in Seq(Ranges)
    /\ \A i \in 1 .. Len(l) : l[i].b <= l[i].e
    /\ \A i, j \in 1 .. Len(l) : i < j => l[i].e + 1 < l[j].b

\* A set of numbers that is not empty has a smallest one.
LEMMA SmallestOf ==
    ASSUME NEW I, I \subseteq Nat, I # {}
    PROVE  \E x \in I : \A y \in I : x <= y
<1> DEFINE R == OpToRel(<, Nat)
<1>1. PICK x \in I : \A y \in I : <<y, x>> \notin R
  <2>1. IsWellFoundedOn(R, Nat)
    BY NatLessThanWellFounded
  <2> HIDE DEF R
  <2> QED
    BY <2>1, WFMin
<1>2. \A y \in I : ~(y < x)
  BY <1>1 DEF OpToRel
<1> QED
  BY <1>2

\* The loops over a list end at the first range they look for, or behind all.
LEMMA FirstIs ==
    ASSUME NEW l \in Seq(Ranges), NEW S, S \subseteq 1 .. Len(l)
    PROVE  /\ First(l, S) \in 1 .. Len(l) + 1
           /\ First(l, S) <= Len(l) => First(l, S) \in S
           /\ \A j \in S : First(l, S) <= j
<1> DEFINE I == S \cup {Len(l) + 1}
<1>1. Len(l) \in Nat
  BY LenProperties
<1>2. I \subseteq Nat /\ I # {} /\ I \subseteq 1 .. Len(l) + 1
  <2>1. Len(l) + 1 \in 1 .. Len(l) + 1
    BY <1>1
  <2>2. 1 .. Len(l) \subseteq 1 .. Len(l) + 1 /\ 1 .. Len(l) + 1 \subseteq Nat
    BY <1>1
  <2> QED
    BY <2>1, <2>2
<1>3. \E x \in I : \A y \in I : x <= y
  BY <1>2, SmallestOf
<1>4. Min(I) \in I /\ \A y \in I : Min(I) <= y
  BY <1>3 DEF Min
<1>5. First(l, S) = Min(I)
  BY DEF First
<1> HIDE DEF I
<1>6. First(l, S) \in I /\ \A y \in I : First(l, S) <= y
  BY <1>4, <1>5
<1> QED
  BY <1>1, <1>2, <1>6 DEF I

LEMMA InNumbers ==
    ASSUME NEW l, NEW x
    PROVE  x \in Numbers(l) <=> \E i \in 1 .. Len(l) : x \in l[i].b .. l[i].e
  BY DEF Numbers

\* What a memmove leaves: the ranges below k, the new one, those above n.
LEMMA SpliceIs ==
    ASSUME NEW l \in Seq(Ranges), NEW k \in 1 .. Len(l) + 1, NEW n \in k - 1 .. Len(l),
           NEW r \in Ranges
    PROVE  LET t == Spliced(l, k, n, <<r>>)
           IN  /\ t \in Seq(Ranges) /\ Len(t) = k + Len(l) - n
               /\ \A i \in 1 .. k - 1 : t[i] = l[i]
               /\ t[k] = r
               /\ \A i \in k + 1 .. Len(t) : t[i] = l[i - k + n]
<1> DEFINE p == SubSeq(l, 1, k - 1)
           s == SubSeq(l, n + 1, Len(l))
           pr == p \o <<r>>
           t == pr \o s
<1>1. Len(l) \in Nat
  BY LenProperties
<1>2. /\ p \in Seq(Ranges) /\ Len(p) = k - 1
      /\ \A i \in 1 .. k - 1 : p[i] = l[i]
  <2>1. \A i \in 1 .. k - 1 : l[i] \in Ranges
    BY <1>1, ElementOfSeq
  <2> QED
    BY <1>1, <2>1, SubSeqProperties
<1>3. /\ s \in Seq(Ranges) /\ Len(s) = Len(l) - n
      /\ \A i \in 1 .. Len(l) - n : s[i] = l[n + i]
  <2>1. \A i \in n + 1 .. Len(l) : l[i] \in Ranges
    BY <1>1, ElementOfSeq
  <2> QED
    BY <1>1, <2>1, SubSeqProperties
<1>4. <<r>> \in Seq(Ranges) /\ Len(<<r>>) = 1 /\ <<r>>[1] = r
  OBVIOUS
<1> HIDE DEF p, s
<1>5. /\ pr \in Seq(Ranges) /\ Len(pr) = k
      /\ \A i \in 1 .. k - 1 : pr[i] = l[i]
      /\ pr[k] = r
  <2>1. /\ pr \in Seq(Ranges) /\ Len(pr) = Len(p) + 1
        /\ \A i \in 1 .. Len(p) + 1 :
              pr[i] = IF i <= Len(p) THEN p[i] ELSE <<r>>[i - Len(p)]
    BY <1>2, <1>4, ConcatProperties
  <2> HIDE DEF pr
  <2>2. pr[k] = <<r>>[k - (k - 1)] /\ k - (k - 1) = 1
    BY <1>1, <1>2, <2>1
  <2> QED
    BY <1>1, <1>2, <1>4, <2>1, <2>2
<1> HIDE DEF pr
<1>6. /\ t \in Seq(Ranges) /\ Len(t) = k + (Len(l) - n)
      /\ \A i \in 1 .. k : t[i] = pr[i]
      /\ \A i \in k + 1 .. Len(t) : t[i] = s[i - k]
  <2>1. /\ t \in Seq(Ranges) /\ Len(t) = Len(pr) + Len(s)
        /\ \A i \in 1 .. Len(pr) + Len(s) :
              t[i] = IF i <= Len(pr) THEN pr[i] ELSE s[i - Len(pr)]
    BY <1>3, <1>5, ConcatProperties
  <2> HIDE DEF t
  <2>2. Len(t) = k + (Len(l) - n) /\ k <= Len(t) /\ k \in Nat /\ Len(t) \in Nat
    BY <1>1, <1>3, <1>5, <2>1
  <2>3. ASSUME NEW i \in 1 .. k PROVE t[i] = pr[i]
    <3>1. i \in 1 .. Len(pr) + Len(s) /\ i <= Len(pr)
      BY <1>5, <2>1, <2>2
    <3> QED
      BY <2>1, <3>1
  <2>4. \A i \in k + 1 .. Len(t) : t[i] = s[i - k]
    BY <1>3, <1>5, <2>1, <2>2
  <2> QED
    BY <2>1, <2>2, <2>3, <2>4
<1> HIDE DEF t
<1>7. \A i \in 1 .. k - 1 : t[i] = l[i]
  BY <1>1, <1>5, <1>6
<1>8. t[k] = r
  BY <1>5, <1>6
<1>9. \A i \in k + 1 .. Len(t) : t[i] = l[i - k + n]
  <2>1. SUFFICES ASSUME NEW i \in k + 1 .. Len(t)
                 PROVE  t[i] = l[i - k + n]
    OBVIOUS
  <2>2. i - k \in 1 .. Len(l) - n /\ n + (i - k) = i - k + n
    BY <1>1, <1>6
  <2> QED
    BY <1>3, <1>6, <2>2
<1>10. Spliced(l, k, n, <<r>>) = t
  BY DEF Spliced, t, pr, p, s
<1>11. Len(t) = k + Len(l) - n
  BY <1>1, <1>6
<1> QED
  BY <1>6, <1>7, <1>8, <1>9, <1>10, <1>11

LEMMA DropIs ==
    ASSUME NEW l \in Seq(Ranges), NEW k \in 1 .. Len(l) + 1, NEW n \in k - 1 .. Len(l)
    PROVE  LET t == Spliced(l, k, n, <<>>)
           IN  /\ t \in Seq(Ranges) /\ Len(t) = k - 1 + Len(l) - n
               /\ \A i \in 1 .. k - 1 : t[i] = l[i]
               /\ \A i \in k .. Len(t) : t[i] = l[i - k + 1 + n]
<1> DEFINE p == SubSeq(l, 1, k - 1)
           s == SubSeq(l, n + 1, Len(l))
           pr == p \o <<>>
           t == pr \o s
<1>1. Len(l) \in Nat
  BY LenProperties
<1>2. /\ p \in Seq(Ranges) /\ Len(p) = k - 1
      /\ \A i \in 1 .. k - 1 : p[i] = l[i]
  <2>1. \A i \in 1 .. k - 1 : l[i] \in Ranges
    BY <1>1, ElementOfSeq
  <2> QED
    BY <1>1, <2>1, SubSeqProperties
<1>3. /\ s \in Seq(Ranges) /\ Len(s) = Len(l) - n
      /\ \A i \in 1 .. Len(l) - n : s[i] = l[n + i]
  <2>1. \A i \in n + 1 .. Len(l) : l[i] \in Ranges
    BY <1>1, ElementOfSeq
  <2> QED
    BY <1>1, <2>1, SubSeqProperties
<1> HIDE DEF p, s
<1>4. pr = p
  BY <1>2, ConcatEmptySeq
<1> HIDE DEF pr
<1>5. /\ t \in Seq(Ranges) /\ Len(t) = k - 1 + (Len(l) - n)
      /\ \A i \in 1 .. k - 1 : t[i] = p[i]
      /\ \A i \in k .. Len(t) : t[i] = s[i - (k - 1)]
  <2>1. /\ t \in Seq(Ranges) /\ Len(t) = Len(p) + Len(s)
        /\ \A i \in 1 .. Len(p) + Len(s) :
              t[i] = IF i <= Len(p) THEN p[i] ELSE s[i - Len(p)]
    BY <1>2, <1>3, <1>4, ConcatProperties
  <2> HIDE DEF t
  <2>2. /\ Len(t) = k - 1 + (Len(l) - n) /\ k - 1 <= Len(t)
        /\ k - 1 \in Nat /\ Len(t) \in Nat
    BY <1>1, <1>2, <1>3, <2>1
  <2>3. ASSUME NEW i \in 1 .. k - 1 PROVE t[i] = p[i]
    <3>1. i \in 1 .. Len(p) + Len(s) /\ i <= Len(p)
      BY <1>2, <2>1, <2>2
    <3> QED
      BY <2>1, <3>1
  <2>4. \A i \in k .. Len(t) : t[i] = s[i - (k - 1)]
    BY <1>2, <2>1, <2>2
  <2> QED
    BY <2>1, <2>2, <2>3, <2>4
<1> HIDE DEF t
<1>6. \A i \in 1 .. k - 1 : t[i] = l[i]
  BY <1>2, <1>5
<1>7. \A i \in k .. Len(t) : t[i] = l[i - k + 1 + n]
  <2>1. SUFFICES ASSUME NEW i \in k .. Len(t)
                 PROVE  t[i] = l[i - k + 1 + n]
    OBVIOUS
  <2>2. i - (k - 1) \in 1 .. Len(l) - n /\ n + (i - (k - 1)) = i - k + 1 + n
    BY <1>1, <1>5
  <2> QED
    BY <1>3, <1>5, <2>2
<1>8. Spliced(l, k, n, <<>>) = t
  BY DEF Spliced, t, pr, p, s
<1>9. Len(t) = k - 1 + Len(l) - n
  BY <1>1, <1>5
<1> QED
  BY <1>5, <1>6, <1>7, <1>8, <1>9

\* A new range between those below k and those above n.
LEMMA SpliceAscends ==
    ASSUME NEW l, Ascends(l), NEW k \in 1 .. Len(l) + 1, NEW n \in k - 1 .. Len(l),
           NEW r \in Ranges, r.b <= r.e,
           \A i \in 1 .. k - 1 : l[i].e + 1 < r.b,
           \A j \in n + 1 .. Len(l) : r.e + 1 < l[j].b
    PROVE  LET t == Spliced(l, k, n, <<r>>)
           IN  /\ Ascends(t)
               /\ \A x : x \in Numbers(t) <=>
                     \/ x \in r.b .. r.e
                     \/ \E i \in 1 .. Len(l) : (i < k \/ i > n) /\ x \in l[i].b .. l[i].e
<1> DEFINE t == Spliced(l, k, n, <<r>>)
<1>1. /\ l \in Seq(Ranges) /\ Len(l) \in Nat
      /\ \A i \in 1 .. Len(l) : l[i] \in Ranges /\ l[i].b <= l[i].e
      /\ \A i, j \in 1 .. Len(l) : i < j => l[i].e + 1 < l[j].b
  BY LenProperties, ElementOfSeq DEF Ascends
<1>2. /\ t \in Seq(Ranges) /\ Len(t) = k + Len(l) - n
      /\ \A i \in 1 .. k - 1 : t[i] = l[i]
      /\ t[k] = r
      /\ \A i \in k + 1 .. Len(t) : t[i] = l[i - k + n]
  BY <1>1, SpliceIs
<1> HIDE DEF t
<1>3. Len(t) \in Nat /\ k \in 1 .. Len(t) /\ k - 1 <= Len(l)
  BY <1>1, <1>2
<1>4. \A i \in 1 .. Len(t) :
        \/ i < k /\ i \in 1 .. Len(l) /\ t[i] = l[i]
        \/ i = k /\ t[i] = r
        \/ i > k /\ i - k + n \in n + 1 .. Len(l) /\ t[i] = l[i - k + n]
  BY <1>1, <1>2, <1>3
<1>5. ASSUME NEW i \in 1 .. Len(t) PROVE t[i].b <= t[i].e
  <2>1. CASE i < k
    BY <1>1, <1>4, <2>1
  <2>2. CASE i = k
    BY <1>2, <2>2
  <2>3. CASE i > k
    <3>1. i - k + n \in 1 .. Len(l) /\ t[i] = l[i - k + n]
      BY <1>1, <1>4, <2>3
    <3> QED
      BY <1>1, <3>1
  <2> QED
    BY <2>1, <2>2, <2>3
<1>6. ASSUME NEW i \in 1 .. Len(t), NEW j \in 1 .. Len(t), i < j
      PROVE  t[i].e + 1 < t[j].b
  <2>1. CASE i < k /\ j < k
    <3>1. i \in 1 .. Len(l) /\ t[i] = l[i] /\ j \in 1 .. Len(l) /\ t[j] = l[j]
      BY <1>4, <2>1
    <3> QED
      BY <1>1, <1>6, <3>1
  <2>2. CASE i < k /\ j = k
    <3>1. i \in 1 .. k - 1 /\ t[i] = l[i] /\ t[j] = r
      BY <1>2, <1>4, <2>2
    <3> QED
      BY <3>1
  <2>3. CASE i < k /\ j > k
    <3>1. /\ i \in 1 .. Len(l) /\ t[i] = l[i]
          /\ j - k + n \in 1 .. Len(l) /\ t[j] = l[j - k + n] /\ i < j - k + n
      BY <1>1, <1>3, <1>4, <2>3
    <3> QED
      BY <1>1, <3>1
  <2>4. CASE i = k
    <3>1. j > k /\ t[i] = r
      BY <1>2, <1>3, <1>6, <2>4
    <3>2. j - k + n \in n + 1 .. Len(l) /\ t[j] = l[j - k + n]
      BY <1>3, <1>4, <3>1
    <3> QED
      BY <3>1, <3>2
  <2>5. CASE i > k
    <3>1. /\ i - k + n \in 1 .. Len(l) /\ t[i] = l[i - k + n]
          /\ j - k + n \in 1 .. Len(l) /\ t[j] = l[j - k + n]
          /\ i - k + n < j - k + n
      BY <1>1, <1>3, <1>4, <1>6, <2>5
    <3> QED
      BY <1>1, <3>1
  <2> QED
    BY <1>6, <2>1, <2>2, <2>3, <2>4, <2>5
<1>7. ASSUME NEW x
      PROVE  x \in Numbers(t) <=>
                 \/ x \in r.b .. r.e
                 \/ \E i \in 1 .. Len(l) : (i < k \/ i > n) /\ x \in l[i].b .. l[i].e
  <2>1. ASSUME NEW i \in 1 .. Len(t), x \in t[i].b .. t[i].e
        PROVE  \/ x \in r.b .. r.e
               \/ \E j \in 1 .. Len(l) : (j < k \/ j > n) /\ x \in l[j].b .. l[j].e
    <3>1. CASE i < k
      BY <1>4, <2>1, <3>1
    <3>2. CASE i = k
      BY <1>2, <2>1, <3>2
    <3>3. CASE i > k
      <4>1. i - k + n \in 1 .. Len(l) /\ i - k + n > n /\ t[i] = l[i - k + n]
        BY <1>1, <1>4, <3>3
      <4> QED
        BY <2>1, <4>1
    <3> QED
      BY <3>1, <3>2, <3>3
  <2>2. ASSUME x \in r.b .. r.e PROVE \E i \in 1 .. Len(t) : x \in t[i].b .. t[i].e
    BY <1>2, <1>3, <2>2
  <2>3. ASSUME NEW j \in 1 .. Len(l), j < k \/ j > n, x \in l[j].b .. l[j].e
        PROVE  \E i \in 1 .. Len(t) : x \in t[i].b .. t[i].e
    <3>1. CASE j < k
      <4>1. j \in 1 .. Len(t) /\ t[j] = l[j]
        BY <1>2, <1>3, <3>1
      <4> QED
        BY <2>3, <4>1
    <3>2. CASE j > n
      <4>1. j - n + k \in k + 1 .. Len(t) /\ (j - n + k) - k + n = j
        BY <1>1, <1>2, <1>3, <3>2
      <4>2. j - n + k \in 1 .. Len(t) /\ t[j - n + k] = l[j]
        BY <1>2, <1>3, <4>1
      <4> QED
        BY <2>3, <4>2
    <3> QED
      BY <2>3, <3>1, <3>2
  <2> QED
    BY <2>1, <2>2, <2>3, InNumbers
<1> QED
  BY <1>2, <1>5, <1>6, <1>7 DEF Ascends, t

\* Ranges are dropped.
LEMMA DropAscends ==
    ASSUME NEW l, Ascends(l), NEW k \in 1 .. Len(l) + 1, NEW n \in k - 1 .. Len(l)
    PROVE  LET t == Spliced(l, k, n, <<>>)
           IN  /\ Ascends(t)
               /\ \A x : x \in Numbers(t) <=>
                     \E i \in 1 .. Len(l) : (i < k \/ i > n) /\ x \in l[i].b .. l[i].e
<1> DEFINE t == Spliced(l, k, n, <<>>)
<1>1. /\ l \in Seq(Ranges) /\ Len(l) \in Nat
      /\ \A i \in 1 .. Len(l) : l[i] \in Ranges /\ l[i].b <= l[i].e
      /\ \A i, j \in 1 .. Len(l) : i < j => l[i].e + 1 < l[j].b
  BY LenProperties, ElementOfSeq DEF Ascends
<1>2. /\ t \in Seq(Ranges) /\ Len(t) = k - 1 + Len(l) - n
      /\ \A i \in 1 .. k - 1 : t[i] = l[i]
      /\ \A i \in k .. Len(t) : t[i] = l[i - k + 1 + n]
  BY <1>1, DropIs
<1> HIDE DEF t
<1>3. Len(t) \in Nat /\ k - 1 <= Len(t) /\ k - 1 <= Len(l)
  BY <1>1, <1>2
<1>4. \A i \in 1 .. Len(t) :
        \/ i < k /\ i \in 1 .. Len(l) /\ t[i] = l[i]
        \/ i >= k /\ i - k + 1 + n \in n + 1 .. Len(l) /\ t[i] = l[i - k + 1 + n]
  BY <1>1, <1>2, <1>3
<1>5. \A i \in 1 .. Len(t) : t[i].b <= t[i].e
  BY <1>1, <1>3, <1>4
<1>6. ASSUME NEW i \in 1 .. Len(t), NEW j \in 1 .. Len(t), i < j
      PROVE  t[i].e + 1 < t[j].b
  <2>1. CASE i < k /\ j < k
    <3>1. i \in 1 .. Len(l) /\ t[i] = l[i] /\ j \in 1 .. Len(l) /\ t[j] = l[j]
      BY <1>4, <2>1
    <3> QED
      BY <1>1, <1>6, <3>1
  <2>2. CASE i < k /\ j >= k
    <3>1. /\ i \in 1 .. Len(l) /\ t[i] = l[i]
          /\ j - k + 1 + n \in 1 .. Len(l) /\ t[j] = l[j - k + 1 + n]
          /\ i < j - k + 1 + n
      BY <1>1, <1>3, <1>4, <2>2
    <3> QED
      BY <1>1, <3>1
  <2>3. CASE i >= k
    <3>1. /\ i - k + 1 + n \in 1 .. Len(l) /\ t[i] = l[i - k + 1 + n]
          /\ j - k + 1 + n \in 1 .. Len(l) /\ t[j] = l[j - k + 1 + n]
          /\ i - k + 1 + n < j - k + 1 + n
      BY <1>1, <1>3, <1>4, <1>6, <2>3
    <3> QED
      BY <1>1, <3>1
  <2> QED
    BY <2>1, <2>2, <2>3
<1>7. ASSUME NEW x
      PROVE  x \in Numbers(t) <=>
                 \E i \in 1 .. Len(l) : (i < k \/ i > n) /\ x \in l[i].b .. l[i].e
  <2>1. ASSUME NEW i \in 1 .. Len(t), x \in t[i].b .. t[i].e
        PROVE  \E j \in 1 .. Len(l) : (j < k \/ j > n) /\ x \in l[j].b .. l[j].e
    <3>1. CASE i < k
      BY <1>4, <2>1, <3>1
    <3>2. CASE i >= k
      <4>1. i - k + 1 + n \in 1 .. Len(l) /\ i - k + 1 + n > n /\ t[i] = l[i - k + 1 + n]
        BY <1>1, <1>4, <3>2
      <4> QED
        BY <2>1, <4>1
    <3> QED
      BY <3>1, <3>2
  <2>2. ASSUME NEW j \in 1 .. Len(l), j < k \/ j > n, x \in l[j].b .. l[j].e
        PROVE  \E i \in 1 .. Len(t) : x \in t[i].b .. t[i].e
    <3>1. CASE j < k
      <4>1. j \in 1 .. Len(t) /\ t[j] = l[j]
        BY <1>2, <1>3, <3>1
      <4> QED
        BY <2>2, <4>1
    <3>2. CASE j > n
      <4>1. j - n + k - 1 \in k .. Len(t) /\ (j - n + k - 1) - k + 1 + n = j
        BY <1>1, <1>2, <1>3, <3>2
      <4>2. j - n + k - 1 \in 1 .. Len(t) /\ t[j - n + k - 1] = l[j]
        BY <1>2, <1>3, <4>1
      <4> QED
        BY <2>2, <4>2
    <3> QED
      BY <2>2, <3>1, <3>2
  <2> QED
    BY <2>1, <2>2, InNumbers
<1> QED
  BY <1>2, <1>5, <1>6, <1>7 DEF Ascends, t

-----------------------------------------------------------------------------
(* ipool_add_range.                                                        *)

LEMMA TouchIs ==
    ASSUME NEW r \in Ranges, NEW b \in Number, NEW e \in Number
    PROVE  Touches(r, b, e) <=> ~(e + 1 < r.b) /\ ~(r.e + 1 < b)
<1>1. /\ Limit \in Nat /\ Limit > 0 /\ r.b \in 0 .. Limit - 1 /\ r.e \in 0 .. Limit - 1
      /\ b \in 0 .. Limit - 1 /\ e \in 0 .. Limit - 1
  BY IpoolAssumption DEF Number, Ranges
<1>2. CASE r.e + 1 < Limit
  <2>1. (r.e + 1) % Limit = r.e + 1
    BY <1>1, <1>2
  <2> QED
    BY <1>1, <2>1 DEF Touches, Wrap
<1>3. CASE r.e + 1 = Limit
  <2>1. (r.e + 1) % Limit = 0
    BY <1>1, <1>3
  <2> QED
    BY <1>1, <1>3, <2>1 DEF Touches, Wrap
<1> QED
  BY <1>1, <1>2, <1>3

LEMMA JoinIs ==
    ASSUME NEW r \in Ranges, r.b > 0, NEW e \in Number
    PROVE  Joins(r, e) <=> e + 1 >= r.b
<1>1. /\ Limit \in Nat /\ Limit > 0 /\ r.b - 1 \in 0 .. Limit - 1
      /\ r.b \in Nat /\ e \in 0 .. Limit - 1
  BY IpoolAssumption DEF Number, Ranges
<1>2. (r.b - 1) % Limit = r.b - 1
  BY <1>1
<1>3. Joins(r, e) <=> e >= r.b - 1
  BY <1>2 DEF Joins, Wrap
<1> QED
  BY <1>1, <1>3

\* What is known of the ranges of a list.
LEMMA Listed ==
    ASSUME NEW l, Ascends(l)
    PROVE  /\ l \in Seq(Ranges) /\ Len(l) \in Nat
           /\ \A i \in 1 .. Len(l) :
                 /\ l[i] \in Ranges /\ l[i].b \in Nat /\ l[i].e \in Nat
                 /\ l[i].b <= l[i].e /\ l[i].e < Limit
           /\ \A i, j \in 1 .. Len(l) : i < j => l[i].e + 1 < l[j].b
<1>1. l \in Seq(Ranges) /\ Len(l) \in Nat
  BY LenProperties DEF Ascends
<1>2. ASSUME NEW i \in 1 .. Len(l)
      PROVE  l[i] \in Ranges /\ l[i].b \in Nat /\ l[i].e \in Nat /\ l[i].e < Limit
  <2>1. l[i] \in Ranges
    BY <1>1, ElementOfSeq
  <2> QED
    BY <2>1, IpoolAssumption DEF Ranges, Number
<1> QED
  BY <1>1, <1>2 DEF Ascends

\* A range that b .. e touches is extended.
LEMMA ExtendedRight ==
    ASSUME NEW l, Ascends(l), NEW b \in Number, NEW e \in Number, b <= e,
           NEW k \in 1 .. Len(l), Touches(l[k], b, e),
           \A i \in 1 .. k - 1 : ~Touches(l[i], b, e)
    PROVE  LET t == Extended(l, k, b, e)
           IN  Ascends(t) /\ Numbers(t) = Numbers(l) \cup (b .. e)
<1> DEFINE lo == IF b < l[k].b THEN b ELSE l[k].b
           S == {i \in k + 1 .. Len(l) : e <= l[i].e}
           q == First(l, S)
           t == Extended(l, k, b, e)
<1>1. /\ l \in Seq(Ranges) /\ Len(l) \in Nat
      /\ \A i \in 1 .. Len(l) :
            /\ l[i] \in Ranges /\ l[i].b \in Nat /\ l[i].e \in Nat
            /\ l[i].b <= l[i].e /\ l[i].e < Limit
      /\ \A i, j \in 1 .. Len(l) : i < j => l[i].e + 1 < l[j].b
  BY Listed
<1>2. b \in Nat /\ e \in Nat /\ e < Limit /\ b < Limit /\ Limit \in Nat
  BY IpoolAssumption DEF Number
<1>3. l[k].b <= e + 1 /\ b <= l[k].e + 1
  BY <1>1, <1>2, TouchIs
<1>4. ASSUME NEW i \in 1 .. k - 1 PROVE l[i].e + 1 < b
  <2>1. i \in 1 .. Len(l) /\ i < k
    BY <1>1
  <2>2. e + 1 < l[i].b \/ l[i].e + 1 < b
    BY <1>1, <2>1, TouchIs
  <2>3. l[i].e + 1 < l[k].b /\ l[i].b <= l[i].e
    BY <1>1, <2>1
  <2>4. l[i].b \in Nat /\ l[i].e \in Nat /\ l[k].b \in Nat
    BY <1>1, <2>1
  <2> QED
    BY ONLY <1>2, <1>3, <2>2, <2>3, <2>4, SMTT(30)
<1>5. lo \in Nat /\ lo <= b /\ lo <= l[k].b /\ (lo = b \/ lo = l[k].b) /\ lo < Limit
  BY <1>1, <1>2
<1> HIDE DEF lo
<1>6. \A i \in 1 .. k - 1 : l[i].e + 1 < lo
  <2>1. ASSUME NEW i \in 1 .. k - 1 PROVE l[i].e + 1 < lo
    <3>1. i \in 1 .. Len(l) /\ i < k
      BY <1>1
    <3>2. l[i].e + 1 < l[k].b /\ l[i].e + 1 < b
      BY <1>1, <1>4, <3>1
    <3> QED
      BY <1>5, <3>2
  <2> QED
    BY <2>1
<1>7. S \subseteq 1 .. Len(l)
  BY <1>1
<1>8. /\ q \in 1 .. Len(l) + 1 /\ (q <= Len(l) => q \in S)
      /\ \A j \in S : q <= j
  BY <1>1, <1>7, FirstIs
<1>9. /\ q \in k + 1 .. Len(l) + 1
      /\ q <= Len(l) => e <= l[q].e
      /\ \A j \in k + 1 .. q - 1 : l[j].e < e
  <2>1. q \in k + 1 .. Len(l) + 1 /\ (q <= Len(l) => e <= l[q].e)
    BY <1>1, <1>8
  <2>2. ASSUME NEW j \in k + 1 .. q - 1 PROVE l[j].e < e
    <3>1. j \in 1 .. Len(l) /\ j \in k + 1 .. Len(l) /\ ~(q <= j)
      BY <1>1, <2>1
    <3>2. j \notin S
      BY <1>8, <3>1
    <3> QED
      BY <1>1, <1>2, <3>1, <3>2
  <2> QED
    BY <2>1, <2>2
<1>10. t = CASE e <= l[k].e -> Spliced(l, k, k, <<Range2(lo, l[k].e)>>)
             [] e > l[k].e /\ q <= Len(l) /\ Joins(l[q], e) ->
                   Spliced(l, k, q, <<Range2(lo, l[q].e)>>)
             [] OTHER -> Spliced(l, k, q - 1, <<Range2(lo, e)>>)
  BY DEF Extended, lo
<1> HIDE DEF S, q, t
<1>11. CASE e <= l[k].e
  <2> DEFINE r == Range2(lo, l[k].e)
  <2>1. r \in Ranges /\ r.b = lo /\ r.e = l[k].e /\ r.b <= r.e
    BY <1>1, <1>5, IpoolAssumption DEF Ranges, Number, Range2
  <2>2. t = Spliced(l, k, k, <<r>>)
    <3>1. ~(e > l[k].e)
      BY <1>1, <1>2, <1>11
    <3> QED
      BY <1>10, <1>11, <3>1
  <2> HIDE DEF r
  <2>3. k \in 1 .. Len(l) + 1 /\ k \in k - 1 .. Len(l)
    BY <1>1
  <2>4. \A j \in k + 1 .. Len(l) : r.e + 1 < l[j].b
    BY <1>1, <2>1
  <2>5. /\ Ascends(t)
        /\ \A x : x \in Numbers(t) <=>
              \/ x \in r.b .. r.e
              \/ \E i \in 1 .. Len(l) : (i < k \/ i > k) /\ x \in l[i].b .. l[i].e
    BY <1>6, <2>1, <2>2, <2>3, <2>4, SpliceAscends
  <2>6. ASSUME NEW x
        PROVE  x \in Numbers(t) <=> x \in Numbers(l) \/ x \in b .. e
    <3>1. x \in r.b .. r.e <=> x \in l[k].b .. l[k].e \/ x \in b .. e
      BY <1>1, <1>2, <1>3, <1>5, <1>11, <2>1
    <3>2. x \in Numbers(l) <=>
            \/ x \in l[k].b .. l[k].e
            \/ \E i \in 1 .. Len(l) : (i < k \/ i > k) /\ x \in l[i].b .. l[i].e
      <4>1. \A i \in 1 .. Len(l) : i = k \/ i < k \/ i > k
        BY <1>1
      <4> QED
        BY <4>1, InNumbers
    <3> QED
      BY <2>5, <3>1, <3>2
  <2> QED
    BY <2>5, <2>6 DEF t
<1>12. CASE e > l[k].e /\ q <= Len(l) /\ Joins(l[q], e)
  <2> DEFINE r == Range2(lo, l[q].e)
  <2>1. q \in 1 .. Len(l) /\ q > k /\ l[k].e + 1 < l[q].b /\ e <= l[q].e
    BY <1>1, <1>9, <1>12
  <2>2. l[q].b > 0 /\ l[q].b <= e + 1
    <3>1. l[q] \in Ranges /\ l[q].b > 0
      BY <1>1, <2>1
    <3>2. e + 1 >= l[q].b
      BY <1>12, <3>1, JoinIs
    <3> QED
      BY <1>1, <1>2, <2>1, <3>1, <3>2
  <2>3. r \in Ranges /\ r.b = lo /\ r.e = l[q].e /\ r.b <= r.e
    <3>1. l[q].e \in 0 .. Limit - 1 /\ lo \in 0 .. Limit - 1 /\ lo <= l[q].e
      BY <1>1, <1>2, <1>5, <2>1
    <3> QED
      BY <3>1 DEF Ranges, Number, Range2
  <2>4. t = Spliced(l, k, q, <<r>>)
    BY <1>1, <1>2, <1>10, <1>12
  <2> HIDE DEF r
  <2>5. k \in 1 .. Len(l) + 1 /\ q \in k - 1 .. Len(l)
    BY <1>1, <2>1
  <2>6. \A j \in q + 1 .. Len(l) : r.e + 1 < l[j].b
    BY <1>1, <2>1, <2>3
  <2>7. /\ Ascends(t)
        /\ \A x : x \in Numbers(t) <=>
              \/ x \in r.b .. r.e
              \/ \E i \in 1 .. Len(l) : (i < k \/ i > q) /\ x \in l[i].b .. l[i].e
    BY <1>6, <2>3, <2>4, <2>5, <2>6, SpliceAscends
  <2>8. ASSUME NEW x
        PROVE  x \in Numbers(t) <=> x \in Numbers(l) \/ x \in b .. e
    <3>1. ASSUME NEW i \in k .. q, x \in l[i].b .. l[i].e
          PROVE  x \in r.b .. r.e
      <4>1. i \in 1 .. Len(l)
        BY <1>1, <2>1
      <4>2. l[k].b <= l[i].b
        BY <1>1, <4>1
      <4>3. l[i].e <= l[q].e
        BY <1>1, <2>1, <4>1
      <4> QED
        BY <1>1, <1>5, <2>1, <2>3, <3>1, <4>1, <4>2, <4>3
    <3>2. x \in r.b .. r.e =>
            x \in b .. e \/ x \in l[k].b .. l[k].e \/ x \in l[q].b .. l[q].e
      BY <1>1, <1>2, <1>3, <1>5, <1>12, <2>1, <2>2, <2>3, SMTT(30)
    <3>3. x \in b .. e => x \in r.b .. r.e
      BY <1>1, <1>2, <1>5, <2>1, <2>3
    <3>4. ASSUME x \in Numbers(t) PROVE x \in Numbers(l) \/ x \in b .. e
      BY <2>1, <2>7, <3>2, <3>4, InNumbers
    <3>5. ASSUME x \in Numbers(l) PROVE x \in Numbers(t)
      <4>1. PICK i \in 1 .. Len(l) : x \in l[i].b .. l[i].e
        BY <3>5, InNumbers
      <4>2. i < k \/ i > q \/ i \in k .. q
        BY <1>1, <2>1
      <4> QED
        BY <2>7, <3>1, <4>1, <4>2
    <3> QED
      BY <2>7, <3>3, <3>4, <3>5
  <2> QED
    BY <2>7, <2>8 DEF t
<1>13. CASE e > l[k].e /\ ~(q <= Len(l) /\ Joins(l[q], e))
  <2> DEFINE r == Range2(lo, e)
  <2>1. r \in Ranges /\ r.b = lo /\ r.e = e /\ r.b <= r.e
    BY <1>2, <1>5, IpoolAssumption DEF Ranges, Number, Range2
  <2>2. t = Spliced(l, k, q - 1, <<r>>)
    BY <1>1, <1>2, <1>10, <1>13
  <2> HIDE DEF r
  <2>3. k \in 1 .. Len(l) + 1 /\ q - 1 \in k - 1 .. Len(l) /\ (q - 1) + 1 = q
    BY <1>1, <1>9
  <2>4. ASSUME NEW j \in (q - 1) + 1 .. Len(l) PROVE r.e + 1 < l[j].b
    <3>1. q \in 1 .. Len(l) /\ j \in 1 .. Len(l) /\ j >= q /\ q > k
      BY <1>1, <1>9, <2>3
    <3>2. l[q] \in Ranges /\ l[q].b > 0
      BY <1>1, <3>1
    <3>3. ~(e + 1 >= l[q].b)
      BY <1>13, <3>1, <3>2, JoinIs
    <3>4. l[q].b <= l[j].b
      BY <1>1, <3>1
    <3> QED
      BY <1>1, <1>2, <2>1, <3>1, <3>3, <3>4
  <2>5. /\ Ascends(t)
        /\ \A x : x \in Numbers(t) <=>
              \/ x \in r.b .. r.e
              \/ \E i \in 1 .. Len(l) : (i < k \/ i > q - 1) /\ x \in l[i].b .. l[i].e
    BY <1>6, <2>1, <2>2, <2>3, <2>4, SpliceAscends
  <2>6. ASSUME NEW x
        PROVE  x \in Numbers(t) <=> x \in Numbers(l) \/ x \in b .. e
    <3>1. ASSUME NEW i \in k .. q - 1, x \in l[i].b .. l[i].e
          PROVE  x \in r.b .. r.e
      <4>1. i \in 1 .. Len(l)
        BY <1>1, <1>9
      <4>2. l[k].b <= l[i].b
        BY <1>1, <4>1
      <4>3. l[i].e <= e
        <5>1. CASE i = k
          BY <1>1, <1>2, <1>13, <5>1
        <5>2. CASE i \in k + 1 .. q - 1
          BY <1>1, <1>2, <1>9, <4>1, <5>2
        <5> QED
          BY <1>9, <5>1, <5>2
      <4> QED
        BY <1>1, <1>2, <1>5, <2>1, <3>1, <4>1, <4>2, <4>3
    <3>2. x \in r.b .. r.e => x \in b .. e \/ x \in l[k].b .. l[k].e
      BY <1>1, <1>2, <1>3, <1>5, <1>13, <2>1
    <3>3. x \in b .. e => x \in r.b .. r.e
      BY <1>1, <1>2, <1>5, <2>1
    <3>4. ASSUME x \in Numbers(t) PROVE x \in Numbers(l) \/ x \in b .. e
      BY <2>5, <3>2, <3>4, InNumbers
    <3>5. ASSUME x \in Numbers(l) PROVE x \in Numbers(t)
      <4>1. PICK i \in 1 .. Len(l) : x \in l[i].b .. l[i].e
        BY <3>5, InNumbers
      <4>2. i < k \/ i > q - 1 \/ i \in k .. q - 1
        BY <1>1, <1>9
      <4> QED
        BY <2>5, <3>1, <4>1, <4>2
    <3> QED
      BY <2>5, <3>3, <3>4, <3>5
  <2> QED
    BY <2>5, <2>6 DEF t
<1> QED
  BY <1>1, <1>2, <1>11, <1>12, <1>13 DEF t

\* A range that no other touches is inserted.
LEMMA InsertedRight ==
    ASSUME NEW l, Ascends(l), NEW b \in Number, NEW e \in Number, b <= e,
           \A i \in 1 .. Len(l) : ~Touches(l[i], b, e)
    PROVE  LET t == Inserted(l, b, e)
           IN  Ascends(t) /\ Numbers(t) = Numbers(l) \cup (b .. e)
<1> DEFINE S == {i \in 1 .. Len(l) : b <= l[i].b}
           n == First(l, S)
           r == Range2(b, e)
           t == Inserted(l, b, e)
<1>1. /\ l \in Seq(Ranges) /\ Len(l) \in Nat
      /\ \A i \in 1 .. Len(l) :
            /\ l[i] \in Ranges /\ l[i].b \in Nat /\ l[i].e \in Nat
            /\ l[i].b <= l[i].e /\ l[i].e < Limit
      /\ \A i, j \in 1 .. Len(l) : i < j => l[i].e + 1 < l[j].b
  BY Listed
<1>2. b \in Nat /\ e \in Nat
  BY IpoolAssumption DEF Number
<1>3. /\ n \in 1 .. Len(l) + 1 /\ (n <= Len(l) => n \in S)
      /\ \A j \in S : n <= j
  <2>1. S \subseteq 1 .. Len(l)
    OBVIOUS
  <2> QED
    BY <1>1, <2>1, FirstIs
<1>4. r \in Ranges /\ r.b = b /\ r.e = e
  BY DEF Ranges, Range2
<1>5. t = Spliced(l, n, n - 1, <<r>>)
  BY DEF Inserted
<1> HIDE DEF n, r, t
<1>6. \A i \in 1 .. Len(l) : e + 1 < l[i].b \/ l[i].e + 1 < b
  BY <1>1, TouchIs
<1>7. ASSUME NEW i \in 1 .. n - 1 PROVE l[i].e + 1 < r.b
  <2>1. i \in 1 .. Len(l) /\ ~(n <= i)
    BY <1>1, <1>3
  <2>2. l[i].b < b
    BY <1>1, <1>2, <1>3, <2>1
  <2> QED
    BY <1>1, <1>2, <1>4, <1>6, <2>1, <2>2
<1>8. ASSUME NEW j \in (n - 1) + 1 .. Len(l) PROVE r.e + 1 < l[j].b
  <2>1. n \in 1 .. Len(l) /\ j \in 1 .. Len(l) /\ n <= j
    BY <1>1, <1>3
  <2>2. b <= l[n].b
    BY <1>3, <2>1
  <2>3. l[n].b <= l[j].b
    BY <1>1, <2>1
  <2> QED
    BY <1>1, <1>2, <1>4, <1>6, <2>1, <2>2, <2>3
<1>9. n - 1 \in n - 1 .. Len(l)
  BY <1>1, <1>3
<1>10. /\ Ascends(t)
       /\ \A x : x \in Numbers(t) <=>
             \/ x \in b .. e
             \/ \E i \in 1 .. Len(l) : (i < n \/ i > n - 1) /\ x \in l[i].b .. l[i].e
  BY <1>3, <1>4, <1>5, <1>7, <1>8, <1>9, SpliceAscends
<1>11. \A i \in 1 .. Len(l) : i < n \/ i > n - 1
  BY <1>1, <1>3
<1>12. \A x : x \in Numbers(t) <=> x \in Numbers(l) \/ x \in b .. e
  BY <1>10, <1>11, InNumbers
<1> QED
  BY <1>10, <1>12 DEF t

\* ipool_add_range adds b .. e and nothing else.
LEMMA AddedRight ==
    ASSUME NEW l, Ascends(l), NEW b \in Number, NEW e \in Number, b <= e
    PROVE  LET t == Added(l, b, e)
           IN  Ascends(t) /\ Numbers(t) = Numbers(l) \cup (b .. e)
<1> DEFINE S == {i \in 1 .. Len(l) : Touches(l[i], b, e)}
           k == First(l, S)
<1>1. l \in Seq(Ranges) /\ Len(l) \in Nat
  BY Listed
<1>2. /\ k \in 1 .. Len(l) + 1 /\ (k <= Len(l) => k \in S)
      /\ \A j \in S : k <= j
  <2>1. S \subseteq 1 .. Len(l)
    OBVIOUS
  <2> QED
    BY <1>1, <2>1, FirstIs
<1>3. Added(l, b, e) = IF k <= Len(l) THEN Extended(l, k, b, e) ELSE Inserted(l, b, e)
  BY DEF Added
<1> HIDE DEF k
<1>4. \A i \in 1 .. Len(l) : i < k => ~Touches(l[i], b, e)
  BY <1>1, <1>2
<1>5. CASE k <= Len(l)
  <2>1. k \in 1 .. Len(l) /\ Touches(l[k], b, e)
    BY <1>2, <1>5
  <2>2. \A i \in 1 .. k - 1 : ~Touches(l[i], b, e)
    BY <1>1, <1>2, <1>4
  <2> QED
    BY <1>3, <1>5, <2>1, <2>2, ExtendedRight
<1>6. CASE ~(k <= Len(l))
  <2>1. \A i \in 1 .. Len(l) : ~Touches(l[i], b, e)
    BY <1>1, <1>2, <1>4, <1>6
  <2> QED
    BY <1>3, <1>6, <2>1, InsertedRight
<1> QED
  BY <1>5, <1>6

-----------------------------------------------------------------------------
(* ipool_subtract_range.                                                   *)

\* The ranges below the first one that is met end before b, those behind it
\* begin above its end.
LEMMA MetIs ==
    ASSUME NEW l, Ascends(l), NEW b \in Number, NEW e \in Number, b <= e
    PROVE  LET k == Met(l, b, e)
           IN  /\ k \in 1 .. Len(l) + 1
               /\ k <= Len(l) => /\ l[k].b <= e /\ b <= l[k].e
                                 /\ \A i \in 1 .. k - 1 : l[i].e < b
               /\ k > Len(l) => \A i \in 1 .. Len(l) : e < l[i].b \/ l[i].e < b
<1> DEFINE S == {i \in 1 .. Len(l) : ~(e < l[i].b) /\ ~(b > l[i].e)}
           k == First(l, S)
<1>1. /\ l \in Seq(Ranges) /\ Len(l) \in Nat
      /\ \A i \in 1 .. Len(l) :
            /\ l[i] \in Ranges /\ l[i].b \in Nat /\ l[i].e \in Nat
            /\ l[i].b <= l[i].e /\ l[i].e < Limit
      /\ \A i, j \in 1 .. Len(l) : i < j => l[i].e + 1 < l[j].b
  BY Listed
<1>2. b \in Nat /\ e \in Nat
  BY IpoolAssumption DEF Number
<1>3. /\ k \in 1 .. Len(l) + 1 /\ (k <= Len(l) => k \in S)
      /\ \A j \in S : k <= j
  <2>1. S \subseteq 1 .. Len(l)
    OBVIOUS
  <2> QED
    BY <1>1, <2>1, FirstIs
<1>4. Met(l, b, e) = k
  BY DEF Met
<1> HIDE DEF k
<1>5. \A i \in 1 .. Len(l) : i < k => e < l[i].b \/ l[i].e < b
  BY <1>1, <1>2, <1>3
<1>6. ASSUME k <= Len(l)
      PROVE  l[k].b <= e /\ b <= l[k].e /\ \A i \in 1 .. k - 1 : l[i].e < b
  <2>1. k \in 1 .. Len(l) /\ l[k].b <= e /\ b <= l[k].e
    BY <1>1, <1>2, <1>3, <1>6
  <2>2. ASSUME NEW i \in 1 .. k - 1 PROVE l[i].e < b
    <3>1. i \in 1 .. Len(l) /\ i < k
      BY <1>1, <2>1
    <3>2. l[i].e + 1 < l[k].b /\ l[i].b <= l[i].e
      BY <1>1, <2>1, <3>1
    <3> QED
      BY <1>1, <1>2, <1>5, <2>1, <3>1, <3>2
  <2> QED
    BY <2>1, <2>2
<1>7. k > Len(l) => \A i \in 1 .. Len(l) : e < l[i].b \/ l[i].e < b
  BY <1>1, <1>3, <1>5
<1> QED
  BY <1>3, <1>4, <1>6, <1>7

\* One range takes the place of one other.
LEMMA PutIs ==
    ASSUME NEW l \in Seq(Ranges), NEW k \in 1 .. Len(l), NEW r \in Ranges
    PROVE  LET t == Spliced(l, k, k, <<r>>)
           IN  /\ Len(t) = Len(l) /\ t[k] = r
               /\ \A i \in 1 .. Len(l) : i # k => t[i] = l[i]
<1> DEFINE t == Spliced(l, k, k, <<r>>)
<1>1. Len(l) \in Nat /\ k \in 1 .. Len(l) + 1
  BY LenProperties
<1>2. PICK n \in k - 1 .. Len(l) : n = k
  BY <1>1
<1>3. LET u == Spliced(l, k, n, <<r>>)
      IN  /\ u \in Seq(Ranges) /\ Len(u) = k + Len(l) - n
          /\ \A i \in 1 .. k - 1 : u[i] = l[i]
          /\ u[k] = r
          /\ \A i \in k + 1 .. Len(u) : u[i] = l[i - k + n]
  <2>1. \A m \in 1 .. Len(l) + 1 : \A q \in m - 1 .. Len(l) :
          LET u == Spliced(l, m, q, <<r>>)
          IN  /\ u \in Seq(Ranges) /\ Len(u) = m + Len(l) - q
              /\ \A i \in 1 .. m - 1 : u[i] = l[i]
              /\ u[m] = r
              /\ \A i \in m + 1 .. Len(u) : u[i] = l[i - m + q]
    BY SpliceIs
  <2> QED
    BY ONLY <1>1, <2>1, n \in k - 1 .. Len(l), Zenon
<1>4. t = Spliced(l, k, n, <<r>>)
  BY <1>2
<1> HIDE DEF t
<1>5. /\ Len(t) = k + Len(l) - n /\ t[k] = r
      /\ \A i \in 1 .. k - 1 : t[i] = l[i]
      /\ \A i \in k + 1 .. Len(t) : t[i] = l[i - k + n]
  BY <1>3, <1>4
<1>6. Len(t) = Len(l)
  BY <1>1, <1>2, <1>5
<1>7. ASSUME NEW i \in 1 .. Len(l), i # k PROVE t[i] = l[i]
  <2>1. i \in 1 .. k - 1 \/ (i \in k + 1 .. Len(t) /\ i - k + n = i)
    BY <1>1, <1>2, <1>6, <1>7
  <2> QED
    BY <1>5, <2>1
<1> QED
  BY <1>5, <1>6, <1>7 DEF t

\* The first range that is met loses what it has from b on.
LEMMA CutRight ==
    ASSUME NEW l, Ascends(l), NEW b \in Number, NEW e \in Number, b <= e,
           Met(l, b, e) <= Len(l), b > l[Met(l, b, e)].b
    PROVE  LET k == Met(l, b, e)
               t == Cut(l, b, e)
           IN  /\ Ascends(t) /\ Len(t) = Len(l)
               /\ \A i \in 1 .. Len(l) : i # k => t[i] = l[i]
               /\ t[k].e = b - 1
               /\ Numbers(t) = Numbers(l) \ (b .. l[k].e)
<1> DEFINE k == Met(l, b, e)
           r == Range2(l[k].b, b - 1)
           t == Cut(l, b, e)
<1>1. /\ l \in Seq(Ranges) /\ Len(l) \in Nat
      /\ \A i \in 1 .. Len(l) :
            /\ l[i] \in Ranges /\ l[i].b \in Nat /\ l[i].e \in Nat
            /\ l[i].b <= l[i].e /\ l[i].e < Limit
      /\ \A i, j \in 1 .. Len(l) : i < j => l[i].e + 1 < l[j].b
  BY Listed
<1>2. b \in Nat /\ e \in Nat /\ b < Limit /\ Limit \in Nat
  BY IpoolAssumption DEF Number
<1>3. /\ k \in 1 .. Len(l) /\ l[k].b <= e /\ b <= l[k].e /\ b > l[k].b
      /\ \A i \in 1 .. k - 1 : l[i].e < b
  BY <1>1, MetIs
<1>4. t = Spliced(l, k, k, <<r>>)
  BY DEF Cut
<1> HIDE DEF k, t
<1>5. r \in Ranges /\ r.b = l[k].b /\ r.e = b - 1 /\ r.b <= r.e
  <2>1. l[k].b \in 0 .. Limit - 1 /\ b - 1 \in 0 .. Limit - 1 /\ l[k].b <= b - 1
    BY <1>1, <1>2, <1>3
  <2> QED
    BY <2>1 DEF Ranges, Number, Range2
<1> HIDE DEF r
<1>6. k \in 1 .. Len(l) + 1 /\ k \in k - 1 .. Len(l)
  BY <1>1, <1>3
<1>7. \A i \in 1 .. k - 1 : l[i].e + 1 < r.b
  BY <1>1, <1>3, <1>5
<1>8. ASSUME NEW j \in k + 1 .. Len(l) PROVE r.e + 1 < l[j].b
  <2>1. j \in 1 .. Len(l) /\ l[k].e + 1 < l[j].b
    BY <1>1, <1>3
  <2> QED
    BY <1>1, <1>2, <1>3, <1>5, <2>1
<1>9. /\ Ascends(t)
      /\ \A x : x \in Numbers(t) <=>
            \/ x \in r.b .. r.e
            \/ \E i \in 1 .. Len(l) : (i < k \/ i > k) /\ x \in l[i].b .. l[i].e
  BY <1>4, <1>5, <1>6, <1>7, <1>8, SpliceAscends
<1>10. /\ Len(t) = Len(l) /\ t[k] = r
       /\ \A i \in 1 .. Len(l) : i # k => t[i] = l[i]
  BY <1>1, <1>3, <1>4, <1>5, PutIs
<1>11. ASSUME NEW x
       PROVE  x \in Numbers(t) <=> x \in Numbers(l) /\ x \notin b .. l[k].e
  <2>1. x \in r.b .. r.e <=> x \in l[k].b .. l[k].e /\ x \notin b .. l[k].e
    BY <1>1, <1>2, <1>3, <1>5
  <2>2. ASSUME NEW i \in 1 .. Len(l), i < k \/ i > k, x \in l[i].b .. l[i].e
        PROVE  x \notin b .. l[k].e
    <3>1. CASE i < k
      <4>1. l[i].e < b
        BY <1>1, <1>3, <3>1
      <4> QED
        BY <1>1, <1>2, <2>2, <4>1
    <3>2. CASE i > k
      <4>1. l[k].e + 1 < l[i].b
        BY <1>1, <1>3, <3>2
      <4> QED
        BY <1>1, <1>3, <2>2, <4>1
    <3> QED
      BY <2>2, <3>1, <3>2
  <2>3. \A i \in 1 .. Len(l) : i = k \/ i < k \/ i > k
    BY <1>1, <1>3
  <2>4. ASSUME x \in Numbers(t) PROVE x \in Numbers(l) /\ x \notin b .. l[k].e
    BY <1>3, <1>9, <2>1, <2>2, <2>4, InNumbers
  <2>5. ASSUME x \in Numbers(l), x \notin b .. l[k].e PROVE x \in Numbers(t)
    <3>1. PICK i \in 1 .. Len(l) : x \in l[i].b .. l[i].e
      BY <2>5, InNumbers
    <3> QED
      BY <1>9, <2>1, <2>3, <2>5, <3>1
  <2> QED
    BY <2>4, <2>5
<1> QED
  BY <1>5, <1>9, <1>10, <1>11 DEF k, t

\* If the ranges from n on begin at b or above and the others end below b,
\* what is eaten is b .. e.
LEMMA EatenRight ==
    ASSUME NEW l, Ascends(l), NEW b \in Number, NEW e \in Number, b <= e,
           NEW n \in 1 .. Len(l) + 1,
           \A i \in 1 .. n - 1 : l[i].e < b,
           \A i \in n .. Len(l) : b <= l[i].b
    PROVE  LET t == Eaten(l, n, e)
           IN  Ascends(t) /\ Numbers(t) = Numbers(l) \ (b .. e)
<1> DEFINE S == {i \in n .. Len(l) : e < l[i].e}
           q == First(l, S)
           t == Eaten(l, n, e)
<1>1. /\ l \in Seq(Ranges) /\ Len(l) \in Nat
      /\ \A i \in 1 .. Len(l) :
            /\ l[i] \in Ranges /\ l[i].b \in Nat /\ l[i].e \in Nat
            /\ l[i].b <= l[i].e /\ l[i].e < Limit
      /\ \A i, j \in 1 .. Len(l) : i < j => l[i].e + 1 < l[j].b
  BY Listed
<1>2. b \in Nat /\ e \in Nat /\ Limit \in Nat
  BY IpoolAssumption DEF Number
<1>3. /\ q \in 1 .. Len(l) + 1 /\ (q <= Len(l) => q \in S)
      /\ \A j \in S : q <= j
  <2>1. S \subseteq 1 .. Len(l)
    BY <1>1
  <2> QED
    BY <1>1, <2>1, FirstIs
<1>4. t = IF q <= Len(l) /\ e >= l[q].b
          THEN Spliced(l, n, q, <<Range2(e + 1, l[q].e)>>)
          ELSE Spliced(l, n, q - 1, <<>>)
  BY DEF Eaten
<1> HIDE DEF q, t
<1>5. /\ q \in n .. Len(l) + 1 /\ (q <= Len(l) => e < l[q].e)
      /\ \A j \in n .. q - 1 : l[j].e <= e
  <2>1. q \in n .. Len(l) + 1 /\ (q <= Len(l) => e < l[q].e)
    BY <1>1, <1>3
  <2>2. ASSUME NEW j \in n .. q - 1 PROVE l[j].e <= e
    <3>1. j \in 1 .. Len(l) /\ j \in n .. Len(l) /\ ~(q <= j)
      BY <1>1, <2>1
    <3>2. j \notin S
      BY <1>3, <3>1
    <3> QED
      BY <1>1, <1>2, <3>1, <3>2
  <2> QED
    BY <2>1, <2>2
<1> HIDE DEF S
\* The ranges from n to q - 1 are within b .. e, those below n are not.
<1>6. ASSUME NEW i \in n .. q - 1 PROVE l[i].b .. l[i].e \subseteq b .. e
  <2>1. i \in 1 .. Len(l) /\ b <= l[i].b /\ l[i].e <= e
    BY <1>1, <1>5
  <2> QED
    BY <1>1, <1>2, <2>1
<1>7. ASSUME NEW i \in 1 .. n - 1, NEW x \in l[i].b .. l[i].e PROVE x \notin b .. e
  <2>1. i \in 1 .. Len(l) /\ l[i].e < b
    BY <1>1
  <2> QED
    BY <1>1, <1>2, <2>1
<1>8. ASSUME NEW i \in q + 1 .. Len(l), NEW x \in l[i].b .. l[i].e PROVE x \notin b .. e
  <2>1. i \in 1 .. Len(l) /\ q \in 1 .. Len(l) /\ e < l[q].e /\ l[q].e + 1 < l[i].b
    BY <1>1, <1>5
  <2> QED
    BY <1>1, <1>2, <2>1
<1>9. CASE q <= Len(l) /\ e >= l[q].b
  <2> DEFINE r == Range2(e + 1, l[q].e)
  <2>1. q \in 1 .. Len(l) /\ e < l[q].e /\ b <= l[q].b /\ l[q].b <= e
    BY <1>1, <1>2, <1>5, <1>9
  <2>2. r \in Ranges /\ r.b = e + 1 /\ r.e = l[q].e /\ r.b <= r.e
    <3>1. e + 1 \in 0 .. Limit - 1 /\ l[q].e \in 0 .. Limit - 1 /\ e + 1 <= l[q].e
      BY <1>1, <1>2, <2>1
    <3> QED
      BY <3>1 DEF Ranges, Number, Range2
  <2>3. t = Spliced(l, n, q, <<r>>)
    BY <1>4, <1>9
  <2> HIDE DEF r
  <2>4. ASSUME NEW i \in 1 .. n - 1 PROVE l[i].e + 1 < r.b
    <3>1. i \in 1 .. Len(l) /\ l[i].e < b
      BY <1>1
    <3> QED
      BY <1>1, <1>2, <2>2, <3>1
  <2>5. \A j \in q + 1 .. Len(l) : r.e + 1 < l[j].b
    BY <1>1, <2>1, <2>2
  <2>6. q \in n - 1 .. Len(l)
    BY <1>1, <1>5, <2>1
  <2>7. /\ Ascends(t)
        /\ \A x : x \in Numbers(t) <=>
              \/ x \in r.b .. r.e
              \/ \E i \in 1 .. Len(l) : (i < n \/ i > q) /\ x \in l[i].b .. l[i].e
    BY <2>2, <2>3, <2>4, <2>5, <2>6, SpliceAscends
  <2>8. ASSUME NEW x PROVE x \in Numbers(t) <=> x \in Numbers(l) /\ x \notin b .. e
    <3>1. x \in r.b .. r.e <=> x \in l[q].b .. l[q].e /\ x \notin b .. e
      BY <1>1, <1>2, <2>1, <2>2
    <3>2. ASSUME NEW i \in 1 .. Len(l), i < n \/ i > q, x \in l[i].b .. l[i].e
          PROVE  x \notin b .. e
      <4>1. i \in 1 .. n - 1 \/ i \in q + 1 .. Len(l)
        BY <1>1, <2>1, <3>2
      <4> QED
        BY <1>7, <1>8, <3>2, <4>1
    <3>3. ASSUME x \in Numbers(t) PROVE x \in Numbers(l) /\ x \notin b .. e
      BY <2>1, <2>7, <3>1, <3>2, <3>3, InNumbers
    <3>4. ASSUME x \in Numbers(l), x \notin b .. e PROVE x \in Numbers(t)
      <4>1. PICK i \in 1 .. Len(l) : x \in l[i].b .. l[i].e
        BY <3>4, InNumbers
      <4>2. i \notin n .. q - 1
        BY <1>6, <3>4, <4>1
      <4>3. i < n \/ i = q \/ i > q
        BY <1>1, <2>1, <4>2
      <4> QED
        BY <2>7, <3>1, <3>4, <4>1, <4>3
    <3> QED
      BY <3>3, <3>4
  <2> QED
    BY <2>7, <2>8 DEF t
<1>10. CASE ~(q <= Len(l) /\ e >= l[q].b)
  <2>1. t = Spliced(l, n, q - 1, <<>>)
    BY <1>4, <1>10
  <2>2. q - 1 \in n - 1 .. Len(l)
    BY <1>1, <1>5
  <2>3. /\ Ascends(t)
        /\ \A x : x \in Numbers(t) <=>
              \E i \in 1 .. Len(l) : (i < n \/ i > q - 1) /\ x \in l[i].b .. l[i].e
    BY <2>1, <2>2, DropAscends
  <2>4. ASSUME NEW x PROVE x \in Numbers(t) <=> x \in Numbers(l) /\ x \notin b .. e
    <3>1. ASSUME NEW i \in 1 .. Len(l), i < n \/ i > q - 1, x \in l[i].b .. l[i].e
          PROVE  x \notin b .. e
      <4>1. i \in 1 .. n - 1 \/ i = q \/ i \in q + 1 .. Len(l)
        BY <1>1, <1>5, <3>1
      <4>2. CASE i = q
        <5>1. e < l[q].b
          BY <1>1, <1>2, <1>10, <4>2
        <5> QED
          BY <1>1, <1>2, <3>1, <4>2, <5>1
      <4> QED
        BY <1>7, <1>8, <3>1, <4>1, <4>2
    <3>2. ASSUME x \in Numbers(t) PROVE x \in Numbers(l) /\ x \notin b .. e
      BY <2>3, <3>1, <3>2, InNumbers
    <3>3. ASSUME x \in Numbers(l), x \notin b .. e PROVE x \in Numbers(t)
      <4>1. PICK i \in 1 .. Len(l) : x \in l[i].b .. l[i].e
        BY <3>3, InNumbers
      <4>2. i \notin n .. q - 1
        BY <1>6, <3>3, <4>1
      <4>3. i < n \/ i > q - 1
        BY <1>1, <1>5, <4>2
      <4> QED
        BY <2>3, <4>1, <4>3
    <3> QED
      BY <3>2, <3>3
  <2> QED
    BY <2>3, <2>4 DEF t
<1> QED
  BY <1>9, <1>10 DEF t

\* ipool_subtract_range takes b .. e and nothing else.
LEMMA SubtractedRight ==
    ASSUME NEW l, Ascends(l), NEW b \in Number, NEW e \in Number, b <= e
    PROVE  LET t == Subtracted(l, b, e)
           IN  Ascends(t) /\ Numbers(t) = Numbers(l) \ (b .. e)
<1> DEFINE k == Met(l, b, e)
           t == Subtracted(l, b, e)
<1>1. /\ l \in Seq(Ranges) /\ Len(l) \in Nat
      /\ \A i \in 1 .. Len(l) :
            /\ l[i] \in Ranges /\ l[i].b \in Nat /\ l[i].e \in Nat
            /\ l[i].b <= l[i].e /\ l[i].e < Limit
      /\ \A i, j \in 1 .. Len(l) : i < j => l[i].e + 1 < l[j].b
  BY Listed
<1>2. b \in Nat /\ e \in Nat /\ Limit \in Nat
  BY IpoolAssumption DEF Number
<1>3. /\ k \in 1 .. Len(l) + 1
      /\ k <= Len(l) => /\ l[k].b <= e /\ b <= l[k].e
                        /\ \A i \in 1 .. k - 1 : l[i].e < b
      /\ k > Len(l) => \A i \in 1 .. Len(l) : e < l[i].b \/ l[i].e < b
  BY MetIs
<1>4. Splits(l, b, e) <=> k <= Len(l) /\ b > l[k].b /\ e < l[k].e
  BY DEF Splits
<1>5. t = CASE k > Len(l)  -> l
            [] Splits(l, b, e) -> Added(Cut(l, b, e), e + 1, l[k].e)
            [] k <= Len(l) /\ b <= l[k].b /\ e < l[k].e ->
                  Spliced(l, k, k, <<Range2(e + 1, l[k].e)>>)
            [] k <= Len(l) /\ b > l[k].b /\ e >= l[k].e ->
                  Eaten(Cut(l, b, e), k + 1, e)
            [] OTHER -> Eaten(l, k, e)
  BY DEF Subtracted
<1> HIDE DEF t
<1>6. CASE k > Len(l)
  <2>1. ~(k <= Len(l)) /\ ~Splits(l, b, e)
    BY <1>1, <1>3, <1>4, <1>6
  <2>2. t = l
    BY <1>5, <1>6, <2>1
  <2>3. ASSUME NEW x \in Numbers(l) PROVE x \notin b .. e
    <3>1. PICK i \in 1 .. Len(l) : x \in l[i].b .. l[i].e
      BY InNumbers
    <3> QED
      BY <1>1, <1>2, <1>3, <1>6, <3>1
  <2> QED
    BY <2>2, <2>3 DEF t
<1>7. CASE k <= Len(l)
  <2>1. k \in 1 .. Len(l) /\ ~(k > Len(l)) /\ l[k].b <= e /\ b <= l[k].e
        /\ \A i \in 1 .. k - 1 : l[i].e < b
    BY <1>1, <1>3, <1>7
  <2>2. \A i \in k + 1 .. Len(l) : l[k].e + 1 < l[i].b
    BY <1>1, <2>1
  <2>3. CASE b > l[k].b /\ e < l[k].e
    <3>1. t = Added(Cut(l, b, e), e + 1, l[k].e)
      <4>1. /\ ~(b <= l[k].b) /\ ~(e >= l[k].e)
        BY <1>1, <1>2, <2>1, <2>3
      <4> QED
        BY <1>4, <1>5, <2>1, <2>3, <4>1
    <3> DEFINE c == Cut(l, b, e)
    <3>2. Ascends(c) /\ Numbers(c) = Numbers(l) \ (b .. l[k].e)
      BY <1>7, <2>3, CutRight
    <3> HIDE DEF c
    <3>3. e + 1 \in Number /\ l[k].e \in Number /\ e + 1 <= l[k].e
      BY <1>1, <1>2, <2>1, <2>3 DEF Number
    <3>4. Ascends(t) /\ Numbers(t) = Numbers(c) \cup (e + 1 .. l[k].e)
      BY <3>1, <3>2, <3>3, AddedRight DEF c
    <3>5. ASSUME NEW x PROVE x \in Numbers(t) <=> x \in Numbers(l) /\ x \notin b .. e
      <4>1. x \in e + 1 .. l[k].e => x \in Numbers(l) /\ x \notin b .. e
        <5>1. x \in e + 1 .. l[k].e => x \in l[k].b .. l[k].e /\ x \notin b .. e
          BY <1>1, <1>2, <2>1, <2>3
        <5> QED
          BY <2>1, <5>1, InNumbers
      <4>2. x \notin b .. l[k].e => x \notin b .. e
        BY <1>1, <1>2, <2>1, <2>3
      <4>3. x \in b .. l[k].e => x \in b .. e \/ x \in e + 1 .. l[k].e
        BY <1>1, <1>2, <2>1, <2>3
      <4> QED
        BY <3>2, <3>4, <4>1, <4>2, <4>3
    <3> QED
      BY <3>4, <3>5 DEF t
  <2>4. CASE b <= l[k].b /\ e < l[k].e
    <3> DEFINE r == Range2(e + 1, l[k].e)
    <3>1. t = Spliced(l, k, k, <<r>>)
      <4>1. ~(b > l[k].b)
        BY <1>1, <1>2, <2>1, <2>4
      <4> QED
        BY <1>4, <1>5, <1>7, <2>1, <2>4, <4>1
    <3>2. r \in Ranges /\ r.b = e + 1 /\ r.e = l[k].e /\ r.b <= r.e
      <4>1. e + 1 \in 0 .. Limit - 1 /\ l[k].e \in 0 .. Limit - 1 /\ e + 1 <= l[k].e
        BY <1>1, <1>2, <2>1, <2>4
      <4> QED
        BY <4>1 DEF Ranges, Number, Range2
    <3> HIDE DEF r, k
    <3>3. ASSUME NEW i \in 1 .. k - 1 PROVE l[i].e + 1 < r.b
      <4>1. i \in 1 .. Len(l) /\ l[i].e < b
        BY <1>1, <2>1
      <4> QED
        BY <1>1, <1>2, <3>2, <4>1
    <3>4. \A j \in k + 1 .. Len(l) : r.e + 1 < l[j].b
      BY <2>2, <3>2
    <3>5. k \in 1 .. Len(l) + 1 /\ k \in k - 1 .. Len(l)
      BY <1>1, <2>1
    <3>6. /\ Ascends(t)
          /\ \A x : x \in Numbers(t) <=>
                \/ x \in r.b .. r.e
                \/ \E i \in 1 .. Len(l) : (i < k \/ i > k) /\ x \in l[i].b .. l[i].e
      BY <3>1, <3>2, <3>3, <3>4, <3>5, SpliceAscends
    <3>7. ASSUME NEW x PROVE x \in Numbers(t) <=> x \in Numbers(l) /\ x \notin b .. e
      <4>1. x \in r.b .. r.e <=> x \in l[k].b .. l[k].e /\ x \notin b .. e
        BY <1>1, <1>2, <2>1, <2>4, <3>2
      <4>2. ASSUME NEW i \in 1 .. Len(l), i < k \/ i > k, x \in l[i].b .. l[i].e
            PROVE  x \notin b .. e
        <5>1. l[i].e < b \/ l[k].e + 1 < l[i].b
          BY <1>1, <2>1, <2>2, <4>2
        <5> QED
          BY <1>1, <1>2, <2>1, <2>4, <4>2, <5>1
      <4>3. \A i \in 1 .. Len(l) : i = k \/ i < k \/ i > k
        BY <1>1, <2>1
      <4>4. ASSUME x \in Numbers(t) PROVE x \in Numbers(l) /\ x \notin b .. e
        BY <2>1, <3>6, <4>1, <4>2, <4>4, InNumbers
      <4>5. ASSUME x \in Numbers(l), x \notin b .. e PROVE x \in Numbers(t)
        <5>1. PICK i \in 1 .. Len(l) : x \in l[i].b .. l[i].e
          BY <4>5, InNumbers
        <5> QED
          BY <3>6, <4>1, <4>3, <4>5, <5>1
      <4> QED
        BY <4>4, <4>5
    <3> QED
      BY <3>6, <3>7 DEF t
  <2>5. CASE b > l[k].b /\ e >= l[k].e
    <3> DEFINE c == Cut(l, b, e)
    <3>1. t = Eaten(c, k + 1, e)
      <4>1. /\ ~(b <= l[k].b) /\ ~(e < l[k].e)
        BY <1>1, <1>2, <2>1, <2>5
      <4> QED
        BY <1>4, <1>5, <1>7, <2>1, <2>5, <4>1
    <3>2. /\ Ascends(c) /\ Len(c) = Len(l)
          /\ \A i \in 1 .. Len(l) : i # k => c[i] = l[i]
          /\ c[k].e = b - 1
          /\ Numbers(c) = Numbers(l) \ (b .. l[k].e)
      BY <1>7, <2>5, CutRight
    <3> HIDE DEF c, k
    <3>3. ASSUME NEW i \in 1 .. (k + 1) - 1 PROVE c[i].e < b
      <4>1. CASE i = k
        BY <1>2, <3>2, <4>1
      <4>2. CASE i # k
        <5>1. i \in 1 .. k - 1 /\ i \in 1 .. Len(l)
          BY <1>1, <2>1, <4>2
        <5> QED
          BY <2>1, <3>2, <4>2, <5>1
      <4> QED
        BY <4>1, <4>2
    <3>4. ASSUME NEW i \in k + 1 .. Len(c) PROVE b <= c[i].b
      <4>1. i \in 1 .. Len(l) /\ i # k /\ i \in k + 1 .. Len(l)
        BY <1>1, <2>1, <3>2
      <4>2. c[i] = l[i] /\ l[k].e + 1 < l[i].b
        BY <2>2, <3>2, <4>1
      <4> QED
        BY <1>1, <1>2, <2>1, <4>1, <4>2
    <3>5. k + 1 \in 1 .. Len(c) + 1
      BY <1>1, <2>1, <3>2
    <3>6. Ascends(t) /\ Numbers(t) = Numbers(c) \ (b .. e)
      BY <3>1, <3>2, <3>3, <3>4, <3>5, EatenRight
    <3>7. \A x : x \in b .. l[k].e => x \in b .. e
      BY <1>1, <1>2, <2>1, <2>5
    <3> QED
      BY <3>2, <3>6, <3>7 DEF t
  <2>6. CASE b <= l[k].b /\ e >= l[k].e
    <3>1. t = Eaten(l, k, e)
      <4>1. /\ ~(b > l[k].b) /\ ~(e < l[k].e)
        BY <1>1, <1>2, <2>1, <2>6
      <4> QED
        BY <1>4, <1>5, <2>1, <2>6, <4>1
    <3> HIDE DEF k
    <3>2. ASSUME NEW i \in k .. Len(l) PROVE b <= l[i].b
      <4>1. i = k \/ (i \in k + 1 .. Len(l) /\ i \in 1 .. Len(l))
        BY <1>1, <2>1
      <4> QED
        BY <1>1, <1>2, <2>1, <2>2, <2>6, <4>1
    <3> QED
      BY <1>3, <2>1, <3>1, <3>2, EatenRight DEF t
  <2> QED
    BY <1>1, <1>2, <2>1, <2>3, <2>4, <2>5, <2>6
<1> QED
  BY <1>1, <1>3, <1>6, <1>7

-----------------------------------------------------------------------------
(* ipool_subtract_pool.  The loop is a recursive function; that there is   *)
(* one, and what it holds after k rounds, is shown by the smallest number  *)
(* of rounds for which it would not be so.                                 *)

Round(f, l, r, k) == IF k = 0 THEN l ELSE Subtracted(f[k - 1], r[k].b, r[k].e)

LEMMA RoundsExist ==
    ASSUME NEW l, NEW r, Len(r) \in Nat
    PROVE  \E f : f = [k \in 0 .. Len(r) |-> Round(f, l, r, k)]
<1> DEFINE Has(n) == \E f : f = [k \in 0 .. n |-> Round(f, l, r, k)]
           T == {n \in Nat : ~Has(n)}
<1>1. ASSUME T # {} PROVE FALSE
  <2>1. PICK n \in T : \A y \in T : n <= y
    BY <1>1, SmallestOf
  <2>2. n \in Nat /\ ~Has(n)
    BY <2>1
  <2>3. CASE n = 0
    <3> DEFINE f == [k \in 0 .. 0 |-> l]
    <3>1. f = [k \in 0 .. 0 |-> Round(f, l, r, k)]
      BY DEF Round
    <3> QED
      BY <2>2, <2>3, <3>1
  <2>4. CASE n # 0
    <3>1. n - 1 \in Nat /\ n - 1 \notin T
      BY <2>1, <2>2, <2>4
    <3>2. PICK g : g = [k \in 0 .. n - 1 |-> Round(g, l, r, k)]
      BY <3>1
    <3> DEFINE f == [k \in 0 .. n |-> IF k = n THEN Subtracted(g[n - 1], r[n].b, r[n].e)
                                      ELSE g[k]]
    <3>3. \A k \in 0 .. n - 1 : f[k] = g[k] /\ g[k] = Round(g, l, r, k)
      BY <2>2, <3>2
    <3>4. ASSUME NEW k \in 0 .. n PROVE f[k] = Round(f, l, r, k)
      <4>1. CASE k = n
        <5>1. f[n - 1] = g[n - 1]
          BY <3>1, <3>3
        <5>2. f[k] = Subtracted(g[n - 1], r[n].b, r[n].e)
          BY <2>2, <4>1
        <5> QED
          BY <2>4, <4>1, <5>1, <5>2 DEF Round
      <4>2. CASE k # n /\ k # 0
        <5>1. k \in 0 .. n - 1 /\ k - 1 \in 0 .. n - 1
          BY <2>2, <4>2
        <5>2. f[k] = Round(g, l, r, k) /\ f[k - 1] = g[k - 1]
          BY <3>3, <5>1
        <5> HIDE DEF f
        <5> QED
          BY <4>2, <5>2 DEF Round
      <4>3. CASE k # n /\ k = 0
        <5>1. k \in 0 .. n - 1
          BY <2>2, <4>3
        <5>2. f[k] = Round(g, l, r, k)
          BY <3>3, <5>1
        <5> HIDE DEF f
        <5> QED
          BY <4>3, <5>2 DEF Round
      <4> QED
        BY <4>1, <4>2, <4>3
    <3>5. f = [k \in 0 .. n |-> Round(f, l, r, k)]
      <4>1. f = [k \in 0 .. n |-> f[k]]
        OBVIOUS
      <4> HIDE DEF f
      <4> QED
        BY <3>4, <4>1
    <3> HIDE DEF f
    <3> QED
      BY <2>2, <3>5
  <2> QED
    BY <2>3, <2>4
<1> QED
  BY <1>1

LEMMA WithoutIs ==
    ASSUME NEW l, NEW r, Len(r) \in Nat
    PROVE  /\ Without(l, r)[0] = l
           /\ \A k \in 1 .. Len(r) :
                 Without(l, r)[k] = Subtracted(Without(l, r)[k - 1], r[k].b, r[k].e)
<1> DEFINE f == Without(l, r)
<1>1. f = CHOOSE g : g = [k \in 0 .. Len(r) |->
                            IF k = 0 THEN l ELSE Subtracted(g[k - 1], r[k].b, r[k].e)]
  BY DEF Without
<1>2. \E g : g = [k \in 0 .. Len(r) |->
                    IF k = 0 THEN l ELSE Subtracted(g[k - 1], r[k].b, r[k].e)]
  <2>1. PICK g : g = [k \in 0 .. Len(r) |-> Round(g, l, r, k)]
    BY RoundsExist
  <2>2. g = [k \in 0 .. Len(r) |->
               IF k = 0 THEN l ELSE Subtracted(g[k - 1], r[k].b, r[k].e)]
    BY ONLY <2>1 DEF Round
  <2> QED
    BY ONLY <2>2
<1>3. f = [k \in 0 .. Len(r) |->
             IF k = 0 THEN l ELSE Subtracted(f[k - 1], r[k].b, r[k].e)]
  BY <1>1, <1>2
<1> HIDE DEF f
<1>4. \A k \in 0 .. Len(r) : f[k] = IF k = 0 THEN l ELSE Subtracted(f[k - 1], r[k].b, r[k].e)
  BY <1>3
<1>5. f[0] = l
  BY <1>4
<1>6. \A k \in 1 .. Len(r) : f[k] = Subtracted(f[k - 1], r[k].b, r[k].e)
  BY <1>4
<1> QED
  BY <1>5, <1>6 DEF f

LEMMA PrefixNumbers ==
    ASSUME NEW r \in Seq(Ranges), NEW k \in 0 .. Len(r), NEW x
    PROVE  x \in Numbers(SubSeq(r, 1, k)) <=> \E i \in 1 .. k : x \in r[i].b .. r[i].e
<1> DEFINE s == SubSeq(r, 1, k)
<1>1. Len(r) \in Nat
  BY LenProperties
<1>2. Len(s) = k /\ \A i \in 1 .. k : s[i] = r[i]
  <2>1. \A i \in 1 .. k : r[i] \in Ranges
    BY <1>1, ElementOfSeq
  <2> QED
    BY <1>1, <2>1, SubSeqProperties
<1> HIDE DEF s
<1>3. x \in Numbers(s) <=> \E i \in 1 .. Len(s) : x \in s[i].b .. s[i].e
  BY InNumbers
<1> QED
  BY <1>2, <1>3 DEF s

\* After its first k rounds ipool_subtract_pool has taken the first k ranges of
\* the other pool, and nothing else.
LEMMA WithoutRight ==
    ASSUME NEW l, Ascends(l), NEW r, Ascends(r)
    PROVE  \A k \in 0 .. Len(r) :
              /\ Ascends(Without(l, r)[k])
              /\ Numbers(Without(l, r)[k]) = Numbers(l) \ Numbers(SubSeq(r, 1, k))
<1> DEFINE w == Without(l, r)
           Right(k) == /\ Ascends(w[k])
                       /\ Numbers(w[k]) = Numbers(l) \ Numbers(SubSeq(r, 1, k))
           T == {k \in 0 .. Len(r) : ~Right(k)}
<1>1. /\ r \in Seq(Ranges) /\ Len(r) \in Nat
      /\ \A i \in 1 .. Len(r) : r[i] \in Ranges /\ r[i].b <= r[i].e
  BY Listed
<1>2. /\ w[0] = l
      /\ \A k \in 1 .. Len(r) : w[k] = Subtracted(w[k - 1], r[k].b, r[k].e)
  BY <1>1, WithoutIs
<1> HIDE DEF w
<1>3. ASSUME T # {} PROVE FALSE
  <2>1. T \subseteq Nat
    BY <1>1
  <2>2. PICK n \in T : \A y \in T : n <= y
    BY <1>3, <2>1, SmallestOf
  <2>3. n \in 0 .. Len(r) /\ ~Right(n)
    BY <2>2
  <2>4. CASE n = 0
    <3>1. \A x : x \notin Numbers(SubSeq(r, 1, 0))
      BY <1>1, PrefixNumbers
    <3> QED
      BY <1>2, <2>3, <2>4, <3>1
  <2>5. CASE n # 0
    <3>1. n \in 1 .. Len(r) /\ n - 1 \in 0 .. Len(r) /\ n - 1 \notin T
      BY <1>1, <2>2, <2>3, <2>5
    <3>2. Right(n - 1)
      BY <3>1
    <3>3. r[n].b \in Number /\ r[n].e \in Number /\ r[n].b <= r[n].e
      BY <1>1, <3>1 DEF Ranges
    <3>4. /\ Ascends(w[n])
          /\ Numbers(w[n]) = Numbers(w[n - 1]) \ (r[n].b .. r[n].e)
      BY <1>2, <3>1, <3>2, <3>3, SubtractedRight
    <3>5. ASSUME NEW x
          PROVE  x \in Numbers(SubSeq(r, 1, n)) <=>
                   x \in Numbers(SubSeq(r, 1, n - 1)) \/ x \in r[n].b .. r[n].e
      <4>1. x \in Numbers(SubSeq(r, 1, n)) <=> \E i \in 1 .. n : x \in r[i].b .. r[i].e
        BY <1>1, <2>3, PrefixNumbers
      <4>2. x \in Numbers(SubSeq(r, 1, n - 1)) <=>
              \E i \in 1 .. n - 1 : x \in r[i].b .. r[i].e
        BY <1>1, <3>1, PrefixNumbers
      <4>3. \A i : i \in 1 .. n <=> i \in 1 .. n - 1 \/ i = n
        BY <1>1, <3>1
      <4> QED
        BY <4>1, <4>2, <4>3
    <3>6. Right(n)
      BY <3>2, <3>4, <3>5
    <3> QED
      BY <2>3, <3>6
  <2> QED
    BY <2>4, <2>5
<1>4. \A k \in 0 .. Len(r) : Right(k)
  BY <1>3
<1> QED
  BY <1>4 DEF w

-----------------------------------------------------------------------------
(* The lists ascend, they hold what they should, and the last choice was    *)
(* right.                                                                  *)

IpInv ==
    /\ list = [p \in Pools |-> list[p]]
    /\ \A p \in Pools : Ascends(list[p])
    /\ held = [p \in Pools |-> Numbers(list[p])]
    /\ ChoiceRight

\* A call that writes the list t to a pool and takes account of it.
LEMMA Written ==
    ASSUME IpInv, NEW p \in Pools, NEW t, Ascends(t),
           list' = [list EXCEPT ![p] = t],
           held' = [held EXCEPT ![p] = Numbers(t)],
           ChoiceRight'
    PROVE  IpInv'
<1>1. list' = [q \in Pools |-> IF q = p THEN t ELSE list[q]]
  BY DEF IpInv
<1>2. list' = [q \in Pools |-> list'[q]] /\ list'[p] = t
      /\ \A q \in Pools : q # p => list'[q] = list[q]
  BY <1>1
<1>3. \A q \in Pools : Ascends(list'[q])
  BY <1>2 DEF IpInv
<1>4. held' = [q \in Pools |-> IF q = p THEN Numbers(t) ELSE Numbers(list[q])]
  BY DEF IpInv
<1>5. held' = [q \in Pools |-> Numbers(list'[q])]
  BY <1>2, <1>4
<1> QED
  BY <1>2, <1>3, <1>5 DEF IpInv

LEMMA NothingChosen ==
    ASSUME chosen' = NoChoice
    PROVE  ChoiceRight'
  BY DEF ChoiceRight, NoChoice

\* A block of numbers that are all in a list lies in one of its ranges.
LEMMA BlockInRange ==
    ASSUME NEW l, Ascends(l), NEW b \in Number, NEW num \in Nat, num > 0,
           b .. b + num - 1 \subseteq Numbers(l)
    PROVE  \E i \in 1 .. Len(l) : l[i].b <= b /\ b + num - 1 <= l[i].e
<1>1. /\ Len(l) \in Nat
      /\ \A i \in 1 .. Len(l) :
            l[i].b \in Nat /\ l[i].e \in Nat /\ l[i].b <= l[i].e
      /\ \A i, j \in 1 .. Len(l) : i < j => l[i].e + 1 < l[j].b
  BY Listed
<1>2. b \in Nat
  BY IpoolAssumption DEF Number
<1>3. b \in Numbers(l)
  BY <1>2
<1>4. PICK i \in 1 .. Len(l) : b \in l[i].b .. l[i].e
  BY <1>3, InNumbers
<1>5. ASSUME b + num - 1 > l[i].e PROVE FALSE
  <2>1. l[i].e + 1 \in b .. b + num - 1
    BY <1>1, <1>2, <1>4, <1>5
  <2>2. PICK j \in 1 .. Len(l) : l[i].e + 1 \in l[j].b .. l[j].e
    BY <2>1, InNumbers
  <2>3. l[j].b <= l[i].e + 1 /\ l[i].e + 1 <= l[j].e
    BY <1>1, <2>2
  <2>4. i < j \/ j < i \/ i = j
    BY <1>1
  <2> QED
    BY <1>1, <2>3, <2>4
<1> QED
  BY <1>1, <1>2, <1>4, <1>5

\* A range has as many numbers as it seems, unless it has all there are.
LEMMA FitIs ==
    ASSUME NEW r \in Ranges, r.b <= r.e, NEW num \in Nat, num > 0
    PROVE  Fits(r, num) <=> r.b + num - 1 <= r.e /\ ~(r.b = 0 /\ r.e = Limit - 1)
<1>1. /\ Limit \in Nat /\ Limit > 0 /\ r.b \in 0 .. Limit - 1 /\ r.e \in 0 .. Limit - 1
  BY IpoolAssumption DEF Number, Ranges
<1>2. CASE r.b = 0 /\ r.e = Limit - 1
  <2>1. r.e - r.b + 1 = Limit
    BY <1>1, <1>2
  <2>2. Limit % Limit = 0
    BY <1>1
  <2> QED
    BY <1>2, <2>1, <2>2 DEF Fits, Wrap
<1>3. CASE ~(r.b = 0 /\ r.e = Limit - 1)
  <2>1. r.e - r.b + 1 \in 0 .. Limit - 1
    BY <1>1, <1>3
  <2>2. (r.e - r.b + 1) % Limit = r.e - r.b + 1
    BY <1>1, <2>1
  <2>3. Fits(r, num) <=> r.e - r.b + 1 >= num
    BY <2>2 DEF Fits, Wrap
  <2> QED
    BY <1>1, <1>3, <2>3
<1> QED
  BY <1>2, <1>3

LEMMA ChooseStep ==
    ASSUME IpInv, NEW p \in Pools, NEW num \in Nums, Choose(p, num)
    PROVE  IpInv'
<1> DEFINE l == list[p]
           S == {i \in 1 .. Len(l) : Fits(l[i], num)}
           k == First(l, S)
           b == l[k].b
           e == Wrap(b + num - 1)
<1>1. /\ Ascends(l) /\ num \in Nat /\ held[p] = Numbers(l)
      /\ Limit \in Nat /\ Limit > 0
  BY IpoolAssumption DEF IpInv
<1>2. /\ l \in Seq(Ranges) /\ Len(l) \in Nat
      /\ \A i \in 1 .. Len(l) :
            /\ l[i] \in Ranges /\ l[i].b \in Nat /\ l[i].e \in Nat
            /\ l[i].b <= l[i].e /\ l[i].e < Limit
  BY <1>1, Listed
<1>3. /\ k \in 1 .. Len(l) + 1 /\ (k <= Len(l) => k \in S)
      /\ \A j \in S : k <= j
  <2>1. S \subseteq 1 .. Len(l)
    OBVIOUS
  <2> QED
    BY <1>2, <2>1, FirstIs
<1>4. IF num = 0 \/ k > Len(l)
      THEN /\ chosen' = [pool |-> held[p], num |-> num, found |-> FALSE, out |-> 0]
           /\ UNCHANGED <<list, fails, held>>
      ELSE /\ chosen' = [pool |-> held[p], num |-> num, found |-> TRUE, out |-> b]
           /\ list' = [list EXCEPT ![p] = Subtracted(l, b, e)]
           /\ held' = [held EXCEPT ![p] = held[p] \ (b .. e)]
           /\ UNCHANGED fails
  BY DEF Choose
<1> HIDE DEF k
<1>5. CASE num = 0 \/ k > Len(l)
  <2>1. UNCHANGED <<list, held>> /\ chosen'.pool = Numbers(l)
        /\ chosen'.num = num /\ chosen'.found = FALSE
    BY <1>1, <1>4, <1>5
  <2>2. ASSUME num > 0, Numbers(l) # Number,
               NEW c \in Number, c .. c + num - 1 \subseteq Numbers(l)
        PROVE  FALSE
    <3>1. PICK i \in 1 .. Len(l) : l[i].b <= c /\ c + num - 1 <= l[i].e
      BY <1>1, <2>2, BlockInRange
    <3>2. k > Len(l)
      BY <1>1, <1>5, <2>2
    <3>3. ~Fits(l[i], num)
      BY <1>2, <1>3, <3>1, <3>2
    <3>4. l[i].b + num - 1 <= l[i].e
      BY <1>1, <1>2, <3>1 DEF Number
    <3>5. l[i].b = 0 /\ l[i].e = Limit - 1
      BY <1>1, <1>2, <2>2, <3>1, <3>3, <3>4, FitIs
    <3>6. Number \subseteq Numbers(l)
      BY <3>1, <3>5, InNumbers DEF Number
    <3>7. ASSUME NEW x \in Numbers(l) PROVE x \in Number
      <4>1. PICK j \in 1 .. Len(l) : x \in l[j].b .. l[j].e
        BY <3>7, InNumbers
      <4> QED
        BY <1>1, <1>2, <4>1 DEF Number
    <3> QED
      BY <2>2, <3>6, <3>7
  <2>3. ChoiceRight'
    BY <2>1, <2>2, <1>1 DEF ChoiceRight
  <2> QED
    BY <2>1, <2>3 DEF IpInv
<1>6. CASE ~(num = 0 \/ k > Len(l))
  <2>1. num > 0 /\ k \in 1 .. Len(l) /\ Fits(l[k], num)
    BY <1>1, <1>2, <1>3, <1>6
  <2>2. b \in Nat /\ b + num - 1 \in 0 .. Limit - 1 /\ b + num - 1 <= l[k].e
    BY <1>1, <1>2, <2>1, FitIs
  <2>3. e = b + num - 1
    BY <1>1, <2>2 DEF Wrap
  <2>4. b \in Number /\ e \in Number /\ b <= e
    BY <1>1, <1>2, <2>1, <2>2, <2>3 DEF Number
  <2> DEFINE t == Subtracted(l, b, e)
  <2>5. Ascends(t) /\ Numbers(t) = Numbers(l) \ (b .. e)
    BY <1>1, <2>4, SubtractedRight
  <2>6. b .. b + num - 1 \subseteq Numbers(l)
    <3>1. \A x \in b .. b + num - 1 : x \in b .. l[k].e
      BY <1>1, <1>2, <2>1, <2>2
    <3> QED
      BY <2>1, <3>1, InNumbers
  <2>7. ChoiceRight'
    <3>1. chosen'.found = TRUE /\ chosen'.num = num /\ chosen'.out = b
          /\ chosen'.pool = Numbers(l)
      BY <1>1, <1>4, <1>6
    <3> QED
      BY <2>6, <3>1 DEF ChoiceRight
  <2>8. list' = [list EXCEPT ![p] = t] /\ held' = [held EXCEPT ![p] = Numbers(t)]
    BY <1>1, <1>4, <1>6, <2>5
  <2> HIDE DEF t
  <2> QED
    BY <2>5, <2>7, <2>8, Written
<1> QED
  BY <1>5, <1>6

LEMMA AddStep ==
    ASSUME IpInv, NEW p \in Pools, NEW b \in Number, NEW e \in Number, b <= e,
           AddRange(p, b, e)
    PROVE  IpInv'
<1> DEFINE t == Added(list[p], b, e)
<1>1. Ascends(list[p]) /\ held[p] = Numbers(list[p])
  BY DEF IpInv
<1>2. Ascends(t) /\ Numbers(t) = Numbers(list[p]) \cup (b .. e)
  BY <1>1, AddedRight
<1>3. list' = [list EXCEPT ![p] = t] /\ held' = [held EXCEPT ![p] = Numbers(t)]
  BY <1>1, <1>2 DEF AddRange
<1>4. ChoiceRight'
  BY NothingChosen DEF AddRange
<1> HIDE DEF t
<1> QED
  BY <1>2, <1>3, <1>4, Written

LEMMA SubtractStep ==
    ASSUME IpInv, NEW p \in Pools, NEW b \in Number, NEW e \in Number, b <= e,
           SubtractRange(p, b, e)
    PROVE  IpInv'
<1> DEFINE t == Subtracted(list[p], b, e)
<1>1. Ascends(list[p]) /\ held[p] = Numbers(list[p])
  BY DEF IpInv
<1>2. Ascends(t) /\ Numbers(t) = Numbers(list[p]) \ (b .. e)
  BY <1>1, SubtractedRight
<1>3. list' = [list EXCEPT ![p] = t] /\ held' = [held EXCEPT ![p] = Numbers(t)]
  BY <1>1, <1>2 DEF SubtractRange
<1>4. ChoiceRight'
  BY NothingChosen DEF SubtractRange
<1> HIDE DEF t
<1> QED
  BY <1>2, <1>3, <1>4, Written

\* A range that is split and whose second part is not added.
LEMMA SplitCut ==
    ASSUME NEW l, Ascends(l), NEW b \in Number, NEW e \in Number, b <= e,
           Splits(l, b, e)
    PROVE  /\ Ascends(Cut(l, b, e))
           /\ Numbers(Cut(l, b, e)) = Numbers(l) \ (b .. l[Met(l, b, e)].e)
<1>1. Met(l, b, e) <= Len(l) /\ b > l[Met(l, b, e)].b
  BY DEF Splits
<1> QED
  BY <1>1, CutRight

LEMMA SubtractFailsStep ==
    ASSUME IpInv, NEW p \in Pools, NEW b \in Number, NEW e \in Number, b <= e,
           SubtractFails(p, b, e)
    PROVE  IpInv'
<1> DEFINE t == Cut(list[p], b, e)
<1>1. Ascends(list[p]) /\ held[p] = Numbers(list[p])
  BY DEF IpInv
<1>2. Ascends(t) /\ Numbers(t) = Numbers(list[p]) \ (b .. list[p][Met(list[p], b, e)].e)
  BY <1>1, SplitCut DEF SubtractFails
<1>3. list' = [list EXCEPT ![p] = t] /\ held' = [held EXCEPT ![p] = Numbers(t)]
  BY <1>1, <1>2 DEF SubtractFails
<1>4. ChoiceRight'
  BY NothingChosen DEF SubtractFails
<1> HIDE DEF t
<1> QED
  BY <1>2, <1>3, <1>4, Written

LEMMA SubtractPoolStep ==
    ASSUME IpInv, NEW p \in Pools, NEW s \in Pools, SubtractPool(p, s)
    PROVE  IpInv'
<1> DEFINE n == Len(list[s])
           t == Without(list[p], list[s])[n]
<1>1. /\ Ascends(list[p]) /\ held[p] = Numbers(list[p])
      /\ Ascends(list[s]) /\ held[s] = Numbers(list[s])
  BY DEF IpInv
<1>2. n \in Nat /\ list[s] \in Seq(Ranges)
  BY <1>1, Listed
<1>3. \A x : x \in Numbers(SubSeq(list[s], 1, n)) <=> x \in Numbers(list[s])
  BY <1>2, PrefixNumbers, InNumbers
<1>4. Ascends(t) /\ Numbers(t) = Numbers(list[p]) \ Numbers(SubSeq(list[s], 1, n))
  <2>1. n \in 0 .. Len(list[s])
    BY <1>2
  <2>2. \A k \in 0 .. Len(list[s]) :
          /\ Ascends(Without(list[p], list[s])[k])
          /\ Numbers(Without(list[p], list[s])[k]) =
                Numbers(list[p]) \ Numbers(SubSeq(list[s], 1, k))
    BY <1>1, WithoutRight
  <2> HIDE DEF n
  <2> QED
    BY <2>1, <2>2
<1>5. list' = [list EXCEPT ![p] = t]
      /\ held' = [held EXCEPT ![p] = held[p] \ held[s]]
  BY DEF SubtractPool
<1> HIDE DEF t
<1>6. Numbers(t) = held[p] \ held[s]
  BY <1>1, <1>3, <1>4
<1>7. ChoiceRight'
  BY NothingChosen DEF SubtractPool
<1> QED
  BY <1>4, <1>5, <1>6, <1>7, Written

LEMMA SubtractPoolFailsStep ==
    ASSUME IpInv, NEW p \in Pools, NEW s \in Pools, NEW k \in 1 .. Len(list[s]),
           SubtractPoolFails(p, s, k)
    PROVE  IpInv'
<1> DEFINE l == Without(list[p], list[s])[k - 1]
           b == list[s][k].b
           e == list[s][k].e
           t == Cut(l, b, e)
<1>1. /\ Ascends(list[p]) /\ held[p] = Numbers(list[p])
      /\ Ascends(list[s])
  BY DEF IpInv
<1>2. /\ Len(list[s]) \in Nat
      /\ list[s][k] \in Ranges /\ b <= e
  BY <1>1, Listed
<1>3. b \in Number /\ e \in Number /\ k - 1 \in 0 .. Len(list[s])
  BY <1>2 DEF Ranges
<1>4. /\ Ascends(l)
      /\ Numbers(l) = Numbers(list[p]) \ Numbers(SubSeq(list[s], 1, k - 1))
  BY <1>1, <1>3, WithoutRight
<1>5. /\ Splits(l, b, e)
      /\ list' = [list EXCEPT ![p] = t]
      /\ held' = [held EXCEPT ![p] =
                    (held[p] \ Numbers(SubSeq(list[s], 1, k - 1)))
                       \ (b .. l[Met(l, b, e)].e)]
  BY DEF SubtractPoolFails
<1> HIDE DEF l
<1>6. Ascends(t) /\ Numbers(t) = Numbers(l) \ (b .. l[Met(l, b, e)].e)
  BY <1>2, <1>3, <1>4, <1>5, SplitCut
<1> HIDE DEF t
<1>7. held' = [held EXCEPT ![p] = Numbers(t)]
  BY <1>1, <1>4, <1>5, <1>6
<1>8. ChoiceRight'
  BY NothingChosen DEF SubtractPoolFails
<1> QED
  BY <1>5, <1>6, <1>7, <1>8, Written

LEMMA IpFirst == IpInit => IpInv
<1> SUFFICES ASSUME IpInit PROVE IpInv
  OBVIOUS
<1>1. \A p \in Pools : list[p] = <<>> /\ held[p] = {}
  BY DEF IpInit
<1>2. Ascends(<<>>)
  BY DEF Ascends
<1>3. Numbers(<<>>) = {}
  BY DEF Numbers
<1>4. list = [p \in Pools |-> list[p]] /\ held = [p \in Pools |-> Numbers(list[p])]
  BY <1>1, <1>3 DEF IpInit
<1>5. ChoiceRight
  BY DEF IpInit, ChoiceRight, NoChoice
<1> QED
  BY <1>1, <1>2, <1>4, <1>5 DEF IpInv

LEMMA IpStep == IpInv /\ [IpNext]_ipoolVars => IpInv'
<1> SUFFICES ASSUME IpInv, [IpNext]_ipoolVars PROVE IpInv'
  OBVIOUS
<1>1. CASE UNCHANGED ipoolVars
  BY <1>1 DEF IpInv, ChoiceRight, ipoolVars
<1>2. ASSUME NEW p \in Pools, NEW b \in Number, NEW e \in Number, b <= e,
             AddFails(p, b, e)
      PROVE  IpInv'
  <2>1. ChoiceRight'
    BY <1>2, NothingChosen DEF AddFails
  <2> QED
    BY <1>2, <2>1 DEF IpInv, AddFails
<1>3. CASE IpNext
  <2>1. PICK p \in Pools :
          \/ \E b, e \in Number :
                /\ b <= e
                /\ \/ AddRange(p, b, e)
                   \/ AddFails(p, b, e)
                   \/ SubtractRange(p, b, e)
                   \/ SubtractFails(p, b, e)
          \/ \E s \in Pools :
                \/ SubtractPool(p, s)
                \/ \E k \in 1 .. Len(list[s]) : SubtractPoolFails(p, s, k)
          \/ \E num \in Nums : Choose(p, num)
    BY <1>3 DEF IpNext
  <2>2. CASE \E b, e \in Number :
                /\ b <= e
                /\ \/ AddRange(p, b, e)
                   \/ AddFails(p, b, e)
                   \/ SubtractRange(p, b, e)
                   \/ SubtractFails(p, b, e)
    BY <1>2, <2>2, AddStep, SubtractStep, SubtractFailsStep
  <2>3. CASE \E s \in Pools :
                \/ SubtractPool(p, s)
                \/ \E k \in 1 .. Len(list[s]) : SubtractPoolFails(p, s, k)
    BY <2>3, SubtractPoolStep, SubtractPoolFailsStep
  <2>4. CASE \E num \in Nums : Choose(p, num)
    BY <2>4, ChooseStep
  <2> QED
    BY <2>1, <2>2, <2>3, <2>4
<1> QED
  BY <1>1, <1>3

LEMMA IpMeans == IpInv => IpoolSound
<1> SUFFICES ASSUME IpInv PROVE IpoolSound
  OBVIOUS
<1>1. Exact /\ ChoiceRight
  BY DEF IpInv, Exact
<1>2. ASSUME NEW p \in Pools
      PROVE  /\ \A i \in 1 .. Len(list[p]) :
                   /\ list[p][i].b \in Number /\ list[p][i].e \in Number
                   /\ list[p][i].b <= list[p][i].e
             /\ \A i \in 1 .. Len(list[p]) - 1 : list[p][i].e + 1 < list[p][i + 1].b
  <2>1. Ascends(list[p])
    BY DEF IpInv
  <2>2. /\ Len(list[p]) \in Nat
        /\ \A i \in 1 .. Len(list[p]) :
              list[p][i] \in Ranges /\ list[p][i].b <= list[p][i].e
        /\ \A i, j \in 1 .. Len(list[p]) : i < j => list[p][i].e + 1 < list[p][j].b
    BY <2>1, Listed
  <2>3. \A i \in 1 .. Len(list[p]) - 1 : list[p][i].e + 1 < list[p][i + 1].b
    BY <2>2
  <2> QED
    BY <2>2, <2>3 DEF Ranges
<1>3. Canonical
  BY <1>2 DEF Canonical
<1> QED
  BY <1>1, <1>3 DEF IpoolSound

\* For every width of a number, every set of pools and every sequence of
\* ipool_add_range, ipool_subtract_range, ipool_subtract_pool and ipool_choose,
\* with realloc failing in any of them: the ranges of a pool ascend with a gap
\* between two in a row, they hold exactly what was added and not taken since,
\* and ipool_choose hands out numbers of the pool and finds some if there are.
THEOREM PoolsExact == IpSpec => []IpoolSound
<1>1. IpSpec => []IpInv
  BY IpFirst, IpStep, PTL DEF IpSpec
<1> QED
  BY <1>1, IpMeans, PTL
=============================================================================
