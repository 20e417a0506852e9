------------------------------ MODULE FrEvpool ------------------------------
(***************************************************************************)
(* The event pool of frlib, lib/event/evpool.c: a fixed number of events   *)
(* that threads acquire and release, and events from malloc when the pool  *)
(* is used up.  The pool is made by the first call of any function.        *)
(* Acquiring is done under a mutex; releasing, and the question whether    *)
(* the pool is there, are not.                                             *)
(*                                                                         *)
(* A pool is named by its number, since evpool_init may make more than     *)
(* one; an event is a pair of its pool, or 0 for malloc, and its position. *)
(* Definitions marked "Variant" are plausible mistakes.                    *)
(***************************************************************************)
EXTENDS Integers

CONSTANTS
    Thread,     \* the threads
    EvLen,      \* evpoollen
    MaxMalloc,  \* bound: the events from malloc at one time
    Grow,       \* c_qgrow
    InitFirst   \* evpool_init is called before there are threads

ASSUME EvpoolAssumption ==
    /\ EvLen \in Nat \ {0} /\ MaxMalloc \in Nat
    /\ {Grow, InitFirst} \subseteq BOOLEAN

VARIABLES
    evpoolinit,
    evpool,     \* the number of the pool evpool points to, or 0 for NULL
    pools,      \* how many pools were made
    used,       \* the events whose flag used is set
    heap,       \* the events from malloc that are not freed
    mutex,      \* the thread that holds the mutex, or none
    pc,         \* where each thread is
    mine,       \* the events a thread has acquired and not yet released
    ev,         \* the event a thread is releasing
    corrupt     \* memory was freed that does not come from malloc, or NULL
                \* was followed: the end of the model

vars == <<evpoolinit, evpool, pools, used, heap, mutex, pc, mine, ev, corrupt>>

None == <<0, 0>>

Slot(p) == {p} \X (1 .. EvLen)

Init ==
    /\ evpoolinit = InitFirst
    /\ pools = IF InitFirst THEN 1 ELSE 0
    /\ evpool = pools
    /\ used = {} /\ heap = {}
    /\ mutex = "none"
    /\ pc = [t \in Thread |-> "idle"]
    /\ mine = [t \in Thread |-> {}]
    /\ ev = [t \in Thread |-> None]
    /\ corrupt = FALSE

Go(t, l) == pc' = [pc EXCEPT ![t] = l]

----------------------------------------------------------------------------
\* evpool_acquire looks at evpoolinit.
Acquire(t) ==
    /\ pc[t] = "idle"
    /\ Go(t, IF evpoolinit THEN "lock" ELSE "initlock")
    /\ UNCHANGED <<evpoolinit, evpool, pools, used, heap, mutex, mine, ev, corrupt>>

\* evpool_init has found no pool and waits for the mutex.
InitLock(t) ==
    /\ pc[t] = "initlock" /\ mutex = "none"
    /\ mutex' = t
    /\ Go(t, "make")
    /\ UNCHANGED <<evpoolinit, evpool, pools, used, heap, mine, ev, corrupt>>

\* evpool_init makes the pool and lets go of the mutex, or there is no memory
\* and the caller returns RERR_NOTINIT.
Make(t) ==
    /\ pc[t] = "make"
    /\ mutex' = "none"
    /\ \/ /\ pools' = pools + 1
          /\ evpool' = pools'
          /\ Go(t, "made")
       \/ /\ evpool' = 0
          /\ Go(t, "idle")
          /\ UNCHANGED pools
    /\ UNCHANGED <<evpoolinit, used, heap, mine, ev, corrupt>>

\* evpool_init has let go of the mutex and says that the pool is there.
Made(t) ==
    /\ pc[t] = "made"
    /\ evpoolinit' = TRUE
    /\ Go(t, "lock")
    /\ UNCHANGED <<evpool, pools, used, heap, mutex, mine, ev, corrupt>>

\* evpool_acquire: the mutex.
Lock(t) ==
    /\ pc[t] = "lock" /\ mutex = "none"
    /\ mutex' = t
    /\ Go(t, "search")
    /\ UNCHANGED <<evpoolinit, evpool, pools, used, heap, mine, ev, corrupt>>

Free == Slot(evpool) \ used

\* evpool_acquire: the first unused event is taken, or none is found.
Search(t) ==
    /\ pc[t] = "search" /\ evpool # 0
    /\ mutex' = "none"
    /\ \/ \E e \in Free :
            /\ \A f \in Free : e[2] <= f[2]
            /\ used' = used \cup {e}
            /\ mine' = [mine EXCEPT ![t] = @ \cup {e}]
            /\ Go(t, "idle")
       \/ /\ Free = {}
          /\ Go(t, IF Grow THEN "malloc" ELSE "idle")
          /\ UNCHANGED <<used, mine>>
    /\ UNCHANGED <<evpoolinit, evpool, pools, heap, ev, corrupt>>

\* evpool_acquire: evpoollen is set, and evpool is NULL.
SearchNull(t) ==
    /\ pc[t] = "search" /\ evpool = 0
    /\ corrupt' = TRUE
    /\ UNCHANGED <<evpoolinit, evpool, pools, used, heap, mutex, pc, mine, ev>>

\* evpool_acquire: an event from malloc, or RERR_NOMEM.
Malloc(t) ==
    /\ pc[t] = "malloc"
    /\ Go(t, "idle")
    /\ \/ \E i \in 1 .. MaxMalloc :
            /\ <<0, i>> \notin heap
            /\ \A j \in 1 .. i - 1 : <<0, j>> \in heap
            /\ heap' = heap \cup {<<0, i>>}
            /\ mine' = [mine EXCEPT ![t] = @ \cup {<<0, i>>}]
       \/ UNCHANGED <<heap, mine>>
    /\ UNCHANGED <<evpoolinit, evpool, pools, used, mutex, ev, corrupt>>

\* Another thread gets an event a thread has acquired: eddi hands events from
\* one thread to the next.
Pass(t, u, e) ==
    /\ pc[t] = "idle" /\ e \in mine[t] /\ t # u
    /\ mine' = [mine EXCEPT ![t] = @ \ {e}, ![u] = @ \cup {e}]
    /\ UNCHANGED <<evpoolinit, evpool, pools, used, heap, mutex, pc, ev, corrupt>>

\* Variant: the first event is taken to be outside of the pool.
InPoolBehind(e) == e[1] = evpool /\ e[2] > 1

\* evpool_release, evpool_isin: the event lies in the pool.
InPool(e) == evpool # 0 /\ e[1] = evpool

\* evpool_release: an event of the pool is cleared, another is freed.
Release(t, e) ==
    /\ pc[t] = "idle" /\ e \in mine[t] /\ evpoolinit
    /\ mine' = [mine EXCEPT ![t] = @ \ {e}]
    /\ IF InPool(e)
       THEN /\ ev' = [ev EXCEPT ![t] = e]
            /\ Go(t, "clear")
            /\ UNCHANGED <<heap, corrupt>>
       ELSE /\ heap' = heap \ {e}
            /\ corrupt' = (corrupt \/ e \notin heap)
            /\ UNCHANGED <<pc, ev>>
    /\ UNCHANGED <<evpoolinit, evpool, pools, used, mutex>>

\* Variant: the flag is reset before the event is cleared.
ClearLate(t) ==
    \/ /\ pc[t] = "clear"
       /\ used' = used \ {ev[t]}
       /\ Go(t, "unused")
       /\ UNCHANGED <<evpoolinit, evpool, pools, heap, mutex, mine, ev, corrupt>>
    \/ /\ pc[t] = "unused"
       /\ ev' = [ev EXCEPT ![t] = None]
       /\ Go(t, "idle")
       /\ UNCHANGED <<evpoolinit, evpool, pools, used, heap, mutex, mine, corrupt>>

\* Variant: the flag is not reset.
ClearKeep(t) ==
    /\ pc[t] = "clear"
    /\ ev' = [ev EXCEPT ![t] = None]
    /\ Go(t, "idle")
    /\ UNCHANGED <<evpoolinit, evpool, pools, used, heap, mutex, mine, corrupt>>

\* evpool_release, without the mutex: ev_clear, then the flag is reset.
Clear(t) ==
    \/ /\ pc[t] = "clear"
       /\ Go(t, "unused")
       /\ UNCHANGED <<evpoolinit, evpool, pools, used, heap, mutex, mine, ev, corrupt>>
    \/ /\ pc[t] = "unused"
       /\ used' = used \ {ev[t]}
       /\ ev' = [ev EXCEPT ![t] = None]
       /\ Go(t, "idle")
       /\ UNCHANGED <<evpoolinit, evpool, pools, heap, mutex, mine, corrupt>>

Next ==
    /\ ~corrupt
    /\ \E t \in Thread :
        \/ Acquire(t) \/ InitLock(t) \/ Make(t) \/ Made(t)
        \/ Lock(t) \/ Search(t) \/ SearchNull(t) \/ Malloc(t)
        \/ \E e \in mine[t] : Release(t, e) \/ \E u \in Thread : Pass(t, u, e)
        \/ Clear(t)

Spec == Init /\ [][Next]_vars

----------------------------------------------------------------------------
\* An event has one user: no two threads hold the same event, and nobody
\* holds one that another thread is clearing in evpool_release.
OneUser ==
    \A t, u \in Thread : t # u =>
      /\ mine[t] \cap mine[u] = {}
      /\ ev[t] \notin mine[u]
      /\ ev[t] # None => ev[t] # ev[u]

\* No event gets lost: one that is marked used is held or being released, and
\* one from malloc that is not freed is held.
NoneLost ==
    LET held == (UNION {mine[t] : t \in Thread}) \cup {ev[t] : t \in Thread}
    IN  corrupt \/ used \cup heap \subseteq held

\* "need to be freed" (evpool_release): what is given to free came from
\* malloc; and evpool_acquire searches a pool that is there.
FreeRight == ~corrupt

\* No event gets lost, and as long as the pool that was made first is the one
\* in use, evpool_release frees only what came from malloc and evpool_acquire
\* searches a pool that is there.  A second pool, or a second attempt to make
\* one, takes that away: evpool_init looks before it has the mutex.
EvpoolSound == NoneLost /\ (evpool = 1 => FreeRight)
=============================================================================
