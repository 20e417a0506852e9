------------------------------ MODULE FrMutex ------------------------------
(***************************************************************************)
(* The lock between processes of frlib, lib/base/mutex.c: three System V   *)
(* semaphores, the write lock (1 when free), the check lock (1 while there *)
(* is a writer) and the number of readers.  semop does all the operations  *)
(* of one call or none, and waits until it can; the kernel undoes them     *)
(* when the process terminates, unless MUTEX_F_NOUNDO is given.            *)
(*                                                                         *)
(* Actions that two calls of the kernel make are two steps: semget and     *)
(* SETALL of mutex_create, GETALL and semop of mutex_unlock.  Definitions  *)
(* marked "Variant" are plausible mistakes.                                *)
(***************************************************************************)
EXTENDS Integers, FiniteSets

CONSTANTS
    Proc,       \* the processes
    NoUndo,     \* the ones that give MUTEX_F_NOUNDO
    Careful,    \* the semaphores are set, reset and removed only while no
                \* living process has the lock or is about to
    MaxKills,   \* bound on the number of processes that terminate
    MaxResets   \* bound on the calls of mutex_funlock and mutex_destroy

ASSUME MutexAssumption ==
    /\ IsFiniteSet(Proc) /\ NoUndo \subseteq Proc
    /\ Careful \in BOOLEAN
    /\ MaxKills \in Nat /\ MaxResets \in Nat

Sems == {"w", "chk", "rd"}

Zero == [s \in Sems |-> 0]

\* The semaphores of a free lock.
Free == [w |-> 1, chk |-> 0, rd |-> 0]

VARIABLES
    exists,     \* the semaphores exist
    sem,        \* their values
    undo,       \* what the kernel adds when a process terminates
    pc,         \* where a process is
    timed,      \* it waits with a timeout
    seen,       \* what mutex_unlock has read
    kills, resets,
    \* Not in the code, to state the properties:
    has         \* the lock a process has by the calls it made

vars == <<exists, sem, undo, pc, timed, seen, kills, resets, has>>

Init ==
    /\ exists = FALSE
    /\ sem = Zero
    /\ undo = [p \in Proc |-> Zero]
    /\ pc = [p \in Proc |-> "new"]
    /\ timed = [p \in Proc |-> FALSE]
    /\ seen = [p \in Proc |-> Free]
    /\ kills = 0 /\ resets = 0
    /\ has = [p \in Proc |-> "none"]

Alive == {p \in Proc : pc[p] # "dead"}

Goto(p, l) == pc' = [pc EXCEPT ![p] = l]

\* The other processes neither have the lock nor are in a call that changes
\* it.
Quiet(p) ==
    \A q \in Alive \ {p} : has[q] = "none" /\ pc[q] \in {"new", "idle"}

----------------------------------------------------------------------------
\* semctl SETALL: all values are set, nothing is left to be undone.
SetAll(v) ==
    /\ sem' = v
    /\ undo' = [p \in Proc |-> Zero]

\* semop: every operation of ops that is not 0 is added, and undone later
\* unless p says otherwise.
Semop(p, ops) ==
    /\ sem' = [s \in Sems |-> sem[s] + ops[s]]
    /\ undo' = IF p \in NoUndo THEN undo
               ELSE [undo EXCEPT ![p] = [s \in Sems |-> @[s] - ops[s]]]

\* The semaphores are made, or found, by semget; new ones are 0.
Semget(p) ==
    /\ pc[p] \in {"new", "idle"} /\ has[p] = "none"
    /\ Careful => Quiet(p)
    /\ exists' = TRUE
    /\ sem' = IF exists THEN sem ELSE Zero
    /\ Goto(p, "create")
    /\ UNCHANGED <<undo, timed, seen, kills, resets, has>>

\* ... and set, whoever made them and whoever has the lock: the processes
\* that have it go on believing so.
CreateDone(p) ==
    /\ pc[p] = "create" /\ exists
    /\ SetAll(Free)
    /\ has' = [q \in Proc |-> IF q \in Alive THEN has[q] ELSE "none"]
    /\ Goto(p, "idle")
    /\ UNCHANGED <<exists, timed, seen, kills, resets>>

----------------------------------------------------------------------------
\* mutex_rdlock and mutex_wrlock enter semop, with or without a timeout.
Ask(p, t) ==
    /\ pc[p] = "idle" /\ has[p] = "none"
    /\ Careful => \A q \in Proc : pc[q] # "create"
    /\ timed' = [timed EXCEPT ![p] = t]
    /\ \E l \in {"rdwait", "wrwait"} : Goto(p, l)
    /\ UNCHANGED <<exists, sem, undo, seen, kills, resets, has>>

\* The check lock is 0.
MayRead == sem.chk = 0

\* Variant: the readers are not waited for.
MayWriteOver == sem.w >= 1

\* The write lock is to be had and there are no readers.
MayWrite == sem.w >= 1 /\ sem.rd = 0

\* The wait is over.
Returns(p) ==
    /\ Goto(p, "idle")
    /\ timed' = [timed EXCEPT ![p] = FALSE]

RdLock(p) ==
    /\ pc[p] = "rdwait" /\ exists /\ MayRead
    /\ Semop(p, [w |-> 0, chk |-> 0, rd |-> 1])
    /\ has' = [has EXCEPT ![p] = "rd"]
    /\ Returns(p)
    /\ UNCHANGED <<exists, seen, kills, resets>>

\* Variant: the check lock is set without SEM_UNDO.
WrLockHalf(p) ==
    /\ pc[p] = "wrwait" /\ exists /\ MayWrite
    /\ sem' = [sem EXCEPT !.w = @ - 1, !.chk = @ + 1]
    /\ undo' = IF p \in NoUndo THEN undo ELSE [undo EXCEPT ![p].w = @ + 1]
    /\ has' = [has EXCEPT ![p] = "wr"]
    /\ Returns(p)
    /\ UNCHANGED <<exists, seen, kills, resets>>

WrLock(p) ==
    /\ pc[p] = "wrwait" /\ exists /\ MayWrite
    /\ Semop(p, [w |-> -1, chk |-> 1, rd |-> 0])
    /\ has' = [has EXCEPT ![p] = "wr"]
    /\ Returns(p)
    /\ UNCHANGED <<exists, seen, kills, resets>>

\* RERR_TIMEDOUT: the operations were not possible in time.
TimedOut(p) ==
    /\ timed[p]
    /\ \/ pc[p] = "rdwait" /\ ~MayRead
       \/ pc[p] = "wrwait" /\ ~MayWrite
    /\ Returns(p)
    /\ UNCHANGED <<exists, sem, undo, seen, kills, resets, has>>

----------------------------------------------------------------------------
\* mutex_unlock finds out which lock is held: not by whom.
Look(p) ==
    /\ pc[p] = "idle" /\ has[p] # "none" /\ exists
    /\ seen' = [seen EXCEPT ![p] = sem]
    /\ Goto(p, "unlock")
    /\ UNCHANGED <<exists, sem, undo, timed, kills, resets, has>>

\* The operations that release the lock the values v speak of.
ReleaseOps(v) ==
    IF v.w = 1 /\ v.rd = 0 THEN Zero
    ELSE IF v.rd > 0 THEN [w |-> 0, chk |-> 0, rd |-> -1]
         ELSE [w |-> 1, chk |-> -1, rd |-> 0]

Unlock(p) ==
    LET ops == ReleaseOps(seen[p])
    IN  /\ pc[p] = "unlock"
        /\ IF exists /\ \A s \in Sems : sem[s] + ops[s] >= 0
           THEN Semop(p, ops)
           ELSE UNCHANGED <<sem, undo>>    \* EAGAIN is no error
        /\ has' = [has EXCEPT ![p] = "none"]
        /\ Goto(p, "idle")
        /\ seen' = [seen EXCEPT ![p] = Free]
        /\ UNCHANGED <<exists, timed, kills, resets>>

\* mutex_funlock: all locks of all processes are released.
FUnlock(p) ==
    /\ pc[p] = "idle" /\ has[p] = "none" /\ exists
    /\ resets < MaxResets
    /\ Careful => Quiet(p)
    /\ resets' = resets + 1
    /\ SetAll(Free)
    /\ has' = [q \in Proc |-> "none"]
    /\ UNCHANGED <<exists, pc, timed, seen, kills>>

\* mutex_destroy: who waits gets an error, who comes later too.
Destroy(p) ==
    /\ pc[p] = "idle" /\ has[p] = "none" /\ exists
    /\ resets < MaxResets
    /\ Careful => Quiet(p)
    /\ resets' = resets + 1
    /\ exists' = FALSE
    /\ SetAll(Zero)
    /\ pc' = [q \in Proc |-> IF pc[q] = "dead" THEN "dead" ELSE "new"]
    /\ has' = [q \in Proc |-> "none"]
    /\ timed' = [q \in Proc |-> FALSE]
    /\ seen' = [q \in Proc |-> Free]
    /\ UNCHANGED kills

\* What SEM_UNDO leaves of the semaphores: the kernel stops at 0.
Undone(p) ==
    [s \in Sems |-> IF sem[s] + undo[p][s] < 0 THEN 0 ELSE sem[s] + undo[p][s]]

\* A process terminates, wherever it is.
Kill(p) ==
    /\ pc[p] # "dead" /\ kills < MaxKills
    /\ kills' = kills + 1
    /\ sem' = Undone(p)
    /\ undo' = [undo EXCEPT ![p] = Zero]
    /\ has' = IF p \in NoUndo THEN has ELSE [has EXCEPT ![p] = "none"]
    /\ Goto(p, "dead")
    /\ timed' = [timed EXCEPT ![p] = FALSE]
    /\ seen' = [seen EXCEPT ![p] = Free]
    /\ UNCHANGED <<exists, resets>>

Next ==
    \E p \in Proc :
        \/ Semget(p) \/ CreateDone(p)
        \/ \E t \in BOOLEAN : Ask(p, t)
        \/ RdLock(p) \/ WrLock(p) \/ TimedOut(p)
        \/ Look(p) \/ Unlock(p)
        \/ FUnlock(p) \/ Destroy(p)
        \/ Kill(p)

Spec == Init /\ [][Next]_vars

\* A call that has begun ends, and who has the lock unlocks it some time.
\* The kernel tries the waiting operations in the order of the queue after
\* every change, so one that is possible again and again is done.
FairSpec ==
    /\ Spec
    /\ \A p \in Proc :
          /\ WF_vars(CreateDone(p))
          /\ WF_vars(Look(p)) /\ WF_vars(Unlock(p))
          /\ SF_vars(RdLock(p)) /\ SF_vars(WrLock(p))

----------------------------------------------------------------------------
Readers == {p \in Proc : has[p] = "rd"}

Writers == {p \in Proc : has[p] = "wr"}

\* Several processes may have the read lock, one the write lock, and never
\* some the one and some the other, with processes that terminate anywhere
\* and time out at any time.
Exclusion ==
    /\ Cardinality(Writers) <= 1
    /\ Writers = {} \/ Readers = {}

\* The semaphores count the locks that are held, also while mutex_unlock is
\* between its two steps and after a process that had the lock is gone: so
\* the decision of mutex_unlock, made from the values alone, is the right
\* one, and no lock is lost for good.
Counted ==
    exists /\ (\A p \in Proc : pc[p] # "create") /\ sem # Zero =>
        /\ sem.w = 1 - Cardinality(Writers)
        /\ sem.chk = Cardinality(Writers)
        /\ sem.rd = Cardinality(Readers)

\* Readers and writers exclude each other, and the semaphores count the locks
\* that are held, with processes that terminate anywhere.
LockSound == Exclusion /\ Counted

\* A reader gets its lock unless it times out or dies, or somebody died with
\* a lock that nobody undoes.
ReaderGets ==
    \A p \in Proc :
        pc[p] = "rdwait" ~> pc[p] # "rdwait" \/ (\E q \in Proc : has[q] = "wr" /\ pc[q] = "dead")

\* The writer, too.
WriterGets ==
    \A p \in Proc :
        pc[p] = "wrwait" ~> pc[p] # "wrwait" \/ (\E q \in Proc : has[q] # "none" /\ pc[q] = "dead")
============================================================================
