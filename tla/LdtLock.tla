------------------------------ MODULE LdtLock ------------------------------
(***************************************************************************)
(* tp_lock and tp_unlock, ldt_lock.c: one spinlock that chooses its flavour *)
(* by the context it is called in, and notes the choice in the lock for the *)
(* unlock.  lock2 of a tunnel is one: tp_subflow_report takes it in softirq *)
(* and in process context.                                                 *)
(*                                                                         *)
(* On each CPU a process may be interrupted by a softirq, unless bottom    *)
(* halves are disabled, and both by a hardware interrupt, which runs with  *)
(* interrupts disabled.  Only the innermost context of a CPU runs.         *)
(* Definitions marked "Variant" are plausible mistakes.                    *)
(***************************************************************************)
EXTENDS Integers, FiniteSets

CONSTANTS
    CPUs,
    Users     \* the contexts in which the lock is used

proc == 1     \* the order in which contexts interrupt each other
soft == 2
irq  == 3
Levels == {proc, soft, irq}

ASSUME LockAssumption == Users \subseteq Levels

Nobody == <<>>

VARIABLES
    at,         \* where each context of each CPU stands
    holder,     \* who has taken the spinlock
    ltype,      \* lock->ltype
    irq_flags,  \* lock->irq_flags
    mine,       \* the local variable ltype of tp_unlock
    irqoff,     \* interrupts are disabled, on each CPU
    bhoff       \* how often bottom halves are disabled, on each CPU

vars == <<at, holder, ltype, irq_flags, mine, irqoff, bhoff>>

Places == {"off", "run", "spin", "taken", "held", "unlock"}

\* The innermost context of a CPU.
Runs(c, l) ==
    /\ at[c][l] # "off"
    /\ \A k \in Levels : k > l => at[c][k] = "off"

GoTo(c, l, where) == at' = [at EXCEPT ![c][l] = where]

\* tp_lock_init.
Init ==
    /\ at = [c \in CPUs |-> [l \in Levels |-> IF l = proc THEN "run" ELSE "off"]]
    /\ holder = Nobody /\ ltype = 0 /\ irq_flags = FALSE
    /\ mine = [c \in CPUs |-> [l \in Levels |-> 0]]
    /\ irqoff = [c \in CPUs |-> FALSE]
    /\ bhoff = [c \in CPUs |-> 0]

-----------------------------------------------------------------------------
(* The contexts come and go.                                               *)

Interrupt(c, l) ==
    /\ at[c][l] = "off" /\ \A k \in Levels : k > l => at[c][k] = "off"
    /\ ~irqoff[c]
    /\ l = soft => bhoff[c] = 0
    /\ GoTo(c, l, "run")
    /\ irqoff' = [irqoff EXCEPT ![c] = @ \/ l = irq]
    /\ UNCHANGED <<holder, ltype, irq_flags, mine, bhoff>>

Return(c, l) ==
    /\ l # proc /\ Runs(c, l) /\ at[c][l] = "run"
    /\ GoTo(c, l, "off")
    /\ irqoff' = [irqoff EXCEPT ![c] = @ /\ l # irq]
    /\ UNCHANGED <<holder, ltype, irq_flags, mine, bhoff>>

-----------------------------------------------------------------------------
(* tp_lock.                                                                *)

\* Variant: the flavour is noted before the lock is taken.
LockEarly(c, l) ==
    /\ l \in Users /\ Runs(c, l) /\ at[c][l] = "run"
    /\ GoTo(c, l, "spin")
    /\ bhoff' = [bhoff EXCEPT ![c] = @ + IF l = soft THEN 1 ELSE 0]
    /\ ltype' = CASE l = irq -> 1 [] l = soft -> 2 [] l = proc -> 3
    /\ UNCHANGED <<holder, irq_flags, mine, irqoff>>

\* spin_lock_irqsave, spin_lock_bh or spin_lock: first what is disabled ...
Lock(c, l) ==
    /\ l \in Users /\ Runs(c, l) /\ at[c][l] = "run"
    /\ GoTo(c, l, "spin")
    /\ bhoff' = [bhoff EXCEPT ![c] = @ + IF l = soft THEN 1 ELSE 0]
    /\ UNCHANGED <<holder, ltype, irq_flags, mine, irqoff>>

\* ... then the wait for the lock ...
Spin(c, l) ==
    /\ Runs(c, l) /\ at[c][l] = "spin"
    /\ holder = Nobody
    /\ holder' = <<c, l>>
    /\ GoTo(c, l, "taken")
    /\ UNCHANGED <<ltype, irq_flags, mine, irqoff, bhoff>>

\* Variant: the flavour is noted as a bit.
NoteBit(c, l) ==
    /\ Runs(c, l) /\ at[c][l] = "taken"
    /\ ltype' = CASE l = irq -> 1 [] l = soft -> 2 [] l = proc -> 4
    /\ irq_flags' = IF l = irq THEN irqoff[c] ELSE irq_flags
    /\ GoTo(c, l, "held")
    /\ UNCHANGED <<holder, mine, irqoff, bhoff>>

\* ... and the notes for the unlock.
Note(c, l) ==
    /\ Runs(c, l) /\ at[c][l] = "taken"
    /\ ltype' = CASE l = irq -> 1 [] l = soft -> 2 [] l = proc -> 3
    /\ irq_flags' = IF l = irq THEN irqoff[c] ELSE irq_flags
    /\ GoTo(c, l, "held")
    /\ UNCHANGED <<holder, mine, irqoff, bhoff>>

-----------------------------------------------------------------------------
(* tp_unlock.                                                              *)

Unlock(c, l) ==
    /\ Runs(c, l) /\ at[c][l] = "held"
    /\ mine' = [mine EXCEPT ![c][l] = ltype]
    /\ ltype' = 0
    /\ GoTo(c, l, "unlock")
    /\ UNCHANGED <<holder, irq_flags, irqoff, bhoff>>

\* spin_unlock_irqrestore, spin_unlock_bh or spin_unlock.  Any other ltype
\* is ignored, and the lock stays taken.
Release(c, l) ==
    /\ Runs(c, l) /\ at[c][l] = "unlock"
    /\ holder' = IF mine[c][l] = 0 THEN holder ELSE Nobody
    /\ irqoff' = [irqoff EXCEPT ![c] = IF mine[c][l] = 1 THEN irq_flags ELSE @]
    /\ bhoff' = [bhoff EXCEPT ![c] = @ - IF mine[c][l] = 2 THEN 1 ELSE 0]
    /\ mine' = [mine EXCEPT ![c][l] = 0]
    /\ GoTo(c, l, "run")
    /\ UNCHANGED <<ltype, irq_flags>>

tp_lock(c, l) == Lock(c, l) \/ Spin(c, l) \/ Note(c, l)

tp_unlock(c, l) == Unlock(c, l) \/ Release(c, l)

Next ==
    \E c \in CPUs, l \in Levels :
        Interrupt(c, l) \/ Return(c, l) \/ tp_lock(c, l) \/ tp_unlock(c, l)

Spec == Init /\ [][Next]_vars
-----------------------------------------------------------------------------
(* Properties.                                                             *)

TypeOK ==
    /\ at \in [CPUs -> [Levels -> Places]]
    /\ holder \in {Nobody} \cup (CPUs \X Levels)
    /\ ltype \in 0 .. 3
    /\ irq_flags \in BOOLEAN
    /\ mine \in [CPUs -> [Levels -> 0 .. 3]]
    /\ irqoff \in [CPUs -> BOOLEAN]
    /\ bhoff \in [CPUs -> Int]

Inside(c, l) == at[c][l] \in {"taken", "held", "unlock"}

\* tp_unlock undoes what its own tp_lock did: bottom halves are disabled by
\* the softirqs in the lock, interrupts by the hardware interrupts only.  A
\* flavour noted by somebody else would leave them disabled, or enable them
\* too early.
Restored ==
    \A c \in CPUs :
        /\ bhoff[c] = IF at[c][soft] \in {"off", "run"} THEN 0 ELSE 1
        /\ irqoff[c] = (at[c][irq] # "off")

\* ldt_lock.c:89 on the flavour for softirqs: "not really needed".  No
\* context waits for a lock that the context it has interrupted holds.
NoSelfDeadlock ==
    \A c \in CPUs, l \in Levels :
        at[c][l] = "spin" => \A k \in Levels : k < l => ~Inside(c, k)
=============================================================================
