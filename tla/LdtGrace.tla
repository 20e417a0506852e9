------------------------------ MODULE LdtGrace ------------------------------
(***************************************************************************)
(* The minute during which packets are still queued after the connection   *)
(* of a tunnel was lost, ldt_mpdccp.c: mpdccptun_check_enqueue compares    *)
(* jiffies, an unsigned counter that wraps around, with last_unconnect.    *)
(* (LdtXmit has the two outcomes of the comparison, this module its        *)
(* arithmetic.)  The kernel starts the counter five minutes before it      *)
(* wraps.  Definitions marked "Variant" are plausible mistakes.            *)
(***************************************************************************)
EXTENDS Integers

CONSTANTS
    Width,      \* the counter counts modulo Width
    Boot,       \* its first value
    Minute,     \* 60*HZ
    MaxTicks    \* bound: how long the model runs

GraceAssumption ==
    /\ Width \in Nat /\ Minute \in Nat /\ MaxTicks \in Nat
    /\ Minute < Width /\ Boot \in 0 .. Width - 1

VARIABLES
    jiffies,
    last_unconnect,
    isconnected, wasconnected,
    \* Not in the code, to state the properties:
    ticks,      \* the time since the start
    told,       \* when a loss was reported last, Never if it never was
    turns,      \* how often the counter has wrapped around since then
    lost        \* when the connection was lost, reported or not

graceVars == <<jiffies, last_unconnect, isconnected, wasconnected, ticks, told, turns,
               lost>>

Never == -1

GraceInit ==
    /\ jiffies = Boot /\ last_unconnect = 0
    /\ isconnected = FALSE /\ wasconnected = FALSE
    /\ ticks = 0 /\ told = Never /\ turns = 0 /\ lost = 0

Tick ==
    /\ ticks < MaxTicks
    /\ ticks' = ticks + 1
    /\ jiffies' = (jiffies + 1) % Width
    /\ turns' = IF jiffies + 1 = Width THEN turns + 1 ELSE turns
    /\ UNCHANGED <<last_unconnect, isconnected, wasconnected, told, lost>>

\* mpdccptun_elab_connect and mpdccptun_elab_accept
Connected ==
    /\ isconnected' = TRUE /\ wasconnected' = TRUE
    /\ UNCHANGED <<jiffies, last_unconnect, ticks, told, turns, lost>>

LostNow == lost' = IF isconnected THEN ticks ELSE lost

\* Variant: the time is noted at the first report only.
mpdccptun_linkdown_once ==
    /\ last_unconnect' = IF isconnected THEN jiffies ELSE last_unconnect
    /\ isconnected' = FALSE
    /\ told' = ticks /\ turns' = 0 /\ LostNow
    /\ UNCHANGED <<jiffies, wasconnected, ticks>>

\* mpdccptun_linkdown of a client (that of a server only closes the connection
\* that is active).  It may be called again on a tunnel that is down.
mpdccptun_linkdown ==
    /\ last_unconnect' = jiffies
    /\ isconnected' = FALSE
    /\ told' = ticks /\ turns' = 0 /\ LostNow
    /\ UNCHANGED <<jiffies, wasconnected, ticks>>

\* mpdccptun_closesk and mpdccptun_close_listen: the socket is replaced.
mpdccptun_closesk ==
    /\ isconnected' = FALSE
    /\ LostNow
    /\ UNCHANGED <<jiffies, last_unconnect, wasconnected, ticks, told, turns>>

GraceNext == Tick \/ Connected \/ mpdccptun_linkdown \/ mpdccptun_closesk

GraceSpec == GraceInit /\ [][GraceNext]_graceVars

\* Variant: the limit is one tick late.
MayEnqueueLate ==
    /\ wasconnected
    /\ isconnected \/ ~(jiffies > (last_unconnect + Minute + 1) % Width)

\* The first tests of mpdccptun_check_enqueue, for a packet of the user's.
MayEnqueue ==
    /\ wasconnected
    /\ isconnected \/ ~(jiffies > (last_unconnect + Minute) % Width)
-----------------------------------------------------------------------------

\* Less than a minute has passed since the last report.
InGrace == ticks - told <= Minute

\* How often the counter wraps around in the minute after the last report.
WrapsInMinute == IF last_unconnect + Minute < Width THEN 0 ELSE 1

\* A tunnel that lost its connection queues packets for a minute after the last
\* report of the loss, whatever socket it lost before and how often it was told,
\* and refuses them afterwards.  The comparison of mpdccptun_check_enqueue knows
\* nothing of the wrap of the counter, and this is what remains of the minute: it
\* is exact from the wrap on if the counter wraps in it and up to the next wrap
\* if not; in a minute with a wrap packets are refused until the wrap.
GraceAfterDown ==
    wasconnected /\ ~isconnected /\ told # Never =>
        /\ turns = WrapsInMinute => (MayEnqueue <=> InGrace)
        /\ turns < WrapsInMinute => InGrace /\ ~MayEnqueue

\* ldt_mpdccp.c:1096 on a tunnel that was connected and is not: "we allow for
\* enqueuing for up to 1 minute".
GraceTrue == wasconnected /\ ~isconnected => (MayEnqueue <=> ticks - lost <= Minute)
=============================================================================
