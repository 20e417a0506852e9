------------------------------ MODULE LdtXmit ------------------------------
(***************************************************************************)
(* The transmit path of a (mp-)dccp tunnel, ldt_mpdccp.c.                  *)
(*                                                                         *)
(* The network stack calls ldt_mpdccptun_xmit with one buffer at a time    *)
(* (the device has one transmit queue and holds its lock), which links the *)
(* buffer into xmit_queue and queues the work item work_xmit.  Two work    *)
(* items run the same function do_xmit_handler: work_xmit, and             *)
(* work_xmit_delayed, which the handler arms for one second later when the *)
(* socket refuses a buffer.  has_delayed_work tells the producer that the  *)
(* delayed item will empty the queue.  It is one bit of a byte of bitfield *)
(* members; the connection side of the tunnel writes the others.           *)
(*                                                                         *)
(* A work item never runs twice at once, but the two items may run at the  *)
(* same time: on two CPUs (Smp), or on one when the first sleeps in        *)
(* kernel_sendmsg.                                                         *)
(*                                                                         *)
(* Definitions marked "Variant" are plausible mistakes, see TpQueue.       *)
(***************************************************************************)
EXTENDS TpQueue, FiniteSets

CONSTANTS
    MaxSkb,      \* bound: how many buffers the stack hands over
    InitLen,     \* the limit tpq_init is given (1000 in the code)
    Burst,       \* the 5 of "if (++cnt > 5) break"
    QLens,       \* the lengths setqueue and dobind may set
    Policies,    \* the policies setqueue may set
    Events,      \* the connection contexts that write to the bitfield
    Smp          \* more than one CPU, or preemption

\* The two work items.
work_xmit         == "work_xmit"
work_xmit_delayed == "work_xmit_delayed"
Works             == {work_xmit, work_xmit_delayed}

ASSUME XmitAssumption ==
    /\ MaxSkb \in Nat
    /\ InitLen \in Int
    /\ Burst \in Nat
    /\ QLens \subseteq Int
    /\ Policies \subseteq QueuePolicy
    /\ Events \subseteq {"connect", "linkdown", "closesk", "report"}
    /\ Smp \in BOOLEAN

\* A local variable of the code that is not used any more is NoSkb.
VARIABLES
    queue,       \* xmit_queue.queue
    q_maxlen,    \* xmit_queue.q_maxlen
    policy,      \* xmit_queue.policy
    flags,       \* the byte isconnected, wasconnected, has_delayed_work
    grace,       \* less than 60 seconds have passed since last_unconnect
    pending,     \* which work items are queued, or waiting for their timer
    pc,          \* where each work item stands in do_xmit_handler
    skb,         \* its variable skb
    cnt,         \* its variable cnt
    evpc,        \* where each connection context stands in its update
    reg,         \* the byte a context has read and is about to write back
    ppc,         \* where the producer stands in mpdccptun_do_enqueue
    pskb,        \* the buffer it was called with
    oskb,        \* the oldest buffer, seen by tpq_drop_oldest_enqueue
    next,        \* the number of the next buffer
    gone,        \* the buffers that were freed or sent
    oops,        \* the kernel followed a pointer of an unlinked buffer
    \* Not in the code, to state the properties:
    lastsent,    \* the buffer that was sent last
    highmax,     \* the largest q_maxlen so far
    overlap      \* both work items have had a buffer in hand at once

vars == <<queue, q_maxlen, policy, flags, grace, pending, pc, skb, cnt, evpc,
          reg, ppc, pskb, oskb, next, gone, oops, lastsent, highmax, overlap>>

prodVars == <<ppc, pskb, oskb, next>>
workVars == <<pending, pc, skb, cnt>>
confVars == <<q_maxlen, policy, highmax>>
flagVars == <<flags, reg>>
connVars == <<grace, evpc>>
histVars == <<lastsent, overlap>>

Byte == [isconnected : BOOLEAN, wasconnected : BOOLEAN,
         has_delayed_work : BOOLEAN]

Contexts == Works \cup Events

ProdStates == {"idle", "enqueue", "peek", "unlink", "link", "test", "schedule"}

WorkStates == {"idle", "clearload", "clear", "peek", "unlink", "send",
               "requeue", "setload", "set", "arm", "again"}

\* A work item that has taken a buffer off the queue and answers for it.
Holds(w) == pc[w] \in {"send", "requeue"}

Held(w) == IF Holds(w) THEN 1 ELSE 0

\* A work item that has at least seen the buffer it is going to take.
InHand(w) == pc[w] = "unlink" \/ Holds(w)

\* The producer answers for the buffer it was called with until it is linked.
ProducerHolds == ppc \in {"enqueue", "peek", "unlink", "link"}

-----------------------------------------------------------------------------
(* Scheduling.  On one CPU without preemption a work item runs while the   *)
(* other is not running or sleeps in kernel_sendmsg, and while the         *)
(* producer, which disables bottom halves, is not inside the enqueue.  The *)
(* producer itself may interrupt a work item anywhere: packets are also    *)
(* forwarded from softirq context.  After an oops nothing runs any more.   *)

Runs(w) ==
    /\ ~oops
    /\ Smp \/ (ppc = "idle" /\ \A v \in Works \ {w} : pc[v] \in {"idle", "send"})

At(where) == ~oops /\ ppc = where

\* An update of a bitfield member reads the byte and writes it back.  With
\* more than one CPU other writes may come between the two, and are lost; on
\* one CPU the update is a single instruction.
Load(c) == reg' = IF Smp THEN [reg EXCEPT ![c] = flags] ELSE reg

Current(c) == IF Smp THEN reg[c] ELSE flags

\* queue_work: nothing happens when the item is queued already.
queue_work(w) == pending' = [pending EXCEPT ![w] = TRUE]

GoTo(w, where) == pc' = [pc EXCEPT ![w] = where]

-----------------------------------------------------------------------------
(* The producer: ldt_mpdccptun_xmit, mpdccptun_do_enqueue.                 *)

\* mpdccptun_check_enqueue.  Up to a minute after the connection went down
\* buffers are still queued, those of the tunnel's own protocol are not.
mpdccptun_check_enqueue(prot1) ==
    IF \/ ~flags.wasconnected
       \/ (~flags.isconnected /\ (~grace \/ prot1))
    THEN "ENOTCONN"
    ELSE IF tpq_isfull(queue, q_maxlen, policy)
         THEN IF flags.isconnected THEN "EAGAIN" ELSE "ENOTCONN"
         ELSE IF /\ ~flags.isconnected
                 /\ policy = TP_QUEUE_INF
                 /\ Len(queue) >= 10000
              THEN "ENOTCONN"
              ELSE "OK"

\* The buffer is refused by the check, or lost for another reason (no memory
\* for the headroom, its time to live expired): it is freed.  A full queue
\* of TP_QUEUE_LIMIT leaves it with the stack instead (NETDEV_TX_BUSY).
XmitDrop(prot1) ==
    /\ At("idle") /\ next <= MaxSkb
    /\ mpdccptun_check_enqueue(prot1) # "EAGAIN"
    /\ gone' = gone \cup {next}
    /\ next' = next + 1
    /\ UNCHANGED <<queue, ppc, pskb, oskb, oops>>
    /\ UNCHANGED <<confVars, flagVars, connVars, workVars, histVars>>

\* The buffer is accepted and prepared.
XmitAccept(prot1) ==
    /\ At("idle") /\ next <= MaxSkb
    /\ mpdccptun_check_enqueue(prot1) = "OK"
    /\ pskb' = next
    /\ next' = next + 1
    /\ ppc' = "enqueue"
    /\ UNCHANGED <<queue, oskb, gone, oops>>
    /\ UNCHANGED <<confVars, flagVars, connVars, workVars, histVars>>

\* Variant: the newest buffer is refused but not freed.
XmitEnqueueLeak ==
    /\ At("enqueue")
    /\ ppc' = CASE tpq_enqueue(queue, q_maxlen, policy) = "link" -> "link"
                [] tpq_enqueue(queue, q_maxlen, policy) = "dropoldest" -> "peek"
                [] tpq_enqueue(queue, q_maxlen, policy) = "dropnewest" -> "test"
    /\ UNCHANGED <<queue, pskb, oskb, next, gone, oops>>
    /\ UNCHANGED <<confVars, flagVars, connVars, workVars, histVars>>

\* tpq_enqueue up to its decision.
XmitEnqueue ==
    /\ At("enqueue")
    /\ \/ /\ tpq_enqueue(queue, q_maxlen, policy) = "link"
          /\ ppc' = "link" /\ UNCHANGED <<pskb, gone>>
       \/ /\ tpq_enqueue(queue, q_maxlen, policy) = "dropoldest"
          /\ ppc' = "peek" /\ UNCHANGED <<pskb, gone>>
       \/ /\ tpq_enqueue(queue, q_maxlen, policy) = "dropnewest"
          /\ ppc' = "test" /\ pskb' = NoSkb /\ gone' = gone \cup {pskb}
    /\ UNCHANGED <<queue, oskb, next, oops>>
    /\ UNCHANGED <<confVars, flagVars, connVars, workVars, histVars>>

\* tpq_drop_oldest_enqueue looks at the oldest buffer ...
XmitPeekOldest ==
    /\ At("peek")
    /\ oskb' = tpq_dequeue(queue)
    /\ ppc' = IF oskb' = NoSkb THEN "link" ELSE "unlink"
    /\ UNCHANGED <<queue, pskb, next, gone, oops>>
    /\ UNCHANGED <<confVars, flagVars, connVars, workVars, histVars>>

\* ... takes it out and frees it.  A work item may have been faster.
XmitUnlinkOldest ==
    /\ At("unlink")
    /\ \/ /\ Linked(queue, oskb)
          /\ queue' = skb_unlink(queue, oskb)
          /\ gone' = gone \cup {oskb}
          /\ oskb' = NoSkb
          /\ ppc' = "link"
          /\ UNCHANGED oops
       \/ /\ ~Linked(queue, oskb)
          /\ oops' = TRUE
          /\ UNCHANGED <<queue, gone, ppc, oskb>>
    /\ UNCHANGED <<pskb, next>>
    /\ UNCHANGED <<confVars, flagVars, connVars, workVars, histVars>>

XmitLink ==
    /\ At("link")
    /\ queue' = skb_queue_head(queue, pskb)
    /\ pskb' = NoSkb
    /\ ppc' = "test"
    /\ UNCHANGED <<oskb, next, gone, oops>>
    /\ UNCHANGED <<confVars, flagVars, connVars, workVars, histVars>>

\* "do not schedule if we have delayed work"
XmitTest ==
    /\ At("test")
    /\ ppc' = IF flags.has_delayed_work THEN "idle" ELSE "schedule"
    /\ UNCHANGED <<queue, pskb, oskb, next, gone, oops>>
    /\ UNCHANGED <<confVars, flagVars, connVars, workVars, histVars>>

XmitSchedule ==
    /\ At("schedule")
    /\ queue_work(work_xmit)
    /\ ppc' = "idle"
    /\ UNCHANGED <<queue, pskb, oskb, next, gone, oops, pc, skb, cnt>>
    /\ UNCHANGED <<confVars, flagVars, connVars, histVars>>

-----------------------------------------------------------------------------
(* The work items: xmit_handler and xmit_handler_delayed, both of which    *)
(* call do_xmit_handler.                                                   *)

\* The workqueue clears the pending mark and calls the handler.
Start(w) ==
    /\ pending[w] /\ pc[w] = "idle" /\ Runs(w)
    /\ pending' = [pending EXCEPT ![w] = FALSE]
    /\ cnt' = [cnt EXCEPT ![w] = 0]
    /\ GoTo(w, "clearload")
    /\ UNCHANGED <<queue, skb, gone, oops>>
    /\ UNCHANGED <<prodVars, confVars, flagVars, connVars, histVars>>

\* has_delayed_work = 0, a read and a write of the byte.
ClearLoad(w) ==
    /\ pc[w] = "clearload" /\ Runs(w)
    /\ Load(w)
    /\ GoTo(w, "clear")
    /\ UNCHANGED <<queue, flags, pending, skb, cnt, gone, oops>>
    /\ UNCHANGED <<prodVars, confVars, connVars, histVars>>

\* Variant: has_delayed_work is left set.
ClearForgotten(w) ==
    /\ pc[w] = "clear" /\ Runs(w)
    /\ GoTo(w, "peek")
    /\ UNCHANGED <<queue, flags, reg, pending, skb, cnt, gone, oops>>
    /\ UNCHANGED <<prodVars, confVars, connVars, histVars>>

Clear(w) ==
    /\ pc[w] = "clear" /\ Runs(w)
    /\ flags' = [Current(w) EXCEPT !.has_delayed_work = FALSE]
    /\ GoTo(w, "peek")
    /\ UNCHANGED <<queue, reg, pending, skb, cnt, gone, oops>>
    /\ UNCHANGED <<prodVars, confVars, connVars, histVars>>

\* mpdccptun_elab_xmit: the first half of the dequeue; an empty queue ends
\* the run.
Peek(w) ==
    /\ pc[w] = "peek" /\ Runs(w)
    /\ skb' = [skb EXCEPT ![w] = tpq_dequeue(queue)]
    /\ GoTo(w, IF skb'[w] = NoSkb THEN "idle" ELSE "unlink")
    /\ overlap' = (overlap \/ (skb'[w] # NoSkb /\ \E v \in Works \ {w} : InHand(v)))
    /\ UNCHANGED <<queue, pending, cnt, gone, oops, lastsent>>
    /\ UNCHANGED <<prodVars, confVars, flagVars, connVars>>

\* The second half.  The other work item, or the producer making room, may
\* have taken the same buffer in between.
Unlink(w) ==
    /\ pc[w] = "unlink" /\ Runs(w)
    /\ \/ /\ Linked(queue, skb[w])
          /\ queue' = skb_unlink(queue, skb[w])
          /\ GoTo(w, "send")
          /\ UNCHANGED oops
       \/ /\ ~Linked(queue, skb[w])
          /\ oops' = TRUE
          /\ UNCHANGED <<queue, pc>>
    /\ UNCHANGED <<pending, skb, cnt, gone>>
    /\ UNCHANGED <<prodVars, confVars, flagVars, connVars, histVars>>

\* mpdccptun_elab_xmit2 down to kernel_sendmsg: the buffer is sent, and the
\* loop goes on unless it has sent enough. `gone' means out of the tunnel's
\* hands: the code frees the buffer only when kernel_sendmsg returned 0.
SendOk(w) ==
    /\ pc[w] = "send" /\ Runs(w)
    /\ gone' = gone \cup {skb[w]}
    /\ lastsent' = skb[w]
    /\ skb' = [skb EXCEPT ![w] = NoSkb]
    /\ cnt' = [cnt EXCEPT ![w] = @ + 1]
    /\ GoTo(w, IF cnt'[w] > Burst THEN "again" ELSE "peek")
    /\ UNCHANGED <<queue, pending, oops, overlap>>
    /\ UNCHANGED <<prodVars, confVars, flagVars, connVars>>

\* Variant: the refused buffer is freed although it will be queued again.
SendAgainFrees(w) ==
    /\ pc[w] = "send" /\ Runs(w)
    /\ gone' = gone \cup {skb[w]}
    /\ GoTo(w, "requeue")
    /\ UNCHANGED <<queue, pending, skb, cnt, oops>>
    /\ UNCHANGED <<prodVars, confVars, flagVars, connVars, histVars>>

\* ... the socket cannot take it now (EAGAIN) ...
SendAgain(w) ==
    /\ pc[w] = "send" /\ Runs(w)
    /\ GoTo(w, "requeue")
    /\ UNCHANGED <<queue, pending, skb, cnt, gone, oops>>
    /\ UNCHANGED <<prodVars, confVars, flagVars, connVars, histVars>>

\* Variant: no retry for the rest of the queue after an error.
SendFailGivesUp(w) ==
    /\ pc[w] = "send" /\ Runs(w)
    /\ gone' = gone \cup {skb[w]}
    /\ skb' = [skb EXCEPT ![w] = NoSkb]
    /\ GoTo(w, "idle")
    /\ UNCHANGED <<queue, pending, cnt, oops>>
    /\ UNCHANGED <<prodVars, confVars, flagVars, connVars, histVars>>

\* ... or sending fails, also because there is no socket or the tunnel is
\* being removed: the buffer is freed.
SendFail(w) ==
    /\ pc[w] = "send" /\ Runs(w)
    /\ gone' = gone \cup {skb[w]}
    /\ skb' = [skb EXCEPT ![w] = NoSkb]
    /\ GoTo(w, "setload")
    /\ UNCHANGED <<queue, pending, cnt, oops>>
    /\ UNCHANGED <<prodVars, confVars, flagVars, connVars, histVars>>

Requeue(w) ==
    /\ pc[w] = "requeue" /\ Runs(w)
    /\ queue' = tpq_requeue(queue, skb[w])
    /\ skb' = [skb EXCEPT ![w] = NoSkb]
    /\ GoTo(w, "setload")
    /\ UNCHANGED <<pending, cnt, gone, oops>>
    /\ UNCHANGED <<prodVars, confVars, flagVars, connVars, histVars>>

\* has_delayed_work = 1
SetLoad(w) ==
    /\ pc[w] = "setload" /\ Runs(w)
    /\ Load(w)
    /\ GoTo(w, "set")
    /\ UNCHANGED <<queue, flags, pending, skb, cnt, gone, oops>>
    /\ UNCHANGED <<prodVars, confVars, connVars, histVars>>

Set(w) ==
    /\ pc[w] = "set" /\ Runs(w)
    /\ flags' = [Current(w) EXCEPT !.has_delayed_work = TRUE]
    /\ GoTo(w, "arm")
    /\ UNCHANGED <<queue, reg, pending, skb, cnt, gone, oops>>
    /\ UNCHANGED <<prodVars, confVars, connVars, histVars>>

\* queue_delayed_work (..., HZ): retry in one second.
Arm(w) ==
    /\ pc[w] = "arm" /\ Runs(w)
    /\ queue_work(work_xmit_delayed)
    /\ GoTo(w, "idle")
    /\ UNCHANGED <<queue, skb, cnt, gone, oops>>
    /\ UNCHANGED <<prodVars, confVars, flagVars, connVars, histVars>>

\* Variant: the loop ends after a burst and nobody continues.
AgainForgotten(w) ==
    /\ pc[w] = "again" /\ Runs(w)
    /\ GoTo(w, "idle")
    /\ UNCHANGED <<queue, pending, skb, cnt, gone, oops>>
    /\ UNCHANGED <<prodVars, confVars, flagVars, connVars, histVars>>

\* Enough for one run: let the other users of the workqueue in.
Again(w) ==
    /\ pc[w] = "again" /\ Runs(w)
    /\ queue_work(work_xmit)
    /\ GoTo(w, "idle")
    /\ UNCHANGED <<queue, skb, cnt, gone, oops>>
    /\ UNCHANGED <<prodVars, confVars, flagVars, connVars, histVars>>

-----------------------------------------------------------------------------
(* The rest of the tunnel, as far as the transmit path sees it.            *)

\* What each connection context makes of the byte.
\*   connect   mpdccptun_elab_connect, mpdccptun_elab_accept
\*   linkdown  mpdccptun_linkdown
\*   closesk   mpdccptun_closesk, mpdccptun_close_listen
\*   report    tp_subflow_report, which writes has_subflow_report only
Updated(e, b) ==
    CASE e = "connect" -> [b EXCEPT !.isconnected = TRUE, !.wasconnected = TRUE]
      [] e \in {"linkdown", "closesk"} -> [b EXCEPT !.isconnected = FALSE]
      [] e = "report" -> b

\* mpdccptun_linkdown notes the time before it clears isconnected.
EventLoad(e) ==
    /\ ~oops /\ evpc[e] = "idle"
    /\ Load(e)
    /\ evpc' = [evpc EXCEPT ![e] = "store"]
    /\ grace' = (grace \/ e = "linkdown")
    /\ UNCHANGED <<queue, flags, gone, oops>>
    /\ UNCHANGED <<prodVars, confVars, workVars, histVars>>

EventStore(e) ==
    /\ ~oops /\ evpc[e] = "store"
    /\ flags' = Updated(e, Current(e))
    /\ evpc' = [evpc EXCEPT ![e] = "idle"]
    /\ UNCHANGED <<queue, reg, grace, gone, oops>>
    /\ UNCHANGED <<prodVars, confVars, workVars, histVars>>

\* A minute has passed since last_unconnect.
GraceExpires ==
    /\ ~oops /\ grace
    /\ grace' = FALSE
    /\ UNCHANGED <<queue, evpc, gone, oops>>
    /\ UNCHANGED <<prodVars, confVars, flagVars, workVars, histVars>>

\* mpdccptun_setqueue sets the policy, and the limit if the tunnel is bound;
\* mpdccptun_dobind sets the limit.
SetPolicy(p) ==
    /\ ~oops
    /\ policy' = tpq_set_policy(policy, p)
    /\ UNCHANGED <<queue, q_maxlen, highmax, gone, oops>>
    /\ UNCHANGED <<prodVars, flagVars, connVars, workVars, histVars>>

SetMaxlen(n) ==
    /\ ~oops
    /\ q_maxlen' = tpq_set_maxlen(q_maxlen, n)
    /\ highmax' = IF q_maxlen' > highmax THEN q_maxlen' ELSE highmax
    /\ UNCHANGED <<queue, policy, gone, oops>>
    /\ UNCHANGED <<prodVars, flagVars, connVars, workVars, histVars>>

-----------------------------------------------------------------------------

\* mpdccptun_new and tpq_init.  The runs start with the tunnel connected or
\* not; wasconnected follows isconnected.
Init ==
    /\ queue = <<>>
    /\ q_maxlen = tpq_set_maxlen(1, InitLen)
    /\ policy = tpq_set_policy(TP_QUEUE_INF, TP_QUEUE_DROP_NEWEST)
    /\ \E b \in BOOLEAN :
          flags = [isconnected |-> b, wasconnected |-> b,
                   has_delayed_work |-> FALSE]
    /\ grace = FALSE
    /\ pending = [w \in Works |-> FALSE]
    /\ pc = [w \in Works |-> "idle"]
    /\ skb = [w \in Works |-> NoSkb]
    /\ cnt = [w \in Works |-> 0]
    /\ evpc = [e \in Events |-> "idle"]
    /\ reg = [c \in Contexts |-> flags]
    /\ ppc = "idle"
    /\ pskb = NoSkb
    /\ oskb = NoSkb
    /\ next = 1
    /\ gone = {}
    /\ oops = FALSE
    /\ lastsent = NoSkb
    /\ highmax = q_maxlen
    /\ overlap = FALSE

Produce ==
    \/ XmitEnqueue \/ XmitPeekOldest \/ XmitUnlinkOldest
    \/ XmitLink \/ XmitTest \/ XmitSchedule

Handle(w) ==
    \/ Start(w) \/ ClearLoad(w) \/ Clear(w) \/ Peek(w) \/ Unlink(w)
    \/ SendOk(w) \/ SendAgain(w) \/ SendFail(w) \/ Requeue(w)
    \/ SetLoad(w) \/ Set(w) \/ Arm(w) \/ Again(w)

Environment ==
    \/ \E prot1 \in BOOLEAN : XmitDrop(prot1) \/ XmitAccept(prot1)
    \/ \E e \in Events : EventLoad(e) \/ EventStore(e)
    \/ GraceExpires
    \/ \E p \in Policies : SetPolicy(p)
    \/ \E n \in QLens : SetMaxlen(n)

Next ==
    \/ Produce
    \/ \E w \in Works : Handle(w)
    \/ Environment

\* An enqueue that has begun is finished, and the workqueue and its timer
\* run every queued item on to its end.
Fairness ==
    /\ WF_vars(Produce)
    /\ \A w \in Works : WF_vars(Handle(w))

Spec == Init /\ [][Next]_vars /\ Fairness

-----------------------------------------------------------------------------
(* Properties.                                                             *)

\* Every variable keeps its type.  A context that answers for a buffer has
\* one: tpq_dequeue's result is tested before it is used.  The limit stays
\* positive, as tpq_set_maxlen sees to.
TypeOK ==
    /\ queue \in Seq(Skb)
    /\ q_maxlen \in Nat \ {0}
    /\ policy \in QueuePolicy
    /\ flags \in Byte
    /\ grace \in BOOLEAN
    /\ pending \in [Works -> BOOLEAN]
    /\ pc \in [Works -> WorkStates]
    /\ skb \in [Works -> Nat]
    /\ cnt \in [Works -> Nat]
    /\ evpc \in [Events -> {"idle", "store"}]
    /\ reg \in [Contexts -> Byte]
    /\ ppc \in ProdStates
    /\ pskb \in Nat
    /\ oskb \in Nat
    /\ next \in Skb
    /\ gone \subseteq Skb
    /\ oops \in BOOLEAN
    /\ lastsent \in Nat
    /\ highmax \in Nat
    /\ overlap \in BOOLEAN
    \* A context that answers for a buffer has one.
    /\ ProducerHolds => pskb # NoSkb
    /\ ppc = "unlink" => oskb # NoSkb
    /\ \A w \in Works : InHand(w) => skb[w] # NoSkb

\* While has_delayed_work is set, the delayed work item is queued, has just
\* been started and is about to clear the bit, or is about to be queued:
\* ldt_mpdccp.c:1079 relies on it when it does not schedule work_xmit.
DelayedMeansArmed ==
    ~oops /\ flags.has_delayed_work =>
       \/ pending[work_xmit_delayed]
       \/ pc[work_xmit_delayed] \in {"clearload", "clear"}
       \/ \E w \in Works : pc[w] = "arm"

\* No lost wakeup: while a buffer waits in xmit_queue, one of the two work
\* items is queued or running, or the producer has still to decide whether
\* to queue one.
NoLostWakeup ==
    ~oops /\ queue # <<>> =>
       \/ \E w \in Works : pending[w] \/ pc[w] # "idle"
       \/ ppc \in {"test", "schedule"}

\* The queue outgrows the largest limit ever configured by at most one
\* buffer per work item: tpq_inf_requeue puts a refused buffer back without
\* looking at the limit, and the limit is tested before the buffer is linked.
QueueBound ==
    Len(queue) + Held(work_xmit) + Held(work_xmit_delayed) <= highmax + 2

\* Where a buffer is: in the queue, with a work item, with the producer, or
\* freed or sent.
Places(p) ==
    {<<"queue", i>> : i \in {j \in 1 .. Len(queue) : queue[j] = p}}
    \cup {<<"work", w>> : w \in {v \in Works : Holds(v) /\ skb[v] = p}}
    \cup {<<"producer">> : x \in {y \in {0} : ProducerHolds /\ pskb = p}}
    \cup {<<"gone">> : x \in {y \in {0} : p \in gone}}

\* Every buffer handed over is in exactly one place: none is lost on the way
\* to the socket, queued twice, freed while it is still queued, or held by
\* both work items, although they dequeue without a common lock.
OneOwner ==
    ~oops => \A p \in 1 .. next - 1 : Cardinality(Places(p)) = 1

\* Unless both work items have had a buffer in hand at the same time,
\* buffers leave in the order in which they came, also when the socket
\* refuses one and it is queued again.
InOrder ==
    ~oops /\ ~overlap =>
       /\ \A i, j \in 1 .. Len(queue) : i < j => queue[i] < queue[j]
       /\ \A i \in 1 .. Len(queue) : lastsent < queue[i]
       /\ \A w \in Works : Holds(w) =>
             /\ lastsent < skb[w]
             /\ \A i \in 1 .. Len(queue) : skb[w] < queue[i]

\* The dequeue is safe on one CPU as long as the policy is not to drop the
\* oldest buffer: no work item unlinks a buffer that is not in the queue.
NoOops == ~oops

\* Buffers do not stay in the queue without an attempt to send them.
Attempted ==
    queue # <<>> ~> (oops \/ queue = <<>> \/ \E w \in Works : pc[w] = "send")

\* ldt_mpdccp.c:1151: "dequeue at most 5 skb's at a time".
AtMostBurst == \A w \in Works : cnt[w] <= Burst

\* ldt_mpdccp.c:1079: "do not schedule if we have delayed work".
NoScheduleWhileDelayed ==
    [][ppc = "schedule" /\ ppc' = "idle" => ~pending[work_xmit_delayed]]_vars
=============================================================================
