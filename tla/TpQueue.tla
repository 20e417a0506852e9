------------------------------ MODULE TpQueue ------------------------------
(***************************************************************************)
(* The packet queue of a tunnel, ldt_queue.c.                              *)
(*                                                                         *)
(* A struct tp_queue is a kernel sk_buff_head, a limit and a policy.  New  *)
(* buffers are linked at the head of the list and taken from its tail, a   *)
(* refused buffer is put back at the tail.  The list is a sequence here    *)
(* with the tail (the oldest buffer) first, so a dequeue looks at its      *)
(* first element.  Buffers are numbered 1, 2, 3, ... in the order in which *)
(* the network stack hands them over; NoSkb is the NULL pointer.           *)
(*                                                                         *)
(* The operations are given as the operators from which LdtXmit builds its *)
(* steps: only the skb_* primitives hold the list's lock, so a dequeue is  *)
(* a skb_peek_tail and, later, a skb_unlink, and the enqueue of the two    *)
(* dropping policies is a test, an optional dequeue and a link.            *)
(*                                                                         *)
(* Definitions marked "Variant" are plausible mistakes in the definition   *)
(* that follows them.  No specification uses them; they show which         *)
(* property notices the mistake.                                           *)
(***************************************************************************)
EXTENDS Integers, Sequences, SequencesExt

NoSkb == 0
Skb   == Nat \ {NoSkb}

TP_QUEUE_INF         == 0
TP_QUEUE_LIMIT       == 1
TP_QUEUE_DROP_OLDEST == 2
TP_QUEUE_DROP_NEWEST == 3
TP_QUEUE_MAX         == 3

QueuePolicy == 0 .. TP_QUEUE_MAX

-----------------------------------------------------------------------------
(* The kernel's list primitives, as ldt_queue.c uses them.                 *)

skb_queue_head(s, p) == Append(s, p)

skb_queue_tail(s, p) == <<p>> \o s

skb_peek_tail(s) == IF s = <<>> THEN NoSkb ELSE Head(s)

Linked(s, p) == \E i \in 1 .. Len(s) : s[i] = p

\* Taking a linked buffer out of the list, wherever it stands.
skb_unlink(s, p) == RemoveAt(s, CHOOSE i \in 1 .. Len(s) : s[i] = p)

-----------------------------------------------------------------------------
(* The operations of ldt_queue.c.                                          *)

tpq_set_policy(old, new) == IF new \in QueuePolicy THEN new ELSE old

\* Variant: a limit of zero or less is accepted.
tpq_set_maxlen_unchecked(old, new) == new

tpq_set_maxlen(old, new) == IF new < 1 THEN old ELSE new

\* Variant: one buffer too many.
tpq_limit_isfull_late(s, maxlen) == Len(s) > maxlen

tpq_limit_isfull(s, maxlen) == Len(s) >= maxlen

\* Only the entry of queue_tbl for TP_QUEUE_LIMIT has an isfull function.
tpq_isfull(s, maxlen, policy) ==
    policy = TP_QUEUE_LIMIT /\ tpq_limit_isfull(s, maxlen)

\* Variant: the two dropping policies are mixed up.
tpq_enqueue_swapped(s, maxlen, policy) ==
    CASE policy = TP_QUEUE_DROP_NEWEST /\ tpq_limit_isfull(s, maxlen) -> "dropoldest"
      [] policy = TP_QUEUE_DROP_OLDEST /\ tpq_limit_isfull(s, maxlen) -> "dropnewest"
      [] OTHER -> "link"

\* tpq_enqueue calls the enqueue function of the queue's policy.  What that
\* function does first with a new buffer: link it, or look for the oldest
\* buffer to make room, or refuse the new one.
tpq_enqueue(s, maxlen, policy) ==
    CASE policy = TP_QUEUE_DROP_OLDEST /\ tpq_limit_isfull(s, maxlen) -> "dropoldest"
      [] policy = TP_QUEUE_DROP_NEWEST /\ tpq_limit_isfull(s, maxlen) -> "dropnewest"
      [] OTHER -> "link"

\* A dequeue looks at the oldest buffer; with a buffer in hand it goes on to
\* unlink it, on an empty list there is nothing to do.
tpq_dequeue(s) == skb_peek_tail(s)

\* Variant: the refused buffer is queued like a new one.
tpq_requeue_head(s, p) == skb_queue_head(s, p)

\* A refused buffer goes back to where it was taken from.
tpq_requeue(s, p) == skb_queue_tail(s, p)
=============================================================================
