------------------------------ MODULE LdtRecv ------------------------------
(***************************************************************************)
(* The receive path of a (mp-)dccp tunnel, ldt_mpdccp.c and ldt_prot1.c,   *)
(* on the connection that a server has just been sent.                     *)
(*                                                                         *)
(* The socket layer links a datagram into the socket's receive queue and   *)
(* calls the hook sk_data_ready, which takes ONE datagram off the queue.   *)
(* A connection inherits the hook and the user data of the listening       *)
(* socket, so that what arrives before accept_handler has installed its    *)
(* own hook stays in the queue; the handler receives it at the end, under  *)
(* the socket's lock.  Datagrams that arrive while a process owns the lock *)
(* wait in the backlog, and release_sock hands them over one by one.       *)
(*                                                                         *)
(* The hook runs in softirq context with the socket's spinlock, on any     *)
(* CPU: it interleaves with accept_handler where that does not own the     *)
(* lock.  Definitions marked "Variant" are plausible mistakes.             *)
(***************************************************************************)
EXTENDS Integers, Sequences, SequencesExt

CONSTANTS
    MaxDgram,   \* bound: how many datagrams the peer sends
    Kinds,      \* the kinds of datagrams it sends
    Stops       \* the tunnel may be removed

\* ip      an IPv4 or IPv6 packet
\* frag    one in fragments, that mpdccptun_needrcvcpy wants copied
\* ctl     a message of protocol 1
\* badctl  a message of protocol 1 whose length does not fit
\* other   any other version number
\* empty   no data: the peer has closed the connection
AllKinds == {"ip", "frag", "ctl", "badctl", "other", "empty"}

RecvAssumption ==
    /\ MaxDgram \in Nat
    /\ Kinds \subseteq AllKinds
    /\ Stops \in BOOLEAN

VARIABLES
    kind,       \* of each datagram sent so far
    hook,       \* sk_data_ready: tp_listen_ready or tp_srv_data_ready
    owned,      \* accept_handler owns the lock of the socket
    rq,         \* the receive queue of the socket
    backlog,    \* what arrived while the socket was owned
    tostop,     \* the tunnel is being removed
    pc,         \* where the hook and accept_handler stand
    hand,       \* the buffer each has taken off the queue; 0: none
    respawn,    \* tp_listen_ready has queued work_accept once more
    out,        \* the buffers given to netif_rx, in this order
    frees,      \* how often each buffer was freed
    rx_errors   \* the error counter of the network device

recvVars == <<kind, hook, owned, rq, backlog, tostop, pc, hand, respawn, out,
          frees, rx_errors>>

ready == "tp_elab_data_ready"
acc  == "accept_handler"

Sent == 1 .. Len(kind)

Goes(c, where) == pc' = [pc EXCEPT ![c] = where]

\* The hook runs: the socket's spinlock is taken.
Busy == pc[ready] # "idle"

RecvInit ==
    /\ kind = <<>>
    /\ hook = "tp_listen_ready" /\ owned = FALSE
    /\ rq = <<>> /\ backlog = <<>>
    /\ tostop = FALSE
    /\ pc = [c \in {ready, acc} |-> "idle"]
    /\ hand = [c \in {ready, acc} |-> 0]
    /\ respawn = FALSE
    /\ out = <<>> /\ frees = <<>>
    /\ rx_errors = 0

-----------------------------------------------------------------------------
(* Receiving one datagram: mpdccptun_dorcv2.                               *)

\* dorcv_datagram takes the first buffer off a queue.
dorcv_datagram(c, q) ==
    /\ hand' = [hand EXCEPT ![c] = Head(q)]
    /\ rq' = Tail(q)

\* What happens to a buffer of kind k: how often it is freed, whether
\* netif_rx gets it, and whether mpdccptun_dorcv2 returns an error.
Deliver   == [freed |-> 0, up |-> TRUE,  failed |-> FALSE]
Consume   == [freed |-> 1, up |-> FALSE, failed |-> FALSE]
Refuse    == [freed |-> 1, up |-> FALSE, failed |-> TRUE]
Forget    == [freed |-> 0, up |-> FALSE, failed |-> FALSE]

\* rcv_prepare_skb copies what needs it, for which there may be no memory.
rcv_prepare_skb(k) == IF k = "frag" THEN {Deliver, Refuse} ELSE {Deliver}

\* Variant: the caller frees every message of protocol 1 once more.
ldt_prot1_recv_twice(k) == [Consume EXCEPT !.freed = 2]

\* ldt_prot1_recv frees the buffer also when it returns an error, for which
\* mpdccptun_dorcv2 frees it again.
ldt_prot1_recv(k) ==
    IF k = "badctl" THEN [Refuse EXCEPT !.freed = 2] ELSE Consume

\* mpdccptun_dorcv2, with mpdccptun_elab_recv.
Outcomes(k) ==
    CASE k = "empty"            -> {Forget}
      [] k \in {"ctl", "badctl"} -> {ldt_prot1_recv(k)}
      [] k = "other"            -> {Refuse}
      [] k \in {"ip", "frag"}   -> rcv_prepare_skb(k)

\* Variant: the error code is added to the counter.
elab_recv_code(c, o) ==
    /\ out' = IF o.up THEN Append(out, hand[c]) ELSE out
    /\ frees' = [frees EXCEPT ![hand[c]] = @ + o.freed]
    /\ rx_errors' = rx_errors - (IF o.failed THEN 1 ELSE 0)
    /\ hand' = [hand EXCEPT ![c] = 0]

\* The rest of mpdccptun_dorcv2 for the buffer in hand, and the count of the
\* error by its caller.
elab_recv(c, o) ==
    /\ out' = IF o.up THEN Append(out, hand[c]) ELSE out
    /\ frees' = [frees EXCEPT ![hand[c]] = @ + o.freed]
    /\ rx_errors' = rx_errors + (IF o.failed THEN 1 ELSE 0)
    /\ hand' = [hand EXCEPT ![c] = 0]

-----------------------------------------------------------------------------
(* The hook, called when q is the receive queue.                           *)

\* (The test of tdat->bound is left out: a tunnel with a connection is bound
\* until it is removed or bound anew, which closes the connection.)
\* tp_listen_ready queues work_accept; tp_srv_data_ready receives, unless
\* the tunnel is being removed.
DataReady(q) ==
    \/ /\ hook = "tp_listen_ready"
       /\ respawn' = TRUE
       /\ rq' = q /\ UNCHANGED <<pc, hand>>
    \/ /\ hook = "tp_srv_data_ready" /\ tostop
       /\ rq' = q /\ UNCHANGED <<pc, hand, respawn>>
    \/ /\ hook = "tp_srv_data_ready" /\ ~tostop
       /\ dorcv_datagram(ready, q)
       /\ Goes(ready, "elab")
       /\ UNCHANGED respawn

\* A datagram arrives and the socket is not owned: hook and all.
Arrive(k) ==
    /\ Len(kind) < MaxDgram /\ ~Busy /\ ~owned
    /\ kind' = Append(kind, k)
    /\ frees' = Append(frees, 0)
    /\ DataReady(Append(rq, Len(kind) + 1))
    /\ UNCHANGED <<hook, owned, backlog, tostop, out, rx_errors>>

\* The socket is owned.
ArriveBacklog(k) ==
    /\ Len(kind) < MaxDgram /\ owned
    /\ kind' = Append(kind, k)
    /\ frees' = Append(frees, 0)
    /\ backlog' = Append(backlog, Len(kind) + 1)
    /\ UNCHANGED <<hook, owned, rq, tostop, pc, hand, respawn, out, rx_errors>>

\* The hook goes on with the buffer it has taken.
HookElab ==
    /\ pc[ready] = "elab"
    /\ \E o \in Outcomes(kind[hand[ready]]) : elab_recv(ready, o)
    /\ Goes(ready, "idle")
    /\ UNCHANGED <<kind, hook, owned, rq, backlog, tostop, respawn>>

-----------------------------------------------------------------------------
(* accept_handler, from the return of kernel_accept.                       *)

\* mpdccptun_elab_accept: tp_set_tdat stores what the socket has inherited
\* already; then the hook is installed.
InstallHook ==
    /\ pc[acc] = "idle"
    /\ hook' = "tp_srv_data_ready"
    /\ Goes(acc, "lock")
    /\ UNCHANGED <<kind, owned, rq, backlog, tostop, hand, respawn, out, frees,
                   rx_errors>>

\* Variant: the queued data is received without the lock.
LockSockNone ==
    /\ pc[acc] = "lock"
    /\ Goes(acc, "drain")
    /\ UNCHANGED <<kind, hook, owned, rq, backlog, tostop, hand, respawn, out,
                   frees, rx_errors>>

\* lock_sock waits for the hook.
LockSock ==
    /\ pc[acc] = "lock" /\ ~Busy
    /\ owned' = TRUE
    /\ Goes(acc, "drain")
    /\ UNCHANGED <<kind, hook, rq, backlog, tostop, hand, respawn, out, frees,
                   rx_errors>>

\* Variant: without MSG_DONTWAIT the loop waits for more.
DrainBlocks ==
    /\ pc[acc] = "drain"
    /\ \/ /\ tostop
          /\ Goes(acc, "release") /\ UNCHANGED <<rq, hand>>
       \/ /\ ~tostop /\ rq # <<>>
          /\ dorcv_datagram(acc, rq)
          /\ Goes(acc, "elab")
    /\ UNCHANGED <<kind, hook, owned, backlog, tostop, respawn, out, frees,
                   rx_errors>>

\* mpdccptun_dorcv_all: the head of the loop.
Drain ==
    /\ pc[acc] = "drain"
    /\ \/ /\ tostop \/ rq = <<>>
          /\ Goes(acc, "release") /\ UNCHANGED <<rq, hand>>
       \/ /\ ~tostop /\ rq # <<>>
          /\ dorcv_datagram(acc, rq)
          /\ Goes(acc, "elab")
    /\ UNCHANGED <<kind, hook, owned, backlog, tostop, respawn, out, frees,
                   rx_errors>>

\* Variant: only one datagram is received, as in mpdccptun_dorcv.
DrainElabOne ==
    /\ pc[acc] = "elab"
    /\ \E o \in Outcomes(kind[hand[acc]]) : elab_recv(acc, o)
    /\ Goes(acc, "release")
    /\ UNCHANGED <<kind, hook, owned, rq, backlog, tostop, respawn>>

\* Its body.  The loop ends at the first error.
DrainElab ==
    /\ pc[acc] = "elab"
    /\ \E o \in Outcomes(kind[hand[acc]]) :
          /\ elab_recv(acc, o)
          /\ Goes(acc, IF o.failed THEN "release" ELSE "drain")
    /\ UNCHANGED <<kind, hook, owned, rq, backlog, tostop, respawn>>

\* release_sock: the datagrams of the backlog, each with a call of the hook.
ReleaseNext ==
    /\ pc[acc] = "release" /\ ~Busy
    /\ backlog # <<>>
    /\ backlog' = Tail(backlog)
    /\ DataReady(Append(rq, Head(backlog)))
    /\ UNCHANGED <<kind, hook, owned, tostop, out, frees, rx_errors>>

ReleaseSock ==
    /\ pc[acc] = "release" /\ ~Busy
    /\ backlog = <<>>
    /\ owned' = FALSE
    /\ Goes(acc, "done")
    /\ UNCHANGED <<kind, hook, rq, backlog, tostop, hand, respawn, out, frees,
                   rx_errors>>

\* The run of accept_handler that tp_listen_ready has caused: there is no
\* connection to accept, an event CONN_ACCEPT_FAIL is sent.
AcceptAgain ==
    /\ pc[acc] = "done" /\ respawn
    /\ respawn' = FALSE
    /\ UNCHANGED <<kind, hook, owned, rq, backlog, tostop, pc, hand, out, frees,
                   rx_errors>>

\* mpdccptun_remove begins.
Stop ==
    /\ Stops /\ ~tostop
    /\ tostop' = TRUE
    /\ UNCHANGED <<kind, hook, owned, rq, backlog, pc, hand, respawn, out, frees,
                   rx_errors>>

accept_handler ==
    InstallHook \/ LockSock \/ Drain \/ DrainElab \/ ReleaseNext \/ ReleaseSock
    \/ AcceptAgain

RecvNext ==
    \/ \E k \in Kinds : Arrive(k) \/ ArriveBacklog(k)
    \/ HookElab
    \/ accept_handler
    \/ Stop

\* The workqueue runs accept_handler, and a hook that was called returns.
RecvSpec ==
    /\ RecvInit /\ [][RecvNext]_recvVars
    /\ WF_recvVars(accept_handler) /\ WF_recvVars(HookElab)
-----------------------------------------------------------------------------
(* Properties.                                                             *)

RecvTypeOK ==
    /\ kind \in Seq(Kinds) /\ Len(kind) <= MaxDgram
    /\ hook \in {"tp_listen_ready", "tp_srv_data_ready"}
    /\ {owned, tostop, respawn} \subseteq BOOLEAN
    /\ rq \in Seq(Sent) /\ backlog \in Seq(Sent) /\ out \in Seq(Sent)
    /\ pc \in [{ready, acc} -> {"idle", "elab", "lock", "drain", "release",
                               "done"}]
    /\ hand \in [{ready, acc} -> Sent \cup {0}]
    /\ DOMAIN frees = Sent
    /\ rx_errors \in Nat

\* Packets reach the network stack in the order in which the peer sent
\* them, also across the handover from the inherited hook to the drain of
\* accept_handler and from there to the hook.
InOrder == \A i, j \in DOMAIN out : i < j => out[i] < out[j]

\* Every buffer that has left the socket's queues was given to netif_rx, or
\* freed, once: no path of mpdccptun_dorcv2 loses one or frees it twice, but
\* those of a datagram without data and of a malformed message.
Accounted ==
    \A d \in Sent : kind[d] \notin {"empty", "badctl"} =>
        \/ d \in ToSet(rq) \cup ToSet(backlog) \cup {hand[ready], hand[acc]}
        \/ frees[d] + (IF d \in ToSet(out) THEN 1 ELSE 0) = 1

\* When accept_handler is done and the hook does not run, nothing is left
\* in the queue, if no datagram was refused: a refusal ends the drain.  Since
\* the hook takes one datagram for each that arrives, a datagram left over
\* would stay, and every later one be late by one.
NothingLeft ==
    pc[acc] = "done" /\ ~Busy /\ ~tostop /\ rx_errors = 0
        => rq = <<>> /\ backlog = <<>>

\* The receive path from the hook and the drain in accept_handler to the stack:
\* packets in order, one end for every well-formed buffer, nothing left behind by
\* a drain without a refusal.
RecvSound == InOrder /\ Accounted /\ NothingLeft

\* A datagram that has arrived is taken off the queue even if no other
\* follows it, unless the tunnel is removed.
Taken ==
    \A d \in 1 .. MaxDgram :
        d \in ToSet(rq) \cup ToSet(backlog)
            ~> (d \notin ToSet(rq) \cup ToSet(backlog) \/ tostop)

\* ldt_mpdccp.c:1492 on the buffer that mpdccptun_elab_recv has given away:
\* "skb must not be freed here!"
FreedOnce == \A d \in Sent : frees[d] <= 1
=============================================================================
