------------------------------ MODULE LdtConn ------------------------------
(***************************************************************************)
(* The life of a (mp-)dccp tunnel's connection, ldt_mpdccp.c.              *)
(*                                                                         *)
(* The netlink commands bind, peer, serverstart, setqueue and remove only  *)
(* note what is wanted and queue a work item: work_conn connects a client, *)
(* work_listen makes a server listen, work_accept accepts a connection.    *)
(* Both of the first two call mpdccptun_dobind, which replaces the socket  *)
(* when a new local address has been set (rebind).  A timer and the        *)
(* subflow reports of multipath dccp take the connection down from softirq *)
(* context (mpdccptun_linkdown).                                           *)
(*                                                                         *)
(* No lock protects the structure: DOLOCK is empty, since DOUSELOCK is     *)
(* never defined.  The work items are not interrupted by one another or by *)
(* a command except where they sleep, in the calls into the socket layer;  *)
(* each step here ends at such a call.  With more than one CPU (Smp) they  *)
(* interleave at every step.  The softirq contexts always do; on one CPU   *)
(* they run to their end.                                                  *)
(*                                                                         *)
(* Definitions marked "Variant" are plausible mistakes, see TpQueue.       *)
(***************************************************************************)
EXTENDS Integers, FiniteSets

CONSTANTS
    Addrs,      \* local addresses a command may bind the tunnel to
    AnyPort,    \* those of them that leave the port open (anylport)
    Socks,      \* bound: how many sockets may exist at once
    MaxSub,     \* bound: the length of the list of subflows
    Mp,         \* the tunnel is created as a multipath tunnel
    Commands,   \* the netlink commands that are given
    Smp         \* more than one CPU, or preemption

NoSock == 0
NoAddr == "noaddr"

Works == {"conn", "listen", "accept"}

ASSUME ConnAssumption ==
    /\ NoAddr \notin Addrs /\ AnyPort \subseteq Addrs
    /\ NoSock \notin Socks /\ IsFiniteSet(Socks)
    /\ MaxSub \in Nat
    /\ Mp \in BOOLEAN
    /\ Commands \subseteq {"bind", "peer", "serverstart", "setqueue", "remove"}
    /\ Smp \in BOOLEAN

VARIABLES
    laddr,        \* addr.laddr; NoAddr until the first bind (addr.bound)
    haspeer, bound, rebind, listening, isserver, isconnected, wasconnected,
    sock,         \* the tunnel's socket: client, or listening
    active,       \* the connection a server has accepted last
    ismpdccp,     \* the tunnel is (still) a multipath tunnel
    num_subflow,  \* how many subflows have been reported
    timer,        \* conn_timer is pending
    inTimer,      \* conn_timer_handler has been called
    tostop,       \* the tunnel is being removed
    freed,        \* its structure has been freed
    state,        \* of each socket: what the kernel knows about it
    local,        \* of each socket: the address it is bound to
    attached,     \* the sockets with sk_user_data pointing to the tunnel
    pending,      \* which work items are queued
    pc,           \* where each work item, and the remove, stands
    hand,         \* the sockets a work item has in its local variables
    crash,        \* the kernel used a NULL or a stale pointer
    \* What is remembered for the properties only.
    asked,        \* setpeer was given after the last start of work_conn
    owed,         \* ... or before it, and no event has been sent since
    raced         \* a bind came between kernel_bind and the flag bound

vars == <<laddr, haspeer, bound, rebind, listening, isserver, isconnected,
          wasconnected, sock, active, ismpdccp, num_subflow, timer, inTimer, tostop,
          freed, state, local, attached, pending, pc, hand, crash, asked, owed, raced>>

flagVars == <<haspeer, bound, rebind, listening, isserver, isconnected, wasconnected>>
askVars == <<asked, owed>>
connVars == <<laddr, ismpdccp, num_subflow, timer, inTimer, tostop, freed, asked, owed,
              raced>>
sockVars == <<sock, active, state, local, attached>>

Contexts == Works \cup {"remove"}

SockStates == {"none", "new", "bound", "connected", "listen", "closed"}

PcStates == {"idle", "dobind", "release", "create", "setup", "bind",
             "binding", "setbound", "connect", "connecting", "listen", "relisten",
             "dolisten", "listening", "setlistening", "accept", "accepted", "event"}

\* In these places a work item is between two calls that may sleep.
Awake == {"setbound", "connect", "listen", "dolisten", "setlistening", "event"}

\* c may take its next step: as a work item, or as a command.
Runs(c) ==
    /\ crash = "no"
    /\ Smp \/ (~inTimer /\ \A v \in Contexts \ {c} : pc[v] \notin Awake)

\* A softirq may begin: on one CPU, when none is running.
Interrupts == crash = "no" /\ (Smp \/ ~inTimer)

GoTo(c, where) == pc' = [pc EXCEPT ![c] = where]

queue_work(w) == pending' = [pending EXCEPT ![w] = TRUE]

\* Sockets that the kernel has not yet forgotten.
Open == {s \in Socks : state[s] \notin {"none", "closed"}}

\* _myclose of a set of sockets, NoSock among them being ignored.
_myclose(ss) == [s \in Socks |-> IF s \in ss THEN "closed" ELSE state[s]]

-----------------------------------------------------------------------------
(* The netlink commands.  They reach the tunnel until remove has begun.    *)

\* kernel_bind has been given an address, the flag bound is not yet set.
Binding == \E w \in Works : pc[w] \in {"binding", "setbound"}

\* Variant: the socket is not marked for being replaced.
mpdccptun_bind_norebind(a) ==
    /\ Runs("remove") /\ ~tostop
    /\ laddr' = a /\ raced' = (raced \/ Binding)
    /\ pending' = [pending EXCEPT
          !["conn"]   = @ \/ (~isserver /\ isconnected),
          !["listen"] = @ \/ (isserver /\ listening)]
    /\ UNCHANGED <<ismpdccp, num_subflow, timer, inTimer, tostop, freed, pc, hand, crash>>
    /\ UNCHANGED <<flagVars, sockVars, askVars>>

\* mpdccptun_bind.  The first bind of a tunnel only notes the address.
mpdccptun_bind(a) ==
    /\ Runs("remove") /\ ~tostop
    /\ laddr' = a /\ raced' = (raced \/ Binding)
    /\ rebind' = (rebind \/ bound)
    /\ pending' = [pending EXCEPT
          !["conn"]   = @ \/ (~isserver /\ isconnected),
          !["listen"] = @ \/ (isserver /\ listening)]
    /\ UNCHANGED <<haspeer, bound, listening, isserver, isconnected,
          wasconnected, ismpdccp, num_subflow, timer, inTimer, tostop, freed, pc, hand,
          crash>>
    /\ UNCHANGED <<sockVars, askVars>>

\* Variant: no work for an item that is running.
mpdccptun_peer_busy(new) ==
    /\ Runs("remove") /\ ~tostop
    /\ haspeer \/ new
    /\ haspeer' = TRUE
    /\ \/ /\ isserver /\ UNCHANGED <<pending, asked>>
       \/ /\ ~isserver /\ asked' = TRUE
          /\ pending' = [pending EXCEPT !["conn"] = @ \/ pc["conn"] = "idle"]
    /\ UNCHANGED <<bound, rebind, listening, isserver, isconnected, wasconnected,
          laddr, ismpdccp, num_subflow, timer, inTimer, tostop, freed, owed, raced, pc,
          hand, crash>>
    /\ UNCHANGED sockVars

\* mpdccptun_peer, with an address (new) or without one.
mpdccptun_peer(new) ==
    /\ Runs("remove") /\ ~tostop
    /\ haspeer \/ new
    /\ haspeer' = TRUE
    /\ \/ /\ isserver /\ UNCHANGED <<pending, asked>>
       \/ /\ ~isserver /\ queue_work("conn") /\ asked' = TRUE
    /\ UNCHANGED <<bound, rebind, listening, isserver, isconnected, wasconnected,
          laddr, ismpdccp, num_subflow, timer, inTimer, tostop, freed, owed, raced, pc,
          hand, crash>>
    /\ UNCHANGED sockVars

mpdccptun_serverstart ==
    /\ Runs("remove") /\ ~tostop
    /\ ~isconnected /\ ~isserver
    /\ isserver' = TRUE
    /\ queue_work("listen")
    /\ UNCHANGED <<haspeer, bound, rebind, listening, isconnected,
          wasconnected, pc, hand, crash>>
    /\ UNCHANGED <<connVars, sockVars>>

\* mpdccptun_setqueue passes the new settings on to the socket.  (What it
\* does to the queue is in LdtXmit.)
mpdccptun_setqueue ==
    /\ Runs("remove") /\ ~tostop
    /\ crash' = IF bound /\ sock = NoSock THEN "null" ELSE crash
    /\ UNCHANGED <<pending, pc, hand>>
    /\ UNCHANGED <<flagVars, connVars, sockVars>>

\* Variant: the tunnel counts as bound without a socket.
closesk_bound ==
    /\ rebind' = FALSE /\ listening' = FALSE /\ isconnected' = FALSE
    /\ sock' = NoSock /\ active' = NoSock
    /\ attached' = attached \ {sock, active}
    /\ UNCHANGED bound

\* Variant: the tunnel counts as listening without a socket.
closesk_listening ==
    /\ bound' = FALSE /\ rebind' = FALSE /\ isconnected' = FALSE
    /\ sock' = NoSock /\ active' = NoSock
    /\ attached' = attached \ {sock, active}
    /\ UNCHANGED listening

\* What mpdccptun_closesk does before it closes the sockets it found.
closesk ==
    /\ bound' = FALSE /\ rebind' = FALSE
    /\ listening' = FALSE /\ isconnected' = FALSE
    /\ sock' = NoSock /\ active' = NoSock
    /\ attached' = attached \ {sock, active}

\* mpdccptun_remove: nobody new finds the tunnel; its sockets are closed ...
Remove ==
    /\ Runs("remove") /\ ~tostop
    /\ tostop' = TRUE
    /\ \/ /\ bound /\ closesk
          /\ hand' = [hand EXCEPT !["remove"] = {sock, active} \ {NoSock}]
       \/ ~bound /\ UNCHANGED <<bound, rebind, listening, isconnected, sock,
                                active, attached, hand>>
    /\ GoTo("remove", "release")
    /\ UNCHANGED <<laddr, haspeer, isserver, wasconnected, ismpdccp, num_subflow, timer,
          inTimer, freed, raced, state, local, pending, crash>>
    /\ UNCHANGED askVars

\* ... and its memory is freed.  No work item is cancelled (the calls are
\* commented out), the timer is.
RemoveFree ==
    /\ pc["remove"] = "release" /\ Runs("remove")
    /\ state' = _myclose(hand["remove"])
    /\ hand' = [hand EXCEPT !["remove"] = {}]
    /\ freed' = TRUE
    /\ timer' = FALSE
    /\ GoTo("remove", "idle")
    /\ UNCHANGED <<laddr, ismpdccp, num_subflow, inTimer, tostop, raced, sock, active,
          local, attached, pending, crash>>
    /\ UNCHANGED <<flagVars, askVars>>

-----------------------------------------------------------------------------
(* The work items.                                                         *)

\* The workqueue calls the handler.  connect_handler first stops the timer,
\* but not a timer handler that is running; kernel_accept follows at once in
\* accept_handler.
Start(w) ==
    /\ pending[w] /\ pc[w] = "idle" /\ Runs(w) /\ ~freed
    /\ pending' = [pending EXCEPT ![w] = FALSE]
    /\ timer' = (timer /\ w # "conn")
    /\ GoTo(w, IF w = "accept" THEN "accept" ELSE "dobind")
    /\ asked' = (asked /\ w # "conn")
    /\ owed' = (owed \/ (asked /\ w = "conn"))
    /\ UNCHANGED <<laddr, ismpdccp, num_subflow, inTimer, tostop, freed, raced, hand,
          crash>>
    /\ UNCHANGED <<flagVars, sockVars>>

\* Any step of a work item after the tunnel was freed.
UseAfterFree(w) ==
    /\ freed /\ crash = "no"
    /\ pending[w] \/ pc[w] # "idle"
    /\ crash' = "freed"
    /\ UNCHANGED <<pending, pc, hand>>
    /\ UNCHANGED <<flagVars, connVars, sockVars>>

\* The handler has what it will report ...
Done(w) == GoTo(w, "event")

\* ... and sends it: LDT_EVTYPE_CONN_ESTAB or CONN_ESTAB_FAIL for work_conn,
\* the events of listening and accepting for the others.
SendEvent(w) ==
    /\ pc[w] = "event" /\ Runs(w) /\ ~freed
    /\ GoTo(w, "idle")
    /\ owed' = (owed /\ w # "conn")
    /\ UNCHANGED <<laddr, ismpdccp, num_subflow, timer, inTimer, tostop, freed, asked,
          raced, pending, hand, crash>>
    /\ UNCHANGED <<flagVars, sockVars>>

\* Where a handler continues when mpdccptun_dobind has succeeded.
AfterBind(w) == IF w = "conn" THEN "connect" ELSE "listen"

\* A server needs an address with a port.
Unservable == isserver /\ laddr \in AnyPort \cup {NoAddr}

\* mpdccptun_dobind of a server without an address fails; with a socket and
\* no new address, or on a tunnel being removed, nothing is to be done; a
\* socket with an old address is given up.
DoBind(w) ==
    /\ pc[w] = "dobind" /\ Runs(w) /\ ~freed
    /\ \/ /\ ~tostop /\ Unservable
          /\ Done(w)
          /\ UNCHANGED <<bound, rebind, listening, isconnected, sock, active,
                         attached, hand>>
       \/ /\ tostop \/ (~Unservable /\ bound /\ ~rebind)
          /\ GoTo(w, AfterBind(w))
          /\ UNCHANGED <<bound, rebind, listening, isconnected, sock, active,
                         attached, hand>>
       \/ /\ ~tostop /\ ~Unservable /\ bound /\ rebind
          /\ closesk
          /\ hand' = [hand EXCEPT ![w] = {sock, active} \ {NoSock}]
          /\ GoTo(w, "release")
       \/ /\ ~tostop /\ ~Unservable /\ ~bound
          /\ GoTo(w, "create")
          /\ UNCHANGED <<bound, rebind, listening, isconnected, sock, active,
                         attached, hand>>
    /\ UNCHANGED <<haspeer, isserver, wasconnected, state, local, pending, crash>>
    /\ UNCHANGED connVars

\* The end of mpdccptun_closesk.
Release(w) ==
    /\ pc[w] = "release" /\ Runs(w) /\ ~freed
    /\ state' = _myclose(hand[w])
    /\ hand' = [hand EXCEPT ![w] = {}]
    /\ GoTo(w, "create")
    /\ UNCHANGED <<sock, active, local, attached, pending, crash>>
    /\ UNCHANGED <<flagVars, connVars>>

\* sock_create_kern, which may fail.
Create(w) ==
    /\ pc[w] = "create" /\ Runs(w) /\ ~freed
    /\ \/ \E s \in {t \in Socks : state[t] = "none"} :
             /\ sock' = s
             /\ state' = [state EXCEPT ![s] = "new"]
             /\ GoTo(w, "setup")
       \/ Done(w) /\ UNCHANGED <<sock, state>>
    /\ UNCHANGED <<active, local, attached, pending, hand, crash>>
    /\ UNCHANGED <<flagVars, connVars>>

\* Variant: the socket is not released.
GiveUpLeaks(w) == Done(w) /\ UNCHANGED <<state, sock, local, crash>>

\* Variant: the pointer to the released socket is kept.
GiveUpKeeps(w) ==
    /\ state' = _myclose({sock})
    /\ Done(w)
    /\ UNCHANGED <<sock, local, crash>>

\* A failure after the socket was created: MYCLOSE(tdat, sock).
GiveUp(w) ==
    /\ state' = _myclose({sock})
    /\ sock' = NoSock
    /\ Done(w)
    /\ UNCHANGED <<local, crash>>

\* The socket options, set through tdat->sock.  If the link of the local
\* address is not capable of multipath, the tunnel becomes a plain one.
Setup(w) ==
    /\ pc[w] = "setup" /\ Runs(w) /\ ~freed
    /\ \/ /\ sock = NoSock /\ crash' = "null"
          /\ UNCHANGED <<pc, sock, state, local, ismpdccp>>
       \/ /\ sock # NoSock /\ GoTo(w, "bind")
          /\ UNCHANGED <<sock, state, local, ismpdccp, crash>>
       \/ /\ sock # NoSock /\ GiveUp(w)
          /\ ismpdccp' \in {ismpdccp, FALSE}
    /\ UNCHANGED <<active, attached, pending, hand>>
    /\ UNCHANGED <<laddr, num_subflow, timer, inTimer, tostop, freed, raced>>
    /\ UNCHANGED <<flagVars, askVars>>

\* kernel_bind is called with the address that is wanted now; it may sleep.
Bind(w) ==
    /\ pc[w] = "bind" /\ Runs(w) /\ ~freed
    /\ \/ /\ sock = NoSock /\ crash' = "null"
          /\ UNCHANGED <<pc, local, hand, raced>>
       \/ /\ sock # NoSock /\ GoTo(w, "binding")
          /\ local' = [local EXCEPT ![sock] = laddr]
          /\ hand' = [hand EXCEPT ![w] = {sock}]
          /\ raced' = FALSE
          /\ UNCHANGED crash
    /\ UNCHANGED <<sock, active, state, attached, pending>>
    /\ UNCHANGED <<laddr, ismpdccp, num_subflow, timer, inTimer, tostop, freed>>
    /\ UNCHANGED <<flagVars, askVars>>

\* kernel_bind returns.
Bound(w) ==
    /\ pc[w] = "binding" /\ Runs(w) /\ ~freed
    /\ hand' = [hand EXCEPT ![w] = {}]
    /\ \E s \in hand[w] :
          \/ /\ state[s] = "new"
             /\ state' = [state EXCEPT ![s] = "bound"]
             /\ GoTo(w, "setbound")
             /\ UNCHANGED <<sock, local, crash>>
          \/ GiveUp(w)
          \/ /\ state[s] \in {"closed", "none"} /\ crash' = "stale"
             /\ UNCHANGED <<sock, state, local, pc>>
    /\ UNCHANGED <<active, attached, pending>>
    /\ UNCHANGED <<flagVars, connVars>>

\* tp_set_tdat accepts a NULL socket.
SetBound(w) ==
    /\ pc[w] = "setbound" /\ Runs(w) /\ ~freed
    /\ attached' = attached \cup ({sock} \ {NoSock})
    /\ bound' = TRUE
    /\ GoTo(w, AfterBind(w))
    /\ UNCHANGED <<haspeer, rebind, listening, isserver, isconnected,
          wasconnected, sock, active, state, local, pending, hand, crash>>
    /\ UNCHANGED connVars

\* The rest of mpdccptun_elab_connect up to kernel_connect, which waits.
Connect ==
    /\ pc["conn"] = "connect" /\ Runs("conn") /\ ~freed
    /\ \/ /\ tostop \/ ~haspeer
          /\ Done("conn") /\ UNCHANGED <<hand, crash>>
       \/ /\ ~tostop /\ haspeer /\ sock = NoSock
          /\ crash' = "null" /\ UNCHANGED <<pc, hand>>
       \/ /\ ~tostop /\ haspeer /\ sock # NoSock
          /\ hand' = [hand EXCEPT !["conn"] = {sock}]
          /\ GoTo("conn", "connecting")
          /\ UNCHANGED <<crash>>
    /\ UNCHANGED pending
    /\ UNCHANGED <<flagVars, connVars, sockVars>>

\* kernel_connect returns.  It fails on a socket that is connected already
\* or listens, and anything may happen on one that was released meanwhile.
Connected ==
    /\ pc["conn"] = "connecting" /\ Runs("conn") /\ ~freed
    /\ hand' = [hand EXCEPT !["conn"] = {}]
    /\ \E s \in hand["conn"] :
          \/ /\ state[s] = "bound"
             /\ state' = [state EXCEPT ![s] = "connected"]
             /\ isconnected' = TRUE /\ wasconnected' = TRUE
             /\ timer' = (timer \/ ismpdccp)
             /\ Done("conn")
             /\ UNCHANGED crash
          \/ /\ Done("conn")
             /\ UNCHANGED <<state, isconnected, wasconnected, timer, crash>>
          \/ /\ state[s] \in {"closed", "none"} /\ crash' = "stale"
             /\ UNCHANGED <<state, isconnected, wasconnected, timer, pc>>
    /\ UNCHANGED <<laddr, ismpdccp, num_subflow, inTimer, tostop, freed, raced, haspeer,
          bound, rebind, listening, isserver, sock, active, local, attached, pending>>
    /\ UNCHANGED askVars

\* mpdccptun_doserverstart, after mpdccptun_dobind.  A server that listens
\* already gives up its connection first (mpdccptun_close_listen).
Listen ==
    /\ pc["listen"] = "listen" /\ Runs("listen") /\ ~freed
    /\ \/ /\ sock = NoSock
          /\ Done("listen")
          /\ UNCHANGED <<active, attached, listening, isconnected, hand>>
       \/ /\ sock # NoSock /\ listening
          /\ hand' = [hand EXCEPT !["listen"] = {active} \ {NoSock}]
          /\ attached' = attached \ {active}
          /\ active' = NoSock
          /\ listening' = FALSE /\ isconnected' = FALSE
          /\ GoTo("listen", "relisten")
       \/ /\ sock # NoSock /\ ~listening
          /\ GoTo("listen", "dolisten")
          /\ UNCHANGED <<active, attached, listening, isconnected, hand>>
    /\ UNCHANGED <<haspeer, bound, rebind, isserver, wasconnected, sock, state, local,
          pending, crash>>
    /\ UNCHANGED connVars

\* mpdccptun_close_listen has closed the connection and shut the socket down.
Relisten ==
    /\ pc["listen"] = "relisten" /\ Runs("listen") /\ ~freed
    /\ \/ /\ sock = NoSock /\ crash' = "null" /\ UNCHANGED <<state, hand, pc>>
       \/ /\ sock # NoSock
          /\ state' = [_myclose(hand["listen"]) EXCEPT ![sock] = "bound"]
          /\ hand' = [hand EXCEPT !["listen"] = {}]
          /\ GoTo("listen", "dolisten")
          /\ UNCHANGED crash
    /\ UNCHANGED <<sock, active, local, attached, pending>>
    /\ UNCHANGED <<flagVars, connVars>>

\* The data_ready hook is set through tdat->sock, and kernel_listen called.
DoListen ==
    /\ pc["listen"] = "dolisten" /\ Runs("listen") /\ ~freed
    /\ \/ /\ tostop
          /\ Done("listen") /\ UNCHANGED <<hand, crash>>
       \/ /\ ~tostop /\ sock = NoSock
          /\ crash' = "null" /\ UNCHANGED <<pc, hand>>
       \/ /\ ~tostop /\ sock # NoSock
          /\ hand' = [hand EXCEPT !["listen"] = {sock}]
          /\ GoTo("listen", "listening")
          /\ UNCHANGED crash
    /\ UNCHANGED pending
    /\ UNCHANGED <<flagVars, connVars, sockVars>>

\* kernel_listen returns; it may have failed.
Listened ==
    /\ pc["listen"] = "listening" /\ Runs("listen") /\ ~freed
    /\ hand' = [hand EXCEPT !["listen"] = {}]
    /\ \E s \in hand["listen"] :
          \/ /\ state[s] = "bound"
             /\ state' = [state EXCEPT ![s] = "listen"]
             /\ GoTo("listen", "setlistening")
             /\ UNCHANGED crash
          \/ /\ GoTo("listen", "setlistening") /\ UNCHANGED <<state, crash>>
          \/ /\ state[s] \in {"closed", "none"} /\ crash' = "stale"
             /\ UNCHANGED <<state, pc>>
    /\ UNCHANGED <<sock, active, local, attached, pending>>
    /\ UNCHANGED <<flagVars, connVars>>

\* The flag is set in either case.
SetListening ==
    /\ pc["listen"] = "setlistening" /\ Runs("listen") /\ ~freed
    /\ listening' = TRUE
    /\ Done("listen")
    /\ UNCHANGED <<haspeer, bound, rebind, isserver, isconnected, wasconnected, pending,
          hand, crash>>
    /\ UNCHANGED <<connVars, sockVars>>

\* kernel_accept on the tunnel's socket.
Accept ==
    /\ pc["accept"] = "accept" /\ Runs("accept") /\ ~freed
    /\ \/ /\ sock = NoSock /\ crash' = "null" /\ UNCHANGED <<state, local, hand, pc>>
       \/ /\ sock # NoSock /\ Done("accept") /\ UNCHANGED <<state, local, hand, crash>>
       \/ /\ sock # NoSock /\ state[sock] = "listen"
          /\ \E s \in {t \in Socks : state[t] = "none"} :
                /\ state' = [state EXCEPT ![s] = "connected"]
                /\ local' = [local EXCEPT ![s] = local[sock]]
                /\ hand' = [hand EXCEPT !["accept"] = {s}]
          /\ GoTo("accept", "accepted")
          /\ UNCHANGED <<crash>>
    /\ UNCHANGED <<sock, active, attached, pending>>
    /\ UNCHANGED <<flagVars, connVars>>

\* Variant: the connection before is not closed.
AcceptedLeaks ==
    /\ pc["accept"] = "accepted" /\ Runs("accept") /\ ~freed
    /\ \E s \in hand["accept"] :
          /\ active' = s
          /\ attached' = (attached \ {active}) \cup {s}
    /\ isconnected' = TRUE /\ wasconnected' = TRUE
    /\ hand' = [hand EXCEPT !["accept"] = {}]
    /\ Done("accept")
    /\ UNCHANGED <<haspeer, bound, rebind, listening, isserver, sock, state,
          local, pending, crash>>
    /\ UNCHANGED connVars

\* The new connection replaces the one before.
Accepted ==
    /\ pc["accept"] = "accepted" /\ Runs("accept") /\ ~freed
    /\ \E s \in hand["accept"] :
          /\ active' = s
          /\ attached' = (attached \ {active}) \cup {s}
    /\ state' = _myclose({active})
    /\ isconnected' = TRUE /\ wasconnected' = TRUE
    /\ hand' = [hand EXCEPT !["accept"] = {}]
    /\ Done("accept")
    /\ UNCHANGED <<haspeer, bound, rebind, listening, isserver, sock, local,
          pending, crash>>
    /\ UNCHANGED connVars

-----------------------------------------------------------------------------
(* Softirq contexts: the timer, and what the socket layer reports.         *)

\* Variant: the pointers to the released sockets are kept.
linkdown_keeps ==
    /\ state' = _myclose({IF listening THEN active ELSE sock})
    /\ isconnected' = (isconnected /\ listening)
    /\ UNCHANGED <<active, sock>>

\* Variant: the client's socket is forgotten, not released.
linkdown_leaks ==
    \/ /\ listening
       /\ state' = _myclose({active}) /\ active' = NoSock
       /\ UNCHANGED <<isconnected, sock>>
    \/ /\ ~listening
       /\ sock' = NoSock /\ isconnected' = FALSE
       /\ UNCHANGED <<state, active>>

mpdccptun_linkdown ==
    \/ /\ listening
       /\ state' = _myclose({active}) /\ active' = NoSock
       /\ UNCHANGED <<isconnected, sock>>
    \/ /\ ~listening
       /\ state' = _myclose({sock}) /\ sock' = NoSock
       /\ isconnected' = FALSE
       /\ UNCHANGED active

\* The timer expires, 5 seconds after the connect ...
TimerFires ==
    /\ timer /\ Interrupts /\ ~inTimer
    /\ timer' = FALSE /\ inTimer' = TRUE
    /\ UNCHANGED <<laddr, ismpdccp, num_subflow, tostop, freed, raced, pending, pc,
          hand, crash>>
    /\ UNCHANGED <<flagVars, sockVars, askVars>>

\* ... and its handler is called, without a look whether it was stopped since.
conn_timer_handler ==
    /\ inTimer /\ crash = "no"
    /\ inTimer' = FALSE
    /\ crash' = IF freed THEN "freed" ELSE crash
    /\ \/ /\ ~ismpdccp \/ num_subflow > 0
          /\ UNCHANGED <<state, active, sock, isconnected>>
       \/ ismpdccp /\ num_subflow = 0 /\ mpdccptun_linkdown
    /\ UNCHANGED <<laddr, ismpdccp, num_subflow, timer, tostop, freed, raced, haspeer,
          bound, rebind, listening, isserver, wasconnected, local, attached, pending, pc,
          hand>>
    /\ UNCHANGED askVars

\* tp_subflow_report, for a meta socket that points to the tunnel; one that
\* was closed by linkdown still does.
Reports(s) ==
    /\ Mp /\ Interrupts /\ s \in attached /\ ~tostop
    /\ (ismpdccp /\ state[s] = "connected") \/ state[s] = "closed"

SubflowCreate(s) ==
    /\ Reports(s) /\ state[s] = "connected" /\ num_subflow < MaxSub
    /\ num_subflow' = num_subflow + 1
    /\ UNCHANGED <<laddr, ismpdccp, timer, inTimer, tostop, freed, raced, pending, pc,
          hand, crash>>
    /\ UNCHANGED <<flagVars, sockVars, askVars>>

\* Variant: the counter goes down although no name was found.
SubflowDestroyAlways(s) ==
    /\ Reports(s)
    /\ num_subflow' = num_subflow - 1
    /\ UNCHANGED <<laddr, ismpdccp, timer, inTimer, tostop, freed, raced, pending, pc,
          hand, crash>>
    /\ UNCHANGED <<flagVars, sockVars, askVars>>

SubflowDestroy(s) ==
    /\ Reports(s) /\ num_subflow > 0
    /\ num_subflow' = num_subflow - 1
    /\ UNCHANGED <<laddr, ismpdccp, timer, inTimer, tostop, freed, raced, pending, pc,
          hand, crash>>
    /\ UNCHANGED <<flagVars, sockVars, askVars>>

AllSubflowsDown(s) ==
    /\ Reports(s)
    /\ mpdccptun_linkdown
    /\ UNCHANGED <<haspeer, bound, rebind, listening, isserver, wasconnected,
          local, attached, pending, pc, hand, crash>>
    /\ UNCHANGED connVars

\* Such a report after the tunnel was freed.
StaleReport(s) ==
    /\ Mp /\ Interrupts /\ s \in attached /\ freed
    /\ crash' = "freed"
    /\ UNCHANGED <<pending, pc, hand>>
    /\ UNCHANGED <<flagVars, connVars, sockVars>>

\* tp_listen_ready: somebody wants to connect.
ListenReady(s) ==
    /\ Interrupts /\ s \in attached /\ ~freed
    /\ state[s] = "listen" /\ bound
    /\ queue_work("accept")
    /\ UNCHANGED <<pc, hand, crash>>
    /\ UNCHANGED <<flagVars, connVars, sockVars>>

\* The kernel forgets a closed socket that nobody is using.
Forget(s) ==
    /\ Interrupts /\ state[s] = "closed"
    /\ \A c \in Contexts : s \notin hand[c]
    /\ state' = [state EXCEPT ![s] = "none"]
    /\ local' = [local EXCEPT ![s] = NoAddr]
    /\ attached' = attached \ {s}
    /\ UNCHANGED <<sock, active, pending, pc, hand, crash>>
    /\ UNCHANGED <<flagVars, connVars>>

-----------------------------------------------------------------------------

\* mpdccptun_new.
Init ==
    /\ laddr = NoAddr
    /\ haspeer = FALSE /\ bound = FALSE /\ rebind = FALSE
    /\ listening = FALSE /\ isserver = FALSE
    /\ isconnected = FALSE /\ wasconnected = FALSE
    /\ sock = NoSock /\ active = NoSock
    /\ ismpdccp = Mp /\ num_subflow = 0 /\ timer = FALSE /\ inTimer = FALSE
    /\ tostop = FALSE /\ freed = FALSE
    /\ asked = FALSE /\ owed = FALSE /\ raced = FALSE
    /\ state = [s \in Socks |-> "none"]
    /\ local = [s \in Socks |-> NoAddr]
    /\ attached = {}
    /\ pending = [w \in Works |-> FALSE]
    /\ pc = [c \in Contexts |-> "idle"]
    /\ hand = [c \in Contexts |-> {}]
    /\ crash = "no"

Command ==
    \/ "bind" \in Commands /\ \E a \in Addrs : mpdccptun_bind(a)
    \/ "peer" \in Commands /\ \E new \in BOOLEAN : mpdccptun_peer(new)
    \/ "serverstart" \in Commands /\ mpdccptun_serverstart
    \/ "setqueue" \in Commands /\ mpdccptun_setqueue
    \/ "remove" \in Commands /\ Remove

Binder(w) ==
    \/ Start(w) \/ DoBind(w) \/ Release(w) \/ Create(w) \/ Setup(w)
    \/ Bind(w) \/ Bound(w) \/ SetBound(w) \/ SendEvent(w) \/ UseAfterFree(w)

connect_handler == Binder("conn") \/ Connect \/ Connected

listen_handler ==
    Binder("listen") \/ Listen \/ Relisten \/ DoListen \/ Listened \/ SetListening

accept_handler ==
    \/ Start("accept") \/ Accept \/ Accepted \/ SendEvent("accept")
    \/ UseAfterFree("accept")

Softirq ==
    \/ TimerFires \/ conn_timer_handler
    \/ \E s \in Socks :
          \/ SubflowCreate(s) \/ SubflowDestroy(s) \/ AllSubflowsDown(s)
          \/ StaleReport(s) \/ ListenReady(s) \/ Forget(s)

Next ==
    \/ Command \/ RemoveFree
    \/ connect_handler \/ listen_handler \/ accept_handler
    \/ Softirq

\* The workqueue runs what is queued, and the calls into the socket layer
\* return (kernel_connect gives up after the protocol's time limit).
Fairness ==
    /\ WF_vars(connect_handler)
    /\ WF_vars(listen_handler)
    /\ WF_vars(accept_handler)
    /\ WF_vars(RemoveFree)
    /\ WF_vars(conn_timer_handler)

Spec == Init /\ [][Next]_vars /\ Fairness
-----------------------------------------------------------------------------
(* Properties.                                                             *)

\* Every variable keeps its type; crash is the kind of the first failure.
TypeOK ==
    /\ laddr \in Addrs \cup {NoAddr}
    /\ {haspeer, bound, rebind, listening, isserver, isconnected,
        wasconnected, ismpdccp, timer, inTimer, tostop, freed, asked, owed,
        raced} \subseteq BOOLEAN
    /\ sock \in Socks \cup {NoSock}
    /\ active \in Socks \cup {NoSock}
    /\ num_subflow \in 0 .. MaxSub
    /\ state \in [Socks -> SockStates]
    /\ local \in [Socks -> Addrs \cup {NoAddr}]
    /\ attached \subseteq Socks
    /\ pending \in [Works -> BOOLEAN]
    /\ pc \in [Contexts -> PcStates]
    /\ hand \in [Contexts -> SUBSET Socks]
    /\ crash \in {"no", "null", "freed", "stale"}

\* The tunnel is client or server.  What becomes of one that is made both is
\* the subject of OneRole.
ClientOrServer == ~(haspeer /\ isserver)

Quiet == crash = "no" /\ \A c \in Contexts : pc[c] = "idle"

\* When no handler is running, every open socket is one of the two the
\* tunnel knows of and will close: mpdccptun_dobind never overwrites the
\* pointer to an open socket, and a new connection never that of the last.
NoSocketLeak == Quiet => Open \subseteq {sock, active}

\* The sockets the tunnel points to are open: they are not used, or closed
\* again, after mpdccptun_linkdown or mpdccptun_closesk has closed them.
NoDanglingSocket ==
    crash = "no" /\ ~freed => {sock, active} \subseteq Open \cup {NoSock}

\* While bound is set and no new address is noted, the socket is bound to
\* the address that was given last, on any number of CPUs; but for an address
\* that was given when kernel_bind had begun and bound was not yet set, which
\* mpdccptun_bind does not notice.
AddressInUse ==
    crash = "no" /\ bound /\ ~rebind /\ ~raced /\ sock # NoSock => local[sock] = laddr

\* No pointer to a socket is followed while it is NULL.
NoNullSocket == crash # "null"

\* As long as a server counts as listening its socket is neither replaced
\* nor lost: a link loss takes the accepted connection only, and a rebind or a
\* removal clears the flag first.  (A server may get the flag without a socket,
\* when the loss is reported between kernel_listen and the flag.)
ListenerKept == [][listening /\ listening' => sock' = sock]_vars

\* "setpeer -T" is answered: each mpdccptun_peer is followed by a run of
\* connect_handler that starts after it, also when the item was queued or
\* running already, and that run ends with LDT_EVTYPE_CONN_ESTAB or
\* CONN_ESTAB_FAIL.
Answered ==
    /\ asked ~> (~asked /\ owed) \/ crash # "no"
    /\ owed ~> ~owed \/ crash # "no"

\* cmd.c:677: "For (mp-)dccp tunnels the address can miss, which then
\* triggers a reconnect".
ReconnectHasSocket ==
    pc["conn"] = "connect" /\ ~tostop /\ haspeer => sock # NoSock

\* ldt_mpdccp.c:755: "we are already client, cannot become server".
OneRole == ~(isserver /\ sock # NoSock /\ state[sock] = "connected")

\* ldt_mpdccp.c:903 in mpdccptun_remove, before it frees the tunnel: "cancel
\* all pending work".
NoWorkAfterFree == crash # "freed"

\* cmd.c:592: "the local address can be bound only once".
BoundOnce == [][bound => laddr' = laddr]_vars
=============================================================================
