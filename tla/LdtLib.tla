------------------------------ MODULE LdtLib ------------------------------
(***************************************************************************)
(* libtunprox, ldt-tool/lib, against the kernel module it talks to.        *)
(*                                                                         *)
(* An application calls the library, which sends one request at a time     *)
(* over a netlink socket and waits for the answer.  sendmsg runs the       *)
(* kernel's handler, so that the answer stands in the receive queue when   *)
(* it returns, behind the events the handler and others have sent.  While  *)
(* it looks for an answer the library drops events; while it waits for an  *)
(* event it drops everything else.  ldt_tun_setpeer and                    *)
(* ldt_tun_serverstart do one after the other: the kernel only queues a    *)
(* work item for what they ask, and tells the outcome by an event.         *)
(*                                                                         *)
(* The library keeps the socket, and whether it has opened it by itself    *)
(* (autoopen): then a call closes it at its end.                       *)
(*                                                                         *)
(* Of the kernel only what shows in the messages is kept: which devices    *)
(* and tunnels exist, their connections and their work items (see LdtDev   *)
(* and LdtConn for more).                                                  *)
(*                                                                         *)
(* Definitions marked "Variant" are plausible mistakes, see TpQueue.       *)
(***************************************************************************)
EXTENDS Naturals, Sequences

CONSTANTS
    Devs,       \* the devices
    RxMax,      \* how many messages the socket's receive buffer holds
    Ops,        \* what the application calls
    World       \* what others do meanwhile

ASSUME LibAssumption ==
    /\ RxMax \in Nat \ {0}
    /\ Ops \subseteq {"create_dev", "rm_dev", "newtun", "rm_tun", "query", "bind",
                      "setpeer", "serverstart", "evopen", "evclose", "recv", "waitif"}
    /\ World \subseteq {"tun", "dev", "peer", "lost", "exit", "nosend"}

VARIABLES
    \* of the kernel
    loaded,     \* the module is loaded
    dev,        \* of each device: does it exist, has it a tunnel
    conn,       \* of each tunnel: its connection
    isserver,   \* of each tunnel: serverstart was called
    bound,      \* of each tunnel: it has a socket
    rebind,     \* of each tunnel: the next work item replaces the socket
    queued,     \* of each tunnel: its queued work items
    running,    \* of each tunnel: its running work items
    subscribed, \* the library's socket is subscribed to events
    \* of the socket
    rx,         \* the messages to be received
    congested,  \* the buffer has overflowed and not been emptied since
    sk_err,     \* the next receive returns ENOBUFS
    \* of the library
    tpfd,       \* the socket is open
    autoopen,   \* and the library has opened it by itself
    call,       \* the call of the application
    pc,         \* where it stands
    last,       \* what the last call returned
    \* history
    got,        \* whose answer the current request has received
    lost,       \* a message for this socket has been lost
    unsent,     \* a request could not be sent over this socket
    estab       \* what call asks for has happened since it was asked for

kernVars == <<loaded, dev, conn, isserver, bound, rebind, queued, running>>
sockVars == <<subscribed, rx, congested, sk_err, lost>>
libVars  == <<tpfd, autoopen, unsent, call, pc, last, got>>
vars == <<loaded, dev, conn, isserver, bound, rebind, queued, running, subscribed, rx,
          congested, sk_err, lost, tpfd, autoopen, unsent, call, pc, last, got, estab>>

Events == {"TUNDOWN", "TUNUP", "IFDOWN", "IFUP", "TPDOWN", "REBIND",
           "CONN_ESTAB", "CONN_ESTAB_FAIL", "CONN_LISTEN", "CONN_LISTEN_FAIL"}

\* tp_getparseflags: the events that are compared with the interface's name.
NeedIfc == {"IFDOWN", "IFUP", "REBIND"}

\* A message: fresh if it was sent since the last request, own if the handler
\* of one of the library's own requests has sent it.
Event(ev, d, own) == [k |-> "event", ev |-> ev, dev |-> d, own |-> own, fresh |-> TRUE]
Answer(ret) == [k |-> "answer", ret |-> ret, fresh |-> TRUE]

NoEvent == [k |-> "none"]
AnyDev == "any"
NoCall == [op |-> "none"]

\* What ldt_tun_setpeer and ldt_tun_serverstart wait for.
Good(op) == IF op = "setpeer" THEN "CONN_ESTAB" ELSE "CONN_LISTEN"
Bad(op)  == IF op = "setpeer" THEN "CONN_ESTAB_FAIL" ELSE "CONN_LISTEN_FAIL"
Waiting == {"setpeer", "serverstart"}
Awaited(op) == {"TUNDOWN", "IFDOWN", "TPDOWN", "REBIND", Bad(op), Good(op)}

Init ==
    /\ loaded = TRUE
    /\ dev \in [Devs -> {"dev", "tun"}]
    /\ conn = [d \in Devs |-> "no"]
    /\ isserver = [d \in Devs |-> FALSE]
    /\ bound = [d \in Devs |-> FALSE]
    /\ rebind = [d \in Devs |-> FALSE]
    /\ queued = [d \in Devs |-> {}]
    /\ running = [d \in Devs |-> {}]
    /\ subscribed = FALSE /\ rx = <<>> /\ congested = FALSE /\ sk_err = FALSE
    /\ tpfd = FALSE /\ autoopen = FALSE /\ unsent = FALSE
    /\ call = NoCall /\ pc = "idle" /\ last = NoCall
    /\ got = "none" /\ lost = FALSE /\ estab = FALSE

-----------------------------------------------------------------------------
(* The receive buffer.  A message that finds no room is dropped, and so    *)
(* are all that follow until the queue has been emptied.                   *)

Deliver(queue, msgs) ==
    LET room == IF congested THEN 0 ELSE RxMax - Len(queue)
        full == Len(msgs) > room
    IN  /\ rx' = queue \o (IF full THEN SubSeq(msgs, 1, room) ELSE msgs)
        /\ congested' = (congested \/ full)
        /\ sk_err' = (sk_err \/ (full /\ ~congested))
        /\ lost' = (lost \/ full)

\* ldt_event_crsend: to the library's socket if it is subscribed.
Told(msgs) == IF subscribed THEN msgs ELSE <<>>

Send(msgs) == Deliver(rx, Told(msgs))

\* recvmsg, of an error and of a message.
RecvErr == /\ sk_err /\ sk_err' = FALSE
           /\ UNCHANGED <<subscribed, rx, congested, lost>>
RecvMsg == /\ ~sk_err /\ rx # <<>>
           /\ rx' = Tail(rx)
           /\ congested' = (congested /\ Len(rx) > 1)
           /\ UNCHANGED <<subscribed, sk_err, lost>>
RecvTmo == ~sk_err /\ rx = <<>> /\ UNCHANGED sockVars

-----------------------------------------------------------------------------
(* The work items of the kernel and the commands of others.                *)

WorkStart(d, w) ==
    /\ w \in queued[d] /\ w \notin running[d]
    /\ queued' = [queued EXCEPT ![d] = @ \ {w}]
    /\ running' = [running EXCEPT ![d] = @ \cup {w}]
    \* mpdccptun_dobind
    /\ conn' = [conn EXCEPT ![d] = IF rebind[d] THEN "no" ELSE @]
    /\ rebind' = [rebind EXCEPT ![d] = FALSE]
    /\ bound' = [bound EXCEPT ![d] = TRUE]
    /\ UNCHANGED <<loaded, dev, isserver, estab>> /\ UNCHANGED <<sockVars, libVars>>

\* connect_handler, listen_handler: the outcome, and the event about it.  A
\* socket that is connected cannot be connected again.
WorkEnd(d, w, ok) ==
    LET ev == IF w = "conn" THEN (IF ok THEN "CONN_ESTAB" ELSE "CONN_ESTAB_FAIL")
              ELSE (IF ok THEN "CONN_LISTEN" ELSE "CONN_LISTEN_FAIL")
    IN  /\ w \in running[d]
        /\ ok => (w = "conn" => conn[d] = "no")
        /\ running' = [running EXCEPT ![d] = @ \ {w}]
        /\ conn' = [conn EXCEPT ![d] = IF ~ok THEN @ ELSE IF w = "conn" THEN "estab" ELSE "listen"]
        /\ Send(<<Event(ev, d, FALSE)>>)
        /\ estab' = (estab \/ (call # NoCall /\ ok /\ d = call.dev /\ ev = Good(call.op)))
        /\ UNCHANGED <<loaded, dev, isserver, bound, rebind, queued, subscribed>>
        /\ UNCHANGED libVars

\* Removing a tunnel ends what its work items do (an abstraction: LdtConn
\* shows what happens when they are still at it).
NoTunnel(ds) ==
    /\ conn' = [d \in Devs |-> IF d \in ds THEN "no" ELSE conn[d]]
    /\ isserver' = [d \in Devs |-> d \notin ds /\ isserver[d]]
    /\ bound' = [d \in Devs |-> d \notin ds /\ bound[d]]
    /\ rebind' = [d \in Devs |-> d \notin ds /\ rebind[d]]
    /\ queued' = [d \in Devs |-> IF d \in ds THEN {} ELSE queued[d]]
    /\ running' = [d \in Devs |-> IF d \in ds THEN {} ELSE running[d]]

Other == UNCHANGED <<subscribed, estab>> /\ UNCHANGED libVars

\* What the commands for devices and tunnels do, and the events they send.
\* ldt_free_dev sends IFDOWN before the tunnel goes with its device.
rm_tun2(d, own) ==
    /\ dev[d] = "tun"
    /\ dev' = [dev EXCEPT ![d] = "dev"] /\ NoTunnel({d})
    /\ Send(<<Event("TUNDOWN", d, own)>>)

dev_newtun(d, own) ==
    /\ dev[d] = "dev"
    /\ dev' = [dev EXCEPT ![d] = "tun"]
    /\ Send(<<Event("TUNUP", d, own)>>)
    /\ UNCHANGED <<conn, isserver, bound, rebind, queued, running>>

free_dev(d, own) ==
    /\ dev[d] # "no"
    /\ dev' = [dev EXCEPT ![d] = "no"] /\ NoTunnel({d})
    /\ Send(<<Event("IFDOWN", d, own)>>
            \o (IF dev[d] = "tun" THEN <<Event("TUNDOWN", d, own)>> ELSE <<>>))

create_dev(d, own) ==
    /\ dev[d] = "no"
    /\ dev' = [dev EXCEPT ![d] = "dev"]
    /\ Send(<<Event("IFUP", d, own)>>)
    /\ UNCHANGED <<conn, isserver, bound, rebind, queued, running>>

\* Another process gives them.
RmTun(d)  == "tun" \in World /\ loaded /\ rm_tun2(d, FALSE) /\ UNCHANGED loaded /\ Other
NewTun(d) == "tun" \in World /\ loaded /\ dev_newtun(d, FALSE) /\ UNCHANGED loaded /\ Other
RmDev(d)  == "dev" \in World /\ loaded /\ free_dev(d, FALSE) /\ UNCHANGED loaded /\ Other
NewDev(d) == "dev" \in World /\ loaded /\ create_dev(d, FALSE) /\ UNCHANGED loaded /\ Other

\* Another process connects the tunnel (setpeer).
OtherPeer(d) ==
    /\ "peer" \in World /\ loaded /\ dev[d] = "tun"
    /\ queued' = [queued EXCEPT ![d] = IF isserver[d] THEN @ ELSE @ \cup {"conn"}]
    /\ Send(<<Event("REBIND", d, FALSE)>>)
    /\ UNCHANGED <<loaded, dev, conn, isserver, bound, rebind, running>> /\ Other

\* The remote end goes away: no event of those modelled tells it.
LinkLost(d) ==
    /\ "lost" \in World /\ conn[d] = "estab"
    /\ conn' = [conn EXCEPT ![d] = "no"]
    /\ UNCHANGED <<loaded, dev, isserver, bound, rebind, queued, running>>
    /\ UNCHANGED <<sockVars, libVars, estab>>

\* ldt_module_exit: the devices are removed one after the other, then the
\* module tells of its own end.  Nothing says that it gets so far: a device that
\* somebody holds stops it (LdtDev).  That none is made behind it is assumed.
ExitDev(d) == "exit" \in World /\ loaded /\ free_dev(d, FALSE) /\ UNCHANGED loaded /\ Other

ModuleExit ==
    /\ "exit" \in World /\ loaded /\ \A d \in Devs : dev[d] = "no"
    /\ loaded' = FALSE /\ subscribed' = FALSE
    /\ Send(<<Event("TPDOWN", AnyDev, FALSE)>>)
    /\ UNCHANGED <<dev, conn, isserver, bound, rebind, queued, running, estab>>
    /\ UNCHANGED libVars

-----------------------------------------------------------------------------
(* The socket of the library.                                              *)

\* ldt_close, and ldt_mayclose (with the call in hand).
Closed ==
    /\ tpfd' = FALSE /\ autoopen' = FALSE
    /\ subscribed' = FALSE /\ rx' = <<>> /\ congested' = FALSE /\ sk_err' = FALSE
    /\ lost' = FALSE /\ unsent' = FALSE

ldt_mayclose ==
    IF autoopen THEN Closed ELSE UNCHANGED <<tpfd, autoopen, unsent>> /\ UNCHANGED sockVars

Return(ret, ev) ==
    /\ last' = [op |-> call.op, dev |-> call.dev, ret |-> ret, ev |-> ev,
              estab |-> estab, lost |-> lost]
    /\ call' = NoCall /\ pc' = "idle"

\* After a call into the library that ends the request in hand.
GoOn(where) == pc' = where /\ UNCHANGED <<call, last>>

\* ldt_nl_send, up to the handler: an own socket is opened when there is none.
\* The messages that are in the queue now are older than the request.
Older == [i \in DOMAIN rx |-> [rx[i] EXCEPT !.fresh = FALSE]]

ldt_nl_send(where) ==
    /\ tpfd \/ loaded
    /\ tpfd' = TRUE /\ autoopen' = (autoopen \/ ~tpfd) /\ UNCHANGED unsent
    /\ rx' = Older /\ got' = "none"
    /\ GoOn(where)
    /\ UNCHANGED <<subscribed, congested, sk_err, lost>>

-----------------------------------------------------------------------------
(* The calls of the application.                                           *)

First(op) == CASE op \in {"setpeer", "serverstart", "evopen"} -> "sub"
               [] op \in {"recv", "waitif"} -> "wait"
               [] OTHER -> "req"

Call(op, d, tout, set) ==
    /\ pc = "idle" /\ op \in Ops
    /\ call' = [op |-> op, dev |-> d, tout |-> tout, set |-> set]
    /\ pc' = First(op) /\ last' = NoCall
    /\ got' = "none" /\ estab' = FALSE
    /\ UNCHANGED <<kernVars, sockVars, tpfd, autoopen, unsent>>

\* The commands: one request and its answer.
ldt_create_dev(d) == Call("create_dev", d, FALSE, {})
ldt_rm_dev(d)     == Call("rm_dev", d, FALSE, {})
ldt_newtun(d)     == Call("newtun", d, FALSE, {})
ldt_rm_tun(d)     == Call("rm_tun", d, FALSE, {})
ldt_tunbind(d)    == Call("bind", d, FALSE, {})

\* ldt_get_version and the others that ask, ldt_set_mtu, ldt_tun_setqueue.
ldt_query(d)      == Call("query", d, FALSE, {})

\* And those that wait for an event.
ldt_event_open(d) == Call("evopen", d, FALSE, {})
ldt_event_recv(d, tout) == Call("recv", d, tout, {})
ldt_tun_setpeer(d, tout) == Call("setpeer", d, tout, Awaited("setpeer"))
ldt_tun_serverstart(d, tout) == Call("serverstart", d, tout, Awaited("serverstart"))

ldt_event_close ==
    /\ pc = "idle" /\ "evclose" \in Ops /\ tpfd
    /\ Closed
    /\ UNCHANGED <<kernVars, call, pc, last, got, estab>>

\* ldt_subscribe: opens the socket for good and sends the request.
ldt_subscribe ==
    /\ pc = "sub"
    /\ tpfd \/ loaded
    /\ tpfd' = TRUE /\ UNCHANGED <<autoopen, unsent>>
    /\ got' = "none" /\ GoOn("subget")
    /\ subscribed' = loaded
    /\ Deliver(Older, <<Answer(IF loaded THEN "ok" ELSE "err")>>)
    /\ UNCHANGED <<kernVars, estab>>

\* There is no module to open a socket to.  ldt_tun_setpeer and
\* ldt_tun_serverstart go on all the same.
SubscribeFails ==
    /\ pc = "sub" /\ ~tpfd /\ ~loaded
    /\ \/ call.op = "evopen" /\ Return("err", NoEvent)
       \/ call.op # "evopen" /\ GoOn("req")
    /\ UNCHANGED <<kernVars, sockVars, tpfd, autoopen, unsent, got, estab>>

\* sendmsg fails in ldt_nl_send.  The socket stays as it is: open for good.
SubscribeUnsent ==
    /\ pc = "sub" /\ "nosend" \in World /\ (tpfd \/ loaded)
    /\ tpfd' = TRUE /\ UNCHANGED autoopen /\ unsent' = TRUE
    /\ \/ call.op = "evopen" /\ Return("err", NoEvent)
       \/ call.op # "evopen" /\ GoOn("req")
    /\ UNCHANGED <<kernVars, sockVars, got, estab>>

\* A request: what is asked for, from now on.
Request ==
    /\ pc = "req" /\ ldt_nl_send("handler")
    /\ estab' = FALSE
    /\ UNCHANGED kernVars

RequestFails ==
    /\ pc = "req" /\ ~tpfd /\ ~loaded
    /\ Return("err", NoEvent)
    /\ UNCHANGED <<kernVars, sockVars, tpfd, autoopen, unsent, got, estab>>

\* sendmsg fails, for a command or for ldt_event_send: they return without
\* ldt_mayclose, which only ldt_tun_setpeer and ldt_tun_serverstart call then.
RequestUnsent ==
    /\ pc \in {"req", "fail"} /\ "nosend" \in World /\ (tpfd \/ loaded)
    /\ Return(IF pc = "req" THEN "err" ELSE "fail", NoEvent)
    /\ IF call.op \in Waiting /\ (autoopen \/ ~tpfd)
       THEN Closed
       ELSE /\ tpfd' = TRUE /\ autoopen' = (autoopen \/ ~tpfd) /\ unsent' = TRUE
            /\ UNCHANGED sockVars
    /\ UNCHANGED <<kernVars, got, estab>>

\* The handler of the kernel, until it sends its answer: of a command for a
\* device or a tunnel, which may be refused,
HandlerDev ==
    /\ pc = "handler" /\ loaded
    /\ CASE call.op = "create_dev" -> create_dev(call.dev, TRUE)
         [] call.op = "rm_dev" -> free_dev(call.dev, TRUE)
         [] call.op = "newtun" -> dev_newtun(call.dev, TRUE)
         [] call.op = "rm_tun" -> rm_tun2(call.dev, TRUE)
         [] OTHER -> FALSE
    /\ GoOn("answer_ok")
    /\ UNCHANGED <<loaded, subscribed, tpfd, autoopen, unsent, got, estab>>

\* of any command, when it only answers (to remove a device that is not there
\* is no error),
HandlerOnly ==
    /\ pc = "handler"
    /\ \/ ~(call.op = "rm_dev" /\ loaded) /\ GoOn("answer_err")
       \/ /\ loaded /\ GoOn("answer_ok")
          /\ \/ call.op = "query"
             \/ call.op = "rm_tun" /\ dev[call.dev] = "dev"
             \/ call.op = "rm_dev" /\ dev[call.dev] = "no"
    /\ UNCHANGED <<kernVars, sockVars, tpfd, autoopen, unsent, got, estab>>

\* and of ldt_nl_peer, ldt_nl_bind and ldt_nl_serverstart.
HandlerTun ==
    LET d == call.dev
    IN  /\ pc = "handler" /\ loaded /\ dev[d] = "tun"
        /\ \/ /\ call.op = "setpeer"
              /\ queued' = [queued EXCEPT ![d] = IF isserver[d] THEN @ ELSE @ \cup {"conn"}]
              /\ GoOn("rebound")
              /\ UNCHANGED <<isserver, rebind>>
           \/ /\ call.op = "bind"
              /\ rebind' = [rebind EXCEPT ![d] = @ \/ bound[d]]
              /\ queued' = [queued EXCEPT ![d] = @ \cup
                    (CASE conn[d] = "estab" -> {"conn"} [] conn[d] = "listen" -> {"listen"}
                       [] OTHER -> {})]
              /\ GoOn("rebound")
              /\ UNCHANGED isserver
           \/ /\ call.op = "serverstart" /\ conn[d] # "estab"
              /\ isserver' = [isserver EXCEPT ![d] = TRUE]
              /\ queued' = [queued EXCEPT ![d] = IF isserver[d] THEN @ ELSE @ \cup {"listen"}]
              /\ GoOn("answer_ok")
              /\ UNCHANGED rebind
        /\ UNCHANGED <<loaded, dev, conn, bound, running, estab, tpfd, autoopen, unsent, got>>
        /\ UNCHANGED sockVars

\* Variant: the handler answers before it tells the others.
RebindAfterAnswer ==
    /\ pc = "rebound"
    /\ Deliver(rx, <<Answer("ok")>> \o Told(<<Event("REBIND", call.dev, TRUE)>>))
    /\ GoOn("reqget")
    /\ UNCHANGED <<kernVars, subscribed, tpfd, autoopen, unsent, got, estab>>

\* ldt_tun_peer and ldt_tun_bind send REBIND.
Rebound ==
    /\ pc = "rebound"
    /\ Send(<<Event("REBIND", call.dev, TRUE)>>)
    /\ GoOn("answer_ok")
    /\ UNCHANGED <<kernVars, subscribed, tpfd, autoopen, unsent, got, estab>>

send_ret ==
    /\ pc \in {"answer_ok", "answer_err"}
    /\ Deliver(rx, <<Answer(IF loaded /\ pc = "answer_ok" THEN "ok" ELSE "err")>>)
    /\ GoOn("reqget")
    /\ UNCHANGED <<kernVars, subscribed, tpfd, autoopen, unsent, got, estab>>

\* ldt_getinfo has the answer, or an error instead of it: what its caller does.
Answered(ret) ==
    CASE pc = "subget" /\ call.op = "evopen" -> Return(ret, NoEvent)
      [] pc = "subget" /\ call.op # "evopen" -> GoOn("req")
      [] pc = "failget" -> Return("fail", NoEvent)
      [] pc = "reqget" /\ ret = "ok" /\ call.op \in Waiting /\ call.tout -> GoOn("wait")
      [] OTHER -> Return(ret, NoEvent)

\* Variant: an event is not what was expected, and ends the search.
GetinfoEventIsError ==
    /\ pc \in {"subget", "reqget", "failget"}
    /\ RecvMsg /\ Head(rx).k = "event"
    /\ Answered("err")
    /\ UNCHANGED <<kernVars, tpfd, autoopen, unsent, got, estab>>

\* ldt_getinfo: events are dropped.
GetinfoEvent ==
    /\ pc \in {"subget", "reqget", "failget"}
    /\ RecvMsg /\ Head(rx).k = "event"
    /\ UNCHANGED <<kernVars, tpfd, autoopen, unsent, call, pc, last, got, estab>>

\* Variant: the command does not close the socket it has opened.
GetinfoNoClose ==
    /\ pc \in {"subget", "reqget", "failget"}
    /\ RecvMsg /\ Head(rx).k = "answer"
    /\ got' = "mine"
    /\ Answered(IF Head(rx).ret = "ok" THEN "ok" ELSE "err")
    /\ UNCHANGED <<kernVars, tpfd, autoopen, unsent, estab>>

ldt_getinfo ==
    /\ pc \in {"subget", "reqget", "failget"}
    /\ ~sk_err /\ rx # <<>> /\ Head(rx).k = "answer"
    /\ got' = CASE Head(rx).fresh -> "mine" [] lost -> "shifted" [] OTHER -> "other"
    /\ IF autoopen /\ pc # "subget" THEN Closed ELSE RecvMsg /\ UNCHANGED <<tpfd, autoopen, unsent>>
    /\ Answered(IF Head(rx).ret = "ok" THEN "ok" ELSE "err")
    /\ UNCHANGED <<kernVars, estab>>

\* ENOBUFS, or no answer within the timeout.
GetinfoFails ==
    /\ pc \in {"subget", "reqget", "failget"}
    /\ sk_err \/ rx = <<>>
    /\ IF autoopen /\ pc # "subget" THEN Closed
       ELSE (RecvErr \/ RecvTmo) /\ UNCHANGED <<tpfd, autoopen, unsent>>
    /\ Answered("err")
    /\ UNCHANGED <<kernVars, got, estab>>

-----------------------------------------------------------------------------
(* Waiting for an event: ldt_event_recv, ldt_waitev2, ldt_waitifaceev.     *)

\* The events that end the wait.
Ends(m) ==
    /\ m.k = "event"
    /\ call.op = "recv" \/ m.ev \in call.set
    /\ ~(call.op # "recv" /\ m.ev \in NeedIfc /\ m.dev # call.dev)

WaitSkips ==
    /\ pc = "wait" /\ RecvMsg /\ ~Ends(Head(rx)) /\ Head(rx).k = "event"
    /\ UNCHANGED <<kernVars, tpfd, autoopen, unsent, call, pc, last, got, estab>>

\* A late answer is no event.  A refusal is one of the netlink layer itself
\* (send_ret), NLMSG_ERROR, and ends the wait: WaitError.
WaitAnswer ==
    /\ pc = "wait" /\ RecvMsg /\ Head(rx).k = "answer" /\ Head(rx).ret = "ok"
    /\ UNCHANGED <<tpfd, autoopen, unsent, call, pc, last, got>>
    /\ UNCHANGED <<kernVars, estab>>

\* Variant: any of the events awaited means that the connection stands.
AnyEventIsSuccess ==
    /\ pc = "wait" /\ ~sk_err /\ rx # <<>> /\ Ends(Head(rx))
    /\ Return("ok", Head(rx))
    /\ IF call.op \notin Waiting
       THEN RecvMsg /\ UNCHANGED <<tpfd, autoopen, unsent>>
       ELSE IF autoopen THEN Closed ELSE RecvMsg /\ UNCHANGED <<tpfd, autoopen, unsent>>
    /\ UNCHANGED <<kernVars, got, estab>>

\* The event that was waited for, or the one that tells of the failure.
WaitReturns ==
    LET m == Head(rx)
    IN  /\ pc = "wait" /\ ~sk_err /\ rx # <<>> /\ Ends(m)
        /\ \/ call.op \notin Waiting /\ Return("ok", m)
           \/ call.op \in Waiting /\ m.ev = Good(call.op) /\ Return("ok", m)
           \/ call.op \in Waiting /\ m.ev = Bad(call.op) /\ Return("err", m)
        /\ IF autoopen /\ call.op \in Waiting
           THEN Closed
           ELSE RecvMsg /\ UNCHANGED <<tpfd, autoopen, unsent>>
        /\ UNCHANGED <<kernVars, got, estab>>

\* Another end of the wait: a failure that the library itself tells to all,
\* by ldt_event_send.
WaitBroken ==
    /\ pc = "wait" /\ call.op \in Waiting
    /\ RecvMsg /\ Ends(Head(rx)) /\ Head(rx).ev \notin {Good(call.op), Bad(call.op)}
    /\ GoOn("fail")
    /\ UNCHANGED <<kernVars, tpfd, autoopen, unsent, got, estab>>

\* Variant: a closed socket is never ready.
WaitErrorOpenOnly ==
    /\ pc = "wait" /\ RecvErr
    /\ IF call.op \in Waiting THEN GoOn("fail") ELSE Return("err", NoEvent)
    /\ UNCHANGED <<kernVars, tpfd, autoopen, unsent, got, estab>>

\* An error: the socket is closed, the buffer has overflowed, or a command was
\* refused.
WaitError ==
    /\ pc = "wait"
    /\ \/ ~tpfd /\ UNCHANGED sockVars
       \/ tpfd /\ RecvErr
       \/ RecvMsg /\ Head(rx).k = "answer" /\ Head(rx).ret = "err"
    /\ IF call.op \in Waiting THEN GoOn("fail") ELSE Return("err", NoEvent)
    /\ UNCHANGED <<kernVars, tpfd, autoopen, unsent, got, estab>>

WaitTimeout ==
    /\ pc = "wait" /\ call.tout /\ tpfd
    /\ ~sk_err /\ rx = <<>>
    /\ Return("timeout", NoEvent)
    /\ IF call.op \in Waiting THEN ldt_mayclose
       ELSE UNCHANGED <<tpfd, autoopen, unsent>> /\ UNCHANGED sockVars
    /\ UNCHANGED <<kernVars, got, estab>>

\* ldt_event_send and ldt_nl_evsend: the event comes back to the sender too,
\* before the answer.
ldt_event_send ==
    /\ pc = "fail" /\ (tpfd \/ loaded)
    /\ tpfd' = TRUE /\ autoopen' = (autoopen \/ ~tpfd) /\ UNCHANGED unsent
    /\ got' = "none" /\ GoOn("failget")
    /\ LET there == loaded /\ dev[call.dev] # "no"
       IN  Deliver(Older, Told(IF there THEN <<Event(Bad(call.op), call.dev, TRUE)>> ELSE <<>>)
                          \o <<Answer(IF there THEN "ok" ELSE "err")>>)
    /\ UNCHANGED <<kernVars, subscribed, estab>>

EventSendFails ==
    /\ pc = "fail" /\ ~tpfd /\ ~loaded
    /\ Return("fail", NoEvent)
    /\ UNCHANGED <<kernVars, sockVars, tpfd, autoopen, unsent, got, estab>>

-----------------------------------------------------------------------------
Library ==
    \/ ldt_subscribe \/ SubscribeFails \/ SubscribeUnsent
    \/ Request \/ RequestFails \/ RequestUnsent
    \/ HandlerDev \/ HandlerOnly \/ HandlerTun \/ Rebound \/ send_ret
    \/ GetinfoEvent \/ ldt_getinfo \/ GetinfoFails
    \/ WaitSkips \/ WaitAnswer \/ WaitReturns \/ WaitBroken \/ WaitError \/ WaitTimeout
    \/ ldt_event_send \/ EventSendFails

Kernel ==
    \E d \in Devs : \E w \in {"conn", "listen"} :
        WorkStart(d, w) \/ \E ok \in BOOLEAN : WorkEnd(d, w, ok)

Others ==
    \/ \E d \in Devs : RmTun(d) \/ NewTun(d) \/ RmDev(d) \/ NewDev(d) \/ OtherPeer(d)
                      \/ LinkLost(d) \/ ExitDev(d)
    \/ ModuleExit

Application ==
    \/ \E d \in Devs :
          \/ ldt_create_dev(d) \/ ldt_rm_dev(d) \/ ldt_newtun(d) \/ ldt_rm_tun(d)
          \/ ldt_tunbind(d) \/ ldt_query(d) \/ ldt_event_open(d)
          \/ \E tout \in BOOLEAN :
                \/ ldt_event_recv(d, tout) \/ ldt_tun_setpeer(d, tout)
                \/ ldt_tun_serverstart(d, tout)
    \/ ldt_event_close

Next == Library \/ Kernel \/ Others \/ Application

Spec == Init /\ [][Next]_vars

\* The library's process and the kernel's workers run.
FairSpec == Spec /\ WF_vars(Library) /\ WF_vars(Kernel)

-----------------------------------------------------------------------------
Messages == [k : {"event"}, ev : Events, dev : Devs \cup {AnyDev}, own : BOOLEAN, fresh : BOOLEAN]
            \cup [k : {"answer"}, ret : {"ok", "err"}, fresh : BOOLEAN]

(* The state is well formed; a closed socket holds no messages and is not
   subscribed, and one the library has opened by itself is open only within
   a call (ldt_mayclose at the end of every command of ldt_cfgcmd.c), unless
   a request could not be sent over it: that way out closes nothing.       *)
TypeOK ==
    /\ rx \in Seq(Messages) /\ Len(rx) <= RxMax
    /\ dev \in [Devs -> {"no", "dev", "tun"}]
    /\ conn \in [Devs -> {"no", "estab", "listen"}]
    /\ got \in {"none", "mine", "shifted", "other"}
    /\ ~tpfd => ~subscribed /\ rx = <<>> /\ ~autoopen
    /\ autoopen /\ ~unsent => pc # "idle"

(* ldt_getinfo compares no sequence numbers.  Still the answer it returns is
   the one to the request its caller has sent, as long as no message has been
   lost by an overflow of the receive buffer.                              *)
AnswerIsMine == got # "other"

(* The kernel tells everyone, the sender too, that a tunnel is rebound by
   bind and peer, and ldt_tun_setpeer takes a REBIND for a failure.  Its own
   have all been dropped, by ldt_getinfo, when it begins to wait.          *)
OwnRebindDropped ==
    (pc = "wait" /\ call.op \in Waiting /\ ~lost) => \A i \in DOMAIN rx : ~rx[i].own

(* What the socket holds goes to whom it is meant: the answer ldt_getinfo
   returns is the one to its caller's request, and no REBIND of the caller's
   own is left for ldt_tun_setpeer to be taken for a failure.              *)
MessagesSorted == TypeOK /\ AnswerIsMine /\ OwnRebindDropped

(* ldt_tun_setpeer and ldt_tun_serverstart report success only for an event
   that was sent after they had asked the kernel: one of an earlier attempt,
   left in the queue, is never taken for the outcome of this one.          *)
SuccessIsFresh ==
    (last # NoCall /\ last.op \in Waiting /\ last.ret = "ok" /\ ~last.lost)
        => last.ev = NoEvent \/ (last.ev.fresh /\ last.ev.ev = Good(last.op))

(* Every call returns, whatever becomes of the module, but for a wait without
   a timeout: no answer that is missing, socket that cannot be opened or
   closed socket keeps the caller (others being quiet).                    *)
CallEnds == (pc # "idle" /\ ~(call.op = "recv" /\ ~call.tout)) ~> pc = "idle"

(* Claim: what ldt_getinfo receives while it looks for the answer "should be
   handled": a connection that is established before the answer arrives is
   not reported as timed out.                                              *)
EstabReported ==
    (last # NoCall /\ last.op = "setpeer" /\ last.ret = "timeout") => ~last.estab

(* Claim: ldt_waitifaceev waits for the events of listen_iface: setpeer of one
   device does not succeed by the connection of another.                   *)
SuccessOfMyDevice ==
    (last # NoCall /\ last.op = "setpeer" /\ last.ret = "ok" /\ last.ev # NoEvent)
        => last.ev.dev = last.dev
=============================================================================
