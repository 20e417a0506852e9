---------------------------- MODULE LdtLibProofs ----------------------------
(***************************************************************************)
(* Theorems about libtunprox and the connection manager, for every set of  *)
(* devices, every size of the receive buffer and every set of calls.       *)
(*                                                                         *)
(* ldt_getinfo compares no sequence numbers.  What keeps answers and       *)
(* requests together is the order of the receive queue: while a request is *)
(* in hand, its answer is the only one in the queue; the events in front   *)
(* of it, the caller's own among them, are dropped while it is looked for, *)
(* and behind it there are only events of others, sent since.  All this    *)
(* holds as long as the buffer has not overflowed.                         *)
(***************************************************************************)
EXTENDS Conman, SequenceTheorems, TLAPS

-----------------------------------------------------------------------------
(* What a receive queue q holds.                                           *)

OnlyEvents(q) == \A k \in 1 .. Len(q) : q[k].k = "event"
Foreign(q) == \A k \in 1 .. Len(q) : q[k].k = "event" /\ q[k].own = FALSE
AllNew(q) == \A k \in 1 .. Len(q) : q[k].fresh

OneAnswer(q) ==
    \E k \in 1 .. Len(q) :
        /\ q[k].k = "answer" /\ q[k].fresh
        /\ \A j \in 1 .. Len(q) : j # k => q[j].k = "event"
        /\ \A j \in 1 .. Len(q) : j > k => q[j].fresh /\ q[j].own = FALSE

\* The steps of ldt_getinfo, those of the handler that runs within sendmsg,
\* and the others.
Asking == {"subget", "reqget", "failget"}
Handling == {"rebound", "answer_ok", "answer_err"}
Apart == {"idle", "sub", "req", "handler", "wait", "fail"}

Socket ==
    /\ rx \in Seq(Messages) /\ Len(rx) <= RxMax
    /\ congested \in BOOLEAN /\ sk_err \in BOOLEAN /\ lost \in BOOLEAN
    /\ tpfd \in BOOLEAN /\ autoopen \in BOOLEAN
    /\ ~tpfd => ~subscribed /\ rx = <<>> /\ ~autoopen
    /\ unsent \in BOOLEAN
    /\ autoopen /\ ~unsent => /\ pc \notin {"idle", "sub", "subget"}
                              /\ pc = "wait" => call.op \in Waiting

Control ==
    /\ pc \in Asking \cup Handling \cup Apart
    /\ pc # "idle" => call.dev \in Devs
    /\ pc \in {"handler"} \cup Handling \cup Asking => tpfd

Queue ==
    ~lost => /\ ~sk_err /\ ~congested
             /\ pc \in Asking => OneAnswer(rx)
             /\ pc \in Handling => OnlyEvents(rx)
             /\ pc \in Apart => Foreign(rx)
             /\ pc = "wait" /\ call.op \in Waiting => AllNew(rx)

Device ==
    /\ dev \in [Devs -> {"no", "dev", "tun"}]
    /\ conn \in [Devs -> {"no", "estab", "listen"}]

Returned ==
    /\ got \in {"none", "mine", "shifted"}
    /\ SuccessIsFresh

LibInv == Device /\ Socket /\ Control /\ Queue /\ Returned

-----------------------------------------------------------------------------
(* Operations on the queue.                                                *)

LEMMA EventTypes ==
    ASSUME NEW ev \in Events, NEW d \in Devs \cup {AnyDev}, NEW own \in BOOLEAN
    PROVE  /\ Event(ev, d, own) \in Messages
           /\ Event(ev, d, own).k = "event" /\ Event(ev, d, own).own = own
           /\ Event(ev, d, own).fresh
  BY DEF Event, Messages

LEMMA AnswerTypes ==
    ASSUME NEW ret \in {"ok", "err"}
    PROVE  /\ Answer(ret) \in Messages
           /\ Answer(ret).k = "answer" /\ Answer(ret).fresh
  BY DEF Answer, Messages

\* One message makes a queue of which its properties hold.
LEMMA Single ==
    ASSUME NEW m \in Messages
    PROVE  /\ <<m>> \in Seq(Messages) /\ Len(<<m>>) = 1
           /\ m.k = "event" => OnlyEvents(<<m>>)
           /\ m.k = "event" /\ m.own = FALSE => Foreign(<<m>>)
           /\ m.fresh => AllNew(<<m>>)
  BY DEF OnlyEvents, Foreign, AllNew

LEMMA EmptyQueue ==
    /\ <<>> \in Seq(Messages) /\ Len(<<>>) = 0
    /\ OnlyEvents(<<>>) /\ Foreign(<<>>) /\ AllNew(<<>>)
  BY DEF OnlyEvents, Foreign, AllNew

LEMMA ForeignEvents ==
    ASSUME NEW q, Foreign(q) PROVE OnlyEvents(q)
  BY DEF OnlyEvents, Foreign

\* Messages behind a queue.
LEMMA Behind ==
    ASSUME NEW q \in Seq(Messages), NEW ms \in Seq(Messages)
    PROVE  /\ q \o ms \in Seq(Messages) /\ Len(q \o ms) = Len(q) + Len(ms)
           /\ OnlyEvents(q) /\ OnlyEvents(ms) => OnlyEvents(q \o ms)
           /\ Foreign(q) /\ Foreign(ms) => Foreign(q \o ms)
           /\ AllNew(q) /\ AllNew(ms) => AllNew(q \o ms)
           /\ OneAnswer(q) /\ Foreign(ms) /\ AllNew(ms) => OneAnswer(q \o ms)
<1> DEFINE r == q \o ms
<1>1. r \in Seq(Messages) /\ Len(r) = Len(q) + Len(ms)
  BY ConcatProperties
<1>2. \A k \in 1 .. Len(r) :
         r[k] = IF k <= Len(q) THEN q[k] ELSE ms[k - Len(q)]
  BY ConcatProperties
<1>3. Len(q) \in Nat /\ Len(ms) \in Nat
  BY LenProperties
<1>4. \A k \in 1 .. Len(r) : \/ k \in 1 .. Len(q) /\ r[k] = q[k]
                             \/ k - Len(q) \in 1 .. Len(ms) /\ k > Len(q) /\ r[k] = ms[k - Len(q)]
  BY <1>1, <1>2, <1>3
<1>5. \A k \in 1 .. Len(q) : k \in 1 .. Len(r) /\ r[k] = q[k]
  BY <1>1, <1>2, <1>3
<1> HIDE DEF r
<1>6. OnlyEvents(q) /\ OnlyEvents(ms) => OnlyEvents(r)
  BY <1>4 DEF OnlyEvents
<1>7. Foreign(q) /\ Foreign(ms) => Foreign(r)
  BY <1>4 DEF Foreign
<1>8. AllNew(q) /\ AllNew(ms) => AllNew(r)
  BY <1>4 DEF AllNew
<1>9. ASSUME OneAnswer(q), Foreign(ms), AllNew(ms) PROVE OneAnswer(r)
  <2>1. PICK k \in 1 .. Len(q) :
           /\ q[k].k = "answer" /\ q[k].fresh
           /\ \A j \in 1 .. Len(q) : j # k => q[j].k = "event"
           /\ \A j \in 1 .. Len(q) : j > k => q[j].fresh /\ q[j].own = FALSE
    BY <1>9 DEF OneAnswer
  <2>2. k \in 1 .. Len(r) /\ r[k].k = "answer" /\ r[k].fresh
    BY <1>5, <2>1
  <2>3. ASSUME NEW j \in 1 .. Len(r), j # k PROVE r[j].k = "event"
    BY <1>4, <1>9, <2>1, <2>3 DEF Foreign
  <2>4. ASSUME NEW j \in 1 .. Len(r), j > k PROVE r[j].fresh /\ r[j].own = FALSE
    BY <1>4, <1>9, <2>1, <2>4 DEF Foreign, AllNew
  <2> QED
    BY <2>2, <2>3, <2>4 DEF OneAnswer
<1> QED
  BY <1>1, <1>6, <1>7, <1>8, <1>9 DEF r

\* An answer behind a queue of events.
LEMMA AnswerBehind ==
    ASSUME NEW q \in Seq(Messages), OnlyEvents(q),
           NEW m \in Messages, m.k = "answer", m.fresh
    PROVE  OneAnswer(q \o <<m>>)
<1> DEFINE r == q \o <<m>>
           n == Len(q) + 1
<1>1. Len(q) \in Nat /\ Len(r) = n /\ r[n] = m
  BY ConcatProperties
<1>2. \A k \in 1 .. Len(q) : r[k] = q[k]
  BY ConcatProperties
<1> HIDE DEF r
<1>3. \A j \in 1 .. Len(r) : j # n => r[j].k = "event"
  BY <1>1, <1>2 DEF OnlyEvents
<1>4. OneAnswer(r)
  <2>1. n \in 1 .. Len(r)
    BY <1>1
  <2> QED
    BY <1>1, <1>3, <2>1 DEF OneAnswer
<1> QED
  BY <1>4 DEF r

LEMMA AnswerLast ==
    ASSUME NEW q \in Seq(Messages), OnlyEvents(q),
           NEW ms \in Seq(Messages), OnlyEvents(ms),
           NEW m \in Messages, m.k = "answer", m.fresh
    PROVE  OneAnswer(q \o (ms \o <<m>>))
<1>1. q \o ms \in Seq(Messages) /\ OnlyEvents(q \o ms)
  BY Behind
<1>2. q \o (ms \o <<m>>) = (q \o ms) \o <<m>>
  BY ConcatAssociative
<1> QED
  BY <1>1, <1>2, AnswerBehind

\* The queue without its first message.
LEMMA Behead ==
    ASSUME NEW q \in Seq(Messages), q # <<>>
    PROVE  /\ Head(q) \in Messages /\ Tail(q) \in Seq(Messages)
           /\ Len(Tail(q)) = Len(q) - 1 /\ Len(q) \in Nat \ {0}
           /\ OnlyEvents(q) => Head(q).k = "event" /\ OnlyEvents(Tail(q))
           /\ Foreign(q) => Foreign(Tail(q))
           /\ AllNew(q) => Head(q).fresh /\ AllNew(Tail(q))
           /\ OneAnswer(q) /\ Head(q).k = "event" => OneAnswer(Tail(q))
           /\ OneAnswer(q) /\ Head(q).k = "answer"
                => Head(q).fresh /\ Foreign(Tail(q)) /\ AllNew(Tail(q))
<1> DEFINE t == Tail(q)
<1>1. /\ Head(q) \in Messages /\ t \in Seq(Messages) /\ Len(t) = Len(q) - 1
      /\ \A k \in 1 .. Len(t) : t[k] = q[k + 1]
  BY HeadTailProperties
<1>2. Len(q) \in Nat \ {0} /\ Head(q) = q[1]
  BY EmptySeq, LenProperties
<1> HIDE DEF t
<1>3. OnlyEvents(q) => Head(q).k = "event" /\ OnlyEvents(t)
  BY <1>1, <1>2 DEF OnlyEvents
<1>4. Foreign(q) => Foreign(t)
  BY <1>1, <1>2 DEF Foreign
<1>5. AllNew(q) => Head(q).fresh /\ AllNew(t)
  BY <1>1, <1>2 DEF AllNew
<1>6. ASSUME OneAnswer(q), Head(q).k = "event" PROVE OneAnswer(t)
  <2>1. PICK k \in 1 .. Len(q) :
           /\ q[k].k = "answer" /\ q[k].fresh
           /\ \A j \in 1 .. Len(q) : j # k => q[j].k = "event"
           /\ \A j \in 1 .. Len(q) : j > k => q[j].fresh /\ q[j].own = FALSE
    BY <1>6 DEF OneAnswer
  <2>2. k # 1
    BY <1>2, <1>6, <2>1
  <2>3. k - 1 \in 1 .. Len(t) /\ t[k - 1] = q[k]
    BY <1>1, <1>2, <2>1, <2>2
  <2>4. ASSUME NEW j \in 1 .. Len(t), j # k - 1 PROVE t[j].k = "event"
    BY <1>1, <1>2, <2>1, <2>4
  <2>5. ASSUME NEW j \in 1 .. Len(t), j > k - 1 PROVE t[j].fresh /\ t[j].own = FALSE
    BY <1>1, <1>2, <2>1, <2>5
  <2> QED
    BY <2>1, <2>3, <2>4, <2>5 DEF OneAnswer
<1>7. ASSUME OneAnswer(q), Head(q).k = "answer"
      PROVE  Head(q).fresh /\ Foreign(t) /\ AllNew(t)
  <2>1. PICK k \in 1 .. Len(q) :
           /\ q[k].k = "answer" /\ q[k].fresh
           /\ \A j \in 1 .. Len(q) : j # k => q[j].k = "event"
           /\ \A j \in 1 .. Len(q) : j > k => q[j].fresh /\ q[j].own = FALSE
    BY <1>7 DEF OneAnswer
  <2>2. k = 1
    BY <1>2, <1>7, <2>1
  <2>3. ASSUME NEW j \in 1 .. Len(t)
        PROVE  t[j].k = "event" /\ t[j].own = FALSE /\ t[j].fresh
    BY <1>1, <1>2, <2>1, <2>2
  <2> QED
    BY <1>2, <2>1, <2>2, <2>3 DEF Foreign, AllNew
<1> QED
  BY <1>1, <1>2, <1>3, <1>4, <1>5, <1>6, <1>7 DEF t

\* The messages before a request are marked as older than it.
LEMMA Aged ==
    ASSUME rx \in Seq(Messages)
    PROVE  /\ Older \in Seq(Messages) /\ Len(Older) = Len(rx)
           /\ rx = <<>> => Older = <<>>
           /\ OnlyEvents(rx) => OnlyEvents(Older)
           /\ Foreign(rx) => Foreign(Older)
<1>1. \A m \in Messages : /\ [m EXCEPT !.fresh = FALSE] \in Messages
                          /\ [m EXCEPT !.fresh = FALSE].k = m.k
                          /\ m.k = "event" => [m EXCEPT !.fresh = FALSE].own = m.own
  BY DEF Messages
<1>2. /\ Len(rx) \in Nat /\ DOMAIN rx = 1 .. Len(rx)
      /\ \A k \in 1 .. Len(rx) : rx[k] \in Messages
  BY LenProperties, ElementOfSeq
<1>3. /\ DOMAIN Older = 1 .. Len(rx)
      /\ \A k \in 1 .. Len(rx) : Older[k] = [rx[k] EXCEPT !.fresh = FALSE]
  BY <1>2 DEF Older
<1>4. \A k \in 1 .. Len(rx) : /\ Older[k] \in Messages /\ Older[k].k = rx[k].k
                              /\ rx[k].k = "event" => Older[k].own = rx[k].own
  BY <1>1, <1>2, <1>3
<1>5. Older = [k \in 1 .. Len(rx) |-> Older[k]]
  BY <1>2 DEF Older
<1>6. Older \in Seq(Messages) /\ Len(Older) = Len(rx)
  BY <1>2, <1>4, <1>5, LenProperties
<1>7. rx = <<>> => Older = <<>>
  BY <1>6, EmptySeq
<1> QED
  BY <1>4, <1>6, <1>7 DEF OnlyEvents, Foreign

\* What is in the queue after messages have been put behind q.
LEMMA Delivered ==
    ASSUME Socket, NEW q \in Seq(Messages), Len(q) <= RxMax,
           NEW ms \in Seq(Messages), Deliver(q, ms)
    PROVE  /\ rx' \in Seq(Messages) /\ Len(rx') <= RxMax
           /\ congested' \in BOOLEAN /\ sk_err' \in BOOLEAN /\ lost' \in BOOLEAN
           /\ ~lost' => ~lost
           /\ ~lost' /\ ~congested /\ ~sk_err
                => rx' = q \o ms /\ ~congested' /\ ~sk_err'
           /\ q = <<>> /\ ms = <<>> => rx' = <<>>
<1> DEFINE room == IF congested THEN 0 ELSE RxMax - Len(q)
           full == Len(ms) > room
           fit == IF full THEN SubSeq(ms, 1, room) ELSE ms
<1>1. RxMax \in Nat /\ Len(q) \in Nat /\ Len(ms) \in Nat
  BY LibAssumption, LenProperties
<1>2. room \in Nat /\ (room + Len(q) <= RxMax \/ room = 0)
  BY <1>1
<1>3. fit \in Seq(Messages) /\ Len(fit) <= room
  <2>1. CASE full
    <3>1. \A k \in 1 .. room : ms[k] \in Messages
      BY <1>1, <1>2, <2>1, ElementOfSeq
    <3>2. SubSeq(ms, 1, room) \in Seq(Messages) /\ Len(SubSeq(ms, 1, room)) = room
      BY <1>1, <1>2, <2>1, <3>1, SubSeqProperties
    <3> QED
      BY <1>2, <2>1, <3>2
  <2>2. CASE ~full
    BY <1>1, <1>2, <2>2
  <2> QED
    BY <2>1, <2>2
<1>4. /\ rx' = q \o fit
      /\ congested' = (congested \/ full)
      /\ sk_err' = (sk_err \/ (full /\ ~congested))
      /\ lost' = (lost \/ full)
  BY DEF Deliver
<1>5. /\ congested \in BOOLEAN /\ sk_err \in BOOLEAN /\ lost \in BOOLEAN
  BY DEF Socket
<1>6. ~full => fit = ms
  OBVIOUS
<1>7. ms = <<>> => ~full
  BY <1>1, <1>2, EmptySeq
<1> HIDE DEF fit, full, room
<1>8. rx' \in Seq(Messages) /\ Len(rx') = Len(q) + Len(fit)
  BY <1>3, <1>4, ConcatProperties
<1>9. Len(rx') <= RxMax
  <2>1. Len(fit) \in Nat
    BY <1>3, LenProperties
  <2> QED
    BY <1>1, <1>2, <1>3, <1>8, <2>1
<1>10. q = <<>> /\ ms = <<>> => rx' = <<>>
  BY <1>3, <1>4, <1>6, <1>7, <1>8, EmptySeq
<1> QED
  BY <1>4, <1>5, <1>6, <1>8, <1>9, <1>10

\* What is told, as it is when the socket is subscribed, or nothing.
LEMMA ToldMessages ==
    ASSUME NEW ms \in Seq(Messages)
    PROVE  /\ Told(ms) \in Seq(Messages)
           /\ ~subscribed => Told(ms) = <<>>
           /\ OnlyEvents(ms) => OnlyEvents(Told(ms))
           /\ Foreign(ms) => Foreign(Told(ms))
           /\ AllNew(ms) => AllNew(Told(ms))
  BY EmptyQueue DEF Told

-----------------------------------------------------------------------------
(* What happens outside of the library.                                    *)

\* New events of others are sent.
Heard ==
    \E ms \in Seq(Messages) : Foreign(ms) /\ AllNew(ms) /\ Send(ms)

\* A command for a device or a tunnel tells what it has done.
LEMMA CommandTells ==
    ASSUME Device, NEW d \in Devs, NEW own \in BOOLEAN,
           \/ rm_tun2(d, own) \/ dev_newtun(d, own)
           \/ free_dev(d, own) \/ create_dev(d, own)
    PROVE  /\ Device'
           /\ \E ms \in Seq(Messages) :
                 /\ OnlyEvents(ms) /\ AllNew(ms) /\ Send(ms)
                 /\ own = FALSE => Foreign(ms)
<1> DEFINE Is(ms) == /\ ms \in Seq(Messages) /\ OnlyEvents(ms) /\ AllNew(ms)
                     /\ own = FALSE => Foreign(ms)
<1>1. \A ev \in Events : Is(<<Event(ev, d, own)>>)
  <2> SUFFICES ASSUME NEW ev \in Events PROVE Is(<<Event(ev, d, own)>>)
    OBVIOUS
  <2>1. /\ Event(ev, d, own) \in Messages
        /\ Event(ev, d, own).k = "event" /\ Event(ev, d, own).own = own
        /\ Event(ev, d, own).fresh
    BY EventTypes
  <2> QED
    BY <2>1, Single
<1>2. Is(<<>>)
  BY EmptyQueue
<1>3. ASSUME NEW ms, NEW ns, Is(ms), Is(ns) PROVE Is(ms \o ns)
  BY <1>3, Behind
<1> HIDE DEF Is
<1>4. Device'
  BY DEF Device, rm_tun2, dev_newtun, free_dev, create_dev, NoTunnel
<1>5. \E ms : Is(ms) /\ Send(ms)
  <2>1. CASE rm_tun2(d, own)
    BY <1>1, <2>1 DEF rm_tun2, Events
  <2>2. CASE dev_newtun(d, own)
    BY <1>1, <2>2 DEF dev_newtun, Events
  <2>3. CASE free_dev(d, own)
    <3> DEFINE ms == <<Event("IFDOWN", d, own)>>
               ns == IF dev[d] = "tun" THEN <<Event("TUNDOWN", d, own)>> ELSE <<>>
    <3>1. Is(ms) /\ Is(ns)
      BY <1>1, <1>2 DEF Events
    <3>2. Send(ms \o ns)
      BY <2>3 DEF free_dev
    <3> QED
      BY <1>3, <3>1, <3>2
  <2>4. CASE create_dev(d, own)
    BY <1>1, <2>4 DEF create_dev, Events
  <2> QED
    BY <2>1, <2>2, <2>3, <2>4
<1> QED
  BY <1>4, <1>5 DEF Is

\* ldt_module_exit tells of the module's end.
LEMMA ExitTells ==
    ASSUME Device, ModuleExit
    PROVE  /\ Device' /\ Heard /\ subscribed' = FALSE
           /\ UNCHANGED libVars
<1> DEFINE m == Event("TPDOWN", AnyDev, FALSE)
<1>1. m \in Messages /\ m.k = "event" /\ m.own = FALSE /\ m.fresh
  BY EventTypes DEF Events
<1>2. Send(<<m>>) /\ subscribed' = FALSE /\ UNCHANGED libVars
  BY DEF ModuleExit
<1>3. Device'
  BY DEF Device, ModuleExit
<1> HIDE DEF m
<1>4. Heard
  BY <1>1, <1>2, Single DEF Heard
<1> QED
  BY <1>2, <1>3, <1>4

\* Work items and the commands of others send events, and do nothing else to
\* the socket.
LEMMA Outside ==
    ASSUME LibInv, Kernel \/ Others
    PROVE  /\ Device' /\ UNCHANGED libVars
           /\ \/ UNCHANGED sockVars
              \/ Heard /\ (subscribed' = subscribed \/ subscribed' = FALSE)
<1> DEFINE Goal == /\ Device' /\ UNCHANGED libVars
                   /\ \/ UNCHANGED sockVars
                      \/ Heard /\ (subscribed' = subscribed \/ subscribed' = FALSE)
<1>1. ASSUME NEW ev \in Events, NEW d \in Devs, Send(<<Event(ev, d, FALSE)>>) PROVE Heard
  <2>1. /\ Event(ev, d, FALSE) \in Messages
        /\ Event(ev, d, FALSE).k = "event" /\ Event(ev, d, FALSE).own = FALSE
        /\ Event(ev, d, FALSE).fresh
    BY EventTypes
  <2> QED
    BY <1>1, <2>1, Single DEF Heard
<1>2. ASSUME NEW d \in Devs, NEW w \in {"conn", "listen"}, WorkStart(d, w) PROVE Goal
  BY <1>2 DEF WorkStart, LibInv, Device
<1>3. ASSUME NEW d \in Devs, NEW w \in {"conn", "listen"}, NEW ok \in BOOLEAN,
             WorkEnd(d, w, ok)
      PROVE  Goal
  <2> DEFINE ev == IF w = "conn" THEN (IF ok THEN "CONN_ESTAB" ELSE "CONN_ESTAB_FAIL")
                   ELSE (IF ok THEN "CONN_LISTEN" ELSE "CONN_LISTEN_FAIL")
  <2>1. ev \in Events
    BY DEF Events
  <2>2. Send(<<Event(ev, d, FALSE)>>)
    BY <1>3 DEF WorkEnd
  <2>3. Heard
    BY <1>1, <2>1, <2>2
  <2>4. Device'
    BY <1>3 DEF WorkEnd, LibInv, Device
  <2> QED
    BY <1>3, <2>3, <2>4 DEF WorkEnd
<1>4. ASSUME NEW d \in Devs, RmTun(d) \/ NewTun(d) \/ RmDev(d) \/ NewDev(d) \/ ExitDev(d)
      PROVE  Goal
  <2>1. \/ rm_tun2(d, FALSE) \/ dev_newtun(d, FALSE)
        \/ free_dev(d, FALSE) \/ create_dev(d, FALSE)
    BY <1>4 DEF RmTun, NewTun, RmDev, NewDev, ExitDev
  <2>2. Device' /\ Heard
    BY <2>1, CommandTells DEF LibInv, Heard
  <2> QED
    BY <1>4, <2>2 DEF RmTun, NewTun, RmDev, NewDev, ExitDev, Other
<1>5. ASSUME NEW d \in Devs, OtherPeer(d) PROVE Goal
  <2>1. Heard
    BY <1>1, <1>5 DEF OtherPeer, Events
  <2> QED
    BY <1>5, <2>1 DEF OtherPeer, Other, LibInv, Device
<1>6. ASSUME NEW d \in Devs, LinkLost(d) PROVE Goal
  BY <1>6 DEF LinkLost, LibInv, Device
<1>7. ASSUME ModuleExit PROVE Goal
  BY <1>7, ExitTells DEF LibInv
<1> HIDE DEF Goal
<1>8. ASSUME Kernel PROVE Goal
  BY <1>2, <1>3, <1>8 DEF Kernel
<1>9. ASSUME Others PROVE Goal
  BY <1>4, <1>5, <1>6, <1>7, <1>9 DEF Others
<1>10. Goal
  BY <1>8, <1>9
<1> QED
  BY <1>10 DEF Goal

-----------------------------------------------------------------------------
(* The steps.                                                             *)

Step ==
    \/ UNCHANGED vars \/ Kernel \/ Others \/ Library \/ ldt_event_close
    \/ \E op \in Ops, d \in Devs, tout \in BOOLEAN, set \in SUBSET Events :
          Call(op, d, tout, set)

LEMMA LibSteps == [Next]_vars => Step
<1> SUFFICES ASSUME [Next]_vars PROVE Step
  OBVIOUS
<1>1. {} \in SUBSET Events /\ \A op : Awaited(op) \in SUBSET Events
  BY DEF Awaited, Events, Good, Bad
<1>2. ASSUME NEW op, NEW d \in Devs, NEW tout \in BOOLEAN, NEW set \in SUBSET Events,
             Call(op, d, tout, set)
      PROVE  Step
  BY <1>2 DEF Step, Call
<1>3. CASE Application
  <2>1. CASE ldt_event_close
    BY <2>1 DEF Step
  <2>2. CASE \E d \in Devs :
              \/ ldt_create_dev(d) \/ ldt_rm_dev(d) \/ ldt_newtun(d) \/ ldt_rm_tun(d)
              \/ ldt_tunbind(d) \/ ldt_query(d) \/ ldt_event_open(d)
    BY <1>1, <1>2, <2>2 DEF ldt_create_dev, ldt_rm_dev, ldt_newtun, ldt_rm_tun,
       ldt_tunbind, ldt_query, ldt_event_open
  <2>3. CASE \E d \in Devs, tout \in BOOLEAN :
              \/ ldt_event_recv(d, tout) \/ ldt_tun_setpeer(d, tout)
              \/ ldt_tun_serverstart(d, tout)
    BY <1>1, <1>2, <2>3 DEF ldt_event_recv, ldt_tun_setpeer, ldt_tun_serverstart
  <2> QED
    BY <1>3, <2>1, <2>2, <2>3 DEF Application
<1> QED
  BY <1>3 DEF Next, Step

\* A message is taken off the queue.
LEMMA Taken ==
    ASSUME Socket, RecvMsg
    PROVE  /\ rx # <<>> /\ tpfd /\ rx' = Tail(rx) /\ rx' \in Seq(Messages)
           /\ Len(rx') <= RxMax
           /\ Head(rx) \in Messages
           /\ congested' \in BOOLEAN /\ (~congested => ~congested')
           /\ UNCHANGED <<subscribed, sk_err, lost>>
<1>1. rx # <<>> /\ rx \in Seq(Messages) /\ Len(rx) <= RxMax
  BY DEF Socket, RecvMsg
<1>2. /\ Head(rx) \in Messages /\ Tail(rx) \in Seq(Messages)
      /\ Len(Tail(rx)) = Len(rx) - 1 /\ Len(rx) \in Nat \ {0}
  BY <1>1, Behead
<1>3. Len(Tail(rx)) <= RxMax
  BY <1>1, <1>2, LibAssumption
<1> QED
  BY <1>1, <1>2, <1>3 DEF Socket, RecvMsg

\* A socket that was closed.
LEMMA Shut ==
    ASSUME Closed
    PROVE  /\ Socket' /\ ~lost' /\ ~sk_err' /\ ~congested'
           /\ rx' = <<>> /\ Foreign(rx') /\ AllNew(rx')
<1>1. /\ rx' = <<>> /\ lost' = FALSE /\ sk_err' = FALSE /\ congested' = FALSE
      /\ tpfd' = FALSE /\ autoopen' = FALSE /\ subscribed' = FALSE /\ unsent' = FALSE
  BY DEF Closed
<1>2. rx' \in Seq(Messages) /\ Len(rx') <= RxMax
  BY <1>1, LibAssumption, EmptyQueue
<1>3. Foreign(rx') /\ AllNew(rx')
  BY <1>1, EmptyQueue
<1> QED
  BY <1>1, <1>2, <1>3 DEF Socket

\* The caller of ldt_getinfo returns, or goes on.
LEMMA Outcome ==
    ASSUME NEW ret, Answered(ret), pc \in Asking
    PROVE  \/ /\ pc' = "idle" /\ call' = NoCall
              /\ \E r : last' = [op |-> call.op, dev |-> call.dev, ret |-> r,
                                  ev |-> NoEvent, estab |-> estab, lost |-> lost]
           \/ /\ pc' \in {"req", "wait"} /\ call' = call /\ last' = last
              /\ pc' = "wait" => pc = "reqget"
  BY DEF Answered, Return, GoOn, Asking

\* The devices and their connections are what they may be.
LEMMA DeviceStep == LibInv /\ Step => Device'
<1> SUFFICES ASSUME LibInv, Step PROVE Device'
  OBVIOUS
<1> USE DEF LibInv, Device, kernVars
<1>1. CASE UNCHANGED vars
  BY <1>1 DEF vars
<1>2. CASE Kernel \/ Others
  BY <1>2, Outside
<1>3. CASE ldt_subscribe
  BY <1>3 DEF ldt_subscribe
<1>4. CASE SubscribeFails
  BY <1>4 DEF SubscribeFails
<1>5. CASE Request
  BY <1>5 DEF Request
<1>6. CASE RequestFails
  BY <1>6 DEF RequestFails
<1>7. CASE HandlerDev
  <2>1. call.dev \in Devs
    BY <1>7 DEF HandlerDev, Control, Apart
  <2>2. \/ rm_tun2(call.dev, TRUE) \/ dev_newtun(call.dev, TRUE)
        \/ free_dev(call.dev, TRUE) \/ create_dev(call.dev, TRUE)
    BY <1>7 DEF HandlerDev
  <2> HIDE DEF Device
  <2> QED
    BY <2>1, <2>2, CommandTells DEF LibInv
<1>8. CASE HandlerOnly
  BY <1>8 DEF HandlerOnly
<1>9. CASE HandlerTun
  BY <1>9 DEF HandlerTun
<1>10. CASE Rebound
  BY <1>10 DEF Rebound
<1>11. CASE send_ret
  BY <1>11 DEF send_ret
<1>12. CASE GetinfoEvent
  BY <1>12 DEF GetinfoEvent
<1>13. CASE ldt_getinfo
  BY <1>13 DEF ldt_getinfo
<1>14. CASE GetinfoFails
  BY <1>14 DEF GetinfoFails
<1>15. CASE WaitSkips
  BY <1>15 DEF WaitSkips
<1>16. CASE WaitAnswer
  BY <1>16 DEF WaitAnswer
<1>17. CASE WaitReturns
  BY <1>17 DEF WaitReturns
<1>18. CASE WaitBroken
  BY <1>18 DEF WaitBroken
<1>19. CASE WaitError
  BY <1>19 DEF WaitError
<1>20. CASE WaitTimeout
  BY <1>20 DEF WaitTimeout
<1>21. CASE ldt_event_send
  BY <1>21 DEF ldt_event_send
<1>22. CASE EventSendFails
  BY <1>22 DEF EventSendFails
<1>23. CASE ldt_event_close
  BY <1>23 DEF ldt_event_close
<1>24. ASSUME NEW op \in Ops, NEW d \in Devs, NEW tout \in BOOLEAN,
             NEW set \in SUBSET Events, Call(op, d, tout, set)
      PROVE  Device'
  BY <1>24 DEF Call
<1>25. CASE SubscribeUnsent
  BY <1>25 DEF SubscribeUnsent
<1>26. CASE RequestUnsent
  BY <1>26 DEF RequestUnsent
<1> HIDE DEF LibInv, Device, kernVars
<1> QED
  BY <1>1, <1>2, <1>3, <1>4, <1>5, <1>6, <1>7, <1>8, <1>9, <1>10, <1>11,
     <1>12, <1>13, <1>14, <1>15, <1>16, <1>17, <1>18, <1>19, <1>20,
     <1>21, <1>22, <1>23, <1>24, <1>25, <1>26
     DEF Step, Library

\* A call has a device, and within a request the socket is open.
LEMMA ControlStep == LibInv /\ Step => Control'
<1> SUFFICES ASSUME LibInv, Step PROVE Control'
  OBVIOUS
<1> USE DEF LibInv, Control, Asking, Handling, Apart
<1>1. CASE UNCHANGED vars
  BY <1>1 DEF vars
<1>2. CASE Kernel \/ Others
  BY <1>2, Outside DEF libVars
<1>3. CASE ldt_subscribe
  BY <1>3 DEF ldt_subscribe, GoOn
<1>4. CASE SubscribeFails
  BY <1>4 DEF SubscribeFails, GoOn, Return
<1>5. CASE Request
  BY <1>5 DEF Request, ldt_nl_send, GoOn
<1>6. CASE RequestFails
  BY <1>6 DEF RequestFails, Return
<1>7. CASE HandlerDev
  BY <1>7 DEF HandlerDev, GoOn
<1>8. CASE HandlerOnly
  BY <1>8 DEF HandlerOnly, GoOn
<1>9. CASE HandlerTun
  BY <1>9 DEF HandlerTun, GoOn
<1>10. CASE Rebound
  BY <1>10 DEF Rebound, GoOn
<1>11. CASE send_ret
  BY <1>11 DEF send_ret, GoOn
<1>12. CASE GetinfoEvent
  BY <1>12 DEF GetinfoEvent
<1>13. CASE ldt_getinfo
  <2>1. pc \in {"subget", "reqget", "failget"}
    BY <1>13 DEF ldt_getinfo
  <2>2. PICK ret : Answered(ret)
    BY <1>13 DEF ldt_getinfo
  <2>3. pc' = "idle" \/ (pc' \in {"req", "wait"} /\ call' = call)
    BY <2>1, <2>2, Outcome
  <2> QED
    BY <2>1, <2>3
<1>14. CASE GetinfoFails
  <2>1. pc \in {"subget", "reqget", "failget"}
    BY <1>14 DEF GetinfoFails
  <2>2. PICK ret : Answered(ret)
    BY <1>14 DEF GetinfoFails
  <2>3. pc' = "idle" \/ (pc' \in {"req", "wait"} /\ call' = call)
    BY <2>1, <2>2, Outcome
  <2> QED
    BY <2>1, <2>3
<1>15. CASE WaitSkips
  BY <1>15 DEF WaitSkips
<1>16. CASE WaitAnswer
  BY <1>16 DEF WaitAnswer
<1>17. CASE WaitReturns
  BY <1>17 DEF WaitReturns, Return
<1>18. CASE WaitBroken
  BY <1>18 DEF WaitBroken, GoOn
<1>19. CASE WaitError
  BY <1>19 DEF WaitError, Return, GoOn
<1>20. CASE WaitTimeout
  BY <1>20 DEF WaitTimeout, Return
<1>21. CASE ldt_event_send
  BY <1>21 DEF ldt_event_send, GoOn
<1>22. CASE EventSendFails
  BY <1>22 DEF EventSendFails, Return
<1>23. CASE ldt_event_close
  BY <1>23 DEF ldt_event_close, Closed
<1>24. ASSUME NEW op \in Ops, NEW d \in Devs, NEW tout \in BOOLEAN,
             NEW set \in SUBSET Events, Call(op, d, tout, set)
      PROVE  Control'
  BY <1>24 DEF Call, First
<1>25. CASE SubscribeUnsent
  BY <1>25 DEF SubscribeUnsent, GoOn, Return
<1>26. CASE RequestUnsent
  BY <1>26 DEF RequestUnsent, Return
<1> HIDE DEF LibInv, Control, Asking, Handling, Apart
<1> QED
  BY <1>1, <1>2, <1>3, <1>4, <1>5, <1>6, <1>7, <1>8, <1>9, <1>10, <1>11,
     <1>12, <1>13, <1>14, <1>15, <1>16, <1>17, <1>18, <1>19, <1>20,
     <1>21, <1>22, <1>23, <1>24, <1>25, <1>26
     DEF Step, Library

\* The queue keeps within the buffer, and a closed socket holds nothing.
LEMMA SocketStep == LibInv /\ Step => Socket'
<1> SUFFICES ASSUME LibInv, Step PROVE Socket'
  OBVIOUS
<1> USE DEF LibInv, Socket
<1>1. CASE UNCHANGED vars
  BY <1>1 DEF vars
<1>2. CASE Kernel \/ Others
  <2>1. /\ UNCHANGED <<tpfd, autoopen, unsent, call, pc>>
        /\ \/ UNCHANGED <<rx, congested, sk_err, lost, subscribed>>
           \/ Heard /\ (subscribed' = subscribed \/ subscribed' = FALSE)
    BY <1>2, Outside DEF libVars, sockVars
  <2>2. CASE UNCHANGED <<rx, congested, sk_err, lost, subscribed>>
    BY <2>1, <2>2
  <2>3. CASE Heard /\ (subscribed' = subscribed \/ subscribed' = FALSE)
    <3>1. PICK ms \in Seq(Messages) : Deliver(rx, Told(ms))
      BY <2>3 DEF Heard, Send
    <3>2. Told(ms) \in Seq(Messages) /\ (~subscribed => Told(ms) = <<>>)
      BY ToldMessages
    <3>3. /\ rx' \in Seq(Messages) /\ Len(rx') <= RxMax
          /\ congested' \in BOOLEAN /\ sk_err' \in BOOLEAN /\ lost' \in BOOLEAN
          /\ rx = <<>> /\ Told(ms) = <<>> => rx' = <<>>
      BY <3>1, <3>2, Delivered
    <3> QED
      BY <2>1, <2>3, <3>2, <3>3
  <2> QED
    BY <2>1, <2>2, <2>3
<1>3. CASE ldt_subscribe
  <2>1. PICK ret \in {"ok", "err"} : Deliver(Older, <<Answer(ret)>>)
    BY <1>3 DEF ldt_subscribe
  <2>2. <<Answer(ret)>> \in Seq(Messages)
    BY AnswerTypes
  <2>3. /\ rx' \in Seq(Messages) /\ Len(rx') <= RxMax
        /\ congested' \in BOOLEAN /\ sk_err' \in BOOLEAN /\ lost' \in BOOLEAN
    BY <2>1, <2>2, Aged, Delivered
  <2>4. tpfd' = TRUE /\ UNCHANGED <<autoopen, unsent>> /\ pc = "sub" /\ pc' = "subget"
    BY <1>3 DEF ldt_subscribe, GoOn
  <2> QED
    BY <2>3, <2>4
<1>4. CASE SubscribeFails
  BY <1>4 DEF SubscribeFails, sockVars, Return, GoOn
<1>5. CASE Request
  <2>1. Older \in Seq(Messages) /\ Len(Older) = Len(rx)
    BY Aged
  <2> QED
    BY <1>5, <2>1 DEF Request, ldt_nl_send, GoOn
<1>6. CASE RequestFails
  BY <1>6 DEF RequestFails, sockVars, Return
<1>7. CASE HandlerDev
  <2>1. call.dev \in Devs /\ tpfd
    BY <1>7 DEF HandlerDev, Control, Apart
  <2>2. \/ rm_tun2(call.dev, TRUE) \/ dev_newtun(call.dev, TRUE)
        \/ free_dev(call.dev, TRUE) \/ create_dev(call.dev, TRUE)
    BY <1>7 DEF HandlerDev
  <2>3. PICK ms \in Seq(Messages) : Deliver(rx, Told(ms))
    BY <2>1, <2>2, CommandTells DEF Send
  <2>4. Told(ms) \in Seq(Messages)
    BY ToldMessages
  <2>5. /\ rx' \in Seq(Messages) /\ Len(rx') <= RxMax
        /\ congested' \in BOOLEAN /\ sk_err' \in BOOLEAN /\ lost' \in BOOLEAN
    BY <2>3, <2>4, Delivered
  <2>6. UNCHANGED <<tpfd, autoopen, unsent>> /\ pc' = "answer_ok"
    BY <1>7 DEF HandlerDev, GoOn
  <2> QED
    BY <2>1, <2>5, <2>6
<1>8. CASE HandlerOnly
  BY <1>8 DEF HandlerOnly, sockVars, GoOn
<1>9. CASE HandlerTun
  BY <1>9 DEF HandlerTun, sockVars, GoOn
<1>10. CASE Rebound
  <2>1. call.dev \in Devs /\ tpfd
    BY <1>10 DEF Rebound, Control, Handling
  <2> DEFINE m == Event("REBIND", call.dev, TRUE)
  <2>2. m \in Messages
    BY <2>1, EventTypes DEF Events
  <2>3. Deliver(rx, Told(<<m>>))
    BY <1>10 DEF Rebound, Send
  <2> HIDE DEF m
  <2>4. Told(<<m>>) \in Seq(Messages)
    BY <2>2, Single, ToldMessages
  <2>5. /\ rx' \in Seq(Messages) /\ Len(rx') <= RxMax
        /\ congested' \in BOOLEAN /\ sk_err' \in BOOLEAN /\ lost' \in BOOLEAN
    BY <2>3, <2>4, Delivered
  <2>6. UNCHANGED <<tpfd, autoopen, unsent>> /\ pc' = "answer_ok"
    BY <1>10 DEF Rebound, GoOn
  <2> QED
    BY <2>1, <2>5, <2>6
<1>11. CASE send_ret
  <2>1. PICK ret \in {"ok", "err"} : Deliver(rx, <<Answer(ret)>>)
    BY <1>11 DEF send_ret
  <2>2. <<Answer(ret)>> \in Seq(Messages)
    BY AnswerTypes
  <2>3. /\ rx' \in Seq(Messages) /\ Len(rx') <= RxMax
        /\ congested' \in BOOLEAN /\ sk_err' \in BOOLEAN /\ lost' \in BOOLEAN
    BY <2>1, <2>2, Delivered
  <2>4. UNCHANGED <<tpfd, autoopen, unsent>> /\ tpfd /\ pc' = "reqget"
    BY <1>11 DEF send_ret, GoOn, Control, Handling
  <2> QED
    BY <2>3, <2>4
<1>12. CASE GetinfoEvent
  BY <1>12, Taken DEF GetinfoEvent
<1>13. CASE ldt_getinfo
  <2>1. pc \in Asking
    BY <1>13 DEF ldt_getinfo, Asking
  <2>2. PICK ret : Answered(ret)
    BY <1>13 DEF ldt_getinfo
  <2>3. /\ pc' = "idle" \/ (pc' \in {"req", "wait"} /\ call' = call)
        /\ pc' = "wait" => pc = "reqget"
    BY <2>1, <2>2, Outcome
  <2>4. CASE autoopen /\ pc # "subget"
    <3>1. Closed
      BY <1>13, <2>4 DEF ldt_getinfo
    <3> HIDE DEF Socket
    <3> QED
      BY <3>1, Shut
  <2>5. CASE ~(autoopen /\ pc # "subget")
    <3>1. RecvMsg /\ UNCHANGED <<tpfd, autoopen, unsent>> /\ (~autoopen \/ unsent)
      BY <1>13, <2>5 DEF ldt_getinfo
    <3> QED
      BY <3>1, Taken
  <2> QED
    BY <2>4, <2>5
<1>14. CASE GetinfoFails
  <2>1. CASE autoopen /\ pc # "subget"
    <3>1. Closed
      BY <1>14, <2>1 DEF GetinfoFails
    <3> HIDE DEF Socket
    <3> QED
      BY <3>1, Shut
  <2>2. CASE ~(autoopen /\ pc # "subget")
    <3>1. (RecvErr \/ RecvTmo) /\ UNCHANGED <<tpfd, autoopen, unsent>> /\ (~autoopen \/ unsent)
      BY <1>14, <2>2 DEF GetinfoFails
    <3>2. /\ UNCHANGED <<subscribed, rx, congested, lost>>
          /\ sk_err' \in BOOLEAN
      BY <3>1 DEF RecvErr, RecvTmo, sockVars
    <3> QED
      BY <3>1, <3>2
  <2> QED
    BY <2>1, <2>2
<1>15. CASE WaitSkips
  BY <1>15, Taken DEF WaitSkips
<1>16. CASE WaitAnswer
  BY <1>16, Taken DEF WaitAnswer
<1>17. CASE WaitReturns
  <2>1. pc = "wait"
    BY <1>17 DEF WaitReturns
  <2>2. CASE autoopen /\ call.op \in Waiting
    <3>1. Closed
      BY <1>17, <2>2 DEF WaitReturns
    <3> HIDE DEF Socket
    <3> QED
      BY <3>1, Shut
  <2>3. CASE ~(autoopen /\ call.op \in Waiting)
    <3>1. RecvMsg /\ UNCHANGED <<tpfd, autoopen, unsent>> /\ (~autoopen \/ unsent)
      BY <1>17, <2>1, <2>3 DEF WaitReturns
    <3> QED
      BY <3>1, Taken
  <2> QED
    BY <2>2, <2>3
<1>18. CASE WaitBroken
  BY <1>18, Taken DEF WaitBroken, GoOn
<1>19. CASE WaitError
  <2>1. /\ pc = "wait" /\ UNCHANGED <<tpfd, autoopen, unsent>>
        /\ pc' = "fail" \/ ~autoopen \/ unsent
    BY <1>19 DEF WaitError, GoOn, Return
  <2>2. CASE ~tpfd /\ UNCHANGED sockVars
    BY <2>1, <2>2 DEF sockVars
  <2>3. CASE RecvErr
    BY <2>1, <2>3 DEF RecvErr
  <2>4. CASE RecvMsg
    BY <2>1, <2>4, Taken
  <2> QED
    BY <1>19, <2>2, <2>3, <2>4 DEF WaitError
<1>20. CASE WaitTimeout
  <2>1. pc = "wait"
    BY <1>20 DEF WaitTimeout
  <2>2. CASE call.op \in Waiting /\ autoopen
    <3>1. Closed
      BY <1>20, <2>2 DEF WaitTimeout, ldt_mayclose
    <3> HIDE DEF Socket
    <3> QED
      BY <3>1, Shut
  <2>3. CASE ~(call.op \in Waiting /\ autoopen)
    BY <1>20, <2>1, <2>3 DEF WaitTimeout, ldt_mayclose, sockVars
  <2> QED
    BY <2>2, <2>3
<1>21. CASE ldt_event_send
  <2>1. call.dev \in Devs
    BY <1>21 DEF ldt_event_send, Control, Apart
  <2> DEFINE m == Event(Bad(call.op), call.dev, TRUE)
             there == loaded /\ dev[call.dev] # "no"
             ms == IF there THEN <<m>> ELSE <<>>
  <2>2. m \in Messages
    BY <2>1, EventTypes DEF Events, Bad
  <2>3. Told(ms) \in Seq(Messages)
    <3> HIDE DEF m
    <3>1. ms \in Seq(Messages)
      BY <2>2
    <3> QED
      BY <3>1, ToldMessages
  <2>4. PICK ret \in {"ok", "err"} : Deliver(Older, Told(ms) \o <<Answer(ret)>>)
    BY <1>21 DEF ldt_event_send
  <2> HIDE DEF ms
  <2>5. Told(ms) \o <<Answer(ret)>> \in Seq(Messages)
    BY <2>3, AnswerTypes, Behind
  <2>6. /\ rx' \in Seq(Messages) /\ Len(rx') <= RxMax
        /\ congested' \in BOOLEAN /\ sk_err' \in BOOLEAN /\ lost' \in BOOLEAN
    BY <2>4, <2>5, Aged, Delivered
  <2>7. tpfd' = TRUE /\ autoopen' \in BOOLEAN /\ unsent' = unsent /\ pc' = "failget"
    BY <1>21 DEF ldt_event_send, GoOn
  <2> QED
    BY <2>6, <2>7
<1>22. CASE EventSendFails
  BY <1>22 DEF EventSendFails, sockVars, Return
<1>23. CASE ldt_event_close
  <2>1. Closed
    BY <1>23 DEF ldt_event_close
  <2> HIDE DEF Socket
  <2> QED
    BY <2>1, Shut
<1>24. ASSUME NEW op \in Ops, NEW d \in Devs, NEW tout \in BOOLEAN,
             NEW set \in SUBSET Events, Call(op, d, tout, set)
      PROVE  Socket'
  BY <1>24 DEF Call, sockVars
<1>25. CASE SubscribeUnsent
  BY <1>25 DEF SubscribeUnsent, sockVars
<1>26. CASE RequestUnsent
  <2>1. CASE Closed
    <3> HIDE DEF Socket
    <3> QED
      BY <2>1, Shut
  <2>2. CASE /\ tpfd' = TRUE /\ autoopen' = (autoopen \/ ~tpfd) /\ unsent' = TRUE
             /\ UNCHANGED sockVars
    BY <2>2 DEF sockVars
  <2> QED
    BY <1>26, <2>1, <2>2 DEF RequestUnsent
<1> HIDE DEF LibInv, Socket
<1> QED
  BY <1>1, <1>2, <1>3, <1>4, <1>5, <1>6, <1>7, <1>8, <1>9, <1>10, <1>11,
     <1>12, <1>13, <1>14, <1>15, <1>16, <1>17, <1>18, <1>19, <1>20,
     <1>21, <1>22, <1>23, <1>24, <1>25, <1>26
     DEF Step, Library

\* The queue holds the answer to the request in hand and events, as long as
\* none was lost.
LEMMA QueueStep == LibInv /\ Step => Queue'
<1> SUFFICES ASSUME LibInv, Step PROVE Queue'
  OBVIOUS
<1> USE DEF LibInv
<1>1. CASE UNCHANGED vars
  BY <1>1 DEF vars, Queue
<1>2. CASE Kernel \/ Others
  <2>1. /\ UNCHANGED <<call, pc>>
        /\ UNCHANGED <<rx, congested, sk_err, lost>> \/ Heard
    BY <1>2, Outside DEF libVars, sockVars
  <2>2. CASE UNCHANGED <<rx, congested, sk_err, lost>>
    BY <2>1, <2>2 DEF Queue
  <2>3. CASE Heard
    <3>1. PICK ms \in Seq(Messages) : Foreign(ms) /\ AllNew(ms) /\ Deliver(rx, Told(ms))
      BY <2>3 DEF Heard, Send
    <3>2. Told(ms) \in Seq(Messages) /\ Foreign(Told(ms)) /\ AllNew(Told(ms))
      BY <3>1, ToldMessages
    <3>3. rx \in Seq(Messages) /\ Len(rx) <= RxMax
      BY DEF Socket
    <3>4. ~lost' => /\ ~lost /\ ~congested /\ ~sk_err
                    /\ rx' = rx \o Told(ms) /\ ~congested' /\ ~sk_err'
      BY <3>1, <3>2, <3>3, Delivered DEF Queue
    <3> QED
      BY <2>1, <3>2, <3>3, <3>4, Behind, ForeignEvents DEF Queue
  <2> QED
    BY <2>1, <2>2, <2>3
<1>3. CASE ldt_subscribe
  <2>1. PICK ret \in {"ok", "err"} : Deliver(Older, <<Answer(ret)>>)
    BY <1>3 DEF ldt_subscribe
  <2>2. /\ Answer(ret) \in Messages /\ <<Answer(ret)>> \in Seq(Messages)
        /\ Answer(ret).k = "answer" /\ Answer(ret).fresh
    BY AnswerTypes, Single
  <2>3. rx \in Seq(Messages) /\ Len(rx) <= RxMax
    BY DEF Socket
  <2>4. /\ Older \in Seq(Messages) /\ Len(Older) <= RxMax
        /\ Foreign(rx) => OnlyEvents(Older)
    BY <2>3, Aged, ForeignEvents
  <2>5. ~lost' => /\ ~lost /\ ~congested /\ ~sk_err
                  /\ rx' = Older \o <<Answer(ret)>> /\ ~congested' /\ ~sk_err'
    BY <2>1, <2>2, <2>4, Delivered DEF Queue
  <2>6. pc = "sub" /\ pc' = "subget"
    BY <1>3 DEF ldt_subscribe, GoOn
  <2>7. ~lost' => OneAnswer(rx')
    BY <2>2, <2>4, <2>5, <2>6, AnswerBehind DEF Queue, Apart
  <2> QED
    BY <2>5, <2>6, <2>7 DEF Queue, Asking, Handling, Apart
<1>4. CASE SubscribeFails
  <2>1. UNCHANGED <<rx, congested, sk_err, lost>>
    BY <1>4 DEF SubscribeFails, sockVars
  <2>2. pc = "sub" /\ pc' \in {"idle", "req"}
    BY <1>4 DEF SubscribeFails, Return, GoOn
  <2> QED
    BY <2>1, <2>2, ForeignEvents DEF Queue, Asking, Handling, Apart
<1>5. CASE Request
  <2>1. rx \in Seq(Messages)
    BY DEF Socket
  <2>2. /\ rx' = Older /\ UNCHANGED <<congested, sk_err, lost>>
        /\ pc = "req" /\ pc' = "handler"
    BY <1>5 DEF Request, ldt_nl_send, GoOn
  <2> QED
    BY <2>1, <2>2, Aged DEF Queue, Asking, Handling, Apart
<1>6. CASE RequestFails
  <2>1. UNCHANGED <<rx, congested, sk_err, lost>>
    BY <1>6 DEF RequestFails, sockVars
  <2>2. pc = "req" /\ pc' = "idle"
    BY <1>6 DEF RequestFails, Return
  <2> QED
    BY <2>1, <2>2, ForeignEvents DEF Queue, Asking, Handling, Apart
<1>7. CASE HandlerDev
  <2>1. call.dev \in Devs
    BY <1>7 DEF HandlerDev, Control, Apart
  <2>2. \/ rm_tun2(call.dev, TRUE) \/ dev_newtun(call.dev, TRUE)
        \/ free_dev(call.dev, TRUE) \/ create_dev(call.dev, TRUE)
    BY <1>7 DEF HandlerDev
  <2>3. PICK ms \in Seq(Messages) : OnlyEvents(ms) /\ Deliver(rx, Told(ms))
    BY <2>1, <2>2, CommandTells DEF Send
  <2>4. Told(ms) \in Seq(Messages) /\ OnlyEvents(Told(ms))
    BY <2>3, ToldMessages
  <2>5. rx \in Seq(Messages) /\ Len(rx) <= RxMax
    BY DEF Socket
  <2>6. ~lost' => /\ ~lost /\ ~congested /\ ~sk_err
                  /\ rx' = rx \o Told(ms) /\ ~congested' /\ ~sk_err'
    BY <2>3, <2>4, <2>5, Delivered DEF Queue
  <2>7. pc = "handler" /\ pc' = "answer_ok"
    BY <1>7 DEF HandlerDev, GoOn
  <2>8. ~lost' => OnlyEvents(rx')
    BY <2>4, <2>5, <2>6, <2>7, Behind, ForeignEvents DEF Queue, Apart
  <2> QED
    BY <2>6, <2>7, <2>8 DEF Queue, Asking, Handling, Apart
<1>8. CASE HandlerOnly
  <2>1. UNCHANGED <<rx, congested, sk_err, lost>>
    BY <1>8 DEF HandlerOnly, sockVars
  <2>2. pc = "handler" /\ pc' \in {"answer_ok", "answer_err"}
    BY <1>8 DEF HandlerOnly, GoOn
  <2> QED
    BY <2>1, <2>2, ForeignEvents DEF Queue, Asking, Handling, Apart
<1>9. CASE HandlerTun
  <2>1. UNCHANGED <<rx, congested, sk_err, lost>>
    BY <1>9 DEF HandlerTun, sockVars
  <2>2. pc = "handler" /\ pc' \in {"answer_ok", "rebound"}
    BY <1>9 DEF HandlerTun, GoOn
  <2> QED
    BY <2>1, <2>2, ForeignEvents DEF Queue, Asking, Handling, Apart
<1>10. CASE Rebound
  <2>1. call.dev \in Devs
    BY <1>10 DEF Rebound, Control, Handling
  <2> DEFINE m == Event("REBIND", call.dev, TRUE)
  <2>2. m \in Messages /\ m.k = "event"
    BY <2>1, EventTypes DEF Events
  <2>3. Deliver(rx, Told(<<m>>))
    BY <1>10 DEF Rebound, Send
  <2> HIDE DEF m
  <2>4. Told(<<m>>) \in Seq(Messages) /\ OnlyEvents(Told(<<m>>))
    BY <2>2, Single, ToldMessages
  <2>5. rx \in Seq(Messages) /\ Len(rx) <= RxMax
    BY DEF Socket
  <2>6. ~lost' => /\ ~lost /\ ~congested /\ ~sk_err
                  /\ rx' = rx \o Told(<<m>>) /\ ~congested' /\ ~sk_err'
    BY <2>3, <2>4, <2>5, Delivered DEF Queue
  <2>7. pc = "rebound" /\ pc' = "answer_ok"
    BY <1>10 DEF Rebound, GoOn
  <2>8. ~lost' => OnlyEvents(rx')
    BY <2>4, <2>5, <2>6, <2>7, Behind DEF Queue, Handling
  <2> QED
    BY <2>6, <2>7, <2>8 DEF Queue, Asking, Handling, Apart
<1>11. CASE send_ret
  <2>1. PICK ret \in {"ok", "err"} : Deliver(rx, <<Answer(ret)>>)
    BY <1>11 DEF send_ret
  <2>2. /\ Answer(ret) \in Messages /\ <<Answer(ret)>> \in Seq(Messages)
        /\ Answer(ret).k = "answer" /\ Answer(ret).fresh
    BY AnswerTypes, Single
  <2>3. rx \in Seq(Messages) /\ Len(rx) <= RxMax
    BY DEF Socket
  <2>4. ~lost' => /\ ~lost /\ ~congested /\ ~sk_err
                  /\ rx' = rx \o <<Answer(ret)>> /\ ~congested' /\ ~sk_err'
    BY <2>1, <2>2, <2>3, Delivered DEF Queue
  <2>5. pc \in {"answer_ok", "answer_err"} /\ pc' = "reqget"
    BY <1>11 DEF send_ret, GoOn
  <2>6. ~lost' => OneAnswer(rx')
    BY <2>2, <2>3, <2>4, <2>5, AnswerBehind DEF Queue, Handling
  <2> QED
    BY <2>4, <2>5, <2>6 DEF Queue, Asking, Handling, Apart
<1>12. CASE GetinfoEvent
  <2>1. /\ rx' = Tail(rx) /\ rx # <<>> /\ rx \in Seq(Messages) /\ lost' = lost
        /\ sk_err' = sk_err /\ (~congested => ~congested')
    BY <1>12, Taken DEF GetinfoEvent, Socket
  <2>2. Head(rx).k = "event" /\ pc \in Asking /\ pc' = pc
    BY <1>12 DEF GetinfoEvent, Asking
  <2> QED
    BY <2>1, <2>2, Behead DEF Queue, Asking, Handling, Apart
<1>13. CASE ldt_getinfo
  <2>1. pc \in Asking /\ Head(rx).k = "answer"
    BY <1>13 DEF ldt_getinfo, Asking
  <2>2. PICK ret : Answered(ret)
    BY <1>13 DEF ldt_getinfo
  <2>3. pc' \in {"idle", "req", "wait"}
    BY <2>1, <2>2, Outcome
  <2>4. CASE Closed
    BY <2>3, <2>4, Shut DEF Queue, Asking, Handling
  <2>5. CASE RecvMsg
    <3>1. /\ rx' = Tail(rx) /\ rx # <<>> /\ rx \in Seq(Messages) /\ lost' = lost
          /\ sk_err' = sk_err /\ (~congested => ~congested')
      BY <2>5, Taken DEF Socket
    <3>2. ~lost => Foreign(rx') /\ AllNew(rx')
      BY <2>1, <3>1, Behead DEF Queue
    <3> QED
      BY <2>3, <3>1, <3>2 DEF Queue, Asking, Handling
  <2> QED
    BY <1>13, <2>4, <2>5 DEF ldt_getinfo
<1>14. CASE GetinfoFails
  <2>1. pc \in Asking
    BY <1>14 DEF GetinfoFails, Asking
  <2>2. PICK ret : Answered(ret)
    BY <1>14 DEF GetinfoFails
  <2>3. pc' \in {"idle", "req", "wait"}
    BY <2>1, <2>2, Outcome
  <2>4. CASE Closed
    BY <2>3, <2>4, Shut DEF Queue, Asking, Handling
  <2>5. CASE RecvErr \/ RecvTmo
    <3>1. lost' = lost /\ (sk_err \/ rx = <<>>)
      BY <2>5 DEF RecvErr, RecvTmo, sockVars
    <3>2. ~OneAnswer(<<>>)
      BY DEF OneAnswer
    <3>3. lost
      BY <2>1, <3>1, <3>2 DEF Queue
    <3> QED
      BY <3>1, <3>3 DEF Queue
  <2> QED
    BY <1>14, <2>4, <2>5 DEF GetinfoFails
<1>15. CASE WaitSkips
  <2>1. /\ rx' = Tail(rx) /\ rx # <<>> /\ rx \in Seq(Messages) /\ lost' = lost
        /\ sk_err' = sk_err /\ (~congested => ~congested')
    BY <1>15, Taken DEF WaitSkips, Socket
  <2>2. pc' = pc /\ call' = call /\ pc = "wait"
    BY <1>15 DEF WaitSkips
  <2> QED
    BY <2>1, <2>2, Behead DEF Queue, Asking, Handling, Apart
<1>16. CASE WaitAnswer
  <2>1. /\ rx' = Tail(rx) /\ rx # <<>> /\ rx \in Seq(Messages) /\ lost' = lost
        /\ sk_err' = sk_err /\ (~congested => ~congested')
    BY <1>16, Taken DEF WaitAnswer, Socket
  <2>2. pc' = pc /\ call' = call /\ pc = "wait"
    BY <1>16 DEF WaitAnswer
  <2> QED
    BY <2>1, <2>2, Behead DEF Queue, Asking, Handling, Apart
<1>17. CASE WaitReturns
  <2>1. pc = "wait" /\ pc' = "idle"
    BY <1>17 DEF WaitReturns, Return
  <2>2. CASE Closed
    BY <2>1, <2>2, Shut DEF Queue, Asking, Handling
  <2>3. CASE RecvMsg
    <3>1. /\ rx' = Tail(rx) /\ rx # <<>> /\ rx \in Seq(Messages) /\ lost' = lost
          /\ sk_err' = sk_err /\ (~congested => ~congested')
      BY <2>3, Taken DEF Socket
    <3> QED
      BY <2>1, <3>1, Behead DEF Queue, Asking, Handling, Apart
  <2> QED
    BY <1>17, <2>2, <2>3 DEF WaitReturns
<1>18. CASE WaitBroken
  <2>1. /\ rx' = Tail(rx) /\ rx # <<>> /\ rx \in Seq(Messages) /\ lost' = lost
        /\ sk_err' = sk_err /\ (~congested => ~congested')
    BY <1>18, Taken DEF WaitBroken, Socket
  <2>2. pc = "wait" /\ pc' = "fail"
    BY <1>18 DEF WaitBroken, GoOn
  <2> QED
    BY <2>1, <2>2, Behead DEF Queue, Asking, Handling, Apart
<1>19. CASE WaitError
  <2>1. pc = "wait" /\ pc' \in {"idle", "fail"}
    BY <1>19 DEF WaitError, GoOn, Return
  <2>2. CASE UNCHANGED sockVars
    BY <2>1, <2>2 DEF sockVars, Queue, Asking, Handling, Apart
  <2>3. CASE RecvErr
    BY <2>1, <2>3 DEF RecvErr, Queue
  <2>4. CASE RecvMsg
    <3>1. /\ rx' = Tail(rx) /\ rx # <<>> /\ rx \in Seq(Messages) /\ lost' = lost
          /\ sk_err' = sk_err /\ (~congested => ~congested')
      BY <2>4, Taken DEF Socket
    <3> QED
      BY <2>1, <3>1, Behead DEF Queue, Asking, Handling, Apart
  <2> QED
    BY <1>19, <2>2, <2>3, <2>4 DEF WaitError
<1>20. CASE WaitTimeout
  <2>1. pc = "wait" /\ pc' = "idle"
    BY <1>20 DEF WaitTimeout, Return
  <2>2. CASE Closed
    BY <2>1, <2>2, Shut DEF Queue, Asking, Handling
  <2>3. CASE UNCHANGED sockVars
    BY <2>1, <2>3 DEF sockVars, Queue, Asking, Handling, Apart
  <2> QED
    BY <1>20, <2>2, <2>3 DEF WaitTimeout, ldt_mayclose
<1>21. CASE ldt_event_send
  <2>1. call.dev \in Devs
    BY <1>21 DEF ldt_event_send, Control, Apart
  <2> DEFINE m == Event(Bad(call.op), call.dev, TRUE)
             there == loaded /\ dev[call.dev] # "no"
             ms == IF there THEN <<m>> ELSE <<>>
  <2>2. m \in Messages /\ m.k = "event"
    BY <2>1, EventTypes DEF Events, Bad
  <2>3. Told(ms) \in Seq(Messages) /\ OnlyEvents(Told(ms))
    <3> HIDE DEF m
    <3>1. ms \in Seq(Messages) /\ OnlyEvents(ms)
      BY <2>2, Single, EmptyQueue
    <3> QED
      BY <3>1, ToldMessages
  <2>4. PICK ret \in {"ok", "err"} : Deliver(Older, Told(ms) \o <<Answer(ret)>>)
    BY <1>21 DEF ldt_event_send
  <2> HIDE DEF ms
  <2>5. /\ Answer(ret) \in Messages /\ <<Answer(ret)>> \in Seq(Messages)
        /\ Answer(ret).k = "answer" /\ Answer(ret).fresh
    BY AnswerTypes, Single
  <2>6. Told(ms) \o <<Answer(ret)>> \in Seq(Messages)
    BY <2>3, <2>5, Behind
  <2>7. rx \in Seq(Messages) /\ Len(rx) <= RxMax
    BY DEF Socket
  <2>8. /\ Older \in Seq(Messages) /\ Len(Older) <= RxMax
        /\ Foreign(rx) => OnlyEvents(Older)
    BY <2>7, Aged, ForeignEvents
  <2>9. ~lost' => /\ ~lost /\ ~congested /\ ~sk_err
                  /\ rx' = Older \o (Told(ms) \o <<Answer(ret)>>)
                  /\ ~congested' /\ ~sk_err'
    BY <2>4, <2>6, <2>8, Delivered DEF Queue
  <2>10. pc = "fail" /\ pc' = "failget"
    BY <1>21 DEF ldt_event_send, GoOn
  <2>11. ~lost' => OneAnswer(rx')
    BY <2>3, <2>5, <2>8, <2>9, <2>10, AnswerLast DEF Queue, Apart
  <2> QED
    BY <2>9, <2>10, <2>11 DEF Queue, Asking, Handling, Apart
<1>22. CASE EventSendFails
  <2>1. UNCHANGED <<rx, congested, sk_err, lost>>
    BY <1>22 DEF EventSendFails, sockVars
  <2>2. pc = "fail" /\ pc' = "idle"
    BY <1>22 DEF EventSendFails, Return
  <2> QED
    BY <2>1, <2>2, ForeignEvents DEF Queue, Asking, Handling, Apart
<1>23. CASE ldt_event_close
  <2>1. Closed /\ pc = "idle" /\ pc' = pc
    BY <1>23 DEF ldt_event_close
  <2> QED
    BY <2>1, Shut DEF Queue, Asking, Handling, Apart
<1>24. ASSUME NEW op \in Ops, NEW d \in Devs, NEW tout \in BOOLEAN,
             NEW set \in SUBSET Events, Call(op, d, tout, set)
      PROVE  Queue'
  <2>1. UNCHANGED <<rx, congested, sk_err, lost>> /\ pc = "idle" /\ pc' = First(op)
    BY <1>24 DEF Call, sockVars
  <2>2. First(op) \in {"sub", "req", "wait"} /\ (First(op) = "wait" => op \notin Waiting)
    BY DEF First, Waiting
  <2>3. call'.op = op
    BY <1>24 DEF Call
  <2> QED
    BY <2>1, <2>2, <2>3 DEF Queue, Asking, Handling, Apart
<1>25. CASE SubscribeUnsent
  <2>1. UNCHANGED <<rx, congested, sk_err, lost>>
    BY <1>25 DEF SubscribeUnsent, sockVars
  <2>2. pc = "sub" /\ pc' \in {"idle", "req"}
    BY <1>25 DEF SubscribeUnsent, Return, GoOn
  <2> QED
    BY <2>1, <2>2, ForeignEvents DEF Queue, Asking, Handling, Apart
<1>26. CASE RequestUnsent
  <2>1. pc \in {"req", "fail"} /\ pc' = "idle"
    BY <1>26 DEF RequestUnsent, Return
  <2>2. CASE Closed
    BY <2>1, <2>2, Shut DEF Queue, Asking, Handling
  <2>3. CASE UNCHANGED sockVars
    BY <2>1, <2>3 DEF sockVars, Queue, Asking, Handling, Apart
  <2> QED
    BY <1>26, <2>2, <2>3 DEF RequestUnsent
<1> HIDE DEF LibInv
<1> QED
  BY <1>1, <1>2, <1>3, <1>4, <1>5, <1>6, <1>7, <1>8, <1>9, <1>10, <1>11,
     <1>12, <1>13, <1>14, <1>15, <1>16, <1>17, <1>18, <1>19, <1>20,
     <1>21, <1>22, <1>23, <1>24, <1>25, <1>26
     DEF Step, Library

\* What ldt_getinfo and the calls return.
LEMMA ReturnedStep == LibInv /\ Step => Returned'
<1> SUFFICES ASSUME LibInv, Step PROVE Returned'
  OBVIOUS
<1> USE DEF LibInv, Returned, SuccessIsFresh
<1>1. CASE UNCHANGED vars
  BY <1>1 DEF vars
<1>2. CASE Kernel \/ Others
  BY <1>2, Outside DEF libVars
<1>3. CASE ldt_subscribe
  BY <1>3 DEF ldt_subscribe, GoOn
<1>4. CASE SubscribeFails
  <2>1. got' \in {got, "none"}
    BY <1>4 DEF SubscribeFails
  <2>2. last' = last \/ last'.ev = NoEvent
    BY <1>4 DEF SubscribeFails, Return, GoOn
  <2> QED
    BY <2>1, <2>2
<1>5. CASE Request
  BY <1>5 DEF Request, ldt_nl_send, GoOn
<1>6. CASE RequestFails
  <2>1. got' \in {got, "none"}
    BY <1>6 DEF RequestFails
  <2>2. last' = last \/ last'.ev = NoEvent
    BY <1>6 DEF RequestFails, Return
  <2> QED
    BY <2>1, <2>2
<1>7. CASE HandlerDev
  BY <1>7 DEF HandlerDev, GoOn
<1>8. CASE HandlerOnly
  BY <1>8 DEF HandlerOnly, GoOn
<1>9. CASE HandlerTun
  BY <1>9 DEF HandlerTun, GoOn
<1>10. CASE Rebound
  BY <1>10 DEF Rebound, GoOn
<1>11. CASE send_ret
  BY <1>11 DEF send_ret, GoOn
<1>12. CASE GetinfoEvent
  BY <1>12 DEF GetinfoEvent
<1>13. CASE ldt_getinfo
  <2>1. pc \in Asking /\ Head(rx).k = "answer" /\ rx # <<>> /\ rx \in Seq(Messages)
    BY <1>13 DEF ldt_getinfo, Asking, Socket
  <2>2. PICK ret : Answered(ret)
    BY <1>13 DEF ldt_getinfo
  <2>3. last' = last \/ last'.ev = NoEvent
    <3>1. last' = last \/ \E r : last' = [op |-> call.op, dev |-> call.dev, ret |-> r,
                                          ev |-> NoEvent, estab |-> estab, lost |-> lost]
      BY <2>1, <2>2, Outcome
    <3> QED
      BY <3>1
  <2>4. ~lost => Head(rx).fresh
    BY <2>1, Behead DEF Queue
  <2>5. got' \in {"mine", "shifted"}
    BY <1>13, <2>4 DEF ldt_getinfo
  <2> QED
    BY <2>3, <2>5
<1>14. CASE GetinfoFails
  <2>1. pc \in Asking /\ got' = got
    BY <1>14 DEF GetinfoFails, Asking
  <2>2. PICK ret : Answered(ret)
    BY <1>14 DEF GetinfoFails
  <2>3. last' = last \/ last'.ev = NoEvent
    <3>1. last' = last \/ \E r : last' = [op |-> call.op, dev |-> call.dev, ret |-> r,
                                          ev |-> NoEvent, estab |-> estab, lost |-> lost]
      BY <2>1, <2>2, Outcome
    <3> QED
      BY <3>1
  <2> QED
    BY <2>1, <2>3
<1>15. CASE WaitSkips
  BY <1>15 DEF WaitSkips
<1>16. CASE WaitAnswer
  BY <1>16 DEF WaitAnswer
<1>17. CASE WaitReturns
  <2> DEFINE m == Head(rx)
  <2>1. /\ pc = "wait" /\ rx # <<>> /\ rx \in Seq(Messages) /\ got' = got
    BY <1>17 DEF WaitReturns, Socket
  <2>2. ~lost /\ call.op \in Waiting => m.fresh
    BY <2>1, Behead DEF Queue
  <2>3. \/ call.op \notin Waiting /\ Return("ok", m)
        \/ call.op \in Waiting /\ m.ev = Good(call.op) /\ Return("ok", m)
        \/ call.op \in Waiting /\ m.ev = Bad(call.op) /\ Return("err", m)
    BY <1>17 DEF WaitReturns
  <2> HIDE DEF m
  <2>4. last'.op = call.op /\ last'.ev = m /\ last'.lost = lost
    BY <2>3 DEF Return
  <2>5. last'.ret = "ok" /\ call.op \in Waiting => m.ev = Good(call.op)
    BY <2>3 DEF Return
  <2> QED
    BY <2>1, <2>2, <2>4, <2>5
<1>18. CASE WaitBroken
  BY <1>18 DEF WaitBroken, GoOn
<1>19. CASE WaitError
  <2>1. got' \in {got, "none"}
    BY <1>19 DEF WaitError
  <2>2. last' = last \/ last'.ev = NoEvent
    BY <1>19 DEF WaitError, Return, GoOn
  <2> QED
    BY <2>1, <2>2
<1>20. CASE WaitTimeout
  <2>1. got' \in {got, "none"}
    BY <1>20 DEF WaitTimeout
  <2>2. last' = last \/ last'.ev = NoEvent
    BY <1>20 DEF WaitTimeout, Return
  <2> QED
    BY <2>1, <2>2
<1>21. CASE ldt_event_send
  BY <1>21 DEF ldt_event_send, GoOn
<1>22. CASE EventSendFails
  <2>1. got' \in {got, "none"}
    BY <1>22 DEF EventSendFails
  <2>2. last' = last \/ last'.ev = NoEvent
    BY <1>22 DEF EventSendFails, Return
  <2> QED
    BY <2>1, <2>2
<1>23. CASE ldt_event_close
  BY <1>23 DEF ldt_event_close
<1>24. ASSUME NEW op \in Ops, NEW d \in Devs, NEW tout \in BOOLEAN,
             NEW set \in SUBSET Events, Call(op, d, tout, set)
      PROVE  Returned'
  BY <1>24 DEF Call
<1>25. CASE SubscribeUnsent
  <2>1. got' \in {got, "none"}
    BY <1>25 DEF SubscribeUnsent
  <2>2. last' = last \/ last'.ev = NoEvent
    BY <1>25 DEF SubscribeUnsent, Return, GoOn
  <2> QED
    BY <2>1, <2>2
<1>26. CASE RequestUnsent
  <2>1. got' \in {got, "none"}
    BY <1>26 DEF RequestUnsent
  <2>2. last'.ev = NoEvent
    BY <1>26 DEF RequestUnsent, Return
  <2> QED
    BY <2>1, <2>2
<1> HIDE DEF LibInv, Returned, SuccessIsFresh
<1> QED
  BY <1>1, <1>2, <1>3, <1>4, <1>5, <1>6, <1>7, <1>8, <1>9, <1>10, <1>11,
     <1>12, <1>13, <1>14, <1>15, <1>16, <1>17, <1>18, <1>19, <1>20,
     <1>21, <1>22, <1>23, <1>24, <1>25, <1>26
     DEF Step, Library

-----------------------------------------------------------------------------
LEMMA LibInit == Init => LibInv
<1> SUFFICES ASSUME Init PROVE LibInv
  OBVIOUS
<1> USE DEF Init
<1>1. Device
  BY DEF Device
<1>2. Socket
  <2>1. rx \in Seq(Messages) /\ Len(rx) <= RxMax
    BY EmptyQueue, LibAssumption
  <2> QED
    BY <2>1 DEF Socket
<1>3. Control
  BY DEF Control, Asking, Handling, Apart
<1>4. Queue
  BY EmptyQueue DEF Queue, Asking, Handling, Apart
<1>5. Returned
  BY DEF Returned, SuccessIsFresh
<1> QED
  BY <1>1, <1>2, <1>3, <1>4, <1>5 DEF LibInv

LEMMA LibStep == LibInv /\ Step => LibInv'
  BY DeviceStep, SocketStep, ControlStep, QueueStep, ReturnedStep DEF LibInv

\* What LibInv says of the messages.
LEMMA Sorted == LibInv => MessagesSorted /\ SuccessIsFresh
<1> SUFFICES ASSUME LibInv PROVE MessagesSorted /\ SuccessIsFresh
  OBVIOUS
<1>1. TypeOK
  BY DEF LibInv, Device, Socket, Returned, TypeOK
<1>2. AnswerIsMine /\ SuccessIsFresh
  BY DEF LibInv, Returned, AnswerIsMine
<1>3. OwnRebindDropped
  <2> SUFFICES ASSUME pc = "wait", ~lost, NEW k \in DOMAIN rx PROVE ~rx[k].own
    BY DEF OwnRebindDropped
  <2>1. k \in 1 .. Len(rx)
    BY LenProperties DEF LibInv, Socket
  <2> QED
    BY <2>1 DEF LibInv, Queue, Apart, Foreign
<1> QED
  BY <1>1, <1>2, <1>3 DEF MessagesSorted

\* Whatever the application calls: while no message is lost, the answer that
\* ldt_getinfo returns is the one to its caller's request, though it compares
\* no sequence numbers, and ldt_tun_setpeer never waits with a REBIND of its
\* own in the queue.
THEOREM AnswersFindTheirRequest == Spec => []MessagesSorted
<1>1. LibInv /\ [Next]_vars => LibInv'
  BY LibSteps, LibStep
<1>2. LibInv => MessagesSorted
  BY Sorted
<1> QED
  BY <1>1, <1>2, LibInit, PTL DEF Spec

\* And ldt_tun_setpeer and ldt_tun_serverstart report success only for an
\* event that was sent after they had asked the kernel.
THEOREM SuccessIsOfThisCall == Spec => []SuccessIsFresh
<1>1. LibInv /\ [Next]_vars => LibInv'
  BY LibSteps, LibStep
<1>2. LibInv => SuccessIsFresh
  BY Sorted
<1> QED
  BY <1>1, <1>2, LibInit, PTL DEF Spec

-----------------------------------------------------------------------------
(* The connection manager is an application of the library.                *)

LEMMA ConmanSteps == [ConmanNext]_allVars => Step
<1> SUFFICES ASSUME [ConmanNext]_allVars PROVE Step
  OBVIOUS
<1>1. /\ {} \in SUBSET Events /\ Awaited("setpeer") \in SUBSET Events
      /\ DownEvents \in SUBSET Events /\ UpEvents \in SUBSET Events
  BY DEF Awaited, Events, Good, Bad, DownEvents, UpEvents
<1>2. ASSUME NEW op, NEW tout \in BOOLEAN, NEW set \in SUBSET Events,
             Call(op, Name, tout, set)
      PROVE  Step
  BY <1>2, ConmanAssumption DEF Step, Call
<1>3. CASE UNCHANGED vars
  BY <1>3 DEF Step
<1>4. CASE Library \/ Kernel \/ Others
  BY <1>4 DEF Step
<1>5. CASE Start \/ Bind \/ Peer \/ WaitOnDown \/ WaitOnComeBack
  BY <1>1, <1>2, <1>5 DEF Start, Bind, Peer, WaitOnDown, WaitOnComeBack,
     ldt_event_open, ldt_tunbind, ldt_tun_setpeer
<1>6. CASE \/ Opened \/ BindReturns \/ PeerReturns \/ NextAddr
           \/ DownReturns \/ DownFails \/ BackReturns
  BY <1>3, <1>6 DEF Opened, BindReturns, PeerReturns, NextAddr, DownReturns,
     DownFails, BackReturns, Silent
<1> QED
  BY <1>3, <1>4, <1>5, <1>6 DEF ConmanNext, cmd_conman, allVars

\* So the same is true of the library under the connection manager, which
\* makes its calls with sets of events of its own.
THEOREM ManagerIsTold == ConmanSpec => [](MessagesSorted /\ SuccessIsFresh)
<1>1. LibInv /\ [ConmanNext]_allVars => LibInv'
  BY ConmanSteps, LibStep
<1>2. ConmanInit => LibInv
  BY LibInit DEF ConmanInit
<1>3. LibInv => MessagesSorted /\ SuccessIsFresh
  BY Sorted
<1> QED
  BY <1>1, <1>2, <1>3, PTL DEF ConmanSpec
=============================================================================
