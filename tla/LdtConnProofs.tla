--------------------------- MODULE LdtConnProofs ---------------------------
(***************************************************************************)
(* Proofs about the life of a tunnel's connection, for any number of       *)
(* sockets and addresses.                                                  *)
(*                                                                         *)
(* The argument: in a tunnel that is client or server only one work item   *)
(* is in mpdccptun_dobind (Roles).  That one creates a socket only when    *)
(* the tunnel has none (Unbound), so that no pointer to an open socket is  *)
(* overwritten (Known); and whoever closes sockets has taken them away     *)
(* from the tunnel before (Apart), so that its pointers stay good          *)
(* (Pointers).  A socket is taken from a listening server only together    *)
(* with the flag (ListenInv).                                              *)
(***************************************************************************)
EXTENDS LdtConn, TLAPS

\* The two halves of TypeOK: flags, and everything else.
Flags ==
    /\ {haspeer, bound, rebind, listening, isserver, isconnected, wasconnected,
        ismpdccp, timer, inTimer, tostop, freed, asked, owed, raced}
       \subseteq BOOLEAN
    /\ pending \in [Works -> BOOLEAN]

Objects ==
    /\ laddr \in Addrs \cup {NoAddr}
    /\ sock \in Socks \cup {NoSock}
    /\ active \in Socks \cup {NoSock}
    /\ num_subflow \in 0 .. MaxSub
    /\ state \in [Socks -> SockStates]
    /\ local \in [Socks -> Addrs \cup {NoAddr}]
    /\ attached \subseteq Socks
    /\ pc \in [Contexts -> PcStates]
    /\ hand \in [Contexts -> SUBSET Socks]
    /\ crash \in {"no", "null", "freed", "stale"}

USE DEF Works, Contexts

\* Every command, handler and callback keeps the types of what is not a flag.
LEMMA ObjectsStep == Objects /\ [Next]_vars => Objects'
<1> SUFFICES ASSUME Objects, [Next]_vars PROVE Objects'
  OBVIOUS
<1> USE ConnAssumption DEF Objects, GoTo, Done, PcStates, SockStates,
        flagVars, connVars, sockVars, askVars
<1>1. CASE UNCHANGED vars
  BY <1>1 DEF vars
<1>2. ASSUME NEW a \in Addrs, mpdccptun_bind(a) PROVE Objects'
  BY <1>2 DEF mpdccptun_bind
<1>3. ASSUME NEW new \in BOOLEAN, mpdccptun_peer(new) PROVE Objects'
  BY <1>3 DEF mpdccptun_peer, queue_work
<1>4. CASE mpdccptun_serverstart
  BY <1>4 DEF mpdccptun_serverstart, queue_work
<1>5. CASE mpdccptun_setqueue
  BY <1>5 DEF mpdccptun_setqueue
<1>6. CASE Remove
  BY <1>6 DEF Remove, closesk
<1>7. CASE RemoveFree
  BY <1>7 DEF RemoveFree, _myclose
<1>8. ASSUME NEW w \in Works, Start(w) PROVE Objects'
  BY <1>8 DEF Start
<1>9. ASSUME NEW w \in Works, UseAfterFree(w) PROVE Objects'
  BY <1>9 DEF UseAfterFree
<1>10. ASSUME NEW w \in {"conn", "listen"}, DoBind(w) PROVE Objects'
  BY <1>10 DEF DoBind, closesk, AfterBind
<1>11. ASSUME NEW w \in {"conn", "listen"}, Release(w) PROVE Objects'
  BY <1>11 DEF Release, _myclose
<1>12. ASSUME NEW w \in {"conn", "listen"}, Create(w) PROVE Objects'
  BY <1>12 DEF Create
<1>13. ASSUME NEW w \in {"conn", "listen"}, Setup(w) PROVE Objects'
  <2>1. CASE sock = NoSock
    BY <1>13, <2>1 DEF Setup
  <2>2. CASE sock # NoSock /\ GoTo(w, "bind")
    BY <1>13, <2>2 DEF Setup, GiveUp, _myclose
  <2>3. CASE sock # NoSock /\ GiveUp(w)
    BY <1>13, <2>3 DEF Setup, GiveUp, _myclose
  <2> QED
    BY <1>13, <2>1, <2>2, <2>3 DEF Setup
<1>14. ASSUME NEW w \in {"conn", "listen"}, Bind(w) PROVE Objects'
  BY <1>14 DEF Bind
<1>15. ASSUME NEW w \in {"conn", "listen"}, SetBound(w) PROVE Objects'
  BY <1>15 DEF SetBound, AfterBind
<1>16. CASE Connect
  BY <1>16 DEF Connect
<1>17. CASE Connected
  BY <1>17 DEF Connected
<1>18. CASE Listen
  BY <1>18 DEF Listen
<1>19. CASE Relisten
  <2>1. _myclose(hand["listen"]) \in [Socks -> SockStates]
    BY DEF _myclose
  <2> QED
    BY <1>19, <2>1 DEF Relisten
<1>20. CASE Accept
  BY <1>20 DEF Accept
<1>21. CASE Accepted
  BY <1>21 DEF Accepted, _myclose
<1>22. CASE TimerFires
  BY <1>22 DEF TimerFires
<1>23. ASSUME NEW s \in Socks, SubflowCreate(s) PROVE Objects'
  BY <1>23 DEF SubflowCreate
<1>24. ASSUME NEW s \in Socks, SubflowDestroy(s) PROVE Objects'
  BY <1>24 DEF SubflowDestroy
<1>25. ASSUME NEW s \in Socks, AllSubflowsDown(s) PROVE Objects'
  BY <1>25 DEF AllSubflowsDown, mpdccptun_linkdown, _myclose
<1>26. ASSUME NEW s \in Socks, StaleReport(s) PROVE Objects'
  BY <1>26 DEF StaleReport
<1>27. ASSUME NEW s \in Socks, ListenReady(s) PROVE Objects'
  BY <1>27 DEF ListenReady, queue_work
<1>28. ASSUME NEW s \in Socks, Forget(s) PROVE Objects'
  BY <1>28 DEF Forget
<1>29. ASSUME NEW w \in {"conn", "listen"}, Bound(w) PROVE Objects'
  <2>1. CASE GiveUp(w)
    BY <1>29, <2>1 DEF Bound, GiveUp, _myclose
  <2>2. CASE ~GiveUp(w)
    BY <1>29, <2>2 DEF Bound
  <2> QED
    BY <2>1, <2>2
<1>30. ASSUME NEW w \in Works, SendEvent(w) PROVE Objects'
  BY <1>30 DEF SendEvent
<1>31. CASE DoListen
  BY <1>31 DEF DoListen
<1>32. CASE Listened
  BY <1>32 DEF Listened
<1>33. CASE SetListening
  BY <1>33 DEF SetListening
<1>34. CASE conn_timer_handler
  BY <1>34 DEF conn_timer_handler, mpdccptun_linkdown, _myclose
<1> HIDE DEF Objects, GoTo, Done, PcStates, SockStates, flagVars, connVars,
        sockVars, askVars
<1> QED
  BY <1>1, <1>2, <1>3, <1>4, <1>5, <1>6, <1>7, <1>8, <1>9, <1>10, <1>11,
     <1>12, <1>13, <1>14, <1>15, <1>16, <1>17, <1>18, <1>19, <1>20, <1>21,
     <1>22, <1>23, <1>24, <1>25, <1>26, <1>27, <1>28, <1>29, <1>30, <1>31,
     <1>32, <1>33, <1>34
     DEF Next, Command, Binder, connect_handler, listen_handler, accept_handler,
         Softirq

\* ... and of the flags.
LEMMA FlagsStep == Flags /\ [Next]_vars => Flags'
<1> SUFFICES ASSUME Flags, [Next]_vars PROVE Flags'
  OBVIOUS
<1> USE ConnAssumption DEF Flags, flagVars, connVars, sockVars, askVars
<1>1. CASE UNCHANGED vars
  BY <1>1 DEF vars
<1>2. ASSUME NEW a \in Addrs, mpdccptun_bind(a) PROVE Flags'
  BY <1>2 DEF mpdccptun_bind
<1>3. ASSUME NEW new \in BOOLEAN, mpdccptun_peer(new) PROVE Flags'
  BY <1>3 DEF mpdccptun_peer, queue_work
<1>4. CASE mpdccptun_serverstart
  BY <1>4 DEF mpdccptun_serverstart, queue_work
<1>5. CASE mpdccptun_setqueue
  BY <1>5 DEF mpdccptun_setqueue
<1>6. CASE Remove
  <2>1. {bound', rebind', listening', isconnected', tostop'} \subseteq BOOLEAN
    BY <1>6 DEF Remove, closesk
  <2> QED
    BY <1>6, <2>1 DEF Remove
<1>7. CASE RemoveFree
  BY <1>7 DEF RemoveFree, _myclose
<1>8. ASSUME NEW w \in Works, Start(w) PROVE Flags'
  BY <1>8 DEF Start
<1>9. ASSUME NEW w \in Works, UseAfterFree(w) PROVE Flags'
  BY <1>9 DEF UseAfterFree
<1>10. ASSUME NEW w \in {"conn", "listen"}, DoBind(w) PROVE Flags'
  <2>1. {bound', rebind', listening', isconnected'} \subseteq BOOLEAN
    BY <1>10 DEF DoBind, closesk
  <2> QED
    BY <1>10, <2>1 DEF DoBind
<1>11. ASSUME NEW w \in {"conn", "listen"}, Release(w) PROVE Flags'
  BY <1>11 DEF Release, _myclose
<1>12. ASSUME NEW w \in {"conn", "listen"}, Create(w) PROVE Flags'
  BY <1>12 DEF Create
<1>13. ASSUME NEW w \in {"conn", "listen"}, Setup(w) PROVE Flags'
  <2>1. ismpdccp' \in BOOLEAN
    BY <1>13 DEF Setup
  <2> QED
    BY <1>13, <2>1 DEF Setup
<1>14. ASSUME NEW w \in {"conn", "listen"}, Bind(w) PROVE Flags'
  BY <1>14 DEF Bind
<1>15. ASSUME NEW w \in {"conn", "listen"}, SetBound(w) PROVE Flags'
  BY <1>15 DEF SetBound, AfterBind
<1>16. CASE Connect
  BY <1>16 DEF Connect
<1>17. CASE Connected
  <2>1. {isconnected', wasconnected', timer'} \subseteq BOOLEAN
    BY <1>17 DEF Connected
  <2> QED
    BY <1>17, <2>1 DEF Connected
<1>18. CASE Listen
  <2>1. {listening', isconnected'} \subseteq BOOLEAN
    BY <1>18 DEF Listen
  <2> QED
    BY <1>18, <2>1 DEF Listen
<1>19. CASE Relisten
  BY <1>19 DEF Relisten, _myclose
<1>20. CASE Accept
  BY <1>20 DEF Accept
<1>21. CASE Accepted
  BY <1>21 DEF Accepted, _myclose
<1>22. CASE TimerFires
  BY <1>22 DEF TimerFires
<1>23. ASSUME NEW s \in Socks, SubflowCreate(s) PROVE Flags'
  BY <1>23 DEF SubflowCreate
<1>24. ASSUME NEW s \in Socks, SubflowDestroy(s) PROVE Flags'
  BY <1>24 DEF SubflowDestroy
<1>25. ASSUME NEW s \in Socks, AllSubflowsDown(s) PROVE Flags'
  <2>1. isconnected' \in BOOLEAN
    BY <1>25 DEF AllSubflowsDown, mpdccptun_linkdown
  <2> QED
    BY <1>25, <2>1 DEF AllSubflowsDown
<1>26. ASSUME NEW s \in Socks, StaleReport(s) PROVE Flags'
  BY <1>26 DEF StaleReport
<1>27. ASSUME NEW s \in Socks, ListenReady(s) PROVE Flags'
  BY <1>27 DEF ListenReady, queue_work
<1>28. ASSUME NEW s \in Socks, Forget(s) PROVE Flags'
  BY <1>28 DEF Forget
<1>29. ASSUME NEW w \in {"conn", "listen"}, Bound(w) PROVE Flags'
  BY <1>29 DEF Bound
<1>30. ASSUME NEW w \in Works, SendEvent(w) PROVE Flags'
  BY <1>30 DEF SendEvent
<1>31. CASE DoListen
  BY <1>31 DEF DoListen
<1>32. CASE Listened
  BY <1>32 DEF Listened
<1>33. CASE SetListening
  BY <1>33 DEF SetListening
<1>34. CASE conn_timer_handler
  <2>1. isconnected' \in BOOLEAN
    BY <1>34 DEF conn_timer_handler, mpdccptun_linkdown
  <2> QED
    BY <1>34, <2>1 DEF conn_timer_handler
<1> HIDE DEF Flags, flagVars, connVars, sockVars, askVars
<1> QED
  BY <1>1, <1>2, <1>3, <1>4, <1>5, <1>6, <1>7, <1>8, <1>9, <1>10, <1>11,
     <1>12, <1>13, <1>14, <1>15, <1>16, <1>17, <1>18, <1>19, <1>20, <1>21,
     <1>22, <1>23, <1>24, <1>25, <1>26, <1>27, <1>28, <1>29, <1>30, <1>31,
     <1>32, <1>33, <1>34
     DEF Next, Command, Binder, connect_handler, listen_handler, accept_handler,
         Softirq

-----------------------------------------------------------------------------
(* Who works for whom.                                                     *)

\* A work item that is queued or runs tells the role of the tunnel.
Roles ==
    /\ pending["conn"] \/ pc["conn"] # "idle" => haspeer
    /\ pending["listen"] \/ pc["listen"] # "idle" => isserver
    /\ pending["accept"] \/ pc["accept"] # "idle" => isserver
    /\ listening => isserver
    /\ isconnected => haspeer \/ isserver
    /\ \A s \in Socks : state[s] = "listen" => isserver

\* At most one work item is in mpdccptun_dobind.
OneBinder == pc["conn"] = "idle" \/ pc["listen"] = "idle"

\* The work items that call mpdccptun_dobind have different roles.
LEMMA OneBinderLemma == Roles /\ ClientOrServer => OneBinder
BY DEF Roles, ClientOrServer, OneBinder

\* work_conn is queued for a client only, work_listen and work_accept for a
\* server only.
LEMMA RolesStep == Objects /\ Flags /\ Roles /\ [Next]_vars => Roles'
<1> SUFFICES ASSUME Objects, Flags, Roles, [Next]_vars PROVE Roles'
  OBVIOUS
<1> USE ConnAssumption DEF Roles, Objects, Flags, GoTo, Done, PcStates, SockStates,
        flagVars, connVars, sockVars, askVars, Runs, closesk
<1>1. CASE UNCHANGED vars
  BY <1>1 DEF vars
<1>2. ASSUME NEW a \in Addrs, mpdccptun_bind(a) PROVE Roles'
  BY <1>2 DEF mpdccptun_bind
<1>3. ASSUME NEW new \in BOOLEAN, mpdccptun_peer(new) PROVE Roles'
  BY <1>3 DEF mpdccptun_peer, queue_work
<1>4. CASE mpdccptun_serverstart
  BY <1>4 DEF mpdccptun_serverstart, queue_work
<1>5. CASE mpdccptun_setqueue
  BY <1>5 DEF mpdccptun_setqueue
<1>6. CASE Remove
  BY <1>6 DEF Remove, closesk
<1>7. CASE RemoveFree
  BY <1>7 DEF RemoveFree, _myclose
<1>8. ASSUME NEW w \in Works, Start(w) PROVE Roles'
  BY <1>8 DEF Start
<1>9. ASSUME NEW w \in Works, UseAfterFree(w) PROVE Roles'
  BY <1>9 DEF UseAfterFree
<1>10. ASSUME NEW w \in {"conn", "listen"}, DoBind(w) PROVE Roles'
  BY <1>10 DEF DoBind, closesk, AfterBind
<1>11. ASSUME NEW w \in {"conn", "listen"}, Release(w) PROVE Roles'
  BY <1>11 DEF Release, _myclose
<1>12. ASSUME NEW w \in {"conn", "listen"}, Create(w) PROVE Roles'
  BY <1>12 DEF Create
<1>13. ASSUME NEW w \in {"conn", "listen"}, Setup(w) PROVE Roles'
  <2>1. \A s \in Socks : state'[s] = "listen" => state[s] = "listen"
    <3>1. CASE GiveUp(w)
      BY <3>1 DEF GiveUp, _myclose
    <3>2. CASE UNCHANGED state
      BY <3>2
    <3> QED
      BY <1>13, <3>1, <3>2 DEF Setup
  <2>2. pc' = [pc EXCEPT ![w] = pc'[w]]
    BY <1>13 DEF Setup, GiveUp
  <2> QED
    BY <1>13, <2>1, <2>2 DEF Setup
<1>14. ASSUME NEW w \in {"conn", "listen"}, Bind(w) PROVE Roles'
  BY <1>14 DEF Bind, GiveUp, _myclose
<1>15. ASSUME NEW w \in {"conn", "listen"}, SetBound(w) PROVE Roles'
  BY <1>15 DEF SetBound, AfterBind
<1>16. CASE Connect
  BY <1>16 DEF Connect
<1>17. CASE Connected
  BY <1>17 DEF Connected
<1>18. CASE Listen
  BY <1>18 DEF Listen
<1>19. CASE Relisten
  BY <1>19 DEF Relisten, _myclose
<1>20. CASE Accept
  BY <1>20 DEF Accept
<1>21. CASE Accepted
  BY <1>21 DEF Accepted, _myclose
<1>22. CASE TimerFires
  BY <1>22 DEF TimerFires
<1>23. ASSUME NEW s \in Socks, SubflowCreate(s) PROVE Roles'
  BY <1>23 DEF SubflowCreate
<1>24. ASSUME NEW s \in Socks, SubflowDestroy(s) PROVE Roles'
  BY <1>24 DEF SubflowDestroy
<1>25. ASSUME NEW s \in Socks, AllSubflowsDown(s) PROVE Roles'
  BY <1>25 DEF AllSubflowsDown, mpdccptun_linkdown, _myclose
<1>26. ASSUME NEW s \in Socks, StaleReport(s) PROVE Roles'
  BY <1>26 DEF StaleReport
<1>27. ASSUME NEW s \in Socks, ListenReady(s) PROVE Roles'
  BY <1>27 DEF ListenReady, queue_work
<1>28. ASSUME NEW s \in Socks, Forget(s) PROVE Roles'
  BY <1>28 DEF Forget
<1>29. ASSUME NEW w \in {"conn", "listen"}, Bound(w) PROVE Roles'
  BY <1>29 DEF Bound, GiveUp, _myclose
<1>30. ASSUME NEW w \in Works, SendEvent(w) PROVE Roles'
  BY <1>30 DEF SendEvent
<1>31. CASE DoListen
  BY <1>31 DEF DoListen
<1>32. CASE Listened
  BY <1>32 DEF Listened
<1>33. CASE SetListening
  BY <1>33 DEF SetListening
<1>34. CASE conn_timer_handler
  BY <1>34 DEF conn_timer_handler, mpdccptun_linkdown, _myclose
<1> HIDE DEF Roles, Objects, Flags, GoTo, Done, PcStates, SockStates, flagVars,
        connVars, sockVars, askVars, Runs, closesk
<1> QED
  BY <1>1, <1>2, <1>3, <1>4, <1>5, <1>6, <1>7, <1>8, <1>9, <1>10, <1>11,
     <1>12, <1>13, <1>14, <1>15, <1>16, <1>17, <1>18, <1>19, <1>20, <1>21,
     <1>22, <1>23, <1>24, <1>25, <1>26, <1>27, <1>28, <1>29, <1>30, <1>31,
     <1>32, <1>33, <1>34
     DEF Next, Command, Binder, connect_handler, listen_handler, accept_handler,
         Softirq


-----------------------------------------------------------------------------
(* The sockets.                                                            *)

Binders == {"conn", "listen"}

\* Where a call into the socket layer works on a socket that is the tunnel's.
Lent == {"binding", "connecting", "listening"}

\* Where a context has sockets in its local variables.
Hands ==
    /\ hand["conn"] # {} => pc["conn"] \in {"release", "binding", "connecting"}
    /\ hand["listen"] # {} => pc["listen"] \in {"release", "relisten", "binding",
                                               "listening"}
    /\ hand["accept"] # {} => pc["accept"] = "accepted"
    /\ hand["remove"] # {} => pc["remove"] = "release" /\ tostop

\* The two pointers are to different, open sockets.
Pointers ==
    /\ sock # NoSock => state[sock] \notin {"none", "closed"}
    /\ active # NoSock => state[active] \notin {"none", "closed"}
    /\ sock # NoSock => sock # active

\* Somebody knows each open socket, and will close it.
Known ==
    \A s \in Socks : state[s] \notin {"none", "closed"} =>
        \/ s = sock \/ s = active
        \/ \E c \in Contexts : s \in hand[c] /\ pc[c] \notin Lent

\* A socket in a local variable is not one of the tunnel's, unless it is the
\* one such a call works on; an accepted connection is nobody else's.
Apart ==
    /\ \A c \in Contexts : \A s \in hand[c] :
          /\ state[s] # "none"
          /\ pc[c] \notin Lent => s # sock /\ s # active
          /\ c # "accept" => s \notin hand["accept"]
    /\ \A s \in hand["accept"] : state[s] # "closed"
    /\ \A s, t \in hand["accept"] : s = t

\* mpdccptun_dobind creates a socket only when there is none.
Unbound ==
    /\ \A w \in Binders :
          /\ pc[w] \in {"release", "create", "setup", "bind", "binding", "setbound"} => ~bound
          /\ pc[w] \in {"release", "create"} => sock = NoSock
    /\ ~bound /\ sock # NoSock =>
          \E w \in Binders : pc[w] \in {"setup", "bind", "binding", "setbound"}

SockInv == Hands /\ (crash = "no" => Pointers /\ Known /\ Apart /\ Unbound)

\* Every command, handler and callback leaves each open socket with somebody
\* who will close it, and the tunnel with pointers to open ones.
LEMMA SockStep == Objects /\ OneBinder /\ SockInv /\ [Next]_vars => SockInv'
<1> SUFFICES ASSUME Objects, OneBinder, SockInv, [Next]_vars PROVE SockInv'
  OBVIOUS
<1> USE ConnAssumption DEF Objects, OneBinder, SockInv, Hands, Pointers, Known, Apart,
        Unbound, Lent, Binders, GoTo, Done, PcStates, SockStates, Runs,
        flagVars, connVars, sockVars, askVars
<1>1. CASE UNCHANGED vars
  BY <1>1 DEF vars
<1>2. ASSUME NEW a \in Addrs, mpdccptun_bind(a) PROVE SockInv'
  BY <1>2 DEF mpdccptun_bind
<1>3. ASSUME NEW new \in BOOLEAN, mpdccptun_peer(new) PROVE SockInv'
  BY <1>3 DEF mpdccptun_peer, queue_work
<1>4. CASE mpdccptun_serverstart
  BY <1>4 DEF mpdccptun_serverstart, queue_work
<1>5. CASE mpdccptun_setqueue
  BY <1>5 DEF mpdccptun_setqueue
<1>6. CASE Remove
  <2>1. Hands'
    BY <1>6 DEF Remove, closesk
  <2>2. CASE ~bound
    BY <1>6, <2>2 DEF Remove
  <2>3. CASE bound
    <3>1. /\ sock' = NoSock /\ active' = NoSock /\ ~bound' /\ ~listening'
          /\ hand' = [hand EXCEPT !["remove"] = {sock, active} \ {NoSock}]
          /\ pc' = [pc EXCEPT !["remove"] = "release"]
          /\ UNCHANGED <<state, crash>>
      BY <1>6, <2>3 DEF Remove, closesk
    <3>2. crash = "no" => Pointers' /\ Unbound'
      BY <3>1
    <3>3. crash = "no" => Known'
      <4> SUFFICES ASSUME crash = "no", NEW s \in Socks,
                          state[s] \notin {"none", "closed"}
                   PROVE  \E c \in Contexts : s \in hand'[c] /\ pc'[c] \notin Lent
        BY <3>1
      <4>1. CASE s \in {sock, active}
        BY <3>1, <4>1
      <4>2. CASE s \notin {sock, active}
        <5>1. PICK c \in Contexts : s \in hand[c] /\ pc[c] \notin Lent
          BY <4>2
        <5>2. c # "remove"
          BY <1>6, <5>1 DEF Remove
        <5> QED
          BY <3>1, <5>1, <5>2
      <4> QED
        BY <4>1, <4>2
    <3>4. crash = "no" => Apart'
      BY <3>1
    <3> QED
      BY <2>1, <3>1, <3>2, <3>3, <3>4
  <2> QED
    BY <2>2, <2>3
<1>7. CASE RemoveFree
  BY <1>7 DEF RemoveFree, _myclose
<1>8. ASSUME NEW w \in Works, Start(w) PROVE SockInv'
  BY <1>8 DEF Start
<1>9. ASSUME NEW w \in Works, UseAfterFree(w) PROVE SockInv'
  BY <1>9 DEF UseAfterFree
<1>10. ASSUME NEW w \in {"conn", "listen"}, DoBind(w) PROVE SockInv'
  BY <1>10 DEF DoBind, closesk, AfterBind
<1>11. ASSUME NEW w \in {"conn", "listen"}, Release(w) PROVE SockInv'
  BY <1>11 DEF Release, _myclose
<1>12. ASSUME NEW w \in {"conn", "listen"}, Create(w) PROVE SockInv'
  BY <1>12 DEF Create
<1>13. ASSUME NEW w \in {"conn", "listen"}, Setup(w) PROVE SockInv'
  <2> /\ UNCHANGED <<active, hand, bound, listening, tostop>>
      /\ pc[w] = "setup" /\ crash = "no"
    BY <1>13 DEF Setup
  <2>1. CASE crash' = "null" /\ UNCHANGED <<pc, sock, state>>
    BY <2>1
  <2>2. CASE pc' = [pc EXCEPT ![w] = "bind"] /\ UNCHANGED <<sock, state, crash>>
    BY <2>2
  <2>3. CASE GiveUp(w)
    BY <2>3 DEF GiveUp, _myclose
  <2> QED
    BY <1>13, <2>1, <2>2, <2>3 DEF Setup
<1>14. ASSUME NEW w \in {"conn", "listen"}, Bind(w) PROVE SockInv'
  BY <1>14 DEF Bind, GiveUp, _myclose
<1>15. ASSUME NEW w \in {"conn", "listen"}, SetBound(w) PROVE SockInv'
  BY <1>15 DEF SetBound, AfterBind
<1>16. CASE Connect
  BY <1>16 DEF Connect
<1>17. CASE Connected
  BY <1>17 DEF Connected
<1>18. CASE Listen
  BY <1>18 DEF Listen
<1>19. CASE Relisten
  <2>1. CASE crash' # "no"
    BY <1>19, <2>1 DEF Relisten
  <2>2. CASE crash' = "no"
    <3>0. /\ sock \in Socks
          /\ state' = [_myclose(hand["listen"]) EXCEPT ![sock] = "bound"]
      BY <1>19, <2>2 DEF Relisten
    <3>1. /\ sock # NoSock
          /\ \A s \in Socks : state'[s] = IF s = sock THEN "bound"
                         ELSE IF s \in hand["listen"] THEN "closed" ELSE state[s]
          /\ hand' = [hand EXCEPT !["listen"] = {}]
          /\ pc' = [pc EXCEPT !["listen"] = "dolisten"]
          /\ UNCHANGED <<sock, active, bound, listening, tostop>>
          /\ pc["listen"] = "relisten" /\ crash = "no"
      BY <1>19, <2>2, <3>0 DEF Relisten, _myclose
    <3>2. Hands' /\ Pointers' /\ Unbound'
      BY <3>1
    <3>3. Known'
      BY <3>1
    <3>4. Apart'
      BY <3>1
    <3> QED
      BY <3>2, <3>3, <3>4
  <2> QED
    BY <2>1, <2>2
<1>20. CASE Accept
  BY <1>20 DEF Accept
<1>21. CASE Accepted
  <2>1. PICK s \in hand["accept"] : active' = s
    BY <1>21 DEF Accepted
  <2>2. /\ state' = [t \in Socks |-> IF t = active THEN "closed" ELSE state[t]]
        /\ hand' = [hand EXCEPT !["accept"] = {}]
        /\ pc' = [pc EXCEPT !["accept"] = "event"]
        /\ UNCHANGED <<sock, bound, listening, tostop, crash>>
        /\ pc["accept"] = "accepted" /\ crash = "no"
    BY <1>21 DEF Accepted, _myclose
  <2>3. Hands' /\ Pointers' /\ Unbound'
    BY <2>1, <2>2
  <2>4. Apart'
    BY <2>1, <2>2
  <2>5. hand["accept"] = {s}
    BY <2>1, <2>2
  <2>6. Known'
    BY <2>1, <2>2, <2>5
  <2> QED
    BY <2>3, <2>4, <2>6
<1>22. CASE TimerFires
  BY <1>22 DEF TimerFires
<1>23. ASSUME NEW s \in Socks, SubflowCreate(s) PROVE SockInv'
  BY <1>23 DEF SubflowCreate
<1>24. ASSUME NEW s \in Socks, SubflowDestroy(s) PROVE SockInv'
  BY <1>24 DEF SubflowDestroy
<1>25. ASSUME NEW s \in Socks, AllSubflowsDown(s) PROVE SockInv'
  BY <1>25 DEF AllSubflowsDown, mpdccptun_linkdown, _myclose
<1>26. ASSUME NEW s \in Socks, StaleReport(s) PROVE SockInv'
  BY <1>26 DEF StaleReport
<1>27. ASSUME NEW s \in Socks, ListenReady(s) PROVE SockInv'
  BY <1>27 DEF ListenReady, queue_work
<1>28. ASSUME NEW s \in Socks, Forget(s) PROVE SockInv'
  BY <1>28 DEF Forget
<1>29. ASSUME NEW w \in {"conn", "listen"}, Bound(w) PROVE SockInv'
  BY <1>29 DEF Bound, GiveUp, _myclose
<1>30. ASSUME NEW w \in Works, SendEvent(w) PROVE SockInv'
  BY <1>30 DEF SendEvent
<1>31. CASE DoListen
  BY <1>31 DEF DoListen
<1>32. CASE Listened
  BY <1>32 DEF Listened
<1>33. CASE SetListening
  BY <1>33 DEF SetListening
<1>34. CASE conn_timer_handler
  BY <1>34 DEF conn_timer_handler, mpdccptun_linkdown, _myclose
<1> HIDE DEF Objects, OneBinder, SockInv, Hands, Pointers, Known, Apart,
        Unbound, GoTo, Done, PcStates, SockStates, Runs, flagVars, connVars,
        sockVars, askVars
<1> QED
  BY <1>1, <1>2, <1>3, <1>4, <1>5, <1>6, <1>7, <1>8, <1>9, <1>10, <1>11,
     <1>12, <1>13, <1>14, <1>15, <1>16, <1>17, <1>18, <1>19, <1>20, <1>21,
     <1>22, <1>23, <1>24, <1>25, <1>26, <1>27, <1>28, <1>29, <1>30, <1>31,
     <1>32, <1>33, <1>34
     DEF Next, Command, Binder, connect_handler, listen_handler, accept_handler,
         Softirq

-----------------------------------------------------------------------------
(* The address.                                                            *)

\* AddressInUse, from the moment kernel_bind is called.
AddrInv ==
    /\ crash = "no" /\ sock # NoSock /\ ~raced
    /\ (bound /\ ~rebind) \/ \E w \in Binders : pc[w] \in {"binding", "setbound"}
    => local[sock] = laddr

\* A bind between the call of kernel_bind and the flag bound is the race; a
\* later one sets rebind.
LEMMA AddrStep ==
    Objects /\ Flags /\ OneBinder /\ SockInv /\ AddrInv /\ [Next]_vars => AddrInv'
<1> SUFFICES ASSUME Objects, Flags, OneBinder, SockInv, AddrInv, [Next]_vars
             PROVE  AddrInv'
  OBVIOUS
<1> USE ConnAssumption DEF Objects, Flags, OneBinder, SockInv, Pointers, Unbound,
        AddrInv, Binders, GoTo, Done, PcStates, SockStates, Runs, Awake, AfterBind,
        closesk, flagVars, connVars, sockVars, askVars
<1>1. CASE UNCHANGED vars
  BY <1>1 DEF vars
<1>2. ASSUME NEW a \in Addrs, mpdccptun_bind(a) PROVE AddrInv'
  BY <1>2 DEF mpdccptun_bind, Binding
<1>3. ASSUME NEW new \in BOOLEAN, mpdccptun_peer(new) PROVE AddrInv'
  BY <1>3 DEF mpdccptun_peer, queue_work
<1>4. CASE mpdccptun_serverstart
  BY <1>4 DEF mpdccptun_serverstart, queue_work
<1>5. CASE mpdccptun_setqueue
  BY <1>5 DEF mpdccptun_setqueue
<1>6. CASE Remove
  BY <1>6 DEF Remove, closesk
<1>7. CASE RemoveFree
  BY <1>7 DEF RemoveFree, _myclose
<1>8. ASSUME NEW w \in Works, Start(w) PROVE AddrInv'
  BY <1>8 DEF Start
<1>9. ASSUME NEW w \in Works, UseAfterFree(w) PROVE AddrInv'
  BY <1>9 DEF UseAfterFree
<1>10. ASSUME NEW w \in {"conn", "listen"}, DoBind(w) PROVE AddrInv'
  BY <1>10 DEF DoBind, closesk, AfterBind
<1>11. ASSUME NEW w \in {"conn", "listen"}, Release(w) PROVE AddrInv'
  BY <1>11 DEF Release, _myclose
<1>12. ASSUME NEW w \in {"conn", "listen"}, Create(w) PROVE AddrInv'
  BY <1>12 DEF Create
<1>13. ASSUME NEW w \in {"conn", "listen"}, Setup(w) PROVE AddrInv'
  BY <1>13 DEF Setup, GiveUp, _myclose
<1>14. ASSUME NEW w \in {"conn", "listen"}, Bind(w) PROVE AddrInv'
  BY <1>14 DEF Bind, GiveUp, _myclose
<1>15. ASSUME NEW w \in {"conn", "listen"}, SetBound(w) PROVE AddrInv'
  BY <1>15 DEF SetBound, AfterBind
<1>16. CASE Connect
  BY <1>16 DEF Connect
<1>17. CASE Connected
  BY <1>17 DEF Connected
<1>18. CASE Listen
  BY <1>18 DEF Listen
<1>19. CASE Relisten
  BY <1>19 DEF Relisten, _myclose
<1>20. CASE Accept
  BY <1>20 DEF Accept
<1>21. CASE Accepted
  BY <1>21 DEF Accepted, _myclose
<1>22. CASE TimerFires
  BY <1>22 DEF TimerFires
<1>23. ASSUME NEW s \in Socks, SubflowCreate(s) PROVE AddrInv'
  BY <1>23 DEF SubflowCreate
<1>24. ASSUME NEW s \in Socks, SubflowDestroy(s) PROVE AddrInv'
  BY <1>24 DEF SubflowDestroy
<1>25. ASSUME NEW s \in Socks, AllSubflowsDown(s) PROVE AddrInv'
  BY <1>25 DEF AllSubflowsDown, mpdccptun_linkdown, _myclose
<1>26. ASSUME NEW s \in Socks, StaleReport(s) PROVE AddrInv'
  BY <1>26 DEF StaleReport
<1>27. ASSUME NEW s \in Socks, ListenReady(s) PROVE AddrInv'
  BY <1>27 DEF ListenReady, queue_work
<1>28. ASSUME NEW s \in Socks, Forget(s) PROVE AddrInv'
  BY <1>28 DEF Forget
<1>29. ASSUME NEW w \in {"conn", "listen"}, Bound(w) PROVE AddrInv'
  BY <1>29 DEF Bound, GiveUp, _myclose
<1>30. ASSUME NEW w \in Works, SendEvent(w) PROVE AddrInv'
  BY <1>30 DEF SendEvent
<1>31. CASE DoListen
  BY <1>31 DEF DoListen
<1>32. CASE Listened
  BY <1>32 DEF Listened
<1>33. CASE SetListening
  BY <1>33 DEF SetListening
<1>34. CASE conn_timer_handler
  BY <1>34 DEF conn_timer_handler, mpdccptun_linkdown, _myclose
<1> HIDE DEF Objects, Flags, OneBinder, SockInv, Pointers, Unbound, AddrInv,
        GoTo, Done, PcStates, SockStates, Runs, Awake, AfterBind, closesk,
        flagVars, connVars, sockVars, askVars
<1> QED
  BY <1>1, <1>2, <1>3, <1>4, <1>5, <1>6, <1>7, <1>8, <1>9, <1>10, <1>11,
     <1>12, <1>13, <1>14, <1>15, <1>16, <1>17, <1>18, <1>19, <1>20, <1>21,
     <1>22, <1>23, <1>24, <1>25, <1>26, <1>27, <1>28, <1>29, <1>30, <1>31,
     <1>32, <1>33, <1>34
     DEF Next, Command, Binder, connect_handler, listen_handler, accept_handler,
         Softirq


-----------------------------------------------------------------------------
(* The server.                                                             *)

\* While mpdccptun_dobind replaces the socket the server does not count as
\* listening; it does so only with bound set, or while it is being removed.
ListenInv ==
    crash = "no" =>
        /\ \A w \in Binders :
              pc[w] \in {"release", "create", "setup", "bind", "binding", "setbound"}
                => ~listening
        /\ \/ listening
           \/ pc["listen"] \in {"listen", "relisten", "dolisten", "listening",
                                "setlistening"}
           => bound \/ tostop

\* Whoever takes the socket away from a listening server clears the flag in the
\* same step, and nobody sets it while there is none to keep.
LEMMA ListenStep ==
    Objects /\ Flags /\ OneBinder /\ SockInv /\ ListenInv /\ [Next]_vars
      => ListenInv' /\ [listening /\ listening' => sock' = sock]_vars
<1> DEFINE Kept == listening /\ listening' => sock' = sock
<1> SUFFICES ASSUME Objects, Flags, OneBinder, SockInv, ListenInv, [Next]_vars
             PROVE  ListenInv' /\ Kept
  OBVIOUS
<1> USE ConnAssumption DEF Objects, Flags, OneBinder, SockInv, Unbound, ListenInv, Binders,
        GoTo, Done, PcStates, Runs, AfterBind, closesk, flagVars, connVars, sockVars,
        askVars
<1>1. CASE UNCHANGED vars
  BY <1>1 DEF vars
<1>2. CASE Command
  <2>1. ASSUME NEW a \in Addrs, mpdccptun_bind(a) PROVE ListenInv' /\ Kept
    BY <2>1 DEF mpdccptun_bind
  <2>2. ASSUME NEW new \in BOOLEAN, mpdccptun_peer(new) PROVE ListenInv' /\ Kept
    BY <2>2 DEF mpdccptun_peer
  <2>3. CASE mpdccptun_serverstart
    BY <2>3 DEF mpdccptun_serverstart
  <2>4. CASE mpdccptun_setqueue
    BY <2>4 DEF mpdccptun_setqueue
  <2>5. CASE Remove
    BY <2>5 DEF Remove
  <2> QED
    BY <1>2, <2>1, <2>2, <2>3, <2>4, <2>5 DEF Command
<1>3. CASE RemoveFree
  BY <1>3 DEF RemoveFree
<1>4. ASSUME NEW w \in Works, Start(w) \/ SendEvent(w) \/ UseAfterFree(w)
      PROVE  ListenInv' /\ Kept
  BY <1>4 DEF Start, SendEvent, UseAfterFree
<1>5. ASSUME NEW w \in Binders, DoBind(w) PROVE ListenInv' /\ Kept
  BY <1>5 DEF DoBind
<1>6. ASSUME NEW w \in Binders, Release(w) \/ Create(w) PROVE ListenInv' /\ Kept
  BY <1>6 DEF Release, Create
<1>7. ASSUME NEW w \in Binders, Setup(w) PROVE ListenInv' /\ Kept
  BY <1>7 DEF Setup, GiveUp
<1>8. ASSUME NEW w \in Binders, Bind(w) PROVE ListenInv' /\ Kept
  BY <1>8 DEF Bind
<1>9. ASSUME NEW w \in Binders, Bound(w) PROVE ListenInv' /\ Kept
  BY <1>9 DEF Bound, GiveUp
<1>10. ASSUME NEW w \in Binders, SetBound(w) PROVE ListenInv' /\ Kept
  BY <1>10 DEF SetBound
<1>11. CASE Connect \/ Connected
  BY <1>11 DEF Connect, Connected
<1>12. CASE Listen \/ Relisten \/ DoListen \/ Listened \/ SetListening
  BY <1>12 DEF Listen, Relisten, DoListen, Listened, SetListening
<1>13. CASE Accept \/ Accepted
  BY <1>13 DEF Accept, Accepted
<1>14. CASE TimerFires
  BY <1>14 DEF TimerFires
<1>15. CASE conn_timer_handler
  BY <1>15 DEF conn_timer_handler, mpdccptun_linkdown
<1>16. ASSUME NEW s \in Socks, AllSubflowsDown(s) PROVE ListenInv' /\ Kept
  BY <1>16 DEF AllSubflowsDown, mpdccptun_linkdown, Reports, Interrupts
<1>17. ASSUME NEW s \in Socks,
              \/ SubflowCreate(s) \/ SubflowDestroy(s) \/ StaleReport(s)
              \/ ListenReady(s) \/ Forget(s)
       PROVE  ListenInv' /\ Kept
  BY <1>17 DEF SubflowCreate, SubflowDestroy, StaleReport, ListenReady, Forget
<1> HIDE DEF Objects, Flags, OneBinder, SockInv, Unbound, ListenInv, GoTo, Done,
        PcStates, Runs, AfterBind, closesk, flagVars, connVars, sockVars, askVars, Kept
<1> QED
  BY <1>1, <1>2, <1>3, <1>4, <1>5, <1>6, <1>7, <1>8, <1>9, <1>10, <1>11, <1>12, <1>13,
     <1>14, <1>15, <1>16, <1>17
     DEF Next, Binder, Binders, connect_handler, listen_handler, accept_handler, Softirq

-----------------------------------------------------------------------------
(* The client.                                                             *)

\* The tunnel is a plain client.
ClientInv == ~isserver /\ ~ismpdccp

\* Where connect_handler follows the pointer to its socket there is one.
NullInv ==
    /\ crash # "null"
    /\ crash = "no" =>
          /\ bound \/ pc["conn"] \in {"setup", "bind", "binding", "setbound"} => sock # NoSock
          /\ pc["conn"] = "connect" => tostop \/ bound

\* A plain client stays one.
LEMMA ClientStep ==
    ASSUME ~Mp, "serverstart" \notin Commands
    PROVE  ClientInv /\ [Next]_vars => ClientInv'
<1> SUFFICES ASSUME ClientInv, [Next]_vars PROVE ClientInv'
  OBVIOUS
<1> USE DEF ClientInv, flagVars, connVars
<1>1. CASE UNCHANGED vars
  BY <1>1 DEF vars
<1>2. CASE Command \/ RemoveFree
  BY <1>2 DEF Command, mpdccptun_bind, mpdccptun_peer, mpdccptun_setqueue, Remove,
              RemoveFree
<1>3. ASSUME NEW w \in Binders, Binder(w) PROVE ClientInv'
  <2>1. CASE Setup(w)
    <3>1. isserver' = isserver
      BY <2>1 DEF Setup
    <3>2. ismpdccp' = ismpdccp \/ ismpdccp' = FALSE
      BY <2>1 DEF Setup
    <3> QED
      BY <3>1, <3>2
  <2>2. CASE ~Setup(w)
    BY <1>3, <2>2 DEF Binder, Start, DoBind, Release, Create, Bind, Bound, SetBound,
                      SendEvent, UseAfterFree
  <2> QED
    BY <2>1, <2>2
<1>4. CASE \/ Connect \/ Connected \/ Listen \/ Relisten \/ DoListen \/ Listened
           \/ SetListening \/ accept_handler
  BY <1>4 DEF Connect, Connected, Listen, Relisten, DoListen, Listened, SetListening,
              accept_handler, Start, Accept, Accepted, SendEvent, UseAfterFree
<1>5. CASE Softirq
  BY <1>5 DEF Softirq, TimerFires, conn_timer_handler, SubflowCreate, SubflowDestroy, AllSubflowsDown,
              StaleReport, ListenReady, Forget
<1> QED
  BY <1>1, <1>2, <1>3, <1>4, <1>5
     DEF Next, connect_handler, listen_handler, Binders

\* A client that counts as bound has its socket, since nothing but a link loss
\* takes it away without clearing the flag.
LEMMA NullStep ==
    ASSUME ~Mp
    PROVE  Objects /\ Flags /\ Roles /\ ClientInv /\ SockInv /\ NullInv
           /\ [Next]_vars => NullInv'
<1> SUFFICES ASSUME Objects, Flags, Roles, ClientInv, SockInv, NullInv, [Next]_vars
             PROVE  NullInv'
  OBVIOUS
<1> USE ConnAssumption DEF Objects, Flags, ClientInv, Roles, SockInv, Unbound,
        NullInv, Binders, GoTo, Done, PcStates, Runs, AfterBind, closesk,
        flagVars, connVars, sockVars, askVars
<1>1. CASE UNCHANGED vars
  BY <1>1 DEF vars
<1>2. ASSUME NEW a \in Addrs, mpdccptun_bind(a) PROVE NullInv'
  BY <1>2 DEF mpdccptun_bind
<1>3. ASSUME NEW new \in BOOLEAN, mpdccptun_peer(new) PROVE NullInv'
  BY <1>3 DEF mpdccptun_peer, queue_work
<1>4. CASE mpdccptun_serverstart
  BY <1>4 DEF mpdccptun_serverstart, queue_work
<1>5. CASE mpdccptun_setqueue
  BY <1>5 DEF mpdccptun_setqueue
<1>6. CASE Remove
  BY <1>6 DEF Remove, closesk
<1>7. CASE RemoveFree
  BY <1>7 DEF RemoveFree, _myclose
<1>8. ASSUME NEW w \in Works, Start(w) PROVE NullInv'
  BY <1>8 DEF Start
<1>9. ASSUME NEW w \in Works, UseAfterFree(w) PROVE NullInv'
  BY <1>9 DEF UseAfterFree
<1>10. ASSUME NEW w \in {"conn", "listen"}, DoBind(w) PROVE NullInv'
  BY <1>10 DEF DoBind, closesk, AfterBind
<1>11. ASSUME NEW w \in {"conn", "listen"}, Release(w) PROVE NullInv'
  BY <1>11 DEF Release, _myclose
<1>12. ASSUME NEW w \in {"conn", "listen"}, Create(w) PROVE NullInv'
  BY <1>12 DEF Create
<1>13. ASSUME NEW w \in {"conn", "listen"}, Setup(w) PROVE NullInv'
  BY <1>13 DEF Setup, GiveUp, _myclose
<1>14. ASSUME NEW w \in {"conn", "listen"}, Bind(w) PROVE NullInv'
  BY <1>14 DEF Bind, GiveUp, _myclose
<1>15. ASSUME NEW w \in {"conn", "listen"}, SetBound(w) PROVE NullInv'
  BY <1>15 DEF SetBound, AfterBind
<1>16. CASE Connect
  BY <1>16 DEF Connect
<1>17. CASE Connected
  BY <1>17 DEF Connected
<1>18. CASE Listen
  BY <1>18 DEF Listen
<1>19. CASE Relisten
  BY <1>19 DEF Relisten, _myclose
<1>20. CASE Accept
  BY <1>20 DEF Accept
<1>21. CASE Accepted
  BY <1>21 DEF Accepted, _myclose
<1>22. CASE TimerFires
  BY <1>22 DEF TimerFires
<1>23. ASSUME NEW s \in Socks, SubflowCreate(s) PROVE NullInv'
  BY <1>23 DEF SubflowCreate
<1>24. ASSUME NEW s \in Socks, SubflowDestroy(s) PROVE NullInv'
  BY <1>24 DEF SubflowDestroy
<1>25. ASSUME NEW s \in Socks, AllSubflowsDown(s) PROVE NullInv'
  BY <1>25 DEF AllSubflowsDown, Reports
<1>26. ASSUME NEW s \in Socks, StaleReport(s) PROVE NullInv'
  BY <1>26 DEF StaleReport
<1>27. ASSUME NEW s \in Socks, ListenReady(s) PROVE NullInv'
  BY <1>27 DEF ListenReady, queue_work
<1>28. ASSUME NEW s \in Socks, Forget(s) PROVE NullInv'
  BY <1>28 DEF Forget
<1>29. ASSUME NEW w \in {"conn", "listen"}, Bound(w) PROVE NullInv'
  BY <1>29 DEF Bound, GiveUp, _myclose
<1>30. ASSUME NEW w \in Works, SendEvent(w) PROVE NullInv'
  BY <1>30 DEF SendEvent
<1>31. CASE DoListen
  BY <1>31 DEF DoListen
<1>32. CASE Listened
  BY <1>32 DEF Listened
<1>33. CASE SetListening
  BY <1>33 DEF SetListening
<1>34. CASE conn_timer_handler
  BY <1>34 DEF conn_timer_handler, mpdccptun_linkdown, _myclose
<1> HIDE DEF Objects, Flags, ClientInv, Roles, SockInv, Unbound, NullInv, GoTo,
        Done, PcStates, Runs, AfterBind, closesk, flagVars, connVars, sockVars, askVars
<1> QED
  BY <1>1, <1>2, <1>3, <1>4, <1>5, <1>6, <1>7, <1>8, <1>9, <1>10, <1>11,
     <1>12, <1>13, <1>14, <1>15, <1>16, <1>17, <1>18, <1>19, <1>20, <1>21,
     <1>22, <1>23, <1>24, <1>25, <1>26, <1>27, <1>28, <1>29, <1>30, <1>31,
     <1>32, <1>33, <1>34
     DEF Next, Command, Binder, connect_handler, listen_handler, accept_handler,
         Softirq

-----------------------------------------------------------------------------
(* The theorems.                                                           *)

\* A tunnel that mpdccptun_new returns has neither sockets nor work.
LEMMA ConnInit ==
    Init => Objects /\ Flags /\ Roles /\ SockInv /\ AddrInv
<1> SUFFICES ASSUME Init PROVE Objects /\ Flags /\ Roles /\ SockInv /\ AddrInv
  OBVIOUS
<1> USE ConnAssumption DEF Init
<1>1. Objects
  BY DEF Objects, PcStates, SockStates
<1>2. Flags
  BY DEF Flags
<1>3. Roles
  BY DEF Roles
<1>4. SockInv
  BY DEF SockInv, Hands, Pointers, Known, Apart, Unbound, Binders
<1>5. AddrInv
  BY DEF AddrInv
<1> QED
  BY <1>1, <1>2, <1>3, <1>4, <1>5

\* The variables of a tunnel keep their types.
THEOREM ConnTypes == Spec => []TypeOK
<1>1. Objects /\ Flags <=> TypeOK
  BY DEF Objects, Flags, TypeOK
<1> QED
  BY <1>1, ConnInit, ObjectsStep, FlagsStep, PTL DEF Spec

\* SockInv holds in every state of a tunnel that is client or server.
LEMMA SocketsInvariant ==
    Spec /\ []ClientOrServer => [](Objects /\ Flags /\ Roles /\ SockInv)
BY ConnInit, ObjectsStep, FlagsStep, RolesStep, OneBinderLemma, SockStep, PTL
   DEF Spec

\* For every number of sockets and any interleaving: when no handler of a
\* client or a server runs, the tunnel knows every open socket, also after a
\* failed bind, a rebind, a link loss, or a connection that was replaced.
THEOREM SocketsKnown == Spec /\ []ClientOrServer => []NoSocketLeak
<1>1. SockInv => NoSocketLeak
  BY DEF SockInv, Hands, Known, NoSocketLeak, Quiet, Open
<1> QED
  BY <1>1, SocketsInvariant, PTL

\* For every number of sockets and any interleaving: neither mpdccptun_linkdown
\* nor mpdccptun_closesk leaves a pointer to a socket that it has closed.
THEOREM PointersOpen == Spec /\ []ClientOrServer => []NoDanglingSocket
<1>1. Objects /\ SockInv => NoDanglingSocket
  BY DEF Objects, SockInv, Pointers, NoDanglingSocket, Open
<1> QED
  BY <1>1, SocketsInvariant, PTL

\* For every number of sockets and any interleaving: neither a link loss nor a
\* rebind, a failed one included, takes the socket from a server that goes on
\* counting as listening.
THEOREM ListenersKeepSocket == Spec /\ []ClientOrServer => ListenerKept
<1>1. Init => ListenInv
  BY DEF Init, ListenInv, Binders
<1> QED
  BY <1>1, ListenStep, OneBinderLemma, SocketsInvariant, PTL DEF Spec, ListenerKept

\* For every number of addresses, sockets and CPUs: the socket that is in use is
\* bound to the address of the last bind, or rebind is set and the next run of
\* mpdccptun_dobind replaces it, or that bind came between the call of
\* kernel_bind and the flag bound.
THEOREM AddressKept == Spec /\ []ClientOrServer => []AddressInUse
<1>1. AddrInv => AddressInUse
  BY DEF AddrInv, AddressInUse
<1> QED
  BY <1>1, AddrStep, ConnInit, OneBinderLemma, SocketsInvariant, PTL DEF Spec

\* A client over plain dccp never follows a NULL socket, whatever commands it
\* is given and however they interleave with connect_handler.
THEOREM ClientHasSocket ==
    ASSUME ~Mp, "serverstart" \notin Commands
    PROVE  Spec => []NoNullSocket
<1>1. Init => ClientInv /\ NullInv
  BY DEF Init, ClientInv, NullInv
<1>2. ClientInv /\ [Next]_vars => ClientInv'
  BY ClientStep
<1>3. ClientInv => ClientOrServer
  BY DEF ClientInv, ClientOrServer
<1>4. Objects /\ Flags /\ Roles /\ ClientInv /\ SockInv /\ NullInv
      /\ [Next]_vars => NullInv'
  BY NullStep
<1>5. NullInv => NoNullSocket
  BY DEF NullInv, NoNullSocket
<1> QED
  BY <1>1, <1>2, <1>3, <1>4, <1>5, SocketsInvariant, PTL DEF Spec
=============================================================================
