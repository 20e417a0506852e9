------------------------------ MODULE LdtSend ------------------------------
(***************************************************************************)
(* The transmit path and the connection of a (mp-)dccp tunnel together:    *)
(* do_xmit_skb of ldt_mpdccp.c reads the pointer to the tunnel's socket    *)
(* and sends on it, while the work items and softirqs of LdtConn replace   *)
(* and release sockets.  Of the transmit path (see LdtXmit) only the use   *)
(* of the socket is here.  work_xmit is on the same workqueue as the       *)
(* others, which runs several items at a time.                             *)
(***************************************************************************)
EXTENDS LdtConn

VARIABLE
    sending     \* the socket do_xmit_skb has read, while kernel_sendmsg runs

sendVars == <<vars, sending>>

SendInit == Init /\ sending = NoSock

\* mpdccptun_xmit_skb and do_xmit_skb up to kernel_sendmsg.  On a tunnel that
\* is being removed, or without a socket, the buffer is dropped.
do_xmit_skb ==
    /\ crash = "no" /\ ~freed /\ ~tostop
    /\ sending = NoSock /\ wasconnected
    /\ sending' = IF listening THEN active ELSE sock
    /\ sending' # NoSock
    /\ UNCHANGED vars

\* kernel_sendmsg returns, on a socket that may have been released.
SendReturns ==
    /\ crash = "no" /\ sending # NoSock
    /\ sending' = NoSock
    /\ crash' = IF sending \in Open THEN "no" ELSE "stale"
    /\ UNCHANGED <<pending, pc, hand>>
    /\ UNCHANGED <<flagVars, connVars, sockVars>>

SendNext ==
    \/ Next /\ UNCHANGED sending
    \/ do_xmit_skb \/ SendReturns

SendSpec == SendInit /\ [][SendNext]_sendVars
-----------------------------------------------------------------------------

\* ldt_mpdccp.c:1151 counts on the handlers taking turns: "to give accept /
\* connect a chance to be executed - they are on the same queue".  Then the
\* socket on which a buffer is being sent is not released by them.
SendsOnOpenSocket == sending # NoSock => sending \in Open
=============================================================================
