------------------------------- MODULE FrFnl -------------------------------
(***************************************************************************)
(* The netlink sockets of frlib, lib/netlink/fnl.c, over which libtunprox  *)
(* talks to the kernel module: fnl_send2, which numbers the requests, and  *)
(* fnl_recv2, which peeks at a message with a growing buffer before it     *)
(* takes it, within a timeout, and checks its number.                      *)
(*                                                                         *)
(* The kernel answers a request within the sendmsg that brings it, with    *)
(* the number of the request.  A message the receive buffer of the socket  *)
(* has no room for is lost, and the next recvmsg says ENOBUFS; from then   *)
(* on the socket is congested and the kernel drops every message without   *)
(* a new error, until the queue is empty.  Lengths are counted in units of *)
(* the first buffer, 4096 bytes.  The control buffer has room for the      *)
(* credentials from the start, so MSG_CTRUNC does not happen.              *)
(* Definitions marked "Variant" are plausible mistakes.                    *)
(***************************************************************************)
EXTENDS Integers, Sequences

CONSTANTS
    MaxSend,    \* bound: the messages of the kernel
    Sizes,      \* the lengths of answers
    Room,       \* the answers the receive buffer of the socket holds
    Wrap        \* the values of an int, 2^32

ASSUME FnlAssumption ==
    /\ MaxSend \in Nat /\ Room \in Nat \ {0}
    /\ Sizes \subseteq Nat \ {0}
    /\ Wrap \in Nat \ {0, 1}

VARIABLES
    sndseq,     \* sock->sndseq
    rcvseq,     \* sock->rcvseq
    queue,      \* the receive queue of the socket
    enobufs,    \* the error the next recvmsg returns
    congested,  \* the kernel drops what it sends to the socket
    npc,        \* where fnl_recv2 is: "idle", "wait" (fd_isready) or "read"
    buflen,     \* iov.iov_len
    peek,       \* xflags = MSG_PEEK
    started,    \* start # -1
    bufs,       \* the buffers the call has allocated: "msg", "control"
    \* Not in the code, to state the properties:
    sent,       \* the messages the kernel has sent
    fate,       \* what became of each
    lastseq,    \* the number of the last answer taken from the queue
    wronged,    \* an answer was refused that had the next number
    how         \* how the socket is used, see Hows; fixed

fnlVars == <<sndseq, rcvseq, queue, enobufs, congested, npc, buflen, peek, started,
             bufs, sent, fate, lastseq, wronged, how>>

\* errors   the kernel may answer with NLMSG_ERROR
\* odd      a message may say another length than it has
\* events   the kernel also sends events, to which there is no request
\* nohdr    fnl_recv2 is called with FNL_F_NOHDR, as libtunprox does
\* seqchk   it is called with FNL_F_SEQCHK
\* timed    it is called with a timeout
Hows == [errors : BOOLEAN, odd : BOOLEAN, events : BOOLEAN, nohdr : BOOLEAN,
         seqchk : BOOLEAN, timed : BOOLEAN]

\* The messages the kernel sends.
Kinds ==
    {"plain"} \cup (IF how.errors THEN {"error"} ELSE {})
              \cup (IF how.odd THEN {"odd"} ELSE {})

socket == <<sndseq, queue, congested, sent, how>>

\* The value of an int with the bits of the unsigned x.
ToInt(x) == IF x % Wrap >= Wrap \div 2 THEN (x % Wrap) - Wrap ELSE x % Wrap

FnlInit ==
    /\ sndseq = 0 /\ rcvseq = 0
    /\ queue = <<>>
    /\ enobufs = FALSE /\ congested = FALSE
    /\ npc = "idle" /\ buflen = 1 /\ peek = TRUE /\ started = FALSE
    /\ bufs = {}
    /\ sent = 0
    /\ fate = [n \in 1 .. MaxSend |-> "none"]
    /\ lastseq = -1
    /\ wronged = FALSE
    /\ how \in Hows

----------------------------------------------------------------------------
\* The kernel sends a message with the number seq to the socket.
Arrives(seq) ==
    /\ sent < MaxSend
    /\ sent' = sent + 1
    /\ \/ /\ ~congested /\ Len(queue) < Room
          /\ \E size \in Sizes, kind \in Kinds :
                queue' = Append(queue, [no |-> sent', seq |-> seq,
                                        size |-> size, kind |-> kind])
          /\ fate' = [fate EXCEPT ![sent'] = "queued"]
          /\ UNCHANGED <<enobufs, congested>>
       \/ /\ ~congested /\ Len(queue) >= Room
          /\ enobufs' = TRUE /\ congested' = TRUE
          /\ fate' = [fate EXCEPT ![sent'] = "lost"]
          /\ UNCHANGED queue
       \/ /\ congested
          /\ fate' = [fate EXCEPT ![sent'] = "silent"]
          /\ UNCHANGED <<queue, enobufs, congested>>
    /\ UNCHANGED <<rcvseq, npc, buflen, peek, started, bufs, lastseq, wronged, how>>

\* fnl_send2, and the answer of the kernel.
Send ==
    /\ npc = "idle"
    /\ sndseq' = ToInt(sndseq + 1)
    /\ Arrives(sndseq % Wrap)

\* An event of the kernel, at any time.
Event ==
    /\ how.events
    /\ UNCHANGED sndseq
    /\ Arrives(0)

\* Variant: the message is taken at once.
RecvBlind ==
    /\ npc = "idle"
    /\ npc' = "wait"
    /\ buflen' = 1 /\ peek' = FALSE /\ started' = FALSE
    /\ bufs' = {"msg", "control"}
    /\ UNCHANGED <<socket, rcvseq, enobufs, fate, lastseq, wronged>>

\* fnl_recv2 is called.  What the caller got before is its own by now.
Recv ==
    /\ npc = "idle"
    /\ npc' = "wait"
    /\ buflen' = 1 /\ peek' = TRUE /\ started' = FALSE
    /\ bufs' = {"msg", "control"}
    /\ UNCHANGED <<socket, rcvseq, enobufs, fate, lastseq, wronged>>

\* An error is returned, with what is then left of the buffers.
Fails(left) ==
    /\ npc' = "idle"
    /\ bufs' = left
    /\ UNCHANGED <<socket, rcvseq, lastseq, wronged, buflen, peek, started>>

\* fnl_recv2 is called, and malloc fails for the control buffer.
NoMem ==
    /\ npc = "idle"
    /\ Fails({})
    /\ UNCHANGED <<enobufs, fate>>

\* fd_isready returns RERR_TIMEDOUT.
FnlTimeOut ==
    /\ npc = "wait" /\ how.timed
    /\ Fails({})
    /\ UNCHANGED <<enobufs, fate>>

\* fd_isready returns RERR_OK.
Ready ==
    /\ npc = "wait" /\ queue # <<>>
    /\ npc' = "read"
    /\ started' = how.timed
    /\ UNCHANGED <<socket, rcvseq, enobufs, buflen, peek, bufs, fate, lastseq, wronged>>

\* The label retry: the time is over, or fd_isready is called again.
Retry ==
    /\ npc' = "wait"
    /\ UNCHANGED <<socket, rcvseq, bufs, fate, lastseq, wronged, started>>

\* recvmsg is interrupted.
Interrupted ==
    /\ npc = "read" /\ ~enobufs
    /\ Retry
    /\ UNCHANGED <<enobufs, buflen, peek>>

\* Variant: an error of recvmsg is taken for an interruption.
OverrunRetry ==
    /\ npc = "read" /\ enobufs
    /\ enobufs' = FALSE
    /\ Retry
    /\ UNCHANGED <<buflen, peek>>

\* The caller knows of what was lost.
Tell == fate' = [n \in 1 .. MaxSend |-> IF fate[n] = "lost" THEN "told" ELSE fate[n]]

\* Variant: the control buffer is forgotten.
OverrunLeak ==
    /\ npc = "read" /\ enobufs
    /\ enobufs' = FALSE
    /\ Tell
    /\ Fails({"control"})

\* recvmsg says ENOBUFS, and fnl_recv2 RERR_SYSTEM.
Overrun ==
    /\ npc = "read" /\ enobufs
    /\ enobufs' = FALSE
    /\ Tell
    /\ Fails({})

\* The message does not fit: the buffer is doubled.
Grow ==
    /\ npc = "read" /\ ~enobufs /\ Head(queue).size > buflen /\ peek
    /\ buflen' = 2 * buflen
    /\ Retry
    /\ UNCHANGED <<enobufs, peek>>

\* Variant: the message is looked at for ever.
PeekedAgain ==
    /\ npc = "read" /\ ~enobufs /\ Head(queue).size <= buflen /\ peek
    /\ Retry
    /\ UNCHANGED <<enobufs, buflen, peek>>

\* The message fits: next time it is taken.
Peeked ==
    /\ npc = "read" /\ ~enobufs /\ Head(queue).size <= buflen /\ peek
    /\ peek' = FALSE
    /\ Retry
    /\ UNCHANGED <<enobufs, buflen>>

\* Variant: the number expected is not corrected after a gap.
CheckSeqStuck(seq) ==
    IF seq # rcvseq THEN UNCHANGED rcvseq ELSE rcvseq' = ToInt(rcvseq + 1)

\* What becomes of rcvseq when an answer with the number seq is taken.
CheckSeq(seq) ==
    IF seq # rcvseq THEN rcvseq' = ToInt(seq + 1) ELSE rcvseq' = ToInt(rcvseq + 1)

\* The message is taken, and returned if it is in order.  Its header is looked
\* at unless the caller has said FNL_F_NOHDR: an NLMSG_ERROR is refused before
\* its number, a wrong length after it, and then neither buffer is freed.
Take ==
    /\ npc = "read" /\ ~enobufs /\ ~peek
    /\ LET m == Head(queue)
           error == ~how.nohdr /\ m.kind = "error"
           misnumbered == ~how.nohdr /\ ~error /\ how.seqchk /\ m.seq # rcvseq
           odd == ~how.nohdr /\ m.kind = "odd"
       IN  /\ queue' = Tail(queue)
           /\ congested' = (congested /\ Tail(queue) # <<>>)
           /\ lastseq' = m.seq
           /\ IF how.nohdr \/ error THEN UNCHANGED rcvseq ELSE CheckSeq(m.seq)
           /\ wronged' = (wronged \/ (misnumbered /\ m.seq = (lastseq + 1) % Wrap))
           /\ npc' = "idle"
           /\ \/ /\ error \/ misnumbered
                 /\ bufs' = {}
                 /\ fate' = [fate EXCEPT ![m.no] = "refused"]
              \/ /\ odd /\ ~misnumbered
                 /\ fate' = [fate EXCEPT ![m.no] = "refused"]
                 /\ UNCHANGED bufs
              \/ /\ ~error /\ ~misnumbered /\ ~odd
                 /\ bufs' = {"msg"}
                 /\ fate' = [fate EXCEPT ![m.no] =
                               IF m.size > buflen THEN "cut" ELSE "got"]
    /\ UNCHANGED <<sndseq, sent, enobufs, buflen, peek, started, how>>

\* The time is over when fnl_recv2 comes to retry.
Late ==
    /\ npc = "wait" /\ how.timed /\ started
    /\ Fails(bufs)
    /\ UNCHANGED <<enobufs, fate>>

FnlNext ==
    \/ Send \/ Event
    \/ Recv \/ NoMem \/ FnlTimeOut \/ Ready
    \/ Interrupted \/ Overrun \/ Grow \/ Peeked \/ Take
    \/ Late

\* A call goes on, and signals do not come for ever.
FnlSpec ==
    /\ FnlInit /\ [][FnlNext]_fnlVars
    /\ WF_fnlVars(Ready) /\ WF_fnlVars(Overrun)
    /\ SF_fnlVars(Grow) /\ SF_fnlVars(Peeked) /\ SF_fnlVars(Take)

----------------------------------------------------------------------------
\* A message is returned whole, and in the order in which the kernel sent
\* them: the buffer had room for the message when it was taken, and none is
\* waiting that is older than one that was returned.
Whole ==
    \A n \in 1 .. MaxSend :
      /\ fate[n] # "cut"
      /\ fate[n] = "got" => \A k \in 1 .. n : fate[k] # "queued"

\* No message is lost unnoticed: what is missing before a message that
\* fnl_recv2 has returned belongs to a run of losses of which the first was
\* told, by an error that says ENOBUFS.
LossTold ==
    \A k, n \in 1 .. MaxSend :
      k < n /\ fate[n] = "got" /\ fate[k] \in {"lost", "silent"} =>
        \E j \in 1 .. k : fate[j] = "told" /\ \A i \in j + 1 .. k : fate[i] = "silent"

\* Between calls no buffer is left that nobody frees: nothing after an error,
\* the message alone after a success.
NoLeak == npc = "idle" => "control" \notin bufs

\* "recv do check sequence numbers" (fnl.h): an answer that has the number
\* after that of the last answer is not refused for its number.
AcceptsNext == ~wronged

\* fnl_recv2 returns messages whole and in order, the error of an overflow
\* before a message from behind the gap, leaves no buffer that nobody frees
\* if it has no timeout and no length is wrong, and does not refuse the answer
\* that has the next number if every message is an answer, none is an error
\* and the numbers stay below 2^31.
FnlSound ==
    /\ Whole /\ LossTold
    /\ ~how.timed /\ (~how.odd \/ how.nohdr) => NoLeak
    /\ ~how.errors /\ ~how.events /\ MaxSend < Wrap \div 2 => AcceptsNext

\* A call of fnl_recv2 returns once there is a message.
RecvEnds == npc # "idle" /\ queue # <<>> ~> npc = "idle"
=============================================================================
