----------------------------- MODULE MCLdtParts -----------------------------
(***************************************************************************)
(* The parts of the kernel module that share no state with each other, side *)
(* by side: the lock, the receive path, the registry of tunnel types, the  *)
(* addresses, the sysctls and the minute of grace.  In a behaviour one of  *)
(* them moves, the others stay as they were.                               *)
(***************************************************************************)
EXTENDS LdtLock, LdtRecv, LdtTunReg, LdtSettings, LdtGrace

VARIABLE part       \* which one, fixed by the initial state

Sound == INSTANCE LdtRecv WITH      \* no datagram with a protocol error
    MaxDgram <- 5, Kinds <- {"ip", "ctl"}, Stops <- TRUE

ASSUME PartsAssumption ==
    /\ RecvAssumption /\ Sound!RecvAssumption /\ RegAssumption
    /\ AddrAssumption /\ GraceAssumption

others == <<recvVars, regVars, addrVars, sysctlVars, graceVars>>

Parts == {"lock", "recv", "sound", "reg", "addr", "sysctl", "grace"}

MCInit ==
    /\ part \in Parts
    /\ Init /\ RecvInit /\ RegInit /\ SysctlInit /\ GraceInit
    /\ AddrInit /\ (part # "addr" => tad.ipv6 /\ devip = 3)

MCNext ==
    /\ UNCHANGED part
    /\ \/ part = "lock" /\ Next /\ UNCHANGED others
       \/ part = "recv" /\ RecvNext
          /\ UNCHANGED <<vars, regVars, addrVars, sysctlVars, graceVars>>
       \/ part = "sound" /\ Sound!RecvNext
          /\ UNCHANGED <<vars, regVars, addrVars, sysctlVars, graceVars>>
       \/ part = "reg" /\ RegNext
          /\ UNCHANGED <<vars, recvVars, addrVars, sysctlVars, graceVars>>
       \/ part = "addr" /\ AddrNext
          /\ UNCHANGED <<vars, recvVars, regVars, sysctlVars, graceVars>>
       \/ part = "sysctl" /\ SysctlNext
          /\ UNCHANGED <<vars, recvVars, regVars, addrVars, graceVars>>
       \/ part = "grace" /\ GraceNext
          /\ UNCHANGED <<vars, recvVars, regVars, addrVars, sysctlVars>>

\* The workqueue runs accept_handler, and a hook that was called returns.
MCFairness ==
    /\ WF_recvVars(part = "sound" /\ Sound!accept_handler)
    /\ WF_recvVars(part = "sound" /\ Sound!HookElab)

MCSpec == MCInit /\ [][MCNext]_<<vars, others, part>> /\ MCFairness

-----------------------------------------------------------------------------
(* The properties of the parts, as their modules state them.               *)

\* Without protocol errors accept_handler takes a datagram that has arrived
\* off the queue even if no other follows it, unless the tunnel is removed.
RecvTaken ==
    \A d \in 1 .. 5 :
        part = "sound" /\ d \in ToSet(rq) \cup ToSet(backlog)
            ~> (d \notin ToSet(rq) \cup ToSet(backlog) \/ tostop)
=============================================================================
