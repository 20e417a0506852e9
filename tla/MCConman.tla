------------------------------ MODULE MCConman ------------------------------
(***************************************************************************)
(* The library under four applications: the connection manager (Conman, as *)
(* the configuration has it), one that connects while somebody else        *)
(* connects the same tunnel, one that makes any call while connections are *)
(* lost and the module is unloaded, and one whose requests sometimes       *)
(* cannot be sent.                                                         *)
(***************************************************************************)
EXTENDS Conman

VARIABLE part       \* which of them it is, fixed by the initial state

AllOps == {"create_dev", "rm_dev", "newtun", "rm_tun", "query", "bind", "setpeer",
           "serverstart", "evopen", "evclose", "recv"}

Calls == INSTANCE LdtLib WITH World <- {"peer"},
    Ops <- {"bind", "setpeer", "serverstart", "evopen", "evclose", "recv"}
Losing == INSTANCE LdtLib WITH Ops <- AllOps, World <- {"lost", "exit"}
Unsent == INSTANCE LdtLib WITH World <- {"nosend", "exit"},
    Ops <- {"rm_dev", "query", "setpeer", "evopen", "evclose", "recv"}

MCInit == ConmanInit /\ part \in {"conman", "calls", "losing", "unsent"}

MCNext ==
    /\ UNCHANGED part
    /\ \/ part = "conman" /\ ConmanNext
       \/ part = "calls" /\ Calls!Next /\ UNCHANGED conmanVars
       \/ part = "losing" /\ Losing!Next /\ UNCHANGED conmanVars
       \/ part = "unsent" /\ Unsent!Next /\ UNCHANGED conmanVars

\* The manager's process, the library's process and the kernel's workers run.
MCFairness ==
    /\ WF_allVars(part = "conman" /\ cmd_conman)
    /\ WF_allVars(part = "conman" /\ Library /\ UNCHANGED conmanVars)
    /\ WF_allVars(part = "conman" /\ Kernel /\ UNCHANGED conmanVars)
    /\ WF_allVars(part = "losing" /\ Losing!Library /\ UNCHANGED conmanVars)
    /\ WF_allVars(part = "losing" /\ Losing!Kernel /\ UNCHANGED conmanVars)
    /\ WF_allVars(part = "unsent" /\ Unsent!Library /\ UNCHANGED conmanVars)
    /\ WF_allVars(part = "unsent" /\ Unsent!Kernel /\ UNCHANGED conmanVars)

MCSpec == MCInit /\ [][MCNext]_<<allVars, part>> /\ MCFairness

-----------------------------------------------------------------------------
\* A manager that waits for its tunnel to go down notices that it did (Conman,
\* DownNoticed).
ManagerNotices ==
    (part = "conman" /\ at = "down" /\ dev[Name] # "tun") ~> (at # "down" \/ lost)

\* Every call of ldt_cfgcmd.c returns, but for a wait without a timeout
\* (LdtLib, CallEnds).
EveryCallEnds ==
    (part \in {"losing", "unsent"} /\ pc # "idle" /\ ~(call.op = "recv" /\ ~call.tout))
        ~> pc = "idle"
=============================================================================
