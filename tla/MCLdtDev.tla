------------------------------ MODULE MCLdtDev ------------------------------
(***************************************************************************)
(* The devices in three situations, one of which the initial state picks:  *)
(*   loaded   all commands but evsend, with a physical device, while the   *)
(*            module stays loaded                                          *)
(*   telling  all commands on one device                                   *)
(*   exiting  the module is unloaded while commands are at work; nothing   *)
(*            happens to a physical device                                 *)
(***************************************************************************)
EXTENDS LdtDev

VARIABLE part

Loaded  == INSTANCE LdtDev WITH Commands <- Commands \ {"evsend"}
Telling == INSTANCE LdtDev WITH Dev <- {CHOOSE d \in Dev : TRUE}
Exiting == INSTANCE LdtDev WITH Unload <- TRUE, Pdev <- {}, MaxRefs <- 2,
                                Commands <- Commands \ {"evsend"}

MCInit == Init /\ part \in {"loaded", "telling", "exiting"}

MCNext ==
    /\ UNCHANGED part
    /\ \/ part = "loaded" /\ Loaded!Next
       \/ part = "telling" /\ Telling!Next
       \/ part = "exiting" /\ Exiting!Next

\* The fairness of LdtDev in the case where something has to end.
MCFairness ==
    /\ WF_vars(part = "exiting" /\ ~Corrupt /\ Exiting!Command)
    /\ WF_vars(part = "exiting" /\ ~Corrupt /\ Exiting!Tell)
    /\ WF_vars(part = "exiting" /\ ~Corrupt /\ Exiting!Exit)
    /\ \A d \in Dev : WF_vars(part = "exiting" /\ ~Corrupt /\ Exiting!XmitDone(d))

MCSpec == MCInit /\ [][MCNext]_<<vars, part>> /\ MCFairness

-----------------------------------------------------------------------------
\* A command that removes a device ends while the module is unloaded.
ExitRemovalEnds ==
    (part = "exiting" /\ pc["h"] = "wait") ~> (pc["h"] = "idle" \/ Corrupt)
=============================================================================
