------------------------------- MODULE MCLdtNl -------------------------------
(***************************************************************************)
(* The subscribers of events, with the fairness that the liveness property *)
(* needs and no more: that of the walkers where ldt is the only family.    *)
(***************************************************************************)
EXTENDS LdtNl

MCFairness == \A w \in Walker : WF_vars(alone /\ ~Corrupt /\ Walk(w))

MCSpec == Init /\ [][Next]_vars /\ MCFairness

-----------------------------------------------------------------------------
\* Sending an event ends although the list changes under it.
AloneSendEnds ==
    \A s \in Sender : (alone /\ at[s] # Null) ~> (at[s] = Null \/ Corrupt)
=============================================================================
