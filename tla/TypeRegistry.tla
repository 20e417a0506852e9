---------------------------- MODULE TypeRegistry ----------------------------
(***************************************************************************)
(* What the registry of tunnel types promises: a set of types in which a   *)
(* type is registered at most once, and a lookup that finds a type if and  *)
(* only if it is there at that moment.                                     *)
(***************************************************************************)
CONSTANTS Type, Finder

VARIABLES
    reg,        \* the registered types
    answer      \* of the last call of registration, and of a lookup
vars == <<reg, answer>>

None == "none"

Init == reg = {} /\ answer = [f \in Finder \cup {"reg"} |-> None]

Answer(f, a) == answer' = [answer EXCEPT ![f] = a]

Register(t) ==
    \/ t \in reg /\ Answer("reg", "EEXIST") /\ UNCHANGED reg
    \/ t \notin reg /\ Answer("reg", "ENOMEM") /\ UNCHANGED reg
    \/ t \notin reg /\ Answer("reg", "ok") /\ reg' = reg \cup {t}

Unregister(t) == reg' = reg \ {t} /\ UNCHANGED answer

Lookup(f, t) ==
    /\ Answer(f, IF t \in reg THEN "found" ELSE "ENOENT")
    /\ UNCHANGED reg

Forget(f) == Answer(f, None) /\ UNCHANGED reg

Next ==
    \/ \E t \in Type : Register(t) \/ Unregister(t)
    \/ \E f \in Finder : Forget(f) \/ \E t \in Type : Lookup(f, t)

Spec == Init /\ [][Next]_vars

=============================================================================
