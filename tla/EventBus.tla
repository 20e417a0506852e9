------------------------------ MODULE EventBus ------------------------------
(***************************************************************************)
(* What the event service of the ldt module promises, without its list:    *)
(* an event is handed to everyone in its audience who is subscribed from   *)
(* the beginning of its delivery to the end, and to nobody twice.          *)
(*                                                                         *)
(* Several events may be under way, one per sender.  Whoever subscribes    *)
(* while an event is under way may or may not get it.                      *)
(***************************************************************************)
EXTENDS FiniteSets

CONSTANTS
    Client,     \* those who may subscribe
    Sender      \* contexts that send events

VARIABLES
    subs,       \* who is subscribed
    audience,   \* of the event a sender sends
    flight,     \* who is still to get it
    got,        \* who got it
    busy        \* the senders with an event under way

vars == <<subs, audience, flight, got, busy>>

Init ==
    /\ subs = {} /\ busy = {}
    /\ audience = [s \in Sender |-> {}]
    /\ flight = [s \in Sender |-> {}]
    /\ got = [s \in Sender |-> {}]

Subscribe(c) ==
    /\ subs' = subs \cup {c}
    /\ \E late \in SUBSET {s \in busy : c \in audience[s] \ got[s]} :
          flight' = [s \in Sender |-> flight[s] \cup
                        (IF s \in late THEN {c} ELSE {})]
    /\ UNCHANGED <<audience, got, busy>>

Unsubscribe(C) ==
    /\ subs' = subs \ C
    /\ flight' = [s \in Sender |-> flight[s] \ C]
    /\ UNCHANGED <<audience, got, busy>>

Publish(s, A) ==
    /\ s \notin busy /\ busy' = busy \cup {s}
    /\ audience' = [audience EXCEPT ![s] = A]
    /\ flight' = [flight EXCEPT ![s] = subs \cap A]
    /\ got' = [got EXCEPT ![s] = {}]
    /\ UNCHANGED subs

Deliver(s, c) ==
    /\ c \in flight[s] /\ c \notin got[s]
    /\ flight' = [flight EXCEPT ![s] = @ \ {c}]
    /\ got' = [got EXCEPT ![s] = @ \cup {c}]
    /\ UNCHANGED <<subs, audience, busy>>

Complete(s) ==
    /\ s \in busy /\ flight[s] = {}
    /\ busy' = busy \ {s}
    /\ UNCHANGED <<subs, audience, flight, got>>

Next ==
    \/ \E c \in Client : Subscribe(c)
    \/ \E C \in SUBSET Client : Unsubscribe(C)
    \/ \E s \in Sender :
          \/ \E A \in SUBSET Client : Publish(s, A)
          \/ \E c \in Client : Deliver(s, c)
          \/ Complete(s)

Spec == Init /\ [][Next]_vars

=============================================================================
