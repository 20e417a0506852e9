------------------------------- MODULE LdtNl --------------------------------
(***************************************************************************)
(* The subscribers of the ldt module's events (ldt_netlink.c): a list that *)
(* is read without a lock by whoever sends an event, by the notifier for   *)
(* closed sockets, and by the command that adds a subscriber and removes   *)
(* the ones that are gone.                                                 *)
(*                                                                         *)
(* Walkers of the list:                                                    *)
(*   a sender   ldt_nl_send_event                                          *)
(*   r          ldt_nl_rmuser, called when a netlink socket is released    *)
(*   h          ldt_nl_adduser; generic netlink runs one command at a time *)
(*                                                                         *)
(* A step of a walker is one look at an entry, or one step to the next;    *)
(* do_send_event, between the two, may sleep.                              *)
(***************************************************************************)
EXTENDS Integers

CONSTANTS
    NetA, NetB,     \* the subscribers (port numbers) of two namespaces
    Entry,          \* memory for struct ldt_nl_user
    Sender          \* contexts that send events

Client == NetA \cup NetB
Walker == Sender \cup {"h", "r"}

ASSUME NlAssumption ==
    /\ NetA \cap NetB = {}
    /\ "h" \notin Sender /\ "r" \notin Sender

Head == "head"
End == "end"
Null == "null"
ASSUME NamesAssumption ==
    Entry \cap {Head, End, Null} = {} /\ Null \notin Client

VARIABLES
    next,       \* list.next, of tpnl_head too
    user,       \* pid and net of an entry
    valid,      \* its valid
    live,       \* entries that are allocated
    dellist,    \* entries on the list delhead of ldt_nl_adduser
    at, seen,   \* where a walker is, and whether it has looked at the entry
    aud,        \* those an event is meant for
    got,        \* those do_send_event was called for
    new,        \* the entry ldt_nl_adduser creates
    hclient,    \* the client it serves
    rclient,    \* the client ldt_nl_rmuser removes
    released,   \* ports whose release the notifier has not been told yet
    sock,       \* of a client: closed, open, subscribed (has its answer)
    loaded,     \* whether the family is registered
    alone       \* no sockets of other netlink families are closed; fixed

listVars == <<next, user, valid, live, dellist>>
walkVars == <<at, seen, aud, got>>
cmdVars  == <<new, hclient>>
sockVars == <<rclient, released, sock, loaded, alone>>
vars == <<listVars, walkVars, cmdVars, sockVars>>

Init ==
    /\ next = [e \in Entry \cup {Head} |-> End]
    /\ user = [e \in Entry |-> Null] /\ valid = [e \in Entry |-> FALSE]
    /\ live = {} /\ dellist = {}
    /\ at = [w \in Walker |-> Null] /\ seen = [w \in Walker |-> FALSE]
    /\ aud = [s \in Sender |-> {}] /\ got = [s \in Sender |-> {}]
    /\ new = Null /\ hclient = Null
    /\ rclient = Null /\ released = {}
    /\ sock = [c \in Client |-> "closed"] /\ loaded = TRUE
    /\ alone \in BOOLEAN

\* S holds the entry e and with every entry the one that is linked to it.
Closed(e, n, S) ==
    /\ e \in Entry => e \in S
    /\ \A x \in S : n[x] \in Entry => n[x] \in S

\* The entries that a walk that begins at e and follows the pointers n meets.
Reached(e, n) ==
    {x \in Entry : \A S \in SUBSET Entry : Closed(e, n, S) => x \in S}

Ahead(e) == Reached(e, next)

Linked == Ahead(next[Head])

\* What kmalloc may return.  Free entries are interchangeable, as nothing points
\* at one before the model stops (see Corrupt): one of them stands for all.
Alloc == IF live = Entry THEN {} ELSE {CHOOSE e \in Entry : e \notin live}

Start(w) == at' = [at EXCEPT ![w] = next[Head]]
Look(w)  == at[w] \in Entry /\ ~seen[w] /\ seen' = [seen EXCEPT ![w] = TRUE]

\* list_for_each_entry_rcu.
Advance(w) ==
    /\ at[w] \in Entry /\ seen[w]
    /\ at' = [at EXCEPT ![w] = next[at[w]]]
    /\ seen' = [seen EXCEPT ![w] = FALSE]
    /\ UNCHANGED <<listVars, aud, got, cmdVars, sockVars>>

-----------------------------------------------------------------------------
(* ldt_nl_send_event                                                       *)

ldt_nl_send_event(s, A) ==
    /\ loaded /\ at[s] = Null
    /\ Start(s)
    /\ aud' = [aud EXCEPT ![s] = A] /\ got' = [got EXCEPT ![s] = {}]
    /\ UNCHANGED <<listVars, seen, cmdVars, sockVars>>

\* Variant: an entry that is marked invalid still gets the event.
SendToAll(s) ==
    /\ Look(s)
    /\ got' = [got EXCEPT ![s] =
          @ \cup (IF user[at[s]] \in aud[s] THEN {user[at[s]]} ELSE {})]
    /\ UNCHANGED <<listVars, at, aud, cmdVars, sockVars>>

\* Whether the message is queued or dropped because the receiver's buffer is
\* full makes no difference to the walk.
do_send_event(s) ==
    /\ Look(s)
    /\ got' = [got EXCEPT ![s] = @ \cup
          (IF valid[at[s]] /\ user[at[s]] \in aud[s] THEN {user[at[s]]} ELSE {})]
    /\ UNCHANGED <<listVars, at, aud, cmdVars, sockVars>>

SendDone(s) ==
    /\ at[s] = End
    /\ at' = [at EXCEPT ![s] = Null]
    /\ UNCHANGED <<listVars, seen, aud, got, cmdVars, sockVars>>

-----------------------------------------------------------------------------
(* ldt_nl_subscribe, ldt_nl_adduser                                        *)

\* Variant: the entry of a known user is not made valid again.
SubscribeNoRevalidate(c) ==
    LET mine == {e \in Linked : user[e] = c} IN
    /\ loaded /\ hclient = Null /\ c \notin released \cup {rclient}
    /\ \/ /\ mine # {}
          /\ sock' = [sock EXCEPT ![c] = "subscribed"]
          /\ UNCHANGED <<listVars, cmdVars>>
       \/ /\ mine = {}
          /\ \E e \in Alloc :
                /\ new' = e /\ live' = live \cup {e}
                /\ user' = [user EXCEPT ![e] = c]
                /\ valid' = [valid EXCEPT ![e] = TRUE]
          /\ hclient' = c
          /\ sock' = [sock EXCEPT ![c] = "open"]
          /\ UNCHANGED <<next, dellist>>
    /\ UNCHANGED <<walkVars, rclient, released, loaded, alone>>

\* The user is in the list: at most one entry, made valid again.  Otherwise an
\* entry is allocated, or -ENOMEM.
ldt_nl_subscribe(c) ==
    LET mine == {e \in Linked : user[e] = c} IN
    /\ loaded /\ hclient = Null /\ c \notin released \cup {rclient}
    /\ \/ /\ mine # {}
          /\ valid' = [e \in Entry |-> e \in mine \/ valid[e]]
          /\ sock' = [sock EXCEPT ![c] = "subscribed"]
          /\ UNCHANGED <<next, user, live, dellist, cmdVars>>
       \/ /\ mine = {}
          /\ \E e \in Alloc :
                /\ new' = e /\ live' = live \cup {e}
                /\ user' = [user EXCEPT ![e] = c]
                /\ valid' = [valid EXCEPT ![e] = TRUE]
          /\ hclient' = c
          /\ sock' = [sock EXCEPT ![c] = "open"]
          /\ UNCHANGED <<next, dellist>>
       \/ /\ mine = {}
          /\ sock' = [sock EXCEPT ![c] = "open"]
          /\ UNCHANGED <<listVars, cmdVars>>
    /\ UNCHANGED <<walkVars, rclient, released, loaded, alone>>

\* list_add_rcu; the walk over the invalid entries begins.
AddUser ==
    /\ new # Null
    /\ next' = [next EXCEPT ![new] = next[Head], ![Head] = new]
    /\ at' = [at EXCEPT !["h"] = new]
    /\ new' = Null
    /\ UNCHANGED <<user, valid, live, dellist, seen, aud, got, hclient, sockVars>>

\* Variant: the entry is not put on the list of those to be freed.
CollectForget ==
    LET e == at["h"] IN
    /\ Look("h")
    /\ IF valid[e] THEN UNCHANGED next
       ELSE \E p \in Linked \cup {Head} :
               next[p] = e /\ next' = [next EXCEPT ![p] = next[e]]
    /\ UNCHANGED <<user, valid, live, dellist, at, aud, got, cmdVars, sockVars>>

\* Variant: list_del, which poisons the next pointer of the entry.
CollectPoison ==
    LET e == at["h"] IN
    /\ Look("h")
    /\ IF valid[e] THEN UNCHANGED <<next, dellist>>
       ELSE /\ \E p \in Linked \cup {Head} : next[p] = e
                  /\ next' = [next EXCEPT ![p] = next[e], ![e] = Null]
            /\ dellist' = dellist \cup {e}
    /\ UNCHANGED <<user, valid, live, at, aud, got, cmdVars, sockVars>>

\* Variant: list_del_init, which makes the entry its own successor.
CollectInit ==
    LET e == at["h"] IN
    /\ Look("h")
    /\ IF valid[e] THEN UNCHANGED <<next, dellist>>
       ELSE /\ \E p \in Linked \cup {Head} : next[p] = e
                  /\ next' = [next EXCEPT ![p] = next[e], ![e] = e]
            /\ dellist' = dellist \cup {e}
    /\ UNCHANGED <<user, valid, live, at, aud, got, cmdVars, sockVars>>

\* list_del_rcu, list_add_rcu to delhead; the entry keeps its next pointer.
Collect ==
    LET e == at["h"] IN
    /\ Look("h")
    /\ IF valid[e] THEN UNCHANGED <<next, dellist>>
       ELSE /\ \E p \in Linked \cup {Head} :
                  next[p] = e /\ next' = [next EXCEPT ![p] = next[e]]
            /\ dellist' = dellist \cup {e}
    /\ UNCHANGED <<user, valid, live, at, aud, got, cmdVars, sockVars>>

\* The collected entries are freed and the client has its answer.
FreeUsers ==
    /\ at["h"] = End
    /\ live' = live \ dellist /\ dellist' = {}
    /\ at' = [at EXCEPT !["h"] = Null]
    /\ sock' = [sock EXCEPT ![hclient] = "subscribed"]
    /\ hclient' = Null
    /\ UNCHANGED <<next, user, valid, seen, aud, got, new, rclient, released,
          loaded, alone>>

-----------------------------------------------------------------------------
(* Sockets that are closed                                                 *)

\* A subscriber's socket; close does not return before the notifier has run,
\* so the port is not used again before.
CloseSocket(c) ==
    /\ sock[c] # "closed" /\ hclient # c /\ c \notin released \cup {rclient}
    /\ sock' = [sock EXCEPT ![c] = "closed"]
    /\ released' = released \cup {c}
    /\ UNCHANGED <<listVars, walkVars, cmdVars, rclient, loaded, alone>>

\* A socket of another netlink family with the same port number: the kernel
\* gives a process the same number in every family.
CloseOther(c) ==
    /\ ~alone /\ hclient # c /\ c \notin released \cup {rclient}
    /\ released' = released \cup {c}
    /\ UNCHANGED <<listVars, walkVars, cmdVars, rclient, sock, loaded, alone>>

\* The notifier looks at the action only, not at the family.
ldt_nl_release_notifier(c) ==
    /\ c \in released /\ loaded /\ at["r"] = Null
    /\ rclient' = c /\ released' = released \ {c}
    /\ Start("r")
    /\ UNCHANGED <<listVars, seen, aud, got, cmdVars, sock, loaded, alone>>

\* Variant: the walk stops at the first entry.
RmuserFirstOnly ==
    LET e == at["r"] IN
    /\ Look("r")
    /\ valid' = IF user[e] = rclient /\ next[Head] = e
                   THEN [valid EXCEPT ![e] = FALSE] ELSE valid
    /\ UNCHANGED <<next, user, live, dellist, at, aud, got, cmdVars, sockVars>>

ldt_nl_rmuser ==
    LET e == at["r"] IN
    /\ Look("r")
    /\ valid' = IF user[e] = rclient THEN [valid EXCEPT ![e] = FALSE] ELSE valid
    /\ UNCHANGED <<next, user, live, dellist, at, aud, got, cmdVars, sockVars>>

ReleaseDone ==
    /\ at["r"] = End
    /\ at' = [at EXCEPT !["r"] = Null] /\ rclient' = Null
    /\ UNCHANGED <<listVars, seen, aud, got, cmdVars, released, sock, loaded, alone>>

\* ldt_nl_unregister: the family and the notifier are taken away, which waits
\* for the command and the notifier that run, and every entry is freed.
ldt_nl_unregister ==
    /\ loaded /\ hclient = Null /\ at["r"] = Null
    /\ loaded' = FALSE /\ released' = {}
    /\ next' = [next EXCEPT ![Head] = End] /\ live' = {}
    /\ sock' = [c \in Client |-> "closed"]
    /\ UNCHANGED <<user, valid, dellist, walkVars, cmdVars, rclient, alone>>

-----------------------------------------------------------------------------
\* A walker will step on an entry that was freed: what it reads there is
\* undefined, and the model stops.
Corrupt == \E w \in Walker : ~(Ahead(at[w]) \subseteq live)

Walk(w) ==
    \/ Advance(w)
    \/ w \in Sender /\ (do_send_event(w) \/ SendDone(w))
    \/ w = "h" /\ (AddUser \/ Collect \/ FreeUsers)
    \/ w = "r" /\ (ldt_nl_rmuser \/ ReleaseDone)

Next ==
    /\ ~Corrupt
    /\ \/ \E w \in Walker : Walk(w)
       \/ \E s \in Sender, A \in {NetA, NetB, Client} : ldt_nl_send_event(s, A)
       \/ \E c \in Client :
             \/ ldt_nl_subscribe(c) \/ CloseSocket(c) \/ CloseOther(c)
             \/ ldt_nl_release_notifier(c)
       \/ ldt_nl_unregister

\* Whoever walks the list goes on.
Fairness == \A w \in Walker : WF_vars(~Corrupt /\ Walk(w))

Spec == Init /\ [][Next]_vars /\ Fairness

-----------------------------------------------------------------------------
(* Properties                                                              *)

TypeOK ==
    /\ next \in [Entry \cup {Head} -> Entry \cup {End}]
    /\ user \in [Entry -> Client \cup {Null}] /\ valid \in [Entry -> BOOLEAN]
    /\ live \subseteq Entry /\ dellist \subseteq Entry
    /\ at \in [Walker -> Entry \cup {End, Null}]
    /\ seen \in [Walker -> BOOLEAN]
    /\ aud \in [Sender -> SUBSET Client] /\ got \in [Sender -> SUBSET Client]
    /\ new \in Entry \cup {Null} /\ hclient \in Client \cup {Null}
    /\ rclient \in Client \cup {Null} /\ released \subseteq Client
    /\ sock \in [Client -> {"closed", "open", "subscribed"}]
    /\ loaded \in BOOLEAN /\ alone \in BOOLEAN

\* An entry is allocated as long as somebody knows it: it is in the list, is
\* about to be put there or is about to be freed; no user has two entries.
ListSound ==
    /\ live = Linked \cup dellist \cup ({new} \cap Entry)
    /\ Linked \cap dellist = {}
    /\ \A d, e \in Linked : user[d] = user[e] => d = e

\* Once its socket is closed and the notifier has run, a client is not
\* subscribed any more, whatever adduser did to the list in between.
ClosedIsUnsubscribed ==
    \A e \in Linked : valid[e] =>
        sock[user[e]] # "closed" \/ user[e] \in released \cup {rclient}

\* Sending an event ends although the list changes under it.
SendEnds == \A s \in Sender : at[s] # Null ~> (at[s] = Null \/ Corrupt)

\* What a subscriber is promised: see EventBus.  Still to get an event are the
\* valid entries ahead of the sender.
Bus == INSTANCE EventBus WITH
    subs <- {user[e] : e \in {x \in Linked : valid[x]}},
    audience <- aud,
    flight <- [s \in Sender |-> aud[s] \cap {user[e] : e \in {x \in Ahead(at[s]) \cap live :
                  valid[x] /\ ~(x = at[s] /\ seen[s])}}],
    busy <- {s \in Sender : at[s] # Null}
Delivery == Bus!Spec

\* Nobody reads an entry after it was freed, as the comment in ldt_nl_adduser
\* has it: "now we are safe and can delete users in dellist".
NoUseAfterFree == loaded => ~Corrupt

\* Who has subscribed gets the events until it closes its socket: "prints
\* (all) ldt events".
SubscriptionKept ==
    \A c \in Client : sock[c] = "subscribed" =>
        \E e \in Linked : user[e] = c /\ valid[e]

\* A client is subscribed as long as it says so: not any more once its socket
\* is closed and the notifier has run, and until then if no other family
\* closes a socket, since ldt_nl_release_notifier does not look at the family.
SubscriptionTrue ==
    /\ TypeOK /\ ListSound
    /\ ClosedIsUnsubscribed
    /\ alone => SubscriptionKept
=============================================================================
