---------------------------- MODULE LdtNlProofs ----------------------------
(***************************************************************************)
(* Proofs about the subscribers of events, for any number of clients,      *)
(* entries and senders: a subscription is what the client says it is, and  *)
(* the list implements the event service of EventBus although it is read   *)
(* without a lock while it changes.                                        *)
(*                                                                         *)
(* Each walker has the entries ahead of it; NlInv says what a change of    *)
(* the list leaves of them: an entry that is taken out keeps its pointer,  *)
(* so that a walker that stands on it loses nothing but invalid entries,   *)
(* and a new entry is ahead of nobody.                                     *)
(***************************************************************************)
EXTENDS LdtNl, TLAPS

-----------------------------------------------------------------------------
(* The entries a walk reaches are the least set that is closed under the   *)
(* pointers.                                                               *)

LEMMA Least ==
    ASSUME NEW a, NEW n
    PROVE  /\ Reached(a, n) \subseteq Entry
           /\ Closed(a, n, Reached(a, n))
           /\ \A S \in SUBSET Entry : Closed(a, n, S) => Reached(a, n) \subseteq S
<1>1. Reached(a, n) \subseteq Entry
  BY DEF Reached
<1>2. \A S \in SUBSET Entry : Closed(a, n, S) => Reached(a, n) \subseteq S
  BY DEF Reached
<1>3. a \in Entry => a \in Reached(a, n)
  BY DEF Reached, Closed
<1>4. ASSUME NEW x \in Reached(a, n), n[x] \in Entry PROVE n[x] \in Reached(a, n)
  <2>1. ASSUME NEW S \in SUBSET Entry, Closed(a, n, S) PROVE n[x] \in S
    BY <1>2, <1>4, <2>1 DEF Closed
  <2> QED
    BY <1>4, <2>1 DEF Reached
<1> QED
  BY <1>1, <1>2, <1>3, <1>4 DEF Closed

\* A walk from an entry meets that entry and what a walk from its successor
\* meets; a walk that is over meets none.
LEMMA Unfold ==
    ASSUME NEW a, NEW n
    PROVE  /\ a \notin Entry => Reached(a, n) = {}
           /\ a \in Entry => Reached(a, n) = {a} \cup Reached(n[a], n)
<1> DEFINE R == Reached(a, n)
           Q == Reached(n[a], n)
<1>1. R \subseteq Entry /\ Closed(a, n, R)
      /\ \A S \in SUBSET Entry : Closed(a, n, S) => R \subseteq S
  BY Least
<1>2. Q \subseteq Entry /\ Closed(n[a], n, Q)
      /\ \A S \in SUBSET Entry : Closed(n[a], n, S) => Q \subseteq S
  BY Least
<1> HIDE DEF R, Q
<1>3. ASSUME a \notin Entry PROVE R = {}
  <2>1. Closed(a, n, {})
    BY <1>3 DEF Closed
  <2> QED
    BY <1>1, <2>1
<1>4. ASSUME a \in Entry PROVE R = {a} \cup Q
  <2>1. Closed(a, n, {a} \cup Q)
    BY <1>2 DEF Closed
  <2>2. Closed(n[a], n, R)
    BY <1>1, <1>4 DEF Closed
  <2>3. {a} \cup Q \in SUBSET Entry /\ R \in SUBSET Entry
    BY <1>1, <1>2, <1>4
  <2>4. R \subseteq {a} \cup Q
    BY <1>1, <2>1, <2>3
  <2>5. Q \subseteq R /\ a \in R
    BY <1>1, <1>2, <1>4, <2>2, <2>3 DEF Closed
  <2> QED
    BY <2>4, <2>5
<1> QED
  BY <1>3, <1>4 DEF R, Q

\* In a list in which no two entries lead to the same one and none to the
\* first, no walk comes back to where it was.
LEMMA Acyclic ==
    ASSUME NEW h, NEW n,
           \A x \in Reached(h, n) : n[x] \in Entry =>
               n[x] # h /\ \A y \in Reached(h, n) : n[y] = n[x] => y = x,
           NEW c \in Reached(h, n)
    PROVE  c \notin Reached(n[c], n)
<1> SUFFICES ASSUME c \in Reached(n[c], n) PROVE FALSE
  OBVIOUS
<1> DEFINE L == Reached(h, n)
           C == Reached(n[c], n)
<1>1. L \subseteq Entry /\ Closed(h, n, L)
      /\ \A S \in SUBSET Entry : Closed(h, n, S) => L \subseteq S
  BY Least
<1>2. C \subseteq Entry /\ Closed(n[c], n, C)
      /\ \A S \in SUBSET Entry : Closed(n[c], n, S) => C \subseteq S
  BY Least
<1>3. \A x \in L : n[x] \in Entry => n[x] # h /\ \A y \in L : n[y] = n[x] => y = x
  OBVIOUS
<1>4. c \in L /\ c \in C
  OBVIOUS
<1> HIDE DEF L, C
\* Everything on the way comes from something on the way.
<1>5. C \subseteq L
  <2>1. Closed(n[c], n, L)
    BY <1>1, <1>4 DEF Closed
  <2> QED
    BY <1>1, <1>2, <2>1
<1>6. \A x \in C : \E y \in C : n[y] = x
  <2> DEFINE P == {x \in C : \E y \in C : n[y] = x}
  <2>1. Closed(n[c], n, P)
    BY <1>2, <1>4 DEF Closed
  <2>2. P \in SUBSET Entry
    BY <1>2
  <2> QED
    BY <1>2, <2>1, <2>2
<1>7. Closed(h, n, L \ C)
  <2>1. h \in Entry => h \in L \ C
    BY <1>1, <1>3, <1>5, <1>6 DEF Closed
  <2>2. ASSUME NEW x \in L \ C, n[x] \in Entry PROVE n[x] \in L \ C
    <3>1. n[x] \in L
      BY <1>1, <2>2 DEF Closed
    <3>2. ASSUME n[x] \in C PROVE FALSE
      <4>1. PICK y \in C : n[y] = n[x]
        BY <1>6, <3>2
      <4>2. y = x
        BY <1>3, <1>5, <2>2, <4>1
      <4> QED
        BY <4>1, <4>2
    <3> QED
      BY <3>1, <3>2
  <2> QED
    BY <2>1, <2>2 DEF Closed
<1>8. L \ C \in SUBSET Entry
  BY <1>1
<1> QED
  BY <1>1, <1>4, <1>7, <1>8

\* A walk does not notice a change of pointers it does not meet.
LEMMA Elsewhere ==
    ASSUME NEW a, NEW n, NEW m, \A c \in Reached(a, n) : m[c] = n[c]
    PROVE  Reached(a, m) = Reached(a, n)
<1> DEFINE R == Reached(a, n)
           Q == Reached(a, m)
<1>1. R \subseteq Entry /\ Closed(a, n, R)
      /\ \A S \in SUBSET Entry : Closed(a, n, S) => R \subseteq S
  BY Least
<1>2. Q \subseteq Entry /\ Closed(a, m, Q)
      /\ \A S \in SUBSET Entry : Closed(a, m, S) => Q \subseteq S
  BY Least
<1>3. \A c \in R : m[c] = n[c]
  OBVIOUS
<1> HIDE DEF R, Q
<1>4. Closed(a, m, R)
  BY <1>1, <1>3 DEF Closed
<1>5. Q \subseteq R
  BY <1>1, <1>2, <1>4
<1>6. Closed(a, n, Q)
  BY <1>2, <1>3, <1>5 DEF Closed
<1>7. R \subseteq Q
  BY <1>1, <1>2, <1>6
<1> QED
  BY <1>5, <1>7 DEF R, Q

-----------------------------------------------------------------------------
(* The invariant.                                                          *)

\* The list is one: no two entries lead to the same, and none to the first.
Linear ==
    \A x \in Linked : next[x] \in Entry =>
        next[x] # next[Head] /\ \A y \in Linked : next[y] = next[x] => y = x

\* An entry has a user as long as it is valid; those to be freed are not.
Entries ==
    /\ ListSound
    /\ \A e \in Linked : user[e] \in Client
    /\ \A e \in dellist : ~valid[e]

\* A new entry is known to ldt_nl_adduser alone: no walk leads to it.
NewEntry ==
    new # Null =>
        /\ new \notin Linked \cup dellist
        /\ valid[new] /\ user[new] = hclient
        /\ \A e \in Linked : user[e] # hclient
        /\ \A w \in Walker : new \notin Ahead(at[w])

\* The client that is served has a socket, which is not closed before it has
\* its answer, and an entry once that is in the list.
Command ==
    /\ hclient = Null => new = Null /\ at["h"] = Null
    /\ at["h"] = Null => dellist = {}
    /\ new # Null => at["h"] = Null
    /\ hclient # Null =>
          /\ hclient \notin released \cup {rclient} /\ sock[hclient] # "closed"
          /\ new = Null => \E e \in Linked : user[e] = hclient /\ valid[e]

\* An entry of the client whose socket was closed is still ahead of the walk
\* of ldt_nl_rmuser if it is valid.
Notifier ==
    /\ rclient = Null <=> at["r"] = Null
    /\ \A e \in Linked :
          valid[e] /\ user[e] = rclient /\ sock[rclient] = "closed" =>
              e \in Ahead(at["r"]) /\ ~(e = at["r"] /\ seen["r"])

\* Without other families a release is one of a socket that was closed.
Alone ==
    alone => /\ SubscriptionKept
             /\ \A c \in Client \cap (released \cup {rclient}) : sock[c] = "closed"

\* Who got an event has no entry ahead of the sender.
Sent ==
    /\ \A w \in Walker : at[w] \notin Entry => ~seen[w]
    /\ \A s \in Sender : \A e \in Linked \cap Ahead(at[s]) :
          ~(e = at[s] /\ seen[s]) => user[e] \notin got[s]

NlInv ==
    /\ TypeOK /\ Linear /\ Entries /\ NewEntry /\ Command /\ Notifier
    /\ ClosedIsUnsubscribed /\ Alone /\ Sent

USE DEF Linked, Ahead

LEMMA NlBegins == Init => NlInv
<1> SUFFICES ASSUME Init PROVE NlInv
  OBVIOUS
<1> USE NlAssumption, NamesAssumption
<1>1. TypeOK
  <2>1. /\ next \in [Entry \cup {Head} -> Entry \cup {End}]
        /\ user \in [Entry -> Client \cup {Null}] /\ valid \in [Entry -> BOOLEAN]
        /\ live \subseteq Entry /\ dellist \subseteq Entry
    BY DEF Init
  <2>2. /\ at \in [Walker -> Entry \cup {End, Null}]
        /\ seen \in [Walker -> BOOLEAN]
        /\ aud \in [Sender -> SUBSET Client] /\ got \in [Sender -> SUBSET Client]
    BY DEF Init
  <2>3. /\ new \in Entry \cup {Null} /\ hclient \in Client \cup {Null}
        /\ rclient \in Client \cup {Null} /\ released \subseteq Client
        /\ sock \in [Client -> {"closed", "open", "subscribed"}]
    BY DEF Init
  <2>4. loaded \in BOOLEAN /\ alone \in BOOLEAN
    BY DEF Init
  <2> QED
    BY <2>1, <2>2, <2>3, <2>4 DEF TypeOK
<1>2. Reached(next[Head], next) = {}
  BY Unfold DEF Init, Head, End
<1>3. \A w \in Walker : at[w] = Null /\ ~seen[w]
  BY DEF Init
<1>4. /\ live = {} /\ dellist = {} /\ new = Null /\ hclient = Null
      /\ rclient = Null /\ released = {} /\ \A c \in Client : sock[c] = "closed"
  BY DEF Init
<1>5. Linear /\ Entries /\ NewEntry /\ ClosedIsUnsubscribed
  BY <1>2, <1>4 DEF Linear, Entries, ListSound, NewEntry, ClosedIsUnsubscribed
<1>6. Command /\ Notifier
  BY <1>2, <1>3, <1>4 DEF Command, Notifier, Walker
<1>7. Alone /\ Sent
  BY <1>2, <1>3, <1>4 DEF Alone, Sent, SubscriptionKept
<1> QED
  BY <1>1, <1>5, <1>6, <1>7 DEF NlInv

\* The names of walkers, and what NlInv says of where they are.
LEMMA Names ==
    /\ "h" \in Walker /\ "r" \in Walker /\ "h" # "r"
    /\ \A s \in Sender : s \in Walker /\ s # "h" /\ s # "r"
    /\ Null \notin Entry /\ End \notin Entry /\ Head \notin Entry
    /\ Null # End /\ Null \notin Client
  BY NlAssumption, NamesAssumption DEF Walker, Null, End, Head

\* A step that leaves the list and the walkers as they are.
LEMMA NlOther ==
    ASSUME NlInv, UNCHANGED vars
    PROVE  NlInv'
  BY DEF vars, listVars, walkVars, cmdVars, sockVars, NlInv, TypeOK, Linear,
         Entries, ListSound, NewEntry, Command, Notifier, ClosedIsUnsubscribed,
         Alone, SubscriptionKept, Sent

\* The valid entries ahead of a walker are in the list.
LEMMA ValidAhead ==
    ASSUME NlInv, NEW w \in Walker, NEW e \in Ahead(at[w]) \cap live, valid[e]
    PROVE  e \in Linked
  BY Names DEF NlInv, Entries, ListSound, NewEntry

LEMMA NlAdvance ==
    ASSUME NlInv, NEW w \in Walker, Advance(w)
    PROVE  NlInv'
<1> DEFINE e == at[w]
<1>1. /\ e \in Entry /\ seen[w]
      /\ at' = [at EXCEPT ![w] = next[e]] /\ seen' = [seen EXCEPT ![w] = FALSE]
      /\ UNCHANGED <<listVars, aud, got, cmdVars, sockVars>>
  BY DEF Advance
<1>2. Reached(e, next) = {e} \cup Reached(next[e], next)
  BY <1>1, Unfold
<1>3. next[e] \in Entry \cup {End} /\ next[e] # Null /\ e # Null
  BY <1>1, Names DEF NlInv, TypeOK
<1>4. /\ at'[w] = next[e] /\ ~seen'[w]
      /\ \A v \in Walker : v # w => at'[v] = at[v] /\ seen'[v] = seen[v]
  BY <1>1 DEF NlInv, TypeOK
<1> USE Names DEF listVars, cmdVars, sockVars
<1>5. TypeOK'
  BY <1>1, <1>3 DEF NlInv, TypeOK
<1>6. Linear' /\ Entries' /\ ClosedIsUnsubscribed' /\ Alone'
  BY <1>1 DEF NlInv, Linear, Entries, ListSound, ClosedIsUnsubscribed, Alone,
              SubscriptionKept
<1>7. NewEntry'
  BY <1>1, <1>2, <1>4 DEF NlInv, NewEntry
<1>8. Command'
  BY <1>1, <1>3, <1>4 DEF NlInv, Command
<1>9. Notifier'
  <2>1. CASE w = "r"
    BY <1>1, <1>2, <1>3, <1>4, <2>1 DEF NlInv, Notifier
  <2>2. CASE w # "r"
    BY <1>1, <1>4, <2>2 DEF NlInv, Notifier
  <2> QED
    BY <2>1, <2>2
<1>10. Sent'
  <2>1. \A v \in Walker : at'[v] \notin Entry => ~seen'[v]
    BY <1>4 DEF NlInv, Sent
  <2>2. ASSUME NEW s \in Sender, NEW x \in Reached(next[Head], next),
               x \in Reached(at'[s], next), ~(x = at'[s] /\ seen'[s])
        PROVE  user[x] \notin got[s]
    <3>1. CASE s = w
      <4>1. x # e
        BY <1>4, <2>2, <3>1, Acyclic DEF NlInv, Linear
      <4>2. x \in Reached(e, next)
        BY <1>2, <1>4, <2>2, <3>1
      <4> QED
        BY <3>1, <4>1, <4>2 DEF NlInv, Sent
    <3>2. CASE s # w
      BY <1>4, <2>2, <3>2 DEF NlInv, Sent
    <3> QED
      BY <3>1, <3>2
  <2> QED
    BY <1>1, <2>1, <2>2 DEF Sent
<1> QED
  BY <1>5, <1>6, <1>7, <1>8, <1>9, <1>10 DEF NlInv

LEMMA NlSendEvent ==
    ASSUME NlInv, NEW s \in Sender, NEW A \in SUBSET Client, ldt_nl_send_event(s, A)
    PROVE  NlInv'
<1>1. /\ at[s] = Null /\ at' = [at EXCEPT ![s] = next[Head]]
      /\ aud' = [aud EXCEPT ![s] = A] /\ got' = [got EXCEPT ![s] = {}]
      /\ UNCHANGED <<listVars, seen, cmdVars, sockVars>>
  BY DEF ldt_nl_send_event, Start
<1> USE Names DEF listVars, cmdVars, sockVars
<1>2. /\ at'[s] = next[Head] /\ \A v \in Walker : v # s => at'[v] = at[v]
      /\ ~seen[s] /\ got'[s] = {} /\ \A r \in Sender : r # s => got'[r] = got[r]
  BY <1>1 DEF NlInv, TypeOK, Sent
<1>3. TypeOK'
  BY <1>1 DEF NlInv, TypeOK
<1>4. Linear' /\ Entries' /\ ClosedIsUnsubscribed' /\ Alone'
  BY <1>1 DEF NlInv, Linear, Entries, ListSound, ClosedIsUnsubscribed, Alone,
              SubscriptionKept
<1>5. NewEntry' /\ Command' /\ Notifier'
  BY <1>1, <1>2 DEF NlInv, NewEntry, Command, Notifier
<1>6. Sent'
  BY <1>1, <1>2 DEF NlInv, Sent
<1> QED
  BY <1>3, <1>4, <1>5, <1>6 DEF NlInv

\* An event is given to the user of an entry that is in the list, and no other
\* entry is of that user.
LEMMA NlDoSend ==
    ASSUME NlInv, ~Corrupt, NEW s \in Sender, do_send_event(s)
    PROVE  NlInv'
<1> DEFINE e == at[s]
<1>1. /\ e \in Entry /\ ~seen[s] /\ seen' = [seen EXCEPT ![s] = TRUE]
      /\ got' = [got EXCEPT ![s] = @ \cup
           (IF valid[e] /\ user[e] \in aud[s] THEN {user[e]} ELSE {})]
      /\ UNCHANGED <<listVars, at, aud, cmdVars, sockVars>>
  BY DEF do_send_event, Look
<1> USE Names DEF listVars, cmdVars, sockVars
<1>2. /\ seen'[s] /\ \A v \in Walker : v # s => seen'[v] = seen[v]
      /\ got'[s] = got[s] \cup
           (IF valid[e] /\ user[e] \in aud[s] THEN {user[e]} ELSE {})
      /\ \A r \in Sender : r # s => got'[r] = got[r]
  BY <1>1 DEF NlInv, TypeOK
<1>3. TypeOK'
  <2>1. aud[s] \in SUBSET Client /\ got[s] \in SUBSET Client
    BY DEF NlInv, TypeOK
  <2>2. got[s] \cup (IF valid[e] /\ user[e] \in aud[s] THEN {user[e]} ELSE {})
           \in SUBSET Client
    BY <2>1
  <2>3. got' \in [Sender -> SUBSET Client]
    BY <1>1, <2>2 DEF NlInv, TypeOK
  <2> QED
    BY <1>1, <2>3 DEF NlInv, TypeOK
<1>4. Linear' /\ Entries' /\ ClosedIsUnsubscribed' /\ Alone'
  BY <1>1 DEF NlInv, Linear, Entries, ListSound, ClosedIsUnsubscribed, Alone,
              SubscriptionKept
<1>5. NewEntry' /\ Command' /\ Notifier'
  BY <1>1, <1>2 DEF NlInv, NewEntry, Command, Notifier
<1>6. e \in Reached(e, next) /\ e \in live
  BY <1>1, Unfold DEF Corrupt
<1>7. valid[e] => e \in Linked
  BY <1>6, ValidAhead
<1>8. Sent'
  <2>1. \A v \in Walker : at[v] \notin Entry => ~seen'[v]
    BY <1>1, <1>2 DEF NlInv, Sent
  <2>2. ASSUME NEW r \in Sender, NEW x \in Reached(next[Head], next),
               x \in Reached(at[r], next), ~(x = at[r] /\ seen'[r])
        PROVE  user[x] \notin got'[r]
    <3>1. CASE r = s
      <4>1. x # e /\ user[x] \notin got[s]
        BY <1>1, <1>2, <2>2, <3>1 DEF NlInv, Sent
      <4>2. valid[e] => user[x] # user[e]
        BY <1>7, <2>2, <4>1 DEF NlInv, Entries, ListSound
      <4> QED
        BY <1>2, <3>1, <4>1, <4>2
    <3>2. CASE r # s
      BY <1>2, <2>2, <3>2 DEF NlInv, Sent
    <3> QED
      BY <3>1, <3>2
  <2> QED
    BY <1>1, <2>1, <2>2 DEF Sent
<1> QED
  BY <1>3, <1>4, <1>5, <1>8 DEF NlInv

LEMMA NlSendDone ==
    ASSUME NlInv, NEW s \in Sender, SendDone(s)
    PROVE  NlInv'
<1>1. /\ at[s] = End /\ at' = [at EXCEPT ![s] = Null]
      /\ UNCHANGED <<listVars, seen, aud, got, cmdVars, sockVars>>
  BY DEF SendDone
<1> USE Names DEF listVars, cmdVars, sockVars
<1>2. /\ at'[s] = Null /\ \A v \in Walker : v # s => at'[v] = at[v]
      /\ Reached(Null, next) = {}
  BY <1>1, Unfold DEF NlInv, TypeOK
<1>3. TypeOK'
  BY <1>1 DEF NlInv, TypeOK
<1>4. Linear' /\ Entries' /\ ClosedIsUnsubscribed' /\ Alone'
  BY <1>1 DEF NlInv, Linear, Entries, ListSound, ClosedIsUnsubscribed, Alone,
              SubscriptionKept
<1>5. NewEntry' /\ Command' /\ Notifier'
  BY <1>1, <1>2 DEF NlInv, NewEntry, Command, Notifier
<1>6. Sent'
  BY <1>1, <1>2 DEF NlInv, Sent
<1> QED
  BY <1>3, <1>4, <1>5, <1>6 DEF NlInv

\* ldt_nl_subscribe finds the user in the list, and makes its entry valid.
LEMMA NlRevalidate ==
    ASSUME NlInv, NEW c \in Client, hclient = Null, c \notin released \cup {rclient},
           NEW mine, mine = {e \in Linked : user[e] = c}, mine # {},
           valid' = [e \in Entry |-> e \in mine \/ valid[e]],
           sock' = [sock EXCEPT ![c] = "subscribed"],
           UNCHANGED <<next, user, live, dellist, cmdVars>>,
           UNCHANGED <<walkVars, rclient, released, loaded, alone>>
    PROVE  NlInv'
<1> USE Names DEF walkVars, cmdVars
<1>1. Reached(next[Head], next) \subseteq Entry
  BY Least
<1>2. /\ \A e \in Entry : valid'[e] <=> (e \in mine \/ valid[e])
      /\ \A e \in mine : e \in Reached(next[Head], next) /\ user[e] = c
      /\ sock'[c] = "subscribed" /\ \A d \in Client : d # c => sock'[d] = sock[d]
  BY <1>1 DEF NlInv, TypeOK
<1>3. TypeOK'
  BY DEF NlInv, TypeOK
<1>4. Linear' /\ Sent'
  BY DEF NlInv, Linear, Sent
<1>5. Entries'
  <2>1. \A e \in dellist : e \in Entry /\ e \notin mine
    BY DEF NlInv, TypeOK, Entries, ListSound
  <2> QED
    BY <1>2, <2>1 DEF NlInv, Entries, ListSound
<1>6. NewEntry' /\ Command'
  BY DEF NlInv, NewEntry, Command
<1>7. Notifier'
  BY <1>1, <1>2 DEF NlInv, Notifier
<1>8. ClosedIsUnsubscribed'
  BY <1>1, <1>2 DEF NlInv, ClosedIsUnsubscribed, Entries
<1>9. Alone'
  <2>1. ASSUME alone, NEW d \in Client, sock'[d] = "subscribed"
        PROVE  \E e \in Reached(next[Head], next) : user[e] = d /\ valid'[e]
    <3>1. CASE d = c
      BY <1>1, <1>2, <3>1
    <3>2. CASE d # c
      <4>1. PICK e \in Reached(next[Head], next) : user[e] = d /\ valid[e]
        BY <1>2, <2>1, <3>2 DEF NlInv, Alone, SubscriptionKept
      <4> QED
        BY <1>1, <1>2, <4>1
    <3> QED
      BY <3>1, <3>2
  <2> QED
    BY <1>2, <2>1 DEF NlInv, Alone, SubscriptionKept
<1> QED
  BY <1>3, <1>4, <1>5, <1>6, <1>7, <1>8, <1>9 DEF NlInv

\* ldt_nl_adduser allocates an entry.  No walk leads to it: it was free, and
\* every walker has allocated entries ahead of it only.
LEMMA NlAllocate ==
    ASSUME NlInv, ~Corrupt, NEW c \in Client, hclient = Null,
           c \notin released \cup {rclient}, {e \in Linked : user[e] = c} = {},
           NEW e \in Entry, e \notin live, new' = e, live' = live \cup {e},
           user' = [user EXCEPT ![e] = c], valid' = [valid EXCEPT ![e] = TRUE],
           hclient' = c, sock' = [sock EXCEPT ![c] = "open"],
           UNCHANGED <<next, dellist>>,
           UNCHANGED <<walkVars, rclient, released, loaded, alone>>
    PROVE  NlInv'
<1> USE Names DEF walkVars
<1>1. /\ new = Null /\ at["h"] = Null /\ dellist = {}
  BY DEF NlInv, Command
<1>2. live = Reached(next[Head], next) /\ e \notin Reached(next[Head], next)
  BY <1>1 DEF NlInv, Entries, ListSound
<1>3. /\ user'[e] = c /\ valid'[e]
      /\ \A x \in Reached(next[Head], next) : user'[x] = user[x] /\ valid'[x] = valid[x]
      /\ sock'[c] = "open" /\ \A d \in Client : d # c => sock'[d] = sock[d]
  <2>1. user'[e] = c /\ \A x \in Entry : x # e => user'[x] = user[x]
    BY DEF NlInv, TypeOK
  <2>2. valid'[e] /\ \A x \in Entry : x # e => valid'[x] = valid[x]
    BY DEF NlInv, TypeOK
  <2>3. sock'[c] = "open" /\ \A d \in Client : d # c => sock'[d] = sock[d]
    BY DEF NlInv, TypeOK
  <2>4. \A x \in Reached(next[Head], next) : x \in Entry /\ x # e
    BY <1>2, Least DEF NlInv, TypeOK
  <2> QED
    BY <2>1, <2>2, <2>3, <2>4
<1>4. TypeOK'
  BY DEF NlInv, TypeOK
<1>5. Linear'
  BY DEF NlInv, Linear
<1>6. Sent'
  BY <1>3 DEF NlInv, Sent
<1>7. Entries'
  BY <1>1, <1>2, <1>3 DEF NlInv, Entries, ListSound
<1>8. NewEntry'
  <2>1. \A w \in Walker : e \notin Reached(at[w], next)
    BY DEF Corrupt
  <2> QED
    BY <1>1, <1>2, <1>3, <2>1 DEF NewEntry
<1>9. Command'
  BY <1>1, <1>3 DEF Command
<1>10. Notifier'
  BY <1>3 DEF NlInv, Notifier, Entries
<1>11. ClosedIsUnsubscribed'
  BY <1>3 DEF NlInv, ClosedIsUnsubscribed, Entries
<1>12. Alone'
  <2>1. ASSUME alone, NEW d \in Client, sock'[d] = "subscribed"
        PROVE  \E x \in Reached(next[Head], next) : user'[x] = d /\ valid'[x]
    <3>1. d # c /\ sock[d] = "subscribed"
      BY <1>3, <2>1
    <3>2. PICK x \in Reached(next[Head], next) : user[x] = d /\ valid[x]
      BY <2>1, <3>1 DEF NlInv, Alone, SubscriptionKept
    <3> QED
      BY <1>3, <3>2
  <2> QED
    BY <1>3, <2>1 DEF NlInv, Alone, SubscriptionKept
<1> QED
  BY <1>4, <1>5, <1>6, <1>7, <1>8, <1>9, <1>10, <1>11, <1>12 DEF NlInv

LEMMA NlNoMem ==
    ASSUME NlInv, NEW c \in Client, hclient = Null, c \notin released \cup {rclient},
           {e \in Linked : user[e] = c} = {}, sock' = [sock EXCEPT ![c] = "open"],
           UNCHANGED <<listVars, cmdVars>>,
           UNCHANGED <<walkVars, rclient, released, loaded, alone>>
    PROVE  NlInv'
<1> USE Names DEF listVars, cmdVars, walkVars
<1>1. sock'[c] = "open" /\ \A d \in Client : d # c => sock'[d] = sock[d]
  BY DEF NlInv, TypeOK
<1>2. TypeOK' /\ Linear' /\ Sent' /\ Entries' /\ NewEntry'
  BY DEF NlInv, TypeOK, Linear, Sent, Entries, ListSound, NewEntry
<1>3. Command' /\ Notifier'
  BY <1>1 DEF NlInv, Command, Notifier, Entries
<1>4. ClosedIsUnsubscribed' /\ Alone'
  BY <1>1 DEF NlInv, ClosedIsUnsubscribed, Alone, SubscriptionKept, Entries
<1> QED
  BY <1>2, <1>3, <1>4 DEF NlInv

\* What kmalloc returns was free.
LEMMA AllocFree ==
    ASSUME live \subseteq Entry, NEW e \in Alloc
    PROVE  e \in Entry /\ e \notin live
<1>1. live # Entry /\ e = CHOOSE x \in Entry : x \notin live
  BY DEF Alloc
<1>2. \E x \in Entry : x \notin live
  BY <1>1
<1> QED
  BY <1>1, <1>2

LEMMA NlSubscribe ==
    ASSUME NlInv, ~Corrupt, NEW c \in Client, ldt_nl_subscribe(c)
    PROVE  NlInv'
<1> DEFINE mine == {e \in Linked : user[e] = c}
<1>1. /\ hclient = Null /\ c \notin released \cup {rclient}
      /\ UNCHANGED <<walkVars, rclient, released, loaded, alone>>
  BY DEF ldt_nl_subscribe
<1>2. CASE /\ mine # {}
           /\ valid' = [e \in Entry |-> e \in mine \/ valid[e]]
           /\ sock' = [sock EXCEPT ![c] = "subscribed"]
           /\ UNCHANGED <<next, user, live, dellist, cmdVars>>
  BY <1>1, <1>2, NlRevalidate
<1>3. CASE /\ mine = {}
           /\ \E e \in Alloc :
                 /\ new' = e /\ live' = live \cup {e}
                 /\ user' = [user EXCEPT ![e] = c]
                 /\ valid' = [valid EXCEPT ![e] = TRUE]
           /\ hclient' = c
           /\ sock' = [sock EXCEPT ![c] = "open"]
           /\ UNCHANGED <<next, dellist>>
  <2>1. PICK e \in Alloc : /\ new' = e /\ live' = live \cup {e}
                           /\ user' = [user EXCEPT ![e] = c]
                           /\ valid' = [valid EXCEPT ![e] = TRUE]
    BY <1>3
  <2>2. e \in Entry /\ e \notin live
    BY AllocFree DEF NlInv, TypeOK
  <2> QED
    BY <1>1, <1>3, <2>1, <2>2, NlAllocate
<1>4. CASE /\ mine = {}
           /\ sock' = [sock EXCEPT ![c] = "open"]
           /\ UNCHANGED <<listVars, cmdVars>>
  BY <1>1, <1>4, NlNoMem
<1> QED
  BY <1>2, <1>3, <1>4 DEF ldt_nl_subscribe

\* What list_add_rcu does to the list and to the walks.
LEMMA AddFacts ==
    ASSUME NlInv, AddUser
    PROVE  /\ new \in Entry /\ new \notin Linked
           /\ next'[new] = next[Head] /\ next'[Head] = new
           /\ \A x \in Linked : next'[x] = next[x]
           /\ Linked' = Linked \cup {new}
           /\ \A w \in Walker : Reached(at[w], next') = Ahead(at[w])
<1> USE Names
<1>1. /\ new \in Entry /\ new \notin Linked /\ \A w \in Walker : new \notin Ahead(at[w])
  BY DEF NlInv, TypeOK, NewEntry, AddUser
<1>2. next' = [next EXCEPT ![new] = next[Head], ![Head] = new]
  BY DEF AddUser
<1>3. /\ next'[new] = next[Head] /\ next'[Head] = new
      /\ \A x \in Entry : x # new => next'[x] = next[x]
  BY <1>1, <1>2 DEF NlInv, TypeOK
<1>4. Reached(next[Head], next') = Reached(next[Head], next)
  BY <1>1, <1>3, Least, Elsewhere
<1>5. Reached(new, next') = {new} \cup Reached(next[Head], next')
  BY <1>1, <1>3, Unfold
<1>6. ASSUME NEW w \in Walker PROVE Reached(at[w], next') = Reached(at[w], next)
  BY <1>1, <1>3, Least, Elsewhere
<1>7. \A x \in Reached(next[Head], next) : next'[x] = next[x]
  BY <1>1, <1>3, Least
<1> QED
  BY <1>1, <1>3, <1>4, <1>5, <1>6, <1>7

LEMMA NlAddUser ==
    ASSUME NlInv, AddUser
    PROVE  NlInv'
<1> USE Names DEF sockVars
<1>1. /\ new # Null /\ at' = [at EXCEPT !["h"] = new] /\ new' = Null
      /\ UNCHANGED <<user, valid, live, dellist, seen, aud, got, hclient, sockVars>>
  BY DEF AddUser
<1>2. /\ new \in Entry /\ new \notin Linked
      /\ next'[new] = next[Head] /\ next'[Head] = new
      /\ \A x \in Linked : next'[x] = next[x]
      /\ Linked' = Linked \cup {new}
      /\ \A w \in Walker : Reached(at[w], next') = Ahead(at[w])
  BY AddFacts
<1>3. /\ at'["h"] = new /\ \A w \in Walker : w # "h" => at'[w] = at[w]
  BY <1>1 DEF NlInv, TypeOK
<1>4. /\ valid[new] /\ user[new] = hclient /\ \A e \in Linked : user[e] # hclient
      /\ \A w \in Walker : new \notin Ahead(at[w])
      /\ at["h"] = Null /\ dellist = {} /\ hclient # Null
      /\ hclient \in Client /\ hclient # rclient /\ sock[hclient] # "closed"
      /\ ~seen["h"]
  BY <1>1 DEF NlInv, TypeOK, NewEntry, Command, Sent
<1>5. TypeOK'
  BY <1>1, <1>2 DEF NlInv, TypeOK, AddUser
<1>6. Linear'
  <2>1. Closed(next[Head], next, Reached(next[Head], next))
    BY Least
  <2>2. \A x \in Linked : next[x] \in Entry => next[x] \in Linked
    BY <2>1 DEF Closed
  <2>3. next[Head] \in Entry => next[Head] \in Linked
    BY <2>1 DEF Closed
  <2>4. ASSUME NEW x \in Linked', next'[x] \in Entry
        PROVE  next'[x] # next'[Head] /\ \A y \in Linked' : next'[y] = next'[x] => y = x
    <3>1. CASE x = new
      BY <1>2, <2>3, <2>4, <3>1 DEF NlInv, Linear
    <3>2. CASE x \in Linked
      BY <1>2, <2>2, <2>4, <3>2 DEF NlInv, Linear
    <3> QED
      BY <1>2, <2>4, <3>1, <3>2
  <2> QED
    BY <2>4 DEF Linear
<1> USE <1>2
<1>7. Entries'
  BY <1>1, <1>4 DEF NlInv, Entries, ListSound
<1>8. NewEntry'
  BY <1>1 DEF NewEntry
<1>9. Command'
  BY <1>1, <1>3, <1>4 DEF NlInv, Command
<1>10. Notifier'
  BY <1>1, <1>3, <1>4 DEF NlInv, Notifier
<1>11. ClosedIsUnsubscribed'
  BY <1>1, <1>4 DEF NlInv, ClosedIsUnsubscribed
<1>12. Alone'
  BY <1>1 DEF NlInv, Alone, SubscriptionKept
<1>13. Sent'
  <2>1. \A v \in Walker : at'[v] \notin Entry => ~seen'[v]
    BY <1>1, <1>3 DEF NlInv, Sent
  <2>2. ASSUME NEW s \in Sender, NEW e \in Linked' \cap Ahead(at[s])',
               ~(e = at'[s] /\ seen'[s])
        PROVE  user'[e] \notin got'[s]
    BY <1>1, <1>3, <1>4, <2>2 DEF NlInv, Sent
  <2> QED
    BY <2>1, <2>2 DEF Sent
<1> QED
  BY <1>5, <1>6, <1>7, <1>8, <1>9, <1>10, <1>11, <1>12, <1>13 DEF NlInv

\* What list_del_rcu does to the list and to the walks.
LEMMA DelFacts ==
    ASSUME NlInv, NEW e \in Entry, NEW p \in Linked \cup {Head}, next[p] = e,
           next' = [next EXCEPT ![p] = next[e]]
    PROVE  /\ e \in Linked /\ p # e
           /\ next'[p] = next[e]
           /\ \A x \in Entry \cup {Head} : x # p => next'[x] = next[x]
           /\ Linked' = Linked \ {e}
           /\ \A a : /\ Reached(a, next') \subseteq Reached(a, next)
                     /\ Reached(a, next) \ {e} \subseteq Reached(a, next')
<1> USE Names
<1>a. Linked \subseteq Entry /\ Closed(next[Head], next, Linked)
  BY Least
<1>b. \A x \in Linked : x \notin Reached(next[x], next)
  BY Acyclic DEF NlInv, Linear
<1>c. e \in Linked
  BY <1>a DEF Closed
<1>d. p # e
  <2>1. CASE p = Head
    BY <2>1
  <2>2. CASE p \in Linked
    <3>1. p = e => e \in Reached(next[p], next)
      BY Unfold
    <3> QED
      BY <1>b, <2>2, <3>1
  <2> QED
    BY <2>1, <2>2
<1>1. next'[p] = next[e] /\ \A x \in Entry \cup {Head} : x # p => next'[x] = next[x]
  BY <1>a DEF NlInv, TypeOK
\* e keeps its pointer: a walk from anywhere, also from e itself, meets the
\* same entries but perhaps e.
<1>2. ASSUME NEW a
      PROVE  /\ Reached(a, next') \subseteq Reached(a, next)
             /\ Reached(a, next) \ {e} \subseteq Reached(a, next')
  <2> DEFINE R == Reached(a, next)
             Q == Reached(a, next')
             T == Q \cup (IF p \in Q THEN {e} ELSE {})
  <2>1. R \subseteq Entry /\ Closed(a, next, R)
        /\ \A S \in SUBSET Entry : Closed(a, next, S) => R \subseteq S
    BY Least
  <2>2. Q \subseteq Entry /\ Closed(a, next', Q)
        /\ \A S \in SUBSET Entry : Closed(a, next', S) => Q \subseteq S
    BY Least
  <2> HIDE DEF R, Q
  <2>3. Closed(a, next', R)
    <3>1. ASSUME NEW x \in R, next'[x] \in Entry PROVE next'[x] \in R
      BY <1>1, <2>1, <3>1 DEF Closed
    <3> QED
      BY <2>1, <3>1 DEF Closed
  <2>4. Closed(a, next, T)
    <3>1. ASSUME NEW x \in Q, next[x] \in Entry PROVE next[x] \in T
      BY <1>1, <2>2, <3>1 DEF Closed
    <3>2. p \in Q /\ next[e] \in Entry => next[e] \in T
      BY <1>1, <2>2 DEF Closed
    <3>3. a \in Entry => a \in T
      BY <2>2 DEF Closed
    <3> QED
      BY <3>1, <3>2, <3>3 DEF Closed
  <2>5. T \in SUBSET Entry /\ R \in SUBSET Entry
    BY <2>1, <2>2
  <2>6. Q \subseteq R /\ R \subseteq T
    BY <2>1, <2>2, <2>3, <2>4, <2>5
  <2> QED
    BY <2>6 DEF R, Q
<1>3. e \notin Reached(next'[Head], next')
  <2>1. CASE p = Head
    <3>1. Reached(next[e], next') \subseteq Reached(next[e], next)
      BY <1>2
    <3> QED
      BY <1>1, <1>b, <1>c, <2>1, <3>1
  <2>2. CASE p \in Linked
    <3>1. next'[Head] = next[Head] /\ next[Head] # e
      BY <1>1, <1>a, <2>2 DEF NlInv, Linear
    <3>2. next[e] # e
      <4>1. next[e] = e => e \in Reached(next[e], next)
        BY Unfold
      <4> QED
        BY <1>b, <1>c, <4>1
    <3>3. \A x \in Linked : next[x] = e => x = p
      BY <2>2 DEF NlInv, Linear
    <3>4. Closed(next[Head], next', Linked \ {e})
      <4>1. next[Head] \in Entry => next[Head] \in Linked \ {e}
        BY <1>a, <3>1 DEF Closed
      <4>2. ASSUME NEW x \in Linked \ {e}, next'[x] \in Entry
            PROVE  next'[x] \in Linked \ {e}
        <5>1. CASE x = p
          BY <1>1, <1>a, <1>c, <3>2, <4>2, <5>1 DEF Closed
        <5>2. CASE x # p
          BY <1>1, <1>a, <3>3, <4>2, <5>2 DEF Closed
        <5> QED
          BY <5>1, <5>2
      <4> QED
        BY <4>1, <4>2 DEF Closed
    <3>5. Linked \ {e} \in SUBSET Entry
      BY <1>a
    <3>6. Reached(next[Head], next') \subseteq Linked \ {e}
      BY <3>4, <3>5, Least
    <3> QED
      BY <3>1, <3>6
  <2> QED
    BY <2>1, <2>2
<1>4. Reached(next'[Head], next') = Linked \ {e}
  <2>1. CASE p = Head
    <3>1. Linked = {e} \cup Reached(next[e], next)
      BY <2>1, Unfold
    <3>2. /\ Reached(next[e], next') \subseteq Reached(next[e], next)
          /\ Reached(next[e], next) \ {e} \subseteq Reached(next[e], next')
      BY <1>2
    <3>3. next'[Head] = next[e]
      BY <1>1, <2>1
    <3> QED
      BY <1>3, <3>1, <3>2, <3>3
  <2>2. CASE p \in Linked
    <3>1. next'[Head] = next[Head]
      BY <1>1, <1>a, <2>2
    <3>2. /\ Reached(next[Head], next') \subseteq Linked
          /\ Linked \ {e} \subseteq Reached(next[Head], next')
      BY <1>2
    <3> QED
      BY <1>3, <3>1, <3>2
  <2> QED
    BY <2>1, <2>2
<1> QED
  BY <1>1, <1>2, <1>4, <1>c, <1>d

LEMMA NlCollect ==
    ASSUME NlInv, Collect
    PROVE  NlInv'
<1> DEFINE e == at["h"]
<1> USE Names DEF cmdVars, sockVars
<1>1. /\ e \in Entry /\ ~seen["h"] /\ seen' = [seen EXCEPT !["h"] = TRUE]
      /\ UNCHANGED <<user, valid, live, at, aud, got, cmdVars, sockVars>>
  BY DEF Collect, Look
<1>2. seen'["h"] /\ \A w \in Walker : w # "h" => seen'[w] = seen[w]
  BY <1>1 DEF NlInv, TypeOK
<1>3. new = Null /\ hclient # Null
  BY <1>1 DEF NlInv, Command
<1>4. CASE valid[e]
  <2>1. UNCHANGED <<next, dellist>>
    BY <1>4 DEF Collect
  <2>2. TypeOK' /\ Linear' /\ Entries' /\ NewEntry' /\ Command'
    BY <1>1, <2>1 DEF NlInv, TypeOK, Linear, Entries, ListSound, NewEntry, Command
  <2>3. Notifier' /\ ClosedIsUnsubscribed' /\ Alone'
    BY <1>1, <1>2, <2>1
       DEF NlInv, Notifier, ClosedIsUnsubscribed, Alone, SubscriptionKept
  <2>4. Sent'
    BY <1>1, <1>2, <2>1 DEF NlInv, Sent
  <2> QED
    BY <2>2, <2>3, <2>4 DEF NlInv
<1>5. CASE ~valid[e]
  <2>1. PICK p \in Linked \cup {Head} : next[p] = e /\ next' = [next EXCEPT ![p] = next[e]]
    BY <1>5 DEF Collect
  <2>2. dellist' = dellist \cup {e}
    BY <1>5 DEF Collect
  <2>3. /\ e \in Linked /\ p # e
        /\ next'[p] = next[e]
        /\ \A x \in Entry \cup {Head} : x # p => next'[x] = next[x]
        /\ Linked' = Linked \ {e}
        /\ \A a : /\ Reached(a, next') \subseteq Reached(a, next)
                  /\ Reached(a, next) \ {e} \subseteq Reached(a, next')
    BY <1>1, <2>1, DelFacts
  <2>4. TypeOK'
    BY <1>1, <2>1, <2>2 DEF NlInv, TypeOK
  <2>5. Linear'
    <3>1. Linked \subseteq Entry
      BY Least
    <3>2. ASSUME NEW x \in Linked \ {e}, next'[x] \in Entry
          PROVE  /\ next'[x] # next'[Head]
                 /\ \A y \in Linked \ {e} : next'[y] = next'[x] => y = x
      <4>1. CASE p = Head
        <5>1. next'[Head] = next[e] /\ \A y \in Linked : next'[y] = next[y]
          BY <2>3, <3>1, <4>1
        <5> QED
          BY <2>3, <3>2, <5>1 DEF NlInv, Linear
      <4>2. CASE p \in Linked
        <5>1. /\ next'[Head] = next[Head]
              /\ \A y \in Linked : y # p => next'[y] = next[y]
          BY <2>3, <3>1, <4>2
        <5>2. CASE x = p
          BY <2>3, <3>2, <5>1, <5>2 DEF NlInv, Linear
        <5>3. CASE x # p
          BY <2>3, <3>2, <5>1, <5>3 DEF NlInv, Linear
        <5> QED
          BY <5>2, <5>3
      <4> QED
        BY <4>1, <4>2
    <3> QED
      BY <2>3, <3>2 DEF Linear
  <2>6. Entries'
    BY <1>1, <1>5, <2>2, <2>3 DEF NlInv, Entries, ListSound
  <2>7. NewEntry'
    BY <1>1, <1>3 DEF NewEntry
  <2>8. Command'
    BY <1>1, <1>3, <1>5, <2>3 DEF NlInv, Command
  <2>9. Notifier'
    BY <1>1, <1>2, <1>5, <2>3 DEF NlInv, Notifier
  <2>10. ClosedIsUnsubscribed'
    BY <1>1, <2>3 DEF NlInv, ClosedIsUnsubscribed
  <2>11. Alone'
    BY <1>1, <1>5, <2>3 DEF NlInv, Alone, SubscriptionKept
  <2>12. Sent'
    <3>1. \A v \in Walker : at'[v] \notin Entry => ~seen'[v]
      BY <1>1, <1>2 DEF NlInv, Sent
    <3>2. \A s \in Sender : \A x \in Linked' \cap Reached(at[s], next') :
             ~(x = at[s] /\ seen[s]) => user[x] \notin got[s]
      BY <2>3 DEF NlInv, Sent
    <3> QED
      BY <1>1, <1>2, <3>1, <3>2 DEF Sent
  <2> QED
    BY <2>4, <2>5, <2>6, <2>7, <2>8, <2>9, <2>10, <2>11, <2>12 DEF NlInv
<1> QED
  BY <1>4, <1>5 DEF NlInv, TypeOK

LEMMA NlFreeUsers ==
    ASSUME NlInv, FreeUsers
    PROVE  NlInv'
<1> USE Names
<1>1. /\ at["h"] = End /\ live' = live \ dellist /\ dellist' = {}
      /\ at' = [at EXCEPT !["h"] = Null]
      /\ sock' = [sock EXCEPT ![hclient] = "subscribed"] /\ hclient' = Null
      /\ UNCHANGED <<next, user, valid, seen, aud, got, new, rclient, released,
                     loaded, alone>>
  BY DEF FreeUsers
<1>2. /\ at'["h"] = Null /\ \A w \in Walker : w # "h" => at'[w] = at[w]
      /\ Reached(Null, next) = {}
  BY <1>1, Unfold DEF NlInv, TypeOK
<1>3. /\ new = Null /\ hclient \in Client /\ hclient \notin released \cup {rclient}
      /\ \E e \in Linked : user[e] = hclient /\ valid[e]
  BY <1>1 DEF NlInv, TypeOK, Command
<1>4. /\ sock'[hclient] = "subscribed"
      /\ \A d \in Client : d # hclient => sock'[d] = sock[d]
  BY <1>1, <1>3 DEF NlInv, TypeOK
<1>5. TypeOK'
  BY <1>1, <1>3 DEF NlInv, TypeOK
<1>6. Linear'
  BY <1>1 DEF NlInv, Linear
<1>7. Entries'
  BY <1>1, <1>3 DEF NlInv, Entries, ListSound
<1>8. NewEntry' /\ Command'
  BY <1>1, <1>2, <1>3 DEF NewEntry, Command
<1>9. Notifier'
  BY <1>1, <1>2, <1>3, <1>4 DEF NlInv, Notifier, TypeOK, Entries
<1>10. ClosedIsUnsubscribed'
  BY <1>1, <1>4 DEF NlInv, ClosedIsUnsubscribed, Entries
<1>11. Alone'
  BY <1>1, <1>3, <1>4 DEF NlInv, Alone, SubscriptionKept
<1>12. Sent'
  BY <1>1, <1>2 DEF NlInv, Sent
<1> QED
  BY <1>5, <1>6, <1>7, <1>8, <1>9, <1>10, <1>11, <1>12 DEF NlInv

LEMMA NlCloseSocket ==
    ASSUME NlInv, NEW c \in Client, CloseSocket(c)
    PROVE  NlInv'
<1> USE Names DEF listVars, walkVars, cmdVars
<1>1. /\ hclient # c /\ c \notin released \cup {rclient}
      /\ sock' = [sock EXCEPT ![c] = "closed"] /\ released' = released \cup {c}
      /\ UNCHANGED <<listVars, walkVars, cmdVars, rclient, loaded, alone>>
  BY DEF CloseSocket
<1>2. sock'[c] = "closed" /\ \A d \in Client : d # c => sock'[d] = sock[d]
  BY <1>1 DEF NlInv, TypeOK
<1>3. TypeOK'
  BY <1>1 DEF NlInv, TypeOK
<1>4. Linear' /\ Entries' /\ NewEntry' /\ Sent'
  BY <1>1 DEF NlInv, Linear, Entries, ListSound, NewEntry, Sent
<1>5. Command'
  BY <1>1, <1>2 DEF NlInv, Command, TypeOK
<1>6. Notifier'
  BY <1>1, <1>2 DEF NlInv, Notifier, TypeOK, Entries
<1>7. ClosedIsUnsubscribed'
  BY <1>1, <1>2 DEF NlInv, ClosedIsUnsubscribed, Entries
<1>8. Alone'
  BY <1>1, <1>2 DEF NlInv, Alone, SubscriptionKept
<1> QED
  BY <1>3, <1>4, <1>5, <1>6, <1>7, <1>8 DEF NlInv

LEMMA NlCloseOther ==
    ASSUME NlInv, NEW c \in Client, CloseOther(c)
    PROVE  NlInv'
<1> USE Names DEF listVars, walkVars, cmdVars
<1>1. /\ ~alone /\ hclient # c /\ released' = released \cup {c}
      /\ UNCHANGED <<listVars, walkVars, cmdVars, rclient, sock, loaded, alone>>
  BY DEF CloseOther
<1>2. TypeOK' /\ Linear' /\ Entries' /\ NewEntry' /\ Sent'
  BY <1>1 DEF NlInv, TypeOK, Linear, Entries, ListSound, NewEntry, Sent
<1>3. Command' /\ Notifier' /\ ClosedIsUnsubscribed' /\ Alone'
  BY <1>1 DEF NlInv, Command, Notifier, ClosedIsUnsubscribed, Alone
<1> QED
  BY <1>2, <1>3 DEF NlInv

LEMMA NlNotified ==
    ASSUME NlInv, NEW c \in Client, ldt_nl_release_notifier(c)
    PROVE  NlInv'
<1> USE Names DEF listVars, cmdVars
<1>1. /\ c \in released /\ at["r"] = Null
      /\ rclient' = c /\ released' = released \ {c}
      /\ at' = [at EXCEPT !["r"] = next[Head]]
      /\ UNCHANGED <<listVars, seen, aud, got, cmdVars, sock, loaded, alone>>
  BY DEF ldt_nl_release_notifier, Start
<1>2. /\ at'["r"] = next[Head] /\ \A w \in Walker : w # "r" => at'[w] = at[w]
      /\ next[Head] # Null /\ ~seen["r"] /\ rclient = Null
  BY <1>1 DEF NlInv, TypeOK, Sent, Notifier
<1>3. TypeOK'
  BY <1>1 DEF NlInv, TypeOK
<1>4. Linear' /\ Entries'
  BY <1>1 DEF NlInv, Linear, Entries, ListSound
<1>5. NewEntry' /\ Command'
  BY <1>1, <1>2 DEF NlInv, NewEntry, Command
<1>6. Notifier'
  BY <1>1, <1>2 DEF Notifier
<1>7. ClosedIsUnsubscribed'
  BY <1>1, <1>2 DEF NlInv, ClosedIsUnsubscribed, Entries
<1>8. Alone'
  BY <1>1 DEF NlInv, Alone, SubscriptionKept
<1>9. Sent'
  BY <1>1, <1>2 DEF NlInv, Sent
<1> QED
  BY <1>3, <1>4, <1>5, <1>6, <1>7, <1>8, <1>9 DEF NlInv

LEMMA NlRmuser ==
    ASSUME NlInv, ldt_nl_rmuser
    PROVE  NlInv'
<1> DEFINE e == at["r"]
<1> USE Names DEF cmdVars, sockVars
<1>1. /\ e \in Entry /\ ~seen["r"] /\ seen' = [seen EXCEPT !["r"] = TRUE]
      /\ valid' = IF user[e] = rclient THEN [valid EXCEPT ![e] = FALSE] ELSE valid
      /\ UNCHANGED <<next, user, live, dellist, at, aud, got, cmdVars, sockVars>>
  BY DEF ldt_nl_rmuser, Look
<1>2. /\ seen'["r"] /\ \A w \in Walker : w # "r" => seen'[w] = seen[w]
      /\ \A x \in Entry : valid'[x] <=> valid[x] /\ ~(x = e /\ user[e] = rclient)
  BY <1>1 DEF NlInv, TypeOK
<1>3. Reached(next[Head], next) \subseteq Entry /\ e \in Reached(e, next)
  BY <1>1, Least, Unfold
<1>4. TypeOK'
  BY <1>1 DEF NlInv, TypeOK
<1>5. Linear' /\ Sent'
  BY <1>1, <1>2 DEF NlInv, Linear, Sent
<1>6. Entries'
  BY <1>1, <1>2 DEF NlInv, TypeOK, Entries, ListSound
<1>7. NewEntry'
  BY <1>1, <1>2, <1>3 DEF NlInv, TypeOK, NewEntry
<1>8. Command'
  BY <1>1, <1>2, <1>3 DEF NlInv, Command
<1>9. Notifier'
  BY <1>1, <1>2, <1>3 DEF NlInv, Notifier
<1>10. ClosedIsUnsubscribed'
  BY <1>1, <1>2, <1>3 DEF NlInv, ClosedIsUnsubscribed
<1>11. Alone'
  BY <1>1, <1>2, <1>3 DEF NlInv, Alone, SubscriptionKept
<1> QED
  BY <1>4, <1>5, <1>6, <1>7, <1>8, <1>9, <1>10, <1>11 DEF NlInv

\* The walk is over: no valid entry of the client was left.
LEMMA NlReleaseDone ==
    ASSUME NlInv, ReleaseDone
    PROVE  NlInv'
<1> USE Names DEF listVars, cmdVars
<1>1. /\ at["r"] = End /\ at' = [at EXCEPT !["r"] = Null] /\ rclient' = Null
      /\ UNCHANGED <<listVars, seen, aud, got, cmdVars, released, sock, loaded, alone>>
  BY DEF ReleaseDone
<1>2. /\ at'["r"] = Null /\ \A w \in Walker : w # "r" => at'[w] = at[w]
      /\ Reached(Null, next) = {} /\ Reached(End, next) = {}
  BY <1>1, Unfold DEF NlInv, TypeOK
<1>3. TypeOK'
  BY <1>1 DEF NlInv, TypeOK
<1>4. Linear' /\ Entries'
  BY <1>1 DEF NlInv, Linear, Entries, ListSound
<1>5. NewEntry' /\ Command'
  BY <1>1, <1>2 DEF NlInv, NewEntry, Command
<1>6. Notifier'
  BY <1>1, <1>2 DEF NlInv, Notifier, Entries
<1>7. ClosedIsUnsubscribed'
  BY <1>1, <1>2 DEF NlInv, ClosedIsUnsubscribed, Notifier
<1>8. Alone'
  BY <1>1 DEF NlInv, Alone, SubscriptionKept
<1>9. Sent'
  BY <1>1, <1>2 DEF NlInv, Sent
<1> QED
  BY <1>3, <1>4, <1>5, <1>6, <1>7, <1>8, <1>9 DEF NlInv

LEMMA NlUnregister ==
    ASSUME NlInv, ldt_nl_unregister
    PROVE  NlInv' /\ Linked' = {}
<1> USE Names DEF walkVars, cmdVars
<1>1. /\ hclient = Null /\ at["r"] = Null /\ loaded' = FALSE /\ released' = {}
      /\ next' = [next EXCEPT ![Head] = End] /\ live' = {}
      /\ sock' = [c \in Client |-> "closed"]
      /\ UNCHANGED <<user, valid, dellist, walkVars, cmdVars, rclient, alone>>
  BY DEF ldt_nl_unregister
<1>2. next'[Head] = End
  BY <1>1 DEF NlInv, TypeOK
<1>3. Reached(next'[Head], next') = {}
  BY <1>2, Unfold
<1>4. new = Null /\ dellist = {} /\ at["h"] = Null /\ rclient = Null
  BY <1>1 DEF NlInv, Command, Notifier
<1>5. TypeOK'
  BY <1>1 DEF NlInv, TypeOK
<1>6. Linear' /\ Entries' /\ NewEntry' /\ Command'
  BY <1>1, <1>3, <1>4 DEF Linear, Entries, ListSound, NewEntry, Command
<1>7. Notifier' /\ ClosedIsUnsubscribed'
  BY <1>1, <1>3, <1>4 DEF Notifier, ClosedIsUnsubscribed
<1>8. Alone'
  BY <1>1, <1>3 DEF Alone, SubscriptionKept
<1>9. Sent'
  BY <1>1, <1>3 DEF NlInv, Sent
<1> QED
  BY <1>3, <1>5, <1>6, <1>7, <1>8, <1>9 DEF NlInv

\* One step of the module, of its clients or of its senders.
LEMMA NlStep == NlInv /\ [Next]_vars => NlInv'
<1> SUFFICES ASSUME NlInv, [Next]_vars PROVE NlInv'
  OBVIOUS
<1>1. CASE UNCHANGED vars
  BY <1>1, NlOther
<1>2. ASSUME NEW w \in Walker, ~Corrupt, Walk(w) PROVE NlInv'
  BY <1>2, NlAdvance, NlDoSend, NlSendDone, NlAddUser, NlCollect, NlFreeUsers,
     NlRmuser, NlReleaseDone DEF Walk
<1>3. ASSUME NEW s \in Sender, NEW A \in {NetA, NetB, Client}, ldt_nl_send_event(s, A)
      PROVE  NlInv'
  <2>1. A \in SUBSET Client
    BY DEF Client
  <2> QED
    BY <1>3, <2>1, NlSendEvent
<1>4. ASSUME NEW c \in Client, ~Corrupt, ldt_nl_subscribe(c) PROVE NlInv'
  BY <1>4, NlSubscribe
<1>5. ASSUME NEW c \in Client, CloseSocket(c) PROVE NlInv'
  BY <1>5, NlCloseSocket
<1>6. ASSUME NEW c \in Client, CloseOther(c) PROVE NlInv'
  BY <1>6, NlCloseOther
<1>7. ASSUME NEW c \in Client, ldt_nl_release_notifier(c) PROVE NlInv'
  BY <1>7, NlNotified
<1>8. CASE ldt_nl_unregister
  BY <1>8, NlUnregister
<1> QED
  BY <1>1, <1>2, <1>3, <1>4, <1>5, <1>6, <1>7, <1>8 DEF Next

\* For every number of clients, entries and senders: the entries are those the
\* list and the command that runs know, a client is not subscribed once the
\* notifier has run for its closed socket, and if no other family closes
\* sockets, who has its answer is subscribed.
THEOREM SubscriptionsTrue == Spec => []SubscriptionTrue
<1>1. NlInv => SubscriptionTrue
  BY DEF NlInv, Entries, Alone, SubscriptionTrue
<1> QED
  BY <1>1, NlBegins, NlStep, PTL DEF Spec

-----------------------------------------------------------------------------
(* The event service.  A step that changes the list is, for the clients,   *)
(* one of them subscribing or unsubscribing, or nothing; a step of a       *)
(* sender is the delivery of its event to one client, or nothing.          *)

Subs == {user[e] : e \in {x \in Linked : valid[x]}}
Busy == {s \in Sender : at[s] # Null}
Flight ==
    [s \in Sender |-> aud[s] \cap {user[e] : e \in {x \in Ahead(at[s]) \cap live :
                         valid[x] /\ ~(x = at[s] /\ seen[s])}}]

\* An event is still to be given to the user of x.
Waits(s, x) ==
    /\ valid[x] /\ x \in Reached(at[s], next)
    /\ ~(x = at[s] /\ seen[s])

FlightFact ==
    \A s \in Sender : \A c :
        c \in Flight[s] <=> c \in aud[s] /\ \E x \in Linked : user[x] = c /\ Waits(s, x)

SubsFact ==
    \A c : c \in Subs <=> \E x \in Linked : valid[x] /\ user[x] = c

LEMMA FlightNow == NlInv => FlightFact /\ SubsFact
<1> SUFFICES ASSUME NlInv PROVE FlightFact /\ SubsFact
  OBVIOUS
<1>1. SubsFact
  BY DEF SubsFact, Subs
<1>2. ASSUME NEW s \in Sender, NEW c
      PROVE  c \in Flight[s] <=>
                c \in aud[s] /\ \E x \in Linked : user[x] = c /\ Waits(s, x)
  <2>1. c \in Flight[s] <=> c \in aud[s] /\ \E x \in Ahead(at[s]) \cap live :
           user[x] = c /\ valid[x] /\ ~(x = at[s] /\ seen[s])
    BY DEF Flight
  <2>2. s \in Walker /\ Linked \subseteq live
    BY Names DEF NlInv, Entries, ListSound
  <2>3. \A x \in Ahead(at[s]) \cap live : valid[x] => x \in Linked
    BY <2>2, ValidAhead
  <2> QED
    BY <2>1, <2>2, <2>3 DEF Waits
<1> QED
  BY <1>1, <1>2 DEF FlightFact

\* The same after a step.
LEMMA FlightNext == NlInv' => FlightFact' /\ SubsFact'
  BY FlightNow, PTL

LEMMA FlightIs ==
    ASSUME NEW f, f = [s \in Sender |-> f[s]],
           \A s \in Sender : \A c : c \in Flight'[s] <=> c \in f[s]
    PROVE  Flight' = f
<1>1. ASSUME NEW s \in Sender PROVE Flight'[s] = f[s]
  BY <1>1
<1>2. Flight' = [s \in Sender |-> Flight'[s]]
  BY DEF Flight
<1> QED
  BY <1>1, <1>2

LEMMA BusStutters ==
    ASSUME Subs' = Subs, Flight' = Flight, Busy' = Busy, UNCHANGED <<aud, got>>
    PROVE  UNCHANGED Bus!vars
  BY DEF Bus!vars, Subs, Flight, Busy

LEMMA BusSubscribes ==
    ASSUME NEW c \in Client, Subs' = Subs \cup {c},
           NEW late \in SUBSET {s \in Busy : c \in aud[s] \ got[s]},
           Flight' = [s \in Sender |-> Flight[s] \cup (IF s \in late THEN {c} ELSE {})],
           Busy' = Busy, UNCHANGED <<aud, got>>
    PROVE  Bus!Next
  BY DEF Bus!Next, Bus!Subscribe, Subs, Flight, Busy

LEMMA BusUnsubscribes ==
    ASSUME NEW C \in SUBSET Client, Subs' = Subs \ C,
           Flight' = [s \in Sender |-> Flight[s] \ C],
           Busy' = Busy, UNCHANGED <<aud, got>>
    PROVE  Bus!Next
  BY DEF Bus!Next, Bus!Unsubscribe, Subs, Flight, Busy

LEMMA BusPublishes ==
    ASSUME NEW s \in Sender, NEW A \in SUBSET Client, s \notin Busy,
           Busy' = Busy \cup {s}, aud' = [aud EXCEPT ![s] = A],
           Flight' = [Flight EXCEPT ![s] = Subs \cap A],
           got' = [got EXCEPT ![s] = {}], Subs' = Subs
    PROVE  Bus!Next
  BY DEF Bus!Next, Bus!Publish, Subs, Flight, Busy

LEMMA BusDelivers ==
    ASSUME NEW s \in Sender, NEW c \in Client, c \in Flight[s], c \notin got[s],
           Flight' = [Flight EXCEPT ![s] = @ \ {c}],
           got' = [got EXCEPT ![s] = @ \cup {c}],
           Subs' = Subs, Busy' = Busy, aud' = aud
    PROVE  Bus!Next
  BY DEF Bus!Next, Bus!Deliver, Subs, Flight, Busy

LEMMA BusCompletes ==
    ASSUME NEW s \in Sender, s \in Busy, Flight[s] = {}, Busy' = Busy \ {s},
           Flight' = Flight, Subs' = Subs, UNCHANGED <<aud, got>>
    PROVE  Bus!Next
  BY DEF Bus!Next, Bus!Complete, Subs, Flight, Busy


\* A step that leaves the valid entries, and those of them that are ahead of
\* a sender, is none for the clients.
LEMMA BusKept ==
    ASSUME NlInv, NlInv',
           \A x : (x \in Linked /\ valid[x]) <=> (x \in Linked' /\ valid'[x]),
           \A x \in Linked : valid[x] => user'[x] = user[x],
           \A s \in Sender : \A x \in Linked : valid[x] => (Waits(s, x)' <=> Waits(s, x)),
           \A s \in Sender : at'[s] = Null <=> at[s] = Null,
           UNCHANGED <<aud, got>>
    PROVE  UNCHANGED Bus!vars
<1>1. FlightFact /\ SubsFact /\ FlightFact' /\ SubsFact'
  BY FlightNow, FlightNext
<1>2. Busy' = Busy
  BY DEF Busy
<1>3. Subs' = Subs
  <2>1. \A c : c \in Subs' <=> c \in Subs
    BY <1>1 DEF SubsFact
  <2> QED
    BY <2>1
<1>4. \A s \in Sender : \A x : Waits(s, x) => valid[x]
  BY DEF Waits
<1>5. \A s \in Sender : \A x : Waits(s, x)' => valid'[x]
  BY DEF Waits
<1>6. ASSUME NEW s \in Sender, NEW c PROVE c \in Flight'[s] <=> c \in Flight[s]
  <2>1. (\E x \in Linked' : user'[x] = c /\ Waits(s, x)')
           <=> \E x \in Linked : user[x] = c /\ Waits(s, x)
    BY <1>4, <1>5
  <2> QED
    BY <1>1, <2>1 DEF FlightFact
<1>7. Flight' = Flight
  <2>1. Flight = [s \in Sender |-> Flight[s]]
    BY DEF Flight
  <2> QED
    BY <1>6, <2>1, FlightIs
<1> QED
  BY <1>2, <1>3, <1>7, BusStutters

LEMMA BusAdvance ==
    ASSUME NlInv, NlInv', NEW w \in Walker, Advance(w)
    PROVE  UNCHANGED Bus!vars
<1> DEFINE e == at[w]
<1>1. /\ e \in Entry /\ seen[w]
      /\ at' = [at EXCEPT ![w] = next[e]] /\ seen' = [seen EXCEPT ![w] = FALSE]
      /\ UNCHANGED <<next, user, valid, aud, got>>
  BY DEF Advance, listVars
<1>2. Reached(e, next) = {e} \cup Reached(next[e], next)
  BY <1>1, Unfold
<1>3. next[e] # Null /\ e # Null
  BY <1>1, Names DEF NlInv, TypeOK
<1>4. /\ at'[w] = next[e] /\ ~seen'[w]
      /\ \A v \in Walker : v # w => at'[v] = at[v] /\ seen'[v] = seen[v]
  BY <1>1 DEF NlInv, TypeOK
<1>5. ASSUME NEW s \in Sender, NEW x \in Linked PROVE Waits(s, x)' <=> Waits(s, x)
  <2>1. CASE s = w
    <3>1. x = e => x \notin Reached(next[e], next)
      BY Acyclic DEF NlInv, Linear
    <3> QED
      BY <1>1, <1>2, <1>4, <2>1, <3>1 DEF Waits
  <2>2. CASE s # w
    BY <1>1, <1>4, <2>2, Names DEF Waits
  <2> QED
    BY <2>1, <2>2
<1>6. \A s \in Sender : at'[s] = Null <=> at[s] = Null
  BY <1>3, <1>4, Names
<1>7. Linked' = Linked
  BY <1>1
<1> QED
  BY <1>1, <1>5, <1>6, <1>7, BusKept

\* The event is meant for the valid entries: they are the subscribers.
LEMMA BusSend ==
    ASSUME NlInv, NlInv', NEW s \in Sender, NEW A \in SUBSET Client,
           ldt_nl_send_event(s, A)
    PROVE  Bus!Next
<1>1. /\ at[s] = Null /\ at' = [at EXCEPT ![s] = next[Head]]
      /\ aud' = [aud EXCEPT ![s] = A] /\ got' = [got EXCEPT ![s] = {}]
      /\ UNCHANGED <<next, user, valid, seen>>
  BY DEF ldt_nl_send_event, Start, listVars
<1>2. /\ at'[s] = next[Head] /\ \A v \in Walker : v # s => at'[v] = at[v]
      /\ ~seen[s] /\ next[Head] # Null /\ aud'[s] = A
      /\ \A r \in Sender : r # s => aud'[r] = aud[r]
  BY <1>1, Names DEF NlInv, TypeOK, Sent
<1>3. FlightFact /\ SubsFact /\ FlightFact' /\ SubsFact'
  BY FlightNow, FlightNext
<1>4. Linked' = Linked
  BY <1>1
<1>5. Subs' = Subs
  <2>1. \A c : c \in Subs' <=> c \in Subs
    BY <1>1, <1>3, <1>4 DEF SubsFact
  <2> QED
    BY <2>1
<1>6. s \notin Busy /\ Busy' = Busy \cup {s}
  BY <1>1, <1>2, Names DEF Busy
<1> DEFINE f == [Flight EXCEPT ![s] = Subs \cap A]
<1>7. DOMAIN Flight = Sender /\ f = [r \in Sender |-> f[r]]
  BY DEF Flight
<1>8. ASSUME NEW r \in Sender, NEW c PROVE c \in Flight'[r] <=> c \in f[r]
  <2>1. CASE r = s
    <3>1. \A x \in Linked : Waits(s, x)' <=> valid[x]
      BY <1>1, <1>2, <1>4 DEF Waits
    <3>2. c \in Flight'[s] <=> c \in A /\ c \in Subs
      BY <1>1, <1>2, <1>3, <1>4, <3>1 DEF FlightFact, SubsFact
    <3>3. f[s] = Subs \cap A
      BY <1>7
    <3> QED
      BY <2>1, <3>2, <3>3
  <2>2. CASE r # s
    <3>1. \A x \in Linked : Waits(r, x)' <=> Waits(r, x)
      BY <1>1, <1>2, <1>4, <2>2, Names DEF Waits
    <3>2. c \in Flight'[r] <=> c \in Flight[r]
      BY <1>1, <1>2, <1>3, <1>4, <2>2, <3>1 DEF FlightFact
    <3>3. f[r] = Flight[r]
      BY <1>7, <2>2
    <3> QED
      BY <3>2, <3>3
  <2> QED
    BY <2>1, <2>2
<1>9. Flight' = f
  BY <1>7, <1>8, FlightIs
<1> QED
  BY <1>1, <1>5, <1>6, <1>9, BusPublishes

\* A look at a valid entry of the audience is the delivery; its user had not
\* got the event before, and has no second entry.
LEMMA BusDoSend ==
    ASSUME NlInv, NlInv', ~Corrupt, NEW s \in Sender, do_send_event(s)
    PROVE  Bus!Next \/ UNCHANGED Bus!vars
<1> DEFINE e == at[s]
           c == user[e]
<1>1. /\ e \in Entry /\ ~seen[s] /\ seen' = [seen EXCEPT ![s] = TRUE]
      /\ got' = [got EXCEPT ![s] = @ \cup
           (IF valid[e] /\ c \in aud[s] THEN {c} ELSE {})]
      /\ UNCHANGED <<next, user, valid, at, aud>>
  BY DEF do_send_event, Look, listVars
<1>2. seen'[s] /\ \A v \in Walker : v # s => seen'[v] = seen[v]
  BY <1>1, Names DEF NlInv, TypeOK
<1>3. Linked' = Linked
  BY <1>1
<1>4. e \in Reached(e, next) /\ e \in live
  BY <1>1, Unfold, Names DEF Corrupt
<1>5. valid[e] => e \in Linked
  BY <1>4, Names, ValidAhead
<1>6. \A r \in Sender : \A x \in Linked :
         Waits(r, x)' <=> Waits(r, x) /\ ~(r = s /\ x = e)
  <2>1. ASSUME NEW r \in Sender, NEW x \in Linked
        PROVE  Waits(r, x)' <=> Waits(r, x) /\ ~(r = s /\ x = e)
    BY <1>1, <1>2, Names DEF Waits
  <2> QED
    BY <2>1
<1>7. CASE valid[e] /\ c \in aud[s]
  <2>1. Waits(s, e) /\ e \in Linked
    BY <1>1, <1>4, <1>5, <1>7 DEF Waits
  <2>2. c \in Client /\ c \notin got[s]
    BY <1>1, <1>4, <2>1 DEF NlInv, Sent, Entries
  <2>3. FlightFact /\ SubsFact /\ FlightFact' /\ SubsFact'
    BY FlightNow, FlightNext
  <2>4. c \in Flight[s]
    BY <1>7, <2>1, <2>3 DEF FlightFact
  <2>5. Busy' = Busy
    BY <1>1 DEF Busy
  <2>6. Subs' = Subs
    <3>1. \A d : d \in Subs' <=> d \in Subs
      BY <1>1, <1>3, <2>3 DEF SubsFact
    <3> QED
      BY <3>1
  <2> DEFINE f == [Flight EXCEPT ![s] = @ \ {c}]
  <2>7. DOMAIN Flight = Sender /\ f = [r \in Sender |-> f[r]]
    BY DEF Flight
  <2>8. ASSUME NEW r \in Sender, NEW d PROVE d \in Flight'[r] <=> d \in f[r]
    <3>1. CASE r = s
      <4>1. \A x \in Linked : user[x] = c => x = e
        BY <2>1 DEF NlInv, Entries, ListSound
      <4>2. d \in Flight'[s] <=> d \in Flight[s] /\ d # c
        BY <1>1, <1>3, <1>6, <2>3, <4>1 DEF FlightFact
      <4>3. f[s] = Flight[s] \ {c}
        BY <2>7
      <4> QED
        BY <3>1, <4>2, <4>3
    <3>2. CASE r # s
      <4>1. d \in Flight'[r] <=> d \in Flight[r]
        BY <1>1, <1>3, <1>6, <2>3, <3>2 DEF FlightFact
      <4>2. f[r] = Flight[r]
        BY <2>7, <3>2
      <4> QED
        BY <4>1, <4>2
    <3> QED
      BY <3>1, <3>2
  <2>9. Flight' = f
    BY <2>7, <2>8, FlightIs
  <2>10. got' = [got EXCEPT ![s] = @ \cup {c}]
    BY <1>1, <1>7
  <2> QED
    BY <1>1, <2>2, <2>4, <2>5, <2>6, <2>9, <2>10, BusDelivers
<1>8. CASE ~(valid[e] /\ c \in aud[s])
  <2>1. got' = got
    BY <1>1, <1>8 DEF NlInv, TypeOK
  <2>2. FlightFact /\ SubsFact /\ FlightFact' /\ SubsFact'
    BY FlightNow, FlightNext
  <2>3. Busy' = Busy
    BY <1>1 DEF Busy
  <2>4. Subs' = Subs
    <3>1. \A d : d \in Subs' <=> d \in Subs
      BY <1>1, <1>3, <2>2 DEF SubsFact
    <3> QED
      BY <3>1
  <2>5. ASSUME NEW r \in Sender, NEW d PROVE d \in Flight'[r] <=> d \in Flight[r]
    <3>1. \A x \in Linked : r = s /\ x = e /\ Waits(r, x) => user[x] \notin aud[r]
      BY <1>8 DEF Waits
    <3> QED
      BY <1>1, <1>3, <1>6, <2>2, <3>1 DEF FlightFact
  <2>6. Flight = [r \in Sender |-> Flight[r]]
    BY DEF Flight
  <2>7. Flight' = Flight
    BY <2>5, <2>6, FlightIs
  <2> QED
    BY <1>1, <2>1, <2>3, <2>4, <2>7, BusStutters
<1> QED
  BY <1>7, <1>8

\* At the end of the list nobody is left.
LEMMA BusSendDone ==
    ASSUME NlInv, NlInv', NEW s \in Sender, SendDone(s)
    PROVE  Bus!Next
<1>1. /\ at[s] = End /\ at' = [at EXCEPT ![s] = Null]
      /\ UNCHANGED <<next, user, valid, seen, aud, got>>
  BY DEF SendDone, listVars
<1>2. /\ at'[s] = Null /\ \A v \in Walker : v # s => at'[v] = at[v]
      /\ Reached(Null, next) = {} /\ Reached(End, next) = {}
  BY <1>1, Unfold, Names DEF NlInv, TypeOK
<1>3. FlightFact /\ SubsFact /\ FlightFact' /\ SubsFact'
  BY FlightNow, FlightNext
<1>4. Linked' = Linked
  BY <1>1
<1>5. Subs' = Subs
  <2>1. \A c : c \in Subs' <=> c \in Subs
    BY <1>1, <1>3, <1>4 DEF SubsFact
  <2> QED
    BY <2>1
<1>6. s \in Busy /\ Busy' = Busy \ {s}
  BY <1>1, <1>2, Names DEF Busy
<1>7. ASSUME NEW r \in Sender, NEW x \in Linked
      PROVE  (Waits(r, x)' <=> Waits(r, x)) /\ ~Waits(s, x)
  BY <1>1, <1>2, Names DEF Waits
<1>8. Flight[s] = {}
  <2>1. \A c : c \notin Flight[s]
    BY <1>3, <1>7 DEF FlightFact
  <2> QED
    BY <2>1
<1>9. Flight' = Flight
  <2>1. Flight = [r \in Sender |-> Flight[r]]
    BY DEF Flight
  <2>2. ASSUME NEW r \in Sender, NEW c PROVE c \in Flight'[r] <=> c \in Flight[r]
    BY <1>1, <1>3, <1>4, <1>7 DEF FlightFact
  <2> QED
    BY <2>1, <2>2, FlightIs
<1> QED
  BY <1>1, <1>5, <1>6, <1>8, <1>9, BusCompletes


\* ldt_nl_subscribe finds the user in the list: the events that are under way
\* and have its entry ahead of them may still be for it.
LEMMA BusRevalidate ==
    ASSUME NlInv, NlInv', NEW c \in Client,
           NEW mine, mine = {e \in Linked : user[e] = c}, mine # {},
           valid' = [e \in Entry |-> e \in mine \/ valid[e]],
           UNCHANGED <<next, user, at, seen, aud, got>>
    PROVE  Bus!Next
<1>1. Linked \subseteq Entry
  BY Least
<1>2. \A x \in Linked : valid'[x] <=> (user[x] = c \/ valid[x])
  BY <1>1 DEF NlInv, TypeOK
<1>3. FlightFact /\ SubsFact /\ FlightFact' /\ SubsFact'
  BY FlightNow, FlightNext
<1>4. Linked' = Linked /\ Busy' = Busy
  BY DEF Busy
<1>5. Subs' = Subs \cup {c}
  <2>1. \A d : d \in Subs' <=> d \in Subs \/ d = c
    BY <1>2, <1>3, <1>4 DEF SubsFact
  <2> QED
    BY <2>1
<1>6. PICK late : late = {s \in Busy : c \in Flight'[s]}
  OBVIOUS
<1>7. ASSUME NEW s \in late PROVE s \in Busy /\ c \in aud[s] \ got[s]
  <2>1. s \in Sender /\ s \in Busy /\ c \in Flight'[s]
    BY <1>6, <1>7 DEF Busy
  <2>2. PICK x \in Linked : user[x] = c /\ Waits(s, x)'
    BY <1>3, <1>4, <2>1 DEF FlightFact
  <2>3. c \notin got[s]
    BY <1>4, <2>1, <2>2 DEF NlInv, Sent, Waits
  <2> QED
    BY <1>3, <2>1, <2>3 DEF FlightFact
<1>8. \A s \in Sender : \A x \in Linked :
         Waits(s, x)' <=> Waits(s, x) \/ (user[x] = c /\ Waits(s, x)')
  <2>1. ASSUME NEW s \in Sender, NEW x \in Linked
        PROVE  Waits(s, x)' <=> Waits(s, x) \/ (user[x] = c /\ Waits(s, x)')
    BY <1>2 DEF Waits
  <2> QED
    BY <2>1
<1> DEFINE f == [s \in Sender |-> Flight[s] \cup (IF s \in late THEN {c} ELSE {})]
<1>9. ASSUME NEW s \in Sender, NEW d PROVE d \in Flight'[s] <=> d \in f[s]
  <2>1. CASE d # c
    <3>1. d \in Flight'[s] <=> d \in Flight[s]
      BY <1>3, <1>4, <1>8, <2>1 DEF FlightFact
    <3> QED
      BY <2>1, <3>1
  <2>2. CASE d = c
    <3>1. c \in Flight[s] => c \in Flight'[s]
      BY <1>3, <1>4, <1>8 DEF FlightFact
    <3>2. c \in Flight'[s] => s \in Busy
      <4>1. Reached(Null, next) = {}
        BY Unfold, Names
      <4> QED
        BY <1>3, <4>1 DEF FlightFact, Waits, Busy
    <3>3. c \in f[s] <=> c \in Flight[s] \/ s \in late
      OBVIOUS
    <3> QED
      BY <1>6, <2>2, <3>1, <3>2, <3>3
  <2> QED
    BY <2>1, <2>2
<1>10. f = [s \in Sender |-> f[s]]
  OBVIOUS
<1>11. Flight' = f
  BY <1>9, <1>10, FlightIs
<1>12. late \in SUBSET {s \in Busy : c \in aud[s] \ got[s]}
  BY <1>7
<1> QED
  BY <1>4, <1>5, <1>11, <1>12, BusSubscribes

LEMMA BusSubscribe ==
    ASSUME NlInv, NlInv', NEW c \in Client, ldt_nl_subscribe(c)
    PROVE  Bus!Next \/ UNCHANGED Bus!vars
<1> DEFINE mine == {e \in Linked : user[e] = c}
<1>1. UNCHANGED <<at, seen, aud, got>>
  BY DEF ldt_nl_subscribe, walkVars
<1>2. CASE /\ mine # {}
           /\ valid' = [e \in Entry |-> e \in mine \/ valid[e]]
           /\ UNCHANGED <<next, user>>
  BY <1>1, <1>2, BusRevalidate
<1>3. CASE \E e \in Alloc :
              /\ user' = [user EXCEPT ![e] = c]
              /\ valid' = [valid EXCEPT ![e] = TRUE]
              /\ UNCHANGED next
  <2>1. PICK e \in Alloc : /\ user' = [user EXCEPT ![e] = c]
                           /\ valid' = [valid EXCEPT ![e] = TRUE]
                           /\ UNCHANGED next
    BY <1>3
  <2>2. e \in Entry /\ e \notin live
    BY AllocFree DEF NlInv, TypeOK
  <2>3. Linked \subseteq Entry /\ e \notin Linked /\ Linked' = Linked
    BY <2>1, <2>2, Least DEF NlInv, Entries, ListSound
  <2>4. \A x \in Linked : user'[x] = user[x] /\ valid'[x] = valid[x]
    BY <2>1, <2>3 DEF NlInv, TypeOK
  <2>5. \A s \in Sender : \A x \in Linked : Waits(s, x)' <=> Waits(s, x)
    BY <1>1, <2>1, <2>4 DEF Waits
  <2> QED
    BY <1>1, <2>3, <2>4, <2>5, BusKept
<1>4. CASE UNCHANGED listVars
  <2>1. Linked' = Linked /\ UNCHANGED <<user, valid>>
    BY <1>4 DEF listVars
  <2>2. \A s \in Sender : \A x \in Linked : Waits(s, x)' <=> Waits(s, x)
    BY <1>1, <1>4 DEF Waits, listVars
  <2> QED
    BY <1>1, <2>1, <2>2, BusKept
<1> QED
  BY <1>2, <1>3, <1>4 DEF ldt_nl_subscribe

\* A new subscriber is ahead of no sender.
LEMMA BusAddUser ==
    ASSUME NlInv, NlInv', AddUser
    PROVE  Bus!Next
<1>1. /\ new # Null /\ at' = [at EXCEPT !["h"] = new]
      /\ UNCHANGED <<user, valid, seen, aud, got>>
  BY DEF AddUser
<1>2. /\ Linked' = Linked \cup {new}
      /\ \A w \in Walker : Reached(at[w], next') = Ahead(at[w])
  BY AddFacts
<1>3. /\ valid[new] /\ user[new] = hclient /\ hclient \in Client
      /\ \A w \in Walker : new \notin Ahead(at[w])
  BY <1>1, Names DEF NlInv, TypeOK, NewEntry, Command
<1>4. \A s \in Sender : at'[s] = at[s]
  BY <1>1, Names DEF NlInv, TypeOK
<1>5. FlightFact /\ SubsFact /\ FlightFact' /\ SubsFact'
  BY FlightNow, FlightNext
<1>6. Busy' = Busy
  BY <1>4 DEF Busy
<1>7. Subs' = Subs \cup {hclient}
  <2>1. \A d : d \in Subs' <=> d \in Subs \/ d = hclient
    BY <1>1, <1>2, <1>3, <1>5 DEF SubsFact
  <2> QED
    BY <2>1
<1>8. ASSUME NEW s \in Sender, NEW x
      PROVE  x \in Linked' /\ Waits(s, x)' <=> x \in Linked /\ Waits(s, x)
  BY <1>1, <1>2, <1>3, <1>4, Names DEF Waits
<1> DEFINE f == [s \in Sender |-> Flight[s] \cup (IF s \in {} THEN {hclient} ELSE {})]
<1>9. ASSUME NEW s \in Sender, NEW d PROVE d \in Flight'[s] <=> d \in f[s]
  <2>1. d \in Flight'[s] <=> d \in Flight[s]
    BY <1>1, <1>5, <1>8 DEF FlightFact
  <2> QED
    BY <2>1
<1>10. f = [s \in Sender |-> f[s]]
  OBVIOUS
<1>11. Flight' = f
  BY <1>9, <1>10, FlightIs
<1>12. {} \in SUBSET {s \in Busy : hclient \in aud[s] \ got[s]}
  OBVIOUS
<1> QED
  BY <1>1, <1>3, <1>6, <1>7, <1>11, <1>12, BusSubscribes

\* An entry that is taken out of the list was nobody's subscription, and a
\* sender that stands on it still meets all others.
LEMMA BusCollect ==
    ASSUME NlInv, NlInv', Collect
    PROVE  UNCHANGED Bus!vars
<1> DEFINE e == at["h"]
<1>1. /\ e \in Entry /\ seen' = [seen EXCEPT !["h"] = TRUE]
      /\ UNCHANGED <<user, valid, at, aud, got>>
  BY DEF Collect, Look
<1>2. \A s \in Sender : seen'[s] = seen[s]
  BY <1>1, Names DEF NlInv, TypeOK
<1>3. CASE valid[e]
  <2>1. next' = next /\ Linked' = Linked
    BY <1>3 DEF Collect
  <2>2. \A s \in Sender : \A x \in Linked : Waits(s, x)' <=> Waits(s, x)
    BY <1>1, <1>2, <2>1 DEF Waits
  <2> QED
    BY <1>1, <2>1, <2>2, BusKept
<1>4. CASE ~valid[e]
  <2>1. PICK p \in Linked \cup {Head} : next[p] = e /\ next' = [next EXCEPT ![p] = next[e]]
    BY <1>4 DEF Collect
  <2>2. /\ Linked' = Linked \ {e}
        /\ \A a : /\ Reached(a, next') \subseteq Reached(a, next)
                  /\ Reached(a, next) \ {e} \subseteq Reached(a, next')
    BY <1>1, <2>1, DelFacts
  <2>3. \A s \in Sender : \A x \in Linked : valid[x] => (Waits(s, x)' <=> Waits(s, x))
    BY <1>1, <1>2, <1>4, <2>2 DEF Waits
  <2>4. \A x : (x \in Linked /\ valid[x]) <=> (x \in Linked' /\ valid'[x])
    BY <1>1, <1>4, <2>2
  <2> QED
    BY <1>1, <2>3, <2>4, BusKept
<1> QED
  BY <1>3, <1>4

\* ldt_nl_rmuser ends the subscription of its client, in one step, also for
\* the events that are under way.
LEMMA BusRmuser ==
    ASSUME NlInv, NlInv', ldt_nl_rmuser
    PROVE  Bus!Next \/ UNCHANGED Bus!vars
<1> DEFINE e == at["r"]
<1>1. /\ e \in Entry /\ seen' = [seen EXCEPT !["r"] = TRUE]
      /\ valid' = IF user[e] = rclient THEN [valid EXCEPT ![e] = FALSE] ELSE valid
      /\ UNCHANGED <<next, user, at, aud, got>>
  BY DEF ldt_nl_rmuser, Look
<1>2. /\ \A s \in Sender : seen'[s] = seen[s]
      /\ \A x \in Entry : valid'[x] <=> valid[x] /\ ~(x = e /\ user[e] = rclient)
  BY <1>1, Names DEF NlInv, TypeOK
<1>3. Linked \subseteq Entry /\ Linked' = Linked
  BY <1>1, Least
<1>4. CASE user[e] = rclient /\ e \in Linked
  <2>1. rclient \in Client /\ \A x \in Linked : user[x] = rclient => x = e
    BY <1>4 DEF NlInv, Entries, ListSound
  <2>2. FlightFact /\ SubsFact /\ FlightFact' /\ SubsFact'
    BY FlightNow, FlightNext
  <2>3. Busy' = Busy
    BY <1>1 DEF Busy
  <2>4. \A x \in Linked : valid'[x] <=> valid[x] /\ user[x] # rclient
    BY <1>2, <1>3, <1>4, <2>1
  <2>5. Subs' = Subs \ {rclient}
    <3>1. \A d : d \in Subs' <=> d \in Subs /\ d # rclient
      BY <1>1, <1>3, <2>2, <2>4 DEF SubsFact
    <3> QED
      BY <3>1
  <2>6. \A s \in Sender : \A x \in Linked :
           Waits(s, x)' <=> Waits(s, x) /\ user[x] # rclient
    BY <1>1, <1>2, <2>4 DEF Waits
  <2> DEFINE f == [s \in Sender |-> Flight[s] \ {rclient}]
  <2>7. ASSUME NEW s \in Sender, NEW d PROVE d \in Flight'[s] <=> d \in f[s]
    <3>1. d \in Flight'[s] <=> d \in Flight[s] /\ d # rclient
      BY <1>1, <1>3, <2>2, <2>6 DEF FlightFact
    <3> QED
      BY <3>1
  <2>8. f = [s \in Sender |-> f[s]]
    OBVIOUS
  <2>9. Flight' = f
    BY <2>7, <2>8, FlightIs
  <2>10. {rclient} \in SUBSET Client
    BY <2>1
  <2> QED
    BY <1>1, <2>3, <2>5, <2>9, <2>10, BusUnsubscribes
<1>5. CASE ~(user[e] = rclient /\ e \in Linked)
  <2>1. \A x \in Linked : valid'[x] <=> valid[x]
    BY <1>2, <1>3, <1>5
  <2>2. \A s \in Sender : \A x \in Linked : Waits(s, x)' <=> Waits(s, x)
    BY <1>1, <1>2, <2>1 DEF Waits
  <2> QED
    BY <1>1, <1>3, <2>1, <2>2, BusKept
<1> QED
  BY <1>4, <1>5

\* With the module go all subscriptions.
LEMMA BusUnregister ==
    ASSUME NlInv, NlInv', ldt_nl_unregister
    PROVE  Bus!Next
<1>1. UNCHANGED <<at, aud, got>>
  BY DEF ldt_nl_unregister, walkVars
<1>2. Linked' = {}
  BY NlUnregister
<1>3. FlightFact /\ SubsFact /\ FlightFact' /\ SubsFact'
  BY FlightNow, FlightNext
<1>4. Busy' = Busy
  BY <1>1 DEF Busy
<1>5. Subs' = Subs \ Client
  <2>1. \A d : d \notin Subs'
    BY <1>2, <1>3 DEF SubsFact
  <2>2. \A d \in Subs : d \in Client
    BY <1>3 DEF SubsFact, NlInv, Entries
  <2> QED
    BY <2>1, <2>2
<1> DEFINE f == [s \in Sender |-> Flight[s] \ Client]
<1>6. ASSUME NEW s \in Sender, NEW d PROVE d \in Flight'[s] <=> d \in f[s]
  <2>1. d \notin Flight'[s]
    BY <1>2, <1>3 DEF FlightFact
  <2>2. d \in Flight[s] => d \in Client
    BY <1>3 DEF FlightFact, NlInv, TypeOK
  <2> QED
    BY <2>1, <2>2
<1>7. f = [s \in Sender |-> f[s]]
  OBVIOUS
<1>8. Flight' = f
  BY <1>6, <1>7, FlightIs
<1> QED
  BY <1>1, <1>4, <1>5, <1>8, BusUnsubscribes

\* A step that leaves the list, and where senders are.
LEMMA BusQuiet ==
    ASSUME NlInv, NlInv', UNCHANGED <<next, user, valid, seen, aud, got>>,
           \A s \in Sender : at'[s] = at[s]
    PROVE  UNCHANGED Bus!vars
<1>1. Linked' = Linked
  OBVIOUS
<1>2. \A s \in Sender : \A x \in Linked : Waits(s, x)' <=> Waits(s, x)
  BY DEF Waits
<1> QED
  BY <1>1, <1>2, BusKept

LEMMA BusStep ==
    NlInv /\ NlInv' /\ [Next]_vars => [Bus!Next]_(Bus!vars)
<1> SUFFICES ASSUME NlInv, NlInv', [Next]_vars
             PROVE  Bus!Next \/ UNCHANGED Bus!vars
  OBVIOUS
<1> USE DEF listVars, walkVars
<1>1. CASE UNCHANGED vars
  BY <1>1, BusQuiet DEF vars
<1>2. ASSUME NEW w \in Walker, ~Corrupt, Walk(w)
      PROVE  Bus!Next \/ UNCHANGED Bus!vars
  <2>1. CASE Advance(w)
    BY <2>1, BusAdvance
  <2>2. CASE w \in Sender /\ (do_send_event(w) \/ SendDone(w))
    BY <1>2, <2>2, BusDoSend, BusSendDone
  <2>3. CASE AddUser \/ Collect
    BY <2>3, BusAddUser, BusCollect
  <2>4. CASE ldt_nl_rmuser
    BY <2>4, BusRmuser
  <2>5. CASE FreeUsers \/ ReleaseDone
    <3>1. /\ UNCHANGED <<next, user, valid, seen, aud, got>>
          /\ at' = [at EXCEPT !["h"] = Null] \/ at' = [at EXCEPT !["r"] = Null]
      BY <2>5 DEF FreeUsers, ReleaseDone
    <3>2. \A s \in Sender : at'[s] = at[s]
      BY <3>1, Names DEF NlInv, TypeOK
    <3> QED
      BY <3>1, <3>2, BusQuiet
  <2> QED
    BY <1>2, <2>1, <2>2, <2>3, <2>4, <2>5 DEF Walk
<1>3. ASSUME NEW s \in Sender, NEW A \in {NetA, NetB, Client}, ldt_nl_send_event(s, A)
      PROVE  Bus!Next
  <2>1. A \in SUBSET Client
    BY DEF Client
  <2> QED
    BY <1>3, <2>1, BusSend
<1>4. ASSUME NEW c \in Client, ldt_nl_subscribe(c)
      PROVE  Bus!Next \/ UNCHANGED Bus!vars
  BY <1>4, BusSubscribe
<1>5. ASSUME NEW c \in Client, CloseSocket(c) \/ CloseOther(c)
      PROVE  UNCHANGED Bus!vars
  <2>1. UNCHANGED <<next, user, valid, at, seen, aud, got>>
    BY <1>5 DEF CloseSocket, CloseOther
  <2> QED
    BY <2>1, BusQuiet
<1>6. ASSUME NEW c \in Client, ldt_nl_release_notifier(c)
      PROVE  UNCHANGED Bus!vars
  <2>1. /\ UNCHANGED <<next, user, valid, seen, aud, got>>
        /\ at' = [at EXCEPT !["r"] = next[Head]]
    BY <1>6 DEF ldt_nl_release_notifier, Start
  <2>2. \A s \in Sender : at'[s] = at[s]
    BY <2>1, Names DEF NlInv, TypeOK
  <2> QED
    BY <2>1, <2>2, BusQuiet
<1>7. CASE ldt_nl_unregister
  BY <1>7, BusUnregister
<1> QED
  BY <1>1, <1>2, <1>3, <1>4, <1>5, <1>6, <1>7 DEF Next

\* The service behaves as EventBus promises: an event is handed, once, to
\* everyone in its audience who is subscribed from its beginning to its end,
\* whatever the walks that add, mark and remove entries do meanwhile.
THEOREM EventsDelivered == Spec => Delivery
<1>1. Init => Bus!Init
  <2> SUFFICES ASSUME Init PROVE Bus!Init
    OBVIOUS
  <2>1. FlightFact /\ SubsFact
    BY NlBegins, FlightNow
  <2>2. Linked = {}
    BY Unfold, Names DEF Init
  <2>3. Subs = {}
    <3>1. \A c : c \notin Subs
      BY <2>1, <2>2 DEF SubsFact
    <3> QED
      BY <3>1
  <2>4. Flight = [s \in Sender |-> {}]
    <3>1. ASSUME NEW s \in Sender PROVE Flight[s] = {}
      <4>1. \A c : c \notin Flight[s]
        BY <2>1, <2>2 DEF FlightFact
      <4> QED
        BY <4>1
    <3>2. Flight = [s \in Sender |-> Flight[s]]
      BY DEF Flight
    <3> QED
      BY <3>1, <3>2
  <2>5. Busy = {}
    BY Names DEF Init, Busy
  <2>6. aud = [s \in Sender |-> {}] /\ got = [s \in Sender |-> {}]
    BY DEF Init
  <2> QED
    BY <2>3, <2>4, <2>5, <2>6 DEF Bus!Init, Subs, Flight, Busy
<1> QED
  BY <1>1, NlBegins, NlStep, BusStep, PTL DEF Spec, Delivery, Bus!Spec
=============================================================================
