----------------------------- MODULE LdtTunReg ------------------------------
(***************************************************************************)
(* The registry of tunnel types (ldt_tun.c): a doubly linked list under a  *)
(* mutex, whose first element's prev is meant to be the last element, and  *)
(* the creation of a tunnel, which looks a type up and uses the entry      *)
(* after it has let the mutex go.                                          *)
(***************************************************************************)
CONSTANTS
    Type,       \* names of tunnel types, without regard to case
    Cell,       \* memory for struct tun_reg
    Finder      \* contexts that create a tunnel

Null == "null"
RegAssumption == Null \notin Type \cup Cell /\ "reg" \notin Finder

VARIABLES
    tun_reg_list,       \* the head
    next, prev, type,   \* the fields of an entry
    live,               \* entries that are allocated
    dying,              \* an entry that is unlinked and not yet freed
    found,              \* p of tp_findtun, in the hands of a finder
    tunops,             \* whether the finder's tunnel has its operations
    answer              \* what the last calls returned

regVars == <<tun_reg_list, next, prev, type, live, dying, found, tunops, answer>>

RegInit ==
    /\ tun_reg_list = Null
    /\ next = [c \in Cell |-> Null] /\ prev = [c \in Cell |-> Null]
    /\ type = [c \in Cell |-> Null]
    /\ live = {} /\ dying = Null
    /\ found = [f \in Finder |-> Null]
    /\ tunops = [f \in Finder |-> FALSE]
    /\ answer = [f \in Finder \cup {"reg"} |-> "none"]

\* S holds the entry h and with every entry the one that is linked to it.
Closed(h, n, S) ==
    /\ h = Null \/ h \in S
    /\ \A c \in S : n[c] = Null \/ n[c] \in S

\* The entries that the loop of tun_reg_find reaches when it starts at h and
\* follows the pointers n.
Reached(h, n) ==
    {c \in Cell : \A S \in SUBSET Cell : Closed(h, n, S) => c \in S}

Chain == Reached(tun_reg_list, next)

tun_reg_find(t) == {c \in Chain : type[c] = t}

Answer(f, a) == answer' = [answer EXCEPT ![f] = a]

-----------------------------------------------------------------------------
Rejected(t) ==
    /\ \/ tun_reg_find(t) # {} /\ Answer("reg", "EEXIST")
       \/ tun_reg_find(t) = {} /\ Answer("reg", "ENOMEM")
    /\ UNCHANGED <<tun_reg_list, next, prev, type, live, dying, found, tunops>>

\* Variant: the old head does not learn of its new predecessor.
RegisterNoPrev(t) ==
    /\ tun_reg_find(t) = {}
    /\ \E p \in Cell \ live :
          /\ live' = live \cup {p}
          /\ type' = [type EXCEPT ![p] = t]
          /\ next' = [next EXCEPT ![p] = tun_reg_list]
          /\ prev' = [prev EXCEPT ![p] = IF tun_reg_list = Null THEN p
                                         ELSE prev[tun_reg_list]]
          /\ tun_reg_list' = p
    /\ Answer("reg", "ok")
    /\ UNCHANGED <<dying, found, tunops>>

\* Variant: a type may be registered twice.
RegisterTwice(t) ==
    /\ \E p \in Cell \ live :
          /\ live' = live \cup {p}
          /\ type' = [type EXCEPT ![p] = t]
          /\ next' = [next EXCEPT ![p] = tun_reg_list]
          /\ prev' = IF tun_reg_list = Null THEN [prev EXCEPT ![p] = p]
                     ELSE [prev EXCEPT ![p] = prev[tun_reg_list],
                                       ![tun_reg_list] = p]
          /\ tun_reg_list' = p
    /\ Answer("reg", "ok")
    /\ UNCHANGED <<dying, found, tunops>>

\* The new entry becomes the head.
ldt_tun_register(t) ==
    /\ tun_reg_find(t) = {}
    /\ \E p \in Cell \ live :
          /\ live' = live \cup {p}
          /\ type' = [type EXCEPT ![p] = t]
          /\ next' = [next EXCEPT ![p] = tun_reg_list]
          /\ prev' = IF tun_reg_list = Null THEN [prev EXCEPT ![p] = p]
                     ELSE [prev EXCEPT ![p] = prev[tun_reg_list],
                                       ![tun_reg_list] = p]
          /\ tun_reg_list' = p
    /\ Answer("reg", "ok")
    /\ UNCHANGED <<dying, found, tunops>>

\* Unlinking, under the mutex.  The head's prev is not corrected when the last
\* entry goes.
ldt_tun_unregister(t) ==
    /\ dying = Null
    /\ \E p \in tun_reg_find(t) :
          /\ prev' = IF next[p] = Null THEN prev
                     ELSE [prev EXCEPT ![next[p]] = prev[p]]
          /\ IF p = tun_reg_list
                THEN tun_reg_list' = next[p] /\ UNCHANGED next
                ELSE /\ next' = [next EXCEPT ![prev[p]] = next[p]]
                     /\ UNCHANGED tun_reg_list
          /\ dying' = p
    /\ UNCHANGED <<type, live, found, tunops, answer>>

\* The entry is wiped and freed, after the mutex was let go.
Free ==
    /\ dying # Null
    /\ next' = [next EXCEPT ![dying] = Null]
    /\ prev' = [prev EXCEPT ![dying] = Null]
    /\ type' = [type EXCEPT ![dying] = Null]
    /\ live' = live \ {dying} /\ dying' = Null
    /\ UNCHANGED <<tun_reg_list, found, tunops, answer>>

-----------------------------------------------------------------------------
(* ldt_tun_init                                                            *)

\* tun_reg_find_lock.
tp_findtun(f, t) ==
    /\ found[f] = Null /\ ~tunops[f]
    /\ \/ /\ tun_reg_find(t) = {}
          /\ Answer(f, "ENOENT") /\ UNCHANGED found
       \/ /\ \E p \in tun_reg_find(t) : found' = [found EXCEPT ![f] = p]
          /\ Answer(f, "found")
    /\ UNCHANGED <<tun_reg_list, next, prev, type, live, dying, tunops>>

\* p->tunops is read and tp_new called; if that fails the tunnel has no
\* operations again.
ldt_tun_init(f) ==
    /\ found[f] # Null
    /\ found' = [found EXCEPT ![f] = Null]
    /\ tunops' = [tunops EXCEPT ![f] = TRUE] \/ UNCHANGED tunops
    /\ UNCHANGED <<tun_reg_list, next, prev, type, live, dying, answer>>

ldt_tun_remove(f) ==
    /\ tunops[f]
    /\ tunops' = [tunops EXCEPT ![f] = FALSE]
    /\ Answer(f, "none")
    /\ UNCHANGED <<tun_reg_list, next, prev, type, live, dying, found>>

-----------------------------------------------------------------------------
\* A finder holds an entry that was freed: the model stops.
Corrupt == \E f \in Finder : found[f] \in Cell \ live

RegNext ==
    /\ ~Corrupt
    /\ \/ Free
       \/ \E t \in Type :
             \/ Rejected(t) \/ ldt_tun_register(t) \/ ldt_tun_unregister(t)
             \/ \E f \in Finder : tp_findtun(f, t)
       \/ \E f \in Finder : ldt_tun_init(f) \/ ldt_tun_remove(f)

RegSpec == RegInit /\ [][RegNext]_regVars

-----------------------------------------------------------------------------
\* The list holds exactly the entries that are allocated and not on their way
\* out, and the prev pointer of every entry but the head leads to its
\* predecessor: ldt_tun_unregister follows it.  The head's own prev may point
\* to freed memory, which is harmless only as long as nobody follows it.
ListSound ==
    /\ Chain = live \ {dying}
    /\ \A c \in Chain \ {tun_reg_list} :
          prev[c] \in Chain /\ next[prev[c]] = c

\* The list implements the set of types.
Registry == INSTANCE TypeRegistry WITH reg <- {type[c] : c \in Chain}
Implements == Registry!Spec

RegImplements == []ListSound /\ Implements

=============================================================================
