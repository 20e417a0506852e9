------------------------------ MODULE MCFrData ------------------------------
(***************************************************************************)
(* The data structures of frlib side by side: the pool of events (FrEvpool *)
(* as the configuration has it, made before there are threads, and made by *)
(* the first thread that needs it), the list of FrTlst as its users use it *)
(* and the pool of numbers of FrIpool.  They share no state: in a          *)
(* behaviour one of them moves, the others stay as they were.              *)
(***************************************************************************)
EXTENDS FrEvpool, FrIpool

CONSTANT Pair       \* the threads when the first of them makes the pool

VARIABLES
    part,                           \* which one
    tlist, tfails, want             \* FrTlst

Unmade == INSTANCE FrEvpool WITH InitFirst <- FALSE
Lazy == INSTANCE FrEvpool WITH Thread <- Pair

\* A list that is filled and emptied, one that is kept sorted, one whose free
\* slots are used again, an array, and one with gaps over which the tree grows
\* by several levels at once, as the list of netlink sockets by descriptor.
Filled == INSTANCE FrTlst WITH list <- tlist, fails <- tfails,
    Base <- 2, Elem <- {1, 2}, SetAt <- {}, MaxNum <- 6, MaxFails <- 1,
    Ops <- {"add", "put", "copy", "reset", "shift", "cpylast"}
Sorted == INSTANCE FrTlst WITH list <- tlist, fails <- tfails,
    Base <- 2, Elem <- {1, 2, 3}, SetAt <- {}, MaxNum <- 5, MaxFails <- 1,
    Ops <- {"insert", "shift"}
Slots == INSTANCE FrTlst WITH list <- tlist, fails <- tfails,
    Base <- 2, Elem <- 1 .. 5, SetAt <- {}, MaxNum <- 5, MaxFails <- 0,
    Ops <- {"addinsert", "none"}
Array == INSTANCE FrTlst WITH list <- tlist, fails <- tfails,
    Base <- 2, Elem <- {1, 2}, SetAt <- 0 .. 3, MaxNum <- 1, MaxFails <- 1,
    Ops <- {}
Sparse == INSTANCE FrTlst WITH list <- tlist, fails <- tfails,
    Base <- 2, Elem <- {1, 2}, SetAt <- {0, 3, 4, 9}, MaxNum <- 1, MaxFails <- 2,
    Ops <- {}

\* One pool, of which numbers are chosen, and two with fewer numbers.
One == INSTANCE FrIpool WITH Pools <- {"p1"}
Two == INSTANCE FrIpool WITH Limit <- 5, Nums <- {}

ASSUME DataAssumption ==
    /\ Pair \subseteq Thread
    /\ Filled!TlstAssumption /\ Sorted!TlstAssumption /\ Slots!TlstAssumption
    /\ Array!TlstAssumption /\ Sparse!TlstAssumption

tlstVars == <<tlist, tfails, want>>

MCInit ==
    /\ part \in {"evpool", "lazy", "filled", "sorted", "slots", "array", "sparse",
                "one", "two"}
    /\ IF part = "lazy" THEN Unmade!Init ELSE Init
    /\ Filled!Init /\ IpInit

MCNext ==
    /\ UNCHANGED part
    /\ \/ /\ \/ part = "evpool" /\ Next
             \/ part = "lazy" /\ Lazy!Next
          /\ UNCHANGED <<tlstVars, ipoolVars>>
       \/ /\ \/ part = "filled" /\ Filled!Next
             \/ part = "sorted" /\ Sorted!Next
             \/ part = "slots" /\ Slots!Next
             \/ part = "array" /\ Array!Next
             \/ part = "sparse" /\ Sparse!Next
          /\ UNCHANGED <<vars, ipoolVars>>
       \/ /\ \/ part = "one" /\ One!IpNext
             \/ part = "two" /\ Two!IpNext
          /\ UNCHANGED <<vars, tlstVars>>

MCSpec == MCInit /\ [][MCNext]_<<vars, tlstVars, ipoolVars, part>>

-----------------------------------------------------------------------------
(* The properties of the other parts, as their modules state them.         *)

\* Every element of a list is found at the position it was put to, also after
\* a malloc has failed, if the tree grows by one level at a time; if it grows
\* by several, as long as none has failed between the first new root and the
\* last, after which depth is not the height of the tree.  In a list without
\* holes tlst_find sees all elements and nothing that was removed, and a
\* sorted list stays sorted and the binary search finds what is in it.
TlstSound ==
    /\ part # "sparse" => Filled!Kept
    /\ part = "sparse" /\ tlist.height = tlist.depth => Sparse!Kept
    /\ part = "filled" => Filled!FindsAll /\ Filled!RemovedGone
    /\ part = "sorted" => Sorted!FindsAll /\ Sorted!SearchRight
=============================================================================
