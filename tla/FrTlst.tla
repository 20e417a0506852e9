------------------------------- MODULE FrTlst -------------------------------
(***************************************************************************)
(* The tree lists of frlib, lib/base/tlst.c: arrays that grow, kept as a   *)
(* tree with 16 children a node and a block of 16 elements a leaf.  Many   *)
(* parts of frlib rest on them (buffer references, thread list, netlink    *)
(* sockets, event boxes, filters).  A list is used in one of three ways,   *)
(* and Ops says in which:                                                  *)
(*   - as a sequence: tlst_add, tlst_putlst, tlst_cpy, tlst_reset, removal *)
(*     with TLST_F_SHIFT or TLST_F_CPYLAST;                                *)
(*   - sorted: tlst_insert, tlst_search, removal with TLST_F_SHIFT;        *)
(*   - as numbered slots: tlst_addinsert or tlst_set, removal with         *)
(*     TLST_F_NONE.                                                        *)
(* A node has Base children here.  Of the inner nodes only the height of   *)
(* the tree is kept: growing puts the old root below the first child of a  *)
(* new one, so that an element keeps its path.  malloc may fail.           *)
(*                                                                         *)
(* Definitions marked "Variant" are plausible mistakes.                    *)
(***************************************************************************)
EXTENDS Integers, Sequences, FiniteSets

CONSTANTS
    Base,       \* children of a node: 16 in the code
    Elem,       \* the elements, numbers, which the comparison orders
    Ops,        \* the functions the users of the list call
    SetAt,      \* the positions tlst_set is called with
    MaxNum,     \* bound on the number of elements
    MaxFails    \* bound on the failures of malloc

TlstAssumption ==
    /\ Base \in Nat \ {0, 1}
    /\ Elem \subseteq Nat \ {0}
    /\ SetAt \subseteq Nat
    /\ MaxNum \in Nat /\ MaxFails \in Nat

\* What bzero leaves of an element, and what a failed tlst_getptr gives.
Null == 0

NotFound == -1

VARIABLES
    list,       \* the struct tlst with its tree
    fails,      \* number of failures of malloc
    \* Not in the code, to state the properties:
    want        \* the elements at the positions the users know

vars == <<list, fails, want>>

Empty == [num |-> 0, max |-> 0, depth |-> 0,
          root |-> FALSE,   \* data is not NULL
          height |-> 0,     \* of the tree
          val |-> <<>>]     \* the elements in the leaves that exist

Init ==
    /\ list = Empty
    /\ fails = 0
    /\ want = <<>>

\* tlst_depth: the levels needed above the leaf of position n.
Depth[n \in Nat] == IF n < Base THEN 0 ELSE 1 + Depth[n \div Base]

Leaf(n) == (n \div Base) * Base .. (n \div Base) * Base + Base - 1

----------------------------------------------------------------------------
\* tlst_get and tlst_getptr
Get(l, n) ==
    IF n <= l.max /\ n \in DOMAIN l.val THEN l.val[n] ELSE NotFound

\* The depth after tlst_set has grown the tree for position n.
Need(l, n) ==
    IF n > l.max /\ Depth[n] > l.depth THEN Depth[n] ELSE l.depth

\* Variant: the new depth is not noted.
GrownUnnoted(l, n) ==
    [l EXCEPT !.height = @ + (Need(l, n) - l.depth),
              !.root = @ \/ Need(l, n) > l.depth]

Grown(l, n) ==
    [l EXCEPT !.depth = Need(l, n),
              !.height = @ + (Need(l, n) - l.depth),
              !.root = @ \/ Need(l, n) > l.depth]

\* tlst_set, if every malloc succeeds.
Set(l, n, e) ==
    LET g == Grown(l, n)
        old == IF n \in DOMAIN g.val THEN g.val
               ELSE [i \in DOMAIN g.val \cup Leaf(n) |->
                        IF i \in DOMAIN g.val THEN g.val[i] ELSE Null]
    IN  [g EXCEPT !.root = TRUE,
                  !.val = [old EXCEPT ![n] = e],
                  !.max = IF n > @ THEN n ELSE @]

\* What the list may be after a tlst_set in which a malloc failed: some new
\* roots are in place and depth does not know of them, or all of them and
\* the leaf is missing.
SetFailed(l, n) ==
    {[l EXCEPT !.height = @ + k, !.root = @ \/ k > 0] :
        k \in 0 .. Need(l, n) - l.depth - 1}
    \cup (IF n \in DOMAIN l.val THEN {} ELSE {Grown(l, n)})

----------------------------------------------------------------------------
\* depth is the height of the tree, and num counts no missing element: what
\* is done with a list that is not sound is left out.
Sound(l) == l.height = l.depth /\ (l.num > 0 => l.num - 1 <= l.max)

\* Variant: num is not counted up.
AddUncounted(e) ==
    /\ "add" \in Ops /\ Sound(list) /\ list.num < MaxNum
    /\ list' = Set(list, list.num, e)
    /\ want' = [i \in DOMAIN want \cup {list.num} |->
                   IF i = list.num THEN e ELSE want[i]]
    /\ UNCHANGED fails

\* tlst_add: behind the last element, if the list is a sequence.
Add(e) ==
    /\ "add" \in Ops /\ Sound(list) /\ list.num < MaxNum
    /\ list' = [Set(list, list.num, e) EXCEPT !.num = @ + 1]
    /\ want' = [i \in DOMAIN want \cup {list.num} |->
                   IF i = list.num THEN e ELSE want[i]]
    /\ UNCHANGED fails

AddFails ==
    /\ "add" \in Ops /\ Sound(list) /\ list.num < MaxNum /\ fails < MaxFails
    /\ list' \in SetFailed(list, list.num)
    /\ fails' = fails + 1
    /\ UNCHANGED want

\* Variant: as tlst_add does.
FreeSlotNum(l) == l.num

\* The first position that is free, or the first one behind all.
FreeSlot(l) ==
    LET holes == {i \in 0 .. l.max - 1 :
                     /\ Get(l, i) = Null
                     /\ \A j \in 0 .. i : Get(l, j) # NotFound}
    IN  IF l.num > 0 /\ l.num <= l.max
        THEN IF holes # {} THEN CHOOSE i \in holes : \A j \in holes : i <= j
             ELSE l.max + 1
        ELSE l.num

\* tlst_addinsert; an element that has the slot already should keep it.
AddInsert(e) ==
    LET n == FreeSlot(list)
    IN  /\ "addinsert" \in Ops /\ Sound(list) /\ list.num < MaxNum
        /\ \A i \in DOMAIN want : want[i] # e
        /\ list' = [Set(list, n, e) EXCEPT !.num = @ + 1]
        /\ want' = [i \in DOMAIN want \cup {n} |->
                       IF i \in DOMAIN want THEN want[i] ELSE e]
        /\ UNCHANGED fails

\* tlst_set by a user, who keeps the positions.
SetElem(n, e) ==
    /\ Sound(list)
    /\ list' = Set(list, n, e)
    /\ want' = [i \in DOMAIN want \cup {n} |-> IF i = n THEN e ELSE want[i]]
    /\ UNCHANGED fails

SetElemFails(n) ==
    /\ Sound(list)
    /\ fails < MaxFails
    /\ list' \in SetFailed(list, n)
    /\ fails' = fails + 1
    /\ UNCHANGED want

----------------------------------------------------------------------------
Sgn(a, b) == IF a < b THEN -1 ELSE IF a = b THEN 0 ELSE 1

\* The loop of tlst_insert and tlst_search: the position it ends at and
\* what the last comparison said.
Bisect(l, e) ==
    LET loop[lo \in 0 .. l.num, hi \in -1 .. l.num] ==
            LET mid == (hi + lo) \div 2
                c == Sgn(e, Get(l, mid))
                r == [at |-> mid, cmp |-> c]
            IN  IF c = 0 THEN r
                ELSE IF c < 0 THEN IF mid - 1 < lo THEN r ELSE loop[lo, mid - 1]
                ELSE IF hi < mid + 1 THEN r ELSE loop[mid + 1, hi]
    IN  loop[0, l.num - 1]

\* tlst_search
Search(l, e) ==
    IF l.num > 0 /\ Bisect(l, e).cmp = 0 THEN Bisect(l, e).at ELSE NotFound

\* Variant: the new element goes before the last one compared.
PlaceBefore(l, e) == IF l.num = 0 THEN 0 ELSE Bisect(l, e).at

\* The position of the new element of tlst_insert.
Place(l, e) ==
    IF l.num = 0 THEN 0
    ELSE LET b == Bisect(l, e) IN IF b.cmp >= 0 THEN b.at + 1 ELSE b.at

\* Variant: the first one moves first, over the next.
MovedUpForward(l, n) ==
    IF l.num > n
    THEN LET s == Set(l, l.num, Get(l, n))
         IN  [s EXCEPT !.val = [i \in DOMAIN s.val |->
                 IF n < i /\ i <= l.num THEN l.val[n] ELSE s.val[i]]]
    ELSE l

\* The elements from n on move one up, the last one first.
MovedUp(l, n) ==
    IF l.num > n
    THEN LET s == Set(l, l.num, Get(l, l.num - 1))
         IN  [s EXCEPT !.val = [i \in DOMAIN s.val |->
                 IF n < i /\ i <= l.num THEN l.val[i - 1] ELSE s.val[i]]]
    ELSE l

\* tlst_insert
Insert(e) ==
    LET n == Place(list, e)
    IN  /\ "insert" \in Ops /\ Sound(list) /\ list.num < MaxNum
        /\ list' = Set([MovedUp(list, n) EXCEPT !.num = @ + 1], n, e)
        /\ want' = [i \in 0 .. list.num |->
                      IF i < n THEN want[i] ELSE IF i = n THEN e ELSE want[i - 1]]
        /\ UNCHANGED fails

\* A malloc fails for the last element that moves up, and nothing has
\* changed; or, if none has to move, for the new one: num counts it already.
InsertFails(e) ==
    LET n == Place(list, e)
    IN  /\ "insert" \in Ops /\ Sound(list) /\ list.num < MaxNum /\ fails < MaxFails
        /\ \E l \in SetFailed(list, list.num) :
              list' = IF n = list.num /\ n > 0
                      THEN [l EXCEPT !.num = @ + 1] ELSE l
        /\ fails' = fails + 1
        /\ UNCHANGED want

----------------------------------------------------------------------------
\* Variant: the last position that is copied is not given up.
ShiftedKeep(l, n) ==
    [l EXCEPT !.val = [i \in DOMAIN l.val |->
                 IF n <= i /\ i < l.num - 1 THEN l.val[i + 1] ELSE l.val[i]],
              !.num = @ - 1]

\* The elements behind n move one down.
Shifted(l, n) ==
    [l EXCEPT !.val = [i \in DOMAIN l.val |->
                 IF n <= i /\ i < l.num - 1 THEN l.val[i + 1] ELSE l.val[i]],
              !.num = @ - 1, !.max = @ - 1]

\* Variant: the last element is moved only if it is the neighbour.
LastCopiedOff(l, n) ==
    [l EXCEPT !.val[n] = IF n < l.num - 2 THEN l.val[l.num - 1] ELSE Null,
              !.num = @ - 1, !.max = @ - 1]

\* The last element takes the place.
LastCopied(l, n) ==
    [l EXCEPT !.val[n] = IF n < l.num - 1 THEN l.val[l.num - 1] ELSE Null,
              !.num = @ - 1, !.max = @ - 1]

\* The place stays free.
LeftFree(l, n) ==
    [l EXCEPT !.val[n] = Null,
              !.num = @ - 1, !.max = IF n = @ THEN @ - 1 ELSE @]

\* tlst_remove: positions behind num are no error and stay as they are, and
\* a list with one element becomes an empty one.
Removed(l, n, flag) ==
    CASE n >= l.num           -> l
      [] n < l.num /\ l.num = 1 ->
            [l EXCEPT !.val[n] = Null, !.num = 0, !.max = 0]
      [] n < l.num /\ l.num > 1 ->
            (CASE flag = "shift"   -> Shifted(l, n)
               [] flag = "cpylast" -> LastCopied(l, n)
               [] flag = "none"    -> LeftFree(l, n))

Remove(n, flag) ==
    /\ flag \in Ops /\ Sound(list)
    /\ n \in DOMAIN want
    /\ list' = Removed(list, n, flag)
    /\ want' =
         LET last == Cardinality(DOMAIN want) - 1
         IN  CASE flag = "none" -> [i \in DOMAIN want \ {n} |-> want[i]]
               [] flag = "shift" ->
                     [i \in 0 .. last - 1 |-> want[IF i < n THEN i ELSE i + 1]]
               [] flag = "cpylast" ->
                     [i \in 0 .. last - 1 |-> want[IF i = n THEN last ELSE i]]
    /\ UNCHANGED fails

\* tlst_reset and tlst_free
Reset ==
    /\ "reset" \in Ops /\ Sound(list)
    /\ list' = Empty
    /\ want' = <<>>
    /\ UNCHANGED fails

\* tlst_putlst: a block of the user's with n elements becomes the first leaf.
\* The code takes n = 0 too, and max wraps below 0 then.
PutLst(n, e) ==
    /\ "put" \in Ops /\ Sound(list)
    /\ list' = [Empty EXCEPT !.root = TRUE, !.num = n, !.max = n - 1,
                   !.val = [i \in 0 .. Base - 1 |-> IF i < n THEN e ELSE Null]]
    /\ want' = [i \in 0 .. n - 1 |-> e]
    /\ UNCHANGED fails

\* TLST_FOREACHPTR2 runs over the positions below num, up to one not found.
Visited(l) ==
    {i \in 0 .. l.num - 1 : \A j \in 0 .. i : Get(l, j) # NotFound}

\* tlst_cpy: the elements the loop meets are added to a new list; the users
\* go on with the copy.
Copy ==
    LET n == Cardinality(Visited(list))
        copy[k \in 0 .. n] ==
            IF k = 0 THEN Empty
            ELSE [Set(copy[k - 1], k - 1, Get(list, k - 1)) EXCEPT !.num = k]
    IN  /\ "copy" \in Ops /\ Sound(list)
        /\ list' = copy[n]
        /\ UNCHANGED <<want, fails>>

----------------------------------------------------------------------------
Next ==
    \/ \E e \in Elem : Add(e) \/ AddInsert(e) \/ Insert(e) \/ InsertFails(e)
    \/ AddFails
    \/ \E n \in SetAt : SetElemFails(n) \/ \E e \in Elem : SetElem(n, e)
    \/ \E n \in 0 .. list.max, flag \in {"shift", "cpylast", "none"} :
          Remove(n, flag)
    \/ Reset \/ Copy
    \/ \E n \in 1 .. Base, e \in Elem : PutLst(n, e)

Spec == Init /\ [][Next]_vars

----------------------------------------------------------------------------
\* What the users find at the positions they know.
Read(n) == IF list.height # list.depth THEN NotFound ELSE Get(list, n)

\* Every element is found at the position it was put to, or moved to by a
\* removal, until it is removed: no other element is written over it, and
\* it is there still when the tree has grown, and when a call has failed
\* (which does not hold after a failed growth by several levels).
Kept == \A i \in DOMAIN want : Read(i) = want[i]

\* tlst_find looks at every element, as do all loops over a list.
FindsAll == DOMAIN want \subseteq Visited(list)

\* An element that tlst_remove has removed is not found any more.
RemovedGone ==
    \A i \in 0 .. list.max : i \notin DOMAIN want => Get(list, i) \in {Null, NotFound}

\* num is the number of the elements.
NumTrue == list.num = Cardinality(DOMAIN want)

\* The list stays sorted and the binary search finds what is in it, also
\* among equal elements, and nothing else.
SearchRight ==
    /\ \A i, j \in DOMAIN want : i < j => want[i] <= want[j]
    /\ \A e \in Elem :
          LET n == Search(list, e)
          IN  IF \E i \in DOMAIN want : want[i] = e
              THEN n \in DOMAIN want /\ want[n] = e
              ELSE n = NotFound
============================================================================
