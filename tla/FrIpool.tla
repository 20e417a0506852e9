------------------------------ MODULE FrIpool ------------------------------
(***************************************************************************)
(* The number pools of frlib, lib/base/ipool.c: a pool is an array of      *)
(* ranges that ipool_add_range, ipool_subtract_range, ipool_subtract_pool  *)
(* and ipool_choose rewrite in place.  The array is a sequence here, a     *)
(* number is below Limit and wraps as uint64_t does.  The reference is the *)
(* plain set of numbers each pool should hold, kept beside it.             *)
(*                                                                         *)
(* Definitions marked "Variant" are plausible mistakes.                    *)
(***************************************************************************)
EXTENDS Integers, Sequences, FiniteSetsExt

CONSTANTS
    Limit,      \* the values of a number: 2^64 in the code
    Pools,      \* the pools
    Nums,       \* the sizes ipool_choose is asked for
    MaxFails    \* bound on the failures of realloc

ASSUME IpoolAssumption ==
    /\ Limit \in Nat \ {0}
    /\ Nums \subseteq Nat
    /\ MaxFails \in Nat

Number == 0 .. Limit - 1

Wrap(n) == n % Limit

VARIABLES
    list,       \* the ranges of each pool
    fails,      \* number of failures of realloc
    \* Not in the code, to state the properties:
    held,       \* the numbers each pool should hold
    chosen      \* what the last call, an ipool_choose, was asked and answered

ipoolVars == <<list, fails, held, chosen>>

NoChoice == [pool |-> {}, num |-> 0, found |-> FALSE, out |-> 0]

IpInit ==
    /\ list = [p \in Pools |-> <<>>]
    /\ fails = 0
    /\ held = [p \in Pools |-> {}]
    /\ chosen = NoChoice

Range2(b, e) == [b |-> b, e |-> e]

\* The first of the indexes in S, or one past the end of l.
First(l, S) == Min(S \cup {Len(l) + 1})

\* The numbers that are in the ranges of l.
Numbers(l) == UNION {l[i].b .. l[i].e : i \in 1 .. Len(l)}

\* l with new in the place of its ranges from k to n.
Spliced(l, k, n, new) == SubSeq(l, 1, k - 1) \o new \o SubSeq(l, n + 1, Len(l))

----------------------------------------------------------------------------
\* Variant: a neighbour is not united.
TouchesInside(r, b, e) ==
    /\ ~(e < r.b)
    /\ ~(b > r.e)

\* A range that touches b .. e or is next to it is extended, and eats the
\* ranges behind it that b .. e reaches.
Touches(r, b, e) ==
    /\ ~(r.b > 0 /\ e < r.b - 1)
    /\ ~(Wrap(r.e + 1) > 0 /\ b > Wrap(r.e + 1))

\* Variant: the range behind is not united.
JoinsNever(r, e) == FALSE

Joins(r, e) == e >= Wrap(r.b - 1)

Extended(l, k, b, e) ==
    LET lo == IF b < l[k].b THEN b ELSE l[k].b
        q == First(l, {i \in k + 1 .. Len(l) : e <= l[i].e})
    IN  CASE e <= l[k].e -> Spliced(l, k, k, <<Range2(lo, l[k].e)>>)
          [] e > l[k].e /\ q <= Len(l) /\ Joins(l[q], e) ->
                Spliced(l, k, q, <<Range2(lo, l[q].e)>>)
          [] OTHER -> Spliced(l, k, q - 1, <<Range2(lo, e)>>)

Inserted(l, b, e) ==
    LET n == First(l, {i \in 1 .. Len(l) : b <= l[i].b})
    IN  Spliced(l, n, n - 1, <<Range2(b, e)>>)

\* The array after ipool_add_range, if realloc gives what is asked for.
Added(l, b, e) ==
    LET k == First(l, {i \in 1 .. Len(l) : Touches(l[i], b, e)})
    IN  IF k <= Len(l) THEN Extended(l, k, b, e) ELSE Inserted(l, b, e)

\* ipool_add_range calls realloc.
NeedsRoom(l, b, e) == \A i \in 1 .. Len(l) : ~Touches(l[i], b, e)

----------------------------------------------------------------------------
\* The first range that has numbers of b .. e.
Met(l, b, e) == First(l, {i \in 1 .. Len(l) : ~(e < l[i].b) /\ ~(b > l[i].e)})

\* That range encloses b .. e: it is split, its second part added.
Splits(l, b, e) ==
    LET k == Met(l, b, e) IN k <= Len(l) /\ b > l[k].b /\ e < l[k].e

\* Its first part: what is left when b .. e ends behind it, or when the second
\* part of a split is not added.
Cut(l, b, e) ==
    LET k == Met(l, b, e) IN Spliced(l, k, k, <<Range2(l[k].b, b - 1)>>)

\* Variant: the range behind the eaten ones is not shortened.
EatenWhole(l, n, e) ==
    LET q == First(l, {i \in n .. Len(l) : e < l[i].e})
    IN  Spliced(l, n, q - 1, <<>>)

\* The ranges from n on that end by e are dropped, and the next one loses what
\* it has below e.
Eaten(l, n, e) ==
    LET q == First(l, {i \in n .. Len(l) : e < l[i].e})
    IN  IF q <= Len(l) /\ e >= l[q].b
        THEN Spliced(l, n, q, <<Range2(e + 1, l[q].e)>>)
        ELSE Spliced(l, n, q - 1, <<>>)

\* Variant: the third case stops at the end of the range it has shortened.
SubtractedFirst(l, b, e) ==
    LET k == Met(l, b, e)
    IN  CASE k > Len(l)  -> l
          [] Splits(l, b, e) -> Added(Cut(l, b, e), e + 1, l[k].e)
          [] k <= Len(l) /\ b <= l[k].b /\ e < l[k].e ->
                Spliced(l, k, k, <<Range2(e + 1, l[k].e)>>)
          [] k <= Len(l) /\ b > l[k].b /\ e >= l[k].e -> Cut(l, b, e)
          [] OTHER -> Eaten(l, k, e)

\* The array after ipool_subtract_range: the four cases of the code.
Subtracted(l, b, e) ==
    LET k == Met(l, b, e)
    IN  CASE k > Len(l)  -> l
          [] Splits(l, b, e) -> Added(Cut(l, b, e), e + 1, l[k].e)
          [] k <= Len(l) /\ b <= l[k].b /\ e < l[k].e ->
                Spliced(l, k, k, <<Range2(e + 1, l[k].e)>>)
          [] k <= Len(l) /\ b > l[k].b /\ e >= l[k].e ->
                Eaten(Cut(l, b, e), k + 1, e)
          [] OTHER -> Eaten(l, k, e)

\* The arrays in the loop of ipool_subtract_pool: what is left of l after the
\* first ranges of r.
Without(l, r) ==
    LET rest[k \in 0 .. Len(r)] ==
            IF k = 0 THEN l ELSE Subtracted(rest[k - 1], r[k].b, r[k].e)
    IN  rest

----------------------------------------------------------------------------
\* ipool_add_range; e < b is refused.
AddRange(p, b, e) ==
    /\ list' = [list EXCEPT ![p] = Added(@, b, e)]
    /\ held' = [held EXCEPT ![p] = @ \cup (b .. e)]
    /\ chosen' = NoChoice
    /\ UNCHANGED fails

AddFails(p, b, e) ==
    /\ fails < MaxFails
    /\ NeedsRoom(list[p], b, e)
    /\ fails' = fails + 1
    /\ chosen' = NoChoice
    /\ UNCHANGED <<list, held>>

\* ipool_subtract_range
SubtractRange(p, b, e) ==
    /\ list' = [list EXCEPT ![p] = Subtracted(@, b, e)]
    /\ held' = [held EXCEPT ![p] = @ \ (b .. e)]
    /\ chosen' = NoChoice
    /\ UNCHANGED fails

\* realloc fails for the second part: it is lost, and the caller told so.
SubtractFails(p, b, e) ==
    LET last == list[p][Met(list[p], b, e)].e
    IN  /\ fails < MaxFails
        /\ Splits(list[p], b, e)
        /\ NeedsRoom(Cut(list[p], b, e), e + 1, last)
        /\ fails' = fails + 1
        /\ list' = [list EXCEPT ![p] = Cut(@, b, e)]
        /\ held' = [held EXCEPT ![p] = @ \ (b .. last)]
        /\ chosen' = NoChoice

\* ipool_subtract_pool: range after range of the other pool.  A pool is
\* never subtracted from itself, it would change under the loop.
SubtractPool(p, s) ==
    /\ p # s
    /\ list' = [list EXCEPT ![p] = Without(@, list[s])[Len(list[s])]]
    /\ held' = [held EXCEPT ![p] = @ \ held[s]]
    /\ chosen' = NoChoice
    /\ UNCHANGED fails

\* realloc fails at the k-th range, which ends the loop.
SubtractPoolFails(p, s, k) ==
    LET l == Without(list[p], list[s])[k - 1]
        b == list[s][k].b
        e == list[s][k].e
        last == l[Met(l, b, e)].e
    IN  /\ p # s
        /\ fails < MaxFails
        /\ Splits(l, b, e)
        /\ NeedsRoom(Cut(l, b, e), e + 1, last)
        /\ fails' = fails + 1
        /\ list' = [list EXCEPT ![p] = Cut(l, b, e)]
        /\ held' = [held EXCEPT ![p] =
                      (@ \ Numbers(SubSeq(list[s], 1, k - 1))) \ (b .. last)]
        /\ chosen' = NoChoice

\* Variant: a range of num - 1 is taken.
FitsShort(r, num) == Wrap(r.e - r.b + 2) >= num

\* The first range that is large enough; its size wraps.
Fits(r, num) == Wrap(r.e - r.b + 1) >= num

\* ipool_choose: the first num numbers of that range leave the pool.
Choose(p, num) ==
    LET k == First(list[p], {i \in 1 .. Len(list[p]) : Fits(list[p][i], num)})
        b == list[p][k].b
        e == Wrap(b + num - 1)
    IN  IF num = 0 \/ k > Len(list[p])
        THEN /\ chosen' = [pool |-> held[p], num |-> num, found |-> FALSE,
                           out |-> 0]
             /\ UNCHANGED <<list, fails, held>>
        ELSE /\ chosen' = [pool |-> held[p], num |-> num, found |-> TRUE,
                           out |-> b]
             /\ list' = [list EXCEPT ![p] = Subtracted(@, b, e)]
             /\ held' = [held EXCEPT ![p] = @ \ (b .. e)]
             /\ UNCHANGED fails

IpNext ==
    \E p \in Pools :
        \/ \E b, e \in Number :
              /\ b <= e
              /\ \/ AddRange(p, b, e)
                 \/ AddFails(p, b, e)
                 \/ SubtractRange(p, b, e)
                 \/ SubtractFails(p, b, e)
        \/ \E s \in Pools :
              \/ SubtractPool(p, s)
              \/ \E k \in 1 .. Len(list[s]) : SubtractPoolFails(p, s, k)
        \/ \E num \in Nums : Choose(p, num)

IpSpec == IpInit /\ [][IpNext]_ipoolVars

----------------------------------------------------------------------------
\* The array is what the loops over it rely on: every range has a first
\* number not above its last, and between two ranges in a row there is at
\* least one number of neither, so that the ranges ascend and none could be
\* united with the next.  A failed realloc breaks none of it.
Canonical ==
    \A p \in Pools :
        /\ \A i \in 1 .. Len(list[p]) :
              /\ list[p][i].b \in Number /\ list[p][i].e \in Number
              /\ list[p][i].b <= list[p][i].e
        /\ \A i \in 1 .. Len(list[p]) - 1 :
              list[p][i].e + 1 < list[p][i + 1].b

\* After every sequence of calls a pool holds the numbers that were added
\* and not subtracted or chosen since; a call that ran out of memory has
\* lost the second part of the range it was to split, and nothing else.
Exact == \A p \in Pools : Numbers(list[p]) = held[p]

\* ipool_choose hands out numbers in a row that were all in the pool, and
\* says "not found" only if there are no such numbers.  One pool is the
\* exception: of the pool of all numbers the size wraps to 0, and nothing
\* can be chosen from it.
ChoiceRight ==
    LET block(out) == out .. out + chosen.num - 1
    IN  chosen.num > 0 =>
           IF chosen.found
           THEN block(chosen.out) \subseteq chosen.pool
           ELSE \/ chosen.pool = Number
                \/ \A b \in Number : ~(block(b) \subseteq chosen.pool)

\* The ranges of a pool ascend and cannot be united, they hold what was added
\* and not taken since, and ipool_choose hands out numbers of the pool and
\* finds some if there are.
IpoolSound == Canonical /\ Exact /\ ChoiceRight
============================================================================
