--------------------------- MODULE LdtXmitProofs ---------------------------
(***************************************************************************)
(* Theorems about the transmit path, for every number of buffers, every    *)
(* queue limit and every burst length.                                     *)
(***************************************************************************)
EXTENDS LdtXmit, SequenceTheorems, FiniteSetTheorems, TLAPS

-----------------------------------------------------------------------------
(* What the list operations of TpQueue do to a queue of buffers.           *)

\* Linking a new buffer (skb_queue_head) adds it behind all others.
LEMMA HeadProperties ==
    ASSUME NEW s \in Seq(Skb), NEW p \in Skb
    PROVE  /\ skb_queue_head(s, p) \in Seq(Skb)
           /\ Len(skb_queue_head(s, p)) = Len(s) + 1
           /\ skb_queue_head(s, p) # <<>>
           /\ \A i \in 1 .. Len(s) : skb_queue_head(s, p)[i] = s[i]
           /\ skb_queue_head(s, p)[Len(s) + 1] = p
  BY AppendProperties DEF skb_queue_head

\* Putting a refused buffer back (skb_queue_tail) adds it in front.
LEMMA TailProperties ==
    ASSUME NEW s \in Seq(Skb), NEW p \in Skb
    PROVE  /\ skb_queue_tail(s, p) \in Seq(Skb)
           /\ Len(skb_queue_tail(s, p)) = Len(s) + 1
           /\ skb_queue_tail(s, p) # <<>>
           /\ skb_queue_tail(s, p)[1] = p
           /\ \A i \in 1 .. Len(s) : skb_queue_tail(s, p)[i + 1] = s[i]
<1>1. <<p>> \in Seq(Skb) /\ Len(<<p>>) = 1 /\ <<p>>[1] = p
  OBVIOUS
<1>2. /\ <<p>> \o s \in Seq(Skb)
      /\ Len(<<p>> \o s) = 1 + Len(s)
      /\ \A i \in 1 .. 1 + Len(s) :
            (<<p>> \o s)[i] = IF i <= 1 THEN <<p>>[i] ELSE s[i - 1]
  BY <1>1, ConcatProperties
<1>3. Len(s) \in Nat
  BY LenProperties
<1>4. <<p>> \o s # <<>>
  BY <1>2, <1>3, EmptySeq
<1>5. ASSUME NEW i \in 1 .. Len(s)
      PROVE  (<<p>> \o s)[i + 1] = s[i]
  BY <1>2, <1>3
<1> QED
  BY <1>1, <1>2, <1>3, <1>4, <1>5 DEF skb_queue_tail

\* A dequeue looks at the first buffer, which is linked.
LEMMA PeekProperties ==
    ASSUME NEW s \in Seq(Skb)
    PROVE  /\ skb_peek_tail(s) = NoSkb <=> s = <<>>
           /\ s # <<>> => /\ skb_peek_tail(s) \in Skb
                          /\ Linked(s, skb_peek_tail(s))
                          /\ skb_peek_tail(s) = s[1]
<1>1. CASE s = <<>>
  BY <1>1 DEF skb_peek_tail
<1>2. CASE s # <<>>
  <2>1. Len(s) \in Nat \ {0}
    BY <1>2, EmptySeq
  <2>2. Head(s) = s[1] /\ 1 \in 1 .. Len(s)
    BY <2>1
  <2>3. s[1] \in Skb
    BY <2>2, ElementOfSeq
  <2> QED
    BY <1>2, <2>2, <2>3 DEF skb_peek_tail, Linked, Skb
<1> QED
  BY <1>1, <1>2

\* Unlinking a linked buffer closes the gap it leaves and moves nothing else.
LEMMA UnlinkProperties ==
    ASSUME NEW s \in Seq(Skb), NEW p \in Skb, Linked(s, p)
    PROVE  /\ skb_unlink(s, p) \in Seq(Skb)
           /\ Len(skb_unlink(s, p)) = Len(s) - 1
           /\ \E i \in 1 .. Len(s) :
                 /\ s[i] = p
                 /\ \A j \in 1 .. Len(s) - 1 :
                       skb_unlink(s, p)[j] = IF j < i THEN s[j] ELSE s[j + 1]
<1> DEFINE i == CHOOSE j \in 1 .. Len(s) : s[j] = p
           a == SubSeq(s, 1, i - 1)
           b == SubSeq(s, i + 1, Len(s))
<1>1. i \in 1 .. Len(s) /\ s[i] = p
  BY DEF Linked
<1>2. Len(s) \in Nat /\ \A j \in 1 .. Len(s) : s[j] \in Skb
  BY LenProperties, ElementOfSeq
<1> HIDE DEF i
<1>3. /\ a \in Seq(Skb) /\ Len(a) = i - 1
      /\ \A j \in 1 .. i - 1 : a[j] = s[j]
  <2>1. \A j \in 1 .. i - 1 : s[j] \in Skb
    BY <1>1, <1>2
  <2>2. /\ a \in Seq(Skb)
        /\ Len(a) = IF 1 <= i - 1 THEN (i - 1) - 1 + 1 ELSE 0
        /\ \A j \in 1 .. (i - 1) - 1 + 1 : a[j] = s[1 + j - 1]
    BY <1>1, <1>2, <2>1, SubSeqProperties
  <2> HIDE DEF a
  <2> QED
    BY <1>1, <1>2, <2>2
<1>4. /\ b \in Seq(Skb) /\ Len(b) = Len(s) - i
      /\ \A j \in 1 .. Len(s) - i : b[j] = s[i + j]
  <2>1. \A j \in i + 1 .. Len(s) : s[j] \in Skb
    BY <1>1, <1>2
  <2>2. /\ b \in Seq(Skb)
        /\ Len(b) = IF i + 1 <= Len(s) THEN Len(s) - (i + 1) + 1 ELSE 0
        /\ \A j \in 1 .. Len(s) - (i + 1) + 1 : b[j] = s[(i + 1) + j - 1]
    BY <1>1, <1>2, <2>1, SubSeqProperties
  <2> HIDE DEF b
  <2>3. \A j \in 1 .. Len(s) - i : (i + 1) + j - 1 = i + j
    BY <1>1, <1>2
  <2> QED
    BY <1>1, <1>2, <2>2, <2>3
<1>5. skb_unlink(s, p) = a \o b
  BY DEF skb_unlink, RemoveAt, i
<1> HIDE DEF a, b
<1>6. /\ a \o b \in Seq(Skb)
      /\ Len(a \o b) = Len(a) + Len(b)
      /\ \A j \in 1 .. Len(a) + Len(b) :
            (a \o b)[j] = IF j <= Len(a) THEN a[j] ELSE b[j - Len(a)]
  BY <1>3, <1>4, ConcatProperties
<1>7. ASSUME NEW j \in 1 .. Len(s) - 1
      PROVE  (a \o b)[j] = IF j < i THEN s[j] ELSE s[j + 1]
  <2>0. Len(a) = i - 1 /\ j \in 1 .. Len(a) + Len(b)
    BY <1>1, <1>2, <1>3, <1>4
  <2>1. (a \o b)[j] = IF j <= i - 1 THEN a[j] ELSE b[j - (i - 1)]
    BY <1>6, <2>0
  <2>2. CASE j < i
    BY <1>1, <1>2, <1>3, <2>1, <2>2
  <2>3. CASE ~(j < i)
    <3>1. j - (i - 1) \in 1 .. Len(s) - i /\ i + (j - (i - 1)) = j + 1
      BY <1>1, <1>2, <2>3
    <3> QED
      BY <1>1, <1>2, <1>4, <2>1, <2>3, <3>1
  <2> QED
    BY <2>2, <2>3
<1>8. Len(a \o b) = Len(s) - 1
  BY <1>1, <1>2, <1>3, <1>4, <1>6
<1> QED
  BY <1>1, <1>5, <1>6, <1>7, <1>8

-----------------------------------------------------------------------------
(* The same for what the list holds, and in which order.                   *)

\* The buffers in a list, no buffer twice, and the order of their numbers.
Elems(s) == {s[i] : i \in 1 .. Len(s)}
Distinct(s) == \A i, j \in 1 .. Len(s) : s[i] = s[j] => i = j
Sorted(s) == \A i, j \in 1 .. Len(s) : i < j => s[i] < s[j]

\* A new buffer joins the others; it is the largest if it came last.
LEMMA HeadElems ==
    ASSUME NEW s \in Seq(Skb), NEW p \in Skb
    PROVE  /\ Elems(skb_queue_head(s, p)) = Elems(s) \cup {p}
           /\ Distinct(s) /\ p \notin Elems(s) => Distinct(skb_queue_head(s, p))
           /\ Sorted(s) /\ (\A e \in Elems(s) : e < p) => Sorted(skb_queue_head(s, p))
<1> DEFINE t == skb_queue_head(s, p)
<1>1. /\ Len(s) \in Nat /\ Len(t) = Len(s) + 1
      /\ \A i \in 1 .. Len(s) : t[i] = s[i]
      /\ t[Len(s) + 1] = p
  BY HeadProperties, LenProperties
<1> HIDE DEF t
<1>2. Elems(t) = Elems(s) \cup {p}
  BY <1>1 DEF Elems
<1>3. Distinct(s) /\ p \notin Elems(s) => Distinct(t)
  BY <1>1 DEF Elems, Distinct
<1>4. Sorted(s) /\ (\A e \in Elems(s) : e < p) => Sorted(t)
  BY <1>1 DEF Elems, Sorted
<1> QED
  BY <1>2, <1>3, <1>4 DEF t

\* So does a buffer that is put back.
LEMMA TailElems ==
    ASSUME NEW s \in Seq(Skb), NEW p \in Skb
    PROVE  /\ Elems(skb_queue_tail(s, p)) = Elems(s) \cup {p}
           /\ Distinct(s) /\ p \notin Elems(s) => Distinct(skb_queue_tail(s, p))
           /\ Sorted(s) /\ (\A e \in Elems(s) : p < e) => Sorted(skb_queue_tail(s, p))
<1> DEFINE t == skb_queue_tail(s, p)
<1>1. /\ Len(s) \in Nat /\ Len(t) = Len(s) + 1 /\ t[1] = p
      /\ \A i \in 1 .. Len(s) : t[i + 1] = s[i]
  BY TailProperties, LenProperties
<1> HIDE DEF t
<1>2. \A i \in 1 .. Len(t) : i = 1 \/ (i - 1 \in 1 .. Len(s) /\ t[i] = s[i - 1])
  BY <1>1
<1>3. Elems(t) = Elems(s) \cup {p}
  <2>1. Elems(t) \subseteq Elems(s) \cup {p}
    BY <1>1, <1>2 DEF Elems
  <2>2. Elems(s) \cup {p} \subseteq Elems(t)
    <3> SUFFICES ASSUME NEW i \in 1 .. Len(s) PROVE s[i] \in Elems(t) /\ p \in Elems(t)
      BY <1>1 DEF Elems
    <3> QED
      BY <1>1, SMTT(30) DEF Elems
  <2> QED
    BY <2>1, <2>2
<1>4. ASSUME Distinct(s), p \notin Elems(s) PROVE Distinct(t)
  <2> SUFFICES ASSUME NEW i \in 1 .. Len(t), NEW j \in 1 .. Len(t), t[i] = t[j]
               PROVE  i = j
    BY DEF Distinct
  <2>1. \A k \in 1 .. Len(t) : k # 1 => /\ k - 1 \in 1 .. Len(s)
                                       /\ t[k] = s[k - 1]
                                       /\ t[k] # p
    BY <1>2, <1>4 DEF Elems
  <2>2. CASE i = 1 \/ j = 1
    BY <1>1, <2>1, <2>2
  <2>3. CASE i # 1 /\ j # 1
    <3>1. i - 1 = j - 1
      BY <1>4, <2>1, <2>3 DEF Distinct
    <3> QED
      BY <1>1, <3>1
  <2> QED
    BY <2>2, <2>3
<1>5. ASSUME Sorted(s), \A e \in Elems(s) : p < e PROVE Sorted(t)
  <2> SUFFICES ASSUME NEW i \in 1 .. Len(t), NEW j \in 1 .. Len(t), i < j
               PROVE  t[i] < t[j]
    BY DEF Sorted
  <2>1. j - 1 \in 1 .. Len(s) /\ t[j] = s[j - 1]
    BY <1>1, <1>2
  <2>2. CASE i = 1
    BY <1>1, <1>5, <2>1, <2>2 DEF Elems
  <2>3. CASE i # 1
    <3>1. i - 1 \in 1 .. Len(s) /\ t[i] = s[i - 1] /\ i - 1 < j - 1
      BY <1>1, <1>2, <2>3
    <3> QED
      BY <1>5, <2>1, <3>1 DEF Sorted
  <2> QED
    BY <2>2, <2>3
<1> QED
  BY <1>3, <1>4, <1>5 DEF t

\* A buffer that is unlinked is not in the list any more, unless it was there
\* twice.
LEMMA UnlinkElems ==
    ASSUME NEW s \in Seq(Skb), NEW p \in Skb, Linked(s, p)
    PROVE  /\ p \in Elems(s)
           /\ Elems(skb_unlink(s, p)) \subseteq Elems(s)
           /\ Distinct(s) => /\ Elems(skb_unlink(s, p)) = Elems(s) \ {p}
                             /\ Distinct(skb_unlink(s, p))
           /\ Sorted(s) => Sorted(skb_unlink(s, p))
<1> DEFINE t == skb_unlink(s, p)
<1>1. PICK k \in 1 .. Len(s) :
         /\ s[k] = p
         /\ \A j \in 1 .. Len(s) - 1 : t[j] = IF j < k THEN s[j] ELSE s[j + 1]
  BY UnlinkProperties
<1>2. Len(s) \in Nat /\ Len(t) = Len(s) - 1 /\ \A j \in 1 .. Len(s) : s[j] \in Nat
  BY UnlinkProperties, LenProperties, ElementOfSeq DEF Skb
<1> HIDE DEF t
<1>3. Elems(t) \subseteq Elems(s) /\ p \in Elems(s)
  BY <1>1, <1>2 DEF Elems
<1>4. ASSUME Distinct(s) PROVE Elems(t) = Elems(s) \ {p} /\ Distinct(t)
  <2>1. p \notin Elems(t)
    BY <1>1, <1>2, <1>4 DEF Elems, Distinct
  <2>2. ASSUME NEW i \in 1 .. Len(s), s[i] # p PROVE s[i] \in Elems(t)
    <3>1. CASE i < k
      BY <1>1, <1>2, <3>1 DEF Elems
    <3>2. CASE i > k
      <4>1. i - 1 \in 1 .. Len(t) /\ t[i - 1] = s[i]
        BY <1>1, <1>2, <3>2
      <4> QED
        BY <4>1 DEF Elems
    <3> QED
      BY <1>1, <1>2, <2>2, <3>1, <3>2
  <2>3. Distinct(t)
    <3> SUFFICES ASSUME NEW i \in 1 .. Len(t), NEW j \in 1 .. Len(t), t[i] = t[j]
                 PROVE  i = j
      BY DEF Distinct
    <3> DEFINE a == IF i < k THEN i ELSE i + 1
               b == IF j < k THEN j ELSE j + 1
    <3>1. a \in 1 .. Len(s) /\ b \in 1 .. Len(s) /\ (a = b => i = j)
      BY <1>2
    <3>2. s[a] = s[b]
      BY <1>1, <1>2
    <3> HIDE DEF a, b
    <3> QED
      BY <1>4, <3>1, <3>2 DEF Distinct
  <2> QED
    BY <1>3, <2>1, <2>2, <2>3 DEF Elems
<1>5. ASSUME Sorted(s) PROVE Sorted(t)
  <2> SUFFICES ASSUME NEW i \in 1 .. Len(t), NEW j \in 1 .. Len(t), i < j
               PROVE  t[i] < t[j]
    BY DEF Sorted
  <2> DEFINE a == IF i < k THEN i ELSE i + 1
             b == IF j < k THEN j ELSE j + 1
  <2>1. a \in 1 .. Len(s) /\ b \in 1 .. Len(s) /\ a < b
    BY <1>2
  <2>2. t[i] = s[a] /\ t[j] = s[b]
    BY <1>1, <1>2
  <2> HIDE DEF a, b
  <2> QED
    BY <1>5, <2>1, <2>2 DEF Sorted
<1> QED
  BY <1>3, <1>4, <1>5 DEF t

\* A dequeue sees a buffer of the list, the oldest of a sorted list.
LEMMA PeekElems ==
    ASSUME NEW s \in Seq(Skb), s # <<>>
    PROVE  /\ skb_peek_tail(s) \in Elems(s)
           /\ Sorted(s) => \A e \in Elems(s) : skb_peek_tail(s) <= e
<1>1. Len(s) \in Nat \ {0} /\ skb_peek_tail(s) = s[1]
  BY EmptySeq, PeekProperties
<1>2. \A i \in 1 .. Len(s) : s[i] \in Nat
  BY ElementOfSeq DEF Skb
<1> QED
  BY <1>1, <1>2 DEF Elems, Sorted

\* A sorted list holds no buffer twice.
LEMMA SortedDistinct ==
    ASSUME NEW s \in Seq(Skb), Sorted(s)
    PROVE  Distinct(s)
<1>1. Len(s) \in Nat /\ \A i \in 1 .. Len(s) : s[i] \in Nat
  BY LenProperties, ElementOfSeq DEF Skb
<1> QED
  BY <1>1 DEF Distinct, Sorted

-----------------------------------------------------------------------------
USE XmitAssumption

-----------------------------------------------------------------------------
(* Type correctness.                                                       *)

LEMMA TypeInit == Init => TypeOK
<1> SUFFICES ASSUME Init PROVE TypeOK
  OBVIOUS
<1>1. queue \in Seq(Skb) /\ gone \subseteq Skb
  BY DEF Init
<1>2. q_maxlen \in Nat \ {0} /\ policy \in QueuePolicy /\ highmax \in Nat
  BY DEF Init, tpq_set_maxlen, tpq_set_policy, QueuePolicy, TP_QUEUE_INF,
         TP_QUEUE_DROP_NEWEST, TP_QUEUE_MAX
<1>3. flags \in Byte
  BY DEF Init, Byte
<1>4. grace \in BOOLEAN /\ oops \in BOOLEAN /\ overlap \in BOOLEAN
  BY DEF Init
<1>5. pending \in [Works -> BOOLEAN]
  BY DEF Init
<1>6. /\ pc \in [Works -> WorkStates]
      /\ skb \in [Works -> Nat]
      /\ cnt \in [Works -> Nat]
  BY DEF Init, WorkStates, NoSkb
<1>7. evpc \in [Events -> {"idle", "store"}]
  BY DEF Init
<1>8. reg \in [Contexts -> Byte]
  BY <1>3 DEF Init
<1>9. /\ ppc \in ProdStates
      /\ pskb \in Nat /\ oskb \in Nat /\ next \in Skb /\ lastsent \in Nat
  BY DEF Init, ProdStates, NoSkb, Skb
<1>10. /\ ProducerHolds => pskb # NoSkb
       /\ ppc = "unlink" => oskb # NoSkb
       /\ \A w \in Works : InHand(w) => skb[w] # NoSkb
  BY DEF Init, ProducerHolds, InHand, Holds
<1> QED
  BY <1>1, <1>2, <1>3, <1>4, <1>5, <1>6, <1>7, <1>8, <1>9, <1>10 DEF TypeOK

LEMMA TypeStep == TypeOK /\ [Next]_vars => TypeOK'
<1> SUFFICES ASSUME TypeOK, [Next]_vars
             PROVE  TypeOK'
  OBVIOUS
<1> USE DEF TypeOK, ProdStates, WorkStates, ProducerHolds, InHand, Holds,
        prodVars, workVars, confVars, flagVars, connVars, histVars
<1>1. CASE XmitEnqueue
  <2>1. pskb \in Skb
    BY <1>1 DEF XmitEnqueue, At, NoSkb, Skb
  <2>2. gone' \subseteq Skb
    BY <1>1, <2>1 DEF XmitEnqueue
  <2>3. ppc' \in {"link", "peek", "test"}
    BY <1>1 DEF XmitEnqueue
  <2>4. pskb' \in Nat /\ (ppc' # "test" => pskb' # NoSkb)
    BY <1>1, <2>1 DEF XmitEnqueue, NoSkb, Skb
  <2> QED
    BY <1>1, <2>2, <2>3, <2>4 DEF XmitEnqueue, At
<1>2. CASE XmitPeekOldest
  BY <1>2, PeekProperties DEF XmitPeekOldest, At, tpq_dequeue, NoSkb, Skb
<1>3. CASE XmitUnlinkOldest
  <2>1. oskb \in Skb
    BY <1>3 DEF XmitUnlinkOldest, At, NoSkb, Skb
  <2>2. queue' \in Seq(Skb) /\ gone' \subseteq Skb
    <3>1. CASE Linked(queue, oskb)
      <4>1. queue' = skb_unlink(queue, oskb) /\ gone' = gone \cup {oskb}
        BY <1>3, <3>1 DEF XmitUnlinkOldest
      <4>2. skb_unlink(queue, oskb) \in Seq(Skb)
        BY <2>1, <3>1, UnlinkProperties
      <4> QED
        BY <2>1, <4>1, <4>2
    <3>2. CASE ~Linked(queue, oskb)
      BY <1>3, <3>2 DEF XmitUnlinkOldest
    <3> QED
      BY <3>1, <3>2
  <2>3. oops' \in BOOLEAN
    BY <1>3 DEF XmitUnlinkOldest
  <2>4. /\ ppc' \in {"unlink", "link"} /\ oskb' \in Nat
        /\ ppc' = "unlink" => oskb' # NoSkb
    <3>1. CASE ppc' = "link" /\ oskb' = NoSkb
      BY <3>1 DEF NoSkb
    <3>2. CASE UNCHANGED <<ppc, oskb>>
      BY <1>3, <3>2 DEF XmitUnlinkOldest, At
    <3> QED
      BY <1>3, <3>1, <3>2 DEF XmitUnlinkOldest
  <2> QED
    BY <1>3, <2>2, <2>3, <2>4 DEF XmitUnlinkOldest, At
<1>4. CASE XmitLink
  BY <1>4, HeadProperties DEF XmitLink, At, NoSkb, Skb
<1>5. CASE XmitTest
  BY <1>5 DEF XmitTest, At
<1>6. CASE XmitSchedule
  BY <1>6 DEF XmitSchedule, At, queue_work, Works
<1>7. ASSUME NEW w \in Works, Start(w) PROVE TypeOK'
  BY <1>7 DEF Start, GoTo
<1>8. ASSUME NEW w \in Works, ClearLoad(w) PROVE TypeOK'
  BY <1>8 DEF ClearLoad, GoTo, Load, Contexts
<1>9. ASSUME NEW w \in Works, Clear(w) PROVE TypeOK'
  BY <1>9 DEF Clear, GoTo, Current, Contexts, Byte
<1>10. ASSUME NEW w \in Works, Peek(w) PROVE TypeOK'
  BY <1>10, PeekProperties DEF Peek, GoTo, tpq_dequeue, NoSkb, Skb, Runs
<1>11. ASSUME NEW w \in Works, Unlink(w) PROVE TypeOK'
  <2>1. skb[w] \in Skb
    BY <1>11 DEF Unlink, NoSkb, Skb
  <2>2. queue' \in Seq(Skb)
    BY <1>11, <2>1, UnlinkProperties DEF Unlink
  <2>3. oops' \in BOOLEAN
    BY <1>11 DEF Unlink
  <2> QED
    BY <1>11, <2>2, <2>3 DEF Unlink, GoTo
<1>12. ASSUME NEW w \in Works, SendOk(w) PROVE TypeOK'
  <2>1. skb[w] \in Skb
    BY <1>12 DEF SendOk, NoSkb, Skb
  <2>2. gone' \subseteq Skb
    BY <1>12, <2>1 DEF SendOk
  <2> QED
    BY <1>12, <2>1, <2>2 DEF SendOk, GoTo, NoSkb, Skb
<1>13. ASSUME NEW w \in Works, SendAgain(w) PROVE TypeOK'
  BY <1>13 DEF SendAgain, GoTo
<1>14. ASSUME NEW w \in Works, SendFail(w) PROVE TypeOK'
  <2>1. skb[w] \in Skb
    BY <1>14 DEF SendFail, NoSkb, Skb
  <2>2. gone' \subseteq Skb
    BY <1>14, <2>1 DEF SendFail
  <2> QED
    BY <1>14, <2>1, <2>2 DEF SendFail, GoTo, NoSkb, Skb
<1>15. ASSUME NEW w \in Works, Requeue(w) PROVE TypeOK'
  BY <1>15, TailProperties DEF Requeue, GoTo, tpq_requeue, Skb, NoSkb
<1>16. ASSUME NEW w \in Works, SetLoad(w) PROVE TypeOK'
  BY <1>16 DEF SetLoad, GoTo, Load, Contexts
<1>17. ASSUME NEW w \in Works, Set(w) PROVE TypeOK'
  BY <1>17 DEF Set, GoTo, Current, Contexts, Byte
<1>18. ASSUME NEW w \in Works, Arm(w) PROVE TypeOK'
  BY <1>18 DEF Arm, GoTo, queue_work, Works
<1>19. ASSUME NEW w \in Works, Again(w) PROVE TypeOK'
  BY <1>19 DEF Again, GoTo, queue_work, Works
<1>20. ASSUME NEW prot1 \in BOOLEAN, XmitDrop(prot1) PROVE TypeOK'
  BY <1>20 DEF XmitDrop, At, NoSkb, Skb
<1>21. ASSUME NEW prot1 \in BOOLEAN, XmitAccept(prot1) PROVE TypeOK'
  BY <1>21 DEF XmitAccept, At, NoSkb, Skb
<1>22. ASSUME NEW e \in Events, EventLoad(e) PROVE TypeOK'
  BY <1>22 DEF EventLoad, Load, Contexts
<1>23. ASSUME NEW e \in Events, EventStore(e) PROVE TypeOK'
  BY <1>23 DEF EventStore, Current, Contexts, Updated, Byte
<1>24. ASSUME NEW p \in Policies, SetPolicy(p) PROVE TypeOK'
  BY <1>24 DEF SetPolicy, tpq_set_policy
<1>25. ASSUME NEW n \in QLens, SetMaxlen(n) PROVE TypeOK'
  BY <1>25 DEF SetMaxlen, tpq_set_maxlen
<1>26. CASE GraceExpires
  BY <1>26 DEF GraceExpires
<1>27. CASE UNCHANGED vars
  BY <1>27 DEF vars
<1>28. CASE Produce
  BY <1>28, <1>1, <1>2, <1>3, <1>4, <1>5, <1>6 DEF Produce
<1>29. ASSUME NEW w \in Works, Handle(w) PROVE TypeOK'
  BY <1>29, <1>7, <1>8, <1>9, <1>10, <1>11, <1>12, <1>13, <1>14, <1>15, <1>16,
     <1>17, <1>18, <1>19 DEF Handle
<1>30. CASE Environment
  BY <1>30, <1>20, <1>21, <1>22, <1>23, <1>24, <1>25, <1>26 DEF Environment
<1> QED
  BY <1>27, <1>28, <1>29, <1>30 DEF Next

\* Every variable of the transmit path keeps its type, and a context that
\* answers for a buffer never has a NULL pointer in its place.
THEOREM TypeCorrect == Spec => []TypeOK
  BY TypeInit, TypeStep, PTL DEF Spec

-----------------------------------------------------------------------------
(* No lost wakeup.  The invariant is inductive together with the meaning   *)
(* of has_delayed_work: when the producer reads 1 there, only that meaning *)
(* says that somebody is going to look at the queue.                       *)

WakeInv == DelayedMeansArmed /\ NoLostWakeup

\* The updates of has_delayed_work are not undone by another writer of the
\* same byte: there is one CPU, or the connection does not change.
BitUpdatesAtomic == ~Smp \/ Events = {}

LEMMA WakeInit == Init => WakeInv
  BY DEF Init, WakeInv, DelayedMeansArmed, NoLostWakeup

LEMMA WakeStep ==
    ASSUME BitUpdatesAtomic
    PROVE  TypeOK /\ WakeInv /\ [Next]_vars => WakeInv'
<1> SUFFICES ASSUME TypeOK, WakeInv, [Next]_vars
             PROVE  WakeInv'
  OBVIOUS
<1> USE DEF WakeInv, DelayedMeansArmed, NoLostWakeup, Works, work_xmit,
        work_xmit_delayed,
        prodVars, workVars, confVars, flagVars, connVars, histVars
<1>1. CASE XmitEnqueue
  BY <1>1 DEF TypeOK, XmitEnqueue, At
<1>2. CASE XmitPeekOldest
  BY <1>2, PeekProperties DEF TypeOK, XmitPeekOldest, At, tpq_dequeue
<1>3. CASE XmitUnlinkOldest
  <2>1. Linked(queue, oskb) => queue # <<>>
    BY DEF Linked
  <2> QED
    BY <1>3, <2>1 DEF TypeOK, XmitUnlinkOldest, At
<1>4. CASE XmitLink
  BY <1>4, HeadProperties DEF TypeOK, XmitLink, At
<1>5. CASE XmitTest
  BY <1>5 DEF TypeOK, XmitTest, At
<1>6. CASE XmitSchedule
  BY <1>6 DEF TypeOK, XmitSchedule, At, queue_work
<1>7. ASSUME NEW w \in Works, Start(w) PROVE WakeInv'
  BY <1>7 DEF TypeOK, Start, Runs, GoTo
<1>8. ASSUME NEW w \in Works, ClearLoad(w) PROVE WakeInv'
  BY <1>8 DEF TypeOK, ClearLoad, Runs, GoTo, Load
<1>9. ASSUME NEW w \in Works, Clear(w) PROVE WakeInv'
  BY <1>9 DEF TypeOK, Clear, Runs, GoTo, Current, Contexts, Byte
<1>10. ASSUME NEW w \in Works, Peek(w) PROVE WakeInv'
  BY <1>10, PeekProperties DEF TypeOK, Peek, Runs, GoTo, tpq_dequeue
<1>11. ASSUME NEW w \in Works, Unlink(w) PROVE WakeInv'
  BY <1>11 DEF TypeOK, Unlink, Runs, GoTo
<1>12. ASSUME NEW w \in Works, SendOk(w) PROVE WakeInv'
  BY <1>12 DEF TypeOK, SendOk, Runs, GoTo
<1>13. ASSUME NEW w \in Works, SendAgain(w) PROVE WakeInv'
  BY <1>13 DEF TypeOK, SendAgain, Runs, GoTo
<1>14. ASSUME NEW w \in Works, SendFail(w) PROVE WakeInv'
  BY <1>14 DEF TypeOK, SendFail, Runs, GoTo
<1>15. ASSUME NEW w \in Works, Requeue(w) PROVE WakeInv'
  BY <1>15, TailProperties DEF TypeOK, Requeue, Runs, GoTo, tpq_requeue
<1>16. ASSUME NEW w \in Works, SetLoad(w) PROVE WakeInv'
  BY <1>16 DEF TypeOK, SetLoad, Runs, GoTo, Load
<1>17. ASSUME NEW w \in Works, Set(w) PROVE WakeInv'
  BY <1>17 DEF TypeOK, Set, Runs, GoTo, Current, Contexts, Byte
<1>18. ASSUME NEW w \in Works, Arm(w) PROVE WakeInv'
  BY <1>18 DEF TypeOK, Arm, Runs, GoTo, queue_work
<1>19. ASSUME NEW w \in Works, Again(w) PROVE WakeInv'
  BY <1>19 DEF TypeOK, Again, Runs, GoTo, queue_work
<1>20. ASSUME NEW prot1 \in BOOLEAN, XmitDrop(prot1) PROVE WakeInv'
  BY <1>20 DEF TypeOK, XmitDrop, At
<1>21. ASSUME NEW prot1 \in BOOLEAN, XmitAccept(prot1) PROVE WakeInv'
  BY <1>21 DEF TypeOK, XmitAccept, At
<1>22. ASSUME NEW e \in Events, EventLoad(e) PROVE WakeInv'
  BY <1>22 DEF TypeOK, EventLoad, Load
<1>23. ASSUME NEW e \in Events, EventStore(e) PROVE WakeInv'
  BY <1>23 DEF TypeOK, EventStore, BitUpdatesAtomic, Current, Updated, Byte
<1>24. ASSUME NEW p \in Policies, SetPolicy(p) PROVE WakeInv'
  BY <1>24 DEF TypeOK, SetPolicy
<1>25. ASSUME NEW n \in QLens, SetMaxlen(n) PROVE WakeInv'
  BY <1>25 DEF TypeOK, SetMaxlen
<1>26. CASE GraceExpires
  BY <1>26 DEF GraceExpires
<1>27. CASE UNCHANGED vars
  BY <1>27 DEF vars
<1>28. CASE Produce
  BY <1>28, <1>1, <1>2, <1>3, <1>4, <1>5, <1>6 DEF Produce
<1>29. ASSUME NEW w \in Works, Handle(w) PROVE WakeInv'
  BY <1>29, <1>7, <1>8, <1>9, <1>10, <1>11, <1>12, <1>13, <1>14, <1>15, <1>16,
     <1>17, <1>18, <1>19 DEF Handle
<1>30. CASE Environment
  BY <1>30, <1>20, <1>21, <1>22, <1>23, <1>24, <1>25, <1>26 DEF Environment
<1> QED
  BY <1>27, <1>28, <1>29, <1>30 DEF Next

\* When a buffer waits in xmit_queue, a work item is queued or running or is
\* about to be queued: the producer may rely on has_delayed_work.
THEOREM Wakeup ==
    ASSUME BitUpdatesAtomic
    PROVE  Spec => []NoLostWakeup
<1>1. TypeOK /\ WakeInv /\ [Next]_vars => WakeInv'
  BY WakeStep
<1>2. WakeInv => NoLostWakeup
  BY DEF WakeInv
<1> QED
  BY <1>1, <1>2, WakeInit, TypeCorrect, PTL DEF Spec

\* has_delayed_work stands for a delayed item that is on its way.
THEOREM DelayedIsArmed ==
    ASSUME BitUpdatesAtomic
    PROVE  Spec => []DelayedMeansArmed
<1>1. TypeOK /\ WakeInv /\ [Next]_vars => WakeInv'
  BY WakeStep
<1>2. WakeInv => DelayedMeansArmed
  BY DEF WakeInv
<1> QED
  BY <1>1, <1>2, WakeInit, TypeCorrect, PTL DEF Spec

-----------------------------------------------------------------------------
(* The size of the queue.  The limit is tested one step before the buffer  *)
(* is linked; in between a work item may put a refused buffer back.        *)

\* mpdccptun_setqueue only sets the two dropping policies.
DroppingPolicies == Policies \subseteq {TP_QUEUE_DROP_OLDEST, TP_QUEUE_DROP_NEWEST}

HeldByWorks == Held(work_xmit) + Held(work_xmit_delayed)

InSystem == Len(queue) + HeldByWorks

BoundInv ==
    /\ policy \in {TP_QUEUE_DROP_OLDEST, TP_QUEUE_DROP_NEWEST}
    /\ q_maxlen <= highmax
    /\ InSystem <= highmax + 2
    /\ ppc = "link" => InSystem <= highmax + 1

LEMMA BoundInit == Init => BoundInv
<1> SUFFICES ASSUME Init PROVE BoundInv
  OBVIOUS
<1>1. Held(work_xmit) = 0 /\ Held(work_xmit_delayed) = 0 /\ Len(queue) = 0
  BY DEF Init, Held, Holds, Works
<1>2. q_maxlen \in Nat \ {0} /\ highmax = q_maxlen
  BY TypeInit DEF TypeOK, Init
<1>3. policy = TP_QUEUE_DROP_NEWEST /\ ppc = "idle"
  BY DEF Init, tpq_set_policy, QueuePolicy, TP_QUEUE_DROP_NEWEST, TP_QUEUE_MAX
<1> QED
  BY <1>1, <1>2, <1>3 DEF BoundInv, InSystem, HeldByWorks

\* A step of one work item changes what that item holds, and nothing else.
LEMMA HeldChanges ==
    ASSUME TypeOK, NEW w \in Works, NEW where \in WorkStates, GoTo(w, where)
    PROVE  /\ Holds(w) /\ where \notin {"send", "requeue"}
                 => HeldByWorks' = HeldByWorks - 1
           /\ ~Holds(w) /\ where \in {"send", "requeue"}
                 => HeldByWorks' = HeldByWorks + 1
           /\ (Holds(w) <=> where \in {"send", "requeue"})
                 => HeldByWorks' = HeldByWorks
<1>1. pc'[w] = where /\ \A v \in Works : v # w => pc'[v] = pc[v]
  BY DEF GoTo, TypeOK
<1>2. CASE w = work_xmit
  <2>1. Held(work_xmit_delayed)' = Held(work_xmit_delayed)
    BY <1>1, <1>2 DEF Held, Holds, Works, work_xmit, work_xmit_delayed
  <2>2. Held(work_xmit)' = IF where \in {"send", "requeue"} THEN 1 ELSE 0
    BY <1>1, <1>2 DEF Held, Holds
  <2>3. Held(work_xmit_delayed) \in {0, 1}
    BY DEF Held
  <2> QED
    BY <1>2, <2>1, <2>2, <2>3 DEF HeldByWorks, Held
<1>3. CASE w = work_xmit_delayed
  <2>1. Held(work_xmit)' = Held(work_xmit)
    BY <1>1, <1>3 DEF Held, Holds, Works, work_xmit, work_xmit_delayed
  <2>2. Held(work_xmit_delayed)' = IF where \in {"send", "requeue"} THEN 1 ELSE 0
    BY <1>1, <1>3 DEF Held, Holds
  <2>3. Held(work_xmit) \in {0, 1}
    BY DEF Held
  <2> QED
    BY <1>3, <2>1, <2>2, <2>3 DEF HeldByWorks, Held
<1> QED
  BY <1>2, <1>3 DEF Works

LEMMA BoundStep ==
    ASSUME DroppingPolicies
    PROVE  TypeOK /\ BoundInv /\ [Next]_vars => BoundInv'
<1> SUFFICES ASSUME TypeOK, BoundInv, [Next]_vars
             PROVE  BoundInv'
  OBVIOUS
<1>0. Len(queue) \in Nat
  BY LenProperties DEF TypeOK
<1>a. HeldByWorks \in 0 .. 2 /\ HeldByWorks' \in 0 .. 2
  BY DEF HeldByWorks, Held
<1>b. UNCHANGED pc => HeldByWorks' = HeldByWorks
  BY DEF HeldByWorks, Held, Holds
<1>c. \A w \in Works, where \in WorkStates :
         GoTo(w, where) /\ Holds(w) /\ where \notin {"send", "requeue"}
            => HeldByWorks' = HeldByWorks - 1
  BY HeldChanges
<1>d. \A w \in Works, where \in WorkStates :
         GoTo(w, where) /\ (Holds(w) <=> where \in {"send", "requeue"})
            => HeldByWorks' = HeldByWorks
  BY HeldChanges
<1> USE <1>0, <1>a, <1>b DEF BoundInv, InSystem,
        prodVars, workVars, confVars, flagVars, connVars, histVars
<1>1. CASE XmitEnqueue
  <2>1. CASE ppc' = "link"
    <3>1. tpq_enqueue(queue, q_maxlen, policy) = "link"
      BY <1>1, <2>1 DEF XmitEnqueue
    <3>2. Len(queue) < q_maxlen
      BY <3>1 DEF tpq_enqueue, tpq_limit_isfull, TypeOK
    <3> QED
      BY <1>1, <2>1, <3>2 DEF XmitEnqueue, TypeOK
  <2>2. CASE ppc' # "link"
    BY <1>1, <2>2 DEF XmitEnqueue
  <2> QED
    BY <2>1, <2>2
<1>2. CASE XmitPeekOldest
  <2>1. ppc' = "link" => Len(queue) = 0
    BY <1>2, PeekProperties DEF XmitPeekOldest, tpq_dequeue, TypeOK
  <2> QED
    BY <1>2, <2>1 DEF XmitPeekOldest, TypeOK
<1>3. CASE XmitUnlinkOldest
  <2>1. CASE Linked(queue, oskb)
    <3>1. oskb \in Skb
      BY <1>3 DEF XmitUnlinkOldest, At, TypeOK, Skb
    <3>2. Len(queue') = Len(queue) - 1
      BY <1>3, <2>1, <3>1, UnlinkProperties DEF XmitUnlinkOldest, TypeOK
    <3> QED
      BY <1>3, <3>2 DEF XmitUnlinkOldest, TypeOK
  <2>2. CASE ~Linked(queue, oskb)
    BY <1>3, <2>2 DEF XmitUnlinkOldest
  <2> QED
    BY <2>1, <2>2
<1>4. CASE XmitLink
  <2>1. pskb \in Skb
    BY <1>4 DEF XmitLink, At, TypeOK, ProducerHolds, Skb
  <2>2. Len(queue') = Len(queue) + 1
    BY <1>4, <2>1, HeadProperties DEF XmitLink, TypeOK
  <2> QED
    BY <1>4, <2>2 DEF XmitLink, At, TypeOK
<1>5. CASE XmitTest
  BY <1>5 DEF XmitTest, At
<1>6. CASE XmitSchedule
  BY <1>6 DEF XmitSchedule, At
<1>7. ASSUME NEW w \in Works, Start(w) PROVE BoundInv'
  <2>1. HeldByWorks' = HeldByWorks
    BY <1>7, <1>d DEF Start, WorkStates, Holds
  <2> QED
    BY <1>7, <2>1 DEF Start
<1>8. ASSUME NEW w \in Works, ClearLoad(w) PROVE BoundInv'
  <2>1. HeldByWorks' = HeldByWorks
    BY <1>8, <1>d DEF ClearLoad, WorkStates, Holds
  <2> QED
    BY <1>8, <2>1 DEF ClearLoad
<1>9. ASSUME NEW w \in Works, Clear(w) PROVE BoundInv'
  <2>1. HeldByWorks' = HeldByWorks
    BY <1>9, <1>d DEF Clear, WorkStates, Holds
  <2> QED
    BY <1>9, <2>1 DEF Clear
<1>10. ASSUME NEW w \in Works, Peek(w) PROVE BoundInv'
  <2>1. HeldByWorks' = HeldByWorks
    BY <1>10, <1>d DEF Peek, WorkStates, Holds
  <2> QED
    BY <1>10, <2>1 DEF Peek
<1>11. ASSUME NEW w \in Works, Unlink(w) PROVE BoundInv'
  <2>1. CASE Linked(queue, skb[w])
    <3>1. skb[w] \in Skb
      BY <1>11 DEF Unlink, TypeOK, Skb, InHand
    <3>2. Len(queue') = Len(queue) - 1
      BY <1>11, <2>1, <3>1, UnlinkProperties DEF Unlink, TypeOK
    <3>3. HeldByWorks' = HeldByWorks + 1
      BY <1>11, <2>1, HeldChanges DEF Unlink, WorkStates, Holds
    <3> QED
      BY <1>11, <3>2, <3>3 DEF Unlink, TypeOK
  <2>2. CASE ~Linked(queue, skb[w])
    BY <1>11, <2>2 DEF Unlink
  <2> QED
    BY <2>1, <2>2
<1>12. ASSUME NEW w \in Works, SendOk(w) PROVE BoundInv'
  <2>1. HeldByWorks' = HeldByWorks - 1
    BY <1>12, <1>c DEF SendOk, WorkStates, Holds
  <2> QED
    BY <1>12, <2>1 DEF SendOk, TypeOK
<1>13. ASSUME NEW w \in Works, SendAgain(w) PROVE BoundInv'
  <2>1. HeldByWorks' = HeldByWorks
    BY <1>13, <1>d DEF SendAgain, WorkStates, Holds
  <2> QED
    BY <1>13, <2>1 DEF SendAgain
<1>14. ASSUME NEW w \in Works, SendFail(w) PROVE BoundInv'
  <2>1. HeldByWorks' = HeldByWorks - 1
    BY <1>14, <1>c DEF SendFail, WorkStates, Holds
  <2> QED
    BY <1>14, <2>1 DEF SendFail, TypeOK
<1>15. ASSUME NEW w \in Works, Requeue(w) PROVE BoundInv'
  <2>1. skb[w] \in Skb
    BY <1>15 DEF Requeue, TypeOK, Skb, InHand, Holds
  <2>2. Len(queue') = Len(queue) + 1
    BY <1>15, <2>1, TailProperties DEF Requeue, tpq_requeue, TypeOK
  <2>3. HeldByWorks' = HeldByWorks - 1
    BY <1>15, <1>c DEF Requeue, WorkStates, Holds
  <2> QED
    BY <1>15, <2>2, <2>3 DEF Requeue, TypeOK
<1>16. ASSUME NEW w \in Works, SetLoad(w) PROVE BoundInv'
  <2>1. HeldByWorks' = HeldByWorks
    BY <1>16, <1>d DEF SetLoad, WorkStates, Holds
  <2> QED
    BY <1>16, <2>1 DEF SetLoad
<1>17. ASSUME NEW w \in Works, Set(w) PROVE BoundInv'
  <2>1. HeldByWorks' = HeldByWorks
    BY <1>17, <1>d DEF Set, WorkStates, Holds
  <2> QED
    BY <1>17, <2>1 DEF Set
<1>18. ASSUME NEW w \in Works, Arm(w) PROVE BoundInv'
  <2>1. HeldByWorks' = HeldByWorks
    BY <1>18, <1>d DEF Arm, WorkStates, Holds
  <2> QED
    BY <1>18, <2>1 DEF Arm
<1>19. ASSUME NEW w \in Works, Again(w) PROVE BoundInv'
  <2>1. HeldByWorks' = HeldByWorks
    BY <1>19, <1>d DEF Again, WorkStates, Holds
  <2> QED
    BY <1>19, <2>1 DEF Again
<1>20. ASSUME NEW prot1 \in BOOLEAN, XmitDrop(prot1) PROVE BoundInv'
  BY <1>20 DEF XmitDrop, At
<1>21. ASSUME NEW prot1 \in BOOLEAN, XmitAccept(prot1) PROVE BoundInv'
  BY <1>21 DEF XmitAccept, At
<1>22. ASSUME NEW e \in Events, EventLoad(e) PROVE BoundInv'
  BY <1>22 DEF EventLoad
<1>23. ASSUME NEW e \in Events, EventStore(e) PROVE BoundInv'
  BY <1>23 DEF EventStore
<1>24. ASSUME NEW p \in Policies, SetPolicy(p) PROVE BoundInv'
  BY <1>24 DEF SetPolicy, tpq_set_policy, DroppingPolicies
<1>25. ASSUME NEW n \in QLens, SetMaxlen(n) PROVE BoundInv'
  <2>1. q_maxlen' \in Nat /\ highmax' \in Nat
    BY <1>25, TypeStep DEF TypeOK
  <2>2. q_maxlen' <= highmax' /\ highmax <= highmax'
    BY <1>25, <2>1 DEF SetMaxlen, TypeOK
  <2> QED
    BY <1>25, <2>1, <2>2 DEF SetMaxlen, TypeOK
<1>26. CASE GraceExpires
  BY <1>26 DEF GraceExpires
<1>27. CASE UNCHANGED vars
  BY <1>27 DEF vars
<1>28. CASE Produce
  BY <1>28, <1>1, <1>2, <1>3, <1>4, <1>5, <1>6 DEF Produce
<1>29. ASSUME NEW w \in Works, Handle(w) PROVE BoundInv'
  BY <1>29, <1>7, <1>8, <1>9, <1>10, <1>11, <1>12, <1>13, <1>14, <1>15, <1>16,
     <1>17, <1>18, <1>19 DEF Handle
<1>30. CASE Environment
  BY <1>30, <1>20, <1>21, <1>22, <1>23, <1>24, <1>25, <1>26 DEF Environment
<1> QED
  BY <1>27, <1>28, <1>29, <1>30 DEF Next

\* Whatever limits are configured, and although refused buffers are put back
\* regardless of the limit, the queue never holds more than two buffers more
\* than the largest limit.
THEOREM Bounded ==
    ASSUME DroppingPolicies
    PROVE  Spec => []QueueBound
<1>1. TypeOK /\ BoundInv /\ [Next]_vars => BoundInv'
  BY BoundStep
<1>2. TypeOK /\ BoundInv => QueueBound
  <2>1. TypeOK => Len(queue) \in Nat
    BY LenProperties DEF TypeOK
  <2>2. Held(work_xmit) \in {0, 1} /\ Held(work_xmit_delayed) \in {0, 1}
    BY DEF Held
  <2> QED
    BY <2>1, <2>2 DEF BoundInv, InSystem, HeldByWorks, QueueBound
<1> QED
  BY <1>1, <1>2, BoundInit, TypeCorrect, PTL DEF Spec
-----------------------------------------------------------------------------
(* The dequeue without a common lock.  On one CPU a work item that has     *)
(* seen a buffer and not yet unlinked it is not interrupted by the other   *)
(* one, and the producer only links at the other end of the list as long   *)
(* as the policy is not to drop the oldest buffer.                         *)

OldestIsKept == TP_QUEUE_DROP_OLDEST \notin Policies

DequeueInv ==
    /\ ~oops
    /\ policy # TP_QUEUE_DROP_OLDEST
    /\ ppc \notin {"peek", "unlink"}
    /\ \A w \in Works : pc[w] = "unlink" =>
          queue # <<>> /\ skb[w] = Head(queue)
    /\ \E w \in Works : \A v \in Works \ {w} : pc[v] \in {"idle", "send"}

LEMMA DequeueInit == Init => DequeueInv
  BY DEF Init, DequeueInv, Works, tpq_set_policy, QueuePolicy, TP_QUEUE_MAX,
         TP_QUEUE_DROP_NEWEST, TP_QUEUE_DROP_OLDEST

LEMMA DequeueStep ==
    ASSUME ~Smp, OldestIsKept
    PROVE  TypeOK /\ DequeueInv /\ [Next]_vars => DequeueInv'
<1> SUFFICES ASSUME TypeOK, DequeueInv, [Next]_vars
             PROVE  DequeueInv'
  OBVIOUS
<1> USE DEF DequeueInv, Works, work_xmit, work_xmit_delayed,
        prodVars, workVars, confVars, flagVars, connVars, histVars
<1>1. CASE XmitEnqueue
  BY <1>1 DEF XmitEnqueue, tpq_enqueue
<1>2. CASE XmitPeekOldest
  BY <1>2 DEF XmitPeekOldest, At
<1>3. CASE XmitUnlinkOldest
  BY <1>3 DEF XmitUnlinkOldest, At
<1>4. CASE XmitLink
  <2>1. queue # <<>> => queue' # <<>> /\ Head(queue') = Head(queue)
    <3>1. pskb \in Skb /\ queue' = skb_queue_head(queue, pskb)
      BY <1>4 DEF XmitLink, At, TypeOK, ProducerHolds, Skb
    <3> QED
      BY <3>1 DEF TypeOK, skb_queue_head
  <2> QED
    BY <1>4, <2>1 DEF XmitLink
<1>5. CASE XmitTest
  BY <1>5 DEF XmitTest
<1>6. CASE XmitSchedule
  BY <1>6 DEF XmitSchedule
<1>7. ASSUME NEW w \in Works, Start(w) PROVE DequeueInv'
  BY <1>7 DEF Start, Runs, GoTo, TypeOK
<1>8. ASSUME NEW w \in Works, ClearLoad(w) PROVE DequeueInv'
  BY <1>8 DEF ClearLoad, Runs, GoTo, TypeOK
<1>9. ASSUME NEW w \in Works, Clear(w) PROVE DequeueInv'
  BY <1>9 DEF Clear, Runs, GoTo, TypeOK
<1>10. ASSUME NEW w \in Works, Peek(w) PROVE DequeueInv'
  BY <1>10 DEF Peek, Runs, GoTo, TypeOK, tpq_dequeue, skb_peek_tail
<1>11. ASSUME NEW w \in Works, Unlink(w) PROVE DequeueInv'
  <2>1. Linked(queue, skb[w])
    BY <1>11 DEF Unlink, TypeOK, Linked
  <2> QED
    BY <1>11, <2>1 DEF Unlink, Runs, GoTo, TypeOK
<1>12. ASSUME NEW w \in Works, SendOk(w) PROVE DequeueInv'
  BY <1>12 DEF SendOk, Runs, GoTo, TypeOK
<1>13. ASSUME NEW w \in Works, SendAgain(w) PROVE DequeueInv'
  BY <1>13 DEF SendAgain, Runs, GoTo, TypeOK
<1>14. ASSUME NEW w \in Works, SendFail(w) PROVE DequeueInv'
  BY <1>14 DEF SendFail, Runs, GoTo, TypeOK
<1>15. ASSUME NEW w \in Works, Requeue(w) PROVE DequeueInv'
  BY <1>15 DEF Requeue, Runs, GoTo, TypeOK
<1>16. ASSUME NEW w \in Works, SetLoad(w) PROVE DequeueInv'
  BY <1>16 DEF SetLoad, Runs, GoTo, TypeOK
<1>17. ASSUME NEW w \in Works, Set(w) PROVE DequeueInv'
  BY <1>17 DEF Set, Runs, GoTo, TypeOK
<1>18. ASSUME NEW w \in Works, Arm(w) PROVE DequeueInv'
  BY <1>18 DEF Arm, Runs, GoTo, TypeOK
<1>19. ASSUME NEW w \in Works, Again(w) PROVE DequeueInv'
  BY <1>19 DEF Again, Runs, GoTo, TypeOK
<1>20. ASSUME NEW prot1 \in BOOLEAN, XmitDrop(prot1) PROVE DequeueInv'
  BY <1>20 DEF XmitDrop
<1>21. ASSUME NEW prot1 \in BOOLEAN, XmitAccept(prot1) PROVE DequeueInv'
  BY <1>21 DEF XmitAccept
<1>22. ASSUME NEW e \in Events, EventLoad(e) PROVE DequeueInv'
  BY <1>22 DEF EventLoad
<1>23. ASSUME NEW e \in Events, EventStore(e) PROVE DequeueInv'
  BY <1>23 DEF EventStore
<1>24. ASSUME NEW p \in Policies, SetPolicy(p) PROVE DequeueInv'
  BY <1>24 DEF SetPolicy, tpq_set_policy, OldestIsKept
<1>25. ASSUME NEW n \in QLens, SetMaxlen(n) PROVE DequeueInv'
  BY <1>25 DEF SetMaxlen
<1>26. CASE GraceExpires
  BY <1>26 DEF GraceExpires
<1>27. CASE UNCHANGED vars
  BY <1>27 DEF vars
<1>28. CASE Produce
  BY <1>28, <1>1, <1>2, <1>3, <1>4, <1>5, <1>6 DEF Produce
<1>29. ASSUME NEW w \in Works, Handle(w) PROVE DequeueInv'
  BY <1>29, <1>7, <1>8, <1>9, <1>10, <1>11, <1>12, <1>13, <1>14, <1>15, <1>16,
     <1>17, <1>18, <1>19 DEF Handle
<1>30. CASE Environment
  BY <1>30, <1>20, <1>21, <1>22, <1>23, <1>24, <1>25, <1>26 DEF Environment
<1> QED
  BY <1>27, <1>28, <1>29, <1>30 DEF Next

\* On one CPU, and without the policy that drops the oldest buffer, nobody
\* unlinks a buffer that somebody else has taken off the queue before.
THEOREM SafeDequeue ==
    ASSUME ~Smp, OldestIsKept
    PROVE  Spec => []NoOops
<1>1. TypeOK /\ DequeueInv /\ [Next]_vars => DequeueInv'
  BY DequeueStep
<1>2. DequeueInv => NoOops
  BY DEF DequeueInv, NoOops
<1> QED
  BY <1>1, <1>2, DequeueInit, TypeCorrect, PTL DEF Spec

-----------------------------------------------------------------------------
(* One owner for each buffer.  Only their numbers tell the buffers apart:  *)
(* that a new one is nowhere yet needs that every buffer known so far has  *)
(* a smaller number.                                                       *)

\* Nobody has two claims on a buffer, and no two have one.
Exclusive ==
    /\ Distinct(queue)
    /\ \A p \in Elems(queue) : p < next /\ p \notin gone
    /\ \A p \in gone : p < next
    /\ ProducerHolds => pskb < next /\ pskb \notin Elems(queue) \cup gone
    /\ \A w \in Works : Holds(w) =>
          /\ skb[w] < next /\ skb[w] \notin Elems(queue) \cup gone
          /\ ProducerHolds => pskb # skb[w]
          /\ \A v \in Works : Holds(v) /\ skb[v] = skb[w] => v = w

\* Somebody has a claim on each buffer.
Claimed ==
    \A p \in 1 .. next - 1 :
        \/ p \in Elems(queue) \cup gone
        \/ ProducerHolds /\ pskb = p
        \/ \E w \in Works : Holds(w) /\ skb[w] = p

OwnerInv == ~oops => Exclusive /\ Claimed

\* Each step of the producer and of the work items hands its buffer on.
LEMMA OwnerStep == TypeOK /\ OwnerInv /\ [Next]_vars => OwnerInv'
<1> SUFFICES ASSUME TypeOK, OwnerInv, [Next]_vars PROVE OwnerInv'
  OBVIOUS
<1> USE DEF TypeOK, OwnerInv, Exclusive, Claimed, Holds, ProducerHolds, InHand,
        Works, work_xmit, work_xmit_delayed, Skb, NoSkb,
        prodVars, workVars, confVars, flagVars, connVars, histVars
<1>1. CASE XmitEnqueue
  <2>1. /\ ~oops /\ ~oops' /\ ProducerHolds
        /\ UNCHANGED <<queue, pc, skb, next>>
    BY <1>1 DEF XmitEnqueue, At
  <2>2. CASE ProducerHolds' /\ UNCHANGED <<pskb, gone>>
    BY <2>1, <2>2
  <2>3. CASE ~ProducerHolds' /\ gone' = gone \cup {pskb}
    <3>1. Exclusive'
      BY <2>1, <2>3
    <3>2. Claimed'
      BY <2>1, <2>3
    <3> QED
      BY <3>1, <3>2
  <2> QED
    BY <1>1, <2>2, <2>3 DEF XmitEnqueue, At
<1>2. CASE XmitPeekOldest
  BY <1>2 DEF XmitPeekOldest, At
<1>3. CASE XmitUnlinkOldest
  <2>1. CASE oops'
    BY <2>1
  <2>2. CASE ~oops'
    <3>1. /\ ~oops /\ Linked(queue, oskb) /\ ppc = "unlink" /\ ppc' = "link"
          /\ queue' = skb_unlink(queue, oskb)
          /\ gone' = gone \cup {oskb}
          /\ UNCHANGED <<pc, skb, next, pskb>>
      BY <1>3, <2>2 DEF XmitUnlinkOldest, At
    <3>2. /\ oskb \in Elems(queue) /\ Distinct(queue')
          /\ Elems(queue') = Elems(queue) \ {oskb}
      BY <3>1, UnlinkElems
    <3>3. Exclusive'
      BY <3>1, <3>2
    <3>4. Claimed'
      BY <3>1, <3>2
    <3> QED
      BY <3>3, <3>4
  <2> QED
    BY <2>1, <2>2
<1>4. CASE XmitLink
  <2>1. /\ ~oops /\ ProducerHolds /\ ~ProducerHolds'
        /\ queue' = skb_queue_head(queue, pskb)
        /\ UNCHANGED <<pc, skb, next, gone>>
    BY <1>4 DEF XmitLink, At
  <2>2. Elems(queue') = Elems(queue) \cup {pskb} /\ Distinct(queue')
    BY <2>1, HeadElems
  <2>3. Exclusive'
    BY <2>1, <2>2
  <2>4. Claimed'
    BY <2>1, <2>2
  <2> QED
    BY <2>3, <2>4
<1>5. CASE XmitTest
  BY <1>5 DEF XmitTest, At
<1>6. CASE XmitSchedule
  BY <1>6 DEF XmitSchedule, At
<1>7. ASSUME NEW w \in Works, Start(w) PROVE OwnerInv'
  BY <1>7 DEF Start, Runs, GoTo
<1>8. ASSUME NEW w \in Works, ClearLoad(w) PROVE OwnerInv'
  BY <1>8 DEF ClearLoad, Runs, GoTo
<1>9. ASSUME NEW w \in Works, Clear(w) PROVE OwnerInv'
  BY <1>9, SMTT(30) DEF Clear, Runs, GoTo
<1>10. ASSUME NEW w \in Works, Peek(w) PROVE OwnerInv'
  BY <1>10 DEF Peek, Runs, GoTo
<1>11. ASSUME NEW w \in Works, Unlink(w) PROVE OwnerInv'
  <2>1. CASE oops'
    BY <2>1
  <2>2. CASE ~oops'
    <3>1. /\ ~oops /\ pc[w] = "unlink" /\ Linked(queue, skb[w])
          /\ queue' = skb_unlink(queue, skb[w])
          /\ \A v \in Works : Holds(v)' <=> (v = w \/ Holds(v))
          /\ UNCHANGED <<skb, gone, next, ppc, pskb>>
      BY <1>11, <2>2 DEF Unlink, Runs, GoTo
    <3>2. /\ skb[w] \in Elems(queue) /\ Distinct(queue')
          /\ Elems(queue') = Elems(queue) \ {skb[w]}
      BY <3>1, UnlinkElems
    <3> HIDE DEF Holds, Works
    <3>3. Exclusive'
      BY <3>1, <3>2
    <3>4. Claimed'
      BY <3>1, <3>2
    <3> QED
      BY <3>3, <3>4
  <2> QED
    BY <2>1, <2>2
<1>12. ASSUME NEW w \in Works, SendOk(w) PROVE OwnerInv'
  BY <1>12 DEF SendOk, Runs, GoTo
<1>13. ASSUME NEW w \in Works, SendAgain(w) PROVE OwnerInv'
  BY <1>13 DEF SendAgain, Runs, GoTo
<1>14. ASSUME NEW w \in Works, SendFail(w) PROVE OwnerInv'
  BY <1>14 DEF SendFail, Runs, GoTo
<1>15. ASSUME NEW w \in Works, Requeue(w) PROVE OwnerInv'
  <2>1. /\ ~oops /\ Holds(w)
        /\ queue' = skb_queue_tail(queue, skb[w])
        /\ \A v \in Works : Holds(v)' <=> (v # w /\ Holds(v))
        /\ \A v \in Works : v # w => skb'[v] = skb[v]
        /\ UNCHANGED <<gone, next, ppc, pskb>>
    BY <1>15 DEF Requeue, Runs, GoTo, tpq_requeue
  <2>2. Elems(queue') = Elems(queue) \cup {skb[w]} /\ Distinct(queue')
    BY <2>1, TailElems
  <2> HIDE DEF Holds, Works
  <2>3. Exclusive'
    BY <2>1, <2>2
  <2>4. Claimed'
    BY <2>1, <2>2
  <2> QED
    BY <2>3, <2>4
<1>16. ASSUME NEW w \in Works, SetLoad(w) PROVE OwnerInv'
  BY <1>16 DEF SetLoad, Runs, GoTo
<1>17. ASSUME NEW w \in Works, Set(w) PROVE OwnerInv'
  BY <1>17 DEF Set, Runs, GoTo
<1>18. ASSUME NEW w \in Works, Arm(w) PROVE OwnerInv'
  BY <1>18 DEF Arm, Runs, GoTo
<1>19. ASSUME NEW w \in Works, Again(w) PROVE OwnerInv'
  BY <1>19 DEF Again, Runs, GoTo
<1>20. ASSUME NEW prot1 \in BOOLEAN, XmitDrop(prot1) PROVE OwnerInv'
  <2>1. /\ ~oops /\ ~ProducerHolds /\ ~ProducerHolds'
        /\ gone' = gone \cup {next} /\ next' = next + 1
        /\ UNCHANGED <<queue, pc, skb>>
    BY <1>20 DEF XmitDrop, At
  <2> HIDE DEF Holds, Works
  <2>2. (\A w \in Works : Holds(w)' <=> Holds(w)) /\ Elems(queue') \subseteq Nat
    BY <2>1, ElementOfSeq DEF Holds, Elems
  <2>3. Exclusive'
    BY <2>1, <2>2
  <2>4. Claimed'
    BY <2>1, <2>2
  <2> QED
    BY <2>3, <2>4
<1>21. ASSUME NEW prot1 \in BOOLEAN, XmitAccept(prot1) PROVE OwnerInv'
  <2>1. /\ ~oops /\ ~ProducerHolds /\ ProducerHolds'
        /\ pskb' = next /\ next' = next + 1
        /\ UNCHANGED <<queue, pc, skb, gone>>
    BY <1>21 DEF XmitAccept, At
  <2> HIDE DEF Holds, Works
  <2>2. (\A w \in Works : Holds(w)' <=> Holds(w)) /\ Elems(queue') \subseteq Nat
    BY <2>1, ElementOfSeq DEF Holds, Elems
  <2>3. Exclusive'
    BY <2>1, <2>2
  <2>4. Claimed'
    BY <2>1, <2>2
  <2> QED
    BY <2>3, <2>4
<1>22. ASSUME NEW e \in Events, EventLoad(e) PROVE OwnerInv'
  BY <1>22 DEF EventLoad
<1>23. ASSUME NEW e \in Events, EventStore(e) PROVE OwnerInv'
  BY <1>23 DEF EventStore
<1>24. ASSUME NEW p \in Policies, SetPolicy(p) PROVE OwnerInv'
  BY <1>24 DEF SetPolicy
<1>25. ASSUME NEW n \in QLens, SetMaxlen(n) PROVE OwnerInv'
  BY <1>25 DEF SetMaxlen
<1>26. CASE GraceExpires
  BY <1>26 DEF GraceExpires
<1>27. CASE UNCHANGED vars
  BY <1>27 DEF vars
<1> HIDE DEF TypeOK, OwnerInv, Exclusive, Claimed, Holds, ProducerHolds, InHand,
        Works, work_xmit, work_xmit_delayed, Skb, NoSkb,
        prodVars, workVars, confVars, flagVars, connVars, histVars
<1>28. CASE Produce
  BY <1>28, <1>1, <1>2, <1>3, <1>4, <1>5, <1>6 DEF Produce
<1>29. ASSUME NEW w \in Works, Handle(w) PROVE OwnerInv'
  BY <1>29, <1>7, <1>8, <1>9, <1>10, <1>11, <1>12, <1>13, <1>14, <1>15, <1>16,
     <1>17, <1>18, <1>19 DEF Handle
<1>30. CASE Environment
  BY <1>30, <1>20, <1>21, <1>22, <1>23, <1>24, <1>25, <1>26 DEF Environment
<1> QED
  BY <1>27, <1>28, <1>29, <1>30 DEF Next

\* Before the first buffer there is nothing to own.
LEMMA OwnerInit == Init => OwnerInv
  BY DEF Init, OwnerInv, Exclusive, Claimed, Distinct, Elems, Holds, ProducerHolds

\* A buffer that somebody claims, and nobody else, is in one place.
LEMMA OnePlace ==
    ASSUME TypeOK, OwnerInv
    PROVE  OneOwner
<1> SUFFICES ASSUME ~oops, NEW p \in 1 .. next - 1
             PROVE  \E x : Places(p) = {x}
  BY FS_Singleton DEF OneOwner
<1> USE DEF OwnerInv, Exclusive, Claimed
<1>1. CASE p \in Elems(queue)
  <2>1. PICK i \in 1 .. Len(queue) : queue[i] = p
    BY <1>1 DEF Elems
  <2>2. {j \in 1 .. Len(queue) : queue[j] = p} = {i}
    BY <2>1 DEF Distinct
  <2>3. /\ p \notin gone /\ ~(ProducerHolds /\ pskb = p)
        /\ {v \in Works : Holds(v) /\ skb[v] = p} = {}
    BY <1>1
  <2>4. Places(p) = {<<"queue", i>>}
    BY <2>2, <2>3 DEF Places
  <2> QED
    BY <2>4
<1>2. CASE p \in gone
  <2>1. /\ {j \in 1 .. Len(queue) : queue[j] = p} = {}
        /\ ~(ProducerHolds /\ pskb = p)
        /\ {v \in Works : Holds(v) /\ skb[v] = p} = {}
    BY <1>2 DEF Elems
  <2>2. Places(p) = {<<"gone">>}
    BY <1>2, <2>1 DEF Places
  <2> QED
    BY <2>2
<1>3. CASE ProducerHolds /\ pskb = p
  <2>1. /\ {j \in 1 .. Len(queue) : queue[j] = p} = {}
        /\ p \notin gone
        /\ {v \in Works : Holds(v) /\ skb[v] = p} = {}
    BY <1>3 DEF Elems
  <2>2. Places(p) = {<<"producer">>}
    BY <1>3, <2>1 DEF Places
  <2> QED
    BY <2>2
<1>4. ASSUME NEW w \in Works, Holds(w), skb[w] = p
      PROVE  \E x : Places(p) = {x}
  <2>1. /\ {j \in 1 .. Len(queue) : queue[j] = p} = {}
        /\ p \notin gone
        /\ ~(ProducerHolds /\ pskb = p)
    BY <1>4 DEF Elems
  <2>2. {v \in Works : Holds(v) /\ skb[v] = p} = {w}
    BY <1>4
  <2>3. Places(p) = {<<"work", w>>}
    BY <2>1, <2>2 DEF Places
  <2> QED
    BY <2>3
<1> QED
  BY <1>1, <1>2, <1>3, <1>4

\* However the producer and the two work items interleave, on one CPU or on
\* several and under every queue policy, each buffer that the stack handed
\* over is in exactly one place until the kernel oopses: the dequeue without
\* a common lock neither loses a buffer nor gives it to two owners.
THEOREM BuffersOwned == Spec => []OneOwner
<1>1. TypeOK /\ OwnerInv => OneOwner
  BY OnePlace
<1> QED
  BY <1>1, OwnerInit, OwnerStep, TypeCorrect, PTL DEF Spec

-----------------------------------------------------------------------------
(* The order of the buffers.  What has been seen so far is older than the  *)
(* buffer the producer is about to link, and the buffer in a work item's   *)
(* hand is older than those in the queue: so it may go back to the front.  *)

Older(p) == p < next /\ (ProducerHolds => p < pskb)

OrderInv ==
    ~oops /\ ~overlap =>
       /\ Sorted(queue)
       /\ ProducerHolds => pskb < next
       /\ Older(lastsent)
       /\ \A e \in Elems(queue) : lastsent < e /\ Older(e)
       /\ \A w \in Works : InHand(w) =>
             /\ lastsent < skb[w] /\ Older(skb[w])
             /\ \A e \in Elems(queue) : skb[w] <= e /\ (Holds(w) => skb[w] # e)
             /\ \A v \in Works : InHand(v) => v = w

LEMMA OrderInit == Init => OrderInv
  BY DEF Init, OrderInv, Older, Sorted, Elems, InHand, Holds, ProducerHolds, NoSkb

\* The order survives the refusal of a buffer, the burst's end and a change
\* of the policy.
LEMMA OrderStep == TypeOK /\ OrderInv /\ [Next]_vars => OrderInv'
<1> SUFFICES ASSUME TypeOK, OrderInv, [Next]_vars PROVE OrderInv'
  OBVIOUS
<1> USE DEF TypeOK, OrderInv, Older, Holds, ProducerHolds, InHand,
        Works, work_xmit, work_xmit_delayed, Skb, NoSkb,
        prodVars, workVars, confVars, flagVars, connVars, histVars
<1>1. CASE XmitEnqueue
  BY <1>1 DEF XmitEnqueue, At
<1>2. CASE XmitPeekOldest
  BY <1>2 DEF XmitPeekOldest, At
<1>3. CASE XmitUnlinkOldest
  <2>1. CASE oops'
    BY <2>1
  <2>2. CASE ~oops'
    <3>1. /\ ~oops /\ Linked(queue, oskb) /\ ProducerHolds /\ ProducerHolds'
          /\ queue' = skb_unlink(queue, oskb) /\ oskb \in Skb
          /\ UNCHANGED <<pc, skb, next, pskb, lastsent, overlap>>
      BY <1>3, <2>2 DEF XmitUnlinkOldest, At
    <3>2. Sorted(queue) => Elems(queue') \subseteq Elems(queue) /\ Sorted(queue')
      BY <3>1, UnlinkElems
    <3> QED
      BY <3>1, <3>2
  <2> QED
    BY <2>1, <2>2
<1>4. CASE XmitLink
  <2>1. /\ ~oops /\ ProducerHolds /\ ~ProducerHolds' /\ pskb \in Skb
        /\ queue' = skb_queue_head(queue, pskb)
        /\ UNCHANGED <<pc, skb, next, lastsent, overlap>>
    BY <1>4 DEF XmitLink, At
  <2>2. /\ Elems(queue') = Elems(queue) \cup {pskb}
        /\ Sorted(queue) /\ (\A e \in Elems(queue) : e < pskb) => Sorted(queue')
    BY <2>1, HeadElems
  <2> QED
    BY <2>1, <2>2
<1>5. CASE XmitTest
  BY <1>5 DEF XmitTest, At
<1>6. CASE XmitSchedule
  BY <1>6 DEF XmitSchedule, At
<1>7. ASSUME NEW w \in Works, Start(w) PROVE OrderInv'
  BY <1>7 DEF Start, Runs, GoTo
<1>8. ASSUME NEW w \in Works, ClearLoad(w) PROVE OrderInv'
  BY <1>8 DEF ClearLoad, Runs, GoTo
<1>9. ASSUME NEW w \in Works, Clear(w) PROVE OrderInv'
  BY <1>9 DEF Clear, Runs, GoTo
<1>10. ASSUME NEW w \in Works, Peek(w) PROVE OrderInv'
  <2>1. /\ ~oops /\ skb'[w] = skb_peek_tail(queue)
        /\ \A v \in Works : v # w => skb'[v] = skb[v] /\ pc'[v] = pc[v]
        /\ pc'[w] = (IF skb'[w] = NoSkb THEN "idle" ELSE "unlink")
        /\ overlap' = (overlap \/ (skb'[w] # NoSkb /\ \E v \in Works \ {w} : InHand(v)))
        /\ UNCHANGED <<queue, next, ppc, pskb, lastsent>>
    BY <1>10 DEF Peek, Runs, GoTo, tpq_dequeue
  <2>2. CASE skb'[w] = NoSkb
    BY <2>1, <2>2
  <2>3. CASE skb'[w] # NoSkb
    <3>1. /\ skb'[w] \in Elems(queue)
          /\ Sorted(queue) => \A e \in Elems(queue) : skb'[w] <= e
      BY <2>1, <2>3, PeekProperties, PeekElems
    <3>2. ~overlap' => ~overlap /\ \A v \in Works : InHand(v)' <=> v = w
      BY <2>1, <2>3
    <3>3. ~Holds(w)'
      BY <2>1
    <3> HIDE DEF InHand, Holds, Works
    <3> QED
      BY <2>1, <3>1, <3>2, <3>3
  <2> QED
    BY <2>2, <2>3
<1>11. ASSUME NEW w \in Works, Unlink(w) PROVE OrderInv'
  <2>1. CASE oops'
    BY <2>1
  <2>2. CASE ~oops' /\ ~overlap'
    <3>1. /\ ~oops /\ pc[w] = "unlink" /\ Linked(queue, skb[w]) /\ skb[w] \in Skb
          /\ queue' = skb_unlink(queue, skb[w])
          /\ \A v \in Works : InHand(v)' <=> InHand(v)
          /\ \A v \in Works : Holds(v)' <=> (v = w \/ Holds(v))
          /\ UNCHANGED <<skb, next, ppc, pskb, lastsent, overlap>>
      BY <1>11, <2>2 DEF Unlink, Runs, GoTo
    <3>2. Elems(queue') = Elems(queue) \ {skb[w]} /\ Sorted(queue')
      BY <2>2, <3>1, UnlinkElems, SortedDistinct
    <3>3. InHand(w)
      BY <3>1
    <3> HIDE DEF InHand, Holds, Works
    <3> QED
      BY <2>2, <3>1, <3>2, <3>3
  <2> QED
    BY <2>1, <2>2
<1>12. ASSUME NEW w \in Works, SendOk(w) PROVE OrderInv'
  <2>1. /\ ~oops /\ Holds(w) /\ lastsent' = skb[w]
        /\ \A v \in Works : InHand(v)' <=> (v # w /\ InHand(v))
        /\ UNCHANGED <<queue, next, ppc, pskb, overlap>>
    BY <1>12 DEF SendOk, Runs, GoTo
  <2>2. InHand(w) /\ Elems(queue) \subseteq Nat
    BY <2>1, ElementOfSeq DEF Elems
  <2> HIDE DEF InHand, Holds, Works
  <2> QED
    BY <2>1, <2>2
<1>13. ASSUME NEW w \in Works, SendAgain(w) PROVE OrderInv'
  BY <1>13 DEF SendAgain, Runs, GoTo
<1>14. ASSUME NEW w \in Works, SendFail(w) PROVE OrderInv'
  BY <1>14 DEF SendFail, Runs, GoTo
<1>15. ASSUME NEW w \in Works, Requeue(w) PROVE OrderInv'
  <2>1. /\ ~oops /\ Holds(w) /\ skb[w] \in Skb
        /\ queue' = skb_queue_tail(queue, skb[w])
        /\ \A v \in Works : InHand(v)' <=> (v # w /\ InHand(v))
        /\ \A v \in Works : v # w => skb'[v] = skb[v]
        /\ UNCHANGED <<next, ppc, pskb, lastsent, overlap>>
    BY <1>15 DEF Requeue, Runs, GoTo, tpq_requeue
  <2>2. /\ Elems(queue') = Elems(queue) \cup {skb[w]}
        /\ Sorted(queue) /\ (\A e \in Elems(queue) : skb[w] < e) => Sorted(queue')
    BY <2>1, TailElems
  <2>3. InHand(w) /\ Elems(queue) \subseteq Nat
    BY <2>1, ElementOfSeq DEF Elems
  <2> HIDE DEF InHand, Holds, Works
  <2> QED
    BY <2>1, <2>2, <2>3
<1>16. ASSUME NEW w \in Works, SetLoad(w) PROVE OrderInv'
  BY <1>16 DEF SetLoad, Runs, GoTo
<1>17. ASSUME NEW w \in Works, Set(w) PROVE OrderInv'
  BY <1>17 DEF Set, Runs, GoTo
<1>18. ASSUME NEW w \in Works, Arm(w) PROVE OrderInv'
  BY <1>18 DEF Arm, Runs, GoTo
<1>19. ASSUME NEW w \in Works, Again(w) PROVE OrderInv'
  BY <1>19 DEF Again, Runs, GoTo
<1>20. ASSUME NEW prot1 \in BOOLEAN, XmitDrop(prot1) PROVE OrderInv'
  <2>1. /\ ~oops /\ ~ProducerHolds /\ ~ProducerHolds' /\ next' = next + 1
        /\ UNCHANGED <<queue, pc, skb, lastsent, overlap>>
    BY <1>20 DEF XmitDrop, At
  <2>2. Elems(queue) \subseteq Nat
    BY ElementOfSeq DEF Elems
  <2>3. \A w \in Works : (InHand(w)' <=> InHand(w)) /\ (Holds(w)' <=> Holds(w))
    BY <2>1
  <2> HIDE DEF InHand, Holds, Works
  <2> QED
    BY <2>1, <2>2, <2>3
<1>21. ASSUME NEW prot1 \in BOOLEAN, XmitAccept(prot1) PROVE OrderInv'
  <2>1. /\ ~oops /\ ~ProducerHolds /\ ProducerHolds' /\ pskb' = next /\ next' = next + 1
        /\ UNCHANGED <<queue, pc, skb, lastsent, overlap>>
    BY <1>21 DEF XmitAccept, At
  <2>2. Elems(queue) \subseteq Nat
    BY ElementOfSeq DEF Elems
  <2>3. \A w \in Works : (InHand(w)' <=> InHand(w)) /\ (Holds(w)' <=> Holds(w))
    BY <2>1
  <2> HIDE DEF InHand, Holds, Works
  <2> QED
    BY <2>1, <2>2, <2>3
<1>22. ASSUME NEW e \in Events, EventLoad(e) PROVE OrderInv'
  BY <1>22 DEF EventLoad
<1>23. ASSUME NEW e \in Events, EventStore(e) PROVE OrderInv'
  BY <1>23 DEF EventStore
<1>24. ASSUME NEW p \in Policies, SetPolicy(p) PROVE OrderInv'
  BY <1>24 DEF SetPolicy
<1>25. ASSUME NEW n \in QLens, SetMaxlen(n) PROVE OrderInv'
  BY <1>25 DEF SetMaxlen
<1>26. CASE GraceExpires
  BY <1>26 DEF GraceExpires
<1>27. CASE UNCHANGED vars
  BY <1>27 DEF vars
<1> HIDE DEF TypeOK, OrderInv, Older, Holds, ProducerHolds, InHand,
        Works, work_xmit, work_xmit_delayed, Skb, NoSkb,
        prodVars, workVars, confVars, flagVars, connVars, histVars
<1>28. CASE Produce
  BY <1>28, <1>1, <1>2, <1>3, <1>4, <1>5, <1>6 DEF Produce
<1>29. ASSUME NEW w \in Works, Handle(w) PROVE OrderInv'
  BY <1>29, <1>7, <1>8, <1>9, <1>10, <1>11, <1>12, <1>13, <1>14, <1>15, <1>16,
     <1>17, <1>18, <1>19 DEF Handle
<1>30. CASE Environment
  BY <1>30, <1>20, <1>21, <1>22, <1>23, <1>24, <1>25, <1>26 DEF Environment
<1> QED
  BY <1>27, <1>28, <1>29, <1>30 DEF Next

\* As long as the work items do not overlap, buffers are sent in the order in
\* which the stack handed them over, whatever the limit, the policy and the
\* socket's answers are.
THEOREM SentInOrder == Spec => []InOrder
<1>1. TypeOK /\ OrderInv => InOrder
  <2> SUFFICES ASSUME TypeOK, OrderInv, ~oops, ~overlap
               PROVE  InOrder
    BY DEF InOrder
  <2>1. \A i \in 1 .. Len(queue) : queue[i] \in Elems(queue) /\ queue[i] \in Nat
    BY ElementOfSeq DEF TypeOK, Elems, Skb
  <2>2. \A w \in Works : skb[w] \in Nat
    BY DEF TypeOK
  <2> QED
    BY <2>1, <2>2 DEF OrderInv, InOrder, InHand, Sorted
<1> QED
  BY <1>1, OrderInit, OrderStep, TypeCorrect, PTL DEF Spec
=============================================================================
