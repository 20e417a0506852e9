--------------------------- MODULE LdtPartsProofs ---------------------------
(***************************************************************************)
(* Proofs about the parts of the kernel module that share no state: the    *)
(* lock, the receive path, the registry of tunnel types, the addresses of  *)
(* a tunnel, the sysctls and the minute of grace, each for every value of  *)
(* its constants.                                                          *)
(***************************************************************************)
EXTENDS LdtLock, LdtRecv, LdtTunReg, LdtSettings, LdtGrace,
        SequenceTheorems, TLAPS

-----------------------------------------------------------------------------
(* tp_lock and tp_unlock, for any number of CPUs and any set of contexts   *)
(* that use the lock.  That one lock may note its flavour in a shared      *)
(* field rests on the field being written by its holder only: LockInv says *)
(* that the note is the holder's from tp_lock to tp_unlock, and that       *)
(* tp_unlock has copied it when it gives it up.                            *)

\* What tp_lock notes in a context.
Flavour(l) == CASE l = irq -> 1 [] l = soft -> 2 [] l = proc -> 3

Noted ==
    \A c \in CPUs, l \in Levels :
        /\ at[c][l] = "held" => ltype = Flavour(l)
        /\ at[c][l] = "unlock" => mine[c][l] = Flavour(l)
        /\ l = irq /\ at[c][l] \in {"held", "unlock"} => irq_flags = TRUE

\* Whoever is between tp_lock and tp_unlock has the spinlock.
Held == \A c \in CPUs, l \in Levels : Inside(c, l) => holder = <<c, l>>

LockInv == Held /\ Restored /\ Noted

USE DEF Levels, proc, soft, irq

\* The variables of ldt_lock.c keep their types.
LEMMA LockTypeStep == TypeOK /\ [Next]_vars => TypeOK'
<1> SUFFICES ASSUME TypeOK, [Next]_vars PROVE TypeOK'
  OBVIOUS
<1> USE DEF TypeOK, GoTo, Places
<1>1. CASE UNCHANGED vars
  BY <1>1 DEF vars
<1>2. ASSUME NEW c \in CPUs, NEW l \in Levels, Interrupt(c, l) PROVE TypeOK'
  BY <1>2 DEF Interrupt
<1>3. ASSUME NEW c \in CPUs, NEW l \in Levels, Return(c, l) PROVE TypeOK'
  BY <1>3 DEF Return
<1>4. ASSUME NEW c \in CPUs, NEW l \in Levels, Lock(c, l) PROVE TypeOK'
  BY <1>4 DEF Lock
<1>5. ASSUME NEW c \in CPUs, NEW l \in Levels, Spin(c, l) PROVE TypeOK'
  BY <1>5 DEF Spin
<1>6. ASSUME NEW c \in CPUs, NEW l \in Levels, Note(c, l) PROVE TypeOK'
  BY <1>6 DEF Note
<1>7. ASSUME NEW c \in CPUs, NEW l \in Levels, Unlock(c, l) PROVE TypeOK'
  BY <1>7 DEF Unlock
<1>8. ASSUME NEW c \in CPUs, NEW l \in Levels, Release(c, l) PROVE TypeOK'
  BY <1>8 DEF Release
<1> QED
  BY <1>1, <1>2, <1>3, <1>4, <1>5, <1>6, <1>7, <1>8
     DEF Next, tp_lock, tp_unlock

\* Each step of tp_lock, of tp_unlock and of the contexts keeps the note of
\* the flavour with the holder of the lock.
LEMMA LockStep == TypeOK /\ LockInv /\ [Next]_vars => LockInv'
<1> SUFFICES ASSUME TypeOK, LockInv, [Next]_vars PROVE LockInv'
  OBVIOUS
<1> USE DEF TypeOK, GoTo, Places, LockInv, Held, Restored, Noted, Inside
<1>1. CASE UNCHANGED vars
  BY <1>1 DEF vars
<1>2. ASSUME NEW c \in CPUs, NEW l \in Levels, Interrupt(c, l) PROVE LockInv'
  BY <1>2 DEF Interrupt
<1>3. ASSUME NEW c \in CPUs, NEW l \in Levels, Return(c, l) PROVE LockInv'
  BY <1>3 DEF Return, Runs
<1>4. ASSUME NEW c \in CPUs, NEW l \in Levels, Lock(c, l) PROVE LockInv'
  BY <1>4 DEF Lock, Runs
<1>5. ASSUME NEW c \in CPUs, NEW l \in Levels, Spin(c, l) PROVE LockInv'
  BY <1>5 DEF Spin, Nobody
<1>6. ASSUME NEW c \in CPUs, NEW l \in Levels, Note(c, l) PROVE LockInv'
  BY <1>6 DEF Note, Flavour
<1>7. ASSUME NEW c \in CPUs, NEW l \in Levels, Unlock(c, l) PROVE LockInv'
  BY <1>7 DEF Unlock
<1>8. ASSUME NEW c \in CPUs, NEW l \in Levels, Release(c, l) PROVE LockInv'
  <2>1. /\ mine[c][l] = Flavour(l) /\ holder = <<c, l>>
        /\ l = irq => irq_flags = TRUE
    BY <1>8 DEF Release
  <2>2. \A d \in CPUs, k \in Levels : ~Inside(d, k)'
    <3> SUFFICES ASSUME NEW d \in CPUs, NEW k \in Levels, Inside(d, k)' PROVE FALSE
      OBVIOUS
    <3>1. CASE d = c /\ k = l
      BY <1>8, <3>1 DEF Release
    <3>2. CASE ~(d = c /\ k = l)
      <4>1. Inside(d, k)
        BY <1>8, <3>2 DEF Release
      <4> QED
        BY <2>1, <3>2, <4>1
    <3> QED
      BY <3>1, <3>2
  <2>3. Held' /\ Noted'
    BY <2>2
  <2>4. Restored'
    BY <1>8, <2>1 DEF Release, Flavour
  <2> QED
    BY <2>3, <2>4
<1> QED
  BY <1>1, <1>2, <1>3, <1>4, <1>5, <1>6, <1>7, <1>8
     DEF Next, tp_lock, tp_unlock

\* Nobody is in the lock when tp_lock_init returns.
LEMMA LockInit == Init => TypeOK /\ LockInv
<1> SUFFICES ASSUME Init PROVE TypeOK /\ LockInv
  OBVIOUS
<1>1. TypeOK
  <2>1. at \in [CPUs -> [Levels -> Places]]
    BY DEF Init, Places
  <2>2. mine \in [CPUs -> [Levels -> 0 .. 3]]
    BY DEF Init
  <2>3. irqoff \in [CPUs -> BOOLEAN] /\ bhoff \in [CPUs -> Int]
    BY DEF Init
  <2>4. irq_flags \in BOOLEAN
    BY Zenon DEF Init
  <2>5. holder \in {Nobody} \cup (CPUs \X Levels)
    BY Zenon DEF Init
  <2>6. ltype \in 0 .. 3
    BY DEF Init
  <2> QED
    BY <2>1, <2>2, <2>3, <2>4, <2>5, <2>6, Zenon DEF TypeOK
<1>2. \A c \in CPUs, l \in Levels : at[c][l] \in {"off", "run"} /\ at[c][irq] = "off"
  BY DEF Init
<1>3. Held /\ Noted
  BY <1>2 DEF Held, Noted, Inside
<1>4. Restored
  BY <1>2 DEF Init, Restored
<1> QED
  BY <1>1, <1>3, <1>4 DEF LockInv

\* For every number of CPUs LockInv holds in every state of the lock.
LEMMA LockInvariant == Spec => [](TypeOK /\ LockInv)
<1>1. TypeOK /\ LockInv /\ [Next]_vars => TypeOK' /\ LockInv'
  BY LockTypeStep, LockStep
<1> QED
  BY <1>1, LockInit, PTL DEF Spec

\* For every number of CPUs tp_unlock undoes what its own tp_lock did: bottom
\* halves and interrupts are disabled by the contexts that need it only.
THEOREM FlavourRestored == Spec => []Restored
<1>1. TypeOK /\ LockInv => Restored
  BY DEF LockInv
<1> QED
  BY <1>1, LockInvariant, PTL

HIDE DEF Levels, proc, soft, irq

-----------------------------------------------------------------------------
(* The receive path, for every number and sequence of datagrams, with and  *)
(* without the removal of the tunnel; that each buffer has one end is said *)
(* of those that are neither empty nor malformed, and that nothing is left *)
(* behind of handovers in which none is refused.  First what its lists do, *)
(* which are in the order of the datagrams' numbers.                       *)

Ascending(s) == \A i, j \in 1 .. Len(s) : i < j => s[i] < s[j]

\* Everything in A was sent before everything in B.
Before(A, B) == \A a \in A, b \in B : a < b

\* A datagram is linked behind the others.
LEMMA AppendList ==
    ASSUME NEW s \in Seq(Nat), NEW e \in Nat
    PROVE  /\ Append(s, e) \in Seq(Nat) /\ Append(s, e) # <<>>
           /\ ToSet(Append(s, e)) = ToSet(s) \cup {e}
           /\ Ascending(s) /\ Before(ToSet(s), {e}) => Ascending(Append(s, e))
<1> DEFINE t == Append(s, e)
<1>1. /\ t \in Seq(Nat) /\ Len(s) \in Nat /\ Len(t) = Len(s) + 1
      /\ \A i \in 1 .. Len(s) : t[i] = s[i]
      /\ t[Len(s) + 1] = e
  BY AppendProperties, LenProperties
<1>2. t # <<>>
  BY <1>1, EmptySeq
<1>3. /\ ToSet(t) = {t[i] : i \in 1 .. Len(t)}
      /\ ToSet(s) = {s[i] : i \in 1 .. Len(s)}
  BY <1>1, LenProperties DEF ToSet
<1> HIDE DEF t
<1>4. ToSet(t) = ToSet(s) \cup {e}
  <2>1. ASSUME NEW x \in ToSet(t) PROVE x \in ToSet(s) \cup {e}
    <3>1. PICK i \in 1 .. Len(t) : x = t[i]
      BY <1>3, <2>1
    <3>2. i \in 1 .. Len(s) \/ i = Len(s) + 1
      BY <1>1
    <3> QED
      BY <1>1, <1>3, <3>1, <3>2
  <2>2. ASSUME NEW x \in ToSet(s) PROVE x \in ToSet(t)
    <3>1. PICK i \in 1 .. Len(s) : x = s[i]
      BY <1>3, <2>2
    <3>2. i \in 1 .. Len(t) /\ t[i] = x
      BY <1>1, <3>1
    <3> QED
      BY <1>3, <3>2
  <2>3. Len(s) + 1 \in 1 .. Len(t) /\ e \in ToSet(t)
    BY <1>1, <1>3
  <2> QED
    BY <2>1, <2>2, <2>3
<1>5. ASSUME Ascending(s), Before(ToSet(s), {e}) PROVE Ascending(t)
  <2>1. \A i \in 1 .. Len(s) : s[i] < e
    BY <1>3, <1>5 DEF Before
  <2>2. \A i \in 1 .. Len(t) : i \in 1 .. Len(s) \/ i = Len(s) + 1
    BY <1>1
  <2> SUFFICES ASSUME NEW i \in 1 .. Len(t), NEW j \in 1 .. Len(t), i < j
               PROVE  t[i] < t[j]
    BY DEF Ascending
  <2>3. i \in 1 .. Len(s) /\ t[i] = s[i]
    BY <1>1, SMTT(30)
  <2>4. CASE j \in 1 .. Len(s)
    BY <1>1, <1>5, <2>3, <2>4 DEF Ascending
  <2>5. CASE j = Len(s) + 1
    BY <1>1, <2>1, <2>3, <2>5
  <2> QED
    BY <2>2, <2>4, <2>5
<1> QED
  BY <1>1, <1>2, <1>4, <1>5 DEF t

\* The first datagram is taken off.
LEMMA TakeList ==
    ASSUME NEW s \in Seq(Nat), s # <<>>
    PROVE  /\ Head(s) \in Nat /\ Tail(s) \in Seq(Nat)
           /\ ToSet(s) = ToSet(Tail(s)) \cup {Head(s)}
           /\ Ascending(s) => /\ Ascending(Tail(s))
                              /\ Before({Head(s)}, ToSet(Tail(s)))
<1> DEFINE t == Tail(s)
<1>1. Len(s) \in Nat \ {0} /\ Head(s) = s[1] /\ \A i \in 1 .. Len(s) : s[i] \in Nat
  BY EmptySeq, ElementOfSeq
<1>2. /\ t \in Seq(Nat) /\ Len(t) = Len(s) - 1
      /\ \A i \in 1 .. Len(t) : t[i] = s[i + 1]
  BY <1>1, HeadTailProperties
<1>3. /\ ToSet(t) = {t[i] : i \in 1 .. Len(t)}
      /\ ToSet(s) = {s[i] : i \in 1 .. Len(s)}
  BY <1>2, LenProperties DEF ToSet
<1> HIDE DEF t
<1>4. ToSet(s) = ToSet(t) \cup {s[1]}
  <2>1. \A i \in 1 .. Len(s) : i = 1 \/ (i - 1 \in 1 .. Len(t) /\ t[i - 1] = s[i])
    BY <1>1, <1>2
  <2>2. ToSet(s) \subseteq ToSet(t) \cup {s[1]}
    <3> SUFFICES ASSUME NEW i \in 1 .. Len(s) PROVE s[i] \in ToSet(t) \cup {s[1]}
      BY <1>3
    <3> QED
      BY <1>3, <2>1
  <2>3. \A i \in 1 .. Len(t) : i + 1 \in 1 .. Len(s) /\ t[i] = s[i + 1]
    BY <1>1, <1>2
  <2>4. ToSet(t) \cup {s[1]} \subseteq ToSet(s)
    BY <1>1, <1>3, <2>3
  <2> QED
    BY <2>2, <2>4
<1>5. ASSUME Ascending(s) PROVE Ascending(t) /\ Before({s[1]}, ToSet(t))
  <2>1. \A i \in 1 .. Len(t) : i + 1 \in 1 .. Len(s) /\ t[i] = s[i + 1]
    BY <1>1, <1>2
  <2>2. Ascending(t)
    BY <1>5, <2>1 DEF Ascending
  <2>3. \A i \in 1 .. Len(t) : s[1] < t[i]
    BY <1>1, <1>5, <2>1 DEF Ascending
  <2> QED
    BY <1>3, <2>2, <2>3 DEF Before
<1> QED
  BY <1>1, <1>2, <1>4, <1>5 DEF t

LEMMA EmptyList == ToSet(<<>>) = {} /\ Ascending(<<>>)
  BY DEF ToSet, Ascending

-----------------------------------------------------------------------------
(* The invariant.  Datagrams pass from the backlog to the receive queue,   *)
(* to a hand, to netif_rx; at each moment those further on were sent       *)
(* before those behind them.                                               *)

Tasks == {ready, acc}

\* The datagrams somebody has taken off the queue.
Hands == {hand[ready], hand[acc]} \ {0}

\* The datagrams nobody has decided about yet.
Waiting == ToSet(rq) \cup ToSet(backlog) \cup Hands

Shape ==
    /\ kind \in Seq(AllKinds) /\ frees \in Seq(Nat) /\ Len(frees) = Len(kind)
    /\ rq \in Seq(Nat) /\ backlog \in Seq(Nat) /\ out \in Seq(Nat)
    /\ pc \in [Tasks -> {"idle", "elab", "lock", "drain", "release", "done"}]
    /\ hand \in [Tasks -> Nat]
    /\ rx_errors \in Nat

\* Who may run when: the socket is owned from lock_sock to release_sock, and
\* the hook runs meanwhile only when release_sock calls it.
Control ==
    /\ pc[ready] \in {"idle", "elab"}
    /\ \A c \in Tasks : hand[c] # 0 <=> pc[c] = "elab"
    /\ owned <=> pc[acc] \in {"drain", "elab", "release"}
    /\ owned /\ Busy => pc[acc] = "release"
    /\ ~owned => backlog = <<>>
    /\ pc[acc] # "idle" => hook = "tp_srv_data_ready"

Order ==
    /\ Ascending(out) /\ Ascending(rq) /\ Ascending(backlog)
    /\ Before(ToSet(out), Hands) /\ Before(ToSet(out), ToSet(rq))
    /\ Before(ToSet(out), ToSet(backlog))
    /\ Before(Hands, ToSet(rq)) /\ Before(Hands, ToSet(backlog))
    /\ Before(ToSet(rq), ToSet(backlog))
    /\ ToSet(out) \subseteq Sent /\ Waiting \subseteq Sent

Books ==
    /\ \A d \in Waiting : frees[d] = 0
    /\ Accounted

\* The drain leaves nothing for the hook unless it refuses a datagram.
Drained ==
    pc[acc] \in {"release", "done"} /\ rx_errors = 0 /\ ~tostop => rq = <<>>

RecvInv == Shape /\ Control /\ Order /\ Books /\ Drained

LEMMA RecvBegins == RecvInit => RecvInv
<1> SUFFICES ASSUME RecvInit PROVE RecvInv
  OBVIOUS
<1>1. Shape
  BY DEF RecvInit, Shape, Tasks, ready, acc
<1>2. Control /\ Drained
  BY DEF RecvInit, Control, Drained, Busy, Tasks, ready, acc
<1>3. Hands = {} /\ ToSet(rq) = {} /\ ToSet(backlog) = {} /\ ToSet(out) = {}
  BY EmptyList DEF RecvInit, Hands, ready, acc
<1>4. Order
  BY <1>3, EmptyList DEF RecvInit, Order, Before, Waiting
<1>5. Books
  <2>1. Sent = {}
    BY DEF RecvInit, Sent
  <2> QED
    BY <1>3, <2>1 DEF Books, Waiting, Accounted
<1> QED
  BY <1>1, <1>2, <1>4, <1>5 DEF RecvInv

-----------------------------------------------------------------------------
(* The three things that happen to datagrams.                              *)

\* The peer sends one more.
LEMMA NewDatagram ==
    ASSUME Shape, NEW k \in AllKinds,
           kind' = Append(kind, k), frees' = Append(frees, 0)
    PROVE  /\ kind' \in Seq(AllKinds) /\ frees' \in Seq(Nat)
           /\ Len(frees') = Len(kind')
           /\ Len(kind) + 1 \in Nat \ {0} /\ Sent' = Sent \cup {Len(kind) + 1}
           /\ Before(Sent, {Len(kind) + 1})
           /\ \A d \in Sent : kind'[d] = kind[d] /\ frees'[d] = frees[d]
           /\ frees'[Len(kind) + 1] = 0
<1>1. /\ Len(kind) \in Nat
      /\ Len(kind') = Len(kind) + 1 /\ Len(frees') = Len(frees) + 1
      /\ kind' \in Seq(AllKinds) /\ frees' \in Seq(Nat)
      /\ \A d \in 1 .. Len(kind) : kind'[d] = kind[d]
      /\ \A d \in 1 .. Len(frees) : frees'[d] = frees[d]
      /\ frees'[Len(frees) + 1] = 0
  BY AppendProperties, LenProperties DEF Shape
<1>2. Len(frees) = Len(kind)
  BY DEF Shape
<1> QED
  BY <1>1, <1>2 DEF Sent, Before

\* The hook is called with q as the receive queue, and nobody has a datagram
\* in hand.
LEMMA HookCalled ==
    ASSUME Shape, Control, ~Busy, pc[acc] # "elab",
           NEW q \in Seq(Nat), q # <<>>, Ascending(q), 0 \notin ToSet(q),
           DataReady(q)
    PROVE  /\ rq' \in Seq(Nat) /\ hand' \in [Tasks -> Nat]
           /\ pc' \in [Tasks -> {"idle", "elab", "lock", "drain", "release", "done"}]
           /\ pc'[acc] = pc[acc] /\ pc'[ready] \in {"idle", "elab"}
           /\ \A c \in Tasks : hand'[c] # 0 <=> pc'[c] = "elab"
           /\ ToSet(q) = ToSet(rq') \cup Hands'
           /\ Ascending(rq') /\ Before(Hands', ToSet(rq'))
           /\ hook = "tp_srv_data_ready" /\ ~tostop => rq' = Tail(q)
<1> USE DEF Shape, Control, Busy, Tasks, ready, acc
<1>1. hand[ready] = 0 /\ hand[acc] = 0
  OBVIOUS
<1>2. CASE rq' = q /\ UNCHANGED <<pc, hand>> /\ (hook = "tp_listen_ready" \/ tostop)
  <2>1. Hands' = {}
    BY <1>1, <1>2 DEF Hands
  <2> QED
    BY <1>2, <2>1 DEF Before
<1>3. CASE dorcv_datagram(ready, q) /\ Goes(ready, "elab")
  <2>1. /\ Head(q) \in Nat /\ Tail(q) \in Seq(Nat)
        /\ ToSet(q) = ToSet(Tail(q)) \cup {Head(q)}
        /\ Ascending(Tail(q)) /\ Before({Head(q)}, ToSet(Tail(q)))
    BY TakeList
  <2>2. Head(q) # 0
    BY <2>1
  <2>3. /\ rq' = Tail(q) /\ hand' = [hand EXCEPT !["tp_elab_data_ready"] = Head(q)]
        /\ pc' = [pc EXCEPT !["tp_elab_data_ready"] = "elab"]
    BY <1>3 DEF dorcv_datagram, Goes
  <2>4. Hands' = {Head(q)}
    BY <1>1, <2>1, <2>2, <2>3 DEF Hands
  <2> QED
    BY <1>1, <2>1, <2>2, <2>3, <2>4
<1> QED
  BY <1>2, <1>3 DEF DataReady

\* What mpdccptun_dorcv2 does with a datagram: but for the two kinds it gets
\* wrong, it gives the buffer away or frees it, once.
LEMMA OutcomeFacts ==
    ASSUME NEW k \in AllKinds, NEW o \in Outcomes(k)
    PROVE  /\ o.up \in BOOLEAN /\ o.failed \in BOOLEAN /\ o.freed \in Nat
           /\ k \notin {"empty", "badctl"} => o.freed = IF o.up THEN 0 ELSE 1
<1>1. \/ k = "empty" /\ o = Forget
      \/ k \in {"ctl", "badctl"} /\ o = ldt_prot1_recv(k)
      \/ k = "other" /\ o = Refuse
      \/ k \in {"ip", "frag"} /\ o \in rcv_prepare_skb(k)
  BY DEF AllKinds, Outcomes
<1>2. /\ Deliver.up = TRUE /\ Deliver.failed = FALSE /\ Deliver.freed = 0
      /\ Refuse.up = FALSE /\ Refuse.failed = TRUE /\ Refuse.freed = 1
      /\ Forget.up = FALSE /\ Forget.failed = FALSE /\ Forget.freed = 0
  BY DEF Deliver, Refuse, Forget
<1>3. k \in {"ctl", "badctl"} =>
         /\ ldt_prot1_recv(k).up = FALSE
         /\ ldt_prot1_recv(k).failed \in BOOLEAN
         /\ ldt_prot1_recv(k).freed = IF k = "badctl" THEN 2 ELSE 1
  BY DEF ldt_prot1_recv, Consume, Refuse
<1>4. o.up \in BOOLEAN
  BY <1>1, <1>2, <1>3, Zenon DEF rcv_prepare_skb
<1>5. o.failed \in BOOLEAN
  BY <1>1, <1>2, <1>3, Zenon DEF rcv_prepare_skb
<1>6. o.freed \in {0, 1, 2}
  BY <1>1, <1>2, <1>3, Zenon DEF rcv_prepare_skb
<1>7. k \notin {"empty", "badctl"} =>
         (o.up = TRUE /\ o.freed = 0) \/ (o.up = FALSE /\ o.freed = 1)
  BY <1>1, <1>2, <1>3, Zenon DEF rcv_prepare_skb
<1> QED
  BY <1>4, <1>5, <1>6, <1>7

\* The datagram in the hand of c is given away or freed.
LEMMA Decided ==
    ASSUME Shape, Order, Books, NEW c \in Tasks, hand[c] # 0,
           \A e \in Tasks : e # c => hand[e] = 0,
           NEW o \in Outcomes(kind[hand[c]]), elab_recv(c, o),
           UNCHANGED <<kind, rq, backlog>>
    PROVE  /\ frees' \in Seq(Nat) /\ Len(frees') = Len(frees)
           /\ out' \in Seq(Nat) /\ hand' \in [Tasks -> Nat]
           /\ \A e \in Tasks : hand'[e] = 0
           /\ rx_errors' \in Nat
           /\ rx_errors' = 0 => rx_errors = 0 /\ ~o.failed
           /\ Order' /\ Books'
<1> DEFINE d == hand[c]
<1>1. d \in Sent /\ d \in Nat /\ d \in Hands /\ d \in Waiting
  BY DEF Shape, Order, Hands, Waiting, Tasks
<1>2. Hands = {d} /\ Hands' = {} /\ hand' \in [Tasks -> Nat]
      /\ \A e \in Tasks : hand'[e] = 0
  BY DEF Shape, Hands, elab_recv, Tasks, ready, acc
<1>3. Sent = 1 .. Len(frees) /\ Sent' = Sent /\ kind[d] \in AllKinds
  BY <1>1, ElementOfSeq DEF Shape, Sent
<1>4. /\ o.up \in BOOLEAN /\ o.failed \in BOOLEAN /\ o.freed \in Nat
      /\ kind[d] \notin {"empty", "badctl"} => o.freed = IF o.up THEN 0 ELSE 1
  BY <1>3, OutcomeFacts
<1>5. frees[d] = 0
  BY <1>1 DEF Books
<1> HIDE DEF d
<1>6. /\ out' = IF o.up THEN Append(out, d) ELSE out
      /\ frees' = [frees EXCEPT ![d] = frees[d] + o.freed]
      /\ rx_errors' = rx_errors + (IF o.failed THEN 1 ELSE 0)
  BY DEF elab_recv, d
<1>7. /\ frees' \in Seq(Nat) /\ Len(frees') = Len(frees)
      /\ \A e \in Sent : frees'[e] = IF e = d THEN o.freed ELSE frees[e]
  <2>1. frees[d] + o.freed \in Nat /\ frees[d] + o.freed = o.freed
    BY <1>4, <1>5
  <2> QED
    BY <1>1, <1>3, <1>6, <2>1, ExceptSeq DEF Shape
<1>8. /\ out' \in Seq(Nat) /\ Ascending(out')
      /\ ToSet(out') = IF o.up THEN ToSet(out) \cup {d} ELSE ToSet(out)
  BY <1>1, <1>2, <1>6, AppendList DEF Shape, Order
<1>9. rx_errors' \in Nat /\ (rx_errors' = 0 => rx_errors = 0 /\ ~o.failed)
  BY <1>4, <1>6 DEF Shape
<1>10. ToSet(rq)' = ToSet(rq) /\ ToSet(backlog)' = ToSet(backlog)
  OBVIOUS
<1>11. Waiting' = Waiting \ {d}
  <2>1. d \notin ToSet(rq) \cup ToSet(backlog)
    BY <1>1, <1>2 DEF Order, Before
  <2> QED
    BY <1>2, <1>10, <2>1 DEF Waiting
<1>12. Order'
  BY <1>1, <1>2, <1>3, <1>8, <1>10, <1>11 DEF Order, Before
<1>13. \A e \in Waiting' : frees'[e] = 0
  BY <1>7, <1>11 DEF Order, Books
<1>14. Accounted'
  <2> SUFFICES ASSUME NEW e \in Sent,
                      kind[e] \notin {"empty", "badctl"}, e \notin Waiting'
               PROVE  frees'[e] + (IF e \in ToSet(out') THEN 1 ELSE 0) = 1
    BY <1>3 DEF Accounted, Waiting, Hands, Sent
  <2>1. CASE e = d
    <3>1. d \notin ToSet(out)
      BY <1>1, <1>2 DEF Order, Before
    <3> QED
      BY <1>4, <1>7, <1>8, <2>1, <3>1
  <2>2. CASE e # d
    <3>1. e \notin Waiting /\ e # 0
      BY <1>11, <2>2 DEF Sent
    <3>2. frees[e] + (IF e \in ToSet(out) THEN 1 ELSE 0) = 1
      BY <3>1 DEF Books, Accounted, Waiting, Hands
    <3> QED
      BY <1>7, <1>8, <2>2, <3>2
  <2> QED
    BY <2>1, <2>2
<1> QED
  BY <1>2, <1>7, <1>8, <1>9, <1>12, <1>13, <1>14 DEF Books

-----------------------------------------------------------------------------
(* The invariant is kept.                                                  *)

LEMMA RecvStep ==
    ASSUME RecvAssumption
    PROVE  RecvInv /\ [RecvNext]_recvVars => RecvInv'
<1> SUFFICES ASSUME RecvInv, [RecvNext]_recvVars PROVE RecvInv'
  OBVIOUS
<1>0. Shape /\ Control /\ Order /\ Books /\ Drained
  BY DEF RecvInv
<1> USE <1>0
<1>a. ready \in Tasks /\ acc \in Tasks /\ Tasks = {ready, acc} /\ ready # acc
  BY DEF Tasks, ready, acc
\* Where only a task moves, the datagrams stay where they are.
<1>b. ASSUME UNCHANGED <<kind, rq, backlog, hand, out, frees>>
      PROVE  Order' /\ Books'
  BY <1>b DEF Order, Books, Accounted, Waiting, Hands, Sent
<1>1. ASSUME NEW k \in Kinds, Arrive(k) PROVE RecvInv'
  <2> DEFINE n == Len(kind) + 1
             q == Append(rq, n)
  <2>1. k \in AllKinds
    BY DEF RecvAssumption
  <2>2. /\ ~Busy /\ ~owned /\ kind' = Append(kind, k) /\ frees' = Append(frees, 0)
        /\ DataReady(q)
        /\ UNCHANGED <<hook, owned, backlog, tostop, out, rx_errors>>
    BY <1>1 DEF Arrive
  <2>3. /\ kind' \in Seq(AllKinds) /\ frees' \in Seq(Nat)
        /\ Len(frees') = Len(kind')
        /\ n \in Nat \ {0} /\ Sent' = Sent \cup {n}
        /\ Before(Sent, {n})
        /\ \A d \in Sent : kind'[d] = kind[d] /\ frees'[d] = frees[d]
        /\ frees'[n] = 0
    BY <2>1, <2>2, NewDatagram
  <2> HIDE DEF n
  <2>4. Before(ToSet(rq), {n})
    BY <2>3 DEF Order, Waiting, Before
  <2>5. /\ q \in Seq(Nat) /\ q # <<>> /\ ToSet(q) = ToSet(rq) \cup {n}
        /\ Ascending(q)
    BY <2>3, <2>4, AppendList DEF Shape, Order
  <2>6. 0 \notin ToSet(q)
    BY <2>3, <2>5 DEF Order, Waiting, Sent
  <2>7. pc[acc] \notin {"drain", "elab", "release"} /\ backlog = <<>>
    BY <2>2 DEF Control
  <2>8. Hands = {}
    BY <1>a, <2>2, <2>7 DEF Hands, Control, Busy
  <2> HIDE DEF q
  <2>9. /\ rq' \in Seq(Nat) /\ hand' \in [Tasks -> Nat]
        /\ pc' \in [Tasks -> {"idle", "elab", "lock", "drain", "release", "done"}]
        /\ pc'[acc] = pc[acc] /\ pc'[ready] \in {"idle", "elab"}
        /\ \A c \in Tasks : hand'[c] # 0 <=> pc'[c] = "elab"
        /\ ToSet(q) = ToSet(rq') \cup Hands'
        /\ Ascending(rq') /\ Before(Hands', ToSet(rq'))
        /\ hook = "tp_srv_data_ready" /\ ~tostop => rq' = Tail(q)
    BY <2>2, <2>5, <2>6, <2>7, HookCalled
  <2>10. Shape'
    BY <2>2, <2>3, <2>9 DEF Shape
  <2>11. Control'
    BY <2>2, <2>7, <2>9 DEF Control
  <2>12. ToSet(backlog) = {} /\ ToSet(backlog') = {}
    BY <2>2, <2>7, EmptyList
  <2>13. Waiting' = Waiting \cup {n}
    BY <2>5, <2>8, <2>9, <2>12 DEF Waiting
  <2>14. Before(ToSet(out), ToSet(q))
    BY <2>3, <2>5 DEF Order, Before
  <2>15. Order'
    BY <2>2, <2>3, <2>9, <2>12, <2>13, <2>14 DEF Order, Before
  <2>16. Books'
    <3>1. \A d \in Waiting' : frees'[d] = 0
      BY <2>3, <2>13 DEF Books, Order
    <3>2. \A d \in Sent : d \in Waiting' <=> d \in Waiting
      BY <2>3, <2>13 DEF Before
    <3>3. n \in Waiting' /\ n \in Nat \ {0} /\ 0 \notin Sent
      BY <2>3, <2>13 DEF Sent
    <3>4. Accounted'
      <4> SUFFICES ASSUME NEW d \in Sent', kind'[d] \notin {"empty", "badctl"},
                          d \notin Waiting'
                   PROVE  frees'[d] + (IF d \in ToSet(out') THEN 1 ELSE 0) = 1
        BY <2>3, <3>3 DEF Accounted, Waiting, Hands
      <4>1. d \in Sent /\ d \notin Waiting /\ d # 0
        BY <2>3, <3>2, <3>3
      <4>2. frees[d] + (IF d \in ToSet(out) THEN 1 ELSE 0) = 1
        BY <2>3, <4>1 DEF Books, Accounted, Waiting, Hands
      <4> QED
        BY <2>2, <2>3, <4>1, <4>2
    <3> QED
      BY <3>1, <3>4 DEF Books
  <2>17. Drained'
    <3>1. CASE pc[acc] = "done" /\ rx_errors = 0 /\ ~tostop
      <4>1. hook = "tp_srv_data_ready" /\ rq = <<>>
        BY <3>1 DEF Control, Drained
      <4>2. Tail(q) = <<>>
        BY <4>1 DEF q
      <4> QED
        BY <2>9, <3>1, <4>1, <4>2 DEF Drained
    <3>2. CASE ~(pc[acc] = "done" /\ rx_errors = 0 /\ ~tostop)
      BY <2>2, <2>7, <2>9, <3>2 DEF Drained
    <3> QED
      BY <3>1, <3>2
  <2> QED
    BY <2>10, <2>11, <2>15, <2>16, <2>17 DEF RecvInv
<1>2. ASSUME NEW k \in Kinds, ArriveBacklog(k) PROVE RecvInv'
  <2> DEFINE n == Len(kind) + 1
  <2>1. k \in AllKinds
    BY DEF RecvAssumption
  <2>2. /\ owned /\ kind' = Append(kind, k) /\ frees' = Append(frees, 0)
        /\ backlog' = Append(backlog, n)
        /\ UNCHANGED <<hook, owned, rq, tostop, pc, hand, respawn, out, rx_errors>>
    BY <1>2 DEF ArriveBacklog
  <2>3. /\ kind' \in Seq(AllKinds) /\ frees' \in Seq(Nat)
        /\ Len(frees') = Len(kind')
        /\ n \in Nat \ {0} /\ Sent' = Sent \cup {n}
        /\ Before(Sent, {n})
        /\ \A d \in Sent : kind'[d] = kind[d] /\ frees'[d] = frees[d]
        /\ frees'[n] = 0
    BY <2>1, <2>2, NewDatagram
  <2> HIDE DEF n
  <2>4. Before(ToSet(backlog), {n})
    BY <2>3 DEF Order, Waiting, Before
  <2>5. /\ backlog' \in Seq(Nat) /\ ToSet(backlog') = ToSet(backlog) \cup {n}
        /\ Ascending(backlog')
    BY <2>2, <2>3, <2>4, AppendList DEF Shape, Order
  <2>6. Shape' /\ Control' /\ Drained'
    BY <2>2, <2>3, <2>5 DEF Shape, Control, Busy, Drained
  <2>7. Hands' = Hands /\ Waiting' = Waiting \cup {n}
    BY <2>2, <2>5 DEF Waiting, Hands
  <2>8. Order'
    <3>1. /\ Before(ToSet(out), {n}) /\ Before(ToSet(rq), {n}) /\ Before(Hands, {n})
      BY <2>3 DEF Order, Waiting, Before
    <3> QED
      BY <2>2, <2>3, <2>5, <2>7, <3>1 DEF Order, Before
  <2>9. Books'
    <3>1. \A d \in Waiting' : frees'[d] = 0
      BY <2>3, <2>7 DEF Books, Order
    <3>2. \A d \in Sent : d \in Waiting' <=> d \in Waiting
      BY <2>3, <2>7 DEF Before
    <3>3. n \in Waiting' /\ n \in Nat \ {0} /\ 0 \notin Sent
      BY <2>3, <2>7 DEF Sent
    <3>4. Accounted'
      <4> SUFFICES ASSUME NEW d \in Sent', kind'[d] \notin {"empty", "badctl"},
                          d \notin Waiting'
                   PROVE  frees'[d] + (IF d \in ToSet(out') THEN 1 ELSE 0) = 1
        BY <2>3, <3>3 DEF Accounted, Waiting, Hands
      <4>1. d \in Sent /\ d \notin Waiting /\ d # 0
        BY <2>3, <3>2, <3>3
      <4>2. frees[d] + (IF d \in ToSet(out) THEN 1 ELSE 0) = 1
        BY <2>3, <4>1 DEF Books, Accounted, Waiting, Hands
      <4> QED
        BY <2>2, <2>3, <4>1, <4>2
    <3> QED
      BY <3>1, <3>4 DEF Books
  <2> QED
    BY <2>6, <2>8, <2>9 DEF RecvInv
<1>3. CASE HookElab
  <2>1. PICK o \in Outcomes(kind[hand[ready]]) : elab_recv(ready, o)
    BY <1>3 DEF HookElab
  <2>2. /\ pc[ready] = "elab" /\ pc' = [pc EXCEPT ![ready] = "idle"]
        /\ UNCHANGED <<kind, hook, owned, rq, backlog, tostop, respawn>>
    BY <1>3 DEF HookElab, Goes
  <2>3. hand[ready] # 0 /\ pc[acc] # "elab" /\ hand[acc] = 0
    BY <1>a, <2>2 DEF Control, Busy
  <2>4. /\ frees' \in Seq(Nat) /\ Len(frees') = Len(frees)
        /\ out' \in Seq(Nat) /\ hand' \in [Tasks -> Nat]
        /\ \A e \in Tasks : hand'[e] = 0
        /\ rx_errors' \in Nat /\ (rx_errors' = 0 => rx_errors = 0)
        /\ Order' /\ Books'
    BY <1>a, <2>1, <2>2, <2>3, Decided
  <2>5. pc'[ready] = "idle" /\ pc'[acc] = pc[acc]
    BY <1>a, <2>2 DEF Shape
  <2>6. Shape'
    BY <1>a, <2>2, <2>4 DEF Shape
  <2>7. Control' /\ Drained'
    BY <1>a, <2>2, <2>3, <2>4, <2>5 DEF Control, Drained, Busy
  <2> QED
    BY <2>4, <2>6, <2>7 DEF RecvInv
<1>4. CASE InstallHook
  <2>1. Shape' /\ Control' /\ Drained'
    BY <1>4, <1>a DEF InstallHook, Goes, Shape, Control, Drained, Busy
  <2> QED
    BY <1>4, <1>b, <2>1 DEF InstallHook, RecvInv
<1>5. CASE LockSock
  <2>1. Shape' /\ Control' /\ Drained'
    BY <1>5, <1>a DEF LockSock, Goes, Shape, Control, Drained, Busy
  <2> QED
    BY <1>5, <1>b, <2>1 DEF LockSock, RecvInv
<1>6. CASE Drain
  <2>1. CASE (tostop \/ rq = <<>>) /\ Goes(acc, "release") /\ UNCHANGED <<rq, hand>>
    <3>1. Shape' /\ Control' /\ Drained'
      BY <1>6, <1>a, <2>1 DEF Drain, Goes, Shape, Control, Drained, Busy
    <3> QED
      BY <1>6, <1>b, <2>1, <3>1 DEF Drain, RecvInv
  <2>2. CASE rq # <<>> /\ dorcv_datagram(acc, rq) /\ Goes(acc, "elab")
    <3>1. /\ pc[acc] = "drain" /\ pc' = [pc EXCEPT ![acc] = "elab"]
          /\ hand' = [hand EXCEPT ![acc] = Head(rq)] /\ rq' = Tail(rq)
          /\ UNCHANGED <<kind, hook, owned, backlog, tostop, out, frees, rx_errors>>
      BY <1>6, <2>2 DEF Drain, Goes, dorcv_datagram
    <3>2. /\ Head(rq) \in Nat /\ rq' \in Seq(Nat)
          /\ ToSet(rq) = ToSet(rq') \cup {Head(rq)}
          /\ Ascending(rq') /\ Before({Head(rq)}, ToSet(rq'))
      BY <2>2, <3>1, TakeList DEF Shape, Order
    <3>3. Head(rq) # 0
      BY <3>2 DEF Order, Waiting, Sent
    <3>4. /\ owned /\ pc[ready] = "idle" /\ hand[ready] = 0 /\ hand[acc] = 0
      BY <1>a, <3>1 DEF Control, Busy
    <3>5. /\ hand'[ready] = 0 /\ hand'[acc] = Head(rq) /\ hand' \in [Tasks -> Nat]
          /\ pc'[ready] = "idle" /\ pc'[acc] = "elab"
      BY <1>a, <3>1, <3>2, <3>4 DEF Shape
    <3>6. Hands = {} /\ Hands' = {Head(rq)}
      BY <3>3, <3>4, <3>5 DEF Hands
    <3>7. Waiting' = Waiting /\ Sent' = Sent
      BY <3>1, <3>2, <3>6 DEF Waiting, Sent
    <3>8. Shape'
      BY <1>a, <3>1, <3>2, <3>5 DEF Shape
    <3>9. Control' /\ Drained'
      BY <1>a, <3>1, <3>3, <3>4, <3>5 DEF Control, Drained, Busy
    <3>10. Order'
      BY <3>1, <3>2, <3>6, <3>7 DEF Order, Before
    <3>11. Books'
      <4>1. \A d \in Sent :
              d \in Waiting <=>
                d \in ToSet(rq) \cup ToSet(backlog) \cup {hand[ready], hand[acc]}
        BY DEF Waiting, Hands, Sent
      <4>2. \A d \in Sent :
              d \in Waiting' <=>
                d \in ToSet(rq') \cup ToSet(backlog') \cup {hand'[ready], hand'[acc]}
        BY <3>7 DEF Waiting, Hands, Sent
      <4> QED
        BY <3>1, <3>7, <4>1, <4>2 DEF Books, Accounted
    <3> QED
      BY <3>8, <3>9, <3>10, <3>11 DEF RecvInv
  <2> QED
    BY <1>6, <2>1, <2>2 DEF Drain
<1>7. CASE DrainElab
  <2>1. PICK o \in Outcomes(kind[hand[acc]]) :
           elab_recv(acc, o) /\ Goes(acc, IF o.failed THEN "release" ELSE "drain")
    BY <1>7 DEF DrainElab
  <2>2. /\ pc[acc] = "elab"
        /\ UNCHANGED <<kind, hook, owned, rq, backlog, tostop, respawn>>
    BY <1>7 DEF DrainElab
  <2>3. owned /\ pc[ready] = "idle" /\ hand[acc] # 0 /\ hand[ready] = 0
    BY <1>a, <2>2 DEF Control, Busy
  <2>4. /\ frees' \in Seq(Nat) /\ Len(frees') = Len(frees)
        /\ out' \in Seq(Nat) /\ hand' \in [Tasks -> Nat]
        /\ \A e \in Tasks : hand'[e] = 0
        /\ rx_errors' \in Nat /\ (rx_errors' = 0 => rx_errors = 0 /\ ~o.failed)
        /\ Order' /\ Books'
    BY <1>a, <2>1, <2>2, <2>3, Decided
  <2>5. /\ pc'[ready] = "idle" /\ pc'[acc] \in {"release", "drain"}
        /\ pc'[acc] = "release" => o.failed
        /\ pc' \in [Tasks -> {"idle", "elab", "lock", "drain", "release", "done"}]
    BY <1>a, <2>1, <2>3 DEF Shape, Goes
  <2>6. Shape'
    BY <2>2, <2>4, <2>5 DEF Shape
  <2>7. Control' /\ Drained'
    BY <1>a, <2>2, <2>3, <2>4, <2>5 DEF Control, Drained, Busy
  <2> QED
    BY <2>4, <2>6, <2>7 DEF RecvInv
<1>8. CASE ReleaseNext
  <2> DEFINE q == Append(rq, Head(backlog))
  <2>1. /\ pc[acc] = "release" /\ ~Busy /\ backlog # <<>>
        /\ backlog' = Tail(backlog) /\ DataReady(q)
        /\ UNCHANGED <<kind, hook, owned, tostop, out, frees, rx_errors>>
    BY <1>8 DEF ReleaseNext
  <2>2. /\ Head(backlog) \in Nat /\ backlog' \in Seq(Nat)
        /\ ToSet(backlog) = ToSet(backlog') \cup {Head(backlog)}
        /\ Ascending(backlog') /\ Before({Head(backlog)}, ToSet(backlog'))
    BY <2>1, TakeList DEF Shape, Order
  <2>3. Before(ToSet(rq), {Head(backlog)})
    BY <2>2 DEF Order, Before
  <2>4. /\ q \in Seq(Nat) /\ q # <<>> /\ Ascending(q)
        /\ ToSet(q) = ToSet(rq) \cup {Head(backlog)}
    BY <2>2, <2>3, AppendList DEF Shape, Order
  <2>5. 0 \notin ToSet(q)
    BY <2>2, <2>4 DEF Order, Waiting, Sent
  <2>6. Hands = {} /\ owned
    BY <1>a, <2>1 DEF Hands, Control, Busy
  <2> HIDE DEF q
  <2>7. /\ rq' \in Seq(Nat) /\ hand' \in [Tasks -> Nat]
        /\ pc' \in [Tasks -> {"idle", "elab", "lock", "drain", "release", "done"}]
        /\ pc'[acc] = pc[acc] /\ pc'[ready] \in {"idle", "elab"}
        /\ \A c \in Tasks : hand'[c] # 0 <=> pc'[c] = "elab"
        /\ ToSet(q) = ToSet(rq') \cup Hands'
        /\ Ascending(rq') /\ Before(Hands', ToSet(rq'))
        /\ hook = "tp_srv_data_ready" /\ ~tostop => rq' = Tail(q)
    BY <2>1, <2>4, <2>5, HookCalled
  <2>8. Shape'
    BY <2>1, <2>2, <2>7 DEF Shape
  <2>9. Control'
    BY <2>1, <2>6, <2>7 DEF Control
  <2>10. Waiting' = Waiting /\ Sent' = Sent
    BY <2>1, <2>2, <2>4, <2>6, <2>7 DEF Waiting, Sent
  <2>11. Order'
    <3>1. /\ Before(ToSet(out), ToSet(q)) /\ Before(ToSet(q), ToSet(backlog'))
          /\ Before(ToSet(out), ToSet(backlog'))
      BY <2>2, <2>4 DEF Order, Before
    <3> QED
      BY <2>1, <2>2, <2>7, <2>10, <3>1 DEF Order, Before
  <2>12. Books'
    <3>1. \A d \in Sent :
            d \in Waiting <=>
              d \in ToSet(rq) \cup ToSet(backlog) \cup {hand[ready], hand[acc]}
      BY DEF Waiting, Hands, Sent
    <3>2. \A d \in Sent :
            d \in Waiting' <=>
              d \in ToSet(rq') \cup ToSet(backlog') \cup {hand'[ready], hand'[acc]}
      BY <2>10 DEF Waiting, Hands, Sent
    <3> QED
      BY <2>1, <2>10, <3>1, <3>2 DEF Books, Accounted
  <2>13. Drained'
    <3>1. CASE rx_errors = 0 /\ ~tostop
      <4>1. hook = "tp_srv_data_ready" /\ rq = <<>>
        BY <2>1, <3>1 DEF Control, Drained
      <4>2. Tail(q) = <<>>
        BY <4>1 DEF q
      <4> QED
        BY <2>7, <3>1, <4>1, <4>2 DEF Drained
    <3>2. CASE ~(rx_errors = 0 /\ ~tostop)
      BY <2>1, <3>2 DEF Drained
    <3> QED
      BY <3>1, <3>2
  <2> QED
    BY <2>8, <2>9, <2>11, <2>12, <2>13 DEF RecvInv
<1>9. CASE ReleaseSock
  <2>1. Shape' /\ Control' /\ Drained'
    BY <1>9, <1>a DEF ReleaseSock, Goes, Shape, Control, Drained, Busy
  <2> QED
    BY <1>9, <1>b, <2>1 DEF ReleaseSock, RecvInv
<1>10. CASE AcceptAgain
  BY <1>10, <1>b DEF AcceptAgain, Shape, Control, Drained, Busy, RecvInv
<1>11. CASE Stop
  BY <1>11, <1>b DEF Stop, Shape, Control, Drained, Busy, RecvInv
<1>12. CASE UNCHANGED recvVars
  BY <1>12, <1>b DEF recvVars, Shape, Control, Drained, Busy, RecvInv
<1> QED
  BY <1>1, <1>2, <1>3, <1>4, <1>5, <1>6, <1>7, <1>8, <1>9, <1>10, <1>11,
     <1>12 DEF RecvNext, accept_handler

\* Whatever the peer sends, and whenever accept_handler installs its hook and
\* drains the queue: packets reach the network stack in the order in which
\* they were sent, a well-formed datagram is given away or freed once, and
\* unless one was refused, the drain leaves none behind that every later one
\* would have to wait for.
THEOREM Received ==
    ASSUME RecvAssumption
    PROVE  RecvSpec => []RecvSound
<1>1. RecvInv /\ [RecvNext]_recvVars => RecvInv'
  BY RecvStep
<1>2. RecvInv => RecvSound
  <2> SUFFICES ASSUME RecvInv PROVE RecvSound
    OBVIOUS
  <2>1. InOrder
    BY LenProperties DEF RecvInv, Shape, Order, InOrder, Ascending
  <2>2. NothingLeft
    BY DEF RecvInv, Control, Drained, NothingLeft
  <2> QED
    BY <2>1, <2>2 DEF RecvInv, Books, RecvSound
<1> QED
  BY <1>1, <1>2, RecvBegins, PTL DEF RecvSpec

-----------------------------------------------------------------------------
(* The registry of tunnel types, for every number of types, entries and    *)
(* finders: the list is sound, and it implements the set of TypeRegistry.  *)

Link == Cell \cup {Null}

-----------------------------------------------------------------------------
(* What the pointer operations do to the entries a walk over the list      *)
(* reaches.  These are the least set that is closed under the pointers, so *)
(* that each inclusion is shown by a closed set.                           *)

LEMMA Least ==
    ASSUME RegAssumption, NEW h \in Link, NEW n \in [Cell -> Link]
    PROVE  /\ Reached(h, n) \subseteq Cell
           /\ Closed(h, n, Reached(h, n))
           /\ \A S \in SUBSET Cell : Closed(h, n, S) => Reached(h, n) \subseteq S
<1>1. Reached(h, n) \subseteq Cell
  BY DEF Reached
<1>2. \A S \in SUBSET Cell : Closed(h, n, S) => Reached(h, n) \subseteq S
  BY DEF Reached
<1>3. h # Null => h \in Reached(h, n)
  BY DEF Reached, Closed, Link
<1>4. ASSUME NEW c \in Reached(h, n), n[c] # Null
      PROVE  n[c] \in Reached(h, n)
  <2>1. c \in Cell /\ n[c] \in Cell
    BY <1>1, <1>4 DEF Link
  <2>2. ASSUME NEW S \in SUBSET Cell, Closed(h, n, S) PROVE n[c] \in S
    BY <1>2, <1>4, <2>2 DEF Closed
  <2> QED
    BY <2>1, <2>2 DEF Reached
<1> QED
  BY <1>1, <1>2, <1>3, <1>4 DEF Closed

\* A new entry in front of the list is reached, and nothing is lost.
LEMMA Push ==
    ASSUME RegAssumption, NEW h \in Link, NEW n \in [Cell -> Link],
           NEW p \in Cell, p \notin Reached(h, n),
           NEW m \in [Cell -> Link], m[p] = h, \A c \in Cell : c # p => m[c] = n[c]
    PROVE  Reached(p, m) = Reached(h, n) \cup {p}
<1> DEFINE R == Reached(h, n)
<1>2. R \subseteq Cell /\ Closed(h, n, R)
      /\ \A S \in SUBSET Cell : Closed(h, n, S) => R \subseteq S
  BY Least
<1>3. Reached(p, m) \subseteq Cell /\ Closed(p, m, Reached(p, m))
      /\ \A S \in SUBSET Cell : Closed(p, m, S) => Reached(p, m) \subseteq S
  BY Least DEF Link
<1> HIDE DEF R
<1>4. Closed(p, m, R \cup {p})
  BY <1>2 DEF Closed
<1>5. p \in Reached(p, m)
  BY <1>3 DEF Closed, RegAssumption
<1>6. Closed(h, n, Reached(p, m) \cap R)
  BY <1>2, <1>3, <1>5 DEF Closed, R
<1>7. Reached(p, m) \subseteq R \cup {p}
  <2>1. R \cup {p} \in SUBSET Cell
    BY <1>2
  <2> QED
    BY <1>3, <1>4, <2>1
<1>8. R \subseteq Reached(p, m)
  <2>1. Reached(p, m) \cap R \in SUBSET Cell
    BY <1>2
  <2>2. R \subseteq Reached(p, m) \cap R
    BY <1>2, <1>6, <2>1
  <2> QED
    BY <2>2
<1>9. Reached(p, m) = R \cup {p}
  BY <1>5, <1>7, <1>8
<1> QED
  BY <1>9 DEF R

\* The list without its first entry, if no pointer leads back to it.
LEMMA Pop ==
    ASSUME RegAssumption, NEW p \in Cell, NEW n \in [Cell -> Link],
           \A c \in Reached(p, n) : n[c] # p
    PROVE  Reached(n[p], n) = Reached(p, n) \ {p}
<1> DEFINE R == Reached(p, n)
           Q == Reached(n[p], n)
<1>1. R \subseteq Cell /\ Closed(p, n, R)
      /\ \A S \in SUBSET Cell : Closed(p, n, S) => R \subseteq S
  BY Least DEF Link
<1>2. Q \subseteq Cell /\ Closed(n[p], n, Q)
      /\ \A S \in SUBSET Cell : Closed(n[p], n, S) => Q \subseteq S
  BY Least
<1> HIDE DEF Q
<1>3. p \in R
  BY <1>1 DEF Closed, RegAssumption
<1>4. Closed(n[p], n, R \ {p})
  BY <1>1, <1>3 DEF Closed
<1>5. Closed(p, n, Q \cup {p})
  BY <1>2 DEF Closed
<1> HIDE DEF R
<1> QED
  BY <1>1, <1>2, <1>4, <1>5 DEF Q, R

\* An entry that is not the first is bypassed by the only one that leads to it.
LEMMA Bypass ==
    ASSUME RegAssumption, NEW h \in Link, NEW n \in [Cell -> Link],
           NEW p \in Reached(h, n), NEW q \in Reached(h, n),
           p # h, n[q] = p, \A c \in Reached(h, n) : n[c] = p => c = q, n[p] # p,
           NEW m \in [Cell -> Link],
           m[q] = n[p], \A c \in Cell : c # q => m[c] = n[c]
    PROVE  Reached(h, m) = Reached(h, n) \ {p}
<1> DEFINE R == Reached(h, n)
           Q == Reached(h, m)
<1>1. R \subseteq Cell /\ Closed(h, n, R)
      /\ \A S \in SUBSET Cell : Closed(h, n, S) => R \subseteq S
  BY Least
<1>2. p \in Cell /\ q \in Cell /\ q # p
  BY <1>1
<1>3. Q \subseteq Cell /\ Closed(h, m, Q)
      /\ \A S \in SUBSET Cell : Closed(h, m, S) => Q \subseteq S
  BY Least
<1> HIDE DEF Q
<1>4. Closed(h, m, R \ {p})
  BY <1>1, <1>2 DEF Closed
<1> DEFINE T == ((Q \cap R) \ {p}) \cup (IF q \in Q THEN {p} ELSE {})
<1>5. Closed(h, n, T)
  <2>1. h = Null \/ h \in T
    BY <1>1, <1>3 DEF Closed
  <2>2. ASSUME NEW c \in (Q \cap R) \ {p} PROVE n[c] = Null \/ n[c] \in T
    BY <1>1, <1>2, <1>3 DEF Closed
  <2>3. q \in Q => n[p] = Null \/ n[p] \in T
    BY <1>1, <1>2, <1>3 DEF Closed
  <2> QED
    BY <2>1, <2>2, <2>3 DEF Closed
<1>6. T \in SUBSET Cell
  BY <1>1, <1>2
<1> HIDE DEF R
<1>7. Q \subseteq R \ {p}
  <2>1. R \ {p} \in SUBSET Cell
    BY <1>1
  <2> QED
    BY <1>3, <1>4, <2>1
<1>8. R \subseteq T
  BY <1>1, <1>5, <1>6
<1>9. Q = R \ {p}
  BY <1>7, <1>8
<1> QED
  BY <1>9 DEF R, Q

\* A pointer of an entry that is not reached does not matter.
LEMMA Elsewhere ==
    ASSUME RegAssumption, NEW h \in Link, NEW n \in [Cell -> Link],
           NEW m \in [Cell -> Link], \A c \in Reached(h, n) : m[c] = n[c]
    PROVE  Reached(h, m) = Reached(h, n)
<1> DEFINE R == Reached(h, n)
           Q == Reached(h, m)
<1>1. R \subseteq Cell /\ Closed(h, n, R)
      /\ \A S \in SUBSET Cell : Closed(h, n, S) => R \subseteq S
  BY Least
<1>2. Q \subseteq Cell /\ Closed(h, m, Q)
      /\ \A S \in SUBSET Cell : Closed(h, m, S) => Q \subseteq S
  BY Least
<1> HIDE DEF Q
<1>3. Closed(h, m, R)
  BY <1>1 DEF Closed
<1>4. Closed(h, n, Q \cap R)
  BY <1>1, <1>2 DEF Closed
<1> QED
  BY <1>1, <1>2, <1>3, <1>4 DEF R, Q

-----------------------------------------------------------------------------
(* The invariant.                                                          *)

Types ==
    /\ tun_reg_list \in Link
    /\ next \in [Cell -> Link] /\ prev \in [Cell -> Link]
    /\ type \in [Cell -> Type \cup {Null}]
    /\ live \subseteq Cell /\ dying \in live \cup {Null}

\* The pointers lead back and forth, but for the head's prev, which nobody may
\* follow, and no pointer leads to the head.
Linked ==
    /\ \A c \in Chain \ {tun_reg_list} : prev[c] \in Chain /\ next[prev[c]] = c
    /\ \A c \in Chain : next[c] # Null => prev[next[c]] = c /\ next[c] # tun_reg_list

\* A type is registered once.
Once ==
    /\ \A c \in Chain : type[c] \in Type
    /\ \A c, d \in Chain : type[c] = type[d] => c = d

RegInv == Types /\ Chain = live \ {dying} /\ Linked /\ Once

LEMMA RegBegins ==
    ASSUME RegAssumption
    PROVE  RegInit => RegInv
<1> SUFFICES ASSUME RegInit PROVE RegInv
  OBVIOUS
<1>1. Types
  BY DEF RegInit, Types, Link
<1>2. Chain = {}
  <2>1. Closed(tun_reg_list, next, {})
    BY DEF RegInit, Closed
  <2> QED
    BY <2>1 DEF Chain, Reached
<1> QED
  BY <1>1, <1>2 DEF RegInit, RegInv, Linked, Once

\* What the steps other than registration, removal and freeing may change does
\* not touch the list.
LEMMA RegOther ==
    RegInv /\ UNCHANGED <<tun_reg_list, next, prev, type, live, dying>> => RegInv'
  BY DEF RegInv, Types, Linked, Once, Chain

\* The entries in the list, and the pointers between them.
LEMMA ChainFacts ==
    ASSUME RegAssumption, RegInv
    PROVE  /\ Chain \subseteq Cell /\ Null \notin Chain
           /\ tun_reg_list = Null \/ tun_reg_list \in Chain
           /\ \A c \in Chain : next[c] = Null \/ next[c] \in Chain
           /\ \A c \in Chain : next[c] # c
<1>1. /\ Chain \subseteq Cell /\ Closed(tun_reg_list, next, Chain)
      /\ \A S \in SUBSET Cell : Closed(tun_reg_list, next, S) => Chain \subseteq S
  BY Least DEF RegInv, Types, Chain
<1>2. Null \notin Cell
  BY DEF RegAssumption
<1>3. ASSUME NEW c \in Chain, next[c] = c PROVE FALSE
  <2>1. c # Null /\ prev[c] = c /\ c # tun_reg_list
    BY <1>1, <1>2, <1>3 DEF RegInv, Linked
  <2>2. \A d \in Chain \ {c} : next[d] # c
    BY <2>1 DEF RegInv, Linked
  <2>3. Closed(tun_reg_list, next, Chain \ {c})
    BY <1>1, <2>1, <2>2 DEF Closed
  <2>4. Chain \ {c} \in SUBSET Cell
    BY <1>1
  <2> QED
    BY <1>1, <1>3, <2>3, <2>4
<1> QED
  BY <1>1, <1>2, <1>3 DEF Closed

LEMMA RegRegister ==
    ASSUME RegAssumption, RegInv, NEW t \in Type, ldt_tun_register(t)
    PROVE  /\ RegInv'
           /\ \E p \in Cell \ Chain : /\ Chain' = Chain \cup {p} /\ type'[p] = t
                                     /\ \A c \in Chain : type'[c] = type[c]
<1>1. PICK p \in Cell \ live :
         /\ live' = live \cup {p}
         /\ type' = [type EXCEPT ![p] = t]
         /\ next' = [next EXCEPT ![p] = tun_reg_list]
         /\ prev' = IF tun_reg_list = Null THEN [prev EXCEPT ![p] = p]
                    ELSE [prev EXCEPT ![p] = prev[tun_reg_list],
                                      ![tun_reg_list] = p]
         /\ tun_reg_list' = p
  BY DEF ldt_tun_register
<1>2. tun_reg_find(t) = {} /\ dying' = dying
  BY DEF ldt_tun_register
<1>3. p \notin Chain /\ p # dying /\ p # Null
  BY DEF RegInv, RegAssumption, Types
<1>4. /\ Chain \subseteq Cell /\ Null \notin Chain
      /\ tun_reg_list = Null \/ tun_reg_list \in Chain
      /\ \A c \in Chain : next[c] = Null \/ next[c] \in Chain
  BY ChainFacts
<1>5. Chain' = Chain \cup {p}
  <2>1. /\ tun_reg_list \in Link /\ next \in [Cell -> Link]
        /\ p \in Cell /\ p \notin Reached(tun_reg_list, next)
    BY <1>3 DEF Chain, RegInv, Types
  <2>2. /\ next' \in [Cell -> Link] /\ next'[p] = tun_reg_list
        /\ \A c \in Cell : c # p => next'[c] = next[c]
    BY <1>1, <2>1
  <2>3. Reached(p, next') = Reached(tun_reg_list, next) \cup {p}
    BY <2>1, <2>2, Push
  <2> QED
    BY <1>1, <2>3 DEF Chain
<1>6. Types'
  BY <1>1, <1>2, <1>4 DEF RegInv, Types, Link
<1>7. /\ next'[p] = tun_reg_list /\ \A c \in Chain : next'[c] = next[c]
      /\ type'[p] = t /\ \A c \in Chain : type'[c] = type[c]
      /\ \A c \in Chain \ {tun_reg_list} : prev'[c] = prev[c]
      /\ tun_reg_list # Null => prev'[tun_reg_list] = p
  BY <1>1, <1>3, <1>4 DEF RegInv, Types
<1>8. Linked'
  <2>1. ASSUME NEW c \in Chain PROVE prev'[c] \in Chain' /\ next'[prev'[c]] = c
    <3>1. CASE c = tun_reg_list
      BY <1>3, <1>4, <1>5, <1>7, <3>1
    <3>2. CASE c # tun_reg_list
      BY <1>5, <1>7, <3>2 DEF RegInv, Linked
    <3> QED
      BY <3>1, <3>2
  <2>2. ASSUME NEW c \in Chain, next[c] # Null
        PROVE  prev'[next[c]] = c /\ next[c] # p
    BY <1>3, <1>4, <1>7, <2>2 DEF RegInv, Linked
  <2>3. tun_reg_list # Null => prev'[tun_reg_list] = p /\ tun_reg_list # p
    BY <1>3, <1>4, <1>7
  <2> QED
    BY <1>1, <1>5, <1>7, <2>1, <2>2, <2>3 DEF Linked
<1>9. \A c \in Chain : type[c] # t
  BY <1>2 DEF tun_reg_find
<1>10. Once'
  BY <1>5, <1>7, <1>9 DEF RegInv, Once
<1>11. Chain' = live' \ {dying'}
  BY <1>1, <1>2, <1>3, <1>5 DEF RegInv
<1> QED
  BY <1>3, <1>5, <1>6, <1>7, <1>8, <1>10, <1>11 DEF RegInv

LEMMA RegUnregister ==
    ASSUME RegAssumption, RegInv, NEW t \in Type, ldt_tun_unregister(t)
    PROVE  /\ RegInv' /\ type' = type
           /\ \E p \in Chain : Chain' = Chain \ {p} /\ type[p] = t
<1>1. PICK p \in tun_reg_find(t) :
         /\ prev' = IF next[p] = Null THEN prev
                    ELSE [prev EXCEPT ![next[p]] = prev[p]]
         /\ IF p = tun_reg_list
               THEN tun_reg_list' = next[p] /\ UNCHANGED next
               ELSE /\ next' = [next EXCEPT ![prev[p]] = next[p]]
                    /\ UNCHANGED tun_reg_list
         /\ dying' = p
  BY DEF ldt_tun_unregister
<1>2. dying = Null /\ UNCHANGED <<type, live>>
  BY DEF ldt_tun_unregister
<1>3. p \in Chain /\ type[p] = t
  BY DEF tun_reg_find
<1>4. /\ Chain \subseteq Cell /\ Null \notin Chain
      /\ tun_reg_list = Null \/ tun_reg_list \in Chain
      /\ \A c \in Chain : next[c] = Null \/ next[c] \in Chain
      /\ \A c \in Chain : next[c] # c
  BY ChainFacts
<1>5. \A c \in Chain \ {p} : (next[p] # Null /\ c = next[p]) \/ prev'[c] = prev[c]
  BY <1>1, <1>4 DEF RegInv, Types
<1>6. next[p] # Null => prev'[next[p]] = prev[p] /\ prev[next[p]] = p
  BY <1>1, <1>3, <1>4 DEF RegInv, Types, Linked
<1>7. Chain' = Chain \ {p} /\ Linked' /\ tun_reg_list' \in Link /\ next' \in [Cell -> Link]
  <2>1. CASE p = tun_reg_list
    <3>1. tun_reg_list' = next[p] /\ next' = next
      BY <1>1, <2>1
    <3>2. \A c \in Chain : next[c] # p
      BY <1>3, <1>4, <2>1 DEF RegInv, Linked
    <3>3. Chain' = Chain \ {p}
      BY <1>3, <1>4, <2>1, <3>1, <3>2, Pop DEF Chain, RegInv, Types
    <3>4. ASSUME NEW c \in Chain \ {p}, c # next[p]
          PROVE  prev'[c] \in Chain' /\ next[prev'[c]] = c
      <4>1. prev'[c] = prev[c] /\ prev[c] \in Chain /\ next[prev[c]] = c
        BY <1>5, <2>1, <3>4 DEF RegInv, Linked
      <4> QED
        BY <3>3, <3>4, <4>1
    <3>5. ASSUME NEW c \in Chain \ {p}, next[c] # Null
          PROVE  prev'[next[c]] = c /\ next[c] # next[p]
      <4>1. prev[next[c]] = c /\ next[c] \in Chain \ {p}
        BY <1>4, <3>2, <3>5 DEF RegInv, Linked
      <4>2. next[c] # next[p]
        BY <1>6, <3>5, <4>1
      <4> QED
        BY <1>5, <4>1, <4>2
    <3> QED
      BY <1>3, <1>4, <3>1, <3>3, <3>4, <3>5 DEF RegInv, Types, Linked
  <2>2. CASE p # tun_reg_list
    <3>1. /\ tun_reg_list' = tun_reg_list
          /\ next' = [next EXCEPT ![prev[p]] = next[p]]
      BY <1>1, <2>2
    <3>2. prev[p] \in Chain /\ next[prev[p]] = p /\ prev[p] # p
      BY <1>3, <1>4, <2>2 DEF RegInv, Linked
    <3>3. \A c \in Chain : next[c] = p => c = prev[p]
      BY <1>3, <1>4 DEF RegInv, Linked
    <3>4. Chain' = Chain \ {p}
      <4>1. tun_reg_list \in Link /\ next \in [Cell -> Link]
        BY DEF RegInv, Types
      <4>2. /\ p \in Reached(tun_reg_list, next)
            /\ prev[p] \in Reached(tun_reg_list, next)
            /\ \A c \in Reached(tun_reg_list, next) : next[c] = p => c = prev[p]
            /\ next[p] # p
        BY <1>3, <1>4, <3>2, <3>3 DEF Chain
      <4>3. /\ next' \in [Cell -> Link] /\ next'[prev[p]] = next[p]
            /\ \A c \in Cell : c # prev[p] => next'[c] = next[c]
        BY <1>3, <1>4, <3>1, <3>2, <4>1
      <4>4. Reached(tun_reg_list, next') = Reached(tun_reg_list, next) \ {p}
        BY <2>2, <3>2, <4>1, <4>2, <4>3, Bypass
      <4> QED
        BY <3>1, <4>4 DEF Chain
    <3>5. /\ next' \in [Cell -> Link] /\ next'[prev[p]] = next[p]
          /\ \A c \in Chain : c # prev[p] => next'[c] = next[c]
      BY <1>3, <1>4, <3>1, <3>2 DEF RegInv, Types
    <3>6. ASSUME NEW c \in Chain \ {p, tun_reg_list}
          PROVE  prev'[c] \in Chain \ {p} /\ next'[prev'[c]] = c
      <4>1. prev[c] \in Chain /\ next[prev[c]] = c
        BY <3>6 DEF RegInv, Linked
      <4>2. CASE c = next[p]
        BY <1>4, <1>6, <3>2, <3>5, <4>2
      <4>3. CASE c # next[p]
        <5>1. prev'[c] = prev[c] /\ prev[c] # p
          BY <1>5, <4>1, <4>3
        <5>2. prev[c] # prev[p]
          BY <3>2, <3>6, <4>1
        <5> QED
          BY <3>5, <4>1, <5>1, <5>2
      <4> QED
        BY <4>2, <4>3
    <3>7. ASSUME NEW c \in Chain \ {p}, next'[c] # Null
          PROVE  prev'[next'[c]] = c /\ next'[c] # tun_reg_list
      <4>1. CASE c = prev[p]
        BY <1>3, <1>6, <3>5, <3>7, <4>1 DEF RegInv, Linked
      <4>2. CASE c # prev[p]
        <5>1. next'[c] = next[c] /\ next[c] # p /\ next[c] \in Chain
          BY <1>4, <3>3, <3>5, <3>7, <4>2
        <5>2. prev[next[c]] = c /\ next[c] # tun_reg_list
          BY <3>7, <5>1 DEF RegInv, Linked
        <5>3. next[c] # next[p]
          BY <1>6, <3>7, <5>1, <5>2
        <5> QED
          BY <1>5, <5>1, <5>2, <5>3
      <4> QED
        BY <4>1, <4>2
    <3> QED
      BY <3>1, <3>4, <3>5, <3>6, <3>7 DEF RegInv, Types, Linked
  <2> QED
    BY <2>1, <2>2
<1>8. Types'
  BY <1>1, <1>2, <1>3, <1>4, <1>7 DEF RegInv, Types, Link
<1>9. Chain' = live' \ {dying'}
  <2>1. live = Chain
    BY <1>2 DEF RegInv, Types, RegAssumption
  <2> QED
    BY <1>1, <1>2, <1>7, <2>1
<1>10. Once'
  BY <1>2, <1>7 DEF RegInv, Once
<1> QED
  BY <1>2, <1>3, <1>7, <1>8, <1>9, <1>10 DEF RegInv

LEMMA RegFree ==
    ASSUME RegAssumption, RegInv, Free
    PROVE  /\ RegInv' /\ Chain' = Chain
           /\ \A c \in Chain : type'[c] = type[c]
<1>1. /\ dying # Null /\ dying \in Cell /\ dying \notin Chain
      /\ next' = [next EXCEPT ![dying] = Null]
      /\ prev' = [prev EXCEPT ![dying] = Null]
      /\ type' = [type EXCEPT ![dying] = Null]
      /\ live' = live \ {dying} /\ dying' = Null /\ tun_reg_list' = tun_reg_list
  BY DEF Free, RegInv, Types
<1>2. /\ Chain \subseteq Cell /\ Null \notin Chain
      /\ \A c \in Chain : next[c] = Null \/ next[c] \in Chain
  BY ChainFacts
<1>3. Chain' = Chain
  <2>1. /\ tun_reg_list \in Link
        /\ next \in [Cell -> Link] /\ next' \in [Cell -> Link]
        /\ \A c \in Reached(tun_reg_list, next) : next'[c] = next[c]
    BY <1>1, <1>2 DEF Chain, RegInv, Types, Link
  <2>2. Reached(tun_reg_list, next') = Reached(tun_reg_list, next)
    BY <2>1, Elsewhere
  <2> QED
    BY <1>1, <2>2 DEF Chain
<1>4. \A c \in Chain : next'[c] = next[c] /\ prev'[c] = prev[c] /\ type'[c] = type[c]
  BY <1>1, <1>2 DEF RegInv, Types
<1>5. Types'
  BY <1>1 DEF RegInv, Types, Link
<1>6. Chain' = live' \ {dying'}
  BY <1>1, <1>2, <1>3 DEF RegInv
<1>7. Linked' /\ Once'
  BY <1>1, <1>2, <1>3, <1>4 DEF RegInv, Linked, Once
<1> QED
  BY <1>3, <1>4, <1>5, <1>6, <1>7 DEF RegInv

LEMMA RegStep ==
    ASSUME RegAssumption
    PROVE  RegInv /\ [RegNext]_regVars => RegInv'
<1> SUFFICES ASSUME RegInv, [RegNext]_regVars PROVE RegInv'
  OBVIOUS
<1>1. ASSUME NEW t \in Type, Rejected(t) PROVE RegInv'
  BY <1>1, RegOther DEF Rejected
<1>2. ASSUME NEW t \in Type, ldt_tun_register(t) PROVE RegInv'
  BY <1>2, RegRegister
<1>3. ASSUME NEW t \in Type, ldt_tun_unregister(t) PROVE RegInv'
  BY <1>3, RegUnregister
<1>4. CASE Free
  BY <1>4, RegFree
<1>5. ASSUME NEW f \in Finder, NEW t \in Type, tp_findtun(f, t) PROVE RegInv'
  BY <1>5, RegOther DEF tp_findtun
<1>6. ASSUME NEW f \in Finder, ldt_tun_init(f) PROVE RegInv'
  BY <1>6, RegOther DEF ldt_tun_init
<1>7. ASSUME NEW f \in Finder, ldt_tun_remove(f) PROVE RegInv'
  BY <1>7, RegOther DEF ldt_tun_remove
<1>8. CASE UNCHANGED regVars
  BY <1>8, RegOther DEF regVars
<1> QED
  BY <1>1, <1>2, <1>3, <1>4, <1>5, <1>6, <1>7, <1>8 DEF RegNext

\* The list holds exactly the entries that are registered, and every prev
\* pointer but the head's leads to the predecessor, through all registrations
\* and removals.
THEOREM ListKept ==
    ASSUME RegAssumption
    PROVE  RegSpec => []ListSound
<1>1. RegInit => RegInv
  BY RegBegins
<1>2. RegInv /\ [RegNext]_regVars => RegInv'
  BY RegStep
<1>3. RegInv => ListSound
  BY DEF RegInv, Linked, ListSound
<1> QED
  BY <1>1, <1>2, <1>3, PTL DEF RegSpec

-----------------------------------------------------------------------------
(* The refinement.                                                         *)

\* A type is found in the list if it is in the set.
LEMMA FindRight ==
    ASSUME NEW t \in Type
    PROVE  t \in {type[c] : c \in Chain} <=> tun_reg_find(t) # {}
  BY DEF tun_reg_find

\* Every step of the list is a step of the set, or leaves it as it is.
LEMMA StepImplements ==
    ASSUME RegAssumption, RegInv, [RegNext]_regVars
    PROVE  [Registry!Next]_(Registry!vars)
<1> DEFINE reg == {type[c] : c \in Chain}
<1> USE DEF Registry!Answer, Answer
<1>a. UNCHANGED <<tun_reg_list, next, type>> => reg' = reg
  BY DEF Chain
<1>1. ASSUME NEW t \in Type, Rejected(t) PROVE Registry!Register(t)
  BY <1>1, <1>a, FindRight DEF Rejected, Registry!Register
<1>2. ASSUME NEW t \in Type, ldt_tun_register(t) PROVE Registry!Register(t)
  <2>1. PICK p \in Cell \ Chain : /\ Chain' = Chain \cup {p} /\ type'[p] = t
                                  /\ \A c \in Chain : type'[c] = type[c]
    BY <1>2, RegRegister
  <2>2. reg' = reg \cup {t}
    BY <2>1
  <2>3. t \notin reg
    BY <1>2, FindRight DEF ldt_tun_register
  <2> QED
    BY <1>2, <2>2, <2>3 DEF ldt_tun_register, Registry!Register
<1>3. ASSUME NEW t \in Type, ldt_tun_unregister(t) PROVE Registry!Unregister(t)
  <2>1. PICK p \in Chain : Chain' = Chain \ {p} /\ type[p] = t /\ type' = type
    BY <1>3, RegUnregister
  <2>2. reg' = reg \ {t}
    BY <2>1 DEF RegInv, Once
  <2> QED
    BY <1>3, <2>2 DEF ldt_tun_unregister, Registry!Unregister
<1>4. CASE Free
  <2>1. reg' = reg
    BY <1>4, RegFree
  <2> QED
    BY <1>4, <2>1 DEF Free, Registry!vars
<1>5. ASSUME NEW f \in Finder, NEW t \in Type, tp_findtun(f, t)
      PROVE  Registry!Lookup(f, t)
  BY <1>5, <1>a, FindRight DEF tp_findtun, Registry!Lookup
<1>6. ASSUME NEW f \in Finder, ldt_tun_init(f) PROVE UNCHANGED Registry!vars
  BY <1>6, <1>a DEF ldt_tun_init, Registry!vars
<1>7. ASSUME NEW f \in Finder, ldt_tun_remove(f) PROVE Registry!Forget(f)
  BY <1>7, <1>a DEF ldt_tun_remove, Registry!Forget, Registry!None
<1>8. CASE UNCHANGED regVars
  BY <1>8, <1>a DEF regVars, Registry!vars
<1> QED
  BY <1>1, <1>2, <1>3, <1>4, <1>5, <1>6, <1>7, <1>8 DEF RegNext, Registry!Next

\* The list under its mutex implements the set of types: a type is registered
\* at most once, and a lookup finds it if and only if it is there.
THEOREM RegistryImplemented ==
    ASSUME RegAssumption
    PROVE  RegSpec => RegImplements
<1>1. RegInit => RegInv /\ Registry!Init
  <2>1. RegInit => RegInv
    BY RegBegins
  <2>2. RegInit => Chain = {}
    BY <2>1 DEF RegInit, RegInv
  <2> QED
    BY <2>1, <2>2 DEF RegInit, Registry!Init, Registry!None
<1>2. RegInv /\ [RegNext]_regVars => RegInv'
  BY RegStep
<1>3. RegInv /\ [RegNext]_regVars => [Registry!Next]_(Registry!vars)
  BY StepImplements
<1>4. RegSpec => []ListSound
  BY ListKept
<1> QED
  BY <1>1, <1>2, <1>3, <1>4, PTL DEF RegSpec, RegImplements, Implements, Registry!Spec

-----------------------------------------------------------------------------
(* The addresses of a tunnel, for all addresses and ports of users and of  *)
(* devices.  AddrInv relates each mark of the tunnel's addresses to the    *)
(* value that was last set: the marks decide what ldt_tunaddr_prt shows.   *)

Sockaddr == [fam : Families, ip : Nat, port : Nat]

AddrTypeOK ==
    /\ tad \in [laddr : Sockaddr, raddr : Sockaddr, ipv6 : BOOLEAN,
                anyladdr : BOOLEAN, anylport : BOOLEAN, anyraddr : BOOLEAN,
                hasraddr : BOOLEAN, bound : BOOLEAN, lport : Nat]
    /\ devip \in Nat \cup {NoIp}
    /\ gotip \in Nat /\ gotport \in Nat /\ gotpeer \in Sockaddr

LocalTrue ==
    tad.bound =>
        /\ tad.laddr.ip = gotip /\ tad.laddr.port = gotport
        /\ tad.lport = gotport
        /\ tad.anyladdr = (gotip = 0) /\ tad.anylport = (gotport = 0)

PeerTrue ==
    /\ tad.raddr = gotpeer
    /\ tad.anyraddr = (gotpeer.ip = 0) /\ tad.hasraddr = (gotpeer.ip # 0)

AddrInv == AddrTypeOK /\ LocalTrue /\ PeerTrue

\* What ldt_tunaddr_bind writes when it succeeds.
LEMMA BoundFacts ==
    ASSUME AddrInv, NEW ad \in Sockaddr, NEW addrchg \in BOOLEAN,
           CanBind(ad, addrchg), tad' = Bound(ad, addrchg), gotip' = ad.ip,
           gotport' = IF addrchg THEN gotport ELSE ad.port,
           UNCHANGED <<gotpeer, devip>>
    PROVE  AddrInv'
<1> USE DEF AddrInv, AddrTypeOK, Sockaddr
<1>1. /\ tad'.laddr \in Sockaddr /\ tad'.laddr.ip = ad.ip
      /\ tad'.laddr.port = IF addrchg THEN tad.laddr.port ELSE ad.port
  BY DEF Bound
<1>2. /\ tad'.raddr = tad.raddr /\ tad'.ipv6 = tad.ipv6
      /\ tad'.anyraddr = tad.anyraddr /\ tad'.hasraddr = tad.hasraddr
  BY DEF Bound
<1>3. /\ tad'.anyladdr = (ad.ip = 0) /\ tad'.bound = TRUE
      /\ tad'.anylport = IF addrchg THEN tad.anylport ELSE ad.port = 0
      /\ tad'.lport = IF addrchg THEN tad.lport ELSE ad.port
  BY DEF Bound
<1>4. AddrTypeOK'
  BY DEF Bound
<1>5. addrchg => tad.bound
  BY DEF CanBind
<1>6. LocalTrue'
  BY <1>1, <1>3, <1>5 DEF LocalTrue
<1>7. PeerTrue'
  BY <1>2 DEF PeerTrue
<1> QED
  BY <1>4, <1>6, <1>7

\* The address a rebind finds is one, whatever the device has.
LEMMA RebindKeeps ==
    ASSUME AddrAssumption, AddrInv, NEW addrchg \in BOOLEAN,
           ldt_tun_rebind(addrchg), UNCHANGED <<devip, gotpeer>>
    PROVE  AddrInv'
<1>1. CASE UNCHANGED <<tad, gotip, gotport>>
  BY <1>1 DEF AddrInv, AddrTypeOK, LocalTrue, PeerTrue
<1>2. ASSUME NEW ad \in DeviceAddr, tad.ipv6 \/ devip # NoIp,
             CanBind(ad, addrchg), tad' = Bound(ad, addrchg), gotip' = ad.ip,
             gotport' = IF addrchg THEN gotport ELSE ad.port
      PROVE  AddrInv'
  <2>1. ad \in Sockaddr
    <3>1. CASE devip = NoIp
      BY <1>2, <3>1 DEF DeviceAddr, Addrs, AddrAssumption, Sockaddr
    <3>2. CASE devip # NoIp
      BY <1>2, <3>2 DEF DeviceAddr, AnyAddr, AddrInv, AddrTypeOK, Sockaddr, Families
    <3> QED
      BY <3>1, <3>2
  <2> QED
    BY <1>2, <2>1, BoundFacts
<1> QED
  BY <1>1, <1>2 DEF ldt_tun_rebind

LEMMA PeerKeeps ==
    ASSUME AddrAssumption, AddrInv, NEW ad \in Addrs, ldt_tun_peer(ad)
    PROVE  AddrInv'
<1> USE DEF AddrInv, AddrTypeOK, Sockaddr
<1>1. ad \in Sockaddr
  BY DEF Addrs, AddrAssumption
<1>2. /\ tad' = Peered(ad) /\ gotpeer' = ad
      /\ UNCHANGED <<devip, gotip, gotport>>
  BY DEF ldt_tun_peer
<1>3. AddrTypeOK'
  BY <1>1, <1>2 DEF Peered
<1>4. LocalTrue'
  BY <1>2 DEF Peered, LocalTrue
<1>5. PeerTrue'
  BY <1>2 DEF Peered, PeerTrue
<1> QED
  BY <1>3, <1>4, <1>5

LEMMA AddrStep ==
    ASSUME AddrAssumption
    PROVE  AddrInv /\ [AddrNext]_addrVars => AddrInv'
<1> SUFFICES ASSUME AddrInv, [AddrNext]_addrVars PROVE AddrInv'
  OBVIOUS
<1>1. ASSUME NEW ad \in Addrs, ldt_tun_bind(ad) PROVE AddrInv'
  <2>1. ad \in Sockaddr
    BY DEF Addrs, AddrAssumption, Sockaddr
  <2> QED
    BY <1>1, <2>1, BoundFacts DEF ldt_tun_bind
<1>2. ASSUME NEW ad \in Addrs, ldt_tun_peer(ad) PROVE AddrInv'
  BY <1>2, PeerKeeps
<1>3. CASE Bind2Dev
  BY <1>3, RebindKeeps DEF Bind2Dev
<1>4. CASE DeviceUp
  BY <1>4, RebindKeeps DEF DeviceUp
<1>5. CASE DeviceAddressChanges
  BY <1>5 DEF DeviceAddressChanges, DevAddrs, AddrAssumption,
              AddrInv, AddrTypeOK, LocalTrue, PeerTrue
<1>6. CASE UNCHANGED addrVars
  BY <1>6 DEF addrVars, AddrInv, AddrTypeOK, LocalTrue, PeerTrue
<1> QED
  BY <1>1, <1>2, <1>3, <1>4, <1>5, <1>6 DEF AddrNext

LEMMA AddrBegins ==
    ASSUME AddrAssumption, AddrInit
    PROVE  AddrInv
<1>1. PICK v6 \in Ipv6 :
         /\ tad = [laddr |-> AnyAddr(v6), raddr |-> AnyAddr(v6), ipv6 |-> v6,
                   anyladdr |-> FALSE, anylport |-> FALSE, anyraddr |-> TRUE,
                   hasraddr |-> FALSE, bound |-> FALSE, lport |-> 0]
         /\ gotpeer = AnyAddr(v6)
  BY DEF AddrInit
<1>2. v6 \in BOOLEAN /\ AnyAddr(v6) \in Sockaddr /\ AnyAddr(v6).ip = 0
  BY DEF AddrAssumption, AnyAddr, Sockaddr, Families
<1>3. gotip = 0 /\ gotport = 0 /\ devip \in Nat \cup {NoIp}
  BY DEF AddrInit, DevAddrs, AddrAssumption
<1>4. AddrTypeOK
  BY <1>1, <1>2, <1>3 DEF AddrTypeOK
<1>5. LocalTrue /\ PeerTrue
  BY <1>1, <1>2 DEF LocalTrue, PeerTrue
<1> QED
  BY <1>4, <1>5 DEF AddrInv

\* The marks decide what is shown, and AddrInv says that they are right.
LEMMA AddrShown == AddrInv => PortKept /\ ReportTrue
<1> SUFFICES ASSUME AddrInv PROVE PortKept /\ ReportTrue
  OBVIOUS
<1> USE DEF AddrInv, AddrTypeOK, Sockaddr
<1>1. PortKept
  BY DEF PortKept, LocalTrue
<1>2. tad.bound => Report.locaddr = gotip /\ Report.locport = gotport
  BY DEF Report, LocalTrue
<1>3. tad.bound => (Report.actlocport # None <=> gotport = 0)
  BY DEF Report, LocalTrue, None
<1>4. /\ Report.remaddr = gotpeer.ip
      /\ gotpeer.ip # 0 => Report.remport = gotpeer.port
      /\ Report.actremaddr = None
  BY DEF Report, PeerTrue
<1> QED
  BY <1>1, <1>2, <1>3, <1>4 DEF ReportTrue

-----------------------------------------------------------------------------
(* The sysctls.  With one writer at a time the level and the debug setting *)
(* agree between two writes, and within one as far as it has come; what    *)
(* old_loglevel holds does not matter for a setting that is on.            *)

Agree == tp_cfg_enable_debug > 0 => tp_cfg_loglevel = tp_cfg_enable_debug + 6

SysctlInv ==
    /\ tp_cfg_loglevel \in 0 .. 9 /\ old_loglevel \in 0 .. 9
    /\ tp_cfg_enable_debug \in 0 .. 3
    /\ stage \in [Writers -> {"idle", "save", "level", "derive", "debug", "restore"}]
    /\ val \in [Writers -> 0 .. 9]
    /\ \A w \in Writers :
          /\ stage[w] = "idle" => Agree
          /\ stage[w] = "derive" => tp_cfg_loglevel = val[w]
          /\ stage[w] = "debug" => val[w] \in 0 .. 3
          /\ stage[w] = "restore" => val[w] \in 0 .. 3 /\ tp_cfg_enable_debug = val[w]

LEMMA SysctlStep ==
    ASSUME NEW w, Writers = {w}
    PROVE  SysctlInv /\ [SysctlNext]_sysctlVars => SysctlInv'
<1> SUFFICES ASSUME SysctlInv, [SysctlNext]_sysctlVars PROVE SysctlInv'
  OBVIOUS
<1> USE DEF SysctlInv, Agree, Then
<1>1. CASE Write(w)
  BY <1>1 DEF Write
<1>2. CASE SaveLevel(w)
  BY <1>2 DEF SaveLevel
<1>3. CASE SetLevel(w)
  BY <1>3 DEF SetLevel
<1>4. CASE DeriveDebug(w)
  BY <1>4 DEF DeriveDebug
<1>5. CASE SetDebug(w)
  BY <1>5 DEF SetDebug
<1>6. CASE DeriveLevel(w)
  BY <1>6 DEF DeriveLevel
<1>7. CASE UNCHANGED sysctlVars
  BY <1>7 DEF sysctlVars
<1> QED
  BY <1>1, <1>2, <1>3, <1>4, <1>5, <1>6, <1>7
     DEF SysctlNext, proc_loglevel, proc_debug

\* What a user has set is what the module uses and shows: for all addresses,
\* ports and devices, and if the two files are written by one process at a
\* time (nothing in proc_loglevel and proc_debug keeps two apart).
THEOREM SettingsShown ==
    ASSUME AddrAssumption, NEW w, Writers = {w}
    PROVE  SettingsSpec => []SettingsTrue
<1>1. AddrInit => AddrInv
  BY AddrBegins
<1>2. AddrInv /\ [AddrNext]_addrVars => AddrInv'
  BY AddrStep
<1>3. SysctlInit => SysctlInv
  BY DEF SysctlInit, SysctlInv, Agree
<1>4. SysctlInv /\ [SysctlNext]_sysctlVars => SysctlInv'
  BY SysctlStep
<1>5. SysctlInv => DebugOnTrue
  BY DEF SysctlInv, Agree, DebugOnTrue, Quiet, Verbosity
<1>6. AddrInv /\ SysctlInv => SettingsTrue
  BY <1>5, AddrShown DEF SettingsTrue
<1> QED
  BY <1>1, <1>2, <1>3, <1>4, <1>6, PTL DEF SettingsSpec, AddrSpec, SysctlSpec

-----------------------------------------------------------------------------
(* The minute of grace.                                                    *)

LEMMA ModSmall ==
    ASSUME NEW a \in Nat, NEW b \in Nat, a < b
    PROVE  a % b = a
  OBVIOUS

LEMMA ModWrapped ==
    ASSUME NEW a \in Nat, NEW b \in Nat, b <= a, a < 2 * b
    PROVE  a % b = a - b
<1>1. a - b \in 0 .. b - 1 /\ a = b + (a - b)
  OBVIOUS
<1> QED
  BY <1>1

\* The counter and the noted time are below Width, and as long as the counter has
\* wrapped at most once since the last report, their distance is the time passed
\* since then.
GraceInv ==
    /\ ticks \in 0 .. MaxTicks /\ told \in {Never} \cup (0 .. MaxTicks)
    /\ told <= ticks /\ turns \in Nat
    /\ jiffies \in 0 .. Width - 1 /\ last_unconnect \in 0 .. Width - 1
    /\ told # Never =>
          /\ turns = 0 => jiffies = last_unconnect + (ticks - told)
          /\ turns = 1 => jiffies + Width = last_unconnect + (ticks - told)

\* Every tick, report and replacement of the socket keeps GraceInv.
LEMMA GraceStep ==
    ASSUME GraceAssumption
    PROVE  GraceInv /\ [GraceNext]_graceVars => GraceInv'
<1> SUFFICES ASSUME GraceInv, [GraceNext]_graceVars PROVE GraceInv'
  OBVIOUS
<1> USE DEF GraceInv, GraceAssumption, Never
<1>1. CASE Tick
  <2>1. CASE jiffies + 1 = Width
    <3>1. (jiffies + 1) % Width = 0
      BY <2>1, ModWrapped
    <3> QED
      BY <1>1, <2>1, <3>1 DEF Tick
  <2>2. CASE jiffies + 1 # Width
    <3>1. (jiffies + 1) % Width = jiffies + 1
      BY <2>2, ModSmall
    <3> QED
      BY <1>1, <2>2, <3>1 DEF Tick
  <2> QED
    BY <2>1, <2>2
<1>2. CASE Connected
  BY <1>2 DEF Connected
<1>3. CASE mpdccptun_linkdown
  BY <1>3 DEF mpdccptun_linkdown
<1>4. CASE mpdccptun_closesk
  BY <1>4 DEF mpdccptun_closesk
<1>5. CASE UNCHANGED graceVars
  BY <1>5 DEF graceVars
<1> QED
  BY <1>1, <1>2, <1>3, <1>4, <1>5 DEF GraceNext

\* For every width and first value of the counter, every length of the minute and
\* of the run, the wraps of the counter included: after mpdccptun_linkdown
\* mpdccptun_check_enqueue lets packets in for a minute after the last report and
\* no longer, from the wrap on if the counter wraps in that minute, and up to the
\* next wrap if it does not.
THEOREM GraceKept ==
    ASSUME GraceAssumption
    PROVE  GraceSpec => []GraceAfterDown
<1>1. GraceInit => GraceInv
  BY DEF GraceInit, GraceInv, GraceAssumption, Never
<1>2. GraceInv /\ [GraceNext]_graceVars => GraceInv'
  BY GraceStep
<1>3. GraceInv => GraceAfterDown
  <2> SUFFICES ASSUME GraceInv, wasconnected, ~isconnected, told # Never
               PROVE  /\ turns = WrapsInMinute => (MayEnqueue <=> InGrace)
                      /\ turns < WrapsInMinute => InGrace /\ ~MayEnqueue
    BY DEF GraceAfterDown
  <2> USE DEF GraceInv, GraceAssumption, Never
  <2>1. CASE last_unconnect + Minute < Width
    <3>1. (last_unconnect + Minute) % Width = last_unconnect + Minute
      BY <2>1, ModSmall
    <3> QED
      BY <2>1, <3>1 DEF MayEnqueue, InGrace, WrapsInMinute
  <2>2. CASE ~(last_unconnect + Minute < Width)
    <3>1. /\ last_unconnect + Minute \in Nat /\ Width \in Nat
          /\ Width <= last_unconnect + Minute /\ last_unconnect + Minute < 2 * Width
      BY <2>2
    <3>2. (last_unconnect + Minute) % Width = (last_unconnect + Minute) - Width
      <4> DEFINE end == last_unconnect + Minute
      <4>1. end \in Nat /\ Width \in Nat /\ Width <= end /\ end < 2 * Width
        BY <3>1
      <4> HIDE DEF end
      <4>2. end % Width = end - Width
        BY <4>1, ModWrapped
      <4> QED
        BY <4>2 DEF end
    <3> QED
      BY <2>2, <3>2 DEF MayEnqueue, InGrace, WrapsInMinute
  <2> QED
    BY <2>1, <2>2
<1> QED
  BY <1>1, <1>2, <1>3, PTL DEF GraceSpec
=============================================================================
