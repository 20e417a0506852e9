---------------------------- MODULE LdtDevProofs ----------------------------
(***************************************************************************)
(* Theorems about the network devices, for every number of devices and of  *)
(* physical devices.  They speak of the time before the module is          *)
(* unloaded: notif is TRUE until then, and never again afterwards.         *)
(***************************************************************************)
EXTENDS LdtDev, SequenceTheorems, FiniteSetTheorems, TLAPS

\* A list that holds every entry once.
Once(s) == \A i, j \in 1 .. Len(s) : s[i] = s[j] => i = j

\* Where the command handler and the notifier are.
Control ==
    /\ pc["h"] \in {"idle", "add", "lock", "suspend", "change", "put", "free",
                    "close", "unlist", "unregister", "wait"}
    /\ (cur["h"] = Null) <=> (pc["h"] = "idle")
    /\ pc["n"] \in {"idle", "tell"}
    /\ (cur["n"] = Null) <=> (pc["n"] = "idle")
    /\ (rtnl = "n") <=> (pc["n"] = "tell")
    /\ pc["x"] = "idle" /\ cur["x"] = Null /\ nxt = Null
    /\ cmd = "bind2dev" /\ pc["h"] = "lock" => arg["h"] \in Pdev

\* Whoever works on a device works on one that is registered, but for the
\* command that has unregistered it.
Alive ==
    /\ \A d \in Dev : state[d] = "gone" <=> (cur["h"] = d /\ pc["h"] = "wait")
    /\ \A d \in Dev : cur["n"] = d \/ cur["h"] = d => state[d] # "free"

\* The lists: for_each_netdev finds what is registered; ldt_dev_list lacks a
\* device that is being created or removed.
Lists ==
    /\ Once(netdevs) /\ Once(devlist)
    /\ \A d \in Dev : d \in ToSet(netdevs) <=> state[d] = "registered"
    /\ \A d \in ToSet(devlist) :
          /\ state[d] = "registered"
          /\ cur["h"] = d => pc["h"] \notin {"add", "unregister", "wait"}

\* Only a registered device is up, and only one that is up transmits.
Used == \A d \in Dev : d \in xmit \/ up[d] => state[d] = "registered"

\* A device is not active only while a command is at work on it, and then it
\* is not the one that asks ldt_free_dev for the first time.
Active ==
    \A d \in Dev : state[d] = "registered" =>
        active[d] \/ (cur["h"] = d /\ pc["h"] \in {"change", "unlist", "unregister"})

\* bind2dev holds the physical device before it is written to tdev->pdev.
Bound(p) == cmd = "bind2dev" /\ pc["h"] = "lock" /\ arg["h"] = p

On(f, p) == {d \in Dev : f[d] = p}

PdevCount ==
    \A p \in Pdev : prefs[p] >= Cardinality(On(pdev, p)) + One(Bound(p))

\* What was told of a device a command is at work on.
Told ==
    \A d \in Dev :
        /\ evtun[d] \in {"user", IF tun[d] THEN "up" ELSE "down"}
        /\ evif[d] \in {"user", IF \/ state[d] # "registered"
                                   \/ cur["h"] = d /\ pc["h"] \in {"unlist", "unregister"}
                                   THEN "down" ELSE "up"}

DevInv ==
    TypeOK /\ Control /\ Alive /\ Lists /\ Used /\ Active /\ RefsBalanced
      /\ PdevCount /\ Told

LoadedInv == notif => DevInv

-----------------------------------------------------------------------------
(* What the operations on the lists do to what they hold.                  *)

\* A set of numbers has a smallest one, so that Min is one of them.
LEMMA SmallestOf ==
    ASSUME NEW I, I \subseteq Nat, I # {}
    PROVE  Min(I) \in I
<1> DEFINE R == OpToRel(<, Nat)
<1>1. PICK x \in I : \A y \in I : <<y, x>> \notin R
  <2>1. IsWellFoundedOn(R, Nat)
    BY NatLessThanWellFounded
  <2> HIDE DEF R
  <2> QED
    BY <2>1, WFMin
<1>2. \A y \in I : ~(y < x)
  BY <1>1 DEF OpToRel
<1>3. \A y \in I : x <= y
  BY <1>2
<1> QED
  BY <1>3 DEF Min

\* list_add_tail and hlist_add_head add a device.
LEMMA AppendOnce ==
    ASSUME NEW s \in Seq(Dev), NEW e \in Dev
    PROVE  /\ Append(s, e) \in Seq(Dev)
           /\ ToSet(Append(s, e)) = ToSet(s) \cup {e}
           /\ Once(s) /\ e \notin ToSet(s) => Once(Append(s, e))
<1> DEFINE t == Append(s, e)
<1>1. /\ t \in Seq(Dev) /\ Len(s) \in Nat /\ Len(t) = Len(s) + 1
      /\ \A i \in 1 .. Len(s) : t[i] = s[i]
      /\ t[Len(s) + 1] = e
  BY AppendProperties, LenProperties
<1>2. /\ ToSet(t) = {t[i] : i \in 1 .. Len(t)}
      /\ ToSet(s) = {s[i] : i \in 1 .. Len(s)}
  BY <1>1, LenProperties DEF ToSet
<1> HIDE DEF t
<1>3. \A i \in 1 .. Len(t) : i \in 1 .. Len(s) \/ i = Len(s) + 1
  BY <1>1
<1>4. ToSet(t) \subseteq ToSet(s) \cup {e}
  BY <1>1, <1>2, <1>3
<1>5. ToSet(s) \cup {e} \subseteq ToSet(t)
  <2>1. ASSUME NEW i \in 1 .. Len(s) PROVE s[i] \in ToSet(t)
    <3>1. i \in 1 .. Len(t) /\ t[i] = s[i]
      BY <1>1
    <3> QED
      BY <1>2, <3>1
  <2>2. e \in ToSet(t)
    <3>1. Len(s) + 1 \in 1 .. Len(t)
      BY <1>1
    <3> QED
      BY <1>1, <1>2, <3>1
  <2> QED
    BY <1>2, <2>1, <2>2
<1>6. ASSUME Once(s), e \notin ToSet(s) PROVE Once(t)
  <2> SUFFICES ASSUME NEW i \in 1 .. Len(t), NEW j \in 1 .. Len(t), t[i] = t[j]
               PROVE  i = j
    BY DEF Once
  <2>1. \A k \in 1 .. Len(s) : t[k] # e
    BY <1>1, <1>2, <1>6
  <2> QED
    BY <1>1, <1>3, <1>6, <2>1 DEF Once
<1> QED
  BY <1>1, <1>4, <1>5, <1>6 DEF t

LEMMA ConsOnce ==
    ASSUME NEW s \in Seq(Dev), NEW e \in Dev
    PROVE  /\ <<e>> \o s \in Seq(Dev)
           /\ ToSet(<<e>> \o s) = ToSet(s) \cup {e}
           /\ Once(s) /\ e \notin ToSet(s) => Once(<<e>> \o s)
<1> DEFINE t == <<e>> \o s
<1>0. <<e>> \in Seq(Dev) /\ Len(<<e>>) = 1 /\ <<e>>[1] = e
  OBVIOUS
<1>1. /\ t \in Seq(Dev) /\ Len(s) \in Nat /\ Len(t) = 1 + Len(s)
      /\ \A i \in 1 .. 1 + Len(s) : t[i] = IF i <= 1 THEN <<e>>[i] ELSE s[i - 1]
  BY <1>0, ConcatProperties, LenProperties
<1>2. /\ ToSet(t) = {t[i] : i \in 1 .. Len(t)}
      /\ ToSet(s) = {s[i] : i \in 1 .. Len(s)}
  BY <1>1, LenProperties DEF ToSet
<1> HIDE DEF t
<1>3. /\ t[1] = e
      /\ \A i \in 1 .. Len(t) : i # 1 => i - 1 \in 1 .. Len(s) /\ t[i] = s[i - 1]
  BY <1>0, <1>1
<1>4. ToSet(t) \subseteq ToSet(s) \cup {e}
  BY <1>2, <1>3
<1>5. ToSet(s) \cup {e} \subseteq ToSet(t)
  <2>1. ASSUME NEW i \in 1 .. Len(s) PROVE s[i] \in ToSet(t)
    <3>1. i + 1 \in 1 .. Len(t) /\ t[i + 1] = s[i]
      BY <1>1
    <3> QED
      BY <1>2, <3>1
  <2>2. e \in ToSet(t)
    <3>1. 1 \in 1 .. Len(t)
      BY <1>1
    <3> QED
      BY <1>2, <1>3, <3>1
  <2> QED
    BY <1>2, <2>1, <2>2
<1>6. ASSUME Once(s), e \notin ToSet(s) PROVE Once(t)
  <2> SUFFICES ASSUME NEW i \in 1 .. Len(t), NEW j \in 1 .. Len(t), t[i] = t[j]
               PROVE  i = j
    BY DEF Once
  <2>1. \A k \in 1 .. Len(t) : k # 1 => t[k] # e
    BY <1>2, <1>3, <1>6
  <2>2. CASE i = 1 \/ j = 1
    BY <1>3, <2>1, <2>2
  <2>3. CASE i # 1 /\ j # 1
    <3>1. i - 1 = j - 1
      BY <1>3, <1>6, <2>3 DEF Once
    <3> QED
      BY <1>1, <3>1
  <2> QED
    BY <2>2, <2>3
<1> QED
  BY <1>1, <1>4, <1>5, <1>6 DEF t

\* Where RemoveFirst and for_each_netdev find an entry, there is one.
LEMMA FoundEntry ==
    ASSUME NEW s \in Seq(Dev), NEW e, \E i \in 1 .. Len(s) : s[i] = e
    PROVE  /\ SelectInSeq(s, LAMBDA v : v = e) \in 1 .. Len(s)
           /\ s[SelectInSeq(s, LAMBDA v : v = e)] = e
<1> DEFINE I == {i \in 1 .. Len(s) : s[i] = e}
<1>1. I # {} /\ I \subseteq Nat
  OBVIOUS
<1>2. Min(I) \in I
  BY <1>1, SmallestOf
<1>3. SelectInSeq(s, LAMBDA v : v = e) = Min(I)
  BY <1>1 DEF SelectInSeq
<1> QED
  BY <1>2, <1>3

LEMMA FoundDevice ==
    ASSUME NEW p, netdevs \in Seq(Dev), OnPdev(p) # 0
    PROVE  OnPdev(p) \in 1 .. Len(netdevs)
<1> DEFINE I == {i \in 1 .. Len(netdevs) : pdev[netdevs[i]] = p}
<1>1. OnPdev(p) = IF I # {} THEN Min(I) ELSE 0
  BY DEF OnPdev, SelectInSeq
<1>2. I \subseteq Nat /\ I # {}
  BY <1>1
<1>3. Min(I) \in I
  BY <1>2, SmallestOf
<1> QED
  BY <1>1, <1>2, <1>3

\* hlist_del takes the entry out, and leaves the others.
LEMMA RemoveOnce ==
    ASSUME NEW s \in Seq(Dev), NEW e, Once(s)
    PROVE  /\ RemoveFirst(s, e) \in Seq(Dev)
           /\ Once(RemoveFirst(s, e))
           /\ ToSet(RemoveFirst(s, e)) = ToSet(s) \ {e}
<1> DEFINE t == RemoveFirst(s, e)
           k == SelectInSeq(s, LAMBDA v : v = e)
           a == SubSeq(s, 1, k - 1)
           b == SubSeq(s, k + 1, Len(s))
<1>1. Len(s) \in Nat /\ \A j \in 1 .. Len(s) : s[j] \in Dev
  BY LenProperties, ElementOfSeq
<1>2. ToSet(s) = {s[i] : i \in 1 .. Len(s)}
  BY LenProperties DEF ToSet
<1>3. CASE ~\E i \in 1 .. Len(s) : s[i] = e
  <2>1. t = s
    BY <1>3 DEF RemoveFirst
  <2> QED
    BY <1>2, <1>3, <2>1
<1>4. CASE \E i \in 1 .. Len(s) : s[i] = e
  <2>1. t = a \o b
    BY <1>4 DEF RemoveFirst, RemoveAt
  <2>2. k \in 1 .. Len(s) /\ s[k] = e
    BY <1>4, FoundEntry
  <2> HIDE DEF k
  <2>3. /\ a \in Seq(Dev) /\ Len(a) = k - 1
        /\ \A j \in 1 .. k - 1 : a[j] = s[j]
    <3>1. \A j \in 1 .. k - 1 : s[j] \in Dev
      BY <1>1, <2>2
    <3>2. /\ a \in Seq(Dev)
          /\ Len(a) = IF 1 <= k - 1 THEN (k - 1) - 1 + 1 ELSE 0
          /\ \A j \in 1 .. (k - 1) - 1 + 1 : a[j] = s[1 + j - 1]
      BY <1>1, <2>2, <3>1, SubSeqProperties
    <3> HIDE DEF a
    <3> QED
      BY <1>1, <2>2, <3>2
  <2>4. /\ b \in Seq(Dev) /\ Len(b) = Len(s) - k
        /\ \A j \in 1 .. Len(s) - k : b[j] = s[k + j]
    <3>1. \A j \in k + 1 .. Len(s) : s[j] \in Dev
      BY <1>1, <2>2
    <3>2. /\ b \in Seq(Dev)
          /\ Len(b) = IF k + 1 <= Len(s) THEN Len(s) - (k + 1) + 1 ELSE 0
          /\ \A j \in 1 .. Len(s) - (k + 1) + 1 : b[j] = s[(k + 1) + j - 1]
      BY <1>1, <2>2, <3>1, SubSeqProperties
    <3> HIDE DEF b
    <3>3. \A j \in 1 .. Len(s) - k : (k + 1) + j - 1 = k + j
      BY <1>1, <2>2
    <3> QED
      BY <1>1, <2>2, <3>2, <3>3
  <2> HIDE DEF a, b, t
  <2>5. /\ t \in Seq(Dev)
        /\ Len(t) = Len(a) + Len(b)
        /\ \A j \in 1 .. Len(a) + Len(b) :
              t[j] = IF j <= Len(a) THEN a[j] ELSE b[j - Len(a)]
    BY <2>1, <2>3, <2>4, ConcatProperties
  <2>6. ToSet(t) = {t[i] : i \in 1 .. Len(t)}
    BY <2>5, LenProperties DEF ToSet
  <2>7. Len(t) = Len(s) - 1 /\ Len(t) \in Nat
    BY <1>1, <2>2, <2>3, <2>4, <2>5
  \* Where an entry of the new list stood in the old one.
  <2> DEFINE old(j) == IF j < k THEN j ELSE j + 1
  <2>8. ASSUME NEW j \in 1 .. Len(t)
        PROVE  old(j) \in 1 .. Len(s) /\ old(j) # k /\ t[j] = s[old(j)]
    <3>1. CASE j < k
      BY <1>1, <2>2, <2>3, <2>4, <2>5, <2>7, <3>1
    <3>2. CASE ~(j < k)
      <4>1. j - Len(a) \in 1 .. Len(s) - k /\ k + (j - Len(a)) = j + 1
        BY <1>1, <2>2, <2>3, <2>7, <3>2
      <4>2. t[j] = b[j - Len(a)]
        BY <1>1, <2>2, <2>3, <2>4, <2>5, <2>7, <3>2
      <4>3. old(j) = j + 1 /\ j + 1 \in 1 .. Len(s) /\ j + 1 # k
        BY <1>1, <2>2, <2>7, <3>2
      <4>4. b[j - Len(a)] = s[j + 1]
        BY <2>4, <4>1
      <4> QED
        BY <4>2, <4>3, <4>4
    <3> QED
      BY <3>1, <3>2
  <2>9. \A i, j \in 1 .. Len(t) : old(i) = old(j) => i = j
    BY <2>2, <2>7
  <2>10. ASSUME NEW i \in 1 .. Len(s), i # k
         PROVE  \E j \in 1 .. Len(t) : t[j] = s[i]
    <3>1. CASE i < k
      <4>1. i \in 1 .. Len(t) /\ old(i) = i
        BY <1>1, <2>2, <2>7, <3>1
      <4> QED
        BY <2>8, <4>1
    <3>2. CASE k < i
      <4>1. i - 1 \in 1 .. Len(t) /\ old(i - 1) = i
        BY <1>1, <2>2, <2>7, <3>2
      <4> QED
        BY <2>8, <4>1
    <3> QED
      BY <1>1, <2>2, <2>10, <3>1, <3>2
  <2> HIDE DEF old
  <2>11. Once(t)
    BY <2>8, <2>9 DEF Once
  <2>12. ToSet(t) \subseteq ToSet(s) \ {e}
    <3>1. ASSUME NEW x \in ToSet(t) PROVE x \in ToSet(s) /\ x # e
      <4>1. PICK j \in 1 .. Len(t) : x = t[j]
        BY <2>6
      <4>2. old(j) \in 1 .. Len(s) /\ old(j) # k /\ x = s[old(j)]
        BY <2>8, <4>1
      <4> QED
        BY <1>2, <2>2, <4>2 DEF Once
    <3> QED
      BY <3>1
  <2>13. ToSet(s) \ {e} \subseteq ToSet(t)
    <3>1. ASSUME NEW x \in ToSet(s), x # e PROVE x \in ToSet(t)
      <4>1. PICK i \in 1 .. Len(s) : x = s[i]
        BY <1>2, <3>1
      <4>2. PICK j \in 1 .. Len(t) : t[j] = s[i]
        BY <2>2, <2>10, <3>1, <4>1
      <4> QED
        BY <2>6, <4>1, <4>2
    <3> QED
      BY <3>1
  <2> QED
    BY <2>5, <2>11, <2>12, <2>13 DEF t
<1> QED
  BY <1>3, <1>4

-----------------------------------------------------------------------------
(* The steps before the module is unloaded.                                *)

Loaded ==
    \/ UNCHANGED vars
    \/ ListAdd \/ Refused \/ LockDev \/ Suspend \/ ldt_rm_tun \/ ldt_dev_newtun
    \/ ldt_dev_bind2dev \/ ldt_dev_evsend \/ OtherCommand \/ PutDev
    \/ FreeRefused("h") \/ FreeCheck("h") \/ FreeBegin("h") \/ FreeUnlist("h")
    \/ FreeUnregister("h") \/ FreeDone("h")
    \/ Tell
    \/ \E d \in Dev :
          \/ ldt_create_dev(d) \/ tpdev_open(d) \/ tpdev_close(d)
          \/ tpdev_xmit(d) \/ XmitDone(d)
          \/ \E k \in Commands : LDTDEV_BYNAME(d, k)
    \/ \E p \in Pdev : tp_ev_ndev(p)

\* Nobody registers the notifier again, and the exit of the module does
\* nothing before it has unregistered it.
LEMMA LoadedSteps ==
    ASSUME LoadedInv, [Next]_vars, notif'
    PROVE  notif /\ DevInv /\ Loaded
<1>1. notif
  <2>1. CASE UNCHANGED vars
    BY <2>1 DEF vars, kernVars
  <2>2. CASE Command
    BY <2>2 DEF Command, ListAdd, Refused, LockDev, Suspend, ldt_rm_tun,
       ldt_dev_newtun, ldt_dev_bind2dev, ldt_dev_evsend,
       OtherCommand, PutDev, ldt_free_dev,
       FreeRefused, FreeCheck, FreeBegin, FreeUnlist, FreeUnregister, FreeDone, kernVars
  <2>3. CASE Tell \/ ldt_dev_global_destroy
    BY <2>3 DEF Tell, ldt_dev_global_destroy
  <2>4. CASE Exit
    BY <2>4 DEF Exit, ldt_remove_all, ldt_module_exit, ldt_free_dev,
       FreeRefused, FreeCheck, FreeBegin, FreeUnlist, FreeUnregister, FreeDone, kernVars
  <2>5. ASSUME NEW d \in Dev,
               \/ ldt_create_dev(d) \/ tpdev_open(d) \/ tpdev_close(d)
               \/ tpdev_xmit(d) \/ XmitDone(d)
        PROVE  notif
    BY <2>5 DEF ldt_create_dev, tpdev_open, tpdev_close, tpdev_xmit, XmitDone, kernVars
  <2>6. ASSUME NEW d \in Dev, NEW k \in Commands, LDTDEV_BYNAME(d, k)
        PROVE  notif
    BY <2>6 DEF LDTDEV_BYNAME
  <2>7. ASSUME NEW p \in Pdev, tp_ev_ndev(p) PROVE notif
    BY <2>7 DEF tp_ev_ndev
  <2> QED
    BY <2>1, <2>2, <2>3, <2>4, <2>5, <2>6, <2>7 DEF Next
<1>2. DevInv
  BY <1>1 DEF LoadedInv
<1>3. ~ldt_dev_global_destroy /\ ~Exit
  BY <1>2 DEF DevInv, Control, Exit, ldt_dev_global_destroy, ldt_remove_all,
     ldt_module_exit, ldt_free_dev, FreeRefused, FreeCheck, FreeBegin, FreeUnlist,
     FreeUnregister, FreeDone
<1> QED
  BY <1>1, <1>2, <1>3 DEF Next, Command, ldt_free_dev, Loaded

\* Control moves as it should.
LEMMA ControlStep == notif /\ DevInv /\ Loaded => Control'
<1> SUFFICES ASSUME notif, DevInv, Loaded PROVE Control'
  OBVIOUS
<1> USE NullAssumption, CommandsAssumption DEF DevInv, TypeOK, Control, Contexts, AllCommands, Goto, devVars, listVars, kernVars, ctxVars, evVars
<1>1. CASE UNCHANGED vars
  BY <1>1 DEF vars
<1>2. CASE ListAdd
  BY <1>2 DEF ListAdd
<1>3. CASE Refused
  BY <1>3 DEF Refused
<1>4. CASE LockDev
  BY <1>4 DEF LockDev
<1>5. CASE Suspend
  BY <1>5 DEF Suspend
<1>6. CASE ldt_rm_tun
  BY <1>6 DEF ldt_rm_tun, ldt_rm_tun2, Resume
<1>7. CASE ldt_dev_newtun
  BY <1>7 DEF ldt_dev_newtun, Resume
<1>8. CASE ldt_dev_bind2dev
  BY <1>8 DEF ldt_dev_bind2dev
<1>9. CASE OtherCommand
  BY <1>9 DEF OtherCommand
<1>24. CASE ldt_dev_evsend
  BY <1>24 DEF ldt_dev_evsend
<1>25. CASE FreeCheck("h")
  BY <1>25 DEF FreeCheck
<1>10. CASE PutDev
  BY <1>10 DEF PutDev
<1>11. CASE FreeRefused("h")
  BY <1>11 DEF FreeRefused, Done
<1>12. CASE FreeBegin("h")
  BY <1>12 DEF FreeBegin
<1>13. CASE FreeUnlist("h")
  BY <1>13 DEF FreeUnlist
<1>14. CASE FreeUnregister("h")
  BY <1>14 DEF FreeUnregister, ldt_rm_tun2
<1>15. CASE FreeDone("h")
  BY <1>15 DEF FreeDone, Done
<1>16. CASE Tell
  BY <1>16 DEF Tell, Null
<1>17. ASSUME NEW d \in Dev, ldt_create_dev(d) PROVE Control'
  BY <1>17 DEF ldt_create_dev
<1>18. ASSUME NEW d \in Dev, tpdev_open(d) PROVE Control'
  BY <1>18 DEF tpdev_open
<1>19. ASSUME NEW d \in Dev, tpdev_close(d) PROVE Control'
  BY <1>19 DEF tpdev_close
<1>20. ASSUME NEW d \in Dev, tpdev_xmit(d) PROVE Control'
  BY <1>20 DEF tpdev_xmit
<1>21. ASSUME NEW d \in Dev, XmitDone(d) PROVE Control'
  BY <1>21 DEF XmitDone
<1>22. ASSUME NEW d \in Dev, NEW k \in Commands, LDTDEV_BYNAME(d, k) PROVE Control'
  BY <1>22 DEF LDTDEV_BYNAME
<1>23. ASSUME NEW p \in Pdev, tp_ev_ndev(p) PROVE Control'
  <2>1. CASE OnPdev(p) = 0
    BY <1>23, <2>1 DEF tp_ev_ndev
  <2>2. CASE OnPdev(p) # 0
    <3>1. netdevs[OnPdev(p)] \in Dev
      BY <2>2, FoundDevice, ElementOfSeq
    <3> QED
      BY <1>23, <2>2, <3>1 DEF tp_ev_ndev
  <2> QED
    BY <2>1, <2>2
<1> HIDE DEF Control, DevInv, TypeOK, Goto, devVars, listVars, kernVars,
        ctxVars, evVars
<1> QED
  BY <1>1, <1>2, <1>3, <1>4, <1>5, <1>6, <1>7, <1>8, <1>9, <1>10, <1>11, <1>12,
     <1>13, <1>14, <1>15, <1>16, <1>17, <1>18, <1>19, <1>20, <1>21, <1>22, <1>23,
     <1>24, <1>25 DEF Loaded

\* A device that somebody works on is not freed.
LEMMA AliveStep == notif /\ DevInv /\ Loaded => Alive'
<1> SUFFICES ASSUME notif, DevInv, Loaded PROVE Alive'
  OBVIOUS
<1> USE NullAssumption DEF DevInv, TypeOK, Control, Contexts, Alive, Goto, devVars, listVars, kernVars, ctxVars, evVars
<1>1. CASE UNCHANGED vars
  BY <1>1 DEF vars
<1>2. CASE ListAdd
  BY <1>2 DEF ListAdd
<1>3. CASE Refused
  BY <1>3 DEF Refused
<1>4. CASE LockDev
  BY <1>4 DEF LockDev
<1>5. CASE Suspend
  BY <1>5 DEF Suspend
<1>6. CASE ldt_rm_tun
  BY <1>6 DEF ldt_rm_tun, ldt_rm_tun2, Resume
<1>7. CASE ldt_dev_newtun
  BY <1>7 DEF ldt_dev_newtun, Resume
<1>8. CASE ldt_dev_bind2dev
  BY <1>8 DEF ldt_dev_bind2dev
<1>9. CASE OtherCommand
  BY <1>9 DEF OtherCommand
<1>24. CASE ldt_dev_evsend
  BY <1>24 DEF ldt_dev_evsend
<1>25. CASE FreeCheck("h")
  BY <1>25 DEF FreeCheck
<1>10. CASE PutDev
  BY <1>10 DEF PutDev
<1>11. CASE FreeRefused("h")
  BY <1>11 DEF FreeRefused, Done
<1>12. CASE FreeBegin("h")
  BY <1>12 DEF FreeBegin
<1>13. CASE FreeUnlist("h")
  BY <1>13 DEF FreeUnlist
<1>14. CASE FreeUnregister("h")
  BY <1>14 DEF FreeUnregister, ldt_rm_tun2
<1>15. CASE FreeDone("h")
  <2>1. refs[cur["h"]] = 0 /\ cur["h"] \in Dev /\ state[cur["h"]] = "gone"
    BY <1>15 DEF FreeDone
  <2>2. cur["n"] # cur["h"]
    BY <2>1 DEF RefsBalanced, One
  <2> QED
    BY <1>15, <2>1, <2>2 DEF FreeDone, Done
<1>16. CASE Tell
  BY <1>16 DEF Tell
<1>17. ASSUME NEW d \in Dev, ldt_create_dev(d) PROVE Alive'
  BY <1>17 DEF ldt_create_dev
<1>18. ASSUME NEW d \in Dev, tpdev_open(d) PROVE Alive'
  BY <1>18 DEF tpdev_open
<1>19. ASSUME NEW d \in Dev, tpdev_close(d) PROVE Alive'
  BY <1>19 DEF tpdev_close
<1>20. ASSUME NEW d \in Dev, tpdev_xmit(d) PROVE Alive'
  BY <1>20 DEF tpdev_xmit
<1>21. ASSUME NEW d \in Dev, XmitDone(d) PROVE Alive'
  BY <1>21 DEF XmitDone
<1>22. ASSUME NEW d \in Dev, NEW k \in Commands, LDTDEV_BYNAME(d, k) PROVE Alive'
  <2>1. state[d] = "registered"
    BY <1>22 DEF LDTDEV_BYNAME, Lists
  <2> QED
    BY <1>22, <2>1 DEF LDTDEV_BYNAME
<1>23. ASSUME NEW p \in Pdev, tp_ev_ndev(p) PROVE Alive'
  <2>1. CASE OnPdev(p) = 0
    BY <1>23, <2>1 DEF tp_ev_ndev
  <2>2. CASE OnPdev(p) # 0
    <3>1. netdevs[OnPdev(p)] \in Dev /\ state[netdevs[OnPdev(p)]] = "registered"
      BY <2>2, FoundDevice, ElementOfSeq DEF Lists, ToSet
    <3> QED
      BY <1>23, <2>2, <3>1 DEF tp_ev_ndev
  <2> QED
    BY <2>1, <2>2
<1> HIDE DEF Alive, Control, DevInv, TypeOK, Goto, devVars, listVars, kernVars,
        ctxVars, evVars
<1> QED
  BY <1>1, <1>2, <1>3, <1>4, <1>5, <1>6, <1>7, <1>8, <1>9, <1>10, <1>11, <1>12,
     <1>13, <1>14, <1>15, <1>16, <1>17, <1>18, <1>19, <1>20, <1>21, <1>22, <1>23,
     <1>24, <1>25 DEF Loaded

\* The lists hold what is registered, once.
LEMMA ListsStep == notif /\ DevInv /\ Loaded => Lists'
<1> SUFFICES ASSUME notif, DevInv, Loaded PROVE Lists'
  OBVIOUS
<1> USE NullAssumption DEF DevInv, TypeOK, Control, Contexts, Alive, Lists, Goto, devVars, listVars, kernVars, ctxVars, evVars
<1>1. CASE UNCHANGED vars
  BY <1>1 DEF vars
<1>2. CASE ListAdd
  <2>1. cur["h"] \in Dev /\ cur["h"] \notin ToSet(devlist)
    BY <1>2 DEF ListAdd
  <2>2. Once(devlist') /\ ToSet(devlist') = ToSet(devlist) \cup {cur["h"]}
    BY <1>2, <2>1, ConsOnce DEF ListAdd
  <2>3. state[cur["h"]] = "registered"
    BY <1>2, <2>1 DEF ListAdd
  <2> QED
    BY <1>2, <2>1, <2>2, <2>3 DEF ListAdd
<1>3. CASE Refused
  BY <1>3 DEF Refused
<1>4. CASE LockDev
  BY <1>4 DEF LockDev
<1>5. CASE Suspend
  BY <1>5 DEF Suspend
<1>6. CASE ldt_rm_tun
  BY <1>6 DEF ldt_rm_tun, ldt_rm_tun2, Resume
<1>7. CASE ldt_dev_newtun
  BY <1>7 DEF ldt_dev_newtun, Resume
<1>8. CASE ldt_dev_bind2dev
  BY <1>8 DEF ldt_dev_bind2dev
<1>9. CASE OtherCommand
  BY <1>9 DEF OtherCommand
<1>24. CASE ldt_dev_evsend
  BY <1>24 DEF ldt_dev_evsend
<1>25. CASE FreeCheck("h")
  BY <1>25 DEF FreeCheck
<1>10. CASE PutDev
  BY <1>10 DEF PutDev
<1>11. CASE FreeRefused("h")
  BY <1>11 DEF FreeRefused, Done
<1>12. CASE FreeBegin("h")
  BY <1>12 DEF FreeBegin
<1>13. CASE FreeUnlist("h")
  <2>1. cur["h"] \in Dev
    BY <1>13 DEF FreeUnlist
  <2>2. Once(devlist') /\ ToSet(devlist') = ToSet(devlist) \ {cur["h"]}
    BY <1>13, <2>1, RemoveOnce DEF FreeUnlist
  <2> QED
    BY <1>13, <2>1, <2>2 DEF FreeUnlist
<1>14. CASE FreeUnregister("h")
  <2>1. cur["h"] \in Dev /\ cur["h"] \notin ToSet(devlist)
    BY <1>14 DEF FreeUnregister
  <2>2. Once(netdevs') /\ ToSet(netdevs') = ToSet(netdevs) \ {cur["h"]}
    BY <1>14, <2>1, RemoveOnce DEF FreeUnregister
  <2> QED
    BY <1>14, <2>1, <2>2 DEF FreeUnregister
<1>15. CASE FreeDone("h")
  BY <1>15 DEF FreeDone, Done
<1>16. CASE Tell
  BY <1>16 DEF Tell
<1>17. ASSUME NEW d \in Dev, ldt_create_dev(d) PROVE Lists'
  <2>1. d \notin ToSet(netdevs) /\ d \notin ToSet(devlist)
    BY <1>17 DEF ldt_create_dev
  <2>2. Once(netdevs') /\ ToSet(netdevs') = ToSet(netdevs) \cup {d}
    BY <1>17, <2>1, AppendOnce DEF ldt_create_dev
  <2> QED
    BY <1>17, <2>1, <2>2 DEF ldt_create_dev
<1>18. ASSUME NEW d \in Dev, tpdev_open(d) PROVE Lists'
  BY <1>18 DEF tpdev_open
<1>19. ASSUME NEW d \in Dev, tpdev_close(d) PROVE Lists'
  BY <1>19 DEF tpdev_close
<1>20. ASSUME NEW d \in Dev, tpdev_xmit(d) PROVE Lists'
  BY <1>20 DEF tpdev_xmit
<1>21. ASSUME NEW d \in Dev, XmitDone(d) PROVE Lists'
  BY <1>21 DEF XmitDone
<1>22. ASSUME NEW d \in Dev, NEW k \in Commands, LDTDEV_BYNAME(d, k) PROVE Lists'
  BY <1>22 DEF LDTDEV_BYNAME
<1>23. ASSUME NEW p \in Pdev, tp_ev_ndev(p) PROVE Lists'
  <2>1. cur'["h"] = cur["h"] /\ pc'["h"] = pc["h"]
    BY <1>23 DEF tp_ev_ndev
  <2> QED
    BY <1>23, <2>1 DEF tp_ev_ndev
<1> HIDE DEF Lists, Alive, Control, DevInv, TypeOK, Goto, devVars, listVars,
        kernVars, ctxVars, evVars
<1> QED
  BY <1>1, <1>2, <1>3, <1>4, <1>5, <1>6, <1>7, <1>8, <1>9, <1>10, <1>11, <1>12,
     <1>13, <1>14, <1>15, <1>16, <1>17, <1>18, <1>19, <1>20, <1>21, <1>22, <1>23,
     <1>24, <1>25 DEF Loaded

\* What transmits is up, and what is up is registered.
LEMMA UsedStep == notif /\ DevInv /\ Loaded => Used'
<1> SUFFICES ASSUME notif, DevInv, Loaded PROVE Used'
  OBVIOUS
<1> USE NullAssumption DEF DevInv, TypeOK, Control, Contexts, Alive, Used, devVars, listVars, kernVars, ctxVars, evVars
<1>1. CASE UNCHANGED vars
  BY <1>1 DEF vars
<1>2. CASE ListAdd
  BY <1>2 DEF ListAdd
<1>3. CASE Refused
  BY <1>3 DEF Refused
<1>4. CASE LockDev
  BY <1>4 DEF LockDev
<1>5. CASE Suspend
  BY <1>5 DEF Suspend
<1>6. CASE ldt_rm_tun
  BY <1>6 DEF ldt_rm_tun, ldt_rm_tun2, Resume
<1>7. CASE ldt_dev_newtun
  BY <1>7 DEF ldt_dev_newtun, Resume
<1>8. CASE ldt_dev_bind2dev
  BY <1>8 DEF ldt_dev_bind2dev
<1>9. CASE OtherCommand
  BY <1>9 DEF OtherCommand
<1>24. CASE ldt_dev_evsend
  BY <1>24 DEF ldt_dev_evsend
<1>25. CASE FreeCheck("h")
  BY <1>25 DEF FreeCheck
<1>10. CASE PutDev
  BY <1>10 DEF PutDev
<1>11. CASE FreeRefused("h")
  BY <1>11 DEF FreeRefused, Done
<1>12. CASE FreeBegin("h")
  BY <1>12 DEF FreeBegin
<1>13. CASE FreeUnlist("h")
  BY <1>13 DEF FreeUnlist
<1>14. CASE FreeUnregister("h")
  BY <1>14 DEF FreeUnregister, ldt_rm_tun2
<1>15. CASE FreeDone("h")
  BY <1>15 DEF FreeDone, Done
<1>16. CASE Tell
  BY <1>16 DEF Tell
<1>17. ASSUME NEW d \in Dev, ldt_create_dev(d) PROVE Used'
  BY <1>17 DEF ldt_create_dev
<1>18. ASSUME NEW d \in Dev, tpdev_open(d) PROVE Used'
  BY <1>18 DEF tpdev_open
<1>19. ASSUME NEW d \in Dev, tpdev_close(d) PROVE Used'
  BY <1>19 DEF tpdev_close
<1>20. ASSUME NEW d \in Dev, tpdev_xmit(d) PROVE Used'
  BY <1>20 DEF tpdev_xmit
<1>21. ASSUME NEW d \in Dev, XmitDone(d) PROVE Used'
  BY <1>21 DEF XmitDone
<1>22. ASSUME NEW d \in Dev, NEW k \in Commands, LDTDEV_BYNAME(d, k) PROVE Used'
  BY <1>22 DEF LDTDEV_BYNAME
<1>23. ASSUME NEW p \in Pdev, tp_ev_ndev(p) PROVE Used'
  BY <1>23 DEF tp_ev_ndev
<1> HIDE DEF Used, Alive, Control, DevInv, TypeOK, devVars, listVars, kernVars,
        ctxVars, evVars
<1> QED
  BY <1>1, <1>2, <1>3, <1>4, <1>5, <1>6, <1>7, <1>8, <1>9, <1>10, <1>11, <1>12,
     <1>13, <1>14, <1>15, <1>16, <1>17, <1>18, <1>19, <1>20, <1>21, <1>22, <1>23,
     <1>24, <1>25 DEF Loaded

\* A device is taken out of use by one command at a time.
LEMMA ActiveStep == notif /\ DevInv /\ Loaded => Active'
<1> SUFFICES ASSUME notif, DevInv, Loaded PROVE Active'
  OBVIOUS
<1> USE NullAssumption DEF DevInv, TypeOK, Control, Contexts, Alive, Active, Goto, devVars, listVars, kernVars, ctxVars, evVars
<1>1. CASE UNCHANGED vars
  BY <1>1 DEF vars
<1>2. CASE ListAdd
  BY <1>2 DEF ListAdd
<1>3. CASE Refused
  BY <1>3 DEF Refused
<1>4. CASE LockDev
  BY <1>4 DEF LockDev
<1>5. CASE Suspend
  BY <1>5 DEF Suspend
<1>6. CASE ldt_rm_tun
  BY <1>6 DEF ldt_rm_tun, ldt_rm_tun2, Resume
<1>7. CASE ldt_dev_newtun
  BY <1>7 DEF ldt_dev_newtun, Resume
<1>8. CASE ldt_dev_bind2dev
  BY <1>8 DEF ldt_dev_bind2dev
<1>9. CASE OtherCommand
  BY <1>9 DEF OtherCommand
<1>24. CASE ldt_dev_evsend
  BY <1>24 DEF ldt_dev_evsend
<1>25. CASE FreeCheck("h")
  BY <1>25 DEF FreeCheck
<1>10. CASE PutDev
  BY <1>10 DEF PutDev
<1>11. CASE FreeRefused("h")
  BY <1>11 DEF FreeRefused, Done
<1>12. CASE FreeBegin("h")
  BY <1>12 DEF FreeBegin
<1>13. CASE FreeUnlist("h")
  BY <1>13 DEF FreeUnlist
<1>14. CASE FreeUnregister("h")
  BY <1>14 DEF FreeUnregister, ldt_rm_tun2
<1>15. CASE FreeDone("h")
  BY <1>15 DEF FreeDone, Done
<1>16. CASE Tell
  BY <1>16 DEF Tell
<1>17. ASSUME NEW d \in Dev, ldt_create_dev(d) PROVE Active'
  BY <1>17 DEF ldt_create_dev
<1>18. ASSUME NEW d \in Dev, tpdev_open(d) PROVE Active'
  BY <1>18 DEF tpdev_open
<1>19. ASSUME NEW d \in Dev, tpdev_close(d) PROVE Active'
  BY <1>19 DEF tpdev_close
<1>20. ASSUME NEW d \in Dev, tpdev_xmit(d) PROVE Active'
  BY <1>20 DEF tpdev_xmit
<1>21. ASSUME NEW d \in Dev, XmitDone(d) PROVE Active'
  BY <1>21 DEF XmitDone
<1>22. ASSUME NEW d \in Dev, NEW k \in Commands, LDTDEV_BYNAME(d, k) PROVE Active'
  BY <1>22 DEF LDTDEV_BYNAME
<1>23. ASSUME NEW p \in Pdev, tp_ev_ndev(p) PROVE Active'
  BY <1>23 DEF tp_ev_ndev
<1> HIDE DEF Active, Alive, Control, DevInv, TypeOK, Goto, devVars, listVars,
        kernVars, ctxVars, evVars
<1> QED
  BY <1>1, <1>2, <1>3, <1>4, <1>5, <1>6, <1>7, <1>8, <1>9, <1>10, <1>11, <1>12,
     <1>13, <1>14, <1>15, <1>16, <1>17, <1>18, <1>19, <1>20, <1>21, <1>22, <1>23,
     <1>24, <1>25 DEF Loaded

\* The events say what happens.
LEMMA ToldStep == notif /\ DevInv /\ Loaded => Told'
<1> SUFFICES ASSUME notif, DevInv, Loaded PROVE Told'
  OBVIOUS
<1> USE NullAssumption DEF DevInv, TypeOK, Control, Contexts, Alive, Told, Goto, devVars, listVars, kernVars, ctxVars, evVars
<1>1. CASE UNCHANGED vars
  BY <1>1 DEF vars
<1>2. CASE ListAdd
  BY <1>2 DEF ListAdd
<1>3. CASE Refused
  BY <1>3 DEF Refused
<1>4. CASE LockDev
  BY <1>4 DEF LockDev
<1>5. CASE Suspend
  BY <1>5 DEF Suspend
<1>6. CASE ldt_rm_tun
  BY <1>6 DEF ldt_rm_tun, ldt_rm_tun2, Resume
<1>7. CASE ldt_dev_newtun
  <2>1. CASE UNCHANGED <<tun, evtun>>
    BY <1>7, <2>1 DEF ldt_dev_newtun, Resume
  <2>2. CASE /\ tun' = [tun EXCEPT ![cur["h"]] = TRUE]
             /\ evtun' = [evtun EXCEPT ![cur["h"]] = "up"]
    BY <1>7, <2>2 DEF ldt_dev_newtun, Resume
  <2> QED
    BY <1>7, <2>1, <2>2 DEF ldt_dev_newtun
<1>8. CASE ldt_dev_bind2dev
  BY <1>8 DEF ldt_dev_bind2dev
<1>9. CASE OtherCommand
  BY <1>9 DEF OtherCommand
<1>24. CASE ldt_dev_evsend
  BY <1>24 DEF ldt_dev_evsend
<1>25. CASE FreeCheck("h")
  BY <1>25 DEF FreeCheck
<1>10. CASE PutDev
  BY <1>10 DEF PutDev
<1>11. CASE FreeRefused("h")
  BY <1>11 DEF FreeRefused, Done
<1>12. CASE FreeBegin("h")
  BY <1>12 DEF FreeBegin
<1>13. CASE FreeUnlist("h")
  BY <1>13 DEF FreeUnlist
<1>14. CASE FreeUnregister("h")
  BY <1>14 DEF FreeUnregister, ldt_rm_tun2
<1>15. CASE FreeDone("h")
  BY <1>15 DEF FreeDone, Done
<1>16. CASE Tell
  BY <1>16 DEF Tell
<1>17. ASSUME NEW d \in Dev, ldt_create_dev(d) PROVE Told'
  BY <1>17 DEF ldt_create_dev
<1>18. ASSUME NEW d \in Dev, tpdev_open(d) PROVE Told'
  BY <1>18 DEF tpdev_open
<1>19. ASSUME NEW d \in Dev, tpdev_close(d) PROVE Told'
  BY <1>19 DEF tpdev_close
<1>20. ASSUME NEW d \in Dev, tpdev_xmit(d) PROVE Told'
  BY <1>20 DEF tpdev_xmit
<1>21. ASSUME NEW d \in Dev, XmitDone(d) PROVE Told'
  BY <1>21 DEF XmitDone
<1>22. ASSUME NEW d \in Dev, NEW k \in Commands, LDTDEV_BYNAME(d, k) PROVE Told'
  BY <1>22 DEF LDTDEV_BYNAME
<1>23. ASSUME NEW p \in Pdev, tp_ev_ndev(p) PROVE Told'
  BY <1>23 DEF tp_ev_ndev
<1> HIDE DEF Told, Alive, Control, DevInv, TypeOK, Goto, devVars, listVars,
        kernVars, ctxVars, evVars
<1> QED
  BY <1>1, <1>2, <1>3, <1>4, <1>5, <1>6, <1>7, <1>8, <1>9, <1>10, <1>11, <1>12,
     <1>13, <1>14, <1>15, <1>16, <1>17, <1>18, <1>19, <1>20, <1>21, <1>22, <1>23,
     <1>24, <1>25 DEF Loaded

\* Whoever takes a reference gives it back.
LEMMA RefsStep == notif /\ DevInv /\ Loaded => RefsBalanced'
<1> SUFFICES ASSUME notif, DevInv, Loaded PROVE RefsBalanced'
  OBVIOUS
<1> USE NullAssumption DEF DevInv, TypeOK, Control, Contexts, Alive, Active, RefsBalanced, One, Goto, Hold, Put, devVars, listVars, kernVars, ctxVars, evVars
<1>1. CASE UNCHANGED vars
  BY <1>1 DEF vars
<1>2. CASE ListAdd
  BY <1>2 DEF ListAdd
<1>3. CASE Refused
  BY <1>3 DEF Refused
<1>4. CASE LockDev
  BY <1>4 DEF LockDev
<1>5. CASE Suspend
  BY <1>5 DEF Suspend
<1>6. CASE ldt_rm_tun
  BY <1>6 DEF ldt_rm_tun, ldt_rm_tun2, Resume
<1>7. CASE ldt_dev_newtun
  BY <1>7 DEF ldt_dev_newtun, Resume
<1>8. CASE ldt_dev_bind2dev
  BY <1>8 DEF ldt_dev_bind2dev
<1>9. CASE OtherCommand
  BY <1>9 DEF OtherCommand
<1>24. CASE ldt_dev_evsend
  BY <1>24 DEF ldt_dev_evsend
<1>25. CASE FreeCheck("h")
  BY <1>25 DEF FreeCheck
<1>10. CASE PutDev
  BY <1>10 DEF PutDev
<1>11. CASE FreeRefused("h")
  BY <1>11 DEF FreeRefused, Done, DEV_OK
<1>12. CASE FreeBegin("h")
  BY <1>12 DEF FreeBegin
<1>13. CASE FreeUnlist("h")
  BY <1>13 DEF FreeUnlist
<1>14. CASE FreeUnregister("h")
  BY <1>14 DEF FreeUnregister, ldt_rm_tun2
<1>15. CASE FreeDone("h")
  BY <1>15 DEF FreeDone, Done
<1>16. CASE Tell
  BY <1>16, SMTT(30) DEF Tell
<1>17. ASSUME NEW d \in Dev, ldt_create_dev(d) PROVE RefsBalanced'
  BY <1>17 DEF ldt_create_dev
<1>18. ASSUME NEW d \in Dev, tpdev_open(d) PROVE RefsBalanced'
  BY <1>18 DEF tpdev_open
<1>19. ASSUME NEW d \in Dev, tpdev_close(d) PROVE RefsBalanced'
  BY <1>19 DEF tpdev_close
<1>20. ASSUME NEW d \in Dev, tpdev_xmit(d) PROVE RefsBalanced'
  BY <1>20 DEF tpdev_xmit
<1>21. ASSUME NEW d \in Dev, XmitDone(d) PROVE RefsBalanced'
  BY <1>21 DEF XmitDone
<1>22. ASSUME NEW d \in Dev, NEW k \in Commands, LDTDEV_BYNAME(d, k) PROVE RefsBalanced'
  BY <1>22 DEF LDTDEV_BYNAME
<1>23. ASSUME NEW p \in Pdev, tp_ev_ndev(p) PROVE RefsBalanced'
  BY <1>23 DEF tp_ev_ndev
<1> HIDE DEF RefsBalanced, Active, Alive, Control, DevInv, TypeOK, Goto,
        devVars, listVars, kernVars, ctxVars, evVars
<1> QED
  BY <1>1, <1>2, <1>3, <1>4, <1>5, <1>6, <1>7, <1>8, <1>9, <1>10, <1>11, <1>12,
     <1>13, <1>14, <1>15, <1>16, <1>17, <1>18, <1>19, <1>20, <1>21, <1>22, <1>23,
     <1>24, <1>25 DEF Loaded

\* How many devices there are on a physical device.
LEMMA CountNat ==
    ASSUME NEW f, NEW p
    PROVE  /\ IsFiniteSet(On(f, p))
           /\ Cardinality(On(f, p)) \in Nat
  BY DevAssumption, FS_Subset, FS_CardinalityType DEF On

\* A device that moves to the physical device q changes the number of devices
\* on p by one at most, up if q is p and it was not there, down if q is not p
\* and it was there.
LEMMA Moved ==
    ASSUME NEW p \in Pdev, NEW q, NEW d \in Dev,
           pdev \in [Dev -> Pdev \cup {Null}], pdev' = [pdev EXCEPT ![d] = q]
    PROVE  Cardinality(On(pdev', p))
             = Cardinality(On(pdev, p)) - (IF pdev[d] = p THEN 1 ELSE 0)
                                        + (IF q = p THEN 1 ELSE 0)
<1> DEFINE on == On(pdev, p)
           rest == on \ {d}
           new == On(pdev', p)
<1>1. IsFiniteSet(on) /\ Cardinality(on) \in Nat
  BY CountNat
<1>2. IsFiniteSet(rest) /\ Cardinality(rest) \in Nat
  BY <1>1, FS_RemoveElement, FS_CardinalityType
<1>3. Cardinality(rest) = Cardinality(on) - (IF pdev[d] = p THEN 1 ELSE 0)
  <2>1. d \in on <=> pdev[d] = p
    BY DEF On
  <2> HIDE DEF on
  <2>2. Cardinality(rest) = IF d \in on THEN Cardinality(on) - 1
                            ELSE Cardinality(on)
    BY <1>1, FS_RemoveElement
  <2> QED
    BY <1>1, <2>1, <2>2
<1>4. new = IF q = p THEN rest \cup {d} ELSE rest
  BY DEF On
<1>5. Cardinality(rest \cup {d}) = Cardinality(rest) + 1
  <2>1. d \notin rest
    OBVIOUS
  <2> HIDE DEF rest
  <2> QED
    BY <1>2, <2>1, FS_AddElement
<1> HIDE DEF on, rest, new
<1>6. Cardinality(new) = Cardinality(rest) + (IF q = p THEN 1 ELSE 0)
  BY <1>2, <1>4, <1>5
<1>7. Cardinality(new) = Cardinality(on) - (IF pdev[d] = p THEN 1 ELSE 0)
                                         + (IF q = p THEN 1 ELSE 0)
  BY <1>1, <1>3, <1>6
<1> QED
  BY <1>7 DEF on, new

\* A physical device is held for every device on it.
LEMMA PdevStep == notif /\ DevInv /\ Loaded => PdevCount'
<1> SUFFICES ASSUME notif, DevInv, Loaded PROVE PdevCount'
  OBVIOUS
<1> USE NullAssumption DEF DevInv, TypeOK, Control, Contexts, PdevCount, Bound, Goto, devVars, listVars, kernVars, ctxVars, evVars
<1>1. CASE UNCHANGED vars
  BY <1>1 DEF vars
<1>2. CASE ListAdd
  BY <1>2 DEF ListAdd, One
<1>3. CASE Refused
  <2> SUFFICES ASSUME NEW p \in Pdev
               PROVE  prefs'[p] >= Cardinality(On(pdev', p)) + One(Bound(p)')
    OBVIOUS
  <2>1. pdev' = pdev /\ ~Bound(p)'
    BY <1>3 DEF Refused
  <2>2. prefs'[p] = prefs[p] - One(Bound(p))
    BY <1>3 DEF Refused, One
  <2>3. prefs[p] >= Cardinality(On(pdev, p)) + One(Bound(p))
    OBVIOUS
  <2>4. Cardinality(On(pdev, p)) \in Nat /\ prefs[p] \in Nat
    BY CountNat
  <2> HIDE DEF Bound
  <2> QED
    BY <2>1, <2>2, <2>3, <2>4 DEF One
<1>4. CASE LockDev
  BY <1>4 DEF LockDev, One
<1>5. CASE Suspend
  BY <1>5 DEF Suspend, One
<1>6. CASE ldt_rm_tun
  BY <1>6 DEF ldt_rm_tun, ldt_rm_tun2, Resume, One
<1>7. CASE ldt_dev_newtun
  BY <1>7 DEF ldt_dev_newtun, Resume, One
<1>8. CASE ldt_dev_bind2dev
  <2> DEFINE d == cur["h"]
             q == arg["h"]
  <2> SUFFICES ASSUME NEW p \in Pdev
               PROVE  prefs'[p] >= Cardinality(On(pdev', p)) + One(Bound(p)')
    OBVIOUS
  <2>1. d \in Dev /\ q \in Pdev /\ pdev' = [pdev EXCEPT ![d] = q] /\ ~Bound(p)'
    BY <1>8 DEF ldt_dev_bind2dev
  <2>2. prefs'[p] = prefs[p] - One(pdev[d] = p)
    BY <1>8, <2>1 DEF ldt_dev_bind2dev, One
  <2>3. Bound(p) <=> q = p
    BY <1>8 DEF ldt_dev_bind2dev
  <2>4. prefs[p] >= Cardinality(On(pdev, p)) + One(Bound(p))
    OBVIOUS
  <2>5. Cardinality(On(pdev, p)) \in Nat /\ prefs[p] \in Nat
    BY CountNat
  <2>6. Cardinality(On(pdev', p))
          = Cardinality(On(pdev, p)) - (IF pdev[d] = p THEN 1 ELSE 0)
                                     + (IF q = p THEN 1 ELSE 0)
    <3>1. pdev \in [Dev -> Pdev \cup {Null}]
      OBVIOUS
    <3>2. d \in Dev /\ pdev' = [pdev EXCEPT ![d] = q]
      BY <2>1
    <3> HIDE DEF d, q, DevInv, TypeOK, Control, PdevCount, Bound
    <3> QED
      BY <3>1, <3>2, Moved
  <2> HIDE DEF d, q, Bound, DevInv, TypeOK, Control, PdevCount
  <2> QED
    BY <2>1, <2>2, <2>3, <2>4, <2>5, <2>6 DEF One
<1>9. CASE OtherCommand
  BY <1>9 DEF OtherCommand, One
<1>24. CASE ldt_dev_evsend
  BY <1>24 DEF ldt_dev_evsend, One
<1>25. CASE FreeCheck("h")
  BY <1>25 DEF FreeCheck, One
<1>10. CASE PutDev
  BY <1>10 DEF PutDev, One
<1>11. CASE FreeRefused("h")
  BY <1>11 DEF FreeRefused, Done, One
<1>12. CASE FreeBegin("h")
  BY <1>12 DEF FreeBegin, One
<1>13. CASE FreeUnlist("h")
  BY <1>13 DEF FreeUnlist, One
<1>14. CASE FreeUnregister("h")
  BY <1>14 DEF FreeUnregister, ldt_rm_tun2, One
<1>15. CASE FreeDone("h")
  <2> DEFINE d == cur["h"]
  <2> SUFFICES ASSUME NEW p \in Pdev
               PROVE  prefs'[p] >= Cardinality(On(pdev', p)) + One(Bound(p)')
    OBVIOUS
  <2>1. /\ d \in Dev /\ pdev' = [pdev EXCEPT ![d] = Null] /\ prefs' = prefs
        /\ ~Bound(p) /\ ~Bound(p)' /\ Null # p
    BY <1>15 DEF FreeDone, Done
  <2>2. prefs[p] >= Cardinality(On(pdev, p)) + One(Bound(p))
    OBVIOUS
  <2>3. Cardinality(On(pdev, p)) \in Nat /\ prefs[p] \in Nat
    BY CountNat
  <2>4. Cardinality(On(pdev', p))
          = Cardinality(On(pdev, p)) - (IF pdev[d] = p THEN 1 ELSE 0)
                                     + (IF Null = p THEN 1 ELSE 0)
    <3>1. pdev \in [Dev -> Pdev \cup {Null}]
      OBVIOUS
    <3>2. d \in Dev /\ pdev' = [pdev EXCEPT ![d] = Null]
      BY <2>1
    <3> HIDE DEF d, DevInv, TypeOK, Control, PdevCount, Bound
    <3> QED
      BY <3>1, <3>2, Moved
  <2> HIDE DEF d, Bound, DevInv, TypeOK, Control, PdevCount
  <2> QED
    BY <2>1, <2>2, <2>3, <2>4 DEF One
<1>16. CASE Tell
  BY <1>16 DEF Tell, One
<1>17. ASSUME NEW d \in Dev, ldt_create_dev(d) PROVE PdevCount'
  BY <1>17 DEF ldt_create_dev, One
<1>18. ASSUME NEW d \in Dev, tpdev_open(d) PROVE PdevCount'
  BY <1>18 DEF tpdev_open, One
<1>19. ASSUME NEW d \in Dev, tpdev_close(d) PROVE PdevCount'
  BY <1>19 DEF tpdev_close, One
<1>20. ASSUME NEW d \in Dev, tpdev_xmit(d) PROVE PdevCount'
  BY <1>20 DEF tpdev_xmit, One
<1>21. ASSUME NEW d \in Dev, XmitDone(d) PROVE PdevCount'
  BY <1>21 DEF XmitDone, One
<1>22. ASSUME NEW d \in Dev, NEW k \in Commands, LDTDEV_BYNAME(d, k) PROVE PdevCount'
  <2> SUFFICES ASSUME NEW p \in Pdev
               PROVE  prefs'[p] >= Cardinality(On(pdev', p)) + One(Bound(p)')
    OBVIOUS
  <2>1. pdev' = pdev /\ ~Bound(p)
    BY <1>22 DEF LDTDEV_BYNAME
  <2>2. prefs'[p] = prefs[p] + One(Bound(p)')
    <3>1. CASE k # "bind2dev"
      BY <1>22, <3>1 DEF LDTDEV_BYNAME, One
    <3>2. CASE k = "bind2dev"
      <4>1. PICK q \in Pdev : /\ prefs' = [prefs EXCEPT ![q] = @ + 1]
                              /\ arg' = [arg EXCEPT !["h"] = q]
        BY <1>22, <3>2 DEF LDTDEV_BYNAME
      <4>2. Bound(p)' <=> p = q
        BY <1>22, <3>2, <4>1 DEF LDTDEV_BYNAME
      <4> QED
        BY <4>1, <4>2 DEF One
    <3> QED
      BY <3>1, <3>2
  <2>3. prefs[p] >= Cardinality(On(pdev, p)) + One(Bound(p))
    OBVIOUS
  <2>4. Cardinality(On(pdev, p)) \in Nat /\ prefs[p] \in Nat
    BY CountNat
  <2> HIDE DEF Bound
  <2> QED
    BY <2>1, <2>2, <2>3, <2>4 DEF One
<1>23. ASSUME NEW p \in Pdev, tp_ev_ndev(p) PROVE PdevCount'
  BY <1>23 DEF tp_ev_ndev, One
<1> HIDE DEF PdevCount, Bound, Control, DevInv, TypeOK, Goto, devVars, listVars,
        kernVars, ctxVars, evVars
<1> QED
  BY <1>1, <1>2, <1>3, <1>4, <1>5, <1>6, <1>7, <1>8, <1>9, <1>10, <1>11, <1>12,
     <1>13, <1>14, <1>15, <1>16, <1>17, <1>18, <1>19, <1>20, <1>21, <1>22, <1>23,
     <1>24, <1>25 DEF Loaded

\* Every step keeps the types.
LEMMA TypesStep == notif /\ DevInv /\ Loaded => TypeOK'
<1> SUFFICES ASSUME notif, DevInv, Loaded PROVE TypeOK'
  OBVIOUS
<1> USE NullAssumption, CommandsAssumption DEF DevInv, TypeOK, Control, Contexts, AllCommands, Alive, Goto, Hold, Put, devVars, listVars, kernVars, ctxVars, evVars
<1>1. CASE UNCHANGED vars
  BY <1>1 DEF vars
<1>2. CASE ListAdd
  BY <1>2 DEF ListAdd
<1>3. CASE Refused
  <2>1. \A p \in Pdev : Cardinality(On(pdev, p)) \in Nat
    BY CountNat
  <2>2. prefs' \in [Pdev -> Nat]
    BY <1>3, <2>1 DEF Refused, PdevCount, Bound, One
  <2> QED
    BY <1>3, <2>2 DEF Refused
<1>4. CASE LockDev
  BY <1>4 DEF LockDev
<1>5. CASE Suspend
  BY <1>5 DEF Suspend
<1>6. CASE ldt_rm_tun
  BY <1>6 DEF ldt_rm_tun, ldt_rm_tun2, Resume
<1>7. CASE ldt_dev_newtun
  <2>1. tun' \in [Dev -> BOOLEAN] /\ pdevdown' \in [Dev -> BOOLEAN]
    BY <1>7 DEF ldt_dev_newtun
  <2>2. evtun' \in [Dev -> {"up", "down", "user"}]
    BY <1>7 DEF ldt_dev_newtun
  <2>3. active' \in [Dev -> BOOLEAN] /\ lock' \in [Dev -> {"h", Null}]
    BY <1>7 DEF ldt_dev_newtun, Resume
  <2> QED
    BY <1>7, <2>1, <2>2, <2>3 DEF ldt_dev_newtun, Resume
<1>8. CASE ldt_dev_bind2dev
  <2>1. cur["h"] \in Dev /\ arg["h"] \in Pdev
    BY <1>8 DEF ldt_dev_bind2dev
  <2>2. ASSUME pdev[cur["h"]] # Null PROVE prefs[pdev[cur["h"]]] > 0
    <3>1. /\ IsFiniteSet(On(pdev, pdev[cur["h"]]))
          /\ Cardinality(On(pdev, pdev[cur["h"]])) \in Nat
      BY CountNat
    <3>2. On(pdev, pdev[cur["h"]]) # {}
      BY <2>1 DEF On
    <3>3. Cardinality(On(pdev, pdev[cur["h"]])) # 0
      BY <3>1, <3>2, FS_EmptySet
    <3>4. pdev[cur["h"]] \in Pdev
      BY <2>1, <2>2
    <3>5. prefs[pdev[cur["h"]]] >= Cardinality(On(pdev, pdev[cur["h"]]))
                                    + One(Bound(pdev[cur["h"]]))
      BY <3>4 DEF PdevCount
    <3>6. prefs[pdev[cur["h"]]] \in Nat
      BY <3>4
    <3> HIDE DEF TypeOK, Alive, Control, DevInv
    <3> QED
      BY <3>1, <3>3, <3>5, <3>6 DEF One
  <2>3. prefs' \in [Pdev -> Nat]
    BY <1>8, <2>1, <2>2 DEF ldt_dev_bind2dev
  <2> QED
    BY <1>8, <2>1, <2>3 DEF ldt_dev_bind2dev
<1>9. CASE OtherCommand
  BY <1>9 DEF OtherCommand
<1>24. CASE ldt_dev_evsend
  BY <1>24 DEF ldt_dev_evsend
<1>25. CASE FreeCheck("h")
  BY <1>25 DEF FreeCheck
<1>10. CASE PutDev
  BY <1>10 DEF PutDev
<1>11. CASE FreeRefused("h")
  BY <1>11 DEF FreeRefused, Done
<1>12. CASE FreeBegin("h")
  BY <1>12 DEF FreeBegin
<1>13. CASE FreeUnlist("h")
  <2>1. devlist' \in Seq(Dev)
    BY <1>13, RemoveOnce DEF FreeUnlist, Lists
  <2> QED
    BY <1>13, <2>1 DEF FreeUnlist
<1>14. CASE FreeUnregister("h")
  <2>1. netdevs' \in Seq(Dev)
    BY <1>14, RemoveOnce DEF FreeUnregister, Lists
  <2>2. cur["h"] \in Dev
    BY <1>14 DEF FreeUnregister
  <2>3. state' \in [Dev -> {"free", "registered", "gone"}]
    BY <1>14, <2>2 DEF FreeUnregister
  <2>4. refs' \in [Dev -> Int]
    <3>1. refs' = [refs EXCEPT ![cur["h"]] = @ - 1]
      BY <1>14 DEF FreeUnregister
    <3>2. refs \in [Dev -> Int]
      OBVIOUS
    <3> HIDE DEF DevInv, TypeOK, Control, Alive
    <3> QED
      BY <2>2, <3>1, <3>2
  <2>5. /\ active' = active /\ pdev' = pdev
        /\ up' \in [Dev -> BOOLEAN] /\ tun' \in [Dev -> BOOLEAN]
        /\ pdevdown' \in [Dev -> BOOLEAN]
        /\ evtun' \in [Dev -> {"up", "down", "user"}]
        /\ lock' \in [Dev -> {"h", Null}]
    BY <1>14, <2>2 DEF FreeUnregister, ldt_rm_tun2
  <2> QED
    BY <1>14, <2>1, <2>3, <2>4, <2>5 DEF FreeUnregister
<1>15. CASE FreeDone("h")
  BY <1>15 DEF FreeDone, Done
<1>16. CASE Tell
  BY <1>16 DEF Tell
<1>17. ASSUME NEW d \in Dev, ldt_create_dev(d) PROVE TypeOK'
  BY <1>17 DEF ldt_create_dev
<1>18. ASSUME NEW d \in Dev, tpdev_open(d) PROVE TypeOK'
  BY <1>18 DEF tpdev_open
<1>19. ASSUME NEW d \in Dev, tpdev_close(d) PROVE TypeOK'
  BY <1>19 DEF tpdev_close
<1>20. ASSUME NEW d \in Dev, tpdev_xmit(d) PROVE TypeOK'
  BY <1>20 DEF tpdev_xmit
<1>21. ASSUME NEW d \in Dev, XmitDone(d) PROVE TypeOK'
  BY <1>21 DEF XmitDone
<1>22. ASSUME NEW d \in Dev, NEW k \in Commands, LDTDEV_BYNAME(d, k) PROVE TypeOK'
  <2>1. CASE k # "bind2dev"
    BY <1>22, <2>1 DEF LDTDEV_BYNAME
  <2>2. CASE k = "bind2dev"
    <3>1. PICK q \in Pdev : /\ prefs' = [prefs EXCEPT ![q] = @ + 1]
                            /\ arg' = [arg EXCEPT !["h"] = q]
      BY <1>22, <2>2 DEF LDTDEV_BYNAME
    <3>2. prefs' \in [Pdev -> Nat] /\ arg' \in [{"h", "n"} -> Pdev \cup {Null}]
      BY <3>1
    <3> QED
      BY <1>22, <2>2, <3>2, SMTT(30) DEF LDTDEV_BYNAME
  <2> QED
    BY <2>1, <2>2
<1>23. ASSUME NEW p \in Pdev, tp_ev_ndev(p) PROVE TypeOK'
  <2>1. CASE OnPdev(p) = 0
    BY <1>23, <2>1 DEF tp_ev_ndev
  <2>2. CASE OnPdev(p) # 0
    <3>1. netdevs[OnPdev(p)] \in Dev
      BY <2>2, FoundDevice, ElementOfSeq
    <3> QED
      BY <1>23, <2>2, <3>1 DEF tp_ev_ndev
  <2> QED
    BY <2>1, <2>2
<1> HIDE DEF TypeOK, Alive, Control, DevInv, Goto, Hold, Put, devVars, listVars,
        kernVars, ctxVars, evVars
<1> QED
  BY <1>1, <1>2, <1>3, <1>4, <1>5, <1>6, <1>7, <1>8, <1>9, <1>10, <1>11, <1>12,
     <1>13, <1>14, <1>15, <1>16, <1>17, <1>18, <1>19, <1>20, <1>21, <1>22, <1>23,
     <1>24, <1>25 DEF Loaded

-----------------------------------------------------------------------------
LEMMA DevInit == Init => LoadedInv
<1> SUFFICES ASSUME Init PROVE DevInv
  BY DEF LoadedInv
<1> USE NullAssumption DEF Init
<1>1. TypeOK
  BY DEF TypeOK, Contexts, AllCommands
<1>2. ToSet(netdevs) = {} /\ ToSet(devlist) = {}
  BY DEF ToSet
<1>3. Alive /\ Used /\ Active /\ Told
  BY DEF Alive, Used, Active, Told, Contexts
<1>4. Control
  BY DEF Control, Contexts, Null
<1>5. Lists
  BY <1>2 DEF Lists, Once
<1>6. RefsBalanced
  BY DEF RefsBalanced, One, Contexts
<1>7. PdevCount
  <2> SUFFICES ASSUME NEW p \in Pdev
               PROVE  prefs[p] >= Cardinality(On(pdev, p)) + One(Bound(p))
    BY DEF PdevCount
  <2>1. On(pdev, p) = {} /\ ~Bound(p) /\ prefs[p] = 0
    BY DEF On, Bound
  <2>2. Cardinality(On(pdev, p)) = 0
    BY <2>1, FS_EmptySet
  <2>3. One(Bound(p)) = 0
    BY <2>1 DEF One
  <2> QED
    BY <2>1, <2>2, <2>3
<1> QED
  BY <1>1, <1>3, <1>4, <1>5, <1>6, <1>7 DEF DevInv

LEMMA DevStep == LoadedInv /\ [Next]_vars => LoadedInv'
<1> SUFFICES ASSUME LoadedInv, [Next]_vars, notif' PROVE DevInv'
  BY DEF LoadedInv
<1>1. notif /\ DevInv /\ Loaded
  BY LoadedSteps
<1> QED
  BY <1>1, TypesStep, ControlStep, AliveStep, ListsStep, UsedStep, ActiveStep,
     RefsStep, PdevStep, ToldStep DEF DevInv

\* The reference count of a device is the number of those who hold it (the
\* kernel, a command between LDTDEV_BYNAME and its dev_put, the notifier of
\* tp_ev_ndev), tdev->pdev is held, and nobody works on a device that was
\* freed, until ldt_dev_global_destroy.
THEOREM ReferencesBalance == Spec => []LoadedRefsBalanced
<1>1. LoadedInv => LoadedRefsBalanced
  <2> SUFFICES ASSUME DevInv PROVE TypeOK /\ RefsBalanced /\ PdevHeld /\ InUseAlive
    BY DEF LoadedInv, LoadedRefsBalanced
  <2>1. PdevHeld
    <3> SUFFICES ASSUME NEW p \in Pdev PROVE prefs[p] >= Cardinality(On(pdev, p))
      BY DEF PdevHeld, On
    <3>1. Cardinality(On(pdev, p)) \in Nat /\ prefs[p] \in Nat
      BY CountNat DEF DevInv, TypeOK
    <3> QED
      BY <3>1 DEF DevInv, PdevCount, One
  <2>2. ~Corrupt
    BY NullAssumption DEF Corrupt, DevInv, TypeOK, Control, Alive, Contexts
  <2>3. \A d \in xmit \cup ToSet(netdevs) \cup ToSet(devlist) : state[d] = "registered"
    <3>1. ToSet(netdevs) \subseteq Dev
      BY ElementOfSeq, LenProperties DEF DevInv, TypeOK, ToSet
    <3> QED
      BY <3>1 DEF DevInv, TypeOK, Lists, Used
  <2> QED
    BY <2>1, <2>2, <2>3 DEF DevInv, InUseAlive
<1> QED
  BY <1>1, DevInit, DevStep, PTL DEF Spec

\* Until then the last event about a device no command is at work on, and the
\* last one about its tunnel, told the truth or was named by the caller of
\* ldt_dev_evsend.
THEOREM EventsTellTheTruth == Spec => []LoadedEventsTrue
<1>1. LoadedInv => LoadedEventsTrue
  <2> SUFFICES ASSUME DevInv, NEW d \in Dev, cur["h"] # d
               PROVE  /\ evif[d] \in {"user", IF state[d] = "registered" THEN "up"
                                              ELSE "down"}
                      /\ evtun[d] \in {"user", IF tun[d] THEN "up" ELSE "down"}
    BY DEF LoadedInv, LoadedEventsTrue, EventsTrue
  <2> QED
    BY DEF DevInv, TypeOK, Told
<1> QED
  BY <1>1, DevInit, DevStep, PTL DEF Spec
=============================================================================
