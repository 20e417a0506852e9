------------------------------- MODULE LdtDev -------------------------------
(***************************************************************************)
(* The network devices of the ldt module (ldt_dev.c, ldt_mod.c) and the    *)
(* netlink commands that work on them (ldt_netlink.c): how a device comes, *)
(* is used and goes, who holds a reference to it, and how it follows the   *)
(* physical device below it.                                               *)
(*                                                                         *)
(* Contexts that run at the same time:                                     *)
(*   h  a netlink command; generic netlink runs one at a time              *)
(*   n  the notifier for physical devices, under the rtnl lock             *)
(*   x  the exit of the module                                             *)
(* and transmission, which takes no lock.                                  *)
(***************************************************************************)
EXTENDS Integers, Sequences, FiniteSets, SequencesExt

CONSTANTS
    Dev,        \* ldt devices, by name
    Pdev,       \* physical devices
    Commands,   \* netlink commands on a device that come
    MaxRefs,    \* bound of the references to a device a command may find
    Unload      \* whether the module may be unloaded

ASSUME DevAssumption ==
    /\ Dev \cap Pdev = {} /\ IsFiniteSet(Dev)
    /\ Unload \in BOOLEAN /\ MaxRefs \in Nat

Null == "null"
ASSUME NullAssumption == Null \notin Dev \cup Pdev

Contexts == {"h", "n", "x"}
AllCommands == {"rmdev", "rmtun", "newtun", "bind2dev", "evsend", "other"}
ASSUME CommandsAssumption == Commands \subseteq AllCommands

VARIABLES
    state,      \* of a device: free, registered, gone (uninit has run)
    refs,       \* its reference count
    active,     \* tdev->active
    up,         \* IFF_UP
    tun,        \* whether the device has a tunnel (hastun, tun.tunops)
    pdev,       \* tdev->pdev
    pdevdown,   \* tdev->tun.pdevdown
    lock,       \* who holds tdev->lock
    netdevs,    \* the kernel's list of devices, in order of registration
    devlist,    \* ldt_dev_list, latest first
    xmit,       \* devices with a transmission inside their tunnel
    pup,        \* physical devices that are up
    prefs,      \* references to a physical device taken by bind2dev
    rtnl,       \* who holds the rtnl lock
    notif,      \* whether the notifier is registered
    pc, cur,    \* what a context does, and with which device
    cmd,        \* the netlink command that is handled
    arg,        \* its physical device, and the one the notifier speaks of
    nxt,        \* tmp of hlist_for_each_entry_safe in ldt_remove_all
    evif, evtun \* what the last event said of a device and of its tunnel: up,
                \* down, or (user) what the command evsend was told to say

devVars  == <<state, refs, active, up, tun, pdev, pdevdown, lock>>
listVars == <<netdevs, devlist>>
kernVars == <<pup, prefs, rtnl, notif>>
ctxVars  == <<pc, cur, cmd, arg, nxt>>
evVars   == <<evif, evtun>>
vars == <<devVars, listVars, kernVars, ctxVars, evVars, xmit>>

Init ==
    /\ state = [d \in Dev |-> "free"]
    /\ refs = [d \in Dev |-> 0]
    /\ active = [d \in Dev |-> FALSE]
    /\ up = [d \in Dev |-> FALSE]
    /\ tun = [d \in Dev |-> FALSE]
    /\ pdev = [d \in Dev |-> Null]
    /\ pdevdown = [d \in Dev |-> FALSE]
    /\ lock = [d \in Dev |-> Null]
    /\ netdevs = <<>> /\ devlist = <<>>
    /\ xmit = {}
    /\ pup = Pdev /\ prefs = [p \in Pdev |-> 0]
    /\ rtnl = Null /\ notif = TRUE
    /\ pc = [c \in Contexts |-> "idle"]
    /\ cur = [c \in Contexts |-> Null]
    /\ cmd = "other" /\ arg = [c \in {"h", "n"} |-> Null] /\ nxt = Null
    /\ evif = [d \in Dev |-> "down"] /\ evtun = [d \in Dev |-> "down"]

Goto(c, l) == pc' = [pc EXCEPT ![c] = l]
Hold(d) == refs' = [refs EXCEPT ![d] = @ + 1]
Put(d)  == refs' = [refs EXCEPT ![d] = @ - 1]

\* The device is an ldt device (uninit clears MAGIC) and in use.
DEV_OK(d) == state[d] = "registered" /\ active[d]

-----------------------------------------------------------------------------
(* ldt_create_dev                                                          *)

\* Up to register_netdev, which calls the notifier tp_ev_register.
ldt_create_dev(d) ==
    /\ pc["h"] = "idle" /\ pc["x"] # "done" /\ rtnl = Null
    /\ state[d] = "free"
    /\ state' = [state EXCEPT ![d] = "registered"]
    /\ Hold(d)
    /\ netdevs' = Append(netdevs, d)
    /\ active' = [active EXCEPT ![d] = notif]
    /\ evif' = [evif EXCEPT ![d] = IF notif THEN "up" ELSE @]
    /\ Goto("h", "add") /\ cur' = [cur EXCEPT !["h"] = d]
    /\ UNCHANGED <<up, tun, pdev, pdevdown, lock, devlist, kernVars, cmd, arg,
          nxt, evtun, xmit>>

\* hlist_add_head.
ListAdd ==
    /\ pc["h"] = "add"
    /\ devlist' = <<cur["h"]>> \o devlist
    /\ Goto("h", "idle") /\ cur' = [cur EXCEPT !["h"] = Null]
    /\ UNCHANGED <<devVars, netdevs, kernVars, cmd, arg, nxt, evVars, xmit>>

-----------------------------------------------------------------------------
(* A command on a device                                                   *)

\* Variant: bind2dev does not hold the physical device.
LookupNoPdevRef(d, k) ==
    /\ pc["h"] = "idle" /\ pc["x"] # "done"
    /\ d \in ToSet(netdevs) /\ refs[d] < MaxRefs
    /\ Hold(d)
    /\ cur' = [cur EXCEPT !["h"] = d]
    /\ cmd' = k
    /\ IF k = "bind2dev" THEN \E p \in Pdev : arg' = [arg EXCEPT !["h"] = p]
       ELSE UNCHANGED arg
    /\ Goto("h", IF k = "rmdev" THEN "free" ELSE "lock")
    /\ UNCHANGED <<state, active, up, tun, pdev, pdevdown, lock, listVars,
          kernVars, nxt, evVars, xmit>>

\* LDTDEV_BYNAME: the device is found by name and held.  bind2dev then holds
\* the physical device as well.
LDTDEV_BYNAME(d, k) ==
    /\ pc["h"] = "idle" /\ pc["x"] # "done"
    /\ d \in ToSet(netdevs) /\ refs[d] < MaxRefs
    /\ Hold(d)
    /\ cur' = [cur EXCEPT !["h"] = d]
    /\ cmd' = k
    /\ IF k = "bind2dev"
          THEN \E p \in Pdev :
                  /\ prefs[p] < MaxRefs
                  /\ prefs' = [prefs EXCEPT ![p] = @ + 1]
                  /\ arg' = [arg EXCEPT !["h"] = p]
          ELSE UNCHANGED <<prefs, arg>>
    /\ Goto("h", IF k = "rmdev" THEN "free" ELSE "lock")
    /\ UNCHANGED <<state, active, up, tun, pdev, pdevdown, lock, listVars, pup,
          rtnl, notif, nxt, evVars, xmit>>

\* DEV_LOCK_CHK fails, or rm_tun finds the device up.
Refused ==
    LET d == cur["h"] IN
    /\ pc["h"] = "lock" /\ lock[d] = Null
    /\ \/ ~DEV_OK(d)
       \/ cmd = "rmtun" /\ up[d]
    /\ prefs' = IF cmd = "bind2dev" THEN [prefs EXCEPT ![arg["h"]] = @ - 1]
                ELSE prefs
    /\ Goto("h", "put")
    /\ UNCHANGED <<devVars, listVars, pup, rtnl, notif, cur, cmd, arg, nxt,
          evVars, xmit>>

\* rm_tun and newtun keep the lock, rm_tun only if the device is not up ...
LockDev ==
    LET d == cur["h"] IN
    /\ pc["h"] = "lock" /\ lock[d] = Null /\ DEV_OK(d)
    /\ cmd = "newtun" \/ (cmd = "rmtun" /\ ~up[d])
    /\ lock' = [lock EXCEPT ![d] = "h"]
    /\ Goto("h", "suspend")
    /\ UNCHANGED <<state, refs, active, up, tun, pdev, pdevdown, listVars,
          kernVars, cur, cmd, arg, nxt, evVars, xmit>>

\* ... and stop transmission: SETACTIVE(tdev,0).
Suspend ==
    /\ pc["h"] = "suspend"
    /\ active' = [active EXCEPT ![cur["h"]] = FALSE]
    /\ Goto("h", "change")
    /\ UNCHANGED <<state, refs, up, tun, pdev, pdevdown, lock, listVars,
          kernVars, cur, cmd, arg, nxt, evVars, xmit>>

\* SETACTIVE(tdev,1), DEV_UNLOCK.
Resume(d) ==
    /\ active' = [active EXCEPT ![d] = TRUE]
    /\ lock' = [lock EXCEPT ![d] = Null]
    /\ Goto("h", "put")

\* ldt_rm_tun2 as seen from the device.
ldt_rm_tun2(d) ==
    /\ tun' = [tun EXCEPT ![d] = FALSE]
    /\ pdevdown' = [pdevdown EXCEPT ![d] = FALSE]
    /\ evtun' = [evtun EXCEPT ![d] = "down"]

ldt_rm_tun ==
    LET d == cur["h"] IN
    /\ pc["h"] = "change" /\ cmd = "rmtun"
    /\ ldt_rm_tun2(d)
    /\ Resume(d)
    /\ UNCHANGED <<state, refs, up, pdev, listVars, kernVars, cur, cmd, arg,
          nxt, evif, xmit>>

\* Variant: a failed ldt_tun_init is announced as well.
AnnounceAlways ==
    LET d == cur["h"] IN
    /\ pc["h"] = "change" /\ cmd = "newtun"
    /\ tun' = [tun EXCEPT ![d] = TRUE] \/ UNCHANGED tun
    /\ evtun' = [evtun EXCEPT ![d] = "up"]
    /\ UNCHANGED pdevdown
    /\ Resume(d)
    /\ UNCHANGED <<state, refs, up, pdev, listVars, kernVars, cur, cmd, arg,
          nxt, evif, xmit>>

\* Refused if there is a tunnel; otherwise the tunnel is set up anew, which
\* may fail.
ldt_dev_newtun ==
    LET d == cur["h"] IN
    /\ pc["h"] = "change" /\ cmd = "newtun"
    /\ \/ tun[d] /\ UNCHANGED <<tun, evtun, pdevdown>>
       \/ /\ ~tun[d]
          /\ pdevdown' = [pdevdown EXCEPT ![d] = FALSE]
          /\ \/ UNCHANGED <<tun, evtun>>
             \/ /\ tun' = [tun EXCEPT ![d] = TRUE]
                /\ evtun' = [evtun EXCEPT ![d] = "up"]
    /\ Resume(d)
    /\ UNCHANGED <<state, refs, up, pdev, listVars, kernVars, cur, cmd, arg,
          nxt, evif, xmit>>

\* The reference moves from the old physical device to the new one.  Rebinding
\* the tunnel is the business of LdtConn.
ldt_dev_bind2dev ==
    LET d == cur["h"] IN
    /\ pc["h"] = "lock" /\ cmd = "bind2dev" /\ lock[d] = Null /\ DEV_OK(d)
    /\ prefs' = IF pdev[d] = Null THEN prefs
                ELSE [prefs EXCEPT ![pdev[d]] = @ - 1]
    /\ pdev' = [pdev EXCEPT ![d] = arg["h"]]
    /\ pdevdown' = [pdevdown EXCEPT ![d] = FALSE]
    /\ Goto("h", "put")
    /\ UNCHANGED <<state, refs, active, up, tun, lock, listVars, pup, rtnl,
          notif, cur, cmd, arg, nxt, evVars, xmit>>

\* ldt_dev_evsend sends the event its caller names: about the device, its
\* tunnel, or something else.
ldt_dev_evsend ==
    LET d == cur["h"] IN
    /\ pc["h"] = "lock" /\ cmd = "evsend" /\ lock[d] = Null /\ DEV_OK(d)
    /\ \/ evif' = [evif EXCEPT ![d] = "user"] /\ UNCHANGED evtun
       \/ evtun' = [evtun EXCEPT ![d] = "user"] /\ UNCHANGED evif
       \/ UNCHANGED evVars
    /\ Goto("h", "put")
    /\ UNCHANGED <<devVars, listVars, kernVars, cur, cmd, arg, nxt, xmit>>

\* bind, peer, serverstart, setqueue, set_mtu and show_dev: they lock the
\* device, call the tunnel and leave the device as it is.
OtherCommand ==
    LET d == cur["h"] IN
    /\ pc["h"] = "lock" /\ cmd = "other" /\ lock[d] = Null /\ DEV_OK(d)
    /\ Goto("h", "put")
    /\ UNCHANGED <<devVars, listVars, kernVars, cur, cmd, arg, nxt, evVars,
          xmit>>

\* dev_put at the end of a command.
PutDev ==
    /\ pc["h"] = "put"
    /\ Put(cur["h"])
    /\ Goto("h", "idle") /\ cur' = [cur EXCEPT !["h"] = Null]
    /\ arg' = [arg EXCEPT !["h"] = Null] /\ cmd' = "other"
    /\ UNCHANGED <<state, active, up, tun, pdev, pdevdown, lock, listVars,
          kernVars, nxt, evVars, xmit>>

-----------------------------------------------------------------------------
(* ldt_free_dev, called by rm_dev (c = h) and by ldt_remove_all (c = x)    *)

Done(c) == IF c = "h" THEN "idle" ELSE "next"

\* The device is not in use: nothing is done, not even a dev_put.
FreeRefused(c) ==
    LET d == cur[c] IN
    /\ pc[c] = "free" /\ ~DEV_OK(d)
    /\ Goto(c, Done(c)) /\ cur' = [cur EXCEPT ![c] = Null]
    /\ UNCHANGED <<devVars, listVars, kernVars, cmd, arg, nxt, evVars, xmit>>

\* The device is in use, and tpdev_close closes it.
FreeCheck(c) ==
    /\ pc[c] = "free" /\ DEV_OK(cur[c])
    /\ Goto(c, "close")
    /\ UNCHANGED <<devVars, listVars, kernVars, cur, cmd, arg, nxt, evVars, xmit>>

\* Variant: the reference of LDTDEV_BYNAME is kept.
FreeBeginNoPut(c) ==
    LET d == cur[c] IN
    /\ pc[c] = "close"
    /\ active' = [active EXCEPT ![d] = FALSE]
    /\ evif' = [evif EXCEPT ![d] = "down"]
    /\ Goto(c, "unlist")
    /\ UNCHANGED <<state, refs, up, tun, pdev, pdevdown, lock, listVars,
          kernVars, cur, cmd, arg, nxt, evtun, xmit>>

\* SETACTIVE(tdev,0), the event, dev_put.
FreeBegin(c) ==
    LET d == cur[c] IN
    /\ pc[c] = "close"
    /\ active' = [active EXCEPT ![d] = FALSE]
    /\ evif' = [evif EXCEPT ![d] = "down"]
    /\ Put(d)
    /\ Goto(c, "unlist")
    /\ UNCHANGED <<state, up, tun, pdev, pdevdown, lock, listVars, kernVars,
          cur, cmd, arg, nxt, evtun, xmit>>

\* Variant: the device stays in ldt_dev_list.
FreeUnlistForgotten(c) ==
    /\ pc[c] = "unlist"
    /\ Goto(c, "unregister")
    /\ UNCHANGED <<devVars, listVars, kernVars, cur, cmd, arg, nxt, evVars,
          xmit>>

\* hlist_del.
FreeUnlist(c) ==
    /\ pc[c] = "unlist"
    /\ devlist' = RemoveFirst(devlist, cur[c])
    /\ Goto(c, "unregister")
    /\ UNCHANGED <<devVars, netdevs, kernVars, cur, cmd, arg, nxt, evVars,
          xmit>>

\* Variant: tpdev_uninit puts the device, too.
UnregisterPutTwice(c) ==
    LET d == cur[c] IN
    /\ pc[c] = "unregister" /\ rtnl = Null /\ d \notin xmit
    /\ up' = [up EXCEPT ![d] = FALSE]
    /\ netdevs' = RemoveFirst(netdevs, d)
    /\ state' = [state EXCEPT ![d] = "gone"]
    /\ ldt_rm_tun2(d)
    /\ lock' = [lock EXCEPT ![d] = Null]
    /\ refs' = [refs EXCEPT ![d] = @ - 2]
    /\ Goto(c, "wait")
    /\ UNCHANGED <<active, pdev, devlist, kernVars, cur, cmd, arg, nxt, evif,
          xmit>>

\* unregister_netdev: the device is closed and taken from the kernel's list,
\* running transmissions are waited for, and tpdev_uninit removes the tunnel,
\* sends its event, poisons the structure and resets the lock.
FreeUnregister(c) ==
    LET d == cur[c] IN
    /\ pc[c] = "unregister" /\ rtnl = Null /\ d \notin xmit
    /\ up' = [up EXCEPT ![d] = FALSE]
    /\ netdevs' = RemoveFirst(netdevs, d)
    /\ state' = [state EXCEPT ![d] = "gone"]
    /\ ldt_rm_tun2(d)
    /\ lock' = [lock EXCEPT ![d] = Null]
    /\ Put(d)
    /\ Goto(c, "wait")
    /\ UNCHANGED <<active, pdev, devlist, kernVars, cur, cmd, arg, nxt, evif,
          xmit>>

\* netdev_wait_allrefs, free_netdev.
FreeDone(c) ==
    LET d == cur[c] IN
    /\ pc[c] = "wait" /\ refs[d] = 0
    /\ state' = [state EXCEPT ![d] = "free"]
    /\ pdev' = [pdev EXCEPT ![d] = Null]
    /\ Goto(c, Done(c)) /\ cur' = [cur EXCEPT ![c] = Null]
    /\ UNCHANGED <<refs, active, up, tun, pdevdown, lock, listVars, kernVars,
          cmd, arg, nxt, evVars, xmit>>

ldt_free_dev(c) ==
    \/ FreeRefused(c) \/ FreeCheck(c) \/ FreeBegin(c) \/ FreeUnlist(c)
    \/ FreeUnregister(c) \/ FreeDone(c)

-----------------------------------------------------------------------------
(* The physical device                                                     *)

\* for_each_netdev: where the first device on p stands, or 0.
OnPdev(p) == SelectInSeq(netdevs, LAMBDA d : pdev[d] = p)

\* A physical device changes its state, and the notifier looks for the first
\* ldt device on it, which it holds.
tp_ev_ndev(p) ==
    /\ notif /\ rtnl = Null /\ pc["n"] = "idle"
    /\ pup' = (pup \ {p}) \cup ({p} \ pup)
    /\ IF OnPdev(p) = 0
          THEN UNCHANGED <<rtnl, refs, pc, cur, arg>>
          ELSE /\ rtnl' = "n"
               /\ Hold(netdevs[OnPdev(p)])
               /\ cur' = [cur EXCEPT !["n"] = netdevs[OnPdev(p)]]
               /\ arg' = [arg EXCEPT !["n"] = p]
               /\ Goto("n", "tell")
    /\ UNCHANGED <<state, active, up, tun, pdev, pdevdown, lock, listVars,
          prefs, notif, cmd, nxt, evVars, xmit>>

\* Variant: the device found by the search is not put.
TellNoPut ==
    LET d == cur["n"] IN
    /\ pc["n"] = "tell" /\ lock[d] = Null
    /\ pdevdown' = IF DEV_OK(d)
                      THEN [pdevdown EXCEPT ![d] = arg["n"] \notin pup]
                      ELSE pdevdown
    /\ rtnl' = Null
    /\ Goto("n", "idle") /\ cur' = [cur EXCEPT !["n"] = Null]
    /\ arg' = [arg EXCEPT !["n"] = Null]
    /\ UNCHANGED <<state, refs, active, up, tun, pdev, lock, listVars, pup,
          prefs, notif, cmd, nxt, evVars, xmit>>

\* tpdev_ndevup, tpdev_ndevdown: the device notes what happened, and is put.
Tell ==
    LET d == cur["n"] IN
    /\ pc["n"] = "tell" /\ lock[d] = Null
    /\ pdevdown' = IF DEV_OK(d)
                      THEN [pdevdown EXCEPT ![d] = arg["n"] \notin pup]
                      ELSE pdevdown
    /\ Put(d)
    /\ rtnl' = Null
    /\ Goto("n", "idle") /\ cur' = [cur EXCEPT !["n"] = Null]
    /\ arg' = [arg EXCEPT !["n"] = Null]
    /\ UNCHANGED <<state, active, up, tun, pdev, lock, listVars, pup, prefs,
          notif, cmd, nxt, evVars, xmit>>

-----------------------------------------------------------------------------
(* Transmission, and the interface going up and down                       *)

\* tpdev_open.
tpdev_open(d) ==
    /\ rtnl = Null /\ state[d] = "registered" /\ ~up[d]
    /\ up' = [up EXCEPT ![d] = TRUE]
    /\ UNCHANGED <<state, refs, active, tun, pdev, pdevdown, lock, listVars,
          kernVars, ctxVars, evVars, xmit>>

\* tpdev_close by the administrator; the stack waits for transmissions.
tpdev_close(d) ==
    /\ rtnl = Null /\ up[d] /\ d \notin xmit
    /\ up' = [up EXCEPT ![d] = FALSE]
    /\ UNCHANGED <<state, refs, active, tun, pdev, pdevdown, lock, listVars,
          kernVars, ctxVars, evVars, xmit>>

\* A packet passes the tests of tpdev_xmit and ldt_tun_xmit and is in the
\* tunnel's code, and it leaves.
tpdev_xmit(d) ==
    /\ up[d] /\ active[d] /\ tun[d] /\ d \notin xmit
    /\ xmit' = xmit \cup {d}
    /\ UNCHANGED <<devVars, listVars, kernVars, ctxVars, evVars>>

XmitDone(d) ==
    /\ d \in xmit
    /\ xmit' = xmit \ {d}
    /\ UNCHANGED <<devVars, listVars, kernVars, ctxVars, evVars>>

-----------------------------------------------------------------------------
(* The end of the module                                                   *)

\* unregister_netdevice_notifier, and the first device of the list.
ldt_dev_global_destroy ==
    /\ Unload /\ notif /\ rtnl = Null /\ pc["n"] = "idle"
    /\ notif' = FALSE
    /\ nxt' = IF devlist = <<>> THEN Null ELSE Head(devlist)
    /\ Goto("x", "next")
    /\ UNCHANGED <<devVars, listVars, pup, prefs, rtnl, cur, cmd, arg, evVars,
          xmit>>

\* One step of hlist_for_each_entry_safe: the next device is remembered
\* before this one is freed.
ldt_remove_all ==
    LET later == IF Contains(devlist, nxt)
                    THEN SubSeq(devlist, SelectInSeq(devlist,
                              LAMBDA e : e = nxt) + 1, Len(devlist))
                    ELSE <<>>
    IN
    /\ pc["x"] = "next" /\ nxt # Null
    /\ cur' = [cur EXCEPT !["x"] = nxt]
    /\ nxt' = IF later = <<>> THEN Null ELSE Head(later)
    /\ Goto("x", "free")
    /\ UNCHANGED <<devVars, listVars, kernVars, cmd, arg, evVars, xmit>>

\* The event "ldt module unloaded"; ldt_nl_unregister waits for a command.
ldt_module_exit ==
    /\ pc["x"] = "next" /\ nxt = Null /\ pc["h"] = "idle"
    /\ Goto("x", "done")
    /\ UNCHANGED <<devVars, listVars, kernVars, cur, cmd, arg, nxt, evVars,
          xmit>>

-----------------------------------------------------------------------------
Command ==
    \/ ListAdd \/ Refused \/ LockDev \/ Suspend \/ ldt_rm_tun \/ ldt_dev_newtun
    \/ ldt_dev_bind2dev \/ ldt_dev_evsend \/ OtherCommand \/ PutDev
    \/ ldt_free_dev("h")

Exit == ldt_remove_all \/ ldt_free_dev("x") \/ ldt_module_exit

\* Somebody works on a device that was freed, or two contexts remove the same
\* device: what follows is undefined, and the model stops.
Corrupt ==
    \/ /\ cur["h"] = cur["x"] /\ cur["h"] # Null
       /\ {pc["h"], pc["x"]} \subseteq {"close", "unlist", "unregister", "wait"}
    \/ \E c \in Contexts : cur[c] # Null /\ state[cur[c]] = "free"
    \/ pc["x"] = "next" /\ nxt # Null /\ state[nxt] = "free"

Next ==
    /\ ~Corrupt
    /\ \/ Command \/ Tell \/ Exit \/ ldt_dev_global_destroy
       \/ \E d \in Dev :
             \/ ldt_create_dev(d) \/ tpdev_open(d) \/ tpdev_close(d)
             \/ tpdev_xmit(d) \/ XmitDone(d)
             \/ \E k \in Commands : LDTDEV_BYNAME(d, k)
       \/ \E p \in Pdev : tp_ev_ndev(p)

\* A command, the notifier, the exit and a transmission that have begun go on.
Fairness ==
    /\ WF_vars(~Corrupt /\ Command) /\ WF_vars(~Corrupt /\ Tell)
    /\ WF_vars(~Corrupt /\ Exit)
    /\ \A d \in Dev : WF_vars(~Corrupt /\ XmitDone(d))

Spec == Init /\ [][Next]_vars /\ Fairness

-----------------------------------------------------------------------------
(* Properties                                                              *)

TypeOK ==
    /\ state \in [Dev -> {"free", "registered", "gone"}]
    /\ refs \in [Dev -> Int]
    /\ active \in [Dev -> BOOLEAN] /\ up \in [Dev -> BOOLEAN]
    /\ tun \in [Dev -> BOOLEAN] /\ pdevdown \in [Dev -> BOOLEAN]
    /\ pdev \in [Dev -> Pdev \cup {Null}]
    /\ lock \in [Dev -> {"h", Null}]
    /\ netdevs \in Seq(Dev) /\ devlist \in Seq(Dev)
    /\ xmit \subseteq Dev /\ pup \subseteq Pdev /\ prefs \in [Pdev -> Nat]
    /\ rtnl \in {"n", Null} /\ notif \in BOOLEAN
    /\ pc \in [Contexts -> {"idle", "add", "lock", "suspend", "change", "put", "free",
          "close", "unlist", "unregister", "wait", "tell", "next", "done"}]
    /\ cur \in [Contexts -> Dev \cup {Null}]
    /\ cmd \in AllCommands
    /\ arg \in [{"h", "n"} -> Pdev \cup {Null}]
    /\ nxt \in Dev \cup {Null}
    /\ evif \in [Dev -> {"up", "down", "user"}]
    /\ evtun \in [Dev -> {"up", "down", "user"}]

One(b) == IF b THEN 1 ELSE 0

\* The reference count of a device is the number of those who hold it: the
\* kernel while it is registered, a command between LDTDEV_BYNAME and its
\* dev_put (which for rm_dev is the one in ldt_free_dev), and the notifier.
RefsBalanced ==
    \A d \in Dev : refs[d] =
        One(state[d] = "registered") + One(cur["n"] = d)
          + One(cur["h"] = d /\ pc["h"] \notin {"add", "unlist", "unregister", "wait"})

\* Nobody works on a device that was freed: neither a command, nor the
\* notifier, nor a transmission, and both lists hold registered devices only.
InUseAlive ==
    /\ ~Corrupt
    /\ \A d \in xmit \cup ToSet(netdevs) \cup ToSet(devlist) :
          state[d] = "registered"

\* tdev->pdev points to a physical device that is held for it, so that it
\* cannot vanish: there are at least as many references as devices that use it.
PdevHeld ==
    \A p \in Pdev : prefs[p] >= Cardinality({d \in Dev : pdev[d] = p})

\* Whoever listens to the events knows the devices and tunnels there are:
\* when no command is at work on it, the last event about a device and about
\* its tunnel told the truth, unless it was one that evsend was asked for.
EventsTrue ==
    \A d \in Dev : cur["h"] # d =>
        /\ evif[d] \in {"user", IF state[d] = "registered" THEN "up" ELSE "down"}
        /\ evtun[d] \in {"user", IF tun[d] THEN "up" ELSE "down"}

\* Until the module is unloaded (ldt_remove_all drops a reference nobody took)
\* the reference count of a device is the number of those who hold it, a
\* physical device a tunnel is on is held for it, and so nobody works on a
\* device that was freed.
LoadedRefsBalanced == notif => TypeOK /\ RefsBalanced /\ PdevHeld /\ InUseAlive

\* Until then the last events about devices and tunnels that the module sent of
\* its own accord told the truth: newtun, rmtun, bind2dev, the creation and the
\* removal of a device, which fail half way and meet the notifier, announce
\* what they did and nothing else.
LoadedEventsTrue == notif => EventsTrue

\* A command that removes a device ends, also while the module is unloaded:
\* unregister_netdev does not wait for a reference for ever.
RemovalEnds == pc["h"] = "wait" ~> (pc["h"] = "idle" \/ Corrupt)

\* Transmission finds the tunnel in place as long as it is in its code, as
\* ldt_tun_xmit takes for granted.
XmitHasTunnel == \A d \in xmit : tun[d]

\* A tunnel that is marked pdevdown is on a physical device that is down.
PdevDownTrue ==
    \A d \in Dev : pdevdown[d] /\ pdev[d] # Null /\ rtnl = Null
                      => pdev[d] \notin pup

\* Unloading the module ends, and its last event is sent.
UnloadEnds == pc["x"] = "next" ~> (pc["x"] = "done" \/ Corrupt)

=============================================================================
