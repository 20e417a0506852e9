------------------------------ MODULE LdtAddr ------------------------------
(***************************************************************************)
(* The addresses of a tunnel, ldt_tunaddr.c with ldt_addr.h, as the binds  *)
(* of ldt_tun.c drive them: ldt_tun_bind with an address of the user's,    *)
(* ldt_tun_rebind with the first address of the physical device, either    *)
(* when the tunnel is bound to the device or when that device comes up     *)
(* (flag ADDRCHG, which keeps the port), and ldt_tun_peer.                 *)
(*                                                                         *)
(* An address is a family, an ip (0 is the wildcard) and a port (0 is any);*)
(* the one of a tunnel has the tunnel's family.  Definitions marked        *)
(* "Variant" are plausible mistakes.                                       *)
(***************************************************************************)
EXTENDS Integers

CONSTANTS
    Ipv6,       \* whether the tunnel is one over IPv6: the values to check
    Ips,        \* the addresses a user may give, 0 among them
    Ports,      \* the ports a user may give, 0 among them
    DevIps,     \* the addresses the physical device may have
    MayLack     \* it may have none

NoIp == -1

AddrAssumption ==
    /\ Ipv6 \subseteq BOOLEAN
    /\ Ips \subseteq Nat /\ Ports \subseteq Nat
    /\ DevIps \subseteq Nat
    /\ MayLack \in BOOLEAN

DevAddrs == DevIps \cup (IF MayLack THEN {NoIp} ELSE {})

Families == {"inet", "inet6"}

Addrs == [fam : Families, ip : Ips, port : Ports]

VARIABLES
    tad,        \* the structure tp_tunaddr_t
    pdev,       \* the tunnel is bound to the physical device
    devip,      \* the first address of that device
    rebinds,    \* what the last REBIND event of a rebind was about
    oops,       \* a NULL pointer was followed
    \* Not in the code, to state the properties:
    gotip,      \* the ip of the last bind or rebind
    gotport,    \* the port of the last bind that was to set one
    gotpeer     \* the last peer address

addrVars == <<tad, pdev, devip, rebinds, oops, gotip, gotport, gotpeer>>

AnyAddr(v6) == [fam |-> IF v6 THEN "inet6" ELSE "inet", ip |-> 0, port |-> 0]

\* ldt_tunaddr_init
AddrInit ==
    /\ \E v6 \in Ipv6 :
          /\ tad = [laddr |-> AnyAddr(v6), raddr |-> AnyAddr(v6), ipv6 |-> v6,
                    anyladdr |-> FALSE, anylport |-> FALSE, anyraddr |-> TRUE,
                    hasraddr |-> FALSE, bound |-> FALSE, lport |-> 0]
          /\ gotpeer = AnyAddr(v6)
    /\ pdev = FALSE
    /\ devip \in DevAddrs
    /\ rebinds = NoIp /\ oops = FALSE
    /\ gotip = 0 /\ gotport = 0

\* ldt_tunaddr_bind succeeds: the family is the tunnel's, and only the ip of
\* an address that was bound before can be changed.
CanBind(ad, addrchg) ==
    /\ ad.fam = tad.raddr.fam
    /\ addrchg => tad.bound

\* Variant: the port is taken from the new address in any case.
BoundForgetsPort(ad, addrchg) ==
    [tad EXCEPT !.laddr = ad, !.anyladdr = (ad.ip = 0), !.bound = TRUE,
                !.lport = IF addrchg THEN @ ELSE ad.port,
                !.anylport = IF addrchg THEN @ ELSE ad.port = 0]

\* Variant: the mark for any port is not brought up to date.
BoundKeepsAny(ad, addrchg) ==
    [tad EXCEPT !.laddr.ip = ad.ip, !.anyladdr = (ad.ip = 0), !.bound = TRUE,
                !.laddr.port = IF addrchg THEN @ ELSE ad.port,
                !.lport = IF addrchg THEN @ ELSE ad.port,
                !.anylport = @ \/ ad.port = 0]

\* ldt_tunaddr_bind
Bound(ad, addrchg) ==
    [tad EXCEPT !.laddr.ip = ad.ip, !.anyladdr = (ad.ip = 0), !.bound = TRUE,
                !.laddr.port = IF addrchg THEN @ ELSE ad.port,
                !.lport = IF addrchg THEN @ ELSE ad.port,
                !.anylport = IF addrchg THEN @ ELSE ad.port = 0]

\* ldt_tun_bind, which sends REBIND like a rebind does.
ldt_tun_bind(ad) ==
    /\ ~oops /\ CanBind(ad, FALSE)
    /\ tad' = Bound(ad, FALSE)
    /\ gotip' = ad.ip /\ gotport' = ad.port
    /\ UNCHANGED <<pdev, devip, rebinds, oops, gotpeer>>

\* The address tptun_rebind finds on the device: the first one.  Without an
\* address an IPv6 tunnel uses what was on the stack.
DeviceAddr ==
    IF devip = NoIp THEN Addrs
    ELSE {[AnyAddr(tad.ipv6) EXCEPT !.ip = devip]}

\* ldt_tun_rebind, on the device the tunnel is bound to.
ldt_tun_rebind(addrchg) ==
    \/ /\ ~tad.ipv6 /\ devip = NoIp
       /\ oops' = TRUE
       /\ UNCHANGED <<tad, rebinds, gotip, gotport>>
    \/ /\ tad.ipv6 \/ devip # NoIp
       /\ \E ad \in DeviceAddr :
             \/ /\ CanBind(ad, addrchg)
                /\ tad' = Bound(ad, addrchg)
                /\ rebinds' = ad.ip
                /\ gotip' = ad.ip
                /\ gotport' = IF addrchg THEN gotport ELSE ad.port
             \/ /\ ~CanBind(ad, addrchg)
                /\ UNCHANGED <<tad, rebinds, gotip, gotport>>
       /\ UNCHANGED oops

\* ldt_dev_bind2dev
Bind2Dev ==
    /\ ~oops
    /\ pdev' = TRUE
    /\ ldt_tun_rebind(FALSE)
    /\ UNCHANGED <<devip, gotpeer>>

\* tpdev_ndevup: the device comes up, perhaps with another address.
DeviceUp ==
    /\ ~oops /\ pdev
    /\ ldt_tun_rebind(TRUE)
    /\ UNCHANGED <<pdev, devip, gotpeer>>

DeviceAddressChanges ==
    /\ ~oops
    /\ devip' \in DevAddrs
    /\ UNCHANGED <<tad, pdev, rebinds, oops, gotip, gotport, gotpeer>>

\* ldt_tunaddr_setpeer.  (No caller uses dyn.)
Peered(ad) ==
    [tad EXCEPT !.raddr = ad, !.anyraddr = (ad.ip = 0), !.hasraddr = (ad.ip # 0)]

ldt_tun_peer(ad) ==
    /\ ~oops /\ ad.fam = tad.raddr.fam
    /\ tad' = Peered(ad)
    /\ gotpeer' = ad
    /\ UNCHANGED <<pdev, devip, rebinds, oops, gotip, gotport>>

AddrNext ==
    \/ \E ad \in Addrs : ldt_tun_bind(ad) \/ ldt_tun_peer(ad)
    \/ Bind2Dev \/ DeviceUp \/ DeviceAddressChanges

AddrSpec == AddrInit /\ [][AddrNext]_addrVars

-----------------------------------------------------------------------------
(* What ldt_tunaddr_prt shows: the address that was set, and the actual one *)
(* in addition where that may differ.                                      *)

None    == -1     \* there is no such line
Unbound == -2

Report ==
    [locaddr    |-> IF ~tad.bound THEN Unbound
                    ELSE IF tad.anyladdr THEN 0 ELSE tad.laddr.ip,
     actlocaddr |-> IF tad.bound /\ tad.anyladdr THEN tad.laddr.ip ELSE None,
     locport    |-> IF ~tad.bound THEN None
                    ELSE IF tad.anylport THEN 0 ELSE tad.laddr.port,
     actlocport |-> IF tad.bound /\ tad.anylport THEN tad.laddr.port ELSE None,
     remaddr    |-> IF tad.anyraddr THEN 0 ELSE tad.raddr.ip,
     remport    |-> IF tad.anyraddr THEN 0 ELSE tad.raddr.port,
     actremaddr |-> IF tad.anyraddr /\ tad.hasraddr THEN tad.raddr.ip ELSE None]

-----------------------------------------------------------------------------
(* Properties.                                                             *)

\* A device that comes up changes the ip the tunnel is bound to and nothing
\* else: the port is the one of the last bind that had to set one, in the
\* address and in its copy lport.
PortKept ==
    tad.bound => tad.laddr.port = gotport /\ tad.lport = gotport

\* What ldt_tunaddr_prt reports to showdev is what the last bind, rebind and
\* setpeer have set, after any sequence of them; the lines with actual
\* values appear only for a wildcard.
ReportTrue ==
    /\ tad.bound => Report.locaddr = gotip /\ Report.locport = gotport
    /\ tad.bound => (Report.actlocport # None <=> gotport = 0)
    /\ Report.remaddr = gotpeer.ip
    /\ gotpeer.ip # 0 => Report.remport = gotpeer.port
    /\ Report.actremaddr = None

\* ldt_event.c:168 on the event REBIND: "tunnel was rebound".  A rebind to
\* the physical device binds to an address of that device.
RebindTrue == [][rebinds' # rebinds => rebinds' = devip]_addrVars
=============================================================================
