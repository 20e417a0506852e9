------------------------------- MODULE Conman -------------------------------
(***************************************************************************)
(* The connection manager, tool/conman.c, on top of the library: it        *)
(* connects a tunnel, trying its addresses in turn, waits until the tunnel *)
(* goes down and connects it again.                                        *)
(*                                                                         *)
(* It is the application of LdtLib: its calls are made there, and it looks *)
(* at what they returned (last) when the library is idle again.            *)
(***************************************************************************)
EXTENDS LdtLib

CONSTANTS
    Name,       \* the device it was started for
    num_addr    \* how many address pairs it was given

ASSUME ConmanAssumption == Name \in Devs /\ num_addr \in Nat

VARIABLES
    at,         \* where cmd_conman stands
    i,          \* the address that is tried
    tundown, ifdown     \* what wait_on_come_back has seen

conmanVars == <<at, i, tundown, ifdown>>
allVars == <<vars, conmanVars>>

\* The events wait_on_down and wait_on_come_back listen to.  DOWN is among
\* them too, but the kernel never sends it.
\* Variant: the removal of the tunnel is forgotten.
DownEventsNoTun == {"IFDOWN", "TPDOWN"}
DownEvents == {"TUNDOWN", "IFDOWN", "TPDOWN"}
UpEvents == {"TUNUP", "TUNDOWN", "IFDOWN", "IFUP", "TPDOWN"}

ConmanInit ==
    /\ Init
    /\ at = "start" /\ i = 0 /\ tundown = FALSE /\ ifdown = FALSE

Idle == pc = "idle"
Goes(where) == at' = where /\ UNCHANGED <<i, tundown, ifdown>>
Silent == UNCHANGED vars

-----------------------------------------------------------------------------
\* ldt_open, ldt_event_open.
Start == at = "start" /\ ldt_event_open(Name) /\ Goes("opening")

Opened ==
    /\ at = "opening" /\ Idle
    /\ at' = (IF last.ret = "ok" THEN "connect" ELSE "exit")
    /\ i' = 0 /\ UNCHANGED <<tundown, ifdown>>
    /\ Silent

\* try_connect of the address i, or without an address when there is none.
Bind ==
    /\ at = "connect" /\ num_addr > 0
    /\ ldt_tunbind(Name) /\ Goes("binding")

BindReturns ==
    /\ at = "binding" /\ Idle
    /\ Goes(IF last.ret = "ok" THEN "peer" ELSE "failed")
    /\ Silent

Peer ==
    /\ at = "peer" \/ (at = "connect" /\ num_addr = 0)
    /\ ldt_tun_setpeer(Name, TRUE) /\ Goes("connecting")

PeerReturns ==
    /\ at = "connecting" /\ Idle
    /\ Goes(IF last.ret = "ok" THEN "connected" ELSE "failed")
    /\ Silent

\* try_connect_all: the next address, after a pause; all of them have failed
\* when the last one has, and then the loop of cmd_conman begins again.
NextAddr ==
    /\ at = "failed"
    /\ at' = "connect"
    /\ i' = (IF i + 1 < num_addr THEN i + 1 ELSE 0)
    /\ UNCHANGED <<tundown, ifdown>>
    /\ Silent

\* wait_on_down.
WaitOnDown ==
    /\ at = "connected"
    /\ Call("waitif", Name, FALSE, DownEvents) /\ Goes("down")

\* The test of the result is inverted: an event that was received counts as
\* an error, is logged and the tunnel is connected again at once.
DownReturns ==
    /\ at = "down" /\ Idle /\ last.ret = "ok"
    /\ at' = "connect" /\ i' = 0
    /\ UNCHANGED <<tundown, ifdown>>
    /\ Silent

\* After an error evinfo has not been written: its evtype is anything.
DownFails ==
    /\ at = "down" /\ Idle /\ last.ret = "err"
    /\ \E evtype \in {"DOWN", "TUNDOWN", "IFDOWN", "TPDOWN", "garbage"} :
          /\ at' = CASE evtype = "DOWN" -> "connect"
                     [] evtype = "TPDOWN" -> "exit"
                     [] OTHER -> "back"
          /\ tundown' = (evtype = "TUNDOWN") /\ ifdown' = (evtype = "IFDOWN")
    /\ i' = 0
    /\ Silent

\* wait_on_come_back.
WaitOnComeBack ==
    /\ at = "back"
    /\ Call("waitif", Name, FALSE, UpEvents) /\ Goes("comeback")

BackReturns ==
    /\ at = "comeback" /\ Idle
    /\ LET ev  == IF last.ret = "ok" THEN last.ev.ev ELSE "error"
           td  == (tundown \/ ev = "TUNDOWN") /\ ev # "TUNUP"
           ifd == (ifdown \/ ev = "IFDOWN") /\ ev # "IFUP"
       IN  /\ tundown' = td /\ ifdown' = ifd
           /\ at' = CASE ev = "error" -> "connect"
                      [] ev = "TPDOWN" -> "exit"
                      [] ev = "TUNUP" /\ ~ifd -> "connect"
                      [] ev = "IFUP" /\ ~td -> "connect"
                      [] OTHER -> "back"
    /\ i' = 0
    /\ Silent

cmd_conman ==
    \/ Start \/ Opened \/ Bind \/ BindReturns \/ Peer \/ PeerReturns \/ NextAddr
    \/ WaitOnDown \/ DownReturns \/ DownFails \/ WaitOnComeBack \/ BackReturns

ConmanNext ==
    \/ cmd_conman
    \/ (Library \/ Kernel \/ Others) /\ UNCHANGED conmanVars

\* The manager's process and the kernel's workers run.
ConmanSpec ==
    /\ ConmanInit /\ [][ConmanNext]_allVars
    /\ WF_allVars(cmd_conman)
    /\ WF_allVars(Library /\ UNCHANGED conmanVars)
    /\ WF_allVars(Kernel /\ UNCHANGED conmanVars)

-----------------------------------------------------------------------------
(* A manager that waits for its tunnel to go down notices that the tunnel, or
   its device, is removed or the module unloaded, even if that happens before
   it begins to wait: ldt_getinfo does not drop the event that matters (while
   no message is lost by an overflow of the receive buffer).               *)
DownNoticed == (at = "down" /\ dev[Name] # "tun") ~> (at # "down" \/ lost)

(* Claim: the manager tries to establish a connection as long as there is
   none.                                                                   *)
Reconnects == (at = "down" /\ conn[Name] = "no") ~> (at # "down" \/ conn[Name] = "estab")
=============================================================================
