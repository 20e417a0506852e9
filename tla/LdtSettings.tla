---------------------------- MODULE LdtSettings ----------------------------
(***************************************************************************)
(* What a user sets in the kernel module and reads back: the addresses of  *)
(* a tunnel and the two sysctls of the log level.  They share no state.    *)
(***************************************************************************)
EXTENDS LdtAddr, LdtSysctl

SettingsSpec == AddrSpec /\ SysctlSpec

\* What a user has set is what the module uses and shows: ldt_tunaddr_prt
\* reports what the last bind, rebind and setpeer have set, a device that
\* comes up changes no port, and a debug setting that is on says which
\* messages are printed, whichever of the two files was written in between.
SettingsTrue ==
    /\ PortKept /\ ReportTrue
    /\ DebugOnTrue
=============================================================================
