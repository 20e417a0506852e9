----------------------------- MODULE LdtSysctl -----------------------------
(***************************************************************************)
(* The settings net.ldt.loglevel and net.ldt.debug, ldt_sysctl.c: two      *)
(* views of how much the module logs.  A message of level v is printed     *)
(* when tp_cfg_loglevel >= v (ldt_debug.h); the debug messages are those   *)
(* of levels 7, 8 and 9.  Writers are processes; nothing locks the three   *)
(* variables.  The settings logflags and show_key are plain integers and   *)
(* left out.  Definitions marked "Variant" are plausible mistakes.         *)
(***************************************************************************)
EXTENDS Integers

CONSTANT Writers    \* the processes that write to the two files

VARIABLES
    tp_cfg_loglevel,
    tp_cfg_enable_debug,
    old_loglevel,
    stage,             \* what each writer does next
    val             \* the number it has written

sysctlVars == <<tp_cfg_loglevel, tp_cfg_enable_debug, old_loglevel, stage, val>>

SysctlInit ==
    /\ tp_cfg_loglevel = 5 /\ tp_cfg_enable_debug = 0 /\ old_loglevel = 5
    /\ stage = [w \in Writers |-> "idle"]
    /\ val = [w \in Writers |-> 0]

Then(w, where) == stage' = [stage EXCEPT ![w] = where]

\* proc_dointvec_minmax has accepted v: in 0 .. 9 for loglevel, in 0 .. 3 for
\* debug.
Write(w) ==
    /\ stage[w] = "idle"
    /\ \/ \E v \in 0 .. 9 : val' = [val EXCEPT ![w] = v] /\ Then(w, "save")
       \/ \E v \in 0 .. 3 : val' = [val EXCEPT ![w] = v] /\ Then(w, "debug")
    /\ UNCHANGED <<tp_cfg_loglevel, tp_cfg_enable_debug, old_loglevel>>

\* proc_loglevel
SaveLevel(w) ==
    /\ stage[w] = "save"
    /\ old_loglevel' = tp_cfg_loglevel
    /\ Then(w, "level")
    /\ UNCHANGED <<tp_cfg_loglevel, tp_cfg_enable_debug, val>>

SetLevel(w) ==
    /\ stage[w] = "level"
    /\ tp_cfg_loglevel' = val[w]
    /\ Then(w, "derive")
    /\ UNCHANGED <<tp_cfg_enable_debug, old_loglevel, val>>

DeriveDebug(w) ==
    /\ stage[w] = "derive"
    /\ tp_cfg_enable_debug' = IF val[w] >= 7 THEN val[w] - 6 ELSE 0
    /\ Then(w, "idle")
    /\ val' = [val EXCEPT ![w] = 0]
    /\ UNCHANGED <<tp_cfg_loglevel, old_loglevel>>

\* proc_debug
SetDebug(w) ==
    /\ stage[w] = "debug"
    /\ tp_cfg_enable_debug' = val[w]
    /\ Then(w, "restore")
    /\ UNCHANGED <<tp_cfg_loglevel, old_loglevel, val>>

\* Variant: the level is raised, never lowered.
DeriveLevelUp(w) ==
    /\ stage[w] = "restore"
    /\ tp_cfg_loglevel' = IF val[w] > 0 /\ val[w] + 6 > tp_cfg_loglevel
                          THEN val[w] + 6 ELSE tp_cfg_loglevel
    /\ Then(w, "idle")
    /\ val' = [val EXCEPT ![w] = 0]
    /\ UNCHANGED <<tp_cfg_enable_debug, old_loglevel>>

DeriveLevel(w) ==
    /\ stage[w] = "restore"
    /\ tp_cfg_loglevel' = IF val[w] > 0 THEN val[w] + 6 ELSE old_loglevel
    /\ Then(w, "idle")
    /\ val' = [val EXCEPT ![w] = 0]
    /\ UNCHANGED <<tp_cfg_enable_debug, old_loglevel>>

proc_loglevel(w) == SaveLevel(w) \/ SetLevel(w) \/ DeriveDebug(w)

proc_debug(w) == SetDebug(w) \/ DeriveLevel(w)

SysctlNext == \E w \in Writers : Write(w) \/ proc_loglevel(w) \/ proc_debug(w)

SysctlSpec == SysctlInit /\ [][SysctlNext]_sysctlVars
-----------------------------------------------------------------------------
(* Properties.                                                             *)

Quiet == \A w \in Writers : stage[w] = "idle"

\* The debug messages that are printed: those of which a kind exists.
Verbosity == IF tp_cfg_loglevel > 6 THEN tp_cfg_loglevel - 6 ELSE 0

\* After writes one after the other in any order, a debug setting that is on
\* says which messages are printed: writing one of the files leaves no
\* trace of what the other one had set before.
DebugOnTrue == Quiet /\ tp_cfg_enable_debug > 0 => Verbosity = tp_cfg_enable_debug

\* README:78 says "To enable debug message: sysctl net.ldt.debug=1": with 0
\* none are printed.
DebugOffTrue == Quiet /\ tp_cfg_enable_debug = 0 => Verbosity = 0
=============================================================================
