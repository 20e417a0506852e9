------------------------------ MODULE MCFrSync ------------------------------
(***************************************************************************)
(* What frlib does between processes, threads and the kernel, side by      *)
(* side: the locks of FrMutex, the threads of FrThread and the netlink     *)
(* sockets of FrFnl.  They share no state: in a behaviour one of them      *)
(* moves, the others stay as they were.                                    *)
(***************************************************************************)
EXTENDS FrMutex, FrThread, FrFnl

VARIABLE part   \* which one

\* Threads that end in the reverse order of their start; threads that end at
\* any time, whose init functions may fail.
Anyhow == [rets |-> {"ok", "error"}, patient |-> FALSE, lasting |-> FALSE, lifo |-> FALSE]

\* Answers and events as libtunprox takes them; with a timeout, their headers
\* looked at; answers whose numbers are compared; answers of which some are
\* errors or have a wrong length.
Plain == [errors |-> FALSE, odd |-> FALSE, events |-> TRUE, nohdr |-> TRUE,
          seqchk |-> FALSE, timed |-> FALSE]
Timely == [Plain EXCEPT !.nohdr = FALSE, !.timed = TRUE]
Numbered == [Plain EXCEPT !.nohdr = FALSE, !.events = FALSE, !.seqchk = TRUE]
Refusing == [Numbered EXCEPT !.errors = TRUE, !.odd = TRUE]

MCInit ==
    /\ part \in {"mutex", "threads", "netlink"}
    /\ Init
    /\ ThrInit /\ (Orderly \/ (part = "threads" /\ use = Anyhow))
    /\ FnlInit /\ how \in (IF part = "netlink" THEN {Plain, Timely, Numbered, Refusing}
                                                ELSE {Plain})

MCNext ==
    /\ UNCHANGED part
    /\ \/ part = "mutex" /\ Next /\ UNCHANGED <<threadVars, fnlVars>>
       \/ part = "threads" /\ ThrNext /\ UNCHANGED <<vars, fnlVars>>
       \/ part = "netlink" /\ FnlNext /\ UNCHANGED <<vars, threadVars>>

\* The fairness FrMutex, FrThread and FrFnl state and explain, of the writers
\* of FrMutex only what a reader needs.  The patient father is among Anyhow's
\* behaviours: no timeout need come.
MCFairness ==
    /\ \A p \in Proc :
          /\ WF_vars(part = "mutex" /\ CreateDone(p))
          /\ WF_vars(part = "mutex" /\ Look(p))
          /\ WF_vars(part = "mutex" /\ Unlock(p))
          /\ SF_vars(part = "mutex" /\ RdLock(p))
    /\ \A c \in Child :
          /\ WF_threadVars(use = Anyhow /\ Create(c))
          /\ WF_threadVars(use = Anyhow /\ Wait(c))
          /\ WF_threadVars(use = Anyhow /\ ReadRet(c))
          /\ WF_threadVars(use = Anyhow /\ Return(c))
          /\ WF_threadVars(use = Anyhow /\ Fail(c))
          /\ WF_threadVars(use = Anyhow /\ \E r \in use.rets : RunInit(c, r))
          /\ WF_threadVars(use = Anyhow /\ Publish(c))
          /\ WF_threadVars(use = Anyhow /\ Signal(c))
    /\ WF_fnlVars(part = "netlink" /\ how = Plain /\ (Ready \/ Overrun))
    /\ SF_fnlVars(part = "netlink" /\ how = Plain /\ (Grow \/ Peeked \/ Take))

MCSpec == MCInit /\ [][MCNext]_<<vars, threadVars, fnlVars, part>> /\ MCFairness

-----------------------------------------------------------------------------
\* The calls that may wait end: a reader gets its lock unless it times out or
\* somebody died with a lock that nobody undoes, frthr_start returns, and
\* fnl_recv2 returns once there is a message.
CallsEnd ==
    /\ ReaderGets
    /\ (use = Anyhow /\ father # Idle) ~> (father = Idle \/ corrupt)
    /\ (part = "netlink" /\ how = Plain /\ npc # "idle" /\ queue # <<>>) ~> npc = "idle"
=============================================================================
