------------------------------ MODULE FrThread ------------------------------
(***************************************************************************)
(* The threads of frlib, lib/thread/thrdstart.c.  frthr_start makes a      *)
(* structure, enters it in the list of threads, whose position is the id   *)
(* of the thread, creates the thread and waits until it has run its init   *)
(* function.  The thread runs main and cleanup, removes and frees the      *)
(* structure.  frthr_destroy looks a thread up and cancels it.             *)
(*                                                                         *)
(* One thread, the father, starts and destroys; a child is a structure     *)
(* with its thread, and may be used again once it is freed.  After the     *)
(* first use of freed memory nothing more is said: corrupt stops the       *)
(* model.  Definitions marked "Variant" are plausible mistakes.            *)
(***************************************************************************)
EXTENDS Integers

CONSTANTS
    Child,      \* the structures
    MaxId       \* bound: the last position of the list of threads

None == "none"
Main == "main"

ASSUME ThreadAssumption ==
    /\ MaxId \in Nat \ {0}
    /\ None \notin Child /\ Main \notin Child

VARIABLES
    slot,       \* frthr_list: the structure at each position, position 0 is
                \* the main thread's
    num, max,   \* its counters
    mem,        \* the structure is allocated
    id,         \* its id
    state,      \* its state
    childret,   \* what init, or later cleanup, has returned
    tpc,        \* where the thread of the structure is
    father,     \* where the father is, with which child
    cancel,     \* the thread is to be cancelled
    corrupt,    \* freed memory was used
    \* Not in the code, to state the properties:
    result,     \* what the last frthr_start said
    initret,    \* what the init function of the thread returned
    born,       \* how many threads were on the list before this one
    use         \* how the program uses threads, see Uses; fixed

threadVars == <<slot, num, max, mem, id, state, childret, tpc, father, cancel,
                corrupt, result, initret, born, use>>

\* rets     what init functions return
\* patient  frthr_start is called without a timeout
\* lasting  no main function ends before frthr_start has returned
\* lifo     a thread ends after the ones started after it, and no new one is
\*          started meanwhile
Uses == [rets : {{"ok"}, {"ok", "error"}}, patient : BOOLEAN, lasting : BOOLEAN,
         lifo : BOOLEAN]

\* The use that is safe.
Orderly == use = [rets |-> {"ok"}, patient |-> TRUE, lasting |-> TRUE, lifo |-> TRUE]

Idle == [at |-> "idle", child |-> None]

\* frthr_init
ThrInit ==
    /\ slot = [i \in 0 .. MaxId |-> IF i = 0 THEN Main ELSE None]
    /\ num = 1 /\ max = 0
    /\ mem = [c \in Child |-> FALSE]
    /\ id = [c \in Child |-> 0]
    /\ state = [c \in Child |-> "vergin"]
    /\ childret = [c \in Child |-> "ok"]
    /\ tpc = [c \in Child |-> "none"]
    /\ father = Idle
    /\ cancel = [c \in Child |-> FALSE]
    /\ corrupt = FALSE
    /\ result = None
    /\ initret = [c \in Child |-> None]
    /\ born = [c \in Child |-> 0]
    /\ use \in Uses

At(a, c) == father = [at |-> a, child |-> c] /\ ~corrupt

GoFather(a, c) == father' = [at |-> a, child |-> c]

GoChild(c, l) == tpc' = [tpc EXCEPT ![c] = l]

Corrupts == corrupt' = TRUE /\ UNCHANGED
    <<slot, num, max, mem, id, state, childret, tpc, father, cancel, result,
      initret, born, use>>

----------------------------------------------------------------------------
\* Variant: the last position is taken for the first free one.
ListAddLast(c) ==
    /\ slot' = [slot EXCEPT ![max] = c]
    /\ num' = num + 1
    /\ max' = IF num > max THEN num ELSE max

\* tlst_add puts an element at position num, see FrTlst.
ListAdd(c) ==
    /\ slot' = [slot EXCEPT ![num] = c]
    /\ num' = num + 1
    /\ max' = IF num > max THEN num ELSE max

\* tlst_remove with TLST_F_NONE.
ListRemove(i) ==
    IF i >= num THEN UNCHANGED <<slot, num, max>>
    ELSE /\ slot' = [slot EXCEPT ![i] = None]
         /\ num' = num - 1
         /\ max' = IF num = 1 THEN 0 ELSE IF i = max THEN max - 1 ELSE max

\* frthr_start: the structure is allocated and entered in the list.
Start(c) ==
    /\ father = Idle /\ ~corrupt
    /\ ~mem[c] /\ tpc[c] = "none" /\ num <= MaxId
    /\ use.lifo => \A d \in Child : tpc[d] \notin {"cleanup", "remove"}
    /\ mem' = [mem EXCEPT ![c] = TRUE]
    /\ ListAdd(c)
    /\ id' = [id EXCEPT ![c] = num]
    /\ state' = [state EXCEPT ![c] = "vergin"]
    /\ childret' = [childret EXCEPT ![c] = "ok"]
    /\ cancel' = [cancel EXCEPT ![c] = FALSE]
    /\ initret' = [initret EXCEPT ![c] = None]
    /\ born' = [born EXCEPT ![c] = num]
    /\ result' = None
    /\ GoFather("create", c)
    /\ UNCHANGED <<tpc, corrupt, use>>

\* dostart2: the thread is created and waited for, or it is not.
Create(c) ==
    /\ At("create", c)
    /\ \/ GoChild(c, "init") /\ GoFather("wait", c)
       \/ GoFather("fail", c) /\ UNCHANGED tpc
    /\ UNCHANGED <<slot, num, max, mem, id, state, childret, cancel, corrupt,
                   result, initret, born, use>>

\* What the father does to itself alone.
Alone == UNCHANGED <<slot, num, max, mem, id, state, childret, tpc, cancel,
                     corrupt, result, initret, born, use>>

\* Variant: the father sleeps unless the thread is running.
WaitRunning(c) ==
    /\ At("wait", c)
    /\ IF ~mem[c] THEN Corrupts
       ELSE GoFather(IF state[c] # "childinit" THEN "asleep" ELSE "look", c) /\ Alone

\* wait_thread: the state is looked at under the mutex of the structure; while
\* the thread initialises the father sleeps on its condition variable.
Wait(c) ==
    /\ At("wait", c)
    /\ IF ~mem[c] THEN Corrupts
       ELSE GoFather(IF state[c] = "vergin" THEN "asleep" ELSE "look", c) /\ Alone

\* It wakes up without a signal: a spurious wakeup, or the end of a
\* pthread_cond_timedwait before the end of the timeout.
Wakes(c) ==
    /\ At("asleep", c)
    /\ IF ~mem[c] THEN Corrupts ELSE GoFather("wait", c) /\ Alone

\* The timeout is over when the father wakes up: the state is not looked at
\* again.
ThrTimeOut(c) ==
    /\ At("asleep", c) /\ ~use.patient
    /\ IF ~mem[c] THEN Corrupts ELSE GoFather("fail", c) /\ Alone

\* Variant: the father does not ask what init has returned.
ReadRetBlind(c) ==
    /\ At("look", c)
    /\ IF ~mem[c] THEN Corrupts ELSE GoFather("return", c) /\ Alone

\* The father reads childret, outside the mutex.
ReadRet(c) ==
    /\ At("look", c)
    /\ IF ~mem[c] THEN Corrupts
       ELSE GoFather(IF childret[c] = "ok" THEN "return" ELSE "fail", c) /\ Alone

\* frthr_start returns the id, which is read from the structure.
Return(c) ==
    /\ At("return", c)
    /\ IF ~mem[c] THEN Corrupts
       ELSE /\ father' = Idle
            /\ result' = "ok"
            /\ UNCHANGED <<slot, num, max, mem, id, state, childret, tpc, cancel,
                           corrupt, initret, born, use>>

\* frthr_start after an error: the structure is removed and freed.
Fail(c) ==
    /\ At("fail", c)
    /\ IF ~mem[c] THEN Corrupts
       ELSE /\ ListRemove(id[c])
            /\ mem' = [mem EXCEPT ![c] = FALSE]
            /\ father' = Idle
            /\ result' = "error"
            /\ UNCHANGED <<id, state, childret, tpc, cancel, corrupt, initret, born,
                           use>>

----------------------------------------------------------------------------
\* The init function of the thread returns.
RunInit(c, r) ==
    /\ tpc[c] = "init" /\ ~corrupt
    /\ initret' = [initret EXCEPT ![c] = r]
    /\ GoChild(c, "publish")
    /\ UNCHANGED <<slot, num, max, mem, id, state, childret, father, cancel,
                   corrupt, result, born, use>>

\* dorun_thread tells the father.
Publish(c) ==
    /\ tpc[c] = "publish" /\ ~corrupt
    /\ IF ~mem[c] THEN Corrupts
       ELSE /\ childret' = [childret EXCEPT ![c] = initret[c]]
            /\ state' = [state EXCEPT ![c] =
                            IF initret[c] = "ok" THEN "childinit" ELSE "dead"]
            /\ GoChild(c, "signal")
            /\ UNCHANGED <<slot, num, max, mem, id, father, cancel, corrupt,
                           result, initret, born, use>>

\* The father, if it sleeps on the condition variable of c, wakes up.
WakeFather(c) ==
    father' = IF father = [at |-> "asleep", child |-> c]
              THEN [at |-> "wait", child |-> c] ELSE father

\* Variant: it goes on whatever init has said.
SignalOn(c) ==
    /\ tpc[c] = "signal" /\ ~corrupt
    /\ IF ~mem[c] THEN Corrupts
       ELSE /\ GoChild(c, "main")
            /\ WakeFather(c)
            /\ UNCHANGED <<slot, num, max, mem, id, state, childret, cancel,
                           corrupt, result, initret, born, use>>

\* Variant: the signal is forgotten.
SignalForgotten(c) ==
    /\ tpc[c] = "signal" /\ ~corrupt
    /\ IF ~mem[c] THEN Corrupts
       ELSE /\ GoChild(c, IF initret[c] = "ok" THEN "main" ELSE "none")
            /\ UNCHANGED <<slot, num, max, mem, id, state, childret, father, cancel,
                           corrupt, result, initret, born, use>>

\* ... and signals, outside the mutex; after an error it ends.
Signal(c) ==
    /\ tpc[c] = "signal" /\ ~corrupt
    /\ IF ~mem[c] THEN Corrupts
       ELSE /\ GoChild(c, IF initret[c] = "ok" THEN "main" ELSE "none")
            /\ WakeFather(c)
            /\ UNCHANGED <<slot, num, max, mem, id, state, childret, cancel,
                           corrupt, result, initret, born, use>>

\* main returns, calls frthr_exit or is cancelled.  The order in which
\* threads end is the program's.
MainEnds(c) ==
    /\ tpc[c] = "main" /\ ~corrupt
    /\ use.lasting => father.child # c
    /\ use.lifo => \A d \in Child : mem[d] => born[d] <= born[c]
    /\ IF ~mem[c] THEN Corrupts
       ELSE /\ state' = [state EXCEPT ![c] = "cleanup"]
            /\ GoChild(c, "cleanup")
            /\ UNCHANGED <<slot, num, max, mem, id, childret, father, cancel,
                           corrupt, result, initret, born, use>>

\* The cleanup function returns.
RunCleanup(c, r) ==
    /\ tpc[c] = "cleanup" /\ ~corrupt
    /\ IF ~mem[c] THEN Corrupts
       ELSE /\ childret' = [childret EXCEPT ![c] = r]
            /\ state' = [state EXCEPT ![c] = "dead"]
            /\ GoChild(c, "remove")
            /\ UNCHANGED <<slot, num, max, mem, id, father, cancel, corrupt, result,
                           initret, born, use>>

\* Variant: the structure is freed before it leaves the list.
RemoveMeFreed(c) ==
    /\ tpc[c] = "remove" /\ ~corrupt
    /\ mem' = [mem EXCEPT ![c] = FALSE]
    /\ GoChild(c, "free")
    /\ UNCHANGED <<slot, num, max, id, state, childret, father, cancel, corrupt,
                   result, initret, born, use>>

\* do_cleanup removes the structure from the list,
RemoveMe(c) ==
    /\ tpc[c] = "remove" /\ ~corrupt
    /\ IF ~mem[c] THEN Corrupts
       ELSE /\ ListRemove(id[c])
            /\ GoChild(c, "free")
            /\ UNCHANGED <<mem, id, state, childret, father, cancel, corrupt,
                           result, initret, born, use>>

\* and frees it.
FreeMe(c) ==
    /\ tpc[c] = "free" /\ ~corrupt
    /\ IF ~mem[c] THEN Corrupts
       ELSE /\ mem' = [mem EXCEPT ![c] = FALSE]
            /\ GoChild(c, "none")
            /\ UNCHANGED <<slot, num, max, id, state, childret, father, cancel,
                           corrupt, result, initret, born, use>>

\* frthr_destroy with an id that frthr_start has returned some time.
frthr_destroy(i) ==
    /\ father = Idle /\ ~corrupt
    /\ i <= max /\ slot[i] \in Child
    /\ IF ~mem[slot[i]] THEN Corrupts
       ELSE /\ ~cancel[slot[i]]
            /\ cancel' = [cancel EXCEPT ![slot[i]] = TRUE]
            /\ UNCHANGED <<slot, num, max, mem, id, state, childret, tpc, father,
                           corrupt, result, initret, born, use>>

ThrNext ==
    \/ \E c \in Child :
          \/ Start(c) \/ Create(c) \/ Wait(c) \/ Wakes(c) \/ ThrTimeOut(c)
          \/ ReadRet(c) \/ Return(c) \/ Fail(c)
          \/ \E r \in use.rets : RunInit(c, r)
          \/ \E r \in {"ok", "error"} : RunCleanup(c, r)
          \/ Publish(c) \/ Signal(c) \/ MainEnds(c) \/ RemoveMe(c) \/ FreeMe(c)
    \/ \E i \in 1 .. MaxId : frthr_destroy(i)

ThrSpec == ThrInit /\ [][ThrNext]_threadVars

\* Every thread goes on; the init functions return.  Nothing is asked of
\* timeouts and of wakeups without a signal.
ThrFairSpec ==
    /\ ThrSpec
    /\ \A c \in Child :
          /\ WF_threadVars(Create(c)) /\ WF_threadVars(Wait(c))
          /\ WF_threadVars(ReadRet(c))
          /\ WF_threadVars(Return(c)) /\ WF_threadVars(Fail(c))
          /\ WF_threadVars(\E r \in use.rets : RunInit(c, r))
          /\ WF_threadVars(Publish(c)) /\ WF_threadVars(Signal(c))

----------------------------------------------------------------------------
(* Properties                                                              *)

\* The threads that run and have not left the list.
Running ==
    {c \in Child : mem[c] /\ initret[c] = "ok"
                     /\ tpc[c] \in {"signal", "main", "cleanup", "remove"}}

\* No structure is used after it was freed, by the father who waits, by the
\* thread that signals or cleans up, or by one who looks it up by its id.
NoUseAfterFree == ~corrupt

\* An id names one thread: until it leaves the list, a thread is found at
\* its id, and by no other id.
IdsNameThreads ==
    \A c \in Running :
        /\ slot[id[c]] = c
        /\ \A d \in Running \ {c} : id[d] # id[c]

\* A thread whose init function has failed never runs its main function.
NoMainAfterFailure ==
    \A c \in Child :
        tpc[c] \in {"main", "cleanup", "remove", "free"} => initret[c] = "ok"

\* Threads that end in the reverse order use no structure that was freed, and
\* an id names one of them until it leaves the list; however they are used,
\* one whose init function has failed never runs its main function.
ThreadsSound ==
    /\ Orderly => NoUseAfterFree /\ IdsNameThreads
    /\ NoMainAfterFailure

\* What frthr_start makes of the thread's answer, which it reads outside the
\* mutex: it goes on only if the init function has succeeded, also when the
\* thread is through with main and cleanup by then; and it fails only if the
\* init function has failed or the thread has already ended, whose cleanup
\* then has overwritten the answer.
ThreadStartTrue ==
    [][\A c \in Child :
          father = [at |-> "look", child |-> c] /\ father' # father =>
              /\ father'.at = "return" => initret[c] = "ok"
              /\ father'.at = "fail" =>
                    initret[c] = "error" \/ tpc[c] \in {"remove", "free"}]_threadVars

\* frthr_start returns.
StartEnds == father # Idle ~> father = Idle \/ corrupt
============================================================================
