---------------------------- MODULE FrSyncProofs ----------------------------
(***************************************************************************)
(* Proofs about what frlib does between processes, threads and the kernel. *)
(*                                                                         *)
(* The lock between processes excludes readers and writers, and its        *)
(* semaphores count the locks that are held, for any number of processes   *)
(* that terminate anywhere, with SEM_UNDO and without, as long as the      *)
(* semaphores are made, reset and removed only while no living process     *)
(* uses them.  mutex_unlock decides from the values it has read, not from  *)
(* what the process has: MutexInv says why the values tell it.             *)
(*                                                                         *)
(* frthr_start tells what the init function of the thread has said, and    *)
(* any number of threads that end in the reverse order of their start use  *)
(* no structure that was freed.  fnl_recv2 returns messages whole and in   *)
(* order and tells of every loss, for messages of any number and length.   *)
(***************************************************************************)
EXTENDS FrMutex, FrThread, FrFnl, FiniteSetTheorems, SequenceTheorems, TLAPS

Places == {"new", "create", "idle", "rdwait", "wrwait", "unlock", "dead"}

MutexTypeOK ==
    /\ exists \in BOOLEAN
    /\ sem \in [Sems -> Nat]
    /\ undo \in [Proc -> [Sems -> Int]]
    /\ pc \in [Proc -> Places]
    /\ seen \in [Proc -> [Sems -> Nat]]
    /\ has \in [Proc -> {"none", "rd", "wr"}]

\* The three values of v.
Values(v, w, chk, rd) == v["w"] = w /\ v["chk"] = chk /\ v["rd"] = rd

\* The semaphores count the locks.
Right ==
    Values(sem, 1 - Cardinality(Writers), Cardinality(Writers), Cardinality(Readers))

\* Semaphores that were set count the locks; who makes or sets them is alone.
SetRight ==
    /\ exists => sem = Zero \/ Right
    /\ \A p \in Proc :
        /\ pc[p] \in {"create", "idle", "rdwait", "wrwait", "unlock"} => exists
        /\ pc[p] \in {"idle", "rdwait", "wrwait", "unlock"} => Right
        /\ pc[p] \in {"new", "create", "rdwait", "wrwait"} => has[p] = "none"
        /\ pc[p] = "create" => Quiet(p)

\* What mutex_unlock has read tells which lock its process has.
SeenRight ==
    \A p \in Proc : pc[p] = "unlock" =>
        \/ has[p] = "rd" /\ seen[p]["rd"] > 0
        \/ has[p] = "wr" /\ seen[p]["w"] = 0 /\ seen[p]["rd"] = 0

\* The kernel would give back what a living process has taken.
UndoRight ==
    \A p \in Proc :
        IF p \in NoUndo \/ pc[p] = "dead" \/ has[p] = "none"
        THEN Values(undo[p], 0, 0, 0)
        ELSE IF has[p] = "rd" THEN Values(undo[p], 0, 0, -1)
             ELSE Values(undo[p], 1, -1, 0)

MutexInv == MutexTypeOK /\ Exclusion /\ SetRight /\ SeenRight /\ UndoRight

-----------------------------------------------------------------------------
(* Counting.                                                               *)

LEMMA Finite ==
    /\ IsFiniteSet(Readers) /\ IsFiniteSet(Writers)
    /\ Cardinality(Readers) \in Nat /\ Cardinality(Writers) \in Nat
    /\ Cardinality(Readers) = 0 <=> Readers = {}
    /\ Cardinality(Writers) = 0 <=> Writers = {}
<1>1. Readers \subseteq Proc /\ Writers \subseteq Proc
  BY DEF Readers, Writers
<1>2. IsFiniteSet(Readers) /\ IsFiniteSet(Writers)
  BY <1>1, MutexAssumption, FS_Subset
<1> QED
  BY <1>2, FS_CardinalityType, FS_EmptySet

\* A process gets the read lock, or the write lock, or loses what it has.
LEMMA Takes ==
    ASSUME NEW p \in Proc, NEW l \in {"rd", "wr"}, MutexTypeOK,
           has[p] = "none", has' = [has EXCEPT ![p] = l]
    PROVE  /\ l = "rd" => /\ Readers' = Readers \cup {p} /\ Writers' = Writers
                          /\ Cardinality(Readers') = Cardinality(Readers) + 1
           /\ l = "wr" => /\ Writers' = Writers \cup {p} /\ Readers' = Readers
                          /\ Cardinality(Writers') = Cardinality(Writers) + 1
<1>1. p \notin Readers /\ p \notin Writers
  BY DEF Readers, Writers
<1>2. l = "rd" => Readers' = Readers \cup {p} /\ Writers' = Writers
  BY DEF Readers, Writers, MutexTypeOK
<1>3. l = "wr" => Writers' = Writers \cup {p} /\ Readers' = Readers
  BY DEF Readers, Writers, MutexTypeOK
<1> QED
  BY <1>1, <1>2, <1>3, Finite, FS_AddElement

LEMMA Loses ==
    ASSUME NEW p \in Proc, MutexTypeOK, has' = [has EXCEPT ![p] = "none"]
    PROVE  /\ Readers' = Readers \ {p} /\ Writers' = Writers \ {p}
           /\ Cardinality(Readers') =
                 Cardinality(Readers) - (IF has[p] = "rd" THEN 1 ELSE 0)
           /\ Cardinality(Writers') =
                 Cardinality(Writers) - (IF has[p] = "wr" THEN 1 ELSE 0)
<1>1. Readers' = Readers \ {p} /\ Writers' = Writers \ {p}
  BY DEF Readers, Writers, MutexTypeOK
<1>2. /\ p \in Readers <=> has[p] = "rd"
      /\ p \in Writers <=> has[p] = "wr"
  BY DEF Readers, Writers
<1>3. /\ Cardinality(Readers \ {p}) =
            IF p \in Readers THEN Cardinality(Readers) - 1 ELSE Cardinality(Readers)
      /\ Cardinality(Writers \ {p}) =
            IF p \in Writers THEN Cardinality(Writers) - 1 ELSE Cardinality(Writers)
  BY Finite, FS_RemoveElement
<1> QED
  BY <1>1, <1>2, <1>3, Finite

\* Nobody has the lock.
LEMMA Nobody ==
    ASSUME \A p \in Proc : has'[p] = "none"
    PROVE  /\ Readers' = {} /\ Writers' = {}
           /\ Cardinality(Readers') = 0 /\ Cardinality(Writers') = 0
<1>1. Readers' = {} /\ Writers' = {}
  BY DEF Readers, Writers
<1> QED
  BY <1>1, FS_EmptySet

-----------------------------------------------------------------------------
(* The steps.                                                              *)

LEMMA ValuesType == Zero \in [Sems -> Nat] /\ Zero \in [Sems -> Int] /\ Free \in [Sems -> Nat]
  BY DEF Zero, Free, Sems

LEMMA MutexInit == Init => MutexInv
<1> SUFFICES ASSUME Init PROVE MutexInv
  OBVIOUS
<1>1. MutexTypeOK
  BY ValuesType DEF Init, MutexTypeOK, Places
<1>2. Readers = {} /\ Writers = {}
  BY DEF Init, Readers, Writers
<1>3. Exclusion
  BY <1>2, FS_EmptySet DEF Exclusion
<1>4. SetRight /\ SeenRight
  BY DEF Init, SetRight, SeenRight
<1>5. UndoRight
  BY DEF Init, UndoRight, Values, Zero, Sems
<1> QED
  BY <1>1, <1>3, <1>4, <1>5 DEF MutexInv

\* semget and SETALL: with Careful the process is alone.
LEMMA CreateStep ==
    ASSUME Careful, MutexInv, NEW p \in Proc, Semget(p) \/ CreateDone(p)
    PROVE  MutexInv'
<1> USE DEF MutexInv
<1>1. CASE Semget(p)
  <2>1. /\ exists' = TRUE /\ pc' = [pc EXCEPT ![p] = "create"]
        /\ sem' = IF exists THEN sem ELSE Zero
        /\ UNCHANGED <<undo, seen, has>>
        /\ Quiet(p) /\ has[p] = "none" /\ pc[p] \in {"new", "idle"}
    BY <1>1 DEF Semget, Goto
  <2>2. Readers' = Readers /\ Writers' = Writers
    BY <2>1 DEF Readers, Writers
  <2>3. MutexTypeOK'
    BY <2>1 DEF MutexTypeOK, Places, Zero, Sems
  <2>4. Exclusion'
    BY <2>2 DEF Exclusion
  <2>5. SetRight'
    <3>1. exists => Right' = Right /\ sem' = sem
      BY <2>1, <2>2 DEF Right, Values
    <3>2. \A q \in Proc : q # p => pc'[q] = pc[q] /\ pc[q] # "create"
      BY <2>1 DEF Quiet, Alive, MutexTypeOK
    <3>3. pc'[p] = "create" /\ Quiet(p)'
      BY <2>1 DEF Quiet, Alive, MutexTypeOK
    <3>4. ~exists => sem' = Zero
      BY <2>1
    <3> QED
      BY <2>1, <3>1, <3>2, <3>3, <3>4 DEF SetRight
  <2>6. SeenRight' /\ UndoRight'
    BY <2>1 DEF SeenRight, UndoRight, MutexTypeOK
  <2> QED
    BY <2>3, <2>4, <2>5, <2>6
<1>2. CASE CreateDone(p)
  <2>1. /\ sem' = Free /\ undo' = [q \in Proc |-> Zero] /\ exists' = TRUE
        /\ pc' = [pc EXCEPT ![p] = "idle"] /\ seen' = seen
        /\ has' = [q \in Proc |-> IF q \in Alive THEN has[q] ELSE "none"]
        /\ Quiet(p) /\ has[p] = "none"
    BY <1>2 DEF CreateDone, SetAll, Goto, SetRight, MutexTypeOK
  <2>2. \A q \in Proc : has'[q] = "none"
    BY <2>1 DEF Quiet, Alive
  <2>3. MutexTypeOK'
    BY <2>1 DEF MutexTypeOK, Places, Zero, Free, Sems
  <2>4. Exclusion'
    BY <2>2, Nobody DEF Exclusion
  <2>5. Right'
    BY <2>1, <2>2, Nobody DEF Right, Values, Free
  <2>6. \A q \in Proc : pc'[q] \in {"new", "idle", "dead"}
    BY <2>1 DEF Quiet, Alive, MutexTypeOK
  <2>7. SetRight' /\ SeenRight'
    BY <2>1, <2>2, <2>5, <2>6 DEF SetRight, SeenRight
  <2>8. UndoRight'
    BY <2>1, <2>2 DEF UndoRight, Values, Zero, Sems
  <2> QED
    BY <2>3, <2>4, <2>7, <2>8
<1> QED
  BY <1>1, <1>2

\* mutex_rdlock and mutex_wrlock are called, or time out: nothing is taken.
LEMMA AskStep ==
    ASSUME Careful, MutexInv, NEW p \in Proc,
           (\E t \in BOOLEAN : Ask(p, t)) \/ TimedOut(p)
    PROVE  MutexInv'
<1> USE DEF MutexInv
<1>1. /\ pc[p] \in {"idle", "rdwait", "wrwait"} /\ has[p] = "none"
      /\ pc' \in [Proc -> Places] /\ pc'[p] \in {"idle", "rdwait", "wrwait"}
      /\ \A q \in Proc \ {p} : pc'[q] = pc[q]
      /\ UNCHANGED <<exists, sem, undo, seen, has>>
  BY DEF Ask, TimedOut, Returns, Goto, SetRight, MutexTypeOK, Places
<1>2. \A q \in Proc : pc[q] = "create" => pc'[p] \in {"new", "idle"}
  BY DEF Ask, TimedOut, Returns, Goto, MutexTypeOK
<1>3. Readers' = Readers /\ Writers' = Writers
  BY <1>1 DEF Readers, Writers
<1>4. MutexTypeOK' /\ Exclusion'
  BY <1>1, <1>3 DEF MutexTypeOK, Exclusion
<1>5. SetRight'
  <2>1. Right' = Right
    BY <1>1, <1>3 DEF Right, Values
  <2>2. ASSUME NEW q \in Proc, pc'[q] = "create" PROVE Quiet(q)'
    <3>1. q # p /\ pc[q] = "create" /\ Quiet(q)
      BY <1>1, <2>2 DEF SetRight
    <3> QED
      BY <1>1, <1>2, <3>1 DEF Quiet, Alive
  <2> QED
    BY <1>1, <2>1, <2>2 DEF SetRight
<1>6. SeenRight' /\ UndoRight'
  BY <1>1 DEF SeenRight, UndoRight
<1> QED
  BY <1>4, <1>5, <1>6

\* The check lock is 0, so there is no writer.
LEMMA RdLockStep ==
    ASSUME Careful, MutexInv, NEW p \in Proc, RdLock(p)
    PROVE  MutexInv'
<1> USE DEF MutexInv
<1> DEFINE ops == [w |-> 0, chk |-> 0, rd |-> 1]
<1>1. /\ pc[p] = "rdwait" /\ has[p] = "none" /\ exists /\ sem["chk"] = 0 /\ Right
      /\ pc' = [pc EXCEPT ![p] = "idle"] /\ has' = [has EXCEPT ![p] = "rd"]
      /\ Semop(p, ops) /\ UNCHANGED <<exists, seen>>
  BY DEF RdLock, MayRead, Returns, Goto, SetRight
<1>2. sem' \in [Sems -> Nat] /\ Values(sem', sem["w"], sem["chk"], sem["rd"] + 1)
  BY <1>1 DEF Semop, Values, Sems, MutexTypeOK
<1>3. /\ undo' \in [Proc -> [Sems -> Int]]
      /\ \A q \in Proc \ {p} : undo'[q] = undo[q]
      /\ IF p \in NoUndo THEN undo'[p] = undo[p]
         ELSE Values(undo'[p], undo[p]["w"], undo[p]["chk"], undo[p]["rd"] - 1)
  BY <1>1 DEF Semop, Values, Sems, MutexTypeOK
<1>4. MutexTypeOK'
  BY <1>1, <1>2, <1>3 DEF MutexTypeOK, Places
<1>5. Writers = {} /\ Writers' = {}
  BY <1>1, Finite, Takes DEF Right, Values
<1>6. Exclusion'
  BY <1>5, FS_EmptySet DEF Exclusion
<1>7. Right'
  BY <1>1, <1>2, <1>5, Finite, Takes DEF Right, Values, MutexTypeOK
<1>8. \A q \in Proc : pc'[q] # "create" /\ (q # p => pc'[q] = pc[q] /\ has'[q] = has[q])
  BY <1>1 DEF SetRight, Quiet, Alive, MutexTypeOK
<1>9. SetRight' /\ SeenRight'
  BY <1>1, <1>7, <1>8 DEF SetRight, SeenRight, MutexTypeOK
<1>10. UndoRight'
  BY <1>1, <1>3, <1>8 DEF UndoRight, Values, MutexTypeOK
<1> QED
  BY <1>4, <1>6, <1>9, <1>10

\* The write lock is 1 and there is no reader.
LEMMA WrLockStep ==
    ASSUME Careful, MutexInv, NEW p \in Proc, WrLock(p)
    PROVE  MutexInv'
<1> USE DEF MutexInv
<1> DEFINE ops == [w |-> -1, chk |-> 1, rd |-> 0]
<1>1. /\ pc[p] = "wrwait" /\ has[p] = "none" /\ exists
      /\ sem["w"] >= 1 /\ sem["rd"] = 0 /\ Right
      /\ pc' = [pc EXCEPT ![p] = "idle"] /\ has' = [has EXCEPT ![p] = "wr"]
      /\ Semop(p, ops) /\ UNCHANGED <<exists, seen>>
  BY DEF WrLock, MayWrite, Returns, Goto, SetRight
<1>2. sem' \in [Sems -> Nat] /\ Values(sem', sem["w"] - 1, sem["chk"] + 1, sem["rd"])
  BY <1>1 DEF Semop, Values, Sems, MutexTypeOK
<1>3. /\ undo' \in [Proc -> [Sems -> Int]]
      /\ \A q \in Proc \ {p} : undo'[q] = undo[q]
      /\ IF p \in NoUndo THEN undo'[p] = undo[p]
         ELSE Values(undo'[p], undo[p]["w"] + 1, undo[p]["chk"] - 1, undo[p]["rd"])
  BY <1>1 DEF Semop, Values, Sems, MutexTypeOK
<1>4. MutexTypeOK'
  BY <1>1, <1>2, <1>3 DEF MutexTypeOK, Places
<1>5. /\ Cardinality(Writers) = 0 /\ Readers = {}
      /\ Cardinality(Writers') = 1 /\ Readers' = {}
  <2>1. Cardinality(Writers) = 0 /\ Readers = {}
    BY <1>1, Finite DEF Right, Values
  <2>2. Cardinality(Writers') = Cardinality(Writers) + 1 /\ Readers' = Readers
    BY <1>1, Takes
  <2> QED
    BY <2>1, <2>2
<1>6. Exclusion'
  BY <1>5 DEF Exclusion
<1>7. Right'
  BY <1>1, <1>2, <1>5 DEF Right, Values, MutexTypeOK
<1>8. \A q \in Proc : pc'[q] # "create" /\ (q # p => pc'[q] = pc[q] /\ has'[q] = has[q])
  BY <1>1 DEF SetRight, Quiet, Alive, MutexTypeOK
<1>9. SetRight' /\ SeenRight'
  BY <1>1, <1>7, <1>8 DEF SetRight, SeenRight, MutexTypeOK
<1>10. UndoRight'
  BY <1>1, <1>3, <1>8 DEF UndoRight, Values, MutexTypeOK
<1> QED
  BY <1>4, <1>6, <1>9, <1>10

\* mutex_unlock reads the values: there are readers if its process is one, and
\* none if it is the writer.
LEMMA LookStep ==
    ASSUME Careful, MutexInv, NEW p \in Proc, Look(p)
    PROVE  MutexInv'
<1> USE DEF MutexInv
<1>1. /\ pc[p] = "idle" /\ has[p] # "none" /\ Right
      /\ pc' = [pc EXCEPT ![p] = "unlock"] /\ seen' = [seen EXCEPT ![p] = sem]
      /\ UNCHANGED <<exists, sem, undo, has>>
  BY DEF Look, Goto, SetRight
<1>2. Readers' = Readers /\ Writers' = Writers
  BY <1>1 DEF Readers, Writers
<1>3. MutexTypeOK' /\ Exclusion'
  BY <1>1, <1>2 DEF MutexTypeOK, Exclusion, Places
<1>4. \A q \in Proc : pc'[q] # "create" /\ (q # p => pc'[q] = pc[q] /\ seen'[q] = seen[q])
  BY <1>1 DEF SetRight, Quiet, Alive, MutexTypeOK
<1>5. SetRight'
  <2>1. Right'
    BY <1>1, <1>2 DEF Right, Values
  <2> QED
    BY <1>1, <1>4, <2>1 DEF SetRight
<1>6. SeenRight'
  <2>1. has[p] = "rd" => sem["rd"] > 0
    BY <1>1, Finite DEF Right, Values, Readers
  <2>2. has[p] = "wr" => sem["w"] = 0 /\ sem["rd"] = 0
    <3>1. has[p] = "wr" => Writers # {} /\ Readers = {}
      BY DEF Exclusion, Writers
    <3> QED
      BY <1>1, <3>1, Finite DEF Exclusion, Right, Values
  <2>3. has[p] = "rd" \/ has[p] = "wr"
    BY <1>1 DEF MutexTypeOK
  <2> QED
    BY <1>1, <1>4, <2>1, <2>2, <2>3 DEF SeenRight, MutexTypeOK
<1>7. UndoRight'
  BY <1>1, <1>4 DEF UndoRight, MutexTypeOK
<1> QED
  BY <1>3, <1>5, <1>6, <1>7

\* mutex_unlock releases the lock its process has.
LEMMA UnlockStep ==
    ASSUME Careful, MutexInv, NEW p \in Proc, Unlock(p)
    PROVE  MutexInv'
<1> USE DEF MutexInv
<1> DEFINE ops == ReleaseOps(seen[p])
<1>1. /\ pc[p] = "unlock" /\ exists /\ Right
      /\ pc' = [pc EXCEPT ![p] = "idle"] /\ has' = [has EXCEPT ![p] = "none"]
      /\ seen' = [seen EXCEPT ![p] = Free] /\ exists' = exists
  BY DEF Unlock, Goto, SetRight
<1>2. /\ has[p] = "rd" => ops = [w |-> 0, chk |-> 0, rd |-> -1] /\ sem["rd"] > 0
      /\ has[p] = "wr" => ops = [w |-> 1, chk |-> -1, rd |-> 0] /\ sem["chk"] > 0
      /\ has[p] \in {"rd", "wr"}
  <2>1. has[p] = "rd" => sem["rd"] > 0
    BY <1>1, Finite DEF Right, Values, Readers
  <2>2. has[p] = "wr" => sem["chk"] > 0
    BY <1>1, Finite DEF Right, Values, Writers
  <2>3. has[p] = "rd" => ~(seen[p].w = 1 /\ seen[p].rd = 0) /\ seen[p].rd > 0
    BY <1>1 DEF SeenRight, MutexTypeOK, Sems
  <2>4. has[p] = "wr" => ~(seen[p].w = 1 /\ seen[p].rd = 0) /\ ~(seen[p].rd > 0)
    BY <1>1 DEF SeenRight, MutexTypeOK, Sems
  <2> QED
    BY <1>1, <2>1, <2>2, <2>3, <2>4 DEF SeenRight, ReleaseOps
<1> HIDE DEF ops
<1>3. Semop(p, ops)
  <2>1. \A s \in Sems : sem[s] + ops[s] >= 0
    BY <1>2 DEF Sems, MutexTypeOK
  <2> QED
    BY <1>1, <2>1 DEF Unlock, ops
<1>4. /\ has[p] = "rd" => Values(ops, 0, 0, -1)
      /\ has[p] = "wr" => Values(ops, 1, -1, 0)
  BY <1>2 DEF Values
<1>5. /\ sem' \in [Sems -> Nat]
      /\ Values(sem', sem["w"] + ops["w"], sem["chk"] + ops["chk"], sem["rd"] + ops["rd"])
  BY <1>2, <1>3, <1>4 DEF Semop, Values, Sems, MutexTypeOK
<1>6. /\ undo' \in [Proc -> [Sems -> Int]]
      /\ \A q \in Proc \ {p} : undo'[q] = undo[q]
      /\ IF p \in NoUndo THEN undo'[p] = undo[p]
         ELSE Values(undo'[p], undo[p]["w"] - ops["w"], undo[p]["chk"] - ops["chk"],
                     undo[p]["rd"] - ops["rd"])
  BY <1>2, <1>3, <1>4 DEF Semop, Values, Sems, MutexTypeOK
<1>7. MutexTypeOK'
  BY <1>1, <1>5, <1>6, ValuesType DEF MutexTypeOK, Places
<1>8. Exclusion' /\ Right'
  <2>1. /\ Readers' \subseteq Readers /\ Writers' \subseteq Writers
        /\ Cardinality(Readers') =
              Cardinality(Readers) - (IF has[p] = "rd" THEN 1 ELSE 0)
        /\ Cardinality(Writers') =
              Cardinality(Writers) - (IF has[p] = "wr" THEN 1 ELSE 0)
    BY <1>1, Loses
  <2>2. Exclusion'
    BY <2>1, Finite DEF Exclusion
  <2>3. Right'
    <3>1. CASE has[p] = "rd"
      BY <1>1, <1>4, <1>5, <2>1, <3>1, Finite DEF Right, Values
    <3>2. CASE has[p] = "wr"
      BY <1>1, <1>4, <1>5, <2>1, <3>2, Finite DEF Right, Values
    <3> QED
      BY <1>2, <3>1, <3>2
  <2> QED
    BY <2>2, <2>3
<1>9. \A q \in Proc : /\ pc'[q] # "create"
                      /\ q # p => UNCHANGED <<pc[q], has[q], seen[q]>>
  BY <1>1, <1>2 DEF SetRight, Quiet, Alive, MutexTypeOK
<1>10. SetRight' /\ SeenRight'
  BY <1>1, <1>8, <1>9 DEF SetRight, SeenRight, MutexTypeOK
<1>11. UndoRight'
  <2>1. has'[p] = "none" /\ pc[p] # "dead"
    BY <1>1 DEF MutexTypeOK
  <2>2. Values(undo'[p], 0, 0, 0)
    <3>1. CASE p \in NoUndo
      BY <1>6, <3>1 DEF UndoRight
    <3>2. CASE p \notin NoUndo /\ has[p] = "rd"
      BY <1>4, <1>6, <2>1, <3>2 DEF UndoRight, Values
    <3>3. CASE p \notin NoUndo /\ has[p] = "wr"
      BY <1>4, <1>6, <2>1, <3>3 DEF UndoRight, Values
    <3> QED
      BY <1>2, <3>1, <3>2, <3>3
  <2> QED
    BY <1>6, <1>9, <2>1, <2>2 DEF UndoRight
<1> QED
  BY <1>7, <1>8, <1>10, <1>11

\* mutex_funlock and mutex_destroy, with nobody else at work.
LEMMA ResetStep ==
    ASSUME Careful, MutexInv, NEW p \in Proc, FUnlock(p) \/ Destroy(p)
    PROVE  MutexInv'
<1> USE DEF MutexInv
<1>1. CASE FUnlock(p)
  <2>1. /\ sem' = Free /\ undo' = [q \in Proc |-> Zero]
        /\ UNCHANGED <<exists, pc, seen>> /\ exists /\ Quiet(p) /\ pc[p] = "idle"
        /\ has' = [q \in Proc |-> "none"]
    BY <1>1 DEF FUnlock, SetAll
  <2>2. MutexTypeOK'
    BY <2>1, ValuesType DEF MutexTypeOK
  <2>3. Exclusion' /\ Right'
    BY <2>1, Nobody DEF Exclusion, Right, Values, Free
  <2>4. \A q \in Proc : pc'[q] \in {"new", "idle", "dead"}
    BY <2>1 DEF Quiet, Alive
  <2>5. SetRight' /\ SeenRight'
    BY <2>1, <2>3, <2>4 DEF SetRight, SeenRight
  <2>6. UndoRight'
    BY <2>1 DEF UndoRight, Values, Zero, Sems
  <2> QED
    BY <2>2, <2>3, <2>5, <2>6
<1>2. CASE Destroy(p)
  <2>1. /\ sem' = Zero /\ undo' = [q \in Proc |-> Zero] /\ exists' = FALSE
        /\ pc' = [q \in Proc |-> IF pc[q] = "dead" THEN "dead" ELSE "new"]
        /\ seen' = [q \in Proc |-> Free] /\ has' = [q \in Proc |-> "none"]
    BY <1>2 DEF Destroy, SetAll
  <2>2. MutexTypeOK'
    BY <2>1, ValuesType DEF MutexTypeOK, Places
  <2>3. Exclusion'
    BY <2>1, Nobody DEF Exclusion
  <2>4. SetRight' /\ SeenRight'
    BY <2>1 DEF SetRight, SeenRight
  <2>5. UndoRight'
    BY <2>1 DEF UndoRight, Values, Zero, Sems
  <2> QED
    BY <2>2, <2>3, <2>4, <2>5
<1> QED
  BY <1>1, <1>2

\* A process terminates: the kernel gives back what it has taken, or it stays
\* taken for good, and counted.
LEMMA KillStep ==
    ASSUME Careful, MutexInv, NEW p \in Proc, Kill(p)
    PROVE  MutexInv'
<1> USE DEF MutexInv
<1>1. /\ pc[p] # "dead" /\ sem' = Undone(p) /\ undo' = [undo EXCEPT ![p] = Zero]
      /\ has' = IF p \in NoUndo THEN has ELSE [has EXCEPT ![p] = "none"]
      /\ pc' = [pc EXCEPT ![p] = "dead"]
      /\ seen' = [seen EXCEPT ![p] = Free] /\ exists' = exists
  BY DEF Kill, Goto
<1>2. \A q \in Proc \ {p} : /\ pc'[q] = pc[q] /\ has'[q] = has[q]
                            /\ undo'[q] = undo[q] /\ seen'[q] = seen[q]
  BY <1>1 DEF MutexTypeOK
<1>3. pc'[p] = "dead" /\ undo'[p] = Zero
  BY <1>1 DEF MutexTypeOK
<1>4. sem' \in [Sems -> Nat]
  BY <1>1 DEF Undone, MutexTypeOK
<1>5. MutexTypeOK'
  BY <1>1, <1>4, ValuesType DEF MutexTypeOK, Places
<1>6. ASSUME NEW q \in Proc, pc'[q] = "create" PROVE Quiet(q)'
  <2>1. q # p /\ Quiet(q)
    BY <1>2, <1>3, <1>6 DEF SetRight
  <2> QED
    BY <1>2, <1>3, <2>1 DEF Quiet, Alive
<1>7. CASE p \in NoUndo \/ has[p] = "none"
  <2>1. has' = has
    BY <1>1, <1>7 DEF MutexTypeOK
  <2>2. sem' = sem
    <3>1. \A s \in Sems : undo[p][s] = 0
      BY <1>7 DEF UndoRight, Values, Sems
    <3> QED
      BY <1>1, <3>1 DEF Undone, MutexTypeOK
  <2>3. Readers' = Readers /\ Writers' = Writers
    BY <2>1 DEF Readers, Writers
  <2>4. Right' = Right /\ Exclusion'
    BY <2>2, <2>3 DEF Right, Values, Exclusion
  <2>5. SetRight'
    BY <1>1, <1>2, <1>3, <1>6, <2>1, <2>2, <2>4 DEF SetRight
  <2>6. SeenRight' /\ UndoRight'
    BY <1>2, <1>3 DEF SeenRight, UndoRight, Values, Zero, Sems
  <2> QED
    BY <1>5, <2>4, <2>5, <2>6
<1>8. CASE p \notin NoUndo /\ has[p] # "none"
  <2>1. has[p] \in {"rd", "wr"} /\ pc[p] \in {"idle", "unlock"}
    BY <1>1, <1>8 DEF MutexTypeOK, Places, SetRight
  <2>2. exists /\ Right
    BY <2>1 DEF SetRight
  <2>3. /\ Readers' \subseteq Readers /\ Writers' \subseteq Writers
        /\ Cardinality(Readers') =
              Cardinality(Readers) - (IF has[p] = "rd" THEN 1 ELSE 0)
        /\ Cardinality(Writers') =
              Cardinality(Writers) - (IF has[p] = "wr" THEN 1 ELSE 0)
    BY <1>1, <1>8, Loses
  <2>4. Exclusion'
    BY <2>3, Finite DEF Exclusion
  <2>5. Right'
    <3>1. CASE has[p] = "rd"
      <4>1. Values(undo[p], 0, 0, -1) /\ sem["rd"] > 0
        BY <1>1, <1>8, <2>2, <3>1, Finite DEF UndoRight, Right, Values, Readers
      <4>2. Values(sem', sem["w"], sem["chk"], sem["rd"] - 1)
        BY <1>1, <4>1 DEF Undone, Values, Sems, MutexTypeOK
      <4> QED
        BY <2>2, <2>3, <3>1, <4>2, Finite DEF Right, Values
    <3>2. CASE has[p] = "wr"
      <4>1. Values(undo[p], 1, -1, 0) /\ sem["chk"] > 0
        BY <1>1, <1>8, <2>2, <3>2, Finite DEF UndoRight, Right, Values, Writers
      <4>2. Values(sem', sem["w"] + 1, sem["chk"] - 1, sem["rd"])
        BY <1>1, <4>1 DEF Undone, Values, Sems, MutexTypeOK
      <4> QED
        BY <2>2, <2>3, <3>2, <4>2, Finite DEF Right, Values
    <3> QED
      BY <2>1, <3>1, <3>2
  <2>6. SetRight'
    BY <1>1, <1>2, <1>3, <1>6, <2>5 DEF SetRight
  <2>7. SeenRight' /\ UndoRight'
    BY <1>2, <1>3 DEF SeenRight, UndoRight, Values, Zero, Sems
  <2> QED
    BY <1>5, <2>4, <2>6, <2>7
<1> QED
  BY <1>7, <1>8

-----------------------------------------------------------------------------
\* While nobody makes, resets or removes the semaphores under a process that
\* uses them, mutex_rdlock and mutex_wrlock exclude each other as they should
\* and mutex_unlock keeps the counts, for every number of processes, of which
\* any may terminate at any time, with or without MUTEX_F_NOUNDO.
THEOREM LocksExclude ==
    ASSUME Careful
    PROVE  Spec => []LockSound
<1>1. MutexInv /\ [Next]_vars => MutexInv'
  <2>1. ASSUME MutexInv, UNCHANGED vars PROVE MutexInv'
    BY <2>1 DEF vars, MutexInv, MutexTypeOK, Exclusion, SetRight, SeenRight, UndoRight,
                Right, Values, Quiet, Alive, Readers, Writers
  <2>2. ASSUME MutexInv, Next PROVE MutexInv'
    BY <2>2, CreateStep, AskStep, RdLockStep, WrLockStep, LookStep, UnlockStep,
       ResetStep, KillStep DEF Next
  <2> QED
    BY <2>1, <2>2
<1>2. MutexInv => LockSound
  <2> SUFFICES ASSUME MutexInv PROVE Counted
    BY DEF MutexInv, LockSound
  <2> QED
    BY DEF MutexInv, SetRight, Counted, Right, Values
<1> QED
  BY <1>1, <1>2, MutexInit, PTL DEF Spec

-----------------------------------------------------------------------------
(* The threads.  Told says what the father may conclude from the structure *)
(* of a thread, however threads are used; InOrder why no freed structure   *)
(* is used if threads end in the reverse order of their start: the list of *)
(* threads is then a stack.                                                *)

Spots == {"none", "init", "publish", "signal", "main", "cleanup", "remove", "free"}

ThrTypeOK ==
    /\ mem \in [Child -> BOOLEAN] /\ cancel \in [Child -> BOOLEAN]
    /\ state \in [Child -> {"vergin", "childinit", "cleanup", "dead"}]
    /\ childret \in [Child -> {"ok", "error"}]
    /\ initret \in [Child -> {None, "ok", "error"}]
    /\ tpc \in [Child -> Spots]
    /\ father \in {Idle} \cup
          [at : {"create", "wait", "asleep", "look", "return", "fail"}, child : Child]
    /\ num \in Int /\ id \in [Child -> Int] /\ born \in [Child -> Int]
    /\ use \in Uses

\* The state says whether the init function has returned, and childret, once
\* it has, what; the father returns from what it has read there.
Told ==
    /\ \A c \in Child : tpc[c] \in {"init", "publish"} => state[c] = "vergin"
    /\ \A c \in Child : tpc[c] \in {"signal", "main", "cleanup"} => state[c] # "vergin"
    /\ \A c \in Child : state[c] # "vergin" /\ childret[c] = "ok" => initret[c] = "ok"
    /\ \A c \in Child : mem[c] /\ state[c] # "vergin" /\ childret[c] = "error" =>
          initret[c] = "error" \/ tpc[c] \in {"remove", "free"}
    /\ \A c \in Child : tpc[c] = "publish" => initret[c] # None
    /\ father.at = "create" => state[father.child] = "vergin" /\ tpc[father.child] = "none"
    /\ father.at = "look" => state[father.child] # "vergin"
    /\ father.at = "return" => state[father.child] # "vergin" /\ initret[father.child] = "ok"
    /\ NoMainAfterFailure

\* The thread is on the list.
On(c) == mem[c] /\ tpc[c] # "free"

\* The list is a stack: a thread is where its id says, and every position up
\* to the last is one of a thread.
Stack ==
    /\ slot \in [0 .. MaxId -> Child \cup {None, Main}]
    /\ num \in 1 .. MaxId + 1 /\ max = num - 1
    /\ \A c \in Child : On(c) =>
          id[c] = born[c] /\ id[c] \in 1 .. num - 1 /\ slot[id[c]] = c
    /\ \A i \in 1 .. num - 1 : \E c \in Child : On(c) /\ id[c] = i

\* Who runs has its structure; a thread that ends, and one that is started, is
\* the last of the list, and there are not both.
InOrder ==
    /\ ~corrupt /\ Stack
    /\ \A c \in Child : tpc[c] # "none" => mem[c]
    /\ \A c \in Child : mem[c] /\ tpc[c] = "none" =>
          father.child = c /\ father.at \in {"create", "fail"}
    /\ \A c \in Child : tpc[c] \notin {"none", "init"} => initret[c] = "ok"
    /\ \A c \in Child : tpc[c] \in {"cleanup", "remove"} =>
          id[c] = num - 1 /\ father = Idle
    /\ father # Idle => On(father.child) /\ id[father.child] = num - 1
    /\ father.at \in {"create", "wait", "asleep", "look"} => childret[father.child] = "ok"
    /\ father.at \in {"wait", "asleep", "look"} => tpc[father.child] # "none"
    /\ father.at \in {"create", "fail"} => tpc[father.child] = "none"

ThrInv == ThrTypeOK /\ Told /\ (Orderly => InOrder)

\* What a use of a structure that is gone does: not with an orderly use.
LEMMA ThrCorrupt ==
    ASSUME ThrInv, ~Orderly, Corrupts
    PROVE  ThrInv'
<1>1. UNCHANGED <<slot, num, max, mem, id, state, childret, tpc, father, cancel,
                  result, initret, born, use>>
  BY DEF Corrupts
<1>2. ThrTypeOK' /\ Told' /\ ~Orderly'
  BY <1>1 DEF ThrInv, ThrTypeOK, Told, NoMainAfterFailure, Orderly
<1> QED
  BY <1>2 DEF ThrInv

LEMMA ThrBegins == ThrInit => ThrInv
<1> SUFFICES ASSUME ThrInit PROVE ThrInv
  OBVIOUS
<1> USE ThreadAssumption DEF ThrInit
<1>1. ThrTypeOK
  BY DEF ThrTypeOK, Spots, Idle
<1>2. Told
  BY DEF Told, NoMainAfterFailure, Idle
<1>3. Stack
  BY DEF Stack, On
<1>4. InOrder
  BY <1>3 DEF InOrder, Idle
<1> QED
  BY <1>1, <1>2, <1>4 DEF ThrInv

\* A new thread is put on top of the stack.
LEMMA ThrStart ==
    ASSUME ThrInv, NEW c \in Child, Start(c)
    PROVE  ThrInv'
<1>1. /\ father = Idle /\ ~corrupt /\ ~mem[c] /\ tpc[c] = "none" /\ num <= MaxId
      /\ use.lifo => \A d \in Child : tpc[d] \notin {"cleanup", "remove"}
      /\ mem' = [mem EXCEPT ![c] = TRUE]
      /\ slot' = [slot EXCEPT ![num] = c] /\ num' = num + 1
      /\ max' = IF num > max THEN num ELSE max
      /\ id' = [id EXCEPT ![c] = num]
      /\ state' = [state EXCEPT ![c] = "vergin"]
      /\ childret' = [childret EXCEPT ![c] = "ok"]
      /\ cancel' = [cancel EXCEPT ![c] = FALSE]
      /\ initret' = [initret EXCEPT ![c] = None]
      /\ born' = [born EXCEPT ![c] = num]
      /\ father' = [at |-> "create", child |-> c]
      /\ UNCHANGED <<tpc, corrupt, use>>
  BY DEF Start, ListAdd, GoFather
<1>2. father'.at = "create" /\ father'.child = c /\ father' # Idle
  BY <1>1 DEF Idle
<1>3. ThrTypeOK'
  BY <1>1 DEF ThrInv, ThrTypeOK
<1>4. /\ state'[c] = "vergin" /\ initret'[c] = None /\ mem'[c] /\ id'[c] = num
      /\ born'[c] = num /\ childret'[c] = "ok"
      /\ \A d \in Child : d # c =>
            /\ state'[d] = state[d] /\ initret'[d] = initret[d] /\ mem'[d] = mem[d]
            /\ id'[d] = id[d] /\ born'[d] = born[d] /\ childret'[d] = childret[d]
  BY <1>1 DEF ThrInv, ThrTypeOK
<1>5. Told'
  BY <1>1, <1>2, <1>4 DEF ThrInv, Told, NoMainAfterFailure
<1>6. ASSUME Orderly PROVE InOrder'
  <2> USE <1>6, ThreadAssumption
  <2>1. InOrder /\ Stack /\ \A d \in Child : tpc[d] \notin {"cleanup", "remove"}
    BY <1>1 DEF ThrInv, InOrder, Orderly
  <2>2. On(c)' /\ ~On(c) /\ \A d \in Child : d # c => (On(d)' <=> On(d))
    BY <1>1, <1>4 DEF On
  <2>3. slot'[num] = c /\ \A i \in 1 .. num - 1 : slot'[i] = slot[i]
    BY <1>1, <2>1 DEF Stack
  <2>4. \A d \in Child : On(d)' =>
           id'[d] = born'[d] /\ id'[d] \in 1 .. num' - 1 /\ slot'[id'[d]] = d
    BY <1>1, <1>4, <2>1, <2>2, <2>3 DEF Stack
  <2>5. \A i \in 1 .. num' - 1 : \E d \in Child : On(d)' /\ id'[d] = i
    <3>1. ASSUME NEW i \in 1 .. num' - 1 PROVE \E d \in Child : On(d)' /\ id'[d] = i
      <4>1. CASE i = num
        BY <1>4, <2>2, <4>1
      <4>2. CASE i # num
        <5>1. i \in 1 .. num - 1
          BY <1>1, <2>1, <4>2 DEF Stack
        <5>2. PICK d \in Child : On(d) /\ id[d] = i
          BY <2>1, <5>1 DEF Stack
        <5> QED
          BY <1>4, <2>2, <5>2
      <4> QED
        BY <4>1, <4>2
    <3> QED
      BY <3>1
  <2>6. /\ slot' \in [0 .. MaxId -> Child \cup {None, Main}]
        /\ num' \in 1 .. MaxId + 1 /\ max' = num' - 1
    BY <1>1, <2>1 DEF Stack
  <2>7. Stack'
    BY <2>4, <2>5, <2>6 DEF Stack
  <2>8. \A d \in Child : mem'[d] /\ tpc'[d] = "none" => d = c
    BY <1>1, <1>4, <2>1 DEF InOrder, Idle
  <2>9. \A d \in Child : tpc'[d] # "none" => mem'[d] /\ d # c
    BY <1>1, <1>4, <2>1 DEF InOrder
  <2>10. \A d \in Child : tpc'[d] \notin {"none", "init"} => initret'[d] = "ok"
    BY <1>1, <1>4, <2>1, <2>9 DEF InOrder
  <2>11. On(father.child)' /\ id'[father'.child] = num' - 1
    BY <1>1, <1>2, <1>4 DEF On, ThrInv, ThrTypeOK
  <2> QED
    BY <1>1, <1>2, <1>4, <2>1, <2>7, <2>8, <2>9, <2>10, <2>11 DEF InOrder
<1> QED
  BY <1>1, <1>3, <1>5, <1>6 DEF ThrInv, Orderly

LEMMA ThrCreate ==
    ASSUME ThrInv, NEW c \in Child, Create(c)
    PROVE  ThrInv'
<1>1. /\ father.at = "create" /\ father.child = c /\ father # Idle
      /\ UNCHANGED <<slot, num, max, mem, id, state, childret, cancel, corrupt,
                     result, initret, born, use>>
  BY DEF Create, At, Idle
<1>2. CASE tpc' = [tpc EXCEPT ![c] = "init"] /\ father' = [at |-> "wait", child |-> c]
  <2>1. /\ father'.at = "wait" /\ father'.child = c /\ father' # Idle
        /\ tpc'[c] = "init" /\ \A d \in Child : d # c => tpc'[d] = tpc[d]
    BY <1>2 DEF ThrInv, ThrTypeOK, Idle
  <2>2. ThrTypeOK'
    BY <1>1, <1>2 DEF ThrInv, ThrTypeOK, Spots
  <2>3. Told'
    BY <1>1, <2>1 DEF ThrInv, Told, NoMainAfterFailure
  <2>4. ASSUME Orderly PROVE InOrder'
    <3>1. InOrder
      BY <2>4 DEF ThrInv
    <3>2. tpc[c] = "none" /\ \A d \in Child : On(d)' <=> On(d)
      BY <1>1, <2>1, <3>1 DEF On, InOrder
    <3>3. Stack'
      BY <1>1, <3>1, <3>2 DEF InOrder, Stack
    <3>4. childret[c] = "ok"
      BY <1>1, <3>1 DEF InOrder
    <3>5. On(father.child)' /\ mem[c]
      BY <1>1, <2>1, <3>1 DEF InOrder, On
    <3> QED
      BY <1>1, <2>1, <3>1, <3>2, <3>3, <3>4, <3>5 DEF InOrder
  <2> QED
    BY <1>1, <2>2, <2>3, <2>4 DEF ThrInv, Orderly
<1>3. CASE father' = [at |-> "fail", child |-> c] /\ UNCHANGED tpc
  <2>1. father'.at = "fail" /\ father'.child = c /\ father' # Idle
    BY <1>3 DEF Idle
  <2>2. ThrTypeOK'
    BY <1>1, <1>3 DEF ThrInv, ThrTypeOK
  <2>3. Told'
    BY <1>1, <1>3, <2>1 DEF ThrInv, Told, NoMainAfterFailure
  <2>4. ASSUME Orderly PROVE InOrder'
    BY <1>1, <1>3, <2>1, <2>4 DEF ThrInv, InOrder, Stack, On
  <2> QED
    BY <1>1, <2>2, <2>3, <2>4 DEF ThrInv, Orderly
<1> QED
  BY <1>2, <1>3 DEF Create, GoChild, GoFather

\* The father goes on with a child whose structure is there: to another place
\* of wait_thread, or away from it with what it has read.
LEMMA ThrFatherGoes ==
    ASSUME ThrInv, NEW c \in Child, mem[c],
           father.child = c, father.at \in {"wait", "asleep", "look"},
           NEW a \in {"wait", "asleep", "look", "return", "fail"},
           father' = [at |-> a, child |-> c], Alone,
           a \in {"look", "return"} => state[c] # "vergin",
           a = "return" => initret[c] = "ok",
           a = "fail" => ~Orderly
    PROVE  ThrInv'
<1>1. UNCHANGED <<slot, num, max, mem, id, state, childret, tpc, cancel, corrupt,
                  result, initret, born, use>>
  BY DEF Alone
<1>2. father'.at = a /\ father'.child = c /\ father' # Idle /\ father # Idle
  BY DEF Idle
<1>3. ThrTypeOK'
  BY <1>1 DEF ThrInv, ThrTypeOK
<1>4. Told'
  BY <1>1, <1>2 DEF ThrInv, Told, NoMainAfterFailure
<1>5. ASSUME Orderly PROVE InOrder'
  <2>1. \A d \in Child : mem[d] => tpc[d] # "none"
    BY <1>5 DEF ThrInv, InOrder
  <2> QED
    BY <1>1, <1>2, <1>5, <2>1 DEF ThrInv, InOrder, Stack, On
<1> QED
  BY <1>1, <1>3, <1>4, <1>5 DEF ThrInv, Orderly

\* While the father waits in the orderly use, the structure is there.
LEMMA ThrKept ==
    ASSUME ThrInv, NEW c \in Child, father.child = c,
           father.at \in {"wait", "asleep", "look"}
    PROVE  Orderly => mem[c] /\ childret[c] = "ok"
<1>1. father # Idle
  BY DEF Idle
<1> QED
  BY <1>1 DEF ThrInv, InOrder, On

LEMMA ThrWait ==
    ASSUME ThrInv, NEW c \in Child, Wait(c)
    PROVE  ThrInv'
<1>1. father.at = "wait" /\ father.child = c
  BY DEF Wait, At
<1>2. CASE ~mem[c]
  BY <1>1, <1>2, ThrKept, ThrCorrupt DEF Wait
<1>3. CASE mem[c]
  <2>1. CASE state[c] = "vergin"
    BY <1>1, <1>3, <2>1, ThrFatherGoes DEF Wait, GoFather
  <2>2. CASE state[c] # "vergin"
    BY <1>1, <1>3, <2>2, ThrFatherGoes DEF Wait, GoFather
  <2> QED
    BY <2>1, <2>2
<1> QED
  BY <1>2, <1>3

LEMMA ThrWakes ==
    ASSUME ThrInv, NEW c \in Child, Wakes(c)
    PROVE  ThrInv'
<1>1. father.at = "asleep" /\ father.child = c
  BY DEF Wakes, At
<1>2. CASE ~mem[c]
  BY <1>1, <1>2, ThrKept, ThrCorrupt DEF Wakes
<1>3. CASE mem[c]
  BY <1>1, <1>3, ThrFatherGoes DEF Wakes, GoFather
<1> QED
  BY <1>2, <1>3

LEMMA ThrTimesOut ==
    ASSUME ThrInv, NEW c \in Child, ThrTimeOut(c)
    PROVE  ThrInv'
<1>1. father.at = "asleep" /\ father.child = c /\ ~Orderly
  BY DEF ThrTimeOut, At, Orderly
<1>2. CASE ~mem[c]
  BY <1>1, <1>2, ThrCorrupt DEF ThrTimeOut
<1>3. CASE mem[c]
  BY <1>1, <1>3, ThrFatherGoes DEF ThrTimeOut, GoFather
<1> QED
  BY <1>2, <1>3

LEMMA ThrReadRet ==
    ASSUME ThrInv, NEW c \in Child, ReadRet(c)
    PROVE  ThrInv'
<1>1. father.at = "look" /\ father.child = c
  BY DEF ReadRet, At
<1>2. CASE ~mem[c]
  BY <1>1, <1>2, ThrKept, ThrCorrupt DEF ReadRet
<1>3. CASE mem[c]
  <2>1. state[c] # "vergin"
    BY <1>1 DEF ThrInv, Told
  <2>2. CASE childret[c] = "ok"
    <3>1. initret[c] = "ok"
      BY <2>1, <2>2 DEF ThrInv, Told
    <3> QED
      BY <1>1, <1>3, <2>1, <2>2, <3>1, ThrFatherGoes DEF ReadRet, GoFather
  <2>3. CASE childret[c] # "ok"
    <3>1. ~Orderly
      BY <1>1, <2>3, ThrKept
    <3> QED
      BY <1>1, <1>3, <2>1, <2>3, <3>1, ThrFatherGoes DEF ReadRet, GoFather
  <2> QED
    BY <2>2, <2>3
<1> QED
  BY <1>2, <1>3

LEMMA ThrReturn ==
    ASSUME ThrInv, NEW c \in Child, Return(c)
    PROVE  ThrInv'
<1>1. father.at = "return" /\ father.child = c /\ father # Idle
  BY DEF Return, At, Idle
<1>2. Orderly => mem[c]
  BY <1>1 DEF ThrInv, InOrder, On
<1>3. CASE ~mem[c]
  BY <1>2, <1>3, ThrCorrupt DEF Return
<1>4. CASE mem[c]
  <2>1. /\ father' = Idle
        /\ UNCHANGED <<slot, num, max, mem, id, state, childret, tpc, cancel,
                       corrupt, initret, born, use>>
    BY <1>4 DEF Return
  <2>2. father'.at = "idle"
    BY <2>1 DEF Idle
  <2>3. ThrTypeOK'
    BY <2>1 DEF ThrInv, ThrTypeOK
  <2>4. Told'
    BY <1>1, <2>1, <2>2 DEF ThrInv, Told, NoMainAfterFailure
  <2>5. ASSUME Orderly PROVE InOrder'
    <3>1. \A d \in Child : mem[d] => tpc[d] # "none"
      BY <1>1, <2>5 DEF ThrInv, InOrder
    <3> QED
      BY <1>1, <2>1, <2>2, <2>5, <3>1 DEF ThrInv, InOrder, Stack, On
  <2> QED
    BY <2>1, <2>3, <2>4, <2>5 DEF ThrInv, Orderly
<1> QED
  BY <1>3, <1>4 DEF ThrInv, ThrTypeOK

\* The last thread of the list leaves it.
LEMMA StackPops ==
    ASSUME Stack, num \in Int, id \in [Child -> Int], NEW c \in Child, On(c),
           id[c] = num - 1, ListRemove(id[c]), UNCHANGED <<id, born>>,
           ~On(c)', \A d \in Child : d # c => (On(d)' <=> On(d))
    PROVE  Stack' /\ num' = num - 1
<1>1. num >= 2 /\ num - 1 \in 1 .. MaxId
  BY ThreadAssumption DEF Stack
<1>2. /\ slot' = [slot EXCEPT ![num - 1] = None] /\ num' = num - 1
      /\ max' = IF num = 1 THEN 0 ELSE IF num - 1 = max THEN max - 1 ELSE max
  BY <1>1 DEF ListRemove
<1>3. max' = num' - 1 /\ num' \in 1 .. MaxId + 1
      /\ slot' \in [0 .. MaxId -> Child \cup {None, Main}]
  <2>1. max = num - 1 /\ num \in 1 .. MaxId + 1 /\ MaxId \in Nat
    BY ThreadAssumption DEF Stack
  <2>2. max' = num' - 1 /\ num' \in 1 .. MaxId + 1
    BY <1>1, <1>2, <2>1
  <2>3. slot' \in [0 .. MaxId -> Child \cup {None, Main}]
    BY <1>2 DEF Stack
  <2> QED
    BY <2>2, <2>3
<1>4. ASSUME NEW d \in Child, On(d)'
      PROVE  id[d] = born[d] /\ id[d] \in 1 .. num' - 1 /\ slot'[id[d]] = d
  <2>1. d # c /\ On(d)
    BY <1>4
  <2>2. id[d] # num - 1 /\ id[d] \in 1 .. num - 1 /\ id[d] = born[d] /\ slot[id[d]] = d
    BY <2>1 DEF Stack
  <2> QED
    BY <1>1, <1>2, <2>2 DEF Stack
<1>5. ASSUME NEW i \in 1 .. num' - 1 PROVE \E d \in Child : On(d)' /\ id[d] = i
  <2>1. i \in 1 .. num - 1 /\ i # num - 1
    BY <1>1, <1>2
  <2>2. PICK d \in Child : On(d) /\ id[d] = i
    BY <2>1 DEF Stack
  <2> QED
    BY <2>1, <2>2
<1> QED
  BY <1>2, <1>3, <1>4, <1>5 DEF Stack

LEMMA ThrFail ==
    ASSUME ThrInv, NEW c \in Child, Fail(c)
    PROVE  ThrInv'
<1>1. father.at = "fail" /\ father.child = c /\ father # Idle
  BY DEF Fail, At, Idle
<1>2. Orderly => mem[c] /\ On(c) /\ id[c] = num - 1 /\ tpc[c] = "none"
  BY <1>1 DEF ThrInv, InOrder, On
<1>3. CASE ~mem[c]
  BY <1>2, <1>3, ThrCorrupt DEF Fail
<1>4. CASE mem[c]
  <2>1. /\ ListRemove(id[c]) /\ mem' = [mem EXCEPT ![c] = FALSE] /\ father' = Idle
        /\ UNCHANGED <<id, state, childret, tpc, cancel, corrupt, initret, born, use>>
    BY <1>4 DEF Fail
  <2>2. /\ father'.at = "idle" /\ ~mem'[c]
        /\ \A d \in Child : d # c => mem'[d] = mem[d]
    BY <2>1 DEF Idle, ThrInv, ThrTypeOK
  <2>3. ThrTypeOK'
    BY <2>1 DEF ThrInv, ThrTypeOK, ListRemove
  <2>4. Told'
    BY <1>1, <2>1, <2>2 DEF ThrInv, Told, NoMainAfterFailure
  <2>5. ASSUME Orderly PROVE InOrder'
    <3>1. InOrder
      BY <2>5 DEF ThrInv
    <3>2. ~On(c)' /\ \A d \in Child : d # c => (On(d)' <=> On(d))
      BY <2>1, <2>2 DEF On
    <3>3. Stack'
      BY <1>2, <2>1, <2>5, <3>1, <3>2, StackPops DEF ThrInv, ThrTypeOK, InOrder
    <3>4. \A d \in Child : tpc[d] \notin {"cleanup", "remove"}
      BY <1>1, <3>1 DEF InOrder
    <3> QED
      BY <1>1, <1>2, <2>1, <2>2, <2>5, <3>1, <3>3, <3>4 DEF InOrder
  <2> QED
    BY <2>1, <2>3, <2>4, <2>5 DEF ThrInv, Orderly
<1> QED
  BY <1>3, <1>4 DEF ThrInv, ThrTypeOK

LEMMA ThrRunInit ==
    ASSUME ThrInv, NEW c \in Child, NEW r \in use.rets, RunInit(c, r)
    PROVE  ThrInv'
<1>1. /\ tpc[c] = "init" /\ tpc' = [tpc EXCEPT ![c] = "publish"]
      /\ initret' = [initret EXCEPT ![c] = r]
      /\ UNCHANGED <<slot, num, max, mem, id, state, childret, father, cancel,
                     corrupt, result, born, use>>
  BY DEF RunInit, GoChild
<1>2. /\ tpc'[c] = "publish" /\ initret'[c] = r
      /\ \A d \in Child : d # c => tpc'[d] = tpc[d] /\ initret'[d] = initret[d]
  BY <1>1 DEF ThrInv, ThrTypeOK
<1>3. r \in {"ok", "error"} /\ (Orderly => r = "ok")
  BY DEF ThrInv, ThrTypeOK, Uses, Orderly
<1>4. ThrTypeOK'
  BY <1>1, <1>3 DEF ThrInv, ThrTypeOK, Spots
<1>5. Told'
  BY <1>1, <1>2, <1>3 DEF ThrInv, Told, NoMainAfterFailure, None
<1>6. ASSUME Orderly PROVE InOrder'
  <2>1. InOrder /\ \A d \in Child : On(d)' <=> On(d)
    BY <1>1, <1>2, <1>6 DEF ThrInv, On
  <2>2. Stack'
    BY <1>1, <2>1 DEF InOrder, Stack
  <2>3. father # Idle => On(father.child)'
    BY <1>1, <1>2, <2>1 DEF InOrder, On, ThrInv, ThrTypeOK
  <2> QED
    BY <1>1, <1>2, <1>3, <1>6, <2>1, <2>2, <2>3 DEF InOrder
<1> QED
  BY <1>1, <1>4, <1>5, <1>6 DEF ThrInv, Orderly

LEMMA ThrPublish ==
    ASSUME ThrInv, NEW c \in Child, Publish(c)
    PROVE  ThrInv'
<1>1. tpc[c] = "publish"
  BY DEF Publish
<1>2. Orderly => mem[c] /\ initret[c] = "ok"
  BY <1>1 DEF ThrInv, InOrder
<1>3. CASE ~mem[c]
  BY <1>2, <1>3, ThrCorrupt DEF Publish
<1>4. CASE mem[c]
  <2>1. /\ childret' = [childret EXCEPT ![c] = initret[c]]
        /\ state' = [state EXCEPT ![c] =
                        IF initret[c] = "ok" THEN "childinit" ELSE "dead"]
        /\ tpc' = [tpc EXCEPT ![c] = "signal"]
        /\ UNCHANGED <<slot, num, max, mem, id, father, cancel, corrupt,
                       result, initret, born, use>>
    BY <1>4 DEF Publish, GoChild
  <2>2. /\ childret'[c] = initret[c] /\ state'[c] # "vergin" /\ tpc'[c] = "signal"
        /\ \A d \in Child : d # c =>
              childret'[d] = childret[d] /\ state'[d] = state[d] /\ tpc'[d] = tpc[d]
    BY <2>1 DEF ThrInv, ThrTypeOK
  <2>3. initret[c] \in {"ok", "error"}
    BY <1>1 DEF ThrInv, ThrTypeOK, Told
  <2>4. ThrTypeOK'
    BY <2>1, <2>3 DEF ThrInv, ThrTypeOK, Spots
  <2>5. Told'
    BY <1>1, <2>1, <2>2 DEF ThrInv, Told, NoMainAfterFailure
  <2>6. ASSUME Orderly PROVE InOrder'
    <3>1. InOrder /\ \A d \in Child : On(d)' <=> On(d)
      BY <1>1, <2>1, <2>2, <2>6 DEF ThrInv, On
    <3>2. Stack'
      BY <2>1, <3>1 DEF InOrder, Stack
    <3>3. father # Idle => On(father.child)'
      BY <1>1, <2>1, <2>2, <3>1 DEF InOrder, On, ThrInv, ThrTypeOK
    <3> QED
      BY <1>1, <1>2, <2>1, <2>2, <2>6, <3>1, <3>2, <3>3 DEF InOrder
  <2> QED
    BY <2>1, <2>4, <2>5, <2>6 DEF ThrInv, Orderly
<1> QED
  BY <1>3, <1>4 DEF ThrInv, ThrTypeOK

LEMMA ThrSignal ==
    ASSUME ThrInv, NEW c \in Child, Signal(c)
    PROVE  ThrInv'
<1>1. tpc[c] = "signal"
  BY DEF Signal
<1>2. Orderly => mem[c] /\ initret[c] = "ok"
  BY <1>1 DEF ThrInv, InOrder
<1>3. CASE ~mem[c]
  BY <1>2, <1>3, ThrCorrupt DEF Signal
<1>4. CASE mem[c]
  <2> DEFINE to == IF initret[c] = "ok" THEN "main" ELSE "none"
  <2>1. /\ tpc' = [tpc EXCEPT ![c] = to]
        /\ WakeFather(c)
        /\ UNCHANGED <<slot, num, max, mem, id, state, childret, cancel,
                       corrupt, result, initret, born, use>>
    BY <1>4 DEF Signal, GoChild
  <2>2. tpc'[c] = to /\ \A d \in Child : d # c => tpc'[d] = tpc[d]
    BY <2>1 DEF ThrInv, ThrTypeOK
  <2>10. \/ father' = father
         \/ father.at = "asleep" /\ father.child = c /\ father'.at = "wait"
            /\ father'.child = c /\ father' # Idle /\ father # Idle
            /\ father' = [at |-> "wait", child |-> c]
    BY <2>1 DEF WakeFather, Idle
  <2>3. ThrTypeOK'
    BY <2>1, <2>10 DEF ThrInv, ThrTypeOK, Spots
  <2>4. Told'
    BY <1>1, <2>1, <2>2, <2>10 DEF ThrInv, Told, NoMainAfterFailure
  <2>5. ASSUME Orderly PROVE InOrder'
    <3>1. InOrder /\ to = "main" /\ \A d \in Child : On(d)' <=> On(d)
      BY <1>1, <1>2, <2>1, <2>2, <2>5 DEF ThrInv, On
    <3>2. Stack'
      BY <2>1, <3>1 DEF InOrder, Stack
    <3>3. father' # Idle => On(father.child)' /\ father # Idle
      <4>1. father # Idle => father.child \in Child /\ On(father.child)
        BY <3>1 DEF InOrder, ThrInv, ThrTypeOK
      <4>2. father' # Idle => father # Idle /\ father'.child = father.child
        BY <2>10
      <4> QED
        BY <3>1, <4>1, <4>2
    <3> QED
      BY <1>1, <1>2, <2>1, <2>2, <2>5, <2>10, <3>1, <3>2, <3>3 DEF InOrder
  <2> QED
    BY <2>1, <2>3, <2>4, <2>5 DEF ThrInv, Orderly
<1> QED
  BY <1>3, <1>4 DEF ThrInv, ThrTypeOK

\* The thread that was started last ends, and none is being started.
LEMMA ThrMainEnds ==
    ASSUME ThrInv, NEW c \in Child, MainEnds(c)
    PROVE  ThrInv'
<1>1. /\ tpc[c] = "main" /\ (use.lasting => father.child # c)
      /\ use.lifo => \A d \in Child : mem[d] => born[d] <= born[c]
  BY DEF MainEnds
<1>2. Orderly => mem[c]
  BY <1>1 DEF ThrInv, InOrder
<1>3. CASE ~mem[c]
  BY <1>2, <1>3, ThrCorrupt DEF MainEnds
<1>4. CASE mem[c]
  <2>1. /\ state' = [state EXCEPT ![c] = "cleanup"]
        /\ tpc' = [tpc EXCEPT ![c] = "cleanup"]
        /\ UNCHANGED <<slot, num, max, mem, id, childret, father, cancel, corrupt,
                       result, initret, born, use>>
    BY <1>4 DEF MainEnds, GoChild
  <2>2. /\ state'[c] = "cleanup" /\ tpc'[c] = "cleanup"
        /\ \A d \in Child : d # c => state'[d] = state[d] /\ tpc'[d] = tpc[d]
    BY <2>1 DEF ThrInv, ThrTypeOK
  <2>3. initret[c] = "ok"
    BY <1>1 DEF ThrInv, Told, NoMainAfterFailure
  <2>4. ThrTypeOK'
    BY <2>1 DEF ThrInv, ThrTypeOK, Spots
  <2>5. Told'
    BY <1>1, <2>1, <2>2, <2>3 DEF ThrInv, Told, NoMainAfterFailure
  <2>6. ASSUME Orderly PROVE InOrder'
    <3>1. InOrder /\ Stack /\ On(c) /\ \A d \in Child : On(d)' <=> On(d)
      BY <1>1, <1>4, <2>1, <2>2, <2>6 DEF ThrInv, On, InOrder
    <3>2. father.child # c /\ \A d \in Child : mem[d] => born[d] <= born[c]
      BY <1>1, <2>6 DEF Orderly
    <3>3. id[c] = num - 1
      <4>1. num - 1 \in 1 .. num - 1
        BY <3>1 DEF Stack
      <4>2. PICK d \in Child : On(d) /\ id[d] = num - 1
        BY <3>1, <4>1 DEF Stack
      <4>3. born[d] <= born[c] /\ id[d] = born[d] /\ id[c] = born[c]
            /\ id[c] \in 1 .. num - 1
        BY <3>1, <3>2, <4>2 DEF Stack, On
      <4> QED
        BY <3>1, <4>2, <4>3 DEF Stack
    <3>4. father = Idle
      <4>1. SUFFICES ASSUME father # Idle PROVE FALSE
        OBVIOUS
      <4>2. father.child \in Child /\ On(father.child) /\ id[father.child] = id[c]
        BY <3>1, <3>3, <4>1 DEF InOrder, ThrInv, ThrTypeOK
      <4> QED
        BY <3>1, <3>2, <4>2 DEF Stack
    <3>5. Stack'
      BY <2>1, <3>1 DEF Stack
    <3>6. father.at = "idle"
      BY <3>4 DEF Idle
    <3>7. \A d \in Child : tpc'[d] # "none" => mem[d]
      BY <1>4, <2>2, <3>1 DEF InOrder
    <3>8. \A d \in Child : tpc'[d] \in {"cleanup", "remove"} => id[d] = num - 1
      BY <2>2, <3>1, <3>3 DEF InOrder
    <3> QED
      BY <1>1, <2>1, <2>2, <2>3, <3>1, <3>4, <3>5, <3>6, <3>7, <3>8 DEF InOrder
  <2> QED
    BY <2>1, <2>4, <2>5, <2>6 DEF ThrInv, Orderly
<1> QED
  BY <1>3, <1>4 DEF ThrInv, ThrTypeOK

LEMMA ThrRunCleanup ==
    ASSUME ThrInv, NEW c \in Child, NEW r \in {"ok", "error"}, RunCleanup(c, r)
    PROVE  ThrInv'
<1>1. tpc[c] = "cleanup"
  BY DEF RunCleanup
<1>2. Orderly => mem[c]
  BY <1>1 DEF ThrInv, InOrder
<1>3. CASE ~mem[c]
  BY <1>2, <1>3, ThrCorrupt DEF RunCleanup
<1>4. CASE mem[c]
  <2>1. /\ childret' = [childret EXCEPT ![c] = r]
        /\ state' = [state EXCEPT ![c] = "dead"]
        /\ tpc' = [tpc EXCEPT ![c] = "remove"]
        /\ UNCHANGED <<slot, num, max, mem, id, father, cancel, corrupt, result,
                       initret, born, use>>
    BY <1>4 DEF RunCleanup, GoChild
  <2>2. /\ state'[c] = "dead" /\ tpc'[c] = "remove"
        /\ \A d \in Child : d # c =>
              childret'[d] = childret[d] /\ state'[d] = state[d] /\ tpc'[d] = tpc[d]
    BY <2>1 DEF ThrInv, ThrTypeOK
  <2>3. initret[c] = "ok"
    BY <1>1 DEF ThrInv, Told, NoMainAfterFailure
  <2>4. ThrTypeOK'
    BY <2>1 DEF ThrInv, ThrTypeOK, Spots
  <2>5. Told'
    BY <1>1, <2>1, <2>2, <2>3 DEF ThrInv, Told, NoMainAfterFailure
  <2>6. ASSUME Orderly PROVE InOrder'
    <3>1. InOrder /\ father = Idle /\ \A d \in Child : On(d)' <=> On(d)
      BY <1>1, <2>1, <2>2, <2>6 DEF ThrInv, On, InOrder
    <3>2. Stack'
      BY <2>1, <3>1 DEF InOrder, Stack
    <3>3. father.at = "idle"
      BY <3>1 DEF Idle
    <3> QED
      BY <1>1, <2>1, <2>2, <2>3, <2>6, <3>1, <3>2, <3>3 DEF InOrder
  <2> QED
    BY <2>1, <2>4, <2>5, <2>6 DEF ThrInv, Orderly
<1> QED
  BY <1>3, <1>4 DEF ThrInv, ThrTypeOK

LEMMA ThrRemoveMe ==
    ASSUME ThrInv, NEW c \in Child, RemoveMe(c)
    PROVE  ThrInv'
<1>1. tpc[c] = "remove"
  BY DEF RemoveMe
<1>2. Orderly => mem[c] /\ On(c) /\ id[c] = num - 1 /\ father = Idle
  BY <1>1 DEF ThrInv, InOrder, On
<1>3. CASE ~mem[c]
  BY <1>2, <1>3, ThrCorrupt DEF RemoveMe
<1>4. CASE mem[c]
  <2>1. /\ ListRemove(id[c]) /\ tpc' = [tpc EXCEPT ![c] = "free"]
        /\ UNCHANGED <<mem, id, state, childret, father, cancel, corrupt,
                       result, initret, born, use>>
    BY <1>4 DEF RemoveMe, GoChild
  <2>2. tpc'[c] = "free" /\ \A d \in Child : d # c => tpc'[d] = tpc[d]
    BY <2>1 DEF ThrInv, ThrTypeOK
  <2>3. ThrTypeOK'
    BY <2>1 DEF ThrInv, ThrTypeOK, Spots, ListRemove
  <2>4. Told'
    BY <1>1, <2>1, <2>2 DEF ThrInv, Told, NoMainAfterFailure
  <2>5. ASSUME Orderly PROVE InOrder'
    <3>1. InOrder /\ father = Idle /\ father.at = "idle"
      BY <1>2, <2>5 DEF ThrInv, Idle
    <3>2. ~On(c)' /\ \A d \in Child : d # c => (On(d)' <=> On(d))
      BY <2>1, <2>2 DEF On
    <3>3. Stack'
      BY <1>2, <2>1, <2>5, <3>1, <3>2, StackPops DEF ThrInv, ThrTypeOK, InOrder
    \* No other is about to leave: it would have the same place.
    <3>4. \A d \in Child : d # c => tpc[d] \notin {"cleanup", "remove"}
      <4>1. ASSUME NEW d \in Child, tpc[d] \in {"cleanup", "remove"} PROVE d = c
        <5>1. On(d) /\ id[d] = id[c]
          BY <1>2, <2>5, <3>1, <4>1 DEF InOrder, On
        <5> QED
          BY <1>2, <2>5, <3>1, <5>1 DEF InOrder, Stack
      <4> QED
        BY <4>1
    <3> QED
      BY <1>1, <1>4, <2>1, <2>2, <2>5, <3>1, <3>3, <3>4 DEF InOrder
  <2> QED
    BY <2>1, <2>3, <2>4, <2>5 DEF ThrInv, Orderly
<1> QED
  BY <1>3, <1>4 DEF ThrInv, ThrTypeOK

LEMMA ThrFreeMe ==
    ASSUME ThrInv, NEW c \in Child, FreeMe(c)
    PROVE  ThrInv'
<1>1. tpc[c] = "free"
  BY DEF FreeMe
<1>2. Orderly => mem[c] /\ (father # Idle => father.child # c)
  BY <1>1 DEF ThrInv, InOrder, On
<1>3. CASE ~mem[c]
  BY <1>2, <1>3, ThrCorrupt DEF FreeMe
<1>4. CASE mem[c]
  <2>1. /\ mem' = [mem EXCEPT ![c] = FALSE] /\ tpc' = [tpc EXCEPT ![c] = "none"]
        /\ UNCHANGED <<slot, num, max, id, state, childret, father, cancel,
                       corrupt, result, initret, born, use>>
    BY <1>4 DEF FreeMe, GoChild
  <2>2. /\ tpc'[c] = "none" /\ ~mem'[c]
        /\ \A d \in Child : d # c => tpc'[d] = tpc[d] /\ mem'[d] = mem[d]
    BY <2>1 DEF ThrInv, ThrTypeOK
  <2>3. ThrTypeOK'
    BY <2>1 DEF ThrInv, ThrTypeOK, Spots
  <2>4. Told'
    BY <1>1, <2>1, <2>2 DEF ThrInv, Told, NoMainAfterFailure
  <2>5. ASSUME Orderly PROVE InOrder'
    <3>1. InOrder /\ \A d \in Child : On(d)' <=> On(d)
      BY <1>1, <2>1, <2>2, <2>5 DEF ThrInv, On
    <3>2. Stack'
      BY <2>1, <3>1 DEF InOrder, Stack
    <3>3. father # Idle => On(father.child)' /\ tpc'[father.child] = tpc[father.child]
      BY <1>2, <2>1, <2>2, <2>5, <3>1 DEF InOrder, On, ThrInv, ThrTypeOK
    <3>4. father.at # "idle" => father # Idle
      BY DEF Idle
    <3> QED
      BY <1>1, <2>1, <2>2, <2>5, <3>1, <3>2, <3>3, <3>4 DEF InOrder
  <2> QED
    BY <2>1, <2>3, <2>4, <2>5 DEF ThrInv, Orderly
<1> QED
  BY <1>3, <1>4 DEF ThrInv, ThrTypeOK

\* Every id up to the last is that of a thread that has its structure.
LEMMA ThrDestroy ==
    ASSUME ThrInv, NEW i \in 1 .. MaxId, frthr_destroy(i)
    PROVE  ThrInv'
<1>1. i <= max /\ slot[i] \in Child
  BY DEF frthr_destroy
<1>2. Orderly => mem[slot[i]]
  <2> SUFFICES ASSUME Orderly PROVE mem[slot[i]]
    OBVIOUS
  <2>1. Stack /\ i \in 1 .. num - 1
    BY <1>1, ThreadAssumption DEF ThrInv, InOrder, Stack
  <2>2. PICK c \in Child : On(c) /\ id[c] = i
    BY <2>1 DEF Stack
  <2> QED
    BY <2>1, <2>2 DEF Stack, On
<1>3. CASE ~mem[slot[i]]
  BY <1>2, <1>3, ThrCorrupt DEF frthr_destroy
<1>4. CASE mem[slot[i]]
  <2>1. /\ cancel' = [cancel EXCEPT ![slot[i]] = TRUE]
        /\ UNCHANGED <<slot, num, max, mem, id, state, childret, tpc, father,
                       corrupt, result, initret, born, use>>
    BY <1>4 DEF frthr_destroy
  <2>2. ThrTypeOK' /\ Told'
    BY <2>1 DEF ThrInv, ThrTypeOK, Told, NoMainAfterFailure
  <2>3. InOrder => InOrder'
    BY <2>1 DEF InOrder, Stack, On
  <2> QED
    BY <2>1, <2>2, <2>3 DEF ThrInv, Orderly
<1> QED
  BY <1>1, <1>3, <1>4 DEF ThrInv, ThrTypeOK

LEMMA ThrStep == ThrInv /\ [ThrNext]_threadVars => ThrInv'
<1> SUFFICES ASSUME ThrInv, [ThrNext]_threadVars PROVE ThrInv'
  OBVIOUS
<1>1. CASE UNCHANGED threadVars
  BY <1>1 DEF threadVars, ThrInv, ThrTypeOK, Told, NoMainAfterFailure, Orderly,
              InOrder, Stack, On
<1>2. ASSUME NEW c \in Child,
             \/ Start(c) \/ Create(c) \/ Wait(c) \/ Wakes(c) \/ ThrTimeOut(c)
             \/ ReadRet(c) \/ Return(c) \/ Fail(c)
             \/ \E r \in use.rets : RunInit(c, r)
             \/ \E r \in {"ok", "error"} : RunCleanup(c, r)
             \/ Publish(c) \/ Signal(c) \/ MainEnds(c) \/ RemoveMe(c) \/ FreeMe(c)
      PROVE  ThrInv'
  BY <1>2, ThrStart, ThrCreate, ThrWait, ThrWakes, ThrTimesOut, ThrReadRet, ThrReturn,
     ThrFail, ThrRunInit, ThrRunCleanup, ThrPublish, ThrSignal, ThrMainEnds, ThrRemoveMe, ThrFreeMe
<1>3. ASSUME NEW i \in 1 .. MaxId, frthr_destroy(i) PROVE ThrInv'
  BY <1>3, ThrDestroy
<1> QED
  BY <1>1, <1>2, <1>3 DEF ThrNext

\* Any number of threads, used in an orderly way, use no freed structure and
\* are found by their ids; used in any way, a thread whose init function has
\* failed does not run.
THEOREM ThreadsKeepOrder == ThrSpec => []ThreadsSound
<1>1. ThrInv => ThreadsSound
  <2> SUFFICES ASSUME ThrInv PROVE ThreadsSound
    OBVIOUS
  <2>1. NoMainAfterFailure
    BY DEF ThrInv, Told
  <2>2. ASSUME Orderly PROVE NoUseAfterFree /\ IdsNameThreads
    <3>1. ~corrupt /\ Stack
      BY <2>2 DEF ThrInv, InOrder
    <3>2. \A c \in Running : c \in Child /\ On(c)
      BY DEF Running, On
    <3>3. ASSUME NEW c \in Running
          PROVE  slot[id[c]] = c /\ \A d \in Running \ {c} : id[d] # id[c]
      BY <3>1, <3>2, <3>3 DEF Stack
    <3> QED
      BY <3>1, <3>3 DEF NoUseAfterFree, IdsNameThreads
  <2> QED
    BY <2>1, <2>2 DEF ThreadsSound
<1> QED
  BY <1>1, ThrBegins, ThrStep, PTL DEF ThrSpec

\* However threads are used and in whichever order the father and the thread
\* come to look: frthr_start goes on only if the init function has succeeded,
\* and after the thread's answer fails only if init has failed or the thread
\* is already through its cleanup.
THEOREM StartTellsTheTruth == ThrSpec => ThreadStartTrue
<1> DEFINE Truth(c) == father = [at |-> "look", child |-> c] /\ father' # father =>
              /\ father'.at = "return" => initret[c] = "ok"
              /\ father'.at = "fail" =>
                    initret[c] = "error" \/ tpc[c] \in {"remove", "free"}
<1>1. ASSUME ThrInv, ThrNext, NEW c \in Child PROVE Truth(c)
  <2>1. SUFFICES ASSUME father = [at |-> "look", child |-> c], father' # father
                 PROVE  ReadRet(c)
    <3>1. ASSUME ReadRet(c), father = [at |-> "look", child |-> c], father' # father
          PROVE  /\ father'.at = "return" => initret[c] = "ok"
                 /\ father'.at = "fail" =>
                       initret[c] = "error" \/ tpc[c] \in {"remove", "free"}
      <4>1. mem[c] /\ father' = [at |-> IF childret[c] = "ok" THEN "return" ELSE "fail",
                                 child |-> c]
        BY <3>1 DEF ReadRet, Corrupts, GoFather, ThrInv, ThrTypeOK
      <4>2. state[c] # "vergin"
        BY <1>1, <3>1 DEF ThrInv, Told
      <4>3. childret[c] \in {"ok", "error"}
        BY <1>1 DEF ThrInv, ThrTypeOK
      <4> QED
        BY <1>1, <4>1, <4>2, <4>3 DEF ThrInv, Told
    <3> QED
      BY <3>1
  <2>2. father.at = "look" /\ father # Idle
    BY <2>1 DEF Idle
  <2>3. ASSUME NEW d \in Child,
               \/ Start(d) \/ Create(d) \/ Wait(d) \/ Wakes(d) \/ ThrTimeOut(d)
               \/ ReadRet(d) \/ Return(d) \/ Fail(d)
        PROVE  ReadRet(c)
    <3>1. father.at = "look" /\ father.child = c /\ father # Idle
      BY <2>1, <2>2
    <3> QED
      BY <2>3, <3>1 DEF Start, Create, Wait, Wakes, ThrTimeOut, ReadRet, Return, Fail, At
  <2>4. ASSUME NEW d \in Child,
               \/ \E r \in use.rets : RunInit(d, r)
               \/ \E r \in {"ok", "error"} : RunCleanup(d, r)
               \/ Publish(d) \/ Signal(d) \/ MainEnds(d) \/ RemoveMe(d) \/ FreeMe(d)
        PROVE  FALSE
    BY <2>1, <2>2, <2>4 DEF RunInit, RunCleanup, Publish, Signal, WakeFather, MainEnds,
         RemoveMe, FreeMe, Corrupts
  <2>5. ASSUME NEW i \in 1 .. MaxId, frthr_destroy(i) PROVE FALSE
    BY <2>2, <2>5 DEF frthr_destroy
  <2> QED
    BY <1>1, <2>3, <2>4, <2>5 DEF ThrNext
<1>2. ThrInv /\ [ThrNext]_threadVars => [\A c \in Child : Truth(c)]_threadVars
  BY <1>1
<1> QED
  BY <1>2, ThrBegins, ThrStep, PTL DEF ThrSpec, ThreadStartTrue

-----------------------------------------------------------------------------
(* Netlink sockets.                                                        *)

Msg == [no : Nat, seq : Int, size : Nat, kind : {"plain", "error", "odd"}]
Fates == {"none", "queued", "lost", "silent", "told", "refused", "got"}

FnlTypeOK ==
    /\ sndseq \in Int /\ rcvseq \in Int /\ lastseq \in Int
    /\ queue \in Seq(Msg)
    /\ enobufs \in BOOLEAN /\ congested \in BOOLEAN
    /\ peek \in BOOLEAN /\ wronged \in BOOLEAN
    /\ npc \in {"idle", "wait", "read"}
    /\ buflen \in Nat /\ sent \in 0 .. MaxSend
    /\ fate \in [1 .. MaxSend -> Fates]
    /\ how \in Hows

\* What is in the queue: the messages that were sent and have no other fate,
\* in the order of their numbers, all younger than those that were returned.
Queued ==
    /\ \A i \in 1 .. Len(queue) :
          /\ queue[i].no \in 1 .. sent /\ fate[queue[i].no] = "queued"
          /\ queue[i].kind \in Kinds
    /\ \A i, j \in 1 .. Len(queue) : i < j => queue[i].no < queue[j].no
    /\ \A n \in 1 .. MaxSend :
          /\ n > sent => fate[n] = "none"
          /\ fate[n] = "queued" => \E i \in 1 .. Len(queue) : queue[i].no = n
          /\ fate[n] = "got" => \A i \in 1 .. Len(queue) : queue[i].no > n

\* A loss that nobody was told of is still to be told by recvmsg; what was
\* dropped without an error follows such a loss, also when the socket is still
\* congested.
Losses ==
    /\ \A k, n \in 1 .. MaxSend : k < n /\ fate[k] = "lost" => fate[n] # "got"
    /\ \A n \in 1 .. MaxSend : fate[n] = "lost" => enobufs
    /\ \A k \in 1 .. MaxSend : fate[k] = "silent" =>
          \E j \in 1 .. k - 1 : /\ fate[j] \in {"lost", "told"}
                                /\ \A i \in j + 1 .. k : fate[i] = "silent"
    /\ congested => sent >= 1 /\ fate[sent] \in {"lost", "told", "silent"}

\* A message that is about to be taken was seen to fit.
Fits ==
    /\ npc = "read" => queue # <<>>
    /\ npc # "idle" /\ ~peek => queue # <<>> /\ queue[1].size <= buflen

\* Every message is an answer whose header is looked at, none is an error, and
\* the numbers do not wrap.
Straight ==
    ~how.errors /\ ~how.events /\ ~how.nohdr /\ MaxSend < Wrap \div 2

\* Then rcvseq is the number that follows that of the last answer.
InSequence ==
    /\ how.nohdr => ~wronged
    /\ Straight =>
        /\ sndseq = sent
        /\ lastseq \in -1 .. sent - 1 /\ rcvseq = lastseq + 1
        /\ \A i \in 1 .. Len(queue) : queue[i].seq \in 0 .. sent - 1
        /\ ~wronged

\* The use in which every buffer is freed.
Tidy == ~how.timed /\ (~how.odd \/ how.nohdr)

FnlInv ==
    /\ FnlTypeOK /\ Queued /\ Losses /\ Fits /\ InSequence
    /\ Tidy => NoLeak

LEMMA FnlBegins == FnlInit => FnlInv
<1> SUFFICES ASSUME FnlInit PROVE FnlInv
  OBVIOUS
<1> USE FnlAssumption DEF FnlInit
<1>1. Len(queue) = 0 /\ queue \in Seq(Msg)
  OBVIOUS
<1>2. FnlTypeOK
  <2>1. sndseq \in Int /\ rcvseq \in Int /\ lastseq \in Int /\ buflen \in Nat
    OBVIOUS
  <2>2. sent \in 0 .. MaxSend
    OBVIOUS
  <2>3. fate \in [1 .. MaxSend -> Fates]
    BY DEF Fates
  <2>4. /\ enobufs \in BOOLEAN /\ congested \in BOOLEAN
        /\ peek \in BOOLEAN /\ wronged \in BOOLEAN
    OBVIOUS
  <2> QED
    BY <1>1, <2>1, <2>2, <2>3, <2>4 DEF FnlTypeOK
<1>3. Queued /\ Losses /\ Fits /\ NoLeak
  BY <1>1 DEF Queued, Losses, Fits, NoLeak
<1>4. InSequence
  BY <1>1 DEF InSequence
<1> QED
  BY <1>2, <1>3, <1>4 DEF FnlInv

\* A number that is far enough from the wrap is itself.
LEMMA SmallNumber ==
    ASSUME NEW x \in Nat, x < Wrap \div 2
    PROVE  x % Wrap = x /\ ToInt(x) = x
<1>1. x < Wrap /\ Wrap > 0 /\ Wrap \in Nat
  BY FnlAssumption
<1>2. x % Wrap = x
  BY <1>1
<1> QED
  BY <1>1, <1>2 DEF ToInt

LEMMA NumbersAreInts ==
    ASSUME NEW x \in Int
    PROVE  x % Wrap \in 0 .. Wrap - 1 /\ ToInt(x) \in Int
<1>1. Wrap \in Nat /\ Wrap > 0
  BY FnlAssumption
<1>2. x % Wrap \in 0 .. Wrap - 1
  BY <1>1
<1> QED
  BY <1>1, <1>2 DEF ToInt

\* The kernel sends a message: it is the youngest, in the queue or lost.
LEMMA FnlArrives ==
    ASSUME FnlInv, NEW seq \in Int, Arrives(seq), sndseq' \in Int,
           Straight => sndseq' = sent + 1 /\ seq = sent
    PROVE  FnlInv'
<1> DEFINE n == sent + 1
<1>1. /\ sent < MaxSend /\ sent' = n
      /\ UNCHANGED <<rcvseq, npc, buflen, peek, started, bufs, lastseq, wronged, how>>
  BY DEF Arrives
<1>2. /\ sent \in Nat /\ n \in 1 .. MaxSend /\ MaxSend \in Nat
      /\ fate[n] = "none" /\ fate \in [1 .. MaxSend -> Fates]
      /\ queue \in Seq(Msg) /\ Len(queue) \in Nat
      /\ \A i \in 1 .. Len(queue) : queue[i] \in Msg /\ queue[i].no \in 1 .. sent
  BY <1>1, FnlAssumption DEF FnlInv, FnlTypeOK, Queued
<1>4. CASE /\ ~congested /\ Len(queue) < Room
           /\ \E size \in Sizes, kind \in Kinds :
                 queue' = Append(queue, [no |-> n, seq |-> seq,
                                         size |-> size, kind |-> kind])
           /\ fate' = [fate EXCEPT ![n] = "queued"]
           /\ UNCHANGED <<enobufs, congested>>
  <2>0. PICK size \in Sizes, kind \in Kinds :
           queue' = Append(queue, [no |-> n, seq |-> seq, size |-> size, kind |-> kind])
    BY <1>4
  <2> DEFINE m == [no |-> n, seq |-> seq, size |-> size, kind |-> kind]
  <2>1. /\ queue' = Append(queue, m) /\ fate' = [fate EXCEPT ![n] = "queued"]
        /\ UNCHANGED <<enobufs, congested>> /\ ~congested
    BY <1>4, <2>0
  <2>2. m \in Msg /\ m.no = n /\ m.seq = seq /\ m.kind \in Kinds
    <3>1. size \in Nat /\ n \in Nat
      BY <1>2, FnlAssumption
    <3>2. kind \in {"plain", "error", "odd"}
      BY DEF Kinds
    <3>3. m \in Msg
      BY <3>1, <3>2 DEF Msg
    <3> QED
      BY <3>3
  <2> HIDE DEF m
  <2>3. /\ queue' \in Seq(Msg) /\ Len(queue') = Len(queue) + 1
        /\ \A i \in 1 .. Len(queue) : queue'[i] = queue[i]
        /\ queue'[Len(queue) + 1] = m
    BY <1>2, <2>1, <2>2
  <2>4. /\ fate' \in [1 .. MaxSend -> Fates] /\ fate'[n] = "queued"
        /\ \A k \in 1 .. MaxSend : k # n => fate'[k] = fate[k]
    BY <1>2, <2>1 DEF Fates
  <2>5. FnlTypeOK'
    BY <1>1, <1>2, <2>1, <2>3, <2>4 DEF FnlInv, FnlTypeOK
  <2>6. \A i \in 1 .. Len(queue') : i \in 1 .. Len(queue) \/ i = Len(queue) + 1
    BY <1>2, <2>3
  <2>7. Queued'
    <3>1. ASSUME NEW i \in 1 .. Len(queue')
          PROVE  /\ queue'[i].no \in 1 .. sent' /\ fate'[queue'[i].no] = "queued"
                 /\ queue'[i].kind \in Kinds
      <4>1. CASE i \in 1 .. Len(queue)
        <5>1. queue'[i] = queue[i] /\ queue[i].no \in 1 .. sent
              /\ fate[queue[i].no] = "queued" /\ queue[i].kind \in Kinds
          BY <2>3, <4>1 DEF FnlInv, Queued
        <5> QED
          BY <1>1, <1>2, <2>4, <5>1
      <4>2. CASE i = Len(queue) + 1
        BY <1>1, <1>2, <2>2, <2>3, <2>4, <4>2
      <4> QED
        BY <2>6, <4>1, <4>2
    <3>2. ASSUME NEW i \in 1 .. Len(queue'), NEW j \in 1 .. Len(queue'), i < j
          PROVE  queue'[i].no < queue'[j].no
      <4>1. i \in 1 .. Len(queue)
        BY <1>2, <2>3, <3>2
      <4>2. CASE j \in 1 .. Len(queue)
        BY <2>3, <3>2, <4>1, <4>2 DEF FnlInv, Queued
      <4>3. CASE j = Len(queue) + 1
        <5>1. queue'[i].no \in 1 .. sent /\ queue'[j].no = n
          BY <1>2, <2>2, <2>3, <4>1, <4>3
        <5>2. sent \in Nat
          BY <1>2
        <5> QED
          BY <5>1, <5>2
      <4> QED
        BY <2>6, <4>2, <4>3
    <3>3. ASSUME NEW k \in 1 .. MaxSend
          PROVE  /\ k > sent' => fate'[k] = "none"
                 /\ fate'[k] = "queued" => \E i \in 1 .. Len(queue') : queue'[i].no = k
                 /\ fate'[k] = "got" => \A i \in 1 .. Len(queue') : queue'[i].no > k
      <4>1. CASE k = n
        <5>1. Len(queue) + 1 \in 1 .. Len(queue')
          BY <1>2, <2>3
        <5>2. \E i \in 1 .. Len(queue') : queue'[i].no = k
          BY <2>2, <2>3, <4>1, <5>1
        <5>3. ~(k > sent')
          BY <1>1, <1>2, <4>1
        <5>4. fate'[k] = "queued"
          BY <2>4, <4>1
        <5> QED
          BY <5>2, <5>3, <5>4
      <4>2. CASE k # n
        <5>1. fate'[k] = fate[k] /\ (k > sent => fate[k] = "none")
          BY <2>4, <4>2 DEF FnlInv, Queued
        <5>2. fate[k] = "queued" => \E i \in 1 .. Len(queue') : queue'[i].no = k
          <6>1. SUFFICES ASSUME fate[k] = "queued"
                         PROVE  \E i \in 1 .. Len(queue') : queue'[i].no = k
            OBVIOUS
          <6>2. PICK i \in 1 .. Len(queue) : queue[i].no = k
            BY <6>1 DEF FnlInv, Queued
          <6>3. i \in 1 .. Len(queue')
            BY <1>2, <2>3
          <6>4. queue'[i].no = k
            BY <2>3, <6>2
          <6> QED
            BY <6>3, <6>4
        <5>3. fate[k] = "got" => \A i \in 1 .. Len(queue') : queue'[i].no > k
          <6>1. SUFFICES ASSUME fate[k] = "got", NEW i \in 1 .. Len(queue')
                         PROVE  queue'[i].no > k
            OBVIOUS
          <6>2. k <= sent
            BY <1>2, <5>1, <6>1
          <6>3. CASE i \in 1 .. Len(queue)
            BY <2>3, <6>1, <6>3 DEF FnlInv, Queued
          <6>4. CASE i = Len(queue) + 1
            BY <1>2, <2>2, <2>3, <6>2, <6>4
          <6> QED
            BY <2>6, <6>3, <6>4
        <5> QED
          BY <1>1, <1>2, <5>1, <5>2, <5>3
      <4> QED
        BY <4>1, <4>2
    <3>4. Kinds' = Kinds
      BY <1>1 DEF Kinds
    <3> QED
      BY <3>1, <3>2, <3>3, <3>4 DEF Queued
  <2>8. Losses'
    <3>1. ASSUME NEW k \in 1 .. MaxSend, fate'[k] = "silent"
          PROVE  \E j \in 1 .. k - 1 : /\ fate'[j] \in {"lost", "told"}
                                       /\ \A i \in j + 1 .. k : fate'[i] = "silent"
      <4>1. k # n /\ fate[k] = "silent"
        BY <2>4, <3>1
      <4>2. PICK j \in 1 .. k - 1 : /\ fate[j] \in {"lost", "told"}
                                    /\ \A i \in j + 1 .. k : fate[i] = "silent"
        BY <4>1 DEF FnlInv, Losses
      <4>3. j \in 1 .. MaxSend /\ j + 1 .. k \subseteq 1 .. MaxSend
        BY <1>2
      <4>4. fate'[j] = fate[j] /\ \A i \in j + 1 .. k : fate'[i] = fate[i]
        BY <1>2, <2>4, <4>2, <4>3
      <4> QED
        BY <4>2, <4>4
    <3>2. \A k \in 1 .. MaxSend : fate'[k] = "lost" => enobufs'
      BY <2>1, <2>4 DEF FnlInv, Losses
    <3>3. \A k, l \in 1 .. MaxSend : k < l /\ fate'[k] = "lost" => fate'[l] # "got"
      BY <2>4 DEF FnlInv, Losses
    <3> QED
      BY <2>1, <3>1, <3>2, <3>3 DEF Losses
  <2>9. Fits'
    <3>1. queue # <<>> => queue' # <<>> /\ queue'[1] = queue[1]
      BY <1>2, <2>3
    <3> QED
      BY <1>1, <3>1 DEF FnlInv, Fits
  <2>10. InSequence'
    <3>1. SUFFICES ASSUME Straight
                   PROVE  /\ sndseq' = sent' /\ lastseq \in -1 .. sent' - 1
                          /\ rcvseq = lastseq + 1 /\ ~wronged
                          /\ \A i \in 1 .. Len(queue') : queue'[i].seq \in 0 .. sent' - 1
      BY <1>1 DEF InSequence, Straight, FnlInv
    <3>2. /\ lastseq \in -1 .. sent - 1 /\ rcvseq = lastseq + 1 /\ ~wronged
          /\ \A i \in 1 .. Len(queue) : queue[i].seq \in 0 .. sent - 1
      BY <3>1 DEF FnlInv, InSequence
    <3>3. sndseq' = sent' /\ sent' = sent + 1 /\ sent \in Nat
      BY <1>1, <1>2, <3>1
    <3>4. ASSUME NEW i \in 1 .. Len(queue')
          PROVE  queue'[i].seq \in 0 .. sent' - 1
      <4>1. CASE i \in 1 .. Len(queue)
        <5>1. queue'[i] = queue[i] /\ queue[i].seq \in 0 .. sent - 1
          BY <2>3, <3>2, <4>1
        <5> QED
          BY <3>3, <5>1
      <4>2. CASE i = Len(queue) + 1
        BY <1>1, <1>2, <2>2, <2>3, <3>1, <3>3, <4>2
      <4> QED
        BY <2>6, <4>1, <4>2
    <3> QED
      BY <3>2, <3>3, <3>4
  <2> QED
    BY <1>1, <2>5, <2>7, <2>8, <2>9, <2>10 DEF FnlInv, NoLeak, Tidy
<1>5. ASSUME NEW f \in {"lost", "silent"}, fate' = [fate EXCEPT ![n] = f],
             UNCHANGED queue, congested' = TRUE, enobufs' \in BOOLEAN,
             enobufs => enobufs', f = "lost" => enobufs', f = "silent" => congested
      PROVE  FnlInv'
  <2>2. /\ fate' \in [1 .. MaxSend -> Fates] /\ fate'[n] = f
        /\ \A k \in 1 .. MaxSend : k # n => fate'[k] = fate[k]
    BY <1>2, <1>5 DEF Fates
  <2>3. FnlTypeOK'
    BY <1>1, <1>2, <1>5, <2>2 DEF FnlInv, FnlTypeOK
  <2>4. Queued'
    <3>0. Kinds' = Kinds
      BY <1>1 DEF Kinds
    <3>1. \A i \in 1 .. Len(queue) :
             /\ queue[i].no \in 1 .. sent' /\ fate'[queue[i].no] = "queued"
             /\ queue[i].kind \in Kinds
      BY <1>1, <1>2, <2>2 DEF FnlInv, Queued
    <3>2. \A k \in 1 .. MaxSend :
            /\ k > sent' => fate'[k] = "none"
            /\ fate'[k] = "queued" => \E i \in 1 .. Len(queue) : queue[i].no = k
            /\ fate'[k] = "got" => \A i \in 1 .. Len(queue) : queue[i].no > k
      BY <1>1, <1>2, <2>2 DEF FnlInv, Queued
    <3>3. \A i, j \in 1 .. Len(queue) : i < j => queue[i].no < queue[j].no
      BY DEF FnlInv, Queued
    <3> QED
      BY <1>5, <3>0, <3>1, <3>2, <3>3 DEF Queued
  <2>5. Losses'
    <3>1. \A k \in 1 .. MaxSend : k > n => fate'[k] = "none"
      BY <1>2, <2>2 DEF FnlInv, Queued
    <3>2. \A k, l \in 1 .. MaxSend : k < l /\ fate'[k] = "lost" => fate'[l] # "got"
      BY <1>2, <2>2, <3>1 DEF FnlInv, Losses
    <3>3. \A k \in 1 .. MaxSend : fate'[k] = "lost" => enobufs'
      BY <1>5, <2>2 DEF FnlInv, Losses
    <3>4. ASSUME NEW k \in 1 .. MaxSend, k # n, fate[k] = "silent"
          PROVE  \E j \in 1 .. k - 1 : /\ fate'[j] \in {"lost", "told"}
                                       /\ \A i \in j + 1 .. k : fate'[i] = "silent"
      <4>1. PICK j \in 1 .. k - 1 : /\ fate[j] \in {"lost", "told"}
                                    /\ \A i \in j + 1 .. k : fate[i] = "silent"
        BY <3>4 DEF FnlInv, Losses
      <4>2. j \in 1 .. MaxSend /\ j + 1 .. k \subseteq 1 .. MaxSend
        BY <1>2
      <4>3. fate'[j] = fate[j] /\ \A i \in j + 1 .. k : fate'[i] = fate[i]
        BY <1>2, <2>2, <4>1, <4>2
      <4> QED
        BY <4>1, <4>3
    <3>5. ASSUME fate'[n] = "silent"
          PROVE  \E j \in 1 .. n - 1 : /\ fate'[j] \in {"lost", "told"}
                                       /\ \A i \in j + 1 .. n : fate'[i] = "silent"
      <4>1. sent >= 1 /\ fate[sent] \in {"lost", "told", "silent"} /\ n - 1 = sent
        BY <1>2, <1>5, <2>2, <3>5 DEF FnlInv, Losses
      <4>2. sent \in 1 .. MaxSend /\ sent # n /\ fate'[sent] = fate[sent]
        BY <1>2, <2>2, <4>1
      <4>3. CASE fate[sent] # "silent"
        <5>1. \A i \in sent + 1 .. n : fate'[i] = "silent"
          BY <1>2, <3>5
        <5>2. sent \in 1 .. n - 1
          BY <4>1, <4>2
        <5> QED
          BY <4>1, <4>2, <4>3, <5>1, <5>2
      <4>4. CASE fate[sent] = "silent"
        <5>1. PICK j \in 1 .. sent - 1 : /\ fate'[j] \in {"lost", "told"}
                                         /\ \A i \in j + 1 .. sent : fate'[i] = "silent"
          BY <3>4, <4>2, <4>4
        <5>2. j \in 1 .. n - 1 /\ \A i \in j + 1 .. n : i \in j + 1 .. sent \/ i = n
          BY <1>2, <4>1
        <5> QED
          BY <3>5, <5>1, <5>2
      <4> QED
        BY <4>3, <4>4
    <3>6. ASSUME NEW k \in 1 .. MaxSend, fate'[k] = "silent"
          PROVE  \E j \in 1 .. k - 1 : /\ fate'[j] \in {"lost", "told"}
                                       /\ \A i \in j + 1 .. k : fate'[i] = "silent"
      BY <2>2, <3>4, <3>5, <3>6
    <3>7. sent' >= 1 /\ fate'[sent'] \in {"lost", "told", "silent"}
      BY <1>1, <1>2, <2>2
    <3> QED
      BY <3>2, <3>3, <3>6, <3>7 DEF Losses
  <2>6. Fits'
    BY <1>1, <1>5 DEF FnlInv, Fits
  <2>7. InSequence'
    <3>1. SUFFICES ASSUME Straight
                   PROVE  /\ sndseq' = sent' /\ lastseq \in -1 .. sent' - 1
                          /\ rcvseq = lastseq + 1 /\ ~wronged
                          /\ \A i \in 1 .. Len(queue) : queue[i].seq \in 0 .. sent' - 1
      BY <1>1, <1>5 DEF InSequence, Straight, FnlInv
    <3>2. /\ lastseq \in -1 .. sent - 1 /\ rcvseq = lastseq + 1 /\ ~wronged
          /\ \A i \in 1 .. Len(queue) : queue[i].seq \in 0 .. sent - 1
      BY <3>1 DEF FnlInv, InSequence
    <3> QED
      BY <1>1, <1>2, <3>1, <3>2
  <2> QED
    BY <1>1, <2>3, <2>4, <2>5, <2>6, <2>7 DEF FnlInv, NoLeak, Tidy
<1>6. \/ /\ ~congested /\ Len(queue) < Room
         /\ \E size \in Sizes, kind \in Kinds :
               queue' = Append(queue, [no |-> n, seq |-> seq,
                                       size |-> size, kind |-> kind])
         /\ fate' = [fate EXCEPT ![n] = "queued"]
         /\ UNCHANGED <<enobufs, congested>>
      \/ /\ enobufs' = TRUE /\ congested' = TRUE
         /\ fate' = [fate EXCEPT ![n] = "lost"]
         /\ UNCHANGED queue
      \/ /\ congested
         /\ fate' = [fate EXCEPT ![n] = "silent"]
         /\ UNCHANGED <<queue, enobufs, congested>>
  BY <1>1 DEF Arrives
<1>7. CASE /\ enobufs' = TRUE /\ congested' = TRUE
           /\ fate' = [fate EXCEPT ![n] = "lost"]
           /\ UNCHANGED queue
  BY <1>5, <1>7
<1>8. CASE /\ congested
           /\ fate' = [fate EXCEPT ![n] = "silent"]
           /\ UNCHANGED <<queue, enobufs, congested>>
  <2>1. congested' = TRUE /\ enobufs' \in BOOLEAN
    BY <1>8 DEF FnlInv, FnlTypeOK
  <2> QED
    BY <1>5, <1>8, <2>1
<1> QED
  BY <1>4, <1>6, <1>7, <1>8

LEMMA FnlSends ==
    ASSUME FnlInv, Send
    PROVE  FnlInv'
<1>1. sndseq' = ToInt(sndseq + 1) /\ Arrives(sndseq % Wrap) /\ sent < MaxSend
  BY DEF Send, Arrives
<1>2. sndseq + 1 \in Int /\ sndseq \in Int /\ sent \in Nat /\ MaxSend \in Nat
  BY FnlAssumption DEF FnlInv, FnlTypeOK
<1>3. sndseq' \in Int /\ sndseq % Wrap \in Int
  BY <1>1, <1>2, NumbersAreInts, FnlAssumption
<1>4. ASSUME Straight
      PROVE  sndseq' = sent + 1 /\ sndseq % Wrap = sent
  <2>1. sndseq = sent
    BY <1>4 DEF FnlInv, InSequence
  <2>2. sent < Wrap \div 2 /\ sent + 1 < Wrap \div 2 /\ sent + 1 \in Nat
    BY <1>1, <1>2, <1>4, FnlAssumption DEF Straight
  <2> QED
    BY <1>1, <1>2, <2>1, <2>2, SmallNumber
<1> QED
  BY <1>1, <1>3, <1>4, FnlArrives

LEMMA FnlEvent ==
    ASSUME FnlInv, Event
    PROVE  FnlInv'
<1>1. how.events /\ sndseq' = sndseq /\ Arrives(0) /\ sndseq \in Int
  BY DEF Event, FnlInv, FnlTypeOK
<1>2. ~Straight
  BY <1>1 DEF Straight
<1> QED
  BY <1>1, <1>2, FnlArrives

\* A step of fnl_recv2 that takes nothing from the queue.
LEMMA FnlStays ==
    ASSUME FnlInv, UNCHANGED <<socket, fate, rcvseq, lastseq, wronged, enobufs>>,
           npc' \in {"wait", "read"}, buflen' \in Nat, peek' \in BOOLEAN, Fits'
    PROVE  FnlInv'
<1>1. /\ UNCHANGED <<sndseq, queue, congested, sent, how>>
      /\ UNCHANGED <<fate, rcvseq, lastseq, wronged, enobufs>>
  BY DEF socket
<1>2. FnlTypeOK'
  BY <1>1 DEF FnlInv, FnlTypeOK
<1>3. Queued' /\ Losses'
  <2>1. Kinds' = Kinds
    BY <1>1 DEF Kinds
  <2>2. Queued'
    BY <1>1, <2>1 DEF FnlInv, Queued
  <2>3. Losses'
    BY <1>1 DEF FnlInv, Losses
  <2> QED
    BY <2>2, <2>3
<1>4. InSequence'
  BY <1>1 DEF FnlInv, InSequence, Straight
<1> QED
  BY <1>2, <1>3, <1>4 DEF FnlInv, NoLeak

LEMMA FnlWaits ==
    ASSUME FnlInv, Recv \/ Ready \/ Interrupted \/ Grow \/ Peeked
    PROVE  FnlInv'
<1> USE DEF FnlInv, FnlTypeOK, Fits, socket
<1>1. CASE Recv
  BY <1>1, FnlStays DEF Recv
<1>2. CASE Ready
  BY <1>2, FnlStays DEF Ready
<1>3. CASE Interrupted
  BY <1>3, FnlStays DEF Interrupted, Retry
<1>4. CASE Grow
  BY <1>4, FnlStays DEF Grow, Retry
<1>5. CASE Peeked
  <2>1. queue # <<>> /\ queue[1].size <= buflen
    BY <1>5 DEF Peeked
  <2> QED
    BY <1>5, <2>1, FnlStays DEF Peeked, Retry
<1> QED
  BY <1>1, <1>2, <1>3, <1>4, <1>5

\* A call fails; of losses it may tell.
LEMMA FnlFails ==
    ASSUME FnlInv, NEW left, Fails(left), enobufs' \in BOOLEAN,
           \/ UNCHANGED <<fate, enobufs>>
           \/ Tell,
           Tidy => "control" \notin left
    PROVE  FnlInv'
<1>1. /\ npc' = "idle" /\ bufs' = left
      /\ UNCHANGED <<sndseq, queue, congested, sent, how>>
      /\ UNCHANGED <<rcvseq, lastseq, wronged, buflen, peek>>
  BY DEF Fails, socket
<1>2. /\ fate' \in [1 .. MaxSend -> Fates]
      /\ \A n \in 1 .. MaxSend :
            /\ fate'[n] = fate[n] \/ (fate[n] = "lost" /\ fate'[n] = "told")
            /\ fate'[n] = "lost" => fate[n] = "lost" /\ enobufs'
  <2>1. fate \in [1 .. MaxSend -> Fates]
    BY DEF FnlInv, FnlTypeOK
  <2>2. CASE UNCHANGED <<fate, enobufs>>
    BY <2>1, <2>2 DEF FnlInv, Losses
  <2>3. CASE Tell
    <3>1. /\ fate' = [n \in 1 .. MaxSend |-> IF fate[n] = "lost" THEN "told" ELSE fate[n]]
          /\ \A n \in 1 .. MaxSend : fate'[n] = IF fate[n] = "lost" THEN "told" ELSE fate[n]
      BY <2>3 DEF Tell
    <3>2. \A n \in 1 .. MaxSend : fate'[n] \in Fates
      BY <2>1, <3>1 DEF Fates
    <3>3. fate' \in [1 .. MaxSend -> Fates]
      BY <3>1, <3>2
    <3>4. ASSUME NEW n \in 1 .. MaxSend
          PROVE  /\ fate'[n] = fate[n] \/ (fate[n] = "lost" /\ fate'[n] = "told")
                 /\ fate'[n] # "lost"
      BY <3>1
    <3> QED
      BY <3>3, <3>4
  <2> QED
    BY <2>2, <2>3
<1>3. FnlTypeOK'
  BY <1>1, <1>2 DEF FnlInv, FnlTypeOK
<1>4. Queued'
  <2>0. Kinds' = Kinds
    BY <1>1 DEF Kinds
  <2>1. sent \in 0 .. MaxSend /\ MaxSend \in Nat
    BY FnlAssumption DEF FnlInv, FnlTypeOK
  <2>2. \A i \in 1 .. Len(queue) :
           /\ queue[i].no \in 1 .. sent /\ fate'[queue[i].no] = "queued"
           /\ queue[i].kind \in Kinds
    BY <1>2, <2>1 DEF FnlInv, Queued
  <2>3. \A n \in 1 .. MaxSend :
          /\ n > sent => fate'[n] = "none"
          /\ fate'[n] = "queued" => \E i \in 1 .. Len(queue) : queue[i].no = n
          /\ fate'[n] = "got" => \A i \in 1 .. Len(queue) : queue[i].no > n
    BY <1>2 DEF FnlInv, Queued
  <2> QED
    BY <1>1, <2>0, <2>2, <2>3 DEF FnlInv, Queued
<1>5. Losses'
  <2>1. \A k, n \in 1 .. MaxSend : k < n /\ fate'[k] = "lost" => fate'[n] # "got"
    BY <1>2 DEF FnlInv, Losses
  <2>2. ASSUME NEW k \in 1 .. MaxSend, fate'[k] = "silent"
        PROVE  \E j \in 1 .. k - 1 : /\ fate'[j] \in {"lost", "told"}
                                     /\ \A i \in j + 1 .. k : fate'[i] = "silent"
    <3>1. fate[k] = "silent"
      BY <1>2, <2>2
    <3>2. PICK j \in 1 .. k - 1 : /\ fate[j] \in {"lost", "told"}
                                  /\ \A i \in j + 1 .. k : fate[i] = "silent"
      BY <3>1 DEF FnlInv, Losses
    <3>3. j \in 1 .. MaxSend /\ j + 1 .. k \subseteq 1 .. MaxSend
      BY FnlAssumption
    <3>4. fate'[j] \in {"lost", "told"} /\ \A i \in j + 1 .. k : fate'[i] = "silent"
      BY <1>2, <3>2, <3>3
    <3> QED
      BY <3>4
  <2>3. congested' => sent' >= 1 /\ fate'[sent'] \in {"lost", "told", "silent"}
    <3>1. sent \in 0 .. MaxSend
      BY DEF FnlInv, FnlTypeOK
    <3>2. congested => sent >= 1 /\ fate[sent] \in {"lost", "told", "silent"}
      BY DEF FnlInv, Losses
    <3> QED
      BY <1>1, <1>2, <3>1, <3>2
  <2> QED
    BY <1>2, <2>1, <2>2, <2>3 DEF Losses
<1>6. Fits'
  BY <1>1 DEF Fits
<1>7. InSequence'
  BY <1>1 DEF FnlInv, InSequence, Straight
<1> QED
  BY <1>1, <1>3, <1>4, <1>5, <1>6, <1>7 DEF FnlInv, NoLeak, Tidy

LEMMA FnlErrors ==
    ASSUME FnlInv, NoMem \/ FnlTimeOut \/ Overrun \/ Late
    PROVE  FnlInv'
<1> USE DEF FnlInv, FnlTypeOK
<1>1. CASE NoMem
  BY <1>1, FnlFails DEF NoMem
<1>2. CASE FnlTimeOut
  BY <1>2, FnlFails DEF FnlTimeOut
<1>3. CASE Overrun
  BY <1>3, FnlFails DEF Overrun
<1>4. CASE Late
  BY <1>4, FnlFails DEF Late, Tidy
<1> QED
  BY <1>1, <1>2, <1>3, <1>4

\* The oldest message is taken.
LEMMA FnlTakes ==
    ASSUME FnlInv, Take
    PROVE  FnlInv'
<1> DEFINE m == queue[1]
           error == ~how.nohdr /\ m.kind = "error"
           misnumbered == ~how.nohdr /\ ~error /\ how.seqchk /\ m.seq # rcvseq
           odd == ~how.nohdr /\ m.kind = "odd"
<1>1. /\ npc = "read" /\ ~enobufs /\ ~peek
      /\ queue # <<>> /\ m.size <= buflen /\ queue \in Seq(Msg)
      /\ UNCHANGED <<sndseq, sent, enobufs, buflen, peek, started, how>>
  BY DEF Take, FnlInv, FnlTypeOK, Fits
<1>2. Len(queue) \in Nat /\ Len(queue) >= 1 /\ Head(queue) = m /\ m \in Msg
  BY <1>1
<1>3. /\ queue' = Tail(queue)
      /\ congested' = (congested /\ Tail(queue) # <<>>)
      /\ lastseq' = m.seq /\ npc' = "idle"
      /\ IF how.nohdr \/ error THEN UNCHANGED rcvseq ELSE CheckSeq(m.seq)
      /\ wronged' = (wronged \/ (misnumbered /\ m.seq = (lastseq + 1) % Wrap))
      /\ \/ bufs' = {} /\ fate' = [fate EXCEPT ![m.no] = "refused"]
         \/ odd /\ fate' = [fate EXCEPT ![m.no] = "refused"] /\ UNCHANGED bufs
         \/ /\ bufs' = {"msg"}
            /\ fate' = [fate EXCEPT ![m.no] = IF m.size > buflen THEN "cut" ELSE "got"]
  BY <1>2 DEF Take
<1>4. /\ m.no \in 1 .. sent /\ m.no \in 1 .. MaxSend /\ m.no \in Nat
      /\ m.size \in Nat /\ m.seq \in Int /\ m.kind \in Kinds
      /\ sent \in 0 .. MaxSend /\ MaxSend \in Nat /\ buflen \in Nat
      /\ fate \in [1 .. MaxSend -> Fates]
  BY <1>2, FnlAssumption DEF FnlInv, FnlTypeOK, Queued, Msg
<1>5. /\ queue' \in Seq(Msg) /\ Len(queue') = Len(queue) - 1 /\ Len(queue') \in Nat
      /\ \A i \in 1 .. Len(queue') : i + 1 \in 1 .. Len(queue) /\ queue'[i] = queue[i + 1]
  BY <1>1, <1>2, <1>3
<1>6. \A n \in 1 .. MaxSend : fate[n] # "lost"
  BY <1>1 DEF FnlInv, Losses
<1>7. /\ fate' \in [1 .. MaxSend -> Fates]
      /\ fate'[m.no] \in {"refused", "got"}
      /\ \A n \in 1 .. MaxSend : n # m.no => fate'[n] = fate[n]
  <2>1. ~(m.size > buflen)
    BY <1>1, <1>4
  <2>2. PICK f \in {"refused", "got"} : fate' = [fate EXCEPT ![m.no] = f]
    BY <1>3, <2>1
  <2> QED
    BY <1>4, <2>2 DEF Fates
<1>8. rcvseq' \in Int /\ (~how.nohdr /\ ~error => rcvseq' = ToInt(m.seq + 1))
  <2>1. rcvseq \in Int /\ m.seq + 1 \in Int /\ rcvseq + 1 \in Int
    BY <1>4 DEF FnlInv, FnlTypeOK
  <2> QED
    BY <1>3, <1>4, <2>1, NumbersAreInts DEF CheckSeq
<1>9. FnlTypeOK'
  <2>1. wronged' \in BOOLEAN /\ congested' \in BOOLEAN
    BY <1>3
  <2> QED
    BY <1>1, <1>3, <1>4, <1>5, <1>7, <1>8, <2>1 DEF FnlInv, FnlTypeOK
<1>10. \A i \in 1 .. Len(queue') : queue'[i].no > m.no
  <2>1. SUFFICES ASSUME NEW i \in 1 .. Len(queue')
                 PROVE  queue'[i].no > m.no
    OBVIOUS
  <2>2. i + 1 \in 1 .. Len(queue) /\ queue'[i] = queue[i + 1] /\ 1 \in 1 .. Len(queue) /\ 1 < i + 1
    BY <1>2, <1>5
  <2>3. queue[1].no < queue[i + 1].no
    BY <2>2 DEF FnlInv, Queued
  <2>4. queue[i + 1].no \in 1 .. sent
    BY <2>2 DEF FnlInv, Queued
  <2> QED
    BY <1>4, <2>2, <2>3, <2>4
<1>11. Queued'
  <2>1. ASSUME NEW i \in 1 .. Len(queue')
        PROVE  /\ queue'[i].no \in 1 .. sent /\ fate'[queue'[i].no] = "queued"
               /\ queue'[i].kind \in Kinds
    <3>1. queue'[i].no \in 1 .. sent /\ fate[queue'[i].no] = "queued"
          /\ queue'[i].kind \in Kinds
      <4>1. i + 1 \in 1 .. Len(queue) /\ queue'[i] = queue[i + 1]
        BY <1>5
      <4>2. queue[i + 1].no \in 1 .. sent /\ fate[queue[i + 1].no] = "queued"
            /\ queue[i + 1].kind \in Kinds
        BY <4>1 DEF FnlInv, Queued
      <4> QED
        BY <4>1, <4>2
    <3>2. queue'[i].no \in 1 .. MaxSend /\ queue'[i].no # m.no
      BY <1>4, <1>10, <3>1
    <3> QED
      BY <1>7, <3>1, <3>2
  <2>2. ASSUME NEW i \in 1 .. Len(queue'), NEW j \in 1 .. Len(queue'), i < j
        PROVE  queue'[i].no < queue'[j].no
    <3>1. i + 1 < j + 1 /\ i + 1 \in 1 .. Len(queue) /\ j + 1 \in 1 .. Len(queue)
      BY <1>5, <2>2
    <3>2. queue[i + 1].no < queue[j + 1].no
      BY <3>1 DEF FnlInv, Queued
    <3> QED
      BY <1>5, <3>2
  <2>3. ASSUME NEW n \in 1 .. MaxSend
        PROVE  /\ n > sent => fate'[n] = "none"
               /\ fate'[n] = "queued" => \E i \in 1 .. Len(queue') : queue'[i].no = n
               /\ fate'[n] = "got" => \A i \in 1 .. Len(queue') : queue'[i].no > n
    <3>1. CASE n = m.no
      <4>1. ~(n > sent)
        BY <1>4, <3>1
      <4>2. fate'[n] # "queued"
        BY <1>7, <3>1
      <4> QED
        BY <1>10, <3>1, <4>1, <4>2
    <3>2. CASE n # m.no
      <4>1. fate'[n] = fate[n]
        BY <1>7, <3>2
      <4>2. ASSUME fate[n] = "queued"
            PROVE  \E i \in 1 .. Len(queue') : queue'[i].no = n
        <5>1. PICK j \in 1 .. Len(queue) : queue[j].no = n
          BY <4>2 DEF FnlInv, Queued
        <5>2. j # 1
          BY <3>2, <5>1
        <5>3. j - 1 \in 1 .. Len(queue')
          BY <1>2, <1>5, <5>2
        <5>4. queue'[j - 1] = queue[j]
          <6>1. (j - 1) + 1 = j
            OBVIOUS
          <6> QED
            BY <1>5, <5>3, <6>1
        <5> QED
          BY <5>1, <5>3, <5>4
      <4>3. ASSUME fate[n] = "got"
            PROVE  \A i \in 1 .. Len(queue') : queue'[i].no > n
        BY <1>5, <4>3 DEF FnlInv, Queued
      <4>4. n > sent => fate[n] = "none"
        BY DEF FnlInv, Queued
      <4> QED
        BY <4>1, <4>2, <4>3, <4>4
    <3> QED
      BY <3>1, <3>2
  <2>4. Kinds' = Kinds
    BY <1>1 DEF Kinds
  <2> QED
    BY <1>1, <2>1, <2>2, <2>3, <2>4 DEF Queued
<1>12. Losses'
  <2>1. \A n \in 1 .. MaxSend : fate'[n] # "lost"
    BY <1>6, <1>7
  <2>2. fate[m.no] = "queued"
    BY <1>2 DEF FnlInv, Queued
  <2>3. ASSUME NEW k \in 1 .. MaxSend, fate'[k] = "silent"
        PROVE  \E j \in 1 .. k - 1 : /\ fate'[j] \in {"lost", "told"}
                                     /\ \A i \in j + 1 .. k : fate'[i] = "silent"
    <3>1. fate[k] = "silent"
      BY <1>7, <2>3
    <3>2. PICK j \in 1 .. k - 1 : /\ fate[j] \in {"lost", "told"}
                                  /\ \A i \in j + 1 .. k : fate[i] = "silent"
      BY <3>1 DEF FnlInv, Losses
    <3>3. j \in 1 .. MaxSend /\ j + 1 .. k \subseteq 1 .. MaxSend
      BY <1>4
    <3>4. fate'[j] \in {"lost", "told"} /\ \A i \in j + 1 .. k : fate'[i] = "silent"
      BY <1>7, <2>2, <3>2, <3>3
    <3> QED
      BY <3>4
  <2>4. congested' => sent' >= 1 /\ fate'[sent'] \in {"lost", "told", "silent"}
    <3>1. congested => sent >= 1 /\ fate[sent] \in {"lost", "told", "silent"}
      BY DEF FnlInv, Losses
    <3>2. congested' => congested /\ sent' = sent
      BY <1>1, <1>3
    <3> QED
      BY <1>4, <1>7, <2>2, <3>1, <3>2
  <2> QED
    BY <2>1, <2>3, <2>4 DEF Losses
<1>13. Fits'
  BY <1>3 DEF Fits
<1>14. InSequence'
  <2>0. how.nohdr => ~wronged'
    BY <1>3 DEF FnlInv, InSequence
  <2>1. SUFFICES ASSUME Straight
                 PROVE  /\ sndseq = sent /\ lastseq' \in -1 .. sent - 1
                        /\ rcvseq' = lastseq' + 1 /\ ~wronged'
                        /\ \A i \in 1 .. Len(queue') : queue'[i].seq \in 0 .. sent - 1
    BY <1>1, <2>0 DEF InSequence, Straight
  <2>2. /\ sndseq = sent /\ lastseq \in -1 .. sent - 1 /\ rcvseq = lastseq + 1 /\ ~wronged
        /\ \A i \in 1 .. Len(queue) : queue[i].seq \in 0 .. sent - 1
        /\ ~how.nohdr /\ ~how.errors /\ MaxSend < Wrap \div 2
    BY <2>1 DEF FnlInv, InSequence, Straight
  <2>3. m.seq \in 0 .. sent - 1 /\ ~error
    <3>1. m.kind # "error"
      BY <1>4, <2>2 DEF Kinds
    <3> QED
      BY <1>2, <2>2, <3>1
  <2>4. m.seq + 1 \in Nat /\ m.seq + 1 < Wrap \div 2
    BY <1>4, <2>2, <2>3, FnlAssumption
  <2>5. rcvseq' = m.seq + 1
    BY <1>8, <2>2, <2>3, <2>4, SmallNumber
  <2>6. ~wronged'
    <3>1. rcvseq \in Nat /\ rcvseq < Wrap \div 2
      BY <1>4, <2>2, FnlAssumption
    <3>2. (lastseq + 1) % Wrap = rcvseq
      BY <2>2, <3>1, SmallNumber
    <3> QED
      BY <1>3, <2>2, <3>2
  <2>7. \A i \in 1 .. Len(queue') : queue'[i].seq \in 0 .. sent - 1
    BY <1>5, <2>2
  <2>8. lastseq' \in -1 .. sent - 1 /\ rcvseq' = lastseq' + 1
    BY <1>3, <1>4, <2>3, <2>5
  <2> QED
    BY <2>2, <2>6, <2>7, <2>8
<1>15. Tidy' => NoLeak'
  <2>1. Tidy => ~odd
    BY <1>4 DEF Tidy, Kinds
  <2>2. Tidy => bufs' = {} \/ bufs' = {"msg"}
    BY <1>3, <2>1
  <2> QED
    BY <1>1, <2>2 DEF NoLeak, Tidy
<1> QED
  BY <1>9, <1>11, <1>12, <1>13, <1>14, <1>15 DEF FnlInv

LEMMA FnlStutters ==
    ASSUME FnlInv, UNCHANGED fnlVars
    PROVE  FnlInv'
<1>1. /\ UNCHANGED <<sndseq, rcvseq, queue, enobufs, congested, npc, buflen, peek>>
      /\ UNCHANGED <<bufs, sent, fate, lastseq, wronged, how>>
  BY DEF fnlVars
<1>2. Kinds' = Kinds
  BY <1>1 DEF Kinds
<1>3. FnlTypeOK' /\ Queued'
  BY <1>1, <1>2 DEF FnlInv, FnlTypeOK, Queued
<1>4. Losses' /\ Fits'
  BY <1>1 DEF FnlInv, Losses, Fits
<1>5. InSequence' /\ (Tidy' => NoLeak')
  BY <1>1 DEF FnlInv, InSequence, Straight, Tidy, NoLeak
<1> QED
  BY <1>3, <1>4, <1>5 DEF FnlInv

\* fnl_recv2 returns messages whole and in the order in which the kernel sent
\* them, and the error of an overflow before a message from behind the gap; it
\* leaves no buffer that nobody frees unless there is a timeout or a wrong
\* length; and before the numbers wrap it refuses no answer that has the next
\* number, if every message is an answer and none is an error.
THEOREM MessagesArriveWhole == FnlSpec => []FnlSound
<1>1. FnlInit => FnlInv
  BY FnlBegins
<1>2. FnlInv /\ [FnlNext]_fnlVars => FnlInv'
  BY FnlSends, FnlEvent, FnlWaits, FnlErrors, FnlTakes, FnlStutters DEF FnlNext
<1>3. FnlInv => FnlSound
  <2>1. SUFFICES ASSUME FnlInv PROVE FnlSound
    OBVIOUS
  <2>2. ASSUME NEW n \in 1 .. MaxSend
        PROVE  /\ fate[n] # "cut"
               /\ fate[n] = "got" => \A k \in 1 .. n : fate[k] # "queued"
    <3>1. fate[n] # "cut"
      BY <2>1 DEF FnlInv, FnlTypeOK, Fates
    <3>2. ASSUME fate[n] = "got", NEW k \in 1 .. n, fate[k] = "queued"
          PROVE  FALSE
      <4>1. k \in 1 .. MaxSend /\ k <= n
        BY FnlAssumption
      <4>2. PICK i \in 1 .. Len(queue) : queue[i].no = k
        BY <2>1, <3>2, <4>1 DEF FnlInv, Queued
      <4>3. queue[i].no > n
        BY <2>1, <3>2 DEF FnlInv, Queued
      <4> QED
        BY <4>1, <4>2, <4>3
    <3> QED
      BY <3>1, <3>2
  <2>3. Whole
    BY <2>2 DEF Whole
  <2>4. ASSUME NEW k \in 1 .. MaxSend, NEW n \in 1 .. MaxSend, k < n, fate[n] = "got",
               fate[k] \in {"lost", "silent"}
        PROVE  \E j \in 1 .. k : /\ fate[j] = "told"
                                 /\ \A i \in j + 1 .. k : fate[i] = "silent"
    <3>1. fate[k] = "silent"
      BY <2>1, <2>4 DEF FnlInv, Losses
    <3>2. PICK j \in 1 .. k - 1 : /\ fate[j] \in {"lost", "told"}
                                  /\ \A i \in j + 1 .. k : fate[i] = "silent"
      BY <2>1, <3>1 DEF FnlInv, Losses
    <3>3. j \in 1 .. k /\ j \in 1 .. MaxSend /\ j < n
      BY <2>4, FnlAssumption
    <3>4. fate[j] # "lost"
      BY <2>1, <2>4, <3>3 DEF FnlInv, Losses
    <3> QED
      BY <3>2, <3>3, <3>4
  <2>5. LossTold
    BY <2>4 DEF LossTold
  <2>6. ~how.errors /\ ~how.events /\ MaxSend < Wrap \div 2 => AcceptsNext
    BY <2>1 DEF FnlInv, InSequence, Straight, AcceptsNext
  <2> QED
    BY <2>1, <2>3, <2>5, <2>6 DEF FnlInv, Tidy, FnlSound
<1> QED
  BY <1>1, <1>2, <1>3, PTL DEF FnlSpec
=============================================================================
