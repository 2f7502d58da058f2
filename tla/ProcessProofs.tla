----------------------------- MODULE ProcessProofs -----------------------------
(***************************************************************************)
(* Proofs about the programs that are one process: TurnCond for every      *)
(* number of threads and every COUNT_TIMES, with its inductive invariant,  *)
(* the order of the output and the refinement of RoundRobin; CountHalt for *)
(* all COUNT_HALT1 <= COUNT_HALT2 < COUNT_DONE; SummingThreads for arrays  *)
(* of every even length from 8 on; SelectionSort for arrays of any length; *)
(* ArrayFile for every file and wherever num_index starts.                 *)
(***************************************************************************)
EXTENDS ProcessPrograms, FiniteSetTheorems, SequenceTheorems, TLAPS

(* The successor of a thread is a thread, and with two threads the other.  *)
LEMMA SuccessorType == n \in Threads => \A t \in Running : Successor(t) \in Running
BY TurnAssumption DEF Threads, Running, Successor

LEMMA SuccessorOther ==
  ASSUME n \in Threads, n <= 2, NEW t \in Running, NEW u \in Running, u # t
  PROVE  u = Successor(t)
BY TurnAssumption DEF Threads, Running, Successor

(* The program does not change while it runs, nor who comes after whom.    *)
LEMMA SizeFixed == [Next]_vars => n' = n /\ \A t \in Threads : Successor(t)' = Successor(t)
<1> SUFFICES ASSUME [Next]_vars PROVE n' = n
  BY DEF Successor
<1> QED BY DEF Next, Thread, Create, Join, Exited, vars, Lock, Return, SeeTurn, CondWait, Spurious,
               Relock, Printf, PassTurn, Notify, Unlock

LEMMA SizeType == TypeOK => n \in Nat /\ n >= 1 /\ n <= N
BY TurnAssumption DEF TypeOK, Threads

(* A thread beyond the n of the program is never created.                  *)
LEMMA OnlyRunning ==
  ASSUME Created, TypeOK, NEW t \in Threads, pc[t] # "none"
  PROVE  t \in Running
BY TurnAssumption DEF Created, TypeOK, Threads, Running

(* Only one thread is past its lock at a time.                             *)
LEMMA Exclusion ==
  ASSUME HoldsMutex, NEW t \in Threads, NEW u \in Threads,
         pc[t] \in Critical, pc[u] \in Critical
  PROVE  t = u
BY DEF HoldsMutex

(* The thread that main creates next.                                      *)
LEMMA NextCreated == TypeOK /\ joined < n => joined + 1 \in Running /\ joined + 1 \in Threads
                                              /\ joined + 1 \in 0 .. 2 * n
<1> SUFFICES ASSUME joined \in 0 .. 2 * n, joined < n, n \in 1 .. N, N \in Nat
             PROVE  joined + 1 \in 1 .. n /\ joined + 1 \in 1 .. N /\ joined + 1 \in 0 .. 2 * n
  BY TurnAssumption DEF TypeOK, Threads, Running
<1> QED OBVIOUS

-------------------------------------------------------------------------------
LEMMA InitInv == Init => IInv
BY TurnAssumption DEF Init, IInv, TypeOK, Threads, Running, PCs, Critical, HoldsMutex, KeepsTurn,
                      Waiting, Created, Counting, NoLostWakeup

(* The types are kept by every step.                                       *)
LEMMA TypeStep == TypeOK /\ Created /\ Counting /\ [Next]_vars => TypeOK'
<1> SUFFICES ASSUME TypeOK, Created, Counting, [Next]_vars PROVE TypeOK'
  OBVIOUS
<1> USE TurnAssumption DEF TypeOK, PCs, Critical, Running
<1>1. CASE Create
  BY <1>1, NextCreated DEF Create, Goto
<1>4. CASE Join
  <2>1. joined + 1 \in 0 .. 2 * n BY <1>4, SizeType DEF Join
  <2> QED BY <1>4, <2>1 DEF Join
<1>2. CASE Exited \/ UNCHANGED vars
  BY <1>2 DEF Exited, vars
<1>3. ASSUME NEW t \in Threads, Thread(t) PROVE TypeOK'
  <2>1. CASE Lock(t) \/ Return(t) \/ SeeTurn(t) \/ CondWait(t) \/ Spurious(t)
    BY <2>1 DEF Lock, Return, SeeTurn, CondWait, Spurious, Goto
  <2>2. CASE Relock(t) \/ Printf(t)
    BY <2>2 DEF Relock, Printf, Goto
  <2>3. CASE PassTurn(t)
    BY <2>3, OnlyRunning, SuccessorType DEF PassTurn, Goto
  <2>4. CASE Notify(t)
    BY <2>4 DEF Notify, Goto
  <2>5. CASE Unlock(t)
    BY <2>5 DEF Unlock, Goto, Counting
  <2> QED BY <1>3, <2>1, <2>2, <2>3, <2>4, <2>5 DEF Thread
<1> QED BY <1>1, <1>2, <1>3, <1>4 DEF Next

(* So are the ownership of mtx and of the turn.                            *)
LEMMA OwnershipStep ==
  TypeOK /\ Created /\ HoldsMutex /\ KeepsTurn /\ Waiting /\ Counting /\ [Next]_vars
    => Created' /\ HoldsMutex' /\ KeepsTurn' /\ Waiting' /\ Counting'
<1> SUFFICES ASSUME TypeOK, Created, HoldsMutex, KeepsTurn, Waiting, Counting, [Next]_vars
             PROVE  Created' /\ HoldsMutex' /\ KeepsTurn' /\ Waiting' /\ Counting'
  OBVIOUS
<1>0. Create => joined + 1 \in Threads /\ joined \in Nat
  BY NextCreated DEF Create, TypeOK
<1>n. n' = n /\ (\A t \in Threads : Successor(t)' = Successor(t)) /\ n \in Nat
  BY SizeFixed, SizeType
<1> USE TurnAssumption DEF TypeOK, PCs, Critical, HoldsMutex, KeepsTurn, Waiting, Created, Counting
<1>1. CASE Create
  <2>1. /\ joined + 1 \in Threads /\ joined \in Nat /\ joined' = joined + 1 /\ joined < n
        /\ \A t \in Threads : pc'[t] = IF t = joined + 1 THEN "head" ELSE pc[t]
    BY <1>0, <1>1 DEF Create, Goto
  <2>2. Created'
    <3> SUFFICES ASSUME NEW t \in Threads PROVE pc'[t] = "none" <=> joined + 1 < t \/ n < t
      BY <1>n, <2>1
    <3>1. CASE t = joined + 1 BY <1>n, <2>1, <3>1
    <3>2. CASE t # joined + 1
      <4>1. joined < t <=> joined + 1 < t BY <2>1, <3>2 DEF Threads
      <4> QED BY <2>1, <3>2, <4>1
    <3> QED BY <3>1, <3>2
  <2>3. pc[joined + 1] = "none" BY <2>1
  <2> QED BY <1>1, <1>n, <2>1, <2>2, <2>3 DEF Create, Goto
<1>2. CASE Exited \/ UNCHANGED vars
  BY <1>2, <1>n DEF Exited, vars
<1>4. CASE Join
  <2>1. \A t \in Threads : (joined < t \/ n < t) <=> (joined' < t \/ n < t)
    BY <1>4, <1>n DEF Join, Threads
  <2>2. UNCHANGED <<turn, mtx, waiters, pc, count>> BY <1>4 DEF Join
  <2>3. Created' BY <1>n, <2>1, <2>2
  <2> QED BY <1>n, <2>2, <2>3
<1>3. ASSUME NEW t \in Threads, Thread(t)
      PROVE  Created' /\ HoldsMutex' /\ KeepsTurn' /\ Waiting' /\ Counting'
  <2>0. 0 \notin Threads BY DEF Threads
  <2>n. joined' = joined /\ n' = n
    BY <1>3, <1>n DEF Thread, Lock, Return, SeeTurn, CondWait, Spurious, Relock, Printf, PassTurn,
                      Notify, Unlock
  <2>c. Created'
    <3>1. \A u \in Threads : pc'[u] = "none" <=> pc[u] = "none"
      BY <1>3 DEF Thread, Lock, Return, SeeTurn, CondWait, Spurious, Relock, Printf, PassTurn,
                  Notify, Unlock, Goto
    <3> QED BY <2>n, <3>1
  <2> HIDE DEF Created
  <2>1. CASE Lock(t)     BY <1>n, <2>c, <2>0, <2>1 DEF Lock, Goto
  <2>2. CASE Return(t)   BY <1>n, <2>c, <2>2 DEF Return, Goto
  <2>3. CASE SeeTurn(t)  BY <1>n, <2>c, <2>3 DEF SeeTurn, Goto
  <2>4. CASE CondWait(t) BY <1>n, <2>c, <2>0, <2>4 DEF CondWait, Goto
  <2>5. CASE Spurious(t) BY <1>n, <2>c, <2>5 DEF Spurious
  <2>6. CASE Relock(t)   BY <1>n, <2>c, <2>0, <2>6 DEF Relock, Goto
  <2>7. CASE Printf(t)   BY <1>n, <2>c, <2>7 DEF Printf, Goto
  <2>8. CASE PassTurn(t) BY <1>n, <2>c, <2>8 DEF PassTurn, Goto
  <2>9. CASE Notify(t)   BY <1>n, <2>c, <2>9 DEF Notify, Goto
  <2>10. CASE Unlock(t)  BY <1>n, <2>c, <2>0, <2>10 DEF Unlock, Goto
  <2> QED BY <1>3, <2>1, <2>2, <2>3, <2>4, <2>5, <2>6, <2>7, <2>8, <2>9, <2>10 DEF Thread
<1> QED BY <1>1, <1>2, <1>3, <1>4 DEF Next

(* A signal given to the only possible waiter, or to all of them, leaves   *)
(* nobody asleep whose turn it is.                                         *)
LEMMA WakeupStep ==
  IInv /\ [Next]_vars => NoLostWakeup'
<1> SUFFICES ASSUME IInv, [Next]_vars PROVE NoLostWakeup'
  OBVIOUS
<1> SUFFICES ASSUME NEW s \in Threads, s \in waiters', turn' = s
             PROVE  \E u \in Threads : pc'[u] = "wake"
  <2>1. TypeOK' BY TypeStep DEF IInv
  <2> QED BY <2>1 DEF NoLostWakeup, TypeOK
<1>0. Create => joined + 1 \in Threads
  BY NextCreated DEF Create, IInv
<1> USE TurnAssumption DEF IInv, TypeOK, PCs, Critical, HoldsMutex, KeepsTurn, Waiting, Created,
                           NoLostWakeup
<1>1. CASE Create
  <2>1. joined + 1 \in Threads BY <1>0, <1>1
  <2>2. PICK u \in Threads : pc[u] = "wake" BY <1>1 DEF Create
  <2>3. CASE u # joined + 1 BY <1>1, <2>1, <2>2, <2>3 DEF Create, Goto
  <2>4. CASE u = joined + 1
    BY <1>1, <2>2, <2>4 DEF Create
  <2> QED BY <2>3, <2>4
<1>2. CASE Join \/ Exited \/ UNCHANGED vars
  BY <1>2 DEF Join, Exited, vars
<1>3. ASSUME NEW t \in Threads, Thread(t) PROVE \E u \in Threads : pc'[u] = "wake"
  <2>1. CASE Lock(t) \/ Return(t) \/ SeeTurn(t) \/ Relock(t) \/ Printf(t) \/ Unlock(t)
    <3>1. s \in waiters /\ turn = s
      BY <2>1 DEF Lock, Return, SeeTurn, Relock, Printf, Unlock
    <3>2. PICK u \in Threads : pc[u] = "wake" BY <3>1
    <3>3. pc[t] # "wake"
      BY <2>1 DEF Lock, Return, SeeTurn, Relock, Printf, Unlock
    <3> QED BY <2>1, <3>2, <3>3 DEF Lock, Return, SeeTurn, Relock, Printf, Unlock, Goto
  <2>2. CASE CondWait(t)
    <3>1. s \in waiters /\ turn = s BY <2>2 DEF CondWait
    <3>2. PICK u \in Threads : pc[u] = "wake" BY <3>1
    <3> QED BY <2>2, <3>2 DEF CondWait, Goto
  <2>3. CASE Spurious(t) BY <2>3 DEF Spurious
  <2>4. CASE PassTurn(t) BY <2>4 DEF PassTurn, Goto
  <2>5. CASE Notify(t)
    <3>1. s \in waiters /\ turn = Successor(t) /\ s = Successor(t) /\ pc[s] = "asleep"
      BY <2>5 DEF Notify
    <3>2. waiters' # {} /\ ~Broadcast BY <2>5 DEF Notify
    <3>3. n <= 2 BY <3>2 DEF Broadcast, Threads
    <3>4. waiters \subseteq {s}
      BY <2>5, <3>1, <3>3, OnlyRunning, SuccessorOther DEF Notify
    <3> QED BY <2>5, <3>1, <3>2, <3>4 DEF Notify
  <2> QED BY <1>3, <2>1, <2>2, <2>3, <2>4, <2>5 DEF Thread
<1> QED BY <1>1, <1>2, <1>3 DEF Next

(* The inductive invariant holds for every number of threads when the      *)
(* protocol broadcasts, and for two threads when it signals: the mutex and *)
(* the turn stay with the thread that prints, and no wake-up is lost.      *)
THEOREM InvariantHolds == Spec => []IInv
<1>1. IInv /\ [Next]_vars => IInv'
  BY TypeStep, OwnershipStep, WakeupStep DEF IInv
<1> QED BY <1>1, InitInv, PTL DEF Spec

-------------------------------------------------------------------------------
(* The refinement.  AbstractTurn and Printed change only in Printf.        *)

LEMMA AbstractBefore ==
  ASSUME IInv, NEW t \in Threads, pc[t] = "print"
  PROVE  AbstractTurn = t /\ turn = t /\ Printed(t) = count[t] /\ count[t] < COUNT_TIMES
BY Exclusion DEF IInv, TypeOK, KeepsTurn, Counting, Critical, AbstractTurn, Printed

(* printf adds a line of the thread whose turn it is and hands the turn on. *)
LEMMA PrintfStep ==
  ASSUME IInv, NEW t \in Threads, Printf(t)
  PROVE  /\ AbstractTurn = t
         /\ AbstractTurn' = Successor(t)
         /\ count[t] < COUNT_TIMES
         /\ Printed(t) = count[t]
         /\ Printed(t)' = count[t] + 1
         /\ \A u \in Threads \ {t} : Printed(u)' = Printed(u)
<1>1. pc[t] = "print" /\ turn' = turn /\ count' = count /\ pc' = [pc EXCEPT ![t] = "set"]
  BY DEF Printf, Goto
<1>2. pc \in [Threads -> PCs] BY DEF IInv, TypeOK
<1>3. pc'[t] = "set" BY <1>1, <1>2
<1>4. AbstractTurn' = Successor(t)
  <2>1. n' = n BY DEF Printf
  <2> QED BY <1>1, <1>3, <2>1, AbstractBefore DEF AbstractTurn, Successor
<1>5. Printed(t)' = count[t] + 1 BY <1>1, <1>3 DEF Printed
<1>6. \A u \in Threads \ {t} : Printed(u)' = Printed(u) BY <1>1, <1>2 DEF Printed
<1> QED BY <1>1, <1>4, <1>5, <1>6, AbstractBefore

(* Every other step leaves the abstract state as it is.                    *)
LEMMA StutterStep ==
  ASSUME IInv, IInv', [Next]_vars, \A t \in Threads : ~Printf(t)
  PROVE  AbstractTurn' = AbstractTurn /\ \A u \in Threads : Printed(u)' = Printed(u)
<1>n. n' = n BY SizeFixed
<1> USE DEF IInv, TypeOK
<1>1. CASE Create
  <2>1. joined + 1 \in Threads /\ pc[joined + 1] = "none"
    <3>1. joined < joined + 1 /\ ~(n < joined + 1) BY <1>1, SizeType DEF Create
    <3> QED BY <1>1, <3>1, NextCreated DEF Create, Created
  <2>2. /\ turn' = turn /\ count' = count
        /\ \A u \in Threads : pc'[u] = IF u = joined + 1 THEN "head" ELSE pc[u]
    BY <1>1 DEF Create, Goto
  <2>3. \A u \in Threads : pc'[u] \in {"set", "wake", "unlock"} <=> pc[u] \in {"set", "wake", "unlock"}
    BY <2>1, <2>2
  <2>4. \A u \in Threads : pc'[u] = "set" <=> pc[u] = "set" BY <2>1, <2>2
  <2> QED BY <1>n, <2>2, <2>3, <2>4 DEF AbstractTurn, Printed, Successor
<1>2. CASE Join \/ Exited \/ UNCHANGED vars
  BY <1>2, <1>n DEF Join, Exited, vars, AbstractTurn, Printed, Successor
<1>3. ASSUME NEW t \in Threads,
             \/ Lock(t) \/ Return(t) \/ SeeTurn(t) \/ CondWait(t) \/ Spurious(t)
             \/ Relock(t) \/ Notify(t)
      PROVE  AbstractTurn' = AbstractTurn /\ \A u \in Threads : Printed(u)' = Printed(u)
  <2>1. turn' = turn /\ count' = count
    BY <1>3 DEF Lock, Return, SeeTurn, CondWait, Spurious, Relock, Notify
  <2>2. \A u \in Threads : pc'[u] \in {"set", "wake", "unlock"} <=> pc[u] \in {"set", "wake", "unlock"}
    BY <1>3 DEF Lock, Return, SeeTurn, CondWait, Spurious, Relock, Notify, Goto
  <2>3. \A u \in Threads : pc'[u] = "set" <=> pc[u] = "set"
    BY <1>3 DEF Lock, Return, SeeTurn, CondWait, Spurious, Relock, Notify, Goto
  <2> QED BY <1>n, <2>1, <2>2, <2>3 DEF AbstractTurn, Printed, Successor
<1>4. ASSUME NEW t \in Threads, PassTurn(t)
      PROVE  AbstractTurn' = AbstractTurn /\ \A u \in Threads : Printed(u)' = Printed(u)
  <2>1. /\ pc[t] = "set" /\ turn' = Successor(t) /\ count' = count
        /\ \A u \in Threads : pc'[u] = IF u = t THEN "wake" ELSE pc[u]
    BY <1>4 DEF PassTurn, Goto
  <2>2. turn = t /\ \A u \in Threads : pc[u] = "set" => u = t
    BY <2>1, Exclusion DEF KeepsTurn, Critical
  <2>3. AbstractTurn = Successor(t) BY <2>1, <2>2 DEF AbstractTurn
  <2>4. \A u \in Threads : pc'[u] # "set" BY <2>1, <2>2
  <2>5. AbstractTurn' = Successor(t) BY <2>1, <2>4 DEF AbstractTurn
  <2> QED BY <2>1, <2>3, <2>5 DEF Printed
<1>5. ASSUME NEW t \in Threads, Unlock(t)
      PROVE  AbstractTurn' = AbstractTurn /\ \A u \in Threads : Printed(u)' = Printed(u)
  <2>1. /\ pc[t] = "unlock" /\ turn' = turn
        /\ \A u \in Threads : pc'[u] = IF u = t THEN "head" ELSE pc[u]
        /\ \A u \in Threads : count'[u] = IF u = t THEN count[u] + 1 ELSE count[u]
    BY <1>5 DEF Unlock, Goto
  <2>2. \A u \in Threads : pc'[u] = "set" <=> pc[u] = "set" BY <2>1
  <2>3. AbstractTurn' = AbstractTurn BY <1>n, <2>1, <2>2 DEF AbstractTurn, Successor
  <2> QED BY <2>1, <2>3 DEF Printed
<1> QED BY <1>1, <1>2, <1>3, <1>4, <1>5 DEF Next, Thread

(* Arithmetic of the cyclic order: when the worker t whose line is next    *)
(* prints it, the one line of difference moves on with the turn.           *)
LEMMA CyclicOrder ==
  ASSUME n \in Threads, NEW t \in Running, NEW v \in Running, NEW w \in Running, v < w,
         NEW f \in [Running -> Nat], NEW g \in [Running -> Nat],
         f[v] = f[w] + (IF v < t /\ t <= w THEN 1 ELSE 0),
         g[t] = f[t] + 1, \A u \in Running \ {t} : g[u] = f[u]
  PROVE  g[v] = g[w] + (IF v < Successor(t) /\ Successor(t) <= w THEN 1 ELSE 0)
<1> USE TurnAssumption DEF Threads, Running, Successor
<1>1. CASE v = t
  <2>1. w # t /\ g[w] = f[w] /\ t # n BY <1>1
  <2> QED BY <1>1, <2>1
<1>2. CASE w = t
  <2>1. v # t /\ g[v] = f[v] BY <1>2
  <2> QED BY <1>2, <2>1
<1>3. CASE v # t /\ w # t
  <2>1. g[v] = f[v] /\ g[w] = f[w] BY <1>3
  <2> QED BY <1>3, <2>1
<1> QED BY <1>1, <1>2, <1>3

LEMMA RunningThreads == n \in Threads => \A t \in Running : t \in Threads
BY TurnAssumption DEF Threads, Running

LEMMA PrintfRuns == ASSUME IInv, NEW t \in Threads, Printf(t) PROVE t \in Running
BY OnlyRunning DEF IInv, Printf

LEMMA PrintedType == TypeOK => \A t \in Threads : Printed(t) \in Nat
BY TurnAssumption DEF TypeOK, Printed

(* InStep, with Ring's names replaced.                                     *)
LEMMA InStepMeaning ==
  InStep <=> \A v, w \in Running :
               v < w => Printed(v) = Printed(w)
                          + (IF v < AbstractTurn /\ AbstractTurn <= w THEN 1 ELSE 0)
BY DEF InStep, Ring!InStep, Ring!Workers, Running

LEMMA InStepInit == Init => InStep
<1> SUFFICES ASSUME Init PROVE InStep OBVIOUS
<1>1. AbstractTurn = 1 BY DEF Init, AbstractTurn
<1>2. \A t \in Threads : Printed(t) = 0 BY DEF Init, Printed
<1>3. \A v \in Running : v \in Threads /\ ~(v < 1) BY TurnAssumption DEF Init, Running, Threads
<1> QED BY <1>1, <1>2, <1>3, InStepMeaning

LEMMA InStepStep == IInv /\ IInv' /\ InStep /\ [Next]_vars => InStep'
<1> SUFFICES ASSUME IInv, IInv', InStep, [Next]_vars PROVE InStep' OBVIOUS
<1> SUFFICES ASSUME NEW v \in Running, NEW w \in Running, v < w
             PROVE  Printed(v)' = Printed(w)'
                      + (IF v < AbstractTurn' /\ AbstractTurn' <= w THEN 1 ELSE 0)
  <2>0. n' = n BY SizeFixed
  <2>1. InStep' <=> \A x, y \in Running :
               x < y => Printed(x)' = Printed(y)'
                          + (IF x < AbstractTurn' /\ AbstractTurn' <= y THEN 1 ELSE 0)
    BY <2>0 DEF InStep, Ring!InStep, Ring!Workers, Running
  <2> QED BY <2>1
<1>1. Printed(v) = Printed(w) + (IF v < AbstractTurn /\ AbstractTurn <= w THEN 1 ELSE 0)
  BY InStepMeaning
<1>2. CASE \E t \in Threads : Printf(t)
  <2> PICK t \in Threads : Printf(t) BY <1>2
  <2> DEFINE f == [u \in Running |-> Printed(u)]
             g == [u \in Running |-> Printed(u)']
  <2>0. t \in Running /\ n \in Threads /\ \A u \in Running : u \in Threads
    BY PrintfRuns, RunningThreads DEF IInv, TypeOK
  <2>1. f \in [Running -> Nat] BY <2>0, PrintedType DEF IInv
  <2>2. TypeOK' => \A u \in Threads : Printed(u)' \in Nat
    BY TurnAssumption DEF TypeOK, Printed
  <2>3. g \in [Running -> Nat] BY <2>0, <2>2 DEF IInv
  <2>4. g[t] = f[t] + 1 /\ \A u \in Running \ {t} : g[u] = f[u] BY <2>0, PrintfStep
  <2>5. f[v] = f[w] + (IF v < t /\ t <= w THEN 1 ELSE 0) BY <1>1, <2>0, PrintfStep
  <2> HIDE DEF f, g
  <2>6. g[v] = g[w] + (IF v < Successor(t) /\ Successor(t) <= w THEN 1 ELSE 0)
    BY <2>0, <2>1, <2>3, <2>4, <2>5, CyclicOrder, TurnAssumption
  <2> QED BY <2>0, <2>6, PrintfStep DEF g
<1>3. CASE \A t \in Threads : ~Printf(t)
  BY <1>1, <1>3, StutterStep, RunningThreads DEF IInv, TypeOK
<1> QED BY <1>2, <1>3

(* The lines come out in the order 1 2 ... N 1 2 ..., for every number of  *)
(* threads and every COUNT_TIMES.                                          *)
THEOREM OutputInStep == Spec => []InStep
<1>1. IInv /\ [Next]_vars => IInv'
  BY TypeStep, OwnershipStep, WakeupStep DEF IInv
<1> QED BY <1>1, InitInv, InStepInit, InStepStep, PTL DEF Spec

-------------------------------------------------------------------------------
LEMMA RingInit == Init => Ring!Init
<1> SUFFICES ASSUME Init PROVE Ring!Init OBVIOUS
<1>1. AbstractTurn = 1 BY DEF Init, AbstractTurn
<1>2. \A t \in Threads : Printed(t) = 0 BY DEF Init, Printed
<1>3. n \in Nat \ {0} /\ \A t \in Running : t \in Threads
  BY RunningThreads, TurnAssumption DEF Init, Threads
<1> QED BY <1>1, <1>2, <1>3 DEF Ring!Init, Ring!Workers, Running

LEMMA RingStep == IInv /\ IInv' /\ [Next]_vars => [Ring!Next]_(Ring!vars)
<1> SUFFICES ASSUME IInv, IInv', [Next]_vars PROVE [Ring!Next]_(Ring!vars)
  OBVIOUS
<1>1. CASE \E t \in Threads : Printf(t)
  <2> PICK t \in Threads : Printf(t) BY <1>1
  <2>1. Ring!Successor(t) = Successor(t) BY DEF Ring!Successor, Successor
  <2>0. t \in Running /\ n' = n /\ \A u \in Running : u \in Threads
    BY PrintfRuns, SizeFixed, RunningThreads DEF IInv, TypeOK
  <2>2. [u \in Running |-> Printed(u)]' = [[u \in Running |-> Printed(u)] EXCEPT ![t] = @ + 1]
    BY <2>0, PrintfStep DEF Running
  <2>3. Ring!PutLine(t)
    BY <2>0, <2>1, <2>2, PrintfStep DEF Ring!PutLine
  <2> QED BY <2>0, <2>3 DEF Ring!Next, Ring!Workers, Running
<1>2. CASE \A t \in Threads : ~Printf(t)
  <2>1. n' = n /\ \A u \in Running : u \in Threads
    BY SizeFixed, RunningThreads DEF IInv, TypeOK
  <2>2. [u \in Running |-> Printed(u)]' = [u \in Running |-> Printed(u)]
    BY <1>2, <2>1, StutterStep DEF Running
  <2> QED BY <1>2, <2>1, <2>2, StutterStep DEF Ring!vars
<1> QED BY <1>1, <1>2

(* Every behaviour of the protocol is a behaviour of RoundRobin: each      *)
(* printf is a PutLine of the worker whose turn it is, and nothing else is   *)
(* visible.                                                                *)
THEOREM ImplementsRoundRobin == Spec => RefinesRoundRobin
<1>1. IInv /\ [Next]_vars => IInv'
  BY TypeStep, OwnershipStep, WakeupStep DEF IInv
<1> QED BY <1>1, InitInv, RingInit, RingStep, PTL DEF Spec, RefinesRoundRobin, Ring!Safety

-------------------------------------------------------------------------------
LEMMA CountInit == Halts!Init => Halts!IInv
<1> SUFFICES ASSUME Halts!Init PROVE Halts!IInv OBVIOUS
<1> USE CountAssumption DEF Halts!Init
<1>1. Halts!TypeOK
  <2>1. printer \in [Halts!Values -> 0 .. 2] OBVIOUS
  <2>2. waiting \in BOOLEAN /\ spurious \in BOOLEAN OBVIOUS
  <2>3. loaded \in [1 .. 2 -> Nat] OBVIOUS
  <2> QED BY <2>1, <2>2, <2>3 DEF Halts!TypeOK, Halts!PC1, Halts!PC2
<1>2. Halts!Mutexes /\ Halts!Turns /\ Halts!Counting BY DEF Halts!Mutexes, Halts!Turns, Halts!Counting,
                                                            Halts!Pending
<1>3. Halts!NoGap /\ Halts!Schedule /\ Halts!NoLostWakeup BY DEF Halts!NoGap, Halts!Schedule,
  Halts!AsCommented, Halts!NoLostWakeup, Halts!Values
<1> QED BY <1>1, <1>2, <1>3 DEF Halts!IInv

(* An increment prints the next number, at the end of what is printed; who *)
(* prints it is as the comment says unless thread 1 woke up for no reason. *)
LEMMA StoreStep ==
  ASSUME NEW t \in 1 .. 2, Halts!TypeOK, Halts!NoGap, Halts!Schedule, Halts!Store(t),
    loaded[t] = number,
         number <= COUNT_DONE,
         ~spurious => /\ t = 1 => ~Halts!Halted(number)
                      /\ t = 2 => Halts!Halted(number)
  PROVE  /\ number' = number + 1
         /\ printer' \in [Halts!Values -> 0 .. 2]
         /\ Halts!NoGap' /\ Halts!Schedule'
<1> USE CountAssumption DEF Halts!TypeOK, Halts!Values
<1>1. number + 1 \in Halts!Values BY DEF Halts!Store
<1>2. /\ number' = number + 1
      /\ printer' \in [Halts!Values -> 0 .. 2]
      /\ \A v \in Halts!Values : printer'[v] = IF v = number + 1 THEN t ELSE printer[v]
  BY <1>1 DEF Halts!Store
<1>3. Halts!NoGap' BY <1>2 DEF Halts!NoGap
<1>4. Halts!Schedule'
  <2> SUFFICES ASSUME ~spurious, NEW v \in 1 .. COUNT_DONE - 1, printer'[v] # 0
               PROVE  printer'[v] = IF COUNT_HALT1 < v /\ v <= COUNT_HALT2 + 1 THEN 2 ELSE 1
    BY DEF Halts!Schedule, Halts!AsCommented, Halts!Store
  <2>1. v \in Halts!Values OBVIOUS
  <2>2. CASE v = number + 1
    <3>1. printer'[v] = t BY <1>2, <2>1, <2>2
    <3>2. Halts!Halted(number) <=> COUNT_HALT1 < v /\ v <= COUNT_HALT2 + 1 BY <2>2 DEF Halts!Halted
    <3> QED BY <3>1, <3>2
  <2>3. CASE v # number + 1
    <3>1. printer'[v] = printer[v] BY <1>2, <2>1, <2>3
    <3> QED BY <3>1 DEF Halts!Schedule, Halts!AsCommented
  <2> QED BY <2>2, <2>3
<1> QED BY <1>2, <1>3, <1>4

(* Where nothing is printed the last two parts stay as they are.           *)
LEMMA NoPrintStep ==
  ASSUME Halts!NoGap, Halts!Schedule, UNCHANGED <<number, printer>>, spurious => spurious'
  PROVE  Halts!NoGap' /\ Halts!Schedule'
BY DEF Halts!NoGap, Halts!Schedule, Halts!AsCommented, Halts!Values

(* The steps of functionCount1: it only increments out of the range of the *)
(* other, and only blocks inside it.                                       *)
LEMMA Step1Inv == Halts!IInv /\ Halts!functionCount1 => Halts!IInv'
<1> SUFFICES ASSUME Halts!IInv, Halts!functionCount1 PROVE Halts!IInv' OBVIOUS
<1>0. Halts!TypeOK /\ Halts!NoGap /\ Halts!Schedule BY DEF Halts!IInv
<1> USE CountAssumption
<1>1. CASE pc1 = "store" /\ Halts!Inc1
  <2>1. pc1 = "store" /\ pc1' = "unlock" /\ pc2' = pc2 /\ Halts!Store(1) BY <1>1 DEF Halts!Inc1
  <2>2. number <= COUNT_DONE /\ loaded[1] = number /\ (~spurious => ~Halts!Halted(number))
    BY <1>0, <2>1 DEF Halts!IInv, Halts!Counting, Halts!Pending, Halts!Turns, Halts!TypeOK
  <2>3. number' = number + 1 /\ printer' \in [Halts!Values -> 0 .. 2] /\ Halts!NoGap' /\ Halts!Schedule'
    BY <1>0, <2>1, <2>2, StoreStep
  <2>4. Halts!TypeOK' BY <1>0, <2>1, <2>3 DEF Halts!TypeOK, Halts!PC1, Halts!PC2, Halts!Store
  <2>5. Halts!Mutexes' BY <2>1, <2>3 DEF Halts!IInv, Halts!Mutexes, Halts!Store
  <2>6. Halts!Counting' BY <1>0, <2>1, <2>3 DEF Halts!IInv, Halts!TypeOK, Halts!Mutexes,
                                                Halts!Counting, Halts!Pending, Halts!Store
  <2>7. Halts!Turns' /\ Halts!NoLostWakeup'
    BY <1>0, <2>1, <2>2, <2>3 DEF Halts!IInv, Halts!TypeOK, Halts!Mutexes, Halts!Counting, Halts!Turns,
                                  Halts!NoLostWakeup, Halts!Halted, Halts!Store
  <2> QED BY <2>3, <2>4, <2>5, <2>6, <2>7 DEF Halts!IInv
<1>2. CASE pc1 # "store" \/ ~Halts!Inc1
  <2>1. UNCHANGED <<number, printer, pc2, main, spurious>>
    BY <1>2 DEF Halts!functionCount1, Halts!Step1, Halts!Inc1, Halts!Load, Halts!Lock1, Halts!Unlock1,
                Halts!CondLock1, Halts!Test1, Halts!CondWait1,
                Halts!Relock1, Halts!CondUnlock1, Halts!Done1
  <2>2. Halts!NoGap' /\ Halts!Schedule' BY <1>0, <2>1, NoPrintStep
  <2> USE DEF Halts!IInv, Halts!TypeOK, Halts!Mutexes, Halts!Turns, Halts!Counting, Halts!Pending,
              Halts!NoLostWakeup, Halts!Halted, Halts!PC1, Halts!PC2, Halts!Step1
  <2>0. CASE Halts!Inc1        BY <1>2, <2>0, <2>2 DEF Halts!Inc1, Halts!Load
  <2>3. CASE Halts!Lock1       BY <2>2, <2>3 DEF Halts!Lock1
  <2>4. CASE Halts!Unlock1     BY <2>2, <2>4 DEF Halts!Unlock1
  <2>5. CASE Halts!CondLock1   BY <2>2, <2>5 DEF Halts!CondLock1
  <2>6. CASE Halts!Test1       BY <2>2, <2>6 DEF Halts!Test1
  <2>7. CASE Halts!CondWait1   BY <2>2, <2>7 DEF Halts!CondWait1
  <2>8. CASE Halts!Relock1     BY <2>2, <2>8 DEF Halts!Relock1
  <2>9. CASE Halts!CondUnlock1 BY <2>2, <2>9 DEF Halts!CondUnlock1
  <2>10. CASE Halts!Done1      BY <2>2, <2>10 DEF Halts!Done1
  <2> QED BY <2>0, <2>3, <2>4, <2>5, <2>6, <2>7, <2>8, <2>9, <2>10 DEF Halts!functionCount1
<1> QED BY <1>1, <1>2

(* A spurious wake-up gives up the promise about who prints what, and      *)
(* nothing else.                                                           *)
LEMMA SpuriousInv == Halts!IInv /\ Halts!WakeSpuriously1 => Halts!IInv'
<1> SUFFICES ASSUME Halts!IInv, Halts!WakeSpuriously1 PROVE Halts!IInv' OBVIOUS
<1>1. /\ spurious' = TRUE /\ waiting' = FALSE
      /\ UNCHANGED <<number, count_mutex, cond_mutex, pc1, pc2, loaded, main, printer>>
  BY DEF Halts!WakeSpuriously1
<1>2. Halts!TypeOK' /\ Halts!Mutexes' /\ Halts!Counting' /\ Halts!NoGap'
  BY <1>1 DEF Halts!IInv, Halts!TypeOK, Halts!Mutexes, Halts!Counting, Halts!NoGap
<1>3. Halts!Turns' /\ Halts!Schedule' /\ Halts!NoLostWakeup' BY <1>1 DEF Halts!Turns, Halts!Schedule,
  Halts!NoLostWakeup
<1> QED BY <1>2, <1>3 DEF Halts!IInv

(* The steps of functionCount2: it increments in its range and signals     *)
(* once it has left it.                                                    *)
LEMMA Step2Inv == Halts!IInv /\ Halts!functionCount2 => Halts!IInv'
<1> SUFFICES ASSUME Halts!IInv, Halts!functionCount2 PROVE Halts!IInv' OBVIOUS
<1>0. Halts!TypeOK /\ Halts!NoGap /\ Halts!Schedule BY DEF Halts!IInv
<1> USE CountAssumption
<1>1. CASE pc2 = "store" /\ Halts!Inc2
  <2>1. pc2 = "store" /\ pc2' = "unlock" /\ pc1' = pc1 /\ Halts!Store(2) BY <1>1 DEF Halts!Inc2
  <2>2. number <= COUNT_DONE /\ loaded[2] = number /\ (~spurious => Halts!Halted(number))
    BY <1>0, <2>1 DEF Halts!IInv, Halts!Counting, Halts!Pending, Halts!Turns, Halts!TypeOK
  <2>3. number' = number + 1 /\ printer' \in [Halts!Values -> 0 .. 2] /\ Halts!NoGap' /\ Halts!Schedule'
    BY <1>0, <2>1, <2>2, StoreStep
  <2>4. Halts!TypeOK' BY <1>0, <2>1, <2>3 DEF Halts!TypeOK, Halts!PC1, Halts!PC2, Halts!Store
  <2>5. Halts!Mutexes' BY <2>1, <2>3 DEF Halts!IInv, Halts!Mutexes, Halts!Store
  <2>6. Halts!Counting' BY <1>0, <2>1, <2>3 DEF Halts!IInv, Halts!TypeOK, Halts!Mutexes,
                                                Halts!Counting, Halts!Pending, Halts!Store
  <2>7. Halts!Turns' /\ Halts!NoLostWakeup'
    BY <1>0, <2>1, <2>2, <2>3 DEF Halts!IInv, Halts!TypeOK, Halts!Mutexes, Halts!Counting, Halts!Turns,
                                  Halts!NoLostWakeup, Halts!Halted, Halts!Store
  <2> QED BY <2>3, <2>4, <2>5, <2>6, <2>7 DEF Halts!IInv
<1>2. CASE pc2 # "store" \/ ~Halts!Inc2
  <2>1. UNCHANGED <<number, printer, pc1, main, spurious>>
    BY <1>2 DEF Halts!functionCount2, Halts!Step2, Halts!Inc2, Halts!Load, Halts!Lock2, Halts!Unlock2,
                Halts!CondLock2, Halts!Test2, Halts!CondSignal2,
                Halts!TestOutside2, Halts!CondUnlock2, Halts!Done2
  <2>2. Halts!NoGap' /\ Halts!Schedule' BY <1>0, <2>1, NoPrintStep
  <2> USE DEF Halts!IInv, Halts!TypeOK, Halts!Mutexes, Halts!Turns, Halts!Counting, Halts!Pending,
              Halts!NoLostWakeup, Halts!Halted, Halts!PC1, Halts!PC2, Halts!Step2
  <2>0. CASE Halts!Inc2         BY <1>2, <2>0, <2>2 DEF Halts!Inc2, Halts!Load
  <2>3. CASE Halts!Test2        BY <2>2, <2>3 DEF Halts!Test2
  <2>4. CASE Halts!Lock2        BY <2>2, <2>4 DEF Halts!Lock2
  <2>5. CASE Halts!Unlock2      BY <2>2, <2>5 DEF Halts!Unlock2
  <2>6. CASE Halts!CondLock2    BY <2>2, <2>6 DEF Halts!CondLock2
  <2>7. CASE Halts!TestOutside2 BY <2>2, <2>7 DEF Halts!TestOutside2
  <2>8. CASE Halts!CondSignal2
    <3>1. /\ pc2 = "signal" /\ pc2' = "cunlock" /\ ~waiting'
          /\ UNCHANGED <<pc1, loaded, main, printer, number, count_mutex, cond_mutex, spurious>>
      BY <2>8 DEF Halts!CondSignal2
    <3>2. ~spurious /\ pc1 = "asleep" => ~Halts!Halted(number) BY <3>1
    <3>3. Halts!TypeOK' BY <2>8 DEF Halts!CondSignal2
    <3>4. Halts!Turns' BY <3>1, <3>2
    <3>5. Halts!Mutexes' /\ Halts!Counting' /\ Halts!NoLostWakeup' BY <3>1
    <3> QED BY <2>2, <3>3, <3>4, <3>5
  <2>9. CASE Halts!CondUnlock2  BY <2>2, <2>9 DEF Halts!CondUnlock2
  <2>10. CASE Halts!Done2       BY <2>2, <2>10 DEF Halts!Done2
  <2> QED BY <2>0, <2>3, <2>4, <2>5, <2>6, <2>7, <2>8, <2>9, <2>10 DEF Halts!functionCount2
<1> QED BY <1>1, <1>2

LEMMA MainInv == Halts!IInv /\ (Halts!Main \/ UNCHANGED haltVars) => Halts!IInv'
<1> SUFFICES ASSUME Halts!IInv, Halts!Main \/ UNCHANGED haltVars PROVE Halts!IInv' OBVIOUS
<1>1. UNCHANGED <<number, printer, spurious>> BY DEF Halts!Main, haltVars
<1>2. Halts!NoGap' /\ Halts!Schedule' BY <1>1, NoPrintStep DEF Halts!IInv
<1> USE CountAssumption DEF Halts!IInv, Halts!TypeOK, Halts!Mutexes, Halts!Turns, Halts!Counting,
                            Halts!Pending, Halts!NoLostWakeup, Halts!Halted, Halts!PC1, Halts!PC2
<1>3. CASE Halts!Main
  <2>1. CASE main = 0 BY <1>2, <1>3, <2>1 DEF Halts!Main
  <2>2. CASE main = 1 BY <1>2, <1>3, <2>2 DEF Halts!Main
  <2>3. CASE main \in {2, 3}
    <3>1. UNCHANGED <<pc1, pc2, loaded, number, count_mutex, cond_mutex, waiting, printer, spurious>>
      BY <1>3, <2>3 DEF Halts!Main
    <3>2. main' \in {3, 4} BY <1>3, <2>3 DEF Halts!Main
    <3> QED BY <1>2, <2>3, <3>1, <3>2
  <2>4. main \in 0 .. 3 BY <1>3 DEF Halts!Main
  <2> QED BY <2>1, <2>2, <2>3, <2>4
<1>4. CASE UNCHANGED haltVars BY <1>2, <1>4 DEF haltVars
<1> QED BY <1>3, <1>4

LEMMA HaltsStep == Halts!IInv /\ [Halts!Next]_haltVars => Halts!IInv'
BY Step1Inv, Step2Inv, SpuriousInv, MainInv DEF Halts!Next, Halts!Exited, haltVars, Halts!vars

-------------------------------------------------------------------------------
(* The two halves are the array, and their elements follow each other.     *)
LEMMA HalfSize == Halves!Half \in Nat /\ Halves!Half >= 4 /\ ARRAY_SIZE = 2 * Halves!Half
BY SumAssumption DEF Halves!Half

(* A product of neighbours is even.                                        *)
LEMMA Triangle ==
  ASSUME NEW k \in Nat
  PROVE  /\ (k * (k + 1)) \div 2 \in Nat
         /\ 2 * ((k * (k + 1)) \div 2) = k * (k + 1)
<1>1. CASE \E h \in Nat : k = 2 * h
  <2>1. PICK h \in Nat : k = 2 * h BY <1>1
  <2>2. h * (k + 1) \in Nat /\ k * (k + 1) = 2 * (h * (k + 1)) BY <2>1
  <2> DEFINE x == h * (k + 1)
  <2>3. x \in Nat /\ k * (k + 1) = 2 * x BY <2>2
  <2> HIDE DEF x
  <2> QED BY <2>3
<1>2. CASE \E h \in Nat : k = 2 * h + 1
  <2>1. PICK h \in Nat : k = 2 * h + 1 BY <1>2
  <2>2. k * (h + 1) \in Nat /\ k * (k + 1) = 2 * (k * (h + 1)) BY <2>1
  <2> DEFINE x == k * (h + 1)
  <2>3. x \in Nat /\ k * (k + 1) = 2 * x BY <2>2
  <2> HIDE DEF x
  <2> QED BY <2>3
<1>3. k = 2 * (k \div 2) \/ k = 2 * (k \div 2) + 1
  OBVIOUS
<1>4. k \div 2 \in Nat OBVIOUS
<1> QED BY <1>1, <1>2, <1>3, <1>4

(* One more element adds itself to the sum of a half.                      *)
LEMMA PartSums ==
  ASSUME NEW t \in Halves!Threads, NEW k \in Nat
  PROVE  /\ Halves!PartSum(t, k) \in Nat /\ Halves!Element(t, k) \in Nat
         /\ Halves!PartSum(t, 0) = 0
         /\ Halves!PartSum(t, k + 1) = Halves!PartSum(t, k) + Halves!Element(t, k)
<1> DEFINE H == Halves!Half
           c == (k * (k + 1)) \div 2
           d == ((k + 1) * (k + 2)) \div 2
<1>1. H \in Nat BY HalfSize
<1>2. c \in Nat /\ 2 * c = k * (k + 1) BY Triangle
<1>3. d \in Nat /\ 2 * d = (k + 1) * (k + 2)
  <2>1. k + 1 \in Nat /\ (k + 1) + 1 = k + 2 OBVIOUS
  <2> QED BY <2>1, Triangle
<1>4. (k + 1) * (k + 2) = k * (k + 1) + 2 * (k + 1) OBVIOUS
<1>5. d = c + k + 1
  <2> DEFINE x == k * (k + 1)
             y == (k + 1) * (k + 2)
  <2>1. x \in Nat /\ y = x + 2 * (k + 1) /\ 2 * c = x /\ 2 * d = y BY <1>2, <1>3, <1>4
  <2> HIDE DEF c, d, x, y
  <2> QED BY <1>2, <1>3, <2>1
<1>6. Halves!PartSum(t, k) = k * (t - 1) * H + c BY DEF Halves!PartSum
<1>7. Halves!PartSum(t, k + 1) = (k + 1) * (t - 1) * H + d
  <2>1. (k + 1) + 1 = k + 2 OBVIOUS
  <2> QED BY <2>1 DEF Halves!PartSum
<1>8. Halves!Element(t, k) = (t - 1) * H + k + 1 BY DEF Halves!Element
<1>9. Halves!PartSum(t, 0) = 0 * (t - 1) * H + (0 * (0 + 1)) \div 2 BY DEF Halves!PartSum
<1> HIDE DEF H, c, d
<1>10. CASE t = 1 BY <1>1, <1>2, <1>3, <1>5, <1>6, <1>7, <1>8, <1>9, <1>10
<1>11. CASE t = 2
  <2>1. /\ k * (t - 1) * H = k * H /\ (k + 1) * (t - 1) * H = k * H + H /\ (t - 1) * H = H
        /\ 0 * (t - 1) * H = 0 /\ k * H \in Nat /\ (0 * (0 + 1)) \div 2 = 0
    BY <1>1, <1>11
  <2> QED BY <1>1, <1>2, <1>3, <1>5, <1>6, <1>7, <1>8, <1>9, <2>1
<1> QED BY <1>10, <1>11 DEF Halves!Threads

(* The two halves together; the first alone is already more than thread 1's *)
(* last element on top of thread 2's first.                                *)
LEMMA WholeSums ==
  /\ Halves!PartSum(1, Halves!Half) + Halves!PartSum(2, Halves!Half) = Halves!Total
  /\ Halves!PartSum(1, Halves!Half) >= 2 * Halves!Half + 1
<1> DEFINE H == Halves!Half
           c == (H * (H + 1)) \div 2
           w == (ARRAY_SIZE * (ARRAY_SIZE + 1)) \div 2
<1>1. H \in Nat /\ H >= 4 /\ ARRAY_SIZE = 2 * H BY HalfSize
<1>2. c \in Nat /\ 2 * c = H * (H + 1) BY <1>1, Triangle
<1>3. w \in Nat /\ 2 * w = ARRAY_SIZE * (ARRAY_SIZE + 1)
  <2>1. ARRAY_SIZE \in Nat BY SumAssumption
  <2> QED BY <2>1, Triangle
<1>4. Halves!PartSum(1, H) = H * (1 - 1) * H + c /\ Halves!PartSum(2, H) = H * (2 - 1) * H + c
  BY DEF Halves!PartSum
<1>5. Halves!Total = w BY DEF Halves!Total
<1> HIDE DEF H, c, w
<1>6. H * (1 - 1) * H = 0 /\ H * (2 - 1) * H = H * H /\ H * (H + 1) = H * H + H BY <1>1
<1>7. ARRAY_SIZE * (ARRAY_SIZE + 1) = 4 * (H * H) + 2 * H BY <1>1
<1>8. H * H >= 4 * H BY <1>1
<1> DEFINE q == H * H
<1>9. q \in Nat /\ 2 * c = q + H /\ 2 * w = 4 * q + 2 * H /\ q >= 4 * H
  BY <1>1, <1>2, <1>3, <1>6, <1>7, <1>8
<1>10. Halves!PartSum(1, H) = c /\ Halves!PartSum(2, H) = q + c BY <1>2, <1>4, <1>6
<1> HIDE DEF q
<1>11. c + (q + c) = w /\ c >= 2 * H + 1 BY <1>1, <1>2, <1>3, <1>9
<1> QED BY <1>5, <1>10, <1>11 DEF H

-------------------------------------------------------------------------------
(* array_sum.c: the inductive invariant.                                   *)
LEMMA SumsInit == Halves!Init => Halves!IInv
<1> SUFFICES ASSUME Halves!Init PROVE Halves!IInv OBVIOUS
<1>0. /\ array_sum = 0 /\ parent = "create1" /\ adder = [t \in Halves!Threads |-> "none"]
      /\ index = [t \in Halves!Threads |-> 0] /\ read = [t \in Halves!Threads |-> 0]
      /\ printed = {} /\ lost = FALSE
      /\ Halves!Half \in Nat /\ Halves!Half >= 4
  BY HalfSize DEF Halves!Init
<1>1. 1 \in Halves!Threads /\ 2 \in Halves!Threads /\ Halves!Threads = {1, 2} BY DEF Halves!Threads
<1>2. Halves!PartSum(1, 0) = 0 /\ Halves!PartSum(2, 0) = 0 BY <1>1, PartSums
<1>3. Halves!Added = 0 BY <1>0, <1>1, <1>2 DEF Halves!Added
<1>4. Halves!TypeOK
  <2>1. lost \in BOOLEAN BY <1>0
  <2>2. printed \subseteq Nat BY <1>0
  <2>3. index \in [Halves!Threads -> 0 .. Halves!Half] /\ read \in [Halves!Threads -> Nat] BY <1>0
  <2> QED BY <1>0, <2>1, <2>2, <2>3 DEF Halves!TypeOK
<1>5. Halves!Places BY <1>0, <1>1 DEF Halves!Places
<1>6. Halves!AtMost BY <1>0, <1>1, <1>3 DEF Halves!AtMost
<1>7. Halves!AtLeast BY <1>0, <1>1 DEF Halves!AtLeast
<1> QED BY <1>4, <1>5, <1>6, <1>7 DEF Halves!IInv

(* What is true of a thread whose index is not at the end.                 *)
LEMMA NextElement ==
  ASSUME Halves!TypeOK, NEW t \in Halves!Threads, index[t] < Halves!Half
  PROVE  /\ index[t] \in Nat /\ index[t] + 1 \in 0 .. Halves!Half
         /\ Halves!PartSum(t, index[t]) \in Nat /\ Halves!Element(t, index[t]) \in Nat
         /\ Halves!PartSum(t, index[t] + 1) = Halves!PartSum(t, index[t]) + Halves!Element(t, index[t])
<1>1. index[t] \in 0 .. Halves!Half /\ Halves!Half \in Nat BY HalfSize DEF Halves!TypeOK
<1>2. index[t] \in Nat /\ index[t] + 1 \in 0 .. Halves!Half BY <1>1
<1> QED BY <1>2, PartSums

(* The steps that leave the sum and the indices alone.                     *)
LEMMA QuietStep ==
  ASSUME Halves!IInv, Halves!TypeOK', Halves!Places',
         UNCHANGED <<array_sum, index, lost>>,
         \A t \in Halves!Threads :
           adder'[t] = "store" => \/ adder[t] = "store" /\ read'[t] = read[t]
                                  \/ read'[t] = array_sum
  PROVE  Halves!IInv'
<1> USE DEF Halves!IInv
<1>0. 1 \in Halves!Threads /\ 2 \in Halves!Threads /\ Halves!Threads = {1, 2} BY DEF Halves!Threads
<1>1. Halves!Added' = Halves!Added BY DEF Halves!Added, Halves!PartSum
<1>2. Halves!AtMost' BY <1>1 DEF Halves!AtMost
<1>3. Halves!PartSum(1, index[1])' = Halves!PartSum(1, index[1]) BY DEF Halves!PartSum
<1>4. /\ index[1] \in Nat /\ index[2] \in Nat /\ Halves!Half \in Nat /\ array_sum \in Nat
      /\ read'[1] \in Nat /\ read'[2] \in Nat
  BY <1>0, HalfSize DEF Halves!TypeOK
<1>5. Halves!PartSum(1, index[1]) \in Nat BY <1>0, <1>4, PartSums
<1> DEFINE P == Halves!PartSum(1, index[1])
<1>6. /\ adder'[1] = "store" /\ index[1] > 0 => read'[1] >= Halves!Lesser(P, Halves!Half + 1)
      /\ adder'[2] = "store" /\ index[2] > 0 => read'[2] >= 1
  <2>1. index[1] > 0 => P >= 1
    <3>1. ASSUME index[1] > 0 PROVE P >= 1
      <4>1. index[1] - 1 \in Nat /\ (index[1] - 1) + 1 = index[1] BY <1>4, <3>1
      <4>2. /\ Halves!PartSum(1, index[1]) = Halves!PartSum(1, index[1] - 1) + Halves!Element(1, index[1] - 1)
            /\ Halves!PartSum(1, index[1] - 1) \in Nat
        BY <1>0, <4>1, PartSums
      <4>3. Halves!Element(1, index[1] - 1) = index[1] BY <1>4 DEF Halves!Element
      <4> QED BY <1>4, <3>1, <4>2, <4>3
    <3> QED BY <3>1
  <2>2. \/ index[1] = 0 /\ index[2] = 0
        \/ index[1] > 0 /\ array_sum >= Halves!Lesser(P, Halves!Half + 1 + index[1])
        \/ index[2] > 0 /\ array_sum >= Halves!Half + index[2] + (IF index[2] > 1 THEN 1 ELSE 0)
    BY DEF Halves!AtLeast
  <2>3. /\ adder[1] = "store" /\ index[1] > 0 => read[1] >= Halves!Lesser(P, Halves!Half + 1)
        /\ adder[2] = "store" /\ index[2] > 0 => read[2] >= 1
    BY DEF Halves!AtLeast
  <2> HIDE DEF P
  <2>4. index[1] > 0 => array_sum >= Halves!Lesser(P, Halves!Half + 1)
    BY <1>4, <1>5, <2>2 DEF P, Halves!Lesser
  <2>5. index[2] > 0 => array_sum >= 1 BY <1>4, <1>5, <2>1, <2>2 DEF P, Halves!Lesser
  <2> QED BY <1>0, <2>3, <2>4, <2>5
<1>7. Halves!AtLeast'
  BY <1>3, <1>6 DEF Halves!AtLeast
<1> QED BY <1>2, <1>7

(* Whatever the other thread has stored in between, a store leaves a sum   *)
(* within the bounds of the new index.                                     *)
LEMMA StoreAtMost ==
  ASSUME Halves!IInv, NEW t \in Halves!Threads, Halves!Store(t)
  PROVE  Halves!AtMost'
<1> DEFINE e == Halves!Element(t, index[t])
<1>0. /\ 1 \in Halves!Threads /\ 2 \in Halves!Threads /\ Halves!Threads = {1, 2}
      /\ Halves!TypeOK /\ Halves!AtMost /\ adder[t] = "store" /\ index[t] < Halves!Half
  BY DEF Halves!Threads, Halves!IInv, Halves!Places, Halves!Store, Halves!Running
<1>1. e \in Nat /\ Halves!PartSum(t, index[t] + 1) = Halves!PartSum(t, index[t]) + e
  BY <1>0, NextElement
<1>2. \A u \in Halves!Threads : index[u] \in Nat /\ read[u] \in Nat /\ Halves!PartSum(u, index[u]) \in Nat
  <2>1. \A u \in Halves!Threads : index[u] \in Nat /\ read[u] \in Nat
    BY <1>0, HalfSize DEF Halves!TypeOK
  <2> QED BY <2>1, PartSums
<1>3. Halves!Added' = Halves!Added + e
  <2>1. \A u \in Halves!Threads : index'[u] = IF u = t THEN index[t] + 1 ELSE index[u]
    BY <1>0 DEF Halves!Store, Halves!TypeOK
  <2>2. /\ Halves!Added' = Halves!PartSum(1, index'[1]) + Halves!PartSum(2, index'[2])
        /\ Halves!Added = Halves!PartSum(1, index[1]) + Halves!PartSum(2, index[2])
    BY DEF Halves!Added, Halves!PartSum
  <2>3. CASE t = 1 BY <1>0, <1>1, <1>2, <2>1, <2>2, <2>3
  <2>4. CASE t = 2 BY <1>0, <1>1, <1>2, <2>1, <2>2, <2>4
  <2> QED BY <1>0, <2>3, <2>4
<1>4. Halves!Added \in Nat BY <1>0, <1>2 DEF Halves!Added
<1>5. /\ array_sum' = read[t] + e /\ read' = read /\ read[t] <= Halves!Added
      /\ lost' <=> lost \/ array_sum # read[t]
      /\ \A u \in Halves!Threads : adder'[u] = "store" => adder[u] = "store"
  BY <1>0 DEF Halves!Store, Halves!AtMost, Halves!TypeOK
<1> HIDE DEF e
<1>6. array_sum' <= Halves!Added' BY <1>1, <1>2, <1>3, <1>4, <1>5
<1>7. lost' \/ array_sum' = Halves!Added'
  <2>1. lost \/ array_sum = Halves!Added BY <1>0 DEF Halves!AtMost
  <2>2. CASE lost BY <1>5, <2>2
  <2>3. CASE array_sum # read[t] BY <1>5, <2>3
  <2>4. CASE array_sum = Halves!Added /\ array_sum = read[t] BY <1>3, <1>5, <2>4
  <2> QED BY <2>1, <2>2, <2>3, <2>4
<1>8. \A u \in Halves!Threads : adder'[u] = "store" => read'[u] <= Halves!Added'
  <2> SUFFICES ASSUME NEW u \in Halves!Threads, adder'[u] = "store" PROVE read'[u] <= Halves!Added'
    OBVIOUS
  <2>1. read[u] <= Halves!Added BY <1>0, <1>5 DEF Halves!AtMost
  <2> QED BY <1>1, <1>2, <1>3, <1>4, <1>5, <2>1
<1> QED BY <1>6, <1>7, <1>8 DEF Halves!AtMost

(* What the store has undone is not more than it can be.                   *)
LEMMA StoreAtLeast ==
  ASSUME Halves!IInv, NEW t \in Halves!Threads, Halves!Store(t)
  PROVE  Halves!AtLeast'
<1> DEFINE P == Halves!PartSum(1, index[1])
           Q == Halves!PartSum(1, index'[1])
           H == Halves!Half
<1>0. /\ 1 \in Halves!Threads /\ 2 \in Halves!Threads /\ Halves!Threads = {1, 2}
      /\ Halves!TypeOK /\ Halves!AtLeast /\ adder[t] = "store" /\ index[t] < H
  BY DEF Halves!Threads, Halves!IInv, Halves!Places, Halves!Store, Halves!Running
<1>1. /\ index[1] \in Nat /\ index[2] \in Nat /\ H \in Nat /\ H >= 4 /\ array_sum \in Nat
      /\ read[1] \in Nat /\ read[2] \in Nat
  BY <1>0, HalfSize DEF Halves!TypeOK
<1>2. P \in Nat BY <1>0, <1>1, PartSums
<1>3. /\ array_sum' = read[t] + Halves!Element(t, index[t]) /\ read' = read
      /\ \A u \in Halves!Threads : index'[u] = IF u = t THEN index[u] + 1 ELSE index[u]
      /\ adder'[t] # "store"
      /\ \A u \in Halves!Threads : u # t => adder'[u] = adder[u]
  BY <1>0 DEF Halves!Store, Halves!TypeOK
<1>4. /\ adder[1] = "store" /\ index[1] > 0 => read[1] >= Halves!Lesser(P, H + 1)
      /\ adder[2] = "store" /\ index[2] > 0 => read[2] >= 1
  BY <1>0 DEF Halves!AtLeast
<1>5. Halves!AtLeast' <=>
        /\ \/ index'[1] = 0 /\ index'[2] = 0
           \/ index'[1] > 0 /\ array_sum' >= Halves!Lesser(Q, H + 1 + index'[1])
           \/ index'[2] > 0 /\ array_sum' >= H + index'[2] + (IF index'[2] > 1 THEN 1 ELSE 0)
        /\ adder'[1] = "store" /\ index'[1] > 0 => read'[1] >= Halves!Lesser(Q, H + 1)
        /\ adder'[2] = "store" /\ index'[2] > 0 => read'[2] >= 1
  BY DEF Halves!AtLeast, Halves!Lesser, Halves!PartSum
<1>6. CASE t = 1
  <2>1. index'[1] = index[1] + 1 /\ index'[2] = index[2] /\ adder'[1] # "store" /\ adder'[2] = adder[2]
    BY <1>0, <1>3, <1>6
  <2>2. Halves!Element(1, index[1]) = index[1] + 1 BY <1>1 DEF Halves!Element
  <2>3. array_sum' = read[1] + index[1] + 1 BY <1>1, <1>3, <1>6, <2>2
  <2>4. Q = P + index[1] + 1
    <3>1. Halves!PartSum(1, index[1] + 1) = Halves!PartSum(1, index[1]) + Halves!Element(1, index[1])
      BY <1>0, <1>1, PartSums
    <3> QED BY <1>1, <1>2, <2>1, <2>2, <3>1
  <2>5. index[1] = 0 => P = 0 BY <1>0, <1>1, PartSums
  <2>6. adder[1] = "store" BY <1>0, <1>6
  <2> HIDE DEF P, Q, H
  <2>7. array_sum' >= Halves!Lesser(Q, H + 1 + index'[1])
    BY <1>1, <1>2, <1>4, <2>1, <2>3, <2>4, <2>5, <2>6 DEF Halves!Lesser
  <2> QED BY <1>1, <1>3, <1>4, <1>5, <2>1, <2>7
<1>7. CASE t = 2
  <2>1. index'[2] = index[2] + 1 /\ index'[1] = index[1] /\ adder'[2] # "store" /\ adder'[1] = adder[1]
    BY <1>0, <1>3, <1>7
  <2>2. Halves!Element(2, index[2]) = H + index[2] + 1 BY <1>1 DEF Halves!Element
  <2>3. array_sum' = read[2] + H + index[2] + 1 BY <1>1, <1>3, <1>7, <2>2
  <2>4. Q = P BY <2>1
  <2>6. adder[2] = "store" BY <1>0, <1>7
  <2> HIDE DEF P, Q, H
  <2>7. array_sum' >= H + index'[2] + (IF index'[2] > 1 THEN 1 ELSE 0)
    BY <1>1, <1>4, <2>1, <2>3, <2>6
  <2> QED BY <1>1, <1>3, <1>4, <1>5, <2>1, <2>4, <2>7
<1> QED BY <1>0, <1>6, <1>7

(* Where main and the threads are: each action moves one of them on.       *)
LEMMA PlacesStep ==
  ASSUME Halves!TypeOK, Halves!Places, Halves!Next
  PROVE  Halves!TypeOK' /\ Halves!Places'
<1>0. Halves!Threads = {1, 2} /\ Halves!Half \in Nat /\ Halves!Half >= 4
  BY HalfSize DEF Halves!Threads
<1>1. CASE Halves!Create
  <2>1. UNCHANGED <<array_sum, index, read, printed, lost>> BY <1>1 DEF Halves!Create
  <2>2. Halves!TypeOK'
    <3>1. /\ parent' \in {"create1", "create2", "join1", "join2", "failed", "done"}
          /\ adder' \in [Halves!Threads -> {"none", "print_array", "load", "store", "print", "done"}]
      BY <1>0, <1>1 DEF Halves!Create, Halves!TypeOK
    <3> QED BY <2>1, <3>1, Zenon DEF Halves!TypeOK
  <2>3. Halves!Places' BY <1>0, <1>1, <2>1 DEF Halves!Create, Halves!TypeOK, Halves!Places
  <2> QED BY <2>2, <2>3
<1>2. CASE Halves!Join
  <2>1. UNCHANGED <<array_sum, adder, index, read, printed, lost>> BY <1>2 DEF Halves!Join
  <2>2. Halves!TypeOK'
    <3>1. parent' \in {"create1", "create2", "join1", "join2", "failed", "done"}
      BY <1>2 DEF Halves!Join
    <3> QED BY <2>1, <3>1, Zenon DEF Halves!TypeOK
  <2>3. Halves!Places' BY <1>0, <1>2, <2>1 DEF Halves!Join, Halves!Places
  <2> QED BY <2>2, <2>3
<1>3. ASSUME NEW t \in Halves!Threads, Halves!print_array(t) \/ Halves!Load(t)
      PROVE  Halves!TypeOK' /\ Halves!Places'
  <2>1. /\ UNCHANGED <<array_sum, parent, index, printed, lost>>
        /\ adder' = [adder EXCEPT ![t] = IF adder[t] = "load" THEN "store" ELSE "load"]
        /\ adder[t] \in {"print_array", "load"}
    BY <1>3 DEF Halves!print_array, Halves!Load, Halves!Running
  <2>2. Halves!TypeOK'
    <3>1. /\ adder' \in [Halves!Threads -> {"none", "print_array", "load", "store", "print", "done"}]
          /\ read' \in [Halves!Threads -> Nat]
      BY <1>3, <2>1 DEF Halves!print_array, Halves!Load, Halves!TypeOK
    <3> QED BY <2>1, <3>1, Zenon DEF Halves!TypeOK
  <2>3. Halves!Places' BY <1>0, <1>3, <2>1 DEF Halves!TypeOK, Halves!Places
  <2> QED BY <2>2, <2>3
<1>4. ASSUME NEW t \in Halves!Threads, Halves!Store(t) PROVE Halves!TypeOK' /\ Halves!Places'
  <2>1. adder[t] = "store" /\ index[t] < Halves!Half BY <1>4 DEF Halves!Store, Halves!Running, Halves!Places
  <2>2. index[t] + 1 \in 0 .. Halves!Half /\ Halves!Element(t, index[t]) \in Nat BY <2>1, NextElement
  <2>3. /\ index' = [index EXCEPT ![t] = index[t] + 1] /\ UNCHANGED <<parent, read, printed>>
        /\ adder' = [adder EXCEPT ![t] = IF index[t] + 1 < Halves!Half THEN "load" ELSE "print"]
    BY <1>4 DEF Halves!Store
  <2>4. Halves!TypeOK'
    <3>1. array_sum' \in Nat BY <1>4, <2>2 DEF Halves!Store, Halves!TypeOK
    <3>2. index' \in [Halves!Threads -> 0 .. Halves!Half] BY <2>2, <2>3 DEF Halves!TypeOK
    <3>3. adder' \in [Halves!Threads -> {"none", "print_array", "load", "store", "print", "done"}]
      BY <2>3 DEF Halves!TypeOK
    <3>4. lost' \in BOOLEAN BY <1>4, Zenon DEF Halves!Store
    <3> QED BY <2>3, <3>1, <3>2, <3>3, <3>4, Zenon DEF Halves!TypeOK
  <2>5. Halves!Places' BY <1>0, <2>1, <2>2, <2>3 DEF Halves!TypeOK, Halves!Places
  <2> QED BY <2>4, <2>5
<1>5. ASSUME NEW t \in Halves!Threads, Halves!PrintSum(t) PROVE Halves!TypeOK' /\ Halves!Places'
  <2>1. /\ UNCHANGED <<array_sum, parent, index, read, lost>> /\ printed' = printed \cup {array_sum}
        /\ adder' = [adder EXCEPT ![t] = "done"] /\ adder[t] = "print"
    BY <1>5 DEF Halves!PrintSum, Halves!Running
  <2>2. Halves!TypeOK'
    <3>1. adder' \in [Halves!Threads -> {"none", "print_array", "load", "store", "print", "done"}]
          /\ printed' \subseteq Nat
      BY <2>1 DEF Halves!TypeOK
    <3> QED BY <2>1, <3>1, Zenon DEF Halves!TypeOK
  <2>3. Halves!Places' BY <1>0, <2>1 DEF Halves!TypeOK, Halves!Places
  <2> QED BY <2>2, <2>3
<1> QED BY <1>1, <1>2, <1>3, <1>4, <1>5 DEF Halves!Next, Halves!thread_func

(* Every step keeps the bounds.                                            *)
LEMMA SumsStep == Halves!IInv /\ [Halves!Next]_sumVars => Halves!IInv'
<1> SUFFICES ASSUME Halves!IInv, [Halves!Next]_sumVars PROVE Halves!IInv' OBVIOUS
<1>1. CASE UNCHANGED sumVars
  <2>1. Halves!TypeOK' /\ Halves!Places' BY <1>1 DEF sumVars, Halves!IInv, Halves!TypeOK, Halves!Places
  <2>2. /\ UNCHANGED <<array_sum, index, lost>>
        /\ \A t \in Halves!Threads : adder'[t] = "store" => adder[t] = "store" /\ read'[t] = read[t]
    BY <1>1 DEF sumVars
  <2> QED BY <2>1, <2>2, QuietStep
<1>2. CASE Halves!Next
  <2>1. Halves!TypeOK' /\ Halves!Places' BY <1>2, PlacesStep DEF Halves!IInv
  <2>2. CASE \E t \in Halves!Threads : Halves!Store(t)
    BY <2>1, <2>2, StoreAtMost, StoreAtLeast DEF Halves!IInv
  <2>3. CASE Halves!Create \/ Halves!Join
                \/ \E t \in Halves!Threads : Halves!print_array(t) \/ Halves!Load(t) \/ Halves!PrintSum(t)
    <3>1. UNCHANGED <<array_sum, index, lost>>
      BY <2>3 DEF Halves!Create, Halves!Join, Halves!print_array, Halves!Load, Halves!PrintSum
    <3>2. ASSUME NEW t \in Halves!Threads, adder'[t] = "store"
          PROVE  (adder[t] = "store" /\ read'[t] = read[t]) \/ read'[t] = array_sum
      <4>1. CASE Halves!Create \/ Halves!Join
        BY <3>2, <4>1 DEF Halves!Create, Halves!Join, Halves!IInv, Halves!TypeOK, Halves!Threads
      <4>2. CASE \E u \in Halves!Threads : Halves!print_array(u) \/ Halves!PrintSum(u)
        BY <3>2, <4>2 DEF Halves!print_array, Halves!PrintSum, Halves!IInv, Halves!TypeOK
      <4>3. CASE \E u \in Halves!Threads : Halves!Load(u)
        BY <3>2, <4>3 DEF Halves!Load, Halves!IInv, Halves!TypeOK
      <4> QED BY <2>3, <4>1, <4>2, <4>3
    <3> QED BY <2>1, <3>1, <3>2, QuietStep
  <2> QED BY <1>2, <2>2, <2>3 DEF Halves!Next, Halves!thread_func
<1> QED BY <1>1, <1>2

(* At the end the bounds are those of the whole array.                     *)
LEMMA SumsFinal == Halves!IInv => Halves!SumOfParts
<1> SUFFICES ASSUME Halves!IInv, parent = "done"
             PROVE  /\ array_sum \in printed
                    /\ array_sum = Halves!Total \/ (lost /\ array_sum \in Halves!Least .. Halves!Total)
  BY DEF Halves!SumOfParts
<1> DEFINE H == Halves!Half
           P == Halves!PartSum(1, H)
<1>0. Halves!Threads = {1, 2} /\ H \in Nat /\ H >= 4 /\ ARRAY_SIZE = 2 * H
  BY HalfSize DEF Halves!Threads
<1>1. \A t \in Halves!Threads : adder[t] = "done" /\ index[t] = H
  BY <1>0 DEF Halves!IInv, Halves!Places
<1>2. array_sum \in printed BY <1>1 DEF Halves!IInv, Halves!Places
<1>3. index[1] = H /\ index[2] = H BY <1>0, <1>1
<1>4. Halves!Added = Halves!Total BY <1>3, WholeSums DEF Halves!Added
<1>5. P >= 2 * H + 1 /\ P \in Nat
  <2>1. 1 \in Halves!Threads BY <1>0
  <2> QED BY <1>0, <2>1, WholeSums, PartSums
<1>6. \/ array_sum >= Halves!Lesser(P, H + 1 + H)
      \/ array_sum >= H + H + (IF H > 1 THEN 1 ELSE 0)
  BY <1>0, <1>3 DEF Halves!IInv, Halves!AtLeast
<1>7. array_sum \in Nat /\ array_sum <= Halves!Total /\ (lost \/ array_sum = Halves!Total)
  BY <1>4 DEF Halves!IInv, Halves!TypeOK, Halves!AtMost
<1>8. Halves!Total \in Nat
  <2>1. /\ 1 \in Halves!Threads /\ 2 \in Halves!Threads BY <1>0
  <2>2. Halves!PartSum(1, H) \in Nat /\ Halves!PartSum(2, H) \in Nat BY <1>0, <2>1, PartSums
  <2> QED BY <2>2, WholeSums
<1>9. Halves!Least = 1 + 2 * H BY <1>0 DEF Halves!Least
<1> HIDE DEF P, H
<1>10. array_sum >= Halves!Least BY <1>0, <1>5, <1>6, <1>7, <1>9 DEF Halves!Lesser
<1>11. array_sum \in Halves!Least .. Halves!Total BY <1>0, <1>7, <1>8, <1>9, <1>10
<1> QED BY <1>2, <1>7, <1>11

-------------------------------------------------------------------------------
(* sort.c: where a value is, as SelectionSort!Occurs for any array.        *)
Where(a, m, v) == {x \in 0 .. m - 1 : a[x] = v}

(* Exchanging two elements of an array changes how often no value occurs,  *)
(* by the bijection that exchanges their indices.                          *)
LEMMA Exchange ==
  ASSUME NEW m \in Nat, NEW k \in 0 .. m - 1, NEW l \in 0 .. m - 1, NEW v, NEW a, NEW b,
         \A x \in 0 .. m - 1 : b[x] = IF x = l THEN a[k] ELSE IF x = k THEN a[l] ELSE a[x]
  PROVE  Cardinality(Where(b, m, v)) = Cardinality(Where(a, m, v))
<1> DEFINE A == {x \in 0 .. m - 1 : a[x] = v}
           B == {x \in 0 .. m - 1 : b[x] = v}
           f == [x \in A |-> IF x = k THEN l ELSE IF x = l THEN k ELSE x]
<1>1. f \in [A -> B] OBVIOUS
<1>2. \A x, y \in A : f[x] = f[y] => x = y OBVIOUS
<1>3. \A y \in B : \E x \in A : f[x] = y
  <2> SUFFICES ASSUME NEW y \in B PROVE \E x \in A : f[x] = y OBVIOUS
  <2> DEFINE x == IF y = k THEN l ELSE IF y = l THEN k ELSE y
  <2>1. x \in A OBVIOUS
  <2>2. f[x] = y BY <2>1
  <2> HIDE DEF x, f, A
  <2> QED BY <2>1, <2>2
<1>4. ExistsBijection(A, B)
  <2> HIDE DEF A, B, f
  <2>1. f \in Injection(A, B) BY <1>1, <1>2 DEF Injection, IsInjective
  <2>2. f \in Surjection(A, B) BY <1>1, <1>3 DEF Surjection
  <2> QED BY <2>1, <2>2 DEF Bijection, ExistsBijection
<1>5. IsFiniteSet(A)
  <2>1. IsFiniteSet(0 .. m - 1)
    <3>1. \A p, q \in Int : IsFiniteSet(p .. q) BY FS_Interval
    <3>2. 0 \in Int /\ m - 1 \in Int OBVIOUS
    <3> QED BY <3>1, <3>2
  <2>2. A \in SUBSET (0 .. m - 1) OBVIOUS
  <2> HIDE DEF A
  <2> QED BY <2>1, <2>2, FS_Subset
<1> HIDE DEF A, B
<1> QED BY <1>4, <1>5, FS_Bijection DEF A, B, Where

(* The loops start with nothing sorted and nothing moved.                  *)
LEMMA SortInit == Sort!Init => Sort!IInv
<1> SUFFICES ASSUME Sort!Init PROVE Sort!IInv OBVIOUS
<1> USE SortAssumption DEF Sort!Init
<1>1. Sort!TypeOK BY DEF Sort!TypeOK
<1>2. Sort!Prefix /\ Sort!Minimum /\ Sort!Returns BY DEF Sort!Prefix, Sort!Minimum, Sort!Returns
<1>3. Sort!Same BY DEF Sort!Same
<1> QED BY <1>1, <1>2, <1>3 DEF Sort!IInv

(* Indices are natural numbers and elements integers.                      *)
LEMMA SortTypes ==
  Sort!IInv => /\ len \in Nat /\ i \in Nat /\ j \in Nat /\ min_index \in Nat /\ Randoms \subseteq Int
               /\ \A k \in 0 .. len - 1 : array[k] \in Int
<1> SUFFICES ASSUME Sort!TypeOK
             PROVE  /\ len \in Nat /\ i \in Nat /\ j \in Nat /\ min_index \in Nat /\ Randoms \subseteq Int
                    /\ \A k \in 0 .. len - 1 : array[k] \in Int
  BY DEF Sort!IInv
<1>1. Randoms \subseteq Int /\ MAX_LEN \in Nat BY SortAssumption
<1>2. array \in [0 .. len - 1 -> Randoms] BY DEF Sort!TypeOK, Sort!Indices
<1>3. len \in Nat /\ i \in Nat /\ j \in Nat /\ min_index \in Nat BY <1>1 DEF Sort!TypeOK
<1> QED BY <1>1, <1>2, <1>3

(* The cardinality the instance knows, and how often each value occurs.    *)
LEMMA SortCardinality == \A S : Sort!Cardinality(S) = Cardinality(S)
BY Zenon DEF Sort!Cardinality, Cardinality

LEMMA SameMeaning ==
  /\ Sort!Same <=> \A v \in Randoms : Cardinality({k \in 0 .. len - 1 : array[k] = v})
                                      = Cardinality({k \in 0 .. len - 1 : filled[k] = v})
  /\ Sort!Same' <=> \A v \in Randoms : Cardinality({k \in 0 .. len' - 1 : array'[k] = v})
                                      = Cardinality({k \in 0 .. len' - 1 : filled'[k] = v})
BY SortCardinality DEF Sort!Same, Sort!Occurs, Sort!Indices

(* Nothing is lost where the array does not change.                        *)
LEMMA SameKept == Sort!Same /\ UNCHANGED <<array, len, filled>> => Sort!Same'
BY DEF Sort!Same, Sort!Occurs, Sort!Indices

(* An empty array ends at once; the next round starts at its first element. *)
LEMMA CallStep == Sort!IInv /\ (Sort!Call \/ Sort!Outer) => Sort!IInv'
<1> SUFFICES ASSUME Sort!IInv, Sort!Call \/ Sort!Outer PROVE Sort!IInv' OBVIOUS
<1>0. Sort!TypeOK /\ Sort!Prefix /\ Sort!Minimum /\ Sort!Same /\ Sort!Returns BY DEF Sort!IInv
<1>1. UNCHANGED <<array, len, filled, i>> BY DEF Sort!Call, Sort!Outer
<1>2. Sort!Same' BY <1>0, <1>1, SameKept
<1>3. Sort!TypeOK' BY <1>0, <1>1, SortAssumption DEF Sort!TypeOK, Sort!Indices, Sort!Call, Sort!Outer
<1>4. Sort!Prefix' BY <1>0, <1>1 DEF Sort!Prefix
<1>5. Sort!Minimum' /\ Sort!Returns'
  <2>1. CASE Sort!Call
    BY <1>0, <1>1, <2>1, SortTypes DEF Sort!Call, Sort!Minimum, Sort!Returns, Sort!Prefix
  <2>2. CASE Sort!Outer
    BY <1>0, <1>1, <2>2, SortTypes DEF Sort!Outer, Sort!Minimum, Sort!Returns, Sort!Prefix
  <2> QED BY <2>1, <2>2
<1> QED BY <1>2, <1>3, <1>4, <1>5 DEF Sort!IInv

(* The smaller of the smallest so far and the next element is remembered.  *)
LEMMA InnerStep == Sort!IInv /\ Sort!Inner => Sort!IInv'
<1> SUFFICES ASSUME Sort!IInv, Sort!Inner PROVE Sort!IInv' OBVIOUS
<1>0. Sort!TypeOK /\ Sort!Prefix /\ Sort!Minimum /\ Sort!Same /\ Sort!Returns BY DEF Sort!IInv
<1>1. UNCHANGED <<array, len, filled, i, err>> /\ sorter = "inner" BY DEF Sort!Inner
<1>2. Sort!Same' BY <1>0, <1>1, SameKept
<1>3. Sort!Prefix' BY <1>0, <1>1 DEF Sort!Prefix
<1>4. Sort!TypeOK'
  BY <1>0, <1>1, SortTypes, SortAssumption DEF Sort!TypeOK, Sort!Indices, Sort!Minimum, Sort!Inner
<1>5. Sort!Returns' BY <1>0, <1>1 DEF Sort!Returns, Sort!Inner
<1>6. Sort!Minimum'
  <2>1. /\ i < len - 1 /\ j \in i + 1 .. len /\ min_index \in i .. j - 1
        /\ \A k \in i .. j - 1 : array[min_index] <= array[k]
    BY <1>0, <1>1 DEF Sort!Minimum
  <2>2. CASE j < len
    <3>1. /\ min_index' = (IF array[j] < array[min_index] THEN j ELSE min_index)
          /\ j' = j + 1 /\ sorter' = "inner"
      BY <1>1, <2>2 DEF Sort!Inner
    <3>2. \A k \in i .. j : array[min_index'] <= array[k]
      <4> SUFFICES ASSUME NEW k \in i .. j PROVE array[min_index'] <= array[k] OBVIOUS
      <4>1. array[k] \in Int /\ array[j] \in Int /\ array[min_index] \in Int
        BY <2>1, <2>2, SortTypes
      <4>2. k = j \/ array[min_index] <= array[k] BY <2>1, SortTypes
      <4> QED BY <3>1, <4>1, <4>2
    <3> QED BY <1>1, <2>1, <2>2, <3>1, <3>2, SortTypes DEF Sort!Minimum
  <2>3. CASE ~(j < len)
    BY <1>1, <2>1, <2>3, SortTypes DEF Sort!Minimum, Sort!Inner
  <2> QED BY <2>2, <2>3
<1> QED BY <1>2, <1>3, <1>4, <1>5, <1>6 DEF Sort!IInv

(* The smallest of the rest joins the sorted part.                         *)
LEMMA SwapStep == Sort!IInv /\ Sort!Swap => Sort!IInv'
<1> SUFFICES ASSUME Sort!IInv, Sort!Swap PROVE Sort!IInv' OBVIOUS
<1>0. Sort!TypeOK /\ Sort!Prefix /\ Sort!Minimum /\ Sort!Same /\ Sort!Returns BY DEF Sort!IInv
<1>1. /\ array' = [array EXCEPT ![i] = array[min_index], ![min_index] = array[i]]
      /\ i' = i + 1 /\ sorter' = "outer" /\ sorter = "swap"
      /\ UNCHANGED <<len, filled, j, min_index, err>>
  BY DEF Sort!Swap
<1>2. /\ i < len - 1 /\ j = len /\ min_index \in i .. len - 1 /\ i \in 0 .. len - 1
      /\ \A k \in i .. len - 1 : array[min_index] <= array[k]
      /\ \A k \in 0 .. i - 1 : \A l \in k + 1 .. len - 1 : array[k] <= array[l]
  <2>1. i < len - 1 /\ j = len /\ min_index \in i .. j - 1
        /\ \A k \in i .. j - 1 : array[min_index] <= array[k]
    BY <1>0, <1>1 DEF Sort!Minimum
  <2>2. len > 0 BY <2>1, SortTypes
  <2> QED BY <1>0, <2>1, <2>2 DEF Sort!Prefix
<1>3. /\ array \in [0 .. len - 1 -> Randoms] /\ len \in Nat /\ i \in Nat
      /\ i \in 0 .. len - 1 /\ min_index \in 0 .. len - 1
  BY <1>0, <1>2, SortTypes DEF Sort!TypeOK, Sort!Indices
<1>4. /\ array' \in [0 .. len - 1 -> Randoms]
      /\ \A k \in 0 .. len - 1 : array'[k] = IF k = min_index THEN array[i]
                                             ELSE IF k = i THEN array[min_index] ELSE array[k]
  BY <1>1, <1>3
<1>5. Sort!TypeOK'
  BY <1>0, <1>1, <1>2, <1>4, SortTypes, SortAssumption DEF Sort!TypeOK, Sort!Indices
<1>6. Sort!Prefix'
  <2> SUFFICES ASSUME NEW k \in 0 .. i, NEW l \in k + 1 .. len - 1 PROVE array'[k] <= array'[l]
    BY <1>1, <1>2, <1>3 DEF Sort!Prefix
  <2>1. \A x \in 0 .. len - 1 : array[x] \in Int BY SortTypes
  <2>2. k \in 0 .. len - 1 /\ l \in 0 .. len - 1 /\ k < l BY <1>3
  <2>3. CASE k = i
    <3>1. array'[k] = array[min_index] BY <1>4, <2>2, <2>3
    <3>2. \E x \in i .. len - 1 : array'[l] = array[x]
      <4>1. CASE l = min_index BY <1>2, <1>3, <1>4, <2>2, <4>1
      <4>2. CASE l # min_index
        <5>1. array'[l] = array[l] /\ l \in i .. len - 1 BY <1>3, <1>4, <2>2, <2>3, <4>2
        <5> QED BY <5>1
      <4> QED BY <4>1, <4>2
    <3> QED BY <1>2, <3>1, <3>2
  <2>4. CASE k # i
    <3>1. k \in 0 .. i - 1 /\ array'[k] = array[k] BY <1>2, <1>3, <1>4, <2>2, <2>4
    <3>2. \E x \in k + 1 .. len - 1 : array'[l] = array[x]
      <4>1. CASE l = min_index
        <5>1. array'[l] = array[i] /\ i \in k + 1 .. len - 1 BY <1>3, <1>4, <2>2, <3>1, <4>1
        <5> QED BY <5>1
      <4>2. CASE l = i /\ l # min_index
        <5>1. array'[l] = array[min_index] /\ min_index \in k + 1 .. len - 1
          BY <1>2, <1>3, <1>4, <2>2, <3>1, <4>2
        <5> QED BY <5>1
      <4>3. CASE l # i /\ l # min_index BY <1>4, <2>2, <4>3
      <4> QED BY <4>1, <4>2, <4>3
    <3> QED BY <1>2, <3>1, <3>2
  <2> QED BY <2>3, <2>4
<1>7. Sort!Minimum' /\ Sort!Returns' BY <1>0, <1>1, <1>2, <1>3 DEF Sort!Minimum, Sort!Returns
<1>8. Sort!Same'
  <2> SUFFICES ASSUME NEW v \in Randoms
               PROVE  Cardinality({k \in 0 .. len - 1 : array'[k] = v})
                        = Cardinality({k \in 0 .. len - 1 : array[k] = v})
    BY <1>0, <1>1, SameMeaning
  <2>1. PICK m, a, b, k, l : m = len /\ a = array /\ b = array' /\ k = i /\ l = min_index
    OBVIOUS
  <2>2. /\ m \in Nat /\ k \in 0 .. m - 1 /\ l \in 0 .. m - 1
        /\ \A x \in 0 .. m - 1 : b[x] = IF x = l THEN a[k] ELSE IF x = k THEN a[l] ELSE a[x]
    BY <1>3, <1>4, <2>1
  <2>3. Cardinality(Where(b, m, v)) = Cardinality(Where(a, m, v)) BY <2>2, Exchange
  <2> QED BY <2>1, <2>3 DEF Where
<1> QED BY <1>5, <1>6, <1>7, <1>8 DEF Sort!IInv

(* Every step of main keeps the loop invariant.                            *)
LEMMA SortStep == Sort!IInv /\ [Sort!Next]_sortVars => Sort!IInv'
<1> SUFFICES ASSUME Sort!IInv, [Sort!Next]_sortVars PROVE Sort!IInv' OBVIOUS
<1>1. CASE Sort!Returned \/ UNCHANGED sortVars
  <2>1. UNCHANGED <<array, len, filled, i, j, min_index, sorter, err>>
    BY <1>1 DEF Sort!Returned, Sort!vars, sortVars
  <2>2. Sort!Same' BY <2>1, SameKept DEF Sort!IInv
  <2> QED BY <2>1, <2>2 DEF Sort!IInv, Sort!TypeOK, Sort!Indices, Sort!Prefix, Sort!Minimum, Sort!Returns
<1> QED BY <1>1, CallStep, InnerStep, SwapStep DEF Sort!Next

(* With the loop over, what is left is the largest.                        *)
LEMMA SortFinal == Sort!IInv => Sort!SortsThem
<1> SUFFICES ASSUME Sort!IInv, sorter = "done", len # 0,
                    NEW k \in 0 .. len - 1, NEW l \in 0 .. len - 1, k <= l
             PROVE  array[k] <= array[l]
  BY DEF Sort!SortsThem, Sort!IInv, Sort!Returns, Sort!Indices
<1>1. i = len - 1 /\ len \in Nat /\ array[k] \in Int /\ array[l] \in Int
  BY SortTypes DEF Sort!IInv, Sort!Returns
<1>2. \A x \in 0 .. i - 1 : \A y \in x + 1 .. len - 1 : array[x] <= array[y]
  BY <1>1 DEF Sort!IInv, Sort!Prefix
<1>3. CASE k = l BY <1>1, <1>3
<1>4. CASE k # l
  <2>1. k \in 0 .. i - 1 /\ l \in k + 1 .. len - 1 BY <1>1, <1>4
  <2> QED BY <1>2, <2>1
<1> QED BY <1>3, <1>4

-------------------------------------------------------------------------------
(* homework3/array: the cardinality the instance knows.                    *)
LEMMA FileCardinality == \A S : File!Cardinality(S) = Cardinality(S)
BY Zenon DEF File!Cardinality, Cardinality

(* How many elements of a finite set of numbers are not greater than one.  *)
LEMMA RankMeaning == \A S, q : File!Rank(S, q) = Cardinality({r \in S : r <= q})
BY FileCardinality, Zenon DEF File!Rank

LEMMA RankRange ==
  ASSUME NEW S \in SUBSET Nat, IsFiniteSet(S), NEW q \in S
  PROVE  Cardinality(S) \in Nat /\ File!Rank(S, q) \in 1 .. Cardinality(S)
<1> DEFINE A == {r \in S : r <= q}
<1>1. A \in SUBSET S /\ A # {} OBVIOUS
<1>2. File!Rank(S, q) = Cardinality(A) BY RankMeaning
<1> HIDE DEF A
<1>3. IsFiniteSet(A) /\ Cardinality(A) <= Cardinality(S) BY <1>1, FS_Subset
<1>4. Cardinality(A) \in Nat /\ Cardinality(S) \in Nat BY <1>3, FS_CardinalityType
<1>5. Cardinality(A) # 0 BY <1>1, <1>3, FS_EmptySet
<1> QED BY <1>2, <1>3, <1>4, <1>5

LEMMA RankUnique ==
  ASSUME NEW S \in SUBSET Nat, IsFiniteSet(S), NEW p \in S, NEW q \in S,
         File!Rank(S, p) = File!Rank(S, q)
  PROVE  p = q
<1>1. ASSUME NEW x \in S, NEW y \in S, x < y, File!Rank(S, x) = File!Rank(S, y) PROVE FALSE
  <2> DEFINE A == {r \in S : r <= x}
             B == {r \in S : r <= y}
  <2>0. x \in Nat /\ y \in Nat /\ S \subseteq Nat OBVIOUS
  <2>a. \A r \in Nat : r <= x => r <= y BY <1>1, <2>0
  <2>b. ~ y <= x /\ y <= y BY <1>1, <2>0
  <2>1. B \in SUBSET S /\ A \in SUBSET B /\ y \in B /\ y \notin A BY <2>0, <2>a, <2>b
  <2>2. Cardinality(A) = Cardinality(B) BY <1>1, RankMeaning
  <2> HIDE DEF A, B
  <2>3. IsFiniteSet(B) BY <2>1, FS_Subset
  <2>4. A = B BY <2>1, <2>2, <2>3, FS_Subset
  <2> QED BY <2>1, <2>4
<1>2. p \in Nat /\ q \in Nat OBVIOUS
<1> QED BY <1>1, <1>2

(* Nth finds the element of a rank, and there is one of each.              *)
LEMMA NthIs ==
  ASSUME NEW S \in SUBSET Nat, IsFiniteSet(S), NEW q \in S, NEW k, File!Rank(S, q) = k
  PROVE  File!Nth(S, k) = q
<1>1. File!Nth(S, k) \in S /\ File!Rank(S, File!Nth(S, k)) = k
  BY Zenon DEF File!Nth
<1> QED BY <1>1, RankUnique

LEMMA NthRank ==
  ASSUME NEW S \in SUBSET Nat, IsFiniteSet(S), NEW k \in 1 .. Cardinality(S)
  PROVE  File!Nth(S, k) \in S /\ File!Rank(S, File!Nth(S, k)) = k
<1> DEFINE T == 1 .. Cardinality(S)
           f == [q \in S |-> File!Rank(S, q)]
<1>1. Cardinality(S) \in Nat BY FS_CardinalityType
<1>2. IsFiniteSet(T) /\ Cardinality(T) = Cardinality(S)
  <2>1. \A a, b \in Int : IsFiniteSet(a .. b) /\ Cardinality(a .. b) = IF a > b THEN 0 ELSE b - a + 1
    BY FS_Interval
  <2>2. 1 \in Int /\ Cardinality(S) \in Int BY <1>1
  <2>3. IsFiniteSet(T) /\ Cardinality(T) = IF 1 > Cardinality(S) THEN 0 ELSE Cardinality(S) - 1 + 1
    BY <2>1, <2>2
  <2> QED BY <1>1, <2>3
<1>3. f \in Injection(S, T)
  <2>1. f \in [S -> T] BY RankRange
  <2>2. \A p, q \in S : f[p] = f[q] => p = q BY RankUnique
  <2> QED BY <2>1, <2>2 DEF Injection, IsInjective
<1>4. k \in T OBVIOUS
<1> HIDE DEF T, f
<1>5. f \in Surjection(S, T) BY <1>2, <1>3, FS_Injection
<1>6. PICK q \in S : f[q] = k BY <1>4, <1>5 DEF Surjection
<1>7. File!Rank(S, q) = k BY <1>6 DEF f
<1> QED BY <1>7, NthIs

(* A new greatest element comes after all the others.                      *)
LEMMA NthAdded ==
  ASSUME NEW S \in SUBSET Nat, IsFiniteSet(S), NEW m \in Nat, \A r \in S : r < m,
         NEW T, T = S \cup {m}
  PROVE  /\ T \in SUBSET Nat /\ IsFiniteSet(T) /\ Cardinality(T) = Cardinality(S) + 1
         /\ \A k \in 1 .. Cardinality(S) : File!Nth(T, k) = File!Nth(S, k)
         /\ File!Nth(T, Cardinality(S) + 1) = m
<1>1. T \in SUBSET Nat /\ m \notin S /\ m \in T OBVIOUS
<1>2. IsFiniteSet(T) /\ Cardinality(T) = Cardinality(S) + 1 BY <1>1, FS_AddElement
<1>3. ASSUME NEW k \in 1 .. Cardinality(S) PROVE File!Nth(T, k) = File!Nth(S, k)
  <2> DEFINE q == File!Nth(S, k)
  <2>1. q \in S /\ File!Rank(S, q) = k BY NthRank
  <2> HIDE DEF q
  <2>2. {r \in T : r <= q} = {r \in S : r <= q} /\ q \in T BY <2>1
  <2>3. File!Rank(T, q) = k BY <2>1, <2>2, RankMeaning
  <2>4. File!Nth(T, k) = q BY <1>1, <1>2, <2>2, <2>3, NthIs
  <2> QED BY <2>4 DEF q
<1>4. File!Nth(T, Cardinality(S) + 1) = m
  <2>0. \A r \in T : r <= m
    <3> SUFFICES ASSUME NEW r \in T PROVE r <= m OBVIOUS
    <3>1. r \in Nat /\ (r = m \/ r < m) OBVIOUS
    <3> QED BY <3>1
  <2>1. {r \in T : r <= m} = T BY <2>0
  <2>2. File!Rank(T, m) = Cardinality(S) + 1 BY <1>2, <2>1, RankMeaning
  <2> QED BY <1>1, <1>2, <2>2, NthIs
<1> QED BY <1>1, <1>2, <1>3, <1>4

(* The commas up to a place.                                               *)
LEMMA PlacesFinite ==
  \A p \in Int : \A S : S \subseteq 1 .. p => IsFiniteSet(S) /\ Cardinality(S) \in Nat /\ S \subseteq Nat
<1> SUFFICES ASSUME NEW p \in Int, NEW S \in SUBSET (1 .. p)
             PROVE  IsFiniteSet(S) /\ Cardinality(S) \in Nat /\ S \subseteq Nat
  OBVIOUS
<1>1. \A a, b \in Int : IsFiniteSet(a .. b) BY FS_Interval
<1>2. IsFiniteSet(1 .. p) BY <1>1
<1>3. IsFiniteSet(S) BY <1>2, FS_Subset
<1> QED BY <1>3, FS_CardinalityType

LEMMA CommasMeaning == \A p : File!Commas(p) = Cardinality({q \in 1 .. p : file[q] = File!Comma})
BY FileCardinality, Zenon DEF File!Commas

LEMMA CommasStep ==
  ASSUME NEW p \in Nat
  PROVE  /\ File!Commas(p) \in Nat /\ File!Commas(0) = 0
         /\ File!Commas(p + 1) = File!Commas(p) + (IF file[p + 1] = File!Comma THEN 1 ELSE 0)
<1> DEFINE A == {q \in 1 .. p : file[q] = File!Comma}
           B == {q \in 1 .. p + 1 : file[q] = File!Comma}
<1>1. A \subseteq 1 .. p /\ p \in Int /\ p + 1 \notin A OBVIOUS
<1>2. B = IF file[p + 1] = File!Comma THEN A \cup {p + 1} ELSE A OBVIOUS
<1>3. {q \in 1 .. 0 : file[q] = File!Comma} = {} OBVIOUS
<1>4. File!Commas(0) = 0 BY <1>3, CommasMeaning, FS_EmptySet
<1>5. File!Commas(p) = Cardinality(A) /\ File!Commas(p + 1) = Cardinality(B) BY CommasMeaning
<1> HIDE DEF A, B
<1>6. IsFiniteSet(A) /\ Cardinality(A) \in Nat BY <1>1, PlacesFinite
<1>7. Cardinality(A \cup {p + 1}) = Cardinality(A) + 1 BY <1>1, <1>6, FS_AddElement
<1> QED BY <1>2, <1>4, <1>5, <1>6, <1>7

LEMMA CommasGrow ==
  ASSUME NEW p \in Nat, NEW q \in Nat, p <= q
  PROVE  File!Commas(p) <= File!Commas(q)
<1> DEFINE A == {r \in 1 .. p : file[r] = File!Comma}
           B == {r \in 1 .. q : file[r] = File!Comma}
<1>1. B \subseteq 1 .. q /\ q \in Int /\ A \subseteq B OBVIOUS
<1>2. File!Commas(p) = Cardinality(A) /\ File!Commas(q) = Cardinality(B) BY CommasMeaning
<1> HIDE DEF A, B
<1>3. IsFiniteSet(B) BY <1>1, PlacesFinite
<1> QED BY <1>1, <1>2, <1>3, FS_Subset

(* What belongs to a field, as one more character is read.                 *)
LEMMA OwnType ==
  ASSUME NEW k, NEW p \in Nat
  PROVE  /\ File!Own(k, p) \in SUBSET (1 .. p) /\ File!Own(k, p) \in SUBSET Nat
         /\ IsFiniteSet(File!Own(k, p)) /\ Cardinality(File!Own(k, p)) \in Nat
<1>1. File!Own(k, p) \subseteq 1 .. p /\ p \in Int BY DEF File!Own
<1> QED BY <1>1, PlacesFinite

LEMMA OwnStep ==
  ASSUME NEW k, NEW p \in Nat
  PROVE  File!Own(k, p + 1) = IF File!Commas(p + 1) = k /\ File!Numeric(file[p + 1])
                              THEN File!Own(k, p) \cup {p + 1} ELSE File!Own(k, p)
BY DEF File!Own

(* A field ends with its comma.                                            *)
LEMMA OwnOver ==
  ASSUME NEW k \in Nat, NEW p \in Nat, NEW q \in Nat, p <= q, p = q \/ File!Commas(p + 1) > k
  PROVE  File!Own(k, q) = File!Own(k, p)
<1>1. CASE p = q BY <1>1
<1>2. CASE p < q /\ File!Commas(p + 1) > k
  <2>1. ASSUME NEW r \in p + 1 .. q PROVE File!Commas(r) # k
    <3>1. r \in Nat /\ p + 1 \in Nat /\ p + 1 <= r OBVIOUS
    <3>2. File!Commas(p + 1) <= File!Commas(r) /\ File!Commas(r) \in Nat /\ File!Commas(p + 1) \in Nat
      BY <3>1, CommasGrow, CommasStep
    <3> QED BY <1>2, <3>2
  <2>2. \A r \in 1 .. q : r \in 1 .. p \/ r \in p + 1 .. q OBVIOUS
  <2>3. \A r \in 1 .. p : r \in 1 .. q OBVIOUS
  <2> QED BY <2>1, <2>2, <2>3 DEF File!Own
<1> QED BY <1>1, <1>2

LEMMA OwnNone ==
  ASSUME NEW k \in Nat, NEW p \in Nat, File!Commas(p) < k
  PROVE  File!Own(k, p) = {}
<1> SUFFICES ASSUME NEW q \in File!Own(k, p) PROVE FALSE OBVIOUS
<1>1. q \in Nat /\ q <= p /\ File!Commas(q) = k BY DEF File!Own
<1>2. File!Commas(q) <= File!Commas(p) BY <1>1, CommasGrow
<1> QED BY <1>1, <1>2, CommasStep

(* The least and the greatest of a set.                                    *)
LEMMA FileMin == \A a, b \in Int : File!Min({a, b}) = IF a <= b THEN a ELSE b
<1> SUFFICES ASSUME NEW a \in Int, NEW b \in Int PROVE File!Min({a, b}) = IF a <= b THEN a ELSE b
  OBVIOUS
<1>1. \E x \in {a, b} : \A y \in {a, b} : x <= y OBVIOUS
<1>2. File!Min({a, b}) \in {a, b} /\ \A y \in {a, b} : File!Min({a, b}) <= y
  BY <1>1, Zenon DEF File!Min
<1> QED BY <1>2

LEMMA FileMax ==
  ASSUME NEW S \in SUBSET Int, NEW m \in S, \A x \in S : x <= m
  PROVE  File!Max(S) = m
<1>1. \E x \in S : \A y \in S : x >= y BY Zenon, \A y \in S : m >= y
<1>2. File!Max(S) \in S /\ \A y \in S : File!Max(S) >= y BY <1>1, Zenon DEF File!Max
<1>3. File!Max(S) \in Int /\ m \in Int BY <1>2
<1>4. File!Max(S) <= m /\ File!Max(S) >= m BY <1>2
<1> QED BY <1>3, <1>4

(* The text of a field.                                                    *)
LEMMA TextIs ==
  ASSUME NEW k, NEW p \in Nat
  PROVE  LET c == Cardinality(File!Own(k, p))
             m == IF c <= CHARS THEN c ELSE CHARS
         IN File!TextTo(k, p) = [x \in 1 .. m |-> file[File!Nth(File!Own(k, p), x)]]
<1> DEFINE c == Cardinality(File!Own(k, p))
<1>1. c \in Int /\ CHARS \in Int BY OwnType, FileAssumption
<1>2. File!Cardinality(File!Own(k, p)) = c BY FileCardinality
<1> HIDE DEF c
<1>3. File!Min({c, CHARS}) = IF c <= CHARS THEN c ELSE CHARS BY <1>1, FileMin
<1> QED BY <1>2, <1>3 DEF File!TextTo, c

LEMMA TextEmpty ==
  ASSUME NEW k, NEW p \in Nat
  PROVE  File!TextTo(k, p) = <<>> <=> File!Own(k, p) = {}
<1> DEFINE S == File!Own(k, p)
           m == IF Cardinality(S) <= CHARS THEN Cardinality(S) ELSE CHARS
           f(x) == file[File!Nth(S, x)]
<1>1. IsFiniteSet(S) /\ Cardinality(S) \in Nat BY OwnType
<1>2. Cardinality(S) = 0 <=> S = {} BY <1>1, FS_EmptySet
<1>3. CHARS \in Nat \ {0} BY FileAssumption
<1>4. File!TextTo(k, p) = [x \in 1 .. m |-> f(x)] BY TextIs
<1> HIDE DEF S, f
<1>5. m \in Nat /\ (m = 0 <=> S = {}) BY <1>1, <1>2, <1>3
<1> HIDE DEF m
<1>6. CASE m = 0
  <2>1. [x \in 1 .. m |-> f(x)] = <<>> BY <1>6
  <2> QED BY <1>4, <1>5, <1>6, <2>1 DEF S
<1>7. CASE m # 0
  <2>1. DOMAIN [x \in 1 .. m |-> f(x)] # {} BY <1>5, <1>7
  <2>2. DOMAIN <<>> = {} OBVIOUS
  <2> QED BY <1>4, <1>5, <1>7, <2>1, <2>2 DEF S
<1> QED BY <1>6, <1>7

LEMMA TextSet ==
  ASSUME NEW k, NEW p \in Nat
  PROVE  File!TextTo(k, p) # File!Unset
<1> SUFFICES ASSUME File!TextTo(k, p) = File!Unset PROVE FALSE OBVIOUS
<1> DEFINE S == File!Own(k, p)
           m == IF Cardinality(S) <= CHARS THEN Cardinality(S) ELSE CHARS
           f(x) == file[File!Nth(S, x)]
<1>1. S \in SUBSET Nat /\ IsFiniteSet(S) /\ Cardinality(S) \in Nat BY OwnType
<1>2. CHARS \in Nat \ {0} BY FileAssumption
<1>3. File!TextTo(k, p) = [x \in 1 .. m |-> f(x)] BY TextIs
<1>4. \A q \in S : File!Numeric(file[q]) BY DEF File!Own
<1> HIDE DEF S, f
<1>5. m \in Nat /\ m <= Cardinality(S) BY <1>1, <1>2
<1> HIDE DEF m
<1>6. [x \in 1 .. m |-> f(x)] = <<File!Other>> BY <1>3 DEF File!Unset
<1>7. 1 \in 1 .. m /\ f(1) = File!Other
  <2>1. DOMAIN <<File!Other>> = 1 .. 1 /\ <<File!Other>>[1] = File!Other OBVIOUS
  <2>2. DOMAIN [x \in 1 .. m |-> f(x)] = 1 .. m OBVIOUS
  <2>3. 1 \in 1 .. m BY <1>6, <2>1, <2>2
  <2>4. [x \in 1 .. m |-> f(x)][1] = f(1) BY <2>3
  <2> QED BY <1>6, <2>1, <2>3, <2>4
<1>8. 1 \in 1 .. Cardinality(S) BY <1>1, <1>5, <1>7
<1>9. File!Nth(S, 1) \in S BY <1>1, <1>8, NthRank
<1>10. File!Numeric(File!Other) BY <1>4, <1>7, <1>9 DEF f
<1> QED BY <1>10, FileAssumption DEF File!Numeric, File!Other, File!Minus

LEMMA TextSame ==
  ASSUME NEW k, NEW p, NEW q, File!Own(k, p) = File!Own(k, q)
  PROVE  File!TextTo(k, p) = File!TextTo(k, q)
BY Zenon DEF File!TextTo

(* A sequence with one more element.                                       *)
LEMMA OneMore ==
  ASSUME NEW S, NEW c \in Nat, NEW s \in [1 .. c -> S], NEW d \in S, NEW t \in [1 .. c + 1 -> S],
         \A x \in 1 .. c : t[x] = s[x], t[c + 1] = d
  PROVE  Len(s) = c /\ t = Append(s, d)
<1>1. s \in Seq(S) /\ Len(s) = c OBVIOUS
<1>2. t \in Seq(S) /\ Len(t) = c + 1 OBVIOUS
<1>3. /\ Append(s, d) \in Seq(S) /\ Len(Append(s, d)) = c + 1
      /\ \A x \in 1 .. c : Append(s, d)[x] = s[x]
      /\ Append(s, d)[c + 1] = d
  BY <1>1, AppendProperties
<1>4. \A x \in 1 .. c + 1 : t[x] = Append(s, d)[x]
  <2> SUFFICES ASSUME NEW x \in 1 .. c + 1 PROVE t[x] = Append(s, d)[x] OBVIOUS
  <2>1. x \in 1 .. c \/ x = c + 1 OBVIOUS
  <2> QED BY <1>3, <2>1
<1> QED BY <1>1, <1>2, <1>3, <1>4, SeqEqual

(* One more character of a field.                                          *)
LEMMA TextDigit ==
  ASSUME NEW k, NEW p \in Nat, File!Commas(p + 1) = k, File!Numeric(file[p + 1])
  PROVE  /\ File!TextTo(k, p + 1) # <<>>
         /\ File!TextTo(k, p) = <<>> => File!TextTo(k, p + 1) = <<file[p + 1]>>
         /\ File!TextTo(k, p + 1) = IF Len(File!TextTo(k, p)) < CHARS
                                    THEN Append(File!TextTo(k, p), file[p + 1])
                                    ELSE File!TextTo(k, p)
<1> DEFINE S == File!Own(k, p)
           T == File!Own(k, p + 1)
           c == Cardinality(S)
           m == IF c <= CHARS THEN c ELSE CHARS
           f(x) == file[File!Nth(S, x)]
           g(x) == file[File!Nth(T, x)]
           d == file[p + 1]
           F == [x \in 1 .. m |-> f(x)]
<1>1. /\ S \in SUBSET Nat /\ IsFiniteSet(S) /\ c \in Nat
      /\ \A r \in S : r < p + 1
  BY OwnType
<1>2. T = S \cup {p + 1} BY OwnStep
<1>3. /\ Cardinality(T) = c + 1
      /\ \A x \in 1 .. c : g(x) = f(x)
      /\ g(c + 1) = d
  <2> HIDE DEF S, T
  <2>1. p + 1 \in Nat OBVIOUS
  <2>2. /\ Cardinality(T) = Cardinality(S) + 1
        /\ \A x \in 1 .. Cardinality(S) : File!Nth(T, x) = File!Nth(S, x)
        /\ File!Nth(T, Cardinality(S) + 1) = p + 1
    <3>1. Cardinality(S) \in Nat /\ S \in SUBSET Nat /\ IsFiniteSet(S) /\ \A r \in S : r < p + 1 BY <1>1
    <3> HIDE DEF c, f, g, d, F
    <3> QED BY <1>2, <2>1, <3>1, NthAdded
  <2> QED BY <2>2
<1>4. CHARS \in Nat \ {0} BY FileAssumption
<1>5. File!TextTo(k, p) = F BY TextIs
<1>6. File!TextTo(k, p + 1) = [x \in 1 .. IF Cardinality(T) <= CHARS THEN Cardinality(T) ELSE CHARS |-> g(x)]
  <2>1. \A q \in Nat : File!TextTo(k, q)
          = [x \in 1 .. (IF Cardinality(File!Own(k, q)) <= CHARS THEN Cardinality(File!Own(k, q)) ELSE CHARS)
               |-> file[File!Nth(File!Own(k, q), x)]]
    BY TextIs
  <2>2. p + 1 \in Nat OBVIOUS
  <2> QED BY <2>1, <2>2
<1>7. p + 1 \in T BY <1>2
<1>8. File!TextTo(k, p + 1) # <<>>
  <2>1. p + 1 \in Nat OBVIOUS
  <2> QED BY <1>7, <2>1, TextEmpty
<1> HIDE DEF S, T, f, g, d, c
<1>9. m \in Nat /\ m <= c /\ m <= CHARS BY <1>1, <1>4
<1>10. CASE c < CHARS
  <2>1. File!TextTo(k, p + 1) = [x \in 1 .. c + 1 |-> g(x)] /\ m = c BY <1>1, <1>3, <1>4, <1>6, <1>10
  <2> DEFINE G == [x \in 1 .. c + 1 |-> g(x)]
             V == {g(x) : x \in 1 .. c + 1}
  <2>2. /\ c \in Nat /\ F \in [1 .. c -> V] /\ d \in V /\ G \in [1 .. c + 1 -> V]
        /\ \A x \in 1 .. c : G[x] = F[x]
        /\ G[c + 1] = d
    <3>1. \A x \in 1 .. c : x \in 1 .. c + 1 BY <1>1
    <3>2. c + 1 \in 1 .. c + 1 BY <1>1
    <3> QED BY <1>1, <1>3, <2>1, <3>1, <3>2
  <2> HIDE DEF F, G, V, m
  <2>3. Len(F) = c /\ G = Append(F, d) BY <2>2, OneMore
  <2>4. F = <<>> => G = <<d>>
    <3>1. Append(<<>>, d) = <<d>> OBVIOUS
    <3> QED BY <2>3, <3>1
  <2> QED BY <1>5, <1>8, <1>10, <2>1, <2>3, <2>4 DEF G, d
<1>11. CASE ~ c < CHARS
  <2>1. File!TextTo(k, p + 1) = [x \in 1 .. CHARS |-> g(x)] /\ m = CHARS BY <1>1, <1>3, <1>4, <1>6, <1>11
  <2>2. F = [x \in 1 .. CHARS |-> g(x)]
    <3>1. \A x \in 1 .. CHARS : g(x) = f(x) BY <1>1, <1>3, <1>4, <1>11
    <3> QED BY <2>1, <3>1
  <2>3. Len(F) = CHARS BY <1>4, <2>1
  <2>4. F # <<>>
    <3>1. Len(<<>>) = 0 OBVIOUS
    <3> QED BY <1>4, <2>3, <3>1
  <2> HIDE DEF F
  <2> QED BY <1>4, <1>5, <1>8, <2>1, <2>2, <2>3, <2>4
<1> QED BY <1>10, <1>11

(* A field that has ended keeps its text.                                  *)
LEMMA TextOver ==
  ASSUME NEW p \in 0 .. Len(file), Len(file) \in Nat,
         p = Len(file) \/ (File!Commas(p + 1) > File!Commas(p))
  PROVE  File!Text(File!Commas(p)) = File!TextTo(File!Commas(p), p)
<1>1. p \in Nat /\ p <= Len(file) /\ File!Commas(p) \in Nat BY CommasStep
<1>2. File!Own(File!Commas(p), Len(file)) = File!Own(File!Commas(p), p) BY <1>1, OwnOver
<1> QED BY <1>2, TextSame DEF File!Text

(* The last of the fields that are not empty.                              *)
LEMMA FilledMax ==
  ASSUME NEW k \in Nat, File!Text(k) # <<>>
  PROVE  File!Max(File!Filled(k)) = k
<1>1. File!Filled(k) \in SUBSET Int /\ k \in File!Filled(k) /\ \A l \in File!Filled(k) : l <= k
  BY DEF File!Filled
<1> QED BY <1>1, FileMax

LEMMA FilledSkip ==
  ASSUME NEW k \in Nat, File!Text(k) = <<>>
  PROVE  File!Filled(k) = IF k = 0 THEN {} ELSE File!Filled(k - 1)
BY DEF File!Filled

(* number holds the text of the field under way, or of the last before it  *)
(* that is not empty.                                                      *)
LEMMA NumberIs ==
  ASSUME File!TypeOK, File!UnderWay, NEW c, c = File!Commas(pos), File!Text(c) = File!TextTo(c, pos)
  PROVE  /\ c \in Nat
         /\ text = File!Unset <=> c = 0 /\ File!Text(0) = <<>>
         /\ text # File!Unset => text = File!Text(File!Max(File!Filled(c)))
<1>1. c \in Nat BY CommasStep DEF File!TypeOK
<1>2. Len(file) \in Nat /\ \A k : File!Text(k) # File!Unset
  BY TextSet DEF File!TypeOK, File!Text
<1>3. CASE File!Text(c) # <<>>
  <2>1. text = File!Text(c) BY <1>3 DEF File!UnderWay
  <2>2. File!Max(File!Filled(c)) = c BY <1>1, <1>3, FilledMax
  <2> QED BY <1>1, <1>2, <1>3, <2>1, <2>2
<1>4. CASE File!Text(c) = <<>> /\ c = 0
  BY <1>1, <1>4 DEF File!UnderWay
<1>5. CASE File!Text(c) = <<>> /\ c # 0
  <2>1. text = File!Text(File!Max(File!Filled(c - 1))) BY <1>5 DEF File!UnderWay
  <2>2. File!Filled(c) = File!Filled(c - 1) BY <1>1, <1>5, FilledSkip
  <2> QED BY <1>1, <1>2, <1>5, <2>1, <2>2
<1> QED BY <1>3, <1>4, <1>5

(* The elements main means to store into.                                  *)
LEMMA SlotsAre ==
  ASSUME File!TypeOK
  PROVE  /\ File!Fields \in Nat /\ File!Fields >= File!Commas(Len(file))
         /\ File!Fields = File!Commas(Len(file)) + (IF File!Text(File!Commas(Len(file))) # <<>> THEN 1 ELSE 0)
         /\ File!Slots = started .. (IF started < LIMIT
                                     THEN IF started + File!Fields <= LIMIT THEN started + File!Fields ELSE LIMIT
                                     ELSE started) - 1
<1>1. Len(file) \in Nat /\ started \in Int /\ LIMIT \in Int BY FileAssumption DEF File!TypeOK
<1>2. File!Commas(Len(file)) \in Nat BY <1>1, CommasStep
<1>3. /\ File!Fields = File!Commas(Len(file)) + (IF File!Text(File!Commas(Len(file))) # <<>> THEN 1 ELSE 0)
      /\ File!Fields \in Nat /\ File!Fields >= File!Commas(Len(file))
  BY <1>2 DEF File!Fields
<1> DEFINE a == started + File!Fields
           b == IF started < LIMIT THEN LIMIT ELSE started
<1>4. a \in Int /\ b \in Int BY <1>1, <1>3
<1>5. File!Slots = started .. File!Min({a, b}) - 1 BY Zenon DEF File!Slots
<1> HIDE DEF a, b
<1>6. File!Min({a, b}) = IF a <= b THEN a ELSE b BY <1>4, FileMin
<1> QED BY <1>1, <1>3, <1>5, <1>6 DEF a, b

(* Where the next number goes, while there is a comma or a number left.    *)
LEMMA SlotNext ==
  ASSUME File!TypeOK, File!Stored, num_index < LIMIT, File!Fields > File!Commas(pos)
  PROVE  num_index \in File!Slots
<1>1. File!Commas(pos) \in Nat /\ num_index = started + File!Commas(pos)
  BY CommasStep DEF File!TypeOK, File!Stored
<1>2. started \in Int /\ num_index \in Int /\ LIMIT \in Int BY FileAssumption DEF File!TypeOK
<1> QED BY <1>1, <1>2, SlotsAre

(* A number lost because nothing is known of where it goes, or what it is. *)
LEMMA Lost ==
  ASSUME File!TypeOK, File!Stored, File!UnderWay, num_index < LIMIT,
         File!Fields > File!Commas(pos), File!Text(File!Commas(pos)) = File!TextTo(File!Commas(pos), pos),
         num_index \notin DOMAIN nums \/ text = File!Unset
  PROVE  ~ File!Slots \subseteq DOMAIN nums \/ File!Filled(0) = {}
<1>1. CASE num_index \notin DOMAIN nums BY <1>1, SlotNext
<1>2. CASE text = File!Unset
  <2>1. File!Text(0) = <<>> BY <1>2, NumberIs
  <2> QED BY <2>1, FilledSkip
<1> QED BY <1>1, <1>2

(* What the file says does not change.                                     *)
LEMMA FileSame ==
  ASSUME file' = file
  PROVE  /\ File!Commas(pos)' = File!Commas(pos')
         /\ \A k : File!Text(k)' = File!Text(k) /\ File!Filled(k)' = File!Filled(k) /\ File!Meant(k)' = File!Meant(k)
         /\ File!TextTo(File!Commas(pos), pos)' = File!TextTo(File!Commas(pos'), pos')
<1>1. File!Commas(pos)' = File!Commas(pos') BY DEF File!Commas
<1>2. \A k : File!Text(k)' = File!Text(k) BY DEF File!Text, File!TextTo, File!Own, File!Commas
<1>3. \A k : File!Filled(k)' = File!Filled(k) BY <1>2 DEF File!Filled
<1>4. \A k : File!Meant(k)' = File!Meant(k)
  BY DEF File!Meant, File!Filled, File!Text, File!TextTo, File!Own, File!Commas
<1>5. File!TextTo(File!Commas(pos), pos)' = File!TextTo(File!Commas(pos'), pos')
  BY DEF File!TextTo, File!Own, File!Commas
<1> QED BY <1>1, <1>2, <1>3, <1>4, <1>5

LEMMA SlotsSame ==
  ASSUME file' = file, started' = started
  PROVE  File!Slots' = File!Slots
<1>1. File!Fields' = File!Fields
  BY DEF File!Fields, File!Text, File!TextTo, File!Own, File!Commas
<1> QED BY <1>1 DEF File!Slots

(* nums[num_index++] = atoi(number), where it goes well.                   *)
LEMMA StoredNext ==
  ASSUME File!TypeOK, File!Stored, File!UnderWay, num_index < LIMIT,
         File!Text(File!Commas(pos)) = File!TextTo(File!Commas(pos), pos),
         num_index \in DOMAIN nums, text # File!Unset,
         nums' = [nums EXCEPT ![num_index] = File!atoi(text)], num_index' = num_index + 1
  PROVE  /\ DOMAIN nums' = DOMAIN nums /\ num_index' \in Int
         /\ num_index' = started + File!Commas(pos) + 1
         /\ num_index' <= LIMIT /\ File!Text(0) # <<>>
         /\ started .. num_index' - 1 \subseteq DOMAIN nums'
         /\ \A k \in DOMAIN nums' :
              nums'[k] = IF k \in started .. num_index' - 1 THEN File!Meant(k - started) ELSE 0
<1> DEFINE c == File!Commas(pos)
<1>1. /\ c \in Nat /\ num_index = started + c /\ num_index \in Int /\ started \in Int
      /\ LIMIT \in Int /\ DOMAIN nums \subseteq Int
  BY NumberIs, FileAssumption DEF File!Stored, File!TypeOK
<1>2. File!Text(0) # <<>> BY NumberIs DEF File!Stored
<1>3. File!atoi(text) = File!Meant(c) BY NumberIs, Zenon DEF File!Meant
<1>4. /\ DOMAIN nums' = DOMAIN nums /\ nums'[num_index] = File!Meant(c)
      /\ \A k \in DOMAIN nums : k # num_index => nums'[k] = nums[k]
  BY <1>3
<1>5. /\ started .. num_index - 1 \subseteq DOMAIN nums
      /\ \A k \in DOMAIN nums : nums[k] = IF k \in started .. num_index - 1 THEN File!Meant(k - started) ELSE 0
  BY DEF File!Stored
<1> HIDE DEF c
<1>6. \A k \in Int : k \in started .. num_index' - 1 <=> k \in started .. num_index - 1 \/ k = num_index
  BY <1>1
<1>7. num_index - started = c BY <1>1
<1>8. ASSUME NEW k \in DOMAIN nums
      PROVE  nums'[k] = IF k \in started .. num_index' - 1 THEN File!Meant(k - started) ELSE 0
  <2>1. k \in Int BY <1>1
  <2>2. num_index \notin started .. num_index - 1 BY <1>1
  <2> QED BY <1>4, <1>5, <1>6, <1>7, <2>1, <2>2
<1>9. started .. num_index' - 1 \subseteq DOMAIN nums' BY <1>1, <1>4, <1>5, <1>6
<1> QED BY <1>1, <1>2, <1>4, <1>8, <1>9 DEF c

(* Reading goes on with one more character.                                *)
LEMMA ReadOn ==
  ASSUME File!TypeOK, pos < Len(file), file' = file, pos' = pos + 1
  PROVE  /\ Len(file) \in Nat /\ pos \in Nat /\ pos' \in 0 .. Len(file') /\ File!Commas(pos) \in Nat
         /\ pos + 1 \in Nat /\ file[pos + 1] \in Digits \cup {File!Minus, File!Comma, File!Other}
         /\ File!Commas(pos)' = File!Commas(pos) + (IF file[pos + 1] = File!Comma THEN 1 ELSE 0)
         /\ File!TextTo(File!Commas(pos), pos)' = File!TextTo(File!Commas(pos)', pos + 1)
<1>1. Len(file) \in Nat /\ pos \in Nat /\ pos + 1 \in 1 .. Len(file) BY DEF File!TypeOK
<1>2. File!Commas(pos)' = File!Commas(pos + 1) BY FileSame
<1>3. file[pos + 1] \in Digits \cup {File!Minus, File!Comma, File!Other} BY <1>1 DEF File!TypeOK
<1>4. File!TextTo(File!Commas(pos), pos)' = File!TextTo(File!Commas(pos + 1), pos + 1) BY FileSame
<1> QED BY <1>1, <1>2, <1>3, <1>4, CommasStep

(* The invariant of main, at the start and kept by each of its steps.      *)
LEMMA FileInit ==
  ASSUME File!Init
  PROVE  File!IInv
<1>1. file \in Seq(Digits \cup {File!Minus, File!Comma, File!Other}) /\ Len(file) \in Nat
  <2> DEFINE C == Digits \cup {File!Minus, File!Comma, File!Other}
  <2>1. \A m \in Nat : \A s \in [1 .. m -> C] : s \in Seq(C) /\ Len(s) \in Nat OBVIOUS
  <2>2. PICK m \in 0 .. MAX_FILE : file \in [1 .. m -> C]
    <3>1. file \in UNION {[1 .. m -> C] : m \in 0 .. MAX_FILE} BY Zenon DEF File!Init, File!BoundedSeq, File!SeqOf
    <3> HIDE DEF C
    <3> QED BY <3>1
  <2>3. m \in Nat BY FileAssumption
  <2> QED BY <2>1, <2>2, <2>3
<1>2. File!TypeOK
  <2>1. /\ pos = 0 /\ num_index \in Int /\ started \in Int /\ in_number \in BOOLEAN /\ reader = "open"
        /\ DOMAIN nums = 0 .. SIZE - 1
    BY FileAssumption DEF File!Init
  <2>2. pos \in 0 .. Len(file) BY <1>1, <2>1
  <2> QED BY <1>1, <2>1, <2>2 DEF File!TypeOK
<1>3. pos = 0 /\ File!Commas(pos) = 0 BY CommasStep DEF File!Init
<1>4. File!Own(0, 0) = {} BY DEF File!Own
<1>5. File!TextTo(File!Commas(pos), pos) = <<>> BY <1>3, <1>4, TextEmpty
<1>6. File!UnderWay BY <1>3, <1>5 DEF File!UnderWay, File!Init
<1>7. File!Stored BY <1>2, <1>3 DEF File!Stored, File!Init, File!TypeOK
<1>8. File!ReadsNumbers BY DEF File!ReadsNumbers, File!Init
<1> QED BY <1>2, <1>6, <1>7, <1>8 DEF File!IInv

LEMMA FileDigit ==
  ASSUME File!TypeOK, File!Stored, File!UnderWay, File!Digit
  PROVE  File!TypeOK' /\ File!Stored' /\ File!UnderWay'
<1>1. /\ pos < Len(file) /\ File!Numeric(file[pos + 1]) /\ pos' = pos + 1
      /\ UNCHANGED <<file, nums, num_index, reader, started>>
      /\ in_number' = TRUE
  BY DEF File!Digit, File!More
<1>2. file[pos + 1] # File!Comma
  BY <1>1, FileAssumption DEF File!Numeric, File!Minus, File!Comma
<1>3. /\ File!Commas(pos)' = File!Commas(pos) /\ pos' \in 0 .. Len(file')
      /\ pos \in Nat /\ File!Commas(pos + 1) = File!Commas(pos)
      /\ File!TextTo(File!Commas(pos), pos)' = File!TextTo(File!Commas(pos), pos + 1)
  <2>1. /\ pos \in Nat /\ pos' \in 0 .. Len(file') /\ File!Commas(pos) \in Nat
        /\ File!Commas(pos)' = File!Commas(pos) + 0
        /\ File!TextTo(File!Commas(pos), pos)' = File!TextTo(File!Commas(pos)', pos + 1)
    BY <1>1, <1>2, ReadOn
  <2>2. File!Commas(pos + 1) = File!Commas(pos) + 0 BY <1>2, <2>1, CommasStep
  <2> QED BY <2>1, <2>2
<1>4. File!TypeOK' BY <1>1, <1>3 DEF File!TypeOK
<1>5. File!Stored' BY <1>1, <1>3, FileSame DEF File!Stored
<1>6. File!UnderWay'
  <2> DEFINE k == File!Commas(pos)
             d == file[pos + 1]
  <2>1. /\ File!TextTo(k, pos + 1) # <<>>
        /\ File!TextTo(k, pos) = <<>> => File!TextTo(k, pos + 1) = <<d>>
        /\ File!TextTo(k, pos + 1) = IF Len(File!TextTo(k, pos)) < CHARS
                                     THEN Append(File!TextTo(k, pos), d) ELSE File!TextTo(k, pos)
    BY <1>1, <1>3, TextDigit
  <2>2. text' = IF ~ in_number THEN <<d>> ELSE IF Len(text) < CHARS THEN Append(text, d) ELSE text
    BY DEF File!Digit
  <2>3. text' = File!TextTo(k, pos + 1)
    <3>1. CASE File!TextTo(k, pos) # <<>>
      <4>1. in_number /\ text = File!TextTo(k, pos) BY <3>1 DEF File!UnderWay
      <4> QED BY <2>1, <2>2, <4>1
    <3>2. CASE File!TextTo(k, pos) = <<>>
      <4>1. ~ in_number BY <3>2 DEF File!UnderWay
      <4> QED BY <2>1, <2>2, <3>2, <4>1
    <3> QED BY <3>1, <3>2
  <2> QED BY <1>1, <1>3, <2>1, <2>3 DEF File!UnderWay
<1> QED BY <1>4, <1>5, <1>6

LEMMA FileSkip ==
  ASSUME File!TypeOK, File!Stored, File!UnderWay, File!Skip
  PROVE  File!TypeOK' /\ File!Stored' /\ File!UnderWay'
<1>1. /\ pos < Len(file) /\ file[pos + 1] = File!Other /\ pos' = pos + 1
      /\ UNCHANGED <<file, nums, num_index, text, in_number, reader, started>>
  BY DEF File!Skip, File!More
<1>2. file[pos + 1] # File!Comma /\ ~ File!Numeric(file[pos + 1])
  BY <1>1, FileAssumption DEF File!Numeric, File!Minus, File!Comma, File!Other
<1>3. /\ File!Commas(pos)' = File!Commas(pos) /\ pos' \in 0 .. Len(file')
      /\ File!TextTo(File!Commas(pos), pos)' = File!TextTo(File!Commas(pos), pos + 1)
      /\ pos \in Nat
  BY <1>1, <1>2, ReadOn
<1>4. File!Own(File!Commas(pos), pos + 1) = File!Own(File!Commas(pos), pos) BY <1>2, <1>3, OwnStep
<1>5. File!TextTo(File!Commas(pos), pos)' = File!TextTo(File!Commas(pos), pos) BY <1>3, <1>4, TextSame
<1>6. File!TypeOK' BY <1>1, <1>3 DEF File!TypeOK
<1>7. File!Stored' BY <1>1, <1>3, FileSame DEF File!Stored
<1>8. File!UnderWay'
  <2>1. File!Text(File!Max(File!Filled(File!Commas(pos) - 1)))' = File!Text(File!Max(File!Filled(File!Commas(pos) - 1)))
    BY <1>1, <1>3, FileSame
  <2> QED BY <1>1, <1>3, <1>5, <2>1 DEF File!UnderWay
<1> QED BY <1>6, <1>7, <1>8

LEMMA FileEndNumber ==
  ASSUME File!TypeOK, File!Stored, File!UnderWay, File!EndNumber
  PROVE  \/ File!TypeOK' /\ File!Stored' /\ File!UnderWay' /\ reader' = "read"
         \/ /\ File!TypeOK' /\ reader' = "undefined"
            /\ UNCHANGED <<file, nums, started>>
            /\ ~ File!Slots \subseteq DOMAIN nums \/ File!Filled(0) = {}
<1>1. /\ pos < Len(file) /\ file[pos + 1] = File!Comma /\ pos' = pos + 1 /\ num_index < LIMIT
      /\ UNCHANGED <<file, text, started>> /\ ~ in_number' /\ in_number' \in BOOLEAN
  BY DEF File!EndNumber, File!More
<1> DEFINE c == File!Commas(pos)
<1>2. ~ File!Numeric(file[pos + 1])
  BY <1>1, FileAssumption DEF File!Numeric, File!Minus, File!Comma
<1>3. /\ c \in Nat /\ pos \in Nat /\ pos + 1 \in Nat /\ Len(file) \in Nat /\ pos' \in 0 .. Len(file')
      /\ File!Commas(pos)' = c + 1
      /\ File!TextTo(File!Commas(pos), pos)' = File!TextTo(c + 1, pos + 1)
  BY <1>1, ReadOn
<1>4. File!Commas(pos + 1) = c + 1 BY <1>1, <1>3, CommasStep
<1>5. File!Text(c) = File!TextTo(c, pos)
  <2>1. pos \in 0 .. Len(file) /\ File!Commas(pos + 1) > File!Commas(pos) BY <1>1, <1>3, <1>4
  <2> QED BY <1>3, <2>1, TextOver
<1>6. File!Fields > c
  <2>1. File!Commas(pos + 1) <= File!Commas(Len(file)) BY <1>1, <1>3, CommasGrow
  <2>2. File!Commas(Len(file)) \in Nat /\ File!Fields \in Nat /\ File!Fields >= File!Commas(Len(file))
    BY <1>3, CommasStep, SlotsAre
  <2> QED BY <1>3, <1>4, <2>1, <2>2
<1>7. CASE num_index \in DOMAIN nums /\ text # File!Unset
  <2>1. /\ nums' = [nums EXCEPT ![num_index] = File!atoi(text)] /\ num_index' = num_index + 1
        /\ reader' = "read"
    BY <1>7 DEF File!EndNumber, File!StoreNumber
  <2>2. /\ DOMAIN nums' = DOMAIN nums /\ num_index' \in Int
        /\ num_index' = started + c + 1
        /\ num_index' <= LIMIT /\ File!Text(0) # <<>>
        /\ started .. num_index' - 1 \subseteq DOMAIN nums'
        /\ \A k \in DOMAIN nums' :
             nums'[k] = IF k \in started .. num_index' - 1 THEN File!Meant(k - started) ELSE 0
    BY <1>1, <1>5, <1>7, <2>1, StoredNext
  <2>3. File!TypeOK' BY <1>1, <1>3, <2>1, <2>2 DEF File!TypeOK
  <2>4. File!Stored'
    <3>1. num_index' = started' + File!Commas(pos)' BY <1>1, <1>3, <2>2 DEF File!TypeOK
    <3> QED BY <1>1, <2>2, <3>1, FileSame DEF File!Stored
  <2>5. File!UnderWay'
    <3>1. File!Own(c + 1, pos) = {} BY <1>3, OwnNone
    <3>2. File!Own(c + 1, pos + 1) = {} BY <1>2, <1>3, <3>1, OwnStep
    <3>3. File!TextTo(c + 1, pos + 1) = <<>> BY <1>3, <3>2, TextEmpty
    <3>4. text = File!Text(File!Max(File!Filled(c))) BY <1>5, <1>7, NumberIs
    <3>5. File!Text(File!Max(File!Filled(File!Commas(pos) - 1)))' = File!Text(File!Max(File!Filled(c)))
      <4>1. c + 1 - 1 = c BY <1>3
      <4>2. \A k : File!Text(File!Max(File!Filled(k)))' = File!Text(File!Max(File!Filled(k)))
        BY <1>1 DEF File!Filled, File!Text, File!TextTo, File!Own, File!Commas
      <4>3. File!Text(File!Max(File!Filled(File!Commas(pos) - 1)))' = File!Text(File!Max(File!Filled(File!Commas(pos)' - 1)))
        BY <1>1 DEF File!Filled, File!Text, File!TextTo, File!Own, File!Commas
      <4> QED BY <1>3, <4>1, <4>3
    <3> QED BY <1>1, <1>3, <3>3, <3>4, <3>5 DEF File!UnderWay
  <2> QED BY <2>1, <2>3, <2>4, <2>5
<1>8. CASE ~ (num_index \in DOMAIN nums /\ text # File!Unset)
  <2>1. reader' = "undefined" /\ UNCHANGED <<nums, num_index>>
    BY <1>8 DEF File!EndNumber, File!StoreNumber
  <2>2. File!TypeOK' BY <1>1, <1>3, <2>1 DEF File!TypeOK
  <2>3. ~ File!Slots \subseteq DOMAIN nums \/ File!Filled(0) = {} BY <1>1, <1>5, <1>6, <1>8, Lost
  <2> QED BY <1>1, <2>1, <2>2, <2>3
<1> QED BY <1>7, <1>8

LEMMA FileLastNumber ==
  ASSUME File!TypeOK, File!Stored, File!UnderWay, File!LastNumber
  PROVE  /\ File!TypeOK' /\ UNCHANGED <<file, started>> /\ reader' \in {"show", "undefined"}
         /\ reader' = "show" =>
              /\ File!Slots \subseteq DOMAIN nums'
              /\ \A k \in DOMAIN nums' : nums'[k] = IF k \in File!Slots THEN File!Meant(k - started) ELSE 0
         /\ reader' = "undefined" =>
              /\ DOMAIN nums' = DOMAIN nums
              /\ ~ File!Slots \subseteq DOMAIN nums \/ File!Filled(0) = {}
<1> DEFINE c == File!Commas(pos)
<1>1. /\ reader = "read" /\ (pos < Len(file) /\ num_index < LIMIT => FALSE)
      /\ UNCHANGED <<file, pos, text, in_number, started>>
  BY DEF File!LastNumber, File!More
<1>2. /\ c \in Nat /\ pos \in Nat /\ Len(file) \in Nat /\ pos <= Len(file)
      /\ num_index = started + c /\ num_index \in Int /\ started \in Int
      /\ c > 0 => num_index <= LIMIT
      /\ in_number \in BOOLEAN
  <2>1. pos \in Nat /\ Len(file) \in Nat /\ pos <= Len(file) BY DEF File!TypeOK
  <2> QED BY <2>1, CommasStep DEF File!TypeOK, File!Stored
<1>3. LIMIT \in Nat \ {0} BY FileAssumption
<1>4. /\ File!Commas(Len(file)) \in Nat /\ c <= File!Commas(Len(file))
      /\ File!Fields \in Nat /\ File!Fields >= c
  BY <1>2, CommasStep, CommasGrow, SlotsAre
<1>5. /\ started .. num_index - 1 \subseteq DOMAIN nums
      /\ \A k \in DOMAIN nums : nums[k] = IF k \in started .. num_index - 1 THEN File!Meant(k - started) ELSE 0
  BY DEF File!Stored
<1>6. pos = Len(file) => /\ File!Text(c) = File!TextTo(c, pos)
                         /\ File!Fields = c + (IF File!Text(c) # <<>> THEN 1 ELSE 0)
  BY <1>2, TextOver, SlotsAre
<1>7. in_number <=> File!TextTo(c, pos) # <<>> BY DEF File!UnderWay
<1>8. CASE in_number /\ num_index < LIMIT
  <2>1. pos = Len(file) BY <1>1, <1>2, <1>8
  <2>2. File!Text(c) = File!TextTo(c, pos) /\ File!Fields = c + 1 BY <1>6, <1>7, <1>8, <2>1
  <2>3. text # File!Unset /\ File!Text(c) # <<>> BY <1>7, <1>8, <2>2, TextSet, <1>2 DEF File!UnderWay
  <2>4. CASE num_index \in DOMAIN nums
    <3>1. /\ nums' = [nums EXCEPT ![num_index] = File!atoi(text)] /\ num_index' = num_index + 1
          /\ reader' = "show"
      BY <1>8, <2>3, <2>4 DEF File!LastNumber, File!StoreNumber
    <3>2. /\ DOMAIN nums' = DOMAIN nums /\ num_index' \in Int
          /\ num_index' = started + c + 1
          /\ num_index' <= LIMIT /\ File!Text(0) # <<>>
          /\ started .. num_index' - 1 \subseteq DOMAIN nums'
          /\ \A k \in DOMAIN nums' :
               nums'[k] = IF k \in started .. num_index' - 1 THEN File!Meant(k - started) ELSE 0
      BY <1>8, <2>2, <2>3, <2>4, <3>1, StoredNext
    <3>3. File!TypeOK' BY <1>1, <3>1, <3>2 DEF File!TypeOK
    <3>4. File!Slots = started .. num_index' - 1
      <4>1. /\ started < LIMIT /\ started + File!Fields <= LIMIT /\ started + File!Fields = num_index'
        BY <1>2, <1>3, <1>8, <2>2, <3>2
      <4> QED BY <4>1, SlotsAre
    <3> QED BY <1>1, <3>1, <3>2, <3>3, <3>4
  <2>5. CASE num_index \notin DOMAIN nums
    <3>1. reader' = "undefined" /\ UNCHANGED <<nums, num_index>>
      BY <1>8, <2>5 DEF File!LastNumber, File!StoreNumber
    <3>2. File!TypeOK' BY <1>1, <3>1 DEF File!TypeOK
    <3>3. File!Fields > c BY <1>2, <2>2
    <3>4. ~ File!Slots \subseteq DOMAIN nums \/ File!Filled(0) = {} BY <1>8, <2>2, <2>5, <3>3, Lost
    <3> QED BY <1>1, <3>1, <3>2, <3>4
  <2> QED BY <2>4, <2>5
<1>9. CASE ~ (in_number /\ num_index < LIMIT)
  <2>1. reader' = "show" /\ UNCHANGED <<nums, num_index>> BY <1>9 DEF File!LastNumber
  <2>2. File!TypeOK' BY <1>1, <2>1 DEF File!TypeOK
  <2>3. File!Slots = started .. num_index - 1
    <3>1. File!Slots = started .. (IF started < LIMIT
                                   THEN IF started + File!Fields <= LIMIT THEN started + File!Fields ELSE LIMIT
                                   ELSE started) - 1
      BY SlotsAre
    <3>2. CASE num_index >= LIMIT BY <1>2, <1>3, <1>4, <3>1, <3>2
    <3>3. CASE num_index < LIMIT
      <4>1. pos = Len(file) /\ ~ in_number BY <1>1, <1>2, <1>9, <3>3
      <4>2. File!Fields = c BY <1>2, <1>6, <1>7, <4>1
      <4> QED BY <1>2, <1>3, <3>1, <3>3, <4>2
    <3> QED BY <1>2, <1>3, <3>2, <3>3
  <2> QED BY <1>1, <1>5, <2>1, <2>2, <2>3
<1> QED BY <1>8, <1>9

LEMMA FileStays ==
  ASSUME UNCHANGED <<file, pos, nums, num_index, text, in_number, started>>, File!Stored, File!UnderWay
  PROVE  File!Stored' /\ File!UnderWay'
<1>1. File!Commas(pos)' = File!Commas(pos) BY DEF File!Commas
<1>2. File!TextTo(File!Commas(pos), pos)' = File!TextTo(File!Commas(pos), pos)
  BY DEF File!TextTo, File!Own, File!Commas
<1>3. File!Text(File!Max(File!Filled(File!Commas(pos) - 1)))' = File!Text(File!Max(File!Filled(File!Commas(pos) - 1)))
  BY DEF File!Filled, File!Text, File!TextTo, File!Own, File!Commas
<1>4. File!Stored' BY <1>1, FileSame DEF File!Stored
<1>5. File!UnderWay' BY <1>1, <1>2, <1>3 DEF File!UnderWay
<1> QED BY <1>4, <1>5

(* Each step of main.                                                      *)
LEMMA FileStep ==
  ASSUME File!IInv, [File!Next]_fileVars
  PROVE  File!IInv'
<1> USE DEF File!IInv
<1>1. CASE UNCHANGED fileVars
  <2>1. UNCHANGED <<file, pos, nums, num_index, text, in_number, reader, started>> BY <1>1 DEF fileVars
  <2>2. File!Slots' = File!Slots /\ \A k : File!Meant(k)' = File!Meant(k) /\ File!Filled(k)' = File!Filled(k)
    BY <2>1, FileSame, SlotsSame
  <2>3. File!ReadsNumbers' BY <2>1, <2>2 DEF File!ReadsNumbers
  <2>4. File!TypeOK' BY <2>1 DEF File!TypeOK
  <2>5. CASE reader \in {"open", "read"} BY <2>1, <2>3, <2>4, <2>5, FileStays
  <2> QED BY <2>1, <2>3, <2>4, <2>5
<1>2. CASE File!Open
  <2>1. /\ reader = "open" /\ reader' \in {"read", "exit"}
        /\ UNCHANGED <<file, pos, nums, num_index, text, in_number, started>>
    BY <1>2 DEF File!Open
  <2>2. File!Stored' /\ File!UnderWay' BY <2>1, FileStays
  <2>3. File!TypeOK' BY <2>1 DEF File!TypeOK
  <2> QED BY <2>1, <2>2, <2>3 DEF File!ReadsNumbers
<1>3. CASE File!Digit
  <2>1. reader = "read" /\ reader' = "read" BY <1>3 DEF File!Digit, File!More
  <2>2. File!TypeOK' /\ File!Stored' /\ File!UnderWay' BY <1>3, <2>1, FileDigit
  <2> QED BY <2>1, <2>2 DEF File!ReadsNumbers
<1>4. CASE File!Skip
  <2>1. reader = "read" /\ reader' = "read" BY <1>4 DEF File!Skip, File!More
  <2>2. File!TypeOK' /\ File!Stored' /\ File!UnderWay' BY <1>4, <2>1, FileSkip
  <2> QED BY <2>1, <2>2 DEF File!ReadsNumbers
<1>5. CASE File!EndNumber
  <2>1. reader = "read" BY <1>5 DEF File!EndNumber, File!More
  <2>2. CASE File!TypeOK' /\ File!Stored' /\ File!UnderWay' /\ reader' = "read"
    BY <2>2 DEF File!ReadsNumbers
  <2>3. CASE /\ File!TypeOK' /\ reader' = "undefined"
             /\ UNCHANGED <<file, nums, started>>
             /\ ~ File!Slots \subseteq DOMAIN nums \/ File!Filled(0) = {}
    BY <2>3, FileSame, SlotsSame DEF File!ReadsNumbers
  <2> QED BY <1>5, <2>1, <2>2, <2>3, FileEndNumber
<1>6. CASE File!LastNumber
  <2>1. reader = "read" BY <1>6 DEF File!LastNumber
  <2>2. /\ File!TypeOK' /\ UNCHANGED <<file, started>> /\ reader' \in {"show", "undefined"}
        /\ reader' = "show" =>
             /\ File!Slots \subseteq DOMAIN nums'
             /\ \A k \in DOMAIN nums' : nums'[k] = IF k \in File!Slots THEN File!Meant(k - started) ELSE 0
        /\ reader' = "undefined" =>
             /\ DOMAIN nums' = DOMAIN nums
             /\ ~ File!Slots \subseteq DOMAIN nums \/ File!Filled(0) = {}
    BY <1>6, <2>1, FileLastNumber
  <2>3. File!Slots' = File!Slots BY <2>2, SlotsSame
  <2>4. \A k : File!Meant(k)' = File!Meant(k) /\ File!Filled(k)' = File!Filled(k) BY <2>2, FileSame
  <2> QED BY <2>2, <2>3, <2>4 DEF File!ReadsNumbers
<1>7. CASE File!ShowSorted
  <2>1. /\ reader = "show" /\ reader' = "done" /\ DOMAIN nums' = DOMAIN nums
        /\ UNCHANGED <<file, pos, num_index, text, in_number, started>>
    BY <1>7, Zenon DEF File!ShowSorted
  <2>2. File!Slots' = File!Slots BY <2>1, SlotsSame
  <2> QED BY <2>1, <2>2 DEF File!ReadsNumbers, File!TypeOK
<1> QED BY <1>1, <1>2, <1>3, <1>4, <1>5, <1>6, <1>7 DEF File!Next

-------------------------------------------------------------------------------
(* One program runs, the others do not move.                               *)
LEMMA OneRuns == [Step]_all => /\ [Next]_vars /\ [Halts!Next]_haltVars
                               /\ [Halves!Next]_sumVars /\ [Sort!Next]_sortVars
                               /\ [File!Next]_fileVars
BY DEF Step, all, Turns, Count, tic_tac, one_two_three, mutex3, SumProgram, SortProgram, FileProgram, Ended

(* The invariant of the turns and their refinement, as programs that are   *)
(* run.                                                                    *)
THEOREM TurnsInvariant == Programs => []IInv
<1>1. IInv /\ [Next]_vars => IInv'
  BY TypeStep, OwnershipStep, WakeupStep DEF IInv
<1> QED BY <1>1, InitInv, OneRuns, PTL DEF Programs, Boot

THEOREM TurnsImplementRoundRobin == Programs => RefinesRoundRobin
BY TurnsInvariant, RingInit, RingStep, OneRuns, PTL DEF Programs, Boot, RefinesRoundRobin, Ring!Safety

(* The inductive invariant of mutex3.c, whatever the three limits are and  *)
(* whenever pthread_cond_wait returns.                                     *)
THEOREM NumbersAlwaysCounted == Programs => []NumbersCounted
BY CountInit, HaltsStep, OneRuns, PTL DEF Programs, Boot, NumbersCounted

(* No increment is lost and none leads beyond COUNT_DONE + 1, with         *)
(* spurious wake-ups and without.                                          *)
THEOREM NoIncrementLost == Programs => []Halts!NoGap
<1>1. NumbersCounted => Halts!NoGap BY DEF NumbersCounted, Halts!IInv
<1> QED BY <1>1, NumbersAlwaysCounted, PTL

(* Until a spurious wake-up the numbers come from the threads the comment  *)
(* of mutex3.c assigns.                                                    *)
THEOREM ScheduleKept == Programs => []Schedule
<1>1. NumbersCounted => Schedule BY DEF NumbersCounted, Schedule, Halts!IInv
<1> QED BY <1>1, NumbersAlwaysCounted, PTL

(* What the two threads of array_sum.c leave without a lock is never more  *)
(* than the sum of the array, never less than the first element of the     *)
(* first half and the last of the second, and the sum itself as long as no *)
(* store undid another, for every even length from 8 on.                   *)
THEOREM SumAlwaysBounded == Programs => []SumOfParts
<1>1. Halves!IInv => SumOfParts BY SumsFinal DEF SumOfParts
<1> QED BY <1>1, SumsInit, SumsStep, OneRuns, PTL DEF Programs, Boot

(* sort_array sorts every array of integers of every length, losing no     *)
(* element and making none up.                                             *)
THEOREM AlwaysSorts == Programs => []SortInvariant
<1>1. Sort!IInv => SortInvariant BY SortFinal DEF SortInvariant
<1> QED BY <1>1, SortInit, SortStep, OneRuns, PTL DEF Programs, Boot

(* main of homework3 shows the numbers of every file, of any length and in *)
(* any array, in their order from where num_index starts, and stores       *)
(* outside the array, or at no char_idx, in no other cases than those      *)
(* ReadsNumbers names, however many digits atoi is given.                  *)
THEOREM AlwaysReadsNumbers == Programs => []ReadsNumbers
<1>1. File!IInv => ReadsNumbers BY DEF ReadsNumbers
<1> QED BY <1>1, FileInit, FileStep, OneRuns, PTL DEF Programs, Boot
===============================================================================
