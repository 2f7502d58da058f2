------------------------------- MODULE TurnCond -------------------------------
(***************************************************************************)
(* The pthread turn-taking protocol of homework11: one mutex, one          *)
(* condition variable and the shared variable turn.  Written from 1_2_3.c  *)
(* (three threads, pthread_cond_broadcast); tic_tac.c is the same code     *)
(* with two threads and pthread_cond_signal.                               *)
(***************************************************************************)
EXTENDS Naturals

CONSTANTS N,            \* most threads a program creates
          COUNT_TIMES   \* #define COUNT_TIMES

ASSUME TurnAssumption == N \in Nat \ {0} /\ COUNT_TIMES \in Nat

VARIABLES n,            \* the program: the number of threads its main creates
          turn,         \* static volatile int turn
          mtx,          \* the thread that holds mtx, 0 when it is free
          waiters,      \* the threads blocked on cond
          pc,           \* where each thread is in its function
          count,        \* the local count_thread of each thread
          joined        \* progress of main: n creations, then n joins

vars == <<n, turn, mtx, waiters, pc, count, joined>>

Threads == 1 .. N
Running == 1 .. n

Successor(t) == IF t = n THEN 1 ELSE t + 1

(* tic_tac.c signals its one other thread, 1_2_3.c wakes both others.      *)
Broadcast == n > 2

Critical == {"test", "print", "set", "wake", "unlock"}
PCs      == {"none", "head", "asleep", "done"} \cup Critical

TypeOK == /\ n \in Threads
          /\ turn \in Running
          /\ mtx \in {0} \cup Threads
          /\ waiters \subseteq Threads
          /\ pc \in [Threads -> PCs]
          /\ count \in [Threads -> 0 .. COUNT_TIMES]
          /\ joined \in 0 .. 2 * n

Init == /\ n \in Threads
        /\ turn = 1
        /\ mtx = 0
        /\ waiters = {}
        /\ pc = [t \in Threads |-> "none"]
        /\ count = [t \in Threads |-> 0]
        /\ joined = 0

Goto(t, l) == pc' = [pc EXCEPT ![t] = l]

-------------------------------------------------------------------------------
(* main: pthread_create of every thread in order, then pthread_join.       *)

Create == /\ joined < n
          /\ Goto(joined + 1, "head")
          /\ joined' = joined + 1
          /\ UNCHANGED <<n, turn, mtx, waiters, count>>

Join == /\ joined \in n .. 2 * n - 1
        /\ pc[joined - n + 1] = "done"
        /\ joined' = joined + 1
        /\ UNCHANGED <<n, turn, mtx, waiters, pc, count>>

(* exit(0) after the last join.                                            *)
Exited == joined = 2 * n /\ UNCHANGED vars

-------------------------------------------------------------------------------
(* The body of a thread function.                                          *)

(* while(count_thread < COUNT_TIMES) pthread_mutex_lock(&mtx)              *)
Lock(t) == /\ pc[t] = "head"
           /\ count[t] < COUNT_TIMES
           /\ mtx = 0
           /\ mtx' = t
           /\ Goto(t, "test")
           /\ UNCHANGED <<n, turn, waiters, count, joined>>

(* return NULL once the loop is over                                       *)
Return(t) == /\ pc[t] = "head"
             /\ count[t] = COUNT_TIMES
             /\ Goto(t, "done")
             /\ UNCHANGED <<n, turn, mtx, waiters, count, joined>>

(* while(turn != t) is over: the thread leaves the wait loop               *)
SeeTurn(t) == /\ pc[t] = "test"
              /\ turn = t
              /\ Goto(t, "print")
              /\ UNCHANGED <<n, turn, mtx, waiters, count, joined>>

(* A broken CondWait: it blocks without releasing mtx.                     *)
BlockWithMutex(t) == /\ pc[t] = "test"
                     /\ turn # t
                     /\ waiters' = waiters \cup {t}
                     /\ Goto(t, "asleep")
                     /\ UNCHANGED <<n, turn, mtx, count, joined>>

(* pthread_cond_wait: releases mtx and blocks in one atomic step           *)
CondWait(t) == /\ pc[t] = "test"
               /\ turn # t
               /\ mtx' = 0
               /\ waiters' = waiters \cup {t}
               /\ Goto(t, "asleep")
               /\ UNCHANGED <<n, turn, count, joined>>

(* POSIX lets pthread_cond_wait return without any wake-up                 *)
Spurious(t) == /\ t \in waiters
               /\ waiters' = waiters \ {t}
               /\ UNCHANGED <<n, turn, mtx, pc, count, joined>>

(* a woken thread takes mtx back inside pthread_cond_wait, and re-tests    *)
Relock(t) == /\ pc[t] = "asleep"
             /\ t \notin waiters
             /\ mtx = 0
             /\ mtx' = t
             /\ Goto(t, "test")
             /\ UNCHANGED <<n, turn, waiters, count, joined>>

(* printf("Thread1: 1\n\r")                                                *)
Printf(t) == /\ pc[t] = "print"
             /\ Goto(t, "set")
             /\ UNCHANGED <<n, turn, mtx, waiters, count, joined>>

(* A broken PassTurn: it skips a thread.                                   *)
PassTwoOn(t) == /\ pc[t] = "set"
                /\ turn' = Successor(Successor(t))
                /\ Goto(t, "wake")
                /\ UNCHANGED <<n, mtx, waiters, count, joined>>

(* turn = 2;                                                               *)
PassTurn(t) == /\ pc[t] = "set"
               /\ turn' = Successor(t)
               /\ Goto(t, "wake")
               /\ UNCHANGED <<n, mtx, waiters, count, joined>>

(* A broken Notify: pthread_cond_signal where a broadcast is needed.       *)
NotifyOne(t) == /\ pc[t] = "wake"
                /\ \/ waiters = {} /\ UNCHANGED waiters
                   \/ \E w \in waiters : waiters' = waiters \ {w}
                /\ Goto(t, "unlock")
                /\ UNCHANGED <<n, turn, mtx, count, joined>>

(* pthread_cond_broadcast wakes every waiter, pthread_cond_signal one      *)
Notify(t) == /\ pc[t] = "wake"
             /\ \/ /\ waiters = {}
                   /\ UNCHANGED waiters
                \/ /\ waiters # {}
                   /\ Broadcast
                   /\ waiters' = {}
                \/ /\ ~Broadcast
                   /\ \E w \in waiters : waiters' = waiters \ {w}
             /\ Goto(t, "unlock")
             /\ UNCHANGED <<n, turn, mtx, count, joined>>

(* pthread_mutex_unlock(&mtx); count_thread++                              *)
Unlock(t) == /\ pc[t] = "unlock"
             /\ mtx' = 0
             /\ count' = [count EXCEPT ![t] = @ + 1]
             /\ Goto(t, "head")
             /\ UNCHANGED <<n, turn, waiters, joined>>

Thread(t) == \/ Lock(t)    \/ Return(t) \/ SeeTurn(t)  \/ CondWait(t) \/ Spurious(t)
             \/ Relock(t)  \/ Printf(t) \/ PassTurn(t) \/ Notify(t)   \/ Unlock(t)

Next == Create \/ Join \/ Exited \/ (\E t \in Threads : Thread(t))

Spec == Init /\ [][Next]_vars

-------------------------------------------------------------------------------
(* Refinement of RoundRobin: a line counts from the printf on, and the     *)
(* turn is abstractly passed by that same printf.                          *)

Printed(t) == count[t] + (IF pc[t] \in {"set", "wake", "unlock"} THEN 1 ELSE 0)

AbstractTurn == IF \E t \in Threads : pc[t] = "set" THEN Successor(turn) ELSE turn

Ring == INSTANCE RoundRobin WITH size    <- n,
                                 next    <- AbstractTurn,
                                 printed <- [t \in Running |-> Printed(t)]

(* The program prints in cyclic order: every step is one of the ring of    *)
(* workers, or changes nothing in it.                                      *)
RefinesRoundRobin == Ring!Safety

(* The lines already printed are 1 2 ... N 1 2 ...: no thread is ahead of  *)
(* its turn, whatever the wake-ups and the interleaving.                   *)
InStep == Ring!InStep

(* A thread whose turn it is never stays blocked on cond, unless the       *)
(* thread that passed the turn is just about to notify.                    *)
NoLostWakeup == \A t \in waiters : turn = t => \E u \in Threads : pc[u] = "wake"

(* main returns from every join and exits.                                 *)
MainExits == <>(joined = 2 * n)

-------------------------------------------------------------------------------
(* The inductive invariant behind InStep and NoLostWakeup: a thread past   *)
(* its test holds mtx and, until it passes it, the turn; a blocked thread  *)
(* sleeps; main creates the threads in order; and no thread sleeps through *)
(* its turn.                                                               *)
HoldsMutex == \A t \in Threads : pc[t] \in Critical <=> mtx = t
KeepsTurn  == /\ \A t \in Threads : pc[t] \in {"print", "set"} => turn = t
              /\ \A t \in Threads : pc[t] \in {"wake", "unlock"} => turn = Successor(t)
Waiting    == \A t \in waiters : pc[t] = "asleep"
Created    == \A t \in Threads : pc[t] = "none" <=> joined < t \/ n < t
Counting   == \A t \in Threads : pc[t] \in Critical \cup {"asleep"} => count[t] < COUNT_TIMES

IInv == TypeOK /\ Created /\ HoldsMutex /\ KeepsTurn /\ Waiting /\ Counting /\ NoLostWakeup
===============================================================================
