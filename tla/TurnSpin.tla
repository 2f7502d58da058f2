------------------------------- MODULE TurnSpin -------------------------------
(***************************************************************************)
(* homework10/tic_tac.c: a kernel module with two threads that spin on the *)
(* shared variable turn, print under a mutex and hand the turn over, and   *)
(* the module exit that stops and reaps them.                              *)
(***************************************************************************)
EXTENDS Naturals

CONSTANT COUNT_TIMES

ASSUME SpinAssumption == COUNT_TIMES \in Nat \ {0}

VARIABLES turn,         \* static volatile int turn
          mtx,          \* the thread that holds tic_tac_mtx, 0 when free
          pc,           \* where each thread is
          counter,      \* the local counter of each thread
          stop,         \* the threads kthread_stop was called for
          phase         \* progress of tictac_init and tictac_cleanup

vars == <<turn, mtx, pc, counter, stop, phase>>

Threads == {1, 2}       \* 1 is tic_thread, 2 is tac_thread

Other(t) == 3 - t

PCs    == {"none", "created", "spin", "lock", "print", "set", "unlock", "done"}
Phases == {"tic", "tac", "loaded", "stop_tic", "stop_tac", "unloaded"}

TypeOK == /\ turn \in Threads
          /\ mtx \in {0} \cup Threads
          /\ pc \in [Threads -> PCs]
          /\ counter \in [Threads -> 0 .. COUNT_TIMES]
          /\ stop \subseteq Threads
          /\ phase \in Phases

Init == /\ turn = 1
        /\ mtx = 0
        /\ pc = [t \in Threads |-> "none"]
        /\ counter = [t \in Threads |-> 0]
        /\ stop = {}
        /\ phase = "tic"

Goto(t, l) == pc' = [pc EXCEPT ![t] = l]

-------------------------------------------------------------------------------
(* tictac_init: create tic, then tac, each made runnable at once.  A failed *)
(* kthread_create is no NULL pointer, so the two error paths never run.    *)
tictac_init == /\ \/ phase = "tic" /\ Goto(1, "created") /\ phase' = "tac"
                  \/ phase = "tac" /\ Goto(2, "created") /\ phase' = "loaded"
               /\ UNCHANGED <<turn, mtx, counter, stop>>

(* kthread_stop asks a thread to stop and waits until it is gone.          *)
tictac_cleanup == /\ \/ phase = "loaded" /\ stop' = {1} /\ phase' = "stop_tic"
                     \/ /\ phase = "stop_tic" /\ pc[1] = "done"
                        /\ stop' = {1, 2} /\ phase' = "stop_tac"
                     \/ /\ phase = "stop_tac" /\ pc[2] = "done"
                        /\ UNCHANGED stop /\ phase' = "unloaded"
                  /\ UNCHANGED <<turn, mtx, pc, counter>>

Unloaded == phase = "unloaded" /\ UNCHANGED vars

(* A kernel thread that is told to stop before it first runs never calls   *)
(* its function.                                                           *)
kthread(t) == /\ pc[t] = "created"
              /\ Goto(t, IF t \in stop THEN "done" ELSE "spin")
              /\ UNCHANGED <<turn, mtx, counter, stop, phase>>

-------------------------------------------------------------------------------
(* The thread functions never look at kthread_should_stop.                 *)

(* A broken SpinExit: it does not wait for the turn.                       *)
SpinExitAnyTurn(t) == /\ pc[t] = "spin"
                      /\ counter[t] < COUNT_TIMES
                      /\ Goto(t, "lock")
                      /\ UNCHANGED <<turn, mtx, counter, stop, phase>>

(* while(turn != 1) schedule(); turn is read without the mutex             *)
SpinExit(t) == /\ pc[t] = "spin"
               /\ counter[t] < COUNT_TIMES
               /\ turn = t
               /\ Goto(t, "lock")
               /\ UNCHANGED <<turn, mtx, counter, stop, phase>>

Spin(t) == pc[t] = "spin" /\ counter[t] < COUNT_TIMES /\ turn # t /\ UNCHANGED vars

Return(t) == /\ pc[t] = "spin"
             /\ counter[t] = COUNT_TIMES
             /\ Goto(t, "done")
             /\ UNCHANGED <<turn, mtx, counter, stop, phase>>

Lock(t) == /\ pc[t] = "lock"
           /\ mtx = 0
           /\ mtx' = t
           /\ Goto(t, "print")
           /\ UNCHANGED <<turn, counter, stop, phase>>

Printk(t) == /\ pc[t] = "print"
             /\ Goto(t, "set")
             /\ UNCHANGED <<turn, mtx, counter, stop, phase>>

(* A broken PassTurn: the turn is not handed over.                         *)
PassUnlocked(t) == /\ pc[t] = "set"
                   /\ turn' = turn
                   /\ Goto(t, "unlock")
                   /\ UNCHANGED <<mtx, counter, stop, phase>>

PassTurn(t) == /\ pc[t] = "set"
               /\ turn' = Other(t)
               /\ Goto(t, "unlock")
               /\ UNCHANGED <<mtx, counter, stop, phase>>

(* A broken Unlock: counter is not incremented.                            *)
UnlockUncounted(t) == /\ pc[t] = "unlock"
                      /\ mtx' = 0
                      /\ Goto(t, "spin")
                      /\ UNCHANGED <<turn, counter, stop, phase>>

Unlock(t) == /\ pc[t] = "unlock"
             /\ mtx' = 0
             /\ counter' = [counter EXCEPT ![t] = @ + 1]
             /\ Goto(t, "spin")
             /\ UNCHANGED <<turn, stop, phase>>

Thread(t) == \/ kthread(t) \/ Spin(t) \/ SpinExit(t) \/ Return(t) \/ Lock(t)
             \/ Printk(t) \/ PassTurn(t) \/ Unlock(t)

tic_thread_func == Thread(1)
tac_thread_func == Thread(2)

Next == \/ tictac_init \/ tictac_cleanup \/ Unloaded
        \/ tic_thread_func \/ tac_thread_func

(* schedule() lets the other thread run; nobody has to unload the module,  *)
(* but an exit once begun goes on.                                         *)
Fairness == /\ WF_vars(tictac_init)
            /\ WF_vars(tictac_cleanup /\ phase # "loaded")
            /\ WF_vars(tic_thread_func)
            /\ WF_vars(tac_thread_func)

Spec == Init /\ [][Next]_vars /\ Fairness

-------------------------------------------------------------------------------
Printed(t) == counter[t] + (IF pc[t] \in {"set", "unlock"} THEN 1 ELSE 0)

AbstractTurn == IF \E t \in Threads : pc[t] = "set" THEN Other(turn) ELSE turn

Ring == INSTANCE RoundRobin WITH size <- 2, next <- AbstractTurn,
                                 printed <- [t \in Threads |-> Printed(t)]

(* TIC and TAC alternate though turn is tested outside the mutex: every    *)
(* step is one of the ring of two workers, or changes nothing in it.       *)
RefinesRoundRobin == Ring!Safety

(* Nobody can still take or hold the mutex once module exit has destroyed  *)
(* it, not even a thread that was told to stop before it ran.              *)
DestroyedUnused == phase = "unloaded" => mtx = 0 /\ \A t \in Threads : pc[t] = "done"

(* tictac_cleanup waits for tic before it turns to tac, and no thread is   *)
(* stopped that was not created.                                           *)
StopOrder == /\ phase \in {"stop_tac", "unloaded"} => pc[1] = "done"
             /\ phase = "unloaded" => pc[2] = "done"
             /\ \A t \in Threads : pc[t] = "none" <=> phase = "tic" \/ (phase = "tac" /\ t = 2)

(* The reason why the unlocked test is safe: a thread past it still owns   *)
(* the turn until it gives it away, with the mutex in its hands.           *)
TurnIsStable == \A t \in Threads : /\ pc[t] \in {"lock", "print", "set"} => turn = t
                                   /\ pc[t] = "unlock" => turn = Other(t)
                                   /\ pc[t] \in {"print", "set", "unlock"} <=> mtx = t

Skipped(t) == pc[t] = "done" /\ counter[t] = 0

(* Module exit returns, except when it told tic to stop before tic ever    *)
(* ran: then tac waits for a TIC that does not come, and exit for tac.     *)
CleanupReturns == (phase = "stop_tic") ~> (phase = "unloaded" \/ Skipped(1))

Counting == \A t \in Threads : pc[t] \in {"lock", "print", "set", "unlock"} => counter[t] < COUNT_TIMES

(* The inductive invariant behind them.                                    *)
IInv == TypeOK /\ Counting /\ TurnIsStable /\ StopOrder /\ DestroyedUnused
===============================================================================
