----------------------------- MODULE Philosophers -----------------------------
(***************************************************************************)
(* homework11/philosophers/philosophers.c: kernel threads that meet at a   *)
(* start barrier, try to take two sticks each, and are stopped one by one. *)
(*                                                                         *)
(* mutex_trylock returns 1 when it takes the mutex; the code takes that    *)
(* for a failure.  mutex_unlock frees a mutex whoever holds it.            *)
(***************************************************************************)
EXTENDS Integers, FiniteSets

CONSTANT N              \* PHILOSOPHERS_NUMBER

ASSUME PhilAssumption == N \in Nat /\ N >= 2

VARIABLES owner,        \* the holder of each stick, or Free
          pc,           \* where each philosopher is
          thread_start_counter,
          loaded,       \* the value read to increment the counter
          stored,       \* the philosophers that have written it back
          stop,         \* the threads kthread_stop was called for
          created,      \* sticks initialised and threads started by init
          destroyed,    \* threads reaped and sticks destroyed by cleanup
          told          \* philosophers whose last message on their left
                        \* stick was "failed to take LEFT stick"

vars == <<owner, pc, thread_start_counter, loaded, stored, stop, created, destroyed, told>>

Phils == 0 .. N - 1
Free  == -1

(* The sticks of a philosopher.                                            *)
Left(p)  == p
Right(p) == IF p = N - 1 THEN 1 ELSE p + 1

Dining == {"check", "hungry", "left", "put_back", "eat", "put_left", "put_right"}
PCs    == {"none", "created", "load", "store", "barrier", "done"} \cup Dining

TypeOK == /\ owner \in [Phils -> Phils \cup {Free}]
          /\ pc \in [Phils -> PCs]
          /\ thread_start_counter \in 0 .. N
          /\ loaded \in [Phils -> 0 .. N]
          /\ stored \subseteq Phils
          /\ stop \subseteq Phils
          /\ created \in 0 .. N
          /\ destroyed \in 0 .. N
          /\ told \subseteq Phils

Init == /\ owner = [s \in Phils |-> Free]
        /\ pc = [p \in Phils |-> "none"]
        /\ thread_start_counter = 0
        /\ loaded = [p \in Phils |-> 0]
        /\ stored = {}
        /\ stop = {}
        /\ created = 0
        /\ destroyed = 0
        /\ told = {}

Goto(p, l) == pc' = [pc EXCEPT ![p] = l]

-------------------------------------------------------------------------------
(* One round of the loop of philosophers_init.                             *)
philosophers_init == /\ created < N
                     /\ created' = created + 1
                     /\ Goto(created, "created")
                     /\ UNCHANGED <<owner, thread_start_counter, loaded, stored, stop,
                                    destroyed, told>>

(* The loop of philosophers_cleanup: stop, wait, destroy the stick.        *)
Stop(p) == /\ created = N
           /\ p = destroyed
           /\ p \notin stop
           /\ stop' = stop \cup {p}
           /\ UNCHANGED <<owner, pc, thread_start_counter, loaded, stored, created,
                          destroyed, told>>

Destroy(p) == /\ p = destroyed
              /\ p \in stop
              /\ pc[p] = "done"
              /\ destroyed' = destroyed + 1
              /\ UNCHANGED <<owner, pc, thread_start_counter, loaded, stored, stop,
                             created, told>>

philosophers_cleanup == \E p \in Phils : Stop(p) \/ Destroy(p)

Unloaded == destroyed = N /\ UNCHANGED vars

-------------------------------------------------------------------------------
(* thread_func                                                             *)

Step(p, from, to) == /\ pc[p] = from
                     /\ Goto(p, to)
                     /\ UNCHANGED <<stop, created, destroyed>>

(* a thread stopped before it runs does not call thread_func               *)
Start(p) == /\ Step(p, "created", IF p \in stop THEN "done" ELSE "load")
            /\ UNCHANGED <<owner, thread_start_counter, loaded, stored, told>>

(* thread_start_counter++ is a load and a store, which others may come     *)
(* between                                                                 *)
Load(p) == /\ Step(p, "load", "store")
           /\ loaded' = [loaded EXCEPT ![p] = thread_start_counter]
           /\ UNCHANGED <<owner, thread_start_counter, stored, told>>

(* A broken Store: the counter is incremented by two.                      *)
StoreTwice(p) == /\ Step(p, "store", "barrier")
                 /\ thread_start_counter' = loaded[p] + 2
                 /\ stored' = stored \cup {p}
                 /\ UNCHANGED <<owner, loaded, told>>

Store(p) == /\ Step(p, "store", "barrier")
            /\ thread_start_counter' = loaded[p] + 1
            /\ stored' = stored \cup {p}
            /\ UNCHANGED <<owner, loaded, told>>

Barrier(p) == /\ thread_start_counter = N
              /\ Step(p, "barrier", "check")
              /\ UNCHANGED <<owner, thread_start_counter, loaded, stored, told>>

(* schedule() while the counter is not N                                   *)
Spin(p) == pc[p] = "barrier" /\ thread_start_counter # N /\ UNCHANGED vars

(* A broken Check: for(;;) in place of while(!kthread_should_stop()).      *)
NeverStop(p) == /\ Step(p, "check", "hungry")
                /\ UNCHANGED <<owner, thread_start_counter, loaded, stored, told>>

Check(p) == /\ Step(p, "check", IF p \in stop THEN "done" ELSE "hungry")
            /\ UNCHANGED <<owner, thread_start_counter, loaded, stored, told>>

Trylock(p, s, taken, busy) ==
  /\ \/ owner[s] = Free /\ owner' = [owner EXCEPT ![s] = p] /\ Goto(p, taken)
     \/ owner[s] # Free /\ UNCHANGED owner /\ Goto(p, busy)
  /\ UNCHANGED <<thread_start_counter, loaded, stored, stop, created, destroyed>>

(* a right stick that is taken counts as not taken, and is kept            *)
take_right_stick(p) == /\ pc[p] = "hungry"
                       /\ Trylock(p, Right(p), "check", "left")
                       /\ UNCHANGED told

(* A broken take_left_stick: tested with >= 0, which only -EINVAL fails.   *)
GiveUp(p) == /\ pc[p] = "left"
             /\ Trylock(p, Left(p), "put_back", "put_back")
             /\ UNCHANGED told

take_left_stick(p) == /\ pc[p] = "left"
                      /\ Trylock(p, Left(p), "put_back", "eat")
                      /\ told' = IF owner[Left(p)] = Free THEN told \cup {p} ELSE told \ {p}

Eat(p) == /\ Step(p, "eat", "put_left")
          /\ UNCHANGED <<owner, thread_start_counter, loaded, stored, told>>

put_left_stick(p) == /\ Step(p, "put_left", "put_right")
                     /\ owner' = [owner EXCEPT ![Left(p)] = Free]
                     /\ told' = told \ {p}
                     /\ UNCHANGED <<thread_start_counter, loaded, stored>>

put_right_stick(p) == /\ \/ Step(p, "put_right", "check")
                         \/ Step(p, "put_back", "check")
                      /\ owner' = [owner EXCEPT ![Right(p)] = Free]
                      /\ UNCHANGED <<thread_start_counter, loaded, stored, told>>

thread_func(p) == \/ Start(p) \/ Load(p) \/ Store(p) \/ Barrier(p) \/ Spin(p) \/ Check(p)
                  \/ take_right_stick(p) \/ take_left_stick(p) \/ Eat(p)
                  \/ put_left_stick(p) \/ put_right_stick(p)

Next == \/ philosophers_init \/ philosophers_cleanup \/ Unloaded
        \/ \E p \in Phils : thread_func(p)

(* Nobody has to unload the module; once begun, its exit goes on.          *)
Fairness == /\ WF_vars(philosophers_init)
            /\ WF_vars(philosophers_cleanup /\ stop # {})
            /\ \A p \in Phils : WF_vars(thread_func(p))

Spec == Init /\ [][Next]_vars /\ Fairness

-------------------------------------------------------------------------------
(* The barrier, with an increment that can be lost: no philosopher reaches *)
(* for a stick before init has initialised all of them.                    *)
SticksReady == \A p \in Phils : pc[p] \in Dining => created = N

(* The counter never counts a philosopher that has not arrived.            *)
CounterIsLow == thread_start_counter <= Cardinality(stored)

(* Cleanup destroys a stick when its philosopher is gone, and the one      *)
(* before has gone earlier: only stick 1, which the last philosopher takes *)
(* for his right one, is destroyed while somebody may still reach for it.  *)
DestroyedUnused == \A s \in Phils, p \in Phils :
                     s < destroyed /\ s # 1 /\ s \in {Left(p), Right(p)} => pc[p] = "done"

(* Somebody waits at the barrier for increments that will not come.        *)
BarrierBroken == /\ \A p \in Phils : pc[p] \notin {"none", "created", "load", "store"}
                 /\ thread_start_counter # N

(* Unloading the module ends, unless the barrier has lost an increment.    *)
CleanupReturns == (stop # {}) ~> (destroyed = N \/ BarrierBroken)

(* While nobody is stopped there is always a next meal, though the results *)
(* of mutex_trylock are read the wrong way round.                          *)
SomebodyEats == []<>(stop # {} \/ BarrierBroken \/ \E p \in Phils : pc[p] = "eat")

(* "failed to take LEFT stick" is said by a philosopher who has not got    *)
(* it.                                                                     *)
FailureIsTrue == \A p \in told : owner[Left(p)] # p

-------------------------------------------------------------------------------
(* The inductive invariant: who has stored the counter is past the store,  *)
(* who is about to has read at most the number of those who did; threads   *)
(* are created in order, and reaped ones are done.                         *)
Arrived == \A p \in Phils : /\ p \in stored => pc[p] \in {"barrier", "done"} \cup Dining
                            /\ pc[p] = "store" => loaded[p] <= Cardinality(stored)
                            /\ pc[p] = "none" <=> created <= p
Reaped  == \A p \in Phils : p < destroyed => pc[p] = "done"

IInv == TypeOK /\ Arrived /\ Reaped /\ SticksReady /\ CounterIsLow /\ DestroyedUnused
===============================================================================
