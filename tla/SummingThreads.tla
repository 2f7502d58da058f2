----------------------------- MODULE SummingThreads ----------------------------
(***************************************************************************)
(* homework10/array_sum: two threads add the halves of the array 1 .. n    *)
(* to the shared array_sum, without a lock.  x += y is a load and a store. *)
(***************************************************************************)
EXTENDS Integers

CONSTANT ARRAY_SIZE

VARIABLES array_sum,
          main,         \* where main is
          thread,       \* where each thread is
          index,        \* the loop variable of each thread
          loaded,       \* what it has read of array_sum
          printed,      \* the sums printed
          lost          \* a store undid one of the other thread

Half == ARRAY_SIZE \div 2
Threads == {1, 2}
Element(t, k) == (t - 1) * Half + k + 1

Init == /\ array_sum = 0
        /\ main = "create1"
        /\ thread = [t \in Threads |-> "none"]
        /\ index = [t \in Threads |-> 0] /\ loaded = [t \in Threads |-> 0]
        /\ printed = {} /\ lost = FALSE

-------------------------------------------------------------------------------
(* A thread that cannot be created ends the program, the other thread too. *)
Create == /\ \/ /\ \/ main = "create1" /\ main' = "create2" /\ thread' = [thread EXCEPT ![1] = "print_array"]
                   \/ main = "create2" /\ main' = "join1" /\ thread' = [thread EXCEPT ![2] = "print_array"]
             \/ main \in {"create1", "create2"} /\ main' = "failed" /\ UNCHANGED thread
          /\ UNCHANGED <<array_sum, index, loaded, printed, lost>>

(* A broken Join: the second thread is not joined.                         *)
JoinOne == /\ main = "join1" /\ thread[1] = "done" /\ main' = "done"
           /\ UNCHANGED <<array_sum, thread, index, loaded, printed, lost>>

Join == /\ \/ main = "join1" /\ thread[1] = "done" /\ main' = "join2"
           \/ main = "join2" /\ thread[2] = "done" /\ main' = "done"
        /\ UNCHANGED <<array_sum, thread, index, loaded, printed, lost>>

Running(t, l) == main \notin {"done", "failed"} /\ thread[t] = l

print_array(t) == /\ Running(t, "print_array")
                  /\ thread' = [thread EXCEPT ![t] = "load"]
                  /\ UNCHANGED <<array_sum, main, index, loaded, printed, lost>>

Load(t) == /\ Running(t, "load")
           /\ loaded' = [loaded EXCEPT ![t] = array_sum]
           /\ thread' = [thread EXCEPT ![t] = "store"]
           /\ UNCHANGED <<array_sum, main, index, printed, lost>>

Store(t) == /\ Running(t, "store")
            /\ lost' = (lost \/ array_sum # loaded[t])
            /\ array_sum' = loaded[t] + Element(t, index[t])
            /\ index' = [index EXCEPT ![t] = @ + 1]
            /\ thread' = [thread EXCEPT ![t] = IF index[t] + 1 < Half THEN "load" ELSE "print"]
            /\ UNCHANGED <<main, loaded, printed>>

PrintSum(t) == /\ Running(t, "print")
               /\ printed' = printed \cup {array_sum}
               /\ thread' = [thread EXCEPT ![t] = "done"]
               /\ UNCHANGED <<array_sum, main, index, loaded, lost>>

thread_func(t) == print_array(t) \/ Load(t) \/ Store(t) \/ PrintSum(t)

Next == Create \/ Join \/ \E t \in Threads : thread_func(t)

-------------------------------------------------------------------------------
Total == (ARRAY_SIZE * (ARRAY_SIZE + 1)) \div 2

(* The least the unlocked additions can leave: one thread's first element  *)
(* and the other's last.                                                   *)
Least == 1 + ARRAY_SIZE

(* When main says "Done", the sum left is among those printed, and it is   *)
(* the sum of the array unless a store undid another, and never less than  *)
(* one thread's first element and the other's last.                        *)
SumOfParts == main = "done" => /\ array_sum \in printed
                               /\ array_sum = Total \/ (lost /\ array_sum \in Least .. Total)

-------------------------------------------------------------------------------
(* The sum of the first k elements of a thread's half.                     *)
PartSum(t, k) == k * (t - 1) * Half + (k * (k + 1)) \div 2

TypeOK == /\ array_sum \in Nat
          /\ main \in {"create1", "create2", "join1", "join2", "failed", "done"}
          /\ thread \in [Threads -> {"none", "print_array", "load", "store", "print", "done"}]
          /\ index \in [Threads -> 0 .. Half] /\ loaded \in [Threads -> Nat]
          /\ printed \subseteq Nat /\ lost \in BOOLEAN

(* Where main and the threads are, and the last sum is printed.            *)
Places == /\ main = "create1" => thread[1] = "none"
          /\ main \in {"create1", "create2"} => thread[2] = "none"
          /\ main \in {"join2", "done"} => thread[1] = "done"
          /\ main = "done" => thread[2] = "done"
          /\ \A t \in Threads : /\ thread[t] \in {"none", "print_array"} => index[t] = 0
                                /\ thread[t] \in {"load", "store"} => index[t] < Half
                                /\ thread[t] \in {"print", "done"} => index[t] = Half
          /\ (\A t \in Threads : thread[t] = "done") => array_sum \in printed

(* What is stored or about to be is no more than what has been added, and  *)
(* just that as long as no store undid another.                            *)
Added == PartSum(1, index[1]) + PartSum(2, index[2])
AtMost == /\ array_sum <= Added /\ (lost \/ array_sum = Added)
          /\ \A t \in Threads : thread[t] = "store" => loaded[t] <= Added

(* No less than what the last store leaves, which undid as much as it      *)
(* could: thread 1 has read its own sum or the first element of thread 2,  *)
(* and thread 2 the first element of thread 1.                             *)
Lesser(x, y) == IF x < y THEN x ELSE y
AtLeast ==
  /\ \/ index[1] = 0 /\ index[2] = 0
     \/ index[1] > 0 /\ array_sum >= Lesser(PartSum(1, index[1]), Half + 1 + index[1])
     \/ index[2] > 0 /\ array_sum >= Half + index[2] + (IF index[2] > 1 THEN 1 ELSE 0)
  /\ thread[1] = "store" /\ index[1] > 0 => loaded[1] >= Lesser(PartSum(1, index[1]), Half + 1)
  /\ thread[2] = "store" /\ index[2] > 0 => loaded[2] >= 1

IInv == TypeOK /\ Places /\ AtMost /\ AtLeast
===============================================================================
