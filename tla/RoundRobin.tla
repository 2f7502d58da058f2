------------------------------ MODULE RoundRobin ------------------------------
(***************************************************************************)
(* What the turn-taking programs of the repository promise: some workers   *)
(* print in the cyclic order 1, 2, ..., N, 1, ... and each of them prints  *)
(* COUNT_TIMES times.  homework11/tic_tac, homework11/1_2_3 (pthreads) and *)
(* homework10/tic_tac.c (kernel threads) implement it.                     *)
(***************************************************************************)
EXTENDS Naturals

CONSTANT COUNT_TIMES    \* lines each worker prints

VARIABLES size,         \* number of workers, fixed when the program starts
          next,         \* the worker whose line comes next
          printed       \* printed[w]: lines worker w has printed so far

vars == <<size, next, printed>>

Workers == 1 .. size

Successor(w) == IF w = size THEN 1 ELSE w + 1

TypeOK == /\ size \in Nat \ {0}
          /\ next \in Workers
          /\ printed \in [Workers -> 0 .. COUNT_TIMES]

Init == /\ size \in Nat \ {0}
        /\ next = 1
        /\ printed = [w \in Workers |-> 0]

PutLine(w) == /\ next = w
              /\ printed[w] < COUNT_TIMES
              /\ printed' = [printed EXCEPT ![w] = @ + 1]
              /\ next' = Successor(w)
              /\ UNCHANGED size

Next == \E w \in Workers : PutLine(w)

Safety   == Init /\ [][Next]_vars
Progress == WF_vars(Next)

(* Among any two workers the earlier one is ahead by one line exactly      *)
(* while the turn lies between them: the output is 1 2 ... N 1 2 ... N.    *)
InStep == \A v, w \in Workers :
            v < w => printed[v] = printed[w] + (IF v < next /\ next <= w THEN 1 ELSE 0)
===============================================================================
