---------------------------- MODULE ProcessPrograms ----------------------------
(***************************************************************************)
(* The programs that are one process, one of which runs.  With threads:    *)
(* tic_tac.c, two that take turns with pthread_cond_signal, 1_2_3.c, three *)
(* with pthread_cond_broadcast, and mutex3.c, two that count, all of       *)
(* homework11; array_sum.c of homework10, two that add.  Without: the sort *)
(* of homework1 and 2, and the numbers read from a file of homework3.      *)
(***************************************************************************)
EXTENDS TurnCond, Integers

CONSTANTS Systems,      \* the programs considered
          COUNT_HALT1, COUNT_HALT2, COUNT_DONE,
          ARRAY_SIZE,
          Randoms, MAX_LEN,
          SIZE, LIMIT, CHARS, Digits, MAX_FILE, Garbage

ASSUME CountAssumption == /\ COUNT_HALT1 \in Nat \ {0}
                          /\ COUNT_HALT2 \in Nat
                          /\ COUNT_DONE \in Nat
                          /\ COUNT_HALT1 <= COUNT_HALT2
                          /\ COUNT_HALT2 < COUNT_DONE

(* #define ARRAY_SIZE (8): two halves, of at least four elements           *)
ASSUME SumAssumption == ARRAY_SIZE \in Nat /\ ARRAY_SIZE % 2 = 0 /\ ARRAY_SIZE >= 8

ASSUME SortAssumption == Randoms \subseteq Int /\ MAX_LEN \in Nat

ASSUME FileAssumption == /\ SIZE \in Nat \ {0} /\ LIMIT \in Nat \ {0} /\ CHARS \in Nat \ {0}
                         /\ Digits \subseteq 0 .. 9 /\ MAX_FILE \in Nat /\ 0 \in Garbage /\ Garbage \subseteq Int

VARIABLES program,      \* "tic_tac", "1_2_3", "mutex3", "array_sum", "sort" or "array"
          number,       \* the count of mutex3.c
          count_mutex, cond_mutex, waiting, pc1, pc2, loaded, main, printer, spurious,
          array_sum, parent, adder, index, read, printed, lost,
          array, len, filled, i, j, min_index, sorter, err,
          file, pos, nums, num_index, text, in_number, reader, started

Halts  == INSTANCE CountHalt WITH count <- number
Halves == INSTANCE SummingThreads WITH main <- parent, thread <- adder, loaded <- read
Sort   == INSTANCE SelectionSort WITH pc <- sorter
File   == INSTANCE ArrayFile WITH number <- text

haltVars == <<number, count_mutex, cond_mutex, waiting, pc1, pc2, loaded, main, printer, spurious>>
sumVars  == <<array_sum, parent, adder, index, read, printed, lost>>
sortVars == <<array, len, filled, i, j, min_index, sorter, err>>
fileVars == <<file, pos, nums, num_index, text, in_number, reader, started>>
all      == <<program, vars, haltVars, sumVars, sortVars, fileVars>>

(* The program that runs starts in any of its initial states, the others   *)
(* stay where they are.                                                    *)
Boot == /\ program \in Systems
        /\ n = IF program = "1_2_3" THEN 3 ELSE 2
        /\ program = "sort" \/ len = 0
        /\ program = "array" \/ (file = <<>> /\ num_index = 0)
        /\ Init /\ Halts!Init /\ Halves!Init /\ Sort!Init /\ File!Init

TurnPrograms == {"tic_tac", "1_2_3"}

Turns(A) == program \in TurnPrograms /\ A /\ UNCHANGED <<program, haltVars, sumVars, sortVars, fileVars>>
Count(A) == program = "mutex3" /\ A /\ UNCHANGED <<program, vars, sumVars, sortVars, fileVars>>

tic_tac       == program = "tic_tac" /\ Turns(Next)
one_two_three == program = "1_2_3" /\ Turns(Next)
mutex3        == Count(Halts!Next)
SumProgram    == /\ program = "array_sum" /\ Halves!Next
                 /\ UNCHANGED <<program, vars, haltVars, sortVars, fileVars>>
SortProgram   == /\ program = "sort" /\ Sort!Next
                 /\ UNCHANGED <<program, vars, haltVars, sumVars, fileVars>>
FileProgram   == /\ program = "array" /\ File!Next
                 /\ UNCHANGED <<program, vars, haltVars, sumVars, sortVars>>

(* main has returned, or nothing is known of what it does.                 *)
Ended == /\ reader \in {"exit", "undefined", "done"} \/ parent \in {"failed", "done"}
         /\ UNCHANGED all

(* Every thread that can run is scheduled; a thread blocked on a mutex is  *)
(* not passed over for ever while it is released again and again.  Nothing *)
(* makes a spurious wake-up happen.                                        *)
Fair == /\ WF_all(Turns(Create \/ Join))
        /\ \A t \in Threads :
             /\ WF_all(Turns(Return(t) \/ SeeTurn(t) \/ CondWait(t) \/ Printf(t)
                               \/ PassTurn(t) \/ Notify(t) \/ Unlock(t)))
             /\ SF_all(Turns(Lock(t))) /\ SF_all(Turns(Relock(t)))
        /\ WF_all(Count(Halts!Main))
        /\ WF_all(Count(Halts!functionCount1)) /\ WF_all(Count(Halts!functionCount2))
        /\ SF_all(Count(Halts!Lock1)) /\ SF_all(Count(Halts!CondLock1)) /\ SF_all(Count(Halts!Relock1))
        /\ SF_all(Count(Halts!Lock2)) /\ SF_all(Count(Halts!CondLock2))

Step == tic_tac \/ one_two_three \/ mutex3 \/ SumProgram \/ SortProgram \/ FileProgram \/ Ended

Programs == Boot /\ [][Step]_all /\ Fair

-------------------------------------------------------------------------------
(* Of mutex3.c no increment is lost and nobody is left waiting: see        *)
(* CountHalt.                                                              *)
NumbersCounted == Halts!IInv

(* Its numbers come from the threads the comment names: see CountHalt.     *)
Schedule == Halts!Schedule

(* Every line is printed, as the ring of workers promises; main joins all  *)
(* threads and exits, in mutex3.c too.                                     *)
EverybodyEnds == /\ program \in TurnPrograms => Ring!Progress /\ MainExits
                 /\ program = "mutex3" => Halts!BothReturn

(* What the two threads of array_sum.c leave, and why: see SummingThreads. *)
SumOfParts == Halves!IInv /\ Halves!SumOfParts

(* sort_array keeps its loop invariant and sorts: see SelectionSort.       *)
SortInvariant == Sort!IInv /\ Sort!SortsThem

(* What main of homework3 reads of a file, and why: see ArrayFile.        *)
ReadsNumbers == File!IInv
===============================================================================
