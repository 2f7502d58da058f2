----------------------------- MODULE KernelModules -----------------------------
(***************************************************************************)
(* The small kernel modules of the repository; the system runs one of      *)
(* them: the threads that take turns (homework10), the thread that stops   *)
(* (homework8), the radio (homework4 and 5), the texts behind a node       *)
(* (homework6 and 12), the sum of an array (homework3).                    *)
(***************************************************************************)
EXTENDS TurnSpin, Integers

CONSTANTS STEPS, Users, Writers, BUF_SIZE, CHUNK, WRITES, IRQS, MAX, SIZE, HIGH, Elements, SETS

ASSUME ModulesAssumption == /\ STEPS \in Nat \ {0} /\ BUF_SIZE \in Nat \ {0, 1} /\ CHUNK \in Nat \ {0}
                            /\ WRITES \in Nat /\ IRQS \in Nat /\ SETS \in Nat

VARIABLES program,      \* the one that runs: "turns", "stop", "radio", "text", "sum"
          thread, task, halt, stopped_at, exit, steps,
          radio_count, user, seen, device, raced,
          r_buffer, rand_nums_amount, writer, text, p, ofs, writes, refused, mixed,
          cat, want, at, shown, meant, disturbed, irq_counter,
          changeable, module, given, m_array, m_low, m_high, product_sum, first, times, inverted, sets

Stopping == INSTANCE StopKthread WITH counter <- steps, stop <- halt
Radio    == INSTANCE Radio
NodeText == INSTANCE NodeText
Sums     == INSTANCE KernelSum

ASSUME SumAssumption == /\ MAX \in Nat \ {0} /\ SIZE \in Nat \ {0} /\ HIGH \in 0 .. MAX
                        /\ Elements \subseteq Sums!Ints

stopVars  == <<thread, task, halt, stopped_at, exit, steps>>
radioVars == <<radio_count, user, seen, device, raced>>
textVars  == <<r_buffer, rand_nums_amount, writer, text, p, ofs, writes, refused, mixed,
               cat, want, at, shown, meant, disturbed, irq_counter>>
sumVars   == <<changeable, module, given, m_array, m_low, m_high, product_sum, first, times, inverted, sets>>
all       == <<program, vars, stopVars, radioVars, textVars, sumVars>>

Boot == /\ program \in {"turns", "stop", "radio", "text", "sum"}
        /\ program = "sum" \/ changeable = FALSE
        /\ Init /\ Stopping!Init /\ Radio!Init /\ NodeText!Init /\ Sums!Init

tic_tac      == program = "turns" /\ Next /\ UNCHANGED <<program, stopVars, radioVars, textVars, sumVars>>
stop_kthread == program = "stop" /\ Stopping!Next /\ UNCHANGED <<program, vars, radioVars, textVars, sumVars>>
radio        == program = "radio" /\ Radio!Next /\ UNCHANGED <<program, vars, stopVars, textVars, sumVars>>
node_text    == program = "text" /\ NodeText!Next /\ UNCHANGED <<program, vars, stopVars, radioVars, sumVars>>
array_sum    == program = "sum" /\ Sums!Next /\ UNCHANGED <<program, vars, stopVars, radioVars, textVars>>

Ended == /\ \/ exit \in {"unloaded", "undefined"}
            \/ \A u \in Users : user[u] = "exit"
            \/ cat = "done" /\ \A w \in Writers : writer[w] = "idle"
            \/ module \in {"loaded", "oops", "failed"}
         /\ UNCHANGED all

Turns(A) == program = "turns" /\ A /\ UNCHANGED <<program, stopVars, radioVars, textVars, sumVars>>
Stop(A)  == program = "stop" /\ A /\ UNCHANGED <<program, vars, radioVars, textVars, sumVars>>

(* As in TurnSpin, and the same of homework8: its thread runs, and a       *)
(* module exit once begun goes on.                                         *)
Fair == /\ WF_all(Turns(tictac_init)) /\ WF_all(Turns(tictac_cleanup /\ phase # "loaded"))
        /\ WF_all(Turns(tic_thread_func)) /\ WF_all(Turns(tac_thread_func))
        /\ WF_all(Stop(Stopping!kthread \/ Stopping!thread_func))
        /\ WF_all(Stop(exit = "stopping" /\ Stopping!stop_kthread_cleanup))

Step == tic_tac \/ stop_kthread \/ radio \/ node_text \/ array_sum \/ Ended

Modules == Boot /\ [][Step]_all /\ Fair

-------------------------------------------------------------------------------
(* Module exit of homework8 returns, and that of homework10 unless tic was *)
(* told to stop before it ran: then tac waits for a TIC that does not      *)
(* come, and exit for tac.                                                 *)
ExitsReturn == CleanupReturns /\ ((exit = "stopping") ~> (exit = "unloaded"))

(* Module exit of homework8 stops a thread that exists, unless it had      *)
(* counted to the end: see StopKthread.                                    *)
StopsLiveThread == Stopping!IInv

(* The count of open files of the radio: see Radio.                        *)
RadioCounted == Radio!IInv

(* What cat shows and what is stored of a text: see NodeText.              *)
TextShown == NodeText!IInv

(* What becomes of the numbers of homework3: see KernelSum.                *)
SumKept == Sums!IInv

(* The array of array_sum_rand is not changed once it is loaded, its       *)
(* comment says: see KernelSum.                                            *)
ArrayStays == Sums!ArrayStays
===============================================================================
