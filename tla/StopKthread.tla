------------------------------ MODULE StopKthread ------------------------------
(***************************************************************************)
(* homework8/stop_kthread: a kernel thread that counts to STEPS or until   *)
(* module exit stops it.  Nobody holds a reference to its task: when it    *)
(* has returned, the kernel frees the task_struct that thread points to.   *)
(***************************************************************************)
EXTENDS Integers

CONSTANT STEPS

VARIABLES thread,       \* what the pointer is: "unset", "task", "ERR_PTR"
          task,         \* the state of the kernel thread
          counter,
          stop,         \* kthread_stop has asked it to stop
          stopped_at,   \* the value counter had then
          exit          \* progress of the module

Init == /\ thread = "unset" /\ task = "none" /\ counter = 0
        /\ stop = FALSE /\ stopped_at = 0
        /\ exit = "init"

-------------------------------------------------------------------------------
(* A failed kthread_run returns ERR_PTR, which is not NULL: init succeeds. *)
stop_kthread_init == /\ exit = "init" /\ exit' = "loaded"
                     /\ \/ thread' = "task" /\ task' = "created"
                        \/ thread' = "ERR_PTR" /\ UNCHANGED task
                     /\ UNCHANGED <<counter, stop, stopped_at>>

(* kthread_stop waits until the thread is gone; of a pointer to no task    *)
(* nothing is known.                                                       *)
stop_kthread_cleanup ==
  /\ \/ /\ exit = "loaded"
        /\ IF thread = "task" /\ task # "freed"
           THEN exit' = "stopping" /\ stop' = TRUE /\ stopped_at' = counter
           ELSE exit' = "undefined" /\ UNCHANGED <<stop, stopped_at>>
     \/ exit = "stopping" /\ task = "returned" /\ exit' = "unloaded" /\ UNCHANGED <<stop, stopped_at>>
  /\ UNCHANGED <<thread, task, counter>>

kthread == /\ task = "created"
           /\ task' = IF stop THEN "returned" ELSE "msleep"
           /\ UNCHANGED <<thread, counter, stop, stopped_at, exit>>

Count == /\ task = "msleep"
         /\ counter' = counter + 1
         /\ task' = "check"
         /\ UNCHANGED <<thread, stop, stopped_at, exit>>

(* A broken Check: it does not look at kthread_should_stop.                *)
CheckNot == /\ task = "check"
            /\ task' = IF counter = STEPS THEN "returned" ELSE "msleep"
            /\ UNCHANGED <<thread, counter, stop, stopped_at, exit>>

Check == /\ task = "check"
         /\ task' = IF stop \/ counter = STEPS THEN "returned" ELSE "msleep"
         /\ UNCHANGED <<thread, counter, stop, stopped_at, exit>>

(* The kernel frees a task that has returned and that kthread_stop has not *)
(* taken a reference to.                                                   *)
Free == /\ task = "returned" /\ ~ stop
        /\ task' = "freed"
        /\ UNCHANGED <<thread, counter, stop, stopped_at, exit>>

thread_func == Count \/ Check

Next == stop_kthread_init \/ stop_kthread_cleanup \/ kthread \/ thread_func \/ Free

-------------------------------------------------------------------------------
(* The thread counts once more at most after it was asked to stop; module  *)
(* exit reaches for a task that is no more only when the thread had        *)
(* counted to STEPS before, or was never created.                          *)
StopsLiveThread == /\ stop => counter <= stopped_at + 1 /\ thread = "task"
                   /\ exit = "undefined" => counter = STEPS \/ thread = "ERR_PTR"
                   /\ counter <= STEPS

TypeOK == /\ thread \in {"unset", "task", "ERR_PTR"}
          /\ task \in {"none", "created", "msleep", "check", "returned", "freed"}
          /\ counter \in Nat /\ stopped_at \in Nat /\ stop \in BOOLEAN
          /\ exit \in {"init", "loaded", "stopping", "unloaded", "undefined"}

(* The inductive invariant: a task that has returned by itself has counted *)
(* to the end, and one that is told to stop counts once more only from     *)
(* msleep.                                                                 *)
Counts == /\ task = "none" <=> thread # "task"
          /\ exit = "init" <=> thread = "unset"
          /\ stop <=> exit \in {"stopping", "unloaded"}
          /\ task \in {"none", "created"} => counter = 0
          /\ task = "msleep" => counter < STEPS /\ (stop => counter = stopped_at)
          /\ task = "created" /\ stop => stopped_at = 0
          /\ task \in {"returned", "freed"} => stop \/ counter = STEPS
          /\ task = "freed" => ~ stop
          /\ exit = "unloaded" => task = "returned"

IInv == TypeOK /\ Counts /\ StopsLiveThread
===============================================================================
