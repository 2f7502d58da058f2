------------------------------- MODULE OpenGate -------------------------------
(***************************************************************************)
(* node_open and node_release, the same code in homework6/rand_or.c,       *)
(* homework9/module_device_or.c, homework9/module_interface_or.c and       *)
(* homework12/keyboard_irq_or.c: a flag tested and set without a lock, and *)
(* a wait queue for the tasks that find it set.                            *)
(***************************************************************************)
CONSTANTS Tasks,        \* tasks that open and close the node
          Nonblock      \* those that open it with O_NONBLOCK

ASSUME GateAssumption == Nonblock \subseteq Tasks

VARIABLES already_opened,
          WaitQ,        \* tasks on the wait queue
          pc,           \* where each task is
          sig,          \* the signal pending for each task
          cpu,          \* tasks in the kernel that are not asleep
          preempted     \* history: two of them at once, by preemption or on
                        \* two CPUs

vars == <<already_opened, WaitQ, pc, sig, cpu, preempted>>

Opening == {"test", "loop", "wait", "prepare", "recheck", "asleep", "is_sig", "set"}
Closing == {"clear", "wake"}
PCs     == {"user", "open"} \cup Opening \cup Closing

(* is_sig sees a signal only when it is in current->pending, and in the 32 *)
(* bits that fit an int; one sent to the whole process and handled, or a   *)
(* real-time one, interrupts the sleep but is not seen.                    *)
Signals == {"none", "seen", "unseen"}

TypeOK == /\ already_opened \in BOOLEAN
          /\ WaitQ \subseteq Tasks
          /\ pc \in [Tasks -> PCs]
          /\ sig \in [Tasks -> Signals]
          /\ cpu \subseteq Tasks
          /\ preempted \in BOOLEAN

Init == /\ already_opened = FALSE
        /\ WaitQ = {}
        /\ pc = [t \in Tasks |-> "user"]
        /\ sig = [t \in Tasks |-> "none"]
        /\ cpu = {}
        /\ preempted = FALSE

Goto(t, l) == pc' = [pc EXCEPT ![t] = l]

(* A task enters or re-enters the kernel, goes on from step to step, and   *)
(* sleeps or leaves.  On one CPU without kernel preemption it only enters  *)
(* when no other task is there.                                            *)
TakeCPU(t)  == cpu' = cpu \cup {t} /\ preempted' = (preempted \/ cpu # {})
KeepCPU(t)  == t \in cpu /\ UNCHANGED <<cpu, preempted>>
LeaveCPU(t) == t \in cpu /\ cpu' = cpu \ {t} /\ UNCHANGED preempted

-------------------------------------------------------------------------------
Open(t) == /\ pc[t] = "user"
           /\ TakeCPU(t)
           /\ Goto(t, "test")
           /\ UNCHANGED <<already_opened, WaitQ, sig>>

(* a call that fails goes back to user mode, where signals are delivered   *)
Fail(t) == /\ Goto(t, "user")
           /\ sig' = [sig EXCEPT ![t] = "none"]
           /\ LeaveCPU(t)
           /\ UNCHANGED <<already_opened, WaitQ>>

EAGAIN(t) == pc[t] = "test" /\ already_opened /\ t \in Nonblock /\ Fail(t)

NoEAGAIN(t) == /\ pc[t] = "test"
               /\ ~(already_opened /\ t \in Nonblock)
               /\ KeepCPU(t)
               /\ Goto(t, "loop")
               /\ UNCHANGED <<already_opened, WaitQ, sig>>

(* while(already_opened)                                                   *)
Loop(t) == /\ pc[t] = "loop"
           /\ KeepCPU(t)
           /\ Goto(t, IF already_opened THEN "wait" ELSE "set")
           /\ UNCHANGED <<already_opened, WaitQ, sig>>

(* wait_event_interruptible: test, enqueue, test again, sleep; a pending   *)
(* signal ends it after the second test.                                   *)
WaitEvent(t) == /\ pc[t] = "wait"
                /\ KeepCPU(t)
                /\ Goto(t, IF already_opened THEN "prepare" ELSE "is_sig")
                /\ UNCHANGED <<already_opened, WaitQ, sig>>

PrepareToWait(t) == /\ pc[t] = "prepare"
                    /\ KeepCPU(t)
                    /\ WaitQ' = WaitQ \cup {t}
                    /\ Goto(t, "recheck")
                    /\ UNCHANGED <<already_opened, sig>>

(* A broken Recheck: it sleeps without testing the flag again.             *)
SleepAtOnce(t) == /\ pc[t] = "recheck"
                  /\ IF sig[t] = "none"
                     THEN Goto(t, "asleep") /\ LeaveCPU(t) /\ UNCHANGED WaitQ
                     ELSE Goto(t, "is_sig") /\ KeepCPU(t) /\ WaitQ' = WaitQ \ {t}
                  /\ UNCHANGED <<already_opened, sig>>

Recheck(t) == /\ pc[t] = "recheck"
              /\ IF already_opened /\ sig[t] = "none"
                 THEN Goto(t, "asleep") /\ LeaveCPU(t) /\ UNCHANGED WaitQ
                 ELSE Goto(t, "is_sig") /\ KeepCPU(t) /\ WaitQ' = WaitQ \ {t}
              /\ UNCHANGED <<already_opened, sig>>

Awake(t) == /\ pc[t] = "asleep"
            /\ t \notin WaitQ \/ sig[t] # "none"
            /\ TakeCPU(t)
            /\ Goto(t, "prepare")
            /\ UNCHANGED <<already_opened, WaitQ, sig>>

EINTR(t) == pc[t] = "is_sig" /\ sig[t] = "seen" /\ Fail(t)

NoSignal(t) == /\ pc[t] = "is_sig"
               /\ sig[t] # "seen"
               /\ KeepCPU(t)
               /\ Goto(t, "loop")
               /\ UNCHANGED <<already_opened, WaitQ, sig>>

(* already_opened = 1; return 0                                            *)
SetOpened(t) == /\ pc[t] = "set"
                /\ already_opened' = TRUE
                /\ sig' = [sig EXCEPT ![t] = "none"]
                /\ LeaveCPU(t)
                /\ Goto(t, "open")
                /\ UNCHANGED WaitQ

node_open(t) == \/ Open(t) \/ EAGAIN(t) \/ NoEAGAIN(t) \/ Loop(t) \/ WaitEvent(t)
                \/ PrepareToWait(t) \/ Recheck(t) \/ Awake(t) \/ EINTR(t)
                \/ NoSignal(t) \/ SetOpened(t)

-------------------------------------------------------------------------------
Close(t) == /\ pc[t] = "open"
            /\ TakeCPU(t)
            /\ Goto(t, "clear")
            /\ UNCHANGED <<already_opened, WaitQ, sig>>

(* A broken Clear: the queue is not woken.                                 *)
ClearSilently(t) == /\ pc[t] = "clear"
                    /\ already_opened' = FALSE
                    /\ LeaveCPU(t)
                    /\ Goto(t, "user")
                    /\ UNCHANGED <<WaitQ, sig>>

Clear(t) == /\ pc[t] = "clear"
            /\ already_opened' = FALSE
            /\ KeepCPU(t)
            /\ Goto(t, "wake")
            /\ UNCHANGED <<WaitQ, sig>>

(* wake_up(&WaitQ) wakes every task on the queue                           *)
WakeUp(t) == /\ pc[t] = "wake"
             /\ WaitQ' = {}
             /\ LeaveCPU(t)
             /\ Goto(t, "user")
             /\ UNCHANGED <<already_opened, sig>>

node_release(t) == Close(t) \/ Clear(t) \/ WakeUp(t)

(* A signal comes while a task is in open().                               *)
Signal(t) == /\ pc[t] \in Opening
             /\ sig[t] = "none"
             /\ \E s \in {"seen", "unseen"} : sig' = [sig EXCEPT ![t] = s]
             /\ UNCHANGED <<already_opened, WaitQ, pc, cpu, preempted>>

Next == \E t \in Tasks : node_open(t) \/ node_release(t) \/ Signal(t)

(* A task in the kernel is scheduled, and a task that has the node open    *)
(* closes it; nobody has to open it and no signal has to come.             *)
Fairness == \A t \in Tasks : /\ WF_vars(node_open(t) /\ pc[t] # "user")
                             /\ WF_vars(node_release(t))

Spec == Init /\ [][Next]_vars /\ Fairness

-------------------------------------------------------------------------------
(* Tasks between already_opened = 1 and already_opened = 0.                *)
Holds(t) == pc[t] \in {"open", "clear"}

(* One task at a time has the node open.  The flag is tested at the head   *)
(* of the loop and set after it, so this is only so when nothing runs in   *)
(* between: on one CPU without preemption.                                 *)
ExclusiveOpen == ~preempted => \A t, u \in Tasks : Holds(t) /\ Holds(u) => t = u

(* There an O_NONBLOCK open is not put to sleep either, although it tests  *)
(* the flag only once, before the loop.                                    *)
NonblockNeverSleeps == ~preempted => \A t \in Nonblock : pc[t] # "asleep"

(* On any kernel the flag is never left set by a task that is gone: who    *)
(* waits for it waits for a task that has the node open, even after        *)
(* several got in.                                                         *)
NoStuckGate == already_opened => \E t \in Tasks : Holds(t)

(* No task sleeps on a cleared flag unless a wake_up is still to come,     *)
(* although the flag is tested, cleared and set with no lock.              *)
NoLostWakeup == \A t \in WaitQ :
                  pc[t] = "asleep" /\ ~already_opened => \E u \in Tasks : pc[u] = "wake"

-------------------------------------------------------------------------------
(* The inductive invariant: for any kernel, and for one CPU.               *)
InKernel(t) == pc[t] \in (Opening \ {"asleep"}) \cup Closing

Queued == /\ \A t \in WaitQ : pc[t] \in {"prepare", "recheck", "asleep"}
          /\ \A t \in Tasks : InKernel(t) <=> t \in cpu

OneCPU == ~preempted =>
          /\ \A t, u \in cpu : t = u
          /\ \A t \in Tasks : Holds(t) => already_opened
          /\ \A t \in Tasks : pc[t] = "set" => ~already_opened
          /\ \A t \in Nonblock : /\ pc[t] \notin {"wait", "prepare", "recheck", "asleep", "is_sig"}
                                 /\ pc[t] = "loop" => ~already_opened

IInv == TypeOK /\ Queued /\ NoStuckGate /\ NoLostWakeup /\ OneCPU /\ ExclusiveOpen
===============================================================================
