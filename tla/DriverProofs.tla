---------------------------- MODULE DriverProofs -----------------------------
(***************************************************************************)
(* Proofs about the character drivers for every set of tasks and every     *)
(* number of calls: first their open gate (OpenGate), then the life of     *)
(* their modules (CharDev), then both together (Driver).                   *)
(***************************************************************************)
EXTENDS Driver, Sequences, TLAPS

LEMMA InitInv == Init => IInv
<1> SUFFICES ASSUME Init PROVE IInv OBVIOUS
<1> USE GateAssumption DEF Init
<1>1. TypeOK
  <2>1. pc \in [Tasks -> PCs] BY DEF PCs
  <2>2. sig \in [Tasks -> Signals] BY DEF Signals
  <2> QED BY <2>1, <2>2 DEF TypeOK
<1>2. Queued BY DEF Queued, InKernel, Opening, Closing
<1>3. NoStuckGate /\ NoLostWakeup BY DEF NoStuckGate, NoLostWakeup
<1>4. OneCPU /\ ExclusiveOpen BY DEF OneCPU, ExclusiveOpen, Holds
<1> QED BY <1>1, <1>2, <1>3, <1>4 DEF IInv

-------------------------------------------------------------------------------
(* Any kernel.                                                             *)

LEMMA TypeStep == TypeOK /\ [Next]_vars => TypeOK'
<1> SUFFICES ASSUME TypeOK, [Next]_vars PROVE TypeOK' OBVIOUS
<1> USE GateAssumption DEF TypeOK, PCs, Opening, Closing, Signals, Goto, TakeCPU, KeepCPU, LeaveCPU
<1>1. ASSUME NEW t \in Tasks, node_open(t) PROVE TypeOK'
  <2>1. CASE Open(t) BY <2>1 DEF Open
  <2>2. CASE EAGAIN(t) \/ EINTR(t) BY <2>2 DEF EAGAIN, EINTR, Fail
  <2>3. CASE NoEAGAIN(t) \/ Loop(t) BY <2>3 DEF NoEAGAIN, Loop
  <2>4. CASE WaitEvent(t) \/ PrepareToWait(t) BY <2>4 DEF WaitEvent, PrepareToWait
  <2>5. CASE Recheck(t) BY <2>5 DEF Recheck
  <2>6. CASE Awake(t) \/ NoSignal(t) BY <2>6 DEF Awake, NoSignal
  <2>7. CASE SetOpened(t) BY <2>7 DEF SetOpened
  <2> QED BY <1>1, <2>1, <2>2, <2>3, <2>4, <2>5, <2>6, <2>7 DEF node_open
<1>2. ASSUME NEW t \in Tasks, node_release(t) PROVE TypeOK'
  BY <1>2 DEF node_release, Close, Clear, WakeUp
<1>3. ASSUME NEW t \in Tasks, Signal(t) PROVE TypeOK'
  BY <1>3 DEF Signal
<1>4. CASE UNCHANGED vars BY <1>4 DEF vars
<1> QED BY <1>1, <1>2, <1>3, <1>4 DEF Next

(* A task on the wait queue is between prepare and the end of its sleep,   *)
(* and a task in the kernel and awake has a CPU.                           *)
LEMMA QueuedStep == TypeOK /\ Queued /\ [Next]_vars => Queued'
<1> SUFFICES ASSUME TypeOK, Queued, [Next]_vars PROVE Queued' OBVIOUS
<1> USE GateAssumption DEF TypeOK, Queued, InKernel, PCs, Opening, Closing, Goto,
                           TakeCPU, KeepCPU, LeaveCPU
<1>1. ASSUME NEW t \in Tasks, node_open(t) PROVE Queued'
  <2>1. CASE Open(t) BY <2>1 DEF Open
  <2>2. CASE EAGAIN(t) \/ EINTR(t) BY <2>2 DEF EAGAIN, EINTR, Fail
  <2>3. CASE NoEAGAIN(t) \/ Loop(t) BY <2>3 DEF NoEAGAIN, Loop
  <2>4. CASE WaitEvent(t) \/ PrepareToWait(t) BY <2>4 DEF WaitEvent, PrepareToWait
  <2>5. CASE Recheck(t) BY <2>5 DEF Recheck
  <2>6. CASE Awake(t) \/ NoSignal(t) BY <2>6 DEF Awake, NoSignal
  <2>7. CASE SetOpened(t) BY <2>7 DEF SetOpened
  <2> QED BY <1>1, <2>1, <2>2, <2>3, <2>4, <2>5, <2>6, <2>7 DEF node_open
<1>2. ASSUME NEW t \in Tasks, node_release(t) PROVE Queued'
  BY <1>2 DEF node_release, Close, Clear, WakeUp
<1>3. ASSUME NEW t \in Tasks, Signal(t) PROVE Queued'
  BY <1>3 DEF Signal
<1>4. CASE UNCHANGED vars BY <1>4 DEF vars
<1> QED BY <1>1, <1>2, <1>3, <1>4 DEF Next

(* Whoever sets the flag has the node open, and clears it only in its own  *)
(* release: then no holder is needed.                                      *)
LEMMA StuckStep == TypeOK /\ NoStuckGate /\ [Next]_vars => NoStuckGate'
<1> SUFFICES ASSUME TypeOK, NoStuckGate, [Next]_vars, already_opened'
             PROVE  \E t \in Tasks : Holds(t)'
  BY DEF NoStuckGate
<1> USE DEF TypeOK, Holds, Goto
<1>1. ASSUME NEW t \in Tasks, node_open(t), ~SetOpened(t) PROVE \E u \in Tasks : Holds(u)'
  <2>1. already_opened /\ ~Holds(t)
    BY <1>1 DEF node_open, Open, EAGAIN, EINTR, Fail, NoEAGAIN, Loop, WaitEvent,
                PrepareToWait, Recheck, Awake, NoSignal
  <2>2. PICK u \in Tasks : Holds(u) BY <2>1 DEF NoStuckGate
  <2>3. \A v \in Tasks \ {t} : pc'[v] = pc[v]
    BY <1>1 DEF node_open, Open, EAGAIN, EINTR, Fail, NoEAGAIN, Loop, WaitEvent,
                PrepareToWait, Recheck, Awake, NoSignal
  <2> QED BY <2>1, <2>2, <2>3
<1>2. ASSUME NEW t \in Tasks, SetOpened(t) PROVE \E u \in Tasks : Holds(u)'
  BY <1>2 DEF SetOpened
<1>3. ASSUME NEW t \in Tasks, node_release(t) PROVE \E u \in Tasks : Holds(u)'
  <2>1. CASE Close(t) BY <2>1 DEF Close
  <2>2. CASE Clear(t) BY <2>2 DEF Clear
  <2>3. CASE WakeUp(t)
    <3>1. already_opened /\ ~Holds(t) BY <2>3 DEF WakeUp
    <3>2. PICK u \in Tasks : Holds(u) BY <3>1 DEF NoStuckGate
    <3> QED BY <2>3, <3>1, <3>2 DEF WakeUp
  <2> QED BY <1>3, <2>1, <2>2, <2>3 DEF node_release
<1>4. CASE \E t \in Tasks : Signal(t) BY <1>4 DEF Signal, NoStuckGate
<1>5. CASE UNCHANGED vars BY <1>5 DEF vars, NoStuckGate
<1> QED BY <1>1, <1>2, <1>3, <1>4, <1>5 DEF Next

(* A task goes to sleep only after it has seen the flag set while on the   *)
(* queue; the clear that follows is followed by a wake_up of the queue.    *)
LEMMA WakeupStep == TypeOK /\ NoLostWakeup /\ [Next]_vars => NoLostWakeup'
<1> SUFFICES ASSUME TypeOK, NoLostWakeup, [Next]_vars,
                    NEW s \in WaitQ', pc'[s] = "asleep", ~already_opened'
             PROVE  \E u \in Tasks : pc'[u] = "wake"
  BY DEF NoLostWakeup
<1> USE DEF TypeOK, Goto
<1>1. ASSUME NEW t \in Tasks, node_open(t) PROVE \E u \in Tasks : pc'[u] = "wake"
  <2>1. ~already_opened /\ s \in WaitQ /\ pc[s] = "asleep" /\ pc[t] # "wake"
    BY <1>1 DEF node_open, Open, EAGAIN, EINTR, Fail, NoEAGAIN, Loop, WaitEvent,
                PrepareToWait, Recheck, Awake, NoSignal, SetOpened
  <2>2. PICK u \in Tasks : pc[u] = "wake" BY <2>1 DEF NoLostWakeup
  <2>3. \A v \in Tasks \ {t} : pc'[v] = pc[v]
    BY <1>1 DEF node_open, Open, EAGAIN, EINTR, Fail, NoEAGAIN, Loop, WaitEvent,
                PrepareToWait, Recheck, Awake, NoSignal, SetOpened
  <2> QED BY <2>1, <2>2, <2>3
<1>2. ASSUME NEW t \in Tasks, node_release(t) PROVE \E u \in Tasks : pc'[u] = "wake"
  <2>1. CASE Close(t)
    <3>1. PICK u \in Tasks : pc[u] = "wake" BY <2>1 DEF Close, NoLostWakeup
    <3> QED BY <2>1, <3>1 DEF Close
  <2>2. CASE Clear(t) BY <2>2 DEF Clear
  <2>3. CASE WakeUp(t) BY <2>3 DEF WakeUp
  <2> QED BY <1>2, <2>1, <2>2, <2>3 DEF node_release
<1>3. CASE \E t \in Tasks : Signal(t) BY <1>3 DEF Signal, NoLostWakeup
<1>4. CASE UNCHANGED vars BY <1>4 DEF vars, NoLostWakeup
<1> QED BY <1>1, <1>2, <1>3, <1>4 DEF Next

-------------------------------------------------------------------------------
(* One CPU, no preemption.                                                 *)

(* While no two tasks have been in the kernel at once, none was before.    *)
LEMMA HistoryStep == [Next]_vars /\ ~preempted' => ~preempted
BY DEF Next, node_open, Open, EAGAIN, EINTR, Fail, NoEAGAIN, Loop, WaitEvent, PrepareToWait, Recheck,
       Awake, NoSignal, SetOpened, node_release, Close, Clear, WakeUp, Signal, vars,
       TakeCPU, KeepCPU, LeaveCPU

LEMMA UPStep ==
  IInv /\ [Next]_vars => OneCPU' /\ ExclusiveOpen'
<1> SUFFICES ASSUME IInv, [Next]_vars, ~preempted' PROVE OneCPU' /\ ExclusiveOpen'
  BY DEF OneCPU, ExclusiveOpen
<1>0. TypeOK /\ Queued /\ OneCPU /\ ExclusiveOpen /\ ~preempted BY HistoryStep DEF IInv
<1> USE <1>0, GateAssumption DEF TypeOK, OneCPU, ExclusiveOpen, Holds, Goto, TakeCPU, KeepCPU, LeaveCPU
<1>1. ASSUME NEW t \in Tasks, node_open(t) PROVE OneCPU' /\ ExclusiveOpen'
  <2>1. CASE Open(t) BY <2>1 DEF Open
  <2>2. CASE EAGAIN(t) \/ EINTR(t) BY <2>2 DEF EAGAIN, EINTR, Fail
  <2>3. CASE NoEAGAIN(t) BY <2>3 DEF NoEAGAIN
  <2>8. CASE Loop(t) BY <2>8 DEF Loop
  <2>4. CASE WaitEvent(t) \/ PrepareToWait(t) BY <2>4 DEF WaitEvent, PrepareToWait
  <2>5. CASE Recheck(t) BY <2>5 DEF Recheck
  <2>6. CASE Awake(t)
    <3>1. cpu = {} /\ cpu' = {t} BY <2>6 DEF Awake
    <3>2. already_opened' = already_opened /\ pc' = [pc EXCEPT ![t] = "prepare"] BY <2>6 DEF Awake
    <3>3. t \notin Nonblock BY <2>6 DEF Awake
    <3> QED BY <3>1, <3>2, <3>3
  <2>9. CASE NoSignal(t) BY <2>9 DEF NoSignal
  <2>7. CASE SetOpened(t)
    <3>1. pc[t] = "set" /\ ~already_opened /\ \A u \in Tasks : ~Holds(u) BY <2>7 DEF SetOpened
    <3>2. \A u \in cpu : u = t BY <2>7 DEF SetOpened
    <3>3. \A u \in Tasks : pc[u] \in {"set", "loop"} => u = t
      BY <3>2 DEF Queued, InKernel, Opening, Closing
    <3> QED BY <2>7, <3>1, <3>2, <3>3 DEF SetOpened
  <2> QED BY <1>1, <2>1, <2>2, <2>3, <2>4, <2>5, <2>6, <2>7, <2>8, <2>9 DEF node_open
<1>2. ASSUME NEW t \in Tasks, node_release(t) PROVE OneCPU' /\ ExclusiveOpen'
  <2>1. CASE Close(t) BY <2>1 DEF Close
  <2>2. CASE Clear(t) BY <2>2 DEF Clear
  <2>3. CASE WakeUp(t) BY <2>3 DEF WakeUp
  <2> QED BY <1>2, <2>1, <2>2, <2>3 DEF node_release
<1>3. ASSUME NEW t \in Tasks, Signal(t) PROVE OneCPU' /\ ExclusiveOpen'
  BY <1>3 DEF Signal
<1>4. CASE UNCHANGED vars BY <1>4 DEF vars
<1> QED BY <1>1, <1>2, <1>3, <1>4 DEF Next

(* Whatever the kernel and however many tasks got in: the flag is not left *)
(* set behind, and no sleeper misses the release; and on one CPU without   *)
(* preemption a single task gets in.                                       *)
THEOREM GateInvariant == Spec => []IInv
<1>1. IInv /\ [Next]_vars => IInv'
  BY TypeStep, QueuedStep, StuckStep, WakeupStep, UPStep DEF IInv
<1> QED BY <1>1, InitInv, PTL DEF Spec

(* While no two tasks are in the kernel at once, one has the node open.    *)
THEOREM OpenIsExclusive == Spec => []ExclusiveOpen
<1>1. IInv => ExclusiveOpen BY DEF IInv
<1> QED BY <1>1, GateInvariant, PTL

(* And an O_NONBLOCK open never sleeps.                                    *)
THEOREM NonblockReturns == Spec => []NonblockNeverSleeps
<1>1. IInv => NonblockNeverSleeps BY DEF IInv, OneCPU, NonblockNeverSleeps
<1> QED BY <1>1, GateInvariant, PTL

-------------------------------------------------------------------------------
(* The life of a module.                                                   *)

(* What each of the four drivers registers, and in which order exit undoes *)
(* it.                                                                     *)
LEMMA Orders ==
  /\ driver = "rand"      => /\ Reg!Steps = <<"proc", "region", "class", "device", "cdev">>
                             /\ Reg!Teardown = <<"cdev", "device", "class", "region", "proc">>
  /\ driver = "device"    => /\ Reg!Steps = <<"region", "class", "device", "cdev", "array", "thread">>
                             /\ Reg!Teardown = <<"cdev", "device", "class", "region", "thread", "array">>
  /\ driver = "interface" => /\ Reg!Steps = <<"region", "class", "device", "cdev">>
                             /\ Reg!Teardown = <<"cdev", "device", "class", "region">>
  /\ driver = "keyboard"  => /\ Reg!Steps = <<"region", "class", "device", "cdev", "irq">>
                             /\ Reg!Teardown = <<"cdev", "device", "class", "region", "irq">>
BY DEF Reg!Steps, Reg!Teardown

LEMMA OrderFacts ==
  ASSUME driver \in Reg!Drivers
  PROVE  /\ Len(Reg!Steps) \in 4 .. 6 /\ Len(Reg!Teardown) = Len(Reg!Steps)
         /\ \A i, j \in 1 .. Len(Reg!Steps) : Reg!Steps[i] = Reg!Steps[j] => i = j
         /\ \A i, j \in 1 .. Len(Reg!Steps) : Reg!Teardown[i] = Reg!Teardown[j] => i = j
         /\ Reg!Resources = {Reg!Teardown[i] : i \in 1 .. Len(Reg!Steps)}
         /\ Reg!Device \subseteq Reg!Resources
<1>1. CASE driver = "rand"
  <2>1. Len(Reg!Steps) = 5 /\ Len(Reg!Teardown) = 5 BY <1>1, Orders
  <2>2. \A i, j \in 1 .. 5 : Reg!Steps[i] = Reg!Steps[j] => i = j BY <1>1, Orders
  <2>3. \A i, j \in 1 .. 5 : Reg!Teardown[i] = Reg!Teardown[j] => i = j BY <1>1, Orders
  <2>4. {Reg!Steps[i] : i \in 1 .. 5} = {Reg!Teardown[i] : i \in 1 .. 5} BY <1>1, Orders
  <2>5. Reg!Device \subseteq {Reg!Steps[i] : i \in 1 .. 5} BY <1>1, Orders DEF Reg!Device
  <2> QED BY <2>1, <2>2, <2>3, <2>4, <2>5 DEF Reg!Resources
<1>2. CASE driver = "device"
  <2>1. Len(Reg!Steps) = 6 /\ Len(Reg!Teardown) = 6 BY <1>2, Orders
  <2>2. \A i, j \in 1 .. 6 : Reg!Steps[i] = Reg!Steps[j] => i = j BY <1>2, Orders
  <2>3. \A i, j \in 1 .. 6 : Reg!Teardown[i] = Reg!Teardown[j] => i = j BY <1>2, Orders
  <2>4. {Reg!Steps[i] : i \in 1 .. 6} = {Reg!Teardown[i] : i \in 1 .. 6} BY <1>2, Orders
  <2>5. Reg!Device \subseteq {Reg!Steps[i] : i \in 1 .. 6} BY <1>2, Orders DEF Reg!Device
  <2> QED BY <2>1, <2>2, <2>3, <2>4, <2>5 DEF Reg!Resources
<1>3. CASE driver = "interface"
  <2>1. Len(Reg!Steps) = 4 /\ Len(Reg!Teardown) = 4 BY <1>3, Orders
  <2>2. \A i, j \in 1 .. 4 : Reg!Steps[i] = Reg!Steps[j] => i = j BY <1>3, Orders
  <2>3. \A i, j \in 1 .. 4 : Reg!Teardown[i] = Reg!Teardown[j] => i = j BY <1>3, Orders
  <2>4. {Reg!Steps[i] : i \in 1 .. 4} = {Reg!Teardown[i] : i \in 1 .. 4} BY <1>3, Orders
  <2>5. Reg!Device \subseteq {Reg!Steps[i] : i \in 1 .. 4} BY <1>3, Orders DEF Reg!Device
  <2> QED BY <2>1, <2>2, <2>3, <2>4, <2>5 DEF Reg!Resources
<1>4. CASE driver = "keyboard"
  <2>1. Len(Reg!Steps) = 5 /\ Len(Reg!Teardown) = 5 BY <1>4, Orders
  <2>2. \A i, j \in 1 .. 5 : Reg!Steps[i] = Reg!Steps[j] => i = j BY <1>4, Orders
  <2>3. \A i, j \in 1 .. 5 : Reg!Teardown[i] = Reg!Teardown[j] => i = j BY <1>4, Orders
  <2>4. {Reg!Steps[i] : i \in 1 .. 5} = {Reg!Teardown[i] : i \in 1 .. 5} BY <1>4, Orders
  <2>5. Reg!Device \subseteq {Reg!Steps[i] : i \in 1 .. 5} BY <1>4, Orders DEF Reg!Device
  <2> QED BY <2>1, <2>2, <2>3, <2>4, <2>5 DEF Reg!Resources
<1> QED BY <1>1, <1>2, <1>3, <1>4 DEF Reg!Drivers

(* The last steps, and what a failed one leaves.                           *)
LEMMA LastSteps ==
  ASSUME driver \in Reg!Drivers
  PROVE  /\ driver \in {"rand", "interface"} => Reg!Steps[Len(Reg!Steps)] = "cdev"
         /\ \A i \in 1 .. Len(Reg!Steps) : Reg!Steps[i] = "irq" => i = Len(Reg!Steps)
         /\ driver = "interface" => Reg!Resources \subseteq Reg!Device
         /\ \A i \in 1 .. Len(Reg!Steps) :
              Reg!Steps[i] \notin Reg!Device => i = 1 \/ Reg!Device \subseteq {Reg!Steps[j] : j \in 1 .. i - 1}
<1>1. CASE driver = "rand"
  <2>1. Len(Reg!Steps) = 5 BY <1>1, Orders
  <2>2. \A i \in 1 .. 5 : /\ Reg!Steps[i] # "irq" /\ Reg!Steps[5] = "cdev"
                          /\ Reg!Steps[i] \notin Reg!Device => i = 1
    BY <1>1, Orders DEF Reg!Device
  <2> QED BY <1>1, <2>1, <2>2
<1>2. CASE driver = "device"
  <2>1. Len(Reg!Steps) = 6 BY <1>2, Orders
  <2>2. \A i \in 1 .. 6 : /\ Reg!Steps[i] # "irq"
                          /\ Reg!Steps[i] \notin Reg!Device => i \in {5, 6}
    BY <1>2, Orders DEF Reg!Device
  <2>3. Reg!Device \subseteq {Reg!Steps[j] : j \in 1 .. 4} BY <1>2, Orders DEF Reg!Device
  <2> QED BY <1>2, <2>1, <2>2, <2>3
<1>3. CASE driver = "interface"
  <2>1. Len(Reg!Steps) = 4 BY <1>3, Orders
  <2>2. \A i \in 1 .. 4 : Reg!Steps[i] \in Reg!Device /\ Reg!Steps[i] # "irq" /\ Reg!Steps[4] = "cdev"
    BY <1>3, Orders DEF Reg!Device
  <2> QED BY <1>3, <2>1, <2>2 DEF Reg!Resources
<1>4. CASE driver = "keyboard"
  <2>1. Len(Reg!Steps) = 5 BY <1>4, Orders
  <2>2. \A i \in 1 .. 5 : /\ Reg!Steps[i] = "irq" => i = 5
                          /\ Reg!Steps[i] \notin Reg!Device => i = 5
    BY <1>4, Orders DEF Reg!Device
  <2>3. Reg!Device \subseteq {Reg!Steps[j] : j \in 1 .. 4} BY <1>4, Orders DEF Reg!Device
  <2> QED BY <1>4, <2>1, <2>2, <2>3
<1> QED BY <1>1, <1>2, <1>3, <1>4 DEF Reg!Drivers

LEMMA FailLeaves ==
  ASSUME driver \in Reg!Drivers, step \in 1 .. Len(Reg!Steps), registered = {Reg!Steps[i] : i \in 1 .. step - 1}
  PROVE  LET rest == Reg!Unwound(Reg!Steps[step])
         IN  /\ rest \cap Reg!Device \in {{}, Reg!Device} /\ rest \subseteq Reg!Resources
             /\ driver \in {"rand", "interface"} => "cdev" \notin registered \cup rest
             /\ driver = "interface" => rest = {}
             /\ "irq" \notin rest
<1> DEFINE n == Len(Reg!Steps)
<1>1. n \in 4 .. 6 /\ \A i, j \in 1 .. n : Reg!Steps[i] = Reg!Steps[j] => i = j BY OrderFacts
<1>2. registered \subseteq Reg!Resources /\ Reg!Steps[n] \notin registered BY <1>1 DEF Reg!Resources
<1>3. Reg!Unwound(Reg!Steps[step]) \subseteq registered BY DEF Reg!Unwound
<1>4. Reg!Unwound(Reg!Steps[step]) \cap Reg!Device \in {{}, Reg!Device}
  <2>1. CASE Reg!Steps[step] \in Reg!Device BY <2>1 DEF Reg!Unwound
  <2>2. CASE Reg!Steps[step] \notin Reg!Device BY <2>2, LastSteps DEF Reg!Unwound
  <2> QED BY <2>1, <2>2
<1>5. driver \in {"rand", "interface"} => "cdev" \notin registered BY <1>2, LastSteps
<1>6. "irq" \notin registered BY <1>1, LastSteps
<1>7. driver = "interface" => Reg!Unwound(Reg!Steps[step]) = {}
  BY <1>2, LastSteps DEF Reg!Unwound, Reg!Resources
<1> QED BY <1>2, <1>3, <1>4, <1>5, <1>6, <1>7

LEMMA RegInit == DriverInit => Reg!IInv
<1> SUFFICES ASSUME DriverInit PROVE Reg!IInv OBVIOUS
<1> USE DriverAssumption
<1>1. Inside = {} BY DEF DriverInit, Init, Inside
<1>2. driver \in Reg!Drivers /\ module = "gone" /\ step = 1 /\ registered = {} /\ left = {}
  BY DEF DriverInit, Reg!Init
<1>3. irq_counter = 0 /\ faults = 0 /\ loads = 0 BY DEF DriverInit, Reg!Init
<1>4. step \in 1 .. Len(Reg!Steps) + 1 BY <1>2, OrderFacts
<1>5. Reg!TypeOK BY <1>1, <1>2, <1>3, <1>4 DEF Reg!TypeOK
<1>6. Reg!Progress BY <1>1, <1>2 DEF Reg!Progress
<1>7. Reg!Passed /\ Reg!LockedOut BY <1>2 DEF Reg!Passed, Reg!LockedOut
<1>8. Reg!NoNodeWithoutModule /\ Reg!DeviceAllOrNothing /\ Reg!CanReload
  BY <1>1, <1>2 DEF Reg!NoNodeWithoutModule, Reg!Crashed, Reg!DeviceAllOrNothing, Reg!CanReload
<1> QED BY <1>5, <1>6, <1>7, <1>8 DEF Reg!IInv

(* The order of init and exit is that of the driver, which never changes.  *)
LEMMA SameOrder ==
  ASSUME driver' = driver
  PROVE  Reg!Steps' = Reg!Steps /\ Reg!Teardown' = Reg!Teardown /\ Reg!Resources' = Reg!Resources
BY DEF Reg!Steps, Reg!Teardown, Reg!Resources

LEMMA InsmodStep == Reg!IInv /\ Reg!Insmod => Reg!IInv'
<1> SUFFICES ASSUME Reg!IInv, Reg!Insmod PROVE Reg!IInv' OBVIOUS
<1> USE DriverAssumption
<1>1. /\ module = "gone" /\ Inside = {} /\ loads < LOADS /\ loads' = loads + 1
      /\ module' = "loading" /\ step' = 1 /\ irq_counter' = 0 /\ driver' = driver
      /\ registered' = registered /\ left' = left /\ Inside' = Inside /\ faults' = faults
  BY DEF Reg!Insmod
<1>2. Reg!TypeOK /\ Reg!Progress /\ Reg!NoNodeWithoutModule /\ Reg!DeviceAllOrNothing /\ Reg!CanReload
  BY DEF Reg!IInv
<1>3. Len(Reg!Steps) \in 4 .. 6 BY <1>2, OrderFacts DEF Reg!TypeOK
<1>4. Reg!TypeOK' BY <1>1, <1>2, <1>3, SameOrder DEF Reg!TypeOK
<1>5. registered = {} BY <1>1, <1>2 DEF Reg!Progress
<1>6. Reg!Progress' BY <1>1, <1>2, <1>3, <1>5, SameOrder DEF Reg!Progress
<1>7. Reg!Passed' /\ Reg!LockedOut' BY <1>1 DEF Reg!Passed, Reg!LockedOut
<1>8. Reg!NoNodeWithoutModule' /\ Reg!DeviceAllOrNothing' /\ Reg!CanReload'
  BY <1>1, <1>2 DEF Reg!NoNodeWithoutModule, Reg!Crashed, Reg!DeviceAllOrNothing, Reg!CanReload
<1> QED BY <1>4, <1>6, <1>7, <1>8 DEF Reg!IInv

LEMMA RegisterStep == Reg!IInv /\ Reg!Register => Reg!IInv'
<1> SUFFICES ASSUME Reg!IInv, Reg!Register PROVE Reg!IInv' OBVIOUS
<1> DEFINE n == Len(Reg!Steps)
<1>1. /\ module = "loading" /\ ~Reg!Taken(Reg!Steps[step])
      /\ registered' = registered \cup {Reg!Steps[step]} /\ step' = step + 1
      /\ module' = IF step = n THEN "live" ELSE "loading"
      /\ driver' = driver /\ left' = left /\ Inside' = Inside
      /\ irq_counter' = irq_counter /\ faults' = faults /\ loads' = loads
  BY DEF Reg!Register
<1>2. /\ Reg!TypeOK /\ Reg!Progress /\ Reg!NoNodeWithoutModule /\ Reg!DeviceAllOrNothing
      /\ Reg!CanReload /\ Reg!Passed
  BY DEF Reg!IInv
<1>3. n \in 4 .. 6 BY <1>2, OrderFacts DEF Reg!TypeOK
<1>4. step \in 1 .. n /\ registered = {Reg!Steps[i] : i \in 1 .. step - 1}
  BY <1>1, <1>2, <1>3 DEF Reg!TypeOK, Reg!Progress
<1>5. registered' = {Reg!Steps[i] : i \in 1 .. step} BY <1>1, <1>3, <1>4
<1>6. Reg!TypeOK'
  <2>1. registered' \subseteq Reg!Resources BY <1>3, <1>4, <1>5 DEF Reg!Resources
  <2> QED BY <1>1, <1>2, <1>3, <1>4, <2>1, SameOrder DEF Reg!TypeOK
<1>7. Reg!Progress'
  <2>1. CASE step = n
    <3>1. module' = "live" BY <1>1, <2>1
    <3>2. registered' = Reg!Resources BY <1>5, <2>1 DEF Reg!Resources
    <3> QED BY <1>1, <1>2, <3>1, <3>2, SameOrder DEF Reg!Progress
  <2>2. CASE step # n
    <3>1. module' = "loading" BY <1>1, <2>2
    <3>2. step' <= n /\ step' - 1 = step BY <1>1, <1>3, <1>4, <2>2
    <3> QED BY <1>1, <1>2, <1>5, <3>1, <3>2, SameOrder DEF Reg!Progress
  <2> QED BY <2>1, <2>2
<1>8. Reg!Passed'
  <2>1. \A i \in 1 .. n : i <= step => ~Reg!Taken(Reg!Steps[i])
    BY <1>1, <1>2, <1>3, <1>4 DEF Reg!Passed
  <2>2. \A i \in 1 .. n : module' = "live" \/ i < step' => i <= step BY <1>1, <1>3, <1>4
  <2>3. \A i \in 1 .. n : Reg!Taken(Reg!Steps[i])' <=> Reg!Taken(Reg!Steps[i])
    BY <1>1, SameOrder DEF Reg!Taken
  <2> QED BY <1>1, <2>1, <2>2, <2>3, SameOrder DEF Reg!Passed
<1>9. Reg!LockedOut'
  <2>1. SUFFICES ASSUME module' = "live", NEW r \in left \cap Reg!Named PROVE FALSE
    BY <1>1 DEF Reg!LockedOut, Reg!Named
  <2>2. step = n BY <1>1, <2>1
  <2>3. PICK i \in 1 .. n : Reg!Steps[i] = r BY <1>2, <2>1 DEF Reg!TypeOK, Reg!Resources
  <2>4. i < step \/ i = step BY <1>3, <1>4, <2>2
  <2> QED BY <1>1, <1>2, <2>1, <2>3, <2>4 DEF Reg!Passed, Reg!Taken
<1>10. Reg!NoNodeWithoutModule' /\ Reg!DeviceAllOrNothing' /\ Reg!CanReload'
  BY <1>1, <1>2 DEF Reg!NoNodeWithoutModule, Reg!Crashed, Reg!DeviceAllOrNothing, Reg!CanReload
<1> QED BY <1>6, <1>7, <1>8, <1>9, <1>10 DEF Reg!IInv

(* A failed init leaves a device whole or not at all, no interrupt handler *)
(* and, of rand and interface, no node; it is the only step that adds to   *)
(* what is left.                                                           *)
LEMMA FailStep == Reg!IInv /\ Reg!Fail => Reg!IInv'
<1> SUFFICES ASSUME Reg!IInv, Reg!Fail PROVE Reg!IInv' OBVIOUS
<1> USE DriverAssumption
<1> DEFINE rest == Reg!Unwound(Reg!Steps[step])
<1>1. /\ module = "loading" /\ module' = "gone" /\ registered' = {} /\ left' = left \cup rest
      /\ driver' = driver /\ step' = step /\ Inside' = Inside
      /\ irq_counter' = irq_counter /\ loads' = loads
      /\ faults' = faults \/ (faults < FAULTS /\ faults' = faults + 1)
  BY DEF Reg!Fail
<1>2. /\ Reg!TypeOK /\ Reg!Progress /\ Reg!NoNodeWithoutModule /\ Reg!DeviceAllOrNothing
      /\ Reg!CanReload
  BY DEF Reg!IInv
<1>3. Len(Reg!Steps) \in 4 .. 6 BY <1>2, OrderFacts DEF Reg!TypeOK
<1>4. /\ driver \in Reg!Drivers /\ step \in 1 .. Len(Reg!Steps)
      /\ registered = {Reg!Steps[i] : i \in 1 .. step - 1}
  BY <1>1, <1>2, <1>3 DEF Reg!TypeOK, Reg!Progress
<1>5. /\ rest \cap Reg!Device \in {{}, Reg!Device} /\ rest \subseteq Reg!Resources
      /\ driver \in {"rand", "interface"} => "cdev" \notin registered \cup rest
      /\ driver = "interface" => rest = {}
      /\ "irq" \notin rest
  BY <1>4, FailLeaves
<1>6. Reg!TypeOK' BY <1>1, <1>2, <1>5, SameOrder DEF Reg!TypeOK
<1>7. Inside # {} => driver \in {"device", "keyboard"}
  BY <1>1, <1>2, <1>4, <1>5 DEF Reg!Progress, Reg!Drivers
<1>8. Reg!Progress' BY <1>1, <1>2, <1>5, <1>7 DEF Reg!Progress
<1>9. Reg!Passed' /\ Reg!LockedOut' BY <1>1 DEF Reg!Passed, Reg!LockedOut
<1>10. Reg!DeviceAllOrNothing' /\ Reg!CanReload'
  <2>1. (left \cup rest) \cap Reg!Device = (left \cap Reg!Device) \cup (rest \cap Reg!Device) OBVIOUS
  <2>2. left \cap Reg!Device \in {{}, Reg!Device} BY <1>2 DEF Reg!DeviceAllOrNothing
  <2>3. (left \cap Reg!Device) \cup (rest \cap Reg!Device) \in {{}, Reg!Device} BY <2>2, <1>5
  <2>4. left' \cap Reg!Device \in {{}, Reg!Device} BY <2>1, <2>3, <1>1
  <2> QED BY <1>1, <1>2, <1>5, <2>4 DEF Reg!DeviceAllOrNothing, Reg!CanReload
<1>11. Reg!NoNodeWithoutModule'
  <2>1. driver \in {"rand", "interface"} => Inside = {} BY <1>7
  <2>2. driver \in {"rand", "interface"} => "cdev" \notin left BY <1>2 DEF Reg!Progress
  <2> QED BY <1>1, <1>5, <2>1, <2>2 DEF Reg!NoNodeWithoutModule, Reg!Crashed
<1> QED BY <1>6, <1>8, <1>9, <1>10, <1>11 DEF Reg!IInv

LEMMA RmmodStep == Reg!IInv /\ Reg!Rmmod => Reg!IInv'
<1> SUFFICES ASSUME Reg!IInv, Reg!Rmmod PROVE Reg!IInv' OBVIOUS
<1>1. /\ module = "live" /\ Inside = {} /\ module' = "going" /\ step' = 1
      /\ driver' = driver /\ registered' = registered /\ left' = left /\ Inside' = Inside
      /\ irq_counter' = irq_counter /\ faults' = faults /\ loads' = loads
  BY DEF Reg!Rmmod
<1>2. /\ Reg!TypeOK /\ Reg!Progress /\ Reg!NoNodeWithoutModule /\ Reg!DeviceAllOrNothing
      /\ Reg!CanReload
  BY DEF Reg!IInv
<1>3. /\ Len(Reg!Steps) \in 4 .. 6 /\ Len(Reg!Teardown) = Len(Reg!Steps)
      /\ Reg!Resources = {Reg!Teardown[i] : i \in 1 .. Len(Reg!Teardown)}
  BY <1>2, OrderFacts DEF Reg!TypeOK
<1>4. Reg!TypeOK' BY <1>1, <1>2, <1>3, SameOrder DEF Reg!TypeOK
<1>5. registered = Reg!Resources BY <1>1, <1>2 DEF Reg!Progress
<1>6. Reg!Progress' BY <1>1, <1>2, <1>3, <1>5, SameOrder DEF Reg!Progress
<1>7. Reg!Passed' /\ Reg!LockedOut' BY <1>1 DEF Reg!Passed, Reg!LockedOut
<1>8. Reg!NoNodeWithoutModule' /\ Reg!DeviceAllOrNothing' /\ Reg!CanReload'
  BY <1>1, <1>2 DEF Reg!NoNodeWithoutModule, Reg!Crashed, Reg!DeviceAllOrNothing, Reg!CanReload
<1> QED BY <1>4, <1>6, <1>7, <1>8 DEF Reg!IInv

(* The last step of exit undoes the last thing that is registered: an      *)
(* unloaded module adds nothing to what is left.                           *)
LEMMA LastUndone ==
  ASSUME Reg!TypeOK, Reg!Progress, module = "going"
  PROVE  /\ step \in 1 .. Len(Reg!Teardown) /\ Len(Reg!Teardown) = Len(Reg!Steps) /\ Len(Reg!Steps) \in 4 .. 6
         /\ registered \ {Reg!Teardown[step]} = {Reg!Teardown[i] : i \in step + 1 .. Len(Reg!Teardown)}
         /\ step = Len(Reg!Teardown) => registered \ {Reg!Teardown[step]} = {}
<1> DEFINE n == Len(Reg!Teardown)
<1>1. /\ n \in 4 .. 6 /\ n = Len(Reg!Steps)
      /\ \A i, j \in 1 .. n : Reg!Teardown[i] = Reg!Teardown[j] => i = j
  BY OrderFacts DEF Reg!TypeOK
<1>2. step \in 1 .. n /\ registered = {Reg!Teardown[i] : i \in step .. n}
  BY <1>1 DEF Reg!TypeOK, Reg!Progress
<1>3. registered \ {Reg!Teardown[step]} = {Reg!Teardown[i] : i \in step + 1 .. n}
  <2>1. ASSUME NEW i \in step .. n PROVE i = step \/ i \in step + 1 .. n BY <1>1, <1>2
  <2>2. ASSUME NEW i \in step + 1 .. n PROVE Reg!Teardown[i] # Reg!Teardown[step]
    <3>1. i \in 1 .. n /\ i # step BY <1>1, <1>2
    <3> QED BY <3>1, <1>1, <1>2
  <2>3. step + 1 .. n \subseteq step .. n BY <1>1, <1>2
  <2> QED BY <1>2, <2>1, <2>2, <2>3
<1>4. step = n => step + 1 .. n = {} BY <1>1, <1>2
<1> QED BY <1>1, <1>2, <1>3, <1>4

LEMMA UnregisterStep == Reg!IInv /\ Reg!Unregister => Reg!IInv' /\ left' = left
<1> SUFFICES ASSUME Reg!IInv, Reg!Unregister PROVE Reg!IInv' /\ left' = left OBVIOUS
<1> DEFINE n == Len(Reg!Teardown)
           rest == registered \ {Reg!Teardown[step]}
<1>1. /\ module = "going" /\ step' = step + 1 /\ driver' = driver /\ Inside' = Inside
      /\ irq_counter' = irq_counter /\ faults' = faults /\ loads' = loads
  BY DEF Reg!Unregister
<1>2. /\ Reg!TypeOK /\ Reg!Progress /\ Reg!NoNodeWithoutModule /\ Reg!DeviceAllOrNothing
      /\ Reg!CanReload
  BY DEF Reg!IInv
<1>3. /\ step \in 1 .. n /\ n = Len(Reg!Steps) /\ n \in 4 .. 6
      /\ rest = {Reg!Teardown[i] : i \in step + 1 .. n}
      /\ step = n => rest = {}
  BY <1>1, <1>2, LastUndone
<1>4. Inside = {} BY <1>1, <1>2 DEF Reg!Progress
<1>5. /\ module' = IF step = n THEN "gone" ELSE "going"
      /\ registered' = rest /\ left' = left
  BY <1>1, <1>3 DEF Reg!Unregister
<1>6. Reg!TypeOK' BY <1>1, <1>2, <1>3, <1>5, SameOrder DEF Reg!TypeOK
<1>7. Reg!Progress'
  <2>1. step # n => step' <= n BY <1>1, <1>3
  <2> QED BY <1>1, <1>2, <1>3, <1>4, <1>5, <2>1, SameOrder DEF Reg!Progress
<1>8. Reg!Passed' /\ Reg!LockedOut' BY <1>5 DEF Reg!Passed, Reg!LockedOut
<1>9. Reg!NoNodeWithoutModule'
  BY <1>1, <1>2, <1>4, <1>5 DEF Reg!NoNodeWithoutModule, Reg!Crashed, Reg!Progress
<1>10. Reg!DeviceAllOrNothing' /\ Reg!CanReload'
  BY <1>1, <1>2, <1>5 DEF Reg!DeviceAllOrNothing, Reg!CanReload
<1> QED BY <1>5, <1>6, <1>7, <1>8, <1>9, <1>10 DEF Reg!IInv

(* What changes nothing but who is inside: a call of open() or release(),  *)
(* an interrupt.                                                           *)
LEMMA UserStep ==
  ASSUME Reg!IInv,
         \/ \E t \in Tasks : Reg!UserOpen(t) \/ Reg!UserClose(t)
         \/ Reg!kb_int \/ UNCHANGED <<moduleVars, Inside>>
  PROVE  Reg!IInv'
<1> USE DriverAssumption
<1>1. /\ driver' = driver /\ module' = module /\ step' = step /\ registered' = registered
      /\ left' = left /\ faults' = faults /\ loads' = loads
  BY DEF Reg!UserOpen, Reg!UserClose, Reg!kb_int, moduleVars
<1>2. /\ Reg!TypeOK /\ Reg!Progress /\ Reg!NoNodeWithoutModule /\ Reg!DeviceAllOrNothing
      /\ Reg!CanReload /\ Reg!Passed /\ Reg!LockedOut
  BY DEF Reg!IInv
<1>3. irq_counter' \in 0 .. IRQS BY <1>2 DEF Reg!TypeOK, Reg!UserOpen, Reg!UserClose, Reg!kb_int, moduleVars
<1>4. \/ Inside' \subseteq Inside
      \/ "cdev" \in registered /\ module \in {"loading", "live"}
  BY DEF Reg!UserOpen, Reg!UserClose, Reg!kb_int
<1>5. Inside' \subseteq Tasks BY DEF Inside
<1>6. Reg!TypeOK' BY <1>1, <1>2, <1>3, <1>5, SameOrder DEF Reg!TypeOK
<1>7. Reg!Progress' BY <1>1, <1>2, <1>4, SameOrder DEF Reg!Progress
<1>8. Reg!NoNodeWithoutModule'
  BY <1>1, <1>2, <1>4 DEF Reg!NoNodeWithoutModule, Reg!Crashed
<1>9. Reg!Passed' BY <1>1, <1>2, SameOrder DEF Reg!Passed, Reg!Taken
<1>10. Reg!LockedOut' /\ Reg!DeviceAllOrNothing' /\ Reg!CanReload'
  BY <1>1, <1>2 DEF Reg!LockedOut, Reg!DeviceAllOrNothing, Reg!CanReload
<1> QED BY <1>6, <1>7, <1>8, <1>9, <1>10 DEF Reg!IInv

-------------------------------------------------------------------------------
(* Both together.                                                          *)

LEMMA LoadKinds == Reg!Load => Reg!Insmod \/ Reg!Register \/ Reg!Fail
BY DEF Reg!Load, Reg!init_rand, Reg!module_device_init, Reg!module_interface_init, Reg!keyboard_irq_init

LEMMA UnloadKinds == Reg!Unload => Reg!Rmmod \/ Reg!Unregister
BY DEF Reg!Unload, Reg!deinit_rand, Reg!module_device_deinit, Reg!module_interface_deinit, Reg!keyboard_irq_cleanup

LEMMA NodeKinds ==
  ASSUME NEW t \in Tasks, rand_node(t) \/ device_node(t) \/ interface_node(t) \/ keyboard_node(t)
  PROVE  /\ node_open(t) \/ node_release(t) \/ Signal(t)
         /\ Reg!UserOpen(t) \/ Reg!UserClose(t) \/ UNCHANGED <<moduleVars, Inside>>
BY DEF rand_node, device_node, interface_node, keyboard_node, Node

LEMMA RegStep == Reg!IInv /\ [DriverNext]_allVars => Reg!IInv'
<1> SUFFICES ASSUME Reg!IInv, [DriverNext]_allVars PROVE Reg!IInv' OBVIOUS
<1>1. CASE Load BY <1>1, LoadKinds, InsmodStep, RegisterStep, FailStep DEF Load
<1>2. CASE Unload BY <1>2, UnloadKinds, RmmodStep, UnregisterStep DEF Unload
<1>3. CASE Interrupt
  <2>1. Reg!kb_int BY <1>3 DEF Interrupt
  <2> QED BY <2>1, UserStep
<1>4. ASSUME NEW t \in Tasks, rand_node(t) \/ device_node(t) \/ interface_node(t) \/ keyboard_node(t)
      PROVE  Reg!IInv'
  BY <1>4, NodeKinds, UserStep
<1>5. CASE UNCHANGED allVars
  <2>1. UNCHANGED <<moduleVars, Inside>> BY <1>5 DEF allVars, vars, Inside
  <2> QED BY <2>1, UserStep
<1> QED BY <1>1, <1>2, <1>3, <1>4, <1>5 DEF DriverNext, Stopped

(* insmod makes the flag and the queue anew, but only when no task is in   *)
(* the gate: the gate's own invariant says that they were new already.     *)
LEMMA GateStep == IInv /\ [DriverNext]_allVars => [Next]_vars
<1> SUFFICES ASSUME IInv, [DriverNext]_allVars PROVE [Next]_vars OBVIOUS
<1>1. CASE Load
  <2>1. CASE module = "gone"
    <3>1. Inside = {} BY <1>1, <2>1, LoadKinds DEF Load, Reg!Insmod, Reg!Register, Reg!Fail
    <3>2. \A t \in Tasks : pc[t] = "user" BY <3>1 DEF Inside
    <3>3. WaitQ = {} BY <3>2 DEF IInv, TypeOK, Queued
    <3>4. ~already_opened BY <3>2 DEF IInv, NoStuckGate, Holds
    <3>5. already_opened = FALSE BY <3>4, Zenon DEF IInv, TypeOK
    <3>6. already_opened' = FALSE /\ WaitQ' = {} /\ UNCHANGED <<pc, sig, cpu, preempted>>
      BY <1>1, <2>1 DEF Load
    <3>7. already_opened' = already_opened BY <3>5, <3>6, Zenon
    <3> QED BY <3>3, <3>6, <3>7 DEF vars
  <2>2. CASE module # "gone" BY <1>1, <2>2 DEF Load, vars
  <2> QED BY <2>1, <2>2
<1>2. CASE Unload \/ Interrupt BY <1>2 DEF Unload, Interrupt
<1>3. ASSUME NEW t \in Tasks, rand_node(t) \/ device_node(t) \/ interface_node(t) \/ keyboard_node(t)
      PROVE  Next
  BY <1>3, NodeKinds DEF Next
<1>4. CASE UNCHANGED allVars BY <1>4 DEF allVars
<1> QED BY <1>1, <1>2, <1>3, <1>4 DEF DriverNext, Stopped

(* The gate's invariant is kept through every load and unload of the       *)
(* module: no stuck gate and no lost wakeup, whatever insmod and rmmod do. *)
THEOREM DriverGateInvariant == Program => []IInv
<1>1. DriverInit => IInv BY InitInv DEF DriverInit
<1>2. IInv /\ [DriverNext]_allVars => IInv'
  BY GateStep, TypeStep, QueuedStep, StuckStep, WakeupStep, UPStep DEF IInv
<1> QED BY <1>1, <1>2, PTL DEF Program

(* Loading and unloading never disturb the gate: a driver is an OpenGate.  *)
THEOREM DriverIsGate == Program => ImplementsGate
<1>1. DriverInit => Init BY DEF DriverInit
<1> QED BY <1>1, GateStep, DriverGateInvariant, PTL DEF Program, ImplementsGate

(* create_device leaves all or nothing, no node is left behind without its *)
(* code, and a name that is left locks the module out, however often the   *)
(* module is loaded, however it fails and whatever its users do.           *)
THEOREM ModuleInvariantHolds == Program => []ModuleInvariant
<1>1. DriverInit => ModuleInvariant BY RegInit DEF ModuleInvariant
<1>2. ModuleInvariant /\ [DriverNext]_allVars => ModuleInvariant' BY RegStep DEF ModuleInvariant
<1> QED BY <1>1, <1>2, PTL DEF Program

(* exit undoes everything that init has done: only an init that fails      *)
(* leaves something, and the interrupt handler never runs in a module that *)
(* is gone.                                                                *)
THEOREM ExitLeavesNothing == Program => LeavesNothing
<1> DEFINE Kept == /\ left' # left => module = "loading"
                   /\ irq_counter' > irq_counter => module # "gone"
<1>1. Reg!IInv /\ [DriverNext]_allVars => [Kept]_(Reg!vars)
  <2> SUFFICES ASSUME Reg!IInv, [DriverNext]_allVars PROVE Kept OBVIOUS
  <2>0. Reg!TypeOK /\ Reg!Progress BY DEF Reg!IInv
  <2> USE DriverAssumption
  <2>1. CASE Load
    <3>1. CASE Reg!Insmod BY <2>0, <3>1 DEF Reg!Insmod, Reg!TypeOK
    <3>2. CASE Reg!Register \/ Reg!Fail BY <3>2 DEF Reg!Register, Reg!Fail
    <3> QED BY <2>1, <3>1, <3>2, LoadKinds DEF Load
  <2>2. CASE Unload
    <3>1. CASE Reg!Rmmod BY <3>1 DEF Reg!Rmmod
    <3>2. CASE Reg!Unregister BY <3>2, UnregisterStep DEF Reg!Unregister
    <3> QED BY <2>2, <3>1, <3>2, UnloadKinds DEF Unload
  <2>3. CASE Interrupt BY <2>0, <2>3 DEF Interrupt, Reg!kb_int, Reg!Progress
  <2>4. ASSUME NEW t \in Tasks, rand_node(t) \/ device_node(t) \/ interface_node(t) \/ keyboard_node(t)
        PROVE  left' = left /\ irq_counter' = irq_counter
    BY <2>4, NodeKinds DEF Reg!UserOpen, Reg!UserClose, moduleVars
  <2>5. CASE UNCHANGED allVars BY <2>0, <2>5 DEF allVars, moduleVars, Reg!TypeOK
  <2>6. left' = left /\ irq_counter' = irq_counter => Kept BY <2>0 DEF Reg!TypeOK
  <2> QED BY <2>1, <2>2, <2>3, <2>4, <2>5, <2>6 DEF DriverNext, Stopped
<1>2. Program => []Reg!IInv BY ModuleInvariantHolds DEF ModuleInvariant
<1> QED BY <1>1, <1>2, PTL DEF Program, LeavesNothing, Reg!LeavesNothing
===============================================================================
