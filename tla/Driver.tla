-------------------------------- MODULE Driver --------------------------------
(***************************************************************************)
(* The four character drivers of homework6, homework9 and homework12: the  *)
(* open gate of their node (OpenGate) together with the loading and        *)
(* unloading of the module that owns the node (CharDev).  A task counts as *)
(* inside, and keeps the module, from its call of open() until that call   *)
(* has failed or release() has returned.                                   *)
(***************************************************************************)
EXTENDS OpenGate, Naturals

CONSTANTS FAULTS, LOADS, IRQS

ASSUME DriverAssumption == FAULTS \in Nat /\ LOADS \in Nat /\ IRQS \in Nat

VARIABLES driver, module, step, registered, left, irq_counter, faults, loads

Inside == {t \in Tasks : pc[t] # "user"}

Reg == INSTANCE CharDev WITH Users <- Tasks, inside <- Inside

moduleVars == <<driver, module, step, registered, left, irq_counter, faults, loads>>
allVars    == <<vars, moduleVars>>

DriverInit == Init /\ Reg!Init

(* A broken Load: init clears the flag once the device is there.           *)
ClearLate == /\ UNCHANGED <<WaitQ, pc, sig, cpu, preempted>>
             /\ Reg!Load
             /\ already_opened' = IF module' = "live" THEN FALSE ELSE already_opened

(* insmod brings the module's data with it: the flag and the wait queue    *)
(* are new.                                                                *)
Load == /\ UNCHANGED <<pc, sig, cpu, preempted>>
        /\ Reg!Load
        /\ IF module = "gone" THEN already_opened' = FALSE /\ WaitQ' = {}
                              ELSE UNCHANGED <<already_opened, WaitQ>>

Unload    == UNCHANGED vars /\ Reg!Unload
Interrupt == UNCHANGED vars /\ Reg!kb_int

(* A step of a task in the node's code, where there is such code.          *)
Node(t) == /\ ~Reg!Crashed
           /\ node_open(t) \/ node_release(t) \/ Signal(t)
           /\ Reg!UserOpen(t) \/ Reg!UserClose(t) \/ UNCHANGED <<moduleVars, Inside>>

rand_node(t)      == driver = "rand" /\ Node(t)
device_node(t)    == driver = "device" /\ Node(t)
interface_node(t) == driver = "interface" /\ Node(t)
keyboard_node(t)  == driver = "keyboard" /\ Node(t)

(* Nothing is claimed of a kernel that has run into code that is gone.     *)
Stopped == (Reg!Crashed \/ (module = "gone" /\ loads = LOADS)) /\ UNCHANGED allVars

DriverNext == \/ Load \/ Unload \/ Interrupt \/ Stopped
              \/ \E t \in Tasks : rand_node(t) \/ device_node(t) \/ interface_node(t) \/ keyboard_node(t)

(* As in OpenGate; nobody has to load or unload the module.                *)
DriverFairness == \A t \in Tasks :
                    /\ WF_allVars(Node(t) /\ node_open(t) /\ pc[t] # "user")
                    /\ WF_allVars(Node(t) /\ node_release(t))

Program == DriverInit /\ [][DriverNext]_allVars /\ DriverFairness

-------------------------------------------------------------------------------
(* The properties of the module's life, with the tasks of the gate inside. *)
ModuleInvariant == Reg!IInv
LeavesNothing   == Reg!LeavesNothing

(* Loading and unloading never disturb the gate: no task is in it when the *)
(* flag and the queue are made anew, and whatever is proved of OpenGate is *)
(* true of the drivers.                                                    *)
ImplementsGate == Init /\ [][Next]_vars

(* Every call of open() returns, unless the module goes away under it or   *)
(* another task sets the flag again and again: wake_up hands the node to   *)
(* nobody, and who is woken may find it taken again each time.             *)
OpensReturnHere ==
  \A t \in Tasks : \/ pc[t] \in Opening ~> pc[t] \notin Opening \/ Reg!Crashed
                   \/ \E u \in Tasks \ {t} : []<>(pc[u] = "set")
===============================================================================
