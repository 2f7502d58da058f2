-------------------------------- MODULE CharDev --------------------------------
(***************************************************************************)
(* Loading and unloading a module that owns a character device: the code   *)
(* that rand_main.c, module_device_main.c, module_interface_main.c and     *)
(* keyboard_irq_main.c share (create_device and the exit function), with   *)
(* what each adds before and after it.  A registration that fails returns  *)
(* the value that the code tests for: NULL, or -1.                         *)
(***************************************************************************)
EXTENDS Naturals, Sequences

CONSTANTS Users,        \* tasks that open the node
          FAULTS,       \* bound: registrations that fail for lack of memory
          LOADS,        \* bound: calls of insmod
          IRQS          \* bound: interrupts per load

VARIABLES driver,       \* which of the four modules it is
          module,       \* gone, loading, live or going
          step,         \* the next step of init or exit
          registered,   \* what this load of the module has registered
          left,         \* what earlier loads have left behind
          inside,       \* users that are in the code of the node or have it open
          irq_counter,  \* of the keyboard driver
          faults, loads \* how much of the bounds is used up

Drivers == {"rand", "device", "interface", "keyboard"}

vars == <<driver, module, step, registered, left, inside, irq_counter, faults, loads>>

(* rand makes a /proc entry first; after the device keyboard registers its *)
(* interrupt handler, and device has an array and a thread (see            *)
(* ModuleDevice).                                                          *)
Device   == {"region", "class", "device", "cdev"}       \* of create_device
Steps    == CASE driver = "rand"      -> <<"proc", "region", "class", "device", "cdev">>
              [] driver = "device"    -> <<"region", "class", "device", "cdev", "array", "thread">>
              [] driver = "interface" -> <<"region", "class", "device", "cdev">>
              [] driver = "keyboard"  -> <<"region", "class", "device", "cdev", "irq">>
Teardown == CASE driver = "rand"      -> <<"cdev", "device", "class", "region", "proc">>
              [] driver = "device"    -> <<"cdev", "device", "class", "region", "thread", "array">>
              [] driver = "interface" -> <<"cdev", "device", "class", "region">>
              [] driver = "keyboard"  -> <<"cdev", "device", "class", "region", "irq">>
Named    == {"proc", "class"}       \* the kernel has a name only once

Resources == {Steps[i] : i \in 1 .. Len(Steps)}

TypeOK == /\ driver \in Drivers
          /\ module \in {"gone", "loading", "live", "going"}
          /\ step \in 1 .. Len(Steps) + 1
          /\ registered \subseteq Resources
          /\ left \subseteq Resources
          /\ inside \subseteq Users
          /\ irq_counter \in 0 .. IRQS
          /\ faults \in 0 .. FAULTS
          /\ loads \in 0 .. LOADS

Init == /\ driver \in Drivers
        /\ module = "gone"
        /\ step = 1
        /\ registered = {}
        /\ left = {}
        /\ inside = {}
        /\ irq_counter = 0
        /\ faults = 0
        /\ loads = 0

-------------------------------------------------------------------------------
Insmod == /\ module = "gone"
          /\ inside = {}
          /\ loads < LOADS
          /\ loads' = loads + 1
          /\ module' = "loading"
          /\ step' = 1
          /\ irq_counter' = 0
          /\ UNCHANGED <<driver, registered, left, inside, faults>>

Taken(r) == r \in Named \cap left

Register == /\ module = "loading"
            /\ ~Taken(Steps[step])
            /\ registered' = registered \cup {Steps[step]}
            /\ step' = step + 1
            /\ module' = IF step = Len(Steps) THEN "live" ELSE "loading"
            /\ UNCHANGED <<driver, left, inside, irq_counter, faults, loads>>

(* A broken Unwound: class_destroy is forgotten.                           *)
UnwoundButClass(r) == IF r \in Device THEN registered \ (Device \ {"class"}) ELSE registered

(* What a failure of r leaves: create_device undoes what it has done, and  *)
(* nobody undoes anything else.                                            *)
Unwound(r) == IF r \in Device THEN registered \ Device ELSE registered

Fail == /\ module = "loading"
        /\ \/ Taken(Steps[step]) /\ UNCHANGED faults
           \/ Steps[step] # "thread" /\ faults < FAULTS /\ faults' = faults + 1
        /\ module' = "gone"
        /\ left' = left \cup Unwound(Steps[step])
        /\ registered' = {}
        /\ UNCHANGED <<driver, step, inside, irq_counter, loads>>

(* rmmod is refused while the node is in use: fops.owner is THIS_MODULE.   *)
Rmmod == /\ module = "live"
         /\ inside = {}
         /\ module' = "going"
         /\ step' = 1
         /\ UNCHANGED <<driver, registered, left, inside, irq_counter, faults, loads>>

(* A broken Unregister: exit returns before its last step.                 *)
UnregisterButLast == /\ module = "going"
                     /\ IF step = Len(Teardown) - 1
                        THEN /\ module' = "gone"
                             /\ left' = left \cup (registered \ {Teardown[step]})
                             /\ registered' = {}
                        ELSE /\ registered' = registered \ {Teardown[step]}
                             /\ UNCHANGED <<module, left>>
                     /\ step' = step + 1
                     /\ UNCHANGED <<driver, inside, irq_counter, faults, loads>>

Unregister == /\ module = "going"
              /\ IF step = Len(Teardown)
                 THEN /\ module' = "gone"
                      /\ left' = left \cup (registered \ {Teardown[step]})
                      /\ registered' = {}
                 ELSE /\ registered' = registered \ {Teardown[step]}
                      /\ UNCHANGED <<module, left>>
              /\ step' = step + 1
              /\ UNCHANGED <<driver, inside, irq_counter, faults, loads>>

(* The node can be opened from cdev_add on, also while init still runs,    *)
(* but not once the module is on its way out.                              *)
UserOpen(u) == /\ "cdev" \in registered
               /\ module \in {"loading", "live"}
               /\ u \notin inside
               /\ inside' = inside \cup {u}
               /\ UNCHANGED <<driver, module, step, registered, left, irq_counter, faults, loads>>

UserClose(u) == /\ u \in inside
                /\ inside' = inside \ {u}
                /\ UNCHANGED <<driver, module, step, registered, left, irq_counter, faults, loads>>

(* An interrupt reaches every handler that has not been freed.             *)
kb_int == /\ "irq" \in registered \cup left
          /\ irq_counter < IRQS
          /\ irq_counter' = irq_counter + 1
          /\ UNCHANGED <<driver, module, step, registered, left, inside, faults, loads>>

(* The modules of the four drivers.                                        *)
init_rand   == driver = "rand" /\ (Insmod \/ Register \/ Fail)
deinit_rand == driver = "rand" /\ (Rmmod \/ Unregister)

module_device_init   == driver = "device" /\ (Insmod \/ Register \/ Fail)
module_device_deinit == driver = "device" /\ (Rmmod \/ Unregister)

module_interface_init   == driver = "interface" /\ (Insmod \/ Register \/ Fail)
module_interface_deinit == driver = "interface" /\ (Rmmod \/ Unregister)

keyboard_irq_init    == driver = "keyboard" /\ (Insmod \/ Register \/ Fail)
keyboard_irq_cleanup == driver = "keyboard" /\ (Rmmod \/ Unregister)

Load   == init_rand \/ module_device_init \/ module_interface_init \/ keyboard_irq_init
Unload == deinit_rand \/ module_device_deinit \/ module_interface_deinit \/ keyboard_irq_cleanup

-------------------------------------------------------------------------------
(* The code of the node is gone while a task is in it.                     *)
Crashed == module = "gone" /\ inside # {}

(* No node is left, and nobody is inside one, when the code behind it has  *)
(* been unloaded.  keyboard and device are no such drivers: request_irq or *)
(* kmalloc can fail when the node is already there.                        *)
NoNodeWithoutModule == driver \in {"rand", "interface"} => ~Crashed /\ (module = "gone" => "cdev" \notin left)

(* create_device leaves its device whole or not at all, however it fails   *)
(* and however often it is tried.                                          *)
DeviceAllOrNothing == left \cap Device \in {{}, Device}

(* After any failure module_interface can be loaded again: no name is      *)
(* taken.  rand leaves its /proc entry, keyboard and device their class.   *)
CanReload == driver = "interface" => left = {}

(* A name that a failed init has left locks the module out for good.       *)
LockedOut == left \cap Named # {} => module # "live"

(* A module that was loaded leaves nothing when it is unloaded, only a     *)
(* failed init leaves something; and kb_int never runs in a module that is *)
(* gone.                                                                   *)
LeavesNothing == [][/\ left' # left => module = "loading"
                    /\ irq_counter' > irq_counter => module # "gone"]_vars

(* The invariant behind LockedOut: init goes on only past names that are   *)
(* free, and what is left does not grow while it runs; with it, what the   *)
(* drivers' unwinding does and does not leave.                             *)
Passed == \A i \in 1 .. Len(Steps) :
            module = "live" \/ (module = "loading" /\ i < step) => ~Taken(Steps[i])

(* What is registered when, on the way in and on the way out; a task is    *)
(* inside only behind a node, or, of keyboard and device, behind one that  *)
(* is gone; and what an init that failed has not left.                     *)
Progress == /\ module = "gone" => registered = {}
            /\ module = "loading" => step <= Len(Steps) /\ registered = {Steps[i] : i \in 1 .. step - 1}
            /\ module = "live" => registered = Resources
            /\ module = "going" => /\ step <= Len(Teardown) /\ inside = {}
                                   /\ registered = {Teardown[i] : i \in step .. Len(Teardown)}
            /\ inside # {} => "cdev" \in registered \/ (module = "gone" /\ driver \in {"device", "keyboard"})
            /\ "irq" \notin left
            /\ driver \in {"rand", "interface"} => "cdev" \notin left

IInv == TypeOK /\ Progress /\ NoNodeWithoutModule /\ Passed /\ LockedOut /\ DeviceAllOrNothing /\ CanReload
===============================================================================
