--------------------------------- MODULE Radio ---------------------------------
(***************************************************************************)
(* The driver of homework4/radio, which lets one file be open at a time by *)
(* a counter without a lock, and processes that run the program of         *)
(* homework5 on it: read /dev/radio0, read /dev/radio1, write /dev/radio2, *)
(* one driver behind all three.  A call that fails ends the program.       *)
(***************************************************************************)
EXTENDS Integers

CONSTANT Users

VARIABLES radio_count,
          user,         \* where each process is
          seen,         \* what it has read of radio_count
          device,       \* the device it is at, 0 to 2
          raced         \* two processes were in open or release at once

Init == /\ radio_count = 0
        /\ user = [u \in Users |-> "open"]
        /\ seen = [u \in Users |-> 0] /\ device = [u \in Users |-> 0]
        /\ raced = FALSE

Inside(u) == user[u] \in {"increment", "store", "decrement", "close"}
Move(u, from, to) == user[u] = from /\ user' = [user EXCEPT ![u] = to]
Overlap == raced' = (raced \/ \E u, v \in Users : u # v /\ Inside(u)' /\ Inside(v)')

-------------------------------------------------------------------------------
(* radio_open: the test, and the two halves of radio_count++               *)

(* A broken Test: a file that is refused is counted.                       *)
TestCounting(u) == /\ \/ radio_count > 0 /\ Move(u, "open", "exit") /\ radio_count' = radio_count + 1
                      \/ radio_count <= 0 /\ Move(u, "open", "increment") /\ UNCHANGED radio_count
                   /\ Overlap
                   /\ UNCHANGED <<seen, device>>

Test(u) == /\ \/ radio_count > 0 /\ Move(u, "open", "exit")
              \/ radio_count <= 0 /\ Move(u, "open", "increment")
           /\ Overlap
           /\ UNCHANGED <<radio_count, seen, device>>

Increment(u) == /\ Move(u, "increment", "store")
                /\ seen' = [seen EXCEPT ![u] = radio_count]
                /\ UNCHANGED <<radio_count, device, raced>>

Opened(u) == /\ Move(u, "store", "use")
             /\ radio_count' = seen[u] + 1
             /\ UNCHANGED <<seen, device, raced>>

(* radio_release, by close() or by the exit of a process whose call failed *)
Decrement(u) == /\ Move(u, "decrement", "close")
                /\ seen' = [seen EXCEPT ![u] = radio_count]
                /\ UNCHANGED <<radio_count, device, raced>>

Released(u) == /\ \/ device[u] \in {0, 1} /\ Move(u, "close", "open") /\ device' = [device EXCEPT ![u] = @ + 1]
                  \/ device[u] \in {2, 3} /\ Move(u, "close", "exit") /\ UNCHANGED device
               /\ radio_count' = seen[u] - 1
               /\ UNCHANGED <<seen, raced>>

(* read() or write(), which may fail; the driver here has no read at all,  *)
(* the program was written for others too.  Device 3 stands for exit().    *)
Use(u) == /\ Move(u, "use", "decrement")
          /\ device' \in {device, [device EXCEPT ![u] = 3]}
          /\ Overlap
          /\ UNCHANGED <<radio_count, seen>>

Call(u) == Test(u) \/ Increment(u) \/ Opened(u) \/ Use(u) \/ Decrement(u) \/ Released(u)

read_from_device(u) == device[u] \in {0, 1} /\ Call(u)
write_to_device(u)  == device[u] = 2 /\ Call(u)
exit(u)             == device[u] = 3 /\ (Decrement(u) \/ Released(u))

main(u) == read_from_device(u) \/ write_to_device(u) \/ exit(u)

Next == \E u \in Users : main(u)

-------------------------------------------------------------------------------
Holders == {u \in Users : user[u] \in {"use", "decrement", "close"}}

(* As long as no two processes were in open or release at once, one file   *)
(* at a time is open and radio_count says so, whatever calls have failed;  *)
(* in the end the device can be opened again.                              *)
RadioCounted == raced \/ /\ \A u, v \in Holders : u = v
                         /\ radio_count = IF Holders = {} THEN 0 ELSE 1

TypeOK == /\ radio_count \in Int /\ raced \in BOOLEAN
          /\ user \in [Users -> {"open", "increment", "store", "use", "decrement", "close", "exit"}]
          /\ seen \in [Users -> Int] /\ device \in [Users -> 0 .. 3]

(* The inductive form: one process at most is inside, what it has read is  *)
(* still there, and whoever has passed the test found nobody at the device. *)
Alone == /\ \A u, v \in Users : Inside(u) /\ Inside(v) => u = v
         /\ \A u \in Users : /\ user[u] \in {"store", "close"} => seen[u] = radio_count
                             /\ user[u] \in {"increment", "store"} => Holders = {}

IInv == TypeOK /\ (raced \/ Alone) /\ RadioCounted
===============================================================================
