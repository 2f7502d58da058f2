------------------------------- MODULE FileLocks -------------------------------
(***************************************************************************)
(* homework4/testlocks.c, and testlocks_original.c beside it: each process *)
(* locks a region of a file, writes its record there and holds the lock    *)
(* until a key is pressed.  testlocks.c waits for the lock (F_SETLKW) and  *)
(* looks for another region only when waiting fails; the original does not *)
(* wait (F_SETLK).                                                         *)
(*                                                                         *)
(* F_GETLK overwrites the very structure that the next attempt locks with: *)
(* if the region has become free, l_type is F_UNLCK from then on.          *)
(***************************************************************************)
EXTENDS Integers, FiniteSets

CONSTANTS Procs,
          REGIONS,      \* bound: regions of the file
          FAULTS        \* bound: failures of F_SETLKW (EINTR, ENOLCK)

VARIABLES waits,        \* testlocks.c, not the original
          locks,        \* the processes that hold a lock on each region
          record,       \* who wrote to each region last
          l_type, l_start,
          pc, faults

Regions == 0 .. REGIONS - 1

Init == /\ waits \in BOOLEAN
        /\ locks = [r \in Regions |-> {}]
        /\ record = [r \in Regions |-> {}]
        /\ l_type = [p \in Procs |-> "F_WRLCK"]
        /\ l_start = [p \in Procs |-> 0]
        /\ pc = [p \in Procs |-> "set"]
        /\ faults = 0

Goto(p, from, to) == pc[p] = from /\ pc' = [pc EXCEPT ![p] = to]

-------------------------------------------------------------------------------
Refused(p) == l_type[p] = "F_WRLCK" /\ locks[l_start[p]] \ {p} # {}

(* A broken SetLock: a read lock is asked for.                             *)
SetShared(p) == /\ Goto(p, "set", "write")
                /\ locks' = [locks EXCEPT ![l_start[p]] = @ \cup {p}]
                /\ UNCHANGED <<waits, record, l_type, l_start, faults>>

(* fcntl of F_SETLKW or F_SETLK that succeeds: with F_UNLCK it always does *)
SetLock(p) == /\ Goto(p, "set", "write")
              /\ ~ Refused(p)
              /\ locks' = [locks EXCEPT ![l_start[p]] = IF l_type[p] = "F_WRLCK" THEN {p} ELSE @ \ {p}]
              /\ UNCHANGED <<waits, record, l_type, l_start, faults>>

SetFails(p) == /\ Goto(p, "set", "get")
               /\ Refused(p)
               /\ IF waits THEN faults < FAULTS /\ faults' = faults + 1 ELSE UNCHANGED faults
               /\ UNCHANGED <<waits, locks, record, l_type, l_start>>

(* F_GETLK: the region is free now, or it is not and the next one is tried *)
(* up to the boundary.  The original goes on to the next in any case.      *)
GetLock(p) ==
  LET free == locks[l_start[p]] \ {p} = {}
      next == IF waits /\ free THEN l_start[p] ELSE l_start[p] + 1
  IN /\ Goto(p, "get", IF next < REGIONS THEN "set" ELSE "done")
     /\ l_type' = [l_type EXCEPT ![p] = IF free THEN "F_UNLCK" ELSE "F_WRLCK"]
     /\ l_start' = [l_start EXCEPT ![p] = next]
     /\ UNCHANGED <<waits, locks, record, faults>>

Write(p) == /\ Goto(p, "write", "getchar")
            /\ record' = [record EXCEPT ![l_start[p]] = {p}]
            /\ UNCHANGED <<waits, locks, l_type, l_start, faults>>

(* F_UNLCK and close                                                       *)
Unlock(p) == /\ Goto(p, "getchar", "done")
             /\ locks' = [locks EXCEPT ![l_start[p]] = @ \ {p}]
             /\ l_type' = [l_type EXCEPT ![p] = "F_UNLCK"]
             /\ UNCHANGED <<waits, record, l_start, faults>>

(* What a process does by itself: no failure of F_SETLKW.                  *)
Works(p) == SetLock(p) \/ GetLock(p) \/ Write(p) \/ Unlock(p)

testlocks(p) == Works(p) \/ SetFails(p)

Next == \E p \in Procs : testlocks(p)

-------------------------------------------------------------------------------
Showing(p) == pc[p] = "getchar"

(* A record is overwritten while its process still holds the region only   *)
(* when one of the two has "locked" it with the F_UNLCK that F_GETLK left  *)
(* in the structure.                                                       *)
OverwrittenByUnlock ==
  \A p \in Procs : Showing(p) /\ record[l_start[p]] # {p}
    => \E q \in Procs : l_start[q] = l_start[p] /\ (l_type[p] = "F_UNLCK" \/ l_type[q] = "F_UNLCK")

(* Without a failing F_SETLKW testlocks.c keeps the records of processes   *)
(* at work.                                                                *)
RecordsStay == waits /\ faults = 0 => \A p \in Procs : Showing(p) => record[l_start[p]] = {p}

-------------------------------------------------------------------------------
TypeOK == /\ waits \in BOOLEAN
          /\ locks \in [Regions -> SUBSET Procs]
          /\ record \in [Regions -> SUBSET Procs]
          /\ l_type \in [Procs -> {"F_WRLCK", "F_UNLCK"}]
          /\ l_start \in [Procs -> 0 .. REGIONS]
          /\ pc \in [Procs -> {"set", "get", "write", "getchar", "done"}]
          /\ faults \in 0 .. FAULTS
          /\ \A p \in Procs : pc[p] # "done" => l_start[p] \in Regions

(* A write lock that was asked for as one is its holder's alone, whatever  *)
(* the others unlock.                                                      *)
OwnersAlone == \A p \in Procs : pc[p] \in {"write", "getchar"} /\ l_type[p] = "F_WRLCK"
                                 => locks[l_start[p]] = {p}

(* So only a process without a lock writes to its region.                  *)
Intruded == \A p \in Procs : Showing(p) /\ l_type[p] = "F_WRLCK" /\ record[l_start[p]] # {p}
              => \E q \in Procs : /\ pc[q] \in {"getchar", "done"} /\ l_type[q] = "F_UNLCK"
                                  /\ l_start[q] = l_start[p]

(* Without failures all wait for the first region, with the structure they *)
(* began with.                                                             *)
InLine == waits /\ faults = 0
            => \A p \in Procs : pc[p] # "get" /\ (pc[p] # "done" => l_type[p] = "F_WRLCK" /\ l_start[p] = 0)

IInv == TypeOK /\ OwnersAlone /\ Intruded /\ InLine /\ OverwrittenByUnlock /\ RecordsStay
===============================================================================
