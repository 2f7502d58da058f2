------------------------------- MODULE CountHalt -------------------------------
(***************************************************************************)
(* homework11/mutex/mutex3.c: two threads increment count, each in its own *)
(* ranges.  count is incremented under count_mutex but tested without it;  *)
(* every unsynchronised read is a step of its own.                         *)
(***************************************************************************)
EXTENDS Naturals

CONSTANTS COUNT_HALT1, COUNT_HALT2, COUNT_DONE

VARIABLES count,        \* static int count
          count_mutex,  \* its holder, 0 when free
          cond_mutex,   \* the holder of condition_mutex, 0 when free
          waiting,      \* thread 1 is blocked on condition_cond
          pc1, pc2,     \* where functionCount1 and functionCount2 are
          loaded,       \* the value each thread has read to increment
          main,         \* progress of main: two creations, two joins
          printer,      \* printer[v]: the thread that printed v, 0 for none
          spurious      \* history: pthread_cond_wait has returned without a signal

vars == <<count, count_mutex, cond_mutex, waiting, pc1, pc2, loaded, main, printer, spurious>>

Values == 1 .. COUNT_DONE + 1

Halted(c) == COUNT_HALT1 <= c /\ c <= COUNT_HALT2

PC1 == {"none", "lock", "load", "store", "unlock", "clock", "lo", "hi", "wait",
        "asleep", "cunlock", "test", "done"}
PC2 == {"none", "lo", "hi", "lock", "load", "store", "unlock", "clock", "below",
        "above", "signal", "cunlock", "test", "done"}

TypeOK == /\ count \in Nat
          /\ count_mutex \in 0 .. 2
          /\ cond_mutex \in 0 .. 2
          /\ waiting \in BOOLEAN
          /\ pc1 \in PC1
          /\ pc2 \in PC2
          /\ loaded \in [1 .. 2 -> Nat]
          /\ main \in 0 .. 4
          /\ printer \in [Values -> 0 .. 2]
          /\ spurious \in BOOLEAN

Init == /\ count = 0
        /\ count_mutex = 0
        /\ cond_mutex = 0
        /\ waiting = FALSE
        /\ pc1 = "none"
        /\ pc2 = "none"
        /\ loaded = [t \in 1 .. 2 |-> 0]
        /\ main = 0
        /\ printer = [v \in Values |-> 0]
        /\ spurious = FALSE

-------------------------------------------------------------------------------
(* Create both threads, join both.                                         *)
Main == /\ \/ main = 0 /\ pc1' = "lock" /\ UNCHANGED pc2
           \/ main = 1 /\ pc2' = "lo"   /\ UNCHANGED pc1
           \/ main = 2 /\ pc1 = "done"  /\ UNCHANGED <<pc1, pc2>>
           \/ main = 3 /\ pc2 = "done"  /\ UNCHANGED <<pc1, pc2>>
        /\ main' = main + 1
        /\ UNCHANGED <<count, count_mutex, cond_mutex, waiting, loaded, printer, spurious>>

Exited == main = 4 /\ UNCHANGED vars

(* ++count under count_mutex, a load and a store, and its printf           *)
Load(t)  == /\ loaded' = [loaded EXCEPT ![t] = count]
            /\ UNCHANGED <<count, count_mutex, cond_mutex, waiting, main, printer, spurious>>

Store(t) == /\ count' = loaded[t] + 1
            /\ printer' = [printer EXCEPT ![loaded[t] + 1] = t]
            /\ UNCHANGED <<count_mutex, cond_mutex, waiting, loaded, main, spurious>>

-------------------------------------------------------------------------------
(* functionCount1                                                          *)

Step1(from, to) == pc1 = from /\ pc1' = to /\ UNCHANGED <<pc2, loaded, main, printer, spurious>>

Lock1    == /\ Step1("lock", "load")
            /\ count_mutex = 0 /\ count_mutex' = 1
            /\ UNCHANGED <<count, cond_mutex, waiting>>

Inc1     == /\ \/ pc1 = "load"  /\ Load(1)  /\ pc1' = "store"
               \/ pc1 = "store" /\ Store(1) /\ pc1' = "unlock"
            /\ UNCHANGED pc2

Unlock1  == /\ Step1("unlock", "clock")
            /\ count_mutex' = 0
            /\ UNCHANGED <<count, cond_mutex, waiting>>

CondLock1 == /\ Step1("clock", "lo")
             /\ cond_mutex = 0 /\ cond_mutex' = 1
             /\ UNCHANGED <<count, count_mutex, waiting>>

(* A broken Test1: count > COUNT_HALT1.                                    *)
LateTest1 == /\ \/ Step1("lo", IF count > COUNT_HALT1 THEN "hi" ELSE "cunlock")
                \/ Step1("hi", IF count <= COUNT_HALT2 THEN "wait" ELSE "cunlock")
             /\ UNCHANGED <<count, count_mutex, cond_mutex, waiting>>

(* if(count >= COUNT_HALT1 && count <= COUNT_HALT2): two reads             *)
Test1    == /\ \/ Step1("lo", IF count >= COUNT_HALT1 THEN "hi" ELSE "cunlock")
               \/ Step1("hi", IF count <= COUNT_HALT2 THEN "wait" ELSE "cunlock")
            /\ UNCHANGED <<count, count_mutex, cond_mutex, waiting>>

CondWait1 == /\ Step1("wait", "asleep")
             /\ cond_mutex' = 0
             /\ waiting' = TRUE
             /\ UNCHANGED <<count, count_mutex>>

WakeSpuriously1 == /\ waiting
                   /\ waiting' = FALSE
                   /\ spurious' = TRUE
                   /\ UNCHANGED <<count, count_mutex, cond_mutex, pc1, pc2, loaded, main, printer>>

(* pthread_cond_wait returns with the mutex; the test is an if, and is     *)
(* not repeated                                                            *)
Relock1  == /\ Step1("asleep", "cunlock")
            /\ ~waiting
            /\ cond_mutex = 0 /\ cond_mutex' = 1
            /\ UNCHANGED <<count, count_mutex, waiting>>

CondUnlock1 == /\ Step1("cunlock", "test")
               /\ cond_mutex' = 0
               /\ UNCHANGED <<count, count_mutex, waiting>>

Done1    == /\ Step1("test", IF count >= COUNT_DONE THEN "done" ELSE "lock")
            /\ UNCHANGED <<count, count_mutex, cond_mutex, waiting>>

functionCount1 == \/ Lock1 \/ Inc1 \/ Unlock1 \/ CondLock1 \/ Test1 \/ CondWait1
                  \/ Relock1 \/ CondUnlock1 \/ Done1

-------------------------------------------------------------------------------
(* functionCount2                                                          *)

Step2(from, to) == pc2 = from /\ pc2' = to /\ UNCHANGED <<pc1, loaded, main, printer, spurious>>

(* the same test with no mutex at all                                      *)
Test2    == /\ \/ Step2("lo", IF count >= COUNT_HALT1 THEN "hi" ELSE "clock")
               \/ Step2("hi", IF count <= COUNT_HALT2 THEN "lock" ELSE "clock")
            /\ UNCHANGED <<count, count_mutex, cond_mutex, waiting>>

Lock2    == /\ Step2("lock", "load")
            /\ count_mutex = 0 /\ count_mutex' = 2
            /\ UNCHANGED <<count, cond_mutex, waiting>>

Inc2     == /\ \/ pc2 = "load"  /\ Load(2)  /\ pc2' = "store"
               \/ pc2 = "store" /\ Store(2) /\ pc2' = "unlock"
            /\ UNCHANGED pc1

Unlock2  == /\ Step2("unlock", "clock")
            /\ count_mutex' = 0
            /\ UNCHANGED <<count, cond_mutex, waiting>>

CondLock2 == /\ Step2("clock", "below")
             /\ cond_mutex = 0 /\ cond_mutex' = 2
             /\ UNCHANGED <<count, count_mutex, waiting>>

(* A broken TestOutside2: count >= COUNT_HALT2.                            *)
EarlyOutside2 == /\ \/ Step2("below", IF count < COUNT_HALT1 THEN "signal" ELSE "above")
                    \/ Step2("above", IF count >= COUNT_HALT2 THEN "signal" ELSE "cunlock")
                 /\ UNCHANGED <<count, count_mutex, cond_mutex, waiting>>

(* if(count < COUNT_HALT1 || count > COUNT_HALT2): two reads               *)
TestOutside2 == /\ \/ Step2("below", IF count < COUNT_HALT1 THEN "signal" ELSE "above")
                   \/ Step2("above", IF count > COUNT_HALT2 THEN "signal" ELSE "cunlock")
                /\ UNCHANGED <<count, count_mutex, cond_mutex, waiting>>

CondSignal2 == /\ Step2("signal", "cunlock")
               /\ waiting' = FALSE
               /\ UNCHANGED <<count, count_mutex, cond_mutex>>

CondUnlock2 == /\ Step2("cunlock", "test")
               /\ cond_mutex' = 0
               /\ UNCHANGED <<count, count_mutex, waiting>>

(* A broken Done2: count > COUNT_DONE.                                     *)
LateDone2 == /\ Step2("test", IF count > COUNT_DONE THEN "done" ELSE "lo")
             /\ UNCHANGED <<count, count_mutex, cond_mutex, waiting>>

Done2    == /\ Step2("test", IF count >= COUNT_DONE THEN "done" ELSE "lo")
            /\ UNCHANGED <<count, count_mutex, cond_mutex, waiting>>

functionCount2 == \/ Test2 \/ Lock2 \/ Inc2 \/ Unlock2 \/ CondLock2 \/ TestOutside2
                  \/ CondSignal2 \/ CondUnlock2 \/ Done2

Next == Main \/ Exited \/ functionCount1 \/ WakeSpuriously1 \/ functionCount2

Spec == Init /\ [][Next]_vars

-------------------------------------------------------------------------------
(* The schedule of the comment at mutex3.c:33-37: COUNT1 prints up to      *)
(* COUNT_HALT1 and after COUNT_HALT2 + 1, COUNT2 prints what is between;   *)
(* the last two numbers may come from either.                              *)
AsCommented == \A v \in 1 .. COUNT_DONE - 1 :
                 printer[v] # 0 => printer[v] = IF COUNT_HALT1 < v /\ v <= COUNT_HALT2 + 1
                                                THEN 2 ELSE 1

(* The comment is right as long as pthread_cond_wait only returns after a  *)
(* signal; the test around it is an if, so that a spurious wake-up lets    *)
(* COUNT1 go on in the range of COUNT2.                                    *)
Schedule == ~spurious => AsCommented

(* COUNT1 does not stay blocked after the last number of COUNT2: COUNT2 is *)
(* on its way to the signal and has not looked away in between.            *)
NoLostWakeup == ~spurious /\ (waiting \/ pc1 = "wait") /\ count > COUNT_HALT2
                  => pc2 \in {"unlock", "clock", "below", "above", "signal"}

(* No increment is lost, though each is a load and a store, and not even   *)
(* after a spurious wake-up, when both threads increment at the same time: *)
(* every number up to count is printed by one of the two, and the last one *)
(* is at most one past COUNT_DONE.                                         *)
NoGap == count <= COUNT_DONE + 1 /\ \A v \in Values : printer[v] # 0 <=> v <= count

(* Both functions return and main joins both threads.                      *)
BothReturn == <>(main = 4)

(* The inductive invariant.  Each mutex is held exactly in its section; a  *)
(* thread stores what it has loaded plus one, and the two increments that  *)
(* may be under way do not lead beyond COUNT_DONE + 1.                     *)
Mutexes == /\ count_mutex = 1 <=> pc1 \in {"load", "store", "unlock"}
           /\ count_mutex = 2 <=> pc2 \in {"load", "store", "unlock"}
           /\ cond_mutex = 1 <=> pc1 \in {"lo", "hi", "wait", "cunlock"}
           /\ cond_mutex = 2 <=> pc2 \in {"below", "above", "signal", "cunlock"}
Pending(pc) == IF pc \in {"lock", "load", "store"} THEN 1 ELSE 0
Counting == /\ count + Pending(pc1) + Pending(pc2) <= COUNT_DONE + 1
            /\ pc1 = "store" => loaded[1] = count
            /\ pc2 = "store" => loaded[2] = count
            /\ waiting => pc1 = "asleep"
            /\ main = 0 => pc1 = "none" /\ count = 0
            /\ main < 2 => pc2 = "none"
            /\ main >= 1 => pc1 # "none"

(* Without a spurious wake-up, the two threads are never both on the way   *)
(* to an increment, and thread 1 is only woken out of its range.           *)
Turns   == ~spurious =>
           /\ pc1 \in {"cunlock", "test", "lock", "load", "store"} => ~Halted(count)
           /\ pc1 = "asleep" /\ ~waiting => ~Halted(count)
           /\ pc1 \in {"hi", "wait"} \/ waiting => COUNT_HALT1 <= count
           /\ pc2 \in {"lock", "load", "store"} => Halted(count)
           /\ pc2 \in {"hi", "above"} => COUNT_HALT1 <= count
           /\ waiting /\ pc2 = "signal" => count > COUNT_HALT2
           /\ pc1 \in {"lock", "load", "store"} => count < COUNT_DONE

IInv == TypeOK /\ Mutexes /\ Counting /\ Turns /\ NoGap /\ Schedule /\ NoLostWakeup
===============================================================================
