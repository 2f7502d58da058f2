---------------------------- MODULE KernelModulesProofs -------------------------
(***************************************************************************)
(* Proofs about the small kernel modules, for every value of the constants *)
(* of KernelModules: first the threads that take turns, then one program   *)
(* after the other.                                                        *)
(***************************************************************************)
EXTENDS KernelModules, Integers, Sequences, WellFoundedInduction, TLAPS

LEMMA InitInv == Init => IInv
BY SpinAssumption DEF Init, IInv, TypeOK, Counting, TurnIsStable, StopOrder, DestroyedUnused,
                      Threads, PCs, Phases

(* The steps of init and exit only meet threads that are not running yet   *)
(* or no longer running.                                                   *)
LEMMA ModuleStep == IInv /\ (tictac_init \/ tictac_cleanup) => IInv'
<1> USE SpinAssumption DEF IInv, TypeOK, Counting, TurnIsStable, StopOrder, DestroyedUnused,
                           Threads, PCs, Phases
<1>1. ASSUME IInv, tictac_init PROVE IInv'
  BY <1>1 DEF tictac_init, Goto
<1>2. ASSUME IInv, tictac_cleanup PROVE IInv'
  BY <1>2 DEF tictac_cleanup
<1> QED BY <1>1, <1>2

(* A thread keeps the turn from its test until PassTurn, and the mutex     *)
(* from Lock until Unlock.                                                 *)
LEMMA ThreadStep == ASSUME NEW t \in Threads PROVE IInv /\ Thread(t) => IInv'
<1> SUFFICES ASSUME IInv, Thread(t) PROVE IInv' OBVIOUS
<1> USE SpinAssumption DEF IInv, TypeOK, Counting, TurnIsStable, StopOrder, DestroyedUnused,
                           Threads, PCs, Phases, Goto
<1>1. CASE kthread(t)  BY <1>1 DEF kthread
<1>2. CASE Spin(t)     BY <1>2 DEF Spin, vars
<1>3. CASE SpinExit(t) BY <1>3 DEF SpinExit
<1>4. CASE Return(t)   BY <1>4 DEF Return
<1>5. CASE Lock(t)     BY <1>5 DEF Lock
<1>6. CASE Printk(t)   BY <1>6 DEF Printk
<1>7. CASE PassTurn(t) BY <1>7 DEF PassTurn, Other
<1>8. CASE Unlock(t)
  <2>1. counter[t] < COUNT_TIMES BY <1>8 DEF Unlock
  <2> QED BY <1>8, <2>1 DEF Unlock, Other
<1> QED BY <1>1, <1>2, <1>3, <1>4, <1>5, <1>6, <1>7, <1>8 DEF Thread

LEMMA InvStep == IInv /\ [Next]_vars => IInv'
<1> SUFFICES ASSUME IInv, [Next]_vars PROVE IInv' OBVIOUS
<1>1. CASE tictac_init \/ tictac_cleanup BY <1>1, ModuleStep
<1>2. CASE tic_thread_func \/ tac_thread_func
  BY <1>2, ThreadStep DEF tic_thread_func, tac_thread_func, Threads
<1>3. CASE Unloaded \/ UNCHANGED vars
  BY <1>3 DEF Unloaded, vars, IInv, TypeOK, Counting, TurnIsStable, StopOrder, DestroyedUnused
<1> QED BY <1>1, <1>2, <1>3 DEF Next

(* The mutex and the turn go together, and module exit destroys the mutex  *)
(* only when both threads are gone: for every COUNT_TIMES.                 *)
THEOREM InvariantHolds == Spec => []IInv
BY InitInv, InvStep, PTL DEF Spec

-------------------------------------------------------------------------------
LEMMA RingInit == Init => Ring!Init
<1> SUFFICES ASSUME Init PROVE Ring!Init OBVIOUS
<1>1. AbstractTurn = 1 BY DEF Init, AbstractTurn, Threads
<1>2. \A t \in Threads : Printed(t) = 0 BY DEF Init, Printed, Threads
<1>3. Ring!Workers = Threads BY DEF Ring!Workers, Threads
<1> QED BY <1>1, <1>2, <1>3 DEF Ring!Init

(* printk is a PutLine of the worker whose turn it is.                       *)
LEMMA PrintkStep == ASSUME IInv, NEW t \in Threads, Printk(t) PROVE Ring!PutLine(t)
<1> USE DEF IInv, TypeOK, TurnIsStable
<1>1. pc[t] = "print" /\ turn' = turn /\ counter' = counter /\ pc' = [pc EXCEPT ![t] = "set"]
  BY DEF Printk, Goto
<1>2. turn = t /\ mtx = t BY <1>1
<1>3. \A u \in Threads : pc[u] # "set" BY <1>1, <1>2
<1>4. AbstractTurn = t BY <1>2, <1>3 DEF AbstractTurn
<1>5. pc'[t] = "set" BY <1>1
<1>6. AbstractTurn' = Other(t) BY <1>1, <1>2, <1>5 DEF AbstractTurn, Other
<1>7. Other(t) = Ring!Successor(t) BY DEF Other, Ring!Successor, Threads
<1>8. counter[t] < COUNT_TIMES /\ Printed(t) = counter[t] BY <1>1 DEF Counting, Printed
<1>9. Printed(t)' = Printed(t) + 1 BY <1>1, <1>5, <1>8 DEF Printed
<1>10. \A u \in Threads \ {t} : Printed(u)' = Printed(u) BY <1>1 DEF Printed
<1>11. [u \in Threads |-> Printed(u)]' = [[u \in Threads |-> Printed(u)] EXCEPT ![t] = @ + 1]
  BY <1>9, <1>10
<1> QED BY <1>4, <1>6, <1>7, <1>8, <1>11 DEF Ring!PutLine

(* No other step shows.                                                    *)
LEMMA StutterStep ==
  ASSUME IInv, [Next]_vars, \A t \in Threads : ~Printk(t)
  PROVE  AbstractTurn' = AbstractTurn /\ \A u \in Threads : Printed(u)' = Printed(u)
<1> USE SpinAssumption DEF IInv, TypeOK, TurnIsStable, StopOrder, AbstractTurn, Printed, Threads, PCs, Goto
<1>1. CASE tictac_init BY <1>1 DEF tictac_init
<1>2. CASE tictac_cleanup \/ Unloaded \/ UNCHANGED vars
  BY <1>2 DEF tictac_cleanup, Unloaded, vars
<1>3. ASSUME NEW t \in Threads, Thread(t)
      PROVE  AbstractTurn' = AbstractTurn /\ \A u \in Threads : Printed(u)' = Printed(u)
  <2>1. CASE kthread(t)  BY <2>1 DEF kthread
  <2>2. CASE Spin(t)     BY <2>2 DEF Spin, vars
  <2>3. CASE SpinExit(t) BY <2>3 DEF SpinExit
  <2>4. CASE Return(t)   BY <2>4 DEF Return
  <2>5. CASE Lock(t)     BY <2>5 DEF Lock
  <2>6. CASE PassTurn(t) BY <2>6 DEF PassTurn, Other
  <2>7. CASE Unlock(t)   BY <2>7 DEF Unlock
  <2> QED BY <1>3, <2>1, <2>2, <2>3, <2>4, <2>5, <2>6, <2>7 DEF Thread
<1> QED BY <1>1, <1>2, <1>3 DEF Next, tic_thread_func, tac_thread_func

LEMMA RingStep == IInv /\ [Next]_vars => [Ring!Next]_(Ring!vars)
<1> SUFFICES ASSUME IInv, [Next]_vars PROVE [Ring!Next]_(Ring!vars) OBVIOUS
<1>1. CASE \E t \in Threads : Printk(t)
  BY <1>1, PrintkStep DEF Ring!Next, Ring!Workers, Threads
<1>2. CASE \A t \in Threads : ~Printk(t)
  BY <1>2, StutterStep DEF Ring!vars
<1> QED BY <1>1, <1>2

(* The kernel module implements the safety part of RoundRobin with two     *)
(* workers, for every COUNT_TIMES.                                         *)
THEOREM ImplementsRoundRobin == Spec => RefinesRoundRobin
BY InvariantHolds, RingInit, RingStep, PTL DEF Spec, RefinesRoundRobin, Ring!Safety

-------------------------------------------------------------------------------
(* One program runs, the others do not move.                               *)
LEMMA OneRuns == [Step]_all => /\ [Next]_vars
                               /\ [Stopping!Next]_stopVars
                               /\ [Radio!Next]_radioVars
                               /\ [NodeText!Next]_textVars
                               /\ [Sums!Next]_sumVars
BY DEF Step, all, tic_tac, stop_kthread, radio, node_text, array_sum, Ended

(* Both hold of the turns as one of the modules.                           *)
THEOREM TurnsInvariant == Modules => []IInv
BY InitInv, InvStep, OneRuns, PTL DEF Modules, Boot

THEOREM TurnsImplementRoundRobin == Modules => RefinesRoundRobin
BY TurnsInvariant, RingInit, RingStep, OneRuns, PTL DEF Modules, Boot, RefinesRoundRobin, Ring!Safety

-------------------------------------------------------------------------------
(* StopKthread                                                             *)
LEMMA StopInit == Stopping!Init => Stopping!IInv
<1> SUFFICES ASSUME Stopping!Init PROVE Stopping!IInv OBVIOUS
<1>1. ~ halt /\ halt \in BOOLEAN BY Zenon DEF Stopping!Init
<1> QED BY <1>1, ModulesAssumption DEF Stopping!Init, Stopping!IInv, Stopping!TypeOK, Stopping!Counts,
                                       Stopping!StopsLiveThread

LEMMA StopStep == Stopping!IInv /\ [Stopping!Next]_stopVars => Stopping!IInv'
<1> SUFFICES ASSUME Stopping!IInv, [Stopping!Next]_stopVars PROVE Stopping!IInv' OBVIOUS
<1> USE ModulesAssumption DEF Stopping!IInv, Stopping!TypeOK, Stopping!Counts, Stopping!StopsLiveThread
<1>1. CASE Stopping!stop_kthread_init    BY <1>1 DEF Stopping!stop_kthread_init
<1>2. CASE Stopping!stop_kthread_cleanup
  <2>1. halt' \in BOOLEAN /\ (halt' <=> exit' \in {"stopping", "unloaded"})
    BY <1>2, Zenon DEF Stopping!stop_kthread_cleanup
  <2> QED BY <1>2, <2>1 DEF Stopping!stop_kthread_cleanup
<1>3. CASE Stopping!kthread              BY <1>3 DEF Stopping!kthread
<1>4. CASE Stopping!Count                BY <1>4 DEF Stopping!Count
<1>5. CASE Stopping!Check                BY <1>5 DEF Stopping!Check
<1>6. CASE Stopping!Free                 BY <1>6 DEF Stopping!Free
<1>7. CASE UNCHANGED stopVars            BY <1>7 DEF stopVars
<1> QED BY <1>1, <1>2, <1>3, <1>4, <1>5, <1>6, <1>7 DEF Stopping!Next, Stopping!thread_func

(* Module exit of homework8 meets a task that is no more only when the     *)
(* thread had counted to STEPS or was never created, for every STEPS.      *)
THEOREM ThreadIsLive == Modules => []StopsLiveThread
BY StopInit, StopStep, OneRuns, PTL DEF Modules, Boot, StopsLiveThread

-------------------------------------------------------------------------------
(* Radio                                                                   *)
LEMMA RadioInit == Radio!Init => Radio!IInv
<1> SUFFICES ASSUME Radio!Init PROVE Radio!IInv OBVIOUS
<1>1. raced \in BOOLEAN BY Zenon DEF Radio!Init
<1>2. Radio!TypeOK BY <1>1 DEF Radio!Init, Radio!TypeOK
<1>3. Radio!Holders = {} BY DEF Radio!Init, Radio!Holders
<1>4. Radio!Alone /\ Radio!RadioCounted
  BY <1>3 DEF Radio!Init, Radio!Alone, Radio!RadioCounted, Radio!Inside
<1> QED BY <1>2, <1>4 DEF Radio!IInv

(* A step of one process, in the two cases that two processes are in open  *)
(* or release at once, now or before, and that they are not.               *)
LEMMA RadioCall == ASSUME NEW u \in Users, Radio!IInv, Radio!Call(u) PROVE Radio!IInv'
<1> USE DEF Radio!TypeOK, Radio!Move
<1>1. raced' \in BOOLEAN /\ (raced => raced')
  BY Zenon DEF Radio!IInv, Radio!Call, Radio!Test, Radio!Increment, Radio!Opened, Radio!Use, Radio!Decrement,
               Radio!Released, Radio!Overlap
<1>2. Radio!TypeOK'
  <2> USE <1>1 DEF Radio!IInv
  <2>1. CASE Radio!Test(u)      BY <2>1 DEF Radio!Test
  <2>2. CASE Radio!Increment(u) BY <2>2 DEF Radio!Increment
  <2>3. CASE Radio!Opened(u)    BY <2>3 DEF Radio!Opened
  <2>4. CASE Radio!Use(u)       BY <2>4 DEF Radio!Use
  <2>5. CASE Radio!Decrement(u) BY <2>5 DEF Radio!Decrement
  <2>6. CASE Radio!Released(u)  BY <2>6 DEF Radio!Released
  <2> QED BY <2>1, <2>2, <2>3, <2>4, <2>5, <2>6 DEF Radio!Call
<1>3. ASSUME ~ raced' PROVE Radio!Alone' /\ Radio!RadioCounted'
  <2>1. Radio!Alone /\ Radio!RadioCounted /\ Radio!TypeOK /\ ~ raced BY <1>1, <1>3 DEF Radio!IInv, Radio!RadioCounted
  <2> USE <1>3, <2>1 DEF Radio!Alone, Radio!RadioCounted, Radio!Inside, Radio!Holders
  <2>2. CASE Radio!Test(u)
    <3>1. \A v, w \in Users : Radio!Inside(v)' /\ Radio!Inside(w)' => v = w
      BY <2>2, Zenon DEF Radio!Test, Radio!Overlap
    <3>2. UNCHANGED Radio!Holders /\ UNCHANGED <<radio_count, seen>> BY <2>2 DEF Radio!Test
    <3>3. user'[u] \in {"exit", "increment"} /\ \A v \in Users \ {u} : user'[v] = user[v] BY <2>2 DEF Radio!Test
    <3>4. user'[u] = "increment" => Radio!Holders = {}
      <4>1. user'[u] = "increment" => radio_count <= 0 BY <2>2 DEF Radio!Test
      <4> QED BY <4>1
    <3> QED BY <3>1, <3>2, <3>3, <3>4
  <2>3. CASE Radio!Increment(u) BY <2>3 DEF Radio!Increment
  <2>4. CASE Radio!Opened(u)    BY <2>4 DEF Radio!Opened
  <2>5. CASE Radio!Use(u)
    <3>1. \A v, w \in Users : Radio!Inside(v)' /\ Radio!Inside(w)' => v = w
      BY <2>5, Zenon DEF Radio!Use, Radio!Overlap
    <3> QED BY <2>5, <3>1 DEF Radio!Use
  <2>6. CASE Radio!Decrement(u) BY <2>6 DEF Radio!Decrement
  <2>7. CASE Radio!Released(u)  BY <2>7 DEF Radio!Released
  <2> QED BY <2>2, <2>3, <2>4, <2>5, <2>6, <2>7 DEF Radio!Call
<1> QED BY <1>2, <1>3 DEF Radio!IInv, Radio!RadioCounted

LEMMA RadioStep == Radio!IInv /\ [Radio!Next]_radioVars => Radio!IInv'
<1> SUFFICES ASSUME Radio!IInv, [Radio!Next]_radioVars PROVE Radio!IInv' OBVIOUS
<1>1. CASE UNCHANGED radioVars
  <2>1. UNCHANGED Radio!Holders BY <1>1 DEF radioVars, Radio!Holders
  <2> QED BY <1>1, <2>1 DEF radioVars, Radio!IInv, Radio!TypeOK, Radio!Alone, Radio!RadioCounted, Radio!Inside
<1>2. CASE Radio!Next
  BY <1>2, RadioCall DEF Radio!Next, Radio!main, Radio!read_from_device, Radio!write_to_device,
                          Radio!exit, Radio!Call
<1> QED BY <1>1, <1>2

(* radio_count is the number of open files as long as no two processes     *)
(* were in open or release at once: for any set of processes.              *)
THEOREM OpenFilesCounted == Modules => []RadioCounted
BY RadioInit, RadioStep, OneRuns, PTL DEF Modules, Boot, RadioCounted

-------------------------------------------------------------------------------
(* KernelSum                                                               *)
LEMMA ModSmall == ASSUME NEW m \in Nat \ {0}, NEW v \in 0 .. m - 1 PROVE v % m = v
OBVIOUS

LEMMA ModSelf == ASSUME NEW m \in Nat \ {0} PROVE m % m = 0
OBVIOUS

LEMMA ModRange == ASSUME NEW m \in Nat \ {0}, NEW v \in Int PROVE v % m \in 0 .. m - 1
OBVIOUS

(* An int keeps its value, and every value becomes an int.                 *)
LEMMA WrapInt == /\ \A n \in Sums!Ints : Sums!Wrap(n) = n
                 /\ \A n \in Int : Sums!Wrap(n) \in Sums!Ints
<1> USE SumAssumption DEF Sums!Ints, Sums!MIN
<1>1. Sums!Modulus \in Nat \ {0} BY DEF Sums!Modulus
<1>2. ASSUME NEW n \in Sums!Ints PROVE Sums!Wrap(n) = n
  <2>1. n - Sums!MIN \in 0 .. Sums!Modulus - 1 BY DEF Sums!Modulus
  <2>2. (n - Sums!MIN) % Sums!Modulus = n - Sums!MIN BY <1>1, <2>1, ModSmall
  <2> QED BY <2>2 DEF Sums!Wrap
<1>3. ASSUME NEW n \in Int PROVE Sums!Wrap(n) \in Sums!Ints
  <2>1. n - Sums!MIN \in Int OBVIOUS
  <2>2. (n - Sums!MIN) % Sums!Modulus \in 0 .. Sums!Modulus - 1 BY <1>1, <2>1, ModRange
  <2> QED BY <2>2 DEF Sums!Wrap, Sums!Modulus
<1> QED BY <1>2, <1>3

(* The range is 0 only of the smallest and the largest limit; otherwise    *)
(* the random number lies between the limits.                              *)
LEMMA RandBetween ==
  ASSUME NEW low \in Sums!Ints, NEW high \in Sums!Ints, low < high
  PROVE  /\ Sums!range(low, high) = 0 => low = Sums!MIN /\ high = MAX
         /\ Sums!range(low, high) # 0 => Sums!rand_num_get(low, high) \subseteq low .. high
<1> USE SumAssumption DEF Sums!Ints, Sums!MIN
<1>1. Sums!Modulus \in Nat \ {0} BY DEF Sums!Modulus
<1>2. CASE high - low + 1 = Sums!Modulus
  <2>1. low = Sums!MIN /\ high = MAX BY <1>2 DEF Sums!Modulus
  <2>2. Sums!range(low, high) = 0 BY <1>1, <1>2, ModSelf DEF Sums!range
  <2> QED BY <2>1, <2>2
<1>3. CASE high - low + 1 # Sums!Modulus
  <2>1. high - low + 1 \in 1 .. Sums!Modulus - 1 BY <1>3 DEF Sums!Modulus
  <2>2. Sums!range(low, high) = high - low + 1 BY <1>1, <2>1, ModSmall DEF Sums!range
  <2>3. ASSUME NEW r \in 0 .. Sums!Modulus - 1
        PROVE  Sums!Wrap(low + (r % Sums!range(low, high))) \in low .. high
    <3>1. r \in Int /\ Sums!range(low, high) \in Nat \ {0} BY <1>1, <2>1, <2>2
    <3>2. r % Sums!range(low, high) \in 0 .. high - low BY <2>2, <3>1, ModRange
    <3>3. low + (r % Sums!range(low, high)) \in low .. high BY <3>2
    <3>4. low .. high \subseteq Sums!Ints OBVIOUS
    <3> QED BY <3>3, <3>4, WrapInt
  <2> QED BY <2>1, <2>2, <2>3 DEF Sums!rand_num_get
<1> QED BY <1>2, <1>3

LEMMA SumInit == Sums!Init => Sums!IInv
<1> SUFFICES ASSUME Sums!Init PROVE Sums!IInv OBVIOUS
<1>1. changeable \in BOOLEAN /\ inverted \in BOOLEAN /\ ~ inverted BY Zenon DEF Sums!Init
<1>2. DOMAIN m_array = {} BY DEF Sums!Init
<1> QED BY <1>1, <1>2, SumAssumption
        DEF Sums!Init, Sums!IInv, Sums!TypeOK, Sums!Untouched, Sums!LimitsNatural, Sums!SumKept, Sums!Ints, Sums!MIN

(* The random numbers are integers, 0 when the limits are the wrong way    *)
(* round.                                                                  *)
LEMMA RandInt == ASSUME NEW low \in Sums!Ints, NEW high \in Sums!Ints, low < high => Sums!range(low, high) # 0
                 PROVE  Sums!rand_num_get(low, high) \subseteq Int
<1>1. CASE low < high
  <2>1. low .. high \subseteq Int BY SumAssumption DEF Sums!Ints, Sums!MIN
  <2> QED BY <1>1, <2>1, RandBetween
<1>2. CASE ~ (low < high) BY <1>2, SumAssumption DEF Sums!Ints, Sums!MIN, Sums!rand_num_get
<1> QED BY <1>1, <1>2

(* Whenever the numbers are multiplied, their sum is taken anew; 0 stays 0; *)
(* of the numbers as given each is multiplied by one between the limits.   *)
LEMMA CalculateKeeps ==
  ASSUME Sums!IInv, NEW low \in Sums!Ints, NEW high \in Sums!Ints, NEW next \in {"parsing", "loaded"},
         changeable => low >= 0 /\ high >= 0,
         Sums!Calculate(low, high, next), m_low' = low, m_high' = high,
         first' = first, changeable' = changeable, sets' \in Nat
  PROVE  Sums!IInv'
<1> USE SumAssumption DEF Sums!IInv, Sums!TypeOK, Sums!Untouched, Sums!LimitsNatural, Sums!SumKept
<1>1. CASE low < high /\ Sums!range(low, high) = 0
  <2>1. low = Sums!MIN /\ high = MAX BY <1>1, RandBetween
  <2>2. ~ changeable BY <2>1 DEF Sums!MIN
  <2>3. module' = "oops" /\ UNCHANGED <<m_array, product_sum, times, inverted>>
    BY <1>1 DEF Sums!Calculate
  <2> QED BY <2>1, <2>2, <2>3
<1>2. CASE low < high => Sums!range(low, high) # 0
  <2>1. PICK r \in [DOMAIN m_array -> Sums!rand_num_get(low, high)] :
               /\ m_array' = [i \in DOMAIN m_array |-> Sums!Wrap(m_array[i] * r[i])]
               /\ product_sum' = Sums!Wrap(Sums!SumFunction(m_array'))
               /\ module' = next /\ times' = times + 1
    BY <1>2 DEF Sums!Calculate
  <2>2. inverted' = (inverted \/ low >= high) BY <1>2 DEF Sums!Calculate
  <2>3. inverted' \in BOOLEAN /\ (inverted' => inverted \/ low >= high) /\ (~ inverted' => ~ (low >= high)) BY <2>2, Zenon
  <2>4. \A i \in DOMAIN m_array : r[i] \in Int BY <1>2, <2>1, RandInt
  <2>5. DOMAIN m_array' = DOMAIN m_array /\ \A i \in DOMAIN m_array : m_array'[i] = Sums!Wrap(m_array[i] * r[i])
    BY <2>1
  <2>6. Sums!TypeOK'
    <3>1. \A i \in DOMAIN m_array : m_array[i] * r[i] \in Int BY <2>4
    <3>2. Sums!Ints \subseteq Int BY DEF Sums!Ints, Sums!MIN
    <3>3. \A i \in DOMAIN m_array : m_array'[i] \in Int BY <2>5, <3>1, <3>2, WrapInt
    <3> QED BY <2>1, <2>3, <2>5, <3>3
  <2>7. inverted' => \A i \in DOMAIN m_array : m_array'[i] = 0
    <3> SUFFICES ASSUME inverted', NEW i \in DOMAIN m_array PROVE m_array'[i] = 0 OBVIOUS
    <3>1. low >= high => r[i] = 0 BY <2>1 DEF Sums!rand_num_get, Sums!Ints, Sums!MIN
    <3>2. m_array[i] * r[i] = 0 BY <2>3, <2>4, <3>1
    <3>3. 0 \in Sums!Ints BY DEF Sums!Ints, Sums!MIN
    <3> QED BY <2>5, <3>2, <3>3, WrapInt
  <2>8. times' = 1 /\ ~ inverted' => \A i \in DOMAIN m_array : \E f \in low .. high : m_array'[i] = Sums!Wrap(first[i] * f)
    <3> SUFFICES ASSUME times' = 1, ~ inverted', NEW i \in DOMAIN m_array
                 PROVE  \E f \in low .. high : m_array'[i] = Sums!Wrap(first[i] * f) OBVIOUS
    <3>1. low < high BY <2>3 DEF Sums!Ints, Sums!MIN
    <3>2. r[i] \in low .. high BY <1>2, <2>1, <3>1, RandBetween
    <3>3. m_array = first BY <2>1
    <3> QED BY <2>5, <3>2, <3>3
  <2> QED BY <2>1, <2>5, <2>6, <2>7, <2>8
<1> QED BY <1>1, <1>2

LEMMA SumStep == Sums!IInv /\ [Sums!Next]_sumVars => Sums!IInv'
<1> SUFFICES ASSUME Sums!IInv, [Sums!Next]_sumVars PROVE Sums!IInv' OBVIOUS
<1> USE SumAssumption
<1>0. Sums!TypeOK /\ Sums!Untouched /\ Sums!LimitsNatural /\ Sums!SumKept BY DEF Sums!IInv
<1>1. CASE Sums!GiveArray
  <2> USE <1>0, <1>1 DEF Sums!IInv, Sums!TypeOK, Sums!Untouched, Sums!LimitsNatural, Sums!SumKept, Sums!GiveArray
  <2>1. inverted' \in BOOLEAN /\ ~ inverted' BY Zenon
  <2>2. \A i \in DOMAIN m_array' : m_array'[i] \in Int BY DEF Sums!Arrays, Sums!Ints, Sums!MIN
  <2>3. sets' \in Nat BY DEF Sums!Settable
  <2> QED BY <2>1, <2>2, <2>3
<1>2. ASSUME NEW low \in Sums!Ints, NEW high \in Sums!Ints, changeable => low >= 0 /\ high >= 0,
             Sums!SetTo(low, high), NEW name, Sums!Settable(name)
      PROVE  Sums!IInv'
  <2>1. sets' \in Nat /\ (sets' = sets \/ sets' # 0) /\ module \in {"parsing", "loaded"}
    BY <1>0, <1>2 DEF Sums!Settable, Sums!TypeOK
  <2>2. UNCHANGED <<changeable, first>> /\ m_low' = low /\ m_high' = high BY <1>2 DEF Sums!SetTo
  <2>3. CASE changeable /\ m_array # <<>>
    <3>1. Sums!Calculate(low, high, module) BY <1>2, <2>3 DEF Sums!SetTo
    <3> QED BY <1>2, <2>1, <2>2, <3>1, CalculateKeeps
  <2>4. CASE ~ (changeable /\ m_array # <<>>)
    <3>1. UNCHANGED <<module, m_array, product_sum, times, inverted>> BY <1>2, <2>4 DEF Sums!SetTo
    <3>2. sets' = 0 => module' = "parsing" BY <1>2, <1>0, <3>1 DEF Sums!Settable, Sums!TypeOK
    <3> QED BY <1>0, <1>2, <2>1, <2>2, <3>1, <3>2
            DEF Sums!IInv, Sums!TypeOK, Sums!Untouched, Sums!LimitsNatural, Sums!SumKept
  <2> QED BY <2>3, <2>4
<1>3. CASE Sums!param_set_low_limit
  BY <1>0, <1>2, <1>3 DEF Sums!param_set_low_limit, Sums!TypeOK, Sums!LimitsNatural
<1>4. CASE Sums!param_set_high_limit
  BY <1>0, <1>2, <1>4 DEF Sums!param_set_high_limit, Sums!TypeOK, Sums!LimitsNatural
<1>5. CASE Sums!Refuse
  BY <1>0, <1>5 DEF Sums!Refuse, Sums!IInv, Sums!TypeOK, Sums!Untouched, Sums!LimitsNatural, Sums!SumKept
<1>6. CASE Sums!array_sum_rand_init
  <2>1. CASE m_array = <<>>
    <3>1. module' = "failed" /\ UNCHANGED <<m_array, product_sum, times, inverted, changeable, m_low, m_high, first, sets>>
      BY <1>6, <2>1 DEF Sums!array_sum_rand_init
    <3> QED BY <1>0, <3>1 DEF Sums!IInv, Sums!TypeOK, Sums!Untouched, Sums!LimitsNatural, Sums!SumKept
  <2>2. CASE m_array # <<>>
    BY <1>0, <1>6, <2>2, CalculateKeeps DEF Sums!array_sum_rand_init, Sums!TypeOK, Sums!LimitsNatural
  <2> QED BY <2>1, <2>2
<1>7. CASE UNCHANGED sumVars
  BY <1>0, <1>7 DEF sumVars, Sums!IInv, Sums!TypeOK, Sums!Untouched, Sums!LimitsNatural, Sums!SumKept
<1> QED BY <1>1, <1>3, <1>4, <1>5, <1>6, <1>7 DEF Sums!Next

(* The sum printed is that of the numbers kept, whatever limits were set   *)
(* in which order, and only array_sum_rand can divide by 0, with the       *)
(* smallest and the largest limit: for every width of int and every array. *)
THEOREM SumsKept == Modules => []SumKept
BY SumInit, SumStep, OneRuns, PTL DEF Modules, Boot, SumKept

-------------------------------------------------------------------------------
(* NodeText                                                                *)
LEMMA SmallestNumber == ASSUME NEW S \in SUBSET Nat, S # {}
                        PROVE  NodeText!Min(S) \in S /\ \A n \in S : NodeText!Min(S) <= n
<1>1. PICK m \in S : \A n \in S : ~ (<<n, m>> \in OpToRel(<, Nat))
  BY NatLessThanWellFounded, WFMin
<1>2. ASSUME NEW n \in S, n < m PROVE FALSE
  <2>1. <<n, m>> \in Nat \X Nat /\ <<n, m>>[1] < <<n, m>>[2] BY <1>2
  <2>2. <<n, m>> \in OpToRel(<, Nat) BY <2>1, Zenon DEF OpToRel
  <2> QED BY <1>1, <2>2
<1>3. \A n \in S : m <= n BY <1>2
<1> QED BY <1>3 DEF NodeText!Min

(* The text ends within the buffer.                                        *)
LEMMA TextEnds == ASSUME NodeText!IInv PROVE NodeText!strlen \in 0 .. BUF_SIZE - 1
<1> DEFINE Nuls == {k \in DOMAIN r_buffer : r_buffer[k] = NodeText!Nul}
<1>1. BUF_SIZE - 1 \in Nuls /\ Nuls \subseteq 0 .. BUF_SIZE - 1
  BY ModulesAssumption DEF NodeText!IInv, NodeText!TypeOK, NodeText!TextKept
<1>2. NodeText!Min(Nuls) \in Nuls BY <1>1, SmallestNumber
<1> QED BY <1>1, <1>2 DEF NodeText!strlen

LEMMA TextTyped == ASSUME NodeText!IInv
                   PROVE  /\ NodeText!Text \in Seq(Int) /\ Len(NodeText!Text) = NodeText!strlen
                          /\ NodeText!Number \in Int
<1>1. \A k \in 1 .. NodeText!strlen : r_buffer[k - 1] \in Int
  BY TextEnds, ModulesAssumption DEF NodeText!IInv, NodeText!TypeOK
<1> QED BY <1>1, TextEnds DEF NodeText!Text, NodeText!Number

(* Text, its length and its number depend on r_buffer only.                *)
LEMMA SameText == UNCHANGED r_buffer => UNCHANGED <<NodeText!strlen, NodeText!Text, NodeText!Number>>
<1> SUFFICES ASSUME UNCHANGED r_buffer PROVE UNCHANGED <<NodeText!strlen, NodeText!Text, NodeText!Number>> OBVIOUS
<1>1. UNCHANGED NodeText!strlen BY DEF NodeText!strlen
<1>2. UNCHANGED NodeText!Text BY <1>1 DEF NodeText!Text
<1> QED BY <1>1, <1>2 DEF NodeText!Number

LEMMA TextInit == NodeText!Init => NodeText!IInv
<1> SUFFICES ASSUME NodeText!Init PROVE NodeText!IInv OBVIOUS
<1> USE ModulesAssumption DEF NodeText!Init
<1>1. mixed \in BOOLEAN /\ refused \in BOOLEAN /\ disturbed \in BOOLEAN /\ refused BY Zenon
<1>2. NodeText!TypeOK BY <1>1 DEF NodeText!TypeOK, NodeText!Nul, NodeText!Letter
<1>3. NodeText!InBounds /\ NodeText!OneWriter BY DEF NodeText!InBounds, NodeText!OneWriter
<1>4. NodeText!Showing /\ NodeText!ShownOnce BY DEF NodeText!Showing, NodeText!ShownOnce
<1>5. r_buffer[BUF_SIZE - 1] = NodeText!Nul OBVIOUS
<1> QED BY <1>1, <1>2, <1>3, <1>4, <1>5 DEF NodeText!IInv, NodeText!TextKept

(* A write takes as many characters as there is room for.                 *)
LEMMA TextLength ==
  ASSUME NEW t \in NodeText!BoundedSeq({NodeText!Digit, NodeText!Letter}, BUF_SIZE), NEW n \in Nat
  PROVE  LET part == SubSeq(t, 1, NodeText!Min({Len(t), n}))
         IN  part \in Seq(Int) /\ Len(part) <= n
<1>1. PICK m \in 0 .. BUF_SIZE : t \in [1 .. m -> {NodeText!Digit, NodeText!Letter}]
  BY DEF NodeText!BoundedSeq, NodeText!SeqOf
<1>2. \A i \in 1 .. m : t[i] \in Int BY <1>1 DEF NodeText!Digit, NodeText!Letter
<1>3. t \in Seq(Int) /\ Len(t) = m BY <1>1, <1>2
<1> DEFINE k == NodeText!Min({Len(t), n})
<1>4. k \in {Len(t), n} /\ k <= n /\ k <= Len(t) BY <1>3, SmallestNumber
<1> HIDE DEF k
<1>5. Len(SubSeq(t, 1, k)) = k BY <1>3, <1>4
<1>6. SubSeq(t, 1, k) \in Seq(Int) BY <1>3, <1>4
<1> QED BY <1>4, <1>5, <1>6 DEF k

(* A writer moves within the buffer; what cat has to show changes only     *)
(* when it is disturbed.                                                   *)
LEMMA WriterStep == ASSUME NodeText!IInv, NEW w \in Writers, NodeText!node_write(w) PROVE NodeText!IInv'
<1> USE ModulesAssumption
<1>1. /\ mixed' \in BOOLEAN /\ refused' \in BOOLEAN /\ disturbed' \in BOOLEAN
      /\ (mixed => mixed') /\ (disturbed => disturbed')
  BY Zenon DEF NodeText!IInv, NodeText!TypeOK, NodeText!node_write, NodeText!Write, NodeText!GetUser, NodeText!Terminate,
     NodeText!Refuse, NodeText!Convert, NodeText!Store, NodeText!Disturb
<1>2. UNCHANGED <<cat, want, at, shown, meant, irq_counter>>
  BY DEF NodeText!cat_vars, NodeText!node_write, NodeText!Write, NodeText!GetUser, NodeText!Terminate, NodeText!Refuse,
         NodeText!Convert, NodeText!Store
<1> DEFINE Typed == /\ r_buffer \in [0 .. BUF_SIZE - 1 -> Int] /\ r_buffer[BUF_SIZE - 1] = NodeText!Nul
                    /\ writer \in [Writers -> {"idle", "copy", "kstrtol", "store"}]
                    /\ p \in [Writers -> 0 .. BUF_SIZE - 1] /\ ofs \in [Writers -> 0 .. BUF_SIZE - 1]
           Copying == /\ text \in [Writers -> Seq(Int)]
                      /\ \A v \in Writers : writer[v] = "copy" => p[v] + Len(text[v]) < BUF_SIZE
<1>3. Typed /\ Copying BY DEF NodeText!IInv, NodeText!TypeOK, NodeText!InBounds, NodeText!TextKept
<1>4. Typed' /\ Copying'
  <2> USE <1>3
  <2>1. CASE NodeText!Write(w)
    <3>1. PICK t \in NodeText!BoundedSeq({NodeText!Digit, NodeText!Letter}, BUF_SIZE) :
            IF ofs[w] >= BUF_SIZE - 1
            THEN UNCHANGED <<writer, text, p>>
            ELSE /\ writer' = [writer EXCEPT ![w] = "copy"]
                 /\ text' = [text EXCEPT ![w] = SubSeq(t, 1, NodeText!Min({Len(t), BUF_SIZE - 1 - ofs[w]}))]
                 /\ p' = [p EXCEPT ![w] = ofs[w]]
      BY <2>1 DEF NodeText!Write
    <3>2. UNCHANGED <<r_buffer, ofs>> BY <2>1 DEF NodeText!Write
    <3>3. CASE ofs[w] >= BUF_SIZE - 1
      <4>1. UNCHANGED <<writer, text, p>> BY <3>1, <3>3
      <4> QED BY <3>2, <4>1
    <3>4. CASE ~ (ofs[w] >= BUF_SIZE - 1)
      <4> DEFINE part == SubSeq(t, 1, NodeText!Min({Len(t), BUF_SIZE - 1 - ofs[w]}))
      <4>1. BUF_SIZE - 1 - ofs[w] \in Nat BY <3>4
      <4>2. part \in Seq(Int) /\ Len(part) <= BUF_SIZE - 1 - ofs[w] BY <4>1, TextLength
      <4>3. /\ text' = [text EXCEPT ![w] = part] /\ writer' = [writer EXCEPT ![w] = "copy"]
            /\ p' = [p EXCEPT ![w] = ofs[w]]
        BY <3>1, <3>4
      <4> HIDE DEF part
      <4>4. Typed' BY <3>2, <4>3
      <4>5. text' \in [Writers -> Seq(Int)] BY <4>2, <4>3
      <4>6. p'[w] + Len(text'[w]) < BUF_SIZE BY <4>2, <4>3
      <4> QED BY <4>3, <4>4, <4>5, <4>6
    <3> QED BY <3>3, <3>4
  <2>2. CASE NodeText!GetUser(w)
    <3>1. Head(text[w]) \in Int /\ Tail(text[w]) \in Seq(Int)
          /\ Len(Tail(text[w])) = Len(text[w]) - 1 /\ Len(text[w]) > 0 /\ Len(text[w]) \in Nat
      BY <2>2 DEF NodeText!GetUser
    <3>2. p[w] + 1 \in 0 .. BUF_SIZE - 1 /\ p[w] # BUF_SIZE - 1 BY <2>2, <3>1 DEF NodeText!GetUser
    <3>3. /\ r_buffer' = [r_buffer EXCEPT ![p[w]] = Head(text[w])] /\ text' = [text EXCEPT ![w] = Tail(text[w])]
          /\ p' = [p EXCEPT ![w] = p[w] + 1] /\ UNCHANGED <<writer, ofs>> /\ writer[w] = "copy"
      BY <2>2 DEF NodeText!GetUser
    <3>4. Typed' BY <3>1, <3>2, <3>3
    <3>5. text' \in [Writers -> Seq(Int)] BY <3>1, <3>3
    <3>6. p'[w] + Len(text'[w]) < BUF_SIZE BY <3>1, <3>3
    <3> QED BY <3>3, <3>4, <3>5, <3>6
  <2>3. CASE NodeText!Terminate(w)
    <3>1. /\ r_buffer' = [k \in 0 .. BUF_SIZE - 1 |-> IF k = p[w] - 1 THEN NodeText!Nul ELSE r_buffer[k]]
          /\ writer' = [writer EXCEPT ![w] = "kstrtol"] /\ UNCHANGED <<text, p, ofs>>
      BY <2>3 DEF NodeText!Terminate
    <3>2. Typed' BY <3>1 DEF NodeText!Nul
    <3> QED BY <3>1, <3>2
  <2>4. CASE NodeText!Refuse(w)    BY <2>4 DEF NodeText!Refuse
  <2>5. CASE NodeText!Convert(w)
    <3>1. <<NodeText!Number>> \in Seq(Int) BY TextTyped
    <3> QED BY <2>5, <3>1 DEF NodeText!Convert
  <2>6. CASE NodeText!Store(w)
    <3>1. << >> \in Seq(Int) OBVIOUS
    <3> QED BY <2>6, <3>1 DEF NodeText!Store
  <2> QED BY <2>1, <2>2, <2>3, <2>4, <2>5, <2>6 DEF NodeText!node_write
<1>5. NodeText!OneWriter' /\ ((\A v \in Writers : writer'[v] = "idle") => mixed' \/ refused' \/ rand_nums_amount' = NodeText!Number')
  <2> SUFFICES ASSUME ~ mixed'
               PROVE  /\ \A v \in Writers : /\ writer'[v] # "idle" => \A u \in Writers \ {v} : writer'[u] = "idle"
                                            /\ writer'[v] = "store" => text'[v] = <<NodeText!Number'>>
                      /\ (\A v \in Writers : writer'[v] = "idle") => refused' \/ rand_nums_amount' = NodeText!Number'
    BY DEF NodeText!OneWriter
  <2>0. \A v \in Writers : /\ writer[v] # "idle" => \A u \in Writers \ {v} : writer[u] = "idle"
                           /\ writer[v] = "store" => text[v] = <<NodeText!Number>>
    BY <1>1 DEF NodeText!IInv, NodeText!OneWriter
  <2>type. writer \in [Writers -> {"idle", "copy", "kstrtol", "store"}] /\ DOMAIN text = Writers BY <1>3
  <2> HIDE DEF Typed, Copying
  <2>1. CASE NodeText!Write(w)
    <3>1. UNCHANGED <<r_buffer, rand_nums_amount, refused>> BY <2>1 DEF NodeText!Write
    <3>2. UNCHANGED NodeText!Number BY <3>1, SameText
    <3>3. CASE ofs[w] >= BUF_SIZE - 1
      <4>1. UNCHANGED <<writer, text>> BY <2>1, <3>3 DEF NodeText!Write
      <4>2. (\A v \in Writers : writer[v] = "idle") => refused \/ rand_nums_amount = NodeText!Number
        BY <1>1 DEF NodeText!IInv, NodeText!TextKept
      <4> QED BY <2>0, <2>type, <3>1, <3>2, <4>1, <4>2
    <3>4. CASE ~ (ofs[w] >= BUF_SIZE - 1)
      <4>1. writer' = [writer EXCEPT ![w] = "copy"] BY <2>1, <3>4 DEF NodeText!Write
      <4>2. \A v \in Writers : writer[v] = "idle"
        <5>1. mixed' = (mixed \/ \E v \in Writers : writer[v] # "idle") BY <2>1, <3>4 DEF NodeText!Write
        <5> QED BY <5>1, Zenon
      <4> QED BY <2>type, <4>1, <4>2
    <3> QED BY <3>3, <3>4
  <2>2. CASE NodeText!GetUser(w)
    <3>1. UNCHANGED writer /\ writer[w] = "copy" /\ text' = [text EXCEPT ![w] = Tail(text[w])]
      BY <2>2 DEF NodeText!GetUser
    <3> QED BY <2>0, <2>type, <3>1
  <2>3. CASE NodeText!Terminate(w)
    <3>1. writer' = [writer EXCEPT ![w] = "kstrtol"] /\ writer[w] = "copy" BY <2>3 DEF NodeText!Terminate
    <3> QED BY <2>0, <2>type, <3>1
  <2>4. CASE NodeText!Refuse(w)
    <3>1. writer' = [writer EXCEPT ![w] = "idle"] /\ writer[w] = "kstrtol" /\ refused' = TRUE
      BY <2>4 DEF NodeText!Refuse
    <3> QED BY <2>0, <2>type, <3>1
  <2>5. CASE NodeText!Convert(w)
    <3>1. /\ writer' = [writer EXCEPT ![w] = "store"] /\ writer[w] = "kstrtol"
          /\ text' = [text EXCEPT ![w] = <<NodeText!Number>>] /\ UNCHANGED r_buffer
      BY <2>5 DEF NodeText!Convert
    <3>2. UNCHANGED NodeText!Number BY <3>1, SameText
    <3>3. text'[w] = <<NodeText!Number>> BY <2>type, <3>1
    <3>4. writer'[w] = "store" /\ \A v \in Writers \ {w} : writer'[v] = "idle" BY <2>0, <2>type, <3>1
    <3> QED BY <3>2, <3>3, <3>4
  <2>6. CASE NodeText!Store(w)
    <3>1. /\ writer' = [writer EXCEPT ![w] = "idle"] /\ writer[w] = "store"
          /\ rand_nums_amount' = Head(text[w]) /\ UNCHANGED r_buffer
      BY <2>6 DEF NodeText!Store
    <3>2. UNCHANGED NodeText!Number BY <3>1, SameText
    <3>3. rand_nums_amount' = NodeText!Number BY <2>0, <3>1
    <3> QED BY <2>0, <2>type, <3>1, <3>2, <3>3
  <2> QED BY <2>1, <2>2, <2>3, <2>4, <2>5, <2>6 DEF NodeText!node_write
<1>6. NodeText!Showing' /\ NodeText!ShownOnce'
  <2>1. UNCHANGED r_buffer \/ (cat \in {"read", "copy"} => disturbed')
    BY Zenon DEF NodeText!node_write, NodeText!Write, NodeText!GetUser, NodeText!Terminate, NodeText!Refuse,
       NodeText!Convert, NodeText!Store, NodeText!Disturb
  <2>2. NodeText!Showing /\ NodeText!ShownOnce BY DEF NodeText!IInv
  <2>3. CASE UNCHANGED r_buffer
    BY <1>1, <1>2, <2>2, <2>3, SameText DEF NodeText!Showing, NodeText!ShownOnce
  <2>4. CASE cat \in {"read", "copy"} => disturbed'
    BY <1>1, <1>2, <2>2, <2>4 DEF NodeText!Showing, NodeText!ShownOnce
  <2> QED BY <2>1, <2>3, <2>4
<1>7. NodeText!TypeOK' /\ NodeText!InBounds'
  BY <1>1, <1>2, <1>4 DEF NodeText!IInv, NodeText!TypeOK, NodeText!InBounds
<1> QED BY <1>4, <1>5, <1>6, <1>7 DEF NodeText!IInv, NodeText!TextKept

(* cat copies what is there, until the text ends.                          *)
LEMMA CatStep == ASSUME NodeText!IInv, NodeText!OpenNode \/ NodeText!OpenKeyboard \/ NodeText!node_read \/ NodeText!kb_int
                 PROVE  NodeText!IInv'
<1> USE ModulesAssumption
<1>1. UNCHANGED <<r_buffer, rand_nums_amount, writer, text, p, ofs, refused, mixed, disturbed>>
  BY DEF NodeText!OpenNode, NodeText!OpenKeyboard, NodeText!node_read, NodeText!ReadNode, NodeText!PutUser,
         NodeText!ReadKeyboard, NodeText!kb_int, NodeText!text_vars
<1>2. UNCHANGED <<NodeText!strlen, NodeText!Text, NodeText!Number>> BY <1>1, SameText
<1>3. NodeText!OneWriter' /\ NodeText!TextKept'
  BY <1>1, <1>2 DEF NodeText!IInv, NodeText!OneWriter, NodeText!TextKept
<1> DEFINE CatTyped == /\ cat \in {"open", "read", "copy", "keyboard", "done"}
                       /\ want \in Nat /\ at \in Nat /\ shown \in Seq(Int) /\ meant \in Seq(Int)
                       /\ irq_counter \in Nat
                       /\ cat = "copy" => want > 0 /\ at + want < BUF_SIZE
<1>4. CatTyped /\ NodeText!Showing /\ NodeText!ShownOnce BY DEF NodeText!IInv, NodeText!TypeOK, NodeText!InBounds
<1>5. r_buffer \in [0 .. BUF_SIZE - 1 -> Int] BY DEF NodeText!IInv, NodeText!TypeOK
<1>6. CatTyped' /\ NodeText!Showing' /\ NodeText!ShownOnce'
  <2> USE <1>1, <1>2, <1>4 DEF NodeText!Showing, NodeText!ShownOnce
  <2>1. CASE NodeText!OpenNode
    <3>1. CatTyped' BY <2>1, TextTyped DEF NodeText!OpenNode
    <3> QED BY <2>1, <3>1, TextEnds DEF NodeText!OpenNode
  <2>2. CASE NodeText!OpenKeyboard
    <3>1. <<irq_counter>> \in Seq(Int) /\ Len(<<irq_counter>>) = 1 /\ <<irq_counter>>[1] = irq_counter OBVIOUS
    <3> QED BY <2>2, <3>1 DEF NodeText!OpenKeyboard
  <2>3. CASE NodeText!ReadNode
    <3>1. CASE at >= NodeText!strlen
      <4>1. cat = "read" /\ cat' = "done" /\ UNCHANGED <<want, at, shown, meant, irq_counter>>
        BY <2>3, <3>1 DEF NodeText!ReadNode
      <4>2. ASSUME ~ disturbed PROVE shown = meant
        <5>1. Len(shown) = NodeText!strlen /\ meant = NodeText!Text BY <3>1, <4>1, <4>2, TextEnds
        <5>2. \A i \in 1 .. Len(shown) : shown[i] = NodeText!Text[i] BY <4>1, <4>2, <5>1 DEF NodeText!Text
        <5> QED BY <5>1, <5>2, TextTyped
      <4> QED BY <4>1, <4>2
    <3>2. CASE ~ (at >= NodeText!strlen)
      <4>1. /\ cat' = "copy" /\ want' = NodeText!Min({CHUNK, NodeText!strlen - at}) /\ cat = "read"
            /\ UNCHANGED <<at, shown, meant, irq_counter>>
        BY <2>3, <3>2 DEF NodeText!ReadNode
      <4>2. NodeText!strlen - at \in Nat \ {0} BY <3>2, TextEnds
      <4>3. want' \in {CHUNK, NodeText!strlen - at} /\ want' <= NodeText!strlen - at
        BY <4>1, <4>2, SmallestNumber
      <4> QED BY <4>1, <4>2, <4>3, TextEnds
    <3> QED BY <3>1, <3>2
  <2>4. CASE NodeText!PutUser
    <3>1. /\ cat = "copy" /\ shown' = Append(shown, r_buffer[at]) /\ at' = at + 1 /\ want' = want - 1
          /\ cat' = (IF want = 1 THEN "read" ELSE "copy") /\ UNCHANGED <<meant, irq_counter>>
      BY <2>4 DEF NodeText!PutUser
    <3>2. r_buffer[at] \in Int BY <1>5, <3>1
    <3>3. /\ shown' \in Seq(Int) /\ Len(shown') = Len(shown) + 1 /\ shown'[Len(shown) + 1] = r_buffer[at]
          /\ \A i \in 1 .. Len(shown) : shown'[i] = shown[i]
      BY <3>1, <3>2
    <3>4. CatTyped' BY <3>1, <3>3
    <3>5. ASSUME ~ disturbed PROVE /\ at + 1 <= NodeText!strlen /\ (want # 1 => at' + want' <= NodeText!strlen)
                                   /\ Len(shown') = at' /\ \A i \in 1 .. at' : shown'[i] = r_buffer[i - 1]
      BY <3>1, <3>3, <3>5, TextEnds
    <3> QED BY <3>1, <3>4, <3>5
  <2>5. CASE NodeText!ReadKeyboard
    <3>1. /\ cat = "keyboard" /\ UNCHANGED <<want, meant, irq_counter>>
          /\ \/ at = 0 /\ shown' = Append(shown, irq_counter) /\ at' = 1 /\ cat' = cat
             \/ at # 0 /\ cat' = "done" /\ UNCHANGED <<shown, at>>
      BY <2>5 DEF NodeText!ReadKeyboard
    <3>2. at = 0 => Append(shown, irq_counter) \in Seq(Int) /\ Len(Append(shown, irq_counter)) = 1
                    /\ Append(shown, irq_counter)[1] = irq_counter
      BY <3>1
    <3> QED BY <3>1, <3>2
  <2>6. CASE NodeText!kb_int
    <3>1. (Len(meant) = 1 => meant[1] \in Int) /\ (Len(shown) = 1 => shown[1] \in Int) OBVIOUS
    <3> QED BY <2>6, <3>1 DEF NodeText!kb_int
  <2> QED BY <2>1, <2>2, <2>3, <2>4, <2>5, <2>6 DEF NodeText!node_read
<1>7. NodeText!TypeOK' /\ NodeText!InBounds'
  BY <1>1, <1>6 DEF NodeText!IInv, NodeText!TypeOK, NodeText!InBounds
<1> QED BY <1>3, <1>6, <1>7 DEF NodeText!IInv

LEMMA TextStep == NodeText!IInv /\ [NodeText!Next]_textVars => NodeText!IInv'
<1> SUFFICES ASSUME NodeText!IInv, [NodeText!Next]_textVars PROVE NodeText!IInv' OBVIOUS
<1>1. CASE UNCHANGED textVars
  <2>1. UNCHANGED <<NodeText!strlen, NodeText!Text, NodeText!Number>> BY <1>1, SameText DEF textVars
  <2> QED BY <1>1, <2>1 DEF textVars, NodeText!IInv, NodeText!TypeOK, NodeText!InBounds, NodeText!OneWriter,
                            NodeText!Showing, NodeText!ShownOnce, NodeText!TextKept
<1> QED BY <1>1, WriterStep, CatStep DEF NodeText!Next

(* cat shows the text that was there when it opened the node, once and     *)
(* whole, unless it was written meanwhile, and the number stored is the    *)
(* one of the text unless writes have overlapped: for any number of        *)
(* writers, any buffer and any length of cat's reads.                      *)
THEOREM TextsShown == Modules => []TextShown
BY TextInit, TextStep, OneRuns, PTL DEF Modules, Boot, TextShown
===============================================================================
