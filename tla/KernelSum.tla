------------------------------- MODULE KernelSum -------------------------------
(***************************************************************************)
(* The two modules of homework3 that multiply the numbers of an array by   *)
(* random numbers between two limits and add them up, and rand_num, which  *)
(* draws them.  array_sum_rand does so once, when it is loaded,            *)
(* array_sum_changeable whenever a limit is set, while the parameters of   *)
(* insmod are being read included.  The limits can be set while the module *)
(* is loaded, and so can the array of array_sum_rand, by root.             *)
(***************************************************************************)
EXTENDS Integers, Functions

CONSTANTS MAX,          \* the largest int
          SIZE,         \* the numbers m_array has room for
          HIGH,         \* the limit m_high starts with
          Elements,     \* bound: the numbers given to insmod
          SETS          \* bound: parameters set after it

VARIABLES changeable,   \* which of the two modules it is
          module,       \* "parsing", "loaded", "failed", "oops"
          given,        \* the parameters insmod has read
          m_array, m_low, m_high,
          product_sum,
          first,        \* the array as it was last given
          times,        \* how often it was multiplied since
          inverted,     \* once with the limits the wrong way round
          sets          \* parameters set after insmod

MIN == - (MAX + 1)
Ints == MIN .. MAX
Modulus == 2 * (MAX + 1)
Wrap(n) == ((n - MIN) % Modulus) + MIN
Arrays == UNION {[1 .. n -> Elements] : n \in 1 .. SIZE}

Init == /\ changeable \in BOOLEAN
        /\ module = "parsing" /\ given = {}
        /\ m_array = <<>> /\ m_low = 0 /\ m_high = HIGH
        /\ product_sum = 0 /\ first = <<>> /\ times = 0 /\ inverted = FALSE /\ sets = 0

-------------------------------------------------------------------------------
(* rand_num_get: when it refuses its limits the number stays 0.  The range *)
(* of all integers is 0, by which it divides.                              *)
range(low, high) == (high - low + 1) % Modulus

(* A broken rand_num_get: the range is one too large.                      *)
RandOneMore(low, high) == IF low >= high THEN {0}
                          ELSE {Wrap(low + (r % (range(low, high) + 1))) : r \in 0 .. Modulus - 1}

rand_num_get(low, high) == IF low >= high THEN {0}
                           ELSE {Wrap(low + (r % range(low, high))) : r \in 0 .. Modulus - 1}

(* calculate_array_sum with the limits as they have just been set          *)
Calculate(low, high, next) ==
  \/ /\ low < high /\ range(low, high) = 0
     /\ module' = "oops"
     /\ UNCHANGED <<m_array, product_sum, times, inverted>>
  \/ /\ low < high => range(low, high) # 0
     /\ \E r \in [DOMAIN m_array -> rand_num_get(low, high)] :
          /\ m_array' = [i \in DOMAIN m_array |-> Wrap(m_array[i] * r[i])]
          /\ product_sum' = Wrap(SumFunction(m_array'))
     /\ module' = next /\ times' = times + 1 /\ inverted' = (inverted \/ low >= high)

(* A parameter is given to insmod, in the order of its command line, or    *)
(* set later.                                                              *)
Settable(name) == \/ module = "parsing" /\ name \notin given /\ given' = given \cup {name} /\ UNCHANGED sets
                  \/ module = "loaded" /\ sets < SETS /\ sets' = sets + 1 /\ UNCHANGED given

(* The mode 0444 keeps the array of array_sum_changeable, the mode 0660    *)
(* not that of array_sum_rand, which is not multiplied again.              *)
GiveArray == /\ Settable("m_array")
             /\ module = "loaded" => ~ changeable
             /\ m_array' \in Arrays /\ first' = m_array'
             /\ times' = 0 /\ inverted' = FALSE
             /\ UNCHANGED <<changeable, module, m_low, m_high, product_sum>>

SetTo(low, high) == /\ m_low' = low /\ m_high' = high
                    /\ IF changeable /\ m_array # <<>>
                       THEN Calculate(low, high, module)
                       ELSE UNCHANGED <<module, m_array, product_sum, times, inverted>>
                    /\ UNCHANGED <<changeable, first>>

param_set_low_limit  == \E n \in Ints : Settable("m_low") /\ (changeable => n >= 0) /\ SetTo(n, m_high)
param_set_high_limit == \E n \in Ints : Settable("m_high") /\ (changeable => n >= 0) /\ SetTo(m_low, n)

(* A value that is no number, or one below 0, fails insmod.                *)
Refuse == /\ module = "parsing" /\ given # {"m_low", "m_high", "m_array"}
          /\ module' = "failed"
          /\ UNCHANGED <<changeable, given, m_array, m_low, m_high, product_sum, first, times, inverted, sets>>

array_sum_rand_init == /\ module = "parsing"
                       /\ IF m_array = <<>>
                          THEN module' = "failed" /\ UNCHANGED <<m_array, product_sum, times, inverted>>
                          ELSE Calculate(m_low, m_high, "loaded")
                       /\ UNCHANGED <<changeable, given, m_low, m_high, first, sets>>

Next == GiveArray \/ param_set_low_limit \/ param_set_high_limit \/ Refuse \/ array_sum_rand_init

-------------------------------------------------------------------------------
(* The sum is that of the numbers in the array, until the array is given   *)
(* anew.  Once they have been multiplied with the limits the wrong way     *)
(* round they are 0 for good.  When insmod has multiplied them once, each  *)
(* is the number given times one between the limits.  Only array_sum_rand  *)
(* can divide by 0, and only with the smallest and the largest limit.      *)
SumKept ==
  /\ module = "loaded" => product_sum = Wrap(SumFunction(m_array)) \/ (~ changeable /\ times = 0)
  /\ inverted => \A i \in DOMAIN m_array : m_array[i] = 0
  /\ module = "loaded" /\ times = 1 /\ sets = 0 /\ ~ inverted =>
       \A i \in DOMAIN m_array : \E f \in m_low .. m_high : m_array[i] = Wrap(first[i] * f)
  /\ module = "oops" => ~ changeable /\ m_low = MIN /\ m_high = MAX

TypeOK == /\ changeable \in BOOLEAN /\ inverted \in BOOLEAN
          /\ module \in {"parsing", "loaded", "failed", "oops"}
          /\ m_low \in Ints /\ m_high \in Ints
          /\ times \in Nat /\ sets \in Nat
          /\ DOMAIN first = DOMAIN m_array
          /\ \A i \in DOMAIN m_array : first[i] \in Int /\ m_array[i] \in Int

(* The inductive invariant: what insmod has not yet multiplied is as given, *)
(* and the limits of array_sum_changeable are never below 0.               *)
Untouched == times = 0 => m_array = first
LimitsNatural == changeable => m_low >= 0 /\ m_high >= 0

IInv == TypeOK /\ Untouched /\ LimitsNatural /\ SumKept

(* The mode of m_array: "0660 where last 0 means that parameter cannot be  *)
(* changed after module is loaded", says array_sum_rand.c of it.           *)
ArrayStays == [][~ changeable /\ module = "loaded" => UNCHANGED m_array]_m_array
===============================================================================
