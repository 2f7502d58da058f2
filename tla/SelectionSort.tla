----------------------------- MODULE SelectionSort -----------------------------
(***************************************************************************)
(* sort_array of homework1/sort.c (homework2 has the same source, built    *)
(* into a static and a dynamic library), as main.c calls it on an array    *)
(* that array_fill_with_rand_nums has filled.  Indices are those of C.     *)
(***************************************************************************)
EXTENDS Integers, FiniteSets

CONSTANTS Randoms,      \* bound: what rand() returns
          MAX_LEN       \* bound: the longest array

VARIABLES array, len,
          filled,       \* the array as rand() filled it
          i, j, min_index,
          pc, err       \* where main is, and what sort_array has returned

vars == <<array, len, filled, i, j, min_index, pc, err>>

Indices == 0 .. len - 1

TypeOK == /\ len \in 0 .. MAX_LEN
          /\ array \in [Indices -> Randoms] /\ filled \in [Indices -> Randoms]
          /\ i \in 0 .. MAX_LEN /\ j \in 0 .. MAX_LEN /\ min_index \in 0 .. MAX_LEN
          /\ pc \in {"call", "outer", "inner", "swap", "done"}
          /\ err \in {0, -1}

(* array_fill_with_rand_nums                                               *)
Init == /\ len \in 0 .. MAX_LEN
        /\ filled \in [Indices -> Randoms]
        /\ array = filled
        /\ i = 0 /\ j = 0 /\ min_index = 0
        /\ pc = "call" /\ err = 0

-------------------------------------------------------------------------------
Call == /\ pc = "call"
        /\ IF len = 0 THEN pc' = "done" /\ err' = -1 ELSE pc' = "outer" /\ err' = 0
        /\ UNCHANGED <<array, len, filled, i, j, min_index>>

(* for(size_t i = 0; i < len - 1; i++)                                     *)
Outer == /\ pc = "outer"
         /\ IF i < len - 1
            THEN pc' = "inner" /\ min_index' = i /\ j' = i + 1
            ELSE pc' = "done" /\ UNCHANGED <<min_index, j>>
         /\ UNCHANGED <<array, len, filled, i, err>>

(* A broken Inner: the last element is not looked at.                      *)
InnerShort == /\ pc = "inner"
              /\ IF j < len - 1
                 THEN /\ min_index' = IF array[j] < array[min_index] THEN j ELSE min_index
                      /\ j' = j + 1
                      /\ UNCHANGED pc
                 ELSE pc' = "swap" /\ UNCHANGED <<min_index, j>>
              /\ UNCHANGED <<array, len, filled, i, err>>

Inner == /\ pc = "inner"
         /\ IF j < len
            THEN /\ min_index' = IF array[j] < array[min_index] THEN j ELSE min_index
                 /\ j' = j + 1
                 /\ UNCHANGED pc
            ELSE pc' = "swap" /\ UNCHANGED <<min_index, j>>
         /\ UNCHANGED <<array, len, filled, i, err>>

Swap == /\ pc = "swap"
        /\ array' = [array EXCEPT ![i] = array[min_index], ![min_index] = array[i]]
        /\ i' = i + 1
        /\ pc' = "outer"
        /\ UNCHANGED <<len, filled, j, min_index, err>>

Returned == pc = "done" /\ UNCHANGED vars

Next == Call \/ Outer \/ Inner \/ Swap \/ Returned

Spec == Init /\ [][Next]_vars

-------------------------------------------------------------------------------
Occurs(a, v) == {k \in Indices : a[k] = v}

(* The first i elements are sorted and none of the others is smaller.      *)
Prefix == len > 0 => /\ i \in 0 .. len - 1
                     /\ \A k \in 0 .. i - 1 : \A l \in k + 1 .. len - 1 : array[k] <= array[l]

(* min_index is where the smallest of those looked at since is.            *)
Minimum == pc \in {"inner", "swap"} =>
             /\ i < len - 1 /\ j \in i + 1 .. len /\ min_index \in i .. j - 1
             /\ \A k \in i .. j - 1 : array[min_index] <= array[k]
             /\ pc = "swap" => j = len

(* No element is lost and none is made up.                                 *)
Same == \A v \in Randoms : Cardinality(Occurs(array, v)) = Cardinality(Occurs(filled, v))

Returns == /\ len = 0 => pc \in {"call", "done"} /\ (pc = "done" => err = -1)
           /\ pc = "done" /\ len > 0 => i = len - 1

IInv == TypeOK /\ Prefix /\ Minimum /\ Same /\ Returns

(* sort_array returns the elements it was given, in order, or an error for *)
(* an empty array.                                                         *)
SortsThem ==
  pc = "done" => IF len = 0 THEN err = -1
                 ELSE Same /\ \A k, l \in Indices : k <= l => array[k] <= array[l]
===============================================================================
