------------------------------- MODULE ArrayFile -------------------------------
(***************************************************************************)
(* main of homework3/array: reads numbers separated by commas from a file, *)
(* character by character, shows them, sorts and shows them again.         *)
(* num_index and char_idx are not initialised.                             *)
(***************************************************************************)
EXTENDS Integers, FiniteSets, FiniteSetsExt, SequencesExt

CONSTANTS SIZE,         \* the elements of nums (7)
          LIMIT,        \* the numbers the loop takes (10)
          CHARS,        \* the characters of a number (20)
          Digits,       \* bound: the digits in the file
          MAX_FILE,     \* bound: its length
          Garbage       \* bound: what an uninitialised num_index may hold

VARIABLES file,         \* the characters
          pos,          \* those read
          nums, num_index,
          number,       \* the characters of the number being read, or of the last
          in_number,
          reader,       \* where main is
          started       \* the value num_index had

Minus == -1
Comma == -2
Other == -3
Numeric(c) == c \in Digits \cup {Minus}
Unset == <<Other>>      \* char_idx has no value yet

Init == /\ file \in BoundedSeq(Digits \cup {Minus, Comma, Other}, MAX_FILE)
        /\ num_index \in Garbage /\ started = num_index
        /\ pos = 0 /\ nums = [k \in 0 .. SIZE - 1 |-> 0]
        /\ number = Unset /\ in_number = FALSE
        /\ reader = "open"

(* atoi: one sign, and the digits up to the first other character.         *)
atoi(text) ==
  LET signed == text # <<>> /\ Head(text) = Minus
      rest   == IF signed THEN Tail(text) ELSE text
      digits == SubSeq(rest, 1, Min({k \in DOMAIN rest : rest[k] = Minus} \cup {Len(rest) + 1}) - 1)
  IN (IF signed THEN -1 ELSE 1) * FoldLeft(LAMBDA n, d : 10 * n + d, 0, digits)

-------------------------------------------------------------------------------
Open == /\ reader = "open"
        /\ reader' \in {"read", "exit"}
        /\ UNCHANGED <<file, pos, nums, num_index, number, in_number, started>>

More == reader = "read" /\ pos < Len(file) /\ num_index < LIMIT

Digit == /\ More /\ Numeric(file[pos + 1])
         /\ number' = IF ~ in_number THEN <<file[pos + 1]>>
                      ELSE IF Len(number) < CHARS THEN Append(number, file[pos + 1])
                      ELSE number
         /\ in_number' = TRUE /\ pos' = pos + 1
         /\ UNCHANGED <<file, nums, num_index, reader, started>>

(* nums[num_index++] = atoi(number); nothing is known of a program that has *)
(* written outside nums, or at number[char_idx] with no char_idx.          *)
StoreNumber(next) ==
  IF num_index \in DOMAIN nums /\ number # Unset
  THEN /\ nums' = [nums EXCEPT ![num_index] = atoi(number)]
       /\ num_index' = num_index + 1
       /\ reader' = next
  ELSE reader' = "undefined" /\ UNCHANGED <<nums, num_index>>

(* A broken EndNumber: in_number is not reset.                             *)
EndNumberNot == /\ More /\ file[pos + 1] = Comma
                /\ StoreNumber("read")
                /\ pos' = pos + 1
                /\ UNCHANGED <<file, number, in_number, started>>

EndNumber == /\ More /\ file[pos + 1] = Comma
             /\ StoreNumber("read")
             /\ in_number' = FALSE /\ pos' = pos + 1
             /\ UNCHANGED <<file, number, started>>

Skip == /\ More /\ file[pos + 1] = Other
        /\ pos' = pos + 1
        /\ UNCHANGED <<file, nums, num_index, number, in_number, reader, started>>

(* For last number in file                                                 *)
LastNumber == /\ reader = "read" /\ ~ More
              /\ IF in_number /\ num_index < LIMIT
                 THEN StoreNumber("show")
                 ELSE reader' = "show" /\ UNCHANGED <<nums, num_index>>
              /\ UNCHANGED <<file, pos, number, in_number, started>>

(* array_show, sort_array, array_show                                      *)
ShowSorted == /\ reader = "show" /\ reader' = "done"
              /\ nums' = LET s == SetToSortSeq(DOMAIN nums, LAMBDA a, b : nums[a] < nums[b] \/ (nums[a] = nums[b] /\ a < b))
                         IN [k \in DOMAIN nums |-> nums[s[k + 1]]]
              /\ UNCHANGED <<file, pos, num_index, number, in_number, started>>

Next == Open \/ Digit \/ EndNumber \/ Skip \/ LastNumber \/ ShowSorted

-------------------------------------------------------------------------------
(* What the file says: fields between commas, counted from 0, and the text *)
(* of a field: its first CHARS numeric characters, in their order.         *)
Commas(p) == Cardinality({q \in 1 .. p : file[q] = Comma})
Own(k, p) == {q \in 1 .. p : Commas(q) = k /\ Numeric(file[q])}
Rank(S, q) == Cardinality({r \in S : r <= q})
Nth(S, x) == CHOOSE q \in S : Rank(S, q) = x
TextTo(k, p) == [x \in 1 .. Min({Cardinality(Own(k, p)), CHARS}) |-> file[Nth(Own(k, p), x)]]
Text(k) == TextTo(k, Len(file))
Fields == Commas(Len(file)) + (IF Text(Commas(Len(file))) # <<>> THEN 1 ELSE 0)
Filled(k) == {l \in 0 .. k : Text(l) # <<>>}
Meant(k) == atoi(Text(Max(Filled(k))))

(* The elements the loop means to store into, from what num_index held.    *)
Slots == started .. Min({started + Fields, IF started < LIMIT THEN LIMIT ELSE started}) - 1

(* nums holds the numbers of the file in order, an empty field repeating   *)
(* the one before it, from the element on that num_index happened to       *)
(* start at.  Only a file with more numbers than elements, one that        *)
(* begins with an empty field, or a num_index that starts too far to the   *)
(* right or the left, makes main write elsewhere.                          *)
ReadsNumbers ==
  /\ reader = "show" => \A k \in DOMAIN nums : nums[k] = IF k \in Slots THEN Meant(k - started) ELSE 0
  /\ reader = "undefined" => ~ Slots \subseteq DOMAIN nums \/ Filled(0) = {}
  /\ reader \in {"show", "done"} => Slots \subseteq DOMAIN nums

-------------------------------------------------------------------------------
(* While main reads: the elements stored so far, one for each comma, and   *)
(* the number under way, or the last one.                                  *)
TypeOK == /\ file \in Seq(Digits \cup {Minus, Comma, Other}) /\ pos \in 0 .. Len(file)
          /\ DOMAIN nums = 0 .. SIZE - 1
          /\ num_index \in Int /\ started \in Int /\ in_number \in BOOLEAN
          /\ reader \in {"open", "read", "exit", "undefined", "show", "done"}

Stored == /\ num_index = started + Commas(pos)
          /\ Commas(pos) > 0 => num_index <= LIMIT /\ Text(0) # <<>>
          /\ started .. num_index - 1 \subseteq DOMAIN nums
          /\ \A k \in DOMAIN nums : nums[k] = IF k \in started .. num_index - 1 THEN Meant(k - started) ELSE 0

UnderWay == IF TextTo(Commas(pos), pos) # <<>>
            THEN in_number /\ number = TextTo(Commas(pos), pos)
            ELSE /\ ~ in_number
                 /\ number = IF Commas(pos) = 0 THEN Unset ELSE Text(Max(Filled(Commas(pos) - 1)))

IInv == /\ TypeOK
        /\ reader \in {"open", "read"} => Stored /\ UnderWay
        /\ ReadsNumbers
===============================================================================
