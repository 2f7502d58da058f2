-------------------------- MODULE ModuleDeviceProofs --------------------------
(***************************************************************************)
(* Proofs about ModuleDevice for every set of writers and of values, valid *)
(* or not, whether kmalloc fails or not.                                   *)
(***************************************************************************)
EXTENDS ModuleDevice, TLAPS

(* The numbers a write can leave in rand_nums_amount.                      *)
LEMMA TextType ==
  ASSUME NEW v \in Values, NEW newline \in BOOLEAN
  PROVE  Text(v, newline) \in {BadText} \cup {Number(u) : u \in Amounts}
<1>1. v \in Amounts BY DEF Amounts
<1>2. CASE newline \/ ~(v >= 10) BY <1>1, <1>2 DEF Text
<1>3. CASE ~newline /\ v >= 10
  <2>1. v \div 10 \in Amounts BY <1>3 DEF Amounts
  <2> QED BY <1>3, <2>1 DEF Text
<1> QED BY <1>2, <1>3

LEMMA AmountsInt == Amounts \subseteq Int
<1>1. \A v \in Values : v \in Int /\ v \div 10 \in Int BY DeviceAssumption
<1> QED BY <1>1 DEF Amounts

(* What kmalloc leaves in nums_array.                                      *)
LEMMA KmallocResult ==
  ASSUME NEW ok \in BOOLEAN, KmallocArray(ok), amount \in Amounts
  PROVE  /\ ok => nums_array' = amount /\ amount >= 0
         /\ ~ok => nums_array' = NULL
         /\ nums_array' \in {NULL} \cup Amounts
         /\ ok <=> nums_array' # NULL
<1>1. CASE ok
  <2>1. nums_array' = amount /\ amount >= 0 BY <1>1 DEF KmallocArray, Allocatable
  <2> QED BY <1>1, <2>1, AmountsInt DEF NULL
<1>2. CASE ~ok BY <1>2 DEF KmallocArray
<1> QED BY <1>1, <1>2

LEMMA InitInv == Init => ArrayInv
<1> SUFFICES ASSUME Init PROVE ArrayInv OBVIOUS
<1>1. 5 \in Amounts BY DEF Amounts
<1>2. wpc \in [Writers -> {"idle", "copied"}] BY DEF Init
<1>3. CatClosed \in CatType BY DeviceAssumption DEF CatClosed, CatType
<1>4. TypeOK
  <2>1. cat \in CatType BY <1>3 DEF Init
  <2>2. heap \in Int /\ amount \in Amounts BY <1>1 DEF Init
  <2>3. phase \in Phases /\ leaked \in BOOLEAN /\ early \in BOOLEAN BY DEF Init, Phases
  <2>4. w_buffer \in {BadText} \cup {Number(v) : v \in Amounts} BY DEF Init
  <2> QED BY <1>2, <2>1, <2>2, <2>3, <2>4 DEF Init, TypeOK
<1> QED BY <1>4 DEF Init, ArrayInv, HeapBalance, LeakMeansNoArray, ArrayKnown, GeneratesInside,
                    Blocks, NULL

LEMMA NullOutside == NULL = -1 /\ Blocks(NULL) = 0
BY DEF NULL, Blocks

(* The steps of module_device_init and module_device_deinit.               *)
LEMMA ModuleStep == ArrayInv /\ (module_device_init \/ module_device_deinit) => ArrayInv'
<1> USE DEF ArrayInv, TypeOK, HeapBalance, LeakMeansNoArray, ArrayKnown, GeneratesInside, Phases
<1>1. ASSUME ArrayInv, create_device PROVE ArrayInv' BY <1>1 DEF create_device
<1>2. ASSUME ArrayInv, AllocateArray PROVE ArrayInv'
  <2>1. PICK ok \in BOOLEAN : KmallocArray(ok) /\ phase' = IF ok THEN "array" ELSE "failed"
    BY <1>2 DEF AllocateArray
  <2>2. /\ ok => nums_array' = amount
        /\ ~ok => nums_array' = NULL
        /\ nums_array' \in {NULL} \cup Amounts
    BY <1>2, <2>1, KmallocResult
  <2>3. heap' = Blocks(nums_array') BY <1>2, NullOutside DEF AllocateArray, Blocks
  <2> QED BY <1>2, <2>1, <2>2, <2>3 DEF AllocateArray, Blocks
<1>3. ASSUME ArrayInv, StartThread PROVE ArrayInv' BY <1>3 DEF StartThread
<1>4. ASSUME ArrayInv, BeginUnload PROVE ArrayInv' BY <1>4 DEF BeginUnload
<1>5. ASSUME ArrayInv, FinishUnload PROVE ArrayInv' BY <1>5 DEF FinishUnload, Blocks
<1> QED BY <1>1, <1>2, <1>3, <1>4, <1>5 DEF module_device_init, module_device_deinit

(* The steps of thread_func: current is the size of the array again        *)
(* whenever the mutex is unlocked.                                         *)
LEMMA ThreadStep == ArrayInv /\ thread_func => ArrayInv'
<1> USE DEF ArrayInv, TypeOK, HeapBalance, LeakMeansNoArray, ArrayKnown, GeneratesInside, Phases
<1>1. ASSUME ArrayInv, ThreadStart PROVE ArrayInv' BY <1>1 DEF ThreadStart
<1>2. ASSUME ArrayInv, ThreadCheck PROVE ArrayInv' BY <1>2, AmountsInt DEF ThreadCheck
<1>3. ASSUME ArrayInv, Regenerate PROVE ArrayInv' BY <1>3 DEF Regenerate
<1>4. ASSUME ArrayInv, Reallocate PROVE ArrayInv'
  <2>1. PICK ok \in BOOLEAN : /\ KmallocArray(ok)
                              /\ thread' = IF ok THEN "check" ELSE "done"
                              /\ leaked' = ~ok
    BY <1>4 DEF Reallocate
  <2>2. /\ ok => nums_array' = amount
        /\ ~ok => nums_array' = NULL
        /\ nums_array' \in {NULL} \cup Amounts
    BY <1>4, <2>1, KmallocResult
  <2>3. heap' = Blocks(nums_array')
    BY <1>4 DEF Reallocate, Blocks
  <2> QED BY <1>4, <2>1, <2>2, <2>3 DEF Reallocate
<1> QED BY <1>1, <1>2, <1>3, <1>4 DEF thread_func

(* The steps of the calls: a write changes the amount, never the array.    *)
LEMMA WriteStep ==
  ASSUME NEW w \in Writers
  PROVE  ArrayInv /\ node_write(w) => ArrayInv'
<1> USE DEF ArrayInv, TypeOK, HeapBalance, LeakMeansNoArray, ArrayKnown, GeneratesInside, Phases
<1>1. ASSUME ArrayInv, CopyText(w) PROVE ArrayInv'
  <2>1. w_buffer' \in {BadText} \cup {Number(v) : v \in Amounts} BY <1>1, TextType DEF CopyText
  <2> QED BY <1>1, <2>1 DEF CopyText
<1>2. ASSUME ArrayInv, SetAmount(w) PROVE ArrayInv'
  <2>1. amount' \in Amounts
    <3>1. w_buffer.ok => w_buffer.n \in Amounts BY <1>2 DEF Number, BadText
    <3> QED BY <1>2, <3>1 DEF SetAmount
  <2>2. early' \/ amount' = amount \/ phase = "device" \/ thread \notin {"none", "created"}
    BY <1>2 DEF SetAmount
  <2>3. early' \in BOOLEAN BY <1>2 DEF SetAmount
  <2>4. cat' \in CatType BY <1>2 DEF SetAmount, CatType
  <2>5. wpc' \in [Writers -> {"idle", "copied"}] BY <1>2 DEF SetAmount
  <2>6. TypeOK' BY <1>2, <2>1, <2>3, <2>4, <2>5 DEF SetAmount
  <2>7. HeapBalance' /\ LeakMeansNoArray' BY <1>2 DEF SetAmount
  <2>8. ArrayKnown' BY <1>2, <2>2 DEF SetAmount
  <2>9. GeneratesInside' BY <2>6, <2>8, AmountsInt
  <2> QED BY <2>6, <2>7, <2>8, <2>9
<1> QED BY <1>1, <1>2 DEF node_write

(* The number of lines that one read prints, and of whole ones.            *)
LEMMA LinesType == amount \in Int => Lines \in Nat /\ copied \in Nat /\ Whole \in Nat
<1> SUFFICES ASSUME amount \in Int PROVE Lines \in Nat /\ copied \in Nat /\ Whole \in Nat
  OBVIOUS
<1> DEFINE room == (MAX_BUFFER_SIZE + Width - 1) \div Width
           fit  == (MAX_BUFFER_SIZE - 1) \div Width
<1>1. room \in Nat /\ fit \in Nat /\ Width \in Nat BY DeviceAssumption DEF MAX_BUFFER_SIZE
<1>2. Lines \in Nat BY <1>1 DEF Lines
<1>3. copied \in Nat BY <1>1, <1>2 DEF copied
<1>4. Whole \in Nat BY <1>1, <1>2 DEF Whole
<1> QED BY <1>2, <1>3, <1>4

LEMMA LengthType == cat \in CatType => cat.length \in Nat
<1> SUFFICES ASSUME cat \in CatType PROVE cat.length \in Nat OBVIOUS
<1>1. cat.length \in Lengths \/ cat.length = 0 BY DEF CatType
<1>2. \A l \in Lengths : l \in Nat BY DeviceAssumption
<1> QED BY <1>1, <1>2

(* What one call does to a reader.                                         *)
LEMMA ReadResult ==
  ASSUME cat \in CatType, amount \in Int, node_read
  PROVE  /\ cat' \in CatType /\ cat.state = "open"
         /\ cat'.steady = cat.steady /\ cat'.length = cat.length
         /\ \/ /\ AtEnd /\ cat'.state = "eof" /\ cat'.inside = cat.inside
               /\ cat'.offset = cat.offset /\ cat'.numbers = cat.numbers
               /\ cat'.claimed = cat.claimed /\ cat'.stack = cat.stack
            \/ /\ ~AtEnd /\ cat'.state = "failed"
               /\ cat'.inside = (cat.inside /\ Lines <= nums_array)
               /\ cat'.offset = cat.offset /\ cat'.numbers = cat.numbers
               /\ cat'.claimed = cat.claimed /\ cat'.stack = cat.stack
            \/ /\ ~AtEnd /\ cat'.inside = (cat.inside /\ Lines <= nums_array)
               /\ cat'.offset = cat.offset + copied /\ cat'.numbers = cat.numbers + Whole
               /\ cat'.claimed = cat.claimed + cat.length
               /\ cat'.stack = (cat.stack \/ copied > MAX_BUFFER_SIZE)
               /\ cat'.state = IF copied > cat.length THEN "overrun" ELSE "open"
<1>1. cat.state = "open" /\ (ReadEnd \/ ReadFault \/ ReadArray) BY DEF node_read
<1>2. CASE ReadEnd BY <1>1, <1>2 DEF ReadEnd, CatType
<1>3. CASE ReadFault
  <2>1. (Lines <= nums_array) \in BOOLEAN OBVIOUS
  <2> QED BY <1>1, <1>3, <2>1 DEF ReadFault, CatType
<1>4. CASE ReadArray
  <2>1. (Lines <= nums_array) \in BOOLEAN /\ (copied > MAX_BUFFER_SIZE) \in BOOLEAN OBVIOUS
  <2>2. copied \in Nat /\ Whole \in Nat BY LinesType
  <2>3. cat.length \in Nat BY LengthType
  <2>4. /\ cat.offset + copied \in Nat /\ cat.numbers + Whole \in Nat
        /\ cat.claimed + cat.length \in Nat
    BY <2>2, <2>3 DEF CatType
  <2>5. cat.reads + 1 \in 0 .. READS BY <1>4, DeviceAssumption DEF ReadArray, CatType
  <2> QED BY <1>1, <1>4, <2>1, <2>4, <2>5 DEF ReadArray, CatType
<1> QED BY <1>1, <1>2, <1>3, <1>4

(* A reader changes nothing but its own state.                             *)
LEMMA ReadStep == ArrayInv /\ (OpenCat \/ node_read) => ArrayInv'
<1> SUFFICES ASSUME ArrayInv, OpenCat \/ node_read PROVE ArrayInv' OBVIOUS
<1>1. cat \in CatType /\ amount \in Int BY AmountsInt DEF ArrayInv, TypeOK
<1>2. cat' \in CatType
  <2>1. CASE OpenCat
    <3>1. PICK l \in Lengths :
            cat' = [state |-> "open", length |-> l, offset |-> 0, reads |-> 0, numbers |-> 0,
                    claimed |-> 0, stack |-> FALSE, steady |-> TRUE, inside |-> TRUE]
      BY <2>1 DEF OpenCat, CatClosed
    <3> QED BY <3>1, DeviceAssumption DEF CatType
  <2>2. CASE node_read BY <1>1, <2>2, ReadResult
  <2> QED BY <2>1, <2>2
<1>3. UNCHANGED <<phase, amount, nums_array, heap, current, thread, leaked, w_buffer, wpc, early>>
  BY DEF OpenCat, node_read
<1> QED
  <2>1. TypeOK' BY <1>2, <1>3 DEF ArrayInv, TypeOK
  <2> QED BY <1>3, <2>1 DEF ArrayInv, HeapBalance, LeakMeansNoArray, ArrayKnown, GeneratesInside, Blocks

LEMMA ArrayStep == ArrayInv /\ [Next]_vars => ArrayInv'
<1> SUFFICES ASSUME ArrayInv, [Next]_vars PROVE ArrayInv' OBVIOUS
<1>1. CASE module_device_init \/ module_device_deinit BY <1>1, ModuleStep
<1>2. CASE thread_func BY <1>2, ThreadStep
<1>3. CASE OpenCat \/ node_read BY <1>3, ReadStep
<1>4. CASE \E w \in Writers : node_write(w) BY <1>4, WriteStep
<1>5. CASE UNCHANGED vars
  BY <1>5 DEF vars, ArrayInv, TypeOK, HeapBalance, LeakMeansNoArray, ArrayKnown,
              GeneratesInside, Blocks
<1> QED BY <1>1, <1>2, <1>3, <1>4, <1>5 DEF Next, Stopped

(* While the node is there the array is, or the mutex is lost.             *)
LEMMA LivesStep == ArrayInv /\ ArrayLives /\ [Next]_vars => ArrayLives'
<1> USE DEF ArrayLives
<1> SUFFICES ASSUME ArrayInv, ArrayLives, [Next]_vars PROVE ArrayLives' OBVIOUS
<1>t. amount \in Amounts /\ leaked \in BOOLEAN BY DEF ArrayInv, TypeOK
<1>c. cat.state \in {"closed", "open", "eof", "failed", "overrun"} /\ cat \in CatType
  BY DEF ArrayInv, TypeOK, CatType
<1>k. /\ phase \in {"new", "device", "array", "failed"} => thread = "none"
      /\ leaked => nums_array = NULL /\ thread = "done"
  BY DEF ArrayInv, ArrayKnown, LeakMeansNoArray
<1>1. CASE create_device BY <1>1, <1>k, <1>c DEF create_device
<1>2. CASE AllocateArray
  <2>1. PICK ok \in BOOLEAN : KmallocArray(ok) /\ phase' = IF ok THEN "array" ELSE "failed"
    BY <1>2 DEF AllocateArray
  <2>2. /\ ok => nums_array' = amount /\ amount >= 0
        /\ ~ok => nums_array' = NULL
        /\ ok <=> nums_array' # NULL
    BY <1>t, <2>1, KmallocResult
  <2> QED BY <1>2, <2>1, <2>2, <1>c DEF AllocateArray
<1>3. CASE StartThread BY <1>3, <1>c DEF StartThread, Running
<1>4. CASE BeginUnload BY <1>4, <1>c DEF BeginUnload
<1>5. CASE FinishUnload BY <1>5, <1>c DEF FinishUnload
<1>6. CASE ThreadStart \/ ThreadCheck \/ Regenerate
  BY <1>6 DEF ThreadStart, ThreadCheck, Regenerate, Running
<1>7. CASE Reallocate
  <2>1. PICK ok \in BOOLEAN : /\ KmallocArray(ok)
                              /\ thread' = IF ok THEN "check" ELSE "done"
                              /\ leaked' = ~ok
    BY <1>7 DEF Reallocate
  <2>2. /\ ok => nums_array' = amount /\ amount >= 0
        /\ ~ok => nums_array' = NULL
        /\ ok <=> nums_array' # NULL
    BY <1>t, <2>1, KmallocResult
  <2>3. leaked' \/ (nums_array' # NULL /\ thread' = "check")
    <3>1. CASE ok BY <2>1, <2>2, <3>1
    <3>2. CASE ~ok BY <2>1, <3>2, Zenon
    <3> QED BY <3>1, <3>2
  <2>4. nums_array' = NULL \/ nums_array' >= 0 BY <2>2
  <2>5. phase' = phase /\ cat' = cat BY <1>7 DEF Reallocate
  <2> QED BY <2>3, <2>4, <2>5 DEF Running
<1>8. ASSUME NEW w \in Writers, node_write(w) PROVE ArrayLives'
  <2>1. cat'.state = cat.state BY <1>8, <1>c DEF CatType, node_write, CopyText, SetAmount
  <2> QED BY <1>8, <2>1 DEF node_write, CopyText, SetAmount
<1>9. CASE OpenCat BY <1>9 DEF OpenCat, CatClosed
<1>10. CASE node_read
  <2>1. cat.state = "open" /\ cat'.state # "closed"
    BY <1>10, <1>t, <1>c, AmountsInt, ReadResult
  <2> QED BY <1>10, <2>1 DEF node_read
<1>11. CASE UNCHANGED vars BY <1>11 DEF vars
<1> QED BY <1>1, <1>2, <1>3, <1>4, <1>5, <1>6, <1>7, <1>8, <1>9, <1>10, <1>11
        DEF Next, Stopped, module_device_init, module_device_deinit, thread_func

LEMMA QuotientHolds ==
  ASSUME NEW a \in Nat, NEW b \in Nat, b > 0, NEW n \in Nat, n * b <= a
  PROVE  n <= a \div b
OBVIOUS

(* A read prints no more than the amount, and all of it, the last newline  *)
(* included, if that leaves room for the NUL.                              *)
LEMMA LinesFit ==
  ASSUME amount \in Int
  PROVE  /\ Lines <= amount \/ Lines = 0
         /\ amount < 0 => Lines = 0
         /\ amount >= 0 /\ amount * Width < MAX_BUFFER_SIZE => Lines = amount /\ Whole = amount
<1> DEFINE top  == MAX_BUFFER_SIZE + Width - 1
           room == top \div Width
           low  == MAX_BUFFER_SIZE - 1
           fit  == low \div Width
<1>1. /\ Width \in Nat /\ Width > 0 /\ top \in Nat /\ room \in Nat
      /\ low \in Nat /\ fit \in Nat /\ low <= top
  BY DeviceAssumption DEF MAX_BUFFER_SIZE
<1>2. /\ Lines = IF amount < 0 THEN 0 ELSE IF amount < room THEN amount ELSE room
      /\ Whole = IF Lines < fit THEN Lines ELSE fit
  BY DEF Lines, Whole
<1>3. ASSUME amount >= 0, amount * Width < MAX_BUFFER_SIZE PROVE room >= amount /\ fit >= amount
  <2>1. amount * Width \in Int BY <1>1
  <2>2. amount * Width <= low BY <1>1, <1>3, <2>1 DEF MAX_BUFFER_SIZE
  <2> HIDE DEF top, low
  <2>3. amount * Width <= top BY <1>1, <2>1, <2>2
  <2> QED BY <1>1, <1>3, <2>2, <2>3, QuotientHolds
<1> HIDE DEF room, fit
<1> QED BY <1>1, <1>2, <1>3

(* What is copied is longer than something only if the text of the whole   *)
(* array is.                                                               *)
LEMMA CopiedFits ==
  ASSUME amount \in Int, NEW b \in Nat, copied > b
  PROVE  amount * Width > b
<1>1. Lines \in Nat /\ Width \in Nat /\ copied = Lines * Width
  BY LinesType, DeviceAssumption DEF copied
<1>2. CASE Lines = 0 BY <1>1, <1>2
<1>3. CASE Lines <= amount
  <2>1. amount - Lines \in Nat BY <1>1, <1>3
  <2>2. (amount - Lines) * Width \in Nat BY <1>1, <2>1
  <2>3. amount * Width = Lines * Width + (amount - Lines) * Width BY <1>1
  <2> QED BY <1>1, <2>2, <2>3
<1> QED BY <1>2, <1>3, LinesFit

(* The offset of a cat that has read all is the end.                       *)
LEMMA AllIsEnd ==
  ASSUME amount \in Int, amount >= 0, SizeofInt <= Width
  PROVE  amount * Width >= amount * SizeofInt
<1>1. Width - 4 \in Nat /\ Width \in Nat BY DeviceAssumption DEF SizeofInt
<1>2. amount * Width = amount * 4 + amount * (Width - 4) BY <1>1
<1>3. amount * (Width - 4) \in Nat BY <1>1
<1> QED BY <1>2, <1>3 DEF SizeofInt

(* Nobody but cat itself and the writers touch what cat has read.          *)
LEMMA CountsStep == ArrayInv /\ ArrayLives /\ CatCounts /\ [Next]_vars => CatCounts'
<1> SUFFICES ASSUME ArrayInv, ArrayLives, CatCounts, [Next]_vars PROVE CatCounts' OBVIOUS
<1>t. amount \in Int /\ nums_array \in Int
  <2>1. amount \in Amounts /\ nums_array \in {NULL} \cup Amounts BY DEF ArrayInv, TypeOK
  <2> QED BY <2>1, AmountsInt DEF NULL
<1>c. cat \in CatType BY DEF ArrayInv, TypeOK
<1>u. ASSUME UNCHANGED <<amount, cat>>, cat.state = "eof" /\ nums_array' # NULL => nums_array # NULL
      PROVE  CatCounts'
  BY <1>u DEF CatCounts, ReadNothing, ReadAllAtOnce
<1>1. CASE AllocateArray BY <1>1, <1>u DEF AllocateArray, ArrayLives
<1>2. CASE Reallocate
  <2>1. cat.state = "eof" => nums_array # NULL BY <1>2 DEF Reallocate, ArrayLives
  <2> QED BY <1>2, <2>1, <1>u DEF Reallocate
<1>3. CASE \/ create_device \/ StartThread \/ module_device_deinit
          \/ ThreadStart \/ ThreadCheck \/ Regenerate \/ UNCHANGED vars
  BY <1>3, <1>u DEF create_device, StartThread, module_device_deinit, BeginUnload, FinishUnload,
                    ThreadStart, ThreadCheck, Regenerate, vars
<1>4. ASSUME NEW w \in Writers, node_write(w) PROVE CatCounts'
  <2>1. CASE CopyText(w) BY <2>1, <1>u DEF CopyText
  <2>2. CASE SetAmount(w)
    <3>1. cat'.steady = FALSE BY <2>2, <1>c DEF SetAmount, CatType
    <3> QED BY <3>1 DEF CatCounts
  <2> QED BY <1>4, <2>1, <2>2 DEF node_write
<1>5. CASE OpenCat
  <2>1. /\ cat'.offset = 0 /\ cat'.numbers = 0 /\ cat'.claimed = 0
        /\ cat'.state = "open" /\ ~cat'.stack
    BY <1>5 DEF OpenCat, CatClosed
  <2> QED BY <2>1 DEF CatCounts, ReadNothing
<1>6. CASE node_read
  <2>1. UNCHANGED <<amount, nums_array>> BY <1>6 DEF node_read
  <2>2. cat'.steady = cat.steady /\ cat'.length = cat.length /\ cat.state = "open"
    BY <1>6, <1>t, <1>c, ReadResult
  <2>3. CASE cat'.offset = cat.offset /\ cat'.numbers = cat.numbers
             /\ cat'.claimed = cat.claimed /\ cat'.stack = cat.stack
             /\ (cat'.state = "failed" \/ (cat'.state = "eof" /\ AtEnd))
    BY <2>1, <2>2, <2>3 DEF CatCounts, ReadNothing, ReadAllAtOnce, AtEnd
  <2>4. CASE /\ ~AtEnd
             /\ cat'.offset = cat.offset + copied /\ cat'.numbers = cat.numbers + Whole
             /\ cat'.claimed = cat.claimed + cat.length
             /\ cat'.stack = (cat.stack \/ copied > MAX_BUFFER_SIZE)
             /\ cat'.state = IF copied > cat.length THEN "overrun" ELSE "open"
    <3>1. ASSUME cat.steady, amount >= 0, amount * Width < MAX_BUFFER_SIZE, SizeofInt <= Width
          PROVE  ReadAllAtOnce'
      <4>1. ~(cat.offset >= amount * SizeofInt) BY <3>1, <2>4 DEF AtEnd
      <4>2. cat.offset # amount * Width BY <1>t, <3>1, <4>1, AllIsEnd
      <4>3. cat.offset = 0 /\ cat.numbers = 0 /\ cat.claimed = 0
        BY <3>1, <4>2 DEF CatCounts, ReadNothing, ReadAllAtOnce
      <4>4. Lines = amount /\ Whole = amount BY <1>t, <3>1, LinesFit
      <4>5. amount * Width \in Int /\ copied = amount * Width
        BY <1>t, <4>4, DeviceAssumption DEF copied
      <4>6. amount > 0 BY <1>t, <3>1, <4>1, <4>3 DEF SizeofInt
      <4>7. cat.length \in Nat BY <1>c, LengthType
      <4>8. cat'.offset = amount * Width /\ cat'.numbers = amount /\ cat'.claimed = cat.length
        BY <1>t, <2>4, <4>3, <4>4, <4>5, <4>7
      <4> QED BY <2>1, <2>2, <4>6, <4>8 DEF ReadAllAtOnce
    <3>2. copied > MAX_BUFFER_SIZE => amount * Width > MAX_BUFFER_SIZE
      BY <1>t, CopiedFits DEF MAX_BUFFER_SIZE
    <3>3. copied > cat.length => amount * Width > cat.length
      <4>1. cat.length \in Nat BY <1>c, LengthType
      <4> QED BY <1>t, <4>1, CopiedFits
    <3>4. cat.steady /\ cat'.stack => amount * Width > MAX_BUFFER_SIZE
      BY <2>4, <3>2 DEF CatCounts
    <3> QED BY <2>1, <2>2, <2>4, <3>1, <3>3, <3>4 DEF CatCounts
  <2>5. \/ /\ cat'.offset = cat.offset /\ cat'.numbers = cat.numbers
           /\ cat'.claimed = cat.claimed /\ cat'.stack = cat.stack
           /\ (cat'.state = "failed" \/ (cat'.state = "eof" /\ AtEnd))
        \/ /\ ~AtEnd
           /\ cat'.offset = cat.offset + copied /\ cat'.numbers = cat.numbers + Whole
           /\ cat'.claimed = cat.claimed + cat.length
           /\ cat'.stack = (cat.stack \/ copied > MAX_BUFFER_SIZE)
           /\ cat'.state = IF copied > cat.length THEN "overrun" ELSE "open"
    BY <1>6, <1>t, <1>c, ReadResult, Zenon
  <2> QED BY <2>3, <2>4, <2>5
<1> QED BY <1>1, <1>2, <1>3, <1>4, <1>5, <1>6 DEF Next, Stopped, module_device_init, thread_func

LEMMA CatStarts == Init => ArrayLives /\ CatCounts
<1> SUFFICES ASSUME Init PROVE ArrayLives /\ CatCounts OBVIOUS
<1>1. /\ cat.state = "closed" /\ cat.offset = 0 /\ cat.numbers = 0
      /\ cat.claimed = 0 /\ ~cat.stack
  BY DEF Init, CatClosed
<1>2. phase = "new" /\ nums_array = NULL BY DEF Init
<1> QED BY <1>1, <1>2 DEF ArrayLives, CatCounts, ReadNothing

(* The array is allocated and freed in balance, and, unless a write came   *)
(* before the thread took the amount over, never too small for the numbers *)
(* generated; a cat has read all numbers or none: for all writers, all     *)
(* numbers, and whenever kmalloc fails.                                    *)
THEOREM DeviceInvariant == Spec => []IInv
<1>1. IInv /\ [Next]_vars => IInv' BY ArrayStep, LivesStep, CountsStep DEF IInv
<1>2. Init => IInv BY InitInv, CatStarts DEF IInv
<1> QED BY <1>1, <1>2, PTL DEF Spec

(* No array is freed twice or left behind by rmmod.                        *)
THEOREM HeapBalanced == Spec => []HeapBalance
<1>1. IInv => HeapBalance BY DEF IInv, ArrayInv
<1> QED BY <1>1, DeviceInvariant, PTL

(* The thread never writes behind its array, unless a write came early.    *)
THEOREM ThreadStaysInside == Spec => []GeneratesInside
<1>1. IInv => GeneratesInside BY DEF IInv, ArrayInv
<1> QED BY <1>1, DeviceInvariant, PTL

(* A cat that nobody writes against is given every number once, in one     *)
(* read that claims to have filled all it asked for, if they fit into one  *)
(* read and none is shorter as text than as a number; it is given what     *)
(* lies behind tmp_buffer, or more than it asked for, only when the text   *)
(* of the array is longer than the one or the other.                       *)
THEOREM CatShowsAll == Spec => []CatShowsArray
<1>1. IInv => CatShowsArray
  <2> SUFFICES ASSUME IInv, cat.steady, nums_array # NULL PROVE CatShowsArray
    BY DEF CatShowsArray
  <2>1. amount \in Int BY AmountsInt DEF IInv, ArrayInv, TypeOK
  <2>2. ASSUME cat.state = "eof", amount * Width < MAX_BUFFER_SIZE, SizeofInt <= Width
        PROVE  cat.numbers = amount /\ cat.claimed = (IF amount = 0 THEN 0 ELSE cat.length)
    <3>1. amount >= 0 /\ cat.offset >= amount * SizeofInt BY <2>2 DEF IInv, CatCounts
    <3>2. ReadNothing \/ ReadAllAtOnce BY <2>2, <3>1 DEF IInv, CatCounts
    <3>3. ReadNothing => amount = 0 BY <2>1, <3>1 DEF SizeofInt, ReadNothing
    <3> QED BY <2>1, <3>2, <3>3 DEF ReadNothing, ReadAllAtOnce
  <2> QED BY <2>2 DEF CatShowsArray, IInv, CatCounts
<1> QED BY <1>1, DeviceInvariant, PTL

(* What lies behind the array is shown only between a write and the        *)
(* reallocation that follows it, unless the write came early.              *)
THEOREM OutsideShows == Spec => OutsideOnlyInWindow
<1> DEFINE Window == early \/ (thread \in {"check", "sleep"} /\ current # amount)
<1>1. ASSUME IInv, [Next]_vars
      PROVE  [cat.inside /\ ~cat.inside' => Window]_vars
  <2> SUFFICES ASSUME cat.inside, ~cat.inside', Next, ~Window PROVE FALSE
    BY <1>1 DEF vars
  <2>t. amount \in Int /\ nums_array \in Int
    <3>1. amount \in Amounts /\ nums_array \in {NULL} \cup Amounts BY <1>1 DEF IInv, ArrayInv, TypeOK
    <3> QED BY <3>1, AmountsInt DEF NULL
  <2>c. cat \in CatType BY <1>1 DEF IInv, ArrayInv, TypeOK
  <2>1. node_read
    <3>1. \A w \in Writers : ~ SetAmount(w) BY <2>c DEF SetAmount, CatType
    <3>2. ~ OpenCat BY DEF OpenCat, CatClosed
    <3> QED BY <3>1, <3>2 DEF Next, Stopped, module_device_init, create_device, AllocateArray,
            StartThread, module_device_deinit, BeginUnload, FinishUnload, thread_func,
            ThreadStart, ThreadCheck, Regenerate, Reallocate, node_write, CopyText, vars
  <2>2. ~AtEnd /\ ~(Lines <= nums_array) BY <2>1, <2>t, <2>c, ReadResult
  <2>3. nums_array # NULL /\ nums_array >= 0 BY <1>1, <2>2 DEF AtEnd, IInv, ArrayLives
  <2>4. thread \in Running BY <1>1, <2>1 DEF node_read, IInv, ArrayLives
  <2>5. nums_array = amount BY <1>1, <2>4 DEF IInv, ArrayInv, ArrayKnown, Running
  <2> QED BY <2>t, <2>2, <2>3, <2>5, LinesFit
<1> QED BY <1>1, DeviceInvariant, PTL DEF Spec, OutsideOnlyInWindow
===============================================================================
