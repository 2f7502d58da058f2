----------------------------- MODULE ModuleDevice -----------------------------
(***************************************************************************)
(* homework9: the kernel module module_device, whose thread fills          *)
(* nums_array with rand_nums_amount numbers, the writers that change the   *)
(* amount, and a reader (cat) of module_interface, which prints the array. *)
(*                                                                         *)
(* Code between mutex_lock and mutex_unlock of rand_nums_amount_mutex is   *)
(* one action: whoever else touches this data holds the mutex too, but for *)
(* module_device_init and the first line of thread_func, which are steps   *)
(* of their own.  The variable leaked tells that the mutex is never        *)
(* unlocked again.                                                         *)
(***************************************************************************)
EXTENDS Integers

CONSTANTS Writers,      \* tasks that write to /dev/module-device
          Values,       \* the numbers they write
          Width,        \* bytes of one printed number, newline included
          Lengths,      \* bytes a reader may ask for in each read()
          READS         \* bound: calls of read() by cat but for the last

MAX_BUFFER_SIZE == 2040
SizeofInt       == 4
KmallocMax      == 4194304

ASSUME DeviceAssumption == /\ Values \subseteq Int
                           /\ \A v \in Values : v > -10     \* so Text need not shorten "-12"
                           /\ Width \in Nat \ {0}
                           /\ Lengths \subseteq Nat \ {0}
                           /\ READS \in Nat

VARIABLES phase,        \* progress of module_device_init and _deinit
          amount,       \* rand_nums_amount
          nums_array,   \* entries nums_array has room for, or NULL
          heap,         \* arrays allocated and not freed
          current,      \* rand_nums_amount_current
          thread,       \* where thread_func is
          leaked,       \* thread_func has exited with the mutex locked
          w_buffer,     \* the text in w_buffer: the number it stands for, if any
          wpc,          \* where each writer is in node_write
          cat,          \* the reader: its state, file offset and output
          early         \* history: the amount was set after the first kmalloc
                        \* and before the thread took it over

vars == <<phase, amount, nums_array, heap, current, thread, leaked, w_buffer, wpc, cat, early>>

NULL     == -1          \* no array; a room is never negative
Number(v) == [ok |-> TRUE, n |-> v]
BadText   == [ok |-> FALSE, n |-> 0]    \* kstrtol fails on it
Phases   == {"new", "device", "array", "loaded", "failed", "unloading", "unloaded"}

(* What a reader, cat, knows and has been given.                           *)
CatType == [state: {"closed", "open", "eof", "failed", "overrun"},
            length: Lengths \cup {0},  \* bytes it asks for in each read()
            offset: Nat,               \* its file offset
            reads: 0 .. READS,         \* calls that gave it something
            numbers: Nat,              \* numbers copied to it, each with its newline
            claimed: Nat,              \* bytes that read() has told it were copied
            stack: BOOLEAN,            \* it was given what lies behind tmp_buffer
            steady: BOOLEAN,           \* nobody has written the amount since open()
            inside: BOOLEAN]           \* only the array itself was read for it

Amounts == Values \cup {v \div 10 : v \in {u \in Values : u >= 10}} \cup {5}

TypeOK == /\ phase \in Phases
          /\ amount \in Amounts
          /\ nums_array \in {NULL} \cup Amounts
          /\ heap \in Int
          /\ current \in Amounts \cup {0}
          /\ thread \in {"none", "created", "check", "sleep", "done"}
          /\ leaked \in BOOLEAN
          /\ w_buffer \in {BadText} \cup {Number(v) : v \in Amounts}
          /\ wpc \in [Writers -> {"idle", "copied"}]
          /\ cat \in CatType
          /\ early \in BOOLEAN

CatClosed == [state |-> "closed", length |-> 0, offset |-> 0, reads |-> 0, numbers |-> 0,
              claimed |-> 0, stack |-> FALSE, steady |-> TRUE, inside |-> TRUE]

Init == /\ phase = "new"
        /\ amount = 5
        /\ nums_array = NULL
        /\ heap = 0
        /\ current = 0
        /\ thread = "none"
        /\ leaked = FALSE
        /\ w_buffer = BadText
        /\ wpc = [w \in Writers |-> "idle"]
        /\ cat = CatClosed
        /\ early = FALSE

(* kmalloc(sizeof(int) * n): n < 0 wraps to a size no kmalloc has, and n = *)
(* 0 gives a pointer that is not NULL but has no room.  Any kmalloc may    *)
(* fail for lack of memory.                                                *)
Allocatable(n) == n >= 0 /\ n * SizeofInt <= KmallocMax

KmallocArray(ok) == /\ ok => Allocatable(amount)
                    /\ nums_array' = IF ok THEN amount ELSE NULL

Blocks(a) == IF a = NULL THEN 0 ELSE 1      \* what kfree(a) frees

-------------------------------------------------------------------------------
(* module_device_init                                                      *)

create_device == /\ phase = "new"
                 /\ phase' = "device"
                 /\ UNCHANGED <<amount, nums_array, heap, current, thread, leaked,
                                w_buffer, wpc, cat, early>>

(* A failed allocation leaves the node registered and the module gone.     *)
AllocateArray == /\ phase = "device"
                 /\ \E ok \in BOOLEAN : /\ KmallocArray(ok)
                                        /\ phase' = IF ok THEN "array" ELSE "failed"
                 /\ heap' = heap + Blocks(nums_array')
                 /\ UNCHANGED <<amount, current, thread, leaked, w_buffer, wpc, cat, early>>

StartThread == /\ phase = "array"
               /\ phase' = "loaded"
               /\ thread' = "created"
               /\ UNCHANGED <<amount, nums_array, heap, current, leaked, w_buffer, wpc, cat, early>>

module_device_init == create_device \/ AllocateArray \/ StartThread

(* rmmod: nobody has a node open, and the interface is gone.               *)
BeginUnload == /\ phase = "loaded"
               /\ \A w \in Writers : wpc[w] = "idle"
               /\ cat.state # "open"
               /\ phase' = "unloading"
               /\ UNCHANGED <<amount, nums_array, heap, current, thread, leaked,
                              w_buffer, wpc, cat, early>>

FinishUnload == /\ phase = "unloading"
                /\ thread = "done"
                /\ phase' = "unloaded"
                /\ heap' = heap - Blocks(nums_array)
                /\ UNCHANGED <<amount, nums_array, current, thread, leaked, w_buffer, wpc, cat, early>>

module_device_deinit == BeginUnload \/ FinishUnload

-------------------------------------------------------------------------------
(* thread_func; kthread_stop has been called in phase "unloading"          *)

(* rand_nums_amount_current = rand_nums_amount, without the mutex; a       *)
(* thread stopped before it runs does not call thread_func                 *)
ThreadStart == /\ thread = "created"
               /\ IF phase = "unloading"
                  THEN thread' = "done" /\ UNCHANGED current
                  ELSE thread' = "check" /\ current' = amount
               /\ UNCHANGED <<phase, amount, nums_array, heap, leaked, w_buffer, wpc, cat, early>>

ThreadCheck == /\ thread = "check"
               /\ thread' = IF phase = "unloading" THEN "done" ELSE "sleep"
               /\ UNCHANGED <<phase, amount, nums_array, heap, current, leaked,
                              w_buffer, wpc, cat, early>>

(* A broken Regenerate: it does not look whether the amount has changed.   *)
RegenerateAlways == /\ thread = "sleep" /\ ~leaked
                    /\ thread' = "check"
                    /\ UNCHANGED <<phase, amount, nums_array, heap, current, leaked,
                                   w_buffer, wpc, cat, early>>

(* The amount has not changed: generate into the array there is.           *)
Regenerate == /\ thread = "sleep" /\ ~leaked
              /\ current = amount
              /\ thread' = "check"
              /\ UNCHANGED <<phase, amount, nums_array, heap, current, leaked,
                             w_buffer, wpc, cat, early>>

(* Two broken Reallocates: one keeps the old array, one keeps the pointer  *)
(* to it when there is no new one.                                         *)
KeepArray == /\ thread = "sleep" /\ ~leaked
             /\ current # amount
             /\ current' = amount
             /\ thread' = "check"
             /\ UNCHANGED <<phase, amount, nums_array, heap, leaked, w_buffer, wpc, cat, early>>

DangleArray == /\ thread = "sleep" /\ ~leaked
               /\ current # amount
               /\ current' = amount
               /\ \E ok \in BOOLEAN : /\ ok => Allocatable(amount)
                                      /\ nums_array' = IF ok THEN amount ELSE nums_array
                                      /\ thread' = IF ok THEN "check" ELSE "done"
                                      /\ leaked' = ~ok
                                      /\ heap' = IF ok THEN heap ELSE heap - 1
               /\ UNCHANGED <<phase, amount, w_buffer, wpc, cat, early>>

(* The amount has changed: replace the array.  When that fails the loop is *)
(* left without mutex_unlock.                                              *)
Reallocate == /\ thread = "sleep" /\ ~leaked
              /\ current # amount
              /\ current' = amount
              /\ \E ok \in BOOLEAN : /\ KmallocArray(ok)
                                     /\ thread' = IF ok THEN "check" ELSE "done"
                                     /\ leaked' = ~ok
              /\ heap' = heap - Blocks(nums_array) + Blocks(nums_array')
              /\ UNCHANGED <<phase, amount, w_buffer, wpc, cat, early>>

thread_func == ThreadStart \/ ThreadCheck \/ Regenerate \/ Reallocate

-------------------------------------------------------------------------------
(* node_write of the device                                                *)

(* The last byte of the text is overwritten: a newline, or a digit.        *)
Text(v, newline) == IF newline THEN Number(v)
                    ELSE IF v >= 10 THEN Number(v \div 10) ELSE BadText

CopyText(w) == /\ wpc[w] = "idle"
               /\ phase \in {"device", "array", "loaded"}
               /\ \E v \in Values, newline \in BOOLEAN : w_buffer' = Text(v, newline)
               /\ wpc' = [wpc EXCEPT ![w] = "copied"]
               /\ UNCHANGED <<phase, amount, nums_array, heap, current, thread, leaked, cat, early>>

(* kstrtol stores the number in rand_nums_amount, and then it is checked.  *)
SetAmount(w) == /\ wpc[w] = "copied"
                /\ ~leaked
                /\ wpc' = [wpc EXCEPT ![w] = "idle"]
                /\ amount' = IF w_buffer.ok THEN w_buffer.n ELSE amount
                /\ early' = (early \/ (w_buffer.ok /\ phase # "device" /\ thread \in {"none", "created"}))
                /\ cat' = [cat EXCEPT !.steady = FALSE]
                /\ UNCHANGED <<phase, nums_array, heap, current, thread, leaked, w_buffer>>

node_write(w) == CopyText(w) \/ SetAmount(w)

-------------------------------------------------------------------------------
(* node_read of the interface, called by cat until it returns 0            *)

OpenCat == /\ cat.state = "closed"
           /\ phase = "loaded"
           /\ \E l \in Lengths : cat' = [CatClosed EXCEPT !.state = "open", !.length = l]
           /\ UNCHANGED <<phase, amount, nums_array, heap, current, thread, leaked,
                          w_buffer, wpc, early>>

AtEnd == nums_array = NULL \/ (amount >= 0 /\ cat.offset >= amount * SizeofInt)

(* A broken Lines: the loop ends one number too early.                     *)
LinesButOne == IF amount <= 0 THEN 0
               ELSE LET room == (MAX_BUFFER_SIZE + Width - 1) \div Width
                    IN  IF amount - 1 < room THEN amount - 1 ELSE room

(* Numbers printed by one read: the loop stops after the one that fills    *)
(* tmp_buffer, and every read begins with the first.                       *)
Lines == LET room == (MAX_BUFFER_SIZE + Width - 1) \div Width
         IN  IF amount < 0 THEN 0 ELSE IF amount < room THEN amount ELSE room

copied == Lines * Width

(* Of those, the ones that snprintf has not cut off at the end of          *)
(* tmp_buffer, where its NUL goes.                                         *)
Whole == LET room == (MAX_BUFFER_SIZE - 1) \div Width
         IN  IF Lines < room THEN Lines ELSE room

ReadEnd == /\ AtEnd
           /\ cat' = [cat EXCEPT !.state = "eof"]

(* copy_to_user fails: the reader's buffer is not there, or the kernel     *)
(* refuses to copy more than tmp_buffer holds.                             *)
ReadFault == /\ ~AtEnd /\ copied > 0 /\ cat.reads < READS
             /\ cat' = [cat EXCEPT !.state  = "failed",
                                   !.inside = @ /\ Lines <= nums_array]

(* The text is copied, whatever was asked for: behind tmp_buffer, if its   *)
(* last number is cut off, and behind the reader's buffer, if that is the  *)
(* shorter one.  Returned is what was asked for, even if there was nothing *)
(* to copy.                                                                *)
ReadArray == /\ ~AtEnd /\ cat.reads < READS
             /\ cat' = [cat EXCEPT !.offset  = @ + copied,
                                   !.numbers = @ + Whole,
                                   !.claimed = @ + cat.length,
                                   !.reads   = @ + 1,
                                   !.stack   = @ \/ copied > MAX_BUFFER_SIZE,
                                   !.state   = IF copied > cat.length THEN "overrun" ELSE @,
                                   !.inside  = @ /\ Lines <= nums_array]

node_read == /\ cat.state = "open"
             /\ ~leaked
             /\ ReadEnd \/ ReadFault \/ ReadArray
             /\ UNCHANGED <<phase, amount, nums_array, heap, current, thread, leaked,
                            w_buffer, wpc, early>>

(* The module is gone, or everybody waits for a mutex that stays locked.   *)
Stopped == /\ \/ phase \in {"unloaded", "failed"}
              \/ leaked
           /\ UNCHANGED vars

Next == \/ module_device_init \/ module_device_deinit \/ thread_func
        \/ OpenCat \/ node_read \/ Stopped
        \/ \E w \in Writers : node_write(w)

(* insmod, the thread and calls once begun go on; mutex_lock is granted in *)
(* the order of the calls.                                                 *)
Fairness == /\ WF_vars(module_device_init)
            /\ WF_vars(FinishUnload)
            /\ WF_vars(thread_func)
            /\ \A w \in Writers : WF_vars(SetAmount(w))
            /\ WF_vars(node_read)

Spec == Init /\ [][Next]_vars /\ Fairness

-------------------------------------------------------------------------------
(* Every array is freed once: there is at most one, it is the one that     *)
(* nums_array points to, and none is left when the module is unloaded.     *)
HeapBalance == heap = IF phase = "unloaded" THEN 0 ELSE Blocks(nums_array)

(* The mutex stays locked only after an allocation has failed, and then    *)
(* neither a stale array nor the thread is left.                           *)
LeakMeansNoArray == leaked => nums_array = NULL /\ thread = "done"

(* "Initially allocate memory for an array of numbers"; the thread never   *)
(* writes more numbers than the array has room for, unless a write came    *)
(* between that allocation and the thread's first look at the amount.      *)
GeneratesInside == ~early /\ thread = "sleep" /\ ~leaked /\ current = amount
                     => amount <= nums_array

(* A reader is shown what lies behind the array only between a write and   *)
(* the reallocation that follows it.                                       *)
OutsideOnlyInWindow ==
  [][cat.inside /\ ~cat.inside' => early \/ (thread \in {"check", "sleep"} /\ current # amount)]_vars

(* A cat that nobody writes against is given every number once and is told *)
(* that this fills all it has asked for, so that it prints as many bytes,  *)
(* the rest of its buffer after the numbers.  This is so if all numbers    *)
(* fit into one tmp_buffer, for every read begins with the first again,    *)
(* and if no text is shorter than the number it stands for, for the offset *)
(* counts text and the end is counted in numbers.  What lies behind        *)
(* tmp_buffer is copied, and copied to what lies behind the reader's       *)
(* buffer, only when the text is longer than the one or the other.         *)
CatShowsArray ==
  cat.steady /\ nums_array # NULL =>
    /\ cat.state = "eof" /\ amount * Width < MAX_BUFFER_SIZE /\ SizeofInt <= Width =>
         cat.numbers = amount /\ cat.claimed = (IF amount = 0 THEN 0 ELSE cat.length)
    /\ cat.stack => amount * Width > MAX_BUFFER_SIZE
    /\ cat.state = "overrun" => amount * Width > cat.length

Running == {"created", "check", "sleep"}

(* A write that has begun returns as long as the thread lives: refused or  *)
(* not, it unlocks the mutex.  A change of the amount reaches the array,   *)
(* unless it is changed again, the thread ends, or it came too early.      *)
WritesTakeEffect ==
  /\ \A w \in Writers : wpc[w] = "copied" ~> wpc[w] = "idle" \/ thread = "done"
  /\ \A v \in Amounts : (amount = v /\ thread \in Running /\ ~early)
                           ~> (nums_array = v \/ amount # v \/ thread \notin Running)

-------------------------------------------------------------------------------
(* The inductive invariant: the array has the size the thread knows, from  *)
(* the first allocation on.                                                *)
ArrayKnown == /\ phase \in {"new", "device", "array", "failed"} => thread = "none"
              /\ phase \in {"new", "device", "failed"} => nums_array = NULL
              /\ phase = "unloaded" => thread = "done"
              /\ ~early => /\ phase = "array" \/ thread = "created" => nums_array = amount
                           /\ thread \in {"check", "sleep"} => nums_array = current

ArrayInv == TypeOK /\ HeapBalance /\ LeakMeansNoArray /\ ArrayKnown /\ GeneratesInside

(* While the node is there, so is the array, or else the mutex is lost; a  *)
(* cat keeps the module loaded.                                            *)
ArrayLives == /\ nums_array = NULL \/ nums_array >= 0
              /\ phase \notin {"new", "device", "failed"} /\ nums_array = NULL => leaked
              /\ phase = "loaded" => thread \in Running \/ leaked
              /\ cat.state = "open" => phase = "loaded"
              /\ cat.state # "closed" => phase \notin {"new", "device", "array", "failed"}

(* A cat that nobody writes against has read all in one call or nothing,   *)
(* and is at the end only when it has read all.                            *)
ReadNothing   == cat.offset = 0 /\ cat.numbers = 0 /\ cat.claimed = 0
ReadAllAtOnce == /\ amount > 0
                 /\ cat.offset = amount * Width /\ cat.numbers = amount
                 /\ cat.claimed = cat.length

CatCounts ==
  cat.steady =>
    /\ amount >= 0 /\ amount * Width < MAX_BUFFER_SIZE /\ SizeofInt <= Width =>
         ReadNothing \/ ReadAllAtOnce
    /\ cat.state = "eof" /\ nums_array # NULL => amount >= 0 /\ cat.offset >= amount * SizeofInt
    /\ cat.stack => amount * Width > MAX_BUFFER_SIZE
    /\ cat.state = "overrun" => amount * Width > cat.length

IInv == ArrayInv /\ ArrayLives /\ CatCounts
===============================================================================
