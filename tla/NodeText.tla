-------------------------------- MODULE NodeText -------------------------------
(***************************************************************************)
(* The text of homework6: written through /proc by any number of           *)
(* processes, read through the node by one at a time, nothing locked.      *)
(* And the text of homework12, which node_read makes from irq_counter.     *)
(* Both are read by cat, which reads until it gets 0.                      *)
(*                                                                         *)
(* Characters are numbers: NUL, a digit, a letter.                         *)
(***************************************************************************)
EXTENDS Integers, FiniteSets, FiniteSetsExt, SequencesExt

CONSTANTS Writers,
          BUF_SIZE,
          CHUNK,        \* bound: the length of cat's reads
          WRITES,       \* bound: writes made
          IRQS          \* bound: interrupts

VARIABLES r_buffer, rand_nums_amount,
          writer,       \* where each writer is
          text,         \* what it still has to copy
          p,            \* where to
          ofs,          \* the offset of its file
          writes,       \* writes begun
          refused,      \* the last write to end was refused
          mixed,        \* two writes overlapped
          cat,          \* where cat is
          want,         \* the characters node_read still has to copy
          at,           \* the offset of its file
          shown,        \* what cat has printed
          meant,        \* what there was to show when it opened the node
          disturbed,    \* r_buffer was written while it had the node open
          irq_counter

text_vars == <<r_buffer, rand_nums_amount, writer, text, p, ofs, writes, refused, mixed, disturbed>>
cat_vars  == <<cat, want, at, shown, meant, irq_counter>>

Nul == 0
Digit == 1
Letter == 2

(* strlen and kstrtol of r_buffer: all characters must be digits           *)
strlen == Min({k \in DOMAIN r_buffer : r_buffer[k] = Nul})
Text == [k \in 1 .. strlen |-> r_buffer[k - 1]]
Number == IF strlen > 0 /\ Letter \notin ToSet(Text) THEN strlen ELSE -1

Init == /\ r_buffer = [k \in 0 .. BUF_SIZE - 1 |-> IF k = 0 THEN Letter ELSE Nul]
        /\ rand_nums_amount = 0
        /\ writer = [w \in Writers |-> "idle"] /\ text = [w \in Writers |-> <<>>]
        /\ p = [w \in Writers |-> 0] /\ ofs = [w \in Writers |-> 0]
        /\ writes = 0 /\ refused = TRUE /\ mixed = FALSE
        /\ cat = "open" /\ want = 0 /\ at = 0 /\ shown = <<>> /\ meant = <<>>
        /\ disturbed = FALSE /\ irq_counter = 0

-------------------------------------------------------------------------------
(* node_write: as much as there is room for                                *)
Write(w) ==
  /\ writer[w] = "idle" /\ writes < WRITES
  /\ \E t \in BoundedSeq({Digit, Letter}, BUF_SIZE) :
       IF ofs[w] >= BUF_SIZE - 1
       THEN UNCHANGED <<writer, text, p, mixed>>
       ELSE /\ writer' = [writer EXCEPT ![w] = "copy"]
            /\ text' = [text EXCEPT ![w] = SubSeq(t, 1, Min({Len(t), BUF_SIZE - 1 - ofs[w]}))]
            /\ p' = [p EXCEPT ![w] = ofs[w]]
            /\ mixed' = (mixed \/ \E v \in Writers : writer[v] # "idle")
  /\ writes' = writes + 1
  /\ UNCHANGED <<r_buffer, rand_nums_amount, ofs, refused, disturbed, cat_vars>>

Disturb == disturbed' = (disturbed \/ cat \in {"read", "copy"})

(* get_user of one character                                               *)
GetUser(w) == /\ writer[w] = "copy" /\ text[w] # <<>>
              /\ r_buffer' = [r_buffer EXCEPT ![p[w]] = Head(text[w])]
              /\ text' = [text EXCEPT ![w] = Tail(@)]
              /\ p' = [p EXCEPT ![w] = @ + 1]
              /\ Disturb
              /\ UNCHANGED <<rand_nums_amount, writer, ofs, writes, refused, mixed, cat_vars>>

(* The last character written gives way to the end of the text; of an      *)
(* empty write at the start of the file that is the byte before r_buffer,  *)
(* which is not modelled.                                                  *)
Terminate(w) == /\ writer[w] = "copy" /\ text[w] = <<>>
                /\ writer' = [writer EXCEPT ![w] = "kstrtol"]
                /\ r_buffer' = [k \in DOMAIN r_buffer |-> IF k = p[w] - 1 THEN Nul ELSE r_buffer[k]]
                /\ Disturb
                /\ UNCHANGED <<rand_nums_amount, text, p, ofs, writes, refused, mixed, cat_vars>>

(* kstrtol: a text that is no number stays, but the file does not move on. *)
Refuse(w) == /\ writer[w] = "kstrtol" /\ Number < 0
             /\ writer' = [writer EXCEPT ![w] = "idle"]
             /\ refused' = TRUE
             /\ UNCHANGED <<r_buffer, rand_nums_amount, text, p, ofs, writes, mixed, disturbed, cat_vars>>

(* It reads the number first and stores it then.                           *)
Convert(w) == /\ writer[w] = "kstrtol" /\ Number >= 0
              /\ writer' = [writer EXCEPT ![w] = "store"]
              /\ text' = [text EXCEPT ![w] = <<Number>>]
              /\ UNCHANGED <<r_buffer, rand_nums_amount, p, ofs, writes, refused, mixed, disturbed, cat_vars>>

Store(w) == /\ writer[w] = "store"
            /\ rand_nums_amount' = Head(text[w])
            /\ writer' = [writer EXCEPT ![w] = "idle"] /\ text' = [text EXCEPT ![w] = <<>>]
            /\ ofs' = [ofs EXCEPT ![w] = p[w]]
            /\ refused' = FALSE
            /\ UNCHANGED <<r_buffer, p, writes, mixed, disturbed, cat_vars>>

node_write(w) == Write(w) \/ GetUser(w) \/ Terminate(w) \/ Refuse(w) \/ Convert(w) \/ Store(w)

-------------------------------------------------------------------------------
(* cat of the node of homework6                                            *)
OpenNode == /\ cat = "open"
            /\ cat' = "read" /\ meant' = Text
            /\ UNCHANGED <<want, at, shown, irq_counter, text_vars>>

(* A broken ReadNode: the end of the text is read with it.                 *)
ReadNodeOneMore == /\ cat = "read"
                   /\ IF at >= strlen
                      THEN cat' = "done" /\ UNCHANGED want
                      ELSE cat' = "copy" /\ want' = Min({CHUNK, strlen - at + 1})
                   /\ UNCHANGED <<at, shown, meant, irq_counter, text_vars>>

ReadNode == /\ cat = "read"
            /\ IF at >= strlen
               THEN cat' = "done" /\ UNCHANGED want
               ELSE cat' = "copy" /\ want' = Min({CHUNK, strlen - at})
            /\ UNCHANGED <<at, shown, meant, irq_counter, text_vars>>

(* put_user of one character                                               *)
PutUser == /\ cat = "copy"
           /\ shown' = Append(shown, r_buffer[at])
           /\ at' = at + 1 /\ want' = want - 1
           /\ cat' = IF want = 1 THEN "read" ELSE "copy"
           /\ UNCHANGED <<meant, irq_counter, text_vars>>

(* cat of the node of homework12: the first read makes the text, the next  *)
(* one ends the file.                                                      *)
OpenKeyboard == /\ cat = "open"
                /\ cat' = "keyboard" /\ meant' = <<irq_counter>>
                /\ UNCHANGED <<want, at, shown, irq_counter, text_vars>>

ReadKeyboard == /\ cat = "keyboard"
                /\ IF at = 0 THEN shown' = Append(shown, irq_counter) /\ at' = 1 /\ UNCHANGED cat
                   ELSE cat' = "done" /\ UNCHANGED <<shown, at>>
                /\ UNCHANGED <<want, meant, irq_counter, text_vars>>

kb_int == /\ cat = "keyboard" /\ irq_counter < IRQS
          /\ irq_counter' = irq_counter + 1
          /\ UNCHANGED <<cat, want, at, shown, meant, text_vars>>

node_read == ReadNode \/ PutUser \/ ReadKeyboard

Next == (\E w \in Writers : node_write(w)) \/ OpenNode \/ OpenKeyboard \/ node_read \/ kb_int

-------------------------------------------------------------------------------
(* cat shows the text that was there when it opened the node, once and     *)
(* whole, unless it was written meanwhile; of the keyboard it shows one    *)
(* count, one that was true while it had the node open.                    *)
ShownOnce == cat = "done" => \/ disturbed \/ shown = meant
                             \/ Len(shown) = 1 /\ meant[1] <= shown[1] /\ shown[1] <= irq_counter

(* The text always ends inside r_buffer.  When no write runs, none has     *)
(* overlapped another and the last was accepted, the number stored is the  *)
(* one the text says.                                                      *)
TextKept == /\ r_buffer[BUF_SIZE - 1] = Nul
            /\ (\A w \in Writers : writer[w] = "idle") => mixed \/ refused \/ rand_nums_amount = Number

TypeOK == /\ r_buffer \in [0 .. BUF_SIZE - 1 -> Int]
          /\ writer \in [Writers -> {"idle", "copy", "kstrtol", "store"}]
          /\ text \in [Writers -> Seq(Int)]
          /\ p \in [Writers -> 0 .. BUF_SIZE - 1] /\ ofs \in [Writers -> 0 .. BUF_SIZE - 1]
          /\ mixed \in BOOLEAN /\ refused \in BOOLEAN /\ disturbed \in BOOLEAN
          /\ cat \in {"open", "read", "copy", "keyboard", "done"}
          /\ want \in Nat /\ at \in Nat /\ shown \in Seq(Int) /\ meant \in Seq(Int)
          /\ irq_counter \in Nat

(* The inductive invariant.  No copy goes beyond the buffer.               *)
InBounds == /\ \A w \in Writers : writer[w] = "copy" => p[w] + Len(text[w]) < BUF_SIZE
            /\ cat = "copy" => want > 0 /\ at + want < BUF_SIZE

(* A write alone stores the number it has read.                            *)
OneWriter == mixed \/ \A w \in Writers :
                         /\ writer[w] # "idle" => \A v \in Writers \ {w} : writer[v] = "idle"
                         /\ writer[w] = "store" => text[w] = <<Number>>

(* What cat has shown is the beginning of what it is to show.              *)
Showing == /\ cat = "open" => at = 0 /\ shown = <<>>
           /\ cat \in {"read", "copy"} /\ ~ disturbed =>
                /\ meant = Text /\ at <= strlen /\ (cat = "copy" => at + want <= strlen)
                /\ Len(shown) = at /\ \A i \in 1 .. at : shown[i] = r_buffer[i - 1]
           /\ cat = "keyboard" => /\ Len(meant) = 1 /\ meant[1] <= irq_counter /\ Len(shown) = at /\ at <= 1
                                  /\ at = 1 => meant[1] <= shown[1] /\ shown[1] <= irq_counter

IInv == TypeOK /\ InBounds /\ OneWriter /\ Showing /\ ShownOnce /\ TextKept
===============================================================================
