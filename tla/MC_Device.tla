------------------------------ MODULE MC_Device -------------------------------
(***************************************************************************)
(* Values for the model checker: one that no kmalloc takes (-1), the one   *)
(* there is already (5), and one that takes two reads (600).  A reader     *)
(* asks for less than the text of 60 numbers, or as cat does for 128 KiB.  *)
(***************************************************************************)
EXTENDS ModuleDevice

SomeValues == {-1, 5, 600}       \* 600 without its newline reads as 60
SomeLengths == {100, 131072}
===============================================================================
