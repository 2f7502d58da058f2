------------------------------ MODULE MC_Sockets ------------------------------
(***************************************************************************)
(* The chats over TCP for the model checker.  The clients are alike, and   *)
(* only invariants are checked.                                            *)
(***************************************************************************)
EXTENDS ChatPrograms, TLC

Alike == Permutations(Clients)
===============================================================================
