--------------------------------- MODULE Pipes ---------------------------------
(***************************************************************************)
(* homework5/pipes, three programs with one pipe.  In pipes.c the parent   *)
(* sends a text and its child and grandchild share the reading end; in     *)
(* printns.c the parent reads what its child, netstat, prints; makelog.c   *)
(* reads what the command of popen prints and logs it, too.                *)
(*                                                                         *)
(* Who forgets to close its copy of the writing end never sees the end of  *)
(* the text; a process that writes when nobody holds the reading end is    *)
(* killed by SIGPIPE.                                                      *)
(***************************************************************************)
EXTENDS Integers, FiniteSets

CONSTANT CHUNKS         \* bound: how often the command writes

VARIABLES task,         \* the program: "text", "netstat" or "log"
          ends,         \* the ends of the pipe each process holds
          pipe,         \* texts written and not read yet
          wrote,        \* texts written
          shown,        \* texts each process has printed
          at            \* where each process is

Members == {"parent", "child", "grandchild"}
Having(e) == {p \in Members : e \in ends[p]}
Over == {"absent", "done", "killed", "crashed"}

Init == /\ task \in {"text", "netstat", "log"}
        /\ ends = [p \in Members |-> IF p = "parent" THEN {"r", "w"} ELSE {}]
        /\ pipe = 0 /\ wrote = 0
        /\ shown = [p \in Members |-> 0]
        /\ at = [p \in Members |-> IF p = "parent" THEN "fork" ELSE "absent"]

Goes(p, to)    == at' = [at EXCEPT ![p] = to]
Keeps(p, e)    == ends' = [ends EXCEPT ![p] = @ \cap e]
NothingPassed  == UNCHANGED <<task, pipe, wrote, shown>>

-------------------------------------------------------------------------------
(* fork, or popen, makes a child with the same ends; popen leaves each its *)
(* own.                                                                    *)
Fork == /\ at["parent"] = "fork"
        /\ at' = [at EXCEPT !["parent"] = [text |-> "close_r", netstat |-> "close_w", log |-> "fopen"][task],
                            !["child"]  = [text |-> "fork2", netstat |-> "close_r", log |-> "write"][task]]
        /\ ends' = IF task = "log" THEN [ends EXCEPT !["parent"] = {"r"}, !["child"] = {"w"}]
                   ELSE [ends EXCEPT !["child"] = ends["parent"]]
        /\ NothingPassed

(* fork fails, and the parent takes itself for the child; popen says so.   *)
ForkFails == /\ at["parent"] = "fork"
             /\ Goes("parent", [text |-> "fork2", netstat |-> "close_r", log |-> "done"][task])
             /\ Keeps("parent", IF task = "log" THEN {} ELSE {"r", "w"})
             /\ NothingPassed

(* The second fork of pipes.c makes the grandchild, or fails.              *)
ForkAgain(p) == /\ at[p] = "fork2"
                /\ \/ /\ at' = [at EXCEPT ![p] = "close_w", !["grandchild"] = "close_w"]
                      /\ ends' = [ends EXCEPT !["grandchild"] = ends[p]]
                   \/ Goes(p, "close_w") /\ UNCHANGED ends
                /\ NothingPassed

(* makelog opens its log; without one it crashes when it has something to  *)
(* log, or at the latest when it closes it.                                *)
OpenLog == /\ at["parent"] = "fopen"
           /\ \E to \in {"read", "unlogged"} : Goes("parent", to)
           /\ UNCHANGED ends /\ NothingPassed

Crash == /\ at["parent"] = "unlogged" /\ (pipe > 0 \/ Having("w") = {})
         /\ Goes("parent", "crashed") /\ Keeps("parent", {})
         /\ NothingPassed

CloseRead(p) == /\ at[p] = "close_r"
                /\ Goes(p, "write") /\ Keeps(p, {"w"})
                /\ NothingPassed

(* A broken CloseWrite: the reader keeps its copy of the writing end.      *)
CloseNothing(p) == /\ at[p] = "close_w"
                   /\ Goes(p, "read") /\ UNCHANGED ends
                   /\ NothingPassed

CloseWrite(p) == /\ at[p] = "close_w"
                 /\ Goes(p, "read") /\ Keeps(p, {"r"})
                 /\ NothingPassed

(* The parent of pipes.c writes once, a command as often as it wants.      *)
Write(p) == /\ at[p] = "write" /\ wrote < CHUNKS
            /\ IF Having("r") = {}
               THEN /\ Goes(p, "killed") /\ Keeps(p, {})
                    /\ UNCHANGED <<pipe, wrote>>
               ELSE /\ Goes(p, IF task = "text" THEN "close" ELSE "write")
                    /\ pipe' = pipe + 1 /\ wrote' = wrote + 1
                    /\ UNCHANGED ends
            /\ UNCHANGED <<task, shown>>

(* read, and printing (and logging) what it got: the readers of pipes.c    *)
(* read once, the others until the end.                                    *)
Read(p) == /\ at[p] = "read"
           /\ \/ \E n \in 1 .. pipe : /\ pipe' = pipe - n
                                      /\ shown' = [shown EXCEPT ![p] = @ + n]
                                      /\ Goes(p, IF task = "text" THEN "close" ELSE "read")
              \/ /\ pipe = 0 /\ Having("w") = {}
                 /\ Goes(p, "close") /\ UNCHANGED <<pipe, shown>>
           /\ UNCHANGED <<task, ends, wrote>>

(* close, and the end of the process or of the command                     *)
Close(p) == /\ at[p] = "close" \/ (at[p] = "write" /\ task # "text")
            /\ Goes(p, "done") /\ Keeps(p, {})
            /\ NothingPassed

process(p) == \/ p = "parent" /\ (Fork \/ ForkFails \/ OpenLog \/ Crash)
              \/ ForkAgain(p) \/ CloseRead(p) \/ CloseWrite(p)
              \/ Write(p) \/ Read(p) \/ Close(p)

Next == \E p \in Members : process(p)

-------------------------------------------------------------------------------
(* Every text is shown, and once, by whichever reader gets it; nobody is   *)
(* killed by SIGPIPE unless fork or the opening of the log has failed.     *)
ShownOnce ==
  /\ (\A p \in Members : at[p] \in Over) /\ at["parent"] # "crashed"
       => shown["parent"] + shown["child"] + shown["grandchild"] = wrote
  /\ at["parent"] = "killed" => task = "netstat" /\ at["child"] = "absent"
  /\ at["child"] = "killed" => at["parent"] = "crashed"

(* Every reader gets a text or sees the end.                               *)
ReadersEnd == \A p \in Members : at[p] = "read" ~> at[p] \in Over

-------------------------------------------------------------------------------
(* The invariant behind ShownOnce.                                         *)
TypeOK == /\ task \in {"text", "netstat", "log"}
          /\ ends \in [Members -> SUBSET {"r", "w"}]
          /\ pipe \in Nat /\ wrote \in Nat /\ shown \in [Members -> Nat]
          /\ at \in [Members -> Over \cup {"fork", "fork2", "fopen", "unlogged", "close_r", "close_w",
                                           "write", "read", "close"}]

(* No text is lost on the way.                                             *)
NoneLost == pipe + shown["parent"] + shown["child"] + shown["grandchild"] = wrote

(* Which ends a process holds where it is.                                 *)
Unshut == {"fork", "fork2", "close_r", "close_w"}
EndsHeld == \A p \in Members :
              /\ at[p] \in Unshut \cup {"read", "fopen", "unlogged"} => "r" \in ends[p]
              /\ at[p] \in Unshut \cup {"write"} => "w" \in ends[p]
              /\ at[p] \in Over \cup {"write"} => "r" \notin ends[p]

(* Who can be where, with a child and, where fork has failed, without.     *)
ToRead == {"fork2", "close_w", "read"}
Places ==
  /\ task = "text" => /\ \/ at["parent"] \in {"close_r", "write", "close", "done"} /\ at["child"] \in ToRead \cup {"close", "done"}
                         \/ at["parent"] \in ToRead \cup {"fork", "close", "done"} /\ at["child"] = "absent"
                      /\ at["grandchild"] \in {"absent", "close_w", "read", "close", "done"}
  /\ task = "netstat" => /\ \/ at["parent"] \in {"close_w", "read", "close", "done"} /\ at["child"] \in {"close_r", "write", "done"}
                            \/ at["parent"] \in {"fork", "close_r", "write", "killed", "done"} /\ at["child"] = "absent"
                         /\ at["grandchild"] = "absent"
  /\ task = "log" => /\ \/ at["parent"] \in {"fopen", "unlogged", "read", "close", "done"} /\ at["child"] \in {"write", "done"}
                        \/ at["parent"] = "crashed" /\ at["child"] \in {"write", "done", "killed"}
                        \/ at["parent"] \in {"fork", "done"} /\ at["child"] = "absent"
                     /\ at["grandchild"] = "absent"

(* Of pipes.c the child is still to read as long as the one text is in the *)
(* pipe, and of the others the parent reads until nobody writes.           *)
SomeoneReads ==
  /\ at["child"] = "absent" => wrote = 0
  /\ task = "text" => /\ wrote <= 1 /\ (pipe > 0 => at["child"] \in ToRead)
                      /\ at["parent"] \in {"close_r", "write"} => wrote = 0 /\ at["child"] \in ToRead
  /\ task # "text" /\ at["parent"] \in {"close", "done"}
       => pipe = 0 /\ at["child"] \in {"absent", "done"}

IInv == TypeOK /\ NoneLost /\ EndsHeld /\ Places /\ SomeoneReads /\ ShownOnce
===============================================================================
