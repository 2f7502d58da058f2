-------------------------------- MODULE Signals --------------------------------
(***************************************************************************)
(* homework9: a process with a handler for SIGTERM that waits, and one     *)
(* that sends SIGTERM to it.  In fork/sig_fork.c they are parent and child *)
(* and the parent sends its pid through a pipe; in sig/sig_receiver.c and  *)
(* sig_sender.c they are started by hand, and the user copies the pid that *)
(* the receiver prints.                                                    *)
(***************************************************************************)

VARIABLES forked,       \* sig_fork, not the two programs
          handler,      \* the handler of SIGTERM is installed
          blocked,      \* SIGHUP is blocked
          published,    \* the receiver has written, or printed, its pid
          open,         \* the processes that hold the writing end of the pipe
          at            \* where each process is

Members == {"receiver", "sender"}
Over(p) == at[p] \in {"done", "failed", "killed", "handled"}

Init == /\ forked \in BOOLEAN
        /\ handler = FALSE /\ blocked = FALSE /\ published = FALSE
        /\ open = {"receiver"}
        /\ at = [p \in Members |-> IF p = "sender" THEN "absent" ELSE IF forked THEN "fork" ELSE "mask"]

Goes(p, to) == at' = [at EXCEPT ![p] = to]
Ends(p, how) == Goes(p, how) /\ open' = open \ {p}

-------------------------------------------------------------------------------
Fork == /\ at["receiver"] = "fork"
        /\ \/ at' = [at EXCEPT !["receiver"] = "mask", !["sender"] = "close"] /\ open' = open \cup {"sender"}
           \/ Ends("receiver", "failed")
        /\ UNCHANGED <<forked, handler, blocked, published>>

(* A broken Mask: the pid is sent before the handler is installed.         *)
MaskAndPublish == /\ at["receiver"] = "mask"
                  /\ Goes("receiver", "sigaction") /\ blocked' = TRUE /\ published' = TRUE
                  /\ UNCHANGED <<forked, handler, open>>

(* sigprocmask of SIGHUP                                                   *)
Mask == /\ at["receiver"] = "mask"
        /\ Goes("receiver", "sigaction") /\ blocked' = TRUE
        /\ UNCHANGED <<forked, handler, published, open>>

Install == /\ at["receiver"] = "sigaction"
           /\ Goes("receiver", "pid") /\ handler' = TRUE
           /\ UNCHANGED <<forked, blocked, published, open>>

(* Sending the pid to a child that has been killed is the end: SIGPIPE.    *)
Publish == /\ at["receiver"] = "pid"
           /\ IF forked /\ Over("sender") THEN Ends("receiver", "killed") /\ UNCHANGED published
              ELSE /\ Goes("receiver", "sleep") /\ open' = open \ {"receiver"}
                   /\ published' = TRUE
           /\ UNCHANGED <<forked, handler, blocked>>

(* The user starts sig_sender, with the pid if it has been printed, with   *)
(* none, or with no number: atoi makes that 0, and kill(0, ..) signals     *)
(* sig_sender itself.                                                      *)
StartSender == /\ ~ forked /\ at["sender"] = "absent"
               /\ \E to \in {"kill", "failed", "killed"} : /\ to = "kill" => published
                                                           /\ Goes("sender", to)
               /\ UNCHANGED <<forked, handler, blocked, published, open>>

CloseWrite == /\ at["sender"] = "close"
              /\ Goes("sender", "read") /\ open' = open \ {"sender"}
              /\ UNCHANGED <<forked, handler, blocked, published>>

(* read of the pid, or of the end of the pipe                              *)
Read == /\ at["sender"] = "read"
        /\ published \/ open = {}
        /\ Goes("sender", IF published THEN "kill" ELSE "done")
        /\ UNCHANGED <<forked, handler, blocked, published, open>>

(* SIGTERM comes: from the sender or from anybody.                         *)
Terminated == IF handler THEN "handled" ELSE "killed"

(* kill, of a process that may have ended                                  *)
KillReceiver == /\ at["sender"] = "kill"
                /\ IF Over("receiver") THEN Goes("sender", "done") /\ UNCHANGED open
                   ELSE /\ at' = [at EXCEPT !["receiver"] = Terminated, !["sender"] = "done"]
                        /\ open' = open \ {"receiver"}
                /\ UNCHANGED <<forked, handler, blocked, published>>

(* The user sends the receiver SIGTERM or SIGHUP, and kills the sender.    *)
User == /\ \/ ~ Over("receiver") /\ Ends("receiver", Terminated)
           \/ ~ Over("receiver") /\ ~ blocked /\ Ends("receiver", "killed")
           \/ ~ Over("sender") /\ at["sender"] # "absent" /\ Ends("sender", "killed")
        /\ UNCHANGED <<forked, handler, blocked, published>>

receiver == Fork \/ Mask \/ Install \/ Publish
sender   == CloseWrite \/ Read \/ KillReceiver

Next == receiver \/ sender \/ StartSender \/ User

-------------------------------------------------------------------------------
(* Once somebody can know its pid the receiver ends by its handler, and    *)
(* never by the default action of a signal.                                *)
SaysGoodbye == published => at["receiver"] # "killed"

TypeOK == /\ forked \in BOOLEAN /\ handler \in BOOLEAN /\ blocked \in BOOLEAN /\ published \in BOOLEAN
          /\ open \subseteq Members
          /\ at \in [Members -> {"absent", "fork", "mask", "sigaction", "pid", "sleep", "close", "read",
                                 "kill", "done", "failed", "killed", "handled"}]

(* The mask comes before the handler and the handler before the pid.       *)
Prepared == /\ at["receiver"] \in {"sigaction", "pid", "sleep"} => blocked
            /\ at["receiver"] \in {"pid", "sleep"} => handler
            /\ published => at["receiver"] \in {"sleep", "handled"}

IInv == TypeOK /\ Prepared /\ SaysGoodbye

(* The child ends whatever becomes of the parent, and the parent that has  *)
(* sent its pid to a child that is not killed ends, too.                   *)
BothEnd == /\ at["sender"] \in {"close", "read", "kill"} ~> Over("sender")
           /\ (forked /\ published) ~> (Over("receiver") \/ at["sender"] = "killed")
===============================================================================
