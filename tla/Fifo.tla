--------------------------------- MODULE Fifo ----------------------------------
(***************************************************************************)
(* homework5/pipes/typeserver.c and typeclient.c: the server makes a FIFO, *)
(* opens it, sends the lines typed until "q", closes it and removes its    *)
(* name; a client opens it, prints lines until the end and removes its     *)
(* name, too.  Opening a FIFO waits for the other side.  Both may be       *)
(* killed, and started again.                                              *)
(*                                                                         *)
(* A client that is late removes the name of the next server's FIFO, and   *)
(* fopen(.., "w") of a name that is gone makes a regular file.             *)
(***************************************************************************)
EXTENDS Integers, FiniteSets

CONSTANTS Readers,      \* clients, each started once
          RUNS,         \* bound: times the server is started
          LINES         \* bound: lines it sends in a run

VARIABLES name,         \* the file that has the name, 0 when none has
          files,        \* the files made so far
          regular,      \* those that are no FIFOs
          unread,       \* lines in a FIFO
          file,         \* the file each process has opened, or waits to open
          at,           \* where each process is
          runs, sent

Both == Readers \cup {"server"}
Partner(p, q) == (p = "server") # (q = "server")
Gone(p) == at[p] \in {"absent", "done", "killed"}

(* Those that have file f open, or wait to open it                         *)
Holders(f) == {p \in Both : file[p] = f /\ at[p] \in {"wait", "go"}}
Partners(p, f) == {q \in Holders(f) : Partner(p, q)}

Init == /\ name = 0 /\ files = 0 /\ regular = {}
        /\ unread = [f \in 1 .. 2 * RUNS |-> 0]
        /\ file = [p \in Both |-> 0]
        /\ at = [p \in Both |-> "absent"]
        /\ runs = 0 /\ sent = 0

Goes(p, to) == at' = [at EXCEPT ![p] = to]
Named       == <<name, files, regular>>
Counted     == <<runs, sent>>

-------------------------------------------------------------------------------
Start(p) == \/ /\ p = "server" /\ Gone(p) /\ runs < RUNS
               /\ Goes(p, "mkfifo")
               /\ runs' = runs + 1 /\ sent' = 0
               /\ UNCHANGED <<Named, unread, file>>
            \/ /\ p # "server" /\ at[p] = "absent"
               /\ Goes(p, "open")
               /\ UNCHANGED <<Named, unread, file, Counted>>

(* Where there is a file already, mkfifo fails and nobody looks.           *)
Mkfifo == /\ at["server"] = "mkfifo"
          /\ Goes("server", "open")
          /\ IF name = 0 THEN name' = files + 1 /\ files' = files + 1 ELSE UNCHANGED <<name, files>>
          /\ UNCHANGED <<regular, unread, file, Counted>>

(* fopen of FIFO f waits for a partner, and lets those go that wait.  What  *)
(* nobody has open is empty.                                               *)
Opens(p, f) ==
  /\ file' = [file EXCEPT ![p] = f]
  /\ at' = [q \in Both |-> IF q = p THEN IF Partners(p, f) # {} \/ f \in regular' THEN "go" ELSE "wait"
                           ELSE IF q \in Partners(p, f) THEN "go"
                           ELSE at[q]]
  /\ unread' = IF Holders(f) = {} THEN [unread EXCEPT ![f] = 0] ELSE unread

OpenWrite == /\ at["server"] = "open"
             /\ IF name = 0
                THEN name' = files + 1 /\ files' = files + 1 /\ regular' = regular \cup {files + 1}
                ELSE UNCHANGED Named
             /\ Opens("server", name')
             /\ UNCHANGED Counted

(* Without a file fopen returns NULL, which fgets does not survive.        *)
OpenRead(c) == /\ at[c] = "open"
               /\ UNCHANGED Named
               /\ IF name = 0 THEN Goes(c, "killed") /\ UNCHANGED <<file, unread>>
                  ELSE Opens(c, name)
               /\ UNCHANGED Counted

(* fputs and fflush of a line; SIGPIPE when no client has the FIFO open.   *)
Send == LET f == file["server"]
        IN /\ at["server"] = "go" /\ sent < LINES
           /\ IF f \notin regular /\ Partners("server", f) = {}
              THEN Goes("server", "killed") /\ UNCHANGED <<unread, sent>>
              ELSE /\ unread' = IF f \in regular THEN unread ELSE [unread EXCEPT ![f] = @ + 1]
                   /\ sent' = sent + 1
                   /\ UNCHANGED at
           /\ UNCHANGED <<Named, file, runs>>

(* "q", or the end of what is typed: fclose                                *)
Quit == /\ at["server"] = "go"
        /\ Goes("server", "unlink")
        /\ UNCHANGED <<Named, unread, file, Counted>>

PrintLine(c) == /\ at[c] = "go" /\ file[c] \notin regular /\ unread[file[c]] > 0
                /\ unread' = [unread EXCEPT ![file[c]] = @ - 1]
                /\ UNCHANGED <<Named, file, at, Counted>>

(* fgets sees the end, of a regular file wherever it ends so far; fclose   *)
EndOfFile(c) == /\ at[c] = "go"
                /\ file[c] \in regular \/ (unread[file[c]] = 0 /\ Partners(c, file[c]) = {})
                /\ Goes(c, "unlink")
                /\ UNCHANGED <<Named, unread, file, Counted>>

Unlink(p) == /\ at[p] = "unlink"
             /\ Goes(p, "done")
             /\ name' = 0
             /\ UNCHANGED <<files, regular, unread, file, Counted>>

Kill(p) == /\ ~ Gone(p)
           /\ Goes(p, "killed")
           /\ UNCHANGED <<Named, unread, file, Counted>>

typeserver    == Mkfifo \/ OpenWrite \/ Send \/ Quit \/ Unlink("server")
typeclient(c) == OpenRead(c) \/ PrintLine(c) \/ EndOfFile(c) \/ Unlink(c)

Next == typeserver \/ (\E c \in Readers : typeclient(c)) \/ (\E p \in Both : Start(p) \/ Kill(p))
-------------------------------------------------------------------------------
(* The first server keeps the name of its FIFO as long as it has it open:  *)
(* no client takes it away before.  (The next server may find a client of  *)
(* the first that does.)                                                   *)
FirstKeepsName ==
  runs = 1 /\ at["server"] \in {"open", "wait", "go"}
    => name # 0 /\ name \notin regular /\ (at["server"] # "open" => file["server"] = name)

TypeOK == /\ name \in 0 .. files /\ files \in Nat /\ regular \subseteq 1 .. files
          /\ file \in [Both -> Nat]
          /\ at \in [Both -> {"absent", "mkfifo", "open", "wait", "go", "unlink", "done", "killed"}]
          /\ runs \in Nat

(* Until the first server has opened its FIFO no client gets through one,  *)
(* and those that do then find the server at the other end: so none comes  *)
(* to the end of its file, where it would remove the name.                 *)
NoneBeyond ==
  /\ runs = 0 => at["server"] = "absent"
  /\ runs = 0 \/ (runs = 1 /\ at["server"] = "mkfifo")
       => name = 0 /\ files = 0 /\ \A c \in Readers : at[c] \in {"absent", "open", "killed"}
  /\ runs = 1 /\ at["server"] \in {"open", "wait", "go"}
       => \A c \in Readers : /\ at[c] \in {"absent", "open", "wait", "go", "killed"}
                             /\ at[c] \in {"wait", "go"} => file[c] = name
                             /\ at[c] = "go" => at["server"] = "go"

IInv == TypeOK /\ NoneBeyond /\ FirstKeepsName

(* Clients that have met a server end, when it has.                        *)
ReadersEnd == \A c \in Readers : at[c] = "go" ~> Gone(c)
===============================================================================
