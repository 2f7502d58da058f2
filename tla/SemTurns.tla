------------------------------- MODULE SemTurns -------------------------------
(***************************************************************************)
(* Two programs of the repository let a server and a client take turns at  *)
(* a block of shared memory with two System V semaphores: semaphore 0      *)
(* tells the server that the client has written, semaphore 1 tells the     *)
(* client that the server has.  SemChat and RandPingPong are the programs, *)
(* IpcPrograms runs them; this module is what they have in common.         *)
(*                                                                         *)
(* Every semop has SEM_UNDO: when a process ends, the kernel adds back     *)
(* what it took and takes back what it added, though not below zero.  A    *)
(* semop that the kernel refuses, because the set does not exist, returns  *)
(* at once, and the programs do not look at what it returns.               *)
(***************************************************************************)
EXTENDS Integers

CONSTANTS LINES,        \* bound: lines the users type before the last "q"
          CLIENTS       \* bound: clients started, one after the other

ASSUME SemAssumption == LINES \in Nat /\ CLIENTS \in Nat \ {0}

VARIABLES sem,          \* the values of semaphores 0 and 1
          undo,         \* what the kernel is to add to them when the client ends
          exists,       \* which of "sem" and "shm" the system has
          semid,        \* the client's semget has found the set
          owner,        \* whose whole message the block holds
          quit,         \* the string in the block is "q\n"
          pc,
          clients,      \* clients started
          typed,        \* lines typed
          taken,        \* signals of clients that the server has taken
          credit,       \* of those, the ones of clients that have ended
          lost,         \* the end of a client has taken back a signal
          misread       \* processes that printed what is no message of the other

vars == <<sem, undo, exists, semid, owner, quit, pc, clients, typed, taken, credit, lost, misread>>
shared  == <<sem, undo, exists>>
block   == <<owner, quit>>
history == <<clients, typed, taken, credit, lost>>

Procs == {"server", "client"}
Other(p) == IF p = "server" THEN "client" ELSE "server"

(* The semaphore a process waits for; it signals that of the other.        *)
Sem == [p \in Procs |-> IF p = "server" THEN 0 ELSE 1]
Section == {"print", "reply", "write", "type", "typed", "number", "signal"}
PCs     == {"create", "shm", "greet", "open", "absent", "init", "test", "take", "asleep", "rmshm", "rmsem", "exit", "done"} \cup Section

Init == /\ sem = [i \in 0 .. 1 |-> 0]
        /\ undo = [i \in 0 .. 1 |-> 0]
        /\ exists = {}
        /\ semid = FALSE
        /\ owner = "nobody" /\ quit = FALSE
        /\ pc = [p \in Procs |-> IF p = "server" THEN "create" ELSE "absent"]
        /\ clients = 0 /\ typed = 0 /\ taken = 0 /\ credit = 0
        /\ lost = FALSE
        /\ misread = {}

Goto(p, from, to) == pc[p] = from /\ pc' = [pc EXCEPT ![p] = to]

-------------------------------------------------------------------------------
(* The semop calls.                                                        *)
Usable(p) == "sem" \in exists /\ (p = "client" => semid)

(* What SEM_UNDO notes of process p adding n to semaphore i; only the      *)
(* client's matters, for the server removes the set before it ends.        *)
Note(p, i, n) == IF p = "client" THEN [undo EXCEPT ![i] = @ - n] ELSE undo

(* -1 on the process's own semaphore                                       *)
Take(p) == /\ IF ~ Usable(p)
              THEN Goto(p, "take", "print") /\ UNCHANGED <<sem, undo, taken>>
              ELSE IF sem[Sem[p]] = 0
              THEN Goto(p, "take", "asleep") /\ UNCHANGED <<sem, undo, taken>>
              ELSE /\ Goto(p, "take", "print")
                   /\ sem' = [sem EXCEPT ![Sem[p]] = @ - 1]
                   /\ undo' = Note(p, Sem[p], -1)
                   /\ taken' = IF p = "server" THEN taken + 1 ELSE taken
           /\ UNCHANGED <<exists, semid, block, clients, typed, credit, lost, misread>>

(* +1 on the semaphore of the other: a process asleep in its semop is let  *)
(* through in the same call.                                               *)
SignalTo(p, from, to) ==
  LET q == Other(p)
      i == Sem[q]
      woken == Usable(p) /\ pc[q] = "asleep" /\ Usable(q)
  IN /\ pc[p] = from
     /\ pc' = [pc EXCEPT ![p] = to, ![q] = IF woken THEN "print" ELSE @]
     /\ sem' = IF Usable(p) /\ ~ woken THEN [sem EXCEPT ![i] = @ + 1] ELSE sem
     /\ undo' = IF ~ Usable(p) THEN undo
                ELSE [j \in 0 .. 1 |-> IF j = i /\ woken /\ q = "client" THEN undo[j] + 1
                                       ELSE IF j = i /\ p = "client" THEN undo[j] - 1
                                       ELSE undo[j]]
     /\ taken' = IF woken /\ q = "server" THEN taken + 1 ELSE taken
     /\ UNCHANGED <<exists, semid, block, clients, typed, credit, lost, misread>>

Signal(p) == SignalTo(p, "signal", "test")

-------------------------------------------------------------------------------
(* Steps both programs have.                                               *)
Quiet == UNCHANGED <<shared, semid, block, history, misread>>

(* while (strcmp("q\n", mblock->string) != 0)                              *)
Test(p) == /\ Goto(p, "test", IF ~ quit THEN "take" ELSE IF p = "server" THEN "rmshm" ELSE "exit")
           /\ Quiet

Show(p) == /\ Goto(p, "print", IF p = "server" THEN "reply" ELSE "type")
           /\ misread' = IF owner = Other(p) THEN misread ELSE misread \cup {p}
           /\ UNCHANGED <<shared, semid, block, history>>

(* The server makes the semaphores first, then the memory.                 *)
CreateSem == /\ Goto("server", "create", "shm")
             /\ exists' = exists \cup {"sem"}
             /\ sem' = [sem EXCEPT ![0] = 0]
             /\ UNCHANGED <<undo, semid, block, history, misread>>

CreateShm == /\ Goto("server", "shm", "greet")
             /\ exists' = exists \cup {"shm"}
             /\ UNCHANGED <<sem, undo, semid, block, history, misread>>

Greet == /\ Goto("server", "greet", "open")
         /\ owner' = "server" /\ quit' = FALSE
         /\ UNCHANGED <<shared, semid, history, misread>>

Open == SignalTo("server", "open", "test")

(* The server removes the memory, then the semaphores: a client asleep on  *)
(* them is let through.                                                    *)
Remove == \/ /\ Goto("server", "rmshm", "rmsem")
             /\ exists' = exists \ {"shm"}
             /\ UNCHANGED <<sem, undo, semid, block, history, misread>>
          \/ /\ pc["server"] = "rmsem"
             /\ pc' = [pc EXCEPT !["server"] = "done", !["client"] = IF @ = "asleep" THEN "print" ELSE @]
             /\ exists' = exists \ {"sem"}
             /\ UNCHANGED <<sem, undo, semid, block, history, misread>>

Most(a, b) == IF a > b THEN a ELSE b

(* A broken End: sem_flg is SEM_UNDO for semaphore 1 only.                 *)
EndHalf == /\ sem' = IF Usable("client") THEN [sem EXCEPT ![1] = Most(@ + undo[1], 0)] ELSE sem
           /\ undo' = [i \in 0 .. 1 |-> 0]
           /\ credit' = taken
           /\ UNCHANGED <<exists, semid, block, clients, typed, taken, lost, misread>>

(* The end of the client, by itself or by a signal, with SEM_UNDO.         *)
End == /\ IF Usable("client")
          THEN /\ sem' = [i \in 0 .. 1 |-> Most(sem[i] + undo[i], 0)]
               /\ lost' = (lost \/ (undo[0] < 0 /\ sem[0] > 0))
          ELSE UNCHANGED <<sem, lost>>
       /\ undo' = [i \in 0 .. 1 |-> 0]
       /\ credit' = taken
       /\ UNCHANGED <<exists, semid, block, clients, typed, taken, misread>>

Exit == Goto("client", "exit", "done") /\ End
Kill == pc["client"] \notin {"absent", "done"} /\ pc' = [pc EXCEPT !["client"] = "absent"] /\ End

Gone == pc["client"] \in {"absent", "done"}

-------------------------------------------------------------------------------
In(p) == IF pc[p] \in Section /\ Usable(p) THEN 1 ELSE 0
Tokens == sem[0] + sem[1] + In("server") + In("client")

(* SEM_UNDO keeps the one turn there is when a client ends without the     *)
(* server having taken anything from it, but for every signal the server   *)
(* has taken from a client that has ended there is one turn too many.      *)
TurnsAreCounted == "sem" \in exists /\ pc["server"] \notin {"shm", "greet", "open"}
                     => Tokens = 1 + credit

(* So the two never use the block at the same time until a client that the *)
(* server has answered is followed by another.                             *)
MutualExclusion == credit = 0 /\ semid => ~ \A p \in Procs : pc[p] \in Section

(* The server prints whole messages of the client, as long as there is one *)
(* turn.                                                                   *)
ServerReadsClient == "server" \in misread => credit > 0

-------------------------------------------------------------------------------
TypeOK == /\ sem \in [0 .. 1 -> Nat] /\ undo \in [0 .. 1 -> Int]
          /\ exists \subseteq {"sem", "shm"}
          /\ semid \in BOOLEAN /\ quit \in BOOLEAN /\ lost \in BOOLEAN
          /\ owner \in Procs \cup {"nobody"}
          /\ pc \in [Procs -> PCs]
          /\ clients \in 0 .. CLIENTS /\ typed \in 0 .. LINES + 1
          /\ taken \in Nat /\ credit \in 0 .. taken
          /\ misread \subseteq Procs

(* The set exists while the server runs, and a client sleeps on no other.  *)
Existing == /\ "sem" \in exists <=> pc["server"] \notin {"create", "done"}
            /\ semid => pc["server"] # "create"
            /\ pc["client"] = "asleep" => Usable("client")

(* Before the server has opened there is no turn, and nothing to undo.     *)
NoTurnYet == pc["server"] \in {"create", "shm", "greet", "open"}
               => /\ sem[0] = 0 /\ sem[1] = 0 /\ undo[0] = 0 /\ undo[1] = 0
                  /\ taken = 0 /\ In("client") = 0

(* What the kernel has noted of the client: it has taken one turn more     *)
(* than it has given, if it has the turn, and what it has given the server *)
(* has taken or will find.                                                 *)
Balance == /\ "sem" \in exists => /\ undo[0] <= 0
                                  /\ undo[1] = In("client") - undo[0]
                                  /\ sem[0] = credit - taken - undo[0]
           /\ Gone \/ ~ semid => undo[0] = 0 /\ taken = credit
           /\ pc["server"] \in Section => taken > 0

(* While there is one turn, the server gets it with the client's message.  *)
Delivered == credit = 0 /\ semid /\ "sem" \in exists
               => (sem[0] > 0 \/ pc["server"] = "print" \/ pc["client"] = "signal" => owner = "client")

IInv == /\ TypeOK /\ Existing /\ NoTurnYet /\ Balance /\ Delivered
        /\ TurnsAreCounted /\ MutualExclusion /\ ServerReadsClient
===============================================================================
