----------------------------- MODULE IpcPrograms ------------------------------
(***************************************************************************)
(* The programs whose processes share semaphores, pipes, a FIFO, signals   *)
(* or a locked file.  The system runs one of them; of those with           *)
(* semaphores, semserv and semcli or rand_server and rand_client.          *)
(***************************************************************************)
EXTENDS SemTurns, FiniteSets

CONSTANTS Clients,      \* of the FIFO; and the processes that lock the file
          REGIONS, FAULTS

ASSUME IpcAssumption == IsFiniteSet(Clients) /\ "server" \notin Clients /\ REGIONS \in Nat \ {0} /\ FAULTS \in Nat

VARIABLES program,
          task, ends, pipe, wrote, shown, stage,
          name, files, regular, unread, file, step, runs, sent,
          forked, handler, blocked, published, writers, place,
          waits, locks, record, l_type, l_start, state, faults

Chat == INSTANCE SemChat
Rand == INSTANCE RandPingPong
Pipe == INSTANCE Pipes WITH at <- stage, CHUNKS <- LINES
Fifo == INSTANCE Fifo WITH at <- step, Readers <- Clients, RUNS <- 2
Sig  == INSTANCE Signals WITH at <- place, open <- writers
Lock == INSTANCE FileLocks WITH pc <- state, Procs <- Clients

pipeVars == <<task, ends, pipe, wrote, shown, stage>>
fifoVars == <<name, files, regular, unread, file, step, runs, sent>>
sigVars  == <<forked, handler, blocked, published, writers, place>>
lockVars == <<waits, locks, record, l_type, l_start, state, faults>>
all == <<program, vars, pipeVars, fifoVars, sigVars, lockVars>>

Boot == /\ program \in {"chat", "rand", "pipes", "fifo", "signals", "locks"}
        /\ program = "pipes" \/ task = "text"
        /\ program = "signals" \/ forked = TRUE
        /\ program = "locks" \/ waits = TRUE
        /\ Init /\ Pipe!Init /\ Fifo!Init /\ Sig!Init /\ Lock!Init

-------------------------------------------------------------------------------
Others == UNCHANGED <<program, pipeVars, fifoVars, sigVars, lockVars>>

Server == /\ \/ program = "chat" /\ Chat!semserv
             \/ program = "rand" /\ Rand!rand_server
          /\ Others

Client == /\ \/ program = "chat" /\ Chat!semcli
             \/ program = "rand" /\ Rand!rand_client
          /\ Others

(* Clients are started one after the other, and killed.                    *)
Users == /\ \/ program = "chat" /\ Chat!Start
            \/ program = "rand" /\ Rand!Start
            \/ program \in {"chat", "rand"} /\ Kill
         /\ Others

pipes == program = "pipes" /\ Pipe!Next /\ UNCHANGED <<program, vars, fifoVars, sigVars, lockVars>>
fifo  == program = "fifo" /\ Fifo!Next /\ UNCHANGED <<program, vars, pipeVars, sigVars, lockVars>>
sig   == program = "signals" /\ Sig!Next /\ UNCHANGED <<program, vars, pipeVars, fifoVars, lockVars>>
locking == program = "locks" /\ Lock!Next /\ UNCHANGED <<program, vars, pipeVars, fifoVars, sigVars>>

(* Nothing runs, or all wait for each other or for the user.               *)
Idle == /\ ~ ENABLED Server /\ ~ ENABLED pipes /\ ~ ENABLED fifo
        /\ ~ ENABLED sig /\ ~ ENABLED locking
        /\ UNCHANGED all

Run == Server \/ Client \/ Users \/ pipes \/ fifo \/ sig \/ locking \/ Idle

Piped(A)   == program = "pipes" /\ A /\ UNCHANGED <<program, vars, fifoVars, sigVars, lockVars>>
Named(A)   == program = "fifo" /\ A /\ UNCHANGED <<program, vars, pipeVars, sigVars, lockVars>>
Signaled(A) == program = "signals" /\ A /\ UNCHANGED <<program, vars, pipeVars, fifoVars, lockVars>>
Locked(A)  == program = "locks" /\ A /\ UNCHANGED <<program, vars, pipeVars, fifoVars, sigVars>>

(* Every process runs, and the one with the lock has its key pressed; the  *)
(* user who starts, kills and types does what he likes, but ends the       *)
(* server of the FIFO after LINES lines.                                   *)
Fair == /\ WF_all(Server) /\ WF_all(Client)
        /\ \A p \in Pipe!Members : WF_all(Piped(Pipe!process(p)))
        /\ WF_all(Named(Fifo!typeserver)) /\ \A c \in Clients : WF_all(Named(Fifo!typeclient(c)))
        /\ WF_all(Signaled(Sig!receiver)) /\ WF_all(Signaled(Sig!sender))
        /\ \A c \in Clients : WF_all(Locked(Lock!Works(c)))

Programs == Boot /\ [][Run]_all /\ Fair

-------------------------------------------------------------------------------
(* The turns that the semaphores with SEM_UNDO hand out: see SemTurns.     *)
TurnsHandedOut == IInv

(* Pipe, FIFO and signal reach whom they are meant for: see Pipes, Fifo    *)
(* and Signals.                                                            *)
EverythingArrives == Pipe!IInv /\ Fifo!IInv /\ Sig!IInv

(* What the record locks protect: see FileLocks.                           *)
RecordsKept == Lock!IInv

(* When the first client of the semaphores says "q" and ends, so does the  *)
(* server, unless the end of the client takes back the signal that the     *)
(* server has not taken.                                                   *)
QuitEndsServer == (pc["client"] = "done" /\ clients = 1 /\ semid)
                    ~> (pc["server"] = "done" \/ lost \/ pc["client"] # "done")

(* Nobody waits for ever: for the "q" of a client, the end of a pipe or a  *)
(* FIFO, a signal or a lock.                                               *)
EverybodyEnds ==
  /\ QuitEndsServer /\ Pipe!ReadersEnd /\ Fifo!ReadersEnd /\ Sig!BothEnd
  /\ \A c \in Clients : (program = "locks" /\ state[c] = "set") ~> state[c] = "done"
===============================================================================
