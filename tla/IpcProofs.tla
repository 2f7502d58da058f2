------------------------------- MODULE IpcProofs -------------------------------
(***************************************************************************)
(* Proofs about the programs whose processes share semaphores, pipes, a    *)
(* FIFO, signals or a locked file, for any number of clients, lines and    *)
(* regions.                                                                *)
(***************************************************************************)
EXTENDS IpcPrograms, TLAPS

(* Only one program runs: a step of the system is one of this program, and *)
(* leaves the state of the others alone.                                   *)
LEMMA OneRuns ==
  ASSUME [Run]_all
  PROVE  /\ [Server \/ Client \/ Users]_vars
         /\ [Pipe!Next]_pipeVars /\ [Fifo!Next]_fifoVars /\ [Sig!Next]_sigVars /\ [Lock!Next]_lockVars
<1>1. CASE Server \/ Client \/ Users BY <1>1 DEF Server, Client, Users, Others
<1>2. CASE pipes BY <1>2 DEF pipes
<1>3. CASE fifo BY <1>3 DEF fifo
<1>4. CASE sig BY <1>4 DEF sig
<1>5. CASE locking BY <1>5 DEF locking
<1>6. CASE UNCHANGED all BY <1>6 DEF all
<1>7. Idle => UNCHANGED all BY DEF Idle
<1> QED BY <1>1, <1>2, <1>3, <1>4, <1>5, <1>6, <1>7 DEF Run

-------------------------------------------------------------------------------
(* File locks.                                                             *)

LEMMA LockInit == Lock!Init => Lock!IInv
<1> SUFFICES ASSUME Lock!Init PROVE Lock!IInv OBVIOUS
<1> USE IpcAssumption DEF Lock!Init
<1>1. Lock!TypeOK BY DEF Lock!TypeOK, Lock!Regions
<1>2. Lock!OwnersAlone /\ Lock!Intruded /\ Lock!InLine
  BY DEF Lock!OwnersAlone, Lock!Intruded, Lock!InLine, Lock!Showing
<1>3. Lock!OverwrittenByUnlock /\ Lock!RecordsStay
  BY DEF Lock!OverwrittenByUnlock, Lock!RecordsStay, Lock!Showing
<1> QED BY <1>1, <1>2, <1>3 DEF Lock!IInv

(* What a process finds overwritten, somebody without a lock wrote.        *)
LEMMA OverwrittenFollows == Lock!TypeOK /\ Lock!Intruded => Lock!OverwrittenByUnlock
BY DEF Lock!TypeOK, Lock!Intruded, Lock!OverwrittenByUnlock, Lock!Showing

LEMMA LockStep == Lock!IInv /\ [Lock!Next]_lockVars => Lock!IInv'
<1> SUFFICES ASSUME Lock!IInv, [Lock!Next]_lockVars PROVE Lock!IInv' OBVIOUS
<1>0. Lock!TypeOK /\ Lock!OwnersAlone /\ Lock!Intruded /\ Lock!InLine /\ Lock!RecordsStay BY DEF Lock!IInv
<1>t. /\ waits \in BOOLEAN /\ faults \in 0 .. FAULTS
      /\ locks \in [Lock!Regions -> SUBSET Clients] /\ record \in [Lock!Regions -> SUBSET Clients]
      /\ l_type \in [Clients -> {"F_WRLCK", "F_UNLCK"}] /\ l_start \in [Clients -> 0 .. REGIONS]
      /\ state \in [Clients -> {"set", "get", "write", "getchar", "done"}]
      /\ \A p \in Clients : state[p] # "done" => l_start[p] \in Lock!Regions
  BY <1>0 DEF Lock!TypeOK
<1> DEFINE Kept == Lock!TypeOK' /\ Lock!OwnersAlone' /\ Lock!Intruded' /\ Lock!InLine' /\ Lock!RecordsStay'
<1>1. ASSUME NEW p \in Clients, Lock!SetLock(p) PROVE Kept
  <2>1. /\ state[p] = "set" /\ state' = [state EXCEPT ![p] = "write"] /\ ~ Lock!Refused(p)
        /\ locks' = [locks EXCEPT ![l_start[p]] = IF l_type[p] = "F_WRLCK" THEN {p} ELSE @ \ {p}]
        /\ UNCHANGED <<waits, record, l_type, l_start, faults>>
    BY <1>1 DEF Lock!SetLock, Lock!Goto
  <2>2. Lock!TypeOK' BY <1>t, <2>1 DEF Lock!TypeOK
  <2>3. Lock!OwnersAlone'
    <3>1. SUFFICES ASSUME NEW q \in Clients, state'[q] \in {"write", "getchar"}, l_type[q] = "F_WRLCK"
                   PROVE  locks'[l_start[q]] = {q}
      BY <2>1 DEF Lock!OwnersAlone
    <3>2. CASE q = p BY <1>t, <2>1, <3>1, <3>2
    <3>3. CASE q # p
      <4>1. state[q] \in {"write", "getchar"} /\ locks[l_start[q]] = {q}
        BY <1>0, <1>t, <2>1, <3>1, <3>3 DEF Lock!OwnersAlone
      <4>2. CASE l_start[q] = l_start[p]
        <5>1. l_type[p] # "F_WRLCK" BY <2>1, <3>3, <4>1, <4>2 DEF Lock!Refused
        <5>2. locks'[l_start[q]] = locks[l_start[q]] \ {p} BY <1>t, <2>1, <4>2, <5>1
        <5> QED BY <3>3, <4>1, <5>2
      <4>3. CASE l_start[q] # l_start[p] BY <1>t, <2>1, <4>1, <4>3
      <4> QED BY <4>2, <4>3
    <3> QED BY <3>2, <3>3
  <2>4. Lock!Intruded' BY <1>0, <1>t, <2>1 DEF Lock!Intruded, Lock!Showing
  <2>5. Lock!InLine' /\ Lock!RecordsStay'
    BY <1>0, <1>t, <2>1 DEF Lock!InLine, Lock!RecordsStay, Lock!Showing
  <2> QED BY <2>2, <2>3, <2>4, <2>5
<1>2. ASSUME NEW p \in Clients, Lock!SetFails(p) PROVE Kept
  <2>1. /\ state[p] = "set" /\ state' = [state EXCEPT ![p] = "get"]
        /\ IF waits THEN faults < FAULTS /\ faults' = faults + 1 ELSE UNCHANGED faults
        /\ UNCHANGED <<waits, locks, record, l_type, l_start>>
    BY <1>2 DEF Lock!SetFails, Lock!Goto
  <2>2. Lock!TypeOK' BY <1>t, <2>1, IpcAssumption DEF Lock!TypeOK
  <2>3. Lock!OwnersAlone' BY <1>0, <1>t, <2>1 DEF Lock!OwnersAlone
  <2>4. Lock!Intruded' BY <1>0, <1>t, <2>1 DEF Lock!Intruded, Lock!Showing
  <2>5. ~ (waits' /\ faults' = 0) BY <1>t, <2>1, IpcAssumption
  <2>6. Lock!InLine' /\ Lock!RecordsStay' BY <2>5 DEF Lock!InLine, Lock!RecordsStay
  <2> QED BY <2>2, <2>3, <2>4, <2>6
<1>3. ASSUME NEW p \in Clients, Lock!GetLock(p) PROVE Kept
  <2>1. PICK next \in {l_start[p], l_start[p] + 1}, type \in {"F_WRLCK", "F_UNLCK"} :
          /\ state[p] = "get" /\ state' = [state EXCEPT ![p] = IF next < REGIONS THEN "set" ELSE "done"]
          /\ l_type' = [l_type EXCEPT ![p] = type] /\ l_start' = [l_start EXCEPT ![p] = next]
          /\ UNCHANGED <<waits, locks, record, faults>>
    BY <1>3 DEF Lock!GetLock, Lock!Goto
  <2>2. l_start[p] \in 0 .. REGIONS - 1 BY <1>t, <2>1 DEF Lock!Regions
  <2>3. Lock!TypeOK' BY <1>t, <2>1, <2>2, IpcAssumption DEF Lock!TypeOK, Lock!Regions
  <2>4. \A q \in Clients \ {p} : state'[q] = state[q] /\ l_type'[q] = l_type[q] /\ l_start'[q] = l_start[q]
    BY <1>t, <2>1
  <2>5. state'[p] \in {"set", "done"} BY <1>t, <2>1
  <2>6. Lock!OwnersAlone' BY <1>0, <2>1, <2>4, <2>5 DEF Lock!OwnersAlone
  <2>7. Lock!Intruded'
    <3>1. SUFFICES ASSUME NEW r \in Clients, state'[r] = "getchar", l_type'[r] = "F_WRLCK", record[l_start'[r]] # {r}
                   PROVE  \E q \in Clients : /\ state'[q] \in {"getchar", "done"} /\ l_type'[q] = "F_UNLCK"
                                             /\ l_start'[q] = l_start'[r]
      BY <2>1 DEF Lock!Intruded, Lock!Showing
    <3>2. r # p BY <2>5, <3>1
    <3>3. PICK q \in Clients : /\ state[q] \in {"getchar", "done"} /\ l_type[q] = "F_UNLCK"
                               /\ l_start[q] = l_start[r]
      BY <1>0, <2>4, <3>1, <3>2 DEF Lock!Intruded, Lock!Showing
    <3>4. q # p BY <2>1, <3>3
    <3> QED BY <2>4, <3>2, <3>3, <3>4
  <2>8. Lock!InLine' /\ Lock!RecordsStay'
    <3>1. ~ (waits /\ faults = 0) BY <1>0, <2>1 DEF Lock!InLine
    <3>2. ~ (waits' /\ faults' = 0) BY <2>1, <3>1
    <3> QED BY <3>2 DEF Lock!InLine, Lock!RecordsStay
  <2> QED BY <2>3, <2>6, <2>7, <2>8
<1>4. ASSUME NEW p \in Clients, Lock!Write(p) PROVE Kept
  <2>1. /\ state[p] = "write" /\ state' = [state EXCEPT ![p] = "getchar"]
        /\ record' = [record EXCEPT ![l_start[p]] = {p}]
        /\ UNCHANGED <<waits, locks, l_type, l_start, faults>>
    BY <1>4 DEF Lock!Write, Lock!Goto
  <2>2. Lock!TypeOK' BY <1>t, <2>1 DEF Lock!TypeOK
  <2>3. Lock!OwnersAlone' BY <1>0, <1>t, <2>1 DEF Lock!OwnersAlone
  <2>4. l_start[p] \in Lock!Regions /\ record'[l_start[p]] = {p} BY <1>t, <2>1
  <2>5. \A q \in Clients \ {p} : state'[q] = state[q] BY <1>t, <2>1
  <2>6. \A q \in Clients : l_start[q] # l_start[p] => record'[l_start[q]] = record[l_start[q]] BY <1>t, <2>1
  <2>7. Lock!Intruded'
    <3>1. SUFFICES ASSUME NEW r \in Clients, state'[r] = "getchar", l_type[r] = "F_WRLCK", record'[l_start[r]] # {r}
                   PROVE  \E q \in Clients : /\ state'[q] \in {"getchar", "done"} /\ l_type[q] = "F_UNLCK"
                                             /\ l_start[q] = l_start[r]
      BY <2>1 DEF Lock!Intruded, Lock!Showing
    <3>2. r # p /\ state[r] = "getchar" BY <2>4, <2>5, <3>1
    <3>3. CASE l_start[r] = l_start[p]
      <4>1. locks[l_start[r]] = {r} BY <1>0, <3>1, <3>2 DEF Lock!OwnersAlone
      <4>2. l_type[p] # "F_WRLCK" BY <1>0, <2>1, <3>2, <3>3, <4>1 DEF Lock!OwnersAlone
      <4> QED BY <1>t, <2>1, <3>3, <4>2
    <3>4. CASE l_start[r] # l_start[p]
      <4>1. record[l_start[r]] # {r} BY <2>6, <3>1, <3>4
      <4>2. PICK q \in Clients : /\ state[q] \in {"getchar", "done"} /\ l_type[q] = "F_UNLCK"
                                 /\ l_start[q] = l_start[r]
        BY <1>0, <3>1, <3>2, <4>1 DEF Lock!Intruded, Lock!Showing
      <4> QED BY <1>t, <2>1, <4>2
    <3> QED BY <3>3, <3>4
  <2>8. Lock!InLine' BY <1>0, <1>t, <2>1 DEF Lock!InLine
  <2>9. Lock!RecordsStay'
    <3>1. SUFFICES ASSUME waits, faults = 0, NEW r \in Clients, state'[r] = "getchar"
                   PROVE  record'[l_start[r]] = {r}
      BY <2>1 DEF Lock!RecordsStay, Lock!Showing
    <3>2. CASE r = p BY <2>4, <3>2
    <3>3. CASE r # p
      <4>1. state[r] = "getchar" BY <2>5, <3>1, <3>3
      <4>2. l_type[r] = "F_WRLCK" /\ l_type[p] = "F_WRLCK" /\ l_start[r] = l_start[p]
        BY <1>0, <2>1, <3>1, <4>1 DEF Lock!InLine
      <4>3. locks[l_start[r]] = {r} /\ locks[l_start[p]] = {p} BY <1>0, <2>1, <4>1, <4>2 DEF Lock!OwnersAlone
      <4> QED BY <3>3, <4>2, <4>3
    <3> QED BY <3>2, <3>3
  <2> QED BY <2>2, <2>3, <2>7, <2>8, <2>9
<1>5. ASSUME NEW p \in Clients, Lock!Unlock(p) PROVE Kept
  <2>1. /\ state[p] = "getchar" /\ state' = [state EXCEPT ![p] = "done"]
        /\ locks' = [locks EXCEPT ![l_start[p]] = @ \ {p}]
        /\ l_type' = [l_type EXCEPT ![p] = "F_UNLCK"]
        /\ UNCHANGED <<waits, record, l_start, faults>>
    BY <1>5 DEF Lock!Unlock, Lock!Goto
  <2>2. Lock!TypeOK' BY <1>t, <2>1 DEF Lock!TypeOK
  <2>3. Lock!OwnersAlone' BY <1>0, <1>t, <2>1 DEF Lock!OwnersAlone
  <2>4. Lock!Intruded' BY <1>0, <1>t, <2>1 DEF Lock!Intruded, Lock!Showing
  <2>5. Lock!InLine' /\ Lock!RecordsStay'
    BY <1>0, <1>t, <2>1 DEF Lock!InLine, Lock!RecordsStay, Lock!Showing
  <2> QED BY <2>2, <2>3, <2>4, <2>5
<1>6. ASSUME UNCHANGED lockVars PROVE Kept
  <2>1. UNCHANGED <<waits, locks, record, l_type, l_start, state, faults>> BY <1>6 DEF lockVars
  <2>2. Lock!TypeOK' BY <1>t, <2>1 DEF Lock!TypeOK
  <2>3. Lock!OwnersAlone' /\ Lock!Intruded' BY <1>0, <2>1 DEF Lock!OwnersAlone, Lock!Intruded, Lock!Showing
  <2>4. Lock!InLine' /\ Lock!RecordsStay' BY <1>0, <2>1 DEF Lock!InLine, Lock!RecordsStay, Lock!Showing
  <2> QED BY <2>2, <2>3, <2>4
<1> HIDE DEF Kept
<1>7. Kept BY <1>1, <1>2, <1>3, <1>4, <1>5, <1>6 DEF Lock!Next, Lock!testlocks, Lock!Works
<1>8. Lock!OverwrittenByUnlock'
  <2>1. (Lock!TypeOK /\ Lock!Intruded => Lock!OverwrittenByUnlock)' BY OverwrittenFollows, PTL
  <2> QED BY <1>7, <2>1 DEF Kept
<1> QED BY <1>7, <1>8 DEF Kept, Lock!IInv

(* testlocks.c keeps the records of processes at work as long as F_SETLKW  *)
(* never fails, and a record is only overwritten by a process that has     *)
(* "locked" with F_UNLCK: for any number of processes and regions.         *)
THEOREM RecordsKeptAlways == Programs => []RecordsKept
BY LockInit, LockStep, OneRuns, PTL DEF Programs, Boot, RecordsKept

-------------------------------------------------------------------------------
(* Signals.                                                                *)

LEMMA SigInit == Sig!Init => Sig!IInv
BY DEF Sig!Init, Sig!IInv, Sig!TypeOK, Sig!Prepared, Sig!SaysGoodbye, Sig!Members

LEMMA SigStep == Sig!IInv /\ [Sig!Next]_sigVars => Sig!IInv'
<1> SUFFICES ASSUME Sig!IInv, [Sig!Next]_sigVars PROVE Sig!IInv' OBVIOUS
<1> DEFINE Places == {"absent", "fork", "mask", "sigaction", "pid", "sleep", "close", "read",
                      "kill", "done", "failed", "killed", "handled"}
<1>0. Sig!TypeOK /\ Sig!Prepared BY DEF Sig!IInv
<1>t. /\ place \in [Sig!Members -> Places] /\ writers \subseteq Sig!Members
      /\ "receiver" \in Sig!Members /\ "sender" \in Sig!Members
  BY <1>0 DEF Sig!TypeOK, Sig!Members
<1>1. place' \in [Sig!Members -> Places] /\ writers' \subseteq Sig!Members
  BY <1>t DEF Sig!Next, Sig!receiver, Sig!sender, Sig!Fork, Sig!Mask, Sig!Install, Sig!Publish, Sig!StartSender,
              Sig!CloseWrite, Sig!Read, Sig!KillReceiver, Sig!User, Sig!Goes, Sig!Ends, Sig!Terminated, sigVars
<1>2. forked' \in BOOLEAN /\ handler' \in BOOLEAN /\ blocked' \in BOOLEAN /\ published' \in BOOLEAN
  BY <1>0, Zenon
     DEF Sig!TypeOK, Sig!Next, Sig!receiver, Sig!sender, Sig!Fork, Sig!Mask, Sig!Install, Sig!Publish,
         Sig!StartSender, Sig!CloseWrite, Sig!Read, Sig!KillReceiver, Sig!User, sigVars
<1> DEFINE r == place["receiver"]
<1>3. Sig!Prepared'
  <2>0. /\ r \in {"sigaction", "pid", "sleep"} => blocked
        /\ r \in {"pid", "sleep"} => handler
        /\ published => r \in {"sleep", "handled"}
    BY <1>0 DEF Sig!Prepared
  <2> USE <1>t, <2>0 DEF Sig!Prepared, Sig!Goes, Sig!Ends
  <2>1. CASE Sig!Fork BY <2>1 DEF Sig!Fork
  <2>2. CASE Sig!Mask BY <2>2 DEF Sig!Mask
  <2>3. CASE Sig!Install BY <2>3 DEF Sig!Install
  <2>4. CASE Sig!Publish BY <2>4 DEF Sig!Publish
  <2>5. CASE Sig!StartSender \/ Sig!CloseWrite \/ Sig!Read
    <3>1. r' = r /\ UNCHANGED <<handler, blocked, published>>
      BY <2>5 DEF Sig!StartSender, Sig!CloseWrite, Sig!Read
    <3> QED BY <3>1
  <2>6. CASE Sig!KillReceiver
    <3>1. UNCHANGED <<handler, blocked, published>> BY <2>6 DEF Sig!KillReceiver
    <3>2. r' = r \/ r' = Sig!Terminated BY <2>6 DEF Sig!KillReceiver
    <3>3. r' = r \/ ~ Sig!Over("receiver") BY <2>6 DEF Sig!KillReceiver
    <3> QED BY <3>1, <3>2, <3>3 DEF Sig!Terminated, Sig!Over
  <2>7. CASE Sig!User
    <3>1. UNCHANGED <<handler, blocked, published>> BY <2>7 DEF Sig!User
    <3>2. \/ ~ Sig!Over("receiver") /\ r' = Sig!Terminated
          \/ ~ Sig!Over("receiver") /\ ~ blocked /\ r' = "killed"
          \/ r' = r
      BY <2>7 DEF Sig!User
    <3> QED BY <3>1, <3>2 DEF Sig!Terminated, Sig!Over
  <2>8. CASE UNCHANGED sigVars BY <2>8 DEF sigVars
  <2> QED BY <2>1, <2>2, <2>3, <2>4, <2>5, <2>6, <2>7, <2>8 DEF Sig!Next, Sig!receiver, Sig!sender
<1>4. Sig!TypeOK' BY <1>1, <1>2 DEF Sig!TypeOK
<1>5. Sig!SaysGoodbye' BY <1>3 DEF Sig!Prepared, Sig!SaysGoodbye
<1> QED BY <1>3, <1>4, <1>5 DEF Sig!IInv

-------------------------------------------------------------------------------
(* The FIFO.                                                               *)

LEMMA FifoInit == Fifo!Init => Fifo!IInv
BY DEF Fifo!Init, Fifo!IInv, Fifo!TypeOK, Fifo!NoneBeyond, Fifo!FirstKeepsName, Fifo!Both

LEMMA FifoStep == Fifo!IInv /\ [Fifo!Next]_fifoVars => Fifo!IInv'
<1> SUFFICES ASSUME Fifo!IInv, [Fifo!Next]_fifoVars PROVE Fifo!IInv' OBVIOUS
<1> USE IpcAssumption DEF Fifo!IInv, Fifo!TypeOK, Fifo!NoneBeyond, Fifo!FirstKeepsName, Fifo!Both, Fifo!Goes, Fifo!Named,
            Fifo!Counted, Fifo!Gone
<1> DEFINE Places == {"absent", "mkfifo", "open", "wait", "go", "unlink", "done", "killed"}
<1>t. step \in [Clients \cup {"server"} -> Places] OBVIOUS
<1>p. \A f : /\ Fifo!Partners("server", f) = {c \in Clients : file[c] = f /\ step[c] \in {"wait", "go"}}
             /\ \A c \in Clients : Fifo!Partners(c, f) = {s \in {"server"} : file[s] = f /\ step[s] \in {"wait", "go"}}
  BY DEF Fifo!Partners, Fifo!Holders, Fifo!Partner
<1>1. ASSUME NEW p \in Clients \cup {"server"}, Fifo!Start(p) PROVE Fifo!IInv'
  <2>1. CASE p = "server"
    <3>1. /\ step' = [step EXCEPT !["server"] = "mkfifo"] /\ runs' = runs + 1
          /\ UNCHANGED <<name, files, regular, file>>
      BY <1>1, <2>1 DEF Fifo!Start
    <3>2. step'["server"] = "mkfifo" /\ \A c \in Clients : step'[c] = step[c] BY <1>t, <3>1
    <3>3. Fifo!TypeOK' BY <3>1
    <3>4. Fifo!NoneBeyond'
      <4>1. CASE runs = 0 BY <3>1, <3>2, <4>1
      <4>2. CASE runs # 0 BY <3>1, <3>2, <4>2
      <4> QED BY <4>1, <4>2
    <3>5. Fifo!FirstKeepsName' BY <3>1, <3>2
    <3> QED BY <3>3, <3>4, <3>5
  <2>2. CASE p # "server" BY <1>1, <2>2 DEF Fifo!Start
  <2> QED BY <2>1, <2>2
<1>11. ASSUME NEW p \in Clients \cup {"server"}, Fifo!Kill(p) PROVE Fifo!IInv' BY <1>11 DEF Fifo!Kill
<1>2. CASE Fifo!Mkfifo BY <1>2 DEF Fifo!Mkfifo
<1>3. CASE Fifo!OpenWrite
  <2>1. /\ step["server"] = "open"
        /\ IF name = 0
           THEN name' = files + 1 /\ files' = files + 1 /\ regular' = regular \cup {files + 1}
           ELSE UNCHANGED <<name, files, regular>>
        /\ file' = [file EXCEPT !["server"] = name']
        /\ runs' = runs
    BY <1>3 DEF Fifo!OpenWrite, Fifo!Opens
  <2>2. Fifo!TypeOK'
    <3>1. step' \in [Clients \cup {"server"} -> Places] BY <1>t, <1>3 DEF Fifo!OpenWrite, Fifo!Opens
    <3>2. name' \in 0 .. files' /\ files' \in Nat /\ regular' \subseteq 1 .. files'
      <4>1. CASE name = 0
        <5>1. /\ name' = files + 1 /\ files' = files + 1 /\ files \in Nat
              /\ \A x \in regular' : x = files + 1 \/ x \in 1 .. files
          <6>1. name' = files + 1 /\ files' = files + 1 /\ regular' = regular \cup {files + 1} BY <2>1, <4>1
          <6>2. files \in Nat /\ regular \subseteq 1 .. files BY DEF Fifo!TypeOK
          <6> QED BY <6>1, <6>2
        <5>2. name' \in 0 .. files' /\ files' \in Nat BY <5>1
        <5>3. \A x \in regular' : x \in 1 .. files' BY <5>1
        <5> QED BY <5>2, <5>3
      <4>2. CASE name # 0 BY <2>1, <4>2
      <4> QED BY <4>1, <4>2
    <3>3. file' \in [Clients \cup {"server"} -> Nat] BY <2>1, <3>2
    <3> QED BY <2>1, <3>1, <3>2, <3>3
  <2>3. step'["server"] \in {"wait", "go"} BY <1>3 DEF Fifo!OpenWrite, Fifo!Opens
  <2>4. CASE runs = 1
    <3>1. name # 0 /\ name \notin regular /\ UNCHANGED <<name, files, regular>> BY <2>1, <2>4
    <3>2. \A c \in Clients : /\ step[c] \in {"absent", "open", "wait", "killed"}
                             /\ step[c] = "wait" => file[c] = name
      BY <2>1, <2>4
    <3>3. \A c \in Clients : IF c \in Fifo!Partners("server", name) THEN step'[c] = "go" ELSE step'[c] = step[c]
      BY <1>3, <3>1 DEF Fifo!OpenWrite, Fifo!Opens
    <3>4. \A c \in Clients : step'[c] \in {"absent", "open", "go", "killed"} BY <1>p, <3>2, <3>3
    <3>5. Fifo!Partners("server", name) # {} => step'["server"] = "go"
      BY <1>3, <3>1 DEF Fifo!OpenWrite, Fifo!Opens
    <3>6. \A c \in Clients : step'[c] = "go" => file'[c] = name /\ step'["server"] = "go"
      BY <1>p, <2>1, <3>2, <3>3, <3>5
    <3>7. file'["server"] = name BY <2>1, <3>1
    <3> QED BY <2>1, <2>2, <2>3, <3>1, <3>4, <3>6, <3>7
  <2>5. CASE runs # 1 BY <2>1, <2>2, <2>3, <2>5
  <2> QED BY <2>4, <2>5
<1>4. CASE Fifo!Send BY <1>4 DEF Fifo!Send
<1>5. CASE Fifo!Quit BY <1>5 DEF Fifo!Quit
<1>6. ASSUME NEW c \in Clients, Fifo!OpenRead(c) PROVE Fifo!IInv'
  BY <1>6 DEF Fifo!OpenRead, Fifo!Opens, Fifo!Partners, Fifo!Holders, Fifo!Partner
<1>7. ASSUME NEW c \in Clients, Fifo!PrintLine(c) PROVE Fifo!IInv' BY <1>7 DEF Fifo!PrintLine
<1>8. ASSUME NEW c \in Clients, Fifo!EndOfFile(c) PROVE Fifo!IInv'
  BY <1>8 DEF Fifo!EndOfFile, Fifo!Partners, Fifo!Holders, Fifo!Partner
<1>9. ASSUME NEW p \in Clients \cup {"server"}, Fifo!Unlink(p) PROVE Fifo!IInv' BY <1>9 DEF Fifo!Unlink
<1>10. CASE UNCHANGED fifoVars BY <1>10 DEF fifoVars
<1> QED BY <1>1, <1>2, <1>3, <1>4, <1>5, <1>6, <1>7, <1>8, <1>9, <1>10, <1>11
        DEF Fifo!Next, Fifo!typeserver, Fifo!typeclient

-------------------------------------------------------------------------------
(* Pipes.                                                                  *)

LEMMA PipeInit == Pipe!Init => Pipe!IInv
<1> SUFFICES ASSUME Pipe!Init PROVE Pipe!IInv OBVIOUS
<1> USE DEF Pipe!Init, Pipe!Members, Pipe!Over
<1>1. Pipe!TypeOK BY DEF Pipe!TypeOK
<1>2. Pipe!NoneLost BY DEF Pipe!NoneLost
<1>3. Pipe!EndsHeld BY DEF Pipe!EndsHeld, Pipe!Unshut
<1>4. Pipe!Places BY DEF Pipe!Places, Pipe!ToRead
<1>5. Pipe!SomeoneReads BY DEF Pipe!SomeoneReads
<1>6. Pipe!ShownOnce BY DEF Pipe!ShownOnce
<1> QED BY <1>1, <1>2, <1>3, <1>4, <1>5, <1>6 DEF Pipe!IInv

(* What ShownOnce says follows from who can be where.                      *)
LEMMA ShownFollows == Pipe!TypeOK /\ Pipe!NoneLost /\ Pipe!Places /\ Pipe!SomeoneReads => Pipe!ShownOnce
<1> SUFFICES ASSUME Pipe!TypeOK, Pipe!NoneLost, Pipe!Places, Pipe!SomeoneReads PROVE Pipe!ShownOnce OBVIOUS
<1> USE DEF Pipe!Members, Pipe!Over, Pipe!ToRead
<1>1. ASSUME \A p \in Pipe!Members : stage[p] \in Pipe!Over, stage["parent"] # "crashed"
      PROVE  pipe = 0
  <2>1. CASE task = "text" BY <1>1, <2>1 DEF Pipe!SomeoneReads, Pipe!TypeOK
  <2>2. CASE task # "text" BY <1>1, <2>2 DEF Pipe!SomeoneReads, Pipe!Places, Pipe!TypeOK, Pipe!NoneLost
  <2> QED BY <2>1, <2>2
<1>2. stage["parent"] = "killed" => task = "netstat" /\ stage["child"] = "absent"
  BY DEF Pipe!Places, Pipe!TypeOK
<1>3. stage["child"] = "killed" => stage["parent"] = "crashed" BY DEF Pipe!Places, Pipe!TypeOK
<1>4. pipe = 0 => shown["parent"] + shown["child"] + shown["grandchild"] = wrote
  BY DEF Pipe!NoneLost, Pipe!TypeOK
<1> QED BY <1>1, <1>2, <1>3, <1>4 DEF Pipe!ShownOnce

(* The text of a write goes into the pipe, and out of it to who reads it.  *)
LEMMA PipeCounts ==
  ASSUME Pipe!TypeOK, Pipe!NoneLost, NEW p \in Pipe!Members, NEW n \in 1 .. pipe,
         pipe' = pipe - n, shown' = [shown EXCEPT ![p] = @ + n], UNCHANGED wrote
  PROVE  Pipe!NoneLost'
<1> USE DEF Pipe!TypeOK, Pipe!NoneLost, Pipe!Members
<1>1. CASE p = "parent"
  <2>1. shown'["parent"] = shown["parent"] + n /\ shown'["child"] = shown["child"] /\ shown'["grandchild"] = shown["grandchild"]
    BY <1>1
  <2> QED BY <2>1
<1>2. CASE p = "child"
  <2>1. shown'["parent"] = shown["parent"] /\ shown'["child"] = shown["child"] + n /\ shown'["grandchild"] = shown["grandchild"]
    BY <1>2
  <2> QED BY <2>1
<1>3. CASE p = "grandchild"
  <2>1. shown'["parent"] = shown["parent"] /\ shown'["child"] = shown["child"] /\ shown'["grandchild"] = shown["grandchild"] + n
    BY <1>3
  <2> QED BY <2>1
<1> QED BY <1>1, <1>2, <1>3

LEMMA PipeStep == Pipe!IInv /\ [Pipe!Next]_pipeVars => Pipe!IInv'
<1> SUFFICES ASSUME Pipe!IInv, [Pipe!Next]_pipeVars PROVE Pipe!IInv' OBVIOUS
<1>0. Pipe!TypeOK /\ Pipe!NoneLost /\ Pipe!EndsHeld /\ Pipe!Places /\ Pipe!SomeoneReads BY DEF Pipe!IInv
<1> DEFINE Kept == Pipe!TypeOK' /\ Pipe!NoneLost' /\ Pipe!EndsHeld' /\ Pipe!Places' /\ Pipe!SomeoneReads'
<1> USE <1>0 DEF Pipe!TypeOK, Pipe!EndsHeld, Pipe!Unshut, Pipe!ToRead, Pipe!Members, Pipe!Over,
                 Pipe!Goes, Pipe!Keeps, Pipe!NothingPassed, Pipe!Having
<1>1. ASSUME Pipe!Fork PROVE Kept
  <2> USE <1>1 DEF Pipe!Fork
  <2>1. Pipe!TypeOK' OBVIOUS
  <2>2. Pipe!NoneLost' BY DEF Pipe!NoneLost
  <2>3. Pipe!EndsHeld' OBVIOUS
  <2>4. Pipe!Places' BY DEF Pipe!Places, Pipe!SomeoneReads
  <2>5. Pipe!SomeoneReads' BY DEF Pipe!Places, Pipe!SomeoneReads, Pipe!NoneLost
  <2> QED BY <2>1, <2>2, <2>3, <2>4, <2>5
<1>2. ASSUME Pipe!ForkFails PROVE Kept
  <2> USE <1>2 DEF Pipe!ForkFails
  <2>1. Pipe!TypeOK' OBVIOUS
  <2>2. Pipe!NoneLost' BY DEF Pipe!NoneLost
  <2>3. Pipe!EndsHeld' OBVIOUS
  <2>4. Pipe!Places' BY DEF Pipe!Places, Pipe!SomeoneReads
  <2>5. Pipe!SomeoneReads' BY DEF Pipe!Places, Pipe!SomeoneReads, Pipe!NoneLost
  <2> QED BY <2>1, <2>2, <2>3, <2>4, <2>5
<1>3. ASSUME NEW p \in Pipe!Members, Pipe!ForkAgain(p) PROVE Kept
  <2> USE <1>3 DEF Pipe!ForkAgain
  <2>1. Pipe!TypeOK' OBVIOUS
  <2>2. Pipe!NoneLost' BY DEF Pipe!NoneLost
  <2>3. Pipe!EndsHeld' OBVIOUS
  <2>4. Pipe!Places' BY DEF Pipe!Places, Pipe!SomeoneReads
  <2>5. Pipe!SomeoneReads' BY DEF Pipe!Places, Pipe!SomeoneReads, Pipe!NoneLost
  <2> QED BY <2>1, <2>2, <2>3, <2>4, <2>5
<1>4. ASSUME Pipe!OpenLog PROVE Kept
  <2> USE <1>4 DEF Pipe!OpenLog
  <2>1. Pipe!TypeOK' OBVIOUS
  <2>2. Pipe!NoneLost' BY DEF Pipe!NoneLost
  <2>3. Pipe!EndsHeld' OBVIOUS
  <2>4. Pipe!Places' BY DEF Pipe!Places, Pipe!SomeoneReads
  <2>5. Pipe!SomeoneReads' BY DEF Pipe!Places, Pipe!SomeoneReads, Pipe!NoneLost
  <2> QED BY <2>1, <2>2, <2>3, <2>4, <2>5
<1>5. ASSUME Pipe!Crash PROVE Kept
  <2> USE <1>5 DEF Pipe!Crash
  <2>1. Pipe!TypeOK' OBVIOUS
  <2>2. Pipe!NoneLost' BY DEF Pipe!NoneLost
  <2>3. Pipe!EndsHeld' OBVIOUS
  <2>4. Pipe!Places' BY DEF Pipe!Places, Pipe!SomeoneReads
  <2>5. Pipe!SomeoneReads' BY DEF Pipe!Places, Pipe!SomeoneReads, Pipe!NoneLost
  <2> QED BY <2>1, <2>2, <2>3, <2>4, <2>5
<1>6. ASSUME NEW p \in Pipe!Members, Pipe!CloseRead(p) PROVE Kept
  <2> USE <1>6 DEF Pipe!CloseRead
  <2>1. Pipe!TypeOK' OBVIOUS
  <2>2. Pipe!NoneLost' BY DEF Pipe!NoneLost
  <2>3. Pipe!EndsHeld' OBVIOUS
  <2>4. Pipe!Places' BY DEF Pipe!Places, Pipe!SomeoneReads
  <2>5. Pipe!SomeoneReads' BY DEF Pipe!Places, Pipe!SomeoneReads, Pipe!NoneLost
  <2> QED BY <2>1, <2>2, <2>3, <2>4, <2>5
<1>7. ASSUME NEW p \in Pipe!Members, Pipe!CloseWrite(p) PROVE Kept
  <2> USE <1>7 DEF Pipe!CloseWrite
  <2>1. Pipe!TypeOK' OBVIOUS
  <2>2. Pipe!NoneLost' BY DEF Pipe!NoneLost
  <2>3. Pipe!EndsHeld' OBVIOUS
  <2>4. Pipe!Places' BY DEF Pipe!Places, Pipe!SomeoneReads
  <2>5. Pipe!SomeoneReads' BY DEF Pipe!Places, Pipe!SomeoneReads, Pipe!NoneLost
  <2> QED BY <2>1, <2>2, <2>3, <2>4, <2>5
<1>8. ASSUME NEW p \in Pipe!Members, Pipe!Write(p) PROVE Kept
  <2> USE <1>8 DEF Pipe!Write
  <2>1. Pipe!TypeOK' OBVIOUS
  <2>2. Pipe!NoneLost' BY DEF Pipe!NoneLost
  <2>3. Pipe!EndsHeld' OBVIOUS
  <2>4. Pipe!Places' BY DEF Pipe!Places, Pipe!SomeoneReads
  <2>5. Pipe!SomeoneReads' BY DEF Pipe!Places, Pipe!SomeoneReads, Pipe!NoneLost
  <2> QED BY <2>1, <2>2, <2>3, <2>4, <2>5
<1>9. ASSUME NEW p \in Pipe!Members, Pipe!Read(p) PROVE Kept
  <2> USE <1>9 DEF Pipe!Read
  <2>1. Pipe!TypeOK' OBVIOUS
  <2>2. Pipe!NoneLost' BY PipeCounts DEF Pipe!NoneLost
  <2>3. Pipe!EndsHeld' OBVIOUS
  <2>4. Pipe!Places' BY DEF Pipe!Places, Pipe!SomeoneReads
  <2>5. Pipe!SomeoneReads' BY DEF Pipe!Places, Pipe!SomeoneReads, Pipe!NoneLost
  <2> QED BY <2>1, <2>2, <2>3, <2>4, <2>5
<1>10. ASSUME NEW p \in Pipe!Members, Pipe!Close(p) PROVE Kept
  <2> USE <1>10 DEF Pipe!Close
  <2>1. Pipe!TypeOK' OBVIOUS
  <2>2. Pipe!NoneLost' BY DEF Pipe!NoneLost
  <2>3. Pipe!EndsHeld' OBVIOUS
  <2>4. Pipe!Places' BY DEF Pipe!Places, Pipe!SomeoneReads
  <2>5. Pipe!SomeoneReads' BY DEF Pipe!Places, Pipe!SomeoneReads, Pipe!NoneLost
  <2> QED BY <2>1, <2>2, <2>3, <2>4, <2>5
<1>11. ASSUME UNCHANGED pipeVars PROVE Kept
  BY <1>11 DEF pipeVars, Pipe!NoneLost, Pipe!Places, Pipe!SomeoneReads
<1> HIDE DEF Kept
<1>12. Kept
  BY <1>1, <1>2, <1>3, <1>4, <1>5, <1>6, <1>7, <1>8, <1>9, <1>10, <1>11 DEF Pipe!Next, Pipe!process
<1>13. Pipe!ShownOnce'
  <2>1. (Pipe!TypeOK /\ Pipe!NoneLost /\ Pipe!Places /\ Pipe!SomeoneReads => Pipe!ShownOnce)' BY ShownFollows, PTL
  <2> QED BY <1>12, <2>1 DEF Kept
<1> QED BY <1>12, <1>13 DEF Kept, Pipe!IInv

-------------------------------------------------------------------------------
(* Semaphores.                                                             *)

LEMMA TurnsInit == Init => IInv
<1> SUFFICES ASSUME Init PROVE IInv OBVIOUS
<1> USE SemAssumption DEF Init
<1>0. /\ pc["server"] = "create" /\ pc["client"] = "absent" /\ pc \in [Procs -> PCs]
      /\ sem[0] = 0 /\ sem[1] = 0 /\ undo[0] = 0 /\ undo[1] = 0
  BY DEF Procs, PCs
<1>1. sem \in [0 .. 1 -> Nat] /\ undo \in [0 .. 1 -> Int] OBVIOUS
<1>2. TypeOK
  <2>1. semid \in BOOLEAN /\ quit \in BOOLEAN /\ lost \in BOOLEAN BY Zenon
  <2>2. owner \in Procs \cup {"nobody"} /\ clients \in 0 .. CLIENTS /\ typed \in 0 .. LINES + 1 OBVIOUS
  <2>3. taken \in Nat /\ credit \in 0 .. taken /\ exists \subseteq {"sem", "shm"} /\ misread \subseteq Procs OBVIOUS
  <2> QED BY <1>0, <1>1, <2>1, <2>2, <2>3 DEF TypeOK
<1>3. Existing BY <1>0 DEF Existing
<1>4. NoTurnYet /\ Balance BY <1>0 DEF NoTurnYet, Balance, In, Usable, Gone, Section
<1>5. Delivered /\ TurnsAreCounted /\ MutualExclusion /\ ServerReadsClient
  BY DEF Delivered, TurnsAreCounted, MutualExclusion, ServerReadsClient
<1> QED BY <1>2, <1>3, <1>4, <1>5 DEF IInv

(* The server makes the set and the memory, opens, and removes them.       *)
LEMMA ServerStep == IInv /\ (CreateSem \/ CreateShm \/ Greet \/ Open \/ Remove) => IInv'
<1> SUFFICES ASSUME IInv PROVE CreateSem \/ CreateShm \/ Greet \/ Open \/ Remove => IInv' OBVIOUS
<1> USE SemAssumption
        DEF IInv, TypeOK, Existing, NoTurnYet, Balance, Delivered, TurnsAreCounted, MutualExclusion, ServerReadsClient,
            In, Tokens, Usable, Gone, Section, PCs, Procs, Goto, Sem, Other, Quiet, shared, block, history
<1>1. ASSUME CreateSem PROVE IInv'
  <2>1. /\ pc["server"] = "create" /\ pc' = [pc EXCEPT !["server"] = "shm"] /\ exists' = exists \cup {"sem"}
        /\ sem'[0] = 0 /\ sem'[1] = sem[1] /\ ~ semid
        /\ UNCHANGED <<undo, semid, owner, quit, clients, typed, taken, credit, lost, misread>>
    BY <1>1 DEF CreateSem
  <2>2. TypeOK' BY <1>1 DEF CreateSem
  <2>3. Existing' BY <1>1 DEF CreateSem
  <2>4. NoTurnYet' BY <1>1 DEF CreateSem
  <2>5. Balance' BY <2>1
  <2>6. Delivered' BY <1>1 DEF CreateSem
  <2>7. TurnsAreCounted' BY <1>1 DEF CreateSem
  <2>8. MutualExclusion' BY <1>1 DEF CreateSem
  <2>9. ServerReadsClient' BY <1>1 DEF CreateSem
  <2> QED BY <2>2, <2>3, <2>4, <2>5, <2>6, <2>7, <2>8, <2>9
<1>2. ASSUME CreateShm PROVE IInv' BY <1>2 DEF CreateShm
<1>3. ASSUME Greet PROVE IInv'
  <2>1. TypeOK' BY <1>3 DEF Greet
  <2>2. Existing' BY <1>3 DEF Greet
  <2>3. NoTurnYet' BY <1>3 DEF Greet
  <2>4. Balance' BY <1>3 DEF Greet
  <2>5. Delivered' BY <1>3 DEF Greet
  <2>6. TurnsAreCounted' BY <1>3 DEF Greet
  <2>7. MutualExclusion' BY <1>3 DEF Greet
  <2>8. ServerReadsClient' BY <1>3 DEF Greet
  <2> QED BY <2>1, <2>2, <2>3, <2>4, <2>5, <2>6, <2>7, <2>8
<1>4. ASSUME Open PROVE IInv' BY <1>4 DEF Open, SignalTo
<1>5. ASSUME Remove PROVE IInv'
  <2>1. CASE pc["server"] = "rmshm"
    <3>1. /\ pc' = [pc EXCEPT !["server"] = "rmsem"] /\ exists' = exists \ {"shm"}
          /\ UNCHANGED <<sem, undo, semid, owner, quit, clients, typed, taken, credit, lost, misread>>
      BY <1>5, <2>1 DEF Remove
    <3> QED BY <2>1, <3>1
  <2>2. CASE pc["server"] # "rmshm"
    <3>1. /\ pc["server"] = "rmsem" /\ pc' = [pc EXCEPT !["server"] = "done", !["client"] = IF @ = "asleep" THEN "print" ELSE @]
          /\ exists' = exists \ {"sem"}
          /\ UNCHANGED <<sem, undo, semid, owner, quit, clients, typed, taken, credit, lost, misread>>
      BY <1>5, <2>2 DEF Remove
    <3>2. pc'["server"] = "done" /\ pc'["client"] \in {pc["client"], "print"} /\ "sem" \notin exists' BY <3>1
    <3>3. pc'["client"] \in {"absent", "done"} => pc["client"] = pc'["client"] BY <3>2
    <3>4. TypeOK' BY <3>1
    <3>5. Existing' /\ NoTurnYet' /\ Balance' BY <3>1, <3>2, <3>3
    <3>6. Delivered' /\ TurnsAreCounted' BY <3>2
    <3>7. MutualExclusion' /\ ServerReadsClient' BY <3>1, <3>2
    <3> QED BY <3>4, <3>5, <3>6, <3>7
  <2> QED BY <2>1, <2>2
<1> QED BY <1>1, <1>2, <1>3, <1>4, <1>5

(* A process tests the string, takes its turn, prints what it finds, and   *)
(* hands the turn over.                                                    *)
LEMMA TurnStep == ASSUME NEW p \in Procs PROVE IInv /\ (Test(p) \/ Take(p) \/ Show(p) \/ Signal(p)) => IInv'
<1> SUFFICES ASSUME IInv PROVE Test(p) \/ Take(p) \/ Show(p) \/ Signal(p) => IInv' OBVIOUS
<1> USE SemAssumption
        DEF IInv, TypeOK, Existing, NoTurnYet, Balance, Delivered, TurnsAreCounted, MutualExclusion, ServerReadsClient,
            In, Tokens, Usable, Gone, Section, PCs, Procs, Goto, Sem, Other, Quiet, Note, shared, block, history
<1>1. ASSUME Test(p) PROVE IInv'
  <2>1. CASE p = "server" BY <1>1, <2>1 DEF Test
  <2>2. CASE p = "client" BY <1>1, <2>2 DEF Test
  <2> QED BY <2>1, <2>2
<1>2. ASSUME Take(p) PROVE IInv'
  <2>1. UNCHANGED <<exists, semid, owner, quit, clients, typed, credit, lost, misread>> BY <1>2 DEF Take
  <2>2. CASE ~ Usable(p) \/ sem[Sem[p]] = 0
    <3>1. UNCHANGED <<sem, undo, taken>> /\ pc[p] = "take"
          /\ pc' = [pc EXCEPT ![p] = IF ~ Usable(p) THEN "print" ELSE "asleep"]
      BY <1>2, <2>2 DEF Take
    <3> QED BY <2>1, <3>1
  <2>3. CASE Usable(p) /\ sem[Sem[p]] # 0
    <3>1. /\ pc[p] = "take" /\ pc' = [pc EXCEPT ![p] = "print"]
          /\ sem' = [sem EXCEPT ![Sem[p]] = @ - 1]
          /\ undo' = IF p = "client" THEN [undo EXCEPT ![Sem[p]] = @ + 1] ELSE undo
          /\ taken' = IF p = "server" THEN taken + 1 ELSE taken
      BY <1>2, <2>3 DEF Take
    <3>2. CASE p = "server"
      <4>1. sem'[0] = sem[0] - 1 /\ sem'[1] = sem[1] /\ undo' = undo /\ taken' = taken + 1 BY <3>1, <3>2
      <4> QED BY <2>1, <2>3, <3>1, <3>2, <4>1
    <3>3. CASE p = "client"
      <4>1. sem'[1] = sem[1] - 1 /\ sem'[0] = sem[0] /\ undo'[0] = undo[0] /\ undo'[1] = undo[1] + 1 /\ taken' = taken
        BY <3>1, <3>3
      <4>2. pc'["client"] = "print" /\ pc'["server"] = pc["server"] BY <3>1, <3>3
      <4>3. In("client") = 0 /\ In("client")' = 1 /\ In("server")' = In("server") BY <2>1, <2>3, <3>1, <3>3, <4>2
      <4>4. TypeOK' BY <2>1, <2>3, <3>1, <3>3, <4>1
      <4>5. Existing' /\ Delivered' /\ ServerReadsClient' BY <2>1, <4>1, <4>2
      <4>6. NoTurnYet' /\ Balance' BY <2>1, <2>3, <3>3, <4>1, <4>2, <4>3
      <4>7. TurnsAreCounted'
        <5>1. sem[0] \in Nat /\ sem[1] \in Nat /\ In("server") \in {0, 1} /\ credit \in Nat OBVIOUS
        <5>2. Tokens' = Tokens BY <4>1, <4>3, <5>1
        <5> QED BY <2>1, <4>2, <5>2
      <4>8. MutualExclusion' BY <2>1, <2>3, <3>3, <4>1, <4>2
      <4> QED BY <4>4, <4>5, <4>6, <4>7, <4>8
    <3> QED BY <3>2, <3>3
  <2> QED BY <2>2, <2>3
<1>3. ASSUME Show(p) PROVE IInv' BY <1>3 DEF Show
<1>4. ASSUME Signal(p) PROVE IInv' BY <1>4 DEF Signal, SignalTo
<1> QED BY <1>1, <1>2, <1>3, <1>4

(* The end of the client: the kernel takes its signals back, and gives the *)
(* turns it took again.                                                    *)
LEMMA EndStep == IInv /\ (Exit \/ Kill) => IInv'
<1> SUFFICES ASSUME IInv PROVE Exit \/ Kill => IInv' OBVIOUS
<1> USE SemAssumption
        DEF IInv, TypeOK, Existing, NoTurnYet, Balance, Delivered, TurnsAreCounted, MutualExclusion, ServerReadsClient,
            In, Tokens, Usable, Gone, Section, PCs, Procs, Goto, Sem, Other, End, Most, block
<1>1. ASSUME Exit PROVE IInv'
  <2>1. TypeOK' BY <1>1 DEF Exit
  <2>2. Existing' BY <1>1 DEF Exit
  <2>3. NoTurnYet' BY <1>1 DEF Exit
  <2>4. Balance' BY <1>1 DEF Exit
  <2>5. Delivered' BY <1>1 DEF Exit
  <2>6. TurnsAreCounted' BY <1>1 DEF Exit
  <2>7. MutualExclusion' BY <1>1 DEF Exit
  <2>8. ServerReadsClient' BY <1>1 DEF Exit
  <2> QED BY <2>1, <2>2, <2>3, <2>4, <2>5, <2>6, <2>7, <2>8
<1>2. ASSUME Kill PROVE IInv'
  <2>1. TypeOK' BY <1>2 DEF Kill
  <2>2. Existing' BY <1>2 DEF Kill
  <2>3. NoTurnYet' BY <1>2 DEF Kill
  <2>4. Balance' BY <1>2 DEF Kill
  <2>5. Delivered' BY <1>2 DEF Kill
  <2>6. TurnsAreCounted' BY <1>2 DEF Kill
  <2>7. MutualExclusion' BY <1>2 DEF Kill
  <2>8. ServerReadsClient' BY <1>2 DEF Kill
  <2> QED BY <2>1, <2>2, <2>3, <2>4, <2>5, <2>6, <2>7, <2>8
<1> QED BY <1>1, <1>2

(* What semserv and semcli do besides.                                     *)
LEMMA ChatStep == IInv /\ (Chat!Start \/ Chat!Reply \/ Chat!Write \/ Chat!Type \/ Chat!Typed) => IInv'
<1> SUFFICES ASSUME IInv PROVE Chat!Start \/ Chat!Reply \/ Chat!Write \/ Chat!Type \/ Chat!Typed => IInv' OBVIOUS
<1> USE SemAssumption
        DEF IInv, TypeOK, Existing, NoTurnYet, Balance, Delivered, TurnsAreCounted, MutualExclusion, ServerReadsClient,
            In, Tokens, Usable, Gone, Section, PCs, Procs, Goto, Sem, Other, Chat!Goto, Chat!Gone, Chat!Quiet, Chat!shared, Chat!block, Chat!history
<1>1. ASSUME Chat!Start PROVE IInv' BY <1>1 DEF Chat!Start
<1>2. ASSUME Chat!Reply PROVE IInv' BY <1>2 DEF Chat!Reply
<1>3. ASSUME Chat!Write PROVE IInv'
  <2>1. TypeOK' BY <1>3 DEF Chat!Write
  <2>2. Existing' BY <1>3 DEF Chat!Write
  <2>3. NoTurnYet' BY <1>3 DEF Chat!Write
  <2>4. Balance' BY <1>3 DEF Chat!Write
  <2>5. Delivered' BY <1>3 DEF Chat!Write
  <2>6. TurnsAreCounted' BY <1>3 DEF Chat!Write
  <2>7. MutualExclusion' BY <1>3 DEF Chat!Write
  <2>8. ServerReadsClient' BY <1>3 DEF Chat!Write
  <2> QED BY <2>1, <2>2, <2>3, <2>4, <2>5, <2>6, <2>7, <2>8
<1>4. ASSUME Chat!Type PROVE IInv'
  <2>1. TypeOK' BY <1>4 DEF Chat!Type
  <2>2. Existing' BY <1>4 DEF Chat!Type
  <2>3. NoTurnYet' BY <1>4 DEF Chat!Type
  <2>4. Balance' BY <1>4 DEF Chat!Type
  <2>5. Delivered' BY <1>4 DEF Chat!Type
  <2>6. TurnsAreCounted' BY <1>4 DEF Chat!Type
  <2>7. MutualExclusion' BY <1>4 DEF Chat!Type
  <2>8. ServerReadsClient' BY <1>4 DEF Chat!Type
  <2> QED BY <2>1, <2>2, <2>3, <2>4, <2>5, <2>6, <2>7, <2>8
<1>5. ASSUME Chat!Typed PROVE IInv'
  <2>1. quit' \in BOOLEAN BY <1>5, Zenon DEF Chat!Typed
  <2>2. TypeOK' BY <1>5, <2>1 DEF Chat!Typed
  <2>3. Existing' BY <1>5 DEF Chat!Typed
  <2>4. NoTurnYet' BY <1>5 DEF Chat!Typed
  <2>5. Balance' BY <1>5 DEF Chat!Typed
  <2>6. Delivered' BY <1>5 DEF Chat!Typed
  <2>7. TurnsAreCounted' BY <1>5 DEF Chat!Typed
  <2>8. MutualExclusion' BY <1>5 DEF Chat!Typed
  <2>9. ServerReadsClient' BY <1>5 DEF Chat!Typed
  <2> QED BY <2>2, <2>3, <2>4, <2>5, <2>6, <2>7, <2>8, <2>9
<1> QED BY <1>1, <1>2, <1>3, <1>4, <1>5

(* What rand_server and rand_client do besides.                            *)
LEMMA RandStep == IInv /\ (Rand!Start \/ Rand!InitBlock \/ Rand!Reply \/ Rand!Type \/ Rand!Typed \/ Rand!Number) => IInv'
<1> SUFFICES ASSUME IInv
             PROVE  Rand!Start \/ Rand!InitBlock \/ Rand!Reply \/ Rand!Type \/ Rand!Typed \/ Rand!Number => IInv'
  OBVIOUS
<1> USE SemAssumption
        DEF IInv, TypeOK, Existing, NoTurnYet, Balance, Delivered, TurnsAreCounted, MutualExclusion, ServerReadsClient,
            In, Tokens, Usable, Gone, Section, PCs, Procs, Goto, Sem, Other, Rand!Goto, Rand!Gone, Rand!Quiet, Rand!shared, Rand!block, Rand!history
<1>1. ASSUME Rand!Start PROVE IInv' BY <1>1 DEF Rand!Start
<1>2. ASSUME Rand!InitBlock PROVE IInv' BY <1>2 DEF Rand!InitBlock
<1>3. ASSUME Rand!Reply PROVE IInv' BY <1>3 DEF Rand!Reply
<1>4. ASSUME Rand!Type PROVE IInv'
  <2>1. quit' \in BOOLEAN BY <1>4, Zenon DEF Rand!Type
  <2>2. TypeOK' BY <1>4, <2>1 DEF Rand!Type
  <2>3. Existing' /\ NoTurnYet' /\ Balance' /\ Delivered' BY <1>4 DEF Rand!Type
  <2>4. TurnsAreCounted' /\ MutualExclusion' /\ ServerReadsClient' BY <1>4 DEF Rand!Type
  <2> QED BY <2>2, <2>3, <2>4
<1>5. ASSUME Rand!Typed PROVE IInv'
  <2>1. quit' \in BOOLEAN BY <1>5, Zenon DEF Rand!Typed
  <2>2. TypeOK' BY <1>5, <2>1 DEF Rand!Typed
  <2>3. Existing' BY <1>5 DEF Rand!Typed
  <2>4. NoTurnYet' BY <1>5 DEF Rand!Typed
  <2>5. Balance' BY <1>5 DEF Rand!Typed
  <2>6. Delivered' BY <1>5 DEF Rand!Typed
  <2>7. TurnsAreCounted' BY <1>5 DEF Rand!Typed
  <2>8. MutualExclusion' BY <1>5 DEF Rand!Typed
  <2>9. ServerReadsClient' BY <1>5 DEF Rand!Typed
  <2> QED BY <2>2, <2>3, <2>4, <2>5, <2>6, <2>7, <2>8, <2>9
<1>6. ASSUME Rand!Number PROVE IInv' BY <1>6 DEF Rand!Number
<1> QED BY <1>1, <1>2, <1>3, <1>4, <1>5, <1>6

(* The steps that both programs have are the same of both.                 *)
LEMMA Shared ==
  ASSUME NEW p \in Procs
  PROVE  /\ (Chat!CreateSem \/ Rand!CreateSem => CreateSem) /\ (Chat!CreateShm \/ Rand!CreateShm => CreateShm)
         /\ (Chat!Greet \/ Rand!Greet => Greet) /\ (Chat!Open \/ Rand!Open => Open)
         /\ (Chat!Remove \/ Rand!Remove => Remove) /\ (Chat!Test(p) \/ Rand!Test(p) => Test(p))
         /\ (Chat!Take(p) \/ Rand!Take(p) => Take(p)) /\ (Chat!Show(p) \/ Rand!Show(p) => Show(p))
         /\ (Chat!Signal(p) \/ Rand!Signal(p) => Signal(p)) /\ (Chat!Exit \/ Rand!Exit => Exit)
<1> USE DEF Goto, Quiet, shared, block, history, Usable, Sem, Procs, Other
<1> USE DEF Chat!Goto, Chat!Quiet, Chat!shared, Chat!block, Chat!history, Chat!Usable, Chat!Sem, Chat!Procs, Chat!Other
<1> USE DEF Rand!Goto, Rand!Quiet, Rand!shared, Rand!block, Rand!history, Rand!Usable, Rand!Sem, Rand!Procs, Rand!Other
<1>1. Chat!CreateSem \/ Rand!CreateSem => CreateSem BY DEF CreateSem, Chat!CreateSem, Rand!CreateSem
<1>2. Chat!CreateShm \/ Rand!CreateShm => CreateShm BY DEF CreateShm, Chat!CreateShm, Rand!CreateShm
<1>3. Chat!Greet \/ Rand!Greet => Greet BY DEF Greet, Chat!Greet, Rand!Greet
<1>4. Chat!Open \/ Rand!Open => Open
  BY DEF Open, Chat!Open, Rand!Open, SignalTo, Chat!SignalTo, Rand!SignalTo
<1>5. Chat!Remove \/ Rand!Remove => Remove BY DEF Remove, Chat!Remove, Rand!Remove
<1>6. Chat!Test(p) \/ Rand!Test(p) => Test(p) BY DEF Test, Chat!Test, Rand!Test
<1>7. Chat!Take(p) \/ Rand!Take(p) => Take(p)
  BY DEF Take, Chat!Take, Rand!Take, Note, Chat!Note, Rand!Note
<1>8. Chat!Show(p) \/ Rand!Show(p) => Show(p) BY DEF Show, Chat!Show, Rand!Show
<1>9. Chat!Signal(p) \/ Rand!Signal(p) => Signal(p)
  BY DEF Signal, Chat!Signal, Rand!Signal, SignalTo, Chat!SignalTo, Rand!SignalTo
<1>10. Chat!Exit \/ Rand!Exit => Exit
  BY DEF Exit, Chat!Exit, Rand!Exit, End, Chat!End, Rand!End, Most, Chat!Most, Rand!Most
<1> QED BY <1>1, <1>2, <1>3, <1>4, <1>5, <1>6, <1>7, <1>8, <1>9, <1>10

LEMMA TurnsStep == IInv /\ [Server \/ Client \/ Users]_vars => IInv'
<1> SUFFICES ASSUME IInv, [Server \/ Client \/ Users]_vars PROVE IInv' OBVIOUS
<1> USE DEF Procs
<1>1. CASE Server
  <2>1. CASE Chat!semserv
    BY <2>1, Shared, ServerStep, TurnStep, ChatStep DEF Chat!semserv
  <2>2. CASE Rand!rand_server
    BY <2>2, Shared, ServerStep, TurnStep, RandStep DEF Rand!rand_server
  <2> QED BY <1>1, <2>1, <2>2 DEF Server
<1>2. CASE Client
  <2>1. CASE Chat!semcli BY <2>1, Shared, TurnStep, EndStep, ChatStep DEF Chat!semcli
  <2>2. CASE Rand!rand_client BY <2>2, Shared, TurnStep, EndStep, RandStep DEF Rand!rand_client
  <2> QED BY <1>2, <2>1, <2>2 DEF Client
<1>3. CASE Users BY <1>3, EndStep, ChatStep, RandStep DEF Users
<1>4. CASE UNCHANGED vars
  <2> USE <1>4 DEF vars, IInv
  <2>1. TypeOK' /\ Existing' BY DEF TypeOK, Existing, Usable
  <2>2. NoTurnYet' /\ Balance' /\ TurnsAreCounted'
    BY DEF NoTurnYet, Balance, TurnsAreCounted, Tokens, In, Usable, Gone
  <2>3. Delivered' /\ MutualExclusion' /\ ServerReadsClient' BY DEF Delivered, MutualExclusion, ServerReadsClient
  <2> QED BY <2>1, <2>2, <2>3
<1> QED BY <1>1, <1>2, <1>3, <1>4

-------------------------------------------------------------------------------
(* The semaphores of SEM_UNDO hand out one turn and, for every signal the  *)
(* server has taken of a client that has ended, one more: until then the   *)
(* two never use the block at once and the server prints the client's      *)
(* messages, however often clients are killed and started.                 *)
THEOREM TurnsAreHandedOut == Programs => []TurnsHandedOut
BY TurnsInit, TurnsStep, OneRuns, PTL DEF Programs, Boot, TurnsHandedOut

(* Every text of the pipe is shown once, the first server of the FIFO      *)
(* keeps its name, and a receiver whose pid is known ends by its handler:  *)
(* for any number of readers, lines and writes, and wherever fork fails or *)
(* a process is killed.                                                    *)
THEOREM EverythingArrivesAlways == Programs => []EverythingArrives
<1>1. Pipe!IInv /\ [Run]_all => Pipe!IInv' BY PipeStep, OneRuns
<1>2. Fifo!IInv /\ [Run]_all => Fifo!IInv' BY FifoStep, OneRuns
<1>3. Sig!IInv /\ [Run]_all => Sig!IInv' BY SigStep, OneRuns
<1> QED BY <1>1, <1>2, <1>3, PipeInit, FifoInit, SigInit, PTL DEF Programs, Boot, EverythingArrives
================================================================================
