-------------------------------- MODULE MsgChat --------------------------------
(***************************************************************************)
(* homework6/chat: msgserver.c and its clients (msgclient.c) talk through  *)
(* one message queue.  Both directions have type 1 and every msgrcv asks   *)
(* for type 0, the oldest message of any type: whoever asks first gets it, *)
(* be it its own.                                                          *)
(***************************************************************************)
EXTENDS Integers, Sequences, FiniteSets

CONSTANTS Clients,
          MESSAGES      \* bound: messages a client sends before "quit"

ASSUME ChatAssumption == IsFiniteSet(Clients) /\ "server" \notin Clients /\ MESSAGES \in Nat

VARIABLES queue,        \* the messages, oldest first
          receivers,    \* the processes asleep in msgrcv, in order
          exists,       \* the system has the queue
          pc,
          got,          \* the message a process has received last
          sent          \* messages sent by each client

vars == <<queue, receivers, exists, pc, got, sent>>

Procs == Clients \cup {"server"}
Message == [from : Procs, quit : BOOLEAN]
Nothing == [from |-> "server", quit |-> FALSE]

TypeOK == /\ queue \in Seq(Message) /\ receivers \in Seq(Procs) /\ exists \in BOOLEAN
          /\ pc \in [Procs -> {"start", "ready", "asleep", "print", "type", "removed", "done"}]
          /\ got \in [Procs -> Message]
          /\ sent \in [Clients -> 0 .. MESSAGES + 1]

Init == /\ queue = <<>> /\ receivers = <<>> /\ exists = FALSE
        /\ pc = [p \in Procs |-> "start"]
        /\ got = [p \in Procs |-> Nothing]
        /\ sent = [c \in Clients |-> 0]

-------------------------------------------------------------------------------
(* msgsnd: a process asleep in msgrcv gets the message at once.            *)
Send(p, m, to) ==
  IF receivers = <<>>
  THEN /\ queue' = Append(queue, m)
       /\ pc' = [pc EXCEPT ![p] = to]
       /\ UNCHANGED <<receivers, got>>
  ELSE /\ pc' = [pc EXCEPT ![p] = to, ![Head(receivers)] = "print"]
       /\ got' = [got EXCEPT ![Head(receivers)] = m]
       /\ receivers' = Tail(receivers)
       /\ UNCHANGED queue

(* msgrcv of any type; it fails when the queue is removed.                 *)
Receive(p, failed) ==
  /\ pc[p] = "ready"
  /\ IF ~ exists
     THEN pc' = [pc EXCEPT ![p] = failed] /\ UNCHANGED <<queue, receivers, got>>
     ELSE IF queue = <<>>
     THEN /\ pc' = [pc EXCEPT ![p] = "asleep"]
          /\ receivers' = Append(receivers, p)
          /\ UNCHANGED <<queue, got>>
     ELSE /\ pc' = [pc EXCEPT ![p] = "print"]
          /\ got' = [got EXCEPT ![p] = Head(queue)]
          /\ queue' = Tail(queue)
          /\ UNCHANGED receivers
  /\ UNCHANGED <<exists, sent>>

-------------------------------------------------------------------------------
(* The server.                                                             *)
Open == /\ pc["server"] = "start"
        /\ pc' = [pc EXCEPT !["server"] = "ready"]
        /\ exists' = TRUE
        /\ UNCHANGED <<queue, receivers, got, sent>>

(* A broken Answer: "quit" is answered like everything else.               *)
AnswerQuit == /\ pc["server"] = "print"
              /\ pc' = [pc EXCEPT !["server"] = "type"]
              /\ UNCHANGED <<queue, receivers, exists, got, sent>>

(* The message is printed; "quit" ends the loop.                           *)
Answer == /\ pc["server"] = "print"
          /\ pc' = [pc EXCEPT !["server"] = IF got["server"].quit THEN "removed" ELSE "type"]
          /\ UNCHANGED <<queue, receivers, exists, got, sent>>

(* The user of the server types, and it is sent.                           *)
Reply == /\ pc["server"] = "type"
         /\ \E quit \in BOOLEAN : Send("server", [from |-> "server", quit |-> quit], "ready")
         /\ UNCHANGED <<exists, sent>>

(* msgctl(msgid, IPC_RMID, 0): those asleep in msgrcv get an error.        *)
Remove == /\ pc["server"] = "removed"
          /\ exists' = FALSE
          /\ queue' = <<>> /\ receivers' = <<>>
          /\ pc' = [p \in Procs |-> IF p = "server" \/ pc[p] = "asleep" THEN "done" ELSE pc[p]]
          /\ UNCHANGED <<got, sent>>

-------------------------------------------------------------------------------
(* A client.                                                               *)
Connect(c) == /\ pc[c] = "start" /\ exists
              /\ pc' = [pc EXCEPT ![c] = "type"]
              /\ UNCHANGED <<queue, receivers, exists, got, sent>>

(* The user types a line; it is sent, and "quit" ends the loop.            *)
Say(c) == /\ pc[c] = "type" /\ sent[c] <= MESSAGES
          /\ sent' = [sent EXCEPT ![c] = @ + 1]
          /\ IF exists
             THEN \E quit \in {TRUE, sent[c] = MESSAGES} :
                    Send(c, [from |-> c, quit |-> quit], IF quit THEN "done" ELSE "ready")
             ELSE pc' = [pc EXCEPT ![c] = "done"] /\ UNCHANGED <<queue, receivers, got>>
          /\ UNCHANGED exists

(* "Server (pid = %i) sent: %s"                                            *)
Show(c) == /\ pc[c] = "print"
           /\ pc' = [pc EXCEPT ![c] = "type"]
           /\ UNCHANGED <<queue, receivers, exists, got, sent>>

msgserver    == Open \/ Receive("server", "removed") \/ Answer \/ Reply \/ Remove
msgclient(c) == Connect(c) \/ Say(c) \/ Receive(c, "done") \/ Show(c)

Idle == ~ ENABLED msgserver /\ UNCHANGED vars

Next == msgserver \/ (\E c \in Clients : msgclient(c)) \/ Idle

(* The server runs and its user answers; the users of clients may not.     *)
Spec == /\ Init /\ [][Next]_vars
        /\ WF_vars(msgserver)
        /\ \A c \in Clients : WF_vars(Receive(c, "done") \/ Show(c))

-------------------------------------------------------------------------------
Chatting == {c \in Clients : pc[c] \in {"ready", "asleep", "print", "type"}}
Talking  == {c \in Clients : pc[c] \in {"print", "type"}}
Quits    == {c \in Clients : pc[c] = "done"}

(* Everybody sends one message for one received, whosever it was: there    *)
(* are as many turns to talk as clients that have ever come, however the   *)
(* messages were mixed up.  So the chat never falls silent because         *)
(* everybody waits for a message.                                          *)
TurnsConserved ==
  exists => Len(queue) + Cardinality(Talking) + (IF pc["server"] \in {"print", "type", "removed"} THEN 1 ELSE 0)
              = Cardinality(Chatting \cup Quits)

(* The inductive form: whoever sleeps in msgrcv is among the receivers,    *)
(* and once; the queue is there as long as the server.                     *)
Sleeping == /\ \A k, l \in DOMAIN receivers : receivers[k] = receivers[l] => k = l
            /\ \A p \in Procs : pc[p] = "asleep" <=> \E k \in DOMAIN receivers : receivers[k] = p
Existing == /\ exists <=> pc["server"] \notin {"start", "done"}
            /\ pc["server"] = "start" => queue = <<>> /\ \A c \in Clients : pc[c] = "start"
            /\ \A c \in Clients : pc[c] # "removed"

IInv == TypeOK /\ Sleeping /\ Existing /\ TurnsConserved

(* As long as nobody else has come, the "quit" of a client reaches the     *)
(* server and ends it, whatever the two have taken of their own before.    *)
Alone(c) == \A d \in Clients \ {c} : pc[d] = "start"
QuitEndsServer == \A c \in Clients : (exists /\ pc[c] = "done" /\ Alone(c))
                                       ~> (pc["server"] = "done" \/ ~ Alone(c))
===============================================================================
