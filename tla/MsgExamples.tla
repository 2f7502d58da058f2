------------------------------ MODULE MsgExamples ------------------------------
(***************************************************************************)
(* homework6/example3: msgserv and polymsgserv take one message off a      *)
(* queue, answer it, wait for the confirmation and remove the queue; their *)
(* clients come in any number.  Messages are told apart by their type, to  *)
(* the server or to a client; nobody looks at whose they are, nor at what  *)
(* msgsnd and msgrcv return.  A process asleep in msgrcv is one whose      *)
(* Receive is not enabled.                                                 *)
(***************************************************************************)
EXTENDS Sequences, SequencesExt

CONSTANT Clients

VARIABLES msgs,         \* the queue
          created,      \* it exists
          at,           \* where each process is
          answered,     \* the clients that have printed an answer of the server
          own,          \* the clients that have printed what they had in their buffer
          tooBig        \* msgcli: the confirmation is sent with the size of its type,
                        \* 8 bytes more than the server's buffer takes

Procs == Clients \cup {"server"}
ToServer(kind) == [to |-> "server", kind |-> kind]
Answer == [to |-> "client", kind |-> "answer"]

Init == /\ msgs = <<>> /\ created = FALSE
        /\ at = [q \in Procs |-> "start"]
        /\ answered = {} /\ own = {}
        /\ tooBig \in BOOLEAN

Goto(q, from, to) == at[q] = from /\ at' = [at EXCEPT ![q] = to]
Msgsnd(m) == msgs' = IF created THEN Append(msgs, m) ELSE msgs
Waiting(who) == {k \in DOMAIN msgs : msgs[k].to = who}
Oldest(who) == CHOOSE k \in Waiting(who) : \A l \in Waiting(who) : k <= l

-------------------------------------------------------------------------------
Create == /\ Goto("server", "start", "first")
          /\ created' = TRUE
          /\ UNCHANGED <<msgs, answered, own, tooBig>>

(* Both receives of the server; a message that is too big stays.           *)
ServerReceive == /\ Waiting("server") # {}
                 /\ Goto("server", "first", "answer") \/ Goto("server", "second", "remove")
                 /\ LET k == Oldest("server")
                    IN msgs' = IF tooBig /\ msgs[k].kind = "confirm" THEN msgs ELSE RemoveAt(msgs, k)
                 /\ UNCHANGED <<created, answered, own, tooBig>>

(* A broken Respond: the server does not wait for the confirmation.        *)
RespondAndRemove == /\ Goto("server", "answer", "remove")
                    /\ Msgsnd(Answer)
                    /\ UNCHANGED <<created, answered, own, tooBig>>

Respond == /\ Goto("server", "answer", "second")
           /\ Msgsnd(Answer)
           /\ UNCHANGED <<created, answered, own, tooBig>>

RemoveQueue == /\ Goto("server", "remove", "done")
               /\ created' = FALSE /\ msgs' = <<>>
               /\ UNCHANGED <<answered, own, tooBig>>

server == Create \/ ServerReceive \/ Respond \/ RemoveQueue

-------------------------------------------------------------------------------
(* msgget fails without a server.                                          *)
Start(c) == /\ Goto(c, "start", IF created THEN "send" ELSE "refused")
            /\ UNCHANGED <<msgs, created, answered, own, tooBig>>

Send(c) == /\ Goto(c, "send", "receive")
           /\ Msgsnd(ToServer("text"))
           /\ UNCHANGED <<created, answered, own, tooBig>>

(* The answer to whichever client, or an error once the queue is gone:     *)
(* then the client prints its buffer as the server's response.             *)
Receive(c) == /\ Goto(c, "receive", "confirm")
              /\ \/ /\ Waiting("client") # {}
                    /\ msgs' = RemoveAt(msgs, Oldest("client"))
                    /\ answered' = answered \cup {c} /\ UNCHANGED own
                 \/ /\ ~ created
                    /\ own' = own \cup {c} /\ UNCHANGED <<msgs, answered>>
              /\ UNCHANGED <<created, tooBig>>

Confirm(c) == /\ Goto(c, "confirm", "done")
              /\ Msgsnd(ToServer("confirm"))
              /\ UNCHANGED <<created, answered, own, tooBig>>

client(c) == Send(c) \/ Receive(c) \/ Confirm(c)

Next == server \/ \E c \in Clients : Start(c) \/ client(c)

-------------------------------------------------------------------------------
(* One client gets an answer, and when the server removes the queue it has *)
(* got it, unless a second client has come: then the text of that one may  *)
(* be taken for the confirmation, and a client may print its own buffer.   *)
OneAnswered == /\ \A c, d \in answered : c = d
               /\ at["server"] \in {"remove", "done"} \/ own # {} =>
                    answered # {} \/ \E c, d \in Clients : c # d /\ {at[c], at[d]} \cap {"start", "refused"} = {}

TypeOK == /\ created \in BOOLEAN /\ tooBig \in BOOLEAN
          /\ msgs \in Seq({ToServer("text"), ToServer("confirm"), Answer})
          /\ at \in [Procs -> {"start", "first", "answer", "second", "remove", "done",
                               "refused", "send", "receive", "confirm"}]
          /\ at["server"] \in {"start", "first", "answer", "second", "remove", "done"}
          /\ \A c \in Clients : at[c] \in {"start", "refused", "send", "receive", "confirm", "done"}
          /\ answered \subseteq Clients /\ own \subseteq Clients

(* The queue is there as long as the server, and nobody prints his own     *)
(* buffer before it is gone.                                               *)
Existing == /\ created <=> at["server"] \notin {"start", "done"}
            /\ ~ created => msgs = <<>>
            /\ own # {} => at["server"] = "done"
            /\ at["server"] = "start" => \A c \in Clients : at[c] \in {"start", "refused"}

(* The one answer is still to come, in the queue, or with its client.      *)
OneAnswer == /\ at["server"] \in {"start", "first", "answer"} => answered = {} /\ Waiting("client") = {}
             /\ \A k, l \in Waiting("client") : k = l
             /\ Waiting("client") # {} => answered = {}

(* Every text is that of another client, and who confirms has the answer.  *)
Texts == {k \in DOMAIN msgs : msgs[k] = ToServer("text")}
Sent  == {c \in Clients : at[c] \notin {"start", "refused", "send"}}
Two   == \E c, d \in Sent : c # d

Confirmed == /\ \A k \in DOMAIN msgs : msgs[k] = ToServer("confirm") => answered # {}
             /\ created /\ (\E c \in Clients : at[c] \in {"confirm", "done"}) => answered # {}

TextsSent == /\ Texts # {} \/ at["server"] \notin {"start", "first"} => Sent # {}
             /\ at["server"] = "first" /\ (\E k, l \in Texts : k # l) => Two
             /\ at["server"] \in {"answer", "second"} /\ Texts # {} => Two

IInv == TypeOK /\ Existing /\ OneAnswer /\ Confirmed /\ TextsSent /\ OneAnswered
===============================================================================
