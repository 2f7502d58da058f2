------------------------------- MODULE AsyncChat -------------------------------
(***************************************************************************)
(* homework10/async_chat/async_server.c: main accepts clients and gives    *)
(* each a thread, which sends what it reads to all others.  clients_num    *)
(* and sockets[] are shared by all threads without a lock.  The kernel     *)
(* gives a new connection the lowest descriptor that is free, so that a    *)
(* closed one comes back soon.  Every load of a shared variable is a step. *)
(***************************************************************************)
EXTENDS Integers, FiniteSets

CONSTANTS Clients,
          MAX_NUM_CLIENTS,
          SAYS,         \* bound: messages a client sends before it leaves
          FAILURES      \* bound: failures of pthread_create

VARIABLES clients_num, sockets,
          newcomer,     \* what main is at: {} in accept, or the client accepted
          created,      \* the thread of the newcomer exists
          open,         \* the open descriptors and the client at the other end
          peer,         \* what each client has done
          unread,       \* messages of each client that its thread has not read
          pc, slot, socket, i,          \* of each client's thread
          target,       \* the descriptor it has loaded to write to
          due,          \* clients that should get the message in hand
          echoed,       \* clients that have got what they sent themselves
          departed,     \* clients that have closed since the message in hand
                        \* was read, or were about to clear their slot then
          failures,
          life          \* the server is "starting", "up", "down" or "undefined"

vars == <<clients_num, sockets, newcomer, created, open, peer, unread, pc, slot, socket, i, target,
          due, echoed, departed, failures, life>>
main    == <<newcomer, created>>
thread  == <<slot, socket, target>>
ghost   == <<due, echoed, departed>>

Sending == {"send", "test", "differ", "load", "write"}  \* loop test, three loads, write
Serving == {"read", "close"} \cup Sending               \* registered, and the socket open

Slots == 0 .. MAX_NUM_CLIENTS - 1
Descriptors == 4 .. 3 + Cardinality(Clients)

TypeOK == /\ clients_num \in 0 .. 255
          /\ sockets \in [Slots -> Descriptors \cup {0, -1}]
          /\ newcomer \subseteq Clients /\ created \in BOOLEAN
          /\ DOMAIN open \subseteq Descriptors /\ open \in [DOMAIN open -> Clients]
          /\ peer \in [Clients -> {"out", "waiting", "in", "left"}]
          /\ unread \in [Clients -> 0 .. SAYS]
          /\ pc \in [Clients -> {"none", "register", "clear", "gone"} \cup Serving]
          /\ slot \in [Clients -> Slots] /\ socket \in [Clients -> Descriptors \cup {0}]
          /\ i \in [Clients -> Nat] /\ target \in [Clients -> Descriptors \cup {0, -1}]
          /\ due \in [Clients -> SUBSET Clients] /\ echoed \subseteq Clients
          /\ departed \in [Clients -> SUBSET Clients]
          /\ failures \in 0 .. FAILURES /\ life \in {"starting", "up", "down", "undefined"}

Init == /\ clients_num = 0
        /\ sockets = [s \in Slots |-> 0]
        /\ newcomer = {} /\ created = FALSE
        /\ open = [d \in {} |-> "none"]
        /\ peer = [c \in Clients |-> "out"]
        /\ unread = [c \in Clients |-> 0]
        /\ pc = [c \in Clients |-> "none"]
        /\ slot = [c \in Clients |-> 0] /\ socket = [c \in Clients |-> 0]
        /\ i = [c \in Clients |-> 0] /\ target = [c \in Clients |-> 0]
        /\ due = [c \in Clients |-> {}] /\ departed = [c \in Clients |-> {}]
        /\ echoed = {}
        /\ failures = 0
        /\ life = "starting"

Goto(c, from, to) == pc[c] = from /\ pc' = [pc EXCEPT ![c] = to]
Close(d) == open' = [e \in DOMAIN open \ {d} |-> open[e]]
Lowest(S) == CHOOSE d \in S : \A e \in S : d <= e

-------------------------------------------------------------------------------
(* The clients: unread counts what is under way; the end of the stream     *)
(* comes after it.                                                         *)
Dial(c) == /\ peer[c] = "out" /\ peer' = [peer EXCEPT ![c] = "waiting"]
           /\ unread' = [unread EXCEPT ![c] = SAYS]
           /\ UNCHANGED <<clients_num, sockets, main, open, pc, thread, i, ghost, failures, life>>

Hang(c) == /\ peer[c] \in {"waiting", "in"} /\ peer' = [peer EXCEPT ![c] = "left"]
           /\ UNCHANGED <<clients_num, sockets, main, open, unread, pc, thread, i, ghost, failures, life>>

-------------------------------------------------------------------------------
(* main                                                                    *)
(* socket, bind and listen, any of which may fail                          *)
Listen == /\ life = "starting" /\ life' \in {"up", "down"}
          /\ UNCHANGED <<clients_num, sockets, main, open, peer, unread, pc, thread, i, ghost, failures>>

Full == clients_num >= MAX_NUM_CLIENTS

Accept == /\ newcomer = {} /\ ~ Full
          /\ \E c \in Clients :
               /\ peer[c] \in {"waiting", "left"} /\ socket[c] = 0 /\ pc[c] = "none"
               /\ LET d == Lowest(Descriptors \ DOMAIN open)
                  IN /\ socket' = [socket EXCEPT ![c] = d]
                     /\ open' = [e \in DOMAIN open \cup {d} |-> IF e = d THEN c ELSE open[e]]
               /\ slot' = [slot EXCEPT ![c] = clients_num]
               /\ peer' = [peer EXCEPT ![c] = IF @ = "waiting" THEN "in" ELSE @]
               /\ newcomer' = {c}
          /\ UNCHANGED <<clients_num, sockets, created, unread, pc, i, target, ghost, failures, life>>

(* Without memory for its data the newcomer is sent away, uncounted.       *)
MallocFails == /\ ~ created
               /\ \E c \in newcomer : /\ Goto(c, "none", "gone")
                                      /\ Close(socket[c])
                                      /\ socket' = [socket EXCEPT ![c] = 0]
               /\ newcomer' = {}
               /\ UNCHANGED <<clients_num, sockets, created, peer, unread, slot, i, target, ghost, failures, life>>

PthreadCreate == /\ ~ created
                 /\ \E c \in newcomer : Goto(c, "none", "register")
                 /\ created' = TRUE
                 /\ UNCHANGED <<clients_num, sockets, newcomer, open, peer, unread, thread, i, ghost, failures, life>>

(* clients_num-- on an uint8_t, though the client was not counted yet      *)
CreateFails == /\ failures < FAILURES /\ ~ created
               /\ \E c \in newcomer : /\ Goto(c, "none", "gone")
                                      /\ Close(socket[c])
                                      /\ due' = [d \in Clients |-> due[d] \ {c}]
               /\ failures' = failures + 1
               /\ clients_num' = (clients_num - 1) % 256
               /\ newcomer' = {}
               /\ UNCHANGED <<sockets, created, peer, unread, thread, i, echoed, departed, life>>

(* pthread_detach of the thread that client_data names, which the thread   *)
(* itself has freed if it is gone already: then anything may be read, the  *)
(* old number (Count) or what leads the server astray (DetachFreed).       *)
DetachFreed == /\ created /\ \E c \in newcomer : pc[c] = "gone"
               /\ life' = "undefined"
               /\ UNCHANGED <<clients_num, sockets, main, open, peer, unread, pc, thread, i, ghost, failures>>

Count == /\ created
         /\ created' = FALSE /\ newcomer' = {}
         /\ clients_num' = clients_num + 1
         /\ UNCHANGED <<sockets, open, peer, unread, pc, thread, i, ghost, failures, life>>

-------------------------------------------------------------------------------
(* The thread of client c                                                  *)
Register(c) == /\ Goto(c, "register", "read")
               /\ sockets' = [sockets EXCEPT ![slot[c]] = socket[c]]
               /\ UNCHANGED <<clients_num, main, open, peer, unread, thread, i, ghost, failures, life>>

(* Those who have joined and not left are to get what c says.              *)
Present == {c \in Clients : pc[c] \in {"read"} \cup Sending /\ slot[c] < clients_num}

(* read: messages that have come together are read as one; "quit", read    *)
(* errors and the end of the stream end the loop.                          *)
Read(c) == /\ \/ /\ unread[c] > 0
                 /\ \E n \in 1 .. unread[c] : unread' = [unread EXCEPT ![c] = @ - n]
                 /\ \/ /\ Goto(c, "read", "send")
                       /\ due' = [due EXCEPT ![c] = Present \ {c}]
                       /\ departed' = [departed EXCEPT ![c] = {d \in Clients : pc[d] = "clear"}]
                    \/ Goto(c, "read", "close") /\ UNCHANGED <<due, departed>>
              \/ /\ unread[c] = 0 /\ peer[c] = "left"
                 /\ Goto(c, "read", "close")
                 /\ UNCHANGED <<unread, due, departed>>
           /\ UNCHANGED <<clients_num, sockets, main, open, peer, thread, i, echoed, failures, life>>

LoopEnds(c) == /\ Goto(c, "send", "read")
               /\ i' = [i EXCEPT ![c] = 0] /\ departed' = [departed EXCEPT ![c] = {}]

(* A broken LoopTest: the last slot is left out.                           *)
LoopShort(c) == /\ IF i[c] >= clients_num - 1
                   THEN LoopEnds(c)
                   ELSE Goto(c, "send", "test") /\ UNCHANGED <<i, departed>>
                /\ UNCHANGED <<clients_num, sockets, main, open, peer, unread, thread, due, echoed, failures, life>>

(* The loop over the slots: i < clients_num,                               *)
LoopTest(c) == /\ IF i[c] >= clients_num
                  THEN LoopEnds(c)
                  ELSE Goto(c, "send", "test") /\ UNCHANGED <<i, departed>>
               /\ UNCHANGED <<clients_num, sockets, main, open, peer, unread, thread, due, echoed, failures, life>>

(* sockets[i] > 0, and, loaded again, sockets[i] != socket,                *)
Check(c, from, passed, to) == /\ Goto(c, from, IF passed THEN to ELSE "send")
                              /\ i' = IF passed THEN i ELSE [i EXCEPT ![c] = @ + 1]
                              /\ UNCHANGED <<clients_num, sockets, main, open, peer, unread, thread,
                                             ghost, failures, life>>
TestUsed(c)  == Check(c, "test", sockets[i[c]] > 0, "differ")
TestOther(c) == Check(c, "differ", sockets[i[c]] # socket[c], "load")

(* and the descriptor, loaded once more, to write to.                      *)
Load(c) == /\ Goto(c, "load", "write")
           /\ target' = [target EXCEPT ![c] = sockets[i[c]]]
           /\ UNCHANGED <<clients_num, sockets, main, open, peer, unread, slot, socket, i, ghost, failures, life>>

(* Whoever has the descriptor now gets the message; write to one that is   *)
(* closed does nothing.                                                    *)
Write(c) == /\ Goto(c, "write", "send")
            /\ i' = [i EXCEPT ![c] = @ + 1] /\ target' = [target EXCEPT ![c] = 0]
            /\ LET d == target[c]
               IN IF d \in DOMAIN open
                  THEN /\ due' = [due EXCEPT ![c] = @ \ {open[d]}]
                       /\ echoed' = IF open[d] = c THEN echoed \cup {c} ELSE echoed
                  ELSE UNCHANGED <<due, echoed>>
            /\ UNCHANGED <<clients_num, sockets, main, open, peer, unread, slot, socket, departed, failures, life>>

(* write to a client that has left, which its own thread has not read yet, *)
(* can end in SIGPIPE; the server does not handle it.                      *)
Sigpipe(c) == /\ pc[c] = "write"
              /\ target[c] \in DOMAIN open /\ peer[open[target[c]]] = "left"
              /\ life' = "down"
              /\ UNCHANGED <<clients_num, sockets, main, open, peer, unread, pc, thread, i, ghost, failures>>

Send(c) == LoopTest(c) \/ TestUsed(c) \/ TestOther(c) \/ Load(c) \/ Write(c) \/ Sigpipe(c)

(* close(socket): nobody owes c anything any more.                         *)
Leave(c) == /\ Goto(c, "close", "clear")
            /\ Close(socket[c])
            /\ due' = [d \in Clients |-> due[d] \ {c}]
            /\ departed' = [d \in Clients |-> IF pc[d] \in Sending THEN departed[d] \cup {c} ELSE departed[d]]
            /\ UNCHANGED <<clients_num, sockets, main, peer, unread, thread, i, echoed, failures, life>>

(* A broken Clear: the client is no longer counted.                        *)
ClearAndUncount(c) == /\ Goto(c, "clear", "gone")
                      /\ sockets' = [sockets EXCEPT ![slot[c]] = -1]
                      /\ clients_num' = clients_num - 1
                      /\ UNCHANGED <<main, open, peer, unread, thread, i, ghost, failures, life>>

Clear(c) == /\ Goto(c, "clear", "gone")
            /\ sockets' = [sockets EXCEPT ![slot[c]] = -1]
            /\ UNCHANGED <<clients_num, main, open, peer, unread, thread, i, ghost, failures, life>>

thread_func(c) == Register(c) \/ Read(c) \/ Send(c) \/ Leave(c) \/ Clear(c)

(* main sleeps when it is full, or waits in accept; threads wait in read.  *)
Idle == /\ life \in {"down", "undefined"} \/ (newcomer = {} /\ \A c \in Clients : pc[c] \in {"none", "read", "gone"})
        /\ UNCHANGED vars

Next == \/ Listen
        \/ /\ life = "up"
           /\ \/ Accept \/ MallocFails \/ PthreadCreate \/ CreateFails \/ DetachFreed \/ Count
              \/ \E c \in Clients : Dial(c) \/ Hang(c) \/ thread_func(c)
        \/ Idle

Spec == Init /\ [][Next]_vars

-------------------------------------------------------------------------------
Live(c) == pc[c] \in {"register", "clear"} \cup Serving

(* No two threads use the same slot, for clients_num counts every client   *)
(* that ever came and none that leaves; unless pthread_create has failed:  *)
(* the decrement then takes the slot of the last client.                   *)
SlotsDistinct ==
  failures = 0 => /\ clients_num = Cardinality({c \in Clients : socket[c] # 0} \ newcomer)
                  /\ \A c, d \in Clients : c # d /\ Live(c) /\ Live(d) => slot[c] # slot[d]

(* A message is written to everybody who was present when it was read and  *)
(* has not left before it could be, whoever joins and leaves meanwhile.    *)
HeardByAll == failures = 0 => \A c \in Clients : pc[c] = "read" => due[c] = {}

(* A client gets a message through a slot that is not his, and so twice or *)
(* by mistake, only if the owner of that slot had this descriptor and has  *)
(* closed it since the message was read, or had not yet cleared it then:   *)
(* whatever comes between the three loads of the slot and the write.       *)
ThroughOwnSlot ==
  \A c \in Clients : pc[c] = "write" /\ target[c] \in DOMAIN open =>
    \/ slot[open[target[c]]] = i[c]
    \/ \E f \in departed[c] : slot[f] = i[c] /\ socket[f] = target[c]

(* Nobody gets back what he has said.                                      *)
NoEcho == echoed = {}

(* The inductive form.  Main has one client in hand, the next slot is his, *)
(* and nobody else has a descriptor without a thread.                      *)
Newcomer == /\ \A c, d \in newcomer : c = d
            /\ newcomer = {} => ~ created
            /\ newcomer # {} => clients_num < MAX_NUM_CLIENTS
            /\ \A c \in newcomer : socket[c] # 0 /\ slot[c] = clients_num /\ (created <=> pc[c] # "none")
            /\ \A c \in Clients \ newcomer : pc[c] = "none" => socket[c] = 0
            /\ \A c \in Clients : socket[c] = 0 => pc[c] \in {"none", "gone"}

(* The open descriptors are those of the clients that are being served.    *)
Served(c) == pc[c] \in {"register"} \cup Serving \/ (c \in newcomer /\ ~ created)
Connected == /\ \A d \in DOMAIN open : Served(open[d]) /\ socket[open[d]] = d
             /\ \A c \in Clients : Served(c) => socket[c] \in DOMAIN open /\ open[socket[c]] = c

(* A descriptor in a slot is that of a thread with this slot that will     *)
(* clear it.                                                               *)
Registered == \A s \in Slots : sockets[s] > 0 =>
                \E c \in Clients : /\ slot[c] = s /\ socket[c] = sockets[s]
                                   /\ pc[c] \in {"clear"} \cup Serving

(* A thread only looks at slots there are: clients_num passes their number *)
(* when it goes below 0, and then there is no thread.                      *)
Bounded == clients_num <= MAX_NUM_CLIENTS \/ \A c \in Clients : pc[c] \in {"none", "gone"}

(* Whoever departs while a message is sent is known to have.               *)
Departures == \A c \in Clients :
                /\ pc[c] \in Sending => \A f \in Clients : pc[f] = "clear" => f \in departed[c]
                /\ \A f \in departed[c] : pc[f] \in {"clear", "gone"} /\ socket[f] # 0

(* The descriptor in hand is that of a client who still has it, or has     *)
(* departed; it never is the thread's own.  A loop begins with slot 0.     *)
HandOf(c) == /\ pc[c] \notin Sending => i[c] = 0
             /\ pc[c] \in {"test", "differ", "load"} => i[c] \in Slots
             /\ pc[c] = "load" => sockets[i[c]] # socket[c]
             /\ pc[c] = "write" => target[c] # socket[c]
             /\ pc[c] = "write" /\ target[c] > 0 =>
                  \E f \in Clients : /\ slot[f] = i[c] /\ socket[f] = target[c]
                                     /\ pc[f] \in Serving \/ f \in departed[c]
InHand == \A c \in Clients : HandOf(c)

Slotted == failures = 0 =>
             /\ \A c \in Clients \ newcomer : socket[c] # 0 => slot[c] < clients_num
             /\ \A c, d \in Clients : c # d /\ socket[c] # 0 /\ socket[d] # 0 => slot[c] # slot[d]
             /\ \A c \in Clients : pc[c] \in Serving => sockets[slot[c]] = socket[c]

(* Whoever is still to get the message in hand has a slot the loop has yet *)
(* to come to.                                                             *)
OwedOf(c) == /\ pc[c] \notin Sending => due[c] = {}
             /\ \A d \in due[c] : /\ d # c /\ pc[d] \in Serving
                                  /\ i[c] <= slot[d] /\ slot[d] < clients_num
                                  /\ pc[c] = "write" /\ i[c] = slot[d] => target[c] = socket[d]
Owed == failures = 0 => \A c \in Clients : OwedOf(c)

IInv == /\ TypeOK /\ Newcomer /\ Connected /\ Registered /\ Bounded /\ Departures /\ InHand
        /\ Slotted /\ Owed
        /\ SlotsDistinct /\ HeardByAll /\ ThroughOwnSlot /\ NoEcho
===============================================================================
