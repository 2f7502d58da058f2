------------------------------ MODULE ChatPrograms -----------------------------
(***************************************************************************)
(* The programs that talk through a message queue (the chat of homework6   *)
(* and the examples beside it) or over TCP (async_server of homework10     *)
(* with several clients, socket_server of homework8 with one).  The system *)
(* runs one of those in Systems.                                           *)
(***************************************************************************)
EXTENDS MsgChat

CONSTANTS Systems,                              \* of "chat", "example", "async" and "single"
          MAX_NUM_CLIENTS, SAYS, FAILURES,      \* of AsyncChat
          BUF_SIZE, LINE                        \* of SocketChat; MESSAGES is of both

ASSUME SystemsAssumption == Systems \subseteq {"chat", "example", "async", "single"}
ASSUME AsyncAssumption == MAX_NUM_CLIENTS \in 1 .. 255 /\ SAYS \in Nat /\ FAILURES \in 0 .. 1
ASSUME SocketAssumption == BUF_SIZE \in Nat \ {0, 1} /\ LINE \in Nat

VARIABLES program,      \* the one that runs
          msgs, created, at, answered, own, tooBig,
          clients_num, sockets, newcomer, hired, open, peer, unread, place, slot, socket, index,
          target, due, echoed, departed, failures, life,
          server, client, said, stream, printed, crossed, line, longest, reset, beyond

Example == INSTANCE MsgExamples
Async   == INSTANCE AsyncChat WITH created <- hired, pc <- place, i <- index
Single  == INSTANCE SocketChat WITH peer <- client, sent <- said

exampleVars == <<msgs, created, at, answered, own, tooBig>>
asyncVars   == <<clients_num, sockets, newcomer, hired, open, peer, unread, place, slot, socket, index,
                 target, due, echoed, departed, failures, life>>
singleVars  == <<server, client, said, stream, printed, crossed, line, longest, reset, beyond>>
all == <<program, vars, exampleVars, asyncVars, singleVars>>

Boot == /\ program \in Systems
        /\ program = "example" \/ tooBig = FALSE
        /\ Init /\ Example!Init /\ Async!Init /\ Single!Init

Chats(A)    == program = "chat" /\ A /\ UNCHANGED <<program, exampleVars, asyncVars, singleVars>>
Examples(A) == program = "example" /\ A /\ UNCHANGED <<program, vars, asyncVars, singleVars>>

chat    == program = "chat" /\ Next /\ UNCHANGED <<program, exampleVars, asyncVars, singleVars>>
example == program = "example" /\ Example!Next /\ UNCHANGED <<program, vars, asyncVars, singleVars>>
async   == program = "async" /\ Async!Next /\ UNCHANGED <<program, vars, exampleVars, singleVars>>
single  == program = "single" /\ Single!Next /\ UNCHANGED <<program, vars, exampleVars, asyncVars>>
Silent  == /\ \/ program = "example" /\ ~ ENABLED example
              \/ program = "single" /\ ~ ENABLED single
           /\ UNCHANGED all

(* The chat as in MsgChat; of the examples the server runs, and clients    *)
(* once they have been started and their line has been typed.              *)
Fair == /\ WF_all(Chats(msgserver))
        /\ \A c \in Clients : WF_all(Chats(Receive(c, "done") \/ Show(c)))
        /\ WF_all(Examples(Example!server))
        /\ \A c \in Clients : WF_all(Examples(Example!Receive(c) \/ Example!Confirm(c)))

Programs == Boot /\ [][chat \/ example \/ async \/ single \/ Silent]_all /\ Fair

-------------------------------------------------------------------------------
(* The turns to talk of the chat are conserved: see MsgChat.  Of the       *)
(* clients of an example one is answered: see MsgExamples.                 *)
MessagesCounted == IInv /\ Example!IInv

(* Who hears what in the chat of homework10: see AsyncChat.                *)
SlotsDistinct == Async!SlotsDistinct
HeardOnce     == Async!IInv

(* What the server of homework8 makes of the bytes it reads and the        *)
(* characters typed: see SocketChat.                                       *)
ReadInOrder == Single!IInv

(* "quit" ends the server of the chat as long as there is one client; in   *)
(* the examples every client that has sent its text ends, answered or not. *)
EverybodyEnds == /\ QuitEndsServer
                 /\ \A c \in Clients : at[c] = "receive" ~> at[c] = "done"
===============================================================================
