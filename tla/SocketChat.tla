------------------------------- MODULE SocketChat ------------------------------
(***************************************************************************)
(* homework8/chat/socket_server.c: one client, its messages read, printed  *)
(* and answered in turn until a read begins with "quit".  TCP carries      *)
(* bytes: a read returns some of those that have come, part of a message   *)
(* or several of them.  The client is any program.                         *)
(***************************************************************************)
EXTENDS Integers, Sequences

CONSTANTS BUF_SIZE,     \* in parts of messages, or characters typed
          MESSAGES,     \* bound: messages of the client
          LINE          \* bound: characters of a line typed at the server

VARIABLES server,       \* where main is
          peer,         \* "out", "in", "left"
          sent, stream, printed,        \* parts sent, not read yet, printed
          crossed,      \* a read returned other than one message
          line,         \* characters before the end of the line typed, -1 when all is read
          longest,      \* the longest line typed
          reset,        \* something was written to a client that had left
          beyond        \* buf[BUF_SIZE] was written

(* Messages in the parts a read can tell apart                             *)
Text == <<"text">>
Quit == <<"qu", "it">>
Messages == {Text, Quit}

Init == /\ server = "start" /\ peer = "out"
        /\ sent = <<>> /\ stream = <<>> /\ printed = <<>>
        /\ crossed = FALSE /\ reset = FALSE /\ beyond = FALSE
        /\ line = -1 /\ longest = 0

-------------------------------------------------------------------------------
Connect == /\ server = "accept" /\ peer = "out" /\ peer' = "in"
           /\ UNCHANGED <<server, sent, stream, printed, crossed, line, longest, reset, beyond>>

Say == /\ peer = "in" /\ Len(sent) < MESSAGES
       /\ \E m \in Messages : sent' = sent \o m /\ stream' = stream \o m
       /\ UNCHANGED <<server, peer, printed, crossed, line, longest, reset, beyond>>

Leave == /\ peer = "in" /\ peer' = "left"
         /\ UNCHANGED <<server, sent, stream, printed, crossed, line, longest, reset, beyond>>

client == Connect \/ Say \/ Leave

-------------------------------------------------------------------------------
(* socket, bind, listen and accept, which may fail                         *)
Listen == /\ \/ server = "start" /\ server' \in {"accept", "failed"}
             \/ server = "accept" /\ peer # "out" /\ server' \in {"read", "failed"}
          /\ UNCHANGED <<peer, sent, stream, printed, crossed, line, longest, reset, beyond>>

IsQuit(buf) == Len(buf) >= 2 /\ SubSeq(buf, 1, 2) = Quit

(* A broken Read: "quit" is not told from "quit" with the end of the line. *)
ReadOn == /\ server = "read"
          /\ \E n \in 1 .. Len(stream) :
               LET buf == SubSeq(stream, 1, n)
               IN /\ n < BUF_SIZE
                  /\ printed' = printed \o buf
                  /\ stream' = SubSeq(stream, n + 1, Len(stream))
                  /\ crossed' = (crossed \/ buf \notin Messages)
          /\ server' = "type"
          /\ UNCHANGED <<peer, sent, line, longest, reset, beyond>>

Read == /\ server = "read"
        /\ \E n \in 1 .. Len(stream) :
             LET buf == SubSeq(stream, 1, n)
             IN /\ n < BUF_SIZE
                /\ printed' = printed \o buf
                /\ stream' = SubSeq(stream, n + 1, Len(stream))
                /\ crossed' = (crossed \/ buf \notin Messages)
                /\ server' = IF IsQuit(buf) THEN "close" ELSE "type"
        /\ UNCHANGED <<peer, sent, line, longest, reset, beyond>>

(* The end of the stream, or an error after a write to nobody.             *)
ReadEnds == /\ server = "read" /\ peer = "left" /\ (stream = <<>> \/ reset)
            /\ server' = "close"
            /\ UNCHANGED <<peer, sent, stream, printed, crossed, line, longest, reset, beyond>>

(* The user types a line when getchar has none left.                       *)
Type == /\ server = "type"
        /\ line' \in IF line = -1 THEN 0 .. LINE ELSE {line}
        /\ longest' = IF line' > longest THEN line' ELSE longest
        /\ server' = "form"
        /\ UNCHANGED <<peer, sent, stream, printed, crossed, reset, beyond>>

(* FORM_MSG puts the end of the line and a NUL behind what it has taken,   *)
(* at most BUF_SIZE - 1 characters; the rest of the line is the next       *)
(* message.  write() may end in SIGPIPE.                                   *)
FORM_MSG == /\ server = "form"
            /\ IF line < BUF_SIZE - 1
               THEN line' = -1 /\ UNCHANGED beyond
               ELSE line' = line - (BUF_SIZE - 1) /\ beyond' = TRUE
            /\ server' \in {"read"} \cup (IF reset THEN {"killed"} ELSE {})
            /\ reset' = (reset \/ peer = "left")
            /\ UNCHANGED <<peer, sent, stream, printed, crossed, longest>>

Close == /\ server = "close" /\ server' = "done"
         /\ UNCHANGED <<peer, sent, stream, printed, crossed, line, longest, reset, beyond>>

main == Listen \/ Read \/ ReadEnds \/ Type \/ FORM_MSG \/ Close

Next == client \/ main

-------------------------------------------------------------------------------
Ends(seq, end) == Len(seq) >= Len(end) /\ SubSeq(seq, Len(seq) - Len(end) + 1, Len(seq)) = end

(* What the client sent is printed in order.  When every read has returned *)
(* one message, "quit" and nothing else ends the chat while the client is  *)
(* there; otherwise a quit behind other text, or in two reads, does not.   *)
(* Only a line of BUF_SIZE - 1 characters or more makes FORM_MSG write     *)
(* behind buf.                                                             *)
ReadInOrder ==
  /\ printed \o stream = sent
  /\ ~ crossed => (Ends(printed, Quit) => server \in {"close", "done"})
  /\ server \in {"close", "done"} => Ends(printed, Quit) \/ peer = "left" \/ crossed
  /\ beyond => longest >= BUF_SIZE - 1

Parts == {"text", "qu", "it"}

TypeOK == /\ server \in {"start", "accept", "failed", "read", "type", "form", "close", "done", "killed"}
          /\ peer \in {"out", "in", "left"}
          /\ sent \in Seq(Parts) /\ stream \in Seq(Parts) /\ printed \in Seq(Parts)
          /\ crossed \in BOOLEAN /\ reset \in BOOLEAN /\ beyond \in BOOLEAN
          /\ line \in -1 .. LINE /\ longest \in 0 .. LINE

(* A "quit" that was read as one message has ended the chat at once, and   *)
(* what is left of a line is not longer than the line.                     *)
Unended == ~ crossed /\ server \notin {"close", "done"} => ~ Ends(printed, Quit)
Rest    == line <= longest

IInv == TypeOK /\ Unended /\ Rest /\ ReadInOrder
===============================================================================
