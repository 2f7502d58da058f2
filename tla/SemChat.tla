-------------------------------- MODULE SemChat --------------------------------
(***************************************************************************)
(* homework6/example3/semserv.c and semcli.c: the message is the string    *)
(* itself, and the client wants the server's memory to exist.              *)
(***************************************************************************)
EXTENDS SemTurns

Start == /\ Gone /\ clients < CLIENTS /\ "shm" \in exists
         /\ pc' = [pc EXCEPT !["client"] = "test"]
         /\ semid' = ("sem" \in exists)
         /\ clients' = clients + 1
         /\ UNCHANGED <<shared, block, typed, taken, credit, lost, misread>>

(* if (strcmp("q\n", mblock->string) != 0) strcpy(mblock->string, "Ok!")   *)
Reply == /\ Goto("server", "reply", IF quit THEN "signal" ELSE "write")
         /\ Quiet

Write == /\ Goto("server", "write", "signal")
         /\ owner' = "server" /\ quit' = FALSE
         /\ UNCHANGED <<shared, semid, history, misread>>

(* While the client types, the string is nobody's message.                 *)
Type == /\ Goto("client", "type", "typed")
        /\ owner' = "nobody" /\ quit' = FALSE
        /\ UNCHANGED <<shared, semid, history, misread>>

Typed == /\ typed <= LINES
         /\ Goto("client", "typed", "signal")
         /\ typed' = typed + 1
         /\ owner' = "client"
         /\ quit' \in {TRUE, typed = LINES}
         /\ UNCHANGED <<shared, semid, clients, taken, credit, lost, misread>>

semserv == \/ CreateSem \/ CreateShm \/ Greet \/ Open \/ Remove \/ Reply \/ Write
           \/ Test("server") \/ Take("server") \/ Show("server") \/ Signal("server")
semcli  == Test("client") \/ Take("client") \/ Show("client") \/ Type \/ Typed \/ Signal("client") \/ Exit
===============================================================================
