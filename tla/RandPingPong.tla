----------------------------- MODULE RandPingPong -----------------------------
(***************************************************************************)
(* homework7/random_numbers/rand_server.c and rand_client.c: the message   *)
(* is the number beside the string, the client makes the memory itself if  *)
(* there is none, and initialises it again in any case.                    *)
(***************************************************************************)
EXTENDS SemTurns

Start == /\ Gone /\ clients < CLIENTS /\ pc["server"] \notin {"rmsem", "done"}
         /\ pc' = [pc EXCEPT !["client"] = "init"]
         /\ semid' = ("sem" \in exists)
         /\ sem' = IF semid' THEN [sem EXCEPT ![0] = 0] ELSE sem
         /\ exists' = exists \cup {"shm"}
         /\ clients' = clients + 1
         /\ UNCHANGED <<undo, block, typed, taken, credit, lost, misread>>

InitBlock == /\ Goto("client", "init", "test")
             /\ owner' = "client" /\ quit' = FALSE
             /\ UNCHANGED <<shared, semid, history, misread>>

(* mblock->num = rand() of the server; the string stays as it is.          *)
Reply == /\ Goto("server", "reply", "signal")
         /\ owner' = "server"
         /\ UNCHANGED <<quit, shared, semid, history, misread>>

(* The user types a line, then the client draws its number.                *)
Type == /\ Goto("client", "type", "typed")
        /\ quit' = FALSE
        /\ UNCHANGED <<owner, shared, semid, history, misread>>

Typed == /\ typed <= LINES
         /\ Goto("client", "typed", "number")
         /\ typed' = typed + 1
         /\ quit' \in {TRUE, typed = LINES}
         /\ UNCHANGED <<owner, shared, semid, clients, taken, credit, lost, misread>>

Number == /\ Goto("client", "number", "signal")
          /\ owner' = "client"
          /\ UNCHANGED <<quit, shared, semid, history, misread>>

rand_server == \/ CreateSem \/ CreateShm \/ Greet \/ Open \/ Remove \/ Reply
               \/ Test("server") \/ Take("server") \/ Show("server") \/ Signal("server")
rand_client == InitBlock \/ Test("client") \/ Take("client") \/ Show("client") \/ Type \/ Typed \/ Number \/ Signal("client") \/ Exit
===============================================================================
