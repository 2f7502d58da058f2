------------------------------ MODULE ShmemTurns ------------------------------
(***************************************************************************)
(* homework6/example3/shmemserv.c and shmemcli.c: two processes that talk  *)
(* through a string in shared memory.  The locks and turn are Peterson's   *)
(* algorithm; readlast tells who was the last to read the string.          *)
(*                                                                         *)
(* The fields are plain memory, compiled without optimisation: every       *)
(* access is one load or one store, and on x86 a store can wait in the     *)
(* store buffer of its CPU while later loads go on.  How many stores can   *)
(* wait is chosen at the start: none, so that every store takes effect at  *)
(* once, or BUFFER.                                                        *)
(***************************************************************************)
EXTENDS Integers, Sequences

CONSTANTS BUFFER,       \* bound: length of a store buffer
          LINES         \* bound: lines the user types besides the last "q"

ASSUME ShmemAssumption == BUFFER \in Nat /\ LINES \in Nat

VARIABLES mem,          \* the memory block
          buffer,       \* stores of each process that mem does not have yet
          pc,
          typed,        \* lines typed by the user of the client
          reads,        \* how often each process has taken the string
          room,         \* how many stores can wait: 0 or BUFFER
          misread       \* processes that have printed something that is not
                        \* a whole message of the other

vars == <<mem, buffer, pc, typed, reads, room, misread>>

Procs == {"server", "client"}
Other(p) == IF p = "server" THEN "client" ELSE "server"

FREE == "free"
BUSY == "busy"

(* The fields of struct memory_block; lock[p] is server_lock or            *)
(* client_lock, and the string is one of these.                            *)
Texts    == {"hello", "ok", "part", "line", "q"}
Messages == [server |-> {"hello", "ok"}, client |-> {"line", "q"}]
Fields   == {"server_lock", "client_lock", "turn", "readlast", "string"}
Lock     == [server |-> "server_lock", client |-> "client_lock"]

Section == {"check", "take", "print", "reply", "type", "typed", "unlock"}
PCs     == {"test", "lock", "turn", "other", "mine", "done"} \cup Section

Values == {FREE, BUSY} \cup Procs \cup Texts
Stores == [field: Fields, value: Values]

TypeOK == /\ mem \in [Fields -> Values]
          /\ buffer \in [Procs -> Seq(Stores)]
          /\ pc \in [Procs -> PCs]
          /\ reads \in [Procs -> Nat]
          /\ room \in {0, BUFFER}

(* The server has initialised the block before the client attaches it.     *)
Init == /\ mem = [f \in Fields |-> CASE f = "turn" -> "client"
                                     [] f = "readlast" -> "server"
                                     [] f = "string" -> "hello"
                                     [] OTHER -> FREE]
        /\ buffer = [p \in Procs |-> <<>>]
        /\ pc = [p \in Procs |-> "test"]
        /\ typed = 0
        /\ reads = [p \in Procs |-> 0]
        /\ room \in {0, BUFFER}
        /\ misread = {}

-------------------------------------------------------------------------------
(* A load sees the process's own last store, or memory.                    *)
Pending(p, f) == {i \in 1 .. Len(buffer[p]) : buffer[p][i].field = f}

Value(p, f) == IF Pending(p, f) = {} THEN mem[f]
               ELSE buffer[p][CHOOSE i \in Pending(p, f) : \A j \in Pending(p, f) : j <= i].value

Store(p, f, v) == IF room = 0
                  THEN mem' = [mem EXCEPT ![f] = v] /\ UNCHANGED buffer
                  ELSE /\ Len(buffer[p]) < room
                       /\ buffer' = [buffer EXCEPT ![p] = Append(@, [field |-> f, value |-> v])]
                       /\ UNCHANGED mem

(* The oldest store leaves the buffer.                                     *)
Flush(p) == /\ buffer[p] # <<>>
            /\ mem' = [mem EXCEPT ![Head(buffer[p]).field] = Head(buffer[p]).value]
            /\ buffer' = [buffer EXCEPT ![p] = Tail(@)]
            /\ UNCHANGED <<pc, typed, reads, room, misread>>

Goto(p, from, to) == pc[p] = from /\ pc' = [pc EXCEPT ![p] = to]

-------------------------------------------------------------------------------
(* while (strcmp("q\n", mblock->string) != 0)                              *)
Test(p) == /\ Goto(p, "test", IF Value(p, "string") = "q" THEN "done" ELSE "lock")
           /\ UNCHANGED <<mem, buffer, typed, reads, room, misread>>

(* A broken SetLock: the lock is left as it is.                            *)
SetNoLock(p) == /\ Goto(p, "lock", "turn")
                /\ UNCHANGED <<mem, buffer, typed, reads, room, misread>>

SetLock(p) == /\ Goto(p, "lock", "turn")
              /\ Store(p, Lock[p], BUSY)
              /\ UNCHANGED <<typed, reads, room, misread>>

SetTurn(p) == /\ Goto(p, "turn", "other")
              /\ Store(p, "turn", Other(p))
              /\ UNCHANGED <<typed, reads, room, misread>>

(* while ((other lock == BUSY) && (turn == other)): two loads              *)
Await(p) == /\ \/ Goto(p, "other", IF Value(p, Lock[Other(p)]) = BUSY THEN "mine" ELSE "check")
               \/ Goto(p, "mine", IF Value(p, "turn") = Other(p) THEN "other" ELSE "check")
            /\ UNCHANGED <<mem, buffer, typed, reads, room, misread>>

(* A broken Check: readlast is not looked at.                              *)
NoCheck(p) == /\ Goto(p, "check", "take")
              /\ UNCHANGED <<mem, buffer, typed, reads, room, misread>>

(* if (mblock->readlast == other); the lock is kept when it is not         *)
Check(p) == /\ Goto(p, "check", IF Value(p, "readlast") = Other(p) THEN "take" ELSE "test")
            /\ UNCHANGED <<mem, buffer, typed, reads, room, misread>>

Take(p) == /\ Goto(p, "take", "print")
           /\ Store(p, "readlast", p)
           /\ reads' = [reads EXCEPT ![p] = @ + 1]
           /\ UNCHANGED <<typed, room, misread>>

(* printf of what the other has sent                                       *)
Show(p) == /\ Goto(p, "print", IF p = "server" THEN "reply" ELSE "type")
           /\ misread' = IF Value(p, "string") \in Messages[Other(p)]
                         THEN misread ELSE misread \cup {p}
           /\ UNCHANGED <<mem, buffer, typed, reads, room>>

(* A broken Reply: "q" is answered, too.                                   *)
ReplyAlways == /\ Goto("server", "reply", "unlock")
               /\ Store("server", "string", "ok")
               /\ UNCHANGED <<typed, reads, room, misread>>

(* if (strcmp("q\n", mblock->string) != 0) strcpy(mblock->string, "Ok!")   *)
Reply == /\ Goto("server", "reply", "unlock")
         /\ IF Value("server", "string") # "q"
            THEN Store("server", "string", "ok")
            ELSE UNCHANGED <<mem, buffer>>
         /\ UNCHANGED <<typed, reads, room, misread>>

(* The characters of a line go to the string one by one: until the last    *)
(* one, the string is neither the old message nor the new one.             *)
Type == /\ Goto("client", "type", "typed")
        /\ Store("client", "string", "part")
        /\ UNCHANGED <<typed, reads, room, misread>>

Typed == /\ Goto("client", "typed", "unlock")
         /\ typed <= LINES
         /\ typed' = typed + 1
         /\ \/ typed < LINES /\ Store("client", "string", "line")
            \/ Store("client", "string", "q")
         /\ UNCHANGED <<reads, room, misread>>

Unlock(p) == /\ Goto(p, "unlock", "test")
             /\ Store(p, Lock[p], FREE)
             /\ UNCHANGED <<typed, reads, room, misread>>

Loop(p) == Test(p) \/ SetLock(p) \/ SetTurn(p) \/ Await(p) \/ Check(p) \/ Take(p) \/ Show(p) \/ Unlock(p)

shmemserv == Loop("server") \/ Reply
shmemcli  == Loop("client") \/ Type \/ Typed

Ended == (\A p \in Procs : pc[p] = "done" /\ buffer[p] = <<>>) /\ UNCHANGED vars

Next == shmemserv \/ shmemcli \/ Ended \/ \E p \in Procs : Flush(p)

(* Both processes run, and stores reach memory.  The user need not type.   *)
Fairness == /\ WF_vars(shmemserv)
            /\ WF_vars(Loop("client"))
            /\ \A p \in Procs : WF_vars(Flush(p))

Spec == Init /\ [][Next]_vars /\ Fairness

-------------------------------------------------------------------------------
(* Peterson's algorithm keeps the two apart from the test of readlast to   *)
(* the unlock, though the lock is not freed when it is the other's turn to *)
(* read, as long as no store waits.                                        *)
MutualExclusion == room = 0 => ~ \A p \in Procs : pc[p] \in Section

(* A process that has set its lock and not come back to the test holds it, *)
(* and one that is past the waiting loop is so because the other is not    *)
(* competing yet or has given it the turn.                                 *)
Holding == \A p \in Procs : pc[p] \in {"turn", "other", "mine"} \cup Section => mem[Lock[p]] = BUSY
Yielded == \A p \in Procs : pc[p] \in Section =>
              pc[Other(p)] \in {"test", "lock", "turn", "done"} \/ mem["turn"] = p

AtOnce == /\ buffer = [p \in Procs |-> <<>>]
          /\ mem["turn"] \in Procs
          /\ Holding /\ Yielded

(* Who has taken the string last.  Its store to readlast is in memory or   *)
(* waits alone, no older one waits, and only the other may take the string *)
(* and only after that store has reached memory.                           *)
LastReader == IF reads["client"] = reads["server"] THEN "server" ELSE "client"

Alternating ==
  /\ reads["client"] - reads["server"] \in {0, 1}
  /\ Pending(Other(LastReader), "readlast") = {}
  /\ \/ mem["readlast"] = LastReader /\ Pending(LastReader, "readlast") = {}
     \/ /\ mem["readlast"] = Other(LastReader)
        /\ \E i \in 1 .. Len(buffer[LastReader]) :
              Pending(LastReader, "readlast") = {i} /\ buffer[LastReader][i].value = LastReader
  /\ \A p \in Procs : pc[p] = "take" => p # LastReader /\ mem["readlast"] = LastReader

(* What the string is, by who has taken it last and how far it has come    *)
(* with it, when no store waits: "q" stays, and the client is leaving.     *)
Answering == pc["server"] \in {"print", "reply"}
Asking    == pc["client"] \in {"print", "type", "typed"}

Talking ==
  /\ Answering => LastReader = "server"
  /\ Asking => LastReader = "client"
  /\ LastReader = "server" =>
       mem["string"] \in IF Answering THEN Messages["client"] ELSE Messages["server"] \cup {"q"}
  /\ LastReader = "client" =>
       mem["string"] \in CASE pc["client"] \in {"print", "type"} -> Messages["server"]
                          [] pc["client"] = "typed"            -> {"part"}
                          [] OTHER                             -> Messages["client"]
  /\ mem["string"] = "q" => pc["client"] \in {"unlock", "test", "done"}
  /\ misread = {}

(* The inductive form of MutualExclusion and ReadInTurns.                  *)
IInv == /\ TypeOK /\ MutualExclusion /\ Alternating
        /\ room = 0 => AtOnce /\ Talking

(* They take the string in turns, the client first; readlast sees to that  *)
(* even when the store buffers break the mutual exclusion.  Each prints    *)
(* whole messages of the other, never its own or half a line, as long as   *)
(* no store waits.                                                         *)
ReadInTurns == /\ reads["client"] - reads["server"] \in {0, 1}
               /\ room = 0 => misread = {}

(* "q" ends both, as long as no store waits.                               *)
QuitEndsBoth == (room = 0 /\ mem["string"] = "q" /\ pc["client"] = "unlock") ~> (\A p \in Procs : pc[p] = "done")
===============================================================================
