------------------------------- MODULE ChatProofs ------------------------------
(***************************************************************************)
(* Proofs about the programs that talk through a message queue or over     *)
(* TCP, for any number of clients and messages.                            *)
(***************************************************************************)
EXTENDS ChatPrograms, TLAPS, FiniteSetTheorems, SequenceTheorems, WellFoundedInduction

Step == chat \/ example \/ async \/ single \/ Silent

(* One program runs, the others do not move.                               *)
LEMMA OneRuns ==
  [Step]_all => [Next]_vars /\ [Example!Next]_exampleVars /\ [Async!Next]_asyncVars /\ [Single!Next]_singleVars
<1> SUFFICES ASSUME [Step]_all
             PROVE [Next]_vars /\ [Example!Next]_exampleVars /\ [Async!Next]_asyncVars /\ [Single!Next]_singleVars
  OBVIOUS
<1>1. CASE chat BY <1>1 DEF chat
<1>2. CASE example BY <1>2 DEF example
<1>3. CASE async BY <1>3 DEF async
<1>4. CASE single BY <1>4 DEF single
<1>5. CASE Silent BY <1>5 DEF Silent, all
<1>6. CASE UNCHANGED all BY <1>6 DEF all
<1> QED BY <1>1, <1>2, <1>3, <1>4, <1>5, <1>6 DEF Step

-------------------------------------------------------------------------------
(* MsgChat.  Holders have a turn to talk, Came are the clients that have   *)
(* ever come; TurnsConserved compares the two.                             *)
Holders == {p \in Procs : pc[p] \in {"print", "type", "removed"}}
Came    == {c \in Clients : pc[c] # "start"}

LEMMA ProcsFinite == IsFiniteSet(Procs) /\ IsFiniteSet(Clients) /\ "server" \in Procs /\ Clients \subseteq Procs
BY ChatAssumption, FS_AddElement DEF Procs

LEMMA SetsFinite == /\ IsFiniteSet(Holders) /\ Cardinality(Holders) \in Nat
                    /\ IsFiniteSet(Came) /\ Cardinality(Came) \in Nat
<1>1. IsFiniteSet(Holders)
  <2>1. Holders \in SUBSET Procs BY DEF Holders
  <2> QED BY <2>1, ProcsFinite, FS_Subset
<1>2. IsFiniteSet(Came)
  <2>1. Came \in SUBSET Clients BY DEF Came
  <2> QED BY <2>1, ProcsFinite, FS_Subset
<1> QED BY <1>1, <1>2, FS_CardinalityType

(* The server's turn counts as one, as that of a client does.              *)
LEMMA Counts ==
  ASSUME TypeOK, Existing
  PROVE  TurnsConserved <=> (exists => Len(queue) + Cardinality(Holders) = Cardinality(Came))
<1>1. Chatting \cup Quits = Came BY DEF TypeOK, Existing, Chatting, Quits, Came, Procs
<1>2. IsFiniteSet(Talking) /\ Cardinality(Talking) \in Nat /\ "server" \notin Talking
  <2>1. Talking \in SUBSET Clients BY DEF Talking
  <2>2. IsFiniteSet(Talking) BY <2>1, ProcsFinite, FS_Subset
  <2> QED BY <2>1, <2>2, FS_CardinalityType, ChatAssumption
<1>3. Cardinality(Holders) = Cardinality(Talking) + IF pc["server"] \in {"print", "type", "removed"} THEN 1 ELSE 0
  <2>1. CASE pc["server"] \in {"print", "type", "removed"}
    <3>1. Holders = Talking \cup {"server"} BY <2>1 DEF Holders, Talking, Existing, Procs
    <3> QED BY <1>2, <2>1, <3>1, FS_AddElement
  <2>2. CASE pc["server"] \notin {"print", "type", "removed"}
    <3>1. Holders = Talking BY <2>2 DEF Holders, Talking, Existing, Procs
    <3> QED BY <1>2, <2>2, <3>1
  <2> QED BY <2>1, <2>2
<1>4. Len(queue) \in Nat BY DEF TypeOK
<1>5. Len(queue) + Cardinality(Talking) + (IF pc["server"] \in {"print", "type", "removed"} THEN 1 ELSE 0)
        = Len(queue) + Cardinality(Holders)
  <2> DEFINE one == IF pc["server"] \in {"print", "type", "removed"} THEN 1 ELSE 0
  <2>1. one \in Nat OBVIOUS
  <2>2. Cardinality(Holders) = Cardinality(Talking) + one BY <1>3
  <2> HIDE DEF one
  <2>3. Len(queue) + Cardinality(Talking) + one = Len(queue) + Cardinality(Holders) BY <1>2, <1>4, <2>1, <2>2
  <2> QED BY <2>3 DEF one
<1> QED BY <1>1, <1>5, Zenon DEF TurnsConserved

LEMMA ChatInit == Init => IInv
<1> SUFFICES ASSUME Init PROVE IInv OBVIOUS
<1> USE ChatAssumption DEF Init
<1>1. TypeOK
  <2>1. exists \in BOOLEAN BY Zenon
  <2>2. Nothing \in Message BY DEF Nothing, Message, Procs
  <2>3. queue \in Seq(Message) /\ receivers \in Seq(Procs) BY EmptySeq
  <2> HIDE DEF Init
  <2>4. sent \in [Clients -> 0 .. MESSAGES + 1]
    <3>1. 0 \in 0 .. MESSAGES + 1 OBVIOUS
    <3> QED BY <3>1 DEF Init
  <2>5. got \in [Procs -> Message] BY <2>2 DEF Init
  <2>6. pc \in [Procs -> {"start", "ready", "asleep", "print", "type", "removed", "done"}] BY DEF Init
  <2> QED BY <2>1, <2>3, <2>4, <2>5, <2>6, Zenon DEF TypeOK
<1>2. Sleeping BY DEF Sleeping
<1>3. Existing /\ TurnsConserved BY DEF Existing, TurnsConserved, Procs
<1> QED BY <1>1, <1>2, <1>3 DEF IInv

(* The sequence of receivers when one more falls asleep, and when the      *)
(* first wakes up.                                                         *)
LEMMA FallAsleep ==
  ASSUME TypeOK, Sleeping, NEW p \in Procs, pc[p] # "asleep",
         pc' = [pc EXCEPT ![p] = "asleep"], receivers' = Append(receivers, p)
  PROVE  receivers' \in Seq(Procs) /\ Sleeping'
<1>1. /\ receivers' \in Seq(Procs) /\ Len(receivers') = Len(receivers) + 1
      /\ \A k \in 1 .. Len(receivers) : receivers'[k] = receivers[k]
      /\ receivers'[Len(receivers) + 1] = p
      /\ DOMAIN receivers = 1 .. Len(receivers) /\ DOMAIN receivers' = 1 .. Len(receivers) + 1
      /\ Len(receivers) \in Nat
  BY AppendProperties, LenProperties DEF TypeOK
<1>2. \A k \in DOMAIN receivers : receivers[k] # p BY DEF Sleeping
<1>3. \A q \in Procs : pc'[q] = IF q = p THEN "asleep" ELSE pc[q] BY DEF TypeOK
<1>4. \A k, l \in DOMAIN receivers' : receivers'[k] = receivers'[l] => k = l BY <1>1, <1>2 DEF Sleeping
<1>5. ASSUME NEW q \in Procs PROVE pc'[q] = "asleep" <=> \E k \in DOMAIN receivers' : receivers'[k] = q
  <2>1. CASE q = p BY <1>1, <1>3, <2>1
  <2>2. CASE q # p
    <3>1. pc[q] = "asleep" <=> \E k \in DOMAIN receivers : receivers[k] = q BY DEF Sleeping
    <3>2. (\E k \in DOMAIN receivers : receivers[k] = q) <=> \E k \in DOMAIN receivers' : receivers'[k] = q
      BY <1>1, <2>2
    <3> QED BY <1>3, <2>2, <3>1, <3>2
  <2> QED BY <2>1, <2>2
<1> QED BY <1>1, <1>4, <1>5 DEF Sleeping

LEMMA WakeUp ==
  ASSUME TypeOK, Sleeping, receivers # <<>>
  PROVE  /\ Head(receivers) \in Procs /\ pc[Head(receivers)] = "asleep"
         /\ Tail(receivers) \in Seq(Procs)
         /\ \A k, l \in DOMAIN Tail(receivers) : Tail(receivers)[k] = Tail(receivers)[l] => k = l
         /\ \A q \in Procs : pc[q] = "asleep" /\ q # Head(receivers)
                               <=> \E k \in DOMAIN Tail(receivers) : Tail(receivers)[k] = q
<1> DEFINE h == Head(receivers)
           t == Tail(receivers)
<1>1. /\ h \in Procs /\ t \in Seq(Procs) /\ Len(receivers) \in Nat \ {0} /\ h = receivers[1]
      /\ Len(t) = Len(receivers) - 1
      /\ \A k \in 1 .. Len(t) : t[k] = receivers[k + 1]
      /\ DOMAIN receivers = 1 .. Len(receivers) /\ DOMAIN t = 1 .. Len(t)
  BY HeadTailProperties, LenProperties, EmptySeq DEF TypeOK
<1>2. pc[h] = "asleep" BY <1>1 DEF Sleeping
<1>3. \A k, l \in DOMAIN t : t[k] = t[l] => k = l BY <1>1 DEF Sleeping
<1>4. ASSUME NEW q \in Procs PROVE pc[q] = "asleep" /\ q # h <=> \E k \in DOMAIN t : t[k] = q
  <2>1. pc[q] = "asleep" <=> \E k \in DOMAIN receivers : receivers[k] = q BY DEF Sleeping
  <2>2. ASSUME NEW k \in DOMAIN receivers, receivers[k] = q, q # h PROVE \E l \in DOMAIN t : t[l] = q
    <3>1. k - 1 \in DOMAIN t /\ t[k - 1] = q BY <1>1, <2>2
    <3> QED BY <3>1
  <2>3. ASSUME NEW k \in DOMAIN t, t[k] = q PROVE q # h /\ \E l \in DOMAIN receivers : receivers[l] = q
    <3>1. k + 1 \in DOMAIN receivers /\ receivers[k + 1] = q /\ k + 1 # 1 BY <1>1, <2>3
    <3> QED BY <1>1, <3>1 DEF Sleeping
  <2> HIDE DEF h, t
  <2> QED BY <2>1, <2>2, <2>3
<1> QED BY <1>1, <1>2, <1>3, <1>4

(* What a step keeps of the sets when it moves p only.                     *)
Places == {"start", "ready", "asleep", "print", "type", "removed", "done"}
Turn   == {"print", "type", "removed"}

LEMMA Moved ==
  ASSUME TypeOK, NEW p \in Procs, NEW to \in Places, pc' = [pc EXCEPT ![p] = to]
  PROVE  /\ pc' \in [Procs -> Places] /\ \A q \in Procs : pc'[q] = IF q = p THEN to ELSE pc[q]
         /\ Holders' = IF to \in Turn THEN Holders \cup {p} ELSE Holders \ {p}
         /\ Came' = IF p \notin Clients THEN Came ELSE IF to # "start" THEN Came \cup {p} ELSE Came \ {p}
<1>1. pc' \in [Procs -> Places] /\ \A q \in Procs : pc'[q] = IF q = p THEN to ELSE pc[q] BY DEF TypeOK, Places
<1>2. Holders' = IF to \in Turn THEN Holders \cup {p} ELSE Holders \ {p}
  <2>1. \A q \in Procs : q \in Holders' <=> IF q = p THEN to \in Turn ELSE q \in Holders BY <1>1 DEF Holders, Turn
  <2>2. Holders' \subseteq Procs /\ Holders \subseteq Procs BY DEF Holders
  <2> QED BY <2>1, <2>2
<1>3. Came' = IF p \notin Clients THEN Came ELSE IF to # "start" THEN Came \cup {p} ELSE Came \ {p}
  <2>1. \A q \in Clients : q \in Came' <=> IF q = p THEN to # "start" ELSE q \in Came BY <1>1, ProcsFinite DEF Came
  <2>2. Came' \subseteq Clients /\ Came \subseteq Clients BY DEF Came
  <2> QED BY <2>1, <2>2
<1> QED BY <1>1, <1>2, <1>3

(* A message is sent: the turn of the sender goes to the queue, or to the  *)
(* first of those asleep.                                                  *)
LEMMA SendsTurn ==
  ASSUME TypeOK, Sleeping, NEW p \in Procs, pc[p] = "type", NEW m \in Message, NEW to \in {"ready", "done"},
         Send(p, m, to)
  PROVE  /\ queue' \in Seq(Message) /\ receivers' \in Seq(Procs) /\ got' \in [Procs -> Message]
         /\ pc' \in [Procs -> Places] /\ pc'[p] = to
         /\ \A q \in Procs \ {p} : pc'[q] = pc[q] \/ (pc[q] = "asleep" /\ pc'[q] = "print")
         /\ Sleeping' /\ Came' = Came \cup ({p} \cap Clients)
         /\ Len(queue') + Cardinality(Holders') = Len(queue) + Cardinality(Holders)
<1> DEFINE h == Head(receivers)
<1>0. p \in Holders /\ Len(queue) \in Nat BY DEF Holders, TypeOK
<1>1. CASE receivers = <<>>
  <2>1. pc' = [pc EXCEPT ![p] = to] /\ queue' = Append(queue, m) /\ receivers' = receivers /\ got' = got
    BY <1>1 DEF Send
  <2>2. to \in Places /\ to \notin Turn /\ to # "start" BY DEF Places, Turn
  <2>3. /\ pc' \in [Procs -> Places] /\ \A q \in Procs : pc'[q] = IF q = p THEN to ELSE pc[q]
        /\ Holders' = Holders \ {p} /\ Came' = Came \cup ({p} \cap Clients)
    <3>1. /\ pc' \in [Procs -> Places] /\ \A q \in Procs : pc'[q] = IF q = p THEN to ELSE pc[q]
          /\ Holders' = IF to \in Turn THEN Holders \cup {p} ELSE Holders \ {p}
          /\ Came' = IF p \notin Clients THEN Came ELSE IF to # "start" THEN Came \cup {p} ELSE Came \ {p}
      BY <2>1, <2>2, Moved, Zenon
    <3>2. Came' = Came \cup ({p} \cap Clients) BY <2>2, <3>1
    <3> QED BY <2>2, <3>1, <3>2
  <2>4. queue' \in Seq(Message) /\ Len(queue') = Len(queue) + 1 BY <2>1, AppendProperties DEF TypeOK
  <2>5. Cardinality(Holders') = Cardinality(Holders) - 1 BY <1>0, <2>3, SetsFinite, FS_RemoveElement
  <2>6. Len(queue') + Cardinality(Holders') = Len(queue) + Cardinality(Holders) BY <1>0, <2>4, <2>5, SetsFinite
  <2>7. receivers' \in Seq(Procs) /\ got' \in [Procs -> Message] BY <2>1 DEF TypeOK
  <2>8. Sleeping'
    <3>1. \A q \in Procs : pc'[q] = "asleep" <=> pc[q] = "asleep" BY <2>3
    <3> QED BY <2>1, <3>1 DEF Sleeping
  <2> QED BY <2>3, <2>4, <2>6, <2>7, <2>8
<1>2. CASE receivers # <<>>
  <2>1. /\ pc' = [pc EXCEPT ![p] = to, ![h] = "print"] /\ queue' = queue /\ receivers' = Tail(receivers)
        /\ got' = [got EXCEPT ![h] = m]
    BY <1>2 DEF Send
  <2>2. /\ h \in Procs /\ pc[h] = "asleep" /\ receivers' \in Seq(Procs)
        /\ \A k, l \in DOMAIN receivers' : receivers'[k] = receivers'[l] => k = l
        /\ \A q \in Procs : pc[q] = "asleep" /\ q # h <=> \E k \in DOMAIN receivers' : receivers'[k] = q
    BY <1>2, <2>1, WakeUp
  <2>3. h # p BY <2>2
  <2> HIDE DEF h
  <2>4. /\ pc' \in [Procs -> Places] /\ \A q \in Procs : pc'[q] = IF q = p THEN to ELSE IF q = h THEN "print" ELSE pc[q]
    BY <2>1, <2>2, <2>3 DEF TypeOK, Places
  <2>5. Holders' = (Holders \ {p}) \cup {h}
    <3>1. \A q \in Procs : q \in Holders' <=> q \in (Holders \ {p}) \cup {h} BY <2>2, <2>3, <2>4 DEF Holders
    <3>2. Holders' \subseteq Procs /\ Holders \subseteq Procs BY DEF Holders
    <3> QED BY <2>2, <3>1, <3>2
  <2>6. h \notin Holders BY <2>2 DEF Holders
  <2>7. Cardinality(Holders') = Cardinality(Holders)
    <3>1. IsFiniteSet(Holders \ {p}) /\ Cardinality(Holders \ {p}) = Cardinality(Holders) - 1
      BY <1>0, SetsFinite, FS_RemoveElement
    <3>2. Cardinality(Holders') = Cardinality(Holders \ {p}) + 1 BY <2>5, <2>6, <3>1, FS_AddElement
    <3> QED BY <3>1, <3>2, SetsFinite
  <2>8. Came' = Came \cup ({p} \cap Clients)
    <3>1. \A q \in Clients : q \in Came' <=> q \in Came \cup {p} BY <2>2, <2>4, ProcsFinite DEF Came
    <3>2. Came' \subseteq Clients /\ Came \subseteq Clients BY DEF Came
    <3> QED BY <3>1, <3>2
  <2>9. got' \in [Procs -> Message] BY <2>1, <2>2 DEF TypeOK
  <2>10. Sleeping'
    <3>1. \A q \in Procs : pc'[q] = "asleep" <=> pc[q] = "asleep" /\ q # h BY <2>2, <2>4
    <3> QED BY <2>2, <3>1 DEF Sleeping
  <2>11. queue' \in Seq(Message) BY <2>1 DEF TypeOK
  <2> QED BY <2>1, <2>2, <2>4, <2>7, <2>8, <2>9, <2>10, <2>11
<1> QED BY <1>1, <1>2

(* Whoever sends by Send goes on as the inductive invariant wants.         *)
LEMMA SendKeeps ==
  ASSUME IInv, exists, NEW p \in Procs, pc[p] = "type", NEW m \in Message, NEW to \in {"ready", "done"},
         p = "server" => to = "ready",
         Send(p, m, to), UNCHANGED exists, sent' \in [Clients -> 0 .. MESSAGES + 1]
  PROVE  IInv'
<1> USE DEF IInv
<1>1. /\ queue' \in Seq(Message) /\ receivers' \in Seq(Procs) /\ got' \in [Procs -> Message]
      /\ pc' \in [Procs -> Places] /\ pc'[p] = to
      /\ \A q \in Procs \ {p} : pc'[q] = pc[q] \/ (pc[q] = "asleep" /\ pc'[q] = "print")
      /\ Sleeping' /\ Came' = Came \cup ({p} \cap Clients)
      /\ Len(queue') + Cardinality(Holders') = Len(queue) + Cardinality(Holders)
  BY SendsTurn
<1>2. exists' \in BOOLEAN BY Zenon DEF TypeOK
<1>3. TypeOK' BY <1>1, <1>2, Zenon DEF TypeOK, Places
<1>4. pc["server"] \notin {"start", "done"} /\ exists' = exists BY DEF Existing
<1>5. pc'["server"] \notin {"start", "done"}
  <2>1. CASE p = "server" BY <1>1, <2>1
  <2>2. CASE p # "server" BY <1>1, <1>4, <2>2, ProcsFinite
  <2> QED BY <2>1, <2>2
<1>6. \A c \in Clients : pc'[c] # "removed" BY <1>1, ProcsFinite DEF Existing
<1>7. Existing' BY <1>4, <1>5, <1>6 DEF Existing
<1>8. Came' = Came
  <2>1. p \in Clients => p \in Came BY DEF Came
  <2> QED BY <1>1, <2>1
<1>9. TurnsConserved'
  <2>1. TurnsConserved <=> (exists => Len(queue) + Cardinality(Holders) = Cardinality(Came)) BY Counts
  <2>2. (TurnsConserved <=> (exists => Len(queue) + Cardinality(Holders) = Cardinality(Came)))'
    BY <1>3, <1>7, Counts, PTL
  <2> QED BY <1>1, <1>8, <2>1, <2>2
<1> QED BY <1>1, <1>3, <1>7, <1>9

(* Whoever moves by himself, to a place where he has a turn if he had one. *)
LEMMA MoveKeeps ==
  ASSUME IInv, NEW p \in Procs, NEW to \in Places \ {"start", "asleep"}, pc' = [pc EXCEPT ![p] = to],
         pc[p] \notin {"start", "asleep"}, pc[p] \in Turn <=> to \in Turn,
         p = "server" => to # "done" /\ pc[p] # "done", p # "server" => to # "removed",
         UNCHANGED <<queue, receivers, exists, got, sent>>
  PROVE  IInv'
<1> USE DEF IInv
<1>1. /\ pc' \in [Procs -> Places] /\ \A q \in Procs : pc'[q] = IF q = p THEN to ELSE pc[q]
      /\ Holders' = IF to \in Turn THEN Holders \cup {p} ELSE Holders \ {p}
      /\ Came' = IF p \notin Clients THEN Came ELSE IF to # "start" THEN Came \cup {p} ELSE Came \ {p}
  BY Moved
<1>2. Holders' = Holders BY <1>1 DEF Holders, Turn
<1>3. Came' = Came BY <1>1 DEF Came
<1>4. exists' = exists /\ exists \in BOOLEAN BY Zenon DEF TypeOK
<1>5. TypeOK' BY <1>1, <1>4, Zenon DEF TypeOK, Places
<1>6. Sleeping' BY <1>1 DEF Sleeping
<1>7. Existing'
  <2>1. pc'["server"] \in {"start", "done"} <=> pc["server"] \in {"start", "done"} BY <1>1, ProcsFinite
  <2>2. pc'["server"] = "start" <=> pc["server"] = "start" BY <1>1, ProcsFinite
  <2>3. \A c \in Clients : pc'[c] # "removed" BY <1>1, ProcsFinite, ChatAssumption DEF Existing
  <2>4. \A c \in Clients : pc[c] = "start" => pc'[c] = "start" BY <1>1, ProcsFinite
  <2> QED BY <1>4, <2>1, <2>2, <2>3, <2>4 DEF Existing
<1>8. TurnsConserved'
  <2>1. TurnsConserved <=> (exists => Len(queue) + Cardinality(Holders) = Cardinality(Came)) BY Counts
  <2>2. (TurnsConserved <=> (exists => Len(queue) + Cardinality(Holders) = Cardinality(Came)))'
    BY <1>5, <1>7, Counts, PTL
  <2> QED BY <1>2, <1>3, <1>4, <2>1, <2>2
<1> QED BY <1>5, <1>6, <1>7, <1>8

(* msgrcv, of whomever.                                                    *)
LEMMA ReceiveKeeps ==
  ASSUME IInv, NEW p \in Procs, NEW failed \in {"done", "removed"}, p = "server" <=> failed = "removed",
         Receive(p, failed)
  PROVE  IInv'
<1> USE DEF IInv
<1>1. pc[p] = "ready" /\ exists' = exists /\ sent' = sent BY DEF Receive
<1>2. CASE ~ exists
  <2>1. p # "server" BY <1>1, <1>2 DEF Existing
  <2>2. pc' = [pc EXCEPT ![p] = failed] /\ UNCHANGED <<queue, receivers, exists, got, sent>>
    BY <1>2 DEF Receive
  <2>3. failed = "done" BY <2>1
  <2>4. failed \in Places \ {"start", "asleep"} /\ failed \notin Turn /\ pc[p] \notin Turn
    BY <1>1, <2>3 DEF Places, Turn
  <2> QED BY <1>1, <2>1, <2>2, <2>3, <2>4, MoveKeeps
<1>3. CASE exists /\ queue = <<>>
  <2>1. pc' = [pc EXCEPT ![p] = "asleep"] /\ receivers' = Append(receivers, p) /\ queue' = queue /\ got' = got
    BY <1>3 DEF Receive
  <2>2. receivers' \in Seq(Procs) /\ Sleeping' BY <1>1, <2>1, FallAsleep
  <2>3. /\ pc' \in [Procs -> Places] /\ \A q \in Procs : pc'[q] = IF q = p THEN "asleep" ELSE pc[q]
        /\ Holders' = Holders \ {p} /\ Came' = IF p \notin Clients THEN Came ELSE Came \cup {p}
    <3>1. "asleep" \in Places /\ "asleep" \notin Turn BY DEF Places, Turn
    <3> QED BY <2>1, <3>1, Moved
  <2>4. Holders' = Holders /\ Came' = Came BY <1>1, <2>3 DEF Holders, Came
  <2>5. exists' \in BOOLEAN BY <1>1, Zenon DEF TypeOK
  <2>6. TypeOK' BY <1>1, <2>1, <2>2, <2>3, <2>5, Zenon DEF TypeOK, Places
  <2>7. Existing'
    <3>1. pc["server"] \notin {"start", "done"} BY <1>3 DEF Existing
    <3>2. pc'["server"] \notin {"start", "done"} BY <2>3, <3>1, ProcsFinite
    <3>3. \A c \in Clients : pc'[c] # "removed" BY <2>3, ProcsFinite DEF Existing
    <3> QED BY <1>1, <1>3, <3>2, <3>3 DEF Existing
  <2>8. TurnsConserved'
    <3>1. TurnsConserved <=> (exists => Len(queue) + Cardinality(Holders) = Cardinality(Came)) BY Counts
    <3>2. (TurnsConserved <=> (exists => Len(queue) + Cardinality(Holders) = Cardinality(Came)))'
      BY <2>6, <2>7, Counts, PTL
    <3> QED BY <1>1, <2>1, <2>4, <3>1, <3>2
  <2> QED BY <2>2, <2>6, <2>7, <2>8
<1>4. CASE exists /\ queue # <<>>
  <2>1. /\ pc' = [pc EXCEPT ![p] = "print"] /\ got' = [got EXCEPT ![p] = Head(queue)]
        /\ queue' = Tail(queue) /\ receivers' = receivers
    BY <1>4 DEF Receive
  <2>2. /\ Head(queue) \in Message /\ queue' \in Seq(Message) /\ Len(queue) \in Nat /\ Len(queue') \in Nat
        /\ Len(queue') = Len(queue) - 1
    BY <1>4, <2>1, HeadTailProperties DEF TypeOK
  <2>3. /\ pc' \in [Procs -> Places] /\ \A q \in Procs : pc'[q] = IF q = p THEN "print" ELSE pc[q]
        /\ Holders' = Holders \cup {p} /\ Came' = IF p \notin Clients THEN Came ELSE Came \cup {p}
    <3>1. "print" \in Places /\ "print" \in Turn BY DEF Places, Turn
    <3> QED BY <2>1, <3>1, Moved
  <2>4. p \notin Holders /\ Came' = Came BY <1>1, <2>3 DEF Holders, Came
  <2>5. Cardinality(Holders') = Cardinality(Holders) + 1 BY <2>3, <2>4, SetsFinite, FS_AddElement
  <2>6. exists' \in BOOLEAN BY <1>1, Zenon DEF TypeOK
  <2>7. got' \in [Procs -> Message] BY <2>1, <2>2 DEF TypeOK
  <2>8. TypeOK' BY <1>1, <2>1, <2>2, <2>3, <2>6, <2>7, Zenon DEF TypeOK, Places
  <2>9. Sleeping'
    <3>1. \A q \in Procs : pc'[q] = "asleep" <=> pc[q] = "asleep" BY <1>1, <2>3
    <3> QED BY <2>1, <3>1 DEF Sleeping
  <2>10. Existing'
    <3>1. pc["server"] \notin {"start", "done"} BY <1>4 DEF Existing
    <3>2. pc'["server"] \notin {"start", "done"} BY <2>3, <3>1, ProcsFinite
    <3>3. \A c \in Clients : pc'[c] # "removed" BY <2>3, ProcsFinite DEF Existing
    <3> QED BY <1>1, <1>4, <3>2, <3>3 DEF Existing
  <2>11. TurnsConserved'
    <3>1. TurnsConserved <=> (exists => Len(queue) + Cardinality(Holders) = Cardinality(Came)) BY Counts
    <3>2. (TurnsConserved <=> (exists => Len(queue) + Cardinality(Holders) = Cardinality(Came)))'
      BY <2>8, <2>10, Counts, PTL
    <3>3. Len(queue') + Cardinality(Holders') = Len(queue) + Cardinality(Holders)
      BY <2>2, <2>5, SetsFinite
    <3> QED BY <1>1, <2>4, <3>1, <3>2, <3>3
  <2> QED BY <2>8, <2>9, <2>10, <2>11
<1> QED BY <1>2, <1>3, <1>4

LEMMA OpenKeeps == IInv /\ Open => IInv'
<1> SUFFICES ASSUME IInv, Open PROVE IInv' OBVIOUS
<1> USE DEF IInv
<1>1. /\ pc["server"] = "start" /\ pc' = [pc EXCEPT !["server"] = "ready"] /\ exists' = TRUE
      /\ queue' = queue /\ receivers' = receivers /\ got' = got /\ sent' = sent
  BY DEF Open
<1>2. "server" \in Procs /\ "ready" \in Places /\ "ready" \notin Turn /\ "ready" # "start" BY ProcsFinite DEF Places, Turn
<1>3. /\ pc' \in [Procs -> Places] /\ \A q \in Procs : pc'[q] = IF q = "server" THEN "ready" ELSE pc[q]
      /\ Holders' = Holders \ {"server"} /\ Came' = IF "server" \notin Clients THEN Came ELSE Came \cup {"server"}
  BY <1>1, <1>2, Moved
<1>4. queue = <<>> /\ \A c \in Clients : pc[c] = "start" BY <1>1 DEF Existing
<1>5. Holders' = {} /\ Came' = {}
  <2>1. Holders = {} BY <1>1, <1>4 DEF Holders, Procs
  <2>2. Came = {} BY <1>4 DEF Came
  <2> QED BY <1>3, <2>1, <2>2, ChatAssumption
<1>6. exists' \in BOOLEAN BY <1>1, Zenon
<1>7. TypeOK' BY <1>1, <1>3, <1>6, Zenon DEF TypeOK, Places
<1>8. Sleeping'
  <2>1. \A q \in Procs : pc'[q] = "asleep" <=> pc[q] = "asleep" BY <1>1, <1>3
  <2> QED BY <1>1, <2>1 DEF Sleeping
<1>9. Existing'
  <2>1. pc'["server"] = "ready" BY <1>2, <1>3
  <2>2. \A c \in Clients : pc'[c] # "removed" BY <1>3, <1>4, ProcsFinite
  <2> QED BY <1>1, <2>1, <2>2 DEF Existing
<1>10. TurnsConserved'
  <2>1. (TurnsConserved <=> (exists => Len(queue) + Cardinality(Holders) = Cardinality(Came)))'
    BY <1>7, <1>9, Counts, PTL
  <2>2. Len(queue') + Cardinality(Holders') = Cardinality(Came') BY <1>1, <1>4, <1>5, FS_EmptySet
  <2> QED BY <2>1, <2>2
<1> QED BY <1>7, <1>8, <1>9, <1>10

LEMMA RemoveKeeps == IInv /\ Remove => IInv'
<1> SUFFICES ASSUME IInv, Remove PROVE IInv' OBVIOUS
<1> USE DEF IInv
<1>1. /\ pc["server"] = "removed" /\ exists' = FALSE /\ queue' = <<>> /\ receivers' = <<>>
      /\ pc' = [p \in Procs |-> IF p = "server" \/ pc[p] = "asleep" THEN "done" ELSE pc[p]]
      /\ got' = got /\ sent' = sent
  BY DEF Remove
<1>2. /\ pc' \in [Procs -> Places]
      /\ \A q \in Procs : pc'[q] = IF q = "server" \/ pc[q] = "asleep" THEN "done" ELSE pc[q]
  BY <1>1 DEF TypeOK, Places
<1>3. queue' \in Seq(Message) /\ receivers' \in Seq(Procs) BY <1>1, EmptySeq
<1>4. exists' \in BOOLEAN BY <1>1, Zenon
<1>5. TypeOK' BY <1>1, <1>2, <1>3, <1>4, Zenon DEF TypeOK, Places
<1>6. Sleeping'
  <2>1. \A q \in Procs : pc'[q] # "asleep" BY <1>2
  <2>2. DOMAIN receivers' = {} BY <1>1
  <2> QED BY <2>1, <2>2 DEF Sleeping
<1>7. Existing'
  <2>1. pc'["server"] = "done" BY <1>2, ProcsFinite
  <2>2. \A c \in Clients : pc'[c] # "removed" BY <1>2, ProcsFinite DEF Existing
  <2> QED BY <1>1, <2>1, <2>2 DEF Existing
<1>8. TurnsConserved' BY <1>1 DEF TurnsConserved
<1> QED BY <1>5, <1>6, <1>7, <1>8

LEMMA ConnectKeeps == ASSUME NEW c \in Clients, IInv, Connect(c) PROVE IInv'
<1> USE DEF IInv
<1>1. /\ pc[c] = "start" /\ exists /\ pc' = [pc EXCEPT ![c] = "type"]
      /\ queue' = queue /\ receivers' = receivers /\ exists' = exists /\ got' = got /\ sent' = sent
  BY DEF Connect
<1>2. c \in Procs /\ c # "server" /\ "type" \in Places /\ "type" \in Turn
  BY ProcsFinite, ChatAssumption DEF Places, Turn
<1>3. /\ pc' \in [Procs -> Places] /\ \A q \in Procs : pc'[q] = IF q = c THEN "type" ELSE pc[q]
      /\ Holders' = Holders \cup {c} /\ Came' = Came \cup {c}
  BY <1>1, <1>2, Moved
<1>4. c \notin Holders /\ c \notin Came BY <1>1 DEF Holders, Came
<1>5. Cardinality(Holders') = Cardinality(Holders) + 1 /\ Cardinality(Came') = Cardinality(Came) + 1
  BY <1>3, <1>4, SetsFinite, FS_AddElement
<1>6. exists' \in BOOLEAN BY <1>1, Zenon DEF TypeOK
<1>7. TypeOK' BY <1>1, <1>3, <1>6, Zenon DEF TypeOK, Places
<1>8. Sleeping'
  <2>1. \A q \in Procs : pc'[q] = "asleep" <=> pc[q] = "asleep" BY <1>1, <1>3
  <2> QED BY <1>1, <2>1 DEF Sleeping
<1>9. Existing'
  <2>1. pc["server"] \notin {"start", "done"} BY <1>1 DEF Existing
  <2>2. pc'["server"] = pc["server"] BY <1>2, <1>3, ProcsFinite
  <2>3. \A d \in Clients : pc'[d] # "removed" BY <1>3, ProcsFinite DEF Existing
  <2> QED BY <1>1, <2>1, <2>2, <2>3 DEF Existing
<1>10. TurnsConserved'
  <2>1. TurnsConserved <=> (exists => Len(queue) + Cardinality(Holders) = Cardinality(Came)) BY Counts
  <2>2. (TurnsConserved <=> (exists => Len(queue) + Cardinality(Holders) = Cardinality(Came)))'
    BY <1>7, <1>9, Counts, PTL
  <2>3. Len(queue) \in Nat BY DEF TypeOK
  <2>4. Len(queue') + Cardinality(Holders') = Cardinality(Came') BY <1>1, <1>5, <2>1, <2>3, SetsFinite
  <2> QED BY <2>2, <2>4
<1> QED BY <1>7, <1>8, <1>9, <1>10

LEMMA SayKeeps == ASSUME NEW c \in Clients, IInv, Say(c) PROVE IInv'
<1> USE DEF IInv
<1>1. pc[c] = "type" /\ sent[c] <= MESSAGES /\ sent' = [sent EXCEPT ![c] = @ + 1] /\ exists' = exists
  BY DEF Say
<1>2. sent' \in [Clients -> 0 .. MESSAGES + 1]
  <2>1. sent \in [Clients -> 0 .. MESSAGES + 1] /\ MESSAGES \in Nat BY ChatAssumption DEF TypeOK
  <2>2. sent[c] + 1 \in 0 .. MESSAGES + 1 BY <1>1, <2>1
  <2> QED BY <1>1, <2>1, <2>2
<1>3. c \in Procs /\ c # "server" BY ProcsFinite, ChatAssumption
<1>4. CASE exists
  <2>1. PICK quit \in {TRUE, sent[c] = MESSAGES} :
          Send(c, [from |-> c, quit |-> quit], IF quit THEN "done" ELSE "ready")
    BY <1>4 DEF Say
  <2>2. quit \in BOOLEAN BY Zenon
  <2>3. [from |-> c, quit |-> quit] \in Message BY <1>3, <2>2 DEF Message
  <2>4. (IF quit THEN "done" ELSE "ready") \in {"ready", "done"} OBVIOUS
  <2> QED BY <1>1, <1>2, <1>3, <1>4, <2>1, <2>3, <2>4, SendKeeps
<1>5. CASE ~ exists
  <2>1. pc' = [pc EXCEPT ![c] = "done"] /\ queue' = queue /\ receivers' = receivers /\ got' = got
    BY <1>5 DEF Say
  <2>2. "done" \in Places /\ "done" # "start" BY DEF Places
  <2>3. pc' \in [Procs -> Places] /\ \A q \in Procs : pc'[q] = IF q = c THEN "done" ELSE pc[q]
    BY <1>3, <2>1, <2>2, Moved
  <2>4. exists' \in BOOLEAN BY <1>1, Zenon DEF TypeOK
  <2>5. TypeOK' BY <1>1, <1>2, <2>1, <2>3, <2>4, Zenon DEF TypeOK, Places
  <2>6. Sleeping'
    <3>1. \A q \in Procs : pc'[q] = "asleep" <=> pc[q] = "asleep" BY <1>1, <2>3
    <3> QED BY <2>1, <3>1 DEF Sleeping
  <2>7. Existing'
    <3>1. pc'["server"] = pc["server"] BY <1>3, <2>3, ProcsFinite
    <3>2. pc["server"] # "start" BY <1>1 DEF Existing
    <3>3. \A d \in Clients : pc'[d] # "removed" BY <2>3, ProcsFinite DEF Existing
    <3> QED BY <1>1, <3>1, <3>2, <3>3 DEF Existing
  <2>8. TurnsConserved' BY <1>1, <1>5 DEF TurnsConserved
  <2> QED BY <2>5, <2>6, <2>7, <2>8
<1> QED BY <1>4, <1>5

(* Every step of the chat: a turn to talk is never lost nor made.          *)
LEMMA ChatStep == IInv /\ [Next]_vars => IInv'
<1> SUFFICES ASSUME IInv, [Next]_vars PROVE IInv' OBVIOUS
<1>1. CASE Open BY <1>1, OpenKeeps
<1>2. CASE Receive("server", "removed") BY <1>2, ReceiveKeeps, ProcsFinite
<1>3. CASE Answer
  <2> DEFINE to == IF got["server"].quit THEN "removed" ELSE "type"
  <2>1. to \in {"removed", "type"} OBVIOUS
  <2>2. pc["server"] = "print" /\ pc' = [pc EXCEPT !["server"] = to] /\ UNCHANGED <<queue, receivers, exists, got, sent>>
    BY <1>3 DEF Answer
  <2> HIDE DEF to
  <2>3. to \in Places \ {"start", "asleep"} /\ to \in Turn /\ to # "done" /\ pc["server"] \in Turn
    BY <2>1, <2>2 DEF Places, Turn
  <2> QED BY <2>2, <2>3, MoveKeeps, ProcsFinite
<1>4. CASE Reply
  <2>1. pc["server"] = "type" /\ exists' = exists /\ sent' = sent BY <1>4 DEF Reply
  <2>2. PICK quit \in BOOLEAN : Send("server", [from |-> "server", quit |-> quit], "ready") BY <1>4 DEF Reply
  <2>3. [from |-> "server", quit |-> quit] \in Message BY ProcsFinite DEF Message
  <2>4. exists BY <2>1 DEF IInv, Existing
  <2>5. sent' \in [Clients -> 0 .. MESSAGES + 1] BY <2>1 DEF IInv, TypeOK
  <2> QED BY <2>1, <2>2, <2>3, <2>4, <2>5, SendKeeps, ProcsFinite
<1>5. CASE Remove BY <1>5, RemoveKeeps
<1>6. ASSUME NEW c \in Clients, msgclient(c) PROVE IInv'
  <2>1. c \in Procs /\ c # "server" BY ProcsFinite, ChatAssumption
  <2>2. CASE Connect(c) BY <2>2, ConnectKeeps
  <2>3. CASE Say(c) BY <2>3, SayKeeps
  <2>4. CASE Receive(c, "done") BY <2>1, <2>4, ReceiveKeeps
  <2>5. CASE Show(c)
    <3>1. pc[c] = "print" /\ pc' = [pc EXCEPT ![c] = "type"] /\ UNCHANGED <<queue, receivers, exists, got, sent>>
      BY <2>5 DEF Show
    <3>2. "type" \in Places \ {"start", "asleep"} /\ "type" \in Turn /\ pc[c] \in Turn BY <3>1 DEF Places, Turn
    <3> QED BY <2>1, <3>1, <3>2, MoveKeeps
  <2> QED BY <1>6, <2>2, <2>3, <2>4, <2>5 DEF msgclient
<1>7. CASE UNCHANGED vars
  BY <1>7 DEF vars, IInv, TypeOK, Sleeping, Existing, TurnsConserved, Talking, Chatting, Quits
<1>8. msgserver \/ (\E c \in Clients : msgclient(c)) \/ UNCHANGED vars BY DEF Next, Idle
<1> QED BY <1>1, <1>2, <1>3, <1>4, <1>5, <1>6, <1>7, <1>8 DEF msgserver

-------------------------------------------------------------------------------
(* MsgExamples.  The messages of each kind in the queue.                   *)
Kinds    == {Example!ToServer("text"), Example!ToServer("confirm"), Example!Answer}
Of(m)    == {k \in DOMAIN msgs : msgs[k] = m}
Text     == Example!ToServer("text")
Confirm  == Example!ToServer("confirm")

LEMMA KindsDiffer == /\ Text # Confirm /\ Text # Example!Answer /\ Confirm # Example!Answer
                     /\ \A m \in Kinds : /\ m.to = "client" <=> m = Example!Answer
                                         /\ m.to = "server" <=> m \in {Text, Confirm}
                                         /\ m.kind = "confirm" <=> m = Confirm
BY DEF Kinds, Text, Confirm, Example!ToServer, Example!Answer

LEMMA WaitingOf ==
  ASSUME Example!TypeOK
  PROVE  /\ msgs \in Seq(Kinds) /\ DOMAIN msgs = 1 .. Len(msgs) /\ Len(msgs) \in Nat
         /\ \A k \in DOMAIN msgs : msgs[k] \in Kinds
         /\ Example!Waiting("client") = Of(Example!Answer)
         /\ Example!Waiting("server") = Of(Text) \cup Of(Confirm)
         /\ Example!Texts = Of(Text)
<1>1. msgs \in Seq(Kinds) BY DEF Example!TypeOK, Kinds
<1>2. DOMAIN msgs = 1 .. Len(msgs) /\ Len(msgs) \in Nat /\ \A k \in DOMAIN msgs : msgs[k] \in Kinds
  BY <1>1, LenProperties
<1> QED BY <1>1, <1>2, KindsDiffer DEF Example!Waiting, Example!Texts, Of, Text

(* The oldest message of those waiting for somebody is one of them.        *)
LEMMA OldestWaits ==
  ASSUME Example!TypeOK, NEW who, Example!Waiting(who) # {}
  PROVE  Example!Oldest(who) \in Example!Waiting(who)
<1> DEFINE S == Example!Waiting(who)
<1>1. S \subseteq Nat BY WaitingOf DEF Example!Waiting
<1>2. PICK m \in S : \A n \in S : ~ (<<n, m>> \in OpToRel(<, Nat))
  BY <1>1, NatLessThanWellFounded, WFMin
<1>3. ASSUME NEW n \in S, n < m PROVE FALSE
  <2>1. <<n, m>> \in Nat \X Nat /\ <<n, m>>[1] < <<n, m>>[2] BY <1>1, <1>3
  <2>2. <<n, m>> \in OpToRel(<, Nat) BY <2>1, Zenon DEF OpToRel
  <2> QED BY <1>2, <2>2
<1>4. \A n \in S : m <= n BY <1>1, <1>3
<1> QED BY <1>4 DEF Example!Oldest

(* The queue when a message is sent, and when one is taken out of it.      *)
LEMMA OneMore ==
  ASSUME Example!TypeOK, NEW m \in Kinds, msgs' = Append(msgs, m)
  PROVE  /\ msgs' \in Seq(Kinds)
         /\ Len(msgs) + 1 \notin DOMAIN msgs
         /\ \A n \in Kinds : Of(n)' = IF n = m THEN Of(n) \cup {Len(msgs) + 1} ELSE Of(n)
<1>1. /\ msgs' \in Seq(Kinds) /\ Len(msgs') = Len(msgs) + 1 /\ Len(msgs) \in Nat
      /\ \A k \in 1 .. Len(msgs) : msgs'[k] = msgs[k]
      /\ msgs'[Len(msgs) + 1] = m
      /\ DOMAIN msgs' = 1 .. Len(msgs) + 1 /\ DOMAIN msgs = 1 .. Len(msgs)
  BY WaitingOf, AppendProperties, LenProperties
<1>2. DOMAIN msgs' = DOMAIN msgs \cup {Len(msgs) + 1} /\ Len(msgs) + 1 \notin DOMAIN msgs BY <1>1
<1>3. ASSUME NEW n \in Kinds PROVE Of(n)' = IF n = m THEN Of(n) \cup {Len(msgs) + 1} ELSE Of(n)
  BY <1>1, <1>2 DEF Of
<1> QED BY <1>1, <1>2, <1>3

LEMMA OneLess ==
  ASSUME Example!TypeOK, NEW k \in DOMAIN msgs, msgs' = Example!RemoveAt(msgs, k)
  PROVE  /\ msgs' \in Seq(Kinds)
         /\ \A i \in DOMAIN msgs' : \E j \in DOMAIN msgs \ {k} : msgs[j] = msgs'[i]
         /\ \A i1, i2 \in DOMAIN msgs' : i1 # i2 =>
              \E j1, j2 \in DOMAIN msgs \ {k} : j1 # j2 /\ msgs[j1] = msgs'[i1] /\ msgs[j2] = msgs'[i2]
<1> DEFINE N == Len(msgs)
           old == SubSeq(msgs, 1, k - 1)
           new == SubSeq(msgs, k + 1, N)
           f(i) == IF i < k THEN i ELSE i + 1
<1>1. /\ msgs \in Seq(Kinds) /\ DOMAIN msgs = 1 .. N /\ N \in Nat /\ k \in 1 .. N
      /\ \A i \in 1 .. N : msgs[i] \in Kinds
  BY WaitingOf
<1>2. /\ old \in Seq(Kinds) /\ Len(old) = k - 1
      /\ \A i \in 1 .. k - 1 : old[i] = msgs[i]
  <2>1. \A i \in 1 .. k - 1 : msgs[i] \in Kinds BY <1>1
  <2>2. 1 \in Int /\ k - 1 \in Int BY <1>1
  <2>3. /\ old \in Seq(Kinds) /\ Len(old) = IF 1 <= k - 1 THEN (k - 1) - 1 + 1 ELSE 0
        /\ \A i \in 1 .. (k - 1) - 1 + 1 : old[i] = msgs[1 + i - 1]
    BY <2>1, <2>2, SubSeqProperties
  <2> HIDE DEF old
  <2> QED BY <1>1, <2>3
<1>3. /\ new \in Seq(Kinds) /\ Len(new) = N - k
      /\ \A i \in 1 .. N - k : new[i] = msgs[k + i]
  <2>1. \A i \in k + 1 .. N : msgs[i] \in Kinds BY <1>1
  <2>2. k + 1 \in Int /\ N \in Int BY <1>1
  <2>3. /\ new \in Seq(Kinds) /\ Len(new) = IF k + 1 <= N THEN N - (k + 1) + 1 ELSE 0
        /\ \A i \in 1 .. N - (k + 1) + 1 : new[i] = msgs[(k + 1) + i - 1]
    BY <2>1, <2>2, SubSeqProperties, SMTT(30)
  <2> HIDE DEF new
  <2>4. N - (k + 1) + 1 = N - k /\ \A i \in 1 .. N - k : (k + 1) + i - 1 = k + i BY <1>1
  <2>5. Len(new) = N - k BY <1>1, <2>3
  <2> HIDE DEF N
  <2>6. ASSUME NEW i \in 1 .. N - k PROVE new[i] = msgs[k + i]
    <3>1. new[i] = msgs[(k + 1) + i - 1] BY <2>3, <2>4
    <3> QED BY <2>4, <3>1
  <2> QED BY <2>3, <2>5, <2>6
<1>4. msgs' = old \o new BY DEF Example!RemoveAt
<1> HIDE DEF old, new
<1>5. /\ msgs' \in Seq(Kinds) /\ DOMAIN msgs' = 1 .. N - 1
      /\ \A i \in 1 .. N - 1 : msgs'[i] = msgs[f(i)] /\ f(i) \in DOMAIN msgs \ {k}
  <2>1. /\ msgs' \in Seq(Kinds) /\ Len(msgs') = (k - 1) + (N - k)
        /\ \A i \in 1 .. (k - 1) + (N - k) : msgs'[i] = IF i <= k - 1 THEN old[i] ELSE new[i - (k - 1)]
    <3>1. /\ old \o new \in Seq(Kinds) /\ Len(old \o new) = Len(old) + Len(new)
          /\ \A i \in 1 .. Len(old) + Len(new) : (old \o new)[i] = IF i <= Len(old) THEN old[i] ELSE new[i - Len(old)]
      BY <1>2, <1>3, ConcatProperties, Zenon
    <3>2. Len(old) = k - 1 /\ Len(new) = N - k BY <1>2, <1>3
    <3> QED BY <1>4, <3>1, <3>2, Zenon
  <2>2. DOMAIN msgs' = 1 .. N - 1 BY <1>1, <2>1, LenProperties
  <2>3. ASSUME NEW i \in 1 .. N - 1 PROVE msgs'[i] = msgs[f(i)] /\ f(i) \in DOMAIN msgs \ {k}
    <3>1. CASE i < k BY <1>1, <1>2, <2>1, <2>3, <3>1
    <3>2. CASE ~ (i < k)
      <4>1. i - (k - 1) \in 1 .. N - k /\ k + (i - (k - 1)) = i + 1 BY <1>1, <2>3, <3>2
      <4>2. msgs'[i] = new[i - (k - 1)] BY <1>1, <2>1, <2>3, <3>2
      <4>3. msgs'[i] = msgs[i + 1] BY <1>3, <4>1, <4>2
      <4> QED BY <1>1, <2>3, <3>2, <4>3
    <3> QED BY <3>1, <3>2
  <2> QED BY <2>1, <2>2, <2>3
<1>6. \A i1, i2 \in 1 .. N - 1 : i1 # i2 => f(i1) # f(i2) BY <1>1
<1> HIDE DEF f
<1> QED BY <1>5, <1>6

(* The parts of the invariant, said of the messages of a kind.             *)
OneAnswerOf == /\ at["server"] \in {"start", "first", "answer"} => answered = {} /\ Of(Example!Answer) = {}
               /\ \A k, l \in Of(Example!Answer) : k = l
               /\ Of(Example!Answer) # {} => answered = {}
ConfirmedOf == /\ Of(Confirm) # {} => answered # {}
               /\ created /\ (\E c \in Clients : at[c] \in {"confirm", "done"}) => answered # {}
TextsOf == /\ Of(Text) # {} \/ at["server"] \notin {"start", "first"} => Example!Sent # {}
           /\ at["server"] = "first" /\ (\E k, l \in Of(Text) : k # l) => Example!Two
           /\ at["server"] \in {"answer", "second"} /\ Of(Text) # {} => Example!Two

LEMMA InKinds ==
  ASSUME Example!TypeOK
  PROVE  /\ Example!OneAnswer <=> OneAnswerOf
         /\ Example!Confirmed <=> ConfirmedOf
         /\ Example!TextsSent <=> TextsOf
<1>1. Example!OneAnswer <=> OneAnswerOf BY WaitingOf DEF Example!OneAnswer, OneAnswerOf
<1>2. Example!Confirmed <=> ConfirmedOf
  <2>1. (\A k \in DOMAIN msgs : msgs[k] = Example!ToServer("confirm") => answered # {})
           <=> (Of(Confirm) # {} => answered # {}) BY DEF Of, Confirm
  <2> QED BY <2>1, Zenon DEF Example!Confirmed, ConfirmedOf
<1>3. Example!TextsSent <=> TextsOf BY WaitingOf DEF Example!TextsSent, TextsOf
<1> QED BY <1>1, <1>2, <1>3

ExampleInv == Example!TypeOK /\ Example!Existing /\ OneAnswerOf /\ ConfirmedOf /\ TextsOf /\ Example!OneAnswered

LEMMA ExampleInvariant == Example!IInv <=> ExampleInv
BY InKinds, Zenon DEF Example!IInv, ExampleInv

(* Where everybody is after a step of one of them.                         *)
Everywhere == {"start", "first", "answer", "second", "remove", "done", "refused", "send", "receive", "confirm"}
Both == \E c, d \in Clients : c # d /\ {at[c], at[d]} \cap {"start", "refused"} = {}

LEMMA Goes ==
  ASSUME Example!TypeOK, NEW q \in Procs, NEW from, NEW to, Example!Goto(q, from, to),
         to \in IF q = "server" THEN {"start", "first", "answer", "second", "remove", "done"}
                ELSE {"start", "refused", "send", "receive", "confirm", "done"}
  PROVE  /\ at[q] = from /\ \A r \in Procs : at'[r] = IF r = q THEN to ELSE at[r]
         /\ at' \in [Example!Procs -> Everywhere]
         /\ at'["server"] \in {"start", "first", "answer", "second", "remove", "done"}
         /\ \A c \in Clients : at'[c] \in {"start", "refused", "send", "receive", "confirm", "done"}
<1>1. Example!Procs = Procs /\ at \in [Procs -> Everywhere] BY DEF Example!Procs, Procs, Example!TypeOK, Everywhere
<1>2. to \in Everywhere BY DEF Everywhere
<1>3. at[q] = from /\ at' = [at EXCEPT ![q] = to] BY DEF Example!Goto
<1>4. at' \in [Procs -> Everywhere] /\ \A r \in Procs : at'[r] = IF r = q THEN to ELSE at[r] BY <1>1, <1>2, <1>3
<1>5. at'["server"] \in {"start", "first", "answer", "second", "remove", "done"}
  BY <1>4, ProcsFinite DEF Example!TypeOK
<1>6. \A c \in Clients : at'[c] \in {"start", "refused", "send", "receive", "confirm", "done"}
  BY <1>4, ProcsFinite, ChatAssumption DEF Example!TypeOK
<1> QED BY <1>1, <1>3, <1>4, <1>5, <1>6

LEMMA ExampleInit == Example!Init => Example!IInv
<1> SUFFICES ASSUME Example!Init PROVE ExampleInv BY ExampleInvariant
<1>1. /\ msgs = <<>> /\ created = FALSE /\ at = [q \in Procs |-> "start"] /\ answered = {} /\ own = {}
      /\ Example!Procs = Procs
  BY DEF Example!Init, Example!Procs, Procs
<1>2. created \in BOOLEAN /\ tooBig \in BOOLEAN BY Zenon DEF Example!Init
<1>3. at \in [Procs -> Everywhere] /\ \A q \in Procs : at[q] = "start" BY <1>1 DEF Everywhere
<1>4. msgs \in Seq(Kinds) /\ \A m : Of(m) = {} BY <1>1, EmptySeq DEF Of
<1>5. Example!TypeOK BY <1>1, <1>2, <1>3, <1>4, ProcsFinite, Zenon DEF Example!TypeOK, Everywhere, Kinds
<1>6. Example!Existing BY <1>1, <1>3, ProcsFinite DEF Example!Existing
<1>7. OneAnswerOf /\ ConfirmedOf BY <1>1, <1>4 DEF OneAnswerOf, ConfirmedOf
<1>8. TextsOf BY <1>1, <1>3, <1>4, ProcsFinite DEF TextsOf
<1>9. Example!OneAnswered BY <1>1, <1>3, ProcsFinite DEF Example!OneAnswered
<1> QED BY <1>5, <1>6, <1>7, <1>8, <1>9 DEF ExampleInv

(* Who has sent his text, and who has come, when one moves: the sets never *)
(* shrink.                                                                 *)
LEMMA NobodyLeaves ==
  ASSUME Example!TypeOK, NEW q \in Procs, NEW to, \A r \in Procs : at'[r] = IF r = q THEN to ELSE at[r],
         q # "server" => \/ at[q] = "start"
                         \/ at[q] # "refused" /\ to \notin {"start", "refused", "send"}
  PROVE  Example!Sent \subseteq Example!Sent' /\ (Example!Two => Example!Two') /\ (Both => Both')
<1>1. ASSUME NEW c \in Clients, at[c] \notin {"start", "refused"} PROVE at'[c] \notin {"start", "refused"}
  BY <1>1, ProcsFinite, ChatAssumption
<1>2. ASSUME NEW c \in Clients, at[c] \notin {"start", "refused", "send"} PROVE at'[c] \notin {"start", "refused", "send"}
  BY <1>2, ProcsFinite, ChatAssumption
<1>3. Example!Sent \subseteq Example!Sent' BY <1>2 DEF Example!Sent
<1> QED BY <1>1, <1>3 DEF Example!Two, Both

LEMMA CreateKeeps == ExampleInv /\ Example!Create => ExampleInv'
<1> SUFFICES ASSUME ExampleInv, Example!Create PROVE ExampleInv' OBVIOUS
<1> USE DEF ExampleInv
<1>1. /\ Example!Goto("server", "start", "first") /\ created' = TRUE
      /\ msgs' = msgs /\ answered' = answered /\ own' = own /\ tooBig' = tooBig
  BY DEF Example!Create
<1>2. /\ at["server"] = "start" /\ \A r \in Procs : at'[r] = IF r = "server" THEN "first" ELSE at[r]
      /\ at' \in [Example!Procs -> Everywhere]
      /\ at'["server"] \in {"start", "first", "answer", "second", "remove", "done"}
      /\ \A c \in Clients : at'[c] \in {"start", "refused", "send", "receive", "confirm", "done"}
  BY <1>1, Goes, ProcsFinite
<1>3. created' \in BOOLEAN /\ tooBig' \in BOOLEAN BY <1>1, Zenon DEF Example!TypeOK
<1>4. Example!TypeOK' BY <1>1, <1>2, <1>3, Zenon DEF Example!TypeOK, Everywhere
<1>5. msgs = <<>> /\ own = {} /\ at'["server"] = "first" /\ ~ created
  BY <1>1, <1>2, ProcsFinite DEF Example!Existing
<1>6. \A m : Of(m)' = {} BY <1>1, <1>5 DEF Of
<1>7. \A c \in Clients : at'[c] \in {"start", "refused"} BY <1>2, ProcsFinite, ChatAssumption DEF Example!Existing
<1>8. Example!Existing' BY <1>1, <1>5 DEF Example!Existing
<1>9. OneAnswerOf' BY <1>1, <1>2, <1>6 DEF OneAnswerOf
<1>10. ConfirmedOf' BY <1>6, <1>7 DEF ConfirmedOf
<1>11. TextsOf' BY <1>5, <1>6 DEF TextsOf
<1>12. Example!OneAnswered' BY <1>1, <1>5 DEF Example!OneAnswered
<1> QED BY <1>4, <1>8, <1>9, <1>10, <1>11, <1>12

LEMMA ServerReceiveKeeps == ExampleInv /\ Example!ServerReceive => ExampleInv'
<1> SUFFICES ASSUME ExampleInv, Example!ServerReceive PROVE ExampleInv' OBVIOUS
<1> USE DEF ExampleInv
<1> DEFINE k == Example!Oldest("server")
<1>1. /\ Example!Waiting("server") # {}
      /\ Example!Goto("server", "first", "answer") \/ Example!Goto("server", "second", "remove")
      /\ msgs' = IF tooBig /\ msgs[k].kind = "confirm" THEN msgs ELSE Example!RemoveAt(msgs, k)
      /\ created' = created /\ answered' = answered /\ own' = own /\ tooBig' = tooBig
  BY DEF Example!ServerReceive
<1>2. k \in Of(Text) \cup Of(Confirm) BY <1>1, OldestWaits, WaitingOf
<1> HIDE DEF k
<1>3. k \in DOMAIN msgs /\ (k \in Of(Text) => msgs[k] = Text) /\ (k \in Of(Confirm) => msgs[k] = Confirm)
  BY <1>2 DEF Of
<1>4. PICK from \in {"first", "second"} :
        Example!Goto("server", from, IF from = "first" THEN "answer" ELSE "remove")
  BY <1>1
<1> DEFINE to == IF from = "first" THEN "answer" ELSE "remove"
<1>5. /\ at["server"] = from /\ \A r \in Procs : at'[r] = IF r = "server" THEN to ELSE at[r]
      /\ at' \in [Example!Procs -> Everywhere]
      /\ at'["server"] \in {"start", "first", "answer", "second", "remove", "done"}
      /\ \A c \in Clients : at'[c] \in {"start", "refused", "send", "receive", "confirm", "done"}
  BY <1>4, Goes, ProcsFinite
<1>6. at'["server"] = to /\ \A c \in Clients : at'[c] = at[c] BY <1>5, ProcsFinite, ChatAssumption
<1>7. Example!Sent' = Example!Sent /\ (Example!Two' <=> Example!Two) /\ (Both' <=> Both)
  BY <1>6 DEF Example!Sent, Example!Two, Both
(* What is left in the queue was there, and is not the message taken.      *)
<1>8. /\ msgs' \in Seq(Kinds)
      /\ \A m \in Kinds : /\ Of(m)' # {} => Of(m) # {}
                          /\ (\A i, j \in Of(m) : i = j) => \A i, j \in Of(m)' : i = j
      /\ Of(Text)' # {} /\ k \in Of(Text) => \E i, j \in Of(Text) : i # j
  <2> DEFINE stays == tooBig /\ msgs[k].kind = "confirm"
  <2>1. CASE stays
    <3>1. msgs' = msgs BY <1>1, <2>1
    <3>2. msgs[k].kind = "confirm" BY <2>1
    <3>3. msgs[k] = Confirm BY <1>3, <3>2, WaitingOf, KindsDiffer
    <3>4. k \notin Of(Text) BY <3>3, KindsDiffer DEF Of
    <3>5. \A m \in Kinds : Of(m)' = Of(m) BY <3>1 DEF Of
    <3>6. msgs' \in Seq(Kinds) BY <3>1, WaitingOf
    <3> QED BY <3>4, <3>5, <3>6
  <2>2. CASE ~ stays
    <3>0. msgs' = Example!RemoveAt(msgs, k) BY <1>1, <2>2
    <3>1. /\ msgs' \in Seq(Kinds)
          /\ \A i \in DOMAIN msgs' : \E j \in DOMAIN msgs \ {k} : msgs[j] = msgs'[i]
          /\ \A i1, i2 \in DOMAIN msgs' : i1 # i2 =>
               \E j1, j2 \in DOMAIN msgs \ {k} : j1 # j2 /\ msgs[j1] = msgs'[i1] /\ msgs[j2] = msgs'[i2]
      BY <1>3, <3>0, OneLess
    <3>2. ASSUME NEW m \in Kinds
          PROVE  /\ Of(m)' # {} => Of(m) # {}
                 /\ (\A i, j \in Of(m) : i = j) => \A i, j \in Of(m)' : i = j
      BY <3>1 DEF Of
    <3>3. Of(Text)' # {} /\ k \in Of(Text) => \E i, j \in Of(Text) : i # j BY <3>1 DEF Of
    <3> QED BY <3>1, <3>2, <3>3
  <2> QED BY <2>1, <2>2
<1>9. created' \in BOOLEAN /\ tooBig' \in BOOLEAN BY <1>1, Zenon DEF Example!TypeOK
<1>10. Example!TypeOK' BY <1>1, <1>5, <1>8, <1>9, Zenon DEF Example!TypeOK, Everywhere, Kinds
<1>11. from \in {"first", "second"} /\ to \in {"answer", "remove"} /\ at["server"] = from BY <1>5
<1>12. Example!Existing' BY <1>1, <1>6, <1>11 DEF Example!Existing
<1>13. {Text, Confirm, Example!Answer} \subseteq Kinds BY DEF Kinds, Text, Confirm
<1>14. OneAnswerOf'
  <2>1. to = "answer" => answered = {} /\ Of(Example!Answer) = {} BY <1>5 DEF OneAnswerOf
  <2> QED BY <1>1, <1>6, <1>8, <1>11, <1>13, <2>1 DEF OneAnswerOf
<1>15. ConfirmedOf' BY <1>1, <1>6, <1>8, <1>13 DEF ConfirmedOf
(* The message the server takes first is a text: nobody has an answer yet. *)
<1>16. from = "first" => k \in Of(Text) BY <1>2, <1>5 DEF OneAnswerOf, ConfirmedOf
<1>17. TextsOf'
  <2>1. Example!Sent # {} BY <1>11, <1>16 DEF TextsOf
  <2>2. to = "answer" /\ Of(Text)' # {} => Example!Two BY <1>5, <1>8, <1>16 DEF TextsOf
  <2> QED BY <1>6, <1>7, <1>11, <2>1, <2>2 DEF TextsOf
<1>18. Example!OneAnswered'
  <2>1. from = "second" => answered # {} \/ Example!Two BY <1>2, <1>5 DEF ConfirmedOf, TextsOf
  <2>2. Example!Two => Both BY DEF Example!Two, Example!Sent, Both
  <2>3. at'["server"] \in {"remove", "done"} \/ own # {} => answered # {} \/ Both
    BY <1>6, <1>11, <2>1, <2>2 DEF Example!Existing
  <2> QED BY <1>1, <1>7, <2>3 DEF Example!OneAnswered, Both
<1> QED BY <1>10, <1>12, <1>14, <1>15, <1>17, <1>18

(* A message sent to the queue, if it is there.                            *)
LEMMA Sends ==
  ASSUME Example!TypeOK, NEW m \in Kinds, Example!Msgsnd(m)
  PROVE  /\ msgs' \in Seq(Kinds) /\ (~ created => msgs' = msgs)
         /\ \A n \in Kinds : n # m => Of(n)' = Of(n)
         /\ created => Of(m)' = Of(m) \cup {Len(msgs) + 1}
         /\ ~ created => Of(m)' = Of(m)
<1>1. CASE created
  <2>1. msgs' = Append(msgs, m) BY <1>1 DEF Example!Msgsnd
  <2> QED BY <1>1, <2>1, OneMore
<1>2. CASE ~ created
  <2>1. msgs' = msgs BY <1>2 DEF Example!Msgsnd
  <2> QED BY <1>2, <2>1, WaitingOf DEF Of
<1> QED BY <1>1, <1>2

LEMMA RespondKeeps == ExampleInv /\ Example!Respond => ExampleInv'
<1> SUFFICES ASSUME ExampleInv, Example!Respond PROVE ExampleInv' OBVIOUS
<1> USE DEF ExampleInv
<1>1. /\ Example!Goto("server", "answer", "second") /\ Example!Msgsnd(Example!Answer)
      /\ created' = created /\ answered' = answered /\ own' = own /\ tooBig' = tooBig
  BY DEF Example!Respond
<1>2. /\ at["server"] = "answer" /\ \A r \in Procs : at'[r] = IF r = "server" THEN "second" ELSE at[r]
      /\ at' \in [Example!Procs -> Everywhere]
      /\ at'["server"] \in {"start", "first", "answer", "second", "remove", "done"}
      /\ \A c \in Clients : at'[c] \in {"start", "refused", "send", "receive", "confirm", "done"}
  BY <1>1, Goes, ProcsFinite
<1>3. at'["server"] = "second" /\ \A c \in Clients : at'[c] = at[c] BY <1>2, ProcsFinite, ChatAssumption
<1>4. Example!Sent' = Example!Sent /\ (Example!Two' <=> Example!Two) BY <1>3 DEF Example!Sent, Example!Two
<1>5. created BY <1>2 DEF Example!Existing
<1>6. Example!Answer \in Kinds /\ Text \in Kinds /\ Confirm \in Kinds BY DEF Kinds, Text, Confirm
<1>7. /\ msgs' \in Seq(Kinds) /\ Of(Text)' = Of(Text) /\ Of(Confirm)' = Of(Confirm)
      /\ Of(Example!Answer)' = Of(Example!Answer) \cup {Len(msgs) + 1}
  BY <1>1, <1>5, <1>6, Sends, KindsDiffer
<1>8. created' \in BOOLEAN /\ tooBig' \in BOOLEAN BY <1>1, Zenon DEF Example!TypeOK
<1>9. Example!TypeOK' BY <1>1, <1>2, <1>7, <1>8, Zenon DEF Example!TypeOK, Everywhere, Kinds
<1>10. Example!Existing' BY <1>1, <1>2, <1>3, <1>5 DEF Example!Existing
<1>11. OneAnswerOf' BY <1>1, <1>2, <1>3, <1>7 DEF OneAnswerOf
<1>12. ConfirmedOf' BY <1>1, <1>3, <1>7 DEF ConfirmedOf
<1>13. TextsOf' BY <1>2, <1>3, <1>4, <1>7 DEF TextsOf
<1>14. Example!OneAnswered'
  <2>1. own' = {} /\ at'["server"] \notin {"remove", "done"} BY <1>1, <1>2, <1>3 DEF Example!Existing
  <2> QED BY <1>1, <2>1 DEF Example!OneAnswered
<1> QED BY <1>9, <1>10, <1>11, <1>12, <1>13, <1>14

LEMMA RemoveQueueKeeps == ExampleInv /\ Example!RemoveQueue => ExampleInv'
<1> SUFFICES ASSUME ExampleInv, Example!RemoveQueue PROVE ExampleInv' OBVIOUS
<1> USE DEF ExampleInv
<1>1. /\ Example!Goto("server", "remove", "done") /\ created' = FALSE /\ msgs' = <<>>
      /\ answered' = answered /\ own' = own /\ tooBig' = tooBig
  BY DEF Example!RemoveQueue
<1>2. /\ at["server"] = "remove" /\ \A r \in Procs : at'[r] = IF r = "server" THEN "done" ELSE at[r]
      /\ at' \in [Example!Procs -> Everywhere]
      /\ at'["server"] \in {"start", "first", "answer", "second", "remove", "done"}
      /\ \A c \in Clients : at'[c] \in {"start", "refused", "send", "receive", "confirm", "done"}
  BY <1>1, Goes, ProcsFinite
<1>3. at'["server"] = "done" /\ \A c \in Clients : at'[c] = at[c] BY <1>2, ProcsFinite, ChatAssumption
<1>4. Example!Sent' = Example!Sent /\ (Both' <=> Both) BY <1>3 DEF Example!Sent, Both
<1>5. msgs' \in Seq(Kinds) /\ \A m : Of(m)' = {} BY <1>1, EmptySeq DEF Of
<1>6. created' \in BOOLEAN /\ tooBig' \in BOOLEAN BY <1>1, Zenon DEF Example!TypeOK
<1>7. Example!TypeOK' BY <1>1, <1>2, <1>5, <1>6, Zenon DEF Example!TypeOK, Everywhere, Kinds
<1>8. Example!Existing' BY <1>1, <1>3 DEF Example!Existing
<1>9. OneAnswerOf' BY <1>3, <1>5 DEF OneAnswerOf
<1>10. ConfirmedOf' BY <1>1, <1>5 DEF ConfirmedOf
<1>11. TextsOf' BY <1>2, <1>3, <1>4, <1>5 DEF TextsOf
<1>12. Example!OneAnswered' BY <1>1, <1>2, <1>4 DEF Example!OneAnswered, Both
<1> QED BY <1>7, <1>8, <1>9, <1>10, <1>11, <1>12

LEMMA StartKeeps == ASSUME NEW c \in Clients, ExampleInv, Example!Start(c) PROVE ExampleInv'
<1> USE DEF ExampleInv
<1> DEFINE to == IF created THEN "send" ELSE "refused"
<1>1. /\ Example!Goto(c, "start", to)
      /\ msgs' = msgs /\ created' = created /\ answered' = answered /\ own' = own /\ tooBig' = tooBig
  BY DEF Example!Start
<1>2. c \in Procs /\ c # "server" BY ProcsFinite, ChatAssumption
<1>3. to \in {"send", "refused"} /\ (created \/ to = "refused") BY Zenon
<1> HIDE DEF to
<1>4. /\ at[c] = "start" /\ \A r \in Procs : at'[r] = IF r = c THEN to ELSE at[r]
      /\ at' \in [Example!Procs -> Everywhere]
      /\ at'["server"] \in {"start", "first", "answer", "second", "remove", "done"}
      /\ \A d \in Clients : at'[d] \in {"start", "refused", "send", "receive", "confirm", "done"}
  BY <1>1, <1>2, <1>3, Goes
<1>5. at'["server"] = at["server"] BY <1>2, <1>4, ProcsFinite
<1>6. Example!Sent \subseteq Example!Sent' /\ (Example!Two => Example!Two') /\ (Both => Both')
  BY <1>2, <1>4, NobodyLeaves
<1>7. \A m : Of(m)' = Of(m) BY <1>1 DEF Of
<1>8. created' \in BOOLEAN /\ tooBig' \in BOOLEAN BY <1>1, Zenon DEF Example!TypeOK
<1>9. Example!TypeOK' BY <1>1, <1>4, <1>8, Zenon DEF Example!TypeOK, Everywhere
<1>10. \A d \in Clients : at'[d] = IF d = c THEN to ELSE at[d] BY <1>4, ProcsFinite
<1>11. Example!Existing'
  <2>1. at["server"] = "start" => to = "refused" BY <1>3 DEF Example!Existing
  <2> QED BY <1>1, <1>5, <1>10, <2>1 DEF Example!Existing
<1>12. OneAnswerOf' BY <1>1, <1>5, <1>7 DEF OneAnswerOf
<1>13. ConfirmedOf' BY <1>1, <1>3, <1>7, <1>10 DEF ConfirmedOf
<1>14. TextsOf' BY <1>5, <1>6, <1>7 DEF TextsOf
<1>15. Example!OneAnswered' BY <1>1, <1>5, <1>6 DEF Example!OneAnswered, Both
<1> QED BY <1>9, <1>11, <1>12, <1>13, <1>14, <1>15

LEMMA SendTextKeeps == ASSUME NEW c \in Clients, ExampleInv, Example!Send(c) PROVE ExampleInv'
<1> USE DEF ExampleInv
<1>1. /\ Example!Goto(c, "send", "receive") /\ Example!Msgsnd(Text)
      /\ created' = created /\ answered' = answered /\ own' = own /\ tooBig' = tooBig
  BY DEF Example!Send, Text
<1>2. c \in Procs /\ c # "server" BY ProcsFinite, ChatAssumption
<1>3. /\ at[c] = "send" /\ \A r \in Procs : at'[r] = IF r = c THEN "receive" ELSE at[r]
      /\ at' \in [Example!Procs -> Everywhere]
      /\ at'["server"] \in {"start", "first", "answer", "second", "remove", "done"}
      /\ \A d \in Clients : at'[d] \in {"start", "refused", "send", "receive", "confirm", "done"}
  BY <1>1, <1>2, Goes
<1>4. at'["server"] = at["server"] BY <1>2, <1>3, ProcsFinite
<1>5. Example!Sent \subseteq Example!Sent' /\ (Example!Two => Example!Two') /\ (Both => Both')
  BY <1>2, <1>3, NobodyLeaves
<1>6. Example!Answer \in Kinds /\ Text \in Kinds /\ Confirm \in Kinds BY DEF Kinds, Text, Confirm
<1>7. /\ msgs' \in Seq(Kinds) /\ (~ created => msgs' = msgs)
      /\ Of(Example!Answer)' = Of(Example!Answer) /\ Of(Confirm)' = Of(Confirm)
      /\ Of(Text)' = Of(Text) \/ Of(Text)' = Of(Text) \cup {Len(msgs) + 1}
  BY <1>1, <1>6, Sends, KindsDiffer
<1>8. created' \in BOOLEAN /\ tooBig' \in BOOLEAN BY <1>1, Zenon DEF Example!TypeOK
<1>9. Example!TypeOK' BY <1>1, <1>3, <1>7, <1>8, Zenon DEF Example!TypeOK, Everywhere, Kinds
<1>10. \A d \in Clients : at'[d] = IF d = c THEN "receive" ELSE at[d] BY <1>3, ProcsFinite
<1>11. at["server"] # "start" BY <1>3 DEF Example!Existing
<1>12. Example!Existing' BY <1>1, <1>4, <1>7, <1>11 DEF Example!Existing
<1>13. OneAnswerOf' BY <1>1, <1>4, <1>7 DEF OneAnswerOf
<1>14. ConfirmedOf' BY <1>1, <1>7, <1>10 DEF ConfirmedOf
(* A second text in the queue is that of a second client.                  *)
<1>15. c \in Example!Sent' /\ c \notin Example!Sent BY <1>3, <1>10 DEF Example!Sent
<1>16. Example!Sent # {} => Example!Two' BY <1>5, <1>15 DEF Example!Two
<1>17. TextsOf'
  <2>1. Example!Sent' # {} BY <1>15
  <2>2. ASSUME at["server"] = "first", NEW k \in Of(Text)', NEW l \in Of(Text)', k # l PROVE Example!Two'
    <3>1. Of(Text) # {} BY <1>7, <2>2
    <3> QED BY <1>16, <3>1 DEF TextsOf
  <2>3. at["server"] \in {"answer", "second"} => Example!Two' BY <1>16 DEF TextsOf
  <2> QED BY <1>4, <2>1, <2>2, <2>3 DEF TextsOf
<1>18. Example!OneAnswered' BY <1>1, <1>4, <1>5 DEF Example!OneAnswered, Both
<1> QED BY <1>9, <1>12, <1>13, <1>14, <1>17, <1>18

LEMMA ConfirmKeeps == ASSUME NEW c \in Clients, ExampleInv, Example!Confirm(c) PROVE ExampleInv'
<1> USE DEF ExampleInv
<1>1. /\ Example!Goto(c, "confirm", "done") /\ Example!Msgsnd(Confirm)
      /\ created' = created /\ answered' = answered /\ own' = own /\ tooBig' = tooBig
  BY DEF Example!Confirm, Confirm
<1>2. c \in Procs /\ c # "server" BY ProcsFinite, ChatAssumption
<1>3. /\ at[c] = "confirm" /\ \A r \in Procs : at'[r] = IF r = c THEN "done" ELSE at[r]
      /\ at' \in [Example!Procs -> Everywhere]
      /\ at'["server"] \in {"start", "first", "answer", "second", "remove", "done"}
      /\ \A d \in Clients : at'[d] \in {"start", "refused", "send", "receive", "confirm", "done"}
  BY <1>1, <1>2, Goes
<1>4. at'["server"] = at["server"] BY <1>2, <1>3, ProcsFinite
<1>5. Example!Sent \subseteq Example!Sent' /\ (Example!Two => Example!Two') /\ (Both => Both')
  BY <1>2, <1>3, NobodyLeaves
<1>6. Example!Answer \in Kinds /\ Text \in Kinds /\ Confirm \in Kinds BY DEF Kinds, Text, Confirm
<1>7. /\ msgs' \in Seq(Kinds) /\ (~ created => msgs' = msgs)
      /\ Of(Example!Answer)' = Of(Example!Answer) /\ Of(Text)' = Of(Text)
      /\ ~ created => Of(Confirm)' = Of(Confirm)
  BY <1>1, <1>6, Sends, KindsDiffer
<1>8. created' \in BOOLEAN /\ tooBig' \in BOOLEAN BY <1>1, Zenon DEF Example!TypeOK
<1>9. Example!TypeOK' BY <1>1, <1>3, <1>7, <1>8, Zenon DEF Example!TypeOK, Everywhere, Kinds
<1>10. \A d \in Clients : at'[d] = IF d = c THEN "done" ELSE at[d] BY <1>3, ProcsFinite
<1>11. at["server"] # "start" BY <1>3 DEF Example!Existing
<1>12. Example!Existing' BY <1>1, <1>4, <1>7, <1>11 DEF Example!Existing
<1>13. OneAnswerOf' BY <1>1, <1>4, <1>7 DEF OneAnswerOf
(* As long as there is a queue, who confirms has the answer.               *)
<1>14. created => answered # {} BY <1>3 DEF ConfirmedOf
<1>15. ConfirmedOf' BY <1>1, <1>7, <1>14 DEF ConfirmedOf
<1>16. TextsOf' BY <1>4, <1>5, <1>7 DEF TextsOf
<1>17. Example!OneAnswered' BY <1>1, <1>4, <1>5 DEF Example!OneAnswered, Both
<1> QED BY <1>9, <1>12, <1>13, <1>15, <1>16, <1>17

LEMMA ReceiveAnswerKeeps == ASSUME NEW c \in Clients, ExampleInv, Example!Receive(c) PROVE ExampleInv'
<1> USE DEF ExampleInv
<1> DEFINE k == Example!Oldest("client")
<1>1. /\ Example!Goto(c, "receive", "confirm") /\ created' = created /\ tooBig' = tooBig
      /\ \/ /\ Example!Waiting("client") # {} /\ msgs' = Example!RemoveAt(msgs, k)
            /\ answered' = answered \cup {c} /\ own' = own
         \/ /\ ~ created
            /\ own' = own \cup {c} /\ msgs' = msgs /\ answered' = answered
  BY DEF Example!Receive
<1>2. c \in Procs /\ c # "server" BY ProcsFinite, ChatAssumption
<1>3. /\ at[c] = "receive" /\ \A r \in Procs : at'[r] = IF r = c THEN "confirm" ELSE at[r]
      /\ at' \in [Example!Procs -> Everywhere]
      /\ at'["server"] \in {"start", "first", "answer", "second", "remove", "done"}
      /\ \A d \in Clients : at'[d] \in {"start", "refused", "send", "receive", "confirm", "done"}
  BY <1>1, <1>2, Goes
<1>4. at'["server"] = at["server"] BY <1>2, <1>3, ProcsFinite
<1>5. Example!Sent \subseteq Example!Sent' /\ (Example!Two => Example!Two') /\ (Both => Both')
  BY <1>2, <1>3, NobodyLeaves
<1>6. Example!Answer \in Kinds /\ Text \in Kinds /\ Confirm \in Kinds BY DEF Kinds, Text, Confirm
<1>7. created' \in BOOLEAN /\ tooBig' \in BOOLEAN BY <1>1, Zenon DEF Example!TypeOK
<1>8. \A d \in Clients : at'[d] = IF d = c THEN "confirm" ELSE at[d] BY <1>3, ProcsFinite
<1>9. at["server"] # "start" BY <1>3 DEF Example!Existing
<1>10. CASE Example!Waiting("client") # {} /\ msgs' = Example!RemoveAt(msgs, k) /\ answered' = answered \cup {c} /\ own' = own
  <2>1. k \in Of(Example!Answer) /\ k \in DOMAIN msgs BY <1>10, OldestWaits, WaitingOf DEF Of
  <2> HIDE DEF k
  <2>2. /\ msgs' \in Seq(Kinds)
        /\ \A i \in DOMAIN msgs' : \E j \in DOMAIN msgs \ {k} : msgs[j] = msgs'[i]
        /\ \A i1, i2 \in DOMAIN msgs' : i1 # i2 =>
             \E j1, j2 \in DOMAIN msgs \ {k} : j1 # j2 /\ msgs[j1] = msgs'[i1] /\ msgs[j2] = msgs'[i2]
    BY <1>10, <2>1, OneLess
  <2>3. /\ Of(Example!Answer)' = {} /\ (Of(Text)' # {} => Of(Text) # {})
        /\ (\E i, j \in Of(Text)' : i # j) => \E i, j \in Of(Text) : i # j
    <3>1. \A j \in Of(Example!Answer) : j = k BY <2>1 DEF OneAnswerOf
    <3>2. Of(Example!Answer)' = {} BY <2>2, <3>1 DEF Of
    <3>3. Of(Text)' # {} => Of(Text) # {} BY <2>2 DEF Of
    <3>4. (\E i, j \in Of(Text)' : i # j) => \E i, j \in Of(Text) : i # j BY <2>2 DEF Of
    <3> QED BY <3>2, <3>3, <3>4
  <2>4. answered = {} /\ answered' = {c} BY <1>10, <2>1 DEF OneAnswerOf
  <2>5. answered' \subseteq Clients BY <2>4
  <2>6. Example!TypeOK' BY <1>1, <1>3, <1>7, <1>10, <2>2, <2>5, Zenon DEF Example!TypeOK, Everywhere, Kinds
  <2>7. created BY <2>1, WaitingOf DEF Example!Existing
  <2>8. Example!Existing' BY <1>1, <1>4, <1>9, <1>10, <2>7 DEF Example!Existing
  <2>9. at["server"] \notin {"start", "first", "answer"} BY <2>1 DEF OneAnswerOf
  <2>10. OneAnswerOf' BY <1>4, <2>3, <2>9 DEF OneAnswerOf
  <2>11. ConfirmedOf' BY <2>4 DEF ConfirmedOf
  <2>12. TextsOf' BY <1>4, <1>5, <2>3 DEF TextsOf
  <2>13. Example!OneAnswered' BY <2>4 DEF Example!OneAnswered
  <2> QED BY <2>6, <2>8, <2>10, <2>11, <2>12, <2>13
<1>11. CASE ~ created /\ own' = own \cup {c} /\ msgs' = msgs /\ answered' = answered
  <2>1. at["server"] = "done" BY <1>9, <1>11 DEF Example!Existing
  <2>2. \A m : Of(m)' = Of(m) BY <1>11 DEF Of
  <2>3. own' \subseteq Clients BY <1>11 DEF Example!TypeOK
  <2>4. Example!TypeOK' BY <1>1, <1>3, <1>7, <1>11, <2>3, Zenon DEF Example!TypeOK, Everywhere
  <2>5. Example!Existing' BY <1>1, <1>4, <1>11, <2>1 DEF Example!Existing
  <2>6. OneAnswerOf' BY <1>4, <1>11, <2>2 DEF OneAnswerOf
  <2>7. ConfirmedOf' BY <1>1, <1>11, <2>2 DEF ConfirmedOf
  <2>8. TextsOf' BY <1>4, <1>5, <2>2 DEF TextsOf
  <2>9. Example!OneAnswered' BY <1>4, <1>5, <1>11, <2>1 DEF Example!OneAnswered, Both
  <2> QED BY <2>4, <2>5, <2>6, <2>7, <2>8, <2>9
<1> QED BY <1>1, <1>10, <1>11

(* Every step of an example: there is one answer and it has one reader.    *)
LEMMA ExampleStep == Example!IInv /\ [Example!Next]_exampleVars => Example!IInv'
<1> SUFFICES ASSUME ExampleInv, [Example!Next]_exampleVars PROVE ExampleInv'
  BY ExampleInvariant, PTL
<1>1. CASE Example!server
  BY <1>1, CreateKeeps, ServerReceiveKeeps, RespondKeeps, RemoveQueueKeeps DEF Example!server
<1>2. ASSUME NEW c \in Clients, Example!Start(c) \/ Example!client(c) PROVE ExampleInv'
  BY <1>2, StartKeeps, SendTextKeeps, ReceiveAnswerKeeps, ConfirmKeeps DEF Example!client
<1>3. CASE UNCHANGED exampleVars
  BY <1>3 DEF exampleVars, ExampleInv, Example!TypeOK, Example!Existing, OneAnswerOf, ConfirmedOf, TextsOf,
     Example!OneAnswered, Example!Sent, Example!Two, Of
<1> QED BY <1>1, <1>2, <1>3 DEF Example!Next

-------------------------------------------------------------------------------
(* SocketChat.  Two sequences put together end with the end of the second. *)
LEMMA LastPart ==
  ASSUME NEW s \in Seq(Single!Parts), NEW t \in Seq(Single!Parts)
  PROVE  /\ t = Single!Quit => Single!Ends(s \o t, Single!Quit)
         /\ t = Single!Text => ~ Single!Ends(s \o t, Single!Quit)
<1>1. /\ s \o t \in Seq(Single!Parts) /\ Len(s \o t) = Len(s) + Len(t)
      /\ \A i \in 1 .. Len(s) + Len(t) : (s \o t)[i] = IF i <= Len(s) THEN s[i] ELSE t[i - Len(s)]
      /\ Len(s) \in Nat /\ Len(t) \in Nat
  BY ConcatProperties, LenProperties
<1>2. ASSUME t = Single!Quit PROVE Single!Ends(s \o t, Single!Quit)
  <2>1. Len(t) = 2 BY <1>2 DEF Single!Quit
  <2>2. SubSeq(s \o t, Len(s) + 1, Len(s) + 2) = SubSeq(t, 1, 2)
    <3>1. Len(s) + 1 \in Len(s) + 1 .. Len(s) + Len(t) /\ Len(s) + 2 \in Len(s) + 1 .. Len(s) + Len(t) BY <1>1, <2>1
    <3>2. SubSeq(s \o t, Len(s) + 1, Len(s) + 2) = SubSeq(t, (Len(s) + 1) - Len(s), (Len(s) + 2) - Len(s))
      BY <3>1, SubSeqOfConcat2
    <3>3. (Len(s) + 1) - Len(s) = 1 /\ (Len(s) + 2) - Len(s) = 2 BY <1>1
    <3> QED BY <3>2, <3>3
  <2>3. SubSeq(t, 1, 2) = t BY <2>1, SubSeqFull
  <2>4. Len(s \o t) - Len(Single!Quit) + 1 = Len(s) + 1 /\ Len(s \o t) = Len(s) + 2 /\ Len(s \o t) >= Len(Single!Quit)
    BY <1>1, <1>2, <2>1
  <2> QED BY <1>2, <2>2, <2>3, <2>4 DEF Single!Ends
<1>3. ASSUME t = Single!Text, Single!Ends(s \o t, Single!Quit) PROVE FALSE
  <2> DEFINE u == s \o t
             m == Len(u) - 2 + 1
  <2>1. Len(t) = 1 /\ t[1] = "text" BY <1>3 DEF Single!Text
  <2>2. Len(u) = Len(s) + 1 /\ u[Len(u)] = "text" BY <1>1, <2>1
  <2>3. Len(Single!Quit) = 2 /\ Single!Quit[2] = "it" BY DEF Single!Quit
  <2>4. SubSeq(u, m, Len(u)) = Single!Quit /\ Len(u) >= 2 BY <1>3, <2>3 DEF Single!Ends
  <2> HIDE DEF u
  <2>5. SubSeq(u, m, Len(u))[2] = u[m + 2 - 1]
    <3>1. \A i \in m .. Len(u) : u[i] \in Single!Parts
      <4>1. u \in Seq(Single!Parts) /\ Len(u) \in Nat BY <1>1, <2>2 DEF u
      <4>2. m .. Len(u) \subseteq 1 .. Len(u) BY <2>4, <4>1
      <4> QED BY <4>1, <4>2, ElementOfSeq
    <3>2. m \in Int /\ Len(u) \in Int /\ 2 \in 1 .. Len(u) - m + 1 BY <1>1, <2>2
    <3> HIDE DEF m
    <3> QED BY <3>1, <3>2, SubSeqProperties
  <2>6. m + 2 - 1 = Len(u) BY <1>1, <2>2
  <2> QED BY <2>2, <2>3, <2>4, <2>5, <2>6
<1> QED BY <1>2, <1>3

LEMMA SingleInit == Single!Init => Single!IInv
<1> SUFFICES ASSUME Single!Init PROVE Single!IInv OBVIOUS
<1> USE SocketAssumption DEF Single!Init
<1>1. crossed \in BOOLEAN /\ reset \in BOOLEAN /\ beyond \in BOOLEAN BY Zenon
<1>2. /\ server \in {"start", "accept", "failed", "read", "type", "form", "close", "done", "killed"}
      /\ client \in {"out", "in", "left"} /\ line \in -1 .. LINE /\ longest \in 0 .. LINE
  OBVIOUS
<1>3. said \in Seq(Single!Parts) /\ stream \in Seq(Single!Parts) /\ printed \in Seq(Single!Parts) BY EmptySeq
<1>4. Single!TypeOK BY <1>1, <1>2, <1>3, Zenon DEF Single!TypeOK
<1>5. ~ Single!Ends(printed, Single!Quit) BY EmptySeq DEF Single!Ends, Single!Quit
<1>6. printed \o stream = said BY ConcatEmptySeq, EmptySeq
<1>7. Single!Unended BY <1>5 DEF Single!Unended
<1>8. Single!Rest BY DEF Single!Rest
<1>9. Single!ReadInOrder BY <1>5, <1>6 DEF Single!ReadInOrder
<1> QED BY <1>4, <1>7, <1>8, <1>9 DEF Single!IInv

Serving == {"start", "accept", "failed", "read", "type", "form", "close", "done", "killed"}

(* Steps that leave what was said and typed alone.                         *)
LEMMA Unsaid ==
  ASSUME Single!IInv, server' \in Serving, client' \in {"out", "in", "left"},
         UNCHANGED <<said, stream, printed, crossed, line, longest, reset, beyond>>,
         client = "left" => client' = "left",
         server \in {"close", "done"} => server' \in {"close", "done"},
         server' \in {"close", "done"} => server \in {"close", "done"} \/ client' = "left"
  PROVE  Single!IInv'
<1> USE DEF Single!IInv
<1>1. crossed' \in BOOLEAN /\ reset' \in BOOLEAN /\ beyond' \in BOOLEAN BY Zenon DEF Single!TypeOK
<1>2. Single!TypeOK' BY <1>1, Zenon DEF Single!TypeOK, Serving
<1>3. Single!Ends(printed, Single!Quit)' <=> Single!Ends(printed, Single!Quit) BY DEF Single!Ends, Single!Quit
<1>4. Single!Unended' /\ Single!Rest' BY <1>3 DEF Single!Unended, Single!Rest
<1>5. Single!ReadInOrder' BY <1>3 DEF Single!ReadInOrder
<1> QED BY <1>2, <1>4, <1>5

LEMMA SingleSayKeeps == Single!IInv /\ Single!Say => Single!IInv'
<1> SUFFICES ASSUME Single!IInv, Single!Say PROVE Single!IInv' OBVIOUS
<1> USE DEF Single!IInv
<1>1. PICK m \in Single!Messages : said' = said \o m /\ stream' = stream \o m BY DEF Single!Say
<1>2. UNCHANGED <<server, client, printed, crossed, line, longest, reset, beyond>> BY DEF Single!Say
<1>3. m \in Seq(Single!Parts)
  <2>1. <<"text">> \in Seq(Single!Parts)
    <3>1. Append(<<>>, "text") \in Seq(Single!Parts) BY EmptySeq, AppendProperties DEF Single!Parts
    <3> QED BY <3>1
  <2>2. <<"qu", "it">> \in Seq(Single!Parts)
    <3>1. Append(Append(<<>>, "qu"), "it") \in Seq(Single!Parts) BY EmptySeq, AppendProperties DEF Single!Parts
    <3> QED BY <3>1
  <2> HIDE DEF Single!IInv
  <2> QED BY <2>1, <2>2 DEF Single!Messages, Single!Text, Single!Quit
<1>4. said \in Seq(Single!Parts) /\ stream \in Seq(Single!Parts) /\ printed \in Seq(Single!Parts) BY DEF Single!TypeOK
<1>5. said' \in Seq(Single!Parts) /\ stream' \in Seq(Single!Parts) BY <1>1, <1>3, <1>4, ConcatProperties
<1>6. printed' \o stream' = said'
  <2>1. printed \o (stream \o m) = (printed \o stream) \o m
    <3>1. \A s, t, u \in Seq(Single!Parts) : (s \o t) \o u = s \o (t \o u) BY ConcatAssociative
    <3> QED BY <1>3, <1>4, <3>1
  <2>2. printed \o stream = said BY DEF Single!ReadInOrder
  <2> QED BY <1>1, <1>2, <2>1, <2>2
<1>7. crossed' \in BOOLEAN /\ reset' \in BOOLEAN /\ beyond' \in BOOLEAN BY <1>2, Zenon DEF Single!TypeOK
<1>8. Single!TypeOK' BY <1>2, <1>5, <1>7, Zenon DEF Single!TypeOK
<1>9. Single!Ends(printed, Single!Quit)' <=> Single!Ends(printed, Single!Quit) BY <1>2 DEF Single!Ends, Single!Quit
<1>10. Single!Unended' /\ Single!Rest' BY <1>2, <1>9 DEF Single!Unended, Single!Rest
<1>11. Single!ReadInOrder' BY <1>2, <1>6, <1>9 DEF Single!ReadInOrder
<1> QED BY <1>8, <1>10, <1>11

LEMMA SingleReadKeeps == Single!IInv /\ Single!Read => Single!IInv'
<1> SUFFICES ASSUME Single!IInv, Single!Read PROVE Single!IInv' OBVIOUS
<1> USE DEF Single!IInv
<1>1. PICK n \in 1 .. Len(stream) :
        LET buf == SubSeq(stream, 1, n)
        IN /\ n < BUF_SIZE
           /\ printed' = printed \o buf
           /\ stream' = SubSeq(stream, n + 1, Len(stream))
           /\ crossed' = (crossed \/ buf \notin Single!Messages)
           /\ server' = IF Single!IsQuit(buf) THEN "close" ELSE "type"
  BY DEF Single!Read
<1>2. server = "read" /\ UNCHANGED <<client, said, line, longest, reset, beyond>> BY DEF Single!Read
<1> DEFINE buf == SubSeq(stream, 1, n)
           rest == SubSeq(stream, n + 1, Len(stream))
<1>3. said \in Seq(Single!Parts) /\ stream \in Seq(Single!Parts) /\ printed \in Seq(Single!Parts) BY DEF Single!TypeOK
<1>4. /\ Len(stream) \in Nat /\ n \in Nat /\ n >= 1 /\ n <= Len(stream)
      /\ \A i \in 1 .. Len(stream) : stream[i] \in Single!Parts
  BY <1>3, LenProperties, ElementOfSeq
<1>5. buf \in Seq(Single!Parts) /\ rest \in Seq(Single!Parts)
  <2>1. \A i \in 1 .. n : stream[i] \in Single!Parts BY <1>4
  <2>2. \A i \in n + 1 .. Len(stream) : stream[i] \in Single!Parts BY <1>4
  <2>3. buf \in Seq(Single!Parts) BY <1>4, <2>1, SubSeqProperties
  <2>4. rest \in Seq(Single!Parts) BY <1>4, <2>2, SubSeqProperties
  <2> QED BY <2>3, <2>4
<1>6. buf \o rest = stream
  <2>1. 1 \in 1 .. Len(stream) + 1 /\ n \in 1 - 1 .. Len(stream) /\ Len(stream) \in n .. Len(stream) BY <1>4
  <2>2. buf \o rest = SubSeq(stream, 1, Len(stream)) BY <1>3, <2>1, ConcatAdjacentSubSeq
  <2> QED BY <1>3, <2>2, SubSeqFull
<1>7. /\ printed' = printed \o buf /\ stream' = rest /\ crossed' = (crossed \/ buf \notin Single!Messages)
      /\ server' = IF Single!IsQuit(buf) THEN "close" ELSE "type"
  BY <1>1
<1> HIDE DEF buf, rest
<1>8. printed' \in Seq(Single!Parts) /\ stream' \in Seq(Single!Parts) BY <1>3, <1>5, <1>7, ConcatProperties
<1>9. printed' \o stream' = said'
  <2>1. (printed \o buf) \o rest = printed \o (buf \o rest)
    <3>1. \A s, t, u \in Seq(Single!Parts) : (s \o t) \o u = s \o (t \o u) BY ConcatAssociative
    <3>2. printed \in Seq(Single!Parts) /\ buf \in Seq(Single!Parts) /\ rest \in Seq(Single!Parts) BY <1>3, <1>5
    <3> QED BY <3>1, <3>2
  <2>2. printed \o stream = said BY DEF Single!ReadInOrder
  <2> QED BY <1>2, <1>6, <1>7, <2>1, <2>2
<1>10. crossed' \in BOOLEAN /\ reset' \in BOOLEAN /\ beyond' \in BOOLEAN BY <1>2, <1>7, Zenon DEF Single!TypeOK
<1>11. server' \in Serving BY <1>7 DEF Serving
<1>12. Single!TypeOK' BY <1>2, <1>8, <1>10, <1>11, Zenon DEF Single!TypeOK, Serving
(* As long as every read has returned one message, what is read is "quit"  *)
(* when it begins so.                                                      *)
<1>13. ~ crossed' => ~ crossed /\ buf \in {Single!Text, Single!Quit} BY <1>7, Zenon DEF Single!Messages
<1>14. buf \in {Single!Text, Single!Quit} => (Single!IsQuit(buf) <=> buf = Single!Quit)
  <2>1. ASSUME buf = Single!Text PROVE ~ Single!IsQuit(buf) /\ buf # Single!Quit
    <3>1. Len(buf) = 1 BY <2>1 DEF Single!Text
    <3>2. Len(Single!Quit) = 2 BY DEF Single!Quit
    <3> QED BY <3>1, <3>2 DEF Single!IsQuit
  <2>2. ASSUME buf = Single!Quit PROVE Single!IsQuit(buf)
    <3>1. Len(buf) = 2 BY <2>2 DEF Single!Quit
    <3>2. SubSeq(buf, 1, 2) = buf BY <1>5, <3>1, SubSeqFull
    <3> QED BY <2>2, <3>1, <3>2 DEF Single!IsQuit
  <2> QED BY <2>1, <2>2
<1>15. ~ crossed' => (Single!Ends(printed, Single!Quit)' <=> buf = Single!Quit)
  <2>1. Single!Ends(printed, Single!Quit)' <=> Single!Ends(printed \o buf, Single!Quit) BY <1>7 DEF Single!Ends, Single!Quit
  <2> QED BY <1>3, <1>5, <1>13, <2>1, LastPart
<1>16. ~ crossed' => (Single!Ends(printed, Single!Quit)' <=> server' \in {"close", "done"})
  BY <1>7, <1>13, <1>14, <1>15
<1>17. Single!Unended' /\ Single!Rest' BY <1>2, <1>16 DEF Single!Unended, Single!Rest
<1>18. Single!ReadInOrder'
  <2>1. (~ crossed => (Single!Ends(printed, Single!Quit) => server \in {"close", "done"}))' BY <1>16
  <2>2. (server \in {"close", "done"} => Single!Ends(printed, Single!Quit) \/ client = "left" \/ crossed)' BY <1>16
  <2>3. (beyond => longest >= BUF_SIZE - 1)' BY <1>2 DEF Single!ReadInOrder
  <2> QED BY <1>9, <2>1, <2>2, <2>3, Zenon DEF Single!ReadInOrder
<1> QED BY <1>12, <1>17, <1>18

(* Steps that read nothing: the line typed at the server.                  *)
LEMMA Typed ==
  ASSUME Single!IInv, server' \in Serving, server \notin {"close", "done"}, server' \notin {"close", "done"},
         UNCHANGED <<client, said, stream, printed, crossed>>,
         reset' \in BOOLEAN, beyond' \in BOOLEAN, line' \in -1 .. LINE, longest' \in 0 .. LINE, line' <= longest',
         beyond' => longest' >= BUF_SIZE - 1
  PROVE  Single!IInv'
<1> USE DEF Single!IInv
<1>1. crossed' \in BOOLEAN BY Zenon DEF Single!TypeOK
<1>2. Single!TypeOK' BY <1>1, Zenon DEF Single!TypeOK, Serving
<1>3. Single!Ends(printed, Single!Quit)' <=> Single!Ends(printed, Single!Quit) BY DEF Single!Ends, Single!Quit
<1>4. Single!Unended' /\ Single!Rest' BY <1>3 DEF Single!Unended, Single!Rest
<1>5. Single!ReadInOrder' BY <1>3 DEF Single!ReadInOrder
<1> QED BY <1>2, <1>4, <1>5

LEMMA SingleStep == Single!IInv /\ [Single!Next]_singleVars => Single!IInv'
<1> SUFFICES ASSUME Single!IInv, [Single!Next]_singleVars PROVE Single!IInv' OBVIOUS
<1>0. server \in Serving /\ client \in {"out", "in", "left"} BY DEF Single!IInv, Single!TypeOK, Serving
<1>1. CASE Single!Connect BY <1>0, <1>1, Unsaid DEF Single!Connect
<1>2. CASE Single!Say BY <1>2, SingleSayKeeps
<1>3. CASE Single!Leave BY <1>0, <1>3, Unsaid DEF Single!Leave
<1>4. CASE Single!Listen
  <2>1. server \in {"start", "accept"} /\ server' \in {"accept", "read", "failed"}
    BY <1>4 DEF Single!Listen
  <2>2. UNCHANGED <<client, said, stream, printed, crossed, line, longest, reset, beyond>> BY <1>4 DEF Single!Listen
  <2> QED BY <1>0, <2>1, <2>2, Unsaid DEF Serving
<1>5. CASE Single!Read BY <1>5, SingleReadKeeps
<1>6. CASE Single!ReadEnds
  <2>1. server = "read" /\ server' = "close" /\ client = "left" BY <1>6 DEF Single!ReadEnds
  <2>2. UNCHANGED <<client, said, stream, printed, crossed, line, longest, reset, beyond>> BY <1>6 DEF Single!ReadEnds
  <2> QED BY <1>0, <2>1, <2>2, Unsaid DEF Serving
<1>7. CASE Single!Type
  <2>1. /\ server = "type" /\ server' = "form" /\ line' \in IF line = -1 THEN 0 .. LINE ELSE {line}
        /\ longest' = IF line' > longest THEN line' ELSE longest
        /\ UNCHANGED <<client, said, stream, printed, crossed, reset, beyond>>
    BY <1>7 DEF Single!Type
  <2>2. line \in -1 .. LINE /\ longest \in 0 .. LINE BY DEF Single!IInv, Single!TypeOK
  <2>3. line' \in 0 .. LINE BY <2>1, <2>2
  <2>4. longest' \in 0 .. LINE /\ line' <= longest' /\ longest' >= longest BY <2>1, <2>2, <2>3, SocketAssumption
  <2>5. reset' \in BOOLEAN /\ beyond' \in BOOLEAN BY <2>1, Zenon DEF Single!IInv, Single!TypeOK
  <2>6. beyond' => longest' >= BUF_SIZE - 1
    <3>1. beyond => longest >= BUF_SIZE - 1 BY DEF Single!IInv, Single!ReadInOrder
    <3>2. longest >= BUF_SIZE - 1 => longest' >= BUF_SIZE - 1 BY <2>2, <2>4, SocketAssumption
    <3> QED BY <2>1, <3>1, <3>2
  <2>7. server' \in Serving /\ line' \in -1 .. LINE BY <2>1, <2>3, SocketAssumption DEF Serving
  <2> QED BY <2>1, <2>4, <2>5, <2>6, <2>7, Typed
<1>8. CASE Single!FORM_MSG
  <2>1. /\ server = "form" /\ server' \in {"read", "killed"}
        /\ IF line < BUF_SIZE - 1
           THEN line' = -1 /\ UNCHANGED beyond
           ELSE line' = line - (BUF_SIZE - 1) /\ beyond' = TRUE
        /\ reset' = (reset \/ client = "left")
        /\ UNCHANGED <<client, said, stream, printed, crossed, longest>>
    BY <1>8 DEF Single!FORM_MSG
  <2>2. line \in -1 .. LINE /\ longest \in 0 .. LINE /\ line <= longest
    BY DEF Single!IInv, Single!TypeOK, Single!Rest
  <2>3. line' \in -1 .. LINE /\ line' <= longest'
    <3>1. CASE line < BUF_SIZE - 1
      <4>1. line' = -1 /\ longest' = longest BY <2>1, <3>1
      <4> QED BY <2>2, <4>1, SocketAssumption
    <3>2. CASE ~ (line < BUF_SIZE - 1)
      <4>1. line' = line - (BUF_SIZE - 1) /\ longest' = longest BY <2>1, <3>2
      <4> QED BY <2>2, <3>2, <4>1, SocketAssumption
    <3> QED BY <3>1, <3>2
  <2>4. reset' \in BOOLEAN BY <2>1, Zenon
  <2>5. beyond' \in BOOLEAN BY <2>1, Zenon DEF Single!IInv, Single!TypeOK
  <2>6. beyond' => longest' >= BUF_SIZE - 1
    <3>1. CASE line < BUF_SIZE - 1
      <4>1. beyond' = beyond /\ longest' = longest BY <2>1, <3>1
      <4> QED BY <4>1 DEF Single!IInv, Single!ReadInOrder
    <3>2. CASE ~ (line < BUF_SIZE - 1) BY <2>1, <2>2, <3>2, SocketAssumption
    <3> QED BY <3>1, <3>2
  <2>7. server' \in Serving /\ longest' \in 0 .. LINE BY <2>1, <2>2 DEF Serving
  <2> QED BY <2>1, <2>3, <2>4, <2>5, <2>6, <2>7, Typed
<1>9. CASE Single!Close
  <2>1. server = "close" /\ server' = "done" BY <1>9 DEF Single!Close
  <2>2. UNCHANGED <<client, said, stream, printed, crossed, line, longest, reset, beyond>> BY <1>9 DEF Single!Close
  <2> QED BY <1>0, <2>1, <2>2, Unsaid DEF Serving
<1>10. CASE UNCHANGED singleVars
  <2>1. server' = server /\ UNCHANGED <<client, said, stream, printed, crossed, line, longest, reset, beyond>>
    BY <1>10 DEF singleVars
  <2> QED BY <1>0, <2>1, Unsaid
<1> QED BY <1>1, <1>2, <1>3, <1>4, <1>5, <1>6, <1>7, <1>8, <1>9, <1>10 DEF Single!Next, Single!client, Single!main

-------------------------------------------------------------------------------
(* AsyncChat.  What the invariant says of the number of clients, and the   *)
(* parts of it that are inductive by themselves.                           *)
Counted == failures = 0 => clients_num = Cardinality({c \in Clients : socket[c] # 0} \ newcomer)
Hands == Async!Bounded /\ Async!Departures /\ Async!InHand
Core == /\ Async!TypeOK /\ Async!Newcomer /\ Async!Connected /\ Async!Registered /\ Hands
        /\ Async!Slotted /\ Async!Owed /\ Counted /\ Async!NoEcho

Stations == {"none", "register", "clear", "gone"} \cup Async!Serving
Lives    == {"starting", "up", "down", "undefined"}

LEMMA ServingIs ==
  /\ Async!Sending = {"send", "test", "differ", "load", "write"}
  /\ Async!Serving = {"read", "close", "send", "test", "differ", "load", "write"}
  /\ Stations = {"none", "register", "clear", "gone", "read", "close", "send", "test", "differ", "load", "write"}
BY DEF Async!Sending, Async!Serving, Stations

(* An instance has a copy of the library operator.                         *)
LEMMA SameCardinality == \A S : Async!Cardinality(S) = Cardinality(S)
BY Zenon DEF Async!Cardinality, Cardinality

LEMMA ClientsFinite ==
  /\ IsFiniteSet(Clients) /\ Cardinality(Clients) \in Nat
  /\ Async!Descriptors \subseteq Nat \ {0} /\ IsFiniteSet(Async!Descriptors)
  /\ Cardinality(Async!Descriptors) = Cardinality(Clients)
<1>1. IsFiniteSet(Clients) /\ Cardinality(Clients) \in Nat BY ChatAssumption, FS_CardinalityType
<1> DEFINE n == Cardinality(Clients)
<1>2. n \in Nat BY <1>1
<1>3. Async!Descriptors = 4 .. 3 + n BY SameCardinality DEF Async!Descriptors
<1> HIDE DEF n
<1>4. IsFiniteSet(4 .. 3 + n) /\ Cardinality(4 .. 3 + n) = n
  <2>1. 4 \in Int /\ 3 + n \in Int BY <1>2
  <2>2. /\ IsFiniteSet(4 .. 3 + n)
        /\ Cardinality(4 .. 3 + n) = IF 4 > 3 + n THEN 0 ELSE (3 + n) - 4 + 1 BY <2>1, FS_Interval
  <2>3. (IF 4 > 3 + n THEN 0 ELSE (3 + n) - 4 + 1) = n BY <1>2
  <2> QED BY <2>2, <2>3
<1>5. 4 .. 3 + n \subseteq Nat \ {0} BY <1>2
<1> QED BY <1>1, <1>3, <1>4, <1>5 DEF n

(* Clients that are served have descriptors of their own.                  *)
LEMMA OwnDescriptor ==
  ASSUME Core, NEW c \in Clients, NEW d \in Clients, c # d, Async!Served(c), Async!Served(d)
  PROVE  socket[c] # socket[d]
BY DEF Core, Async!Connected

LEMMA Derived == Core => Async!IInv
<1> SUFFICES ASSUME Core PROVE Async!IInv OBVIOUS
<1> USE DEF Core
<1>1. \A c \in Clients : Async!Live(c) => socket[c] # 0 BY ServingIs DEF Async!Newcomer, Async!Live
<1>2. Async!SlotsDistinct BY <1>1, SameCardinality DEF Async!SlotsDistinct, Async!Slotted, Counted
<1>3. Async!HeardByAll BY ServingIs DEF Async!HeardByAll, Async!Owed, Async!OwedOf
<1>4. Async!ThroughOwnSlot
  <2> SUFFICES ASSUME NEW c \in Clients, place[c] = "write", target[c] \in DOMAIN open
               PROVE  \/ slot[open[target[c]]] = index[c]
                      \/ \E f \in departed[c] : slot[f] = index[c] /\ socket[f] = target[c]
    BY DEF Async!ThroughOwnSlot
  <2>1. target[c] > 0
    <3>1. target[c] \in Nat \ {0} BY ClientsFinite DEF Async!TypeOK
    <3> QED BY <3>1
  <2>2. PICK f \in Clients : /\ slot[f] = index[c] /\ socket[f] = target[c]
                             /\ place[f] \in Async!Serving \/ f \in departed[c]
    BY <2>1 DEF Hands, Async!InHand, Async!HandOf
  <2>3. CASE place[f] \in Async!Serving
    <3>1. open[target[c]] = f BY <2>2, <2>3 DEF Async!Connected, Async!Served
    <3> QED BY <2>2, <3>1
  <2> QED BY <2>2, <2>3
<1> QED BY <1>2, <1>3, <1>4 DEF Async!IInv, Hands

LEMMA AsyncInit == Async!Init => Core
<1> SUFFICES ASSUME Async!Init PROVE Core OBVIOUS
<1> USE AsyncAssumption DEF Async!Init
<1>1. Async!TypeOK
  <2>1. hired \in BOOLEAN BY Zenon
  <2>2. DOMAIN open = {} /\ open \in [DOMAIN open -> Clients] OBVIOUS
  <2>3. sockets \in [Async!Slots -> Async!Descriptors \cup {0, -1}] BY DEF Async!Slots
  <2>4. 0 \in Async!Slots BY DEF Async!Slots
  <2>5. slot \in [Clients -> Async!Slots] /\ socket \in [Clients -> Async!Descriptors \cup {0}] BY <2>4
  <2>6. unread \in [Clients -> 0 .. SAYS] /\ index \in [Clients -> Nat] OBVIOUS
  <2>7. due \in [Clients -> SUBSET Clients] /\ departed \in [Clients -> SUBSET Clients] OBVIOUS
  <2>10. target \in [Clients -> Async!Descriptors \cup {0, -1}] OBVIOUS
  <2>11. echoed \subseteq Clients /\ newcomer \subseteq Clients OBVIOUS
  <2>8. clients_num \in 0 .. 255 /\ failures \in 0 .. FAILURES /\ life \in Lives BY DEF Lives
  <2>9. /\ peer \in [Clients -> {"out", "waiting", "in", "left"}]
        /\ place \in [Clients -> Stations]
    BY DEF Stations
  <2> HIDE DEF Async!Init
  <2> QED BY <2>1, <2>2, <2>3, <2>5, <2>6, <2>7, <2>8, <2>9, <2>10, <2>11, Zenon DEF Async!TypeOK, Stations, Lives
<1>2. Async!Newcomer BY DEF Async!Newcomer
<1>3. Async!Connected BY ServingIs DEF Async!Connected, Async!Served
<1>4. Async!Registered BY DEF Async!Registered, Async!Slots
<1>5. Async!Slotted BY ServingIs DEF Async!Slotted
<1>6. Async!Owed BY DEF Async!Owed, Async!OwedOf
<1>9. Hands BY ServingIs DEF Hands, Async!Bounded, Async!Departures, Async!InHand, Async!HandOf
<1>7. Counted
  <2>1. {c \in Clients : socket[c] # 0} \ newcomer = {} OBVIOUS
  <2> QED BY <2>1, FS_EmptySet DEF Counted
<1>8. Async!NoEcho BY DEF Async!NoEcho
<1> QED BY <1>1, <1>2, <1>3, <1>4, <1>5, <1>6, <1>7, <1>8, <1>9 DEF Core

(* The steps of the clients and of main before there is any client change  *)
(* nothing the invariant speaks of; Sigpipe changes nothing but life.      *)
LEMMA Elsewhere ==
  ASSUME Core,
         UNCHANGED <<clients_num, sockets, newcomer, hired, open, place, slot, socket, index, target,
                     due, echoed, departed, failures>>,
         peer' \in [Clients -> {"out", "waiting", "in", "left"}], unread' \in [Clients -> 0 .. SAYS],
         life' \in Lives
  PROVE  Core'
<1> USE DEF Core
<1>1. hired' \in BOOLEAN BY Zenon DEF Async!TypeOK
<1>2. Async!TypeOK' BY <1>1, Zenon DEF Async!TypeOK, Async!Slots, Async!Descriptors, Lives
<1>3. Async!Newcomer' BY DEF Async!Newcomer
<1>4. Async!Connected' BY DEF Async!Connected, Async!Served
<1>5. Async!Registered' BY DEF Async!Registered, Async!Slots
<1>6. Async!Slotted' BY DEF Async!Slotted
<1>7. Async!Owed' BY DEF Async!Owed, Async!OwedOf
<1>8. Counted' /\ Async!NoEcho' BY DEF Counted, Async!NoEcho
<1>9. Hands' BY DEF Hands, Async!Bounded, Async!Departures, Async!InHand, Async!HandOf, Async!Slots
<1> QED BY <1>2, <1>3, <1>4, <1>5, <1>6, <1>7, <1>8, <1>9

(* What the others have in hand stays what it is while c moves.            *)
LEMMA OthersHands ==
  ASSUME Core, NEW c \in Clients,
         \A f \in Clients \ {c} : /\ place'[f] = place[f] /\ slot'[f] = slot[f] /\ socket'[f] = socket[f]
                                  /\ index'[f] = index[f] /\ target'[f] = target[f],
         \A e \in Clients \ {c} : place[e] = "load" => sockets'[index[e]] # socket[e],
         \A e \in Clients \ {c} : \A f \in departed[e] : f \in departed'[e],
         place[c] # "none" => slot'[c] = slot[c] /\ socket'[c] = socket[c],
         \A e \in Clients \ {c} : place[e] = "write" /\ place[c] \in Async!Serving
                                    => place'[c] \in Async!Serving \/ c \in departed'[e]
  PROVE  \A e \in Clients \ {c} : Async!HandOf(e)'
<1> USE DEF Core, Hands
<1> TAKE e \in Clients \ {c}
<1>1. Async!HandOf(e) BY DEF Async!InHand
<1>2. /\ place'[e] \in {"test", "differ", "load"} => index'[e] \in Async!Slots'
      /\ place'[e] \notin Async!Sending => index'[e] = 0
  BY <1>1 DEF Async!HandOf, Async!Slots
<1>3. place'[e] = "load" => sockets'[index'[e]] # socket'[e] OBVIOUS
<1>4. place'[e] = "write" => target'[e] # socket'[e] BY <1>1 DEF Async!HandOf
<1>5. ASSUME place'[e] = "write", target'[e] > 0
      PROVE  \E f \in Clients : /\ slot'[f] = index'[e] /\ socket'[f] = target'[e]
                                /\ place'[f] \in Async!Serving \/ f \in departed'[e]
  <2>1. PICK f \in Clients : /\ slot[f] = index[e] /\ socket[f] = target[e]
                             /\ place[f] \in Async!Serving \/ f \in departed[e]
    BY <1>1, <1>5 DEF Async!HandOf
  <2>2. place[f] # "none" BY <2>1, ServingIs DEF Async!Departures
  <2>3. slot'[f] = slot[f] /\ socket'[f] = socket[f] BY <2>2
  <2>4. place'[f] \in Async!Serving \/ f \in departed'[e] BY <1>5, <2>1
  <2> QED BY <2>1, <2>3, <2>4
<1> QED BY <1>2, <1>3, <1>4, <1>5 DEF Async!HandOf, Async!Serving, Async!Sending

(* A thread that is among those to hear messages reads or sends.           *)
LEMMA Moves ==
  ASSUME Core, NEW c \in Clients, place[c] \in {"read"} \cup Async!Sending, NEW to \in Async!Serving,
         place' = [place EXCEPT ![c] = to],
         UNCHANGED <<clients_num, sockets, newcomer, hired, open, peer, slot, socket, failures, life>>,
         unread' \in [Clients -> 0 .. SAYS], index' \in [Clients -> Nat],
         target' \in [Clients -> Async!Descriptors \cup {0, -1}],
         due' \in [Clients -> SUBSET Clients], departed' \in [Clients -> SUBSET Clients], echoed' = {},
         \A e \in Clients \ {c} : /\ index'[e] = index[e] /\ target'[e] = target[e]
                                  /\ due'[e] = due[e] /\ departed'[e] = departed[e],
         to \in Async!Sending => \A f \in Clients : place[f] = "clear" => f \in departed'[c],
         \A f \in departed'[c] : place[f] \in {"clear", "gone"} /\ socket[f] # 0,
         Async!HandOf(c)', failures = 0 => Async!OwedOf(c)'
  PROVE  Core'
<1> USE DEF Core
<1>0. place[c] \notin {"none", "clear", "gone"} /\ to \notin {"none", "clear", "gone"} /\ to \in Stations
      /\ place[c] \in Async!Serving
  BY ServingIs
<1>1. /\ place' \in [Clients -> Stations]
      /\ \A e \in Clients : place'[e] = IF e = c THEN to ELSE place[e]
  BY <1>0 DEF Async!TypeOK, Stations
<1>2. Async!TypeOK'
  <2>1. hired' \in BOOLEAN BY Zenon DEF Async!TypeOK
  <2> QED BY <1>1, <2>1, Zenon DEF Async!TypeOK, Async!Slots, Async!Descriptors, Stations
<1>3. Async!Newcomer' BY <1>0, <1>1 DEF Async!Newcomer
<1>4. Async!Connected'
  <2>1. \A e \in Clients : Async!Served(e)' <=> Async!Served(e) BY <1>0, <1>1 DEF Async!Served, Async!Serving, Async!Sending
  <2>2. \A d \in DOMAIN open : open[d] \in Clients BY DEF Async!TypeOK
  <2> QED BY <2>1, <2>2 DEF Async!Connected
<1>5. Async!Registered' BY <1>1 DEF Async!Registered, Async!Slots, Async!Serving, Async!Sending
<1>6. Async!Slotted'
  <2>1. \A e \in Clients : place'[e] \in Async!Serving => place[e] \in Async!Serving BY <1>0, <1>1
  <2> QED BY <2>1 DEF Async!Slotted, Async!Serving, Async!Sending
<1>7. Counted' /\ Async!NoEcho' BY DEF Counted, Async!NoEcho
<1>8. Hands'
  <2>1. Async!Bounded'
    <3>1. ~ \A e \in Clients : place[e] \in {"none", "gone"} BY <1>0
    <3> QED BY <3>1 DEF Hands, Async!Bounded
  <2>2. Async!Departures'
    <3>1. \A e, f \in Clients : (place'[e] = "clear" <=> place[e] = "clear")
                                /\ (place'[e] = "gone" <=> place[e] = "gone")
      BY <1>0, <1>1
    <3>2. \A e \in Clients : departed[e] \subseteq Clients /\ departed'[e] \subseteq Clients BY DEF Async!TypeOK
    <3> SUFFICES ASSUME NEW e \in Clients
                 PROVE /\ place'[e] \in Async!Sending => \A f \in Clients : place'[f] = "clear" => f \in departed'[e]
                       /\ \A f \in departed'[e] : place'[f] \in {"clear", "gone"} /\ socket'[f] # 0
      BY DEF Async!Departures, Async!Sending
    <3>3. CASE e = c BY <1>1, <3>1, <3>2, <3>3
    <3>4. CASE e # c
      <4>1. departed'[e] = departed[e] /\ place'[e] = place[e] BY <1>1, <3>4
      <4> QED BY <3>1, <3>2, <4>1 DEF Hands, Async!Departures
    <3> QED BY <3>3, <3>4
  <2>3. Async!InHand'
    <3>1. \A e \in Clients \ {c} : place[e] = "load" => sockets'[index[e]] # socket[e]
      BY DEF Hands, Async!InHand, Async!HandOf
    <3>2. \A e \in Clients \ {c} : Async!HandOf(e)' BY <1>0, <1>1, <3>1, OthersHands
    <3> QED BY <3>2 DEF Async!InHand
  <2> QED BY <2>1, <2>2, <2>3 DEF Hands
<1>9. Async!Owed'
  <2> SUFFICES ASSUME failures = 0, NEW e \in Clients \ {c} PROVE Async!OwedOf(e)' BY DEF Async!Owed
  <2>1. Async!OwedOf(e) BY DEF Async!Owed
  <2>2. \A d \in due[e] : d \in Clients BY DEF Async!TypeOK
  <2>3. \A d \in due[e] : place'[d] \in Async!Serving BY <1>1, <2>1, <2>2 DEF Async!OwedOf
  <2> QED BY <1>1, <2>1, <2>3 DEF Async!OwedOf, Async!Serving, Async!Sending
<1> QED BY <1>2, <1>3, <1>4, <1>5, <1>6, <1>7, <1>8, <1>9

LEMMA AsyncReadKeeps == ASSUME Core, NEW c \in Clients, Async!Read(c) PROVE Core'
<1> USE DEF Core
<1>1. /\ place[c] = "read"
      /\ UNCHANGED <<clients_num, sockets, newcomer, hired, open, peer, slot, socket, index, target, echoed,
                     failures, life>>
  BY DEF Async!Read, Async!Goto, Async!main, Async!thread
<1>2. /\ unread' \in [Clients -> 0 .. SAYS]
  <2>1. ASSUME NEW n \in 1 .. unread[c], unread' = [unread EXCEPT ![c] = @ - n] PROVE unread' \in [Clients -> 0 .. SAYS]
    <3>1. unread[c] \in 0 .. SAYS BY DEF Async!TypeOK
    <3>2. unread[c] - n \in 0 .. SAYS BY <3>1, AsyncAssumption
    <3> QED BY <2>1, <3>2 DEF Async!TypeOK
  <2>2. unread' = unread => unread' \in [Clients -> 0 .. SAYS] BY DEF Async!TypeOK
  <2> QED BY <2>1, <2>2 DEF Async!Read
<1>3. /\ index' \in [Clients -> Nat] /\ target' \in [Clients -> Async!Descriptors \cup {0, -1}]
      /\ \A e \in Clients : index'[e] = index[e] /\ target'[e] = target[e]
  BY <1>1 DEF Async!TypeOK
<1>4. echoed' = {} BY <1>1 DEF Async!NoEcho
<1> DEFINE clearing == {d \in Clients : place[d] = "clear"}
<1>5. \/ /\ place' = [place EXCEPT ![c] = "send"] /\ due' = [due EXCEPT ![c] = Async!Present \ {c}]
         /\ departed' = [departed EXCEPT ![c] = clearing]
      \/ place' = [place EXCEPT ![c] = "close"] /\ due' = due /\ departed' = departed
  BY DEF Async!Read, Async!Goto
<1>6. CASE /\ place' = [place EXCEPT ![c] = "send"] /\ due' = [due EXCEPT ![c] = Async!Present \ {c}]
           /\ departed' = [departed EXCEPT ![c] = clearing]
  <2>1. /\ \A e \in Clients : place'[e] = IF e = c THEN "send" ELSE place[e]
        /\ due' \in [Clients -> SUBSET Clients] /\ due'[c] = Async!Present \ {c}
        /\ \A e \in Clients \ {c} : due'[e] = due[e]
    <3>1. Async!Present \ {c} \in SUBSET Clients BY DEF Async!Present
    <3> QED BY <1>6, <3>1 DEF Async!TypeOK
  <2>2. /\ departed' \in [Clients -> SUBSET Clients] /\ departed'[c] = clearing
        /\ \A e \in Clients \ {c} : departed'[e] = departed[e]
    <3>1. clearing \in SUBSET Clients OBVIOUS
    <3> HIDE DEF clearing
    <3> QED BY <1>6, <3>1 DEF Async!TypeOK
  <2>3. \A f \in departed'[c] : place[f] \in {"clear", "gone"} /\ socket[f] # 0 BY <2>2 DEF Async!Newcomer
  <2>4. \A f \in Clients : place[f] = "clear" => f \in departed'[c] BY <2>2
  <2>5. index'[c] = 0 BY <1>1, <1>3, ServingIs DEF Hands, Async!InHand, Async!HandOf
  <2>6. Async!HandOf(c)' BY <2>1, <2>5 DEF Async!HandOf
  <2>7. ASSUME NEW d \in Async!Present \ {c}
        PROVE /\ d # c /\ place'[d] \in Async!Serving /\ slot'[d] < clients_num' /\ slot'[d] \in Nat
    <3>1. d \in Clients /\ place[d] \in {"read"} \cup Async!Sending /\ slot[d] < clients_num BY DEF Async!Present
    <3>2. slot[d] \in Nat BY <3>1 DEF Async!TypeOK, Async!Slots
    <3> QED BY <1>1, <2>1, <3>1, <3>2, ServingIs
  <2>8. Async!OwedOf(c)' BY <2>1, <2>5, <2>7, ServingIs DEF Async!OwedOf, Async!Serving, Async!Sending
  <2> QED BY <1>1, <1>2, <1>3, <1>4, <1>6, <2>1, <2>2, <2>3, <2>4, <2>6, <2>8, ServingIs, Moves
<1>7. CASE place' = [place EXCEPT ![c] = "close"] /\ due' = due /\ departed' = departed
  <2>1. /\ place'[c] = "close" /\ due' \in [Clients -> SUBSET Clients] /\ departed' \in [Clients -> SUBSET Clients]
        /\ \A e \in Clients : due'[e] = due[e] /\ departed'[e] = departed[e]
    BY <1>7 DEF Async!TypeOK
  <2>2. Async!HandOf(c)'
    <3>1. index'[c] = 0 BY <1>1, <1>3, ServingIs DEF Hands, Async!InHand, Async!HandOf
    <3> QED BY <2>1, <3>1 DEF Async!HandOf
  <2>3. failures = 0 => due[c] = {} BY <1>1, ServingIs DEF Async!Owed, Async!OwedOf
  <2>4. failures = 0 => Async!OwedOf(c)' BY <2>1, <2>3 DEF Async!OwedOf
  <2>5. \A f \in departed'[c] : place[f] \in {"clear", "gone"} /\ socket[f] # 0
    BY <2>1 DEF Hands, Async!Departures
  <2> QED BY <1>1, <1>2, <1>3, <1>4, <1>7, <2>1, <2>2, <2>4, <2>5, ServingIs, Moves
<1> QED BY <1>5, <1>6, <1>7

(* The numbers the loop compares.                                          *)
LEMMA LoopNumbers ==
  ASSUME Core, NEW c \in Clients
  PROVE  index[c] \in Nat /\ clients_num \in Nat /\ \A d \in Clients : slot[d] \in Async!Slots /\ slot[d] \in Nat
<1>1. index[c] \in Nat /\ clients_num \in Nat BY DEF Core, Async!TypeOK
<1>2. \A d \in Clients : slot[d] \in Async!Slots BY DEF Core, Async!TypeOK
<1>3. \A d \in Clients : slot[d] \in Nat BY <1>2 DEF Async!Slots
<1> QED BY <1>1, <1>2, <1>3

(* What a step of the loop leaves alone.                                   *)
LEMMA LoopFrame ==
  ASSUME Core, NEW c \in Clients, place[c] \in Async!Sending, NEW to \in Async!Sending \cup {"read"},
         place' = [place EXCEPT ![c] = to],
         UNCHANGED <<clients_num, sockets, newcomer, hired, open, peer, unread, slot, socket, failures, life>>,
         index' \in [Clients -> Nat], target' \in [Clients -> Async!Descriptors \cup {0, -1}],
         due' \in [Clients -> SUBSET Clients], echoed' = {},
         \A e \in Clients \ {c} : index'[e] = index[e] /\ target'[e] = target[e] /\ due'[e] = due[e],
         departed' = departed \/ (to = "read" /\ departed' = [departed EXCEPT ![c] = {}]),
         Async!HandOf(c)', failures = 0 => Async!OwedOf(c)'
  PROVE  Core'
<1>1. /\ departed' \in [Clients -> SUBSET Clients]
      /\ \A e \in Clients \ {c} : departed'[e] = departed[e]
      /\ departed'[c] = departed[c] \/ (to = "read" /\ departed'[c] = {})
  BY DEF Core, Async!TypeOK
<1>2. to \in Async!Sending => \A f \in Clients : place[f] = "clear" => f \in departed'[c]
  BY <1>1, ServingIs DEF Core, Hands, Async!Departures
<1>3. \A f \in departed'[c] : place[f] \in {"clear", "gone"} /\ socket[f] # 0
  BY <1>1 DEF Core, Hands, Async!Departures
<1>4. unread' \in [Clients -> 0 .. SAYS] BY DEF Core, Async!TypeOK
<1>5. to \in Async!Serving BY ServingIs
<1> QED BY <1>1, <1>2, <1>3, <1>4, <1>5, Moves

LEMMA LoopTestKeeps == ASSUME Core, NEW c \in Clients, Async!LoopTest(c) PROVE Core'
<1> USE DEF Core
<1>1. /\ place[c] = "send"
      /\ UNCHANGED <<clients_num, sockets, newcomer, hired, open, peer, unread, slot, socket, target, due, echoed,
                     failures, life>>
  BY DEF Async!LoopTest, Async!LoopEnds, Async!Goto, Async!main, Async!thread
<1>2. /\ target' \in [Clients -> Async!Descriptors \cup {0, -1}] /\ due' \in [Clients -> SUBSET Clients] /\ echoed' = {}
      /\ \A e \in Clients : target'[e] = target[e] /\ due'[e] = due[e]
  BY <1>1 DEF Async!TypeOK, Async!NoEcho
<1>3. CASE index[c] >= clients_num
  <2>1. /\ place' = [place EXCEPT ![c] = "read"] /\ index' = [index EXCEPT ![c] = 0]
        /\ departed' = [departed EXCEPT ![c] = {}]
    BY <1>3 DEF Async!LoopTest, Async!LoopEnds, Async!Goto
  <2>2. index' \in [Clients -> Nat] /\ index'[c] = 0 /\ \A e \in Clients \ {c} : index'[e] = index[e]
    BY <2>1 DEF Async!TypeOK
  <2>3. place'[c] = "read" BY <2>1 DEF Async!TypeOK
  <2>4. Async!HandOf(c)' BY <2>2, <2>3 DEF Async!HandOf
  <2>5. failures = 0 => due[c] = {}
    <3> SUFFICES ASSUME failures = 0, NEW d \in due[c] PROVE FALSE OBVIOUS
    <3>1. index[c] <= slot[d] /\ slot[d] < clients_num BY DEF Async!Owed, Async!OwedOf
    <3>2. d \in Clients BY DEF Async!TypeOK
    <3> QED BY <1>3, <3>1, <3>2, LoopNumbers
  <2>6. failures = 0 => Async!OwedOf(c)' BY <1>2, <2>3, <2>5 DEF Async!OwedOf
  <2> QED BY <1>1, <1>2, <2>1, <2>2, <2>4, <2>6, ServingIs, LoopFrame
<1>4. CASE ~ (index[c] >= clients_num)
  <2>1. place' = [place EXCEPT ![c] = "test"] /\ index' = index /\ departed' = departed
    BY <1>4 DEF Async!LoopTest, Async!Goto
  <2>2. index' \in [Clients -> Nat] /\ \A e \in Clients : index'[e] = index[e] BY <2>1 DEF Async!TypeOK
  <2>3. \A e \in Clients : place'[e] = IF e = c THEN "test" ELSE place[e] BY <2>1 DEF Async!TypeOK
  <2>4. clients_num <= MAX_NUM_CLIENTS BY <1>1 DEF Hands, Async!Bounded
  <2>5. index[c] \in Async!Slots BY <1>4, <2>4, LoopNumbers, AsyncAssumption DEF Async!Slots
  <2>6. Async!HandOf(c)' BY <2>2, <2>3, <2>5 DEF Async!HandOf, Async!Slots, Async!Sending
  <2>7. failures = 0 => Async!OwedOf(c)'
    <3> SUFFICES ASSUME failures = 0, NEW d \in due[c]
                 PROVE /\ d # c /\ place'[d] \in Async!Serving /\ index[c] <= slot[d] /\ slot[d] < clients_num
      BY <1>1, <1>2, <2>2, <2>3, ServingIs DEF Async!OwedOf, Async!Serving, Async!Sending
    <3>1. d \in Clients BY DEF Async!TypeOK
    <3> QED BY <2>3, <3>1 DEF Async!Owed, Async!OwedOf
  <2> QED BY <1>1, <1>2, <2>1, <2>2, <2>6, <2>7, ServingIs, LoopFrame
<1> QED BY <1>3, <1>4

(* A thread that goes on to the next slot owes nothing to the owner of     *)
(* this one, and one that stays owes what it did.                          *)
LEMMA NextSlot ==
  ASSUME Core, NEW c \in Clients, place[c] \in Async!Sending,
         \A e \in Clients : place'[e] = IF e = c THEN "send" ELSE place[e],
         index'[c] = index[c] + 1, UNCHANGED <<slot, socket, clients_num>>,
         \A d \in due'[c] : d \in due[c] /\ slot[d] # index[c], failures = 0
  PROVE  Async!OwedOf(c)'
<1> USE DEF Core
<1>1. ASSUME NEW d \in due'[c]
      PROVE  d # c /\ place'[d] \in Async!Serving /\ index'[c] <= slot[d] /\ slot[d] < clients_num
  <2>1. d \in Clients /\ slot[d] # index[c] BY <1>1 DEF Async!TypeOK
  <2>2. d # c /\ place[d] \in Async!Serving /\ index[c] <= slot[d] /\ slot[d] < clients_num
    BY <1>1 DEF Async!Owed, Async!OwedOf
  <2> QED BY <2>1, <2>2, LoopNumbers
<1> QED BY <1>1, ServingIs DEF Async!OwedOf, Async!Serving, Async!Sending

(* The owner of a slot who is owed a message is found in it.               *)
LEMMA OwnerFound ==
  ASSUME Core, NEW c \in Clients, place[c] \in Async!Sending, NEW d \in due[c], failures = 0, slot[d] = index[c]
  PROVE  /\ d \in Clients /\ sockets[index[c]] = socket[d] /\ socket[d] > 0 /\ socket[d] # socket[c]
         /\ socket[d] \in DOMAIN open /\ open[socket[d]] = d
<1> USE DEF Core
<1>1. d \in Clients /\ d # c /\ place[d] \in Async!Serving BY DEF Async!TypeOK, Async!Owed, Async!OwedOf
<1>2. Async!Served(d) /\ Async!Served(c) BY <1>1, ServingIs DEF Async!Served
<1>3. socket[d] \in DOMAIN open /\ open[socket[d]] = d BY <1>1, <1>2 DEF Async!Connected
<1>4. socket[d] # socket[c] BY <1>1, <1>2, OwnDescriptor
<1>5. socket[d] > 0
  <2>1. socket[d] \in Async!Descriptors BY <1>3 DEF Async!TypeOK
  <2>2. socket[d] \in Nat \ {0} BY <2>1, ClientsFinite
  <2> QED BY <2>2
<1>6. sockets[slot[d]] = socket[d] BY <1>1 DEF Async!Slotted
<1> QED BY <1>1, <1>3, <1>4, <1>5, <1>6

(* The two tests.                                                          *)
LEMMA CheckKeeps ==
  ASSUME Core, NEW c \in Clients, NEW from \in {"test", "differ"}, NEW to \in {"differ", "load"},
         NEW passed \in BOOLEAN, Async!Check(c, from, passed, to),
         passed /\ to = "load" => sockets[index[c]] # socket[c],
         \A d \in due[c] : failures = 0 /\ slot[d] = index[c] => passed
  PROVE  Core'
<1> USE DEF Core
<1>1. /\ place[c] = from /\ place' = [place EXCEPT ![c] = IF passed THEN to ELSE "send"]
      /\ index' = IF passed THEN index ELSE [index EXCEPT ![c] = @ + 1]
      /\ UNCHANGED <<clients_num, sockets, newcomer, hired, open, peer, unread, slot, socket, target,
                     due, echoed, departed, failures, life>>
  BY DEF Async!Check, Async!Goto, Async!main, Async!thread, Async!ghost
<1>2. /\ target' \in [Clients -> Async!Descriptors \cup {0, -1}] /\ due' \in [Clients -> SUBSET Clients] /\ echoed' = {}
      /\ \A e \in Clients : target'[e] = target[e] /\ due'[e] = due[e]
  BY <1>1 DEF Async!TypeOK, Async!NoEcho
<1>3. index[c] \in Async!Slots BY <1>1 DEF Hands, Async!InHand, Async!HandOf
<1>4. CASE passed
  <2>1. place' = [place EXCEPT ![c] = to] /\ index' = index BY <1>1, <1>4
  <2>2. index' \in [Clients -> Nat] /\ \A e \in Clients : index'[e] = index[e] BY <2>1 DEF Async!TypeOK
  <2>3. \A e \in Clients : place'[e] = IF e = c THEN to ELSE place[e] BY <2>1 DEF Async!TypeOK
  <2>4. Async!HandOf(c)' BY <1>1, <1>3, <1>4, <2>2, <2>3 DEF Async!HandOf, Async!Slots, Async!Sending
  <2>5. failures = 0 => Async!OwedOf(c)'
    <3> SUFFICES ASSUME failures = 0, NEW d \in due[c]
                 PROVE /\ d # c /\ place'[d] \in Async!Serving /\ index[c] <= slot[d] /\ slot[d] < clients_num
      BY <1>1, <1>2, <2>2, <2>3, ServingIs DEF Async!OwedOf, Async!Serving, Async!Sending
    <3>1. d \in Clients BY DEF Async!TypeOK
    <3> QED BY <2>3, <3>1 DEF Async!Owed, Async!OwedOf
  <2> QED BY <1>1, <1>2, <2>1, <2>2, <2>4, <2>5, ServingIs, LoopFrame
<1>5. CASE ~ passed
  <2>1. place' = [place EXCEPT ![c] = "send"] /\ index' = [index EXCEPT ![c] = @ + 1] BY <1>1, <1>5
  <2>2. /\ index' \in [Clients -> Nat] /\ index'[c] = index[c] + 1
        /\ \A e \in Clients \ {c} : index'[e] = index[e]
    BY <2>1, LoopNumbers DEF Async!TypeOK
  <2>3. \A e \in Clients : place'[e] = IF e = c THEN "send" ELSE place[e] BY <2>1 DEF Async!TypeOK
  <2>4. Async!HandOf(c)' BY <2>3 DEF Async!HandOf, Async!Sending
  <2>5. failures = 0 => Async!OwedOf(c)' BY <1>1, <1>2, <1>5, <2>2, <2>3, ServingIs, NextSlot
  <2> QED BY <1>1, <1>2, <2>1, <2>2, <2>4, <2>5, ServingIs, LoopFrame
<1> QED BY <1>4, <1>5

LEMMA TestsKeep == ASSUME Core, NEW c \in Clients, Async!TestUsed(c) \/ Async!TestOther(c) PROVE Core'
<1>1. CASE Async!TestUsed(c)
  <2> DEFINE passed == sockets[index[c]] > 0
  <2>1. Async!Check(c, "test", passed, "differ") BY <1>1 DEF Async!TestUsed
  <2>2. place[c] \in Async!Sending BY <2>1, ServingIs DEF Async!Check, Async!Goto
  <2>3. \A d \in due[c] : failures = 0 /\ slot[d] = index[c] => passed BY <2>2, OwnerFound
  <2>4. passed \in BOOLEAN OBVIOUS
  <2> HIDE DEF passed
  <2> QED BY <2>1, <2>3, <2>4, CheckKeeps
<1>2. CASE Async!TestOther(c)
  <2> DEFINE passed == sockets[index[c]] # socket[c]
  <2>1. Async!Check(c, "differ", passed, "load") BY <1>2 DEF Async!TestOther
  <2>2. place[c] \in Async!Sending BY <2>1, ServingIs DEF Async!Check, Async!Goto
  <2>3. \A d \in due[c] : failures = 0 /\ slot[d] = index[c] => passed BY <2>2, OwnerFound
  <2>4. passed \in BOOLEAN /\ (passed => sockets[index[c]] # socket[c]) OBVIOUS
  <2> HIDE DEF passed
  <2> QED BY <2>1, <2>3, <2>4, CheckKeeps
<1> QED BY <1>1, <1>2

(* The third load: what it finds is registered by a client who is there or *)
(* departing, or is no descriptor any more.                                *)
LEMMA LoadKeeps == ASSUME Core, NEW c \in Clients, Async!Load(c) PROVE Core'
<1> USE DEF Core
<1>1. /\ place[c] = "load" /\ place' = [place EXCEPT ![c] = "write"]
      /\ target' = [target EXCEPT ![c] = sockets[index[c]]]
      /\ UNCHANGED <<clients_num, sockets, newcomer, hired, open, peer, unread, slot, socket, index,
                     due, echoed, departed, failures, life>>
  BY DEF Async!Load, Async!Goto, Async!main, Async!ghost
<1>2. /\ index' \in [Clients -> Nat] /\ due' \in [Clients -> SUBSET Clients] /\ echoed' = {}
      /\ \A e \in Clients : index'[e] = index[e] /\ due'[e] = due[e] /\ departed'[e] = departed[e]
  BY <1>1 DEF Async!TypeOK, Async!NoEcho
<1>3. index[c] \in Async!Slots /\ sockets[index[c]] # socket[c] BY <1>1 DEF Hands, Async!InHand, Async!HandOf
<1>4. /\ target' \in [Clients -> Async!Descriptors \cup {0, -1}] /\ target'[c] = sockets[index[c]]
      /\ \A e \in Clients \ {c} : target'[e] = target[e]
  BY <1>1, <1>3 DEF Async!TypeOK
<1>5. \A e \in Clients : place'[e] = IF e = c THEN "write" ELSE place[e] BY <1>1 DEF Async!TypeOK
<1>6. ASSUME target'[c] > 0
      PROVE  \E f \in Clients : /\ slot'[f] = index'[c] /\ socket'[f] = target'[c]
                                /\ place'[f] \in Async!Serving \/ f \in departed'[c]
  <2>1. PICK f \in Clients : /\ slot[f] = index[c] /\ socket[f] = sockets[index[c]]
                             /\ place[f] \in {"clear"} \cup Async!Serving
    BY <1>3, <1>4, <1>6 DEF Async!Registered
  <2>2. place[f] = "clear" => f \in departed[c] BY <1>1, ServingIs DEF Hands, Async!Departures
  <2>3. place[f] \in Async!Serving => place'[f] \in Async!Serving BY <1>5, ServingIs
  <2> QED BY <1>1, <1>2, <1>4, <2>1, <2>2, <2>3
<1>7. Async!HandOf(c)' BY <1>1, <1>3, <1>4, <1>5, <1>6 DEF Async!HandOf, Async!Serving, Async!Sending
<1>8. failures = 0 => Async!OwedOf(c)'
  <2> SUFFICES ASSUME failures = 0, NEW d \in due[c]
               PROVE /\ d # c /\ place'[d] \in Async!Serving /\ index[c] <= slot[d] /\ slot[d] < clients_num
                     /\ index[c] = slot[d] => target'[c] = socket[d]
    BY <1>1, <1>2, <1>5, ServingIs DEF Async!OwedOf, Async!Serving, Async!Sending
  <2>1. d \in Clients BY DEF Async!TypeOK
  <2>2. d # c /\ place[d] \in Async!Serving /\ index[c] <= slot[d] /\ slot[d] < clients_num
    BY DEF Async!Owed, Async!OwedOf
  <2>3. index[c] = slot[d] => target'[c] = socket[d] BY <1>1, <1>4, ServingIs, OwnerFound
  <2> QED BY <1>5, <2>1, <2>2, <2>3
<1> QED BY <1>1, <1>2, <1>4, <1>7, <1>8, ServingIs, LoopFrame

(* Whoever is owed the message and has the slot of this turn gets it.      *)
LEMMA WriteKeeps == ASSUME Core, NEW c \in Clients, Async!Write(c) PROVE Core'
<1> USE DEF Core
<1> DEFINE d   == target[c]
           hit == d \in DOMAIN open
<1>1. /\ place[c] = "write" /\ place' = [place EXCEPT ![c] = "send"]
      /\ index' = [index EXCEPT ![c] = @ + 1] /\ target' = [target EXCEPT ![c] = 0]
      /\ UNCHANGED <<clients_num, sockets, newcomer, hired, open, peer, unread, slot, socket,
                     departed, failures, life>>
  BY DEF Async!Write, Async!Goto, Async!main
<1>2. IF hit THEN /\ due' = [due EXCEPT ![c] = @ \ {open[d]}]
                  /\ echoed' = IF open[d] = c THEN echoed \cup {c} ELSE echoed
             ELSE due' = due /\ echoed' = echoed
  BY DEF Async!Write
<1>3. target[c] # socket[c] BY <1>1 DEF Hands, Async!InHand, Async!HandOf
<1>4. hit => open[d] # c /\ open[d] \in Clients BY <1>3 DEF Async!Connected, Async!TypeOK
<1>5. echoed' = {} BY <1>2, <1>4 DEF Async!NoEcho
<1>6. /\ index' \in [Clients -> Nat] /\ index'[c] = index[c] + 1
      /\ target' \in [Clients -> Async!Descriptors \cup {0, -1}]
      /\ \A e \in Clients \ {c} : index'[e] = index[e] /\ target'[e] = target[e]
  BY <1>1, LoopNumbers DEF Async!TypeOK
<1>7. /\ due' \in [Clients -> SUBSET Clients]
      /\ due'[c] = IF hit THEN due[c] \ {open[d]} ELSE due[c]
      /\ \A e \in Clients \ {c} : due'[e] = due[e]
  <2>1. due \in [Clients -> SUBSET Clients] BY DEF Async!TypeOK
  <2> HIDE DEF hit
  <2> QED BY <1>2, <2>1
<1>8. ASSUME failures = 0, NEW e \in due'[c] PROVE e \in due[c] /\ slot[e] # index[c]
  <2>1. e \in due[c] BY <1>7
  <2>2. ASSUME slot[e] = index[c] PROVE FALSE
    <3>1. d = socket[e] BY <1>1, <1>8, <2>1, <2>2 DEF Async!Owed, Async!OwedOf
    <3>2. socket[e] \in DOMAIN open /\ open[socket[e]] = e BY <1>1, <1>8, <2>1, <2>2, ServingIs, OwnerFound
    <3>3. hit /\ open[d] = e BY <3>1, <3>2
    <3> HIDE DEF hit, d
    <3> QED BY <1>7, <1>8, <3>3
  <2> QED BY <2>1, <2>2
<1> HIDE DEF hit, d
<1>9. \A e \in Clients : place'[e] = IF e = c THEN "send" ELSE place[e] BY <1>1 DEF Async!TypeOK
<1>10. Async!HandOf(c)' BY <1>9 DEF Async!HandOf, Async!Sending
<1>11. failures = 0 => Async!OwedOf(c)' BY <1>1, <1>6, <1>8, <1>9, ServingIs, NextSlot
<1> QED BY <1>1, <1>5, <1>6, <1>7, <1>10, <1>11, ServingIs, LoopFrame

LEMMA AsyncSendKeeps == ASSUME Core, NEW c \in Clients, Async!Send(c) PROVE Core'
<1>1. CASE Async!Sigpipe(c)
  <2>1. peer \in [Clients -> {"out", "waiting", "in", "left"}] /\ unread \in [Clients -> 0 .. SAYS]
    BY DEF Core, Async!TypeOK
  <2> QED BY <1>1, <2>1, Elsewhere DEF Async!Sigpipe, Async!main, Async!thread, Async!ghost, Lives
<1> QED BY <1>1, LoopTestKeeps, TestsKeep, LoadKeeps, WriteKeeps DEF Async!Send

(* A step of c outside the loop leaves every hand as it is: what a slot    *)
(* held stays known, for who closes his descriptor has departed.           *)
LEMMA HandsStay ==
  ASSUME Core, NEW c \in Clients, place[c] \notin Async!Sending, place'[c] \notin Async!Sending,
         UNCHANGED <<index, target>>, Async!Bounded',
         \A f \in Clients \ {c} : place'[f] = place[f] /\ slot'[f] = slot[f] /\ socket'[f] = socket[f],
         place[c] # "none" => slot'[c] = slot[c] /\ socket'[c] = socket[c],
         \A e \in Clients \ {c} : place[e] = "load" => sockets'[index[e]] # socket[e],
         \A e \in Clients : \A f \in departed[e] : f \in departed'[e],
         \A e \in Clients : \A f \in departed'[e] : f \in departed[e] \/ (f = c /\ place[c] = "close"),
         place[c] = "close" => \A e \in Clients : place[e] \in Async!Sending => c \in departed'[e],
         <<place[c], place'[c]>> \in {<<"close", "clear">>, <<"clear", "gone">>, <<"register", "read">>,
                                     <<"none", "none">>, <<"none", "register">>, <<"none", "gone">>}
  PROVE  Hands'
<1> USE DEF Core, Hands
<1>1. \A e \in Clients : \A f \in departed[e] : f \in Clients BY DEF Async!TypeOK
<1>2. place[c] = "close" => socket[c] # 0 BY DEF Async!Newcomer
<1>3. ASSUME NEW e \in Clients, place'[e] \in Async!Sending, NEW f \in Clients, place'[f] = "clear"
      PROVE  f \in departed'[e]
  <2>1. e # c /\ place[e] \in Async!Sending BY <1>3
  <2>2. CASE f = c BY <1>3, <2>1, <2>2
  <2>3. CASE f # c BY <1>3, <2>1, <2>3 DEF Async!Departures
  <2> QED BY <2>2, <2>3
<1>4. ASSUME NEW e \in Clients, NEW f \in departed'[e]
      PROVE  place'[f] \in {"clear", "gone"} /\ socket'[f] # 0
  <2>1. CASE f \in departed[e]
    <3>1. f \in Clients /\ place[f] \in {"clear", "gone"} /\ socket[f] # 0 BY <1>1, <2>1 DEF Async!Departures
    <3> QED BY <3>1
  <2>2. CASE f \notin departed[e] BY <1>2, <1>4, <2>2
  <2> QED BY <2>1, <2>2
<1>5. Async!Departures' BY <1>3, <1>4 DEF Async!Departures, Async!Sending
<1>6. \A e \in Clients \ {c} : place[e] = "write" /\ place[c] \in Async!Serving
                                => place'[c] \in Async!Serving \/ c \in departed'[e]
  BY ServingIs
<1>7. \A e \in Clients \ {c} : Async!HandOf(e)' BY <1>6, OthersHands
<1>8. Async!HandOf(c)'
  <2>1. index[c] = 0 BY DEF Async!InHand, Async!HandOf
  <2> QED BY <2>1, ServingIs DEF Async!HandOf, Async!Sending
<1> QED BY <1>5, <1>7, <1>8 DEF Async!InHand

(* A thread that moves is there, and clients_num has not gone below 0.     *)
LEMMA BoundedStays ==
  ASSUME Core, NEW c \in Clients, place[c] \notin {"none", "gone"}, UNCHANGED clients_num
  PROVE  Async!Bounded'
BY DEF Core, Hands, Async!Bounded

(* What is owed, when c moves outside the loop and is owed no more if he   *)
(* has left.                                                               *)
LEMMA OwedStays ==
  ASSUME Core, NEW c \in Clients, failures = 0, place[c] \notin Async!Sending, place'[c] \notin Async!Sending,
         UNCHANGED <<index, target>>,
         \A e \in Clients \ {c} : place'[e] = place[e] /\ slot'[e] = slot[e] /\ socket'[e] = socket[e],
         \A e \in Clients : \A d \in due'[e] : d \in due[e],
         \A e \in Clients : c \notin due'[e],
         place[c] # "none" => slot'[c] = slot[c] /\ socket'[c] = socket[c],
         clients_num' = clients_num
  PROVE  \A e \in Clients : Async!OwedOf(e)'
<1> USE DEF Core
<1> TAKE e \in Clients
<1>1. Async!OwedOf(e) BY DEF Async!Owed
<1>2. place'[e] \notin Async!Sending => due'[e] = {} BY <1>1 DEF Async!OwedOf
<1>3. ASSUME NEW d \in due'[e]
      PROVE  /\ d # e /\ place'[d] \in Async!Serving /\ index'[e] <= slot'[d] /\ slot'[d] < clients_num'
             /\ place'[e] = "write" /\ index'[e] = slot'[d] => target'[e] = socket'[d]
  <2>1. d \in Clients /\ d \in due[e] /\ d # c BY <1>3 DEF Async!TypeOK
  <2>2. place[e] \in Async!Sending BY <1>1, <2>1 DEF Async!OwedOf
  <2>3. place'[e] = place[e] BY <2>2
  <2> QED BY <1>1, <2>1, <2>3 DEF Async!OwedOf
<1> QED BY <1>2, <1>3 DEF Async!OwedOf, Async!Serving, Async!Sending

LEMMA RegisterKeeps == ASSUME Core, NEW c \in Clients, Async!Register(c) PROVE Core'
<1> USE DEF Core
<1>1. /\ place[c] = "register" /\ place' = [place EXCEPT ![c] = "read"]
      /\ sockets' = [sockets EXCEPT ![slot[c]] = socket[c]]
      /\ UNCHANGED <<clients_num, newcomer, hired, open, peer, unread, slot, socket, index, target, due, echoed, departed, failures, life>>
  BY DEF Async!Register, Async!Goto, Async!main, Async!thread, Async!ghost
<1>2. /\ place' \in [Clients -> Stations]
      /\ \A e \in Clients : place'[e] = IF e = c THEN "read" ELSE place[e]
  <2>1. "read" \in Stations BY ServingIs
  <2>2. place \in [Clients -> Stations] BY DEF Async!TypeOK, Stations
  <2> QED BY <1>1, <2>1, <2>2
<1>3. /\ slot[c] \in Async!Slots /\ socket[c] \in Async!Descriptors \cup {0}
      /\ sockets' \in [Async!Slots -> Async!Descriptors \cup {0, -1}]
      /\ \A s \in Async!Slots : sockets'[s] = IF s = slot[c] THEN socket[c] ELSE sockets[s]
  BY <1>1 DEF Async!TypeOK
<1>4. Async!TypeOK'
  <2>1. hired' \in BOOLEAN BY <1>1, Zenon DEF Async!TypeOK
  <2> QED BY <1>1, <1>2, <1>3, <2>1, Zenon DEF Async!TypeOK, Async!Slots, Stations
<1>5. Async!Newcomer' BY <1>1, <1>2 DEF Async!Newcomer
<1>6. Async!Connected'
  <2>1. \A e \in Clients : Async!Served(e)' <=> Async!Served(e) BY <1>1, <1>2, ServingIs DEF Async!Served, Async!Serving, Async!Sending
  <2>2. \A d \in DOMAIN open : open[d] \in Clients BY DEF Async!TypeOK
  <2> QED BY <1>1, <2>1, <2>2 DEF Async!Connected
<1>7. Async!Registered'
  <2> SUFFICES ASSUME NEW s \in Async!Slots, sockets'[s] > 0
               PROVE \E e \in Clients : /\ slot[e] = s /\ socket[e] = sockets'[s]
                                        /\ place'[e] \in {"clear"} \cup Async!Serving
    BY <1>1 DEF Async!Registered, Async!Slots, Async!Serving, Async!Sending
  <2>1. CASE s = slot[c] BY <1>2, <1>3, <2>1, ServingIs
  <2>2. CASE s # slot[c]
    <3>1. sockets[s] > 0 /\ sockets'[s] = sockets[s] BY <1>3, <2>2
    <3>2. PICK e \in Clients : slot[e] = s /\ socket[e] = sockets[s] /\ place[e] \in {"clear"} \cup Async!Serving
      BY <3>1 DEF Async!Registered
    <3>3. e # c BY <1>1, <3>2, ServingIs
    <3> QED BY <1>2, <3>1, <3>2, <3>3
  <2> QED BY <2>1, <2>2
<1>8. Async!Slotted'
  <2> SUFFICES ASSUME failures = 0, NEW e \in Clients, place'[e] \in Async!Serving
               PROVE sockets'[slot[e]] = socket[e]
    BY <1>1 DEF Async!Slotted, Async!Serving, Async!Sending
  <2>1. CASE e = c BY <1>3, <2>1
  <2>2. CASE e # c
    <3>1. place[e] \in Async!Serving BY <1>2, <2>2
    <3>2. socket[e] # 0 /\ socket[c] # 0 BY <1>1, <3>1, ServingIs DEF Async!Newcomer
    <3>3. slot[e] # slot[c] BY <2>2, <3>2 DEF Async!Slotted
    <3>4. slot[e] \in Async!Slots BY DEF Async!TypeOK
    <3> QED BY <1>3, <3>1, <3>3, <3>4 DEF Async!Slotted
  <2> QED BY <2>1, <2>2
<1>9. Async!Owed'
  <2> SUFFICES ASSUME failures = 0 PROVE \A e \in Clients : Async!OwedOf(e)' BY <1>1 DEF Async!Owed
  <2>1. \A e \in Clients : c \notin due'[e] BY <1>1, ServingIs DEF Async!Owed, Async!OwedOf
  <2> QED BY <1>1, <1>2, <2>1, ServingIs, OwedStays
<1>10. Counted' /\ Async!NoEcho' BY <1>1 DEF Counted, Async!NoEcho
<1>11. Hands'
  <2>1. ASSUME NEW e \in Clients \ {c}, place[e] = "load" PROVE sockets'[index[e]] # socket[e]
    <3>1. index[e] \in Async!Slots /\ sockets[index[e]] # socket[e] BY <2>1 DEF Hands, Async!InHand, Async!HandOf
    <3>2. Async!Served(e) /\ Async!Served(c) BY <1>1, <2>1, ServingIs DEF Async!Served
    <3>3. socket[e] # socket[c] BY <3>2, OwnDescriptor
    <3> QED BY <1>3, <3>1, <3>3
  <2>2. Async!Bounded' BY <1>1, BoundedStays
  <2>3. place[c] \notin Async!Sending /\ place'[c] \notin Async!Sending BY <1>1, <1>2, ServingIs
  <2> QED BY <1>1, <1>2, <2>1, <2>2, <2>3, HandsStay
<1> QED BY <1>4, <1>5, <1>6, <1>7, <1>8, <1>9, <1>10, <1>11

LEMMA ClearKeeps == ASSUME Core, NEW c \in Clients, Async!Clear(c) PROVE Core'
<1> USE DEF Core
<1>1. /\ place[c] = "clear" /\ place' = [place EXCEPT ![c] = "gone"]
      /\ sockets' = [sockets EXCEPT ![slot[c]] = -1]
      /\ UNCHANGED <<clients_num, newcomer, hired, open, peer, unread, slot, socket, index, target, due, echoed, departed, failures, life>>
  BY DEF Async!Clear, Async!Goto, Async!main, Async!thread, Async!ghost
<1>2. /\ place' \in [Clients -> Stations]
      /\ \A e \in Clients : place'[e] = IF e = c THEN "gone" ELSE place[e]
  BY <1>1 DEF Async!TypeOK, Stations
<1>3. /\ slot[c] \in Async!Slots
      /\ sockets' \in [Async!Slots -> Async!Descriptors \cup {0, -1}]
      /\ \A s \in Async!Slots : sockets'[s] = IF s = slot[c] THEN -1 ELSE sockets[s]
  BY <1>1 DEF Async!TypeOK
<1>4. Async!TypeOK'
  <2>1. hired' \in BOOLEAN BY <1>1, Zenon DEF Async!TypeOK
  <2> QED BY <1>1, <1>2, <1>3, <2>1, Zenon DEF Async!TypeOK, Async!Slots, Stations
<1>5. Async!Newcomer' BY <1>1, <1>2 DEF Async!Newcomer
<1>6. Async!Connected'
  <2>1. \A e \in Clients : Async!Served(e)' <=> Async!Served(e)
    <3>1. c \in newcomer => hired BY <1>1 DEF Async!Newcomer
    <3> QED BY <1>1, <1>2, <3>1, ServingIs DEF Async!Served, Async!Serving, Async!Sending
  <2>2. \A d \in DOMAIN open : open[d] \in Clients BY DEF Async!TypeOK
  <2> QED BY <1>1, <2>1, <2>2 DEF Async!Connected
<1>7. Async!Registered'
  <2> SUFFICES ASSUME NEW s \in Async!Slots, sockets'[s] > 0
               PROVE \E e \in Clients : /\ slot[e] = s /\ socket[e] = sockets'[s]
                                        /\ place'[e] \in {"clear"} \cup Async!Serving
    BY <1>1 DEF Async!Registered, Async!Slots, Async!Serving, Async!Sending
  <2>1. s # slot[c] /\ sockets'[s] = sockets[s] BY <1>3
  <2>2. PICK e \in Clients : slot[e] = s /\ socket[e] = sockets[s] /\ place[e] \in {"clear"} \cup Async!Serving
    BY <2>1 DEF Async!Registered
  <2>3. e # c BY <2>1, <2>2
  <2> QED BY <1>2, <2>1, <2>2, <2>3
<1>8. Async!Slotted'
  <2> SUFFICES ASSUME failures = 0, NEW e \in Clients, place'[e] \in Async!Serving
               PROVE sockets'[slot[e]] = socket[e]
    BY <1>1 DEF Async!Slotted, Async!Serving, Async!Sending
  <2>1. e # c /\ place[e] \in Async!Serving BY <1>2, ServingIs
  <2>2. socket[e] # 0 /\ socket[c] # 0 BY <1>1, <2>1, ServingIs DEF Async!Newcomer
  <2>3. slot[e] # slot[c] BY <2>1, <2>2 DEF Async!Slotted
  <2>4. slot[e] \in Async!Slots BY DEF Async!TypeOK
  <2> QED BY <1>3, <2>1, <2>3, <2>4 DEF Async!Slotted
<1>9. Async!Owed'
  <2> SUFFICES ASSUME failures = 0 PROVE \A e \in Clients : Async!OwedOf(e)' BY <1>1 DEF Async!Owed
  <2>1. \A e \in Clients : c \notin due'[e] BY <1>1, ServingIs DEF Async!Owed, Async!OwedOf
  <2> QED BY <1>1, <1>2, <2>1, ServingIs, OwedStays
<1>10. Counted' /\ Async!NoEcho' BY <1>1 DEF Counted, Async!NoEcho
<1>11. Hands'
  <2>1. ASSUME NEW e \in Clients \ {c}, place[e] = "load" PROVE sockets'[index[e]] # socket[e]
    <3>1. index[e] \in Async!Slots /\ sockets[index[e]] # socket[e] BY <2>1 DEF Hands, Async!InHand, Async!HandOf
    <3>2. socket[e] \in Nat BY ClientsFinite DEF Async!TypeOK
    <3> QED BY <1>3, <3>1, <3>2
  <2>2. Async!Bounded' BY <1>1, BoundedStays
  <2>3. place[c] \notin Async!Sending /\ place'[c] \notin Async!Sending BY <1>1, <1>2, ServingIs
  <2> QED BY <1>1, <1>2, <2>1, <2>2, <2>3, HandsStay
<1> QED BY <1>4, <1>5, <1>6, <1>7, <1>8, <1>9, <1>10, <1>11

(* A client that is no longer served, its descriptor closed.               *)
LEMMA Closed ==
  ASSUME Core, NEW c \in Clients, Async!Served(c), ~ Async!Served(c)', Async!Close(socket[c]),
         \A e \in Clients \ {c} : (Async!Served(e)' <=> Async!Served(e)) /\ socket'[e] = socket[e]
  PROVE  /\ Async!Connected'
         /\ DOMAIN open' \subseteq Async!Descriptors /\ open' \in [DOMAIN open' -> Clients]
<1> USE DEF Core
<1>1. /\ DOMAIN open' = DOMAIN open \ {socket[c]}
      /\ \A d \in DOMAIN open' : open'[d] = open[d] /\ d \in DOMAIN open
      /\ open' = [e \in DOMAIN open' |-> open[e]]
  BY DEF Async!Close
<1>2. \A d \in DOMAIN open : d \in Async!Descriptors /\ open[d] \in Clients BY DEF Async!TypeOK
<1>3. ASSUME NEW d \in DOMAIN open' PROVE Async!Served(open[d])' /\ socket'[open'[d]] = d
  <2>1. PICK e \in Clients : e = open[d] BY <1>1, <1>2
  <2>2. Async!Served(e) /\ socket[e] = d
    <3>1. Async!Served(open[d]) /\ socket[open[d]] = d BY <1>1 DEF Async!Connected
    <3> QED BY <2>1, <3>1 DEF Async!Served
  <2>3. e # c BY <1>1, <2>2
  <2>4. Async!Served(e)' /\ socket'[e] = d BY <2>2, <2>3
  <2>5. e = open'[d] BY <1>1, <2>1
  <2> QED BY <2>4, <2>5 DEF Async!Served
<1>4. ASSUME NEW e \in Clients, Async!Served(e)' PROVE socket'[e] \in DOMAIN open' /\ open'[socket'[e]] = e
  <2>1. e # c BY <1>4
  <2>2. Async!Served(e) /\ socket'[e] = socket[e] BY <1>4, <2>1
  <2>3. socket[e] # socket[c] BY <2>1, <2>2, OwnDescriptor
  <2>4. socket[e] \in DOMAIN open /\ open[socket[e]] = e BY <2>2 DEF Async!Connected
  <2> QED BY <1>1, <2>2, <2>3, <2>4
<1>5. Async!Connected' BY <1>3, <1>4 DEF Async!Connected
<1>6. DOMAIN open' \subseteq Async!Descriptors /\ open' \in [DOMAIN open' -> Clients] BY <1>1, <1>2
<1> QED BY <1>5, <1>6

LEMMA LeaveKeeps == ASSUME Core, NEW c \in Clients, Async!Leave(c) PROVE Core'
<1> USE DEF Core
<1>1. /\ place[c] = "close" /\ place' = [place EXCEPT ![c] = "clear"]
      /\ Async!Close(socket[c])
      /\ due' = [d \in Clients |-> due[d] \ {c}]
      /\ departed' = [d \in Clients |-> IF place[d] \in Async!Sending THEN departed[d] \cup {c} ELSE departed[d]]
      /\ UNCHANGED <<clients_num, sockets, newcomer, hired, peer, unread, slot, socket, index, target, echoed,
                     failures, life>>
  BY DEF Async!Leave, Async!Goto, Async!main, Async!thread
<1>2. /\ place' \in [Clients -> Stations]
      /\ \A e \in Clients : place'[e] = IF e = c THEN "clear" ELSE place[e]
  BY <1>1 DEF Async!TypeOK, Stations
<1>3. c \in newcomer => hired BY <1>1 DEF Async!Newcomer
<1>4. Async!Served(c) /\ ~ Async!Served(c)' /\ \A e \in Clients \ {c} : Async!Served(e)' <=> Async!Served(e)
  BY <1>1, <1>2, <1>3, ServingIs DEF Async!Served, Async!Serving, Async!Sending
<1>5. Async!Connected' /\ DOMAIN open' \subseteq Async!Descriptors /\ open' \in [DOMAIN open' -> Clients]
  BY <1>1, <1>4, Closed
<1>6. due' \in [Clients -> SUBSET Clients] /\ \A e \in Clients : \A d \in due'[e] : d \in due[e] /\ d # c /\ d \in Clients
  BY <1>1 DEF Async!TypeOK
<1>13. /\ departed' \in [Clients -> SUBSET Clients]
       /\ \A e \in Clients : departed'[e] = IF place[e] \in Async!Sending THEN departed[e] \cup {c} ELSE departed[e]
  BY <1>1 DEF Async!TypeOK
<1>7. Async!TypeOK'
  <2>1. hired' \in BOOLEAN BY <1>1, Zenon DEF Async!TypeOK
  <2> QED BY <1>1, <1>2, <1>5, <1>6, <1>13, <2>1, Zenon DEF Async!TypeOK, Async!Slots, Async!Descriptors, Stations
<1>8. Async!Newcomer' BY <1>1, <1>2 DEF Async!Newcomer
<1>9. Async!Registered'
  <2>1. \A e \in Clients : place[e] \in {"clear"} \cup Async!Serving => place'[e] \in {"clear"} \cup Async!Serving
    BY <1>2
  <2> QED BY <1>1, <2>1 DEF Async!Registered, Async!Slots, Async!Serving, Async!Sending
<1>10. Async!Slotted'
  <2>1. \A e \in Clients : place'[e] \in Async!Serving => place[e] \in Async!Serving BY <1>1, <1>2, ServingIs
  <2> QED BY <1>1, <2>1 DEF Async!Slotted, Async!Serving, Async!Sending
<1>11. Async!Owed'
  <2> SUFFICES ASSUME failures = 0 PROVE \A e \in Clients : Async!OwedOf(e)' BY <1>1 DEF Async!Owed
  <2>1. \A e \in Clients : c \notin due'[e] /\ \A d \in due'[e] : d \in due[e] BY <1>6
  <2> QED BY <1>1, <1>2, <2>1, ServingIs, OwedStays
<1>12. Counted' /\ Async!NoEcho' BY <1>1 DEF Counted, Async!NoEcho
<1>14. Hands'
  <2>1. \A e \in Clients \ {c} : place[e] = "load" => sockets'[index[e]] # socket[e]
    BY <1>1 DEF Hands, Async!InHand, Async!HandOf
  <2>2. Async!Bounded' BY <1>1, BoundedStays
  <2>3. place[c] \notin Async!Sending /\ place'[c] \notin Async!Sending BY <1>1, <1>2, ServingIs
  <2>4. /\ \A e \in Clients : \A f \in departed[e] : f \in departed'[e]
        /\ \A e \in Clients : \A f \in departed'[e] : f \in departed[e] \/ f = c
        /\ \A e \in Clients : place[e] \in Async!Sending => c \in departed'[e]
    BY <1>13
  <2> QED BY <1>1, <1>2, <2>1, <2>2, <2>3, <2>4, HandsStay
<1> QED BY <1>5, <1>7, <1>8, <1>9, <1>10, <1>11, <1>12, <1>14

LEMMA PigeonHole ==
  \A S, T, f : f \in [S -> T] /\ IsFiniteSet(S) /\ IsFiniteSet(T) /\ Cardinality(T) < Cardinality(S)
    => \E x, y \in S : x # y /\ f[x] = f[y]
BY FS_PigeonHole

(* A descriptor is free for the client that is accepted: the open ones are *)
(* those of other clients.                                                 *)
LEMMA FreeDescriptor ==
  ASSUME Core, NEW c \in Clients, ~ Async!Served(c)
  PROVE  Async!Lowest(Async!Descriptors \ DOMAIN open) \in Async!Descriptors \ DOMAIN open
<1> DEFINE free == Async!Descriptors \ DOMAIN open
<1>1. free # {}
  <2> SUFFICES ASSUME free = {} PROVE FALSE OBVIOUS
  <2> DEFINE others == Clients \ {c}
             holder == [d \in Async!Descriptors |-> open[d]]
  <2>1. DOMAIN open = Async!Descriptors BY DEF Core, Async!TypeOK
  <2>2. \A d \in Async!Descriptors : open[d] \in others /\ socket[open[d]] = d
    <3>1. \A d \in Async!Descriptors : open[d] \in Clients BY <2>1 DEF Core, Async!TypeOK
    <3>2. \A d \in Async!Descriptors : Async!Served(open[d]) /\ socket[open[d]] = d BY <2>1 DEF Core, Async!Connected
    <3>3. \A d \in Async!Descriptors : open[d] # c BY <3>2
    <3> QED BY <3>1, <3>2, <3>3
  <2>3. IsFiniteSet(others) /\ Cardinality(others) < Cardinality(Async!Descriptors)
    <3>1. /\ IsFiniteSet(Clients \ {c})
          /\ Cardinality(Clients \ {c}) = IF c \in Clients THEN Cardinality(Clients) - 1 ELSE Cardinality(Clients)
      BY ClientsFinite, FS_RemoveElement
    <3> QED BY <3>1, ClientsFinite
  <2>4. holder \in [Async!Descriptors -> others] BY <2>2
  <2>5. \A d, e \in Async!Descriptors : holder[d] = holder[e] => d = e BY <2>2
  <2> HIDE DEF holder, others
  <2>6. \E d, e \in Async!Descriptors : d # e /\ holder[d] = holder[e]
    <3>1. IsFiniteSet(Async!Descriptors) BY ClientsFinite
    <3> QED BY <2>3, <2>4, <3>1, PigeonHole
  <2> QED BY <2>5, <2>6
<1>2. free \subseteq Nat BY ClientsFinite
<1> HIDE DEF free
<1>3. PICK m \in free : \A n \in free : ~ (<<n, m>> \in OpToRel(<, Nat))
  BY <1>1, <1>2, NatLessThanWellFounded, WFMin
<1>4. ASSUME NEW n \in free PROVE m <= n
  <2>1. n \in Nat /\ m \in Nat BY <1>2
  <2>2. n < m => <<n, m>> \in OpToRel(<, Nat) BY <2>1, Zenon DEF OpToRel
  <2>3. ~ (n < m) BY <1>3, <2>2
  <2> QED BY <2>1, <2>3
<1>5. Async!Lowest(free) \in free BY <1>4, Zenon DEF Async!Lowest
<1> QED BY <1>5 DEF free

LEMMA AcceptKeeps == Core /\ Async!Accept => Core'
<1> SUFFICES ASSUME Core, Async!Accept PROVE Core' OBVIOUS
<1> USE DEF Core
<1>1. PICK c \in Clients :
        /\ place[c] = "none" /\ socket[c] = 0 /\ peer[c] \in {"waiting", "left"}
        /\ LET d == Async!Lowest(Async!Descriptors \ DOMAIN open)
           IN /\ socket' = [socket EXCEPT ![c] = d]
              /\ open' = [e \in DOMAIN open \cup {d} |-> IF e = d THEN c ELSE open[e]]
        /\ slot' = [slot EXCEPT ![c] = clients_num]
        /\ peer' = [peer EXCEPT ![c] = IF @ = "waiting" THEN "in" ELSE @]
        /\ newcomer' = {c}
  BY DEF Async!Accept
<1>2. /\ newcomer = {} /\ ~ (clients_num >= MAX_NUM_CLIENTS) /\ ~ hired
      /\ UNCHANGED <<clients_num, sockets, hired, unread, place, index, target, due, echoed, departed, failures, life>>
  BY DEF Async!Accept, Async!Full, Async!ghost, Async!Newcomer
<1> DEFINE d == Async!Lowest(Async!Descriptors \ DOMAIN open)
<1>3. ~ Async!Served(c) BY <1>1, <1>2, ServingIs DEF Async!Served
<1>4. d \in Async!Descriptors /\ d \notin DOMAIN open BY <1>3, FreeDescriptor
<1>5. /\ socket' = [socket EXCEPT ![c] = d]
      /\ open' = [e \in DOMAIN open \cup {d} |-> IF e = d THEN c ELSE open[e]]
  BY <1>1
<1> HIDE DEF d
<1>6. clients_num \in 0 .. 255 /\ clients_num < MAX_NUM_CLIENTS /\ clients_num \in Async!Slots
  <2>1. clients_num \in 0 .. 255 BY DEF Async!TypeOK
  <2> QED BY <1>2, <2>1, AsyncAssumption DEF Async!Slots
<1>7. /\ socket' \in [Clients -> Async!Descriptors \cup {0}] /\ slot' \in [Clients -> Async!Slots]
      /\ \A e \in Clients : socket'[e] = IF e = c THEN d ELSE socket[e]
      /\ \A e \in Clients : slot'[e] = IF e = c THEN clients_num ELSE slot[e]
  <2>1. slot' = [slot EXCEPT ![c] = clients_num] BY <1>1
  <2>2. socket \in [Clients -> Async!Descriptors \cup {0}] /\ slot \in [Clients -> Async!Slots] BY DEF Async!TypeOK
  <2>3. socket' \in [Clients -> Async!Descriptors \cup {0}] /\ \A e \in Clients : socket'[e] = IF e = c THEN d ELSE socket[e]
    BY <1>4, <1>5, <2>2
  <2>4. slot' \in [Clients -> Async!Slots] /\ \A e \in Clients : slot'[e] = IF e = c THEN clients_num ELSE slot[e]
    BY <1>6, <2>1, <2>2
  <2> QED BY <2>3, <2>4
<1>8. /\ DOMAIN open' \subseteq Async!Descriptors /\ open' \in [DOMAIN open' -> Clients]
      /\ DOMAIN open' = DOMAIN open \cup {d}
      /\ open'[d] = c /\ \A e \in DOMAIN open : open'[e] = open[e] /\ e # d
  BY <1>4, <1>5 DEF Async!TypeOK
<1>9. Async!TypeOK'
  <2>1. hired' \in BOOLEAN BY <1>2, Zenon DEF Async!TypeOK
  <2>2. peer' \in [Clients -> {"out", "waiting", "in", "left"}] BY <1>1 DEF Async!TypeOK
  <2>3. newcomer' \subseteq Clients BY <1>1
  <2> QED BY <1>2, <1>7, <1>8, <2>1, <2>2, <2>3, Zenon DEF Async!TypeOK, Async!Slots, Async!Descriptors
<1>10. d \in Nat \ {0} BY <1>4, ClientsFinite
<1>11. Async!Newcomer' BY <1>1, <1>2, <1>6, <1>7, <1>10 DEF Async!Newcomer
<1>12. Async!Connected'
  <2>1. \A e \in Clients \ {c} : Async!Served(e)' <=> Async!Served(e)
    BY <1>1, <1>2 DEF Async!Served, Async!Serving, Async!Sending
  <2>2. Async!Served(c)' BY <1>1, <1>2 DEF Async!Served
  <2>3. ASSUME NEW e \in DOMAIN open' PROVE Async!Served(open[e])' /\ socket'[open'[e]] = e
    <3>1. CASE e = d BY <1>7, <1>8, <2>2, <3>1 DEF Async!Served
    <3>2. CASE e # d
      <4>1. e \in DOMAIN open /\ open'[e] = open[e] BY <1>8, <3>2
      <4>2. PICK a \in Clients : a = open[e] BY <4>1 DEF Async!TypeOK
      <4>3. Async!Served(a) /\ socket[a] = e
        <5>1. Async!Served(open[e]) /\ socket[open[e]] = e BY <4>1 DEF Async!Connected
        <5> QED BY <4>2, <5>1 DEF Async!Served
      <4>4. a # c BY <1>3, <4>3
      <4>5. Async!Served(a)' /\ socket'[a] = e BY <1>7, <2>1, <4>3, <4>4
      <4> QED BY <4>1, <4>2, <4>5 DEF Async!Served
    <3> QED BY <3>1, <3>2
  <2>4. ASSUME NEW e \in Clients, Async!Served(e)' PROVE socket'[e] \in DOMAIN open' /\ open'[socket'[e]] = e
    <3>1. CASE e = c BY <1>7, <1>8, <3>1
    <3>2. CASE e # c
      <4>1. Async!Served(e) /\ socket'[e] = socket[e] BY <1>7, <2>1, <2>4, <3>2
      <4>2. socket[e] \in DOMAIN open /\ open[socket[e]] = e BY <4>1 DEF Async!Connected
      <4> QED BY <1>8, <4>1, <4>2
    <3> QED BY <3>1, <3>2
  <2> QED BY <2>3, <2>4 DEF Async!Connected
<1>13. Async!Registered'
  <2> SUFFICES ASSUME NEW s \in Async!Slots, sockets[s] > 0
               PROVE \E e \in Clients : /\ slot'[e] = s /\ socket'[e] = sockets[s]
                                        /\ place[e] \in {"clear"} \cup Async!Serving
    BY <1>2 DEF Async!Registered, Async!Slots, Async!Serving, Async!Sending
  <2>1. PICK e \in Clients : slot[e] = s /\ socket[e] = sockets[s] /\ place[e] \in {"clear"} \cup Async!Serving
    BY DEF Async!Registered
  <2>2. e # c BY <1>1, <2>1, ServingIs
  <2> QED BY <1>7, <2>1, <2>2
<1>14. Async!Slotted'
  <2> SUFFICES ASSUME failures = 0
               PROVE /\ \A a \in Clients \ newcomer' : socket'[a] # 0 => slot'[a] < clients_num
                     /\ \A a, b \in Clients : a # b /\ socket'[a] # 0 /\ socket'[b] # 0 => slot'[a] # slot'[b]
                     /\ \A a \in Clients : place[a] \in Async!Serving => sockets[slot'[a]] = socket'[a]
    BY <1>2 DEF Async!Slotted, Async!Serving, Async!Sending
  <2>1. \A a \in Clients \ {c} : socket[a] # 0 => slot[a] < clients_num BY <1>2 DEF Async!Slotted
  <2>2. \A a \in Clients \ newcomer' : socket'[a] # 0 => slot'[a] < clients_num BY <1>1, <1>7, <2>1
  <2>3. ASSUME NEW a \in Clients \ {c}, socket[a] # 0 PROVE slot[a] # clients_num
    <3>1. slot[a] < clients_num BY <2>1, <2>3
    <3> QED BY <1>6, <3>1
  <2>4. \A a, b \in Clients : a # b /\ socket'[a] # 0 /\ socket'[b] # 0 => slot'[a] # slot'[b]
    <3>1. \A a, b \in Clients : a # b /\ socket[a] # 0 /\ socket[b] # 0 => slot[a] # slot[b] BY DEF Async!Slotted
    <3> QED BY <1>7, <2>3, <3>1
  <2>5. \A a \in Clients : place[a] \in Async!Serving => sockets[slot'[a]] = socket'[a]
    BY <1>1, <1>7, ServingIs DEF Async!Slotted
  <2> QED BY <2>2, <2>4, <2>5
<1>15. Async!Owed'
  <2> SUFFICES ASSUME failures = 0 PROVE \A e \in Clients : Async!OwedOf(e)' BY <1>2 DEF Async!Owed
  <2>1. \A e \in Clients : c \notin due'[e] BY <1>1, <1>2, ServingIs DEF Async!Owed, Async!OwedOf
  <2> QED BY <1>1, <1>2, <1>7, <2>1, ServingIs, OwedStays
<1>16. Counted'
  <2>1. {e \in Clients : socket'[e] # 0} \ newcomer' = {e \in Clients : socket[e] # 0} \ newcomer
    BY <1>1, <1>2, <1>7
  <2> QED BY <1>2, <2>1 DEF Counted
<1>17. Async!NoEcho' BY <1>2 DEF Async!NoEcho
<1>18. Hands'
  <2>1. \A e \in Clients \ {c} : place[e] = "load" => sockets'[index[e]] # socket[e]
    BY <1>2 DEF Hands, Async!InHand, Async!HandOf
  <2>2. Async!Bounded' BY <1>2, <1>6, AsyncAssumption DEF Async!Bounded
  <2>3. place[c] \notin Async!Sending BY <1>1, ServingIs
  <2> QED BY <1>1, <1>2, <1>7, <2>1, <2>2, <2>3, HandsStay
<1> QED BY <1>9, <1>11, <1>12, <1>13, <1>14, <1>15, <1>16, <1>17, <1>18

(* A newcomer without a thread is sent away.                               *)
LEMMA SentAway ==
  ASSUME Core, NEW c \in newcomer, ~ hired,
         place[c] = "none", place' = [place EXCEPT ![c] = "gone"], newcomer' = {}, hired' = hired,
         Async!Close(socket[c]), UNCHANGED <<sockets, slot, index, target>>,
         departed' = departed, Async!Bounded',
         \A e \in Clients \ {c} : socket'[e] = socket[e]
  PROVE  /\ place' \in [Clients -> Stations] /\ \A e \in Clients : place'[e] = IF e = c THEN "gone" ELSE place[e]
         /\ DOMAIN open' \subseteq Async!Descriptors /\ open' \in [DOMAIN open' -> Clients]
         /\ Async!Newcomer' /\ Async!Connected' /\ Async!Registered' /\ Hands'
<1> USE DEF Core
<1>1. c \in Clients /\ newcomer = {c} BY DEF Async!TypeOK, Async!Newcomer
<1>2. /\ place' \in [Clients -> Stations] /\ \A e \in Clients : place'[e] = IF e = c THEN "gone" ELSE place[e]
  BY <1>1 DEF Async!TypeOK, Stations
<1>3. Async!Served(c) /\ ~ Async!Served(c)' /\ \A e \in Clients \ {c} : Async!Served(e)' <=> Async!Served(e)
  BY <1>1, <1>2, ServingIs DEF Async!Served, Async!Serving, Async!Sending
<1>4. Async!Connected' /\ DOMAIN open' \subseteq Async!Descriptors /\ open' \in [DOMAIN open' -> Clients]
  BY <1>1, <1>3, Closed
<1>5. Async!Newcomer' BY <1>1, <1>2 DEF Async!Newcomer
<1>6. Async!Registered'
  <2> SUFFICES ASSUME NEW s \in Async!Slots, sockets[s] > 0
               PROVE \E e \in Clients : /\ slot[e] = s /\ socket'[e] = sockets[s]
                                        /\ place'[e] \in {"clear"} \cup Async!Serving
    BY DEF Async!Registered, Async!Slots, Async!Serving, Async!Sending
  <2>1. PICK e \in Clients : slot[e] = s /\ socket[e] = sockets[s] /\ place[e] \in {"clear"} \cup Async!Serving
    BY DEF Async!Registered
  <2>2. e # c BY <2>1, ServingIs
  <2> QED BY <1>2, <2>1, <2>2
<1>7. Hands'
  <2>1. \A e \in Clients \ {c} : place[e] = "load" => sockets'[index[e]] # socket[e]
    BY DEF Hands, Async!InHand, Async!HandOf
  <2>2. place[c] \notin Async!Sending /\ place'[c] \notin Async!Sending BY <1>1, <1>2, ServingIs
  <2> QED BY <1>1, <1>2, <2>1, <2>2, HandsStay
<1> QED BY <1>2, <1>4, <1>5, <1>6, <1>7

LEMMA MallocFailsKeeps == Core /\ Async!MallocFails => Core'
<1> SUFFICES ASSUME Core, Async!MallocFails PROVE Core' OBVIOUS
<1> USE DEF Core
<1>1. PICK c \in newcomer : /\ place[c] = "none" /\ place' = [place EXCEPT ![c] = "gone"]
                            /\ Async!Close(socket[c]) /\ socket' = [socket EXCEPT ![c] = 0]
  BY DEF Async!MallocFails, Async!Goto
<1>2. /\ ~ hired /\ newcomer' = {}
      /\ UNCHANGED <<clients_num, sockets, hired, peer, unread, slot, index, target, due, echoed, departed, failures, life>>
  BY DEF Async!MallocFails, Async!ghost
<1>3. c \in Clients /\ newcomer = {c} BY DEF Async!TypeOK, Async!Newcomer
<1>4. /\ socket' \in [Clients -> Async!Descriptors \cup {0}]
      /\ \A e \in Clients : socket'[e] = IF e = c THEN 0 ELSE socket[e]
  BY <1>1, <1>3 DEF Async!TypeOK
<1>5. /\ place' \in [Clients -> Stations] /\ \A e \in Clients : place'[e] = IF e = c THEN "gone" ELSE place[e]
      /\ DOMAIN open' \subseteq Async!Descriptors /\ open' \in [DOMAIN open' -> Clients]
      /\ Async!Newcomer' /\ Async!Connected' /\ Async!Registered' /\ Hands'
  <2>1. Async!Bounded'
    <3>1. clients_num < MAX_NUM_CLIENTS /\ clients_num \in 0 .. 255 BY <1>3 DEF Async!Newcomer, Async!TypeOK
    <3> QED BY <1>2, <3>1, AsyncAssumption DEF Async!Bounded
  <2> QED BY <1>1, <1>2, <1>4, <2>1, SentAway
<1>6. Async!TypeOK'
  <2>1. hired' \in BOOLEAN BY <1>2, Zenon DEF Async!TypeOK
  <2>2. newcomer' \subseteq Clients BY <1>2
  <2> QED BY <1>2, <1>4, <1>5, <2>1, <2>2, Zenon DEF Async!TypeOK, Async!Slots, Async!Descriptors, Stations
<1>7. Async!Slotted'
  <2>1. \A e \in Clients : place'[e] \in Async!Serving => place[e] \in Async!Serving /\ e # c BY <1>1, <1>5, ServingIs
  <2> QED BY <1>1, <1>2, <1>3, <1>4, <1>5, <2>1 DEF Async!Slotted, Async!Serving, Async!Sending
<1>8. Async!Owed'
  <2> SUFFICES ASSUME failures = 0 PROVE \A e \in Clients : Async!OwedOf(e)' BY <1>2 DEF Async!Owed
  <2>1. \A e \in Clients : c \notin due'[e] BY <1>1, <1>2, ServingIs DEF Async!Owed, Async!OwedOf
  <2>2. index' = index /\ target' = target /\ slot' = slot /\ due' = due /\ clients_num' = clients_num BY <1>2
  <2> QED BY <1>1, <1>3, <1>4, <1>5, <2>1, <2>2, ServingIs, OwedStays
<1>9. Counted'
  <2>1. {e \in Clients : socket'[e] # 0} \ newcomer' = {e \in Clients : socket[e] # 0} \ newcomer
    BY <1>2, <1>3, <1>4
  <2> QED BY <1>2, <2>1 DEF Counted
<1>10. Async!NoEcho' BY <1>2 DEF Async!NoEcho
<1> QED BY <1>5, <1>6, <1>7, <1>8, <1>9, <1>10

LEMMA PthreadCreateKeeps == Core /\ Async!PthreadCreate => Core'
<1> SUFFICES ASSUME Core, Async!PthreadCreate PROVE Core' OBVIOUS
<1> USE DEF Core
<1>1. PICK c \in newcomer : place[c] = "none" /\ place' = [place EXCEPT ![c] = "register"]
  BY DEF Async!PthreadCreate, Async!Goto
<1>2. /\ ~ hired /\ hired' = TRUE
      /\ UNCHANGED <<clients_num, sockets, newcomer, open, peer, unread, slot, socket, index, target, due, echoed, departed, failures, life>>
  BY DEF Async!PthreadCreate, Async!thread, Async!ghost
<1>3. c \in Clients /\ newcomer = {c} BY DEF Async!TypeOK, Async!Newcomer
<1>4. /\ place' \in [Clients -> Stations]
      /\ \A e \in Clients : place'[e] = IF e = c THEN "register" ELSE place[e]
  BY <1>1, <1>3 DEF Async!TypeOK, Stations
<1>5. Async!TypeOK'
  <2>1. hired' \in BOOLEAN BY <1>2, Zenon
  <2> QED BY <1>2, <1>4, <2>1, Zenon DEF Async!TypeOK, Async!Slots, Stations
<1>6. Async!Newcomer' BY <1>1, <1>2, <1>3, <1>4 DEF Async!Newcomer
<1>7. Async!Connected'
  <2>1. \A e \in Clients : Async!Served(e)' <=> Async!Served(e)
    BY <1>1, <1>2, <1>3, <1>4, ServingIs DEF Async!Served, Async!Serving, Async!Sending
  <2>2. \A d \in DOMAIN open : open[d] \in Clients BY DEF Async!TypeOK
  <2> QED BY <1>2, <2>1, <2>2 DEF Async!Connected
<1>8. Async!Registered'
  <2>1. \A e \in Clients : place[e] \in {"clear"} \cup Async!Serving => place'[e] \in {"clear"} \cup Async!Serving
    BY <1>1, <1>4, ServingIs
  <2> QED BY <1>2, <2>1 DEF Async!Registered, Async!Slots, Async!Serving, Async!Sending
<1>9. Async!Slotted'
  <2>1. \A e \in Clients : place'[e] \in Async!Serving => place[e] \in Async!Serving BY <1>4, ServingIs
  <2> QED BY <1>2, <2>1 DEF Async!Slotted, Async!Serving, Async!Sending
<1>10. Async!Owed'
  <2> SUFFICES ASSUME failures = 0 PROVE \A e \in Clients : Async!OwedOf(e)' BY <1>2 DEF Async!Owed
  <2>1. \A e \in Clients : c \notin due'[e] BY <1>1, <1>2, <1>3, ServingIs DEF Async!Owed, Async!OwedOf
  <2> QED BY <1>1, <1>2, <1>3, <1>4, <2>1, ServingIs, OwedStays
<1>11. Counted' /\ Async!NoEcho' BY <1>2 DEF Counted, Async!NoEcho
<1>12. Hands'
  <2>1. \A e \in Clients \ {c} : place[e] = "load" => sockets'[index[e]] # socket[e]
    BY <1>2 DEF Hands, Async!InHand, Async!HandOf
  <2>2. Async!Bounded'
    <3>1. clients_num < MAX_NUM_CLIENTS /\ clients_num \in 0 .. 255 BY <1>3 DEF Async!Newcomer, Async!TypeOK
    <3> QED BY <1>2, <3>1, AsyncAssumption DEF Async!Bounded
  <2>3. place[c] \notin Async!Sending /\ place'[c] \notin Async!Sending BY <1>1, <1>3, <1>4, ServingIs
  <2> QED BY <1>1, <1>2, <1>3, <1>4, <2>1, <2>2, <2>3, HandsStay
<1> QED BY <1>5, <1>6, <1>7, <1>8, <1>9, <1>10, <1>11, <1>12

LEMMA CreateFailsKeeps == Core /\ Async!CreateFails => Core'
<1> SUFFICES ASSUME Core, Async!CreateFails PROVE Core' OBVIOUS
<1> USE DEF Core
<1>1. PICK c \in newcomer : /\ place[c] = "none" /\ place' = [place EXCEPT ![c] = "gone"]
                            /\ Async!Close(socket[c]) /\ due' = [d \in Clients |-> due[d] \ {c}]
  BY DEF Async!CreateFails, Async!Goto
<1>2. /\ ~ hired /\ newcomer' = {} /\ failures < FAILURES /\ failures' = failures + 1
      /\ clients_num' = (clients_num - 1) % 256
      /\ UNCHANGED <<sockets, hired, peer, unread, slot, socket, index, target, echoed, departed, life>>
  BY DEF Async!CreateFails, Async!thread
<1>3. c \in Clients /\ newcomer = {c} BY DEF Async!TypeOK, Async!Newcomer
<1>4. /\ place' \in [Clients -> Stations] /\ \A e \in Clients : place'[e] = IF e = c THEN "gone" ELSE place[e]
      /\ DOMAIN open' \subseteq Async!Descriptors /\ open' \in [DOMAIN open' -> Clients]
      /\ Async!Newcomer' /\ Async!Connected' /\ Async!Registered' /\ Hands'
  <2>1. clients_num \in 0 .. 255 /\ clients_num < MAX_NUM_CLIENTS /\ failures \in 0 .. FAILURES
    BY <1>3 DEF Async!TypeOK, Async!Newcomer
  <2>2. CASE clients_num > 0
    <3>1. clients_num' <= MAX_NUM_CLIENTS BY <1>2, <2>1, <2>2, AsyncAssumption
    <3>2. Async!Bounded' BY <3>1 DEF Async!Bounded
    <3> QED BY <1>1, <1>2, <3>2, SentAway
  (* Below 0: nobody has come before.                                      *)
  <2>3. CASE clients_num = 0
    <3>1. failures = 0 BY <1>2, <2>1, AsyncAssumption
    <3>2. \A e \in Clients : slot[e] \in Nat BY DEF Async!TypeOK, Async!Slots
    <3>3. \A e \in Clients \ {c} : socket[e] = 0 BY <1>3, <2>3, <3>1, <3>2 DEF Async!Slotted
    <3>4. \A e \in Clients \ {c} : place[e] \in {"none", "gone"} BY <3>3 DEF Async!Newcomer
    <3>5. \A e \in Clients : place'[e] \in {"none", "gone"} BY <1>1, <1>3, <3>4 DEF Async!TypeOK
    <3>6. Async!Bounded' BY <3>5 DEF Async!Bounded
    <3> QED BY <1>1, <1>2, <3>6, SentAway
  <2> QED BY <2>1, <2>2, <2>3
<1>5. failures' \in 0 .. FAILURES /\ failures' # 0
  <2>1. failures \in 0 .. FAILURES BY DEF Async!TypeOK
  <2> QED BY <1>2, <2>1, AsyncAssumption
<1>6. clients_num' \in 0 .. 255
  <2>1. clients_num \in 0 .. 255 BY DEF Async!TypeOK
  <2> QED BY <1>2, <2>1
<1>7. Async!TypeOK'
  <2>1. hired' \in BOOLEAN BY <1>2, Zenon DEF Async!TypeOK
  <2>2. newcomer' \subseteq Clients BY <1>2
  <2>3. due' \in [Clients -> SUBSET Clients] BY <1>1 DEF Async!TypeOK
  <2> QED BY <1>2, <1>4, <1>5, <1>6, <2>1, <2>2, <2>3, Zenon DEF Async!TypeOK, Async!Slots, Async!Descriptors, Stations
<1>8. Async!Slotted' /\ Async!Owed' /\ Counted' BY <1>5 DEF Async!Slotted, Async!Owed, Counted
<1>9. Async!NoEcho' BY <1>2 DEF Async!NoEcho
<1> QED BY <1>4, <1>7, <1>8, <1>9

LEMMA CountKeeps == Core /\ Async!Count => Core'
<1> SUFFICES ASSUME Core, Async!Count PROVE Core' OBVIOUS
<1> USE DEF Core
<1>1. /\ hired /\ hired' = FALSE /\ newcomer' = {} /\ clients_num' = clients_num + 1
      /\ UNCHANGED <<sockets, open, peer, unread, place, slot, socket, index, target, due, echoed, departed, failures, life>>
  BY DEF Async!Count, Async!thread, Async!ghost
<1>2. PICK c \in Clients : newcomer = {c} /\ socket[c] # 0 /\ slot[c] = clients_num /\ place[c] # "none"
  BY <1>1 DEF Async!TypeOK, Async!Newcomer
<1>3. clients_num \in 0 .. 255 /\ clients_num' \in 0 .. 255
  <2>1. clients_num \in 0 .. 255 BY DEF Async!TypeOK
  <2>2. clients_num < MAX_NUM_CLIENTS BY <1>2 DEF Async!Newcomer
  <2> QED BY <1>1, <2>1, <2>2, AsyncAssumption
<1>4. Async!TypeOK'
  <2>1. hired' \in BOOLEAN BY <1>1, Zenon
  <2>2. newcomer' \subseteq Clients BY <1>1
  <2> QED BY <1>1, <1>3, <2>1, <2>2, Zenon DEF Async!TypeOK, Async!Slots
<1>5. Async!Newcomer' BY <1>1, <1>2 DEF Async!Newcomer
<1>6. Async!Connected'
  <2>1. \A e \in Clients : Async!Served(e)' <=> Async!Served(e)
    BY <1>1, <1>2 DEF Async!Served, Async!Serving, Async!Sending
  <2>2. \A d \in DOMAIN open : open[d] \in Clients BY DEF Async!TypeOK
  <2> QED BY <1>1, <2>1, <2>2 DEF Async!Connected
<1>7. Async!Registered' BY <1>1 DEF Async!Registered, Async!Slots, Async!Serving, Async!Sending
<1>8. \A e \in Clients : slot[e] \in Int /\ slot[e] < clients_num => slot[e] < clients_num' BY <1>1, <1>3
<1>9. \A e \in Clients : slot[e] \in Int
  <2>1. \A e \in Clients : slot[e] \in Async!Slots BY DEF Async!TypeOK
  <2> QED BY <2>1 DEF Async!Slots
<1>10. Async!Slotted'
  <2>1. slot[c] < clients_num' BY <1>1, <1>2, <1>3
  <2> QED BY <1>1, <1>2, <1>8, <1>9, <2>1 DEF Async!Slotted, Async!Serving, Async!Sending
<1>11. Async!Owed'
  <2> SUFFICES ASSUME failures = 0, NEW e \in Clients PROVE Async!OwedOf(e)' BY <1>1 DEF Async!Owed
  <2>1. Async!OwedOf(e) BY DEF Async!Owed
  <2>2. \A d \in due[e] : d \in Clients BY DEF Async!TypeOK
  <2>3. \A d \in due[e] : slot[d] < clients_num' BY <1>8, <1>9, <2>1, <2>2 DEF Async!OwedOf
  <2> QED BY <1>1, <2>1, <2>3 DEF Async!OwedOf, Async!Serving, Async!Sending
<1>12. Counted'
  <2> DEFINE seated == {e \in Clients : socket[e] # 0} \ newcomer
  <2>1. IsFiniteSet(seated) /\ Cardinality(seated) \in Nat
    <3>1. seated \in SUBSET Clients OBVIOUS
    <3> HIDE DEF seated
    <3> QED BY <3>1, ClientsFinite, FS_Subset, FS_CardinalityType
  <2>2. ({e \in Clients : socket[e] # 0} \ newcomer)' = seated \cup {c} /\ c \notin seated BY <1>1, <1>2
  <2> HIDE DEF seated
  <2>3. Cardinality(seated \cup {c}) = Cardinality(seated) + 1 BY <2>1, <2>2, FS_AddElement
  <2>4. failures = 0 => clients_num = Cardinality(seated) BY DEF Counted, seated
  <2> QED BY <1>1, <2>2, <2>3, <2>4 DEF Counted
<1>13. Async!NoEcho' BY <1>1 DEF Async!NoEcho
<1>14. Hands'
  <2>1. clients_num' <= MAX_NUM_CLIENTS BY <1>1, <1>2, <1>3, AsyncAssumption DEF Async!Newcomer
  <2>2. Async!Bounded' BY <2>1 DEF Async!Bounded
  <2>3. Async!Departures' BY <1>1 DEF Hands, Async!Departures, Async!Sending
  <2>4. Async!InHand' BY <1>1 DEF Hands, Async!InHand, Async!HandOf, Async!Slots, Async!Serving, Async!Sending
  <2> QED BY <2>2, <2>3, <2>4 DEF Hands
<1> QED BY <1>4, <1>5, <1>6, <1>7, <1>10, <1>11, <1>12, <1>13, <1>14

LEMMA AsyncStep == Core /\ [Async!Next]_asyncVars => Core'
<1> SUFFICES ASSUME Core, [Async!Next]_asyncVars PROVE Core' OBVIOUS
<1>0. /\ peer \in [Clients -> {"out", "waiting", "in", "left"}] /\ unread \in [Clients -> 0 .. SAYS]
      /\ life \in Lives
  BY DEF Core, Async!TypeOK, Lives
<1>1. CASE Async!Listen BY <1>0, <1>1, Elsewhere DEF Async!Listen, Async!main, Async!thread, Async!ghost, Lives
<1>2. CASE Async!Accept BY <1>2, AcceptKeeps
<1>3. CASE Async!MallocFails BY <1>3, MallocFailsKeeps
<1>4. CASE Async!PthreadCreate BY <1>4, PthreadCreateKeeps
<1>5. CASE Async!CreateFails BY <1>5, CreateFailsKeeps
<1>6. CASE Async!Count BY <1>6, CountKeeps
<1>7. ASSUME NEW c \in Clients, Async!Dial(c) PROVE Core'
  <2>1. /\ peer' = [peer EXCEPT ![c] = "waiting"] /\ unread' = [unread EXCEPT ![c] = SAYS]
        /\ UNCHANGED <<clients_num, sockets, newcomer, hired, open, place, slot, socket, index, target, due, echoed, departed, failures, life>>
    BY <1>7 DEF Async!Dial, Async!main, Async!thread, Async!ghost
  <2>2. unread' \in [Clients -> 0 .. SAYS]
    <3>1. SAYS \in 0 .. SAYS BY AsyncAssumption
    <3> QED BY <1>0, <2>1, <3>1
  <2>3. peer' \in [Clients -> {"out", "waiting", "in", "left"}] BY <1>0, <2>1
  <2> QED BY <1>0, <2>1, <2>2, <2>3, Elsewhere
<1>8. ASSUME NEW c \in Clients, Async!Hang(c) PROVE Core'
  <2>1. /\ peer' = [peer EXCEPT ![c] = "left"]
        /\ UNCHANGED <<clients_num, sockets, newcomer, hired, open, unread, place, slot, socket, index, target, due, echoed,
                       departed, failures, life>>
    BY <1>8 DEF Async!Hang, Async!main, Async!thread, Async!ghost
  <2>2. peer' \in [Clients -> {"out", "waiting", "in", "left"}] BY <1>0, <2>1
  <2> QED BY <1>0, <2>1, <2>2, Elsewhere
<1>9. ASSUME NEW c \in Clients, Async!thread_func(c) PROVE Core'
  <2> QED BY <1>9, RegisterKeeps, AsyncReadKeeps, AsyncSendKeeps, LeaveKeeps, ClearKeeps DEF Async!thread_func
<1>10. CASE UNCHANGED asyncVars BY <1>0, <1>10, Elsewhere DEF asyncVars
<1>11. CASE Async!Idle BY <1>0, <1>11, Elsewhere DEF Async!Idle, Async!vars
<1>12. CASE Async!DetachFreed
  BY <1>0, <1>12, Elsewhere DEF Async!DetachFreed, Async!main, Async!thread, Async!ghost, Lives
<1> QED BY <1>1, <1>2, <1>3, <1>4, <1>5, <1>6, <1>7, <1>8, <1>9, <1>10, <1>11, <1>12 DEF Async!Next

-------------------------------------------------------------------------------
(* The queue programs keep their messages, for any number of clients and   *)
(* however they overtake each other: the chat has as many turns to talk    *)
(* (those in the queue, those with a process) as clients have come, and an *)
(* example gives its one answer to one client.                             *)
THEOREM MessagesAlwaysCounted == Programs => []MessagesCounted
<1>1. Boot => MessagesCounted BY ChatInit, ExampleInit DEF Boot, MessagesCounted
<1>2. MessagesCounted /\ [Step]_all => MessagesCounted'
  BY OneRuns, ChatStep, ExampleStep DEF MessagesCounted
<1> QED BY <1>1, <1>2, PTL DEF Programs, Step

LEMMA CoreAlways == Programs => []Core
<1>1. Boot => Core BY AsyncInit DEF Boot
<1>2. Core /\ [Step]_all => Core' BY OneRuns, AsyncStep
<1> QED BY <1>1, <1>2, PTL DEF Programs, Step

(* The threads of async_server share clients_num and sockets[] without a   *)
(* lock, and still no two use the same slot while pthread_create does not  *)
(* fail, for any number of clients, slots and messages.                    *)
THEOREM SlotsAlwaysDistinct == Programs => []SlotsDistinct
<1>1. Core => SlotsDistinct BY Derived DEF SlotsDistinct, Async!IInv
<1> QED BY <1>1, CoreAlways, PTL

(* What a client says reaches everybody present who has not left before,   *)
(* nobody hears himself, and who hears it through a slot that is not his   *)
(* has the descriptor of its owner, who has departed since it was read.    *)
THEOREM AlwaysHeardOnce == Programs => []HeardOnce
<1>1. Core => HeardOnce BY Derived DEF HeardOnce
<1> QED BY <1>1, CoreAlways, PTL

(* socket_server prints what has been sent, in order, ends with the "quit" *)
(* that is a message of its own, and writes behind buf only for lines that *)
(* are too long, for any size of buf and any conversation.                 *)
THEOREM AlwaysReadInOrder == Programs => []ReadInOrder
<1>1. Boot => ReadInOrder BY SingleInit DEF Boot, ReadInOrder
<1>2. ReadInOrder /\ [Step]_all => ReadInOrder' BY OneRuns, SingleStep DEF ReadInOrder
<1> QED BY <1>1, <1>2, PTL DEF Programs, Step

===============================================================================
