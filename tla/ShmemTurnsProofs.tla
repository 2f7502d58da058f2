--------------------------- MODULE ShmemTurnsProofs ---------------------------
(***************************************************************************)
(* The locks and turn of shmemserv.c and shmemcli.c keep the two processes *)
(* apart when every store takes effect at once; readlast makes them read   *)
(* in turns whether or not it does.                                        *)
(***************************************************************************)
EXTENDS ShmemTurns, TLAPS

(* Without store buffers a load reads memory.                              *)
LEMMA LoadsAreFromMemory ==
  ASSUME buffer = [p \in Procs |-> <<>>], NEW p \in Procs, NEW f
  PROVE  Value(p, f) = mem[f]
<1>1. buffer[p] = <<>> OBVIOUS
<1>2. Len(buffer[p]) = 0 BY <1>1
<1>3. Pending(p, f) = {} BY <1>2, SMT DEF Pending
<1> QED BY <1>3 DEF Value

(* Two that are in the section have each been given the turn.              *)
LEMMA LocksExclude == ASSUME TypeOK, AtOnce PROVE ~ \A p \in Procs : pc[p] \in Section
BY DEF TypeOK, AtOnce, Holding, Yielded, Section, Procs, Other, PCs

(* The invariant holds at first.                                           *)
LEMMA InitHolds == Init => IInv
<1> SUFFICES ASSUME Init PROVE IInv OBVIOUS
<1>1. mem \in [Fields -> Values]
  <2>1. \A f \in Fields : mem[f] \in Values
    BY DEF Init, Values, Fields, Procs, Texts, FREE, BUSY
  <2>2. mem = [f \in Fields |-> mem[f]] BY DEF Init
  <2> QED BY <2>1, <2>2
<1>2. mem["turn"] \in Procs BY DEF Init, Fields, Procs
<1>3. \A p \in Procs : pc[p] = "test" BY DEF Init
<1>4. Holding /\ Yielded BY <1>3 DEF Holding, Yielded, Section
<1>5. pc \in [Procs -> PCs] BY DEF Init, PCs
<1>6. buffer \in [Procs -> Seq(Stores)] BY DEF Init
<1>7. room \in {0, BUFFER} /\ buffer = [p \in Procs |-> <<>>] BY DEF Init
<1>8. reads \in [Procs -> Nat] BY DEF Init
<1>9. TypeOK /\ AtOnce BY <1>1, <1>2, <1>4, <1>5, <1>6, <1>7, <1>8 DEF AtOnce, TypeOK
<1>10. "server" \in Procs /\ "client" \in Procs BY DEF Procs
<1>11. LastReader = "server" BY <1>10 DEF Init, LastReader
<1>12. mem["readlast"] = "server" /\ mem["string"] = "hello" BY DEF Init, Fields
<1>13. Alternating
  <2>1. \A p \in Procs : buffer[p] = <<>> BY <1>7
  <2>2. \A p \in Procs : Pending(p, "readlast") = {} BY <2>1, SMT DEF Pending
  <2>3. reads["client"] - reads["server"] = 0 BY <1>10 DEF Init
  <2> QED BY <1>3, <1>10, <1>11, <1>12, <2>2, <2>3 DEF Alternating, Other
<1>14. Talking
  <2>1. misread = {} BY DEF Init
  <2> QED BY <1>3, <1>10, <1>11, <1>12, <2>1 DEF Talking, Answering, Asking, Messages
<1> QED BY <1>9, <1>13, <1>14, LocksExclude DEF IInv, MutualExclusion

(* Whether or not stores can wait, every step keeps the types.             *)
LEMMA StoreType ==
  ASSUME TypeOK, NEW p \in Procs, NEW f \in Fields, NEW v \in Values, Store(p, f, v)
  PROVE  mem' \in [Fields -> Values] /\ buffer' \in [Procs -> Seq(Stores)]
<1>1. CASE room = 0
  BY <1>1 DEF Store, TypeOK
<1>2. CASE room # 0
  <2>1. [field |-> f, value |-> v] \in Stores BY DEF Stores
  <2>2. Append(buffer[p], [field |-> f, value |-> v]) \in Seq(Stores)
    BY <2>1 DEF TypeOK
  <2> QED BY <1>2, <2>2 DEF Store, TypeOK
<1> QED BY <1>1, <1>2

LEMMA TypeStep ==
  ASSUME TypeOK, [Next]_vars
  PROVE  TypeOK' /\ room' = room
<1> DEFINE MemType == mem \in [Fields -> Values] /\ buffer \in [Procs -> Seq(Stores)]
<1> DEFINE PcType  == pc \in [Procs -> PCs] /\ reads \in [Procs -> Nat]
<1>0. MemType /\ PcType BY DEF TypeOK
<1>1. CASE UNCHANGED vars \/ Ended
  BY <1>1 DEF vars, Ended, TypeOK
<1>2. ASSUME NEW p \in Procs, Flush(p) PROVE MemType' /\ PcType' /\ room' = room
  <2>1. Head(buffer[p]) \in Stores /\ Tail(buffer[p]) \in Seq(Stores)
    BY <1>0, <1>2 DEF Flush
  <2> QED BY <1>0, <1>2, <2>1 DEF Flush, Stores
<1>3. ASSUME NEW p \in Procs, Loop(p) PROVE MemType' /\ PcType' /\ room' = room
  <2>0. pc' \in [Procs -> PCs] /\ room' = room
    BY <1>0, <1>3 DEF Loop, Test, SetLock, SetTurn, Await, Check, Take, Show, Unlock, Goto, PCs, Section
  <2>a. reads' = reads \/ reads' = [reads EXCEPT ![p] = @ + 1]
    BY <1>3 DEF Loop, Test, SetLock, SetTurn, Await, Check, Take, Show, Unlock
  <2>b. reads' \in [Procs -> Nat]
    <3>1. \A q \in Procs : reads[q] \in Nat /\ reads[q] + 1 \in Nat BY <1>0
    <3> QED BY <1>0, <2>a, <3>1
  <2>1. PcType' /\ room' = room BY <2>0, <2>b
  <2>2. CASE UNCHANGED <<mem, buffer>> BY <1>0, <2>1, <2>2
  <2>3. CASE \E f \in Fields, v \in Values : Store(p, f, v) BY <2>1, <2>3, StoreType
  <2>4. UNCHANGED <<mem, buffer>> \/ \E f \in Fields, v \in Values : Store(p, f, v)
    <3>1. /\ Lock[p] \in Fields /\ "turn" \in Fields /\ "readlast" \in Fields
          /\ FREE \in Values /\ BUSY \in Values /\ p \in Values /\ Other(p) \in Values
      BY DEF Lock, Fields, Values, Procs, Other
    <3> QED BY <1>3, <3>1 DEF Loop, Test, SetLock, SetTurn, Await, Check, Take, Show, Unlock
  <2> QED BY <2>1, <2>2, <2>3, <2>4
<1>4. ASSUME Reply \/ Type \/ Typed PROVE MemType' /\ PcType' /\ room' = room
  <2>1. PcType' /\ room' = room
    BY <1>0, <1>4 DEF Reply, Type, Typed, Goto, PCs, Section
  <2>2. /\ "string" \in Fields /\ {"ok", "part", "line", "q"} \subseteq Values
        /\ "server" \in Procs /\ "client" \in Procs
    BY DEF Fields, Values, Texts, Procs
  <2>3. MemType' BY <1>0, <1>4, <2>2, StoreType DEF Reply, Type, Typed
  <2> QED BY <2>1, <2>3
<1>5. ASSUME MemType', PcType', room' = room PROVE TypeOK' BY <1>5 DEF TypeOK
<1>6. "server" \in Procs /\ "client" \in Procs BY DEF Procs
<1> QED
  <2>1. CASE (\E p \in Procs : Flush(p)) \/ (\E p \in Procs : Loop(p)) BY <1>2, <1>3, <1>5, <2>1
  <2>2. CASE Reply \/ Type \/ Typed
    <3>1. MemType' /\ PcType' /\ room' = room BY <1>4, <2>2
    <3> QED BY <3>1, <1>5
  <2> QED BY <1>1, <1>6, <2>1, <2>2 DEF Next, shmemserv, shmemcli

(* When no store waits, every step keeps the locks and the turn.           *)
LEMMA StepHolds ==
  ASSUME TypeOK, room = 0, AtOnce, [Next]_vars
  PROVE  AtOnce'
<1> USE DEF AtOnce
<1>v. \A p \in Procs : \A f \in Fields : Value(p, f) = mem[f] BY LoadsAreFromMemory
<1>o. \A p \in Procs : Other(p) \in Procs /\ Other(p) # p /\ Other(Other(p)) = p
  BY DEF Procs, Other
<1>l. \A p \in Procs : Lock[p] \in Fields /\ Lock[p] # "turn" /\ Lock[p] # "readlast"
                       /\ Lock[p] # "string" /\ Lock[p] # Lock[Other(p)]
  BY DEF Procs, Lock, Fields, Other
<1>f. {"turn", "readlast", "string"} \subseteq Fields BY DEF Fields
<1>s. ASSUME NEW p \in Procs, NEW f \in Fields, NEW v, Store(p, f, v)
      PROVE  mem' = [mem EXCEPT ![f] = v] /\ buffer' = buffer
  BY <1>s DEF Store
<1>t. mem \in [Fields -> Values] /\ pc \in [Procs -> PCs] BY DEF TypeOK
(* A step that touches neither the locks nor the turn and stays inside or  *)
(* goes back to the test.                                                  *)
<1>w. ASSUME NEW p \in Procs, NEW from \in PCs, NEW to \in {"test", "lock", "done"} \cup Section,
             Goto(p, from, to), to \in Section => from \in Section,
             mem'["turn"] = mem["turn"], \A q \in Procs : mem'[Lock[q]] = mem[Lock[q]], buffer' = buffer
      PROVE  AtOnce'
  <2>1. Holding' BY <1>w, <1>t DEF Goto, Holding, Section
  <2>2. Yielded' BY <1>w, <1>t, <1>o DEF Goto, Yielded, Section, Procs, Other
  <2> QED BY <1>w, <2>1, <2>2
<1>1. CASE UNCHANGED vars \/ Ended
  BY <1>1 DEF Ended, vars, Holding, Yielded, Other
<1>2. ASSUME NEW p \in Procs, Test(p) \/ Check(p) \/ Show(p) PROVE AtOnce'
  <2>1. PICK from \in PCs, to \in {"test", "lock", "done"} \cup Section :
             Goto(p, from, to) /\ (to \in Section => from \in Section)
    BY <1>2 DEF Test, Check, Show, PCs, Section
  <2>2. UNCHANGED <<mem, buffer>> BY <1>2 DEF Test, Check, Show
  <2> QED BY <2>1, <2>2, <1>w
<1>3. ASSUME NEW p \in Procs, SetLock(p) PROVE AtOnce'
  <2>1. mem' = [mem EXCEPT ![Lock[p]] = BUSY] /\ buffer' = buffer
    BY <1>3, <1>s, <1>l DEF SetLock
  <2>2. Holding' BY <1>3, <2>1, <1>l, <1>o, <1>t DEF SetLock, Goto, Holding, Section, Procs, Other
  <2>3. mem'["turn"] = mem["turn"] BY <2>1, <1>l, <1>f, <1>t
  <2>4. Yielded' BY <1>3, <2>3, <1>o, <1>t DEF SetLock, Goto, Yielded, Section, Procs, Other
  <2> QED BY <2>1, <2>2, <2>3, <2>4
<1>4. ASSUME NEW p \in Procs, SetTurn(p) PROVE AtOnce'
  <2>1. mem' = [mem EXCEPT !["turn"] = Other(p)] /\ buffer' = buffer
    BY <1>4, <1>s, <1>f DEF SetTurn
  <2>2. Holding' BY <1>4, <2>1, <1>l, <1>t DEF SetTurn, Goto, Holding, Section
  <2>3. mem'["turn"] = Other(p) BY <2>1, <1>f, <1>t
  <2>4. Yielded' BY <1>4, <2>3, <1>o, <1>t DEF SetTurn, Goto, Yielded, Section, Procs, Other
  <2> QED BY <2>1, <2>2, <2>3, <2>4, <1>o
<1>5. ASSUME NEW p \in Procs, Await(p) PROVE AtOnce'
  <2>0. UNCHANGED <<mem, buffer>> BY <1>5 DEF Await
  <2>1. CASE Goto(p, "other", IF Value(p, Lock[Other(p)]) = BUSY THEN "mine" ELSE "check")
    <3>1. Goto(p, "other", IF mem[Lock[Other(p)]] = BUSY THEN "mine" ELSE "check") BY <2>1, <1>v, <1>l, <1>o
    <3>2. Holding' BY <3>1, <2>0, <1>t DEF Goto, Holding, Section
    <3>3. CASE mem[Lock[Other(p)]] = BUSY
      <4>1. Yielded' BY <3>1, <3>3, <2>0, <1>o, <1>t DEF Goto, Yielded, Section, Procs, Other
      <4> QED BY <3>2, <4>1, <2>0
    <3>4. CASE mem[Lock[Other(p)]] # BUSY
      <4>1. pc[Other(p)] \in {"test", "lock", "done"} BY <3>4, <1>o, <1>t DEF Holding, PCs, Section
      <4>2. Yielded' BY <3>1, <3>4, <4>1, <2>0, <1>o, <1>t DEF Goto, Yielded, Section, Procs, Other
      <4> QED BY <3>2, <4>2, <2>0
    <3> QED BY <3>3, <3>4
  <2>2. CASE Goto(p, "mine", IF Value(p, "turn") = Other(p) THEN "other" ELSE "check")
    <3>1. Goto(p, "mine", IF mem["turn"] = Other(p) THEN "other" ELSE "check") BY <2>2, <1>v, <1>f
    <3>2. Holding' BY <3>1, <2>0, <1>t DEF Goto, Holding, Section
    <3>3. Yielded' BY <3>1, <2>0, <1>o, <1>t DEF Goto, Yielded, Section, Procs, Other
    <3> QED BY <3>2, <3>3, <2>0
  <2> QED BY <1>5, <2>1, <2>2 DEF Await
<1>6. ASSUME NEW p \in Procs, NEW from \in Section, NEW to \in Section, Goto(p, from, to),
             (\E f \in {"readlast", "string"}, v \in Values : Store(p, f, v)) \/ UNCHANGED <<mem, buffer>>
      PROVE  AtOnce'
  <2>1. buffer' = buffer /\ mem'["turn"] = mem["turn"] /\ (\A q \in Procs : mem'[Lock[q]] = mem[Lock[q]])
    <3>1. CASE UNCHANGED <<mem, buffer>> BY <3>1
    <3>2. CASE \E f \in {"readlast", "string"}, v \in Values : Store(p, f, v)
      <4>1. PICK f \in {"readlast", "string"}, v \in Values : Store(p, f, v) BY <3>2
      <4>2. mem' = [mem EXCEPT ![f] = v] /\ buffer' = buffer BY <4>1, <1>s, <1>f
      <4> QED BY <4>1, <4>2, <1>l, <1>f, <1>t
    <3> QED BY <1>6, <3>1, <3>2
  <2>2. from \in PCs /\ to \in {"test", "lock", "done"} \cup Section BY DEF PCs
  <2> QED BY <1>6, <2>1, <2>2, <1>w
<1>7. ASSUME NEW p \in Procs, Take(p) PROVE AtOnce'
  BY <1>6, <1>7 DEF Take, Section, Values
<1>8. ASSUME NEW p \in Procs, Unlock(p) PROVE AtOnce'
  <2>1. mem' = [mem EXCEPT ![Lock[p]] = FREE] /\ buffer' = buffer
    BY <1>8, <1>s, <1>l DEF Unlock
  <2>2. Holding' BY <1>8, <2>1, <1>l, <1>o, <1>t DEF Unlock, Goto, Holding, Section, Procs, Other
  <2>3. mem'["turn"] = mem["turn"] BY <2>1, <1>l, <1>f, <1>t
  <2>4. Yielded' BY <1>8, <2>3, <1>o, <1>t DEF Unlock, Goto, Yielded, Section, Procs, Other
  <2> QED BY <2>1, <2>2, <2>3, <2>4
<1>9. CASE Reply \/ Type \/ Typed
  BY <1>6, <1>9 DEF Reply, Type, Typed, Section, Values, Texts, Procs
<1>10. ASSUME NEW p \in Procs, Flush(p) PROVE AtOnce'
  <2>1. buffer[p] = <<>> OBVIOUS
  <2> QED BY <1>10, <2>1 DEF Flush
<1>11. "server" \in Procs /\ "client" \in Procs BY DEF Procs
<1> QED BY <1>1, <1>2, <1>3, <1>4, <1>5, <1>7, <1>8, <1>9, <1>10, <1>11
        DEF Next, shmemserv, shmemcli, Loop

(* The stores to a field that wait, when a store to another field joins.   *)
LEMMA StoreElsewhere ==
  ASSUME TypeOK, NEW p \in Procs, NEW f \in Fields, NEW v \in Values, Store(p, f, v),
         NEW g \in Fields, g # f, NEW q \in Procs
  PROVE  /\ mem'[g] = mem[g]
         /\ Pending(q, g)' = Pending(q, g)
         /\ \A i \in 1 .. Len(buffer[q]) : i \in 1 .. Len(buffer'[q]) /\ buffer'[q][i] = buffer[q][i]
<1>1. CASE room = 0 \/ q # p
  <2>1. mem'[g] = mem[g] /\ buffer'[q] = buffer[q] BY <1>1 DEF Store, TypeOK
  <2> QED BY <2>1 DEF Pending
<1>2. CASE room # 0 /\ q = p
  <2> DEFINE r == [field |-> f, value |-> v]
  <2>1. mem' = mem /\ buffer'[q] = Append(buffer[q], r) BY <1>2 DEF Store, TypeOK
  <2>2. buffer[q] \in Seq(Stores) /\ r \in Stores BY DEF TypeOK, Stores
  <2>3. r.field = f OBVIOUS
  <2> HIDE DEF r
  <2>4. /\ Len(buffer'[q]) = Len(buffer[q]) + 1 /\ Len(buffer[q]) \in Nat
        /\ \A i \in 1 .. Len(buffer[q]) : buffer'[q][i] = buffer[q][i]
        /\ buffer'[q][Len(buffer[q]) + 1] = r
    BY <2>1, <2>2
  <2>5. Pending(q, g)' = Pending(q, g) BY <2>3, <2>4 DEF Pending
  <2> QED BY <2>1, <2>4, <2>5
<1> QED BY <1>1, <1>2

(* The stores that wait, when the oldest one goes to memory.               *)
LEMMA FlushShifts ==
  ASSUME TypeOK, NEW p \in Procs, Flush(p)
  PROVE  /\ Len(buffer'[p]) = Len(buffer[p]) - 1 /\ Len(buffer[p]) \in Nat \ {0}
         /\ \A i \in 1 .. Len(buffer'[p]) : buffer'[p][i] = buffer[p][i + 1]
         /\ \A q \in Procs : q # p => buffer'[q] = buffer[q]
         /\ Head(buffer[p]) = buffer[p][1] /\ buffer[p][1] \in Stores
<1>1. buffer[p] \in Seq(Stores) /\ buffer[p] # <<>> BY DEF Flush, TypeOK
<1>2. buffer'[p] = Tail(buffer[p]) /\ (\A q \in Procs : q # p => buffer'[q] = buffer[q])
  BY DEF Flush, TypeOK
<1>3. Len(buffer[p]) \in Nat \ {0} /\ Head(buffer[p]) = buffer[p][1] BY <1>1
<1>4. buffer[p][1] \in Stores BY <1>1, <1>3
<1> QED BY <1>1, <1>2, <1>3, <1>4

(* Nothing about the turns to read changes in a step that reads nothing    *)
(* and only lets the one whose turn it is go on to read.                   *)
LEMMA TurnsKept ==
  ASSUME TypeOK, Alternating, reads' = reads, mem'["readlast"] = mem["readlast"],
         \A q \in Procs :
            /\ Pending(q, "readlast")' = Pending(q, "readlast")
            /\ \A i \in 1 .. Len(buffer[q]) : i \in 1 .. Len(buffer'[q]) /\ buffer'[q][i] = buffer[q][i],
         \A q \in Procs : pc'[q] = "take" =>
            pc[q] = "take" \/ (q # LastReader /\ mem["readlast"] = LastReader)
  PROVE  Alternating' /\ LastReader' = LastReader
<1>1. LastReader' = LastReader BY DEF LastReader
<1>2. LastReader \in Procs /\ Other(LastReader) \in Procs BY DEF LastReader, Other, Procs
<1>3. Other(LastReader)' = Other(LastReader) BY <1>1 DEF Other
<1> QED BY <1>1, <1>2, <1>3 DEF Alternating

(* What a load of readlast returns to the one that read last, and to the   *)
(* other.                                                                  *)
LEMMA LoadOfReadlast ==
  ASSUME TypeOK, Alternating
  PROVE  /\ Value(LastReader, "readlast") = LastReader
         /\ Value(Other(LastReader), "readlast") = mem["readlast"]
<1>1. Value(Other(LastReader), "readlast") = mem["readlast"] BY DEF Alternating, Value
<1>2. CASE mem["readlast"] = LastReader /\ Pending(LastReader, "readlast") = {}
  BY <1>1, <1>2 DEF Value
<1>3. CASE \E i \in 1 .. Len(buffer[LastReader]) :
             Pending(LastReader, "readlast") = {i} /\ buffer[LastReader][i].value = LastReader
  <2>1. PICK i \in 1 .. Len(buffer[LastReader]) :
             Pending(LastReader, "readlast") = {i} /\ buffer[LastReader][i].value = LastReader
    BY <1>3
  <2>2. i <= i OBVIOUS
  <2>3. (CHOOSE k \in {i} : \A j \in {i} : j <= k) = i BY <2>2
  <2>4. Value(LastReader, "readlast") = buffer[LastReader][i].value BY <2>1, <2>3 DEF Value
  <2> QED BY <1>1, <2>1, <2>4
<1> QED BY <1>2, <1>3 DEF Alternating

(* Every step keeps the turns to read, whether or not stores can wait.     *)
LEMMA AlternatingStep ==
  ASSUME TypeOK, Alternating, [Next]_vars
  PROVE  Alternating'
<1>c. "server" \in Procs /\ "client" \in Procs BY DEF Procs
<1>t. pc \in [Procs -> PCs] /\ reads \in [Procs -> Nat] /\ mem \in [Fields -> Values]
  BY DEF TypeOK
<1>l. LastReader \in Procs /\ Other(LastReader) \in Procs /\ Other(LastReader) # LastReader
      /\ Procs = {LastReader, Other(LastReader)} /\ Other(Other(LastReader)) = LastReader
  BY DEF LastReader, Other, Procs
<1>f. "readlast" \in Fields BY DEF Fields
<1>u. ASSUME reads' = reads, UNCHANGED <<mem, buffer>>,
             \A q \in Procs : pc'[q] = "take" =>
                pc[q] = "take" \/ (q # LastReader /\ mem["readlast"] = LastReader)
      PROVE  Alternating'
  BY <1>u, TurnsKept DEF Pending
<1>s. ASSUME reads' = reads, NEW p \in Procs, NEW f \in Fields, NEW v \in Values, Store(p, f, v),
             f # "readlast", \A q \in Procs : pc'[q] = "take" => pc[q] = "take"
      PROVE  Alternating'
  BY <1>s, <1>f, <1>c, StoreElsewhere, TurnsKept
<1>1. CASE UNCHANGED vars \/ Ended
  BY <1>1, <1>u DEF vars, Ended
<1>2. ASSUME NEW p \in Procs, Test(p) \/ Await(p) \/ Show(p) PROVE Alternating'
  <2>1. \A q \in Procs : pc'[q] = "take" => pc[q] = "take"
    BY <1>2, <1>t DEF Test, Await, Show, Goto
  <2> QED BY <1>2, <2>1, <1>u DEF Test, Await, Show
<1>3. ASSUME NEW p \in Procs, SetLock(p) \/ SetTurn(p) \/ Unlock(p) PROVE Alternating'
  <2>1. \A q \in Procs : pc'[q] = "take" => pc[q] = "take"
    BY <1>3, <1>t DEF SetLock, SetTurn, Unlock, Goto
  <2>2. /\ Lock[p] \in Fields \ {"readlast"} /\ "turn" \in Fields
        /\ FREE \in Values /\ BUSY \in Values /\ Other(p) \in Values
    BY DEF Lock, Fields, Values, Procs, Other
  <2>3. \E f \in Fields \ {"readlast"}, v \in Values : Store(p, f, v)
    BY <1>3, <2>2 DEF SetLock, SetTurn, Unlock
  <2>4. reads' = reads BY <1>3 DEF SetLock, SetTurn, Unlock
  <2> QED BY <2>1, <2>3, <2>4, <1>s
<1>4. ASSUME NEW p \in Procs, Check(p) PROVE Alternating'
  <2>1. \A q \in Procs : pc'[q] = "take" =>
           pc[q] = "take" \/ (q = p /\ Value(p, "readlast") = Other(p))
    BY <1>4, <1>t DEF Check, Goto
  <2>2. Value(p, "readlast") = Other(p) => p # LastReader /\ mem["readlast"] = LastReader
    BY LoadOfReadlast, <1>l
  <2> QED BY <1>4, <2>1, <2>2, <1>u DEF Check
<1>5. CASE Reply \/ Type \/ Typed
  <2>1. \A q \in Procs : pc'[q] = "take" => pc[q] = "take"
    BY <1>5, <1>t DEF Reply, Type, Typed, Goto
  <2>2. "string" \in Fields \ {"readlast"} /\ {"ok", "part", "line", "q"} \subseteq Values
    BY DEF Fields, Values, Texts
  <2>3. reads' = reads BY <1>5 DEF Reply, Type, Typed
  <2>4. UNCHANGED <<mem, buffer>> \/ \E p \in Procs, v \in Values : Store(p, "string", v)
    BY <1>5, <1>c, <2>2 DEF Reply, Type, Typed
  <2> QED BY <2>1, <2>2, <2>3, <2>4, <1>s, <1>u
<1>6. ASSUME NEW p \in Procs, Take(p) PROVE Alternating'
  <2>1. p # LastReader /\ mem["readlast"] = LastReader BY <1>6 DEF Alternating, Take, Goto
  <2>2. p = Other(LastReader) BY <2>1, <1>l
  <2>3. reads' = [reads EXCEPT ![p] = @ + 1] BY <1>6 DEF Take
  <2>4. reads'["client"] - reads'["server"] \in {0, 1} /\ LastReader' = p
    <3>1. reads["client"] \in Nat /\ reads["server"] \in Nat
          /\ reads["client"] - reads["server"] \in {0, 1} BY <1>c, <1>t DEF Alternating
    <3>2. CASE p = "client"
      <4>1. reads'["client"] = reads["client"] + 1 /\ reads'["server"] = reads["server"]
        BY <2>3, <3>2, <1>c, <1>t
      <4>2. reads["client"] = reads["server"] BY <2>1, <3>2 DEF LastReader
      <4> QED BY <3>1, <3>2, <4>1, <4>2 DEF LastReader
    <3>3. CASE p = "server"
      <4>1. reads'["server"] = reads["server"] + 1 /\ reads'["client"] = reads["client"]
        BY <2>3, <3>3, <1>c, <1>t
      <4>2. reads["client"] # reads["server"] BY <2>1, <3>3 DEF LastReader
      <4> QED BY <3>1, <3>3, <4>1, <4>2 DEF LastReader
    <3> QED BY <3>2, <3>3 DEF Procs
  <2>5. Other(LastReader)' = LastReader BY <2>2, <2>4, <1>l DEF Other
  <2>6. Pending(LastReader, "readlast") = {} /\ Pending(p, "readlast") = {}
    BY <2>1, <2>2, <1>l DEF Alternating
  <2>7. Store(p, "readlast", p) BY <1>6 DEF Take
  <2>8. \A q \in Procs : pc'[q] # "take"
    <3>1. pc'[p] = "print" /\ pc'[LastReader] = pc[LastReader] BY <1>6, <2>1, <1>l, <1>t DEF Take, Goto
    <3>2. pc[LastReader] # "take" BY <1>l DEF Alternating
    <3> QED BY <2>2, <3>1, <3>2, <1>l
  <2>9. PICK o \in Procs : o = LastReader /\ o # p BY <2>1, <1>l
  <2>10. CASE room = 0
    <3>1. mem' = [mem EXCEPT !["readlast"] = p] /\ buffer' = buffer BY <2>7, <2>10 DEF Store
    <3>2. mem'["readlast"] = p BY <3>1, <1>t, <1>f
    <3>3. Pending(o, "readlast")' = {} /\ Pending(p, "readlast")' = {}
      BY <2>6, <2>9, <3>1 DEF Pending
    <3> QED BY <2>4, <2>5, <2>8, <2>9, <3>2, <3>3 DEF Alternating
  <2>11. CASE room # 0
    <3> DEFINE r == [field |-> "readlast", value |-> p]
    <3>1. mem' = mem /\ buffer'[o] = buffer[o] /\ buffer'[p] = Append(buffer[p], r)
      BY <2>7, <2>9, <2>11 DEF Store, TypeOK
    <3>2. buffer[p] \in Seq(Stores) /\ r \in Stores BY <1>f DEF TypeOK, Stores, Values
    <3>3. r.field = "readlast" /\ r.value = p OBVIOUS
    <3> HIDE DEF r
    <3>4. /\ Len(buffer'[p]) = Len(buffer[p]) + 1 /\ Len(buffer[p]) \in Nat
          /\ \A i \in 1 .. Len(buffer[p]) : buffer'[p][i] = buffer[p][i]
          /\ buffer'[p][Len(buffer[p]) + 1] = r
      BY <3>1, <3>2
    <3>5. Pending(p, "readlast")' = {Len(buffer[p]) + 1} BY <2>6, <3>3, <3>4 DEF Pending
    <3>6. Pending(o, "readlast")' = {} BY <2>6, <2>9, <3>1 DEF Pending
    <3>7. Len(buffer[p]) + 1 \in 1 .. Len(buffer'[p]) BY <3>4
    <3>8. mem'["readlast"] = o BY <2>1, <2>9, <3>1
    <3>9. \E i \in 1 .. Len(buffer'[p]) : Pending(p, "readlast")' = {i} /\ buffer'[p][i].value = p
      BY <3>3, <3>4, <3>5, <3>7
    <3> QED BY <2>4, <2>5, <2>8, <2>9, <3>6, <3>8, <3>9 DEF Alternating
  <2> QED BY <2>10, <2>11
<1>7. ASSUME NEW p \in Procs, Flush(p) PROVE Alternating'
  <2>1. reads' = reads /\ pc' = pc BY <1>7 DEF Flush
  <2>2. LastReader' = LastReader /\ Other(LastReader)' = Other(LastReader)
    BY <2>1 DEF LastReader, Other
  <2>3. PICK l \in Procs, o \in Procs : l = LastReader /\ o = Other(LastReader) /\ l # o /\ Procs = {l, o}
    BY <1>l
  <2>4. mem' = [mem EXCEPT ![buffer[p][1].field] = buffer[p][1].value]
        /\ buffer[p][1].field \in Fields
    BY <1>7, FlushShifts DEF Flush, Stores
  <2>5. \A q \in Procs : q # p => Pending(q, "readlast")' = Pending(q, "readlast")
    BY <1>7, FlushShifts DEF Pending
  <2>6. \A i : i \in Pending(p, "readlast")' <=> i \in Nat \ {0} /\ i + 1 \in Pending(p, "readlast")
    BY <1>7, FlushShifts DEF Pending
  <2>7. Pending(o, "readlast") = {} BY <2>3 DEF Alternating
  <2>8. Pending(o, "readlast")' = {} BY <2>5, <2>6, <2>7
  <2>9. CASE buffer[p][1].field = "readlast"
    <3>1. 1 \in Pending(p, "readlast") BY <1>7, <2>9, FlushShifts DEF Pending
    <3>2. p = l BY <2>3, <2>7, <3>1
    <3>3. Pending(l, "readlast") = {1} /\ buffer[l][1].value = l
      BY <2>3, <3>1, <3>2 DEF Alternating
    <3>4. Pending(l, "readlast")' = {} BY <2>6, <3>2, <3>3
    <3>5. mem'["readlast"] = l BY <2>4, <2>9, <3>2, <3>3, <1>f, <1>t
    <3> QED BY <2>1, <2>2, <2>3, <2>8, <3>4, <3>5 DEF Alternating
  <2>10. CASE buffer[p][1].field # "readlast"
    <3>1. mem'["readlast"] = mem["readlast"] BY <2>4, <2>10, <1>f, <1>t
    <3>2. CASE Pending(l, "readlast") = {}
      <4>1. Pending(l, "readlast")' = {} BY <2>5, <2>6, <3>2
      <4>2. mem["readlast"] = l BY <2>3, <3>2 DEF Alternating
      <4> QED BY <2>1, <2>2, <2>3, <2>8, <3>1, <4>1, <4>2 DEF Alternating
    <3>3. CASE Pending(l, "readlast") # {}
      <4>1. PICK i \in 1 .. Len(buffer[l]) : Pending(l, "readlast") = {i} /\ buffer[l][i].value = l
        BY <2>3, <3>3 DEF Alternating
      <4>2. mem["readlast"] = o BY <2>3, <3>3 DEF Alternating
      <4>3. \E j \in 1 .. Len(buffer'[l]) : Pending(l, "readlast")' = {j} /\ buffer'[l][j].value = l
        <5>1. CASE p # l BY <4>1, <2>5, <5>1, <1>7, FlushShifts
        <5>2. CASE p = l
          <6>1. i # 1 BY <2>10, <4>1, <5>2 DEF Pending
          <6>2. i - 1 \in 1 .. Len(buffer'[l]) BY <6>1, <5>2, <1>7, FlushShifts
          <6>3. buffer'[l][i - 1].value = l
            <7>1. buffer'[l][i - 1] = buffer[l][(i - 1) + 1] BY <6>2, <5>2, <1>7, FlushShifts
            <7>2. (i - 1) + 1 = i OBVIOUS
            <7> QED BY <7>1, <7>2, <4>1
          <6>4. Pending(l, "readlast")' = {i - 1}
            <7>1. \A j : j \in Pending(l, "readlast")' <=> j \in Nat \ {0} /\ j + 1 = i BY <2>6, <4>1, <5>2
            <7>2. i \in Nat /\ i - 1 \in Nat \ {0} BY <6>1, <6>2
            <7> QED BY <7>1, <7>2
          <6> QED BY <6>2, <6>3, <6>4
        <5> QED BY <5>1, <5>2
      <4> QED BY <2>1, <2>2, <2>3, <2>8, <3>1, <4>2, <4>3 DEF Alternating
    <3> QED BY <3>2, <3>3
  <2> QED BY <2>9, <2>10
<1> QED BY <1>1, <1>2, <1>3, <1>4, <1>5, <1>6, <1>7, <1>c
        DEF Next, shmemserv, shmemcli, Loop

(* When no store waits, every step keeps to what the string may be.        *)
LEMMA TalkingStep ==
  ASSUME TypeOK, room = 0, AtOnce, MutualExclusion, Alternating, Talking, [Next]_vars
  PROVE  Talking'
<1>c. "server" \in Procs /\ "client" \in Procs /\ Procs = {"server", "client"} BY DEF Procs
<1>t. pc \in [Procs -> PCs] /\ reads \in [Procs -> Nat] /\ mem \in [Fields -> Values]
  BY DEF TypeOK
<1>f. "string" \in Fields /\ "readlast" \in Fields /\ "turn" \in Fields
      /\ (\A p \in Procs : Lock[p] \in Fields \ {"string"})
  BY DEF Fields, Lock, Procs
<1>v. \A p \in Procs : \A f \in Fields : Value(p, f) = mem[f] BY LoadsAreFromMemory DEF AtOnce
<1>m. ~ (pc["server"] \in Section /\ pc["client"] \in Section) BY <1>c DEF MutualExclusion
<1>s. ASSUME NEW p \in Procs, NEW f \in Fields, NEW v, Store(p, f, v)
      PROVE  mem' = [mem EXCEPT ![f] = v]
  BY <1>s DEF Store
<1>k. ASSUME reads' = reads PROVE LastReader' = LastReader BY <1>k DEF LastReader
<1>w. Messages["client"] = {"line", "q"} /\ Messages["server"] = {"hello", "ok"} BY DEF Messages
(* A step that neither reads nor writes and stays outside of what is done  *)
(* with the string.                                                        *)
<1>i. ASSUME reads' = reads, mem'["string"] = mem["string"], misread' = misread,
             \A p \in Procs : pc'[p] # pc[p] =>
                /\ pc'[p] \notin {"print", "reply", "type", "typed"}
                /\ pc[p] \notin {"print", "reply", "type", "typed"}
                /\ pc[p] \in {"unlock", "test", "done"} /\ mem["string"] = "q"
                     => pc'[p] \in {"unlock", "test", "done"}
      PROVE  Talking'
  BY <1>i, <1>k, <1>c, <1>w DEF Talking, Answering, Asking
<1>1. CASE UNCHANGED vars \/ Ended
  BY <1>1, <1>i DEF vars, Ended
<1>2. ASSUME NEW p \in Procs, Test(p) \/ Await(p) \/ Check(p) PROVE Talking'
  <2>1. Value(p, "string") = mem["string"] BY <1>v, <1>f
  <2> QED BY <1>2, <2>1, <1>i, <1>t DEF Test, Await, Check, Goto
<1>3. ASSUME NEW p \in Procs, SetLock(p) \/ SetTurn(p) \/ Unlock(p) PROVE Talking'
  <2>1. \E f \in Fields \ {"string"}, v \in Values : mem' = [mem EXCEPT ![f] = v]
    <3>1. FREE \in Values /\ BUSY \in Values /\ Other(p) \in Values
      BY DEF Values, Procs, Other
    <3>2. \E f \in Fields \ {"string"}, v \in Values : Store(p, f, v)
      BY <1>3, <1>f, <3>1 DEF SetLock, SetTurn, Unlock
    <3> QED BY <3>2, <1>s
  <2>2. mem'["string"] = mem["string"] BY <2>1, <1>f, <1>t
  <2> QED BY <1>3, <2>2, <1>i, <1>t DEF SetLock, SetTurn, Unlock, Goto
<1>4. ASSUME NEW p \in Procs, Take(p) PROVE Talking'
  <2>1. mem'["string"] = mem["string"] BY <1>4, <1>s, <1>f, <1>t DEF Take
  <2>2. p # LastReader /\ pc[p] = "take" BY <1>4 DEF Alternating, Take, Goto
  <2>3. LastReader' = p
    <3>1. reads["client"] \in Nat /\ reads["server"] \in Nat
          /\ reads["client"] - reads["server"] \in {0, 1} BY <1>c, <1>t DEF Alternating
    <3>2. CASE p = "client"
      <4>1. reads'["client"] = reads["client"] + 1 /\ reads'["server"] = reads["server"]
        BY <1>4, <3>2, <1>c, <1>t DEF Take
      <4> QED BY <2>2, <3>1, <3>2, <4>1 DEF LastReader
    <3>3. CASE p = "server"
      <4>1. reads'["server"] = reads["server"] + 1 /\ reads'["client"] = reads["client"]
        BY <1>4, <3>3, <1>c, <1>t DEF Take
      <4> QED BY <2>2, <3>1, <3>3, <4>1 DEF LastReader
    <3> QED BY <3>2, <3>3 DEF Procs
  <2>4. misread' = misread BY <1>4 DEF Take
  <2>5. pc' = [pc EXCEPT ![p] = "print"] BY <1>4 DEF Take, Goto
  <2>6. CASE p = "client"
    <3>1. pc'["client"] = "print" /\ pc'["server"] = pc["server"] BY <2>5, <2>6, <1>c, <1>t
    <3>2. ~ Answering BY <2>2, <2>6, <1>m DEF Answering, Section
    <3>3. mem["string"] \in {"hello", "ok"} BY <2>2, <2>6, <3>2, <1>w DEF Talking, LastReader
    <3> QED BY <2>1, <2>3, <2>4, <2>6, <3>1, <3>2, <3>3, <1>w DEF Talking, Answering, Asking
  <2>7. CASE p = "server"
    <3>1. pc'["server"] = "print" /\ pc'["client"] = pc["client"] BY <2>5, <2>7, <1>c, <1>t
    <3>2. ~ Asking BY <2>2, <2>7, <1>m DEF Asking, Section
    <3>3. mem["string"] \in {"line", "q"} BY <2>2, <2>7, <3>2, <1>w DEF Talking, LastReader, Asking
    <3> QED BY <2>1, <2>3, <2>4, <2>7, <3>1, <3>2, <3>3, <1>w DEF Talking, Answering, Asking
  <2> QED BY <2>6, <2>7 DEF Procs
<1>5. ASSUME NEW p \in Procs, Show(p) PROVE Talking'
  <2>1. mem' = mem /\ LastReader' = LastReader BY <1>5, <1>k DEF Show
  <2>2. pc[p] = "print" /\ pc' = [pc EXCEPT ![p] = IF p = "server" THEN "reply" ELSE "type"]
    BY <1>5 DEF Show, Goto
  <2>3. mem["string"] \in Messages[Other(p)] /\ LastReader = p
    BY <2>2, <1>c, <1>w DEF Talking, Answering, Asking, Other, LastReader
  <2>4. misread' = misread BY <1>5, <2>3, <1>v, <1>f DEF Show
  <2> QED BY <2>1, <2>2, <2>3, <2>4, <1>c, <1>t, <1>w DEF Talking, Answering, Asking, Other
<1>6. CASE Reply
  <2>1. reads' = reads /\ misread' = misread /\ LastReader' = LastReader BY <1>6, <1>k DEF Reply
  <2>2. pc["server"] = "reply" /\ pc'["server"] = "unlock" /\ pc'["client"] = pc["client"]
    BY <1>6, <1>c, <1>t DEF Reply, Goto
  <2>3. LastReader = "server" /\ mem["string"] \in {"line", "q"} /\ ~ Asking
    BY <2>2, <1>w DEF Talking, Answering, LastReader
  <2>4. mem'["string"] = IF mem["string"] # "q" THEN "ok" ELSE "q"
    BY <1>6, <1>c, <1>v, <1>s, <1>f, <1>t DEF Reply
  <2> QED BY <2>1, <2>2, <2>3, <2>4, <1>w DEF Talking, Answering, Asking
<1>7. CASE Type
  <2>1. reads' = reads /\ misread' = misread /\ LastReader' = LastReader BY <1>7, <1>k DEF Type
  <2>2. pc["client"] = "type" /\ pc'["client"] = "typed" /\ pc'["server"] = pc["server"]
    BY <1>7, <1>c, <1>t DEF Type, Goto
  <2>3. LastReader = "client" /\ ~ Answering BY <2>2 DEF Talking, Asking, LastReader
  <2>4. mem'["string"] = "part" BY <1>7, <1>c, <1>s, <1>f, <1>t DEF Type
  <2> QED BY <2>1, <2>2, <2>3, <2>4, <1>w DEF Talking, Answering, Asking
<1>8. CASE Typed
  <2>1. reads' = reads /\ misread' = misread /\ LastReader' = LastReader BY <1>8, <1>k DEF Typed
  <2>2. pc["client"] = "typed" /\ pc'["client"] = "unlock" /\ pc'["server"] = pc["server"]
    BY <1>8, <1>c, <1>t DEF Typed, Goto
  <2>3. LastReader = "client" /\ ~ Answering BY <2>2 DEF Talking, Asking, LastReader
  <2>4. mem'["string"] \in {"line", "q"}
    <3>1. \E v \in {"line", "q"} : Store("client", "string", v) BY <1>8 DEF Typed
    <3> QED BY <3>1, <1>c, <1>s, <1>f, <1>t
  <2> QED BY <2>1, <2>2, <2>3, <2>4, <1>w DEF Talking, Answering, Asking
<1>9. ASSUME NEW p \in Procs, Flush(p) PROVE Talking'
  <2>1. buffer[p] = <<>> BY DEF AtOnce
  <2> QED BY <1>9, <2>1 DEF Flush
<1> QED BY <1>1, <1>2, <1>3, <1>4, <1>5, <1>6, <1>7, <1>8, <1>9, <1>c
        DEF Next, shmemserv, shmemcli, Loop

(* A process that competes holds its lock, and one that is past the        *)
(* waiting loop is so because the other does not compete or has yielded,   *)
(* when no store waits; who reads next is the one readlast does not name,  *)
(* even when stores wait.  It stays so for as long as the two run.         *)
THEOREM LocksHold == Spec => []IInv
<1>1. ASSUME IInv, [Next]_vars PROVE IInv'
  <2>1. TypeOK' /\ room' = room BY <1>1, TypeStep DEF IInv
  <2>2. room = 0 => AtOnce' BY <1>1, StepHolds DEF IInv
  <2>3. MutualExclusion'
    <3>1. CASE room = 0
      <4>1. (TypeOK /\ AtOnce => ~ \A p \in Procs : pc[p] \in Section)' BY LocksExclude, PTL
      <4> QED BY <2>1, <2>2, <3>1, <4>1 DEF MutualExclusion
    <3>2. CASE room # 0 BY <2>1, <3>2 DEF MutualExclusion
    <3> QED BY <3>1, <3>2
  <2>4. Alternating' BY <1>1, AlternatingStep DEF IInv
  <2>5. room = 0 => Talking' BY <1>1, TalkingStep DEF IInv
  <2> QED BY <2>1, <2>2, <2>3, <2>4, <2>5 DEF IInv
<1> QED BY InitHolds, <1>1, PTL DEF Spec

(* The two take the string in turns, the client first, however long their  *)
(* stores wait; and each prints whole messages of the other, never its own *)
(* or half a line, when no store waits.                                    *)
THEOREM TurnsToRead == Spec => []ReadInTurns
<1>1. IInv => ReadInTurns BY DEF IInv, Alternating, Talking, ReadInTurns
<1> QED BY LocksHold, <1>1, PTL

(* Peterson's algorithm of shmemserv.c and shmemcli.c keeps the two out of *)
(* each other's way when no store waits, even though a process that may    *)
(* not read yet goes back to the test with its lock BUSY.                  *)
THEOREM Exclusion == Spec => []MutualExclusion
<1>1. IInv => MutualExclusion BY DEF IInv
<1> QED BY LocksHold, <1>1, PTL
===============================================================================
