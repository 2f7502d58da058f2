-------------------------- MODULE PhilosophersProofs --------------------------
(***************************************************************************)
(* The start barrier and the exit of Philosophers, for every number of     *)
(* philosophers and whether or not the start counter loses increments.     *)
(***************************************************************************)
EXTENDS Philosophers, FiniteSetTheorems, TLAPS

USE PhilAssumption DEF Phils, Free

(* The philosophers are a finite set of N members.                         *)
LEMMA PhilsFinite == IsFiniteSet(Phils) /\ Cardinality(Phils) = N
<1>1. IsFiniteSet(0 .. N - 1) /\ Cardinality(0 .. N - 1) = IF 0 <= N - 1 THEN N - 1 - 0 + 1 ELSE 0
  BY FS_Interval
<1> QED BY <1>1

(* A set of philosophers is as large as N only when it is all of them.     *)
LEMMA SubsetCardinality ==
  ASSUME NEW S, S \subseteq Phils
  PROVE  /\ IsFiniteSet(S) /\ Cardinality(S) \in Nat /\ Cardinality(S) <= N
         /\ Cardinality(S) = N => S = Phils
         /\ \A p \in Phils \ S : Cardinality(S \cup {p}) = Cardinality(S) + 1
<1>1. IsFiniteSet(S) /\ Cardinality(S) <= Cardinality(Phils) /\ (Cardinality(S) = Cardinality(Phils) => S = Phils)
  BY PhilsFinite, FS_Subset
<1>2. Cardinality(S) \in Nat
  BY <1>1, FS_CardinalityType
<1>3. \A p \in Phils \ S : Cardinality(S \cup {p}) = Cardinality(S) + 1
  BY <1>1, FS_AddElement
<1> QED BY <1>1, <1>2, <1>3, PhilsFinite

(* The invariant holds before insmod.                                      *)
LEMMA InitInv == Init => IInv
<1> SUFFICES ASSUME Init PROVE IInv
  OBVIOUS
<1> USE DEF Init
<1>1. TypeOK
  BY DEF TypeOK, PCs
<1>2. Cardinality(stored) = 0
  BY FS_EmptySet
<1>3. Arrived /\ Reaped /\ SticksReady
  BY DEF Arrived, Reaped, SticksReady, Dining
<1>4. CounterIsLow /\ DestroyedUnused
  BY <1>2 DEF CounterIsLow, DestroyedUnused
<1> QED BY <1>1, <1>3, <1>4 DEF IInv

(* No step breaks the parts that the rest follows from.                    *)
Core == TypeOK /\ Arrived /\ Reaped /\ SticksReady /\ CounterIsLow

LEMMA ModuleSteps == Core /\ (philosophers_init \/ philosophers_cleanup) => Core'
<1> SUFFICES ASSUME Core, philosophers_init \/ philosophers_cleanup PROVE Core'
  OBVIOUS
<1> USE DEF Core
<1>1. CASE philosophers_init
  <2>1. TypeOK'
    BY <1>1 DEF TypeOK, philosophers_init, Goto, PCs
  <2>2. Arrived'
    <3> SUFFICES ASSUME NEW p \in Phils
                 PROVE  /\ p \in stored => pc'[p] \in {"barrier", "done"} \cup Dining
                        /\ pc'[p] = "store" => loaded[p] <= Cardinality(stored)
                        /\ pc'[p] = "none" <=> created + 1 <= p
      BY <1>1 DEF Arrived, philosophers_init
    <3>1. created \in Phils /\ pc[created] = "none" /\ created \notin stored
      BY <1>1 DEF TypeOK, Arrived, philosophers_init, Dining
    <3>2. CASE p = created
      BY <1>1, <3>1, <3>2 DEF TypeOK, philosophers_init, Goto
    <3>3. CASE p # created
      <4>1. pc'[p] = pc[p] /\ (created <= p <=> created + 1 <= p)
        BY <1>1, <3>3 DEF TypeOK, philosophers_init, Goto
      <4> QED BY <4>1 DEF Arrived
    <3> QED BY <3>2, <3>3
  <2>3. Reaped' /\ SticksReady' /\ CounterIsLow'
    BY <1>1 DEF TypeOK, Arrived, Reaped, SticksReady, CounterIsLow, philosophers_init, Goto, Dining
  <2> QED BY <2>1, <2>2, <2>3
<1>2. ASSUME NEW p \in Phils, Stop(p) \/ Destroy(p) PROVE Core'
  <2>1. TypeOK'
    <3>1. CASE Stop(p)
      BY <3>1 DEF TypeOK, Stop
    <3>2. CASE Destroy(p)
      <4>1. destroyed' \in 0 .. N
        BY <3>2 DEF TypeOK, Destroy
      <4> QED BY <3>2, <4>1 DEF TypeOK, Destroy
    <3> QED BY <1>2, <3>1, <3>2
  <2>2. Arrived' /\ Reaped' /\ SticksReady' /\ CounterIsLow'
    BY <1>2 DEF TypeOK, Arrived, Reaped, SticksReady, CounterIsLow, Stop, Destroy
  <2> QED BY <2>1, <2>2
<1> QED BY <1>1, <1>2 DEF philosophers_cleanup

(* The start: reading the counter, writing it back, and the barrier.       *)
LEMMA StartSteps ==
  ASSUME Core, NEW p \in Phils, Start(p) \/ Load(p) \/ Store(p) \/ Barrier(p)
  PROVE  Core'
<1> USE DEF Core
<1>0. /\ stored \subseteq Phils /\ Cardinality(stored) \in Nat /\ Cardinality(stored) <= N
      /\ Cardinality(stored) = N => stored = Phils
      /\ \A q \in Phils \ stored : Cardinality(stored \cup {q}) = Cardinality(stored) + 1
  BY SubsetCardinality DEF TypeOK
<1>1. CASE Start(p)
  BY <1>1 DEF Start, Step, Goto, TypeOK, PCs, Arrived, Reaped, SticksReady, CounterIsLow, Dining
<1>2. CASE Load(p)
  <2>1. TypeOK' /\ Reaped' /\ SticksReady' /\ CounterIsLow'
    BY <1>2 DEF Load, Step, Goto, TypeOK, PCs, Reaped, SticksReady, CounterIsLow, Dining
  <2>2. Arrived'
    BY <1>0, <1>2 DEF Load, Step, Goto, TypeOK, PCs, Arrived, CounterIsLow, Dining
  <2> QED BY <2>1, <2>2
<1>3. CASE Store(p)
  <2>1. p \notin stored /\ loaded[p] <= Cardinality(stored)
    BY <1>3 DEF Store, Step, Arrived, Dining
  <2>2. Cardinality(stored') = Cardinality(stored) + 1 /\ Cardinality(stored') <= N
    <3>1. stored' = stored \cup {p} /\ stored' \subseteq Phils
      BY <1>3, <1>0 DEF Store
    <3> QED BY <3>1, <2>1, <1>0, SubsetCardinality
  <2>3. thread_start_counter' = loaded[p] + 1 /\ loaded[p] \in 0 .. N
    BY <1>3 DEF Store, TypeOK
  <2>4. TypeOK' /\ CounterIsLow'
    <3>1. thread_start_counter' \in 0 .. N /\ CounterIsLow'
      BY <1>0, <2>1, <2>2, <2>3 DEF CounterIsLow
    <3>2. pc' \in [Phils -> PCs] /\ stored' \subseteq Phils
      BY <1>0, <1>3 DEF Store, Step, Goto, TypeOK, PCs
    <3> QED BY <1>3, <3>1, <3>2 DEF Store, Step, TypeOK
  <2>5. Arrived'
    BY <1>0, <1>3, <2>1, <2>2 DEF Store, Step, Goto, TypeOK, Arrived, Dining
  <2>6. Reaped' /\ SticksReady'
    BY <1>3 DEF Store, Step, Goto, TypeOK, Reaped, SticksReady, Dining
  <2> QED BY <2>4, <2>5, <2>6
<1>4. CASE Barrier(p)
  <2>1. stored = Phils
    BY <1>0, <1>4 DEF Barrier, CounterIsLow, TypeOK
  <2>2. created = N
    <3>1. N - 1 \in Phils /\ pc[N - 1] # "none"
      BY <2>1 DEF Arrived, Dining
    <3> QED BY <3>1 DEF Arrived, TypeOK
  <2>3. TypeOK' /\ Arrived' /\ Reaped' /\ CounterIsLow'
    BY <1>4 DEF Barrier, Step, Goto, TypeOK, PCs, Arrived, Reaped, CounterIsLow, Dining
  <2>4. SticksReady'
    BY <1>4, <2>2 DEF Barrier, Step, SticksReady
  <2> QED BY <2>3, <2>4
<1> QED BY <1>1, <1>2, <1>3, <1>4

(* Eating moves a philosopher only among the places of Dining.             *)
LEMMA DiningSteps ==
  ASSUME Core, NEW p \in Phils,
         \/ Spin(p) \/ Check(p) \/ take_right_stick(p) \/ take_left_stick(p)
         \/ Eat(p) \/ put_left_stick(p) \/ put_right_stick(p)
  PROVE  Core'
<1> USE DEF Core
<1>1. CASE Spin(p)
  BY <1>1 DEF Spin, vars, TypeOK, Arrived, Reaped, SticksReady, CounterIsLow
<1>2. CASE Check(p)
  BY <1>2 DEF Check, Step, Goto, TypeOK, PCs, Arrived, Reaped, SticksReady, CounterIsLow, Dining
<1>3. CASE take_right_stick(p) \/ take_left_stick(p)
  <2>1. TypeOK'
    <3>1. \/ owner' = owner
          \/ owner' = [owner EXCEPT ![Left(p)] = p]
          \/ owner' = [owner EXCEPT ![Right(p)] = p]
      BY <1>3 DEF take_right_stick, take_left_stick, Trylock
    <3>2. owner' \in [Phils -> Phils \cup {Free}] BY <3>1 DEF TypeOK
    <3>3. \E l \in {"check", "left", "put_back", "eat"} : pc' = [pc EXCEPT ![p] = l]
      BY <1>3 DEF take_right_stick, take_left_stick, Trylock, Goto
    <3>4. pc' \in [Phils -> PCs] BY <3>3 DEF TypeOK, PCs, Dining
    <3>5. told' \subseteq Phils BY <1>3 DEF take_right_stick, take_left_stick, TypeOK
    <3>6. UNCHANGED <<thread_start_counter, loaded, stored, stop, created, destroyed>>
      BY <1>3 DEF take_right_stick, take_left_stick, Trylock
    <3> QED BY <3>2, <3>4, <3>5, <3>6 DEF TypeOK
  <2>2. Arrived' /\ Reaped' /\ SticksReady' /\ CounterIsLow'
    BY <1>3 DEF take_right_stick, take_left_stick, Trylock, Goto, TypeOK, Arrived, Reaped,
                SticksReady, CounterIsLow, Dining
  <2> QED BY <2>1, <2>2
<1>4. CASE Eat(p)
  BY <1>4 DEF Eat, Step, Goto, TypeOK, PCs, Arrived, Reaped, SticksReady, CounterIsLow, Dining
<1>5. CASE put_left_stick(p) \/ put_right_stick(p)
  <2>1. TypeOK'
    BY <1>5 DEF put_left_stick, put_right_stick, Step, Goto, TypeOK, PCs, Dining, Left, Right
  <2>2. Arrived' /\ Reaped' /\ SticksReady' /\ CounterIsLow'
    BY <1>5 DEF put_left_stick, put_right_stick, Step, Goto, TypeOK, Arrived, Reaped,
                SticksReady, CounterIsLow, Dining
  <2> QED BY <2>1, <2>2
<1> QED BY <1>1, <1>2, <1>3, <1>4, <1>5

(* DestroyedUnused follows from the order of the reaping: the users of a   *)
(* destroyed stick other than stick 1 have no greater number than it.      *)
LEMMA ReapedUnused == TypeOK /\ Reaped => DestroyedUnused
<1> SUFFICES ASSUME TypeOK, Reaped, NEW s \in Phils, NEW p \in Phils,
                    s < destroyed, s # 1, s \in {Left(p), Right(p)}
             PROVE  pc[p] = "done"
  BY DEF DestroyedUnused
<1>1. p <= s
  BY DEF Left, Right
<1> QED BY <1>1 DEF Reaped, TypeOK

LEMMA NextCore == Core /\ [Next]_vars => Core'
<1> SUFFICES ASSUME Core, [Next]_vars PROVE Core'
  OBVIOUS
<1>1. CASE Unloaded \/ UNCHANGED vars
  BY <1>1 DEF Unloaded, vars, Core, TypeOK, Arrived, Reaped, SticksReady, CounterIsLow
<1>2. ASSUME NEW p \in Phils, thread_func(p) PROVE Core'
  BY <1>2, StartSteps, DiningSteps DEF thread_func
<1> QED BY <1>1, <1>2, ModuleSteps DEF Next

(* The invariant of the barrier and the exit: for every N, with or without *)
(* lost increments.                                                        *)
THEOREM InvariantHolds == Spec => []IInv
<1>1. Init => Core
  BY InitInv DEF IInv, Core
<1>2. Spec => []Core
  BY <1>1, NextCore, PTL DEF Spec
<1>3. Core => IInv
  BY ReapedUnused DEF Core, IInv
<1> QED BY <1>2, <1>3, PTL

(* No philosopher reaches for a stick that init has not initialised.       *)
THEOREM BarrierHolds == Spec => []SticksReady
<1>1. IInv => SticksReady
  BY DEF IInv
<1> QED BY <1>1, InvariantHolds, PTL

(* Only stick 1 may be used after module exit has destroyed it.            *)
THEOREM ExitIsOrderly == Spec => []DestroyedUnused
<1>1. IInv => DestroyedUnused
  BY DEF IInv
<1> QED BY <1>1, InvariantHolds, PTL
===============================================================================
