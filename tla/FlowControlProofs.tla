-------------------------- MODULE FlowControlProofs --------------------------
(***************************************************************************)
(* Proofs about FlowControl, for any calls, pods, limits, priorities and   *)
(* keys, and any number of failures, refusals, cancels and deaths.         *)
(*                                                                         *)
(* The cap rests on what is counted.  In process a call that holds a slot  *)
(* is in the counter; the counter may be ahead of the calls (Refused), and *)
(* behind them by the late results that were delivered once more           *)
(* (LateAgain), no further.  In Redis a call that holds a slot may have    *)
(* none, when its pod died, but no more slots are there than the cap.      *)
(*                                                                         *)
(* The rate rests on what a backend remembers: a sliding window its        *)
(* admissions, a fixed one their number, and of those before it only that  *)
(* they are older than the window (RateInv).  Turns and shares rest on the *)
(* line, which is the order of first asking, and on the keys being served  *)
(* in the order of their last turns (OrderInv).                            *)
(***************************************************************************)
EXTENDS FlowControl, FiniteSetTheorems, TLAPS

Holders == {c \in Call : Holds(c)}
Slots   == {c \in Call : slot[c] \in key}

FlowShape ==
    /\ gate \in Setting
    /\ phase \in [Call -> Phases]
    /\ inFlight \in Nat
    /\ slot \in [Call -> Pod \union {NoPod}]
    /\ up \subseteq key /\ key \subseteq Pod
    /\ doubled \in Nat

Counted ==
    IF Memory
    THEN /\ Cardinality(Holders) <= inFlight + doubled
         /\ gate.concurrency > 0 => Cardinality(Holders) <= gate.concurrency + doubled
    ELSE gate.concurrency > 0 => Cardinality(Slots) <= gate.concurrency

FlowInv == FlowShape /\ Counted

\* At first nobody holds a slot.
LEMMA InitFlow == FlowInit => FlowInv
<1> SUFFICES ASSUME FlowInit PROVE FlowInv OBVIOUS
<1>1. FlowShape BY FlowAssumption DEF FlowInit, FlowShape, Phases
<1>2. Holders = {} /\ Slots = {}
  BY FlowAssumption DEF FlowInit, Holders, Holds, Slots
<1>3. Cardinality({}) = 0 BY FS_EmptySet
<1> QED BY <1>1, <1>2, <1>3 DEF FlowInit, FlowInv, FlowShape, Counted, Setting

-----------------------------------------------------------------------------
\* Sets of calls and their sizes.
LEMMA CallsCounted ==
  ASSUME NEW S \in SUBSET Call
  PROVE  /\ IsFiniteSet(S) /\ Cardinality(S) \in Nat
         /\ \A R \in SUBSET S : IsFiniteSet(R) /\ Cardinality(R) <= Cardinality(S)
         /\ \A x \in Call \ S : Cardinality(S \union {x}) = Cardinality(S) + 1
         /\ \A x \in S : Cardinality(S \ {x}) = Cardinality(S) - 1
<1>1. IsFiniteSet(S) BY FlowAssumption, FS_Subset
<1>2. Cardinality(S) \in Nat BY <1>1, FS_CardinalityType
<1>3. ASSUME NEW R \in SUBSET S PROVE IsFiniteSet(R) /\ Cardinality(R) <= Cardinality(S)
  BY <1>1, FS_Subset
<1>4. ASSUME NEW x \in Call \ S PROVE Cardinality(S \union {x}) = Cardinality(S) + 1
  BY <1>1, <1>4, FS_AddElement
<1>5. ASSUME NEW x \in S PROVE Cardinality(S \ {x}) = Cardinality(S) - 1
  BY <1>1, <1>5, FS_RemoveElement
<1> QED BY <1>1, <1>2, <1>3, <1>4, <1>5

\* Only its budgets change of a queue's configuration.
LEMMA GateStays ==
  ASSUME FlowShape,
         \/ gate' = gate
         \/ gate.failures > 0 /\ gate' = [gate EXCEPT !.failures = @ - 1]
         \/ gate.crashes > 0 /\ gate' = [gate EXCEPT !.crashes = @ - 1]
         \/ gate.cancels > 0 /\ gate' = [gate EXCEPT !.cancels = @ - 1]
         \/ gate.refusals > 0 /\ gate' = [gate EXCEPT !.refusals = @ - 1]
         \/ gate.doubles > 0 /\ gate' = [gate EXCEPT !.doubles = @ - 1]
  PROVE  /\ gate' \in Setting /\ gate'.concurrency = gate.concurrency
         /\ gate'.backend = gate.backend
BY DEF FlowShape, Setting

\* A step after which no call holds a slot that held none, that leaves the
\* counter and gives no Redis slot.
LEMMA NoneTaken ==
  ASSUME FlowInv, FlowShape', gate'.concurrency = gate.concurrency,
         gate'.backend = gate.backend, doubled' = doubled,
         Memory => inFlight' = inFlight /\ Holders' \subseteq Holders,
         ~Memory => Slots' \subseteq Slots
  PROVE  FlowInv'
<1>1. Memory' = Memory BY DEF Memory
<1>2. Holders \in SUBSET Call /\ Slots \in SUBSET Call BY DEF Holders, Slots
<1>3. CASE Memory
  <2>1. Cardinality(Holders') <= Cardinality(Holders) BY <1>2, <1>3, CallsCounted
  <2>2. Cardinality(Holders') \in Nat /\ Cardinality(Holders) \in Nat
    BY <1>2, <1>3, CallsCounted DEF Holders
  <2>3. inFlight \in Nat /\ gate.concurrency \in Nat /\ doubled \in Nat
    BY DEF FlowInv, FlowShape, Setting
  <2> QED BY <1>1, <1>3, <2>1, <2>2, <2>3 DEF FlowInv, Counted
<1>4. CASE ~Memory
  <2>1. Cardinality(Slots') <= Cardinality(Slots) BY <1>2, <1>4, CallsCounted
  <2>2. Cardinality(Slots') \in Nat /\ Cardinality(Slots) \in Nat
    BY <1>2, <1>4, CallsCounted DEF Slots
  <2>3. gate.concurrency \in Nat BY DEF FlowInv, FlowShape, Setting
  <2> QED BY <1>1, <1>4, <2>1, <2>2, <2>3 DEF FlowInv, Counted
<1> QED BY <1>3, <1>4

\* A call is admitted where the cap leaves room for one more.
LEMMA AdmitStep ==
  ASSUME FlowInv, NEW c \in Call, NEW p \in key, Asking(c), Admitted(p, c), gate' = gate,
         key' = key, up' = up, doubled' = doubled
  PROVE  FlowInv'
<1> USE DEF FlowInv, FlowShape
<1>1. phase' = [phase EXCEPT ![c] = "admitted"] BY DEF Admitted, Goes
<1>2. Holders' = Holders \union {c} /\ c \in Call \ Holders
  BY <1>1 DEF Holders, Holds, Asking
<1>3. FlowShape' BY <1>1 DEF Admitted, Phases
<1>4. Memory' = Memory /\ gate.concurrency \in Nat BY DEF Memory, Setting
<1>5. gate.concurrency > 0 => ~(Taken >= gate.concurrency) BY DEF Admitted, Full
<1>6. CASE Memory
  <2>1. inFlight' = inFlight + 1 BY <1>6 DEF Admitted
  <2>2. Cardinality(Holders') = Cardinality(Holders) + 1 /\ Cardinality(Holders) \in Nat
    BY <1>2, CallsCounted DEF Holders
  <2>3. gate.concurrency > 0 => inFlight < gate.concurrency BY <1>4, <1>5, <1>6 DEF Taken
  <2>4. Cardinality(Holders) <= inFlight + doubled BY <1>6 DEF Counted
  <2>5. /\ Cardinality(Holders') <= inFlight' + doubled'
        /\ gate.concurrency > 0 => Cardinality(Holders') <= gate.concurrency + doubled'
    BY <1>4, <2>1, <2>2, <2>3, <2>4
  <2> QED BY <1>3, <1>4, <1>6, <2>5 DEF Counted
<1>7. CASE ~Memory
  <2>1. slot' = [slot EXCEPT ![c] = p] BY <1>7 DEF Admitted
  <2>2. Slots' \subseteq Slots \union {c} BY <2>1 DEF Slots
  <2>3. Slots \in SUBSET Call /\ Slots \union {c} \in SUBSET Call BY DEF Slots
  <2>4. Cardinality(Slots \union {c}) <= Cardinality(Slots) + 1 /\ Cardinality(Slots) \in Nat
    <3>1. CASE c \in Slots
      <4>1. Slots \union {c} = Slots BY <3>1
      <4> QED BY <2>3, <4>1, CallsCounted
    <3>2. CASE c \notin Slots BY <2>3, <3>2, CallsCounted
    <3> QED BY <3>1, <3>2
  <2>5. /\ Cardinality(Slots') <= Cardinality(Slots \union {c})
        /\ Cardinality(Slots') \in Nat /\ Cardinality(Slots \union {c}) \in Nat
    BY <2>2, <2>3, CallsCounted
  <2>6. gate.concurrency > 0 => Cardinality(Slots) < gate.concurrency
    <3>1. Taken = Cardinality(Slots) BY <1>7 DEF Taken, Slots
    <3> QED BY <1>4, <1>5, <2>4, <3>1
  <2>7. gate.concurrency > 0 => Cardinality(Slots') <= gate.concurrency
    BY <1>4, <2>4, <2>5, <2>6
  <2> QED BY <1>3, <1>4, <1>7, <2>7 DEF Counted
<1> QED BY <1>6, <1>7

\* A call that holds a slot gives it back.
LEMMA FreeStep ==
  ASSUME FlowInv, NEW c \in Call, Holds(c), Freed(c), NEW ph \in Phases,
         ph \in {"done", "retry", "dropped"}, Goes(c, ph), gate' = gate, key' = key, up' = up,
         doubled' = doubled
  PROVE  FlowInv'
<1> USE DEF FlowInv, FlowShape
<1>1. phase' = [phase EXCEPT ![c] = ph] BY DEF Goes
<1>2. Holders' = Holders \ {c} /\ c \in Holders BY <1>1 DEF Holders, Holds
<1>3. FlowShape' BY <1>1 DEF Freed
<1>4. Memory' = Memory /\ gate.concurrency \in Nat BY DEF Memory, Setting
<1>5. CASE Memory
  <2>1. inFlight' = IF inFlight > 0 THEN inFlight - 1 ELSE 0 BY <1>5 DEF Freed
  <2>2. Cardinality(Holders') = Cardinality(Holders) - 1 /\ Cardinality(Holders) \in Nat
    BY <1>2, CallsCounted DEF Holders
  <2>3. /\ Cardinality(Holders) <= inFlight + doubled
        /\ gate.concurrency > 0 => Cardinality(Holders) <= gate.concurrency + doubled
    BY <1>5 DEF Counted
  <2>4. /\ Cardinality(Holders') <= inFlight' + doubled'
        /\ gate.concurrency > 0 => Cardinality(Holders') <= gate.concurrency + doubled'
    BY <1>4, <2>1, <2>2, <2>3
  <2> QED BY <1>3, <1>4, <1>5, <2>4 DEF Counted
<1>6. CASE ~Memory
  <2>1. slot' = [slot EXCEPT ![c] = NoPod] BY <1>6 DEF Freed
  <2>2. Slots' \subseteq Slots BY <2>1, FlowAssumption DEF Slots
  <2> QED BY <1>3, <1>6, <2>2, NoneTaken
<1> QED BY <1>5, <1>6

\* Every step of a call, a pod or the clock counts its slots.
LEMMA FlowStep == ASSUME FlowInv, [FlowNext]_flowVars PROVE FlowInv'
<1> USE DEF FlowInv, FlowShape
<1>1. ASSUME NEW p \in Pod, NEW c \in Call, TryAdmit(p, c) PROVE FlowInv'
  <2>1. CASE Denied(p, c)
    <3>1. phase' = [phase EXCEPT ![c] = "waiting"] /\ UNCHANGED <<gate, key, up, inFlight, slot, doubled>>
      BY <1>1, <2>1 DEF TryAdmit, Denied, Goes
    <3>2. FlowShape' BY <3>1 DEF Phases
    <3>3. Holders' \subseteq Holders /\ Slots' = Slots BY <3>1 DEF Holders, Holds, Slots
    <3> QED BY <3>1, <3>2, <3>3, NoneTaken
  <2>2. CASE Admitted(p, c)
    BY <1>1, <2>2, AdmitStep DEF TryAdmit
  <2> QED BY <1>1, <2>1, <2>2 DEF TryAdmit
<1>2. ASSUME NEW c \in Call, Send(c) \/ Refused(c) PROVE FlowInv'
  <2>1. /\ phase[c] = "admitted"
        /\ \E ph \in {"pending", "blocked"} : phase' = [phase EXCEPT ![c] = ph]
        /\ UNCHANGED <<key, up, inFlight, slot, doubled>>
    BY <1>2 DEF Send, Refused, Goes, gateVars, seenVars
  <2>2. Holders' \subseteq Holders /\ Slots' = Slots BY <2>1 DEF Holders, Holds, Slots
  <2>3. /\ gate' \in Setting /\ gate'.concurrency = gate.concurrency
        /\ gate'.backend = gate.backend
    BY <1>2, GateStays DEF Send, Refused
  <2>4. FlowShape' BY <2>1, <2>3 DEF Phases
  <2> QED BY <2>1, <2>2, <2>3, <2>4, NoneTaken
<1>3. ASSUME NEW p \in Pod, NEW c \in Call, Settle(p, c) PROVE FlowInv'
  <2>1. /\ phase[c] = "pending"
        /\ \E ph \in {"settled", "settledFailed"} : phase' = [phase EXCEPT ![c] = ph]
        /\ UNCHANGED <<key, up, inFlight, slot, doubled>>
    BY <1>3 DEF Settle, Goes, gateVars, seenVars
  <2>2. Holders' \subseteq Holders /\ Slots' = Slots BY <2>1 DEF Holders, Holds, Slots
  <2>3. /\ gate' \in Setting /\ gate'.concurrency = gate.concurrency
        /\ gate'.backend = gate.backend
    BY <1>3, GateStays DEF Settle
  <2>4. FlowShape' BY <2>1, <2>3 DEF Phases
  <2> QED BY <2>1, <2>2, <2>3, <2>4, NoneTaken
<1>4. ASSUME NEW c \in Call, Release(c) \/ LateResult(c) PROVE FlowInv'
  <2>1. CASE Release(c)
    <3>1. AfterSettled(phase[c]) \in Phases /\ AfterSettled(phase[c]) \in {"done", "retry", "dropped"}
      BY DEF AfterSettled, Phases
    <3> QED BY <2>1, <3>1, FreeStep DEF Release, Holds, seenVars
  <2>2. CASE LateResult(c)
    <3>1. "dropped" \in Phases BY DEF Phases
    <3> QED BY <2>2, <3>1, FreeStep DEF LateResult, Holds, seenVars
  <2> QED BY <1>4, <2>1, <2>2
<1>5. ASSUME NEW c \in Call, Cancel(c) PROVE FlowInv'
  <2>1. /\ phase' = [phase EXCEPT ![c] = IF phase[c] = "pending" THEN "late" ELSE "ended"]
        /\ UNCHANGED <<key, up, inFlight, slot, doubled>>
    BY <1>5 DEF Cancel, Goes, gateVars, seenVars
  <2>2. Holders' \subseteq Holders /\ Slots' = Slots BY <2>1 DEF Holders, Holds, Slots
  <2>3. /\ gate' \in Setting /\ gate'.concurrency = gate.concurrency
        /\ gate'.backend = gate.backend
    BY <1>5, GateStays DEF Cancel
  <2>4. FlowShape' BY <2>1, <2>3 DEF Phases
  <2> QED BY <2>1, <2>2, <2>3, <2>4, NoneTaken
<1>6. ASSUME NEW p \in Pod, Crash(p) PROVE FlowInv'
  <2>1. ~Memory /\ up' \subseteq up /\ UNCHANGED <<key, inFlight, slot, doubled>>
    BY <1>6 DEF Crash, gateVars, seenVars
  <2>2. phase' \in [Call -> Phases] BY <1>6 DEF Crash, AfterSettled, Phases
  <2>3. /\ gate' \in Setting /\ gate'.concurrency = gate.concurrency
        /\ gate'.backend = gate.backend
    BY <1>6, GateStays DEF Crash
  <2>4. FlowShape' /\ Slots' = Slots BY <2>1, <2>2, <2>3 DEF Slots
  <2> QED BY <2>1, <2>3, <2>4, NoneTaken
<1>7. ASSUME NEW p \in Pod, InstanceLapses(p) PROVE FlowInv'
  <2>1. key' = key \ {p} /\ p \notin up /\ UNCHANGED <<gate, phase, up, inFlight, slot, doubled>>
    BY <1>7 DEF InstanceLapses, gateVars, seenVars
  <2>2. FlowShape' /\ Slots' \subseteq Slots /\ Holders' = Holders
    BY <2>1 DEF Slots, Holders, Holds
  <2> QED BY <2>1, <2>2, NoneTaken
<1>8. CASE UNCHANGED <<gate, phase, key, up, inFlight, slot, doubled>>
  <2>1. FlowShape' /\ Slots' = Slots /\ Holders' = Holders BY <1>8 DEF Slots, Holders, Holds
  <2> QED BY <1>8, <2>1, NoneTaken
<1>9. ASSUME NEW c \in Call, WaiterLapses(c) PROVE UNCHANGED <<gate, phase, key, up, inFlight, slot, doubled>>
  BY <1>9 DEF WaiterLapses, seenVars
<1>10. CASE Tick BY <1>8, <1>10 DEF Tick
<1>11. CASE UNCHANGED flowVars BY <1>8, <1>11 DEF flowVars, gateVars, seenVars
<1>12. ASSUME NEW c \in Call, LateAgain(c) PROVE FlowInv'
  <2>1. /\ UNCHANGED <<phase, key, up>> /\ doubled' = doubled + 1 /\ Freed(c)
        /\ gate.doubles > 0 /\ gate' = [gate EXCEPT !.doubles = @ - 1]
    BY <1>12 DEF LateAgain
  <2>2. /\ gate' \in Setting /\ gate'.concurrency = gate.concurrency
        /\ gate'.backend = gate.backend
    BY <2>1, GateStays
  <2>3. FlowShape' BY <2>1, <2>2 DEF Freed
  <2>4. Memory' = Memory /\ gate.concurrency \in Nat BY <2>2 DEF Memory, Setting
  <2>5. CASE Memory
    <3>1. Holders' = Holders /\ Cardinality(Holders) \in Nat
      BY <2>1, CallsCounted DEF Holders, Holds
    <3>2. inFlight' = IF inFlight > 0 THEN inFlight - 1 ELSE 0 BY <2>1, <2>5 DEF Freed
    <3>3. /\ Cardinality(Holders) <= inFlight + doubled
          /\ gate.concurrency > 0 => Cardinality(Holders) <= gate.concurrency + doubled
      BY <2>5 DEF Counted
    <3>4. /\ Cardinality(Holders') <= inFlight' + doubled'
          /\ gate.concurrency > 0 => Cardinality(Holders') <= gate.concurrency + doubled'
      BY <2>1, <2>4, <3>1, <3>2, <3>3
    <3> QED BY <2>2, <2>3, <2>4, <2>5, <3>4 DEF Counted
  <2>6. CASE ~Memory
    <3>1. slot' = [slot EXCEPT ![c] = NoPod] /\ inFlight' = inFlight BY <2>1, <2>6 DEF Freed
    <3>2. Slots' \subseteq Slots /\ Slots \in SUBSET Call BY <2>1, <3>1, FlowAssumption DEF Slots
    <3>3. /\ Cardinality(Slots') <= Cardinality(Slots)
          /\ Cardinality(Slots') \in Nat /\ Cardinality(Slots) \in Nat
      BY <3>2, CallsCounted
    <3> QED BY <2>2, <2>3, <2>4, <2>6, <3>3 DEF Counted
  <2> QED BY <2>5, <2>6
<1> QED
  BY <1>1, <1>2, <1>3, <1>4, <1>5, <1>6, <1>7, <1>8, <1>9, <1>10, <1>11, <1>12 DEF FlowNext

\* The cap of a queue, for any number of calls and pods and whatever fails, parks,
\* is cancelled, dies or is delivered again.  On Redis, of the calls that hold a
\* slot of a live pod there are never more than its concurrency; in process there
\* may be one more for each late result of a cancelled run delivered once more,
\* and for nothing else.
THEOREM CapIsKept == FlowSpec => []CapHolds
<1>1. FlowInv => CapHolds
  <2> SUFFICES ASSUME FlowInv, gate.concurrency > 0
               PROVE  Cardinality(Running) <= gate.concurrency + (IF Memory THEN doubled ELSE 0)
    BY DEF CapHolds
  <2>1. Holders \in SUBSET Call /\ Slots \in SUBSET Call BY DEF Holders, Slots
  <2>2. gate.concurrency \in Nat BY DEF FlowInv, FlowShape, Setting
  <2>3. CASE Memory
    <3>1. Running = Holders BY <2>3 DEF Holders, Running
    <3> QED BY <2>3, <3>1 DEF FlowInv, Counted
  <2>4. CASE ~Memory
    <3>1. Running \in SUBSET Slots BY <2>4 DEF Slots, Running
    <3>2. /\ Cardinality(Running) <= Cardinality(Slots) /\ Cardinality(Running) \in Nat
          /\ Cardinality(Slots) \in Nat
      BY <2>1, <3>1, CallsCounted
    <3>3. Cardinality(Slots) <= gate.concurrency BY <2>4 DEF FlowInv, Counted
    <3> QED BY <2>2, <2>4, <3>2, <3>3
  <2> QED BY <2>3, <2>4
<1> QED BY <1>1, InitFlow, FlowStep, PTL DEF FlowSpec

-----------------------------------------------------------------------------
(***************************************************************************)
(* Queues.  Who stands in a queue stands there once, at its Place; taking  *)
(* somebody out, or adding somebody at the end, leaves the others in their *)
(* order.                                                                  *)
(***************************************************************************)
Queue(S) == {s \in Seq(S) : IsInjective(s)}
InOrderOf(s, t, x, y) == Place(s, x) < Place(s, y) <=> Place(t, x) < Place(t, y)

\* Place finds who stands in the queue, and is 0 for nobody else.
LEMMA PlaceIs ==
  ASSUME NEW S, NEW s \in Queue(S), NEW x
  PROVE  /\ Contains(s, x) => Place(s, x) \in 1 .. Len(s) /\ s[Place(s, x)] = x /\ x \in S
         /\ \A i \in 1 .. Len(s) : s[i] = x => Contains(s, x) /\ Place(s, x) = i
         /\ ~Contains(s, x) <=> Place(s, x) = 0
         /\ Place(s, x) \in Nat
         /\ Len(s) \in Nat /\ s \in Seq(S) /\ IsInjective(s)
<1> USE DEF Queue
<1>1. Len(s) \in Nat /\ DOMAIN s = 1 .. Len(s) OBVIOUS
<1>2. ASSUME Contains(s, x)
      PROVE Place(s, x) \in 1 .. Len(s) /\ s[Place(s, x)] = x /\ x \in S
  <2>1. PICK i \in 1 .. Len(s) : s[i] = x BY <1>2 DEF Contains
  <2>2. Place(s, x) = CHOOSE j \in 1 .. Len(s) : s[j] = x BY <1>2 DEF Place
  <2>3. Place(s, x) \in 1 .. Len(s) /\ s[Place(s, x)] = x BY <2>1, <2>2
  <2> QED BY <2>3
<1>3. ASSUME NEW i \in 1 .. Len(s), s[i] = x PROVE Contains(s, x) /\ Place(s, x) = i
  <2>1. Contains(s, x) BY <1>3 DEF Contains
  <2> QED BY <1>1, <1>2, <1>3, <2>1 DEF IsInjective
<1>4. ~Contains(s, x) => Place(s, x) = 0 BY DEF Place
<1> QED BY <1>1, <1>2, <1>3, <1>4

\* One sequence after another.
LEMMA ConcatIs ==
  ASSUME NEW S, NEW s \in Seq(S), NEW t \in Seq(S)
  PROVE  /\ s \o t \in Seq(S) /\ Len(s \o t) = Len(s) + Len(t)
         /\ \A i \in 1 .. Len(s) : (s \o t)[i] = s[i]
         /\ \A i \in 1 .. Len(s \o t) : i > Len(s) => (s \o t)[i] = t[i - Len(s)]
OBVIOUS

\* Without drops x and nobody else, and keeps the others in their order.
LEMMA WithoutIs ==
  ASSUME NEW S, NEW s \in Queue(S), NEW x
  PROVE  /\ Without(s, x) \in Queue(S)
         /\ \A y : Contains(Without(s, x), y) <=> Contains(s, y) /\ y # x
         /\ \A y, z : y # x /\ z # x => InOrderOf(Without(s, x), s, y, z)
<1> DEFINE p == Place(s, x)
           w == Without(s, x)
<1>0. s \in Seq(S) /\ Len(s) \in Nat BY DEF Queue
<1>1. CASE ~Contains(s, x)
  <2>1. w = s BY <1>1 DEF Without
  <2>2. \A y : Contains(s, y) => y # x BY <1>1
  <2> QED BY <2>1, <2>2 DEF InOrderOf
<1>2. CASE Contains(s, x)
  <2>1. p \in 1 .. Len(s) /\ s[p] = x BY <1>2, PlaceIs
  <2>2. w = SubSeq(s, 1, p - 1) \o SubSeq(s, p + 1, Len(s)) BY <1>2 DEF Without, RemoveAt
  <2> HIDE DEF p, w
  <2>3. /\ SubSeq(s, 1, p - 1) \in Seq(S) /\ Len(SubSeq(s, 1, p - 1)) = p - 1
        /\ \A i \in 1 .. p - 1 : SubSeq(s, 1, p - 1)[i] = s[i]
    BY <1>0, <2>1
  <2>4. /\ SubSeq(s, p + 1, Len(s)) \in Seq(S) /\ Len(SubSeq(s, p + 1, Len(s))) = Len(s) - p
        /\ \A i \in 1 .. Len(s) - p : SubSeq(s, p + 1, Len(s))[i] = s[p + i]
    BY <1>0, <2>1
  <2>0. /\ w \in Seq(S) /\ Len(w) = (p - 1) + (Len(s) - p)
        /\ \A i \in 1 .. p - 1 : w[i] = SubSeq(s, 1, p - 1)[i]
        /\ \A i \in 1 .. Len(w) : i > p - 1 => w[i] = SubSeq(s, p + 1, Len(s))[i - (p - 1)]
    BY <2>2, <2>3, <2>4, ConcatIs, SMTT(30)
  <2>5. w \in Seq(S) /\ Len(w) = Len(s) - 1 BY <1>0, <2>0, <2>1
  <2>6. \A i \in 1 .. Len(w) : w[i] = IF i < p THEN s[i] ELSE s[i + 1]
    <3> SUFFICES ASSUME NEW i \in 1 .. Len(w) PROVE w[i] = IF i < p THEN s[i] ELSE s[i + 1]
      OBVIOUS
    <3>1. CASE i < p
      <4>1. i \in 1 .. p - 1 BY <1>0, <2>1, <2>5, <3>1
      <4> QED BY <2>0, <2>3, <3>1, <4>1
    <3>2. CASE ~(i < p)
      <4>1. w[i] = SubSeq(s, p + 1, Len(s))[i - (p - 1)]
        BY <1>0, <2>0, <2>1, <2>5, <3>2
      <4>2. i - (p - 1) \in 1 .. Len(s) - p /\ p + (i - (p - 1)) = i + 1
        BY <1>0, <2>1, <2>5, <3>2
      <4> QED BY <2>4, <3>2, <4>1, <4>2
    <3> QED BY <3>1, <3>2
  <2>7. DOMAIN w = 1 .. Len(w) /\ DOMAIN s = 1 .. Len(s) BY <1>0, <2>5
  <2>8. \A i, j \in 1 .. Len(s) : s[i] = s[j] => i = j BY <2>7 DEF Queue, IsInjective
  <2>9. IsInjective(w)
    <3> SUFFICES ASSUME NEW i \in 1 .. Len(w), NEW j \in 1 .. Len(w), w[i] = w[j] PROVE i = j
      BY <2>7 DEF IsInjective
    <3>1. /\ (IF i < p THEN i ELSE i + 1) \in 1 .. Len(s)
          /\ (IF j < p THEN j ELSE j + 1) \in 1 .. Len(s)
      BY <1>0, <2>1, <2>5
    <3>2. (IF i < p THEN i ELSE i + 1) = (IF j < p THEN j ELSE j + 1)
      BY <2>6, <2>8, <3>1
    <3> QED BY <1>0, <2>1, <2>5, <3>2
  <2>10. w \in Queue(S) BY <2>5, <2>9 DEF Queue
  <2>11. ASSUME NEW y, Contains(s, y), y # x
         PROVE /\ Contains(w, y)
               /\ Place(w, y) = IF Place(s, y) < p THEN Place(s, y) ELSE Place(s, y) - 1
               /\ Place(s, y) \in 1 .. Len(s) /\ Place(s, y) # p
    <3> DEFINE q == Place(s, y)
               i == IF q < p THEN q ELSE q - 1
    <3>1. q \in 1 .. Len(s) /\ s[q] = y BY <2>11, PlaceIs
    <3>2. q # p BY <2>1, <2>11, <3>1
    <3> HIDE DEF q
    <3>3. i \in 1 .. Len(w) BY <1>0, <2>1, <2>5, <3>1, <3>2
    <3>4. w[i] = y
      <4>1. CASE q < p BY <2>6, <3>1, <3>3, <4>1
      <4>2. CASE ~(q < p)
        <5>1. i = q - 1 /\ ~(i < p) /\ i + 1 = q BY <1>0, <2>1, <3>1, <3>2, <4>2
        <5> QED BY <2>6, <3>1, <3>3, <5>1
      <4> QED BY <4>1, <4>2
    <3> HIDE DEF i
    <3>5. Contains(w, y) /\ Place(w, y) = i BY <2>10, <3>3, <3>4, PlaceIs
    <3> QED BY <3>1, <3>2, <3>5 DEF i, q
  <2>12. ASSUME NEW y, Contains(w, y) PROVE Contains(s, y) /\ y # x
    <3>1. PICK i \in 1 .. Len(w) : w[i] = y BY <2>12 DEF Contains
    <3>2. /\ (IF i < p THEN i ELSE i + 1) \in 1 .. Len(s)
          /\ (IF i < p THEN i ELSE i + 1) # p
      BY <1>0, <2>1, <2>5
    <3>3. s[IF i < p THEN i ELSE i + 1] = y BY <2>6, <3>1
    <3> QED BY <2>1, <2>8, <3>2, <3>3 DEF Contains
  <2>13. ASSUME NEW y, NEW z, y # x, z # x PROVE InOrderOf(w, s, y, z)
    <3>1. Place(s, y) \in Nat /\ Place(s, z) \in Nat BY PlaceIs
    <3>2. CASE Contains(s, y) /\ Contains(s, z)
      BY <1>0, <2>1, <2>11, <2>13, <3>1, <3>2 DEF InOrderOf
    <3>3. CASE ~Contains(s, y)
      <4>1. Place(s, y) = 0 /\ Place(w, y) = 0 BY <2>10, <2>12, <3>3, PlaceIs
      <4>2. Contains(w, z) <=> Contains(s, z) BY <2>11, <2>12, <2>13
      <4>3. 0 < Place(s, z) <=> 0 < Place(w, z)
        BY <2>10, <4>2, PlaceIs
      <4> QED BY <4>1, <4>3 DEF InOrderOf
    <3>4. CASE ~Contains(s, z)
      <4>1. Place(s, z) = 0 /\ Place(w, z) = 0 BY <2>10, <2>12, <3>4, PlaceIs
      <4>2. Place(w, y) \in Nat BY <2>10, PlaceIs
      <4> QED BY <3>1, <4>1, <4>2 DEF InOrderOf
    <3> QED BY <3>2, <3>3, <3>4
  <2>14. \A y : Contains(w, y) <=> Contains(s, y) /\ y # x BY <2>11, <2>12
  <2>15. \A y, z : y # x /\ z # x => InOrderOf(w, s, y, z) BY <2>13
  <2> QED BY <2>10, <2>14, <2>15 DEF w
<1> QED BY <1>1, <1>2

\* Who comes stands at the end.
LEMMA AppendIs ==
  ASSUME NEW S, NEW s \in Queue(S), NEW x \in S, ~Contains(s, x)
  PROVE  /\ Append(s, x) \in Queue(S)
         /\ \A y : Contains(Append(s, x), y) <=> Contains(s, y) \/ y = x
         /\ \A y : y # x => Place(Append(s, x), y) = Place(s, y)
         /\ \A y : y # x => Place(Append(s, x), y) < Place(Append(s, x), x)
<1> DEFINE w == Append(s, x)
<1>1. s \in Seq(S) /\ Len(s) \in Nat /\ DOMAIN s = 1 .. Len(s) BY DEF Queue
<1>2. /\ w \in Seq(S) /\ Len(w) = Len(s) + 1 /\ DOMAIN w = 1 .. Len(w)
      /\ \A i \in 1 .. Len(s) : w[i] = s[i]
      /\ w[Len(s) + 1] = x
  BY <1>1
<1> HIDE DEF w
<1>3. \A i, j \in 1 .. Len(s) : s[i] = s[j] => i = j BY <1>1 DEF Queue, IsInjective
<1>4. \A i \in 1 .. Len(s) : s[i] # x BY DEF Contains
<1>5. IsInjective(w)
  <2> SUFFICES ASSUME NEW i \in 1 .. Len(w), NEW j \in 1 .. Len(w), w[i] = w[j] PROVE i = j
    BY <1>2 DEF IsInjective
  <2>1. /\ i \in 1 .. Len(s) \/ i = Len(s) + 1
        /\ j \in 1 .. Len(s) \/ j = Len(s) + 1
    BY <1>1, <1>2
  <2> QED BY <1>2, <1>3, <1>4, <2>1
<1>6. w \in Queue(S) BY <1>2, <1>5 DEF Queue
<1>7. 1 .. Len(w) = 1 .. Len(s) \union {Len(s) + 1} BY <1>1, <1>2
<1>8. \A y : Contains(w, y) <=> Contains(s, y) \/ y = x BY <1>2, <1>7 DEF Contains
<1>9. Place(w, x) = Len(s) + 1 BY <1>2, <1>6, <1>7, PlaceIs
<1>10. ASSUME NEW y, y # x PROVE Place(w, y) = Place(s, y) /\ Place(s, y) \in 0 .. Len(s)
  <2>1. CASE Contains(s, y)
    <3>1. Place(s, y) \in 1 .. Len(s) /\ s[Place(s, y)] = y BY <2>1, PlaceIs
    <3>2. w[Place(s, y)] = y /\ Place(s, y) \in 1 .. Len(w) BY <1>2, <1>7, <3>1
    <3> QED BY <1>6, <3>1, <3>2, PlaceIs, SMTT(30)
  <2>2. CASE ~Contains(s, y)
    <3>1. ~Contains(w, y) BY <1>8, <1>10, <2>2
    <3> QED BY <1>1, <1>6, <2>2, <3>1, PlaceIs
  <2> QED BY <2>1, <2>2
<1>11. \A y : y # x => Place(w, y) = Place(s, y) BY <1>10
<1>12. \A y : y # x => Place(w, y) < Place(w, x) BY <1>1, <1>9, <1>10
<1> QED BY <1>6, <1>8, <1>11, <1>12 DEF w

-----------------------------------------------------------------------------
(***************************************************************************)
(* The rate limit.  The ages of the admissions are in order, the oldest in *)
(* front, so that those that leave at a tick are a prefix.  A sliding      *)
(* window remembers exactly the admissions of the last Period ticks.  Of a *)
(* fixed one, the first n of them were made before the current window      *)
(* began: they are at least as old as it is, and gone when the next one    *)
(* begins.                                                                 *)
(***************************************************************************)
Aged(ages) ==
    /\ ages \in Seq(Nat)
    /\ \A i \in 1 .. Len(ages) : ages[i] < Period
    /\ \A i, j \in 1 .. Len(ages) : i < j => ages[i] >= ages[j]

Earlier(n) ==
    /\ n <= gate.rateLimit
    /\ Len(recent) - n <= window.count
    /\ \A i \in 1 .. n : recent[i] >= window.age

RateInv ==
    /\ Aged(admits) /\ Aged(recent)
    /\ window \in [age : 0..Period, count : 0..gate.rateLimit]
    /\ ~Memory => window.age < Period
    /\ gate.rate = "sliding" => recent = admits /\ Len(admits) <= gate.rateLimit
    /\ gate.rate = "fixed" => \E n \in 0 .. Len(recent) : Earlier(n)

\* What a tick leaves of the admissions: all but the first g, those that have
\* reached Period.
LEMMA OlderIs ==
  ASSUME NEW ages, Aged(ages)
  PROVE  /\ Aged(Older(ages))
         /\ \E g \in 0 .. Len(ages) :
              /\ Len(Older(ages)) = Len(ages) - g
              /\ \A i \in 1 .. Len(ages) - g : Older(ages)[i] = ages[i + g] + 1
              /\ \A i \in 1 .. Len(ages) : i <= g <=> ages[i] + 1 >= Period
<1> DEFINE G == {i \in 1 .. Len(ages) : ages[i] + 1 >= Period}
           g == Cardinality(G)
           w == Older(ages)
<1>0. /\ ages \in Seq(Nat) /\ Len(ages) \in Nat /\ Period \in Nat \ {0}
      /\ \A i \in 1 .. Len(ages) : ages[i] \in Nat /\ ages[i] < Period
      /\ \A i, j \in 1 .. Len(ages) : i < j => ages[i] >= ages[j]
  BY FlowAssumption DEF Aged
<1>1. /\ IsFiniteSet(1 .. Len(ages)) /\ Cardinality(1 .. Len(ages)) = Len(ages)
  BY <1>0, FS_Interval
<1>2. IsFiniteSet(G) /\ g \in Nat /\ g <= Len(ages)
  <2>1. G \in SUBSET (1 .. Len(ages)) OBVIOUS
  <2> QED BY <1>1, <2>1, FS_Subset, FS_CardinalityType
<1>3. ASSUME NEW i \in G PROVE i \in 1 .. g
  <2>1. 1 .. i \subseteq G BY <1>0, SMTT(30)
  <2>2. i \in Nat /\ Cardinality(1 .. i) = i BY <1>0, FS_Interval
  <2>3. Cardinality(1 .. i) <= g BY <1>2, <2>1, FS_Subset
  <2> QED BY <1>0, <1>2, <2>2, <2>3
<1>4. G = 1 .. g
  <2>1. G \in SUBSET (1 .. g) BY <1>3
  <2>2. IsFiniteSet(1 .. g) /\ Cardinality(1 .. g) = g BY <1>2, FS_Interval
  <2> QED BY <2>1, <2>2, FS_Subset
<1>5. w = [i \in 1 .. Len(ages) - g |-> ages[i + g] + 1] BY DEF Older
<1> HIDE DEF g, w
<1>6. \A i \in 1 .. Len(ages) : i <= g <=> ages[i] + 1 >= Period BY <1>2, <1>4
<1>7. \A i \in 1 .. Len(ages) - g : i + g \in 1 .. Len(ages) /\ ~(i + g <= g)
  BY <1>0, <1>2
<1>8. w \in Seq(Nat) /\ Len(w) = Len(ages) - g
  <2>1. \A i \in 1 .. Len(ages) - g : ages[i + g] + 1 \in Nat BY <1>0, <1>7
  <2>2. Len(ages) - g \in Nat BY <1>0, <1>2
  <2> QED BY <1>5, <2>1, <2>2
<1>9. \A i \in 1 .. Len(ages) - g : w[i] = ages[i + g] + 1 BY <1>5
<1>10. Aged(w)
  <2>1. \A i \in 1 .. Len(w) : w[i] < Period
    <3> SUFFICES ASSUME NEW i \in 1 .. Len(w) PROVE w[i] < Period OBVIOUS
    <3>1. ages[i + g] \in Nat /\ ~(ages[i + g] + 1 >= Period) BY <1>0, <1>6, <1>7, <1>8
    <3> QED BY <1>0, <1>8, <1>9, <3>1
  <2>2. \A i, j \in 1 .. Len(w) : i < j => w[i] >= w[j]
    <3> SUFFICES ASSUME NEW i \in 1 .. Len(w), NEW j \in 1 .. Len(w), i < j
                 PROVE  w[i] >= w[j]
      OBVIOUS
    <3>1. /\ i + g \in 1 .. Len(ages) /\ j + g \in 1 .. Len(ages) /\ i + g < j + g
      BY <1>2, <1>7, <1>8
    <3>2. ages[i + g] >= ages[j + g] /\ ages[i + g] \in Nat /\ ages[j + g] \in Nat
      BY <1>0, <3>1
    <3>3. w[i] = ages[i + g] + 1 /\ w[j] = ages[j + g] + 1 BY <1>8, <1>9
    <3> QED BY <3>2, <3>3
  <2> QED BY <1>8, <2>1, <2>2 DEF Aged
<1>11. g \in 0 .. Len(ages) BY <1>0, <1>2
<1> QED BY <1>6, <1>8, <1>9, <1>10, <1>11 DEF w

\* An admission now is the youngest.
LEMMA YoungestLast ==
  ASSUME NEW ages, Aged(ages)
  PROVE  /\ Aged(Append(ages, 0)) /\ Len(Append(ages, 0)) = Len(ages) + 1
         /\ \A i \in 1 .. Len(ages) : Append(ages, 0)[i] = ages[i]
<1> DEFINE w == Append(ages, 0)
<1>0. /\ ages \in Seq(Nat) /\ Len(ages) \in Nat /\ Period \in Nat \ {0}
      /\ \A i \in 1 .. Len(ages) : ages[i] \in Nat /\ ages[i] < Period
      /\ \A i, j \in 1 .. Len(ages) : i < j => ages[i] >= ages[j]
  BY FlowAssumption DEF Aged
<1>1. /\ w \in Seq(Nat) /\ Len(w) = Len(ages) + 1
      /\ \A i \in 1 .. Len(ages) : w[i] = ages[i]
      /\ w[Len(ages) + 1] = 0
  BY <1>0
<1> HIDE DEF w
<1>2. \A i \in 1 .. Len(w) : i \in 1 .. Len(ages) \/ i = Len(ages) + 1 BY <1>0, <1>1
<1>3. \A i \in 1 .. Len(w) : w[i] < Period
  <2> SUFFICES ASSUME NEW i \in 1 .. Len(w) PROVE w[i] < Period OBVIOUS
  <2>1. CASE i \in 1 .. Len(ages) BY <1>0, <1>1, <2>1
  <2>2. CASE i = Len(ages) + 1 BY <1>0, <1>1, <2>2
  <2> QED BY <1>2, <2>1, <2>2
<1>4. \A i, j \in 1 .. Len(w) : i < j => w[i] >= w[j]
  <2> SUFFICES ASSUME NEW i \in 1 .. Len(w), NEW j \in 1 .. Len(w), i < j PROVE w[i] >= w[j]
    OBVIOUS
  <2>1. i \in 1 .. Len(ages) BY <1>0, <1>1
  <2>2. w[i] = ages[i] /\ w[i] \in Nat BY <1>0, <1>1, <2>1
  <2>3. CASE j \in 1 .. Len(ages)
    <3>1. w[j] = ages[j] /\ ages[i] >= ages[j] BY <1>0, <1>1, <2>1, <2>3
    <3> QED BY <2>2, <3>1
  <2>4. CASE j = Len(ages) + 1 BY <1>1, <2>2, <2>4
  <2> QED BY <1>2, <2>3, <2>4
<1> QED BY <1>1, <1>3, <1>4 DEF w, Aged

-----------------------------------------------------------------------------
\* What a queue is configured to do never changes.
SameQueue ==
    /\ gate'.backend = gate.backend /\ gate'.rate = gate.rate
    /\ gate'.rateLimit = gate.rateLimit /\ gate'.order = gate.order
    /\ gate'.fairness = gate.fairness /\ gate'.priority = gate.priority
    /\ gate'.key = gate.key

\* What a queue is configured with stays.
LEMMA QueueIsConfigured == ASSUME FlowShape, [FlowNext]_flowVars PROVE SameQueue
<1> USE DEF SameQueue
<1>1. gate' = gate \/ \E f \in {"failures", "crashes", "cancels", "refusals", "doubles"} :
        gate' = [gate EXCEPT ![f] = @ - 1]
  BY DEF FlowNext, TryAdmit, Send, Refused, Settle, Release, Cancel, LateResult,
         LateAgain, Crash,
         InstanceLapses, WaiterLapses, Tick, flowVars
<1> QED BY <1>1 DEF FlowShape, Setting

\* The limit of a queue is kept by every step that admits nobody and leaves
\* the window, or starts a memory window of Period ticks anew.
LEMMA RateStep == ASSUME FlowInv, RateInv, [FlowNext]_flowVars PROVE RateInv'
<1> USE FlowAssumption
<1>0. SameQueue BY QueueIsConfigured DEF FlowInv
<1>1. /\ gate.rateLimit \in Nat \ {0} /\ gate.rate \in {"none", "fixed", "sliding"}
      /\ Memory' = Memory /\ Period \in Nat \ {0}
  BY <1>0 DEF FlowInv, FlowShape, Setting, SameQueue, Memory
<1>2. /\ admits \in Seq(Nat) /\ Len(admits) \in Nat /\ recent \in Seq(Nat) /\ Len(recent) \in Nat
      /\ Aged(admits) /\ Aged(recent)
      /\ window \in [age : 0..Period, count : 0..gate.rateLimit]
      /\ \A i \in 1 .. Len(recent) : recent[i] \in Nat /\ recent[i] < Period
  BY DEF RateInv, Aged
<1>3. ASSUME UNCHANGED <<window, admits, recent>> PROVE RateInv'
  BY <1>0, <1>1, <1>3 DEF RateInv, Earlier, Aged, SameQueue
<1>4. /\ Window \in [age : 0..Period, count : 0..gate.rateLimit]
      /\ ~Memory => Window.age < Period
  BY <1>1, <1>2 DEF Window, RateInv
\* The window looked at when a call asks.
<1>5. gate.rate = "fixed" => \E n \in 0 .. Len(recent) :
        /\ n <= gate.rateLimit /\ Len(recent) - n <= Window.count
        /\ \A i \in 1 .. n : recent[i] >= Window.age
  <2> SUFFICES ASSUME gate.rate = "fixed"
               PROVE  \E n \in 0 .. Len(recent) :
                        /\ n <= gate.rateLimit /\ Len(recent) - n <= Window.count
                        /\ \A i \in 1 .. n : recent[i] >= Window.age
    OBVIOUS
  <2>1. PICK n \in 0 .. Len(recent) : Earlier(n) BY DEF RateInv
  <2>2. CASE Memory /\ window.age = Period
    <3>1. Window = [age |-> 0, count |-> 0] BY <2>2 DEF Window
    <3>2. n = 0
      <4> SUFFICES ASSUME n # 0 PROVE FALSE OBVIOUS
      <4>1. 1 \in 1 .. n /\ 1 \in 1 .. Len(recent) BY <1>2, <2>1
      <4> QED BY <1>2, <2>1, <2>2, <4>1 DEF Earlier
    <3>3. Len(recent) <= gate.rateLimit BY <1>1, <1>2, <2>1, <3>2 DEF Earlier
    <3>4. \A i \in 1 .. Len(recent) : recent[i] >= Window.age BY <1>2, <3>1
    <3>5. Len(recent) - Len(recent) <= Window.count /\ Len(recent) \in 0 .. Len(recent)
      BY <1>2, <3>1
    <3> QED BY <3>3, <3>4, <3>5
  <2>3. CASE ~(Memory /\ window.age = Period)
    BY <2>1, <2>3 DEF Window, Earlier
  <2> QED BY <2>2, <2>3
<1>6. ASSUME NEW p \in Pod, NEW c \in Call, Denied(p, c), gate' = gate PROVE RateInv'
  <2>1. /\ admits' = admits /\ recent' = recent
        /\ window' = IF gate.rate = "fixed" THEN Window ELSE window
    BY <1>6 DEF Denied
  <2>2. CASE gate.rate = "fixed"
    BY <1>1, <1>2, <1>4, <1>5, <1>6, <2>1, <2>2 DEF RateInv, Earlier, Aged
  <2>3. CASE gate.rate # "fixed" BY <1>3, <2>1, <2>3
  <2> QED BY <2>2, <2>3
<1>7. ASSUME NEW p \in Pod, NEW c \in Call, Admitted(p, c), gate' = gate PROVE RateInv'
  <2>0. ~RateSpent /\ CountRate BY <1>7 DEF Admitted
  <2>1. CASE gate.rate = "fixed"
    <3>1. /\ window' = [Window EXCEPT !.count = @ + 1] /\ admits' = admits
          /\ recent' = Append(recent, 0) /\ ~(Window.count >= gate.rateLimit)
      BY <2>0, <2>1 DEF RateSpent, CountRate
    <3>2. /\ Aged(Append(recent, 0)) /\ Len(Append(recent, 0)) = Len(recent) + 1
          /\ \A i \in 1 .. Len(recent) : Append(recent, 0)[i] = recent[i]
      BY <1>2, YoungestLast
    <3>3. /\ window'.age = Window.age /\ window'.count = Window.count + 1
          /\ window' \in [age : 0..Period, count : 0..gate.rateLimit]
      BY <1>1, <1>4, <3>1
    <3>4. PICK n \in 0 .. Len(recent) :
            /\ n <= gate.rateLimit /\ Len(recent) - n <= Window.count
            /\ \A i \in 1 .. n : recent[i] >= Window.age
      BY <1>5, <2>1
    <3>5. /\ n \in 0 .. Len(recent') /\ Len(recent') - n <= window'.count
          /\ \A i \in 1 .. n : i \in 1 .. Len(recent)
      BY <1>2, <1>4, <3>1, <3>2, <3>3, <3>4
    <3>6. \A i \in 1 .. n : recent'[i] >= window'.age BY <3>1, <3>2, <3>3, <3>4, <3>5
    <3>7. Earlier(n)' BY <1>7, <3>4, <3>5, <3>6 DEF Earlier
    <3>8. Aged(admits)' /\ Aged(recent)' BY <1>2, <3>1, <3>2 DEF Aged
    <3> QED BY <1>1, <1>4, <1>7, <2>1, <3>3, <3>5, <3>7, <3>8 DEF RateInv
  <2>2. CASE gate.rate = "sliding"
    <3>1. /\ window' = window /\ admits' = Append(admits, 0) /\ recent' = Append(recent, 0)
          /\ ~(Len(admits) >= gate.rateLimit) /\ recent = admits
      BY <2>0, <2>2 DEF RateSpent, CountRate, RateInv
    <3>2. Aged(Append(admits, 0)) /\ Len(Append(admits, 0)) = Len(admits) + 1
      BY <1>2, YoungestLast
    <3>3. Len(admits') <= gate.rateLimit BY <1>1, <1>2, <3>1, <3>2
    <3>4. Aged(admits)' /\ Aged(recent)' BY <3>1, <3>2 DEF Aged
    <3>5. admits' = recent' BY <3>1
    <3> QED BY <1>1, <1>2, <1>7, <2>2, <3>1, <3>3, <3>4, <3>5 DEF RateInv
  <2>3. CASE gate.rate = "none" BY <1>3, <2>0, <2>3 DEF CountRate
  <2> QED BY <1>1, <2>1, <2>2, <2>3
<1>8. ASSUME Tick PROVE RateInv'
  <2>0. /\ admits' = Older(admits) /\ recent' = Older(recent) /\ gate' = gate
        /\ window' = IF Memory THEN [window EXCEPT !.age = IF @ < Period THEN @ + 1 ELSE @]
                     ELSE IF window.age + 1 = Period THEN [age |-> 0, count |-> 0]
                     ELSE [window EXCEPT !.age = @ + 1]
    BY <1>8 DEF Tick
  <2>1. Aged(admits)' /\ Aged(recent)' BY <1>2, <2>0, OlderIs DEF Aged
  <2>2. /\ window' \in [age : 0..Period, count : 0..gate.rateLimit]
        /\ ~Memory => window'.age < Period
    BY <1>1, <1>2, <2>0 DEF RateInv
  <2>3. gate.rate = "sliding" => recent' = admits' /\ Len(admits') <= gate.rateLimit
    <3> SUFFICES ASSUME gate.rate = "sliding"
                 PROVE  recent' = admits' /\ Len(admits') <= gate.rateLimit
      OBVIOUS
    <3>1. recent = admits /\ Len(admits) <= gate.rateLimit BY DEF RateInv
    <3>2. PICK g \in 0 .. Len(admits) : Len(Older(admits)) = Len(admits) - g
      BY <1>2, OlderIs
    <3> QED BY <1>1, <1>2, <2>0, <3>1, <3>2
  <2>4. gate.rate = "fixed" => \E n \in 0 .. Len(recent') : Earlier(n)'
    <3> SUFFICES ASSUME gate.rate = "fixed" PROVE \E n \in 0 .. Len(recent') : Earlier(n)'
      OBVIOUS
    <3>1. PICK n \in 0 .. Len(recent) : Earlier(n) BY DEF RateInv
    <3>2. PICK g \in 0 .. Len(recent) :
            /\ Len(Older(recent)) = Len(recent) - g
            /\ \A i \in 1 .. Len(recent) - g : Older(recent)[i] = recent[i + g] + 1
            /\ \A i \in 1 .. Len(recent) : i <= g <=> recent[i] + 1 >= Period
      BY <1>2, OlderIs
    \* A window of the clock ends: those before it are gone.
    <3>3. CASE ~Memory /\ window.age + 1 = Period
      <4>1. window' = [age |-> 0, count |-> 0] BY <2>0, <3>3
      <4>2. n <= g
        <5> SUFFICES ASSUME n # 0 PROVE n <= g BY <3>2
        <5>1. n \in 1 .. n /\ n \in 1 .. Len(recent) BY <1>2, <3>1
        <5>2. recent[n] + 1 >= Period BY <1>2, <3>1, <3>3, <5>1 DEF Earlier
        <5> QED BY <3>2, <5>1, <5>2
      <4>3. Len(recent') <= gate.rateLimit /\ Len(recent') \in Nat
        BY <1>1, <1>2, <2>0, <3>1, <3>2, <4>2 DEF Earlier
      <4>4. \A i \in 1 .. Len(recent') : recent'[i] >= window'.age
        BY <1>2, <2>1, <4>1 DEF Aged
      <4>5. Len(recent') - Len(recent') <= window'.count /\ Len(recent') \in 0 .. Len(recent')
        BY <4>1, <4>3
      <4> QED BY <2>0, <4>3, <4>4, <4>5 DEF Earlier
    <3>4. CASE ~(~Memory /\ window.age + 1 = Period)
      <4> DEFINE m == IF n > g THEN n - g ELSE 0
      <4>1. window'.count = window.count /\ window.age \in Nat /\ window'.age <= window.age + 1
            /\ window'.age \in Nat /\ window.count \in Nat
        BY <1>1, <1>2, <2>0, <3>4
      <4>2. m \in 0 .. Len(recent') /\ m <= gate.rateLimit /\ Len(recent') - m <= window'.count
        BY <1>1, <1>2, <2>0, <3>1, <3>2, <4>1, SMTT(30) DEF Earlier
      <4>3. ASSUME NEW i \in 1 .. m PROVE recent'[i] >= window'.age
        <5>1. i + g \in 1 .. n /\ i + g \in 1 .. Len(recent) /\ i \in 1 .. Len(recent) - g
          BY <1>2, <3>1, <3>2, <4>3
        <5>2. recent'[i] = recent[i + g] + 1 BY <2>0, <3>2, <5>1
        <5>3. recent[i + g] >= window.age /\ recent[i + g] \in Nat
          BY <1>2, <3>1, <5>1 DEF Earlier
        <5> QED BY <4>1, <5>2, <5>3
      <4> HIDE DEF m
      <4>4. Earlier(m)' BY <2>0, <4>2, <4>3 DEF Earlier
      <4> QED BY <4>2, <4>4
    <3> QED BY <3>3, <3>4
  <2> QED BY <1>1, <2>0, <2>1, <2>2, <2>3, <2>4 DEF RateInv
<1>9. ASSUME NEW c \in Call,
             \/ Send(c) \/ Refused(c) \/ Release(c) \/ Cancel(c)
             \/ LateResult(c) \/ LateAgain(c) \/ WaiterLapses(c)
      PROVE  RateInv'
  BY <1>3, <1>9 DEF Send, Refused, Release, Cancel, LateResult, LateAgain, WaiterLapses,
                    gateVars, seenVars
<1>12. ASSUME NEW p \in Pod,
              Crash(p) \/ InstanceLapses(p) \/ \E c \in Call : Settle(p, c)
       PROVE  RateInv'
  BY <1>3, <1>12 DEF Settle, Crash, InstanceLapses, gateVars, seenVars
<1>10. CASE UNCHANGED flowVars BY <1>3, <1>10 DEF flowVars, gateVars, seenVars
<1>11. ASSUME NEW p \in Pod, NEW c \in Call, TryAdmit(p, c) PROVE RateInv'
  BY <1>6, <1>7, <1>11 DEF TryAdmit
<1> QED BY <1>8, <1>9, <1>10, <1>11, <1>12 DEF FlowNext

\* A window that has not begun has let nobody in.
LEMMA RateInit == FlowInit => RateInv
<1> SUFFICES ASSUME FlowInit PROVE RateInv OBVIOUS
<1>1. gate.rateLimit \in Nat \ {0} /\ Period \in Nat \ {0}
  BY FlowAssumption DEF FlowInit, Setting
<1>2. Aged(<<>>) BY DEF Aged
<1>3. admits = <<>> /\ recent = <<>> /\ Len(recent) = 0
      /\ window = [age |-> IF Memory THEN Period ELSE 0, count |-> 0]
  BY DEF FlowInit
<1>4. 0 \in 0 .. Len(recent) /\ Earlier(0) BY <1>1, <1>3 DEF Earlier
<1>5. window \in [age : 0..Period, count : 0..gate.rateLimit] /\ (~Memory => window.age < Period)
  BY <1>1, <1>3
<1>6. Len(admits) <= gate.rateLimit BY <1>1, <1>3
<1> QED BY <1>2, <1>3, <1>4, <1>5, <1>6 DEF RateInv

\* The rate limit holds in both backends and for any window: of the admissions
\* of the last Period ticks a sliding window let in no more than the limit, a
\* fixed one no more than twice the limit.
THEOREM RateIsKept == FlowSpec => []RateHolds
<1>2. FlowInv /\ RateInv => RateHolds
  <2> SUFFICES ASSUME FlowInv, RateInv PROVE RateHolds OBVIOUS
  <2>1. gate.rateLimit \in Nat \ {0} BY DEF FlowInv, FlowShape, Setting
  <2>2. gate.rate = "sliding" => Len(recent) <= gate.rateLimit BY DEF RateInv
  <2>3. ASSUME gate.rate = "fixed" PROVE Len(recent) <= 2 * gate.rateLimit
    <3>1. PICK n \in 0 .. Len(recent) : Earlier(n) BY <2>3 DEF RateInv
    <3>2. window.count \in 0 .. gate.rateLimit /\ Len(recent) \in Nat BY DEF RateInv, Aged
    <3> QED BY <2>1, <3>1, <3>2 DEF Earlier
  <2> QED BY <2>2, <2>3 DEF RateHolds
<1> QED BY <1>2, InitFlow, RateInit, FlowStep, RateStep, PTL DEF FlowSpec

-----------------------------------------------------------------------------
(***************************************************************************)
(* The order of the calls that wait.  A call that was denied a slot and    *)
(* still asks is registered, in the order of the denials, and of the       *)
(* registered waiters only the runs that were cancelled do not ask.  A key *)
(* that was served while a call waits was served later than the call's own *)
(* key.                                                                    *)
(***************************************************************************)
QueuesOK ==
    /\ line \in Queue(Call) /\ asked \in Queue(Call) /\ served \in Queue(Key)
    /\ passed \in [Call -> SUBSET Key]
    /\ at \in [Call -> Pod \union {NoPod}]

WaitersOK ==
    /\ \A c \in Call : at[c] # NoPod => phase[c] \in {"admitted", "settled", "settledFailed"}
    /\ \A c \in Call : Contains(asked, c) => Asking(c) /\ Contains(line, c)
    /\ \A c \in Call : Contains(line, c) => Contains(asked, c) \/ phase[c] = "ended"
    /\ \A c, d \in Call : Contains(asked, c) /\ Contains(asked, d) => InOrderOf(asked, line, c, d)

SharesOK ==
    gate.fairness = "key" =>
        \A d \in Call : Contains(asked, d) =>
            \A k \in passed[d] : Place(served, gate.key[d]) < Place(served, k)

OrderInv == QueuesOK /\ WaitersOK /\ SharesOK

\* A step of calls that do not ask.
LEMMA NobodyAsks ==
  ASSUME FlowInv, OrderInv, SameQueue, UNCHANGED <<line, asked, served, passed>>,
         at' \in [Call -> Pod \union {NoPod}],
         \A c \in Call : at'[c] # NoPod => phase'[c] \in {"admitted", "settled", "settledFailed"},
         \A c \in Call : Asking(c) \/ phase[c] = "ended" => phase'[c] = phase[c]
  PROVE  OrderInv'
<1>1. QueuesOK' BY DEF OrderInv, QueuesOK, Queue, IsInjective
<1>2. SharesOK' BY DEF OrderInv, SharesOK, SameQueue
<1>3. WaitersOK' BY DEF OrderInv, WaitersOK, InOrderOf, Asking
<1> QED BY <1>1, <1>2, <1>3 DEF OrderInv

\* A call that is denied takes its place in the line at its first asking, and
\* keeps it.
LEMMA OrderOnDenied ==
  ASSUME FlowInv, OrderInv, NEW p \in Pod, NEW c \in Call, Asking(c), Denied(p, c), gate' = gate
  PROVE  OrderInv'
<1> USE DEF OrderInv
<1>0. phase \in [Call -> Phases] /\ phase' = [phase EXCEPT ![c] = "waiting"]
  BY DEF FlowInv, FlowShape, Denied, Goes
<1>1. /\ line \in Queue(Call) /\ asked \in Queue(Call)
      /\ UNCHANGED <<at, served>>
  BY DEF QueuesOK, Denied
<1>2. Asking(c)' /\ \A d \in Call : Asking(d) => Asking(d)' BY <1>0 DEF Asking
<1>3. \A d \in Call : phase[d] = "ended" => phase'[d] = "ended" BY <1>0 DEF Asking
<1>4. \A d \in Call : at'[d] # NoPod => phase'[d] \in {"admitted", "settled", "settledFailed"}
  BY <1>0, <1>1 DEF WaitersOK, Asking
<1>5. CASE RateSpent \/ Contains(asked, c)
  <2>1. line' = line /\ asked' = asked /\ passed' = passed
    BY <1>5 DEF Denied, Registered, WaitersOK
  <2>2. QueuesOK' BY <1>1, <2>1 DEF QueuesOK
  <2>3. WaitersOK' BY <1>2, <1>3, <1>4, <2>1 DEF WaitersOK, InOrderOf
  <2>4. SharesOK' BY <1>1, <2>1 DEF SharesOK
  <2> QED BY <2>2, <2>3, <2>4
<1>6. CASE ~RateSpent /\ ~Contains(asked, c)
  <2>1. ~Contains(line, c) BY <1>6 DEF WaitersOK, Asking
  <2>2. /\ line' = Append(line, c) /\ asked' = Append(asked, c)
        /\ passed' = [passed EXCEPT ![c] = {}]
    BY <1>6, <2>1 DEF Denied, Registered
  <2>3. /\ line' \in Queue(Call) /\ asked' \in Queue(Call)
        /\ \A d : Contains(line', d) <=> Contains(line, d) \/ d = c
        /\ \A d : Contains(asked', d) <=> Contains(asked, d) \/ d = c
    BY <1>1, <1>6, <2>1, <2>2, AppendIs
  <2>4. /\ \A d : d # c => Place(line', d) = Place(line, d) /\ Place(line', d) < Place(line', c)
        /\ \A d : d # c => Place(asked', d) = Place(asked, d) /\ Place(asked', d) < Place(asked', c)
    BY <1>1, <1>6, <2>1, <2>2, AppendIs
  <2>5. QueuesOK' BY <1>1, <2>2, <2>3 DEF QueuesOK
  <2>6. \A d : Place(line', d) \in Nat /\ Place(asked', d) \in Nat BY <2>3, PlaceIs
  <2>7. ASSUME NEW d \in Call, NEW e \in Call, Contains(asked', d), Contains(asked', e)
        PROVE  InOrderOf(asked', line', d, e)
    <3>1. CASE d # c /\ e # c
      <4>1. InOrderOf(asked, line, d, e) BY <2>3, <2>7, <3>1 DEF WaitersOK
      <4> QED BY <2>4, <3>1, <4>1 DEF InOrderOf
    <3>2. CASE d = c \/ e = c BY <2>4, <2>6, <3>2 DEF InOrderOf
    <3> QED BY <3>1, <3>2
  <2>8. WaitersOK'
    <3>1. \A d \in Call : Contains(asked', d) => Asking(d)' /\ Contains(line', d)
      BY <1>2, <2>3 DEF WaitersOK
    <3>2. \A d \in Call : Contains(line', d) => Contains(asked', d) \/ phase'[d] = "ended"
      BY <1>3, <2>3 DEF WaitersOK
    <3> QED BY <1>4, <2>7, <3>1, <3>2 DEF WaitersOK, InOrderOf
  <2>9. SharesOK'
    <3>1. \A d \in Call : passed'[d] = IF d = c THEN {} ELSE passed[d] BY <2>2 DEF QueuesOK
    <3> QED BY <1>1, <2>3, <3>1 DEF SharesOK
  <2> QED BY <2>5, <2>8, <2>9
<1> QED BY <1>5, <1>6

\* A call leaves the denied ones, and perhaps the line.
LEMMA CallLeaves ==
  ASSUME FlowInv, OrderInv, NEW c \in Call, asked' = Without(asked, c),
         line' \in {line, Without(line, c)}
  PROVE  /\ line' \in Queue(Call) /\ asked' \in Queue(Call)
         /\ \A d : Contains(asked', d) <=> Contains(asked, d) /\ d # c
         /\ \A d : d # c => (Contains(line', d) <=> Contains(line, d))
         /\ \A d, e \in Call : Contains(asked', d) /\ Contains(asked', e) =>
                                  InOrderOf(asked', line', d, e)
<1> USE DEF OrderInv
<1>1. line \in Queue(Call) /\ asked \in Queue(Call) BY DEF QueuesOK
<1>2. /\ asked' \in Queue(Call)
      /\ \A d : Contains(asked', d) <=> Contains(asked, d) /\ d # c
      /\ \A d, e : d # c /\ e # c => InOrderOf(asked', asked, d, e)
  BY <1>1, WithoutIs
<1>3. /\ line' \in Queue(Call)
      /\ \A d : d # c => (Contains(line', d) <=> Contains(line, d))
      /\ \A d, e : d # c /\ e # c => InOrderOf(line', line, d, e)
  <2>1. CASE line' = line BY <1>1, <2>1 DEF InOrderOf
  <2>2. CASE line' = Without(line, c) BY <1>1, <2>2, WithoutIs
  <2> QED BY <2>1, <2>2
<1>4. ASSUME NEW d \in Call, NEW e \in Call, Contains(asked', d), Contains(asked', e)
      PROVE  InOrderOf(asked', line', d, e)
  <2>1. InOrderOf(asked, line, d, e) BY <1>2, <1>4 DEF WaitersOK
  <2> QED BY <1>2, <1>3, <1>4, <2>1 DEF InOrderOf
<1> QED BY <1>2, <1>3, <1>4

\* A call that is let in leaves the line, and its key goes behind the others.
LEMMA OrderOnAdmitted ==
  ASSUME FlowInv, OrderInv, NEW p \in Pod, NEW c \in Call, Asking(c), Admitted(p, c), gate' = gate
  PROVE  OrderInv'
<1> USE DEF OrderInv
<1>0. phase \in [Call -> Phases] /\ phase' = [phase EXCEPT ![c] = "admitted"]
  BY DEF FlowInv, FlowShape, Admitted, Goes
<1>1. /\ line' = Without(line, c) /\ asked' = Without(asked, c) /\ at' = [at EXCEPT ![c] = p]
      /\ passed' = [d \in Call |-> IF Contains(asked, d) /\ gate.key[d] # gate.key[c]
                                   THEN passed[d] \union {gate.key[c]} ELSE {}]
      /\ served' = IF gate.fairness = "key"
                   THEN Append(Without(served, gate.key[c]), gate.key[c]) ELSE served
  BY DEF Admitted
<1>2. /\ line' \in Queue(Call) /\ asked' \in Queue(Call)
      /\ \A d : Contains(asked', d) <=> Contains(asked, d) /\ d # c
      /\ \A d : d # c => (Contains(line', d) <=> Contains(line, d))
      /\ \A d, e \in Call : Contains(asked', d) /\ Contains(asked', e) =>
                               InOrderOf(asked', line', d, e)
  BY <1>1, CallLeaves
<1>3. ~Contains(line', c) BY <1>1, WithoutIs DEF QueuesOK
<1>4. gate.key \in [Call -> Key] /\ served \in Queue(Key)
  BY DEF FlowInv, FlowShape, Setting, QueuesOK
<1> DEFINE k == gate.key[c]
           rest == Without(served, k)
<1>5. /\ rest \in Queue(Key) /\ ~Contains(rest, k)
      /\ \A x, y : x # k /\ y # k => InOrderOf(rest, served, x, y)
  BY <1>4, WithoutIs
<1>6. /\ Append(rest, k) \in Queue(Key)
      /\ \A x : x # k => /\ Place(Append(rest, k), x) = Place(rest, x)
                         /\ Place(Append(rest, k), x) < Place(Append(rest, k), k)
  BY <1>4, <1>5, AppendIs
<1> HIDE DEF rest
<1>7. QueuesOK'
  <2>1. served' \in Queue(Key) BY <1>1, <1>4, <1>6 DEF rest
  <2>2. passed' \in [Call -> SUBSET Key] BY <1>1, <1>4 DEF QueuesOK
  <2>3. at' \in [Call -> Pod \union {NoPod}] BY <1>1 DEF QueuesOK
  <2> QED BY <1>2, <2>1, <2>2, <2>3 DEF QueuesOK
<1>8. WaitersOK'
  <2>1. \A d \in Call : d # c => phase'[d] = phase[d] /\ at'[d] = at[d]
    BY <1>0, <1>1 DEF QueuesOK
  <2>2. \A d \in Call : Contains(asked', d) => Asking(d)' /\ Contains(line', d)
    BY <1>2, <2>1 DEF WaitersOK, Asking
  <2>3. \A d \in Call : Contains(line', d) => Contains(asked', d) \/ phase'[d] = "ended"
    BY <1>2, <1>3, <2>1 DEF WaitersOK
  <2>4. \A d \in Call : at'[d] # NoPod => phase'[d] \in {"admitted", "settled", "settledFailed"}
    BY <1>0, <2>1 DEF WaitersOK
  <2> QED BY <1>2, <2>2, <2>3, <2>4 DEF WaitersOK, InOrderOf
<1>9. SharesOK'
  <2> SUFFICES ASSUME gate.fairness = "key", NEW d \in Call, Contains(asked', d),
                      NEW x \in passed'[d]
               PROVE  Place(served', gate.key[d]) < Place(served', x)
    BY DEF SharesOK, Admitted
  <2>1. Contains(asked, d) /\ gate.key[d] # k /\ x \in passed[d] \union {k} BY <1>1, <1>2
  <2>2. served' = Append(rest, k) BY <1>1 DEF rest
  <2>3. CASE x = k BY <1>6, <2>1, <2>2, <2>3
  <2>4. CASE x # k
    <3>1. Place(served, gate.key[d]) < Place(served, x) BY <2>1, <2>4 DEF SharesOK
    <3>2. Place(rest, gate.key[d]) < Place(rest, x) BY <1>5, <2>1, <2>4, <3>1 DEF InOrderOf
    <3> QED BY <1>6, <2>1, <2>2, <2>4, <3>2
  <2> QED BY <2>3, <2>4
<1> QED BY <1>7, <1>8, <1>9

\* Every step keeps the calls that wait in the order they came, and the keys in
\* theirs.
LEMMA OrderStep == ASSUME FlowInv, FlowInv', OrderInv, [FlowNext]_flowVars PROVE OrderInv'
<1> USE DEF OrderInv
<1>0. /\ SameQueue /\ phase \in [Call -> Phases] /\ at \in [Call -> Pod \union {NoPod}]
      /\ NoPod \notin Pod
  BY QueueIsConfigured, FlowAssumption DEF FlowInv, FlowShape, QueuesOK
<1>1. ASSUME NEW p \in Pod, NEW c \in Call, TryAdmit(p, c) PROVE OrderInv'
  BY <1>1, OrderOnDenied, OrderOnAdmitted DEF TryAdmit
<1>2. ASSUME NEW c \in Call, Send(c) \/ Refused(c) PROVE OrderInv'
  <2>1. /\ phase[c] = "admitted" /\ UNCHANGED <<line, asked, served, passed>>
        /\ \E ph \in {"pending", "blocked"} : phase' = [phase EXCEPT ![c] = ph]
        /\ at' = [at EXCEPT ![c] = NoPod]
    BY <1>2 DEF Send, Refused, Goes, gateVars, seenVars
  <2>2. \A d \in Call : Asking(d) \/ phase[d] = "ended" => phase'[d] = phase[d]
    BY <1>0, <2>1 DEF Asking
  <2>3. \A d \in Call : at'[d] # NoPod => phase'[d] \in {"admitted", "settled", "settledFailed"}
    BY <1>0, <2>1 DEF WaitersOK
  <2>4. at' \in [Call -> Pod \union {NoPod}] BY <1>0, <2>1
  <2> QED BY <1>0, <2>1, <2>2, <2>3, <2>4, NobodyAsks
<1>3. ASSUME NEW p \in Pod, NEW c \in Call, Settle(p, c) PROVE OrderInv'
  <2>1. /\ phase[c] = "pending" /\ UNCHANGED <<line, asked, served, passed>>
        /\ \E ph \in {"settled", "settledFailed"} : phase' = [phase EXCEPT ![c] = ph]
        /\ at' = [at EXCEPT ![c] = p]
    BY <1>3 DEF Settle, Goes, gateVars, seenVars
  <2>2. \A d \in Call : Asking(d) \/ phase[d] = "ended" => phase'[d] = phase[d]
    BY <1>0, <2>1 DEF Asking
  <2>3. \A d \in Call : at'[d] # NoPod => phase'[d] \in {"admitted", "settled", "settledFailed"}
    BY <1>0, <2>1 DEF WaitersOK
  <2>4. at' \in [Call -> Pod \union {NoPod}] BY <1>0, <2>1
  <2> QED BY <1>0, <2>1, <2>2, <2>3, <2>4, NobodyAsks
<1>4. ASSUME NEW c \in Call, Release(c) \/ LateResult(c) PROVE OrderInv'
  <2>1. /\ phase[c] \in {"settled", "settledFailed", "late"}
        /\ UNCHANGED <<line, asked, served, passed>>
        /\ \E ph \in {"done", "retry", "dropped"} : phase' = [phase EXCEPT ![c] = ph]
        /\ at' = [at EXCEPT ![c] = NoPod] \/ (at' = at /\ at[c] = NoPod)
    <3>1. CASE Release(c)
      <4>1. AfterSettled(phase[c]) \in {"done", "retry", "dropped"} BY DEF AfterSettled
      <4> QED BY <3>1, <4>1 DEF Release, Goes, seenVars
    <3>2. CASE LateResult(c)
      <4>1. phase[c] = "late" BY <3>2 DEF LateResult
      <4>2. at[c] = NoPod BY <4>1 DEF WaitersOK
      <4> QED BY <3>2, <4>1, <4>2 DEF LateResult, Goes, seenVars
    <3> QED BY <1>4, <3>1, <3>2
  <2>2. \A d \in Call : Asking(d) \/ phase[d] = "ended" => phase'[d] = phase[d]
    BY <1>0, <2>1 DEF Asking
  <2>3. \A d \in Call : at'[d] # NoPod => phase'[d] \in {"admitted", "settled", "settledFailed"}
    BY <1>0, <2>1 DEF WaitersOK
  <2>4. at' \in [Call -> Pod \union {NoPod}] BY <1>0, <2>1
  <2> QED BY <1>0, <2>1, <2>2, <2>3, <2>4, NobodyAsks
<1>5. ASSUME NEW p \in Pod, Crash(p) PROVE OrderInv'
  <2>1. /\ UNCHANGED <<line, asked, served, passed>>
        /\ \A c \in Call : /\ at'[c] = IF at[c] = p THEN NoPod ELSE at[c]
                           /\ at[c] # p => phase'[c] = phase[c]
        /\ at' \in [Call -> Pod \union {NoPod}]
    BY <1>0, <1>5 DEF Crash, gateVars, seenVars
  <2>2. \A d \in Call : Asking(d) \/ phase[d] = "ended" => phase'[d] = phase[d]
    BY <1>0, <2>1 DEF Asking, WaitersOK
  <2>3. \A d \in Call : at'[d] # NoPod => phase'[d] \in {"admitted", "settled", "settledFailed"}
    BY <1>0, <2>1 DEF WaitersOK
  <2> QED BY <1>0, <2>1, <2>2, <2>3, NobodyAsks
<1>6. ASSUME NEW c \in Call, Cancel(c) PROVE OrderInv'
  <2>1. /\ phase' = [phase EXCEPT ![c] = IF phase[c] = "pending" THEN "late" ELSE "ended"]
        /\ asked' = Without(asked, c) /\ UNCHANGED <<at, line, served, passed>>
        /\ Asking(c) \/ phase[c] = "pending"
    BY <1>6 DEF Cancel, Goes, gateVars, Asking
  <2>2. /\ line' \in Queue(Call) /\ asked' \in Queue(Call)
        /\ \A d : Contains(asked', d) <=> Contains(asked, d) /\ d # c
        /\ \A d, e \in Call : Contains(asked', d) /\ Contains(asked', e) =>
                                 InOrderOf(asked', line', d, e)
    BY <2>1, CallLeaves
  <2>3. QueuesOK' BY <2>1, <2>2 DEF QueuesOK
  <2>4. Contains(line, c) => phase'[c] = "ended"
    BY <1>0, <2>1 DEF WaitersOK, Asking
  <2>5. \A d \in Call : d # c => phase'[d] = phase[d] BY <1>0, <2>1
  <2>6. at[c] = NoPod BY <2>1 DEF WaitersOK, Asking
  <2>7. WaitersOK'
    <3>1. \A d \in Call : Contains(asked', d) => Asking(d)' /\ Contains(line', d)
      BY <2>1, <2>2, <2>5 DEF WaitersOK, Asking
    <3>2. \A d \in Call : Contains(line', d) => Contains(asked', d) \/ phase'[d] = "ended"
      BY <2>1, <2>2, <2>4, <2>5 DEF WaitersOK
    <3>3. \A d \in Call : at'[d] # NoPod => phase'[d] \in {"admitted", "settled", "settledFailed"}
      BY <2>1, <2>5, <2>6 DEF WaitersOK
    <3> QED BY <2>2, <3>1, <3>2, <3>3 DEF WaitersOK, InOrderOf
  <2>8. SharesOK' BY <1>0, <2>1, <2>2 DEF SharesOK, SameQueue
  <2> QED BY <2>3, <2>7, <2>8
<1>7. ASSUME NEW c \in Call, WaiterLapses(c) PROVE OrderInv'
  <2>1. /\ line' = Without(line, c) /\ UNCHANGED <<at, phase, asked, served, passed, gate>>
        /\ ~Asking(c)
    BY <1>7 DEF WaiterLapses, seenVars
  <2>2. ~Contains(asked, c) BY <2>1 DEF WaitersOK
  <2>3. Without(asked, c) = asked BY <2>2 DEF Without
  <2>4. /\ line' \in Queue(Call) /\ asked' \in Queue(Call)
        /\ \A d : d # c => (Contains(line', d) <=> Contains(line, d))
        /\ \A d, e \in Call : Contains(asked', d) /\ Contains(asked', e) =>
                                 InOrderOf(asked', line', d, e)
    BY <2>1, <2>3, CallLeaves
  <2>5. ~Contains(line', c) BY <2>1, WithoutIs DEF QueuesOK
  <2>6. QueuesOK' BY <2>1, <2>4 DEF QueuesOK
  <2>7. WaitersOK'
    <3>1. \A d \in Call : Contains(asked', d) => Asking(d)' /\ Contains(line', d)
      BY <2>1, <2>2, <2>4 DEF WaitersOK, Asking
    <3>2. \A d \in Call : Contains(line', d) => Contains(asked', d) \/ phase'[d] = "ended"
      BY <2>1, <2>4, <2>5 DEF WaitersOK
    <3>3. \A d \in Call : at'[d] # NoPod => phase'[d] \in {"admitted", "settled", "settledFailed"}
      BY <2>1 DEF WaitersOK
    <3> QED BY <2>4, <3>1, <3>2, <3>3 DEF WaitersOK, InOrderOf
  <2>8. SharesOK' BY <2>1 DEF SharesOK
  <2> QED BY <2>6, <2>7, <2>8
<1>8. ASSUME UNCHANGED <<gate, phase, at, line, asked, served, passed>> PROVE OrderInv'
  BY <1>0, <1>8, NobodyAsks DEF WaitersOK
<1>9. ASSUME NEW p \in Pod, InstanceLapses(p) PROVE OrderInv'
  BY <1>8, <1>9 DEF InstanceLapses, gateVars, seenVars
<1>10. CASE Tick BY <1>8, <1>10 DEF Tick
<1>11. CASE UNCHANGED flowVars BY <1>8, <1>11 DEF flowVars, gateVars, seenVars
<1>12. ASSUME NEW c \in Call, LateAgain(c) PROVE OrderInv'
  <2>1. UNCHANGED <<phase, at, line, asked, served, passed>> BY <1>12 DEF LateAgain
  <2> QED BY <1>0, <2>1, NobodyAsks DEF WaitersOK, OrderInv, QueuesOK
<1> QED
  BY <1>1, <1>2, <1>3, <1>4, <1>5, <1>6, <1>7, <1>9, <1>10, <1>11, <1>12 DEF FlowNext

\* At first nobody waits.
LEMMA OrderInit == FlowInit => OrderInv
<1> SUFFICES ASSUME FlowInit PROVE OrderInv OBVIOUS
<1>1. \A S : <<>> \in Queue(S) BY DEF Queue, IsInjective
<1>2. \A x : ~Contains(<<>>, x) BY DEF Contains
<1> QED BY <1>1, <1>2, FlowAssumption DEF FlowInit, OrderInv, QueuesOK, WaitersOK, SharesOK

\* So all three hold throughout.
LEMMA FlowInductive == FlowSpec => [](FlowInv /\ RateInv /\ OrderInv)
BY InitFlow, RateInit, OrderInit, FlowStep, RateStep, OrderStep, PTL DEF FlowSpec

\* In every reachable state of the flow control, for any calls, pods, keys and
\* settings, every variable has its type: in particular a waiter, a key or a
\* denied call stands in its queue once, and a window never counts more
\* admissions than the limit.
THEOREM FlowTypes == FlowSpec => []FlowTypeOK
<1>1. FlowInv /\ RateInv /\ OrderInv => FlowTypeOK
  <2> SUFFICES ASSUME FlowInv, RateInv, OrderInv PROVE FlowTypeOK OBVIOUS
  <2>1. ASSUME NEW ages, Aged(ages) PROVE ages \in Seq(Ages)
    <3>1. /\ ages \in Seq(Nat) /\ Len(ages) \in Nat /\ Period \in Nat
          /\ \A i \in 1 .. Len(ages) : ages[i] \in Nat /\ ages[i] < Period
      BY <2>1, FlowAssumption DEF Aged
    <3>2. \A i \in 1 .. Len(ages) : ages[i] \in Ages BY <3>1 DEF Ages
    <3> QED BY <3>1, <3>2
  <2>2. admits \in Seq(Ages) /\ recent \in Seq(Ages) BY <2>1 DEF RateInv
  <2>3. window \in [age : Ages, count : 0..gate.rateLimit] BY DEF RateInv, Ages
  <2>4. /\ line \in Seq(Call) /\ IsInjective(line) /\ served \in Seq(Key) /\ IsInjective(served)
        /\ asked \in Seq(Call) /\ IsInjective(asked) /\ passed \in [Call -> SUBSET Key]
        /\ at \in [Call -> Pod \union {NoPod}]
    BY DEF OrderInv, QueuesOK, Queue
  <2> QED BY <2>2, <2>3, <2>4 DEF FlowInv, FlowShape, FlowTypeOK
<1> QED BY <1>1, FlowInductive, PTL

\* Only an admission takes a call that asks to `admitted'.
LEMMA OnlyAdmitted ==
  ASSUME FlowInv, OrderInv, [FlowNext]_flowVars, NEW c \in Call, Asking(c), phase'[c] = "admitted"
  PROVE  \E p \in Pod : Admitted(p, c)
<1>0. phase \in [Call -> Phases] /\ phase[c] # "admitted"
  BY DEF FlowInv, FlowShape, Asking
<1>1. ASSUME NEW p \in Pod, NEW d \in Call, TryAdmit(p, d) PROVE \E q \in Pod : Admitted(q, c)
  <2>1. CASE Denied(p, d) BY <1>0, <2>1 DEF Denied, Goes
  <2>2. CASE Admitted(p, d)
    <3>1. d = c BY <1>0, <2>2 DEF Admitted, Goes
    <3> QED BY <2>2, <3>1
  <2> QED BY <1>1, <2>1, <2>2 DEF TryAdmit
<1>2. ASSUME NEW p \in Pod, NEW d \in Call, Settle(p, d) PROVE FALSE
  BY <1>0, <1>2 DEF Settle, Goes
<1>3. ASSUME NEW d \in Call, Send(d) \/ Refused(d) \/ Cancel(d) \/ LateResult(d)
               \/ LateAgain(d) \/ WaiterLapses(d)
      PROVE  FALSE
  BY <1>0, <1>3 DEF Send, Refused, Cancel, LateResult, LateAgain, WaiterLapses, Goes
<1>4. ASSUME NEW d \in Call, Release(d) PROVE FALSE
  BY <1>0, <1>4 DEF Release, Goes, AfterSettled
<1>5. ASSUME NEW p \in Pod, Crash(p) PROVE FALSE
  BY <1>0, <1>5 DEF Crash, AfterSettled
<1>6. ASSUME NEW p \in Pod, InstanceLapses(p) PROVE FALSE
  BY <1>0, <1>6 DEF InstanceLapses
<1>7. ~Tick /\ ~UNCHANGED flowVars BY <1>0 DEF Tick, flowVars
<1> QED BY <1>1, <1>2, <1>3, <1>4, <1>5, <1>6, <1>7 DEF FlowNext

\* Who waits is registered and does not go before a call that is admitted.
LEMMA NoneGoesBefore ==
  ASSUME FlowInv, OrderInv, NEW p \in Pod, NEW c \in Call, Asking(c), Admitted(p, c),
         NEW d \in Call, Contains(asked, d), d # c
  PROVE  /\ ~Before(Registered(c), d, c)
         /\ gate.priority[c] \in Int /\ gate.priority[d] \in Int
         /\ Place(Registered(c), d) = Place(line, d)
         /\ Contains(line, c) => Contains(asked, c) /\ Place(Registered(c), c) = Place(line, c)
         /\ ~Contains(line, c) => Place(Registered(c), d) < Place(Registered(c), c)
<1> USE DEF OrderInv
<1>1. line \in Queue(Call) /\ Contains(line, d) BY DEF QueuesOK, WaitersOK
<1>2. gate.priority[c] \in Int /\ gate.priority[d] \in Int BY DEF FlowInv, FlowShape, Setting
<1>3. /\ Registered(c) \in Queue(Call) /\ Contains(Registered(c), d)
      /\ Place(Registered(c), d) = Place(line, d)
      /\ ~Contains(line, c) => Place(Registered(c), d) < Place(Registered(c), c)
  BY <1>1, AppendIs DEF Registered
<1>4. d \in ToSet(Registered(c)) BY <1>3 DEF Contains, ToSet, Queue
<1>5. ~Before(Registered(c), d, c) BY <1>4 DEF Admitted, IsNext
<1>6. Contains(line, c) => Contains(asked, c) /\ Registered(c) = line
  BY DEF WaitersOK, Asking, Registered
<1> QED BY <1>2, <1>3, <1>5, <1>6

\* Calls of a queue enter in their turn, in both backends and for any number of
\* calls and pods: nobody overtakes a call of higher priority that waits for a
\* slot, nor, without fairness keys, one of its own priority that was denied
\* before it (after it, in a lifo queue).
THEOREM TurnsAreKept == FlowSpec => InTurn
<1> DEFINE Step == \A c \in Call : (Asking(c) /\ phase'[c] = "admitted") =>
         \A d \in ToSet(asked) \ {c} :
            /\ gate.priority[d] <= gate.priority[c]
            /\ (gate.priority[d] = gate.priority[c] /\ gate.fairness = "fifo") =>
                 IF gate.order = "lifo" THEN ~ComesFirst(c, d) ELSE ComesFirst(c, d)
<1>1. ASSUME FlowInv, OrderInv, [FlowNext]_flowVars PROVE Step
  <2> SUFFICES ASSUME NEW c \in Call, Asking(c), phase'[c] = "admitted",
                      NEW d \in ToSet(asked) \ {c}
               PROVE  /\ gate.priority[d] <= gate.priority[c]
                      /\ (gate.priority[d] = gate.priority[c] /\ gate.fairness = "fifo") =>
                           IF gate.order = "lifo" THEN ~ComesFirst(c, d) ELSE ComesFirst(c, d)
    OBVIOUS
  <2>1. PICK p \in Pod : Admitted(p, c) BY <1>1, OnlyAdmitted
  <2>2. line \in Queue(Call) /\ asked \in Queue(Call) BY <1>1 DEF OrderInv, QueuesOK
  <2>3. d \in Call /\ Contains(asked, d) /\ d # c BY <2>2 DEF ToSet, Contains, Queue
  <2> DEFINE l == Registered(c)
  <2>4. /\ ~Before(l, d, c) /\ gate.priority[c] \in Int /\ gate.priority[d] \in Int
        /\ Place(l, d) = Place(line, d)
        /\ Contains(line, c) => Contains(asked, c) /\ Place(l, c) = Place(line, c)
        /\ ~Contains(line, c) => Place(l, d) < Place(l, c)
    BY <1>1, <2>1, <2>3, NoneGoesBefore
  <2> HIDE DEF l
  <2>5. gate.priority[d] <= gate.priority[c] BY <2>4 DEF Before
  <2>6. ASSUME gate.priority[d] = gate.priority[c], gate.fairness = "fifo"
        PROVE  IF gate.order = "lifo" THEN ~(Place(l, d) > Place(l, c)) ELSE ~(Place(l, d) < Place(l, c))
    BY <2>4, <2>6 DEF Before
  <2>7. Contains(asked, c) =>
          /\ Contains(line, c)
          /\ Place(asked, c) < Place(asked, d) <=> Place(line, c) < Place(line, d)
    BY <1>1, <2>3 DEF OrderInv, WaitersOK, InOrderOf
  <2>8. /\ Place(line, c) \in Nat /\ Place(line, d) \in Nat
        /\ Contains(line, c) /\ Contains(line, d) => Place(line, c) # Place(line, d)
    BY <2>2, <2>3, PlaceIs
  <2>9. Contains(line, d) BY <1>1, <2>3 DEF OrderInv, WaitersOK
  <2>10. ASSUME gate.priority[d] = gate.priority[c], gate.fairness = "fifo"
         PROVE  IF gate.order = "lifo" THEN ~ComesFirst(c, d) ELSE ComesFirst(c, d)
    <3>1. CASE gate.order = "lifo"
      BY <2>4, <2>6, <2>7, <2>8, <2>10, <3>1 DEF ComesFirst
    <3>2. CASE gate.order # "lifo"
      <4>1. Contains(line, c) BY <2>4, <2>6, <2>10, <3>2
      <4> QED BY <2>4, <2>6, <2>7, <2>8, <2>9, <2>10, <3>2, <4>1 DEF ComesFirst
    <3> QED BY <3>1, <3>2
  <2> QED BY <2>5, <2>10
<1>2. FlowInv /\ OrderInv /\ [FlowNext]_flowVars => Step BY <1>1
<1> HIDE DEF Step
<1>3. FlowSpec => [][Step]_flowVars BY <1>2, FlowInductive, PTL DEF FlowSpec
<1> QED BY <1>3 DEF InTurn, Step

\* The round robin of a queue with fairness keys, for any number of calls, keys
\* and priorities: while a call waits for a slot, no other key gets a second one
\* at its priority before the call's key got one.
THEOREM SharesAreFair == FlowSpec => FairShare
<1> DEFINE Step ==
      \A c \in Call : (Asking(c) /\ phase'[c] = "admitted" /\ gate.fairness = "key") =>
         \A d \in ToSet(asked) :
            (gate.priority[d] = gate.priority[c] /\ gate.key[d] # gate.key[c]) =>
                gate.key[c] \notin passed[d]
<1>1. ASSUME FlowInv, OrderInv, [FlowNext]_flowVars PROVE Step
  <2> SUFFICES ASSUME NEW c \in Call, Asking(c), phase'[c] = "admitted", gate.fairness = "key",
                      NEW d \in ToSet(asked), gate.priority[d] = gate.priority[c],
                      gate.key[d] # gate.key[c], gate.key[c] \in passed[d]
               PROVE  FALSE
    OBVIOUS
  <2>1. PICK p \in Pod : Admitted(p, c) BY <1>1, OnlyAdmitted
  <2>2. d \in Call /\ Contains(asked, d) /\ d # c
    BY <1>1 DEF OrderInv, QueuesOK, Queue, ToSet, Contains
  <2>3. ~Before(Registered(c), d, c) BY <1>1, <2>1, <2>2, NoneGoesBefore
  <2>4. ~(Place(served, gate.key[d]) < Place(served, gate.key[c])) BY <2>3 DEF Before
  <2>5. Place(served, gate.key[d]) < Place(served, gate.key[c])
    BY <1>1, <2>2 DEF OrderInv, SharesOK
  <2> QED BY <2>4, <2>5
<1>2. FlowInv /\ OrderInv /\ [FlowNext]_flowVars => Step BY <1>1
<1> HIDE DEF Step
<1>3. FlowSpec => [][Step]_flowVars BY <1>2, FlowInductive, PTL DEF FlowSpec
<1> QED BY <1>3 DEF FairShare, Step
=============================================================================
