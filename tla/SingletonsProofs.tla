-------------------------- MODULE SingletonsProofs --------------------------
(***************************************************************************)
(* Proofs about Singletons, for every number of runs, every limit and      *)
(* however many processes die, runs are cancelled and requeued.            *)
(*                                                                         *)
(* A slot is given by an admission only, which found one free; HolderInv   *)
(* adds that a run inside has one, and that its turn holds no old reading  *)
(* by which it would be marked anew; QueueInv that nobody comes back to    *)
(* the queue in front of a holder; and PlainInv, of runs nobody requeues   *)
(* or starts for later, that the markers tell who has begun.               *)
(***************************************************************************)
EXTENDS Singletons, FiniteSetTheorems, TLAPS

\* A turn is a turn of a run.
LEMMA TurnsOfRuns ==
  \A t \in Turns : t[1] \in Runs /\ t[2] \in 1 .. AtOnce /\ t = <<t[1], t[2]>>
  BY DEF Turns

\* What an instance meets is bounded by numbers.
LEMMA SettingTypes ==
  ASSUME setting \in Settings
  PROVE  /\ limit \in Nat \ {0} /\ setting.doubles \subseteq Runs
         /\ setting.inOrder \in BOOLEAN /\ setting.deadLetters \in BOOLEAN
         /\ setting.naps \in Nat /\ setting.deaths \in Nat
         /\ setting.cancels \in Nat /\ setting.requeues \in Nat
  BY SingletonsAssumption DEF Setting, limit

\* At first no run exists.
LEMMA InitTypes == Init => TypeOK
<1> SUFFICES ASSUME Init PROVE TypeOK OBVIOUS
<1>1. left \in [naps : Nat, deaths : Nat, cancels : Nat, requeues : Nat]
  BY SettingTypes DEF Init
<1> QED BY <1>1 DEF Init, TypeOK

\* A write of a turn's end keeps the lease, the debt and the place typed.
LEMMA LetGoTypes ==
  ASSUME TypeOK, NEW t \in Turns, NEW w \in BOOLEAN, LetGo(t, w)
  PROVE  /\ owner' \in [Runs -> {Nobody} \union 1 .. AtOnce]
         /\ owes' \in [Runs -> BOOLEAN]
         /\ at' \in [Turns -> {"idle", "lock", "mark", "admit", "body"}]
         /\ seen' \in [Turns -> {"new", "marked", "started"}]
  BY TurnsOfRuns DEF LetGo, TypeOK

\* Every action keeps the variables in their domains, and a marker leaves the
\* row with the write that ends the run.
LEMMA TypeStep == ASSUME TypeOK, [Next]_vars PROVE TypeOK'
<1> USE TurnsOfRuns DEF TypeOK, rows, turns, calls, Active, Queued, Ended
<1>1. ASSUME NEW t \in Turns, ReadRun(t) PROVE TypeOK'
  BY <1>1 DEF ReadRun, Sight
<1>2. ASSUME NEW t \in Turns, Lock(t) PROVE TypeOK'
  <2>1. Entry(seen[t]) \in {"mark", "admit"} BY DEF Entry
  <2>2. CASE owner[t[1]] = Nobody
    <3>1. owner' = [owner EXCEPT ![t[1]] = t[2]] /\ at' = [at EXCEPT ![t] = Entry(seen[t])]
      BY <1>2, <2>2 DEF Lock
    <3>2. owner' \in [Runs -> {Nobody} \union 1 .. AtOnce] BY <3>1
    <3> QED BY <1>2, <2>1, <2>2, <3>1, <3>2 DEF Lock
  <2>3. CASE owner[t[1]] # Nobody
    <3>1. at' = [at EXCEPT ![t] = "idle"] /\ owner' = owner BY <1>2, <2>3 DEF Lock
    <3>2. seen' = [seen EXCEPT ![t] = "started"] BY <1>2, <2>3 DEF Lock
    <3> QED BY <1>2, <3>1, <3>2 DEF Lock
  <2> QED BY <2>2, <2>3
<1>3. ASSUME NEW t \in Turns, Poll(t) PROVE TypeOK'
  BY <1>3 DEF Poll, Sight, Entry
<1>4. ASSUME NEW t \in Turns, MarkStarted(t) PROVE TypeOK'
  BY <1>4 DEF MarkStarted, Marked
<1>5. ASSUME NEW t \in Turns, Admit(t) PROVE TypeOK'
  BY <1>5 DEF Admit, Admitted, Tagged
<1>6. ASSUME NEW t \in Turns, Deny(t) PROVE TypeOK'
  <2>1. LetGo(t, FALSE) BY <1>6 DEF Deny
  <2>2. CASE t[1] \in Active
    <3>1. /\ status' = [status EXCEPT ![t[1]] = "suspended"]
          /\ wake' = [wake EXCEPT ![t[1]] = "timer"]
          /\ tag' = [tag EXCEPT ![t[1]] = Tracked(tag[t[1]])]
      BY <1>6, <2>2 DEF Deny
    <3>2. Tracked(tag[t[1]]) \in {"tracked", "admitted"} BY DEF Tracked
    <3>3. /\ status' \in [Runs -> Queued \union Ended \union {"absent"}]
          /\ wake' \in [Runs -> {"none", "timer", "start"}]
          /\ tag' \in [Runs -> {"none", "tracked", "admitted"}]
          /\ \A r \in Runs : tag'[r] # "none" => status'[r] \in Queued
      BY <3>1, <3>2
    <3> QED BY <1>6, <2>1, <3>3, LetGoTypes DEF Deny
  <2>3. CASE t[1] \notin Active
    <3>1. UNCHANGED <<status, wake, tag>> BY <1>6, <2>3 DEF Deny
    <3> QED BY <1>6, <2>1, <3>1, LetGoTypes DEF Deny
  <2> QED BY <2>2, <2>3
<1>7. ASSUME NEW t \in Turns,
             NEW o \in {"completed", "failed", "suspended", "blocked"}, Settle(t, o)
      PROVE  TypeOK'
  <2>1. left' \in [naps : Nat, deaths : Nat, cancels : Nat, requeues : Nat]
    BY <1>7 DEF Settle
  <2>2. /\ owner' \in [Runs -> {Nobody} \union 1 .. AtOnce] /\ owes' \in [Runs -> BOOLEAN]
        /\ at' \in [Turns -> {"idle", "lock", "mark", "admit", "body"}]
        /\ seen' \in [Turns -> {"new", "marked", "started"}]
    BY <1>7, LetGoTypes DEF Settle
  <2>3. CASE /\ status' = [status EXCEPT ![t[1]] = o]
             /\ tag' = [tag EXCEPT ![t[1]] = Released(tag[t[1]], o)]
             /\ wake' = IF o \in Ended THEN wake ELSE [wake EXCEPT ![t[1]] = "timer"]
             /\ begun' = [begun EXCEPT ![t[1]] = o \notin Ended]
             /\ Applies(t[1], o)
    <3>1. /\ Released(tag[t[1]], o) \in {"none", "tracked", "admitted"}
          /\ o \in Ended => Released(tag[t[1]], o) = "none"
      BY DEF Released
    <3>2. wake' \in [Runs -> {"none", "timer", "start"}] BY <2>3
    <3>3. /\ status' \in [Runs -> Queued \union Ended \union {"absent"}]
          /\ tag' \in [Runs -> {"none", "tracked", "admitted"}]
          /\ begun' \in [Runs -> BOOLEAN]
      BY <2>3, <3>1
    <3>4. \A r \in Runs : tag'[r] # "none" => status'[r] \in Queued
      BY <2>3, <3>1
    <3> QED BY <1>7, <2>1, <2>2, <3>2, <3>3, <3>4 DEF Settle
  <2>4. CASE UNCHANGED <<status, tag, wake, begun>>
    BY <1>7, <2>1, <2>2, <2>4 DEF Settle
  <2> QED BY <1>7, <2>3, <2>4 DEF Settle
<1>8. ASSUME NEW t \in Turns, TurnDies(t) PROVE TypeOK'
  <2>1. owner' \in [Runs -> {Nobody} \union 1 .. AtOnce]
    BY <1>8 DEF TurnDies
  <2>2. left' \in [naps : Nat, deaths : Nat, cancels : Nat, requeues : Nat]
    BY <1>8 DEF TurnDies
  <2> QED BY <1>8, <2>1, <2>2 DEF TurnDies
<1>9. ASSUME NEW r \in Runs, Start(r) PROVE TypeOK'
  <2>1. /\ status' \in [Runs -> Queued \union Ended \union {"absent"}]
        /\ wake' \in [Runs -> {"none", "timer", "start"}]
    BY <1>9, SMTT(30) DEF Start
  <2>2. \A q \in Runs : status[q] \in Queued => status'[q] \in Queued
    BY <1>9 DEF Start
  <2> QED BY <1>9, <2>1, <2>2 DEF Start
<1>10. ASSUME NEW r \in Runs, ListGated(r) PROVE TypeOK'
  BY <1>10 DEF ListGated, Oldest
<1>11. ASSUME NEW r \in Runs, MakeDue(r) PROVE TypeOK'
  BY <1>11 DEF MakeDue, DueNow
<1>12. ASSUME NEW r \in Runs, NotifierDies(r) PROVE TypeOK'
  BY <1>12 DEF NotifierDies
<1>13. ASSUME NEW r \in Runs, Recover(r) PROVE TypeOK'
  BY <1>13 DEF Recover, Released
<1>14. ASSUME NEW r \in Runs, AskCancel(r) PROVE TypeOK'
  BY <1>14 DEF AskCancel
<1>15. ASSUME NEW r \in Runs, Cancel(r) PROVE TypeOK'
  BY <1>15 DEF Cancel, Released
<1>16. ASSUME NEW r \in Runs, AskRequeue(r) PROVE TypeOK'
  BY <1>16 DEF AskRequeue
<1>17. ASSUME NEW r \in Runs, Requeue(r) PROVE TypeOK'
  BY <1>17 DEF Requeue
<1>18. ASSUME NEW r \in Runs, StartTimeComes(r) PROVE TypeOK'
  BY <1>18 DEF StartTimeComes
<1>19. CASE UNCHANGED vars
  BY <1>19 DEF vars
<1> QED
  BY <1>1, <1>2, <1>3, <1>4, <1>5, <1>6, <1>7, <1>8, <1>9, <1>10, <1>11, <1>12, <1>13,
     <1>14, <1>15, <1>16, <1>17, <1>18, <1>19 DEF Next, TurnStep

\* Type correctness of the gate: in particular a singleton marker is found on
\* rows of queued runs only, so an ended run holds no slot.
THEOREM TypeCorrect == Spec => []TypeOK
<1>1. TypeOK /\ [Next]_vars => TypeOK' BY TypeStep
<1> QED BY InitTypes, <1>1, PTL DEF Spec

-----------------------------------------------------------------------------
(* Slots are counted: only an admission takes one, and it found one free.  *)

\* Sets of runs have a size.
LEMMA FiniteRuns ==
  \A S \in SUBSET Runs : IsFiniteSet(S) /\ Cardinality(S) \in Nat
<1>1. IsFiniteSet(Runs) BY SingletonsAssumption, FS_Interval DEF Runs
<1> QED BY <1>1, FS_Subset, FS_CardinalityType

\* What a run that is given a slot found: a slot beside those in use, and fewer
\* than `limit' runs of the queue before it.
LEMMA GrantedRank ==
  ASSUME TypeOK, NEW c \in Active, Granted(c)
  PROVE  /\ Cardinality(Tagged) + 1 <= limit
         /\ Cardinality({q \in Active : q <= c}) <= limit
<1> DEFINE H == Holders(c)
           W == {q \in Waiters(c) : q <= c}
           A == {q \in Active : q <= c}
<1>1. Runs \subseteq Int /\ limit \in Nat BY SettingTypes DEF TypeOK, Runs
<1>2. Active \subseteq Runs /\ Tagged \subseteq H /\ H \subseteq Active
  BY DEF Active, Tagged, Holders, Legacy, Scanned
<1>3. Waiters(c) = Active \ H BY DEF Waiters
<1>4. c \in W /\ Cardinality(W) <= limit - Cardinality(H)
  <2>1. c \in Waiters(c) /\ Cardinality(W) <= limit - Cardinality(H)
    BY DEF Granted, Oldest
  <2> QED BY <1>1, <1>2, <2>1
<1>5. /\ IsFiniteSet(W) /\ IsFiniteSet(H) /\ IsFiniteSet(A) /\ IsFiniteSet(Tagged)
      /\ Cardinality(W) \in Nat /\ Cardinality(H) \in Nat
      /\ Cardinality(A) \in Nat /\ Cardinality(Tagged) \in Nat
  <2>1. W \in SUBSET Runs /\ H \in SUBSET Runs /\ A \in SUBSET Runs /\ Tagged \in SUBSET Runs
    BY <1>2, <1>3
  <2> QED BY <2>1, FiniteRuns
<1>6. Cardinality(W) # 0 BY <1>4, <1>5, FS_EmptySet
<1>7. Cardinality(Tagged) <= Cardinality(H) BY <1>2, <1>5, FS_Subset
<1>8. Cardinality(A) <= Cardinality(H) + Cardinality(W)
  <2>1. A \in SUBSET (H \union W) BY <1>3
  <2>2. IsFiniteSet(H \cap W) /\ Cardinality(H \cap W) \in Nat
    <3>1. H \cap W \in SUBSET H OBVIOUS
    <3> QED BY <3>1, <1>5, FS_Subset, FS_CardinalityType
  <2>3. /\ IsFiniteSet(H \union W)
        /\ Cardinality(H \union W) = Cardinality(H) + Cardinality(W) - Cardinality(H \cap W)
    BY <1>5, FS_Union
  <2>4. Cardinality(A) <= Cardinality(H \union W) BY <2>1, <2>3, FS_Subset
  <2> QED BY <1>5, <2>2, <2>3, <2>4
<1> HIDE DEF H, W, A
<1>9. Cardinality(Tagged) + 1 <= limit BY <1>1, <1>4, <1>5, <1>6, <1>7
<1>10. Cardinality(A) <= limit BY <1>1, <1>4, <1>5, <1>8
<1> QED BY <1>9, <1>10 DEF A

\* The setting is chosen once.
LEMMA SettingStays == ASSUME [Next]_vars PROVE setting' = setting
  BY DEF Next, vars, calls, TurnStep, ReadRun, Lock, Poll, MarkStarted, Admit, Deny, Settle,
         TurnDies, Start, ListGated, MakeDue, NotifierDies, Recover, AskCancel, Cancel,
         AskRequeue, Requeue, StartTimeComes

\* No write but an admission's makes a run a holder.
LEMMA SlotsAreGiven ==
  ASSUME TypeOK, [Next]_vars
  PROVE  Tagged' \subseteq Tagged \/ \E t \in Turns : Admit(t)
<1> SUFFICES ASSUME \A t \in Turns : ~Admit(t)
             PROVE  \A r \in Runs : tag'[r] = "admitted" => tag[r] = "admitted"
  BY DEF Tagged, Active, TypeOK
<1> USE TurnsOfRuns DEF TypeOK, rows
<1>1. ASSUME NEW t \in Turns, ReadRun(t) \/ Lock(t) \/ Poll(t) \/ TurnDies(t)
      PROVE  tag' = tag
  BY <1>1 DEF ReadRun, Lock, Poll, TurnDies
<1>2. ASSUME NEW t \in Turns, MarkStarted(t)
      PROVE  \A r \in Runs : tag'[r] = "admitted" => tag[r] = "admitted"
  BY <1>2 DEF MarkStarted, Marked
<1>3. ASSUME NEW t \in Turns, Deny(t)
      PROVE  \A r \in Runs : tag'[r] = "admitted" => tag[r] = "admitted"
  BY <1>3 DEF Deny, Tracked
<1>4. ASSUME NEW t \in Turns, NEW o \in {"completed", "failed", "suspended", "blocked"},
             Settle(t, o)
      PROVE  \A r \in Runs : tag'[r] = "admitted" => tag[r] = "admitted"
  BY <1>4 DEF Settle, Released
<1>5. ASSUME NEW r \in Runs, Recover(r) \/ Cancel(r)
      PROVE  \A q \in Runs : tag'[q] = "admitted" => tag[q] = "admitted"
  BY <1>5 DEF Recover, Cancel, Released
<1>6. ASSUME NEW r \in Runs, \/ Start(r) \/ ListGated(r) \/ MakeDue(r) \/ NotifierDies(r)
                             \/ AskCancel(r) \/ AskRequeue(r) \/ Requeue(r) \/ StartTimeComes(r)
      PROVE  tag' = tag
  BY <1>6 DEF Start, ListGated, MakeDue, NotifierDies, AskCancel, AskRequeue, Requeue,
              StartTimeComes
<1>7. CASE UNCHANGED vars BY <1>7 DEF vars
<1> QED BY <1>1, <1>2, <1>3, <1>4, <1>5, <1>6, <1>7 DEF Next, TurnStep

\* A run is admitted while it is in the queue, and only it becomes a holder.
LEMMA AdmitAdds ==
  ASSUME TypeOK, NEW t \in Turns, Admit(t)
  PROVE  /\ t[1] \in Active /\ Active' = Active
         /\ t[1] \notin Tagged => Granted(t[1])
         /\ Tagged' = Tagged \union {t[1]}
  BY TurnsOfRuns DEF Admit, Admitted, Tagged, Active, TypeOK

\* An admission found a slot free; no other step takes one.
LEMMA SlotsStep ==
  ASSUME TypeOK, SlotsWithinLimit, [Next]_vars PROVE SlotsWithinLimit'
<1>1. limit' = limit /\ limit \in Nat BY SettingStays, SettingTypes DEF limit, TypeOK
<1>2. Tagged \in SUBSET Runs /\ Active \subseteq Runs BY DEF Tagged, Active
<1>3. CASE Tagged' \subseteq Tagged
  <2>1. Cardinality(Tagged') <= Cardinality(Tagged) BY <1>2, <1>3, FiniteRuns, FS_Subset
  <2>2. Cardinality(Tagged') \in Nat /\ Cardinality(Tagged) \in Nat
    BY <1>2, <1>3, FiniteRuns
  <2> QED BY <1>1, <2>1, <2>2 DEF SlotsWithinLimit
<1>4. ASSUME NEW t \in Turns, Admit(t) PROVE SlotsWithinLimit'
  <2>1. CASE t[1] \in Tagged
    <3>1. Tagged' = Tagged BY <1>4, <2>1, AdmitAdds
    <3> QED BY <1>1, <3>1 DEF SlotsWithinLimit
  <2>2. CASE t[1] \notin Tagged
    <3>1. Cardinality(Tagged) + 1 <= limit BY <1>4, <2>2, AdmitAdds, GrantedRank
    <3>2. Cardinality(Tagged') = Cardinality(Tagged) + 1
      BY <1>2, <1>4, <2>2, AdmitAdds, FiniteRuns, FS_AddElement
    <3> QED BY <1>1, <3>1, <3>2 DEF SlotsWithinLimit
  <2> QED BY <2>1, <2>2
<1> QED BY <1>3, <1>4, SlotsAreGiven

\* At first nobody holds a slot.
LEMMA InitSlots == Init => SlotsWithinLimit
<1> SUFFICES ASSUME Init PROVE SlotsWithinLimit OBVIOUS
<1>1. Tagged = {} BY DEF Init, Tagged, Active, Queued
<1>2. limit \in Nat BY SettingTypes DEF Init
<1> QED BY <1>1, <1>2, FS_EmptySet DEF SlotsWithinLimit

\* However turns race, processes die and operators interfere, no more runs of a
\* key hold a slot than there are slots (singletonAdmissionTags decides inside
\* the store's critical section, and every write that ends a run gives back).
THEOREM SlotsCounted == Spec => []SlotsWithinLimit
<1>1. TypeOK /\ SlotsWithinLimit /\ [Next]_vars => SlotsWithinLimit' BY SlotsStep
<1> QED BY TypeCorrect, InitSlots, <1>1, PTL DEF Spec

-----------------------------------------------------------------------------
(* A holder keeps its slot.                                                *)

\* A run that is not dispatched twice has its first turn only.
OneTurn ==
    \A t \in Turns : t[1] \notin setting.doubles /\ t[2] # 1 => at[t] = "idle"

\* Operators' calls come as the setting has it.
CallsOK ==
    /\ left.cancels <= setting.cancels /\ left.requeues <= setting.requeues
    /\ \A r \in Runs : /\ op[r] = "cancel" => setting.cancels > 0
                       /\ op[r] = "requeue" => setting.requeues > 0

\* A run whose body has begun is queued and has its slot; its turn does not hold
\* an old reading of the row; and a turn in the body finds its run begun, or
\* ended by somebody else for good.
HolderOK(r) ==
    /\ begun[r] => status[r] \in Queued /\ tag[r] = "admitted"
    /\ at[<<r, 1>>] \in {"lock", "mark"} /\ seen[<<r, 1>>] = "new" => ~begun[r]
    /\ at[<<r, 1>>] = "body" =>
          begun[r] \/ (setting.requeues = 0 /\ status[r] \in {"cancelled", "dead"})

HoldersOK == NotRestarted => \A r \in Runs \ setting.doubles : HolderOK(r)

HolderInv == TypeOK /\ OneTurn /\ CallsOK /\ HoldersOK

\* Only runs that are dispatched twice begin a second turn.
LEMMA OneTurnStep == ASSUME TypeOK, OneTurn, [Next]_vars PROVE OneTurn'
<1> USE SettingStays, TurnsOfRuns DEF TypeOK, OneTurn
<1>1. ASSUME NEW t \in Turns, ReadRun(t) PROVE OneTurn'
  BY <1>1 DEF ReadRun, MayTurn
<1>2. ASSUME NEW t \in Turns, Lock(t) PROVE OneTurn'
  <2>1. at[t] # "idle" /\ \E e \in {"idle", "mark", "admit"} : at' = [at EXCEPT ![t] = e]
    BY <1>2 DEF Lock, Entry
  <2> QED BY <2>1
<1>3. ASSUME NEW t \in Turns, Poll(t) PROVE OneTurn'
  BY <1>3 DEF Poll, MayTurn
<1>4. ASSUME NEW t \in Turns, MarkStarted(t) PROVE OneTurn'
  BY <1>4 DEF MarkStarted
<1>5. ASSUME NEW t \in Turns, Admit(t) PROVE OneTurn'
  BY <1>5 DEF Admit
<1>6. ASSUME NEW t \in Turns, at' = [at EXCEPT ![t] = "idle"] PROVE OneTurn'
  BY <1>6
<1>7. ASSUME NEW t \in Turns,
             \/ TurnDies(t) \/ Deny(t)
             \/ \E o \in {"completed", "failed", "suspended", "blocked"} : Settle(t, o)
      PROVE  at' = [at EXCEPT ![t] = "idle"]
  BY <1>7 DEF TurnDies, Deny, Settle, LetGo
<1>8. ASSUME NEW r \in Runs,
             \/ Start(r) \/ ListGated(r) \/ MakeDue(r) \/ NotifierDies(r) \/ Recover(r)
             \/ AskCancel(r) \/ Cancel(r) \/ AskRequeue(r) \/ Requeue(r) \/ StartTimeComes(r)
      PROVE  at' = at
  BY <1>8 DEF turns, Start, ListGated, MakeDue, NotifierDies, Recover, AskCancel, Cancel,
              AskRequeue, Requeue, StartTimeComes
<1>9. CASE UNCHANGED vars BY <1>9 DEF vars, turns
<1> QED BY <1>1, <1>2, <1>3, <1>4, <1>5, <1>6, <1>7, <1>8, <1>9 DEF Next, TurnStep

\* Operators do what the setting allows, and no more.
LEMMA CallsStep == ASSUME TypeOK, CallsOK, [Next]_vars PROVE CallsOK'
<1> USE SettingTypes DEF TypeOK, CallsOK
<1>1. setting' = setting BY SettingStays
<1>2. ASSUME NEW r \in Runs, AskCancel(r) PROVE CallsOK'
  BY <1>1, <1>2 DEF AskCancel
<1>3. ASSUME NEW r \in Runs, AskRequeue(r) PROVE CallsOK'
  BY <1>1, <1>3 DEF AskRequeue
<1>4. ASSUME NEW r \in Runs, Cancel(r) \/ Requeue(r) PROVE CallsOK'
  BY <1>1, <1>4 DEF Cancel, Requeue
<1>5. ASSUME NEW r \in Runs, \/ Start(r) \/ ListGated(r) \/ MakeDue(r) \/ NotifierDies(r)
                             \/ Recover(r) \/ StartTimeComes(r)
      PROVE  CallsOK'
  BY <1>1, <1>5 DEF calls, Start, ListGated, MakeDue, NotifierDies, Recover, StartTimeComes
<1>6. ASSUME NEW t \in Turns, ReadRun(t) \/ TurnStep(t) \/ TurnDies(t)
      PROVE  op' = op /\ left'.cancels = left.cancels /\ left'.requeues = left.requeues
  <2>1. CASE ReadRun(t) \/ Lock(t) \/ Poll(t) \/ MarkStarted(t) \/ Admit(t) \/ Deny(t)
    BY <2>1 DEF calls, ReadRun, Lock, Poll, MarkStarted, Admit, Deny
  <2>2. CASE TurnDies(t) BY <2>2 DEF calls, TurnDies
  <2>3. ASSUME NEW o \in {"completed", "failed", "suspended", "blocked"}, Settle(t, o)
        PROVE  op' = op /\ left'.cancels = left.cancels /\ left'.requeues = left.requeues
    <3>1. op' = op /\ (left' = left \/ left' = [left EXCEPT !.naps = @ - 1])
      BY <2>3 DEF Settle
    <3> QED BY <3>1
  <2> QED BY <1>6, <2>1, <2>2, <2>3 DEF TurnStep
<1>7. CASE UNCHANGED vars BY <1>1, <1>7 DEF vars, calls
<1> QED BY <1>1, <1>2, <1>3, <1>4, <1>5, <1>6, <1>7 DEF Next

\* What a step leaves of a run it does not touch.
Untouched(r) ==
    /\ status'[r] = status[r] /\ tag'[r] = tag[r] /\ begun'[r] = begun[r]
    /\ at'[<<r, 1>>] = at[<<r, 1>>] /\ seen'[<<r, 1>>] = seen[<<r, 1>>]

\* A run whose row, place and history are left alone keeps its slot.
LEMMA UntouchedHolder ==
  ASSUME NEW r, Untouched(r), setting' = setting, HolderOK(r) PROVE HolderOK(r)'
  BY DEF Untouched, HolderOK

\* The turn that moves is its run's first, unless the run is dispatched twice.
LEMMA FirstTurn ==
  ASSUME OneTurn, NEW t \in Turns, t[1] \notin setting.doubles, at[t] # "idle" \/ MayTurn(t)
  PROVE  t = <<t[1], 1>>
  BY TurnsOfRuns DEF OneTurn, MayTurn

\* A turn's step leaves the slot of every run inside, its own included.
LEMMA HolderTurnStep ==
  ASSUME TypeOK, OneTurn, NotRestarted, NEW r \in Runs \ setting.doubles, HolderOK(r),
         setting' = setting,
         NEW t \in Turns, ReadRun(t) \/ TurnStep(t) \/ TurnDies(t)
  PROVE  HolderOK(r)'
<1> USE TurnsOfRuns DEF TypeOK, rows, turns
<1>0. <<r, 1>> \in Turns BY SingletonsAssumption DEF Turns
<1>1. CASE t[1] # r
  <2>1. t # <<r, 1>> BY <1>1
  <2>2. ASSUME \E e \in {"idle", "lock", "mark", "admit"} : at' = [at EXCEPT ![t] = e],
               \E e \in {"new", "marked", "started"} : seen' = [seen EXCEPT ![t] = e],
               UNCHANGED <<status, tag, begun>>
        PROVE  HolderOK(r)'
    BY <1>0, <2>1, <2>2, UntouchedHolder DEF Untouched
  <2>3. CASE ReadRun(t) BY <2>2, <2>3 DEF ReadRun, Sight
  <2>4. CASE Poll(t) BY <2>2, <2>4 DEF Poll, Sight, Entry
  <2>5. CASE TurnDies(t) BY <2>2, <2>5 DEF TurnDies
  <2>6. CASE Lock(t)
    BY <1>0, <2>1, <2>6, UntouchedHolder, SMTT(30) DEF Lock, Untouched
  <2>7. CASE MarkStarted(t)
    BY <1>0, <1>1, <2>1, <2>7, UntouchedHolder DEF MarkStarted, Untouched
  <2>8. CASE Admit(t)
    BY <1>0, <1>1, <2>1, <2>8, UntouchedHolder, ZenonT(60) DEF Admit, Untouched
  <2>9. CASE Deny(t)
    BY <1>0, <1>1, <2>1, <2>9, UntouchedHolder, SMTT(30) DEF Deny, LetGo, Untouched
  <2>10. ASSUME NEW o \in {"completed", "failed", "suspended", "blocked"}, Settle(t, o)
        PROVE  HolderOK(r)'
    BY <1>0, <1>1, <2>1, <2>10, UntouchedHolder, SMTT(30) DEF Settle, LetGo, Untouched
  <2> QED BY <2>3, <2>4, <2>5, <2>6, <2>7, <2>8, <2>9, <2>10 DEF TurnStep
<1>2. CASE t[1] = r
  <2>1. at[t] # "idle" \/ MayTurn(t)
    BY DEF ReadRun, TurnStep, TurnDies, Lock, Poll, MarkStarted, Admit, Deny, Settle
  <2>2. t = <<r, 1>> BY <1>2, <2>1, FirstTurn
  <2>3. CASE ReadRun(t)
    BY <2>2, <2>3 DEF ReadRun, Sight, HolderOK
  <2>4. CASE Lock(t)
    BY <2>2, <2>4 DEF Lock, Entry, HolderOK
  <2>5. CASE Poll(t)
    BY <2>2, <2>5 DEF Poll, Sight, Entry, HolderOK
  <2>6. CASE MarkStarted(t)
    BY <2>2, <2>6 DEF MarkStarted, Marked, HolderOK, Queued
  <2>7. CASE Admit(t)
    BY <2>2, <2>7 DEF Admit, Admitted, Tagged, Active, HolderOK
  <2>8. CASE Deny(t)
    BY <2>2, <2>8 DEF Deny, Tracked, LetGo, Active, Queued, HolderOK
  <2>9. ASSUME NEW o \in {"completed", "failed", "suspended", "blocked"}, Settle(t, o)
        PROVE  HolderOK(r)'
    <3>1. at'[<<r, 1>>] = "idle" /\ at[<<r, 1>>] = "body" BY <2>2, <2>9 DEF Settle, LetGo
    <3>2. CASE UNCHANGED <<status, tag, begun>> BY <3>1, <3>2 DEF HolderOK
    <3>3. CASE /\ Applies(r, o)
               /\ status' = [status EXCEPT ![r] = o]
               /\ tag' = [tag EXCEPT ![r] = Released(@, o)]
               /\ begun' = [begun EXCEPT ![r] = o \notin Ended]
      <4>1. begun[r] BY <3>1, <3>3 DEF HolderOK, Applies, Queued
      <4> QED BY <3>1, <3>3, <4>1, ZenonT(60) DEF HolderOK, Released, Queued, Ended
    <3> QED BY <1>2, <2>9, <3>2, <3>3 DEF Settle
  <2>10. CASE TurnDies(t)
    BY <2>2, <2>10 DEF TurnDies, HolderOK
  <2> QED BY <2>3, <2>4, <2>5, <2>6, <2>7, <2>8, <2>9, <2>10 DEF TurnStep
<1> QED BY <1>1, <1>2

\* So do starts, wakes, recoveries, and the operators that NotRestarted allows.
LEMMA HolderCallStep ==
  ASSUME TypeOK, CallsOK, NotRestarted, NEW r \in Runs \ setting.doubles, HolderOK(r),
         setting' = setting,
         NEW q \in Runs,
         \/ Start(q) \/ ListGated(q) \/ MakeDue(q) \/ NotifierDies(q) \/ Recover(q)
         \/ AskCancel(q) \/ Cancel(q) \/ AskRequeue(q) \/ Requeue(q) \/ StartTimeComes(q)
  PROVE  HolderOK(r)'
<1> USE SettingTypes DEF TypeOK, rows, turns
<1>1. CASE \/ ListGated(q) \/ MakeDue(q) \/ NotifierDies(q) \/ AskCancel(q)
           \/ AskRequeue(q) \/ StartTimeComes(q)
  BY <1>1, UntouchedHolder
  DEF ListGated, MakeDue, NotifierDies, AskCancel, AskRequeue, StartTimeComes, Untouched
<1>2. CASE Start(q)
  <2>1. /\ UNCHANGED <<tag, begun, at, seen>>
        /\ status[q] = "absent" /\ \E s \in Queued : status' = [status EXCEPT ![q] = s]
    BY <1>2 DEF Start, Queued
  <2> QED BY <2>1 DEF HolderOK, Queued
<1>3. CASE Recover(q)
  <2> DEFINE Written(o) ==
        /\ status' = [status EXCEPT ![q] = o]
        /\ wake' = IF o = "suspended" THEN [wake EXCEPT ![q] = "timer"] ELSE wake
        /\ tag' = [tag EXCEPT ![q] = Released(@, o)]
        /\ begun' = [begun EXCEPT ![q] = @ /\ o \notin Ended]
  <2>0. at' = at /\ seen' = seen /\ status[q] = "running" BY <1>3 DEF Recover
  <2>1. PICK o \in {"suspended", IF setting.deadLetters THEN "dead" ELSE "pending"} :
          Written(o)
    BY <1>3, Zenon DEF Recover
  <2>a. r \in Runs /\ begun[r] \in BOOLEAN OBVIOUS
  <2>2. CASE o = "dead"
    <3>1. setting.requeues = 0 BY <2>1, <2>2 DEF NotRestarted
    <3>2. status' = [status EXCEPT ![q] = "dead"] /\ begun' = [begun EXCEPT ![q] = FALSE]
      BY <2>1, <2>2 DEF Ended
    <3>3. tag' = [tag EXCEPT ![q] = "none"] BY <2>1, <2>2 DEF Released, Ended
    <3>4. CASE r = q
      <4>1. status'[r] = "dead" /\ begun'[r] = FALSE BY <3>2, <3>4, <2>a
      <4> QED BY <2>0, <4>1, <3>1 DEF HolderOK
    <3>5. CASE r # q
      <4>1. status'[r] = status[r] /\ begun'[r] = begun[r] /\ tag'[r] = tag[r]
        BY <3>2, <3>3, <3>5, <2>a
      <4> QED BY <2>0, <4>1, <3>1 DEF HolderOK
    <3> QED BY <3>4, <3>5
  <2>3. CASE o \in {"suspended", "pending"}
    <3>1. status'[r] = IF r = q THEN o ELSE status[r] BY <2>1, <2>a
    <3>2. o \notin Ended BY <2>3 DEF Ended
    <3>3. begun'[r] = begun[r] /\ tag'[r] = tag[r] BY <2>1, <2>a, <3>2 DEF Released
    <3> QED BY <2>0, <2>3, <3>1, <3>3 DEF HolderOK, Queued
  <2> QED BY <2>1, <2>2, <2>3
<1>4. CASE Cancel(q)
  <2>1. setting.requeues = 0 BY <1>4 DEF Cancel, CallsOK, NotRestarted
  <2> QED BY <1>4, <2>1 DEF Cancel, HolderOK
<1>5. CASE Requeue(q)
  <2>1. setting.requeues # 0 BY <1>5 DEF Requeue, CallsOK
  <2> QED BY <1>5, <2>1 DEF Requeue, HolderOK, Queued
<1> QED BY <1>1, <1>2, <1>3, <1>4, <1>5

\* So the invariant is inductive.
LEMMA HolderStep == ASSUME HolderInv, [Next]_vars PROVE HolderInv'
<1> USE DEF HolderInv
<1>1. TypeOK' /\ OneTurn' /\ CallsOK' /\ setting' = setting
  BY TypeStep, OneTurnStep, CallsStep, SettingStays
<1>2. HoldersOK'
  <2> SUFFICES ASSUME NotRestarted, NEW r \in Runs \ setting.doubles PROVE HolderOK(r)'
    BY <1>1 DEF HoldersOK, NotRestarted
  <2>1. HolderOK(r) BY DEF HoldersOK
  <2>2. CASE UNCHANGED vars
    BY <2>1, <2>2, UntouchedHolder DEF vars, rows, turns, Untouched
  <2> QED BY <1>1, <2>1, <2>2, HolderTurnStep, HolderCallStep DEF Next
<1> QED BY <1>1, <1>2

\* At first no body has begun.
LEMMA InitHolder == Init => HolderInv
<1> SUFFICES ASSUME Init PROVE HolderInv OBVIOUS
<1>1. OneTurn BY DEF Init, OneTurn
<1>2. CallsOK BY SettingTypes DEF Init, CallsOK
<1>3. HoldersOK BY SingletonsAssumption DEF Init, HoldersOK, HolderOK, Turns
<1> QED BY InitTypes, <1>1, <1>2, <1>3 DEF HolderInv

\* A run whose body has begun keeps its slot through deaths, recoveries, sleeps
\* and parkings, provided its turns do not overlap (the tag is dropped by writes
\* that end the run, and markStarted adds the other tag to an unmarked row only).
THEOREM HoldersKeepSlots == Spec => []HolderKeepsSlot
<1>1. HolderInv /\ [Next]_vars => HolderInv' BY HolderStep
<1>2. HolderInv => HolderKeepsSlot
  BY DEF HolderInv, HoldersOK, HolderOK, HolderKeepsSlot, Inside, Active
<1> QED BY InitHolder, <1>1, <1>2, PTL DEF Spec

-----------------------------------------------------------------------------
(* First come, first served.                                               *)

\* Runs come in queue order; a turn that read its run pending finds it so; and
\* holders are among the first of the queue.
InQueueOrder ==
    \A p, q \in Runs : p < q /\ status[q] # "absent" => status[p] # "absent"

ReadingsOK ==
    \A t \in Turns :
       at[t] = "mark" \/ (at[t] = "lock" /\ seen[t] # "started") => status[t[1]] = "pending"

Rank(r) == Cardinality({q \in Active : q <= r})

QueueOK ==
    Undisturbed => InQueueOrder /\ ReadingsOK /\ \A r \in Tagged : Rank(r) <= limit

QueueInv == HolderInv /\ QueueOK

\* Without operators there are no calls of theirs, and nobody ends a run but its
\* turn and the recoveries.
LEMMA UndisturbedMeans ==
  ASSUME HolderInv, Undisturbed
  PROVE  /\ setting.inOrder /\ setting.doubles = {} /\ NotRestarted
         /\ left.cancels = 0 /\ left.requeues = 0
         /\ \A r \in Runs : op[r] = "none" /\ HolderOK(r)
<1>1. setting.inOrder /\ setting.doubles = {} /\ setting.cancels = 0 /\ setting.requeues = 0
  BY SettingTypes DEF Undisturbed, HolderInv, TypeOK
<1>2. left.cancels = 0 /\ left.requeues = 0
  BY <1>1 DEF HolderInv, CallsOK, TypeOK
<1>3. \A r \in Runs : op[r] = "none"
  BY <1>1 DEF HolderInv, CallsOK, TypeOK
<1> QED BY <1>1, <1>2, <1>3 DEF NotRestarted, HolderInv, HoldersOK

\* Nobody comes back to the queue, and only a start puts a run in it.
QueuedByStart ==
    \A q \in Runs : \/ status'[q] = status[q]
                    \/ Start(q)
                    \/ status[q] \in Queued /\ status'[q] # "absent"

\* Without operators, a run that left the queue does not come back.
LEMMA NobodyReturns ==
  ASSUME HolderInv, QueueOK, Undisturbed, [Next]_vars PROVE QueuedByStart
<1> USE UndisturbedMeans, TurnsOfRuns DEF HolderInv, TypeOK, rows, QueuedByStart, Queued
<1>1. ASSUME NEW t \in Turns, ReadRun(t) \/ Lock(t) \/ Poll(t) \/ Admit(t) \/ TurnDies(t)
      PROVE  status' = status
  BY <1>1 DEF ReadRun, Lock, Poll, Admit, TurnDies
<1>2. ASSUME NEW t \in Turns, MarkStarted(t) PROVE QueuedByStart
  BY <1>2 DEF MarkStarted, QueueOK, ReadingsOK
<1>3. ASSUME NEW t \in Turns, Deny(t) PROVE QueuedByStart
  BY <1>3 DEF Deny, Active
<1>4. ASSUME NEW t \in Turns, NEW o \in {"completed", "failed", "suspended", "blocked"},
             Settle(t, o)
      PROVE  QueuedByStart
  <2>1. t = <<t[1], 1>> /\ at[t] = "body" BY <1>4, FirstTurn DEF Settle
  <2>2. status[t[1]] \in Queued \union {"cancelled", "dead"} BY <2>1 DEF HolderOK
  <2> QED BY <1>4, <2>2 DEF Settle, Applies
<1>5. ASSUME NEW r \in Runs, Start(r) PROVE QueuedByStart
  BY <1>5 DEF Start
<1>6. ASSUME NEW r \in Runs, Recover(r) PROVE QueuedByStart
  BY <1>6 DEF Recover
<1>7. ASSUME NEW r \in Runs, \/ ListGated(r) \/ MakeDue(r) \/ NotifierDies(r) \/ AskCancel(r)
                             \/ Cancel(r) \/ AskRequeue(r) \/ Requeue(r) \/ StartTimeComes(r)
      PROVE  status' = status
  BY <1>7 DEF ListGated, MakeDue, NotifierDies, AskCancel, Cancel, AskRequeue, Requeue,
              StartTimeComes
<1>8. CASE UNCHANGED vars BY <1>8 DEF vars
<1> QED BY <1>1, <1>2, <1>3, <1>4, <1>5, <1>6, <1>7, <1>8 DEF Next, TurnStep

\* And one that was read pending is so until its turn marks it.
LEMMA ReadingsStep ==
  ASSUME HolderInv, QueueOK, Undisturbed, [Next]_vars PROVE ReadingsOK'
<1> USE UndisturbedMeans, TurnsOfRuns DEF HolderInv, TypeOK, rows, turns
<1>1. ReadingsOK BY DEF QueueOK
<1>2. ASSUME NEW t \in Turns, ReadRun(t) \/ TurnStep(t) \/ TurnDies(t) PROVE ReadingsOK'
  <2> SUFFICES ASSUME NEW s \in Turns,
                      at'[s] = "mark" \/ (at'[s] = "lock" /\ seen'[s] # "started")
               PROVE  status'[s[1]] = "pending"
    BY DEF ReadingsOK
  <2>1. t = <<t[1], 1>>
    BY <1>2, FirstTurn
    DEF ReadRun, TurnStep, TurnDies, Lock, Poll, MarkStarted, Admit, Deny, Settle
  <2>2. CASE s # t
    <3>1. at'[s] = at[s] /\ seen'[s] = seen[s]
      BY <1>2, <2>2 DEF ReadRun, TurnStep, TurnDies, Lock, Poll, MarkStarted, Admit, Deny,
                        Settle, LetGo
    <3>2. s = <<s[1], 1>> BY <3>1, FirstTurn
    <3>3. s[1] # t[1] BY <2>1, <2>2, <3>2
    <3>4. status'[s[1]] = status[s[1]]
      <4>1. CASE ReadRun(t) \/ Lock(t) \/ Poll(t) \/ Admit(t) \/ TurnDies(t)
        BY <4>1 DEF ReadRun, Lock, Poll, Admit, TurnDies
      <4>2. CASE MarkStarted(t) BY <3>3, <4>2 DEF MarkStarted
      <4>3. CASE Deny(t) BY <3>3, <4>3 DEF Deny
      <4>4. ASSUME NEW o \in {"completed", "failed", "suspended", "blocked"}, Settle(t, o)
            PROVE  status'[s[1]] = status[s[1]]
        BY <3>3, <4>4 DEF Settle
      <4> QED BY <1>2, <4>1, <4>2, <4>3, <4>4 DEF TurnStep
    <3> QED BY <1>1, <3>1, <3>4 DEF ReadingsOK
  <2>3. CASE s = t
    <3>1. CASE ReadRun(t) BY <2>3, <3>1 DEF ReadRun, Sight
    <3>2. CASE Lock(t) BY <1>1, <2>3, <3>2 DEF Lock, Entry, ReadingsOK
    <3>3. CASE Poll(t) BY <2>3, <3>3 DEF Poll, Sight, Entry
    <3>4. CASE MarkStarted(t) \/ Admit(t) BY <2>3, <3>4 DEF MarkStarted, Admit
    <3>5. CASE TurnDies(t) BY <2>3, <3>5 DEF TurnDies
    <3>6. CASE Deny(t) \/ \E o \in {"completed", "failed", "suspended", "blocked"} : Settle(t, o)
      BY <2>3, <3>6 DEF Deny, Settle, LetGo
    <3> QED BY <1>2, <3>1, <3>2, <3>3, <3>4, <3>5, <3>6 DEF TurnStep
  <2> QED BY <2>2, <2>3
<1>3. ASSUME NEW r \in Runs, Start(r) PROVE ReadingsOK'
  <2>1. at' = at /\ seen' = seen /\ status[r] = "absent" BY <1>3 DEF Start
  <2>2. \A q \in Runs : q # r => status'[q] = status[q] BY <1>3 DEF Start
  <2> QED BY <1>1, <2>1, <2>2 DEF ReadingsOK
<1>4. ASSUME NEW r \in Runs, Recover(r) PROVE ReadingsOK'
  <2>1. at' = at /\ seen' = seen /\ status[r] = "running" BY <1>4 DEF Recover
  <2>2. \A q \in Runs : q # r => status'[q] = status[q] BY <1>4 DEF Recover
  <2> QED BY <1>1, <2>1, <2>2 DEF ReadingsOK
<1>5. ASSUME NEW r \in Runs, \/ ListGated(r) \/ MakeDue(r) \/ NotifierDies(r) \/ AskCancel(r)
                             \/ Cancel(r) \/ AskRequeue(r) \/ Requeue(r) \/ StartTimeComes(r)
      PROVE  ReadingsOK'
  <2>1. UNCHANGED <<at, seen, status>>
    BY <1>5 DEF ListGated, MakeDue, NotifierDies, AskCancel, Cancel, AskRequeue, Requeue,
                StartTimeComes
  <2> QED BY <1>1, <2>1 DEF ReadingsOK
<1>6. CASE UNCHANGED vars BY <1>1, <1>6 DEF vars, ReadingsOK
<1> QED BY <1>2, <1>3, <1>4, <1>5, <1>6 DEF Next

\* So a holder stays among the first of the queue.
LEMMA QueueStep == ASSUME QueueInv, [Next]_vars PROVE QueueInv'
<1> USE DEF QueueInv
<1>1. HolderInv' /\ setting' = setting BY HolderStep, SettingStays
<1>2. QueueOK'
  <2> SUFFICES ASSUME Undisturbed
               PROVE  InQueueOrder' /\ ReadingsOK' /\ \A r \in Tagged' : Rank(r)' <= limit'
    BY <1>1 DEF QueueOK, Undisturbed
  <2>1. QueuedByStart /\ InQueueOrder /\ ReadingsOK' /\ limit' = limit /\ limit \in Nat
    BY <1>1, NobodyReturns, ReadingsStep, SettingTypes DEF QueueOK, limit, HolderInv, TypeOK
  <2>2. \A q \in Runs : Start(q) => /\ status[q] = "absent"
                                    /\ \A p \in Runs : p < q => status[p] # "absent"
    BY UndisturbedMeans DEF Start
  <2>3. InQueueOrder'
    <3> SUFFICES ASSUME NEW p \in Runs, NEW q \in Runs, p < q, status'[q] # "absent"
                 PROVE  status'[p] # "absent"
      BY DEF InQueueOrder
    <3>1. status[p] # "absent" BY <2>1, <2>2 DEF QueuedByStart, InQueueOrder, Queued
    <3> QED BY <2>1, <2>2, <3>1 DEF QueuedByStart
  <2>4. ASSUME NEW r \in Tagged PROVE Rank(r)' <= limit'
    <3>1. r \in Runs /\ status[r] \in Queued BY DEF Tagged, Active
    <3>2. \A q \in Runs : q <= r => status[q] # "absent"
      BY <2>1, <3>1, SingletonsAssumption DEF InQueueOrder, Queued, Runs
    <3>3. {q \in Active' : q <= r} \subseteq {q \in Active : q <= r}
      BY <2>1, <2>2, <3>2 DEF QueuedByStart, Active
    <3>4. {q \in Active : q <= r} \in SUBSET Runs /\ {q \in Active' : q <= r} \in SUBSET Runs
      BY <3>3 DEF Active
    <3>5. Rank(r)' <= Rank(r) /\ Rank(r) \in Nat /\ Rank(r)' \in Nat
      BY <3>3, <3>4, FiniteRuns, FS_Subset DEF Rank
    <3>6. Rank(r) <= limit BY DEF QueueOK
    <3> QED BY <2>1, <3>5, <3>6
  <2>5. ASSUME NEW t \in Turns, Admit(t), NEW r \in Tagged' PROVE Rank(r)' <= limit'
    <3>1. /\ t[1] \in Active /\ Active' = Active /\ Tagged' = Tagged \union {t[1]}
          /\ t[1] \notin Tagged => Granted(t[1])
      BY <2>5, AdmitAdds DEF HolderInv
    <3>2. CASE r \in Tagged BY <2>4, <3>2
    <3>3. CASE r \notin Tagged
      <4>1. r = t[1] /\ Granted(r) BY <2>5, <3>1, <3>3
      <4>2. Rank(r) <= limit BY <3>1, <4>1, GrantedRank DEF Rank, HolderInv
      <4>3. Rank(r)' = Rank(r) BY <3>1 DEF Rank
      <4> QED BY <2>1, <4>2, <4>3
    <3> QED BY <3>2, <3>3
  <2>6. \A r \in Tagged' : Rank(r)' <= limit'
    BY <2>4, <2>5, SlotsAreGiven DEF HolderInv
  <2> QED BY <2>1, <2>3, <2>6
<1> QED BY <1>1, <1>2

\* At first the queue is empty.
LEMMA InitQueue == Init => QueueInv
<1> SUFFICES ASSUME Init PROVE QueueInv OBVIOUS
<1>1. InQueueOrder /\ ReadingsOK BY DEF Init, InQueueOrder, ReadingsOK
<1>2. Tagged = {} BY DEF Init, Tagged, Active, Queued
<1> QED BY <1>1, <1>2, InitHolder DEF QueueInv, QueueOK

\* Among runs created in queue order, those past the gate are always among the
\* first `limit' of the queue, whatever dies and is recovered (the free slots go
\* to the oldest waiters, and waiters of every status count).
THEOREM QueueIsServedInOrder == Spec => []FirstComeFirstServed
<1>1. QueueInv /\ [Next]_vars => QueueInv' BY QueueStep
<1>2. QueueInv => FirstComeFirstServed
  <2> SUFFICES ASSUME QueueInv, Undisturbed, NEW r \in Inside PROVE Rank(r) <= limit
    BY DEF FirstComeFirstServed, Rank
  <2>1. r \in Active /\ begun[r] BY DEF Inside
  <2>2. HolderOK(r) BY <2>1, UndisturbedMeans DEF QueueInv, Active
  <2>3. r \in Tagged BY <2>1, <2>2 DEF HolderOK, Tagged
  <2> QED BY <2>3 DEF QueueInv, QueueOK
<1> QED BY InitQueue, <1>1, <1>2, PTL DEF Spec

-----------------------------------------------------------------------------
(* Nobody is denied for nothing.                                           *)

\* No process dies, nothing is requeued, and no run waits for its startAt.
Plain == setting.delayed = {} /\ setting.deaths + setting.requeues = 0

\* Whoever executes a run has its lease; a run that was executed is marked, one
\* that was not is not; and who has a slot, or is blocked, has begun.
PlainRun(r) ==
    /\ startsAt[r] = "past"
    /\ status[r] = "running" => owner[r] # Nobody
    /\ status[r] = "pending" => tag[r] = "none"
    /\ status[r] \in {"running", "suspended", "blocked"} => tag[r] # "none"
    /\ status[r] = "blocked" \/ tag[r] = "admitted" => begun[r]

PlainTurn(t) ==
    /\ at[t] \in {"mark", "admit", "body"} => owner[t[1]] = t[2]
    /\ at[t] = "mark" => seen[t] = "new"
    /\ at[t] = "lock" => seen[t] # "marked"
    /\ at[t] = "admit" \/ (at[t] = "lock" /\ seen[t] = "started") =>
          status[t[1]] \notin {"pending", "absent"}
    /\ at[t] = "body" => status[t[1]] \in {"running", "suspended", "blocked", "cancelled"}

PlainOK ==
    Plain => /\ left.deaths = 0
             /\ \A r \in Runs : PlainRun(r)
             /\ \A t \in Turns : PlainTurn(t)

PlainInv == HolderInv /\ PlainOK

\* Then nothing dies, and nothing is requeued or recovered: a run that is
\* `running' has its executor.
LEMMA PlainMeans ==
  ASSUME PlainInv, Plain
  PROVE  /\ left.deaths = 0
         /\ \A r \in Runs : ~Recover(r) /\ ~Requeue(r) /\ ~NotifierDies(r)
         /\ \A t \in Turns : ~TurnDies(t)
         /\ \A r \in Runs : PlainRun(r)
         /\ \A t \in Turns : PlainTurn(t)
<1> USE DEF PlainInv, HolderInv, TypeOK
<1>1. setting.requeues = 0 BY SettingTypes DEF Plain
<1>2. \A r \in Runs : ~Requeue(r) BY <1>1 DEF CallsOK, Requeue
<1>3. left.deaths = 0 /\ \A r \in Runs : PlainRun(r) BY DEF PlainOK
<1>4. \A t \in Turns : PlainTurn(t) BY DEF PlainOK
<1> QED BY <1>2, <1>3, <1>4 DEF Recover, PlainRun, NotifierDies, TurnDies

\* What one turn does to its own run and to its own place.
LEMMA PlainHere ==
  ASSUME PlainInv, Plain, NEW t \in Turns,
         ReadRun(t) \/ TurnStep(t)
  PROVE  PlainRun(t[1])' /\ PlainTurn(t)'
<1> DEFINE r == t[1]
<1> USE DEF PlainInv, HolderInv, TypeOK, Queued, Ended
<1>0. r \in Runs /\ t[2] \in 1 .. AtOnce /\ t[2] # Nobody
  BY TurnsOfRuns DEF Nobody
<1>1. PlainRun(r) /\ PlainTurn(t) BY <1>0, PlainMeans
<1> USE <1>0, <1>1 DEF rows, PlainRun, PlainTurn
<1>2. CASE ReadRun(t)
  BY <1>2 DEF ReadRun, Sight, Active
<1>3. CASE Lock(t)
  BY <1>3 DEF Lock, Entry
<1>4. CASE Poll(t)
  <2>1. status[r] # "pending" => Sight(r) = "started" BY DEF Sight
  <2>2. status[r] = "pending" => Sight(r) = "new" BY DEF Sight
  <2> QED BY <1>4, <2>1, <2>2 DEF Poll, Entry, Due
<1>5. CASE MarkStarted(t)
  BY <1>5 DEF MarkStarted, Marked
<1>6. CASE Admit(t)
  BY <1>6 DEF Admit, Admitted, Active, Tagged
<1>7. CASE Deny(t)
  BY <1>7 DEF Deny, LetGo, Active, Tracked
<1>8. ASSUME NEW o \in {"completed", "failed", "suspended", "blocked"}, Settle(t, o)
      PROVE  PlainRun(r)' /\ PlainTurn(t)'
  <2>1. at'[t] = "idle" /\ owner' \in [Runs -> {Nobody} \union 1 .. AtOnce]
    BY <1>8 DEF Settle, LetGo
  <2>2. PlainTurn(t)' BY <2>1
  <2>3. CASE /\ status' = [status EXCEPT ![r] = o]
             /\ tag' = [tag EXCEPT ![r] = Released(tag[r], o)]
             /\ begun' = [begun EXCEPT ![r] = o \notin Ended]
             /\ Applies(r, o)
    <3>1. status'[r] = o /\ tag'[r] = Released(tag[r], o) /\ begun'[r] = (o \notin Ended)
      BY <2>3
    <3>2. tag[r] # "none" BY <1>8, <2>3 DEF Settle, Applies
    <3>3. startsAt'[r] = "past" BY <1>8 DEF Settle
    <3> QED BY <2>2, <3>1, <3>2, <3>3 DEF Released
  <2>4. CASE (~Applies(r, o) \/ owner[r] # t[2]) /\ UNCHANGED <<status, tag, wake, begun>>
    <3>1. owner[r] = t[2] /\ startsAt' = startsAt BY <1>8 DEF Settle
    <3>2. status[r] = "cancelled" BY <1>8, <2>4, <3>1 DEF Settle, Applies
    <3> QED BY <2>2, <2>4, <3>1, <3>2
  <2> QED BY <1>8, <2>3, <2>4 DEF Settle
<1> QED BY <1>2, <1>3, <1>4, <1>5, <1>6, <1>7, <1>8 DEF TurnStep

\* A turn touches no other run; and of another turn of its run it takes nothing:
\* only one has the lease, and what the other one read stays read.
LEMMA PlainElsewhere ==
  ASSUME PlainInv, Plain, NEW t \in Turns,
         ReadRun(t) \/ TurnStep(t)
  PROVE  /\ \A q \in Runs : q # t[1] => PlainRun(q)'
         /\ \A s \in Turns : s # t => PlainTurn(s)'
<1> USE DEF PlainInv, HolderInv, TypeOK, Queued, Ended, rows
<1> DEFINE r == t[1]
<1>0. r \in Runs /\ t[2] \in 1 .. AtOnce /\ t[2] # Nobody /\ t = <<t[1], t[2]>>
  BY TurnsOfRuns DEF Nobody
<1>a. PlainRun(r) /\ PlainTurn(t) BY <1>0, PlainMeans
<1>b. startsAt' = startsAt
  BY DEF ReadRun, TurnStep, Lock, Poll, MarkStarted, Admit, Deny, Settle
<1>1. \A q \in Runs : q # r => /\ status'[q] = status[q] /\ tag'[q] = tag[q]
                               /\ owner'[q] = owner[q] /\ begun'[q] = begun[q]
  <2> SUFFICES ASSUME NEW q \in Runs, q # r
               PROVE  /\ status'[q] = status[q] /\ tag'[q] = tag[q]
                      /\ owner'[q] = owner[q] /\ begun'[q] = begun[q]
    OBVIOUS
  <2>1. CASE ReadRun(t) \/ Lock(t) \/ Poll(t) \/ MarkStarted(t) \/ Admit(t)
    BY <2>1, <1>0 DEF ReadRun, Lock, Poll, MarkStarted, Admit
  <2>2. CASE Deny(t) BY <2>2, <1>0 DEF Deny, LetGo
  <2>3. ASSUME NEW o \in {"completed", "failed", "suspended", "blocked"}, Settle(t, o)
        PROVE  /\ status'[q] = status[q] /\ tag'[q] = tag[q]
               /\ owner'[q] = owner[q] /\ begun'[q] = begun[q]
    BY <2>3, <1>0 DEF Settle, LetGo
  <2> QED BY <2>1, <2>2, <2>3 DEF TurnStep
<1>2. \A s \in Turns : s # t => at'[s] = at[s] /\ seen'[s] = seen[s]
  BY DEF ReadRun, TurnStep, Lock, Poll, MarkStarted, Admit, Deny, Settle, LetGo
<1>3. \A q \in Runs : q # r => PlainRun(q)'
  BY <1>1, <1>b, PlainMeans DEF PlainRun
<1>4. ASSUME NEW s \in Turns, s # t PROVE PlainTurn(s)'
  <2>0. s[1] \in Runs /\ s[2] \in 1 .. AtOnce /\ s = <<s[1], s[2]>> BY TurnsOfRuns
  <2>1. PlainTurn(s) /\ at'[s] = at[s] /\ seen'[s] = seen[s] BY <1>2, <1>4, PlainMeans
  <2>2. CASE s[1] # r
    BY <2>0, <2>1, <2>2, <1>1 DEF PlainTurn
  <2>3. CASE s[1] = r
    <3>1. s[2] # t[2] BY <2>0, <2>3, <1>0, <1>4
    <3>2. status[r] \notin {"pending", "absent"} => status'[r] \notin {"pending", "absent"}
      <4>1. CASE ReadRun(t) \/ Lock(t) \/ Poll(t) \/ Admit(t)
        BY <4>1 DEF ReadRun, Lock, Poll, Admit
      <4>2. CASE MarkStarted(t) BY <4>2, <1>0 DEF MarkStarted
      <4>3. CASE Deny(t) BY <4>3, <1>0 DEF Deny
      <4>4. ASSUME NEW o \in {"completed", "failed", "suspended", "blocked"}, Settle(t, o)
            PROVE  status[r] \notin {"pending", "absent"} => status'[r] \notin {"pending", "absent"}
        BY <4>4, <1>0 DEF Settle
      <4> QED BY <4>1, <4>2, <4>3, <4>4 DEF TurnStep
    <3>3. CASE at[s] \in {"mark", "admit", "body"}
      <4>1. owner[r] = s[2] /\ owner[r] # Nobody /\ owner[r] # t[2]
        BY <2>0, <2>1, <2>3, <3>1, <3>3 DEF PlainTurn, Nobody
      <4>2. at[t] \notin {"mark", "admit", "body"} BY <4>1, <1>a DEF PlainTurn
      <4>3. owner' = owner /\ status' = status
        BY <4>1, <4>2 DEF ReadRun, TurnStep, Lock, Poll, MarkStarted, Admit, Deny, Settle
      <4> QED BY <2>1, <2>3, <4>3 DEF PlainTurn
    <3>4. CASE at[s] \notin {"mark", "admit", "body"}
      BY <2>1, <2>3, <3>2, <3>4 DEF PlainTurn
    <3> QED BY <3>3, <3>4
  <2> QED BY <2>2, <2>3
<1> QED BY <1>3, <1>4

\* Starts, wakes and operators leave what a turn relies on.
LEMMA PlainCalls ==
  ASSUME PlainInv, Plain, NEW q \in Runs,
         \/ Start(q) \/ ListGated(q) \/ MakeDue(q) \/ NotifierDies(q) \/ Recover(q)
         \/ AskCancel(q) \/ Cancel(q) \/ AskRequeue(q) \/ Requeue(q) \/ StartTimeComes(q)
  PROVE  (\A r \in Runs : PlainRun(r)') /\ (\A t \in Turns : PlainTurn(t)')
<1> USE DEF PlainInv, HolderInv, TypeOK, rows, turns
<1>0. (\A r \in Runs : PlainRun(r)) /\ (\A t \in Turns : PlainTurn(t)) BY PlainMeans
<1>1. CASE ListGated(q) \/ MakeDue(q) \/ AskCancel(q) \/ AskRequeue(q) \/ StartTimeComes(q)
  <2>1. UNCHANGED <<status, tag, owner, begun, at, seen>>
    BY <1>1 DEF ListGated, MakeDue, AskCancel, AskRequeue, StartTimeComes
  <2>2. \A r \in Runs : startsAt'[r] = "past"
    BY <1>0, <1>1 DEF ListGated, MakeDue, AskCancel, AskRequeue, StartTimeComes, PlainRun
  <2> QED BY <1>0, <2>1, <2>2 DEF PlainRun, PlainTurn
<1>2. CASE Start(q)
  <2>1. status[q] = "absent" /\ startsAt[q] = "past" BY <1>0, <1>2 DEF Start, PlainRun
  <2>2. /\ status' = [status EXCEPT ![q] = "pending"]
        /\ UNCHANGED <<startsAt, tag, owner, begun, at, seen>>
    BY <1>2, <2>1 DEF Start
  <2>3. tag[q] = "none" BY <2>1 DEF Active, Queued
  <2> QED BY <1>0, <2>1, <2>2, <2>3, TurnsOfRuns DEF PlainRun, PlainTurn
<1>3. CASE Cancel(q)
  <2>1. /\ status' = [status EXCEPT ![q] = "cancelled"]
        /\ tag' = [tag EXCEPT ![q] = "none"]
        /\ begun' = [begun EXCEPT ![q] = FALSE]
        /\ UNCHANGED <<startsAt, owner, at, seen>>
    BY <1>3 DEF Cancel, Released, Ended
  <2> QED BY <1>0, <2>1, TurnsOfRuns DEF PlainRun, PlainTurn
<1> QED BY <1>1, <1>2, <1>3, PlainMeans

\* So the invariant is inductive.
LEMMA PlainStep == ASSUME PlainInv, [Next]_vars PROVE PlainInv'
<1>1. HolderInv' /\ setting' = setting BY HolderStep, SettingStays DEF PlainInv
<1>2. PlainOK'
  <2> SUFFICES ASSUME Plain
               PROVE  /\ left'.deaths = 0
                      /\ \A r \in Runs : PlainRun(r)'
                      /\ \A t \in Turns : PlainTurn(t)'
    BY <1>1 DEF PlainOK, Plain
  <2>1. left'.deaths = 0
    <3>1. left.deaths = 0 /\ left \in [naps : Nat, deaths : Nat, cancels : Nat, requeues : Nat]
      BY PlainMeans DEF PlainInv, HolderInv, TypeOK
    <3> QED BY <3>1, PlainMeans
      DEF Next, vars, calls, TurnStep, ReadRun, Lock, Poll, MarkStarted, Admit, Deny, Settle,
          Start, ListGated, MakeDue, AskCancel, Cancel, AskRequeue, StartTimeComes
  <2>2. ASSUME NEW t \in Turns, ReadRun(t) \/ TurnStep(t)
        PROVE  (\A r \in Runs : PlainRun(r)') /\ (\A s \in Turns : PlainTurn(s)')
    BY <2>2, PlainHere, PlainElsewhere
  <2>3. CASE UNCHANGED vars
    BY <2>3, PlainMeans DEF vars, rows, turns, PlainRun, PlainTurn
  <2> QED BY <2>1, <2>2, <2>3, PlainCalls, PlainMeans DEF Next
<1> QED BY <1>1, <1>2 DEF PlainInv

\* At first no run was executed.
LEMMA InitPlain == Init => PlainInv
<1> SUFFICES ASSUME Init PROVE PlainInv OBVIOUS
<1>1. Plain => setting.deaths = 0 BY SettingTypes DEF Plain, Init
<1>2. PlainOK
  BY <1>1, TurnsOfRuns DEF Init, PlainOK, Plain, PlainRun, PlainTurn
<1> QED BY <1>2, InitHolder DEF PlainInv

\* A pair has two members.
LEMMA TwoAreTwo ==
  ASSUME NEW a, NEW b, a # b PROVE Cardinality({a, b}) = 2
<1>1. IsFiniteSet({b}) /\ Cardinality({b}) = 1 BY FS_Singleton
<1>2. Cardinality({b} \union {a}) = Cardinality({b}) + 1 BY <1>1, FS_AddElement
<1>3. {b} \union {a} = {a, b} OBVIOUS
<1> QED BY <1>1, <1>2, <1>3

\* With one slot, the oldest run of the queue is denied only if some run has
\* begun: an executed run that the scan for old replicas meets is marked
\* `tracked', and as a younger one it is outside that scan's window.
LEMMA DeniedForAHolder ==
  ASSUME PlainInv, Plain, limit = 1, NEW t \in Turns, Deny(t), t[1] \in Oldest(Active, 1)
  PROVE  Inside # {}
<1> DEFINE c == t[1]
<1> USE DEF PlainInv, HolderInv, TypeOK
<1>1. /\ \A r \in Runs : PlainRun(r)
      /\ PlainTurn(t)
      /\ c \in Active /\ c \in Runs /\ Cardinality({q \in Active : q <= c}) <= 1
      /\ at[t] = "admit" /\ c \notin Tagged /\ ~Granted(c)
  BY PlainMeans, TurnsOfRuns DEF Deny, Admitted, Oldest, Active
<1>2. \A q \in Active : q <= c => q = c
  <2> SUFFICES ASSUME NEW q \in Active, q <= c, q # c PROVE FALSE OBVIOUS
  <2>1. {q, c} \subseteq {p \in Active : p <= c} /\ {p \in Active : p <= c} \in SUBSET Runs
    BY <1>1 DEF Active, Runs
  <2>2. Cardinality({q, c}) = 2 BY TwoAreTwo
  <2>3. Cardinality({q, c}) <= Cardinality({p \in Active : p <= c})
    BY <2>1, FiniteRuns, FS_Subset
  <2> QED BY <1>1, <2>1, <2>2, <2>3, FiniteRuns
<1>3. PICK h \in Holders(c) : TRUE
  <2> SUFFICES ASSUME Holders(c) = {} PROVE Granted(c) BY <1>1
  <2>1. Waiters(c) = Active /\ Cardinality(Holders(c)) = 0 BY FS_EmptySet DEF Waiters
  <2> QED BY <1>1, <2>1 DEF Granted, Oldest
<1>4. CASE h \in Tagged
  BY <1>1, <1>4 DEF Tagged, Active, Inside, PlainRun
<1>5. CASE h \in Legacy(c)
  <2>1. /\ h \in Active /\ h \in Runs /\ status[h] \in {"running", "suspended"} /\ h # c
        /\ h \notin Tagged /\ (tag[h] # "tracked" \/ h \in Window)
    BY <1>5 DEF Legacy, Scanned, Active
  <2>2. tag[h] = "tracked" BY <1>1, <2>1 DEF PlainRun, Tagged
  <2>3. CASE c \in Scanned
    <3>1. c < h /\ h \in Scanned BY <1>1, <1>2, <2>1 DEF Runs, Scanned
    <3>2. h \in Oldest(Scanned \union Tagged, 1) BY <2>1, <2>2 DEF Window
    <3>3. /\ {c, h} \subseteq {p \in Scanned \union Tagged : p <= h}
          /\ {p \in Scanned \union Tagged : p <= h} \in SUBSET Runs
      BY <2>3, <3>1, <1>1, <2>1 DEF Runs, Scanned, Tagged, Active
    <3>4. Cardinality({c, h}) = 2 BY <2>1, TwoAreTwo
    <3>5. Cardinality({c, h}) <= Cardinality({p \in Scanned \union Tagged : p <= h})
      BY <3>3, FiniteRuns, FS_Subset
    <3>6. Cardinality({p \in Scanned \union Tagged : p <= h}) <= 1 BY <3>2 DEF Oldest
    <3> QED BY <3>3, <3>4, <3>5, <3>6, FiniteRuns
  <2>4. CASE c \notin Scanned
    <3>1. status[c] = "blocked"
      BY <1>1, <2>4 DEF PlainTurn, Scanned, Active, Queued
    <3> QED BY <1>1, <3>1 DEF PlainRun, Inside
  <2> QED BY <2>3, <2>4
<1> QED BY <1>3, <1>4, <1>5 DEF Holders

\* Where no process dies and nothing is requeued or started for later, the free
\* slot of a key with `limit: 1' is not refused to the run it is due to, however
\* dispatches, polls and cancels interleave.
THEOREM FreeSlotIsGiven == Spec => OldestIsServed
<1> DEFINE Fair == setting.limit = 1 /\ setting.delayed = {}
                      /\ setting.deaths + setting.requeues = 0 =>
                    \A t \in Turns : Deny(t) /\ t[1] \in Oldest(Active, 1) => Inside # {}
<1>1. PlainInv /\ [Next]_vars => PlainInv' BY PlainStep
<1>2. PlainInv => Fair BY DeniedForAHolder DEF Plain, limit
<1>3. Spec => [][Fair]_vars BY InitPlain, <1>1, <1>2, PTL DEF Spec
<1> QED BY <1>3 DEF OldestIsServed
=============================================================================
