---------------------------- MODULE SagasProofs ----------------------------
(* What a saga leaves behind, for every number of steps, instances, undo   *)
(* attempts and disturbances, of bodies whose steps run in turn.           *)
EXTENDS Sagas, FiniteSetTheorems, TLAPS

\* No body starts its steps together.
StepsInTurn == \A s \in Settings : s.parallel = FALSE

\* The completed steps are the first ones, at most the next is out, and the
\* undo registered n-th is step n's.
BodyOK ==
    /\ \E k \in 0 .. NSteps : /\ Done = 1 .. k
                              /\ (\A s \in Steps : step[s] = "out" => s = k + 1)
                              /\ (pc = "local" => Len(comps) = k)
    /\ setting.dispatched => pc # "local"
    /\ ~setting.dispatched => \A s \in Steps : step[s] # "out"
    /\ Len(comps) <= NSteps /\ \A n \in 1 .. Len(comps) : comps[n] = n

\* A row is about the undo of its index, and says `completed' of what was done.
RowsOK == \A n \in Steps : /\ row[n].st # "none" => row[n].of = n
                           /\ row[n].st = "completed" => n \in undone
                           /\ row[n].st = "pending" => row[n].att > 0

\* So are tasks and results.
WiresOK == /\ (\A t \in task : t.of = t.idx)
           /\ (\A m \in result : m.of = m.idx /\ (m.ok => m.of \in undone))

Unwinding == pc = "undo" \/ pc \in InUndo
Over(n)   == n \in undone \/ GivenUp(n)

\* An unwind has undone, or given up, every index it has passed.
TurnOK ==
    /\ (Unwinding => idx <= Len(comps))
    /\ (Unwinding => \A n \in Steps : idx < n /\ n <= Len(comps) => Over(n))
    /\ (pc \in InUndo => idx > 0 /\ try > 0)
    /\ (pc = "save" => idx \in undone)

EndOK == how = "unwound" => /\ status \in Terminal /\ pc \in {"idle", "drain"}
                            /\ (\A n \in Steps : n <= Len(comps) => Over(n))

IndInv == SagasTypeOK /\ BodyOK /\ RowsOK /\ WiresOK /\ TurnOK /\ EndOK

-----------------------------------------------------------------------------
(* The order of registration.                                              *)

\* Counting the completed steps of a body that completed k of them in turn.
LEMMA UpToK ==
  ASSUME NEW k \in 0 .. NSteps, Done = 1 .. k
  PROVE  Registered = [n \in 1 .. k |-> n]
<1> USE SagasAssumption
<1>1. Cardinality(Done) = k
  BY FS_Interval DEF Steps
<1>2. ASSUME NEW s \in 1 .. k
      PROVE  Cardinality({t \in Done : t <= s}) = s
  <2>1. {t \in Done : t <= s} = 1 .. s
    OBVIOUS
  <2>2. Cardinality(1 .. s) = s
    <3>1. s \in Int /\ 1 \in Int /\ ~(1 > s) /\ s - 1 + 1 = s
      OBVIOUS
    <3> QED BY <3>1, FS_Interval
  <2> QED BY <2>1, <2>2
<1>3. ASSUME NEW n \in 1 .. k
      PROVE  (CHOOSE s \in Done : Cardinality({t \in Done : t <= s}) = n) = n
  BY <1>2
<1> QED BY <1>1, <1>3 DEF Registered

\* In such a body the steps the replay reaches are the completed ones and the
\* next.
LEMMA ReachedNext ==
  ASSUME NEW k \in 0 .. NSteps, Done = 1 .. k, setting.parallel = FALSE,
         NEW s \in Reached \ Done
  PROVE  s = k + 1 /\ s \in Steps
<1> USE SagasAssumption DEF Reached, Steps
<1>1. s \in 1 .. NSteps /\ s > k
  OBVIOUS
<1>2. CASE s > k + 1
  <2>1. k + 1 \in 1 .. s - 1
    BY <1>1, <1>2
  <2> QED BY <2>1
<1> QED BY <1>1, <1>2

\* The undo under way is the one of its index.
LEMMA UndoingIsIdx ==
  ASSUME IndInv, Unwinding, idx > 0
  PROVE  idx \in Steps /\ Undoing = idx /\ Row = row[idx]
BY SagasAssumption DEF IndInv, SagasTypeOK, BodyOK, TurnOK, Undoing, Row, Steps

-----------------------------------------------------------------------------
(* Types.                                                                  *)

\* A disturbance that was used is one less.
LEMMA SpendKeepsBudget ==
  ASSUME budget \in [Disturbances -> Nat], NEW d \in Disturbances, Spend(d)
  PROVE  budget' \in [Disturbances -> Nat]
BY DEF Spend

\* A row stays one when its status or its count is written.
LEMMA RowPatched ==
  ASSUME NEW r \in Undos, NEW a \in 0 .. Retries,
         NEW st \in {"none", "pending", "completed", "failed"}
  PROVE  [r EXCEPT !.st = st] \in Undos /\ [r EXCEPT !.att = a] \in Undos
BY DEF Undos

\* The body and the settles keep the domains.
LEMMA TypesByTurn ==
  ASSUME StepsInTurn, IndInv,
         \/ Body \/ LocalStep \/ FindFlag \/ FindMarker \/ Rebuffer \/ FindNoCancel
         \/ SettleCancelled \/ DrainMarkers \/ SettleFailed \/ SettleOutcome
  PROVE  SagasTypeOK'
<1> USE SagasAssumption DEF IndInv, SagasTypeOK, store, cancels, turn, wires, deeds,
        given, Live, Terminal, Places, InUndo
<1>1. CASE Body
  <2>1. comps' \in Seq(Steps)
    <3>1. PICK k \in 0 .. NSteps : Done = 1 .. k
      BY DEF BodyOK
    <3>2. comps' = [n \in 1 .. k |-> n]
      BY <1>1, <3>1, UpToK DEF Body
    <3> QED BY <3>2 DEF Steps
  <2>2. step' \in [Steps -> {"none", "out", "done"}]
    BY <1>1 DEF Body
  <2>3. setting.ends \in {"returns", "throws", "waits"}
    BY DEF SettingKinds
  <2> QED BY <1>1, <2>1, <2>2, <2>3 DEF Body
<1>2. CASE LocalStep
  <2>1. PICK s \in Reached \ Done : /\ step' = [step EXCEPT ![s] = "done"]
                                    /\ comps' = Append(comps, s)
                                    /\ pc' \in {"exit", "local"}
    BY <1>2 DEF LocalStep
  <2>2. s \in Steps
    BY DEF Reached
  <2>3. comps' \in Seq(Steps) /\ step' \in [Steps -> {"none", "out", "done"}]
    BY <2>1, <2>2
  <2> QED BY <1>2, <2>1, <2>3 DEF LocalStep
<1>3. CASE FindFlag
  BY <1>3 DEF FindFlag, Unwind
<1>4. CASE FindMarker
  BY <1>4 DEF FindMarker
<1>5. CASE Rebuffer
  BY <1>5 DEF Rebuffer, Unwind
<1>6. CASE FindNoCancel
  BY <1>6 DEF FindNoCancel, Unwind
<1>7. CASE SettleCancelled
  BY <1>7 DEF SettleCancelled
<1>8. CASE DrainMarkers
  BY <1>8 DEF DrainMarkers, Release
<1>9. CASE SettleFailed
  BY <1>9 DEF SettleFailed, Settled, Release
<1>10. CASE SettleOutcome
  BY <1>10 DEF SettleOutcome, Release
<1> QED BY <1>1, <1>2, <1>3, <1>4, <1>5, <1>6, <1>7, <1>8, <1>9, <1>10

\* So does an undo.
LEMMA TypesByUndo ==
  ASSUME IndInv,
         \/ SkipUndo \/ TryUndo \/ CallClosure \/ SaveCompleted \/ SaveFailed
         \/ SavePending \/ Send \/ ResultAwaited \/ PollSees \/ TimeOut
  PROVE  SagasTypeOK'
<1> USE SagasAssumption DEF SagasTypeOK, store, cancels, turn, wires, deeds, given,
        Places, InUndo, Disturbances
<1>0. SagasTypeOK
  BY DEF IndInv
<1>a. Unwinding /\ idx > 0 => idx \in Steps /\ Undoing = idx /\ Row = row[idx]
  BY UndoingIsIdx
<1>b. pc \in InUndo => idx > 0 /\ try > 0
  BY DEF IndInv, TurnOK
<1>c. Unwinding /\ idx > 0 => Row \in Undos
  BY <1>0, <1>a
<1>1. CASE SkipUndo
  <2>1. idx - 1 \in Nat
    BY <1>0, <1>1 DEF SkipUndo
  <2> QED BY <1>0, <1>1, <2>1 DEF SkipUndo, NextUndo
<1>2. CASE TryUndo
  <2>1. FirstAttempt(Row) \in 0 .. Retries
    BY <1>2, <1>c DEF TryUndo, Unwinding, Behind, FirstAttempt, Undos
  <2> QED BY <1>0, <1>2, <2>1 DEF TryUndo, Attempt
<1>3. CASE CallClosure
  <2>1. budget' \in [Disturbances -> Nat]
    BY <1>0, <1>3, SpendKeepsBudget DEF CallClosure
  <2> QED BY <1>0, <1>3, <1>a, <1>b, <2>1, SMTT(30) DEF CallClosure, Issue, Unwinding
<1>4. CASE SaveCompleted
  <2>1. row' \in [Steps -> Undos] /\ idx - 1 \in Nat
    BY <1>0, <1>4, <1>a, <1>b, SMTT(30) DEF SaveCompleted, RowIs, Undo, Undos, Unwinding, Steps
  <2> QED BY <1>0, <1>4, <1>a, <1>b, <2>1 DEF SaveCompleted, NextUndo, Unwinding
<1>5. CASE SaveFailed
  <2>1. row' \in [Steps -> Undos] /\ idx - 1 \in Nat
    BY <1>0, <1>5, <1>a, <1>b, SMTT(30) DEF SaveFailed, RowIs, Undo, Undos, Unwinding, Steps
  <2>2. try < Retries => try + 1 \in 0 .. Retries
    BY <1>0
  <2> QED BY <1>0, <1>5, <2>1, <2>2, SMTT(30) DEF SaveFailed, Attempt, NextUndo
<1>6. CASE SavePending
  <2>1. row' \in [Steps -> Undos]
    <3>1. Undo("pending", Undoing, try) \in Undos
      BY <1>0, <1>6, <1>a, <1>b DEF SavePending, Undo, Undos, Unwinding, Steps
    <3>2. row' = row \/ row' = [row EXCEPT ![idx] = Undo("pending", Undoing, try)]
      BY <1>6 DEF SavePending, RowIs
    <3> QED BY <1>0, <3>1, <3>2
  <2> QED BY <1>0, <1>6, <2>1 DEF SavePending
<1>7. CASE Send
  <2>1. [of |-> Undoing, idx |-> idx, att |-> try, served |-> TRUE]
          \in [of : Steps, idx : Steps, att : 1 .. Retries, served : BOOLEAN]
    BY <1>0, <1>7, <1>a, <1>b DEF Send, Unwinding
  <2> QED BY <1>0, <1>7, <1>a, <1>b, <2>1, ZenonT(60) DEF Send, Issue, Unwinding
<1>8. CASE ResultAwaited
  BY <1>0, <1>8 DEF ResultAwaited
<1>9. CASE PollSees
  <2>1. idx - 1 \in Nat
    BY <1>0, <1>9, <1>b DEF PollSees
  <2> QED BY <1>0, <1>9, <2>1, SMTT(30) DEF PollSees, NextUndo
<1>10. CASE TimeOut
  <2>1. budget' \in [Disturbances -> Nat]
    BY <1>0, <1>10, SpendKeepsBudget DEF TimeOut
  <2> QED BY <1>0, <1>10, <2>1, SMTT(30) DEF TimeOut
<1> QED BY <1>1, <1>2, <1>3, <1>4, <1>5, <1>6, <1>7, <1>8, <1>9, <1>10

\* What a sweep sends again are tasks.
LEMMA ResentAreTasks ==
  ASSUME IndInv
  PROVE  /\ Resent \subseteq [of : Steps, idx : Steps, att : 1 .. Retries,
                              served : BOOLEAN]
         /\ \A t \in Resent : t.of = t.idx
<1> USE SagasAssumption
<1>1. ASSUME NEW n \in Steps, row[n].st = "pending"
      PROVE  row[n].of = n /\ row[n].att \in 1 .. Retries
  <2>1. row[n] \in Undos
    BY DEF IndInv, SagasTypeOK
  <2> QED BY <1>1, <2>1 DEF IndInv, RowsOK, Undos
<1>2. ASSUME NEW t \in Resent
      PROVE  /\ t \in [of : Steps, idx : Steps, att : 1 .. Retries, served : BOOLEAN]
             /\ t.of = t.idx
  <2>1. PICK n \in Steps : /\ row[n].st = "pending"
                           /\ t = [of |-> row[n].of, idx |-> n, att |-> row[n].att,
                                   served |-> FALSE]
    BY DEF Resent
  <2> QED BY <1>1, <2>1
<1> QED BY <1>2

\* So do workers, results, operators, deaths and recoveries.
LEMMA TypesByOthers ==
  ASSUME IndInv,
         \/ Recover \/ Requeue
         \/ \E i \in Inst : Begin(i) \/ CancelReads(i) \/ CancelStep(i) \/ Crash(i)
         \/ \E s \in Steps : StepLands(s)
         \/ \E t \in task : Work(t) \/ Lose(t)
         \/ \E m \in result : \E i \in Inst : SettleResult(i, m)
  PROVE  SagasTypeOK'
<1> USE SagasAssumption DEF SagasTypeOK, store, cancels, turn, wires, deeds, given,
        Places, Live, Terminal, Disturbances
<1>0. SagasTypeOK
  BY DEF IndInv
<1>1. CASE Recover
  <2>1. task' \subseteq [of : Steps, idx : Steps, att : 1 .. Retries, served : BOOLEAN]
    BY <1>0, <1>1, ResentAreTasks DEF Recover
  <2>2. status' \in Live \union Terminal /\ orphan' \in BOOLEAN
    BY <1>1 DEF Recover
  <2>3. UNCHANGED <<how, holder, step, row, marker, cancels, turn, result, deeds, given>>
    BY <1>1 DEF Recover
  <2> QED BY <1>0, <2>1, <2>2, <2>3, SMTT(30)
<1>2. CASE Requeue
  <2>1. row' \in [Steps -> Undos]
    <3>1. ASSUME NEW n \in Steps
          PROVE  [row[n] EXCEPT !.att = 0] \in Undos /\ row[n] \in Undos
      <4>1. row[n] \in Undos /\ 0 \in 0 .. Retries
        BY <1>0
      <4> QED BY <4>1, RowPatched
    <3> QED BY <1>2, <3>1 DEF Requeue
  <2>2. budget' \in [Disturbances -> Nat]
    BY <1>0, <1>2, SpendKeepsBudget DEF Requeue
  <2> QED BY <1>0, <1>2, <2>1, <2>2 DEF Requeue
<1>3. ASSUME NEW i \in Inst, Begin(i)
      PROVE  SagasTypeOK'
  BY <1>0, <1>3, ResentAreTasks DEF Begin
<1>4. ASSUME NEW i \in Inst, CancelReads(i)
      PROVE  SagasTypeOK'
  <2>1. budget' \in [Disturbances -> Nat]
    BY <1>0, <1>4, SpendKeepsBudget DEF CancelReads
  <2>2. canc' \in [Inst -> {"idle", "flag", "mark", "write"}]
    BY <1>0, <1>4 DEF CancelReads
  <2>3. UNCHANGED <<store, flag, asked, forgot, turn, wires, deeds, setting>>
    BY <1>4 DEF CancelReads
  <2> QED BY <1>0, <2>1, <2>2, <2>3, SMTT(30)
<1>5. ASSUME NEW i \in Inst, CancelStep(i)
      PROVE  SagasTypeOK'
  <2>1. CASE CancelFlags(i)
    BY <1>0, <2>1 DEF CancelFlags
  <2>2. CASE CancelMarks(i)
    BY <1>0, <2>2 DEF CancelMarks
  <2>3. CASE CancelWrites(i)
    BY <1>0, <2>3 DEF CancelWrites
  <2> QED BY <1>5, <2>1, <2>2, <2>3 DEF CancelStep
<1>6. ASSUME NEW i \in Inst, Crash(i)
      PROVE  SagasTypeOK'
  <2>1. budget' \in [Disturbances -> Nat]
    BY <1>0, <1>6, SpendKeepsBudget DEF Crash
  <2>2. flag' \subseteq Inst /\ canc' \in [Inst -> {"idle", "flag", "mark", "write"}]
    BY <1>0, <1>6 DEF Crash
  <2>4. UNCHANGED <<status, how, step, row, marker, asked, comps, ending, cause,
                    wires, deeds, setting>>
    BY <1>6 DEF Crash
  <2>3. /\ holder' \in Inst \union {NoOne} /\ orphan' \in BOOLEAN /\ forgot' \in BOOLEAN
        /\ pc' \in Places /\ idx' \in Nat /\ try' \in 0 .. Retries
    <3>1. CASE holder = i
      BY <1>0, <1>6, <3>1 DEF Crash
    <3>2. CASE holder # i
      BY <1>0, <1>6, <3>2 DEF Crash
    <3> QED BY <3>1, <3>2
  <2> QED BY <1>0, <2>1, <2>2, <2>3, <2>4
<1>7. ASSUME NEW s \in Steps, StepLands(s)
      PROVE  SagasTypeOK'
  BY <1>0, <1>7 DEF StepLands
<1>8. ASSUME NEW t \in task, Work(t)
      PROVE  SagasTypeOK'
  <2>1. budget' \in [Disturbances -> Nat]
    BY <1>0, <1>8, SpendKeepsBudget DEF Work
  <2>2. t.of \in Steps /\ t.idx \in Steps /\ t.att \in 1 .. Retries
    BY <1>0
  <2>3. /\ result' \subseteq [of : Steps, idx : Steps, att : 1 .. Retries, ok : BOOLEAN]
        /\ undone' \subseteq Steps /\ task' \subseteq task
    <3>1. \A ok \in BOOLEAN : [of |-> t.of, idx |-> t.idx, att |-> t.att, ok |-> ok]
             \in [of : Steps, idx : Steps, att : 1 .. Retries, ok : BOOLEAN]
      BY <2>2
    <3>2. \E ok \in BOOLEAN : Answer(t, ok)
      BY <1>8 DEF Work
    <3>3. undone' \subseteq undone \union {t.of} /\ task' \subseteq task
      BY <1>8 DEF Work
    <3> QED BY <1>0, <2>2, <3>1, <3>2, <3>3 DEF Answer
  <2>4. UNCHANGED <<store, cancels, turn, redone, recorded, setting>>
    BY <1>8 DEF Work
  <2> QED BY <1>0, <2>1, <2>3, <2>4, SMTT(30)
<1>9. ASSUME NEW t \in task, Lose(t)
      PROVE  SagasTypeOK'
  <2>1. budget' \in [Disturbances -> Nat]
    BY <1>0, <1>9, SpendKeepsBudget DEF Lose
  <2> QED BY <1>0, <1>9, <2>1, SMTT(30) DEF Lose
<1>10. ASSUME NEW m \in result, NEW i \in Inst, SettleResult(i, m)
       PROVE  SagasTypeOK'
  <2>1. m.idx \in Steps
    BY <1>0
  <2>2. row' \in [Steps -> Undos]
    <3>1. \A st \in {"completed", "failed"} : [row[m.idx] EXCEPT !.st = st] \in Undos
      <4>1. row[m.idx] \in Undos /\ 0 \in 0 .. Retries
        BY <1>0, <2>1
      <4> QED BY <4>1, RowPatched
    <3>2. \/ row' = row
          \/ \E st \in {"completed", "failed"} :
                row' = [row EXCEPT ![m.idx] = [row[m.idx] EXCEPT !.st = st]]
      BY <1>0, <1>10, <2>1 DEF SettleResult
    <3>3. ASSUME NEW st \in {"completed", "failed"},
                 row' = [row EXCEPT ![m.idx] = [row[m.idx] EXCEPT !.st = st]]
          PROVE  row' \in [Steps -> Undos]
      BY <1>0, <2>1, <3>1, <3>3
    <3> QED BY <1>0, <3>2, <3>3
  <2>3. recorded' \subseteq Steps
    <3>1. row[m.idx].st = "pending" => row[m.idx].of \in Steps
      BY <2>1 DEF IndInv, RowsOK
    <3> QED BY <1>0, <1>10, <3>1 DEF SettleResult, Settles
  <2> QED BY <1>0, <1>10, <2>2, <2>3 DEF SettleResult
<1> QED BY <1>1, <1>2, <1>3, <1>4, <1>5, <1>6, <1>7, <1>8, <1>9, <1>10

-----------------------------------------------------------------------------
(* The body, the rows and the messages.                                    *)

\* The steps settle in turn, and register their undos in that order.
LEMMA BodyStep ==
  ASSUME StepsInTurn, IndInv, Next
  PROVE  BodyOK'
<1> USE SagasAssumption DEF store, cancels, turn, wires, deeds, given
<1>a. setting' = setting /\ setting.parallel = FALSE
  BY DEF IndInv, SagasTypeOK, StepsInTurn, Next, TurnStep, CancelStep, Body, LocalStep,
     FindFlag, FindMarker, Rebuffer, FindNoCancel, SkipUndo, TryUndo, CallClosure,
     SaveCompleted, SaveFailed, SavePending, Send, ResultAwaited, PollSees, TimeOut,
     SettleCancelled, DrainMarkers, SettleFailed, SettleOutcome, Recover, Requeue,
     Begin, CancelReads, CancelFlags, CancelMarks, CancelWrites, Crash, StepLands,
     Work, Lose, SettleResult
<1>b. PICK k \in 0 .. NSteps : /\ Done = 1 .. k
                              /\ (\A s \in Steps : step[s] = "out" => s = k + 1)
                              /\ (pc = "local" => Len(comps) = k)
  BY DEF IndInv, BodyOK
<1>c. step \in [Steps -> {"none", "out", "done"}] /\ comps \in Seq(Steps) /\ pc \in Places
  BY DEF IndInv, SagasTypeOK
<1>d. BodyOK
  BY DEF IndInv
<1>e. \A s \in Reached \ Done : s = k + 1 /\ s \in Steps
  <2>1. Done = 1 .. k
    BY <1>b
  <2> QED BY <1>a, <2>1, ReachedNext
<1>1. CASE Body
  <2>1. comps' = [n \in 1 .. k |-> n] /\ Len(comps') = k
    BY <1>1, <1>b, UpToK DEF Body
  <2>2. CASE setting.dispatched \/ Done = Steps
    <3>1. step' = [s \in Steps |-> IF s \in Reached \ Done THEN "out" ELSE step[s]]
      BY <1>1, <2>2 DEF Body
    <3>2. pc' = "exit"
      BY <1>1, <2>2 DEF Body
    <3>3. Done' = 1 .. k
      BY <3>1, <1>b, <1>c DEF Done
    <3>4. ASSUME NEW s \in Steps, step'[s] = "out" PROVE s = k + 1
      BY <3>1, <3>4, <1>b, <1>e
    <3>5. ASSUME ~setting.dispatched, NEW s \in Steps PROVE step'[s] # "out"
      <4>1. Reached \ Done = {}
        BY <3>5, <2>2 DEF Reached
      <4> QED BY <3>1, <3>5, <4>1, <1>d DEF BodyOK
    <3> QED BY <1>a, <1>b, <2>1, <3>2, <3>3, <3>4, <3>5 DEF BodyOK
  <2>3. CASE ~(setting.dispatched \/ Done = Steps)
    <3>1. pc' = "local" /\ step' = step
      BY <1>1, <2>3 DEF Body
    <3>2. Done' = Done
      BY <3>1 DEF Done
    <3> QED BY <1>a, <1>b, <1>d, <2>1, <2>3, <3>1, <3>2 DEF BodyOK
  <2> QED BY <2>2, <2>3
<1>2. CASE LocalStep
  <2>1. PICK s \in Reached \ Done : /\ step' = [step EXCEPT ![s] = "done"]
                                    /\ comps' = Append(comps, s)
                                    /\ pc' \in {"exit", "local"}
    BY <1>2 DEF LocalStep
  <2>2. s = k + 1 /\ s \in Steps /\ pc = "local" /\ Len(comps) = k
    BY <1>2, <1>b, <1>e DEF LocalStep
  <2>3. k + 1 \in 0 .. NSteps
    BY <2>2 DEF Steps
  <2>4. Done' = 1 .. k + 1
    <3>1. Done' = Done \union {s}
      BY <2>1, <2>2, <1>c DEF Done
    <3> QED BY <3>1, <2>2, <1>b
  <2>5. Len(comps') = k + 1 /\ \A n \in 1 .. k + 1 : comps'[n] = n
    BY <2>1, <2>2, <1>c, <1>d DEF BodyOK
  <2>6. ~setting.dispatched /\ \A t \in Steps : step'[t] # "out"
    BY <2>1, <2>2, <1>c, <1>d DEF BodyOK
  <2> QED BY <1>a, <2>3, <2>4, <2>5, <2>6 DEF BodyOK
<1>3. ASSUME NEW s \in Steps, StepLands(s)
      PROVE  BodyOK'
  <2>1. /\ step[s] = "out" /\ step' = [step EXCEPT ![s] = "done"]
        /\ comps' = comps /\ pc' = pc
    BY <1>3 DEF StepLands
  <2>2. s = k + 1 /\ k + 1 \in 0 .. NSteps /\ setting.dispatched /\ pc # "local"
    BY <2>1, <1>b, <1>d DEF BodyOK, Steps
  <2>3. Done' = 1 .. k + 1
    <3>1. Done' = Done \union {s}
      BY <2>1, <1>c DEF Done
    <3> QED BY <3>1, <2>2, <1>b
  <2>4. \A t \in Steps : step'[t] # "out"
    <3>1. ASSUME NEW t \in Steps, t # s PROVE step'[t] = step[t] /\ step[t] # "out"
      BY <2>1, <2>2, <3>1, <1>b, <1>c
    <3>2. step'[s] = "done"
      BY <2>1, <1>c
    <3> QED BY <3>1, <3>2
  <2> QED BY <1>a, <1>d, <2>1, <2>2, <2>3, <2>4 DEF BodyOK
<1>4. CASE step' = step /\ comps' = comps /\ pc' # "local"
  <2>1. Done' = Done
    BY <1>4 DEF Done
  <2> QED BY <1>4, <1>a, <1>b, <1>d, <2>1 DEF BodyOK
<1>5. CASE step' = step /\ comps' = comps /\ pc' = pc
  <2>1. Done' = Done
    BY <1>5 DEF Done
  <2> QED BY <1>5, <1>a, <1>b, <1>d, <2>1 DEF BodyOK
<1>6. CASE TurnStep
  <2>1. CASE FindFlag \/ FindMarker \/ Rebuffer \/ FindNoCancel
    BY <2>1, <1>4 DEF FindFlag, FindMarker, Rebuffer, FindNoCancel, Unwind
  <2>2. CASE SkipUndo \/ TryUndo \/ CallClosure \/ SaveCompleted \/ SaveFailed
    BY <2>2, <1>4 DEF SkipUndo, TryUndo, CallClosure, SaveCompleted, SaveFailed,
       NextUndo, Attempt
  <2>3. CASE SavePending \/ Send \/ ResultAwaited \/ PollSees \/ TimeOut
    BY <2>3, <1>4 DEF SavePending, Send, ResultAwaited, PollSees, TimeOut, NextUndo
  <2>4. CASE SettleCancelled \/ DrainMarkers \/ SettleFailed \/ SettleOutcome
    BY <2>4, <1>4 DEF SettleCancelled, DrainMarkers, SettleFailed, SettleOutcome,
       Release
  <2> QED BY <1>6, <1>1, <1>2, <2>1, <2>2, <2>3, <2>4 DEF TurnStep
<1>7. CASE Recover \/ Requeue
  BY <1>7, <1>5 DEF Recover, Requeue
<1>8. ASSUME NEW i \in Inst, Begin(i) \/ CancelReads(i) \/ CancelStep(i) \/ Crash(i)
      PROVE  BodyOK'
  <2>1. CASE Begin(i)
    BY <2>1, <1>4 DEF Begin
  <2>2. CASE CancelReads(i) \/ CancelStep(i)
    BY <2>2, <1>5 DEF CancelReads, CancelStep, CancelFlags, CancelMarks, CancelWrites
  <2>3. CASE Crash(i)
    <3>1. step' = step /\ comps' = comps /\ (pc' = "idle" \/ pc' = pc)
      BY <2>3 DEF Crash
    <3> QED BY <3>1, <1>4, <1>5
  <2> QED BY <1>8, <2>1, <2>2, <2>3
<1>9. ASSUME NEW t \in task, Work(t) \/ Lose(t)
      PROVE  BodyOK'
  BY <1>9, <1>5 DEF Work, Lose
<1>10. ASSUME NEW m \in result, NEW i \in Inst, SettleResult(i, m)
       PROVE  BodyOK'
  BY <1>10, <1>5 DEF SettleResult
<1> QED BY <1>3, <1>6, <1>7, <1>8, <1>9, <1>10 DEF Next

\* What was undone stays undone.
LEMMA UndoneGrows ==
  ASSUME Next
  PROVE  undone \subseteq undone'
<1> USE DEF store, cancels, turn, wires, deeds, given
<1>1. CASE TurnStep
  BY <1>1 DEF TurnStep, Body, LocalStep,
     FindFlag, FindMarker, Rebuffer, FindNoCancel, SkipUndo, TryUndo, CallClosure,
     SaveCompleted, SaveFailed, SavePending, Send, ResultAwaited, PollSees, TimeOut,
     SettleCancelled, DrainMarkers, SettleFailed, SettleOutcome
<1>2. CASE ~TurnStep
  BY <1>2 DEF Next, CancelStep, Recover, Requeue, Begin, CancelReads, CancelFlags,
     CancelMarks, CancelWrites, Crash, StepLands, Work, Lose, SettleResult
<1> QED BY <1>1, <1>2

\* Rows are written for their own index, and as completed once the undo ran.
LEMMA RowsStep ==
  ASSUME IndInv, Next
  PROVE  RowsOK'
<1> USE SagasAssumption DEF store, cancels, turn, wires, deeds, given
<1>a. RowsOK /\ WiresOK /\ row \in [Steps -> Undos] /\ undone \subseteq undone'
  BY UndoneGrows DEF IndInv, SagasTypeOK
<1>b. pc \in InUndo => idx \in Steps /\ Undoing = idx /\ Row = row[idx] /\ try > 0
  BY UndoingIsIdx DEF IndInv, TurnOK, Unwinding
<1>1. CASE row' = row
  BY <1>1, <1>a DEF RowsOK
<1>2. ASSUME pc \in InUndo, NEW st \in {"completed", "failed", "pending"},
             RowIs(Undo(st, Undoing, try)), st = "completed" => idx \in undone
      PROVE  RowsOK'
  <2>1. row' = [row EXCEPT ![idx] = [st |-> st, of |-> idx, att |-> try]]
    BY <1>2, <1>b DEF RowIs, Undo
  <2>2. ASSUME NEW n \in Steps
        PROVE  /\ row'[n].st # "none" => row'[n].of = n
               /\ row'[n].st = "completed" => n \in undone'
               /\ row'[n].st = "pending" => row'[n].att > 0
    <3>1. CASE n = idx
      BY <3>1, <2>1, <1>a, <1>b, <1>2
    <3>2. CASE n # idx
      <4>1. row'[n] = row[n]
        BY <3>2, <2>1, <1>a
      <4> QED BY <4>1, <1>a DEF RowsOK
    <3> QED BY <3>1, <3>2
  <2> QED BY <2>2 DEF RowsOK
<1>3. CASE TurnStep
  <2>1. CASE SaveCompleted
    BY <2>1, <1>2 DEF SaveCompleted, InUndo, IndInv, TurnOK
  <2>2. CASE SaveFailed
    BY <2>2, <1>2 DEF SaveFailed, InUndo
  <2>3. CASE SavePending
    BY <2>3, <1>1, <1>2 DEF SavePending, InUndo
  <2>4. CASE ~(SaveCompleted \/ SaveFailed \/ SavePending)
    BY <1>3, <2>4, <1>1 DEF TurnStep, Body, LocalStep, FindFlag, FindMarker, Rebuffer,
       FindNoCancel, SkipUndo, TryUndo, CallClosure, Send, ResultAwaited, PollSees,
       TimeOut, SettleCancelled, DrainMarkers, SettleFailed, SettleOutcome
  <2> QED BY <2>1, <2>2, <2>3, <2>4
<1>4. CASE Requeue
  <2>1. ASSUME NEW n \in Steps
        PROVE  row'[n].st = row[n].st /\ row'[n].of = row[n].of
                 /\ (row[n].st # "failed" => row'[n] = row[n])
    <3>1. row'[n] = IF row[n].st = "failed" THEN [row[n] EXCEPT !.att = 0] ELSE row[n]
      BY <1>4 DEF Requeue
    <3>2. row[n] \in Undos
      BY <1>a
    <3> QED BY <3>1, <3>2 DEF Undos
  <2> QED BY <2>1, <1>a DEF RowsOK
<1>5. ASSUME NEW m \in result, NEW i \in Inst, SettleResult(i, m)
      PROVE  RowsOK'
  <2>1. CASE ~Settles(m)
    BY <1>5, <2>1, <1>1 DEF SettleResult
  <2>2. CASE Settles(m)
    <3>1. /\ m.idx \in Steps /\ row[m.idx].st = "pending"
          /\ (m.ok => m.idx \in undone)
      BY <2>2, <1>a DEF Settles, WiresOK, IndInv, SagasTypeOK
    <3>2. row' = [row EXCEPT ![m.idx].st = IF m.ok THEN "completed" ELSE "failed"]
      BY <1>5, <2>2 DEF SettleResult
    <3>3. ASSUME NEW n \in Steps
          PROVE  /\ row'[n].of = row[n].of
                 /\ n # m.idx => row'[n] = row[n]
                 /\ n = m.idx => row'[n].st = IF m.ok THEN "completed" ELSE "failed"
      <4>1. row[n] \in Undos
        BY <1>a
      <4> QED BY <3>1, <3>2, <4>1, <1>a DEF Undos
    <3>4. ASSUME NEW n \in Steps
          PROVE  /\ row'[n].st # "none" => row'[n].of = n
                 /\ row'[n].st = "completed" => n \in undone'
                 /\ row'[n].st = "pending" => row'[n].att > 0
      <4>1. CASE n = m.idx
        BY <4>1, <3>1, <3>3, <1>a DEF RowsOK
      <4>2. CASE n # m.idx
        BY <4>2, <3>3, <1>a DEF RowsOK
      <4> QED BY <4>1, <4>2
    <3> QED BY <3>4 DEF RowsOK
  <2> QED BY <2>1, <2>2
<1>6. CASE \/ Recover
           \/ \E i \in Inst : Begin(i) \/ CancelReads(i) \/ CancelStep(i) \/ Crash(i)
           \/ \E s \in Steps : StepLands(s)
           \/ \E t \in task : Work(t) \/ Lose(t)
  BY <1>6, <1>1 DEF CancelStep, Recover, Begin, CancelReads, CancelFlags, CancelMarks,
     CancelWrites, Crash, StepLands, Work, Lose
<1> QED BY <1>3, <1>4, <1>5, <1>6 DEF Next

\* Messages are about the undo of their index, and a good result about one
\* that ran.
LEMMA WiresStep ==
  ASSUME IndInv, Next
  PROVE  WiresOK'
<1> USE DEF store, cancels, turn, wires, deeds, given
<1>a. WiresOK /\ undone \subseteq undone'
  BY UndoneGrows DEF IndInv
<1>1. CASE task' \subseteq task /\ result' \subseteq result
  BY <1>1, <1>a DEF WiresOK
<1>2. CASE task' \subseteq task \union Resent /\ result' = result
  BY <1>2, <1>a, ResentAreTasks DEF WiresOK
<1>3. CASE TurnStep
  <2>1. CASE Send
    <3>1. /\ task' = task \union {[of |-> Undoing, idx |-> idx, att |-> try, served |-> TRUE]}
          /\ result' = result /\ Undoing = idx
      BY <2>1, UndoingIsIdx DEF Send, IndInv, TurnOK, Unwinding, InUndo
    <3> QED BY <3>1, <1>a DEF WiresOK
  <2>2. CASE ~Send
    BY <1>3, <2>2, <1>1 DEF TurnStep, Body, LocalStep, FindFlag, FindMarker, Rebuffer,
       FindNoCancel, SkipUndo, TryUndo, CallClosure, SaveCompleted, SaveFailed,
       SavePending, ResultAwaited, PollSees, TimeOut, SettleCancelled, DrainMarkers,
       SettleFailed, SettleOutcome
  <2> QED BY <2>1, <2>2
<1>4. ASSUME NEW t \in task, Work(t)
      PROVE  WiresOK'
  <2>1. PICK ok \in BOOLEAN : Answer(t, ok) /\ (ok => t.of \in undone')
    BY <1>4 DEF Work
  <2>2. task' \subseteq task
    BY <1>4 DEF Work
  <2>3. t.of = t.idx
    BY <1>a DEF WiresOK
  <2>4. result' = result \union {[of |-> t.of, idx |-> t.idx, att |-> t.att, ok |-> ok]}
    BY <2>1 DEF Answer
  <2> QED BY <2>1, <2>2, <2>3, <2>4, <1>a DEF WiresOK
<1>5. CASE Recover \/ \E i \in Inst : Begin(i)
  BY <1>5, <1>2 DEF Recover, Begin
<1>6. CASE \/ Requeue
           \/ \E i \in Inst : CancelReads(i) \/ CancelStep(i) \/ Crash(i)
           \/ \E s \in Steps : StepLands(s)
           \/ \E t \in task : Lose(t)
           \/ \E m \in result : \E i \in Inst : SettleResult(i, m)
  BY <1>6, <1>1 DEF CancelStep, Requeue, CancelReads, CancelFlags, CancelMarks,
     CancelWrites, Crash, StepLands, Lose, SettleResult
<1> QED BY <1>3, <1>4, <1>5, <1>6 DEF Next

-----------------------------------------------------------------------------
(* The unwind.                                                             *)

\* Where a turn writes the row of its index.
Writing == pc \in {"save", "fail", "dispatch"}

\* An index that is behind stays behind, whatever is delivered: only the turn
\* writes a row that is not pending, and only its own; but a retry gives the
\* attempts back.
LEMMA OverStays ==
  ASSUME IndInv, Next, ~Requeue, NEW n \in Steps, Over(n), ~(Writing /\ n = idx)
  PROVE  Over(n)'
<1> USE SagasAssumption DEF store, cancels, turn, wires, deeds, given
<1>a. row \in [Steps -> Undos] /\ undone \subseteq undone'
  BY UndoneGrows DEF IndInv, SagasTypeOK
<1>1. CASE row'[n] = row[n]
  BY <1>1, <1>a DEF Over, GivenUp
<1>2. CASE TurnStep
  <2>1. CASE SaveCompleted \/ SaveFailed \/ SavePending
    <3>1. Writing /\ idx \in Steps
      BY <2>1, UndoingIsIdx DEF SaveCompleted, SaveFailed, SavePending, Writing,
         Unwinding, InUndo, IndInv, TurnOK
    <3>2. row' = row \/ \E r : RowIs(r)
      BY <2>1 DEF SaveCompleted, SaveFailed, SavePending
    <3>3. row'[n] = row[n]
      BY <3>1, <3>2, <1>a DEF RowIs
    <3> QED BY <3>3, <1>1
  <2>2. CASE ~(SaveCompleted \/ SaveFailed \/ SavePending)
    BY <1>2, <2>2, <1>1 DEF TurnStep, Body, LocalStep, FindFlag, FindMarker, Rebuffer,
       FindNoCancel, SkipUndo, TryUndo, CallClosure, Send, ResultAwaited, PollSees,
       TimeOut, SettleCancelled, DrainMarkers, SettleFailed, SettleOutcome
  <2> QED BY <2>1, <2>2
<1>3. ASSUME NEW m \in result, NEW i \in Inst, SettleResult(i, m)
      PROVE  Over(n)'
  <2>1. CASE ~Settles(m) \/ n # m.idx
    BY <1>3, <2>1, <1>a, <1>1 DEF SettleResult
  <2>2. CASE Settles(m) /\ n = m.idx
    <3>1. row[n].st = "pending"
      BY <2>2 DEF Settles
    <3> QED BY <3>1, <1>a DEF Over, GivenUp
  <2> QED BY <2>1, <2>2
<1>4. CASE \/ Recover
           \/ \E i \in Inst : Begin(i) \/ CancelReads(i) \/ CancelStep(i) \/ Crash(i)
           \/ \E s \in Steps : StepLands(s)
           \/ \E t \in task : Work(t) \/ Lose(t)
  BY <1>4, <1>1 DEF CancelStep, Recover, Begin, CancelReads, CancelFlags, CancelMarks,
     CancelWrites, Crash, StepLands, Work, Lose
<1> QED BY <1>2, <1>3, <1>4 DEF Next

\* The index the turn leaves behind is over.
LEMMA PassedIsOver ==
  ASSUME IndInv, SkipUndo \/ SaveCompleted \/ SaveFailed \/ PollSees, idx' # idx
  PROVE  (\A n \in Steps : n = idx => Over(n)') /\ idx > 0 /\ idx' = idx - 1
<1> USE SagasAssumption DEF store, cancels, turn, wires, deeds, given
<1>a. /\ Unwinding /\ idx > 0 => idx \in Steps /\ Row = row[idx]
      /\ pc \in InUndo => idx > 0
      /\ row \in [Steps -> Undos] /\ RowsOK
      /\ pc = "save" => idx \in undone
  BY UndoingIsIdx DEF IndInv, SagasTypeOK, TurnOK
<1>1. CASE SkipUndo
  <2>1. idx \in Steps /\ Row = row[idx] /\ Behind(Row)
    BY <1>1, <1>a DEF SkipUndo, Unwinding
  <2>2. row' = row /\ undone' = undone
    BY <1>1 DEF SkipUndo
  <2> QED BY <1>1, <1>a, <2>1, <2>2 DEF SkipUndo, NextUndo, Behind, Over, GivenUp, RowsOK
<1>2. CASE SaveCompleted
  BY <1>2, <1>a DEF SaveCompleted, NextUndo, InUndo, Over
<1>3. CASE SaveFailed
  <2>1. idx \in Steps /\ idx > 0
    BY <1>3, <1>a DEF SaveFailed, InUndo, Unwinding
  <2>2. try >= Retries /\ idx' = idx - 1
    BY <1>3 DEF SaveFailed, Attempt, NextUndo, IndInv, SagasTypeOK
  <2>3. row'[idx].st = "failed" /\ row'[idx].att = try
    BY <1>3, <1>a, <2>1 DEF SaveFailed, RowIs, Undo
  <2> QED BY <2>1, <2>2, <2>3 DEF Over, GivenUp
<1>4. CASE PollSees
  <2>1. idx \in Steps /\ Row = row[idx] /\ row[idx].st = "completed"
    BY <1>4, <1>a DEF PollSees, InUndo, Unwinding
  <2>2. undone' = undone /\ idx' = idx - 1
    BY <1>4 DEF PollSees, NextUndo
  <2> QED BY <1>a, <1>4, <2>1, <2>2 DEF Over, RowsOK, PollSees, InUndo
<1> QED BY <1>1, <1>2, <1>3, <1>4

\* A turn unwinds from the last index down, and leaves none open behind it.
LEMMA TurnStepOK ==
  ASSUME StepsInTurn, IndInv, Next
  PROVE  TurnOK'
<1> USE SagasAssumption DEF store, cancels, turn, wires, deeds, given
<1>a. /\ TurnOK /\ undone \subseteq undone' /\ comps \in Seq(Steps) /\ idx \in Nat
      /\ try \in 0 .. Retries /\ row \in [Steps -> Undos] /\ RowsOK
      /\ Len(comps) <= NSteps /\ Len(comps) \in Nat
  BY UndoneGrows DEF IndInv, SagasTypeOK, BodyOK
\* Out of the unwind.
<1>1. CASE pc' \notin {"undo"} \union InUndo
  BY <1>1 DEF TurnOK, Unwinding, InUndo
\* Into it.
<1>2. CASE FindFlag \/ Rebuffer \/ FindNoCancel
  <2>1. comps' = comps /\ ((pc' = "undo" /\ idx' = Len(comps)) \/ pc' = "settle")
    BY <1>2 DEF FindFlag, Rebuffer, FindNoCancel, Unwind
  <2> QED BY <2>1, <1>a DEF TurnOK, Unwinding, InUndo
\* On at the same index.
<1>3. ASSUME Unwinding, ~Requeue, idx' = idx, comps' = comps, Unwinding',
             pc' \in InUndo => idx > 0 /\ try' > 0,
             pc' = "save" => idx \in undone'
      PROVE  TurnOK'
  <2>1. ASSUME NEW n \in Steps, idx < n, n <= Len(comps)
        PROVE  Over(n)'
    BY <1>3, <1>a, <2>1, OverStays DEF TurnOK
  <2> QED BY <1>3, <1>a, <2>1 DEF TurnOK
\* On to the next.
<1>4. ASSUME Unwinding, ~Requeue, idx > 0, idx' = idx - 1, comps' = comps, pc' = "undo",
             \A n \in Steps : n = idx => Over(n)'
      PROVE  TurnOK'
  <2>1. ASSUME NEW n \in Steps, idx - 1 < n, n <= Len(comps)
        PROVE  Over(n)'
    <3>1. CASE n = idx
      BY <3>1, <1>4, <2>1
    <3>2. CASE n # idx
      <4>1. idx < n
        BY <2>1, <3>2, <1>a DEF Steps
      <4> QED BY <4>1, <3>2, <2>1, <1>4, <1>a, OverStays DEF TurnOK
    <3> QED BY <3>1, <3>2
  <2> QED BY <1>4, <1>a, <2>1 DEF TurnOK, Unwinding, InUndo
<1>5. CASE SkipUndo \/ SaveCompleted \/ SaveFailed \/ PollSees
  <2>0. Unwinding /\ ~Requeue /\ comps' = comps /\ Unwinding'
    BY <1>5 DEF SkipUndo, SaveCompleted, SaveFailed, PollSees, Unwinding, InUndo,
       NextUndo, Attempt, Requeue
  <2>1. CASE idx' # idx
    <3>1. pc' = "undo"
      BY <1>5, <2>1 DEF SkipUndo, SaveCompleted, SaveFailed, PollSees, NextUndo, Attempt
    <3> QED BY <1>4, <1>5, <2>0, <2>1, <3>1, PassedIsOver
  <2>2. CASE idx' = idx
    <3>1. pc \in InUndo /\ pc' # "save"
      BY <1>5, <2>2, <1>a DEF SkipUndo, SaveCompleted, SaveFailed, PollSees, NextUndo,
         Attempt, InUndo
    <3>2. try' > 0
      BY <1>5, <2>2, <1>a, <3>1 DEF SkipUndo, SaveCompleted, SaveFailed, PollSees,
         NextUndo, Attempt, TurnOK
    <3> QED BY <1>3, <2>0, <2>2, <3>1, <3>2, <1>a DEF TurnOK
  <2> QED BY <2>1, <2>2
<1>6. CASE TryUndo
  <2>1. FirstAttempt(Row) > 0
    <3>1. idx \in Steps /\ Row = row[idx]
      BY <1>6, UndoingIsIdx DEF TryUndo, Unwinding
    <3>2. Row \in Undos /\ (Row.st = "pending" => Row.att > 0)
      BY <3>1, <1>a DEF RowsOK
    <3> QED BY <3>2 DEF FirstAttempt, Undos
  <2>2. /\ Unwinding /\ ~Requeue /\ idx' = idx /\ comps' = comps /\ Unwinding'
        /\ idx > 0 /\ try' = FirstAttempt(Row) /\ pc' # "save"
    BY <1>6 DEF TryUndo, Attempt, Unwinding, InUndo, Requeue
  <2> QED BY <1>3, <2>1, <2>2
<1>7. CASE CallClosure
  <2>1. Undoing = idx
    BY <1>7, UndoingIsIdx DEF CallClosure, Unwinding, InUndo, IndInv, TurnOK
  <2>2. /\ Unwinding /\ ~Requeue /\ idx' = idx /\ comps' = comps /\ Unwinding'
        /\ idx > 0 /\ try' > 0 /\ (pc' = "save" => Undoing \in undone')
    BY <1>7, <1>a DEF CallClosure, Unwinding, InUndo, Requeue, TurnOK
  <2> QED BY <1>3, <2>1, <2>2
<1>8. CASE SavePending \/ Send \/ TimeOut
  <2>1. /\ Unwinding /\ ~Requeue /\ idx' = idx /\ comps' = comps /\ Unwinding'
        /\ idx > 0 /\ try' > 0 /\ pc' # "save"
    BY <1>8, <1>a DEF SavePending, Send, TimeOut, Unwinding, InUndo, Requeue, TurnOK
  <2> QED BY <1>3, <2>1
<1>9. CASE ResultAwaited
  <2>1. PICK m \in result : Awaited(m) /\ pc' = IF m.ok THEN "save" ELSE "fail"
    BY <1>9 DEF ResultAwaited
  <2>2. Undoing = idx
    BY <1>9, UndoingIsIdx DEF ResultAwaited, Unwinding, InUndo, IndInv, TurnOK
  <2>3. m.ok => idx \in undone'
    BY <1>a, <2>1, <2>2 DEF IndInv, WiresOK, Awaited
  <2>4. /\ Unwinding /\ ~Requeue /\ idx' = idx /\ comps' = comps /\ Unwinding'
        /\ idx > 0 /\ try' > 0
    BY <1>9, <1>a DEF ResultAwaited, Unwinding, InUndo, Requeue, TurnOK
  <2> QED BY <1>3, <2>1, <2>3, <2>4
<1>10. CASE Body \/ LocalStep \/ FindMarker \/ SettleCancelled \/ DrainMarkers
              \/ SettleFailed \/ SettleOutcome \/ Requeue \/ \E i \in Inst : Begin(i)
  BY <1>10, <1>1 DEF Body, LocalStep, FindMarker, SettleCancelled, DrainMarkers,
     SettleFailed, SettleOutcome, Release, Requeue, Begin, InUndo
<1>11. ASSUME ~Requeue, UNCHANGED <<comps, idx, try, pc>>
       PROVE  TurnOK'
  <2>1. CASE Unwinding
    BY <1>3, <1>11, <2>1, <1>a DEF TurnOK, Unwinding
  <2>2. CASE ~Unwinding
    BY <1>1, <1>11, <2>2 DEF Unwinding
  <2> QED BY <2>1, <2>2
<1>12. ASSUME NEW i \in Inst, Crash(i)
       PROVE  TurnOK'
  <2>1. ~Requeue /\ (pc' = "idle" \/ UNCHANGED <<comps, idx, try, pc>>)
    BY <1>12 DEF Crash, Requeue, IndInv, SagasTypeOK
  <2> QED BY <2>1, <1>1, <1>11 DEF InUndo
<1>13. CASE \/ Recover
            \/ \E i \in Inst : CancelReads(i) \/ CancelStep(i)
            \/ \E s \in Steps : StepLands(s)
            \/ \E t \in task : Work(t) \/ Lose(t)
            \/ \E m \in result : \E i \in Inst : SettleResult(i, m)
  <2>1. UNCHANGED <<comps, idx, try, pc>>
    BY <1>13 DEF CancelStep, Recover, CancelReads, CancelFlags, CancelMarks,
       CancelWrites, StepLands, Work, Lose, SettleResult
  <2> QED BY <2>1, <1>10, <1>11
<1> QED BY <1>2, <1>5, <1>6, <1>7, <1>8, <1>9, <1>10, <1>12, <1>13 DEF Next, TurnStep

\* A run that its saga ended stays so until a retry, and its rows say so.
LEMMA EndStep ==
  ASSUME IndInv, Next
  PROVE  EndOK'
<1> USE SagasAssumption DEF store, cancels, turn, wires, deeds, given
<1>a. /\ EndOK /\ TurnOK /\ comps \in Seq(Steps) /\ Len(comps) \in Nat
      /\ undone \subseteq undone'
  BY UndoneGrows DEF IndInv, SagasTypeOK
<1>1. CASE how' # "unwound"
  BY <1>1 DEF EndOK
<1>2. ASSUME how = "unwound", ~Requeue, comps' = comps, status' \in Terminal,
             pc' \in {"idle", "drain"}
      PROVE  EndOK'
  <2>1. ~Writing
    BY <1>2, <1>a DEF EndOK, Writing
  <2>2. ASSUME NEW n \in Steps, n <= Len(comps)
        PROVE  Over(n)'
    BY <1>2, <1>a, <2>1, <2>2, OverStays DEF EndOK
  <2> QED BY <1>2, <2>2 DEF EndOK
<1>3. CASE SettleCancelled \/ SettleFailed
  <2>1. /\ Unwinding /\ idx = 0 /\ comps' = comps /\ ~Writing /\ ~Requeue
        /\ how # "unwound"
    BY <1>3, <1>a DEF SettleCancelled, SettleFailed, Unwinding, Writing, Requeue, EndOK
  <2>2. ASSUME NEW n \in Steps, n <= Len(comps)
        PROVE  Over(n)'
    <3>1. idx < n
      BY <2>1 DEF Steps
    <3> QED BY <3>1, <2>1, <2>2, <1>a, OverStays DEF TurnOK
  <2>3. how' = "unwound" => status' \in Terminal /\ pc' \in {"idle", "drain"}
    BY <1>3, <2>1 DEF SettleCancelled, SettleFailed, Settled, Release, Terminal
  <2> QED BY <2>1, <2>2, <2>3 DEF EndOK
<1>4. CASE TurnStep /\ ~SettleCancelled /\ ~SettleFailed
  <2>1. how' = how
    BY <1>4 DEF TurnStep, Body, LocalStep, FindFlag, FindMarker, Rebuffer, FindNoCancel,
       SkipUndo, TryUndo, CallClosure, SaveCompleted, SaveFailed, SavePending, Send,
       ResultAwaited, PollSees, TimeOut, DrainMarkers, SettleOutcome
  <2>2. (pc = "drain" /\ DrainMarkers) \/ pc \notin {"idle", "drain"}
    BY <1>4 DEF TurnStep, Body, LocalStep, FindFlag, FindMarker, Rebuffer, FindNoCancel,
       SkipUndo, TryUndo, CallClosure, SaveCompleted, SaveFailed, SavePending, Send,
       ResultAwaited, PollSees, TimeOut, DrainMarkers, SettleOutcome
  <2>3. CASE DrainMarkers
    <3>1. comps' = comps /\ status' = status /\ pc' = "idle" /\ ~Requeue
      BY <2>3 DEF DrainMarkers, Release, Requeue
    <3> QED BY <3>1, <2>1, <1>1, <1>2, <1>a DEF EndOK
  <2>4. CASE pc \notin {"idle", "drain"}
    BY <2>1, <2>4, <1>1, <1>a DEF EndOK
  <2> QED BY <2>2, <2>3, <2>4
<1>5. CASE Requeue
  BY <1>5, <1>1 DEF Requeue
<1>6. CASE Recover \/ \E i \in Inst : Begin(i)
  <2>1. status \in Live /\ how' = how
    BY <1>6 DEF Recover, Begin, Live
  <2> QED BY <2>1, <1>1, <1>a DEF EndOK, Live, Terminal
<1>7. ASSUME NEW i \in Inst, CancelReads(i) \/ CancelStep(i) \/ Crash(i)
      PROVE  EndOK'
  <2>1. CASE CancelWrites(i)
    BY <2>1, <1>1 DEF CancelWrites
  <2>2. CASE CancelReads(i) \/ CancelFlags(i) \/ CancelMarks(i)
    BY <2>2, <1>1, <1>2, <1>a DEF CancelReads, CancelFlags, CancelMarks, EndOK, Requeue
  <2>3. CASE Crash(i)
    <3>1. how' = how /\ status' = status /\ comps' = comps /\ (pc' = pc \/ pc' = "idle")
          /\ ~Requeue
      BY <2>3 DEF Crash, Requeue, IndInv, SagasTypeOK
    <3> QED BY <3>1, <1>1, <1>2, <1>a DEF EndOK
  <2> QED BY <1>7, <2>1, <2>2, <2>3 DEF CancelStep
<1>8. CASE \/ \E s \in Steps : StepLands(s)
           \/ \E t \in task : Work(t) \/ Lose(t)
           \/ \E m \in result : \E i \in Inst : SettleResult(i, m)
  <2>1. UNCHANGED <<how, status, comps, pc>>
    BY <1>8 DEF StepLands, Work, Lose, SettleResult
  <2> QED BY <2>1, <1>1, <1>2, <1>5, <1>a DEF EndOK
<1> QED BY <1>3, <1>4, <1>5, <1>6, <1>7, <1>8 DEF Next

-----------------------------------------------------------------------------
(* The theorem.                                                            *)

\* At first no step is done and nothing is undone.
LEMMA IndInit ==
  ASSUME StepsInTurn, Init
  PROVE  IndInv
<1> USE SagasAssumption DEF Init
<1>1. SagasTypeOK
  <2>1. setting \in SettingKinds /\ budget \in [Disturbances -> Nat]
    OBVIOUS
  <2>2. row \in [Steps -> Undos]
    BY DEF NoRow, Undos
  <2>3. comps \in Seq(Steps)
    OBVIOUS
  <2>4. try \in 0 .. Retries /\ idx \in Nat /\ marker \in Nat
    OBVIOUS
  <2>5. /\ step \in [Steps -> {"none", "out", "done"}]
        /\ canc \in [Inst -> {"idle", "flag", "mark", "write"}]
    OBVIOUS
  <2> QED BY <2>1, <2>2, <2>3, <2>4, <2>5 DEF SagasTypeOK, Live, Terminal, Places
<1>2. BodyOK
  <2>1. Done = 1 .. 0 /\ 0 \in 0 .. NSteps
    BY DEF Done
  <2>2. /\ (\A s \in Steps : step[s] # "out")
        /\ pc = "idle" /\ Len(comps) = 0
    OBVIOUS
  <2>3. Len(comps) <= NSteps /\ \A n \in 1 .. Len(comps) : comps[n] = n
    BY <2>2
  <2> QED BY <2>1, <2>2, <2>3 DEF BodyOK
<1>3. RowsOK /\ WiresOK
  BY DEF RowsOK, WiresOK, NoRow
<1>4. TurnOK /\ EndOK
  BY DEF TurnOK, EndOK, Unwinding, InUndo
<1> QED BY <1>1, <1>2, <1>3, <1>4 DEF IndInv

\* Every action of the run, its undos and its surroundings keeps the invariant.
LEMMA IndStep ==
  ASSUME StepsInTurn, IndInv, Next
  PROVE  IndInv'
<1>1. SagasTypeOK'
  BY TypesByTurn, TypesByUndo, TypesByOthers DEF Next, TurnStep
<1> QED BY <1>1, BodyStep, RowsStep, WiresStep, TurnStepOK, EndStep DEF IndInv

\* So does a step of nobody.
LEMMA IndStutter ==
  ASSUME IndInv, UNCHANGED vars
  PROVE  IndInv'
BY SMTT(30) DEF IndInv, vars, store, cancels, turn, wires, deeds, given, SagasTypeOK, BodyOK, Done,
   RowsOK, WiresOK, TurnOK, EndOK, Unwinding, Over, GivenUp

\* For every body whose steps run in turn, however many, on any instances, with
\* any number of attempts, deaths, losses, late and repeated results, cancels
\* and retries: a run that ends by its saga has undone, or given up, every
\* step it had completed when its last turn replayed it (runCompensation,
\* dispatchCompensation, compensateAndCancel).
THEOREM SagasUndo ==
  ASSUME StepsInTurn
  PROVE  Spec => []EndedIsUndone
<1>1. Init => IndInv
  BY IndInit
<1>2. IndInv /\ [Next]_vars => IndInv'
  BY IndStep, IndStutter
<1>3. IndInv => EndedIsUndone
  <2>1. SUFFICES ASSUME IndInv, how = "unwound", NEW n \in 1 .. Len(comps)
                 PROVE  comps[n] \in undone \/ GivenUp(n)
    BY DEF EndedIsUndone
  <2>2. Len(comps) \in Nat /\ Len(comps) <= NSteps
    BY <2>1 DEF IndInv, BodyOK, SagasTypeOK
  <2>3. comps[n] = n
    BY <2>1 DEF IndInv, BodyOK
  <2>4. n \in Steps /\ n <= Len(comps)
    BY <2>2, SagasAssumption DEF Steps
  <2> QED BY <2>1, <2>3, <2>4 DEF IndInv, EndOK, Over
<1> QED BY <1>1, <1>2, <1>3, PTL DEF Spec
=============================================================================
