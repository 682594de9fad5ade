-------------------------- MODULE RunTurnsProofs --------------------------
(***************************************************************************)
(* Proofs about RunTurns, for every number of instances, steps, recovery   *)
(* attempts and let-go rounds, and whatever the bounds on the environment, *)
(* or with no more of it than a theorem says.                              *)
(*                                                                         *)
(* IndInv == TypeOK /\ WorkOK /\ JournalFirst /\ AheadOK is inductive, and *)
(* has one lemma per part: TypeOK is taken apart into its five groups of   *)
(* variables (RowStep .. MiscStep), JournalFirst and AheadOK rest on what  *)
(* a step does to the journal (JournalGrows, JournalNews), to the status   *)
(* (StatusChanges) and to the results (ResultsAreHandedOn).                *)
(*                                                                         *)
(* On top of it stand, each inductive with it: QuietInv, of runs without   *)
(* deaths, stalls and cancels: until a turn has completed the run, the     *)
(* lease is with the one turn or claim that acts by it, and what was       *)
(* acknowledged is in the journal; SoloInv, the same of the journal where  *)
(* one instance executes, whatever happens to it; and WakeInv, which adds  *)
(* to QuietInv that each result the turns have not read is brought to one  *)
(* by somebody.                                                            *)
(***************************************************************************)
EXTENDS RunTurns, TLAPS

\* What the threads of an instance work on exists: a refused wake belongs to
\* an instance, a turn past its body aims at a step of the run.
WorkOK ==
    /\ \A t \in Tasks : task[t].ph # "none" => task[t].at \in Inst
    /\ \A i \in Inst :
          /\ goal[i].kind \in {"suspend", "block"} => goal[i].step \in Steps
          /\ goal[i].kind = "complete" => goal[i].step = NSteps + 1
          /\ pc[i] \in {"save", "send"} => goal[i].kind = "suspend"

\* The phases of a step result, for the lemmas about its handlers.
Phases == {"none", "sent", "read", "turn", "queued", "refused", "mark", "stamp", "acked"}

\* TurnOK without lockedForTurn, which the end of a turn leaves alone.
Turns == /\ pc \in [Inst -> Places] /\ queued \in [Inst -> BOOLEAN]
         /\ snap \in [Inst -> Snaps] /\ served \in [Inst -> SUBSET Reasons]
         /\ spent \in [Inst -> SUBSET Reasons]
         /\ fence \in [Inst -> BOOLEAN] /\ goal \in [Inst -> Goals]
         /\ round \in [Inst -> 0 .. LetGoRounds - 1]

\* CloseTurn leaves the turn maps and the results in their domains.
LEMMA CloseTurnTypes ==
  ASSUME TurnOK, MiscOK, NEW i \in Inst, NEW again \in BOOLEAN, NEW ph \in Phases,
         CloseTurn(i, again, ph)
  PROVE Turns' /\ res' \in [Steps -> Results]
<1>1. Turns'
  BY RunTurnsAssumption DEF CloseTurn, TurnOK, Turns, Places, BeforeBody, NoSnap, NoGoal,
       Snaps, Goals, Status, Terminal
<1>2. res' \in [Steps -> Results] BY DEF CloseTurn, HandlersAfter, MiscOK, Results, Phases
<1> QED BY <1>1, <1>2

\* So does moving result handlers to a phase ...
LEMMA HandlersToTypes ==
  ASSUME MiscOK, NEW S, NEW ph \in Phases, HandlersTo(S, ph)
  PROVE  res' \in [Steps -> Results]
  BY DEF HandlersTo, Results, Phases, MiscOK

\* ... dispatching steps ...
LEMMA SendTypes == ASSUME MiscOK, NEW S, Send(S) PROVE res' \in [Steps -> Results]
  BY DEF Send, Sent, Results, MiscOK

\* ... spending one of a bound ...
LEMMA SpendTypes ==
  ASSUME MiscOK, NEW b \in Disturbances, Spend(b)
  PROVE  budget' \in [Disturbances -> Nat]
  BY DEF Spend, MiscOK

\* ... moving a recovery on.
LEMMA RecGotoTypes ==
  ASSUME BackOK, NEW i \in Inst,
         NEW p \in {"idle", "self", "lock", "check", "resend", "park", "count", "repend", "free"},
         RecGoto(i, p)
  PROVE  rec' \in [Inst -> Recoveries]
  BY DEF RecGoto, BackOK, Recoveries

\* An unused task is a task.
LEMMA FreeTaskType == FreeTask \in Wakes BY DEF FreeTask, Wakes

-----------------------------------------------------------------------------
(* Types.                                                                  *)

\* Every step keeps the columns of the row in their domains.
LEMMA RowStep == ASSUME TypeOK, WorkOK, [Next]_vars PROVE RowOK'
<1> USE RunTurnsAssumption DEF TypeOK, RowOK, Status, Terminal, TryLock,
     FreeLease, ReleaseOwned, job, lease, row, store
<1>1. ASSUME NEW i \in Inst, TurnStep(i) PROVE RowOK'
  <2>1. CASE \/ ReadRun(i) \/ ProveOwnLease(i) \/ LockForTurn(i) \/ RefuseTurn(i)
             \/ ClearStamp(i) \/ ListReasons(i) \/ MarkStarted(i)
    BY <2>1, ZenonT(60) DEF ReadRun, ProveOwnLease, LockForTurn, RefuseTurn, ClearStamp,
         ListReasons, MarkStarted
  <2>2. CASE \/ Body(i) \/ SaveStep(i) \/ SendStep(i) \/ UnlockBlocked(i) \/ Release(i)
             \/ LetGo(i) \/ ScanReasons(i) \/ Unstamp(i) \/ Relist(i) \/ Restamp(i)
    BY <2>2, ZenonT(60) DEF Body, SaveStep, SendStep, UnlockBlocked, Release, LetGo,
         ScanReasons, Unstamp, Relist, Restamp
  <2>3. CASE SettleCompleted(i) \/ SettleSuspended(i) \/ SettleBlocked(i)
    BY <2>3 DEF SettleCompleted, SettleSuspended, SettleBlocked, Outcome,
         SettleEligible
  <2> QED BY <1>1, <2>1, <2>2, <2>3 DEF TurnStep
<1>2. ASSUME NEW i \in Inst, PollStep(i) PROVE RowOK'
  BY <1>2 DEF PollStep, PollList, PollLock, PollResume
<1>3. ASSUME NEW i \in Inst, RecoverStep(i) PROVE RowOK'
  <2>1. CASE RecoverCount(i)
    BY <2>1 DEF RecoverCount, PastLimit, Buried, BackOK, Recoveries
  <2>2. CASE ~ RecoverCount(i)
    BY <1>3, <2>2, ZenonT(60) DEF RecoverStep, RecoverList, RecoverSelf, RecoverLock,
         RecoverCheck, RecoverResend, RecoverPark, RecoverRepend, RecoverFree
  <2> QED BY <2>1, <2>2
<1>4. ASSUME NEW i \in Inst, TimerStep(i) PROVE RowOK'
  BY <1>4 DEF TimerStep, RetryDroppedWake, RecheckWait
<1>5. ASSUME NEW t \in Tasks, WakeStep(t) PROVE RowOK'
  BY <1>5, ZenonT(60) DEF WakeStep, KeepReason, StampWake, StampGone, StampFailed, ProbeLease,
       CheckWoken, WorkOK
<1>6. ASSUME NEW k \in Steps, ResultStep(k) PROVE RowOK'
  BY <1>6, ZenonT(60) DEF ResultStep, TakeResult, SettleResult, GraceOver, MarkOwed, KeepOwed,
       StampOwed
<1>7. CASE Environment
  <2>1. ASSUME NEW i \in Inst, Crash(i) \/ Restart(i) \/ Renew(i) PROVE RowOK'
    BY <2>1, ZenonT(60) DEF Crash, Restart, Renew
  <2>2. CASE CancelRead \/ CancelWrite \/ ExecutionTimeout \/ LeaseLapses \/ TimerDue
    BY <2>2 DEF CancelRead, CancelWrite, ExecutionTimeout, LeaseLapses, TimerDue
  <2> QED BY <1>7, <2>1, <2>2 DEF Environment
<1>8. CASE UNCHANGED vars
  BY <1>8 DEF vars
<1> QED BY <1>1, <1>2, <1>3, <1>4, <1>5, <1>6, <1>7, <1>8 DEF Next, Finished

\* Every step keeps the journal and the kept reasons in their domains.
LEMMA JournalStep == ASSUME TypeOK, WorkOK, [Next]_vars PROVE JournalOK'
<1> USE RunTurnsAssumption DEF TypeOK, JournalOK, journal, store
<1>1. ASSUME NEW i \in Inst, TurnStep(i) PROVE JournalOK'
  <2>1. CASE SaveStep(i)
    <3>1. goal[i].step \in Steps
      BY <2>1 DEF SaveStep, WorkOK
    <3> QED BY <2>1, <3>1 DEF SaveStep
  <2>2. CASE SettleCompleted(i) \/ SettleSuspended(i) \/ SettleBlocked(i)
    BY <2>2 DEF SettleCompleted, SettleSuspended, SettleBlocked, Outcome
  <2>3. CASE ~(SaveStep(i) \/ SettleCompleted(i) \/ SettleSuspended(i) \/ SettleBlocked(i))
    BY <1>1, <2>3 DEF TurnStep, ReadRun, ProveOwnLease, LockForTurn, RefuseTurn,
         ClearStamp, ListReasons, MarkStarted, Body, SendStep, UnlockBlocked,
         Release, LetGo, ScanReasons, Unstamp, Relist, Restamp
  <2> QED BY <2>1, <2>2, <2>3
<1>2. ASSUME NEW i \in Inst, PollStep(i) \/ TimerStep(i) PROVE JournalOK'
  BY <1>2 DEF PollStep, PollList, PollLock, PollResume, TimerStep,
       RetryDroppedWake, RecheckWait
<1>3. ASSUME NEW i \in Inst, RecoverStep(i) PROVE JournalOK'
  BY <1>3 DEF RecoverStep, RecoverList, RecoverSelf, RecoverLock, RecoverCheck,
       RecoverResend, RecoverPark, RecoverCount, RecoverRepend, RecoverFree
<1>5. ASSUME NEW t \in Tasks, WakeStep(t) PROVE JournalOK'
  BY <1>5 DEF WakeStep, KeepReason, StampWake, StampGone, StampFailed, ProbeLease,
       CheckWoken
<1>6. ASSUME NEW k \in Steps, ResultStep(k) PROVE JournalOK'
  BY <1>6 DEF ResultStep, TakeResult, SettleResult, GraceOver, MarkOwed, KeepOwed,
       StampOwed
<1>7. CASE Environment
  BY <1>7 DEF Environment, CancelRead, CancelWrite, ExecutionTimeout, LeaseLapses,
       TimerDue, Crash, Restart, Renew
<1>8. CASE UNCHANGED vars
  BY <1>8 DEF vars
<1> QED BY <1>1, <1>2, <1>3, <1>5, <1>6, <1>7, <1>8 DEF Next, Finished

\* A step of a turn keeps the turn maps in their domains: the one delicate
\* case is the round of letGoOfSuspendedTurn, which stops at the limit.
LEMMA TurnStepKeepsTurns ==
  ASSUME TypeOK, WorkOK, NEW i \in Inst, TurnStep(i)
  PROVE  TurnOK'
<1> USE RunTurnsAssumption DEF TypeOK, job, lease, row, journal, store, mem, own,
     turn, back, past, misc, inst
<1>1. CASE ReadRun(i)
  <2>1. lockedForTurn' \in [Inst -> BOOLEAN]
    BY <1>1 DEF ReadRun, TurnOK
  <2>2. CASE EndTurn(i, FALSE)
    BY <2>1, <2>2, CloseTurnTypes DEF EndTurn, Phases, Turns, TurnOK
  <2>3. CASE ~EndTurn(i, FALSE)
    <3>1. [status |-> status, mine |-> owner = i /\ live, stamp |-> stamp] \in Snaps
      BY DEF RowOK, Snaps
    <3>2. snap' = [snap EXCEPT ![i] = [status |-> status, mine |-> owner = i /\ live, stamp |-> stamp]]
      BY <1>1, <2>3 DEF ReadRun
    <3>3. pc' \in [Inst -> Places]
      BY <1>1, <2>3 DEF ReadRun, TurnOK, Goto, Places, BeforeBody, AfterBody
    <3> QED BY <1>1, <2>1, <2>3, <3>1, <3>2, <3>3 DEF ReadRun, TurnOK
  <2> QED BY <2>2, <2>3
<1>2. CASE Body(i)
  <2>1. pc' \in [Inst -> Places]
    BY <1>2 DEF Body, TurnOK, Goto, Places, BeforeBody, AfterBody
  <2>2. goal' \in [Inst -> Goals]
    BY <1>2 DEF Body, TurnOK, Aim, Goals, Steps
  <2> QED BY <1>2, <2>1, <2>2 DEF Body, TurnOK
<1>3. CASE LetGo(i)
  <2>1. CASE EndTurn(i, FALSE)
    BY <1>3, <2>1, CloseTurnTypes DEF LetGo, EndTurn, Phases, Turns, TurnOK
  <2>2. CASE ~EndTurn(i, FALSE)
    BY <1>3, <2>2 DEF LetGo, TurnOK, Goto, Places, BeforeBody, AfterBody
  <2> QED BY <2>1, <2>2
<1>4. CASE ScanReasons(i)
  <2>1. CASE ~ Answered(i)
    BY <1>4, <2>1, CloseTurnTypes DEF ScanReasons, EndTurn, Phases, Turns, TurnOK
  <2>2. CASE Answered(i)
    <3>1. pc' \in [Inst -> Places] /\ spent' \in [Inst -> SUBSET Reasons]
      BY <1>4, <2>2 DEF ScanReasons, JournalOK, TurnOK, Goto, Places, AfterBody
    <3> QED BY <1>4, <2>2, <3>1 DEF ScanReasons, TurnOK
  <2> QED BY <2>1, <2>2
<1>5. CASE Relist(i)
  <2>1. CASE ~ kept \subseteq spent[i]
    BY <1>5, <2>1 DEF Relist, TurnOK, Goto, Places, AfterBody
  <2>2. CASE kept \subseteq spent[i] /\ round[i] + 1 < LetGoRounds
    <3>2. round[i] \in Int /\ round[i] \in 0 .. LetGoRounds - 1 /\ LetGoRounds \in Int
      BY DEF TurnOK
    <3>3. round[i] + 1 \in 0 .. LetGoRounds - 1 /\ round[i] + 1 # LetGoRounds
      BY <2>2, <3>2
    <3>4. /\ round' = [round EXCEPT ![i] = round[i] + 1] /\ Goto(i, "letgo")
          /\ UNCHANGED <<queued, snap, served, spent, fence, goal>>
      BY <1>5, <2>2, <3>3 DEF Relist
    <3>1. pc' \in [Inst -> Places]
      BY <3>4 DEF TurnOK, Goto, Places, AfterBody
    <3>5. round' \in [Inst -> 0 .. LetGoRounds - 1]
      BY <3>3, <3>4 DEF TurnOK
    <3> QED BY <1>5, <3>1, <3>4, <3>5 DEF Relist, TurnOK
  <2>3. CASE kept \subseteq spent[i] /\ ~(round[i] + 1 < LetGoRounds)
    <3>1. CloseTurn(i, TRUE, "acked")
      BY <1>5, <2>3 DEF Relist, EndTurn
    <3> QED BY <1>5, <3>1, CloseTurnTypes DEF Relist, Phases, Turns, TurnOK
  <2> QED BY <2>1, <2>2, <2>3
<1>6. CASE RefuseTurn(i)
  BY <1>6, CloseTurnTypes DEF RefuseTurn, Phases, Turns, TurnOK
<1>7. CASE Release(i)
  BY <1>7, CloseTurnTypes DEF Release, EndTurn, Phases, Turns, TurnOK
<1>8. CASE Restamp(i)
  BY <1>8, CloseTurnTypes DEF Restamp, EndTurn, Phases, Turns, TurnOK
<1>9. CASE \/ ProveOwnLease(i) \/ LockForTurn(i) \/ ClearStamp(i) \/ MarkStarted(i)
           \/ SaveStep(i) \/ SendStep(i) \/ Unstamp(i)
  BY <1>9 DEF ProveOwnLease, LockForTurn, ClearStamp, MarkStarted, AfterClear,
       SaveStep, SendStep, Unstamp, TurnOK, Goto, Places, BeforeBody, AfterBody
<1>10. CASE \/ ListReasons(i) \/ SettleCompleted(i) \/ SettleSuspended(i)
           \/ SettleBlocked(i) \/ UnlockBlocked(i)
  BY <1>10 DEF ListReasons, SettleCompleted, SettleSuspended, SettleBlocked,
       UnlockBlocked, AfterClear, JournalOK, TurnOK, Goto, Places, BeforeBody,
       AfterBody
<1> QED BY <1>1, <1>2, <1>3, <1>4, <1>5, <1>6, <1>7, <1>8, <1>9, <1>10 DEF TurnStep

\* So does every other step.
LEMMA TurnMapsStep == ASSUME TypeOK, WorkOK, [Next]_vars PROVE TurnOK'
<1> USE RunTurnsAssumption DEF TypeOK, turn, own, mem, inst
<1>1. ASSUME NEW i \in Inst, TurnStep(i) PROVE TurnOK'
  BY <1>1, TurnStepKeepsTurns
<1>2. ASSUME NEW i \in Inst, PollStep(i) PROVE TurnOK'
  BY <1>2 DEF PollStep, PollList, PollLock, PollResume, Request, TurnOK, Places,
       BeforeBody
<1>3. ASSUME NEW i \in Inst, RecoverStep(i) PROVE TurnOK'
  BY <1>3 DEF RecoverStep, RecoverList, RecoverSelf, RecoverLock, RecoverCheck,
       RecoverResend, RecoverPark, RecoverCount, RecoverRepend, RecoverFree, TurnOK
<1>4. ASSUME NEW i \in Inst, TimerStep(i) PROVE TurnOK'
  BY <1>4 DEF TimerStep, RetryDroppedWake, RecheckWait, Request, TurnOK, Places,
       BeforeBody
<1>5. ASSUME NEW t \in Tasks, WakeStep(t) PROVE TurnOK'
  <2>1. CASE CheckWoken(t)
    BY <2>1 DEF CheckWoken, Request, TurnOK, Places, BeforeBody
  <2>2. CASE ~ CheckWoken(t)
    BY <1>5, <2>2 DEF WakeStep, KeepReason, StampWake, StampGone, StampFailed,
         ProbeLease, TurnOK
  <2> QED BY <2>1, <2>2
<1>6. ASSUME NEW k \in Steps, ResultStep(k) PROVE TurnOK'
  <2>1. CASE SettleResult(k)
    BY <2>1 DEF SettleResult, Request, TurnOK, Places, BeforeBody
  <2>2. CASE ~ SettleResult(k)
    BY <1>6, <2>2 DEF ResultStep, TakeResult, GraceOver, MarkOwed, KeepOwed,
         StampOwed, TurnOK
  <2> QED BY <2>1, <2>2
<1>7. CASE Environment
  <2>1. ASSUME NEW i \in Inst, Crash(i) PROVE TurnOK'
    BY <2>1 DEF Crash, TurnOK, Places, NoSnap, Snaps, Status, NoGoal, Goals
  <2>2. ASSUME NEW i \in Inst, Restart(i) \/ Renew(i) PROVE TurnOK'
    BY <2>2 DEF Restart, Renew, TurnOK
  <2>3. CASE CancelRead \/ CancelWrite \/ ExecutionTimeout \/ LeaseLapses \/ TimerDue
    BY <2>3 DEF CancelRead, CancelWrite, ExecutionTimeout, LeaseLapses, TimerDue,
         TurnOK
  <2> QED BY <1>7, <2>1, <2>2, <2>3 DEF Environment
<1>8. CASE UNCHANGED vars
  BY <1>8 DEF vars, TurnOK
<1> QED BY <1>1, <1>2, <1>3, <1>4, <1>5, <1>6, <1>7, <1>8 DEF Next, Finished

\* Every step keeps WorkOK: Body aims at a step of the run, and only it aims.
LEMMA WorkStep == ASSUME TypeOK, WorkOK, [Next]_vars PROVE WorkOK'
<1> USE RunTurnsAssumption DEF TypeOK, WorkOK, turn, own, mem, inst, misc
<1>1. ASSUME NEW i \in Inst, TurnStep(i) PROVE WorkOK'
  <2>1. CASE ReadRun(i)
    <3>1. UNCHANGED task
      BY <2>1 DEF ReadRun
    <3>2. pc'[i] \notin {"save", "send"} /\ \A j \in Inst : j # i => pc'[j] = pc[j]
      BY <2>1 DEF ReadRun, EndTurn, CloseTurn, Goto, TurnOK
    <3>3. \A j \in Inst : goal'[j] \in {goal[j], NoGoal} /\ (j # i => goal'[j] = goal[j])
      BY <2>1 DEF ReadRun, EndTurn, CloseTurn, TurnOK
    <3> QED BY <3>1, <3>2, <3>3 DEF NoGoal
  <2>2. CASE Body(i)
    <3>0. UNCHANGED task
      BY <2>2 DEF Body
    <3>1. CASE Aim(i, "complete", NSteps + 1) /\ Goto(i, "settle")
      BY <3>0, <3>1 DEF Aim, Goto, TurnOK
    <3>2. ASSUME NEW k \in Steps, Aim(i, "suspend", k), Goto(i, "settle") \/ Goto(i, "save")
          PROVE  WorkOK'
      BY <3>0, <3>2 DEF Aim, Goto, TurnOK
    <3>3. ASSUME NEW k \in Steps, Aim(i, "block", k), Goto(i, "settle")
          PROVE  WorkOK'
      BY <3>0, <3>3 DEF Aim, Goto, TurnOK
    <3> QED BY <2>2, <3>1, <3>2, <3>3 DEF Body
  <2>3. CASE RefuseTurn(i)
    BY <2>3 DEF RefuseTurn, CloseTurn, NoGoal, TurnOK, MiscOK, Wakes
  <2>4. CASE Release(i) \/ LetGo(i) \/ ScanReasons(i)
    BY <2>4 DEF Release, LetGo, ScanReasons, EndTurn, CloseTurn, NoGoal, Goto,
         TurnOK
  <2>5. CASE Relist(i) \/ Restamp(i)
    BY <2>5 DEF Relist, Restamp, EndTurn, CloseTurn, NoGoal, Goto, TurnOK
  <2>6. CASE \/ ProveOwnLease(i) \/ LockForTurn(i) \/ ClearStamp(i) \/ MarkStarted(i)
             \/ SaveStep(i) \/ SendStep(i) \/ Unstamp(i) \/ ListReasons(i)
    BY <2>6 DEF ProveOwnLease, LockForTurn, ClearStamp, MarkStarted, SaveStep,
         SendStep, Unstamp, ListReasons, AfterClear, Goto, TurnOK
  <2>7. CASE SettleCompleted(i) \/ SettleSuspended(i) \/ SettleBlocked(i) \/ UnlockBlocked(i)
    BY <2>7 DEF SettleCompleted, SettleSuspended, SettleBlocked, UnlockBlocked,
         Goto, TurnOK
  <2> QED BY <1>1, <2>1, <2>2, <2>3, <2>4, <2>5, <2>6, <2>7 DEF TurnStep
<1>2. ASSUME NEW i \in Inst, PollStep(i) PROVE WorkOK'
  BY <1>2 DEF PollStep, PollList, PollLock, PollResume, Request, TurnOK
<1>3. ASSUME NEW i \in Inst, RecoverStep(i) PROVE WorkOK'
  BY <1>3 DEF RecoverStep, RecoverList, RecoverSelf, RecoverLock, RecoverCheck,
       RecoverResend, RecoverPark, RecoverCount, RecoverRepend, RecoverFree
<1>4. ASSUME NEW i \in Inst, TimerStep(i) PROVE WorkOK'
  <2>1. CASE RetryDroppedWake(i)
    <3>1. \A t \in Tasks : task'[t] = task[t] \/ task'[t].at = i
      BY <2>1 DEF RetryDroppedWake, MiscOK
    <3> QED BY <2>1, <3>1 DEF RetryDroppedWake
  <2>2. CASE RecheckWait(i)
    BY <2>2 DEF RecheckWait, Request, TurnOK
  <2> QED BY <1>4, <2>1, <2>2 DEF TimerStep
<1>5. ASSUME NEW t \in Tasks, WakeStep(t) PROVE WorkOK'
  <2>1. CASE KeepReason(t) \/ StampWake(t) \/ StampGone(t) \/ StampFailed(t)
    <3>1. \A u \in Tasks : task'[u].ph = "none" \/ (task'[u].at = task[u].at /\ task[u].ph # "none")
                           \/ task'[u] = task[u]
      <4>1. CASE KeepReason(t)
        BY <4>1 DEF KeepReason, MiscOK, Wakes
      <4>2. CASE StampWake(t)
        BY <4>2 DEF StampWake, MiscOK, Wakes
      <4>3. CASE StampGone(t) \/ StampFailed(t)
        BY <4>3 DEF StampGone, StampFailed, FreeTask, MiscOK
      <4> QED BY <2>1, <4>1, <4>2, <4>3
    <3> QED BY <2>1, <3>1 DEF KeepReason, StampWake, StampGone, StampFailed
  <2>2. CASE ProbeLease(t)
    <3>1. \A u \in Tasks : task'[u].ph = "none" \/ (task'[u].at = task[u].at /\ task[u].ph # "none")
                           \/ task'[u] = task[u]
      BY <2>2 DEF ProbeLease, FreeTask, MiscOK, Wakes
    <3> QED BY <2>2, <3>1 DEF ProbeLease
  <2>3. CASE CheckWoken(t)
    BY <2>3 DEF CheckWoken, Request, FreeTask, TurnOK, MiscOK, Wakes
  <2> QED BY <1>5, <2>1, <2>2, <2>3 DEF WakeStep
<1>6. ASSUME NEW k \in Steps, ResultStep(k) PROVE WorkOK'
  <2>1. CASE SettleResult(k)
    BY <2>1 DEF SettleResult, Request, TurnOK
  <2>2. CASE ~ SettleResult(k)
    BY <1>6, <2>2 DEF ResultStep, TakeResult, GraceOver, MarkOwed, KeepOwed,
         StampOwed
  <2> QED BY <2>1, <2>2
<1>7. CASE Environment
  <2>1. ASSUME NEW i \in Inst, Crash(i) PROVE WorkOK'
    BY <2>1 DEF Crash, TurnOK, MiscOK, NoGoal, FreeTask
  <2>2. ASSUME NEW i \in Inst, Restart(i) \/ Renew(i) PROVE WorkOK'
    BY <2>2 DEF Restart, Renew
  <2>3. CASE CancelRead \/ CancelWrite \/ ExecutionTimeout \/ LeaseLapses \/ TimerDue
    BY <2>3 DEF CancelRead, CancelWrite, ExecutionTimeout, LeaseLapses, TimerDue
  <2> QED BY <1>7, <2>1, <2>2, <2>3 DEF Environment
<1>8. CASE UNCHANGED vars
  BY <1>8 DEF vars
<1> QED BY <1>1, <1>2, <1>3, <1>4, <1>5, <1>6, <1>7, <1>8 DEF Next, Finished

\* Every step keeps the background threads in their domains: a recovery counts
\* from the attempts it read, and past the limit it counts no further.
LEMMA BackStep == ASSUME TypeOK, WorkOK, [Next]_vars PROVE BackOK'
<1> USE RunTurnsAssumption DEF TypeOK, BackOK, turn, back, inst
<1>1. ASSUME NEW i \in Inst, TurnStep(i) PROVE BackOK'
  <2>1. CASE SettleSuspended(i)
    <3>1. goal[i].step \in Steps => recheck' \in [Inst -> SUBSET Steps]
      BY <2>1 DEF SettleSuspended
    <3>2. goal[i].step \in Steps
      BY <2>1 DEF SettleSuspended, WorkOK
    <3> QED BY <2>1, <3>1, <3>2 DEF SettleSuspended
  <2>2. CASE ~ SettleSuspended(i)
    BY <1>1, <2>2 DEF TurnStep, ReadRun, ProveOwnLease, LockForTurn, RefuseTurn,
         ClearStamp, ListReasons, MarkStarted, Body, SaveStep, SendStep,
         SettleCompleted, SettleBlocked, UnlockBlocked, Release, LetGo,
         ScanReasons, Unstamp, Relist, Restamp
  <2> QED BY <2>1, <2>2
<1>2. ASSUME NEW i \in Inst, PollStep(i) PROVE BackOK'
  BY <1>2 DEF PollStep, PollList, PollLock, PollResume
<1>3. ASSUME NEW i \in Inst, RecoverStep(i) PROVE BackOK'
  <2>1. CASE RecoverList(i)
    <3>1. rec' \in [Inst -> Recoveries]
      BY <2>1, RecGotoTypes DEF RecoverList
    <3> QED BY <2>1, <3>1 DEF RecoverList
  <2>2. CASE RecoverSelf(i)
    <3>1. rec' \in [Inst -> Recoveries]
      BY <2>2, RecGotoTypes DEF RecoverSelf
    <3> QED BY <2>2, <3>1 DEF RecoverSelf
  <2>3. CASE RecoverLock(i)
    <3>1. rec' \in [Inst -> Recoveries]
      BY <2>3, RecGotoTypes DEF RecoverLock
    <3> QED BY <2>3, <3>1 DEF RecoverLock
  <2>4. CASE RecoverCheck(i)
    BY <2>4 DEF RecoverCheck, RowOK, Recoveries
  <2>5. CASE RecoverCount(i)
    <3>1. rec' \in [Inst -> Recoveries]
      BY <2>5, RecGotoTypes DEF RecoverCount
    <3> QED BY <2>5, <3>1 DEF RecoverCount
  <2>6. CASE RecoverResend(i) \/ RecoverPark(i) \/ RecoverRepend(i) \/ RecoverFree(i)
    BY <2>6, RecGotoTypes DEF RecoverResend, RecoverPark, RecoverRepend, RecoverFree
  <2> QED BY <1>3, <2>1, <2>2, <2>3, <2>4, <2>5, <2>6 DEF RecoverStep
<1>4. ASSUME NEW i \in Inst, TimerStep(i) PROVE BackOK'
  BY <1>4 DEF TimerStep, RetryDroppedWake, RecheckWait
<1>5. ASSUME NEW t \in Tasks, WakeStep(t) PROVE BackOK'
  BY <1>5 DEF WakeStep, KeepReason, StampWake, StampGone, StampFailed, ProbeLease,
       CheckWoken, Arm
<1>6. ASSUME NEW k \in Steps, ResultStep(k) PROVE BackOK'
  <2>1. CASE SettleResult(k)
    BY <2>1 DEF SettleResult
  <2>2. CASE ~ SettleResult(k)
    BY <1>6, <2>2 DEF ResultStep, TakeResult, GraceOver, MarkOwed, KeepOwed,
         StampOwed
  <2> QED BY <2>1, <2>2
<1>7. CASE Environment
  <2>1. ASSUME NEW i \in Inst, Crash(i) PROVE BackOK'
    BY <2>1 DEF Crash, NoRec, Recoveries
  <2>2. ASSUME NEW i \in Inst, Restart(i) \/ Renew(i) PROVE BackOK'
    BY <2>2 DEF Restart, Renew
  <2>3. CASE CancelRead \/ CancelWrite \/ ExecutionTimeout \/ LeaseLapses \/ TimerDue
    BY <2>3 DEF CancelRead, CancelWrite, ExecutionTimeout, LeaseLapses, TimerDue
  <2> QED BY <1>7, <2>1, <2>2, <2>3 DEF Environment
<1>8. CASE UNCHANGED vars
  BY <1>8 DEF vars
<1> QED BY <1>1, <1>2, <1>3, <1>4, <1>5, <1>6, <1>7, <1>8 DEF Next, Finished

\* Every step keeps wakes, results, history and bounds in their domains.
LEMMA MiscStep == ASSUME TypeOK, WorkOK, [Next]_vars PROVE MiscOK'
<1> USE RunTurnsAssumption DEF TypeOK, past, misc, Phases, Disturbances
<1>1. ASSUME NEW i \in Inst, TurnStep(i) PROVE MiscOK'
  <2>1. CASE ReadRun(i)
    <3>1. res' \in [Steps -> Results]
      BY <2>1, CloseTurnTypes DEF ReadRun, EndTurn, MiscOK
    <3> QED BY <2>1, <3>1 DEF ReadRun, MiscOK
  <2>2. CASE RefuseTurn(i)
    <3>1. res' \in [Steps -> Results]
      BY <2>2, CloseTurnTypes DEF RefuseTurn
    <3>2. [ph |-> "keep", at |-> i,
           for |-> {k \in Steps : res[k].at = i /\ res[k].ph = "turn"}] \in Wakes
      BY DEF Wakes
    <3>3. task' \in [Tasks -> Wakes]
      BY <2>2, <3>2 DEF RefuseTurn, MiscOK
    <3> QED BY <2>2, <3>1, <3>3 DEF RefuseTurn, MiscOK
  <2>3. CASE Body(i)
    <3>1. budget' \in [Disturbances -> Nat]
      BY <2>3, SpendTypes DEF Body, MiscOK
    <3> QED BY <2>3, <3>1 DEF Body, MiscOK
  <2>4. CASE SendStep(i)
    BY <2>4, SendTypes DEF SendStep, MiscOK
  <2>5. CASE SettleCompleted(i) \/ SettleSuspended(i) \/ SettleBlocked(i)
    <3>1. seen' = seen \/ seen' = (IF goal[i].step - 1 > seen THEN goal[i].step - 1 ELSE seen)
      BY <2>5 DEF SettleCompleted, SettleSuspended, SettleBlocked, Outcome, Observed
    <3>2. goal[i].step \in 0 .. NSteps + 1
      BY DEF TurnOK, Goals
    <3>3. seen' \in 0 .. NSteps
      BY <3>1, <3>2 DEF MiscOK
    <3> QED BY <2>5, <3>3 DEF SettleCompleted, SettleSuspended, SettleBlocked,
         MiscOK
  <2>6. CASE Release(i) \/ LetGo(i) \/ ScanReasons(i)
    <3>1. res' \in [Steps -> Results]
      BY <2>6, CloseTurnTypes DEF Release, LetGo, ScanReasons, EndTurn, MiscOK
    <3> QED BY <2>6, <3>1 DEF Release, LetGo, ScanReasons, MiscOK
  <2>7. CASE Relist(i) \/ Restamp(i)
    <3>1. res' \in [Steps -> Results]
      BY <2>7, CloseTurnTypes DEF Relist, Restamp, EndTurn, MiscOK
    <3> QED BY <2>7, <3>1 DEF Relist, Restamp, MiscOK
  <2>8. CASE \/ ProveOwnLease(i) \/ LockForTurn(i) \/ ClearStamp(i) \/ ListReasons(i)
             \/ MarkStarted(i) \/ SaveStep(i) \/ UnlockBlocked(i) \/ Unstamp(i)
    BY <2>8 DEF ProveOwnLease, LockForTurn, ClearStamp, ListReasons, MarkStarted,
         SaveStep, UnlockBlocked, Unstamp, MiscOK
  <2> QED BY <1>1, <2>1, <2>2, <2>3, <2>4, <2>5, <2>6, <2>7, <2>8 DEF TurnStep
<1>2. ASSUME NEW i \in Inst, PollStep(i) PROVE MiscOK'
  <2>1. res' \in [Steps -> Results]
    BY <1>2, SendTypes DEF PollStep, PollList, PollLock, PollResume, MiscOK
  <2> QED BY <1>2, <2>1 DEF PollStep, PollList, PollLock, PollResume, MiscOK
<1>3. ASSUME NEW i \in Inst, RecoverStep(i) PROVE MiscOK'
  <2>1. CASE RecoverResend(i)
    BY <2>1, SendTypes DEF RecoverResend, MiscOK
  <2>2. CASE ~ RecoverResend(i)
    BY <1>3, <2>2 DEF RecoverStep, RecoverList, RecoverSelf, RecoverLock,
         RecoverCheck, RecoverPark, RecoverCount, RecoverRepend, RecoverFree, MiscOK
  <2> QED BY <2>1, <2>2
<1>4. ASSUME NEW i \in Inst, TimerStep(i) PROVE MiscOK'
  <2>1. CASE RetryDroppedWake(i)
    <3>1. [ph |-> "probe", at |-> i, for |-> {}] \in Wakes
      BY DEF Wakes
    <3>2. task' \in [Tasks -> Wakes]
      BY <2>1, <3>1 DEF RetryDroppedWake, MiscOK
    <3> QED BY <2>1, <3>2 DEF RetryDroppedWake, MiscOK
  <2>2. CASE RecheckWait(i)
    BY <2>2 DEF RecheckWait, MiscOK
  <2> QED BY <1>4, <2>1, <2>2 DEF TimerStep
<1>5. ASSUME NEW t \in Tasks, WakeStep(t) PROVE MiscOK'
  <2>1. task' \in [Tasks -> Wakes]
    <3>1. CASE KeepReason(t)
      BY <3>1 DEF KeepReason, MiscOK, Wakes
    <3>2. CASE StampWake(t)
      BY <3>2, ZenonT(60) DEF StampWake, MiscOK, Wakes
    <3>3. CASE StampGone(t) \/ StampFailed(t)
      BY <3>3, FreeTaskType DEF StampGone, StampFailed, MiscOK
    <3>4. CASE ProbeLease(t) /\ live
      BY <3>4, FreeTaskType DEF ProbeLease, MiscOK
    <3>5. CASE ProbeLease(t) /\ ~live
      BY <3>5 DEF ProbeLease, MiscOK, Wakes
    <3>6. CASE CheckWoken(t)
      BY <3>6, FreeTaskType DEF CheckWoken, MiscOK
    <3> QED BY <1>5, <3>1, <3>2, <3>3, <3>4, <3>5, <3>6 DEF WakeStep
  <2>2. res' \in [Steps -> Results]
    BY <1>5, HandlersToTypes DEF WakeStep, KeepReason, StampWake, StampGone,
         StampFailed, ProbeLease, CheckWoken, MiscOK
  <2>3. budget' \in [Disturbances -> Nat]
    BY <1>5, SpendTypes DEF WakeStep, KeepReason, StampWake, StampGone,
         StampFailed, ProbeLease, CheckWoken, MiscOK
  <2> QED BY <1>5, <2>1, <2>2, <2>3 DEF WakeStep, KeepReason, StampWake,
       StampGone, StampFailed, ProbeLease, CheckWoken, MiscOK
<1>6. ASSUME NEW k \in Steps, ResultStep(k) PROVE MiscOK'
  <2>1. ASSUME NEW i \in Inst, TakeResult(i, k) PROVE MiscOK'
    <3>1. [ph |-> "read", at |-> i, owed |-> OwedDurably] \in Results
      BY DEF OwedDurably, Results
    <3>2. res' \in [Steps -> Results]
      BY <2>1, <3>1, HandlersToTypes DEF TakeResult, MiscOK
    <3> QED BY <2>1, <3>2 DEF TakeResult, MiscOK
  <2>2. CASE SettleResult(k)
    BY <2>2, HandlersToTypes DEF SettleResult, MiscOK
  <2>3. CASE GraceOver(k)
    <3>1. res' \in [Steps -> Results] /\ budget' \in [Disturbances -> Nat]
      BY <2>3, HandlersToTypes, SpendTypes DEF GraceOver
    <3> QED BY <2>3, <3>1 DEF GraceOver, MiscOK
  <2>4. CASE MarkOwed(k) \/ KeepOwed(k) \/ StampOwed(k)
    <3>1. res' \in [Steps -> Results]
      BY <2>4, HandlersToTypes DEF MarkOwed, KeepOwed, StampOwed
    <3> QED BY <2>4, <3>1 DEF MarkOwed, KeepOwed, StampOwed, MiscOK
  <2> QED BY <1>6, <2>1, <2>2, <2>3, <2>4 DEF ResultStep
<1>7. CASE Environment
  <2>1. ASSUME NEW i \in Inst, Crash(i) PROVE MiscOK'
    <3>1. budget' \in [Disturbances -> Nat]
      BY <2>1, SpendTypes DEF Crash
    <3>2. task' \in [Tasks -> Wakes]
      BY <2>1, FreeTaskType DEF Crash, MiscOK
    <3>3. res' \in [Steps -> Results]
      BY <2>1 DEF Crash, MiscOK, Results
    <3> QED BY <2>1, <3>1, <3>2, <3>3 DEF Crash, MiscOK
  <2>2. ASSUME NEW i \in Inst, Restart(i) \/ Renew(i) PROVE MiscOK'
    BY <2>2 DEF Restart, Renew, MiscOK
  <2>3. CASE CancelRead \/ CancelWrite \/ ExecutionTimeout \/ LeaseLapses \/ TimerDue
    <3>1. budget' \in [Disturbances -> Nat]
      BY <2>3, SpendTypes DEF CancelRead, CancelWrite, ExecutionTimeout,
           LeaseLapses, TimerDue, MiscOK
    <3> QED BY <2>3, <3>1 DEF CancelRead, CancelWrite, ExecutionTimeout,
         LeaseLapses, TimerDue, MiscOK
  <2> QED BY <1>7, <2>1, <2>2, <2>3 DEF Environment
<1>8. CASE UNCHANGED vars
  BY <1>8 DEF vars, MiscOK
<1> QED BY <1>1, <1>2, <1>3, <1>4, <1>5, <1>6, <1>7, <1>8 DEF Next, Finished

-----------------------------------------------------------------------------
(* The journal and the status.                                             *)

\* A step the journal holds; a step the transport has been given once.
Journalled(k) == cp[k] # "absent"
Known(k) == res[k].ph # "none"

\* Why JournalFirst is kept: a turn past its body holds a goal whose earlier
\* steps are journalled; it dispatches only what is journalled; results that
\* somebody handles, or waits for, were dispatched.  (The body of this model
\* does not throw: no run is `failed'.)
AheadOK ==
    /\ \A i \in Inst : pc[i] \in AfterBody =>
          \A k \in Steps : k < goal[i].step => Journalled(k)
    /\ \A i \in Inst : pc[i] = "send" => Journalled(goal[i].step)
    /\ \A t \in Tasks : \A k \in task[t].for : Known(k)
    /\ \A k \in Steps : res[k].at # NoOne => Known(k)
    /\ status # "failed"

\* The inductive invariant.
IndInv == TypeOK /\ WorkOK /\ JournalFirst /\ AheadOK

\* A checkpoint is never taken out of the journal.
JournalKept == \A k \in Steps : Journalled(k) => Journalled(k)'

\* No action of the code takes one out.
LEMMA JournalGrows == ASSUME IndInv, [Next]_vars
  PROVE \A k \in Steps : Journalled(k) => Journalled(k)'
<1> USE DEF JournalKept, IndInv, TypeOK, JournalOK, Journalled, journal, store
<1> SUFFICES JournalKept
  OBVIOUS
<1>1. ASSUME NEW i \in Inst, TurnStep(i) PROVE JournalKept
  <2>1. CASE SaveStep(i)
    BY <2>1 DEF SaveStep
  <2>2. CASE ~ SaveStep(i)
    BY <1>1, <2>2 DEF TurnStep, ReadRun, ProveOwnLease, LockForTurn, RefuseTurn,
         ClearStamp, ListReasons, MarkStarted, Body, SendStep, SettleCompleted,
         SettleSuspended, SettleBlocked, UnlockBlocked, Release, LetGo,
         ScanReasons, Unstamp, Relist, Restamp
  <2> QED BY <2>1, <2>2
<1>2. ASSUME NEW i \in Inst, PollStep(i) \/ TimerStep(i) PROVE JournalKept
  BY <1>2 DEF PollStep, PollList, PollLock, PollResume, TimerStep,
       RetryDroppedWake, RecheckWait
<1>3. ASSUME NEW i \in Inst, RecoverStep(i) PROVE JournalKept
  BY <1>3 DEF RecoverStep, RecoverList, RecoverSelf, RecoverLock, RecoverCheck,
       RecoverResend, RecoverPark, RecoverCount, RecoverRepend, RecoverFree
<1>4. ASSUME NEW t \in Tasks, WakeStep(t) PROVE JournalKept
  BY <1>4 DEF WakeStep, KeepReason, StampWake, StampGone, StampFailed, ProbeLease,
       CheckWoken
<1>5. ASSUME NEW k \in Steps, ResultStep(k) PROVE JournalKept
  BY <1>5 DEF ResultStep, TakeResult, SettleResult, GraceOver, MarkOwed, KeepOwed,
       StampOwed
<1>6. CASE Environment
  BY <1>6 DEF Environment, CancelRead, CancelWrite, ExecutionTimeout, LeaseLapses,
       TimerDue, Crash, Restart, Renew
<1>7. CASE UNCHANGED vars
  BY <1>7 DEF vars
<1> QED BY <1>1, <1>2, <1>3, <1>4, <1>5, <1>6, <1>7 DEF Next, Finished

\* A step enters the journal after the steps before it.
LEMMA JournalNews ==
  ASSUME IndInv, [Next]_vars, NEW k \in Steps, ~ Journalled(k), Journalled(k)'
  PROVE \A j \in 1 .. k : Journalled(j)'
<1> USE DEF IndInv, TypeOK, JournalOK, Journalled, journal, store
<1>1. ASSUME NEW i \in Inst, TurnStep(i) PROVE \A j \in 1 .. k : Journalled(j)'
  <2>1. CASE SaveStep(i)
    <3>1. goal[i].step = k
      BY <2>1 DEF SaveStep
    <3>2. \A j \in Steps : j < k => Journalled(j)
      BY <2>1, <3>1 DEF SaveStep, AheadOK, AfterBody
    <3>3. \A j \in 1 .. k : j \in Steps /\ (j < k \/ j = k)
      BY RunTurnsAssumption DEF Steps
    <3> QED BY <3>2, <3>3, JournalGrows
  <2>2. CASE ~ SaveStep(i)
    BY <1>1, <2>2 DEF TurnStep, ReadRun, ProveOwnLease, LockForTurn, RefuseTurn,
         ClearStamp, ListReasons, MarkStarted, Body, SendStep, SettleCompleted,
         SettleSuspended, SettleBlocked, UnlockBlocked, Release, LetGo,
         ScanReasons, Unstamp, Relist, Restamp
  <2> QED BY <2>1, <2>2
<1>2. ASSUME NEW i \in Inst, PollStep(i) \/ TimerStep(i) PROVE FALSE
  BY <1>2 DEF PollStep, PollList, PollLock, PollResume, TimerStep,
       RetryDroppedWake, RecheckWait
<1>3. ASSUME NEW i \in Inst, RecoverStep(i) PROVE FALSE
  BY <1>3 DEF RecoverStep, RecoverList, RecoverSelf, RecoverLock, RecoverCheck,
       RecoverResend, RecoverPark, RecoverCount, RecoverRepend, RecoverFree
<1>4. ASSUME NEW t \in Tasks, WakeStep(t) PROVE FALSE
  BY <1>4 DEF WakeStep, KeepReason, StampWake, StampGone, StampFailed, ProbeLease,
       CheckWoken
<1>5. ASSUME NEW j \in Steps, ResultStep(j) PROVE FALSE
  <2>1. CASE SettleResult(j)
    BY <2>1 DEF SettleResult, JournalFirst
  <2>2. CASE ~ SettleResult(j)
    BY <1>5, <2>2 DEF ResultStep, TakeResult, GraceOver, MarkOwed, KeepOwed,
         StampOwed
  <2> QED BY <2>1, <2>2
<1>6. CASE Environment
  BY <1>6 DEF Environment, CancelRead, CancelWrite, ExecutionTimeout, LeaseLapses,
       TimerDue, Crash, Restart, Renew
<1>7. CASE UNCHANGED vars
  BY <1>7 DEF vars
<1> QED BY <1>1, <1>2, <1>3, <1>4, <1>5, <1>6, <1>7 DEF Next, Finished

\* What one step may do to the status.
StatusStep ==
    /\ status' # "failed"
    /\ status \in Terminal => status' \in {status, "running", "cancelled"}
    /\ status' = "completed" => status = "completed" \/ \A k \in Steps : Journalled(k)

\* No action of the code does anything else to it.
LEMMA StatusChanges == ASSUME IndInv, [Next]_vars PROVE StatusStep
<1> USE RunTurnsAssumption DEF IndInv, TypeOK, RowOK, Status, Terminal, job, row,
     store
<1>0. status # "failed"
  BY DEF AheadOK
<1>1. ASSUME NEW i \in Inst, TurnStep(i) PROVE StatusStep
  <2>1. CASE SettleCompleted(i)
    <3>1. \A k \in Steps : Journalled(k)
      BY <2>1 DEF SettleCompleted, WorkOK, AheadOK, AfterBody, Steps
    <3> QED BY <1>0, <2>1, <3>1 DEF StatusStep, SettleCompleted, Outcome,
         SettleEligible
  <2>2. CASE SettleSuspended(i) \/ SettleBlocked(i) \/ MarkStarted(i)
    BY <1>0, <2>2 DEF StatusStep, SettleSuspended, SettleBlocked, MarkStarted,
         Outcome, SettleEligible
  <2>3. CASE ~ (SettleCompleted(i) \/ SettleSuspended(i) \/ SettleBlocked(i) \/ MarkStarted(i))
    BY <1>0, <1>1, <2>3 DEF StatusStep, TurnStep, ReadRun, ProveOwnLease,
         LockForTurn, RefuseTurn, ClearStamp, ListReasons, Body, SaveStep,
         SendStep, UnlockBlocked, Release, LetGo, ScanReasons, Unstamp, Relist,
         Restamp
  <2> QED BY <2>1, <2>2, <2>3
<1>2. ASSUME NEW i \in Inst, PollStep(i) \/ TimerStep(i) PROVE StatusStep
  BY <1>0, <1>2 DEF StatusStep, PollStep, PollList, PollLock, PollResume,
       TimerStep, RetryDroppedWake, RecheckWait
<1>3. ASSUME NEW i \in Inst, RecoverStep(i) PROVE StatusStep
  BY <1>0, <1>3 DEF StatusStep, RecoverStep, RecoverList, RecoverSelf,
       RecoverLock, RecoverCheck, RecoverResend, RecoverPark, RecoverCount, RecoverRepend,
       RecoverFree, Buried
<1>4. ASSUME NEW t \in Tasks, WakeStep(t) PROVE StatusStep
  BY <1>0, <1>4 DEF StatusStep, WakeStep, KeepReason, StampWake, StampGone,
       StampFailed, ProbeLease, CheckWoken
<1>5. ASSUME NEW k \in Steps, ResultStep(k) PROVE StatusStep
  BY <1>0, <1>5 DEF StatusStep, ResultStep, TakeResult, SettleResult, GraceOver,
       MarkOwed, KeepOwed, StampOwed
<1>6. CASE Environment
  <2>1. ASSUME NEW i \in Inst, Crash(i) \/ Restart(i) \/ Renew(i) PROVE StatusStep
    BY <1>0, <2>1 DEF StatusStep, Crash, Restart, Renew
  <2>2. CASE CancelRead \/ CancelWrite \/ ExecutionTimeout \/ LeaseLapses \/ TimerDue
    BY <1>0, <2>2 DEF StatusStep, CancelRead, CancelWrite, ExecutionTimeout,
         LeaseLapses, TimerDue
  <2> QED BY <1>6, <2>1, <2>2 DEF Environment
<1>7. CASE UNCHANGED vars
  BY <1>0, <1>7 DEF StatusStep, vars
<1> QED BY <1>1, <1>2, <1>3, <1>4, <1>5, <1>6, <1>7 DEF Next, Finished

-----------------------------------------------------------------------------
(* The results.                                                            *)

\* What one step may do to the result of k: it is not forgotten, it appears
\* only once k is journalled, and who handles it handles one that exists.
Handed(k) ==
    /\ Known(k) => Known(k)'
    /\ Known(k)' => Known(k) \/ Journalled(k)
    /\ res'[k].at # NoOne => Known(k)'
HandedAll == \A k \in Steps : Handed(k)

\* The end of a turn moves the handlers that wait for it.
LEMMA CloseTurnHands ==
  ASSUME IndInv, NEW i \in Inst, NEW again \in BOOLEAN, NEW ph \in Phases \ {"none"},
         CloseTurn(i, again, ph)
  PROVE HandedAll
<1> SUFFICES ASSUME NEW k \in Steps PROVE Handed(k) BY DEF HandedAll
<1>1. res \in [Steps -> Results] /\ (res[k].at # NoOne => Known(k))
  BY DEF IndInv, TypeOK, MiscOK, AheadOK
<1>2. res' = HandlersAfter(i, ph) BY DEF CloseTurn
<1>3. res'[k] = res[k] \/ (Known(k) /\ res'[k].ph # "none")
  BY <1>1, <1>2 DEF HandlersAfter, Phases, Results, Known
<1> QED BY <1>1, <1>3 DEF Handed, Known

\* A handler that moves on handles a result that exists.
LEMMA HandlersToHands ==
  ASSUME IndInv, NEW S, \A k \in S \cap Steps : Known(k),
         NEW ph \in Phases \ {"none"}, HandlersTo(S, ph)
  PROVE HandedAll
<1> SUFFICES ASSUME NEW k \in Steps PROVE Handed(k) BY DEF HandedAll
<1>1. res \in [Steps -> Results] /\ (res[k].at # NoOne => Known(k))
  BY DEF IndInv, TypeOK, MiscOK, AheadOK
<1>3. res'[k] = res[k] \/ (Known(k) /\ res'[k].ph # "none")
  BY <1>1 DEF HandlersTo, Phases, Results, Known
<1> QED BY <1>1, <1>3 DEF Handed, Known

\* A dispatch of journalled steps.
LEMMA SendHands == ASSUME IndInv, NEW S, \A k \in S \cap Steps : Journalled(k), Send(S)
  PROVE HandedAll
<1> SUFFICES ASSUME NEW k \in Steps PROVE Handed(k) BY DEF HandedAll
<1>1. res \in [Steps -> Results] /\ (res[k].at # NoOne => Known(k))
  BY DEF IndInv, TypeOK, MiscOK, AheadOK
<1>3. res'[k] = res[k] \/ (Journalled(k) /\ res'[k].ph = "sent")
  BY <1>1 DEF Send, Sent, Results, Known
<1> QED BY <1>1, <1>3 DEF Handed, Known

\* Steps that leave the results alone.
LEMMA SameResHands == ASSUME IndInv, UNCHANGED res PROVE HandedAll
  BY DEF IndInv, AheadOK, HandedAll, Handed, Known

\* Every step treats every result that way, a crash included.
LEMMA ResultsAreHandedOn == ASSUME IndInv, [Next]_vars PROVE HandedAll
<1> USE SameResHands DEF misc, inst, past, Phases
<1>0. /\ JournalOK /\ (\A i \in Inst : pc[i] = "send" => Journalled(goal[i].step))
      /\ WorkOK /\ MiscOK
  BY DEF IndInv, AheadOK, TypeOK
<1>1. ASSUME NEW i \in Inst, TurnStep(i) PROVE HandedAll
  <2>1. CASE SendStep(i)
    BY <1>0, <2>1, SendHands DEF SendStep
  <2>2. CASE ReadRun(i)
    BY <2>2, CloseTurnHands DEF ReadRun, EndTurn
  <2>3. CASE RefuseTurn(i) \/ Release(i) \/ Restamp(i)
    BY <2>3, CloseTurnHands DEF RefuseTurn, Release, Restamp, EndTurn
  <2>4. CASE LetGo(i)
    BY <2>4, CloseTurnHands DEF LetGo, EndTurn
  <2>5. CASE ScanReasons(i)
    BY <2>5, CloseTurnHands DEF ScanReasons, EndTurn
  <2>6. CASE Relist(i)
    BY <2>6, CloseTurnHands DEF Relist, EndTurn
  <2>7. CASE ProveOwnLease(i) \/ LockForTurn(i) \/ ClearStamp(i) \/ ListReasons(i) \/ MarkStarted(i)
             \/ Body(i) \/ SaveStep(i) \/ SettleCompleted(i) \/ SettleSuspended(i)
             \/ SettleBlocked(i) \/ UnlockBlocked(i) \/ Unstamp(i)
    BY <2>7 DEF ProveOwnLease, LockForTurn, ClearStamp, ListReasons, MarkStarted,
         Body, SaveStep, SettleCompleted, SettleSuspended, SettleBlocked,
         UnlockBlocked, Unstamp
  <2> QED BY <1>1, <2>1, <2>2, <2>3, <2>4, <2>5, <2>6, <2>7 DEF TurnStep
<1>2. ASSUME NEW i \in Inst, PollStep(i) PROVE HandedAll
  <2>1. CASE PollLock(i)
    <3>1. CASE UNCHANGED res BY <3>1
    <3>2. CASE Send({k \in fresh : cp[k] = "pending"})
      BY <3>2, SendHands DEF Journalled
    <3> QED BY <2>1, <3>1, <3>2 DEF PollLock
  <2>2. CASE PollList(i) \/ PollResume(i)
    BY <2>2 DEF PollList, PollResume
  <2> QED BY <1>2, <2>1, <2>2 DEF PollStep
<1>3. ASSUME NEW i \in Inst, RecoverStep(i) PROVE HandedAll
  <2>1. CASE RecoverResend(i)
    BY <2>1, SendHands DEF RecoverResend, Journalled
  <2>2. CASE RecoverList(i) \/ RecoverSelf(i) \/ RecoverLock(i) \/ RecoverCheck(i)
             \/ RecoverPark(i) \/ RecoverCount(i) \/ RecoverRepend(i) \/ RecoverFree(i)
    BY <2>2 DEF RecoverList, RecoverSelf, RecoverLock, RecoverCheck, RecoverPark,
         RecoverCount, RecoverRepend, RecoverFree
  <2> QED BY <1>3, <2>1, <2>2 DEF RecoverStep
<1>4. ASSUME NEW t \in Tasks, WakeStep(t) PROVE HandedAll
  <2>0. \A k \in task[t].for \cap Steps : Known(k)
    BY DEF IndInv, AheadOK
  <2>1. CASE StampWake(t) \/ StampGone(t) \/ StampFailed(t)
    BY <2>0, <2>1, HandlersToHands DEF StampWake, StampGone, StampFailed
  <2>2. CASE KeepReason(t) \/ ProbeLease(t) \/ CheckWoken(t)
    BY <2>2 DEF KeepReason, ProbeLease, CheckWoken
  <2> QED BY <1>4, <2>1, <2>2 DEF WakeStep
<1>5. ASSUME NEW k \in Steps, ResultStep(k) PROVE HandedAll
  <2>1. CASE SettleResult(k)
    BY <2>1, HandlersToHands DEF SettleResult, Known
  <2>2. CASE GraceOver(k) \/ MarkOwed(k) \/ KeepOwed(k) \/ StampOwed(k)
    BY <2>2, HandlersToHands DEF GraceOver, MarkOwed, KeepOwed, StampOwed, Known
  <2>3. ASSUME NEW i \in Inst, TakeResult(i, k) PROVE HandedAll
    <3>1. CASE Ended
      BY <2>3, <3>1, HandlersToHands DEF TakeResult, Known
    <3>2. CASE ~ Ended
      <4>1. /\ res' = [res EXCEPT ![k] = [ph |-> "read", at |-> i, owed |-> OwedDurably]]
            /\ res[k].ph = "sent"
        BY <2>3, <3>2 DEF TakeResult
      <4> QED BY <1>0, <4>1 DEF IndInv, AheadOK, HandedAll, Handed, Known, MiscOK,
           Results
    <3> QED BY <3>1, <3>2
  <2> QED BY <1>5, <2>1, <2>2, <2>3 DEF ResultStep
<1>6. CASE Environment
  <2>1. ASSUME NEW i \in Inst, Crash(i) PROVE HandedAll
    <3> SUFFICES ASSUME NEW k \in Steps PROVE Handed(k) BY DEF HandedAll
    <3>1. res \in [Steps -> Results] /\ (res[k].at # NoOne => Known(k)) /\ NoOne \notin Inst
      BY RunTurnsAssumption DEF IndInv, TypeOK, MiscOK, AheadOK
    <3>2. res'[k] = res[k] \/ (Known(k) /\ res'[k].ph # "none")
      BY <2>1, <3>1 DEF Crash, Known
    <3> QED BY <3>1, <3>2 DEF Handed, Known
  <2>2. ASSUME NEW i \in Inst, Restart(i) \/ Renew(i) PROVE HandedAll
    BY <2>2 DEF Restart, Renew
  <2>3. CASE CancelRead \/ CancelWrite \/ ExecutionTimeout \/ LeaseLapses \/ TimerDue
    BY <2>3 DEF CancelRead, CancelWrite, ExecutionTimeout, LeaseLapses, TimerDue
  <2> QED BY <1>6, <2>1, <2>2, <2>3 DEF Environment
<1>7. CASE UNCHANGED vars
  BY <1>7 DEF vars
<1>8. ASSUME NEW i \in Inst, TimerStep(i) PROVE HandedAll
  BY <1>8 DEF TimerStep, RetryDroppedWake, RecheckWait
<1> QED BY <1>1, <1>2, <1>3, <1>4, <1>5, <1>6, <1>7, <1>8 DEF Next, Finished

-----------------------------------------------------------------------------
(* The turns.                                                              *)

\* The part of AheadOK about the turn of i.
Ahead(i) ==
    /\ pc[i] \in AfterBody => \A k \in Steps : k < goal[i].step => Journalled(k)
    /\ pc[i] = "send" => Journalled(goal[i].step)
AheadAll == \A i \in Inst : Ahead(i)

\* It survives what leaves i's turn where it is: the journal only grows.
LEMMA AheadKept ==
  ASSUME IndInv, [Next]_vars, NEW i \in Inst, pc'[i] = pc[i], goal'[i] = goal[i]
  PROVE Ahead(i)'
<1>1. Ahead(i) /\ (pc[i] = "send" => goal[i].step \in Steps)
  BY DEF IndInv, AheadOK, Ahead, WorkOK
<1>2. \A k \in Steps : Journalled(k) => Journalled(k)'
  BY JournalGrows
<1> QED BY <1>1, <1>2 DEF Ahead, Journalled

\* The same, for the steps that leave every turn where it is.
LEMMA AheadKeptForAll == ASSUME IndInv, [Next]_vars, UNCHANGED <<pc, goal>>
  PROVE AheadAll'
  BY AheadKept DEF AheadAll

\* A turn that has not reached the end of its body owes nothing.
LEMMA NothingOwedBeforeBody ==
  ASSUME NEW i \in Inst, pc'[i] \in {"idle"} \union BeforeBody
  PROVE Ahead(i)'
  BY DEF Ahead, AfterBody, BeforeBody

\* Every step keeps it, for every instance: the body aims at the first step
\* that is not settled, SaveStep journals it, SendStep comes after.
LEMMA TurnsStayAhead == ASSUME IndInv, [Next]_vars PROVE AheadAll'
<1> USE AheadKeptForAll DEF misc, inst, past, turn, own, mem, back
<1>0. /\ JournalOK /\ TurnOK /\ WorkOK /\ BackOK /\ MiscOK
      /\ \A k \in Steps : Journalled(k) => Journalled(k)'
  BY JournalGrows DEF IndInv, TypeOK
<1>1. ASSUME NEW i \in Inst, TurnStep(i) PROVE AheadAll'
  <2>a. ASSUME NEW j \in Inst, j # i PROVE Ahead(j)'
    <3>1. pc'[j] = pc[j] /\ goal'[j] = goal[j]
      BY <1>0, <1>1, <2>a DEF TurnOK, TurnStep, ReadRun, ProveOwnLease,
           LockForTurn, RefuseTurn, ClearStamp, ListReasons, MarkStarted, Body,
           SaveStep, SendStep, SettleCompleted, SettleSuspended, SettleBlocked,
           UnlockBlocked, Release, LetGo, ScanReasons, Unstamp, Relist, Restamp,
           Goto, Aim, EndTurn, CloseTurn
    <3> QED BY <3>1, AheadKept
  <2>b. Ahead(i)'
    <3>1. CASE ReadRun(i) \/ ProveOwnLease(i) \/ LockForTurn(i) \/ RefuseTurn(i)
           \/ ClearStamp(i) \/ ListReasons(i) \/ MarkStarted(i) \/ Release(i) \/ Restamp(i)
      <4>1. pc'[i] \in {"idle"} \union BeforeBody
        BY <1>0, <3>1 DEF TurnOK, BeforeBody, ReadRun, ProveOwnLease, LockForTurn,
             RefuseTurn, ClearStamp, ListReasons, MarkStarted, Release, Restamp,
             Goto, EndTurn, CloseTurn, AfterClear
      <4> QED BY <4>1, NothingOwedBeforeBody
    <3>2. CASE LetGo(i) \/ ScanReasons(i) \/ Relist(i)
      <4>1. \/ pc'[i] \in {"idle"} \union BeforeBody
            \/ pc[i] \in AfterBody /\ pc'[i] # "send" /\ goal' = goal
        BY <1>0, <3>2 DEF TurnOK, BeforeBody, AfterBody, LetGo, ScanReasons,
             Relist, Goto, EndTurn, CloseTurn
      <4>2. Ahead(i) BY DEF IndInv, AheadOK, Ahead
      <4> QED BY <1>0, <4>1, <4>2, NothingOwedBeforeBody DEF Ahead
    <3>3. CASE SendStep(i) \/ SettleCompleted(i) \/ SettleSuspended(i)
             \/ SettleBlocked(i) \/ UnlockBlocked(i) \/ Unstamp(i)
      <4>1. pc[i] \in AfterBody /\ pc'[i] # "send" /\ goal' = goal
        BY <1>0, <3>3 DEF TurnOK, AfterBody, SendStep, SettleCompleted,
             SettleSuspended, SettleBlocked, UnlockBlocked, Unstamp, Goto
      <4>2. Ahead(i) BY DEF IndInv, AheadOK, Ahead
      <4> QED BY <1>0, <4>1, <4>2 DEF Ahead
    <3>4. CASE SaveStep(i)
      <4>1. pc[i] \in AfterBody /\ goal' = goal /\ goal[i].step \in Steps
        BY <1>0, <3>4 DEF TurnOK, WorkOK, AfterBody, SaveStep
      <4>2. Journalled(goal[i].step)'
        BY <1>0, <3>4, <4>1 DEF JournalOK, SaveStep, Journalled
      <4>3. Ahead(i) BY DEF IndInv, AheadOK, Ahead
      <4> QED BY <1>0, <4>1, <4>2, <4>3 DEF Ahead, Journalled
    <3>5. CASE Body(i)
      <4>1. pc'[i] # "send" BY <1>0, <3>5 DEF TurnOK, Body, Goto
      <4>2. CASE /\ \A k \in Steps : Settled(k)
                 /\ Aim(i, "complete", NSteps + 1)
        BY <1>0, <4>1, <4>2 DEF Ahead, Settled, Journalled
      <4>3. ASSUME NEW k \in Steps, Awaits(k), NEW kind, Aim(i, kind, k)
            PROVE Ahead(i)'
        <5>1. goal'[i].step = k
          BY <1>0, <4>3 DEF TurnOK, Aim
        <5>2. \A j \in Steps : j < k => j \in 1 .. k - 1
          BY RunTurnsAssumption DEF Steps
        <5>3. \A j \in Steps : j < k => Journalled(j)
          BY <4>3, <5>2 DEF Awaits, Settled, Journalled
        <5> QED BY <1>0, <4>1, <5>1, <5>3 DEF Ahead
      <4> QED BY <3>5, <4>2, <4>3 DEF Body
    <3> QED BY <1>1, <3>1, <3>2, <3>3, <3>4, <3>5 DEF TurnStep
  <2> QED BY <2>a, <2>b DEF AheadAll
<1>2. ASSUME NEW i \in Inst, Request(i), UNCHANGED goal PROVE AheadAll'
  <2> SUFFICES ASSUME NEW j \in Inst PROVE Ahead(j)' BY DEF AheadAll
  <2>1. pc'[j] = pc[j] \/ pc'[j] = "read"
    BY <1>0, <1>2 DEF TurnOK, Request
  <2> QED BY <1>2, <2>1, AheadKept, NothingOwedBeforeBody DEF BeforeBody
<1>3. ASSUME NEW i \in Inst, PollStep(i) \/ TimerStep(i) PROVE AheadAll'
  <2>1. CASE PollResume(i)
    BY <1>2, <2>1 DEF PollResume, Request
  <2>2. CASE RecheckWait(i)
    BY <1>2, <2>2 DEF RecheckWait, Request
  <2>3. CASE PollList(i) \/ PollLock(i) \/ RetryDroppedWake(i)
    BY <2>3 DEF PollList, PollLock, RetryDroppedWake
  <2> QED BY <1>3, <2>1, <2>2, <2>3 DEF PollStep, TimerStep
<1>4. ASSUME NEW i \in Inst, RecoverStep(i) PROVE AheadAll'
  BY <1>4 DEF RecoverStep, RecoverList, RecoverSelf, RecoverLock, RecoverCheck,
       RecoverResend, RecoverPark, RecoverCount, RecoverRepend, RecoverFree
<1>5. ASSUME NEW t \in Tasks, WakeStep(t) PROVE AheadAll'
  <2>1. CASE CheckWoken(t)
    <3>1. task[t].at \in Inst
      BY <1>0, <2>1 DEF WorkOK, CheckWoken
    <3> QED BY <1>2, <2>1, <3>1 DEF CheckWoken, Request
  <2>2. CASE KeepReason(t) \/ ProbeLease(t) \/ StampWake(t) \/ StampGone(t) \/ StampFailed(t)
    BY <2>2 DEF KeepReason, ProbeLease, StampWake, StampGone, StampFailed
  <2> QED BY <1>5, <2>1, <2>2 DEF WakeStep
<1>6. ASSUME NEW k \in Steps, ResultStep(k) PROVE AheadAll'
  <2>1. CASE SettleResult(k)
    <3>1. UNCHANGED goal BY <2>1 DEF SettleResult, Request
    <3>2. CASE UNCHANGED pc BY <3>1, <3>2
    <3>3. CASE res[k].at \in Inst BY <1>2, <2>1, <3>1, <3>3 DEF SettleResult
    <3>4. CASE res[k].at \notin Inst
      <4>1. UNCHANGED pc \/ pc' = [pc EXCEPT ![res[k].at] = "read"]
        BY <2>1 DEF SettleResult, Request
      <4>2. UNCHANGED pc
        BY <1>0, <3>4, <4>1 DEF TurnOK
      <4> QED BY <3>2, <4>2
    <3> QED BY <3>3, <3>4
  <2>2. CASE GraceOver(k) \/ MarkOwed(k) \/ KeepOwed(k) \/ StampOwed(k)
    BY <2>2 DEF GraceOver, MarkOwed, KeepOwed, StampOwed
  <2>3. ASSUME NEW i \in Inst, TakeResult(i, k) PROVE AheadAll'
    BY <2>3 DEF TakeResult
  <2> QED BY <1>6, <2>1, <2>2, <2>3 DEF ResultStep
<1>7. CASE Environment
  <2>1. ASSUME NEW i \in Inst, Crash(i) PROVE AheadAll'
    <3> SUFFICES ASSUME NEW j \in Inst PROVE Ahead(j)' BY DEF AheadAll
    <3>1. pc'[j] = "idle" \/ (pc'[j] = pc[j] /\ goal'[j] = goal[j])
      BY <1>0, <2>1 DEF TurnOK, Crash
    <3> QED BY <3>1, AheadKept, NothingOwedBeforeBody
  <2>2. ASSUME NEW i \in Inst, Restart(i) \/ Renew(i) PROVE AheadAll'
    BY <2>2 DEF Restart, Renew
  <2>3. CASE CancelRead \/ CancelWrite \/ ExecutionTimeout \/ LeaseLapses \/ TimerDue
    BY <2>3 DEF CancelRead, CancelWrite, ExecutionTimeout, LeaseLapses, TimerDue
  <2> QED BY <1>7, <2>1, <2>2, <2>3 DEF Environment
<1>8. CASE UNCHANGED vars
  BY <1>8 DEF vars
<1> QED BY <1>1, <1>3, <1>4, <1>5, <1>6, <1>7, <1>8 DEF Next, Finished

\* A refused wake holds handlers of results that exist.
Waiting(t) == \A k \in task[t].for : Known(k)

\* Every step keeps that.
LEMMA TasksWaitForKnown == ASSUME IndInv, [Next]_vars PROVE \A t \in Tasks : Waiting(t)'
<1>0. /\ MiscOK /\ \A t \in Tasks : Waiting(t) /\ task[t].for \subseteq Steps
  BY DEF IndInv, TypeOK, MiscOK, AheadOK, Waiting, Wakes
<1>1. \A k \in Steps : Known(k) => Known(k)'
  BY ResultsAreHandedOn DEF HandedAll, Handed
<1>2. SUFFICES ASSUME NEW t \in Tasks
      PROVE  task'[t].for \subseteq task[t].for \/ Waiting(t)'
  BY <1>0, <1>1 DEF Waiting, Known
<1>3. CASE UNCHANGED task BY <1>3
<1> USE <1>3 DEF misc
<1>4. ASSUME NEW i \in Inst, TurnStep(i)
      PROVE  task'[t].for \subseteq task[t].for \/ Waiting(t)'
  <2>1. CASE RefuseTurn(i)
    <3>1. PICK u \in Tasks : task' = [task EXCEPT ![u] = [ph |-> "keep", at |-> i,
                 for |-> {k \in Steps : res[k].at = i /\ res[k].ph = "turn"}]]
      BY <2>1 DEF RefuseTurn
    <3>2. CASE t = u
      <4>1. \A k \in task'[t].for : k \in Steps /\ Known(k)
        BY <1>0, <3>1, <3>2 DEF MiscOK, Known
      <4> QED BY <1>1, <4>1 DEF Waiting, Known
    <3>3. CASE t # u BY <1>0, <3>1, <3>3 DEF MiscOK
    <3> QED BY <3>2, <3>3
  <2>2. CASE ~ RefuseTurn(i)
    BY <1>4, <2>2 DEF TurnStep, ReadRun, ProveOwnLease, LockForTurn, ClearStamp,
         ListReasons, MarkStarted, Body, SaveStep, SendStep, SettleCompleted,
         SettleSuspended, SettleBlocked, UnlockBlocked, Release, LetGo,
         ScanReasons, Unstamp, Relist, Restamp
  <2> QED BY <2>1, <2>2
<1>5. ASSUME NEW u \in Tasks, WakeStep(u)
      PROVE  task'[t].for \subseteq task[t].for \/ Waiting(t)'
  <2>1. CASE KeepReason(u)
    BY <1>0, <2>1 DEF KeepReason, MiscOK, Wakes
  <2>4. CASE StampWake(u)
    <3>1. task' = [task EXCEPT ![u] = [@ EXCEPT !.ph = "probe", !.for = {}]]
      BY <2>4 DEF StampWake
    <3>2. CASE t = u
      <4>1. task'[u] = [task[u] EXCEPT !.ph = "probe", !.for = {}]
        BY <1>0, <3>1 DEF MiscOK
      <4>2. task[u] \in Wakes
        BY <1>0 DEF MiscOK
      <4>3. task'[u].for = {}
        BY <4>1, <4>2 DEF Wakes
      <4> QED BY <3>2, <4>3
    <3>3. CASE t # u BY <1>0, <3>1, <3>3 DEF MiscOK
    <3> QED BY <3>2, <3>3
  <2>2. CASE StampGone(u) \/ StampFailed(u) \/ CheckWoken(u)
    BY <1>0, <2>2 DEF StampGone, StampFailed, CheckWoken, MiscOK, Wakes, FreeTask
  <2>3. CASE ProbeLease(u)
    BY <1>0, <2>3 DEF ProbeLease, MiscOK, Wakes, FreeTask
  <2> QED BY <1>5, <2>1, <2>2, <2>3, <2>4 DEF WakeStep
<1>6. ASSUME NEW i \in Inst, TimerStep(i)
      PROVE  task'[t].for \subseteq task[t].for \/ Waiting(t)'
  BY <1>0, <1>6 DEF TimerStep, RetryDroppedWake, RecheckWait, MiscOK, Wakes
<1>7. ASSUME NEW i \in Inst, PollStep(i) \/ RecoverStep(i) PROVE UNCHANGED task
  BY <1>7 DEF PollStep, PollList, PollLock, PollResume, RecoverStep, RecoverList,
       RecoverSelf, RecoverLock, RecoverCheck, RecoverResend, RecoverPark, RecoverCount,
       RecoverRepend, RecoverFree
<1>8. ASSUME NEW k \in Steps, ResultStep(k) PROVE UNCHANGED task
  BY <1>8 DEF ResultStep, TakeResult, SettleResult, GraceOver, MarkOwed, KeepOwed,
       StampOwed, inst, past
<1>9. CASE Environment
  <2>1. ASSUME NEW i \in Inst, Crash(i) PROVE task'[t].for \subseteq task[t].for
    BY <1>0, <2>1 DEF Crash, FreeTask, MiscOK
  <2>2. ASSUME NEW i \in Inst, Restart(i) \/ Renew(i) PROVE UNCHANGED task
    BY <2>2 DEF Restart, Renew
  <2>3. CASE CancelRead \/ CancelWrite \/ ExecutionTimeout \/ LeaseLapses \/ TimerDue
    BY <2>3 DEF CancelRead, CancelWrite, ExecutionTimeout, LeaseLapses, TimerDue
  <2> QED BY <1>9, <2>1, <2>2, <2>3 DEF Environment
<1>10. CASE UNCHANGED vars BY <1>10 DEF vars
<1> QED BY <1>4, <1>5, <1>6, <1>7, <1>8, <1>9, <1>10 DEF Next, Finished

-----------------------------------------------------------------------------
(* The theorems.                                                           *)

\* The inductive invariant is inductive: every action of the code keeps it.
LEMMA IndStep == ASSUME IndInv, [Next]_vars PROVE IndInv'
<1>1. TypeOK' /\ WorkOK'
  BY RowStep, JournalStep, TurnMapsStep, BackStep, MiscStep, WorkStep DEF IndInv,
       TypeOK
<1>2. JournalFirst'
  <2>1. ASSUME NEW k \in Steps, res'[k].ph # "none" PROVE cp'[k] # "absent"
    <3>1. Known(k) \/ Journalled(k)
      BY <2>1, ResultsAreHandedOn DEF HandedAll, Handed, Known
    <3>2. Journalled(k)
      BY <3>1 DEF IndInv, JournalFirst, Known, Journalled
    <3> QED BY <3>2, JournalGrows DEF Journalled
  <2>2. ASSUME NEW k \in Steps, cp'[k] # "absent", NEW j \in 1 .. k
        PROVE  cp'[j] # "absent"
    <3>1. CASE ~ Journalled(k)
      BY <2>2, <3>1, JournalNews DEF Journalled
    <3>2. CASE Journalled(k)
      <4>1. Journalled(j)
        BY <2>2, <3>2 DEF IndInv, JournalFirst, Journalled
      <4>2. j \in Steps
        BY RunTurnsAssumption DEF Steps
      <4> QED BY <4>1, <4>2, JournalGrows DEF Journalled
    <3> QED BY <3>1, <3>2
  <2>3. ASSUME status' = "completed" PROVE \A k \in Steps : cp'[k] # "absent"
    <3>1. \A k \in Steps : Journalled(k)
      BY <2>3, StatusChanges DEF StatusStep, IndInv, JournalFirst, Journalled
    <3> QED BY <3>1, JournalGrows DEF Journalled
  <2> QED BY <2>1, <2>2, <2>3 DEF JournalFirst
<1>3. AheadOK'
  <2>1. \A i \in Inst : Ahead(i)'
    BY TurnsStayAhead DEF AheadAll
  <2>2. \A t \in Tasks : Waiting(t)'
    BY TasksWaitForKnown
  <2>3. \A k \in Steps : res'[k].at # NoOne => Known(k)'
    BY ResultsAreHandedOn DEF HandedAll, Handed
  <2>4. status' # "failed"
    BY StatusChanges DEF StatusStep
  <2> QED BY <2>1, <2>2, <2>3, <2>4 DEF AheadOK, Ahead, Waiting, Known, Journalled
<1> QED BY <1>1, <1>2, <1>3 DEF IndInv

\* It holds of a run that was just inserted, before any instance saw it.
LEMMA IndInit == ASSUME Init PROVE IndInv
<1> USE RunTurnsAssumption DEF Init
<1>1. RowOK /\ JournalOK
  <2>1. RowOK
    <3>1. attempts \in 0 .. MaxRecovery
      <4>1. attempts = 0 /\ MaxRecovery \in Nat
        OBVIOUS
      <4> QED BY ONLY <4>1
    <3>2. live \in BOOLEAN /\ stamp \in BOOLEAN /\ preboot \in BOOLEAN
      OBVIOUS
    <3>3. status \in Status /\ owner \in Inst \union {NoOne} /\ wake \in {"far", "soon", "due"}
      BY DEF Status
    <3> QED BY ONLY <3>1, <3>2, <3>3 DEF RowOK
  <2>2. cp \in [Steps -> {"absent", "pending", "settled"}]
    <3>1. cp = [k \in Steps |-> "absent"]
      OBVIOUS
    <3> QED BY ONLY <3>1
  <2>3. fresh \subseteq Steps /\ kept \subseteq Reasons
    OBVIOUS
  <2> QED BY <2>1, <2>2, <2>3 DEF JournalOK
<1>2. TurnOK
  <2>1. NoSnap \in Snaps /\ NoGoal \in Goals
    BY DEF Snaps, NoSnap, Goals, NoGoal, Status
  <2>2. 0 \in 0 .. LetGoRounds - 1
    OBVIOUS
  <2> QED BY <2>1, <2>2 DEF TurnOK, Places
<1>8. BackOK
  <2>1. NoRec \in Recoveries
    BY DEF NoRec, Recoveries
  <2> QED BY <2>1 DEF BackOK
<1>3. MiscOK
  <2>1. limits \in [Disturbances -> Nat] /\ budget \in [Disturbances -> Nat]
    <3>1. limits \in Environments /\ budget = limits
      OBVIOUS
    <3> QED BY ONLY <3>1, RunTurnsAssumption
  <2>2. res \in [Steps -> Results] /\ task \in [Tasks -> Wakes] /\ seen \in 0 .. NSteps
    BY DEF Results, Wakes, FreeTask
  <2> QED BY <2>1, <2>2 DEF MiscOK
<1>4. WorkOK
  BY DEF WorkOK, FreeTask, NoGoal
<1>5. \A k \in Steps : \A j \in 1 .. k : j \in Steps
  BY DEF Steps
<1>6. JournalFirst
  BY <1>5 DEF JournalFirst
<1>7. AheadOK
  BY DEF AheadOK, AfterBody, FreeTask, Known
<1> QED BY <1>1, <1>2, <1>3, <1>4, <1>6, <1>7, <1>8 DEF IndInv, TypeOK

\* IndInv holds of every reachable state, of any number of instances, steps,
\* crashes, stalls, blocks and cancels.
THEOREM Inductive == Spec => []IndInv
<1>1. Init => IndInv
  BY IndInit
<1>2. IndInv /\ [Next]_vars => IndInv'
  BY IndStep
<1> QED BY <1>1, <1>2, PTL DEF Spec

\* What a column of the run's row, a checkpoint or a map of the engine holds
\* never leaves its domain: in particular the recovery counter never passes
\* maxRecoveryAttempts, and the rounds of letGoOfSuspendedTurn never pass
\* their number.
THEOREM TypeCorrect == Spec => []TypeOK
<1>1. IndInv => TypeOK
  BY DEF IndInv
<1> QED BY <1>1, Inductive, PTL

\* callRemote writes ahead: no instance, recovery or redelivery ever hands the
\* transport a step that is not journalled, steps are journalled in order, and
\* a completed run has all of them.
THEOREM JournalIsWrittenAhead == Spec => []JournalFirst
<1>1. IndInv => JournalFirst
  BY DEF IndInv
<1> QED BY <1>1, Inductive, PTL

\* updateRunIf with SETTLE_ELIGIBLE_STATUSES: a turn's outcome, a park, a
\* recovery or the execution timeout is never written over a run that ended;
\* only markStarted and the operator's cancel write whatever they find.
THEOREM OutcomesRespectTheEnd == Spec => SettleRespectsTerminal
<1>1. IndInv /\ [Next]_vars
      => [(status \in Terminal) => (status' \in {status, "running", "cancelled"})]_status
  BY StatusChanges DEF StatusStep
<1> QED BY <1>1, Inductive, PTL DEF Spec, SettleRespectsTerminal

-----------------------------------------------------------------------------
(* The lease, while no instance dies, no lease lapses under a holder at     *)
(* work and nobody cancels (blocks, faults and graces there may be).  Then  *)
(* there is no recovery, and until a turn has completed the run             *)
(*   - whoever is past the lock has the lease, live (LeaseHeld), so that a  *)
(*     `running' run is in its body somewhere (RunningHeld);                *)
(*   - a refused wake that holds the lease for a moment (its probe, phase   *)
(*     "check") may share it with a turn of its instance, which took it for *)
(*     its own, but only of a parked run, and hands such a run's lease on   *)
(*     instead of giving it back (ClaimIsParked); a turn that would start   *)
(*     the run meanwhile is still waiting at the lock (ClaimBlocks).        *)
(* After the run has completed that ends: an instance that read it          *)
(* `suspended' before still gets the lease, and its own probe, which now    *)
(* reads `completed', gives the lease back under that turn.                 *)

Quiet == \A d \in {"crashes", "stalls", "cancels"} : limits[d] = 0

\* What never happens then: no bound is left for it, and who serves is up.
QuietOK ==
    /\ \A d \in {"crashes", "stalls", "cancels"} : budget[d] = 0
    /\ ~preboot /\ cancel = "idle"
    /\ \A i \in Inst : i \in Serving => up[i]

\* Only instances that are up do anything.
OnlyUp ==
    /\ \A i \in Inst : \/ pc[i] # "idle" \/ poll[i] # "idle" \/ timer[i] # "off"
                       \/ recheck[i] # {}
                       => up[i]
    /\ \A t \in Tasks : task[t].ph # "none" => up[task[t].at]
    /\ \A k \in Steps : res[k].ph = "read" => res[k].at \in Inst /\ up[res[k].at]

\* Only a run that was read pending is started.
StartOK == \A i \in Inst : pc[i] = "start" => snap[i].status = "pending"

UnderLease == {"own", "clear", "reasons"} \union InBody
                \union {"letgo", "scan", "unstamp", "relist", "restamp", "unlock"}
WillStart(i) == snap[i].status = "pending"
                /\ pc[i] \in {"own", "lock", "clear", "reasons", "start"}
Claims(t)    == task[t].ph = "check"
Parked       == status \in {"suspended", "blocked"}

NoRecovery    == \A i \in Inst : rec[i].at = "idle"
FenceOK       == \A i \in Inst : fence[i] => pc[i] = "release"
LeaseHeld     == \A i \in Inst : pc[i] \in UnderLease => owner = i /\ live
RunningHeld   == status = "running" =>
                    \E i \in Inst : pc[i] \in {"body", "save", "send", "settle"}
Unended       == status \in {"pending", "running", "suspended", "blocked"}
ProbedRan     == \A t \in Tasks : task[t].ph \in {"probe", "check"} => status # "pending"
ClaimIsParked == \A t \in Tasks : Claims(t) /\ pc[task[t].at] \in UnderLease => Parked
ClaimBlocks   == \A t \in Tasks : Claims(t) /\ WillStart(task[t].at) =>
                    pc[task[t].at] = "lock" /\ owner = task[t].at /\ live
OneClaim      == \A t, u \in Tasks : /\ Claims(t) /\ Claims(u) /\ task[t].at = task[u].at
                                     /\ WillStart(task[t].at)
                                     => t = u

Calm == /\ NoRecovery /\ FenceOK /\ LeaseHeld /\ RunningHeld /\ Unended /\ ProbedRan
        /\ ClaimIsParked /\ ClaimBlocks /\ OneClaim

\* A result that was acknowledged, or is about to be, is in the journal; a step
\* about to be journalled is not; a completed run has all its steps.
SaveIsNew      == \A i \in Inst : pc[i] = "save" => seen < NSteps /\ cp[goal[i].step] = "absent"
AllSettled     == \A k \in Steps : cp[k] = "settled"
EndIsSettled   == \/ seen >= NSteps
                  \/ \E i \in Inst : pc[i] = "settle" /\ goal[i].kind = "complete"
                  => AllSettled
Handled        == {"turn", "queued", "refused", "mark", "stamp", "acked"}
KnownIsSettled == status \notin Terminal =>
                    /\ \A k \in Steps : res[k].ph \in Handled => cp[k] = "settled"
                    /\ \A t \in Tasks : \A k \in task[t].for : cp[k] = "settled"
SettledInv == SaveIsNew /\ EndIsSettled /\ KnownIsSettled

QuietInv == QuietOK /\ OnlyUp /\ StartOK /\ (seen < NSteps => Calm) /\ SettledInv

\* At first nobody has the lease, and no thread is at work.
LEMMA QuietInit == ASSUME Init, Quiet PROVE QuietInv
<1> USE RunTurnsAssumption DEF Init
<1>1. QuietOK BY DEF Quiet, QuietOK, Disturbances
<1>2. OnlyUp BY DEF OnlyUp, FreeTask
<1>3. StartOK BY DEF StartOK
<1>4. Calm
  <2>1. NoRecovery /\ FenceOK /\ RunningHeld /\ Unended
    BY DEF NoRecovery, NoRec, FenceOK, RunningHeld, Unended
  <2>2. LeaseHeld BY DEF LeaseHeld, UnderLease, InBody
  <2>3. \A t \in Tasks : task[t].ph = "none" BY DEF FreeTask
  <2>4. ProbedRan /\ ClaimIsParked /\ ClaimBlocks /\ OneClaim
    BY <2>3 DEF ProbedRan, ClaimIsParked, ClaimBlocks, OneClaim, Claims
  <2> QED BY <2>1, <2>2, <2>4 DEF Calm
<1>5. SaveIsNew BY DEF SaveIsNew
<1>6. EndIsSettled
  <2>1. ~(seen >= NSteps) OBVIOUS
  <2> QED BY <2>1 DEF EndIsSettled
<1>7. KnownIsSettled BY DEF KnownIsSettled, Handled, FreeTask
<1> QED BY <1>1, <1>2, <1>3, <1>4, <1>5, <1>6, <1>7 DEF QuietInv, SettledInv

\* A bound that is used up stays so.
LEMMA SpendQuiet ==
  ASSUME TypeOK, QuietOK, NEW b \in Disturbances, Spend(b)
  PROVE  /\ b \notin {"crashes", "stalls", "cancels"}
         /\ \A d \in {"crashes", "stalls", "cancels"} : budget'[d] = 0
BY DEF TypeOK, MiscOK, QuietOK, Spend, Disturbances

\* What is left of the environment.
LEMMA QuietEnvironment ==
  ASSUME TypeOK, QuietOK, Environment
  PROVE  \/ LeaseLapses /\ ~(owner \in Inst /\ AtWork(owner)) /\ budget' = budget
         \/ TimerDue
         \/ \E i \in Inst : Renew(i)
<1>1. ~CancelRead /\ ~ExecutionTimeout BY SpendQuiet DEF CancelRead, ExecutionTimeout, Disturbances
<1>2. ~CancelWrite BY DEF CancelWrite, QuietOK
<1>3. \A i \in Inst : ~Crash(i) BY SpendQuiet DEF Crash, Disturbances
<1>4. \A i \in Inst : ~Restart(i) BY DEF Restart, QuietOK
<1>5. LeaseLapses => ~(owner \in Inst /\ AtWork(owner)) /\ budget' = budget
  BY SpendQuiet DEF LeaseLapses, Disturbances
<1> QED BY <1>1, <1>2, <1>3, <1>4, <1>5 DEF Environment

\* Where nothing may disturb the instances, nothing does.
LEMMA QuietStep == ASSUME IndInv, QuietOK, [Next]_vars PROVE QuietOK'
<1> USE DEF IndInv
<1>a. ASSUME budget' = budget, (preboot' => preboot), cancel' = cancel, up' = up,
             limits' = limits
      PROVE  QuietOK'
  <2>1. Serving' = Serving BY <1>a DEF Serving
  <2> QED BY <1>a, <2>1 DEF QuietOK
<1>b. ASSUME NEW b \in Disturbances, Spend(b), (preboot' => preboot), cancel' = cancel,
             up' = up, limits' = limits
      PROVE  QuietOK'
  <2>1. Serving' = Serving BY <1>b DEF Serving
  <2>2. \A d \in {"crashes", "stalls", "cancels"} : budget'[d] = 0 BY <1>b, SpendQuiet
  <2> QED BY <1>b, <2>1, <2>2 DEF QuietOK
<1> USE DEF store, row, job, lease, journal, inst, turn, own, mem, back, misc, past,
            TryLock, FreeLease, ReleaseOwned
<1>1. ASSUME NEW i \in Inst, TurnStep(i) PROVE QuietOK'
  <2>1. CASE Body(i)
    BY <1>a, <1>b, <2>1, SpendQuiet DEF Body, Disturbances
  <2>2. CASE ReadRun(i) \/ ProveOwnLease(i) \/ LockForTurn(i) \/ RefuseTurn(i) \/ ClearStamp(i)
    BY <1>a, <2>2 DEF ReadRun, ProveOwnLease, LockForTurn, RefuseTurn, ClearStamp
  <2>3. CASE ListReasons(i) \/ MarkStarted(i) \/ SaveStep(i) \/ SendStep(i)
    BY <1>a, <2>3 DEF ListReasons, MarkStarted, SaveStep, SendStep
  <2>4. CASE SettleCompleted(i) \/ SettleSuspended(i) \/ SettleBlocked(i)
    BY <1>a, <2>4 DEF SettleCompleted, SettleSuspended, SettleBlocked
  <2>5. CASE UnlockBlocked(i) \/ Release(i) \/ LetGo(i)
    BY <1>a, <2>5 DEF UnlockBlocked, Release, LetGo
  <2>6. CASE ScanReasons(i) \/ Unstamp(i) \/ Relist(i) \/ Restamp(i)
    BY <1>a, <2>6 DEF ScanReasons, Unstamp, Relist, Restamp
  <2> QED BY <1>1, <2>1, <2>2, <2>3, <2>4, <2>5, <2>6 DEF TurnStep
<1>2. ASSUME NEW i \in Inst, PollStep(i) \/ TimerStep(i) PROVE QuietOK'
  BY <1>2, <1>a
  DEF PollStep, PollList, PollLock, PollResume, TimerStep, RetryDroppedWake, RecheckWait
<1>3. ASSUME NEW i \in Inst, RecoverStep(i) PROVE QuietOK'
  BY <1>3, <1>a
  DEF RecoverStep, RecoverList, RecoverSelf, RecoverLock, RecoverCheck, RecoverResend,
      RecoverPark, RecoverCount, RecoverRepend, RecoverFree
<1>4. ASSUME NEW t \in Tasks, WakeStep(t) PROVE QuietOK'
  <2>1. CASE KeepReason(t) \/ StampFailed(t)
    BY <1>a, <1>b, <2>1 DEF KeepReason, StampFailed, Disturbances
  <2>2. CASE StampWake(t) \/ StampGone(t) \/ ProbeLease(t) \/ CheckWoken(t)
    BY <1>a, <2>2 DEF StampWake, StampGone, ProbeLease, CheckWoken
  <2> QED BY <1>4, <2>1, <2>2 DEF WakeStep
<1>5. ASSUME NEW k \in Steps, ResultStep(k) PROVE QuietOK'
  <2>1. CASE GraceOver(k) BY <1>b, <2>1 DEF GraceOver, Disturbances
  <2>2. ASSUME NEW i \in Inst, TakeResult(i, k) PROVE QuietOK'
    BY <1>a, <2>2 DEF TakeResult
  <2>3. CASE SettleResult(k) BY <1>a, <2>3 DEF SettleResult
  <2>4. CASE MarkOwed(k) \/ KeepOwed(k) \/ StampOwed(k)
    BY <1>a, <2>4 DEF MarkOwed, KeepOwed, StampOwed
  <2> QED BY <1>5, <2>1, <2>2, <2>3, <2>4 DEF ResultStep
<1>6. CASE Environment
  <2>1. ASSUME NEW i \in Inst, Renew(i) PROVE QuietOK' BY <1>a, <2>1 DEF Renew
  <2>2. CASE LeaseLapses /\ budget' = budget BY <1>a, <2>2 DEF LeaseLapses
  <2>3. CASE TimerDue BY <1>a, <2>3 DEF TimerDue
  <2> QED BY <1>6, <2>1, <2>2, <2>3, QuietEnvironment
<1>7. CASE UNCHANGED vars BY <1>7, <1>a DEF vars
<1> QED BY <1>1, <1>2, <1>3, <1>4, <1>5, <1>6, <1>7 DEF Next, Finished

\* The end of a turn, and a resume, at i leave the others' turns alone.
LEMMA CloseTurnAt ==
  ASSUME TypeOK, NEW i \in Inst, NEW again \in BOOLEAN, NEW ph, CloseTurn(i, again, ph)
  PROVE  /\ pc'[i] \in {"read", "idle"} /\ snap'[i] = NoSnap /\ ~fence'[i]
         /\ \A j \in Inst : j # i => /\ pc'[j] = pc[j] /\ snap'[j] = snap[j]
                                   /\ fence'[j] = fence[j] /\ goal'[j] = goal[j]
BY DEF TypeOK, TurnOK, CloseTurn

\* A turn that goes on leaves the others where they are.
LEMMA GotoAt ==
  ASSUME TypeOK, NEW i \in Inst, NEW p, Goto(i, p)
  PROVE  pc'[i] = p /\ \A j \in Inst : j # i => pc'[j] = pc[j]
BY DEF TypeOK, TurnOK, Goto

\* A resume that is asked for starts a turn of an instance at rest, or is
\* queued.
LEMMA RequestAt ==
  ASSUME TypeOK, NEW i \in Inst, Request(i)
  PROVE  /\ pc'[i] \in {pc[i], "read"} /\ (pc'[i] # pc[i] => pc[i] = "idle")
         /\ \A j \in Inst : j # i => pc'[j] = pc[j]
         /\ snap' = snap /\ fence' = fence /\ goal' = goal
BY DEF TypeOK, TurnOK, Request, mem

\* Who is up changes by a death or a restart only.
LEMMA UpStays ==
  ASSUME [Next]_vars, \A i \in Inst : ~Crash(i) /\ ~Restart(i) PROVE up' = up
<1> USE DEF inst
<1>1. ASSUME NEW i \in Inst, TurnStep(i) PROVE up' = up
  BY <1>1
  DEF TurnStep, ReadRun, ProveOwnLease, LockForTurn, RefuseTurn, ClearStamp, ListReasons,
      MarkStarted, Body, SaveStep, SendStep, SettleCompleted, SettleSuspended, SettleBlocked,
      UnlockBlocked, Release, LetGo, ScanReasons, Unstamp, Relist, Restamp
<1>2. ASSUME NEW i \in Inst, PollStep(i) \/ TimerStep(i) \/ RecoverStep(i) PROVE up' = up
  BY <1>2
  DEF PollStep, PollList, PollLock, PollResume, TimerStep, RetryDroppedWake, RecheckWait,
      RecoverStep, RecoverList, RecoverSelf, RecoverLock, RecoverCheck, RecoverResend,
      RecoverPark, RecoverCount, RecoverRepend, RecoverFree
<1>3. ASSUME NEW t \in Tasks, WakeStep(t) PROVE up' = up
  BY <1>3 DEF WakeStep, KeepReason, StampWake, StampGone, StampFailed, ProbeLease, CheckWoken
<1>4. ASSUME NEW k \in Steps, ResultStep(k) PROVE up' = up
  BY <1>4 DEF ResultStep, TakeResult, SettleResult, GraceOver, MarkOwed, KeepOwed, StampOwed
<1>5. CASE Environment
  BY <1>5 DEF Environment, CancelRead, CancelWrite, ExecutionTimeout, LeaseLapses, TimerDue, Renew
<1> QED BY <1>1, <1>2, <1>3, <1>4, <1>5 DEF Next, Finished, vars

\* A handler that reads the run is one that a step has just started.
LEMMA NoReaders ==
  ASSUME TypeOK, NEW k \in Steps, NEW ph, ph # "read"
  PROVE  /\ \A i \in Inst, again \in BOOLEAN :
                CloseTurn(i, again, ph) => (res'[k].ph = "read" => res'[k] = res[k])
         /\ \A S : HandlersTo(S, ph) => (res'[k].ph = "read" => res'[k] = res[k])
         /\ \A S : Send(S) => (res'[k].ph = "read" => res'[k] = res[k])
<1> USE DEF TypeOK, MiscOK, Results
<1>1. \A i \in Inst, again \in BOOLEAN :
         CloseTurn(i, again, ph) => (res'[k].ph = "read" => res'[k] = res[k])
  BY DEF CloseTurn, HandlersAfter
<1>2. \A S : HandlersTo(S, ph) => (res'[k].ph = "read" => res'[k] = res[k])
  BY DEF HandlersTo
<1>3. \A S : Send(S) => (res'[k].ph = "read" => res'[k] = res[k])
  BY DEF Send, Sent
<1> QED BY <1>1, <1>2, <1>3

\* What an instance does, it does while it is up.
LEMMA OnlyUpStep == ASSUME IndInv, OnlyUp, [Next]_vars PROVE OnlyUp'
<1> USE RunTurnsAssumption DEF IndInv, inst, turn, own, back, mem, misc, past
<1>c. ASSUME NEW i \in Inst, Crash(i) PROVE OnlyUp'
  <2>1. \A j \in Inst : IF j = i THEN /\ pc'[j] = "idle" /\ poll'[j] = "idle"
                                      /\ timer'[j] = "off" /\ recheck'[j] = {}
                        ELSE /\ pc'[j] = pc[j] /\ poll'[j] = poll[j] /\ up'[j] = up[j]
                             /\ timer'[j] = timer[j] /\ recheck'[j] = recheck[j]
    BY <1>c DEF Crash, TypeOK, TurnOK, BackOK
  <2>2. \A t \in Tasks : task'[t].ph # "none" => task'[t] = task[t] /\ task[t].at # i
    BY <1>c DEF Crash, FreeTask
  <2>3. \A k \in Steps : res'[k].ph = "read" => res'[k] = res[k] /\ res[k].at # i
    BY <1>c DEF Crash
  <2>4. \A t \in Tasks : task[t].ph # "none" => task[t].at \in Inst BY DEF WorkOK
  <2> QED BY <2>1, <2>2, <2>3, <2>4 DEF OnlyUp
<1>d. ASSUME NEW i \in Inst, Restart(i) PROVE OnlyUp'
  BY <1>d DEF Restart, OnlyUp, TypeOK, BackOK, WorkOK
<1> SUFFICES ASSUME \A i \in Inst : ~Crash(i) /\ ~Restart(i) PROVE OnlyUp'
  BY <1>c, <1>d
<1>0. up' = up BY UpStays
<1>a. ASSUME NEW i \in Inst, up[i],
             \A j \in Inst : j # i => /\ pc'[j] = pc[j] /\ poll'[j] = poll[j]
                                      /\ timer'[j] = timer[j] /\ recheck'[j] = recheck[j],
             \A t \in Tasks : task'[t].ph # "none" =>
                  task'[t].at = i \/ (task[t].ph # "none" /\ task'[t].at = task[t].at),
             \A k \in Steps : res'[k].ph = "read" =>
                  res'[k].at = i \/ (res[k].ph = "read" /\ res'[k].at = res[k].at)
      PROVE  OnlyUp'
  BY <1>0, <1>a DEF OnlyUp
<1>b. ASSUME UNCHANGED <<pc, poll, timer, recheck>>,
             \A t \in Tasks : task'[t].ph # "none" => task[t].ph # "none" /\ task'[t].at = task[t].at,
             \A k \in Steps : res'[k].ph = "read" => res[k].ph = "read" /\ res'[k].at = res[k].at
      PROVE  OnlyUp'
  BY <1>0, <1>b DEF OnlyUp
<1>1. ASSUME NEW i \in Inst, TurnStep(i) PROVE OnlyUp'
  <2>1. pc[i] # "idle"
    BY <1>1
    DEF TurnStep, ReadRun, ProveOwnLease, LockForTurn, RefuseTurn, ClearStamp, ListReasons,
        MarkStarted, Body, SaveStep, SendStep, SettleCompleted, SettleSuspended, SettleBlocked,
        UnlockBlocked, Release, LetGo, ScanReasons, Unstamp, Relist, Restamp
  <2>2. up[i] BY <2>1 DEF OnlyUp
  <2>3. \A j \in Inst : j # i => pc'[j] = pc[j]
    BY <1>1, CloseTurnAt, GotoAt
    DEF TurnStep, ReadRun, ProveOwnLease, LockForTurn, RefuseTurn, ClearStamp, ListReasons,
        MarkStarted, Body, SaveStep, SendStep, SettleCompleted, SettleSuspended, SettleBlocked,
        UnlockBlocked, Release, LetGo, ScanReasons, Unstamp, Relist, Restamp, EndTurn
  <2>4. UNCHANGED <<poll, timer>> /\ \A j \in Inst : j # i => recheck'[j] = recheck[j]
    <3>1. CASE SettleSuspended(i) BY <3>1 DEF SettleSuspended, TypeOK, BackOK
    <3>2. CASE ~SettleSuspended(i)
      BY <1>1, <3>2
      DEF TurnStep, ReadRun, ProveOwnLease, LockForTurn, RefuseTurn, ClearStamp, ListReasons,
          MarkStarted, Body, SaveStep, SendStep, SettleCompleted, SettleBlocked,
          UnlockBlocked, Release, LetGo, ScanReasons, Unstamp, Relist, Restamp
    <3> QED BY <3>1, <3>2
  <2>5. \A t \in Tasks : task'[t] = task[t] \/ task'[t].at = i
    <3>1. CASE RefuseTurn(i) BY <3>1 DEF RefuseTurn, TypeOK, MiscOK
    <3>2. CASE ~RefuseTurn(i)
      BY <1>1, <3>2
      DEF TurnStep, ReadRun, ProveOwnLease, LockForTurn, ClearStamp, ListReasons, MarkStarted,
          Body, SaveStep, SendStep, SettleCompleted, SettleSuspended, SettleBlocked,
          UnlockBlocked, Release, LetGo, ScanReasons, Unstamp, Relist, Restamp
    <3> QED BY <3>1, <3>2
  <2>6. \A k \in Steps : res'[k].ph = "read" => res'[k] = res[k]
    <3>1. res' = res \/ (\E again \in BOOLEAN : CloseTurn(i, again, "acked"))
             \/ CloseTurn(i, FALSE, "refused") \/ (\E S : Send(S))
      BY <1>1
      DEF TurnStep, ReadRun, ProveOwnLease, LockForTurn, RefuseTurn, ClearStamp, ListReasons,
          MarkStarted, Body, SaveStep, SendStep, SettleCompleted, SettleSuspended, SettleBlocked,
          UnlockBlocked, Release, LetGo, ScanReasons, Unstamp, Relist, Restamp, EndTurn
    <3> QED BY <3>1, NoReaders
  <2> QED BY <1>a, <2>2, <2>3, <2>4, <2>5, <2>6
<1>2. ASSUME NEW i \in Inst, PollStep(i) PROVE OnlyUp'
  <2>1. up[i] BY <1>2 DEF PollStep, PollList, PollLock, PollResume, OnlyUp
  <2>2. \A j \in Inst : j # i => pc'[j] = pc[j] /\ poll'[j] = poll[j]
    BY <1>2, RequestAt DEF PollStep, PollList, PollLock, PollResume, TypeOK, BackOK
  <2>3. UNCHANGED <<timer, recheck, task>> BY <1>2 DEF PollStep, PollList, PollLock, PollResume
  <2>4. \A k \in Steps : res'[k].ph = "read" => res'[k] = res[k]
    <3>1. res' = res \/ (\E S : Send(S)) BY <1>2 DEF PollStep, PollList, PollLock, PollResume
    <3> QED BY <3>1, NoReaders
  <2> QED BY <1>a, <2>1, <2>2, <2>3, <2>4
<1>3. ASSUME NEW i \in Inst, TimerStep(i) PROVE OnlyUp'
  <2>1. up[i] BY <1>3 DEF TimerStep, RetryDroppedWake, RecheckWait, OnlyUp
  <2>2. \A j \in Inst : j # i => /\ pc'[j] = pc[j] /\ timer'[j] = timer[j]
                                 /\ recheck'[j] = recheck[j]
    BY <1>3, RequestAt DEF TimerStep, RetryDroppedWake, RecheckWait, TypeOK, BackOK
  <2>3. UNCHANGED <<poll, res>> BY <1>3 DEF TimerStep, RetryDroppedWake, RecheckWait
  <2>4. \A t \in Tasks : task'[t] = task[t] \/ task'[t].at = i
    BY <1>3 DEF TimerStep, RetryDroppedWake, RecheckWait, TypeOK, MiscOK
  <2> QED BY <1>a, <2>1, <2>2, <2>3, <2>4
<1>4. ASSUME NEW i \in Inst, RecoverStep(i) PROVE OnlyUp'
  <2>1. UNCHANGED <<pc, poll, timer, recheck, task>>
    BY <1>4
    DEF RecoverStep, RecoverList, RecoverSelf, RecoverLock, RecoverCheck, RecoverResend,
        RecoverPark, RecoverCount, RecoverRepend, RecoverFree
  <2>2. \A k \in Steps : res'[k].ph = "read" => res'[k] = res[k]
    <3>1. res' = res \/ (\E S : Send(S))
      BY <1>4
      DEF RecoverStep, RecoverList, RecoverSelf, RecoverLock, RecoverCheck, RecoverResend,
          RecoverPark, RecoverCount, RecoverRepend, RecoverFree
    <3> QED BY <3>1, NoReaders
  <2> QED BY <1>b, <2>1, <2>2
<1>5. ASSUME NEW t \in Tasks, WakeStep(t) PROVE OnlyUp'
  <2> DEFINE i == task[t].at
  <2>1. i \in Inst /\ up[i]
    BY <1>5
    DEF WakeStep, KeepReason, StampWake, StampGone, StampFailed, ProbeLease, CheckWoken, WorkOK,
        OnlyUp
  <2>2. \A j \in Inst : j # i => pc'[j] = pc[j]
    BY <1>5, <2>1, RequestAt
    DEF WakeStep, KeepReason, StampWake, StampGone, StampFailed, ProbeLease, CheckWoken
  <2>3. UNCHANGED <<poll, recheck>> /\ \A j \in Inst : j # i => timer'[j] = timer[j]
    BY <1>5
    DEF WakeStep, KeepReason, StampWake, StampGone, StampFailed, ProbeLease, CheckWoken, Arm,
        TypeOK, BackOK
  <2>4. \A u \in Tasks : task'[u].ph # "none" => task'[u].at = task[u].at
                                                 /\ (task[u].ph # "none" \/ task'[u].at = i)
    <3> USE DEF TypeOK, MiscOK, Wakes, FreeTask
    <3>1. \A u \in Tasks : u # t => task'[u] = task[u]
      BY <1>5
      DEF WakeStep, KeepReason, StampWake, StampGone, StampFailed, ProbeLease, CheckWoken
    <3>2. task'[t].ph # "none" => task'[t].at = task[t].at
      <4>1. CASE KeepReason(t) BY <4>1 DEF KeepReason
      <4>2. CASE StampWake(t) BY <4>2 DEF StampWake
      <4>3. CASE ProbeLease(t) BY <4>3 DEF ProbeLease
      <4>4. CASE StampGone(t) \/ StampFailed(t) \/ CheckWoken(t)
        BY <4>4 DEF StampGone, StampFailed, CheckWoken
      <4> QED BY <1>5, <4>1, <4>2, <4>3, <4>4 DEF WakeStep
    <3> QED BY <3>1, <3>2
  <2>5. \A k \in Steps : res'[k].ph = "read" => res'[k] = res[k]
    <3>1. res' = res \/ HandlersTo(task[t].for, "acked") \/ HandlersTo(task[t].for, "mark")
      BY <1>5
      DEF WakeStep, KeepReason, StampWake, StampGone, StampFailed, ProbeLease, CheckWoken
    <3> QED BY <3>1, NoReaders
  <2> HIDE DEF i
  <2> QED BY <1>a, <2>1, <2>2, <2>3, <2>4, <2>5
<1>6. ASSUME NEW k \in Steps, ResultStep(k) PROVE OnlyUp'
  <2>1. ASSUME NEW i \in Inst, TakeResult(i, k) PROVE OnlyUp'
    <3>1. up[i] BY <2>1 DEF TakeResult
    <3>2. UNCHANGED <<pc, poll, timer, recheck, task>> BY <2>1 DEF TakeResult
    <3>3. \A m \in Steps : res'[m].ph = "read" =>
             res'[m].at = i \/ (res[m].ph = "read" /\ res'[m].at = res[m].at)
      <4>1. CASE Ended BY <2>1, <4>1, NoReaders DEF TakeResult
      <4>2. CASE ~Ended BY <2>1, <4>2 DEF TakeResult, TypeOK, MiscOK
      <4> QED BY <4>1, <4>2
    <3> QED BY <1>a, <3>1, <3>2, <3>3
  <2>2. CASE SettleResult(k)
    <3> DEFINE i == res[k].at
    <3>1. i \in Inst /\ up[i] BY <2>2 DEF SettleResult, OnlyUp
    <3>2. \A j \in Inst : j # i => pc'[j] = pc[j] BY <2>2, <3>1, RequestAt DEF SettleResult
    <3>3. UNCHANGED <<poll, timer, recheck, task>> BY <2>2 DEF SettleResult
    <3>4. \A m \in Steps : res'[m].ph = "read" => res'[m] = res[m]
      <4>1. \E ph : ph # "read" /\ HandlersTo({k}, ph)
        BY <2>2 DEF SettleResult
      <4> QED BY <4>1, NoReaders
    <3> HIDE DEF i
    <3> QED BY <1>a, <3>1, <3>2, <3>3, <3>4
  <2>3. CASE GraceOver(k) \/ MarkOwed(k) \/ KeepOwed(k) \/ StampOwed(k)
    <3>1. UNCHANGED <<pc, poll, timer, recheck, task>>
      BY <2>3 DEF GraceOver, MarkOwed, KeepOwed, StampOwed
    <3>2. \E ph \in {"mark", "acked", "stamp"} : HandlersTo({k}, ph)
      BY <2>3 DEF GraceOver, MarkOwed, KeepOwed, StampOwed
    <3>3. \A m \in Steps : res'[m].ph = "read" => res'[m] = res[m] BY <3>2, NoReaders
    <3> QED BY <1>b, <3>1, <3>3
  <2> QED BY <1>6, <2>1, <2>2, <2>3 DEF ResultStep
<1>7. CASE Environment
  <2>1. UNCHANGED <<pc, poll, timer, recheck, task, res>>
    BY <1>7
    DEF Environment, CancelRead, CancelWrite, ExecutionTimeout, LeaseLapses, TimerDue, Renew
  <2> QED BY <1>b, <2>1
<1>8. CASE UNCHANGED vars BY <1>b, <1>8 DEF vars
<1> QED BY <1>1, <1>2, <1>3, <1>4, <1>5, <1>6, <1>7, <1>8 DEF Next, Finished

\* What a turn past the lock was started from it has read itself.
LEMMA StartStep == ASSUME IndInv, OnlyUp, StartOK, [Next]_vars PROVE StartOK'
<1> USE DEF IndInv, inst, turn, own, back, mem, misc, past
<1>a. ASSUME \A j \in Inst : pc'[j] = "start" => pc[j] = "start" /\ snap'[j] = snap[j]
      PROVE  StartOK'
  BY <1>a DEF StartOK
<1>1. ASSUME NEW i \in Inst, TurnStep(i) PROVE StartOK'
  <2>1. CASE ReadRun(i)
    <3>1. \A p : Goto(i, p) => pc'[i] = p /\ \A j \in Inst : j # i => pc'[j] = pc[j]
      BY GotoAt
    <3>2. pc'[i] # "start"
      <4>1. CASE status \in Terminal BY <2>1, <4>1, CloseTurnAt DEF ReadRun, EndTurn
      <4>2. CASE status \notin Terminal
        <5>1. \E p \in {"lock", "clear", "own"} : Goto(i, p) BY <2>1, <4>2 DEF ReadRun
        <5> QED BY <3>1, <5>1
      <4> QED BY <4>1, <4>2
    <3>3. \A j \in Inst : j # i => pc'[j] = pc[j] /\ snap'[j] = snap[j]
      <4>1. CASE status \in Terminal BY <2>1, <4>1, CloseTurnAt DEF ReadRun, EndTurn
      <4>2. CASE status \notin Terminal
        <5>1. \E p \in {"lock", "clear", "own"} : Goto(i, p) BY <2>1, <4>2 DEF ReadRun
        <5>2. \E v : snap' = [snap EXCEPT ![i] = v] BY <2>1, <4>2 DEF ReadRun
        <5> QED BY <3>1, <5>1, <5>2 DEF TypeOK, TurnOK
      <4> QED BY <4>1, <4>2
    <3> QED BY <1>a, <3>2, <3>3
  <2>2. CASE ClearStamp(i) \/ ListReasons(i)
    <3>1. snap' = snap BY <2>2 DEF ClearStamp, ListReasons
    <3>2. \E p \in {"reasons", AfterClear(i)} : Goto(i, p)
      BY <2>2 DEF ClearStamp, ListReasons
    <3>3. pc'[i] = "start" => snap[i].status = "pending"
      BY <3>2, GotoAt DEF AfterClear
    <3>4. \A j \in Inst : j # i => pc'[j] = pc[j] BY <3>2, GotoAt
    <3> QED BY <3>1, <3>3, <3>4 DEF StartOK
  <2>3. CASE RefuseTurn(i) \/ Release(i) \/ LetGo(i) \/ ScanReasons(i) \/ Relist(i) \/ Restamp(i)
    <3>1. (\E again \in BOOLEAN : \E ph : CloseTurn(i, again, ph))
             \/ (snap' = snap /\ \E p \in {"scan", "unstamp", "restamp", "letgo"} : Goto(i, p))
      BY <2>3 DEF RefuseTurn, Release, LetGo, ScanReasons, Relist, Restamp, EndTurn
    <3> QED BY <1>a, <3>1, CloseTurnAt, GotoAt
  <2>4. CASE \/ ProveOwnLease(i) \/ LockForTurn(i) \/ MarkStarted(i) \/ Body(i) \/ SaveStep(i)
             \/ SendStep(i) \/ SettleCompleted(i) \/ SettleSuspended(i) \/ SettleBlocked(i)
             \/ UnlockBlocked(i) \/ Unstamp(i)
    <3>1. snap' = snap
      BY <2>4
      DEF ProveOwnLease, LockForTurn, MarkStarted, Body, SaveStep, SendStep, SettleCompleted,
          SettleSuspended, SettleBlocked, UnlockBlocked, Unstamp
    <3>2. \E p \in {"lock", "clear", "body", "settle", "save", "send", "release", "letgo", "unlock",
                    "relist"} : Goto(i, p)
      BY <2>4
      DEF ProveOwnLease, LockForTurn, MarkStarted, Body, SaveStep, SendStep, SettleCompleted,
          SettleSuspended, SettleBlocked, UnlockBlocked, Unstamp
    <3> QED BY <1>a, <3>1, <3>2, GotoAt
  <2> QED BY <1>1, <2>1, <2>2, <2>3, <2>4 DEF TurnStep
<1>2. CASE snap' = snap /\ (pc' = pc \/ \E i \in Inst : Request(i))
  BY <1>2, <1>a, RequestAt
<1>3. ASSUME NEW i \in Inst, PollStep(i) \/ TimerStep(i) PROVE StartOK'
  BY <1>2, <1>3, RequestAt
  DEF PollStep, PollList, PollLock, PollResume, TimerStep, RetryDroppedWake, RecheckWait
<1>4. ASSUME NEW i \in Inst, RecoverStep(i) PROVE StartOK'
  BY <1>2, <1>4
  DEF RecoverStep, RecoverList, RecoverSelf, RecoverLock, RecoverCheck, RecoverResend, RecoverPark,
      RecoverCount, RecoverRepend, RecoverFree
<1>5. ASSUME NEW t \in Tasks, WakeStep(t) PROVE StartOK'
  BY <1>2, <1>5, RequestAt
  DEF WakeStep, KeepReason, StampWake, StampGone, StampFailed, ProbeLease, CheckWoken, WorkOK
<1>6. ASSUME NEW k \in Steps, ResultStep(k) PROVE StartOK'
  <2>1. CASE SettleResult(k)
    <3>1. res[k].at \in Inst BY <2>1 DEF SettleResult, OnlyUp
    <3> QED BY <1>2, <2>1, <3>1, RequestAt DEF SettleResult
  <2>2. CASE ~SettleResult(k)
    BY <1>2, <1>6, <2>2 DEF ResultStep, TakeResult, GraceOver, MarkOwed, KeepOwed, StampOwed
  <2> QED BY <2>1, <2>2
<1>7. CASE Environment
  <2>1. ASSUME NEW i \in Inst, Crash(i) PROVE StartOK'
    <3>1. pc'[i] = "idle" /\ \A j \in Inst : j # i => pc'[j] = pc[j] /\ snap'[j] = snap[j]
      BY <2>1 DEF Crash, TypeOK, TurnOK
    <3> QED BY <1>a, <3>1
  <2>2. CASE ~\E i \in Inst : Crash(i)
    BY <1>2, <1>7, <2>2
    DEF Environment, CancelRead, CancelWrite, ExecutionTimeout, LeaseLapses, TimerDue, Restart, Renew
  <2> QED BY <2>1, <2>2
<1>8. CASE UNCHANGED vars BY <1>2, <1>8 DEF vars
<1> QED BY <1>1, <1>3, <1>4, <1>5, <1>6, <1>7, <1>8 DEF Next, Finished

\* Only a turn that settles adds to what the settled turns have seen.
LEMMA SeenMoves ==
  ASSUME IndInv, [Next]_vars
  PROVE  \/ seen' = seen
         \/ \E i \in Inst : /\ pc[i] = "settle" /\ goal[i].kind \in {"complete", "suspend", "block"}
                            /\ Observed(i)
<1> USE DEF misc, past
<1> DEFINE Settles(i) == /\ pc[i] = "settle" /\ goal[i].kind \in {"complete", "suspend", "block"}
                         /\ Observed(i)
<1> SUFFICES seen' = seen \/ \E i \in Inst : Settles(i) OBVIOUS
<1>1. ASSUME NEW i \in Inst, TurnStep(i) PROVE seen' = seen \/ Settles(i)
  BY <1>1
  DEF TurnStep, ReadRun, ProveOwnLease, LockForTurn, RefuseTurn, ClearStamp, ListReasons,
      MarkStarted, Body, SaveStep, SendStep, SettleCompleted, SettleSuspended, SettleBlocked,
      UnlockBlocked, Release, LetGo, ScanReasons, Unstamp, Relist, Restamp, Outcome
<1> HIDE DEF Settles
<1>2. ASSUME NEW i \in Inst, PollStep(i) \/ TimerStep(i) \/ RecoverStep(i) PROVE seen' = seen
  BY <1>2
  DEF PollStep, PollList, PollLock, PollResume, TimerStep, RetryDroppedWake, RecheckWait,
      RecoverStep, RecoverList, RecoverSelf, RecoverLock, RecoverCheck, RecoverResend,
      RecoverPark, RecoverCount, RecoverRepend, RecoverFree
<1>3. ASSUME NEW t \in Tasks, WakeStep(t) PROVE seen' = seen
  BY <1>3 DEF WakeStep, KeepReason, StampWake, StampGone, StampFailed, ProbeLease, CheckWoken
<1>4. ASSUME NEW k \in Steps, ResultStep(k) PROVE seen' = seen
  BY <1>4 DEF ResultStep, TakeResult, SettleResult, GraceOver, MarkOwed, KeepOwed, StampOwed
<1>5. ASSUME Environment PROVE seen' = seen
  BY <1>5 DEF Environment, CancelRead, CancelWrite, ExecutionTimeout, LeaseLapses, TimerDue,
              Crash, Restart, Renew
<1> QED BY <1>1, <1>2, <1>3, <1>4, <1>5 DEF Next, Finished, vars

\* It is never less.
LEMMA SeenGrows == ASSUME IndInv, [Next]_vars PROVE seen' >= seen /\ seen' \in Nat
<1>1. seen \in Nat /\ \A i \in Inst : goal[i].step \in Int
  BY RunTurnsAssumption DEF IndInv, TypeOK, TurnOK, Goals, MiscOK
<1> QED BY <1>1, SeenMoves DEF Observed

\* The frame of the lemmas below: what decides who has the lease.
Still   == UNCHANGED <<status, owner, live, snap, fence, rec, seen>>

\* A task probes only a run that was started; one that goes on claiming is the same.
TasksGoOn ==
    \A t \in Tasks : /\ Claims(t)' => task'[t] = task[t]
                     /\ task'[t].ph \in {"probe", "check"} =>
                          task[t].ph \in {"probe", "check"} \/ status # "pending"

\* Which places are under the lease.
LEMMA HeldBits ==
  /\ {"body", "save", "send", "settle"} \subseteq UnderLease
  /\ "idle" \notin UnderLease /\ "read" \notin UnderLease /\ "lock" \notin UnderLease
  /\ "release" \notin UnderLease
  /\ {"own", "clear", "reasons", "start"} \subseteq UnderLease
  /\ {"letgo", "scan", "unstamp", "relist", "restamp", "unlock"} \subseteq UnderLease
BY DEF UnderLease, InBody

\* Steps that touch neither the lease nor a turn, or ask for one.
LEMMA CalmStill ==
  ASSUME IndInv, Calm, Still, TasksGoOn, pc' = pc \/ \E i \in Inst : Request(i)
  PROVE  Calm'
<1> USE HeldBits DEF Calm, Still, IndInv
<1>0. \A j \in Inst : pc'[j] = pc[j] \/ (pc[j] = "idle" /\ pc'[j] = "read")
  BY RequestAt
<1>1. NoRecovery' BY DEF NoRecovery
<1>2. FenceOK' BY <1>0 DEF FenceOK
<1>3. LeaseHeld' BY <1>0 DEF LeaseHeld
<1>4. RunningHeld' BY <1>0 DEF RunningHeld
<1>5. Unended' BY DEF Unended
<1>6. ProbedRan' BY DEF ProbedRan, TasksGoOn
<1>7. \A t \in Tasks : Claims(t)' => Claims(t) /\ task'[t] = task[t] /\ task[t].at \in Inst
  BY DEF TasksGoOn, Claims, WorkOK
<1>8. ClaimIsParked' BY <1>0, <1>7 DEF ClaimIsParked, Parked
<1>9. \A j \in Inst : WillStart(j)' => WillStart(j) /\ pc'[j] = pc[j] BY <1>0 DEF WillStart
<1>10. ClaimBlocks' BY <1>7, <1>9 DEF ClaimBlocks
<1>11. OneClaim' BY <1>7, <1>9 DEF OneClaim
<1> QED BY <1>1, <1>2, <1>3, <1>4, <1>5, <1>6, <1>8, <1>10, <1>11

\* A turn goes on under its lease.
LEMMA CalmOn ==
  ASSUME IndInv, Calm, Still, TasksGoOn, NEW i \in Inst, NEW p \in UnderLease, Goto(i, p),
         pc[i] \in UnderLease,
         pc[i] \in {"body", "save", "send", "settle"} => p \in {"body", "save", "send", "settle"},
         p \in {"own", "clear", "reasons", "start"} =>
            pc[i] \in {"own", "clear", "reasons", "start"}
  PROVE  Calm'
<1> USE HeldBits DEF Calm, Still, IndInv
<1>0. pc'[i] = p /\ \A j \in Inst : j # i => pc'[j] = pc[j] BY GotoAt
<1>1. NoRecovery' BY DEF NoRecovery
<1>2. FenceOK' BY <1>0 DEF FenceOK
<1>3. LeaseHeld' BY <1>0 DEF LeaseHeld
<1>4. RunningHeld' BY <1>0 DEF RunningHeld
<1>5. Unended' BY DEF Unended
<1>6. ProbedRan' BY DEF ProbedRan, TasksGoOn
<1>7. \A t \in Tasks : Claims(t)' => Claims(t) /\ task'[t] = task[t] /\ task[t].at \in Inst
  BY DEF TasksGoOn, Claims, WorkOK
<1>8. ClaimIsParked' BY <1>0, <1>7 DEF ClaimIsParked, Parked
<1>9. \A j \in Inst : WillStart(j)' => WillStart(j) /\ (j # i => pc'[j] = pc[j])
  BY <1>0 DEF WillStart
<1>10. \A t \in Tasks : Claims(t)' /\ WillStart(i)' => task[t].at # i
  <2> SUFFICES ASSUME NEW t \in Tasks, Claims(t)', task[t].at = i, WillStart(i)' PROVE FALSE
    OBVIOUS
  <2>1. Claims(t) /\ WillStart(i) BY <1>7, <1>9
  <2> QED BY <2>1 DEF ClaimBlocks
<1>11. ClaimBlocks' BY <1>7, <1>9, <1>10 DEF ClaimBlocks
<1>12. OneClaim' BY <1>7, <1>9 DEF OneClaim
<1> QED BY <1>1, <1>2, <1>3, <1>4, <1>5, <1>6, <1>8, <1>11, <1>12

\* A turn ends, with its lease or without.
LEMMA CalmEnds ==
  ASSUME IndInv, Calm, TasksGoOn, NEW i \in Inst, NEW again \in BOOLEAN, NEW ph,
         CloseTurn(i, again, ph), UNCHANGED <<status, rec, seen>>,
         pc[i] \notin {"body", "save", "send", "settle"},
         UNCHANGED lease \/ ReleaseOwned(i)
  PROVE  Calm'
<1> USE HeldBits DEF Calm, IndInv
<1>0. /\ pc'[i] \in {"read", "idle"} /\ ~fence'[i]
      /\ \A j \in Inst : j # i => pc'[j] = pc[j] /\ snap'[j] = snap[j] /\ fence'[j] = fence[j]
  BY CloseTurnAt
<1>a. \A j \in Inst : j # i /\ owner = j /\ live => owner' = j /\ live'
  BY DEF ReleaseOwned, lease
<1>1. NoRecovery' BY DEF NoRecovery
<1>2. FenceOK' BY <1>0 DEF FenceOK
<1>3. LeaseHeld' BY <1>0, <1>a DEF LeaseHeld
<1>4. RunningHeld' BY <1>0 DEF RunningHeld
<1>5. Unended' BY DEF Unended
<1>6. ProbedRan' BY DEF ProbedRan, TasksGoOn
<1>7. \A t \in Tasks : Claims(t)' => Claims(t) /\ task'[t] = task[t] /\ task[t].at \in Inst
  BY DEF TasksGoOn, Claims, WorkOK
<1>8. ClaimIsParked' BY <1>0, <1>7 DEF ClaimIsParked, Parked
<1>9. \A j \in Inst : WillStart(j)' => WillStart(j) /\ j # i /\ pc'[j] = pc[j]
  BY <1>0 DEF WillStart
<1>10. ClaimBlocks' BY <1>7, <1>9, <1>a DEF ClaimBlocks
<1>11. OneClaim' BY <1>7, <1>9 DEF OneClaim
<1> QED BY <1>1, <1>2, <1>3, <1>4, <1>5, <1>6, <1>8, <1>10, <1>11

\* A turn reads the run: with its lease if that is the instance's own.
LEMMA CalmRead == ASSUME IndInv, Calm, NEW i \in Inst, ReadRun(i) PROVE Calm'
<1> USE HeldBits DEF Calm, IndInv, store, row, job, lease, journal, back, past, misc
<1>0. status \notin Terminal BY DEF Unended, Terminal
<1>1. PICK p \in {"lock", "own", "clear"} :
         /\ Goto(i, p)
         /\ p # "lock" => owner = i /\ live
         /\ snap' = [snap EXCEPT ![i] = [status |-> status, mine |-> owner = i /\ live,
                                         stamp |-> stamp]]
         /\ UNCHANGED <<status, owner, live, fence, rec, task, seen>>
  BY <1>0 DEF ReadRun
<1>2. /\ pc'[i] = p /\ snap'[i].status = status
      /\ \A j \in Inst : j # i => pc'[j] = pc[j] /\ snap'[j] = snap[j]
  BY <1>1, GotoAt DEF TypeOK, TurnOK
<1>3. pc[i] = "read" BY DEF ReadRun
<1>4. NoRecovery' BY <1>1 DEF NoRecovery
<1>5. FenceOK' BY <1>1, <1>2, <1>3 DEF FenceOK
<1>6. LeaseHeld' BY <1>1, <1>2 DEF LeaseHeld
<1>7. RunningHeld' BY <1>1, <1>2, <1>3 DEF RunningHeld
<1>8. Unended' /\ ProbedRan' BY <1>1 DEF Unended, ProbedRan
<1>9. \A t \in Tasks : Claims(t)' => Claims(t) /\ task'[t] = task[t] /\ task[t].at \in Inst
  BY <1>1 DEF Claims, WorkOK
<1>10. \A t \in Tasks : Claims(t) => status # "pending" BY DEF ProbedRan, Claims
<1>11. p # "lock" => status # "running"
  <2> SUFFICES ASSUME p # "lock", status = "running" PROVE FALSE OBVIOUS
  <2>1. PICK j \in Inst : pc[j] \in {"body", "save", "send", "settle"} BY DEF RunningHeld
  <2> QED BY <1>1, <1>3, <2>1 DEF LeaseHeld
<1>12. ClaimIsParked'
  <2> SUFFICES ASSUME NEW t \in Tasks, Claims(t)', pc'[task'[t].at] \in UnderLease
               PROVE  Parked'
    BY DEF ClaimIsParked
  <2>1. Claims(t) /\ task'[t] = task[t] /\ task[t].at \in Inst BY <1>9
  <2>2. CASE task[t].at = i
    BY <1>1, <1>2, <1>10, <1>11, <2>1, <2>2 DEF Parked, Unended
  <2>3. CASE task[t].at # i BY <1>1, <1>2, <2>1, <2>3 DEF ClaimIsParked, Parked
  <2> QED BY <2>2, <2>3
<1>13. \A t \in Tasks : Claims(t)' /\ WillStart(task[t].at)'
                           => task[t].at # i /\ WillStart(task[t].at)
  <2> SUFFICES ASSUME NEW t \in Tasks, Claims(t)', WillStart(task[t].at)'
               PROVE  task[t].at # i /\ WillStart(task[t].at)
    OBVIOUS
  <2>1. Claims(t) /\ task'[t] = task[t] /\ task[t].at \in Inst BY <1>9
  <2>2. task[t].at # i BY <1>2, <1>10, <2>1 DEF WillStart
  <2> QED BY <1>2, <2>1, <2>2 DEF WillStart
<1>14. ClaimBlocks' BY <1>1, <1>2, <1>9, <1>13 DEF ClaimBlocks
<1>15. OneClaim' BY <1>9, <1>13 DEF OneClaim
<1> QED BY <1>4, <1>5, <1>6, <1>7, <1>8, <1>12, <1>14, <1>15

\* A lease that nobody has is taken by i: for a turn, for the poll, or to probe.
LEMMA CalmTakes ==
  ASSUME IndInv, Calm, NEW i \in Inst, TryLock(i), UNCHANGED <<status, snap, fence, rec, seen>>,
         \/ Goto(i, "clear") /\ pc[i] = "lock" /\ task' = task
         \/ pc' = pc /\ task' = task
         \/ pc' = pc /\ \E t \in Tasks : /\ task[t].ph = "probe" /\ task[t].at = i
                                         /\ task' = [task EXCEPT ![t].ph = "check"]
  PROVE  Calm'
<1> USE HeldBits DEF Calm, IndInv
<1>1. ~live /\ owner' = i /\ live' BY DEF TryLock
<1>2. \A j \in Inst : pc[j] \notin UnderLease BY <1>1 DEF LeaseHeld
<1>3. status # "running" BY <1>2 DEF RunningHeld
<1>4. /\ \A j \in Inst : j # i => pc'[j] = pc[j]
      /\ pc'[i] = pc[i] \/ (pc[i] = "lock" /\ pc'[i] = "clear" /\ task' = task)
  BY GotoAt
<1>5. \A t \in Tasks : ~(Claims(t) /\ WillStart(task[t].at)) BY <1>1 DEF ClaimBlocks
<1>6. NoRecovery' BY DEF NoRecovery
<1>7. FenceOK' BY <1>4 DEF FenceOK
<1>8. LeaseHeld' BY <1>1, <1>2, <1>4 DEF LeaseHeld
<1>9. RunningHeld' /\ Unended' BY <1>3 DEF RunningHeld, Unended
<1>10. \A t \in Tasks : /\ task'[t].at = task[t].at
                        /\ task'[t].ph \in {"probe", "check"} => task[t].ph \in {"probe", "check"}
                        /\ Claims(t)' => Claims(t) \/ (task[t].at = i /\ pc' = pc)
  BY DEF Claims, TypeOK, MiscOK, Wakes
<1>11. ProbedRan' BY <1>10 DEF ProbedRan
<1>12. ClaimIsParked'
  <2> SUFFICES ASSUME NEW t \in Tasks, Claims(t)', pc'[task'[t].at] \in UnderLease
               PROVE  Parked'
    BY DEF ClaimIsParked
  <2>1. task[t].ph \in {"probe", "check"} BY <1>10 DEF Claims
  <2> QED BY <1>3, <2>1 DEF ProbedRan, Parked, Unended
<1>13. \A j \in Inst : WillStart(j)' => WillStart(j) /\ (j # i => pc'[j] = pc[j])
  BY <1>4 DEF WillStart
<1>14. \A t \in Tasks : task'[t].ph # "none" => task[t].at \in Inst
  BY <1>10 DEF TypeOK, MiscOK, Wakes, WorkOK
<1>15. \A t \in Tasks : Claims(t)' /\ WillStart(task[t].at)'
                           => ~Claims(t) /\ task[t].at = i /\ pc' = pc /\ pc[i] = "lock"
  <2> SUFFICES ASSUME NEW t \in Tasks, Claims(t)', WillStart(task[t].at)'
               PROVE  ~Claims(t) /\ task[t].at = i /\ pc' = pc /\ pc[i] = "lock"
    OBVIOUS
  <2>1. task'[t].at = task[t].at /\ task[t].at \in Inst BY <1>10, <1>14 DEF Claims
  <2>2. WillStart(task[t].at) BY <1>13, <2>1
  <2>3. ~Claims(t) BY <1>5, <2>2
  <2>4. task[t].at = i /\ pc' = pc BY <1>10, <2>3
  <2> QED BY <1>2, <2>2, <2>3, <2>4 DEF WillStart
<1>16. ClaimBlocks' BY <1>1, <1>10, <1>15 DEF ClaimBlocks
<1>17. OneClaim'
  <2> SUFFICES ASSUME NEW t \in Tasks, NEW u \in Tasks, Claims(t)', Claims(u)',
                      task'[t].at = task'[u].at, WillStart(task[t].at)'
               PROVE  t = u
    BY DEF OneClaim
  <2>1. ~Claims(t) /\ ~Claims(u) BY <1>15
  <2>2. task' # task BY <2>1 DEF Claims
  <2> QED BY <2>1, <2>2, GotoAt DEF Claims, TypeOK, MiscOK, Wakes
<1> QED BY <1>6, <1>7, <1>8, <1>9, <1>11, <1>12, <1>16, <1>17

\* A turn read pending starts the run: no probe of its instance holds the lease.
LEMMA CalmStarts == ASSUME IndInv, StartOK, Calm, NEW i \in Inst, MarkStarted(i) PROVE Calm'
<1> USE HeldBits DEF Calm, IndInv, lease, back, own, mem, misc, past
<1>1. /\ pc[i] = "start" /\ pc'[i] = "body" /\ status' = "running"
      /\ \A j \in Inst : j # i => pc'[j] = pc[j]
      /\ UNCHANGED <<owner, live, snap, fence, rec, seen, task>>
  BY GotoAt DEF MarkStarted
<1>2. owner = i /\ live BY <1>1 DEF LeaseHeld
<1>3. \A j \in Inst : j # i => pc[j] \notin UnderLease BY <1>2 DEF LeaseHeld
<1>4. WillStart(i) BY <1>1 DEF StartOK, WillStart
<1>5. \A t \in Tasks : Claims(t) => task[t].at # i BY <1>1, <1>4 DEF ClaimBlocks
<1>6. NoRecovery' BY <1>1 DEF NoRecovery
<1>7. FenceOK' BY <1>1 DEF FenceOK
<1>8. LeaseHeld' BY <1>1, <1>2, <1>3 DEF LeaseHeld
<1>9. RunningHeld' BY <1>1 DEF RunningHeld
<1>10. Unended' BY <1>1 DEF Unended
<1>11. ProbedRan' BY <1>1 DEF ProbedRan
<1>12. \A t \in Tasks : Claims(t)' => Claims(t) /\ task[t].at \in Inst \ {i}
  BY <1>1, <1>5 DEF Claims, WorkOK
<1>13. ClaimIsParked' BY <1>1, <1>3, <1>12 DEF ClaimIsParked
<1>14. \A j \in Inst \ {i} : WillStart(j)' => WillStart(j) /\ pc'[j] = pc[j]
  BY <1>1 DEF WillStart
<1>15. ClaimBlocks' BY <1>1, <1>12, <1>14 DEF ClaimBlocks
<1>16. OneClaim' BY <1>1, <1>12, <1>14 DEF OneClaim
<1> QED BY <1>6, <1>7, <1>8, <1>9, <1>10, <1>11, <1>13, <1>15, <1>16

\* A turn that parks the run writes its outcome.
LEMMA CalmParks ==
  ASSUME IndInv, Calm, NEW i \in Inst, SettleSuspended(i) \/ SettleBlocked(i)
  PROVE  Calm'
<1> USE HeldBits DEF Calm, IndInv, lease, own, mem, past
<1>0. pc[i] = "settle" /\ ~fence[i] /\ status \in SettleEligible
  BY DEF SettleSuspended, SettleBlocked, FenceOK, Unended, SettleEligible
<1>1. PICK p \in {"letgo", "unlock"} :
         /\ Goto(i, p) /\ status' \in {"suspended", "blocked"}
         /\ UNCHANGED <<owner, live, snap, fence, rec, task>>
  BY <1>0 DEF SettleSuspended, SettleBlocked, Outcome, back
<1>2. /\ pc'[i] = p
      /\ \A j \in Inst : j # i => pc'[j] = pc[j]
  BY <1>1, GotoAt
<1>6. NoRecovery' BY <1>1 DEF NoRecovery
<1>7. FenceOK' BY <1>0, <1>1, <1>2 DEF FenceOK
<1>8. LeaseHeld' BY <1>0, <1>1, <1>2 DEF LeaseHeld
<1>9. RunningHeld' BY <1>1 DEF RunningHeld
<1>10. Unended' BY <1>1 DEF Unended
<1>11. ProbedRan' BY <1>1 DEF ProbedRan
<1>12. \A t \in Tasks : Claims(t)' => Claims(t) /\ task[t].at \in Inst
  BY <1>1 DEF Claims, WorkOK
<1>13. ClaimIsParked' BY <1>1 DEF ClaimIsParked, Parked
<1>14. \A j \in Inst : WillStart(j)' => WillStart(j) /\ pc'[j] = pc[j]
  BY <1>1, <1>2 DEF WillStart
<1>15. ClaimBlocks' BY <1>1, <1>12, <1>14 DEF ClaimBlocks
<1>16. OneClaim' BY <1>1, <1>12, <1>14 DEF OneClaim
<1> QED BY <1>6, <1>7, <1>8, <1>9, <1>10, <1>11, <1>13, <1>15, <1>16

\* The lease goes, but not from under a turn, nor from a probe that shares it
\* with one.
LEMMA CalmFrees ==
  ASSUME IndInv, Calm, UNCHANGED <<status, snap, fence, rec, seen>>, TasksGoOn,
         pc' = pc \/ \E i \in Inst : pc[i] = "unlock" /\ Goto(i, "release"),
         \A j \in Inst : /\ owner = j /\ live
                         /\ \/ pc'[j] \in UnderLease
                            \/ \E t \in Tasks : Claims(t)' /\ task[t].at = j /\ WillStart(j)
                         => owner' = j /\ live'
  PROVE  Calm'
<1> USE HeldBits DEF Calm, IndInv
<1>0. \A j \in Inst : pc'[j] = pc[j] \/ (pc[j] = "unlock" /\ pc'[j] = "release")
  BY GotoAt
<1>1. NoRecovery' BY DEF NoRecovery
<1>2. FenceOK' BY <1>0 DEF FenceOK
<1>3. LeaseHeld' BY <1>0 DEF LeaseHeld
<1>4. RunningHeld' BY <1>0 DEF RunningHeld
<1>5. Unended' BY DEF Unended
<1>6. ProbedRan' BY DEF ProbedRan, TasksGoOn
<1>7. \A t \in Tasks : Claims(t)' => Claims(t) /\ task'[t] = task[t] /\ task[t].at \in Inst
  BY DEF TasksGoOn, Claims, WorkOK
<1>8. ClaimIsParked' BY <1>0, <1>7 DEF ClaimIsParked, Parked
<1>9. \A j \in Inst : WillStart(j)' => WillStart(j) /\ pc'[j] = pc[j] BY <1>0 DEF WillStart
<1>10. ClaimBlocks' BY <1>7, <1>9 DEF ClaimBlocks
<1>11. OneClaim' BY <1>7, <1>9 DEF OneClaim
<1> QED BY <1>1, <1>2, <1>3, <1>4, <1>5, <1>6, <1>8, <1>10, <1>11

\* The renewal finds the lease live, except for a turn that has only to end.
LEMMA CalmRenews == ASSUME IndInv, Calm, NEW i \in Inst, Renew(i) PROVE Calm'
<1> USE HeldBits DEF Calm, IndInv, job, back, misc, past
<1>1. pc[i] = "release"
  BY DEF Renew, LeaseHeld, UnderLease, InBody, Executing
<1>2. /\ UNCHANGED <<status, owner, pc, snap, rec, seen, task>>
      /\ live => live'
      /\ \A j \in Inst : j # i => fence'[j] = fence[j]
  BY DEF Renew, TypeOK, TurnOK
<1>3. NoRecovery' BY <1>2 DEF NoRecovery
<1>4. FenceOK' BY <1>1, <1>2 DEF FenceOK
<1>5. LeaseHeld' BY <1>2 DEF LeaseHeld
<1>6. RunningHeld' /\ Unended' BY <1>2 DEF RunningHeld, Unended
<1>7. ProbedRan' BY <1>2 DEF ProbedRan
<1>8. ClaimIsParked' BY <1>2 DEF ClaimIsParked, Claims, Parked
<1>9. ClaimBlocks' BY <1>2 DEF ClaimBlocks, Claims, WillStart
<1>10. OneClaim' BY <1>2 DEF OneClaim, Claims, WillStart
<1> QED BY <1>3, <1>4, <1>5, <1>6, <1>7, <1>8, <1>9, <1>10

\* A step of a turn keeps Calm, unless it completes the run.
LEMMA CalmTurn ==
  ASSUME IndInv, StartOK, Calm, NEW i \in Inst, TurnStep(i), seen' < NSteps
  PROVE  Calm'
<1> USE DEF store, row, job, lease, journal, own, mem, back, misc, past
<1>0. task' = task => TasksGoOn BY DEF TasksGoOn, Claims
<1>1. CASE ReadRun(i) BY <1>1, CalmRead
<1>2. CASE LockForTurn(i)
  BY <1>2, CalmTakes DEF LockForTurn
<1>3. CASE RefuseTurn(i)
  <2>1. TasksGoOn BY <1>3 DEF RefuseTurn, TasksGoOn, Claims, IndInv, TypeOK, MiscOK
  <2>2. /\ CloseTurn(i, FALSE, "refused") /\ UNCHANGED <<status, rec, seen>> /\ UNCHANGED lease
        /\ pc[i] = "lock"
    BY <1>3 DEF RefuseTurn
  <2> QED BY <2>1, <2>2, CalmEnds
<1>4. CASE ProveOwnLease(i)
  <2>1. owner = i /\ live BY <1>4, HeldBits DEF ProveOwnLease, Calm, LeaseHeld
  <2>2. Goto(i, "clear") /\ Still /\ pc[i] = "own" /\ task' = task
    BY <1>4, <2>1 DEF ProveOwnLease, Still
  <2> QED BY <1>0, <2>2, CalmOn, HeldBits
<1>5. CASE ClearStamp(i) \/ ListReasons(i)
  <2>1. PICK p \in {"reasons", "start", "body"} :
           Goto(i, p) /\ Still /\ pc[i] \in {"clear", "reasons"} /\ task' = task
    BY <1>5 DEF ClearStamp, ListReasons, AfterClear, Still
  <2> QED BY <1>0, <2>1, CalmOn, HeldBits
<1>6. CASE MarkStarted(i) BY <1>6, CalmStarts
<1>7. CASE Body(i) \/ SaveStep(i) \/ SendStep(i)
  <2>1. PICK p \in {"save", "send", "settle"} :
           Goto(i, p) /\ Still /\ pc[i] \in {"body", "save", "send"} /\ task' = task
    BY <1>7 DEF Body, SaveStep, SendStep, Still
  <2> QED BY <1>0, <2>1, CalmOn, HeldBits
<1>8. CASE SettleCompleted(i)
  <2>1. ~fence[i] /\ status \in SettleEligible
    BY <1>8 DEF SettleCompleted, Calm, FenceOK, Unended, SettleEligible
  <2>2. Observed(i) /\ goal[i].step = NSteps + 1
    BY <1>8, <2>1 DEF SettleCompleted, Outcome, IndInv, WorkOK
  <2>3. seen' >= NSteps
    BY <2>2, RunTurnsAssumption DEF Observed, IndInv, TypeOK, MiscOK
  <2>4. seen' \in Nat BY <2>2, RunTurnsAssumption DEF Observed, IndInv, TypeOK, MiscOK
  <2> QED BY <2>3, <2>4, RunTurnsAssumption
<1>9. CASE SettleSuspended(i) \/ SettleBlocked(i) BY <1>9, CalmParks
<1>10. CASE UnlockBlocked(i)
  <2>1. pc[i] = "unlock" /\ Goto(i, "release") /\ task' = task
        /\ UNCHANGED <<status, snap, fence, rec, seen>>
    BY <1>10 DEF UnlockBlocked
  <2>2. owner = i /\ pc'[i] = "release" BY <2>1, HeldBits, GotoAt DEF Calm, LeaseHeld, IndInv
  <2>3. \A t \in Tasks : Claims(t)' => Claims(t) BY <2>1 DEF Claims
  <2>4. ~WillStart(i) BY <2>1 DEF WillStart
  <2> QED BY <1>0, <2>1, <2>2, <2>4, HeldBits, CalmFrees
<1>11. CASE Release(i)
  <2>1. /\ CloseTurn(i, FALSE, "acked") /\ UNCHANGED <<status, rec, seen>> /\ ReleaseOwned(i)
        /\ pc[i] = "release" /\ task' = task
    BY <1>11 DEF Release, EndTurn
  <2> QED BY <1>0, <2>1, CalmEnds
<1>12. CASE LetGo(i) \/ ScanReasons(i) \/ Relist(i) \/ Restamp(i)
  <2>1. task' = task /\ pc[i] \in {"letgo", "scan", "relist", "restamp"}
    BY <1>12 DEF LetGo, ScanReasons, Relist, Restamp
  <2>2. \/ Still /\ \E p \in {"scan", "unstamp", "restamp", "letgo"} : Goto(i, p)
        \/ /\ \E again \in BOOLEAN : CloseTurn(i, again, "acked")
           /\ UNCHANGED <<status, rec, seen>> /\ (UNCHANGED lease \/ ReleaseOwned(i))
    BY <1>12 DEF LetGo, ScanReasons, Relist, Restamp, EndTurn, Still
  <2>3. CASE Still /\ \E p \in {"scan", "unstamp", "restamp", "letgo"} : Goto(i, p)
    BY <1>0, <2>1, <2>3, CalmOn, HeldBits
  <2>4. CASE /\ \E again \in BOOLEAN : CloseTurn(i, again, "acked")
             /\ UNCHANGED <<status, rec, seen>> /\ (UNCHANGED lease \/ ReleaseOwned(i))
    BY <1>0, <2>1, <2>4, CalmEnds
  <2> QED BY <2>2, <2>3, <2>4
<1>13. CASE Unstamp(i)
  <2>1. Goto(i, "relist") /\ Still /\ pc[i] = "unstamp" /\ task' = task
    BY <1>13 DEF Unstamp, Still
  <2> QED BY <1>0, <2>1, CalmOn, HeldBits
<1> QED BY <1>1, <1>2, <1>3, <1>4, <1>5, <1>6, <1>7, <1>8, <1>9, <1>10, <1>11, <1>12, <1>13
    DEF TurnStep

\* So does a refused wake: its probe gives back only what no turn shares.
LEMMA CalmWake ==
  ASSUME IndInv, OnlyUp, Calm, NEW t \in Tasks, WakeStep(t)
  PROVE  Calm'
<1> USE DEF store, row, job, lease, journal, inst, turn, own, mem, back, misc, past, IndInv
<1>1. CASE KeepReason(t) \/ StampWake(t) \/ StampGone(t) \/ StampFailed(t)
  <2>1. Still /\ pc' = pc
    BY <1>1 DEF KeepReason, StampWake, StampGone, StampFailed, Still
  <2>2. /\ task'[t].ph # "check" /\ (task'[t].ph = "probe" => status # "pending")
        /\ \A u \in Tasks : u # t => task'[u] = task[u]
    <3> USE DEF TypeOK, MiscOK
    <3>1. CASE KeepReason(t) BY <3>1 DEF KeepReason, Wakes
    <3>2. CASE StampWake(t) BY <3>2 DEF StampWake, Wakes
    <3>3. CASE StampGone(t) \/ StampFailed(t) BY <3>3 DEF StampGone, StampFailed, FreeTask
    <3> QED BY <1>1, <3>1, <3>2, <3>3
  <2>3. TasksGoOn BY <2>2 DEF TasksGoOn, Claims
  <2> QED BY <2>1, <2>3, CalmStill
<1>2. CASE ProbeLease(t)
  <2>1. CASE live
    <3>1. Still /\ pc' = pc BY <1>2, <2>1 DEF ProbeLease, Still
    <3>2. TasksGoOn
      BY <1>2, <2>1 DEF ProbeLease, FreeTask, TasksGoOn, Claims, TypeOK, MiscOK
    <3> QED BY <3>1, <3>2, CalmStill
  <2>2. CASE ~live
    <3> DEFINE i == task[t].at
    <3>1. /\ i \in Inst /\ TryLock(i) /\ UNCHANGED <<status, snap, fence, rec, seen>> /\ pc' = pc
          /\ task[t].ph = "probe" /\ task' = [task EXCEPT ![t].ph = "check"]
      BY <1>2, <2>2 DEF ProbeLease, TryLock, WorkOK
    <3> HIDE DEF i
    <3> QED BY <3>1, CalmTakes DEF i
  <2> QED BY <2>1, <2>2
<1>3. CASE CheckWoken(t)
  <2>1. Claims(t) /\ task' = [task EXCEPT ![t] = FreeTask]
    BY <1>3 DEF CheckWoken, Claims
  <2>2. TasksGoOn BY <2>1 DEF FreeTask, TasksGoOn, Claims, TypeOK, MiscOK
  <2>3. \A u \in Tasks : Claims(u)' => u # t /\ Claims(u)
    BY <2>1 DEF FreeTask, Claims, TypeOK, MiscOK
  <2>4. task[t].at \in Inst BY <2>1 DEF Claims, WorkOK
  <2>5. CASE status \in {"suspended", "blocked"}
    <3>1. Still /\ Request(task[t].at) BY <1>3, <2>5 DEF CheckWoken, Still, Request
    <3> QED BY <2>2, <2>4, <3>1, CalmStill
  <2>6. CASE status \notin {"suspended", "blocked"}
    <3>1. ReleaseOwned(task[t].at) /\ pc' = pc /\ UNCHANGED <<status, snap, fence, rec, seen>>
      BY <1>3, <2>6 DEF CheckWoken
    <3>2. pc[task[t].at] \notin UnderLease
      BY <2>1, <2>6 DEF Calm, ClaimIsParked, Parked
    <3>3. \A u \in Tasks : Claims(u)' /\ task[u].at = task[t].at => ~WillStart(task[t].at)
      BY <2>1, <2>3 DEF Calm, OneClaim
    <3>4. \A j \in Inst : j # task[t].at /\ owner = j => owner' = j /\ live' = live
      BY <3>1 DEF ReleaseOwned
    <3> QED BY <2>2, <3>1, <3>2, <3>3, <3>4, CalmFrees
  <2> QED BY <2>5, <2>6
<1> QED BY <1>1, <1>2, <1>3 DEF WakeStep

\* A `running' run is in its body under a live lease: nothing to recover.
LEMMA NoOrphans ==
  ASSUME IndInv, QuietOK, Calm, NEW i \in Inst, RecoverStep(i) PROVE FALSE
<1> USE DEF Calm, NoRecovery
<1>1. RecoverList(i)
  BY DEF RecoverStep, RecoverSelf, RecoverLock, RecoverCheck, RecoverResend, RecoverPark,
         RecoverCount, RecoverRepend, RecoverFree
<1>2. live BY <1>1, HeldBits DEF RecoverList, RunningHeld, LeaseHeld
<1>3. preboot BY <1>1, <1>2 DEF RecoverList
<1> QED BY <1>3 DEF QuietOK

\* And every other step.
LEMMA CalmOthers ==
  ASSUME IndInv, QuietOK, OnlyUp, Calm,
         \/ \E i \in Inst : PollStep(i) \/ TimerStep(i)
         \/ \E k \in Steps : ResultStep(k)
         \/ Environment
         \/ UNCHANGED vars
  PROVE  Calm'
<1> USE DEF store, row, job, lease, journal, inst, turn, own, mem, back, misc, past, IndInv
<1>0. task' = task => TasksGoOn BY DEF TasksGoOn, Claims
<1>1. ASSUME NEW i \in Inst, PollStep(i) PROVE Calm'
  <2>1. CASE PollList(i) \/ PollResume(i) \/ (PollLock(i) /\ live)
    <3>1. Still /\ task' = task /\ (pc' = pc \/ Request(i))
      BY <2>1 DEF PollList, PollResume, PollLock, Still, Request
    <3> QED BY <1>0, <3>1, CalmStill
  <2>2. CASE PollLock(i) /\ ~live
    BY <2>2, CalmTakes DEF PollLock
  <2> QED BY <1>1, <2>1, <2>2 DEF PollStep
<1>2. ASSUME NEW i \in Inst, TimerStep(i) PROVE Calm'
  <2>1. CASE RetryDroppedWake(i)
    <3>1. Still /\ pc' = pc BY <2>1 DEF RetryDroppedWake, Still
    <3>2. status # "pending" \/ task' = task
      BY <2>1 DEF RetryDroppedWake, TimerGivesUp
    <3>3. \A t \in Tasks : task'[t] = task[t] \/ (task'[t].ph = "probe" /\ status # "pending")
      BY <2>1, <3>2 DEF RetryDroppedWake, TypeOK, MiscOK
    <3>4. TasksGoOn BY <3>3 DEF TasksGoOn, Claims
    <3> QED BY <3>1, <3>4, CalmStill
  <2>2. CASE RecheckWait(i)
    <3>1. Still /\ task' = task /\ (pc' = pc \/ Request(i))
      BY <2>2 DEF RecheckWait, Still, Request
    <3> QED BY <1>0, <3>1, CalmStill
  <2> QED BY <1>2, <2>1, <2>2 DEF TimerStep
<1>3. ASSUME NEW k \in Steps, ResultStep(k) PROVE Calm'
  <2>1. CASE SettleResult(k)
    <3>1. Still /\ task' = task /\ Request(res[k].at) /\ res[k].at \in Inst
      BY <2>1 DEF SettleResult, Still, Request, OnlyUp
    <3> QED BY <1>0, <3>1, CalmStill
  <2>2. CASE ~SettleResult(k)
    <3>1. Still /\ task' = task /\ pc' = pc
      BY <1>3, <2>2 DEF ResultStep, TakeResult, GraceOver, MarkOwed, KeepOwed, StampOwed, Still
    <3> QED BY <1>0, <3>1, CalmStill
  <2> QED BY <2>1, <2>2
<1>4. CASE Environment
  <2>1. ASSUME NEW i \in Inst, Renew(i) PROVE Calm' BY <2>1, CalmRenews
  <2>2. CASE TimerDue
    <3>1. Still /\ task' = task /\ pc' = pc BY <2>2 DEF TimerDue, Still
    <3> QED BY <1>0, <3>1, CalmStill
  <2>3. CASE LeaseLapses /\ ~(owner \in Inst /\ AtWork(owner))
    <3>1. UNCHANGED <<status, snap, fence, rec, seen, pc, task>> BY <2>3 DEF LeaseLapses
    <3>2. ASSUME NEW j \in Inst, owner = j PROVE pc[j] = "idle"
      BY <2>3, <3>2 DEF OnlyUp, AtWork
    <3>3. \A j \in Inst : owner = j => pc'[j] \notin UnderLease /\ ~WillStart(j)
      BY <3>1, <3>2, HeldBits DEF WillStart
    <3> QED BY <1>0, <3>1, <3>3, CalmFrees
  <2> QED BY <1>4, <2>1, <2>2, <2>3, QuietEnvironment
<1>5. CASE UNCHANGED vars
  <2>1. Still /\ task' = task /\ pc' = pc BY <1>5 DEF vars, Still
  <2> QED BY <1>0, <2>1, CalmStill
<1> QED BY <1>1, <1>2, <1>3, <1>4, <1>5

\* Until a turn has completed the run, every step keeps the lease undisturbed.
LEMMA CalmStep ==
  ASSUME IndInv, QuietOK, OnlyUp, StartOK, Calm, [Next]_vars, seen' < NSteps PROVE Calm'
BY CalmTurn, CalmWake, CalmOthers, NoOrphans DEF Next, Finished

-----------------------------------------------------------------------------
(* The journal, as long as nothing goes wrong.                             *)

\* What a step does to the journal: a turn about to dispatch, or a result.
LEMMA JournalMoves ==
  ASSUME IndInv, [Next]_vars
  PROVE  \/ cp' = cp
         \/ \E i \in Inst : SaveStep(i)
         \/ \E k \in Steps : cp[k] # "absent" /\ cp' = [cp EXCEPT ![k] = "settled"]
<1> USE DEF store, journal
<1>1. ASSUME NEW i \in Inst, TurnStep(i), ~SaveStep(i) PROVE cp' = cp
  BY <1>1
  DEF TurnStep, ReadRun, ProveOwnLease, LockForTurn, RefuseTurn, ClearStamp, ListReasons,
      MarkStarted, Body, SendStep, SettleCompleted, SettleSuspended, SettleBlocked,
      UnlockBlocked, Release, LetGo, ScanReasons, Unstamp, Relist, Restamp
<1>2. ASSUME NEW i \in Inst, PollStep(i) \/ TimerStep(i) \/ RecoverStep(i) PROVE cp' = cp
  BY <1>2
  DEF PollStep, PollList, PollLock, PollResume, TimerStep, RetryDroppedWake, RecheckWait,
      RecoverStep, RecoverList, RecoverSelf, RecoverLock, RecoverCheck, RecoverResend,
      RecoverPark, RecoverCount, RecoverRepend, RecoverFree
<1>3. ASSUME NEW t \in Tasks, WakeStep(t) PROVE cp' = cp
  BY <1>3 DEF WakeStep, KeepReason, StampWake, StampGone, StampFailed, ProbeLease, CheckWoken
<1>4. ASSUME NEW k \in Steps, ResultStep(k)
      PROVE  cp' = cp \/ (cp[k] # "absent" /\ cp' = [cp EXCEPT ![k] = "settled"])
  <2>1. res[k].ph # "none" => cp[k] # "absent" BY DEF IndInv, JournalFirst
  <2> QED BY <1>4, <2>1 DEF ResultStep, TakeResult, SettleResult, GraceOver, MarkOwed, KeepOwed, StampOwed
<1>5. ASSUME Environment PROVE cp' = cp
  BY <1>5 DEF Environment, CancelRead, CancelWrite, ExecutionTimeout, LeaseLapses, TimerDue,
              Crash, Restart, Renew
<1> QED BY <1>1, <1>2, <1>3, <1>4, <1>5 DEF Next, Finished, vars

\* At most one turn is on its way to dispatch or to settle.
Sole == \A i, j \in Inst : pc[i] = "save" /\ pc[j] \in {"save", "settle"} => i = j

\* A settled step is never journalled again.
LEMMA SettledGrows == ASSUME IndInv, SaveIsNew, [Next]_vars PROVE SettledKept
<1> SUFFICES ASSUME NEW k \in Steps, cp[k] = "settled" PROVE cp'[k] = "settled"
  BY DEF SettledKept
<1> USE DEF IndInv, TypeOK, JournalOK
<1>1. ASSUME NEW i \in Inst, SaveStep(i) PROVE cp'[k] = "settled"
  BY <1>1 DEF SaveStep, SaveIsNew
<1>2. ASSUME NEW j \in Steps, cp' = [cp EXCEPT ![j] = "settled"] PROVE cp'[k] = "settled"
  BY <1>2
<1> QED BY <1>1, <1>2, JournalMoves

\* A turn gets to its dispatch, or to settling, by its own steps only.
LEMMA Aimed ==
  ASSUME IndInv, OnlyUp, [Next]_vars, NEW i \in Inst, pc'[i] \in {"save", "settle"}
  PROVE  Body(i) \/ SendStep(i) \/ (pc[i] = pc'[i] /\ goal'[i] = goal[i])
<1> DEFINE Same == pc[i] = pc'[i] /\ goal'[i] = goal[i]
<1> USE DEF IndInv, inst, turn, own, mem, misc
<1>1. ASSUME NEW j \in Inst, TurnStep(j) PROVE Body(i) \/ SendStep(i) \/ Same
  <2>1. CASE \/ ReadRun(j) \/ RefuseTurn(j) \/ Release(j) \/ LetGo(j) \/ ScanReasons(j)
             \/ Relist(j) \/ Restamp(j)
    <3>1. (\E again \in BOOLEAN : \E ph : CloseTurn(j, again, ph))
             \/ (goal' = goal /\ \E p \in Places \ {"save", "settle"} : Goto(j, p))
      BY <2>1
      DEF ReadRun, RefuseTurn, Release, LetGo, ScanReasons, Relist, Restamp, EndTurn, Places,
          BeforeBody, AfterBody
    <3> QED BY <3>1, CloseTurnAt, GotoAt
  <2>2. CASE \/ ProveOwnLease(j) \/ LockForTurn(j) \/ ClearStamp(j) \/ ListReasons(j)
             \/ MarkStarted(j) \/ SaveStep(j) \/ SettleCompleted(j) \/ SettleSuspended(j)
             \/ SettleBlocked(j) \/ UnlockBlocked(j) \/ Unstamp(j)
    <3>1. goal' = goal /\ \E p \in Places \ {"save", "settle"} : Goto(j, p)
      BY <2>2
      DEF ProveOwnLease, LockForTurn, ClearStamp, ListReasons, MarkStarted, SaveStep,
          SettleCompleted, SettleSuspended, SettleBlocked, UnlockBlocked, Unstamp, AfterClear,
          Places, BeforeBody, AfterBody
    <3> QED BY <3>1, GotoAt
  <2>3. CASE Body(j) \/ SendStep(j)
    <3>1. j # i => pc'[i] = pc[i] /\ goal'[i] = goal[i]
      BY <2>3, GotoAt DEF Body, SendStep, Aim, TypeOK, TurnOK
    <3> QED BY <2>3, <3>1
  <2> QED BY <1>1, <2>1, <2>2, <2>3 DEF TurnStep
<1>2. CASE goal' = goal /\ (pc' = pc \/ \E j \in Inst : Request(j)) BY <1>2, RequestAt
<1>3. ASSUME NEW j \in Inst, PollStep(j) \/ TimerStep(j) PROVE Same
  BY <1>2, <1>3, RequestAt
  DEF PollStep, PollList, PollLock, PollResume, TimerStep, RetryDroppedWake, RecheckWait
<1>4. ASSUME NEW j \in Inst, RecoverStep(j) PROVE Same
  BY <1>2, <1>4
  DEF RecoverStep, RecoverList, RecoverSelf, RecoverLock, RecoverCheck, RecoverResend, RecoverPark,
      RecoverCount, RecoverRepend, RecoverFree
<1>5. ASSUME NEW t \in Tasks, WakeStep(t) PROVE Same
  BY <1>2, <1>5, RequestAt
  DEF WakeStep, KeepReason, StampWake, StampGone, StampFailed, ProbeLease, CheckWoken, WorkOK
<1>6. ASSUME NEW k \in Steps, ResultStep(k) PROVE Same
  <2>1. CASE SettleResult(k)
    <3>1. res[k].at \in Inst BY <2>1 DEF SettleResult, OnlyUp
    <3> QED BY <1>2, <2>1, <3>1, RequestAt DEF SettleResult
  <2>2. CASE ~SettleResult(k)
    BY <1>2, <1>6, <2>2 DEF ResultStep, TakeResult, GraceOver, MarkOwed, KeepOwed, StampOwed
  <2> QED BY <2>1, <2>2
<1>7. CASE Environment
  <2>1. ASSUME NEW j \in Inst, Crash(j) PROVE Same
    <3>1. pc'[j] = "idle" /\ (i # j => pc'[i] = pc[i] /\ goal'[i] = goal[i])
      BY <2>1 DEF Crash, TypeOK, TurnOK
    <3> QED BY <3>1
  <2>2. CASE ~\E j \in Inst : Crash(j)
    BY <1>2, <1>7, <2>2
    DEF Environment, CancelRead, CancelWrite, ExecutionTimeout, LeaseLapses, TimerDue, Restart, Renew,
        past
  <2> QED BY <2>1, <2>2
<1>8. CASE UNCHANGED vars BY <1>2, <1>8 DEF vars
<1> QED BY <1>1, <1>3, <1>4, <1>5, <1>6, <1>7, <1>8 DEF Next, Finished

\* A step read missing is missing until it is journalled: nobody else executes.
LEMMA SaveStaysNew ==
  ASSUME IndInv, OnlyUp, Sole, SettledInv, [Next]_vars PROVE SaveIsNew'
<1> USE RunTurnsAssumption DEF IndInv, TypeOK, MiscOK
<1> SUFFICES ASSUME NEW i \in Inst, pc'[i] = "save"
             PROVE  seen' < NSteps /\ cp'[goal'[i].step] = "absent"
  BY DEF SaveIsNew
<1>0. seen \in Nat /\ (seen >= NSteps \/ seen < NSteps) OBVIOUS
<1>1. CASE Body(i)
  <2>1. PICK k \in Steps : Undispatched(k) /\ Aim(i, "suspend", k)
    BY <1>1, GotoAt DEF Body
  <2>2. cp[k] = "absent" /\ cp' = cp /\ seen' = seen /\ goal'[i].step = k
    BY <1>1, <2>1 DEF Body, store, journal, Undispatched, Aim, TurnOK
  <2>3. ~(seen >= NSteps) BY <2>2 DEF SettledInv, EndIsSettled, AllSettled
  <2> QED BY <1>0, <2>2, <2>3
<1>2. CASE SendStep(i)
  BY <1>2, GotoAt DEF SendStep
<1>3. CASE pc[i] = "save" /\ goal'[i] = goal[i]
  <2>1. seen < NSteps /\ cp[goal[i].step] = "absent" BY <1>3 DEF SettledInv, SaveIsNew
  <2>2. ASSUME NEW j \in Inst, j # i PROVE pc[j] \notin {"save", "settle"}
    BY <1>3, <2>2 DEF Sole
  <2>3. seen' = seen
    <3>1. ASSUME NEW j \in Inst, pc[j] = "settle" PROVE FALSE
      BY <1>3, <2>2, <3>1
    <3> QED BY <3>1, SeenMoves
  <2>4. ASSUME NEW j \in Inst, SaveStep(j) PROVE FALSE
    <3>1. j = i BY <2>2, <2>4 DEF SaveStep
    <3> QED BY <2>4, <3>1, GotoAt DEF SaveStep
  <2>5. goal[i].step \in Steps BY <1>3 DEF WorkOK
  <2>6. cp'[goal[i].step] = "absent"
    <3>1. ASSUME NEW k \in Steps, cp[k] # "absent", cp' = [cp EXCEPT ![k] = "settled"]
          PROVE  cp'[goal[i].step] = "absent"
      BY <2>1, <2>5, <3>1 DEF JournalOK
    <3> QED BY <2>1, <2>4, <3>1, JournalMoves
  <2> QED BY <1>3, <2>1, <2>3, <2>6
<1> QED BY <1>1, <1>2, <1>3, Aimed

\* Nobody is at the end of the run before every step is in.
LEMMA EndStaysSettled ==
  ASSUME IndInv, OnlyUp, SettledInv, [Next]_vars PROVE EndIsSettled'
<1> USE RunTurnsAssumption DEF IndInv, TypeOK, MiscOK
<1>0. SettledKept BY SettledGrows DEF SettledInv
<1>1. AllSettled => AllSettled' BY <1>0 DEF AllSettled, SettledKept
<1>2. ASSUME seen' >= NSteps PROVE AllSettled'
  <2>1. CASE seen' = seen BY <1>1, <1>2, <2>1 DEF SettledInv, EndIsSettled
  <2>2. ASSUME NEW i \in Inst, pc[i] = "settle",
               goal[i].kind \in {"complete", "suspend", "block"}, Observed(i)
        PROVE  AllSettled'
    <3>1. CASE goal[i].kind = "complete"
      BY <1>1, <2>2, <3>1 DEF SettledInv, EndIsSettled
    <3>2. CASE goal[i].kind # "complete"
      <4>1. goal[i].step \in Int /\ goal[i].step <= NSteps
        BY <2>2, <3>2 DEF WorkOK, Steps
      <4>2. seen >= NSteps BY <1>2, <2>2, <4>1 DEF Observed
      <4> QED BY <1>1, <4>2 DEF SettledInv, EndIsSettled
    <3> QED BY <3>1, <3>2
  <2> QED BY <2>1, <2>2, SeenMoves
<1>3. ASSUME NEW i \in Inst, pc'[i] = "settle", goal'[i].kind = "complete" PROVE AllSettled'
  <2>1. CASE Body(i)
    <3>1. AllSettled
      BY <1>3, <2>1, GotoAt DEF Body, Aim, TurnOK, AllSettled, Settled
    <3> QED BY <1>1, <3>1
  <2>2. CASE SendStep(i)
    BY <1>3, <2>2 DEF SendStep, WorkOK, own, mem
  <2>3. CASE pc[i] = "settle" /\ goal'[i] = goal[i]
    BY <1>1, <1>3, <2>3 DEF SettledInv, EndIsSettled
  <2> QED BY <1>3, <2>1, <2>2, <2>3, Aimed
<1> QED BY <1>2, <1>3 DEF EndIsSettled

\* A result is taken care of once it is in the journal.
KnownStep ==
    /\ \A k \in Steps : res'[k].ph \in Handled => res[k].ph \in Handled \/ cp'[k] = "settled"
    /\ \A t \in Tasks : \A k \in task'[t].for : k \in task[t].for \/ res[k].ph \in Handled

\* What the handlers of a result go through on the way.
LEMMA HandlersKnown ==
  ASSUME IndInv, NEW k \in Steps
  PROVE  /\ \A i \in Inst, again \in BOOLEAN : \A ph :
                CloseTurn(i, again, ph) => (res'[k].ph \in Handled => res[k].ph \in Handled)
         /\ \A S : Send(S) => (res'[k].ph \in Handled => res[k].ph \in Handled)
         /\ \A S, ph : HandlersTo(S, ph) =>
                (res'[k].ph \in Handled => res[k].ph \in Handled \/ k \in S)
<1> USE DEF IndInv, TypeOK, MiscOK, Results
<1>1. \A i \in Inst, again \in BOOLEAN : \A ph :
         CloseTurn(i, again, ph) => (res'[k].ph \in Handled => res[k].ph \in Handled)
  BY DEF CloseTurn, HandlersAfter, Handled
<1>2. \A S : Send(S) => (res'[k].ph \in Handled => res[k].ph \in Handled)
  BY DEF Send, Sent, Handled
<1>3. \A S, ph : HandlersTo(S, ph) => (res'[k].ph \in Handled => res[k].ph \in Handled \/ k \in S)
  BY DEF HandlersTo
<1> QED BY <1>1, <1>2, <1>3

\* A result that is applied, and a reason that is kept, are of steps that were
\* sent.
LEMMA ResultsAreKnown ==
  ASSUME IndInv, SettledInv, status \notin Terminal, [Next]_vars PROVE KnownStep
<1> USE DEF IndInv, TypeOK, MiscOK, inst, misc, past
<1>a. ASSUME res' = res, task' = task PROVE KnownStep BY <1>a DEF KnownStep
<1>b. ASSUME \A k \in Steps : res'[k].ph \in Handled => res[k].ph \in Handled, task' = task
      PROVE  KnownStep
  BY <1>b DEF KnownStep
<1>0. \A t \in Tasks : \A k \in task[t].for : k \in Steps BY DEF Wakes
<1>s. SettledKept BY SettledGrows DEF SettledInv
<1>1. ASSUME NEW i \in Inst, TurnStep(i) PROVE KnownStep
  <2>1. CASE RefuseTurn(i)
    <3>1. \A k \in Steps : res'[k].ph \in Handled => res[k].ph \in Handled
      BY <2>1, HandlersKnown DEF RefuseTurn
    <3>2. PICK u \in Tasks : task' = [task EXCEPT ![u] =
              [ph |-> "keep", at |-> i,
               for |-> {k \in Steps : res[k].at = i /\ res[k].ph = "turn"}]]
      BY <2>1 DEF RefuseTurn
    <3>3. \A t \in Tasks : \A k \in task'[t].for : k \in task[t].for \/ res[k].ph \in Handled
      BY <3>2 DEF Handled
    <3> QED BY <3>1, <3>3 DEF KnownStep
  <2>2. CASE \/ ReadRun(i) \/ Release(i) \/ LetGo(i) \/ ScanReasons(i) \/ Relist(i) \/ Restamp(i)
             \/ SendStep(i)
    <3>1. task' = task /\ \/ res' = res
                          \/ \E again \in BOOLEAN : \E ph : CloseTurn(i, again, ph)
                          \/ \E S : Send(S)
      BY <2>2 DEF ReadRun, Release, LetGo, ScanReasons, Relist, Restamp, SendStep, EndTurn
    <3> QED BY <1>a, <1>b, <3>1, HandlersKnown
  <2>3. CASE \/ ProveOwnLease(i) \/ LockForTurn(i) \/ ClearStamp(i) \/ ListReasons(i)
             \/ MarkStarted(i) \/ Body(i) \/ SaveStep(i) \/ SettleCompleted(i)
             \/ SettleSuspended(i) \/ SettleBlocked(i) \/ UnlockBlocked(i) \/ Unstamp(i)
    BY <1>a, <2>3
    DEF ProveOwnLease, LockForTurn, ClearStamp, ListReasons, MarkStarted, Body, SaveStep,
        SettleCompleted, SettleSuspended, SettleBlocked, UnlockBlocked, Unstamp
  <2> QED BY <1>1, <2>1, <2>2, <2>3 DEF TurnStep
<1>2. ASSUME NEW i \in Inst, PollStep(i) PROVE KnownStep
  <2>1. task' = task /\ (res' = res \/ \E S : Send(S))
    BY <1>2 DEF PollStep, PollList, PollLock, PollResume
  <2> QED BY <1>a, <1>b, <2>1, HandlersKnown
<1>3. ASSUME NEW i \in Inst, RecoverStep(i) PROVE KnownStep
  <2>1. task' = task /\ (res' = res \/ \E S : Send(S))
    BY <1>3
    DEF RecoverStep, RecoverList, RecoverSelf, RecoverLock, RecoverCheck, RecoverResend,
        RecoverPark, RecoverCount, RecoverRepend, RecoverFree
  <2> QED BY <1>a, <1>b, <2>1, HandlersKnown
<1>4. ASSUME NEW i \in Inst, TimerStep(i) PROVE KnownStep
  <2>1. CASE RetryDroppedWake(i)
    <3>1. res' = res /\ \A t \in Tasks : task'[t] = task[t] \/ task'[t].for = {}
      BY <2>1 DEF RetryDroppedWake
    <3> QED BY <3>1 DEF KnownStep
  <2>2. CASE RecheckWait(i) BY <1>a, <2>2 DEF RecheckWait
  <2> QED BY <1>4, <2>1, <2>2 DEF TimerStep
<1>5. ASSUME NEW t \in Tasks, WakeStep(t) PROVE KnownStep
  <2>1. \A u \in Tasks : task'[u].for = task[u].for \/ task'[u].for = {}
    <3>1. CASE KeepReason(t) BY <3>1 DEF KeepReason, Wakes
    <3>2. CASE StampWake(t) BY <3>2 DEF StampWake, Wakes
    <3>3. CASE StampGone(t) \/ StampFailed(t) BY <3>3 DEF StampGone, StampFailed, FreeTask
    <3>4. CASE ProbeLease(t) BY <3>4 DEF ProbeLease, FreeTask, Wakes
    <3>5. CASE CheckWoken(t) BY <3>5 DEF CheckWoken, FreeTask
    <3> QED BY <1>5, <3>1, <3>2, <3>3, <3>4, <3>5 DEF WakeStep
  <2>2. res' = res \/ \E ph : HandlersTo(task[t].for, ph)
    BY <1>5 DEF WakeStep, KeepReason, StampWake, StampGone, StampFailed, ProbeLease, CheckWoken
  <2>3. \A k \in Steps : k \in task[t].for => cp'[k] = "settled"
    BY <1>s DEF SettledInv, KnownIsSettled, SettledKept
  <2>4. \A k \in Steps : res'[k].ph \in Handled => res[k].ph \in Handled \/ cp'[k] = "settled"
    BY <2>2, <2>3, HandlersKnown
  <2> QED BY <2>1, <2>4 DEF KnownStep
<1>6. ASSUME NEW k \in Steps, ResultStep(k) PROVE KnownStep
  <2>1. CASE SettleResult(k)
    <3>1. cp'[k] = "settled" /\ task' = task /\ \E ph : HandlersTo({k}, ph)
      BY <2>1 DEF SettleResult, JournalOK
    <3> QED BY <3>1, HandlersKnown DEF KnownStep
  <2>2. CASE GraceOver(k) \/ MarkOwed(k) \/ KeepOwed(k) \/ StampOwed(k)
    <3>1. res[k].ph \in Handled /\ task' = task /\ \E ph : HandlersTo({k}, ph)
      BY <2>2 DEF GraceOver, MarkOwed, KeepOwed, StampOwed, Handled
    <3> QED BY <1>b, <3>1, HandlersKnown
  <2>3. ASSUME NEW i \in Inst, TakeResult(i, k) PROVE KnownStep
    <3>1. ~Ended BY DEF Ended
    <3>2. /\ res' = [res EXCEPT ![k] = [ph |-> "read", at |-> i, owed |-> OwedDurably]]
          /\ task' = task
      BY <2>3, <3>1 DEF TakeResult
    <3>3. \A j \in Steps : res'[j].ph \in Handled => res[j].ph \in Handled
      BY <3>2 DEF Handled
    <3> QED BY <1>b, <3>2, <3>3
  <2> QED BY <1>6, <2>1, <2>2, <2>3 DEF ResultStep
<1>7. CASE Environment
  <2>1. ASSUME NEW i \in Inst, Crash(i) PROVE KnownStep
    <3>1. \A k \in Steps : res'[k].ph \in Handled => res[k].ph \in Handled
      BY <2>1 DEF Crash, Handled
    <3>2. \A t \in Tasks : task'[t] = task[t] \/ task'[t].for = {} BY <2>1 DEF Crash, FreeTask
    <3> QED BY <3>1, <3>2 DEF KnownStep
  <2>2. CASE ~\E i \in Inst : Crash(i)
    BY <1>7, <1>a, <2>2
    DEF Environment, CancelRead, CancelWrite, ExecutionTimeout, LeaseLapses, TimerDue, Restart, Renew
  <2> QED BY <2>1, <2>2
<1>8. CASE UNCHANGED vars BY <1>8, <1>a DEF vars
<1> QED BY <1>1, <1>2, <1>3, <1>4, <1>5, <1>6, <1>7, <1>8 DEF Next, Finished

\* The three parts of SettledInv together, for a run that is not begun anew
\* once it has ended before all its steps were in.
LEMMA SettledInvStep ==
  ASSUME IndInv, OnlyUp, Sole, SettledInv, [Next]_vars,
         status \in Terminal => AllSettled \/ status' \in Terminal
  PROVE  SettledInv'
<1>1. SaveIsNew' BY SaveStaysNew
<1>2. EndIsSettled' BY EndStaysSettled
<1>3. KnownIsSettled'
  <2> SUFFICES ASSUME status' \notin Terminal
               PROVE  /\ \A k \in Steps : res'[k].ph \in Handled => cp'[k] = "settled"
                      /\ \A t \in Tasks : \A k \in task'[t].for : cp'[k] = "settled"
    BY DEF KnownIsSettled
  <2>1. SettledKept BY SettledGrows DEF SettledInv
  <2>2. TypeOK' BY IndStep DEF IndInv
  <2>3. \A t \in Tasks : \A k \in task'[t].for : k \in Steps
    BY <2>2 DEF TypeOK, MiscOK, Wakes
  <2>4. CASE status \in Terminal
    BY <2>1, <2>3, <2>4 DEF AllSettled, SettledKept
  <2>5. CASE status \notin Terminal
    <3>1. KnownStep BY <2>5, ResultsAreKnown
    <3>2. /\ \A k \in Steps : res[k].ph \in Handled => cp[k] = "settled"
          /\ \A t \in Tasks : \A k \in task[t].for : cp[k] = "settled"
      BY <2>5 DEF SettledInv, KnownIsSettled
    <3>3. \A k \in Steps : res'[k].ph \in Handled => cp'[k] = "settled"
      BY <2>1, <3>1, <3>2 DEF KnownStep, SettledKept
    <3>4. \A t \in Tasks : \A k \in task'[t].for : cp'[k] = "settled"
      BY <2>1, <2>3, <3>1, <3>2 DEF KnownStep, SettledKept
    <3> QED BY <3>3, <3>4
  <2> QED BY <2>4, <2>5
<1> QED BY <1>1, <1>2, <1>3 DEF SettledInv

\* QuietInv is inductive.
LEMMA QuietInvStep == ASSUME IndInv, QuietInv, [Next]_vars PROVE QuietInv'
<1> USE RunTurnsAssumption
<1>1. QuietOK' BY QuietStep DEF QuietInv
<1>2. OnlyUp' BY OnlyUpStep DEF QuietInv
<1>3. StartOK' BY StartStep DEF QuietInv
<1>0. seen \in Nat BY DEF IndInv, TypeOK, MiscOK
<1>4. ASSUME seen' < NSteps PROVE Calm'
  <2>1. seen < NSteps BY <1>0, <1>4, SeenGrows
  <2> QED BY <1>4, <2>1, CalmStep DEF QuietInv
<1>5. Sole
  <2> SUFFICES ASSUME NEW i \in Inst, NEW j \in Inst, pc[i] = "save", pc[j] \in {"save", "settle"}
               PROVE  i = j
    BY DEF Sole
  <2>1. Calm BY DEF QuietInv, SettledInv, SaveIsNew
  <2> QED BY <2>1, HeldBits DEF Calm, LeaseHeld
<1>6. status \in Terminal => AllSettled
  <2> SUFFICES ASSUME status \in Terminal PROVE AllSettled OBVIOUS
  <2>1. ~Calm BY DEF Calm, Unended, Terminal
  <2>2. seen >= NSteps BY <1>0, <2>1 DEF QuietInv
  <2> QED BY <2>2 DEF QuietInv, SettledInv, EndIsSettled
<1>7. SettledInv' BY <1>5, <1>6, SettledInvStep DEF QuietInv
<1> QED BY <1>1, <1>2, <1>3, <1>4, <1>7 DEF QuietInv

-----------------------------------------------------------------------------
(* What follows, while no instance dies or stalls and nobody cancels.      *)

\* The invariant is kept for every number of instances, steps, refused wakes,
\* blocked dispatches and handlers that outlive their grace.
THEOREM QuietInvariant == Spec /\ Quiet => []QuietInv
<1>1. Init /\ Quiet => IndInv /\ QuietInv BY IndInit, QuietInit
<1>2. IndInv /\ QuietInv /\ [Next]_vars => IndInv' /\ QuietInv' BY IndStep, QuietInvStep
<1> QED BY <1>1, <1>2, PTL DEF Spec

\* A lease is handed on, renewed or let go of, never taken from under a turn.
LEMMA LeaseIsKept == ASSUME IndInv, QuietOK, Calm, [Next]_vars PROVE KeepsLease
<1> SUFFICES ASSUME NEW i \in Inst, owner = i, live, pc[i] \in InBody PROVE owner' = i
  BY DEF KeepsLease
<1> USE DEF store, row, job, lease, TryLock
<1>0. \A j \in Inst : j # i => pc[j] \notin UnderLease BY DEF Calm, LeaseHeld
<1>1. ASSUME NEW j \in Inst, TurnStep(j) PROVE owner' = i
  <2>1. CASE UnlockBlocked(j) \/ Release(j) \/ LetGo(j)
    <3>1. pc[j] \in {"unlock", "release", "letgo"} BY <2>1 DEF UnlockBlocked, Release, LetGo
    <3>2. j # i BY <3>1 DEF InBody
    <3> QED BY <1>0, <2>1, <3>1, <3>2, HeldBits DEF UnlockBlocked, Release, LetGo, ReleaseOwned
  <2>2. CASE ~(UnlockBlocked(j) \/ Release(j) \/ LetGo(j))
    BY <1>1, <2>2
    DEF TurnStep, ReadRun, ProveOwnLease, LockForTurn, RefuseTurn, ClearStamp, ListReasons,
        MarkStarted, Body, SaveStep, SendStep, SettleCompleted, SettleSuspended, SettleBlocked,
        ScanReasons, Unstamp, Relist, Restamp
  <2> QED BY <2>1, <2>2
<1>2. ASSUME NEW j \in Inst, PollStep(j) \/ TimerStep(j) PROVE owner' = i
  BY <1>2
  DEF PollStep, PollList, PollLock, PollResume, TimerStep, RetryDroppedWake, RecheckWait
<1>3. ASSUME NEW t \in Tasks, WakeStep(t) PROVE owner' = i
  <2>1. CASE CheckWoken(t)
    <3>1. Claims(t) BY <2>1 DEF CheckWoken, Claims
    <3>2. task[t].at = i => Parked
      BY <3>1 DEF Calm, ClaimIsParked, UnderLease
    <3> QED BY <2>1, <3>2 DEF CheckWoken, Parked, ReleaseOwned
  <2>2. CASE ~CheckWoken(t)
    BY <1>3, <2>2 DEF WakeStep, KeepReason, StampWake, StampGone, StampFailed, ProbeLease
  <2> QED BY <2>1, <2>2
<1>4. ASSUME NEW k \in Steps, ResultStep(k) PROVE owner' = i
  BY <1>4 DEF ResultStep, TakeResult, SettleResult, GraceOver, MarkOwed, KeepOwed, StampOwed
<1>5. CASE Environment
  BY <1>5, QuietEnvironment DEF LeaseLapses, TimerDue, Renew, IndInv
<1> QED BY <1>1, <1>2, <1>3, <1>4, <1>5, NoOrphans DEF Next, Finished, vars

\* tryLockRun keeps two instances from executing one run at a time, until a
\* turn has completed it.
THEOREM OneInstanceExecutes == Spec /\ Quiet => []OneExecutor
<1>1. QuietInv => OneExecutor
  BY DEF QuietInv, Calm, LeaseHeld, UnderLease, OneExecutor
<1> QED BY <1>1, QuietInvariant, PTL

\* As long as the run has not completed, no refused wake, poll or renewal takes
\* the lease from a turn that executes by it, or gives it back under it.
THEOREM LeaseIsNotTaken == Spec /\ Quiet => HolderKeepsLease
<1>1. IndInv /\ QuietInv /\ [Next]_vars => [seen < NSteps => KeepsLease]_lease
  BY LeaseIsKept DEF QuietInv
<1> QED BY <1>1, Inductive, QuietInvariant, PTL DEF Spec, HolderKeepsLease

-----------------------------------------------------------------------------
(* One instance only: it may die and stall as often as it likes.           *)

Solo == limits["cancels"] = 0 /\ limits["alone"] # 0

NoCancel      == budget["cancels"] = 0 /\ cancel = "idle"
UpServes      == \A i \in Inst : up[i] => i \in Serving
StartsPending == \A i \in Inst : WillStart(i) => status = "pending"
SoloInv == /\ Solo /\ NoCancel /\ OnlyUp /\ UpServes /\ StartOK /\ StartsPending
           /\ SettledInv

\* The bounds are chosen once; what is left of them is spent one at a time,
\* and only an operator's cancel is under way in two steps.
LEMMA LimitsStay ==
  ASSUME [Next]_vars
  PROVE  /\ limits' = limits
         /\ budget' = budget \/ \E b \in Disturbances : Spend(b)
         /\ cancel' = cancel \/ CancelRead \/ CancelWrite
<1> DEFINE Stay == /\ limits' = limits
                   /\ budget' = budget \/ \E b \in Disturbances : Spend(b)
                   /\ cancel' = cancel \/ CancelRead \/ CancelWrite
<1> SUFFICES Stay OBVIOUS
<1> USE DEF misc, past, Disturbances
<1>1. ASSUME NEW i \in Inst, TurnStep(i) PROVE Stay
  BY <1>1
  DEF TurnStep, ReadRun, ProveOwnLease, LockForTurn, RefuseTurn, ClearStamp, ListReasons,
      MarkStarted, Body, SaveStep, SendStep, SettleCompleted, SettleSuspended, SettleBlocked,
      UnlockBlocked, Release, LetGo, ScanReasons, Unstamp, Relist, Restamp
<1>2. ASSUME NEW i \in Inst, PollStep(i) \/ TimerStep(i) \/ RecoverStep(i) PROVE Stay
  BY <1>2
  DEF PollStep, PollList, PollLock, PollResume, TimerStep, RetryDroppedWake, RecheckWait,
      RecoverStep, RecoverList, RecoverSelf, RecoverLock, RecoverCheck, RecoverResend,
      RecoverPark, RecoverCount, RecoverRepend, RecoverFree
<1>3. ASSUME NEW t \in Tasks, WakeStep(t) PROVE Stay
  BY <1>3 DEF WakeStep, KeepReason, StampWake, StampGone, StampFailed, ProbeLease, CheckWoken
<1>4. ASSUME NEW k \in Steps, ResultStep(k) PROVE Stay
  BY <1>4 DEF ResultStep, TakeResult, SettleResult, GraceOver, MarkOwed, KeepOwed, StampOwed
<1>5. CASE Environment
  <2>1. CASE CancelRead \/ CancelWrite \/ ExecutionTimeout
    BY <2>1 DEF CancelRead, CancelWrite, ExecutionTimeout
  <2>2. CASE LeaseLapses \/ TimerDue \/ \E i \in Inst : Crash(i) \/ Restart(i) \/ Renew(i)
    BY <2>2 DEF LeaseLapses, TimerDue, Crash, Restart, Renew
  <2> QED BY <1>5, <2>1, <2>2 DEF Environment
<1>6. CASE UNCHANGED vars BY <1>6 DEF vars
<1> QED BY <1>1, <1>2, <1>3, <1>4, <1>5, <1>6 DEF Next, Finished

\* Where no operator may cancel, none does.
LEMMA NoCancelStep == ASSUME IndInv, NoCancel, [Next]_vars PROVE NoCancel'
<1> USE DEF IndInv, TypeOK, MiscOK, Disturbances
<1>1. \A b \in Disturbances : Spend(b) => b # "cancels" /\ budget'["cancels"] = 0
  BY DEF Spend, NoCancel
<1>2. ~CancelRead /\ ~CancelWrite BY <1>1 DEF CancelRead, CancelWrite, NoCancel
<1> QED BY <1>1, <1>2, LimitsStay DEF NoCancel

\* What a step does to the status, by who does it.
LEMMA StatusMoves ==
  ASSUME NoCancel, IndInv, [Next]_vars
  PROVE  \/ status' = status
         \/ \E i \in Inst : \/ MarkStarted(i) /\ status' = "running"
                            \/ pc[i] = "settle" /\ status \in SettleEligible
         \/ status = "running"
<1> DEFINE Moves == \/ status' = status
                    \/ \E i \in Inst : \/ MarkStarted(i) /\ status' = "running"
                                       \/ pc[i] = "settle" /\ status \in SettleEligible
                    \/ status = "running"
<1> SUFFICES Moves OBVIOUS
<1> USE DEF store, row, job
<1>1. ASSUME NEW i \in Inst, TurnStep(i) PROVE Moves
  <2>1. CASE MarkStarted(i) BY <2>1 DEF MarkStarted
  <2>2. CASE SettleCompleted(i) \/ SettleSuspended(i) \/ SettleBlocked(i)
    BY <2>2 DEF SettleCompleted, SettleSuspended, SettleBlocked, Outcome
  <2>3. CASE ~(MarkStarted(i) \/ SettleCompleted(i) \/ SettleSuspended(i) \/ SettleBlocked(i))
    BY <1>1, <2>3
    DEF TurnStep, ReadRun, ProveOwnLease, LockForTurn, RefuseTurn, ClearStamp, ListReasons, Body,
        SaveStep, SendStep, UnlockBlocked, Release, LetGo, ScanReasons, Unstamp, Relist, Restamp
  <2> QED BY <2>1, <2>2, <2>3
<1>2. ASSUME NEW i \in Inst, PollStep(i) \/ TimerStep(i) \/ RecoverStep(i) PROVE Moves
  BY <1>2
  DEF PollStep, PollList, PollLock, PollResume, TimerStep, RetryDroppedWake, RecheckWait,
      RecoverStep, RecoverList, RecoverSelf, RecoverLock, RecoverCheck, RecoverResend,
      RecoverPark, RecoverCount, RecoverRepend, RecoverFree, Buried
<1>3. ASSUME NEW t \in Tasks, WakeStep(t) PROVE Moves
  BY <1>3 DEF WakeStep, KeepReason, StampWake, StampGone, StampFailed, ProbeLease, CheckWoken
<1>4. ASSUME NEW k \in Steps, ResultStep(k) PROVE Moves
  BY <1>4 DEF ResultStep, TakeResult, SettleResult, GraceOver, MarkOwed, KeepOwed, StampOwed
<1>5. CASE Environment
  <2>1. ~CancelWrite BY DEF CancelWrite, NoCancel
  <2>2. ~ExecutionTimeout
    BY DEF ExecutionTimeout, Spend, NoCancel, IndInv, TypeOK, MiscOK, Disturbances
  <2> QED BY <1>5, <2>1, <2>2 DEF Environment, CancelRead, LeaseLapses, TimerDue, Crash, Restart, Renew
<1>6. CASE UNCHANGED vars BY <1>6 DEF vars
<1> QED BY <1>1, <1>2, <1>3, <1>4, <1>5, <1>6 DEF Next, Finished

\* Only who serves works: with one instance, one turn.
LEMMA OneServes ==
  ASSUME SoloInv, NEW i \in Inst, NEW j \in Inst, pc[i] # "idle", pc[j] # "idle" PROVE i = j
<1>1. i \in Serving /\ j \in Serving BY DEF SoloInv, OnlyUp, UpServes
<1> QED BY <1>1 DEF SoloInv, Solo, Serving

\* An instance that is up serves the run.
LEMMA UpServesStep == ASSUME IndInv, UpServes, [Next]_vars PROVE UpServes'
<1>1. Serving' = Serving BY LimitsStay DEF Serving
<1>2. ASSUME NEW i \in Inst, Crash(i) PROVE UpServes'
  BY <1>1, <1>2 DEF Crash, UpServes, IndInv, TypeOK, BackOK
<1>3. ASSUME NEW i \in Inst, Restart(i) PROVE UpServes'
  BY <1>1, <1>3 DEF Restart, UpServes, IndInv, TypeOK, BackOK
<1>4. CASE up' = up BY <1>1, <1>4 DEF UpServes
<1> QED BY <1>2, <1>3, <1>4, UpStays

\* A turn gets the status it read from no one else.
LEMMA WillStartMoves ==
  ASSUME IndInv, OnlyUp, [Next]_vars, NEW i \in Inst, WillStart(i)'
  PROVE  WillStart(i) \/ (ReadRun(i) /\ status = "pending")
<1> DEFINE Same == pc'[i] = pc[i] /\ snap'[i] = snap[i]
<1> DEFINE Goal == WillStart(i) \/ (ReadRun(i) /\ status = "pending")
<1> USE DEF IndInv, inst, turn, own, mem, misc
<1>0. pc'[i] \in {"own", "lock", "clear", "reasons", "start"} /\ snap'[i].status = "pending"
  BY DEF WillStart
<1>s. Same => Goal BY <1>0 DEF WillStart
<1>1. ASSUME NEW j \in Inst, TurnStep(j) PROVE Goal
  <2>1. CASE ReadRun(j)
    <3>1. CASE status \in Terminal
      <4>1. CloseTurn(j, FALSE, "acked") BY <2>1, <3>1 DEF ReadRun, EndTurn
      <4> QED BY <1>0, <1>s, <4>1, CloseTurnAt
    <3>2. CASE status \notin Terminal
      <4>1. \E p : Goto(j, p) BY <2>1, <3>2 DEF ReadRun
      <4>2. \E m, st : snap' = [snap EXCEPT ![j] = [status |-> status, mine |-> m, stamp |-> st]]
        BY <2>1, <3>2 DEF ReadRun
      <4>3. CASE j = i BY <1>0, <2>1, <4>2, <4>3 DEF TypeOK, TurnOK
      <4>4. CASE j # i
        <5>1. snap'[i] = snap[i] BY <4>2, <4>4 DEF TypeOK, TurnOK
        <5> QED BY <1>s, <4>1, <4>4, <5>1, GotoAt
      <4> QED BY <4>3, <4>4
    <3> QED BY <3>1, <3>2
  <2>2. CASE RefuseTurn(j) \/ Release(j) \/ LetGo(j) \/ ScanReasons(j) \/ Relist(j) \/ Restamp(j)
    <3>1. (\E again \in BOOLEAN : \E ph : CloseTurn(j, again, ph))
             \/ (snap' = snap /\ \E p \in {"scan", "unstamp", "restamp", "letgo"} : Goto(j, p))
      BY <2>2 DEF RefuseTurn, Release, LetGo, ScanReasons, Relist, Restamp, EndTurn
    <3>2. CASE \E again \in BOOLEAN : \E ph : CloseTurn(j, again, ph)
      BY <1>0, <1>s, <3>2, CloseTurnAt
    <3>3. CASE snap' = snap /\ \E p \in {"scan", "unstamp", "restamp", "letgo"} : Goto(j, p)
      BY <1>0, <1>s, <3>3, GotoAt
    <3> QED BY <3>1, <3>2, <3>3
  <2>3. CASE ProveOwnLease(j) \/ LockForTurn(j) \/ ClearStamp(j) \/ ListReasons(j)
    <3>1. snap' = snap /\ pc[j] \in {"own", "lock", "clear", "reasons"} /\ \E p : Goto(j, p)
      BY <2>3 DEF ProveOwnLease, LockForTurn, ClearStamp, ListReasons
    <3>2. CASE j = i BY <1>0, <3>1, <3>2 DEF WillStart
    <3>3. CASE j # i BY <1>s, <3>1, <3>3, GotoAt
    <3> QED BY <3>2, <3>3
  <2>4. CASE \/ MarkStarted(j) \/ Body(j) \/ SaveStep(j) \/ SendStep(j) \/ SettleCompleted(j)
             \/ SettleSuspended(j) \/ SettleBlocked(j) \/ UnlockBlocked(j) \/ Unstamp(j)
    <3>1. snap' = snap
      BY <2>4
      DEF MarkStarted, Body, SaveStep, SendStep, SettleCompleted, SettleSuspended, SettleBlocked,
          UnlockBlocked, Unstamp
    <3>2. \E p \in {"body", "settle", "save", "send", "release", "letgo", "unlock", "relist"} :
             Goto(j, p)
      BY <2>4
      DEF MarkStarted, Body, SaveStep, SendStep, SettleCompleted, SettleSuspended, SettleBlocked,
          UnlockBlocked, Unstamp
    <3> QED BY <1>0, <1>s, <3>1, <3>2, GotoAt
  <2> QED BY <1>1, <2>1, <2>2, <2>3, <2>4 DEF TurnStep
<1>2. ASSUME snap' = snap, pc' = pc \/ \E j \in Inst : Request(j) PROVE Goal
  <2>1. pc'[i] = pc[i] BY <1>0, <1>2, RequestAt
  <2> QED BY <1>2, <1>s, <2>1
<1> HIDE DEF Goal
<1>3. ASSUME NEW j \in Inst, PollStep(j) \/ TimerStep(j) PROVE Goal
  BY <1>2, <1>3, RequestAt
  DEF PollStep, PollList, PollLock, PollResume, TimerStep, RetryDroppedWake, RecheckWait
<1>4. ASSUME NEW j \in Inst, RecoverStep(j) PROVE Goal
  BY <1>2, <1>4
  DEF RecoverStep, RecoverList, RecoverSelf, RecoverLock, RecoverCheck, RecoverResend, RecoverPark,
      RecoverCount, RecoverRepend, RecoverFree
<1>5. ASSUME NEW t \in Tasks, WakeStep(t) PROVE Goal
  BY <1>2, <1>5, RequestAt
  DEF WakeStep, KeepReason, StampWake, StampGone, StampFailed, ProbeLease, CheckWoken, WorkOK
<1>6. ASSUME NEW k \in Steps, ResultStep(k) PROVE Goal
  <2>1. CASE SettleResult(k)
    <3>1. res[k].at \in Inst BY <2>1 DEF SettleResult, OnlyUp
    <3> QED BY <1>2, <2>1, <3>1, RequestAt DEF SettleResult
  <2>2. CASE ~SettleResult(k)
    BY <1>2, <1>6, <2>2 DEF ResultStep, TakeResult, GraceOver, MarkOwed, KeepOwed, StampOwed
  <2> QED BY <2>1, <2>2
<1>7. ASSUME Environment PROVE Goal
  <2>1. ASSUME NEW j \in Inst, Crash(j) PROVE Goal
    <3>1. pc'[j] = "idle" /\ (i # j => pc'[i] = pc[i] /\ snap'[i] = snap[i])
      BY <2>1 DEF Crash, TypeOK, TurnOK
    <3> QED BY <1>0, <1>s, <3>1
  <2>2. CASE ~\E j \in Inst : Crash(j)
    BY <1>2, <1>7, <2>2
    DEF Environment, CancelRead, CancelWrite, ExecutionTimeout, LeaseLapses, TimerDue, Restart, Renew,
        past
  <2> QED BY <2>1, <2>2
<1>8. ASSUME UNCHANGED vars PROVE Goal BY <1>2, <1>8 DEF vars
<1>9. Goal BY <1>1, <1>3, <1>4, <1>5, <1>6, <1>7, <1>8 DEF Next, Finished
<1> QED BY <1>9 DEF Goal

\* SoloInv holds at the start and is inductive: the one instance starts a run
\* that still reads pending, and an ended run stays ended.
LEMMA SoloInit == ASSUME Init, Solo PROVE SoloInv
<1> USE RunTurnsAssumption DEF Init
<1>1. NoCancel BY DEF NoCancel, Solo
<1>2. OnlyUp BY DEF OnlyUp, FreeTask
<1>3. UpServes BY DEF UpServes
<1>4. StartOK /\ StartsPending BY DEF StartOK, StartsPending, WillStart
<1>5. SaveIsNew BY DEF SaveIsNew
<1>6. EndIsSettled
  <2>1. ~(seen >= NSteps) OBVIOUS
  <2> QED BY <2>1 DEF EndIsSettled
<1>7. KnownIsSettled BY DEF KnownIsSettled, Handled, FreeTask
<1> QED BY <1>1, <1>2, <1>3, <1>4, <1>5, <1>6, <1>7 DEF SoloInv, SettledInv

\* Where one instance executes, the threads of others do not write.
LEMMA SoloStep == ASSUME IndInv, SoloInv, [Next]_vars PROVE SoloInv'
<1>1. Solo' BY LimitsStay DEF SoloInv, Solo
<1>2. NoCancel' BY NoCancelStep DEF SoloInv
<1>3. OnlyUp' BY OnlyUpStep DEF SoloInv
<1>4. UpServes' BY UpServesStep DEF SoloInv
<1>5. StartOK' BY StartStep DEF SoloInv
<1>a. \/ status' = status
      \/ \E i \in Inst : \/ MarkStarted(i) /\ status' = "running"
                         \/ pc[i] = "settle" /\ status \in SettleEligible
      \/ status = "running"
  BY StatusMoves DEF SoloInv
<1>6. StartsPending'
  <2> SUFFICES ASSUME NEW i \in Inst, WillStart(i)' PROVE status' = "pending"
    BY DEF StartsPending
  <2>1. CASE WillStart(i)
    <3>1. status = "pending" BY <2>1 DEF SoloInv, StartsPending
    <3>2. pc[i] \in {"own", "lock", "clear", "reasons", "start"} BY <2>1 DEF WillStart
    <3>3. ASSUME NEW j \in Inst, MarkStarted(j) PROVE FALSE
      <4>1. i = j BY <3>2, <3>3, OneServes DEF MarkStarted
      <4>2. pc'[i] = "body" BY <3>3, <4>1, GotoAt DEF MarkStarted, IndInv
      <4> QED BY <4>2 DEF WillStart
    <3>4. ASSUME NEW j \in Inst, pc[j] = "settle" PROVE FALSE
      <4>1. i = j BY <3>2, <3>4, OneServes
      <4> QED BY <3>2, <3>4, <4>1
    <3> QED BY <1>a, <3>1, <3>3, <3>4
  <2>2. CASE ReadRun(i) /\ status = "pending"
    BY <2>2 DEF ReadRun, store, row, job
  <2> QED BY <2>1, <2>2, WillStartMoves DEF SoloInv
<1>7. Sole BY OneServes DEF Sole
<1>8. status \in Terminal => status' \in Terminal
  <2> SUFFICES ASSUME status \in Terminal PROVE status' = status OBVIOUS
  <2>1. status \notin SettleEligible \union {"running", "pending"}
    BY DEF Terminal, SettleEligible, IndInv, AheadOK
  <2>2. ASSUME NEW i \in Inst, MarkStarted(i) PROVE FALSE
    <3>1. WillStart(i) BY <2>2 DEF SoloInv, StartOK, MarkStarted, WillStart
    <3> QED BY <2>1, <3>1 DEF SoloInv, StartsPending
  <2> QED BY <1>a, <2>1, <2>2
<1>9. SettledInv' BY <1>7, <1>8, SettledInvStep DEF SoloInv
<1> QED BY <1>1, <1>2, <1>3, <1>4, <1>5, <1>6, <1>9 DEF SoloInv

\* Either way, what was taken care of is in the journal, and is not taken out:
\* for every number of instances that neither die nor stall, and for every
\* number of deaths and stalls of one that is alone.
THEOREM UndividedRunsKeepTheJournal == Spec => [](Undivided => SettledInv)
<1> DEFINE J == (Quiet => QuietInv) /\ (Solo => SoloInv)
<1>1. Init => IndInv /\ J BY IndInit, QuietInit, SoloInit
<1>2. IndInv /\ J /\ [Next]_vars => IndInv' /\ J'
  <2> SUFFICES ASSUME IndInv, J, [Next]_vars PROVE IndInv' /\ J' OBVIOUS
  <2>1. (Quiet' => Quiet) /\ (Solo' => Solo) BY LimitsStay DEF Quiet, Solo
  <2>2. Quiet' => QuietInv' BY <2>1, QuietInvStep
  <2>3. Solo' => SoloInv' BY <2>1, SoloStep
  <2> QED BY <2>2, <2>3, IndStep
<1>3. J => (Undivided => SettledInv) BY DEF Undivided, Quiet, Solo, QuietInv, SoloInv
<1> HIDE DEF J
<1> QED BY <1>1, <1>2, <1>3, PTL DEF Spec

\* A result is acknowledged only when it is in the journal: its handler settled
\* it, or found it settled, or the run had ended.
THEOREM AcknowledgedIsJournalled == Spec => []AckedIsSettled
<1>1. (Undivided => SettledInv) => AckedIsSettled
  BY DEF SettledInv, KnownIsSettled, AckedIsSettled, Handled
<1> QED BY <1>1, UndividedRunsKeepTheJournal, PTL

\* A step that settled is not dispatched again: the body journals only a step
\* that it read missing, and nobody settles it before it does.
THEOREM JournalIsKept == Spec => SettledStays
<1>1. IndInv /\ (Undivided => SettledInv) /\ [Next]_vars => [Undivided => SettledKept]_cp
  BY SettledGrows DEF SettledInv
<1> QED BY <1>1, Inductive, UndividedRunsKeepTheJournal, PTL DEF Spec, SettledStays

-----------------------------------------------------------------------------
(* No lost wake, while besides nothing dying, stalling or being cancelled   *)
(* the store does not fail under a refused wake.  A result that no settled  *)
(* turn has read (Late) is always Brought a turn:                           *)
(*   - by the row (it does not read `suspended', or has a timer);           *)
(*   - by an instance that Asks: with a turn that has still to read the     *)
(*     journal, or read it settled, a resume behind the gate, the re-check  *)
(*     of the step it parked on, a reason it found and did not answer;      *)
(*   - by a refused wake that has still to keep its reason, or a probe;     *)
(*   - by the stamp, or a refused wake about to stamp, provided that no     *)
(*     turn that missed the result may take the stamp for answered: a turn  *)
(*     Blind to it has a kept reason before it that it did not answer.      *)
(* The in-memory timers are in nobody's argument: without a death they are  *)
(* not needed.                                                              *)

Deciding == {"save", "send", "settle"}
Closing  == {"letgo", "scan", "unstamp", "relist"}
Ending   == Closing \union {"restamp", "unlock", "release"}

Late(k)      == cp[k] = "settled" /\ k > seen
Blind(i, k)  == pc[i] \in Deciding \union Closing /\ goal[i].step <= k
NewReason(k) == \A i \in Inst :
                   Blind(i, k) => \E r \in kept : r \notin served[i] \union spent[i]

Asks(i, k) ==
    \/ queued[i] \/ poll[i] = "locked" \/ pc[i] \in BeforeBody \union {"restamp"}
    \/ pc[i] \in Deciding /\ goal[i].step > k
    \/ k \in recheck[i] \ settledHere[i]
    \/ pc[i] = "relist" /\ ~ (kept \subseteq spent[i])

Brought(k) ==
    \/ status # "suspended" \/ wake # "far"
    \/ \E i \in Inst : Asks(i, k)
    \/ \E t \in Tasks : task[t].ph \in {"keep", "check"}
    \/ (stamp \/ \E t \in Tasks : task[t].ph = "stamp") /\ NewReason(k)

\* The body is sequential: what is journalled comes after settled steps only.
InSequence == \A k \in Steps : cp[k] # "absent" => \A j \in 1 .. k - 1 : cp[j] = "settled"
\* What an instance settled is settled.
HereSettled == \A i \in Inst : \A k \in settledHere[i] : cp[k] = "settled"
\* A turn past its settle has put on record what it read.
SeenOnceClosed == \A i \in Inst : pc[i] \in Ending => seen >= goal[i].step - 1
\* A turn about to suspend waits for the last step journalled, or to be; if
\* its own instance settled that one meanwhile, it queued a resume.
Waits(i) ==
    LET g == goal[i].step IN
    /\ \A k \in Steps : k > g => cp[k] = "absent"
    /\ \A k \in Steps : k < g => cp[k] = "settled"
    /\ g \in settledHere[i] => queued[i]
Suspends == \A i \in Inst : pc[i] \in Deciding /\ goal[i].kind = "suspend" => Waits(i)

NoFaults    == budget["faults"] = 0
LateBrought == \A k \in Steps : Late(k) => Brought(k)
WakeParts   == InSequence /\ HereSettled /\ SeenOnceClosed /\ Suspends /\ LateBrought
WakeInv     == NoFaults /\ (seen < NSteps => WakeParts)

\* A turn past its body got there by its own steps: it keeps its goal, and
\* passes to its end by settling.
LEMMA PastBody ==
  ASSUME IndInv, QuietOK, OnlyUp, [Next]_vars, NEW i \in Inst, pc'[i] \in Deciding \union Ending
  PROVE  \/ Body(i)
         \/ goal'[i] = goal[i] /\ \/ pc[i] \in Deciding /\ pc'[i] \in Deciding
                                  \/ pc[i] \in Ending /\ pc'[i] \in Ending
                                  \/ SettleCompleted(i) \/ SettleSuspended(i) \/ SettleBlocked(i)
<1> DEFINE Settles == SettleCompleted(i) \/ SettleSuspended(i) \/ SettleBlocked(i)
           Goal    == goal'[i] = goal[i] /\ \/ pc[i] \in Deciding /\ pc'[i] \in Deciding
                                            \/ pc[i] \in Ending /\ pc'[i] \in Ending
                                            \/ Settles
<1> SUFFICES ASSUME ~Body(i) PROVE Goal OBVIOUS
<1> USE DEF IndInv, inst, turn, own, mem, misc
<1>a. ASSUME pc'[i] = pc[i], goal'[i] = goal[i] PROVE Goal BY <1>a
<1>1. ASSUME NEW j \in Inst, TurnStep(j) PROVE Goal
  <2>1. CASE RefuseTurn(j) \/ Release(j) \/ LetGo(j) \/ ScanReasons(j) \/ Relist(j) \/ Restamp(j)
    <3>1. \/ \E again \in BOOLEAN : \E ph : CloseTurn(j, again, ph)
          \/ goal' = goal /\ pc[j] \in Ending /\ \E p \in Ending : Goto(j, p)
      BY <2>1
      DEF RefuseTurn, Release, LetGo, ScanReasons, Relist, Restamp, EndTurn, Ending, Closing
    <3>2. CASE \E again \in BOOLEAN : \E ph : CloseTurn(j, again, ph)
      <4>1. j # i BY <3>2, CloseTurnAt DEF Deciding, Ending, Closing
      <4> QED BY <1>a, <3>2, <4>1, CloseTurnAt
    <3>3. CASE goal' = goal /\ pc[j] \in Ending /\ \E p \in Ending : Goto(j, p)
      BY <1>a, <3>3, GotoAt
    <3> QED BY <3>1, <3>2, <3>3
  <2>2. CASE ReadRun(j)
    <3>1. j # i BY <2>2, CloseTurnAt, GotoAt, ZenonT(60) DEF ReadRun, EndTurn, Deciding, Ending, Closing
    <3>2. pc'[i] = pc[i] /\ goal'[i] = goal[i]
      BY <2>2, <3>1, CloseTurnAt, GotoAt DEF ReadRun, EndTurn
    <3> QED BY <1>a, <3>2
  <2>3. CASE ProveOwnLease(j) \/ LockForTurn(j) \/ ClearStamp(j) \/ ListReasons(j) \/ MarkStarted(j)
    <3>1. goal' = goal /\ \E p \in BeforeBody : Goto(j, p)
      BY <2>3
      DEF ProveOwnLease, LockForTurn, ClearStamp, ListReasons, MarkStarted, AfterClear, BeforeBody
    <3>2. j # i BY <3>1, GotoAt DEF BeforeBody, Deciding, Ending, Closing
    <3> QED BY <1>a, <3>1, <3>2, GotoAt
  <2>4. CASE SaveStep(j) \/ SendStep(j)
    <3>1. goal' = goal /\ pc[j] \in Deciding /\ \E p \in Deciding : Goto(j, p)
      BY <2>4 DEF SaveStep, SendStep, Deciding
    <3> QED BY <1>a, <3>1, GotoAt
  <2>5. CASE SettleCompleted(j) \/ SettleSuspended(j) \/ SettleBlocked(j)
    <3>1. goal' = goal /\ \E p \in Ending : Goto(j, p)
      BY <2>5 DEF SettleCompleted, SettleSuspended, SettleBlocked, Ending, Closing
    <3> QED BY <1>a, <2>5, <3>1, GotoAt
  <2>6. CASE UnlockBlocked(j) \/ Unstamp(j)
    <3>1. goal' = goal /\ pc[j] \in Ending /\ \E p \in Ending : Goto(j, p)
      BY <2>6 DEF UnlockBlocked, Unstamp, Ending, Closing
    <3> QED BY <1>a, <3>1, GotoAt
  <2>7. CASE Body(j)
    BY <1>a, <2>7, GotoAt DEF Body, Aim, TypeOK, TurnOK
  <2> QED BY <1>1, <2>1, <2>2, <2>3, <2>4, <2>5, <2>6, <2>7 DEF TurnStep
<1> HIDE DEF Goal
<1>2. CASE goal' = goal /\ (pc' = pc \/ \E j \in Inst : Request(j))
  <2>1. pc'[i] = pc[i]
    BY <1>2, RequestAt DEF Deciding, Ending, Closing
  <2> QED BY <1>2, <1>a, <2>1
<1>3. ASSUME NEW j \in Inst, PollStep(j) \/ TimerStep(j) PROVE Goal
  BY <1>2, <1>3, RequestAt
  DEF PollStep, PollList, PollLock, PollResume, TimerStep, RetryDroppedWake, RecheckWait
<1>4. ASSUME NEW j \in Inst, RecoverStep(j) PROVE Goal
  BY <1>2, <1>4
  DEF RecoverStep, RecoverList, RecoverSelf, RecoverLock, RecoverCheck, RecoverResend, RecoverPark,
      RecoverCount, RecoverRepend, RecoverFree
<1>5. ASSUME NEW t \in Tasks, WakeStep(t) PROVE Goal
  BY <1>2, <1>5, RequestAt
  DEF WakeStep, KeepReason, StampWake, StampGone, StampFailed, ProbeLease, CheckWoken, WorkOK
<1>6. ASSUME NEW k \in Steps, ResultStep(k) PROVE Goal
  <2>1. CASE SettleResult(k)
    <3>1. res[k].at \in Inst BY <2>1 DEF SettleResult, OnlyUp
    <3> QED BY <1>2, <2>1, <3>1, RequestAt DEF SettleResult
  <2>2. CASE ~SettleResult(k)
    BY <1>2, <1>6, <2>2 DEF ResultStep, TakeResult, GraceOver, MarkOwed, KeepOwed, StampOwed
  <2> QED BY <2>1, <2>2
<1>7. CASE Environment
  BY <1>2, <1>7, QuietEnvironment DEF LeaseLapses, TimerDue, Renew
<1>8. CASE UNCHANGED vars BY <1>2, <1>8 DEF vars
<1> QED BY <1>1, <1>3, <1>4, <1>5, <1>6, <1>7, <1>8 DEF Next, Finished, Goal

\* What an instance settled, and the resume it queued behind its turn.
LEMMA HereMoves ==
  ASSUME IndInv, QuietOK, OnlyUp, [Next]_vars, NEW i \in Inst
  PROVE  /\ \/ settledHere'[i] = settledHere[i]
            \/ \E k \in Steps : SettleResult(k) /\ res[k].at = i
         /\ queued[i] => queued'[i] \/ pc'[i] \in {"read", "idle"}
<1> DEFINE Here == \/ settledHere'[i] = settledHere[i]
                   \/ \E k \in Steps : SettleResult(k) /\ res[k].at = i
           Kept == queued[i] => queued'[i] \/ pc'[i] \in {"read", "idle"}
<1> SUFFICES Here /\ Kept OBVIOUS
<1> USE DEF IndInv, inst, turn, own, mem, misc, back
<1>a. CASE settledHere' = settledHere /\ queued' = queued BY <1>a
<1>r. ASSUME NEW j \in Inst, Request(j) PROVE Kept
  BY <1>r DEF Request, TypeOK, TurnOK
<1>1. ASSUME NEW j \in Inst, TurnStep(j) PROVE Here /\ Kept
  <2>1. settledHere' = settledHere
    BY <1>1
    DEF TurnStep, ReadRun, ProveOwnLease, LockForTurn, RefuseTurn, ClearStamp, ListReasons,
        MarkStarted, Body, SaveStep, SendStep, SettleCompleted, SettleSuspended, SettleBlocked,
        UnlockBlocked, Release, LetGo, ScanReasons, Unstamp, Relist, Restamp
  <2>2. queued' = queued \/ \E again \in BOOLEAN : \E ph : CloseTurn(j, again, ph)
    BY <1>1
    DEF TurnStep, ReadRun, ProveOwnLease, LockForTurn, RefuseTurn, ClearStamp, ListReasons,
        MarkStarted, Body, SaveStep, SendStep, SettleCompleted, SettleSuspended, SettleBlocked,
        UnlockBlocked, Release, LetGo, ScanReasons, Unstamp, Relist, Restamp, EndTurn
  <2>3. CASE \E again \in BOOLEAN : \E ph : CloseTurn(j, again, ph)
    <3>1. j = i => pc'[i] \in {"read", "idle"} BY <2>3, CloseTurnAt
    <3>2. j # i => queued'[i] = queued[i] BY <2>3 DEF CloseTurn, TypeOK, TurnOK
    <3> QED BY <2>1, <3>1, <3>2
  <2> QED BY <2>1, <2>2, <2>3
<1>2. ASSUME NEW j \in Inst, PollStep(j) \/ TimerStep(j) PROVE Here /\ Kept
  <2>1. settledHere' = settledHere
    BY <1>2
    DEF PollStep, PollList, PollLock, PollResume, TimerStep, RetryDroppedWake, RecheckWait
  <2>2. queued' = queued \/ Request(j)
    BY <1>2
    DEF PollStep, PollList, PollLock, PollResume, TimerStep, RetryDroppedWake, RecheckWait
  <2> QED BY <1>r, <2>1, <2>2
<1>3. ASSUME NEW j \in Inst, RecoverStep(j) PROVE Here /\ Kept
  BY <1>a, <1>3
  DEF RecoverStep, RecoverList, RecoverSelf, RecoverLock, RecoverCheck, RecoverResend, RecoverPark,
      RecoverCount, RecoverRepend, RecoverFree
<1>4. ASSUME NEW t \in Tasks, WakeStep(t) PROVE Here /\ Kept
  <2>1. settledHere' = settledHere
    BY <1>4
    DEF WakeStep, KeepReason, StampWake, StampGone, StampFailed, ProbeLease, CheckWoken
  <2>2. queued' = queued \/ (Request(task[t].at) /\ task[t].at \in Inst)
    BY <1>4
    DEF WakeStep, KeepReason, StampWake, StampGone, StampFailed, ProbeLease, CheckWoken, WorkOK
  <2> QED BY <1>r, <2>1, <2>2
<1>5. ASSUME NEW k \in Steps, ResultStep(k) PROVE Here /\ Kept
  <2>1. CASE SettleResult(k)
    <3>1. res[k].at \in Inst BY <2>1 DEF SettleResult, OnlyUp
    <3>2. Kept BY <1>r, <2>1, <3>1 DEF SettleResult
    <3>3. res[k].at # i => settledHere'[i] = settledHere[i]
      BY <2>1 DEF SettleResult, TypeOK, BackOK
    <3> QED BY <2>1, <3>2, <3>3
  <2>2. CASE ~SettleResult(k)
    BY <1>a, <1>5, <2>2 DEF ResultStep, TakeResult, GraceOver, MarkOwed, KeepOwed, StampOwed
  <2> QED BY <2>1, <2>2
<1>6. CASE Environment
  BY <1>a, <1>6, QuietEnvironment DEF LeaseLapses, TimerDue, Renew
<1>7. CASE UNCHANGED vars BY <1>a, <1>7 DEF vars
<1> QED BY <1>1, <1>2, <1>3, <1>4, <1>5, <1>6, <1>7 DEF Next, Finished

\* Only the turn that holds the lease is past its body.
LEMMA OnePastBody ==
  ASSUME Calm, NEW i \in Inst, NEW j \in Inst,
         pc[i] \in Deciding \union Closing, pc[j] \in Deciding \union Closing
  PROVE  i = j
BY HeldBits DEF Calm, LeaseHeld, Deciding, Closing

\* A step is dispatched after all before it have settled.
LEMMA SequenceKept ==
  ASSUME IndInv, SettledInv, InSequence, Suspends, [Next]_vars
  PROVE  InSequence'
<1> USE DEF IndInv, TypeOK, JournalOK
<1>0. SettledKept BY SettledGrows DEF SettledInv
<1> SUFFICES ASSUME NEW k \in Steps, cp'[k] # "absent", NEW j \in 1 .. k - 1
             PROVE  cp'[j] = "settled"
  BY DEF InSequence
<1>1. j \in Steps BY RunTurnsAssumption DEF Steps
<1>2. cp[k] # "absent" => cp'[j] = "settled"
  BY <1>0, <1>1 DEF InSequence, SettledKept
<1>3. ASSUME NEW i \in Inst, SaveStep(i) PROVE cp'[j] = "settled"
  <2>1. pc[i] \in Deciding /\ goal[i].kind = "suspend" /\ goal[i].step \in Steps
    BY <1>3 DEF SaveStep, WorkOK, Deciding
  <2>2. k = goal[i].step \/ cp[k] # "absent" BY <1>3 DEF SaveStep
  <2>3. k = goal[i].step => cp[j] = "settled"
    BY <1>1, <2>1 DEF Suspends, Waits, Steps
  <2> QED BY <1>0, <1>1, <1>2, <2>2, <2>3 DEF SettledKept
<1>4. ASSUME NEW m \in Steps, cp[m] # "absent", cp' = [cp EXCEPT ![m] = "settled"]
      PROVE  cp'[j] = "settled"
  BY <1>2, <1>4
<1> QED BY <1>2, <1>3, <1>4, JournalMoves

\* What an instance settled stays settled.
LEMMA HereKept ==
  ASSUME IndInv, QuietOK, OnlyUp, SettledInv, HereSettled, [Next]_vars
  PROVE  HereSettled'
<1> USE DEF IndInv, TypeOK, JournalOK, BackOK
<1>0. SettledKept BY SettledGrows DEF SettledInv
<1> SUFFICES ASSUME NEW i \in Inst, NEW k \in settledHere'[i] PROVE cp'[k] = "settled"
  BY DEF HereSettled
<1>1. CASE settledHere'[i] = settledHere[i]
  BY <1>0, <1>1 DEF HereSettled, SettledKept
<1>2. ASSUME NEW m \in Steps, SettleResult(m), res[m].at = i PROVE cp'[k] = "settled"
  <2>1. k \in settledHere[i] \/ k = m BY <1>2 DEF SettleResult
  <2>2. cp'[m] = "settled" BY <1>2 DEF SettleResult
  <2>3. k \in settledHere[i] => cp'[k] = "settled" BY <1>0 DEF HereSettled, SettledKept
  <2> QED BY <2>1, <2>2, <2>3
<1> QED BY <1>1, <1>2, HereMoves

\* A turn that is not fenced out writes its outcome, and with it what it saw.
LEMMA SettlesObserve ==
  ASSUME IndInv, Calm, NEW i \in Inst,
         SettleCompleted(i) \/ SettleSuspended(i) \/ SettleBlocked(i)
  PROVE  /\ Observed(i) /\ pc[i] = "settle" /\ goal' = goal
         /\ seen' >= goal[i].step - 1
<1>1. pc[i] = "settle" /\ goal' = goal
  BY DEF SettleCompleted, SettleSuspended, SettleBlocked, own, mem
<1>2. ~fence[i] /\ status \in SettleEligible
  BY <1>1 DEF Calm, FenceOK, Unended, SettleEligible
<1>3. Observed(i)
  BY <1>2 DEF SettleCompleted, SettleSuspended, SettleBlocked, Outcome
<1>4. goal[i].step \in Int /\ seen \in Int
  BY RunTurnsAssumption DEF IndInv, TypeOK, TurnOK, MiscOK, Goals
<1> QED BY <1>1, <1>3, <1>4 DEF Observed

\* What a turn has settled on is known once the turn is ending.
LEMMA ClosedKept ==
  ASSUME IndInv, QuietOK, OnlyUp, Calm, SeenOnceClosed, [Next]_vars
  PROVE  SeenOnceClosed'
<1> SUFFICES ASSUME NEW i \in Inst, pc'[i] \in Ending PROVE seen' >= goal'[i].step - 1
  BY DEF SeenOnceClosed
<1>1. seen' >= seen /\ seen' \in Nat BY SeenGrows
<1>2. goal[i].step \in Int /\ seen \in Int
  BY RunTurnsAssumption DEF IndInv, TypeOK, TurnOK, MiscOK, Goals
<1>3. ~Body(i)
  BY GotoAt DEF Body, Ending, Closing, IndInv
<1>4. pc'[i] \notin Deciding BY DEF Deciding, Ending, Closing
<1>5. CASE goal'[i] = goal[i] /\ pc[i] \in Ending
  BY <1>1, <1>2, <1>5 DEF SeenOnceClosed
<1>6. CASE /\ goal'[i] = goal[i]
           /\ SettleCompleted(i) \/ SettleSuspended(i) \/ SettleBlocked(i)
  BY <1>6, SettlesObserve
<1> QED BY <1>3, <1>4, <1>5, <1>6, PastBody

\* Only the turn itself journals its step, and a result at its own instance
\* queues a resume behind it.
LEMMA SuspendsKept ==
  ASSUME IndInv, QuietOK, OnlyUp, Calm, SettledInv, InSequence, HereSettled, Suspends, [Next]_vars
  PROVE  Suspends'
<1> USE DEF IndInv, TypeOK, JournalOK
<1> SUFFICES ASSUME NEW i \in Inst, pc'[i] \in Deciding, goal'[i].kind = "suspend"
             PROVE  Waits(i)'
  BY DEF Suspends
<1>0. SettledKept BY SettledGrows DEF SettledInv
<1>1. CASE Body(i)
  <2>1. PICK k \in Steps : Awaits(k) /\ goal'[i] = [kind |-> "suspend", step |-> k]
    BY <1>1, GotoAt DEF Body, Aim, TurnOK
  <2>2. cp' = cp /\ settledHere' = settledHere
    BY <1>1 DEF Body, store, journal, back
  <2>3. cp[k] # "settled" /\ \A m \in Steps : m < k => cp[m] = "settled"
    BY <2>1 DEF Awaits, Settled, Steps
  <2>4. \A m \in Steps : m > k => cp[m] = "absent"
    BY <2>3 DEF InSequence, Steps
  <2>5. k \notin settledHere[i] BY <2>3 DEF HereSettled
  <2> QED BY <2>1, <2>2, <2>3, <2>4, <2>5 DEF Waits
<1>2. CASE goal'[i] = goal[i] /\ pc[i] \in Deciding
  <2> DEFINE g == goal[i].step
  <2>1. Waits(i) /\ g \in Steps BY <1>2 DEF Suspends, WorkOK
  <2>2. \A k \in Steps : k < g => cp'[k] = "settled"
    BY <1>0, <2>1 DEF Waits, SettledKept
  <2>3. \A k \in Steps : k > g => cp'[k] = "absent"
    <3>1. ASSUME NEW j \in Inst, SaveStep(j) PROVE \A k \in Steps : k > g => cp'[k] = "absent"
      <4>1. j = i BY <1>2, <3>1, OnePastBody DEF SaveStep, Deciding
      <4>2. cp' = [cp EXCEPT ![g] = "pending"] BY <3>1, <4>1 DEF SaveStep
      <4> QED BY <2>1, <4>2 DEF Waits, Steps
    <3>2. ASSUME NEW m \in Steps, cp[m] # "absent", cp' = [cp EXCEPT ![m] = "settled"]
          PROVE  \A k \in Steps : k > g => cp'[k] = "absent"
      BY <2>1, <3>2 DEF Waits
    <3>3. cp' = cp => \A k \in Steps : k > g => cp'[k] = "absent" BY <2>1 DEF Waits
    <3> QED BY <3>1, <3>2, <3>3, JournalMoves
  <2>4. g \in settledHere'[i] => queued'[i]
    <3>1. pc'[i] \notin {"read", "idle"} BY DEF Deciding
    <3>2. CASE settledHere'[i] = settledHere[i]
      BY <2>1, <3>1, <3>2, HereMoves DEF Waits
    <3>3. ASSUME NEW m \in Steps, SettleResult(m), res[m].at = i PROVE queued'[i]
      BY <1>2, <3>3 DEF SettleResult, Request, Deciding, TurnOK
    <3> QED BY <3>2, <3>3, HereMoves
  <2> HIDE DEF g
  <2>5. goal'[i].step = g BY <1>2 DEF g
  <2> QED BY <2>2, <2>3, <2>4, <2>5 DEF Waits
<1>3. pc'[i] \notin Ending BY DEF Deciding, Ending, Closing
<1>4. ~(SettleCompleted(i) \/ SettleSuspended(i) \/ SettleBlocked(i))
  BY GotoAt DEF SettleCompleted, SettleSuspended, SettleBlocked, Deciding
<1> QED BY <1>1, <1>2, <1>3, <1>4, PastBody

\* Four ways in which a late result is brought a turn after a step.
LEMMA AskedFor ==
  ASSUME NEW k, NEW i \in Inst, queued'[i] \/ pc'[i] \in BeforeBody \union {"restamp"}
  PROVE  Brought(k)'
BY DEF Brought, Asks

\* A resume that is asked for is a turn to come.
LEMMA RequestAsks ==
  ASSUME TypeOK, NEW k, NEW i \in Inst, Request(i) PROVE Brought(k)'
<1>1. queued'[i] \/ pc'[i] = "read" BY DEF Request, TypeOK, TurnOK
<1> QED BY <1>1, AskedFor DEF BeforeBody

\* A retry of a refused wake asks likewise.
LEMMA AgainAsks ==
  ASSUME TypeOK, NEW k, NEW i \in Inst, EndTurn(i, TRUE) PROVE Brought(k)'
<1>1. pc'[i] = "read" BY DEF EndTurn, CloseTurn, TypeOK, TurnOK
<1> QED BY <1>1, AskedFor DEF BeforeBody

\* What a turn to come would bring is brought as long as it is to come.
LEMMA StillBrought ==
  ASSUME NEW k, Brought(k), status' = status, wake # "far" => wake' # "far",
         \A i \in Inst : Asks(i, k) => \E j \in Inst : Asks(j, k)',
         \A t \in Tasks : /\ task[t].ph \in {"keep", "check"} => task'[t].ph = task[t].ph
                          /\ task[t].ph = "stamp" => task'[t].ph = "stamp" \/ stamp',
         stamp => stamp', NewReason(k) => NewReason(k)'
  PROVE  Brought(k)'
<1>1. CASE status # "suspended" \/ wake # "far" BY <1>1 DEF Brought
<1>2. CASE \E i \in Inst : Asks(i, k) BY <1>2 DEF Brought
<1>3. ASSUME NEW t \in Tasks, task[t].ph \in {"keep", "check"} PROVE Brought(k)'
  <2>1. task'[t].ph \in {"keep", "check"} BY <1>3
  <2> QED BY <2>1 DEF Brought
<1>4. CASE (stamp \/ \E t \in Tasks : task[t].ph = "stamp") /\ NewReason(k)
  <2>1. NewReason(k)' BY <1>4
  <2>2. stamp' \/ \E t \in Tasks : task'[t].ph = "stamp" BY <1>4
  <2> QED BY <2>1, <2>2 DEF Brought
<1> QED BY <1>1, <1>2, <1>3, <1>4 DEF Brought

\* A turn that took in no result since is Blind to what is late.
LEMMA BlindWhenClosed ==
  ASSUME IndInv, SeenOnceClosed, NEW i \in Inst, pc[i] \in Closing, NEW k \in Steps, Late(k)
  PROVE  Blind(i, k)
<1>1. seen >= goal[i].step - 1 BY DEF SeenOnceClosed, Ending
<1>2. goal[i].step \in Int /\ seen \in Int /\ k \in Int
  BY RunTurnsAssumption DEF IndInv, TypeOK, TurnOK, MiscOK, Goals, Steps
<1> QED BY <1>1, <1>2 DEF Late, Blind

\* The end of a turn leaves a late result brought: its queued resume starts,
\* and it is Blind no more.
LEMMA EndBrings ==
  ASSUME TypeOK, NEW k, Brought(k), NEW i \in Inst, EndTurn(i, FALSE),
         pc[i] \in {"release", "letgo"},
         UNCHANGED <<status, wake, stamp, poll, recheck, settledHere, task>>,
         \/ kept' = kept
         \/ \A j \in Inst : pc[j] \in Deciding \union Closing => j = i
  PROVE  Brought(k)'
<1> USE DEF TypeOK, TurnOK
<1>1. CASE queued[i]
  <2>1. pc'[i] = "read" BY <1>1 DEF EndTurn, CloseTurn
  <2> QED BY <2>1, AskedFor DEF BeforeBody
<1>2. CASE ~ queued[i]
  <2>1. \A j \in Inst : j # i => /\ pc'[j] = pc[j] /\ queued'[j] = queued[j] /\ goal'[j] = goal[j]
                                 /\ served'[j] = served[j] /\ spent'[j] = spent[j]
    BY DEF EndTurn, CloseTurn
  <2>2. pc'[i] = "idle" BY <1>2 DEF EndTurn, CloseTurn
  <2>3. \A j \in Inst : Asks(j, k) => Asks(j, k)'
    <3>1. ASSUME NEW j \in Inst, j # i, Asks(j, k) PROVE Asks(j, k)'
      BY <2>1, <3>1 DEF Asks, Closing
    <3>2. Asks(i, k) => Asks(i, k)'
      BY <1>2 DEF Asks, BeforeBody, Deciding
    <3> QED BY <3>1, <3>2
  <2>4. NewReason(k) => NewReason(k)'
    <3>1. ~Blind(i, k)' BY <2>2 DEF Blind, Deciding, Closing
    <3>2. \A j \in Inst : j # i /\ Blind(j, k)' => Blind(j, k) BY <2>1 DEF Blind
    <3>3. CASE kept' = kept BY <2>1, <3>1, <3>2, <3>3 DEF NewReason
    <3>4. CASE \A j \in Inst : pc[j] \in Deciding \union Closing => j = i
      BY <3>1, <3>2, <3>4 DEF NewReason, Blind
    <3> QED BY <3>3, <3>4
  <2> QED BY <2>3, <2>4, StillBrought
<1> QED BY <1>1, <1>2

\* The end of a suspended turn, letGoOfSuspendedTurn: no round of it loses
\* what the stamp stands for.
LEMMA LettingGoBrings ==
  ASSUME IndInv, Calm, SeenOnceClosed, NEW i \in Inst,
         LetGo(i) \/ ScanReasons(i) \/ Unstamp(i) \/ Relist(i) \/ Restamp(i),
         NEW k \in Steps, Late(k), Brought(k)
  PROVE  Brought(k)'
<1> USE DEF IndInv, row, job, lease, journal, store, own, mem, back, misc, past
<1>0. pc[i] \in Closing \union {"restamp"}
  BY DEF LetGo, ScanReasons, Unstamp, Relist, Restamp, Closing
<1>1. \A j \in Inst : pc[j] \in Deciding \union Closing /\ pc[i] \in Closing => j = i
  BY OnePastBody
<1>b. pc[i] \in Closing => Blind(i, k) BY BlindWhenClosed
<1>2. CASE LetGo(i) /\ ~(owner = i /\ stamp)
  BY <1>1, <1>2, EndBrings DEF LetGo, Closing
<1>3. CASE EndTurn(i, TRUE) BY <1>3, AgainAsks
<1>4. CASE Restamp(i) BY <1>3, <1>4 DEF Restamp
\* The turn goes on in its rounds, and knows as much as before.
<1>5. ASSUME NEW p \in {"scan", "letgo"}, Goto(i, p), pc[i] \in Closing,
             UNCHANGED <<status, wake, stamp, kept, queued, poll, recheck, settledHere, goal,
                         served, spent, task>>,
             pc[i] = "relist" => kept \subseteq spent[i]
      PROVE  Brought(k)'
  <2>1. pc'[i] = p /\ \A j \in Inst : j # i => pc'[j] = pc[j] BY <1>5, GotoAt
  <2>2. \A j \in Inst : Asks(j, k) => Asks(j, k)'
    BY <1>5, <2>1 DEF Asks, BeforeBody, Deciding, Closing
  <2>3. \A j \in Inst : Blind(j, k)' => Blind(j, k)
    BY <1>5, <2>1 DEF Blind, Closing
  <2>4. NewReason(k) => NewReason(k)' BY <1>5, <2>3 DEF NewReason
  <2> QED BY <1>5, <2>2, <2>4, StillBrought
<1>6. CASE LetGo(i) /\ owner = i /\ stamp
  BY <1>5, <1>6 DEF LetGo, Closing
<1>7. CASE ScanReasons(i) /\ Answered(i)
  <2>1. /\ Goto(i, "unstamp") /\ pc[i] = "scan"
        /\ UNCHANGED <<status, wake, stamp, queued, poll, recheck, settledHere, goal, task>>
        /\ \A j \in Inst : j # i => spent'[j] = spent[j]
    BY <1>7 DEF ScanReasons, TypeOK, TurnOK
  <2>2. pc'[i] = "unstamp" /\ \A j \in Inst : j # i => pc'[j] = pc[j] BY <2>1, GotoAt
  <2>3. ~NewReason(k) BY <1>7, <1>b, <2>1 DEF NewReason, Answered, Closing
  <2>4. \A j \in Inst : Asks(j, k) => Asks(j, k)'
    BY <1>1, <2>1, <2>2 DEF Asks, BeforeBody, Deciding, Closing
  <2> QED BY <2>1, <2>3, <2>4, StillBrought
<1>8. CASE Unstamp(i)
  <2>1. /\ Goto(i, "relist") /\ pc[i] = "unstamp"
        /\ UNCHANGED <<status, wake, queued, poll, recheck, settledHere, goal, task, kept, spent>>
    BY <1>8 DEF Unstamp
  <2>2. pc'[i] = "relist" /\ \A j \in Inst : j # i => pc'[j] = pc[j] BY <2>1, GotoAt
  <2>3. CASE NewReason(k)
    <3>1. ~(kept' \subseteq spent'[i]) BY <1>b, <2>1, <2>3 DEF NewReason, Closing
    <3> QED BY <2>2, <3>1 DEF Brought, Asks
  <2>4. CASE ~NewReason(k)
    <3>1. \A j \in Inst : Asks(j, k) => Asks(j, k)'
      BY <2>1, <2>2 DEF Asks, BeforeBody, Deciding, Closing
    <3>2. \/ status # "suspended" \/ wake # "far"
          \/ \E j \in Inst : Asks(j, k)
          \/ \E t \in Tasks : task[t].ph \in {"keep", "check"}
      BY <2>4 DEF Brought
    <3> QED BY <2>1, <3>1, <3>2 DEF Brought
  <2> QED BY <2>3, <2>4
<1>9. CASE Relist(i) /\ ~ (kept \subseteq spent[i])
  <2>1. pc'[i] = "restamp" BY <1>9, GotoAt DEF Relist
  <2> QED BY <2>1, AskedFor
<1>10. CASE Relist(i) /\ kept \subseteq spent[i]
  BY <1>3, <1>5, <1>10 DEF Relist, Closing
<1>11. CASE ScanReasons(i) /\ ~Answered(i) BY <1>3, <1>11 DEF ScanReasons
<1> QED BY <1>2, <1>4, <1>6, <1>7, <1>8, <1>9, <1>10, <1>11

\* What the settle of a suspended turn has not on record is the step it waits
\* for, which it looks at again, or its instance queued a resume for.
LEMMA SuspendBrings ==
  ASSUME IndInv, Calm, Suspends, NEW i \in Inst, SettleSuspended(i),
         NEW k \in Steps, Late(k)'
  PROVE  Brought(k)'
<1> USE DEF IndInv, TypeOK, JournalOK
<1>1. Waits(i) /\ goal[i].step \in Steps
  BY DEF SettleSuspended, Suspends, Deciding, WorkOK
<1>2. seen' >= goal[i].step - 1 BY SettlesObserve
<1>3. cp' = cp /\ settledHere' = settledHere /\ queued' = queued
  BY DEF SettleSuspended, own
<1>4. seen' \in Int
  <2>1. Observed(i) BY SettlesObserve
  <2> QED BY <2>1, <1>1 DEF Observed, MiscOK, Steps
<1>5. k = goal[i].step
  BY <1>1, <1>2, <1>3, <1>4 DEF Late, Waits, Steps
<1>6. CASE status' = "suspended"
  <2>1. k \in recheck'[i] BY <1>5, <1>6 DEF SettleSuspended, BackOK
  <2>2. k \in settledHere[i] => queued[i] BY <1>1, <1>5 DEF Waits
  <2> QED BY <1>3, <2>1, <2>2 DEF Brought, Asks
<1>7. CASE status' # "suspended" BY <1>7 DEF Brought
<1> QED BY <1>6, <1>7

\* Each step of a turn leaves what is late brought.
LEMMA TurnBrings ==
  ASSUME IndInv, Calm, WakeParts, NEW i \in Inst, TurnStep(i), seen' < NSteps,
         NEW k \in Steps, Late(k)'
  PROVE  Brought(k)'
<1> USE DEF IndInv, TypeOK, JournalOK, TurnOK, row, job, lease, journal, store, own, mem, back,
            misc, past
<1>0. ASSUME Late(k) PROVE Brought(k) BY <1>0 DEF WakeParts, LateBrought
<1>1. CASE ReadRun(i)
  <2>1. status \notin Terminal BY DEF Calm, Unended, Terminal
  <2>2. pc'[i] \in BeforeBody BY <1>1, <2>1, GotoAt DEF ReadRun, BeforeBody
  <2> QED BY <2>2, AskedFor
<1>2. CASE ProveOwnLease(i) \/ LockForTurn(i) \/ ClearStamp(i) \/ ListReasons(i) \/ MarkStarted(i)
  <2>1. \E p \in BeforeBody : Goto(i, p)
    BY <1>2
    DEF ProveOwnLease, LockForTurn, ClearStamp, ListReasons, MarkStarted, AfterClear, BeforeBody
  <2> QED BY <2>1, GotoAt, AskedFor
<1>3. CASE RefuseTurn(i)
  <2>1. PICK t \in Tasks : task'[t].ph = "keep" BY <1>3 DEF RefuseTurn, MiscOK
  <2> QED BY <2>1 DEF Brought
<1>4. CASE Body(i)
  <2>1. PICK m : pc'[i] \in Deciding /\ goal'[i].step = m
                 /\ (m = NSteps + 1 \/ (m \in Steps /\ ~Settled(m)))
    BY <1>4, GotoAt DEF Body, Aim, Awaits, Deciding
  <2>2. cp[k] = "settled" BY <1>4 DEF Late, Body
  <2>3. \A j \in 1 .. k - 1 : cp[j] = "settled" BY <2>2 DEF WakeParts, InSequence
  <2>4. m \in Steps => ~Settled(m) BY <2>1, RunTurnsAssumption DEF Steps
  <2>5. m > k
    BY <2>1, <2>2, <2>3, <2>4, RunTurnsAssumption DEF Steps, Settled
  <2> QED BY <2>1, <2>5 DEF Brought, Asks
<1>5. CASE SaveStep(i)
  <2>1. goal[i].kind = "suspend" /\ pc[i] \in Deciding /\ goal[i].step \in Steps /\ goal' = goal
    BY <1>5 DEF SaveStep, WorkOK, Deciding
  <2>2. Waits(i) BY <2>1 DEF WakeParts, Suspends
  <2>3. k # goal[i].step /\ cp[k] = "settled" BY <1>5, <2>1 DEF Late, SaveStep
  <2>4. goal[i].step > k
    <3>1. k > goal[i].step => cp[k] = "absent" BY <2>2 DEF Waits
    <3>2. ~(k > goal[i].step) BY <2>3, <3>1
    <3> QED BY <2>1, <2>3, <3>2 DEF Steps
  <2>5. pc'[i] \in Deciding BY <1>5, GotoAt DEF SaveStep, Deciding
  <2> QED BY <2>1, <2>4, <2>5 DEF Brought, Asks
<1>6. CASE SendStep(i)
  <2>1. UNCHANGED <<status, wake, stamp, cp, kept, queued, poll, recheck, settledHere, goal, served,
                    spent, task, seen>>
    BY <1>6 DEF SendStep
  <2>2. /\ pc[i] = "send" /\ pc'[i] = "settle" /\ \A j \in Inst : j # i => pc'[j] = pc[j]
    BY <1>6, GotoAt DEF SendStep
  <2>3. \A j \in Inst : Asks(j, k) => Asks(j, k)'
    BY <2>1, <2>2 DEF Asks, BeforeBody, Deciding
  <2>4. \A j \in Inst : Blind(j, k)' => Blind(j, k) BY <2>1, <2>2 DEF Blind, Deciding
  <2>5. NewReason(k) => NewReason(k)' BY <2>1, <2>4 DEF NewReason
  <2>6. Brought(k) BY <1>0, <2>1 DEF Late
  <2> QED BY <2>1, <2>3, <2>5, <2>6, StillBrought
<1>7. CASE SettleCompleted(i)
  <2>1. goal[i].step = NSteps + 1 BY <1>7 DEF SettleCompleted, WorkOK
  <2>2. seen' >= NSteps BY <1>7, <2>1, SettlesObserve, RunTurnsAssumption
  <2>3. seen' \in Int
    BY <1>7, <2>1, SettlesObserve, RunTurnsAssumption DEF Observed, MiscOK
  <2> QED BY <2>2, <2>3, RunTurnsAssumption
<1>8. CASE SettleSuspended(i) BY <1>8, SuspendBrings DEF WakeParts
<1>9. CASE SettleBlocked(i)
  <2>1. status' = "blocked"
    BY <1>9 DEF SettleBlocked, Calm, Unended, SettleEligible
  <2> QED BY <2>1 DEF Brought
<1>10. CASE UnlockBlocked(i)
  <2>1. UNCHANGED <<status, wake, stamp, cp, kept, queued, poll, recheck, settledHere, goal, served,
                    spent, task, seen>>
    BY <1>10 DEF UnlockBlocked
  <2>2. /\ pc[i] = "unlock" /\ pc'[i] = "release" /\ \A j \in Inst : j # i => pc'[j] = pc[j]
    BY <1>10, GotoAt DEF UnlockBlocked
  <2>3. \A j \in Inst : Asks(j, k) => Asks(j, k)'
    BY <2>1, <2>2 DEF Asks, BeforeBody, Deciding
  <2>4. \A j \in Inst : Blind(j, k)' => Blind(j, k)
    BY <2>1, <2>2 DEF Blind, Deciding, Closing
  <2>5. NewReason(k) => NewReason(k)' BY <2>1, <2>4 DEF NewReason
  <2>6. Brought(k) BY <1>0, <2>1 DEF Late
  <2> QED BY <2>1, <2>3, <2>5, <2>6, StillBrought
<1>11. CASE Release(i)
  <2>1. status \notin Terminal BY DEF Calm, Unended, Terminal
  <2>2. Brought(k) BY <1>0, <1>11 DEF Late, Release
  <2> QED BY <1>11, <2>1, <2>2, EndBrings DEF Release
<1>12. CASE LetGo(i) \/ ScanReasons(i) \/ Unstamp(i) \/ Relist(i) \/ Restamp(i)
  <2>1. Late(k)
    BY <1>12 DEF Late, LetGo, ScanReasons, Unstamp, Relist, Restamp
  <2> QED BY <1>0, <1>12, <2>1, LettingGoBrings DEF WakeParts
<1> QED BY <1>1, <1>2, <1>3, <1>4, <1>5, <1>6, <1>7, <1>8, <1>9, <1>10, <1>11, <1>12 DEF TurnStep

\* A refused wake keeps a reason nobody answered before it stamps.
LEMMA WakeBrings ==
  ASSUME IndInv, NoFaults, NEW t \in Tasks, WakeStep(t), NEW k \in Steps, Brought(k)
  PROVE  Brought(k)'
<1> USE DEF IndInv, TypeOK, MiscOK, row, job, lease, journal, store, turn, own, mem, back, inst
<1>0. ~Spend("faults") BY DEF NoFaults, Spend
<1>1. CASE KeepReason(t)
  <2>1. PICK r \in Reasons \ IdsInUse : kept' = kept \union {r}
    BY <1>0, <1>1 DEF KeepReason
  <2>2. UNCHANGED <<pc, goal, served, spent>> /\ task'[t].ph = "stamp"
    BY <1>1 DEF KeepReason, Wakes
  <2>3. \A i \in Inst : r \notin served[i] \union spent[i] BY <2>1 DEF IdsInUse
  <2>4. NewReason(k)' BY <2>1, <2>2, <2>3 DEF NewReason
  <2> QED BY <2>2, <2>4 DEF Brought
<1>a. UNCHANGED <<pc, queued, goal, served, spent, kept, poll, recheck, settledHere>>
      => /\ \A i \in Inst : Asks(i, k) => Asks(i, k)'
         /\ NewReason(k) => NewReason(k)'
  BY DEF Asks, NewReason, Blind
<1>2. CASE StampWake(t)
  <2>1. UNCHANGED <<pc, queued, goal, served, spent, kept, poll, recheck, settledHere, status, wake>>
    BY <1>2 DEF StampWake
  <2>2. stamp' /\ task[t].ph = "stamp" /\ \A u \in Tasks : u # t => task'[u] = task[u]
    BY <1>2 DEF StampWake
  <2> QED BY <1>a, <2>1, <2>2, StillBrought
<1>3. CASE StampGone(t)
  BY <1>3 DEF StampGone, Brought
<1>4. CASE StampFailed(t) BY <1>0, <1>4 DEF StampFailed
<1>5. CASE ProbeLease(t)
  <2>1. /\ UNCHANGED <<pc, queued, goal, served, spent, kept, poll, recheck, settledHere, status,
                       wake, stamp>>
        /\ task[t].ph = "probe" /\ \A u \in Tasks : u # t => task'[u] = task[u]
    BY <1>5 DEF ProbeLease
  <2> QED BY <1>a, <2>1, StillBrought
<1>6. CASE CheckWoken(t)
  <2>1. task[t].at \in Inst BY <1>6 DEF CheckWoken, WorkOK
  <2>2. CASE status \in {"suspended", "blocked"}
    BY <1>6, <2>1, <2>2, RequestAsks DEF CheckWoken
  <2>3. CASE status \notin {"suspended", "blocked"}
    BY <1>6, <2>3 DEF CheckWoken, Brought
  <2> QED BY <2>2, <2>3
<1> QED BY <1>1, <1>2, <1>3, <1>4, <1>5, <1>6 DEF WakeStep

\* So does every other step: a result is settled with a resume.
LEMMA OthersBring ==
  ASSUME IndInv, QuietOK, OnlyUp, Calm, WakeParts,
         \/ \E i \in Inst : PollStep(i) \/ TimerStep(i)
         \/ \E m \in Steps : ResultStep(m)
         \/ Environment
         \/ UNCHANGED vars,
         NEW k \in Steps, Late(k)'
  PROVE  Brought(k)'
<1> USE DEF IndInv, TypeOK, JournalOK, BackOK, MiscOK, row, job, lease, journal, store, turn, own,
            mem, back, inst, misc, past
<1>0. ASSUME Late(k) PROVE Brought(k) BY <1>0 DEF WakeParts, LateBrought
<1>a. UNCHANGED <<pc, queued, goal, served, spent, poll, recheck, settledHere>> /\ kept \subseteq kept'
      => /\ \A i \in Inst : Asks(i, k) => Asks(i, k)'
         /\ NewReason(k) => NewReason(k)'
  <2> SUFFICES ASSUME UNCHANGED <<pc, queued, goal, served, spent, poll, recheck, settledHere>>,
                      kept \subseteq kept'
               PROVE  /\ \A i \in Inst : Asks(i, k) => Asks(i, k)'
                      /\ NewReason(k) => NewReason(k)'
    OBVIOUS
  <2>1. \A i \in Inst : Asks(i, k) => Asks(i, k)' BY DEF Asks
  <2>2. NewReason(k) => NewReason(k)' BY DEF NewReason, Blind
  <2> QED BY <2>1, <2>2
<1>1. ASSUME NEW i \in Inst, PollStep(i) PROVE Brought(k)'
  <2>1. CASE PollResume(i) BY <2>1, RequestAsks DEF PollResume
  <2>2. CASE PollList(i) \/ PollLock(i)
    <3>1. /\ UNCHANGED <<pc, queued, goal, served, spent, kept, recheck, settledHere, status, wake,
                         stamp, task, cp, seen>>
          /\ poll[i] # "locked" /\ \A j \in Inst : j # i => poll'[j] = poll[j]
      BY <2>2 DEF PollList, PollLock
    <3>2. \A j \in Inst : Asks(j, k) => Asks(j, k)' BY <3>1 DEF Asks
    <3>3. NewReason(k) => NewReason(k)' BY <3>1 DEF NewReason, Blind
    <3>4. Brought(k) BY <1>0, <3>1 DEF Late
    <3> QED BY <3>1, <3>2, <3>3, <3>4, StillBrought
  <2> QED BY <1>1, <2>1, <2>2 DEF PollStep
<1>2. ASSUME NEW i \in Inst, TimerStep(i) PROVE Brought(k)'
  <2>1. CASE RetryDroppedWake(i)
    <3>1. /\ UNCHANGED <<pc, queued, goal, served, spent, kept, poll, recheck, settledHere, status,
                         wake, stamp, cp, seen>>
          /\ \A t \in Tasks : task'[t] = task[t] \/ task[t].ph = "none"
      BY <2>1 DEF RetryDroppedWake
    <3>2. Brought(k) BY <1>0, <3>1 DEF Late
    <3> QED BY <1>a, <3>1, <3>2, StillBrought
  <2>2. CASE RecheckWait(i)
    <3>1. PICK m \in recheck[i] :
             /\ recheck' = [recheck EXCEPT ![i] = @ \ {m}]
             /\ IF cp[m] = "settled" /\ m \notin settledHere[i]
                THEN Request(i) ELSE UNCHANGED <<pc, queued, mem>>
             /\ UNCHANGED <<kept, poll, settledHere, status, wake, stamp, cp, seen, task>>
      BY <2>2 DEF RecheckWait
    <3>2. CASE cp[m] = "settled" /\ m \notin settledHere[i]
      BY <3>1, <3>2, RequestAsks
    <3>3. CASE ~(cp[m] = "settled" /\ m \notin settledHere[i])
      <4>1. UNCHANGED <<pc, queued, goal, served, spent>> BY <3>1, <3>3
      <4>2. cp[k] = "settled" /\ Brought(k) BY <1>0, <3>1 DEF Late
      <4>3. \A j \in Inst : k \in recheck[j] \ settledHere[j] => k \in recheck'[j] \ settledHere'[j]
        BY <3>1, <3>3, <4>2
      <4>4. \A j \in Inst : Asks(j, k) => Asks(j, k)' BY <3>1, <4>1, <4>3 DEF Asks
      <4>5. NewReason(k) => NewReason(k)' BY <3>1, <4>1 DEF NewReason, Blind
      <4> QED BY <3>1, <4>2, <4>4, <4>5, StillBrought
    <3> QED BY <3>2, <3>3
  <2> QED BY <1>2, <2>1, <2>2 DEF TimerStep
<1>b. CASE /\ UNCHANGED <<pc, queued, goal, served, spent, poll, recheck, settledHere, status, task,
                          cp, seen>>
           /\ kept \subseteq kept' /\ (wake # "far" => wake' # "far") /\ (stamp => stamp')
  <2>1. Brought(k) BY <1>0, <1>b DEF Late
  <2> QED BY <1>a, <1>b, <2>1, StillBrought
<1>3. ASSUME NEW m \in Steps, ResultStep(m) PROVE Brought(k)'
  <2>1. CASE SettleResult(m)
    <3>1. res[m].at \in Inst /\ Request(res[m].at) BY <2>1 DEF SettleResult, OnlyUp
    <3> QED BY <3>1, RequestAsks
  <2>2. ASSUME NEW i \in Inst, TakeResult(i, m) PROVE Brought(k)'
    <3>1. ~Ended BY DEF Calm, Unended, Ended, Terminal
    <3> QED BY <1>b, <2>2, <3>1 DEF TakeResult
  <2>3. CASE GraceOver(m) \/ MarkOwed(m) \/ KeepOwed(m) \/ StampOwed(m)
    BY <1>b, <2>3 DEF GraceOver, MarkOwed, KeepOwed, StampOwed
  <2> QED BY <1>3, <2>1, <2>2, <2>3 DEF ResultStep
<1>4. CASE Environment
  BY <1>b, <1>4, QuietEnvironment DEF LeaseLapses, TimerDue, Renew
<1>5. CASE UNCHANGED vars BY <1>b, <1>5 DEF vars
<1> QED BY <1>1, <1>2, <1>3, <1>4, <1>5

\* No bound is ever raised.
LEMMA FaultsStay == ASSUME IndInv, QuietOK, NoFaults, [Next]_vars PROVE NoFaults'
<1> USE DEF IndInv, TypeOK, MiscOK, misc, past, NoFaults
<1>a. budget' = budget => NoFaults' OBVIOUS
<1>b. ASSUME NEW b \in Disturbances, Spend(b) PROVE b # "faults" /\ NoFaults'
  BY <1>b DEF Spend, Disturbances
<1>1. ASSUME NEW i \in Inst, TurnStep(i) PROVE NoFaults'
  <2>1. CASE Body(i) BY <1>a, <1>b, <2>1 DEF Body, Disturbances
  <2>2. CASE ~Body(i)
    BY <1>1, <1>a, <2>2
    DEF TurnStep, ReadRun, ProveOwnLease, LockForTurn, RefuseTurn, ClearStamp, ListReasons,
        MarkStarted, SaveStep, SendStep, SettleCompleted, SettleSuspended, SettleBlocked,
        UnlockBlocked, Release, LetGo, ScanReasons, Unstamp, Relist, Restamp
  <2> QED BY <2>1, <2>2
<1>2. ASSUME NEW i \in Inst, PollStep(i) \/ TimerStep(i) \/ RecoverStep(i) PROVE NoFaults'
  BY <1>2, <1>a
  DEF PollStep, PollList, PollLock, PollResume, TimerStep, RetryDroppedWake, RecheckWait,
      RecoverStep, RecoverList, RecoverSelf, RecoverLock, RecoverCheck, RecoverResend, RecoverPark,
      RecoverCount, RecoverRepend, RecoverFree
<1>3. ASSUME NEW t \in Tasks, WakeStep(t) PROVE NoFaults'
  BY <1>3, <1>a, <1>b
  DEF WakeStep, KeepReason, StampWake, StampGone, StampFailed, ProbeLease, CheckWoken, Disturbances
<1>4. ASSUME NEW m \in Steps, ResultStep(m) PROVE NoFaults'
  BY <1>4, <1>a, <1>b
  DEF ResultStep, TakeResult, SettleResult, GraceOver, MarkOwed, KeepOwed, StampOwed, Disturbances
<1>5. CASE Environment
  BY <1>a, <1>5, QuietEnvironment DEF LeaseLapses, TimerDue, Renew
<1>6. CASE UNCHANGED vars BY <1>a, <1>6 DEF vars
<1> QED BY <1>1, <1>2, <1>3, <1>4, <1>5, <1>6 DEF Next, Finished

\* WakeInv is inductive, beside QuietInv.
LEMMA WakeInvStep == ASSUME IndInv, QuietInv, WakeInv, [Next]_vars PROVE WakeInv'
<1>1. NoFaults' BY FaultsStay DEF QuietInv, WakeInv
<1>2. ASSUME seen' < NSteps PROVE WakeParts'
  <2>1. seen \in Nat BY DEF IndInv, TypeOK, MiscOK
  <2>2. seen < NSteps BY <1>2, <2>1, SeenGrows, RunTurnsAssumption
  <2>3. Calm /\ WakeParts BY <2>2 DEF QuietInv, WakeInv
  <2>4. QuietOK /\ OnlyUp /\ SettledInv /\ NoFaults BY DEF QuietInv, WakeInv
  <2>5. InSequence' BY <2>3, <2>4, SequenceKept DEF WakeParts
  <2>6. HereSettled' BY <2>3, <2>4, HereKept DEF WakeParts
  <2>7. SeenOnceClosed' BY <2>3, <2>4, ClosedKept DEF WakeParts
  <2>8. Suspends' BY <2>3, <2>4, SuspendsKept DEF WakeParts
  <2>9. ASSUME NEW k \in Steps, Late(k)' PROVE Brought(k)'
    <3>1. ASSUME NEW i \in Inst, TurnStep(i) PROVE Brought(k)'
      BY <1>2, <2>3, <2>9, <3>1, TurnBrings
    <3>2. ASSUME NEW i \in Inst, RecoverStep(i) PROVE Brought(k)'
      BY <2>3, <2>4, <3>2, NoOrphans
    <3>3. ASSUME NEW t \in Tasks, WakeStep(t) PROVE Brought(k)'
      <4>1. cp' = cp /\ seen' = seen
        BY <3>3
        DEF WakeStep, KeepReason, StampWake, StampGone, StampFailed, ProbeLease, CheckWoken, store,
            journal, misc, past
      <4>2. Brought(k) BY <2>3, <2>9, <4>1 DEF Late, WakeParts, LateBrought
      <4> QED BY <2>4, <3>3, <4>2, WakeBrings
    <3>4. CASE \/ \E i \in Inst : PollStep(i) \/ TimerStep(i)
               \/ \E m \in Steps : ResultStep(m)
               \/ Environment
               \/ UNCHANGED vars
      BY <2>3, <2>4, <2>9, <3>4, OthersBring
    <3> QED BY <3>1, <3>2, <3>3, <3>4 DEF Next, Finished
  <2> QED BY <2>5, <2>6, <2>7, <2>8, <2>9 DEF WakeParts, LateBrought
<1> QED BY <1>1, <1>2 DEF WakeInv

\* At first no reason is kept and no wake is owed.
LEMMA WakeInit == ASSUME Init, limits["faults"] = 0 PROVE WakeInv
<1> USE DEF Init
<1>1. NoFaults BY DEF NoFaults
<1>2. InSequence /\ HereSettled BY DEF InSequence, HereSettled
<1>3. SeenOnceClosed BY DEF SeenOnceClosed, Ending, Closing
<1>4. Suspends BY DEF Suspends, Deciding
<1>5. LateBrought BY DEF LateBrought, Late
<1> QED BY <1>1, <1>2, <1>3, <1>4, <1>5 DEF WakeInv, WakeParts

\* requestWake, letGoOfSuspendedTurn and recheckWaitSeqs lose no wake, however
\* many instances, steps, reasons and refused wakes there are, handlers that
\* outlive their grace and blocked dispatches included: as long as no instance
\* dies or stalls, nobody cancels, and the store does not fail under a refused
\* wake, an acknowledged result that no settled turn has read is still brought
\* a turn.
THEOREM NoWakeIsLost == Spec /\ Quiet /\ limits["faults"] = 0 => []WakeOwed
<1>1. Init /\ Quiet /\ limits["faults"] = 0 => IndInv /\ QuietInv /\ WakeInv
  BY IndInit, QuietInit, WakeInit
<1>2. IndInv /\ QuietInv /\ WakeInv /\ [Next]_vars => IndInv' /\ QuietInv' /\ WakeInv'
  BY IndStep, QuietInvStep, WakeInvStep
<1>3. IndInv /\ QuietInv /\ WakeInv => WakeOwed
  <2> SUFFICES ASSUME IndInv, QuietInv, WakeInv, NEW k \in Steps, Unread(k)
               PROVE  DurablyDue \/ InMemory(k)
    BY DEF WakeOwed
  <2>1. k > seen /\ cp[k] = "settled" BY DEF Unread
  <2>2. seen < NSteps BY <2>1, RunTurnsAssumption DEF IndInv, TypeOK, MiscOK, Steps
  <2>3. Brought(k) /\ Calm
    BY <2>1, <2>2 DEF QuietInv, WakeInv, WakeParts, LateBrought, Late
  <2>4. CASE status # "suspended" \/ wake # "far" \/ stamp
    BY <2>3, <2>4 DEF Calm, Unended, DurablyDue
  <2>5. ASSUME NEW i \in Inst, Asks(i, k) PROVE InMemory(k)
    BY <2>5 DEF Asks, InMemory, Deciding, AfterBody
  <2>6. CASE \E t \in Tasks : task[t].ph # "none" BY <2>6 DEF InMemory
  <2> QED BY <2>3, <2>4, <2>5, <2>6 DEF Brought
<1> QED BY <1>1, <1>2, <1>3, PTL DEF Spec
=============================================================================
