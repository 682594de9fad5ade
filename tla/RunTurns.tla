------------------------------ MODULE RunTurns ------------------------------
(***************************************************************************)
(* One durable run and the engine instances that execute it.               *)
(*                                                                         *)
(* A run is a row of the state store (status, lease, timer, wake stamp).   *)
(* Instances execute it in TURNS: take the lease, replay the journal, run  *)
(* the workflow body up to the next step whose result is missing, settle   *)
(* the run `suspended' or `completed', let go of the lease.  Step results  *)
(* arrive at any instance, at least once; a wake that finds the run leased *)
(* elsewhere leaves a stamp on the row for the holder.                     *)
(*                                                                         *)
(* Every call of engine.ts that changes the store, and every read a later  *)
(* call acts on, is one action: what other instances do between two of     *)
(* them is what the properties are about.  Clocks are abstracted: a lease  *)
(* is live until it lapses, a timer is "far" (absent, or beyond the        *)
(* horizon), "soon" (at most a lease away) or "due".                       *)
(***************************************************************************)
EXTENDS Integers, FiniteSets

CONSTANTS
    Inst,          \* engine instances (their instanceId survives a restart)
    NoOne,         \* an unowned lease
    NSteps,        \* the body awaits steps 1..NSteps, one after the other
    Reasons,       \* ids of kept wake-request events
    Tasks,         \* refused wakes under way at one time
    LetGoRounds,   \* rounds of letGoOfSuspendedTurn (5 in the code)
    MaxRecovery,   \* maxRecoveryAttempts
    Environments   \* bounds: how often each disturbance may happen

Steps == 1 .. NSteps

\* The disturbances: an instance dies; a lease lapses under a holder at work;
\* a result handler's resume outlives its grace; a dispatch finds no capable
\* worker; an operator cancels or the execution timeout fires; the store fails
\* while a refused wake is recorded; the run has one instance only (not spent).
Disturbances == {"crashes", "stalls", "graces", "blocks", "cancels", "faults",
                 "alone"}

ASSUME RunTurnsAssumption ==
    /\ NoOne \notin Inst
    /\ NSteps \in Nat \ {0}
    /\ LetGoRounds \in Nat \ {0}
    /\ MaxRecovery \in Nat
    /\ Environments \subseteq [Disturbances -> Nat]

VARIABLES
    \* the run's row
    status, owner, live, wake, stamp, attempts, preboot,
    \* the rest of the store: journal, what was journalled since the row's
    \* last updatedAt, and the kept wake-request events
    cp, fresh, kept,
    \* per instance: the turn being executed and the in-process gate
    up, pc, snap, served, spent, fence, queued, lockedForTurn, goal, round,
    \* per instance: background work
    poll, rec, timer, recheck, settledHere,
    \* refused wakes, step results
    task, res,
    \* an operator's cancel, history, bounds and what is left of them
    cancel, seen, limits, budget

\* Frames.
job     == <<status, wake, stamp, attempts>>
lease   == <<owner, live, preboot>>
row     == <<job, lease>>
journal == <<cp, fresh, kept>>
store   == <<row, journal>>
mem     == <<snap, served, spent, fence, goal, round>>
own     == <<queued, lockedForTurn, mem>>
turn    == <<pc, own>>
back    == <<poll, rec, timer, recheck, settledHere>>
inst    == <<up, turn, back>>
past    == <<cancel, seen, limits, budget>>
misc    == <<task, res, past>>
vars    == <<store, inst, misc>>

Terminal == {"completed", "failed", "cancelled", "dead"}
Status   == {"pending", "running", "suspended", "blocked"} \union Terminal

\* SETTLE_ELIGIBLE_STATUSES: what a turn's outcome may be written over.
SettleEligible == {"pending", "running", "suspended", "blocked", "failed"}

-----------------------------------------------------------------------------
(* The store's conditional writes on the lease.                            *)

TryLockUnguarded(i) == owner' = i /\ live' = TRUE /\ preboot' = FALSE
TryLock(i) == ~live /\ owner' = i /\ live' = TRUE /\ preboot' = FALSE

FreeLease == owner' = NoOne /\ live' = FALSE /\ preboot' = FALSE

ReleaseOwned(i) == IF owner = i THEN FreeLease
                   ELSE UNCHANGED lease

Spend(b) == budget[b] > 0 /\ budget' = [budget EXCEPT ![b] = @ - 1]

-----------------------------------------------------------------------------
(* The in-process gate: a resume that lands while the run executes here is *)
(* queued behind it, and those that land while one is queued join it.      *)

Request(i) == /\ IF pc[i] = "idle"
                 THEN pc' = [pc EXCEPT ![i] = "read"] /\ UNCHANGED queued
                 ELSE queued' = [queued EXCEPT ![i] = TRUE] /\ UNCHANGED pc
              /\ UNCHANGED mem

\* What the end of i's turn does to the result handlers waiting for it; the
\* handlers of the queued resume now wait for the turn that starts.
HandlersAfter(i, ph) ==
    [k \in Steps |->
        CASE res[k].at = i /\ res[k].ph = "turn"   -> [res[k] EXCEPT !.ph = ph]
          [] res[k].at = i /\ res[k].ph = "queued" -> [res[k] EXCEPT !.ph = "turn"]
          [] OTHER                                 -> res[k]]

NoSnap == [status |-> "pending", mine |-> FALSE, stamp |-> FALSE]
NoGoal == [kind |-> "none", step |-> 0]

CloseTurnDropping(i, again, ph) ==
    /\ pc' = [pc EXCEPT ![i] = IF again THEN "read" ELSE "idle"]
    /\ queued' = [queued EXCEPT ![i] = FALSE]
    /\ res' = HandlersAfter(i, ph)
    /\ snap' = [snap EXCEPT ![i] = NoSnap] /\ served' = [served EXCEPT ![i] = {}]
    /\ spent' = [spent EXCEPT ![i] = {}] /\ fence' = [fence EXCEPT ![i] = FALSE]
    /\ goal' = [goal EXCEPT ![i] = NoGoal] /\ round' = [round EXCEPT ![i] = 0]

\* The turn is over: its marks are dropped and the queued resume starts.
CloseTurn(i, again, ph) ==
    /\ pc'     = [pc EXCEPT ![i] = IF queued[i] \/ again THEN "read" ELSE "idle"]
    /\ queued' = [queued EXCEPT ![i] = FALSE]
    /\ snap'   = [snap EXCEPT ![i] = NoSnap]
    /\ served' = [served EXCEPT ![i] = {}]
    /\ spent'  = [spent EXCEPT ![i] = {}]
    /\ fence'  = [fence EXCEPT ![i] = FALSE]
    /\ goal'   = [goal EXCEPT ![i] = NoGoal]
    /\ round'  = [round EXCEPT ![i] = 0]
    /\ res'    = HandlersAfter(i, ph)

EndTurn(i, again) == CloseTurn(i, again, "acked")

Goto(i, p) == pc' = [pc EXCEPT ![i] = p]

-----------------------------------------------------------------------------
(* A turn, up to the body: resumeRunNow and execute.                       *)

ReadRun(i) ==
    /\ pc[i] = "read"
    /\ lockedForTurn' = [lockedForTurn EXCEPT ![i] = FALSE]
    /\ \/ /\ status \in Terminal
          /\ EndTurn(i, FALSE)
       \/ /\ status \notin Terminal
          /\ LET mine == owner = i /\ live IN
             /\ snap' = [snap EXCEPT ![i] = [status |-> status, mine |-> mine,
                                             stamp |-> stamp]]
             /\ Goto(i, IF ~mine THEN "lock"
                        ELSE IF lockedForTurn[i] THEN "clear" ELSE "own")
          /\ UNCHANGED <<queued, served, spent, fence, goal, round, res>>
    /\ UNCHANGED <<store, up, back, task, past>>

\* proveOwnLease: renew by owner, whether or not the lease has lapsed.
ProveOwnLease(i) ==
    /\ pc[i] = "own"
    /\ IF owner = i
       THEN live' = TRUE /\ preboot' = FALSE /\ Goto(i, "clear")
       ELSE UNCHANGED <<live, preboot>> /\ Goto(i, "lock")
    /\ UNCHANGED <<job, owner, journal, up, own, back, misc>>

LockForTurn(i) ==
    /\ pc[i] = "lock"
    /\ TryLock(i)
    /\ Goto(i, "clear")
    /\ UNCHANGED <<job, journal, up, own, back, misc>>

\* The lease is somebody's: the wake is refused and asks for another turn.
RefuseTurn(i) ==
    /\ pc[i] = "lock"
    /\ live
    /\ \E t \in Tasks :
          /\ task[t].ph = "none"
          /\ task' = [task EXCEPT ![t] =
                [ph |-> "keep", at |-> i,
                 for |-> {k \in Steps : res[k].at = i /\ res[k].ph = "turn"}]]
    /\ CloseTurn(i, FALSE, "refused")
    /\ UNCHANGED <<store, up, lockedForTurn, back, past>>

\* The turn serves the wakes that asked for it: drop the stamp the snapshot
\* carried, then note which reasons it answers.
AfterClear(i) == IF snap[i].status = "pending" THEN "start" ELSE "body"

ClearStamp(i) ==
    /\ pc[i] = "clear"
    /\ IF snap[i].stamp THEN stamp' = FALSE /\ Goto(i, "reasons")
                        ELSE UNCHANGED stamp /\ Goto(i, AfterClear(i))
    /\ UNCHANGED <<status, lease, wake, attempts, journal, up, own, back,
                   misc>>

ListReasons(i) ==
    /\ pc[i] = "reasons"
    /\ served' = [served EXCEPT ![i] = kept]
    /\ Goto(i, AfterClear(i))
    /\ UNCHANGED <<store, up, queued, lockedForTurn, snap, spent, fence,
                   goal, round, back, misc>>

\* markStarted writes `running' whatever the row says by now.
MarkStarted(i) ==
    /\ pc[i] = "start"
    /\ status' = "running" /\ fresh' = {}
    /\ Goto(i, "body")
    /\ UNCHANGED <<lease, wake, stamp, attempts, cp, kept, up, own, back,
                   misc>>

-----------------------------------------------------------------------------
(* The body: run up to the first step that has not settled.                *)

Settled(k) == cp[k] = "settled"
Awaits(k)  == ~ Settled(k) /\ \A j \in 1 .. k - 1 : Settled(j)

UndispatchedOrPending(k) == cp[k] # "settled"
Undispatched(k) == cp[k] = "absent"

\* goal.step: the first step this turn did not read settled.
Aim(i, kind, k) == goal' = [goal EXCEPT ![i] = [kind |-> kind, step |-> k]]

Body(i) ==
    /\ pc[i] = "body"
    /\ \/ /\ \A k \in Steps : Settled(k)
          /\ Aim(i, "complete", NSteps + 1) /\ Goto(i, "settle")
          /\ UNCHANGED budget
       \/ \E k \in Steps : Awaits(k) /\
             \/ /\ ~ Undispatched(k)
                /\ Aim(i, "suspend", k) /\ Goto(i, "settle")
                /\ UNCHANGED budget
             \/ /\ Undispatched(k)
                /\ Aim(i, "suspend", k) /\ Goto(i, "save")
                /\ UNCHANGED budget
             \/ /\ Undispatched(k)
                /\ Aim(i, "block", k) /\ Goto(i, "settle")
                /\ Spend("blocks")
    /\ UNCHANGED <<store, up, queued, lockedForTurn, snap, served, spent,
                   fence, round, back, task, res, cancel, seen, limits>>

SaveStepUnawaited(i) ==
    /\ pc[i] = "save"
    /\ Goto(i, "send")
    /\ UNCHANGED <<store, up, own, back, misc>>

\* callRemote: the pending checkpoint is written over whatever is there, and
\* only then is the step handed to the transport.
SaveStep(i) ==
    /\ pc[i] = "save"
    /\ cp' = [cp EXCEPT ![goal[i].step] = "pending"]
    /\ fresh' = fresh \union {goal[i].step}
    /\ Goto(i, "send")
    /\ UNCHANGED <<row, kept, up, own, back, misc>>

\* One copy of a step's result is under way at a time.
Sent(k) == IF res[k].ph \in {"none", "acked"}
           THEN [ph |-> "sent", at |-> NoOne, owed |-> "none"] ELSE res[k]
Send(S) == res' = [k \in Steps |-> IF k \in S THEN Sent(k) ELSE res[k]]

SendStep(i) ==
    /\ pc[i] = "send"
    /\ Send({goal[i].step})
    /\ Goto(i, "settle")
    /\ UNCHANGED <<store, up, own, back, task, past>>

-----------------------------------------------------------------------------
(* Settling a turn.                                                        *)

\* What the turn read settled is history once its outcome is written.
Observed(i) == seen' = IF goal[i].step - 1 > seen THEN goal[i].step - 1 ELSE seen

OutcomeUnconditional(i, st, wk) ==
    IF ~fence[i] THEN status' = st /\ wake' = wk /\ fresh' = {} /\ Observed(i)
                 ELSE UNCHANGED <<status, wake, fresh, seen>>

\* An outcome is written only over a status that is still eligible; a turn
\* that knows its lease was taken writes nothing.
Outcome(i, st, wk) ==
    IF ~fence[i] /\ status \in SettleEligible
    THEN status' = st /\ wake' = wk /\ fresh' = {} /\ Observed(i)
    ELSE UNCHANGED <<status, wake, fresh, seen>>

SettleCompleted(i) ==
    /\ pc[i] = "settle" /\ goal[i].kind = "complete"
    /\ Outcome(i, "completed", wake)
    /\ Goto(i, "release")
    /\ UNCHANGED <<lease, stamp, attempts, cp, kept, up, own, back, task,
                   res, cancel, limits, budget>>

\* Only a run that now reads `suspended' is let go of the careful way, and
\* has the step it waits on looked at again.
SettleSuspended(i) ==
    /\ pc[i] = "settle" /\ goal[i].kind = "suspend"
    /\ Outcome(i, "suspended", "far")
    /\ IF status' = "suspended"
       THEN /\ recheck' = [recheck EXCEPT ![i] = @ \union {goal[i].step}]
            /\ Goto(i, "letgo")
       ELSE UNCHANGED recheck /\ Goto(i, "release")
    /\ UNCHANGED <<lease, stamp, attempts, cp, kept, up, own, poll, rec,
                   timer, settledHere, task, res, cancel, limits, budget>>

\* parkBlocked: no fence, and the lease is released whoever holds it.
SettleBlocked(i) ==
    /\ pc[i] = "settle" /\ goal[i].kind = "block"
    /\ IF status \in SettleEligible
       THEN status' = "blocked" /\ wake' = "soon" /\ fresh' = {} /\ Observed(i)
       ELSE UNCHANGED <<status, wake, fresh, seen>>
    /\ Goto(i, "unlock")
    /\ UNCHANGED <<lease, stamp, attempts, cp, kept, up, own, back, task,
                   res, cancel, limits, budget>>

UnlockBlocked(i) ==
    /\ pc[i] = "unlock"
    /\ FreeLease
    /\ Goto(i, "release")
    /\ UNCHANGED <<job, journal, up, own, back, misc>>

\* The end of every turn that did not suspend.
Release(i) ==
    /\ pc[i] = "release"
    /\ ReleaseOwned(i)
    /\ kept' = IF status \in Terminal THEN {} ELSE kept
    /\ EndTurn(i, FALSE)
    /\ UNCHANGED <<job, cp, fresh, up, lockedForTurn, back, task, past>>

-----------------------------------------------------------------------------
(* letGoOfSuspendedTurn: the lease is not let go of over a stamp, unless   *)
(* every reason kept for it is one this turn already answered.             *)

LetGo(i) ==
    /\ pc[i] = "letgo"
    /\ IF owner = i /\ stamp
       THEN /\ Goto(i, "scan")
            /\ UNCHANGED <<lease, kept, queued, mem, res>>
       ELSE /\ ReleaseOwned(i)
            /\ kept' = kept \ served[i]
            /\ EndTurn(i, FALSE)
    /\ UNCHANGED <<job, cp, fresh, up, lockedForTurn, back, task, past>>

Answered(i) == kept # {} /\ kept \subseteq served[i]

ScanReasons(i) ==
    /\ pc[i] = "scan"
    /\ IF ~ Answered(i)
       THEN EndTurn(i, TRUE) /\ UNCHANGED kept
       ELSE /\ spent' = [spent EXCEPT ![i] = kept]
            /\ kept' = {}
            /\ Goto(i, "unstamp")
            /\ UNCHANGED <<queued, snap, served, fence, goal, round, res>>
    /\ UNCHANGED <<row, cp, fresh, up, lockedForTurn, back, task, past>>

Unstamp(i) ==
    /\ pc[i] = "unstamp"
    /\ stamp' = FALSE
    /\ Goto(i, "relist")
    /\ UNCHANGED <<status, lease, wake, attempts, journal, up, own, back,
                   misc>>

Relist(i) ==
    /\ pc[i] = "relist"
    /\ \/ /\ ~ kept \subseteq spent[i]
          /\ Goto(i, "restamp")
          /\ UNCHANGED <<queued, mem, res>>
       \/ /\ kept \subseteq spent[i] /\ round[i] + 1 < LetGoRounds
          /\ round' = [round EXCEPT ![i] = @ + 1]
          /\ Goto(i, "letgo")
          /\ UNCHANGED <<queued, snap, served, spent, fence, goal, res>>
       \/ /\ kept \subseteq spent[i] /\ round[i] + 1 = LetGoRounds
          /\ EndTurn(i, TRUE)
    /\ UNCHANGED <<store, up, lockedForTurn, back, task, past>>

Restamp(i) ==
    /\ pc[i] = "restamp"
    /\ stamp' = TRUE
    /\ EndTurn(i, TRUE)
    /\ UNCHANGED <<status, lease, wake, attempts, journal, up, lockedForTurn,
                   back, task, past>>

\* The renewal of a turn under way: a refused renewal is a lost lease.
Executing == {"start", "body", "save", "send", "settle", "letgo", "scan",
              "unstamp", "relist", "restamp", "unlock", "release"}

Renew(i) ==
    /\ pc[i] \in Executing
    /\ \/ /\ owner = i /\ ~live
          /\ live' = TRUE /\ preboot' = FALSE /\ UNCHANGED fence
       \/ /\ owner # i /\ ~fence[i]
          /\ fence' = [fence EXCEPT ![i] = TRUE] /\ UNCHANGED <<live, preboot>>
    /\ UNCHANGED <<job, owner, journal, up, pc, queued, lockedForTurn, snap,
                   served, spent, goal, round, back, misc>>

-----------------------------------------------------------------------------
(* A refused wake: keep the reason, stamp the run, try the lease once more.*)

FreeTask == [ph |-> "none", at |-> NoOne, for |-> {}]
IdsInUse == kept \union UNION {served[i] \union spent[i] : i \in Inst}

KeepReason(t) ==
    /\ task[t].ph = "keep"
    /\ \/ /\ \E r \in Reasons \ IdsInUse : kept' = kept \union {r}
          /\ UNCHANGED budget
       \/ Spend("faults") /\ UNCHANGED kept
    /\ task' = [task EXCEPT ![t].ph = "stamp"]
    /\ UNCHANGED <<row, cp, fresh, inst, res, cancel, seen, limits>>

HandlersTo(S, ph) ==
    res' = [k \in Steps |-> IF k \in S THEN [res[k] EXCEPT !.ph = ph] ELSE res[k]]

\* recheckAfterLease: one timer per instance; an armed one is kept.
Arm(i, how) == timer' = IF timer[i] = "off" THEN [timer EXCEPT ![i] = how] ELSE timer

StampWake(t) ==
    /\ task[t].ph = "stamp"
    /\ status \in {"running", "suspended", "blocked"}
    /\ stamp' = TRUE
    /\ Arm(task[t].at, "stamped")
    /\ HandlersTo(task[t].for, "acked")
    /\ task' = [task EXCEPT ![t] = [@ EXCEPT !.ph = "probe", !.for = {}]]
    /\ UNCHANGED <<status, lease, wake, attempts, journal, up, turn, poll,
                   rec, recheck, settledHere, past>>

\* `gone': the run is pending or terminal, no turn is owed by a stamp.
StampGone(t) ==
    /\ task[t].ph = "stamp"
    /\ status \notin {"running", "suspended", "blocked"}
    /\ HandlersTo(task[t].for, "acked")
    /\ task' = [task EXCEPT ![t] = FreeTask]
    /\ UNCHANGED <<store, inst, past>>

StampFailedQuietly(t) ==
    /\ task[t].ph = "stamp"
    /\ Spend("faults")
    /\ HandlersTo(task[t].for, "acked")
    /\ task' = [task EXCEPT ![t] = FreeTask]
    /\ UNCHANGED <<store, inst, cancel, seen, limits>>

StampFailed(t) ==
    /\ task[t].ph = "stamp"
    /\ Spend("faults")
    /\ Arm(task[t].at, "bare")
    /\ HandlersTo(task[t].for, "mark")
    /\ task' = [task EXCEPT ![t] = FreeTask]
    /\ UNCHANGED <<store, up, turn, poll, rec, recheck, settledHere, cancel,
                   seen, limits>>

ProbeLease(t) ==
    /\ task[t].ph = "probe"
    /\ IF live
       THEN task' = [task EXCEPT ![t] = FreeTask] /\ UNCHANGED lease
       ELSE TryLock(task[t].at) /\ task' = [task EXCEPT ![t].ph = "check"]
    /\ UNCHANGED <<job, journal, inst, res, past>>

\* The lease is ours: resume a parked run, hand back anything else.
CheckWoken(t) ==
    /\ task[t].ph = "check"
    /\ IF status \in {"suspended", "blocked"}
       THEN Request(task[t].at) /\ UNCHANGED lease
       ELSE /\ ReleaseOwned(task[t].at)
            /\ UNCHANGED <<pc, queued, mem>>
    /\ task' = [task EXCEPT ![t] = FreeTask]
    /\ UNCHANGED <<job, journal, up, lockedForTurn, back, res, past>>

\* retryDroppedWake.
TimerGivesUp(i) == \/ status \in Terminal
                   \/ timer[i] = "stamped" /\ ~stamp
                   \/ ~live /\ status \notin {"suspended", "blocked"}

RetryDroppedWake(i) ==
    /\ timer[i] # "off"
    /\ timer' = [timer EXCEPT ![i] = "off"]
    /\ \/ TimerGivesUp(i) /\ UNCHANGED task
       \/ /\ ~TimerGivesUp(i) /\ ~live
          /\ \E t \in Tasks : /\ task[t].ph = "none"
                              /\ task' = [task EXCEPT ![t] =
                                    [ph |-> "probe", at |-> i, for |-> {}]]
    /\ UNCHANGED <<store, up, turn, poll, rec, recheck, settledHere, res,
                   past>>

\* recheckWaitSeqs: the step settled while the turn that parked on it ran.
RecheckWait(i) ==
    \E k \in recheck[i] :
       /\ recheck' = [recheck EXCEPT ![i] = @ \ {k}]
       /\ IF cp[k] = "settled" /\ k \notin settledHere[i]
          THEN Request(i)
          ELSE UNCHANGED <<pc, queued, mem>>
       /\ UNCHANGED <<store, up, lockedForTurn, poll, rec, timer,
                      settledHere, misc>>

-----------------------------------------------------------------------------
(* The worker tick: due timers, due blocked runs, pending runs.            *)

Due == \/ status = "suspended" /\ (stamp \/ wake = "due")
       \/ status = "blocked" /\ wake = "due"
       \/ status = "pending"

\* The listing is a snapshot; "lapsed" remembers that it showed a parked run
\* under a lease that had run out.
PollList(i) ==
    /\ up[i] /\ poll[i] = "idle" /\ Due
    /\ poll' = [poll EXCEPT ![i] =
                  IF status = "suspended" /\ owner # NoOne /\ ~live
                  THEN "lapsed" ELSE "listed"]
    /\ UNCHANGED <<store, up, turn, rec, timer, recheck, settledHere, misc>>

\* Steps of a turn that died before settling may never have been sent.
PollLock(i) ==
    /\ poll[i] \in {"listed", "lapsed"}
    /\ IF live
       THEN /\ poll' = [poll EXCEPT ![i] = "idle"]
            /\ UNCHANGED <<lease, res>>
       ELSE /\ TryLock(i)
            /\ IF poll[i] = "lapsed"
               THEN Send({k \in fresh : cp[k] = "pending"}) ELSE UNCHANGED res
            /\ poll' = [poll EXCEPT ![i] = "locked"]
    /\ UNCHANGED <<job, journal, up, turn, rec, timer, recheck, settledHere,
                   task, past>>

PollResume(i) ==
    /\ poll[i] = "locked"
    /\ Request(i)
    /\ lockedForTurn' = [lockedForTurn EXCEPT ![i] = TRUE]
    /\ poll' = [poll EXCEPT ![i] = "idle"]
    /\ UNCHANGED <<store, up, rec, timer, recheck, settledHere, misc>>

-----------------------------------------------------------------------------
(* recoverIncomplete: a `running' run whose lease is free lost its holder. *)

NoRec == [at |-> "idle", tries |-> 0]
RecGoto(i, p) == rec' = [rec EXCEPT ![i].at = p]

RecoverList(i) ==
    /\ up[i] /\ rec[i].at = "idle" /\ status = "running"
    /\ \/ ~live /\ RecGoto(i, "lock")
       \/ live /\ owner = i /\ preboot /\ pc[i] = "idle" /\ RecGoto(i, "self")
    /\ UNCHANGED <<store, up, turn, poll, timer, recheck, settledHere, misc>>

\* releaseStaleSelfLease: a lease from before this instance's boot, and no
\* turn of it in this process.
RecoverSelf(i) ==
    /\ rec[i].at = "self"
    /\ IF status = "running" /\ owner = i /\ preboot /\ pc[i] = "idle"
       THEN FreeLease /\ RecGoto(i, "lock")
       ELSE UNCHANGED lease /\ RecGoto(i, "idle")
    /\ UNCHANGED <<job, journal, up, turn, poll, timer, recheck, settledHere,
                   misc>>

RecoverLock(i) ==
    /\ rec[i].at = "lock"
    /\ IF live THEN UNCHANGED lease /\ RecGoto(i, "idle")
               ELSE TryLock(i) /\ RecGoto(i, "check")
    /\ UNCHANGED <<job, journal, up, turn, poll, timer, recheck, settledHere,
                   misc>>

\* Only a run that still reads `running' under the lease is an orphan.
RecoverCheck(i) ==
    /\ rec[i].at = "check"
    /\ rec' = [rec EXCEPT ![i] =
                 [at |-> CASE status # "running" -> "free"
                           [] status = "running" /\ \E k \in Steps : cp[k] = "pending" -> "resend"
                           [] OTHER -> "count",
                  tries |-> attempts + 1]]
    /\ UNCHANGED <<store, up, turn, poll, timer, recheck, settledHere, misc>>

\* Its work is on the transport: send what the dead turn may not have sent,
\* and restore `suspended'.
RecoverResend(i) ==
    /\ rec[i].at = "resend"
    /\ Send({k \in fresh : cp[k] = "pending"})
    /\ RecGoto(i, "park")
    /\ UNCHANGED <<store, up, turn, poll, timer, recheck, settledHere, task,
                   past>>

RecoverPark(i) ==
    /\ rec[i].at = "park"
    /\ IF status = "running" THEN status' = "suspended" /\ wake' = "far" /\ fresh' = {}
                             ELSE UNCHANGED <<status, wake, fresh>>
    /\ RecGoto(i, "free")
    /\ UNCHANGED <<lease, stamp, attempts, cp, kept, up, turn, poll, timer,
                   recheck, settledHere, misc>>

Unburied == status
Buried == IF status = "running" THEN "dead" ELSE status

PastLimitByOne(i) == rec[i].tries > MaxRecovery + 1
PastLimit(i) == rec[i].tries > MaxRecovery

\* The attempt is counted before the run is resumed; past the limit it is dead.
RecoverCount(i) ==
    /\ rec[i].at = "count"
    /\ IF PastLimit(i)
       THEN /\ status' = Buried
            /\ RecGoto(i, "free") /\ UNCHANGED attempts
       ELSE /\ attempts' = rec[i].tries
            /\ RecGoto(i, "repend") /\ UNCHANGED status
    /\ fresh' = IF status = "running" \/ ~ PastLimit(i) THEN {} ELSE fresh
    /\ UNCHANGED <<lease, wake, stamp, cp, kept, up, turn, poll, timer,
                   recheck, settledHere, misc>>

RecoverRepend(i) ==
    /\ rec[i].at = "repend"
    /\ status' = IF status = "running" THEN "pending" ELSE status
    /\ RecGoto(i, "free")
    /\ UNCHANGED <<lease, wake, stamp, attempts, journal, up, turn, poll,
                   timer, recheck, settledHere, misc>>

\* The run is re-dispatched by the tick's own listing of pending runs.
RecoverFree(i) ==
    /\ rec[i].at = "free"
    /\ ReleaseOwned(i)
    /\ RecGoto(i, "idle")
    /\ UNCHANGED <<job, journal, up, turn, poll, timer, recheck, settledHere,
                   misc>>

-----------------------------------------------------------------------------
(* A step result, delivered to any instance until it is acknowledged.      *)

\* owedDurably, on the run as read before the settle.
OwedDurably == CASE status = "suspended" /\ wake = "far"  -> "mark"
                 [] status \in {"running", "blocked"}     -> "stamp"
                 [] OTHER                                 -> "none"

EndedOrRunning == status \in Terminal \union {"running"}
Ended == status \in Terminal

TakeResult(i, k) ==
    /\ up[i] /\ res[k].ph = "sent"
    /\ IF Ended
       THEN /\ HandlersTo({k}, "acked")
            /\ cp' = IF cp[k] = "pending" /\ status \in {"failed", "dead"}
                     THEN [cp EXCEPT ![k] = "settled"] ELSE cp
       ELSE /\ res' = [res EXCEPT ![k] = [ph |-> "read", at |-> i, owed |-> OwedDurably]]
            /\ UNCHANGED cp
    /\ UNCHANGED <<row, fresh, kept, inst, task, past>>

\* Settle if still pending, then resume: a redelivered result finds its
\* checkpoint settled and still owes the resume.
SettleResult(k) ==
    /\ res[k].ph = "read"
    /\ LET i == res[k].at IN
       /\ cp' = [cp EXCEPT ![k] = "settled"]
       /\ settledHere' = [settledHere EXCEPT ![i] = @ \union {k}]
       /\ HandlersTo({k}, CASE res[k].owed = "none" -> "acked"
                            [] res[k].owed # "none" /\ pc[i] = "idle" -> "turn"
                            [] OTHER -> "queued")
       /\ Request(i)
    /\ UNCHANGED <<row, fresh, kept, up, lockedForTurn, poll, rec, timer,
                   recheck, task, past>>

\* OWED_RESUME_GRACE_MS passed before the resumed turn ended.
GraceOver(k) ==
    /\ res[k].ph \in {"turn", "queued"}
    /\ Spend("graces")
    /\ HandlersTo({k}, "mark")
    /\ UNCHANGED <<store, inst, task, cancel, seen, limits>>

\* pullRunWakesIn: a parked run's timer is pulled in to one lease from now.
MarkOwed(k) ==
    /\ res[k].ph = "mark" /\ res[k].owed = "mark"
    /\ wake' = IF status = "suspended" /\ wake = "far" THEN "soon" ELSE wake
    /\ HandlersTo({k}, "acked")
    /\ UNCHANGED <<status, lease, stamp, attempts, journal, inst, task, past>>

KeepOwed(k) ==
    /\ res[k].ph = "mark" /\ res[k].owed = "stamp"
    /\ \E r \in Reasons \ IdsInUse : kept' = kept \union {r}
    /\ HandlersTo({k}, "stamp")
    /\ UNCHANGED <<row, cp, fresh, inst, task, past>>

StampOwed(k) ==
    /\ res[k].ph = "stamp"
    /\ stamp' = IF status \in {"running", "suspended", "blocked"} THEN TRUE ELSE stamp
    /\ HandlersTo({k}, "acked")
    /\ UNCHANGED <<status, lease, wake, attempts, journal, inst, task, past>>

-----------------------------------------------------------------------------
(* An operator's plain cancel (read, then an unconditional write) and the  *)
(* execution timeout (one conditional write).                              *)

CancelRead ==
    /\ cancel = "idle" /\ status \notin Terminal
    /\ Spend("cancels")
    /\ cancel' = "write"
    /\ UNCHANGED <<store, inst, task, res, seen, limits>>

CancelWrite ==
    /\ cancel = "write"
    /\ cancel' = "idle"
    /\ status' = "cancelled" /\ fresh' = {}
    /\ UNCHANGED <<lease, wake, stamp, attempts, cp, kept, inst, task, res,
                   seen, limits, budget>>

ExecutionTimeout ==
    /\ status \in {"running", "suspended"}
    /\ Spend("cancels")
    /\ status' = "cancelled" /\ fresh' = {}
    /\ UNCHANGED <<lease, wake, stamp, attempts, cp, kept, inst, task, res,
                   cancel, seen, limits>>

-----------------------------------------------------------------------------
(* Time, crashes, restarts.                                                *)

\* i holds the lease for something it is doing now.
AtWork(i) == /\ up[i]
             /\ \/ pc[i] # "idle"
                \/ poll[i] = "locked"
                \/ rec[i].at \in {"check", "resend", "park", "count", "repend", "free"}
                \/ \E t \in Tasks : task[t].at = i /\ task[t].ph = "check"

LeaseLapses ==
    /\ live
    /\ IF owner \in Inst /\ AtWork(owner) THEN Spend("stalls") ELSE UNCHANGED budget
    /\ live' = FALSE
    /\ UNCHANGED <<job, owner, preboot, journal, inst, task, res, cancel,
                   seen, limits>>

TimerDue ==
    /\ wake = "soon" /\ wake' = "due"
    /\ UNCHANGED <<status, lease, stamp, attempts, journal, inst, misc>>

\* The instances there are.
Serving == IF limits["alone"] = 0 THEN Inst ELSE {CHOOSE i \in Inst : TRUE}

\* What is in memory is gone; an unacknowledged result is delivered again.
Crash(i) ==
    /\ up[i]
    /\ Spend("crashes")
    /\ up' = [up EXCEPT ![i] = FALSE]
    /\ pc' = [pc EXCEPT ![i] = "idle"]
    /\ snap' = [snap EXCEPT ![i] = NoSnap]
    /\ served' = [served EXCEPT ![i] = {}]
    /\ spent' = [spent EXCEPT ![i] = {}]
    /\ fence' = [fence EXCEPT ![i] = FALSE]
    /\ lockedForTurn' = [lockedForTurn EXCEPT ![i] = FALSE]
    /\ goal' = [goal EXCEPT ![i] = NoGoal]
    /\ round' = [round EXCEPT ![i] = 0]
    /\ queued' = [queued EXCEPT ![i] = FALSE]
    /\ poll' = [poll EXCEPT ![i] = "idle"]
    /\ rec' = [rec EXCEPT ![i] = NoRec]
    /\ timer' = [timer EXCEPT ![i] = "off"]
    /\ recheck' = [recheck EXCEPT ![i] = {}]
    /\ settledHere' = [settledHere EXCEPT ![i] = {}]
    /\ task' = [t \in Tasks |-> IF task[t].at = i THEN FreeTask ELSE task[t]]
    /\ res' = [k \in Steps |->
                 IF res[k].at = i /\ res[k].ph # "acked"
                 THEN [ph |-> "sent", at |-> NoOne, owed |-> "none"] ELSE res[k]]
    /\ UNCHANGED <<store, cancel, seen, limits>>

Restart(i) ==
    /\ ~up[i] /\ i \in Serving
    /\ up' = [up EXCEPT ![i] = TRUE]
    /\ preboot' = (owner = i)
    /\ UNCHANGED <<job, owner, live, journal, turn, back, misc>>

-----------------------------------------------------------------------------
Init ==
    /\ limits \in Environments /\ budget = limits
    /\ status = "pending" /\ owner = NoOne /\ live = FALSE /\ wake = "far"
    /\ stamp = FALSE /\ attempts = 0 /\ preboot = FALSE
    /\ cp = [k \in Steps |-> "absent"] /\ fresh = {} /\ kept = {}
    /\ up = [i \in Inst |-> i \in Serving]
    /\ pc = [i \in Inst |-> "idle"]
    /\ snap = [i \in Inst |-> NoSnap]
    /\ served = [i \in Inst |-> {}]
    /\ spent = [i \in Inst |-> {}]
    /\ fence = [i \in Inst |-> FALSE]
    /\ queued = [i \in Inst |-> FALSE]
    /\ lockedForTurn = [i \in Inst |-> FALSE]
    /\ goal = [i \in Inst |-> NoGoal]
    /\ round = [i \in Inst |-> 0]
    /\ poll = [i \in Inst |-> "idle"]
    /\ rec = [i \in Inst |-> NoRec]
    /\ timer = [i \in Inst |-> "off"]
    /\ recheck = [i \in Inst |-> {}]
    /\ settledHere = [i \in Inst |-> {}]
    /\ task = [t \in Tasks |-> FreeTask]
    /\ res = [k \in Steps |-> [ph |-> "none", at |-> NoOne, owed |-> "none"]]
    /\ cancel = "idle"
    /\ seen = 0

TurnStep(i) ==
    \/ ReadRun(i) \/ ProveOwnLease(i) \/ LockForTurn(i) \/ RefuseTurn(i)
    \/ ClearStamp(i) \/ ListReasons(i) \/ MarkStarted(i)
    \/ Body(i) \/ SaveStep(i) \/ SendStep(i)
    \/ SettleCompleted(i) \/ SettleSuspended(i)
    \/ SettleBlocked(i) \/ UnlockBlocked(i) \/ Release(i)
    \/ LetGo(i) \/ ScanReasons(i) \/ Unstamp(i) \/ Relist(i) \/ Restamp(i)

PollStep(i) == PollList(i) \/ PollLock(i) \/ PollResume(i)

RecoverStep(i) ==
    \/ RecoverList(i) \/ RecoverSelf(i) \/ RecoverLock(i) \/ RecoverCheck(i)
    \/ RecoverResend(i) \/ RecoverPark(i) \/ RecoverCount(i) \/ RecoverRepend(i)
    \/ RecoverFree(i)

TimerStep(i) == RetryDroppedWake(i) \/ RecheckWait(i)

WakeStep(t) ==
    \/ KeepReason(t) \/ StampWake(t) \/ StampGone(t) \/ StampFailed(t)
    \/ ProbeLease(t) \/ CheckWoken(t)

ResultStep(k) ==
    \/ \E i \in Inst : TakeResult(i, k)
    \/ SettleResult(k) \/ GraceOver(k) \/ MarkOwed(k) \/ KeepOwed(k) \/ StampOwed(k)

Environment ==
    \/ CancelRead \/ CancelWrite \/ ExecutionTimeout
    \/ LeaseLapses \/ TimerDue
    \/ \E i \in Inst : Crash(i) \/ Restart(i) \/ Renew(i)

\* A finished run needs nothing more.
Finished == status \in Terminal /\ UNCHANGED vars

Next == \/ \E i \in Inst : TurnStep(i) \/ PollStep(i) \/ RecoverStep(i) \/ TimerStep(i)
        \/ \E t \in Tasks : WakeStep(t)
        \/ \E k \in Steps : ResultStep(k)
        \/ Environment
        \/ Finished

Spec == Init /\ [][Next]_vars

\* Every thread of a live instance runs, a result is redelivered until it is
\* acknowledged, time passes, a crashed instance comes back.
Fairness ==
    /\ \A i \in Inst : /\ WF_vars(TurnStep(i)) /\ WF_vars(PollStep(i))
                       /\ WF_vars(RecoverStep(i)) /\ WF_vars(RecheckWait(i))
                       /\ WF_vars(RetryDroppedWake(i)) /\ WF_vars(Restart(i))
    /\ \A t \in Tasks : WF_vars(WakeStep(t))
    /\ \A k \in Steps : WF_vars(ResultStep(k))
    /\ WF_vars(LeaseLapses) /\ WF_vars(TimerDue)

FairSpec == Spec /\ Fairness

-----------------------------------------------------------------------------
(* Properties.                                                             *)

BeforeBody == {"read", "own", "lock", "clear", "reasons", "start", "body"}
AfterBody  == {"save", "send", "settle", "unlock", "release", "letgo", "scan",
               "unstamp", "relist", "restamp"}
Places     == {"idle"} \union BeforeBody \union AfterBody
Snaps      == [status : Status, mine : BOOLEAN, stamp : BOOLEAN]
Goals      == [kind : {"none", "complete", "suspend", "block"},
               step : 0 .. NSteps + 1]
Recoveries == [at : {"idle", "self", "lock", "check", "resend", "park", "count",
                     "repend", "free"}, tries : 0 .. MaxRecovery + 1]
Wakes      == [ph : {"none", "keep", "stamp", "probe", "check"},
               at : Inst \union {NoOne}, for : SUBSET Steps]
Results    == [ph : {"none", "sent", "read", "turn", "queued", "refused",
                     "mark", "stamp", "acked"},
               at : Inst \union {NoOne}, owed : {"none", "mark", "stamp"}]

RowOK ==
    /\ status \in Status /\ owner \in Inst \union {NoOne} /\ live \in BOOLEAN
    /\ wake \in {"far", "soon", "due"} /\ stamp \in BOOLEAN
    /\ attempts \in 0 .. MaxRecovery /\ preboot \in BOOLEAN

JournalOK ==
    /\ cp \in [Steps -> {"absent", "pending", "settled"}]
    /\ fresh \subseteq Steps /\ kept \subseteq Reasons

TurnOK ==
    /\ pc \in [Inst -> Places]
    /\ queued \in [Inst -> BOOLEAN] /\ lockedForTurn \in [Inst -> BOOLEAN]
    /\ snap \in [Inst -> Snaps]
    /\ served \in [Inst -> SUBSET Reasons] /\ spent \in [Inst -> SUBSET Reasons]
    /\ fence \in [Inst -> BOOLEAN]
    /\ goal \in [Inst -> Goals]
    /\ round \in [Inst -> 0 .. LetGoRounds - 1]

BackOK ==
    /\ up \in [Inst -> BOOLEAN]
    /\ poll \in [Inst -> {"idle", "listed", "lapsed", "locked"}]
    /\ rec \in [Inst -> Recoveries]
    /\ timer \in [Inst -> {"off", "stamped", "bare"}]
    /\ recheck \in [Inst -> SUBSET Steps] /\ settledHere \in [Inst -> SUBSET Steps]

MiscOK ==
    /\ task \in [Tasks -> Wakes]
    /\ res \in [Steps -> Results]
    /\ cancel \in {"idle", "write"} /\ seen \in 0 .. NSteps
    /\ limits \in [Disturbances -> Nat] /\ budget \in [Disturbances -> Nat]

\* Every variable stays in its domain: what the store's columns and the
\* engine's maps can hold.
TypeOK ==
    /\ RowOK /\ JournalOK /\ TurnOK /\ BackOK /\ MiscOK

\* Between marking the run started and settling it: the body's side effects.
InBody == {"start", "body", "save", "send", "settle"}

\* Until a turn has completed the run, two instances never execute it at the
\* same time: that is what the lease is for (tryLockRun: `concurrent engine
\* instances never recover the same run twice').  Not afterwards: a thread that
\* takes the lease for a moment has it taken for its own by a turn of the same
\* instance, and then releases it under that turn: a refused wake that probes
\* whether the lease is free, once the run has been completed; and, after a
\* death, a recovery.
OneExecutor ==
    seen < NSteps => \A i, j \in Inst : pc[i] \in InBody /\ pc[j] \in InBody => i = j

\* Until a turn has completed the run, a live lease is not taken or released
\* under a turn that executes by it: not by another instance, and not by another
\* thread of the same one (a timer that took it, a refused wake that gives it
\* back, a recovery).
KeepsLease == \A i \in Inst : owner = i /\ live /\ pc[i] \in InBody => owner' = i
HolderKeepsLease == [][seen < NSteps => KeepsLease]_lease

\* k's result is in the journal and no settled turn has read it yet.
Unread(k) == cp[k] = "settled" /\ k > seen /\ status \notin Terminal

\* The row alone brings the run another turn, on whatever instance is left.
DurablyDue == \/ status \in {"pending", "running", "blocked"}
              \/ status = "suspended" /\ (stamp \/ wake # "far")

\* A turn is under way that will read k, or that will find a reason it did not
\* answer and run again, or something in a process's memory will ask for one.
InMemory(k) ==
    \/ \E i \in Inst : \/ queued[i] \/ poll[i] = "locked" \/ timer[i] # "off"
                       \/ pc[i] \in BeforeBody
                       \/ pc[i] \in AfterBody /\ goal[i].step > k
                       \/ pc[i] = "restamp"
                       \/ pc[i] = "relist" /\ ~ kept \subseteq spent[i]
                       \/ k \in recheck[i] \ settledHere[i]
    \/ \E t \in Tasks : task[t].ph # "none"

\* The store has failed no write, or the run has not got past its first step.
\* (A fault at a later step may lose a wake: stampWakeRequest stamps though it
\* could not keep the reason, and the holder, which knows all the reasons it
\* finds, those of the step before, spends the stamp with them.)
StoreServed ==
    budget["faults"] = limits["faults"] \/ \A k \in Steps : k > 1 => cp[k] = "absent"

\* No lost wake: once the transport was told that a result is taken care of
\* (it will not come again), the run is still brought a turn that reads it.
WakeOwed == \A k \in Steps :
    StoreServed /\ res[k].ph = "acked" /\ Unread(k) => DurablyDue \/ InMemory(k)

\* Nobody cancels, and one instance at a time can think that it executes the
\* run: there is only one, or none of them dies or stalls.  (Where two think
\* so, the second to dispatch a step writes it back to pending: after a stall,
\* or when a recovery's claim was taken for a turn's lease.)
Undivided == /\ limits["cancels"] = 0
             /\ \/ limits["alone"] # 0
                \/ limits["crashes"] = 0 /\ limits["stalls"] = 0

\* A result is acknowledged only after it is in the journal, even if the one
\* instance there is dies holding it, and a dispatch repeated by a recovery
\* does not take it out again.
AckedIsSettled == Undivided => \A k \in Steps :
    res[k].ph = "acked" /\ status \notin Terminal => cp[k] = "settled"

\* A settled step is never journalled as pending again: the body reads the
\* journal before it dispatches, and only the executor dispatches.
SettledKept  == \A k \in Steps : cp[k] = "settled" => cp'[k] = "settled"
SettledStays == [][Undivided => SettledKept]_cp

\* The journal is written ahead: nothing is dispatched, and no result exists,
\* for a step that is not journalled; steps are journalled in the order of
\* the body, and a run completes with every one of them.
JournalFirst ==
    /\ \A k \in Steps : res[k].ph # "none" => cp[k] # "absent"
    /\ \A k \in Steps : cp[k] # "absent" => \A j \in 1 .. k : cp[j] # "absent"
    /\ status = "completed" => \A k \in Steps : cp[k] # "absent"

\* The outcome of a turn, a park, a recovery or the execution timeout is
\* never written over a run that ended meanwhile (updateRunIf). The two
\* unconditional writers are markStarted and the operator's cancel.
SettleRespectsTerminal ==
    [][(status \in Terminal) => (status' \in {status, "running", "cancelled"})]_status

Undisturbed == \A d \in Disturbances : limits[d] = 0

\* Undisturbed, the run ends: every result is read by a turn, though nothing
\* but the wake machinery brings one (no timer: reconcileMs is 0).
RunFinishes == []<>(Undisturbed => status \in Terminal)

\* A `running' run is never left to itself, however often its holder dies: it
\* is parked, re-enqueued, finished or, past the limit, dead. A run parked
\* because no worker could take its step is looked at again.
NeverLeftAlone == []<>(status # "running") /\ []<>(status # "blocked")
=============================================================================
