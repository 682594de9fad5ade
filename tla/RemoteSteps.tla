----------------------------- MODULE RemoteSteps -----------------------------
(* The remote steps of one run, over the database transport: what callRemote *)
(* does with a step's checkpoint in each turn (dispatch, wait, re-dispatch a *)
(* lost one, retry a failed one), and what a result does to it.  A step's    *)
(* stepId is its position in the run: every attempt of it is dispatched, and *)
(* answered, under the same one.  The run's lease admits one turn at a time  *)
(* (RunTurns); the steps are awaited side by side.                           *)
EXTENDS DbTransport

CONSTANTS
    NoTurn,
    RedispatchMax,  \* remoteRedispatchMax
    Scenarios       \* what TLC chooses a policy, and what goes wrong, from

\* A run's code and settings, and who else acts on it: its steps, the attempts
\* each may take, whether remoteRedispatchMs is set, whether an operator calls
\* redispatchPending, and whether signals wake it.
Policy == [steps : SUBSET Step, retries : Gen, redispatch : BOOLEAN,
           operator : BOOLEAN, woken : BOOLEAN]

ASSUME StepsAssumption ==
    /\ RedispatchMax \in Nat \ {0}
    /\ Scenarios \subseteq Policy \X Faults

VARIABLES
    policy,
    cp,         \* the checkpoint of each step
    turn,       \* the turn under way, and the checkpoint it read
    run,        \* "live", or "failed" by a step that threw
    unsent,     \* pending steps of a turn that died before it parked
    overlooked, \* of these, the ones no recovery will look at
    call        \* the operator's redispatchPending: the step it found pending

engineVars == <<policy, cp, turn, run, unsent, overlooked, call>>
stepsVars  == <<transportVars, engineVars>>

-----------------------------------------------------------------------------
\* A checkpoint's wakeAt: unset, a redispatch lease or a retry deadline, ahead
\* or due.  The code sees a time only; who wrote it is kept for the properties.
Wakes == {"none", "lease", "leaseDue", "backoff", "backoffDue"}
Due(wake) == wake \in {"leaseDue", "backoffDue"}

\* gen counts the attempts (retries) only, attempts the re-dispatches too; by
\* is the attempt whose result settled the step.
NoCheckpoint == [status |-> "none", attempts |-> 0, gen |-> 0, wake |-> "none", by |-> 0]

StepsInit ==
    /\ TransportInit
    /\ \E sc \in Scenarios : policy = sc[1] /\ fault = sc[2]
    /\ cp = [s \in Step |-> NoCheckpoint]
    /\ turn = NoTurn
    /\ run = "live"
    /\ unsent = {} /\ overlooked = {}
    /\ call = NoTurn

\* A turn of instance i replays to step s, and reads its checkpoint.  The turn
\* before has parked, or a recovery has sent again what it wrote.
Look(i, s) ==
    /\ turn = NoTurn /\ run = "live" /\ i \notin closing /\ unsent = {} /\ s \in policy.steps
    /\ turn' = [inst |-> i, step |-> s, seen |-> cp[s], at |-> "read"]
    /\ UNCHANGED <<transportVars, policy, cp, run, unsent, overlooked, call>>

\* A result of another step, or a signal, wakes the run of a dead turn before
\* the timers do: the lapsed lease is taken without a recovery, and after that
\* turn the steps are older than the run's last settle.
WakeOverDeadTurn ==
    /\ policy.woken /\ turn = NoTurn /\ run = "live" /\ unsent # {}
    /\ unsent' = {}
    /\ overlooked' = overlooked \union unsent
    /\ UNCHANGED <<transportVars, policy, cp, turn, run, call>>

\* What the turn does next depends on what it read.
Deciding == turn # NoTurn /\ turn.at = "read"
Seen     == turn.seen
Suspend  == turn' = NoTurn /\ UNCHANGED <<cp, run>>
Fail     == turn' = NoTurn /\ run' = "failed" /\ UNCHANGED cp

\* Mutant: a lease is stamped by a plain save.
SavePendingBlind(row, then) ==
    cp' = [cp EXCEPT ![turn.step] = row] /\ turn' = then /\ UNCHANGED run
\* saveCheckpoint writes whatever the row holds; savePendingCheckpoint only a
\* row that is still pending, and has the turn read the step again otherwise.
Save(row, then) ==
    /\ cp' = [cp EXCEPT ![turn.step] = row]
    /\ turn' = then
    /\ UNCHANGED run
SavePending(row, then) ==
    IF cp[turn.step].status = "pending"
    THEN Save(row, then)
    ELSE turn' = [turn EXCEPT !.seen = cp[turn.step]] /\ UNCHANGED <<cp, run>>

Sending == [turn EXCEPT !.at = "saved"]

\* A settled step is read: the turn goes on with its output.
OnCompleted == Seen.status = "completed" /\ Suspend

\* A pending step is waited for.  With the self-heal on, its lease is stamped,
\* waited out, and then the step is dispatched again, or the run fails.
OnPending ==
    /\ Seen.status = "pending"
    /\ \/ ~policy.redispatch /\ Suspend
       \/ /\ policy.redispatch /\ Seen.wake = "none"
          /\ SavePending([Seen EXCEPT !.wake = "lease"], NoTurn)
       \/ policy.redispatch /\ Seen.wake # "none" /\ ~Due(Seen.wake) /\ Suspend
       \/ policy.redispatch /\ Due(Seen.wake) /\ Seen.attempts >= RedispatchMax /\ Fail
       \/ /\ policy.redispatch /\ Due(Seen.wake) /\ Seen.attempts < RedispatchMax
          /\ SavePending([Seen EXCEPT !.attempts = @ + 1, !.wake = "lease"], Sending)

NewAttempt == [status |-> "pending", attempts |-> Seen.attempts + 1, gen |-> Seen.gen + 1,
               wake |-> "none", by |-> 0]

\* A failed attempt: the budget is spent, or its retry deadline is stamped the
\* first time it is seen, waited for, and the step dispatched anew.
OnFailed ==
    /\ Seen.status = "failed"
    /\ \/ Seen.attempts >= policy.retries /\ Fail
       \/ /\ Seen.attempts < policy.retries
          /\ \/ Seen.wake = "none" /\ Save([Seen EXCEPT !.wake = "backoff"], NoTurn)
             \/ Seen.wake # "none" /\ ~Due(Seen.wake) /\ Suspend
             \/ Due(Seen.wake) /\ Save(NewAttempt, Sending)

OnNew == Seen.status = "none" /\ Save(NewAttempt, Sending)

Decide ==
    /\ Deciding
    /\ OnCompleted \/ OnPending \/ OnFailed \/ OnNew
    /\ UNCHANGED <<transportVars, policy, unsent, overlooked, call>>

\* The task goes out after its pending checkpoint is there; then the run parks.
Send ==
    /\ turn # NoTurn /\ turn.at = "saved"
    /\ Dispatch(turn.step, cp[turn.step].gen)
    /\ turn' = [turn EXCEPT !.at = "sent"]
    /\ UNCHANGED <<policy, cp, run, unsent, overlooked, call>>
Park ==
    /\ turn # NoTurn /\ turn.at = "sent"
    /\ turn' = NoTurn
    /\ UNCHANGED <<transportVars, policy, cp, run, unsent, overlooked, call>>

\* Recovery sends what the turn that died had written, if still pending.
Resend(s) ==
    /\ s \in unsent /\ turn = NoTurn /\ run = "live"
    /\ unsent' = unsent \ {s}
    /\ IF cp[s].status = "pending" THEN Dispatch(s, cp[s].gen) ELSE UNCHANGED transportVars
    /\ UNCHANGED <<policy, cp, turn, run, overlooked, call>>

\* redispatchPending: the pending checkpoints are listed, and each is written
\* back as it was listed, with another attempt, and sent.
OperatorLists(s) ==
    /\ policy.operator /\ call = NoTurn /\ cp[s].status = "pending"
    /\ cp[s].attempts = cp[s].gen                      \* bound: once an attempt
    /\ call' = [step |-> s, seen |-> cp[s]]
    /\ UNCHANGED <<transportVars, policy, cp, turn, run, unsent, overlooked>>
OperatorSends ==
    /\ call # NoTurn
    /\ cp' = [cp EXCEPT ![call.step] = [call.seen EXCEPT !.attempts = @ + 1]]
    /\ Dispatch(call.step, call.seen.gen)
    /\ call' = NoTurn
    /\ UNCHANGED <<policy, turn, run, unsent, overlooked>>

\* The clock reaches a step's wakeAt (a completed step's is not looked at).
TimePasses(s) ==
    /\ cp[s].wake \in {"lease", "backoff"} /\ cp[s].status # "completed"
    /\ cp' = [cp EXCEPT ![s].wake = IF @ = "lease" THEN "leaseDue" ELSE "backoffDue"]
    /\ UNCHANGED <<transportVars, policy, turn, run, unsent, overlooked, call>>

\* A worker's beat renews the lease of a step that is still pending.
Beat(s) ==
    /\ policy.redispatch /\ cp[s].status = "pending" /\ cp[s].wake \in {"none", "leaseDue"}
    /\ \E t \in Token : round[t].job[s] = "running"
    /\ cp' = [cp EXCEPT ![s].wake = "lease"]
    /\ UNCHANGED <<transportVars, policy, turn, run, unsent, overlooked, call>>

-----------------------------------------------------------------------------
\* What a result settles: status and outcome, on a row that is pending; of a
\* failed run only a success is kept.  wakeAt stays as it is.
Settled(s, ok, g) ==
    IF cp[s].status = "pending" /\ (run = "live" \/ ok)
    THEN [cp EXCEPT ![s].status = IF ok THEN "completed" ELSE "failed", ![s].by = g]
    ELSE cp

\* The engine's result handler: it settles the step and returns, or throws
\* before or after it settled.
HandleResult(t, s) ==
    /\ \/ Returned(t, s) /\ cp' = Settled(s, round[t].ok[s], round[t].gen[s])
       \/ Threw(t, s) /\ cp' \in {cp, Settled(s, round[t].ok[s], round[t].gen[s])}
    /\ UNCHANGED <<policy, turn, run, unsent, overlooked, call>>

\* A process dies with the turn it runs.
StepsCrash(i) ==
    /\ Crash(i)
    /\ IF turn # NoTurn /\ turn.inst = i
       THEN /\ turn' = NoTurn
            /\ unsent' = IF turn.at = "read" THEN unsent ELSE unsent \union {turn.step}
       ELSE UNCHANGED <<turn, unsent>>
    /\ UNCHANGED <<policy, cp, run, overlooked, call>>

StepsNext ==
    \/ TransportStep /\ UNCHANGED engineVars
    \/ \E i \in Inst : StepsCrash(i) \/ \E s \in Step : Look(i, s)
    \/ Decide \/ Send \/ Park \/ WakeOverDeadTurn \/ OperatorSends
    \/ \E s \in Step : Resend(s) \/ TimePasses(s) \/ Beat(s) \/ OperatorLists(s)
    \/ \E t \in Token, s \in Step : HandleResult(t, s)

StepsSpec == StepsInit /\ [][StepsNext]_stepsVars

\* What goes on without being asked: the pollers' rounds, handlers that return,
\* statements that come back, claims that lapse when nobody renews them,
\* instances that leave once they stopped, the clock, and the turns of a live
\* run (the result's resume, the timers' and the recovery's passes).
FairSteps ==
    /\ WF_stepsVars(\E i \in Inst, t \in Token : ClaimTasks(i, t) /\ UNCHANGED engineVars)
    /\ WF_stepsVars(\E i \in Inst, t \in Token : ClaimResults(i, t) /\ UNCHANGED engineVars)
    /\ \A i \in Inst : WF_stepsVars((HandBack(i) \/ Exit(i)) /\ UNCHANGED engineVars)
    /\ \A t \in Token :
         /\ WF_stepsVars((TakeRound(t) \/ RoundRead(t) \/ DeleteRead(t)) /\ UNCHANGED engineVars)
         /\ \A s \in Step :
              /\ WF_stepsVars(StartTask(t, s) /\ UNCHANGED engineVars)
              /\ WF_stepsVars((\E ok \in BOOLEAN : HandlerDone(t, s, ok)) /\ UNCHANGED engineVars)
              /\ WF_stepsVars(SettleTask(t, s) /\ UNCHANGED engineVars)
              /\ WF_stepsVars(HandleResult(t, s))
    /\ \A s \in Step :
         /\ WF_stepsVars(Lapse(s) /\ fault.late' = fault.late /\ UNCHANGED engineVars)
         /\ WF_stepsVars(TimePasses(s)) /\ WF_stepsVars(Resend(s))
         /\ SF_stepsVars(\E i \in Inst : Look(i, s))
    /\ WF_stepsVars(Decide) /\ WF_stepsVars(Send) /\ WF_stepsVars(Park)

FairStepsSpec == StepsSpec /\ FairSteps

-----------------------------------------------------------------------------
Checkpoint == [status : {"none", "pending", "failed", "completed"},
               attempts : 0..(MaxGen + RedispatchMax), gen : 0..MaxGen, wake : Wakes,
               by : 0..MaxGen]
Turn == [inst : Inst, step : Step, seen : Checkpoint, at : {"read", "saved", "sent"}]
ASSUME NoTurnAssumption == NoTurn \notin Turn

\* Type invariant of both sides; a round's memory and what it renews go together.
StepsTypeOK ==
    /\ task \in [Step -> Row \union {NoRow}] /\ result \in [Step -> Row \union {NoRow}]
    /\ \A s \in Step : IsRow(task[s]) => task[s].gen \in Gen /\ task[s].reclaims <= MaxStalled + 1
    /\ round \in [Token -> [kind : {"idle", "tasks", "results"}, inst : Inst,
                            job : [Step -> Jobs], gen : [Step -> Gen], ok : [Step -> BOOLEAN]]]
    /\ held \in [Token -> SUBSET Step]
    /\ \A t \in Token : held[t] \subseteq Active(t)
    /\ closing \subseteq Inst
    /\ fault \in [Disturbances -> Nat]
    /\ starts \in [Step -> Nat]
    /\ policy \in Policy /\ cp \in [Step -> Checkpoint]
    /\ turn = NoTurn \/ turn \in Turn
    /\ run \in {"live", "failed"} /\ unsent \subseteq Step /\ overlooked \subseteq Step
    /\ call = NoTurn \/ call \in [step : Step, seen : Checkpoint]

\* As long as no renewal came late, a step is in one handler at most: claims are
\* renewed for as long as a handler runs, and not before it is checked.
\* (An instance that closes hands its rows back with their handlers running.)
OneRunner ==
    fault.late = 0 =>
        \A s \in Step, t, u \in Token :
            (/\ round[t].job[s] = "running" /\ round[u].job[s] = "running"
             /\ round[t].inst \notin closing /\ round[u].inst \notin closing) => t = u

\* A step that keeps killing its workers is failed in the end: no dispatch of it
\* starts a handler more than maxStalledCount times after the first.  (Unless a
\* statement fails and an instance is stopped too: a row whose settle failed is
\* handed back uncounted with the other rows of its round.)
PoisonStops == \A s \in Step : starts[s] <= MaxStalled + 1

\* Where a pending step that will get its result is: a task to run, a result to
\* read, or a turn, a recovery or an operator about to send it.
OnItsWay(s) ==
    \/ IsRow(task[s]) \/ s \in unsent
    \/ turn # NoTurn /\ turn.step = s /\ turn.at = "saved"
    \/ call # NoTurn /\ call.step = s
    \/ IsRow(result[s]) /\ ~ \E t \in Token :
          Mine(result[s], t) /\ round[t].kind = "results" /\ round[t].job[s] = "read"

\* A step that is sent as one attempt only.  (One that is retried, or sent again
\* by an operator, may lose a result: AlwaysOnItsWay.)
OneAttempt == policy.retries = 1 /\ ~policy.operator

\* No step of a live run is left pending with nothing under way that settles it,
\* whatever dies, is lost or comes twice, unless no recovery looks at it.
NothingLost ==
    \A s \in Step : (run = "live" /\ cp[s].status = "pending" /\ OneAttempt
                      /\ s \notin overlooked) => OnItsWay(s)

\* A settled step stays settled with its outcome: no turn that read it before
\* writes it back to pending, and no redelivered result settles it again.
\* (The operator's call does write it back; and when the step is retried too, a
\* turn that read the failure before that call writes it over what came since.)
KeepsSettled(s) ==
    cp[s].status = "completed" => cp'[s].status = "completed" /\ cp'[s].by = cp[s].by
CompletedStays == [][call' = call => \A s \in Step : KeepsSettled(s)]_cp

\* Whatever is lost on the way (a process with its claims, a turn before it
\* sent, a settle that failed, a result of an earlier attempt in the box), a step
\* that was begun is completed in the end, or has failed its run: by the
\* recovery alone when it has one attempt, by the self-heal otherwise.
StepEnds ==
    \A s \in Step :
        []<>(cp[s].status # "none" /\ (policy.redispatch \/ OneAttempt)
               => \/ cp[s].status = "completed" \/ run = "failed"
                  \/ s \in overlooked /\ ~policy.redispatch)

\* The transport keeps the promise of StepMailbox: what is dispatched stays in
\* the task table until there is a result, and a result until it was read.
MailboxKept == Mailbox!Spec

-----------------------------------------------------------------------------
\* What the code says, and does not keep.

\* Delivery is at least once, with retries as without: the box takes no result
\* while the last attempt's is in it.
AlwaysOnItsWay ==
    \A s \in Step : (run = "live" /\ cp[s].status = "pending") => OnItsWay(s)
==============================================================================
