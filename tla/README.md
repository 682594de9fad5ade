# A verification of the durable execution engine

`@adonis-agora/durable` runs workflows that survive the processes that execute
them. A *run* is a row of a state store; its *journal* is a set of checkpoints,
one per step; any engine instance may execute it, by replaying the journal and
going on from there. This directory holds TLA+ models of that engine, the TLC
runs that check them on small instances, and proofs checked by TLAPS.

All paths below are relative to `packages/adonis/src/`, except `docs/`, which is
the repository's own; `engine.ts:6784` is a line of that file.

## 1. The system

| component | state it keeps | operations | what makes it correct |
|---|---|---|---|
| **Run execution** (`engine.ts`, the store's conditional writes in `testing/in-memory-state-store.ts` and `stores/lucid.ts`) | the run's row: status, lease (`lockedBy`, `lockedUntil`), `wakeAt`, `wakeRequestedAt`, `recoveryAttempts`; the journal; kept wake-request events; per instance the gate (`runGates`), the turn's marks (`leaseLostRuns`, `turnServedWakes`, `lockedForTurn`), timers | `resumeRun`, `execute`, `runExecution`, `settleRun`, `letGoOfSuspendedTurn`, `requestWake`, `resumeDueTimers`, `runPending`, `recoverIncomplete`, `completeRemoteResult`, `cancel`, `sweepTimeouts` | one executor; no wake lost; the journal written ahead; outcomes final; a run whose executors die is recovered or dead-lettered |
| **Signals, events, children** (`engine.ts:5944-6299`, `workflow-ctx.ts:425-790`) | waiter rows, buffered signals and events, checkpoints | `signal`, `publishEvent`, `waitForSignal`, `waitForEvent`, `child`, `deliverToParent` | a payload is consumed by one wait, and not lost; a waiter with a payload is resumed |
| **Fans** (`fan-join.ts`, `engine.ts:9457-9726, 10042-10250`) | checkpoints of a parallel group, per-turn settled fans | `callRemoteAll`, `stepFanStillRunning`, `redriveSettledChildren` | the run is resumed when the last member settles, and once is enough |
| **Remote steps** (`engine.ts:9205-9443, 7902-8108`) | a pending checkpoint with a redispatch lease and an attempt counter | `callRemote`, `redriveLostCall`, `renewStepLease`, `settleRemoteCheckpoint` | a lost step is sent again, at most `remoteRedispatchMax` times; a late result settles once |
| **Remote workflow turns** (`engine.ts:7343-7890`) | `awaitingDecisionTaskId`, silence deadline | `runRemoteExecution`, `completeRemoteDecision`, `applyCommands` | a decision is applied to the turn that asked for it, once |
| **Run queue** (`engine.ts:1453-1653, 5450-5507`) | claims in flight, dispatch keys | `dispatchRun`, `handOffDue`, `runOne` | a dispatched run is executed; a lost dispatch is found by the poll |
| **Singletons** (`singleton-admission.ts`, `singleton-gate.ts`) | tags on run rows | `tryAdmitSingleton`, `wakeNext` | at most `limit` holders; a freed slot wakes a waiter |
| **Flow control** (`admission.ts`, `admission-redis/`) | slots, rate windows, waiters | `tryAdmit`, `release`, `onFreed` | limits are kept; calls enter in their turn; slots come back |
| **Sagas** (`engine.ts:8411-8470, 8706-8945`) | the undos' checkpoints at negative seqs, cancel intents (a flag, a marker) | `compensateAndCancel`, `runCompensation` | what completed is undone, last first, or reported as given up; a recorded undo does not run again; an accepted cancel ends the run |
| **Requeue, handoff, continue-as-new** (`engine.ts:5563-5760, 7074-7170, 8546-8600`) | the run's row, the successor's | `requeue`, `followHandoff`, `redispatchPending` | one successor; nothing ended is revived by accident |
| **Lifecycle events** (`lifecycle-events.ts`, `engine.ts:2700-3600`) | a marker written with the outcome, a publish lease in the run's own lease column | `publishLifecycle`, sweeps | each end is published |
| **Schedules** (`schedules.ts`, `scheduler.ts`) | schedule rows, next fire | tick, overlap policy | one run per fire |
| **Entities** (`entities.ts`, `event-accumulators.ts`) | mailbox, state | signal with start | operations one at a time, in order |
| **Transports** (`transports/db.ts`, `queue.ts`, `bullmq/`) | task and result rows or jobs | claim, acknowledge, retry | a task or a result is delivered until it is acknowledged; a poisonous task is not delivered for ever |
| **Adaptive concurrency, bounded runners** | limit, slots in use | acquire, release, adjust | the limit stays in its bounds |
| **Worker runtime** (`worker-runtime/`) | attempts, heartbeats | run a task, report | a result per attempt |
| **Handshake and routing** (`handshake/`, `dispatch-routing.ts`) | none (pure) | negotiate, plan a route | a task goes only to a capable worker |
| **Control plane, run gateway, dashboard, telescope, otel, commands, providers** | none that execution relies on | | |

How they meet: everything an instance knows of another one goes through the
store. A turn takes the run's lease with one conditional update and is the only
one to execute while it lasts. Steps go out through a transport; their results
come to any instance, at least once, and the acknowledgement waits until the
result is durable and the turn it is owed is too. A wake that finds the run
leased elsewhere writes a stamp on the row (and keeps its reason as a buffered
event), which the holder must not let go over. A poll on every instance picks up
due timers, stamped runs, pending runs, and orphans: `running` runs whose lease
lapsed.

What is hard: all of those steps are separate store calls, of several instances
and of several threads within one instance (a turn, the poll, a recovery, a
refused wake, the result handlers), so between any two of them the row may have
changed; instances die and come back under their own id; a lease lapses under a
stalled holder; results come twice. `PROJECT.json` lists these hazards at their
lines, with the properties that watch them.

## 2. `RunTurns`: a run and its instances

One run, whose body awaits remote steps `1..NSteps` one after the other, and a
set `Inst` of instances. Every call that changes the store, and every read a
later call acts on, is an action of its own.

| state | code |
|---|---|
| `status`, `wake`, `stamp`, `attempts` | the row's `status`, `wakeAt`, `wakeRequestedAt`, `recoveryAttempts` |
| `owner`, `live`, `preboot` | `lockedBy`; `lockedUntil > now`; `lockedUntil - leaseMs < bootedAt`, what `selfReclaimable` looks at |
| `cp`, `fresh`, `kept` | checkpoints; those enqueued since the row's `updatedAt` (what `redispatchCrashedTurnSteps` resends); kept wake-request events |
| `pc`, `snap`, `goal`, `round` | where the instance's turn is; the row as it read it; the step the body stopped at; the round of `letGoOfSuspendedTurn` |
| `queued` | the gate's queued resume |
| `served`, `spent`, `fence`, `lockedForTurn` | `turnServedWakes`, the ids let go of in a round, `leaseLostRuns`, `lockedForTurn` |
| `poll`, `rec`, `timer`, `recheck`, `settledHere` | `resumeLeased`, `recoverIncomplete`, `leaseRetries`, `recheckWaitSeqs`, `settledHere` |
| `task`, `res` | refused wakes under way (`requestWake`); a step's result on its way to an instance, and the handler that took it |
| `cancel`, `seen`, `limits`, `budget` | an operator's cancel between read and write; the last step a settled turn read; what the environment may still do |

A turn is `ReadRun`, `ProveOwnLease` or `LockForTurn` (or `RefuseTurn`),
`ClearStamp`, `ListReasons`, `MarkStarted`, `Body`, `SaveStep`, `SendStep`, a
settle, and the release: `LetGo`, `ScanReasons`, `Unstamp`, `Relist`, `Restamp`
are the rounds of `letGoOfSuspendedTurn`. `KeepReason` to `RetryDroppedWake` are
a refused wake; `PollList`, `PollLock`, `PollResume` the worker tick;
`RecoverList` to `RecoverFree` the recovery of orphans; `TakeResult` to
`StampOwed` a result handler. `PROJECT.json` maps each to its lines.

Time is abstract. A lease is live until `LeaseLapses`; a `wakeAt` is `far`
(absent or beyond the horizon), `soon` (at most a lease away) or `due`. The
engine's `reconcileMs` fallback, a timer every park gets, is taken as 0, its
documented off value: with it every lost wake is repaired minutes later, and
what the properties ask is what the wake machinery does on its own.

`Environments` is a set of bounds on what may go wrong, and `Init` picks one:
how many instances die, leases lapse under a holder at work, result handlers
outlive their grace, dispatches find no capable worker, cancels or timeouts
come, and store calls fail while a refused wake is recorded. `limits` keeps the
choice, so that a property may speak of it. `AckedIsSettled` and
`SettledStays` speak of `Undivided` runs, where no two instances can think at
once that they execute the run: one serves alone, whatever befalls it, or none of
several dies or stalls, and nobody cancels. Where two think so the later one
journals its next step as pending over what the other settled, since
`saveCheckpoint` of a dispatch is unconditional (section 9).

`WakeOwed` asks, of a result that was acknowledged and that no settled turn has
read, who will bring the run a turn: the row (`DurablyDue`), or a process
(`InMemory`). A holder on its last rounds counts only while it is still to find a
reason it did not answer (`relist`) or to put a stamp back (`restamp`). It asks
nothing once the store failed a write after the first step (`StoreServed`), where
a wake can be lost; and `OneExecutor` and `HolderKeepsLease` ask nothing once a
turn has completed the run (`seen < NSteps`), where the lease can be given back
under a turn (both in section 9).

### What is left out of it

The run queue mode, fans (a reason is here answered by a turn or not; the code
derives that from the fans the turn read), compensating cancel (in `Sagas`), a body that
fails, draining, singletons, `remoteRedispatchMs` (unset by default; it is in
`RemoteSteps`), the lifecycle publish lease, `recoverIncomplete`'s treatment of
unregistered workflows, and a transport that fails to send. A lease is not
extended by a second process that shares an instance id.

## 3. `Signals`: payloads and the waits they resolve

Callers of `engine.signal`, and a run whose body calls `ctx.waitForSignal` on
one token again and again (the mailbox loop of an actor), some of the waits with
a timeout. The two sides never speak: they meet in the token's waiter row, its
buffer and the run's checkpoints.

| state | code |
|---|---|
| `waiter`, `buffer` | the token's row in the signal waiters; its buffered signals, oldest first |
| `cp`, `deadline` | the checkpoint of each wait; the deadline checkpoint of a bounded one |
| `status`, `wakeAt`, `woken` | the run's row; a wake of it is owed |
| `pc`, `at`, `replay`, `row`, `second`, `taken` | the turn: where it is, the wait it is at, its snapshot of the checkpoints, the buffer row it read, whether this is the look after registering, the payload it has |
| `call`, `found`, `head`, `hand` | per call of `signal`: where it is, the waiter and the buffer row it read, the payload it has |
| `told` | history: what each wait last told the body |

A call is `Signal`, `Take`, then `Deliver` and `Wake`, or `BufferSignal` and the
second look: `LookAgain`, `TakeLate`, `ReadOldest`, `Reclaim`. A wait is
`Resolved`, or `Missing`, `LookInBuffer`, `ClaimBuffered`, `KeepBuffered`; with
an empty buffer `CheckDeadline` (`Expire`), `Register`, the second look, and
`Retract` or `Suspend`. The takes are those of the SQL store: a SELECT, and a
DELETE that says whether the row was still there. The waiter's DELETE is by
token, so a caller may remove another row than the one it read; the model keeps
that.

What happens around a turn is `RunTurns`' business: here there is one turn at a
time, a wake stays owed until a turn begins, and a turn whose process dies is
followed by another. Events (`publishEvent`, with one waiter per run and a match
predicate), children (`deliverToParent`), `sleep`, retention of buffered
signals, and cancelling a waiting run are left out.

Replays are weaker here than one may think, and the properties say only what
holds. A wait can be told two payloads in two turns, with callers in order and
nobody dying: between `KeepBuffered` and `Retract` a later signal takes the row
of a wait that is resolved already and writes over its checkpoint (the first
payload is gone: `viol_signal`); a `Take` that removed the row of a later wait
delivers to the seq of an earlier one; and a bounded wait that timed out, whose
timeout leaves no checkpoint, consumes a later signal when it is replayed. A call
that dies between buffering and its second look leaves a payload beside a waiter,
until the run's reconcile timer.

The waits get the payloads in the order they were sent (`InOrder`) when callers
come one after the other, no wait is bounded, no process dies, and no payload was
written over (`NoneVanished`). The last condition is needed, although
`docs/concepts/sleep-and-signals.mdx:109` promises first in, first out for each
token: with three waits and three calls, one after the other and nobody dying,
the third call's SELECT (`stores/lucid.ts:747`) reads the waiter of the first
wait; the turn serves that wait and the second from the buffer and registers the
third; the call's DELETE, by token, removes this row, and the third payload is
written at the first wait, over the first payload. The second wait keeps the
second payload, which the body now sees after the third.

## 4. `Singletons`: who may pass the gate

The runs of one singleton key, each executed only while it holds one of `limit`
slots. A slot is a tag on the run's row; the claim (`tryAdmitSingleton`) counts
and writes inside one transaction of the store, everything else is separate
store calls. Runs are numbered in queue order, `(createdAt, id)`, which need not
be the order they are created in.

| state | code |
|---|---|
| `status`, `tag`, `wake`, `owner` | the row's `status`; its marker (`durable:singleton:tracked`, `:admitted`, or neither); whether `wakeAt` is a timer or the start time; `lockedBy` |
| `startsAt` | whether the `startAt` of a run has come |
| `at`, `seen` | per turn: where it is; whether the row it read was pending, with or without marker |
| `op` | an operator's `cancel` or `requeue` between its read and its write |
| `owes`, `gated` | a `wakeNext` that is due; the waiters it listed and has not made due |
| `begun` | history: the run's body has begun, and the run has not ended since |

A turn is `ReadRun` and `Lock` (a dispatch) or `Poll`, then `MarkStarted` on a
first execution, `Admit` or `Deny`, and `Settle`. `Admitted` is the decision of
`singletonAdmissionTags`, with the holders it infers for old replicas (`Legacy`).
`ListGated` and `MakeDue` are `wakeNext`, one write per waiter; `Recover` is
`recoverIncomplete`, which parks a run with a step out, and re-queues or
dead-letters another.

What `RunTurns` has in detail is coarse here: the lease goes with the turn's
last write, a dead turn's lease lapses at once, a poll locks and reads in one
step, a recovery is one step, an outcome that is not written for want of the
lease is a choice. Left out: replicas older than 0.51, `maxQueueDepth`,
`admitByScan`, the timeout sweep (it ends a run as `Cancel` does, of a status of
its own), the validation of the limit. No
dispatch is promised: a poll-only deployment has none, and `EveryRunEnds` holds
with the polls alone.

What the properties exclude, they exclude because TLC finds it:

* *Two turns of one run.* A dispatch reads a pending run without marker and
  waits; a poll executes the run, which is admitted and parks; the dispatched
  turn takes the lease and `markStarted` writes `tracked` over `admitted`,
  computed from its old row. The run has lost its slot in mid-flight and another
  may be admitted beside it, although `docs/reliability/singleton.mdx` says that
  nothing but an end releases a slot. `HolderKeepsSlot` leaves such runs
  (`setting.doubles`) out; the limit on tags holds for them too.
* *Ended from outside, then requeued.* A run cancelled or dead-lettered in
  mid-body and requeued before its turn stops runs on without a slot
  (`NotRestarted`).
* *Start times.* A run with `startAt` is created `suspended` without a marker,
  so it counts as a holder of an old replica until it starts: with `limit: 1`
  the older waiters of its key are denied all that time, although the docs say
  that without old replicas every run carries a marker. And `wakeNext` takes it
  for a waiter and starts it early (`singleton-gate.ts:168`). `OldestIsServed` is for
  keys without such runs.

## 5. `FlowControl`: the gate of a queue

Calls of remote steps at one queue, each in a run of its own. The queue is a
`QueueController` in one process (`queue.ts`, behind `InMemoryAdmissionBackend`)
or the Redis backend, whose script decides atomically for all pods
(`admission-redis/`); a setting says which, and the two share everything but
what counts as a slot.

| state | code |
|---|---|
| `gate` | `QueueConfig`, each call's priority and key, and what may still go wrong |
| `phase`, `at` | where a call is between asking and giving back its slot, and on which pod |
| `inFlight`; `slot`, `key` | the in-process counter; the Redis hash of slots by `stepId`, and the pods' liveness keys, whose lapse frees a dead pod's slots |
| `line`, `served` | the registered waiters; the fairness keys, least recently served first |
| `window`, `admits` | the fixed window; the sliding one |
| `recent`, `asked`, `passed` | history: the admissions of one period; who was denied and when; which keys were served since |

`TryAdmit` is `Denied` or `Admitted`: the rate first (a denied call is not
registered then), the slots, and whether somebody goes before. `Send` or
`Refused` (`ensureRoutable` throws after the admission, `engine.ts:9407`) is the
rest of `callRemote`; `Settle` and `Release` are the result handler, `LateResult`
its path for a cancelled run, and `LateAgain` the same result delivered once more:
the path leaves the checkpoint pending (10341-10344), so a second delivery frees a
slot too. On Redis that is the call's own, which is gone; in process the counter
drops for a slot another call holds (`doubled`, a history of such deliveries).
`CapHolds` therefore allows the in-process cap one call more for each of them; the
bare cap fails in 7 actions (a call is admitted, sent, cancelled and answered, a
second is admitted, the first answer comes again, a third is admitted), although
`engine.ts:10400` says that only one delivery releases. `Crash`, `InstanceLapses`, `WaiterLapses` and
`Tick` are the surroundings. Time is kept as ages in ticks, so no clock grows.

Left out: `onFreed` (a wake that only comes earlier than the retry timer), calls
without a waiter id, waiters whose priority or key changes between two asks,
keys that lapse under a live pod.

`FairShare` says what the order by key gives: while a call waits, another key
gets no second slot at its priority before the waiting call's own key has got
one. A call itself may wait longer than that, because the slot goes to the call
of its key that asked last or first, as the order is, and the count of turns
starts anew whenever its key is served.

What the properties exclude, they exclude because the code loses slots there:

* In process, a call refused after its admission asks again and takes a second
  slot, of which one comes back: the queue is smaller by one for good. One
  refusal at a cap of two is in the runs; one at a cap of one, or two at two, is
  a queue that admits nobody. Repeated, refusals take `inFlight` past the number
  of calls there are (without a cap nothing stops it), so its type is a natural
  number and not `0..Cardinality(Call)`; the cap on what calls hold stays true.
* A waiter that stops asking (its run was cancelled) stays registered in process
  and is never pruned (`queue.ts:86`): in a contended queue nobody behind it is
  next any more. The in-process setting with a cancel has no cap.
* A pod that dies between settling a step and freeing its slot
  (`engine.ts:10367`) leaves the slot to the lapse of its key;
  `EveryCallAdmitted` claims nothing once a pod died, `CapHolds` does.

## 6. `StepMailbox`, `DbTransport`, `RemoteSteps`: a step's way to a worker and back

`StepMailbox` is what a transport promises: a step handed over stays *out* until
there is an *answer*, and an answer stays until a consumer has *read* it. A
consumer may forget what it read (it died, or its statement failed), and then
reads it again. It is small on purpose: a promise an engine can be built on.

`DbTransport` is the database transport, two tables that every instance polls.

| state | code (`transports/db.ts`) |
|---|---|
| `task`, `result` | the rows: the attempt they are of, the claim token, whether the claim has lapsed, `reclaims` |
| `round` | what one poll round has in its instance's memory, and where each row of it is |
| `held` | `#held`: the rows an instance renews, by token |
| `closing` | instances in `stop()` |
| `fault`, `starts` | what may still go wrong; history: how often a handler started on a row |

`ClaimTasks` is the conditional update under a token; `TakeRound` what follows
it (a close or a smaller adaptive limit hands rows back), `StartTask` the
re-check before the handler, `HandlerDone`, `SettleTask` the transaction that
deletes the task and inserts the result. `ClaimResults`, `Returned` or `Threw`,
`RoundRead`, `DeleteRead` are the result loop with its one DELETE a round.
`Lapse`, `Renew`, `Stop`, `HandBack`, `Exit` and `Crash` are the lease of a
claim and the end of an instance. `Mailbox` is the refinement mapping: tasks are
out, results are answers, and read is what a round holds as read *under a token
the row still carries*.

`RemoteSteps` puts the engine on top: the checkpoints of a run's remote steps,
and the turns that look at them.

| state | code (`engine.ts`) |
|---|---|
| `policy` | how many steps and attempts; is `remoteRedispatchMs` set; does an operator call `redispatchPending`; do signals wake the run |
| `cp` | the checkpoint: status, `attempts`, `wakeAt` (a redispatch lease or a backoff, ahead or due); which attempt it is at, which one settled it |
| `turn` | the turn and the checkpoint it read |
| `run`, `unsent`, `overlooked` | whether the run failed; the steps of a turn that died before it sent them; those of them no recovery will look at |
| `call` | the operator's listing |

A turn is `Look`, `Decide` (`OnNew`, `OnPending`, `OnFailed`, `OnCompleted`, the
branches of `callRemote`), `Send`, `Park`. `Save` and `SavePending` are the two
ways the code writes a checkpoint, and which one is used where is most of what
`CompletedStays` is about. `Resend` is `redispatchCrashedTurnSteps`;
`WakeOverDeadTurn` is how a run gets past it: a wake takes the dead turn's
lapsed lease before any recovery does, and when it has settled the run, the
steps are older than the run's last write and count as sent. `Beat` renews the
lease of a step whose worker is alive. `HandleResult` is the result handler.

Left out of the transport: workflow rows and messages, the heartbeat and control
tables, the sweeps, retention, liveness keys, priority and namespaces. Left out
of the engine's side: steps with `timeoutMs` (awaited in memory), fans and their
batches, priorities, errors that are not retried.

What is not claimed:

* `OneRunner` speaks of instances whose renewals are in time and that are not
  closing: a closing one hands back rows whose handlers still run.
* `PoisonStops` counts what the code counts. A row whose settle failed stays
  claimed, and when its instance is then stopped it is handed back uncounted with
  the other rows of its round: an error and a stop together start a handler once
  more than the bound. The runs have one or the other, and it is proved for any
  number of either.
* `CompletedStays` speaks of everybody but an operator's own call of
  `redispatchPending`, which writes back what it listed. With an operator and
  retries together it fails for a turn as well: the turn reads a failed attempt
  and waits, the operator's write brings the attempt back to pending, a result
  completes it, and the turn writes the next attempt over that. It is proved of
  steps without an operator, or with one attempt.
* `NothingLost` speaks of steps with one attempt. `viol_steps` shows why.

## 7. `RemoteTurns`: a workflow whose body runs on a worker

The engine sends a *turn* (the history of the run's calls) and lets go of the
run; the worker answers with a *decision*, which any instance applies.

| state | code |
|---|---|
| `row` | status; `awaitingDecisionTaskId`; `wakeAt` (the deadline of a turn's window, or the reconcile timer); the lease; the wake stamp |
| `cp` | the checkpoint of each call the body gathers |
| `act`, `queued`, `beating` | per instance: the turn it prepares or the decision it applies, with the row as it read it; a resume behind the gate; a beat between read and write |
| `sending` | per instance: the call it has journalled and not sent yet, while it applies a decision |
| `task`, `decision`, `sent` | turns and decisions on their way, as sets: no order is promised; the calls the transport was given |
| `applied`, `known` | history: how often a turn's decision was applied; the history of the last one |

`ReadRun`, `Lock`, `Snapshot`, `Mark`, `Enqueue` are a wake that dispatches a
turn (`resumeRunNow`, `execute`, `runRemoteExecution`), `Holds` the rule by which
it does not. `Receive`, `ClaimTurn`, `JournalCall`, `SendCall`,
`SettleDecision`, `LetGo`, `Recheck` are a decision (`completeRemoteDecision`,
`leaseForDecision`, `applyRemoteDecision`, `applyCommands`, `recheckWaitSeqs`). `Result`, `Poll`, `Recover`,
`BeatRead`/`BeatWrite` bring the run its next turn; `WakeDue`, `Crash`,
`LeaseLapses`, `Cancel`, `Lose` are the surroundings. The wakes are `RunTurns`'
in one step each, a call's way is `RemoteSteps`'.

Ids of turns are random in the code; here there are two, and one is used again
when no message, memory or row names it any more. That is what lets a run have
any number of turns in a finite model, and it is sound for `AppliedOnce` because
an id that nothing names cannot be answered. (A handler forgets the id with the
marker: while it applies the decision it has the lease, and no turn is marked.)

`NothingForgotten` speaks of runs in which no instance dies: a dying one takes
with it the resume behind its gate, and the wake that was refused because of it;
then it is `reconcileMs` that brings the run its turn (`RemoteRunEnds`).

A call is journalled (`engine.ts:8232`) and then sent (8252). If the handler ends
in between, by a death or because the transport refuses the call, the checkpoint
stands for a call that was never sent (`Orphaned`): the next turn asks for it again
and `applyCommands` skips it (8215-8219), and a recovery sends nothing for a remote
workflow (5243). Without `remoteRedispatchMs`, which is unset by default and here,
nobody ever sends it. So a worker answers a call only if it was `sent`,
`RemoteRunEnds` says that the run ends or a call is so orphaned. Without that
exception it fails with one death: the run is driven again and again, although
7759-7760 counts on the recovery for a handler that dies mid-apply.

Left out: an executor awaited inline, local steps, sleeps, signals and children
among the commands, `redriveLostCall`, decisions that fail or cancel the run, the
singleton gate and routing of a remote workflow, handoffs.

Met while modelling, and outside what the runs claim: `redriveLostCall` saves
checkpoints blindly (`engine.ts:7910`, `7922`, `7945`), unlike `callRemote`;
`rearmDecisionDeadline` asks only whether the run is suspended, while the comment
at 7861 speaks of the same turn, so that a beat that read one turn may push back
the deadline of the next (here `BeatWrite`; it delays, and is in the runs); the
inline advance writes `failed` unconditionally (7453).

## 8. `Sagas`: undoing what a run did

A run whose body is steps `1..NSteps`, each with an undo. When the body throws,
or a compensating cancel is pending, the turn undoes the steps its replay
registered, last first (`runCompensation`), and ends the run.

| state | code |
|---|---|
| `status`, `holder`, `orphan` | the row's status; the lease, and whether a lapsed one was left by a dead holder |
| `step`; `row` | the steps' checkpoints; the undos' (`COMPENSATION_SEQ_BASE - idx`): status, attempts, and which step's undo they are about |
| `flag`, `marker`, `canc` | `cancelRequested` of each instance; the buffered `cancel:<run>` signals; a call of `cancel` between its steps |
| `pc`, `comps`, `ending`, `cause`, `idx`, `try` | the turn: where it is, the `compensations` it registered, how its body ended, why it unwinds, the undo and the attempt it is at |
| `task`, `result` | dispatched undos and their results on their way |
| `how`, `undone`, `recorded`, `redone`, `asked`, `forgot` | history: how the run ended; which undos ran, were saved as completed, were started again after that; a cancel was accepted, or lost with the holder that had its marker in hand |

`Body` and `LocalStep` are the replay; `FindFlag`, `FindMarker`, `Rebuffer`,
`FindNoCancel` the look of `takeCancelIntent` at every exit of a turn. `SkipUndo`
or `TryUndo` begin an index; a closure goes `CallClosure`, `SaveCompleted` or
`SaveFailed`, a dispatched undo `SavePending`, `Send`, and one of the three ends
of `awaitCompensationOutcome`: `ResultAwaited` (this process's waiter),
`PollSees` (the row, settled by another instance), `TimeOut`. `SettleCancelled`
and `DrainMarkers`, or `SettleFailed`, end the run. `SettleResult` is
`settleRemoteCheckpoint` where nobody awaits the result, `Resent` what
`redispatchCrashedTurnSteps` sends of a dead unwind: it goes by the checkpoint's
name, `compensate:<name>`, while the undo was sent as `<name>`, so the worker
answers `no handler`, which costs an attempt.

Left out: the cascade of a cancel to children, heartbeat windows of undos, input
validation of an undo, steps that fail themselves (the body throws at its end),
an unwind whose lease was lost (`leaseLostRuns`), `redispatchPending`, the plain
cancel of a suspended or running run, undos registered by some steps only, store
faults.

What the properties exclude, and what else the model shows:

* *Steps started together.* `EndedIsUndone` is for bodies whose steps run in turn
  (`StepsInTurn`). With `Promise.all` the order of registration is not the same in
  a replay, and the rows are found by that order (`viol_saga`).
* *A step under way.* A step that completes after the turn's replay read the
  journal (a worker's result that lands during or after the unwind) is not in
  `comps`, and is not undone. `EndedIsUndone` speaks of the registered ones.
* *A cancel read as pending.* The run is cancelled at once, without an unwind, even if
  it is a requeued one with completed steps, or began since (`how = "plain"`).
* *A cancel that comes last.* The marker may come after the turn's look and before
  its settle: the run ends `completed`, although the comment at `engine.ts:8546`
  says `never completed`. `CancelHonoured` lets the run end any way.
* *The look takes the marker.* A holder that dies between `FindMarker` and
  `Rebuffer` loses an accepted cancel (`forgot`), which `CancelHonoured` excepts.
* *A late answer.* A timeout's `failed` is written blindly (8745) and may replace the
  `completed` another instance just settled: the undo runs again. So is the
  first write of a later attempt. A double undo by at-least-once delivery is
  within the contract (`Compensations should be idempotent`).
* *Not sent.* A death between `SavePending` and `Send` leaves an undo nobody has: the
  next unwind awaits it until its timeout, or until the resent task fails, and
  with `compensationRetries` 1, the default, gives it up.

## 9. Runs

| run | instance | checks |
|---|---|---|
| `turns` | 2 instances, 2 steps, 3 reasons, 2 refused wakes, one grace and one store fault; deadlock | `OneExecutor`, `WakeOwed`, `HolderKeepsLease`, `SettledStays` |
| `turns_live` | 1 step, 2 reasons; 2 instances undisturbed, or 1 alone: two deaths and a block, or a death and a cancel, or a stall; fair | `TypeOK`, `AckedIsSettled`, `NeverLeftAlone`, `RunFinishes`, `SettleRespectsTerminal` |
| `signals` | 3 payloads, 3 waits; callers in turn, or two at once, or one turn and one call dying, or a bounded first wait; fair | `TypeOK`, `DeliveredOnce`, `NoStrandedPair`, `InOrder`, `FirstWaitResolves`, `BufferDrains` |
| `viol_signal` | 2 payloads, 1 wait, callers in turn | `SignalKept` fails |
| `singletons` | 3 runs, 2 turns of a run at once; five settings, below; fair | `TypeOK`, `SlotsWithinLimit`, `HolderKeepsSlot`, `FirstComeFirstServed`, `OldestIsServed`, `EveryRunEnds` |
| `flow` | 3 calls, 2 pods, 2 keys, a period of 2 ticks; the settings below; fair | `FlowTypeOK`, `CapHolds`, `RateHolds`, `InTurn`, `FairShare`, `EveryCallAdmitted` |
| `steps` | 2 instances, 2 rounds under way; the scenarios below; fair | `StepsTypeOK`, `OneRunner`, `PoisonStops`, `NothingLost`, `CompletedStays`, `MailboxKept` (the refinement), `StepEnds` |
| `viol_steps` | 1 instance, 1 step retried once, undisturbed | `AlwaysOnItsWay` fails |
| `rturns` | 2 instances, 2 calls, 2 ids of turns; one disturbance of each kind; fair | `TurnsTypeOK`, `AppliedOnce`, `NothingForgotten`, `RemoteRunEnds` |
| `viol_turns` | 2 instances, 1 call, undisturbed | `NotSuperseded` fails |
| `sagas` | 2 steps, 2 attempts; undos dispatched on 2 instances, or closures on the one of two that has the workflow; five environments, below; fair | `EndedIsUndone`, `CancelHonoured` |
| `viol_saga` | 2 local steps started together, one death | `RecordedIsNotRedone` fails |

*Bounds of `RunTurns`.* Two instances are enough for every race of a holder with
somebody else; the threads that race within one instance are all there. The
second step of `turns` lets a turn read one result and be asked for another; three
reasons let one arrive while two are spent. `SecondStepOut`, its constraint, stops
a behaviour when the worker of step 2 answered, when both refused wakes are under
way once step 2 is out, and when step 2 is journalled after a grace or a fault was
used. So in this run no turn completes the run (`seen < NSteps` throughout), and a
wake is refused for the results of step 1 only: that is where `OneExecutor` and
`HolderKeepsLease` are stated, and where `WakeOwed` is when a fault was used. For
the later steps there are the proofs. The end of the run is explored by `turns_live`.
`LetGoRounds` is 2 (5 in the code): one round that repeats and one that is the
last. `MaxRecovery` is 1: one recovery and
one past the limit, reached with two deaths. In `turns_live` a deployment is
`alone` or not (`Serving`): what a run needs when everything that executes it
dies is asked of one instance that restarts under its own id, the harder case,
since its lease then still looks live. In `turns` the instances, reasons and
refused wakes are interchangeable, and it uses that symmetry; the runs with
fairness do not.

*Bounds of `Signals`.* Three waits are an earlier and a later one on the same
token, which is what a misdelivery needs, and one more, so that a call that read
the waiter of the first can remove the row of the third after the second was
served; three payloads are one for each, or one that is taken in between. Two
callers at once race each other and the turn; a third only queues behind them.
One death of each kind reaches every place a payload can be lost from.

*Bounds of `Singletons`.* Three runs are a holder, the one whose turn it is and
one behind it. The settings are: two slots and a death (`Crashed`); two turns of
the middle run at once (`Raced`); a requeue, the runs created out of queue order
(`Requeued`); a cancel, the middle run having a start time (`Cancelled`); two
slots, out of order, a recovery that dead-letters after a death (`TwoSlots`). A
body suspends or blocks once where that matters. One disturbance at a time keeps
the run small; the proofs are for any number of all of them together.

*Bounds of `FlowControl`.* Three calls are a holder and two that wait for one
slot, or one more than a cap of two; two of them share a key, which is what a
busy key needs. Each backend is run with each order (fifo, lifo, by key, by
priority) and each rate, with a failed attempt in process and a cancel on Redis;
one setting has a pod die, and in one of each backend a cancelled run's late result
comes twice (`Doubled`). A period of two ticks tells a burst at a window's
boundary from one within it.

*Bounds of `RemoteSteps`.* One step and one disturbance (two crashes, so that a
taker-over dies too and the poison bound of `MaxStalled` 1 is passed; a stall; a
stop; an error), with and without the self-heal and its retries, with a wake that
overtakes the recovery, and with an operator; two steps side by side without
disturbance, for what rounds of several rows do. Two tokens are two rounds at
work: a holder and one that takes over. `MaxGen` 2 is an attempt and its retry,
`RedispatchMax` 2 one re-dispatch and the one that is the last.

*Bounds of `RemoteTurns`.* Two calls: one whose result is in the history and one
that lands while the turn is out. Two ids are a turn and the one that supersedes
it.

*Bounds of `Sagas`.* Two undos are one done and one to come, on either side of a
death; two attempts are one that fails and the last. The environments are two
deaths and a cancel; a death, a failing undo and a timeout; a loss, a duplicate
and a retry of the run; a retry after an undo failed; two cancels and a timeout.

*Deadlock* is checked where the run must go on. It is off where an instance may
die before sending a step under a lease that recovery never sees, so that only
`remoteRedispatchMs` would send it (`turns_live`, where `RunFinishes` and
`NeverLeftAlone` say more), and where everything may have ended: `Singletons`,
`FlowControl`, `RemoteSteps`, `RemoteTurns`, `Sagas`.

*Fairness.* Each thread of a live instance is scheduled (`WF` of its steps), as
the event loop and its interval timers do; a result is redelivered until it is
acknowledged; leases lapse and timers come due; a dead instance is restarted.
No fairness is assumed of anything in `budget`, nor of renewals. A turn's steps
are one `WF`, because a turn is a chain of awaits in one function. In `Signals`
likewise a turn and a call that began go on, every payload is sent in the end,
and clocks pass deadlines; nothing is assumed of deaths. In `Singletons` polls
pick up what is due, turns go on, a `wakeNext` that is due runs, an operator's
call writes what it was asked, orphans are recovered; dispatches are not assumed.
In `FlowControl` a waiting call asks again (its retry timer), workers answer, keys
and waiters expire, the clock ticks. In `RemoteSteps` every poll loop, handler
and statement goes on, claims nobody renews lapse, and each step is looked at by
a turn again and again: `SF`, because another step's turn may be under way
whenever one looks, and every turn of the body replays all its steps. In
`RemoteTurns` an instance goes on with what it began, polls and recovers, and a
decision is received: `SF`, because the handler retries the lease every 250 ms at
most while other turns take and release it. In `Sagas` a turn goes on, a live run
is woken by an instance that has the workflow (its reconcile timer), orphans are
recovered, workers answer, results are delivered, a call of `cancel` goes on.

*What the violations say* is in `PROJECT.json`, `findings`, with the sentences
they contradict: a re-check that writes a second payload over the one just
delivered (`viol_signal`), a retry whose result meets the first attempt's row
and is dropped with its task (`viol_steps`), a second turn dispatched over one
that is out (`viol_turns`), and an undo recorded as done that runs again while
another never runs (`viol_saga`).

*What the passing runs do not claim.* These the models show, and the
environments and properties leave out on purpose:

* A recovery claims an orphan without marking the claim as `handOffDue` marks
  its own (`engine.ts:5047`): a wake on the same instance re-enters it, and the
  recovery's release takes the lease from under that turn. `OneExecutor` fails
  with one death (`turns` has none). The second executor then journals its step as
  pending over one that was settled meanwhile, so `SettledStays` fails too: hence
  `Undivided`.
* A refused wake tries the lease for a moment to see whether it is free
  (6760-6765). While the run is parked nobody minds: a turn of the same instance
  takes that lease for its own, and the wake, which reads the run again, hands it
  on. But an instance that read the run `suspended` before another completed it
  still gets the lease, and its own refused wake, which now reads `completed`,
  gives the lease back under that turn. Two instances then execute the run, nobody
  dying or stalling (27 actions, with three steps). So `OneExecutor` and
  `HolderKeepsLease` say `seen < NSteps`, that no turn has completed the run, and
  with this condition they are proved. What the second turn does is small: its body
  finds every step settled.
* The stamp is cleared before the turn settles (6919), so it dies with the turn.
  `WakeOwed` fails with one death.
* `markStarted` writes over a run cancelled since the turn read it (7314);
  `SettleRespectsTerminal` excepts it by name.
* With stalls two instances may execute at once: that is what a lease is, and
  `leaseLostRuns` fences the outcome, not the journal, so `SettledStays` fails
  under a stall (the stale turn's unconditional `saveCheckpoint` puts a settled
  step back to pending).
* `stampWakeRequest` (6710-6720) stamps the run even when it could not keep the
  reason: it swallows the failure of `bufferEvent`. Its comment says that a holder
  that finds the stamp finds the reason too. A holder that has answered all the
  reasons it finds takes such a stamp for one of theirs, clears it and lets go: the
  wake is lost: with one fault while the result of the second step is recorded (41
  actions). `WakeOwed` says `StoreServed`, that the faults were all at the first
  step, where a holder has no answered reasons to take the stamp for; the proof is
  for stores that do not fail there.

## 10. Proofs

Every invariant and every action property that a passing run checks is a theorem
here, for all values of the constants. Some have hypotheses, which single out
what may go wrong while the system runs (no instance dies, say); sections 6, 7 and 9
say what is known beyond them. The liveness properties are model-checked only.

### The core

`RunTurnsProofs` proves, for any set of instances, reasons and tasks, any number
of steps, any bounds and any environments:

* `TypeCorrect`: `Spec => []TypeOK`;
* `JournalIsWrittenAhead`: `Spec => []JournalFirst` (no run checks `JournalFirst`:
  the proof covers every instance of it);
* `OutcomesRespectTheEnd`: `Spec => SettleRespectsTerminal`.

All rest on one inductive invariant, `IndInv`. `TypeOK` alone is not inductive:
that the recovery counter stays within `MaxRecovery` needs what a recovery
remembers at each of its places, and that a turn's settle writes a step number
in range needs what a turn knows once past its body; `WorkOK` says both.
`JournalFirst` is not inductive either, since a `SendStep` relies on the
`SaveStep` before it: `AheadOK` adds that a turn past its body aims at a step all
of whose predecessors are journalled, that from `send` on the step itself is,
that a turn settling `completed` found all of them, and that refused wakes and
results only name steps the transport was given. The step lemma is split by
variable (`RowStep`, `JournalStep`, `TurnMapsStep`, `BackStep`, `MiscStep`) and
by what the strengthening says (`JournalGrows`, `StatusChanges`,
`ResultsAreHandedOn`, `TurnsStayAhead`, `TasksWaitForKnown`), each with one case
per group of actions.

Then, where no instance dies, no holder stalls and nobody cancels (`Quiet`; result
handlers may outlive their grace, steps be blocked, and the store fail under a
refused wake, any number of times):

* `OneInstanceExecutes`: `Spec /\ Quiet => []OneExecutor`;
* `LeaseIsNotTaken`: `Spec /\ Quiet => HolderKeepsLease`;
* `NoWakeIsLost`: `Spec /\ Quiet /\ limits["faults"] = 0 => []WakeOwed`.

Both properties say `seen < NSteps`, that no turn has completed the run yet. `QuietInv` is what is
inductive (`QuietInvariant`), with `IndInv`; its core, `Calm`, holds until then.
That whoever is past the lock has the lease, live (`LeaseHeld`), is not inductive
alone: the probe of a refused wake takes the lease for a moment on behalf of its
instance, and must not give it back under a turn that took it for its own. It
does not, because it reads the run again and hands on the lease of a run that is
`suspended` or `blocked`; so `ClaimIsParked` says that a run whose lease is shared
in this way is parked, which in turn needs that a turn that would make it
`running` is still waiting at the lock (`ClaimBlocks`, `OneClaim`), that a
`running` run has its executor (`RunningHeld`), and that no run is probed before
it ran (`ProbedRan`).

`NoWakeIsLost` adds `WakeInv`. Its main part, `LateBrought`, names for each
settled result that no settled turn has read who brings it a turn: the row, an
instance that `Asks`, a refused wake still to keep its reason or to probe, or a
stamp. The stamp is where a wake could be lost, and it counts only while no turn
that missed the result can take the stamp for answered: every turn `Blind` to it
has before it a kept reason that it did not answer. The order of
`stampWakeRequest`, reason first and stamp second, makes that true, and the
order of `letGoOfSuspendedTurn`, stamp away first and reasons read once more
after, keeps it. `InSequence`, `HereSettled`, `SeenOnceClosed` and `Suspends` say
that the body is sequential, so that a turn waits at the last step dispatched, and
that a result settled by the waiting instance itself has queued a resume. The
in-memory timers (`recheckAfterLease`) are in nobody's argument: without a death
the durable half suffices.

And about the journal of `Undivided` runs, where one instance alone may die and
stall as often as it likes, or any number may do neither:

* `AcknowledgedIsJournalled`: `Spec => []AckedIsSettled`;
* `JournalIsKept`: `Spec => SettledStays`.

Both follow from `SettledInv` (`UndividedRunsKeepTheJournal`): what was handled is
settled, a run about to be completed has all its steps, and a step about to be
journalled is absent. The last is what two executors break. It is inductive with
`QuietInv` in the one case and with `SoloInv` in the other, where the one
instance needs no lease to be alone.

### Signals, singletons, queues

`SignalsProofs` proves, for any number of payloads and waits, any number of
calls at once, any bounded waits and any number of deaths:

* `SignalTypes`: `Spec => []TypeOK`, with the fact that who delivers has a
  payload and a waiter;
* `NeverTwice`: `Spec => []DeliveredOnce`;
* `PairIsNeverStranded`: `Spec => []NoStrandedPair`;
* `SignalsAreInOrder`: `Spec => []InOrder`.

Inductive is `TypeOK /\ HoldersOK /\ Apart`. `DeliveredOnce` speaks of the set of
places a payload is in; `Apart` says the same of every two kinds of places, in
the shape the step proofs use. It is not inductive alone: a `BufferSignal` adds
its payload to the buffer on the strength of having it in hand, which is
`HoldersOK`. The lemma `ClaimTakesOut` is the arbitration: a claim either takes
the payload out of the buffer or comes back with nothing.

`PairOK` is the two second looks: when the turn has no look left, a waiter beside
a payload is attended by a call on its way to its own second look, or past it
with something in hand, or by a wake that is owed. A call that dies in between
counts as attending for ever, which is why `NoStrandedPair` is about rests at
which no call is dead.

`InOrder` needs much more (`OrderInv`): the journal is filled from the front with
growing payloads, and what is in a hand, in the buffer and still with the callers
comes after it in this order, except where a payload is about to be written over
one that is there, and vanish. `Doomed`, and the alternatives of `HandBeyond` and
`DeliverInv`, follow such a payload up to that write, which the hypothesis
`NoneVanished` then excludes; `SameWaiter` and `PairOrd` say which waiter rows may
be stale meanwhile.

`SingletonsProofs` proves, for any number of runs, of turns at once, any limits
and any number of deaths, cancels and requeues:

* `TypeCorrect`: `Spec => []TypeOK`;
* `SlotsCounted`: `Spec => []SlotsWithinLimit`;
* `HoldersKeepSlots`: `Spec => []HolderKeepsSlot`;
* `QueueIsServedInOrder`: `Spec => []FirstComeFirstServed`;
* `FreeSlotIsGiven`: `Spec => OldestIsServed`.

The limit rests on one fact about the claim: `c` is among the `limit -
|Holders|` oldest waiters only if that number is positive, and the holders
include the tagged runs; no other step adds a tag. `HolderInv` is inductive
where `HolderKeepsSlot` is not: it says of the runs without racing turns that a
turn in the body has the tag, and that no turn of a run inside still holds a
reading `new` by which `MarkStarted` would mark it anew (`OneTurn` gives that
there is no second). `QueueInv` adds to it that runs come to the queue in order
and do not come back in front of a holder, from which the count of the older
active runs follows. `PlainInv` is about runs of which none dies, is requeued or
starts later: there a run that was executed carries a marker and one that was
not carries none, so the holders that `Admitted` infers for old replicas
(`Legacy`) are none, and whoever is denied with `limit: 1` is denied for a run
that has begun.

`FlowControlProofs` proves, for any calls, pods, keys, limits, orders and rates,
and any number of failures, refusals, cancels and deaths:

* `CapIsKept`: `FlowSpec => []CapHolds`;
* `RateIsKept`: `FlowSpec => []RateHolds`;
* `FlowTypes`: `FlowSpec => []FlowTypeOK`;
* `TurnsAreKept`: `FlowSpec => InTurn`;
* `SharesAreFair`: `FlowSpec => FairShare`.

For the cap, inductive is `FlowShape /\ Counted`. In process `Counted` says that the
calls that hold a slot are no more than the counter and the late results delivered
once more together (a refused call makes the counter run ahead, only such a result
makes it fall behind), and no more than the cap and those; on Redis that the slots of live pods
are no more than the cap; a call of a dead pod may hold none.

`RateInv` relates the history of the last `Period` ticks to what a backend
remembers. A sliding window remembers just that. A fixed one has a count and an
age: some number of the oldest admissions, at most the limit, are from before the
current window and at least as old as it, and the rest are counted. So when the
next window begins the former have left the period, and twice the limit is what
can be there. `OrderInv` is about the line: the calls denied a slot stand in it,
in the order they were first denied (`WaitersOK`), whatever rate denials,
cancels and dead waiters do to it; and a key that got a slot while a call waits
stands behind that call's own key among the keys served (`SharesOK`).

### Remote steps, remote turns, sagas

`DbTransportProofs` and `RemoteStepsProofs` prove, for any steps, instances and
claim tokens and any number of stalls, deaths, stops and errors:

* `TransportIsMailbox`: `TransportSpec => Mailbox!Spec`, the transport alone,
  under an engine that may do anything;
* `StepsKeepMailbox`: `StepsSpec => MailboxKept`, under this one;
* `StepsTypes`: `StepsSpec => []StepsTypeOK`;
* `StepsOneRunner`: `StepsSpec => []OneRunner`;
* `StepsPoisonStops`: `[]PoisonStops` if `fault.errors = 0 \/ fault.stops = 0`;
* `StepsCompletedStays`: `CompletedStays` if an operator has steps with one attempt
  only;
* `StepsNothingLost`: `StepsSpec => []NothingLost`.

The refinement needs only types beside the step itself (`TransportTypes`,
`EngineInv`), and that is what it says of the code: nothing unread leaves the
box because each DELETE looks at the token of the row, not because anybody is in
time. Each action has its lemma (`ClaimTasksMaps` to `DispatchMaps`) that names
the operation of the mailbox it is.

For the rest the invariant of the transport is `TransportInv`, which
`RemoteSteps` inherits through what an engine does to it. `OneRunner` comes down
to tokens: a round runs a handler on a row that carries its token, unless a
renewal came late or its instance is closing, and a row carries one. `Counts` is
the poison bound: a row that was claimed and not started yet has one start less
to its name than one that was, so that each count a takeover makes pays for a
start; `Orderly` is the hypothesis in a form that steps preserve. `SeenStays` says what a turn
may rely on between reading a checkpoint and writing it, which is all that
`CompletedStays` needs. `LostInv` follows a step the whole way round: it is out or
in the box only once its checkpoint is begun, and with one attempt a result that
was read was the one that settled it; with the refinement's sets (`Out`, `InBox`,
`HasRead`) a pending step is then still on its way.

`RemoteTurnsProofs` proves, for any instances, calls and ids, and any number of
losses, duplicates, deaths, cancels, beats and late answers:

* `TurnTypes`: `TurnsSpec => []TurnsTypeOK`;
* `DecisionsAppliedOnce`: `TurnsSpec => []AppliedOnce`;
* `TurnsForgetNothing`: `[]NothingForgotten`, if no instance dies.

Inductive is `ShapeOK /\ HistoryOK /\ CallsOK /\ LeaseOK /\ MarkerOK`: the domains;
that every history on its way names settled calls only; that a call to be sent is
journalled and its handler still at work; that whoever prepares or
applies is the one the lease names (two at once are then the same); and that a
turn on the row has not been applied, which `Fresh` starts and the clearing of
the marker under the lease keeps. `CalmInv` adds who wakes a parked run that has
not seen all that settled: a timer, a resume behind a gate, or an instance that
`WakesAt`. A wake that the lease refused is not the only one, because whoever has
the lease of a parked run is about to prepare a turn, or to look at the run again
after letting go (`OwnerGoesOn`, `ParkedIsLeft`).

`SagasProofs` proves, for any number of steps that run in turn, any instances and
attempts, and any number of disturbances of every kind:

* `SagasUndo`: `StepsInTurn` implies `Spec => []EndedIsUndone`.

Inductive is `SagasTypeOK /\ BodyOK /\ RowsOK /\ WiresOK /\ TurnOK /\ EndOK`.
`BodyOK` is where the order of the steps enters: the completed steps are always
`1..k`, so that every replay registers step `n` as its `n`-th and a row found by
index is a row about the same undo. From it `RowsOK` (a row is about its index,
and `completed` only of an undo that ran) and `WiresOK` (so are tasks and
results) follow; `TurnOK` says that an unwind has undone or given up every index
it passed, which `OverStays` keeps whatever is delivered: a settled row is
written by the turn at its own index only. `EndOK` carries that past the settle,
when a cancel, a death or a late result may still come.

### What the proofs assume, and what stays with TLC

*Assumptions.* `RunTurnsAssumption`: at least one step and one round, bounds that
are natural numbers, and a `NoOne` that is no instance. `SignalsAssumption`: at
least one wait. `SingletonsAssumption`: at least one turn, settings of the right
shape. `FlowAssumption`: finitely many calls, a `Home` that is a pod and a
`NoPod` that is none, a positive period. `TransportAssumption`,
`NoRowAssumption`, `StepsAssumption`, `NoTurnAssumption`: at least one instance,
the two special tokens, `NoRow` and `NoTurn` are what they are not, positive
limits. `TurnsAssumption`: `NoOne`, `Gone` and `NoTurn` likewise.
`SagasAssumption`: a step and an attempt at least; `SagasUndo` adds `StepsInTurn`
as a hypothesis. TLC evaluates each of them on the runs.

*Only model-checked.* The liveness properties, `NeverLeftAlone`, `RunFinishes`,
`FirstWaitResolves`, `BufferDrains`, `EveryRunEnds`, `EveryCallAdmitted`,
`StepEnds`, `RemoteRunEnds` and `CancelHonoured`: fairness and `ENABLED` are out of
the prover's reach. And what lies outside a theorem's hypotheses but inside a
run: `WakeOwed` with a store fault at the first step. What neither has: two
executors after a turn completed the run, or after a death, and the wakes of later
steps once the store failed there. There the properties claim nothing, because
they do not hold (section 9).

## 11. Plan, and what is not modelled

Next, in order; a module's theorems go to a module `<name>Proofs`.

1. `StepFan`: the barrier of a parallel group, and `redriveLostCall`; the kept
   reasons of `RunTurns` refined to fans.
2. `WakeRegister`: the abstract register a wake request is (a request made is
   answered by a turn that starts after it), implemented by `RunTurns`.
3. `RunQueue` with requeue and marked claims; draining; workflow rows of the
   database transport under `RemoteTurns`.
4. Continue-as-new and handoffs, the cascade of a cancel to children, lifecycle
   events.
5. Routing and negotiation as pure operators, checked against reference
   definitions; adaptive concurrency.
6. Schedules, entities, events.
7. Proofs: `WakeOwed` with faults at one step; that a completed run stays completed
   without a cancel, and what the holder of a stale lease may still do to it; the
   refinement of item 2, whose mapping `LateBrought` almost is.

The composition so far is by what one module promises the next: `RemoteSteps`
contains `DbTransport`, which implements `StepMailbox`; `Signals`, `Singletons`,
`RemoteTurns` and `Sagas` assume of a turn what `RunTurns` shows of one (one at a time, a
wake owed until one begins), and `RunTurns` and `RemoteTurns` assume of a step
what `RemoteSteps` shows (an answer in the end). Stating the first of these as an
abstract specification is item 2.

Not modelled, and not planned: the store's queries, codecs, pagination and facets
(no state of their own); the control plane (hints over Redis that nothing relies
on); the brokers behind the queue transports (external: the contract the engine
uses is in `RunTurns`); dashboard, telescope, otel, metrics (read-only);
configuration, providers, commands (wiring); the testing kit and the lint plugin.
