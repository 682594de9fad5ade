------------------------------- MODULE Sagas -------------------------------
(* Sagas of one run: the steps of its body that have an undo, the turn     *)
(* that replays the body and unwinds it in reverse when it throws or when  *)
(* a compensating cancel is pending, the undos' own checkpoints, the       *)
(* workers that serve the dispatched undos, and the cancel's two memories: *)
(* a flag in the process that took the call, a marker in the store.        *)
(* One turn at a time executes the run (RunTurns).                         *)
EXTENDS Integers, FiniteSets, Sequences

CONSTANTS
    Inst,       \* engine instances
    NoOne,      \* nobody holds the lease
    NSteps,     \* the body's steps, each with an undo
    Retries,    \* compensationRetries
    Settings,   \* the workflows and deployments to look at
    Environments \* how many disturbances of each kind may happen

Steps == 1 .. NSteps
Disturbances == {"crashes", "cancels", "undofails", "losses", "dups", "timeouts",
                 "requeues"}

\* parallel: the body starts its steps together (Promise.all), not in turn;
\* dispatched: steps and undos are a worker's (ctx.step), not closures
\* (ctx.localStep);
\* ends: what the body does after its last step; runners: the instances that
\* have the workflow registered.
SettingKinds == [parallel : BOOLEAN, dispatched : BOOLEAN,
                 ends : {"returns", "throws", "waits"}, runners : SUBSET Inst]

ASSUME SagasAssumption ==
    /\ NoOne \notin Inst
    /\ NSteps \in Nat \ {0} /\ Retries \in Nat \ {0}
    /\ Settings \subseteq SettingKinds
    /\ Environments \subseteq [Disturbances -> Nat]

Live     == {"pending", "running", "suspended"}
Terminal == {"completed", "failed", "cancelled"}

VARIABLES
    status, how, holder, orphan, step, row, marker,  \* the store
    flag, canc,                                      \* memory of each instance
    pc, comps, ending, cause, idx, try,              \* the turn under way
    task, result,                                    \* the transport
    undone, redone, recorded, asked, forgot,         \* history
    setting, budget

store   == <<status, how, holder, orphan, step, row, marker>>
cancels == <<flag, canc, asked, forgot>>
turn    == <<pc, comps, ending, cause, idx, try>>
wires   == <<task, result>>
deeds   == <<undone, redone, recorded>>
given   == <<setting, budget>>
vars    == <<store, cancels, turn, wires, deeds, given>>

Spend(d) == budget[d] > 0 /\ budget' = [budget EXCEPT ![d] = @ - 1]

\* The undo checkpoint of registration index n (seq -2 - (n - 1)); `of' is the
\* step its name is about.
NoRow   == [st |-> "none", of |-> 0, att |-> 0]
Undo(st, s, a) == [st |-> st, of |-> s, att |-> a]
Row     == row[idx]
Undoing == comps[idx]
RowIs(r) == row' = [row EXCEPT ![idx] = r]

-----------------------------------------------------------------------------
(* A turn: the body up to where it stops.                                  *)

\* The pending undos, sent again by a sweep that finds the lease of a dead
\* holder: under the checkpoint's name, which no worker serves.
Resent == {[of |-> row[n].of, idx |-> n, att |-> row[n].att, served |-> FALSE] :
             n \in {m \in Steps : row[m].st = "pending"}}

\* A wake, a timer or a dispatched start; a timer that finds the lease of a
\* dead holder sends that one's steps again first.
Begin(i) ==
    /\ holder = NoOne /\ status \in Live /\ i \in setting.runners
    /\ holder' = i /\ orphan' = FALSE
    /\ status' = IF status = "pending" THEN "running" ELSE status
    /\ pc' = "body"
    /\ \/ UNCHANGED task
       \/ orphan /\ status = "suspended" /\ task' = task \union Resent
    /\ UNCHANGED <<how, step, row, marker, cancels, comps, ending, cause, idx,
                   try, result, deeds, given>>

\* recoverIncomplete: a `running' run whose holder died is parked if a step or
\* an undo is with a worker, else enqueued.
Recover ==
    /\ holder = NoOne /\ orphan /\ status = "running"
    /\ orphan' = FALSE
    /\ IF \/ \E n \in Steps : row[n].st = "pending"
          \/ \E s \in Steps : step[s] = "out"
       THEN status' = "suspended" /\ task' = task \union Resent
       ELSE status' = "pending" /\ UNCHANGED task
    /\ UNCHANGED <<how, holder, step, row, marker, cancels, turn, result, deeds,
                   given>>

Done == {s \in Steps : step[s] = "done"}

\* A replay registers the undos of the completed steps in the body's order.
Registered == [n \in 1 .. Cardinality(Done) |->
                 CHOOSE s \in Done : Cardinality({t \in Done : t <= s}) = n]

\* The steps the body comes to: all of them, or up to the first without result.
Reached == {s \in Steps : setting.parallel \/ \A t \in 1 .. s - 1 : t \in Done}

\* Steps of a worker are sent and awaited, steps in process run now.
Body ==
    /\ pc = "body"
    /\ comps' = Registered
    /\ ending' = IF setting.dispatched /\ Done # Steps THEN "waits" ELSE setting.ends
    /\ IF setting.dispatched \/ Done = Steps
       THEN /\ step' = [s \in Steps |-> IF s \in Reached \ Done THEN "out" ELSE step[s]]
            /\ pc' = "exit"
       ELSE pc' = "local" /\ UNCHANGED step
    /\ UNCHANGED <<status, how, holder, orphan, row, marker, cancels, cause, idx,
                   try, wires, deeds, given>>

\* ctx.localStep: the step runs, is saved, and registers its undo.
LocalStep ==
    /\ pc = "local"
    /\ \E s \in Reached \ Done :
          /\ step' = [step EXCEPT ![s] = "done"]
          /\ comps' = Append(comps, s)
          /\ pc' = IF Done \union {s} = Steps THEN "exit" ELSE "local"
    /\ UNCHANGED <<status, how, holder, orphan, row, marker, cancels, ending, cause,
                   idx, try, wires, deeds, given>>

-----------------------------------------------------------------------------
(* The turn's exit: is a compensating cancel pending?                      *)

Unwind(c) == pc' = "undo" /\ cause' = c /\ idx' = Len(comps)

\* takeCancelIntent, the flag of this process: the marker stays.
FindFlag ==
    /\ pc = "exit" /\ holder \in flag
    /\ flag' = flag \ {holder}
    /\ Unwind("cancel")
    /\ UNCHANGED <<store, canc, asked, forgot, comps, ending, try, wires, deeds,
                   given>>

\* takeCancelIntent, the marker: taken, and put back by the next call.
FindMarker ==
    /\ pc = "exit" /\ holder \notin flag /\ marker > 0
    /\ marker' = marker - 1
    /\ pc' = "rebuffer"
    /\ UNCHANGED <<status, how, holder, orphan, step, row, cancels, comps, ending,
                   cause, idx, try, wires, deeds, given>>

\* Mutant: the take is not put back.
RebufferNot ==
    /\ pc = "rebuffer"
    /\ flag' = flag \ {holder}
    /\ Unwind("cancel")
    /\ UNCHANGED <<store, canc, asked, forgot, comps, ending, try, wires, deeds,
                   given>>

Rebuffer ==
    /\ pc = "rebuffer"
    /\ marker' = marker + 1
    /\ flag' = flag \ {holder}
    /\ Unwind("cancel")
    /\ UNCHANGED <<status, how, holder, orphan, step, row, canc, asked, forgot,
                   comps, ending, try, wires, deeds, given>>

FindNoCancel ==
    /\ pc = "exit" /\ holder \notin flag /\ marker = 0
    /\ IF ending = "throws" THEN Unwind("failure")
       ELSE pc' = "settle" /\ UNCHANGED <<cause, idx>>
    /\ UNCHANGED <<store, cancels, comps, ending, try, wires, deeds, given>>

-----------------------------------------------------------------------------
(* runCompensation: the undo of registration index idx.                    *)

\* Mutant: an undo that failed once is not tried again.
BehindWhenFailed(r) == r.st \in {"completed", "failed"}
\* Undone by an earlier drive of this unwind, or given up by one.
Behind(r) == \/ r.st = "completed"
             \/ r.st = "failed" /\ r.att >= Retries

FirstAttempt(r) == CASE r.st = "pending" -> r.att
                     [] r.st = "failed"  -> r.att + 1
                     [] OTHER            -> 1

NextUndo == pc' = "undo" /\ idx' = idx - 1 /\ try' = 0

SkipUndo ==
    /\ pc = "undo" /\ idx > 0 /\ Behind(Row)
    /\ NextUndo
    /\ UNCHANGED <<store, cancels, comps, ending, cause, wires, deeds, given>>

Attempt(n) == /\ try' = n
              /\ pc' = IF setting.dispatched THEN "dispatch" ELSE "fn"
              /\ UNCHANGED idx

TryUndo ==
    /\ pc = "undo" /\ idx > 0 /\ ~Behind(Row)
    /\ Attempt(FirstAttempt(Row))
    /\ UNCHANGED <<store, cancels, comps, ending, cause, wires, deeds, given>>

\* An undo is started; again, if it is already recorded as completed.
Issue == redone' = redone \union ({Undoing} \intersect recorded)

\* The closure runs, or throws.
CallClosure ==
    /\ pc = "fn"
    /\ Issue
    /\ \/ undone' = undone \union {Undoing} /\ pc' = "save" /\ UNCHANGED budget
       \/ Spend("undofails") /\ pc' = "fail" /\ UNCHANGED undone
    /\ UNCHANGED <<store, cancels, comps, ending, cause, idx, try, wires, recorded,
                   setting>>

SaveCompleted ==
    /\ pc = "save"
    /\ RowIs(Undo("completed", Undoing, try))
    /\ recorded' = recorded \union {Undoing}
    /\ NextUndo
    /\ UNCHANGED <<status, how, holder, orphan, step, marker, cancels, comps,
                   ending, cause, wires, undone, redone, given>>

\* The blind write of an attempt that failed, and what comes after it.
SaveFailed ==
    /\ pc = "fail"
    /\ RowIs(Undo("failed", Undoing, try))
    /\ IF try < Retries THEN Attempt(try + 1) ELSE NextUndo
    /\ UNCHANGED <<status, how, holder, orphan, step, marker, cancels, comps,
                   ending, cause, wires, deeds, given>>

\* dispatchCompensation: a row pending at this attempt was sent already.
Dispatched(r) == r.st = "pending" /\ r.att >= try

SavePending ==
    /\ pc = "dispatch"
    /\ IF Dispatched(Row) THEN pc' = "await" /\ UNCHANGED row
       ELSE pc' = "send" /\ RowIs(Undo("pending", Undoing, try))
    /\ UNCHANGED <<status, how, holder, orphan, step, marker, cancels, comps,
                   ending, cause, idx, try, wires, deeds, given>>

Send ==
    /\ pc = "send"
    /\ Issue
    /\ task' = task \union {[of |-> Undoing, idx |-> idx, att |-> try, served |-> TRUE]}
    /\ pc' = "await"
    /\ UNCHANGED <<store, cancels, comps, ending, cause, idx, try, result, undone,
                   recorded, given>>

-----------------------------------------------------------------------------
(* awaitCompensationOutcome: this process's waiter, the poll of the row,   *)
(* the timeout.                                                            *)

\* The step id: `<run>:compensate:<undo>:<attempt>'.
Awaited(m) == pc \in {"send", "await"} /\ m.of = Undoing /\ m.att = try

\* The waiter takes the result; the row is saved after it is acknowledged.
ResultAwaited ==
    /\ pc = "await"
    /\ \E m \in result :
          /\ Awaited(m)
          /\ result' = result \ {m}
          /\ pc' = IF m.ok THEN "save" ELSE "fail"
    /\ UNCHANGED <<store, cancels, comps, ending, cause, idx, try, task, deeds,
                   given>>

PollSees ==
    /\ pc = "await" /\ Row.att >= try /\ Row.st \in {"completed", "failed"}
    /\ IF Row.st = "completed" THEN NextUndo ELSE pc' = "fail" /\ UNCHANGED <<idx, try>>
    /\ UNCHANGED <<store, cancels, comps, ending, cause, wires, deeds, given>>

\* Nothing more will come, or it comes too late.
TimeOut ==
    /\ pc = "await"
    /\ \/ \E m \in task \union result : Awaited(m) /\ Spend("timeouts")
       \/ (\A m \in task \union result : ~Awaited(m)) /\ UNCHANGED budget
    /\ pc' = "fail"
    /\ UNCHANGED <<store, cancels, comps, ending, cause, idx, try, wires, deeds,
                   setting>>

-----------------------------------------------------------------------------
(* The turn's settle.                                                      *)

Release == holder' = NoOne /\ orphan' = FALSE /\ pc' = "idle"

\* compensateAndCancel: an unconditional write.
SettleCancelled ==
    /\ pc = "undo" /\ idx = 0 /\ cause = "cancel"
    /\ status' = "cancelled" /\ how' = "unwound"
    /\ pc' = "drain"
    /\ UNCHANGED <<holder, orphan, step, row, marker, cancels, comps, ending,
                   cause, idx, try, wires, deeds, given>>

DrainMarkers ==
    /\ pc = "drain"
    /\ marker' = 0
    /\ Release
    /\ UNCHANGED <<status, how, step, row, cancels, comps, ending, cause, idx, try,
                   wires, deeds, given>>

\* settleRun: a run that ended meanwhile keeps its end.
Settled(o) == IF status \in Live THEN status' = o /\ how' = "unwound"
              ELSE UNCHANGED <<status, how>>

SettleFailed ==
    /\ pc = "undo" /\ idx = 0 /\ cause = "failure"
    /\ Settled("failed") /\ Release
    /\ UNCHANGED <<step, row, marker, cancels, comps, ending, cause, idx, try,
                   wires, deeds, given>>

SettleOutcome ==
    /\ pc = "settle"
    /\ IF status \in Live
       THEN status' = IF ending = "returns" THEN "completed" ELSE "suspended"
       ELSE UNCHANGED status
    /\ Release
    /\ UNCHANGED <<how, step, row, marker, cancels, comps, ending, cause, idx, try,
                   wires, deeds, given>>

-----------------------------------------------------------------------------
(* Workers and results.                                                    *)

\* The result of a step of the body: salvaged onto a failed run, dropped by a
\* completed or cancelled one.
StepLands(s) ==
    /\ step[s] = "out" /\ status \notin {"completed", "cancelled"}
    /\ step' = [step EXCEPT ![s] = "done"]
    /\ UNCHANGED <<status, how, holder, orphan, row, marker, cancels, turn, wires,
                   deeds, given>>

Answer(t, ok) == result' = result \union {[of |-> t.of, idx |-> t.idx, att |-> t.att, ok |-> ok]}

\* Every delivery of a task is answered; one under a name nobody serves fails.
Work(t) ==
    /\ \/ /\ t.served /\ Answer(t, TRUE) /\ undone' = undone \union {t.of}
          /\ \/ task' = task \ {t} /\ UNCHANGED budget
             \/ Spend("dups") /\ UNCHANGED task
       \/ /\ t.served /\ Answer(t, FALSE) /\ UNCHANGED undone
          /\ Spend("undofails") /\ task' = task \ {t}
       \/ /\ ~t.served /\ Answer(t, FALSE) /\ UNCHANGED undone
          /\ task' = task \ {t} /\ UNCHANGED budget
    /\ UNCHANGED <<store, cancels, turn, redone, recorded, setting>>

Lose(t) ==
    /\ Spend("losses")
    /\ task' = task \ {t}
    /\ UNCHANGED <<store, cancels, turn, result, deeds, setting>>

\* settleRemoteCheckpoint: by the seq, and only a pending row; a failed run
\* keeps a late success, no other ended run keeps anything.
Settles(m) == /\ row[m.idx].st = "pending"
              /\ status \in Live \/ (status = "failed" /\ m.ok)

\* At an instance, or a time, at which nobody awaits it.
SettleResult(i, m) ==
    /\ ~(i = holder /\ Awaited(m))
    /\ result' = result \ {m}
    /\ IF Settles(m)
       THEN /\ row' = [row EXCEPT ![m.idx].st = IF m.ok THEN "completed" ELSE "failed"]
            /\ recorded' = IF m.ok THEN recorded \union {row[m.idx].of} ELSE recorded
       ELSE UNCHANGED <<row, recorded>>
    /\ UNCHANGED <<status, how, holder, orphan, step, marker, cancels, turn, task,
                   undone, redone, given>>

-----------------------------------------------------------------------------
(* cancel(runId, { compensate: true }), requeue, crashes.                  *)

CancelReads(i) ==
    /\ canc[i] = "idle" /\ status \in Live
    /\ Spend("cancels")
    /\ canc' = [canc EXCEPT ![i] = IF status = "pending" THEN "write" ELSE "flag"]
    /\ UNCHANGED <<store, flag, asked, forgot, turn, wires, deeds, setting>>

CancelFlags(i) ==
    /\ canc[i] = "flag"
    /\ flag' = flag \union {i}
    /\ canc' = [canc EXCEPT ![i] = "mark"]
    /\ UNCHANGED <<store, asked, forgot, turn, wires, deeds, given>>

\* The marker is in the store: from here on the cancel is accepted.
CancelMarks(i) ==
    /\ canc[i] = "mark"
    /\ marker' = marker + 1 /\ asked' = TRUE
    /\ canc' = [canc EXCEPT ![i] = "idle"]
    /\ UNCHANGED <<status, how, holder, orphan, step, row, flag, forgot, turn,
                   wires, deeds, given>>

\* A run read as `pending' is cancelled at once: nothing is undone.
CancelWrites(i) ==
    /\ canc[i] = "write"
    /\ status' = "cancelled" /\ how' = "plain"
    /\ canc' = [canc EXCEPT ![i] = "idle"]
    /\ UNCHANGED <<holder, orphan, step, row, marker, flag, asked, forgot, turn,
                   wires, deeds, given>>

\* An operator's retry of a failed run: what failed gets its attempts back.
Requeue ==
    /\ status = "failed" /\ pc = "idle"
    /\ Spend("requeues")
    /\ status' = "pending" /\ how' = "none"
    /\ row' = [n \in Steps |-> IF row[n].st = "failed" THEN [row[n] EXCEPT !.att = 0]
                               ELSE row[n]]
    /\ UNCHANGED <<holder, orphan, step, marker, cancels, turn, wires, deeds, setting>>

\* The flag, the call and the turn of a dead process are gone; its lease lapses
\* and it starts again.
Crash(i) ==
    /\ Spend("crashes")
    /\ flag' = flag \ {i}
    /\ canc' = [canc EXCEPT ![i] = "idle"]
    /\ IF holder = i
       THEN /\ holder' = NoOne /\ orphan' = TRUE
            /\ pc' = "idle" /\ idx' = 0 /\ try' = 0
            /\ forgot' = (forgot \/ pc = "rebuffer")
       ELSE UNCHANGED <<holder, orphan, pc, idx, try, forgot>>
    /\ UNCHANGED <<status, how, step, row, marker, asked, comps, ending, cause,
                   wires, deeds, setting>>

-----------------------------------------------------------------------------
Init ==
    /\ status = "pending" /\ how = "none" /\ holder = NoOne /\ orphan = FALSE
    /\ step = [s \in Steps |-> "none"] /\ row = [n \in Steps |-> NoRow]
    /\ marker = 0
    /\ flag = {} /\ canc = [i \in Inst |-> "idle"] /\ asked = FALSE /\ forgot = FALSE
    /\ pc = "idle" /\ comps = <<>> /\ ending = "waits" /\ cause = "failure"
    /\ idx = 0 /\ try = 0
    /\ task = {} /\ result = {}
    /\ undone = {} /\ recorded = {} /\ redone = {}
    /\ setting \in Settings /\ budget \in Environments

TurnStep ==
    \/ Body \/ LocalStep \/ FindFlag \/ FindMarker \/ Rebuffer \/ FindNoCancel
    \/ SkipUndo \/ TryUndo \/ CallClosure \/ SaveCompleted \/ SaveFailed
    \/ SavePending \/ Send \/ ResultAwaited \/ PollSees \/ TimeOut
    \/ SettleCancelled \/ DrainMarkers \/ SettleFailed \/ SettleOutcome

CancelStep(i) == CancelFlags(i) \/ CancelMarks(i) \/ CancelWrites(i)

Next ==
    \/ TurnStep \/ Recover \/ Requeue
    \/ \E i \in Inst : Begin(i) \/ CancelReads(i) \/ CancelStep(i) \/ Crash(i)
    \/ \E s \in Steps : StepLands(s)
    \/ \E t \in task : Work(t) \/ Lose(t)
    \/ \E m \in result : \E i \in Inst : SettleResult(i, m)

Spec == Init /\ [][Next]_vars

\* A turn under way goes on, a live run is woken, an orphan is recovered, the
\* workers answer, a result is delivered somewhere, a call of cancel goes on.
Fairness ==
    /\ WF_vars(TurnStep) /\ WF_vars(Recover)
    /\ WF_vars(\E i \in Inst : Begin(i))
    /\ \A i \in Inst : WF_vars(CancelStep(i))
    /\ \A s \in Steps : WF_vars(StepLands(s))
    /\ WF_vars(\E t \in task : Work(t))
    /\ WF_vars(\E m \in result : \E i \in Inst : SettleResult(i, m))

FairSpec == Spec /\ Fairness

-----------------------------------------------------------------------------
(* Properties.                                                             *)

InUndo == {"fn", "save", "fail", "dispatch", "send", "await"}
Places == {"idle", "body", "local", "exit", "rebuffer", "undo", "settle", "drain"}
            \union InUndo
Undos  == [st : {"none", "pending", "completed", "failed"}, of : 0 .. NSteps,
           att : 0 .. Retries]

\* Every variable stays in its domain: the columns of the row and of the undo
\* checkpoints, what a task and a result carry, where a turn can be.
SagasTypeOK ==
    /\ status \in Live \union Terminal /\ how \in {"none", "plain", "unwound"}
    /\ holder \in Inst \union {NoOne} /\ orphan \in BOOLEAN
    /\ step \in [Steps -> {"none", "out", "done"}]
    /\ row \in [Steps -> Undos] /\ marker \in Nat
    /\ flag \subseteq Inst /\ canc \in [Inst -> {"idle", "flag", "mark", "write"}]
    /\ asked \in BOOLEAN /\ forgot \in BOOLEAN
    /\ pc \in Places /\ comps \in Seq(Steps)
    /\ ending \in {"returns", "throws", "waits"} /\ cause \in {"failure", "cancel"}
    /\ idx \in Nat /\ try \in 0 .. Retries
    /\ task \subseteq [of : Steps, idx : Steps, att : 1 .. Retries, served : BOOLEAN]
    /\ result \subseteq [of : Steps, idx : Steps, att : 1 .. Retries, ok : BOOLEAN]
    /\ undone \subseteq Steps /\ redone \subseteq Steps /\ recorded \subseteq Steps
    /\ setting \in Settings /\ budget \in [Disturbances -> Nat]

\* The undo of registration index n was tried as often as compensationRetries
\* allows and is reported as failed.
GivenUp(n) == row[n].st = "failed" /\ row[n].att >= Retries

\* A run that ends by its saga has undone every step that had completed when
\* its last turn replayed it, or has given up on that step's undo: whoever
\* died in between, wherever the undo's result landed and however late.
EndedIsUndone ==
    status \in {"failed", "cancelled"} /\ how = "unwound" =>
        \A n \in 1 .. Len(comps) : comps[n] \in undone \/ GivenUp(n)

\* A compensating cancel that was accepted ends the run, though the instance
\* that took it may die, may not have the workflow, and the run itself waits
\* for good. (Not if a holder dies between taking the marker and putting it
\* back.)
CancelHonoured == []<>(asked => status \in Terminal \/ forgot)

\* "A re-driven unwind reads the checkpoints, skips undos already completed (no
\* double refunds)" (docs/reliability/sagas.mdx): an undo once recorded as
\* completed is not started again.
RecordedIsNotRedone == redone = {}
=============================================================================
