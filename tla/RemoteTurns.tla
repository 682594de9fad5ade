----------------------------- MODULE RemoteTurns -----------------------------
(* A workflow whose body runs on a worker.  The engine sends the worker a    *)
(* TURN, the history of the run's calls, and lets go of the run: the turn's  *)
(* id is recorded on the row, the run is suspended, the lease released, and  *)
(* only then is the turn enqueued.  The worker replays the body and answers  *)
(* with a DECISION: the calls the body waits for, or that it is done.  Any   *)
(* instance may take the decision, and applies it if the run still awaits    *)
(* that turn.  The body gathers Call side by side, and returns.              *)
(*                                                                           *)
(* The run's wakes (results, timers, the polls) are those of RunTurns, here  *)
(* one step each; a call's own way to its worker and back is RemoteSteps'.   *)
EXTENDS Integers, FiniteSets

CONSTANTS
    Inst,       \* engine instances
    NoOne,      \* no owner of the lease
    Gone,       \* the owner of a lease whose instance died
    Call,       \* the calls the body gathers
    Turn,       \* ids of turns
    NoTurn,
    Settings    \* what TLC chooses a setting from

\* What may go wrong: a turn or a decision is lost; a decision or a result is
\* delivered twice; an instance dies; an operator cancels; a worker beats; an
\* answer comes after its window; a turn or a call cannot be enqueued.
Disturbances == {"losses", "dups", "crashes", "cancels", "beats", "lates", "errors"}

ASSUME TurnsAssumption ==
    /\ NoOne \notin Inst /\ Gone \notin Inst /\ NoOne # Gone
    /\ NoTurn \notin Turn
    \* Is remoteAdvanceSilenceMs set, and reconcileMs?  What may go wrong?
    /\ Settings \subseteq [window : BOOLEAN, reconcile : BOOLEAN, left : [Disturbances -> Nat]]

VARIABLES
    setting,
    row,        \* the run's row
    cp,         \* the checkpoint of each call
    act,        \* what each instance does with the run: its gate admits one at a time
    queued,     \* instances with a resume behind the gate
    beating,    \* instances that renew a turn's window, between read and write
    sending,    \* the call each instance has journalled and not sent yet
    task,       \* turns on their way to a worker
    decision,   \* decisions on their way to an instance
    sent,       \* calls handed to the transport
    \* What happened, for the properties.
    applied,    \* how often each turn's decision was applied
    known       \* the history of the decision applied last

wires     == <<task, decision, sent>>
history   == <<applied, known>>
memory    == <<act, queued, beating, sending>>
turnsVars == <<setting, row, cp, memory, wires, history>>

-----------------------------------------------------------------------------
Terminal == {"completed", "failed", "cancelled"}
Ended    == row.status \in Terminal
\* A settle writes over any other status: over `failed' too.
Closed   == row.status \in {"completed", "cancelled"}

Unread == [status |-> "pending", out |-> FALSE, due |-> FALSE, mine |-> FALSE, stamp |-> FALSE]
Idle   == [at |-> "idle", seen |-> Unread, turn |-> NoTurn, hist |-> {}]

Left(d)  == setting.left[d] > 0
Spend(d) == Left(d) /\ setting' = [setting EXCEPT !.left[d] = @ - 1]

\* Ids are random; one that nobody remembers may come again in the model.
InUse    == {row.turn} \union {act[i].turn : i \in Inst}
              \union {d.turn : d \in task \union decision}
Fresh(t) == t \in Turn \ InUse /\ t = CHOOSE u \in Turn \ InUse : TRUE

Settled == {c \in Call : cp[c] = "settled"}

Does(i, a)    == act' = [act EXCEPT ![i] = a]
Goes(i, at)   == Does(i, [act[i] EXCEPT !.at = at])

\* Mutant: a live lease is taken.
FreeWhoever == TRUE
Free == row.owner = NoOne
\* releaseRunLock by owner.
Released(r, i) == IF r.owner = i THEN [r EXCEPT !.owner = NoOne] ELSE r

\* A resume of the run at i: at once, or behind what its gate has admitted.
Resume(i) == queued' = queued \union {i}

-----------------------------------------------------------------------------
(* A turn is dispatched: resumeRunNow, execute, runRemoteExecution.         *)

\* The row is read before the lease is taken, and not again after.
ReadRun(i) ==
    /\ i \in queued /\ act[i].at = "idle"
    /\ queued' = queued \ {i}
    /\ IF Ended THEN UNCHANGED act
       ELSE Does(i, [Idle EXCEPT !.at = "lock",
                        !.seen = [status |-> row.status, out |-> row.turn # NoTurn,
                                  due |-> row.turn # NoTurn /\ row.wake = "due", mine |-> row.owner = i,
                                  stamp |-> row.stamp]])
    /\ UNCHANGED <<setting, row, cp, beating, sending, wires, history>>

\* Mutant: a turn that is out is waited for, however long.
HoldsAlways(i) == act[i].seen.status = "suspended" /\ act[i].seen.out
\* A turn is out and within its window, by the row as it was read.
Holds(i) == act[i].seen.status = "suspended" /\ act[i].seen.out /\ ~act[i].seen.due

\* The lease was i's own when it read the row (the poll took it) and is, or it
\* is free; else the wake is refused and leaves a stamp.  A turn clears the
\* stamp it has read.  Held, the wake is dropped and the lease given back; a
\* first turn marks the run started, whatever the row says by now.
Lock(i) ==
    /\ act[i].at = "lock"
    /\ LET seen == act[i].seen
           taken == [row EXCEPT !.owner = i, !.stamp = @ /\ ~seen.stamp] IN
       \/ /\ ~(seen.mine /\ row.owner = i) /\ ~Free
          /\ row' = [row EXCEPT !.stamp = ~Ended] /\ Does(i, Idle)
       \/ /\ (seen.mine /\ row.owner = i) \/ Free
          /\ Holds(i) /\ row' = Released(taken, i) /\ Does(i, Idle)
       \/ /\ (seen.mine /\ row.owner = i) \/ Free
          /\ ~Holds(i)
          /\ row' = IF seen.status = "pending" THEN [taken EXCEPT !.status = "running"] ELSE taken
          /\ Does(i, [Idle EXCEPT !.at = "snapshot"])
    /\ UNCHANGED <<setting, cp, queued, beating, sending, wires, history>>

\* The turn's history: the calls settled by now.
Snapshot(i) ==
    /\ act[i].at = "snapshot"
    /\ Does(i, [act[i] EXCEPT !.at = "mark", !.hist = Settled])
    /\ UNCHANGED <<setting, row, cp, queued, beating, sending, wires, history>>

\* The turn's id and the deadline of its window are recorded, and the run
\* suspended, unless it was closed meanwhile; the lease is given back.
Mark(i) ==
    /\ act[i].at = "mark"
    /\ \/ /\ Closed
          /\ row' = Released(row, i) /\ Does(i, Idle)
          /\ UNCHANGED applied
       \/ /\ ~Closed
          /\ \E t \in Turn :
               /\ Fresh(t)
               /\ row' = Released([row EXCEPT !.status = "suspended", !.turn = t,
                                      !.wake = IF setting.window THEN "later" ELSE "none"], i)
               /\ Does(i, [act[i] EXCEPT !.at = "enqueue", !.turn = t])
               /\ applied' = [u \in Turn |-> IF u \in InUse THEN applied[u] ELSE 0]
    /\ UNCHANGED <<setting, cp, queued, beating, sending, wires, known>>

\* A turn that cannot be enqueued fails the run that still awaits it.
Enqueue(i) ==
    /\ act[i].at = "enqueue"
    /\ \/ /\ task' = task \union {[turn |-> act[i].turn, hist |-> act[i].hist]}
          /\ UNCHANGED <<setting, row>>
       \/ /\ Spend("errors")
          /\ row' = IF row.turn = act[i].turn /\ row.status = "suspended"
                    THEN [row EXCEPT !.status = "failed", !.turn = NoTurn, !.wake = "none"]
                    ELSE row
          /\ UNCHANGED task
    /\ Does(i, Idle)
    /\ UNCHANGED <<cp, queued, beating, sending, decision, sent, history>>

-----------------------------------------------------------------------------
(* The worker, and the wires.                                               *)

\* runWorkflowTurn: the same history gives the same decision.
Replay(t) ==
    /\ t \in task
    /\ task' = task \ {t}
    /\ decision' = decision \union {t}
    /\ UNCHANGED <<setting, row, cp, memory, sent, history>>

Lose(d) ==
    /\ d \in task \union decision /\ Spend("losses")
    /\ task' = task \ {d} /\ decision' = decision \ {d}
    /\ UNCHANGED <<row, cp, memory, sent, history>>

\* Mutant: any decision will do while a turn is out.
AwaitsAny(d) == row.status = "suspended" /\ row.turn # NoTurn
\* awaitsDecision: the run awaits exactly this turn.
Awaits(d) == row.status = "suspended" /\ row.turn # NoTurn /\ row.turn = d.turn

\* completeRemoteDecision, leaseForDecision: a decision nobody awaits is dropped.
\* Else its handler waits for i's gate, and for the lease: i's own already, or
\* free.  (It gives up after a lease's time, as if the decision were lost.)
Receive(i, d) ==
    /\ d \in decision
    /\ \/ decision' = decision \ {d} /\ UNCHANGED setting
       \/ Spend("dups") /\ UNCHANGED decision
    /\ IF Awaits(d)
       THEN /\ act[i].at = "idle" /\ (row.owner = i \/ Free)
            /\ row' = [row EXCEPT !.owner = i]
            /\ Does(i, [Idle EXCEPT !.at = "claim", !.turn = d.turn, !.hist = d.hist])
       ELSE UNCHANGED <<row, act>>
    /\ UNCHANGED <<cp, queued, beating, sending, task, sent, history>>

-----------------------------------------------------------------------------
(* A decision is applied: applyRemoteDecision.                              *)

\* Looked at again under the lease, the marker is cleared and the run claimed;
\* the id is of no use any more.
ClaimTurn(i) ==
    /\ act[i].at = "claim"
    /\ IF Awaits(act[i])
       THEN /\ row' = [row EXCEPT !.status = "running", !.turn = NoTurn, !.wake = "none"]
            /\ applied' = [applied EXCEPT ![act[i].turn] = @ + 1]
            /\ known' = act[i].hist
            /\ Does(i, [act[i] EXCEPT !.at = "apply", !.turn = NoTurn])
       ELSE row' = Released(row, i) /\ Does(i, Idle) /\ UNCHANGED history
    /\ UNCHANGED <<setting, cp, queued, beating, sending, wires>>

\* What the decision still has to start: calls it asks for without checkpoint.
ToStart(i) == {c \in Call \ act[i].hist : cp[c] = "none"}

\* A call is journalled, once: one that has a checkpoint is skipped, whether it
\* was ever sent or not (remoteRedispatchMs is not set).
JournalCall(i, c) ==
    /\ act[i].at = "apply" /\ sending[i] = {} /\ c \in ToStart(i)
    /\ cp' = [cp EXCEPT ![c] = "pending"]
    /\ sending' = [sending EXCEPT ![i] = {c}]
    /\ UNCHANGED <<setting, row, act, queued, beating, wires, history>>

\* Then it is handed to the transport.  One that cannot be enqueued ends the
\* handler, which gives back the lease of a run that reads `running'.
SendCall(i, c) ==
    /\ act[i].at = "apply" /\ c \in sending[i]
    /\ sending' = [sending EXCEPT ![i] = {}]
    /\ \/ sent' = sent \union {c} /\ UNCHANGED <<setting, row, act>>
       \/ /\ Spend("errors")
          /\ row' = Released(row, i) /\ Does(i, Idle)
          /\ UNCHANGED sent
    /\ UNCHANGED <<cp, queued, beating, task, decision, history>>

\* settleRun: the run is done, or suspended until a call's result; not over a
\* run that was closed meanwhile.
SettleDecision(i) ==
    /\ act[i].at = "apply" /\ sending[i] = {} /\ ToStart(i) = {}
    /\ row' = IF Closed THEN row
              ELSE IF act[i].hist = Call THEN [row EXCEPT !.status = "completed"]
              ELSE [row EXCEPT !.status = "suspended",
                               !.wake = IF setting.reconcile THEN "later" ELSE "none"]
    /\ Goes(i, "let go")
    /\ UNCHANGED <<setting, cp, queued, beating, sending, wires, history>>

LetGo(i) ==
    /\ act[i].at = "let go"
    /\ row' = Released(row, i)
    /\ IF row.status = "suspended" THEN Goes(i, "recheck") ELSE Does(i, Idle)
    /\ UNCHANGED <<setting, cp, queued, beating, sending, wires, history>>

\* Mutant: what the run waits for is not looked at again.
RecheckedNot(i) == {}
\* recheckWaitSeqs: of the calls of the decision, those that have settled since
\* its history was read, with their wakes held or refused.
Rechecked(i) == Settled \ act[i].hist

\* The run is resumed if there are any.  (i's gate is free by then; a turn it
\* lets in first only has seen them already.)
Recheck(i) ==
    /\ act[i].at = "recheck"
    /\ IF Rechecked(i) # {} THEN Resume(i) ELSE UNCHANGED queued
    /\ Does(i, Idle)
    /\ UNCHANGED <<setting, row, cp, beating, sending, wires, history>>

-----------------------------------------------------------------------------
(* What wakes the run.                                                      *)

\* completeRemoteResult: a call that was sent is settled if pending, and the run resumed;
\* a result that is late for a run that was closed is dropped.
Result(i, c) ==
    /\ \/ cp[c] = "pending" /\ c \in sent /\ UNCHANGED setting
       \/ cp[c] = "settled" /\ Spend("dups")
    /\ cp' = IF Closed THEN cp ELSE [cp EXCEPT ![c] = "settled"]
    /\ IF Ended THEN UNCHANGED queued ELSE Resume(i)
    /\ UNCHANGED <<row, act, beating, sending, wires, history>>

\* The poll: a pending run, or a suspended one that is due or stamped, is
\* locked and resumed.
Poll(i) ==
    /\ \/ row.status = "pending"
       \/ row.status = "suspended" /\ (row.wake = "due" \/ row.stamp)
    /\ Free
    /\ row' = [row EXCEPT !.owner = i]
    /\ Resume(i)
    /\ UNCHANGED <<setting, cp, act, beating, sending, wires, history>>

\* recoverIncomplete, of a run that reads `running' with no lease: with a call
\* out it is parked on a near wake, else it starts again.
Recover(i) ==
    /\ row.status = "running" /\ Free
    /\ IF \E c \in Call : cp[c] = "pending"
       THEN row' = [row EXCEPT !.status = "suspended", !.wake = "later"]
       ELSE row' = [row EXCEPT !.status = "pending"]
    /\ UNCHANGED <<setting, cp, memory, wires, history>>

\* A beat of the worker renews the window: read, then written to a suspended run.
BeatRead(i) ==
    /\ row.status = "suspended" /\ row.turn # NoTurn /\ setting.window
    /\ \E t \in task : t.turn = row.turn
    /\ Spend("beats")
    /\ beating' = beating \union {i}
    /\ UNCHANGED <<row, cp, act, queued, sending, wires, history>>
BeatWrite(i) ==
    /\ i \in beating
    /\ beating' = beating \ {i}
    /\ row' = IF row.status = "suspended" THEN [row EXCEPT !.wake = "later"] ELSE row
    /\ UNCHANGED <<setting, cp, act, queued, sending, wires, history>>

-----------------------------------------------------------------------------
(* Time, deaths, an operator.                                               *)

\* The turn the run awaits, or its decision, is somewhere.
UnderWay(t) == \/ \E d \in task \union decision : d.turn = t
               \/ \E i \in Inst : act[i].turn = t

\* A deadline passes: that of a turn's window only when nothing of the turn is
\* left, or when what is left of it is late.
WakeDue ==
    /\ row.wake = "later"
    /\ IF row.status = "suspended" /\ row.turn # NoTurn /\ UnderWay(row.turn)
       THEN Spend("lates") ELSE UNCHANGED setting
    /\ row' = [row EXCEPT !.wake = "due"]
    /\ UNCHANGED <<cp, memory, wires, history>>

\* An instance dies, and is back with nothing in its memory.
Crash(i) ==
    /\ Spend("crashes")
    /\ row' = IF row.owner = i THEN [row EXCEPT !.owner = Gone] ELSE row
    /\ Does(i, Idle)
    /\ queued' = queued \ {i} /\ beating' = beating \ {i}
    /\ sending' = [sending EXCEPT ![i] = {}]
    /\ UNCHANGED <<cp, wires, history>>

LeaseLapses ==
    /\ row.owner = Gone
    /\ row' = [row EXCEPT !.owner = NoOne]
    /\ UNCHANGED <<setting, cp, memory, wires, history>>

\* cancel clears the marker with the status.
Cancel ==
    /\ ~Ended /\ Spend("cancels")
    /\ row' = [row EXCEPT !.status = "cancelled", !.turn = NoTurn]
    /\ UNCHANGED <<cp, memory, wires, history>>

-----------------------------------------------------------------------------
TurnsInit ==
    /\ setting \in Settings
    /\ row = [status |-> "pending", turn |-> NoTurn, wake |-> "none", owner |-> NoOne,
              stamp |-> FALSE]
    /\ cp = [c \in Call |-> "none"]
    /\ act = [i \in Inst |-> Idle]
    /\ queued \in {{i} : i \in Inst}
    /\ beating = {} /\ sending = [i \in Inst |-> {}]
    /\ task = {} /\ decision = {} /\ sent = {}
    /\ applied = [t \in Turn |-> 0]
    /\ known = {}

InstStep(i) ==
    \/ ReadRun(i) \/ Lock(i) \/ Snapshot(i) \/ Mark(i) \/ Enqueue(i)
    \/ ClaimTurn(i) \/ SettleDecision(i) \/ LetGo(i) \/ Recheck(i)
    \/ \E c \in Call : JournalCall(i, c) \/ SendCall(i, c)

TurnsNext ==
    \/ \E i \in Inst : \/ InstStep(i) \/ Poll(i) \/ Recover(i)
                       \/ BeatRead(i) \/ BeatWrite(i) \/ Crash(i)
                       \/ \E d \in decision : Receive(i, d)
                       \/ \E c \in Call : Result(i, c)
    \/ \E d \in task \union decision : Replay(d) \/ Lose(d)
    \/ WakeDue \/ LeaseLapses \/ Cancel

TurnsSpec == TurnsInit /\ [][TurnsNext]_turnsVars

\* Instances go on with what they began, poll and recover; workers answer what
\* they were sent and brokers deliver what is not lost; the clock runs.
FairTurns ==
    /\ \A i \in Inst : WF_turnsVars(InstStep(i))
    /\ WF_turnsVars(\E i \in Inst : Poll(i) \/ Recover(i))
    /\ WF_turnsVars(\E d \in task : Replay(d))
    /\ SF_turnsVars(\E i \in Inst : \E d \in decision : Receive(i, d) /\ setting' = setting)
    /\ \A c \in Call : WF_turnsVars(\E i \in Inst : Result(i, c) /\ setting' = setting)
    /\ WF_turnsVars(WakeDue /\ setting' = setting) /\ WF_turnsVars(LeaseLapses)

FairTurnsSpec == TurnsSpec /\ FairTurns

-----------------------------------------------------------------------------
Holding  == {"snapshot", "mark", "claim", "apply", "let go"}
Places   == {"idle", "lock", "enqueue", "recheck"} \union Holding
TurnIds  == Turn \union {NoTurn}
Messages == [turn : Turn, hist : SUBSET Call]

\* Type invariant; and an instance that prepares a turn or applies a decision
\* is the one the lease names.
TurnsTypeOK ==
    /\ setting.left \in [Disturbances -> Nat]
    /\ row \in [status : {"pending", "running", "suspended"} \union Terminal, turn : TurnIds,
                wake : {"none", "later", "due"}, owner : Inst \union {NoOne, Gone},
                stamp : BOOLEAN]
    /\ cp \in [Call -> {"none", "pending", "settled"}]
    /\ \A i \in Inst : /\ act[i].at \in Places /\ act[i].turn \in TurnIds
                       /\ act[i].hist \subseteq Settled
                       /\ act[i].at \in Holding => row.owner = i
                       /\ sending[i] # {} => act[i].at = "apply"
    /\ sending \in [Inst -> SUBSET Call] /\ sent \subseteq {c \in Call : cp[c] # "none"}
    /\ queued \subseteq Inst /\ beating \subseteq Inst
    /\ task \subseteq Messages /\ decision \subseteq Messages
    /\ known \subseteq Settled

\* A turn's decision is applied once at most, however often it is delivered and
\* wherever, and never while another one is.
AppliedOnce ==
    /\ \A t \in Turn : applied[t] <= 1
    /\ \A i, j \in Inst : act[i].at = "apply" /\ act[j].at = "apply" => i = j

\* Something will bring the run another turn.
Awake ==
    \/ row.wake # "none" \/ row.stamp
    \/ \E i \in Inst : i \in queued \/ act[i].at # "idle"

\* A result whose wake was held, or refused by the lease, is not forgotten: no
\* suspended run has one its last turn did not see, with nothing to wake it for
\* it.  (An instance that dies takes its wakes with it; then reconcileMs.)
NothingForgotten ==
    /\ setting.left["crashes"] = 0 /\ ~setting.reconcile
    /\ row.status = "suspended" /\ row.turn = NoTurn /\ ~(Settled \subseteq known)
    => Awake

\* A call that is journalled and that nobody is going to send.
Orphaned(c) == cp[c] = "pending" /\ c \notin sent /\ \A i \in Inst : c \notin sending[i]

\* The run ends, unless the handler of a decision ended between the journalling
\* and the sending of a call: a turn that is lost with its task or its decision is
\* sent again when its window lapses, one that died while it was applied by the
\* recovery, a wake that died by reconcileMs.
RemoteRunEnds ==
    /\ setting.left["losses"] > 0 => setting.window
    /\ setting.left["crashes"] > 0 => setting.window /\ setting.reconcile
    => <>(Ended \/ \E c \in Call : Orphaned(c))

-----------------------------------------------------------------------------
\* What the documentation says, and the code does not keep.

\* A wake does not dispatch a turn over one that is out and within its window.
NotSuperseded ==
    [][(row.turn # NoTurn /\ row'.turn \notin {NoTurn, row.turn}) => row.wake = "due"]_turnsVars
==============================================================================
