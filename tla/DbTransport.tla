----------------------------- MODULE DbTransport -----------------------------
(* The database transport: step tasks and their results as rows of two       *)
(* tables that every instance polls.  A poll claims rows under a token of    *)
(* its own, with conditional updates; the claim is a lease its instance      *)
(* renews, and whoever finds it lapsed takes the row over.  A worker settles *)
(* a task by deleting its row and inserting the result in one transaction;   *)
(* the engine deletes a result after its handler returned.  Both only where  *)
(* the row still carries their token.                                        *)
(*                                                                           *)
(* The engine is whoever calls Dispatch and whoever handles results: here    *)
(* any order of calls, in RemoteSteps the engine's own code.                 *)
EXTENDS Integers, FiniteSets

CONSTANTS
    Step,       \* stepIds
    Inst,       \* processes, each worker and engine at once
    Token,      \* claim tokens (one per poll round that is under way)
    NoToken,
    LostToken,  \* the token of a process that is gone: which, nobody asks
    NoRow,
    Slots,      \* the concurrency limit of an instance's task loop
    MaxStalled, \* maxStalledCount
    MaxGen,     \* bound: dispatches told apart, an attempt of the step each
    Faults      \* what TLC chooses the budgets of disturbances from

\* What can go wrong, and how often it still may: renewals that come late,
\* crashes, stops, errors (of the database, or thrown by a handler).  "late"
\* counts the renewals that did come late.
Disturbances == {"stalls", "late", "crashes", "stops", "errors"}

ASSUME TransportAssumption ==
    /\ NoToken \notin Token /\ LostToken \notin Token /\ NoToken # LostToken
    /\ Inst # {}
    /\ Slots \in Nat \ {0} /\ MaxStalled \in Nat /\ MaxGen \in Nat \ {0}
    /\ Faults \subseteq [Disturbances -> Nat]

VARIABLES
    task,       \* durable_transport_tasks
    result,     \* durable_transport_results
    round,      \* what each poll round holds in its instance's memory
    held,       \* #held: the rows each round's instance renews, by token
    closing,    \* instances whose pollers are closed
    fault,      \* the disturbances left, and the late renewals so far
    starts      \* how often a handler started on the row; handed back ones not counted

transportVars == <<task, result, round, held, closing, fault, starts>>

-----------------------------------------------------------------------------
Gen == 1..MaxGen
Row == [gen : Nat, ok : BOOLEAN, by : Token \union {NoToken, LostToken}, lapsed : BOOLEAN,
        reclaims : Nat]
ASSUME NoRowAssumption == NoRow \notin Row
IsRow(row) == row # NoRow
Free(row)  == row.by = NoToken
Mine(row, t) == IsRow(row) /\ row.by = t

\* Mutant: a lapsed claim is not taken over.
ClaimableFresh(row) == IsRow(row) /\ Free(row)
\* The candidates of #claim: rows unclaimed, or claimed and not renewed in time.
Claimable(row) == IsRow(row) /\ (Free(row) \/ row.lapsed)

\* Mutant: a takeover starts the count anew.
ClaimedUncounted(row, t) == [row EXCEPT !.by = t, !.lapsed = FALSE, !.reclaims = 0]
\* A claim row: reclaims counts the takeovers of a lapsed claim (tasks only).
\* Bound: past MaxStalled the count is not told apart.
Claimed(row, t) ==
    [row EXCEPT !.by = t, !.lapsed = FALSE,
                !.reclaims = IF ~Free(row) /\ @ <= MaxStalled THEN @ + 1 ELSE @]
Unclaimed(row) == [row EXCEPT !.by = NoToken, !.lapsed = FALSE]

\* What a round is doing with each step.  Tasks: "claimed" when the claim
\* returned, "taken" once held, "running" in its handler, "ran" when the
\* handler is done, "poison" when it is failed instead of run.  Results:
\* "handed" to the handler, "read" when it returned, "threw" when it threw.
Jobs  == {"none", "claimed", "taken", "running", "ran", "poison", "handed", "read", "threw"}
NoJob == [s \in Step |-> "none"]
Idle  == [kind |-> "idle", inst |-> CHOOSE i \in Inst : TRUE, job |-> NoJob,
          gen |-> [s \in Step |-> 1], ok |-> [s \in Step |-> FALSE]]

Active(t) == {s \in Step : round[t].job[s] # "none"}

\* Tokens are unique: a round's token is on no row and in no memory before it.
\* Which of the unused ones it gets makes no difference.
Unused == {t \in Token : /\ round[t].kind = "idle"
                         /\ \A s \in Step : ~Mine(task[s], t) /\ ~Mine(result[s], t)}
Fresh(t) == Unused # {} /\ t = CHOOSE u \in Unused : TRUE

\* #runningTasks of an instance.
Running(i) == Cardinality({x \in Token \X Step :
                 /\ round[x[1]].kind = "tasks" /\ round[x[1]].inst = i
                 /\ round[x[1]].job[x[2]] \notin {"none", "claimed"}})

\* The task loop of an instance is one loop: a round at a time is in its claim.
InClaim(i) == \E t \in Token, s \in Step : round[t].inst = i /\ round[t].job[s] = "claimed"

\* The round without step s; its memory is gone with its last job.
Finished(r, s) ==
    LET left == [r EXCEPT !.job[s] = "none"]
    IN  IF left.job = NoJob THEN Idle ELSE left

Holding(t, S) == held' = [held EXCEPT ![t] = S]

\* A database error or a throwing handler, out of the budget.
Fails == fault.errors > 0 /\ fault' = [fault EXCEPT !.errors = @ - 1]

-----------------------------------------------------------------------------
TransportInit ==
    /\ task = [s \in Step |-> NoRow]
    /\ result = [s \in Step |-> NoRow]
    /\ round = [t \in Token |-> Idle]
    /\ held = [t \in Token |-> {}]
    /\ closing = {}
    /\ fault \in Faults
    /\ starts = [s \in Step |-> 0]

NewRow(g, ok) == [gen |-> g, ok |-> ok, by |-> NoToken, lapsed |-> FALSE, reclaims |-> 0]

\* insert ... on conflict (step_id) ignore
Inserted(table, s, row) == IF IsRow(table[s]) THEN table ELSE [table EXCEPT ![s] = row]

\* dispatchMany: attempt g of step s is handed to the transport.
Dispatch(s, g) ==
    /\ task' = Inserted(task, s, NewRow(g, FALSE))
    /\ starts' = IF IsRow(task[s]) THEN starts ELSE [starts EXCEPT ![s] = 0]
    /\ UNCHANGED <<result, round, held, closing, fault>>

\* A round of the task loop: as many claimable rows as there are free slots.
ClaimTasks(i, t) ==
    /\ i \notin closing /\ Fresh(t) /\ ~InClaim(i)
    /\ \E S \in SUBSET {s \in Step : Claimable(task[s])} :
         /\ S # {} /\ Cardinality(S) <= Slots - Running(i)
         /\ task' = [s \in Step |-> IF s \in S THEN Claimed(task[s], t) ELSE task[s]]
         /\ round' = [round EXCEPT ![t] =
                        [Idle EXCEPT !.kind = "tasks", !.inst = i,
                                     !.job = [s \in Step |-> IF s \in S THEN "claimed" ELSE "none"],
                                     !.gen = [s \in Step |-> IF s \in S THEN task[s].gen ELSE 1]]]
    /\ UNCHANGED <<result, held, closing, fault, starts>>

Cleared(table, t, S) ==
    [s \in Step |-> IF s \in S /\ Mine(table[s], t) THEN Unclaimed(table[s]) ELSE table[s]]

\* Mutant: the round is not renewed while its handlers run.
TakeRoundUnheld(t) ==
    LET got == {s \in Step : round[t].job[s] = "claimed"} IN
    /\ round[t].kind = "tasks" /\ got # {} /\ round[t].inst \notin closing
    /\ round' = [round EXCEPT ![t].job = [s \in Step |-> IF s \in got THEN "taken" ELSE "none"]]
    /\ UNCHANGED <<task, result, held, closing, fault, starts>>
\* Back from the claim: closed meanwhile, the round is handed back; else what
\* no longer fits is un-claimed (an adaptive limit may have dropped, to no less
\* than one), and the rest is held and started.
TakeRound(t) ==
    LET r == round[t] got == {s \in Step : r.job[s] = "claimed"} IN
    /\ r.kind = "tasks" /\ got # {}
    /\ IF r.inst \in closing
       THEN /\ task' = Cleared(task, t, got)
            /\ round' = [round EXCEPT ![t] = Idle]
            /\ UNCHANGED held
       ELSE \E fits \in SUBSET got, limit \in 1..Slots :
              /\ LET room == limit - Running(r.inst) IN
                 IF room >= Cardinality(got) THEN fits = got
                 ELSE Cardinality(fits) = IF room > 0 THEN room ELSE 0
              /\ task' = Cleared(task, t, got \ fits)
              /\ round' = [round EXCEPT ![t] =
                   IF fits = {} THEN Idle
                   ELSE [r EXCEPT !.job = [s \in Step |-> IF s \in fits THEN "taken" ELSE "none"]]]
              /\ Holding(t, fits)
    /\ UNCHANGED <<result, closing, fault, starts>>

\* #runTask: past the bound the row is failed, else the claim is checked (and
\* re-stamped) and the handler runs; a claim lost meanwhile is let go.
StartTask(t, s) ==
    /\ round[t].job[s] = "taken"
    /\ \/ /\ Mine(task[s], t) /\ task[s].reclaims > MaxStalled
          /\ round' = [round EXCEPT ![t].job[s] = "poison"]
          /\ Holding(t, held[t] \ {s})
          /\ UNCHANGED <<task, starts>>
       \/ /\ Mine(task[s], t) /\ task[s].reclaims <= MaxStalled
          /\ task' = [task EXCEPT ![s].lapsed = FALSE]
          /\ round' = [round EXCEPT ![t].job[s] = "running"]
          /\ starts' = [starts EXCEPT ![s] = @ + 1]
          /\ UNCHANGED held
       \/ /\ ~Mine(task[s], t)
          /\ round' = [round EXCEPT ![t] = Finished(@, s)]
          /\ Holding(t, held[t] \ {s})
          /\ UNCHANGED <<task, starts>>
    /\ UNCHANGED <<result, closing, fault>>

\* Mutant: the row is renewed until its round ends.
HandlerDoneHeld(t, s, ok) ==
    /\ round[t].job[s] = "running"
    /\ round' = [round EXCEPT ![t].job[s] = "ran", ![t].ok[s] = ok]
    /\ UNCHANGED <<task, result, held, closing, fault, starts>>
\* The handler is done: its row is renewed no more, and will be settled.
HandlerDone(t, s, ok) ==
    /\ round[t].job[s] = "running"
    /\ round' = [round EXCEPT ![t].job[s] = "ran", ![t].ok[s] = ok]
    /\ Holding(t, held[t] \ {s})
    /\ UNCHANGED <<task, result, closing, fault, starts>>

\* #settleTask: one transaction deletes the row and inserts the result, where
\* the row is still this round's; a database error leaves it claimed.
SettleTask(t, s) ==
    /\ round[t].job[s] \in {"ran", "poison"}
    /\ \/ /\ Mine(task[s], t)
          /\ task' = [task EXCEPT ![s] = NoRow]
          /\ result' = Inserted(result, s, NewRow(round[t].gen[s],
                                  round[t].job[s] = "ran" /\ round[t].ok[s]))
          /\ UNCHANGED fault
       \/ ~Mine(task[s], t) /\ UNCHANGED <<task, result, fault>>
       \/ Fails /\ UNCHANGED <<task, result>>
    /\ round' = [round EXCEPT ![t] = Finished(@, s)]
    /\ UNCHANGED <<held, closing, starts>>

-----------------------------------------------------------------------------
\* A round of the result loop: rows are claimed and handed to the handler.
ClaimResults(i, t) ==
    /\ i \notin closing /\ Fresh(t)
    /\ \E S \in SUBSET {s \in Step : Claimable(result[s])} :
         /\ S # {}
         /\ result' = [s \in Step |-> IF s \in S
                         THEN [Claimed(result[s], t) EXCEPT !.reclaims = 0] ELSE result[s]]
         /\ round' = [round EXCEPT ![t] =
                        [Idle EXCEPT !.kind = "results", !.inst = i,
                                     !.job = [s \in Step |-> IF s \in S THEN "handed" ELSE "none"],
                                     !.gen = [s \in Step |-> IF s \in S THEN result[s].gen ELSE 1],
                                     !.ok = [s \in Step |-> s \in S /\ result[s].ok]]]
         /\ Holding(t, S)
    /\ UNCHANGED <<task, closing, fault, starts>>

\* The engine's handler returned for one row of the round, or threw.
Returned(t, s) ==
    /\ round[t].job[s] = "handed"
    /\ round' = [round EXCEPT ![t].job[s] = "read"]
    /\ UNCHANGED <<task, result, held, closing, fault, starts>>
Threw(t, s) ==
    /\ round[t].job[s] = "handed" /\ Fails
    /\ round' = [round EXCEPT ![t].job[s] = "threw"]
    /\ UNCHANGED <<task, result, held, closing, starts>>

\* The whole round is through its handlers: its rows are renewed no more.
RoundRead(t) ==
    /\ round[t].kind = "results" /\ held[t] # {}
    /\ \A s \in Step : round[t].job[s] # "handed"
    /\ Holding(t, {})
    /\ UNCHANGED <<task, result, round, closing, fault, starts>>

\* Mutants: the rows whose handler threw are deleted too; a row is deleted
\* whoever has it.
DeleteReadAll(t) ==
    /\ round[t].kind = "results" /\ held[t] = {} /\ \A s \in Step : round[t].job[s] # "handed"
    /\ result' = [s \in Step |-> IF s \in Active(t) /\ Mine(result[s], t) THEN NoRow ELSE result[s]]
    /\ round' = [round EXCEPT ![t] = Idle]
    /\ UNCHANGED <<task, held, closing, fault, starts>>
DeleteReadAnyones(t) ==
    /\ round[t].kind = "results" /\ held[t] = {} /\ \A s \in Step : round[t].job[s] # "handed"
    /\ result' = [s \in Step |-> IF round[t].job[s] = "read" THEN NoRow ELSE result[s]]
    /\ round' = [round EXCEPT ![t] = Idle]
    /\ UNCHANGED <<task, held, closing, fault, starts>>
\* One DELETE for the rows that were read, where the claim is still ours.
DeleteRead(t) ==
    /\ round[t].kind = "results" /\ held[t] = {}
    /\ \A s \in Step : round[t].job[s] # "handed"
    /\ \/ /\ result' = [s \in Step |-> IF round[t].job[s] = "read" /\ Mine(result[s], t)
                                       THEN NoRow ELSE result[s]]
          /\ UNCHANGED fault
       \/ Fails /\ UNCHANGED result
    /\ round' = [round EXCEPT ![t] = Idle]
    /\ UNCHANGED <<task, held, closing, starts>>

-----------------------------------------------------------------------------
Late == fault.stalls > 0 /\ fault' = [fault EXCEPT !.stalls = @ - 1, !.late = @ + 1]

\* A claim's lease runs out: nobody renews it (its round is gone, or gave it
\* up), or whoever has it is late: a blocked event loop, a database out of reach.
\* What an instance does with a row it need not renew takes no such time.
Brief == {"claimed", "ran", "poison", "read", "threw"}
Attended(row, s) == \E t \in Token : row.by = t /\ (held[t] # {} \/ round[t].job[s] \in Brief)
RunsOut(row, s) ==
    /\ IsRow(row) /\ ~Free(row) /\ ~row.lapsed
    /\ IF Attended(row, s) THEN Late ELSE UNCHANGED fault
Lapse(s) ==
    /\ \/ RunsOut(task[s], s) /\ task' = [task EXCEPT ![s].lapsed = TRUE] /\ UNCHANGED result
       \/ RunsOut(result[s], s) /\ result' = [result EXCEPT ![s].lapsed = TRUE] /\ UNCHANGED task
    /\ UNCHANGED <<round, held, closing, starts>>

\* #renewHeld: every row under a token that is held, of one table or the other.
Renewed(table, T) ==
    [s \in Step |-> IF IsRow(table[s]) /\ table[s].by \in T
                    THEN [table[s] EXCEPT !.lapsed = FALSE] ELSE table[s]]
Renew(i) ==
    LET T == {t \in Token : held[t] # {} /\ round[t].inst = i} IN
    /\ task' = Renewed(task, T)
    /\ result' = Renewed(result, T)
    /\ UNCHANGED <<round, held, closing, fault, starts>>

\* stop(): no more polls.
Stop(i) ==
    /\ i \notin closing /\ fault.stops > 0
    /\ fault' = [fault EXCEPT !.stops = @ - 1]
    /\ closing' = closing \union {i}
    /\ UNCHANGED <<task, result, round, held, starts>>

\* The drain budget is spent: every row under a held token is handed back,
\* uncounted, and renewed no more.  Handlers still running go on.
HandBack(i) ==
    LET T == {t \in Token : held[t] # {} /\ round[t].inst = i}
        back(table) == [s \in Step |-> IF IsRow(table[s]) /\ table[s].by \in T
                                       THEN Unclaimed(table[s]) ELSE table[s]] IN
    /\ i \in closing /\ T # {}
    /\ task' = back(task) /\ result' = back(result)
    /\ held' = [t \in Token |-> IF t \in T THEN {} ELSE held[t]]
    /\ starts' = [s \in Step |->
                    IF \E t \in T : Mine(task[s], t) /\ round[t].job[s] \in {"running", "ran"}
                    THEN starts[s] - 1 ELSE starts[s]]
    /\ UNCHANGED <<round, closing, fault>>

\* The process dies, or ends after its stop, and another takes its place: its
\* memory is gone, its claims are on the rows until they lapse.
Orphaned(table, T) ==
    [s \in Step |-> IF IsRow(table[s]) /\ table[s].by \in T
                    THEN [table[s] EXCEPT !.by = LostToken] ELSE table[s]]
Dead(i) ==
    LET T == {t \in Token : round[t].inst = i /\ round[t].kind # "idle"} IN
    /\ task' = Orphaned(task, T) /\ result' = Orphaned(result, T)
    /\ round' = [t \in Token |-> IF round[t].inst = i THEN Idle ELSE round[t]]
    /\ held' = [t \in Token |-> IF round[t].inst = i THEN {} ELSE held[t]]
    /\ closing' = closing \ {i}
    /\ UNCHANGED starts
Crash(i) == fault.crashes > 0 /\ fault' = [fault EXCEPT !.crashes = @ - 1] /\ Dead(i)
Exit(i)  == i \in closing /\ UNCHANGED fault /\ Dead(i)
             /\ \A t \in Token : round[t].inst = i => held[t] = {}

TransportStep ==
    \/ \E i \in Inst : \/ \E t \in Token : ClaimTasks(i, t) \/ ClaimResults(i, t)
                       \/ Renew(i) \/ Stop(i) \/ HandBack(i) \/ Exit(i)
    \/ \E t \in Token : TakeRound(t) \/ RoundRead(t) \/ DeleteRead(t)
    \/ \E t \in Token, s \in Step :
          StartTask(t, s) \/ SettleTask(t, s) \/ \E ok \in BOOLEAN : HandlerDone(t, s, ok)
    \/ \E s \in Step : Lapse(s)

TransportNext ==
    \/ TransportStep
    \/ \E i \in Inst : Crash(i)
    \/ \E s \in Step, g \in Gen : Dispatch(s, g)
    \/ \E t \in Token, s \in Step : Returned(t, s) \/ Threw(t, s)

TransportSpec == TransportInit /\ [][TransportNext]_transportVars

-----------------------------------------------------------------------------
\* What the transport is for its users: the steps in its task table are out,
\* the results in the other are answers, and an answer is read once a round
\* that still has it under its token got it through the handler.
Mailbox == INSTANCE StepMailbox WITH
    out    <- {s \in Step : IsRow(task[s])},
    answer <- {s \in Step : IsRow(result[s])},
    read   <- {s \in Step : \E t \in Token : Mine(result[s], t) /\ round[t].kind = "results"
                                              /\ round[t].job[s] = "read"}
==============================================================================
