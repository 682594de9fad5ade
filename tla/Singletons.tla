----------------------------- MODULE Singletons -----------------------------
(***************************************************************************)
(* A singleton key: at most `limit' of its runs are past the gate at once. *)
(* A slot is a tag on the run's row, given by tryAdmitSingleton inside the *)
(* store's critical section, taken back by the write that ends the run.    *)
(*                                                                         *)
(* Runs are numbered by (createdAt, id), the order of the queue, which is  *)
(* not always the order in which they are created: two replicas' clocks    *)
(* differ, and within one millisecond the ids decide.                      *)
(*                                                                         *)
(* RunTurns has what a turn does with its lease; here a turn is what the   *)
(* gate sees of it, the lease goes with the turn's last write, and a dead  *)
(* turn's lapses at once.  All replicas are 0.51 or newer.                 *)
(***************************************************************************)
EXTENDS Integers, FiniteSets

CONSTANTS
    Last,         \* runs 1..Last share the key
    AtOnce,       \* turns of one run that may be under way at once
    Settings      \* the limit, and what an instance meets

Runs == 1 .. Last

\* How many runs may pass the gate; whether runs are created in queue order;
\* the runs started with startAt; the runs several turns of which may be under
\* way (a dispatch and a poll); whether a recovery may be one too many; how
\* often bodies suspend or block; how many processes die, cancels and requeues
\* come.
Setting == [limit : Nat \ {0}, inOrder : BOOLEAN, delayed : SUBSET Runs,
            doubles : SUBSET Runs, deadLetters : BOOLEAN,
            naps : Nat, deaths : Nat, cancels : Nat, requeues : Nat]

ASSUME SingletonsAssumption ==
    /\ Last \in Nat
    /\ AtOnce \in Nat \ {0}
    /\ Settings \subseteq Setting

VARIABLES
    \* the rows: status, singleton marker, what wakeAt stands for, lease
    status, tag, wake, owner,
    \* whether the startAt of a run has come
    startsAt,
    \* the run's body has begun and the run has not ended (history)
    begun,
    \* per turn: where it is, and whether the row it read was new (pending,
    \* without marker), marked (pending, with one) or started
    at, seen,
    \* per run: an operator's call between its read and its write; wakeNext is
    \* owed; the waiters it listed and has not made due
    op, owes, gated,
    \* the setting, and what is left of its bounds
    setting, left

rows  == <<status, tag, wake, owner>>
turns == <<at, seen>>
calls == <<op, owes, gated>>
vars  == <<rows, startsAt, begun, turns, calls, setting, left>>

Ended  == {"completed", "failed", "cancelled", "dead"}
Queued == {"pending", "running", "suspended", "blocked"}
Nobody == 0

limit == setting.limit
Turns == Runs \X (1 .. AtOnce)

Init ==
    /\ setting \in Settings
    /\ left = [naps |-> setting.naps, deaths |-> setting.deaths,
               cancels |-> setting.cancels, requeues |-> setting.requeues]
    /\ status = [r \in Runs |-> "absent"]
    /\ tag = [r \in Runs |-> "none"]
    /\ wake = [r \in Runs |-> "none"]
    /\ owner = [r \in Runs |-> Nobody]
    /\ startsAt = [r \in Runs |-> IF r \in setting.delayed THEN "future" ELSE "past"]
    /\ begun = [r \in Runs |-> FALSE]
    /\ at = [t \in Turns |-> "idle"]
    /\ seen = [t \in Turns |-> "started"]
    /\ op = [r \in Runs |-> "none"]
    /\ owes = [r \in Runs |-> FALSE]
    /\ gated = [r \in Runs |-> {}]

-----------------------------------------------------------------------------
(* The decision of tryAdmitSingleton.                                      *)

\* The n first of S in queue order.
Oldest(S, n) == {r \in S : Cardinality({q \in S : q <= r}) <= n}

Active  == {r \in Runs : status[r] \in Queued}
Tagged  == {r \in Active : tag[r] = "admitted"}
Scanned == {r \in Active : status[r] \in {"running", "suspended"}}

\* The scan of replicas older than 0.51, every holder keeping its seat in it.
Window == Oldest(Scanned \union Tagged, limit)

\* Holders without the tag: never marked, or within the old scan's window.
Legacy(c) == {r \in Scanned \ (Tagged \union {c}) : tag[r] # "tracked" \/ r \in Window}

Holders(c) == Tagged \union Legacy(c)

\* Mutant: only runs that were executed queue for a slot.
WaitersExecuted(c) == Scanned \ Holders(c)
Waiters(c) == Active \ Holders(c)

\* Mutant: the holders do not count.
GrantedBeside(c) == c \in Oldest(Waiters(c), limit)
\* A slot that is free goes to the oldest waiters.
Granted(c) == c \in Oldest(Waiters(c), limit - Cardinality(Holders(c)))

Admitted(c) == c \in Tagged \/ (c \in Active /\ Granted(c))

-----------------------------------------------------------------------------
(* Starts, dispatches and polls.                                           *)

\* A run is created pending, or parked until its startAt.
Start(r) ==
    /\ status[r] = "absent"
    /\ setting.inOrder => \A q \in Runs : q < r => status[q] # "absent"
    /\ IF startsAt[r] = "future"
         THEN /\ status' = [status EXCEPT ![r] = "suspended"]
              /\ wake' = [wake EXCEPT ![r] = "start"]
         ELSE /\ status' = [status EXCEPT ![r] = "pending"]
              /\ UNCHANGED wake
    /\ UNCHANGED <<tag, owner, startsAt, begun, turns, calls, setting, left>>

\* A timer of the gate, a sleep or a poll of blocked runs may be due from the
\* moment it is set; a startAt only once its time has come.
WakeDue(r) == wake[r] = "timer" \/ (wake[r] = "start" /\ startsAt[r] = "past")

Due(r) ==
    \/ status[r] = "pending"
    \/ status[r] \in {"suspended", "blocked"} /\ WakeDue(r)

MayTurn(t) == t[2] = 1 \/ t[1] \in setting.doubles

Sight(r) == IF status[r] # "pending" THEN "started"
            ELSE IF tag[r] = "none" THEN "new" ELSE "marked"

\* The first execution of a run marks it before it asks for a slot.
Entry(s) == IF s = "started" THEN "admit" ELSE "mark"

\* A dispatched turn reads the run, then asks for the lease.  Dispatches may
\* come late or twice; nothing dispatches a run that waits for its startAt.
ReadRun(t) ==
    /\ at[t] = "idle" /\ MayTurn(t)
    /\ t[1] \in Active /\ (status[t[1]] = "suspended" /\ wake[t[1]] = "start" => WakeDue(t[1]))
    /\ seen' = [seen EXCEPT ![t] = Sight(t[1])]
    /\ at' = [at EXCEPT ![t] = "lock"]
    /\ UNCHANGED <<rows, startsAt, begun, calls, setting, left>>

\* A turn that finds the run leased is refused.
Lock(t) ==
    /\ at[t] = "lock"
    /\ IF owner[t[1]] = Nobody
         THEN /\ owner' = [owner EXCEPT ![t[1]] = t[2]]
              /\ at' = [at EXCEPT ![t] = Entry(seen[t])]
              /\ UNCHANGED seen
         ELSE /\ at' = [at EXCEPT ![t] = "idle"]
              /\ seen' = [seen EXCEPT ![t] = "started"]
              /\ UNCHANGED owner
    /\ UNCHANGED <<status, tag, wake, startsAt, begun, calls, setting, left>>

\* A poll takes the lease of a due run, and reads it under the lease.
Poll(t) ==
    /\ at[t] = "idle" /\ MayTurn(t) /\ Due(t[1]) /\ owner[t[1]] = Nobody
    /\ owner' = [owner EXCEPT ![t[1]] = t[2]]
    /\ seen' = [seen EXCEPT ![t] = Sight(t[1])]
    /\ at' = [at EXCEPT ![t] = Entry(Sight(t[1]))]
    /\ UNCHANGED <<status, tag, wake, startsAt, begun, calls, setting, left>>

-----------------------------------------------------------------------------
(* A turn under its lease.                                                 *)

\* The turn is over: the lease is released, a blocked run's whoever has it, and
\* the turn of a run that ended owes wakeNext.
LetGo(t, whoever) ==
    /\ owner' = IF whoever \/ owner[t[1]] = t[2]
                  THEN [owner EXCEPT ![t[1]] = Nobody] ELSE owner
    /\ owes' = [owes EXCEPT ![t[1]] = @ \/ status'[t[1]] \in Ended]
    /\ at' = [at EXCEPT ![t] = "idle"]
    /\ seen' = [seen EXCEPT ![t] = "started"]

\* Mutants: whatever the row carried; not at all.
MarkedAnew(had, read) == "tracked"
MarkedNot(had, read) == had
\* withSingletonTracked, of the row read.
Marked(had, read) == IF read = "new" THEN "tracked" ELSE had

\* The first execution: running, and tracked, by the row the turn read.
MarkStarted(t) ==
    /\ at[t] = "mark"
    /\ status' = [status EXCEPT ![t[1]] = "running"]
    /\ tag' = [tag EXCEPT ![t[1]] = Marked(@, seen[t])]
    /\ at' = [at EXCEPT ![t] = "admit"]
    /\ seen' = [seen EXCEPT ![t] = "started"]
    /\ UNCHANGED <<wake, owner, startsAt, begun, calls, setting, left>>

Admit(t) ==
    /\ at[t] = "admit" /\ Admitted(t[1])
    /\ tag' = [tag EXCEPT ![t[1]] = "admitted"]
    /\ begun' = [begun EXCEPT ![t[1]] = TRUE]
    /\ at' = [at EXCEPT ![t] = "body"]
    /\ UNCHANGED <<status, wake, owner, startsAt, seen, calls, setting, left>>

Tracked(had) == IF had = "none" THEN "tracked" ELSE had

\* Denied: a run still in the queue is parked on the retry timer, in the same
\* critical section; the turn reports what is persisted.
Deny(t) ==
    /\ at[t] = "admit" /\ ~Admitted(t[1])
    /\ IF t[1] \in Active
         THEN /\ status' = [status EXCEPT ![t[1]] = "suspended"]
              /\ wake' = [wake EXCEPT ![t[1]] = "timer"]
              /\ tag' = [tag EXCEPT ![t[1]] = Tracked(@)]
         ELSE UNCHANGED <<status, wake, tag>>
    /\ LetGo(t, FALSE)
    /\ UNCHANGED <<startsAt, begun, op, gated, setting, left>>

\* An outcome is written over a run nobody ended meanwhile; a failure not over
\* a failure.
Applies(r, outcome) == status[r] \in Queued \union ({"failed"} \ {outcome})

\* Mutant: the slot is given back by a success only.
ReleasedOnSuccess(had, outcome) == IF outcome = "completed" THEN "none" ELSE had
\* The marker left by a write of this status.
Released(had, outcome) == IF outcome \in Ended THEN "none" ELSE had

\* The body stops: the run ends, sleeps or waits, or no worker can run its next
\* step.  A turn that knows its lease is gone writes nothing.
Settle(t, outcome) ==
    LET r == t[1] IN
    /\ at[t] = "body"
    /\ outcome \notin Ended => left.naps > 0
    /\ left' = IF outcome \in Ended THEN left ELSE [left EXCEPT !.naps = @ - 1]
    /\ \/ /\ Applies(r, outcome)
          /\ status' = [status EXCEPT ![r] = outcome]
          /\ tag' = [tag EXCEPT ![r] = Released(@, outcome)]
          /\ wake' = IF outcome \in Ended THEN wake ELSE [wake EXCEPT ![r] = "timer"]
          /\ begun' = [begun EXCEPT ![r] = outcome \notin Ended]
       \/ /\ ~Applies(r, outcome) \/ owner[r] # t[2]
          /\ UNCHANGED <<status, tag, wake, begun>>
    /\ LetGo(t, outcome = "blocked")
    /\ UNCHANGED <<startsAt, op, gated, setting>>

-----------------------------------------------------------------------------
(* wakeNext: the oldest gated runs are made due and dispatched.            *)

ListGated(r) ==
    /\ owes[r] /\ gated[r] = {}
    /\ owes' = [owes EXCEPT ![r] = FALSE]
    /\ gated' = [gated EXCEPT ![r] =
          Oldest({q \in Runs : status[q] = "suspended" /\ tag[q] # "admitted"}, limit)]
    /\ UNCHANGED <<rows, startsAt, begun, turns, op, setting, left>>

\* Mutant: the timer is cleared, the dispatch will do.
DueNever == "none"
DueNow == "timer"

\* One write each, whatever the run is doing by now.
MakeDue(r) ==
    /\ gated[r] # {}
    /\ LET q == CHOOSE q \in gated[r] : \A p \in gated[r] : q <= p IN
         /\ gated' = [gated EXCEPT ![r] = @ \ {q}]
         /\ wake' = [wake EXCEPT ![q] = DueNow]
    /\ UNCHANGED <<status, tag, owner, startsAt, begun, turns, op, owes, setting, left>>

-----------------------------------------------------------------------------
(* Operators, deaths and clocks.                                           *)

\* cancel and requeue read the run and act on what they read.
AskCancel(r) ==
    /\ left.cancels > 0 /\ op[r] = "none" /\ r \in Active
    /\ left' = [left EXCEPT !.cancels = @ - 1]
    /\ op' = [op EXCEPT ![r] = "cancel"]
    /\ UNCHANGED <<rows, startsAt, begun, turns, owes, gated, setting>>

Cancel(r) ==
    /\ op[r] = "cancel"
    /\ status' = [status EXCEPT ![r] = "cancelled"]
    /\ tag' = [tag EXCEPT ![r] = Released(@, "cancelled")]
    /\ begun' = [begun EXCEPT ![r] = FALSE]
    /\ op' = [op EXCEPT ![r] = "none"]
    /\ owes' = [owes EXCEPT ![r] = TRUE]
    /\ UNCHANGED <<wake, owner, startsAt, turns, gated, setting, left>>

AskRequeue(r) ==
    /\ left.requeues > 0 /\ op[r] = "none" /\ status[r] # "absent"
    /\ left' = [left EXCEPT !.requeues = @ - 1]
    /\ op' = [op EXCEPT ![r] = "requeue"]
    /\ UNCHANGED <<rows, startsAt, begun, turns, owes, gated, setting>>

\* Whoever has the lease loses it; an ended run has no marker to drop.
Requeue(r) ==
    /\ op[r] = "requeue"
    /\ owner' = [owner EXCEPT ![r] = Nobody]
    /\ status' = [status EXCEPT ![r] = "pending"]
    /\ op' = [op EXCEPT ![r] = "none"]
    /\ UNCHANGED <<tag, wake, startsAt, begun, turns, owes, gated, setting, left>>

\* The process of a turn dies, and its lease lapses.
TurnDies(t) ==
    /\ left.deaths > 0 /\ at[t] # "idle"
    /\ left' = [left EXCEPT !.deaths = @ - 1]
    /\ at' = [at EXCEPT ![t] = "idle"]
    /\ seen' = [seen EXCEPT ![t] = "started"]
    /\ owner' = IF owner[t[1]] = t[2] THEN [owner EXCEPT ![t[1]] = Nobody] ELSE owner
    /\ UNCHANGED <<status, tag, wake, startsAt, begun, calls, setting>>

\* The process that was to wake the next runs dies.
NotifierDies(r) ==
    /\ left.deaths > 0 /\ (owes[r] \/ gated[r] # {})
    /\ left' = [left EXCEPT !.deaths = @ - 1]
    /\ owes' = [owes EXCEPT ![r] = FALSE]
    /\ gated' = [gated EXCEPT ![r] = {}]
    /\ UNCHANGED <<rows, startsAt, begun, turns, op, setting>>

\* recoverIncomplete: parked if a step is out; else pending again, or dead once
\* too often.  The waiters of a dead run have their own timers only.
Recover(r) ==
    /\ status[r] = "running" /\ owner[r] = Nobody
    /\ \E outcome \in {"suspended", IF setting.deadLetters THEN "dead" ELSE "pending"} :
         /\ status' = [status EXCEPT ![r] = outcome]
         /\ wake' = IF outcome = "suspended" THEN [wake EXCEPT ![r] = "timer"] ELSE wake
         /\ tag' = [tag EXCEPT ![r] = Released(@, outcome)]
         /\ begun' = [begun EXCEPT ![r] = @ /\ outcome \notin Ended]
    /\ UNCHANGED <<owner, startsAt, turns, calls, setting, left>>

StartTimeComes(r) ==
    /\ startsAt[r] = "future"
    /\ startsAt' = [startsAt EXCEPT ![r] = "past"]
    /\ UNCHANGED <<rows, begun, turns, calls, setting, left>>

-----------------------------------------------------------------------------
TurnStep(t) ==
    \/ Lock(t) \/ Poll(t) \/ MarkStarted(t) \/ Admit(t) \/ Deny(t)
    \/ \E outcome \in {"completed", "failed", "suspended", "blocked"} : Settle(t, outcome)

Next ==
    \/ \E t \in Turns : ReadRun(t) \/ TurnStep(t) \/ TurnDies(t)
    \/ \E r \in Runs :
          \/ Start(r) \/ ListGated(r) \/ MakeDue(r) \/ NotifierDies(r) \/ Recover(r)
          \/ AskCancel(r) \/ Cancel(r) \/ AskRequeue(r) \/ Requeue(r) \/ StartTimeComes(r)

\* Polls pick up what is due, turns go on, wakeNext and recoveries run, timers
\* fire.  No dispatch is promised: the dispatcher may do nothing.
Fairness ==
    /\ \A t \in Turns : WF_vars(TurnStep(t))
    /\ \A r \in Runs :
          /\ WF_vars(ListGated(r) \/ MakeDue(r)) /\ WF_vars(Recover(r))
          /\ WF_vars(Cancel(r) \/ Requeue(r)) /\ WF_vars(StartTimeComes(r))

Spec == Init /\ [][Next]_vars /\ Fairness

-----------------------------------------------------------------------------
(* Properties.                                                             *)

\* Every variable stays in its domain; a marker is found on queued rows only.
TypeOK ==
    /\ setting \in Settings
    /\ left \in [naps : Nat, deaths : Nat, cancels : Nat, requeues : Nat]
    /\ status \in [Runs -> Queued \union Ended \union {"absent"}]
    /\ tag \in [Runs -> {"none", "tracked", "admitted"}]
    /\ wake \in [Runs -> {"none", "timer", "start"}]
    /\ owner \in [Runs -> {Nobody} \union 1 .. AtOnce]
    /\ startsAt \in [Runs -> {"future", "past"}]
    /\ begun \in [Runs -> BOOLEAN]
    /\ at \in [Turns -> {"idle", "lock", "mark", "admit", "body"}]
    /\ seen \in [Turns -> {"new", "marked", "started"}]
    /\ op \in [Runs -> {"none", "cancel", "requeue"}]
    /\ owes \in [Runs -> BOOLEAN] /\ gated \in [Runs -> SUBSET Runs]
    /\ \A r \in Runs : tag[r] # "none" => r \in Active

\* No more runs hold a slot than there are slots, whatever dies, is cancelled
\* or requeued: the claim counts and writes in one critical section.
SlotsWithinLimit == Cardinality(Tagged) <= limit

Inside == {r \in Active : begun[r]}

\* No run is ended from outside and then requeued, its turn still going on.
NotRestarted ==
    setting.requeues = 0 \/ (setting.cancels = 0 /\ ~setting.deadLetters)

\* A run whose body has begun keeps its slot until it ends: a death, a recovery
\* or a sleep does not send it back to the queue.  Two turns of one run may be
\* one too many: the later one marks the run by a row it read before.
HolderKeepsSlot ==
    NotRestarted => \A r \in Inside \ setting.doubles : tag[r] = "admitted"

\* Runs are created in queue order, nobody interferes with them, and one turn of
\* a run follows the other.
Undisturbed ==
    /\ setting.inOrder /\ setting.doubles = {}
    /\ setting.cancels + setting.requeues = 0

\* First come, first served: a run inside is among the `limit' oldest of the
\* queue; so never more than `limit' are, whatever dies and is recovered.
FirstComeFirstServed ==
    Undisturbed => \A r \in Inside : Cardinality({q \in Active : q <= r}) <= limit

\* With one slot, nobody in it and no run waiting for its startAt, the oldest
\* run of the queue is not denied: no waiter is mistaken for a holder.
OldestIsServed ==
    [][setting.limit = 1 /\ setting.delayed = {} /\ setting.deaths + setting.requeues = 0 =>
         \A t \in Turns :
            Deny(t) /\ t[1] \in Oldest(Active, 1) => Inside # {}]_vars

\* Every run that was started ends, with dispatches that never come.
EveryRunEnds == \A r \in Runs : []<>(status[r] \in Ended \union {"absent"})
=============================================================================
