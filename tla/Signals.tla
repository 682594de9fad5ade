------------------------------ MODULE Signals ------------------------------
(***************************************************************************)
(* Signals on one token: callers of engine.signal deliver payloads, a run  *)
(* waits for them with ctx.waitForSignal, one wait after the other on the  *)
(* same token (a loop over a mailbox), some waits with a timeout.          *)
(*                                                                         *)
(* The two sides meet in the store only: one waiter row per token, and the *)
(* token's buffer.  A caller takes the waiter, or buffers and looks again; *)
(* the run looks in the buffer, registers, and looks again.  Every look of *)
(* the SQL store is two statements, a SELECT of the row and the DELETE     *)
(* that decides who has it.                                                *)
(*                                                                         *)
(* A turn's lease and the wake that brings it are RunTurns: here turns are *)
(* one at a time, and a wake stays owed until a turn begins.               *)
(***************************************************************************)
EXTENDS Integers, Sequences, FiniteSets

CONSTANTS
    Last,         \* payloads 1..Last, each of one call of signal
    Waits,        \* the body waits at positions 1..Waits, in order
    Settings      \* the callers, timeouts and crashes of an instance

Msgs  == 1 .. Last
Seqs  == 1 .. Waits
None  == 0
TimedOut == Last + 1          \* what a wait that throws SignalTimeoutError says

\* How many calls may be under way at once; the waits with a timeout;
\* reconcileMs set or 0; how many turns and how many calls die with their
\* process.
Setting == [atOnce : Nat, timed : SUBSET Seqs, reconcile : BOOLEAN,
            turnCrashes : Nat, callCrashes : Nat]

ASSUME SignalsAssumption ==
    /\ Last \in Nat
    /\ Waits \in Nat \ {0}
    /\ Settings \subseteq Setting

VARIABLES
    \* the store: the token's waiter row (the seq it names), its buffer, the
    \* run's checkpoints, deadlines and row
    waiter, buffer, cp, deadline, status, wakeAt,
    \* a wake of the run is owed
    woken,
    \* the turn: where the body is, and its snapshot of the checkpoints
    pc, at, replay, row, second, taken,
    \* per call of signal: where it is, the waiter and the buffer row it read,
    \* the payload it has
    call, found, head, hand,
    \* what each wait last told the body (history), the setting, crashes left
    told, setting, left

store  == <<waiter, buffer, cp, deadline, status, wakeAt>>
turn   == <<pc, at, replay, row, second, taken>>
caller == <<call, found, head, hand>>
vars   == <<store, woken, turn, caller, told, setting, left>>

Unresolved == [s \in Seqs |-> None]

Init ==
    /\ waiter = None /\ buffer = <<>> /\ cp = Unresolved
    /\ deadline = [s \in Seqs |-> "unset"]
    /\ status = "running" /\ wakeAt = "none" /\ woken = TRUE
    /\ pc = "idle" /\ at = 1 /\ replay = Unresolved
    /\ row = None /\ second = FALSE /\ taken = None
    /\ call = [m \in Msgs |-> "ready"]
    /\ found = [m \in Msgs |-> None]
    /\ head = [m \in Msgs |-> None]
    /\ hand = [m \in Msgs |-> m]
    /\ told = Unresolved
    /\ setting \in Settings
    /\ left = [turn |-> setting.turnCrashes, call |-> setting.callCrashes]

Timed == at \in setting.timed

-----------------------------------------------------------------------------
(* The rows two sides may want, and the DELETE that decides.               *)

\* takeBufferedSignal, SELECT: the oldest row.
Oldest == IF buffer = <<>> THEN None ELSE Head(buffer)

\* DELETE by id: rows leave from the front only, so a row read as the oldest
\* is still there exactly when it is still the oldest.
StillThere(m) == m # None /\ Oldest = m
Remaining(m)  == IF StillThere(m) THEN Tail(buffer) ELSE buffer

\* Mutant: the row is taken for this call's whatever the DELETE removed.
WonRegardless(m) == m # None
\* The payload is this call's if its DELETE removed the row.
Won(m)     == StillThere(m)
Claimed(m) == IF Won(m) THEN m ELSE None

\* removeSignalWaiter: only the very row.
WithoutOwn(s) == IF waiter = s THEN None ELSE waiter

\* bufferSignal; mutant: the newest first.
BufferedInFront(m) == <<m>> \o buffer
Buffered(m) == Append(buffer, m)

-----------------------------------------------------------------------------
(* A caller of engine.signal.                                              *)

Done == {"done", "dead"}

UnderWay == {k \in Msgs : call[k] \notin Done \union {"ready"}}

\* A call begins (payloads are numbered in the order of their calls) and reads
\* the token's waiter.
Signal(m) ==
    /\ call[m] = "ready"
    /\ \A k \in Msgs : k < m => call[k] # "ready"
    /\ Cardinality(UnderWay) < setting.atOnce
    /\ found' = [found EXCEPT ![m] = waiter]
    /\ call' = [call EXCEPT ![m] = IF waiter = None THEN "buffer" ELSE "take"]
    /\ UNCHANGED <<store, woken, turn, head, hand, told, setting, left>>

\* takeSignalWaiter, DELETE by token: the waiter is this call's if a row was
\* removed, which need not be the row the SELECT read.
Take(m) ==
    /\ call[m] = "take"
    /\ call' = [call EXCEPT ![m] = IF waiter = None THEN "buffer" ELSE "deliver"]
    /\ waiter' = None
    /\ UNCHANGED <<buffer, cp, deadline, status, wakeAt>>
    /\ UNCHANGED <<woken, turn, found, head, hand, told, setting, left>>

\* Mutant: buffer and return.
AfterBufferingReturn == "done"
AfterBuffering == "relook"

\* Nobody waits: buffer the payload, then look for a waiter again.
BufferSignal(m) ==
    /\ call[m] = "buffer"
    /\ buffer' = Buffered(m)
    /\ hand' = [hand EXCEPT ![m] = None]
    /\ call' = [call EXCEPT ![m] = AfterBuffering]
    /\ UNCHANGED <<waiter, cp, deadline, status, wakeAt>>
    /\ UNCHANGED <<woken, turn, found, head, told, setting, left>>

LookAgain(m) ==
    /\ call[m] = "relook"
    /\ found' = [found EXCEPT ![m] = waiter]
    /\ call' = [call EXCEPT ![m] = IF waiter = None THEN "done" ELSE "retake"]
    /\ UNCHANGED <<store, woken, turn, head, hand, told, setting, left>>

TakeLate(m) ==
    /\ call[m] = "retake"
    /\ call' = [call EXCEPT ![m] = IF waiter = None THEN "done" ELSE "reclaim"]
    /\ waiter' = None
    /\ UNCHANGED <<buffer, cp, deadline, status, wakeAt>>
    /\ UNCHANGED <<woken, turn, found, head, hand, told, setting, left>>

\* With the late waiter in hand, read the oldest payload.
ReadOldest(m) ==
    /\ call[m] = "reclaim"
    /\ head' = [head EXCEPT ![m] = Oldest]
    /\ call' = [call EXCEPT ![m] = IF buffer = <<>> THEN "done" ELSE "claim"]
    /\ UNCHANGED <<store, woken, turn, found, hand, told, setting, left>>

\* Mutant: the late waiter is delivered to whatever was claimed.
ReclaimedAlways(m) == "deliver"
Reclaimed(m) == IF Won(head[m]) THEN "deliver" ELSE "done"

\* When it is gone, the waiter is dropped.
Reclaim(m) ==
    /\ call[m] = "claim"
    /\ hand' = [hand EXCEPT ![m] = Claimed(head[m])]
    /\ buffer' = Remaining(head[m])
    /\ call' = [call EXCEPT ![m] = Reclaimed(m)]
    /\ UNCHANGED <<waiter, cp, deadline, status, wakeAt>>
    /\ UNCHANGED <<woken, turn, found, head, told, setting, left>>

\* deliverSignal: the checkpoint, at the seq of the waiter taken, whatever is
\* there; then the wake.
Deliver(m) ==
    /\ call[m] = "deliver"
    /\ cp' = [cp EXCEPT ![found[m]] = hand[m]]
    /\ hand' = [hand EXCEPT ![m] = None]
    /\ call' = [call EXCEPT ![m] = "wake"]
    /\ UNCHANGED <<waiter, buffer, deadline, status, wakeAt>>
    /\ UNCHANGED <<woken, turn, found, head, told, setting, left>>

Wake(m) ==
    /\ call[m] = "wake"
    /\ woken' = TRUE
    /\ call' = [call EXCEPT ![m] = "done"]
    /\ UNCHANGED <<store, turn, found, head, hand, told, setting, left>>

\* The process of the caller dies, and with it what the call had taken.
CallDies(m) ==
    /\ left.call > 0 /\ m \in UnderWay
    /\ left' = [left EXCEPT !.call = @ - 1]
    /\ call' = [call EXCEPT ![m] = "dead"]
    /\ hand' = [hand EXCEPT ![m] = None]
    /\ UNCHANGED <<store, woken, turn, found, head, told, setting>>

-----------------------------------------------------------------------------
(* A turn of the run.                                                      *)

\* The suspended run's timer: the deadline of the wait it stands at, or the
\* reconcile fallback.
TimerDue ==
    /\ status = "suspended"
    /\ \/ wakeAt = "fallback"
       \/ wakeAt = "deadline" /\ deadline[at] = "past"

Begin ==
    /\ pc = "idle" /\ status # "completed"
    /\ woken \/ TimerDue
    /\ pc' = "load" /\ woken' = FALSE
    /\ status' = "running"
    /\ UNCHANGED <<waiter, buffer, cp, deadline, wakeAt>>
    /\ UNCHANGED <<at, replay, row, second, taken, caller, told, setting, left>>

\* The checkpoints written so far, read once per turn.
Load ==
    /\ pc = "load"
    /\ pc' = "wait" /\ at' = 1 /\ replay' = cp
    /\ UNCHANGED <<store, woken, row, second, taken, caller, told, setting, left>>

\* What the body is told by the wait at `at', and on to the next.
Tell(what) ==
    /\ told' = [told EXCEPT ![at] = what]
    /\ pc' = IF at = Waits THEN "return" ELSE "wait"
    /\ at' = IF at = Waits THEN at ELSE at + 1

\* A bounded wait stamps its deadline once.
StampDeadline ==
    /\ pc = "wait" /\ Timed /\ deadline[at] = "unset"
    /\ deadline' = [deadline EXCEPT ![at] = "set"]
    /\ UNCHANGED <<waiter, buffer, cp, status, wakeAt>>
    /\ UNCHANGED <<woken, turn, caller, told, setting, left>>

\* readCheckpoint: the snapshot, or for an absent seq the store.
Recorded(s) == IF replay[s] # None THEN replay[s] ELSE cp[s]

Resolved ==
    /\ pc = "wait" /\ (Timed => deadline[at] # "unset")
    /\ Recorded(at) # None
    /\ Tell(Recorded(at))
    /\ UNCHANGED <<store, woken, replay, row, second, taken, caller, setting, left>>

Missing ==
    /\ pc = "wait" /\ (Timed => deadline[at] # "unset")
    /\ Recorded(at) = None
    /\ pc' = "look" /\ second' = FALSE
    /\ UNCHANGED <<store, woken, at, replay, row, taken, caller, told, setting, left>>

\* Nothing in the buffer: the first time on to the deadline or to register,
\* the second time suspend.
Empty == IF second THEN "suspend" ELSE IF Timed THEN "clock" ELSE "register"

LookInBuffer ==
    /\ pc = "look"
    /\ row' = Oldest
    /\ pc' = IF buffer = <<>> THEN Empty ELSE "claim"
    /\ UNCHANGED <<store, woken, at, replay, second, taken, caller, told, setting, left>>

ClaimBuffered ==
    /\ pc = "claim"
    /\ taken' = Claimed(row)
    /\ buffer' = Remaining(row)
    /\ pc' = IF Won(row) THEN "keep" ELSE Empty
    /\ UNCHANGED <<waiter, cp, deadline, status, wakeAt>>
    /\ UNCHANGED <<woken, at, replay, row, second, caller, told, setting, left>>

\* writeCheckpoint: the store, whatever is there, and the snapshot.
KeepBuffered ==
    /\ pc = "keep"
    /\ cp' = [cp EXCEPT ![at] = taken]
    /\ replay' = [replay EXCEPT ![at] = taken]
    /\ taken' = None
    /\ IF second THEN pc' = "retract" /\ UNCHANGED <<at, told>> ELSE Tell(taken)
    /\ UNCHANGED <<waiter, buffer, deadline, status, wakeAt>>
    /\ UNCHANGED <<woken, row, second, caller, setting, left>>

\* A wait that resolved itself takes its own registration back.
Retract ==
    /\ pc = "retract"
    /\ waiter' = WithoutOwn(at)
    /\ Tell(replay[at])
    /\ UNCHANGED <<buffer, cp, deadline, status, wakeAt>>
    /\ UNCHANGED <<woken, replay, row, second, taken, caller, setting, left>>

CheckDeadline ==
    /\ pc = "clock"
    /\ pc' = IF deadline[at] = "past" THEN "expire" ELSE "register"
    /\ UNCHANGED <<store, woken, at, replay, row, second, taken, caller, told, setting, left>>

\* SignalTimeoutError; the body catches it and goes on.
Expire ==
    /\ pc = "expire"
    /\ waiter' = WithoutOwn(at)
    /\ Tell(TimedOut)
    /\ UNCHANGED <<buffer, cp, deadline, status, wakeAt>>
    /\ UNCHANGED <<woken, replay, row, second, taken, caller, setting, left>>

\* Mutant: register and suspend.
AfterRegisteringSuspend == "suspend"
AfterRegistering == "look"

Register ==
    /\ pc = "register"
    /\ waiter' = at
    /\ pc' = AfterRegistering /\ second' = TRUE
    /\ UNCHANGED <<buffer, cp, deadline, status, wakeAt>>
    /\ UNCHANGED <<woken, at, replay, row, taken, caller, told, setting, left>>

\* The run row's timer: the wait's deadline, else the reconcile fallback.
\* Mutant: no fallback.
TimerOfWait == IF Timed THEN "deadline" ELSE "none"
Timer == IF Timed THEN "deadline" ELSE IF setting.reconcile THEN "fallback" ELSE "none"

Suspend ==
    /\ pc = "suspend"
    /\ status' = "suspended" /\ wakeAt' = Timer
    /\ pc' = "idle"
    /\ UNCHANGED <<waiter, buffer, cp, deadline>>
    /\ UNCHANGED <<woken, at, replay, row, second, taken, caller, told, setting, left>>

Return ==
    /\ pc = "return"
    /\ status' = "completed" /\ wakeAt' = "none"
    /\ pc' = "idle"
    /\ UNCHANGED <<waiter, buffer, cp, deadline>>
    /\ UNCHANGED <<woken, at, replay, row, second, taken, caller, told, setting, left>>

\* The process of the turn dies; its lease lapses and a recovery turn is owed.
TurnDies ==
    /\ left.turn > 0 /\ pc # "idle"
    /\ left' = [left EXCEPT !.turn = @ - 1]
    /\ pc' = "idle" /\ taken' = None /\ woken' = TRUE
    /\ UNCHANGED <<store, at, replay, row, second, caller, told, setting>>

-----------------------------------------------------------------------------
DeadlinePasses(s) ==
    /\ deadline[s] = "set"
    /\ deadline' = [deadline EXCEPT ![s] = "past"]
    /\ UNCHANGED <<waiter, buffer, cp, status, wakeAt>>
    /\ UNCHANGED <<woken, turn, caller, told, setting, left>>

TurnStep ==
    \/ Begin \/ Load \/ StampDeadline \/ Resolved \/ Missing
    \/ LookInBuffer \/ ClaimBuffered \/ KeepBuffered \/ Retract
    \/ CheckDeadline \/ Expire \/ Register \/ Suspend \/ Return

\* A call that has begun goes on.
CallStep(m) ==
    \/ Take(m) \/ BufferSignal(m) \/ LookAgain(m) \/ TakeLate(m)
    \/ ReadOldest(m) \/ Reclaim(m) \/ Deliver(m) \/ Wake(m)

Next ==
    \/ TurnStep \/ TurnDies
    \/ \E m \in Msgs : Signal(m) \/ CallStep(m) \/ CallDies(m)
    \/ \E s \in Seqs : DeadlinePasses(s)

\* A turn and a call that are under way go on, a due run is picked up, every
\* payload is sent in the end, and clocks advance.
Fairness ==
    /\ WF_vars(TurnStep)
    /\ \A m \in Msgs : WF_vars(Signal(m) \/ CallStep(m))
    /\ \A s \in Seqs : WF_vars(DeadlinePasses(s))

Spec == Init /\ [][Next]_vars /\ Fairness

-----------------------------------------------------------------------------
(* Properties.                                                             *)

CallStates == {"ready", "take", "buffer", "relook", "retake", "reclaim", "claim",
               "deliver", "wake", "done", "dead"}
TurnStates == {"idle", "load", "wait", "look", "claim", "keep", "retract", "clock",
               "expire", "register", "suspend", "return"}

\* Every variable stays in its domain: in particular whoever delivers has a
\* payload and a waiter to deliver it to.
TypeOK ==
    /\ waiter \in Seqs \union {None} /\ buffer \in Seq(Msgs)
    /\ cp \in [Seqs -> Msgs \union {None}]
    /\ deadline \in [Seqs -> {"unset", "set", "past"}]
    /\ status \in {"running", "suspended", "completed"}
    /\ wakeAt \in {"none", "deadline", "fallback"}
    /\ woken \in BOOLEAN
    /\ pc \in TurnStates /\ at \in Seqs
    /\ replay \in [Seqs -> Msgs \union {None}]
    /\ row \in Msgs \union {None} /\ second \in BOOLEAN
    /\ taken \in Msgs \union {None}
    /\ call \in [Msgs -> CallStates]
    /\ found \in [Msgs -> Seqs \union {None}]
    /\ head \in [Msgs -> Msgs \union {None}]
    /\ hand \in [Msgs -> Msgs \union {None}]
    /\ told \in [Seqs -> Msgs \union {None, TimedOut}]
    /\ setting \in Settings
    /\ left \in [turn : Nat, call : Nat]
    /\ \A m \in Msgs : call[m] = "deliver" => hand[m] # None /\ found[m] # None

\* Where a payload is: with a call, in the buffer, taken by the turn, or in a
\* checkpoint.
Places(m) ==
    {<<"call", k>> : k \in {j \in Msgs : hand[j] = m}}
    \union {<<"buffer", i>> : i \in {j \in 1 .. Len(buffer) : buffer[j] = m}}
    \union {p \in {<<"turn", 0>>} : taken = m}
    \union {<<"journal", s>> : s \in {r \in Seqs : cp[r] = m}}

\* A payload is delivered at most once, whoever takes it and whoever dies:
\* the destructive takes never leave it in two places.
DeliveredOnce == \A m \in Msgs : \A p, q \in Places(m) : p = q

\* At rest, a registered waiter and a buffered payload are never left side by
\* side: whichever side's second look runs last sees the other's write.
AtRest ==
    /\ pc = "idle" /\ status = "suspended" /\ ~woken
    /\ \A m \in Msgs : call[m] \in {"ready", "done"}

NoStrandedPair == AtRest => waiter = None \/ buffer = <<>>

Deaths == setting.turnCrashes + setting.callCrashes

\* Callers one after the other, waits without a timeout, and no process dies.
Orderly == setting.atOnce = 1 /\ setting.timed = {} /\ Deaths = 0

\* No payload has been lost.  A call writes at the seq it read before its DELETE
\* took another row, and a wait over what was delivered since it registered:
\* either way the payload that was there is nowhere, and later ones move up.
NoneVanished == \A m \in Msgs : Places(m) # {}

\* The waits of the body get the payloads in the order they were sent.
InOrder ==
    Orderly /\ NoneVanished =>
        \A r, s \in Seqs : r < s /\ told[r] # None /\ told[s] # None => told[r] < told[s]

\* The first wait is resolved, with callers in any interleaving and no timer
\* to fall back on, as long as no process dies: no lost wake.
FirstWaitResolves ==
    Deaths = 0 => <>(told[1] # None)

\* With the reconcile fallback no buffered payload stays where it is while
\* the run waits, whoever takes or drops the waiter and whoever dies.
BufferDrains ==
    setting.reconcile => ((buffer # <<>>) ~> (buffer = <<>> \/ status = "completed"))

-----------------------------------------------------------------------------
(* What the documentation says, and the code does not keep.                *)

NobodyDied == left = [turn |-> setting.turnCrashes, call |-> setting.callCrashes]

\* A signal is buffered, not lost: no payload vanishes while nobody dies.
SignalKept == NobodyDied => NoneVanished
=============================================================================
