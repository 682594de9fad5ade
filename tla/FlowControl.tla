----------------------------- MODULE FlowControl -----------------------------
(* Flow control of remote steps: the gate of a queue (a concurrency cap, a   *)
(* rate limit, an order among the calls that wait) and the calls that pass   *)
(* it.  The gate is the in-process QueueController, or the Redis backend     *)
(* whose slots belong to pods and whose atomic script decides.  A call is    *)
(* one step of one run: it asks in a turn, waits for its retry time when     *)
(* denied, holds a slot once admitted, and gives the slot back when its      *)
(* result lands.  Times are ages, in ticks: what matters of a clock here is  *)
(* how long ago an admission was.                                            *)
EXTENDS Integers, FiniteSets, SequencesExt

CONSTANTS
    Call,       \* queued step calls, one per run (their stepId is the waiterId)
    Pod,        \* engine instances
    NoPod,
    Home,       \* the pod of the in-process backend
    Key,        \* fairness keys
    Period,     \* ticks of a rate-limit window
    Settings    \* what TLC chooses a setting from

Setting == [backend : {"memory", "redis"},
            concurrency : Nat,          \* 0: unlimited
            rate : {"none", "fixed", "sliding"}, rateLimit : Nat \ {0},
            order : {"fifo", "lifo"}, fairness : {"fifo", "key"},
            priority : [Call -> Int], key : [Call -> Key],
            failures : Nat,             \* results that are failures, left
            crashes : Nat,              \* pods that die, left
            cancels : Nat,              \* runs an operator cancels, left
            refusals : Nat,             \* dispatches no worker can run, left
            doubles : Nat]              \* late results delivered once more, left

ASSUME FlowAssumption ==
    /\ IsFiniteSet(Call)
    /\ NoPod \notin Pod /\ Home \in Pod
    /\ Period \in Nat \ {0}
    /\ Settings \subseteq Setting

VARIABLES
    gate,       \* the queue's configuration and what may still disturb it
    phase,      \* where each call is
    at,         \* the pod whose turn or result handler has the call
    inFlight,   \* QueueController.inFlight
    slot,       \* the Redis hash of slots: stepId to pod
    key,        \* the pods whose liveness key has not lapsed
    up,         \* the pods that run
    line,       \* the registered waiters, in the order of their seq
    served,     \* the fairness keys served, the latest last
    window,     \* fixed window: its age, and the admissions counted in it
    admits,     \* sliding window: the ages of the admissions it counts
    \* What happened, for the properties.
    recent,     \* the ages of all admissions younger than Period
    asked,      \* the calls denied for want of a slot and still to be served, in order
    passed,     \* the other keys served, for each call of asked, since its own was
                \* (or since it was first denied)
    doubled     \* how often a late result was delivered once more

gateVars == <<inFlight, slot, line, served, window, admits>>
seenVars == <<recent, asked, passed, doubled>>
flowVars == <<gate, phase, at, key, up, gateVars, seenVars>>

-----------------------------------------------------------------------------
Memory == gate.backend = "memory"
Pods   == IF Memory THEN {Home} ELSE Pod

\* A turn reaches the call: first, at its retry time, at the blocked poll or
\* after the backoff of a failed attempt.
Asking(c) == phase[c] \in {"new", "waiting", "blocked", "retry"}

\* From admission until the result has landed and freed the slot.
Holds(c) == phase[c] \in {"admitted", "pending", "settled", "settledFailed", "late"}

\* The slots counted against the cap.
Taken == IF Memory THEN inFlight ELSE Cardinality({c \in Call : slot[c] \in key})

\* Mutant: the slot asked for is not counted.
FullByOne == gate.concurrency > 0 /\ Taken > gate.concurrency
Full == gate.concurrency > 0 /\ Taken >= gate.concurrency

\* The in-process window is looked at, and started anew, when a call asks; a
\* Redis window is a key of its own for every Period of the clock.
Window == IF Memory /\ window.age = Period THEN [age |-> 0, count |-> 0] ELSE window

\* Mutant: a window takes one more.
RateSpentByOne == \/ gate.rate = "fixed"   /\ Window.count > gate.rateLimit
                  \/ gate.rate = "sliding" /\ Len(admits) > gate.rateLimit
RateSpent == \/ gate.rate = "fixed"   /\ Window.count >= gate.rateLimit
             \/ gate.rate = "sliding" /\ Len(admits) >= gate.rateLimit

\* The place of x in a queue, 0 when it is not there; and the queue without x.
\* Who stands in a queue stands there once.
Place(seq, x)   == IF Contains(seq, x) THEN CHOOSE i \in 1 .. Len(seq) : seq[i] = x ELSE 0
Without(seq, x) == IF Contains(seq, x) THEN RemoveAt(seq, Place(seq, x)) ELSE seq

\* Mutants: a waiter goes to the end when it asks again; it stands twice.
RegisteredLast(c) == Append(Without(line, c), c)
RegisteredTwice(c) == Append(line, c)
\* register: a waiter keeps the place of its first registration.
Registered(c) == IF Contains(line, c) THEN line ELSE Append(line, c)

\* Mutant: by arrival, whoever was served.
BeforeByArrival(l, c, d) ==
    \/ gate.priority[c] > gate.priority[d]
    \/ /\ gate.priority[c] = gate.priority[d]
       /\ IF gate.order = "lifo" THEN Place(l, c) > Place(l, d) ELSE Place(l, c) < Place(l, d)
\* `c goes before d' among the waiters l: higher priority, then the key served
\* less recently, then arrival.
Before(l, c, d) ==
    LET rank(x) == IF gate.fairness = "key" THEN Place(served, gate.key[x]) ELSE 0
    IN  \/ gate.priority[c] > gate.priority[d]
        \/ /\ gate.priority[c] = gate.priority[d]
           /\ \/ rank(c) < rank(d)
              \/ /\ rank(c) = rank(d)
                 /\ IF gate.order = "lifo" THEN Place(l, c) > Place(l, d)
                                           ELSE Place(l, c) < Place(l, d)

\* isNext: nobody registered goes before c.
IsNext(c) == \A d \in ToSet(Registered(c)) : ~Before(Registered(c), d, c)

-----------------------------------------------------------------------------
FlowInit ==
    /\ gate \in Settings
    /\ phase = [c \in Call |-> "new"]
    /\ at = [c \in Call |-> NoPod]
    /\ inFlight = 0
    /\ slot = [c \in Call |-> NoPod]
    /\ key = Pod
    /\ up = Pod
    /\ line = <<>>
    /\ served = <<>>
    /\ window = [age |-> IF Memory THEN Period ELSE 0, count |-> 0]
    /\ admits = <<>>
    /\ recent = <<>>
    /\ asked = <<>>
    /\ passed = [c \in Call |-> {}]
    /\ doubled = 0

Goes(c, to) == phase' = [phase EXCEPT ![c] = to]

\* Denied: the run suspends until retryAt.  A spent rate limit is looked at
\* first and registers nobody.
Denied(p, c) ==
    /\ RateSpent \/ Full \/ ~IsNext(c)
    /\ line' = IF RateSpent THEN line ELSE Registered(c)
    /\ asked' = IF RateSpent \/ Contains(asked, c) THEN asked ELSE Append(asked, c)
    /\ passed' = IF RateSpent \/ Contains(asked, c) THEN passed
                 ELSE [passed EXCEPT ![c] = {}]
    /\ window' = IF gate.rate = "fixed" THEN Window ELSE window
    /\ Goes(c, "waiting")
    /\ UNCHANGED <<at, inFlight, slot, served, admits, recent>>

\* The fixed window counts, the sliding one remembers the admission.
CountRate ==
    /\ window' = IF gate.rate = "fixed" THEN [Window EXCEPT !.count = @ + 1] ELSE window
    /\ admits' = IF gate.rate = "sliding" THEN Append(admits, 0) ELSE admits
    /\ recent' = IF gate.rate = "none" THEN recent ELSE Append(recent, 0)

Admitted(p, c) ==
    /\ ~RateSpent /\ ~Full /\ IsNext(c)
    /\ IF Memory THEN inFlight' = inFlight + 1 /\ UNCHANGED slot
                 ELSE slot' = [slot EXCEPT ![c] = p] /\ UNCHANGED inFlight
    /\ line' = Without(line, c)
    /\ served' = IF gate.fairness = "key"
                 THEN Append(Without(served, gate.key[c]), gate.key[c])
                 ELSE served
    /\ CountRate
    /\ asked' = Without(asked, c)
    /\ passed' = [d \in Call |-> IF Contains(asked, d) /\ gate.key[d] # gate.key[c]
                                 THEN passed[d] \union {gate.key[c]} ELSE {}]
    /\ at' = [at EXCEPT ![c] = p]
    /\ Goes(c, "admitted")

\* callRemote asks the backend, whose answer is one atomic step.
TryAdmit(p, c) ==
    /\ p \in up \intersect Pods /\ Asking(c)
    /\ Denied(p, c) \/ Admitted(p, c)
    /\ UNCHANGED <<gate, key, up, doubled>>

\* The pending checkpoint is written, with the queue on it, and the task sent.
Send(c) ==
    /\ phase[c] = "admitted"
    /\ Goes(c, "pending")
    /\ at' = [at EXCEPT ![c] = NoPod]
    /\ UNCHANGED <<gate, key, up, gateVars, seenVars>>

\* No live worker can run the step: ensureRoutable throws after the call was
\* admitted, the run parks `blocked', and the slot stays taken.
Refused(c) ==
    /\ phase[c] = "admitted" /\ gate.refusals > 0
    /\ gate' = [gate EXCEPT !.refusals = @ - 1]
    /\ Goes(c, "blocked")
    /\ at' = [at EXCEPT ![c] = NoPod]
    /\ UNCHANGED <<key, up, gateVars, seenVars>>

\* A pod consumes the step's result and settles the checkpoint, pending only:
\* the delivery that finds it settled frees nothing.
Settle(p, c) ==
    /\ phase[c] = "pending" /\ p \in up \intersect Pods
    /\ \/ Goes(c, "settled") /\ UNCHANGED gate
       \/ /\ gate.failures > 0
          /\ gate' = [gate EXCEPT !.failures = @ - 1]
          /\ Goes(c, "settledFailed")
    /\ at' = [at EXCEPT ![c] = p]
    /\ UNCHANGED <<key, up, gateVars, seenVars>>

\* Mutant: the queue's counter is not there (another pod's), nothing is freed.
FreedNowhere(c) == UNCHANGED <<inFlight, slot>>
\* releaseQueueSlot: the counter drops by one, or the step's slot is deleted.
Freed(c) ==
    IF Memory THEN inFlight' = (IF inFlight > 0 THEN inFlight - 1 ELSE 0) /\ UNCHANGED slot
              ELSE slot' = [slot EXCEPT ![c] = NoPod] /\ UNCHANGED inFlight

AfterSettled(ph) == IF ph = "settled" THEN "done" ELSE "retry"

\* The delivery that settled the step frees its slot.
Release(c) ==
    /\ phase[c] \in {"settled", "settledFailed"}
    /\ Freed(c)
    /\ Goes(c, AfterSettled(phase[c]))
    /\ at' = [at EXCEPT ![c] = NoPod]
    /\ UNCHANGED <<gate, key, up, line, served, window, admits, seenVars>>

\* An operator cancels a run: its call asks no more, and the result of a step
\* that is out comes late.
Cancel(c) ==
    /\ gate.cancels > 0 /\ phase[c] \in {"new", "waiting", "blocked", "retry", "pending"}
    /\ gate' = [gate EXCEPT !.cancels = @ - 1]
    /\ Goes(c, IF phase[c] = "pending" THEN "late" ELSE "ended")
    /\ asked' = Without(asked, c)
    /\ UNCHANGED <<at, key, up, gateVars, recent, passed, doubled>>

\* The late result of a cancelled run frees the slot and is dropped: the
\* checkpoint stays pending.
LateResult(c) ==
    /\ phase[c] = "late"
    /\ Freed(c)
    /\ Goes(c, "dropped")
    /\ UNCHANGED <<gate, at, key, up, line, served, window, admits, seenVars>>

\* Delivered once more, it finds the checkpoint pending again, and frees again:
\* in process whatever slot is taken, on Redis its own, which is gone.
LateAgain(c) ==
    /\ phase[c] = "dropped" /\ gate.doubles > 0
    /\ gate' = [gate EXCEPT !.doubles = @ - 1]
    /\ Freed(c)
    /\ doubled' = doubled + 1
    /\ UNCHANGED <<phase, at, key, up, line, served, window, admits, recent, asked, passed>>

-----------------------------------------------------------------------------
\* A pod of the fleet dies.  Its turns are run again, its results delivered
\* again: the slot of a step it had settled is then freed by nobody.
Crash(p) ==
    /\ gate.crashes > 0 /\ ~Memory /\ p \in up
    /\ gate' = [gate EXCEPT !.crashes = @ - 1]
    /\ up' = up \ {p}
    /\ phase' = [c \in Call |->
                    IF at[c] # p THEN phase[c]
                    ELSE IF phase[c] = "admitted" THEN "new" ELSE AfterSettled(phase[c])]
    /\ at' = [c \in Call |-> IF at[c] = p THEN NoPod ELSE at[c]]
    /\ UNCHANGED <<key, gateVars, seenVars>>

\* The liveness key of a dead pod lapses, and its slots are free.
InstanceLapses(p) ==
    /\ p \in key \ up
    /\ key' = key \ {p}
    /\ UNCHANGED <<gate, phase, at, up, gateVars, seenVars>>

\* The Redis backend prunes a waiter that stopped asking.
WaiterLapses(c) ==
    /\ ~Memory /\ Contains(line, c) /\ ~Asking(c)
    /\ line' = Without(line, c)
    /\ UNCHANGED <<gate, phase, at, key, up, inFlight, slot, served, window, admits, seenVars>>

\* Admissions a tick later: the oldest are in front, and those of Period ticks
\* leave.
Older(ages) ==
    LET gone == Cardinality({i \in 1 .. Len(ages) : ages[i] + 1 >= Period})
    IN  [i \in 1 .. Len(ages) - gone |-> ages[i + gone] + 1]

\* A tick: admissions age, and a window of Period ticks starts anew.
Tick ==
    /\ gate.rate # "none"
    /\ admits' = Older(admits)
    /\ recent' = Older(recent)
    /\ window' = IF Memory THEN [window EXCEPT !.age = IF @ < Period THEN @ + 1 ELSE @]
                 ELSE IF window.age + 1 = Period THEN [age |-> 0, count |-> 0]
                 ELSE [window EXCEPT !.age = @ + 1]
    /\ UNCHANGED <<gate, phase, at, key, up, inFlight, slot, line, served, asked, passed, doubled>>

FlowNext ==
    \/ \E p \in Pod, c \in Call : TryAdmit(p, c) \/ Settle(p, c)
    \/ \E c \in Call : \/ Send(c) \/ Refused(c) \/ Release(c)
                       \/ Cancel(c) \/ LateResult(c) \/ LateAgain(c) \/ WaiterLapses(c)
    \/ \E p \in Pod : Crash(p) \/ InstanceLapses(p)
    \/ Tick

\* Timers and polls make a run ask again, workers answer, keys and waiters
\* expire, and the clock runs.
FlowFairness ==
    /\ \A c \in Call : /\ WF_flowVars(\E p \in Pod : TryAdmit(p, c))
                       /\ WF_flowVars(Send(c))
                       /\ WF_flowVars(\E p \in Pod : Settle(p, c))
                       /\ WF_flowVars(Release(c) \/ LateResult(c))
                       /\ WF_flowVars(WaiterLapses(c))
    /\ \A p \in Pod : WF_flowVars(InstanceLapses(p))
    /\ WF_flowVars(Tick)

FlowSpec == FlowInit /\ [][FlowNext]_flowVars
FairFlowSpec == FlowSpec /\ FlowFairness

-----------------------------------------------------------------------------
Phases == {"new", "waiting", "blocked", "retry", "admitted", "pending", "settled",
           "settledFailed", "done", "late", "dropped", "ended"}
Ages   == 0..Period

\* Type invariant: every queue of the model is short, and a waiter, a fairness
\* key or a denied call is in its queue once.
FlowTypeOK ==
    /\ gate \in Setting
    /\ phase \in [Call -> Phases]
    /\ at \in [Call -> Pod \union {NoPod}]
    /\ inFlight \in Nat
    /\ slot \in [Call -> Pod \union {NoPod}]
    /\ up \subseteq key /\ key \subseteq Pod
    /\ line \in Seq(Call) /\ IsInjective(line)
    /\ served \in Seq(Key) /\ IsInjective(served)
    /\ window \in [age : Ages, count : 0..gate.rateLimit]
    /\ admits \in Seq(Ages) /\ recent \in Seq(Ages)
    /\ asked \in Seq(Call) /\ IsInjective(asked)
    /\ passed \in [Call -> SUBSET Key] /\ doubled \in Nat

\* The calls that hold a slot; on Redis, one of a live pod.
Running == {c \in Call : Holds(c) /\ (Memory \/ slot[c] \in key)}

\* The cap, however turns, results, failures, retries and deaths interleave: no
\* more calls hold a slot than the queue's concurrency, and, in process, one more
\* for each late result of a cancelled run that was delivered once more, which
\* frees a slot that is another call's.  On Redis redelivery frees nothing.
CapHolds ==
    gate.concurrency > 0 =>
        Cardinality(Running) <= gate.concurrency + (IF Memory THEN doubled ELSE 0)

\* A rate limit over any span of Period ticks: a sliding window admits at most
\* the limit, a fixed one at most twice the limit (a burst at its boundary).
RateHolds ==
    /\ gate.rate = "sliding" => Len(recent) <= gate.rateLimit
    /\ gate.rate = "fixed"   => Len(recent) <= 2 * gate.rateLimit

ComesFirst(c, d) == Contains(asked, c) /\ Place(asked, c) < Place(asked, d)

\* A call enters only in its turn: none that was denied a slot before it (or
\* after it, in a lifo queue) with the same priority, or that has a higher one,
\* is still waiting for the slot.
InTurn ==
    [][\A c \in Call : (Asking(c) /\ phase'[c] = "admitted") =>
         \A d \in ToSet(asked) \ {c} :
            /\ gate.priority[d] <= gate.priority[c]
            /\ (gate.priority[d] = gate.priority[c] /\ gate.fairness = "fifo") =>
                 IF gate.order = "lifo" THEN ~ComesFirst(c, d) ELSE ComesFirst(c, d)
      ]_flowVars

\* Round robin: while a call waits, no other key gets a second slot at its
\* priority before the call's own key has got one, so a busy key cannot
\* monopolise the queue.  (The waiting call itself may be passed over: the
\* slot goes to an older call of its key.)
FairShare ==
    [][\A c \in Call : (Asking(c) /\ phase'[c] = "admitted" /\ gate.fairness = "key") =>
         \A d \in ToSet(asked) :
            (gate.priority[d] = gate.priority[c] /\ gate.key[d] # gate.key[c]) =>
                gate.key[c] \notin passed[d]
      ]_flowVars

\* In process a cancelled call that was registered stays registered.
Phantom == Memory /\ \E c \in Call : phase[c] = "ended" /\ Contains(line, c)

\* Every call that asks is admitted in the end, or its run is cancelled, while
\* no pod dies and no cancelled call stands in the line for ever: the slots that
\* come free reach the calls that wait for them.
EveryCallAdmitted == [](up = Pod /\ ~Phantom) => \A c \in Call : Asking(c) ~> ~Asking(c)
=============================================================================
