-------------------------- MODULE RemoteStepsProofs --------------------------
(***************************************************************************)
(* Proofs about RemoteSteps: what the engine does with its checkpoints     *)
(* over the transport of DbTransportProofs, for any steps, instances and   *)
(* tokens, any policy and any disturbances.                                *)
(*                                                                         *)
(* StepsInv is inductive: the books of the transport and of the engine     *)
(* (EngineInv).  The poison bound adds to it the count of starts (Counts), *)
(* the journal what a turn or an operator has seen (SeenStays), and that   *)
(* nothing is lost the whole way of a step, from its checkpoint through    *)
(* the mailbox back to it (LostInv).                                       *)
(***************************************************************************)
EXTENDS RemoteSteps, DbTransportProofs

\* A checkpoint that was begun has an attempt, and one that was not has nothing.
Saved == {c \in Checkpoint : /\ c.gen <= c.attempts
                             /\ c.status # "none" => c.gen > 0
                             /\ c.status = "none" => c = NoCheckpoint}

\* The engine's side: the turn and the operator's call are about steps that were
\* begun once they write, and the call is about the step as it was listed.
EngineInv ==
    /\ policy \in Policy
    /\ cp \in [Step -> Saved]
    /\ turn # NoTurn => /\ turn \in Turn /\ turn.seen \in Saved
                        /\ turn.at # "read" => cp[turn.step].status # "none"
    /\ run \in {"live", "failed"} /\ unsent \subseteq Step /\ overlooked \subseteq Step
    /\ call # NoTurn => /\ call \in [step : Step, seen : Saved]
                        /\ call.seen.status = "pending" /\ call.seen.attempts = call.seen.gen
                        /\ cp[call.step].status # "none"
                        /\ policy.operator

-----------------------------------------------------------------------------
\* Writing one checkpoint: of a row that was begun the wake and the outcome may
\* change, and the attempts may grow within their bound.
LEMMA SavedShape ==
  ASSUME NEW row \in Saved, row.status # "none"
  PROVE  /\ \A w \in Wakes : /\ [row EXCEPT !.wake = w] \in Saved
                             /\ [row EXCEPT !.wake = w].status = row.status
         /\ \A o \in {"completed", "failed"}, g \in 0..MaxGen :
              /\ [row EXCEPT !.status = o, !.by = g] \in Saved
              /\ [row EXCEPT !.status = o, !.by = g].status = o
         /\ \A w \in Wakes : row.attempts + 1 <= MaxGen + RedispatchMax =>
              /\ [row EXCEPT !.attempts = @ + 1, !.wake = w] \in Saved
              /\ [row EXCEPT !.attempts = @ + 1, !.wake = w].status = row.status
         /\ row.attempts + 1 <= MaxGen + RedispatchMax =>
              /\ [row EXCEPT !.attempts = @ + 1] \in Saved
              /\ [row EXCEPT !.attempts = @ + 1].status = row.status
<1>1. MaxGen \in Nat /\ RedispatchMax \in Nat BY TransportAssumption, StepsAssumption
<1>2. row \in Checkpoint /\ row.gen <= row.attempts /\ row.gen > 0 BY DEF Saved
<1>3. /\ row.status \in {"none", "pending", "failed", "completed"}
      /\ row.attempts \in 0..(MaxGen + RedispatchMax) /\ row.gen \in 0..MaxGen
  BY <1>2 DEF Checkpoint
<1>4. ASSUME NEW w \in Wakes
      PROVE  [row EXCEPT !.wake = w] \in Saved /\ [row EXCEPT !.wake = w].status = row.status
  BY <1>2 DEF Saved, Checkpoint
<1>5. ASSUME NEW o \in {"completed", "failed"}, NEW g \in 0..MaxGen
      PROVE  /\ [row EXCEPT !.status = o, !.by = g] \in Saved
             /\ [row EXCEPT !.status = o, !.by = g].status = o
  BY <1>2 DEF Saved, Checkpoint
<1>6. ASSUME row.attempts + 1 <= MaxGen + RedispatchMax
      PROVE  /\ [row EXCEPT !.attempts = @ + 1] \in Saved
             /\ [row EXCEPT !.attempts = @ + 1].status = row.status
  <2> DEFINE n == row.attempts + 1
  <2>1. n \in 0..(MaxGen + RedispatchMax) /\ row.gen <= n BY <1>1, <1>2, <1>3, <1>6
  <2> HIDE DEF n
  <2>2. /\ [row EXCEPT !.attempts = n] \in Saved
        /\ [row EXCEPT !.attempts = n].status = row.status
    BY <1>2, <2>1 DEF Saved, Checkpoint
  <2> QED BY <2>2 DEF n
<1>7. ASSUME NEW w \in Wakes, row.attempts + 1 <= MaxGen + RedispatchMax
      PROVE  /\ [row EXCEPT !.attempts = @ + 1, !.wake = w] \in Saved
             /\ [row EXCEPT !.attempts = @ + 1, !.wake = w].status = row.status
  <2> DEFINE r == [row EXCEPT !.attempts = @ + 1]
  <2>1. r \in Saved /\ r.status = row.status BY <1>6, <1>7
  <2>2. [row EXCEPT !.attempts = @ + 1, !.wake = w] = [r EXCEPT !.wake = w] OBVIOUS
  <2> HIDE DEF r
  <2>3. [r EXCEPT !.wake = w] \in Saved /\ [r EXCEPT !.wake = w].status = r.status
    BY <2>1 DEF Saved, Checkpoint
  <2> QED BY <2>1, <2>2, <2>3
<1> QED BY <1>4, <1>5, <1>6, <1>7

\* What a turn's decision writes: nothing; a pending row over a pending one; the
\* deadline or the next attempt of a failure it read; or a first attempt.
LEMMA DecideShape ==
  ASSUME EngineInv, Decide
  PROVE  \/ /\ cp' = cp /\ run' \in {run, "failed"}
            /\ \/ turn' = NoTurn
               \/ turn' = [turn EXCEPT !.seen = cp[turn.step]]
         \/ \E row \in Saved, then \in {NoTurn, Sending} :
              /\ Save(row, then)
              /\ \/ row.status = "pending" /\ cp[turn.step].status = "pending"
                 \/ /\ Seen.status = "failed" /\ Seen.attempts < policy.retries
                    /\ row.status = "failed" /\ then = NoTurn
                 \/ /\ Seen.status = "failed" /\ Seen.attempts < policy.retries
                    /\ row.status = "pending" /\ then = Sending
                 \/ Seen.status = "none" /\ row.status = "pending" /\ then = Sending
<1> USE DEF EngineInv
<1>1. turn \in Turn /\ Seen \in Saved BY DEF Decide, Deciding, Seen
<1>2. MaxGen \in Nat /\ RedispatchMax \in Nat /\ policy.retries \in 1..MaxGen
  BY TransportAssumption, StepsAssumption DEF Policy, Gen
<1>3. /\ Seen.attempts \in Nat /\ Seen.gen \in Nat /\ Seen.gen <= Seen.attempts
      /\ Seen.status = "none" => Seen.attempts = 0
  BY <1>1, <1>2 DEF Saved, Checkpoint, NoCheckpoint
<1>4. ASSUME Seen.attempts < policy.retries
      PROVE  NewAttempt \in Saved /\ NewAttempt.status = "pending"
  <2>1. /\ Seen.attempts + 1 \in 0..(MaxGen + RedispatchMax) /\ Seen.gen + 1 \in 0..MaxGen
        /\ Seen.gen + 1 <= Seen.attempts + 1 /\ Seen.gen + 1 > 0
    BY <1>2, <1>3, <1>4
  <2>2. 0 \in 0..MaxGen BY <1>2
  <2> QED BY <2>1, <2>2 DEF NewAttempt, Saved, Checkpoint, Wakes
<1>5. ASSUME Seen.status # "none"
      PROVE  /\ \A w \in Wakes : /\ [Seen EXCEPT !.wake = w] \in Saved
                                /\ [Seen EXCEPT !.wake = w].status = Seen.status
             /\ \A w \in Wakes : Seen.attempts + 1 <= MaxGen + RedispatchMax =>
                  /\ [Seen EXCEPT !.attempts = @ + 1, !.wake = w] \in Saved
                  /\ [Seen EXCEPT !.attempts = @ + 1, !.wake = w].status = Seen.status
  BY <1>1, <1>5, SavedShape
<1>6. CASE OnCompleted BY <1>6 DEF OnCompleted, Suspend
<1>7. CASE OnPending
  <2>1. "lease" \in Wakes /\ Seen.status = "pending" BY <1>7 DEF Wakes, OnPending
  <2>2. [Seen EXCEPT !.wake = "lease"] \in Saved
        /\ [Seen EXCEPT !.wake = "lease"].status = "pending"
    BY <1>5, <2>1
  <2>3. ASSUME Seen.attempts < RedispatchMax
        PROVE  /\ [Seen EXCEPT !.attempts = @ + 1, !.wake = "lease"] \in Saved
               /\ [Seen EXCEPT !.attempts = @ + 1, !.wake = "lease"].status = "pending"
    <3>1. Seen.attempts + 1 <= MaxGen + RedispatchMax BY <1>2, <1>3, <2>3
    <3> QED BY <1>5, <2>1, <3>1
  <2>4. ASSUME NEW row \in Saved, row.status = "pending", NEW then \in {NoTurn, Sending},
               SavePending(row, then)
        PROVE  \/ cp' = cp /\ run' = run /\ turn' = [turn EXCEPT !.seen = cp[turn.step]]
               \/ Save(row, then) /\ cp[turn.step].status = "pending"
    BY <2>4 DEF SavePending
  <2>5. CASE Suspend \/ Fail BY <2>5 DEF Suspend, Fail
  <2>6. CASE SavePending([Seen EXCEPT !.wake = "lease"], NoTurn) BY <2>2, <2>4, <2>6
  <2>7. CASE /\ Seen.attempts < RedispatchMax
             /\ SavePending([Seen EXCEPT !.attempts = @ + 1, !.wake = "lease"], Sending)
    BY <2>3, <2>4, <2>7
  <2> QED BY <1>7, <2>5, <2>6, <2>7 DEF OnPending
<1>8. CASE OnFailed
  <2>1. "backoff" \in Wakes /\ Seen.status = "failed" BY <1>8 DEF Wakes, OnFailed
  <2>2. [Seen EXCEPT !.wake = "backoff"] \in Saved
        /\ [Seen EXCEPT !.wake = "backoff"].status = "failed"
    BY <1>5, <2>1
  <2>3. CASE Suspend \/ Fail BY <2>3 DEF Suspend, Fail
  <2>4. CASE Seen.attempts < policy.retries
             /\ Save([Seen EXCEPT !.wake = "backoff"], NoTurn)
    BY <2>1, <2>2, <2>4
  <2>5. CASE Seen.attempts < policy.retries /\ Save(NewAttempt, Sending)
    BY <1>4, <2>1, <2>5
  <2> QED BY <1>8, <2>3, <2>4, <2>5 DEF OnFailed
<1>9. CASE OnNew
  <2>1. Seen.attempts < policy.retries BY <1>2, <1>3, <1>9 DEF OnNew
  <2> QED BY <1>4, <1>9, <2>1 DEF OnNew
<1> QED BY <1>6, <1>7, <1>8, <1>9 DEF Decide

\* What a result settles: a pending step, which is not pending afterwards while
\* its run is live.
LEMMA SettledShape ==
  ASSUME EngineInv, NEW s \in Step, NEW ok \in BOOLEAN, NEW g \in Gen
  PROVE  /\ \/ Settled(s, ok, g) = cp
            \/ /\ cp[s].status = "pending"
               /\ \E row \in Saved : row.status \in {"completed", "failed"}
                                     /\ Settled(s, ok, g) = [cp EXCEPT ![s] = row]
         /\ run = "live" => Settled(s, ok, g)[s].status # "pending"
<1> DEFINE o == IF ok THEN "completed" ELSE "failed"
           row == [cp[s] EXCEPT !.status = o, !.by = g]
<1>1. CASE cp[s].status = "pending" /\ (run = "live" \/ ok)
  <2>1. Settled(s, ok, g) = [cp EXCEPT ![s] = row] BY <1>1 DEF Settled, EngineInv
  <2>2. cp[s] \in Saved /\ o \in {"completed", "failed"} /\ g \in 0..MaxGen
    BY TransportAssumption DEF EngineInv, Gen
  <2>3. row \in Saved /\ row.status = o
    <3>1. cp[s].status # "none" BY <1>1
    <3>2. \A p \in {"completed", "failed"}, n \in 0..MaxGen :
            /\ [cp[s] EXCEPT !.status = p, !.by = n] \in Saved
            /\ [cp[s] EXCEPT !.status = p, !.by = n].status = p
      BY <2>2, <3>1, SavedShape
    <3> HIDE DEF o
    <3> QED BY <2>2, <3>2
  <2> HIDE DEF row
  <2> QED BY <1>1, <2>1, <2>2, <2>3 DEF EngineInv
<1>2. CASE ~(cp[s].status = "pending" /\ (run = "live" \/ ok))
  BY <1>2 DEF Settled
<1> QED BY <1>1, <1>2

\* What a round handed over is of an attempt that is told apart.
LEMMA HandedGen ==
  ASSUME TransportTypes, TransportInv, NEW t \in Token, NEW s \in Step
  PROVE  round[t].gen[s] \in Gen /\ round[t].ok[s] \in BOOLEAN
BY DEF TransportTypes, TransportInv, RoundsFit, RoundFits, Round

\* A result's handler settles, or leaves the checkpoint as it is.
LEMMA HandleResultShape ==
  ASSUME TransportTypes, TransportInv, EngineInv, NEW t \in Token, NEW s \in Step,
         HandleResult(t, s)
  PROVE  /\ Returned(t, s) \/ Threw(t, s)
         /\ UNCHANGED <<policy, turn, run, unsent, overlooked, call>>
         /\ \/ cp' = cp
            \/ /\ cp[s].status = "pending"
               /\ \E row \in Saved : row.status \in {"completed", "failed"}
                                     /\ cp' = [cp EXCEPT ![s] = row]
         /\ (Returned(t, s) /\ run = "live") => cp'[s].status # "pending"
<1>1. round[t].gen[s] \in Gen /\ round[t].ok[s] \in BOOLEAN BY HandedGen
<1>2. cp' \in {cp, Settled(s, round[t].ok[s], round[t].gen[s])}
      /\ (~Threw(t, s) => cp' = Settled(s, round[t].ok[s], round[t].gen[s]))
  BY DEF HandleResult
<1>3. ~(Returned(t, s) /\ Threw(t, s)) BY DEF Returned, Threw, TransportTypes, Round
<1> QED BY <1>1, <1>2, <1>3, SettledShape DEF HandleResult

-----------------------------------------------------------------------------
StepsInv == TransportTypes /\ TransportInv /\ EngineInv

\* What a step of the engine or of the transport asks of the transport.
TransportMoves ==
    \/ TransportStep \/ \E i \in Inst : Crash(i)
    \/ \E s \in Step, g \in Gen : Dispatch(s, g)
    \/ \E t \in Token, s \in Step : Returned(t, s) \/ Threw(t, s)
    \/ UNCHANGED transportVars

\* A checkpoint that was begun is of an attempt that is told apart.
LEMMA BegunGen ==
  ASSUME NEW row \in Saved, row.status # "none" PROVE row.gen \in Gen
<1>1. row.gen \in 0..MaxGen /\ row.gen > 0 BY DEF Saved, Checkpoint
<1> QED BY <1>1, TransportAssumption DEF Gen

\* Seen from the transport, a step of the engine sends steps whose checkpoint
\* it wrote, or reads a result, or does nothing.
LEMMA StepsMove == ASSUME StepsInv, [StepsNext]_stepsVars PROVE TransportMoves
<1> USE DEF StepsInv, EngineInv, TransportMoves
<1>1. ASSUME NEW i \in Inst, StepsCrash(i) PROVE TransportMoves BY <1>1 DEF StepsCrash
<1>2. ASSUME NEW s \in Step,
             \/ TimePasses(s) \/ Beat(s) \/ OperatorLists(s) \/ \E i \in Inst : Look(i, s)
      PROVE  TransportMoves
  BY <1>2 DEF TimePasses, Beat, OperatorLists, Look
<1>3. CASE Decide \/ Park \/ WakeOverDeadTurn
  BY <1>3 DEF Decide, Park, WakeOverDeadTurn
<1>4. CASE Send
  <2>1. turn.step \in Step /\ cp[turn.step] \in Saved /\ cp[turn.step].status # "none"
    BY <1>4 DEF Send, Turn
  <2>2. cp[turn.step].gen \in Gen BY <2>1, BegunGen
  <2> QED BY <1>4, <2>1, <2>2 DEF Send
<1>5. CASE OperatorSends
  <2>1. call.step \in Step /\ call.seen \in Saved /\ call.seen.status # "none"
    BY <1>5 DEF OperatorSends
  <2>2. call.seen.gen \in Gen BY <2>1, BegunGen
  <2> QED BY <1>5, <2>1, <2>2 DEF OperatorSends
<1>6. ASSUME NEW s \in Step, Resend(s) PROVE TransportMoves
  <2>1. CASE cp[s].status = "pending"
    <3>1. cp[s].gen \in Gen BY <2>1, BegunGen
    <3> QED BY <1>6, <2>1, <3>1 DEF Resend
  <2>2. CASE cp[s].status # "pending" BY <1>6, <2>2 DEF Resend
  <2> QED BY <2>1, <2>2
<1>7. ASSUME NEW t \in Token, NEW s \in Step, HandleResult(t, s) PROVE TransportMoves
  BY <1>7 DEF HandleResult
<1>8. CASE UNCHANGED stepsVars BY <1>8 DEF stepsVars
<1> QED BY <1>1, <1>2, <1>3, <1>4, <1>5, <1>6, <1>7, <1>8 DEF StepsNext

\* Whatever the engine asks, the transport's books stay right, and it is a mailbox.
LEMMA MovesKeep ==
  ASSUME TransportTypes, TransportInv, TransportMoves
  PROVE  TransportTypes' /\ TransportInv' /\ [Mailbox!Next]_(Mailbox!vars)
<1>1. \A g \in Gen : g \in Nat BY DEF Gen
<1>2. TransportInv'
  BY TransportStepKeeps, DispatchKeeps, HandledKeeps, NothingKeeps DEF TransportMoves
<1>3. TransportTypes' /\ [Mailbox!Next]_(Mailbox!vars)
  <2>1. CASE UNCHANGED transportVars BY <2>1, NothingMaps, MailboxMoves DEF transportVars
  <2>2. CASE ~UNCHANGED transportVars
    BY <1>1, <2>2, TransportMaps, DispatchMaps, ReturnedMaps, ThrewMaps, MailboxMoves
       DEF TransportMoves
  <2> QED BY <2>1, <2>2
<1> QED BY <1>2, <1>3

\* The engine's own part of each step.
LEMMA DecideKeeps == ASSUME EngineInv, Decide PROVE EngineInv'
<1> USE DEF EngineInv
<1>1. turn \in Turn /\ turn # NoTurn /\ turn.seen \in Saved BY DEF Decide, Deciding
<1>2. UNCHANGED <<policy, unsent, overlooked, call>> BY DEF Decide
<1>3. CASE /\ cp' = cp /\ run' \in {run, "failed"}
           /\ turn' = NoTurn \/ turn' = [turn EXCEPT !.seen = cp[turn.step]]
  <2>1. [turn EXCEPT !.seen = cp[turn.step]] \in Turn
        /\ [turn EXCEPT !.seen = cp[turn.step]].seen \in Saved
        /\ [turn EXCEPT !.seen = cp[turn.step]].at = turn.at
    BY <1>1 DEF Turn, Saved
  <2>2. turn.at = "read" BY DEF Decide, Deciding
  <2> QED BY <1>2, <1>3, <2>1, <2>2
<1>4. ASSUME NEW row \in Saved, NEW then \in {NoTurn, Sending}, Save(row, then),
             row.status # "none"
      PROVE  EngineInv'
  <2>1. cp' = [cp EXCEPT ![turn.step] = row] /\ turn' = then /\ run' = run
    BY <1>4 DEF Save
  <2>2. Sending \in Turn /\ Sending.seen = turn.seen /\ Sending.step = turn.step
    BY <1>1 DEF Sending, Turn
  <2>3. \A s \in Step : cp'[s].status = "none" => cp[s].status = "none"
    BY <1>1, <1>4, <2>1 DEF Turn
  <2>4. cp'[turn.step] = row BY <1>1, <2>1 DEF Turn
  <2> QED BY <1>1, <1>2, <1>4, <2>1, <2>2, <2>3, <2>4
<1> QED BY <1>3, <1>4, DecideShape

\* One checkpoint that was begun is written over by another.
LEMMA WriteKeeps ==
  ASSUME EngineInv, NEW s \in Step, NEW row \in Saved, row.status # "none",
         cp' = [cp EXCEPT ![s] = row], UNCHANGED <<policy, turn, run, unsent, overlooked>>,
         call' \in {call, NoTurn}
  PROVE  EngineInv'
<1>1. cp' \in [Step -> Saved] BY DEF EngineInv
<1>2. \A x \in Step : cp'[x].status = "none" => cp[x].status = "none" BY DEF EngineInv
<1>3. turn # NoTurn => turn.step \in Step BY DEF EngineInv, Turn
<1> QED BY <1>1, <1>2, <1>3 DEF EngineInv

\* The engine writes to checkpoints that were begun, by what it saw of them.
LEMMA EngineKeeps == ASSUME StepsInv, [StepsNext]_stepsVars PROVE EngineInv'
<1> USE DEF StepsInv
<1>1. ASSUME UNCHANGED engineVars PROVE EngineInv' BY <1>1 DEF engineVars, EngineInv
<1>2. ASSUME NEW i \in Inst, NEW s \in Step, Look(i, s) PROVE EngineInv'
  <2>1. turn' \in Turn /\ turn'.seen \in Saved /\ turn'.at = "read"
    BY <1>2 DEF Look, EngineInv, Turn, Saved
  <2> QED BY <1>2, <2>1 DEF Look, EngineInv
<1>3. CASE Send
  <2>1. turn' \in Turn /\ turn'.seen = turn.seen /\ turn'.step = turn.step
    BY <1>3 DEF Send, EngineInv, Turn
  <2> QED BY <1>3, <2>1 DEF Send, EngineInv
<1>4. CASE Park \/ WakeOverDeadTurn BY <1>4 DEF Park, WakeOverDeadTurn, EngineInv
<1>5. CASE OperatorSends
  <2>1. /\ call.step \in Step /\ call.seen \in Saved /\ call.seen.status = "pending"
        /\ call.seen.attempts = call.seen.gen
    BY <1>5 DEF OperatorSends, EngineInv
  <2>2. call.seen.attempts + 1 <= MaxGen + RedispatchMax
    BY <2>1, TransportAssumption, StepsAssumption DEF Saved, Checkpoint
  <2>3. [call.seen EXCEPT !.attempts = @ + 1] \in Saved
        /\ [call.seen EXCEPT !.attempts = @ + 1].status = "pending"
    BY <2>1, <2>2, SavedShape
  <2> QED BY <1>5, <2>1, <2>3, WriteKeeps DEF OperatorSends
<1>6. ASSUME NEW s \in Step, Resend(s) PROVE EngineInv' BY <1>6 DEF Resend, EngineInv
<1>7. ASSUME NEW s \in Step, TimePasses(s) \/ Beat(s) PROVE EngineInv'
  <2>1. cp[s] \in Saved /\ cp[s].status # "none"
    BY <1>7 DEF TimePasses, Beat, EngineInv, Saved, NoCheckpoint
  <2>2. PICK w \in Wakes : cp' = [cp EXCEPT ![s] = [cp[s] EXCEPT !.wake = w]]
    BY <1>7 DEF TimePasses, Beat, Wakes
  <2>3. [cp[s] EXCEPT !.wake = w] \in Saved
        /\ [cp[s] EXCEPT !.wake = w].status = cp[s].status
    BY <2>1, SavedShape
  <2> QED BY <1>7, <2>1, <2>2, <2>3, WriteKeeps DEF TimePasses, Beat
<1>8. ASSUME NEW s \in Step, OperatorLists(s) PROVE EngineInv'
  <2>1. call' = [step |-> s, seen |-> cp[s]] /\ cp[s] \in Saved
    BY <1>8 DEF OperatorLists, EngineInv
  <2> QED BY <1>8, <2>1 DEF OperatorLists, EngineInv
<1>9. ASSUME NEW t \in Token, NEW s \in Step, HandleResult(t, s) PROVE EngineInv'
  <2>1. UNCHANGED <<policy, turn, run, unsent, overlooked, call>>
        /\ (cp' = cp \/ \E row \in Saved : row.status \in {"completed", "failed"}
                                          /\ cp' = [cp EXCEPT ![s] = row])
    BY <1>9, HandleResultShape
  <2>2. CASE cp' = cp BY <2>1, <2>2 DEF EngineInv
  <2> QED BY <2>1, <2>2, WriteKeeps
<1>10. ASSUME NEW i \in Inst, StepsCrash(i) PROVE EngineInv'
  <2>1. /\ UNCHANGED <<policy, cp, run, overlooked, call>>
        /\ turn' \in {turn, NoTurn}
        /\ unsent' = unsent \/ (turn # NoTurn /\ unsent' = unsent \union {turn.step})
    BY <1>10 DEF StepsCrash
  <2>2. unsent' \subseteq Step BY <2>1 DEF EngineInv, Turn
  <2> QED BY <2>1, <2>2 DEF EngineInv
<1> QED BY <1>1, <1>2, <1>3, <1>4, <1>5, <1>6, <1>7, <1>8, <1>9, <1>10, DecideKeeps
        DEF StepsNext, stepsVars

\* So every step keeps the invariant and is a step of the mailbox.
LEMMA StepsKeep ==
  ASSUME StepsInv, [StepsNext]_stepsVars
  PROVE  StepsInv' /\ [Mailbox!Next]_(Mailbox!vars)
BY StepsMove, MovesKeep, EngineKeeps DEF StepsInv

\* At first no checkpoint is begun and the mailbox is empty.
LEMMA StepsStart == ASSUME StepsInit PROVE StepsInv /\ Mailbox!Init
<1>1. TransportTypes /\ Mailbox!Init /\ TransportInv
  BY InitMaps, InitKeeps DEF StepsInit
<1>2. NoCheckpoint \in Saved
  BY TransportAssumption, StepsAssumption DEF NoCheckpoint, Saved, Checkpoint, Wakes
<1>3. policy \in Policy BY StepsAssumption DEF StepsInit
<1> QED BY <1>1, <1>2, <1>3 DEF StepsInit, StepsInv, EngineInv

-----------------------------------------------------------------------------
\* Under the engine, with its retries, re-dispatches, crashes and an operator's
\* calls, the transport is the mailbox: no result a handler has not read is lost.
THEOREM StepsKeepMailbox == StepsSpec => MailboxKept
<1>1. StepsInit => StepsInv /\ Mailbox!Init BY StepsStart
<1>2. StepsInv /\ [StepsNext]_stepsVars => StepsInv' /\ [Mailbox!Next]_(Mailbox!vars)
  BY StepsKeep
<1> QED BY <1>1, <1>2, PTL DEF StepsSpec, MailboxKept, Mailbox!Spec

\* The books of both sides are of their types: a round renews only steps it works
\* on, and no attempt, dispatch or takeover is counted past its bound.
THEOREM StepsTypes == StepsSpec => []StepsTypeOK
<1>1. StepsInit => StepsInv BY StepsStart
<1>2. StepsInv /\ [StepsNext]_stepsVars => StepsInv' BY StepsKeep
<1>3. ASSUME StepsInv PROVE StepsTypeOK
  <2> USE <1>3 DEF StepsInv, TransportInv
  <2>1. \A s \in Step : IsRow(task[s])
          => task[s].gen \in Gen /\ task[s].reclaims <= MaxStalled + 1
    BY DEF RowsBounded
  <2>2. round \in [Token -> [kind : {"idle", "tasks", "results"}, inst : Inst,
                             job : [Step -> Jobs], gen : [Step -> Gen], ok : [Step -> BOOLEAN]]]
    BY DEF TransportTypes, Round, RoundsFit, RoundFits
  <2>3. \A t \in Token : held[t] \subseteq Active(t)
    BY DEF Books, RoundsFit, RoundFits, Active, HeldJobs, ResultJobs
  <2>4. turn = NoTurn \/ turn \in Turn BY DEF EngineInv
  <2>5. /\ policy \in Policy /\ cp \in [Step -> Checkpoint]
        /\ run \in {"live", "failed"} /\ unsent \subseteq Step /\ overlooked \subseteq Step
        /\ call = NoTurn \/ call \in [step : Step, seen : Checkpoint]
    BY DEF EngineInv, Saved
  <2> QED BY <2>1, <2>2, <2>3, <2>4, <2>5 DEF StepsTypeOK, TransportTypes, Books
<1> QED BY <1>1, <1>2, <1>3, PTL DEF StepsSpec

\* However the poll rounds, renewals, stops and deaths of the instances interleave,
\* a step runs in two of them only when a renewal came late or one hands back.
THEOREM StepsOneRunner == StepsSpec => []OneRunner
<1>1. StepsInit => StepsInv BY StepsStart
<1>2. StepsInv /\ [StepsNext]_stepsVars => StepsInv' BY StepsKeep
<1>3. ASSUME StepsInv PROVE OneRunner
  <2> SUFFICES ASSUME fault.late = 0, NEW s \in Step, NEW t \in Token, NEW u \in Token,
                      round[t].job[s] = "running", round[u].job[s] = "running",
                      round[t].inst \notin closing, round[u].inst \notin closing
               PROVE  t = u
    BY DEF OneRunner
  <2>1. Mine(task[s], t) /\ Mine(task[s], u)
    BY <1>3 DEF StepsInv, TransportInv, Runners, RunsItsOwn
  <2> QED BY <2>1 DEF Mine
<1> QED BY <1>1, <1>2, <1>3, PTL DEF StepsSpec

\* A poisonous step is failed after maxStalledCount takeovers, as long as no error
\* comes together with a stop.  (With both, a row whose settle failed is handed
\* back uncounted with its round's other rows, and starts once more.)
THEOREM StepsPoisonStops ==
  StepsSpec /\ (fault.errors = 0 \/ fault.stops = 0) => []PoisonStops
<1> DEFINE I == StepsInv /\ Orderly /\ Counts
<1>1. StepsInit /\ (fault.errors = 0 \/ fault.stops = 0) => I
  <2> SUFFICES ASSUME StepsInit, fault.errors = 0 \/ fault.stops = 0 PROVE I
    OBVIOUS
  <2>1. Tended /\ closing = {} /\ Counts
    BY TransportAssumption
       DEF StepsInit, TransportInit, Tended, Mine, IsRow, Counts, CountAt
  <2> QED BY <2>1, StepsStart DEF Orderly
<1>2. I /\ [StepsNext]_stepsVars => I'
  <2> SUFFICES ASSUME I, [StepsNext]_stepsVars PROVE I' OBVIOUS
  <2>1. Orderly' /\ Counts' BY StepsMove, OrderlyCounts DEF StepsInv, TransportMoves
  <2> QED BY <2>1, StepsKeep
<1>3. I => PoisonStops BY DEF Counts, CountAt, PoisonStops
<1> QED BY <1>1, <1>2, <1>3, PTL DEF StepsSpec

-----------------------------------------------------------------------------
\* What a turn that has read a checkpoint can rely on before it writes: nobody
\* else begins a step, and nobody but an operator writes over a failure.
SeenStays ==
    turn # NoTurn /\ turn.at = "read" =>
      /\ turn.seen.status = "none" => cp[turn.step].status = "none"
      /\ (turn.seen.status = "failed" /\ ~policy.operator) => cp[turn.step].status = "failed"

\* One turn at a time begins steps, and only it writes over a failure; results
\* settle steps that are pending.
LEMMA SeenStaysKept == ASSUME StepsInv, SeenStays, [StepsNext]_stepsVars PROVE SeenStays'
<1> USE DEF StepsInv
<1>1. CASE cp' = cp /\ policy' = policy /\ turn' \in {turn, NoTurn} BY <1>1 DEF SeenStays
<1>2. ASSUME NEW i \in Inst, NEW s \in Step, Look(i, s) PROVE SeenStays'
  BY <1>2 DEF Look, SeenStays
<1>3. CASE Decide
  <2>1. policy' = policy /\ turn.at = "read" /\ turn \in Turn /\ turn # NoTurn
    BY <1>3 DEF Decide, Deciding, EngineInv
  <2>2. Sending.at = "saved" BY <2>1 DEF Sending, Turn
  <2>3. CASE cp' = cp /\ turn' = [turn EXCEPT !.seen = cp[turn.step]]
    BY <2>1, <2>3 DEF SeenStays, Turn
  <2>4. CASE cp' = cp /\ turn' = NoTurn BY <2>4 DEF SeenStays
  <2>5. CASE \E row \in Saved, then \in {NoTurn, Sending} : Save(row, then)
    BY <2>2, <2>5 DEF Save, SeenStays
  <2> QED BY <1>3, <2>3, <2>4, <2>5, DecideShape
<1>4. CASE Send
  <2>1. turn'.at = "sent" BY <1>4 DEF Send, EngineInv, Turn
  <2> QED BY <2>1 DEF SeenStays
<1>5. CASE OperatorSends
  <2>1. /\ UNCHANGED <<policy, turn>> /\ policy.operator /\ cp[call.step].status # "none"
        /\ call.step \in Step
        /\ \A x \in Step : x # call.step => cp'[x] = cp[x]
    BY <1>5 DEF OperatorSends, EngineInv
  <2>2. turn # NoTurn => turn.step \in Step BY DEF EngineInv, Turn
  <2> QED BY <2>1, <2>2 DEF SeenStays
<1>6. ASSUME NEW s \in Step, TimePasses(s) \/ Beat(s) PROVE SeenStays'
  <2>1. PICK w \in Wakes : cp' = [cp EXCEPT ![s] = [cp[s] EXCEPT !.wake = w]]
    BY <1>6 DEF TimePasses, Beat, Wakes
  <2>2. \A x \in Step : cp'[x].status = cp[x].status
    BY <2>1 DEF EngineInv, Saved, Checkpoint
  <2>3. turn # NoTurn => turn.step \in Step BY DEF EngineInv, Turn
  <2> QED BY <1>6, <2>2, <2>3 DEF TimePasses, Beat, SeenStays
<1>7. ASSUME NEW t \in Token, NEW s \in Step, HandleResult(t, s) PROVE SeenStays'
  <2>1. /\ UNCHANGED <<policy, turn>>
        /\ \A x \in Step : cp'[x] # cp[x] => cp[x].status = "pending"
    BY <1>7, HandleResultShape DEF EngineInv
  <2>2. turn # NoTurn => turn.step \in Step BY DEF EngineInv, Turn
  <2> QED BY <2>1, <2>2 DEF SeenStays
<1>8. ASSUME NEW s \in Step, Resend(s) \/ OperatorLists(s)
      PROVE  cp' = cp /\ policy' = policy /\ turn' \in {turn, NoTurn}
  BY <1>8 DEF Resend, OperatorLists
<1>9. CASE Park \/ WakeOverDeadTurn \/ UNCHANGED engineVars \/ \E i \in Inst : StepsCrash(i)
  BY <1>1, <1>9 DEF Park, WakeOverDeadTurn, engineVars, StepsCrash
<1> QED BY <1>1, <1>2, <1>3, <1>4, <1>5, <1>6, <1>7, <1>8, <1>9 DEF StepsNext, stepsVars

\* A completed step stays completed, with the outcome of the attempt that did it,
\* whatever the results and the turns overtake, up to an operator's call; and with
\* an operator around as long as the step is not retried too.
THEOREM StepsCompletedStays ==
  StepsSpec /\ (policy.operator => policy.retries = 1) => CompletedStays
<1> DEFINE Single == policy.operator => policy.retries = 1
           I == StepsInv /\ SeenStays /\ Single
<1>1. StepsInit /\ Single => I BY StepsStart DEF StepsInit, SeenStays
<1>2. I /\ [StepsNext]_stepsVars => I'
  <2> SUFFICES ASSUME I, [StepsNext]_stepsVars PROVE I' OBVIOUS
  <2>1. policy' = policy
    BY DEF StepsNext, StepsCrash, Look, Decide, Send, Park, WakeOverDeadTurn, OperatorSends,
           Resend, TimePasses, Beat, OperatorLists, HandleResult, engineVars, stepsVars
  <2> QED BY <2>1, StepsKeep, SeenStaysKept
<1>3. I /\ [StepsNext]_stepsVars
        => [call' = call => \A s \in Step : KeepsSettled(s)]_cp
  <2> SUFFICES ASSUME I, StepsNext, call' = call, cp' # cp,
                      NEW s \in Step, cp[s].status = "completed"
               PROVE  cp'[s] = cp[s]
    BY DEF KeepsSettled, stepsVars, engineVars
  <2> USE DEF StepsInv
  <2>1. CASE Decide
    <3>1. turn.at = "read" /\ turn \in Turn /\ turn # NoTurn /\ Seen \in Saved
      BY <2>1 DEF Decide, Deciding, EngineInv, Seen
    <3>2. PICK row \in Saved, then \in {NoTurn, Sending} :
            /\ Save(row, then)
            /\ \/ cp[turn.step].status = "pending"
               \/ Seen.status = "failed" /\ Seen.attempts < policy.retries
               \/ Seen.status = "none"
      BY <2>1, DecideShape
    <3>3. cp[turn.step].status # "completed"
      <4>1. CASE Seen.status = "failed" /\ Seen.attempts < policy.retries
        <5>1. Seen.gen \in 0..MaxGen /\ Seen.gen > 0 /\ Seen.gen <= Seen.attempts
              /\ Seen.attempts \in 0..(MaxGen + RedispatchMax)
          BY <3>1, <4>1 DEF Saved, Checkpoint
        <5>2. policy.retries # 1 BY <4>1, <5>1, TransportAssumption, StepsAssumption
        <5> QED BY <3>1, <4>1, <5>2 DEF SeenStays, Seen
      <4> QED BY <3>1, <3>2, <4>1 DEF SeenStays, Seen
    <3> QED BY <3>1, <3>2, <3>3 DEF Save, EngineInv, Turn
  <2>2. CASE OperatorSends BY <2>2 DEF OperatorSends
  <2>3. ASSUME NEW x \in Step, TimePasses(x) \/ Beat(x) PROVE cp'[s] = cp[s]
    BY <2>3 DEF TimePasses, Beat, EngineInv
  <2>4. ASSUME NEW t \in Token, NEW x \in Step, HandleResult(t, x) PROVE cp'[s] = cp[s]
    BY <2>4, HandleResultShape DEF EngineInv
  <2> QED
    BY <2>1, <2>2, <2>3, <2>4
       DEF StepsNext, engineVars, StepsCrash, Look, Send, Park, WakeOverDeadTurn, Resend,
           OperatorLists
<1> QED BY <1>1, <1>2, <1>3, PTL DEF StepsSpec, CompletedStays

-----------------------------------------------------------------------------
(* Nothing is lost.  A step is in the tables only once its checkpoint is      *)
(* pending, and with one attempt a result that was read was the last there is *)
(* to settle it; so a step that is pending has not had its result read, and   *)
(* the mailbox still has it, unless the engine is about to send it.           *)
OutIsBegun == \A s \in Step : s \in Out \union InBox => cp[s].status # "none"
ReadIsSettled ==
    OneAttempt /\ run = "live" => \A s \in HasRead : cp[s].status # "pending"
LostInv == OutIsBegun /\ ReadIsSettled /\ NothingLost

\* The engine has written step s and not yet sent it.
ToSend(s) == s \in unsent \/ (turn # NoTurn /\ turn.step = s /\ turn.at = "saved")

\* Whether a step is on its way, by the sets of the mailbox.
LEMMA WayIs ==
  ASSUME NEW s \in Step
  PROVE  OnItsWay(s) <=> \/ s \in Out \/ ToSend(s)
                         \/ call # NoTurn /\ call.step = s
                         \/ s \in InBox /\ s \notin HasRead
BY DEF OnItsWay, ToSend, Out, InBox, HasRead, ReadBy

\* What a step must do for nothing to be lost by it: only what was begun goes
\* out, what is read is settled, the mailbox keeps what was not read, a step
\* begins with the turn about to send it, and who is to send a step does.
Begins == \A s \in Step :
    (cp'[s].status = "pending" /\ cp[s].status # "pending")
      => cp[s].status = "none" /\ ToSend(s)'
Carries == \A s \in Step :
    /\ s \in Out' \union InBox' => s \in Out \union InBox \/ cp'[s].status # "none"
    /\ s \in HasRead' => s \in HasRead \/ (run' = "live" => cp'[s].status # "pending")
    /\ (s \in Out \union InBox /\ s \notin HasRead) => s \in Out' \union InBox'
    /\ (ToSend(s) /\ cp'[s].status = "pending")
         => ToSend(s)' \/ s \in Out' \/ s \in overlooked'

\* Where a step of the engine carries on what was on its way, nothing is lost.
LEMMA CarriedKept ==
  ASSUME EngineInv, EngineInv', LostInv, policy' = policy, run' = "live" => run = "live",
         overlooked \subseteq overlooked', \A s \in Step : cp'[s].status = "none" => cp[s].status = "none",
         OneAttempt => Begins, Carries
  PROVE  LostInv'
<1>1. OutIsBegun' BY DEF LostInv, OutIsBegun, Carries
<1>2. OneAttempt' <=> OneAttempt BY DEF OneAttempt
<1>3. HasRead \subseteq InBox /\ HasRead' \subseteq Step BY DEF HasRead, InBox, ReadBy, Mine
<1>4. ReadIsSettled'
  <2> SUFFICES ASSUME OneAttempt, run' = "live", NEW s \in HasRead', cp'[s].status = "pending"
               PROVE  FALSE
    BY <1>2 DEF ReadIsSettled
  <2>1. s \in Step /\ s \in HasRead BY <1>3 DEF Carries
  <2>2. cp[s].status # "pending" BY <2>1 DEF LostInv, ReadIsSettled
  <2>3. cp[s].status = "none" BY <2>1, <2>2 DEF Begins
  <2> QED BY <1>3, <2>1, <2>3 DEF LostInv, OutIsBegun
<1>5. ASSUME NEW s \in Step, s \in Out' \/ ToSend(s)' \/ (s \in InBox' /\ s \notin HasRead')
      PROVE  OnItsWay(s)'
  BY <1>5 DEF OnItsWay, ToSend, Out, InBox, HasRead, ReadBy
<1>6. NothingLost'
  <2> SUFFICES ASSUME NEW s \in Step, run' = "live", cp'[s].status = "pending", OneAttempt,
                      s \notin overlooked'
               PROVE  s \in Out' \/ ToSend(s)' \/ (s \in InBox' /\ s \notin HasRead')
    BY <1>2, <1>5 DEF NothingLost
  <2>1. s \notin HasRead' BY <1>2, <1>4 DEF ReadIsSettled
  <2>2. CASE cp[s].status # "pending" BY <2>2 DEF Begins
  <2>3. CASE cp[s].status = "pending"
    <3>1. s \notin HasRead /\ OnItsWay(s) BY <2>3 DEF LostInv, ReadIsSettled, NothingLost
    <3>2. call = NoTurn BY DEF EngineInv, OneAttempt
    <3>3. s \in Out \union InBox \/ ToSend(s) BY <3>1, <3>2, WayIs
    <3> QED BY <2>1, <3>1, <3>3 DEF Carries
  <2> QED BY <2>2, <2>3
<1> QED BY <1>1, <1>4, <1>6 DEF LostInv

\* What the engine's calls do to the tables, seen by step.
LEMMA SentIsOut ==
  ASSUME TransportTypes, NEW s \in Step, NEW g \in Nat, Dispatch(s, g)
  PROVE  Out' = Out \union {s} /\ InBox' = InBox /\ HasRead' = HasRead
BY DispatchMaps DEF Mailbox!Put, Out, InBox, HasRead, ReadBy

\* A result that leaves the box was read, and a handler that throws takes none
\* out.
LEMMA ReadIsHeld ==
  ASSUME TransportTypes, NEW t \in Token, NEW s \in Step, Returned(t, s) \/ Threw(t, s)
  PROVE  /\ Out' \union InBox' \subseteq Out \union InBox
         /\ HasRead' \subseteq HasRead \union {x \in {s} : Returned(t, s)}
         /\ \A x \in Step : x \in Out \union InBox /\ x \notin HasRead => x \in Out' \union InBox'
<1>1. CASE Threw(t, s) BY <1>1, ThrewMaps, InnerLoses
<1>2. CASE Returned(t, s)
  <2>1. CASE Inner BY <2>1, InnerLoses
  <2>2. CASE Mailbox!Read(s)
    BY <1>2, <2>2 DEF Mailbox!Read, Out, InBox, HasRead, ReadBy
  <2> QED BY <1>2, <2>1, <2>2, ReturnedMaps
<1> QED BY <1>1, <1>2

\* A step that the tables do not show.
LEMMA StillTables ==
  ASSUME UNCHANGED transportVars PROVE Out' = Out /\ InBox' = InBox /\ HasRead' = HasRead
BY DEF transportVars, Out, InBox, HasRead, ReadBy

\* No step of the program loses a step on its way.
LEMMA LostKept == ASSUME StepsInv, SeenStays, LostInv, [StepsNext]_stepsVars PROVE LostInv'
<1> USE DEF StepsInv
<1>0. EngineInv' BY StepsKeep
<1>1. ASSUME TransportStep \/ \E i \in Inst : Crash(i), UNCHANGED <<policy, cp, run, overlooked>>,
             \A s \in Step : ToSend(s) => ToSend(s)'
      PROVE  LostInv'
  <2>1. /\ Out' \union InBox' \subseteq Out \union InBox /\ HasRead' \subseteq HasRead
        /\ \A s \in Step : s \in Out \union InBox /\ s \notin HasRead => s \in Out' \union InBox'
    BY <1>1, TransportMaps, InnerLoses
  <2> QED BY <1>0, <1>1, <2>1, CarriedKept DEF Begins, Carries
<1>2. ASSUME UNCHANGED transportVars, UNCHANGED <<policy, cp>>, run' = "live" => run = "live",
             overlooked \subseteq overlooked',
             \A s \in Step : ToSend(s) => ToSend(s)' \/ s \in overlooked'
      PROVE  LostInv'
  <2>1. Out' = Out /\ InBox' = InBox /\ HasRead' = HasRead BY <1>2, StillTables
  <2> QED BY <1>0, <1>2, <2>1, CarriedKept DEF Begins, Carries
<1>3. ASSUME NEW i \in Inst, StepsCrash(i) PROVE LostInv'
  <2>1. \A s \in Step : ToSend(s) => ToSend(s)' BY <1>3 DEF StepsCrash, ToSend, EngineInv, Turn
  <2> QED BY <1>1, <1>3, <2>1 DEF StepsCrash
<1>4. CASE TransportStep /\ UNCHANGED engineVars BY <1>1, <1>4 DEF engineVars, ToSend
<1>5. ASSUME NEW s \in Step,
             OperatorLists(s) \/ \E i \in Inst : Look(i, s)
      PROVE  LostInv'
  BY <1>2, <1>5 DEF OperatorLists, Look, ToSend
<1>6. CASE Park \/ WakeOverDeadTurn \/ UNCHANGED stepsVars
  BY <1>2, <1>6 DEF Park, WakeOverDeadTurn, stepsVars, engineVars, ToSend
<1>7. CASE Decide
  <2>1. /\ UNCHANGED transportVars /\ UNCHANGED <<policy, unsent, overlooked>>
        /\ turn # NoTurn /\ turn.at = "read" /\ turn \in Turn /\ Seen \in Saved
    BY <1>7 DEF Decide, Deciding, EngineInv, Seen
  <2>2. CASE cp' = cp /\ run' \in {run, "failed"}
    BY <1>2, <2>1, <2>2 DEF ToSend, EngineInv
  <2>3. ASSUME NEW row \in Saved, NEW then \in {NoTurn, Sending}, Save(row, then),
               \/ row.status = "pending" /\ cp[turn.step].status = "pending"
               \/ Seen.status = "failed" /\ Seen.attempts < policy.retries
               \/ Seen.status = "none" /\ row.status = "pending" /\ then = Sending,
               row.status # "none"
        PROVE  LostInv'
    <3>1. /\ cp' = [cp EXCEPT ![turn.step] = row] /\ run' = run /\ turn' = then
          /\ turn.step \in Step
      BY <2>1, <2>3 DEF Save, Turn
    <3>2. Out' = Out /\ InBox' = InBox /\ HasRead' = HasRead BY <2>1, StillTables
    <3>3. \A s \in Step : cp'[s].status = "none" => cp[s].status = "none"
      BY <2>3, <3>1 DEF EngineInv
    <3>4. ASSUME OneAttempt PROVE Begins
      <4>1. ~(Seen.status = "failed" /\ Seen.attempts < policy.retries)
        <5>1. ASSUME Seen.status = "failed" PROVE Seen.gen > 0 /\ Seen.gen <= Seen.attempts
                                              /\ Seen.gen \in 0..MaxGen
                                              /\ Seen.attempts \in 0..(MaxGen + RedispatchMax)
          BY <2>1, <5>1 DEF Saved, Checkpoint
        <5> QED BY <3>4, <5>1, TransportAssumption, StepsAssumption DEF OneAttempt
      <4>2. ASSUME cp[turn.step].status # "pending"
            PROVE  cp[turn.step].status = "none" /\ then = Sending
        <5>1. Seen.status = "none" /\ then = Sending BY <2>3, <4>1, <4>2
        <5> QED BY <2>1, <5>1 DEF SeenStays, Seen
      <4>3. Sending \in Turn /\ Sending.step = turn.step /\ Sending.at = "saved"
        BY <2>1 DEF Sending, Turn
      <4>4. \A s \in Step : s = turn.step /\ then = Sending => ToSend(s)'
        BY <3>1, <4>3, NoTurnAssumption DEF ToSend
      <4>5. ASSUME NEW s \in Step, s # turn.step PROVE cp'[s] = cp[s]
        BY <3>1, <4>5 DEF EngineInv
      <4> QED BY <3>1, <4>2, <4>4, <4>5 DEF Begins
    <3>5. Carries BY <2>1, <3>1, <3>2 DEF Carries, ToSend
    <3> QED BY <1>0, <2>1, <3>1, <3>3, <3>4, <3>5, CarriedKept
  <2>4. \/ cp' = cp /\ run' \in {run, "failed"}
        \/ \E row \in Saved, then \in {NoTurn, Sending} :
             /\ Save(row, then) /\ row.status # "none"
             /\ \/ row.status = "pending" /\ cp[turn.step].status = "pending"
                \/ Seen.status = "failed" /\ Seen.attempts < policy.retries
                \/ Seen.status = "none" /\ row.status = "pending" /\ then = Sending
    <3>1. "pending" # "none" /\ "failed" # "none" OBVIOUS
    <3> QED BY <1>7, <3>1, DecideShape
  <2> QED BY <2>2, <2>3, <2>4
<1>8. CASE Send
  <2>1. /\ turn.step \in Step /\ cp[turn.step] \in Saved /\ cp[turn.step].status # "none"
        /\ turn.at = "saved"
    BY <1>8 DEF Send, EngineInv, Turn
  <2>2. cp[turn.step].gen \in Nat BY <2>1 DEF Saved, Checkpoint
  <2>3. Out' = Out \union {turn.step} /\ InBox' = InBox /\ HasRead' = HasRead
    BY <1>8, <2>1, <2>2, SentIsOut DEF Send
  <2>4. Carries BY <1>8, <2>1, <2>3 DEF Carries, ToSend, Send
  <2>5. Begins BY <1>8 DEF Begins, Send
  <2> QED BY <1>0, <1>8, <2>4, <2>5, CarriedKept DEF Send
<1>9. CASE OperatorSends
  <2>1. /\ call.step \in Step /\ call.seen \in Saved /\ call.seen.status = "pending"
        /\ policy.operator
    BY <1>9 DEF OperatorSends, EngineInv
  <2>2. call.seen.gen \in Nat BY <2>1 DEF Saved, Checkpoint
  <2>3. Out' = Out \union {call.step} /\ InBox' = InBox /\ HasRead' = HasRead
    BY <1>9, <2>1, <2>2, SentIsOut DEF OperatorSends
  <2>4. /\ \A x \in Step : cp'[x].status = "none" => cp[x].status = "none"
        /\ cp'[call.step].status # "none"
    <3>1. [call.seen EXCEPT !.attempts = @ + 1].status = "pending"
      BY <2>1 DEF Saved, Checkpoint
    <3> QED BY <1>9, <2>1, <3>1 DEF OperatorSends, EngineInv
  <2>5. Carries BY <1>9, <2>3, <2>4 DEF Carries, ToSend, OperatorSends
  <2>6. ~OneAttempt BY <2>1 DEF OneAttempt
  <2> QED BY <1>0, <1>9, <2>4, <2>5, <2>6, CarriedKept DEF OperatorSends
<1>10. ASSUME NEW s \in Step, Resend(s) PROVE LostInv'
  <2>1. UNCHANGED <<policy, cp, turn, run, overlooked>> /\ unsent' = unsent \ {s}
        /\ turn = NoTurn
    BY <1>10 DEF Resend
  <2>2. CASE cp[s].status = "pending"
    <3>1. cp[s].gen \in Nat BY DEF EngineInv, Saved, Checkpoint
    <3>2. Out' = Out \union {s} /\ InBox' = InBox /\ HasRead' = HasRead
      BY <1>10, <2>2, <3>1, SentIsOut DEF Resend
    <3>3. Carries BY <2>1, <2>2, <3>2 DEF Carries, ToSend
    <3> QED BY <1>0, <2>1, <3>3, CarriedKept DEF Begins
  <2>3. CASE cp[s].status # "pending"
    <3>1. Out' = Out /\ InBox' = InBox /\ HasRead' = HasRead
      BY <1>10, <2>3, StillTables DEF Resend
    <3>2. Carries BY <2>1, <2>3, <3>1 DEF Carries, ToSend
    <3> QED BY <1>0, <2>1, <3>2, CarriedKept DEF Begins
  <2> QED BY <2>2, <2>3
<1>11. ASSUME NEW s \in Step, TimePasses(s) \/ Beat(s) PROVE LostInv'
  <2>1. PICK w \in Wakes : cp' = [cp EXCEPT ![s] = [cp[s] EXCEPT !.wake = w]]
    BY <1>11 DEF TimePasses, Beat, Wakes
  <2>2. \A x \in Step : cp'[x].status = cp[x].status
    BY <2>1 DEF EngineInv, Saved, Checkpoint
  <2>3. UNCHANGED transportVars /\ UNCHANGED <<policy, turn, run, unsent, overlooked>>
    BY <1>11 DEF TimePasses, Beat
  <2>4. Out' = Out /\ InBox' = InBox /\ HasRead' = HasRead BY <2>3, StillTables
  <2>5. Carries BY <2>2, <2>3, <2>4 DEF Carries, ToSend
  <2> QED BY <1>0, <2>2, <2>3, <2>5, CarriedKept DEF Begins
<1>12. ASSUME NEW t \in Token, NEW s \in Step, HandleResult(t, s) PROVE LostInv'
  <2>1. /\ Returned(t, s) \/ Threw(t, s)
        /\ UNCHANGED <<policy, turn, run, unsent, overlooked, call>>
        /\ \/ cp' = cp
           \/ /\ cp[s].status = "pending"
              /\ \E row \in Saved : row.status \in {"completed", "failed"}
                                    /\ cp' = [cp EXCEPT ![s] = row]
        /\ (Returned(t, s) /\ run = "live") => cp'[s].status # "pending"
    BY <1>12, HandleResultShape
  <2>2. /\ Out' \union InBox' \subseteq Out \union InBox
        /\ HasRead' \subseteq HasRead \union {x \in {s} : Returned(t, s)}
        /\ \A x \in Step : x \in Out \union InBox /\ x \notin HasRead => x \in Out' \union InBox'
    BY <2>1, ReadIsHeld
  <2>3. \A x \in Step : cp'[x] = cp[x] \/ cp'[x].status \in {"completed", "failed"}
    BY <2>1 DEF EngineInv
  <2>4. Begins BY <2>3 DEF Begins
  <2>5. Carries BY <2>1, <2>2 DEF Carries, ToSend
  <2> QED BY <1>0, <2>1, <2>3, <2>4, <2>5, CarriedKept
<1> QED BY <1>3, <1>4, <1>5, <1>6, <1>7, <1>8, <1>9, <1>10, <1>11, <1>12 DEF StepsNext

\* Of a step with one attempt, whatever dies, is lost, fails or comes twice: while
\* it is pending it is in the task table or its result is unread in the other, or
\* the engine still has it to send; but for one that no recovery looks at.
THEOREM StepsNothingLost == StepsSpec => []NothingLost
<1> DEFINE I == StepsInv /\ SeenStays /\ LostInv
<1>1. StepsInit => I
  <2> SUFFICES ASSUME StepsInit PROVE I OBVIOUS
  <2>1. Out = {} /\ InBox = {} /\ HasRead = {} /\ \A s \in Step : cp[s].status = "none"
    BY DEF StepsInit, TransportInit, Out, InBox, HasRead, ReadBy, Mine, IsRow, NoCheckpoint
  <2>2. LostInv BY <2>1 DEF LostInv, OutIsBegun, ReadIsSettled, NothingLost
  <2> QED BY <2>2, StepsStart DEF StepsInit, SeenStays
<1>2. I /\ [StepsNext]_stepsVars => I' BY StepsKeep, SeenStaysKept, LostKept
<1>3. I => NothingLost BY DEF LostInv
<1> QED BY <1>1, <1>2, <1>3, PTL DEF StepsSpec
=============================================================================
