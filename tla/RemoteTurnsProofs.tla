-------------------------- MODULE RemoteTurnsProofs --------------------------
(***************************************************************************)
(* Proofs about RemoteTurns, for any instances, calls and turns, and       *)
(* however many messages are lost or come twice, instances die, deadlines  *)
(* pass early or an operator cancels.                                      *)
(*                                                                         *)
(* A decision is applied while its turn is on the row, and a turn that is  *)
(* on the row has not been applied (MarkerOK); the marker is cleared with  *)
(* the application, and no other write brings it back.  Who applies it is  *)
(* the one the lease names (LeaseOK).                                      *)
(*                                                                         *)
(* Of a run none of whose instances dies, CalmInv says that it is never    *)
(* left alone with a result nobody has sent: who has the lease goes on,    *)
(* and who parks it over such a result has asked for another turn.         *)
(***************************************************************************)
EXTENDS RemoteTurns, TLAPS

Act  == [at : Places, turn : TurnIds, hist : SUBSET Call,
         seen : [status : {"pending", "running", "suspended"} \union Terminal,
                 out : BOOLEAN, due : BOOLEAN, mine : BOOLEAN, stamp : BOOLEAN]]
RunRow == [status : {"pending", "running", "suspended"} \union Terminal, turn : TurnIds,
           wake : {"none", "later", "due"}, owner : Inst \union {NoOne, Gone}, stamp : BOOLEAN]

\* The shape of the state.
ShapeOK ==
    /\ setting \in [window : BOOLEAN, reconcile : BOOLEAN, left : [Disturbances -> Nat]]
    /\ row \in RunRow
    /\ cp \in [Call -> {"none", "pending", "settled"}]
    /\ act \in [Inst -> Act]
    /\ \A i \in Inst : act[i].at \in {"enqueue", "claim"} => act[i].turn \in Turn
    /\ queued \subseteq Inst /\ beating \subseteq Inst
    /\ sending \in [Inst -> SUBSET Call] /\ sent \subseteq Call
    /\ task \subseteq Messages /\ decision \subseteq Messages

\* What was read of the journal is in it: a settled call stays settled.
HistoryOK ==
    /\ \A i \in Inst : act[i].hist \subseteq Settled
    /\ \A d \in task \union decision : d.hist \subseteq Settled
    /\ known \subseteq Settled

\* Who has journalled a call is about to send it; what was sent is journalled.
CallsOK == /\ \A i \in Inst : sending[i] # {} => act[i].at = "apply"
           /\ \A i \in Inst : \A c \in sending[i] : cp[c] # "none"
           /\ \A c \in sent : cp[c] # "none"

LeaseOK  == \A i \in Inst : act[i].at \in Holding => row.owner = i
MarkerOK == /\ applied \in [Turn -> {0, 1}]
            /\ row.turn \in Turn => applied[row.turn] = 0

TurnsInv == ShapeOK /\ HistoryOK /\ CallsOK /\ LeaseOK /\ MarkerOK

\* A call of a decision is started: journalled, or sent.
StartCall(i, c) == JournalCall(i, c) \/ SendCall(i, c)

-----------------------------------------------------------------------------
\* At first no turn is out and nobody has the lease.
LEMMA InitTurns == TurnsInit => TurnsInv
<1> SUFFICES ASSUME TurnsInit PROVE TurnsInv OBVIOUS
<1> USE TurnsAssumption DEF TurnsInit
<1>1. ShapeOK
  BY DEF ShapeOK, RunRow, Act, Idle, Unread, Places, Holding, TurnIds, Messages
<1>2. HistoryOK BY DEF HistoryOK, Idle
<1>3. LeaseOK BY DEF LeaseOK, Idle, Holding
<1>4. MarkerOK BY DEF MarkerOK
<1>5. CallsOK BY DEF CallsOK
<1> QED BY <1>1, <1>2, <1>3, <1>4, <1>5 DEF TurnsInv

\* A budget that is spent was not empty.
LEMMA SpendShape ==
  ASSUME ShapeOK, NEW d \in Disturbances, Spend(d)
  PROVE  setting' \in [window : BOOLEAN, reconcile : BOOLEAN, left : [Disturbances -> Nat]]
BY DEF ShapeOK, Spend, Left

\* What an instance does with the run has the same shape wherever it goes.
LEMMA GoesShape ==
  ASSUME ShapeOK, NEW i \in Inst, NEW a \in Act, Does(i, a),
         a.at \in {"enqueue", "claim"} => a.turn \in Turn
  PROVE  /\ act' \in [Inst -> Act]
         /\ \A j \in Inst : act'[j].at \in {"enqueue", "claim"} => act'[j].turn \in Turn
BY DEF ShapeOK, Does

\* The fields of what an instance does, wherever it goes.
LEMMA ActFields ==
  ASSUME NEW a \in Act
  PROVE  /\ \A p \in Places : [a EXCEPT !.at = p] \in Act
         /\ \A p : [a EXCEPT !.at = p].at = p /\ [a EXCEPT !.at = p].hist = a.hist
         /\ \A p, t : [a EXCEPT !.at = p, !.turn = t].at = p
         /\ \A p, h : [a EXCEPT !.at = p, !.hist = h].at = p
         /\ \A p \in Places, h \in SUBSET Call : [a EXCEPT !.at = p, !.hist = h] \in Act
<1>1. \A p \in Places : [a EXCEPT !.at = p] \in Act BY DEF Act
<1>2. \A p : [a EXCEPT !.at = p].at = p /\ [a EXCEPT !.at = p].hist = a.hist BY DEF Act
<1>3. \A p, t : [a EXCEPT !.at = p, !.turn = t].at = p BY DEF Act
<1>4. \A p, h : [a EXCEPT !.at = p, !.hist = h].at = p BY DEF Act
<1>5. \A p \in Places, h \in SUBSET Call : [a EXCEPT !.at = p, !.hist = h] \in Act BY DEF Act
<1> QED BY <1>1, <1>2, <1>3, <1>4, <1>5

\* An instance at rest is one.
LEMMA IdleShape == Idle \in Act /\ Idle.at = "idle"
BY DEF Idle, Unread, Act, Places, Holding, TurnIds

\* Letting go of the lease keeps the row a row.
LEMMA ReleasedShape == ASSUME NEW r \in RunRow, NEW i PROVE Released(r, i) \in RunRow
BY DEF Released, RunRow

\* Starting a call leaves all but the call as it was, or gives the run up.
LEMMA CallStep ==
  ASSUME ShapeOK, NEW i \in Inst, NEW c \in Call, StartCall(i, c)
  PROVE  /\ act[i].at = "apply" /\ Settled' = Settled
         /\ UNCHANGED <<queued, beating, task, decision, applied, known>>
         /\ \/ UNCHANGED <<setting, row, act>>
            \/ Spend("errors") /\ row' = Released(row, i) /\ Does(i, Idle)
<1>1. CASE JournalCall(i, c)
  BY <1>1 DEF JournalCall, ToStart, Settled, ShapeOK, wires, history
<1>2. CASE SendCall(i, c) BY <1>2 DEF SendCall, Settled, history
<1> QED BY <1>1, <1>2 DEF StartCall

\* Every action keeps the state in its shape.
LEMMA ShapeStep == ASSUME ShapeOK, [TurnsNext]_turnsVars PROVE ShapeOK'
<1> USE DEF wires, history, memory
<1>1. ASSUME NEW i \in Inst, ReadRun(i) PROVE ShapeOK'
  <2>1. CASE Ended BY <1>1, <2>1 DEF ReadRun, ShapeOK
  <2>2. CASE ~Ended
    <3> DEFINE seen == [status |-> row.status, out |-> row.turn # NoTurn,
                        due |-> row.turn # NoTurn /\ row.wake = "due", mine |-> row.owner = i,
                        stamp |-> row.stamp]
               a == [Idle EXCEPT !.at = "lock", !.seen = seen]
    <3>1. row.status \in {"pending", "running", "suspended"} \union Terminal
          /\ row.stamp \in BOOLEAN
      BY DEF ShapeOK, RunRow
    <3>2. a \in Act /\ a.at = "lock"
      BY <3>1 DEF Idle, Act, Places, Holding, TurnIds
    <3>3. Does(i, a) BY <1>1, <2>2 DEF ReadRun
    <3>4. /\ act' \in [Inst -> Act]
          /\ \A j \in Inst : act'[j].at \in {"enqueue", "claim"} => act'[j].turn \in Turn
      BY <3>2, <3>3, GoesShape
    <3> QED BY <1>1, <3>4 DEF ReadRun, ShapeOK
  <2> QED BY <2>1, <2>2
<1>2. ASSUME NEW i \in Inst, Lock(i) PROVE ShapeOK'
  <2> DEFINE seen == act[i].seen
             taken == [row EXCEPT !.owner = i, !.stamp = @ /\ ~seen.stamp]
  <2>1. seen \in [status : {"pending", "running", "suspended"} \union Terminal,
                  out : BOOLEAN, due : BOOLEAN, mine : BOOLEAN, stamp : BOOLEAN]
    BY DEF ShapeOK, Act
  <2>2. taken \in RunRow BY <2>1 DEF ShapeOK, RunRow
  <2>3. [Idle EXCEPT !.at = "snapshot"] \in Act /\ [Idle EXCEPT !.at = "snapshot"].at = "snapshot"
    BY IdleShape DEF Act, Places, Holding
  <2>4. [row EXCEPT !.stamp = ~Ended] \in RunRow BY DEF ShapeOK, RunRow, Ended
  <2>5. [taken EXCEPT !.status = "running"] \in RunRow BY <2>2 DEF RunRow
  <2>6. row' \in RunRow
    BY <1>2, <2>2, <2>4, <2>5, ReleasedShape DEF Lock
  <2>7. /\ act' \in [Inst -> Act]
        /\ \A j \in Inst : act'[j].at \in {"enqueue", "claim"} => act'[j].turn \in Turn
    BY <1>2, <2>3, IdleShape, GoesShape DEF Lock
  <2> QED BY <1>2, <2>6, <2>7 DEF Lock, ShapeOK
<1>3. ASSUME NEW i \in Inst, Snapshot(i) PROVE ShapeOK'
  <2>1. /\ [act[i] EXCEPT !.at = "mark", !.hist = Settled] \in Act
        /\ [act[i] EXCEPT !.at = "mark", !.hist = Settled].at = "mark"
    <3>1. act[i] \in Act /\ Settled \in SUBSET Call /\ "mark" \in Places
      BY DEF ShapeOK, Settled, Places, Holding
    <3> QED BY <3>1, ActFields
  <2> QED BY <1>3, <2>1, GoesShape DEF Snapshot, ShapeOK
<1>4. ASSUME NEW i \in Inst, Mark(i) PROVE ShapeOK'
  <2>1. CASE Closed
    BY <1>4, <2>1, IdleShape, GoesShape, ReleasedShape DEF Mark, ShapeOK
  <2>2. CASE ~Closed
    <3>1. PICK t \in Turn :
            /\ row' = Released([row EXCEPT !.status = "suspended", !.turn = t,
                                  !.wake = IF setting.window THEN "later" ELSE "none"], i)
            /\ Does(i, [act[i] EXCEPT !.at = "enqueue", !.turn = t])
      BY <1>4, <2>2 DEF Mark
    <3>2. [row EXCEPT !.status = "suspended", !.turn = t,
                      !.wake = IF setting.window THEN "later" ELSE "none"] \in RunRow
      BY DEF ShapeOK, RunRow, TurnIds
    <3>3. /\ [act[i] EXCEPT !.at = "enqueue", !.turn = t] \in Act
          /\ [act[i] EXCEPT !.at = "enqueue", !.turn = t].turn = t
      BY ZenonT(60) DEF ShapeOK, Act, TurnIds, Places
    <3> QED BY <1>4, <3>1, <3>2, <3>3, ReleasedShape, GoesShape DEF Mark, ShapeOK
  <2> QED BY <2>1, <2>2
<1>5. ASSUME NEW i \in Inst, Enqueue(i) PROVE ShapeOK'
  <2>1. [turn |-> act[i].turn, hist |-> act[i].hist] \in Messages
    BY <1>5 DEF Enqueue, ShapeOK, Act, Messages
  <2>2. [row EXCEPT !.status = "failed", !.turn = NoTurn, !.wake = "none"] \in RunRow
    BY DEF ShapeOK, RunRow, TurnIds, Terminal
  <2>3. task' \subseteq Messages /\ row' \in RunRow
    BY <1>5, <2>1, <2>2 DEF Enqueue, ShapeOK
  <2>4. setting' \in [window : BOOLEAN, reconcile : BOOLEAN, left : [Disturbances -> Nat]]
    BY <1>5, SpendShape DEF Enqueue, ShapeOK, Disturbances
  <2> QED BY <1>5, <2>3, <2>4, IdleShape, GoesShape DEF Enqueue, ShapeOK
<1>6. ASSUME NEW t \in decision \union task, Replay(t) \/ Lose(t) PROVE ShapeOK'
  <2>1. setting' \in [window : BOOLEAN, reconcile : BOOLEAN, left : [Disturbances -> Nat]]
    BY <1>6, SpendShape DEF Replay, Lose, ShapeOK, Disturbances
  <2> QED BY <1>6, <2>1 DEF Replay, Lose, ShapeOK
<1>7. ASSUME NEW i \in Inst, NEW d \in decision, Receive(i, d) PROVE ShapeOK'
  <2>1. setting' \in [window : BOOLEAN, reconcile : BOOLEAN, left : [Disturbances -> Nat]]
    BY <1>7, SpendShape DEF Receive, ShapeOK, Disturbances
  <2>2. CASE Awaits(d)
    <3> DEFINE a == [Idle EXCEPT !.at = "claim", !.turn = d.turn, !.hist = d.hist]
    <3>1. a \in Act /\ a.turn \in Turn
      BY IdleShape DEF ShapeOK, Messages, Act, Places, Holding, TurnIds
    <3>2. row' \in RunRow BY <1>7, <2>2 DEF Receive, ShapeOK, RunRow
    <3>3. Does(i, a) BY <1>7, <2>2 DEF Receive
    <3> HIDE DEF a
    <3> QED BY <1>7, <2>1, <3>1, <3>2, <3>3, GoesShape DEF Receive, ShapeOK
  <2>3. CASE ~Awaits(d) BY <1>7, <2>1, <2>3 DEF Receive, ShapeOK
  <2> QED BY <2>2, <2>3
<1>8. ASSUME NEW i \in Inst, ClaimTurn(i) PROVE ShapeOK'
  <2>1. CASE Awaits(act[i])
    <3>1. [row EXCEPT !.status = "running", !.turn = NoTurn, !.wake = "none"] \in RunRow
      BY DEF ShapeOK, RunRow, TurnIds
    <3>2. /\ [act[i] EXCEPT !.at = "apply", !.turn = NoTurn] \in Act
          /\ [act[i] EXCEPT !.at = "apply", !.turn = NoTurn].at = "apply"
      <4>1. act[i] \in Act /\ "apply" \in Places BY DEF ShapeOK, Places, Holding
      <4> QED BY <4>1, ActFields DEF Act, TurnIds
    <3> QED BY <1>8, <2>1, <3>1, <3>2, GoesShape DEF ClaimTurn, ShapeOK
  <2>2. CASE ~Awaits(act[i])
    BY <1>8, <2>2, IdleShape, GoesShape, ReleasedShape DEF ClaimTurn, ShapeOK
  <2> QED BY <2>1, <2>2
<1>9. ASSUME NEW i \in Inst, NEW c \in Call, StartCall(i, c) PROVE ShapeOK'
  <2>1. CASE JournalCall(i, c) BY <2>1 DEF JournalCall, ShapeOK
  <2>2. CASE SendCall(i, c)
    <3>1. setting' \in [window : BOOLEAN, reconcile : BOOLEAN, left : [Disturbances -> Nat]]
      BY <2>2, SpendShape DEF SendCall, ShapeOK, Disturbances
    <3>2. sending' \in [Inst -> SUBSET Call] /\ sent' \subseteq Call
      BY <2>2 DEF SendCall, ShapeOK
    <3>3. row' \in RunRow BY <2>2, ReleasedShape DEF SendCall, ShapeOK
    <3>4. /\ act' \in [Inst -> Act]
          /\ \A j \in Inst : act'[j].at \in {"enqueue", "claim"} => act'[j].turn \in Turn
      BY <2>2, IdleShape, GoesShape DEF SendCall, ShapeOK
    <3> QED BY <2>2, <3>1, <3>2, <3>3, <3>4 DEF SendCall, ShapeOK
  <2> QED BY <1>9, <2>1, <2>2 DEF StartCall
<1>10. ASSUME NEW i \in Inst, SettleDecision(i) PROVE ShapeOK'
  <2>1. row' \in RunRow
    BY <1>10 DEF SettleDecision, ShapeOK, RunRow, Terminal
  <2>2. [act[i] EXCEPT !.at = "let go"] \in Act /\ [act[i] EXCEPT !.at = "let go"].at = "let go"
    <3>1. act[i] \in Act /\ "let go" \in Places BY DEF ShapeOK, Places, Holding
    <3> QED BY <3>1, ActFields
  <2> QED BY <1>10, <2>1, <2>2, GoesShape DEF SettleDecision, Goes, ShapeOK
<1>11. ASSUME NEW i \in Inst, LetGo(i) PROVE ShapeOK'
  <2>1. [act[i] EXCEPT !.at = "recheck"] \in Act /\ [act[i] EXCEPT !.at = "recheck"].at = "recheck"
    <3>1. act[i] \in Act /\ "recheck" \in Places BY DEF ShapeOK, Places
    <3> QED BY <3>1, ActFields
  <2>2. row' \in RunRow BY <1>11, ReleasedShape DEF LetGo, ShapeOK
  <2>3. /\ act' \in [Inst -> Act]
        /\ \A j \in Inst : act'[j].at \in {"enqueue", "claim"} => act'[j].turn \in Turn
    BY <1>11, <2>1, IdleShape, GoesShape DEF LetGo, Goes
  <2> QED BY <1>11, <2>2, <2>3 DEF LetGo, ShapeOK
<1>12. ASSUME NEW i \in Inst, Recheck(i) PROVE ShapeOK'
  BY <1>12, IdleShape, GoesShape DEF Recheck, Resume, ShapeOK
<1>13. ASSUME NEW i \in Inst, NEW c \in Call, Result(i, c) PROVE ShapeOK'
  <2>1. setting' \in [window : BOOLEAN, reconcile : BOOLEAN, left : [Disturbances -> Nat]]
    BY <1>13, SpendShape DEF Result, ShapeOK, Disturbances
  <2>2. cp' \in [Call -> {"none", "pending", "settled"}] BY <1>13 DEF Result, ShapeOK
  <2> QED BY <1>13, <2>1, <2>2 DEF Result, Resume, ShapeOK
<1>14. ASSUME NEW i \in Inst, Poll(i) \/ Recover(i) PROVE ShapeOK'
  <2>1. row' \in RunRow BY <1>14, ZenonT(60) DEF Poll, Recover, ShapeOK, RunRow
  <2> QED BY <1>14, <2>1 DEF Poll, Recover, Resume, ShapeOK
<1>15. ASSUME NEW i \in Inst, BeatRead(i) \/ BeatWrite(i) PROVE ShapeOK'
  <2>1. setting' \in [window : BOOLEAN, reconcile : BOOLEAN, left : [Disturbances -> Nat]]
    BY <1>15, SpendShape DEF BeatRead, BeatWrite, ShapeOK, Disturbances
  <2>2. row' \in RunRow BY <1>15 DEF BeatRead, BeatWrite, ShapeOK, RunRow
  <2> QED BY <1>15, <2>1, <2>2 DEF BeatRead, BeatWrite, ShapeOK
<1>16. ASSUME NEW i \in Inst, Crash(i) PROVE ShapeOK'
  <2>1. setting' \in [window : BOOLEAN, reconcile : BOOLEAN, left : [Disturbances -> Nat]]
    BY <1>16, SpendShape DEF Crash, Disturbances
  <2>2. row' \in RunRow BY <1>16 DEF Crash, ShapeOK, RunRow
  <2> QED BY <1>16, <2>1, <2>2, IdleShape, GoesShape DEF Crash, ShapeOK
<1>17. CASE WakeDue \/ LeaseLapses \/ Cancel
  <2>1. setting' \in [window : BOOLEAN, reconcile : BOOLEAN, left : [Disturbances -> Nat]]
    BY <1>17, SpendShape DEF WakeDue, LeaseLapses, Cancel, ShapeOK, Disturbances
  <2>2. row' \in RunRow BY <1>17 DEF WakeDue, LeaseLapses, Cancel, ShapeOK, RunRow, TurnIds, Terminal
  <2> QED BY <1>17, <2>1, <2>2 DEF WakeDue, LeaseLapses, Cancel, ShapeOK
<1>18. CASE UNCHANGED turnsVars BY <1>18 DEF turnsVars, ShapeOK
<1> QED
  BY <1>1, <1>2, <1>3, <1>4, <1>5, <1>6, <1>7, <1>8, <1>9, <1>10, <1>11, <1>12, <1>13, <1>14,
     <1>15, <1>16, <1>17, <1>18 DEF TurnsNext, InstStep, StartCall
-----------------------------------------------------------------------------
\* No step takes a settled call back.
LEMMA SettledGrows ==
  ASSUME ShapeOK, [TurnsNext]_turnsVars
  PROVE  Settled \subseteq Settled'
<1> USE DEF wires, history, memory, Settled
<1>1. ASSUME NEW i \in Inst, InstStep(i) PROVE Settled \subseteq Settled'
  <2>1. ASSUME NEW c \in Call, StartCall(i, c) PROVE Settled \subseteq Settled'
    BY <2>1, CallStep
  <2> QED
    BY <1>1, <2>1 DEF InstStep, StartCall, ReadRun, Lock, Snapshot, Mark, Enqueue, ClaimTurn,
                     SettleDecision, LetGo, Recheck
<1>2. ASSUME NEW i \in Inst, NEW c \in Call, Result(i, c) PROVE Settled \subseteq Settled'
  BY <1>2 DEF Result, ShapeOK
<1> QED
  BY <1>1, <1>2 DEF TurnsNext, turnsVars, Poll, Recover, BeatRead, BeatWrite, Crash, Receive,
                    Replay, Lose, WakeDue, LeaseLapses, Cancel

\* A history that is sent, received or prepared names settled calls.
LEMMA HistoryStep ==
  ASSUME ShapeOK, HistoryOK, [TurnsNext]_turnsVars
  PROVE  HistoryOK'
<1> USE DEF wires, history, memory, ShapeOK
<1>0. Settled \subseteq Settled' BY SettledGrows
<1>1. ASSUME NEW i \in Inst, NEW a, a.hist \subseteq Settled', Does(i, a)
      PROVE  \A j \in Inst : act'[j].hist \subseteq Settled'
  BY <1>0, <1>1 DEF Does, HistoryOK
<1>2. Idle \in Act /\ Idle.hist \subseteq Settled' BY IdleShape DEF Idle
<1>3. CASE act' = act /\ task' \subseteq task \union decision
           /\ decision' \subseteq task \union decision /\ known' = known
  BY <1>0, <1>3 DEF HistoryOK
<1>4. ASSUME NEW i \in Inst, ReadRun(i) \/ Lock(i) \/ Snapshot(i) \/ Mark(i) PROVE HistoryOK'
  <2>1. CASE act' = act BY <1>4, <1>3, <2>1 DEF ReadRun, Lock, Snapshot, Mark
  <2>2. CASE act' # act
    <3>1. \A j \in Inst : act'[j].hist \subseteq Settled'
      <4>1. CASE ReadRun(i)
        <5> DEFINE seen == [status |-> row.status, out |-> row.turn # NoTurn,
                            due |-> row.turn # NoTurn /\ row.wake = "due", mine |-> row.owner = i,
                            stamp |-> row.stamp]
                   a == [Idle EXCEPT !.at = "lock", !.seen = seen]
        <5>1. Does(i, a) BY <2>2, <4>1 DEF ReadRun
        <5>2. a.hist = {} BY DEF Idle
        <5> HIDE DEF a
        <5> QED BY <1>1, <5>1, <5>2
      <4>2. CASE Lock(i)
        <5>1. [Idle EXCEPT !.at = "snapshot"].hist = {} BY DEF Idle
        <5> QED BY <1>1, <1>2, <4>2, <5>1 DEF Lock
      <4>3. CASE Snapshot(i)
        <5>1. [act[i] EXCEPT !.at = "mark", !.hist = Settled].hist = Settled BY DEF Act
        <5> QED BY <1>0, <1>1, <4>3, <5>1 DEF Snapshot
      <4>4. CASE Mark(i)
        <5>1. \A t : [act[i] EXCEPT !.at = "enqueue", !.turn = t].hist = act[i].hist BY DEF Act
        <5>2. act[i].hist \subseteq Settled' BY <1>0 DEF HistoryOK
        <5> QED BY <1>1, <1>2, <4>4, <5>1, <5>2 DEF Mark
      <4> QED BY <1>4, <4>1, <4>2, <4>3, <4>4
    <3>2. UNCHANGED <<task, decision, known>> BY <1>4 DEF ReadRun, Lock, Snapshot, Mark
    <3> QED BY <1>0, <3>1, <3>2 DEF HistoryOK
  <2> QED BY <2>1, <2>2
<1>5. ASSUME NEW i \in Inst, Enqueue(i) PROVE HistoryOK'
  <2>1. act[i].hist \subseteq Settled BY DEF HistoryOK
  <2>2. \A j \in Inst : act'[j].hist \subseteq Settled' BY <1>1, <1>2, <1>5 DEF Enqueue
  <2>3. \A d \in task' : d.hist \subseteq Settled'
    BY <1>0, <1>5, <2>1 DEF Enqueue, HistoryOK
  <2> QED BY <1>0, <1>5, <2>2, <2>3 DEF Enqueue, HistoryOK
<1>6. ASSUME NEW i \in Inst, NEW d \in decision, Receive(i, d) PROVE HistoryOK'
  <2>1. \A j \in Inst : act'[j].hist \subseteq Settled'
    <3>1. CASE Awaits(d)
      <4> DEFINE a == [Idle EXCEPT !.at = "claim", !.turn = d.turn, !.hist = d.hist]
      <4>1. Does(i, a) BY <1>6, <3>1 DEF Receive
      <4>2. a.hist \subseteq Settled' BY <1>0 DEF Idle, HistoryOK
      <4> HIDE DEF a
      <4> QED BY <1>1, <4>1, <4>2
    <3>2. CASE ~Awaits(d) BY <1>0, <1>6, <3>2 DEF Receive, HistoryOK
    <3> QED BY <3>1, <3>2
  <2> QED BY <1>0, <1>6, <2>1 DEF Receive, HistoryOK
<1>7. ASSUME NEW i \in Inst, ClaimTurn(i) PROVE HistoryOK'
  <2>1. \A j \in Inst : act'[j].hist \subseteq Settled'
    <3>1. [act[i] EXCEPT !.at = "apply", !.turn = NoTurn].hist \subseteq Settled'
      BY <1>0 DEF Act, HistoryOK
    <3> QED BY <1>1, <1>2, <1>7, <3>1 DEF ClaimTurn
  <2>2. known' \subseteq Settled' BY <1>0, <1>7 DEF ClaimTurn, HistoryOK
  <2> QED BY <1>0, <1>7, <2>1, <2>2 DEF ClaimTurn, HistoryOK
<1>8. ASSUME NEW i \in Inst, SettleDecision(i) \/ LetGo(i) \/ Recheck(i) \/ Crash(i)
      PROVE  HistoryOK'
  <2>1. \A j \in Inst : act'[j].hist \subseteq Settled'
    <3>1. \A p : [act[i] EXCEPT !.at = p].hist \subseteq Settled'
      BY <1>0 DEF Act, HistoryOK
    <3> QED BY <1>1, <1>2, <1>8, <3>1 DEF SettleDecision, LetGo, Recheck, Crash, Goes
  <2> QED BY <1>0, <1>8, <2>1 DEF SettleDecision, LetGo, Recheck, Crash, HistoryOK
<1>9. ASSUME NEW i \in Inst, NEW c \in Call, StartCall(i, c) PROVE HistoryOK'
  BY <1>0, <1>1, <1>2, <1>9, CallStep DEF HistoryOK
<1> QED
  BY <1>3, <1>4, <1>5, <1>6, <1>7, <1>8, <1>9
  DEF TurnsNext, InstStep, turnsVars, StartCall, Result, Poll, Recover, BeatRead, BeatWrite,
      Replay, Lose, WakeDue, LeaseLapses, Cancel

\* Who holds the run keeps the lease: nobody else takes one that is not free.
LEMMA LeaseStep ==
  ASSUME ShapeOK, LeaseOK, [TurnsNext]_turnsVars
  PROVE  LeaseOK'
<1> USE TurnsAssumption DEF wires, history, memory, ShapeOK
<1> SUFFICES ASSUME NEW j \in Inst, act'[j].at \in Holding PROVE row'.owner = j
  BY DEF LeaseOK
<1>a. ASSUME NEW a, a.at \notin Holding, Does(j, a) PROVE FALSE
  BY <1>a DEF Does
<1>b. Idle.at \notin Holding BY DEF Idle, Holding
<1>e. act[j] \in Act OBVIOUS
<1>f. "enqueue" \notin Holding /\ "recheck" \notin Holding BY DEF Holding
<1>c. \A t : [act[j] EXCEPT !.at = "enqueue", !.turn = t].at \notin Holding
  <2>1. \A t : [act[j] EXCEPT !.at = "enqueue", !.turn = t].at = "enqueue" BY <1>e, ActFields
  <2> QED BY <1>f, <2>1
<1>d. [act[j] EXCEPT !.at = "recheck"].at \notin Holding
  <2>1. [act[j] EXCEPT !.at = "recheck"].at = "recheck" BY <1>e, ActFields
  <2> QED BY <1>f, <2>1
<1>1. CASE act'[j] = act[j]
  <2>1. row.owner = j BY <1>1 DEF LeaseOK
  <2>2. ASSUME NEW i \in Inst, i # j PROVE Released(row, i) = row /\ ~Free
    BY <2>1, <2>2 DEF Released, Free
  <2>3. ASSUME NEW i \in Inst, InstStep(i) PROVE row'.owner = j
    <3>1. CASE i = j
      <4>1. ASSUME NEW c \in Call, StartCall(i, c) PROVE row'.owner = j
        BY <1>a, <1>b, <2>1, <3>1, <4>1, CallStep
      <4>2. CASE Lock(i)
        BY <1>1, <3>1, <4>2 DEF Lock, Does, Idle, Holding
      <4>3. CASE Mark(i) \/ LetGo(i)
        BY <1>a, <1>b, <1>c, <1>d, <3>1, <4>3 DEF Mark, LetGo, Goes
      <4>4. CASE ClaimTurn(i)
        BY <1>a, <1>b, <2>1, <3>1, <4>4 DEF ClaimTurn, RunRow
      <4>5. CASE ReadRun(i) \/ Snapshot(i) \/ Enqueue(i) \/ SettleDecision(i) \/ Recheck(i)
        BY <2>1, <4>5 DEF ReadRun, Snapshot, Enqueue, SettleDecision, Recheck, RunRow
      <4> QED BY <2>3, <4>1, <4>2, <4>3, <4>4, <4>5 DEF InstStep, StartCall
    <3>2. CASE i # j
      <4>1. ASSUME NEW c \in Call, StartCall(i, c) PROVE row'.owner = j
        BY <2>1, <2>2, <3>2, <4>1, CallStep
      <4>2. CASE Lock(i) BY <2>1, <2>2, <3>2, <4>2 DEF Lock, RunRow, Free
      <4>3. CASE Mark(i) BY <2>1, <3>2, <4>3 DEF Mark, RunRow, Released
      <4>4. CASE ~Lock(i) /\ ~Mark(i)
        BY <2>1, <2>2, <2>3, <3>2, <4>1, <4>4
        DEF InstStep, StartCall, ReadRun, Snapshot, Enqueue, ClaimTurn, SettleDecision, LetGo,
            Recheck, RunRow
      <4> QED BY <4>2, <4>3, <4>4
    <3> QED BY <3>1, <3>2
  <2>4. ASSUME NEW i \in Inst, Poll(i) \/ Recover(i) \/ BeatRead(i) \/ BeatWrite(i)
        PROVE  row'.owner = j
    BY <2>1, <2>4 DEF Poll, Recover, BeatRead, BeatWrite, Free, RunRow
  <2>5. ASSUME NEW i \in Inst, NEW d \in decision, Receive(i, d) PROVE row'.owner = j
    BY <1>1, <2>1, <2>5 DEF Receive, Free, RunRow, Does, Idle, Holding, Act
  <2>6. ASSUME NEW i \in Inst, Crash(i) PROVE row'.owner = j
    BY <1>1, <2>1, <2>6 DEF Crash, Does, Idle, Holding, Act, RunRow
  <2> QED
    BY <2>1, <2>3, <2>4, <2>5, <2>6
    DEF TurnsNext, turnsVars, Result, Replay, Lose, WakeDue, LeaseLapses, Cancel, RunRow
<1>2. CASE act'[j] # act[j]
  <2>1. CASE InstStep(j)
    <3>1. CASE Lock(j)
      <4>1. CASE act' = [act EXCEPT ![j] = Idle] BY <4>1 DEF Idle, Holding
      <4>2. CASE act' # [act EXCEPT ![j] = Idle]
        <5> DEFINE taken == [row EXCEPT !.owner = j, !.stamp = @ /\ ~act[j].seen.stamp]
        <5>1. row' \in {taken, [taken EXCEPT !.status = "running"]}
          BY <3>1, <4>2 DEF Lock, Does
        <5> QED BY <5>1 DEF RunRow
      <4> QED BY <4>1, <4>2
    <3>2. CASE Snapshot(j) \/ SettleDecision(j)
      <4>1. row.owner = j
        BY <3>2 DEF Snapshot, SettleDecision, Holding, LeaseOK
      <4> QED BY <3>2, <4>1 DEF Snapshot, SettleDecision, RunRow
    <3>3. CASE ClaimTurn(j)
      <4>1. row.owner = j BY <3>3 DEF ClaimTurn, Holding, LeaseOK
      <4>2. CASE Awaits(act[j]) BY <3>3, <4>1, <4>2 DEF ClaimTurn, RunRow
      <4>3. CASE ~Awaits(act[j]) BY <1>a, <1>b, <3>3, <4>3 DEF ClaimTurn
      <4> QED BY <4>2, <4>3
    <3>4. CASE ReadRun(j)
      <4> DEFINE seen == [status |-> row.status, out |-> row.turn # NoTurn,
                          due |-> row.turn # NoTurn /\ row.wake = "due", mine |-> row.owner = j,
                          stamp |-> row.stamp]
                 a == [Idle EXCEPT !.at = "lock", !.seen = seen]
      <4>1. Does(j, a) BY <1>2, <3>4 DEF ReadRun
      <4>2. a.at \notin Holding BY DEF Idle, Holding
      <4> HIDE DEF a
      <4> QED BY <1>a, <4>1, <4>2
    <3>5. CASE Mark(j) \/ Enqueue(j) \/ LetGo(j) \/ Recheck(j)
      BY <1>a, <1>b, <1>c, <1>d, <3>5 DEF Mark, Enqueue, LetGo, Recheck, Goes
    <3>6. ASSUME NEW c \in Call, StartCall(j, c) PROVE row'.owner = j
      BY <1>2, <1>a, <1>b, <3>6, CallStep
    <3> QED BY <1>2, <2>1, <3>1, <3>2, <3>3, <3>4, <3>5, <3>6 DEF InstStep, StartCall
  <2>2. ASSUME NEW d \in decision, Receive(j, d) PROVE row'.owner = j
    BY <1>2, <2>2 DEF Receive, Does, RunRow
  <2>3. CASE Crash(j) BY <2>3 DEF Crash, Does, Idle, Holding
  <2>4. ASSUME NEW i \in Inst, i # j PROVE ~InstStep(i) /\ ~Crash(i)
                                           /\ \A d \in decision : ~Receive(i, d)
    BY <1>2, <2>4
    DEF InstStep, ReadRun, Lock, Snapshot, Mark, Enqueue, ClaimTurn, SettleDecision, LetGo,
        Recheck, JournalCall, SendCall, Crash, Receive, Does, Goes
  <2> QED
    BY <1>2, <2>1, <2>2, <2>3, <2>4
    DEF TurnsNext, turnsVars, Result, Poll, Recover, BeatRead, BeatWrite, Replay, Lose, WakeDue,
        LeaseLapses, Cancel
<1> QED BY <1>1, <1>2

\* A turn that is marked is new, and the marker goes when it is applied.
LEMMA MarkerStep ==
  ASSUME ShapeOK, MarkerOK, [TurnsNext]_turnsVars
  PROVE  MarkerOK'
<1> USE TurnsAssumption DEF wires, history, memory
<1>1. ASSUME NEW i \in Inst, Mark(i) PROVE MarkerOK'
  <2>1. CASE Closed BY <1>1, <2>1 DEF Mark, MarkerOK, ShapeOK, RunRow, Released
  <2>2. ASSUME NEW t \in Turn, Fresh(t), row'.turn = t,
               applied' = [u \in Turn |-> IF u \in InUse THEN applied[u] ELSE 0]
        PROVE  MarkerOK'
    <3>1. t \notin InUse BY <2>2 DEF Fresh
    <3> QED BY <2>2, <3>1 DEF MarkerOK
  <2>3. CASE ~Closed
    <3>1. PICK t \in Turn :
             /\ Fresh(t)
             /\ row' = Released([row EXCEPT !.status = "suspended", !.turn = t,
                                    !.wake = IF setting.window THEN "later" ELSE "none"], i)
             /\ applied' = [u \in Turn |-> IF u \in InUse THEN applied[u] ELSE 0]
      BY <1>1, <2>3 DEF Mark
    <3>2. row'.turn = t BY <3>1 DEF Released, ShapeOK, RunRow
    <3> QED BY <2>2, <3>1, <3>2
  <2> QED BY <2>1, <2>3
<1>2. CASE applied' = applied /\ (row'.turn = row.turn \/ row'.turn = NoTurn)
  BY <1>2 DEF MarkerOK
<1>3. ASSUME NEW i \in Inst, ClaimTurn(i) PROVE MarkerOK'
  <2>1. CASE Awaits(act[i])
    <3>1. row.turn \in Turn /\ act[i].turn = row.turn
      BY <2>1 DEF Awaits, ShapeOK, RunRow, TurnIds
    <3>2. applied' = [applied EXCEPT ![row.turn] = 1]
      BY <1>3, <2>1, <3>1 DEF ClaimTurn, MarkerOK
    <3>3. row'.turn = NoTurn BY <1>3, <2>1 DEF ClaimTurn, ShapeOK, RunRow
    <3> QED BY <3>1, <3>2, <3>3 DEF MarkerOK
  <2>2. CASE ~Awaits(act[i]) BY <1>2, <1>3, <2>2 DEF ClaimTurn, Released, ShapeOK, RunRow
  <2> QED BY <2>1, <2>2
<1>4. ASSUME NEW i \in Inst, InstStep(i) PROVE MarkerOK'
  <2>1. ASSUME NEW c \in Call, StartCall(i, c) PROVE MarkerOK'
    BY <1>2, <2>1, CallStep DEF Released, ShapeOK, RunRow
  <2>2. CASE Lock(i) BY <1>2, <2>2 DEF Lock, Released, ShapeOK, RunRow
  <2>3. CASE Enqueue(i) BY <1>2, <2>3 DEF Enqueue, ShapeOK, RunRow
  <2>4. CASE ReadRun(i) \/ Snapshot(i) \/ SettleDecision(i) \/ LetGo(i) \/ Recheck(i)
    BY <1>2, <2>4
    DEF ReadRun, Snapshot, SettleDecision, LetGo, Recheck, Released, ShapeOK, RunRow
  <2> QED BY <1>1, <1>3, <1>4, <2>1, <2>2, <2>3, <2>4 DEF InstStep, StartCall
<1>5. ASSUME NEW i \in Inst, NEW d \in decision, Receive(i, d) PROVE MarkerOK'
  BY <1>2, <1>5 DEF Receive, ShapeOK, RunRow
<1>6. ASSUME NEW i \in Inst, Poll(i) \/ Recover(i) \/ BeatRead(i) \/ BeatWrite(i) \/ Crash(i)
      PROVE  MarkerOK'
  BY <1>2, <1>6 DEF Poll, Recover, BeatRead, BeatWrite, Crash, ShapeOK, RunRow
<1> QED
  BY <1>2, <1>4, <1>5, <1>6
  DEF TurnsNext, turnsVars, Result, Replay, Lose, WakeDue, LeaseLapses, Cancel, ShapeOK, RunRow

\* A call is journalled before it is sent, by an instance that stays until it is.
LEMMA CallsStep ==
  ASSUME ShapeOK, CallsOK, [TurnsNext]_turnsVars
  PROVE  CallsOK'
<1> USE DEF ShapeOK, wires, history, memory
<1>0. \A c \in Call : cp[c] # "none" => cp'[c] # "none"
  <2>1. \A c \in Call : cp'[c] = cp[c] \/ cp'[c] \in {"pending", "settled"}
    BY DEF TurnsNext, turnsVars, InstStep, ReadRun, Lock, Snapshot, Mark, Enqueue, ClaimTurn,
           SettleDecision, LetGo, Recheck, JournalCall, SendCall, Poll, Recover, BeatRead,
           BeatWrite, Crash, Receive, Result, Replay, Lose, WakeDue, LeaseLapses, Cancel
  <2> QED BY <2>1
<1>1. CASE sending' = sending /\ sent' = sent
           /\ \A i \in Inst : act'[i] = act[i] \/ act[i].at # "apply"
  BY <1>0, <1>1 DEF CallsOK
<1>2. ASSUME NEW i \in Inst, NEW c \in Call, JournalCall(i, c) PROVE CallsOK'
  BY <1>0, <1>2 DEF JournalCall, CallsOK
<1>3. ASSUME NEW i \in Inst, NEW c \in Call, SendCall(i, c) PROVE CallsOK'
  <2>1. /\ \A j \in Inst : j # i => sending'[j] = sending[j] /\ act'[j] = act[j]
        /\ sending'[i] = {} /\ sent' \subseteq sent \union {c} /\ c \in sending[i]
    BY <1>3 DEF SendCall, Does
  <2> QED BY <1>0, <2>1 DEF CallsOK
<1>4. ASSUME NEW i \in Inst, SettleDecision(i) PROVE CallsOK'
  BY <1>0, <1>4 DEF SettleDecision, CallsOK, Goes, Does
<1>5. ASSUME NEW i \in Inst, Crash(i) PROVE CallsOK'
  BY <1>0, <1>5 DEF Crash, CallsOK, Does
<1>6. ASSUME NEW i \in Inst,
             \/ ReadRun(i) \/ Lock(i) \/ Snapshot(i) \/ Mark(i) \/ Enqueue(i)
             \/ ClaimTurn(i) \/ LetGo(i) \/ Recheck(i)
      PROVE  CallsOK'
  BY <1>1, <1>6 DEF ReadRun, Lock, Snapshot, Mark, Enqueue, ClaimTurn, LetGo, Recheck, Does, Goes
<1>7. ASSUME NEW i \in Inst, NEW d \in decision, Receive(i, d) PROVE CallsOK'
  BY <1>1, <1>7 DEF Receive, Does
<1> QED
  BY <1>1, <1>2, <1>3, <1>4, <1>5, <1>6, <1>7
  DEF TurnsNext, InstStep, turnsVars, Poll, Recover, BeatRead, BeatWrite, Result, Replay, Lose,
      WakeDue, LeaseLapses, Cancel

\* So the invariant is inductive.
LEMMA TurnsStep == ASSUME TurnsInv, [TurnsNext]_turnsVars PROVE TurnsInv'
BY ShapeStep, HistoryStep, CallsStep, LeaseStep, MarkerStep DEF TurnsInv

\* At every step the run's row, the instances and the messages are of their
\* kinds, nobody remembers a call as settled that is not, and an instance that
\* prepares a turn or applies a decision is the one the lease names.
THEOREM TurnTypes == TurnsSpec => []TurnsTypeOK
<1>1. TurnsInv => TurnsTypeOK
  BY DEF TurnsInv, ShapeOK, HistoryOK, CallsOK, LeaseOK, TurnsTypeOK, RunRow, Act
<1> QED BY <1>1, InitTurns, TurnsStep, PTL DEF TurnsSpec

\* A turn's decision is applied at most once, and by one instance at a time,
\* however it is delivered, whoever dies and whatever comes late: it is looked
\* at again under the lease, and clears the marker it looked at.
THEOREM DecisionsAppliedOnce == TurnsSpec => []AppliedOnce
<1>1. TurnsInv => AppliedOnce
  <2> SUFFICES ASSUME TurnsInv PROVE AppliedOnce OBVIOUS
  <2>1. \A t \in Turn : applied[t] <= 1 BY DEF TurnsInv, MarkerOK
  <2>2. \A i, j \in Inst : act[i].at = "apply" /\ act[j].at = "apply" => i = j
    BY DEF TurnsInv, LeaseOK, Holding
  <2> QED BY <2>1, <2>2 DEF AppliedOnce
<1> QED BY <1>1, InitTurns, TurnsStep, PTL DEF TurnsSpec

-----------------------------------------------------------------------------
(* Nothing is forgotten, while no instance dies.  A run that is parked (it  *)
(* is suspended and awaits no turn) and knows less than has settled has a   *)
(* waker (ParkedIsWoken): a deadline, a resume behind a gate, or an         *)
(* instance on its way to a turn or to looking again.  A wake the lease     *)
(* refuses was not the only one, for who has the lease of a parked run goes *)
(* on to wake it itself (OwnerGoesOn, ParkedIsLeft): so the stamp a refused *)
(* wake leaves is not what the argument rests on.                           *)

Parked == row.status = "suspended" /\ row.turn = NoTurn

\* What i is doing will bring the parked run a turn, or look again.
WakesAt(i) ==
    \/ act[i].at = "lock" /\ ~Holds(i)
    \/ act[i].at \in {"snapshot", "mark"}
    \/ act[i].at \in {"let go", "recheck"} /\ act[i].hist \subseteq known
Waking == row.wake # "none" \/ queued # {} \/ \E i \in Inst : WakesAt(i)

NobodyDies    == setting.left["crashes"] = 0 /\ row.owner # Gone
ReadIsKnown   == \A i \in Inst : act[i].at \in {"apply", "let go"} => act[i].hist \subseteq known
ParkedIsLeft  == Parked => \A i \in Inst : act[i].at \notin {"claim", "apply"}
OwnerGoesOn   == \A i \in Inst : row.owner = i /\ ~Ended =>
                    \/ act[i].at \in Holding \/ i \in queued
                    \/ act[i].at = "lock" /\ act[i].seen.mine /\ (Parked => ~Holds(i))
ParkedIsWoken == Parked /\ ~(Settled \subseteq known) => Waking

CalmInv == /\ NobodyDies /\ ReadIsKnown /\ ParkedIsLeft /\ OwnerGoesOn /\ ParkedIsWoken

\* At first the run is pending, and is picked up.
LEMMA InitCalm == TurnsInit /\ setting.left["crashes"] = 0 => CalmInv
<1> SUFFICES ASSUME TurnsInit, setting.left["crashes"] = 0 PROVE CalmInv OBVIOUS
<1> USE TurnsAssumption DEF TurnsInit
<1>1. NobodyDies BY DEF NobodyDies
<1>2. ReadIsKnown BY DEF ReadIsKnown, Idle
<1>3. ParkedIsLeft /\ ParkedIsWoken BY DEF ParkedIsLeft, ParkedIsWoken, Parked
<1>4. OwnerGoesOn BY DEF OwnerGoesOn
<1> QED BY <1>1, <1>2, <1>3, <1>4 DEF CalmInv

\* Another disturbance leaves the budget of deaths alone.
LEMMA SpendCalm ==
  ASSUME ShapeOK, NobodyDies, NEW d \in Disturbances, Spend(d)
  PROVE  d # "crashes" /\ setting'.left["crashes"] = 0
BY DEF ShapeOK, NobodyDies, Spend, Left, Disturbances

\* Where no instance may die, none does.
LEMMA CalmStep ==
  ASSUME ShapeOK, NobodyDies, [TurnsNext]_turnsVars
  PROVE  NobodyDies' /\ \A i \in Inst : ~Crash(i)
<1> USE TurnsAssumption DEF wires, history, memory
<1>1. ASSUME NEW i \in Inst PROVE ~Crash(i) BY SpendCalm DEF Crash, Disturbances
<1>2. setting'.left["crashes"] = 0
  <2>1. CASE setting' = setting BY <2>1 DEF NobodyDies
  <2>2. CASE \E d \in Disturbances : Spend(d) BY <2>2, SpendCalm
  <2> QED
    BY <1>1, <2>1, <2>2
    DEF TurnsNext, turnsVars, InstStep, ReadRun, Lock, Snapshot, Mark, Enqueue, ClaimTurn,
        SettleDecision, LetGo, Recheck, JournalCall, SendCall, Poll, Recover, BeatRead,
        BeatWrite, Receive,
        Result, Replay, Lose, WakeDue, LeaseLapses, Cancel, Disturbances
<1>3. row'.owner # Gone
  <2> USE DEF ShapeOK, RunRow, NobodyDies
  <2>1. CASE row' = row \/ row'.owner = row.owner BY <2>1
  <2>2. ASSUME NEW i \in Inst, NEW r \in RunRow, r.owner # Gone PROVE Released(r, i).owner # Gone
    BY <2>2 DEF Released
  <2>3. ASSUME NEW i \in Inst, Lock(i) PROVE row'.owner # Gone
    BY <2>3, ZenonT(60) DEF Lock, Released
  <2>4. ASSUME NEW i \in Inst, Mark(i) PROVE row'.owner # Gone
    BY <2>4 DEF Mark, Released
  <2>5. ASSUME NEW i \in Inst, ClaimTurn(i) \/ LetGo(i) PROVE row'.owner # Gone
    BY <2>2, <2>5 DEF ClaimTurn, LetGo
  <2>6. ASSUME NEW i \in Inst, Enqueue(i) \/ SettleDecision(i) PROVE row'.owner # Gone
    BY <2>6 DEF Enqueue, SettleDecision
  <2>11. ASSUME NEW i \in Inst, NEW c \in Call, StartCall(i, c) PROVE row'.owner # Gone
    BY <2>1, <2>2, <2>11, CallStep
  <2>7. ASSUME NEW i \in Inst, InstStep(i) PROVE row'.owner # Gone
    BY <2>1, <2>3, <2>4, <2>5, <2>6, <2>7, <2>11
    DEF InstStep, StartCall, ReadRun, Snapshot, Recheck
  <2>8. ASSUME NEW i \in Inst, NEW d \in decision, Receive(i, d) PROVE row'.owner # Gone
    BY <2>8 DEF Receive
  <2>9. ASSUME NEW i \in Inst, Poll(i) \/ Recover(i) \/ BeatRead(i) \/ BeatWrite(i)
        PROVE  row'.owner # Gone
    BY <2>9 DEF Poll, Recover, BeatRead, BeatWrite
  <2>10. CASE WakeDue \/ LeaseLapses \/ Cancel BY <2>10 DEF WakeDue, LeaseLapses, Cancel
  <2> QED
    BY <1>1, <2>1, <2>7, <2>8, <2>9, <2>10 DEF TurnsNext, turnsVars, Result, Replay, Lose
<1> QED BY <1>1, <1>2, <1>3 DEF NobodyDies

\* Only one instance is where the lease is needed.
LEMMA OneHolds ==
  ASSUME LeaseOK, NEW i \in Inst, NEW j \in Inst, act[i].at \in Holding, act[j].at \in Holding
  PROVE  i = j
BY DEF LeaseOK

\* An instance that does not move is where it was.
LEMMA OthersStay ==
  ASSUME ShapeOK, NEW i \in Inst, NEW j \in Inst, i # j,
         InstStep(i) \/ \E d \in decision : Receive(i, d)
  PROVE  act'[j] = act[j]
BY DEF ShapeOK, InstStep, ReadRun, Lock, Snapshot, Mark, Enqueue, ClaimTurn, SettleDecision, LetGo,
       Recheck, JournalCall, SendCall, Receive, Does, Goes, memory

\* Without a death, the instances move by their own steps and by receiving.
LEMMA RestStays ==
  ASSUME ShapeOK, NobodyDies, [TurnsNext]_turnsVars,
         \A i \in Inst : ~InstStep(i) /\ \A d \in decision : ~Receive(i, d)
  PROVE  act' = act /\ known' = known
BY CalmStep DEF TurnsNext, turnsVars, Poll, Recover, BeatRead, BeatWrite, Result, Replay, Lose,
                WakeDue, LeaseLapses, Cancel, memory, history

\* Where a step of i leads i.
LEMMA Moves ==
  ASSUME ShapeOK, NEW i \in Inst
  PROVE  /\ ReadRun(i) => act'[i] = act[i] \/ act'[i].at = "lock"
         /\ Lock(i) => act'[i].at \in {"idle", "snapshot"}
         /\ Snapshot(i) => act'[i].at = "mark"
         /\ Mark(i) => act'[i].at \in {"idle", "enqueue"}
         /\ Enqueue(i) => act'[i].at = "idle"
         /\ ClaimTurn(i) => \/ Awaits(act[i]) /\ act'[i].at = "apply" /\ act'[i].hist = act[i].hist
                            \/ ~Awaits(act[i]) /\ act'[i].at = "idle"
         /\ SettleDecision(i) => act'[i].at = "let go" /\ act'[i].hist = act[i].hist
         /\ LetGo(i) => \/ act'[i].at = "recheck" /\ act'[i].hist = act[i].hist
                        \/ row.status # "suspended" /\ act'[i].at = "idle"
         /\ Recheck(i) => act'[i].at = "idle"
         /\ \A c \in Call : StartCall(i, c) =>
               act[i].at = "apply" /\ (act'[i] = act[i] \/ act'[i].at = "idle")
<1>1. \A a : Does(i, a) => act'[i] = a BY DEF Does, ShapeOK
<1>2. act[i] \in Act BY DEF ShapeOK
<1>3. \A p : Goes(i, p) => act'[i].at = p /\ act'[i].hist = act[i].hist
  <2> SUFFICES ASSUME NEW p, Goes(i, p) PROVE act'[i].at = p /\ act'[i].hist = act[i].hist
    OBVIOUS
  <2>1. act'[i] = [act[i] EXCEPT !.at = p] BY <1>1 DEF Goes
  <2> QED BY <1>2, <2>1 DEF Act
<1>4. ReadRun(i) => act'[i] = act[i] \/ act'[i].at = "lock"
  <2>1. CASE Ended BY <2>1 DEF ReadRun
  <2>2. CASE ~Ended
    <3> DEFINE seen == [status |-> row.status, out |-> row.turn # NoTurn,
                        due |-> row.turn # NoTurn /\ row.wake = "due", mine |-> row.owner = i,
                        stamp |-> row.stamp]
               a == [Idle EXCEPT !.at = "lock", !.seen = seen]
    <3>1. a.at = "lock" BY DEF Idle
    <3>2. ReadRun(i) => act'[i] = a BY <1>1, <2>2 DEF ReadRun
    <3> HIDE DEF a
    <3> QED BY <3>1, <3>2
  <2> QED BY <2>1, <2>2
<1>5. Lock(i) => act'[i].at \in {"idle", "snapshot"}
  <2>1. [Idle EXCEPT !.at = "snapshot"].at = "snapshot" BY DEF Idle
  <2> QED BY <1>1, <2>1, IdleShape DEF Lock
<1>6. Snapshot(i) => act'[i].at = "mark"
  <2>1. [act[i] EXCEPT !.at = "mark", !.hist = Settled].at = "mark" BY <1>2 DEF Act
  <2> QED BY <1>1, <2>1 DEF Snapshot
<1>7. Mark(i) => act'[i].at \in {"idle", "enqueue"}
  <2>1. \A t : [act[i] EXCEPT !.at = "enqueue", !.turn = t].at = "enqueue" BY <1>2 DEF Act
  <2> QED BY <1>1, <2>1, IdleShape DEF Mark
<1>8. Enqueue(i) => act'[i].at = "idle" BY <1>1, IdleShape DEF Enqueue
<1>9. ClaimTurn(i) => \/ Awaits(act[i]) /\ act'[i].at = "apply" /\ act'[i].hist = act[i].hist
                      \/ ~Awaits(act[i]) /\ act'[i].at = "idle"
  <2>1. /\ [act[i] EXCEPT !.at = "apply", !.turn = NoTurn].at = "apply"
        /\ [act[i] EXCEPT !.at = "apply", !.turn = NoTurn].hist = act[i].hist
    BY <1>2 DEF Act
  <2> QED BY <1>1, <2>1, IdleShape DEF ClaimTurn
<1>10. SettleDecision(i) => act'[i].at = "let go" /\ act'[i].hist = act[i].hist
  BY <1>3 DEF SettleDecision
<1>11. LetGo(i) => \/ act'[i].at = "recheck" /\ act'[i].hist = act[i].hist
                   \/ row.status # "suspended" /\ act'[i].at = "idle"
  BY <1>1, <1>3, IdleShape DEF LetGo
<1>12. Recheck(i) => act'[i].at = "idle" BY <1>1, IdleShape DEF Recheck
<1>13. \A c \in Call : StartCall(i, c) =>
         act[i].at = "apply" /\ (act'[i] = act[i] \/ act'[i].at = "idle")
  BY <1>1, IdleShape, CallStep
<1> QED BY <1>4, <1>5, <1>6, <1>7, <1>8, <1>9, <1>10, <1>11, <1>12, <1>13

\* What a decision was made of is known from its claim on.
LEMMA ReadIsKnownKept ==
  ASSUME ShapeOK, LeaseOK, NobodyDies, ReadIsKnown, [TurnsNext]_turnsVars
  PROVE  ReadIsKnown'
<1> SUFFICES ASSUME NEW j \in Inst, act'[j].at \in {"apply", "let go"}
             PROVE  act'[j].hist \subseteq known'
  BY DEF ReadIsKnown
<1> USE DEF history, memory
<1>1. ASSUME NEW i \in Inst, ClaimTurn(i) PROVE act'[j].hist \subseteq known'
  <2>1. CASE i = j
    <3>1. Awaits(act[j]) /\ act'[j].hist = act[j].hist BY <1>1, <2>1, Moves
    <3> QED BY <1>1, <2>1, <3>1 DEF ClaimTurn
  <2>2. CASE i # j
    <3>1. act'[j] = act[j] BY <1>1, <2>2, OthersStay DEF InstStep
    <3>2. act[i].at \in Holding BY <1>1 DEF ClaimTurn, Holding
    <3> QED BY <2>2, <3>1, <3>2, OneHolds DEF Holding
  <2> QED BY <2>1, <2>2
<1>2. CASE known' = known /\ act'[j] = act[j] BY <1>2 DEF ReadIsKnown
<1>3. ASSUME NEW i \in Inst, InstStep(i), ~ClaimTurn(i) PROVE act'[j].hist \subseteq known'
  <2>1. known' = known
    BY <1>3 DEF InstStep, ReadRun, Lock, Snapshot, Mark, Enqueue, SettleDecision, LetGo, Recheck,
                JournalCall, SendCall
  <2>2. CASE i # j BY <1>2, <1>3, <2>1, <2>2, OthersStay
  <2>3. CASE i = j
    <3>1. CASE SettleDecision(j)
      <4>1. act[j].hist \subseteq known BY <3>1 DEF SettleDecision, ReadIsKnown
      <4> QED BY <2>1, <3>1, <4>1, Moves
    <3>2. CASE ReadRun(j) \/ \E c \in Call : StartCall(j, c)
      BY <1>2, <2>1, <3>2, Moves
    <3>3. CASE Lock(j) \/ Snapshot(j) \/ Mark(j) \/ Enqueue(j) \/ LetGo(j) \/ Recheck(j)
      BY <3>3, Moves
    <3> QED BY <1>3, <2>3, <3>1, <3>2, <3>3 DEF InstStep, StartCall
  <2> QED BY <2>2, <2>3
<1>4. ASSUME NEW i \in Inst, NEW d \in decision, Receive(i, d)
      PROVE  act'[j].hist \subseteq known'
  <2>1. CASE i # j BY <1>2, <1>4, <2>1, OthersStay DEF Receive
  <2>2. CASE i = j
    <3>1. CASE Awaits(d)
      <4>1. [Idle EXCEPT !.at = "claim", !.turn = d.turn, !.hist = d.hist].at = "claim" BY DEF Idle
      <4> QED BY <1>4, <2>2, <3>1, <4>1 DEF Receive, Does, ShapeOK
    <3>2. CASE ~Awaits(d) BY <1>2, <1>4, <3>2 DEF Receive
    <3> QED BY <3>1, <3>2
  <2> QED BY <2>1, <2>2
<1>5. CASE \A i \in Inst : ~InstStep(i) /\ \A d \in decision : ~Receive(i, d)
  BY <1>2, <1>5, RestStays
<1> QED BY <1>1, <1>3, <1>4, <1>5

\* A run is parked by who has let go of its decision, or by a recovery.
LEMMA ParkedIsLeftKept ==
  ASSUME ShapeOK, LeaseOK, NobodyDies, ParkedIsLeft, [TurnsNext]_turnsVars
  PROVE  ParkedIsLeft'
<1> SUFFICES ASSUME Parked', NEW j \in Inst, act'[j].at \in {"claim", "apply"} PROVE FALSE
  BY DEF ParkedIsLeft
<1> USE TurnsAssumption DEF wires, history, memory
<1>1. CASE Parked
  <2>1. act[j].at \notin {"claim", "apply"} BY <1>1 DEF ParkedIsLeft
  <2>2. ASSUME NEW i \in Inst, InstStep(i) PROVE FALSE
    <3>1. i = j BY <2>1, <2>2, OthersStay
    <3>2. ~ClaimTurn(j) BY <2>1 DEF ClaimTurn
    <3> QED BY <2>1, <2>2, <3>1, <3>2, Moves DEF InstStep, StartCall
  <2>3. ASSUME NEW i \in Inst, NEW d \in decision, Receive(i, d) PROVE FALSE
    BY <1>1, <2>1, <2>3 DEF Receive, Awaits, Parked
  <2> QED BY <2>1, <2>2, <2>3, RestStays
<1>2. CASE ~Parked
  <2>1. CASE \E i \in Inst : SettleDecision(i)
    <3>1. PICK i \in Inst : SettleDecision(i) BY <2>1
    <3>2. i # j BY <3>1, Moves
    <3>3. act'[j] = act[j] /\ act[i].at \in Holding
      BY <3>1, <3>2, OthersStay DEF InstStep, SettleDecision, Holding
    <3> QED BY <3>2, <3>3, OneHolds DEF Holding
  <2>2. CASE \E i \in Inst : Recover(i)
    BY <2>2 DEF Recover, Free, LeaseOK, Holding
  <2>3. row.status # "suspended" \/ row.turn # NoTurn BY <1>2 DEF Parked
  <2>4. row'.status = "suspended" /\ row'.turn = NoTurn BY DEF Parked
  <2>5. ASSUME NEW i \in Inst, InstStep(i), ~SettleDecision(i) PROVE FALSE
    <3> USE DEF ShapeOK, RunRow
    <3>1. ~Lock(i) BY <2>3, <2>4 DEF Lock, Released
    <3>2. ~Mark(i) BY <2>3, <2>4 DEF Mark, Released, Closed
    <3>3. ~ClaimTurn(i) BY <2>3, <2>4 DEF ClaimTurn, Released
    <3>4. ~LetGo(i) BY <2>3, <2>4 DEF LetGo, Released
    <3>5. \A c \in Call : ~StartCall(i, c) BY <2>3, <2>4, CallStep DEF Released
    <3> QED
      BY <2>3, <2>4, <2>5, <3>1, <3>2, <3>3, <3>4, <3>5
      DEF InstStep, StartCall, ReadRun, Snapshot, Enqueue, Recheck
  <2>6. ASSUME NEW i \in Inst, NEW d \in decision, Receive(i, d) PROVE FALSE
    BY <2>3, <2>4, <2>6 DEF Receive, ShapeOK, RunRow
  <2>7. ASSUME NEW i \in Inst, Poll(i) \/ BeatRead(i) \/ BeatWrite(i) PROVE FALSE
    BY <2>3, <2>4, <2>7 DEF Poll, BeatRead, BeatWrite, ShapeOK, RunRow
  <2>8. CASE WakeDue \/ LeaseLapses \/ Cancel
    BY <2>3, <2>4, <2>8 DEF WakeDue, LeaseLapses, Cancel, ShapeOK, RunRow
  <2> QED
    BY <2>1, <2>2, <2>3, <2>4, <2>5, <2>6, <2>7, <2>8, CalmStep
    DEF TurnsNext, turnsVars, Result, Replay, Lose
<1> QED BY <1>1, <1>2

\* The row as a resume reads it: what is parked has no turn out.
LEMMA ReadRunReads ==
  ASSUME ShapeOK, NEW i \in Inst, ReadRun(i), ~Ended
  PROVE  /\ act'[i].at = "lock" /\ act'[i].seen.mine = (row.owner = i)
         /\ Parked => ~Holds(i)'
<1> DEFINE seen == [status |-> row.status, out |-> row.turn # NoTurn,
                    due |-> row.turn # NoTurn /\ row.wake = "due", mine |-> row.owner = i,
                    stamp |-> row.stamp]
           a == [Idle EXCEPT !.at = "lock", !.seen = seen]
<1>1. a.at = "lock" /\ a.seen = seen BY DEF Idle
<1>2. act'[i] = a BY DEF ReadRun, Does, ShapeOK
<1>3. seen.mine = (row.owner = i) /\ seen.out = (row.turn # NoTurn) OBVIOUS
<1> HIDE DEF a, seen
<1> QED BY <1>1, <1>2, <1>3 DEF Parked, Holds

\* Who has the lease of a run that goes on will use it: it prepares a turn or
\* applies a decision, or has the resume the poll took the lease for.
LEMMA OwnerGoesOnKept ==
  ASSUME ShapeOK, LeaseOK, NobodyDies, OwnerGoesOn, [TurnsNext]_turnsVars
  PROVE  OwnerGoesOn'
<1> SUFFICES ASSUME NEW j \in Inst, row'.owner = j, ~Ended'
             PROVE  (\/ act[j].at \in Holding \/ j \in queued
                     \/ act[j].at = "lock" /\ act[j].seen.mine /\ (Parked => ~Holds(j)))'
  BY DEF OwnerGoesOn
<1> DEFINE Goal == (\/ act[j].at \in Holding \/ j \in queued
                    \/ act[j].at = "lock" /\ act[j].seen.mine /\ (Parked => ~Holds(j)))'
<1> USE TurnsAssumption DEF wires, history, memory
<1>a. ASSUME act'[j] = act[j], queued \subseteq queued', row'.owner = row.owner,
             ~Ended, Parked' => Parked
      PROVE  Goal
  BY <1>a DEF OwnerGoesOn, Holds
<1>b. ASSUME act'[j] = act[j], queued \subseteq queued', row' = row PROVE Goal
  <2>1. ~Ended /\ (Parked' => Parked) BY <1>b DEF Ended, Parked
  <2> HIDE DEF Goal
  <2> QED BY <1>a, <1>b, <2>1
<1>c. ASSUME NEW i \in Inst, InstStep(i), i # j PROVE Goal
  <2>1. act'[j] = act[j] BY <1>c, OthersStay
  <2>2. CASE ReadRun(i)
    <3>1. row' = row /\ (j \in queued => j \in queued') BY <1>c, <2>2 DEF ReadRun
    <3> QED BY <2>1, <3>1 DEF OwnerGoesOn, Ended, Parked, Holds
  <2>3. CASE Lock(i)
    <3>1. row'.owner = row.owner /\ row'.status = row.status /\ row'.turn = row.turn
          /\ queued' = queued
      <4>1. row'.owner \in {i, NoOne} \/ row' = [row EXCEPT !.stamp = ~Ended]
        BY <2>3 DEF Lock, Released, ShapeOK, RunRow
      <4> QED BY <1>c, <2>3, <4>1 DEF Lock, ShapeOK, RunRow
    <3>2. ~Ended /\ (Parked' => Parked) BY <3>1 DEF Ended, Parked
    <3> HIDE DEF Goal
    <3> QED BY <1>a, <2>1, <3>1, <3>2
  <2>4. ASSUME act[i].at \in Holding, row'.owner \in {row.owner, NoOne} PROVE FALSE
    BY <1>c, <2>4 DEF LeaseOK
  <2>5. ~Snapshot(i) BY <2>4 DEF Snapshot, Holding
  <2>6. ~Mark(i) BY <2>4 DEF Mark, Holding, Released, ShapeOK, RunRow
  <2>7. ~ClaimTurn(i) BY <2>4 DEF ClaimTurn, Holding, Released, ShapeOK, RunRow
  <2>8. ~SettleDecision(i) BY <2>4 DEF SettleDecision, Holding, ShapeOK, RunRow
  <2>9. ~LetGo(i) BY <2>4 DEF LetGo, Holding, Released, ShapeOK, RunRow
  <2>10. ASSUME NEW c \in Call, StartCall(i, c) PROVE FALSE
    <3>1. act[i].at \in Holding BY <2>10, CallStep DEF Holding
    <3>2. row'.owner \in {row.owner, NoOne} BY <2>10, CallStep DEF Released, ShapeOK, RunRow
    <3> QED BY <2>4, <3>1, <3>2
  <2>11. CASE Enqueue(i)
    <3>1. row' = row
      BY <2>11 DEF Enqueue, Ended, Terminal, ShapeOK, RunRow
    <3> HIDE DEF Goal
    <3> QED BY <1>b, <2>1, <2>11, <3>1 DEF Enqueue
  <2>12. CASE Recheck(i)
    <3>1. row' = row /\ queued \subseteq queued' BY <2>12 DEF Recheck, Resume
    <3> HIDE DEF Goal
    <3> QED BY <1>b, <2>1, <3>1
  <2> HIDE DEF Goal
  <2> QED
    BY <1>c, <2>2, <2>3, <2>5, <2>6, <2>7, <2>8, <2>9, <2>10, <2>11, <2>12
    DEF InstStep, StartCall
<1>d. ASSUME InstStep(j) PROVE Goal
  <2>1. CASE ReadRun(j)
    <3>1. row' = row BY <2>1 DEF ReadRun
    <3>2. ~Ended BY <3>1 DEF Ended
    <3> QED BY <2>1, <3>1, <3>2, ReadRunReads DEF Parked
  <2>2. CASE Lock(j)
    <3>1. CASE ~(act[j].seen.mine /\ row.owner = j) /\ ~Free /\ row' = [row EXCEPT !.stamp = ~Ended]
      <4>1. row.owner = j /\ ~Ended /\ queued' = queued
        BY <2>2, <3>1 DEF Lock, Ended, ShapeOK, RunRow
      <4> QED BY <2>2, <3>1, <4>1 DEF OwnerGoesOn, Lock, Holding
    <3>2. CASE ~(~(act[j].seen.mine /\ row.owner = j) /\ ~Free
                 /\ row' = [row EXCEPT !.stamp = ~Ended])
      <4>1. ~Holds(j)
        BY <2>2, <3>2 DEF Lock, Released, ShapeOK, RunRow
      <4>2. act'[j].at = "snapshot"
        BY <2>2, <3>2, <4>1 DEF Lock, Does, Idle, ShapeOK
      <4> QED BY <4>2 DEF Holding
    <3> QED BY <3>1, <3>2
  <2>3. CASE Snapshot(j) \/ SettleDecision(j) BY <2>3, Moves DEF Holding
  <2>4. ~Mark(j) BY DEF Mark, Released, ShapeOK, RunRow
  <2>5. ~LetGo(j) BY DEF LetGo, Released, ShapeOK, RunRow
  <2>6. CASE ClaimTurn(j)
    <3>1. Awaits(act[j]) BY <2>6 DEF ClaimTurn, Released, ShapeOK, RunRow
    <3> QED BY <2>6, <3>1, Moves DEF Holding
  <2>7. CASE \E c \in Call : StartCall(j, c)
    <3>1. row' = row /\ act' = act /\ queued' = queued
      BY <2>7, CallStep DEF Released, ShapeOK, RunRow
    <3> HIDE DEF Goal
    <3> QED BY <1>b, <3>1
  <2>8. CASE Enqueue(j) \/ Recheck(j)
    <3>1. row' = row
      BY <2>8 DEF Enqueue, Recheck, Ended, Terminal, ShapeOK, RunRow
    <3>2. queued \subseteq queued' /\ act[j].at \in {"enqueue", "recheck"}
      BY <2>8 DEF Enqueue, Recheck, Resume
    <3>3. j \in queued BY <3>1, <3>2 DEF OwnerGoesOn, Ended, Holding
    <3> QED BY <3>2, <3>3
  <2> HIDE DEF Goal
  <2> QED BY <1>d, <2>1, <2>2, <2>3, <2>4, <2>5, <2>6, <2>7, <2>8 DEF InstStep, StartCall
<1>e. ASSUME NEW i \in Inst, NEW d \in decision, Receive(i, d) PROVE Goal
  <2>1. CASE Awaits(d)
    <3>1. i = j BY <1>e, <2>1 DEF Receive, ShapeOK, RunRow
    <3>2. [Idle EXCEPT !.at = "claim", !.turn = d.turn, !.hist = d.hist].at = "claim" BY DEF Idle
    <3>3. act'[j].at = "claim" BY <1>e, <2>1, <3>1, <3>2 DEF Receive, Does, ShapeOK
    <3> QED BY <3>3 DEF Holding
  <2>2. CASE ~Awaits(d)
    <3> HIDE DEF Goal
    <3> QED BY <1>b, <1>e, <2>2 DEF Receive
  <2> QED BY <2>1, <2>2
<1>f. ASSUME NEW i \in Inst, Poll(i) \/ Recover(i) \/ BeatRead(i) \/ BeatWrite(i) PROVE Goal
  <2>1. CASE Poll(i)
    <3>1. i = j /\ queued' = queued \union {i} BY <2>1 DEF Poll, Resume, ShapeOK, RunRow
    <3> QED BY <3>1
  <2>2. ~Recover(i) BY DEF Recover, Free, ShapeOK, RunRow
  <2>3. CASE BeatRead(i) \/ BeatWrite(i)
    <3>1. /\ row'.owner = row.owner /\ row'.status = row.status /\ row'.turn = row.turn
          /\ queued' = queued /\ act' = act
      BY <2>3 DEF BeatRead, BeatWrite, ShapeOK, RunRow
    <3>2. ~Ended /\ (Parked' => Parked) BY <3>1 DEF Ended, Parked
    <3> HIDE DEF Goal
    <3> QED BY <1>a, <3>1, <3>2
  <2> HIDE DEF Goal
  <2> QED BY <1>f, <2>1, <2>2, <2>3
<1>g. ASSUME NEW i \in Inst, NEW c \in Call, Result(i, c) PROVE Goal
  <2>1. row' = row /\ act' = act /\ queued \subseteq queued' BY <1>g DEF Result, Resume
  <2> HIDE DEF Goal
  <2> QED BY <1>b, <2>1
<1>h. ASSUME WakeDue \/ LeaseLapses \/ Cancel PROVE Goal
  <2>1. ~LeaseLapses BY DEF LeaseLapses, ShapeOK, RunRow
  <2>2. ~Cancel BY DEF Cancel, Ended, Terminal, ShapeOK, RunRow
  <2>3. /\ row'.owner = row.owner /\ row'.status = row.status /\ row'.turn = row.turn
        /\ queued' = queued /\ act' = act
    BY <1>h, <2>1, <2>2 DEF WakeDue, ShapeOK, RunRow
  <2>4. ~Ended /\ (Parked' => Parked) BY <2>3 DEF Ended, Parked
  <2> HIDE DEF Goal
  <2> QED BY <1>a, <2>3, <2>4
<1>i. ASSUME NEW d \in task \union decision, Replay(d) \/ Lose(d) PROVE Goal
  <2> HIDE DEF Goal
  <2> QED BY <1>b, <1>i DEF Replay, Lose
<1>j. ASSUME UNCHANGED turnsVars PROVE Goal
  <2> HIDE DEF Goal
  <2> QED BY <1>b, <1>j DEF turnsVars
<1> HIDE DEF Goal
<1>k. Goal
  <2>1. ASSUME NEW i \in Inst, InstStep(i) PROVE Goal BY <1>c, <1>d, <2>1
  <2> QED BY <1>e, <1>f, <1>g, <1>h, <1>i, <1>j, <2>1, CalmStep DEF TurnsNext
<1> QED BY <1>k DEF Goal

\* A waker that does not move still is one.
LEMMA WakerStays ==
  ASSUME NEW i \in Inst, WakesAt(i), act'[i] = act[i], known' = known
  PROVE  WakesAt(i)'
BY DEF WakesAt, Holds

\* A wake that the lease refuses leaves the holder's own on its way.
LEMMA RefusedIsCovered ==
  ASSUME CalmInv, ShapeOK, NEW i \in Inst, Lock(i), Parked, act'[i].at = "idle", ~Holds(i)
  PROVE  queued # {} \/ \E j \in Inst : j # i /\ WakesAt(j)
<1>1. ~(act[i].seen.mine /\ row.owner = i) /\ row.owner # NoOne
  <2>1. [Idle EXCEPT !.at = "snapshot"].at = "snapshot" BY DEF Idle
  <2> QED BY <2>1 DEF Lock, Does, ShapeOK, Free
<1>2. PICK o \in Inst : row.owner = o BY <1>1 DEF CalmInv, NobodyDies, ShapeOK, RunRow
<1>3. ~Ended BY DEF Parked, Ended, Terminal
<1>4. \/ act[o].at \in Holding \/ o \in queued
      \/ act[o].at = "lock" /\ act[o].seen.mine /\ ~Holds(o)
  BY <1>2, <1>3 DEF CalmInv, OwnerGoesOn
<1>5. act[o].at \notin {"claim", "apply"} BY DEF CalmInv, ParkedIsLeft
<1>6. act[o].at = "let go" => act[o].hist \subseteq known BY DEF CalmInv, ReadIsKnown
<1>7. act[i].at = "lock" BY DEF Lock
<1>8. o \in queued \/ (o # i /\ WakesAt(o))
  BY <1>1, <1>2, <1>4, <1>5, <1>6, <1>7 DEF WakesAt, Holding
<1> QED BY <1>8

\* No step leaves a parked run with something to learn and nothing to wake it.
LEMMA ParkedIsWokenKept ==
  ASSUME ShapeOK, HistoryOK, LeaseOK, CalmInv, [TurnsNext]_turnsVars
  PROVE  ParkedIsWoken'
<1> SUFFICES ASSUME Parked', ~(Settled \subseteq known)' PROVE Waking'
  BY DEF ParkedIsWoken
<1> USE TurnsAssumption DEF wires, history, memory
<1>a. ASSUME Parked, cp' = cp, known' = known PROVE Waking
  BY <1>a DEF CalmInv, ParkedIsWoken, Settled
<1>b. ASSUME Waking, row'.wake = row.wake, queued \subseteq queued', act' = act, known' = known
      PROVE  Waking'
  <2>1. \A i \in Inst : WakesAt(i) => WakesAt(i)' BY <1>b, WakerStays
  <2> QED BY <1>b, <2>1 DEF Waking
<1>c. ASSUME NEW i \in Inst, InstStep(i), Waking, row'.wake = row.wake,
             queued \subseteq queued', known' = known,
             WakesAt(i) => \/ queued' # {} \/ WakesAt(i)'
                           \/ \E j \in Inst : j # i /\ WakesAt(j)
      PROVE  Waking'
  <2>1. \A j \in Inst : j # i /\ WakesAt(j) => WakesAt(j)' BY <1>c, WakerStays, OthersStay
  <2> QED BY <1>c, <2>1 DEF Waking
<1>d. ASSUME NEW i \in Inst, WakesAt(i)' PROVE Waking'
  BY <1>d DEF Waking
<1>1. ASSUME NEW i \in Inst, ReadRun(i) PROVE Waking'
  <2>1. row' = row /\ Parked /\ ~Ended
    BY <1>1 DEF ReadRun, Parked, Ended, Terminal
  <2>2. act'[i].at = "lock" /\ ~Holds(i)' BY <1>1, <2>1, ReadRunReads
  <2> QED BY <1>d, <2>2 DEF WakesAt
<1>2. ASSUME NEW i \in Inst, Lock(i) PROVE Waking'
  <2>1. CASE act'[i].at = "snapshot" BY <1>d, <2>1 DEF WakesAt
  <2>2. CASE act'[i].at = "idle"
    <3>1. [Idle EXCEPT !.at = "snapshot"].at = "snapshot" BY DEF Idle
    <3>2. /\ row'.wake = row.wake /\ row'.status = row.status /\ row'.turn = row.turn
          /\ queued' = queued /\ known' = known /\ cp' = cp
      <4>1. act' # [act EXCEPT ![i] = [Idle EXCEPT !.at = "snapshot"]]
        BY <2>2, <3>1 DEF ShapeOK
      <4>2. queued' = queued /\ known' = known /\ cp' = cp BY <1>2 DEF Lock
      <4>3. \/ row' = [row EXCEPT !.stamp = ~Ended]
            \/ row' = Released([row EXCEPT !.owner = i, !.stamp = @ /\ ~act[i].seen.stamp], i)
        BY <1>2, <4>1 DEF Lock, Does
      <4>4. \A b : LET r == [row EXCEPT !.owner = i, !.stamp = b] IN
                      r.wake = row.wake /\ r.status = row.status /\ r.turn = row.turn
        BY DEF ShapeOK, RunRow
      <4>5. \A r : LET s == Released(r, i) IN
                      r \in RunRow => s.wake = r.wake /\ s.status = r.status /\ s.turn = r.turn
        BY DEF Released, RunRow
      <4>6. \A b \in BOOLEAN : [row EXCEPT !.owner = i, !.stamp = b] \in RunRow
        BY DEF ShapeOK, RunRow
      <4>7. (row.stamp /\ ~act[i].seen.stamp) \in BOOLEAN OBVIOUS
      <4>8. CASE row' = [row EXCEPT !.stamp = ~Ended]
        BY <4>2, <4>8 DEF ShapeOK, RunRow
      <4>9. CASE row' = Released([row EXCEPT !.owner = i, !.stamp = @ /\ ~act[i].seen.stamp], i)
        <5> DEFINE r == [row EXCEPT !.owner = i, !.stamp = @ /\ ~act[i].seen.stamp]
        <5>1. r \in RunRow BY <4>6, <4>7
        <5>2. r.wake = row.wake /\ r.status = row.status /\ r.turn = row.turn BY <4>4
        <5>3. row' = Released(r, i) BY <4>9
        <5> HIDE DEF r
        <5> QED BY <4>2, <4>5, <5>1, <5>2, <5>3
      <4> QED BY <4>3, <4>8, <4>9
    <3>3. Parked BY <3>2 DEF Parked
    <3>4. Waking BY <1>a, <3>2, <3>3
    <3>5. WakesAt(i) => queued' # {} \/ \E j \in Inst : j # i /\ WakesAt(j)
      <4>1. WakesAt(i) => ~Holds(i) BY <1>2 DEF Lock, WakesAt
      <4> QED BY <1>2, <2>2, <3>2, <3>3, <4>1, RefusedIsCovered
    <3> QED BY <1>2, <1>c, <3>2, <3>4, <3>5 DEF InstStep
  <2> QED BY <1>2, <2>1, <2>2, Moves
<1>3. ASSUME NEW i \in Inst, Snapshot(i) PROVE Waking'
  <2>1. act'[i].at = "mark" BY <1>3, Moves
  <2> QED BY <1>d, <2>1 DEF WakesAt
<1>4. ASSUME NEW i \in Inst, Mark(i) PROVE Waking'
  BY <1>4 DEF Mark, Released, Parked, Closed, ShapeOK, RunRow
<1>5. ASSUME NEW i \in Inst, Enqueue(i) PROVE Waking'
  <2>1. row' = row BY <1>5 DEF Enqueue, Parked, ShapeOK, RunRow
  <2>2. Parked /\ cp' = cp /\ known' = known /\ queued' = queued
    BY <1>5, <2>1 DEF Enqueue, Parked
  <2>3. ~WakesAt(i) BY <1>5 DEF Enqueue, WakesAt
  <2> QED BY <1>5, <1>a, <1>c, <2>1, <2>2, <2>3 DEF InstStep
<1>6. ASSUME NEW i \in Inst, ClaimTurn(i) PROVE Waking'
  <2>1. ~Parked BY <1>6 DEF ClaimTurn, CalmInv, ParkedIsLeft
  <2> QED BY <1>6, <2>1 DEF ClaimTurn, Released, Parked, ShapeOK, RunRow
<1>7. ASSUME NEW i \in Inst, NEW c \in Call, StartCall(i, c) PROVE Waking'
  <2>1. /\ Settled' = Settled /\ known' = known /\ queued' = queued
        /\ (row' = row /\ act' = act) \/ row' = Released(row, i)
        /\ act[i].at = "apply"
    BY <1>7, CallStep
  <2>2. Parked /\ row' = row /\ act' = act /\ known' = known /\ queued' = queued
    <3>1. Parked BY <2>1 DEF Parked, Released, ShapeOK, RunRow
    <3> QED BY <2>1, <3>1 DEF CalmInv, ParkedIsLeft
  <2>3. Waking BY <2>1, <2>2 DEF CalmInv, ParkedIsWoken
  <2> QED BY <1>b, <2>2, <2>3
<1>8. ASSUME NEW i \in Inst, SettleDecision(i) PROVE Waking'
  <2>1. act'[i].at = "let go" /\ act'[i].hist = act[i].hist BY <1>8, Moves
  <2>2. act[i].hist \subseteq known /\ known' = known
    BY <1>8 DEF SettleDecision, CalmInv, ReadIsKnown
  <2> QED BY <1>d, <2>1, <2>2 DEF WakesAt
<1>9. ASSUME NEW i \in Inst, LetGo(i) PROVE Waking'
  <2>1. row.status = "suspended" BY <1>9 DEF LetGo, Released, Parked, ShapeOK, RunRow
  <2>2. act'[i].at = "recheck" /\ act'[i].hist = act[i].hist BY <1>9, <2>1, Moves
  <2>3. act[i].hist \subseteq known /\ known' = known
    BY <1>9 DEF LetGo, CalmInv, ReadIsKnown
  <2> QED BY <1>d, <2>2, <2>3 DEF WakesAt
<1>10. ASSUME NEW i \in Inst, Recheck(i) PROVE Waking'
  <2>1. /\ Parked /\ row' = row /\ cp' = cp /\ known' = known /\ queued \subseteq queued'
        /\ act[i].at = "recheck"
    BY <1>10 DEF Recheck, Resume, Parked
  <2>2. ~(Settled \subseteq known) BY <2>1 DEF Settled
  <2>3. WakesAt(i) => queued' # {}
    BY <1>10, <2>1, <2>2 DEF WakesAt, Recheck, Rechecked, Resume
  <2> QED BY <1>10, <1>a, <1>c, <2>1, <2>3 DEF InstStep
<1>11. ASSUME NEW i \in Inst, InstStep(i) PROVE Waking'
  BY <1>1, <1>2, <1>3, <1>4, <1>5, <1>6, <1>7, <1>8, <1>9, <1>10, <1>11 DEF InstStep, StartCall
<1>12. ASSUME NEW i \in Inst, NEW d \in decision, Receive(i, d) PROVE Waking'
  <2>1. ~Awaits(d) BY <1>12 DEF Receive, Awaits, Parked, ShapeOK, RunRow
  <2>2. Parked /\ row' = row /\ act' = act /\ known' = known /\ queued' = queued /\ cp' = cp
    BY <1>12, <2>1 DEF Receive, Parked
  <2> QED BY <1>a, <1>b, <2>2
<1>13. ASSUME NEW i \in Inst, NEW c \in Call, Result(i, c) PROVE Waking'
  <2>1. ~Ended BY <1>13 DEF Result, Parked, Ended, Terminal
  <2> QED BY <1>13, <2>1 DEF Result, Resume, Waking
<1>14. ASSUME NEW i \in Inst, Poll(i) PROVE Waking' BY <1>14 DEF Poll, Resume, Waking
<1>15. ASSUME NEW i \in Inst, Recover(i) PROVE Waking'
  BY <1>15 DEF Recover, Waking, Parked, ShapeOK, RunRow
<1>16. ASSUME NEW i \in Inst, BeatRead(i) \/ BeatWrite(i) PROVE Waking'
  <2>1. CASE row' = row
    <3>1. Parked /\ act' = act /\ known' = known /\ queued' = queued /\ cp' = cp
      BY <1>16, <2>1 DEF BeatRead, BeatWrite, Parked
    <3> QED BY <1>a, <1>b, <2>1, <3>1
  <2>2. CASE row' # row
    BY <1>16, <2>2 DEF BeatRead, BeatWrite, Waking, ShapeOK, RunRow
  <2> QED BY <2>1, <2>2
<1>17. ASSUME WakeDue \/ LeaseLapses \/ Cancel PROVE Waking'
  <2>1. ~LeaseLapses BY DEF LeaseLapses, CalmInv, NobodyDies
  <2>2. ~Cancel BY DEF Cancel, Parked, ShapeOK, RunRow
  <2> QED BY <1>17, <2>1, <2>2 DEF WakeDue, Waking, ShapeOK, RunRow
<1>18. ASSUME row' = row, act' = act, known' = known, queued' = queued, cp' = cp PROVE Waking'
  <2>1. Parked BY <1>18 DEF Parked
  <2> QED BY <1>18, <1>a, <1>b, <2>1
<1>19. \A i \in Inst : ~Crash(i) BY CalmStep DEF CalmInv
<1> QED
  BY <1>11, <1>12, <1>13, <1>14, <1>15, <1>16, <1>17, <1>18, <1>19
  DEF TurnsNext, turnsVars, Replay, Lose

\* So what nobody forgets is carried on by somebody, at every step.
LEMMA CalmInvKept ==
  ASSUME TurnsInv, CalmInv, [TurnsNext]_turnsVars
  PROVE  CalmInv'
BY CalmStep, ReadIsKnownKept, ParkedIsLeftKept, OwnerGoesOnKept, ParkedIsWokenKept
   DEF TurnsInv, CalmInv

\* A result whose wake was held behind a turn, or refused by the lease, is not
\* forgotten: as long as no instance dies, a suspended run that awaits no turn
\* and has not seen all that has settled has something that will wake it,
\* reconcileMs or not, whatever is lost, comes twice, comes late or is cancelled.
THEOREM TurnsForgetNothing ==
  TurnsSpec /\ setting.left["crashes"] = 0 => []NothingForgotten
<1>1. TurnsInv /\ CalmInv => NothingForgotten
  <2> SUFFICES ASSUME TurnsInv, CalmInv, Parked, ~(Settled \subseteq known) PROVE Awake
    BY DEF NothingForgotten, Parked
  <2>1. Waking BY DEF CalmInv, ParkedIsWoken
  <2>2. queued \subseteq Inst BY DEF TurnsInv, ShapeOK
  <2>3. \A i \in Inst : WakesAt(i) => act[i].at # "idle" BY DEF WakesAt
  <2> QED BY <2>1, <2>2, <2>3 DEF Waking, Awake
<1>2. TurnsInit /\ setting.left["crashes"] = 0 => TurnsInv /\ CalmInv
  BY InitTurns, InitCalm
<1>3. TurnsInv /\ CalmInv /\ [TurnsNext]_turnsVars => (TurnsInv /\ CalmInv)'
  BY TurnsStep, CalmInvKept
<1> QED BY <1>1, <1>2, <1>3, PTL DEF TurnsSpec
=============================================================================
