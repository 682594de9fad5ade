-------------------------- MODULE DbTransportProofs --------------------------
(***************************************************************************)
(* Proofs about DbTransport, for any steps, instances and claim tokens,    *)
(* any limits and any disturbances, and whatever an engine asks of it.     *)
(*                                                                         *)
(* The transport implements StepMailbox: every one of its steps is an      *)
(* operation of the mailbox or changes nothing that its users see.  What   *)
(* this takes is small (a row stays a row, and a token names one round):   *)
(* that nothing unread leaves the box rests on each DELETE looking at the  *)
(* token, not on who is late or dead.                                      *)
(***************************************************************************)
EXTENDS DbTransport, TLAPS


Round == [kind : {"idle", "tasks", "results"}, inst : Inst, job : [Step -> Jobs],
          gen : [Step -> Nat], ok : [Step -> BOOLEAN]]

TransportTypes ==
    /\ task \in [Step -> Row \union {NoRow}]
    /\ result \in [Step -> Row \union {NoRow}]
    /\ round \in [Token -> Round]

\* What the mailbox is made of.
Out   == {s \in Step : IsRow(task[s])}
InBox == {s \in Step : IsRow(result[s])}
ReadBy(t, s) == Mine(result[s], t) /\ round[t].kind = "results" /\ round[t].job[s] = "read"
HasRead == {s \in Step : \E t \in Token : ReadBy(t, s)}

-----------------------------------------------------------------------------
\* A row that is claimed, freed, orphaned or renewed is a row of the same step.
LEMMA RowsStayRows ==
  ASSUME NEW row \in Row
  PROVE  /\ IsRow(row)
         /\ \A t \in Token : Claimed(row, t) \in Row /\ Claimed(row, t).by = t
         /\ \A t \in Token : [Claimed(row, t) EXCEPT !.reclaims = 0] \in Row
                             /\ [Claimed(row, t) EXCEPT !.reclaims = 0].by = t
         /\ Unclaimed(row) \in Row /\ Unclaimed(row).by = NoToken
         /\ [row EXCEPT !.by = LostToken] \in Row
         /\ [row EXCEPT !.by = LostToken].by = LostToken
         /\ [row EXCEPT !.lapsed = TRUE] \in Row /\ [row EXCEPT !.lapsed = TRUE].by = row.by
         /\ [row EXCEPT !.lapsed = FALSE] \in Row /\ [row EXCEPT !.lapsed = FALSE].by = row.by
<1>1. IsRow(row) BY NoRowAssumption DEF IsRow
<1>2. ASSUME NEW t \in Token PROVE Claimed(row, t) \in Row /\ Claimed(row, t).by = t
  <2> DEFINE n == IF ~Free(row) /\ row.reclaims <= MaxStalled THEN row.reclaims + 1
                  ELSE row.reclaims
  <2>1. n \in Nat BY DEF Row
  <2>2. Claimed(row, t) = [row EXCEPT !.by = t, !.lapsed = FALSE, !.reclaims = n]
    BY DEF Claimed
  <2> HIDE DEF n
  <2> QED BY <2>1, <2>2 DEF Row
<1>3. ASSUME NEW r \in Row PROVE [r EXCEPT !.reclaims = 0] \in Row
                                /\ [r EXCEPT !.reclaims = 0].by = r.by
  BY DEF Row
<1>4. Unclaimed(row) \in Row /\ Unclaimed(row).by = NoToken BY DEF Unclaimed, Row
<1>5. /\ [row EXCEPT !.by = LostToken] \in Row
      /\ [row EXCEPT !.by = LostToken].by = LostToken
  BY DEF Row
<1>6. \A b \in BOOLEAN : [row EXCEPT !.lapsed = b] \in Row
                          /\ [row EXCEPT !.lapsed = b].by = row.by
  BY DEF Row
<1> QED BY <1>1, <1>2, <1>3, <1>4, <1>5, <1>6

\* A row that is written is a row.
LEMMA NewRowIsRow ==
  ASSUME NEW g \in Nat, NEW ok \in BOOLEAN
  PROVE  NewRow(g, ok) \in Row /\ NewRow(g, ok).by = NoToken
BY DEF NewRow, Row

\* A round that is over is a round.
LEMMA IdleRound == Idle \in Round /\ Idle.kind = "idle"
<1>1. (CHOOSE i \in Inst : TRUE) \in Inst BY TransportAssumption
<1> QED BY <1>1 DEF Idle, Round, NoJob, Jobs

\* A step that a round is through with is read no more by it than before.
LEMMA FinishedRound ==
  ASSUME NEW r \in Round, NEW s \in Step
  PROVE  /\ Finished(r, s) \in Round
         /\ r.job[s] # "read" =>
              \A x \in Step : (Finished(r, s).kind = "results" /\ Finished(r, s).job[x] = "read")
                                <=> (r.kind = "results" /\ r.job[x] = "read")
<1> DEFINE left == [r EXCEPT !.job[s] = "none"]
<1>1. left \in Round /\ left.kind = r.kind /\ left.job = [r.job EXCEPT ![s] = "none"]
  BY DEF Round, Jobs
<1>2. CASE left.job = NoJob
  <2>1. Finished(r, s) = Idle BY <1>2 DEF Finished
  <2>2. \A x \in Step : x # s => r.job[x] = "none" BY <1>1, <1>2 DEF NoJob, Round
  <2> QED BY <2>1, <2>2, IdleRound
<1>3. CASE left.job # NoJob
  <2>1. Finished(r, s) = left BY <1>3 DEF Finished
  <2> HIDE DEF left
  <2> QED BY <1>1, <2>1 DEF Round
<1> QED BY <1>2, <1>3

-----------------------------------------------------------------------------
\* One table after a write that neither adds rows nor removes any.
Kept(table, new) == /\ new \in [Step -> Row \union {NoRow}]
                    /\ \A s \in Step : IsRow(new[s]) <=> IsRow(table[s])

\* Rows of some steps are claimed by t; the others are not touched.
LEMMA ClaimKeeps ==
  ASSUME NEW table \in [Step -> Row \union {NoRow}], NEW S \in SUBSET Step, NEW t \in Token,
         \A s \in S : IsRow(table[s]), NEW new,
         \/ new = [s \in Step |-> IF s \in S THEN Claimed(table[s], t) ELSE table[s]]
         \/ new = [s \in Step |-> IF s \in S
                     THEN [Claimed(table[s], t) EXCEPT !.reclaims = 0] ELSE table[s]]
  PROVE  Kept(table, new) /\ \A s \in Step : IF s \in S THEN new[s].by = t ELSE new[s] = table[s]
<1>1. \A s \in S : table[s] \in Row BY DEF IsRow
<1>2. \A s \in S : /\ Claimed(table[s], t) \in Row /\ Claimed(table[s], t).by = t
                   /\ [Claimed(table[s], t) EXCEPT !.reclaims = 0] \in Row
                   /\ [Claimed(table[s], t) EXCEPT !.reclaims = 0].by = t
  BY <1>1, RowsStayRows
<1>3. \A r \in Row : IsRow(r) BY RowsStayRows
<1> QED BY <1>2, <1>3 DEF Kept

\* A row that is un-claimed by its token stays a row.
LEMMA ClearedKeeps ==
  ASSUME NEW table \in [Step -> Row \union {NoRow}], NEW t \in Token, NEW S \in SUBSET Step
  PROVE  Kept(table, Cleared(table, t, S))
<1>1. \A s \in Step : IsRow(table[s]) => table[s] \in Row BY DEF IsRow
<1>2. ASSUME NEW s \in Step
      PROVE  /\ Cleared(table, t, S)[s] \in Row \union {NoRow}
             /\ IsRow(Cleared(table, t, S)[s]) <=> IsRow(table[s])
  BY <1>1, RowsStayRows DEF Cleared, Mine
<1> QED BY <1>2 DEF Kept, Cleared

\* What HandBack does to the rows of some tokens.
Back(table, T) == [s \in Step |-> IF IsRow(table[s]) /\ table[s].by \in T
                                  THEN Unclaimed(table[s]) ELSE table[s]]

\* Renewed, handed back or orphaned, the rows of some tokens stay rows; the
\* others are not touched.
LEMMA TokensKeep ==
  ASSUME NEW table \in [Step -> Row \union {NoRow}], NEW T \in SUBSET Token
  PROVE  /\ Kept(table, Renewed(table, T)) /\ Kept(table, Orphaned(table, T))
         /\ Kept(table, Back(table, T))
         /\ \A s \in Step, t \in Token :
              /\ Mine(Renewed(table, T)[s], t) => Mine(table[s], t)
              /\ Mine(Orphaned(table, T)[s], t) => Mine(table[s], t) /\ t \notin T
              /\ Mine(Back(table, T)[s], t) => Mine(table[s], t)
<1> DEFINE back == Back(table, T)
<1>0. NoToken \notin Token /\ LostToken \notin Token BY TransportAssumption
<1>1. \A s \in Step : IsRow(table[s]) => table[s] \in Row BY DEF IsRow
<1>2. ASSUME NEW s \in Step
      PROVE  /\ Renewed(table, T)[s] \in Row \union {NoRow}
             /\ IsRow(Renewed(table, T)[s]) <=> IsRow(table[s])
             /\ IsRow(table[s]) => Renewed(table, T)[s].by = table[s].by
  BY <1>1, RowsStayRows DEF Renewed
<1>3. ASSUME NEW s \in Step
      PROVE  /\ Orphaned(table, T)[s] \in Row \union {NoRow}
             /\ IsRow(Orphaned(table, T)[s]) <=> IsRow(table[s])
             /\ \/ Orphaned(table, T)[s] = table[s] /\ (IsRow(table[s]) => table[s].by \notin T)
                \/ Orphaned(table, T)[s].by = LostToken
  BY <1>1, RowsStayRows DEF Orphaned
<1>4. ASSUME NEW s \in Step
      PROVE  /\ back[s] \in Row \union {NoRow}
             /\ IsRow(back[s]) <=> IsRow(table[s])
             /\ back[s] = table[s] \/ back[s].by = NoToken
  BY <1>1, RowsStayRows DEF Back
<1>5. Kept(table, Renewed(table, T)) BY <1>2 DEF Kept, Renewed
<1>6. Kept(table, Orphaned(table, T)) BY <1>3 DEF Kept, Orphaned
<1>7. Kept(table, back) BY <1>4 DEF Kept, Back
<1> HIDE DEF back
<1>8. ASSUME NEW s \in Step, NEW t \in Token
      PROVE  /\ Mine(Renewed(table, T)[s], t) => Mine(table[s], t)
             /\ Mine(Orphaned(table, T)[s], t) => Mine(table[s], t) /\ t \notin T
             /\ Mine(back[s], t) => Mine(table[s], t)
  BY <1>0, <1>2, <1>3, <1>4 DEF Mine
<1> QED BY <1>5, <1>6, <1>7, <1>8 DEF back

\* What the transport does of itself: it answers what is out, forgets what was
\* read, or takes it out of the box.
Inner == \/ UNCHANGED Mailbox!vars
         \/ \E s \in Step : Mailbox!Answer(s)
         \/ \E S \in SUBSET Step : Mailbox!Forget(S) \/ Mailbox!Ack(S)

\* That, a step handed over and an answer read are what a mailbox does.
LEMMA MailboxMoves ==
  ASSUME Inner \/ \E s \in Step : Mailbox!Put(s) \/ Mailbox!Read(s)
  PROVE  [Mailbox!Next]_(Mailbox!vars)
BY DEF Inner, Mailbox!Next

\* So nothing gets out of it that was not in, nothing is lost that was not read,
\* and nothing is read.
LEMMA InnerLoses ==
  ASSUME Inner
  PROVE  /\ Out' \subseteq Out /\ Out' \union InBox' \subseteq Out \union InBox
         /\ HasRead' \subseteq HasRead
         /\ \A s \in Step : s \in Out \union InBox /\ s \notin HasRead => s \in Out' \union InBox'
BY DEF Inner, Mailbox!vars, Mailbox!Answer, Mailbox!Forget, Mailbox!Ack, Out, InBox, HasRead, ReadBy

\* Forgetting what was read, or nothing, is a step of the mailbox.
LEMMA Forgotten ==
  ASSUME Out' = Out, InBox' = InBox, HasRead' \subseteq HasRead
  PROVE  Inner
<1>1. PICK S \in SUBSET Step : S = HasRead \ HasRead' BY DEF HasRead
<1>2. Mailbox!Forget(S)
  BY <1>1 DEF Mailbox!Forget, HasRead, Out, InBox, ReadBy
<1> QED BY <1>2 DEF Inner

\* The same, of both tables and the rounds' memories.
LEMMA KeptForgets ==
  ASSUME TransportTypes, Kept(task, task'), Kept(result, result'), round' \in [Token -> Round],
         \A s \in Step, t \in Token : ReadBy(t, s)' => ReadBy(t, s)
  PROVE  TransportTypes' /\ Inner
<1>1. TransportTypes' BY DEF TransportTypes, Kept
<1>2. Out' = Out /\ InBox' = InBox BY DEF Out, InBox, Kept
<1>3. HasRead' \subseteq HasRead BY DEF HasRead
<1> QED BY <1>1, <1>2, <1>3, Forgotten

\* A table nobody writes is kept.
LEMMA KeptSame == ASSUME NEW table \in [Step -> Row \union {NoRow}] PROVE Kept(table, table)
BY DEF Kept

\* Writing one step's job is writing a round.
LEMMA JobShape ==
  ASSUME NEW r \in Round, NEW s \in Step, NEW j \in Jobs
  PROVE  /\ [r EXCEPT !.job[s] = j] \in Round
         /\ [r EXCEPT !.job[s] = j].kind = r.kind
         /\ [r EXCEPT !.job[s] = j].job = [r.job EXCEPT ![s] = j]
         /\ [r EXCEPT !.job[s] = j].inst = r.inst /\ [r EXCEPT !.job[s] = j].gen = r.gen
BY DEF Round

-----------------------------------------------------------------------------
\* The task loop.
LEMMA ClaimTasksMaps ==
  ASSUME TransportTypes, NEW i \in Inst, NEW t \in Token, ClaimTasks(i, t)
  PROVE  TransportTypes' /\ Inner
<1> USE DEF TransportTypes
<1>1. PICK S \in SUBSET {s \in Step : Claimable(task[s])} :
        /\ task' = [s \in Step |-> IF s \in S THEN Claimed(task[s], t) ELSE task[s]]
        /\ round' = [round EXCEPT ![t] =
             [Idle EXCEPT !.kind = "tasks", !.inst = i,
                          !.job = [s \in Step |-> IF s \in S THEN "claimed" ELSE "none"],
                          !.gen = [s \in Step |-> IF s \in S THEN task[s].gen ELSE 1]]]
  BY DEF ClaimTasks
<1>2. Kept(task, task')
  <2>1. S \in SUBSET Step /\ \A s \in S : IsRow(task[s]) BY DEF Claimable
  <2> QED BY <1>1, <2>1, ClaimKeeps
<1>3. \A s \in S : task[s].gen \in Nat BY DEF Claimable, IsRow, Row
<1>4. [Idle EXCEPT !.kind = "tasks", !.inst = i,
                   !.job = [s \in Step |-> IF s \in S THEN "claimed" ELSE "none"],
                   !.gen = [s \in Step |-> IF s \in S THEN task[s].gen ELSE 1]]
        \in [kind : {"tasks"}, inst : Inst, job : [Step -> Jobs], gen : [Step -> Nat],
             ok : [Step -> BOOLEAN]]
  BY <1>3, IdleRound DEF Round, Jobs
<1>5. round'[t].kind = "tasks" /\ \A u \in Token : u # t => round'[u] = round[u]
  BY <1>1, <1>4
<1>6. round' \in [Token -> Round] BY <1>1, <1>4 DEF Round
<1>7. result' = result BY DEF ClaimTasks
<1> QED BY <1>2, <1>5, <1>6, <1>7, KeptForgets, KeptSame DEF ReadBy, Mine

\* Taking a round changes nothing of the mailbox.
LEMMA TakeRoundMaps ==
  ASSUME TransportTypes, NEW t \in Token, TakeRound(t)
  PROVE  TransportTypes' /\ Inner
<1> USE DEF TransportTypes
<1> DEFINE got == {s \in Step : round[t].job[s] = "claimed"}
<1>1. result' = result /\ round[t].kind = "tasks" BY DEF TakeRound
<1>2. \E S \in SUBSET Step : task' = Cleared(task, t, S) BY DEF TakeRound
<1>3. Kept(task, task') BY <1>2, ClearedKeeps
<1>4. PICK r : /\ round' = [round EXCEPT ![t] = r]
               /\ r = Idle \/ \E fits \in SUBSET got :
                    r = [round[t] EXCEPT !.job = [s \in Step |-> IF s \in fits THEN "taken" ELSE "none"]]
  BY DEF TakeRound
<1>5. r \in Round /\ r.kind # "results"
  <2>1. CASE r = Idle BY <2>1, IdleRound
  <2>2. CASE r # Idle
    <3>1. PICK fits \in SUBSET got :
            r = [round[t] EXCEPT !.job = [s \in Step |-> IF s \in fits THEN "taken" ELSE "none"]]
      BY <1>4, <2>2
    <3>2. [s \in Step |-> IF s \in fits THEN "taken" ELSE "none"] \in [Step -> Jobs] BY DEF Jobs
    <3> QED BY <1>1, <3>1, <3>2 DEF Round
  <2> QED BY <2>1, <2>2
<1>6. /\ round' \in [Token -> Round]
      /\ round'[t].kind # "results" /\ \A u \in Token : u # t => round'[u] = round[u]
  BY <1>4, <1>5
<1> QED BY <1>1, <1>3, <1>6, KeptForgets, KeptSame DEF ReadBy, Mine

\* A handler's progress: one job of one round, to anything but "read".
LEMMA JobForgets ==
  ASSUME TransportTypes, NEW t \in Token, NEW s \in Step, Kept(task, task'), result' = result,
         NEW r \in Round, round' = [round EXCEPT ![t] = r],
         \A x \in Step : r.kind = "results" /\ r.job[x] = "read"
                           => round[t].kind = "results" /\ round[t].job[x] = "read"
  PROVE  TransportTypes' /\ Inner
<1>1. round' \in [Token -> Round] BY DEF TransportTypes
<1>2. \A x \in Step, u \in Token : ReadBy(u, x)' => ReadBy(u, x)
  BY DEF TransportTypes, ReadBy, Mine
<1> QED BY <1>1, <1>2, KeptForgets, KeptSame DEF TransportTypes

\* Nor does a handler that starts: it renews its row.
LEMMA StartTaskMaps ==
  ASSUME TransportTypes, NEW t \in Token, NEW s \in Step, StartTask(t, s)
  PROVE  TransportTypes' /\ Inner
<1> USE DEF TransportTypes
<1>1. round[t] \in Round /\ round[t].job[s] = "taken" /\ result' = result BY DEF StartTask
<1>2. Kept(task, task')
  <2>1. CASE task' = task BY <2>1, KeptSame
  <2>2. CASE task' = [task EXCEPT ![s].lapsed = FALSE] /\ Mine(task[s], t)
    <3>1. task[s] \in Row BY <2>2 DEF Mine, IsRow
    <3>2. [task[s] EXCEPT !.lapsed = FALSE] \in Row BY <3>1, RowsStayRows
    <3>3. task' = [task EXCEPT ![s] = [task[s] EXCEPT !.lapsed = FALSE]] BY <2>2
    <3> QED BY <3>1, <3>2, <3>3, RowsStayRows DEF Kept
  <2> QED BY <2>1, <2>2 DEF StartTask
<1>3. PICK r : /\ round' = [round EXCEPT ![t] = r]
               /\ r \in {[round[t] EXCEPT !.job[s] = "poison"],
                         [round[t] EXCEPT !.job[s] = "running"], Finished(round[t], s)}
  BY DEF StartTask
<1>4. r \in Round /\ \A x \in Step : r.kind = "results" /\ r.job[x] = "read"
                           => round[t].kind = "results" /\ round[t].job[x] = "read"
  <2>1. ASSUME NEW j \in {"poison", "running"}, r = [round[t] EXCEPT !.job[s] = j]
        PROVE  r \in Round /\ r.kind = round[t].kind /\ r.job = [round[t].job EXCEPT ![s] = j]
    <3>1. j \in Jobs BY DEF Jobs
    <3> QED BY <1>1, <2>1, <3>1, JobShape
  <2>2. round[t].job \in [Step -> Jobs] BY <1>1 DEF Round
  <2>3. CASE r = Finished(round[t], s) BY <1>1, <2>3, FinishedRound
  <2>4. CASE r # Finished(round[t], s) BY <1>3, <2>1, <2>2, <2>4
  <2> QED BY <2>3, <2>4
<1> QED BY <1>1, <1>2, <1>3, <1>4, JobForgets

\* Nor does one that is done: its answer comes with the settle.
LEMMA HandlerDoneMaps ==
  ASSUME TransportTypes, NEW t \in Token, NEW s \in Step, NEW ok \in BOOLEAN,
         HandlerDone(t, s, ok)
  PROVE  TransportTypes' /\ Inner
<1> DEFINE r == [[round[t] EXCEPT !.job[s] = "ran"] EXCEPT !.ok[s] = ok]
<1>1. round' = [round EXCEPT ![t] = r] /\ task' = task /\ result' = result
  BY DEF HandlerDone, TransportTypes
<1>2. round[t] \in Round BY DEF TransportTypes
<1>3. r \in Round /\ r.kind = round[t].kind /\ r.job = [round[t].job EXCEPT ![s] = "ran"]
  BY <1>2, JobShape DEF Round, Jobs
<1>4. Kept(task, task') BY <1>1, KeptSame DEF TransportTypes
<1> HIDE DEF r
<1>5. \A x \in Step : r.kind = "results" /\ r.job[x] = "read"
                        => round[t].kind = "results" /\ round[t].job[x] = "read"
  BY <1>2, <1>3 DEF Round
<1> QED BY <1>1, <1>3, <1>4, <1>5, JobForgets

\* The transaction of a settle: the task row goes, and the result is there.
LEMMA SettleTaskMaps ==
  ASSUME TransportTypes, NEW t \in Token, NEW s \in Step, SettleTask(t, s)
  PROVE  TransportTypes' /\ Inner
<1> DEFINE r == Finished(round[t], s)
<1>1. /\ round[t] \in Round /\ round[t].job[s] \in {"ran", "poison"}
      /\ round' = [round EXCEPT ![t] = r]
  BY DEF SettleTask, TransportTypes
<1>2. /\ r \in Round
      /\ \A x \in Step : (r.kind = "results" /\ r.job[x] = "read")
                           <=> (round[t].kind = "results" /\ round[t].job[x] = "read")
  BY <1>1, FinishedRound
<1> HIDE DEF r
<1>3. CASE task' = task /\ result' = result
  BY <1>1, <1>2, <1>3, KeptSame, JobForgets, ZenonT(60) DEF TransportTypes
<1>4. CASE ~(task' = task /\ result' = result)
  <2> DEFINE new == NewRow(round[t].gen[s], round[t].job[s] = "ran" /\ round[t].ok[s])
  <2>1. /\ Mine(task[s], t) /\ task' = [task EXCEPT ![s] = NoRow]
        /\ result' = Inserted(result, s, new)
    BY <1>4 DEF SettleTask
  <2>2. new \in Row /\ new.by = NoToken BY <1>1, NewRowIsRow DEF Round
  <2> HIDE DEF new
  <2>3. TransportTypes'
    BY <1>1, <1>2, <2>1, <2>2 DEF TransportTypes, Inserted
  <2>4. s \in Out /\ Out' = Out \ {s}
    BY <2>1 DEF Out, Mine, IsRow, TransportTypes
  <2>5. InBox' = InBox \union {s}
    <3>1. IsRow(new) BY <2>2, RowsStayRows
    <3>2. CASE IsRow(result[s]) BY <2>1, <3>2 DEF InBox, Inserted
    <3>3. CASE ~IsRow(result[s])
      <4>1. result' = [result EXCEPT ![s] = new] BY <2>1, <3>3 DEF Inserted
      <4> QED BY <3>1, <4>1 DEF InBox, TransportTypes
    <3> QED BY <3>2, <3>3
  <2>6. HasRead' = HasRead
    <3>1. ASSUME NEW x \in Step, NEW u \in Token PROVE ReadBy(u, x)' <=> ReadBy(u, x)
      <4>1. Mine(result'[x], u) <=> Mine(result[x], u)
        BY <2>1, <2>2, TransportAssumption DEF Inserted, Mine, IsRow, TransportTypes
      <4> QED BY <1>1, <1>2, <4>1 DEF ReadBy, TransportTypes
    <3> QED BY <3>1 DEF HasRead
  <2>7. Mailbox!Answer(s)
    BY <2>4, <2>5, <2>6 DEF Mailbox!Answer, Out, InBox, HasRead, ReadBy
  <2> QED BY <2>3, <2>7 DEF Inner
<1> QED BY <1>3, <1>4

-----------------------------------------------------------------------------
\* The result loop.
LEMMA ClaimResultsMaps ==
  ASSUME TransportTypes, NEW i \in Inst, NEW t \in Token, ClaimResults(i, t)
  PROVE  TransportTypes' /\ Inner
<1> DEFINE new(S) == [Idle EXCEPT !.kind = "results", !.inst = i,
                        !.job = [s \in Step |-> IF s \in S THEN "handed" ELSE "none"],
                        !.gen = [s \in Step |-> IF s \in S THEN result[s].gen ELSE 1],
                        !.ok = [s \in Step |-> s \in S /\ result[s].ok]]
<1>1. PICK S \in SUBSET {s \in Step : Claimable(result[s])} :
        /\ result' = [s \in Step |-> IF s \in S
                        THEN [Claimed(result[s], t) EXCEPT !.reclaims = 0] ELSE result[s]]
        /\ round' = [round EXCEPT ![t] = new(S)]
  BY DEF ClaimResults
<1>2. S \in SUBSET Step /\ \A s \in S : IsRow(result[s]) BY DEF Claimable
<1>3. /\ Kept(result, result')
      /\ \A s \in Step : IF s \in S THEN result'[s].by = t ELSE result'[s] = result[s]
  BY <1>1, <1>2, ClaimKeeps, SMTT(30) DEF TransportTypes
<1>4. \A s \in S : result[s] \in Row BY <1>2 DEF IsRow, TransportTypes
<1>5. /\ [s \in Step |-> IF s \in S THEN result[s].gen ELSE 1] \in [Step -> Nat]
      /\ [s \in Step |-> IF s \in S THEN "handed" ELSE "none"] \in [Step -> Jobs]
      /\ [s \in Step |-> s \in S /\ result[s].ok] \in [Step -> BOOLEAN]
  BY <1>4 DEF Row, Jobs
<1>6. new(S) \in Round /\ \A s \in Step : new(S).job[s] # "read"
  BY <1>5, IdleRound DEF Round
<1> HIDE DEF new
<1>7. round' \in [Token -> Round] BY <1>1, <1>6 DEF TransportTypes
<1>8. ASSUME NEW s \in Step, NEW u \in Token, ReadBy(u, s)' PROVE ReadBy(u, s)
  <2>1. u # t BY <1>1, <1>6, <1>8 DEF ReadBy, TransportTypes
  <2>2. round'[u] = round[u] /\ s \notin S BY <1>1, <1>3, <1>8, <2>1 DEF ReadBy, Mine, TransportTypes
  <2> QED BY <1>3, <1>8, <2>2 DEF ReadBy
<1>9. task' = task BY DEF ClaimResults
<1> QED BY <1>3, <1>7, <1>8, <1>9, KeptForgets, KeptSame DEF TransportTypes

\* A handler returned: its round has read the answer, if the row is still its own.
LEMMA ReturnedMaps ==
  ASSUME TransportTypes, NEW t \in Token, NEW s \in Step, Returned(t, s)
  PROVE  TransportTypes' /\ (Mailbox!Read(s) \/ Inner)
<1> DEFINE r == [round[t] EXCEPT !.job[s] = "read"]
<1>1. /\ round[t] \in Round /\ round' = [round EXCEPT ![t] = r]
      /\ task' = task /\ result' = result
  BY DEF Returned, TransportTypes
<1>2. r \in Round /\ r.kind = round[t].kind /\ r.job = [round[t].job EXCEPT ![s] = "read"]
  BY <1>1, JobShape DEF Jobs
<1> HIDE DEF r
<1>3. TransportTypes' BY <1>1, <1>2 DEF TransportTypes
<1>4. Out' = Out /\ InBox' = InBox BY <1>1 DEF Out, InBox
<1>5. ASSUME NEW x \in Step, NEW u \in Token
      PROVE  ReadBy(u, x)' <=> ReadBy(u, x) \/ (u = t /\ x = s /\ Mine(result[s], t)
                                                /\ round[t].kind = "results")
  BY <1>1, <1>2 DEF ReadBy, TransportTypes, Round
<1>6. CASE Mine(result[s], t) /\ round[t].kind = "results"
  <2>1. HasRead' = HasRead \union {s} /\ s \in InBox BY <1>5, <1>6 DEF HasRead, InBox, Mine
  <2>2. Mailbox!Read(s)
    BY <1>4, <2>1 DEF Mailbox!Read, Out, InBox, HasRead, ReadBy
  <2> QED BY <1>3, <2>2
<1>7. CASE ~(Mine(result[s], t) /\ round[t].kind = "results")
  <2>1. HasRead' \subseteq HasRead BY <1>5, <1>7 DEF HasRead
  <2> QED BY <1>3, <1>4, <2>1, Forgotten
<1> QED BY <1>6, <1>7

\* A handler of results that throws leaves its row in the box.
LEMMA ThrewMaps ==
  ASSUME TransportTypes, NEW t \in Token, NEW s \in Step, Threw(t, s)
  PROVE  TransportTypes' /\ Inner
<1> DEFINE r == [round[t] EXCEPT !.job[s] = "threw"]
<1>1. /\ round[t] \in Round /\ round' = [round EXCEPT ![t] = r]
      /\ task' = task /\ result' = result
  BY DEF Threw, TransportTypes
<1>2. r \in Round /\ r.kind = round[t].kind /\ r.job = [round[t].job EXCEPT ![s] = "threw"]
  BY <1>1, JobShape DEF Jobs
<1> HIDE DEF r
<1>3. \A x \in Step : r.kind = "results" /\ r.job[x] = "read"
                        => round[t].kind = "results" /\ round[t].job[x] = "read"
  BY <1>1, <1>2 DEF Round
<1> QED BY <1>1, <1>2, <1>3, JobForgets, KeptSame DEF TransportTypes

\* One DELETE for what was read under the token: the box loses nothing else.
LEMMA DeleteReadMaps ==
  ASSUME TransportTypes, NEW t \in Token, DeleteRead(t)
  PROVE  TransportTypes' /\ Inner
<1>1. /\ round' = [round EXCEPT ![t] = Idle] /\ round[t].kind = "results" /\ task' = task
      /\ \/ result' = [s \in Step |-> IF round[t].job[s] = "read" /\ Mine(result[s], t)
                                      THEN NoRow ELSE result[s]]
         \/ result' = result
  BY DEF DeleteRead
<1>2. TransportTypes' BY <1>1, IdleRound DEF TransportTypes
<1>3. ASSUME NEW s \in Step, NEW u \in Token
      PROVE  ReadBy(u, s)' => ReadBy(u, s) /\ u # t
  BY <1>1, IdleRound DEF ReadBy, Mine, IsRow, TransportTypes
<1>4. CASE result' = result
  <2>1. Out' = Out /\ InBox' = InBox /\ HasRead' \subseteq HasRead
    BY <1>1, <1>3, <1>4 DEF Out, InBox, HasRead
  <2> QED BY <1>2, <2>1, Forgotten
<1>5. CASE result' = [s \in Step |-> IF round[t].job[s] = "read" /\ Mine(result[s], t)
                                     THEN NoRow ELSE result[s]]
  <2>1. PICK S \in SUBSET Step : S = {s \in Step : ReadBy(t, s)} OBVIOUS
  <2>2. ASSUME NEW s \in Step
        PROVE  result'[s] = IF s \in S THEN NoRow ELSE result[s]
    BY <1>1, <1>5, <2>1 DEF ReadBy
  <2>3. InBox' = InBox \ S /\ Out' = Out /\ S \subseteq HasRead
    BY <1>1, <2>1, <2>2 DEF InBox, Out, IsRow, HasRead
  <2>4. ASSUME NEW s \in Step, NEW u \in Token
        PROVE  ReadBy(u, s)' <=> ReadBy(u, s) /\ s \notin S
    <3>1. CASE s \in S
      <4>1. ~IsRow(result'[s]) BY <2>2, <3>1 DEF IsRow
      <4> QED BY <3>1, <4>1 DEF ReadBy, Mine
    <3>2. CASE s \notin S
      <4>1. result'[s] = result[s] BY <2>2, <3>2
      <4>2. CASE u = t BY <1>3, <2>1, <3>2, <4>2
      <4>3. CASE u # t
        <5>1. round'[u] = round[u] BY <1>1, <4>3 DEF TransportTypes
        <5> QED BY <3>2, <4>1, <5>1 DEF ReadBy
      <4> QED BY <4>2, <4>3
    <3> QED BY <3>1, <3>2
  <2>5. HasRead' = HasRead \ S BY <2>4 DEF HasRead
  <2>6. Mailbox!Ack(S)
    BY <2>3, <2>5 DEF Mailbox!Ack, Out, InBox, HasRead, ReadBy
  <2> QED BY <1>2, <2>6 DEF Inner
<1> QED BY <1>1, <1>4, <1>5

-----------------------------------------------------------------------------
\* Leases, deaths and the operations of the engine.
LEMMA LapseMaps ==
  ASSUME TransportTypes, NEW s \in Step, Lapse(s)
  PROVE  TransportTypes' /\ Inner
<1> USE DEF TransportTypes
<1>1. ASSUME NEW table \in [Step -> Row \union {NoRow}], IsRow(table[s])
      PROVE  /\ Kept(table, [table EXCEPT ![s].lapsed = TRUE])
             /\ \A x \in Step, t \in Token :
                  Mine([table EXCEPT ![s].lapsed = TRUE][x], t) => Mine(table[x], t)
  <2> DEFINE n == [table[s] EXCEPT !.lapsed = TRUE]
  <2>1. n \in Row /\ n.by = table[s].by /\ IsRow(n) BY <1>1, RowsStayRows DEF IsRow
  <2>2. [table EXCEPT ![s].lapsed = TRUE] = [table EXCEPT ![s] = n] OBVIOUS
  <2> HIDE DEF n
  <2> QED BY <1>1, <2>1, <2>2 DEF Kept, Mine
<1>2. round' = round BY DEF Lapse
<1>3. CASE task' = [task EXCEPT ![s].lapsed = TRUE] /\ result' = result /\ IsRow(task[s])
  BY <1>1, <1>2, <1>3, KeptSame, KeptForgets DEF ReadBy
<1>4. CASE result' = [result EXCEPT ![s].lapsed = TRUE] /\ task' = task /\ IsRow(result[s])
  BY <1>1, <1>2, <1>4, KeptSame, KeptForgets DEF ReadBy
<1> QED BY <1>3, <1>4 DEF Lapse, RunsOut

\* Renewals and hand-backs touch the tokens of rows only.
LEMMA RenewMaps ==
  ASSUME TransportTypes, NEW i \in Inst, Renew(i) \/ HandBack(i)
  PROVE  TransportTypes' /\ Inner
<1> USE DEF TransportTypes
<1>1. PICK T \in SUBSET Token : T = {t \in Token : held[t] # {} /\ round[t].inst = i} OBVIOUS
<1>2. round' = round BY DEF Renew, HandBack
<1>3. CASE Renew(i)
  <2>1. task' = Renewed(task, T) /\ result' = Renewed(result, T) BY <1>1, <1>3 DEF Renew
  <2> QED BY <1>2, <2>1, TokensKeep, KeptForgets DEF ReadBy
<1>4. CASE HandBack(i)
  <2>1. task' = Back(task, T) /\ result' = Back(result, T)
    BY <1>1, <1>4 DEF HandBack, Back
  <2> QED BY <1>2, <2>1, TokensKeep, KeptForgets DEF ReadBy
<1> QED BY <1>3, <1>4

\* So does a process that is gone.
LEMMA DeadMaps ==
  ASSUME TransportTypes, NEW i \in Inst, Dead(i)
  PROVE  TransportTypes' /\ Inner
<1> USE DEF TransportTypes
<1>1. PICK T \in SUBSET Token : T = {t \in Token : round[t].inst = i /\ round[t].kind # "idle"}
  OBVIOUS
<1>2. /\ task' = Orphaned(task, T) /\ result' = Orphaned(result, T)
      /\ round' = [t \in Token |-> IF round[t].inst = i THEN Idle ELSE round[t]]
  BY <1>1 DEF Dead
<1>3. round' \in [Token -> Round] BY <1>2, IdleRound
<1>4. \A s \in Step, t \in Token : ReadBy(t, s)' => ReadBy(t, s)
  BY <1>2, IdleRound, TokensKeep DEF ReadBy
<1> QED BY <1>2, <1>3, <1>4, TokensKeep, KeptForgets

\* The engine hands a step over: again, perhaps, and then nothing changes.
LEMMA DispatchMaps ==
  ASSUME TransportTypes, NEW s \in Step, NEW g \in Nat, Dispatch(s, g)
  PROVE  TransportTypes' /\ Mailbox!Put(s)
<1> DEFINE new == NewRow(g, FALSE)
<1>1. new \in Row /\ IsRow(new) BY NewRowIsRow, RowsStayRows
<1>2. task' = Inserted(task, s, new) /\ UNCHANGED <<result, round>> BY DEF Dispatch
<1> HIDE DEF new
<1>3. TransportTypes' BY <1>1, <1>2 DEF Inserted, TransportTypes
<1>4. Out' = Out \union {s}
  <2>1. CASE IsRow(task[s]) BY <1>2, <2>1 DEF Out, Inserted
  <2>2. CASE ~IsRow(task[s])
    <3>1. task' = [task EXCEPT ![s] = new] BY <1>2, <2>2 DEF Inserted
    <3> QED BY <1>1, <3>1 DEF Out, TransportTypes
  <2> QED BY <2>1, <2>2
<1>5. InBox' = InBox /\ HasRead' = HasRead BY <1>2 DEF InBox, HasRead, ReadBy
<1>6. Mailbox!Put(s) BY <1>4, <1>5 DEF Mailbox!Put, Out, InBox, HasRead, ReadBy
<1> QED BY <1>3, <1>6

\* Where the tables and rounds are left alone, the mailbox is.
LEMMA NothingMaps ==
  ASSUME TransportTypes, UNCHANGED <<task, result, round>>
  PROVE  TransportTypes' /\ Inner
BY KeptSame, KeptForgets DEF TransportTypes, ReadBy

\* What the transport does of itself.
LEMMA TransportMaps ==
  ASSUME TransportTypes, TransportStep \/ \E i \in Inst : Crash(i)
  PROVE  TransportTypes' /\ Inner
<1>1. ASSUME NEW i \in Inst, Crash(i) \/ Exit(i) PROVE Dead(i) BY <1>1 DEF Crash, Exit
<1>2. ASSUME NEW i \in Inst, Stop(i) PROVE UNCHANGED <<task, result, round>> BY <1>2 DEF Stop
<1>3. ASSUME NEW t \in Token, RoundRead(t) PROVE UNCHANGED <<task, result, round>>
  BY <1>3 DEF RoundRead
<1> QED
  BY <1>1, <1>2, <1>3, ClaimTasksMaps, TakeRoundMaps, StartTaskMaps, HandlerDoneMaps,
     SettleTaskMaps, ClaimResultsMaps, DeleteReadMaps, LapseMaps, RenewMaps, DeadMaps,
     NothingMaps DEF TransportStep

\* At the start the box is empty.
LEMMA InitMaps == ASSUME TransportInit PROVE TransportTypes /\ Mailbox!Init
<1>1. TransportTypes BY IdleRound DEF TransportInit, TransportTypes
<1>2. Out = {} /\ InBox = {} /\ HasRead = {}
  BY DEF TransportInit, Out, InBox, HasRead, ReadBy, Mine, IsRow
<1> QED BY <1>1, <1>2 DEF Mailbox!Init, Out, InBox, HasRead, ReadBy

\* Whoever uses the transport, and in whatever order, it keeps a step until it is
\* answered and an answer until it was read by a round that still has its row.
THEOREM TransportIsMailbox == TransportSpec => Mailbox!Spec
<1>1. TransportTypes /\ [TransportNext]_transportVars
        => TransportTypes' /\ [Mailbox!Next]_(Mailbox!vars)
  <2> SUFFICES ASSUME TransportTypes, [TransportNext]_transportVars
               PROVE  TransportTypes' /\ [Mailbox!Next]_(Mailbox!vars)
    OBVIOUS
  <2>1. CASE UNCHANGED transportVars BY <2>1, NothingMaps, MailboxMoves DEF transportVars
  <2>2. CASE TransportNext
    <3>1. \A g \in Gen : g \in Nat BY DEF Gen
    <3> QED
      BY <2>2, <3>1, TransportMaps, DispatchMaps, ReturnedMaps, ThrewMaps, MailboxMoves
         DEF TransportNext
  <2> QED BY <2>1, <2>2
<1> QED BY <1>1, InitMaps, PTL DEF TransportSpec, Mailbox!Spec

-----------------------------------------------------------------------------
(* What the tokens, the leases and the counts rest on: an inductive invariant. *)

TaskJobs   == {"claimed", "taken", "running", "ran", "poison"}
ResultJobs == {"handed", "read", "threw"}
HeldJobs   == {"taken", "running"} \union ResultJobs

Books ==
    /\ held \in [Token -> SUBSET Step]
    /\ closing \subseteq Inst
    /\ fault \in [Disturbances -> Nat]
    /\ starts \in [Step -> Nat]

\* Rows are of attempts that are told apart; takeovers are counted to the bound.
RowsBounded ==
    \A s \in Step :
      /\ IsRow(task[s]) => task[s].gen \in Gen /\ task[s].reclaims <= MaxStalled + 1
      /\ IsRow(result[s]) => result[s].gen \in Gen

\* A round does the jobs of its kind; it holds rows between its claim and the
\* end of their handlers, and none while its claim is under way.
RoundFits(t) ==
    /\ round[t].gen \in [Step -> Gen]
    /\ \A s \in Step :
         /\ round[t].job[s] \in TaskJobs => round[t].kind = "tasks"
         /\ round[t].job[s] \in ResultJobs => round[t].kind = "results"
         /\ s \in held[t] => round[t].job[s] \in HeldJobs
         /\ round[t].job[s] = "claimed" =>
              \A x \in Step : round[t].job[x] \in {"none", "claimed"}
RoundsFit == \A t \in Token : RoundFits(t)

\* A round of an instance that is not closing holds what it runs, and as long
\* as no renewal came late, what it runs is its own row, on a live lease.
RunsItsOwn(t) ==
    round[t].inst \notin closing =>
      \A s \in Step :
        /\ round[t].job[s] \in {"taken", "running"} => s \in held[t]
        /\ (fault.late = 0 /\ round[t].job[s] = "running")
             => Mine(task[s], t) /\ ~task[s].lapsed
Runners == \A t \in Token : RunsItsOwn(t)

\* The start of a handler whose row is still its round's is counted.
StartsCounted(t) ==
    \A s \in Step :
      (Mine(task[s], t) /\ round[t].job[s] \in {"running", "ran"}) => starts[s] > 0
Started == \A t \in Token : StartsCounted(t)

TransportInv == Books /\ RowsBounded /\ RoundsFit /\ Runners /\ Started

\* Three ways in which a round moves on: what each keeps of the jobs.
LEMMA IdleFits == /\ Idle.job = NoJob /\ Idle.gen \in [Step -> Gen]
                  /\ \A s \in Step : Idle.job[s] = "none"
BY TransportAssumption DEF Idle, NoJob, Gen

\* A round that is through with a step has the jobs it had of the others.
LEMMA FinishedJobs ==
  ASSUME NEW r \in Round, NEW s \in Step
  PROVE  /\ Finished(r, s).job = [r.job EXCEPT ![s] = "none"]
         /\ r.gen \in [Step -> Gen] => Finished(r, s).gen \in [Step -> Gen]
         /\ (\E x \in Step : Finished(r, s).job[x] # "none")
              => Finished(r, s).kind = r.kind /\ Finished(r, s).inst = r.inst
<1> DEFINE left == [r EXCEPT !.job[s] = "none"]
<1>1. /\ left.kind = r.kind /\ left.job = [r.job EXCEPT ![s] = "none"]
      /\ left.gen = r.gen /\ left.inst = r.inst
  BY DEF Round
<1>2. CASE left.job = NoJob
  <2>1. Finished(r, s) = Idle BY <1>2 DEF Finished
  <2> QED BY <1>1, <1>2, <2>1, IdleFits
<1>3. CASE left.job # NoJob
  <2>1. Finished(r, s) = left BY <1>3 DEF Finished
  <2> HIDE DEF left
  <2> QED BY <1>1, <2>1
<1> QED BY <1>2, <1>3

\* What a claim, a release and a renewal do to a row's fields.
LEMMA RowFields ==
  ASSUME NEW row \in Row
  PROVE  /\ \A t \in Token :
              /\ Claimed(row, t).by = t /\ Claimed(row, t).lapsed = FALSE
              /\ Claimed(row, t).gen = row.gen
              /\ Claimed(row, t).reclaims =
                   IF ~Free(row) /\ row.reclaims <= MaxStalled THEN row.reclaims + 1
                   ELSE row.reclaims
         /\ /\ Unclaimed(row).by = NoToken /\ Unclaimed(row).gen = row.gen
            /\ Unclaimed(row).reclaims = row.reclaims
         /\ row.gen \in Nat /\ row.reclaims \in Nat
BY DEF Row, Claimed, Unclaimed

\* A round's token is new: it has no row, no job and holds nothing.
LEMMA FreshToken ==
  ASSUME TransportTypes, RoundsFit, NEW t \in Token, Fresh(t)
  PROVE  \A s \in Step : /\ ~Mine(task[s], t) /\ ~Mine(result[s], t)
                         /\ s \notin held[t] /\ round[t].job[s] = "none"
<1>1. t \in Unused BY DEF Fresh
<1>2. \A s \in Step : round[t].job[s] \in Jobs BY DEF TransportTypes, Round
<1>3. round[t].kind = "idle" BY <1>1 DEF Unused
<1>4. \A s \in Step : round[t].job[s] = "none"
  BY <1>2, <1>3 DEF RoundsFit, RoundFits, TaskJobs, ResultJobs, Jobs
<1> QED BY <1>1, <1>4 DEF Unused, RoundsFit, RoundFits, HeldJobs, ResultJobs

\* A step of one round that gets its own part right disturbs no other round: it
\* writes no row but its own, and gives none to another.
LEMMA OneRoundKeeps ==
  ASSUME RoundsFit, Runners, Started, NEW t \in Token,
         \A u \in Token : u # t => round'[u] = round[u] /\ held'[u] = held[u],
         \A s \in Step : task'[s] # task[s] =>
             \A u \in Token : u # t => ~Mine(task'[s], u) /\ (Mine(task[s], u) => task[s].lapsed),
         \A s \in Step : starts'[s] # starts[s] =>
             \A u \in Token : u # t => ~Mine(task'[s], u),
         closing' = closing, fault'.late = fault.late,
         RoundFits(t)', RunsItsOwn(t)', StartsCounted(t)'
  PROVE  RoundsFit' /\ Runners' /\ Started'
<1>1. ASSUME NEW u \in Token, u # t PROVE RoundFits(u)'
  BY <1>1 DEF RoundsFit, RoundFits
<1>2. ASSUME NEW u \in Token, u # t PROVE RunsItsOwn(u)'
  BY <1>2 DEF Runners, RunsItsOwn
<1>3. ASSUME NEW u \in Token, u # t PROVE StartsCounted(u)'
  BY <1>3 DEF Started, StartsCounted
<1> QED BY <1>1, <1>2, <1>3 DEF RoundsFit, Runners, Started

\* A claim names its round in every row it takes, and charges the takeover.
LEMMA ClaimTasksKeeps ==
  ASSUME TransportTypes, TransportInv, NEW i \in Inst, NEW t \in Token, ClaimTasks(i, t)
  PROVE  TransportInv'
<1> USE DEF TransportTypes, TransportInv
<1> DEFINE new(S) == [Idle EXCEPT !.kind = "tasks", !.inst = i,
                        !.job = [s \in Step |-> IF s \in S THEN "claimed" ELSE "none"],
                        !.gen = [s \in Step |-> IF s \in S THEN task[s].gen ELSE 1]]
<1>1. PICK S \in SUBSET {s \in Step : Claimable(task[s])} :
        /\ task' = [s \in Step |-> IF s \in S THEN Claimed(task[s], t) ELSE task[s]]
        /\ round' = [round EXCEPT ![t] = new(S)]
  BY DEF ClaimTasks
<1>2. UNCHANGED <<result, held, closing, fault, starts>> BY DEF ClaimTasks
<1>3. \A s \in Step : ~Mine(task[s], t) /\ s \notin held[t]
  BY FreshToken DEF ClaimTasks
<1>4. \A s \in S : task[s] \in Row /\ IsRow(task[s]) /\ (Free(task[s]) \/ task[s].lapsed)
  BY <1>1 DEF Claimable, IsRow
<1>5. /\ new(S).kind = "tasks" /\ new(S).inst = i
      /\ \A s \in Step : new(S).job[s] = IF s \in S THEN "claimed" ELSE "none"
      /\ new(S).gen \in [Step -> Gen]
  <2>1. \A s \in S : task[s].gen \in Gen BY <1>4 DEF RowsBounded
  <2>2. 1 \in Gen BY TransportAssumption DEF Gen
  <2> QED BY <2>1, <2>2, IdleRound DEF Round
<1> HIDE DEF new
<1>6. round'[t] = new(S) /\ \A u \in Token : u # t => round'[u] = round[u] BY <1>1
<1>7. \A s \in Step : IF s \in S THEN task'[s] = Claimed(task[s], t) ELSE task'[s] = task[s]
  BY <1>1
<1>8. \A s \in S : task'[s].by = t /\ task'[s].gen = task[s].gen
                    /\ task'[s].reclaims <= MaxStalled + 1
  <2> SUFFICES ASSUME NEW s \in S
               PROVE  /\ task'[s].by = t /\ task'[s].gen = task[s].gen
                      /\ task'[s].reclaims <= MaxStalled + 1
    OBVIOUS
  <2>1. task'[s] = Claimed(task[s], t) /\ task[s] \in Row BY <1>4, <1>7
  <2>2. task[s].reclaims <= MaxStalled + 1 BY <1>4 DEF RowsBounded
  <2>3. /\ Claimed(task[s], t).by = t /\ Claimed(task[s], t).gen = task[s].gen
        /\ Claimed(task[s], t).reclaims =
             IF ~Free(task[s]) /\ task[s].reclaims <= MaxStalled THEN task[s].reclaims + 1
             ELSE task[s].reclaims
    BY <2>1, RowFields
  <2>4. task[s].reclaims \in Nat /\ MaxStalled \in Nat BY <2>1, RowFields, TransportAssumption
  <2> QED BY <2>1, <2>2, <2>3, <2>4
<1>9. RowsBounded' BY <1>2, <1>4, <1>7, <1>8 DEF RowsBounded
<1>10. RoundFits(t)' /\ RunsItsOwn(t)' /\ StartsCounted(t)'
  BY <1>2, <1>3, <1>5, <1>6 DEF RoundFits, RunsItsOwn, StartsCounted, TaskJobs, ResultJobs
<1>11. \A s \in Step : task'[s] # task[s] =>
         \A u \in Token : u # t => ~Mine(task'[s], u) /\ (Mine(task[s], u) => task[s].lapsed)
  BY <1>4, <1>7, <1>8, TransportAssumption DEF Mine, Free
<1>12. RoundsFit' /\ Runners' /\ Started' BY <1>2, <1>6, <1>10, <1>11, OneRoundKeeps
<1> QED BY <1>2, <1>9, <1>12 DEF Books

\* Un-claiming a round's rows leaves the others alone, and their counts.
LEMMA ClearedRows ==
  ASSUME NEW table \in [Step -> Row \union {NoRow}], NEW t \in Token, NEW S \in SUBSET Step,
         NEW s \in Step
  PROVE  \/ Cleared(table, t, S)[s] = table[s] /\ ~(s \in S /\ Mine(table[s], t))
         \/ /\ s \in S /\ Mine(table[s], t)
            /\ IsRow(Cleared(table, t, S)[s]) /\ Cleared(table, t, S)[s].by = NoToken
            /\ Cleared(table, t, S)[s].gen = table[s].gen
            /\ Cleared(table, t, S)[s].reclaims = table[s].reclaims
<1>1. CASE s \in S /\ Mine(table[s], t)
  <2>1. table[s] \in Row BY <1>1 DEF Mine, IsRow
  <2>2. Cleared(table, t, S)[s] = Unclaimed(table[s]) BY <1>1 DEF Cleared
  <2>3. /\ Unclaimed(table[s]).by = NoToken /\ Unclaimed(table[s]).gen = table[s].gen
        /\ Unclaimed(table[s]).reclaims = table[s].reclaims
    BY <2>1, RowFields
  <2>4. IsRow(Unclaimed(table[s])) BY <2>1, RowsStayRows
  <2> QED BY <1>1, <2>2, <2>3, <2>4
<1>2. CASE ~(s \in S /\ Mine(table[s], t)) BY <1>2 DEF Cleared
<1> QED BY <1>1, <1>2

\* What a round holds of the steps it claimed, once the claim is back.
LEMMA TakeRoundShape ==
  ASSUME TransportTypes, RoundsFit, NEW t \in Token, TakeRound(t)
  PROVE  \E S \in SUBSET {s \in Step : round[t].job[s] = "claimed"} :
           /\ task' = Cleared(task, t, {s \in Step : round[t].job[s] = "claimed"} \ S)
           /\ held' = [held EXCEPT ![t] = S] \/ (held' = held /\ S = {})
           /\ \A u \in Token : u # t => round'[u] = round[u]
           /\ \A s \in Step : round'[t].job[s] = IF s \in S THEN "taken" ELSE "none"
           /\ round'[t].gen \in [Step -> Gen]
           /\ S # {} => round'[t].kind = "tasks" /\ round[t].inst \notin closing
                        /\ round'[t].inst = round[t].inst
<1> USE DEF TransportTypes
<1> DEFINE r == round[t]
           got == {s \in Step : r.job[s] = "claimed"}
<1>1. r \in Round /\ r.kind = "tasks" /\ r.gen \in [Step -> Gen]
  BY DEF TakeRound, RoundsFit, RoundFits
<1>2. CASE r.inst \in closing
  <2>1. task' = Cleared(task, t, got) /\ round' = [round EXCEPT ![t] = Idle] /\ held' = held
    BY <1>2 DEF TakeRound
  <2>2. got \ {} = got OBVIOUS
  <2> QED BY <2>1, <2>2, IdleFits
<1>3. CASE r.inst \notin closing
  <2>1. PICK fits \in SUBSET got :
          /\ task' = Cleared(task, t, got \ fits)
          /\ round' = [round EXCEPT ![t] =
               IF fits = {} THEN Idle
               ELSE [r EXCEPT !.job = [s \in Step |-> IF s \in fits THEN "taken" ELSE "none"]]]
          /\ held' = [held EXCEPT ![t] = fits]
    BY <1>3 DEF TakeRound, Holding
  <2>2. CASE fits = {} BY <2>1, <2>2, IdleFits
  <2>3. CASE fits # {}
    <3> DEFINE new == [r EXCEPT !.job = [s \in Step |-> IF s \in fits THEN "taken" ELSE "none"]]
    <3>1. /\ new.kind = "tasks" /\ new.inst = r.inst /\ new.gen \in [Step -> Gen]
          /\ \A s \in Step : new.job[s] = IF s \in fits THEN "taken" ELSE "none"
      BY <1>1 DEF Round
    <3>2. round' = [round EXCEPT ![t] = new] BY <2>1, <2>3
    <3> HIDE DEF new
    <3>3. round'[t] = new /\ \A u \in Token : u # t => round'[u] = round[u] BY <3>2
    <3>4. /\ held' = [held EXCEPT ![t] = fits]
          /\ \A s \in Step : round'[t].job[s] = IF s \in fits THEN "taken" ELSE "none"
          /\ round'[t].gen \in [Step -> Gen]
          /\ round'[t].kind = "tasks" /\ r.inst \notin closing /\ round'[t].inst = r.inst
      BY <1>3, <2>1, <3>1, <3>3
    <3> WITNESS fits \in SUBSET got
    <3> QED BY <2>1, <3>3, <3>4
  <2> QED BY <2>2, <2>3
<1> QED BY <1>2, <1>3

\* A round goes through its own rows.
LEMMA TakeRoundKeeps ==
  ASSUME TransportTypes, TransportInv, NEW t \in Token, TakeRound(t)
  PROVE  TransportInv'
<1> USE DEF TransportTypes, TransportInv
<1> DEFINE got == {s \in Step : round[t].job[s] = "claimed"}
<1>1. PICK S \in SUBSET got :
           /\ task' = Cleared(task, t, got \ S)
           /\ held' = [held EXCEPT ![t] = S] \/ (held' = held /\ S = {})
           /\ \A u \in Token : u # t => round'[u] = round[u]
           /\ \A s \in Step : round'[t].job[s] = IF s \in S THEN "taken" ELSE "none"
           /\ round'[t].gen \in [Step -> Gen]
           /\ S # {} => round'[t].kind = "tasks" /\ round[t].inst \notin closing
                        /\ round'[t].inst = round[t].inst
  BY TakeRoundShape
<1>2. UNCHANGED <<result, closing, fault, starts>> /\ got # {} BY DEF TakeRound
<1>3. held' \in [Token -> SUBSET Step] /\ held'[t] = S
      /\ \A u \in Token : u # t => held'[u] = held[u]
  <2>1. \A s \in Step : s \notin held[t]
    BY <1>2 DEF RoundsFit, RoundFits, HeldJobs, ResultJobs
  <2>2. held[t] \subseteq Step BY DEF Books
  <2> QED BY <1>1, <2>1, <2>2 DEF Books
<1>4. \A s \in Step :
         \/ task'[s] = task[s]
         \/ /\ Mine(task[s], t) /\ IsRow(task'[s]) /\ task'[s].by = NoToken
            /\ task'[s].gen = task[s].gen /\ task'[s].reclaims = task[s].reclaims
  <2>1. got \ S \in SUBSET Step OBVIOUS
  <2> QED BY <1>1, <2>1, ClearedRows
<1>5. RowsBounded' BY <1>2, <1>4 DEF RowsBounded, Mine
<1>6. RoundFits(t)' /\ RunsItsOwn(t)' /\ StartsCounted(t)'
  BY <1>1, <1>2, <1>3 DEF RoundFits, RunsItsOwn, StartsCounted, TaskJobs, ResultJobs, HeldJobs
<1>7. \A s \in Step : task'[s] # task[s] =>
         \A u \in Token : u # t => ~Mine(task'[s], u) /\ (Mine(task[s], u) => task[s].lapsed)
  BY <1>4, TransportAssumption DEF Mine
<1>8. RoundsFit' /\ Runners' /\ Started' BY <1>1, <1>2, <1>3, <1>6, <1>7, OneRoundKeeps
<1> QED BY <1>2, <1>3, <1>5, <1>8 DEF Books

\* A round is through with a step: its jobs of the others stay.
LEMMA FinishedShape ==
  ASSUME TransportTypes, RoundsFit, NEW t \in Token, NEW s \in Step,
         round' = [round EXCEPT ![t] = Finished(round[t], s)]
  PROVE  /\ \A u \in Token : u # t => round'[u] = round[u]
         /\ \A x \in Step : round'[t].job[x] = IF x = s THEN "none" ELSE round[t].job[x]
         /\ round'[t].gen \in [Step -> Gen]
         /\ (\E x \in Step : round'[t].job[x] # "none")
               => round'[t].kind = round[t].kind /\ round'[t].inst = round[t].inst
<1>1. round[t] \in Round /\ round[t].gen \in [Step -> Gen]
  BY DEF TransportTypes, RoundsFit, RoundFits
<1>2. round'[t] = Finished(round[t], s) BY DEF TransportTypes
<1>3. /\ Finished(round[t], s).job = [round[t].job EXCEPT ![s] = "none"]
      /\ Finished(round[t], s).gen \in [Step -> Gen]
      /\ (\E x \in Step : Finished(round[t], s).job[x] # "none")
            => /\ Finished(round[t], s).kind = round[t].kind
               /\ Finished(round[t], s).inst = round[t].inst
  BY <1>1, FinishedJobs
<1>4. round[t].job \in [Step -> Jobs] BY <1>1 DEF Round
<1> QED BY <1>2, <1>3, <1>4

\* Writing one job: the round is what it was otherwise, and no row is written.
LEMMA OneJobKeeps ==
  ASSUME TransportTypes, TransportInv, NEW t \in Token, NEW s \in Step,
         \A u \in Token : u # t => round'[u] = round[u] /\ held'[u] = held[u],
         \A x \in Step : x # s => round'[t].job[x] = round[t].job[x],
         round[t].job[s] \notin {"none", "claimed"},
         round'[t].job[s] \in {"none", "poison", "ran", "read", "threw"},
         round'[t].job[s] \in {"poison", "ran"} => round[t].kind = "tasks",
         round'[t].job[s] \in {"read", "threw"} => round[t].kind = "results",
         round'[t].job[s] = "ran" => round[t].job[s] = "running",
         round'[t].gen \in [Step -> Gen],
         (\E x \in Step : round'[t].job[x] # "none")
            => round'[t].kind = round[t].kind /\ round'[t].inst = round[t].inst,
         held'[t] \subseteq held[t], \A x \in Step : x # s /\ x \in held[t] => x \in held'[t],
         s \in held'[t] => round'[t].job[s] \in HeldJobs,
         UNCHANGED <<task, closing, starts>>, fault'.late = fault.late
  PROVE  RoundsFit' /\ Runners' /\ Started'
<1> USE DEF TransportTypes, TransportInv
<1>1. RoundFits(t) /\ RunsItsOwn(t) /\ StartsCounted(t) BY DEF RoundsFit, Runners, Started
<1>2. RoundFits(t)'
  <2>1. ASSUME NEW x \in Step
        PROVE  /\ round'[t].job[x] \in TaskJobs => round'[t].kind = "tasks"
               /\ round'[t].job[x] \in ResultJobs => round'[t].kind = "results"
    BY <1>1 DEF RoundFits, TaskJobs, ResultJobs
  <2>2. \A x \in Step : x \in held'[t] => round'[t].job[x] \in HeldJobs
    BY <1>1 DEF RoundFits
  <2>3. \A x \in Step : round'[t].job[x] # "claimed" BY <1>1 DEF RoundFits
  <2> QED BY <2>1, <2>2, <2>3 DEF RoundFits
<1>3. RunsItsOwn(t)' BY <1>1 DEF RunsItsOwn
<1>4. StartsCounted(t)' BY <1>1 DEF StartsCounted
<1> QED BY <1>2, <1>3, <1>4, OneRoundKeeps

\* A handler that is done leaves its row and its round to the settle.
LEMMA HandlerDoneKeeps ==
  ASSUME TransportTypes, TransportInv, NEW t \in Token, NEW s \in Step, NEW ok \in BOOLEAN,
         HandlerDone(t, s, ok)
  PROVE  TransportInv'
<1> USE DEF TransportTypes, TransportInv
<1> DEFINE r == [[round[t] EXCEPT !.job[s] = "ran"] EXCEPT !.ok[s] = ok]
<1>1. /\ round[t] \in Round /\ round[t].job[s] = "running"
      /\ round' = [round EXCEPT ![t] = r]
      /\ held' = [held EXCEPT ![t] = held[t] \ {s}]
      /\ UNCHANGED <<task, result, closing, fault, starts>>
  BY DEF HandlerDone, Holding
<1>2. round[t].kind = "tasks" /\ round[t].gen \in [Step -> Gen]
  BY <1>1 DEF RoundsFit, RoundFits, TaskJobs
<1>3. /\ \A x \in Step : r.job[x] = IF x = s THEN "ran" ELSE round[t].job[x]
      /\ r.kind = round[t].kind /\ r.inst = round[t].inst /\ r.gen = round[t].gen
  BY <1>1, JobShape DEF Round, Jobs
<1> HIDE DEF r
<1>4. /\ round'[t] = r /\ held'[t] = held[t] \ {s} /\ held' \in [Token -> SUBSET Step]
      /\ \A u \in Token : u # t => round'[u] = round[u] /\ held'[u] = held[u]
  BY <1>1 DEF Books
<1>5. RoundsFit' /\ Runners' /\ Started'
  BY <1>1, <1>2, <1>3, <1>4, OneJobKeeps
<1> QED BY <1>1, <1>4, <1>5 DEF RowsBounded, Books

\* A handler starts on a row of its round, which no other round runs.
LEMMA StartTaskKeeps ==
  ASSUME TransportTypes, TransportInv, NEW t \in Token, NEW s \in Step, StartTask(t, s)
  PROVE  TransportInv'
<1> USE DEF TransportTypes, TransportInv
<1>1. /\ round[t] \in Round /\ round[t].job[s] = "taken" /\ round[t].gen \in [Step -> Gen]
      /\ round[t].kind = "tasks"
      /\ UNCHANGED <<result, closing, fault>>
  BY DEF StartTask, RoundsFit, RoundFits, TaskJobs
<1>2. CASE /\ task' = task /\ starts' = starts /\ held' = [held EXCEPT ![t] = held[t] \ {s}]
           /\ \/ round' = [round EXCEPT ![t].job[s] = "poison"]
              \/ round' = [round EXCEPT ![t] = Finished(round[t], s)]
  <2> DEFINE poison == [round[t] EXCEPT !.job[s] = "poison"]
  <2>1. /\ poison.job = [round[t].job EXCEPT ![s] = "poison"] /\ poison.kind = round[t].kind
        /\ poison.inst = round[t].inst /\ poison.gen = round[t].gen
    BY <1>1, JobShape DEF Jobs
  <2>2. round' = [round EXCEPT ![t] = poison] \/ round' = [round EXCEPT ![t] = Finished(round[t], s)]
    BY <1>2
  <2> HIDE DEF poison
  <2>3. /\ \A x \in Step : x # s => round'[t].job[x] = round[t].job[x]
        /\ round'[t].job[s] \in {"none", "poison"}
        /\ round'[t].gen \in [Step -> Gen]
        /\ (\E x \in Step : round'[t].job[x] # "none")
              => round'[t].kind = round[t].kind /\ round'[t].inst = round[t].inst
    <3>1. CASE round' = [round EXCEPT ![t] = poison] BY <1>1, <2>1, <3>1 DEF Round
    <3>2. CASE round' = [round EXCEPT ![t] = Finished(round[t], s)]
      <4>1. /\ \A x \in Step : round'[t].job[x] = IF x = s THEN "none" ELSE round[t].job[x]
            /\ round'[t].gen \in [Step -> Gen]
            /\ (\E x \in Step : round'[t].job[x] # "none")
                  => round'[t].kind = round[t].kind /\ round'[t].inst = round[t].inst
        BY <3>2, FinishedShape, ZenonT(60)
      <4> QED BY <4>1
    <3> QED BY <2>2, <3>1, <3>2
  <2>4. /\ held'[t] = held[t] \ {s} /\ held' \in [Token -> SUBSET Step]
        /\ \A u \in Token : u # t => round'[u] = round[u] /\ held'[u] = held[u]
    BY <1>2 DEF Books
  <2>5. RoundsFit' /\ Runners' /\ Started' BY <1>1, <1>2, <2>3, <2>4, OneJobKeeps
  <2> QED BY <1>1, <1>2, <2>4, <2>5 DEF RowsBounded, Books
<1>4. CASE /\ Mine(task[s], t) /\ task' = [task EXCEPT ![s].lapsed = FALSE]
           /\ starts' = [starts EXCEPT ![s] = @ + 1] /\ held' = held
           /\ round' = [round EXCEPT ![t].job[s] = "running"]
  <2> DEFINE r == [round[t] EXCEPT !.job[s] = "running"]
             row == [task[s] EXCEPT !.lapsed = FALSE]
  <2>1. /\ r.job = [round[t].job EXCEPT ![s] = "running"] /\ r.kind = "tasks"
        /\ r.inst = round[t].inst /\ r.gen \in [Step -> Gen]
    BY <1>1, JobShape DEF Jobs
  <2>2. round' = [round EXCEPT ![t] = r] /\ task' = [task EXCEPT ![s] = row] BY <1>4
  <2>3. /\ row \in Row /\ row.by = t /\ IsRow(row) /\ ~row.lapsed
        /\ row.gen = task[s].gen /\ row.reclaims = task[s].reclaims
    <3>1. task[s] \in Row /\ task[s].by = t BY <1>4 DEF Mine, IsRow
    <3>2. /\ row \in Row /\ row.by = t /\ ~row.lapsed
          /\ row.gen = task[s].gen /\ row.reclaims = task[s].reclaims
      BY <3>1 DEF Row
    <3> QED BY <3>2, NoRowAssumption DEF IsRow
  <2> HIDE DEF r, row
  <2>4. \A x \in Step : /\ r.job[x] = IF x = s THEN "running" ELSE round[t].job[x]
                        /\ task'[x] = IF x = s THEN row ELSE task[x]
                        /\ starts'[x] = IF x = s THEN starts[s] + 1 ELSE starts[x]
    BY <1>1, <1>4, <2>1, <2>2 DEF Round, Books
  <2>5. round'[t] = r /\ \A u \in Token : u # t => round'[u] = round[u] BY <2>2
  <2>6. Books' BY <1>1, <1>4 DEF Books
  <2>7. RowsBounded' BY <1>1, <1>4, <2>3, <2>4 DEF RowsBounded, Mine
  <2>8. RoundFits(t)'
    BY <1>1, <1>4, <2>1, <2>4, <2>5 DEF RoundsFit, RoundFits, TaskJobs, ResultJobs, HeldJobs
  <2>9. RunsItsOwn(t)'
    <3>1. RunsItsOwn(t) BY DEF Runners
    <3>2. Mine(row, t) /\ ~row.lapsed BY <2>3 DEF Mine
    <3>3. ASSUME NEW x \in Step, round[t].inst \notin closing
          PROVE  /\ r.job[x] \in {"taken", "running"} => x \in held[t]
                 /\ (fault.late = 0 /\ r.job[x] = "running")
                      => Mine(task'[x], t) /\ ~task'[x].lapsed
      BY <1>1, <2>4, <3>1, <3>2, <3>3 DEF RunsItsOwn
    <3>4. round'[t].inst = round[t].inst /\ round'[t].job = r.job /\ held' = held
          /\ closing' = closing /\ fault' = fault
      BY <1>1, <1>4, <2>1, <2>5
    <3> QED BY <3>3, <3>4 DEF RunsItsOwn
  <2>10. StartsCounted(t)'
    <3>1. StartsCounted(t) /\ starts[s] \in Nat BY DEF Started, Books
    <3> QED BY <2>4, <2>5, <3>1 DEF StartsCounted
  <2>11. \A x \in Step : task'[x] # task[x] \/ starts'[x] # starts[x] =>
          \A u \in Token : u # t => ~Mine(task'[x], u) /\ ~Mine(task[x], u)
    BY <1>4, <2>3, <2>4 DEF Mine
  <2>12. RoundsFit' /\ Runners' /\ Started'
    BY <1>1, <1>4, <2>5, <2>8, <2>9, <2>10, <2>11, OneRoundKeeps
  <2> QED BY <2>6, <2>7, <2>12
<1> QED BY <1>2, <1>4 DEF StartTask, Holding

\* A settle takes the row away, or finds that it is no longer its own.
LEMMA SettleTaskKeeps ==
  ASSUME TransportTypes, TransportInv, NEW t \in Token, NEW s \in Step, SettleTask(t, s)
  PROVE  TransportInv'
<1> USE DEF TransportTypes, TransportInv
<1>1. /\ round[t].job[s] \in {"ran", "poison"} /\ round[t].gen \in [Step -> Gen]
      /\ round' = [round EXCEPT ![t] = Finished(round[t], s)]
      /\ UNCHANGED <<held, closing, starts>>
  BY DEF SettleTask, RoundsFit, RoundFits
<1>2. fault' \in [Disturbances -> Nat] /\ fault'.late = fault.late
  <2>1. fault' = fault \/ (fault.errors > 0 /\ fault' = [fault EXCEPT !.errors = @ - 1])
    BY DEF SettleTask, Fails
  <2> QED BY <2>1 DEF Books, Disturbances
<1>3. /\ \A u \in Token : u # t => round'[u] = round[u]
      /\ \A x \in Step : round'[t].job[x] = IF x = s THEN "none" ELSE round[t].job[x]
      /\ round'[t].gen \in [Step -> Gen]
      /\ (\E x \in Step : round'[t].job[x] # "none")
            => round'[t].kind = round[t].kind /\ round'[t].inst = round[t].inst
  BY <1>1, FinishedShape
<1>4. s \notin held[t] BY <1>1 DEF RoundsFit, RoundFits, HeldJobs, ResultJobs
<1>5. \A x \in Step : \/ task'[x] = task[x]
                      \/ x = s /\ Mine(task[s], t) /\ ~IsRow(task'[s])
  BY DEF SettleTask, IsRow
<1>6. \A x \in Step : IsRow(result'[x]) => result'[x].gen \in Gen
  <2>1. result' = result
        \/ \E ok \in BOOLEAN : result' = Inserted(result, s, NewRow(round[t].gen[s], ok))
    BY DEF SettleTask
  <2>2. round[t].gen[s] \in Gen BY <1>1
  <2>3. \A ok \in BOOLEAN : NewRow(round[t].gen[s], ok).gen = round[t].gen[s] BY DEF NewRow
  <2> QED BY <2>1, <2>2, <2>3 DEF Inserted, RowsBounded
<1>7. RowsBounded' BY <1>5, <1>6 DEF RowsBounded
<1>8. RoundFits(t) /\ RunsItsOwn(t) /\ StartsCounted(t) BY DEF RoundsFit, Runners, Started
<1>9. RoundFits(t)'
  <2>1. ASSUME NEW x \in Step
        PROVE  /\ round'[t].job[x] \in TaskJobs => round'[t].kind = "tasks"
               /\ round'[t].job[x] \in ResultJobs => round'[t].kind = "results"
               /\ x \in held[t] => round'[t].job[x] \in HeldJobs
    BY <1>3, <1>4, <1>8 DEF RoundFits, TaskJobs, ResultJobs
  <2>2. \A x \in Step : round'[t].job[x] # "claimed" BY <1>1, <1>3, <1>8 DEF RoundFits
  <2> QED BY <1>1, <1>3, <2>1, <2>2 DEF RoundFits
<1>10. RunsItsOwn(t)'
  <2>1. ASSUME NEW x \in Step, round'[t].inst \notin closing
        PROVE  /\ round'[t].job[x] \in {"taken", "running"} => x \in held[t]
               /\ (fault.late = 0 /\ round'[t].job[x] = "running")
                     => Mine(task'[x], t) /\ ~task'[x].lapsed
    BY <1>3, <1>5, <1>8, <2>1 DEF RunsItsOwn
  <2> QED BY <1>1, <1>2, <2>1 DEF RunsItsOwn
<1>11. StartsCounted(t)' BY <1>1, <1>3, <1>5, <1>8 DEF StartsCounted
<1>12. \A x \in Step : task'[x] # task[x] =>
         \A u \in Token : u # t => ~Mine(task'[x], u) /\ (Mine(task[x], u) => task[x].lapsed)
  BY <1>5 DEF Mine
<1>13. RoundsFit' /\ Runners' /\ Started'
  BY <1>1, <1>2, <1>3, <1>9, <1>10, <1>11, <1>12, OneRoundKeeps
<1> QED BY <1>1, <1>2, <1>7, <1>13 DEF Books

\* A claim of results names its round likewise, and leaves the tasks alone.
LEMMA ClaimResultsKeeps ==
  ASSUME TransportTypes, TransportInv, NEW i \in Inst, NEW t \in Token, ClaimResults(i, t)
  PROVE  TransportInv'
<1> USE DEF TransportTypes, TransportInv
<1> DEFINE new(S) == [Idle EXCEPT !.kind = "results", !.inst = i,
                        !.job = [s \in Step |-> IF s \in S THEN "handed" ELSE "none"],
                        !.gen = [s \in Step |-> IF s \in S THEN result[s].gen ELSE 1],
                        !.ok = [s \in Step |-> s \in S /\ result[s].ok]]
<1>1. PICK S \in SUBSET {s \in Step : Claimable(result[s])} :
        /\ result' = [s \in Step |-> IF s \in S
                        THEN [Claimed(result[s], t) EXCEPT !.reclaims = 0] ELSE result[s]]
        /\ round' = [round EXCEPT ![t] = new(S)]
        /\ held' = [held EXCEPT ![t] = S]
  BY DEF ClaimResults, Holding
<1>2. UNCHANGED <<task, closing, fault, starts>> BY DEF ClaimResults
<1>3. \A s \in Step : ~Mine(task[s], t) BY FreshToken DEF ClaimResults
<1>4. \A s \in S : result[s] \in Row /\ IsRow(result[s]) BY <1>1 DEF Claimable, IsRow
<1>5. \A s \in S : result[s].gen \in Gen BY <1>4 DEF RowsBounded
<1>6. /\ new(S).kind = "results"
      /\ \A s \in Step : new(S).job[s] = IF s \in S THEN "handed" ELSE "none"
      /\ new(S).gen \in [Step -> Gen]
  <2>1. 1 \in Gen BY TransportAssumption DEF Gen
  <2> QED BY <1>5, <2>1, IdleRound DEF Round
<1> HIDE DEF new
<1>7. /\ round'[t] = new(S) /\ held'[t] = S /\ held' \in [Token -> SUBSET Step]
      /\ \A u \in Token : u # t => round'[u] = round[u] /\ held'[u] = held[u]
  BY <1>1 DEF Books
<1>8. RowsBounded'
  <2>1. ASSUME NEW s \in S PROVE [Claimed(result[s], t) EXCEPT !.reclaims = 0].gen \in Gen
    <3>1. Claimed(result[s], t) \in Row BY <1>4, RowsStayRows
    <3>2. Claimed(result[s], t).gen = result[s].gen BY <1>4, RowFields
    <3> QED BY <1>5, <3>1, <3>2 DEF Row
  <2> QED BY <1>1, <1>2, <2>1 DEF RowsBounded
<1>9. RoundFits(t)' /\ RunsItsOwn(t)' /\ StartsCounted(t)'
  BY <1>2, <1>3, <1>6, <1>7 DEF RoundFits, RunsItsOwn, StartsCounted, TaskJobs, ResultJobs, HeldJobs
<1>10. RoundsFit' /\ Runners' /\ Started' BY <1>2, <1>7, <1>9, OneRoundKeeps
<1> QED BY <1>2, <1>7, <1>8, <1>10 DEF Books

\* The engine's handler returned, or threw.
LEMMA HandledKeeps ==
  ASSUME TransportTypes, TransportInv, NEW t \in Token, NEW s \in Step, Returned(t, s) \/ Threw(t, s)
  PROVE  TransportInv'
<1> USE DEF TransportTypes, TransportInv
<1>1. PICK j \in {"read", "threw"} : round' = [round EXCEPT ![t].job[s] = j]
  BY DEF Returned, Threw
<1>2. /\ round[t] \in Round /\ round[t].job[s] = "handed"
      /\ UNCHANGED <<task, result, held, closing, starts>>
  BY DEF Returned, Threw
<1>3. fault' \in [Disturbances -> Nat] /\ fault'.late = fault.late
  <2>1. fault' = fault \/ (fault.errors > 0 /\ fault' = [fault EXCEPT !.errors = @ - 1])
    BY DEF Returned, Threw, Fails
  <2> QED BY <2>1 DEF Books, Disturbances
<1>4. round[t].kind = "results" /\ round[t].gen \in [Step -> Gen]
  BY <1>2 DEF RoundsFit, RoundFits, ResultJobs
<1> DEFINE r == [round[t] EXCEPT !.job[s] = j]
<1>5. /\ r.job = [round[t].job EXCEPT ![s] = j] /\ r.kind = round[t].kind
      /\ r.inst = round[t].inst /\ r.gen = round[t].gen
  BY <1>2, JobShape DEF Jobs
<1>6. round'[t] = r /\ \A u \in Token : u # t => round'[u] = round[u] BY <1>1
<1> HIDE DEF r
<1>7. \A x \in Step : round'[t].job[x] = IF x = s THEN j ELSE round[t].job[x]
  BY <1>2, <1>5, <1>6 DEF Round
<1>8. RoundsFit' /\ Runners' /\ Started'
  BY <1>2, <1>3, <1>4, <1>5, <1>6, <1>7, OneJobKeeps DEF Books, HeldJobs, ResultJobs
<1> QED BY <1>2, <1>3, <1>8 DEF Books, RowsBounded

\* A round of results gives its rows up, and then ends.
LEMMA RoundReadKeeps ==
  ASSUME TransportTypes, TransportInv, NEW t \in Token, RoundRead(t)
  PROVE  TransportInv'
<1> USE DEF TransportTypes, TransportInv
<1>1. round[t].kind = "results" /\ held' = [held EXCEPT ![t] = {}]
      /\ UNCHANGED <<task, result, round, closing, fault, starts>>
  BY DEF RoundRead, Holding
<1>2. /\ held'[t] = {} /\ held' \in [Token -> SUBSET Step]
      /\ \A u \in Token : u # t => round'[u] = round[u] /\ held'[u] = held[u]
  BY <1>1 DEF Books
<1>3. RoundFits(t) /\ RunsItsOwn(t) /\ StartsCounted(t) BY DEF RoundsFit, Runners, Started
<1>4. RoundFits(t)' /\ RunsItsOwn(t)' /\ StartsCounted(t)'
  BY <1>1, <1>2, <1>3 DEF RoundFits, RunsItsOwn, StartsCounted, TaskJobs
<1>5. RoundsFit' /\ Runners' /\ Started' BY <1>1, <1>2, <1>4, OneRoundKeeps
<1> QED BY <1>1, <1>2, <1>5 DEF Books, RowsBounded

\* A DELETE of read results is by token.
LEMMA DeleteReadKeeps ==
  ASSUME TransportTypes, TransportInv, NEW t \in Token, DeleteRead(t)
  PROVE  TransportInv'
<1> USE DEF TransportTypes, TransportInv
<1>1. /\ round' = [round EXCEPT ![t] = Idle] /\ held[t] = {}
      /\ UNCHANGED <<task, held, closing, starts>>
      /\ \A s \in Step : IsRow(result'[s]) => result'[s] = result[s]
  BY DEF DeleteRead, IsRow
<1>2. fault' \in [Disturbances -> Nat] /\ fault'.late = fault.late
  <2>1. fault' = fault \/ (fault.errors > 0 /\ fault' = [fault EXCEPT !.errors = @ - 1])
    BY DEF DeleteRead, Fails
  <2> QED BY <2>1 DEF Books, Disturbances
<1>3. round'[t] = Idle /\ \A u \in Token : u # t => round'[u] = round[u] BY <1>1
<1>4. RoundFits(t)' /\ RunsItsOwn(t)' /\ StartsCounted(t)'
  BY <1>1, <1>3, IdleFits DEF RoundFits, RunsItsOwn, StartsCounted, TaskJobs, ResultJobs
<1>5. RoundsFit' /\ Runners' /\ Started' BY <1>1, <1>2, <1>3, <1>4, OneRoundKeeps
<1> QED BY <1>1, <1>2, <1>5 DEF Books, RowsBounded

-----------------------------------------------------------------------------
\* Leases, stops and deaths.

\* A claim that runs out while it is attended ran out late.
LEMMA LapseKeeps ==
  ASSUME TransportTypes, TransportInv, NEW s \in Step, Lapse(s)
  PROVE  TransportInv'
<1> USE DEF TransportTypes, TransportInv
<1>1. UNCHANGED <<round, held, closing, starts>> BY DEF Lapse
<1>2. \/ fault' = fault
      \/ fault.stalls > 0 /\ fault' = [fault EXCEPT !.stalls = @ - 1, !.late = @ + 1]
  BY DEF Lapse, RunsOut, Late
<1>3. fault' \in [Disturbances -> Nat] /\ (fault'.late = 0 => fault' = fault)
  <2>1. CASE fault' = fault BY <2>1 DEF Books
  <2>2. CASE fault.stalls > 0 /\ fault' = [fault EXCEPT !.stalls = @ - 1, !.late = @ + 1]
    <3>1. fault.stalls \in Nat /\ fault.late \in Nat BY DEF Books, Disturbances
    <3>2. PICK n \in Nat, m \in Nat : n = fault.stalls - 1 /\ m = fault.late + 1
      BY <2>2, <3>1
    <3>3. fault' = [fault EXCEPT !.stalls = n, !.late = m] BY <2>2, <3>2
    <3>4. fault'.late = m /\ fault' \in [Disturbances -> Nat]
      BY <3>3 DEF Books, Disturbances
    <3> QED BY <3>1, <3>2, <3>4
  <2> QED BY <1>2, <2>1, <2>2
<1>4. \A x \in Step :
        /\ task'[x] # task[x] =>
             /\ x = s /\ IsRow(task[s]) /\ ~Free(task[s]) /\ IsRow(task'[s])
             /\ task'[s].by = task[s].by /\ task'[s].gen = task[s].gen
             /\ task'[s].reclaims = task[s].reclaims
             /\ Attended(task[s], s) => fault' # fault
        /\ IsRow(result'[x]) => IsRow(result[x]) /\ result'[x].gen = result[x].gen
  <2>1. \A row \in Row : /\ [row EXCEPT !.lapsed = TRUE].by = row.by
                         /\ [row EXCEPT !.lapsed = TRUE].gen = row.gen
                         /\ [row EXCEPT !.lapsed = TRUE].reclaims = row.reclaims
                         /\ IsRow([row EXCEPT !.lapsed = TRUE])
    <3>1. \A row \in Row : [row EXCEPT !.lapsed = TRUE] \in Row BY DEF Row
    <3> QED BY <3>1, NoRowAssumption DEF Row, IsRow
  <2>2. CASE RunsOut(task[s], s) /\ task' = [task EXCEPT ![s].lapsed = TRUE] /\ result' = result
    <3>1. task[s] \in Row /\ IsRow(task[s]) /\ ~Free(task[s]) BY <2>2 DEF RunsOut, IsRow
    <3>2. Attended(task[s], s) => fault' # fault
      <4>1. Attended(task[s], s) => Late BY <2>2 DEF RunsOut
      <4>2. Late => fault' # fault
        <5>1. fault.stalls \in Nat /\ fault.late \in Nat BY DEF Books, Disturbances
        <5>2. ASSUME Late PROVE fault'.late = fault.late + 1
          BY <5>1, <5>2 DEF Late, Books, Disturbances
        <5> QED BY <5>1, <5>2
      <4> QED BY <4>1, <4>2
    <3>3. task' = [task EXCEPT ![s] = [task[s] EXCEPT !.lapsed = TRUE]] BY <2>2
    <3> QED BY <2>1, <2>2, <3>1, <3>2, <3>3
  <2>3. CASE RunsOut(result[s], s) /\ result' = [result EXCEPT ![s].lapsed = TRUE] /\ task' = task
    <3>1. result[s] \in Row BY <2>3 DEF RunsOut, IsRow
    <3>2. /\ result'[s] = [result[s] EXCEPT !.lapsed = TRUE] /\ IsRow(result[s])
          /\ \A x \in Step : x # s => result'[x] = result[x]
      BY <2>3 DEF RunsOut
    <3>3. result'[s].gen = result[s].gen BY <2>1, <3>1, <3>2
    <3> QED BY <2>3, <3>2, <3>3
  <2> QED BY <2>2, <2>3 DEF Lapse
<1>5. RowsBounded' BY <1>4 DEF RowsBounded
<1>6. RoundsFit' BY <1>1 DEF RoundsFit, RoundFits
<1>7. Runners'
  <2> SUFFICES ASSUME NEW t \in Token, NEW x \in Step, round[t].inst \notin closing
               PROVE  /\ round[t].job[x] \in {"taken", "running"} => x \in held[t]
                      /\ (fault'.late = 0 /\ round[t].job[x] = "running")
                           => Mine(task'[x], t) /\ ~task'[x].lapsed
    BY <1>1 DEF Runners, RunsItsOwn
  <2>1. round[t].job[x] \in {"taken", "running"} => x \in held[t] BY DEF Runners, RunsItsOwn
  <2>2. ASSUME fault'.late = 0, round[t].job[x] = "running"
        PROVE  Mine(task'[x], t) /\ ~task'[x].lapsed
    <3>1. fault' = fault /\ Mine(task[x], t) /\ ~task[x].lapsed
      BY <1>3, <2>2 DEF Runners, RunsItsOwn
    <3>2. Attended(task[x], x) BY <2>1, <2>2, <3>1 DEF Attended, Mine
    <3> QED BY <1>4, <3>1, <3>2
  <2> QED BY <2>1, <2>2
<1>8. Started' BY <1>1, <1>4 DEF Started, StartsCounted, Mine
<1> QED BY <1>1, <1>3, <1>5, <1>6, <1>7, <1>8 DEF Books

\* What becomes of the rows of a set of tokens.
LEMMA RenewedRows ==
  ASSUME NEW table \in [Step -> Row \union {NoRow}], NEW T \in SUBSET Token, NEW s \in Step
  PROVE  \/ Renewed(table, T)[s] = table[s]
         \/ /\ IsRow(table[s]) /\ IsRow(Renewed(table, T)[s]) /\ ~Renewed(table, T)[s].lapsed
            /\ Renewed(table, T)[s].by = table[s].by /\ Renewed(table, T)[s].gen = table[s].gen
            /\ Renewed(table, T)[s].reclaims = table[s].reclaims
<1>1. CASE IsRow(table[s]) /\ table[s].by \in T
  <2>1. table[s] \in Row BY <1>1 DEF IsRow
  <2>2. Renewed(table, T)[s] = [table[s] EXCEPT !.lapsed = FALSE] BY <1>1 DEF Renewed
  <2>3. [table[s] EXCEPT !.lapsed = FALSE] \in Row BY <2>1, RowsStayRows
  <2> QED BY <1>1, <2>1, <2>2, <2>3, NoRowAssumption DEF Row, IsRow
<1>2. CASE ~(IsRow(table[s]) /\ table[s].by \in T) BY <1>2 DEF Renewed
<1> QED BY <1>1, <1>2

\* The rows of rounds that are gone get a token nobody has, and no other row
\* does.
LEMMA OrphanedRows ==
  ASSUME NEW table \in [Step -> Row \union {NoRow}], NEW T \in SUBSET Token, NEW s \in Step
  PROVE  \/ Orphaned(table, T)[s] = table[s] /\ ~(IsRow(table[s]) /\ table[s].by \in T)
         \/ /\ IsRow(table[s]) /\ table[s].by \in T
            /\ IsRow(Orphaned(table, T)[s]) /\ Orphaned(table, T)[s].by = LostToken
            /\ Orphaned(table, T)[s].gen = table[s].gen
            /\ Orphaned(table, T)[s].reclaims = table[s].reclaims
<1>1. CASE IsRow(table[s]) /\ table[s].by \in T
  <2>1. table[s] \in Row BY <1>1 DEF IsRow
  <2>2. Orphaned(table, T)[s] = [table[s] EXCEPT !.by = LostToken] BY <1>1 DEF Orphaned
  <2>3. [table[s] EXCEPT !.by = LostToken] \in Row BY <2>1, RowsStayRows
  <2> QED BY <1>1, <2>1, <2>2, <2>3, NoRowAssumption DEF Row, IsRow
<1>2. CASE ~(IsRow(table[s]) /\ table[s].by \in T) BY <1>2 DEF Orphaned
<1> QED BY <1>1, <1>2

\* The rows handed back are free again, and no other row is touched.
LEMMA BackRows ==
  ASSUME NEW table \in [Step -> Row \union {NoRow}], NEW T \in SUBSET Token, NEW s \in Step
  PROVE  \/ Back(table, T)[s] = table[s] /\ ~(IsRow(table[s]) /\ table[s].by \in T)
         \/ /\ IsRow(table[s]) /\ table[s].by \in T
            /\ IsRow(Back(table, T)[s]) /\ Back(table, T)[s].by = NoToken
            /\ Back(table, T)[s].gen = table[s].gen
            /\ Back(table, T)[s].reclaims = table[s].reclaims
<1>1. CASE IsRow(table[s]) /\ table[s].by \in T
  <2>1. table[s] \in Row BY <1>1 DEF IsRow
  <2>2. Back(table, T)[s] = Unclaimed(table[s]) BY <1>1 DEF Back
  <2>3. /\ Unclaimed(table[s]).by = NoToken /\ Unclaimed(table[s]).gen = table[s].gen
        /\ Unclaimed(table[s]).reclaims = table[s].reclaims
    BY <2>1, RowFields
  <2>4. IsRow(Unclaimed(table[s])) BY <2>1, RowsStayRows
  <2> QED BY <1>1, <2>2, <2>3, <2>4
<1>2. CASE ~(IsRow(table[s]) /\ table[s].by \in T) BY <1>2 DEF Back
<1> QED BY <1>1, <1>2

\* A renewal keeps what a process holds, at its pace.
LEMMA RenewKeeps ==
  ASSUME TransportTypes, TransportInv, NEW i \in Inst, Renew(i)
  PROVE  TransportInv'
<1> USE DEF TransportTypes, TransportInv
<1>1. PICK T \in SUBSET Token : task' = Renewed(task, T) /\ result' = Renewed(result, T)
  BY DEF Renew
<1>2. UNCHANGED <<round, held, closing, fault, starts>> BY DEF Renew
<1>3. \A s \in Step :
        \/ task'[s] = task[s]
        \/ /\ IsRow(task[s]) /\ IsRow(task'[s]) /\ ~task'[s].lapsed
           /\ task'[s].by = task[s].by /\ task'[s].gen = task[s].gen
           /\ task'[s].reclaims = task[s].reclaims
  BY <1>1, RenewedRows
<1>4. \A s \in Step : IsRow(result'[s]) => IsRow(result[s]) /\ result'[s].gen = result[s].gen
  BY <1>1, RenewedRows
<1>5. RowsBounded' BY <1>3, <1>4 DEF RowsBounded
<1>6. RoundsFit' BY <1>2 DEF RoundsFit, RoundFits
<1>7. Runners' BY <1>2, <1>3 DEF Runners, RunsItsOwn, Mine
<1>8. Started' BY <1>2, <1>3 DEF Started, StartsCounted, Mine
<1> QED BY <1>2, <1>5, <1>6, <1>7, <1>8 DEF Books

\* A process that begins to stop leaves its rounds as they are.
LEMMA StopKeeps ==
  ASSUME TransportTypes, TransportInv, NEW i \in Inst, Stop(i)
  PROVE  TransportInv'
<1> USE DEF TransportTypes, TransportInv
<1>1. UNCHANGED <<task, result, round, held, starts>> /\ closing' = closing \union {i}
  BY DEF Stop
<1>2. fault' \in [Disturbances -> Nat] /\ fault'.late = fault.late
  <2>1. fault.stops > 0 /\ fault' = [fault EXCEPT !.stops = @ - 1] BY DEF Stop
  <2> QED BY <2>1 DEF Books, Disturbances
<1>3. Runners' BY <1>1, <1>2 DEF Runners, RunsItsOwn
<1>4. RowsBounded' /\ RoundsFit' /\ Started'
  BY <1>1 DEF RowsBounded, RoundsFit, RoundFits, Started, StartsCounted
<1> QED BY <1>1, <1>2, <1>3, <1>4 DEF Books

\* Rows are handed back by an instance that closes: of no other's rounds.
LEMMA HandBackKeeps ==
  ASSUME TransportTypes, TransportInv, NEW i \in Inst, HandBack(i)
  PROVE  TransportInv'
<1> USE DEF TransportTypes, TransportInv
<1>1. PICK T \in SUBSET Token : T = {t \in Token : held[t] # {} /\ round[t].inst = i} OBVIOUS
<1>2. /\ i \in closing /\ task' = Back(task, T) /\ result' = Back(result, T)
      /\ held' = [t \in Token |-> IF t \in T THEN {} ELSE held[t]]
      /\ starts' = [s \in Step |->
                      IF \E t \in T : Mine(task[s], t) /\ round[t].job[s] \in {"running", "ran"}
                      THEN starts[s] - 1 ELSE starts[s]]
      /\ UNCHANGED <<round, closing, fault>>
  BY <1>1 DEF HandBack, Back
<1>3. \A s \in Step :
        \/ task'[s] = task[s] /\ ~(IsRow(task[s]) /\ task[s].by \in T)
        \/ /\ IsRow(task[s]) /\ task[s].by \in T /\ IsRow(task'[s])
           /\ task'[s].by = NoToken /\ task'[s].gen = task[s].gen
           /\ task'[s].reclaims = task[s].reclaims
  BY <1>2, BackRows
<1>4. \A s \in Step : IsRow(result'[s]) => IsRow(result[s]) /\ result'[s].gen = result[s].gen
  BY <1>2, BackRows
<1>5. RowsBounded' BY <1>3, <1>4 DEF RowsBounded
<1>6. held' \in [Token -> SUBSET Step] /\ \A t \in Token : held'[t] = IF t \in T THEN {} ELSE held[t]
  BY <1>2 DEF Books
<1>7. RoundsFit'
  <2>1. ASSUME NEW t \in Token PROVE RoundFits(t)'
    <3>1. RoundFits(t) BY DEF RoundsFit
    <3> QED BY <1>2, <1>6, <3>1 DEF RoundFits
  <2> QED BY <2>1 DEF RoundsFit
<1>8. Runners'
  <2>1. ASSUME NEW t \in Token, NEW s \in Step, round[t].inst \notin closing
        PROVE  /\ round[t].job[s] \in {"taken", "running"} => s \in held'[t]
               /\ (fault.late = 0 /\ round[t].job[s] = "running")
                    => Mine(task'[s], t) /\ ~task'[s].lapsed
    <3>1. t \notin T BY <1>1, <1>2, <2>1
    <3> QED BY <1>3, <1>6, <2>1, <3>1 DEF Runners, RunsItsOwn, Mine
  <2> QED BY <1>2, <2>1 DEF Runners, RunsItsOwn
<1>9. ASSUME NEW s \in Step
      PROVE  /\ starts'[s] \in Nat
             /\ \A t \in Token : Mine(task'[s], t) => Mine(task[s], t) /\ starts'[s] = starts[s]
  <2>1. starts[s] \in Nat BY DEF Books
  <2>2. CASE \E t \in T : Mine(task[s], t) /\ round[t].job[s] \in {"running", "ran"}
    <3>1. starts[s] > 0 /\ task[s].by \in T /\ IsRow(task[s])
      BY <2>2 DEF Started, StartsCounted, Mine
    <3>2. starts'[s] = starts[s] - 1 BY <1>2, <2>2
    <3>3. task'[s].by = NoToken BY <1>3, <3>1
    <3> QED BY <2>1, <3>1, <3>2, <3>3, TransportAssumption DEF Mine
  <2>3. CASE ~ \E t \in T : Mine(task[s], t) /\ round[t].job[s] \in {"running", "ran"}
    <3>1. starts'[s] = starts[s] BY <1>2, <2>3
    <3>2. \A t \in Token : Mine(task'[s], t) => Mine(task[s], t)
      BY <1>3, TransportAssumption DEF Mine
    <3> QED BY <2>1, <3>1, <3>2
  <2> QED BY <2>2, <2>3
<1>10. Started' BY <1>2, <1>9 DEF Started, StartsCounted
<1>11. starts' \in [Step -> Nat] BY <1>2, <1>9
<1> QED BY <1>2, <1>5, <1>6, <1>7, <1>8, <1>10, <1>11 DEF Books

\* A process that is gone takes its rounds with it, and no other's.
LEMMA DeadKeeps ==
  ASSUME TransportTypes, TransportInv, NEW i \in Inst, Dead(i),
         fault' \in [Disturbances -> Nat], fault'.late = fault.late
  PROVE  TransportInv'
<1> USE DEF TransportTypes, TransportInv
<1>1. PICK T \in SUBSET Token : T = {t \in Token : round[t].inst = i /\ round[t].kind # "idle"}
  OBVIOUS
<1>2. /\ task' = Orphaned(task, T) /\ result' = Orphaned(result, T)
      /\ round' = [t \in Token |-> IF round[t].inst = i THEN Idle ELSE round[t]]
      /\ held' = [t \in Token |-> IF round[t].inst = i THEN {} ELSE held[t]]
      /\ closing' = closing \ {i} /\ starts' = starts
  BY <1>1 DEF Dead
<1>3. \A s \in Step :
        \/ task'[s] = task[s]
        \/ /\ IsRow(task[s]) /\ task[s].by \in T /\ IsRow(task'[s])
           /\ task'[s].by = LostToken /\ task'[s].gen = task[s].gen
           /\ task'[s].reclaims = task[s].reclaims
  BY <1>2, OrphanedRows
<1>4. \A s \in Step : IsRow(result'[s]) => IsRow(result[s]) /\ result'[s].gen = result[s].gen
  BY <1>2, OrphanedRows
<1>5. RowsBounded' BY <1>3, <1>4 DEF RowsBounded
<1>6. ASSUME NEW t \in Token PROVE RoundFits(t)' /\ RunsItsOwn(t)' /\ StartsCounted(t)'
  <2>1. CASE round[t].inst = i
    <3>1. round'[t] = Idle /\ held'[t] = {} BY <1>2, <2>1
    <3> QED BY <3>1, IdleFits DEF RoundFits, RunsItsOwn, StartsCounted, TaskJobs, ResultJobs
  <2>2. CASE round[t].inst # i
    <3>1. round'[t] = round[t] /\ held'[t] = held[t] /\ t \notin T BY <1>1, <1>2, <2>2
    <3>2. RoundFits(t) /\ RunsItsOwn(t) /\ StartsCounted(t) BY DEF RoundsFit, Runners, Started
    <3>3. \A s \in Step : /\ Mine(task'[s], t) => Mine(task[s], t)
                          /\ Mine(task[s], t) => task'[s] = task[s]
      BY <1>3, <3>1, TransportAssumption DEF Mine
    <3>4. RoundFits(t)' BY <3>1, <3>2 DEF RoundFits
    <3>5. RunsItsOwn(t)' BY <1>2, <2>2, <3>1, <3>2, <3>3 DEF RunsItsOwn
    <3>6. StartsCounted(t)' BY <1>2, <3>1, <3>2, <3>3 DEF StartsCounted
    <3> QED BY <3>4, <3>5, <3>6
  <2> QED BY <2>1, <2>2
<1>7. Books' BY <1>2 DEF Books
<1> QED BY <1>5, <1>6, <1>7 DEF RoundsFit, Runners, Started

\* What is handed over is a row nobody has yet, or already there.
LEMMA DispatchKeeps ==
  ASSUME TransportTypes, TransportInv, NEW s \in Step, NEW g \in Gen, Dispatch(s, g)
  PROVE  TransportInv'
<1> USE DEF TransportTypes, TransportInv
<1>1. UNCHANGED <<result, round, held, closing, fault>> BY DEF Dispatch
<1>2. CASE IsRow(task[s])
  <2>1. task' = task /\ starts' = starts BY <1>2 DEF Dispatch, Inserted
  <2> QED BY <1>1, <2>1 DEF Books, RowsBounded, RoundsFit, RoundFits, Runners, RunsItsOwn,
                            Started, StartsCounted
<1>3. CASE ~IsRow(task[s])
  <2>1. task' = [task EXCEPT ![s] = NewRow(g, FALSE)] /\ starts' = [starts EXCEPT ![s] = 0]
    BY <1>3 DEF Dispatch, Inserted
  <2>2. /\ NewRow(g, FALSE).by = NoToken /\ NewRow(g, FALSE).gen = g
        /\ NewRow(g, FALSE).reclaims = 0
    BY DEF NewRow
  <2>3. RowsBounded'
    <3>1. task'[s] = NewRow(g, FALSE) /\ \A x \in Step : x # s => task'[x] = task[x] BY <2>1
    <3>2. 0 <= MaxStalled + 1 BY TransportAssumption
    <3> QED BY <1>1, <2>2, <3>1, <3>2 DEF RowsBounded
  <2>4. RoundsFit' BY <1>1 DEF RoundsFit, RoundFits
  <2>5. \A x \in Step, t \in Token :
          /\ Mine(task[x], t) => task'[x] = task[x]
          /\ Mine(task'[x], t) => task'[x] = task[x] /\ starts'[x] = starts[x]
    BY <1>3, <2>1, <2>2, TransportAssumption DEF Mine, Books
  <2>6. Runners' BY <1>1, <2>5 DEF Runners, RunsItsOwn
  <2>7. Started' BY <1>1, <2>5 DEF Started, StartsCounted
  <2>8. Books' BY <1>1, <2>1 DEF Books
  <2> QED BY <2>3, <2>4, <2>6, <2>7, <2>8
<1> QED BY <1>2, <1>3

\* Every step of the transport, and every crash, keeps the books.
LEMMA TransportStepKeeps ==
  ASSUME TransportTypes, TransportInv, TransportStep \/ \E i \in Inst : Crash(i)
  PROVE  TransportInv'
<1>1. ASSUME NEW i \in Inst, Crash(i) PROVE TransportInv'
  <2>1. Dead(i) /\ fault.crashes > 0 /\ fault' = [fault EXCEPT !.crashes = @ - 1]
    BY <1>1 DEF Crash
  <2>2. fault' \in [Disturbances -> Nat] /\ fault'.late = fault.late
    BY <2>1 DEF TransportInv, Books, Disturbances
  <2> QED BY <2>1, <2>2, DeadKeeps
<1>2. ASSUME NEW i \in Inst, Exit(i) PROVE TransportInv'
  BY <1>2, DeadKeeps DEF Exit, TransportInv, Books
<1> QED
  BY <1>1, <1>2, ClaimTasksKeeps, TakeRoundKeeps, StartTaskKeeps, HandlerDoneKeeps,
     SettleTaskKeeps, ClaimResultsKeeps, RoundReadKeeps, DeleteReadKeeps, LapseKeeps,
     RenewKeeps, StopKeeps, HandBackKeeps DEF TransportStep

\* So does a step of the engine that leaves the transport alone.
LEMMA NothingKeeps ==
  ASSUME TransportInv, UNCHANGED transportVars
  PROVE  TransportInv'
BY DEF TransportInv, Books, RowsBounded, RoundsFit, RoundFits, Runners, RunsItsOwn, Started,
       StartsCounted, transportVars

\* At first there are no rows and no rounds.
LEMMA InitKeeps == ASSUME TransportInit PROVE TransportInv
<1>1. Books /\ RowsBounded BY TransportAssumption DEF TransportInit, Books, RowsBounded, IsRow
<1>2. RoundsFit BY IdleFits DEF TransportInit, RoundsFit, RoundFits, TaskJobs, ResultJobs
<1>3. Runners /\ Started
  BY IdleFits DEF TransportInit, Runners, RunsItsOwn, Started, StartsCounted
<1> QED BY <1>1, <1>2, <1>3 DEF TransportInv

-----------------------------------------------------------------------------
(* How often a handler starts on a row.  The count is of takeovers, so it     *)
(* must say of each row whether its last claim has started a handler; a claim *)
(* that did, is left behind by a failed settle, and is then handed back with  *)
(* the round's other rows, is free to be started again uncounted.  So this    *)
(* holds when no statement fails, or when no instance is stopped.             *)

\* Who has a row's token still has something to do with it.
Tended == \A t \in Token, s \in Step : Mine(task[s], t) => round[t].job[s] \in TaskJobs

Orderly == \/ fault.errors = 0 /\ Tended
           \/ fault.stops = 0 /\ closing = {}

\* The last claim of the row, if any, has not started a handler.
Unstarted(s) ==
    \/ Free(task[s])
    \/ \E t \in Token : task[s].by = t /\ round[t].job[s] \in {"claimed", "taken", "poison"}

CountAt(s) ==
    /\ starts[s] <= MaxStalled + 1
    /\ IsRow(task[s]) => /\ starts[s] <= task[s].reclaims + 1
                         /\ Unstarted(s) => starts[s] <= task[s].reclaims
Counts == \A s \in Step : CountAt(s)

\* A step that starts no handler on a row, and writes no count down, keeps its
\* count.
LEMMA CountStays ==
  ASSUME NEW s \in Step, CountAt(s), starts'[s] = starts[s],
         IsRow(task'[s]) => /\ IsRow(task[s]) /\ task'[s].reclaims = task[s].reclaims
                            /\ Unstarted(s)' => Unstarted(s)
  PROVE  CountAt(s)'
BY DEF CountAt

\* A step of one round that writes no row counts as before, if it does not say
\* of a row of its own that it was not started when it was.
LEMMA RoundCounts ==
  ASSUME TransportTypes, Counts, NEW t \in Token, UNCHANGED <<task, starts>>,
         \A u \in Token : u # t => round'[u] = round[u],
         \A s \in Step : Mine(task[s], t) /\ round'[t].job[s] \in {"claimed", "taken", "poison"}
                           => round[t].job[s] \in {"claimed", "taken", "poison"}
  PROVE  Counts'
<1>1. ASSUME NEW s \in Step, IsRow(task[s]), Unstarted(s)' PROVE Unstarted(s)
  BY <1>1 DEF Unstarted, Mine
<1> QED BY <1>1, CountStays DEF Counts

\* Disturbances only grow fewer, so that what excludes one of them lasts.
LEMMA OrderlyKeeps ==
  ASSUME Orderly, fault' \in [Disturbances -> Nat], fault \in [Disturbances -> Nat],
         fault'.errors <= fault.errors, fault'.stops <= fault.stops,
         closing' \subseteq closing \/ fault.stops > 0,
         Tended /\ fault.errors = 0 => Tended'
  PROVE  Orderly'
<1>1. \A d \in {"errors", "stops"} : fault[d] \in Nat /\ fault'[d] \in Nat BY DEF Disturbances
<1> QED BY <1>1 DEF Orderly

\* A claim of an expired row is counted, a claim of a free one was before.
LEMMA ClaimTasksCounts ==
  ASSUME TransportTypes, TransportInv, Counts, NEW i \in Inst, NEW t \in Token, ClaimTasks(i, t)
  PROVE  Counts' /\ (Tended => Tended')
<1> USE DEF TransportTypes, TransportInv
<1> DEFINE new(S) == [Idle EXCEPT !.kind = "tasks", !.inst = i,
                        !.job = [s \in Step |-> IF s \in S THEN "claimed" ELSE "none"],
                        !.gen = [s \in Step |-> IF s \in S THEN task[s].gen ELSE 1]]
<1>1. PICK S \in SUBSET {s \in Step : Claimable(task[s])} :
        /\ task' = [s \in Step |-> IF s \in S THEN Claimed(task[s], t) ELSE task[s]]
        /\ round' = [round EXCEPT ![t] = new(S)]
  BY DEF ClaimTasks
<1>2. starts' = starts BY DEF ClaimTasks
<1>3. \A s \in Step : ~Mine(task[s], t) BY FreshToken DEF ClaimTasks
<1>4. \A s \in S : task[s] \in Row /\ IsRow(task[s]) BY <1>1 DEF Claimable, IsRow
<1>5. \A s \in Step : new(S).job[s] = IF s \in S THEN "claimed" ELSE "none"
  BY IdleRound DEF Round
<1> HIDE DEF new
<1>6. round'[t] = new(S) /\ \A u \in Token : u # t => round'[u] = round[u] BY <1>1
<1>7. ASSUME NEW s \in Step PROVE CountAt(s)'
  <2>1. CountAt(s) BY DEF Counts
  <2>2. CASE s \in S
    <3>1. task'[s] = Claimed(task[s], t) /\ task[s] \in Row BY <1>1, <1>4, <2>2
    <3>2. /\ task'[s].by = t
          /\ task'[s].reclaims =
               IF ~Free(task[s]) /\ task[s].reclaims <= MaxStalled THEN task[s].reclaims + 1
               ELSE task[s].reclaims
      <4>1. /\ Claimed(task[s], t).by = t
            /\ Claimed(task[s], t).reclaims =
                 IF ~Free(task[s]) /\ task[s].reclaims <= MaxStalled THEN task[s].reclaims + 1
                 ELSE task[s].reclaims
        BY <3>1, RowFields
      <4> QED BY <3>1, <4>1
    <3>3. /\ task[s].reclaims \in Nat /\ MaxStalled \in Nat /\ starts[s] \in Nat
          /\ starts'[s] = starts[s]
      BY <1>2, <3>1, RowFields, TransportAssumption DEF Books
    <3>4. /\ starts[s] <= MaxStalled + 1 /\ starts[s] <= task[s].reclaims + 1
          /\ Free(task[s]) => starts[s] <= task[s].reclaims
      BY <1>4, <2>1, <2>2 DEF CountAt, Unstarted
    <3>5. starts[s] <= task'[s].reclaims BY <3>2, <3>3, <3>4
    <3>6. task'[s].reclaims \in Nat BY <3>2, <3>3
    <3> QED BY <3>3, <3>4, <3>5, <3>6 DEF CountAt
  <2>3. CASE s \notin S
    <3>1. task'[s] = task[s] BY <1>1, <2>3
    <3>2. IsRow(task[s]) /\ Unstarted(s)' => Unstarted(s)
      BY <1>3, <1>6, <3>1 DEF Unstarted, Mine
    <3> QED BY <1>2, <2>1, <3>1, <3>2, CountStays
  <2> QED BY <2>2, <2>3
<1>8. ASSUME Tended PROVE Tended'
  <2> SUFFICES ASSUME NEW u \in Token, NEW s \in Step, Mine(task'[s], u)
               PROVE  round'[u].job[s] \in TaskJobs
    BY DEF Tended
  <2>1. CASE s \in S
    <3>1. task'[s].by = t BY <1>1, <1>4, <2>1, RowFields
    <3>2. u = t BY <3>1 DEF Mine
    <3> QED BY <1>5, <1>6, <2>1, <3>2 DEF TaskJobs
  <2>2. CASE s \notin S
    <3>1. Mine(task[s], u) /\ u # t BY <1>1, <1>3, <2>2
    <3> QED BY <1>6, <1>8, <3>1 DEF Tended
  <2> QED BY <2>1, <2>2
<1> QED BY <1>7, <1>8 DEF Counts

\* A round that is taken looks at the count, and sets a poisoned row aside.
LEMMA TakeRoundCounts ==
  ASSUME TransportTypes, TransportInv, Counts, NEW t \in Token, TakeRound(t)
  PROVE  Counts' /\ (Tended => Tended')
<1> USE DEF TransportTypes, TransportInv
<1> DEFINE got == {s \in Step : round[t].job[s] = "claimed"}
<1>1. PICK S \in SUBSET got :
           /\ task' = Cleared(task, t, got \ S)
           /\ \A u \in Token : u # t => round'[u] = round[u]
           /\ \A s \in Step : round'[t].job[s] = IF s \in S THEN "taken" ELSE "none"
  BY TakeRoundShape, SMTT(30)
<1>2. starts' = starts /\ got # {} BY DEF TakeRound
<1>3. \A s \in Step :
         \/ task'[s] = task[s] /\ ~(s \in got \ S /\ Mine(task[s], t))
         \/ /\ s \in got \ S /\ Mine(task[s], t) /\ IsRow(task'[s]) /\ task'[s].by = NoToken
            /\ task'[s].reclaims = task[s].reclaims
  <2>1. got \ S \in SUBSET Step OBVIOUS
  <2> QED BY <1>1, <2>1, ClearedRows
<1>4. ASSUME NEW s \in Step PROVE CountAt(s)'
  <2>1. CountAt(s) /\ starts'[s] = starts[s] BY <1>2 DEF Counts
  <2>2. IsRow(task[s]) /\ Mine(task[s], t) /\ s \in got => Unstarted(s) BY DEF Unstarted, Mine
  <2>3. CASE task'[s] = task[s]
    <3>1. IsRow(task[s]) /\ Unstarted(s)' => Unstarted(s)
      BY <1>1, <2>2, <2>3 DEF Unstarted, Mine
    <3> QED BY <2>1, <2>3, <3>1, CountStays
  <2>4. CASE task'[s] # task[s] BY <1>3, <2>1, <2>2, <2>4, CountStays DEF Mine
  <2> QED BY <2>3, <2>4
<1>5. ASSUME Tended PROVE Tended'
  <2> SUFFICES ASSUME NEW u \in Token, NEW s \in Step, Mine(task'[s], u)
               PROVE  round'[u].job[s] \in TaskJobs
    BY DEF Tended
  <2>1. task'[s] = task[s] BY <1>3, TransportAssumption DEF Mine
  <2>2. round[u].job[s] \in TaskJobs BY <1>5, <2>1 DEF Tended
  <2>3. CASE u = t
    <3>1. s \in got
      BY <1>2, <2>2, <2>3 DEF RoundsFit, RoundFits, TaskJobs
    <3>2. s \in S BY <1>3, <2>1, <2>3, <3>1, TransportAssumption DEF Mine
    <3> QED BY <1>1, <2>3, <3>2 DEF TaskJobs
  <2>4. CASE u # t BY <1>1, <2>2, <2>4
  <2> QED BY <2>3, <2>4
<1> QED BY <1>4, <1>5 DEF Counts

\* A handler starts on a row that was claimed and has not started one: so one
\* more start is one more than the takeovers.
LEMMA StartTaskCounts ==
  ASSUME TransportTypes, TransportInv, Counts, NEW t \in Token, NEW s \in Step, StartTask(t, s)
  PROVE  Counts' /\ (Tended => Tended')
<1> USE DEF TransportTypes, TransportInv
<1>1. round[t] \in Round /\ round[t].job[s] = "taken" BY DEF StartTask
<1>2. CASE /\ UNCHANGED <<task, starts>>
           /\ \/ round' = [round EXCEPT ![t].job[s] = "poison"]
              \/ ~Mine(task[s], t) /\ round' = [round EXCEPT ![t] = Finished(round[t], s)]
  <2>1. /\ \A u \in Token : u # t => round'[u] = round[u]
        /\ \A x \in Step : x # s => round'[t].job[x] = round[t].job[x]
        /\ round'[t].job[s] = "poison" \/ ~Mine(task[s], t)
    <3>1. CASE round' = [round EXCEPT ![t].job[s] = "poison"]
      <4>1. /\ [round[t] EXCEPT !.job[s] = "poison"].job = [round[t].job EXCEPT ![s] = "poison"]
            /\ round' = [round EXCEPT ![t] = [round[t] EXCEPT !.job[s] = "poison"]]
        BY <1>1, <3>1, JobShape DEF Jobs
      <4> QED BY <1>1, <4>1 DEF Round
    <3>2. CASE ~Mine(task[s], t) /\ round' = [round EXCEPT ![t] = Finished(round[t], s)]
      <4>1. /\ \A u \in Token : u # t => round'[u] = round[u]
            /\ \A x \in Step : round'[t].job[x] = IF x = s THEN "none" ELSE round[t].job[x]
        BY <3>2, FinishedShape, ZenonT(60)
      <4> QED BY <3>2, <4>1
    <3> QED BY <1>2, <3>1, <3>2
  <2>2. Counts' BY <1>1, <1>2, <2>1, RoundCounts
  <2>3. Tended => Tended' BY <1>2, <2>1 DEF Tended, TaskJobs
  <2> QED BY <2>2, <2>3
<1>3. CASE /\ Mine(task[s], t) /\ task[s].reclaims <= MaxStalled
           /\ task' = [task EXCEPT ![s].lapsed = FALSE]
           /\ starts' = [starts EXCEPT ![s] = @ + 1]
           /\ round' = [round EXCEPT ![t].job[s] = "running"]
  <2>1. task[s] \in Row /\ IsRow(task[s]) /\ task[s].by = t BY <1>3 DEF Mine, IsRow
  <2>2. /\ task'[s].by = t /\ task'[s].reclaims = task[s].reclaims
        /\ \A x \in Step : x # s => task'[x] = task[x]
    BY <1>3, <2>1 DEF Row
  <2>3. /\ \A u \in Token : u # t => round'[u] = round[u]
        /\ \A x \in Step : round'[t].job[x] = IF x = s THEN "running" ELSE round[t].job[x]
    <3>1. /\ [round[t] EXCEPT !.job[s] = "running"].job = [round[t].job EXCEPT ![s] = "running"]
          /\ round' = [round EXCEPT ![t] = [round[t] EXCEPT !.job[s] = "running"]]
      BY <1>1, <1>3, JobShape DEF Jobs
    <3> QED BY <1>1, <3>1 DEF Round
  <2>4. CountAt(s)'
    <3>1. starts[s] <= task[s].reclaims BY <1>1, <2>1 DEF Counts, CountAt, Unstarted
    <3>2. starts'[s] = starts[s] + 1 BY <1>3 DEF Books
    <3>3. starts[s] \in Nat /\ task[s].reclaims \in Nat /\ MaxStalled \in Nat
      BY <2>1, TransportAssumption DEF Row, Books
    <3>4. ~Unstarted(s)' BY <2>2, <2>3, TransportAssumption DEF Unstarted, Free
    <3> QED BY <1>3, <2>2, <3>1, <3>2, <3>3, <3>4 DEF CountAt
  <2>5. ASSUME NEW x \in Step, x # s PROVE CountAt(x)'
    <3>1. task'[x] = task[x] /\ starts'[x] = starts[x] BY <1>3, <2>2, <2>5 DEF Books
    <3>2. Unstarted(x)' => Unstarted(x) BY <2>3, <2>5, <3>1 DEF Unstarted, Free
    <3> QED BY <3>1, <3>2, CountStays DEF Counts
  <2>6. Tended => Tended'
    <3> SUFFICES ASSUME Tended, NEW u \in Token, NEW x \in Step, Mine(task'[x], u)
                 PROVE  round'[u].job[x] \in TaskJobs
      BY DEF Tended
    <3>1. Mine(task[x], u) BY <2>1, <2>2 DEF Mine
    <3> QED BY <2>3, <3>1 DEF Tended, TaskJobs
  <2> QED BY <2>4, <2>5, <2>6 DEF Counts
<1> QED BY <1>2, <1>3 DEF StartTask

\* A handler that is done leaves its row started.
LEMMA HandlerDoneCounts ==
  ASSUME TransportTypes, TransportInv, Counts, NEW t \in Token, NEW s \in Step, NEW ok \in BOOLEAN,
         HandlerDone(t, s, ok)
  PROVE  Counts' /\ (Tended => Tended')
<1> USE DEF TransportTypes, TransportInv
<1> DEFINE r == [[round[t] EXCEPT !.job[s] = "ran"] EXCEPT !.ok[s] = ok]
<1>1. /\ round[t] \in Round /\ round[t].job[s] = "running"
      /\ round' = [round EXCEPT ![t] = r] /\ UNCHANGED <<task, starts>>
  BY DEF HandlerDone
<1>2. \A x \in Step : r.job[x] = IF x = s THEN "ran" ELSE round[t].job[x]
  BY <1>1, JobShape DEF Round, Jobs
<1> HIDE DEF r
<1>3. round'[t] = r /\ \A u \in Token : u # t => round'[u] = round[u] BY <1>1
<1>4. Counts' BY <1>1, <1>2, <1>3, RoundCounts
<1>5. Tended => Tended' BY <1>1, <1>2, <1>3 DEF Tended, TaskJobs
<1> QED BY <1>4, <1>5

\* A settle that fails leaves the row to its token, with nobody to tend it.
LEMMA SettleTaskCounts ==
  ASSUME TransportTypes, TransportInv, Counts, NEW t \in Token, NEW s \in Step, SettleTask(t, s)
  PROVE  Counts' /\ (Tended /\ fault.errors = 0 => Tended')
<1> USE DEF TransportTypes, TransportInv
<1>1. /\ round[t].job[s] \in {"ran", "poison"} /\ starts' = starts
      /\ round' = [round EXCEPT ![t] = Finished(round[t], s)]
  BY DEF SettleTask
<1>2. /\ \A u \in Token : u # t => round'[u] = round[u]
      /\ \A x \in Step : round'[t].job[x] = IF x = s THEN "none" ELSE round[t].job[x]
  BY <1>1, FinishedShape
<1>3. \A x \in Step : \/ task'[x] = task[x]
                      \/ x = s /\ ~IsRow(task'[s])
  BY DEF SettleTask, IsRow
<1>4. ASSUME NEW x \in Step PROVE CountAt(x)'
  <2>1. IsRow(task'[x]) => task'[x] = task[x] BY <1>3
  <2>2. IsRow(task'[x]) => (Unstarted(x)' => Unstarted(x)) BY <1>2, <2>1 DEF Unstarted, Free
  <2> QED BY <1>1, <2>1, <2>2, CountStays DEF Counts
<1>5. ASSUME Tended, fault.errors = 0 PROVE Tended'
  <2>1. ~Mine(task'[s], t) BY <1>5 DEF SettleTask, Fails, Mine, IsRow
  <2> SUFFICES ASSUME NEW u \in Token, NEW x \in Step, Mine(task'[x], u)
               PROVE  round'[u].job[x] \in TaskJobs
    BY DEF Tended
  <2>2. Mine(task[x], u) BY <1>3 DEF Mine
  <2>3. u # t \/ x # s BY <2>1
  <2> QED BY <1>2, <1>5, <2>2, <2>3 DEF Tended
<1> QED BY <1>4, <1>5 DEF Counts

\* Rounds of results are not about tasks.
LEMMA ResultRoundsCount ==
  ASSUME TransportTypes, TransportInv, Counts, NEW t \in Token,
         \/ \E i \in Inst : ClaimResults(i, t)
         \/ \E s \in Step : Returned(t, s) \/ Threw(t, s)
         \/ RoundRead(t)
         \/ DeleteRead(t)
  PROVE  Counts' /\ (Tended => Tended')
<1> USE DEF TransportTypes, TransportInv
<1>1. UNCHANGED <<task, starts>> BY DEF ClaimResults, Returned, Threw, RoundRead, DeleteRead
<1>2. /\ \A u \in Token : u # t => round'[u] = round[u]
      /\ \A s \in Step : round'[t].job[s] \notin TaskJobs \/ round'[t].job[s] = round[t].job[s]
  <2>1. ASSUME NEW i \in Inst, ClaimResults(i, t)
        PROVE  /\ \A u \in Token : u # t => round'[u] = round[u]
               /\ \A s \in Step : round'[t].job[s] \notin TaskJobs
    <3> DEFINE new(S) == [Idle EXCEPT !.kind = "results", !.inst = i,
                        !.job = [s \in Step |-> IF s \in S THEN "handed" ELSE "none"],
                        !.gen = [s \in Step |-> IF s \in S THEN result[s].gen ELSE 1],
                        !.ok = [s \in Step |-> s \in S /\ result[s].ok]]
    <3>1. PICK S : round' = [round EXCEPT ![t] = new(S)] BY <2>1 DEF ClaimResults
    <3>2. \A s \in Step : new(S).job[s] \in {"handed", "none"} BY IdleRound DEF Round
    <3> HIDE DEF new
    <3> QED BY <3>1, <3>2 DEF TaskJobs
  <2>2. ASSUME NEW s \in Step, Returned(t, s) \/ Threw(t, s)
        PROVE  /\ \A u \in Token : u # t => round'[u] = round[u]
               /\ \A x \in Step : round'[t].job[x] \notin TaskJobs \/ round'[t].job[x] = round[t].job[x]
    <3>1. PICK j \in {"read", "threw"} :
            round' = [round EXCEPT ![t] = [round[t] EXCEPT !.job[s] = j]]
      BY <2>2 DEF Returned, Threw
    <3>2. [round[t] EXCEPT !.job[s] = j].job = [round[t].job EXCEPT ![s] = j]
      BY JobShape DEF Jobs
    <3> QED BY <3>1, <3>2 DEF Round, TaskJobs
  <2>3. CASE RoundRead(t) BY <2>3 DEF RoundRead
  <2>4. CASE DeleteRead(t)
    <3>1. round' = [round EXCEPT ![t] = Idle] BY <2>4 DEF DeleteRead
    <3> QED BY <3>1, IdleFits DEF TaskJobs
  <2> QED BY <2>1, <2>2, <2>3, <2>4
<1>3. Counts' BY <1>1, <1>2, RoundCounts DEF TaskJobs
<1>4. ASSUME Tended PROVE Tended'
  <2> SUFFICES ASSUME NEW u \in Token, NEW x \in Step, Mine(task[x], u)
               PROVE  round'[u].job[x] \in TaskJobs
    BY <1>1 DEF Tended
  <2>1. round[u].job[x] \in TaskJobs BY <1>4 DEF Tended
  <2>2. round[t].job[x] \notin TaskJobs
    <3>1. CASE \E i \in Inst : ClaimResults(i, t)
      <4>1. round[t].job[x] = "none" BY <3>1, FreshToken DEF ClaimResults
      <4> QED BY <4>1 DEF TaskJobs
    <3>2. CASE \E s \in Step : Returned(t, s) \/ Threw(t, s)
      <4>1. round[t].kind = "results"
        BY <3>2 DEF Returned, Threw, RoundsFit, RoundFits, ResultJobs
      <4> QED BY <4>1 DEF RoundsFit, RoundFits
    <3>3. CASE RoundRead(t) \/ DeleteRead(t)
      BY <3>3 DEF RoundRead, DeleteRead, RoundsFit, RoundFits
    <3> QED BY <3>1, <3>2, <3>3
  <2> QED BY <1>2, <2>1, <2>2
<1> QED BY <1>3, <1>4

\* Leases, stops and deaths: a row that is renewed, late or orphaned counts as
\* before; one that is handed back is uncounted if it was started.
LEMMA LeaseCounts ==
  ASSUME TransportTypes, TransportInv, Counts,
         (\E s \in Step : Lapse(s)) \/ (\E i \in Inst : Renew(i) \/ Stop(i))
  PROVE  Counts' /\ (Tended => Tended')
<1> USE DEF TransportTypes, TransportInv
<1>1. UNCHANGED <<round, starts>> BY DEF Lapse, Renew, Stop
<1>2. \A x \in Step : \/ task'[x] = task[x]
                      \/ /\ IsRow(task[x]) /\ task'[x].by = task[x].by
                         /\ task'[x].reclaims = task[x].reclaims
  <2>1. ASSUME NEW s \in Step, Lapse(s), NEW x \in Step, task'[x] # task[x]
        PROVE  /\ IsRow(task[x]) /\ task'[x].by = task[x].by
               /\ task'[x].reclaims = task[x].reclaims
    <3>1. x = s /\ IsRow(task[s]) /\ task' = [task EXCEPT ![s].lapsed = TRUE]
      BY <2>1 DEF Lapse, RunsOut
    <3>2. task[s] \in Row BY <3>1 DEF IsRow
    <3> QED BY <3>1, <3>2 DEF Row
  <2>2. ASSUME NEW i \in Inst, Renew(i), NEW x \in Step, task'[x] # task[x]
        PROVE  /\ IsRow(task[x]) /\ task'[x].by = task[x].by
               /\ task'[x].reclaims = task[x].reclaims
    <3>1. PICK T \in SUBSET Token : task' = Renewed(task, T) BY <2>2 DEF Renew
    <3> QED BY <2>2, <3>1, RenewedRows
  <2>3. ASSUME NEW i \in Inst, Stop(i) PROVE task' = task BY <2>3 DEF Stop
  <2> QED BY <2>1, <2>2, <2>3
<1>3. ASSUME NEW s \in Step PROVE CountAt(s)'
  <2>1. CountAt(s) BY DEF Counts
  <2>2. IsRow(task'[s]) => (Unstarted(s)' => Unstarted(s)) BY <1>1, <1>2 DEF Unstarted, Free
  <2> QED BY <1>1, <1>2, <2>1, <2>2, CountStays
<1>4. \A x \in Step, u \in Token : Mine(task'[x], u) => Mine(task[x], u) BY <1>2 DEF Mine
<1> QED BY <1>1, <1>3, <1>4 DEF Counts, Tended

\* The rows of a process that is gone wait for a takeover, which is counted.
LEMMA DeadCounts ==
  ASSUME TransportTypes, TransportInv, Counts, NEW i \in Inst, Dead(i)
  PROVE  Counts' /\ (Tended => Tended')
<1> USE DEF TransportTypes, TransportInv
<1>1. PICK T \in SUBSET Token : T = {t \in Token : round[t].inst = i /\ round[t].kind # "idle"}
  OBVIOUS
<1>2. /\ task' = Orphaned(task, T)
      /\ \A t \in Token : round'[t] = IF round[t].inst = i THEN Idle ELSE round[t]
      /\ starts' = starts
  BY <1>1 DEF Dead
<1>3. \A s \in Step :
        \/ task'[s] = task[s] /\ ~(IsRow(task[s]) /\ task[s].by \in T)
        \/ /\ IsRow(task[s]) /\ task'[s].by = LostToken
           /\ task'[s].reclaims = task[s].reclaims
  BY <1>2, OrphanedRows
<1>4. ASSUME NEW s \in Step PROVE CountAt(s)'
  <2>1. CountAt(s) BY DEF Counts
  <2>2. IsRow(task'[s]) => (Unstarted(s)' => Unstarted(s))
    BY <1>2, <1>3, IdleFits, TransportAssumption DEF Unstarted, Free
  <2> QED BY <1>2, <1>3, <2>1, <2>2, CountStays
<1>5. ASSUME Tended PROVE Tended'
  <2> SUFFICES ASSUME NEW u \in Token, NEW x \in Step, Mine(task'[x], u)
               PROVE  round'[u].job[x] \in TaskJobs
    BY DEF Tended
  <2>1. task'[x] = task[x] /\ u \notin T BY <1>3, TransportAssumption DEF Mine
  <2>2. round[u].job[x] \in TaskJobs BY <1>5, <2>1 DEF Tended
  <2>3. round[u].kind # "idle" BY <2>2 DEF RoundsFit, RoundFits
  <2>4. round[u].inst # i BY <1>1, <2>1, <2>3
  <2> QED BY <1>2, <2>2, <2>4
<1> QED BY <1>4, <1>5 DEF Counts

\* A process that stops hands back the rows it has not started.
LEMMA HandBackCounts ==
  ASSUME TransportTypes, TransportInv, Counts, Tended, NEW i \in Inst, HandBack(i)
  PROVE  Counts' /\ Tended'
<1> USE DEF TransportTypes, TransportInv
<1>1. PICK T \in SUBSET Token : T = {t \in Token : held[t] # {} /\ round[t].inst = i} OBVIOUS
<1>2. /\ task' = Back(task, T)
      /\ starts' = [s \in Step |->
                      IF \E t \in T : Mine(task[s], t) /\ round[t].job[s] \in {"running", "ran"}
                      THEN starts[s] - 1 ELSE starts[s]]
      /\ round' = round
  BY <1>1 DEF HandBack, Back
<1>3. \A s \in Step :
        \/ task'[s] = task[s] /\ ~(IsRow(task[s]) /\ task[s].by \in T)
        \/ /\ IsRow(task[s]) /\ task[s].by \in T /\ IsRow(task'[s])
           /\ task'[s].by = NoToken /\ task'[s].reclaims = task[s].reclaims
  BY <1>2, BackRows
<1>4. ASSUME NEW s \in Step PROVE CountAt(s)'
  <2>1. CountAt(s) /\ starts[s] \in Nat BY DEF Counts, Books
  <2>2. CASE task'[s] = task[s] /\ ~(IsRow(task[s]) /\ task[s].by \in T)
    <3>1. starts'[s] = starts[s] BY <1>2, <2>2 DEF Mine
    <3>2. Unstarted(s)' => Unstarted(s) BY <1>2, <2>2 DEF Unstarted, Free
    <3> QED BY <2>1, <2>2, <3>1, <3>2, CountStays
  <2>3. CASE /\ IsRow(task[s]) /\ task[s].by \in T /\ IsRow(task'[s])
             /\ task'[s].by = NoToken /\ task'[s].reclaims = task[s].reclaims
    <3>1. PICK t \in T : Mine(task[s], t) /\ task[s].by = t BY <2>3 DEF Mine
    <3>2. round[t].job[s] \in TaskJobs BY <3>1 DEF Tended
    <3>3. task[s].reclaims \in Nat /\ MaxStalled \in Nat
      BY <2>3, TransportAssumption DEF IsRow, Row
    <3>4. starts'[s] <= task[s].reclaims /\ starts'[s] <= starts[s]
      <4>1. CASE round[t].job[s] \in {"running", "ran"}
        <5>1. starts'[s] = starts[s] - 1 BY <1>2, <3>1, <4>1
        <5>2. starts[s] <= task[s].reclaims + 1 BY <2>1, <2>3 DEF CountAt
        <5> QED BY <2>1, <3>3, <5>1, <5>2
      <4>2. CASE round[t].job[s] \notin {"running", "ran"}
        <5>1. Unstarted(s) BY <3>1, <3>2, <4>2 DEF Unstarted, TaskJobs
        <5>2. starts[s] <= task[s].reclaims BY <2>1, <2>3, <5>1 DEF CountAt
        <5>3. starts'[s] = starts[s] BY <1>2, <3>1, <4>2 DEF Mine
        <5> QED BY <2>1, <5>2, <5>3
      <4> QED BY <4>1, <4>2
    <3>5. starts'[s] \in Int BY <1>2, <2>1
    <3> QED BY <2>1, <2>3, <3>3, <3>4, <3>5 DEF CountAt
  <2> QED BY <1>3, <2>2, <2>3
<1>5. \A x \in Step, u \in Token : Mine(task'[x], u) => Mine(task[x], u)
  BY <1>3, TransportAssumption DEF Mine
<1> QED BY <1>2, <1>4, <1>5 DEF Counts, Tended

\* A step that is sent anew is a new row, with a count of its own.
LEMMA DispatchCounts ==
  ASSUME TransportTypes, TransportInv, Counts, NEW s \in Step, NEW g \in Nat, Dispatch(s, g)
  PROVE  Counts' /\ (Tended => Tended')
<1> USE DEF TransportTypes, TransportInv
<1>1. round' = round BY DEF Dispatch
<1>2. CASE IsRow(task[s])
  <2>1. task' = task /\ starts' = starts BY <1>2 DEF Dispatch, Inserted
  <2> QED BY <1>1, <2>1 DEF Counts, CountAt, Unstarted, Tended
<1>3. CASE ~IsRow(task[s])
  <2>1. task' = [task EXCEPT ![s] = NewRow(g, FALSE)] /\ starts' = [starts EXCEPT ![s] = 0]
    BY <1>3 DEF Dispatch, Inserted
  <2>2. NewRow(g, FALSE).by = NoToken /\ NewRow(g, FALSE).reclaims = 0 BY DEF NewRow
  <2>3. CountAt(s)'
    <3>1. starts'[s] = 0 /\ task'[s].reclaims = 0 BY <2>1, <2>2 DEF Books
    <3> QED BY <3>1, TransportAssumption DEF CountAt
  <2>4. ASSUME NEW x \in Step, x # s PROVE CountAt(x)'
    <3>1. task'[x] = task[x] /\ starts'[x] = starts[x] BY <2>1, <2>4 DEF Books
    <3>2. Unstarted(x)' => Unstarted(x) BY <1>1, <3>1 DEF Unstarted, Free
    <3> QED BY <3>1, <3>2, CountStays DEF Counts
  <2>5. \A x \in Step, u \in Token : Mine(task'[x], u) => Mine(task[x], u)
    BY <2>1, <2>2, TransportAssumption DEF Mine
  <2> QED BY <1>1, <2>3, <2>4, <2>5 DEF Counts, Tended
<1> QED BY <1>2, <1>3

\* What is left to go wrong only gets less; late renewals are not of either kind.
LEMMA FaultsShrink ==
  ASSUME fault \in [Disturbances -> Nat], fault' \in [Disturbances -> Nat],
         \/ fault' = fault \/ Late \/ Fails
         \/ fault.crashes > 0 /\ fault' = [fault EXCEPT !.crashes = @ - 1]
         \/ fault.stops > 0 /\ fault' = [fault EXCEPT !.stops = @ - 1]
  PROVE  fault'.errors <= fault.errors /\ fault'.stops <= fault.stops
<1>1. fault.errors \in Nat /\ fault.stops \in Nat /\ fault.crashes \in Nat BY DEF Disturbances
<1>2. CASE Late BY <1>1, <1>2 DEF Late, Disturbances
<1>3. CASE ~Late BY <1>1, <1>3 DEF Fails, Disturbances
<1> QED BY <1>2, <1>3

\* When nothing fails, or nothing is stopped, every step keeps the counts.
LEMMA OrderlyCounts ==
  ASSUME TransportTypes, TransportInv, Orderly, Counts,
         \/ TransportStep \/ \E i \in Inst : Crash(i)
         \/ \E s \in Step, g \in Gen : Dispatch(s, g)
         \/ \E t \in Token, s \in Step : Returned(t, s) \/ Threw(t, s)
         \/ UNCHANGED transportVars
  PROVE  Orderly' /\ Counts'
<1>1. TransportInv'
  BY TransportStepKeeps, DispatchKeeps, HandledKeeps, NothingKeeps
<1>2. fault \in [Disturbances -> Nat] /\ fault' \in [Disturbances -> Nat]
      /\ closing \subseteq Inst
  BY <1>1 DEF TransportInv, Books
<1>3. fault'.errors <= fault.errors /\ fault'.stops <= fault.stops
      /\ (closing' \subseteq closing \/ fault.stops > 0)
  <2> DEFINE Spent == \/ fault' = fault \/ Late \/ Fails
                      \/ fault.crashes > 0 /\ fault' = [fault EXCEPT !.crashes = @ - 1]
                      \/ fault.stops > 0 /\ fault' = [fault EXCEPT !.stops = @ - 1]
             Shut  == closing' \subseteq closing \/ fault.stops > 0
  <2>1. ASSUME NEW i \in Inst, Renew(i) \/ Stop(i) \/ HandBack(i) \/ Exit(i) \/ Crash(i)
        PROVE  Spent /\ Shut
    BY <2>1 DEF Renew, Stop, HandBack, Crash, Exit, Dead
  <2>2. ASSUME NEW i \in Inst, NEW t \in Token, ClaimTasks(i, t) \/ ClaimResults(i, t)
        PROVE  Spent /\ Shut
    BY <2>2 DEF ClaimTasks, ClaimResults
  <2>3. ASSUME NEW t \in Token, TakeRound(t) \/ RoundRead(t) \/ DeleteRead(t)
        PROVE  Spent /\ Shut
    BY <2>3 DEF TakeRound, RoundRead, DeleteRead
  <2>4. ASSUME NEW t \in Token, NEW s \in Step,
               \/ StartTask(t, s) \/ SettleTask(t, s) \/ Returned(t, s) \/ Threw(t, s)
               \/ \E ok \in BOOLEAN : HandlerDone(t, s, ok)
        PROVE  Spent /\ Shut
    BY <2>4 DEF StartTask, SettleTask, Returned, Threw, HandlerDone
  <2>5. ASSUME NEW s \in Step, Lapse(s) \/ \E g \in Gen : Dispatch(s, g)
        PROVE  Spent /\ Shut
    BY <2>5 DEF Lapse, RunsOut, Dispatch
  <2>6. ASSUME UNCHANGED transportVars PROVE Spent /\ Shut BY <2>6 DEF transportVars
  <2> HIDE DEF Spent, Shut
  <2>7. ASSUME TransportStep PROVE Spent /\ Shut
    BY <2>1, <2>2, <2>3, <2>4, <2>5, <2>7 DEF TransportStep
  <2>8. Spent /\ Shut BY <2>1, <2>4, <2>5, <2>6, <2>7
  <2> QED BY <1>2, <2>8, FaultsShrink DEF Spent, Shut
<1>4. Counts' /\ (Tended /\ fault.errors = 0 => Tended')
  <2>1. ASSUME NEW i \in Inst, Dead(i) PROVE Counts' /\ (Tended => Tended') BY <2>1, DeadCounts
  <2>2. ASSUME NEW i \in Inst, HandBack(i)
        PROVE  Counts' /\ (Tended /\ fault.errors = 0 => Tended')
    <3>1. Tended BY <2>2 DEF Orderly, HandBack
    <3> QED BY <2>2, <3>1, HandBackCounts
  <2>3. CASE UNCHANGED transportVars
    BY <2>3 DEF transportVars, Counts, CountAt, Unstarted, Tended
  <2>4. \A g \in Gen : g \in Nat BY DEF Gen
  <2> QED
    BY <2>1, <2>2, <2>3, <2>4, ClaimTasksCounts, TakeRoundCounts, StartTaskCounts,
       HandlerDoneCounts, SettleTaskCounts, ResultRoundsCount, LeaseCounts, DispatchCounts
       DEF TransportStep, Crash, Exit
<1> QED BY <1>2, <1>3, <1>4, OrderlyKeeps
=============================================================================
