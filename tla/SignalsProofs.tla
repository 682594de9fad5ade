--------------------------- MODULE SignalsProofs ---------------------------
(***************************************************************************)
(* Proofs about Signals, for every number of payloads and waits, every     *)
(* number of calls under way at once and however many processes die.       *)
(*                                                                         *)
(* A payload is always in one hand at most.  Inductive is                  *)
(*                                                                         *)
(*    IndInv == TypeOK /\ HoldersOK /\ Apart                               *)
(*                                                                         *)
(* where HoldersOK says that who is about to pass a payload on has it, and *)
(* Apart says of every two places that they do not hold the same payload.  *)
(*                                                                         *)
(* A payload beside a waiter is in somebody's hand (PairOK): whoever put   *)
(* the second of the two there has not taken its second look.  And where   *)
(* calls come one after the other, nobody dies and no payload is written   *)
(* over, the payloads go from the calls to the waits by way of a buffer    *)
(* that keeps their order (OrderInv).                                      *)
(***************************************************************************)
EXTENDS Signals, FiniteSetTheorems, TLAPS

\* A call that has not buffered its payload has it, one that goes on with a
\* waiter has read one; a turn about to keep a payload has taken it.
HoldersOK ==
    /\ \A m \in Msgs :
          /\ call[m] \in {"ready", "take", "buffer"} => hand[m] = m
          /\ call[m] \in {"take", "retake", "reclaim", "claim"} => found[m] # None
    /\ pc = "keep" => taken # None
    /\ pc = "retract" => replay[at] # None

Rows == 1 .. Len(buffer)

Apart ==
    /\ \A i, j \in Rows : buffer[i] = buffer[j] => i = j
    /\ \A j, k \in Msgs : hand[j] # None /\ hand[j] = hand[k] => j = k
    /\ \A r, s \in Seqs : cp[r] # None /\ cp[r] = cp[s] => r = s
    /\ \A k \in Msgs, i \in Rows : hand[k] # buffer[i]
    /\ \A k \in Msgs, s \in Seqs : hand[k] # None => hand[k] # cp[s]
    /\ \A i \in Rows, s \in Seqs : buffer[i] # cp[s]
    /\ taken # None =>
          /\ \A k \in Msgs : hand[k] # taken
          /\ \A i \in Rows : buffer[i] # taken
          /\ \A s \in Seqs : cp[s] # taken

IndInv == TypeOK /\ HoldersOK /\ Apart

\* Payloads and seqs are numbers from 1 on.
LEMMA Numbers == None \notin Msgs /\ None \notin Seqs /\ TimedOut \notin Msgs /\ 1 \in Seqs
  BY SignalsAssumption DEF None, Msgs, Seqs, TimedOut

\* A sequence without its first row.
LEMMA TailRows ==
  ASSUME NEW S, NEW b \in Seq(S), b # <<>>
  PROVE  /\ Tail(b) \in Seq(S) /\ Len(Tail(b)) = Len(b) - 1
         /\ Head(b) = b[1] /\ Head(b) \in S /\ 1 \in 1 .. Len(b)
         /\ \A i \in 1 .. Len(Tail(b)) : i + 1 \in 1 .. Len(b) /\ Tail(b)[i] = b[i + 1]
  OBVIOUS

\* The DELETE of a claim: what stays was there, and not the payload claimed.
LEMMA ClaimTakesOut ==
  ASSUME TypeOK, Apart, NEW m \in Msgs \union {None}, buffer' = Remaining(m)
  PROVE  /\ buffer' \in Seq(Msgs)
         /\ Claimed(m) \in Msgs \union {None}
         /\ \A i, j \in Rows' : buffer'[i] = buffer'[j] => i = j
         /\ \A i \in Rows' : \E j \in Rows : buffer'[i] = buffer[j]
         /\ Claimed(m) # None => /\ \E j \in Rows : buffer[j] = Claimed(m)
                                 /\ \A i \in Rows' : buffer'[i] # Claimed(m)
<1> USE DEF Rows
<1>1. CASE StillThere(m)
  <2>1. buffer \in Seq(Msgs) /\ buffer # <<>> /\ m = Head(buffer) /\ m # None
    BY <1>1 DEF TypeOK, StillThere, Oldest
  <2>2. buffer' = Tail(buffer) /\ Claimed(m) = m
    BY <1>1 DEF Remaining, Claimed, Won
  <2>3. \A i \in 1 .. Len(Tail(buffer)) :
           i + 1 \in 1 .. Len(buffer) /\ Tail(buffer)[i] = buffer[i + 1]
    BY <2>1, TailRows
  <2>4. \A i, j \in Rows' : buffer'[i] = buffer'[j] => i = j
    BY <2>2, <2>3 DEF Apart
  <2>5. \A i \in Rows' : buffer'[i] # m
    <3> SUFFICES ASSUME NEW i \in Rows', buffer'[i] = m PROVE FALSE OBVIOUS
    <3>1. i + 1 \in Rows /\ buffer[i + 1] = buffer[1] /\ 1 \in Rows
      BY <2>1, <2>2, <2>3, TailRows
    <3>2. i + 1 = 1 BY <3>1 DEF Apart
    <3> QED BY <3>2
  <2> QED BY <2>1, <2>2, <2>3, <2>4, <2>5, TailRows, SMTT(30)
<1>2. CASE ~StillThere(m)
  BY <1>2, ZenonT(60) DEF Remaining, Claimed, Won, Apart, TypeOK
<1> QED BY <1>1, <1>2

\* Nothing moves when the four kinds of places stay as they are.
LEMMA NothingMoves ==
  ASSUME Apart, UNCHANGED <<buffer, cp, hand, taken>> PROVE Apart'
  BY DEF Apart, Rows

\* Initially every payload is in the hand of its own call.
LEMMA InitOK == Init => IndInv
<1> SUFFICES ASSUME Init PROVE IndInv OBVIOUS
<1> USE Numbers, SignalsAssumption
<1>1. TypeOK
  <2>1. setting \in Setting BY DEF Init
  <2>2. left \in [turn : Nat, call : Nat] BY <2>1 DEF Init, Setting
  <2>3. buffer \in Seq(Msgs) BY DEF Init
  <2> QED BY <2>1, <2>2, <2>3 DEF Init, TypeOK, Unresolved, CallStates, TurnStates
<1>2. HoldersOK BY DEF Init, HoldersOK
<1>3. Apart BY DEF Init, Apart, Unresolved, Rows
<1> QED BY <1>1, <1>2, <1>3 DEF IndInv

\* The row a look finds is a payload, or none.
LEMMA OldestTypes ==
  ASSUME buffer \in Seq(Msgs) PROVE Oldest \in Msgs \union {None}
  BY TailRows DEF Oldest

\* Telling the body moves it on to a wait of the body.
LEMMA TellTypes ==
  ASSUME at \in Seqs, told \in [Seqs -> Msgs \union {None, TimedOut}],
         NEW what \in Msgs \union {None, TimedOut}, Tell(what)
  PROVE  /\ told' \in [Seqs -> Msgs \union {None, TimedOut}]
         /\ pc' \in {"wait", "return"} /\ at' \in Seqs
  BY SignalsAssumption DEF Tell, Seqs

\* Every action keeps the variables in their domains; who has a waiter and a
\* payload when it delivers is in HoldersOK.
LEMMA TypeStep ==
  ASSUME TypeOK, HoldersOK, Apart, [Next]_vars PROVE TypeOK'
<1> USE Numbers DEF TypeOK, CallStates, TurnStates, store, turn, caller
<1>1. ASSUME NEW m \in Msgs, Signal(m) PROVE TypeOK'
  BY <1>1 DEF Signal
<1>2. ASSUME NEW m \in Msgs, Take(m) PROVE TypeOK'
  BY <1>2 DEF Take, HoldersOK
<1>3. ASSUME NEW m \in Msgs, BufferSignal(m) PROVE TypeOK'
  BY <1>3 DEF BufferSignal, Buffered, AfterBuffering
<1>4. ASSUME NEW m \in Msgs, LookAgain(m) PROVE TypeOK'
  BY <1>4 DEF LookAgain
<1>5. ASSUME NEW m \in Msgs, TakeLate(m) PROVE TypeOK'
  BY <1>5 DEF TakeLate, HoldersOK
<1>6. ASSUME NEW m \in Msgs, ReadOldest(m) PROVE TypeOK'
  BY <1>6, OldestTypes DEF ReadOldest
<1>7. ASSUME NEW m \in Msgs, Reclaim(m) PROVE TypeOK'
  <2>1. Claimed(head[m]) \in Msgs \union {None} /\ buffer' \in Seq(Msgs)
    BY <1>7, ClaimTakesOut DEF Reclaim
  <2>2. Won(head[m]) => Claimed(head[m]) # None BY DEF Won, Claimed, StillThere
  <2> QED BY <1>7, <2>1, <2>2 DEF Reclaim, Reclaimed, HoldersOK
<1>8. ASSUME NEW m \in Msgs, Deliver(m) PROVE TypeOK'
  BY <1>8 DEF Deliver
<1>9. ASSUME NEW m \in Msgs, Wake(m) PROVE TypeOK'
  BY <1>9 DEF Wake
<1>10. ASSUME NEW m \in Msgs, CallDies(m) PROVE TypeOK'
  BY <1>10 DEF CallDies
<1>11. CASE Begin BY <1>11 DEF Begin
<1>12. CASE Load BY <1>12 DEF Load
<1>13. CASE StampDeadline BY <1>13 DEF StampDeadline
<1>14. CASE Resolved BY <1>14, TellTypes DEF Resolved, Recorded
<1>15. CASE Missing BY <1>15 DEF Missing
<1>16. CASE LookInBuffer BY <1>16, OldestTypes DEF LookInBuffer, Empty
<1>17. CASE ClaimBuffered BY <1>17, ClaimTakesOut DEF ClaimBuffered, Empty, Won, Claimed
<1>18. CASE KeepBuffered
  <2>1. CASE second BY <1>18, <2>1 DEF KeepBuffered
  <2>2. CASE ~second BY <1>18, <2>2, TellTypes DEF KeepBuffered
  <2> QED BY <2>1, <2>2
<1>19. CASE Retract BY <1>19, TellTypes DEF Retract, WithoutOwn
<1>20. CASE CheckDeadline BY <1>20 DEF CheckDeadline
<1>21. CASE Expire BY <1>21, TellTypes DEF Expire, WithoutOwn
<1>22. CASE Register BY <1>22 DEF Register, AfterRegistering
<1>23. CASE Suspend BY <1>23 DEF Suspend, Timer
<1>24. CASE Return BY <1>24 DEF Return
<1>25. CASE TurnDies BY <1>25 DEF TurnDies
<1>26. ASSUME NEW s \in Seqs, DeadlinePasses(s) PROVE TypeOK'
  BY <1>26 DEF DeadlinePasses
<1>27. CASE UNCHANGED vars BY <1>27 DEF vars
<1> QED
  BY <1>1, <1>2, <1>3, <1>4, <1>5, <1>6, <1>7, <1>8, <1>9, <1>10, <1>11, <1>12, <1>13, <1>14, <1>15, <1>16, <1>17, <1>18, <1>19, <1>20, <1>21, <1>22, <1>23, <1>24, <1>25, <1>26, <1>27 DEF Next, TurnStep, CallStep

\* Who passes a payload on has it.
LEMMA HoldersStep ==
  ASSUME TypeOK, HoldersOK, Apart, [Next]_vars PROVE HoldersOK'
<1> USE Numbers DEF TypeOK, HoldersOK, CallStates, TurnStates, store, turn, caller
<1>1. ASSUME NEW m \in Msgs, Signal(m) PROVE HoldersOK' BY <1>1 DEF Signal
<1>2. ASSUME NEW m \in Msgs, Take(m) PROVE HoldersOK' BY <1>2 DEF Take
<1>3. ASSUME NEW m \in Msgs, BufferSignal(m) PROVE HoldersOK'
  BY <1>3 DEF BufferSignal, AfterBuffering
<1>4. ASSUME NEW m \in Msgs, LookAgain(m) PROVE HoldersOK' BY <1>4 DEF LookAgain
<1>5. ASSUME NEW m \in Msgs, TakeLate(m) PROVE HoldersOK' BY <1>5 DEF TakeLate
<1>6. ASSUME NEW m \in Msgs, ReadOldest(m) PROVE HoldersOK' BY <1>6 DEF ReadOldest
<1>7. ASSUME NEW m \in Msgs, Reclaim(m) PROVE HoldersOK' BY <1>7 DEF Reclaim, Reclaimed
<1>8. ASSUME NEW m \in Msgs, Deliver(m) \/ Wake(m) \/ CallDies(m) PROVE HoldersOK'
  BY <1>8 DEF Deliver, Wake, CallDies
<1>9. CASE Begin \/ Load \/ StampDeadline \/ Missing \/ TurnDies
  BY <1>9 DEF Begin, Load, StampDeadline, Missing, TurnDies
<1>10. CASE Resolved \/ Retract \/ Expire BY <1>10, TellTypes DEF Resolved, Recorded, Retract, Expire
<1>11. CASE LookInBuffer BY <1>11 DEF LookInBuffer, Empty
<1>12. CASE ClaimBuffered
  <2>1. Won(row) => taken' # None BY <1>12 DEF ClaimBuffered, Claimed, Won, StillThere
  <2> QED BY <1>12, <2>1 DEF ClaimBuffered, Empty
<1>13. CASE KeepBuffered
  <2>1. CASE second BY <1>13, <2>1 DEF KeepBuffered
  <2>2. CASE ~second BY <1>13, <2>2, TellTypes DEF KeepBuffered
  <2> QED BY <2>1, <2>2
<1>14. CASE CheckDeadline \/ Register \/ Suspend \/ Return
  BY <1>14 DEF CheckDeadline, Register, AfterRegistering, Suspend, Return
<1>15. ASSUME NEW s \in Seqs, DeadlinePasses(s) PROVE HoldersOK' BY <1>15 DEF DeadlinePasses
<1>16. CASE UNCHANGED vars BY <1>16 DEF vars
<1> QED
  BY <1>1, <1>2, <1>3, <1>4, <1>5, <1>6, <1>7, <1>8, <1>9, <1>10, <1>11, <1>12, <1>13,
     <1>14, <1>15, <1>16 DEF Next, TurnStep, CallStep

\* The actions that move a payload take it out of the place it leaves.
LEMMA ApartStep ==
  ASSUME TypeOK, HoldersOK, Apart, [Next]_vars PROVE Apart'
<1> USE Numbers DEF TypeOK, store, turn, caller
<1>1. ASSUME NEW m \in Msgs, BufferSignal(m) PROVE Apart'
  <2>1. hand[m] = m /\ hand' = [hand EXCEPT ![m] = None] /\ buffer' = Append(buffer, m)
        /\ UNCHANGED <<cp, taken>>
    BY <1>1 DEF BufferSignal, Buffered, HoldersOK
  <2>2. /\ Len(buffer') = Len(buffer) + 1 /\ buffer'[Len(buffer) + 1] = m
        /\ \A i \in Rows : buffer'[i] = buffer[i]
        /\ Rows' = Rows \union {Len(buffer) + 1} /\ Len(buffer) \in Nat
    BY <2>1 DEF Rows
  <2>3. \A i \in Rows' : (i \in Rows /\ buffer'[i] = buffer[i]) \/ (i = Len(buffer) + 1 /\ buffer'[i] = m)
    BY <2>2
  <2>4. \A k \in Msgs : hand'[k] # m /\ (hand'[k] # None => hand'[k] = hand[k])
    BY <2>1 DEF Apart
  <2>5. \A i \in Rows : buffer[i] # m BY <2>1 DEF Apart
  <2>6. \A i, j \in Rows' : buffer'[i] = buffer'[j] => i = j
    <3> SUFFICES ASSUME NEW i \in Rows', NEW j \in Rows', buffer'[i] = buffer'[j]
                 PROVE  i = j
      OBVIOUS
    <3>1. CASE i \in Rows /\ j \in Rows
      <4>1. buffer[i] = buffer[j] BY <2>2, <3>1
      <4> QED BY <3>1, <4>1 DEF Apart
    <3>2. CASE i \notin Rows \/ j \notin Rows BY <2>2, <2>3, <2>5, <3>2
    <3> QED BY <3>1, <3>2
  <2>7. \A k \in Msgs, i \in Rows' : hand'[k] # buffer'[i]
    BY <2>1, <2>3, <2>4 DEF Apart, Rows
  <2>8. \A i \in Rows', s \in Seqs : buffer'[i] # cp'[s]
    <3>1. \A s \in Seqs : m # cp[s] BY <2>1 DEF Apart
    <3>2. \A i \in Rows, s \in Seqs : buffer[i] # cp[s] BY DEF Apart
    <3> QED BY <2>1, <2>3, <3>1, <3>2, ZenonT(60)
  <2>9. taken' # None => /\ \A k \in Msgs : hand'[k] # taken'
                         /\ \A i \in Rows' : buffer'[i] # taken'
                         /\ \A s \in Seqs : cp'[s] # taken'
    <3> SUFFICES ASSUME taken # None
                 PROVE  /\ \A k \in Msgs : hand'[k] # taken
                        /\ \A i \in Rows' : buffer'[i] # taken
                        /\ \A s \in Seqs : cp[s] # taken
      BY <2>1
    <3>1. m # taken /\ \A i \in Rows : buffer[i] # taken BY <2>1 DEF Apart
    <3>2. \A i \in Rows' : buffer'[i] # taken BY <2>3, <3>1
    <3> QED BY <2>4, <3>2 DEF Apart
  <2> QED BY <2>1, <2>4, <2>6, <2>7, <2>8, <2>9, ZenonT(60) DEF Apart
<1>2. ASSUME NEW m \in Msgs, Reclaim(m) PROVE Apart'
  <2>1. hand' = [hand EXCEPT ![m] = Claimed(head[m])] /\ UNCHANGED <<cp, taken>>
    BY <1>2 DEF Reclaim
  <2>2. buffer' = Remaining(head[m]) /\ head[m] \in Msgs \union {None} BY <1>2 DEF Reclaim
  <2>3. /\ \A i, j \in Rows' : buffer'[i] = buffer'[j] => i = j
        /\ \A i \in Rows' : \E j \in Rows : buffer'[i] = buffer[j]
        /\ Claimed(head[m]) # None => /\ \E j \in Rows : buffer[j] = Claimed(head[m])
                                      /\ \A i \in Rows' : buffer'[i] # Claimed(head[m])
    BY <2>2, ClaimTakesOut
  <2>4. Claimed(head[m]) # None => /\ \A k \in Msgs : hand[k] # Claimed(head[m])
                                   /\ \A s \in Seqs : cp[s] # Claimed(head[m])
                                   /\ taken # Claimed(head[m])
    BY <2>3 DEF Apart
  <2>5. \A j, k \in Msgs : hand'[j] # None /\ hand'[j] = hand'[k] => j = k
    BY <2>1, <2>4 DEF Apart
  <2>6. \A k \in Msgs, i \in Rows' : hand'[k] # buffer'[i]
    <3> SUFFICES ASSUME NEW k \in Msgs, NEW i \in Rows' PROVE hand'[k] # buffer'[i] OBVIOUS
    <3>1. PICK j \in Rows : buffer'[i] = buffer[j] BY <2>3
    <3>2. buffer[j] \in Msgs BY DEF Rows
    <3> QED BY <2>1, <2>3, <3>1, <3>2 DEF Apart
  <2>7. \A k \in Msgs, s \in Seqs : hand'[k] # None => hand'[k] # cp'[s]
    BY <2>1, <2>4 DEF Apart
  <2>8. \A i \in Rows', s \in Seqs : buffer'[i] # cp'[s] BY <2>1, <2>3 DEF Apart
  <2>9. taken' # None => /\ \A k \in Msgs : hand'[k] # taken'
                         /\ \A i \in Rows' : buffer'[i] # taken'
                         /\ \A s \in Seqs : cp'[s] # taken'
    BY <2>1, <2>3, <2>4 DEF Apart
  <2> QED BY <2>1, <2>3, <2>5, <2>6, <2>7, <2>8, <2>9 DEF Apart
<1>3. ASSUME NEW m \in Msgs, Deliver(m) PROVE Apart'
  <2>1. /\ cp' = [cp EXCEPT ![found[m]] = hand[m]] /\ hand' = [hand EXCEPT ![m] = None]
        /\ hand[m] # None /\ found[m] \in Seqs /\ UNCHANGED <<buffer, taken>>
    BY <1>3 DEF Deliver
  <2> QED BY <2>1 DEF Apart, Rows
<1>4. ASSUME NEW m \in Msgs, CallDies(m) PROVE Apart'
  BY <1>4 DEF CallDies, Apart, Rows
<1>5. CASE ClaimBuffered
  <2>1. taken' = Claimed(row) /\ UNCHANGED <<cp, hand>> BY <1>5 DEF ClaimBuffered
  <2>2. buffer' = Remaining(row) /\ row \in Msgs \union {None} BY <1>5 DEF ClaimBuffered
  <2> QED BY <2>1, <2>2, ClaimTakesOut DEF Apart
<1>6. CASE KeepBuffered
  <2>1. cp' = [cp EXCEPT ![at] = taken] /\ taken' = None /\ taken # None
        /\ UNCHANGED <<buffer, hand>>
    BY <1>6 DEF KeepBuffered, HoldersOK
  <2>2. \A s \in Seqs : cp'[s] = cp[s] \/ (s = at /\ cp'[s] = taken) BY <2>1
  <2>3. /\ \A k \in Msgs : hand[k] # taken
        /\ \A i \in Rows : buffer[i] # taken
        /\ \A s \in Seqs : cp[s] # taken
    BY <2>1 DEF Apart
  <2>4. \A r, s \in Seqs : cp'[r] # None /\ cp'[r] = cp'[s] => r = s
    BY <2>1, <2>2, <2>3 DEF Apart
  <2>5. \A k \in Msgs, s \in Seqs : hand[k] # None => hand[k] # cp'[s]
    BY <2>2, <2>3 DEF Apart
  <2>6. \A i \in Rows, s \in Seqs : buffer[i] # cp'[s]
    BY <2>2, <2>3 DEF Apart
  <2>7. Rows' = Rows BY <2>1 DEF Rows
  <2> QED BY <2>1, <2>4, <2>5, <2>6, <2>7 DEF Apart
<1>7. CASE TurnDies BY <1>7 DEF TurnDies, Apart, Rows
<1>8. ASSUME NEW m \in Msgs,
             Signal(m) \/ Take(m) \/ LookAgain(m) \/ TakeLate(m) \/ ReadOldest(m) \/ Wake(m)
      PROVE  Apart'
  BY <1>8, NothingMoves DEF Signal, Take, LookAgain, TakeLate, ReadOldest, Wake
<1>9. CASE \/ Begin \/ Load \/ StampDeadline \/ Resolved \/ Missing \/ LookInBuffer \/ Retract
           \/ CheckDeadline \/ Expire \/ Register \/ Suspend \/ Return
  BY <1>9, NothingMoves DEF Begin, Load, StampDeadline, Resolved, Missing, LookInBuffer, Retract,
       CheckDeadline, Expire, Register, Suspend, Return
<1>10. ASSUME NEW s \in Seqs, DeadlinePasses(s) PROVE Apart'
  BY <1>10, NothingMoves DEF DeadlinePasses
<1>11. CASE UNCHANGED vars BY <1>11, NothingMoves DEF vars
<1> QED
  BY <1>1, <1>2, <1>3, <1>4, <1>5, <1>6, <1>7, <1>8, <1>9, <1>10, <1>11
     DEF Next, TurnStep, CallStep

\* The invariant of every behaviour.
THEOREM SignalsInductive == Spec => []IndInv
<1>1. Init => IndInv BY InitOK
<1>2. IndInv /\ [Next]_vars => IndInv'
  BY TypeStep, HoldersStep, ApartStep DEF IndInv
<1> QED BY <1>1, <1>2, PTL DEF Spec

\* Every variable stays in its domain: whoever delivers a payload has one, and
\* a waiter to deliver it to (deliverSignal gets what takeSignalWaiter and
\* takeBufferedSignal returned).
THEOREM SignalTypes == Spec => []TypeOK
BY SignalsInductive, PTL DEF IndInv

\* What Apart says of the places one by one, DeliveredOnce says of them all.
LEMMA ApartOnce == ASSUME Apart PROVE DeliveredOnce
<1> SUFFICES ASSUME NEW m \in Msgs, NEW p \in Places(m), NEW q \in Places(m) PROVE p = q
  BY DEF DeliveredOnce
<1> QED BY Numbers DEF Places, Apart, Rows

\* The destructive takes arbitrate: a payload is never delivered twice, with
\* any number of callers at once and any number of deaths.
THEOREM NeverTwice == Spec => []DeliveredOnce
<1>1. IndInv => DeliveredOnce BY ApartOnce DEF IndInv
<1> QED BY <1>1, SignalsInductive, PTL

-----------------------------------------------------------------------------
(* No pair is left behind.  The invariant follows who still has to look: a *)
(* turn stops with a waiter and a payload side by side only if a call took *)
(* the payload it had read, or one is in the middle of its second look; in *)
(* either case that call goes on, or a wake is owed.                       *)

\* A turn that will not look in the buffer again before it ends, or will find
\* the row it read gone.
LooksNoMore ==
    \/ pc = "suspend"
    \/ pc = "idle" /\ status = "suspended"
    \/ pc = "claim" /\ second /\ ~StillThere(row)

\* A call that has yet to look for the waiter, or to wake the run; what a dead
\* call has left undone, nobody does.
Going == {"relook", "retake", "deliver", "wake", "dead"}

Attended == woken \/ \E m \in Msgs : call[m] \in Going

PairOK == LooksNoMore /\ waiter # None /\ buffer # <<>> => Attended

\* A call that goes on, or dies, is not one of those that are done.
LEMMA StillAttended ==
  ASSUME call \in [Msgs -> CallStates], Attended, woken => woken',
         NEW k \in Msgs, NEW next \in CallStates, call' = [call EXCEPT ![k] = next],
         call[k] \in Going => next \in Going \/ woken'
  PROVE  Attended'
<1>1. CASE woken BY <1>1 DEF Attended
<1>2. ASSUME NEW m \in Msgs, call[m] \in Going PROVE Attended'
  <2>1. CASE m = k BY <1>2, <2>1 DEF Attended
  <2>2. CASE m # k
    <3>1. call'[m] \in Going BY <1>2, <2>2
    <3> QED BY <3>1 DEF Attended
  <2> QED BY <2>1, <2>2
<1> QED BY <1>1, <1>2 DEF Attended

\* Every step leaves a pair somebody to look after it.
LEMMA PairStep == ASSUME IndInv, PairOK, [Next]_vars PROVE PairOK'
<1>0. /\ call \in [Msgs -> CallStates] /\ buffer \in Seq(Msgs)
      /\ row \in Msgs \union {None} /\ second \in BOOLEAN
  BY DEF IndInv, TypeOK
<1> SUFFICES ASSUME LooksNoMore', waiter' # None, buffer' # <<>> PROVE Attended'
  BY DEF PairOK
<1> USE DEF store, turn, caller
<1>1. ASSUME NEW m \in Msgs, Signal(m) PROVE Attended'
  <2>1. LooksNoMore /\ waiter # None /\ buffer # <<>>
    BY <1>1 DEF Signal, LooksNoMore, StillThere, Oldest
  <2>2. Attended BY <2>1 DEF PairOK
  <2> QED BY <1>0, <1>1, <2>2, StillAttended DEF Signal, CallStates, Going
<1>2. ASSUME NEW m \in Msgs, Take(m) \/ TakeLate(m) PROVE Attended'
  BY <1>2 DEF Take, TakeLate
<1>3. ASSUME NEW m \in Msgs, BufferSignal(m) PROVE Attended'
  <2>1. call'[m] = "relook" BY <1>0, <1>3 DEF BufferSignal, AfterBuffering
  <2> QED BY <2>1 DEF Attended, Going
<1>4. ASSUME NEW m \in Msgs, LookAgain(m) PROVE Attended'
  <2>1. call'[m] = "retake" BY <1>0, <1>4 DEF LookAgain
  <2> QED BY <2>1 DEF Attended, Going
<1>5. ASSUME NEW m \in Msgs, ReadOldest(m) PROVE Attended'
  <2>1. LooksNoMore /\ waiter # None /\ buffer # <<>>
    BY <1>5 DEF ReadOldest, LooksNoMore, StillThere, Oldest
  <2>2. Attended BY <2>1 DEF PairOK
  <2> QED BY <1>0, <1>5, <2>2, StillAttended DEF ReadOldest, CallStates, Going
<1>6. ASSUME NEW m \in Msgs, Reclaim(m) PROVE Attended'
  <2>1. CASE Won(head[m])
    <3>1. call'[m] = "deliver" BY <1>0, <1>6, <2>1 DEF Reclaim, Reclaimed
    <3> QED BY <3>1 DEF Attended, Going
  <2>2. CASE ~Won(head[m])
    <3>1. buffer' = buffer BY <1>6, <2>2 DEF Reclaim, Remaining, Won
    <3>2. LooksNoMore /\ waiter # None /\ buffer # <<>>
      BY <1>6, <3>1 DEF Reclaim, LooksNoMore, StillThere, Oldest
    <3>3. Attended BY <3>2 DEF PairOK
    <3>4. call[m] = "claim" /\ call' = [call EXCEPT ![m] = "done"] /\ woken' = woken
      BY <1>6, <2>2 DEF Reclaim, Reclaimed
    <3> QED BY <1>0, <3>3, <3>4, StillAttended DEF CallStates, Going
  <2> QED BY <2>1, <2>2
<1>7. ASSUME NEW m \in Msgs, Deliver(m) PROVE Attended'
  <2>1. call'[m] = "wake" BY <1>0, <1>7 DEF Deliver
  <2> QED BY <2>1 DEF Attended, Going
<1>8. ASSUME NEW m \in Msgs, Wake(m) PROVE Attended'
  BY <1>8 DEF Wake, Attended
<1>9. ASSUME NEW m \in Msgs, CallDies(m) PROVE Attended'
  <2>1. call'[m] = "dead" BY <1>0, <1>9 DEF CallDies
  <2> QED BY <2>1 DEF Attended, Going
<1>10. CASE TurnDies BY <1>10 DEF TurnDies, Attended
<1>11. CASE LookInBuffer
  <2>1. pc' \in {"claim", "suspend", "clock", "register"} /\ (pc' = "suspend" => buffer = <<>>)
    BY <1>11 DEF LookInBuffer, Empty
  <2>2. buffer' = buffer /\ row' = Oldest BY <1>11 DEF LookInBuffer
  <2>3. Oldest \in Msgs BY <1>0, <2>2, TailRows DEF Oldest
  <2> QED BY <2>1, <2>2, <2>3, Numbers DEF LooksNoMore, StillThere, Oldest
<1>12. CASE ClaimBuffered
  <2>1. pc' = "suspend" /\ second /\ ~Won(row)
    BY <1>12 DEF ClaimBuffered, Empty, LooksNoMore
  <2>2. buffer' = buffer /\ waiter' = waiter BY <1>12, <2>1 DEF ClaimBuffered, Remaining, Won
  <2>3. Attended BY <1>12, <2>1, <2>2 DEF ClaimBuffered, PairOK, LooksNoMore, Won
  <2> QED BY <1>12, <2>3 DEF ClaimBuffered, Attended
<1>13. CASE Suspend
  <2>1. Attended BY <1>13 DEF Suspend, PairOK, LooksNoMore
  <2> QED BY <1>13, <2>1 DEF Suspend, Attended
<1>14. CASE Begin \/ Load \/ Resolved \/ Missing \/ KeepBuffered \/ Retract \/ CheckDeadline
            \/ Expire \/ Register \/ Return
  BY <1>14 DEF Begin, Load, Resolved, Missing, KeepBuffered, Retract, CheckDeadline, Expire,
       Register, AfterRegistering, Return, Tell, LooksNoMore
<1>15. CASE StampDeadline \/ \E s \in Seqs : DeadlinePasses(s)
  BY <1>15 DEF StampDeadline, DeadlinePasses, PairOK, LooksNoMore, Attended, StillThere, Oldest
<1>16. CASE UNCHANGED vars
  BY <1>16 DEF vars, PairOK, LooksNoMore, Attended, StillThere, Oldest
<1> QED
  BY <1>1, <1>2, <1>3, <1>4, <1>5, <1>6, <1>7, <1>8, <1>9, <1>10, <1>11, <1>12, <1>13,
     <1>14, <1>15, <1>16 DEF Next, TurnStep, CallStep

\* The two-sided second look closes the window between a caller's miss and its
\* buffering: when nobody is at work, no registered waiter is left beside a
\* buffered payload, with any number of callers and waits, timeouts and dying
\* turns.
THEOREM PairIsNeverStranded == Spec => []NoStrandedPair
<1>1. Init => PairOK BY DEF Init, PairOK
<1>2. IndInv /\ PairOK /\ [Next]_vars => PairOK' BY PairStep
<1>3. IndInv /\ PairOK => NoStrandedPair
  BY DEF PairOK, NoStrandedPair, AtRest, LooksNoMore, Attended, Going
<1> QED BY <1>1, <1>2, <1>3, SignalsInductive, PTL DEF Spec

-----------------------------------------------------------------------------
(* The order of the payloads.  In an orderly run calls come one after the  *)
(* other and nothing dies, which is                                        *)
(*    Alone == SeqCalls /\ HandStates /\ NobodyDies                        *)
(* and, as long as no payload has been written over another,               *)
(*    Ord == CpInc /\ Known /\ Passed /\ Ahead /\ SameWaiter /\ HandBeyond *)
(*           /\ BufBeyond /\ TakenBeyond /\ Sorted /\ Later /\ DeliverInv  *)
(*           /\ PairOrd                                                    *)
(* is inductive: what is still to be consumed comes after what is in the   *)
(* journal.  The exceptions are the states from which a payload is bound   *)
(* to be written over another: a call that goes to deliver at a seq that   *)
(* has its payload, and a turn that will keep one where one was delivered. *)

Fresh   == {"ready", "take", "buffer"}
Holding == {"take", "retake", "reclaim", "claim", "deliver"}

SeqCalls == \A j, k \in Msgs : j < k /\ call[k] # "ready" => call[j] = "done"

HandStates == \A k \in Msgs : hand[k] # None => call[k] \in Fresh \union {"deliver"}

NobodyDies ==
    /\ left.turn = 0 /\ left.call = 0
    /\ \A k \in Msgs : call[k] # "dead"
    /\ pc \notin {"clock", "expire"}

Alone == SeqCalls /\ HandStates /\ NobodyDies

\* A payload is in some hand, in the buffer, taken or journalled.
Held(p) ==
    \/ \E k \in Msgs : hand[k] = p
    \/ \E i \in Rows : buffer[i] = p
    \/ taken = p
    \/ \E s \in Seqs : cp[s] = p

\* To be held is to be in some place.
LEMMA PlacesHeld == ASSUME NEW p \in Msgs PROVE Places(p) # {} <=> Held(p)
  BY DEF Places, Held, Rows

\* When no call is under way at most, the next begins alone.
LEMMA NobodyUnderWay == ASSUME Cardinality(UnderWay) < 1 PROVE UnderWay = {}
<1>1. IsFiniteSet(Msgs) BY SignalsAssumption, FS_Interval DEF Msgs
<1>2. IsFiniteSet(UnderWay) BY <1>1, FS_Subset DEF UnderWay
<1> QED BY <1>2, FS_CardinalityType, FS_EmptySet

\* A payload nobody holds is held by nobody again: steps only pass payloads on.
LEMMA HeldBefore == ASSUME IndInv, [Next]_vars, NEW p \in Msgs, Held(p)' PROVE Held(p)
<1> USE Numbers DEF IndInv, TypeOK, store, turn, caller
<1>1. ASSUME NEW m \in Msgs, BufferSignal(m) PROVE Held(p)
  <2>1. hand[m] = m /\ hand' = [hand EXCEPT ![m] = None] /\ buffer' = Append(buffer, m)
        /\ UNCHANGED <<cp, taken>>
    BY <1>1 DEF BufferSignal, Buffered, HoldersOK
  <2>2. \A i \in Rows' : (i \in Rows /\ buffer'[i] = buffer[i]) \/ buffer'[i] = m
    BY <2>1 DEF Rows
  <2> QED BY <2>1, <2>2 DEF Held
<1>2. ASSUME NEW m \in Msgs, Reclaim(m) PROVE Held(p)
  <2>1. hand' = [hand EXCEPT ![m] = Claimed(head[m])] /\ UNCHANGED <<cp, taken>>
        /\ buffer' = Remaining(head[m]) /\ head[m] \in Msgs \union {None}
    BY <1>2 DEF Reclaim
  <2>2. /\ \A i \in Rows' : \E j \in Rows : buffer'[i] = buffer[j]
        /\ Claimed(head[m]) # None => \E j \in Rows : buffer[j] = Claimed(head[m])
    BY <2>1, ClaimTakesOut
  <2> QED BY <2>1, <2>2 DEF Held
<1>3. ASSUME NEW m \in Msgs, Deliver(m) PROVE Held(p)
  BY <1>3 DEF Deliver, Held, Rows
<1>4. ASSUME NEW m \in Msgs, CallDies(m) PROVE Held(p)
  BY <1>4 DEF CallDies, Held, Rows
<1>5. CASE ClaimBuffered
  <2>1. taken' = Claimed(row) /\ UNCHANGED <<cp, hand>>
        /\ buffer' = Remaining(row) /\ row \in Msgs \union {None}
    BY <1>5 DEF ClaimBuffered
  <2>2. /\ \A i \in Rows' : \E j \in Rows : buffer'[i] = buffer[j]
        /\ Claimed(row) # None => \E j \in Rows : buffer[j] = Claimed(row)
    BY <2>1, ClaimTakesOut
  <2> QED BY <2>1, <2>2 DEF Held
<1>6. CASE KeepBuffered BY <1>6 DEF KeepBuffered, Held, Rows
<1>7. CASE TurnDies BY <1>7 DEF TurnDies, Held, Rows
<1>8. ASSUME NEW m \in Msgs,
             Signal(m) \/ Take(m) \/ LookAgain(m) \/ TakeLate(m) \/ ReadOldest(m) \/ Wake(m)
      PROVE  Held(p)
  BY <1>8 DEF Held, Rows, Signal, Take, LookAgain, TakeLate, ReadOldest, Wake
<1>9. CASE \/ Begin \/ Load \/ StampDeadline \/ Resolved \/ Missing \/ LookInBuffer \/ Retract
           \/ CheckDeadline \/ Expire \/ Register \/ Suspend \/ Return
  BY <1>9 DEF Held, Rows, Begin, Load, StampDeadline, Resolved, Missing, LookInBuffer, Retract,
       CheckDeadline, Expire, Register, Suspend, Return
<1>10. ASSUME NEW s \in Seqs, DeadlinePasses(s) PROVE Held(p)
  BY <1>10 DEF DeadlinePasses, Held, Rows
<1>11. CASE UNCHANGED vars BY <1>11 DEF vars, Held, Rows
<1> QED
  BY <1>1, <1>2, <1>3, <1>4, <1>5, <1>6, <1>7, <1>8, <1>9, <1>10, <1>11
     DEF Next, TurnStep, CallStep

\* A payload that vanished stays away.
LEMMA VanishedBefore == ASSUME IndInv, [Next]_vars, NoneVanished' PROVE NoneVanished
<1> SUFFICES ASSUME NEW p \in Msgs PROVE Places(p) # {} BY DEF NoneVanished
<1>1. (Places(p) # {})' BY DEF NoneVanished
<1>2. Held(p)'
  <2>1. ((Places(p) # {}) <=> Held(p))' BY PlacesHeld, PTL
  <2> QED BY <1>1, <2>1
<1> QED BY <1>2, HeldBefore, PlacesHeld

\* While none has vanished each payload is held, after a step too.
LEMMA NoneGone == ASSUME NEW p \in Msgs, NoneVanished' PROVE Held(p)'
<1>1. (Places(p) # {})' BY DEF NoneVanished
<1>2. ((Places(p) # {}) <=> Held(p))' BY PlacesHeld, PTL
<1> QED BY <1>1, <1>2

\* Who delivers where a payload is makes that one vanish.
LEMMA DeliveredOver ==
  ASSUME IndInv, NEW m \in Msgs, Deliver(m), NoneVanished' PROVE cp[found[m]] = None
<1> SUFFICES ASSUME cp[found[m]] # None PROVE FALSE OBVIOUS
<1>1. /\ found[m] \in Seqs /\ hand[m] # None /\ cp \in [Seqs -> Msgs \union {None}]
      /\ cp' = [cp EXCEPT ![found[m]] = hand[m]] /\ hand' = [hand EXCEPT ![m] = None]
      /\ UNCHANGED <<buffer, taken>> /\ hand \in [Msgs -> Msgs \union {None}]
  BY DEF Deliver, store, turn, IndInv, TypeOK
<1>2. PICK p \in Msgs : p = cp[found[m]] BY <1>1
<1>3. /\ \A k \in Msgs : hand[k] # p
      /\ \A i \in Rows : buffer[i] # p
      /\ taken # p
      /\ \A s \in Seqs : cp[s] = p => s = found[m]
  BY <1>1, <1>2, Numbers DEF IndInv, Apart
<1>4. p # None /\ Rows' = Rows BY <1>1, Numbers DEF Rows
<1>5. \A k \in Msgs : hand'[k] # p BY <1>1, <1>3, <1>4
<1>6. \A s \in Seqs : cp'[s] # p
  <2>1. \A s \in Seqs : cp'[s] = IF s = found[m] THEN hand[m] ELSE cp[s] BY <1>1
  <2> QED BY <1>3, <2>1
<1>7. ~Held(p)' BY <1>1, <1>3, <1>4, <1>5, <1>6 DEF Held
<1> QED BY <1>7, NoneGone

\* And so does a turn that keeps a payload where one was delivered.
LEMMA KeptOver == ASSUME IndInv, KeepBuffered, NoneVanished' PROVE cp[at] = None
<1> SUFFICES ASSUME cp[at] # None PROVE FALSE OBVIOUS
<1>1. /\ at \in Seqs /\ taken # None /\ cp \in [Seqs -> Msgs \union {None}]
      /\ cp' = [cp EXCEPT ![at] = taken] /\ taken' = None
      /\ UNCHANGED <<buffer, hand>> /\ taken \in Msgs \union {None}
  BY DEF KeepBuffered, caller, IndInv, TypeOK, HoldersOK
<1>2. PICK p \in Msgs : p = cp[at] BY <1>1
<1>3. /\ \A k \in Msgs : hand[k] # p
      /\ \A i \in Rows : buffer[i] # p
      /\ taken # p
      /\ \A s \in Seqs : cp[s] = p => s = at
  BY <1>1, <1>2, Numbers DEF IndInv, Apart
<1>4. p # None /\ Rows' = Rows BY <1>1, Numbers DEF Rows
<1>5. \A s \in Seqs : cp'[s] # p
  <2>1. \A s \in Seqs : cp'[s] = IF s = at THEN taken ELSE cp[s] BY <1>1
  <2> QED BY <1>3, <2>1
<1>6. ~Held(p)' BY <1>1, <1>3, <1>4, <1>5 DEF Held
<1> QED BY <1>6, NoneGone

\* Calls stay one after the other, and a hand holds what its call has yet to
\* buffer or deliver.
LEMMA AloneStep == ASSUME IndInv, Alone, Orderly, [Next]_vars PROVE Alone'
<1> USE Numbers DEF IndInv, TypeOK, Alone, store, turn, caller
<1>0. setting.timed = {} /\ setting.atOnce = 1 BY DEF Orderly
<1>1. ASSUME NEW m \in Msgs, Signal(m) PROVE Alone'
  <2>1. UnderWay = {} BY <1>0, <1>1, NobodyUnderWay DEF Signal
  <2>2. \A k \in Msgs : call[k] \in {"done", "ready"}
    BY <2>1 DEF UnderWay, Done, NobodyDies, CallStates
  <2>3. /\ call[m] = "ready" /\ \A k \in Msgs : k < m => call[k] # "ready"
        /\ UNCHANGED <<hand, left, pc>>
        /\ \A k \in Msgs : call'[k] = IF k = m THEN (IF waiter = None THEN "buffer" ELSE "take")
                                               ELSE call[k]
    BY <1>1 DEF Signal
  <2>4. SeqCalls'
    <3>1. \A j, k \in Msgs : j < k /\ k # m /\ call'[k] # "ready" => j # m /\ call[j] = "done"
      BY <2>3 DEF SeqCalls
    <3>2. \A j \in Msgs : j < m => j # m /\ call[j] = "done" BY <2>2, <2>3 DEF Msgs
    <3> QED BY <2>3, <3>1, <3>2 DEF SeqCalls
  <2>5. HandStates' BY <2>3 DEF HandStates, Fresh
  <2> QED BY <2>3, <2>4, <2>5 DEF NobodyDies
<1>2. ASSUME NEW m \in Msgs, NEW next \in CallStates \ {"ready", "dead"},
             call[m] \notin {"ready", "done"}, call' = [call EXCEPT ![m] = next],
             UNCHANGED <<left, pc>>
      PROVE  SeqCalls' /\ NobodyDies'
  <2>1. \A k \in Msgs : call'[k] = IF k = m THEN next ELSE call[k] BY <1>2
  <2>2. SeqCalls'
    <3> SUFFICES ASSUME NEW j \in Msgs, NEW k \in Msgs, j < k, call'[k] # "ready"
                 PROVE  call'[j] = "done"
      BY DEF SeqCalls
    <3>1. call[k] # "ready" BY <1>2, <2>1
    <3>2. call[j] = "done" BY <3>1 DEF SeqCalls
    <3> QED BY <1>2, <2>1, <3>2
  <2> QED BY <1>2, <2>1, <2>2 DEF NobodyDies
<1>3. ASSUME NEW m \in Msgs, Take(m) \/ BufferSignal(m) \/ LookAgain(m) \/ TakeLate(m)
                             \/ ReadOldest(m)
      PROVE  Alone'
  <2>1. SeqCalls' /\ NobodyDies'
    BY <1>2, <1>3 DEF Take, BufferSignal, AfterBuffering, LookAgain, TakeLate, ReadOldest, CallStates
  <2>2. HandStates'
    BY <1>3 DEF HandStates, Fresh, Take, BufferSignal, LookAgain, TakeLate, ReadOldest
  <2> QED BY <2>1, <2>2
<1>4. ASSUME NEW m \in Msgs, Reclaim(m) PROVE Alone'
  <2>1. Reclaimed(m) \in {"deliver", "done"} BY DEF Reclaimed
  <2>2. SeqCalls' /\ NobodyDies' BY <1>2, <1>4, <2>1 DEF Reclaim, CallStates
  <2>3. Claimed(head[m]) # None => Reclaimed(m) = "deliver" BY DEF Reclaimed, Claimed
  <2>4. HandStates' BY <1>4, <2>3 DEF Reclaim, HandStates, Fresh
  <2> QED BY <2>2, <2>4
<1>5. ASSUME NEW m \in Msgs, Deliver(m) \/ Wake(m) PROVE Alone'
  <2>1. SeqCalls' /\ NobodyDies' BY <1>2, <1>5 DEF Deliver, Wake, CallStates
  <2>2. HandStates' BY <1>5 DEF Deliver, Wake, HandStates, Fresh
  <2> QED BY <2>1, <2>2
<1>6. ASSUME NEW m \in Msgs, CallDies(m) PROVE Alone' BY <1>6 DEF CallDies, NobodyDies
<1>7. CASE TurnDies BY <1>7 DEF TurnDies, NobodyDies
<1>8. CASE TurnStep \/ \E s \in Seqs : DeadlinePasses(s)
  <2>1. UNCHANGED <<call, hand, left>>
    BY <1>8 DEF TurnStep, DeadlinePasses, Begin, Load, StampDeadline, Resolved, Missing, LookInBuffer,
         ClaimBuffered, KeepBuffered, Retract, CheckDeadline, Expire, Register, Suspend, Return
  <2>2. Empty \in {"suspend", "register"} BY <1>0 DEF Empty, Timed
  <2>3. pc' \notin {"clock", "expire"}
    BY <1>8, <2>2 DEF NobodyDies, TurnStep, DeadlinePasses, Begin, Load, StampDeadline, Resolved,
         Missing, LookInBuffer, ClaimBuffered, KeepBuffered, Retract, CheckDeadline, Expire, Register,
         AfterRegistering, Suspend, Return, Tell
  <2> QED BY <2>1, <2>3 DEF SeqCalls, HandStates, NobodyDies
<1>9. CASE UNCHANGED vars BY <1>9 DEF vars, SeqCalls, HandStates, NobodyDies
<1> QED
  BY <1>1, <1>3, <1>4, <1>5, <1>6, <1>7, <1>8, <1>9 DEF Next, CallStep

\* The journal is filled from the front, in the order the payloads were sent.
CpInc == \A r, s \in Seqs : r < s /\ cp[s] # None => cp[r] # None /\ cp[r] < cp[s]

\* The body and the snapshot have what the journal has.
Known == \A s \in Seqs : /\ told[s] # None => told[s] = cp[s]
                         /\ replay[s] # None => replay[s] = cp[s]

\* What the body has passed, to stand at a wait or to register it, is there.
Passed == \A r \in Seqs :
    /\ r < at => cp[r] # None
    /\ r < waiter => cp[r] # None
    /\ \A k \in Msgs : call[k] \in Holding /\ r < found[k] => cp[r] # None

\* A turn at a wait that was missing has no waiter of a later one about.
Ahead == pc \in {"look", "claim", "keep", "register"} =>
    /\ waiter <= at
    /\ \A k \in Msgs : call[k] \in Holding => found[k] <= at

\* The waiter a call has read is still the one it will take, or its wait has
\* its payload.
SameWaiter == \A k \in Msgs :
    call[k] \in {"take", "retake"} => waiter \in {found[k], None} \/ cp[found[k]] # None

\* The turn will claim and keep a payload for the wait it stands at.
WillKeep == \/ pc = "look" /\ buffer # <<>>
            \/ pc = "claim" /\ StillThere(row)
            \/ pc = "keep"

\* It has one already, and no call can come between.
Doomed ==
    waiter = None /\ cp[at] # None /\ WillKeep /\ \A k \in Msgs : call[k] \notin Holding

\* Whatever is not yet in the journal comes after what is.
HandBeyond == \A s \in Seqs, k \in Msgs : cp[s] # None /\ hand[k] # None =>
                 cp[s] < hand[k] \/ (call[k] = "deliver" /\ cp[found[k]] # None)
BufBeyond  == (\A s \in Seqs, i \in Rows : cp[s] # None => cp[s] < buffer[i]) \/ Doomed
TakenBeyond == taken # None =>
    /\ pc = "keep"
    /\ cp[at] # None \/ \A s \in Seqs : cp[s] # None => cp[s] < taken

\* The buffer has the payloads in order, the one taken before them, and those
\* no call has buffered yet after them.
Sorted == /\ \A i, j \in Rows : i < j => buffer[i] < buffer[j]
          /\ taken # None => \A i \in Rows : taken < buffer[i]
Later == \A k \in Msgs :
    /\ call[k] \in Fresh => (\A i \in Rows : buffer[i] < k) /\ taken < k
    /\ call[k] = "ready" => \A j \in Msgs : call[j] = "deliver" => hand[j] < k

\* A payload about to be delivered comes before what is buffered, or goes over
\* another.
DeliverInv == \A k \in Msgs : call[k] = "deliver" =>
    \/ \A i \in Rows : hand[k] < buffer[i]
    \/ cp[found[k]] # None
    \/ waiter = None /\ at = found[k] /\ WillKeep

\* A waiter beside a buffered payload: it is stale, or about to be served by a
\* call, or by the turn that registered it.
PairOrd == waiter # None /\ buffer # <<>> =>
    \/ cp[waiter] # None
    \/ \E k \in Msgs : call[k] \in {"relook", "retake"}
    \/ \E k \in Msgs : call[k] = "deliver" /\ (found[k] = waiter \/ cp[found[k]] # None)
    \/ waiter = at /\ WillKeep

Ord == /\ CpInc /\ Known /\ Passed /\ Ahead /\ SameWaiter
       /\ HandBeyond /\ BufBeyond /\ TakenBeyond /\ Sorted /\ Later
       /\ DeliverInv /\ PairOrd

\* A step of an orderly run in which no payload vanishes.
OrdStep == IndInv /\ Alone /\ Ord /\ Orderly /\ NoneVanished' /\ [Next]_vars

\* A step is the turn's or a call's; what else happens moves neither.
LEMMA OrdMoves ==
  ASSUME OrdStep
  PROVE  \/ TurnStep /\ UNCHANGED caller
         \/ \E m \in Msgs : (Signal(m) \/ CallStep(m)) /\ UNCHANGED <<turn, told>>
         \/ UNCHANGED <<waiter, buffer, cp, turn, caller, told>>
<1>1. ASSUME NEW m \in Msgs, Signal(m) \/ CallStep(m) PROVE UNCHANGED <<turn, told>>
  BY <1>1 DEF CallStep, Signal, Take, BufferSignal, LookAgain, TakeLate, ReadOldest, Reclaim,
     Deliver, Wake, turn, store
<1>2. CASE TurnStep
  BY <1>2 DEF TurnStep, Begin, Load, StampDeadline, Resolved, Missing, LookInBuffer, ClaimBuffered,
     KeepBuffered, Retract, CheckDeadline, Expire, Register, Suspend, Return
<1>3. ASSUME NEW m \in Msgs PROVE ~CallDies(m) /\ ~TurnDies
  BY DEF OrdStep, Alone, NobodyDies, CallDies, TurnDies, IndInv, TypeOK
<1>4. CASE UNCHANGED vars BY <1>4 DEF vars, store
<1>5. ASSUME NEW s \in Seqs, DeadlinePasses(s)
      PROVE  UNCHANGED <<waiter, buffer, cp, turn, caller, told>>
  BY <1>5 DEF DeadlinePasses
<1>6. ~TurnDies BY DEF OrdStep, Alone, NobodyDies, TurnDies, IndInv, TypeOK
<1> QED BY <1>1, <1>2, <1>3, <1>4, <1>5, <1>6 DEF OrdStep, Next

\* Only a delivery and a claim kept write the journal.
LEMMA Writers ==
  ASSUME OrdStep PROVE cp' = cp \/ KeepBuffered \/ \E m \in Msgs : Deliver(m)
<1>1. ASSUME NEW m \in Msgs, Signal(m) \/ CallStep(m) PROVE cp' = cp \/ Deliver(m)
  BY <1>1 DEF CallStep, Signal, Take, BufferSignal, LookAgain, TakeLate, ReadOldest, Reclaim,
     Wake, store
<1>2. CASE TurnStep
  BY <1>2 DEF TurnStep, Begin, Load, StampDeadline, Resolved, Missing, LookInBuffer, ClaimBuffered,
     Retract, CheckDeadline, Expire, Register, Suspend, Return, store
<1> QED BY <1>1, <1>2, OrdMoves

\* The journal is written where nothing is, and nothing leaves it.
LEMMA OrdWrites ==
  ASSUME OrdStep
  PROVE  /\ \A m \in Msgs : Deliver(m) => cp[found[m]] = None
         /\ KeepBuffered => cp[at] = None
         /\ \A s \in Seqs : cp[s] # None => cp'[s] = cp[s]
<1> USE DEF IndInv, TypeOK
<1>1. \A m \in Msgs : Deliver(m) => cp[found[m]] = None BY DeliveredOver DEF OrdStep
<1>2. KeepBuffered => cp[at] = None BY KeptOver DEF OrdStep
<1>3. ASSUME NEW m \in Msgs, Deliver(m), NEW s \in Seqs, cp[s] # None PROVE cp'[s] = cp[s]
  BY <1>1, <1>3 DEF Deliver, OrdStep
<1>4. ASSUME KeepBuffered, NEW s \in Seqs, cp[s] # None PROVE cp'[s] = cp[s]
  BY <1>2, <1>4 DEF KeepBuffered, OrdStep
<1> QED BY <1>1, <1>2, <1>3, <1>4, Writers

\* Delivering and keeping fill the journal in order.
LEMMA CpIncStep == ASSUME OrdStep PROVE CpInc'
<1> USE DEF IndInv, TypeOK
<1>1. ASSUME NEW m \in Msgs, Deliver(m) PROVE CpInc'
  <2>1. /\ found[m] \in Seqs /\ hand[m] # None /\ cp[found[m]] = None /\ call[m] = "deliver"
        /\ \A s \in Seqs : cp'[s] = IF s = found[m] THEN hand[m] ELSE cp[s]
    BY <1>1, OrdWrites DEF Deliver, OrdStep
  <2>2. \A r \in Seqs : r < found[m] => cp[r] # None /\ cp[r] < hand[m]
    BY <2>1 DEF OrdStep, Ord, Passed, HandBeyond, Holding
  <2>3. \A t \in Seqs : found[m] < t => cp[t] = None
    BY <2>1 DEF OrdStep, Ord, CpInc
  <2>4. \A r, s \in Seqs : r < s /\ cp[s] # None => cp[r] # None /\ cp[r] < cp[s]
    BY DEF OrdStep, Ord, CpInc
  <2> QED BY <2>1, <2>2, <2>3, <2>4 DEF CpInc, Seqs
<1>2. CASE KeepBuffered
  <2>1. /\ at \in Seqs /\ taken # None /\ cp[at] = None
        /\ \A s \in Seqs : cp'[s] = IF s = at THEN taken ELSE cp[s]
    BY <1>2, OrdWrites DEF KeepBuffered, OrdStep, HoldersOK
  <2>2. \A r \in Seqs : r < at => cp[r] # None /\ cp[r] < taken
    BY <2>1 DEF OrdStep, Ord, Passed, TakenBeyond
  <2>3. \A t \in Seqs : at < t => cp[t] = None
    BY <2>1 DEF OrdStep, Ord, CpInc
  <2>4. \A r, s \in Seqs : r < s /\ cp[s] # None => cp[r] # None /\ cp[r] < cp[s]
    BY DEF OrdStep, Ord, CpInc
  <2> QED BY <2>1, <2>2, <2>3, <2>4 DEF CpInc, Seqs
<1>3. CASE cp' = cp BY <1>3 DEF OrdStep, Ord, CpInc
<1> QED BY <1>1, <1>2, <1>3, Writers

\* What the body is told, it reads in the journal.
LEMMA TellOrd ==
  ASSUME OrdStep, NEW what, Tell(what)
  PROVE  /\ \A s \in Seqs : told'[s] = IF s = at THEN what ELSE told[s]
         /\ \A r \in Seqs : r < at' => r <= at
         /\ pc' \in {"wait", "return"}
  BY DEF Tell, OrdStep, IndInv, TypeOK, Seqs

\* The snapshot and the body stay with the journal.
LEMMA KnownStep == ASSUME OrdStep PROVE Known'
<1>0. /\ Known /\ \A s \in Seqs : cp[s] # None => cp'[s] = cp[s]
      /\ at \in Seqs /\ replay \in [Seqs -> Msgs \union {None}] /\ cp \in [Seqs -> Msgs \union {None}]
  BY OrdWrites DEF OrdStep, Ord, IndInv, TypeOK
<1>1. CASE UNCHANGED <<told, replay>> BY <1>0, <1>1 DEF Known
<1>2. CASE Load BY <1>0, <1>2 DEF Load, Known, store
<1>3. CASE Resolved
  <2>1. Recorded(at) = cp[at] BY <1>0, <1>3 DEF Resolved, Recorded, Known
  <2> QED BY <1>0, <1>3, <2>1, TellOrd DEF Resolved, Known, store
<1>4. CASE KeepBuffered
  <2>1. /\ \A s \in Seqs : cp'[s] = IF s = at THEN taken ELSE cp[s]
        /\ \A s \in Seqs : replay'[s] = IF s = at THEN taken ELSE replay[s]
    BY <1>0, <1>4 DEF KeepBuffered
  <2>2. \A s \in Seqs : told'[s] = told[s] \/ (s = at /\ told'[s] = taken)
    BY <1>4, TellOrd DEF KeepBuffered
  <2> QED BY <1>0, <2>1, <2>2 DEF Known
<1>5. CASE Retract
  <2>1. replay[at] = cp[at] BY <1>0, <1>5 DEF Retract, OrdStep, IndInv, HoldersOK, Known
  <2> QED BY <1>0, <1>5, <2>1, TellOrd DEF Retract, Known
<1>6. CASE Expire BY <1>6 DEF Expire, OrdStep, Alone, NobodyDies
<1>7. CASE TurnStep
  BY <1>1, <1>2, <1>3, <1>4, <1>5, <1>6, <1>7 DEF TurnStep, Begin, StampDeadline, Missing,
     LookInBuffer, ClaimBuffered, CheckDeadline, Register, Suspend, Return, turn
<1> QED BY <1>1, <1>7, OrdMoves DEF turn

\* The waits before the body's, a registered or a read one stay resolved.
LEMMA PassedStep == ASSUME OrdStep PROVE Passed'
<1>0. /\ \A s \in Seqs : cp[s] # None => cp'[s] # None
      /\ at \in Seqs /\ call \in [Msgs -> CallStates] /\ found \in [Msgs -> Seqs \union {None}]
      /\ \A r \in Seqs : r \in Int /\ ~(r < None)
  BY OrdWrites, SignalsAssumption DEF OrdStep, Ord, IndInv, TypeOK, Seqs, None
<1> DEFINE AtOK == \A r \in Seqs : r < at => cp[r] # None
           WaiterOK == \A r \in Seqs : r < waiter => cp[r] # None
           FoundOK == \A r \in Seqs, k \in Msgs : call[k] \in Holding /\ r < found[k] => cp[r] # None
<1>1. AtOK /\ WaiterOK /\ FoundOK BY DEF OrdStep, Ord, Passed
<1> SUFFICES AtOK' /\ WaiterOK' /\ FoundOK' BY DEF Passed
<1>2. ASSUME NEW what, Tell(what), cp'[at] # None PROVE AtOK'
  <2>1. \A r \in Seqs : r < at' => r <= at BY <1>2, TellOrd
  <2> QED BY <1>0, <1>1, <1>2, <2>1
<1>3. CASE TurnStep /\ UNCHANGED caller
  <2>1. FoundOK' BY <1>0, <1>1, <1>3 DEF caller
  <2>2. WaiterOK'
    <3>1. waiter' \in {waiter, None, at}
      BY <1>3 DEF TurnStep, Begin, Load, StampDeadline, Resolved, Missing, LookInBuffer, ClaimBuffered,
         KeepBuffered, Retract, CheckDeadline, Expire, Register, Suspend, Return, store, WithoutOwn
    <3> QED BY <1>0, <1>1, <3>1
  <2>3. AtOK'
    <3>1. CASE at' = at BY <1>0, <1>1, <3>1
    <3>2. CASE Load
      <4>1. at' = 1 BY <3>2 DEF Load
      <4>2. \A r \in Seqs : ~(r < at') BY <4>1 DEF Seqs
      <4> QED BY <4>2
    <3>3. CASE Resolved
      <4>1. Recorded(at) # None /\ cp' = cp BY <3>3 DEF Resolved, store
      <4>2. cp[at] # None BY <1>0, <4>1 DEF Recorded, OrdStep, Ord, Known
      <4> QED BY <1>2, <3>3, <4>1, <4>2 DEF Resolved
    <3>4. CASE KeepBuffered
      <4>1. cp'[at] # None
        BY <1>0, <3>4 DEF KeepBuffered, OrdStep, IndInv, HoldersOK, TypeOK
      <4> QED BY <1>2, <3>1, <3>4, <4>1 DEF KeepBuffered
    <3>5. CASE Retract
      <4>1. replay[at] # None /\ cp' = cp BY <3>5 DEF Retract, OrdStep, IndInv, HoldersOK
      <4>2. cp[at] # None BY <1>0, <4>1 DEF OrdStep, Ord, Known
      <4> QED BY <1>2, <3>5, <4>1, <4>2 DEF Retract
    <3>6. CASE Expire BY <3>6 DEF Expire, OrdStep, Alone, NobodyDies
    <3> QED
      BY <1>3, <3>1, <3>2, <3>3, <3>4, <3>5, <3>6 DEF TurnStep, Begin, StampDeadline, Missing,
         LookInBuffer, ClaimBuffered, CheckDeadline, Register, Suspend, Return, turn
  <2> QED BY <2>1, <2>2, <2>3
<1>4. ASSUME NEW m \in Msgs, Signal(m) \/ CallStep(m), UNCHANGED <<turn, told>>
      PROVE  AtOK' /\ WaiterOK' /\ FoundOK'
  <2>1. AtOK' BY <1>0, <1>1, <1>4 DEF turn
  <2>2. WaiterOK'
    <3>1. waiter' \in {waiter, None}
      BY <1>4 DEF CallStep, Signal, Take, BufferSignal, LookAgain, TakeLate, ReadOldest, Reclaim,
         Deliver, Wake, store
    <3> QED BY <1>0, <1>1, <3>1
  <2>3. FoundOK'
    <3>1. CASE Signal(m) \/ LookAgain(m)
      <4>1. /\ \A k \in Msgs : k # m => call'[k] = call[k] /\ found'[k] = found[k]
            /\ found'[m] = waiter
        BY <1>0, <3>1 DEF Signal, LookAgain
      <4> QED BY <1>0, <1>1, <4>1
    <3>2. CASE ~(Signal(m) \/ LookAgain(m))
      <4>1. /\ found' = found
            /\ \A k \in Msgs : call'[k] \in Holding => call[k] \in Holding
        BY <1>0, <1>4, <3>2 DEF CallStep, Take, BufferSignal, AfterBuffering, TakeLate, ReadOldest,
           Reclaim, Reclaimed, Deliver, Wake, Holding
      <4> QED BY <1>0, <1>1, <4>1
    <3> QED BY <3>1, <3>2
  <2> QED BY <2>1, <2>2, <2>3
<1>5. CASE UNCHANGED <<waiter, buffer, cp, turn, caller, told>>
  BY <1>0, <1>1, <1>5 DEF turn, caller
<1> QED BY <1>3, <1>4, <1>5, OrdMoves

\* The next waiter is registered by the wait that was missing.
LEMMA AheadStep == ASSUME OrdStep PROVE Ahead'
<1>0. /\ at \in Seqs /\ call \in [Msgs -> CallStates] /\ found \in [Msgs -> Seqs \union {None}]
      /\ waiter \in Seqs \union {None} /\ \A r \in Seqs : r \in Nat /\ ~(r < None) /\ None <= r
      /\ Ahead
  BY SignalsAssumption DEF OrdStep, Ord, IndInv, TypeOK, Seqs, None
<1>1. CASE TurnStep /\ UNCHANGED caller
  <2>1. CASE Missing
    <3>1. cp[at] = None BY <2>1 DEF Missing, Recorded
    <3>2. waiter \in Int /\ \A k \in Msgs : found[k] \in Int BY <1>0 DEF None
    <3>3. waiter <= at
      <4>1. ~(at < waiter) BY <1>0, <3>1 DEF OrdStep, Ord, Passed
      <4> QED BY <1>0, <3>2, <4>1
    <3>4. \A k \in Msgs : call[k] \in Holding => found[k] <= at
      <4>1. \A k \in Msgs : call[k] \in Holding => ~(at < found[k])
        BY <1>0, <3>1 DEF OrdStep, Ord, Passed
      <4> QED BY <1>0, <3>2, <4>1
    <3> QED BY <1>1, <2>1, <3>3, <3>4 DEF Missing, Ahead, store, caller
  <2>2. CASE LookInBuffer \/ ClaimBuffered
    <3>1. pc \in {"look", "claim"} /\ UNCHANGED <<waiter, at>>
      BY <2>2 DEF LookInBuffer, ClaimBuffered, store
    <3> QED BY <1>0, <1>1, <3>1 DEF Ahead, caller
  <2>3. CASE Register
    <3>1. pc = "register" /\ waiter' = at /\ at' = at BY <2>3 DEF Register
    <3>2. at \in Int BY <1>0
    <3> QED BY <1>0, <1>1, <3>1, <3>2 DEF Ahead, caller
  <2>4. CASE ~(Missing \/ LookInBuffer \/ ClaimBuffered \/ Register)
    <3>1. pc' \notin {"look", "claim", "keep", "register"}
      BY <1>1, <2>4 DEF TurnStep, Begin, Load, StampDeadline, Resolved, KeepBuffered, Retract,
         CheckDeadline, Expire, Suspend, Return, Tell, turn, OrdStep, Alone, NobodyDies
    <3> QED BY <3>1 DEF Ahead
  <2> QED BY <2>1, <2>2, <2>3, <2>4
<1>2. ASSUME NEW m \in Msgs, Signal(m) \/ CallStep(m), UNCHANGED <<turn, told>> PROVE Ahead'
  <2> SUFFICES ASSUME pc \in {"look", "claim", "keep", "register"}
               PROVE  waiter' <= at /\ \A k \in Msgs : call'[k] \in Holding => found'[k] <= at
    BY <1>2 DEF Ahead, turn
  <2>1. waiter <= at /\ \A k \in Msgs : call[k] \in Holding => found[k] <= at
    BY <1>0 DEF Ahead
  <2>2. waiter' \in {waiter, None}
    BY <1>2 DEF CallStep, Signal, Take, BufferSignal, LookAgain, TakeLate, ReadOldest, Reclaim,
       Deliver, Wake, store
  <2>3. CASE Signal(m) \/ LookAgain(m)
    <3>1. /\ \A k \in Msgs : k # m => call'[k] = call[k] /\ found'[k] = found[k]
          /\ found'[m] = waiter
      BY <1>0, <2>3 DEF Signal, LookAgain
    <3> QED BY <1>0, <2>1, <2>2, <3>1
  <2>4. CASE ~(Signal(m) \/ LookAgain(m))
    <3>1. /\ found' = found
          /\ \A k \in Msgs : call'[k] \in Holding => call[k] \in Holding
      BY <1>0, <1>2, <2>4 DEF CallStep, Take, BufferSignal, AfterBuffering, TakeLate, ReadOldest,
         Reclaim, Reclaimed, Deliver, Wake, Holding
    <3> QED BY <1>0, <2>1, <2>2, <3>1
  <2> QED BY <2>3, <2>4
<1>3. CASE UNCHANGED <<waiter, buffer, cp, turn, caller, told>>
  BY <1>0, <1>3 DEF turn, caller, Ahead
<1> QED BY <1>1, <1>2, <1>3, OrdMoves

\* A wait that gives up its registration, or one that follows, has its payload.
LEMMA SameWaiterStep == ASSUME OrdStep PROVE SameWaiter'
<1>0. /\ \A s \in Seqs : cp[s] # None => cp'[s] # None
      /\ at \in Seqs /\ call \in [Msgs -> CallStates] /\ found \in [Msgs -> Seqs \union {None}]
      /\ \A r \in Seqs : r \in Int
      /\ \A k \in Msgs : call[k] \in {"take", "retake"} =>
            /\ found[k] \in Seqs
            /\ waiter \in {found[k], None} \/ cp[found[k]] # None
  BY OrdWrites DEF OrdStep, Ord, IndInv, TypeOK, Seqs, SameWaiter, HoldersOK
<1>1. ASSUME waiter' \in {waiter, None}, UNCHANGED caller PROVE SameWaiter'
  <2> SUFFICES ASSUME NEW k \in Msgs, call[k] \in {"take", "retake"}
               PROVE  waiter' \in {found[k], None} \/ cp'[found[k]] # None
    BY <1>1 DEF SameWaiter, caller
  <2> QED BY <1>0, <1>1
<1>2. CASE TurnStep /\ UNCHANGED caller
  <2>1. CASE Register
    <3> SUFFICES ASSUME NEW k \in Msgs, call[k] \in {"take", "retake"}
                 PROVE  waiter' = found[k] \/ cp'[found[k]] # None
      BY <1>2 DEF SameWaiter, caller
    <3>1. waiter' = at /\ found[k] <= at
      BY <2>1 DEF Register, OrdStep, Ord, Ahead, Holding
    <3>2. found[k] \in Seqs /\ (found[k] < at => cp[found[k]] # None)
      BY <1>0 DEF OrdStep, Ord, Passed
    <3> QED BY <1>0, <3>1, <3>2
  <2>2. CASE ~Register
    <3>1. waiter' \in {waiter, None}
      BY <1>2, <2>2 DEF TurnStep, Begin, Load, StampDeadline, Resolved, Missing, LookInBuffer,
         ClaimBuffered, KeepBuffered, Retract, CheckDeadline, Expire, Suspend, Return, store, WithoutOwn
    <3> QED BY <1>1, <1>2, <3>1
  <2> QED BY <2>1, <2>2
<1>3. ASSUME NEW m \in Msgs, Signal(m) \/ CallStep(m), UNCHANGED <<turn, told>> PROVE SameWaiter'
  <2>1. waiter' \in {waiter, None}
    BY <1>3 DEF CallStep, Signal, Take, BufferSignal, LookAgain, TakeLate, ReadOldest, Reclaim,
       Deliver, Wake, store
  <2>2. CASE Signal(m) \/ LookAgain(m)
    <3>1. /\ \A k \in Msgs : k # m => call'[k] = call[k] /\ found'[k] = found[k]
          /\ found'[m] = waiter
      BY <1>0, <2>2 DEF Signal, LookAgain
    <3> SUFFICES ASSUME NEW k \in Msgs, call'[k] \in {"take", "retake"}
                 PROVE  waiter' \in {found'[k], None} \/ cp'[found'[k]] # None
      BY DEF SameWaiter
    <3>2. CASE k = m BY <2>1, <3>1, <3>2
    <3>3. CASE k # m BY <1>0, <2>1, <3>1, <3>3
    <3> QED BY <3>2, <3>3
  <2>3. CASE ~(Signal(m) \/ LookAgain(m))
    <3>1. /\ found' = found
          /\ \A k \in Msgs : call'[k] \in {"take", "retake"} => call[k] \in {"take", "retake"}
      BY <1>0, <1>3, <2>3 DEF CallStep, Take, BufferSignal, AfterBuffering, TakeLate, ReadOldest,
         Reclaim, Reclaimed, Deliver, Wake
    <3> SUFFICES ASSUME NEW k \in Msgs, call[k] \in {"take", "retake"}
                 PROVE  waiter' \in {found[k], None} \/ cp'[found[k]] # None
      BY <3>1 DEF SameWaiter
    <3> QED BY <1>0, <2>1
  <2> QED BY <2>2, <2>3
<1>4. CASE UNCHANGED <<waiter, buffer, cp, turn, caller, told>> BY <1>1, <1>4
<1> QED BY <1>2, <1>3, <1>4, OrdMoves

\* A payload put at the end leaves the rows before it.
LEMMA AppendRows ==
  ASSUME NEW m \in Msgs, buffer \in Seq(Msgs), buffer' = Append(buffer, m)
  PROVE  /\ \A i \in Rows' : (i \in Rows /\ buffer'[i] = buffer[i]) \/ (i = Len(buffer) + 1 /\ buffer'[i] = m)
         /\ Len(buffer) \in Nat /\ buffer' # <<>>
         /\ buffer # <<>> => Oldest' = Oldest
<1>1. /\ Len(buffer') = Len(buffer) + 1 /\ Len(buffer) \in Nat /\ buffer' # <<>>
      /\ \A i \in 1 .. Len(buffer) : buffer'[i] = buffer[i]
      /\ buffer'[Len(buffer) + 1] = m
  OBVIOUS
<1>2. buffer # <<>> => Head(buffer') = Head(buffer) OBVIOUS
<1> QED BY <1>1, <1>2 DEF Rows, Oldest

\* The row claimed comes before those that stay, in their order.
LEMMA ClaimOrd ==
  ASSUME TypeOK, Apart, Sorted, NEW m \in Msgs \union {None}, buffer' = Remaining(m)
  PROVE  /\ \A i, j \in Rows' : i < j => buffer'[i] < buffer'[j]
         /\ \A i \in Rows' : \E j \in Rows : buffer'[i] = buffer[j]
         /\ Claimed(m) # None => /\ \E j \in Rows : buffer[j] = Claimed(m)
                                 /\ \A i \in Rows' : Claimed(m) < buffer'[i]
         /\ ~StillThere(m) => buffer' = buffer
<1>1. CASE StillThere(m)
  <2>1. buffer \in Seq(Msgs) /\ buffer # <<>> /\ m = Head(buffer) /\ buffer' = Tail(buffer)
        /\ Claimed(m) = m
    BY <1>1 DEF TypeOK, StillThere, Oldest, Remaining, Claimed, Won
  <2>2. /\ m = buffer[1] /\ 1 \in Rows
        /\ \A i \in Rows' : i \in Nat /\ i >= 1 /\ i + 1 \in Rows /\ buffer'[i] = buffer[i + 1]
    BY <2>1, TailRows DEF Rows
  <2>3. \A i \in Rows' : m < buffer'[i]
    <3> SUFFICES ASSUME NEW i \in Rows' PROVE m < buffer'[i] OBVIOUS
    <3>1. 1 < i + 1 /\ i + 1 \in Rows BY <2>2
    <3>2. buffer[1] < buffer[i + 1] BY <2>2, <3>1 DEF Sorted
    <3> QED BY <2>2, <3>2
  <2>4. \A i, j \in Rows' : i < j => buffer'[i] < buffer'[j]
    <3> SUFFICES ASSUME NEW i \in Rows', NEW j \in Rows', i < j PROVE buffer'[i] < buffer'[j]
      OBVIOUS
    <3>1. i + 1 < j + 1 /\ i + 1 \in Rows /\ j + 1 \in Rows BY <2>2
    <3>2. buffer[i + 1] < buffer[j + 1] BY <3>1 DEF Sorted
    <3> QED BY <2>2, <3>2
  <2> QED BY <1>1, <2>1, <2>2, <2>3, <2>4
<1>2. CASE ~StillThere(m)
  <2>1. buffer' = buffer /\ Claimed(m) = None BY <1>2 DEF Remaining, Claimed, Won
  <2>2. Rows' = Rows BY <2>1 DEF Rows
  <2> QED BY <2>1, <2>2 DEF Sorted
<1> QED BY <1>1, <1>2

\* A turn that will keep a payload goes on to keep it.
LEMMA TurnKeeps ==
  ASSUME OrdStep, WillKeep, TurnStep, UNCHANGED caller
  PROVE  KeepBuffered \/ (WillKeep' /\ UNCHANGED <<at, waiter, cp>>)
<1>0. buffer \in Seq(Msgs) BY DEF OrdStep, IndInv, TypeOK
<1>1. CASE LookInBuffer
  <2>1. buffer # <<>> /\ buffer' = buffer /\ row' = Oldest /\ pc' = "claim"
        /\ UNCHANGED <<at, waiter, cp>>
    BY <1>1 DEF LookInBuffer, WillKeep, store
  <2>2. Oldest \in Msgs BY <1>0, <2>1, TailRows DEF Oldest
  <2>3. StillThere(row)' BY <2>1, <2>2, Numbers DEF StillThere, Oldest
  <2> QED BY <2>1, <2>3 DEF WillKeep
<1>2. CASE ClaimBuffered
  BY <1>2 DEF ClaimBuffered, WillKeep, Won
<1>3. pc \in {"look", "claim", "keep"} BY DEF WillKeep
<1>4. LookInBuffer \/ ClaimBuffered \/ KeepBuffered
  BY <1>3 DEF TurnStep, Begin, Load, StampDeadline, Resolved, Missing, Retract, CheckDeadline,
     Expire, Register, Suspend, Return
<1> QED BY <1>1, <1>2, <1>4

\* A call that takes nothing out of the buffer does not keep it from doing so.
LEMMA CallKeeps ==
  ASSUME OrdStep, WillKeep, NEW m \in Msgs, Signal(m) \/ CallStep(m), UNCHANGED <<turn, told>>,
         buffer' = buffer \/ BufferSignal(m)
  PROVE  WillKeep'
<1>0. buffer \in Seq(Msgs) BY DEF OrdStep, IndInv, TypeOK
<1>1. CASE buffer' = buffer BY <1>1 DEF WillKeep, turn, StillThere, Oldest
<1>2. CASE BufferSignal(m)
  <2>1. buffer' = Append(buffer, m) BY <1>2 DEF BufferSignal, Buffered
  <2>2. /\ \A i \in Rows' : (i \in Rows /\ buffer'[i] = buffer[i]) \/ (i = Len(buffer) + 1 /\ buffer'[i] = m)
        /\ Len(buffer) \in Nat /\ buffer' # <<>>
        /\ buffer # <<>> => Oldest' = Oldest
    BY <1>0, <2>1, AppendRows
  <2>3. StillThere(row) => buffer # <<>> BY DEF StillThere, Oldest
  <2> QED BY <2>2, <2>3 DEF WillKeep, turn, StillThere
<1> QED BY <1>1, <1>2

\* A call that has no waiter touches neither waiter nor journal, and takes
\* nothing out of the buffer.
LEMMA WithoutWaiter ==
  ASSUME OrdStep, NEW m \in Msgs, Signal(m) \/ CallStep(m), call[m] \notin Holding
  PROVE  /\ UNCHANGED <<waiter, cp>> /\ (buffer' = buffer \/ BufferSignal(m))
         /\ waiter = None => \A k \in Msgs : call'[k] \in Holding => call[k] \in Holding
<1>0. call \in [Msgs -> CallStates] BY DEF OrdStep, IndInv, TypeOK
<1>1. Signal(m) \/ BufferSignal(m) \/ LookAgain(m) \/ Wake(m)
  BY DEF CallStep, Take, TakeLate, ReadOldest, Reclaim, Deliver, Holding
<1> QED BY <1>0, <1>1 DEF Signal, BufferSignal, AfterBuffering, LookAgain, Wake, store, Holding

\* What is bound to be written over is, before anything else is delivered.
LEMMA DoomedStep == ASSUME OrdStep, Doomed PROVE Doomed'
<1>0. \A s \in Seqs : cp[s] # None => cp'[s] # None BY OrdWrites DEF OrdStep, IndInv, TypeOK
<1>1. CASE TurnStep /\ UNCHANGED caller
  <2>1. ~KeepBuffered BY OrdWrites DEF Doomed
  <2>2. WillKeep' /\ UNCHANGED <<at, waiter, cp>> BY <1>1, <2>1, TurnKeeps DEF Doomed
  <2> QED BY <1>1, <2>2 DEF Doomed, caller
<1>2. ASSUME NEW m \in Msgs, Signal(m) \/ CallStep(m), UNCHANGED <<turn, told>> PROVE Doomed'
  <2>1. call[m] \notin Holding BY DEF Doomed
  <2>2. /\ UNCHANGED <<waiter, cp>> /\ (buffer' = buffer \/ BufferSignal(m))
        /\ waiter = None => \A k \in Msgs : call'[k] \in Holding => call[k] \in Holding
    BY <1>2, <2>1, WithoutWaiter
  <2>3. WillKeep' BY <1>2, <2>2, CallKeeps DEF Doomed
  <2> QED BY <1>2, <2>2, <2>3 DEF Doomed, turn
<1>3. CASE UNCHANGED <<waiter, buffer, cp, turn, caller, told>>
  BY <1>3 DEF Doomed, turn, caller, WillKeep, StillThere, Oldest
<1> QED BY <1>1, <1>2, <1>3, OrdMoves

\* The only steps that change the buffer or what the turn has taken.
LEMMA Movers ==
  ASSUME OrdStep
  PROVE  \/ UNCHANGED <<buffer, taken>>
         \/ \E m \in Msgs : BufferSignal(m) /\ UNCHANGED <<turn, told>>
         \/ \E m \in Msgs : Reclaim(m) /\ UNCHANGED <<turn, told>>
         \/ ClaimBuffered /\ UNCHANGED caller
         \/ KeepBuffered /\ UNCHANGED caller
<1>1. ASSUME NEW m \in Msgs, Signal(m) \/ CallStep(m), UNCHANGED <<turn, told>>
      PROVE  UNCHANGED <<buffer, taken>> \/ BufferSignal(m) \/ Reclaim(m)
  BY <1>1 DEF CallStep, Signal, Take, LookAgain, TakeLate, ReadOldest, Deliver, Wake, store, turn
<1>2. CASE TurnStep /\ UNCHANGED caller
  BY <1>2 DEF TurnStep, Begin, Load, StampDeadline, Resolved, Missing, LookInBuffer, Retract,
     CheckDeadline, Expire, Register, Suspend, Return, store, turn
<1> QED BY <1>1, <1>2, OrdMoves DEF turn

\* Claiming takes out the front, buffering adds the newest.
LEMMA SortedStep == ASSUME OrdStep PROVE Sorted'
<1>0. /\ TypeOK /\ Apart /\ Sorted /\ Later /\ buffer \in Seq(Msgs) /\ HoldersOK
      /\ row \in Msgs \union {None} /\ taken \in Msgs \union {None}
      /\ head \in [Msgs -> Msgs \union {None}] /\ TakenBeyond /\ HandStates
  BY DEF OrdStep, Ord, IndInv, TypeOK, Alone
<1>1. ASSUME NEW m \in Msgs, BufferSignal(m), UNCHANGED <<turn, told>> PROVE Sorted'
  <2>1. buffer' = Append(buffer, m) /\ call[m] = "buffer" /\ taken' = taken
    BY <1>1 DEF BufferSignal, Buffered, turn
  <2>2. /\ \A i \in Rows' : (i \in Rows /\ buffer'[i] = buffer[i]) \/ (i = Len(buffer) + 1 /\ buffer'[i] = m)
        /\ Len(buffer) \in Nat
    BY <1>0, <2>1, AppendRows
  <2>3. (\A i \in Rows : buffer[i] < m) /\ taken < m BY <1>0, <2>1 DEF Later, Fresh
  <2>4. \A i, j \in Rows' : i < j => buffer'[i] < buffer'[j]
    <3> SUFFICES ASSUME NEW i \in Rows', NEW j \in Rows', i < j PROVE buffer'[i] < buffer'[j]
      OBVIOUS
    <3>1. i \in Rows /\ buffer'[i] = buffer[i] BY <2>2 DEF Rows
    <3>2. CASE j \in Rows /\ buffer'[j] = buffer[j] BY <1>0, <3>1, <3>2 DEF Sorted
    <3>3. CASE buffer'[j] = m BY <2>3, <3>1, <3>3
    <3> QED BY <2>2, <3>2, <3>3
  <2>5. taken # None => \A i \in Rows' : taken < buffer'[i]
    BY <1>0, <2>2, <2>3 DEF Sorted
  <2> QED BY <2>1, <2>4, <2>5 DEF Sorted
<1>2. ASSUME NEW m \in Msgs, Reclaim(m), UNCHANGED <<turn, told>> PROVE Sorted'
  <2>1. buffer' = Remaining(head[m]) /\ taken' = taken BY <1>2 DEF Reclaim, turn
  <2>2. head[m] \in Msgs \union {None} BY <1>0
  <2>3. /\ \A i, j \in Rows' : i < j => buffer'[i] < buffer'[j]
        /\ \A i \in Rows' : \E j \in Rows : buffer'[i] = buffer[j]
    BY <1>0, <2>1, <2>2, ClaimOrd
  <2> QED BY <1>0, <2>1, <2>3 DEF Sorted
<1>3. CASE ClaimBuffered
  <2>1. buffer' = Remaining(row) /\ taken' = Claimed(row) BY <1>3 DEF ClaimBuffered
  <2>2. /\ \A i, j \in Rows' : i < j => buffer'[i] < buffer'[j]
        /\ Claimed(row) # None => \A i \in Rows' : Claimed(row) < buffer'[i]
    BY <1>0, <2>1, ClaimOrd
  <2> QED BY <2>1, <2>2 DEF Sorted
<1>4. CASE KeepBuffered
  <2>1. buffer' = buffer /\ taken' = None /\ Rows' = Rows BY <1>4 DEF KeepBuffered, Rows
  <2> QED BY <1>0, <2>1 DEF Sorted
<1>5. CASE UNCHANGED <<buffer, taken>>
  <2>1. Rows' = Rows BY <1>5 DEF Rows
  <2> QED BY <1>0, <1>5, <2>1 DEF Sorted
<1> QED BY <1>1, <1>2, <1>3, <1>4, <1>5, Movers

\* A call under way began before those that have not.
LEMMA ReadyLater ==
  ASSUME OrdStep, NEW m \in Msgs, call[m] \notin {"ready", "done"}, NEW k \in Msgs, k # m
  PROVE  /\ call[k] \in {"ready", "done"}
         /\ call[k] = "ready" => m < k
<1>1. call \in [Msgs -> CallStates] /\ SeqCalls BY DEF OrdStep, IndInv, TypeOK, Alone
<1>2. CASE k < m BY <1>1, <1>2 DEF SeqCalls
<1>3. CASE m < k
  <2>1. call[k] = "ready" BY <1>1, <1>3 DEF SeqCalls
  <2> QED BY <1>3, <2>1
<1> QED BY <1>2, <1>3 DEF Msgs

\* What a call has yet to buffer is newer than all that is buffered.
LEMMA LaterStep == ASSUME OrdStep PROVE Later'
<1>0. /\ TypeOK /\ Apart /\ Sorted /\ Later /\ buffer \in Seq(Msgs) /\ HoldersOK
      /\ row \in Msgs \union {None} /\ taken \in Msgs \union {None}
      /\ head \in [Msgs -> Msgs \union {None}] /\ hand \in [Msgs -> Msgs \union {None}]
      /\ call \in [Msgs -> CallStates]
  BY DEF OrdStep, Ord, IndInv, TypeOK
<1> DEFINE FreshOK(k) == call[k] \in Fresh => (\A i \in Rows : buffer[i] < k) /\ taken < k
           ReadyOK(k) == call[k] = "ready" => \A j \in Msgs : call[j] = "deliver" => hand[j] < k
<1>1. \A k \in Msgs : FreshOK(k) /\ ReadyOK(k) BY <1>0 DEF Later
<1>2. \A k \in Msgs : FreshOK(k)'
  <2> SUFFICES ASSUME NEW k \in Msgs, call'[k] \in Fresh
               PROVE  (\A i \in Rows' : buffer'[i] < k) /\ taken' < k
    OBVIOUS
  <2>1. call[k] \in Fresh
    <3>1. CASE UNCHANGED caller BY <3>1 DEF caller
    <3>2. ASSUME NEW m \in Msgs, Signal(m) \/ CallStep(m) PROVE call[k] \in Fresh
      BY <1>0, <3>2 DEF Signal, CallStep, Take, BufferSignal, AfterBuffering, LookAgain, TakeLate,
         ReadOldest, Reclaim, Reclaimed, Deliver, Wake, Fresh
    <3> QED BY <3>1, <3>2, OrdMoves
  <2>2. (\A i \in Rows : buffer[i] < k) /\ taken < k BY <1>1, <2>1
  <2>3. ASSUME NEW m \in Msgs, BufferSignal(m), UNCHANGED <<turn, told>>
        PROVE  (\A i \in Rows' : buffer'[i] < k) /\ taken' < k
    <3>1. buffer' = Append(buffer, m) /\ call[m] = "buffer" /\ call'[m] = "relook" /\ taken' = taken
      BY <1>0, <2>3 DEF BufferSignal, Buffered, AfterBuffering, turn
    <3>2. k # m BY <3>1 DEF Fresh
    <3>3. m < k BY <2>1, <3>1, <3>2, ReadyLater DEF Fresh
    <3>4. \A i \in Rows' : (i \in Rows /\ buffer'[i] = buffer[i]) \/ buffer'[i] = m
      BY <1>0, <3>1, AppendRows
    <3> QED BY <2>2, <3>1, <3>3, <3>4
  <2>4. ASSUME NEW m \in Msgs, Reclaim(m), UNCHANGED <<turn, told>>
        PROVE  (\A i \in Rows' : buffer'[i] < k) /\ taken' < k
    <3>1. buffer' = Remaining(head[m]) /\ taken' = taken BY <2>4 DEF Reclaim, turn
    <3>2. head[m] \in Msgs \union {None} BY <1>0
    <3>3. \A i \in Rows' : \E j \in Rows : buffer'[i] = buffer[j]
      BY <1>0, <3>1, <3>2, ClaimOrd
    <3> QED BY <2>2, <3>1, <3>3
  <2>5. CASE ClaimBuffered
    <3>1. buffer' = Remaining(row) /\ taken' = Claimed(row) BY <2>5 DEF ClaimBuffered
    <3>2. /\ \A i \in Rows' : \E j \in Rows : buffer'[i] = buffer[j]
          /\ Claimed(row) # None => \E j \in Rows : buffer[j] = Claimed(row)
      BY <1>0, <3>1, ClaimOrd
    <3> QED BY <2>2, <3>1, <3>2 DEF None, Msgs
  <2>6. CASE KeepBuffered
    BY <2>2, <2>6 DEF KeepBuffered, Rows, None, Msgs
  <2>7. CASE UNCHANGED <<buffer, taken>> BY <2>2, <2>7 DEF Rows
  <2> QED BY <2>3, <2>4, <2>5, <2>6, <2>7, Movers
<1>3. \A k \in Msgs : ReadyOK(k)'
  <2> SUFFICES ASSUME NEW k \in Msgs, NEW j \in Msgs, call'[k] = "ready", call'[j] = "deliver"
               PROVE  hand'[j] < k
    OBVIOUS
  <2>1. CASE UNCHANGED caller BY <1>1, <2>1 DEF caller
  <2>2. ASSUME NEW m \in Msgs, Signal(m) \/ CallStep(m) PROVE hand'[j] < k
    <3>1. call[k] = "ready" /\ m # k
      BY <1>0, <2>2 DEF Signal, CallStep, Take, BufferSignal, AfterBuffering, LookAgain, TakeLate,
         ReadOldest, Reclaim, Reclaimed, Deliver, Wake
    <3>2. CASE Take(m) /\ j = m
      <4>1. hand'[j] = m /\ call[m] = "take" BY <1>0, <3>2 DEF Take, HoldersOK
      <4> QED BY <3>1, <4>1, ReadyLater
    <3>3. CASE Reclaim(m) /\ j = m
      <4>1. Won(head[m]) BY <1>0, <3>3 DEF Reclaim, Reclaimed
      <4>2. hand'[j] = head[m] /\ buffer # <<>> /\ head[m] = Head(buffer)
        BY <1>0, <3>3, <4>1 DEF Reclaim, Claimed, Won, StillThere, Oldest
      <4>3. 1 \in Rows /\ hand'[j] = buffer[1] BY <1>0, <4>2, TailRows DEF Rows
      <4> QED BY <1>1, <3>1, <4>3 DEF Fresh
    <3>4. CASE ~(Take(m) /\ j = m) /\ ~(Reclaim(m) /\ j = m)
      <4>1. call[j] = "deliver" /\ hand'[j] = hand[j]
        BY <1>0, <2>2, <3>4 DEF Signal, CallStep, Take, BufferSignal, AfterBuffering, LookAgain,
           TakeLate, ReadOldest, Reclaim, Reclaimed, Deliver, Wake
      <4> QED BY <1>1, <3>1, <4>1
    <3> QED BY <3>2, <3>3, <3>4
  <2> QED BY <2>1, <2>2, OrdMoves
<1> QED BY <1>2, <1>3 DEF Later

\* A call that holds a waiter while the turn stands at a wait that was missing
\* has that wait's waiter, or one whose wait has its payload.
LEMMA HolderAtWait ==
  ASSUME OrdStep, pc \in {"look", "claim", "keep", "register"},
         NEW k \in Msgs, call[k] \in Holding, found[k] \in Seqs
  PROVE  found[k] = at \/ cp[found[k]] # None
<1>1. found[k] <= at BY DEF OrdStep, Ord, Ahead
<1>2. found[k] < at => cp[found[k]] # None BY DEF OrdStep, Ord, Passed
<1> QED BY <1>1, <1>2 DEF Seqs, OrdStep, IndInv, TypeOK

\* What is in hand stays beyond the journal.
LEMMA HandBeyondStep == ASSUME OrdStep PROVE HandBeyond'
<1>0. /\ TypeOK /\ HoldersOK /\ HandStates /\ Later /\ HandBeyond
      /\ call \in [Msgs -> CallStates] /\ found \in [Msgs -> Seqs \union {None}]
      /\ hand \in [Msgs -> Msgs \union {None}] /\ head \in [Msgs -> Msgs \union {None}]
      /\ cp \in [Seqs -> Msgs \union {None}] /\ buffer \in Seq(Msgs) /\ at \in Seqs
      /\ \A k \in Msgs : call[k] = "deliver" => found[k] \in Seqs
      /\ \A s \in Seqs : cp[s] # None => cp'[s] # None
  BY OrdWrites DEF OrdStep, Ord, IndInv, TypeOK, Alone
<1> SUFFICES ASSUME NEW s \in Seqs, NEW k \in Msgs, cp'[s] # None, hand'[k] # None
             PROVE  cp'[s] < hand'[k] \/ (call'[k] = "deliver" /\ cp'[found'[k]] # None)
  BY DEF HandBeyond
<1> DEFINE Goal == cp'[s] < hand'[k] \/ (call'[k] = "deliver" /\ cp'[found'[k]] # None)
<1>1. ASSUME NEW m \in Msgs, Deliver(m) PROVE Goal
  <2>1. /\ call[m] = "deliver" /\ k # m /\ hand'[k] = hand[k]
        /\ cp'[s] = IF s = found[m] THEN hand[m] ELSE cp[s]
    BY <1>0, <1>1 DEF Deliver
  <2>2. call[k] = "ready" BY <1>0, <2>1, ReadyLater DEF HandStates, Fresh
  <2>3. hand[k] = k BY <1>0, <2>2 DEF HoldersOK
  <2>4. hand[m] < k BY <1>0, <2>1, <2>2 DEF Later
  <2>5. cp[s] # None => cp[s] < hand[k] BY <1>0, <2>1, <2>2 DEF HandBeyond
  <2> QED BY <2>1, <2>3, <2>4, <2>5
<1>2. CASE KeepBuffered /\ UNCHANGED caller
  <2>1. /\ pc = "keep" /\ hand' = hand /\ call' = call /\ found' = found
        /\ cp'[s] = IF s = at THEN taken ELSE cp[s]
        /\ cp'[at] = taken /\ taken # None
    BY <1>0, <1>2 DEF KeepBuffered, caller, HoldersOK
  <2>2. CASE call[k] = "deliver"
    <3>1. found[k] = at \/ cp[found[k]] # None BY <1>0, <2>1, <2>2, HolderAtWait DEF Holding
    <3> QED BY <1>0, <2>1, <2>2, <3>1
  <2>3. CASE call[k] # "deliver"
    <3>1. call[k] \in Fresh BY <1>0, <2>1, <2>3 DEF HandStates
    <3>2. hand[k] = k /\ taken < k BY <1>0, <3>1 DEF HoldersOK, Later, Fresh
    <3> QED BY <1>0, <2>1, <2>3, <3>2 DEF HandBeyond
  <2> QED BY <2>2, <2>3
<1>3. ASSUME NEW m \in Msgs, Reclaim(m) PROVE Goal
  <2>1. /\ call[m] = "claim" /\ cp' = cp /\ found' = found
        /\ hand' = [hand EXCEPT ![m] = Claimed(head[m])]
        /\ call' = [call EXCEPT ![m] = Reclaimed(m)]
    BY <1>3 DEF Reclaim
  <2>2. CASE k = m
    <3>1. hand'[k] = head[m] /\ head[m] = Head(buffer) /\ buffer # <<>>
      BY <1>0, <2>1, <2>2 DEF Claimed, Won, StillThere, Oldest
    <3>2. 1 \in Rows /\ hand'[k] = buffer[1] BY <1>0, <3>1, TailRows DEF Rows
    <3>3. \A i \in Rows : cp[s] < buffer[i]
      BY <2>1 DEF OrdStep, Ord, BufBeyond, Doomed, Holding
    <3> QED BY <2>1, <3>2, <3>3
  <2>3. CASE k # m BY <1>0, <2>1, <2>3 DEF HandBeyond
  <2> QED BY <2>2, <2>3
<1>4. ASSUME NEW m \in Msgs, Signal(m) \/ CallStep(m), ~Deliver(m), ~Reclaim(m) PROVE Goal
  <2>1. /\ cp' = cp /\ hand[k] # None /\ hand'[k] = hand[k]
        /\ call[k] = "deliver" => call'[k] = "deliver" /\ found'[k] = found[k]
    BY <1>0, <1>4 DEF CallStep, Signal, Take, BufferSignal, LookAgain, TakeLate, ReadOldest, Wake, store
  <2> QED BY <1>0, <2>1 DEF HandBeyond
<1>5. CASE UNCHANGED <<cp, caller>> BY <1>0, <1>5 DEF HandBeyond, caller
<1>6. CASE TurnStep /\ UNCHANGED caller /\ ~KeepBuffered
  <2>1. cp' = cp BY <1>6, Writers, <1>0 DEF TurnStep, Begin, Load, StampDeadline, Resolved, Missing,
    LookInBuffer, ClaimBuffered, Retract, CheckDeadline, Expire, Register, Suspend, Return, store
  <2> QED BY <1>5, <1>6, <2>1
<1> QED BY <1>1, <1>2, <1>3, <1>4, <1>5, <1>6, OrdMoves

\* What is buffered stays beyond the journal, or is bound to be written over
\* what is there.
LEMMA BufBeyondStep == ASSUME OrdStep PROVE BufBeyond'
<1>0. /\ TypeOK /\ Apart /\ HoldersOK /\ HandStates /\ Sorted /\ HandBeyond /\ DeliverInv
      /\ call \in [Msgs -> CallStates] /\ found \in [Msgs -> Seqs \union {None}]
      /\ hand \in [Msgs -> Msgs \union {None}] /\ head \in [Msgs -> Msgs \union {None}]
      /\ cp \in [Seqs -> Msgs \union {None}] /\ buffer \in Seq(Msgs) /\ at \in Seqs
      /\ row \in Msgs \union {None}
  BY DEF OrdStep, Ord, IndInv, TypeOK, Alone
<1> DEFINE A == \A s \in Seqs, i \in Rows : cp[s] # None => cp[s] < buffer[i]
<1>1. CASE Doomed BY <1>1, DoomedStep DEF BufBeyond
<1>2. CASE A
  <2> SUFFICES A' \/ Doomed' BY DEF BufBeyond
  <2>1. ASSUME NEW m \in Msgs, Deliver(m), UNCHANGED <<turn, told>> PROVE A' \/ Doomed'
    <3>1. /\ call[m] = "deliver" /\ cp[found[m]] = None /\ found[m] \in Seqs /\ hand[m] # None
          /\ \A s \in Seqs : cp'[s] = IF s = found[m] THEN hand[m] ELSE cp[s]
          /\ buffer' = buffer /\ waiter' = waiter /\ call' = [call EXCEPT ![m] = "wake"]
      BY <1>0, <2>1, OrdWrites DEF Deliver, TypeOK
    <3>2. CASE \A i \in Rows : hand[m] < buffer[i]
      <4>1. A' BY <1>2, <3>1, <3>2 DEF Rows
      <4> QED BY <4>1
    <3>3. CASE waiter = None /\ at = found[m] /\ WillKeep
      <4>1. WillKeep' BY <2>1, <3>1, <3>3, CallKeeps DEF CallStep
      <4>2. \A k \in Msgs : call'[k] \notin Holding
        <5> SUFFICES ASSUME NEW k \in Msgs PROVE call'[k] \notin Holding OBVIOUS
        <5>1. k # m => call[k] \in {"ready", "done"} BY <3>1, ReadyLater
        <5> QED BY <1>0, <3>1, <5>1 DEF Holding
      <4>3. Doomed' BY <2>1, <3>1, <3>3, <4>1, <4>2 DEF Doomed, turn
      <4> QED BY <4>3
    <3> QED BY <1>0, <3>1, <3>2, <3>3 DEF DeliverInv
  <2>2. CASE KeepBuffered
    <3>1. /\ \A s \in Seqs : cp'[s] = IF s = at THEN taken ELSE cp[s]
          /\ buffer' = buffer /\ taken # None
      BY <1>0, <2>2 DEF KeepBuffered, HoldersOK
    <3>2. A' BY <1>0, <1>2, <3>1 DEF Sorted, Rows
    <3> QED BY <3>2
  <2>3. ASSUME NEW m \in Msgs, BufferSignal(m) PROVE A'
    <3>1. buffer' = Append(buffer, m) /\ call[m] = "buffer" /\ hand[m] = m /\ cp' = cp
      BY <1>0, <2>3 DEF BufferSignal, Buffered, HoldersOK
    <3>2. \A i \in Rows' : (i \in Rows /\ buffer'[i] = buffer[i]) \/ buffer'[i] = m
      BY <1>0, <3>1, AppendRows
    <3>3. \A s \in Seqs : cp[s] # None => cp[s] < m
      BY <1>0, <3>1, Numbers DEF HandBeyond
    <3> QED BY <1>2, <3>1, <3>2, <3>3
  <2>4. ASSUME NEW m \in Msgs, Reclaim(m) PROVE A'
    <3>1. buffer' = Remaining(head[m]) /\ cp' = cp /\ head[m] \in Msgs \union {None}
      BY <1>0, <2>4 DEF Reclaim
    <3>2. \A i \in Rows' : \E j \in Rows : buffer'[i] = buffer[j]
      BY <1>0, <3>1, ClaimOrd
    <3> QED BY <1>2, <3>1, <3>2
  <2>5. CASE ClaimBuffered
    <3>1. buffer' = Remaining(row) /\ cp' = cp BY <2>5 DEF ClaimBuffered
    <3>2. \A i \in Rows' : \E j \in Rows : buffer'[i] = buffer[j]
      BY <1>0, <3>1, ClaimOrd
    <3>3. A' BY <1>2, <3>1, <3>2
    <3> QED BY <3>3
  <2>6. CASE UNCHANGED <<buffer, cp>>
    <3>1. A' BY <1>2, <2>6 DEF Rows
    <3> QED BY <3>1
  <2>7. CASE ~UNCHANGED <<buffer, cp>>
    <3>1. cp' # cp => KeepBuffered \/ \E m \in Msgs : Deliver(m) /\ UNCHANGED <<turn, told>>
      BY Writers DEF Deliver, turn, store
    <3>2. buffer' # buffer => ClaimBuffered \/ \E m \in Msgs : BufferSignal(m) \/ Reclaim(m)
      BY Movers DEF KeepBuffered
    <3> QED BY <2>1, <2>2, <2>3, <2>4, <2>5, <2>7, <3>1, <3>2
  <2> QED BY <2>6, <2>7
<1> QED BY <1>1, <1>2 DEF OrdStep, Ord, BufBeyond

\* What the turn has taken stays beyond the journal, or goes over what is there.
LEMMA TakenBeyondStep == ASSUME OrdStep PROVE TakenBeyond'
<1>0. /\ TypeOK /\ Apart /\ HoldersOK /\ BufBeyond /\ TakenBeyond
      /\ cp \in [Seqs -> Msgs \union {None}] /\ buffer \in Seq(Msgs) /\ at \in Seqs
      /\ row \in Msgs \union {None} /\ found \in [Msgs -> Seqs \union {None}]
      /\ \A s \in Seqs : cp[s] # None => cp'[s] = cp[s]
  BY OrdWrites DEF OrdStep, Ord, IndInv, TypeOK
<1>1. CASE ClaimBuffered
  <2>1. /\ taken' = Claimed(row) /\ cp' = cp /\ at' = at /\ pc = "claim"
        /\ pc' = IF Won(row) THEN "keep" ELSE Empty
    BY <1>1 DEF ClaimBuffered
  <2> SUFFICES ASSUME taken' # None
               PROVE  pc' = "keep" /\ (cp[at] # None \/ \A s \in Seqs : cp[s] # None => cp[s] < taken')
    BY <2>1 DEF TakenBeyond
  <2>2. Won(row) /\ taken' = row /\ buffer # <<>> /\ row = Head(buffer)
    BY <2>1 DEF Claimed, Won, StillThere, Oldest
  <2>3. 1 \in Rows /\ taken' = buffer[1] BY <1>0, <2>2, TailRows DEF Rows
  <2> QED BY <1>0, <2>1, <2>2, <2>3 DEF BufBeyond, Doomed
<1>2. CASE KeepBuffered BY <1>2 DEF KeepBuffered, TakenBeyond
<1>3. ASSUME NEW m \in Msgs, Deliver(m), UNCHANGED <<turn, told>> PROVE TakenBeyond'
  <2> SUFFICES ASSUME taken # None
               PROVE  pc = "keep" /\ (cp'[at] # None \/ \A s \in Seqs : cp'[s] # None => cp'[s] < taken)
    BY <1>3 DEF TakenBeyond, turn
  <2>1. /\ call[m] = "deliver" /\ cp[found[m]] = None /\ found[m] \in Seqs /\ hand[m] # None
        /\ \A s \in Seqs : cp'[s] = IF s = found[m] THEN hand[m] ELSE cp[s]
    BY <1>0, <1>3, OrdWrites DEF Deliver, TypeOK
  <2>2. pc = "keep" BY <1>0 DEF TakenBeyond
  <2>3. found[m] = at BY <2>1, <2>2, HolderAtWait DEF Holding
  <2> QED BY <1>0, <2>1, <2>2, <2>3
<1>4. ASSUME taken' = taken, cp' = cp, taken # None => pc' = pc /\ at' = at PROVE TakenBeyond'
  BY <1>0, <1>4 DEF TakenBeyond
<1>5. CASE TurnStep /\ UNCHANGED caller /\ ~ClaimBuffered /\ ~KeepBuffered
  <2>1. taken' = taken /\ cp' = cp
    BY <1>5 DEF TurnStep, Begin, Load, StampDeadline, Resolved, Missing, LookInBuffer, Retract,
       CheckDeadline, Expire, Register, Suspend, Return, store, turn
  <2>2. pc # "keep"
    BY <1>5 DEF TurnStep, Begin, Load, StampDeadline, Resolved, Missing, LookInBuffer, Retract,
       CheckDeadline, Expire, Register, Suspend, Return
  <2> QED BY <1>0, <1>4, <2>1, <2>2 DEF TakenBeyond
<1>6. ASSUME NEW m \in Msgs, Signal(m) \/ CallStep(m), ~Deliver(m), UNCHANGED <<turn, told>>
      PROVE  TakenBeyond'
  <2>1. cp' = cp
    BY <1>6 DEF CallStep, Signal, Take, BufferSignal, LookAgain, TakeLate, ReadOldest, Reclaim, Wake, store
  <2> QED BY <1>4, <1>6, <2>1 DEF turn
<1>7. CASE UNCHANGED <<waiter, buffer, cp, turn, caller, told>> BY <1>4, <1>7 DEF turn
<1> QED BY <1>1, <1>2, <1>3, <1>5, <1>6, <1>7, OrdMoves

\* While a call is under way no other moves.
LEMMA OnlyOneMoves ==
  ASSUME OrdStep, NEW k \in Msgs, call[k] \notin {"ready", "done"},
         NEW m \in Msgs, Signal(m) \/ CallStep(m)
  PROVE  m = k
<1> SUFFICES ASSUME m # k PROVE FALSE OBVIOUS
<1>1. call[m] \in {"ready", "done"} BY ReadyLater
<1>2. CASE Signal(m)
  <2>1. UnderWay = {} BY <1>2, NobodyUnderWay DEF Signal, OrdStep, Orderly
  <2>2. call[k] \in Done BY <2>1 DEF UnderWay
  <2> QED BY <2>2 DEF Done, OrdStep, Alone, NobodyDies
<1>3. CASE CallStep(m)
  BY <1>1, <1>3 DEF CallStep, Take, BufferSignal, LookAgain, TakeLate, ReadOldest, Reclaim, Deliver, Wake
<1> QED BY <1>2, <1>3

\* A payload is delivered before those behind it, or over another.
LEMMA DeliverStep == ASSUME OrdStep PROVE DeliverInv'
<1>0. /\ TypeOK /\ Apart /\ HoldersOK /\ Sorted /\ DeliverInv /\ PairOrd /\ SameWaiter
      /\ cp \in [Seqs -> Msgs \union {None}] /\ buffer \in Seq(Msgs) /\ at \in Seqs
      /\ row \in Msgs \union {None} /\ found \in [Msgs -> Seqs \union {None}]
      /\ head \in [Msgs -> Msgs \union {None}] /\ hand \in [Msgs -> Msgs \union {None}]
      /\ call \in [Msgs -> CallStates]
      /\ \A s \in Seqs : cp[s] # None => cp'[s] # None
  BY OrdWrites DEF OrdStep, Ord, IndInv, TypeOK
<1> SUFFICES ASSUME NEW k \in Msgs, call'[k] = "deliver"
             PROVE  \/ \A i \in Rows' : hand'[k] < buffer'[i]
                    \/ cp'[found'[k]] # None
                    \/ waiter' = None /\ at' = found'[k] /\ WillKeep'
  BY DEF DeliverInv
<1> DEFINE Goal == \/ \A i \in Rows' : hand'[k] < buffer'[i]
                   \/ cp'[found'[k]] # None
                   \/ waiter' = None /\ at' = found'[k] /\ WillKeep'
<1>1. CASE Take(k) /\ UNCHANGED <<turn, told>>
  <2>1. /\ call[k] = "take" /\ waiter # None /\ waiter' = None /\ UNCHANGED <<buffer, cp, found, at>>
    BY <1>0, <1>1 DEF Take, turn
  <2>2. CASE buffer = <<>> BY <2>1, <2>2 DEF Rows
  <2>3. CASE buffer # <<>> /\ waiter = at /\ WillKeep /\ waiter = found[k]
    <3>1. WillKeep' BY <1>1, <2>1, <2>3, CallKeeps DEF CallStep
    <3> QED BY <2>1, <2>3, <3>1
  <2>4. waiter = found[k] \/ cp[found[k]] # None BY <1>0, <2>1 DEF SameWaiter
  <2>5. \A j \in Msgs : call[j] \in {"take", "ready", "done"}
    BY <2>1, ReadyLater
  <2>6. CASE buffer # <<>> /\ ~(waiter = at /\ WillKeep)
    <3>1. cp[waiter] # None
      BY <1>0, <2>1, <2>5, <2>6 DEF PairOrd
    <3> QED BY <2>1, <2>4, <3>1
  <2> QED BY <2>1, <2>2, <2>3, <2>4, <2>6
<1>2. CASE Reclaim(k)
  <2>1. buffer' = Remaining(head[k]) /\ hand'[k] = Claimed(head[k]) /\ Won(head[k])
        /\ head[k] \in Msgs \union {None}
    BY <1>0, <1>2 DEF Reclaim, Reclaimed
  <2>2. Claimed(head[k]) # None BY <2>1 DEF Claimed, Won, StillThere
  <2> QED BY <1>0, <2>1, <2>2, ClaimOrd
<1>3. ASSUME call[k] = "deliver", TurnStep, UNCHANGED caller PROVE Goal
  <2>1. UNCHANGED <<call, found, hand>> BY <1>3 DEF caller
  <2>2. found[k] \in Seqs BY <1>0, <1>3 DEF TypeOK
  <2>3. \A i \in Rows' : \E j \in Rows : buffer'[i] = buffer[j]
    <3>1. CASE ClaimBuffered BY <1>0, <3>1, ClaimOrd DEF ClaimBuffered
    <3>2. CASE ~ClaimBuffered
      <4>1. buffer' = buffer
        BY <1>3, <3>2 DEF TurnStep, Begin, Load, StampDeadline, Resolved, Missing, LookInBuffer,
           KeepBuffered, Retract, CheckDeadline, Expire, Register, Suspend, Return, store
      <4> QED BY <4>1 DEF Rows
    <3> QED BY <3>1, <3>2
  <2>4. CASE \A i \in Rows : hand[k] < buffer[i] BY <2>1, <2>3, <2>4
  <2>5. CASE cp[found[k]] # None BY <1>0, <2>1, <2>2, <2>5
  <2>6. CASE waiter = None /\ at = found[k] /\ WillKeep
    <3>1. CASE KeepBuffered
      <4>1. cp'[at] # None BY <1>0, <3>1 DEF KeepBuffered, HoldersOK
      <4> QED BY <2>1, <2>6, <4>1
    <3>2. CASE ~KeepBuffered
      <4>1. WillKeep' /\ UNCHANGED <<at, waiter, cp>> BY <1>3, <2>6, <3>2, TurnKeeps
      <4> QED BY <2>1, <2>6, <4>1
    <3> QED BY <3>1, <3>2
  <2> QED BY <1>0, <1>3, <2>4, <2>5, <2>6 DEF DeliverInv
<1>4. ASSUME NEW m \in Msgs, Signal(m) \/ CallStep(m), UNCHANGED <<turn, told>> PROVE Goal
  <2>1. CASE call[k] = "deliver"
    <3>1. m = k BY <1>4, <2>1, OnlyOneMoves
    <3>2. Deliver(k)
      BY <1>4, <2>1, <3>1 DEF CallStep, Signal, Take, BufferSignal, LookAgain, TakeLate, ReadOldest,
         Reclaim, Wake
    <3> QED BY <1>0, <3>2 DEF Deliver
  <2>2. CASE call[k] # "deliver"
    <3>1. m = k /\ (Take(k) \/ Reclaim(k))
      BY <1>0, <1>4, <2>2 DEF CallStep, Signal, Take, BufferSignal, AfterBuffering, LookAgain, TakeLate,
         ReadOldest, Reclaim, Deliver, Wake
    <3> QED BY <1>1, <1>2, <1>4, <3>1
  <2> QED BY <2>1, <2>2
<1>5. CASE UNCHANGED <<waiter, buffer, cp, turn, caller, told>>
  <2>1. call[k] = "deliver" BY <1>5 DEF caller
  <2> QED BY <1>0, <1>5, <2>1 DEF DeliverInv, turn, caller, Rows, WillKeep, StillThere, Oldest
<1>6. ASSUME TurnStep, UNCHANGED caller PROVE call[k] = "deliver" BY <1>6 DEF caller
<1> QED BY <1>3, <1>4, <1>5, <1>6, OrdMoves

\* A stale waiter, or one to be served, stays that until it is taken.
LEMMA PairOrdStep == ASSUME OrdStep PROVE PairOrd'
<1>0. /\ TypeOK /\ Apart /\ HoldersOK /\ Sorted /\ PairOrd
      /\ cp \in [Seqs -> Msgs \union {None}] /\ buffer \in Seq(Msgs) /\ at \in Seqs
      /\ row \in Msgs \union {None} /\ found \in [Msgs -> Seqs \union {None}]
      /\ head \in [Msgs -> Msgs \union {None}] /\ hand \in [Msgs -> Msgs \union {None}]
      /\ call \in [Msgs -> CallStates] /\ waiter \in Seqs \union {None}
      /\ \A s \in Seqs : cp[s] # None => cp'[s] # None
      /\ \A k \in Msgs : call[k] = "deliver" => found[k] \in Seqs
  BY OrdWrites DEF OrdStep, Ord, IndInv, TypeOK
<1> SUFFICES ASSUME waiter' # None, buffer' # <<>>
             PROVE  \/ cp'[waiter'] # None
                    \/ \E k \in Msgs : call'[k] \in {"relook", "retake"}
                    \/ \E k \in Msgs : call'[k] = "deliver" /\ (found'[k] = waiter' \/ cp'[found'[k]] # None)
                    \/ waiter' = at' /\ WillKeep'
  BY DEF PairOrd
<1> DEFINE Goal == \/ cp'[waiter'] # None
                   \/ \E k \in Msgs : call'[k] \in {"relook", "retake"}
                   \/ \E k \in Msgs : call'[k] = "deliver" /\ (found'[k] = waiter' \/ cp'[found'[k]] # None)
                   \/ waiter' = at' /\ WillKeep'
<1>1. CASE TurnStep /\ UNCHANGED caller
  <2>1. CASE Register BY <2>1 DEF Register, AfterRegistering, WillKeep
  <2>2. CASE ~Register
    <3>1. waiter' = waiter /\ waiter \in Seqs
      <4>1. waiter' \in {waiter, None}
        BY <1>1, <2>2 DEF TurnStep, Begin, Load, StampDeadline, Resolved, Missing, LookInBuffer,
           ClaimBuffered, KeepBuffered, Retract, CheckDeadline, Expire, Suspend, Return, store, WithoutOwn
      <4> QED BY <1>0, <4>1
    <3>2. buffer # <<>>
      <4>1. CASE ClaimBuffered
        BY <4>1 DEF ClaimBuffered, Remaining, StillThere, Oldest
      <4>2. CASE ~ClaimBuffered
        BY <1>1, <4>2 DEF TurnStep, Begin, Load, StampDeadline, Resolved, Missing, LookInBuffer,
           KeepBuffered, Retract, CheckDeadline, Expire, Register, Suspend, Return, store
      <4> QED BY <4>1, <4>2
    <3>3. CASE waiter = at /\ WillKeep
      <4>1. CASE KeepBuffered
        <5>1. cp'[at] # None BY <1>0, <4>1 DEF KeepBuffered, HoldersOK
        <5> QED BY <3>1, <3>3, <5>1
      <4>2. CASE ~KeepBuffered
        <5>1. WillKeep' /\ UNCHANGED <<at, waiter, cp>> BY <1>1, <3>3, <4>2, TurnKeeps
        <5> QED BY <3>1, <3>3, <5>1
      <4> QED BY <4>1, <4>2
    <3>4. UNCHANGED <<call, found>> BY <1>1 DEF caller
    <3>5. CASE cp[waiter] # None BY <1>0, <3>1, <3>5
    <3>6. CASE \E k \in Msgs : call[k] \in {"relook", "retake"} BY <3>4, <3>6
    <3>7. ASSUME NEW k \in Msgs, call[k] = "deliver", found[k] = waiter \/ cp[found[k]] # None
          PROVE  Goal
      BY <1>0, <3>1, <3>4, <3>7
    <3> QED BY <1>0, <3>1, <3>2, <3>3, <3>5, <3>6, <3>7 DEF PairOrd
  <2> QED BY <2>1, <2>2
<1>2. ASSUME NEW m \in Msgs, Signal(m) \/ CallStep(m), UNCHANGED <<turn, told>> PROVE Goal
  <2>1. CASE BufferSignal(m)
    <3>1. call'[m] = "relook" BY <1>0, <2>1 DEF BufferSignal, AfterBuffering
    <3> QED BY <3>1
  <2>2. CASE LookAgain(m)
    <3>1. call'[m] = "retake" BY <1>0, <2>2 DEF LookAgain, store
    <3> QED BY <3>1
  <2>3. ASSUME ~BufferSignal(m), ~LookAgain(m) PROVE Goal
    <3>1. waiter' = waiter /\ waiter \in Seqs /\ at' = at /\ ~Take(m) /\ ~TakeLate(m)
      BY <1>0, <1>2, <2>3 DEF CallStep, Signal, Take, TakeLate, ReadOldest, Reclaim, Deliver, Wake,
         store, turn
    <3>2. buffer # <<>>
      BY <1>2, <2>3, <3>1 DEF CallStep, Signal, ReadOldest, Reclaim, Deliver, Wake, store, Remaining,
         StillThere, Oldest
    <3>3. CASE cp[waiter] # None BY <1>0, <3>1, <3>3
    <3>4. ASSUME NEW k \in Msgs, call[k] \in {"relook", "retake"} PROVE Goal
      <4>1. m = k BY <1>2, <3>4, OnlyOneMoves
      <4> QED
        BY <1>2, <2>3, <3>1, <3>4, <4>1 DEF CallStep, Signal, ReadOldest, Reclaim, Deliver, Wake
    <3>5. ASSUME NEW k \in Msgs, call[k] = "deliver", found[k] = waiter \/ cp[found[k]] # None
          PROVE  Goal
      <4>1. m = k BY <1>2, <3>5, OnlyOneMoves
      <4>2. Deliver(k)
        BY <1>2, <2>3, <3>1, <3>5, <4>1 DEF CallStep, Signal, ReadOldest, Reclaim, Wake
      <4>3. cp[found[k]] = None BY <4>2, OrdWrites
      <4>4. cp'[waiter] # None BY <1>0, <3>1, <3>5, <4>2, <4>3 DEF Deliver, TypeOK
      <4> QED BY <3>1, <4>4
    <3>6. CASE waiter = at /\ WillKeep
      <4>1. CASE buffer' = buffer
        <5>1. WillKeep' BY <1>2, <3>6, <4>1, CallKeeps
        <5> QED BY <3>1, <3>6, <5>1
      <4>2. CASE buffer' # buffer
        <5>1. Reclaim(m) /\ Won(head[m])
          BY <1>2, <2>3, <3>1, <4>2 DEF CallStep, Signal, ReadOldest, Reclaim, Deliver, Wake, store,
             Remaining, Won
        <5>2. call[m] = "claim" /\ call'[m] = "deliver" /\ found' = found /\ found[m] \in Seqs
              /\ cp' = cp
          BY <1>0, <5>1 DEF Reclaim, Reclaimed, HoldersOK
        <5>3. pc \in {"look", "claim", "keep"} BY <3>6 DEF WillKeep
        <5>4. found[m] = at \/ cp[found[m]] # None BY <5>2, <5>3, HolderAtWait DEF Holding
        <5> QED BY <3>1, <3>6, <5>2, <5>4
      <4> QED BY <4>1, <4>2
    <3> QED BY <1>0, <3>1, <3>2, <3>3, <3>4, <3>5, <3>6 DEF PairOrd
  <2> QED BY <2>1, <2>2, <2>3
<1>3. CASE UNCHANGED <<waiter, buffer, cp, turn, caller, told>>
  BY <1>0, <1>3 DEF PairOrd, turn, caller, WillKeep, StillThere, Oldest
<1> QED BY <1>1, <1>2, <1>3, OrdMoves

\* An orderly run begins alone and in order.
LEMMA OrdStart == ASSUME Init, Orderly PROVE Alone /\ (NoneVanished => Ord)
<1> USE Numbers DEF Init, Unresolved
<1>0. left.turn = 0 /\ left.call = 0
  <2>1. setting \in Setting BY SignalsAssumption
  <2>2. setting.turnCrashes \in Nat /\ setting.callCrashes \in Nat BY <2>1 DEF Setting
  <2> QED BY <2>2 DEF Orderly, Deaths
<1>1. Alone BY <1>0 DEF Alone, SeqCalls, HandStates, NobodyDies, Fresh
<1>2. CpInc /\ Known /\ Ahead /\ SameWaiter /\ HandBeyond /\ TakenBeyond /\ DeliverInv /\ PairOrd
  BY DEF CpInc, Known, Ahead, SameWaiter, HandBeyond, TakenBeyond, DeliverInv, PairOrd
<1>3. Passed BY DEF Passed, Seqs, Holding, None
<1>4. BufBeyond /\ Sorted /\ Later
  <2>1. Rows = {} BY DEF Rows
  <2> QED BY <2>1 DEF BufBeyond, Sorted, Later, Fresh, Msgs, None
<1> QED BY <1>1, <1>2, <1>3, <1>4 DEF Ord

\* The order invariant of an orderly run.
OrderInv == Orderly => Alone /\ (NoneVanished => Ord)

\* What is told in an orderly run is what the journal has, in its order.
LEMMA OrdTells == ASSUME OrderInv PROVE InOrder
  BY DEF OrderInv, InOrder, Ord, Known, CpInc

\* ctx.waitForSignal reads payloads in the order they were sent, when the calls
\* do not overlap, nothing dies, and no payload has been written over another:
\* with any number of calls and waits.  Beyond that the condition is needed:
\* after an overwritten payload a wait has one that is newer than the next has.
THEOREM SignalsAreInOrder == Spec => []InOrder
<1>1. Init => OrderInv BY OrdStart DEF OrderInv
<1>2. IndInv /\ OrderInv /\ [Next]_vars => OrderInv'
  <2> SUFFICES ASSUME IndInv, OrderInv, [Next]_vars, Orderly' PROVE Alone' /\ (NoneVanished' => Ord')
    BY DEF OrderInv
  <2>1. setting' = setting
    BY DEF Next, vars, TurnStep, CallStep, Signal, Take, BufferSignal, LookAgain, TakeLate, ReadOldest,
       Reclaim, Deliver, Wake, CallDies, Begin, Load, StampDeadline, Resolved, Missing, LookInBuffer,
       ClaimBuffered, KeepBuffered, Retract, CheckDeadline, Expire, Register, Suspend, Return, TurnDies,
       DeadlinePasses
  <2>2. Orderly BY <2>1 DEF Orderly, Deaths
  <2>3. Alone' BY <2>2, AloneStep DEF OrderInv
  <2>4. ASSUME NoneVanished' PROVE Ord'
    <3>1. NoneVanished BY <2>4, VanishedBefore
    <3>2. OrdStep BY <2>2, <2>4, <3>1 DEF OrdStep, OrderInv
    <3> QED
      BY <3>2, CpIncStep, KnownStep, PassedStep, AheadStep, SameWaiterStep, HandBeyondStep,
         BufBeyondStep, TakenBeyondStep, SortedStep, LaterStep, DeliverStep, PairOrdStep DEF Ord
  <2> QED BY <2>3, <2>4
<1>3. OrderInv => InOrder BY OrdTells
<1> QED BY <1>1, <1>2, <1>3, SignalsInductive, PTL DEF Spec
=============================================================================
