----------------------------- MODULE StepMailbox -----------------------------
(* What a transport promises the engine about the steps it is handed, each   *)
(* known by its stepId only: a step handed over stays out until an answer is *)
(* there, and an answer stays until somebody has read it.  A second answer   *)
(* to a step whose answer is still there leaves no trace.                    *)
CONSTANT Step

VARIABLES out,      \* steps handed over and not answered
          answer,   \* steps with an answer in the box
          read      \* answers read by a consumer that has them for its own

vars == <<out, answer, read>>

Init == out = {} /\ answer = {} /\ read = {}

Put(s) == out' = out \union {s} /\ UNCHANGED <<answer, read>>

Answer(s) ==
    /\ s \in out
    /\ out' = out \ {s}
    /\ answer' = answer \union {s}
    /\ UNCHANGED read

Read(s) ==
    /\ s \in answer
    /\ read' = read \union {s}
    /\ UNCHANGED <<out, answer>>

\* Readers die or lose what they read: it will be read again.
Forget(S) == S \subseteq read /\ read' = read \ S /\ UNCHANGED <<out, answer>>

\* Only what was read leaves the box.
Ack(S) ==
    /\ S \subseteq read
    /\ answer' = answer \ S
    /\ read' = read \ S
    /\ UNCHANGED out

Next == \/ \E s \in Step : Put(s) \/ Answer(s) \/ Read(s)
        \/ \E S \in SUBSET Step : Forget(S) \/ Ack(S)

Spec == Init /\ [][Next]_vars
==============================================================================
