---------------------------- MODULE MCRemoteTurns ----------------------------
(* Small instances of RemoteTurns.                                           *)
EXTENDS RemoteTurns

Calm == [window |-> FALSE, reconcile |-> FALSE, left |-> [d \in Disturbances |-> 0]]
With(s, d) == [s EXCEPT !.left[d] = 1]
Windowed == [Calm EXCEPT !.window = TRUE]
Covered  == [Windowed EXCEPT !.reconcile = TRUE]

AllSettings == {With(Calm, d) : d \in {"dups", "cancels", "errors"}}
                 \union {With(Windowed, d) : d \in {"losses", "lates", "beats"}}
                 \union {With(Covered, "crashes")}
CalmOnly == {Calm}
==============================================================================
