----------------------------- MODULE MCRunTurns -----------------------------
(* Small instances of RunTurns, and the disturbances they allow.           *)
EXTENDS RunTurns, TLC

Symmetry == Permutations(Inst) \union Permutations(Reasons) \union Permutations(Tasks)

Calm == [d \in Disturbances |-> 0]

GraceOrFault == {[Calm EXCEPT !["graces"] = 1, !["faults"] = 1]}
TwoOrAlone   == {Calm,
                 [Calm EXCEPT !["alone"] = 1, !["crashes"] = 2, !["blocks"] = 1],
                 [Calm EXCEPT !["alone"] = 1, !["crashes"] = 1, !["cancels"] = 1],
                 [Calm EXCEPT !["alone"] = 1, !["stalls"] = 1]}

\* Constraint: the worker of the second step has not answered, and once the step
\* is out one refused wake at a time is left of the first; once a grace or a fault
\* was used, the step is not even journalled.
SecondStepOut == IF budget = limits
                 THEN \/ res[2].ph = "none"
                      \/ res[2].ph = "sent" /\ \E t \in Tasks : task[t].ph = "none"
                 ELSE cp[2] = "absent"
=============================================================================
