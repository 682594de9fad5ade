---------------------------- MODULE MCRemoteSteps ----------------------------
(* Small instances of RemoteSteps.                                           *)
EXTENDS RemoteSteps, TLC

CONSTANTS s1, s2

Calm == [d \in Disturbances |-> 0]
Only(d, n) == [Calm EXCEPT ![d] = n]
Once       == {Only(d, 1) : d \in Disturbances \ {"late"}}
AllFaults  == Once \union {Calm, Only("crashes", 2)}

Plain   == [steps |-> {s1}, retries |-> 1, redispatch |-> FALSE, operator |-> FALSE, woken |-> FALSE]
Retried == [Plain EXCEPT !.retries = 2]
Healing == [Retried EXCEPT !.redispatch = TRUE, !.woken = TRUE]

PassScenarios ==
    ({Plain} \X (AllFaults \ {Calm, Only("crashes", 1)}))
        \union ({Healing} \X {Only("crashes", 1), Only("stalls", 1)})
        \union {<<[Plain EXCEPT !.woken = TRUE], Only("crashes", 1)>>,
                <<[Plain EXCEPT !.operator = TRUE], Calm>>,
                <<[Plain EXCEPT !.steps = {s1, s2}], Calm>>}
RetryScenarios == {<<Retried, Calm>>}
==============================================================================
