----------------------------- MODULE MCSignals ------------------------------
(* Small instances of Signals, and the settings they start in.             *)
EXTENDS Signals

OneByOne  == [atOnce |-> 1, timed |-> {}, reconcile |-> FALSE,
              turnCrashes |-> 0, callCrashes |-> 0]
TwoAtOnce == [OneByOne EXCEPT !.atOnce = 2]

InTurn == {OneByOne}
AllSettings ==
    { OneByOne,
      [OneByOne EXCEPT !.turnCrashes = 1, !.callCrashes = 1, !.reconcile = TRUE],
      TwoAtOnce,
      [OneByOne EXCEPT !.timed = {1}, !.reconcile = TRUE] }
=============================================================================
