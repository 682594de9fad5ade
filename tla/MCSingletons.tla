---------------------------- MODULE MCSingletons ----------------------------
(* Small instances of Singletons, and the settings they start in.          *)
EXTENDS Singletons

Mutex == [limit |-> 1, inOrder |-> TRUE, delayed |-> {}, doubles |-> {},
          deadLetters |-> FALSE, naps |-> 1, deaths |-> 0, cancels |-> 0, requeues |-> 0]

Crashed   == [Mutex EXCEPT !.limit = 2, !.deaths = 1]
Raced     == [Mutex EXCEPT !.doubles = {2}]
Requeued  == [Mutex EXCEPT !.inOrder = FALSE, !.naps = 0, !.requeues = 1]
Cancelled == [Mutex EXCEPT !.delayed = {2}, !.naps = 0, !.cancels = 1]
TwoSlots  == [Mutex EXCEPT !.limit = 2, !.inOrder = FALSE, !.deadLetters = TRUE, !.deaths = 1]

AllSettings == {Crashed, Raced, Requeued, Cancelled, TwoSlots}
=============================================================================
