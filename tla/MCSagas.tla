------------------------------ MODULE MCSagas ------------------------------
(* Small instances of Sagas: bodies whose steps run in turn, on two        *)
(* instances or on the one that has the workflow, and, for the violation,  *)
(* a body that starts its steps together.                                  *)
EXTENDS Sagas

Calm == [d \in Disturbances |-> 0]

InTurn ==
    [parallel : {FALSE}, dispatched : {TRUE}, ends : {"throws", "waits"}, runners : {Inst}]
    \union [parallel : {FALSE}, dispatched : {FALSE}, ends : {"returns", "throws", "waits"},
            runners : {{CHOOSE i \in Inst : TRUE}}]
Together == {[parallel |-> TRUE, dispatched |-> FALSE, ends |-> "throws",
              runners |-> Inst]}

Crashes  == {[Calm EXCEPT !["crashes"] = 2, !["cancels"] = 1],
             [Calm EXCEPT !["crashes"] = 1, !["undofails"] = 1, !["timeouts"] = 1],
             [Calm EXCEPT !["losses"] = 1, !["dups"] = 1, !["requeues"] = 1],
             [Calm EXCEPT !["requeues"] = 1, !["undofails"] = 1],
             [Calm EXCEPT !["cancels"] = 2, !["timeouts"] = 1]}
OneCrash == {[Calm EXCEPT !["crashes"] = 1]}
=============================================================================
