---------------------------- MODULE MCFlowControl ----------------------------
(* Small instances of FlowControl: the settings of a queue.                  *)
EXTENDS FlowControl, TLC

CONSTANTS c1, c2, c3, k1, k2

Plain == [backend |-> "memory", concurrency |-> 1, rate |-> "none", rateLimit |-> 1,
          order |-> "fifo", fairness |-> "fifo",
          priority |-> [c \in Call |-> 0],
          key |-> (c1 :> k1 @@ c2 :> k1 @@ c3 :> k2),
          failures |-> 1, crashes |-> 0, cancels |-> 0, refusals |-> 0,
          doubles |-> 0]
Redis   == [Plain EXCEPT !.backend = "redis", !.crashes = 1, !.cancels = 1]
Doubled(s) == [s EXCEPT !.failures = 0, !.crashes = 0, !.cancels = 1, !.doubles = 1]
Urgent  == (c1 :> 0 @@ c2 :> 0 @@ c3 :> 1)

Orders(s) == {s, [s EXCEPT !.order = "lifo"], [s EXCEPT !.fairness = "key"],
              [s EXCEPT !.priority = Urgent], [s EXCEPT !.concurrency = 2]}
Rates(s)  == {[s EXCEPT !.rate = "fixed", !.concurrency = 0],
              [s EXCEPT !.rate = "sliding", !.concurrency = 0],
              [s EXCEPT !.rate = "sliding", !.rateLimit = 2]}

AllSettings == Orders(Plain) \union Rates(Plain)
                 \union Orders([Redis EXCEPT !.failures = 0, !.crashes = 0])
                 \union {Redis, [Plain EXCEPT !.concurrency = 2, !.failures = 0, !.refusals = 1],
                         [Plain EXCEPT !.concurrency = 0, !.failures = 0, !.cancels = 1]}
                 \union Rates([Redis EXCEPT !.crashes = 0])
                 \union {Doubled(Plain), Doubled(Redis)}
==============================================================================
