--------------------------- MODULE MCAlertDelivery ---------------------------
(* Two rules that fire, repeat and resolve. *)
EXTENDS AlertDelivery, TLC

Depth ==
    [id |-> "depth", type |-> "queue_depth", threshold |-> Ratio(3, 1),
     minSample |-> 0, cooldown |-> 0]
Latency ==
    [id |-> "run", type |-> "latency", threshold |-> Ratio(250, 1),
     minSample |-> 0, cooldown |-> 0]

MCRules == <<Depth, Latency>>
MCSamples ==
    <<{[depth |-> 3], [depth |-> 4]}, {[count |-> 0, percentile |-> 0], [count |-> 1, percentile |-> 500]}>>

Interchangeable == Permutations(PassSlots)
=============================================================================
