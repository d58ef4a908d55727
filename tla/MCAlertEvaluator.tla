-------------------------- MODULE MCAlertEvaluator --------------------------
(***************************************************************************)
(* Three rules, one of each type: the deliveries of one hold up the reading*)
(* of the next.  Each has samples on both sides of its threshold, and the  *)
(* failure rate one that is high but too small.                            *)
(***************************************************************************)
EXTENDS AlertEvaluator

FailureRate ==
    [id |-> "fr", type |-> "failure_rate", threshold |-> Ratio(1, 2),
     minSample |-> 2, cooldown |-> 2]

Depth ==
    [id |-> "depth", type |-> "queue_depth", threshold |-> Ratio(3, 1),
     minSample |-> 0, cooldown |-> 3]

Latency ==
    [id |-> "run", type |-> "latency", threshold |-> Ratio(250, 1),
     minSample |-> 0, cooldown |-> 0]

FailureSamples ==
    {[completed |-> 1, failed |-> 2],     \* breached
     [completed |-> 2, failed |-> 2],     \* on the threshold
     [completed |-> 0, failed |-> 1],     \* all failed, sample too small
     [completed |-> 0, failed |-> 0]}     \* empty window

DepthSamples == {[depth |-> 3], [depth |-> 4]}

\* Of a window without a job, and above the threshold.
LatencySamples ==
    {[count |-> 0, percentile |-> 0], [count |-> 1, percentile |-> 500]}

MCRules == <<FailureRate, Depth, Latency>>
MCSamples == <<FailureSamples, DepthSamples, LatencySamples>>
=============================================================================
