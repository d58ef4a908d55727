---------------------------- MODULE MCLiveMetrics ----------------------------
(***************************************************************************)
(* Two calls of startMetrics that overlap with one another and close(), or *)
(* three made one after the other; and jobs that fail for a reason of      *)
(* which nothing is left when it is normalised, or for another; in memory, *)
(* in Redis, and with a name that is too long for a label.                 *)
(***************************************************************************)
EXTENDS LiveMetrics

CONSTANTS k1, k2, k3

Overlapping == [wait |-> FALSE, calls |-> {k1, k2}, jobs |-> 1]
InTurn == [wait |-> TRUE, calls |-> {k1, k2, k3}, jobs |-> 2]

MCCalls == {k1, k2, k3}
MCScenarios == {Overlapping, InTurn}
OnlyOverlapping == {Overlapping}

MCStores == {[refuses |-> {}, fails |-> FALSE], [refuses |-> {}, fails |-> TRUE],
             [refuses |-> Jobs, fails |-> FALSE]}

MCSignatureOf == [r \in Reasons |-> CASE r = "blank" -> Null [] OTHER -> r]
=============================================================================
