---------------------------- MODULE MCRedisStore ----------------------------
(***************************************************************************)
(* Events of one queue whose jobs have no names, so that an event touches  *)
(* few series: additions, and completions that are timed.  Two markers     *)
(* with times before, at and a retention after one another.                *)
(***************************************************************************)
EXTENDS RedisMarkers

Type(kind, signature, spans) ==
    [kind |-> kind, jobName |-> Null, errorSignature |-> signature, spans |-> spans]

Timed == {Type("completed", Null, {"run_ms"})}
Added == {Type("added", Null, {})}
Whole == {<<0, 8>>}

\* One event with a counter and a histogram, written by replicas that may die; two
\* events, into one bucket or two.
Deaths == [types |-> Timed, windows |-> Whole, mayDie |-> TRUE, events |-> 1, horizon |-> 5]
Late   == [types |-> Added, windows |-> Whole, mayDie |-> FALSE, events |-> 2, horizon |-> 4]
Deploys == [types |-> {}, windows |-> {}, mayDie |-> FALSE, events |-> 0, horizon |-> 3]
MCScenarios == {Deaths, Late, Deploys}

\* Two replicas hear of the same event.
OneEvent ==
    {[types |-> Added, windows |-> {}, mayDie |-> FALSE, events |-> 1, horizon |-> 2]}

\* Replicas do the same, and markers are told apart by their times and queues.
Interchangeable == Permutations(Replicas) \cup Permutations(Markers)
=============================================================================
