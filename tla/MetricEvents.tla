---------------------------- MODULE MetricEvents ----------------------------
(***************************************************************************)
(* packages/core/src/domain/events.ts: the aggregate records of one queue  *)
(* event, in the order they are written.                                   *)
(*                                                                         *)
(* A record is the key of its series and the bucket it falls into.  A      *)
(* record's value is one observation, of a counter or of a histogram; what *)
(* the histogram observes is left out.  One queue: its name is in every    *)
(* key.                                                                    *)
(***************************************************************************)
EXTENDS Integers, Sequences

CONSTANT Null                     \* an absent job name or error signature

Key(metric, jobName, errorSignature) ==
    [metric |-> metric, jobName |-> jobName, errorSignature |-> errorSignature]

floorToBucket(at, width) == (at \div width) * width

\* Mutant: the queue-level record is written only for nameless jobs.
PerJobAndQueue_JobOnly(metric, jobName) == <<Key(metric, jobName, Null)>>

\* One record per job name and one for the queue; the two are one key when the
\* job name is not known.
PerJobAndQueue(metric, jobName) ==
    IF jobName = Null THEN <<Key(metric, Null, Null)>>
    ELSE <<Key(metric, jobName, Null), Key(metric, Null, Null)>>

PerSignature(event) ==
    IF event.kind = "failed" /\ event.errorSignature # Null
    THEN <<Key("failed", Null, event.errorSignature)>>
    ELSE <<>>

\* event.spans: which of wait_ms and run_ms could be derived from the job.
Latencies(event) ==
    LET Span(metric) == IF event.kind # "added" /\ metric \in event.spans
                        THEN PerJobAndQueue(metric, event.jobName) ELSE <<>>
    IN  Span("wait_ms") \o Span("run_ms")

EventKeys(event) ==
    PerJobAndQueue(event.kind, event.jobName) \o PerSignature(event) \o Latencies(event)

eventToAggregates(event, width) ==
    LET keys == EventKeys(event)
    IN  [i \in DOMAIN keys |-> [key |-> keys[i], ts |-> floorToBucket(event.at, width)]]

-----------------------------------------------------------------------------
\* What the metrics of a window mean, without a store: an event counts in the
\* series of its kind, for its job name and for the queue; a failure also under
\* its signature; a span that is known, in its histograms.
CountsIn(event, key) ==
    IF key.errorSignature = Null
    THEN /\ key.jobName \in {event.jobName, Null}
         /\ \/ key.metric = event.kind
            \/ event.kind # "added" /\ key.metric \in event.spans
    ELSE /\ <<key.metric, event.kind>> = <<"failed", "failed">>
         /\ key.jobName = Null
         /\ key.errorSignature = event.errorSignature
=============================================================================
