-------------------------- MODULE MetricsCollectors --------------------------
(***************************************************************************)
(* The live metrics pipeline of one process: startMetrics and close of     *)
(* packages/core/src/server/app.ts, and the MetricsCollector they own      *)
(* (packages/core/src/bullmq/metrics-collector.ts), from the events of a   *)
(* queue to the counts written to the metrics store.                       *)
(*                                                                         *)
(* startMetrics awaits twice: the list of queue names, and the connection  *)
(* of each new collector.  It is called at startup, by the embedding       *)
(* program, and by the rescan interval of the standalone server, which     *)
(* does not wait for the previous call.                                    *)
(***************************************************************************)
EXTENDS Integers, FiniteSets, Functions

CONSTANTS
    Queues,             \* queue names
    Explicit,           \* options.queues
    Discover,           \* options.discover
    Calls,              \* calls of startMetrics
    NoCall,             \* collectors has no entry
    Scenarios           \* who calls startMetrics and close(): [wait, calls, jobs]

ASSUME CollectorsAssumption ==
    /\ Explicit \subseteq Queues
    /\ Discover \in BOOLEAN
    /\ NoCall \notin Calls /\ IsFiniteSet(Calls)
    /\ \A s \in Scenarios : s.wait \in BOOLEAN /\ s.calls \subseteq Calls /\ s.jobs \in Nat

\* A collector is created by one call for one queue, and named by the two.
Collector == Calls \X Queues

VARIABLES
    scenario,           \* `wait`: whether the callers let earlier work settle
                        \* before they call, which the code never makes them
                        \* do; bounds of the model: the calls they make, and the
                        \* jobs that finish, per queue
    existing,           \* the queues whose meta key is in Redis
    calls,              \* [Calls -> where the activation of startMetrics is]
    status,             \* [Collector -> the life of that MetricsCollector: its
                        \* two clients are open from "connecting" to "closed"]
    collectors,         \* the Map: [Queues -> the call whose collector is in it]
    inbox,              \* [Collector -> events received, not yet written]
    finished,           \* [Queues -> jobs finished while the Map had the queue]
    counted,            \* [Queues -> what the store counts]
    unwritten,          \* [Queues -> events of which store.write failed]
    closing,            \* where close() is
    toClose             \* the collectors that close() found in the Map

storeVars == <<inbox, finished, counted, unwritten>>
vars == <<scenario, existing, calls, status, collectors, storeVars, closing, toClose>>

Init ==
    /\ scenario \in Scenarios
    /\ existing \in SUBSET Queues
    /\ calls = [k \in Calls |-> "not called"]
    /\ status = [c \in Collector |-> "none"]
    /\ collectors = [q \in Queues |-> NoCall]
    /\ inbox = [c \in Collector |-> 0]
    /\ finished = [q \in Queues |-> 0]
    /\ counted = [q \in Queues |-> 0]
    /\ unwritten = [q \in Queues |-> 0]
    /\ closing = "open"
    /\ toClose = {}

Connecting == {c \in Collector : status[c] = "connecting"}

Underway == \/ \E k \in Calls : calls[k] \in {"listing", "starting"}
            \/ Connecting # {}

-----------------------------------------------------------------------------
QueueAppears(q) ==
    /\ q \notin existing
    /\ existing' = existing \cup {q}
    /\ UNCHANGED <<calls, status, collectors, storeVars, closing, toClose>>

\* startMetrics up to `await registry.listQueueNames()`.
startMetrics(k) ==
    /\ calls[k] = "not called" /\ k \in scenario.calls
    /\ closing = "open"
    /\ scenario.wait => ~Underway
    /\ calls' = [calls EXCEPT ![k] = "listing"]
    /\ UNCHANGED <<existing, status, collectors, storeVars, closing, toClose>>

ListingFails(k) ==
    /\ calls[k] = "listing"
    /\ Discover
    /\ calls' = [calls EXCEPT ![k] = "rejected"]
    /\ UNCHANGED <<existing, status, collectors, storeVars, closing, toClose>>

\* new MetricsCollector and start(), up to its await, for each name.
Create(k, fresh) ==
    status' = [c \in Collector |->
                 IF c[1] = k /\ c[2] \in fresh THEN "connecting" ELSE status[c]]

\* Mutants: no filter on the Map; a call that does not await the collectors it
\* starts; the Map filled before start() is awaited.
Listed_Unfiltered(k) ==
    /\ calls[k] = "listing"
    /\ Create(k, Explicit)
    /\ calls' = [calls EXCEPT ![k] = "starting"]
    /\ UNCHANGED <<existing, collectors, storeVars, closing, toClose>>

Listed_NotAwaited(k) ==
    /\ calls[k] = "listing"
    /\ Create(k, {q \in Explicit : collectors[q] = NoCall})
    /\ calls' = [calls EXCEPT ![k] = "resolved"]
    /\ UNCHANGED <<existing, collectors, storeVars, closing, toClose>>

Listed_MapFirst(k) ==
    /\ calls[k] = "listing"
    /\ LET fresh == {q \in Explicit : collectors[q] = NoCall}
       IN  /\ Create(k, fresh)
           /\ collectors' = [q \in Queues |-> IF q \in fresh THEN k ELSE collectors[q]]
    /\ calls' = [calls EXCEPT ![k] = "starting"]
    /\ UNCHANGED <<existing, storeVars, closing, toClose>>

\* The names are there: a collector is created, and start() called, for every
\* one that is not in the Map.
Listed(k) ==
    /\ calls[k] = "listing"
    /\ LET names == Explicit \cup (IF Discover THEN existing ELSE {})
           fresh == {q \in names : collectors[q] = NoCall}
       IN  /\ Create(k, fresh)
           /\ calls' = [calls EXCEPT ![k] = IF fresh = {} THEN "resolved" ELSE "starting"]
    /\ UNCHANGED <<existing, collectors, storeVars, closing, toClose>>

\* waitUntilReady resolves: start() returns, and the Map gets the collector.
Ready(k, q) ==
    /\ status[<<k, q>>] = "connecting"
    /\ status' = [status EXCEPT ![<<k, q>>] = "live"]
    /\ collectors' = [collectors EXCEPT ![q] = k]
    /\ calls' = [calls EXCEPT ![k] =
                   IF @ = "starting" /\ \A r \in Queues \ {q} : status[<<k, r>>] # "connecting"
                   THEN "resolved" ELSE @]
    /\ UNCHANGED <<existing, storeVars, closing, toClose>>

\* waitUntilReady rejects: Promise.all rejects at once, and leaves the call's
\* other collectors to connect.  The one that failed is neither closed nor put
\* into the Map: nobody holds it, and its QueueEvents and its Queue stay as the
\* constructor opened them.  It hears of no event, because the reader of a
\* QueueEvents waits for the connection that has just been refused.
StartFails(k, q) ==
    /\ status[<<k, q>>] = "connecting"
    /\ status' = [status EXCEPT ![<<k, q>>] = "failed"]
    /\ calls' = [calls EXCEPT ![k] = "rejected"]
    /\ UNCHANGED <<existing, collectors, storeVars, closing, toClose>>

\* A job finishes: every collector subscribed to the queue gets the event.
JobFinishes(q) ==
    /\ finished[q] < scenario.jobs
    /\ \E k \in Calls : status[<<k, q>>] = "live"
    /\ inbox' = [c \in Collector |->
                   IF c[2] = q /\ status[c] = "live" THEN inbox[c] + 1 ELSE inbox[c]]
    /\ finished' = [finished EXCEPT ![q] = @ + 1]
    /\ UNCHANGED <<existing, calls, status, collectors, counted, unwritten, closing, toClose>>

\* onFinished comes back from getJob, whose failure it catches, and writes, even
\* if the collector was closed meanwhile.  The write may fail, as EventIngestion
\* tells; nobody awaits the handler, and the event is not written again.
onFinished(k, q) ==
    /\ inbox[<<k, q>>] > 0
    /\ inbox' = [inbox EXCEPT ![<<k, q>>] = @ - 1]
    /\ \/ counted' = [counted EXCEPT ![q] = @ + 1] /\ UNCHANGED unwritten
       \/ unwritten' = [unwritten EXCEPT ![q] = @ + 1] /\ UNCHANGED counted
    /\ UNCHANGED <<existing, calls, status, collectors, finished, closing, toClose>>

\* close(): first the evaluator's close is awaited.
close ==
    /\ closing = "open"
    /\ scenario.wait => ~Underway
    /\ closing' = "closing evaluator"
    /\ UNCHANGED <<existing, calls, status, collectors, storeVars, toClose>>

CloseCollectors ==
    /\ closing = "closing evaluator"
    /\ closing' = "closing collectors"
    /\ toClose' = {c \in Collector : collectors[c[2]] = c[1]}
    /\ UNCHANGED <<existing, calls, status, collectors, storeVars>>

CollectorCloses(c) ==
    /\ closing = "closing collectors"
    /\ c \in toClose /\ status[c] = "live"
    /\ status' = [status EXCEPT ![c] = "closed"]
    /\ UNCHANGED <<existing, calls, collectors, storeVars, closing, toClose>>

\* Mutant: the collectors' close() is not awaited.
ClearCollectors_NotAwaited ==
    /\ closing = "closing collectors"
    /\ closing' = "closed"
    /\ collectors' = [q \in Queues |-> NoCall]
    /\ UNCHANGED <<existing, calls, status, storeVars, toClose>>

ClearCollectors ==
    /\ closing = "closing collectors"
    /\ \A c \in toClose : status[c] = "closed"
    /\ closing' = "closed"
    /\ collectors' = [q \in Queues |-> NoCall]
    /\ UNCHANGED <<existing, calls, status, storeVars, toClose>>

Next ==
    /\ UNCHANGED scenario
    /\ \/ \E q \in Queues : QueueAppears(q) \/ JobFinishes(q)
       \/ \E k \in Calls : startMetrics(k) \/ ListingFails(k) \/ Listed(k)
       \/ \E k \in Calls, q \in Queues :
             Ready(k, q) \/ StartFails(k, q) \/ onFinished(k, q)
       \/ close \/ CloseCollectors \/ ClearCollectors
       \/ \E c \in Collector : CollectorCloses(c)

Spec == Init /\ [][Next]_vars

-----------------------------------------------------------------------------
\* app.ts:74 "Start (idempotently) a metrics collector for every known queue",
\* and cli.ts:18-20 "re-running it periodically picks up queues created after
\* startup without duplicating collectors": however often and whenever
\* startMetrics is called, a queue's events have one reader.
OneCollectorPerQueue ==
    \A c, d \in Collector :
        /\ status[c] \in {"connecting", "live"}
        /\ status[d] \in {"connecting", "live"}
        /\ c[2] = d[2]
        => c = d

\* Where calls are made in turn, a job that finishes while its queue has a
\* collector is handed to the store once, or is on its way there: not twice, and
\* not lost by a close() in between, whichever starts failed before.  What the
\* store is handed it counts, unless that one write fails.
EachFinishCountedOnce ==
    scenario.wait =>
        \A q \in Queues :
            counted[q] + unwritten[q] + SumFunctionOnSet(inbox, Calls \X {q}) = finished[q]

\* Every variable keeps its type.
TypeOK ==
    /\ existing \subseteq Queues
    /\ calls \in [Calls -> {"not called", "listing", "starting", "resolved", "rejected"}]
    /\ status \in [Collector -> {"none", "connecting", "live", "failed", "closed"}]
    /\ collectors \in [Queues -> Calls \cup {NoCall}]
    /\ inbox \in [Collector -> Nat]
    /\ finished \in [Queues -> 0..scenario.jobs]
    /\ counted \in [Queues -> Nat]
    /\ unwritten \in [Queues -> Nat]
    /\ closing \in {"open", "closing evaluator", "closing collectors", "closed"}
    /\ toClose \subseteq Collector

\* The Map holds only collectors that came up, whatever starts failed around
\* them: a queue whose start failed stays absent, so that the next call of
\* startMetrics tries it again.
MapHoldsStartedCollectors ==
    /\ TypeOK
    /\ \A q \in Queues :
          collectors[q] # NoCall =>
              \/ status[<<collectors[q], q>>] = "live"
              \/ /\ closing = "closing collectors"
                 /\ status[<<collectors[q], q>>] = "closed"

\* A call of startMetrics that resolved has left every configured queue with a
\* collector that is live, also when it overlapped with other calls or when
\* an earlier call was rejected.
ResolvedMeansCollecting ==
    closing = "open" =>
        \A k \in Calls : calls[k] = "resolved" =>
            \A q \in Explicit :
                \E j \in Calls : collectors[q] = j /\ status[<<j, q>>] = "live"

\* A failing start, an overlapping call and close() leave no queue that was promised
\* without a collector, and none in the Map that is not up.
CollectorsAreUp == MapHoldsStartedCollectors /\ ResolvedMeansCollecting

\* The collectors whose clients are open.
Connected == {c \in Collector : status[c] \in {"connecting", "live", "failed"}}

(***************************************************************************)
(* What is still connected when close() returns.  Whatever comes up        *)
(* meanwhile, close() has closed all that it found in the Map.  Where      *)
(* calls are made in turn, that is all that ever came up: what is left     *)
(* connected are the collectors whose start failed, which nobody closes.   *)
(* A call that overlaps with close() may leave others connected.           *)
(***************************************************************************)
CloseEndsCollectors ==
    closing = "closed" =>
        /\ toClose \cap Connected = {}
        /\ scenario.wait => \A c \in Connected : status[c] = "failed"

\* Whichever starts and writes fail: in turn each finish reaches the store once, and
\* close() ends the collectors that it has found, in turn all that ever came up.
CountsAndCloses == EachFinishCountedOnce /\ CloseEndsCollectors
=============================================================================
