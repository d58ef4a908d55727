--------------------------- MODULE EventIngestion ---------------------------
(***************************************************************************)
(* The handlers of MetricsCollector (core/src/bullmq/metrics-collector.ts) *)
(* between an event of a queue and the write to the store.                 *)
(*                                                                         *)
(* An event of a finished job carries its id, and the reason of a failure; *)
(* its times and its name are in the hash of the job, which is read when   *)
(* the event has come.  By then the job may be removed, waiting again,     *)
(* running again, or finished a second time.  And the write may fail: the  *)
(* store refuses a name that is no label (storage/labels.ts), and Redis    *)
(* may fail it.  Nobody awaits a handler.  Where an unhandled rejection    *)
(* ends the process, which is what Node does unless it is told otherwise,  *)
(* the collector takes no further step.                                    *)
(***************************************************************************)
EXTENDS Integers, Sequences, SequencesExt, FiniteSets

CONSTANTS
    Jobs,               \* a job stands for its id and its name
    Reasons,            \* what jobs fail with
    SignatureOf,        \* [reason -> its signature, Null where nothing is left of it]
    Null,
    Stores,             \* the stores: [refuses, fails], the names that are no
                        \* labels, and whether a write may fail in Redis
    MaxRuns, MaxClock   \* bounds of the model

ASSUME IngestionAssumption ==
    /\ Null \notin Jobs /\ DOMAIN SignatureOf = Reasons /\ Null \notin Reasons
    /\ {MaxRuns, MaxClock} \subseteq Nat
    /\ \A s \in Stores : s.refuses \subseteq Jobs /\ s.fails \in BOOLEAN

VARIABLES
    store,
    clock,
    hash,               \* [job -> its hash in Redis]
    stream,             \* the events that the reader has still to come to
    reads,              \* the events whose getJob() is on its way to Redis
    replies,            \* and those that it has come back for, with the job
    written,            \* what was written to the store, as MetricEvents
    unheld,             \* observer: the runs whose write failed, and of which
                        \* the store holds nothing, or not all
    runs                \* observer: the runs that have finished

ingestionVars == <<store, clock, hash, stream, reads, replies, written, unheld, runs>>

-----------------------------------------------------------------------------
NoTime == -1
None == [state |-> "none", timestamp |-> NoTime, processedOn |-> NoTime,
         finishedOn |-> NoTime, failedReason |-> Null]
Removed == [None EXCEPT !.state = "removed"]

IngestionInit ==
    /\ store \in Stores /\ clock = 0
    /\ hash = [j \in Jobs |-> None]
    /\ stream = <<>> /\ reads = <<>> /\ replies = <<>> /\ written = <<>> /\ unheld = {}
    /\ runs = <<>>

TimePasses ==
    /\ clock < MaxClock /\ clock' = clock + 1
    /\ UNCHANGED <<hash, stream, reads, replies, written, unheld, runs>>

-----------------------------------------------------------------------------
(***************************************************************************)
(* BullMQ and its workers: each step is one script of Redis.               *)
(***************************************************************************)
InQueue == UNCHANGED <<clock, reads, replies, written, unheld>>

Added(j) ==
    /\ hash[j].state = "none"
    /\ hash' = [hash EXCEPT ![j] = [None EXCEPT !.state = "waiting", !.timestamp = clock]]
    /\ stream' = Append(stream, [kind |-> "added", id |-> j, reason |-> Null, run |-> 0])
    /\ UNCHANGED runs /\ InQueue

Started(j) ==
    /\ hash[j].state = "waiting"
    /\ hash' = [hash EXCEPT ![j].state = "active", ![j].processedOn = clock]
    /\ UNCHANGED <<stream, runs>> /\ InQueue

\* An attempt that is not the last fails: no event of a failed job.
Attempted(j) ==
    /\ hash[j].state = "active"
    /\ hash' = [hash EXCEPT ![j].state = "waiting"]
    /\ UNCHANGED <<stream, runs>> /\ InQueue

\* `keep`: the job is not one that is removed when it finishes.
Finished(j, kind, reason, keep) ==
    /\ hash[j].state = "active" /\ Len(runs) < MaxRuns
    /\ hash' = [hash EXCEPT ![j] = IF keep THEN [@ EXCEPT !.state = kind, !.finishedOn = clock,
                                                          !.failedReason = reason]
                                           ELSE Removed]
    /\ runs' = Append(runs, [id |-> j, kind |-> kind, reason |-> reason, finishedOn |-> clock,
                             waitMs |-> hash[j].processedOn - hash[j].timestamp,
                             runMs |-> clock - hash[j].processedOn])
    /\ stream' = Append(stream, [kind |-> kind, id |-> j, reason |-> reason, run |-> Len(runs')])
    /\ InQueue

\* The retry of a failed job, by hand, forgets its times and its reason.
Retried(j) ==
    /\ hash[j].state = "failed"
    /\ hash' = [hash EXCEPT ![j] = [None EXCEPT !.state = "waiting",
                                                !.timestamp = hash[j].timestamp]]
    /\ UNCHANGED <<stream, runs>> /\ InQueue

RemovedByHand(j) ==
    /\ hash[j].state \in {"waiting", "completed", "failed"}
    /\ hash' = [hash EXCEPT ![j] = Removed]
    /\ UNCHANGED <<stream, runs>> /\ InQueue

-----------------------------------------------------------------------------
(***************************************************************************)
(* The collector.                                                          *)
(***************************************************************************)
InCollector == UNCHANGED <<clock, hash, runs>>

\* deriveTimings without a clock: open-ended spans are not known.  With one
\* clock for all workers no span is negative.
waitMs(job) == IF job.processedOn = NoTime THEN NoTime ELSE job.processedOn - job.timestamp
runMs(job) == IF NoTime \in {job.processedOn, job.finishedOn} THEN NoTime
              ELSE job.finishedOn - job.processedOn

\* Mutants: the time of an event is when it is written, or when its job began.
At_Now(job) == clock
At_Start(job) == IF job.processedOn = NoTime THEN clock ELSE job.processedOn
\* job?.finishedOn ?? this.now()
At(job) == IF job.finishedOn = NoTime THEN clock ELSE job.finishedOn

\* Mutant: the job is asked first.
ReasonOf_JobFirst(event, job) ==
    IF job.failedReason = Null THEN event.reason ELSE job.failedReason
\* failedReason ?? job?.failedReason ?? null
ReasonOf(event, job) == IF event.reason = Null THEN job.failedReason ELSE event.reason

errorSignature(event, job) ==
    LET reason == ReasonOf(event, job)
    IN  IF event.kind = "failed" /\ reason # Null THEN SignatureOf[reason] ELSE Null

\* A hash that is gone, and a read that fails, leave no job.
NameOf(event, job) == IF job.timestamp = NoTime THEN Null ELSE event.id

\* Mutant: a label of any length is written.
Writable_Any(event) == TRUE

\* assertPersistable.  The other labels pass it: a signature is cut to 200
\* characters, and a queue is taken to have a name that is a label.
Writable(event) == event.jobName \notin store.refuses

\* `await store.write(eventToAggregates(event))`.
Write(event) ==
    \/ Writable(event) /\ written' = Append(written, event) /\ UNCHANGED unheld
    \/ /\ ~Writable(event) \/ store.fails
       /\ unheld' = unheld \cup ({event.run} \ {0})
       /\ UNCHANGED written

onAdded(event) ==
    Write([kind |-> "added", jobName |-> event.id, at |-> clock, run |-> 0,
           waitMs |-> NoTime, runMs |-> NoTime, errorSignature |-> Null])

\* The reader comes to the next event.
Received ==
    /\ stream # <<>> /\ stream' = Tail(stream)
    /\ IF Head(stream).kind = "added"
       THEN onAdded(Head(stream)) /\ UNCHANGED reads
       ELSE reads' = Append(reads, Head(stream)) /\ UNCHANGED <<written, unheld>>
    /\ UNCHANGED replies /\ InCollector

\* Redis executes the reads in the order of the connection, or one of them fails.
getJob ==
    /\ reads # <<>> /\ reads' = Tail(reads)
    /\ \E job \in {hash[Head(reads).id], None} :
          replies' = Append(replies, [event |-> Head(reads), job |-> job])
    /\ UNCHANGED <<stream, written, unheld>> /\ InCollector

\* onFinished goes on, and writes.
Writes ==
    /\ replies # <<>> /\ replies' = Tail(replies)
    /\ LET event == Head(replies).event
           job   == Head(replies).job
       IN  Write([kind |-> event.kind, jobName |-> NameOf(event, job), at |-> At(job),
                  run |-> event.run, waitMs |-> waitMs(job), runMs |-> runMs(job),
                  errorSignature |-> errorSignature(event, job)])
    /\ UNCHANGED <<stream, reads>> /\ InCollector

IngestionNext ==
    /\ UNCHANGED store
    /\ \/ TimePasses
       \/ \E j \in Jobs : \/ Added(j) \/ Started(j) \/ Attempted(j) \/ Retried(j)
                          \/ RemovedByHand(j)
                          \/ \E keep \in BOOLEAN :
                                \/ Finished(j, "completed", Null, keep)
                                \/ \E reason \in Reasons : Finished(j, "failed", reason, keep)
       \/ Received \/ getJob \/ Writes

-----------------------------------------------------------------------------
WrittenOf(n) == {i \in DOMAIN written : written[i].run = n}
OnTheWay(n) == {e \in ToSet(stream) \cup ToSet(reads) \cup {r.event : r \in ToSet(replies)} :
                   e.run = n}
RanAgain(n) == \E m \in DOMAIN runs : m > n /\ runs[m].id = runs[n].id

(***************************************************************************)
(* "If a job was already removed, the event still counts"                  *)
(* (metrics-collector.ts:20): whatever has become of its job, and of the   *)
(* read, each finish is on its way, counted, or its write has failed:      *)
(* one of the three, and none twice.  A write fails for no other reason    *)
(* than Redis, or a name that is refused; under such a name no job is      *)
(* counted, only without one.  What is counted is under its own kind, and  *)
(* in no bucket before that of its finish, which a window that starts      *)
(* later must not show.                                                    *)
(***************************************************************************)
CountsEveryFinish ==
    \A n \in DOMAIN runs :
       /\ Cardinality(WrittenOf(n)) + Cardinality(OnTheWay(n)) = IF n \in unheld THEN 0 ELSE 1
       /\ n \in unheld => store.fails \/ runs[n].id \in store.refuses
       /\ \A i \in WrittenOf(n) : /\ written[i].kind = runs[n].kind
                                  /\ written[i].at \in runs[n].finishedOn..clock
                                  /\ written[i].jobName \in {runs[n].id, Null} \ store.refuses

(***************************************************************************)
(* The latencies and the time of an event come from one read of the hash:  *)
(* a duration in a histogram is that of a run that has happened, with the  *)
(* wait before it, in the bucket in which this run ended.  It is the run   *)
(* the event is of, unless the job has run again before it was read.       *)
(***************************************************************************)
LatencyOfItsRun ==
    \A n \in DOMAIN runs : \A i \in WrittenOf(n) :
       written[i].runMs # NoTime =>
          \E m \in DOMAIN runs :
             /\ <<runs[m].id, runs[m].finishedOn>> = <<runs[n].id, written[i].at>>
             /\ <<runs[m].waitMs, runs[m].runMs>> = <<written[i].waitMs, written[i].runMs>>
             /\ RanAgain(n) \/ m = n

(***************************************************************************)
(* A failure is grouped under its own reason, not under that of a later    *)
(* failure of the same job, and a success under none.                      *)
(***************************************************************************)
FailureKeepsItsSignature ==
    \A n \in DOMAIN runs : \A i \in WrittenOf(n) :
       written[i].errorSignature =
          (IF runs[n].kind = "failed" THEN SignatureOf[runs[n].reason] ELSE Null)

\* What onFinished writes of an event is told by the event and by one reading of the
\* hash, however stale, and mixes no two runs.
EventTellsOfOneRun == LatencyOfItsRun /\ FailureKeepsItsSignature
=============================================================================
