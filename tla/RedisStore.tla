------------------------------ MODULE RedisStore ------------------------------
(***************************************************************************)
(* packages/core/src/storage/redis-store.ts: the metrics store that several*)
(* replicas of the dashboard share in one Redis.                           *)
(*                                                                         *)
(* A write sends one pipeline, which is no transaction: Redis executes its *)
(* commands one at a time, and commands of other connections may come in   *)
(* between.  A query reads an index, then the timestamps of a series, then *)
(* its buckets one by one.                                                 *)
(*                                                                         *)
(* Time is coarse: a pipeline is executed within one unit of it, a query   *)
(* and the time until an event is written may take many.                   *)
(***************************************************************************)
EXTENDS MetricEvents, SequencesExt

CONSTANTS
    Replicas,           \* dashboards, each with collectors of its own
    width,              \* bucketSeconds
    retention,          \* retentionMs
    Scenarios           \* bounds of the model, see `scenario`

HISTOGRAM_METRICS == {"wait_ms", "run_ms"}

ASSUME RedisStoreAssumption ==
    /\ {width, retention} \subseteq Nat \ {0} /\ IsFiniteSet(Replicas)
    /\ \A s \in Scenarios : /\ s.windows \subseteq Nat \X Nat
                            /\ s.mayDie \in BOOLEAN
                            /\ {s.events, s.horizon} \subseteq Nat
                            /\ \A type \in s.types :
                                  /\ type.kind \in {"added", "completed", "failed"}
                                  /\ type.spans \subseteq HISTOGRAM_METRICS

VARIABLES
    scenario,           \* the queue events that may happen, without their time,
                        \* and how many; the windows [from, to) asked for;
                        \* whether a replica may die; the last time
    clock,
    happened,           \* the events of the queue, in order
    status,             \* status[w][i]: what became of event i at replica w
    pipes,              \* pipes[w]: the commands w sent that Redis has not executed
    index,              \* {kp}:idx:..., metric -> [members: series, exp]
    zsets,              \* {kp}:ts:..., series -> [members: timestamps, exp]
    buckets,            \* {kp}:b:..., <<series, ts>> -> [n, total, exp]
    query

redis == <<index, zsets, buckets>>
vars == <<scenario, clock, happened, status, pipes, redis, query>>

NoTTL == 0              \* the expiry of a key that has none
Idle == [pc |-> "idle"]

EventTypes == scenario.types
Windows == scenario.windows
MaxClock == scenario.horizon

Init ==
    /\ scenario \in Scenarios
    /\ clock = 0
    /\ happened = <<>>
    /\ status = [w \in Replicas |-> <<>>]
    /\ pipes = [w \in Replicas |-> <<>>]
    /\ index = <<>> /\ zsets = <<>> /\ buckets = <<>>
    /\ query = Idle

-----------------------------------------------------------------------------
\* What the commands do.  A missing key is created without an expiry.

At(map, name, fresh) == IF name \in DOMAIN map THEN map[name] ELSE fresh
With(map, name, value) ==
    [n \in DOMAIN map \cup {name} |-> IF n = name THEN value ELSE map[n]]

AddMember(map, name, member) ==
    LET old == At(map, name, [members |-> {}, exp |-> NoTTL])
    IN  With(map, name, [old EXCEPT !.members = @ \cup {member}])

\* Mutant: the value is set, not added to.
IncrBy_Set(name, field) ==
    LET old == At(buckets, name, [n |-> 0, total |-> 0, exp |-> NoTTL])
    IN  With(buckets, name, [old EXCEPT ![field] = 1])

IncrBy(name, field) ==
    LET old == At(buckets, name, [n |-> 0, total |-> 0, exp |-> NoTTL])
    IN  With(buckets, name, [old EXCEPT ![field] = @ + 1])

PExpire(map, name) ==
    IF name \in DOMAIN map THEN [map EXCEPT ![name].exp = clock + retention] ELSE map

\* Mutant: everything up to the record goes, the retention is not subtracted.
ZRemRangeByScore_NoRetention(map, name, upTo) ==
    [map EXCEPT ![name].members = {ts \in @ : ts > upTo + retention}]

ZRemRangeByScore(map, name, upTo) ==
    [map EXCEPT ![name].members = {ts \in @ : ts > upTo}]

Effect(op, key, ts) ==
    \/ /\ op = "sadd_idx"
       /\ index' = AddMember(index, key.metric, key)
       /\ UNCHANGED <<zsets, buckets>>
    \/ /\ op = "pexpire_idx"
       /\ index' = PExpire(index, key.metric)
       /\ UNCHANGED <<zsets, buckets>>
    \/ /\ op = "zadd_ts"
       /\ zsets' = AddMember(zsets, key, ts)
       /\ UNCHANGED <<index, buckets>>
    \/ /\ op = "zremrangebyscore_ts"
       /\ zsets' = ZRemRangeByScore(zsets, key, ts - retention)
       /\ UNCHANGED <<index, buckets>>
    \/ /\ op = "pexpire_ts"
       /\ zsets' = PExpire(zsets, key)
       /\ UNCHANGED <<index, buckets>>
    \/ /\ op \in {"incrby", "hincrby_b"}
       /\ buckets' = IncrBy(<<key, ts>>, "n")
       /\ UNCHANGED <<index, zsets>>
    \/ /\ op = "hincrby_total"
       /\ buckets' = IncrBy(<<key, ts>>, "total")
       /\ UNCHANGED <<index, zsets>>
    \/ /\ op = "pexpire_bucket"
       /\ buckets' = PExpire(buckets, <<key, ts>>)
       /\ UNCHANGED <<index, zsets>>

-----------------------------------------------------------------------------
\* Mutant: the total of a histogram is counted before its bucket.
Increments_TotalFirst(metric) ==
    IF metric \in HISTOGRAM_METRICS THEN <<"hincrby_total", "hincrby_b">> ELSE <<"incrby">>

\* The sum, which no property reads, is left out.
Increments(metric) ==
    IF metric \in HISTOGRAM_METRICS THEN <<"hincrby_b", "hincrby_total">> ELSE <<"incrby">>

\* Mutant: the bucket gets no expiry.
Commands_BucketStays(metric) ==
    <<"sadd_idx", "pexpire_idx", "zadd_ts", "zremrangebyscore_ts", "pexpire_ts">>
      \o Increments(metric)

Commands(metric) ==
    <<"sadd_idx", "pexpire_idx", "zadd_ts", "zremrangebyscore_ts", "pexpire_ts">>
      \o Increments(metric) \o <<"pexpire_bucket">>

Pipeline(records) ==
    LET Of(record) == [i \in DOMAIN Commands(record.key.metric) |->
                         [op |-> Commands(record.key.metric)[i],
                          key |-> record.key, ts |-> record.ts]]
    IN  FlattenSeq([n \in DOMAIN records |-> Of(records[n])])

Sending(w) == {i \in DOMAIN status[w] : status[w][i] = "sent"}

Marked(w, indices, mark) ==
    [status EXCEPT ![w] = [i \in DOMAIN @ |-> IF i \in indices THEN mark ELSE @[i]]]

\* A job finishes: the collectors of every replica hear of it.
Happens(type) ==
    /\ Len(happened) < scenario.events
    /\ happened' = Append(happened, [kind |-> type.kind, jobName |-> type.jobName,
                                     errorSignature |-> type.errorSignature,
                                     spans |-> type.spans, at |-> clock])
    /\ status' = [w \in Replicas |-> Append(status[w], "heard")]
    /\ UNCHANGED <<clock, pipes, redis, query>>

\* A replica writes the event.  Pipelines of one connection are executed in turn,
\* so one is under way at a time.
write(w, i) ==
    /\ status[w][i] = "heard"
    /\ pipes[w] = <<>>
    /\ pipes' = [pipes EXCEPT ![w] = Pipeline(eventToAggregates(happened[i], width))]
    /\ status' = Marked(w, {i}, "sent")
    /\ UNCHANGED <<clock, happened, redis, query>>

\* Redis executes the next command of a pipeline.
Executes(w) ==
    /\ pipes[w] # <<>>
    /\ LET c == Head(pipes[w]) IN Effect(c.op, c.key, c.ts)
    /\ pipes' = [pipes EXCEPT ![w] = Tail(@)]
    /\ status' = IF Len(pipes[w]) = 1 THEN Marked(w, Sending(w), "settled") ELSE status
    /\ UNCHANGED <<clock, happened, query>>

\* The process is killed, or its connection breaks, when Redis has received a part
\* of the pipeline.
Dies(w) ==
    /\ scenario.mayDie
    /\ pipes[w] # <<>>
    /\ pipes' = [pipes EXCEPT ![w] = <<>>]
    /\ status' = Marked(w, Sending(w), "lost")
    /\ UNCHANGED <<clock, happened, redis, query>>

\* Redis drops a key when the clock has passed its expiry.
Tick ==
    LET Unexpired(map) ==
            RestrictDomain(map, LAMBDA name : \/ map[name].exp = NoTTL
                                              \/ map[name].exp >= clock + 1)
    IN  /\ clock < MaxClock
        /\ \A w \in Replicas : pipes[w] = <<>>
        /\ clock' = clock + 1
        /\ index' = Unexpired(index)
        /\ zsets' = Unexpired(zsets)
        /\ buckets' = Unexpired(buckets)
        /\ UNCHANGED <<happened, status, pipes, query>>

-----------------------------------------------------------------------------
\* The series that EventTypes can touch, and the buckets they can fall into.
AllKeys == UNION {ToSet(EventKeys(type)) : type \in EventTypes}
AllTs == {floorToBucket(t, width) : t \in 0..MaxClock}

\* The writes <<replica, event>> in one of the given states.
Writes(marks) ==
    UNION {{<<w, i>> : i \in {j \in DOMAIN status[w] : status[w][j] \in marks}} :
              w \in Replicas}

\* resolveSeries: the series of a metric that its index lists.
Listed(metric) == IF metric \in DOMAIN index THEN index[metric].members ELSE {}

QueryStarts(asked, targets, window) ==
    query' = [pc |-> "series", asked |-> asked, from |-> window[1], to |-> window[2],
              todo |-> targets, key |-> Null, gets |-> {}, answer |-> <<>>,
              before |-> Writes({"settled"})]

\* A query for all series of a metric, and one that names its series and needs no
\* index.  Queries leave nothing behind, so one, at any time, is every query.
StartQuery ==
    /\ query.pc = "idle"
    /\ \E window \in Windows :
         \/ \E metric \in {key.metric : key \in AllKeys} :
              QueryStarts({key \in AllKeys : key.metric = metric}, Listed(metric), window)
         \/ \E key \in AllKeys : QueryStarts({key}, {key}, window)
    /\ UNCHANGED <<clock, happened, status, pipes, redis>>

InWindow(ts) == query.from <= ts /\ ts < query.to

\* The timestamps of the next series are read; one without any is passed over.
ReadTimestamps ==
    /\ query.pc = "series"
    /\ \E key \in query.todo :
         query' = [query EXCEPT
                     !.pc = "buckets", !.todo = @ \ {key}, !.key = key,
                     !.gets = IF key \in DOMAIN zsets
                              THEN {ts \in zsets[key].members : InWindow(ts)} ELSE {}]
    /\ UNCHANGED <<clock, happened, status, pipes, redis>>

\* The next bucket of the series is read; one that is not there is no point.
ReadBucket ==
    /\ query.pc = "buckets"
    /\ query.gets # {}
    /\ LET ts == Min(query.gets)
           name == <<query.key, ts>>
       IN  query' = [query EXCEPT
                       !.gets = @ \ {ts},
                       !.answer = IF name \in DOMAIN buckets
                                  THEN With(@, name, [n |-> buckets[name].n,
                                                      total |-> buckets[name].total])
                                  ELSE @]
    /\ UNCHANGED <<clock, happened, status, pipes, redis>>

\* On to the next series, or the answer is complete.
SeriesRead ==
    /\ query.pc = "buckets"
    /\ query.gets = {}
    /\ query' = [query EXCEPT !.pc = "series"]
    /\ UNCHANGED <<clock, happened, status, pipes, redis>>

Answers ==
    /\ query.pc = "series"
    /\ query.todo = {}
    /\ query' = [query EXCEPT !.pc = "done"]
    /\ UNCHANGED <<clock, happened, status, pipes, redis>>

StoreNext ==
    \/ \E type \in EventTypes : Happens(type)
    \/ \E w \in Replicas :
          (\E i \in DOMAIN status[w] : write(w, i)) \/ Executes(w) \/ Dies(w)
    \/ StartQuery \/ ReadTimestamps \/ ReadBucket \/ SeriesRead \/ Answers

Next == UNCHANGED scenario /\ (StoreNext \/ Tick)

Spec == Init /\ [][Next]_vars

-----------------------------------------------------------------------------
\* What a bucket should hold: one observation for each of the given writes whose
\* event counts in the series and falls into the bucket.
Observed(writes, key, ts) ==
    Cardinality({wi \in writes : /\ CountsIn(happened[wi[2]], key)
                                  /\ floorToBucket(happened[wi[2]].at, width) = ts})

Stored(key, ts) == IF <<key, ts>> \in DOMAIN buckets THEN buckets[<<key, ts>>].n ELSE 0

AtRest == \A w \in Replicas : pipes[w] = <<>>
WithinRetention(ts) == ts + retention > clock

\* Every entry has its shape, and a write is under way exactly while commands of
\* its pipeline are.
TypeOK ==
    /\ clock \in 0..MaxClock
    /\ \A i \in DOMAIN happened : happened[i].at \in 0..clock
    /\ \A w \in Replicas :
         /\ DOMAIN status[w] = DOMAIN happened
         /\ Cardinality(Sending(w)) = IF pipes[w] = <<>> THEN 0 ELSE 1
    /\ \A m \in DOMAIN index : index[m].members \subseteq {k \in AllKeys : k.metric = m}
    /\ \A key \in DOMAIN zsets : key \in AllKeys /\ zsets[key].members \subseteq AllTs
    /\ DOMAIN buckets \subseteq AllKeys \X AllTs

\* redis-store.ts:73, "replicas converge": when no pipeline is under way, every
\* bucket within retention holds every write that was completed, of whichever
\* replica, and nothing but writes that were begun; and a query can find it, by
\* the index and by its timestamp.
Converges ==
    AtRest =>
      \A key \in AllKeys, ts \in AllTs :
        LET surely == Observed(Writes({"settled"}), key, ts)
        IN  WithinRetention(ts) =>
              /\ surely <= Stored(key, ts)
              /\ Stored(key, ts) <= surely + Observed(Writes({"lost"}), key, ts)
              /\ surely > 0 => /\ key \in Listed(key.metric)
                               /\ key \in DOMAIN zsets /\ ts \in zsets[key].members

\* A query that runs while replicas write answers for every bucket at least what was
\* written before it began, unless that left retention meanwhile, and at most what
\* was sent before it ended.
AnswersInBetween ==
    query.pc = "done" =>
      \A key \in query.asked, ts \in AllTs :
        LET n == IF <<key, ts>> \in DOMAIN query.answer
                 THEN query.answer[<<key, ts>>].n ELSE 0
        IN  query.from <= ts /\ ts < query.to =>
              /\ n <= Observed(Writes({"sent", "settled", "lost"}), key, ts)
              /\ WithinRetention(ts) => Observed(query.before, key, ts) <= n

\* histogram.ts:54-67, percentile: the total that a query may read is never more
\* than the sum of the buckets it reads with it, in the middle of a write either;
\* else the target is never reached and the latency is infinite.
PercentileReachable ==
    \A name \in DOMAIN buckets :
        name[1].metric \in HISTOGRAM_METRICS => buckets[name].total <= buckets[name].n

\* A query may come between any two commands of a write, and what it reads can be used.
ReadsAreSound == AnswersInBetween /\ PercentileReachable

\* redis-store.ts:72, "Every key carries a sliding TTL of retentionMs": so it is, as
\* long as no write is cut short between a key and its pexpire.  And every entry
\* keeps its type.
KeysExpire ==
    LET Expires(map) == \A name \in DOMAIN map :
                          map[name].exp \in (clock .. clock + retention) \ {NoTTL}
    IN  /\ TypeOK
        /\ AtRest /\ Writes({"lost"}) = {} =>
              Expires(index) /\ Expires(zsets) /\ Expires(buckets)

\* redis-store.ts:73-74, "so multiple dashboard replicas converge without
\* double-counting": a bucket never holds more than the events that happened.
CountedOnce ==
    \A key \in AllKeys, ts \in AllTs :
        Stored(key, ts) <= Cardinality({i \in DOMAIN happened :
                              /\ CountsIn(happened[i], key)
                              /\ floorToBucket(happened[i].at, width) = ts})
=============================================================================
