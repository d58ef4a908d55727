----------------------------- MODULE MemoryStore -----------------------------
(***************************************************************************)
(* packages/core/src/storage/memory-store.ts: the in-process metrics store.*)
(* Two Maps, of series and of deploy markers, bounded by evictions that    *)
(* run inside every write.  Node runs a write to its end before anything   *)
(* else, so a write is one step.                                           *)
(*                                                                         *)
(* A Map is a sequence of entries in insertion order, which is the order   *)
(* its iteration, and so the choice of a victim, follows.  The value of a  *)
(* bucket is the number of observations merged into it.                    *)
(***************************************************************************)
EXTENDS MetricEvents, SequencesExt, Filters

CONSTANTS
    Events,             \* the queue events that may be written
    width,              \* bucketSeconds
    retention,          \* retentionMs
    maxSeries,
    maxMarkers,
    MarkerIds,
    MarkerTimes,        \* timestamps operators give their markers
    MaxWrites           \* bound of the model: events and markers written

ASSUME StoreAssumption ==
    /\ \A e \in Events : /\ e.kind \in {"added", "completed", "failed"}
                         /\ e.spans \subseteq {"wait_ms", "run_ms"}
                         /\ e.at \in Nat
    /\ width \in Nat \ {0}
    /\ retention \in Nat
    /\ {maxSeries, maxMarkers} \subseteq Nat \ {0}
    /\ MarkerTimes \subseteq Nat
    /\ MaxWrites \in Nat

VARIABLES
    series,             \* the Map series: entries [key, buckets], buckets: ts -> count
    markers,            \* the Map markers: entries [id, ts]
    written,            \* observer: every event written so far, in order
    recorded            \* bound: markers recorded so far

vars == <<series, markers, written, recorded>>

Init == series = <<>> /\ markers = <<>> /\ written = <<>> /\ recorded = 0

-----------------------------------------------------------------------------
\* max over the set and 0, as the loops that start from `let newest = 0`.
Newest(timestamps) == Max({0} \cup timestamps)

newestOf(entry) == Newest(DOMAIN entry.buckets)

Find(map, key) == SelectInSeq(map, LAMBDA e : e.key = key)   \* 0 when absent

\* Mutant: the victim is the series whose newest bucket is newest.
evictOldestSeries_Newest(map) ==
    LET victim == CHOOSE i \in DOMAIN map :
                    \A j \in DOMAIN map : newestOf(map[i]) >= newestOf(map[j])
    IN  RemoveAt(map, victim)

\* The first series, in insertion order, whose newest bucket is oldest.
evictOldestSeries(map) ==
    LET victim == CHOOSE i \in DOMAIN map :
                    \A j \in DOMAIN map :
                        \/ newestOf(map[i]) < newestOf(map[j])
                        \/ newestOf(map[i]) = newestOf(map[j]) /\ i <= j
    IN  RemoveAt(map, victim)

\* Mutant: the cap is compared after the insertion it should make room for.
MakeRoom_OneTooMany(map) ==
    IF Len(map) > maxSeries THEN evictOldestSeries(map) ELSE map

MakeRoom(map) ==
    IF Len(map) >= maxSeries THEN evictOldestSeries(map) ELSE map

Merge(buckets, ts) ==
    IF ts \in DOMAIN buckets
    THEN [buckets EXCEPT ![ts] = @ + 1]
    ELSE [t \in DOMAIN buckets \cup {ts} |-> IF t = ts THEN 1 ELSE buckets[t]]

\* The body of the loop of write, for one record.
PutRecord(map, record) ==
    LET at == Find(map, record.key)
    IN  IF at = 0
        THEN Append(MakeRoom(map), [key |-> record.key, buckets |-> [ts \in {record.ts} |-> 1]])
        ELSE [map EXCEPT ![at].buckets = Merge(@, record.ts)]

\* The loop of write over its records.
PutAll(map, records) ==
    LET after[n \in 0..Len(records)] ==
            IF n = 0 THEN map ELSE PutRecord(after[n - 1], records[n])
    IN  after[Len(records)]

newestTs(map) == Newest(UNION {DOMAIN map[i].buckets : i \in DOMAIN map})

\* Mutant: a bucket exactly at the horizon is dropped too.
Unexpired_Strict(ts, cutoff) == ts > cutoff
Unexpired(ts, cutoff) == ts >= cutoff

evictExpired(map) ==
    LET cutoff == newestTs(map) - retention
        Keep(e) == [e EXCEPT !.buckets =
                      RestrictDomain(@, LAMBDA ts : Unexpired(ts, cutoff))]
        kept == [i \in DOMAIN map |-> Keep(map[i])]
    IN  Only(kept, {i \in DOMAIN kept : DOMAIN kept[i].buckets # {}})

write(event) ==
    /\ Len(written) + recorded < MaxWrites
    /\ series' = evictExpired(PutAll(series, eventToAggregates(event, width)))
    /\ written' = Append(written, event)
    /\ UNCHANGED <<markers, recorded>>

-----------------------------------------------------------------------------
SetMarker(map, marker) ==
    LET at == SelectInSeq(map, LAMBDA m : m.id = marker.id)
    IN  IF at = 0 THEN Append(map, marker) ELSE [map EXCEPT ![at] = marker]

\* The stable sort by ts, and the deletion of its head until the cap is met:
\* what stays are the maxMarkers last in the order of (ts, insertion).
CapMarkers(map) ==
    LET Younger(i) == {j \in DOMAIN map : \/ map[j].ts > map[i].ts
                                          \/ map[j].ts = map[i].ts /\ j > i}
    IN  Only(map, {i \in DOMAIN map : Cardinality(Younger(i)) < maxMarkers})

evictMarkers(map) ==
    LET cutoff == Newest({map[i].ts : i \in DOMAIN map}) - retention
    IN  CapMarkers(Only(map, {i \in DOMAIN map : map[i].ts >= cutoff}))

\* createMarker gives every marker a random id: one that is not in the Map.
recordMarker(id, ts) ==
    /\ Len(written) + recorded < MaxWrites
    /\ recorded' = recorded + 1
    /\ \A i \in DOMAIN markers : markers[i].id # id
    /\ markers' = evictMarkers(SetMarker(markers, [id |-> id, ts |-> ts]))
    /\ UNCHANGED <<series, written>>

Next ==
    \/ \E event \in Events : write(event)
    \/ \E id \in MarkerIds, ts \in MarkerTimes : recordMarker(id, ts)

Spec == Init /\ [][Next]_vars

-----------------------------------------------------------------------------
\* Mutant: a bucket counts if all of it lies in the window.
Points_WholeBuckets(key, from, to) ==
    LET at == Find(series, key)
    IN  IF at = 0 THEN 0
        ELSE SumFunctionOnSet(series[at].buckets,
                              {t \in DOMAIN series[at].buckets : from <= t /\ t + width <= to})

\* query: what one series returns for the window [from, to).
Points(key, from, to) ==
    LET at == Find(series, key)
    IN  IF at = 0 THEN 0
        ELSE SumFunctionOnSet(series[at].buckets,
                              {t \in DOMAIN series[at].buckets : from <= t /\ t < to})

Keys == {series[i].key : i \in DOMAIN series}

\* domain/failure-summary.ts over the queue-level "failed" series.
totalFailures(from, to) == Points(Key("failed", Null, Null), from, to)

classifiedFailures(from, to) ==
    LET classified == {k \in Keys : /\ k.metric = "failed" /\ k.jobName = Null
                                    /\ k.errorSignature # Null}
    IN  SumFunctionOnSet([k \in classified |-> Points(k, from, to)], classified)

-----------------------------------------------------------------------------
BucketOf(event) == floorToBucket(event.at, width)

AllKeys ==
    UNION {ToSet(EventKeys(e))
             \cup {Key(e.kind, e.jobName, Null), Key(e.kind, Null, Null),
                   Key("failed", Null, e.errorSignature)} : e \in Events}

WrittenTs == {BucketOf(written[i]) : i \in DOMAIN written}

\* The series written to so far all fit into the Map: none was evicted for room.
Fit == Cardinality(UNION {ToSet(EventKeys(written[i])) : i \in DOMAIN written}) <= maxSeries

Observed(key, ts) ==
    Cardinality({i \in DOMAIN written : CountsIn(written[i], key)
                                         /\ BucketOf(written[i]) = ts})

Stored(key, ts) ==
    LET at == Find(series, key)
    IN  IF at # 0 /\ ts \in DOMAIN series[at].buckets THEN series[at].buckets[ts] ELSE 0

IsCountMap(buckets) == /\ DOMAIN buckets \subseteq Nat
                       /\ \A ts \in DOMAIN buckets : buckets[ts] \in Nat \ {0}

\* The Maps keep their shape: no key and no marker id twice, no series without
\* a bucket, no bucket without an observation; and their bounds, also in the
\* middle of writing an event that touches more series than there is room for.
TypeOK ==
    /\ \A i \in DOMAIN series : /\ series[i].key \in AllKeys
                               /\ IsCountMap(series[i].buckets)
                               /\ DOMAIN series[i].buckets # {}
    /\ IsInjective([i \in DOMAIN series |-> series[i].key])
    /\ \A i \in DOMAIN markers : markers[i] \in [id : MarkerIds, ts : MarkerTimes]
    /\ IsInjective([i \in DOMAIN markers |-> markers[i].id])
    /\ Len(series) <= maxSeries /\ Len(markers) <= maxMarkers

\* As long as the cap on series is not met, the store answers exactly what was
\* written within the retention of the newest bucket: in whatever order events
\* arrive, late ones included, nothing inside the horizon is lost or counted
\* twice and nothing outside it is kept.  Under the cap a series may lose its
\* past, but never shows more than was written.
ExactWithinRetention ==
    /\ Fit => \A key \in AllKeys, ts \in WrittenTs :
                 Stored(key, ts) =
                   (IF ts >= Newest(WrittenTs) - retention THEN Observed(key, ts) ELSE 0)
    /\ \A i \in DOMAIN series : \A ts \in DOMAIN series[i].buckets :
          /\ series[i].buckets[ts] <= Observed(series[i].key, ts)
          /\ ts >= newestTs(series) - retention

\* failure-summary.ts:36 of classifiedFailures, "Sum over signature-bearing
\* series (may be < total if some were unclassified)": in every window the
\* failures with a signature are among the total, while the series fit.
ClassifiedWithinTotal ==
    Fit => \A from, to \in WrittenTs \cup {Newest(WrittenTs) + 1} :
              classifiedFailures(from, to) <= totalFailures(from, to)

\* evaluator.ts:124: the window of an alert rule ends now and is not aligned
\* with the buckets.  Its failures are those of the window, less at most those
\* of the first bucket that it cuts, and never a failure from before it.  (A
\* window that is shorter than a bucket may so be empty while jobs fail.)
FailedIn(from, to) ==
    Cardinality({i \in DOMAIN written : /\ written[i].kind = "failed"
                                        /\ from <= written[i].at /\ written[i].at < to})
WindowWithinABucket ==
    Fit => \A from, to \in 0..(Newest(WrittenTs) + width) :
              from >= Newest(WrittenTs) - retention =>
                 /\ totalFailures(from, to) >= FailedIn(from + width - 1, to)
                 /\ totalFailures(from, to) <= FailedIn(from, to + width - 1)

\* What an alert rule and the summary of failures are told of a window is sound.
FailuresInWindows == ClassifiedWithinTotal /\ WindowWithinABucket

\* "top-N by recency": a series that a write drops is no more recent than any
\* series the same write leaves as it was.
DropsLeastRecentSeries ==
    [][\A i, j \in DOMAIN series :
         /\ \A n \in DOMAIN series' : series'[n].key # series[i].key
         /\ \E n \in DOMAIN series' : series'[n] = series[j]
         => newestOf(series[i]) <= newestOf(series[j])]_series

\* What a new deploy marker drives out is never more recent than what stays.
DropsOldestMarkers ==
    [][\A i \in DOMAIN markers, n \in DOMAIN markers' :
         (\A m \in DOMAIN markers' : markers'[m].id # markers[i].id)
           => markers[i].ts <= markers'[n].ts]_markers

\* Both evictions take the least recent, so that the horizon of retention never
\* moves back: the newest bucket, and the newest marker, always stay.
DropsLeastRecent == DropsLeastRecentSeries /\ DropsOldestMarkers
=============================================================================
