--------------------------- MODULE RedisStoreProofs ---------------------------
(***************************************************************************)
(* The store of metrics in Redis, and the deploy markers beside it         *)
(* (RedisStore, RedisMarkers), for every set of replicas, bucket width,    *)
(* retention and scenario: however many events happen and however their    *)
(* pipelines, a query, deaths and the clock interleave.                    *)
(*                                                                         *)
(* A pipeline that is half executed has half its effects.  Each invariant  *)
(* of the store is therefore of a state between two commands: what a write *)
(* has done is told by the commands of it that are left (PipesOK, Did).    *)
(* Of the entries it says which have an expiry or are about to get one     *)
(* (ExpiryComes), which of them a query finds (CanBeFound), how many       *)
(* writes a bucket has counted (CountsAdd), and that a total never gets    *)
(* ahead of its buckets (TotalsFollow); of a query, which buckets it has   *)
(* read and which it has still to read (QueryOK).                          *)
(*                                                                         *)
(* FindsWhatWasRecorded, of the markers, is of one state of a search.  It  *)
(* is inductive with what a recording has left behind at each of its       *)
(* commands (InTheSet, HasItsString), and what a search still has to read  *)
(* (OwesOnly, Reads).                                                      *)
(***************************************************************************)
EXTENDS RedisMarkers, DataInduction

-----------------------------------------------------------------------------
\* The pipeline of an event: which commands, and in which order.

Kinds == {"added", "completed", "failed"}

\* An event, or the type of one: what its records are told by.
IsEvent(e) == e.kind \in Kinds /\ e.spans \subseteq HISTOGRAM_METRICS

\* The series that an event with this job name and signature can touch.
SeriesOf(e) == {Key(metric, jobName, signature) :
                  metric \in Kinds \cup HISTOGRAM_METRICS,
                  jobName \in {e.jobName, Null}, signature \in {e.errorSignature, Null}}

\* Two keys of series are the same when their parts are.
LEMMA KeyFields ==
    ASSUME NEW m1, NEW j1, NEW s1, NEW m2, NEW j2, NEW s2
    PROVE  Key(m1, j1, s1) = Key(m2, j2, s2) <=> m1 = m2 /\ j1 = j2 /\ s1 = s2
BY DEF Key

\* An observation is recorded for its job name, if it has one, and for the queue.
LEMMA PerJobAndQueueIs ==
    ASSUME NEW S, NEW metric, NEW jobName, Key(metric, jobName, Null) \in S, Key(metric, Null, Null) \in S
    PROVE  /\ PerJobAndQueue(metric, jobName) \in Seq(S)
           /\ PerJobAndQueue(metric, jobName) # <<>>
           /\ IsInjective(PerJobAndQueue(metric, jobName))
           /\ ToSet(PerJobAndQueue(metric, jobName))
                = {Key(metric, jobName, Null), Key(metric, Null, Null)}
<1> DEFINE a == Key(metric, jobName, Null)
           b == Key(metric, Null, Null)
<1>1. a = b <=> jobName = Null
  BY KeyFields
<1>2. CASE jobName = Null
  <2>1. PerJobAndQueue(metric, jobName) = <<b>>
    BY <1>2 DEF PerJobAndQueue
  <2> HIDE DEF a, b
  <2>2. a = b /\ a \in S
    BY <1>1, <1>2 DEF a, b
  <2>3. <<b>> \in Seq(S) /\ <<b>> # <<>> /\ IsInjective(<<b>>) /\ ToSet(<<b>>) = {a, b}
    BY <2>2 DEF IsInjective, ToSet
  <2> QED
    BY <2>1, <2>3 DEF a, b
<1>3. CASE jobName # Null
  <2>1. PerJobAndQueue(metric, jobName) = <<a, b>>
    BY <1>3 DEF PerJobAndQueue
  <2>2. a # b /\ a \in S /\ b \in S
    BY <1>1, <1>3
  <2> HIDE DEF a, b
  <2>3. <<a, b>> \in Seq(S) /\ <<a, b>> # <<>> /\ IsInjective(<<a, b>>) /\ ToSet(<<a, b>>) = {a, b}
    BY <2>2 DEF IsInjective, ToSet
  <2> QED
    BY <2>1, <2>3 DEF a, b
<1> QED
  BY <1>2, <1>3

\* The records of an event are of different series, and of those it counts in.
LEMMA EventKeysAre ==
    ASSUME NEW e, IsEvent(e)
    PROVE  /\ EventKeys(e) \in Seq(SeriesOf(e)) /\ EventKeys(e) # <<>>
           /\ IsInjective(EventKeys(e))
           /\ \A metric, jobName, signature :
                 Key(metric, jobName, signature) \in ToSet(EventKeys(e))
                    <=> CountsIn(e, Key(metric, jobName, signature))
<1> DEFINE S == SeriesOf(e)
           A == PerJobAndQueue(e.kind, e.jobName)
           B == PerSignature(e)
           Span(metric) == IF e.kind # "added" /\ metric \in e.spans
                           THEN PerJobAndQueue(metric, e.jobName) ELSE <<>>
           W == Span("wait_ms")
           R == Span("run_ms")
           Two(metric) == {Key(metric, e.jobName, Null), Key(metric, Null, Null)}
           Sig == Key("failed", Null, e.errorSignature)
<1>1. \A metric \in Kinds \cup HISTOGRAM_METRICS : Two(metric) \subseteq S
  BY DEF SeriesOf
<1>2. A \in Seq(S) /\ A # <<>> /\ IsInjective(A) /\ ToSet(A) = Two(e.kind)
  <2>1. Two(e.kind) \subseteq S
    BY <1>1 DEF IsEvent
  <2> HIDE DEF S
  <2> QED
    BY <2>1, PerJobAndQueueIs
<1>3. /\ B \in Seq(S) /\ IsInjective(B)
      /\ ToSet(B) = IF e.kind = "failed" /\ e.errorSignature # Null THEN {Sig} ELSE {}
  <2>1. Sig \in S
    BY DEF SeriesOf, Kinds
  <2> HIDE DEF Sig, S
  <2>2. <<Sig>> \in Seq(S) /\ IsInjective(<<Sig>>) /\ ToSet(<<Sig>>) = {Sig}
    BY <2>1 DEF IsInjective, ToSet
  <2>3. <<>> \in Seq(S) /\ IsInjective(<<>>) /\ ToSet(<<>>) = {}
    BY DEF IsInjective, ToSet
  <2>4. B = IF e.kind = "failed" /\ e.errorSignature # Null THEN <<Sig>> ELSE <<>>
    BY DEF PerSignature, Sig
  <2> HIDE DEF B
  <2> QED
    BY <2>2, <2>3, <2>4
<1>4. \A metric \in HISTOGRAM_METRICS :
         /\ Span(metric) \in Seq(S) /\ IsInjective(Span(metric))
         /\ ToSet(Span(metric)) = IF e.kind # "added" /\ metric \in e.spans THEN Two(metric) ELSE {}
  <2> SUFFICES ASSUME NEW metric \in HISTOGRAM_METRICS
               PROVE  /\ Span(metric) \in Seq(S) /\ IsInjective(Span(metric))
                      /\ ToSet(Span(metric)) = IF e.kind # "added" /\ metric \in e.spans
                                               THEN Two(metric) ELSE {}
    OBVIOUS
  <2>1. Two(metric) \subseteq S
    BY <1>1
  <2> HIDE DEF S
  <2>2. <<>> \in Seq(S) /\ IsInjective(<<>>) /\ ToSet(<<>>) = {}
    BY DEF IsInjective, ToSet
  <2>3. LET P == PerJobAndQueue(metric, e.jobName)
        IN  P \in Seq(S) /\ IsInjective(P) /\ ToSet(P) = Two(metric)
    BY <2>1, PerJobAndQueueIs
  <2> QED
    BY <2>2, <2>3
<1>5. "wait_ms" \in HISTOGRAM_METRICS /\ "run_ms" \in HISTOGRAM_METRICS
  BY DEF HISTOGRAM_METRICS
<1>6. EventKeys(e) = A \o B \o (W \o R)
  BY DEF EventKeys, Latencies
<1> DEFINE Wset == IF e.kind # "added" /\ "wait_ms" \in e.spans THEN Two("wait_ms") ELSE {}
           Rset == IF e.kind # "added" /\ "run_ms" \in e.spans THEN Two("run_ms") ELSE {}
           Bset == IF e.kind = "failed" /\ e.errorSignature # Null THEN {Sig} ELSE {}
<1>7. W \in Seq(S) /\ IsInjective(W) /\ ToSet(W) = Wset /\ R \in Seq(S) /\ IsInjective(R) /\ ToSet(R) = Rset
  <2> HIDE DEF Span
  <2> QED
    BY <1>4, <1>5
<1>8. /\ Two(e.kind) \cap Bset = {} /\ Wset \cap Rset = {}
      /\ (Two(e.kind) \cup Bset) \cap (Wset \cup Rset) = {}
  BY KeyFields DEF IsEvent, Kinds
<1> HIDE DEF A, B, W, R, S, Span
<1> HIDE DEF Two, Bset, Wset, Rset, Sig
<1>9. A \o B \in Seq(S) /\ IsInjective(A \o B) /\ ToSet(A \o B) = Two(e.kind) \cup Bset
  <2>1. ToSet(A) = Two(e.kind) /\ ToSet(B) = Bset
    BY <1>2, <1>3 DEF Bset
  <2>2. ToSet(A) \cap ToSet(B) = {}
    BY <1>8, <2>1
  <2>3. A \o B \in Seq(S) /\ IsInjective(A \o B)
    BY <1>2, <1>3, <2>2, DistinctConcat
  <2>4. ToSet(A \o B) = ToSet(A) \cup ToSet(B)
    BY <1>2, <1>3, ElementsOfConcat
  <2> QED
    BY <2>1, <2>3, <2>4
<1>10. W \o R \in Seq(S) /\ IsInjective(W \o R) /\ ToSet(W \o R) = Wset \cup Rset
  BY <1>7, <1>8, DistinctConcat, ElementsOfConcat
<1>11. /\ EventKeys(e) \in Seq(S) /\ IsInjective(EventKeys(e))
       /\ ToSet(EventKeys(e)) = Two(e.kind) \cup Bset \cup (Wset \cup Rset)
  <2> DEFINE X == A \o B
             Y == W \o R
  <2>1. /\ X \in Seq(S) /\ IsInjective(X) /\ ToSet(X) = Two(e.kind) \cup Bset
        /\ Y \in Seq(S) /\ IsInjective(Y) /\ ToSet(Y) = Wset \cup Rset
    BY <1>9, <1>10
  <2>2. EventKeys(e) = X \o Y
    BY <1>6
  <2> HIDE DEF X, Y
  <2>3. ToSet(X) \cap ToSet(Y) = {}
    BY <1>8, <2>1
  <2>4. X \o Y \in Seq(S) /\ IsInjective(X \o Y)
    BY <2>1, <2>3, DistinctConcat
  <2>5. ToSet(X \o Y) = ToSet(X) \cup ToSet(Y)
    BY <2>1, ElementsOfConcat
  <2> QED
    BY <2>1, <2>2, <2>4, <2>5
<1>12. EventKeys(e) # <<>>
  <2>1. Key(e.kind, Null, Null) \in ToSet(EventKeys(e))
    BY <1>11 DEF Two
  <2> QED
    BY <2>1 DEF ToSet
<1>13. ASSUME NEW metric, NEW jobName, NEW signature
       PROVE  Key(metric, jobName, signature) \in ToSet(EventKeys(e))
                 <=> CountsIn(e, Key(metric, jobName, signature))
  <2> DEFINE k == Key(metric, jobName, signature)
  <2>1. k.metric = metric /\ k.jobName = jobName /\ k.errorSignature = signature
    BY DEF Key
  <2>2. \A m : k \in Two(m) <=> metric = m /\ jobName \in {e.jobName, Null} /\ signature = Null
    BY KeyFields DEF Two
  <2>3. k = Sig <=> metric = "failed" /\ jobName = Null /\ signature = e.errorSignature
    BY KeyFields DEF Sig
  <2> HIDE DEF k
  <2>4. k \in ToSet(EventKeys(e)) <=>
          \/ k \in Two(e.kind)
          \/ e.kind = "failed" /\ e.errorSignature # Null /\ k = Sig
          \/ e.kind # "added" /\ "wait_ms" \in e.spans /\ k \in Two("wait_ms")
          \/ e.kind # "added" /\ "run_ms" \in e.spans /\ k \in Two("run_ms")
    BY <1>11 DEF Bset, Wset, Rset
  <2>5. metric \in e.spans => metric \in {"wait_ms", "run_ms"}
    BY DEF IsEvent, HISTOGRAM_METRICS
  <2>6. CASE signature = Null
    <3>1. k \in ToSet(EventKeys(e)) <=>
            /\ jobName \in {e.jobName, Null}
            /\ \/ metric = e.kind
               \/ e.kind # "added" /\ metric \in e.spans
      BY <2>2, <2>3, <2>4, <2>5, <2>6
    <3> QED
      BY <2>1, <2>6, <3>1 DEF CountsIn, k
  <2>7. CASE signature # Null
    <3>1. k \in ToSet(EventKeys(e)) <=>
            metric = "failed" /\ e.kind = "failed" /\ jobName = Null /\ signature = e.errorSignature
      BY <2>2, <2>3, <2>4, <2>7
    <3> QED
      BY <2>1, <2>7, <3>1 DEF CountsIn, k
  <2> QED
    BY <2>6, <2>7
<1> QED
  BY <1>11, <1>12, <1>13 DEF S

Ops == {"sadd_idx", "pexpire_idx", "zadd_ts", "zremrangebyscore_ts", "pexpire_ts",
        "incrby", "hincrby_b", "hincrby_total", "pexpire_bucket"}
Command(op, key, ts) == [op |-> op, key |-> key, ts |-> ts]
BucketOf(e) == floorToBucket(e.at, width)

\* What a record is written with, and in which order: after a command the next one
\* of its record is executed, and after the last the first of another.
Successive ==
    {<<"sadd_idx", "pexpire_idx">>, <<"pexpire_idx", "zadd_ts">>,
     <<"zadd_ts", "zremrangebyscore_ts">>, <<"zremrangebyscore_ts", "pexpire_ts">>,
     <<"pexpire_ts", "incrby">>, <<"pexpire_ts", "hincrby_b">>,
     <<"incrby", "pexpire_bucket">>,
     <<"hincrby_b", "hincrby_total">>, <<"hincrby_total", "pexpire_bucket">>}

InOrder(p) ==
    \A m \in DOMAIN p :
        /\ p[m].op # "pexpire_bucket" =>
              /\ m + 1 \in DOMAIN p
              /\ p[m + 1].key = p[m].key /\ p[m + 1].ts = p[m].ts
              /\ <<p[m].op, p[m + 1].op>> \in Successive
        /\ p[m].op = "pexpire_bucket" /\ m + 1 \in DOMAIN p => p[m + 1].op = "sadd_idx"

RecordCommands(key, ts) == {Command(op, key, ts) : op \in ToSet(Commands(key.metric))}
CommandsOf(e) == UNION {RecordCommands(key, BucketOf(e)) : key \in ToSet(EventKeys(e))}

\* Two commands are the same when their parts are.
LEMMA CommandFields ==
    ASSUME NEW o1, NEW k1, NEW t1, NEW o2, NEW k2, NEW t2
    PROVE  /\ Command(o1, k1, t1) = Command(o2, k2, t2) <=> o1 = o2 /\ k1 = k2 /\ t1 = t2
           /\ Command(o1, k1, t1).op = o1 /\ Command(o1, k1, t1).key = k1
           /\ Command(o1, k1, t1).ts = t1
BY DEF Command

\* Where the elements of two sequences are when one follows the other.
LEMMA Concatenation ==
    ASSUME NEW S, NEW s \in Seq(S), NEW t \in Seq(S), NEW r, r = s \o t
    PROVE  /\ r \in Seq(S) /\ Len(r) = Len(s) + Len(t)
           /\ \A i \in 1..Len(s) : r[i] = s[i]
           /\ \A i \in 1..Len(t) : r[Len(s) + i] = t[i]
<1>1. /\ s \o t \in Seq(S) /\ Len(s \o t) = Len(s) + Len(t)
      /\ \A i \in 1..Len(s) : (s \o t)[i] = s[i]
      /\ \A i \in 1..Len(t) : (s \o t)[Len(s) + i] = t[i]
  OBVIOUS
<1> QED
  BY <1>1, Zenon

\* The commands of a record one by one.
LEMMA CommandsAre ==
    ASSUME NEW metric
    PROVE  LET c == Commands(metric)
           IN  /\ c \in Seq(Ops)
               /\ IF metric \in HISTOGRAM_METRICS THEN 8 <= Len(c) /\ Len(c) <= 8 ELSE 7 <= Len(c) /\ Len(c) <= 7
               /\ c[1] = "sadd_idx" /\ c[2] = "pexpire_idx" /\ c[3] = "zadd_ts"
               /\ c[4] = "zremrangebyscore_ts" /\ c[5] = "pexpire_ts"
               /\ IF metric \in HISTOGRAM_METRICS
                  THEN c[6] = "hincrby_b" /\ c[7] = "hincrby_total" /\ c[8] = "pexpire_bucket"
                  ELSE c[6] = "incrby" /\ c[7] = "pexpire_bucket"
<1> DEFINE A == <<"sadd_idx", "pexpire_idx", "zadd_ts", "zremrangebyscore_ts", "pexpire_ts">>
           B == Increments(metric)
           C == <<"pexpire_bucket">>
<1>1. A \in Seq(Ops) /\ B \in Seq(Ops) /\ C \in Seq(Ops)
  <2>1. <<"hincrby_b", "hincrby_total">> \in Seq(Ops) /\ <<"incrby">> \in Seq(Ops)
    BY DEF Ops
  <2>2. B \in Seq(Ops)
    BY <2>1, Zenon DEF Increments
  <2>3. A \in Seq(Ops)
    BY DEF Ops
  <2>4. C \in Seq(Ops)
    BY DEF Ops
  <2> QED
    BY <2>2, <2>3, <2>4, Zenon
<1>2. /\ 5 <= Len(A) /\ Len(A) <= 5
      /\ A[1] = "sadd_idx" /\ A[2] = "pexpire_idx" /\ A[3] = "zadd_ts"
      /\ A[4] = "zremrangebyscore_ts" /\ A[5] = "pexpire_ts"
  OBVIOUS
<1>3. IF metric \in HISTOGRAM_METRICS
      THEN 2 <= Len(B) /\ Len(B) <= 2 /\ B[1] = "hincrby_b" /\ B[2] = "hincrby_total"
      ELSE 1 <= Len(B) /\ Len(B) <= 1 /\ B[1] = "incrby"
  BY DEF Increments
<1>4. 1 <= Len(C) /\ Len(C) <= 1 /\ C[1] = "pexpire_bucket"
  OBVIOUS
<1> DEFINE D == A \o B
           E == D \o C
<1>5. Commands(metric) = E
  BY DEF Commands
<1> HIDE DEF A, B, C
<1>6. /\ D \in Seq(Ops) /\ Len(D) = Len(A) + Len(B)
      /\ \A i \in 1..Len(A) : D[i] = A[i]
      /\ \A i \in 1..Len(B) : D[Len(A) + i] = B[i]
  BY <1>1, Concatenation
<1> HIDE DEF D
<1>D. D \in Seq(Ops)
  BY <1>6
<1>7. /\ E \in Seq(Ops) /\ Len(E) = Len(D) + Len(C)
      /\ \A i \in 1..Len(D) : E[i] = D[i]
      /\ \A i \in 1..Len(C) : E[Len(D) + i] = C[i]
  BY <1>1, <1>D, Concatenation
<1> HIDE DEF E
<1>8. D[1] = A[1] /\ D[2] = A[2] /\ D[3] = A[3] /\ D[4] = A[4] /\ D[5] = A[5]
  <2>1. 1 \in 1..Len(A) /\ 2 \in 1..Len(A) /\ 3 \in 1..Len(A) /\ 4 \in 1..Len(A) /\ 5 \in 1..Len(A)
    BY <1>2
  <2> QED
    BY <1>6, <2>1
<1>9. Len(A) \in Nat /\ Len(B) \in Nat /\ Len(C) \in Nat /\ Len(D) \in Nat
  BY <1>1, <1>D
<1>10. CASE metric \in HISTOGRAM_METRICS
  <2>1. 7 <= Len(D) /\ Len(D) <= 7
    BY <1>2, <1>3, <1>6, <1>9, <1>10
  <2>2. D[6] = B[1] /\ D[7] = B[2]
    <3>1. Len(A) + 1 = 6 /\ Len(A) + 2 = 7 /\ 1 \in 1..Len(B) /\ 2 \in 1..Len(B)
      BY <1>2, <1>3, <1>9, <1>10
    <3>2. D[Len(A) + 1] = B[1] /\ D[Len(A) + 2] = B[2]
      BY <1>6, <3>1
    <3> QED
      BY <3>1, <3>2
  <2>3. \A i \in {1, 2, 3, 4, 5, 6, 7} : E[i] = D[i]
    <3>1. \A i \in {1, 2, 3, 4, 5, 6, 7} : i \in 1..Len(D)
      BY <1>9, <2>1
    <3> QED
      BY <1>7, <3>1
  <2>4. E[8] = C[1] /\ 8 <= Len(E) /\ Len(E) <= 8
    <3>1. Len(D) + 1 = 8 /\ 1 \in 1..Len(C) /\ Len(D) + Len(C) = 8
      BY <1>4, <1>9, <2>1
    <3>2. E[Len(D) + 1] = C[1] /\ Len(E) = Len(D) + Len(C)
      BY <1>7, <3>1
    <3> QED
      BY <3>1, <3>2
  <2> QED
    BY <1>2, <1>3, <1>4, <1>5, <1>7, <1>8, <1>10, <2>2, <2>3, <2>4
<1>11. CASE metric \notin HISTOGRAM_METRICS
  <2>1. 6 <= Len(D) /\ Len(D) <= 6
    BY <1>2, <1>3, <1>6, <1>9, <1>11
  <2>2. D[6] = B[1]
    <3>1. Len(A) + 1 = 6 /\ 1 \in 1..Len(B)
      BY <1>2, <1>3, <1>9, <1>11
    <3>2. D[Len(A) + 1] = B[1]
      BY <1>6, <3>1
    <3> QED
      BY <3>1, <3>2
  <2>3. \A i \in {1, 2, 3, 4, 5, 6} : E[i] = D[i]
    <3>1. \A i \in {1, 2, 3, 4, 5, 6} : i \in 1..Len(D)
      BY <1>9, <2>1
    <3> QED
      BY <1>7, <3>1
  <2>4. E[7] = C[1] /\ 7 <= Len(E) /\ Len(E) <= 7
    <3>1. Len(D) + 1 = 7 /\ 1 \in 1..Len(C) /\ Len(D) + Len(C) = 7
      BY <1>4, <1>9, <2>1
    <3>2. E[Len(D) + 1] = C[1] /\ Len(E) = Len(D) + Len(C)
      BY <1>7, <3>1
    <3> QED
      BY <3>1, <3>2
  <2> QED
    BY <1>2, <1>3, <1>4, <1>5, <1>7, <1>8, <1>11, <2>2, <2>3, <2>4
<1> QED
  BY <1>10, <1>11

\* The commands of a record: what comes first, what comes last, and what follows what.
LEMMA CommandsTyped ==
    ASSUME NEW metric
    PROVE  LET c == Commands(metric)
           IN  /\ c \in Seq(Ops) /\ Len(c) \in {7, 8} /\ IsInjective(c)
               /\ c[1] = "sadd_idx" /\ c[Len(c)] = "pexpire_bucket"
               /\ \A i \in 1..Len(c) :
                     c[i] # "pexpire_bucket" =>
                        i + 1 \in 1..Len(c) /\ <<c[i], c[i + 1]>> \in Successive
<1> DEFINE c == Commands(metric)
<1>1. c \in Seq(Ops)
  BY CommandsAre
<1>2. /\ IF metric \in HISTOGRAM_METRICS THEN 8 <= Len(c) /\ Len(c) <= 8 ELSE 7 <= Len(c) /\ Len(c) <= 7
      /\ c[1] = "sadd_idx" /\ c[2] = "pexpire_idx" /\ c[3] = "zadd_ts"
      /\ c[4] = "zremrangebyscore_ts" /\ c[5] = "pexpire_ts"
      /\ IF metric \in HISTOGRAM_METRICS
         THEN c[6] = "hincrby_b" /\ c[7] = "hincrby_total" /\ c[8] = "pexpire_bucket"
         ELSE c[6] = "incrby" /\ c[7] = "pexpire_bucket"
  BY CommandsAre
<1> HIDE DEF c
<1>3. CASE metric \in HISTOGRAM_METRICS
  <2>0. Len(c) \in Nat /\ 8 <= Len(c) /\ Len(c) <= 8
    BY <1>1, <1>2, <1>3
  <2>1. DOMAIN c = {1, 2, 3, 4, 5, 6, 7, 8} /\ Len(c) \in Nat /\ 8 <= Len(c) /\ Len(c) <= 8
    <3>1. DOMAIN c = 1..Len(c)
      BY <1>1
    <3>2. \A n \in Nat : 8 <= n /\ n <= 8 => 1..n = {1, 2, 3, 4, 5, 6, 7, 8}
      OBVIOUS
    <3> QED
      BY <2>0, <3>1, <3>2
  <2>2. IsInjective(c)
    BY <1>2, <1>3, <2>1 DEF IsInjective
  <2>3. \A i \in 1..Len(c) :
           c[i] # "pexpire_bucket" =>
              i + 1 \in 1..Len(c) /\ <<c[i], c[i + 1]>> \in Successive
    BY <1>1, <1>2, <1>3, <2>1 DEF Successive
  <2> QED
    <3>1. Len(c) \in {7, 8} /\ c[Len(c)] = "pexpire_bucket"
      <4>1. Len(c) = 8
        <5>1. \A n \in Nat : 8 <= n /\ n <= 8 => n = 8
          OBVIOUS
        <5> QED
          BY <2>0, <5>1, Zenon
      <4>2. c[8] = "pexpire_bucket"
        BY <1>2, <1>3
      <4> QED
        BY <4>1, <4>2, Zenon
    <3>2. c[1] = "sadd_idx"
      BY <1>2
    <3> QED
      BY <1>1, <2>2, <2>3, <3>1, <3>2, Zenon DEF c
<1>4. CASE metric \notin HISTOGRAM_METRICS
  <2>0. Len(c) \in Nat /\ 7 <= Len(c) /\ Len(c) <= 7
    BY <1>1, <1>2, <1>4
  <2>1. DOMAIN c = {1, 2, 3, 4, 5, 6, 7} /\ Len(c) \in Nat /\ 7 <= Len(c) /\ Len(c) <= 7
    <3>1. DOMAIN c = 1..Len(c)
      BY <1>1
    <3>2. \A n \in Nat : 7 <= n /\ n <= 7 => 1..n = {1, 2, 3, 4, 5, 6, 7}
      OBVIOUS
    <3> QED
      BY <2>0, <3>1, <3>2
  <2>2. IsInjective(c)
    BY <1>2, <1>4, <2>1 DEF IsInjective
  <2>3. \A i \in 1..Len(c) :
           c[i] # "pexpire_bucket" =>
              i + 1 \in 1..Len(c) /\ <<c[i], c[i + 1]>> \in Successive
    BY <1>1, <1>2, <1>4, <2>1 DEF Successive
  <2> QED
    <3>1. Len(c) \in {7, 8} /\ c[Len(c)] = "pexpire_bucket"
      <4>1. Len(c) = 7
        <5>1. \A n \in Nat : 7 <= n /\ n <= 7 => n = 7
          OBVIOUS
        <5> QED
          BY <2>0, <5>1, Zenon
      <4>2. c[7] = "pexpire_bucket"
        BY <1>2, <1>4
      <4> QED
        BY <4>1, <4>2, Zenon
    <3>2. c[1] = "sadd_idx"
      BY <1>2
    <3> QED
      BY <1>1, <2>2, <2>3, <3>1, <3>2, Zenon DEF c
<1> QED
  BY <1>3, <1>4

\* The commands of one record.
RecordPipeline(key, ts) ==
    [i \in DOMAIN Commands(key.metric) |-> Command(Commands(key.metric)[i], key, ts)]

\* The commands of a record are sent once each, in their order.
LEMMA RecordIsSentInOrder ==
    ASSUME NEW key, NEW ts
    PROVE  LET p == RecordPipeline(key, ts)
           IN  /\ p \in Seq(RecordCommands(key, ts)) /\ p # <<>>
               /\ IsInjective(p) /\ InOrder(p) /\ p[1].op = "sadd_idx"
               /\ ToSet(p) = RecordCommands(key, ts)
<1> DEFINE c == Commands(key.metric)
           p == RecordPipeline(key, ts)
<1>1. /\ c \in Seq(Ops) /\ Len(c) \in {7, 8} /\ IsInjective(c)
      /\ c[1] = "sadd_idx" /\ c[Len(c)] = "pexpire_bucket"
      /\ \A i \in 1..Len(c) :
            c[i] # "pexpire_bucket" =>
               i + 1 \in 1..Len(c) /\ <<c[i], c[i + 1]>> \in Successive
  BY CommandsTyped
<1>2. DOMAIN c = 1..Len(c) /\ Len(c) \in Nat /\ Len(c) > 0
  BY <1>1
<1>3. p = [i \in 1..Len(c) |-> Command(c[i], key, ts)]
  BY <1>2, Zenon DEF RecordPipeline
<1>4. RecordCommands(key, ts) = {Command(op, key, ts) : op \in ToSet(c)}
  BY DEF RecordCommands
<1> HIDE DEF c, p
<1>5. DOMAIN p = 1..Len(c) /\ \A i \in 1..Len(c) : p[i] = Command(c[i], key, ts)
  BY <1>3
<1>6. \A i \in 1..Len(c) : p[i].op = c[i] /\ p[i].key = key /\ p[i].ts = ts
  BY <1>5, CommandFields
<1>7. ToSet(p) = RecordCommands(key, ts)
  <2>1. ToSet(p) = {Command(c[i], key, ts) : i \in 1..Len(c)}
    BY <1>5 DEF ToSet
  <2>2. ToSet(c) = {c[i] : i \in 1..Len(c)}
    BY <1>2 DEF ToSet
  <2> QED
    BY <1>4, <2>1, <2>2
<1>8. p \in Seq(RecordCommands(key, ts))
  <2>1. \A i \in 1..Len(c) : p[i] \in RecordCommands(key, ts)
    BY <1>5, <1>7 DEF ToSet
  <2>2. p \in [1..Len(c) -> RecordCommands(key, ts)]
    BY <1>3, <2>1, <1>5
  <2> QED
    BY <1>2, <2>2
<1>9. IsInjective(p)
  <2>1. \A i, j \in 1..Len(c) : p[i] = p[j] => c[i] = c[j]
    BY <1>6
  <2> QED
    BY <1>1, <1>2, <1>5, <2>1 DEF IsInjective
<1>10. InOrder(p)
  <2> DEFINE n == Len(c)
  <2>0. n \in Nat /\ n > 0 /\ c[n] = "pexpire_bucket" /\ \A i, j \in 1..n : c[i] = c[j] => i = j
    BY <1>1, <1>2 DEF IsInjective
  <2> HIDE DEF n
  <2>1. \A i \in 1..n : c[i] = "pexpire_bucket" => i = n /\ i + 1 \notin 1..n
    BY <2>0
  <2> QED
    BY <1>1, <1>5, <1>6, <2>1 DEF InOrder, n
<1>11. p[1].op = "sadd_idx" /\ p # <<>>
  <2>1. 1 \in 1..Len(c)
    BY <1>2
  <2> QED
    BY <1>1, <1>5, <1>6, <2>1
<1> QED
  BY <1>7, <1>8, <1>9, <1>10, <1>11 DEF p

\* What is in order by itself is in order after something else.
LEMMA InOrderConcat ==
    ASSUME NEW S, NEW s \in Seq(S), NEW t \in Seq(S), InOrder(s), InOrder(t),
           t # <<>>, t[1].op = "sadd_idx"
    PROVE  InOrder(s \o t)
<1> DEFINE r == s \o t
<1>1. /\ r \in Seq(S) /\ Len(r) = Len(s) + Len(t)
      /\ \A i \in 1..Len(s) : r[i] = s[i]
      /\ \A i \in 1..Len(t) : r[Len(s) + i] = t[i]
  BY Concatenation
<1>2. /\ Len(s) \in Nat /\ Len(t) \in Nat /\ Len(t) > 0 /\ DOMAIN r = 1..Len(r)
      /\ DOMAIN s = 1..Len(s) /\ DOMAIN t = 1..Len(t)
  BY <1>1
<1> HIDE DEF r
<1> SUFFICES ASSUME NEW m \in DOMAIN r
             PROVE  /\ r[m].op # "pexpire_bucket" =>
                          /\ m + 1 \in DOMAIN r
                          /\ r[m + 1].key = r[m].key /\ r[m + 1].ts = r[m].ts
                          /\ <<r[m].op, r[m + 1].op>> \in Successive
                    /\ r[m].op = "pexpire_bucket" /\ m + 1 \in DOMAIN r => r[m + 1].op = "sadd_idx"
  BY DEF InOrder, r
<1>3. CASE m <= Len(s)
  <2>1. m \in DOMAIN s /\ r[m] = s[m]
    BY <1>1, <1>2, <1>3
  <2>2. s[m].op # "pexpire_bucket" =>
           /\ m + 1 \in DOMAIN s /\ s[m + 1].key = s[m].key /\ s[m + 1].ts = s[m].ts
           /\ <<s[m].op, s[m + 1].op>> \in Successive
    BY <2>1 DEF InOrder
  <2>3. m + 1 \in DOMAIN s => r[m + 1] = s[m + 1] /\ m + 1 \in DOMAIN r
    BY <1>1, <1>2
  <2>4. s[m].op = "pexpire_bucket" /\ m + 1 \in DOMAIN s => s[m + 1].op = "sadd_idx"
    BY <2>1 DEF InOrder
  <2>5. m + 1 \notin DOMAIN s => r[m + 1] = t[1]
    <3>1. m + 1 \notin DOMAIN s => m + 1 = Len(s) + 1 /\ 1 \in 1..Len(t)
      BY <1>2, <2>1
    <3> QED
      BY <1>1, <3>1
  <2> QED
    BY <2>1, <2>2, <2>3, <2>4, <2>5
<1>4. CASE m > Len(s)
  <2> DEFINE k == m - Len(s)
  <2>1. k \in DOMAIN t /\ m = Len(s) + k /\ m + 1 = Len(s) + (k + 1)
    BY <1>1, <1>2, <1>4
  <2>0. m + 1 \in DOMAIN r <=> k + 1 \in DOMAIN t
    BY <1>1, <1>2, <1>4
  <2> HIDE DEF k
  <2>2. r[m] = t[k]
    BY <1>1, <1>2, <2>1
  <2>3. /\ t[k].op # "pexpire_bucket" =>
              /\ k + 1 \in DOMAIN t /\ t[k + 1].key = t[k].key /\ t[k + 1].ts = t[k].ts
              /\ <<t[k].op, t[k + 1].op>> \in Successive
        /\ t[k].op = "pexpire_bucket" /\ k + 1 \in DOMAIN t => t[k + 1].op = "sadd_idx"
    BY <2>1 DEF InOrder
  <2>4. k + 1 \in DOMAIN t => r[m + 1] = t[k + 1]
    BY <1>1, <1>2, <2>1
  <2> QED
    BY <2>0, <2>2, <2>3, <2>4
<1> QED
  BY <1>1, <1>2, <1>3, <1>4

\* A pipeline carries every command of every record of its event, once and in order.
LEMMA PipelineIs ==
    ASSUME NEW e, IsEvent(e)
    PROVE  LET p == Pipeline(eventToAggregates(e, width))
           IN  /\ p \in Seq(CommandsOf(e)) /\ p # <<>>
               /\ IsInjective(p) /\ InOrder(p) /\ p[1].op = "sadd_idx"
               /\ ToSet(p) = CommandsOf(e)
<1> DEFINE keys == EventKeys(e)
           N == Len(keys)
           ts == BucketOf(e)
           S == CommandsOf(e)
           records == eventToAggregates(e, width)
           p == Pipeline(records)
           ss == [n \in 1..N |-> RecordPipeline(keys[n], ts)]
<1>1. keys \in Seq(SeriesOf(e)) /\ keys # <<>> /\ IsInjective(keys)
  BY EventKeysAre
<1>2. DOMAIN keys = 1..N /\ N \in Nat /\ N > 0 /\ ToSet(keys) = {keys[n] : n \in 1..N}
  BY <1>1 DEF ToSet
<1>3. p = FlattenSeq(ss)
  <2>1. records = [n \in 1..N |-> [key |-> keys[n], ts |-> ts]]
    BY <1>2, Zenon DEF eventToAggregates, BucketOf
  <2> HIDE DEF records, keys, ts, N
  <2>2. DOMAIN records = 1..N /\ \A n \in 1..N : records[n].key = keys[n] /\ records[n].ts = ts
    BY <2>1
  <2> DEFINE Of(record) == [i \in DOMAIN Commands(record.key.metric) |->
                               [op |-> Commands(record.key.metric)[i],
                                key |-> record.key, ts |-> record.ts]]
  <2>3. p = FlattenSeq([n \in DOMAIN records |-> Of(records[n])])
    BY DEF Pipeline
  <2>4. [n \in DOMAIN records |-> Of(records[n])] = ss
    <3>1. \A n \in 1..N : Of(records[n]) = RecordPipeline(keys[n], ts)
      BY <2>2, Zenon DEF RecordPipeline, Command
    <3> HIDE DEF Of
    <3> QED
      BY <2>2, <3>1
  <2> QED
    BY <2>3, <2>4, Zenon
<1>4. S = UNION {RecordCommands(key, ts) : key \in ToSet(keys)}
  BY DEF CommandsOf
<1>5. \A n \in 1..N : RecordCommands(keys[n], ts) \subseteq S
  BY <1>2, <1>4
<1> HIDE DEF keys, N, ts, S, records, p
<1>6. \A n \in 1..N :
         /\ ss[n] \in Seq(RecordCommands(keys[n], ts)) /\ ss[n] # <<>>
         /\ IsInjective(ss[n]) /\ InOrder(ss[n]) /\ ss[n][1].op = "sadd_idx"
         /\ ToSet(ss[n]) = RecordCommands(keys[n], ts)
  <2> SUFFICES ASSUME NEW n \in 1..N
               PROVE  LET q == RecordPipeline(keys[n], ts)
                      IN  /\ q \in Seq(RecordCommands(keys[n], ts)) /\ q # <<>>
                          /\ IsInjective(q) /\ InOrder(q) /\ q[1].op = "sadd_idx"
                          /\ ToSet(q) = RecordCommands(keys[n], ts)
    OBVIOUS
  <2> QED
    BY RecordIsSentInOrder
<1>7. \A n \in 1..N : ss[n] \in Seq(S)
  <2> SUFFICES ASSUME NEW n \in 1..N PROVE ss[n] \in Seq(S)
    OBVIOUS
  <2>1. ss[n] \in Seq(RecordCommands(keys[n], ts)) /\ RecordCommands(keys[n], ts) \subseteq S
    BY <1>5, <1>6
  <2> HIDE DEF ss
  <2> QED
    BY <2>1
<1>8. ss \in Seq(Seq(S)) /\ Len(ss) = N /\ ss # <<>>
  <2>1. ss \in [1..N -> Seq(S)]
    BY <1>7
  <2> HIDE DEF ss
  <2> QED
    BY <1>2, <2>1
<1> HIDE DEF ss
<1>9. PICK flat \in [1..N -> Seq(S)] :
         /\ flat[1] = ss[1]
         /\ \A n \in 1..(N - 1) : flat[n + 1] = flat[n] \o ss[n + 1]
         /\ FlattenSeq(ss) = flat[N]
  <2>1. \E flat \in [1..Len(ss) -> Seq(S)] :
           /\ flat[1] = ss[1]
           /\ \A n \in 1..(Len(ss) - 1) : flat[n + 1] = flat[n] \o ss[n + 1]
           /\ FlattenSeq(ss) = flat[Len(ss)]
    BY <1>8, Flattens
  <2> QED
    BY <1>8, <2>1, Zenon
<1> DEFINE Sent(n) == UNION {RecordCommands(keys[i], ts) : i \in 1..n}
           Good(n) == /\ flat[n] # <<>> /\ IsInjective(flat[n]) /\ InOrder(flat[n])
                      /\ flat[n][1].op = "sadd_idx" /\ ToSet(flat[n]) = Sent(n)
           T == {n \in Nat : n \in 1..N => Good(n)}
<1>10. 0 \in T
  OBVIOUS
<1>11. ASSUME NEW n \in Nat, n \in T PROVE n + 1 \in T
  <2> SUFFICES ASSUME n + 1 \in 1..N PROVE Good(n + 1)
    OBVIOUS
  <2>1. CASE n = 0
    <3>1. Sent(1) = RecordCommands(keys[1], ts)
      OBVIOUS
    <3>2. n + 1 = 1 /\ 1 \in 1..N
      BY <1>2, <2>1
    <3> HIDE DEF Sent
    <3>3. Good(1)
      BY <1>6, <1>9, <3>1, <3>2
    <3> QED
      BY <3>2, <3>3, Zenon
  <2>2. CASE n # 0
    <3>1. n \in 1..N /\ n \in 1..(N - 1)
      BY <1>2, <2>2
    <3>2. Good(n)
      BY <1>11, <3>1
    <3>3. flat[n + 1] = flat[n] \o ss[n + 1] /\ flat[n] \in Seq(S) /\ ss[n + 1] \in Seq(S)
      BY <1>7, <1>9, <3>1
    <3>4. Sent(n) \cap RecordCommands(keys[n + 1], ts) = {}
      <4> SUFFICES ASSUME NEW i \in 1..n, NEW c \in RecordCommands(keys[i], ts),
                          c \in RecordCommands(keys[n + 1], ts)
                   PROVE  FALSE
        OBVIOUS
      <4>1. c.key = keys[i] /\ c.key = keys[n + 1]
        BY CommandFields DEF RecordCommands
      <4>2. i \in 1..N /\ i # n + 1
        BY <1>2, <3>1
      <4> QED
        BY <1>1, <1>2, <4>1, <4>2 DEF IsInjective
    <3>5. Sent(n + 1) = Sent(n) \cup RecordCommands(keys[n + 1], ts)
      <4>1. 1..(n + 1) = 1..n \cup {n + 1}
        OBVIOUS
      <4> QED
        BY <4>1
    <3>6. /\ ss[n + 1] # <<>> /\ ss[n + 1][1].op = "sadd_idx" /\ IsInjective(ss[n + 1]) /\ InOrder(ss[n + 1])
          /\ ToSet(ss[n + 1]) = RecordCommands(keys[n + 1], ts)
      BY <1>6
    <3> DEFINE a == flat[n]
               b == ss[n + 1]
    <3>7. /\ a \in Seq(S) /\ b \in Seq(S) /\ IsInjective(a) /\ IsInjective(b) /\ InOrder(a)
          /\ InOrder(b) /\ b # <<>> /\ b[1].op = "sadd_idx" /\ a # <<>> /\ a[1].op = "sadd_idx"
           /\ ToSet(a) \cap ToSet(b) = {}
          /\ ToSet(a) = Sent(n) /\ ToSet(b) = RecordCommands(keys[n + 1], ts)
      <4> HIDE DEF Sent
      <4> QED
        BY <3>2, <3>3, <3>4, <3>6
    <3> HIDE DEF a, b, Sent
    <3>8. IsInjective(a \o b) /\ InOrder(a \o b)
      BY <3>7, DistinctConcat, InOrderConcat
    <3>9. ToSet(a \o b) = Sent(n + 1)
      <4>1. ToSet(a \o b) = ToSet(a) \cup ToSet(b)
        BY <3>7, ElementsOfConcat
      <4> QED
        BY <3>5, <3>7, <4>1
    <3>10. a \o b # <<>> /\ (a \o b)[1] = a[1]
      BY <3>7
    <3>11. flat[n + 1] = a \o b
      BY <3>3 DEF a, b
    <3>12. (a \o b)[1].op = "sadd_idx"
      BY <3>7, <3>10
    <3> QED
      BY <3>8, <3>9, <3>10, <3>11, <3>12, Zenon
  <2> QED
    BY <2>1, <2>2
<1>12. Good(N) /\ flat[N] \in Seq(S) /\ flat[N] = p
  <2> HIDE DEF T, Good
  <2>1. Nat \subseteq T
    BY <1>10, <1>11, NaturalInduction
  <2>2. N \in 1..N /\ N \in T
    BY <1>2, <2>1
  <2>3. Good(N)
    BY <2>2 DEF T
  <2> QED
    BY <1>3, <1>9, <2>2, <2>3
<1>13. Sent(N) = S
  BY <1>2, <1>4
<1> QED
  <2> HIDE DEF Sent
  <2>1. /\ p \in Seq(S) /\ p # <<>> /\ IsInjective(p) /\ InOrder(p) /\ p[1].op = "sadd_idx"
        /\ ToSet(p) = S
    BY <1>12, <1>13
  <2> QED
    BY <2>1, Zenon DEF p, records, S

-----------------------------------------------------------------------------
\* The invariant of the store.

Marks == {"heard", "sent", "settled", "lost"}
Happenings == {[kind |-> type.kind, jobName |-> type.jobName, errorSignature |-> type.errorSignature,
                spans |-> type.spans, at |-> t] : type \in EventTypes, t \in 0..clock}
IndexEntry(m) == [members : SUBSET {k \in AllKeys : k.metric = m}, exp : Nat]
Series == [members : SUBSET AllTs, exp : Nat]
Bucket == [n : Nat, total : Nat, exp : Nat]

\* The shape of every variable but the query.
StoreTypeOK ==
    /\ scenario \in Scenarios
    /\ clock \in 0..MaxClock
    /\ happened \in Seq(Happenings)
    /\ status \in [Replicas -> Seq(Marks)]
    /\ \A w \in Replicas : Len(status[w]) = Len(happened)
    /\ index = [m \in DOMAIN index |-> index[m]]
    /\ \A m \in DOMAIN index : index[m] \in IndexEntry(m)
    /\ zsets \in [DOMAIN zsets -> Series] /\ DOMAIN zsets \subseteq AllKeys
    /\ buckets \in [DOMAIN buckets -> Bucket] /\ DOMAIN buckets \subseteq AllKeys \X AllTs

\* What is left of the pipeline of an event.
PipeOf(p, e) == p \in Seq(CommandsOf(e)) /\ IsInjective(p) /\ InOrder(p)

\* A replica sends one event at a time, and no other's commands are under way.
PipesOK ==
    /\ pipes = [w \in Replicas |-> pipes[w]]
    /\ \A w \in Replicas :
          \/ pipes[w] = <<>> /\ Sending(w) = {}
          \/ /\ pipes[w] # <<>>
             /\ \E i \in DOMAIN happened : Sending(w) = {i} /\ PipeOf(pipes[w], happened[i])

\* What an entry holds, if it is there.
MembersOf(map, name) == IF name \in DOMAIN map THEN map[name].members ELSE {}
ExpOf(map, name) == IF name \in DOMAIN map THEN map[name].exp ELSE NoTTL
NOf(map, name) == IF name \in DOMAIN map THEN map[name].n ELSE 0
TotalOf(map, name) == IF name \in DOMAIN map THEN map[name].total ELSE 0

\* An entry without an expiry, or with one that is too early, is about to get its own.
Fresh(exp) == exp \in (clock .. clock + retention) \ {NoTTL}
Due(op, key, ts) == \E w \in Replicas : Command(op, key, ts) \in ToSet(pipes[w])
ExpiryIs ==
    /\ \A m \in DOMAIN index :
          Fresh(ExpOf(index, m)) \/ \E key \in AllKeys, ts \in AllTs :
                                       key.metric = m /\ Due("pexpire_idx", key, ts)
    /\ \A key \in DOMAIN zsets : Fresh(ExpOf(zsets, key)) \/ \E ts \in AllTs : Due("pexpire_ts", key, ts)
    /\ \A name \in DOMAIN buckets :
          Fresh(ExpOf(buckets, name)) \/ Due("pexpire_bucket", name[1], name[2])
ExpiryComes == Writes({"lost"}) = {} => ExpiryIs

\* Write i of replica w has executed this command.
Did(w, i, op, key) ==
    \/ status[w][i] = "settled"
    \/ status[w][i] = "sent" /\ Command(op, key, BucketOf(happened[i])) \notin ToSet(pipes[w])

\* An entry that is there until the bucket has left the retention.
Lasts(exp, ts) == exp = NoTTL \/ ts + retention <= exp

\* What a query needs to find a bucket, as far as a write has come.
Finding == {"sadd_idx", "pexpire_idx", "zadd_ts", "pexpire_ts"}
IsFound(op, key, ts) ==
    /\ op = "sadd_idx" => key \in MembersOf(index, key.metric)
    /\ op = "pexpire_idx" => key.metric \in DOMAIN index /\ Lasts(ExpOf(index, key.metric), ts)
    /\ op = "zadd_ts" => ts \in MembersOf(zsets, key)
    /\ op = "pexpire_ts" => key \in DOMAIN zsets /\ Lasts(ExpOf(zsets, key), ts)
CanBeFound ==
    \A w \in Replicas, i \in DOMAIN happened : \A key \in ToSet(EventKeys(happened[i])), op \in Finding :
        WithinRetention(BucketOf(happened[i])) /\ Did(w, i, op, key) => IsFound(op, key, BucketOf(happened[i]))

CountOp(metric) == IF metric \in HISTOGRAM_METRICS THEN "hincrby_b" ELSE "incrby"
Concerns(i, key, ts) == CountsIn(happened[i], key) /\ BucketOf(happened[i]) = ts
Counted(key, ts) ==
    {wi \in Writes({"sent", "settled"}) : /\ Concerns(wi[2], key, ts)
                                           /\ Did(wi[1], wi[2], CountOp(key.metric), key)}
Cut(key, ts) == {wi \in Writes({"lost"}) : Concerns(wi[2], key, ts)}

\* A bucket holds every write that has counted, and none that has not.
CountsAdd ==
    \A key \in AllKeys, ts \in AllTs :
        /\ WithinRetention(ts) => Cardinality(Counted(key, ts)) <= NOf(buckets, <<key, ts>>)
        /\ NOf(buckets, <<key, ts>>) <= Cardinality(Counted(key, ts) \cup Cut(key, ts))
        /\ Lasts(ExpOf(buckets, <<key, ts>>), ts)

\* A total that is still to be counted has its bucket counted.
Totalling(key, ts) ==
    {w \in Replicas : pipes[w] # <<>> /\ Head(pipes[w]) = Command("hincrby_total", key, ts)}
TotalsFollow ==
    \A key \in AllKeys, ts \in AllTs :
        TotalOf(buckets, <<key, ts>>) + Cardinality(Totalling(key, ts)) <= NOf(buckets, <<key, ts>>)

\* The query: its shape, what it may answer, and what it must.
AnswerType == UNION {[D -> [n : Nat, total : Nat]] : D \in SUBSET (AllKeys \X AllTs)}
QueryType ==
    [pc : {"series", "buckets", "done"}, asked : SUBSET AllKeys, from : Nat, to : Nat,
     todo : SUBSET AllKeys, key : AllKeys \cup {Null}, gets : SUBSET AllTs,
     answer : AnswerType,
     before : SUBSET Writes({"settled"})]
Answered(key, ts) ==
    IF <<key, ts>> \in DOMAIN query.answer THEN query.answer[<<key, ts>>].n ELSE 0
QueryOK ==
    query.pc # "idle" =>
        /\ query \in QueryType
        /\ query.pc = "done" => query.todo = {}
        /\ query.pc = "buckets" => query.key \in AllKeys
        /\ \A key \in AllKeys, ts \in AllTs :
              Answered(key, ts) <= Observed(Writes({"sent", "settled", "lost"}), key, ts)
        /\ \A key \in query.asked, ts \in AllTs :
              InWindow(ts) /\ WithinRetention(ts) =>
                 \/ key \in query.todo
                 \/ query.pc = "buckets" /\ key = query.key /\ ts \in query.gets
                 \/ Observed(query.before, key, ts) <= Answered(key, ts)

\* The writes that a replica has begun.
Begun == {"sent", "settled", "lost"}

\* What a query may and must have answered.
NoMore == \A key \in AllKeys, ts \in AllTs : Answered(key, ts) <= Observed(Writes(Begun), key, ts)
NoLess ==
    \A key \in query.asked, ts \in AllTs :
        InWindow(ts) /\ WithinRetention(ts) =>
           \/ key \in query.todo
           \/ query.pc = "buckets" /\ key = query.key /\ ts \in query.gets
           \/ Observed(query.before, key, ts) <= Answered(key, ts)
QueryTyped ==
    /\ query \in QueryType
    /\ query.pc = "done" => query.todo = {}
    /\ query.pc = "buckets" => query.key \in AllKeys

\* What holds of the store and of its query in every state.
StoreIInv ==
    /\ StoreTypeOK /\ PipesOK /\ ExpiryComes /\ CanBeFound /\ CountsAdd /\ TotalsFollow /\ QueryOK

-----------------------------------------------------------------------------
\* What the bounds of a scenario mean, and the commands that are left of a pipeline.

\* The bounds of a scenario, and the types of its events.
LEMMA Parameters ==
    ASSUME scenario \in Scenarios
    PROVE  /\ width \in Nat /\ width > 0 /\ retention \in Nat /\ retention > 0
           /\ MaxClock \in Nat /\ IsFiniteSet(Replicas) /\ Windows \subseteq Nat \X Nat
           /\ \A type \in EventTypes : IsEvent(type)
<1>1. \A type \in EventTypes : type.kind \in Kinds /\ type.spans \subseteq HISTOGRAM_METRICS
  BY RedisStoreAssumption DEF EventTypes, Kinds
<1>2. MaxClock \in Nat /\ Windows \subseteq Nat \X Nat
  BY RedisStoreAssumption DEF MaxClock, Windows
<1>3. width \in Nat /\ width > 0 /\ retention \in Nat /\ retention > 0 /\ IsFiniteSet(Replicas)
  BY RedisStoreAssumption
<1> QED
  BY <1>1, <1>2, <1>3 DEF IsEvent

\* A time falls into a bucket that begins no later.
LEMMA FloorIs ==
    ASSUME NEW at \in Nat, NEW w \in Nat, w > 0
    PROVE  floorToBucket(at, w) \in Nat /\ floorToBucket(at, w) <= at
BY SMT DEF floorToBucket

\* A series has its three parts, and an event is recorded in the series it counts in.
LEMMA SeriesAre ==
    ASSUME scenario \in Scenarios, NEW key \in AllKeys
    PROVE  /\ key = Key(key.metric, key.jobName, key.errorSignature)
           /\ \A e : IsEvent(e) => (key \in ToSet(EventKeys(e)) <=> CountsIn(e, key))
<1>1. PICK type \in EventTypes : key \in ToSet(EventKeys(type))
  BY DEF AllKeys
<1>2. EventKeys(type) \in Seq(SeriesOf(type))
  BY <1>1, Parameters, EventKeysAre
<1>3. key \in SeriesOf(type)
  <2> DEFINE s == EventKeys(type)
             S == SeriesOf(type)
  <2>1. s \in Seq(S) /\ key \in ToSet(s)
    BY <1>1, <1>2
  <2> HIDE DEF s, S
  <2>2. PICK i \in DOMAIN s : key = s[i]
    BY <2>1 DEF ToSet
  <2>3. key \in S
    BY <2>1, <2>2
  <2> QED
    BY <2>3 DEF S
<1>4. key = Key(key.metric, key.jobName, key.errorSignature)
  BY <1>3 DEF SeriesOf, Key
<1>5. ASSUME NEW e, IsEvent(e) PROVE key \in ToSet(EventKeys(e)) <=> CountsIn(e, key)
  <2>1. \A m, j, s : Key(m, j, s) \in ToSet(EventKeys(e)) <=> CountsIn(e, Key(m, j, s))
    BY <1>5, EventKeysAre
  <2> QED
    BY <1>4, <2>1, Zenon
<1> QED
  BY <1>4, <1>5

\* The events that have happened: what they are recorded as, and when.
LEMMA HappenedIs ==
    ASSUME StoreTypeOK, NEW i \in DOMAIN happened
    PROVE  /\ IsEvent(happened[i])
           /\ happened[i].at \in 0..clock
           /\ BucketOf(happened[i]) \in AllTs
           /\ BucketOf(happened[i]) \in Nat /\ BucketOf(happened[i]) <= clock
           /\ ToSet(EventKeys(happened[i])) \subseteq AllKeys
           /\ \A key \in AllKeys : key \in ToSet(EventKeys(happened[i])) <=> CountsIn(happened[i], key)
<1>1. /\ scenario \in Scenarios /\ clock \in 0..MaxClock /\ happened[i] \in Happenings
  BY DEF StoreTypeOK
<1>2. PICK type \in EventTypes, t \in 0..clock :
         happened[i] = [kind |-> type.kind, jobName |-> type.jobName,
                        errorSignature |-> type.errorSignature,
                        spans |-> type.spans, at |-> t]
  BY <1>1 DEF Happenings
<1> DEFINE e == happened[i]
<1>3. /\ e.kind = type.kind /\ e.jobName = type.jobName /\ e.spans = type.spans
      /\ e.errorSignature = type.errorSignature /\ e.at = t
  BY <1>2
<1>4. MaxClock \in Nat /\ width \in Nat /\ width > 0 /\ IsEvent(type)
  BY <1>1, Parameters
<1> HIDE DEF e
<1>5. IsEvent(e)
  BY <1>3, <1>4 DEF IsEvent
<1>6. EventKeys(e) = EventKeys(type)
  BY <1>3 DEF EventKeys, Latencies, PerSignature
<1>7. ToSet(EventKeys(e)) \subseteq AllKeys
  BY <1>6 DEF AllKeys
<1>8. t \in Nat /\ t \in 0..MaxClock /\ e.at \in 0..clock /\ t <= clock /\ clock \in Nat
  BY <1>1, <1>3, <1>4
<1>9. BucketOf(e) \in AllTs /\ BucketOf(e) \in Nat /\ BucketOf(e) <= clock
  <2>1. BucketOf(e) = floorToBucket(t, width)
    BY <1>3 DEF BucketOf
  <2>2. floorToBucket(t, width) \in Nat /\ floorToBucket(t, width) <= t
    BY <1>4, <1>8, FloorIs
  <2> QED
    BY <1>8, <2>1, <2>2 DEF AllTs
<1>10. \A key \in AllKeys : key \in ToSet(EventKeys(e)) <=> CountsIn(e, key)
  BY <1>1, <1>5, SeriesAre
<1> QED
  BY <1>5, <1>7, <1>8, <1>9, <1>10 DEF e

\* The commands of a record: which of them it has.
LEMMA OpsOf ==
    ASSUME NEW metric
    PROVE  LET ops == ToSet(Commands(metric))
           IN  /\ {"sadd_idx", "pexpire_idx", "zadd_ts", "pexpire_ts", "pexpire_bucket"} \subseteq ops
               /\ ops \subseteq Ops
               /\ "incrby" \in ops <=> metric \notin HISTOGRAM_METRICS
               /\ "hincrby_b" \in ops <=> metric \in HISTOGRAM_METRICS
               /\ CountOp(metric) \in ops
<1> DEFINE c == Commands(metric)
<1>1. c \in Seq(Ops)
  BY CommandsAre
<1>2. /\ c[1] = "sadd_idx" /\ c[2] = "pexpire_idx" /\ c[3] = "zadd_ts"
      /\ c[4] = "zremrangebyscore_ts" /\ c[5] = "pexpire_ts"
      /\ IF metric \in HISTOGRAM_METRICS
         THEN /\ 8 <= Len(c) /\ Len(c) <= 8
              /\ c[6] = "hincrby_b" /\ c[7] = "hincrby_total" /\ c[8] = "pexpire_bucket"
         ELSE /\ 7 <= Len(c) /\ Len(c) <= 7
              /\ c[6] = "incrby" /\ c[7] = "pexpire_bucket"
  BY CommandsAre
<1>3. ToSet(c) = {c[i] : i \in 1..Len(c)} /\ Len(c) \in Nat
  BY <1>1 DEF ToSet
<1> HIDE DEF c
<1>4. CASE metric \in HISTOGRAM_METRICS
  <2>1. \A n \in Nat : 8 <= n /\ n <= 8 => 1..n = {1, 2, 3, 4, 5, 6, 7, 8}
    OBVIOUS
  <2>2. ToSet(c) = {c[i] : i \in {1, 2, 3, 4, 5, 6, 7, 8}}
    BY <1>2, <1>3, <1>4, <2>1
  <2>3. ToSet(c) = {"sadd_idx", "pexpire_idx", "zadd_ts", "zremrangebyscore_ts", "pexpire_ts",
                    "hincrby_b", "hincrby_total", "pexpire_bucket"}
    BY <1>2, <1>4, <2>2
  <2> QED
    BY <1>4, <2>3 DEF CountOp, Ops, c
<1>5. CASE metric \notin HISTOGRAM_METRICS
  <2>1. \A n \in Nat : 7 <= n /\ n <= 7 => 1..n = {1, 2, 3, 4, 5, 6, 7}
    OBVIOUS
  <2>2. ToSet(c) = {c[i] : i \in {1, 2, 3, 4, 5, 6, 7}}
    BY <1>2, <1>3, <1>5, <2>1
  <2>3. ToSet(c) = {"sadd_idx", "pexpire_idx", "zadd_ts", "zremrangebyscore_ts", "pexpire_ts",
                    "incrby", "pexpire_bucket"}
    BY <1>2, <1>5, <2>2
  <2> QED
    BY <1>5, <2>3 DEF CountOp, Ops, c
<1> QED
  BY <1>4, <1>5

\* A command of an event's pipeline is one of the record of one of its series.
LEMMA CommandOf ==
    ASSUME NEW e, NEW op, NEW key, NEW ts
    PROVE  Command(op, key, ts) \in CommandsOf(e) <=>
             /\ key \in ToSet(EventKeys(e)) /\ ts = BucketOf(e)
             /\ op \in ToSet(Commands(key.metric))
BY CommandFields DEF CommandsOf, RecordCommands

\* The next command of a pipeline, and what remains.
LEMMA HeadIs ==
    ASSUME NEW e, NEW p, PipeOf(p, e), p # <<>>
    PROVE  LET c == Head(p)
           IN  /\ c \in CommandsOf(e) /\ c = Command(c.op, c.key, c.ts)
               /\ c.ts = BucketOf(e) /\ c.key \in ToSet(EventKeys(e))
               /\ c.op \in ToSet(Commands(c.key.metric))
               /\ c \in ToSet(p) /\ ToSet(Tail(p)) = ToSet(p) \ {c} /\ ToSet(p) \subseteq CommandsOf(e)
               /\ PipeOf(Tail(p), e)
<1> DEFINE c == Head(p)
           S == CommandsOf(e)
<1>1. p \in Seq(S) /\ IsInjective(p) /\ InOrder(p)
  BY DEF PipeOf
<1> HIDE DEF S
<1>2. /\ c = p[1] /\ 1 \in DOMAIN p /\ DOMAIN p = 1..Len(p) /\ Tail(p) \in Seq(S) /\ Len(p) \in Nat
      /\ DOMAIN Tail(p) = 1..(Len(p) - 1) /\ \A n \in 1..(Len(p) - 1) : Tail(p)[n] = p[n + 1]
  BY <1>1
<1>3. c \in S /\ c \in ToSet(p) /\ ToSet(p) \subseteq S
  BY <1>1, <1>2 DEF ToSet
<1>4. ToSet(Tail(p)) = ToSet(p) \ {c}
  <2>1. ASSUME NEW n \in DOMAIN Tail(p) PROVE Tail(p)[n] \in ToSet(p) \ {c}
    <3>1. n + 1 \in DOMAIN p /\ Tail(p)[n] = p[n + 1] /\ n + 1 # 1
      BY <1>2
    <3> QED
      BY <1>1, <1>2, <3>1 DEF IsInjective, ToSet
  <2>2. ASSUME NEW m \in DOMAIN p, p[m] # c PROVE p[m] \in ToSet(Tail(p))
    <3>1. m - 1 \in DOMAIN Tail(p) /\ Tail(p)[m - 1] = p[m]
      BY <1>2, <2>2
    <3> QED
      BY <3>1 DEF ToSet
  <2>3. ToSet(Tail(p)) = {Tail(p)[n] : n \in DOMAIN Tail(p)} /\ ToSet(p) = {p[m] : m \in DOMAIN p}
    BY DEF ToSet
  <2> QED
    BY <2>1, <2>2, <2>3
<1>5. IsInjective(Tail(p))
  <2> SUFFICES ASSUME NEW m \in DOMAIN Tail(p), NEW n \in DOMAIN Tail(p), Tail(p)[m] = Tail(p)[n]
               PROVE  m = n
    BY DEF IsInjective
  <2>1. m + 1 \in DOMAIN p /\ n + 1 \in DOMAIN p /\ p[m + 1] = p[n + 1]
    BY <1>2
  <2>2. m + 1 = n + 1
    BY <1>1, <2>1 DEF IsInjective
  <2> QED
    BY <1>2, <2>2
<1>6. InOrder(Tail(p))
  <2> DEFINE q == Tail(p)
  <2> SUFFICES ASSUME NEW m \in DOMAIN q
               PROVE  /\ q[m].op # "pexpire_bucket" =>
                            /\ m + 1 \in DOMAIN q /\ q[m + 1].key = q[m].key /\ q[m + 1].ts = q[m].ts
                            /\ <<q[m].op, q[m + 1].op>> \in Successive
                      /\ q[m].op = "pexpire_bucket" /\ m + 1 \in DOMAIN q => q[m + 1].op = "sadd_idx"
    BY DEF InOrder
  <2>1. m + 1 \in DOMAIN p /\ q[m] = p[m + 1]
    BY <1>2
  <2>2. /\ p[m + 1].op # "pexpire_bucket" =>
              /\ (m + 1) + 1 \in DOMAIN p /\ p[(m + 1) + 1].key = p[m + 1].key
              /\ p[(m + 1) + 1].ts = p[m + 1].ts /\ <<p[m + 1].op, p[(m + 1) + 1].op>> \in Successive
        /\ p[m + 1].op = "pexpire_bucket" /\ (m + 1) + 1 \in DOMAIN p => p[(m + 1) + 1].op = "sadd_idx"
    BY <1>1, <2>1 DEF InOrder
  <2>3. m + 1 \in DOMAIN q <=> (m + 1) + 1 \in DOMAIN p
    BY <1>2, <2>1
  <2>4. m + 1 \in DOMAIN q => q[m + 1] = p[(m + 1) + 1]
    BY <1>2, <2>1
  <2> QED
    BY <2>1, <2>2, <2>3, <2>4
<1>key. PICK key \in ToSet(EventKeys(e)) : c \in RecordCommands(key, BucketOf(e))
  BY <1>3 DEF S, CommandsOf
<1>7. PICK op \in ToSet(Commands(key.metric)) : c = Command(op, key, BucketOf(e))
  BY <1>key DEF RecordCommands
<1>8. c.op = op /\ c.key = key /\ c.ts = BucketOf(e)
  BY <1>7, CommandFields
<1> QED
  BY <1>2, <1>3, <1>4, <1>5, <1>6, <1>key, <1>7, <1>8 DEF PipeOf, S

\* What comes after a command is its successor, at once.
LEMMA NextIs ==
    ASSUME NEW e, NEW p, PipeOf(p, e), p # <<>>, Head(p).op # "pexpire_bucket"
    PROVE  LET c == Head(p)
           IN  /\ Tail(p) # <<>>
               /\ \E op : <<c.op, op>> \in Successive /\ Head(Tail(p)) = Command(op, c.key, c.ts)
<1> DEFINE c == Head(p)
           q == Tail(p)
<1>1. p \in Seq(CommandsOf(e)) /\ InOrder(p)
  BY DEF PipeOf
<1>2. c = p[1] /\ 1 \in DOMAIN p /\ DOMAIN p = 1..Len(p)
  BY <1>1
<1>3. 1 + 1 \in DOMAIN p /\ p[1 + 1].key = c.key /\ p[1 + 1].ts = c.ts /\ <<c.op, p[1 + 1].op>> \in Successive
  BY <1>2, <1>1 DEF InOrder
<1>4. q # <<>> /\ Head(q) = p[1 + 1]
  <2>1. /\ q \in Seq(CommandsOf(e)) /\ DOMAIN q = 1..(Len(p) - 1) /\ Len(p) \in Nat
        /\ \A n \in 1..(Len(p) - 1) : q[n] = p[n + 1]
    BY <1>1, <1>2
  <2>2. 1 \in DOMAIN q /\ q[1] = p[1 + 1]
    BY <1>2, <1>3, <2>1
  <2> HIDE DEF q
  <2> QED
    BY <2>1, <2>2
<1>5. PipeOf(q, e)
  BY HeadIs
<1> HIDE DEF c, q
<1>6. Head(q) = Command(Head(q).op, Head(q).key, Head(q).ts)
  BY <1>4, <1>5, HeadIs
<1> QED
  BY <1>3, <1>4, <1>6, Zenon DEF c, q

\* After the last command of a record comes the first of another.
LEMMA RestartIs ==
    ASSUME NEW e, NEW p, PipeOf(p, e), p # <<>>, Head(p).op = "pexpire_bucket", Tail(p) # <<>>
    PROVE  Head(Tail(p)).op = "sadd_idx"
<1> DEFINE q == Tail(p)
<1>1. p \in Seq(CommandsOf(e)) /\ InOrder(p)
  BY DEF PipeOf
<1>2. /\ Head(p) = p[1] /\ 1 \in DOMAIN p /\ DOMAIN p = 1..Len(p) /\ Len(p) \in Nat
      /\ q \in Seq(CommandsOf(e)) /\ DOMAIN q = 1..(Len(p) - 1) /\ \A n \in 1..(Len(p) - 1) : q[n] = p[n + 1]
  BY <1>1
<1> HIDE DEF q
<1>3. 1 \in DOMAIN q /\ Head(q) = q[1]
  BY <1>2 DEF q
<1>4. 1 + 1 \in DOMAIN p /\ q[1] = p[1 + 1]
  BY <1>2, <1>3
<1>5. p[1 + 1].op = "sadd_idx"
  BY <1>1, <1>2, <1>4 DEF InOrder
<1> QED
  BY <1>3, <1>4, <1>5 DEF q

\* What comes before a command has been executed when it is next.
LEMMA BeforeIs ==
    ASSUME NEW e, NEW p, PipeOf(p, e), p # <<>>
    PROVE  LET c == Head(p)
           IN  /\ c.op = "pexpire_idx" => Command("sadd_idx", c.key, c.ts) \notin ToSet(p)
               /\ c.op = "pexpire_ts" => Command("zadd_ts", c.key, c.ts) \notin ToSet(p)
<1> DEFINE c == Head(p)
<1>1. p \in Seq(CommandsOf(e)) /\ InOrder(p) /\ IsInjective(p)
  BY DEF PipeOf
<1>2. c = p[1] /\ 1 \in DOMAIN p /\ DOMAIN p = 1..Len(p) /\ Len(p) \in Nat
  BY <1>1
<1>3. \A m \in DOMAIN p : p[m] = Command(p[m].op, p[m].key, p[m].ts)
  BY <1>1, CommandFields DEF CommandsOf, RecordCommands
<1> HIDE DEF c
<1>4. \A m \in DOMAIN p : m # 1 => p[m] # c
  BY <1>1, <1>2 DEF IsInjective
<1>5. ASSUME NEW m \in DOMAIN p, NEW op, p[m] = Command(op, c.key, c.ts),
             op \in {"sadd_idx", "zadd_ts", "zremrangebyscore_ts"}
      PROVE  /\ m + 1 \in DOMAIN p /\ p[m + 1].key = c.key /\ p[m + 1].ts = c.ts
             /\ <<op, p[m + 1].op>> \in Successive
  <2>1. p[m].op = op /\ p[m].key = c.key /\ p[m].ts = c.ts
    BY <1>5, CommandFields
  <2>2. p[m].op # "pexpire_bucket"
    BY <1>5, <2>1
  <2> QED
    BY <1>1, <2>1, <2>2 DEF InOrder
<1>6. c = Command(c.op, c.key, c.ts)
  BY <1>2, <1>3
<1>7. ASSUME c.op = "pexpire_idx", Command("sadd_idx", c.key, c.ts) \in ToSet(p) PROVE FALSE
  <2>1. PICK m \in DOMAIN p : p[m] = Command("sadd_idx", c.key, c.ts)
    BY <1>7 DEF ToSet
  <2>2. m + 1 \in DOMAIN p /\ p[m + 1].key = c.key /\ p[m + 1].ts = c.ts /\ p[m + 1].op = "pexpire_idx"
    BY <1>5, <2>1 DEF Successive
  <2>3. p[m + 1] = c
    BY <1>3, <1>6, <1>7, <2>2
  <2> QED
    BY <1>2, <1>4, <2>2, <2>3
<1>8. ASSUME c.op = "pexpire_ts", Command("zadd_ts", c.key, c.ts) \in ToSet(p) PROVE FALSE
  <2>1. PICK m \in DOMAIN p : p[m] = Command("zadd_ts", c.key, c.ts)
    BY <1>8 DEF ToSet
  <2>2. /\ m + 1 \in DOMAIN p /\ p[m + 1].key = c.key /\ p[m + 1].ts = c.ts
        /\ p[m + 1].op = "zremrangebyscore_ts"
    BY <1>5, <2>1 DEF Successive
  <2>3. p[m + 1] = Command("zremrangebyscore_ts", c.key, c.ts)
    BY <1>3, <2>2
  <2>4. /\ (m + 1) + 1 \in DOMAIN p /\ p[(m + 1) + 1].key = c.key /\ p[(m + 1) + 1].ts = c.ts
        /\ p[(m + 1) + 1].op = "pexpire_ts"
    BY <1>5, <2>2, <2>3 DEF Successive
  <2>5. p[(m + 1) + 1] = c
    BY <1>3, <1>6, <1>8, <2>4
  <2> QED
    BY <1>2, <1>4, <2>4, <2>5
<1> QED
  BY <1>7, <1>8 DEF c

-----------------------------------------------------------------------------
\* What a command does to an entry.

\* The value of a key after it has been set.
LEMMA WithIs ==
    ASSUME NEW map, NEW name, NEW value
    PROVE  LET r == With(map, name, value)
           IN  /\ DOMAIN r = DOMAIN map \cup {name} /\ r[name] = value
               /\ \A n \in DOMAIN map : n # name => r[n] = map[n]
               /\ r = [n \in DOMAIN r |-> r[n]]
BY DEF With

\* sadd and zadd touch their key, and leave its expiry.
LEMMA MemberAdded ==
    ASSUME NEW map, NEW name, NEW member,
           name \in DOMAIN map => map[name] = [members |-> map[name].members, exp |-> map[name].exp]
    PROVE  LET r == AddMember(map, name, member)
           IN  /\ DOMAIN r = DOMAIN map \cup {name} /\ r = [n \in DOMAIN r |-> r[n]]
               /\ \A n \in DOMAIN map : n # name => r[n] = map[n]
               /\ r[name] = [members |-> (IF name \in DOMAIN map THEN map[name].members ELSE {}) \cup {member},
                             exp |-> IF name \in DOMAIN map THEN map[name].exp ELSE NoTTL]
<1> DEFINE old == At(map, name, [members |-> {}, exp |-> NoTTL])
           new == [members |-> (IF name \in DOMAIN map THEN map[name].members ELSE {}) \cup {member},
                   exp |-> IF name \in DOMAIN map THEN map[name].exp ELSE NoTTL]
<1>1. [old EXCEPT !.members = @ \cup {member}] = new
  <2>1. CASE name \in DOMAIN map
    <3>1. old = [members |-> map[name].members, exp |-> map[name].exp]
      BY <2>1 DEF At
    <3> HIDE DEF old
    <3>2. [old EXCEPT !.members = @ \cup {member}]
            = [members |-> map[name].members \cup {member}, exp |-> map[name].exp]
      BY <3>1
    <3> QED
      BY <2>1, <3>2
  <2>2. CASE name \notin DOMAIN map
    <3>1. old = [members |-> {}, exp |-> NoTTL]
      BY <2>2 DEF At
    <3> HIDE DEF old
    <3>2. [old EXCEPT !.members = @ \cup {member}] = [members |-> {} \cup {member}, exp |-> NoTTL]
      BY <3>1
    <3> QED
      BY <2>2, <3>2
  <2> QED
    BY <2>1, <2>2
<1>2. AddMember(map, name, member) = With(map, name, new)
  BY <1>1, Zenon DEF AddMember
<1> HIDE DEF new
<1>3. LET r == With(map, name, new)
      IN  /\ DOMAIN r = DOMAIN map \cup {name} /\ r = [n \in DOMAIN r |-> r[n]]
          /\ \A n \in DOMAIN map : n # name => r[n] = map[n]
          /\ r[name] = new
  BY DEF With
<1> QED
  BY <1>2, <1>3 DEF new

\* An expiry set now.
LEMMA ExpirySet ==
    ASSUME NEW map, NEW name
    PROVE  LET r == PExpire(map, name)
           IN  /\ DOMAIN r = DOMAIN map
               /\ map = [n \in DOMAIN map |-> map[n]] => r = [n \in DOMAIN r |-> r[n]]
               /\ \A n \in DOMAIN map :
                     r[n] = IF n = name THEN [map[n] EXCEPT !.exp = clock + retention] ELSE map[n]
<1>1. CASE name \in DOMAIN map
  BY <1>1 DEF PExpire
<1>2. CASE name \notin DOMAIN map
  BY <1>2 DEF PExpire
<1> QED
  BY <1>1, <1>2

\* zremrangebyscore touches its key, and leaves its expiry.
LEMMA MembersRemoved ==
    ASSUME NEW map, NEW name, NEW upTo
    PROVE  LET r == ZRemRangeByScore(map, name, upTo)
           IN  /\ DOMAIN r = DOMAIN map
               /\ map = [n \in DOMAIN map |-> map[n]] => r = [n \in DOMAIN r |-> r[n]]
               /\ \A n \in DOMAIN map :
                     r[n] = IF n = name THEN [map[n] EXCEPT !.members = {ts \in @ : ts > upTo}]
                            ELSE map[n]
BY DEF ZRemRangeByScore

\* incrby and hincrby touch their key, and leave its expiry.
LEMMA Incremented ==
    ASSUME NEW name, NEW field \in {"n", "total"},
           name \in DOMAIN buckets => buckets[name] \in Bucket
    PROVE  LET r == IncrBy(name, field)
               old == IF name \in DOMAIN buckets THEN buckets[name]
                      ELSE [n |-> 0, total |-> 0, exp |-> NoTTL]
           IN  /\ DOMAIN r = DOMAIN buckets \cup {name} /\ r = [n \in DOMAIN r |-> r[n]]
               /\ \A n \in DOMAIN buckets : n # name => r[n] = buckets[n]
               /\ r[name] = [n |-> IF field = "n" THEN old.n + 1 ELSE old.n,
                             total |-> IF field = "total" THEN old.total + 1 ELSE old.total,
                             exp |-> old.exp]
<1> DEFINE old == At(buckets, name, [n |-> 0, total |-> 0, exp |-> NoTTL])
           was == IF name \in DOMAIN buckets THEN buckets[name] ELSE [n |-> 0, total |-> 0, exp |-> NoTTL]
           new == [n |-> IF field = "n" THEN old.n + 1 ELSE old.n,
                   total |-> IF field = "total" THEN old.total + 1 ELSE old.total,
                   exp |-> old.exp]
<1>1. old = was
  BY DEF At
<1>2. old \in Bucket
  BY <1>1 DEF Bucket, NoTTL
<1>3. [old EXCEPT ![field] = @ + 1] = new
  <2> HIDE DEF old
  <2>0. old = [n |-> old.n, total |-> old.total, exp |-> old.exp]
    BY <1>2 DEF Bucket
  <2>1. CASE field = "n"
    <3>1. [old EXCEPT !["n"] = @ + 1] = [n |-> old.n + 1, total |-> old.total, exp |-> old.exp]
      <4>1. [old EXCEPT !["n"] = @ + 1] = [old EXCEPT !.n = old.n + 1]
        BY <1>2 DEF Bucket
      <4> QED
        BY <2>0, <4>1
    <3> QED
      BY <2>1, <3>1
  <2>2. CASE field = "total"
    <3>1. [old EXCEPT !["total"] = @ + 1] = [n |-> old.n, total |-> old.total + 1, exp |-> old.exp]
      <4>1. [old EXCEPT !["total"] = @ + 1] = [old EXCEPT !.total = old.total + 1]
        BY <1>2 DEF Bucket
      <4> QED
        BY <2>0, <4>1
    <3> QED
      BY <2>2, <3>1
  <2> QED
    BY <2>1, <2>2
<1>4. IncrBy(name, field) = With(buckets, name, new)
  BY <1>3, Zenon DEF IncrBy
<1> HIDE DEF new, old, was
<1>5. LET r == With(buckets, name, new)
      IN  /\ DOMAIN r = DOMAIN buckets \cup {name} /\ r = [n \in DOMAIN r |-> r[n]]
          /\ \A n \in DOMAIN buckets : n # name => r[n] = buckets[n]
          /\ r[name] = new
  BY DEF With
<1> QED
  BY <1>1, <1>4, <1>5 DEF new, was

\* Some of the writes of a replica change their mark.
LEMMA MarkedIs ==
    ASSUME status \in [Replicas -> Seq(Marks)], NEW w \in Replicas, NEW I, NEW mark \in Marks
    PROVE  LET st == Marked(w, I, mark)
           IN  /\ st \in [Replicas -> Seq(Marks)]
               /\ \A v \in Replicas :
                     /\ Len(st[v]) = Len(status[v]) /\ DOMAIN st[v] = DOMAIN status[v]
                     /\ \A i \in DOMAIN status[v] :
                           st[v][i] = IF v = w /\ i \in I THEN mark ELSE status[v][i]
<1> DEFINE st == Marked(w, I, mark)
           n == Len(status[w])
           new == [i \in DOMAIN status[w] |-> IF i \in I THEN mark ELSE status[w][i]]
<1>1. status[w] \in Seq(Marks) /\ n \in Nat /\ DOMAIN status[w] = 1..n
  OBVIOUS
<1>2. new \in [1..n -> Marks]
  BY <1>1
<1>3. new \in Seq(Marks) /\ Len(new) = n /\ DOMAIN new = 1..n
  <2> HIDE DEF new
  <2> QED
    BY <1>1, <1>2
<1>4. \A i \in 1..n : new[i] = IF i \in I THEN mark ELSE status[w][i]
  BY <1>1
<1>5. st = [status EXCEPT ![w] = new]
  BY DEF Marked
<1> HIDE DEF st, new
<1>6. st \in [Replicas -> Seq(Marks)] /\ st[w] = new /\ \A v \in Replicas : v # w => st[v] = status[v]
  BY <1>3, <1>5
<1> QED
  BY <1>1, <1>3, <1>4, <1>6 DEF st

\* The writes in one of some states.
LEMMA WritesAre ==
    ASSUME NEW marks
    PROVE  \A x : x \in Writes(marks) <=>
              \E w \in Replicas : \E i \in DOMAIN status[w] : x = <<w, i>> /\ status[w][i] \in marks
BY DEF Writes

\* What a scenario bounds stays while the scenario does.
LEMMA SameBounds ==
    ASSUME scenario' = scenario
    PROVE  /\ AllKeys' = AllKeys /\ AllTs' = AllTs /\ EventTypes' = EventTypes
           /\ MaxClock' = MaxClock /\ Windows' = Windows /\ Series' = Series
           /\ \A m : IndexEntry(m)' = IndexEntry(m)
           /\ clock' = clock => Happenings' = Happenings
<1>1. EventTypes' = EventTypes /\ MaxClock' = MaxClock /\ Windows' = Windows
  BY DEF EventTypes, MaxClock, Windows
<1>2. AllKeys' = AllKeys
  BY <1>1 DEF AllKeys
<1>3. AllTs' = AllTs
  BY <1>1 DEF AllTs
<1>4. Series' = Series /\ \A m : IndexEntry(m)' = IndexEntry(m)
  BY <1>2, <1>3 DEF Series, IndexEntry
<1>5. clock' = clock => Happenings' = Happenings
  BY <1>1 DEF Happenings
<1> QED
  BY <1>1, <1>2, <1>3, <1>4, <1>5

\* What a step does to the keys of Redis keeps their types.
StoreTyped ==
    /\ index = [m \in DOMAIN index |-> index[m]]
    /\ \A m \in DOMAIN index : index[m] \in IndexEntry(m)
    /\ zsets \in [DOMAIN zsets -> Series] /\ DOMAIN zsets \subseteq AllKeys
    /\ buckets \in [DOMAIN buckets -> Bucket] /\ DOMAIN buckets \subseteq AllKeys \X AllTs

\* A command leaves every entry its shape.
LEMMA EffectTyped ==
    ASSUME StoreTypeOK, scenario' = scenario, NEW op, NEW key \in AllKeys, NEW ts \in AllTs,
           Effect(op, key, ts)
    PROVE  StoreTyped'
<1>1. /\ AllKeys' = AllKeys /\ AllTs' = AllTs /\ Series' = Series
      /\ \A m : IndexEntry(m)' = IndexEntry(m)
  BY SameBounds
<1>2. /\ index = [m \in DOMAIN index |-> index[m]]
      /\ \A m \in DOMAIN index : index[m] \in IndexEntry(m)
      /\ zsets \in [DOMAIN zsets -> Series] /\ DOMAIN zsets \subseteq AllKeys
      /\ buckets \in [DOMAIN buckets -> Bucket] /\ DOMAIN buckets \subseteq AllKeys \X AllTs
      /\ clock \in Nat /\ retention \in Nat /\ NoTTL \in Nat
  BY Parameters DEF StoreTypeOK, NoTTL
<1>3. ASSUME UNCHANGED index
      PROVE  (index = [m \in DOMAIN index |-> index[m]] /\ \A m \in DOMAIN index : index[m] \in IndexEntry(m))'
  BY <1>1, <1>2, <1>3
<1>4. ASSUME UNCHANGED zsets
      PROVE  (zsets \in [DOMAIN zsets -> Series] /\ DOMAIN zsets \subseteq AllKeys)'
  BY <1>1, <1>2, <1>4
<1>5. ASSUME UNCHANGED buckets
      PROVE  (buckets \in [DOMAIN buckets -> Bucket] /\ DOMAIN buckets \subseteq AllKeys \X AllTs)'
  BY <1>1, <1>2, <1>5 DEF Bucket
<1>6. CASE op = "sadd_idx"
  <2>1. index' = AddMember(index, key.metric, key) /\ UNCHANGED <<zsets, buckets>>
    BY <1>6 DEF Effect
  <2> DEFINE m == key.metric
  <2>2. m \in DOMAIN index => index[m] = [members |-> index[m].members, exp |-> index[m].exp]
    BY <1>2 DEF IndexEntry
  <2>3. /\ DOMAIN index' = DOMAIN index \cup {m} /\ index' = [n \in DOMAIN index' |-> index'[n]]
        /\ \A n \in DOMAIN index : n # m => index'[n] = index[n]
        /\ index'[m] = [members |-> (IF m \in DOMAIN index THEN index[m].members ELSE {}) \cup {key},
                        exp |-> IF m \in DOMAIN index THEN index[m].exp ELSE NoTTL]
    BY <2>1, <2>2, MemberAdded
  <2>4. index'[m] \in IndexEntry(m)
    <3>1. m \in DOMAIN index => index[m].members \subseteq {k \in AllKeys : k.metric = m} /\ index[m].exp \in Nat
      BY <1>2 DEF IndexEntry
    <3>2. key \in {k \in AllKeys : k.metric = m}
      OBVIOUS
    <3> HIDE DEF m
    <3> QED
      BY <1>2, <2>3, <3>1, <3>2 DEF IndexEntry
  <2>5. \A n \in DOMAIN index' : index'[n] \in IndexEntry(n)
    BY <1>2, <2>3, <2>4
  <2> QED
    BY <1>1, <1>4, <1>5, <2>1, <2>3, <2>5 DEF StoreTyped
<1>7. CASE op = "pexpire_idx"
  <2> DEFINE m == key.metric
  <2>1. index' = PExpire(index, m) /\ UNCHANGED <<zsets, buckets>>
    BY <1>7 DEF Effect
  <2>2. /\ DOMAIN index' = DOMAIN index /\ index' = [n \in DOMAIN index' |-> index'[n]]
        /\ \A n \in DOMAIN index :
              index'[n] = IF n = m THEN [index[n] EXCEPT !.exp = clock + retention] ELSE index[n]
    BY <1>2, <2>1, ExpirySet
  <2>3. \A n \in DOMAIN index' : index'[n] \in IndexEntry(n)
    BY <1>2, <2>2 DEF IndexEntry
  <2> QED
    BY <1>1, <1>4, <1>5, <2>1, <2>2, <2>3 DEF StoreTyped
<1>8. CASE op = "zadd_ts"
  <2>1. zsets' = AddMember(zsets, key, ts) /\ UNCHANGED <<index, buckets>>
    BY <1>8 DEF Effect
  <2>2. key \in DOMAIN zsets => zsets[key] = [members |-> zsets[key].members, exp |-> zsets[key].exp]
    BY <1>2 DEF Series
  <2>3. /\ DOMAIN zsets' = DOMAIN zsets \cup {key} /\ zsets' = [n \in DOMAIN zsets' |-> zsets'[n]]
        /\ \A n \in DOMAIN zsets : n # key => zsets'[n] = zsets[n]
        /\ zsets'[key] = [members |-> (IF key \in DOMAIN zsets THEN zsets[key].members ELSE {}) \cup {ts},
                          exp |-> IF key \in DOMAIN zsets THEN zsets[key].exp ELSE NoTTL]
    <3>1. LET r == AddMember(zsets, key, ts)
          IN  /\ DOMAIN r = DOMAIN zsets \cup {key} /\ r = [n \in DOMAIN r |-> r[n]]
              /\ \A n \in DOMAIN zsets : n # key => r[n] = zsets[n]
              /\ r[key] = [members |-> (IF key \in DOMAIN zsets THEN zsets[key].members ELSE {}) \cup {ts},
                           exp |-> IF key \in DOMAIN zsets THEN zsets[key].exp ELSE NoTTL]
      BY <2>2, MemberAdded
    <3> QED
      BY <2>1, <3>1, Zenon
  <2>4. zsets'[key] \in Series
    <3>1. key \in DOMAIN zsets => zsets[key].members \subseteq AllTs /\ zsets[key].exp \in Nat
      BY <1>2 DEF Series
    <3> QED
      BY <1>2, <2>3, <3>1 DEF Series
  <2>5. \A n \in DOMAIN zsets' : zsets'[n] \in Series
    BY <1>2, <2>3, <2>4
  <2> QED
    BY <1>1, <1>2, <1>3, <1>5, <2>1, <2>3, <2>5 DEF StoreTyped
<1>9. CASE op = "zremrangebyscore_ts"
  <2>1. zsets' = ZRemRangeByScore(zsets, key, ts - retention) /\ UNCHANGED <<index, buckets>>
    BY <1>9 DEF Effect
  <2>2. /\ DOMAIN zsets' = DOMAIN zsets /\ zsets' = [n \in DOMAIN zsets' |-> zsets'[n]]
        /\ \A n \in DOMAIN zsets :
              zsets'[n] = IF n = key THEN [zsets[n] EXCEPT !.members = {t \in @ : t > ts - retention}]
                          ELSE zsets[n]
    BY <1>2, <2>1, MembersRemoved
  <2>3. \A n \in DOMAIN zsets' : zsets'[n] \in Series
    BY <1>2, <2>2 DEF Series
  <2> QED
    BY <1>1, <1>2, <1>3, <1>5, <2>1, <2>2, <2>3 DEF StoreTyped
<1>10. CASE op = "pexpire_ts"
  <2>1. zsets' = PExpire(zsets, key) /\ UNCHANGED <<index, buckets>>
    BY <1>10 DEF Effect
  <2>2. /\ DOMAIN zsets' = DOMAIN zsets /\ zsets' = [n \in DOMAIN zsets' |-> zsets'[n]]
        /\ \A n \in DOMAIN zsets :
              zsets'[n] = IF n = key THEN [zsets[n] EXCEPT !.exp = clock + retention] ELSE zsets[n]
    BY <1>2, <2>1, ExpirySet
  <2>3. \A n \in DOMAIN zsets' : zsets'[n] \in Series
    BY <1>2, <2>2 DEF Series
  <2> QED
    BY <1>1, <1>2, <1>3, <1>5, <2>1, <2>2, <2>3 DEF StoreTyped
<1>11. CASE op \in {"incrby", "hincrby_b", "hincrby_total"}
  <2> DEFINE name == <<key, ts>>
             field == IF op = "hincrby_total" THEN "total" ELSE "n"
  <2>1. buckets' = IncrBy(name, field) /\ UNCHANGED <<index, zsets>>
    BY <1>11 DEF Effect
  <2>2. name \in DOMAIN buckets => buckets[name] \in Bucket
    BY <1>2
  <2>3. field \in {"n", "total"} /\ name \in AllKeys \X AllTs
    OBVIOUS
  <2> HIDE DEF name, field
  <2> DEFINE old == IF name \in DOMAIN buckets THEN buckets[name]
                    ELSE [n |-> 0, total |-> 0, exp |-> NoTTL]
  <2>4. /\ DOMAIN buckets' = DOMAIN buckets \cup {name} /\ buckets' = [n \in DOMAIN buckets' |-> buckets'[n]]
        /\ \A n \in DOMAIN buckets : n # name => buckets'[n] = buckets[n]
        /\ buckets'[name] = [n |-> IF field = "n" THEN old.n + 1 ELSE old.n,
                             total |-> IF field = "total" THEN old.total + 1 ELSE old.total,
                             exp |-> old.exp]
    <3>1. LET r == IncrBy(name, field)
          IN  /\ DOMAIN r = DOMAIN buckets \cup {name} /\ r = [n \in DOMAIN r |-> r[n]]
              /\ \A n \in DOMAIN buckets : n # name => r[n] = buckets[n]
              /\ r[name] = [n |-> IF field = "n" THEN old.n + 1 ELSE old.n,
                            total |-> IF field = "total" THEN old.total + 1 ELSE old.total,
                            exp |-> old.exp]
      BY <2>2, <2>3, Incremented
    <3> QED
      BY <2>1, <3>1, Zenon
  <2>5. old \in Bucket
    BY <1>2, <2>2 DEF Bucket
  <2> HIDE DEF old
  <2>6. buckets'[name] \in Bucket
    BY <2>4, <2>5 DEF Bucket
  <2>7. \A n \in DOMAIN buckets' : buckets'[n] \in Bucket
    BY <1>2, <2>4, <2>6
  <2> QED
    BY <1>1, <1>2, <1>3, <1>4, <2>1, <2>3, <2>4, <2>7 DEF StoreTyped, Bucket
<1>12. CASE op = "pexpire_bucket"
  <2> DEFINE name == <<key, ts>>
  <2>1. buckets' = PExpire(buckets, name) /\ UNCHANGED <<index, zsets>>
    BY <1>12 DEF Effect
  <2> HIDE DEF name
  <2>2. /\ DOMAIN buckets' = DOMAIN buckets /\ buckets' = [n \in DOMAIN buckets' |-> buckets'[n]]
        /\ \A n \in DOMAIN buckets :
              buckets'[n] = IF n = name THEN [buckets[n] EXCEPT !.exp = clock + retention]
                            ELSE buckets[n]
    BY <1>2, <2>1, ExpirySet
  <2>3. \A n \in DOMAIN buckets' : buckets'[n] \in Bucket
    BY <1>2, <2>2 DEF Bucket
  <2> QED
    BY <1>1, <1>2, <1>3, <1>4, <2>1, <2>2, <2>3 DEF StoreTyped, Bucket
<1> QED
  BY <1>6, <1>7, <1>8, <1>9, <1>10, <1>11, <1>12 DEF Effect

-----------------------------------------------------------------------------
\* The steps, each by what it changes.

\* Every replica has a mark for each event that happened.
LEMMA Indices ==
    ASSUME StoreTypeOK
    PROVE  /\ DOMAIN happened = 1..Len(happened) /\ Len(happened) \in Nat
           /\ \A w \in Replicas : /\ DOMAIN status[w] = DOMAIN happened /\ status[w] \in Seq(Marks)
                                  /\ \A i \in DOMAIN happened : status[w][i] \in Marks
<1>1. /\ happened \in Seq(Happenings) /\ status \in [Replicas -> Seq(Marks)]
      /\ \A w \in Replicas : Len(status[w]) = Len(happened)
  BY DEF StoreTypeOK
<1>2. DOMAIN happened = 1..Len(happened) /\ Len(happened) \in Nat
  BY <1>1
<1>3. ASSUME NEW w \in Replicas
      PROVE  /\ DOMAIN status[w] = DOMAIN happened /\ status[w] \in Seq(Marks)
             /\ \A i \in DOMAIN happened : status[w][i] \in Marks
  <2>1. status[w] \in Seq(Marks) /\ Len(status[w]) = Len(happened)
    BY <1>1
  <2>2. DOMAIN status[w] = 1..Len(status[w])
    BY <2>1
  <2>3. DOMAIN status[w] = DOMAIN happened
    BY <1>2, <2>1, <2>2, Zenon
  <2>4. \A i \in DOMAIN status[w] : status[w][i] \in Marks
    BY <2>1
  <2> QED
    BY <2>1, <2>3, <2>4
<1> QED
  BY <1>2, <1>3

\* An event is added, and no write has begun with it.
LEMMA HappensIs ==
    ASSUME StoreTypeOK, scenario' = scenario, NEW type \in EventTypes, Happens(type)
    PROVE  /\ StoreTypeOK' /\ UNCHANGED <<clock, pipes, index, zsets, buckets, query>>
           /\ DOMAIN happened \subseteq DOMAIN happened'
           /\ \A i \in DOMAIN happened : happened'[i] = happened[i]
           /\ \A w \in Replicas :
                 /\ \A i \in DOMAIN happened : status'[w][i] = status[w][i]
                 /\ \A i \in DOMAIN happened' : i \notin DOMAIN happened => status'[w][i] = "heard"
           /\ \A w \in Replicas : Sending(w)' = Sending(w)
           /\ \A marks \in SUBSET Begun : Writes(marks)' = Writes(marks)
<1> DEFINE e == [kind |-> type.kind, jobName |-> type.jobName, errorSignature |-> type.errorSignature,
                 spans |-> type.spans, at |-> clock]
           N == Len(happened)
<1>1. /\ happened' = Append(happened, e) /\ status' = [w \in Replicas |-> Append(status[w], "heard")]
      /\ UNCHANGED <<clock, pipes, index, zsets, buckets, query>>
  BY DEF Happens, redis
<1>2. Happenings' = Happenings /\ \A m : IndexEntry(m)' = IndexEntry(m)
  BY <1>1, SameBounds
<1>3. AllKeys' = AllKeys /\ AllTs' = AllTs /\ Series' = Series /\ MaxClock' = MaxClock
  BY <1>1, SameBounds
<1>4. clock \in 0..MaxClock /\ MaxClock \in Nat /\ clock \in 0..clock
  BY Parameters DEF StoreTypeOK
<1>5. e \in Happenings
  BY <1>4 DEF Happenings
<1>6. happened \in Seq(Happenings) /\ N \in Nat /\ DOMAIN happened = 1..N
  BY DEF StoreTypeOK
<1> HIDE DEF e
<1>7. /\ happened' \in Seq(Happenings) /\ Len(happened') = N + 1 /\ DOMAIN happened' = 1..(N + 1)
      /\ \A i \in 1..N : happened'[i] = happened[i]
  BY <1>1, <1>5, <1>6
<1>8. \A w \in Replicas :
         /\ status'[w] \in Seq(Marks) /\ Len(status'[w]) = N + 1
         /\ \A i \in 1..N : status'[w][i] = status[w][i]
         /\ status'[w][N + 1] = "heard"
  <2> SUFFICES ASSUME NEW w \in Replicas
               PROVE  /\ status'[w] \in Seq(Marks) /\ Len(status'[w]) = N + 1
                      /\ \A i \in 1..N : status'[w][i] = status[w][i]
                      /\ status'[w][N + 1] = "heard"
    OBVIOUS
  <2>1. status[w] \in Seq(Marks) /\ DOMAIN status[w] = 1..N /\ "heard" \in Marks
    BY <1>6, Indices DEF Marks
  <2>2. status'[w] = Append(status[w], "heard")
    BY <1>1
  <2>len. Len(status[w]) = N
    BY <1>6, <2>1
  <2> DEFINE s == status[w]
             n == Len(s)
  <2> HIDE DEF s
  <2>3. /\ Append(s, "heard") \in Seq(Marks) /\ Len(Append(s, "heard")) = n + 1
        /\ \A i \in 1..n : Append(s, "heard")[i] = s[i]
        /\ Append(s, "heard")[n + 1] = "heard"
    BY <2>1 DEF s
  <2> QED
    BY <2>2, <2>3, <2>len, Zenon DEF s
<1>9. status' \in [Replicas -> Seq(Marks)]
  BY <1>1, <1>8
<1>10. \A w \in Replicas : DOMAIN status'[w] = DOMAIN happened' /\ DOMAIN status[w] = DOMAIN happened
  <2> SUFFICES ASSUME NEW w \in Replicas
               PROVE  DOMAIN status'[w] = DOMAIN happened' /\ DOMAIN status[w] = DOMAIN happened
    OBVIOUS
  <2>1. status'[w] \in Seq(Marks) /\ Len(status'[w]) = N + 1
    BY <1>8
  <2>2. DOMAIN status'[w] = 1..Len(status'[w])
    BY <2>1
  <2> QED
    BY <1>7, <2>1, <2>2, Indices, Zenon
<1>11. StoreTypeOK'
  <2>1. scenario' \in Scenarios /\ (clock \in 0..MaxClock)' /\ (happened \in Seq(Happenings))'
    BY <1>1, <1>2, <1>3, <1>4, <1>7 DEF StoreTypeOK
  <2>2. \A w \in Replicas : Len(status'[w]) = Len(happened')
    BY <1>7, <1>8
  <2>3. /\ (index = [m \in DOMAIN index |-> index[m]])'
        /\ (\A m \in DOMAIN index : index[m] \in IndexEntry(m))'
    BY <1>1, <1>2 DEF StoreTypeOK
  <2>4. /\ (zsets \in [DOMAIN zsets -> Series])' /\ (DOMAIN zsets \subseteq AllKeys)'
        /\ (buckets \in [DOMAIN buckets -> Bucket])' /\ (DOMAIN buckets \subseteq AllKeys \X AllTs)'
    BY <1>1, <1>3 DEF StoreTypeOK, Bucket
  <2> QED
    BY <1>9, <2>1, <2>2, <2>3, <2>4 DEF StoreTypeOK, Marks
<1>12. ASSUME NEW w \in Replicas PROVE Sending(w)' = Sending(w)
  <2>1. \A i \in 1..(N + 1) : i \notin 1..N => i = N + 1
    BY <1>6
  <2>2. Sending(w)' = {i \in DOMAIN happened' : status'[w][i] = "sent"}
    BY <1>10 DEF Sending
  <2>3. Sending(w) = {i \in DOMAIN happened : status[w][i] = "sent"}
    BY <1>10 DEF Sending
  <2> QED
    BY <1>6, <1>7, <1>8, <2>1, <2>2, <2>3
<1>13. ASSUME NEW marks \in SUBSET Begun PROVE Writes(marks)' = Writes(marks)
  <2>1. ASSUME NEW w \in Replicas
        PROVE  {j \in DOMAIN status'[w] : status'[w][j] \in marks} = {j \in DOMAIN status[w] : status[w][j] \in marks}
    <3>1. \A i \in 1..(N + 1) : i \notin 1..N => i = N + 1
      BY <1>6
    <3>2. "heard" \notin marks
      BY DEF Begun
    <3>3. DOMAIN status'[w] = 1..(N + 1) /\ DOMAIN status[w] = 1..N /\ 1..N \subseteq 1..(N + 1)
      BY <1>6, <1>7, <1>10
    <3> QED
      BY <1>8, <3>1, <3>2, <3>3
  <2> QED
    BY <2>1 DEF Writes
<1>14. \A i \in 1..(N + 1) : i \notin 1..N => i = N + 1
  BY <1>6
<1>15. 1..N \subseteq 1..(N + 1)
  BY <1>6
<1> QED
  BY <1>1, <1>6, <1>7, <1>8, <1>11, <1>12, <1>13, <1>14, <1>15

\* The mark of one write changes, or of none.
OneMark(w, i, mark) ==
    /\ status' \in [Replicas -> Seq(Marks)]
    /\ \A v \in Replicas :
          /\ Len(status'[v]) = Len(status[v]) /\ DOMAIN status'[v] = DOMAIN status[v]
          /\ \A j \in DOMAIN happened :
                status'[v][j] = IF v = w /\ j = i THEN mark ELSE status[v][j]

\* The writes in one of the given states, when the mark of one has changed.
LEMMA WritesAfter ==
    ASSUME StoreTypeOK, NEW w \in Replicas, NEW i \in DOMAIN happened, NEW mark, OneMark(w, i, mark),
           NEW marks
    PROVE  /\ Writes(marks)' = (Writes(marks) \ {<<w, i>>}) \cup IF mark \in marks THEN {<<w, i>>} ELSE {}
           /\ <<w, i>> \in Writes(marks) <=> status[w][i] \in marks
<1>1. \A v \in Replicas : DOMAIN status[v] = DOMAIN happened /\ DOMAIN status'[v] = DOMAIN happened
  BY Indices DEF OneMark
<1>2. Writes(marks) = {x \in Replicas \X DOMAIN happened : status[x[1]][x[2]] \in marks}
  <2>1. \A v \in Replicas : {j \in DOMAIN status[v] : status[v][j] \in marks}
                                = {j \in DOMAIN happened : status[v][j] \in marks}
    BY <1>1
  <2> QED
    BY <2>1 DEF Writes
<1>3. Writes(marks)' = {x \in Replicas \X DOMAIN happened : status'[x[1]][x[2]] \in marks}
  <2>1. \A v \in Replicas : {j \in DOMAIN status'[v] : status'[v][j] \in marks}
                                = {j \in DOMAIN happened : status'[v][j] \in marks}
    BY <1>1
  <2> QED
    BY <2>1 DEF Writes
<1>4. \A v \in Replicas, j \in DOMAIN happened :
         status'[v][j] = IF v = w /\ j = i THEN mark ELSE status[v][j]
  BY DEF OneMark
<1>5. \A v \in Replicas, j \in DOMAIN happened :
         <<v, j>> \in Writes(marks)' <=> <<v, j>> \in (Writes(marks) \ {<<w, i>>})
                                             \cup IF mark \in marks THEN {<<w, i>>} ELSE {}
  BY <1>2, <1>3, <1>4
<1>6. Writes(marks) \subseteq Replicas \X DOMAIN happened /\ Writes(marks)' \subseteq Replicas \X DOMAIN happened
  BY <1>2, <1>3
<1> DEFINE W1 == Writes(marks)'
           W2 == (Writes(marks) \ {<<w, i>>}) \cup IF mark \in marks THEN {<<w, i>>} ELSE {}
<1>7. W2 \subseteq Replicas \X DOMAIN happened
  BY <1>6
<1>8. W1 = W2
  <2>1. /\ W1 \subseteq Replicas \X DOMAIN happened
        /\ \A v \in Replicas, j \in DOMAIN happened : <<v, j>> \in W1 <=> <<v, j>> \in W2
    BY <1>5, <1>6
  <2> HIDE DEF W1, W2
  <2> QED
    BY <1>7, <2>1
<1> QED
  BY <1>2, <1>8

\* Only marks, commands that are under way, and the keys of Redis change.
LEMMA StepTyped ==
    ASSUME StoreTypeOK, UNCHANGED <<scenario, clock, happened>>,
           NEW w, NEW i, NEW mark, OneMark(w, i, mark), StoreTyped'
    PROVE  StoreTypeOK'
<1>1. Happenings' = Happenings /\ MaxClock' = MaxClock
  BY SameBounds
<1>2. \A v \in Replicas : Len(status'[v]) = Len(happened')
  BY DEF StoreTypeOK, OneMark
<1>3. (clock \in 0..MaxClock)' /\ scenario' \in Scenarios /\ (happened \in Seq(Happenings))'
  BY <1>1 DEF StoreTypeOK
<1>4. (status \in [Replicas -> Seq(Marks)])'
  BY DEF OneMark, Marks
<1> QED
  BY <1>2, <1>3, <1>4 DEF StoreTypeOK, StoreTyped

\* A write that is under way: the event it is of, and what it has still to do.
LEMMA UnderWay ==
    ASSUME StoreTypeOK, PipesOK, NEW w \in Replicas, pipes[w] # <<>>
    PROVE  \E i \in DOMAIN happened :
              Sending(w) = {i} /\ PipeOf(pipes[w], happened[i]) /\ status[w][i] = "sent"
<1>1. PICK i \in DOMAIN happened : Sending(w) = {i} /\ PipeOf(pipes[w], happened[i])
  BY DEF PipesOK
<1>2. status[w][i] = "sent"
  BY <1>1 DEF Sending
<1> QED
  BY <1>1, <1>2

\* What a replica is sending, by the marks of its writes.
LEMMA SendingIs ==
    ASSUME StoreTypeOK, NEW w \in Replicas
    PROVE  Sending(w) = {i \in DOMAIN happened : status[w][i] = "sent"}
BY Indices DEF Sending

\* A write begins: its commands are sent, none is executed.
LEMMA WriteIs ==
    ASSUME StoreTypeOK, PipesOK, scenario' = scenario,
           NEW w \in Replicas, NEW i \in DOMAIN status[w], write(w, i)
    PROVE  /\ i \in DOMAIN happened /\ status[w][i] = "heard" /\ pipes[w] = <<>>
           /\ UNCHANGED <<clock, happened, index, zsets, buckets, query>>
           /\ OneMark(w, i, "sent") /\ StoreTypeOK' /\ PipesOK'
           /\ \A v \in Replicas : v # w => pipes'[v] = pipes[v]
           /\ pipes'[w] # <<>> /\ Head(pipes'[w]).op = "sadd_idx"
           /\ ToSet(pipes'[w]) = CommandsOf(happened[i])
<1> DEFINE e == happened[i]
           p == Pipeline(eventToAggregates(e, width))
<1>1. /\ status[w][i] = "heard" /\ pipes[w] = <<>> /\ pipes' = [pipes EXCEPT ![w] = p]
      /\ status' = Marked(w, {i}, "sent")
      /\ UNCHANGED <<clock, happened, index, zsets, buckets, query>>
  BY DEF write, redis
<1>2. i \in DOMAIN happened /\ IsEvent(e)
  BY Indices, HappenedIs
<1> HIDE DEF p
<1>3. /\ p \in Seq(CommandsOf(e)) /\ p # <<>> /\ IsInjective(p) /\ InOrder(p) /\ p[1].op = "sadd_idx"
      /\ ToSet(p) = CommandsOf(e)
  <2> HIDE DEF e
  <2> QED
    BY <1>2, PipelineIs DEF p
<1>4. status \in [Replicas -> Seq(Marks)] /\ "sent" \in Marks
  BY DEF StoreTypeOK, Marks
<1>5. LET st == Marked(w, {i}, "sent")
      IN  /\ st \in [Replicas -> Seq(Marks)]
          /\ \A v \in Replicas :
                /\ Len(st[v]) = Len(status[v]) /\ DOMAIN st[v] = DOMAIN status[v]
                /\ \A j \in DOMAIN status[v] :
                      st[v][j] = IF v = w /\ j \in {i} THEN "sent" ELSE status[v][j]
  BY <1>4, MarkedIs
<1>6. OneMark(w, i, "sent")
  BY <1>1, <1>5, Indices DEF OneMark
<1>7. StoreTyped'
  <2>1. /\ AllKeys' = AllKeys /\ AllTs' = AllTs /\ Series' = Series
        /\ \A m : IndexEntry(m)' = IndexEntry(m)
    BY SameBounds
  <2> QED
    BY <1>1, <2>1 DEF StoreTypeOK, StoreTyped, Bucket
<1>8. StoreTypeOK'
  BY <1>1, <1>6, <1>7, StepTyped
<1>9. /\ pipes'[w] = p /\ \A v \in Replicas : v # w => pipes'[v] = pipes[v]
      /\ pipes' = [v \in Replicas |-> pipes'[v]]
  BY <1>1 DEF PipesOK
<1>10. \A v \in Replicas : Sending(v)' = IF v = w THEN {i} ELSE Sending(v)
  <2> SUFFICES ASSUME NEW v \in Replicas PROVE Sending(v)' = IF v = w THEN {i} ELSE Sending(v)
    OBVIOUS
  <2>1. Sending(v) = {j \in DOMAIN happened : status[v][j] = "sent"}
    BY SendingIs
  <2>2. Sending(v)' = {j \in DOMAIN happened : status'[v][j] = "sent"}
    BY <1>6, Indices DEF Sending, OneMark
  <2>3. \A j \in DOMAIN happened : status'[v][j] = IF v = w /\ j = i THEN "sent" ELSE status[v][j]
    BY <1>6 DEF OneMark
  <2>4. v = w => Sending(v) = {}
    BY <1>1 DEF PipesOK
  <2> QED
    BY <1>2, <2>1, <2>2, <2>3, <2>4
<1>11. PipesOK'
  <2>1. ASSUME NEW v \in Replicas
        PROVE  \/ pipes'[v] = <<>> /\ Sending(v)' = {}
               \/ /\ pipes'[v] # <<>>
                  /\ \E j \in DOMAIN happened' : Sending(v)' = {j} /\ PipeOf(pipes'[v], happened'[j])
    <3>1. CASE v = w
      <4>1. PipeOf(p, e)
        BY <1>3 DEF PipeOf
      <4> QED
        BY <1>1, <1>2, <1>3, <1>9, <1>10, <3>1, <4>1
    <3>2. CASE v # w
      BY <1>1, <1>9, <1>10, <3>2 DEF PipesOK
    <3> QED
      BY <3>1, <3>2
  <2>2. \A j \in DOMAIN happened' : \A q : PipeOf(q, happened[j])' <=> PipeOf(q, happened'[j])
    BY <1>1 DEF PipeOf
  <2> QED
    BY <1>9, <2>1 DEF PipesOK
<1>12. Head(p) = p[1]
  BY <1>3
<1> QED
  BY <1>1, <1>2, <1>3, <1>6, <1>8, <1>9, <1>11, <1>12

\* Write i of replica w has its next command executed; with the last one it is done.
Executed(w, i) ==
    LET p == pipes[w]
    IN  /\ p # <<>> /\ PipeOf(p, happened[i]) /\ Sending(w) = {i} /\ status[w][i] = "sent"
        /\ Effect(Head(p).op, Head(p).key, Head(p).ts)
        /\ pipes'[w] = Tail(p) /\ \A v \in Replicas : v # w => pipes'[v] = pipes[v]
        /\ OneMark(w, i, IF Tail(p) = <<>> THEN "settled" ELSE "sent")
        /\ UNCHANGED <<scenario, clock, happened, query>>

\* How the marks tell which writes are under way.
LEMMA SendingAfter ==
    ASSUME StoreTypeOK, NEW w \in Replicas, NEW i \in DOMAIN happened, NEW mark, OneMark(w, i, mark),
           UNCHANGED happened
    PROVE  \A v \in Replicas :
              Sending(v)' = IF v = w THEN (Sending(w) \ {i}) \cup (IF mark = "sent" THEN {i} ELSE {})
                            ELSE Sending(v)
<1> SUFFICES ASSUME NEW v \in Replicas
             PROVE  Sending(v)' = IF v = w THEN (Sending(w) \ {i}) \cup (IF mark = "sent" THEN {i} ELSE {})
                                  ELSE Sending(v)
  OBVIOUS
<1>1. Sending(v) = {j \in DOMAIN happened : status[v][j] = "sent"}
  BY SendingIs
<1>2. Sending(v)' = {j \in DOMAIN happened : status'[v][j] = "sent"}
  BY Indices DEF Sending, OneMark
<1>3. \A j \in DOMAIN happened : status'[v][j] = IF v = w /\ j = i THEN mark ELSE status[v][j]
  BY DEF OneMark
<1> QED
  BY <1>1, <1>2, <1>3

\* Redis executes a command: of which write, and the shapes stay.
LEMMA ExecutesIs ==
    ASSUME StoreTypeOK, PipesOK, scenario' = scenario, NEW w \in Replicas, Executes(w)
    PROVE  \E i \in DOMAIN happened : Executed(w, i) /\ StoreTypeOK' /\ PipesOK'
<1> DEFINE p == pipes[w]
           c == Head(p)
<1>1. /\ p # <<>> /\ Effect(c.op, c.key, c.ts) /\ pipes' = [pipes EXCEPT ![w] = Tail(p)]
      /\ status' = IF Len(p) = 1 THEN Marked(w, Sending(w), "settled") ELSE status
      /\ UNCHANGED <<clock, happened, query>>
  BY DEF Executes
<1>2. PICK i \in DOMAIN happened : Sending(w) = {i} /\ PipeOf(p, happened[i]) /\ status[w][i] = "sent"
  BY <1>1, UnderWay
<1> DEFINE e == happened[i]
<1>3. p \in Seq(CommandsOf(e))
  BY <1>2 DEF PipeOf
<1> HIDE DEF p, e
<1>4. /\ c.ts = BucketOf(e) /\ c.key \in ToSet(EventKeys(e)) /\ PipeOf(Tail(p), e)
  BY <1>1, <1>2, HeadIs DEF e
<1>5. c.key \in AllKeys /\ c.ts \in AllTs
  BY <1>4, HappenedIs DEF e
<1>6. StoreTyped'
  BY <1>1, <1>5, EffectTyped
<1>7. Len(p) = 1 <=> Tail(p) = <<>>
  <2>1. Tail(p) \in Seq(CommandsOf(e)) /\ Len(Tail(p)) = Len(p) - 1 /\ Len(p) \in Nat
    BY <1>1, <1>3
  <2> DEFINE q == Tail(p)
  <2> HIDE DEF q
  <2>q. q \in Seq(CommandsOf(e))
    BY <2>1 DEF q
  <2>2. q = <<>> <=> Len(q) = 0
    BY <2>q
  <2> QED
    BY <2>1, <2>2 DEF q
<1>8. OneMark(w, i, IF Tail(p) = <<>> THEN "settled" ELSE "sent")
  <2>1. status \in [Replicas -> Seq(Marks)] /\ "settled" \in Marks
    BY DEF StoreTypeOK, Marks
  <2>2. CASE Len(p) = 1
    <3>1. LET st == Marked(w, Sending(w), "settled")
          IN  /\ st \in [Replicas -> Seq(Marks)]
              /\ \A v \in Replicas :
                    /\ Len(st[v]) = Len(status[v]) /\ DOMAIN st[v] = DOMAIN status[v]
                    /\ \A j \in DOMAIN status[v] :
                          st[v][j] = IF v = w /\ j \in Sending(w) THEN "settled" ELSE status[v][j]
      BY <2>1, MarkedIs
    <3>2. status' = Marked(w, Sending(w), "settled")
      BY <1>1, <2>2
    <3>3. OneMark(w, i, "settled")
      BY <1>2, <3>1, <3>2, Indices DEF OneMark
    <3> QED
      BY <1>7, <2>2, <3>3
  <2>3. CASE Len(p) # 1
    <3>1. OneMark(w, i, "sent")
      BY <1>1, <1>2, <2>1, <2>3, Indices DEF OneMark
    <3> QED
      BY <1>7, <2>3, <3>1
  <2> QED
    BY <2>2, <2>3
<1>9. StoreTypeOK'
  BY <1>1, <1>6, <1>8, StepTyped
<1>10. /\ pipes'[w] = Tail(p) /\ \A v \in Replicas : v # w => pipes'[v] = pipes[v]
       /\ pipes' = [v \in Replicas |-> pipes'[v]]
  BY <1>1 DEF PipesOK
<1>11. Executed(w, i)
  BY <1>1, <1>2, <1>8, <1>10 DEF Executed, p
<1>12. \A v \in Replicas : Sending(v)' = IF v = w THEN (IF Tail(p) = <<>> THEN {} ELSE {i}) ELSE Sending(v)
  <2> DEFINE mark == IF Tail(p) = <<>> THEN "settled" ELSE "sent"
  <2>1. mark = "sent" <=> Tail(p) # <<>>
    OBVIOUS
  <2>2. OneMark(w, i, mark)
    BY <1>8
  <2> HIDE DEF mark
  <2>3. \A v \in Replicas :
           Sending(v)' = IF v = w THEN (Sending(w) \ {i}) \cup (IF mark = "sent" THEN {i} ELSE {})
                         ELSE Sending(v)
    BY <1>1, <2>2, SendingAfter
  <2> QED
    BY <1>2, <2>1, <2>3
<1>13. PipesOK'
  <2> SUFFICES ASSUME NEW v \in Replicas
               PROVE  \/ pipes'[v] = <<>> /\ Sending(v)' = {}
                      \/ /\ pipes'[v] # <<>>
                         /\ \E j \in DOMAIN happened' : Sending(v)' = {j} /\ PipeOf(pipes'[v], happened'[j])
    BY <1>10 DEF PipesOK
  <2>1. CASE v = w
    BY <1>1, <1>2, <1>4, <1>10, <1>12, <2>1 DEF e
  <2>2. CASE v # w
    BY <1>1, <1>10, <1>12, <2>2 DEF PipesOK
  <2> QED
    BY <2>1, <2>2
<1> QED
  BY <1>9, <1>11, <1>13

\* A command that is executed is done, and no other.
LEMMA DidAfter ==
    ASSUME StoreTypeOK, NEW w \in Replicas, NEW i \in DOMAIN happened, Executed(w, i),
           NEW v \in Replicas, NEW j \in DOMAIN happened, NEW op, NEW key
    PROVE  Did(v, j, op, key)' =>
              \/ Did(v, j, op, key)
              \/ /\ v = w /\ j = i /\ Head(pipes[w]) = Command(op, key, BucketOf(happened[j]))
                 /\ status[v][j] = "sent"
<1> DEFINE p == pipes[w]
           x == Command(op, key, BucketOf(happened[j]))
<1>1. /\ p # <<>> /\ PipeOf(p, happened[i]) /\ Sending(w) = {i} /\ status[w][i] = "sent"
      /\ pipes'[w] = Tail(p) /\ \A u \in Replicas : u # w => pipes'[u] = pipes[u]
      /\ OneMark(w, i, IF Tail(p) = <<>> THEN "settled" ELSE "sent") /\ UNCHANGED happened
  BY DEF Executed
<1>2. \A u \in Replicas, k \in DOMAIN happened :
         status'[u][k] = IF u = w /\ k = i THEN (IF Tail(p) = <<>> THEN "settled" ELSE "sent") ELSE status[u][k]
  BY <1>1 DEF OneMark
<1>3. ToSet(Tail(p)) = ToSet(p) \ {Head(p)}
  BY <1>1, HeadIs
<1>4. Command(op, key, BucketOf(happened[j]))' = x
  BY <1>1 DEF Command, BucketOf
<1>5. Did(v, j, op, key)' <=> \/ status'[v][j] = "settled"
                              \/ status'[v][j] = "sent" /\ x \notin ToSet(pipes'[v])
  BY <1>4 DEF Did, ToSet
<1>6. Did(v, j, op, key) <=> \/ status[v][j] = "settled"
                             \/ status[v][j] = "sent" /\ x \notin ToSet(pipes[v])
  BY DEF Did
<1> HIDE DEF x
<1>7. CASE v # w
  BY <1>1, <1>2, <1>5, <1>6, <1>7
<1>8. CASE v = w /\ j # i
  <2>1. status[w][j] # "sent"
    BY <1>1, <1>8, SendingIs
  <2> QED
    BY <1>1, <1>2, <1>5, <1>6, <1>8, <2>1
<1>9. CASE v = w /\ j = i
  <2>1. CASE Tail(p) = <<>>
    <3>1. ToSet(Tail(p)) = {}
      BY <2>1 DEF ToSet
    <3> QED
      BY <1>1, <1>2, <1>3, <1>5, <1>6, <1>9, <3>1 DEF x
  <2>2. CASE Tail(p) # <<>>
    BY <1>1, <1>2, <1>3, <1>5, <1>6, <1>9, <2>2 DEF x
  <2> QED
    BY <2>1, <2>2
<1> QED
  BY <1>7, <1>8, <1>9

\* Write i of replica w is cut short.
Died(w, i) ==
    /\ pipes[w] # <<>> /\ PipeOf(pipes[w], happened[i]) /\ Sending(w) = {i} /\ status[w][i] = "sent"
    /\ pipes'[w] = <<>> /\ \A v \in Replicas : v # w => pipes'[v] = pipes[v]
    /\ OneMark(w, i, "lost")
    /\ UNCHANGED <<scenario, clock, happened, index, zsets, buckets, query>>

\* A pipeline is cut short: of which write, and the shapes stay.
LEMMA DiesIs ==
    ASSUME StoreTypeOK, PipesOK, scenario' = scenario, NEW w \in Replicas, Dies(w)
    PROVE  \E i \in DOMAIN happened : Died(w, i) /\ StoreTypeOK' /\ PipesOK'
<1>1. /\ pipes[w] # <<>> /\ pipes' = [pipes EXCEPT ![w] = <<>>]
      /\ status' = Marked(w, Sending(w), "lost")
      /\ UNCHANGED <<clock, happened, index, zsets, buckets, query>>
  BY DEF Dies, redis
<1>2. PICK i \in DOMAIN happened :
         Sending(w) = {i} /\ PipeOf(pipes[w], happened[i]) /\ status[w][i] = "sent"
  BY <1>1, UnderWay
<1>3. status \in [Replicas -> Seq(Marks)] /\ "lost" \in Marks
  BY DEF StoreTypeOK, Marks
<1>4. LET st == Marked(w, Sending(w), "lost")
      IN  /\ st \in [Replicas -> Seq(Marks)]
          /\ \A v \in Replicas :
                /\ Len(st[v]) = Len(status[v]) /\ DOMAIN st[v] = DOMAIN status[v]
                /\ \A j \in DOMAIN status[v] :
                      st[v][j] = IF v = w /\ j \in Sending(w) THEN "lost" ELSE status[v][j]
  BY <1>3, MarkedIs
<1>5. OneMark(w, i, "lost")
  BY <1>1, <1>2, <1>4, Indices DEF OneMark
<1>6. StoreTyped'
  <2>1. /\ AllKeys' = AllKeys /\ AllTs' = AllTs /\ Series' = Series
        /\ \A m : IndexEntry(m)' = IndexEntry(m)
    BY SameBounds
  <2> QED
    BY <1>1, <2>1 DEF StoreTypeOK, StoreTyped, Bucket
<1>7. StoreTypeOK'
  BY <1>1, <1>5, <1>6, StepTyped
<1>8. /\ pipes'[w] = <<>> /\ \A v \in Replicas : v # w => pipes'[v] = pipes[v]
      /\ pipes' = [v \in Replicas |-> pipes'[v]]
  BY <1>1 DEF PipesOK
<1>9. \A v \in Replicas : Sending(v)' = IF v = w THEN {} ELSE Sending(v)
  BY <1>1, <1>2, <1>5, SendingAfter
<1>10. PipesOK'
  <2> SUFFICES ASSUME NEW v \in Replicas
               PROVE  \/ pipes'[v] = <<>> /\ Sending(v)' = {}
                      \/ /\ pipes'[v] # <<>>
                         /\ \E j \in DOMAIN happened' : Sending(v)' = {j} /\ PipeOf(pipes'[v], happened'[j])
    BY <1>8 DEF PipesOK
  <2> QED
    BY <1>1, <1>8, <1>9 DEF PipesOK
<1> QED
  BY <1>1, <1>2, <1>5, <1>7, <1>8, <1>10 DEF Died

\* Time passes while no pipeline is under way, and what has expired goes.
Survives(map, name) == map[name].exp = NoTTL \/ map[name].exp >= clock + 1
Ticked(map, later) ==
    /\ DOMAIN later = {name \in DOMAIN map : Survives(map, name)}
    /\ \A name \in DOMAIN later : later[name] = map[name]
    /\ later = [name \in DOMAIN later |-> later[name]]

\* The clock moves on: nothing is under way, what has expired is dropped, the shapes stay.
LEMMA TickIs ==
    ASSUME StoreTypeOK, PipesOK, scenario' = scenario, Tick
    PROVE  /\ AtRest /\ clock' = clock + 1 /\ clock \in Nat
           /\ Ticked(index, index') /\ Ticked(zsets, zsets') /\ Ticked(buckets, buckets')
           /\ UNCHANGED <<happened, status, pipes, query>>
           /\ StoreTypeOK' /\ PipesOK'
<1>1. /\ clock < MaxClock /\ AtRest /\ clock' = clock + 1
      /\ UNCHANGED <<happened, status, pipes, query>>
  BY DEF Tick, AtRest
<1>2. Ticked(index, index') /\ Ticked(zsets, zsets') /\ Ticked(buckets, buckets')
  <2>1. /\ index' = [m \in {n \in DOMAIN index : Survives(index, n)} |-> index[m]]
        /\ zsets' = [m \in {n \in DOMAIN zsets : Survives(zsets, n)} |-> zsets[m]]
        /\ buckets' = [m \in {n \in DOMAIN buckets : Survives(buckets, n)} |-> buckets[m]]
    BY DEF Tick, RestrictDomain, Restrict, Survives
  <2> QED
    BY <2>1 DEF Ticked
<1>3. clock \in 0..MaxClock /\ MaxClock \in Nat /\ clock \in Nat /\ clock' \in 0..MaxClock
  BY <1>1, Parameters DEF StoreTypeOK
<1>4. /\ AllKeys' = AllKeys /\ AllTs' = AllTs /\ Series' = Series /\ MaxClock' = MaxClock
      /\ \A m : IndexEntry(m)' = IndexEntry(m)
  BY SameBounds
<1>5. (happened \in Seq(Happenings))'
  <2>1. Happenings \subseteq Happenings'
    <3>1. 0..clock \subseteq 0..(clock + 1)
      BY <1>3
    <3>2. EventTypes' = EventTypes
      BY SameBounds
    <3> QED
      BY <1>1, <3>1, <3>2 DEF Happenings
  <2>2. happened \in Seq(Happenings)
    BY DEF StoreTypeOK
  <2> DEFINE H == Happenings
             H1 == Happenings'
  <2> HIDE DEF H, H1
  <2>3. happened \in Seq(H) /\ H \subseteq H1
    BY <2>1, <2>2 DEF H, H1
  <2>4. happened \in Seq(H1)
    BY <2>3
  <2> QED
    BY <1>1, <2>4 DEF H1
<1>6. StoreTyped'
  <2>1. /\ index' = [m \in DOMAIN index' |-> index'[m]]
        /\ \A m \in DOMAIN index' : index'[m] \in IndexEntry(m)
    BY <1>2 DEF Ticked, StoreTypeOK
  <2>2. zsets' \in [DOMAIN zsets' -> Series] /\ DOMAIN zsets' \subseteq AllKeys
    BY <1>2 DEF Ticked, StoreTypeOK
  <2>3. buckets' \in [DOMAIN buckets' -> Bucket] /\ DOMAIN buckets' \subseteq AllKeys \X AllTs
    BY <1>2 DEF Ticked, StoreTypeOK
  <2> QED
    BY <1>4, <2>1, <2>2, <2>3 DEF StoreTyped, Bucket
<1>7. StoreTypeOK'
  BY <1>1, <1>3, <1>4, <1>5, <1>6 DEF StoreTypeOK, StoreTyped, Marks
<1>8. PipesOK'
  BY <1>1 DEF PipesOK, Sending
<1> QED
  BY <1>1, <1>2, <1>3, <1>7, <1>8

\* A step of the query, or none.
Watching == UNCHANGED <<scenario, clock, happened, status, pipes, index, zsets, buckets>>

\* While only a query goes on, the shapes stay.
LEMMA WatchingIs ==
    ASSUME StoreTypeOK, PipesOK, Watching
    PROVE  StoreTypeOK' /\ PipesOK'
<1>1. /\ AllKeys' = AllKeys /\ AllTs' = AllTs /\ Series' = Series /\ MaxClock' = MaxClock
      /\ \A m : IndexEntry(m)' = IndexEntry(m)
      /\ Happenings' = Happenings
  BY SameBounds DEF Watching
<1>2. StoreTypeOK'
  BY <1>1 DEF StoreTypeOK, Watching, Marks, Bucket
<1>3. PipesOK'
  BY DEF PipesOK, Sending, Watching
<1> QED
  BY <1>2, <1>3

\* An event that happens changes nothing of the pipelines under way.
LEMMA HappensKeepsPipes ==
    ASSUME StoreTypeOK, PipesOK, scenario' = scenario, NEW type \in EventTypes, Happens(type)
    PROVE  PipesOK'
<1>1. /\ UNCHANGED pipes /\ DOMAIN happened \subseteq DOMAIN happened'
      /\ \A i \in DOMAIN happened : happened'[i] = happened[i]
      /\ \A w \in Replicas : Sending(w)' = Sending(w)
  BY HappensIs
<1> SUFFICES ASSUME NEW v \in Replicas
             PROVE  \/ pipes'[v] = <<>> /\ Sending(v)' = {}
                    \/ /\ pipes'[v] # <<>>
                       /\ \E j \in DOMAIN happened' : Sending(v)' = {j} /\ PipeOf(pipes'[v], happened'[j])
  BY <1>1 DEF PipesOK
<1>2. \/ pipes[v] = <<>> /\ Sending(v) = {}
      \/ /\ pipes[v] # <<>>
         /\ \E j \in DOMAIN happened : Sending(v) = {j} /\ PipeOf(pipes[v], happened[j])
  BY DEF PipesOK
<1> QED
  BY <1>1, <1>2

\* What a command does, entry by entry.
LEMMA IndexAfter ==
    ASSUME StoreTypeOK, NEW op, NEW key, NEW ts, Effect(op, key, ts)
    PROVE  /\ DOMAIN index' = DOMAIN index \cup IF op = "sadd_idx" THEN {key.metric} ELSE {}
           /\ \A m : /\ MembersOf(index', m) = MembersOf(index, m)
                                                \cup IF op = "sadd_idx" /\ m = key.metric THEN {key} ELSE {}
                     /\ ExpOf(index', m) = IF op = "pexpire_idx" /\ m = key.metric /\ m \in DOMAIN index
                                           THEN clock + retention ELSE ExpOf(index, m)
<1>0. \A m \in DOMAIN index : index[m] \in IndexEntry(m)
  BY DEF StoreTypeOK
<1> DEFINE metric == key.metric
<1>1. CASE op = "sadd_idx"
  <2>1. index' = AddMember(index, metric, key)
    BY <1>1 DEF Effect
  <2>2. metric \in DOMAIN index => index[metric] = [members |-> index[metric].members, exp |-> index[metric].exp]
    BY <1>0 DEF IndexEntry
  <2>3. /\ DOMAIN index' = DOMAIN index \cup {metric} /\ index' = [n \in DOMAIN index' |-> index'[n]]
        /\ \A n \in DOMAIN index : n # metric => index'[n] = index[n]
        /\ index'[metric] = [members |-> (IF metric \in DOMAIN index THEN index[metric].members ELSE {}) \cup {key},
                             exp |-> IF metric \in DOMAIN index THEN index[metric].exp ELSE NoTTL]
    BY <2>1, <2>2, MemberAdded
  <2>4. /\ DOMAIN index' = DOMAIN index \cup {metric}
        /\ \A n \in DOMAIN index : n # metric => index'[n] = index[n]
        /\ index'[metric].members = (IF metric \in DOMAIN index THEN index[metric].members ELSE {}) \cup {key}
        /\ index'[metric].exp = IF metric \in DOMAIN index THEN index[metric].exp ELSE NoTTL
    BY <2>3
  <2> QED
    BY <1>1, <2>4 DEF MembersOf, ExpOf, metric
<1>2. CASE op = "pexpire_idx"
  <2>1. index' = PExpire(index, metric)
    BY <1>2 DEF Effect
  <2> HIDE DEF metric
  <2>2. /\ DOMAIN index' = DOMAIN index
        /\ \A n \in DOMAIN index :
              index'[n] = IF n = metric THEN [index[n] EXCEPT !.exp = clock + retention] ELSE index[n]
    BY <2>1, ExpirySet
  <2>3. \A n \in DOMAIN index : /\ index'[n].members = index[n].members
                                /\ index'[n].exp = IF n = metric THEN clock + retention ELSE index[n].exp
    BY <1>0, <2>2 DEF IndexEntry
  <2> QED
    BY <1>2, <2>2, <2>3 DEF MembersOf, ExpOf, metric
<1>3. CASE op \notin {"sadd_idx", "pexpire_idx"}
  <2>1. index' = index
    BY <1>3 DEF Effect
  <2> QED
    BY <1>3, <2>1
<1> QED
  BY <1>1, <1>2, <1>3

\* What a command does to the timestamps.
LEMMA ZsetsAfter ==
    ASSUME StoreTypeOK, NEW op, NEW key, NEW ts, Effect(op, key, ts)
    PROVE  /\ DOMAIN zsets' = DOMAIN zsets \cup IF op = "zadd_ts" THEN {key} ELSE {}
           /\ \A k : /\ MembersOf(zsets', k) =
                           IF op = "zremrangebyscore_ts" /\ k = key
                           THEN {t \in MembersOf(zsets, k) : t > ts - retention}
                           ELSE MembersOf(zsets, k) \cup IF op = "zadd_ts" /\ k = key THEN {ts} ELSE {}
                     /\ ExpOf(zsets', k) = IF op = "pexpire_ts" /\ k = key /\ k \in DOMAIN zsets
                                           THEN clock + retention ELSE ExpOf(zsets, k)
<1>0. \A k \in DOMAIN zsets : zsets[k] \in Series
  BY DEF StoreTypeOK
<1>1. CASE op = "zadd_ts"
  <2>1. zsets' = AddMember(zsets, key, ts)
    BY <1>1 DEF Effect
  <2>2. key \in DOMAIN zsets => zsets[key] = [members |-> zsets[key].members, exp |-> zsets[key].exp]
    BY <1>0 DEF Series
  <2>3. LET r == AddMember(zsets, key, ts)
        IN  /\ DOMAIN r = DOMAIN zsets \cup {key} /\ r = [n \in DOMAIN r |-> r[n]]
            /\ \A n \in DOMAIN zsets : n # key => r[n] = zsets[n]
            /\ r[key] = [members |-> (IF key \in DOMAIN zsets THEN zsets[key].members ELSE {}) \cup {ts},
                         exp |-> IF key \in DOMAIN zsets THEN zsets[key].exp ELSE NoTTL]
    BY <2>2, MemberAdded
  <2>4. /\ DOMAIN zsets' = DOMAIN zsets \cup {key}
        /\ \A n \in DOMAIN zsets : n # key => zsets'[n] = zsets[n]
        /\ zsets'[key].members = (IF key \in DOMAIN zsets THEN zsets[key].members ELSE {}) \cup {ts}
        /\ zsets'[key].exp = IF key \in DOMAIN zsets THEN zsets[key].exp ELSE NoTTL
    BY <2>1, <2>3
  <2> QED
    BY <1>1, <2>4 DEF MembersOf, ExpOf
<1>2. CASE op = "pexpire_ts"
  <2>1. zsets' = PExpire(zsets, key)
    BY <1>2 DEF Effect
  <2>2. /\ DOMAIN zsets' = DOMAIN zsets
        /\ \A n \in DOMAIN zsets :
              zsets'[n] = IF n = key THEN [zsets[n] EXCEPT !.exp = clock + retention] ELSE zsets[n]
    BY <2>1, ExpirySet
  <2>3. \A n \in DOMAIN zsets : /\ zsets'[n].members = zsets[n].members
                                /\ zsets'[n].exp = IF n = key THEN clock + retention ELSE zsets[n].exp
    BY <1>0, <2>2 DEF Series
  <2> QED
    BY <1>2, <2>2, <2>3 DEF MembersOf, ExpOf
<1>3. CASE op = "zremrangebyscore_ts"
  <2>1. zsets' = ZRemRangeByScore(zsets, key, ts - retention)
    BY <1>3 DEF Effect
  <2>2. /\ DOMAIN zsets' = DOMAIN zsets
        /\ \A n \in DOMAIN zsets :
              zsets'[n] = IF n = key THEN [zsets[n] EXCEPT !.members = {t \in @ : t > ts - retention}]
                          ELSE zsets[n]
    BY <2>1, MembersRemoved
  <2>3. \A n \in DOMAIN zsets :
           /\ zsets'[n].members = IF n = key THEN {t \in zsets[n].members : t > ts - retention}
                                  ELSE zsets[n].members
           /\ zsets'[n].exp = zsets[n].exp
    BY <1>0, <2>2 DEF Series
  <2> QED
    BY <1>3, <2>2, <2>3 DEF MembersOf, ExpOf
<1>4. CASE op \notin {"zadd_ts", "zremrangebyscore_ts", "pexpire_ts"}
  <2>1. zsets' = zsets
    BY <1>4 DEF Effect
  <2> QED
    BY <1>4, <2>1
<1> QED
  BY <1>1, <1>2, <1>3, <1>4

\* What a command does to the buckets.
LEMMA BucketsAfter ==
    ASSUME StoreTypeOK, NEW op, NEW key, NEW ts, Effect(op, key, ts)
    PROVE  LET name == <<key, ts>>
           IN  /\ DOMAIN buckets' = DOMAIN buckets
                                      \cup IF op \in {"incrby", "hincrby_b", "hincrby_total"} THEN {name} ELSE {}
               /\ \A b : /\ NOf(buckets', b) = NOf(buckets, b)
                                                 + IF op \in {"incrby", "hincrby_b"} /\ b = name THEN 1 ELSE 0
                         /\ TotalOf(buckets', b) = TotalOf(buckets, b)
                                                 + IF op = "hincrby_total" /\ b = name THEN 1 ELSE 0
                         /\ ExpOf(buckets', b) = IF op = "pexpire_bucket" /\ b = name /\ b \in DOMAIN buckets
                                                 THEN clock + retention ELSE ExpOf(buckets, b)
<1> DEFINE name == <<key, ts>>
<1>0. /\ \A b \in DOMAIN buckets : buckets[b] \in Bucket
      /\ \A b : NOf(buckets, b) \in Nat /\ TotalOf(buckets, b) \in Nat
  BY DEF StoreTypeOK, Bucket, NOf, TotalOf
<1>1. ASSUME NEW field \in {"n", "total"}, buckets' = IncrBy(name, field)
      PROVE  /\ DOMAIN buckets' = DOMAIN buckets \cup {name}
             /\ \A b : /\ NOf(buckets', b) = NOf(buckets, b) + IF field = "n" /\ b = name THEN 1 ELSE 0
                       /\ TotalOf(buckets', b) = TotalOf(buckets, b) + IF field = "total" /\ b = name THEN 1 ELSE 0
                       /\ ExpOf(buckets', b) = ExpOf(buckets, b)
  <2> HIDE DEF name
  <2> DEFINE old == IF name \in DOMAIN buckets THEN buckets[name] ELSE [n |-> 0, total |-> 0, exp |-> NoTTL]
  <2>1. LET r == IncrBy(name, field)
        IN  /\ DOMAIN r = DOMAIN buckets \cup {name} /\ r = [n \in DOMAIN r |-> r[n]]
            /\ \A n \in DOMAIN buckets : n # name => r[n] = buckets[n]
            /\ r[name] = [n |-> IF field = "n" THEN old.n + 1 ELSE old.n,
                          total |-> IF field = "total" THEN old.total + 1 ELSE old.total,
                          exp |-> old.exp]
    BY <1>0, Incremented
  <2>2. /\ old.n = NOf(buckets, name) /\ old.total = TotalOf(buckets, name) /\ old.exp = ExpOf(buckets, name)
    BY DEF NOf, TotalOf, ExpOf
  <2> HIDE DEF old
  <2>3. /\ DOMAIN buckets' = DOMAIN buckets \cup {name}
        /\ \A n \in DOMAIN buckets : n # name => buckets'[n] = buckets[n]
        /\ buckets'[name].n = IF field = "n" THEN old.n + 1 ELSE old.n
        /\ buckets'[name].total = IF field = "total" THEN old.total + 1 ELSE old.total
        /\ buckets'[name].exp = old.exp
    BY <1>1, <2>1
  <2>4. ASSUME NEW b, b # name
        PROVE  /\ NOf(buckets', b) = NOf(buckets, b) /\ TotalOf(buckets', b) = TotalOf(buckets, b)
               /\ ExpOf(buckets', b) = ExpOf(buckets, b)
    BY <2>3, <2>4 DEF NOf, TotalOf, ExpOf
  <2>5. /\ NOf(buckets', name) = buckets'[name].n /\ TotalOf(buckets', name) = buckets'[name].total
        /\ ExpOf(buckets', name) = buckets'[name].exp
    BY <2>3 DEF NOf, TotalOf, ExpOf
  <2>6. /\ NOf(buckets', name) = NOf(buckets, name) + (IF field = "n" THEN 1 ELSE 0)
        /\ TotalOf(buckets', name) = TotalOf(buckets, name) + (IF field = "total" THEN 1 ELSE 0)
        /\ ExpOf(buckets', name) = ExpOf(buckets, name)
    BY <1>0, <2>2, <2>3, <2>5
  <2> QED
    BY <1>0, <2>3, <2>4, <2>6
<1>2. CASE op \in {"incrby", "hincrby_b"}
  <2>1. buckets' = IncrBy(name, "n")
    BY <1>2 DEF Effect
  <2> HIDE DEF name
  <2> QED
    BY <1>0, <1>1, <1>2, <2>1 DEF name
<1>3. CASE op = "hincrby_total"
  <2>1. buckets' = IncrBy(name, "total")
    BY <1>3 DEF Effect
  <2> HIDE DEF name
  <2> QED
    BY <1>0, <1>1, <1>3, <2>1 DEF name
<1>4. CASE op = "pexpire_bucket"
  <2>1. buckets' = PExpire(buckets, name)
    BY <1>4 DEF Effect
  <2> HIDE DEF name
  <2>2. /\ DOMAIN buckets' = DOMAIN buckets
        /\ \A n \in DOMAIN buckets :
              buckets'[n] = IF n = name THEN [buckets[n] EXCEPT !.exp = clock + retention] ELSE buckets[n]
    BY <2>1, ExpirySet
  <2>3. \A n \in DOMAIN buckets :
           /\ buckets'[n].n = buckets[n].n /\ buckets'[n].total = buckets[n].total
           /\ buckets'[n].exp = IF n = name THEN clock + retention ELSE buckets[n].exp
    BY <1>0, <2>2 DEF Bucket
  <2>4. \A b : NOf(buckets', b) = NOf(buckets, b) /\ TotalOf(buckets', b) = TotalOf(buckets, b)
    BY <2>2, <2>3 DEF NOf, TotalOf
  <2>5. \A b : ExpOf(buckets', b) = IF b = name /\ b \in DOMAIN buckets THEN clock + retention ELSE ExpOf(buckets, b)
    BY <2>2, <2>3 DEF ExpOf
  <2> QED
    BY <1>0, <1>4, <2>2, <2>4, <2>5 DEF name
<1>5. CASE op \notin {"incrby", "hincrby_b", "hincrby_total", "pexpire_bucket"}
  <2>1. buckets' = buckets
    BY <1>5 DEF Effect
  <2>2. \A b : /\ NOf(buckets', b) = NOf(buckets, b) /\ TotalOf(buckets', b) = TotalOf(buckets, b)
               /\ ExpOf(buckets', b) = ExpOf(buckets, b)
    BY <2>1
  <2> HIDE DEF name
  <2>3. DOMAIN buckets' = DOMAIN buckets \cup IF op \in {"incrby", "hincrby_b", "hincrby_total"} THEN {name} ELSE {}
    BY <1>5, <2>1
  <2>4. ASSUME NEW b
        PROVE  /\ NOf(buckets', b) = NOf(buckets, b) + IF op \in {"incrby", "hincrby_b"} /\ b = name THEN 1 ELSE 0
               /\ TotalOf(buckets', b) = TotalOf(buckets, b) + IF op = "hincrby_total" /\ b = name THEN 1 ELSE 0
               /\ ExpOf(buckets', b) = IF op = "pexpire_bucket" /\ b = name /\ b \in DOMAIN buckets
                                       THEN clock + retention ELSE ExpOf(buckets, b)
    <3>1. NOf(buckets, b) + 0 = NOf(buckets, b) /\ TotalOf(buckets, b) + 0 = TotalOf(buckets, b)
      BY <1>0
    <3> QED
      BY <1>5, <2>2, <3>1
  <2> QED
    BY <2>3, <2>4 DEF name
<1> QED
  BY <1>2, <1>3, <1>4, <1>5

\* What is still to come after a command of a record.
LEMMA Follows ==
    ASSUME NEW e, NEW p, PipeOf(p, e), p # <<>>
    PROVE  LET c == Head(p)
           IN  /\ c.op = "sadd_idx" => Command("pexpire_idx", c.key, c.ts) \in ToSet(Tail(p))
               /\ c.op = "zadd_ts" => Command("pexpire_ts", c.key, c.ts) \in ToSet(Tail(p))
               /\ c.op \in {"incrby", "hincrby_b", "hincrby_total"} =>
                     Command("pexpire_bucket", c.key, c.ts) \in ToSet(Tail(p))
               /\ c.op = "hincrby_b" => Tail(p) # <<>> /\ Head(Tail(p)) = Command("hincrby_total", c.key, c.ts)
<1> DEFINE c == Head(p)
           q == Tail(p)
           d == Head(q)
<1>1. PipeOf(q, e)
  BY HeadIs
<1>2. CASE c.op = "pexpire_bucket"
  BY <1>2
<1>3. CASE c.op # "pexpire_bucket"
  <2>1. PICK op : q # <<>> /\ <<c.op, op>> \in Successive /\ d = Command(op, c.key, c.ts)
    BY <1>3, NextIs
  <2>2. d \in ToSet(q) /\ ToSet(Tail(q)) \subseteq ToSet(q)
    <3> HIDE DEF q
    <3> QED
      BY <1>1, <2>1, HeadIs
  <2>3. d.op = op /\ d.key = c.key /\ d.ts = c.ts
    BY <2>1, CommandFields
  <2>4. ASSUME op \in {"zremrangebyscore_ts", "hincrby_total"}
        PROVE  \E o : <<op, o>> \in Successive /\ Command(o, c.key, c.ts) \in ToSet(q)
    <3> HIDE DEF q
    <3>1. d.op # "pexpire_bucket"
      BY <2>3, <2>4
    <3>2. PICK o : Tail(q) # <<>> /\ <<d.op, o>> \in Successive /\ Head(Tail(q)) = Command(o, d.key, d.ts)
      BY <1>1, <2>1, <3>1, NextIs
    <3>3. PipeOf(Tail(q), e)
      BY <1>1, <2>1, HeadIs
    <3>4. Head(Tail(q)) \in ToSet(Tail(q))
      <4> DEFINE r == Tail(q)
      <4>1. PipeOf(r, e) /\ r # <<>>
        BY <3>2, <3>3
      <4> HIDE DEF r
      <4>2. Head(r) \in ToSet(r)
        BY <4>1, HeadIs
      <4> QED
        BY <4>2 DEF r
    <3> QED
      BY <2>2, <2>3, <3>2, <3>4
  <2> HIDE DEF c, q, d
  <2>5. c.op = "sadd_idx" => op = "pexpire_idx"
    BY <2>1 DEF Successive
  <2>6. c.op = "zadd_ts" => op = "zremrangebyscore_ts"
    BY <2>1 DEF Successive
  <2>7. c.op = "hincrby_b" => op = "hincrby_total"
    BY <2>1 DEF Successive
  <2>8. c.op \in {"incrby", "hincrby_total"} => op = "pexpire_bucket"
    BY <2>1 DEF Successive
  <2>9. \A o : /\ <<"zremrangebyscore_ts", o>> \in Successive => o = "pexpire_ts"
               /\ <<"hincrby_total", o>> \in Successive => o = "pexpire_bucket"
    BY DEF Successive
  <2> QED
    BY <2>1, <2>2, <2>4, <2>5, <2>6, <2>7, <2>8, <2>9 DEF c, q, d
<1> QED
  BY <1>2, <1>3

-----------------------------------------------------------------------------
\* Every entry gets its expiry.

\* The command that is executed.
LEMMA CommandIs ==
    ASSUME StoreTypeOK, NEW w \in Replicas, NEW i \in DOMAIN happened, Executed(w, i)
    PROVE  \E op \in Ops, key \in AllKeys, ts \in AllTs :
              /\ Head(pipes[w]) = Command(op, key, ts) /\ Effect(op, key, ts)
              /\ ts = BucketOf(happened[i]) /\ key \in ToSet(EventKeys(happened[i]))
              /\ op \in ToSet(Commands(key.metric))
<1> DEFINE p == pipes[w]
           c == Head(p)
<1>1. p # <<>> /\ PipeOf(p, happened[i]) /\ Effect(c.op, c.key, c.ts)
  BY DEF Executed
<1> HIDE DEF p
<1>2. /\ c = Command(c.op, c.key, c.ts) /\ c.ts = BucketOf(happened[i])
      /\ c.key \in ToSet(EventKeys(happened[i])) /\ c.op \in ToSet(Commands(c.key.metric))
  BY <1>1, HeadIs
<1> HIDE DEF c
<1>3. c.key \in AllKeys /\ c.ts \in AllTs
  BY <1>2, HappenedIs
<1>4. c.op \in Ops
  BY <1>2, OpsOf
<1> QED
  BY <1>1, <1>2, <1>3, <1>4 DEF c, p

\* What is due stays due until it is executed, and what a command leaves to be done is due.
LEMMA DueAfter ==
    ASSUME NEW w \in Replicas, NEW i \in DOMAIN happened, Executed(w, i),
           NEW op, NEW key, NEW ts, Head(pipes[w]) = Command(op, key, ts)
    PROVE  /\ \A o, k, t : Due(o, k, t) => (o = op /\ k = key /\ t = ts) \/ Due(o, k, t)'
           /\ op = "sadd_idx" => Due("pexpire_idx", key, ts)'
           /\ op = "zadd_ts" => Due("pexpire_ts", key, ts)'
           /\ op \in {"incrby", "hincrby_b", "hincrby_total"} => Due("pexpire_bucket", key, ts)'
<1> DEFINE p == pipes[w]
           c == Head(p)
<1>1. /\ p # <<>> /\ PipeOf(p, happened[i])
      /\ pipes'[w] = Tail(p) /\ \A u \in Replicas : u # w => pipes'[u] = pipes[u]
  BY DEF Executed
<1> HIDE DEF p
<1>2. ToSet(Tail(p)) = ToSet(p) \ {c}
  BY <1>1, HeadIs
<1>c. c = Command(op, key, ts) /\ c.op = op /\ c.key = key /\ c.ts = ts
  BY CommandFields DEF p
<1>3. /\ c.op = "sadd_idx" => Command("pexpire_idx", c.key, c.ts) \in ToSet(Tail(p))
      /\ c.op = "zadd_ts" => Command("pexpire_ts", c.key, c.ts) \in ToSet(Tail(p))
      /\ c.op \in {"incrby", "hincrby_b", "hincrby_total"} =>
            Command("pexpire_bucket", c.key, c.ts) \in ToSet(Tail(p))
  BY <1>1, Follows
<1> HIDE DEF c
<1>4. \A o, k, t : Command(o, k, t) \in ToSet(Tail(p)) => Due(o, k, t)'
  BY <1>1 DEF Due, Command, ToSet
<1>5. ASSUME NEW o, NEW k, NEW t, Due(o, k, t), ~(o = op /\ k = key /\ t = ts) PROVE Due(o, k, t)'
  <2>1. PICK u \in Replicas : Command(o, k, t) \in ToSet(pipes[u])
    BY <1>5 DEF Due
  <2>2. CASE u = w
    <3>1. Command(o, k, t) # c
      BY <1>5, <1>c, CommandFields
    <3>2. Command(o, k, t) \in ToSet(Tail(p))
      BY <1>2, <2>1, <2>2, <3>1 DEF p
    <3> QED
      BY <1>4, <3>2
  <2>3. CASE u # w
    BY <1>1, <2>1, <2>3 DEF Due, Command, ToSet
  <2> QED
    BY <2>2, <2>3
<1>6. op = "sadd_idx" => Due("pexpire_idx", key, ts)'
  BY <1>c, <1>3, <1>4
<1>7. op = "zadd_ts" => Due("pexpire_ts", key, ts)'
  BY <1>c, <1>3, <1>4
<1>8. op \in {"incrby", "hincrby_b", "hincrby_total"} => Due("pexpire_bucket", key, ts)'
  BY <1>c, <1>3, <1>4
<1> QED
  BY <1>5, <1>6, <1>7, <1>8

\* No write is lost but by a death.
LEMMA LostAfter ==
    ASSUME StoreTypeOK, NEW w \in Replicas, NEW i \in DOMAIN happened, NEW mark,
           OneMark(w, i, mark), mark # "lost", status[w][i] # "lost"
    PROVE  Writes({"lost"})' = Writes({"lost"})
<1> DEFINE L == {"lost"}
<1>1. mark \notin L /\ status[w][i] \notin L
  OBVIOUS
<1> HIDE DEF L
<1>2. /\ Writes(L)' = (Writes(L) \ {<<w, i>>}) \cup IF mark \in L THEN {<<w, i>>} ELSE {}
      /\ <<w, i>> \in Writes(L) <=> status[w][i] \in L
  BY WritesAfter
<1>3. Writes(L)' = Writes(L)
  BY <1>1, <1>2
<1> QED
  BY <1>3 DEF L

\* What leaves the entries and the commands that are due leaves the expiries.
LEMMA ExpirySame ==
    ASSUME ExpiryComes, scenario' = scenario, UNCHANGED <<clock, index, zsets, buckets>>,
           Writes({"lost"})' = Writes({"lost"}),
           \A op, key, ts : Due(op, key, ts) => Due(op, key, ts)'
    PROVE  ExpiryComes'
<1>1. AllKeys' = AllKeys /\ AllTs' = AllTs
  BY SameBounds
<1>2. \A exp : Fresh(exp)' <=> Fresh(exp)
  BY DEF Fresh
<1>3. ExpiryIs => ExpiryIs'
  BY <1>1, <1>2 DEF ExpiryIs, ExpOf, Fresh
<1> QED
  BY <1>3 DEF ExpiryComes

\* A command that makes a key is followed by the one that gives it its expiry.
LEMMA ExpiryExecutes ==
    ASSUME StoreTypeOK, ExpiryComes, NEW w \in Replicas, NEW i \in DOMAIN happened, Executed(w, i)
    PROVE  ExpiryComes'
<1>1. /\ PipeOf(pipes[w], happened[i]) /\ pipes[w] # <<>> /\ status[w][i] = "sent"
      /\ OneMark(w, i, IF Tail(pipes[w]) = <<>> THEN "settled" ELSE "sent")
      /\ UNCHANGED <<scenario, clock, happened>>
  BY DEF Executed
<1>c. PICK op \in Ops, key \in AllKeys, ts \in AllTs :
          Head(pipes[w]) = Command(op, key, ts) /\ Effect(op, key, ts)
  BY CommandIs
<1>2. /\ \A o, k, t : Due(o, k, t) => (o = op /\ k = key /\ t = ts) \/ Due(o, k, t)'
      /\ op = "sadd_idx" => Due("pexpire_idx", key, ts)'
      /\ op = "zadd_ts" => Due("pexpire_ts", key, ts)'
      /\ op \in {"incrby", "hincrby_b", "hincrby_total"} => Due("pexpire_bucket", key, ts)'
  BY <1>c, DueAfter
<1>4. AllKeys' = AllKeys /\ AllTs' = AllTs
  BY <1>1, SameBounds
<1>5. /\ DOMAIN index' = DOMAIN index \cup IF op = "sadd_idx" THEN {key.metric} ELSE {}
      /\ \A m : ExpOf(index', m) = IF op = "pexpire_idx" /\ m = key.metric /\ m \in DOMAIN index
                                   THEN clock + retention ELSE ExpOf(index, m)
  BY <1>c, IndexAfter
<1>6. /\ DOMAIN zsets' = DOMAIN zsets \cup IF op = "zadd_ts" THEN {key} ELSE {}
      /\ \A k : ExpOf(zsets', k) = IF op = "pexpire_ts" /\ k = key /\ k \in DOMAIN zsets
                                   THEN clock + retention ELSE ExpOf(zsets, k)
  BY <1>c, ZsetsAfter
<1>7. /\ DOMAIN buckets' = DOMAIN buckets
                             \cup IF op \in {"incrby", "hincrby_b", "hincrby_total"} THEN {<<key, ts>>} ELSE {}
      /\ \A b : ExpOf(buckets', b) = IF op = "pexpire_bucket" /\ b = <<key, ts>> /\ b \in DOMAIN buckets
                                     THEN clock + retention ELSE ExpOf(buckets, b)
  BY <1>c, BucketsAfter
<1>8. Fresh(clock + retention) /\ \A exp : Fresh(exp)' <=> Fresh(exp)
  <2>1. clock \in Nat /\ retention \in Nat /\ retention > 0
    BY Parameters DEF StoreTypeOK
  <2> QED
    BY <1>1, <2>1 DEF Fresh, NoTTL
<1>9. Writes({"lost"})' = Writes({"lost"})
  <2> DEFINE mark == IF Tail(pipes[w]) = <<>> THEN "settled" ELSE "sent"
  <2>1. OneMark(w, i, mark) /\ mark # "lost" /\ status[w][i] # "lost"
    BY <1>1
  <2> HIDE DEF mark
  <2> QED
    BY <2>1, LostAfter
<1>11. ASSUME ExpiryIs PROVE ExpiryIs'
  <2>1. ASSUME NEW m \in DOMAIN index'
        PROVE  \/ Fresh(ExpOf(index', m))
               \/ \E k \in AllKeys, t \in AllTs : k.metric = m /\ Due("pexpire_idx", k, t)'
    <3>1. CASE op = "sadd_idx" /\ m = key.metric
      BY <1>2, <3>1
    <3>2. CASE op = "pexpire_idx" /\ m = key.metric /\ m \in DOMAIN index
      BY <1>5, <1>8, <3>2
    <3>3. CASE ~(op = "sadd_idx" /\ m = key.metric) /\ ~(op = "pexpire_idx" /\ m = key.metric)
      <4>1. m \in DOMAIN index /\ ExpOf(index', m) = ExpOf(index, m)
        BY <1>5, <3>3
      <4>2. \A k \in AllKeys, t \in AllTs :
               k.metric = m /\ Due("pexpire_idx", k, t) => Due("pexpire_idx", k, t)'
        BY <1>2, <3>3
      <4> QED
        BY <1>11, <4>1, <4>2 DEF ExpiryIs
    <3> QED
      BY <1>5, <3>1, <3>2, <3>3
  <2>2. ASSUME NEW k \in DOMAIN zsets'
        PROVE  Fresh(ExpOf(zsets', k)) \/ \E t \in AllTs : Due("pexpire_ts", k, t)'
    <3>1. CASE op = "zadd_ts" /\ k = key
      BY <1>2, <3>1
    <3>2. CASE op = "pexpire_ts" /\ k = key /\ k \in DOMAIN zsets
      BY <1>6, <1>8, <3>2
    <3>3. CASE ~(op = "zadd_ts" /\ k = key) /\ ~(op = "pexpire_ts" /\ k = key)
      <4>1. k \in DOMAIN zsets /\ ExpOf(zsets', k) = ExpOf(zsets, k)
        BY <1>6, <3>3
      <4>2. \A t \in AllTs : Due("pexpire_ts", k, t) => Due("pexpire_ts", k, t)'
        BY <1>2, <3>3
      <4> QED
        BY <1>11, <4>1, <4>2 DEF ExpiryIs
    <3> QED
      BY <1>6, <3>1, <3>2, <3>3
  <2>3. ASSUME NEW b \in DOMAIN buckets'
        PROVE  Fresh(ExpOf(buckets', b)) \/ Due("pexpire_bucket", b[1], b[2])'
    <3> DEFINE name == <<key, ts>>
    <3>0. name[1] = key /\ name[2] = ts
      OBVIOUS
    <3>4. b \in DOMAIN buckets => b = <<b[1], b[2]>>
      BY DEF StoreTypeOK
    <3>1. CASE op \in {"incrby", "hincrby_b", "hincrby_total"} /\ b = name
      BY <1>2, <3>0, <3>1
    <3>2. CASE op = "pexpire_bucket" /\ b = name /\ b \in DOMAIN buckets
      BY <1>7, <1>8, <3>2
    <3>3. CASE /\ ~(op \in {"incrby", "hincrby_b", "hincrby_total"} /\ b = name)
               /\ ~(op = "pexpire_bucket" /\ b = name)
      <4>1. b \in DOMAIN buckets /\ ExpOf(buckets', b) = ExpOf(buckets, b)
        BY <1>7, <3>3
      <4>2. Due("pexpire_bucket", b[1], b[2]) => Due("pexpire_bucket", b[1], b[2])'
        BY <1>2, <3>3, <3>4, <4>1
      <4> QED
        BY <1>11, <4>1, <4>2 DEF ExpiryIs
    <3> QED
      BY <1>7, <3>1, <3>2, <3>3
  <2> QED
    BY <1>4, <1>8, <2>1, <2>2, <2>3 DEF ExpiryIs, ExpOf, Fresh
<1> QED
  BY <1>9, <1>11 DEF ExpiryComes

\* Write i of replica w begins.
Began(w, i) ==
    /\ status[w][i] = "heard" /\ pipes[w] = <<>>
    /\ pipes'[w] # <<>> /\ Head(pipes'[w]).op = "sadd_idx" /\ ToSet(pipes'[w]) = CommandsOf(happened[i])
    /\ \A v \in Replicas : v # w => pipes'[v] = pipes[v]
    /\ OneMark(w, i, "sent")
    /\ UNCHANGED <<scenario, clock, happened, index, zsets, buckets, query>>

\* The steps of the store, each by what it changes.
StepOf ==
    \/ \E type \in EventTypes : Happens(type)
    \/ \E w \in Replicas, i \in DOMAIN happened : Began(w, i)
    \/ \E w \in Replicas, i \in DOMAIN happened : Executed(w, i)
    \/ \E w \in Replicas, i \in DOMAIN happened : Died(w, i)
    \/ Tick
    \/ Watching /\ (StartQuery \/ ReadTimestamps \/ ReadBucket \/ SeriesRead \/ Answers \/ UNCHANGED query)

\* Every step of the specification is one of these, and keeps the shapes.
LEMMA StepIs ==
    ASSUME StoreTypeOK, PipesOK, [Next]_vars
    PROVE  scenario' = scenario /\ StoreTypeOK' /\ PipesOK' /\ StepOf
<1>1. CASE UNCHANGED vars
  <2>1. Watching /\ UNCHANGED query
    BY <1>1 DEF vars, redis, Watching
  <2>2. StoreTypeOK' /\ PipesOK'
    BY <2>1, WatchingIs
  <2> QED
    BY <2>1, <2>2 DEF StepOf, Watching
<1>2. CASE Next
  <2>0. scenario' = scenario /\ (StoreNext \/ Tick)
    BY <1>2 DEF Next
  <2>1. ASSUME NEW type \in EventTypes, Happens(type) PROVE StoreTypeOK' /\ PipesOK' /\ StepOf
    BY <2>0, <2>1, HappensIs, HappensKeepsPipes DEF StepOf
  <2>2. ASSUME NEW w \in Replicas, NEW i \in DOMAIN status[w], write(w, i)
        PROVE  StoreTypeOK' /\ PipesOK' /\ StepOf
    <3>1. /\ i \in DOMAIN happened /\ status[w][i] = "heard" /\ pipes[w] = <<>>
          /\ UNCHANGED <<clock, happened, index, zsets, buckets, query>>
          /\ OneMark(w, i, "sent") /\ StoreTypeOK' /\ PipesOK'
          /\ \A v \in Replicas : v # w => pipes'[v] = pipes[v]
          /\ pipes'[w] # <<>> /\ Head(pipes'[w]).op = "sadd_idx"
          /\ ToSet(pipes'[w]) = CommandsOf(happened[i])
      BY <2>0, <2>2, WriteIs
    <3>2. Began(w, i)
      BY <2>0, <3>1 DEF Began
    <3> QED
      BY <3>1, <3>2 DEF StepOf
  <2>3. ASSUME NEW w \in Replicas, Executes(w) PROVE StoreTypeOK' /\ PipesOK' /\ StepOf
    BY <2>0, <2>3, ExecutesIs DEF StepOf
  <2>4. ASSUME NEW w \in Replicas, Dies(w) PROVE StoreTypeOK' /\ PipesOK' /\ StepOf
    BY <2>0, <2>4, DiesIs DEF StepOf
  <2>5. ASSUME Tick PROVE StoreTypeOK' /\ PipesOK' /\ StepOf
    BY <2>0, <2>5, TickIs DEF StepOf
  <2>6. ASSUME StartQuery \/ ReadTimestamps \/ ReadBucket \/ SeriesRead \/ Answers
        PROVE  StoreTypeOK' /\ PipesOK' /\ StepOf
    <3>1. Watching
      BY <2>0, <2>6 DEF Watching, redis, StartQuery, ReadTimestamps, ReadBucket, SeriesRead, Answers
    <3>2. StoreTypeOK' /\ PipesOK'
      BY <3>1, WatchingIs
    <3> QED
      BY <2>6, <3>1, <3>2 DEF StepOf
  <2> QED
    BY <2>0, <2>1, <2>2, <2>3, <2>4, <2>5, <2>6 DEF StoreNext
<1> QED
  BY <1>1, <1>2

\* Every entry gets its expiry, whatever happens between.
LEMMA ExpiryStep ==
    ASSUME StoreTypeOK, PipesOK, ExpiryComes, scenario' = scenario, StepOf
    PROVE  ExpiryComes'
<1>1. ASSUME NEW type \in EventTypes, Happens(type) PROVE ExpiryComes'
  <2>1. /\ UNCHANGED <<clock, pipes, index, zsets, buckets>>
        /\ \A marks \in SUBSET Begun : Writes(marks)' = Writes(marks)
    BY <1>1, HappensIs
  <2>2. {"lost"} \in SUBSET Begun
    BY DEF Begun
  <2>3. \A op, key, ts : Due(op, key, ts) => Due(op, key, ts)'
    BY <2>1 DEF Due
  <2>4. Writes({"lost"})' = Writes({"lost"})
    BY <2>1, <2>2
  <2> QED
    BY <2>1, <2>3, <2>4, ExpirySame
<1>2. ASSUME NEW w \in Replicas, NEW i \in DOMAIN happened, Began(w, i) PROVE ExpiryComes'
  <2>1. /\ UNCHANGED <<clock, index, zsets, buckets>> /\ pipes[w] = <<>>
        /\ \A v \in Replicas : v # w => pipes'[v] = pipes[v]
        /\ OneMark(w, i, "sent") /\ status[w][i] # "lost" /\ "sent" # "lost"
    BY <1>2 DEF Began
  <2>2. Writes({"lost"})' = Writes({"lost"})
    BY <2>1, LostAfter
  <2>3. ASSUME NEW op, NEW key, NEW ts, Due(op, key, ts) PROVE Due(op, key, ts)'
    <3>1. PICK v \in Replicas : Command(op, key, ts) \in ToSet(pipes[v])
      BY <2>3 DEF Due
    <3>2. v # w
      BY <2>1, <3>1 DEF ToSet
    <3> QED
      BY <2>1, <3>1, <3>2 DEF Due, Command, ToSet
  <2> QED
    BY <2>1, <2>2, <2>3, ExpirySame
<1>3. ASSUME NEW w \in Replicas, NEW i \in DOMAIN happened, Executed(w, i) PROVE ExpiryComes'
  BY <1>3, ExpiryExecutes
<1>4. ASSUME NEW w \in Replicas, NEW i \in DOMAIN happened, Died(w, i) PROVE ExpiryComes'
  <2>1. OneMark(w, i, "lost")
    BY <1>4 DEF Died
  <2> DEFINE L == {"lost"}
             lost == "lost"
  <2>2. lost \in L /\ OneMark(w, i, lost)
    BY <2>1
  <2> HIDE DEF L, lost
  <2>3. <<w, i>> \in Writes(L)'
    BY <2>2, WritesAfter
  <2>4. Writes({"lost"})' # {}
    BY <2>3 DEF L
  <2> QED
    BY <2>4 DEF ExpiryComes
<1>5. ASSUME Tick PROVE ExpiryComes'
  <2>1. /\ AtRest /\ clock' = clock + 1 /\ clock \in Nat
        /\ Ticked(index, index') /\ Ticked(zsets, zsets') /\ Ticked(buckets, buckets')
        /\ UNCHANGED <<happened, status, pipes, query>>
    BY <1>5, TickIs
  <2>2. \A op, key, ts : ~Due(op, key, ts)
    BY <2>1 DEF Due, AtRest, ToSet
  <2>3. Writes({"lost"})' = Writes({"lost"})
    BY <2>1 DEF Writes
  <2>4. retention \in Nat
    BY Parameters DEF StoreTypeOK
  <2>5. ASSUME NEW exp, Fresh(exp), exp = NoTTL \/ exp >= clock + 1 PROVE Fresh(exp)'
    BY <2>1, <2>4, <2>5 DEF Fresh, NoTTL
  <2>6. ASSUME NEW map, NEW later, Ticked(map, later), \A n \in DOMAIN map : Fresh(ExpOf(map, n))
        PROVE  \A n \in DOMAIN later : n \in DOMAIN map /\ ExpOf(later, n) = ExpOf(map, n)
                                       /\ (ExpOf(map, n) = NoTTL \/ ExpOf(map, n) >= clock + 1)
    BY <2>6 DEF Ticked, Survives, ExpOf
  <2>7. ASSUME ExpiryIs PROVE ExpiryIs'
    <3>1. /\ \A n \in DOMAIN index : Fresh(ExpOf(index, n))
          /\ \A n \in DOMAIN zsets : Fresh(ExpOf(zsets, n))
          /\ \A n \in DOMAIN buckets : Fresh(ExpOf(buckets, n))
      BY <2>2, <2>7 DEF ExpiryIs
    <3>2. ASSUME NEW n \in DOMAIN index' PROVE Fresh(ExpOf(index, n))' 
      BY <2>1, <2>5, <2>6, <3>1 DEF ExpOf
    <3>3. ASSUME NEW n \in DOMAIN zsets' PROVE Fresh(ExpOf(zsets, n))' 
      BY <2>1, <2>5, <2>6, <3>1 DEF ExpOf
    <3>4. ASSUME NEW n \in DOMAIN buckets' PROVE Fresh(ExpOf(buckets, n))' 
      BY <2>1, <2>5, <2>6, <3>1 DEF ExpOf
    <3> QED
      BY <3>2, <3>3, <3>4 DEF ExpiryIs
  <2> QED
    BY <2>3, <2>7 DEF ExpiryComes
<1>6. ASSUME Watching PROVE ExpiryComes'
  <2>1. Writes({"lost"})' = Writes({"lost"})
    BY <1>6 DEF Watching, Writes
  <2>2. \A op, key, ts : Due(op, key, ts) => Due(op, key, ts)'
    BY <1>6 DEF Watching, Due
  <2> QED
    BY <1>6, <2>1, <2>2, ExpirySame DEF Watching
<1> QED
  BY <1>1, <1>2, <1>3, <1>4, <1>5, <1>6 DEF StepOf

-----------------------------------------------------------------------------
\* What was written can be found.

\* What a write has done it stays to have done, unless it is cut short.
LEMMA DidStays ==
    ASSUME StoreTypeOK, PipesOK, scenario' = scenario, StepOf,
           NEW v \in Replicas, NEW j \in DOMAIN happened, NEW op, NEW key, Did(v, j, op, key)
    PROVE  /\ j \in DOMAIN happened' /\ happened'[j] = happened[j]
           /\ Did(v, j, op, key)' \/ status'[v][j] = "lost"
<1> DEFINE x == Command(op, key, BucketOf(happened[j]))
<1>0. \/ status[v][j] = "settled"
      \/ status[v][j] = "sent" /\ x \notin ToSet(pipes[v])
  BY DEF Did
<1> SUFFICES /\ j \in DOMAIN happened' /\ happened'[j] = happened[j]
             /\ \/ status'[v][j] \in {"settled", "lost"}
                \/ status'[v][j] = "sent" /\ x \notin ToSet(pipes'[v])
  <2>1. happened'[j] = happened[j] => Command(op, key, BucketOf(happened[j]))' = x
    BY DEF Command, BucketOf
  <2> QED
    BY <2>1 DEF Did, ToSet
<1>s. status[v][j] = "sent" => j \in Sending(v)
  BY SendingIs
<1> HIDE DEF x
<1>1. CASE \E type \in EventTypes : Happens(type)
  BY <1>0, <1>1, HappensIs
<1>2. ASSUME NEW w \in Replicas, NEW i \in DOMAIN happened, Began(w, i)
      PROVE  /\ j \in DOMAIN happened' /\ happened'[j] = happened[j]
             /\ \/ status'[v][j] \in {"settled", "lost"}
                \/ status'[v][j] = "sent" /\ x \notin ToSet(pipes'[v])
  <2>1. /\ status[w][i] = "heard" /\ pipes[w] = <<>> /\ OneMark(w, i, "sent") /\ UNCHANGED happened
        /\ \A u \in Replicas : u # w => pipes'[u] = pipes[u]
    BY <1>2 DEF Began
  <2>2. status'[v][j] = IF v = w /\ j = i THEN "sent" ELSE status[v][j]
    BY <2>1 DEF OneMark
  <2>3. v = w => Sending(v) = {}
    BY <2>1 DEF PipesOK
  <2> QED
    BY <1>0, <1>s, <2>1, <2>2, <2>3
<1>3. ASSUME NEW w \in Replicas, NEW i \in DOMAIN happened, Executed(w, i)
      PROVE  /\ j \in DOMAIN happened' /\ happened'[j] = happened[j]
             /\ \/ status'[v][j] \in {"settled", "lost"}
                \/ status'[v][j] = "sent" /\ x \notin ToSet(pipes'[v])
  <2> DEFINE p == pipes[w]
             mark == IF Tail(p) = <<>> THEN "settled" ELSE "sent"
  <2>1. /\ p # <<>> /\ PipeOf(p, happened[i]) /\ Sending(w) = {i} /\ OneMark(w, i, mark) /\ UNCHANGED happened
        /\ pipes'[w] = Tail(p) /\ \A u \in Replicas : u # w => pipes'[u] = pipes[u]
    BY <1>3 DEF Executed
  <2>2. ToSet(Tail(p)) = ToSet(p) \ {Head(p)}
    BY <2>1, HeadIs
  <2>3. mark \in {"settled", "sent"}
    OBVIOUS
  <2> HIDE DEF mark
  <2>4. status'[v][j] = IF v = w /\ j = i THEN mark ELSE status[v][j]
    BY <2>1 DEF OneMark
  <2>5. CASE v = w
    <3>1. x \notin ToSet(pipes[v]) => x \notin ToSet(pipes'[v])
      BY <2>1, <2>2, <2>5
    <3>2. status[v][j] = "sent" => j = i
      BY <1>s, <2>1, <2>5
    <3>3. status[v][i] = "sent"
      BY <1>3, <2>5 DEF Executed
    <3> QED
      BY <1>0, <2>1, <2>3, <2>4, <2>5, <3>1, <3>2, <3>3
  <2>6. CASE v # w
    BY <1>0, <2>1, <2>4, <2>6
  <2> QED
    BY <2>5, <2>6
<1>4. ASSUME NEW w \in Replicas, NEW i \in DOMAIN happened, Died(w, i)
      PROVE  /\ j \in DOMAIN happened' /\ happened'[j] = happened[j]
             /\ \/ status'[v][j] \in {"settled", "lost"}
                \/ status'[v][j] = "sent" /\ x \notin ToSet(pipes'[v])
  <2>1. /\ Sending(w) = {i} /\ OneMark(w, i, "lost") /\ UNCHANGED happened
        /\ pipes'[w] = <<>> /\ \A u \in Replicas : u # w => pipes'[u] = pipes[u]
    BY <1>4 DEF Died
  <2>2. status'[v][j] = IF v = w /\ j = i THEN "lost" ELSE status[v][j]
    BY <2>1 DEF OneMark
  <2>3. v = w /\ status[v][j] = "sent" => j = i
    BY <1>s, <2>1
  <2> QED
    BY <1>0, <2>1, <2>2, <2>3
<1>5. CASE Tick
  <2>1. UNCHANGED <<happened, status, pipes>>
    BY <1>5, TickIs
  <2> QED
    BY <1>0, <2>1
<1>6. CASE Watching
  BY <1>0, <1>6 DEF Watching
<1> QED
  BY <1>1, <1>2, <1>3, <1>4, <1>5, <1>6 DEF StepOf

\* And what it has done after a step it had done before, or it was the command executed.
LEMMA DidBefore ==
    ASSUME StoreTypeOK, PipesOK, scenario' = scenario, StepOf,
           NEW v \in Replicas, NEW j \in DOMAIN happened', NEW op, NEW key,
           key \in ToSet(EventKeys(happened'[j])), op \in ToSet(Commands(key.metric)),
           Did(v, j, op, key)'
    PROVE  /\ j \in DOMAIN happened /\ happened'[j] = happened[j]
           /\ \/ Did(v, j, op, key)
              \/ /\ status[v][j] = "sent" /\ Executed(v, j)
                 /\ Head(pipes[v]) = Command(op, key, BucketOf(happened[j]))
<1> DEFINE x == Command(op, key, BucketOf(happened'[j]))
<1>0. \/ status'[v][j] = "settled"
      \/ status'[v][j] = "sent" /\ x \notin ToSet(pipes'[v])
  <2>1. Command(op, key, BucketOf(happened[j]))' = x
    BY DEF Command, BucketOf
  <2> QED
    BY <2>1 DEF Did, ToSet
<1>d. /\ happened'[j] = happened[j] /\ status[v][j] = "settled" => Did(v, j, op, key)
      /\ happened'[j] = happened[j] /\ status[v][j] = "sent" /\ x \notin ToSet(pipes[v]) => Did(v, j, op, key)
  BY DEF Did
<1> DEFINE Goal == /\ j \in DOMAIN happened /\ happened'[j] = happened[j]
                   /\ \/ Did(v, j, op, key)
                      \/ /\ status[v][j] = "sent" /\ Executed(v, j)
                         /\ Head(pipes[v]) = Command(op, key, BucketOf(happened[j]))
<1>1. CASE \E type \in EventTypes : Happens(type)
  <2>1. /\ \A i \in DOMAIN happened : happened'[i] = happened[i]
        /\ \A i \in DOMAIN happened : status'[v][i] = status[v][i]
        /\ j \notin DOMAIN happened => status'[v][j] = "heard"
        /\ UNCHANGED pipes
    BY <1>1, HappensIs
  <2> HIDE DEF x
  <2> QED
    BY <1>0, <1>d, <2>1
<1>2. ASSUME NEW w \in Replicas, NEW i \in DOMAIN happened, Began(w, i) PROVE Goal
  <2>1. /\ status[w][i] = "heard" /\ pipes[w] = <<>> /\ OneMark(w, i, "sent") /\ UNCHANGED happened
        /\ \A u \in Replicas : u # w => pipes'[u] = pipes[u]
        /\ ToSet(pipes'[w]) = CommandsOf(happened[i])
    BY <1>2 DEF Began
  <2>2. status'[v][j] = IF v = w /\ j = i THEN "sent" ELSE status[v][j]
    BY <2>1 DEF OneMark
  <2>3. v = w => Sending(v) = {}
    BY <2>1 DEF PipesOK
  <2>4. x \in CommandsOf(happened'[j])
    BY CommandOf
  <2>5. ~(v = w /\ j = i)
    BY <1>0, <2>1, <2>2, <2>4
  <2>6. v = w => status[v][j] # "sent"
    BY <2>1, <2>3, SendingIs
  <2> HIDE DEF x
  <2> QED
    BY <1>0, <1>d, <2>1, <2>2, <2>5, <2>6
<1>3. ASSUME NEW w \in Replicas, NEW i \in DOMAIN happened, Executed(w, i) PROVE Goal
  <2>1. UNCHANGED happened
    BY <1>3 DEF Executed
  <2> QED
    BY <1>3, <2>1, DidAfter
<1>4. ASSUME NEW w \in Replicas, NEW i \in DOMAIN happened, Died(w, i) PROVE Goal
  <2>1. /\ Sending(w) = {i} /\ OneMark(w, i, "lost") /\ UNCHANGED happened
        /\ pipes'[w] = <<>> /\ \A u \in Replicas : u # w => pipes'[u] = pipes[u]
    BY <1>4 DEF Died
  <2>2. status'[v][j] = IF v = w /\ j = i THEN "lost" ELSE status[v][j]
    BY <2>1 DEF OneMark
  <2>3. v = w /\ status[v][j] = "sent" => j = i
    BY <2>1, SendingIs
  <2> HIDE DEF x
  <2> QED
    BY <1>0, <1>d, <2>1, <2>2, <2>3
<1>5. CASE Tick
  <2>1. UNCHANGED <<happened, status, pipes>>
    BY <1>5, TickIs
  <2> HIDE DEF x
  <2> QED
    BY <1>0, <1>d, <2>1
<1>6. CASE Watching
  <2> HIDE DEF x
  <2> QED
    BY <1>0, <1>d, <1>6 DEF Watching
<1> QED
  BY <1>1, <1>2, <1>3, <1>4, <1>5, <1>6 DEF StepOf

\* What is found for a bucket within retention is found after any command, and what
\* a command adds is found.
LEMMA FoundAfter ==
    ASSUME StoreTypeOK, NEW o, NEW k, NEW t \in Nat, t <= clock, Effect(o, k, t),
           NEW op, NEW key, NEW ts \in Nat, ts <= clock, WithinRetention(ts),
           \/ IsFound(op, key, ts)
           \/ /\ o = op /\ k = key /\ t = ts
              /\ op = "pexpire_idx" => key.metric \in DOMAIN index
              /\ op = "pexpire_ts" => key \in DOMAIN zsets
    PROVE  /\ op = "sadd_idx" => key \in MembersOf(index', key.metric)
           /\ op = "pexpire_idx" => key.metric \in DOMAIN index' /\ Lasts(ExpOf(index', key.metric), ts)
           /\ op = "zadd_ts" => ts \in MembersOf(zsets', key)
           /\ op = "pexpire_ts" => key \in DOMAIN zsets' /\ Lasts(ExpOf(zsets', key), ts)
<1>1. clock \in Nat /\ retention \in Nat
  BY Parameters DEF StoreTypeOK
<1>2. /\ DOMAIN index' = DOMAIN index \cup IF o = "sadd_idx" THEN {k.metric} ELSE {}
      /\ \A m : /\ MembersOf(index', m) = MembersOf(index, m)
                                            \cup IF o = "sadd_idx" /\ m = k.metric THEN {k} ELSE {}
                /\ ExpOf(index', m) = IF o = "pexpire_idx" /\ m = k.metric /\ m \in DOMAIN index
                                      THEN clock + retention ELSE ExpOf(index, m)
  BY IndexAfter
<1>3. /\ DOMAIN zsets' = DOMAIN zsets \cup IF o = "zadd_ts" THEN {k} ELSE {}
      /\ \A n : /\ MembersOf(zsets', n) =
                      IF o = "zremrangebyscore_ts" /\ n = k
                      THEN {u \in MembersOf(zsets, n) : u > t - retention}
                      ELSE MembersOf(zsets, n) \cup IF o = "zadd_ts" /\ n = k THEN {t} ELSE {}
                /\ ExpOf(zsets', n) = IF o = "pexpire_ts" /\ n = k /\ n \in DOMAIN zsets
                                      THEN clock + retention ELSE ExpOf(zsets, n)
  BY ZsetsAfter
<1>4. Lasts(clock + retention, ts) /\ ts > t - retention
  BY <1>1 DEF Lasts, WithinRetention
<1>5. op = "sadd_idx" => key \in MembersOf(index', key.metric)
  BY <1>2 DEF IsFound
<1>6. op = "pexpire_idx" => key.metric \in DOMAIN index' /\ Lasts(ExpOf(index', key.metric), ts)
  BY <1>2, <1>4 DEF IsFound
<1>7. op = "zadd_ts" => ts \in MembersOf(zsets', key)
  BY <1>3, <1>4 DEF IsFound
<1>8. op = "pexpire_ts" => key \in DOMAIN zsets' /\ Lasts(ExpOf(zsets', key), ts)
  BY <1>3, <1>4 DEF IsFound
<1> QED
  BY <1>5, <1>6, <1>7, <1>8

\* What lasts survives as long as its bucket is within retention.
LEMMA LastsAndSurvives ==
    ASSUME StoreTypeOK, clock' = clock + 1, NEW map, NEW later, Ticked(map, later),
           NEW name \in DOMAIN map, NEW ts \in Nat, Lasts(ExpOf(map, name), ts), WithinRetention(ts)',
           ExpOf(map, name) \in Nat
    PROVE  name \in DOMAIN later /\ later[name] = map[name]
<1>1. clock \in Nat /\ retention \in Nat
  BY Parameters DEF StoreTypeOK
<1>2. Survives(map, name)
  BY <1>1 DEF Survives, Lasts, ExpOf, WithinRetention
<1> QED
  BY <1>2 DEF Ticked

\* What a query needs to find a bucket within retention stays there.
LEMMA FindStep ==
    ASSUME StoreTypeOK, PipesOK, CanBeFound, scenario' = scenario, StepOf, StoreTypeOK'
    PROVE  CanBeFound'
<1> SUFFICES ASSUME NEW v \in Replicas, NEW j \in DOMAIN happened', NEW ts, ts = BucketOf(happened'[j]),
                    NEW key \in ToSet(EventKeys(happened'[j])), NEW op \in Finding,
                    WithinRetention(ts)', Did(v, j, op, key)'
             PROVE  IsFound(op, key, ts)'
  BY DEF CanBeFound, WithinRetention, IsFound, ExpOf, MembersOf, Lasts, BucketOf
<1>1. op \in ToSet(Commands(key.metric))
  BY OpsOf DEF Finding
<1>2. /\ j \in DOMAIN happened /\ happened'[j] = happened[j]
      /\ \/ Did(v, j, op, key)
         \/ /\ status[v][j] = "sent" /\ Executed(v, j)
            /\ Head(pipes[v]) = Command(op, key, BucketOf(happened[j]))
  BY <1>1, DidBefore
<1>3. ts = BucketOf(happened[j])
  BY <1>2
<1>4. ts \in AllTs /\ ts \in Nat /\ ts <= clock /\ key \in AllKeys
  BY <1>2, <1>3, HappenedIs
<1>5. clock \in Nat /\ retention \in Nat /\ (clock' = clock \/ clock' = clock + 1)
  <2>1. clock' = clock \/ clock' = clock + 1
    <3>1. ASSUME NEW w, NEW i, Began(w, i) \/ Executed(w, i) \/ Died(w, i) PROVE clock' = clock
      BY <3>1 DEF Began, Executed, Died
    <3>2. ASSUME NEW type, Happens(type) PROVE clock' = clock
      BY <3>2 DEF Happens
    <3> QED
      BY <3>1, <3>2, TickIs DEF StepOf, Watching
  <2> QED
    BY <2>1, Parameters DEF StoreTypeOK
<1>6. WithinRetention(ts)
  BY <1>4, <1>5 DEF WithinRetention
<1>7. \A o \in Finding : Did(v, j, o, key) => IsFound(o, key, ts)
  BY <1>2, <1>3, <1>6 DEF CanBeFound
<1>8. ASSUME UNCHANGED <<index, zsets>>, Did(v, j, op, key) PROVE IsFound(op, key, ts)'
  <2>1. IsFound(op, key, ts)
    BY <1>7, <1>8
  <2> QED
    BY <1>8, <2>1 DEF IsFound, ExpOf, MembersOf, Lasts
<1>9. ASSUME NEW w \in Replicas, NEW i \in DOMAIN happened, Executed(w, i), Did(v, j, op, key)
      PROVE  IsFound(op, key, ts)'
  <2>1. PICK o \in Ops, k \in AllKeys, t \in AllTs : Effect(o, k, t) /\ t = BucketOf(happened[i])
    BY <1>9, CommandIs
  <2>2. t \in Nat /\ t <= clock
    BY <2>1, HappenedIs
  <2>3. IsFound(op, key, ts)
    BY <1>7, <1>9
  <2> QED
    BY <1>4, <1>6, <2>1, <2>2, <2>3, FoundAfter DEF IsFound
<1>10. ASSUME status[v][j] = "sent", Executed(v, j), Head(pipes[v]) = Command(op, key, ts)
       PROVE  IsFound(op, key, ts)'
  <2> DEFINE p == pipes[v]
             c == Head(p)
  <2>1. p # <<>> /\ PipeOf(p, happened[j]) /\ Effect(c.op, c.key, c.ts)
    BY <1>10 DEF Executed
  <2>2. c.op = op /\ c.key = key /\ c.ts = ts
    BY <1>10, CommandFields
  <2> HIDE DEF p
  <2>3. /\ c.op = "pexpire_idx" => Command("sadd_idx", c.key, c.ts) \notin ToSet(p)
        /\ c.op = "pexpire_ts" => Command("zadd_ts", c.key, c.ts) \notin ToSet(p)
    BY <2>1, BeforeIs
  <2> HIDE DEF c
  <2>4. op = "pexpire_idx" => key.metric \in DOMAIN index
    <3> SUFFICES ASSUME op = "pexpire_idx" PROVE key.metric \in DOMAIN index
      OBVIOUS
    <3>1. Did(v, j, "sadd_idx", key)
      BY <1>3, <1>10, <2>2, <2>3 DEF Did, p
    <3>2. IsFound("sadd_idx", key, ts)
      BY <1>7, <3>1 DEF Finding
    <3> QED
      BY <3>2 DEF IsFound, MembersOf
  <2>5. op = "pexpire_ts" => key \in DOMAIN zsets
    <3> SUFFICES ASSUME op = "pexpire_ts" PROVE key \in DOMAIN zsets
      OBVIOUS
    <3>1. Did(v, j, "zadd_ts", key)
      BY <1>3, <1>10, <2>2, <2>3 DEF Did, p
    <3>2. IsFound("zadd_ts", key, ts)
      BY <1>7, <3>1 DEF Finding
    <3> QED
      BY <3>2 DEF IsFound, MembersOf
  <2>6. Effect(op, key, ts)
    BY <2>1, <2>2
  <2> QED
    BY <1>4, <1>6, <2>4, <2>5, <2>6, FoundAfter DEF IsFound
<1>11. ASSUME Tick PROVE IsFound(op, key, ts)'
  <2>1. /\ AtRest /\ clock' = clock + 1
        /\ Ticked(index, index') /\ Ticked(zsets, zsets') /\ UNCHANGED <<status, pipes, happened>>
    BY <1>11, TickIs
  <2>2. status[v][j] # "sent"
    BY <1>2, <2>1, SendingIs DEF AtRest, PipesOK
  <2>3. status[v][j] = "settled"
    <3>1. CASE Did(v, j, op, key)
      BY <2>2, <3>1 DEF Did
    <3> QED
      BY <1>2, <2>2, <3>1
  <2>4. \A o : Did(v, j, o, key)
    BY <2>3 DEF Did
  <2>5. /\ IsFound("sadd_idx", key, ts) /\ IsFound("pexpire_idx", key, ts)
        /\ IsFound("zadd_ts", key, ts) /\ IsFound("pexpire_ts", key, ts)
    BY <1>7, <2>4 DEF Finding
  <2>6. key.metric \in DOMAIN index /\ ExpOf(index, key.metric) \in Nat
    BY <2>5 DEF IsFound, ExpOf, StoreTypeOK, IndexEntry
  <2>7. key \in DOMAIN zsets /\ ExpOf(zsets, key) \in Nat
    BY <2>5 DEF IsFound, ExpOf, StoreTypeOK, Series
  <2>8. key.metric \in DOMAIN index' /\ index'[key.metric] = index[key.metric]
    <3> DEFINE m == key.metric
    <3>1. m \in DOMAIN index /\ ExpOf(index, m) \in Nat /\ Lasts(ExpOf(index, m), ts)
      BY <2>5, <2>6 DEF IsFound
    <3> HIDE DEF m
    <3>2. m \in DOMAIN index' /\ index'[m] = index[m]
      BY <1>4, <1>6, <2>1, <3>1, LastsAndSurvives
    <3> QED
      BY <3>2 DEF m
  <2>9. key \in DOMAIN zsets' /\ zsets'[key] = zsets[key]
    <3>1. Lasts(ExpOf(zsets, key), ts)
      BY <2>5 DEF IsFound
    <3> QED
      BY <1>4, <1>6, <2>1, <2>7, <3>1, LastsAndSurvives
  <2> QED
    BY <2>5, <2>6, <2>7, <2>8, <2>9 DEF IsFound, ExpOf, MembersOf
<1>12. CASE Did(v, j, op, key)
  <2>1. ASSUME NEW type \in EventTypes, Happens(type) PROVE UNCHANGED <<index, zsets>>
    BY <2>1 DEF Happens, redis
  <2>2. ASSUME NEW w, NEW i, Began(w, i) \/ Died(w, i) PROVE UNCHANGED <<index, zsets>>
    BY <2>2 DEF Began, Died
  <2> QED
    BY <1>8, <1>9, <1>11, <1>12, <2>1, <2>2 DEF StepOf, Watching
<1> QED
  BY <1>2, <1>3, <1>10, <1>12

-----------------------------------------------------------------------------
\* Buckets count what was written.

\* As Indices, after a step.
LEMMA IndicesAfter ==
    ASSUME StoreTypeOK'
    PROVE  \A w \in Replicas : DOMAIN status'[w] = DOMAIN happened'
<1>1. /\ happened' \in Seq(Happenings') /\ status' \in [Replicas -> Seq(Marks)]
      /\ \A w \in Replicas : Len(status'[w]) = Len(happened')
  BY DEF StoreTypeOK, Marks
<1>2. DOMAIN happened' = 1..Len(happened')
  BY <1>1
<1> SUFFICES ASSUME NEW w \in Replicas PROVE DOMAIN status'[w] = DOMAIN happened'
  OBVIOUS
<1>3. status'[w] \in Seq(Marks) /\ Len(status'[w]) = Len(happened')
  BY <1>1
<1>4. DOMAIN status'[w] = 1..Len(status'[w])
  BY <1>3
<1> QED
  BY <1>2, <1>3, <1>4, Zenon

\* How marks go on: a write that has begun has begun, one that has ended has ended.
LEMMA MarksAfter ==
    ASSUME StoreTypeOK, PipesOK, scenario' = scenario, StepOf, NEW v \in Replicas
    PROVE  /\ \A j \in DOMAIN happened :
                 /\ j \in DOMAIN happened' /\ happened'[j] = happened[j]
                 /\ status[v][j] \in {"settled", "lost"} => status'[v][j] = status[v][j]
                 /\ status[v][j] \in Begun => status'[v][j] \in Begun
           /\ \A j \in DOMAIN happened' : j \notin DOMAIN happened => status'[v][j] = "heard"
<1>1. CASE \E type \in EventTypes : Happens(type)
  BY <1>1, HappensIs
<1>2. ASSUME NEW w \in Replicas, NEW i \in DOMAIN happened, NEW mark \in Begun, OneMark(w, i, mark),
             status[w][i] \in {"heard", "sent"}, UNCHANGED happened
      PROVE  /\ \A j \in DOMAIN happened :
                   /\ j \in DOMAIN happened' /\ happened'[j] = happened[j]
                   /\ status[v][j] \in {"settled", "lost"} => status'[v][j] = status[v][j]
                   /\ status[v][j] \in Begun => status'[v][j] \in Begun
             /\ \A j \in DOMAIN happened' : j \notin DOMAIN happened => status'[v][j] = "heard"
  BY <1>2 DEF OneMark
<1>3. ASSUME NEW w \in Replicas, NEW i \in DOMAIN happened, Began(w, i) \/ Executed(w, i) \/ Died(w, i)
      PROVE  \E mark \in Begun : OneMark(w, i, mark) /\ status[w][i] \in {"heard", "sent"} /\ UNCHANGED happened
  BY <1>3 DEF Began, Executed, Died, Begun
<1>4. CASE Tick \/ Watching
  <2>1. UNCHANGED <<happened, status>>
    BY <1>4, TickIs DEF Watching
  <2> QED
    BY <2>1
<1>5. CASE \E w \in Replicas, i \in DOMAIN happened : Began(w, i) \/ Executed(w, i) \/ Died(w, i)
  <2>1. PICK w \in Replicas, i \in DOMAIN happened : Began(w, i) \/ Executed(w, i) \/ Died(w, i)
    BY <1>5
  <2>2. PICK mark \in Begun : OneMark(w, i, mark) /\ status[w][i] \in {"heard", "sent"} /\ UNCHANGED happened
    BY <1>3, <2>1
  <2> QED
    BY <1>2, <2>2
<1> QED
  BY <1>1, <1>4, <1>5 DEF StepOf

\* The writes in one of the given states, now and after a step.
LEMMA WritesBothWays ==
    ASSUME StoreTypeOK, StoreTypeOK', NEW marks
    PROVE  /\ Writes(marks) = {x \in Replicas \X DOMAIN happened : status[x[1]][x[2]] \in marks}
           /\ Writes(marks)' = {x \in Replicas \X DOMAIN happened' : status'[x[1]][x[2]] \in marks}
<1> DEFINE Of(w) == {j \in DOMAIN status[w] : status[w][j] \in marks}
           After(w) == {j \in DOMAIN status'[w] : status'[w][j] \in marks}
<1>1. \A w \in Replicas : /\ Of(w) = {j \in DOMAIN happened : status[w][j] \in marks}
                          /\ After(w) = {j \in DOMAIN happened' : status'[w][j] \in marks}
  BY Indices, IndicesAfter
<1> QED
  BY <1>1 DEF Writes

\* The writes that count, and those that may: which they are, now and after a step.
LEMMA CountedIs ==
    ASSUME StoreTypeOK, StoreTypeOK', NEW key, NEW ts
    PROVE  /\ Counted(key, ts) = {x \in Replicas \X DOMAIN happened :
                                     Concerns(x[2], key, ts) /\ Did(x[1], x[2], CountOp(key.metric), key)}
           /\ Cut(key, ts) = {x \in Replicas \X DOMAIN happened :
                                 Concerns(x[2], key, ts) /\ status[x[1]][x[2]] = "lost"}
           /\ Counted(key, ts)' = {x \in Replicas \X DOMAIN happened' :
                                      Concerns(x[2], key, ts)' /\ Did(x[1], x[2], CountOp(key.metric), key)'}
           /\ Cut(key, ts)' = {x \in Replicas \X DOMAIN happened' :
                                  Concerns(x[2], key, ts)' /\ status'[x[1]][x[2]] = "lost"}
<1>2. \A marks : /\ Writes(marks) = {x \in Replicas \X DOMAIN happened : status[x[1]][x[2]] \in marks}
                 /\ Writes(marks)' = {x \in Replicas \X DOMAIN happened' : status'[x[1]][x[2]] \in marks}
  BY WritesBothWays
<1>3. /\ \A w, i, op : Did(w, i, op, key) => status[w][i] \in {"sent", "settled"}
      /\ \A w, i, op : Did(w, i, op, key)' => status'[w][i] \in {"sent", "settled"}
  BY DEF Did
<1>4. Counted(key, ts) = {x \in Replicas \X DOMAIN happened :
                             Concerns(x[2], key, ts) /\ Did(x[1], x[2], CountOp(key.metric), key)}
  BY <1>2, <1>3 DEF Counted
<1>5. Cut(key, ts) = {x \in Replicas \X DOMAIN happened :
                         Concerns(x[2], key, ts) /\ status[x[1]][x[2]] = "lost"}
  BY <1>2 DEF Cut
<1>6. Counted(key, ts)' = {x \in Replicas \X DOMAIN happened' :
                              Concerns(x[2], key, ts)' /\ Did(x[1], x[2], CountOp(key.metric), key)'}
  BY <1>2, <1>3 DEF Counted
<1>7. Cut(key, ts)' = {x \in Replicas \X DOMAIN happened' :
                          Concerns(x[2], key, ts)' /\ status'[x[1]][x[2]] = "lost"}
  BY <1>2 DEF Cut
<1> QED
  BY <1>4, <1>5, <1>6, <1>7

\* There are finitely many writes.
LEMMA CountedFinite ==
    ASSUME StoreTypeOK, StoreTypeOK', NEW key, NEW ts
    PROVE  /\ IsFiniteSet(Counted(key, ts)) /\ IsFiniteSet(Counted(key, ts) \cup Cut(key, ts))
           /\ IsFiniteSet(Counted(key, ts)') /\ IsFiniteSet(Counted(key, ts)' \cup Cut(key, ts)')
<1>1. IsFiniteSet(Replicas)
  BY Parameters DEF StoreTypeOK
<1>2. IsFiniteSet(DOMAIN happened)
  <2>1. DOMAIN happened = 1..Len(happened) /\ Len(happened) \in Nat
    BY Indices
  <2> QED
    BY <2>1, FS_Interval
<1>3. IsFiniteSet(DOMAIN happened')
  <2>1. happened' \in Seq(Happenings')
    BY DEF StoreTypeOK
  <2>2. DOMAIN happened' = 1..Len(happened') /\ Len(happened') \in Nat
    BY <2>1
  <2> QED
    BY <2>2, FS_Interval
<1>4. IsFiniteSet(Replicas \X DOMAIN happened) /\ IsFiniteSet(Replicas \X DOMAIN happened')
  BY <1>1, <1>2, <1>3, FS_Product
<1>5. /\ Counted(key, ts) \subseteq Replicas \X DOMAIN happened
      /\ Counted(key, ts) \cup Cut(key, ts) \subseteq Replicas \X DOMAIN happened
      /\ Counted(key, ts)' \subseteq Replicas \X DOMAIN happened'
      /\ Counted(key, ts)' \cup Cut(key, ts)' \subseteq Replicas \X DOMAIN happened'
  BY CountedIs
<1> QED
  BY <1>4, <1>5, FS_Subset

\* The command that is executed counts in this bucket.
Counts(w, i, key, ts) == Executed(w, i) /\ Head(pipes[w]) = Command(CountOp(key.metric), key, ts)

\* A step counts one write at most, and forgets none but the one that is cut short.
LEMMA CountedAfter ==
    ASSUME StoreTypeOK, PipesOK, scenario' = scenario, StepOf, StoreTypeOK',
           NEW key \in AllKeys, NEW ts
    PROVE  /\ Counted(key, ts) \cup Cut(key, ts) \subseteq Counted(key, ts)' \cup Cut(key, ts)'
           /\ \A x \in Counted(key, ts)' \ Counted(key, ts) :
                 \E w \in Replicas, i \in DOMAIN happened : x = <<w, i>> /\ Counts(w, i, key, ts)
<1>1. /\ Counted(key, ts) = {x \in Replicas \X DOMAIN happened :
                               Concerns(x[2], key, ts) /\ Did(x[1], x[2], CountOp(key.metric), key)}
      /\ Cut(key, ts) = {x \in Replicas \X DOMAIN happened :
                           Concerns(x[2], key, ts) /\ status[x[1]][x[2]] = "lost"}
      /\ Counted(key, ts)' = {x \in Replicas \X DOMAIN happened' :
                                Concerns(x[2], key, ts)' /\ Did(x[1], x[2], CountOp(key.metric), key)'}
      /\ Cut(key, ts)' = {x \in Replicas \X DOMAIN happened' :
                            Concerns(x[2], key, ts)' /\ status'[x[1]][x[2]] = "lost"}
  BY CountedIs
<1>2. \A j : /\ Concerns(j, key, ts) <=> CountsIn(happened[j], key) /\ BucketOf(happened[j]) = ts
             /\ Concerns(j, key, ts)' <=> CountsIn(happened'[j], key) /\ BucketOf(happened'[j]) = ts
  BY DEF Concerns, BucketOf, CountsIn
<1>3. ASSUME NEW v \in Replicas, NEW j \in DOMAIN happened, Concerns(j, key, ts),
             Did(v, j, CountOp(key.metric), key) \/ status[v][j] = "lost"
      PROVE  <<v, j>> \in Counted(key, ts)' \cup Cut(key, ts)'
  <2>1. /\ j \in DOMAIN happened' /\ happened'[j] = happened[j]
        /\ status[v][j] = "lost" => status'[v][j] = "lost"
    BY MarksAfter
  <2>2. Concerns(j, key, ts)'
    BY <1>2, <1>3, <2>1
  <2>3. Did(v, j, CountOp(key.metric), key) => Did(v, j, CountOp(key.metric), key)' \/ status'[v][j] = "lost"
    BY DidStays
  <2> QED
    BY <1>1, <1>3, <2>1, <2>2, <2>3
<1>4. ASSUME NEW v \in Replicas, NEW j \in DOMAIN happened', Concerns(j, key, ts)',
             Did(v, j, CountOp(key.metric), key)', <<v, j>> \notin Counted(key, ts)
      PROVE  j \in DOMAIN happened /\ Counts(v, j, key, ts)
  <2>1. j \in DOMAIN happened /\ happened'[j] = happened[j]
    <3>1. status'[v][j] # "heard"
      BY <1>4 DEF Did
    <3> QED
      BY <3>1, MarksAfter
  <2>2. key \in ToSet(EventKeys(happened'[j]))
    BY <1>2, <1>4, <2>1, HappenedIs
  <2>3. CountOp(key.metric) \in ToSet(Commands(key.metric))
    BY OpsOf
  <2>4. Concerns(j, key, ts)
    BY <1>2, <1>4, <2>1
  <2>5. ~Did(v, j, CountOp(key.metric), key)
    BY <1>1, <1>4, <2>1, <2>4
  <2>6. Executed(v, j) /\ Head(pipes[v]) = Command(CountOp(key.metric), key, BucketOf(happened[j]))
    BY <1>4, <2>2, <2>3, <2>5, DidBefore
  <2> QED
    BY <1>2, <2>1, <2>4, <2>6 DEF Counts
<1> QED
  BY <1>1, <1>3, <1>4

\* One replica's command at a time.
LEMMA OneExecutes ==
    ASSUME NEW w \in Replicas, NEW v \in Replicas, NEW i \in DOMAIN happened, NEW j \in DOMAIN happened,
           Executed(w, i), Executed(v, j)
    PROVE  v = w /\ j = i
<1>1. /\ pipes[v] # <<>> /\ PipeOf(pipes[v], happened[j]) /\ pipes'[v] = Tail(pipes[v]) /\ Sending(v) = {j}
      /\ Sending(w) = {i} /\ \A u \in Replicas : u # w => pipes'[u] = pipes[u]
  BY DEF Executed
<1>2. ToSet(Tail(pipes[v])) # ToSet(pipes[v])
  <2> DEFINE p == pipes[v]
  <2>1. p # <<>> /\ PipeOf(p, happened[j])
    BY <1>1
  <2> HIDE DEF p
  <2>2. Head(p) \in ToSet(p) /\ ToSet(Tail(p)) = ToSet(p) \ {Head(p)}
    BY <2>1, HeadIs
  <2> QED
    BY <2>2 DEF p
<1> QED
  BY <1>1, <1>2

\* The write whose count is executed counts from now on, and did not before.
LEMMA CountsIs ==
    ASSUME StoreTypeOK, StoreTypeOK', NEW key \in AllKeys, NEW ts,
           NEW w \in Replicas, NEW i \in DOMAIN happened, Counts(w, i, key, ts)
    PROVE  /\ <<w, i>> \in Counted(key, ts)' /\ <<w, i>> \notin Counted(key, ts) \cup Cut(key, ts)
<1> DEFINE p == pipes[w]
           op == CountOp(key.metric)
<1>1. /\ p # <<>> /\ PipeOf(p, happened[i]) /\ status[w][i] = "sent" /\ pipes'[w] = Tail(p)
      /\ OneMark(w, i, IF Tail(p) = <<>> THEN "settled" ELSE "sent") /\ UNCHANGED happened
      /\ Head(p) = Command(op, key, ts)
  BY DEF Counts, Executed
<1>2. status'[w][i] = IF Tail(p) = <<>> THEN "settled" ELSE "sent"
  BY <1>1 DEF OneMark
<1> HIDE DEF p, op
<1>3. /\ ToSet(Tail(p)) = ToSet(p) \ {Head(p)} /\ Head(p) \in ToSet(p)
      /\ Head(p).ts = BucketOf(happened[i]) /\ Head(p).key \in ToSet(EventKeys(happened[i]))
  BY <1>1, HeadIs
<1>4. ts = BucketOf(happened[i]) /\ CountsIn(happened[i], key)
  BY <1>1, <1>3, HappenedIs, CommandFields
<1>5. Concerns(i, key, ts) /\ Concerns(i, key, ts)'
  BY <1>1, <1>4 DEF Concerns, CountsIn, BucketOf
<1>6. ~Did(w, i, op, key)
  BY <1>1, <1>3, <1>4 DEF Did, p
<1>7. Did(w, i, op, key)'
  <2>1. Command(op, key, ts) \notin ToSet(Tail(p))
    BY <1>1, <1>3
  <2>2. BucketOf(happened'[i]) = ts
    BY <1>1, <1>4
  <2>3. status'[w][i] = "settled" \/ (status'[w][i] = "sent" /\ Command(op, key, ts) \notin ToSet(pipes'[w]))
    BY <1>1, <1>2, <2>1
  <2> QED
    BY <2>2, <2>3 DEF Did, Command, ToSet, BucketOf, op
<1> QED
  BY <1>1, <1>5, <1>6, <1>7, CountedIs DEF op

\* What a step does to a bucket: no count but of a write, and what lasts lasts.
LEMMA BucketAfter ==
    ASSUME StoreTypeOK, PipesOK, scenario' = scenario, StepOf, NEW key \in AllKeys, NEW ts \in AllTs,
           Lasts(ExpOf(buckets, <<key, ts>>), ts)
    PROVE  LET b == <<key, ts>>
           IN  /\ NOf(buckets, b) \in Nat /\ NOf(buckets', b) \in Nat
               /\ Lasts(ExpOf(buckets', b), ts)
               /\ WithinRetention(ts)' => WithinRetention(ts) /\ NOf(buckets, b) <= NOf(buckets', b)
               /\ \/ NOf(buckets', b) <= NOf(buckets, b)
                  \/ /\ NOf(buckets', b) = NOf(buckets, b) + 1
                     /\ \E w \in Replicas, i \in DOMAIN happened : Counts(w, i, key, ts)
<1> DEFINE b == <<key, ts>>
<1> HIDE DEF b
<1>1. clock \in Nat /\ retention \in Nat /\ NOf(buckets, b) \in Nat /\ ExpOf(buckets, b) \in Nat
  BY Parameters DEF StoreTypeOK, Bucket, NOf, ExpOf, NoTTL
<1>2. ASSUME UNCHANGED <<clock, buckets>>
      PROVE  /\ NOf(buckets', b) = NOf(buckets, b) /\ Lasts(ExpOf(buckets', b), ts)
             /\ WithinRetention(ts)' => WithinRetention(ts)
  BY <1>2 DEF WithinRetention, b
<1>3. ASSUME NEW type \in EventTypes, Happens(type) PROVE UNCHANGED <<clock, buckets>>
  BY <1>3 DEF Happens, redis
<1>4. ASSUME NEW w, NEW i, Began(w, i) \/ Died(w, i) PROVE UNCHANGED <<clock, buckets>>
  BY <1>4 DEF Began, Died
<1>5. ASSUME Watching PROVE UNCHANGED <<clock, buckets>>
  BY <1>5 DEF Watching
<1>6. ASSUME NEW w \in Replicas, NEW i \in DOMAIN happened, Executed(w, i)
      PROVE  /\ NOf(buckets', b) \in Nat /\ Lasts(ExpOf(buckets', b), ts)
             /\ WithinRetention(ts)' => WithinRetention(ts)
             /\ NOf(buckets, b) <= NOf(buckets', b)
             /\ \/ NOf(buckets', b) <= NOf(buckets, b)
                \/ NOf(buckets', b) = NOf(buckets, b) + 1 /\ Counts(w, i, key, ts)
  <2>1. PICK op \in Ops, k \in AllKeys, t \in AllTs :
            /\ Head(pipes[w]) = Command(op, k, t) /\ Effect(op, k, t)
            /\ t = BucketOf(happened[i]) /\ op \in ToSet(Commands(k.metric))
    BY <1>6, CommandIs
  <2> DEFINE name == <<k, t>>
  <2>2. /\ NOf(buckets', b) = NOf(buckets, b) + (IF op \in {"incrby", "hincrby_b"} /\ b = name THEN 1 ELSE 0)
        /\ ExpOf(buckets', b) = IF op = "pexpire_bucket" /\ b = name /\ b \in DOMAIN buckets
                                THEN clock + retention ELSE ExpOf(buckets, b)
    <3>0. Effect(op, k, t)
      BY <2>1
    <3> HIDE DEF name
    <3>1. LET nm == <<k, t>>
          IN  /\ DOMAIN buckets' = DOMAIN buckets
                                     \cup IF op \in {"incrby", "hincrby_b", "hincrby_total"} THEN {nm} ELSE {}
              /\ \A b0 : /\ NOf(buckets', b0) = NOf(buckets, b0)
                                                 + IF op \in {"incrby", "hincrby_b"} /\ b0 = nm THEN 1 ELSE 0
                         /\ TotalOf(buckets', b0) = TotalOf(buckets, b0)
                                                 + IF op = "hincrby_total" /\ b0 = nm THEN 1 ELSE 0
                         /\ ExpOf(buckets', b0) = IF op = "pexpire_bucket" /\ b0 = nm /\ b0 \in DOMAIN buckets
                                                  THEN clock + retention ELSE ExpOf(buckets, b0)
      BY <3>0, BucketsAfter, Zenon
    <3> QED
      BY <3>1, Zenon DEF name
  <2>3. b = name => k = key /\ t = ts
    BY DEF b
  <2> HIDE DEF name
  <2>4. t \in Nat /\ t <= clock
    BY <2>1, HappenedIs
  <2>5. b = name => Lasts(clock + retention, ts)
    BY <1>1, <2>3, <2>4 DEF Lasts
  <2>6. op \in {"incrby", "hincrby_b"} => op = CountOp(k.metric)
    BY <2>1, OpsOf DEF CountOp
  <2>7. op \in {"incrby", "hincrby_b"} /\ b = name => Counts(w, i, key, ts)
    BY <1>6, <2>1, <2>3, <2>6 DEF Counts
  <2>8. WithinRetention(ts)' => WithinRetention(ts)
    BY <1>6 DEF Executed, WithinRetention
  <2>9. Lasts(ExpOf(buckets', b), ts)
    BY <2>2, <2>5 DEF b
  <2> QED
    BY <1>1, <2>2, <2>7, <2>8, <2>9
<1>7. ASSUME Tick
      PROVE  /\ NOf(buckets', b) \in Nat /\ NOf(buckets', b) <= NOf(buckets, b)
             /\ Lasts(ExpOf(buckets', b), ts)
             /\ WithinRetention(ts)' => WithinRetention(ts) /\ NOf(buckets, b) <= NOf(buckets', b)
  <2>1. clock' = clock + 1 /\ Ticked(buckets, buckets')
    BY <1>7, TickIs
  <2>2. ts \in Nat
    <3>1. PICK u \in 0..MaxClock : ts = floorToBucket(u, width)
      BY DEF AllTs
    <3>2. MaxClock \in Nat /\ width \in Nat /\ width > 0
      BY Parameters DEF StoreTypeOK
    <3> QED
      BY <3>1, <3>2, FloorIs
  <2>3. CASE b \in DOMAIN buckets'
    <3>1. b \in DOMAIN buckets /\ buckets'[b] = buckets[b]
      BY <2>1, <2>3 DEF Ticked
    <3>2. NOf(buckets', b) = NOf(buckets, b) /\ ExpOf(buckets', b) = ExpOf(buckets, b)
      BY <2>3, <3>1 DEF NOf, ExpOf
    <3>3. WithinRetention(ts)' => WithinRetention(ts)
      BY <1>1, <2>1, <2>2 DEF WithinRetention
    <3> QED
      BY <1>1, <3>2, <3>3 DEF b
  <2>4. CASE b \notin DOMAIN buckets'
    <3>1. NOf(buckets', b) = 0 /\ ExpOf(buckets', b) = NoTTL
      BY <2>4 DEF NOf, ExpOf
    <3>2. WithinRetention(ts)' => b \notin DOMAIN buckets
      <4> SUFFICES ASSUME WithinRetention(ts)', b \in DOMAIN buckets PROVE FALSE
        OBVIOUS
      <4>1. Lasts(ExpOf(buckets, b), ts)
        BY DEF b
      <4> QED
        BY <1>1, <2>1, <2>2, <2>4, <4>1, LastsAndSurvives
    <3>3. WithinRetention(ts)' => WithinRetention(ts)
      BY <1>1, <2>1, <2>2 DEF WithinRetention
    <3>4. WithinRetention(ts)' => NOf(buckets, b) = 0
      BY <3>2 DEF NOf
    <3> QED
      BY <1>1, <3>1, <3>3, <3>4 DEF Lasts
  <2> QED
    BY <2>3, <2>4
<1>8. CASE UNCHANGED <<clock, buckets>>
  BY <1>1, <1>2, <1>8 DEF b
<1>9. CASE \E w \in Replicas, i \in DOMAIN happened : Executed(w, i)
  <2>1. PICK w \in Replicas, i \in DOMAIN happened : Executed(w, i)
    BY <1>9
  <2> QED
    BY <1>1, <1>6, <2>1 DEF b
<1>10. CASE Tick
  BY <1>1, <1>7, <1>10 DEF b
<1> QED
  BY <1>3, <1>4, <1>5, <1>8, <1>9, <1>10 DEF StepOf

\* A bucket holds every write that has counted, and none that has not.
LEMMA CountsStep ==
    ASSUME StoreTypeOK, PipesOK, CountsAdd, scenario' = scenario, StepOf, StoreTypeOK'
    PROVE  CountsAdd'
<1>0. AllKeys' = AllKeys /\ AllTs' = AllTs
  BY SameBounds
<1> SUFFICES ASSUME NEW key \in AllKeys, NEW ts \in AllTs
             PROVE  /\ WithinRetention(ts)' => Cardinality(Counted(key, ts)') <= NOf(buckets', <<key, ts>>)
                    /\ NOf(buckets', <<key, ts>>) <= Cardinality(Counted(key, ts)' \cup Cut(key, ts)')
                    /\ Lasts(ExpOf(buckets', <<key, ts>>), ts)
  BY <1>0 DEF CountsAdd, ExpOf, NOf, Lasts, WithinRetention
<1> DEFINE K == Counted(key, ts)
           U == Counted(key, ts) \cup Cut(key, ts)
           K1 == Counted(key, ts)'
           U1 == Counted(key, ts)' \cup Cut(key, ts)'
           n == NOf(buckets, <<key, ts>>)
           n1 == NOf(buckets', <<key, ts>>)
<1>1. /\ WithinRetention(ts) => Cardinality(K) <= n
      /\ n <= Cardinality(U) /\ Lasts(ExpOf(buckets, <<key, ts>>), ts)
  BY DEF CountsAdd
<1>2. /\ n \in Nat /\ n1 \in Nat /\ Lasts(ExpOf(buckets', <<key, ts>>), ts)
      /\ WithinRetention(ts)' => WithinRetention(ts) /\ n <= n1
      /\ n1 <= n \/ (n1 = n + 1 /\ \E w \in Replicas, i \in DOMAIN happened : Counts(w, i, key, ts))
  BY <1>1, BucketAfter
<1>3. IsFiniteSet(K) /\ IsFiniteSet(U) /\ IsFiniteSet(K1) /\ IsFiniteSet(U1)
  BY CountedFinite
<1>4. /\ U \subseteq U1
      /\ \A x \in K1 \ K : \E w \in Replicas, i \in DOMAIN happened : x = <<w, i>> /\ Counts(w, i, key, ts)
  BY CountedAfter
<1>5. Cardinality(K) \in Nat /\ Cardinality(U) \in Nat /\ Cardinality(K1) \in Nat /\ Cardinality(U1) \in Nat
  <2> HIDE DEF K, U, K1, U1
  <2> QED
    BY <1>3, FS_CardinalityType
<1>6. CASE ~\E w \in Replicas, i \in DOMAIN happened : Counts(w, i, key, ts)
  <2>1. K1 \subseteq K /\ n1 <= n
    BY <1>2, <1>4, <1>6
  <2> HIDE DEF K, U, K1, U1, n, n1
  <2>2. Cardinality(K1) <= Cardinality(K) /\ Cardinality(U) <= Cardinality(U1)
    BY <1>3, <1>4, <2>1, FS_Subset
  <2>3. n1 <= Cardinality(U1)
    BY <1>1, <1>2, <1>5, <2>1, <2>2
  <2>4. WithinRetention(ts)' => Cardinality(K1) <= n1
    BY <1>1, <1>2, <1>5, <2>2
  <2> QED
    BY <1>2, <2>3, <2>4 DEF K1, U1, n1
<1>7. CASE \E w \in Replicas, i \in DOMAIN happened : Counts(w, i, key, ts)
  <2>1. PICK w \in Replicas, i \in DOMAIN happened : Counts(w, i, key, ts)
    BY <1>7
  <2> DEFINE x == <<w, i>>
  <2>2. x \in K1 /\ x \notin U
    BY <2>1, CountsIs
  <2>3. K1 \subseteq K \cup {x}
    BY <1>4, <2>1, OneExecutes DEF Counts
  <2>4. n1 = n + 1
    <3>1. Executed(w, i) /\ Head(pipes[w]) = Command(CountOp(key.metric), key, ts)
      BY <2>1 DEF Counts
    <3>2. Effect(CountOp(key.metric), key, ts)
      <4>1. Effect(Head(pipes[w]).op, Head(pipes[w]).key, Head(pipes[w]).ts)
        BY <3>1 DEF Executed
      <4> QED
        BY <3>1, <4>1, CommandFields
    <3>3. CountOp(key.metric) \in {"incrby", "hincrby_b"}
      BY DEF CountOp
    <3> DEFINE op == CountOp(key.metric)
    <3> HIDE DEF op
    <3>4. Effect(op, key, ts) /\ op \in {"incrby", "hincrby_b"}
      BY <3>2, <3>3 DEF op
    <3>5. LET nm == <<key, ts>>
          IN  /\ DOMAIN buckets' = DOMAIN buckets
                                     \cup IF op \in {"incrby", "hincrby_b", "hincrby_total"} THEN {nm} ELSE {}
              /\ \A b0 : /\ NOf(buckets', b0) = NOf(buckets, b0)
                                                 + IF op \in {"incrby", "hincrby_b"} /\ b0 = nm THEN 1 ELSE 0
                         /\ TotalOf(buckets', b0) = TotalOf(buckets, b0)
                                                 + IF op = "hincrby_total" /\ b0 = nm THEN 1 ELSE 0
                         /\ ExpOf(buckets', b0) = IF op = "pexpire_bucket" /\ b0 = nm /\ b0 \in DOMAIN buckets
                                                  THEN clock + retention ELSE ExpOf(buckets, b0)
      BY <3>4, BucketsAfter, Zenon
    <3> QED
      BY <3>4, <3>5
  <2> HIDE DEF K, U, K1, U1, n, n1, x
  <2>5. /\ Cardinality(K \cup {x}) <= Cardinality(K) + 1 /\ IsFiniteSet(K \cup {x})
        /\ Cardinality(U \cup {x}) = Cardinality(U) + 1 /\ IsFiniteSet(U \cup {x})
    <3>1. Cardinality(K \cup {x}) = (IF x \in K THEN Cardinality(K) ELSE Cardinality(K) + 1) /\ IsFiniteSet(K \cup {x})
      BY <1>3, FS_AddElement
    <3>2. Cardinality(U \cup {x}) = (IF x \in U THEN Cardinality(U) ELSE Cardinality(U) + 1) /\ IsFiniteSet(U \cup {x})
      BY <1>3, FS_AddElement
    <3> QED
      BY <1>5, <2>2, <3>1, <3>2
  <2>6. U \cup {x} \subseteq U1
    BY <1>4, <2>2 DEF K1, U1
  <2>7. Cardinality(K1) <= Cardinality(K \cup {x}) /\ Cardinality(U \cup {x}) <= Cardinality(U1)
    BY <1>3, <2>3, <2>5, <2>6, FS_Subset
  <2>8. Cardinality(K \cup {x}) \in Nat
    BY <2>5, FS_CardinalityType
  <2>9. n1 <= Cardinality(U1)
    BY <1>1, <1>2, <1>5, <2>4, <2>5, <2>7
  <2>10. WithinRetention(ts)' => Cardinality(K1) <= n1
    BY <1>1, <1>2, <1>5, <2>4, <2>5, <2>7, <2>8
  <2> QED
    BY <1>2, <2>9, <2>10 DEF K1, U1, n1
<1> QED
  BY <1>6, <1>7

-----------------------------------------------------------------------------
\* Totals follow their buckets.

\* A pipeline whose next command counts a total comes from the one that has counted the
\* bucket; one that has counted a total counts no other next.
LEMMA TotalIsNext ==
    ASSUME NEW w \in Replicas, NEW i \in DOMAIN happened, Executed(w, i), NEW key, NEW ts,
           Tail(pipes[w]) # <<>>, Head(Tail(pipes[w])) = Command("hincrby_total", key, ts)
    PROVE  Head(pipes[w]) = Command("hincrby_b", key, ts)
<1> DEFINE p == pipes[w]
           c == Head(p)
           d == Head(Tail(p))
<1>1. PipeOf(p, happened[i]) /\ p # <<>> /\ Tail(p) # <<>>
  BY DEF Executed
<1>2. d.op = "hincrby_total" /\ d.key = key /\ d.ts = ts
  BY CommandFields
<1> HIDE DEF p
<1>3. c.op # "pexpire_bucket"
  BY <1>1, <1>2, RestartIs
<1>4. \E op : <<c.op, op>> \in Successive /\ d = Command(op, c.key, c.ts)
  BY <1>1, <1>3, NextIs
<1>5. c = Command(c.op, c.key, c.ts)
  BY <1>1, HeadIs
<1> HIDE DEF c, d
<1>6. PICK op : <<c.op, op>> \in Successive /\ d = Command(op, c.key, c.ts)
  BY <1>4
<1>7. op = "hincrby_total" /\ c.key = key /\ c.ts = ts
  BY <1>2, <1>6, CommandFields
<1>8. c.op = "hincrby_b"
  BY <1>6, <1>7 DEF Successive
<1> QED
  BY <1>5, <1>7, <1>8 DEF c, p

\* A total is counted after its bucket.
LEMMA TotalsStep ==
    ASSUME StoreTypeOK, PipesOK, TotalsFollow, scenario' = scenario, StepOf, StoreTypeOK'
    PROVE  TotalsFollow'
<1>0. AllKeys' = AllKeys /\ AllTs' = AllTs
  BY SameBounds
<1> SUFFICES ASSUME NEW key \in AllKeys, NEW ts \in AllTs
             PROVE  TotalOf(buckets', <<key, ts>>) + Cardinality(Totalling(key, ts)') <= NOf(buckets', <<key, ts>>)
  BY <1>0 DEF TotalsFollow, NOf, TotalOf
<1> DEFINE b == <<key, ts>>
           T == Totalling(key, ts)
           T1 == Totalling(key, ts)'
           x == Command("hincrby_total", key, ts)
<1>1. /\ TotalOf(buckets, b) + Cardinality(T) <= NOf(buckets, b)
      /\ NOf(buckets, b) \in Nat /\ TotalOf(buckets, b) \in Nat
  BY DEF TotalsFollow, StoreTypeOK, Bucket, NOf, TotalOf
<1>2. /\ T = {w \in Replicas : pipes[w] # <<>> /\ Head(pipes[w]) = x}
      /\ T1 = {w \in Replicas : pipes'[w] # <<>> /\ Head(pipes'[w]) = x}
  BY DEF Totalling, Command
<1>3. /\ IsFiniteSet(T) /\ IsFiniteSet(T1) /\ Cardinality(T) \in Nat /\ Cardinality(T1) \in Nat
  <2>1. IsFiniteSet(Replicas)
    BY Parameters DEF StoreTypeOK
  <2>2. IsFiniteSet(T) /\ IsFiniteSet(T1)
    BY <1>2, <2>1, FS_Subset
  <2> HIDE DEF T, T1
  <2> QED
    BY <2>2, FS_CardinalityType
<1>4. ASSUME T1 \subseteq T, TotalOf(buckets', b) <= TotalOf(buckets, b), NOf(buckets, b) <= NOf(buckets', b),
             TotalOf(buckets', b) \in Nat, NOf(buckets', b) \in Nat
      PROVE  TotalOf(buckets', b) + Cardinality(T1) <= NOf(buckets', b)
  <2> HIDE DEF b, T, T1
  <2>1. Cardinality(T1) <= Cardinality(T)
    BY <1>3, <1>4, FS_Subset
  <2> QED
    BY <1>1, <1>3, <1>4, <2>1
<1>5. ASSUME T1 \subseteq T, UNCHANGED buckets
      PROVE  TotalOf(buckets', b) + Cardinality(T1) <= NOf(buckets', b)
  BY <1>1, <1>4, <1>5
<1>6. ASSUME NEW type \in EventTypes, Happens(type)
      PROVE  TotalOf(buckets', b) + Cardinality(T1) <= NOf(buckets', b)
  <2>1. UNCHANGED <<pipes, buckets>>
    BY <1>6 DEF Happens, redis
  <2> QED
    BY <1>2, <1>5, <2>1
<1>7. ASSUME Watching
      PROVE  TotalOf(buckets', b) + Cardinality(T1) <= NOf(buckets', b)
  BY <1>2, <1>5, <1>7 DEF Watching
<1>8. ASSUME NEW w \in Replicas, NEW i \in DOMAIN happened, Began(w, i)
      PROVE  TotalOf(buckets', b) + Cardinality(T1) <= NOf(buckets', b)
  <2>1. /\ Head(pipes'[w]).op = "sadd_idx" /\ \A v \in Replicas : v # w => pipes'[v] = pipes[v]
        /\ UNCHANGED buckets
    BY <1>8 DEF Began
  <2>2. Head(pipes'[w]) # x
    BY <2>1, CommandFields
  <2>3. T1 \subseteq T
    BY <1>2, <2>1, <2>2
  <2> QED
    BY <1>5, <2>1, <2>3
<1>9. ASSUME NEW w \in Replicas, NEW i \in DOMAIN happened, Died(w, i)
      PROVE  TotalOf(buckets', b) + Cardinality(T1) <= NOf(buckets', b)
  <2>1. /\ pipes'[w] = <<>> /\ \A v \in Replicas : v # w => pipes'[v] = pipes[v]
        /\ UNCHANGED buckets
    BY <1>9 DEF Died
  <2>3. T1 \subseteq T
    BY <1>2, <2>1
  <2> QED
    BY <1>5, <2>1, <2>3
<1>10. ASSUME Tick
       PROVE  TotalOf(buckets', b) + Cardinality(T1) <= NOf(buckets', b)
  <2>1. AtRest /\ UNCHANGED pipes /\ Ticked(buckets, buckets')
    BY <1>10, TickIs
  <2>2. T1 = {} /\ T = {}
    BY <1>2, <2>1 DEF AtRest
  <2>3. Cardinality(T1) = 0 /\ Cardinality(T) = 0
    BY <2>2, FS_EmptySet
  <2> HIDE DEF T, T1
  <2>4. CASE b \in DOMAIN buckets'
    <3>1. b \in DOMAIN buckets /\ buckets'[b] = buckets[b]
      BY <2>1, <2>4 DEF Ticked
    <3>2. NOf(buckets', b) = NOf(buckets, b) /\ TotalOf(buckets', b) = TotalOf(buckets, b)
      BY <2>4, <3>1 DEF NOf, TotalOf
    <3> QED
      BY <1>1, <2>3, <3>2
  <2>5. CASE b \notin DOMAIN buckets'
    BY <2>3, <2>5 DEF NOf, TotalOf
  <2> QED
    BY <2>4, <2>5
<1>11. ASSUME NEW w \in Replicas, NEW i \in DOMAIN happened, Executed(w, i)
       PROVE  TotalOf(buckets', b) + Cardinality(T1) <= NOf(buckets', b)
  <2>1. PICK op \in Ops, k \in AllKeys, t \in AllTs : Head(pipes[w]) = Command(op, k, t) /\ Effect(op, k, t)
    BY <1>11, CommandIs
  <2>2. /\ pipes[w] # <<>> /\ pipes'[w] = Tail(pipes[w])
        /\ \A v \in Replicas : v # w => pipes'[v] = pipes[v]
    BY <1>11 DEF Executed
  <2>0. Effect(op, k, t)
    BY <2>1
  <2>3. LET nm == <<k, t>>
        IN  /\ DOMAIN buckets' = DOMAIN buckets
                                   \cup IF op \in {"incrby", "hincrby_b", "hincrby_total"} THEN {nm} ELSE {}
            /\ \A b0 : /\ NOf(buckets', b0) = NOf(buckets, b0)
                                                + IF op \in {"incrby", "hincrby_b"} /\ b0 = nm THEN 1 ELSE 0
                       /\ TotalOf(buckets', b0) = TotalOf(buckets, b0)
                                                + IF op = "hincrby_total" /\ b0 = nm THEN 1 ELSE 0
                       /\ ExpOf(buckets', b0) = IF op = "pexpire_bucket" /\ b0 = nm /\ b0 \in DOMAIN buckets
                                                THEN clock + retention ELSE ExpOf(buckets, b0)
    BY <2>0, BucketsAfter, Zenon
  <2>4. w \in T1 <=> Tail(pipes[w]) # <<>> /\ Head(Tail(pipes[w])) = x
    BY <1>2, <2>2
  <2>5. w \in T1 => op = "hincrby_b" /\ k = key /\ t = ts
    <3>1. w \in T1 => Head(pipes[w]) = Command("hincrby_b", key, ts)
      BY <1>11, <2>4, TotalIsNext
    <3> QED
      BY <2>1, <3>1, CommandFields
  <2>6. w \in T <=> op = "hincrby_total" /\ k = key /\ t = ts
    BY <1>2, <2>1, <2>2, CommandFields
  <2>7. \A v \in Replicas : v # w => (v \in T1 <=> v \in T)
    BY <1>2, <2>2
  <2>8. T \subseteq Replicas /\ T1 \subseteq Replicas
    BY <1>2
  <2> DEFINE name == <<k, t>>
  <2>9. b = name <=> k = key /\ t = ts
    OBVIOUS
  <2>10. /\ NOf(buckets', b) = NOf(buckets, b) + IF op \in {"incrby", "hincrby_b"} /\ b = name THEN 1 ELSE 0
         /\ TotalOf(buckets', b) = TotalOf(buckets, b) + IF op = "hincrby_total" /\ b = name THEN 1 ELSE 0
    BY <2>3, Zenon
  <2> HIDE DEF b, T, T1, name, x
  <2>11. CASE op = "hincrby_b" /\ b = name
    <3>1. T1 \subseteq T \cup {w}
      BY <2>7, <2>8
    <3>2. Cardinality(T \cup {w}) <= Cardinality(T) + 1 /\ IsFiniteSet(T \cup {w}) /\ Cardinality(T \cup {w}) \in Nat
      <4>1. /\ Cardinality(T \cup {w}) = IF w \in T THEN Cardinality(T) ELSE Cardinality(T) + 1
            /\ IsFiniteSet(T \cup {w})
        BY <1>3, FS_AddElement
      <4> QED
        BY <1>3, <4>1
    <3>3. Cardinality(T1) <= Cardinality(T \cup {w})
      BY <3>1, <3>2, FS_Subset
    <3>4. NOf(buckets', b) = NOf(buckets, b) + 1 /\ TotalOf(buckets', b) = TotalOf(buckets, b)
      BY <1>1, <2>10, <2>11
    <3> QED
      BY <1>1, <1>3, <3>2, <3>3, <3>4
  <2>12. CASE op = "hincrby_total" /\ b = name
    <3>1. w \in T /\ w \notin T1
      BY <2>5, <2>6, <2>9, <2>12
    <3>2. T1 \cup {w} \subseteq T
      BY <2>7, <2>8, <3>1
    <3>3. Cardinality(T1 \cup {w}) = Cardinality(T1) + 1 /\ IsFiniteSet(T1 \cup {w})
      <4>1. /\ Cardinality(T1 \cup {w}) = IF w \in T1 THEN Cardinality(T1) ELSE Cardinality(T1) + 1
            /\ IsFiniteSet(T1 \cup {w})
        BY <1>3, FS_AddElement
      <4> QED
        BY <1>3, <3>1, <4>1
    <3>4. Cardinality(T1 \cup {w}) <= Cardinality(T)
      BY <1>3, <3>2, FS_Subset
    <3>5. NOf(buckets', b) = NOf(buckets, b) /\ TotalOf(buckets', b) = TotalOf(buckets, b) + 1
      BY <1>1, <2>10, <2>12
    <3> QED
      BY <1>1, <1>3, <3>3, <3>4, <3>5
  <2>13. CASE ~(op = "hincrby_b" /\ b = name) /\ ~(op = "hincrby_total" /\ b = name)
    <3>1. w \notin T1
      BY <2>5, <2>9, <2>13
    <3>2. T1 \subseteq T
      BY <2>7, <2>8, <3>1
    <3>3. TotalOf(buckets', b) = TotalOf(buckets, b) /\ NOf(buckets, b) <= NOf(buckets', b) /\ NOf(buckets', b) \in Nat
      BY <1>1, <2>10, <2>13
    <3> QED
      BY <1>1, <1>4, <3>2, <3>3 DEF T, T1, b
  <2> QED
    BY <2>11, <2>12, <2>13
<1> QED
  BY <1>6, <1>7, <1>8, <1>9, <1>10, <1>11 DEF StepOf

-----------------------------------------------------------------------------
\* What a query answers.

\* The writes that Observed counts.
ObservedIn(writes, key, ts) == {wi \in writes : Concerns(wi[2], key, ts)}

\* What Observed counts.
LEMMA ObservedIs ==
    \A writes, key, ts : Observed(writes, key, ts) = Cardinality(ObservedIn(writes, key, ts))
BY DEF Observed, ObservedIn, Concerns, BucketOf

\* The writes in one of the given states, of all replicas.
LEMMA WritesIs ==
    ASSUME StoreTypeOK, NEW marks
    PROVE  /\ Writes(marks) = {x \in Replicas \X DOMAIN happened : status[x[1]][x[2]] \in marks}
           /\ IsFiniteSet(Writes(marks))
<1>1. Writes(marks) = {x \in Replicas \X DOMAIN happened : status[x[1]][x[2]] \in marks}
  <2>1. \A w \in Replicas : {j \in DOMAIN status[w] : status[w][j] \in marks}
                                = {j \in DOMAIN happened : status[w][j] \in marks}
    BY Indices
  <2> QED
    BY <2>1 DEF Writes
<1>2. IsFiniteSet(Replicas) /\ IsFiniteSet(DOMAIN happened)
  <2>1. DOMAIN happened = 1..Len(happened) /\ Len(happened) \in Nat
    BY Indices
  <2>2. IsFiniteSet(Replicas)
    BY Parameters DEF StoreTypeOK
  <2> QED
    BY <2>1, <2>2, FS_Interval
<1>3. IsFiniteSet(Replicas \X DOMAIN happened)
  BY <1>2, FS_Product
<1> QED
  BY <1>1, <1>3, FS_Subset

\* Some of the writes are no more than the writes.
LEMMA ObservedGrows ==
    ASSUME NEW some, NEW more, IsFiniteSet(more), some \subseteq more, NEW key, NEW ts
    PROVE  /\ Observed(some, key, ts) \in Nat /\ Observed(more, key, ts) \in Nat
           /\ Observed(some, key, ts) <= Observed(more, key, ts)
           /\ Observed(some, key, ts) = 0 \/ \E x \in some : Concerns(x[2], key, ts)
<1> DEFINE S == ObservedIn(some, key, ts)
           M == ObservedIn(more, key, ts)
<1>1. IsFiniteSet(M) /\ S \subseteq M
  BY FS_Subset DEF ObservedIn
<1>2. Observed(some, key, ts) = Cardinality(S) /\ Observed(more, key, ts) = Cardinality(M)
  BY ObservedIs
<1>3. S = {} \/ \E x \in some : Concerns(x[2], key, ts)
  BY DEF ObservedIn
<1> HIDE DEF S, M
<1>4. IsFiniteSet(S) /\ Cardinality(S) <= Cardinality(M)
  BY <1>1, FS_Subset
<1>5. Cardinality(S) \in Nat /\ Cardinality(M) \in Nat
  BY <1>1, <1>4, FS_CardinalityType
<1>6. S = {} => Cardinality(S) = 0
  BY FS_EmptySet
<1> QED
  BY <1>2, <1>3, <1>4, <1>5, <1>6

\* What a bucket holds lies between the writes that are settled and those that have begun.
LEMMA BucketHolds ==
    ASSUME StoreTypeOK, CountsAdd, NEW key \in AllKeys, NEW ts \in AllTs,
           NEW settled, settled \subseteq Writes({"settled"})
    PROVE  /\ WithinRetention(ts) => Observed(settled, key, ts) <= NOf(buckets, <<key, ts>>)
           /\ NOf(buckets, <<key, ts>>) <= Observed(Writes(Begun), key, ts)
           /\ NOf(buckets, <<key, ts>>) \in Nat
           /\ Observed(settled, key, ts) \in Nat /\ Observed(Writes(Begun), key, ts) \in Nat
<1> DEFINE K == Counted(key, ts)
           U == Counted(key, ts) \cup Cut(key, ts)
           S == ObservedIn(settled, key, ts)
           B == ObservedIn(Writes(Begun), key, ts)
           n == NOf(buckets, <<key, ts>>)
<1>1. /\ WithinRetention(ts) => Cardinality(K) <= n
      /\ n <= Cardinality(U) /\ n \in Nat
  BY DEF CountsAdd, StoreTypeOK, Bucket, NOf
<1>2. Observed(settled, key, ts) = Cardinality(S) /\ Observed(Writes(Begun), key, ts) = Cardinality(B)
  BY ObservedIs
<1>3. /\ \A marks : Writes(marks) = {x \in Replicas \X DOMAIN happened : status[x[1]][x[2]] \in marks}
      /\ IsFiniteSet(Writes(Begun))
  BY WritesIs
<1>4. S \subseteq K
  <2>1. \A w, i : status[w][i] = "settled" => Did(w, i, CountOp(key.metric), key)
    BY DEF Did
  <2> QED
    BY <1>3, <2>1 DEF Counted, ObservedIn
<1>5. U \subseteq B
  BY <1>3 DEF Counted, Cut, ObservedIn, Begun
<1>6. K \subseteq U
  OBVIOUS
<1>7. IsFiniteSet(B)
  BY <1>3, FS_Subset DEF ObservedIn
<1> HIDE DEF K, U, S, B, n
<1>8. IsFiniteSet(U) /\ Cardinality(U) <= Cardinality(B)
  BY <1>5, <1>7, FS_Subset
<1>9. IsFiniteSet(K)
  BY <1>6, <1>8, FS_Subset
<1>10. IsFiniteSet(S) /\ Cardinality(S) <= Cardinality(K)
  BY <1>4, <1>9, FS_Subset
<1>11. Cardinality(S) \in Nat /\ Cardinality(K) \in Nat /\ Cardinality(U) \in Nat /\ Cardinality(B) \in Nat
  BY <1>7, <1>8, <1>9, <1>10, FS_CardinalityType
<1>12. WithinRetention(ts) => Cardinality(S) <= n
  BY <1>1, <1>10, <1>11
<1>13. n <= Cardinality(B)
  BY <1>1, <1>8, <1>11
<1> QED
  BY <1>1, <1>2, <1>11, <1>12, <1>13 DEF n

\* A settled write within retention is found, by the index and by its timestamp.
LEMMA SettledIsFound ==
    ASSUME StoreTypeOK, CanBeFound, NEW settled, settled \subseteq Writes({"settled"}),
           NEW key \in AllKeys, NEW ts \in AllTs, WithinRetention(ts), Observed(settled, key, ts) # 0
    PROVE  key \in Listed(key.metric) /\ key \in DOMAIN zsets /\ ts \in zsets[key].members
<1>1. IsFiniteSet(settled)
  BY WritesIs, FS_Subset
<1>2. PICK x \in settled : Concerns(x[2], key, ts)
  BY <1>1, ObservedGrows
<1>3. PICK w \in Replicas, i \in DOMAIN happened : x = <<w, i>> /\ status[w][i] = "settled"
  <2>1. Writes({"settled"}) = {y \in Replicas \X DOMAIN happened : status[y[1]][y[2]] \in {"settled"}}
    BY WritesIs
  <2> QED
    BY <2>1
<1>4. CountsIn(happened[i], key) /\ BucketOf(happened[i]) = ts
  BY <1>2, <1>3 DEF Concerns
<1>5. key \in ToSet(EventKeys(happened[i]))
  BY <1>4, HappenedIs
<1>6. \A op \in Finding : IsFound(op, key, ts)
  BY <1>3, <1>4, <1>5 DEF CanBeFound, Did
<1>7. IsFound("sadd_idx", key, ts) /\ IsFound("zadd_ts", key, ts)
  BY <1>6 DEF Finding
<1> QED
  BY <1>7 DEF IsFound, MembersOf, Listed

\* What was settled stays settled and counts for the same bucket, and no write that has
\* begun is forgotten.
LEMMA ObservedGoesOn ==
    ASSUME StoreTypeOK, PipesOK, scenario' = scenario, StepOf, StoreTypeOK',
           NEW settled, settled \subseteq Writes({"settled"}), NEW key, NEW ts
    PROVE  /\ settled \subseteq Writes({"settled"})'
           /\ Observed(settled, key, ts)' = Observed(settled, key, ts)
           /\ Observed(Writes(Begun), key, ts) <= Observed(Writes(Begun), key, ts)'
           /\ Observed(Writes(Begun), key, ts) \in Nat /\ Observed(Writes(Begun), key, ts)' \in Nat
<1>1. \A marks : /\ Writes(marks) = {x \in Replicas \X DOMAIN happened : status[x[1]][x[2]] \in marks}
                 /\ Writes(marks)' = {x \in Replicas \X DOMAIN happened' : status'[x[1]][x[2]] \in marks}
  BY WritesBothWays
<1>2. \A v \in Replicas, j \in DOMAIN happened :
        /\ j \in DOMAIN happened' /\ happened'[j] = happened[j]
        /\ status[v][j] = "settled" => status'[v][j] = "settled"
        /\ status[v][j] \in Begun => status'[v][j] \in Begun
  BY MarksAfter
<1>3. settled \subseteq Writes({"settled"})'
  BY <1>1, <1>2
<1>4. \A v \in Replicas, j \in DOMAIN happened : Concerns(j, key, ts)' <=> Concerns(j, key, ts)
  <2>1. \A j : /\ Concerns(j, key, ts) <=> CountsIn(happened[j], key) /\ BucketOf(happened[j]) = ts
               /\ Concerns(j, key, ts)' <=> CountsIn(happened'[j], key) /\ BucketOf(happened'[j]) = ts
    BY DEF Concerns, BucketOf, CountsIn
  <2> QED
    BY <1>2, <2>1
<1>5. ObservedIn(settled, key, ts)' = ObservedIn(settled, key, ts)
  BY <1>1, <1>4 DEF ObservedIn
<1>6. Observed(settled, key, ts)' = Observed(settled, key, ts)
  <2>1. Observed(settled, key, ts)' = Cardinality(ObservedIn(settled, key, ts)')
    BY DEF Observed, ObservedIn, Concerns, BucketOf
  <2> QED
    BY <1>5, <2>1, ObservedIs
<1> DEFINE B == ObservedIn(Writes(Begun), key, ts)
           C == ObservedIn(Writes(Begun), key, ts)'
<1>7. B \subseteq C
  BY <1>1, <1>2, <1>4 DEF ObservedIn
<1>8. Observed(Writes(Begun), key, ts) = Cardinality(B)
  BY ObservedIs
<1>9. Observed(Writes(Begun), key, ts)' = Cardinality(C)
  BY DEF Observed, ObservedIn, Concerns, BucketOf
<1>10. IsFiniteSet(C)
  <2>1. IsFiniteSet(Replicas)
    BY Parameters DEF StoreTypeOK
  <2>2. IsFiniteSet(DOMAIN happened')
    <3>1. happened' \in Seq(Happenings')
      BY DEF StoreTypeOK
    <3>2. DOMAIN happened' = 1..Len(happened') /\ Len(happened') \in Nat
      BY <3>1
    <3> QED
      BY <3>2, FS_Interval
  <2>3. IsFiniteSet(Replicas \X DOMAIN happened')
    BY <2>1, <2>2, FS_Product
  <2>4. C \subseteq Replicas \X DOMAIN happened'
    BY <1>1 DEF ObservedIn
  <2> QED
    BY <2>3, <2>4, FS_Subset
<1> HIDE DEF B, C
<1>11. IsFiniteSet(B) /\ Cardinality(B) <= Cardinality(C)
  BY <1>7, <1>10, FS_Subset
<1>12. Cardinality(B) \in Nat /\ Cardinality(C) \in Nat
  BY <1>10, <1>11, FS_CardinalityType
<1> QED
  BY <1>3, <1>6, <1>8, <1>9, <1>11, <1>12

\* The parts of QueryOK, in a state and in the next.
LEMMA QueryOKIs ==
    /\ QueryOK <=> (query.pc # "idle" => QueryTyped /\ NoMore /\ NoLess)
    /\ QueryOK' <=> (query'.pc # "idle" => QueryTyped' /\ NoMore' /\ NoLess')
<1>1. Begun = {"sent", "settled", "lost"}
  BY DEF Begun
<1> QED
  BY <1>1 DEF QueryOK, QueryTyped, NoMore, NoLess

\* Whatever else happens, what a query has answered stays right.
LEMMA QueryStays ==
    ASSUME StoreTypeOK, PipesOK, QueryOK, scenario' = scenario, StepOf, StoreTypeOK', query' = query
    PROVE  QueryOK'
<1> SUFFICES ASSUME query.pc # "idle" PROVE QueryTyped' /\ NoMore' /\ NoLess'
  BY QueryOKIs
<1>1. QueryTyped /\ NoMore /\ NoLess
  BY QueryOKIs
<1>2. /\ AllKeys' = AllKeys /\ AllTs' = AllTs
  BY DEF AllKeys, AllTs, EventTypes, MaxClock
<1>3. clock \in Nat /\ clock' \in Nat /\ clock <= clock' /\ retention \in Nat /\ AllTs \subseteq Nat
  <2>1. clock' = clock \/ clock' = clock + 1
    <3>1. ASSUME NEW w, NEW i, Began(w, i) \/ Executed(w, i) \/ Died(w, i) PROVE clock' = clock
      BY <3>1 DEF Began, Executed, Died
    <3>2. ASSUME NEW type, Happens(type) PROVE clock' = clock
      BY <3>2 DEF Happens
    <3> QED
      BY <3>1, <3>2, TickIs DEF StepOf, Watching
  <2>2. clock \in Nat /\ retention \in Nat /\ MaxClock \in Nat /\ width \in Nat /\ width > 0
    BY Parameters DEF StoreTypeOK
  <2>3. AllTs \subseteq Nat
    BY <2>2, FloorIs DEF AllTs
  <2> QED
    BY <2>1, <2>2, <2>3
<1>4. PICK b : b = query.before
  OBVIOUS
<1>5. b \subseteq Writes({"settled"})
  BY <1>1, <1>4 DEF QueryTyped, QueryType
<1>6. \A key, ts : /\ b \subseteq Writes({"settled"})'
                   /\ Observed(b, key, ts)' = Observed(b, key, ts)
                   /\ Observed(Writes(Begun), key, ts) <= Observed(Writes(Begun), key, ts)'
                   /\ Observed(Writes(Begun), key, ts) \in Nat /\ Observed(Writes(Begun), key, ts)' \in Nat
  BY <1>5, ObservedGoesOn
<1>7. QueryTyped'
  <2>1. query \in QueryType => query \in QueryType'
    <3>1. AnswerType' = AnswerType
      BY <1>2 DEF AnswerType
    <3> QED
      BY <1>2, <1>4, <1>6, <3>1 DEF QueryType
  <2> QED
    BY <1>1, <1>2, <2>1 DEF QueryTyped
<1>8. \A key, ts : Answered(key, ts)' = Answered(key, ts)
  BY DEF Answered
<1>9. \A key \in AllKeys, ts \in AllTs : Answered(key, ts) \in Nat
  BY <1>1 DEF Answered, QueryTyped, QueryType, AnswerType
<1>10. NoMore'
  <2> SUFFICES ASSUME NEW key \in AllKeys, NEW ts \in AllTs
               PROVE  Answered(key, ts)' <= Observed(Writes(Begun), key, ts)'
    BY <1>2 DEF NoMore
  <2>1. Answered(key, ts) <= Observed(Writes(Begun), key, ts)
    BY <1>1 DEF NoMore
  <2> QED
    BY <1>6, <1>8, <1>9, <2>1
<1>11. NoLess'
  <2> SUFFICES ASSUME NEW key \in query.asked, NEW ts \in AllTs, InWindow(ts)', WithinRetention(ts)'
               PROVE  \/ key \in query.todo
                      \/ query.pc = "buckets" /\ key = query.key /\ ts \in query.gets
                      \/ Observed(b, key, ts)' <= Answered(key, ts)'
    BY <1>2, <1>4 DEF NoLess
  <2>1. InWindow(ts) /\ WithinRetention(ts)
    BY <1>3 DEF InWindow, WithinRetention
  <2> QED
    BY <1>1, <1>4, <1>6, <1>8, <2>1 DEF NoLess
<1> QED
  BY <1>7, <1>10, <1>11

\* While only a query goes on, what it is measured by stays.
LEMMA WatchedIs ==
    ASSUME Watching
    PROVE  /\ AllKeys' = AllKeys /\ AllTs' = AllTs /\ AnswerType' = AnswerType
           /\ \A marks : Writes(marks)' = Writes(marks)
           /\ \A writes, key, ts : Observed(writes, key, ts)' = Observed(writes, key, ts)
           /\ \A key, ts : Observed(Writes(Begun), key, ts)' = Observed(Writes(Begun), key, ts)
           /\ \A ts : WithinRetention(ts)' <=> WithinRetention(ts)
<1>1. /\ AllKeys' = AllKeys /\ AllTs' = AllTs
  BY DEF Watching, AllKeys, AllTs, EventTypes, MaxClock
<1>2. AnswerType' = AnswerType
  BY <1>1 DEF AnswerType
<1>3. \A marks : Writes(marks)' = Writes(marks)
  BY DEF Watching, Writes
<1>4. \A writes, key, ts : Observed(writes, key, ts)' = Observed(writes, key, ts)
  BY DEF Watching, Observed, CountsIn
<1>5. \A key, ts : Observed(Writes(Begun), key, ts)' = Observed(Writes(Begun), key, ts)
  BY <1>3 DEF Watching, Observed, CountsIn
<1>6. \A ts : WithinRetention(ts)' <=> WithinRetention(ts)
  BY DEF Watching, WithinRetention
<1> QED
  BY <1>1, <1>2, <1>3, <1>4, <1>5, <1>6

\* A query begins: everything that it asks is still to be read, or was not written.
LEMMA StartQueryOK ==
    ASSUME StoreTypeOK, CanBeFound, Watching, StartQuery
    PROVE  QueryOK'
<1> SUFFICES QueryTyped' /\ NoMore' /\ NoLess'
  BY QueryOKIs
<1>1. /\ AllKeys' = AllKeys /\ AllTs' = AllTs /\ AnswerType' = AnswerType
      /\ \A marks : Writes(marks)' = Writes(marks)
      /\ \A writes, key, ts : Observed(writes, key, ts)' = Observed(writes, key, ts)
      /\ \A key, ts : Observed(Writes(Begun), key, ts)' = Observed(Writes(Begun), key, ts)
      /\ \A ts : WithinRetention(ts)' <=> WithinRetention(ts)
  BY WatchedIs
<1>2. PICK window \in Windows :
         \/ \E metric \in {key.metric : key \in AllKeys} :
              QueryStarts({key \in AllKeys : key.metric = metric}, Listed(metric), window)
         \/ \E key \in AllKeys : QueryStarts({key}, {key}, window)
  BY DEF StartQuery
<1>3. window[1] \in Nat /\ window[2] \in Nat
  BY <1>2, Parameters DEF StoreTypeOK
<1>4. ASSUME NEW metric PROVE Listed(metric) \subseteq AllKeys
  BY DEF Listed, StoreTypeOK, IndexEntry
<1>5. PICK asked \in SUBSET AllKeys, targets \in SUBSET AllKeys :
         /\ QueryStarts(asked, targets, window)
         /\ \A key \in asked : key \in targets \/ (key \notin Listed(key.metric))
  <2>1. CASE \E metric \in {key.metric : key \in AllKeys} :
               QueryStarts({key \in AllKeys : key.metric = metric}, Listed(metric), window)
    <3>1. PICK metric : QueryStarts({key \in AllKeys : key.metric = metric}, Listed(metric), window)
      BY <2>1
    <3> QED
      BY <3>1, <1>4
  <2>2. CASE \E key \in AllKeys : QueryStarts({key}, {key}, window)
    BY <2>2
  <2> QED
    BY <1>2, <2>1, <2>2
<1>6. query' = [pc |-> "series", asked |-> asked, from |-> window[1], to |-> window[2],
                todo |-> targets, key |-> Null, gets |-> {}, answer |-> <<>>,
                before |-> Writes({"settled"})]
  BY <1>5 DEF QueryStarts
<1>7. <<>> \in AnswerType
  <2>1. <<>> \in [{} -> [n : Nat, total : Nat]]
    OBVIOUS
  <2>2. {} \in SUBSET (AllKeys \X AllTs)
    OBVIOUS
  <2> QED
    BY <2>1, <2>2 DEF AnswerType
<1>8. QueryTyped'
  <2>1. query' \in QueryType'
    BY <1>1, <1>3, <1>5, <1>6, <1>7 DEF QueryType
  <2> QED
    BY <1>6, <2>1 DEF QueryTyped
<1>9. \A key, ts : Answered(key, ts)' = 0
  BY <1>6 DEF Answered
<1>10. IsFiniteSet(Writes(Begun)) /\ IsFiniteSet(Writes({"settled"}))
  BY WritesIs
<1>11. NoMore'
  <2>1. \A key, ts : Observed(Writes(Begun), key, ts) \in Nat
    BY <1>10, ObservedGrows
  <2> QED
    BY <1>1, <1>9, <2>1 DEF NoMore
<1>12. NoLess'
  <2> SUFFICES ASSUME NEW key \in asked, NEW ts \in AllTs, WithinRetention(ts), key \notin targets
               PROVE  Observed(Writes({"settled"}), key, ts)' <= Answered(key, ts)'
    BY <1>1, <1>6 DEF NoLess
  <2>1. key \in AllKeys /\ key \notin Listed(key.metric)
    BY <1>5
  <2> DEFINE b == Writes({"settled"})
  <2>2. b \subseteq Writes({"settled"})
    OBVIOUS
  <2>3. Observed(b, key, ts)' = Observed(b, key, ts)
    BY <1>1 DEF Watching, Observed, CountsIn
  <2> HIDE DEF b
  <2>4. Observed(b, key, ts) = 0
    BY <2>1, <2>2, SettledIsFound
  <2> QED
    BY <1>9, <2>3, <2>4 DEF b
<1> QED
  BY <1>8, <1>11, <1>12

\* The timestamps of a series are read: what they leave out was not written.
LEMMA ReadTimestampsOK ==
    ASSUME StoreTypeOK, CanBeFound, QueryOK, Watching, ReadTimestamps
    PROVE  QueryOK'
<1> SUFFICES QueryTyped' /\ NoMore' /\ NoLess'
  BY QueryOKIs
<1>1. /\ AllKeys' = AllKeys /\ AllTs' = AllTs /\ AnswerType' = AnswerType
      /\ \A marks : Writes(marks)' = Writes(marks)
      /\ \A writes, key, ts : Observed(writes, key, ts)' = Observed(writes, key, ts)
      /\ \A key, ts : Observed(Writes(Begun), key, ts)' = Observed(Writes(Begun), key, ts)
      /\ \A ts : WithinRetention(ts)' <=> WithinRetention(ts)
  BY WatchedIs
<1>2. QueryTyped /\ NoMore /\ NoLess /\ query.pc = "series"
  BY QueryOKIs DEF ReadTimestamps
<1>3. query \in QueryType
  BY <1>2 DEF QueryTyped
<1>4. PICK k \in query.todo :
         query' = [query EXCEPT
                     !.pc = "buckets", !.todo = @ \ {k}, !.key = k,
                     !.gets = IF k \in DOMAIN zsets
                              THEN {ts \in zsets[k].members : InWindow(ts)} ELSE {}]
  BY DEF ReadTimestamps
<1> DEFINE gets == IF k \in DOMAIN zsets THEN {ts \in zsets[k].members : InWindow(ts)} ELSE {}
<1>5. k \in AllKeys /\ gets \in SUBSET AllTs
  BY <1>3 DEF QueryType, StoreTypeOK, Series
<1>6. \A ts \in AllTs : WithinRetention(ts) /\ InWindow(ts) /\ Observed(query.before, k, ts) # 0 => ts \in gets
  <2> SUFFICES ASSUME NEW ts \in AllTs, WithinRetention(ts), InWindow(ts), Observed(query.before, k, ts) # 0
               PROVE  ts \in gets
    OBVIOUS
  <2>1. query.before \subseteq Writes({"settled"})
    BY <1>3 DEF QueryType
  <2>2. k \in DOMAIN zsets /\ ts \in zsets[k].members
    BY <1>5, <2>1, SettledIsFound
  <2> QED
    BY <2>2
<1>7. query' = [query EXCEPT !.pc = "buckets", !.todo = @ \ {k}, !.key = k, !.gets = gets]
  BY <1>4
<1> HIDE DEF gets
<1>8. /\ query'.pc = "buckets" /\ query'.todo = query.todo \ {k} /\ query'.key = k /\ query'.gets = gets
      /\ query'.asked = query.asked /\ query'.from = query.from /\ query'.to = query.to
      /\ query'.answer = query.answer /\ query'.before = query.before
  BY <1>3, <1>7 DEF QueryType
<1>9. QueryTyped'
  <2>1. query' \in QueryType
    BY <1>3, <1>5, <1>7 DEF QueryType
  <2>2. query' \in QueryType'
    BY <1>1, <2>1 DEF QueryType
  <2> QED
    BY <1>1, <1>5, <1>8, <2>2 DEF QueryTyped
<1>10. \A key, ts : Answered(key, ts)' = Answered(key, ts)
  BY <1>8 DEF Answered
<1>11. NoMore'
  BY <1>1, <1>2, <1>10 DEF NoMore
<1>12. NoLess'
  <2> SUFFICES ASSUME NEW key \in query.asked, NEW ts \in AllTs, InWindow(ts), WithinRetention(ts)
               PROVE  \/ key \in query.todo \ {k}
                      \/ key = k /\ ts \in gets
                      \/ Observed(query.before, key, ts) <= Answered(key, ts)
    BY <1>1, <1>8, <1>10 DEF NoLess, InWindow
  <2>1. \/ key \in query.todo
        \/ Observed(query.before, key, ts) <= Answered(key, ts)
    BY <1>2 DEF NoLess
  <2>2. Answered(key, ts) \in Nat
    <3>1. query.asked \subseteq AllKeys
      BY <1>3 DEF QueryType
    <3> QED
      BY <1>3, <3>1 DEF Answered, QueryType, AnswerType
  <2>3. key = k /\ ts \notin gets => Observed(query.before, key, ts) <= Answered(key, ts)
    BY <1>6, <2>2
  <2> QED
    BY <2>1, <2>3
<1> QED
  BY <1>9, <1>11, <1>12

\* A bucket is read: it holds what it must.
LEMMA ReadBucketOK ==
    ASSUME StoreTypeOK, CountsAdd, QueryOK, Watching, ReadBucket
    PROVE  QueryOK'
<1> SUFFICES QueryTyped' /\ NoMore' /\ NoLess'
  BY QueryOKIs
<1>1. /\ AllKeys' = AllKeys /\ AllTs' = AllTs /\ AnswerType' = AnswerType
      /\ \A marks : Writes(marks)' = Writes(marks)
      /\ \A writes, key, ts : Observed(writes, key, ts)' = Observed(writes, key, ts)
      /\ \A key, ts : Observed(Writes(Begun), key, ts)' = Observed(Writes(Begun), key, ts)
      /\ \A ts : WithinRetention(ts)' <=> WithinRetention(ts)
  BY WatchedIs
<1>2. QueryTyped /\ NoMore /\ NoLess /\ query.pc = "buckets" /\ query.gets # {}
  BY QueryOKIs DEF ReadBucket
<1>3. query \in QueryType /\ query.key \in AllKeys
  BY <1>2 DEF QueryTyped
<1>4. AllTs \subseteq Nat
  <2>1. MaxClock \in Nat /\ width \in Nat /\ width > 0
    BY Parameters DEF StoreTypeOK
  <2> QED
    BY <2>1, FloorIs DEF AllTs
<1>5. PICK t, k, nm : t = Min(query.gets) /\ k = query.key /\ nm = <<k, t>>
  OBVIOUS
<1>6. t \in query.gets /\ t \in AllTs
  <2>1. query.gets \subseteq AllTs
    BY <1>3 DEF QueryType
  <2>2. \E n \in query.gets : \A m \in query.gets : n <= m
    BY <1>2, <1>4, <2>1, LeastNatural
  <2> QED
    BY <1>5, <2>1, <2>2 DEF Min
<1>7. query' = [query EXCEPT !.gets = @ \ {t},
                             !.answer = IF nm \in DOMAIN buckets
                                        THEN With(@, nm, [n |-> buckets[nm].n, total |-> buckets[nm].total])
                                        ELSE @]
  BY <1>5 DEF ReadBucket
<1> DEFINE answer == IF nm \in DOMAIN buckets
                     THEN With(query.answer, nm, [n |-> buckets[nm].n, total |-> buckets[nm].total])
                     ELSE query.answer
           Has(a, x) == IF x \in DOMAIN a THEN a[x].n ELSE 0
<1>8. k \in AllKeys /\ nm \in AllKeys \X AllTs
  BY <1>3, <1>5, <1>6
<1>9. nm \in DOMAIN buckets => buckets[nm].n \in Nat /\ buckets[nm].total \in Nat
  BY DEF StoreTypeOK, Bucket
<1>10. PICK D \in SUBSET (AllKeys \X AllTs) : query.answer \in [D -> [n : Nat, total : Nat]]
  BY <1>3 DEF QueryType, AnswerType
<1>11. answer \in AnswerType
  <2>1. CASE nm \in DOMAIN buckets
    <3>1. answer \in [D \cup {nm} -> [n : Nat, total : Nat]]
      BY <1>9, <1>10, <2>1 DEF With
    <3> QED
      BY <1>8, <3>1 DEF AnswerType
  <2>2. CASE nm \notin DOMAIN buckets
    BY <1>3, <2>2 DEF QueryType
  <2> QED
    BY <2>1, <2>2
<1>12. /\ \A x : x # nm => Has(answer, x) = Has(query.answer, x)
       /\ nm \in DOMAIN buckets => Has(answer, nm) = buckets[nm].n
       /\ nm \notin DOMAIN buckets => Has(answer, nm) = Has(query.answer, nm)
  BY <1>10 DEF With
<1>13. query' = [query EXCEPT !.gets = @ \ {t}, !.answer = answer]
  BY <1>7
<1>14. Answered(k, t) = Has(query.answer, nm) /\ Has(query.answer, nm) \in Nat
  BY <1>5, <1>10 DEF Answered
<1> HIDE DEF answer
<1>15. /\ query'.pc = query.pc /\ query'.todo = query.todo /\ query'.key = query.key
       /\ query'.gets = query.gets \ {t} /\ query'.asked = query.asked
       /\ query'.from = query.from /\ query'.to = query.to
       /\ query'.answer = answer /\ query'.before = query.before
  BY <1>3, <1>13 DEF QueryType
<1>16. QueryTyped'
  <2>1. query' \in QueryType
    BY <1>3, <1>11, <1>13 DEF QueryType
  <2>2. query' \in QueryType'
    BY <1>1, <2>1 DEF QueryType
  <2> QED
    BY <1>1, <1>2, <1>3, <1>15, <2>2 DEF QueryTyped
<1>17. \A key, ts : /\ Answered(key, ts) = Has(query.answer, <<key, ts>>)
                    /\ Answered(key, ts)' = Has(answer, <<key, ts>>)
  BY <1>15 DEF Answered
<1> HIDE DEF Has
<1>18. \A key, ts : key # k \/ ts # t => Answered(key, ts)' = Answered(key, ts)
  BY <1>5, <1>12, <1>17
<1>19. /\ Answered(k, t)' = IF nm \in DOMAIN buckets THEN NOf(buckets, nm) ELSE Answered(k, t)
       /\ nm \notin DOMAIN buckets => NOf(buckets, nm) = 0
  BY <1>5, <1>12, <1>17 DEF NOf
<1>20. PICK b : b = query.before
  OBVIOUS
<1>21. /\ WithinRetention(t) => Observed(b, k, t) <= NOf(buckets, nm)
       /\ NOf(buckets, nm) <= Observed(Writes(Begun), k, t)
       /\ NOf(buckets, nm) \in Nat /\ Observed(b, k, t) \in Nat /\ Observed(Writes(Begun), k, t) \in Nat
  <2>1. b \subseteq Writes({"settled"})
    BY <1>3, <1>20 DEF QueryType
  <2> QED
    BY <1>5, <1>6, <1>8, <2>1, BucketHolds
<1>22. Answered(k, t) \in Nat
  BY <1>14
<1>23. Answered(k, t)' <= Observed(Writes(Begun), k, t)
  <2>1. Answered(k, t) <= Observed(Writes(Begun), k, t)
    BY <1>2, <1>6, <1>8 DEF NoMore
  <2> QED
    BY <1>19, <1>21, <2>1
<1>24. WithinRetention(t) => Observed(b, k, t) <= Answered(k, t)'
  BY <1>19, <1>21, <1>22
<1>25. NoMore'
  <2> SUFFICES ASSUME NEW key \in AllKeys, NEW ts \in AllTs
               PROVE  Answered(key, ts)' <= Observed(Writes(Begun), key, ts)
    BY <1>1 DEF NoMore
  <2>1. Answered(key, ts) <= Observed(Writes(Begun), key, ts)
    BY <1>2 DEF NoMore
  <2> QED
    BY <1>18, <1>23, <2>1
<1>26. NoLess'
  <2> SUFFICES ASSUME NEW key \in query.asked, NEW ts \in AllTs, InWindow(ts), WithinRetention(ts)
               PROVE  \/ key \in query.todo
                      \/ query.pc = "buckets" /\ key = query.key /\ ts \in query.gets \ {t}
                      \/ Observed(b, key, ts) <= Answered(key, ts)'
    BY <1>1, <1>15, <1>20 DEF NoLess, InWindow
  <2>1. \/ key \in query.todo
        \/ query.pc = "buckets" /\ key = query.key /\ ts \in query.gets
        \/ Observed(b, key, ts) <= Answered(key, ts)
    BY <1>2, <1>20 DEF NoLess
  <2>2. CASE key = k /\ ts = t
    BY <1>24, <2>2
  <2>3. CASE ~(key = k /\ ts = t)
    BY <1>5, <1>18, <2>1, <2>3
  <2> QED
    BY <2>2, <2>3
<1> QED
  BY <1>16, <1>25, <1>26

\* A series is read through, or the last of them.
LEMMA QueryMovesOnOK ==
    ASSUME StoreTypeOK, QueryOK, Watching, SeriesRead \/ Answers
    PROVE  QueryOK'
<1> SUFFICES QueryTyped' /\ NoMore' /\ NoLess'
  BY QueryOKIs
<1>1. /\ AllKeys' = AllKeys /\ AllTs' = AllTs /\ AnswerType' = AnswerType
      /\ \A marks : Writes(marks)' = Writes(marks)
      /\ \A writes, key, ts : Observed(writes, key, ts)' = Observed(writes, key, ts)
      /\ \A key, ts : Observed(Writes(Begun), key, ts)' = Observed(Writes(Begun), key, ts)
      /\ \A ts : WithinRetention(ts)' <=> WithinRetention(ts)
  BY WatchedIs
<1>2. QueryTyped /\ NoMore /\ NoLess
  BY QueryOKIs DEF SeriesRead, Answers
<1>3. query \in QueryType
  BY <1>2 DEF QueryTyped
<1>4. PICK pc \in {"series", "done"} :
         /\ query' = [query EXCEPT !.pc = pc]
         /\ pc = "done" => query.todo = {}
         /\ query.pc = "buckets" => query.gets = {}
  BY DEF SeriesRead, Answers
<1>5. /\ query'.pc = pc /\ query'.todo = query.todo /\ query'.key = query.key
      /\ query'.gets = query.gets /\ query'.asked = query.asked
      /\ query'.from = query.from /\ query'.to = query.to
      /\ query'.answer = query.answer /\ query'.before = query.before
  BY <1>3, <1>4 DEF QueryType
<1>6. QueryTyped'
  <2>1. query' \in QueryType
    BY <1>3, <1>4 DEF QueryType
  <2>2. query' \in QueryType'
    BY <1>1, <2>1 DEF QueryType
  <2> QED
    BY <1>4, <1>5, <2>2 DEF QueryTyped
<1>7. \A key, ts : Answered(key, ts)' = Answered(key, ts)
  BY <1>5 DEF Answered
<1>8. NoMore'
  BY <1>1, <1>2, <1>7 DEF NoMore
<1>9. NoLess'
  <2> SUFFICES ASSUME NEW key \in query.asked, NEW ts \in AllTs, InWindow(ts), WithinRetention(ts)
               PROVE  key \in query.todo \/ Observed(query.before, key, ts) <= Answered(key, ts)
    BY <1>1, <1>4, <1>5, <1>7 DEF NoLess, InWindow
  <2> QED
    BY <1>2, <1>4 DEF NoLess
<1> QED
  BY <1>6, <1>8, <1>9

\* What a query answers stays right, and becomes complete.
LEMMA QueryStep ==
    ASSUME StoreTypeOK, PipesOK, CanBeFound, CountsAdd, QueryOK, scenario' = scenario, StepOf, StoreTypeOK'
    PROVE  QueryOK'
<1>1. CASE query' = query
  BY <1>1, QueryStays
<1>2. CASE query' # query
  <2>1. Watching /\ (StartQuery \/ ReadTimestamps \/ ReadBucket \/ SeriesRead \/ Answers)
    <3>1. ASSUME NEW w, NEW i, Began(w, i) \/ Executed(w, i) \/ Died(w, i) PROVE query' = query
      BY <3>1 DEF Began, Executed, Died
    <3>2. ASSUME NEW type, Happens(type) PROVE query' = query
      BY <3>2 DEF Happens
    <3> QED
      BY <1>2, <3>1, <3>2, TickIs DEF StepOf
  <2> QED
    BY <2>1, StartQueryOK, ReadTimestampsOK, ReadBucketOK, QueryMovesOnOK
<1> QED
  BY <1>1, <1>2

-----------------------------------------------------------------------------
\* The invariant holds throughout, and what follows from it.

\* An empty store has its invariant.
THEOREM StoreInitIInv == Init => StoreIInv
<1> SUFFICES ASSUME Init PROVE StoreIInv
  OBVIOUS
<1>1. /\ scenario \in Scenarios /\ clock = 0 /\ happened = <<>>
      /\ status = [w \in Replicas |-> <<>>] /\ pipes = [w \in Replicas |-> <<>>]
      /\ index = <<>> /\ zsets = <<>> /\ buckets = <<>> /\ query = Idle
  BY DEF Init
<1>2. /\ MaxClock \in Nat /\ retention \in Nat /\ IsFiniteSet(Replicas)
  BY <1>1, Parameters
<1>3. DOMAIN <<>> = {} /\ \A S : <<>> \in Seq(S) /\ <<>> \in [{} -> S]
  OBVIOUS
<1>4. StoreTypeOK
  <2>1. happened \in Seq(Happenings)
    BY <1>1, <1>3
  <2>2. status \in [Replicas -> Seq(Marks)] /\ \A w \in Replicas : Len(status[w]) = Len(happened)
    BY <1>1, <1>3
  <2>3. index = [m \in DOMAIN index |-> index[m]] /\ DOMAIN index = {}
    BY <1>1, <1>3
  <2>4. zsets \in [DOMAIN zsets -> Series] /\ DOMAIN zsets = {}
    BY <1>1, <1>3
  <2>5. buckets \in [DOMAIN buckets -> Bucket] /\ DOMAIN buckets = {}
    BY <1>1, <1>3
  <2> QED
    BY <1>1, <1>2, <2>1, <2>2, <2>3, <2>4, <2>5 DEF StoreTypeOK
<1>5. \A marks : Writes(marks) = {}
  BY <1>1, <1>3 DEF Writes
<1>6. PipesOK
  BY <1>1, <1>3 DEF PipesOK, Sending
<1>7. ExpiryComes
  BY <1>1, <1>3 DEF ExpiryComes, ExpiryIs
<1>8. CanBeFound
  BY <1>1, <1>3 DEF CanBeFound
<1>9. \A name : NOf(buckets, name) = 0 /\ TotalOf(buckets, name) = 0 /\ ExpOf(buckets, name) = NoTTL
  BY <1>1, <1>3 DEF NOf, TotalOf, ExpOf
<1>10. Cardinality({}) = 0
  BY FS_EmptySet
<1>11. CountsAdd
  <2>1. \A key, ts : Counted(key, ts) = {} /\ Counted(key, ts) \cup Cut(key, ts) = {}
    BY <1>5 DEF Counted, Cut
  <2>2. \A key, ts : /\ Cardinality(Counted(key, ts)) = 0
                     /\ Cardinality(Counted(key, ts) \cup Cut(key, ts)) = 0
    BY <1>10, <2>1
  <2> QED
    BY <1>9, <2>2 DEF CountsAdd, Lasts
<1>12. TotalsFollow
  <2>1. \A key, ts : Totalling(key, ts) = {}
    BY <1>1 DEF Totalling
  <2> QED
    BY <1>9, <1>10, <2>1 DEF TotalsFollow
<1>13. QueryOK
  BY <1>1 DEF QueryOK, Idle
<1> QED
  BY <1>4, <1>6, <1>7, <1>8, <1>11, <1>12, <1>13 DEF StoreIInv

\* Every step of the replicas, of Redis and of a query keeps it.
THEOREM StoreNextIInv == StoreIInv /\ [Next]_vars => StoreIInv'
<1> SUFFICES ASSUME StoreIInv, [Next]_vars PROVE StoreIInv'
  OBVIOUS
<1>1. StoreTypeOK /\ PipesOK /\ ExpiryComes /\ CanBeFound /\ CountsAdd /\ TotalsFollow /\ QueryOK
  BY DEF StoreIInv
<1>2. scenario' = scenario /\ StoreTypeOK' /\ PipesOK' /\ StepOf
  BY <1>1, StepIs
<1>3. ExpiryComes'
  BY <1>1, <1>2, ExpiryStep
<1>4. CanBeFound'
  BY <1>1, <1>2, FindStep
<1>5. CountsAdd'
  BY <1>1, <1>2, CountsStep
<1>6. TotalsFollow'
  BY <1>1, <1>2, TotalsStep
<1>7. QueryOK'
  BY <1>1, <1>2, QueryStep
<1> QED
  BY <1>2, <1>3, <1>4, <1>5, <1>6, <1>7 DEF StoreIInv

\* It holds in every state.
THEOREM StoreSpecIInv == Spec => []StoreIInv
<1>1. Init => StoreIInv
  BY StoreInitIInv
<1>2. StoreIInv /\ [Next]_vars => StoreIInv'
  BY StoreNextIInv
<1> QED
  BY <1>1, <1>2, PTL DEF Spec

\* Every variable keeps its shape, and a write is under way while its commands are.
LEMMA StoreIsTyped == StoreIInv => TypeOK
<1> SUFFICES ASSUME StoreIInv PROVE TypeOK
  OBVIOUS
<1>1. StoreTypeOK /\ PipesOK
  BY DEF StoreIInv
<1>2. clock \in 0..MaxClock
  BY <1>1 DEF StoreTypeOK
<1>3. \A i \in DOMAIN happened : happened[i].at \in 0..clock
  BY <1>1, HappenedIs
<1>4. \A w \in Replicas : DOMAIN status[w] = DOMAIN happened
  BY <1>1, Indices
<1>5. ASSUME NEW w \in Replicas PROVE Cardinality(Sending(w)) = IF pipes[w] = <<>> THEN 0 ELSE 1
  <2>1. CASE pipes[w] = <<>>
    <3>1. Sending(w) = {}
      BY <1>1, <2>1 DEF PipesOK
    <3> QED
      BY <2>1, <3>1, FS_EmptySet
  <2>2. CASE pipes[w] # <<>>
    <3>1. PICK i : Sending(w) = {i}
      BY <1>1, <2>2 DEF PipesOK
    <3> QED
      BY <2>2, <3>1, FS_Singleton
  <2> QED
    BY <2>1, <2>2
<1>6. \A m \in DOMAIN index : index[m].members \subseteq {k \in AllKeys : k.metric = m}
  BY <1>1 DEF StoreTypeOK, IndexEntry
<1>7. \A key \in DOMAIN zsets : key \in AllKeys /\ zsets[key].members \subseteq AllTs
  BY <1>1 DEF StoreTypeOK, Series
<1>8. DOMAIN buckets \subseteq AllKeys \X AllTs
  BY <1>1 DEF StoreTypeOK
<1> QED
  BY <1>2, <1>3, <1>4, <1>5, <1>6, <1>7, <1>8 DEF TypeOK

\* When nothing is under way, every key has its expiry.
LEMMA StoreExpires == StoreIInv => KeysExpire
<1> SUFFICES ASSUME StoreIInv PROVE KeysExpire
  OBVIOUS
<1>1. TypeOK
  BY StoreIsTyped
<1>2. ASSUME AtRest, Writes({"lost"}) = {}
      PROVE  /\ \A m \in DOMAIN index : Fresh(ExpOf(index, m))
             /\ \A key \in DOMAIN zsets : Fresh(ExpOf(zsets, key))
             /\ \A name \in DOMAIN buckets : Fresh(ExpOf(buckets, name))
  <2>1. ExpiryIs
    BY <1>2 DEF StoreIInv, ExpiryComes
  <2>2. \A op, key, ts : ~Due(op, key, ts)
    BY <1>2 DEF Due, AtRest, ToSet
  <2> QED
    BY <2>1, <2>2 DEF ExpiryIs
<1> QED
  BY <1>1, <1>2 DEF KeysExpire, Fresh, ExpOf

\* When nothing is under way, no write is half counted.
LEMMA StoreConverges == StoreIInv => Converges
<1> SUFFICES ASSUME StoreIInv, AtRest, NEW key \in AllKeys, NEW ts \in AllTs, WithinRetention(ts)
             PROVE  LET surely == Observed(Writes({"settled"}), key, ts)
                    IN  /\ surely <= Stored(key, ts)
                        /\ Stored(key, ts) <= surely + Observed(Writes({"lost"}), key, ts)
                        /\ surely > 0 => /\ key \in Listed(key.metric)
                                         /\ key \in DOMAIN zsets /\ ts \in zsets[key].members
  BY DEF Converges
<1>1. StoreTypeOK /\ PipesOK /\ CanBeFound /\ CountsAdd
  BY DEF StoreIInv
<1>2. Stored(key, ts) = NOf(buckets, <<key, ts>>)
  BY DEF Stored, NOf
<1> DEFINE settled == Writes({"settled"})
           lost == Writes({"lost"})
           S == ObservedIn(settled, key, ts)
           L == ObservedIn(lost, key, ts)
           U == Counted(key, ts) \cup Cut(key, ts)
<1>3. /\ settled \subseteq Writes({"settled"})
      /\ IsFiniteSet(settled) /\ IsFiniteSet(lost)
  BY <1>1, WritesIs
<1>4. \A w \in Replicas, i \in DOMAIN happened : status[w][i] # "sent"
  BY <1>1, SendingIs DEF AtRest, PipesOK
<1>5. U \subseteq S \cup L
  <2>1. \A marks : Writes(marks) = {x \in Replicas \X DOMAIN happened : status[x[1]][x[2]] \in marks}
    BY <1>1, WritesIs
  <2>2. Counted(key, ts) \subseteq S
    BY <1>4, <2>1 DEF Counted, ObservedIn
  <2> QED
    BY <2>2 DEF Cut, ObservedIn
<1>6. Observed(settled, key, ts) = Cardinality(S) /\ Observed(lost, key, ts) = Cardinality(L)
  BY ObservedIs
<1>7. IsFiniteSet(S) /\ IsFiniteSet(L)
  BY <1>3, FS_Subset DEF ObservedIn
<1>8. NOf(buckets, <<key, ts>>) <= Cardinality(U) /\ NOf(buckets, <<key, ts>>) \in Nat
  BY <1>1 DEF CountsAdd, StoreTypeOK, Bucket, NOf
<1> HIDE DEF settled, lost, S, L, U
<1>9. Cardinality(U) <= Cardinality(S) + Cardinality(L) /\ Cardinality(U) \in Nat
  <2>1. /\ IsFiniteSet(S \cup L) /\ IsFiniteSet(S \cap L)
        /\ Cardinality(S \cup L) = Cardinality(S) + Cardinality(L) - Cardinality(S \cap L)
    BY <1>7, FS_Union, FS_Intersection
  <2>2. IsFiniteSet(U) /\ Cardinality(U) <= Cardinality(S \cup L)
    BY <1>5, <2>1, FS_Subset
  <2>3. /\ Cardinality(U) \in Nat /\ Cardinality(S) \in Nat /\ Cardinality(L) \in Nat
        /\ Cardinality(S \cap L) \in Nat
    BY <1>7, <2>1, <2>2, FS_CardinalityType
  <2> QED
    BY <2>1, <2>2, <2>3
<1>10. Cardinality(S) \in Nat /\ Cardinality(L) \in Nat
  BY <1>7, FS_CardinalityType
<1>11. Observed(settled, key, ts) <= NOf(buckets, <<key, ts>>)
  BY <1>1, <1>3, BucketHolds
<1>12. Observed(settled, key, ts) # 0 =>
          key \in Listed(key.metric) /\ key \in DOMAIN zsets /\ ts \in zsets[key].members
  BY <1>1, <1>3, SettledIsFound
<1>13. NOf(buckets, <<key, ts>>) <= Observed(settled, key, ts) + Observed(lost, key, ts)
  BY <1>6, <1>8, <1>9, <1>10
<1> QED
  BY <1>2, <1>11, <1>12, <1>13 DEF settled, lost

\* Whatever is under way, what a query reads is sound.
LEMMA StoreReadsAreSound == StoreIInv => ReadsAreSound
<1> SUFFICES ASSUME StoreIInv PROVE AnswersInBetween /\ PercentileReachable
  BY DEF ReadsAreSound
<1>1. StoreTypeOK /\ TotalsFollow
  BY DEF StoreIInv
<1>2. AnswersInBetween
  <2> SUFFICES ASSUME query.pc = "done", NEW key \in query.asked, NEW ts \in AllTs, InWindow(ts)
               PROVE  /\ Answered(key, ts) <= Observed(Writes({"sent", "settled", "lost"}), key, ts)
                      /\ WithinRetention(ts) => Observed(query.before, key, ts) <= Answered(key, ts)
    BY DEF AnswersInBetween, Answered, InWindow
  <2>1. QueryTyped /\ NoMore /\ NoLess
    BY QueryOKIs DEF StoreIInv
  <2>2. query.asked \subseteq AllKeys /\ query.todo = {}
    BY <2>1 DEF QueryTyped, QueryType
  <2>3. Answered(key, ts) <= Observed(Writes({"sent", "settled", "lost"}), key, ts)
    <3>1. Begun = {"sent", "settled", "lost"}
      BY DEF Begun
    <3> QED
      BY <2>1, <2>2, <3>1 DEF NoMore
  <2>4. WithinRetention(ts) => Observed(query.before, key, ts) <= Answered(key, ts)
    BY <2>1, <2>2 DEF NoLess
  <2> QED
    BY <2>3, <2>4
<1>3. PercentileReachable
  <2> SUFFICES ASSUME NEW name \in DOMAIN buckets PROVE buckets[name].total <= buckets[name].n
    BY DEF PercentileReachable
  <2>1. PICK key \in AllKeys, ts \in AllTs : name = <<key, ts>>
    BY <1>1 DEF StoreTypeOK
  <2>2. buckets[name].total \in Nat /\ buckets[name].n \in Nat
    BY <1>1 DEF StoreTypeOK, Bucket
  <2> DEFINE T == Totalling(key, ts)
  <2>3. buckets[name].total + Cardinality(T) <= buckets[name].n
    BY <1>1, <2>1 DEF TotalsFollow, TotalOf, NOf
  <2>4. Cardinality(T) \in Nat
    <3>1. IsFiniteSet(Replicas)
      BY <1>1, Parameters DEF StoreTypeOK
    <3>2. IsFiniteSet(T)
      BY <3>1, FS_Subset DEF Totalling
    <3> QED
      BY <3>2, FS_CardinalityType
  <2> HIDE DEF T
  <2> QED
    BY <2>2, <2>3, <2>4
<1> QED
  BY <1>2, <1>3

-----------------------------------------------------------------------------
\* The markers: their invariant.

Stages == {"unknown", "zadd", "zremrangebyscore", "pexpire", "set", "recorded", "lost"}
SearchType ==
    [pc : {"idle", "get", "done"}, from : Nat, to : Nat, queue : Queues \cup {Global},
     owed : SUBSET Markers, ids : SUBSET Markers, answer : SUBSET Markers, ended : Nat]

MarkersTypeOK ==
    /\ clock \in Nat
    /\ marker \in [Markers -> [ts : Times, queue : Queues \cup {Global}]]
    /\ todo \in [Markers -> Stages]
    /\ zset \in [ids : SUBSET Markers, exp : {Gone} \cup Nat]
    /\ blobs \in [Markers -> {Gone} \cup Nat]
    /\ due \in [Markers -> Nat]
    /\ search \in SearchType

\* The key of an empty set is gone, and a marker is due no later than a key set now.
KeysAreThere ==
    /\ zset.ids # {} => zset.exp # Gone
    /\ \A i \in Markers : /\ due[i] <= clock + retention
                          /\ todo[i] \in {"unknown", "zadd", "zremrangebyscore", "pexpire"}
                                => due[i] = 0

\* No marker sent is a whole retention later than i.
Unpruned(i) ==
    \A j \in Markers : todo[j] # "unknown" => marker[j].ts < marker[i].ts + retention

\* From its zadd on, a marker is in the set, which lasts as long as the marker is due.
InTheSet ==
    \A i \in Markers :
        /\ todo[i] \in {"zremrangebyscore", "pexpire", "set", "recorded"}
        /\ Unpruned(i) /\ clock <= due[i]
        => /\ i \in zset.ids
           /\ zset.exp = NoTTL \/ due[i] <= zset.exp

\* Recorded, it has its string as long as it is due.
HasItsString ==
    \A i \in Markers :
        /\ todo[i] = "recorded" /\ clock <= due[i] => blobs[i] # Gone /\ due[i] <= blobs[i]
        /\ blobs[i] # Gone => todo[i] = "recorded"

\* A search is owed only what was recorded, and answers and reads what it asked for.
OwesOnly ==
    /\ \A i \in search.owed : todo[i] = "recorded"
    /\ \A i \in search.ids : search.from <= marker[i].ts /\ marker[i].ts < search.to
    /\ \A i \in search.answer : Asked(i) /\ todo[i] = "recorded"

\* What it is owed has been read or is to be read.
Reads ==
    \A i \in search.owed :
        /\ search.pc = "get" /\ Asked(i) /\ Unpruned(i) /\ clock <= due[i]
              => i \in search.ids \/ i \in search.answer
        /\ search.pc = "done" /\ Asked(i) /\ Unpruned(i) /\ search.ended <= due[i]
              => i \in search.answer

MarkersIInv ==
    /\ MarkersTypeOK /\ KeysAreThere /\ InTheSet /\ HasItsString /\ OwesOnly /\ Reads

-----------------------------------------------------------------------------
\* The retention of keys, and the clock of Redis.
LEMMA RetentionFacts ==
    ASSUME MarkersTypeOK
    PROVE  /\ retention \in Nat /\ retention > 0 /\ clock \in Int /\ clock >= 0
           /\ Times \subseteq Nat /\ \A i \in Markers : marker[i].ts \in Int
           /\ \A i \in Markers : due[i] \in Int /\ due[i] >= 0
<1>1. retention \in Nat /\ retention > 0 /\ Times \subseteq Nat
  BY RedisStoreAssumption, MarkersAssumption
<1>2. \A i \in Markers : marker[i].ts \in Times
  BY DEF MarkersTypeOK
<1>3. \A i \in Markers : due[i] \in Nat
  BY DEF MarkersTypeOK
<1>4. clock \in Int /\ clock >= 0
  <2>1. clock \in Nat
    BY DEF MarkersTypeOK
  <2> QED
    BY <2>1
<1>5. \A i \in Markers : marker[i].ts \in Int
  <2>1. Times \subseteq Int
    BY <1>1
  <2> HIDE DEF MarkersTypeOK
  <2> QED
    BY <1>2, <2>1, Zenon
<1>6. \A i \in Markers : due[i] \in Int /\ due[i] >= 0
  BY <1>3
<1> QED
  BY <1>1, <1>4, <1>5, <1>6

\* Once a marker is sent it stays sent, and prunes what it prunes.
LEMMA UnprunedBefore ==
    ASSUME marker' = marker,
           \A j \in Markers : todo[j] # "unknown" => todo'[j] # "unknown"
    PROVE  \A i \in Markers : Unpruned(i)' => Unpruned(i)
BY DEF Unpruned

\* A step that only the clock, or nothing, shows of.
LEMMA ElsewhereKeepsIInv ==
    ASSUME MarkersIInv, UNCHANGED markerVars, clock' = clock
    PROVE  MarkersIInv'
<1>1. UNCHANGED <<marker, todo, zset, blobs, due, search>>
  BY DEF markerVars
<1> QED
  BY <1>1 DEF MarkersIInv, MarkersTypeOK, KeysAreThere, InTheSet, HasItsString, OwesOnly,
     Reads, Unpruned, Asked

\* Redis drops the set and the strings whose expiry has passed.
LEMMA TickKeepsIInv ==
    ASSUME MarkersIInv, MarkersTick
    PROVE  MarkersIInv'
<1>1. /\ clock' = clock + 1
      /\ UNCHANGED <<marker, todo, due, search>>
      /\ zset' = IF Dropped(zset.exp) THEN Empty ELSE zset
      /\ blobs' = [i \in Markers |-> IF Dropped(blobs[i]) THEN Gone ELSE blobs[i]]
  BY DEF MarkersTick, Tick
<1>2. /\ retention \in Nat /\ retention > 0 /\ clock \in Int /\ clock >= 0
      /\ \A i \in Markers : due[i] \in Int /\ due[i] >= 0
  BY RetentionFacts DEF MarkersIInv
<1>3. Empty \in [ids : SUBSET Markers, exp : {Gone} \cup Nat] /\ Empty.ids = {} /\ Empty.exp = Gone
  BY DEF Empty
<1>4. Gone = -1 /\ NoTTL = 0
  BY DEF Gone, NoTTL
<1>5. \A i \in Markers : Unpruned(i)' <=> Unpruned(i)
  BY <1>1 DEF Unpruned
<1>6. MarkersTypeOK'
  <2>1. zset' \in [ids : SUBSET Markers, exp : {Gone} \cup Nat]
    BY <1>1, <1>3 DEF MarkersIInv, MarkersTypeOK
  <2>2. blobs' \in [Markers -> {Gone} \cup Nat]
    BY <1>1 DEF MarkersIInv, MarkersTypeOK
  <2>3. clock' \in Nat
    BY <1>1 DEF MarkersIInv, MarkersTypeOK
  <2> QED
    BY <1>1, <2>1, <2>2, <2>3 DEF MarkersIInv, MarkersTypeOK
<1>7. KeysAreThere'
  <2>1. zset'.ids # {} => zset'.exp # Gone
    BY <1>1, <1>3 DEF MarkersIInv, KeysAreThere
  <2>2. \A i \in Markers : due[i] <= clock'  + retention
    BY <1>1, <1>2 DEF MarkersIInv, KeysAreThere
  <2> QED
    BY <1>1, <2>1, <2>2 DEF MarkersIInv, KeysAreThere
<1>8. InTheSet'
  <2> SUFFICES ASSUME NEW i \in Markers,
                      todo[i] \in {"zremrangebyscore", "pexpire", "set", "recorded"},
                      Unpruned(i), clock' <= due[i]
               PROVE  i \in zset'.ids /\ (zset'.exp = NoTTL \/ due[i] <= zset'.exp)
    BY <1>1, <1>5 DEF InTheSet
  <2>1. clock <= due[i]
    BY <1>1, <1>2
  <2>2. i \in zset.ids /\ (zset.exp = NoTTL \/ due[i] <= zset.exp)
    BY <2>1 DEF MarkersIInv, InTheSet
  <2>3. zset.exp \in Int
    BY <1>4 DEF MarkersIInv, MarkersTypeOK
  <2>4. ~Dropped(zset.exp)
    BY <1>1, <1>2, <2>2, <2>3 DEF Dropped
  <2> QED
    BY <1>1, <2>2, <2>4
<1>9. HasItsString'
  <2>1. ASSUME NEW i \in Markers, todo[i] = "recorded", clock' <= due[i]
        PROVE  blobs'[i] # Gone /\ due[i] <= blobs'[i]
    <3>1. clock <= due[i]
      BY <1>1, <1>2, <2>1
    <3>2. blobs[i] # Gone /\ due[i] <= blobs[i]
      BY <2>1, <3>1 DEF MarkersIInv, HasItsString
    <3>3. blobs[i] \in Int
      BY <1>4 DEF MarkersIInv, MarkersTypeOK
    <3>4. ~Dropped(blobs[i])
      BY <1>1, <1>2, <2>1, <3>2, <3>3 DEF Dropped
    <3> QED
      BY <1>1, <3>2, <3>4
  <2>2. \A i \in Markers : blobs'[i] # Gone => todo[i] = "recorded"
    BY <1>1 DEF MarkersIInv, HasItsString
  <2> QED
    BY <1>1, <2>1, <2>2 DEF HasItsString
<1>10. OwesOnly'
  BY <1>1 DEF MarkersIInv, OwesOnly, Asked
<1>11. Reads'
  <2>1. \A i \in Markers : clock' <= due[i] => clock <= due[i]
    BY <1>1, <1>2
  <2>2. search.owed \subseteq Markers
    BY DEF MarkersIInv, MarkersTypeOK, SearchType
  <2>3. \A i \in Markers : Asked(i)' <=> Asked(i)
    BY <1>1 DEF Asked
  <2> QED
    BY <1>1, <1>5, <2>1, <2>2, <2>3 DEF MarkersIInv, Reads
<1> QED
  BY <1>6, <1>7, <1>8, <1>9, <1>10, <1>11 DEF MarkersIInv

-----------------------------------------------------------------------------
(* Recording. *)

\* A command of the recording of i moves i on.
LEMMA StageMoves ==
    ASSUME MarkersIInv, NEW i \in Markers, NEW then \in Stages, then # "unknown",
           todo' = [todo EXCEPT ![i] = then], marker' = marker
    PROVE  /\ todo' \in [Markers -> Stages]
           /\ todo'[i] = then /\ \A j \in Markers : j # i => todo'[j] = todo[j]
           /\ \A j \in Markers : Unpruned(j)' => Unpruned(j)
<1>1. todo \in [Markers -> Stages]
  BY DEF MarkersIInv, MarkersTypeOK
<1>2. todo' \in [Markers -> Stages] /\ todo'[i] = then /\ \A j \in Markers : j # i => todo'[j] = todo[j]
  BY <1>1
<1>3. \A j \in Markers : todo[j] # "unknown" => todo'[j] # "unknown"
  BY <1>2
<1> QED
  BY <1>2, <1>3, UnprunedBefore

\* A search goes on undisturbed when a marker is recorded that it is not owed.
LEMMA SearchKept ==
    ASSUME MarkersIInv, NEW i \in Markers, todo[i] # "recorded", search' = search,
           marker' = marker, clock' = clock,
           \A j \in Markers : j # i => todo'[j] = todo[j] /\ due'[j] = due[j],
           \A j \in Markers : Unpruned(j)' => Unpruned(j)
    PROVE  OwesOnly' /\ Reads'
<1>1. search \in SearchType
  BY DEF MarkersIInv, MarkersTypeOK
<1>2. search.owed \subseteq Markers /\ search.answer \subseteq Markers
  BY <1>1 DEF SearchType
<1>3. \A j \in Markers : Asked(j)' <=> Asked(j)
  BY DEF Asked
<1>4. \A j \in search.owed : j \in Markers /\ j # i
  BY <1>2 DEF MarkersIInv, OwesOnly
<1>5. \A j \in search.answer : j \in Markers /\ j # i
  BY <1>2 DEF MarkersIInv, OwesOnly
<1>6. OwesOnly'
  BY <1>2, <1>3, <1>4, <1>5 DEF MarkersIInv, OwesOnly
<1>7. Reads'
  BY <1>3, <1>4 DEF MarkersIInv, Reads
<1> QED
  BY <1>6, <1>7

\* The pipeline of a marker is sent, or dies: no key of Redis changes.
LEMMA StageKeepsIInv ==
    ASSUME MarkersIInv, NEW i \in Markers, NEW then \in {"zadd", "lost"},
           clock' = clock, UNCHANGED <<marker, zset, blobs, due, search>>,
           todo' = [todo EXCEPT ![i] = then], todo[i] # "recorded",
           then = "zadd" => due[i] = 0
    PROVE  MarkersIInv'
<1>1. then \in Stages /\ then # "unknown"
  BY DEF Stages
<1>2. /\ todo' \in [Markers -> Stages]
      /\ todo'[i] = then /\ \A j \in Markers : j # i => todo'[j] = todo[j]
      /\ \A j \in Markers : Unpruned(j)' => Unpruned(j)
  BY <1>1, StageMoves
<1>3. OwesOnly' /\ Reads'
  BY <1>2, SearchKept
<1>4. MarkersTypeOK'
  BY <1>2 DEF MarkersIInv, MarkersTypeOK
<1>5. KeysAreThere'
  BY <1>2 DEF MarkersIInv, KeysAreThere
<1>6. InTheSet'
  BY <1>2 DEF MarkersIInv, InTheSet
<1>7. HasItsString'
  BY <1>2 DEF MarkersIInv, HasItsString
<1> QED
  BY <1>3, <1>4, <1>5, <1>6, <1>7 DEF MarkersIInv

\* The marker is in the set, which keeps its expiry or has none.
LEMMA ZaddKeepsIInv ==
    ASSUME MarkersIInv, NEW i \in Markers, clock' = clock, zadd(i)
    PROVE  MarkersIInv'
<1>1. /\ todo[i] = "zadd" /\ todo' = [todo EXCEPT ![i] = "zremrangebyscore"]
      /\ zset' = [ids |-> zset.ids \cup {i}, exp |-> IF zset.exp = Gone THEN NoTTL ELSE zset.exp]
      /\ UNCHANGED <<marker, blobs, due, search>>
  BY DEF zadd, Runs
<1>2. /\ todo' \in [Markers -> Stages]
      /\ todo'[i] = "zremrangebyscore" /\ \A j \in Markers : j # i => todo'[j] = todo[j]
      /\ \A j \in Markers : Unpruned(j)' => Unpruned(j)
  BY <1>1, StageMoves DEF Stages
<1>3. OwesOnly' /\ Reads'
  BY <1>1, <1>2, SearchKept
<1>4. Gone = -1 /\ NoTTL = 0
  BY DEF Gone, NoTTL
<1>5. zset.ids \in SUBSET Markers /\ zset.exp \in {Gone} \cup Nat
  BY DEF MarkersIInv, MarkersTypeOK
<1>6. /\ zset'.ids = zset.ids \cup {i}
      /\ zset'.exp \in Nat /\ (zset.exp # Gone => zset'.exp = zset.exp)
      /\ zset.exp = Gone => zset'.exp = NoTTL
  BY <1>1, <1>4, <1>5
<1>7. zset' \in [ids : SUBSET Markers, exp : {Gone} \cup Nat]
  BY <1>1, <1>5, <1>6
<1>8. MarkersTypeOK'
  BY <1>1, <1>2, <1>7 DEF MarkersIInv, MarkersTypeOK
<1>9. KeysAreThere'
  <2>1. zset'.exp # Gone
    BY <1>4, <1>6
  <2> QED
    BY <1>1, <1>2, <2>1 DEF MarkersIInv, KeysAreThere
<1>10. InTheSet'
  <2>1. ASSUME NEW j \in Markers, j # i,
               todo[j] \in {"zremrangebyscore", "pexpire", "set", "recorded"},
               Unpruned(j), clock <= due[j]
        PROVE  j \in zset'.ids /\ (zset'.exp = NoTTL \/ due[j] <= zset'.exp)
    <3>1. j \in zset.ids /\ (zset.exp = NoTTL \/ due[j] <= zset.exp)
      BY <2>1 DEF MarkersIInv, InTheSet
    <3>2. zset.exp # Gone
      BY <3>1 DEF MarkersIInv, KeysAreThere
    <3> QED
      BY <1>6, <3>1, <3>2
  <2>2. i \in zset'.ids /\ due[i] <= zset'.exp
    <3>1. due[i] = 0
      BY <1>1 DEF MarkersIInv, KeysAreThere
    <3> QED
      BY <1>6, <3>1
  <2> QED
    BY <1>1, <1>2, <2>1, <2>2 DEF InTheSet
<1>11. HasItsString'
  BY <1>1, <1>2 DEF MarkersIInv, HasItsString
<1> QED
  BY <1>3, <1>8, <1>9, <1>10, <1>11 DEF MarkersIInv

\* What is pruned is a whole retention older than a marker that was sent.
LEMMA ZremrangebyscoreKeepsIInv ==
    ASSUME MarkersIInv, NEW i \in Markers, clock' = clock, zremrangebyscore(i)
    PROVE  MarkersIInv'
<1> DEFINE left == zset.ids \ Prunes(i)
<1>1. /\ todo[i] = "zremrangebyscore" /\ todo' = [todo EXCEPT ![i] = "pexpire"]
      /\ zset' = IF left = {} THEN Empty ELSE [zset EXCEPT !.ids = left]
      /\ UNCHANGED <<marker, blobs, due, search>>
  BY DEF zremrangebyscore, Runs
<1>2. /\ todo' \in [Markers -> Stages]
      /\ todo'[i] = "pexpire" /\ \A j \in Markers : j # i => todo'[j] = todo[j]
      /\ \A j \in Markers : Unpruned(j)' => Unpruned(j)
  BY <1>1, StageMoves DEF Stages
<1>3. OwesOnly' /\ Reads'
  BY <1>1, <1>2, SearchKept
<1>4. zset \in [ids : SUBSET Markers, exp : {Gone} \cup Nat]
  BY DEF MarkersIInv, MarkersTypeOK
<1>5. Empty \in [ids : SUBSET Markers, exp : {Gone} \cup Nat] /\ Empty.ids = {}
  BY DEF Empty
<1>6. \A j \in zset.ids : j \in Markers /\ (Unpruned(j) => j \in left)
  <2> SUFFICES ASSUME NEW j \in zset.ids PROVE j \in Markers /\ (Unpruned(j) => j \in left)
    OBVIOUS
  <2>1. j \in Markers
    BY <1>4
  <2>2. ASSUME Unpruned(j) PROVE ~(marker[j].ts <= marker[i].ts - retention)
    <3>1. marker[i].ts < marker[j].ts + retention
      BY <1>1, <2>1, <2>2 DEF Unpruned
    <3>2. marker[i].ts \in Int /\ marker[j].ts \in Int /\ retention \in Nat
      BY <2>1, RetentionFacts DEF MarkersIInv
    <3> QED
      BY <3>1, <3>2
  <2> QED
    BY <2>1, <2>2 DEF Prunes
<1> HIDE DEF left
<1>7. left \subseteq zset.ids
  BY DEF left
<1>8. zset' \in [ids : SUBSET Markers, exp : {Gone} \cup Nat]
  BY <1>1, <1>4, <1>5, <1>7
<1>9. zset'.ids = left /\ (left # {} => zset'.exp = zset.exp)
  BY <1>1, <1>4, <1>5
<1>10. MarkersTypeOK'
  BY <1>1, <1>2, <1>8 DEF MarkersIInv, MarkersTypeOK
<1>11. KeysAreThere'
  <2>1. zset'.ids # {} => zset'.exp # Gone
    BY <1>7, <1>9 DEF MarkersIInv, KeysAreThere
  <2> QED
    BY <1>1, <1>2, <2>1 DEF MarkersIInv, KeysAreThere
<1>12. InTheSet'
  <2> SUFFICES ASSUME NEW j \in Markers,
                      todo[j] \in {"zremrangebyscore", "pexpire", "set", "recorded"},
                      Unpruned(j), clock <= due[j]
               PROVE  j \in zset'.ids /\ (zset'.exp = NoTTL \/ due[j] <= zset'.exp)
    BY <1>1, <1>2 DEF InTheSet
  <2>1. j \in zset.ids /\ (zset.exp = NoTTL \/ due[j] <= zset.exp)
    BY DEF MarkersIInv, InTheSet
  <2> QED
    BY <1>6, <1>9, <2>1
<1>13. HasItsString'
  BY <1>1, <1>2 DEF MarkersIInv, HasItsString
<1> QED
  BY <1>3, <1>10, <1>11, <1>12, <1>13 DEF MarkersIInv

\* A set that is there gets the expiry of now, which no marker in it is due beyond.
LEMMA PexpireKeepsIInv ==
    ASSUME MarkersIInv, NEW i \in Markers, clock' = clock, pexpire(i)
    PROVE  MarkersIInv'
<1> DEFINE until == clock + retention
<1>1. /\ todo[i] = "pexpire" /\ todo' = [todo EXCEPT ![i] = "set"]
      /\ zset' = IF zset.exp = Gone THEN zset ELSE [zset EXCEPT !.exp = until]
      /\ due' = IF i \in zset.ids THEN [due EXCEPT ![i] = until] ELSE due
      /\ UNCHANGED <<marker, blobs, search>>
  BY DEF pexpire, Runs
<1>2. /\ todo' \in [Markers -> Stages]
      /\ todo'[i] = "set" /\ \A j \in Markers : j # i => todo'[j] = todo[j]
      /\ \A j \in Markers : Unpruned(j)' => Unpruned(j)
  BY <1>1, StageMoves DEF Stages
<1>3. until \in Nat /\ until > 0
  BY RetentionFacts DEF MarkersIInv, MarkersTypeOK
<1>4. zset \in [ids : SUBSET Markers, exp : {Gone} \cup Nat] /\ due \in [Markers -> Nat]
  BY DEF MarkersIInv, MarkersTypeOK
<1>5. \A j \in Markers : due[j] <= until
  BY DEF MarkersIInv, KeysAreThere
<1>6. Gone = -1 /\ NoTTL = 0
  BY DEF Gone, NoTTL
<1> HIDE DEF until
<1>7. /\ zset' \in [ids : SUBSET Markers, exp : {Gone} \cup Nat]
      /\ zset'.ids = zset.ids
      /\ zset.exp # Gone => zset'.exp = until
      /\ zset.exp = Gone => zset' = zset
  BY <1>1, <1>3, <1>4
<1>8. /\ due' \in [Markers -> Nat]
      /\ \A j \in Markers : j # i => due'[j] = due[j]
      /\ due'[i] = IF i \in zset.ids THEN until ELSE due[i]
  BY <1>1, <1>3, <1>4
<1>9. \A j \in Markers : due'[j] <= until
  <2>1. until <= until
    BY <1>3
  <2> QED
    BY <1>5, <1>8, <2>1
<1>10. OwesOnly' /\ Reads'
  BY <1>1, <1>2, <1>8, SearchKept
<1>11. MarkersTypeOK'
  BY <1>1, <1>2, <1>7, <1>8 DEF MarkersIInv, MarkersTypeOK
<1>12. KeysAreThere'
  <2>1. zset'.ids # {} => zset'.exp # Gone
    BY <1>3, <1>6, <1>7 DEF MarkersIInv, KeysAreThere
  <2>2. \A j \in Markers : due'[j] <= clock + retention
    BY <1>9 DEF until
  <2> QED
    BY <1>1, <1>2, <1>8, <2>1, <2>2 DEF MarkersIInv, KeysAreThere
<1>13. InTheSet'
  <2> SUFFICES ASSUME NEW j \in Markers,
                      todo[j] \in {"zremrangebyscore", "pexpire", "set", "recorded"},
                      Unpruned(j), clock <= due'[j]
               PROVE  j \in zset'.ids /\ due'[j] <= zset'.exp
    BY <1>1, <1>2 DEF InTheSet
  <2>1. j \in zset.ids
    <3>1. CASE due'[j] = due[j]
      BY <3>1 DEF MarkersIInv, InTheSet
    <3>2. CASE due'[j] # due[j]
      BY <1>8, <3>2
    <3> QED
      BY <3>1, <3>2
  <2>2. zset.exp # Gone
    BY <2>1 DEF MarkersIInv, KeysAreThere
  <2> QED
    BY <1>7, <1>9, <2>1, <2>2
<1>14. HasItsString'
  BY <1>1, <1>2, <1>8 DEF MarkersIInv, HasItsString
<1> QED
  BY <1>10, <1>11, <1>12, <1>13, <1>14 DEF MarkersIInv

\* The string is set last, and for as long as the set may last.
LEMMA SetKeepsIInv ==
    ASSUME MarkersIInv, NEW i \in Markers, clock' = clock, set(i)
    PROVE  MarkersIInv'
<1> DEFINE until == clock + retention
<1>1. /\ todo[i] = "set" /\ todo' = [todo EXCEPT ![i] = "recorded"]
      /\ blobs' = [blobs EXCEPT ![i] = until]
      /\ UNCHANGED <<marker, zset, due, search>>
  BY DEF set, Runs
<1>2. /\ todo' \in [Markers -> Stages]
      /\ todo'[i] = "recorded" /\ \A j \in Markers : j # i => todo'[j] = todo[j]
      /\ \A j \in Markers : Unpruned(j)' => Unpruned(j)
  BY <1>1, StageMoves DEF Stages
<1>3. until \in Nat /\ until > 0 /\ due[i] <= until
  BY RetentionFacts DEF MarkersIInv, MarkersTypeOK, KeysAreThere
<1>4. until # Gone
  BY <1>3 DEF Gone
<1> HIDE DEF until
<1>5. /\ blobs' \in [Markers -> {Gone} \cup Nat]
      /\ blobs'[i] = until /\ \A j \in Markers : j # i => blobs'[j] = blobs[j]
  BY <1>1, <1>3 DEF MarkersIInv, MarkersTypeOK
<1>6. OwesOnly' /\ Reads'
  BY <1>1, <1>2, SearchKept
<1>7. MarkersTypeOK'
  BY <1>1, <1>2, <1>5 DEF MarkersIInv, MarkersTypeOK
<1>8. KeysAreThere'
  BY <1>1, <1>2 DEF MarkersIInv, KeysAreThere
<1>9. InTheSet'
  BY <1>1, <1>2 DEF MarkersIInv, InTheSet
<1>10. HasItsString'
  BY <1>1, <1>2, <1>3, <1>4, <1>5 DEF MarkersIInv, HasItsString
<1> QED
  BY <1>6, <1>7, <1>8, <1>9, <1>10 DEF MarkersIInv

-----------------------------------------------------------------------------
(* Searching. *)

\* The set is read: whatever the search is owed and asked for is in it.
LEMMA QueryMarkersKeepsIInv ==
    ASSUME MarkersIInv, clock' = clock, queryMarkers
    PROVE  MarkersIInv'
<1>1. PICK from \in Times, to \in Times, queue \in Queues \cup {Global} :
         search' = [NoSearch EXCEPT
             !.pc = "get", !.from = from, !.to = to, !.queue = queue,
             !.owed = {i \in Markers : todo[i] = "recorded"},
             !.ids = {i \in zset.ids : from <= marker[i].ts /\ marker[i].ts < to}]
  BY DEF queryMarkers
<1>2. UNCHANGED <<marker, todo, zset, blobs, due>>
  BY DEF queryMarkers
<1> DEFINE owed == {i \in Markers : todo[i] = "recorded"}
           ids == {i \in zset.ids : from <= marker[i].ts /\ marker[i].ts < to}
<1>3. search' = [pc |-> "get", from |-> from, to |-> to, queue |-> queue, owed |-> owed,
                 ids |-> ids, answer |-> {}, ended |-> 0]
  BY <1>1 DEF NoSearch
<1>4. from \in Nat /\ to \in Nat
  BY MarkersAssumption
<1>5. owed \in SUBSET Markers /\ ids \in SUBSET Markers
  BY DEF MarkersIInv, MarkersTypeOK
<1>6. /\ \A i \in owed : i \in Markers /\ todo[i] = "recorded"
      /\ \A i \in ids : from <= marker[i].ts /\ marker[i].ts < to
      /\ \A i \in zset.ids : from <= marker[i].ts /\ marker[i].ts < to => i \in ids
  OBVIOUS
<1> HIDE DEF owed, ids
<1>7. search' \in SearchType
  BY <1>3, <1>4, <1>5 DEF SearchType
<1>8. /\ search'.pc = "get" /\ search'.from = from /\ search'.to = to
      /\ search'.owed = owed /\ search'.ids = ids /\ search'.answer = {}
  BY <1>3
<1>9. \A i \in Markers : Unpruned(i)' <=> Unpruned(i)
  BY <1>2 DEF Unpruned
<1>10. \A i \in Markers : Asked(i)' => from <= marker[i].ts /\ marker[i].ts < to
  BY <1>2, <1>8 DEF Asked
<1>11. MarkersTypeOK' /\ KeysAreThere' /\ InTheSet' /\ HasItsString'
  BY <1>2, <1>7, <1>9 DEF MarkersIInv, MarkersTypeOK, KeysAreThere, InTheSet, HasItsString
<1>12. OwesOnly'
  BY <1>2, <1>6, <1>8 DEF OwesOnly
<1>13. Reads'
  <2> SUFFICES ASSUME NEW i \in owed, Asked(i)', Unpruned(i), clock <= due[i]
               PROVE  i \in ids
    BY <1>2, <1>6, <1>8, <1>9 DEF Reads
  <2>1. i \in Markers /\ todo[i] = "recorded"
    BY <1>6
  <2>2. i \in zset.ids
    BY <2>1 DEF MarkersIInv, InTheSet
  <2> QED
    BY <1>6, <1>10, <2>1, <2>2
<1> QED
  BY <1>11, <1>12, <1>13 DEF MarkersIInv

\* A marker is read: if it is owed, its string is there.
LEMMA GetKeepsIInv ==
    ASSUME MarkersIInv, NEW i \in Markers, clock' = clock, get(i)
    PROVE  MarkersIInv'
<1> DEFINE found == blobs[i] # Gone /\ markerMatchesQueue(marker[i], search.queue)
           answer == IF found THEN search.answer \cup {i} ELSE search.answer
<1>1. /\ search.pc = "get" /\ i \in search.ids
      /\ search' = [search EXCEPT !.ids = @ \ {i}, !.answer = answer]
      /\ UNCHANGED <<marker, todo, zset, blobs, due>>
  BY DEF get
<1>2. search \in SearchType
  BY DEF MarkersIInv, MarkersTypeOK
<1>3. /\ answer \in SUBSET Markers /\ search.answer \subseteq answer
      /\ found => i \in answer
      /\ \A j \in answer : j \in search.answer \/ (j = i /\ found)
  BY <1>2 DEF SearchType
<1>4. search.from <= marker[i].ts /\ marker[i].ts < search.to
  BY <1>1 DEF MarkersIInv, OwesOnly
<1>5. found => Asked(i) /\ todo[i] = "recorded"
  BY <1>4 DEF Asked, MarkersIInv, HasItsString
<1>6. Asked(i) /\ blobs[i] # Gone => found
  BY DEF Asked
<1> HIDE DEF found, answer
<1>7. /\ search' \in SearchType
      /\ search'.pc = "get" /\ search'.owed = search.owed /\ search'.ids = search.ids \ {i}
      /\ search'.answer = answer /\ search'.from = search.from /\ search'.to = search.to
      /\ search'.queue = search.queue
  BY <1>1, <1>2, <1>3 DEF SearchType
<1>8. \A j \in Markers : (Unpruned(j)' <=> Unpruned(j)) /\ (Asked(j)' <=> Asked(j))
  BY <1>1, <1>7 DEF Unpruned, Asked
<1>9. MarkersTypeOK' /\ KeysAreThere' /\ InTheSet' /\ HasItsString'
  BY <1>1, <1>7, <1>8 DEF MarkersIInv, MarkersTypeOK, KeysAreThere, InTheSet, HasItsString
<1>10. OwesOnly'
  BY <1>1, <1>3, <1>5, <1>7, <1>8 DEF MarkersIInv, OwesOnly
<1>11. Reads'
  <2> SUFFICES ASSUME NEW j \in search.owed, Asked(j), Unpruned(j), clock <= due[j]
               PROVE  j \in search'.ids \/ j \in answer
    <3>1. search.owed \subseteq Markers
      BY <1>2 DEF SearchType
    <3> QED
      BY <1>1, <1>7, <1>8, <3>1 DEF Reads
  <2>1. j \in search.ids \/ j \in search.answer
    BY <1>1 DEF MarkersIInv, Reads
  <2>2. CASE j # i
    BY <1>3, <1>7, <2>1, <2>2
  <2>3. CASE j = i
    <3>1. todo[i] = "recorded"
      BY <2>3 DEF MarkersIInv, OwesOnly
    <3>2. blobs[i] # Gone
      BY <2>3, <3>1 DEF MarkersIInv, HasItsString
    <3> QED
      BY <1>3, <1>6, <2>3, <3>2
  <2> QED
    BY <2>2, <2>3
<1> QED
  BY <1>9, <1>10, <1>11 DEF MarkersIInv

\* The answer is complete.
LEMMA FoundKeepsIInv ==
    ASSUME MarkersIInv, clock' = clock, Found
    PROVE  MarkersIInv'
<1>1. /\ search.pc = "get" /\ search.ids = {}
      /\ search' = [search EXCEPT !.pc = "done", !.ended = clock]
      /\ UNCHANGED <<marker, todo, zset, blobs, due>>
  BY DEF Found
<1>2. search \in SearchType /\ clock \in Nat
  BY DEF MarkersIInv, MarkersTypeOK
<1>3. /\ search' \in SearchType
      /\ search'.pc = "done" /\ search'.owed = search.owed /\ search'.ids = search.ids
      /\ search'.answer = search.answer /\ search'.from = search.from /\ search'.to = search.to
      /\ search'.queue = search.queue /\ search'.ended = clock
  BY <1>1, <1>2 DEF SearchType
<1>4. \A j \in Markers : (Unpruned(j)' <=> Unpruned(j)) /\ (Asked(j)' <=> Asked(j))
  BY <1>1, <1>3 DEF Unpruned, Asked
<1>5. search.owed \subseteq Markers /\ search.answer \subseteq Markers
  BY <1>2 DEF SearchType
<1>6. MarkersTypeOK' /\ KeysAreThere' /\ InTheSet' /\ HasItsString'
  BY <1>1, <1>3, <1>4 DEF MarkersIInv, MarkersTypeOK, KeysAreThere, InTheSet, HasItsString
<1>7. OwesOnly'
  BY <1>1, <1>3, <1>4, <1>5 DEF MarkersIInv, OwesOnly
<1>8. Reads'
  BY <1>1, <1>3, <1>4, <1>5 DEF MarkersIInv, Reads
<1> QED
  BY <1>6, <1>7, <1>8 DEF MarkersIInv

-----------------------------------------------------------------------------
(* The markers' share of the store. *)

\* Nothing is recorded initially.
THEOREM MarkersInitIInv == MarkersInit => MarkersIInv
<1> SUFFICES ASSUME MarkersInit PROVE MarkersIInv
  OBVIOUS
<1>1. /\ clock = 0
      /\ marker \in [Markers -> [ts : Times, queue : Queues \cup {Global}]]
      /\ todo = [i \in Markers |-> "unknown"] /\ zset = Empty
      /\ blobs = [i \in Markers |-> Gone] /\ due = [i \in Markers |-> 0] /\ search = NoSearch
  BY DEF MarkersInit, Init
<1>2. search \in SearchType /\ search.owed = {} /\ search.ids = {} /\ search.answer = {}
  BY <1>1 DEF NoSearch, SearchType
<1>3. zset \in [ids : SUBSET Markers, exp : {Gone} \cup Nat] /\ zset.ids = {}
  BY <1>1 DEF Empty
<1>4. MarkersTypeOK
  BY <1>1, <1>2, <1>3 DEF MarkersTypeOK, Stages
<1>5. KeysAreThere
  <2>1. 0 <= clock + retention
    BY <1>4, RetentionFacts
  <2> QED
    BY <1>1, <1>3, <2>1 DEF KeysAreThere
<1>6. InTheSet /\ HasItsString
  BY <1>1 DEF InTheSet, HasItsString
<1>7. OwesOnly /\ Reads
  BY <1>2 DEF OwesOnly, Reads
<1> QED
  BY <1>4, <1>5, <1>6, <1>7 DEF MarkersIInv

\* A step of the store that is none of the markers' and none of the clock's.
LEMMA StoreKeepsClock == StoreNext => clock' = clock
BY DEF StoreNext, Happens, write, Executes, Dies, StartQuery, ReadTimestamps, ReadBucket,
   SeriesRead, Answers

\* Every step keeps the invariant of the markers.
THEOREM MarkersNextIInv == MarkersIInv /\ [RedisNext]_allVars => MarkersIInv'
<1> SUFFICES ASSUME MarkersIInv, [RedisNext]_allVars PROVE MarkersIInv'
  OBVIOUS
<1>1. CASE StoreNext /\ UNCHANGED markerVars
  BY <1>1, StoreKeepsClock, ElsewhereKeepsIInv
<1>2. CASE MarkersTick
  BY <1>2, TickKeepsIInv
<1>3. CASE MarkersNext /\ clock' = clock
  <2>1. ASSUME NEW i \in Markers, recordMarker(i) PROVE MarkersIInv'
    <3>1. due[i] = 0
      BY <2>1 DEF recordMarker, MarkersIInv, KeysAreThere
    <3>2. "zadd" \in {"zadd", "lost"}
      OBVIOUS
    <3> QED
      BY <1>3, <2>1, <3>1, <3>2, StageKeepsIInv DEF recordMarker
  <2>2. ASSUME NEW i \in Markers, CutShort(i) PROVE MarkersIInv'
    <3>1. "lost" \in {"zadd", "lost"}
      OBVIOUS
    <3> QED
      BY <1>3, <2>2, <3>1, StageKeepsIInv DEF CutShort
  <2>3. ASSUME NEW i \in Markers,
               zadd(i) \/ zremrangebyscore(i) \/ pexpire(i) \/ set(i) \/ get(i)
        PROVE  MarkersIInv'
    BY <1>3, <2>3, ZaddKeepsIInv, ZremrangebyscoreKeepsIInv, PexpireKeepsIInv, SetKeepsIInv,
       GetKeepsIInv
  <2>4. CASE queryMarkers \/ Found
    BY <1>3, <2>4, QueryMarkersKeepsIInv, FoundKeepsIInv
  <2> QED
    BY <1>3, <2>1, <2>2, <2>3, <2>4 DEF MarkersNext
<1>4. CASE UNCHANGED allVars
  BY <1>4, ElsewhereKeepsIInv DEF allVars, vars
<1> QED
  BY <1>1, <1>2, <1>3, <1>4 DEF RedisNext

\* The invariant of the markers holds throughout.
THEOREM MarkersSpecIInv == RedisSpec => []MarkersIInv
BY MarkersInitIInv, MarkersNextIInv, PTL DEF RedisSpec

\* queryMarkers answers every marker of its window that had been recorded, for as
\* long as retention says, and none that was not sent or not asked for.
THEOREM RecordedMarkersAreFound == RedisSpec => []FindsWhatWasRecorded
<1>1. MarkersIInv => FindsWhatWasRecorded
  <2> SUFFICES ASSUME MarkersIInv, search.pc = "done" PROVE
         /\ \A i \in search.owed :
             (/\ Asked(i) /\ search.ended <= due[i]
              /\ \A j \in Markers : todo[j] # "unknown" => marker[j].ts < marker[i].ts + retention)
             => i \in search.answer
         /\ \A i \in search.answer : Asked(i) /\ todo[i] = "recorded"
    BY DEF FindsWhatWasRecorded
  <2>1. \A i \in search.answer : Asked(i) /\ todo[i] = "recorded"
    BY DEF MarkersIInv, OwesOnly
  <2>2. \A i \in search.owed :
           Asked(i) /\ search.ended <= due[i] /\ Unpruned(i) => i \in search.answer
    BY DEF MarkersIInv, Reads
  <2> QED
    BY <2>1, <2>2 DEF Unpruned
<1> QED
  BY <1>1, MarkersSpecIInv, PTL

\* The markers leave the store alone, so what holds of it by itself holds beside them.
THEOREM StoreHoldsBesideMarkers == RedisSpec => []StoreIInv
<1>1. MarkersInit => StoreIInv
  BY StoreInitIInv DEF MarkersInit
<1>2. ASSUME [RedisNext]_allVars PROVE [Next]_vars
  BY <1>2 DEF RedisNext, MarkersTick, Next, allVars, vars
<1>3. StoreIInv /\ [RedisNext]_allVars => StoreIInv'
  BY <1>2, StoreNextIInv
<1> QED
  BY <1>1, <1>3, PTL DEF RedisSpec

\* redis-store.ts:73, "replicas converge": whenever no pipeline is under way, every
\* bucket within retention holds every completed write of every replica and nothing
\* but writes that were begun, and the index and the timestamps lead to it.
THEOREM ReplicasConverge == RedisSpec => []Converges
BY StoreHoldsBesideMarkers, StoreConverges, PTL

\* A query that runs while replicas write answers for every bucket at least what was
\* settled before it began and at most what has been sent; and the total of a
\* histogram that it may read is never more than its buckets.
THEOREM QueriesReadSoundly == RedisSpec => []ReadsAreSound
BY StoreHoldsBesideMarkers, StoreReadsAreSound, PTL

\* redis-store.ts:72, "Every key carries a sliding TTL": so it does whenever no pipeline
\* is under way and none was cut short.  And every entry keeps its type.
THEOREM EveryKeyExpires == RedisSpec => []KeysExpire
BY StoreHoldsBesideMarkers, StoreExpires, PTL
=============================================================================
