---------------------------- MODULE RedisMarkers ----------------------------
(***************************************************************************)
(* Deploy markers in Redis (core/src/storage/redis-store.ts, recordMarker  *)
(* and queryMarkers): one sorted set of ids by time, and a string for each *)
(* marker with a TTL of its own.                                           *)
(*                                                                         *)
(* A marker has the time its operator gives it, which may be past or to    *)
(* come, and the set is pruned by that time; the keys expire by the clock  *)
(* of Redis.  Recording is a pipeline of four commands, and a query reads  *)
(* the set first and the markers after it.                                 *)
(*                                                                         *)
(* Keys of markers are no keys of series: a scenario without events plays  *)
(* with markers, and only the clock is shared.                             *)
(***************************************************************************)
EXTENDS RedisStore

CONSTANTS
    Markers,            \* the ids of the markers, each recorded at most once
    Times,              \* what operators give
    Queues, Global      \* the scope of a marker, Global for all queues

ASSUME MarkersAssumption == Times \subseteq Nat /\ Global \notin Queues

VARIABLES
    marker,             \* [id -> the marker]
    todo,               \* [id -> how far its recording is]
    zset,               \* {kp}:markers: the ids in it, and its expiry
    blobs,              \* {kp}:marker:{id}: [id -> the expiry of the string]
    due,                \* observer: [id -> until when it should be found]
    search              \* a query of the markers

markerVars == <<marker, todo, zset, blobs, due, search>>
allVars == <<vars, markerVars>>

-----------------------------------------------------------------------------
Gone == -1              \* the expiry of a key that is not there
Empty == [ids |-> {}, exp |-> Gone]
NoSearch == [pc |-> "idle", from |-> 0, to |-> 0, queue |-> Global, owed |-> {}, ids |-> {},
             answer |-> {}, ended |-> 0]

WithMarkers == scenario.events = 0

MarkersInit ==
    /\ Init
    /\ marker \in [Markers -> [ts : Times, queue : Queues \cup {Global}]]
    /\ ~WithMarkers => \A i \in Markers : /\ marker[i].queue = Global
                                          /\ \A t \in Times : marker[i].ts <= t
    /\ todo = [i \in Markers |-> "unknown"]
    /\ zset = Empty
    /\ blobs = [i \in Markers |-> Gone]
    /\ due = [i \in Markers |-> 0]
    /\ search = NoSearch

\* Before the first expiry is set, time tells nothing of markers.
Dropped(exp) == exp \notin {NoTTL, Gone} /\ exp < clock + 1
MarkersTick ==
    /\ Tick
    /\ WithMarkers => \E i \in Markers : blobs[i] # Gone \/ due[i] # 0
    /\ zset' = IF Dropped(zset.exp) THEN Empty ELSE zset
    /\ blobs' = [i \in Markers |-> IF Dropped(blobs[i]) THEN Gone ELSE blobs[i]]
    /\ UNCHANGED <<marker, todo, due, search>>

-----------------------------------------------------------------------------
\* POST /api/deploys: the pipeline is sent.
recordMarker(i) ==
    /\ todo[i] = "unknown"
    /\ todo' = [todo EXCEPT ![i] = "zadd"]
    /\ UNCHANGED <<marker, zset, blobs, due, search>>

\* The next of its commands; pipelines of other replicas come in between.
Runs(i, command, then) ==
    /\ todo[i] = command
    /\ todo' = [todo EXCEPT ![i] = then]
    /\ UNCHANGED <<marker, search>>

zadd(i) ==
    /\ Runs(i, "zadd", "zremrangebyscore")
    /\ zset' = [ids |-> zset.ids \cup {i}, exp |-> IF zset.exp = Gone THEN NoTTL ELSE zset.exp]
    /\ UNCHANGED <<blobs, due>>

\* Mutant: everything that is older than the marker goes.
Prunes_Older(i) == {j \in zset.ids : marker[j].ts < marker[i].ts}
\* The ids with scores from 0 to ts - ttl.
Prunes(i) == {j \in zset.ids : marker[j].ts <= marker[i].ts - retention}
zremrangebyscore(i) ==
    /\ Runs(i, "zremrangebyscore", "pexpire")
    /\ LET left == zset.ids \ Prunes(i)
       IN  zset' = IF left = {} THEN Empty ELSE [zset EXCEPT !.ids = left]
    /\ UNCHANGED <<blobs, due>>

\* Too late for the marker where the set has expired since the zadd.
pexpire(i) ==
    /\ Runs(i, "pexpire", "set")
    /\ zset' = IF zset.exp = Gone THEN zset ELSE [zset EXCEPT !.exp = clock + retention]
    /\ due' = IF i \in zset.ids THEN [due EXCEPT ![i] = clock + retention] ELSE due
    /\ UNCHANGED blobs

set(i) ==
    /\ Runs(i, "set", "recorded")
    /\ blobs' = [blobs EXCEPT ![i] = clock + retention]
    /\ UNCHANGED <<zset, due>>

\* The process or its connection dies with a part of the pipeline.
CutShort(i) ==
    /\ todo[i] \notin {"unknown", "recorded", "lost"}
    /\ todo' = [todo EXCEPT ![i] = "lost"]
    /\ UNCHANGED <<marker, zset, blobs, due, search>>

-----------------------------------------------------------------------------
\* A marker of no queue matches every queue; no queue asks for all markers.
markerMatchesQueue(m, queue) == queue = Global \/ m.queue \in {Global, queue}
Asked(i) == /\ search.from <= marker[i].ts /\ marker[i].ts < search.to
            /\ markerMatchesQueue(marker[i], search.queue)

\* zrangebyscore.
queryMarkers ==
    /\ search.pc = "idle"
    /\ \E from, to \in Times, queue \in Queues \cup {Global} :
          /\ from < to
          /\ search' = [NoSearch EXCEPT
             !.pc = "get", !.from = from, !.to = to, !.queue = queue,
             !.owed = {i \in Markers : todo[i] = "recorded"},
             !.ids = {i \in zset.ids : from <= marker[i].ts /\ marker[i].ts < to}]
    /\ UNCHANGED <<marker, todo, zset, blobs, due>>

\* The gets of the second pipeline, in any order; an id without a string is
\* passed over.
get(i) ==
    /\ search.pc = "get" /\ i \in search.ids
    /\ search' = [search EXCEPT
          !.ids = @ \ {i},
          !.answer = IF blobs[i] # Gone /\ markerMatchesQueue(marker[i], search.queue)
                     THEN @ \cup {i} ELSE @]
    /\ UNCHANGED <<marker, todo, zset, blobs, due>>

Found ==
    /\ search.pc = "get" /\ search.ids = {}
    /\ search' = [search EXCEPT !.pc = "done", !.ended = clock]
    /\ UNCHANGED <<marker, todo, zset, blobs, due>>

MarkersNext ==
    \/ \E i \in Markers : \/ recordMarker(i) \/ zadd(i) \/ zremrangebyscore(i) \/ pexpire(i)
                          \/ set(i) \/ CutShort(i) \/ get(i)
    \/ queryMarkers \/ Found

RedisNext ==
    /\ UNCHANGED scenario
    /\ \/ StoreNext /\ UNCHANGED markerVars
       \/ WithMarkers /\ MarkersNext /\ UNCHANGED <<clock, happened, status, pipes, redis, query>>
       \/ MarkersTick

RedisSpec == MarkersInit /\ [][RedisNext]_allVars

-----------------------------------------------------------------------------
(***************************************************************************)
(* However recordings interleave and are cut short, a query answers every  *)
(* marker of its window whose recording had ended, for as long as the      *)
(* retention says: unless another marker was given a time that is a whole  *)
(* retention later, which prunes it at once, be it in the future; or the   *)
(* set expired between its zadd and its pexpire.  And it answers no marker *)
(* that was not sent or is not of its window.                              *)
(***************************************************************************)
FindsWhatWasRecorded ==
    search.pc = "done" =>
       /\ \A i \in search.owed :
             (/\ Asked(i) /\ search.ended <= due[i]
              /\ \A j \in Markers : todo[j] # "unknown" => marker[j].ts < marker[i].ts + retention)
             => i \in search.answer
       /\ \A i \in search.answer : Asked(i) /\ todo[i] = "recorded"
=============================================================================
