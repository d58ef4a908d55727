----------------------------- MODULE DemoBackend -----------------------------
(***************************************************************************)
(* The in-browser backend of the static demo                               *)
(* (apps/web/src/demo/mock.ts): a patched window.fetch that waits, unless  *)
(* aborted, and then answers from a mutable world of sampled jobs.  The    *)
(* console sends its calls without waiting for one another, from lists     *)
(* that may be old, so that any handler may meet any job, in any pool.     *)
(*                                                                         *)
(* Left out: payloads, times, workers, alerts, deploys, schedulers and     *)
(* metric curves, which never change.                                      *)
(***************************************************************************)
EXTENDS Integers, Sequences, FiniteSets, SequencesExt, FiniteSetsExt, Filters

CONSTANTS
    QUEUES,             \* the configured queues, in order
    CountsOf,           \* [queue -> [state -> cfg.counts]]
    SampleLimit,        \* [state -> SAMPLE_LIMIT]
    Sigs, NoSig,        \* error signatures; errorSignature: null
    UnknownName,        \* a queue name that is not configured
    FirstId,            \* idSeq at first; ids are handed out downwards
    MaxPending          \* bound of the model: calls on the wire at once

STATES == <<"waiting", "active", "completed", "failed", "delayed", "prioritized">>
JobStates == ToSet(STATES)
DemoQueues == ToSet(QUEUES)
Names == DemoQueues \cup {UnknownName}
Ids == 1 .. FirstId

Want(q, s) == Min({SampleLimit[s], CountsOf[q][s]})

\* The jobs that are made at first: which queue, which state, and where in its list.
Slots ==
    UNION {{<<n, k, i>> : i \in 1..Want(QUEUES[n], STATES[k])} :
             n \in DOMAIN QUEUES, k \in DOMAIN STATES}

ASSUME DemoAssumption ==
    /\ NoSig \notin Sigs /\ UnknownName \notin DemoQueues /\ MaxPending \in Nat
    /\ QUEUES \in Seq(DemoQueues) /\ IsInjective(QUEUES)
    /\ CountsOf \in [DemoQueues -> [JobStates -> Nat]] /\ SampleLimit \in [JobStates -> Nat]
    /\ FirstId \in Nat /\ Cardinality(Slots) <= FirstId

VARIABLES
    samples,            \* [queue -> [state -> sequence of jobs]]
    counts,             \* [queue -> [state -> Nat]]
    byId,               \* [queue -> a function from ids to jobs]
    paused,             \* the paused queues
    idSeq,
    pending             \* the calls whose delay has not passed

world == <<samples, counts, byId, paused, idSeq>>
demoVars == <<world, pending>>

-----------------------------------------------------------------------------
\* makeJob: what tells the state of a job is in its fields.
makeJob(id, state, sig) ==
    [id |-> id,
     processedOn |-> state \in {"active", "completed", "failed"},
     finishedOn |-> state \in {"completed", "failed"},
     errorSignature |-> IF state = "failed" THEN sig ELSE NoSig]

\* idSeq goes through them queue by queue, and state by state.
IsBefore(x, y) ==
    \/ x[1] < y[1]
    \/ x[1] = y[1] /\ (x[2] < y[2] \/ (x[2] = y[2] /\ x[3] < y[3]))
MadeBefore(x) == Cardinality({y \in Slots : IsBefore(y, x)})

\* weightedSig draws: which signature a failed job has is left open.
buildQueueState(n, sigOf) ==
    [s \in JobStates |->
        LET k == CHOOSE i \in DOMAIN STATES : STATES[i] = s
        IN  [i \in 1 .. Want(QUEUES[n], s) |->
                makeJob(FirstId - MadeBefore(<<n, k, i>>), s,
                        IF s = "failed" THEN sigOf[i] ELSE NoSig)]]

AllOf(pools) == UNION {ToSet(pools[s]) : s \in JobStates}

DemoInit ==
    /\ \E sigOf \in [DemoQueues -> [1 .. SampleLimit["failed"] -> Sigs]] :
          samples = [q \in DemoQueues |->
                        buildQueueState(CHOOSE n \in DOMAIN QUEUES : QUEUES[n] = q, sigOf[q])]
    /\ byId = [q \in DemoQueues |->
                  [id \in {j.id : j \in AllOf(samples[q])} |->
                      CHOOSE j \in AllOf(samples[q]) : j.id = id]]
    /\ counts = CountsOf
    /\ paused \in SUBSET DemoQueues
    /\ idSeq = FirstId - Cardinality(Slots)
    /\ pending = {}

-----------------------------------------------------------------------------
(***************************************************************************)
(* What the handlers of GET answer.                                        *)
(***************************************************************************)
total(q) == SumFunctionOnSet(counts[q], JobStates)

\* The state a synthesized job draws from the hash of its name and id; the
\* stand-in for the hash is a fixed function of the id.
Drawn(id) == <<"completed", "failed", "active">>[(id % 3) + 1]
Stored(q, id) == q \in DemoQueues /\ id \in DOMAIN byId[q]
getJob(q, id) ==
    IF Stored(q, id) THEN byId[q][id] ELSE makeJob(id, Drawn(id), CHOOSE s \in Sigs : TRUE)

listJobs(q, s, start, end) ==
    IF q \notin DemoQueues THEN <<>>
    ELSE SubSeq(samples[q][s], start + 1, Min({end + 1, Len(samples[q][s])}))

deriveState(j) ==
    CASE j.errorSignature # NoSig -> "failed"
      [] j.errorSignature = NoSig /\ j.finishedOn -> "completed"
      [] j.errorSignature = NoSig /\ ~j.finishedOn /\ j.processedOn -> "active"
      [] OTHER -> "waiting"

\* search with `state:term`; the prioritized pool is not searched.
search(q, term, most) ==
    LET pool == samples[q]["failed"] \o samples[q]["completed"] \o samples[q]["active"]
                \o samples[q]["waiting"] \o samples[q]["delayed"]
        matches == Only(pool, {i \in DOMAIN pool : deriveState(pool[i]) = term})
    IN  [jobs |-> SubSeq(matches, 1, Min({most, Len(matches)})),
         truncated |-> Len(matches) > most]

\* The sample ids of one signature of failures(): six at most.
sampleJobIds(q, sig) ==
    LET pool == samples[q]["failed"]
        hits == Only(pool, {i \in DOMAIN pool : pool[i].errorSignature = sig})
    IN  {hits[i].id : i \in 1 .. Min({6, Len(hits)})}

\* The jobs below another in its tree: a child, its own child and a second child,
\* under ids of their own (`${id}-1`, `${id}-1a`, `${id}-2`).  They are made for the
\* answer and kept nowhere, so that for their ids getJob makes up other jobs.
ChildId(id, n) == FirstId + 3 * (id - 1) + n
children(id) == [n \in 1..3 |-> makeJob(ChildId(id, n), "completed", NoSig)]

\* Jobs that getJob and flow make, and drop.
MadeToAnswer(c) ==
    LET unknown == IF Stored(c.q, c.id) THEN 0 ELSE 1
    IN  CASE c.op = "get" -> unknown
          [] c.op = "flow" -> unknown + Len(children(c.id))
          [] OTHER -> 0

-----------------------------------------------------------------------------
(***************************************************************************)
(* The mutations.                                                          *)
(***************************************************************************)
PoolOf(q, id) == {s \in JobStates : \E j \in ToSet(samples[q][s]) : j.id = id}
Without(pool, id) == Only(pool, {i \in DOMAIN pool : pool[i].id # id})

\* removeFromState, on the pools and the counts of one queue.
PoolsWithout(q, id) ==
    [s \in JobStates |-> IF s \in PoolOf(q, id) THEN Without(samples[q][s], id) ELSE samples[q][s]]
\* Mutant: the count is left.
CountsWithout_Kept(q, id) == counts[q]

CountsWithout(q, id) ==
    [s \in JobStates |-> IF s \in PoolOf(q, id) THEN Max({0, counts[q][s] - 1}) ELSE counts[q][s]]

\* Mutant: the failure stays on the job.
Revived_StillFailed(j) == [j EXCEPT !.finishedOn = FALSE, !.processedOn = FALSE]

Revived(j) == [j EXCEPT !.errorSignature = NoSig, !.finishedOn = FALSE, !.processedOn = FALSE]

AddWaiting(q, pools, cs, j) ==
    /\ samples' = [samples EXCEPT ![q] = [pools EXCEPT !["waiting"] = <<j>> \o @]]
    /\ counts' = [counts EXCEPT ![q] = [cs EXCEPT !["waiting"] = @ + 1]]

retryJob(q, id) ==
    /\ IF Stored(q, id)
       THEN LET revived == Revived(byId[q][id])
            IN  /\ AddWaiting(q, PoolsWithout(q, id), CountsWithout(q, id), revived)
                /\ byId' = [byId EXCEPT ![q][id] = revived]
       ELSE IF q \in DemoQueues
       THEN /\ samples' = [samples EXCEPT ![q] = PoolsWithout(q, id)]
            /\ counts' = [counts EXCEPT ![q] = CountsWithout(q, id)]
            /\ UNCHANGED byId
       ELSE UNCHANGED <<samples, counts, byId>>
    /\ UNCHANGED <<paused, idSeq>>

\* Mutant: byId keeps the job.
Forget_Kept(f, id) == f

Forget(f, id) == [i \in DOMAIN f \ {id} |-> f[i]]

removeJob(q, id) ==
    /\ IF q \in DemoQueues
       THEN /\ samples' = [samples EXCEPT ![q] = PoolsWithout(q, id)]
            /\ counts' = [counts EXCEPT ![q] = CountsWithout(q, id)]
            /\ byId' = [byId EXCEPT ![q] = Forget(@, id)]
       ELSE UNCHANGED <<samples, counts, byId>>
    /\ UNCHANGED <<paused, idSeq>>

\* Only a delayed job is moved; anything else is answered { ok } all the same.
promoteJob(q, id) ==
    /\ IF q \in DemoQueues /\ "delayed" \in PoolOf(q, id)
       THEN LET job == CHOOSE j \in ToSet(samples[q]["delayed"]) : j.id = id
            IN  AddWaiting(q, [samples[q] EXCEPT !["delayed"] = Without(@, id)],
                           [counts[q] EXCEPT !["delayed"] = Max({0, @ - 1})], job)
       ELSE UNCHANGED <<samples, counts>>
    /\ UNCHANGED <<byId, paused, idSeq>>

\* The new id, and the one makeJob takes for itself.
replayJob(q, id) ==
    IF q \notin DemoQueues THEN UNCHANGED world
    ELSE LET fresh == makeJob(idSeq, "waiting", NoSig)
         IN  /\ AddWaiting(q, samples[q], counts[q], fresh)
             /\ byId' = [byId EXCEPT ![q] = [i \in DOMAIN @ \cup {idSeq} |->
                                                IF i = idSeq THEN fresh ELSE @[i]]]
             /\ idSeq' = idSeq - 2
             /\ UNCHANGED paused

setPaused(q, value) ==
    /\ paused' = IF q \notin DemoQueues THEN paused ELSE IF value THEN paused \cup {q} ELSE paused \ {q}
    /\ UNCHANGED <<samples, counts, byId, idSeq>>

Answers(c) ==
    /\ c.op \in {"get", "flow"}
    /\ idSeq' = idSeq - MadeToAnswer(c)
    /\ UNCHANGED <<samples, counts, byId, paused>>

-----------------------------------------------------------------------------
(***************************************************************************)
(* The patched fetch: the route is chosen, the delay passes unless the     *)
(* signal aborts it, and the handler runs.                                 *)
(***************************************************************************)
Calls == [op : {"get", "flow", "retry", "promote", "remove", "replay", "pause", "resume"},
          q : Names, id : Ids]

Fetch(c) ==
    /\ c \notin pending
    /\ Cardinality(pending) < MaxPending
    /\ pending' = pending \cup {c}
    /\ UNCHANGED world

Abort(c) ==
    /\ c \in pending
    /\ pending' = pending \ {c}
    /\ UNCHANGED world

Handle(c) ==
    \/ Answers(c)
    \/ c.op = "retry" /\ retryJob(c.q, c.id)
    \/ c.op = "promote" /\ promoteJob(c.q, c.id)
    \/ c.op = "remove" /\ removeJob(c.q, c.id)
    \/ c.op = "replay" /\ replayJob(c.q, c.id)
    \/ c.op \in {"pause", "resume"} /\ setPaused(c.q, c.op = "pause")

\* idSeq counts down for ever; the model stops while ids last.
Serve(c) ==
    /\ c \in pending
    /\ idSeq > 3
    /\ Handle(c)
    /\ pending' = pending \ {c}

DemoNext == \E c \in Calls : Fetch(c) \/ Abort(c) \/ Serve(c)

-----------------------------------------------------------------------------
TypeOK ==
    /\ paused \subseteq DemoQueues /\ idSeq \in Nat /\ pending \subseteq Calls
    /\ counts \in [DemoQueues -> [JobStates -> Nat]]
    /\ \A q \in DemoQueues : AllOf(samples[q]) \subseteq
          [id : Ids, processedOn : BOOLEAN, finishedOn : BOOLEAN, errorSignature : Sigs \cup {NoSig}]

(***************************************************************************)
(* What the header of mock.ts says of lists, searches and the samples of a *)
(* failure: whatever was retried, promoted, replayed or removed, and in    *)
(* whatever order, an id found in one of them resolves to that very job, a *)
(* job is in one pool, every job of the store can be listed, and no count  *)
(* is below what its list shows.  The header says it of flows too, and     *)
(* there it is not so: getJob does not know the ids of `children`.         *)
(***************************************************************************)
ResolvesThroughOneStore ==
    /\ TypeOK
    /\ \A q \in DemoQueues :
          /\ {j.id : j \in AllOf(samples[q])} = DOMAIN byId[q]
          /\ \A j \in AllOf(samples[q]) : getJob(q, j.id) = j
          /\ \A id \in DOMAIN byId[q] : Cardinality(PoolOf(q, id)) = 1
          /\ \A s \in JobStates :
                /\ counts[q][s] >= Len(samples[q][s])
                /\ IsInjective(samples[q][s])

(***************************************************************************)
(* A list, a search by state and the samples of a signature show the same  *)
(* world: the state the drawer and the search derive from the fields of a  *)
(* job is that of its pool (waiting stands for the pools that have no      *)
(* mark of their own), and only failed jobs are samples of a signature.    *)
(***************************************************************************)
ViewsAgree ==
    \A q \in DemoQueues :
       /\ \A s \in {"active", "completed", "failed"} :
             search(q, s, FirstId).jobs = listJobs(q, s, 0, FirstId)
       /\ \A s \in {"waiting", "delayed", "prioritized"} :
             \A j \in ToSet(samples[q][s]) : deriveState(j) = "waiting"
       /\ \A s \in JobStates, sig \in Sigs :
             (\E j \in ToSet(samples[q][s]) : j.id \in sampleJobIds(q, sig)) => s = "failed"

\* The lists, the search, the samples of failures and the drawer opened from
\* any of them tell of the same jobs.
OneStory == ResolvesThroughOneStore /\ ViewsAgree

(***************************************************************************)
(* The total of a queue follows what was done to its jobs: one more for a  *)
(* replay, one less for the removal of a job that is there, the same for   *)
(* everything else, a retry or promotion of a job that has moved included. *)
(***************************************************************************)
TotalFollowsActions ==
    [][\A q \in DemoQueues :
         total(q)' - total(q) = Cardinality(DOMAIN byId'[q]) - Cardinality(DOMAIN byId[q])]_demoVars
=============================================================================
