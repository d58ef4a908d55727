------------------------------ MODULE JobSearch ------------------------------
(***************************************************************************)
(* The readers that look through the jobs of a queue without an index:     *)
(* searchJobs (core/src/bullmq/search.ts) reads the first jobs of one      *)
(* state after the other, while jobs move between the states; the samples  *)
(* of failed jobs (failure-samples.ts) come from one such read.            *)
(***************************************************************************)
EXTENDS Integers, Sequences, SequencesExt, FiniteSets, Filters

CONSTANTS
    SearchJobs,         \* the jobs
    StateLists,         \* the lists of states a search may be of
    Signatures,         \* what jobs may fail with
    Sought,             \* the query matches the jobs with this one
    MaxLimit,           \* bound of the model: the budget
    MaxChanges          \* bound of the model: changes of state

SearchStates == {"waiting", "active", "completed", "failed"}

ASSUME SearchAssumption ==
    /\ IsFiniteSet(SearchJobs)
    /\ StateLists \subseteq Seq(SearchStates)
    /\ Sought \in Signatures
    /\ {MaxLimit, MaxChanges} \subseteq Nat

VARIABLES
    lists,              \* [state -> its jobs, in the order of getJobs]
    signature,          \* [job -> what it fails with, and is found by]
    search,
    moved,              \* the jobs that have moved since the search began
    changes

searchVars == <<lists, signature, search, moved, changes>>

-----------------------------------------------------------------------------
matching == {j \in SearchJobs : signature[j] = Sought}

NoSearch == [states |-> <<>>, at |-> 0, limit |-> 1, jobs |-> <<>>, scanned |-> 0,
             truncated |-> FALSE]
Returned == search.at > Len(search.states)

SearchInit ==
    /\ \E f \in [SearchJobs -> SearchStates] :
          lists = [s \in SearchStates |->
                     LET all == SetToSeq(SearchJobs) IN Only(all, {i \in DOMAIN all : f[all[i]] = s})]
    /\ signature \in [SearchJobs -> Signatures]
    /\ search = NoSearch /\ moved = {} /\ changes = 0

\* What getJobs gives for one state, from its first job on.
getJobs(state, limit) == SubSeq(lists[state], 1, IF Len(lists[state]) < limit
                                                 THEN Len(lists[state]) ELSE limit)

StartSearch ==
    /\ search = NoSearch
    /\ \E states \in StateLists, limit \in 1..MaxLimit :
          search' = [NoSearch EXCEPT !.states = states, !.at = 1, !.limit = limit]
    /\ moved' = {}
    /\ UNCHANGED <<lists, signature, changes>>

\* Mutant: only when more come.
HitsBudget_More(batch, limit) == Len(batch) > limit

\* The budget of a state is hit when as many jobs come as were asked for.
HitsBudget(batch, limit) == Len(batch) >= limit

\* The loop of searchJobs: one state.
searchJobs ==
    /\ search.at \in DOMAIN search.states
    /\ LET batch == getJobs(search.states[search.at], search.limit)
       IN  search' = [search EXCEPT
              !.jobs = @ \o Only(batch, {i \in DOMAIN batch : batch[i] \in matching}),
              !.scanned = @ + Len(batch),
              !.truncated = @ \/ HitsBudget(batch, search.limit),
              !.at = @ + 1]
    /\ UNCHANGED <<lists, signature, moved, changes>>

\* A worker, a retry or a removal: a job leaves its list, and is the newest of
\* another or of none.
Move(j, from, to) ==
    /\ search # NoSearch    \* bound of the model: the lists may be any at first
    /\ changes < MaxChanges /\ changes' = changes + 1
    /\ j \in ToSet(lists[from]) /\ from # to
    /\ lists' = [s \in SearchStates |->
                   CASE s = from -> Only(lists[s], {i \in DOMAIN lists[s] : lists[s][i] # j})
                     [] s = to   -> <<j>> \o lists[s]
                     [] OTHER    -> lists[s]]
    /\ moved' = moved \cup {j}
    /\ UNCHANGED <<signature, search>>

SearchNext ==
    \/ StartSearch \/ searchJobs
    \/ \E j \in SearchJobs, from \in SearchStates, to \in SearchStates \cup {"none"} :
          Move(j, from, to)

-----------------------------------------------------------------------------
\* Up to `per` failed jobs of each wanted signature, of the first `limit`; and
\* whether the budget ended before every signature was filled.
sampleFailedJobsBySignature(wanted, per, limit) ==
    LET batch == getJobs("failed", limit)
        Of(sig) == Only(batch, {i \in DOMAIN batch : signature[batch[i]] = sig})
        samples == [sig \in wanted |-> SubSeq(Of(sig), 1, IF Len(Of(sig)) < per THEN Len(Of(sig)) ELSE per)]
    IN  IF wanted = {}
        THEN [samples |-> <<>>, truncated |-> FALSE]
        ELSE [samples |-> samples,
              truncated |-> /\ Len(batch) >= limit
                            /\ \E sig \in wanted : Len(samples[sig]) < per]

-----------------------------------------------------------------------------
(***************************************************************************)
(* "True if any state hit the budget - more matches may exist deeper"      *)
(* (search.ts:24), so that FALSE is a promise: however jobs moved          *)
(* meanwhile, a job that stayed where it was, and matches, was found once  *)
(* for each time its state was asked for (`states=failed,failed` finds it  *)
(* twice), and not at all if it was not.                                   *)
(***************************************************************************)
ScanIsComplete ==
    (Returned /\ ~search.truncated) =>
       \A j \in matching \ moved :
          Cardinality({i \in DOMAIN search.jobs : search.jobs[i] = j})
            = Cardinality({k \in DOMAIN search.states : j \in ToSet(lists[search.states[k]])})

(***************************************************************************)
(* The same of the samples: when they are not said to be truncated, every  *)
(* signature has as many failed jobs as were asked for, or all there are.  *)
(***************************************************************************)
SamplesAreComplete ==
    \A wanted \in SUBSET Signatures, per, limit \in 1..MaxLimit :
       LET r == sampleFailedJobsBySignature(wanted, per, limit)
       IN  ~r.truncated =>
              \A sig \in wanted :
                 LET all == {j \in ToSet(lists["failed"]) : signature[j] = sig}
                 IN  Len(r.samples[sig]) = per \/ ToSet(r.samples[sig]) = all

(***************************************************************************)
(* What is not said to be truncated is complete: the answer of a search,   *)
(* and the samples of the failure summary.                                 *)
(***************************************************************************)
SearchIsComplete == ScanIsComplete /\ SamplesAreComplete
=============================================================================
