----------------------------- MODULE SearchForms -----------------------------
(***************************************************************************)
(* The two forms of the web console that ask when told to: the search of a *)
(* queue (screens/Search.tsx) and the tree of a flow (screens/Flows.tsx).  *)
(*                                                                         *)
(* A run is not aborted by the next, and the form, unlike its button, can  *)
(* be submitted while one is under way: answers come in any order, and the *)
(* first to come ends `busy`.  Once loaded, the list of queues gives the   *)
(* search its queue; the flows take it only when they mount.               *)
(***************************************************************************)
EXTENDS Integers, FiniteSets, FiniteSetsExt

CONSTANTS
    FormQueues,         \* a set of numbers: the first of a list is its least
    Texts,              \* what may be typed, the empty text "" among it
    NoQueue, NoResult,
    MaxRuns, MaxUnderWay    \* bounds of the model: runs, and those at one time

ASSUME FormAssumption ==
    /\ FormQueues \subseteq Nat /\ NoQueue \notin FormQueues
    /\ "" \in Texts /\ {MaxRuns, MaxUnderWay} \subseteq Nat

VARIABLES
    form,               \* "search" or "flow"
    list,               \* the queues, empty until they load
    from, text,         \* the queue selected, and the query or the job id
    limit,              \* jobs read per state
    result, failed,     \* the result or the tree shown, and the error
    busy,
    runs, ran           \* the requests under way, and how many there were

formVars == <<form, list, from, text, limit, result, failed, busy, runs, ran>>

-----------------------------------------------------------------------------
DefaultLimit == 100
LargestLimit == 1000

First(l) == IF l = {} THEN NoQueue ELSE Min(l)

\* Opened from a route, before or after the queues have loaded.
FormInit ==
    /\ form \in {"search", "flow"}
    /\ list \in SUBSET FormQueues /\ from = First(list)
    /\ text = "" /\ limit = DefaultLimit
    /\ result = NoResult /\ failed = FALSE /\ busy = FALSE
    /\ runs = {} /\ ran = 0

\* The effect of Search that waits for the queues.
Defaulted(l) == IF form = "search" /\ from = NoQueue THEN First(l) ELSE from
\* The poll of the shell has new queues.
Listed(l) ==
    /\ l # list /\ list' = l
    /\ from' = Defaulted(l)
    /\ UNCHANGED <<form, text, limit, result, failed, busy, runs, ran>>

setQueue(q) ==
    /\ q \in list /\ from' = q
    /\ UNCHANGED <<form, list, text, limit, result, failed, busy, runs, ran>>

setText(x) ==
    /\ text' = x
    /\ UNCHANGED <<form, list, from, limit, result, failed, busy, runs, ran>>

\* Mutant: the limit is set when it is asked with.
Run_LimitFirst(l) ==
    /\ from # NoQueue
    /\ form = "flow" => text # ""
    /\ ran < MaxRuns /\ Cardinality(runs) < MaxUnderWay
    /\ ran' = ran + 1
    /\ busy' = TRUE /\ failed' = FALSE
    /\ result' = IF form = "flow" THEN NoResult ELSE result
    /\ runs' = runs \cup {[queue |-> from, limit |-> l, number |-> ran']}
    /\ limit' = l
    /\ UNCHANGED <<form, list, from, text>>

\* run(): an empty query matches all, an empty id asks nothing.
Run(l) ==
    /\ from # NoQueue
    /\ form = "flow" => text # ""
    /\ ran < MaxRuns /\ Cardinality(runs) < MaxUnderWay
    /\ ran' = ran + 1
    /\ busy' = TRUE /\ failed' = FALSE
    /\ result' = IF form = "flow" THEN NoResult ELSE result
    /\ runs' = runs \cup {[queue |-> from, limit |-> l, number |-> ran']}
    /\ UNCHANGED <<form, list, from, text, limit>>

Submit == Run(DefaultLimit)

ScanMore ==
    /\ form = "search" /\ result # NoResult /\ result.truncated
    /\ Run(Min({LargestLimit, 2 * limit}))

\* What the continuation of a run makes of its answer.  A job that is no
\* parent has no flow: the server says 404, an error as the others.
Succeeds(r) ==
    /\ \E truncated \in BOOLEAN :
          result' = [queue |-> r.queue, limit |-> r.limit, truncated |-> truncated]
    /\ limit' = IF form = "search" THEN r.limit ELSE limit
    /\ busy' = FALSE
    /\ UNCHANGED failed
Fails ==
    /\ failed' = TRUE /\ busy' = FALSE
    /\ UNCHANGED <<result, limit>>

Answered(r) ==
    /\ r \in runs
    /\ runs' = runs \ {r}
    /\ Succeeds(r) \/ Fails
    /\ UNCHANGED <<form, list, from, text, ran>>

FormNext ==
    \/ \E l \in SUBSET FormQueues : Listed(l)
    \/ \E q \in FormQueues : setQueue(q)
    \/ \E x \in Texts : setText(x)
    \/ Submit \/ ScanMore
    \/ \E r \in runs : Answered(r)

-----------------------------------------------------------------------------
(***************************************************************************)
(* In whatever order the answers of overlapping runs come, "scan more"     *)
(* goes beyond what is on the screen: the limit it doubles is that of the  *)
(* result shown, and never beyond the largest.  And no form is left        *)
(* unusable: its button is not disabled for a run that has ended, and the  *)
(* search has a queue whenever there are queues to search.                 *)
(***************************************************************************)
FormFollowsItsRuns ==
    /\ (form = "search" /\ result # NoResult) =>
          limit = result.limit /\ limit <= LargestLimit
    /\ busy => runs # {}
    /\ (form = "search" /\ list # {}) => from # NoQueue
=============================================================================
