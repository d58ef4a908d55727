------------------------------- MODULE UsePoll -------------------------------
(***************************************************************************)
(* The polls of the web console (apps/web/src/hooks/usePoll.ts) and the    *)
(* screen that acts on what they show (screens/QueueDetail.tsx).           *)
(*                                                                         *)
(* A poll asks on mount, whenever its dependencies change, at every tick   *)
(* while the page is live and after refetch().  Each time it cancels and   *)
(* aborts the request before.  A plain fetcher then rejects; one that      *)
(* gathers the answers of several queues catches what each of them throws, *)
(* and so resolves, with the queues that failed missing.  Data is not      *)
(* cleared when the dependencies change: a queue's screen shows, and its   *)
(* buttons act on, the data of another queue until an answer comes.        *)
(***************************************************************************)
EXTENDS Integers, FiniteSets, Sequences

CONSTANTS
    Queues, Tabs,
    Polls,              \* what there is to poll
    Gathers,            \* those that gather: Dlq, Workers, Metrics
    NoData,
    MaxMoves            \* bound of the model: what the user does, but for the
                        \* live toggle

ASSUME PollAssumption ==
    /\ Gathers \subseteq Polls \ {"summary", "jobs"}
    /\ MaxMoves \in Nat

VARIABLES
    inTime,             \* whether answers come before the next tick, which the
                        \* code does not see to
    version,            \* [queue -> changes so far]; it is paused when odd
    queue, tab,         \* the route, and the tab of QueueDetail
    live,               \* the live toggle
    poll,               \* the poll; the others of its screen do not touch it
    calls,              \* mutations under way: pause, resume, retry
    moves

pollVars == <<inTime, version, queue, tab, live, poll, calls, moves>>

-----------------------------------------------------------------------------
\* `answer` is "none" until the server answers.
Request(deps) == [deps |-> deps, answer |-> "none", version |-> 0, cancelled |-> FALSE]
Current == {r \in poll.requests : ~r.cancelled}
DepsOf(p, q, t) == IF p = "jobs" THEN <<q, t>> ELSE <<q>>

\* Mutant: the request before is left alone.
Cancelled_LeftAlone(rs) == rs

\* The clean-up of the effect.
Cancelled(rs) == {[r EXCEPT !.cancelled = TRUE, !.answer = "aborted"] : r \in rs}

\* The effect: clean up, setLoading, ask.
Asked(s, deps) ==
    [s EXCEPT !.deps = deps, !.loading = TRUE, !.requests = Cancelled(@) \cup {Request(deps)}]
Mounted(p, deps) ==
    [name |-> p, deps |-> deps, data |-> NoData, error |-> FALSE, loading |-> TRUE,
     requests |-> {Request(deps)}]

PollInit ==
    /\ inTime \in BOOLEAN
    /\ version = [q \in Queues |-> 0]
    /\ queue \in Queues /\ tab \in Tabs /\ live = TRUE
    /\ \E p \in Polls : poll = Mounted(p, DepsOf(p, queue, tab))
    /\ calls = {} /\ moves = 0

Refetch == poll' = Asked(poll, poll.deps)

\* The interval.  Where answers are slow, it aborts the request under way.
Tick ==
    /\ live
    /\ inTime => Current = {}
    /\ Cardinality(poll.requests) < 3   \* bound of the model
    /\ Refetch
    /\ UNCHANGED <<version, queue, tab, live, calls, moves>>

toggleLive ==
    /\ live' = ~live
    /\ UNCHANGED <<version, queue, tab, poll, calls, moves>>

\* The server reads the queue, or answers with an error.
Served(r) ==
    /\ r \in poll.requests /\ r.answer = "none"
    /\ \E answer \in {"ok", IF poll.name \in Gathers THEN "partial" ELSE "failed"} :
          poll' = [poll EXCEPT !.requests = (@ \ {r}) \cup
                     {[r EXCEPT !.answer = answer, !.version = version[Head(r.deps)]]}]
    /\ UNCHANGED <<version, queue, tab, live, calls, moves>>

\* What the two callbacks make of a settled request.  An aborted one rejects,
\* or resolves without any queue.
Resolves(s, r) == \/ r.answer \in {"ok", "partial"}
                  \/ r.answer = "aborted" /\ s.name \in Gathers
\* Mutant: the first callback does not ask whether it was cancelled.
Settle_Uncancelled(s, r) ==
    CASE Resolves(s, r) ->
            [s EXCEPT !.data = [deps |-> r.deps, version |-> r.version],
                      !.error = FALSE, !.loading = FALSE]
      [] r.cancelled /\ ~Resolves(s, r) -> s
      [] OTHER -> [s EXCEPT !.error = TRUE, !.loading = FALSE]

Settle(s, r) ==
    CASE r.cancelled -> s
      [] ~r.cancelled /\ Resolves(s, r) ->
            [s EXCEPT !.data = [deps |-> r.deps, version |-> r.version],
                      !.error = FALSE, !.loading = FALSE]
      [] OTHER -> [s EXCEPT !.error = TRUE, !.loading = FALSE]

Settles(r) ==
    /\ r \in poll.requests /\ r.answer # "none"
    /\ poll' = [Settle(poll, r) EXCEPT !.requests = @ \ {r}]
    /\ UNCHANGED <<version, queue, tab, live, calls, moves>>

-----------------------------------------------------------------------------
(***************************************************************************)
(* QueueDetail.  It keeps its state when only the queue of the route       *)
(* changes.                                                                *)
(***************************************************************************)
Shows(q, t) ==
    /\ moves < MaxMoves
    /\ moves' = moves + 1
    /\ queue' = q /\ tab' = t
    /\ LET deps == DepsOf(poll.name, q, t)
       IN  poll' = IF deps = poll.deps THEN poll ELSE Asked(poll, deps)
    /\ UNCHANGED <<version, live, calls>>

Navigate(q) == q # queue /\ Shows(q, tab)
setTab(t) == t # tab /\ Shows(queue, t)

Paused(v) == v % 2 = 1
SummaryPaused == poll.data # NoData /\ Paused(poll.data.version)

Call(op) ==
    /\ moves < MaxMoves
    /\ moves' = moves + 1
    /\ calls' = calls \cup {[op |-> op, queue |-> queue, done |-> "no"]}
    /\ UNCHANGED <<version, queue, tab, live, poll>>

\* The toggle, by the flag it shows, and the button of a failed row.
TogglePause == poll.name = "summary" /\ Call(IF SummaryPaused THEN "resume" ELSE "pause")
RetryRow == poll.name = "jobs" /\ tab = "failed" /\ poll.data # NoData /\ Call("retry")

Changes(c) ==
    CASE c.op = "pause" -> IF Paused(version[c.queue]) THEN 0 ELSE 1
      [] c.op = "resume" -> IF Paused(version[c.queue]) THEN 1 ELSE 0
      [] OTHER -> 2

CallServed(c) ==
    /\ c \in calls /\ c.done = "no"
    /\ \E ok \in BOOLEAN :
          /\ calls' = (calls \ {c}) \cup {[c EXCEPT !.done = IF ok THEN "ok" ELSE "failed"]}
          /\ version' = IF ok THEN [version EXCEPT ![c.queue] = @ + Changes(c)] ELSE version
    /\ UNCHANGED <<queue, tab, live, poll, moves>>

\* await, then refetch() of the polls, or alert().
CallReturns(c) ==
    /\ c \in calls /\ c.done # "no"
    /\ calls' = calls \ {c}
    /\ IF c.done = "failed" THEN UNCHANGED poll ELSE Refetch
    /\ UNCHANGED <<version, queue, tab, live, moves>>

PollNext ==
    \/ Tick
    \/ \E r \in poll.requests : Served(r) \/ Settles(r)
    \/ toggleLive
    \/ \E q \in Queues : Navigate(q)
    \/ \E t \in Tabs : setTab(t)
    \/ TogglePause \/ RetryRow
    \/ \E c \in calls : CallServed(c) \/ CallReturns(c)

-----------------------------------------------------------------------------
(***************************************************************************)
(* Data of other dependencies than those of the screen is kept only until  *)
(* an answer for the right ones: while one request for them is under way,  *)
(* or after the last one failed.  And the spinner turns exactly while an   *)
(* answer is awaited, however ticks meet what is under way, and            *)
(* navigation, refetches and aborts interleave.                            *)
(*                                                                         *)
(* After a failure nothing on the screen of a queue tells: QueueDetail and *)
(* its cards do not read the error.  With the live toggle off no tick asks *)
(* again, and the data of the other queue stays, and is acted upon, until  *)
(* the user moves.                                                         *)
(***************************************************************************)
StaleOnlyUntilAnAnswer ==
    /\ poll.deps = DepsOf(poll.name, queue, tab)
    /\ Cardinality(Current) = IF poll.loading THEN 1 ELSE 0
    /\ \A r \in Current : r.deps = poll.deps
    /\ (poll.data # NoData /\ poll.data.deps # poll.deps) => (Current # {} \/ poll.error)

(***************************************************************************)
(* What is shown never goes back in time: a new datum is of the present    *)
(* dependencies, and no older than the one of the same dependencies it     *)
(* replaces (the flag a toggle has just changed does not flip back).       *)
(***************************************************************************)
NeverGoesBack ==
    [][poll'.data # poll.data =>
          /\ poll'.data.deps = poll.deps
          /\ (poll.data # NoData /\ poll.data.deps = poll'.data.deps) =>
                poll'.data.version >= poll.data.version]_pollVars
=============================================================================
