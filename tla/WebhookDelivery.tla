--------------------------- MODULE WebhookDelivery ---------------------------
(***************************************************************************)
(* packages/core/src/alerts/webhook.ts: one call of the function that      *)
(* createWebhookDeliver returns.  deliverOne runs once per URL, the URLs   *)
(* concurrently; each retries a bounded number of times, an attempt ends   *)
(* by an answer, an error or its timeout, and attempts are separated by an *)
(* exponential backoff.                                                    *)
(*                                                                         *)
(* A POST may be accepted by its receiver and its answer still be lost or  *)
(* come too late, and a POST that was given up may still arrive.           *)
(***************************************************************************)
EXTENDS Integers, FiniteSets

CONSTANTS
    Urls,               \* config.webhookUrls, by position
    configuredAttempts, \* opts.maxAttempts, unvalidated
    timeout,            \* opts.timeoutMs
    backoffUnit         \* the 100 ms of the code

ASSUME WebhookAssumption ==
    /\ IsFiniteSet(Urls)
    /\ configuredAttempts \in Int
    /\ timeout \in Nat \ {0}
    /\ backoffUnit \in Nat \ {0}

VARIABLES
    clock,              \* ms since the call
    posts,              \* [Urls -> the activation of deliverOne]
    accepted,           \* [Urls -> how often its receiver accepted the alert]
    strays,             \* [Urls -> POSTs given up that may still arrive]
    reports,            \* [Urls -> calls of onError]
    resolved            \* the promise of the call

vars == <<clock, posts, accepted, strays, reports, resolved>>

maxAttempts == IF configuredAttempts < 1 THEN 1 ELSE configuredAttempts

\* 2 ** n
PowerOf2[n \in Nat] == IF n = 0 THEN 1 ELSE 2 * PowerOf2[n - 1]

\* Mutant: one doubling too many.
backoff_Doubled(attempt) == PowerOf2[attempt] * backoffUnit
backoff(attempt) == PowerOf2[attempt - 1] * backoffUnit

\* `arrived`: the receiver accepted the POST of the attempt under way.
Init ==
    /\ clock = 0
    /\ posts = [u \in Urls |-> [pc |-> "fetching", attempt |-> 1,
                                due |-> timeout, arrived |-> FALSE]]
    /\ accepted = [u \in Urls |-> 0]
    /\ strays = [u \in Urls |-> 0]
    /\ reports = [u \in Urls |-> 0]
    /\ resolved = FALSE

-----------------------------------------------------------------------------
\* The receiver.
Arrives(u) ==
    /\ posts[u].pc = "fetching"
    /\ ~posts[u].arrived
    /\ posts' = [posts EXCEPT ![u].arrived = TRUE]
    /\ accepted' = [accepted EXCEPT ![u] = @ + 1]
    /\ UNCHANGED <<clock, strays, reports, resolved>>

ArrivesLate(u) ==
    /\ strays[u] > 0
    /\ strays' = [strays EXCEPT ![u] = @ - 1]
    /\ accepted' = [accepted EXCEPT ![u] = @ + 1]
    /\ UNCHANGED <<clock, posts, reports, resolved>>

\* deliverOne: res.ok
Acknowledged(u) ==
    /\ posts[u].pc = "fetching"
    /\ posts[u].arrived
    /\ posts' = [posts EXCEPT ![u].pc = "acknowledged"]
    /\ UNCHANGED <<clock, accepted, strays, reports, resolved>>

\* Mutant: one attempt too many.
AfterFailure_OneMore(u) ==
    IF posts[u].attempt <= maxAttempts
    THEN /\ posts' = [posts EXCEPT ![u].pc = "sleeping",
                                   ![u].due = clock + backoff(posts[u].attempt)]
         /\ UNCHANGED reports
    ELSE /\ posts' = [posts EXCEPT ![u].pc = "gave up"]
         /\ reports' = [reports EXCEPT ![u] = @ + 1]

\* What follows a failed attempt: the backoff, or after the last one onError.
AfterFailure(u) ==
    IF posts[u].attempt < maxAttempts
    THEN /\ posts' = [posts EXCEPT ![u].pc = "sleeping",
                                   ![u].due = clock + backoff(posts[u].attempt)]
         /\ UNCHANGED reports
    ELSE /\ posts' = [posts EXCEPT ![u].pc = "gave up"]
         /\ reports' = [reports EXCEPT ![u] = @ + 1]

\* A response that is not ok, from a receiver that may have acted on the POST.
NotOk(u) ==
    /\ posts[u].pc = "fetching"
    /\ AfterFailure(u)
    /\ UNCHANGED <<clock, accepted, strays, resolved>>

\* fetch rejects, by a network error or by its AbortSignal.  A POST that has
\* not arrived is not recalled by that.
Abandon(u) ==
    /\ AfterFailure(u)
    /\ strays' = [strays EXCEPT ![u] = IF posts[u].arrived THEN @ ELSE @ + 1]
    /\ UNCHANGED <<clock, accepted, resolved>>

ConnectionLost(u) ==
    /\ posts[u].pc = "fetching"
    /\ Abandon(u)

\* Mutant: fetch is called without its AbortSignal.
TimesOut_NoSignal(u) == FALSE

TimesOut(u) ==
    /\ posts[u].pc = "fetching"
    /\ clock >= posts[u].due
    /\ Abandon(u)

Wakes(u) ==
    /\ posts[u].pc = "sleeping"
    /\ clock >= posts[u].due
    /\ posts' = [posts EXCEPT ![u] = [pc |-> "fetching", attempt |-> @.attempt + 1,
                                      due |-> clock + timeout, arrived |-> FALSE]]
    /\ UNCHANGED <<clock, accepted, strays, reports, resolved>>

Settled(u) == posts[u].pc \in {"acknowledged", "gave up"}

\* Mutant: Promise.race instead of Promise.all.
Resolve_First ==
    /\ \E u \in Urls : Settled(u)
    /\ ~resolved
    /\ resolved' = TRUE
    /\ UNCHANGED <<clock, posts, accepted, strays, reports>>

\* Promise.all
Resolve ==
    /\ \A u \in Urls : Settled(u)
    /\ ~resolved
    /\ resolved' = TRUE
    /\ UNCHANGED <<clock, posts, accepted, strays, reports>>

\* Timers fire on time: the clock does not pass one that is due.
TimePasses ==
    /\ \A u \in Urls : ~Settled(u) => clock < posts[u].due
    /\ \E u \in Urls : ~Settled(u)
    /\ clock' = clock + 1
    /\ UNCHANGED <<posts, accepted, strays, reports, resolved>>

deliverOne(u) ==
    Acknowledged(u) \/ NotOk(u) \/ ConnectionLost(u) \/ TimesOut(u) \/ Wakes(u)

Next ==
    \/ \E u \in Urls : Arrives(u) \/ ArrivesLate(u) \/ deliverOne(u)
    \/ Resolve
    \/ TimePasses

Spec == Init /\ [][Next]_vars

\* Time goes on, due timers fire, and the event loop runs what is ready.  The
\* network owes nothing: no fairness on arrivals and answers.
Fairness ==
    /\ WF_vars(TimePasses)
    /\ WF_vars(Resolve)
    /\ \A u \in Urls : WF_vars(TimesOut(u)) /\ WF_vars(Wakes(u))

FairSpec == Spec /\ Fairness

-----------------------------------------------------------------------------
\* The longest a call can take, when every attempt times out.
WorstCase == maxAttempts * timeout + (PowerOf2[maxAttempts - 1] - 1) * backoffUnit

\* Every activation of deliverOne keeps its type; attempts count 1..maxAttempts.
TypeOK ==
    /\ clock \in Nat
    /\ posts \in [Urls -> [pc : {"fetching", "sleeping", "acknowledged", "gave up"},
                           attempt : 1..maxAttempts, due : Nat, arrived : BOOLEAN]]
    /\ accepted \in [Urls -> Nat]
    /\ strays \in [Urls -> Nat]
    /\ reports \in [Urls -> Nat]
    /\ resolved \in BOOLEAN

\* Retrying after a lost answer may show a receiver the alert again, but never
\* more often than there are attempts, late arrivals included; and no POST is
\* forgotten between the attempt that gave it up and its late arrival.
DuplicatesBounded ==
    \A u \in Urls : accepted[u] + strays[u] <= maxAttempts

\* The evaluation pass that awaits the call is held up for a bounded time: the
\* attempts' timeouts and the backoffs between them, none after the last.
PassHeldUpBoundedly == clock <= WorstCase

\* onError is called once for a URL all of whose attempts failed, and for no
\* other URL, however late its acknowledgement came.
ReportsMatchFailures ==
    \A u \in Urls :
        reports[u] = (IF posts[u].pc = "gave up" THEN 1 ELSE 0)

\* The attempts at a URL are accounted for: each is at most one POST, and the
\* failure of all of them is one report; and they take no longer than they may.
AttemptsAccountedFor ==
    TypeOK /\ DuplicatesBounded /\ ReportsMatchFailures /\ PassHeldUpBoundedly

\* Each URL gets one final outcome whatever happens to the others, and the call
\* resolves after the last of them.
Contract == INSTANCE DeliveryContract WITH
    accepted <- {u \in Urls : accepted[u] > 0},
    outcome <- [u \in Urls |->
                  CASE posts[u].pc = "acknowledged" -> "delivered"
                    [] reports[u] > 0               -> "reported"
                    [] OTHER                        -> "pending"]

\* webhook.ts:7-8: delivery never throws into the evaluator loop.
ImplementsContract == Contract!Spec

\* The call resolves even if no receiver ever answers.
AlwaysResolves == <>resolved
=============================================================================
