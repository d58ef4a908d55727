---------------------------- MODULE AlertDelivery ----------------------------
(***************************************************************************)
(* The evaluator (AlertEvaluator) with the deliveries it awaits            *)
(* (core/src/alerts/webhook.ts) and the receivers behind them: in what     *)
(* order notifications arrive, and what a receiver then believes of a rule.*)
(*                                                                         *)
(* WebhookDelivery has the times of one delivery; here an attempt may fail *)
(* or be given up at any time, and the next follows.                       *)
(***************************************************************************)
EXTENDS AlertEvaluator

CONSTANTS
    Urls,               \* config.webhookUrls
    maxAttempts

ASSUME DeliveryAssumption == maxAttempts \in Nat \ {0}

VARIABLES
    sent,               \* observer: the notifications, in order
    posts,              \* [pass -> [url -> the activation of deliverOne]]
    wire,               \* the POSTs that have not arrived and still may
    heard,              \* [url -> [rule -> what has arrived there last of the rule]]
    reported            \* [url -> the notifications onError was called for]

deliveryVars == <<sent, posts, wire, heard, reported>>
allVars == <<vars, deliveryVars>>

-----------------------------------------------------------------------------
\* A notification is known by its number.
NoActivation == [pc |-> "settled", n |-> 0, attempt |-> 0]
Fetching(n, attempt) == [pc |-> "fetching", n |-> n, attempt |-> attempt]
Post(u, n, attempt) == [url |-> u, n |-> n, attempt |-> attempt, late |-> FALSE]

DeliveryInit ==
    /\ Init
    /\ sent = <<>> /\ wire = {}
    /\ posts = [p \in PassSlots |-> [u \in Urls |-> NoActivation]]
    /\ heard = [u \in Urls |-> [r \in Ids |-> [n |-> 0, late |-> FALSE]]] /\ reported = [u \in Urls |-> {}]

\* deliver(): the first attempt at every URL leaves at once.
Evaluated(p) ==
    /\ RuleEvaluated(p)
    /\ IF passes'[p].pc = "delivering"
       THEN LET n == Len(sent) + 1
                r == Rules[passes[p].rule].id
            IN  /\ sent' = Append(sent, [rule |-> r, event |-> lastSent'[r].event])
                /\ posts' = [posts EXCEPT ![p] = [u \in Urls |-> Fetching(n, 1)]]
                /\ wire' = wire \cup {Post(u, n, 1) : u \in Urls}
       ELSE UNCHANGED <<sent, posts, wire>>
    /\ UNCHANGED <<heard, reported>>

\* Mutant: the evaluator does not await deliver().
Delivered_NotAwaited(p) == TRUE
Delivered(p) == \A u \in Urls : posts[p][u].pc = "settled"

\* The POST of the attempt under way, unless it has arrived.
Underway(p, u) == {m \in wire : m = Post(u, posts[p][u].n, posts[p][u].attempt)}

\* The receiver acts on a POST, whether its sender still waits or not.
Arrives(m) ==
    /\ m \in wire /\ wire' = wire \ {m}
    /\ heard' = [heard EXCEPT ![m.url][sent[m.n].rule] = [n |-> m.n, late |-> m.late]]
    /\ UNCHANGED <<vars, sent, posts, reported>>

\* A 2xx answer.
Acknowledged(p, u) ==
    /\ posts[p][u].pc = "fetching" /\ Underway(p, u) = {}
    /\ posts' = [posts EXCEPT ![p][u].pc = "settled"]
    /\ UNCHANGED <<vars, sent, wire, heard, reported>>

\* Another answer, a network error or the timeout: a POST that has not arrived
\* is lost or arrives late.  After the last attempt onError is called.
AttemptFails(p, u) ==
    /\ posts[p][u].pc = "fetching"
    /\ LET n     == posts[p][u].n
           next  == posts[p][u].attempt + 1
           again == next <= maxAttempts
       IN  /\ \E strays \in SUBSET {[m EXCEPT !.late = TRUE] : m \in Underway(p, u)} :
                 wire' = (wire \ Underway(p, u)) \cup strays
                         \cup (IF again THEN {Post(u, n, next)} ELSE {})
           /\ posts' = [posts EXCEPT ![p][u] = IF again THEN Fetching(n, next)
                                               ELSE [@ EXCEPT !.pc = "settled"]]
           /\ reported' = IF again THEN reported ELSE [reported EXCEPT ![u] = @ \cup {n}]
    /\ UNCHANGED <<vars, sent, heard>>

DeliveryNext ==
    \/ \E p \in PassSlots : Evaluated(p)
    \/ /\ \/ start \/ TimerFires \/ TimePasses
          \/ \E p \in PassSlots : RuleFails(p) \/ (Delivered(p) /\ DeliverySettles(p))
          \/ \E c \in Closers : close(c) \/ CloseReturns(c)
       /\ UNCHANGED deliveryVars
    \/ \E m \in wire : Arrives(m)
    \/ \E p \in PassSlots, u \in Urls : Acknowledged(p, u) \/ AttemptFails(p, u)

DeliverySpec == DeliveryInit /\ [][DeliveryNext]_allVars

-----------------------------------------------------------------------------
(***************************************************************************)
(* Because passes do not overlap and await their deliveries, a receiver    *)
(* hears of notifications in the order in which they were decided, those   *)
(* of different rules included: only a POST that its sender has given up   *)
(* can overtake, or be overtaken by, another.                              *)
(***************************************************************************)
ArrivesInOrder ==
    [][\A u \in Urls, r, s \in Ids :
         (heard'[u][r] # heard[u][r] /\ ~heard'[u][r].late /\ ~heard[u][s].late)
            => heard[u][s].n <= heard'[u][r].n]_allVars

(***************************************************************************)
(* Once the delivery of the last notification of a rule has ended, what a  *)
(* receiver has heard of the rule is what GET /api/alerts shows of it:     *)
(* unless the delivery was reported as failed there, or a POST that was    *)
(* given up has arrived since.                                             *)
(***************************************************************************)
ReceiversAgreeWithSnapshot ==
    \A r \in Ids, u \in Urls :
       LET about == {n \in DOMAIN sent : sent[n].rule = r}
           last  == CHOOSE n \in about : \A m \in about : m <= n
           ended == \A p \in PassSlots : posts[p][u].pc = "fetching" => posts[p][u].n # last
       IN  (about # {} /\ ended /\ last \notin reported[u] /\ ~heard[u][r].late)
             => /\ heard[u][r].n = last
                /\ states[r].status = (IF sent[last].event = "firing" THEN "firing" ELSE "ok")
=============================================================================
