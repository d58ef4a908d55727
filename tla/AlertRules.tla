----------------------------- MODULE AlertRules -----------------------------
(***************************************************************************)
(* packages/core/src/alerts/rules.ts: the pure part of alerting.  A rule   *)
(* is evaluated from a sample of the metrics, and a reducer decides from   *)
(* the rule's previous state and that evaluation whether to notify.        *)
(*                                                                         *)
(* Values and thresholds are exact rationals [num, den], because a failure *)
(* rate is a quotient; depths and latencies have denominator 1.            *)
(***************************************************************************)
EXTENDS Integers

NoEvent == "none"                 \* decision.kind = "none"
NoTime  == -1                     \* null in the code: no clock reads -1

Ratio(n, d) == [num |-> n, den |-> d]
Zero        == Ratio(0, 1)

Exceeds(a, b) == a.num * b.den > b.num * a.den

RatioType == [num : Int, den : Nat \ {0}]

RuleType == [id : STRING, type : {"failure_rate", "queue_depth", "latency"},
             threshold : RatioType, minSample : Nat, cooldown : Nat]

\* What the queries of evaluateRule return, one shape per rule type.
IsSampleOf(rule, s) ==
    /\ rule.type = "failure_rate" => s \in [completed : Nat, failed : Nat]
    /\ rule.type = "queue_depth"  => s \in [depth : Nat]
    /\ rule.type = "latency"      => s \in [count : Nat, percentile : Nat]

Evaluation(value, breached) == [value |-> value, breached |-> breached]

\* Mutant: the threshold itself counts as a breach.
evaluateFailureRate_AtThreshold(rule, s) ==
    LET total == s.completed + s.failed
        value == IF total > 0 THEN Ratio(s.failed, total) ELSE Zero
    IN  Evaluation(value, total >= rule.minSample /\ ~Exceeds(rule.threshold, value))

evaluateFailureRate(rule, s) ==
    LET total == s.completed + s.failed
        value == IF total > 0 THEN Ratio(s.failed, total) ELSE Zero
    IN  Evaluation(value, total >= rule.minSample /\ Exceeds(value, rule.threshold))

evaluateDepth(rule, s) ==
    LET value == Ratio(s.depth, 1)
    IN  Evaluation(value, Exceeds(value, rule.threshold))

evaluateLatency(rule, s) ==
    LET value == IF s.count > 0 THEN Ratio(s.percentile, 1) ELSE Zero
    IN  Evaluation(value, s.count > 0 /\ Exceeds(value, rule.threshold))

Evaluate(rule, s) ==
    CASE rule.type = "failure_rate" -> evaluateFailureRate(rule, s)
      [] rule.type = "queue_depth"  -> evaluateDepth(rule, s)
      [] rule.type = "latency"      -> evaluateLatency(rule, s)

-----------------------------------------------------------------------------
RuleState(status, first, last, value) ==
    [status |-> status, firstBreachAt |-> first, lastNotifiedAt |-> last,
     lastValue |-> value]

RuleStateType(Times) ==
    [status : {"ok", "firing"}, firstBreachAt : {NoTime} \cup Times,
     lastNotifiedAt : {NoTime} \cup Times, lastValue : RatioType]

INITIAL_RULE_STATE == RuleState("ok", NoTime, NoTime, Zero)

\* What decide returns: the event to notify, or NoEvent, and the next state.
Decision(event, next) == [event |-> event, next |-> next]

\* Whether a rule that is still firing may be repeated.  Mutant: always.
due_Always(prev, now, cooldown) == TRUE
due(prev, now, cooldown) ==
    \/ prev.lastNotifiedAt = NoTime
    \/ now - prev.lastNotifiedAt >= cooldown

\* prev.firstBreachAt ?? now.  Mutant: every breached pass restarts the breach.
breachedSince_Restarts(prev, now) == now
breachedSince(prev, now) ==
    IF prev.firstBreachAt = NoTime THEN now ELSE prev.firstBreachAt

decide(prev, ev, now, cooldown) ==
    CASE ev.breached /\ prev.status = "ok" ->
           Decision("firing", RuleState("firing", now, now, ev.value))
      [] ev.breached /\ prev.status = "firing" /\ due(prev, now, cooldown) ->
           Decision("firing",
                    RuleState("firing", breachedSince(prev, now), now, ev.value))
      [] ev.breached /\ prev.status = "firing" /\ ~due(prev, now, cooldown) ->
           Decision(NoEvent,
                    RuleState("firing", breachedSince(prev, now),
                              prev.lastNotifiedAt, ev.value))
      [] ~ev.breached /\ prev.status = "firing" ->
           Decision("resolved", RuleState("ok", NoTime, now, ev.value))
      [] ~ev.breached /\ prev.status = "ok" ->
           Decision(NoEvent, RuleState("ok", NoTime, prev.lastNotifiedAt, ev.value))
=============================================================================
