--------------------------- MODULE AlertEvaluator ---------------------------
(***************************************************************************)
(* packages/core/src/alerts/evaluator.ts: the background loop of alerting. *)
(* An interval timer starts evaluation passes; a pass walks the rules in   *)
(* order and awaits twice per rule, once for the metrics and once for the  *)
(* webhook delivery.  close() may come at any of those awaits.             *)
(*                                                                         *)
(* The metrics a rule is evaluated from are an input: any sample of        *)
(* Samples, or a failure of the read.  Delivery is one await here; what    *)
(* happens during it is module WebhookDelivery.                            *)
(***************************************************************************)
EXTENDS AlertRules, Sequences

CONSTANTS
    Rules,              \* config.rules, a sequence of rule records
    Samples,            \* Samples[i]: what reading the metrics of Rules[i] may return
    PassSlots,          \* room for concurrent calls of evaluateOnce
    Closers,            \* callers of close()
    NoPass,             \* inFlight before the first pass: a resolved promise
    Interval,           \* config.intervalMs
    MaxClock            \* bound of the model: the clock stops here

Ids == {Rules[i].id : i \in DOMAIN Rules}

ASSUME RulesAssumption ==
    /\ Rules \in Seq(RuleType)
    /\ Len(Rules) > 0
    /\ \A i \in DOMAIN Rules : \A s \in Samples[i] : IsSampleOf(Rules[i], s)
\* states is keyed by rule.id, and nothing in the code rejects a duplicate id:
\* two rules of one id would share a RuleState and resolve one another.
ASSUME DistinctIds ==
    \A i, j \in DOMAIN Rules : Rules[i].id = Rules[j].id => i = j
ASSUME ParameterAssumption ==
    /\ NoPass \notin PassSlots
    /\ Interval \in Nat \ {0}
    /\ MaxClock \in Nat

VARIABLES
    clock,              \* Date.now()
    timer,              \* when the interval timer is due; NoTime: this.timer is null
    closed,             \* this.closed
    running,            \* this.running
    inFlight,           \* this.inFlight: the slot of the pass it settles with
    states,             \* this.states, a missing entry read as INITIAL_RULE_STATE
    passes,             \* the activations of evaluateOnce: where each is suspended
    closers,            \* where each caller of close() is
    lastSent            \* observer: the last notification of each rule POSTed

evaluatorVars == <<timer, closed, running, inFlight, states, passes>>
vars == <<clock, evaluatorVars, closers, lastSent>>

Idle == [pc |-> "idle", now |-> 0, rule |-> 1]

Init ==
    /\ clock = 0
    /\ timer = NoTime
    /\ closed = FALSE
    /\ running = FALSE
    /\ inFlight = NoPass
    /\ states = [r \in Ids |-> INITIAL_RULE_STATE]
    /\ passes = [p \in PassSlots |-> Idle]
    /\ closers = [c \in Closers |-> "not called"]
    /\ lastSent = [r \in Ids |-> [event |-> NoEvent, at |-> NoTime, sentAt |-> NoTime]]

-----------------------------------------------------------------------------
start ==
    /\ timer = NoTime
    /\ ~closed
    /\ timer' = clock + Interval
    /\ UNCHANGED <<clock, closed, running, inFlight, states, passes, closers, lastSent>>

\* The synchronous head of evaluateOnce, up to its first await.
BeginPass(p) ==
    /\ passes[p].pc = "idle"
    /\ passes' = [passes EXCEPT ![p] = [pc |-> "reading", now |-> clock, rule |-> 1]]

\* Mutant: the interval does not look at `running`.
tick_Overlapping ==
    \E p \in PassSlots : BeginPass(p) /\ running' = TRUE /\ inFlight' = p

tick ==
    IF running \/ closed
    THEN UNCHANGED <<running, inFlight, passes>>
    ELSE \E p \in PassSlots :
           /\ BeginPass(p)
           /\ running' = TRUE
           /\ inFlight' = p

TimerFires ==
    /\ timer # NoTime
    /\ clock >= timer
    /\ timer' = clock + Interval
    /\ tick
    /\ UNCHANGED <<clock, closed, states, closers, lastSent>>

\* Mutant: the loop runs once more than there are rules.
NextRule_OneTooMany(p) ==
    /\ passes' = [passes EXCEPT ![p].pc = "reading", ![p].rule = @ + 1]
    /\ UNCHANGED running

\* The loop of evaluateOnce moves on; after the last rule the pass settles and
\* its finally() clears running.
NextRule(p) ==
    IF passes[p].rule < Len(Rules)
    THEN /\ passes' = [passes EXCEPT ![p].pc = "reading", ![p].rule = @ + 1]
         /\ UNCHANGED running
    ELSE /\ passes' = [passes EXCEPT ![p] = Idle]
         /\ running' = FALSE

\* Mutant: the notification is stamped with a fresh clock, the state is not.
Send_FreshClock(p, rule, event) ==
    /\ lastSent' = [lastSent EXCEPT ![rule.id] =
                      [event |-> event, at |-> clock, sentAt |-> clock]]
    /\ passes' = [passes EXCEPT ![p].pc = "delivering"]
    /\ UNCHANGED running

\* `await this.deliver(...)`: the POST leaves in the same step as states.set.
Send(p, rule, event) ==
    /\ lastSent' = [lastSent EXCEPT ![rule.id] =
                      [event |-> event, at |-> passes[p].now, sentAt |-> clock]]
    /\ passes' = [passes EXCEPT ![p].pc = "delivering"]
    /\ UNCHANGED running

\* evaluateRule answers: everything up to the next await is one step.
RuleEvaluated(p) ==
    /\ passes[p].pc = "reading"
    /\ \E s \in Samples[passes[p].rule] :
         LET rule     == Rules[passes[p].rule]
             decision == decide(states[rule.id], Evaluate(rule, s),
                                passes[p].now, rule.cooldown)
         IN  /\ states' = [states EXCEPT ![rule.id] = decision.next]
             /\ IF decision.event = NoEvent
                THEN NextRule(p) /\ UNCHANGED lastSent
                ELSE Send(p, rule, decision.event)
    /\ UNCHANGED <<clock, timer, closed, inFlight, closers>>

\* Mutant: the try block surrounds the loop, a failed read ends the pass.
RuleFails_EndsPass(p) ==
    /\ passes[p].pc = "reading"
    /\ passes' = [passes EXCEPT ![p] = Idle]
    /\ running' = FALSE
    /\ UNCHANGED <<clock, timer, closed, inFlight, states, closers, lastSent>>

\* The read fails: catch reports it, and the loop goes on.
RuleFails(p) ==
    /\ passes[p].pc = "reading"
    /\ NextRule(p)
    /\ UNCHANGED <<clock, timer, closed, inFlight, states, closers, lastSent>>

\* deliver resolves; it never rejects.
DeliverySettles(p) ==
    /\ passes[p].pc = "delivering"
    /\ NextRule(p)
    /\ UNCHANGED <<clock, timer, closed, inFlight, states, closers, lastSent>>

\* Mutant: close() does not await inFlight.
Settled_NotAwaited(promise) == TRUE

Settled(promise) ==
    promise \in PassSlots => passes[promise].pc = "idle"

close(c) ==
    /\ closers[c] = "not called"
    /\ closed' = TRUE
    /\ timer' = NoTime
    /\ closers' = [closers EXCEPT ![c] = "awaiting"]
    /\ UNCHANGED <<clock, running, inFlight, states, passes, lastSent>>

CloseReturns(c) ==
    /\ closers[c] = "awaiting"
    /\ Settled(inFlight)
    /\ closers' = [closers EXCEPT ![c] = "returned"]
    /\ UNCHANGED <<clock, evaluatorVars, lastSent>>

TimePasses ==
    /\ clock < MaxClock
    /\ clock' = clock + 1
    /\ UNCHANGED <<evaluatorVars, closers, lastSent>>

PassStep(p) == RuleEvaluated(p) \/ RuleFails(p) \/ DeliverySettles(p)

Next ==
    \/ start
    \/ TimerFires
    \/ TimePasses
    \/ \E p \in PassSlots : PassStep(p)
    \/ \E c \in Closers : close(c) \/ CloseReturns(c)

Spec == Init /\ [][Next]_vars

\* Redis answers or fails, and a delivery has a last attempt: every await of a
\* pass settles.  Nothing makes anyone call start or close.
Fairness ==
    /\ \A p \in PassSlots : WF_vars(PassStep(p))
    /\ \A c \in Closers : WF_vars(CloseReturns(c))

FairSpec == Spec /\ Fairness

-----------------------------------------------------------------------------
TimeType  == {NoTime} \cup (0..MaxClock)

\* Every variable keeps the type the class gives its field.
TypeOK ==
    /\ clock \in 0..MaxClock
    /\ timer \in {NoTime} \cup Nat
    /\ closed \in BOOLEAN
    /\ running \in BOOLEAN
    /\ inFlight \in PassSlots \cup {NoPass}
    /\ states \in [Ids -> RuleStateType(0..MaxClock)]
    /\ passes \in [PassSlots -> [pc : {"idle", "reading", "delivering"},
                                 now : 0..MaxClock, rule : DOMAIN Rules]]
    /\ closers \in [Closers -> {"not called", "awaiting", "returned"}]
    /\ lastSent \in [Ids -> [event : {NoEvent, "firing", "resolved"},
                             at : TimeType, sentAt : TimeType]]

\* Passes never overlap, although a pass can outlast many intervals and close()
\* can arrive in its middle: `running` is true exactly while one is under way,
\* and inFlight is then the promise of that one, the one close() must await.
OnePassAtATime ==
    \A p \in PassSlots : passes[p].pc # "idle" => running /\ inFlight = p

\* What GET /api/alerts shows of a rule (snapshot) is what the receivers of its
\* webhooks were last told, and from which time on: states.set and the POST are
\* never separated, whatever fails between two rules of a pass.
SnapshotAgreesWithNotifications ==
    \A r \in Ids :
        /\ states[r].status = "firing" <=> lastSent[r].event = "firing"
        /\ states[r].lastNotifiedAt = lastSent[r].at

\* A rule shown as firing shows since when, a time no later than its last
\* notification, and a value above its threshold; one shown ok shows no breach.
\* A failed read in any later pass leaves all of it as it was.
SnapshotCoherent ==
    \A i \in DOMAIN Rules :
        LET st == states[Rules[i].id]
        IN  IF st.status = "firing"
            THEN /\ 0 <= st.firstBreachAt
                 /\ st.firstBreachAt <= st.lastNotifiedAt
                 /\ st.lastNotifiedAt <= clock
                 /\ Exceeds(st.lastValue, Rules[i].threshold)
            ELSE st.firstBreachAt = NoTime

\* While a rule stays firing, the breach it is shown with never changes: repeats
\* of the notification carry the firstBreachAt of the first one (evaluator.ts
\* passes decision.next.firstBreachAt to buildNotification).
BreachStartStable ==
    [][\A r \in Ids :
         states[r].status = "firing" /\ states'[r].status = "firing"
           => states'[r].firstBreachAt = states[r].firstBreachAt]_vars

\* Once any close() has returned, the evaluator is inert: no pass resumes, no
\* rule state changes and nothing is POSTed, so the app may close the registry
\* whose queues a pass reads.
InertAfterClose ==
    [][(\E c \in Closers : closers[c] = "returned")
         => UNCHANGED <<timer, states, passes, lastSent>>]_vars

\* rules.ts:21 of cooldownMs: "Min ms between repeat notifications for the same
\* firing rule", read at the receiver: two POSTs of one firing rule are that
\* far apart in time.
RepeatsSpacedAtReceiver ==
    [][\A i \in DOMAIN Rules :
         LET before == lastSent[Rules[i].id]
             after  == lastSent'[Rules[i].id]
         IN  before # after /\ before.event = "firing" /\ after.event = "firing"
               => after.sentAt - before.sentAt >= Rules[i].cooldown]_vars

\* Notifications of a rule form episodes, spaced by the pass times they carry.
RuleOf(r) == Rules[CHOOSE i \in DOMAIN Rules : Rules[i].id = r]

toldEvents == [r \in Ids |-> lastSent[r].event]
toldTimes  == [r \in Ids |-> lastSent[r].at]

Episodes == INSTANCE AlertEpisodes WITH
    Cooldown <- [r \in Ids |-> RuleOf(r).cooldown],
    Times <- 0..MaxClock,
    told <- toldEvents,
    at <- toldTimes

\* The evaluator implements AlertEpisodes: a receiver sees firing, repeats at
\* least a cooldown apart, then one resolved, in the order of their times.
ImplementsEpisodes == Episodes!Spec

\* One bad rule must not stop the loop: a pass that starts comes to its last
\* rule, whichever reads fail on the way and even if close() comes meanwhile.
EveryRuleHasItsTurn ==
    \A p \in PassSlots :
        (passes[p].pc = "reading" /\ passes[p].rule = 1)
          ~> (passes[p].pc = "reading" /\ passes[p].rule = Len(Rules))

\* close() returns: the pass it awaits ends, and no new one keeps it waiting.
CloseTerminates ==
    \A c \in Closers : closers[c] = "awaiting" ~> closers[c] = "returned"

\* A pass comes to its last rule, one bad rule or not, and is then left by the
\* close() that awaits it.
PassesAndCloseEnd == EveryRuleHasItsTurn /\ CloseTerminates
=============================================================================
