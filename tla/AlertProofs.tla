----------------------------- MODULE AlertProofs -----------------------------
(***************************************************************************)
(* The safety of AlertEvaluator for every list of rules, every number of   *)
(* callers of close() and every horizon of the clock; and the order in     *)
(* which its notifications arrive (AlertDelivery), for every list of       *)
(* receivers and every number of attempts.                                 *)
(*                                                                         *)
(* The inductive invariant of the evaluator is IInv.  Its properties are   *)
(* not inductive alone: that firings are ordered in time needs that the    *)
(* pass under way began no earlier than the last notification, and that    *)
(* close() leaves the evaluator inert needs what `closed` excludes.  That  *)
(* of the notifications is IInv and DeliveryIInv: what is on its way is of *)
(* the last notification, unless its sender has given it up.               *)
(***************************************************************************)
EXTENDS AlertDelivery, DataInduction

-----------------------------------------------------------------------------
(* The evaluator. *)


\* The pass under way carries a time no notification has overtaken.
PassNotOvertaken ==
    /\ \A r \in Ids : states[r].lastNotifiedAt <= clock
    /\ \A p \in PassSlots : passes[p].pc # "idle" =>
          /\ passes[p].now <= clock
          /\ \A r \in Ids : states[r].lastNotifiedAt <= passes[p].now

\* What close() has done by the time a caller is in it, and has returned.
ClosedMeans ==
    /\ \A c \in Closers : closers[c] # "not called" => closed
    /\ closed => timer = NoTime
    /\ \A c \in Closers : closers[c] = "returned" =>
          \A p \in PassSlots : passes[p].pc = "idle"

IInv ==
    /\ TypeOK
    /\ OnePassAtATime
    /\ SnapshotAgreesWithNotifications
    /\ SnapshotCoherent
    /\ PassNotOvertaken
    /\ ClosedMeans

-----------------------------------------------------------------------------
(* The rules: what an evaluation is, and what decide makes of it. *)

EvaluationType == [value : RatioType, breached : BOOLEAN]

\* An evaluation has a value, and a breach is a value above the threshold.
LEMMA EvaluateLemma ==
    ASSUME NEW rule \in RuleType, NEW s, IsSampleOf(rule, s)
    PROVE  /\ Evaluate(rule, s) \in EvaluationType
           /\ Evaluate(rule, s).breached => Exceeds(Evaluate(rule, s).value, rule.threshold)
<1>1. CASE rule.type = "failure_rate"
  <2>1. s \in [completed : Nat, failed : Nat]
    BY <1>1 DEF IsSampleOf
  <2> DEFINE total == s.completed + s.failed
             value == IF total > 0 THEN Ratio(s.failed, total) ELSE Zero
  <2>2. value \in RatioType
    BY <2>1 DEF Ratio, Zero, RatioType
  <2>3. Exceeds(value, rule.threshold) \in BOOLEAN
    BY DEF Exceeds
  <2>4. Evaluate(rule, s) = evaluateFailureRate(rule, s)
    BY <1>1 DEF Evaluate
  <2> HIDE DEF value
  <2>5. evaluateFailureRate(rule, s) =
          Evaluation(value, total >= rule.minSample /\ Exceeds(value, rule.threshold))
    BY DEF evaluateFailureRate, value
  <2> QED
    BY <2>2, <2>3, <2>4, <2>5 DEF Evaluation, EvaluationType
<1>2. CASE rule.type = "queue_depth"
  <2> DEFINE value == Ratio(s.depth, 1)
  <2>1. Evaluate(rule, s) = evaluateDepth(rule, s)
    BY <1>2 DEF Evaluate
  <2>2. value \in RatioType
    BY <1>2 DEF IsSampleOf, Ratio, RatioType
  <2>3. Exceeds(value, rule.threshold) \in BOOLEAN
    BY DEF Exceeds
  <2> HIDE DEF value
  <2>4. evaluateDepth(rule, s) = Evaluation(value, Exceeds(value, rule.threshold))
    BY DEF evaluateDepth, value
  <2> QED
    BY <2>1, <2>2, <2>3, <2>4 DEF Evaluation, EvaluationType
<1>3. CASE rule.type = "latency"
  <2> DEFINE value == IF s.count > 0 THEN Ratio(s.percentile, 1) ELSE Zero
  <2>1. Evaluate(rule, s) = evaluateLatency(rule, s)
    BY <1>3 DEF Evaluate
  <2>2. value \in RatioType
    BY <1>3 DEF IsSampleOf, Ratio, Zero, RatioType
  <2>3. Exceeds(value, rule.threshold) \in BOOLEAN
    BY DEF Exceeds
  <2> HIDE DEF value
  <2>4. evaluateLatency(rule, s) =
          Evaluation(value, s.count > 0 /\ Exceeds(value, rule.threshold))
    BY DEF evaluateLatency, value
  <2> QED
    BY <2>1, <2>2, <2>3, <2>4 DEF Evaluation, EvaluationType
<1> QED
  BY <1>1, <1>2, <1>3 DEF RuleType

\* The next state stamps no time but now; a decision notifies exactly when it
\* changes the time of the last notification or the status.
SoundDecision(prev, ev, now, cooldown, d) ==
    /\ d.event \in {NoEvent, "firing", "resolved"}
    /\ d.next \in RuleStateType(0..MaxClock)
    /\ d.next.status = (IF ev.breached THEN "firing" ELSE "ok")
    /\ d.next.lastValue = ev.value
    /\ d.event # NoEvent =>
         /\ d.next.lastNotifiedAt = now
         /\ d.event = "firing" <=> ev.breached
    /\ d.event = NoEvent =>
         /\ d.next.lastNotifiedAt = prev.lastNotifiedAt
         /\ d.next.status = prev.status
    /\ d.event = "resolved" => prev.status = "firing"
    /\ d.event = "firing" /\ prev.status = "firing" => due(prev, now, cooldown)
    /\ ~ev.breached => d.next.firstBreachAt = NoTime
    /\ ev.breached /\ prev.status = "ok" => d.next.firstBreachAt = now
    /\ ev.breached /\ prev.status = "firing" =>
         d.next.firstBreachAt = breachedSince(prev, now)

\* decide keeps the type of a rule's state and makes sound decisions only.
LEMMA DecideLemma ==
    ASSUME NEW prev \in RuleStateType(0..MaxClock), NEW ev \in EvaluationType,
           NEW now \in 0..MaxClock, NEW cooldown \in Nat
    PROVE  SoundDecision(prev, ev, now, cooldown, decide(prev, ev, now, cooldown))
<1> DEFINE decision == decide(prev, ev, now, cooldown)
           Times == 0..MaxClock
<1> SUFFICES SoundDecision(prev, ev, now, cooldown, decision)
  OBVIOUS
<1> HIDE DEF decision
<1> USE DEF Decision, RuleState, RuleStateType, EvaluationType, NoEvent, SoundDecision
<1>0. due(prev, now, cooldown) \in BOOLEAN
  BY DEF due
<1>1. breachedSince(prev, now) \in {NoTime} \cup Times
  BY DEF breachedSince
<1>2. CASE ev.breached /\ prev.status = "ok"
  <2>1. decision = Decision("firing", RuleState("firing", now, now, ev.value))
    BY <1>2 DEF decide, decision
  <2> QED BY <2>1, <1>2
<1>3. CASE ev.breached /\ prev.status = "firing" /\ due(prev, now, cooldown)
  <2>1. decision = Decision("firing",
                     RuleState("firing", breachedSince(prev, now), now, ev.value))
    BY <1>3 DEF decide, decision
  <2> QED BY <2>1, <1>3, <1>1
<1>4. CASE ev.breached /\ prev.status = "firing" /\ ~due(prev, now, cooldown)
  <2>1. decision = Decision(NoEvent,
                     RuleState("firing", breachedSince(prev, now),
                               prev.lastNotifiedAt, ev.value))
    BY <1>4 DEF decide, decision
  <2> QED BY <2>1, <1>4, <1>1
<1>5. CASE ~ev.breached /\ prev.status = "firing"
  <2>1. decision = Decision("resolved", RuleState("ok", NoTime, now, ev.value))
    BY <1>5 DEF decide, decision
  <2> QED BY <2>1, <1>5
<1>6. CASE ~ev.breached /\ prev.status = "ok"
  <2>1. decision = Decision(NoEvent,
                     RuleState("ok", NoTime, prev.lastNotifiedAt, ev.value))
    BY <1>6 DEF decide, decision
  <2> QED BY <2>1, <1>6
<1> QED
  BY <1>0, <1>2, <1>3, <1>4, <1>5, <1>6

-----------------------------------------------------------------------------
(* The inductive invariant. *)

\* config.rules as the passes index it.
LEMMA RulesLemma ==
    /\ DOMAIN Rules = 1..Len(Rules)
    /\ Len(Rules) \in Nat \ {0}
    /\ \A i \in DOMAIN Rules : Rules[i] \in RuleType /\ Rules[i].id \in Ids
    /\ \A r \in Ids : \E i \in DOMAIN Rules : Rules[i].id = r
BY RulesAssumption DEF Ids

\* What a missing entry of `states` is read as.
LEMMA InitialStateLemma == INITIAL_RULE_STATE \in RuleStateType(0..MaxClock)
BY DEF INITIAL_RULE_STATE, RuleState, RuleStateType, Zero, Ratio, RatioType

\* Nothing runs, fires or was sent initially.
THEOREM InitIInv == Init => IInv
<1> SUFFICES ASSUME Init PROVE IInv
  OBVIOUS
<1>1. TypeOK
  <2>1. Idle \in [pc : {"idle", "reading", "delivering"}, now : 0..MaxClock,
                  rule : DOMAIN Rules]
    BY RulesLemma, ParameterAssumption DEF Idle
  <2>2. 0 \in 0..MaxClock
    BY ParameterAssumption
  <2>3. closed \in BOOLEAN /\ running \in BOOLEAN
    BY Zenon DEF Init
  <2>4. passes = [p \in PassSlots |-> Idle]
    BY DEF Init
  <2>5. states = [r \in Ids |-> INITIAL_RULE_STATE]
    BY DEF Init
  <2>6. /\ clock = 0 /\ timer = NoTime /\ inFlight = NoPass
        /\ closers = [c \in Closers |-> "not called"]
        /\ lastSent = [r \in Ids |->
              [event |-> NoEvent, at |-> NoTime, sentAt |-> NoTime]]
    BY DEF Init
  <2> QED
    BY <2>1, <2>2, <2>3, <2>4, <2>5, <2>6, InitialStateLemma DEF TypeOK, TimeType
<1>2. OnePassAtATime /\ ClosedMeans
  BY DEF Init, OnePassAtATime, ClosedMeans, Idle
<1>3. \A r \in Ids : /\ states[r].status = "ok"
                     /\ states[r].firstBreachAt = NoTime
                     /\ states[r].lastNotifiedAt = NoTime
                     /\ lastSent[r].event = NoEvent
                     /\ lastSent[r].at = NoTime
  BY DEF Init, INITIAL_RULE_STATE, RuleState
<1>4. SnapshotAgreesWithNotifications
  BY <1>3 DEF SnapshotAgreesWithNotifications, NoEvent
<1>5. SnapshotCoherent
  BY <1>3, RulesLemma DEF SnapshotCoherent
<1>6. PassNotOvertaken
  <2>1. clock = 0 /\ \A p \in PassSlots : passes[p].pc = "idle"
    BY DEF Init, Idle
  <2> QED
    BY <1>3, <2>1 DEF PassNotOvertaken, NoTime
<1> QED
  BY <1>1, <1>2, <1>4, <1>5, <1>6 DEF IInv

\* Clock readings are natural numbers, and times at least integers.
LEMMA ClockFacts ==
    ASSUME IInv
    PROVE  /\ clock \in Nat
           /\ \A p \in PassSlots : passes[p].now \in Nat
           /\ \A r \in Ids : states[r].lastNotifiedAt \in Int
<1>1. clock \in 0..MaxClock
  BY DEF IInv, TypeOK
<1>2. \A p \in PassSlots : passes[p].now \in 0..MaxClock
  BY DEF IInv, TypeOK
<1>3. \A r \in Ids : states[r] \in RuleStateType(0..MaxClock)
  BY DEF IInv, TypeOK
<1>4. \A r \in Ids : states[r].lastNotifiedAt \in {NoTime} \cup 0..MaxClock
  BY <1>3 DEF RuleStateType
<1>5. NoTime \in Int
  BY DEF NoTime
<1> QED
  BY <1>1, <1>2, <1>4, <1>5

\* The next due time of the interval timer.
LEMMA TimerFacts ==
    ASSUME IInv
    PROVE  clock + Interval \in Nat
BY ClockFacts, ParameterAssumption

\* What a step of the pass p may do to the passes: keep p at its time or end it.
PassMoves(p) ==
    /\ passes' \in [PassSlots -> [pc : {"idle", "reading", "delivering"},
                                 now : 0..MaxClock, rule : DOMAIN Rules]]
    /\ running' \in BOOLEAN
    /\ \A q \in PassSlots : passes'[q].pc # "idle" =>
          q = p /\ running' /\ passes'[q].now = passes[p].now

\* On to the next rule, or the end of the pass, whose finally() clears running.
LEMMA NextRuleMoves ==
    ASSUME TypeOK, OnePassAtATime, NEW p \in PassSlots, passes[p].pc # "idle", NextRule(p)
    PROVE  PassMoves(p)
<1>1. \A q \in PassSlots : q # p => passes[q].pc = "idle"
  BY DEF OnePassAtATime
<1>2. running /\ running \in BOOLEAN
  BY DEF OnePassAtATime, TypeOK
<1>3. CASE passes[p].rule < Len(Rules)
  <2>1. passes' = [passes EXCEPT ![p].pc = "reading", ![p].rule = @ + 1]
    BY <1>3 DEF NextRule
  <2>2. running' = running
    BY <1>3 DEF NextRule
  <2>3. passes[p].rule + 1 \in DOMAIN Rules
    <3>1. passes[p].rule \in 1..Len(Rules)
      BY RulesLemma DEF TypeOK
    <3>2. passes[p].rule + 1 \in 1..Len(Rules)
      BY <3>1, <1>3, RulesLemma
    <3> QED
      BY <3>2, RulesLemma
  <2>4. passes' \in [PassSlots -> [pc : {"idle", "reading", "delivering"},
                                  now : 0..MaxClock, rule : DOMAIN Rules]]
    BY <2>1, <2>3 DEF TypeOK
  <2>5. \A q \in PassSlots : passes'[q].pc # "idle" =>
           q = p /\ passes'[q].now = passes[p].now
    BY <1>1, <2>1 DEF TypeOK
  <2> QED
    BY <1>2, <2>2, <2>4, <2>5 DEF PassMoves
<1>4. CASE ~(passes[p].rule < Len(Rules))
  <2>1. passes' = [passes EXCEPT ![p] = Idle]
    BY <1>4 DEF NextRule
  <2>2. running' \in BOOLEAN
    BY <1>4, Zenon DEF NextRule
  <2>3. Idle \in [pc : {"idle", "reading", "delivering"}, now : 0..MaxClock,
                  rule : DOMAIN Rules]
    BY RulesLemma, ParameterAssumption DEF Idle
  <2>4. passes' \in [PassSlots -> [pc : {"idle", "reading", "delivering"},
                                  now : 0..MaxClock, rule : DOMAIN Rules]]
    BY <2>1, <2>3 DEF TypeOK
  <2>5. \A q \in PassSlots : passes'[q].pc = "idle"
    BY <1>1, <2>1 DEF TypeOK, Idle
  <2> QED
    BY <2>2, <2>4, <2>5 DEF PassMoves
<1> QED
  BY <1>3, <1>4

\* A notification leaves: the pass awaits its delivery.
LEMMA SendMoves ==
    ASSUME TypeOK, OnePassAtATime, NEW p \in PassSlots, passes[p].pc # "idle",
           NEW rule, NEW event, Send(p, rule, event)
    PROVE  PassMoves(p)
BY DEF TypeOK, OnePassAtATime, PassMoves, Send

\* What holds of the passes and of close() after a step of the pass p.
LEMMA MovesKeepPasses ==
    ASSUME TypeOK, OnePassAtATime, ClosedMeans, NEW p \in PassSlots,
           passes[p].pc # "idle", PassMoves(p),
           UNCHANGED <<timer, closed, inFlight, closers>>
    PROVE  OnePassAtATime' /\ ClosedMeans'
<1>1. OnePassAtATime'
  BY DEF TypeOK, OnePassAtATime, PassMoves
<1>2. ClosedMeans'
  <2>1. \A c \in Closers : closers[c] # "returned"
    BY DEF ClosedMeans
  <2> QED
    BY <2>1 DEF ClosedMeans
<1> QED
  BY <1>1, <1>2

\* A step of a pass that leaves the states alone.
LEMMA SilentMoveKeepsIInv ==
    ASSUME IInv, NEW p \in PassSlots, passes[p].pc # "idle", NextRule(p),
           UNCHANGED <<clock, timer, closed, inFlight, states, closers, lastSent>>
    PROVE  IInv'
<1>1. PassMoves(p)
  BY NextRuleMoves DEF IInv
<1>2. TypeOK'
  BY <1>1 DEF IInv, TypeOK, PassMoves
<1>3. OnePassAtATime' /\ ClosedMeans'
  BY <1>1, MovesKeepPasses DEF IInv
<1>4. SnapshotAgreesWithNotifications' /\ SnapshotCoherent'
  BY DEF IInv, SnapshotAgreesWithNotifications, SnapshotCoherent
<1>5. PassNotOvertaken'
  BY <1>1 DEF IInv, PassNotOvertaken, PassMoves
<1> QED
  BY <1>2, <1>3, <1>4, <1>5 DEF IInv

\* A rule of the list is found again by its id.
LEMMA RuleOfLemma == \A i \in DOMAIN Rules : RuleOf(Rules[i].id) = Rules[i]
BY DistinctIds DEF RuleOf

\* What evaluating one rule does to everything but the passes: the decision, the
\* rule's state and the observer agree.
RuleDecided(p) ==
    \E s \in Samples[passes[p].rule] :
      LET rule     == Rules[passes[p].rule]
          decision == decide(states[rule.id], Evaluate(rule, s),
                             passes[p].now, rule.cooldown)
      IN  /\ states' = [states EXCEPT ![rule.id] = decision.next]
          /\ lastSent' = IF decision.event = NoEvent THEN lastSent
                         ELSE [lastSent EXCEPT ![rule.id] =
                                 [event |-> decision.event, at |-> passes[p].now,
                                  sentAt |-> clock]]

\* An evaluated rule has the state decide makes of it, and only this one moves.
LEMMA RuleEvaluatedDecides ==
    ASSUME TypeOK, OnePassAtATime, NEW p \in PassSlots, RuleEvaluated(p)
    PROVE  /\ passes[p].pc # "idle"
           /\ PassMoves(p)
           /\ RuleDecided(p)
           /\ UNCHANGED <<clock, timer, closed, inFlight, closers>>
<1>1. passes[p].pc # "idle" /\ UNCHANGED <<clock, timer, closed, inFlight, closers>>
  BY DEF RuleEvaluated
<1> DEFINE rule == Rules[passes[p].rule]
           decision(s) == decide(states[rule.id], Evaluate(rule, s),
                                 passes[p].now, rule.cooldown)
<1>2. PICK s \in Samples[passes[p].rule] :
         /\ states' = [states EXCEPT ![rule.id] = decision(s).next]
         /\ IF decision(s).event = NoEvent
            THEN NextRule(p) /\ UNCHANGED lastSent
            ELSE Send(p, rule, decision(s).event)
  BY DEF RuleEvaluated
<1> HIDE DEF rule
<1>3. CASE decision(s).event = NoEvent
  <2>1. PassMoves(p)
    BY <1>1, <1>2, <1>3, NextRuleMoves
  <2>2. lastSent' = lastSent
    BY <1>2, <1>3
  <2> QED
    BY <1>1, <1>2, <1>3, <2>1, <2>2 DEF RuleDecided, rule
<1>4. CASE decision(s).event # NoEvent
  <2>1. Send(p, rule, decision(s).event)
    BY <1>2, <1>4
  <2>2. PassMoves(p)
    BY <1>1, <2>1, SendMoves
  <2>3. lastSent' = [lastSent EXCEPT ![rule.id] =
                       [event |-> decision(s).event, at |-> passes[p].now,
                        sentAt |-> clock]]
    BY <2>1 DEF Send
  <2> QED
    BY <1>1, <1>2, <1>4, <2>2, <2>3 DEF RuleDecided, rule
<1> QED
  BY <1>3, <1>4

\* The three state properties, the order of times, the stability of a breach and
\* the step of AlertEpisodes, from what deciding one rule does.
LEMMA DecidedLemma ==
    ASSUME IInv, NEW p \in PassSlots, passes[p].pc # "idle", RuleDecided(p),
           clock' = clock
    PROVE  /\ states' \in [Ids -> RuleStateType(0..MaxClock)]
           /\ lastSent' \in [Ids -> [event : {NoEvent, "firing", "resolved"},
                                     at : TimeType, sentAt : TimeType]]
           /\ SnapshotAgreesWithNotifications'
           /\ SnapshotCoherent'
           /\ \A r \in Ids : states'[r].lastNotifiedAt <= passes[p].now
           /\ \A r \in Ids :
                states[r].status = "firing" /\ states'[r].status = "firing"
                  => states'[r].firstBreachAt = states[r].firstBreachAt
           /\ [Episodes!Next]_<<toldEvents, toldTimes>>
<1> DEFINE i    == passes[p].rule
           rule == Rules[i]
           r    == rule.id
           prev == states[r]
           now  == passes[p].now
<1>1. /\ i \in DOMAIN Rules /\ rule \in RuleType /\ r \in Ids
      /\ now \in 0..MaxClock /\ clock \in 0..MaxClock /\ now <= clock
      /\ prev \in RuleStateType(0..MaxClock)
      /\ rule.cooldown \in Nat
  <2>1. i \in DOMAIN Rules /\ now \in 0..MaxClock /\ clock \in 0..MaxClock
    BY DEF IInv, TypeOK
  <2>2. rule \in RuleType /\ r \in Ids
    BY <2>1, RulesLemma
  <2>3. prev \in RuleStateType(0..MaxClock)
    BY <2>2 DEF IInv, TypeOK
  <2>4. now <= clock
    BY DEF IInv, PassNotOvertaken
  <2> QED
    BY <2>1, <2>2, <2>3, <2>4 DEF RuleType
<1>2. /\ prev.lastNotifiedAt <= now
      /\ prev.status = "firing" <=> lastSent[r].event = "firing"
      /\ prev.lastNotifiedAt = lastSent[r].at
      /\ prev.status = "firing" =>
            0 <= prev.firstBreachAt /\ prev.firstBreachAt <= prev.lastNotifiedAt
  BY <1>1 DEF IInv, PassNotOvertaken, SnapshotAgreesWithNotifications, SnapshotCoherent
<1>3. PICK s \in Samples[i] :
        LET d == decide(prev, Evaluate(rule, s), now, rule.cooldown)
        IN  /\ states' = [states EXCEPT ![r] = d.next]
            /\ lastSent' = IF d.event = NoEvent THEN lastSent
                           ELSE [lastSent EXCEPT ![r] =
                                   [event |-> d.event, at |-> now, sentAt |-> clock]]
  BY DEF RuleDecided
<1> DEFINE ev == Evaluate(rule, s)
           d  == decide(prev, ev, now, rule.cooldown)
<1>4. ev \in EvaluationType /\ (ev.breached => Exceeds(ev.value, rule.threshold))
  <2>1. IsSampleOf(rule, s)
    BY <1>1, RulesAssumption
  <2> QED
    BY <1>1, <2>1, EvaluateLemma
<1> HIDE DEF rule, ev, d, i
<1>5. /\ d.event \in {NoEvent, "firing", "resolved"}
      /\ d.next \in RuleStateType(0..MaxClock)
      /\ d.next.status = (IF ev.breached THEN "firing" ELSE "ok")
      /\ d.next.lastValue = ev.value
      /\ d.event # NoEvent =>
           /\ d.next.lastNotifiedAt = now
           /\ d.event = "firing" <=> ev.breached
      /\ d.event = NoEvent =>
           /\ d.next.lastNotifiedAt = prev.lastNotifiedAt
           /\ d.next.status = prev.status
      /\ d.event = "resolved" => prev.status = "firing"
      /\ d.event = "firing" /\ prev.status = "firing" =>
           due(prev, now, rule.cooldown)
      /\ ~ev.breached => d.next.firstBreachAt = NoTime
      /\ ev.breached /\ prev.status = "ok" => d.next.firstBreachAt = now
      /\ ev.breached /\ prev.status = "firing" =>
           d.next.firstBreachAt = breachedSince(prev, now)
  <2>1. SoundDecision(prev, ev, now, rule.cooldown, d)
    BY <1>1, <1>4, DecideLemma DEF d
  <2> HIDE DEF prev, now
  <2> QED
    BY <2>1 DEF SoundDecision
<1>6. states' = [states EXCEPT ![r] = d.next]
  BY <1>3 DEF d, ev
<1>7. lastSent' = IF d.event = NoEvent THEN lastSent
                  ELSE [lastSent EXCEPT ![r] =
                          [event |-> d.event, at |-> now, sentAt |-> clock]]
  BY <1>3 DEF d, ev
<1>8. prev.status = "firing" => breachedSince(prev, now) = prev.firstBreachAt
  BY <1>2 DEF breachedSince, NoTime
<1>9. states' \in [Ids -> RuleStateType(0..MaxClock)]
  BY <1>1, <1>5, <1>6 DEF IInv, TypeOK
<1>10. lastSent' \in [Ids -> [event : {NoEvent, "firing", "resolved"},
                              at : TimeType, sentAt : TimeType]]
  BY <1>1, <1>5, <1>7 DEF IInv, TypeOK, TimeType
<1>11. \A q \in Ids : q # r => states'[q] = states[q] /\ lastSent'[q] = lastSent[q]
  BY <1>1, <1>6, <1>7 DEF IInv, TypeOK
<1>12. /\ states'[r] = d.next
       /\ d.event = NoEvent => lastSent'[r] = lastSent[r]
       /\ d.event # NoEvent => lastSent'[r].event = d.event /\ lastSent'[r].at = now
  BY <1>1, <1>6, <1>7 DEF IInv, TypeOK
<1>13. SnapshotAgreesWithNotifications'
  <2>1. \A q \in Ids : q # r =>
           /\ states'[q].status = "firing" <=> lastSent'[q].event = "firing"
           /\ states'[q].lastNotifiedAt = lastSent'[q].at
    BY <1>11 DEF IInv, SnapshotAgreesWithNotifications
  <2>2. /\ states'[r].status = "firing" <=> lastSent'[r].event = "firing"
        /\ states'[r].lastNotifiedAt = lastSent'[r].at
    BY <1>2, <1>5, <1>12
  <2> QED
    BY <2>1, <2>2 DEF SnapshotAgreesWithNotifications
<1>14. d.next.status = "firing" =>
         /\ 0 <= d.next.firstBreachAt
         /\ d.next.firstBreachAt <= d.next.lastNotifiedAt
         /\ d.next.lastNotifiedAt <= clock
         /\ Exceeds(d.next.lastValue, rule.threshold)
  <2>1. CASE ev.breached /\ prev.status = "ok"
    <3>1. d.event # NoEvent
      BY <1>5, <2>1
    <3> QED
      BY <1>1, <1>4, <1>5, <2>1, <3>1
  <2>2. CASE ev.breached /\ prev.status = "firing"
    <3>1. /\ d.next.firstBreachAt = prev.firstBreachAt
          /\ d.next.lastNotifiedAt \in {now, prev.lastNotifiedAt}
          /\ Exceeds(d.next.lastValue, rule.threshold)
      BY <1>4, <1>5, <1>8, <2>2
    <3>2. prev.firstBreachAt \in Int /\ prev.lastNotifiedAt \in Int
      BY <1>1 DEF RuleStateType, NoTime
    <3> QED
      BY <1>1, <1>2, <2>2, <3>1, <3>2
  <2>3. CASE ~ev.breached
    BY <1>5, <2>3
  <2> QED
    BY <1>1, <2>1, <2>2, <2>3 DEF RuleStateType
<1>15. SnapshotCoherent'
  <2> SUFFICES ASSUME NEW j \in DOMAIN Rules
               PROVE  LET st == states'[Rules[j].id]
                      IN  IF st.status = "firing"
                          THEN /\ 0 <= st.firstBreachAt
                               /\ st.firstBreachAt <= st.lastNotifiedAt
                               /\ st.lastNotifiedAt <= clock'
                               /\ Exceeds(st.lastValue, Rules[j].threshold)
                          ELSE st.firstBreachAt = NoTime
    BY DEF SnapshotCoherent
  <2>1. CASE j = i
    <3>1. Rules[j].id = r /\ Rules[j] = rule
      BY <2>1 DEF rule
    <3>2. d.next.status # "firing" => d.next.firstBreachAt = NoTime
      BY <1>5
    <3> QED
      BY <1>12, <1>14, <3>1, <3>2
  <2>2. CASE j # i
    <3>1. Rules[j].id # r /\ Rules[j].id \in Ids
      BY <1>1, <2>2, DistinctIds, RulesLemma DEF rule
    <3> QED
      BY <1>11, <3>1 DEF IInv, SnapshotCoherent
  <2> QED
    BY <2>1, <2>2
<1>16. \A q \in Ids : states'[q].lastNotifiedAt <= now
  <2>1. states'[r].lastNotifiedAt <= now
    BY <1>1, <1>2, <1>5, <1>12
  <2>2. \A q \in Ids : states[q].lastNotifiedAt <= now
    BY DEF IInv, PassNotOvertaken
  <2> QED
    BY <1>11, <2>1, <2>2
<1>17. \A q \in Ids :
          states[q].status = "firing" /\ states'[q].status = "firing"
            => states'[q].firstBreachAt = states[q].firstBreachAt
  <2>1. prev.status = "firing" /\ d.next.status = "firing"
          => d.next.firstBreachAt = prev.firstBreachAt
    BY <1>5, <1>8
  <2> QED
    BY <1>11, <1>12, <2>1
<1>18. [Episodes!Next]_<<toldEvents, toldTimes>>
  <2>1. CASE d.event = NoEvent
    BY <1>7, <2>1 DEF toldEvents, toldTimes
  <2>2. CASE d.event # NoEvent
    <3>1. /\ toldEvents' = [toldEvents EXCEPT ![r] = d.event]
          /\ toldTimes' = [toldTimes EXCEPT ![r] = now]
      BY <1>1, <1>11, <1>12, <2>2 DEF toldEvents, toldTimes
    <3>2. toldEvents[r] = lastSent[r].event /\ toldTimes[r] = lastSent[r].at
      BY <1>1 DEF toldEvents, toldTimes
    <3>3. now >= toldTimes[r]
      BY <1>1, <1>2, <3>2 DEF RuleStateType, NoTime
    <3>4. CASE d.event = "firing" /\ prev.status = "ok"
      <4>1. Episodes!Open(r, now)
        BY <1>2, <3>1, <3>2, <3>3, <3>4 DEF Episodes!Open, Episodes!Tell
      <4> QED
        BY <1>1, <4>1 DEF Episodes!Next
    <3>5. CASE d.event = "firing" /\ prev.status = "firing"
      <4>1. now - toldTimes[r] >= rule.cooldown
        <5>1. due(prev, now, rule.cooldown)
          BY <1>5, <3>5
        <5>2. prev.lastNotifiedAt # NoTime
          BY <1>1, <1>2, <3>5 DEF RuleStateType, NoTime
        <5>3. now - prev.lastNotifiedAt >= rule.cooldown
          BY <5>1, <5>2 DEF due
        <5> QED
          BY <1>2, <3>2, <5>3
      <4>2. [q \in Ids |-> RuleOf(q).cooldown][r] = rule.cooldown
        BY <1>1, RuleOfLemma DEF rule
      <4>3. Episodes!Repeat(r, now)
        BY <1>2, <3>1, <3>2, <3>5, <4>1, <4>2 DEF Episodes!Repeat, Episodes!Tell
      <4> QED
        BY <1>1, <4>3 DEF Episodes!Next
    <3>6. CASE d.event = "resolved"
      <4>1. Episodes!Resolve(r, now)
        BY <1>2, <1>5, <3>1, <3>2, <3>3, <3>6 DEF Episodes!Resolve, Episodes!Tell
      <4> QED
        BY <1>1, <4>1 DEF Episodes!Next
    <3>7. prev.status \in {"ok", "firing"}
      BY <1>1 DEF RuleStateType
    <3> QED
      BY <1>5, <2>2, <3>4, <3>5, <3>6, <3>7
  <2> QED
    BY <2>1, <2>2
<1> QED
  BY <1>9, <1>10, <1>13, <1>15, <1>16, <1>17, <1>18

\* The step from one await of a pass to the next.
LEMMA RuleEvaluatedKeepsIInv ==
    ASSUME IInv, NEW p \in PassSlots, RuleEvaluated(p)
    PROVE  IInv'
<1>1. /\ passes[p].pc # "idle" /\ PassMoves(p) /\ RuleDecided(p)
      /\ UNCHANGED <<clock, timer, closed, inFlight, closers>>
  BY RuleEvaluatedDecides DEF IInv
<1>2. /\ states' \in [Ids -> RuleStateType(0..MaxClock)]
      /\ lastSent' \in [Ids -> [event : {NoEvent, "firing", "resolved"},
                                at : TimeType, sentAt : TimeType]]
      /\ SnapshotAgreesWithNotifications'
      /\ SnapshotCoherent'
      /\ \A r \in Ids : states'[r].lastNotifiedAt <= passes[p].now
  BY <1>1, DecidedLemma
<1>3. TypeOK'
  BY <1>1, <1>2 DEF IInv, TypeOK, PassMoves
<1>4. OnePassAtATime' /\ ClosedMeans'
  BY <1>1, MovesKeepPasses DEF IInv
<1>5. PassNotOvertaken'
  <2>1. passes[p].now <= clock /\ passes[p].now \in Nat /\ clock \in Nat
    BY <1>1, ClockFacts DEF IInv, PassNotOvertaken
  <2>2. \A r \in Ids : states'[r].lastNotifiedAt \in Int
    BY <1>2 DEF RuleStateType, NoTime
  <2>3. \A r \in Ids : states'[r].lastNotifiedAt <= clock'
    BY <1>1, <1>2, <2>1, <2>2
  <2>4. \A q \in PassSlots : passes'[q].pc # "idle" => passes'[q].now = passes[p].now
    BY <1>1 DEF PassMoves
  <2> QED
    BY <1>1, <1>2, <2>1, <2>3, <2>4 DEF PassNotOvertaken
<1> QED
  BY <1>2, <1>3, <1>4, <1>5 DEF IInv

\* A step that leaves the passes, the states and the observer alone.
LEMMA StatesKeptLemma ==
    ASSUME IInv, UNCHANGED <<clock, states, passes, running, inFlight, lastSent>>
    PROVE  /\ OnePassAtATime'
           /\ SnapshotAgreesWithNotifications'
           /\ SnapshotCoherent'
           /\ PassNotOvertaken'
BY DEF IInv, OnePassAtATime, SnapshotAgreesWithNotifications, SnapshotCoherent,
       PassNotOvertaken

\* start() sets the timer of an evaluator that is not closed.
LEMMA StartKeepsIInv ==
    ASSUME IInv, start PROVE IInv'
<1>1. UNCHANGED <<clock, closed, running, inFlight, states, passes, closers, lastSent>>
  BY DEF start
<1>2. ~closed /\ timer' = clock + Interval
  BY DEF start
<1>3. TypeOK'
  <2>1. timer' \in {NoTime} \cup Nat
    BY <1>2, TimerFacts
  <2> QED
    BY <1>1, <2>1 DEF IInv, TypeOK
<1>4. ClosedMeans'
  BY <1>1, <1>2 DEF IInv, ClosedMeans
<1> QED
  BY <1>1, <1>3, <1>4, StatesKeptLemma DEF IInv

\* The interval timer: it begins a pass only when none is under way, with a time
\* no earlier than any notification.
LEMMA TimerFiresKeepsIInv ==
    ASSUME IInv, TimerFires PROVE IInv'
<1>1. /\ timer # NoTime /\ timer' = clock + Interval
      /\ UNCHANGED <<clock, closed, states, closers, lastSent>>
  BY DEF TimerFires
<1>2. ~closed
  BY <1>1 DEF IInv, ClosedMeans
<1>3. timer' \in {NoTime} \cup Nat
  BY <1>1, TimerFacts
<1>4. ClosedMeans'
  BY <1>1, <1>2 DEF IInv, ClosedMeans
<1>5. SnapshotAgreesWithNotifications' /\ SnapshotCoherent'
  BY <1>1 DEF IInv, SnapshotAgreesWithNotifications, SnapshotCoherent
<1>6. CASE running
  <2>1. UNCHANGED <<running, inFlight, passes>>
    BY <1>6 DEF TimerFires, tick
  <2>2. TypeOK'
    BY <1>1, <1>3, <2>1 DEF IInv, TypeOK
  <2> QED
    BY <1>1, <1>4, <2>1, <2>2, StatesKeptLemma DEF IInv
<1>7. CASE ~running
  <2>1. PICK p \in PassSlots : BeginPass(p) /\ running' = TRUE /\ inFlight' = p
    BY <1>2, <1>7 DEF TimerFires, tick
  <2>2. \A q \in PassSlots : passes[q].pc = "idle"
    BY <1>7 DEF IInv, OnePassAtATime
  <2>3. passes' = [passes EXCEPT ![p] = [pc |-> "reading", now |-> clock, rule |-> 1]]
    BY <2>1 DEF BeginPass
  <2>4. TypeOK'
    <3>1. 1 \in DOMAIN Rules
      BY RulesLemma
    <3>2. passes' \in [PassSlots -> [pc : {"idle", "reading", "delivering"},
                                     now : 0..MaxClock, rule : DOMAIN Rules]]
      BY <2>3, <3>1 DEF IInv, TypeOK
    <3>3. running' \in BOOLEAN /\ inFlight' \in PassSlots \cup {NoPass}
      BY <2>1
    <3> QED
      BY <1>1, <1>3, <3>2, <3>3 DEF IInv, TypeOK
  <2>5. \A q \in PassSlots : passes'[q].pc # "idle" => q = p /\ passes'[q].now = clock
    BY <2>2, <2>3 DEF IInv, TypeOK
  <2>6. running' /\ inFlight' = p
    BY <2>1
  <2>7. OnePassAtATime'
    BY <2>5, <2>6 DEF OnePassAtATime
  <2>8. PassNotOvertaken'
    <3>1. clock \in Nat
      BY ClockFacts
    <3> QED
      BY <1>1, <2>5, <3>1 DEF IInv, PassNotOvertaken
  <2> QED
    BY <1>4, <1>5, <2>4, <2>7, <2>8 DEF IInv
<1> QED
  BY <1>6, <1>7

\* Time only makes notifications older.
LEMMA TimePassesKeepsIInv ==
    ASSUME IInv, TimePasses PROVE IInv'
<1>1. /\ clock < MaxClock /\ clock' = clock + 1
      /\ UNCHANGED <<timer, closed, running, inFlight, states, passes, closers, lastSent>>
  BY DEF TimePasses, evaluatorVars
<1>2. clock \in Nat /\ clock' \in 0..MaxClock /\ clock <= clock'
  BY <1>1, ClockFacts, ParameterAssumption
<1>3. TypeOK'
  BY <1>1, <1>2 DEF IInv, TypeOK
<1>4. OnePassAtATime' /\ SnapshotAgreesWithNotifications' /\ ClosedMeans'
  BY <1>1 DEF IInv, OnePassAtATime, SnapshotAgreesWithNotifications, ClosedMeans
<1>5. \A r \in Ids : states[r].lastNotifiedAt \in Int /\ states[r].lastNotifiedAt <= clock
  BY ClockFacts DEF IInv, PassNotOvertaken
<1>6. SnapshotCoherent'
  <2>1. \A r \in Ids : states[r].lastNotifiedAt <= clock'
    BY <1>2, <1>5
  <2> QED
    BY <1>1, <2>1, RulesLemma DEF IInv, SnapshotCoherent
<1>7. PassNotOvertaken'
  <2>1. \A r \in Ids : states[r].lastNotifiedAt <= clock'
    BY <1>2, <1>5
  <2>2. \A p \in PassSlots : passes[p].now \in Nat
    BY ClockFacts
  <2>3. \A p \in PassSlots : passes[p].pc # "idle" =>
          /\ passes[p].now <= clock'
          /\ \A r \in Ids : states[r].lastNotifiedAt <= passes[p].now
    BY <1>2, <2>2 DEF IInv, PassNotOvertaken
  <2> QED
    BY <1>1, <2>1, <2>3 DEF PassNotOvertaken
<1> QED
  BY <1>3, <1>4, <1>6, <1>7 DEF IInv

\* close() clears the timer and begins to await the pass under way.
LEMMA CloseKeepsIInv ==
    ASSUME IInv, NEW c \in Closers, close(c) PROVE IInv'
<1>1. /\ closed' /\ closed' \in BOOLEAN /\ timer' = NoTime
      /\ closers' = [closers EXCEPT ![c] = "awaiting"]
      /\ UNCHANGED <<clock, running, inFlight, states, passes, lastSent>>
  BY DEF close
<1>2. TypeOK'
  BY <1>1 DEF IInv, TypeOK
<1>3. ClosedMeans'
  <2>1. \A d \in Closers : closers'[d] = "returned" => closers[d] = "returned"
    BY <1>1 DEF IInv, TypeOK
  <2> QED
    BY <1>1, <2>1 DEF IInv, ClosedMeans
<1> QED
  BY <1>1, <1>2, <1>3, StatesKeptLemma DEF IInv

\* close() returns when the pass it awaits has settled, and that is the only one.
LEMMA CloseReturnsKeepsIInv ==
    ASSUME IInv, NEW c \in Closers, CloseReturns(c) PROVE IInv'
<1>1. /\ closers[c] = "awaiting"
      /\ closers' = [closers EXCEPT ![c] = "returned"]
      /\ UNCHANGED <<clock, timer, closed, running, inFlight, states, passes, lastSent>>
  BY DEF CloseReturns, evaluatorVars
<1>2. \A p \in PassSlots : passes[p].pc = "idle"
  BY DEF CloseReturns, Settled, IInv, OnePassAtATime
<1>3. TypeOK'
  BY <1>1 DEF IInv, TypeOK
<1>4. ClosedMeans'
  <2>1. closed /\ timer = NoTime
    BY <1>1 DEF IInv, ClosedMeans
  <2> QED
    BY <1>1, <1>2, <2>1 DEF ClosedMeans
<1> QED
  BY <1>1, <1>3, <1>4, StatesKeptLemma DEF IInv

\* Every step keeps the inductive invariant.
THEOREM NextIInv == IInv /\ [Next]_vars => IInv'
<1> SUFFICES ASSUME IInv, [Next]_vars PROVE IInv'
  OBVIOUS
<1>1. CASE start
  BY <1>1, StartKeepsIInv
<1>2. CASE TimerFires
  BY <1>2, TimerFiresKeepsIInv
<1>3. CASE TimePasses
  BY <1>3, TimePassesKeepsIInv
<1>4. ASSUME NEW p \in PassSlots, RuleEvaluated(p) PROVE IInv'
  BY <1>4, RuleEvaluatedKeepsIInv
<1>5. ASSUME NEW p \in PassSlots, RuleFails(p) PROVE IInv'
  BY <1>5, SilentMoveKeepsIInv DEF RuleFails
<1>6. ASSUME NEW p \in PassSlots, DeliverySettles(p) PROVE IInv'
  BY <1>6, SilentMoveKeepsIInv DEF DeliverySettles
<1>7. ASSUME NEW c \in Closers, close(c) PROVE IInv'
  BY <1>7, CloseKeepsIInv
<1>8. ASSUME NEW c \in Closers, CloseReturns(c) PROVE IInv'
  BY <1>8, CloseReturnsKeepsIInv
<1>9. CASE UNCHANGED vars
  BY <1>9 DEF vars, evaluatorVars, IInv, TypeOK, OnePassAtATime,
     SnapshotAgreesWithNotifications, SnapshotCoherent, PassNotOvertaken, ClosedMeans
<1> QED
  BY <1>1, <1>2, <1>3, <1>4, <1>5, <1>6, <1>7, <1>8, <1>9 DEF Next, PassStep

\* The inductive invariant holds throughout every behaviour of the evaluator.
THEOREM SpecIInv == Spec => []IInv
BY InitIInv, NextIInv, PTL DEF Spec

-----------------------------------------------------------------------------
(* The properties. *)

\* The fields of AlertEvaluator keep their types, for every list of rules.
THEOREM TypeCorrect == Spec => []TypeOK
BY SpecIInv, PTL DEF IInv

\* The guard of tick keeps passes from overlapping, and inFlight is always the
\* promise of the pass under way.
THEOREM PassesNeverOverlap == Spec => []OnePassAtATime
BY SpecIInv, PTL DEF IInv

\* What snapshot() returns of a rule is what its receivers were last told.
THEOREM SnapshotIsWhatWasSent == Spec => []SnapshotAgreesWithNotifications
BY SpecIInv, PTL DEF IInv

\* What snapshot() returns of a firing rule is ordered in time and breached.
THEOREM SnapshotMakesSense == Spec => []SnapshotCoherent
BY SpecIInv, PTL DEF IInv

\* decide never moves the start of a breach while the rule stays firing.
THEOREM BreachStartNeverMoves == Spec => BreachStartStable
<1> DEFINE Stable == \A r \in Ids :
         states[r].status = "firing" /\ states'[r].status = "firing"
           => states'[r].firstBreachAt = states[r].firstBreachAt
<1>1. IInv /\ [Next]_vars => Stable
  <2> SUFFICES ASSUME IInv, [Next]_vars PROVE Stable
    OBVIOUS
  <2>1. ASSUME NEW p \in PassSlots, RuleEvaluated(p) PROVE Stable
    <3>1. passes[p].pc # "idle" /\ RuleDecided(p) /\ clock' = clock
      BY <2>1, RuleEvaluatedDecides DEF IInv
    <3> QED
      BY <3>1, DecidedLemma
  <2>2. CASE UNCHANGED states
    BY <2>2
  <2>3. \/ \E p \in PassSlots : RuleEvaluated(p)
        \/ UNCHANGED states
    BY DEF Next, PassStep, start, TimerFires, TimePasses, RuleFails, DeliverySettles,
       close, CloseReturns, vars, evaluatorVars
  <2> QED
    BY <2>1, <2>2, <2>3
<1> QED
  BY <1>1, SpecIInv, PTL DEF Spec, BreachStartStable

\* After a close() has returned no pass resumes, and nothing is POSTed.
THEOREM ClosedIsInert == Spec => InertAfterClose
<1> DEFINE Inert == (\E c \in Closers : closers[c] = "returned")
                      => UNCHANGED <<timer, states, passes, lastSent>>
<1>1. IInv /\ [Next]_vars => Inert
  <2> SUFFICES ASSUME IInv, [Next]_vars, NEW c \in Closers, closers[c] = "returned"
               PROVE  UNCHANGED <<timer, states, passes, lastSent>>
    OBVIOUS
  <2>1. closed /\ timer = NoTime /\ \A p \in PassSlots : passes[p].pc = "idle"
    BY DEF IInv, ClosedMeans
  <2>2. ~start /\ ~TimerFires
    BY <2>1 DEF start, TimerFires
  <2>3. \A p \in PassSlots : ~PassStep(p)
    BY <2>1 DEF PassStep, RuleEvaluated, RuleFails, DeliverySettles
  <2>4. ASSUME NEW d \in Closers, close(d)
        PROVE  UNCHANGED <<timer, states, passes, lastSent>>
    BY <2>1, <2>4 DEF close
  <2>5. ASSUME NEW d \in Closers, CloseReturns(d)
        PROVE  UNCHANGED <<timer, states, passes, lastSent>>
    BY <2>5 DEF CloseReturns, evaluatorVars
  <2>6. TimePasses \/ UNCHANGED vars => UNCHANGED <<timer, states, passes, lastSent>>
    BY DEF TimePasses, vars, evaluatorVars
  <2> QED
    BY <2>2, <2>3, <2>4, <2>5, <2>6 DEF Next
<1> QED
  BY <1>1, SpecIInv, PTL DEF Spec, InertAfterClose

\* The evaluator implements AlertEpisodes: its initial states are initial there,
\* and every step is a notification of AlertEpisodes or a stutter.
THEOREM EvaluatorImplementsEpisodes == Spec => ImplementsEpisodes
<1>1. Init => Episodes!Init
  <2> SUFFICES ASSUME Init PROVE Episodes!Init
    OBVIOUS
  <2>1. lastSent = [r \in Ids |->
           [event |-> NoEvent, at |-> NoTime, sentAt |-> NoTime]]
    BY DEF Init
  <2>2. toldEvents = [r \in Ids |-> NoEvent] /\ toldTimes = [r \in Ids |-> NoTime]
    BY <2>1 DEF toldEvents, toldTimes
  <2> QED
    BY <2>2 DEF Episodes!Init, Episodes!NoNotification, NoEvent, NoTime
<1>2. IInv /\ [Next]_vars => [Episodes!Next]_<<toldEvents, toldTimes>>
  <2> SUFFICES ASSUME IInv, [Next]_vars
               PROVE  [Episodes!Next]_<<toldEvents, toldTimes>>
    OBVIOUS
  <2>1. ASSUME NEW p \in PassSlots, RuleEvaluated(p)
        PROVE  [Episodes!Next]_<<toldEvents, toldTimes>>
    <3>1. passes[p].pc # "idle" /\ RuleDecided(p) /\ clock' = clock
      BY <2>1, RuleEvaluatedDecides DEF IInv
    <3> QED
      BY <3>1, DecidedLemma
  <2>2. CASE UNCHANGED lastSent
    BY <2>2 DEF toldEvents, toldTimes
  <2>3. \/ \E p \in PassSlots : RuleEvaluated(p)
        \/ UNCHANGED lastSent
    BY DEF Next, PassStep, start, TimerFires, TimePasses, RuleFails, DeliverySettles,
       close, CloseReturns, vars, evaluatorVars
  <2> QED
    BY <2>1, <2>2, <2>3
<1> QED
  BY <1>1, <1>2, SpecIInv, PTL DEF Spec, ImplementsEpisodes, Episodes!Spec

-----------------------------------------------------------------------------
(* The notifications on their way. *)

\* A notification, its activations and its POSTs.
NotificationType == [rule : Ids, event : {NoEvent, "firing", "resolved"}]
ActivationType == [pc : {"settled", "fetching"}, n : Nat, attempt : Nat]
PostType == [url : Urls, n : Nat, attempt : Nat, late : BOOLEAN]
HeardType == [n : Nat, late : BOOLEAN]

DeliveryTypeOK ==
    /\ sent \in Seq(NotificationType)
    /\ posts \in [PassSlots -> [Urls -> ActivationType]]
    /\ wire \subseteq PostType
    /\ heard \in [Urls -> [Ids -> HeardType]]
    /\ reported \in [Urls -> SUBSET Nat]

\* Only the pass that delivers has activations under way, of the last notification.
FetchesTheLast ==
    \A p \in PassSlots, u \in Urls : posts[p][u].pc = "fetching" =>
        passes[p].pc = "delivering" /\ posts[p][u].n = Len(sent) /\ Len(sent) > 0

\* A POST is of a notification, and of an attempt under way unless it is late.
OnTheWire ==
    \A m \in wire :
        /\ m.n \in DOMAIN sent
        /\ m.late = FALSE =>
              \E p \in PassSlots : /\ posts[p][m.url].pc = "fetching"
                                   /\ m = Post(m.url, posts[p][m.url].n, posts[p][m.url].attempt)

\* What has been heard of a rule was sent of it.
HeardWasSent ==
    \A u \in Urls, r \in Ids : heard[u][r].n <= Len(sent)

\* The POST of an attempt under way is on the wire or has arrived.
PostedOrHeard ==
    \A p \in PassSlots, u \in Urls : posts[p][u].pc = "fetching" =>
        LET n == posts[p][u].n
            r == sent[n].rule
        IN  \/ Post(u, n, posts[p][u].attempt) \in wire
            \/ heard[u][r].late = TRUE
            \/ heard[u][r].n = n

\* n is the last notification of its rule.
IsLast(n) == n \in DOMAIN sent /\ \A m \in DOMAIN sent : sent[m].rule = sent[n].rule => m <= n

\* The last notification of a rule is what lastSent has, and has been heard, or reported,
\* or is being delivered.
LastIsAccountedFor ==
    \A n \in DOMAIN sent : IsLast(n) =>
        /\ lastSent[sent[n].rule].event = sent[n].event
        /\ \A u \in Urls :
              \/ \E p \in PassSlots : posts[p][u].pc = "fetching" /\ posts[p][u].n = n
              \/ n \in reported[u]
              \/ heard[u][sent[n].rule].late = TRUE
              \/ heard[u][sent[n].rule].n = n

DeliveryIInv ==
    /\ DeliveryTypeOK /\ FetchesTheLast /\ OnTheWire /\ HeardWasSent
    /\ PostedOrHeard /\ LastIsAccountedFor

-----------------------------------------------------------------------------
\* The notifications that were sent.
LEMMA SentFacts ==
    ASSUME DeliveryTypeOK
    PROVE  /\ Len(sent) \in Nat /\ DOMAIN sent = 1..Len(sent)
           /\ \A n \in DOMAIN sent : sent[n].rule \in Ids /\ n \in Nat /\ n <= Len(sent)
<1>1. sent \in Seq(NotificationType)
  BY DEF DeliveryTypeOK
<1>2. Len(sent) \in Nat /\ DOMAIN sent = 1..Len(sent)
  BY <1>1
<1>3. \A n \in DOMAIN sent : sent[n] \in NotificationType
  BY <1>1
<1>4. \A n \in DOMAIN sent : sent[n].rule \in Ids
  BY <1>3 DEF NotificationType
<1> QED
  BY <1>2, <1>4

\* At most one pass has activations under way.
LEMMA OneFetches ==
    ASSUME IInv, FetchesTheLast, NEW p \in PassSlots, NEW q \in PassSlots,
           NEW u \in Urls, NEW v \in Urls,
           posts[p][u].pc = "fetching", posts[q][v].pc = "fetching"
    PROVE  p = q
BY DEF IInv, OnePassAtATime, FetchesTheLast

\* A step of the evaluator that sends nothing, and settles no pass before its deliveries.
LEMMA SilentKeepsDelivery ==
    ASSUME DeliveryIInv, UNCHANGED deliveryVars, lastSent' = lastSent,
           \A p \in PassSlots, u \in Urls : posts[p][u].pc = "fetching" => passes'[p].pc = "delivering"
    PROVE  DeliveryIInv'
<1>1. UNCHANGED <<sent, posts, wire, heard, reported>>
  BY DEF deliveryVars
<1>2. DeliveryTypeOK' /\ OnTheWire' /\ HeardWasSent' /\ PostedOrHeard'
  BY <1>1 DEF DeliveryIInv, DeliveryTypeOK, OnTheWire, HeardWasSent, PostedOrHeard
<1>3. FetchesTheLast'
  BY <1>1 DEF DeliveryIInv, FetchesTheLast
<1>4. LastIsAccountedFor'
  BY <1>1 DEF DeliveryIInv, LastIsAccountedFor, IsLast
<1> QED
  BY <1>2, <1>3, <1>4 DEF DeliveryIInv

\* A step of a pass moves this pass only.
LEMMA OthersStay ==
    ASSUME IInv, NEW p \in PassSlots, NextRule(p), NEW q \in PassSlots, q # p
    PROVE  passes'[q] = passes[q]
BY DEF NextRule, IInv, TypeOK

\* The steps of the evaluator that send nothing.
LEMMA EvaluatorKeepsDelivery ==
    ASSUME IInv, DeliveryIInv, UNCHANGED deliveryVars,
           \/ start \/ TimerFires \/ TimePasses
           \/ \E p \in PassSlots : RuleFails(p) \/ (Delivered(p) /\ DeliverySettles(p))
           \/ \E c \in Closers : close(c) \/ CloseReturns(c)
    PROVE  DeliveryIInv'
<1> USE DEF DeliveryIInv, FetchesTheLast
<1>1. CASE start \/ TimePasses \/ \E c \in Closers : close(c) \/ CloseReturns(c)
  <2>1. lastSent' = lastSent /\ passes' = passes
    BY <1>1 DEF start, TimePasses, close, CloseReturns, evaluatorVars
  <2> QED
    BY <2>1, SilentKeepsDelivery
<1>2. CASE TimerFires
  <2>1. lastSent' = lastSent
    BY <1>2 DEF TimerFires
  <2>2. ASSUME NEW q \in PassSlots, passes[q].pc = "delivering" PROVE passes'[q].pc = "delivering"
    <3>1. CASE passes' = passes
      BY <2>2, <3>1
    <3>2. ASSUME NEW p \in PassSlots, BeginPass(p) PROVE passes'[q] = passes[q]
      BY <2>2, <3>2 DEF BeginPass, IInv, TypeOK
    <3> QED
      BY <1>2, <2>2, <3>1, <3>2 DEF TimerFires, tick
  <2> QED
    BY <2>1, <2>2, SilentKeepsDelivery
<1>3. ASSUME NEW p \in PassSlots, RuleFails(p) PROVE DeliveryIInv'
  <2>1. lastSent' = lastSent /\ passes[p].pc = "reading" /\ NextRule(p)
    BY <1>3 DEF RuleFails
  <2>2. \A q \in PassSlots, u \in Urls :
           posts[q][u].pc = "fetching" => q # p /\ passes'[q] = passes[q]
    BY <2>1, OthersStay
  <2> QED
    BY <2>1, <2>2, SilentKeepsDelivery
<1>4. ASSUME NEW p \in PassSlots, Delivered(p), DeliverySettles(p) PROVE DeliveryIInv'
  <2>1. lastSent' = lastSent /\ NextRule(p)
    BY <1>4 DEF DeliverySettles
  <2>2. \A q \in PassSlots, u \in Urls :
           posts[q][u].pc = "fetching" => q # p /\ passes'[q] = passes[q]
    BY <1>4, <2>1, OthersStay DEF Delivered
  <2> QED
    BY <2>1, <2>2, SilentKeepsDelivery
<1> QED
  BY <1>1, <1>2, <1>3, <1>4

\* A pass that has evaluated a rule goes on, or has sent a notification of it.
LEMMA EvaluatedMoves ==
    ASSUME IInv, NEW p \in PassSlots, RuleEvaluated(p)
    PROVE  LET r == Rules[passes[p].rule].id
           IN  /\ r \in Ids /\ passes[p].pc = "reading"
               /\ \A q \in PassSlots : q # p => passes'[q] = passes[q]
               /\ \A i \in Ids : i # r => lastSent'[i] = lastSent[i]
               /\ passes'[p].pc # "delivering" => lastSent' = lastSent
<1> DEFINE rule == Rules[passes[p].rule]
<1>1. passes[p].rule \in DOMAIN Rules
  BY DEF IInv, TypeOK
<1>2. rule.id \in Ids
  BY <1>1, RulesLemma
<1>3. passes[p].pc = "reading"
  BY DEF RuleEvaluated
<1> HIDE DEF rule
<1>4. PICK event : (NextRule(p) /\ UNCHANGED lastSent) \/ Send(p, rule, event)
  BY DEF RuleEvaluated, rule
<1>5. CASE NextRule(p) /\ UNCHANGED lastSent
  BY <1>2, <1>3, <1>5, OthersStay DEF rule
<1>6. CASE Send(p, rule, event)
  <2>1. /\ passes' = [passes EXCEPT ![p].pc = "delivering"]
        /\ lastSent' = [lastSent EXCEPT ![rule.id] =
                          [event |-> event, at |-> passes[p].now, sentAt |-> clock]]
    BY <1>6 DEF Send
  <2>2. passes'[p].pc = "delivering" /\ \A q \in PassSlots : q # p => passes'[q] = passes[q]
    BY <2>1 DEF IInv, TypeOK
  <2>3. \A i \in Ids : i # rule.id => lastSent'[i] = lastSent[i]
    BY <2>1 DEF IInv, TypeOK
  <2> QED
    BY <1>2, <1>3, <2>2, <2>3 DEF rule
<1> QED
  BY <1>4, <1>5, <1>6

\* A notification is sent: all its first attempts are on the wire, and nothing else was
\* under way.
LEMMA EvaluatedKeepsDelivery ==
    ASSUME IInv, IInv', DeliveryIInv, NEW p \in PassSlots, Evaluated(p)
    PROVE  DeliveryIInv'
<1> DEFINE r == Rules[passes[p].rule].id
           note == [rule |-> r, event |-> lastSent'[r].event]
<1>0. RuleEvaluated(p) /\ UNCHANGED <<heard, reported>>
  BY DEF Evaluated
<1>1. /\ r \in Ids /\ passes[p].pc = "reading"
      /\ \A q \in PassSlots : q # p => passes'[q] = passes[q]
      /\ \A i \in Ids : i # r => lastSent'[i] = lastSent[i]
      /\ passes'[p].pc # "delivering" => lastSent' = lastSent
  BY <1>0, EvaluatedMoves
<1>2. \A q \in PassSlots, u \in Urls : posts[q][u].pc # "fetching"
  <2> SUFFICES ASSUME NEW q \in PassSlots, NEW u \in Urls, posts[q][u].pc = "fetching" PROVE FALSE
    OBVIOUS
  <2>1. passes[q].pc = "delivering"
    BY DEF DeliveryIInv, FetchesTheLast
  <2> QED
    BY <1>1, <2>1 DEF IInv, OnePassAtATime
<1>3. CASE passes'[p].pc # "delivering"
  <2>1. UNCHANGED deliveryVars /\ lastSent' = lastSent
    BY <1>0, <1>1, <1>3 DEF Evaluated, deliveryVars
  <2> QED
    BY <1>2, <2>1, SilentKeepsDelivery
<1>4. CASE passes'[p].pc = "delivering"
  <2>0. PICK n \in Nat : n = Len(sent) + 1
    BY SentFacts DEF DeliveryIInv
  <2>1. /\ sent' = Append(sent, note)
        /\ posts' = [posts EXCEPT ![p] = [u \in Urls |-> Fetching(n, 1)]]
        /\ wire' = wire \cup {Post(u, n, 1) : u \in Urls}
        /\ heard' = heard /\ reported' = reported
    BY <1>0, <1>4, <2>0 DEF Evaluated
  <2>2. note \in NotificationType /\ note.rule = r /\ note.event = lastSent'[r].event
    BY <1>1 DEF NotificationType, IInv, TypeOK
  <2> HIDE DEF note, r
  <2>3. /\ sent' \in Seq(NotificationType) /\ Len(sent') = n /\ DOMAIN sent' = 1..n
        /\ DOMAIN sent = 1..(n - 1) /\ n \in DOMAIN sent' /\ n > 0
        /\ sent'[n] = note /\ \A m \in DOMAIN sent : m \in DOMAIN sent' /\ sent'[m] = sent[m] /\ m < n
        /\ \A m \in DOMAIN sent' : m = n \/ m \in DOMAIN sent
    BY <2>0, <2>1, <2>2 DEF DeliveryIInv, DeliveryTypeOK
  <2>4. \A u \in Urls : Fetching(n, 1) \in ActivationType /\ Post(u, n, 1) \in PostType
    BY DEF Fetching, Post, ActivationType, PostType
  <2>5. DeliveryTypeOK'
    BY <2>1, <2>3, <2>4 DEF DeliveryIInv, DeliveryTypeOK
  <2>6. /\ \A u \in Urls : posts'[p][u] = Fetching(n, 1)
        /\ \A q \in PassSlots : q # p => posts'[q] = posts[q]
    BY <2>1 DEF DeliveryIInv, DeliveryTypeOK
  <2>7. Fetching(n, 1).pc = "fetching" /\ Fetching(n, 1).n = n /\ Fetching(n, 1).attempt = 1
    BY DEF Fetching
  <2>8. \A q \in PassSlots, u \in Urls :
           posts'[q][u].pc = "fetching" => q = p /\ posts'[q][u] = Fetching(n, 1)
    BY <1>2, <2>6
  <2>9. FetchesTheLast'
    BY <1>4, <2>3, <2>7, <2>8 DEF FetchesTheLast
  <2>10. OnTheWire'
    <3>1. ASSUME NEW m \in wire
          PROVE  m.n \in DOMAIN sent' /\ m.late # FALSE
      BY <1>2, <2>3, <3>1 DEF DeliveryIInv, OnTheWire, DeliveryTypeOK, PostType
    <3>2. ASSUME NEW u \in Urls
          PROVE  /\ Post(u, n, 1).n \in DOMAIN sent' /\ Post(u, n, 1).url = u
                 /\ posts'[p][u].pc = "fetching"
                 /\ Post(u, n, 1) = Post(u, posts'[p][u].n, posts'[p][u].attempt)
      BY <2>3, <2>6, <2>7 DEF Post
    <3>3. ASSUME NEW m \in wire'
          PROVE  /\ m.n \in DOMAIN sent'
                 /\ m.late = FALSE =>
                       \E q \in PassSlots :
                          /\ posts'[q][m.url].pc = "fetching"
                          /\ m = Post(m.url, posts'[q][m.url].n, posts'[q][m.url].attempt)
      <4>1. CASE m \in wire
        BY <3>1, <4>1
      <4>2. ASSUME NEW u \in Urls, m = Post(u, n, 1)
            PROVE  /\ m.n \in DOMAIN sent'
                   /\ \E q \in PassSlots :
                          /\ posts'[q][m.url].pc = "fetching"
                          /\ m = Post(m.url, posts'[q][m.url].n, posts'[q][m.url].attempt)
        BY <3>2, <4>2
      <4> QED
        BY <2>1, <4>1, <4>2
    <3> QED
      BY <3>3 DEF OnTheWire
  <2>11. HeardWasSent'
    <3>1. \A u \in Urls, i \in Ids : heard[u][i].n <= n - 1 /\ heard[u][i].n \in Nat
      <4>1. n - 1 = Len(sent)
        BY <2>0, SentFacts DEF DeliveryIInv
      <4> QED
        BY <4>1 DEF DeliveryIInv, HeardWasSent, DeliveryTypeOK, HeardType
    <3>2. \A u \in Urls, i \in Ids : heard[u][i].n <= n
      BY <3>1
    <3> QED
      BY <2>1, <2>3, <3>2 DEF HeardWasSent
  <2>12. PostedOrHeard'
    <3> SUFFICES ASSUME NEW q \in PassSlots, NEW u \in Urls, posts'[q][u].pc = "fetching"
                 PROVE  Post(u, posts'[q][u].n, posts'[q][u].attempt) \in wire'
      BY DEF PostedOrHeard
    <3>1. posts'[q][u].n = n /\ posts'[q][u].attempt = 1
      BY <2>7, <2>8
    <3> QED
      BY <2>1, <3>1
  <2>13. LastIsAccountedFor'
    <3> SUFFICES ASSUME NEW m \in DOMAIN sent', IsLast(m)'
                 PROVE  /\ lastSent'[sent'[m].rule].event = sent'[m].event
                        /\ \A u \in Urls :
                              \/ \E q \in PassSlots : posts'[q][u].pc = "fetching" /\ posts'[q][u].n = m
                              \/ m \in reported[u]
                              \/ heard[u][sent'[m].rule].late = TRUE
                              \/ heard[u][sent'[m].rule].n = m
      BY <2>1 DEF LastIsAccountedFor
    <3>1. CASE m = n
      <4>1. lastSent'[sent'[m].rule].event = sent'[m].event
        BY <2>2, <2>3, <3>1
      <4>2. \A u \in Urls : posts'[p][u].pc = "fetching" /\ posts'[p][u].n = m
        BY <2>6, <2>7, <3>1
      <4> QED
        BY <4>1, <4>2
    <3>2. CASE m # n
      <4>1. m \in DOMAIN sent /\ sent'[m] = sent[m] /\ m < n
        BY <2>3, <3>2
      <4>2. sent[m].rule # r
        <5>1. ~(n <= m)
          BY <2>3, <4>1
        <5> QED
          BY <2>2, <2>3, <4>1, <5>1 DEF IsLast
      <4>3. IsLast(m)
        BY <2>3, <4>1 DEF IsLast
      <4>4. sent[m].rule \in Ids
        BY <4>1, SentFacts DEF DeliveryIInv
      <4>5. lastSent'[sent[m].rule] = lastSent[sent[m].rule]
        BY <1>1, <4>2, <4>4 DEF r
      <4> QED
        BY <1>2, <4>1, <4>3, <4>5 DEF DeliveryIInv, LastIsAccountedFor
    <3> QED
      BY <3>1, <3>2
  <2> QED
    BY <2>5, <2>9, <2>10, <2>11, <2>12, <2>13 DEF DeliveryIInv
<1> QED
  BY <1>3, <1>4

\* A POST arrives: a late one says so, and one in time is of the last notification.
LEMMA ArrivesKeepsDelivery ==
    ASSUME IInv, DeliveryIInv, NEW m \in wire, Arrives(m)
    PROVE  /\ DeliveryIInv'
           /\ \A u \in Urls, i \in Ids : heard'[u][i] # heard[u][i] =>
                 heard'[u][i].n = m.n /\ heard'[u][i].late = m.late
           /\ m.late = FALSE => m.n = Len(sent)
<1> DEFINE r == sent[m.n].rule
           fact == [n |-> m.n, late |-> m.late]
<1>1. /\ wire' = wire \ {m} /\ heard' = [heard EXCEPT ![m.url][r] = fact]
      /\ UNCHANGED <<vars, sent, posts, reported>>
  BY DEF Arrives
<1>2. m \in PostType /\ m.n \in DOMAIN sent /\ r \in Ids /\ m.url \in Urls
  BY SentFacts DEF DeliveryIInv, DeliveryTypeOK, OnTheWire, PostType
<1>3. fact \in HeardType /\ fact.n = m.n /\ fact.late = m.late /\ m.late \in {TRUE, FALSE}
  BY <1>2 DEF PostType, HeardType
<1> HIDE DEF fact, r
<1>4. /\ heard' \in [Urls -> [Ids -> HeardType]]
      /\ heard'[m.url][r] = fact
      /\ \A u \in Urls, i \in Ids : <<u, i>> # <<m.url, r>> => heard'[u][i] = heard[u][i]
  BY <1>1, <1>2, <1>3 DEF DeliveryIInv, DeliveryTypeOK
<1>5. lastSent' = lastSent /\ passes' = passes /\ sent' = sent /\ posts' = posts /\ reported' = reported
  BY <1>1 DEF vars, evaluatorVars
<1>6. DeliveryTypeOK'
  BY <1>1, <1>4, <1>5 DEF DeliveryIInv, DeliveryTypeOK
<1>7. FetchesTheLast'
  BY <1>5 DEF DeliveryIInv, FetchesTheLast
<1>8. OnTheWire'
  BY <1>1, <1>5 DEF DeliveryIInv, OnTheWire
<1>9. HeardWasSent'
  <2>1. m.n <= Len(sent)
    BY <1>2, SentFacts DEF DeliveryIInv
  <2> QED
    BY <1>3, <1>4, <1>5, <2>1 DEF DeliveryIInv, HeardWasSent
<1>10. m.late = FALSE =>
         \E p \in PassSlots : /\ posts[p][m.url].pc = "fetching"
                              /\ posts[p][m.url].n = m.n /\ posts[p][m.url].attempt = m.attempt
                              /\ m.n = Len(sent)
  <2> SUFFICES ASSUME m.late = FALSE
               PROVE  \E p \in PassSlots :
                         /\ posts[p][m.url].pc = "fetching"
                         /\ posts[p][m.url].n = m.n /\ posts[p][m.url].attempt = m.attempt
                         /\ m.n = Len(sent)
    OBVIOUS
  <2>1. PICK p \in PassSlots : /\ posts[p][m.url].pc = "fetching"
                               /\ m = Post(m.url, posts[p][m.url].n, posts[p][m.url].attempt)
    BY DEF DeliveryIInv, OnTheWire
  <2>2. m.n = posts[p][m.url].n /\ m.attempt = posts[p][m.url].attempt
    BY <2>1 DEF Post
  <2>3. m.n = Len(sent)
    BY <1>2, <2>1, <2>2 DEF DeliveryIInv, FetchesTheLast
  <2> QED
    BY <2>1, <2>2, <2>3
<1>11. PostedOrHeard'
  <2> SUFFICES ASSUME NEW p \in PassSlots, NEW u \in Urls, posts[p][u].pc = "fetching"
               PROVE  LET n == posts[p][u].n
                          i == sent[n].rule
                      IN  \/ Post(u, n, posts[p][u].attempt) \in wire'
                          \/ heard'[u][i].late = TRUE
                          \/ heard'[u][i].n = n
    BY <1>5 DEF PostedOrHeard
  <2> DEFINE n == posts[p][u].n
             i == sent[n].rule
  <2>1. \/ Post(u, n, posts[p][u].attempt) \in wire
        \/ heard[u][i].late = TRUE
        \/ heard[u][i].n = n
    BY DEF DeliveryIInv, PostedOrHeard
  <2>2. n = Len(sent) /\ n \in DOMAIN sent /\ i \in Ids
    BY SentFacts DEF DeliveryIInv, FetchesTheLast
  <2>3. CASE m = Post(u, n, posts[p][u].attempt)
    <3>1. m.n = n /\ m.url = u
      BY <2>3 DEF Post
    <3>2. r = i
      BY <3>1 DEF r
    <3> QED
      BY <1>3, <1>4, <3>1, <3>2
  <2>4. CASE m # Post(u, n, posts[p][u].attempt) /\ <<u, i>> # <<m.url, r>>
    <3>1. heard'[u][i] = heard[u][i]
      BY <1>4, <2>2, <2>4
    <3> QED
      BY <1>1, <2>1, <2>4, <3>1
  <2>5. CASE m # Post(u, n, posts[p][u].attempt) /\ <<u, i>> = <<m.url, r>>
    <3>1. m.late = TRUE
      <4> SUFFICES ASSUME m.late = FALSE PROVE FALSE
        BY <1>3
      <4>1. m.n = n
        BY <1>10, <2>2
      <4>2. PICK q \in PassSlots : /\ posts[q][m.url].pc = "fetching"
                                   /\ m = Post(m.url, posts[q][m.url].n, posts[q][m.url].attempt)
        BY DEF DeliveryIInv, OnTheWire
      <4>3. q = p
        BY <1>2, <4>2, OneFetches DEF DeliveryIInv
      <4> QED
        BY <2>5, <4>2, <4>3
    <3>2. heard'[u][i].late = TRUE
      BY <1>3, <1>4, <2>5, <3>1
    <3> QED
      BY <3>2
  <2> QED
    BY <2>3, <2>4, <2>5
<1>12. LastIsAccountedFor'
  <2> SUFFICES ASSUME NEW n \in DOMAIN sent', IsLast(n)'
               PROVE  /\ lastSent'[sent'[n].rule].event = sent'[n].event
                      /\ \A u \in Urls :
                            \/ \E p \in PassSlots : posts'[p][u].pc = "fetching" /\ posts'[p][u].n = n
                            \/ n \in reported'[u]
                            \/ heard'[u][sent'[n].rule].late = TRUE
                            \/ heard'[u][sent'[n].rule].n = n
    BY DEF LastIsAccountedFor
  <2>0. n \in DOMAIN sent /\ IsLast(n)
    BY <1>5 DEF IsLast
  <2> SUFFICES ASSUME NEW u \in Urls
               PROVE  \/ \E p \in PassSlots : posts[p][u].pc = "fetching" /\ posts[p][u].n = n
                      \/ n \in reported[u]
                      \/ heard'[u][sent[n].rule].late = TRUE
                      \/ heard'[u][sent[n].rule].n = n
    BY <1>5, <2>0 DEF DeliveryIInv, LastIsAccountedFor
  <2> DEFINE i == sent[n].rule
  <2>1. i \in Ids
    BY <2>0, SentFacts DEF DeliveryIInv
  <2>2. CASE <<u, i>> # <<m.url, r>>
    <3>1. heard'[u][i] = heard[u][i]
      BY <1>4, <2>1, <2>2
    <3> QED
      BY <2>0, <3>1 DEF DeliveryIInv, LastIsAccountedFor
  <2>3. CASE <<u, i>> = <<m.url, r>> /\ m.late = TRUE
    BY <1>3, <1>4, <2>3
  <2>4. CASE <<u, i>> = <<m.url, r>> /\ m.late = FALSE
    <3>1. m.n = Len(sent) /\ sent[m.n].rule = sent[n].rule
      BY <1>10, <2>4 DEF r
    <3>2. m.n <= n /\ n <= Len(sent) /\ n \in Nat
      BY <1>2, <2>0, <3>1, SentFacts DEF IsLast, DeliveryIInv
    <3>3. n = m.n
      BY <3>1, <3>2, SentFacts DEF DeliveryIInv
    <3> QED
      BY <1>3, <1>4, <2>4, <3>3
  <2> QED
    BY <1>3, <2>2, <2>3, <2>4
<1>13. \A u \in Urls, i \in Ids : heard'[u][i] # heard[u][i] =>
          heard'[u][i].n = m.n /\ heard'[u][i].late = m.late
  BY <1>3, <1>4
<1> QED
  BY <1>6, <1>7, <1>8, <1>9, <1>10, <1>11, <1>12, <1>13 DEF DeliveryIInv

\* An acknowledged attempt has been heard.
LEMMA AcknowledgedKeepsDelivery ==
    ASSUME IInv, DeliveryIInv, NEW p \in PassSlots, NEW u \in Urls, Acknowledged(p, u)
    PROVE  DeliveryIInv'
<1> DEFINE a == posts[p][u]
           settled == [a EXCEPT !.pc = "settled"]
<1>1. /\ a.pc = "fetching" /\ Underway(p, u) = {}
      /\ posts' = [posts EXCEPT ![p][u] = settled]
      /\ UNCHANGED <<vars, sent, wire, heard, reported>>
  BY DEF Acknowledged
<1>2. a \in ActivationType
  BY DEF DeliveryIInv, DeliveryTypeOK
<1>3. settled \in ActivationType /\ settled.pc = "settled"
  BY <1>2 DEF ActivationType
<1>4. /\ a.n = Len(sent) /\ a.n \in DOMAIN sent
      /\ Post(u, a.n, a.attempt) \notin wire
  <2>1. a.n = Len(sent) /\ a.n \in DOMAIN sent
    BY <1>1, SentFacts DEF DeliveryIInv, FetchesTheLast
  <2> QED
    BY <1>1, <2>1 DEF Underway
<1>5. heard[u][sent[a.n].rule].late = TRUE \/ heard[u][sent[a.n].rule].n = a.n
  BY <1>1, <1>4 DEF DeliveryIInv, PostedOrHeard
<1> HIDE DEF settled
<1>6. /\ posts' \in [PassSlots -> [Urls -> ActivationType]]
      /\ posts'[p][u] = settled
      /\ \A q \in PassSlots, v \in Urls : <<q, v>> # <<p, u>> => posts'[q][v] = posts[q][v]
  BY <1>1, <1>3 DEF DeliveryIInv, DeliveryTypeOK
<1>7. \A q \in PassSlots, v \in Urls : posts'[q][v].pc = "fetching" =>
         <<q, v>> # <<p, u>> /\ posts'[q][v] = posts[q][v]
  BY <1>3, <1>6
<1>8. lastSent' = lastSent /\ passes' = passes /\ sent' = sent /\ wire' = wire
      /\ heard' = heard /\ reported' = reported
  BY <1>1 DEF vars, evaluatorVars
<1>9. DeliveryTypeOK'
  BY <1>6, <1>8 DEF DeliveryIInv, DeliveryTypeOK
<1>10. FetchesTheLast' /\ HeardWasSent' /\ PostedOrHeard'
  <2>1. FetchesTheLast'
    BY <1>7, <1>8 DEF DeliveryIInv, FetchesTheLast
  <2>2. HeardWasSent'
    BY <1>8 DEF DeliveryIInv, HeardWasSent
  <2>3. PostedOrHeard'
    <3> SUFFICES ASSUME NEW q \in PassSlots, NEW v \in Urls, posts'[q][v].pc = "fetching"
                 PROVE  LET n == posts'[q][v].n
                            r == sent'[n].rule
                        IN  \/ Post(v, n, posts'[q][v].attempt) \in wire'
                            \/ heard'[v][r].late = TRUE
                            \/ heard'[v][r].n = n
      BY DEF PostedOrHeard
    <3>1. posts'[q][v] = posts[q][v]
      BY <1>7
    <3>2. LET n == posts[q][v].n
              r == sent[n].rule
          IN  \/ Post(v, n, posts[q][v].attempt) \in wire
              \/ heard[v][r].late = TRUE
              \/ heard[v][r].n = n
      BY <3>1 DEF DeliveryIInv, PostedOrHeard
    <3> QED
      BY <1>8, <3>1, <3>2
  <2> QED
    BY <2>1, <2>2, <2>3
<1>11. OnTheWire'
  <2> SUFFICES ASSUME NEW m \in wire, m.late = FALSE
               PROVE  \E q \in PassSlots :
                         /\ posts'[q][m.url].pc = "fetching"
                         /\ m = Post(m.url, posts'[q][m.url].n, posts'[q][m.url].attempt)
    BY <1>8 DEF DeliveryIInv, OnTheWire
  <2>1. PICK q \in PassSlots : /\ posts[q][m.url].pc = "fetching"
                               /\ m = Post(m.url, posts[q][m.url].n, posts[q][m.url].attempt)
    BY DEF DeliveryIInv, OnTheWire
  <2>2. m.url \in Urls
    BY DEF DeliveryIInv, DeliveryTypeOK, PostType
  <2>3. <<q, m.url>> # <<p, u>>
    BY <1>4, <2>1
  <2> QED
    BY <1>6, <2>1, <2>2, <2>3
<1>12. LastIsAccountedFor'
  <2>1. \A n \in DOMAIN sent : IsLast(n)' <=> IsLast(n)
    BY <1>8 DEF IsLast
  <2> SUFFICES ASSUME NEW n \in DOMAIN sent, IsLast(n), NEW v \in Urls
               PROVE  \/ \E q \in PassSlots : posts'[q][v].pc = "fetching" /\ posts'[q][v].n = n
                      \/ n \in reported[v]
                      \/ heard[v][sent[n].rule].late = TRUE
                      \/ heard[v][sent[n].rule].n = n
    BY <1>8, <2>1 DEF DeliveryIInv, LastIsAccountedFor
  <2>2. \/ \E q \in PassSlots : posts[q][v].pc = "fetching" /\ posts[q][v].n = n
        \/ n \in reported[v]
        \/ heard[v][sent[n].rule].late = TRUE
        \/ heard[v][sent[n].rule].n = n
    BY DEF DeliveryIInv, LastIsAccountedFor
  <2>3. ASSUME NEW q \in PassSlots, posts[q][v].pc = "fetching", posts[q][v].n = n
        PROVE  \/ posts'[q][v].pc = "fetching" /\ posts'[q][v].n = n
               \/ heard[v][sent[n].rule].late = TRUE
               \/ heard[v][sent[n].rule].n = n
    <3>1. CASE <<q, v>> = <<p, u>>
      BY <1>5, <2>3, <3>1
    <3>2. CASE <<q, v>> # <<p, u>>
      BY <1>6, <2>3, <3>2
    <3> QED
      BY <3>1, <3>2
  <2> QED
    BY <2>2, <2>3
<1> QED
  BY <1>9, <1>10, <1>11, <1>12 DEF DeliveryIInv

\* A failed attempt: its POST is lost or late, and the next is under way, or the
\* notification is reported.
LEMMA AttemptFailsKeepsDelivery ==
    ASSUME IInv, DeliveryIInv, NEW p \in PassSlots, NEW u \in Urls, AttemptFails(p, u)
    PROVE  DeliveryIInv'
<1> DEFINE a == posts[p][u]
           n == a.n
           next == a.attempt + 1
           b == IF next <= maxAttempts THEN Fetching(n, next) ELSE [a EXCEPT !.pc = "settled"]
           under == Underway(p, u)
<1>1. /\ a.pc = "fetching"
      /\ posts' = [posts EXCEPT ![p][u] = b]
      /\ UNCHANGED <<vars, sent, heard>>
  BY DEF AttemptFails
<1>2. PICK strays \in SUBSET {[m EXCEPT !.late = TRUE] : m \in under} :
         wire' = (wire \ under) \cup strays
                 \cup (IF next <= maxAttempts THEN {Post(u, n, next)} ELSE {})
  BY DEF AttemptFails
<1>3. reported' = IF next <= maxAttempts THEN reported ELSE [reported EXCEPT ![u] = @ \cup {n}]
  BY DEF AttemptFails
<1>4. a \in ActivationType /\ a.attempt \in Nat /\ n \in Nat /\ next \in Nat
  BY DEF DeliveryIInv, DeliveryTypeOK, ActivationType
<1>5. /\ b \in ActivationType /\ b.n = n
      /\ next <= maxAttempts => b.pc = "fetching" /\ b.attempt = next
      /\ ~(next <= maxAttempts) => b.pc = "settled"
  BY <1>4 DEF ActivationType, Fetching
<1>6. n = Len(sent) /\ n \in DOMAIN sent
  BY <1>1, SentFacts DEF DeliveryIInv, FetchesTheLast
<1>7. Post(u, n, next) \in PostType /\ Post(u, n, next).n = n /\ Post(u, n, next).url = u
  BY <1>4 DEF Post, PostType
<1>8. \A m \in wire : m = Post(u, n, a.attempt) <=> m \in under
  BY DEF Underway
<1>9. \A m \in under : m = Post(u, n, a.attempt)
  BY DEF Underway
<1>10. \A m \in strays : m \in PostType /\ m.n = n /\ m.late = TRUE
  <2> SUFFICES ASSUME NEW m \in strays PROVE m \in PostType /\ m.n = n /\ m.late = TRUE
    OBVIOUS
  <2>1. PICK o \in under : m = [o EXCEPT !.late = TRUE]
    OBVIOUS
  <2>2. o = [url |-> u, n |-> n, attempt |-> a.attempt, late |-> FALSE]
    BY <1>9 DEF Post
  <2>3. m = [url |-> u, n |-> n, attempt |-> a.attempt, late |-> TRUE]
    BY <2>1, <2>2
  <2> QED
    BY <1>4, <2>3 DEF PostType
<1> HIDE DEF b, under
<1>11. /\ posts' \in [PassSlots -> [Urls -> ActivationType]]
       /\ posts'[p][u] = b
       /\ \A q \in PassSlots, v \in Urls : <<q, v>> # <<p, u>> => posts'[q][v] = posts[q][v]
  BY <1>1, <1>5 DEF DeliveryIInv, DeliveryTypeOK
<1>12. lastSent' = lastSent /\ passes' = passes /\ sent' = sent /\ heard' = heard
  BY <1>1 DEF vars, evaluatorVars
<1>13. \A m \in wire' : \/ m \in wire /\ m \notin under
                        \/ m \in strays
                        \/ next <= maxAttempts /\ m = Post(u, n, next)
  BY <1>2
<1>14. /\ reported' \in [Urls -> SUBSET Nat]
       /\ \A v \in Urls : reported[v] \subseteq reported'[v]
       /\ ~(next <= maxAttempts) => n \in reported'[u]
  <2>1. reported \in [Urls -> SUBSET Nat] /\ n \in Nat
    BY <1>4 DEF DeliveryIInv, DeliveryTypeOK
  <2> HIDE DEF n, next
  <2>2. CASE next <= maxAttempts
    BY <1>3, <2>1, <2>2
  <2>3. CASE ~(next <= maxAttempts)
    BY <1>3, <2>1, <2>3
  <2> QED
    BY <2>2, <2>3
<1>15. DeliveryTypeOK'
  <2>1. wire' \subseteq PostType
    BY <1>7, <1>10, <1>13 DEF DeliveryIInv, DeliveryTypeOK
  <2> QED
    BY <1>11, <1>12, <1>14, <2>1 DEF DeliveryIInv, DeliveryTypeOK
<1>16. FetchesTheLast'
  <2>1. ASSUME NEW q \in PassSlots, NEW v \in Urls, posts'[q][v].pc = "fetching"
        PROVE  passes[q].pc = "delivering" /\ posts'[q][v].n = Len(sent) /\ Len(sent) > 0
    <3>1. CASE <<q, v>> = <<p, u>>
      BY <1>1, <1>5, <1>6, <1>11, <3>1 DEF DeliveryIInv, FetchesTheLast
    <3>2. CASE <<q, v>> # <<p, u>>
      BY <1>11, <2>1, <3>2 DEF DeliveryIInv, FetchesTheLast
    <3> QED
      BY <3>1, <3>2
  <2> QED
    BY <1>12, <2>1 DEF FetchesTheLast
<1>17. OnTheWire'
  <2>1. ASSUME NEW m \in wire'
        PROVE  /\ m.n \in DOMAIN sent
               /\ m.late = FALSE =>
                     \E q \in PassSlots :
                        /\ posts'[q][m.url].pc = "fetching"
                        /\ m = Post(m.url, posts'[q][m.url].n, posts'[q][m.url].attempt)
    <3>1. CASE m \in wire /\ m \notin under
      <4>1. m.n \in DOMAIN sent /\ m.url \in Urls
        BY <3>1 DEF DeliveryIInv, OnTheWire, DeliveryTypeOK, PostType
      <4>2. ASSUME NEW q \in PassSlots, posts[q][m.url].pc = "fetching",
                   m = Post(m.url, posts[q][m.url].n, posts[q][m.url].attempt)
            PROVE  /\ posts'[q][m.url].pc = "fetching"
                   /\ m = Post(m.url, posts'[q][m.url].n, posts'[q][m.url].attempt)
        <5>1. <<q, m.url>> # <<p, u>>
          BY <1>8, <3>1, <4>2
        <5> QED
          BY <1>11, <4>1, <4>2, <5>1
      <4> QED
        BY <3>1, <4>1, <4>2 DEF DeliveryIInv, OnTheWire
    <3>2. CASE m \in strays
      BY <1>6, <1>10, <3>2
    <3>3. CASE next <= maxAttempts /\ m = Post(u, n, next)
      BY <1>5, <1>6, <1>7, <1>11, <3>3
    <3> QED
      BY <1>13, <2>1, <3>1, <3>2, <3>3
  <2> QED
    BY <1>12, <2>1 DEF OnTheWire
<1>18. HeardWasSent'
  BY <1>12 DEF DeliveryIInv, HeardWasSent
<1>19. PostedOrHeard'
  <2> SUFFICES ASSUME NEW q \in PassSlots, NEW v \in Urls, posts'[q][v].pc = "fetching"
               PROVE  \/ Post(v, posts'[q][v].n, posts'[q][v].attempt) \in wire'
                      \/ heard[v][sent[posts'[q][v].n].rule].late = TRUE
                      \/ heard[v][sent[posts'[q][v].n].rule].n = posts'[q][v].n
    BY <1>12 DEF PostedOrHeard
  <2>1. CASE <<q, v>> = <<p, u>>
    BY <1>2, <1>5, <1>11, <2>1
  <2>2. CASE <<q, v>> # <<p, u>>
    <3>1. posts'[q][v] = posts[q][v]
      BY <1>11, <2>2
    <3>2. q = p
      BY <1>1, <3>1, OneFetches DEF DeliveryIInv
    <3>3. Post(v, posts[q][v].n, posts[q][v].attempt) \notin under
      BY <1>9, <2>2, <3>2 DEF Post
    <3>4. \/ Post(v, posts[q][v].n, posts[q][v].attempt) \in wire
          \/ heard[v][sent[posts[q][v].n].rule].late = TRUE
          \/ heard[v][sent[posts[q][v].n].rule].n = posts[q][v].n
      BY <3>1 DEF DeliveryIInv, PostedOrHeard
    <3> QED
      BY <1>2, <3>1, <3>3, <3>4
  <2> QED
    BY <2>1, <2>2
<1>20. LastIsAccountedFor'
  <2>1. \A m \in DOMAIN sent : IsLast(m)' <=> IsLast(m)
    BY <1>12 DEF IsLast
  <2> SUFFICES ASSUME NEW m \in DOMAIN sent, IsLast(m), NEW v \in Urls
               PROVE  \/ \E q \in PassSlots : posts'[q][v].pc = "fetching" /\ posts'[q][v].n = m
                      \/ m \in reported'[v]
                      \/ heard[v][sent[m].rule].late = TRUE
                      \/ heard[v][sent[m].rule].n = m
    BY <1>12, <2>1 DEF DeliveryIInv, LastIsAccountedFor
  <2>2. \/ \E q \in PassSlots : posts[q][v].pc = "fetching" /\ posts[q][v].n = m
        \/ m \in reported[v]
        \/ heard[v][sent[m].rule].late = TRUE
        \/ heard[v][sent[m].rule].n = m
    BY DEF DeliveryIInv, LastIsAccountedFor
  <2>3. ASSUME NEW q \in PassSlots, posts[q][v].pc = "fetching", posts[q][v].n = m
        PROVE  \/ posts'[q][v].pc = "fetching" /\ posts'[q][v].n = m
               \/ m \in reported'[v]
    <3>1. CASE <<q, v>> = <<p, u>>
      BY <1>5, <1>11, <1>14, <2>3, <3>1
    <3>2. CASE <<q, v>> # <<p, u>>
      BY <1>11, <2>3, <3>2
    <3> QED
      BY <3>1, <3>2
  <2> QED
    BY <1>14, <2>2, <2>3
<1> QED
  BY <1>15, <1>16, <1>17, <1>18, <1>19, <1>20 DEF DeliveryIInv

\* Every step of the composition is one of the evaluator, or none of its.
LEMMA DeliveryNextIsNext ==
    ASSUME [DeliveryNext]_allVars
    PROVE  [Next]_vars
<1>1. ASSUME NEW p \in PassSlots, Evaluated(p) PROVE Next
  BY <1>1 DEF Evaluated, Next, PassStep
<1>2. ASSUME \/ start \/ TimerFires \/ TimePasses
             \/ \E p \in PassSlots : RuleFails(p) \/ (Delivered(p) /\ DeliverySettles(p))
             \/ \E c \in Closers : close(c) \/ CloseReturns(c)
      PROVE  Next
  BY <1>2 DEF Next, PassStep
<1>3. ASSUME NEW m \in wire, Arrives(m) PROVE UNCHANGED vars
  BY <1>3 DEF Arrives
<1>4. ASSUME NEW p \in PassSlots, NEW u \in Urls, Acknowledged(p, u) \/ AttemptFails(p, u)
      PROVE  UNCHANGED vars
  BY <1>4 DEF Acknowledged, AttemptFails
<1>5. UNCHANGED allVars => UNCHANGED vars
  BY DEF allVars
<1> QED
  BY <1>1, <1>2, <1>3, <1>4, <1>5 DEF DeliveryNext

\* Every step of the composition keeps both invariants.
THEOREM DeliveryNextIInv ==
    (IInv /\ DeliveryIInv) /\ [DeliveryNext]_allVars => (IInv /\ DeliveryIInv)'
<1> SUFFICES ASSUME IInv, DeliveryIInv, [DeliveryNext]_allVars PROVE IInv' /\ DeliveryIInv'
  OBVIOUS
<1>1. IInv'
  BY DeliveryNextIsNext, NextIInv
<1>2. ASSUME NEW p \in PassSlots, Evaluated(p) PROVE DeliveryIInv'
  BY <1>1, <1>2, EvaluatedKeepsDelivery
<1>3. ASSUME UNCHANGED deliveryVars,
             \/ start \/ TimerFires \/ TimePasses
             \/ \E p \in PassSlots : RuleFails(p) \/ (Delivered(p) /\ DeliverySettles(p))
             \/ \E c \in Closers : close(c) \/ CloseReturns(c)
      PROVE  DeliveryIInv'
  BY <1>3, EvaluatorKeepsDelivery
<1>4. ASSUME NEW m \in wire, Arrives(m) PROVE DeliveryIInv'
  BY <1>4, ArrivesKeepsDelivery
<1>5. ASSUME NEW p \in PassSlots, NEW u \in Urls, Acknowledged(p, u) PROVE DeliveryIInv'
  BY <1>5, AcknowledgedKeepsDelivery
<1>6. ASSUME NEW p \in PassSlots, NEW u \in Urls, AttemptFails(p, u) PROVE DeliveryIInv'
  BY <1>6, AttemptFailsKeepsDelivery
<1>7. CASE UNCHANGED allVars
  <2>1. UNCHANGED deliveryVars /\ lastSent' = lastSent /\ passes' = passes
    BY <1>7 DEF allVars, vars, evaluatorVars
  <2>2. \A p \in PassSlots, u \in Urls :
           posts[p][u].pc = "fetching" => passes'[p].pc = "delivering"
    BY <2>1 DEF DeliveryIInv, FetchesTheLast
  <2> QED
    BY <1>1, <2>1, <2>2, SilentKeepsDelivery
<1>8. \/ \E p \in PassSlots : Evaluated(p)
      \/ /\ UNCHANGED deliveryVars
         /\ \/ start \/ TimerFires \/ TimePasses
            \/ \E p \in PassSlots : RuleFails(p) \/ (Delivered(p) /\ DeliverySettles(p))
            \/ \E c \in Closers : close(c) \/ CloseReturns(c)
      \/ \E m \in wire : Arrives(m)
      \/ \E p \in PassSlots, u \in Urls : Acknowledged(p, u) \/ AttemptFails(p, u)
      \/ UNCHANGED allVars
  BY DEF DeliveryNext
<1> QED
  BY <1>1, <1>2, <1>3, <1>4, <1>5, <1>6, <1>7, <1>8

\* Nothing is sent initially.
THEOREM DeliveryInitIInv == DeliveryInit => IInv /\ DeliveryIInv
<1> SUFFICES ASSUME DeliveryInit PROVE IInv /\ DeliveryIInv
  OBVIOUS
<1>1. IInv
  BY InitIInv DEF DeliveryInit
<1> DEFINE none == [n |-> 0, late |-> FALSE]
<1>2. /\ sent = <<>> /\ wire = {}
      /\ posts = [p \in PassSlots |-> [u \in Urls |-> NoActivation]]
      /\ heard = [u \in Urls |-> [r \in Ids |-> none]]
      /\ reported = [u \in Urls |-> {}]
  BY DEF DeliveryInit
<1>3. none \in HeardType /\ none.n = 0
  BY DEF HeardType
<1>4. NoActivation \in ActivationType /\ NoActivation.pc # "fetching"
  BY DEF NoActivation, ActivationType
<1> HIDE DEF none
<1>5. sent \in Seq(NotificationType) /\ Len(sent) = 0 /\ DOMAIN sent = {}
  <2>1. \A S : <<>> \in Seq(S)
    OBVIOUS
  <2>2. sent \in Seq(NotificationType)
    BY <1>2, <2>1, Zenon
  <2>3. Len(sent) = 0 /\ DOMAIN sent = {}
    BY <1>2
  <2> QED
    BY <2>2, <2>3
<1>6. DeliveryTypeOK
  BY <1>2, <1>3, <1>4, <1>5 DEF DeliveryTypeOK
<1>7. \A p \in PassSlots, u \in Urls : posts[p][u].pc # "fetching"
  BY <1>2, <1>4
<1>8. FetchesTheLast /\ PostedOrHeard
  BY <1>7 DEF FetchesTheLast, PostedOrHeard
<1>9. OnTheWire
  BY <1>2 DEF OnTheWire
<1>10. HeardWasSent
  BY <1>2, <1>3, <1>5 DEF HeardWasSent
<1>11. LastIsAccountedFor
  BY <1>5 DEF LastIsAccountedFor
<1> QED
  BY <1>1, <1>6, <1>8, <1>9, <1>10, <1>11 DEF DeliveryIInv

\* Both invariants hold throughout every behaviour of the composition.
THEOREM DeliverySpecIInv == DeliverySpec => [](IInv /\ DeliveryIInv)
BY DeliveryInitIInv, DeliveryNextIInv, PTL DEF DeliverySpec

-----------------------------------------------------------------------------
(* The properties. *)

\* A receiver hears of notifications in the order in which they were decided,
\* late POSTs excepted: what arrives in time is the last notification of all.
THEOREM NotificationsArriveInOrder == DeliverySpec => ArrivesInOrder
<1> DEFINE InOrder == \A u \in Urls, r, s \in Ids :
         (heard'[u][r] # heard[u][r] /\ ~heard'[u][r].late /\ ~heard[u][s].late)
            => heard[u][s].n <= heard'[u][r].n
<1>1. (IInv /\ DeliveryIInv) /\ [DeliveryNext]_allVars => InOrder
  <2> SUFFICES ASSUME IInv, DeliveryIInv, [DeliveryNext]_allVars,
                      NEW u \in Urls, NEW r \in Ids, NEW s \in Ids,
                      heard'[u][r] # heard[u][r], ~heard'[u][r].late
               PROVE  heard[u][s].n <= heard'[u][r].n
    OBVIOUS
  <2>1. ASSUME NEW m \in wire, Arrives(m) PROVE heard[u][s].n <= heard'[u][r].n
    <3>1. heard'[u][r].n = m.n /\ heard'[u][r].late = m.late
      BY <2>1, ArrivesKeepsDelivery
    <3>2. m.late \in BOOLEAN
      BY DEF DeliveryIInv, DeliveryTypeOK, PostType
    <3>3. m.late = FALSE
      BY <3>1, <3>2
    <3>4. m.n = Len(sent)
      BY <2>1, <3>3, ArrivesKeepsDelivery
    <3> QED
      BY <3>1, <3>4 DEF DeliveryIInv, HeardWasSent
  <2>2. \/ \E m \in wire : Arrives(m)
        \/ UNCHANGED heard
    BY DEF DeliveryNext, Evaluated, Acknowledged, AttemptFails, deliveryVars, allVars
  <2> QED
    BY <2>1, <2>2
<1> QED
  BY <1>1, DeliverySpecIInv, PTL DEF DeliverySpec, ArrivesInOrder

\* The last of the notifications of a rule is the one they are compared by.
LEMMA LastOfRule ==
    ASSUME DeliveryTypeOK, NEW r \in Ids, {n \in DOMAIN sent : sent[n].rule = r} # {}
    PROVE  LET about == {n \in DOMAIN sent : sent[n].rule = r}
               last  == CHOOSE n \in about : \A m \in about : m <= n
           IN  last \in about /\ IsLast(last)
<1> DEFINE about == {n \in DOMAIN sent : sent[n].rule = r}
           gaps == {Len(sent) - n : n \in about}
           last == CHOOSE n \in about : \A m \in about : m <= n
<1>1. gaps \in SUBSET Nat /\ gaps # {}
  BY SentFacts
<1>2. PICK g \in gaps : \A h \in gaps : g <= h
  BY <1>1, LeastNatural
<1>3. PICK n \in about : g = Len(sent) - n
  OBVIOUS
<1>4. \A m \in about : m <= n
  <2> SUFFICES ASSUME NEW m \in about PROVE m <= n
    OBVIOUS
  <2>1. Len(sent) - n <= Len(sent) - m
    BY <1>2, <1>3
  <2> QED
    BY <2>1, SentFacts
<1> HIDE DEF gaps
<1>5. last \in about /\ \A m \in about : m <= last
  BY <1>4
<1> HIDE DEF last
<1>6. IsLast(last)
  BY <1>5 DEF IsLast
<1> QED
  BY <1>5, <1>6 DEF last

\* Once the delivery of the last notification of a rule has ended, a receiver
\* believes of the rule what snapshot() returns, unless onError was called for
\* it or a POST came late.
THEOREM ReceiversAreToldTheSnapshot == DeliverySpec => []ReceiversAgreeWithSnapshot
<1>1. IInv /\ DeliveryIInv => ReceiversAgreeWithSnapshot
  <2> SUFFICES ASSUME IInv, DeliveryIInv, NEW r \in Ids, NEW u \in Urls
               PROVE  LET about == {n \in DOMAIN sent : sent[n].rule = r}
                          last  == CHOOSE n \in about : \A m \in about : m <= n
                          ended == \A p \in PassSlots :
                                      posts[p][u].pc = "fetching" => posts[p][u].n # last
                      IN  (about # {} /\ ended /\ last \notin reported[u] /\ ~heard[u][r].late)
                            => /\ heard[u][r].n = last
                               /\ states[r].status =
                                     (IF sent[last].event = "firing" THEN "firing" ELSE "ok")
    BY Zenon DEF ReceiversAgreeWithSnapshot
  <2> DEFINE about == {n \in DOMAIN sent : sent[n].rule = r}
             last == CHOOSE n \in about : \A m \in about : m <= n
  <2>1. about # {} => last \in about /\ IsLast(last)
    BY LastOfRule DEF DeliveryIInv
  <2> HIDE DEF last
  <2>2. SUFFICES ASSUME about # {}, last \notin reported[u], ~heard[u][r].late,
                        \A p \in PassSlots : posts[p][u].pc = "fetching" => posts[p][u].n # last
                 PROVE  /\ heard[u][r].n = last
                        /\ states[r].status =
                              (IF sent[last].event = "firing" THEN "firing" ELSE "ok")
    BY Zenon DEF last
  <2>3. last \in DOMAIN sent /\ sent[last].rule = r /\ IsLast(last)
    BY <2>1, <2>2
  <2>4. /\ lastSent[r].event = sent[last].event
        /\ heard[u][r].n = last
    BY <2>2, <2>3 DEF DeliveryIInv, LastIsAccountedFor
  <2>5. states[r].status = "firing" <=> lastSent[r].event = "firing"
    BY DEF IInv, SnapshotAgreesWithNotifications
  <2>6. states[r].status \in {"ok", "firing"}
    BY DEF IInv, TypeOK, RuleStateType
  <2> QED
    BY <2>4, <2>5, <2>6
<1> QED
  BY <1>1, DeliverySpecIInv, PTL
=============================================================================
