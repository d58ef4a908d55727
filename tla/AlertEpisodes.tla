---------------------------- MODULE AlertEpisodes ----------------------------
(***************************************************************************)
(* What alerting promises the receivers of its webhooks, without the       *)
(* evaluator: the notifications of a rule form episodes.  An episode opens *)
(* with one "firing", repeats it no sooner than the rule's cooldown, and   *)
(* closes with one "resolved"; notifications of a rule carry times that    *)
(* never go back.                                                          *)
(***************************************************************************)
EXTENDS Integers

CONSTANTS
    Ids,                \* the rules
    Cooldown,           \* [Ids -> Nat]
    Times               \* the clock readings a notification may carry

VARIABLES
    told,               \* [Ids -> the last event the receivers were told]
    at                  \* [Ids -> the time it carried], -1 before the first

NoNotification == "none"

Init ==
    /\ told = [r \in Ids |-> NoNotification]
    /\ at = [r \in Ids |-> -1]

Tell(r, event, t) ==
    /\ told' = [told EXCEPT ![r] = event]
    /\ at' = [at EXCEPT ![r] = t]

Open(r, t) ==
    /\ told[r] # "firing"
    /\ t >= at[r]
    /\ Tell(r, "firing", t)

Repeat(r, t) ==
    /\ told[r] = "firing"
    /\ t - at[r] >= Cooldown[r]
    /\ Tell(r, "firing", t)

Resolve(r, t) ==
    /\ told[r] = "firing"
    /\ t >= at[r]
    /\ Tell(r, "resolved", t)

Next ==
    \E r \in Ids, t \in Times : Open(r, t) \/ Repeat(r, t) \/ Resolve(r, t)

Spec == Init /\ [][Next]_<<told, at>>
=============================================================================
