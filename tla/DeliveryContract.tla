-------------------------- MODULE DeliveryContract --------------------------
(***************************************************************************)
(* What one call of an AlertDeliver promises, without attempts or time:    *)
(* every URL ends in one outcome that never changes.  "delivered" is said  *)
(* only of a receiver that accepted the notification; "reported" may be    *)
(* wrong, for an acceptance can be missed.  The call resolves when, and    *)
(* only when, every URL has its outcome; it has no way to reject.          *)
(***************************************************************************)
CONSTANT Urls

VARIABLES
    accepted,           \* the receivers that accepted the notification
    outcome,            \* [Urls -> "pending", "delivered" or "reported"]
    resolved            \* the promise the call returned has resolved

Init ==
    /\ accepted = {}
    /\ outcome = [u \in Urls |-> "pending"]
    /\ resolved = FALSE

Accept(u) ==
    /\ accepted' = accepted \cup {u}
    /\ UNCHANGED <<outcome, resolved>>

Settle(u) ==
    /\ outcome[u] = "pending"
    /\ \/ u \in accepted /\ outcome' = [outcome EXCEPT ![u] = "delivered"]
       \/ outcome' = [outcome EXCEPT ![u] = "reported"]
    /\ UNCHANGED <<accepted, resolved>>

Resolve ==
    /\ \A u \in Urls : outcome[u] # "pending"
    /\ resolved' = TRUE
    /\ UNCHANGED <<accepted, outcome>>

Next == (\E u \in Urls : Accept(u) \/ Settle(u)) \/ Resolve

Spec == Init /\ [][Next]_<<accepted, outcome, resolved>>
=============================================================================
