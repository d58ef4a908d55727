------------------------ MODULE WebhookDeliveryProofs ------------------------
(***************************************************************************)
(* The safety of WebhookDelivery for every set of URLs, every configured   *)
(* number of attempts, every timeout and every unit of the backoff.        *)
(*                                                                         *)
(* The bound on the attempts holds because an attempt that has not arrived *)
(* is still to be counted; the bound on the time because what is due is    *)
(* due within the budget of the attempts so far, and the clock does not    *)
(* pass it.                                                                *)
(***************************************************************************)
EXTENDS WebhookDelivery, DataInduction

\* The arithmetic of the backoff.

\* The recursion of PowerOf2 defines a function, which doubles.
LEMMA PowerOf2Lemma ==
    /\ PowerOf2 \in [Nat -> Nat \ {0}]
    /\ PowerOf2[0] = 1
    /\ \A n \in Nat : PowerOf2[n + 1] = 2 * PowerOf2[n]
<1> DEFINE Eqn(f) == f = [n \in Nat |-> IF n = 0 THEN 1 ELSE 2 * f[n - 1]]
           double == [n \in Nat |-> 2 * n]
<1>1. PICK f \in [Nat -> Nat] : Recurs(f, 1, double)
  <2>1. 1 \in Nat /\ double \in [Nat -> Nat]
    OBVIOUS
  <2> HIDE DEF double
  <2> QED
    BY <2>1, PrimitiveRecursion
<1>2. ASSUME NEW n \in Nat \ {0} PROVE f[n] = 2 * f[n - 1]
  <2>1. n - 1 \in Nat /\ (n - 1) + 1 = n
    OBVIOUS
  <2>2. f[(n - 1) + 1] = double[f[n - 1]]
    BY <1>1, <2>1 DEF Recurs
  <2> QED
    BY <1>1, <2>1, <2>2
<1>3. Eqn(PowerOf2)
  <2>1. Eqn(f)
    BY <1>1, <1>2 DEF Recurs
  <2> QED
    BY <2>1, Zenon DEF PowerOf2
<1>4. PowerOf2[0] = 1 /\ \A n \in Nat : PowerOf2[n + 1] = 2 * PowerOf2[n]
  BY <1>3
<1>5. \A n \in Nat : PowerOf2[n] \in Nat \ {0}
  <2> DEFINE T == {n \in Nat : PowerOf2[n] \in Nat \ {0}}
  <2>1. 0 \in T /\ \A n \in Nat : n \in T => n + 1 \in T
    BY <1>4
  <2>2. Nat \subseteq T
    <3> HIDE DEF T
    <3> QED
      BY <2>1, NaturalInduction
  <2> QED
    BY <2>2
<1> QED
  BY <1>3, <1>4, <1>5

\* The time an activation may have taken when its n-th attempt ends, and when
\* the backoff after it does.
AttemptBudget(n) == n * timeout + (PowerOf2[n - 1] - 1) * backoffUnit
BackoffBudget(n) == n * timeout + (PowerOf2[n] - 1) * backoffUnit

\* At least one attempt is made.
LEMMA MaxAttemptsLemma == maxAttempts \in Nat \ {0}
BY WebhookAssumption DEF maxAttempts

\* The backoff after an attempt, and the timeout of the next, take the budget
\* of the one to that of the other.
LEMMA BudgetLemma ==
    ASSUME NEW n \in Nat \ {0}
    PROVE  /\ AttemptBudget(n) \in Nat
           /\ backoff(n) \in Nat
           /\ BackoffBudget(n) = AttemptBudget(n) + backoff(n)
           /\ AttemptBudget(n + 1) = BackoffBudget(n) + timeout
<1> DEFINE p == PowerOf2[n - 1]
           a == (p - 1) * backoffUnit
           b == p * backoffUnit
<1>1. n - 1 \in Nat /\ (n - 1) + 1 = n /\ (n + 1) - 1 = n
  OBVIOUS
<1>2. p \in Nat \ {0} /\ PowerOf2[n] = 2 * p
  BY <1>1, PowerOf2Lemma
<1> HIDE DEF p
<1>3. timeout \in Nat /\ backoffUnit \in Nat
  BY WebhookAssumption
<1>4. a \in Nat /\ b \in Nat
  BY <1>2, <1>3
<1>5. (2 * p - 1) * backoffUnit = a + b
  BY <1>2, <1>3
<1>6. n * timeout \in Nat /\ (n + 1) * timeout = n * timeout + timeout
  BY <1>3
<1>7. AttemptBudget(n) = n * timeout + a /\ backoff(n) = b
  BY DEF AttemptBudget, backoff, p
<1>8. BackoffBudget(n) = n * timeout + (a + b)
  BY <1>2, <1>5 DEF BackoffBudget
<1>9. AttemptBudget(n + 1) = (n * timeout + timeout) + (a + b)
  BY <1>1, <1>2, <1>5, <1>6 DEF AttemptBudget
<1> HIDE DEF a, b
<1> QED
  BY <1>3, <1>4, <1>6, <1>7, <1>8, <1>9

\* No attempt has a larger budget than the last.
LEMMA BudgetGrows ==
    ASSUME NEW n \in 1..maxAttempts
    PROVE  AttemptBudget(n) <= WorstCase
<1> DEFINE T == {k \in Nat : n + k \in 1..maxAttempts => AttemptBudget(n) <= AttemptBudget(n + k)}
<1>1. 0 \in T
  BY BudgetLemma, MaxAttemptsLemma
<1>2. ASSUME NEW k \in Nat, k \in T PROVE k + 1 \in T
  <2> SUFFICES ASSUME n + (k + 1) \in 1..maxAttempts
               PROVE  AttemptBudget(n) <= AttemptBudget(n + (k + 1))
    OBVIOUS
  <2>1. /\ n \in Nat \ {0} /\ n + k \in Nat \ {0}
        /\ n + k \in 1..maxAttempts /\ n + (k + 1) = (n + k) + 1
    BY MaxAttemptsLemma
  <2>2. AttemptBudget(n) <= AttemptBudget(n + k)
    BY <1>2, <2>1
  <2>3. /\ AttemptBudget(n) \in Nat /\ AttemptBudget(n + k) \in Nat /\ backoff(n + k) \in Nat
        /\ AttemptBudget((n + k) + 1) = AttemptBudget(n + k) + backoff(n + k) + timeout
    BY <2>1, BudgetLemma
  <2> QED
    BY <2>1, <2>2, <2>3, WebhookAssumption
<1>3. maxAttempts - n \in Nat /\ n + (maxAttempts - n) = maxAttempts
  BY MaxAttemptsLemma
<1>4. Nat \subseteq T
  <2> HIDE DEF T
  <2> QED
    BY <1>1, <1>2, NaturalInduction
<1>5. AttemptBudget(n) <= AttemptBudget(maxAttempts)
  BY <1>3, <1>4, MaxAttemptsLemma
<1> QED
  BY <1>5 DEF AttemptBudget, WorstCase

-----------------------------------------------------------------------------
(* The inductive invariant. *)

PostType == [pc : {"fetching", "sleeping", "acknowledged", "gave up"},
             attempt : 1..maxAttempts, due : Nat, arrived : BOOLEAN]

\* Every attempt so far is at most one POST; the one under way is none yet until
\* it has arrived.
AttemptsCounted(u) ==
    /\ accepted[u] + strays[u] <= posts[u].attempt
    /\ posts[u].pc = "fetching" /\ posts[u].arrived = FALSE =>
          accepted[u] + strays[u] < posts[u].attempt
    /\ posts[u].arrived = TRUE => accepted[u] > 0
    /\ reports[u] = (IF posts[u].pc = "gave up" THEN 1 ELSE 0)

\* What is due is due within the budget, and the clock has not passed it.
InBudget(u) ==
    /\ posts[u].pc \in {"fetching", "sleeping"} => clock <= posts[u].due
    /\ posts[u].pc = "fetching" => posts[u].due <= AttemptBudget(posts[u].attempt)
    /\ posts[u].pc = "sleeping" =>
          /\ posts[u].attempt < maxAttempts
          /\ posts[u].due <= BackoffBudget(posts[u].attempt)

IInv ==
    /\ TypeOK
    /\ \A u \in Urls : AttemptsCounted(u) /\ InBudget(u)
    /\ clock <= WorstCase

\* What a typed state says of one URL, and of the budgets of its attempt.
LEMMA UrlFacts ==
    ASSUME IInv, NEW u \in Urls
    PROVE  /\ AttemptsCounted(u) /\ InBudget(u)
           /\ posts[u] \in PostType
           /\ posts[u].attempt \in Nat \ {0} /\ posts[u].attempt <= maxAttempts
           /\ posts[u].due \in Nat
           /\ clock \in Nat /\ timeout \in Nat \ {0} /\ maxAttempts \in Nat \ {0}
           /\ accepted[u] \in Nat /\ strays[u] \in Nat /\ reports[u] \in Nat
           /\ AttemptBudget(posts[u].attempt) \in Nat
           /\ backoff(posts[u].attempt) \in Nat
           /\ BackoffBudget(posts[u].attempt)
                = AttemptBudget(posts[u].attempt) + backoff(posts[u].attempt)
           /\ AttemptBudget(posts[u].attempt + 1) = BackoffBudget(posts[u].attempt) + timeout
           /\ AttemptBudget(posts[u].attempt) <= WorstCase
<1>1. posts[u] \in PostType
  BY DEF IInv, TypeOK, PostType
<1>2. posts[u].attempt \in 1..maxAttempts /\ posts[u].due \in Nat
  BY <1>1 DEF PostType
<1>3. posts[u].attempt \in Nat \ {0} /\ posts[u].attempt <= maxAttempts
  BY <1>2, MaxAttemptsLemma
<1>4. /\ clock \in Nat /\ timeout \in Nat \ {0}
      /\ accepted[u] \in Nat /\ strays[u] \in Nat /\ reports[u] \in Nat
  BY WebhookAssumption DEF IInv, TypeOK
<1>5. AttemptsCounted(u) /\ InBudget(u)
  BY DEF IInv
<1> QED
  BY <1>1, <1>2, <1>3, <1>4, <1>5, BudgetLemma, BudgetGrows, MaxAttemptsLemma

\* The time that attempts may take is a number, and covers one timeout.
LEMMA WorstCaseLemma == WorstCase \in Nat /\ timeout <= AttemptBudget(1)
<1>1. maxAttempts \in 1..maxAttempts /\ 1 \in 1..maxAttempts
  BY MaxAttemptsLemma
<1>2. AttemptBudget(maxAttempts) = WorstCase
  BY DEF AttemptBudget, WorstCase
<1>3. AttemptBudget(1) = 1 * timeout + (1 - 1) * backoffUnit
  BY PowerOf2Lemma DEF AttemptBudget
<1> QED
  BY <1>1, <1>2, <1>3, BudgetLemma, MaxAttemptsLemma, WebhookAssumption

\* At first nothing is due before the first timeout.
THEOREM InitIInv == Init => IInv
<1> SUFFICES ASSUME Init PROVE IInv
  OBVIOUS
<1> DEFINE first == [pc |-> "fetching", attempt |-> 1, due |-> timeout, arrived |-> FALSE]
<1>0. /\ timeout \in Nat \ {0} /\ WorstCase \in Nat
      /\ 1 \in 1..maxAttempts /\ timeout <= AttemptBudget(1)
  BY WebhookAssumption, WorstCaseLemma, MaxAttemptsLemma
<1>1. /\ clock = 0 /\ resolved = FALSE
      /\ posts = [u \in Urls |-> first]
      /\ accepted = [u \in Urls |-> 0] /\ strays = [u \in Urls |-> 0]
      /\ reports = [u \in Urls |-> 0]
  BY DEF Init
<1>2. first \in PostType
  BY <1>0 DEF PostType
<1>3. TypeOK
  BY <1>0, <1>1, <1>2 DEF TypeOK, PostType
<1>4. ASSUME NEW u \in Urls PROVE AttemptsCounted(u) /\ InBudget(u)
  <2>1. /\ posts[u].pc = "fetching" /\ posts[u].attempt = 1
        /\ posts[u].due = timeout /\ posts[u].arrived = FALSE
        /\ accepted[u] = 0 /\ strays[u] = 0 /\ reports[u] = 0
    BY <1>1
  <2>2. AttemptsCounted(u)
    BY <2>1 DEF AttemptsCounted
  <2> QED
    BY <1>0, <1>1, <2>1, <2>2 DEF InBudget
<1> QED
  BY <1>0, <1>1, <1>3, <1>4 DEF IInv

-----------------------------------------------------------------------------
(* The steps. *)

\* A step for one URL, which leaves the others alone.
Moves(u, post, accepts, stray, reporting) ==
    /\ posts' = [posts EXCEPT ![u] = post]
    /\ accepted' = [accepted EXCEPT ![u] = accepts]
    /\ strays' = [strays EXCEPT ![u] = stray]
    /\ reports' = [reports EXCEPT ![u] = reporting]
    /\ UNCHANGED <<clock, resolved>>

\* It keeps the invariant when it does so for its URL.
LEMMA MovesKeepsIInv ==
    ASSUME IInv, NEW u \in Urls, NEW post \in PostType, NEW accepts \in Nat,
           NEW stray \in Nat, NEW reporting \in Nat,
           Moves(u, post, accepts, stray, reporting),
           accepts + stray <= post.attempt,
           post.pc = "fetching" /\ post.arrived = FALSE => accepts + stray < post.attempt,
           post.arrived = TRUE => accepts > 0,
           reporting = (IF post.pc = "gave up" THEN 1 ELSE 0),
           post.pc \in {"fetching", "sleeping"} => clock <= post.due,
           post.pc = "fetching" => post.due <= AttemptBudget(post.attempt),
           post.pc = "sleeping" => /\ post.attempt < maxAttempts
                                   /\ post.due <= BackoffBudget(post.attempt)
    PROVE  IInv'
<1>1. /\ posts \in [Urls -> PostType] /\ accepted \in [Urls -> Nat]
      /\ strays \in [Urls -> Nat] /\ reports \in [Urls -> Nat]
      /\ clock \in Nat /\ resolved \in BOOLEAN
  BY DEF IInv, TypeOK, PostType
<1>2. /\ posts' = [posts EXCEPT ![u] = post] /\ accepted' = [accepted EXCEPT ![u] = accepts]
      /\ strays' = [strays EXCEPT ![u] = stray] /\ reports' = [reports EXCEPT ![u] = reporting]
      /\ clock' = clock /\ resolved' = resolved
  BY DEF Moves
<1>3. TypeOK'
  BY <1>1, <1>2 DEF TypeOK, PostType
<1>4. ASSUME NEW v \in Urls PROVE AttemptsCounted(v)' /\ InBudget(v)'
  <2>1. CASE v = u
    BY <1>1, <1>2, <2>1 DEF AttemptsCounted, InBudget
  <2>2. CASE v # u
    <3>1. /\ posts'[v] = posts[v] /\ accepted'[v] = accepted[v]
          /\ strays'[v] = strays[v] /\ reports'[v] = reports[v]
      BY <1>1, <1>2, <2>2
    <3>2. AttemptsCounted(v) /\ InBudget(v)
      BY DEF IInv
    <3> QED
      BY <1>2, <3>1, <3>2 DEF AttemptsCounted, InBudget
  <2> QED
    BY <2>1, <2>2
<1> QED
  BY <1>2, <1>3, <1>4 DEF IInv, WorstCase

\* A POST arrives while its sender waits.
LEMMA ArrivesKeepsIInv ==
    ASSUME IInv, NEW u \in Urls, Arrives(u) PROVE IInv'
<1> DEFINE post == [posts[u] EXCEPT !.arrived = TRUE]
<1>1. /\ posts[u].pc = "fetching" /\ posts[u].arrived = FALSE
      /\ posts' = [posts EXCEPT ![u] = post]
      /\ accepted' = [accepted EXCEPT ![u] = accepted[u] + 1]
      /\ UNCHANGED <<clock, strays, reports, resolved>>
  BY UrlFacts DEF Arrives, PostType
<1>2. /\ post \in PostType /\ post.pc = "fetching" /\ post.arrived = TRUE
      /\ post.attempt = posts[u].attempt /\ post.due = posts[u].due
  BY <1>1, UrlFacts DEF PostType
<1> HIDE DEF post
<1>3. Moves(u, post, accepted[u] + 1, strays[u], reports[u])
  BY <1>1 DEF Moves, IInv, TypeOK
<1>4. /\ accepted[u] + 1 \in Nat /\ accepted[u] + 1 > 0
      /\ (accepted[u] + 1) + strays[u] <= posts[u].attempt
      /\ reports[u] = 0
  <2>1. AttemptsCounted(u) /\ accepted[u] \in Nat /\ strays[u] \in Nat
    BY UrlFacts
  <2>2. accepted[u] + strays[u] < posts[u].attempt /\ reports[u] = 0
    BY <1>1, <2>1 DEF AttemptsCounted
  <2> QED
    BY <2>1, <2>2, UrlFacts
<1>5. clock <= posts[u].due /\ posts[u].due <= AttemptBudget(posts[u].attempt)
  BY <1>1, UrlFacts DEF InBudget
<1> QED
  BY <1>2, <1>3, <1>4, <1>5, UrlFacts, MovesKeepsIInv

\* A POST arrives that its sender has given up.
LEMMA ArrivesLateKeepsIInv ==
    ASSUME IInv, NEW u \in Urls, ArrivesLate(u) PROVE IInv'
<1>1. /\ strays[u] > 0
      /\ Moves(u, posts[u], accepted[u] + 1, strays[u] - 1, reports[u])
  BY DEF ArrivesLate, Moves, IInv, TypeOK
<1>2. /\ strays[u] - 1 \in Nat /\ accepted[u] + 1 \in Nat /\ accepted[u] + 1 > 0
      /\ (accepted[u] + 1) + (strays[u] - 1) = accepted[u] + strays[u]
  BY <1>1, UrlFacts
<1>3. AttemptsCounted(u) /\ InBudget(u) /\ posts[u] \in PostType /\ reports[u] \in Nat
  BY UrlFacts
<1> QED
  BY <1>1, <1>2, <1>3, MovesKeepsIInv DEF AttemptsCounted, InBudget

\* An answer of 2xx ends the delivery.
LEMMA AcknowledgedKeepsIInv ==
    ASSUME IInv, NEW u \in Urls, Acknowledged(u) PROVE IInv'
<1> DEFINE post == [posts[u] EXCEPT !.pc = "acknowledged"]
<1>1. /\ posts[u].pc = "fetching"
      /\ Moves(u, post, accepted[u], strays[u], reports[u])
  BY DEF Acknowledged, Moves, IInv, TypeOK
<1>2. /\ post \in PostType /\ post.pc = "acknowledged"
      /\ post.attempt = posts[u].attempt /\ post.arrived = posts[u].arrived
  BY UrlFacts DEF PostType
<1> HIDE DEF post
<1> QED
  BY <1>1, <1>2, UrlFacts, MovesKeepsIInv DEF AttemptsCounted

\* An attempt ends without an acknowledgement; its POST may still arrive.
AttemptFails(u) ==
    /\ posts[u].pc = "fetching"
    /\ AfterFailure(u)
    /\ \/ strays' = strays
       \/ posts[u].arrived = FALSE /\ strays' = [strays EXCEPT ![u] = @ + 1]
    /\ UNCHANGED <<clock, accepted, resolved>>

\* What is counted of a failed attempt, and when the next is due.
LEMMA AttemptFailsKeepsIInv ==
    ASSUME IInv, NEW u \in Urls, AttemptFails(u) PROVE IInv'
<1>1. /\ posts[u].pc = "fetching" /\ AfterFailure(u)
      /\ UNCHANGED <<clock, accepted, resolved>>
  BY DEF AttemptFails
<1>2. PICK stray \in Nat : /\ strays' = [strays EXCEPT ![u] = stray]
                           /\ accepted[u] + stray <= posts[u].attempt
  <2>1. CASE strays' = strays
    <3>1. strays' = [strays EXCEPT ![u] = strays[u]]
      BY <2>1 DEF IInv, TypeOK
    <3> QED
      BY <3>1, UrlFacts DEF AttemptsCounted
  <2>2. CASE posts[u].arrived = FALSE /\ strays' = [strays EXCEPT ![u] = @ + 1]
    <3>1. /\ strays' = [strays EXCEPT ![u] = strays[u] + 1]
          /\ accepted[u] + (strays[u] + 1) <= posts[u].attempt
          /\ strays[u] + 1 \in Nat
      <4>1. accepted[u] + strays[u] < posts[u].attempt
        BY <1>1, <2>2, UrlFacts DEF AttemptsCounted
      <4> QED
        BY <2>2, <4>1, UrlFacts
    <3> QED
      BY <3>1
  <2> QED
    BY <2>1, <2>2 DEF AttemptFails
<1>3. /\ clock <= posts[u].due /\ posts[u].due <= AttemptBudget(posts[u].attempt)
      /\ reports[u] = 0 /\ (posts[u].arrived = TRUE => accepted[u] > 0)
  BY <1>1, UrlFacts DEF AttemptsCounted, InBudget
<1>4. accepted' = [accepted EXCEPT ![u] = accepted[u]]
  BY <1>1 DEF IInv, TypeOK
<1>5. CASE posts[u].attempt < maxAttempts
  <2> DEFINE due == clock + backoff(posts[u].attempt)
             post == [posts[u] EXCEPT !.pc = "sleeping", !.due = due]
  <2>1. /\ posts' = [posts EXCEPT ![u] = post]
        /\ reports' = [reports EXCEPT ![u] = reports[u]]
    BY <1>1, <1>5 DEF AfterFailure, IInv, TypeOK
  <2>2. due \in Nat /\ clock <= due /\ due <= BackoffBudget(posts[u].attempt)
    BY <1>3, UrlFacts
  <2> HIDE DEF due
  <2>3. /\ post \in PostType /\ post.pc = "sleeping" /\ post.due = due
        /\ post.attempt = posts[u].attempt /\ post.arrived = posts[u].arrived
    BY <2>2, UrlFacts DEF PostType
  <2> HIDE DEF post
  <2>4. Moves(u, post, accepted[u], stray, reports[u])
    BY <1>1, <1>2, <1>4, <2>1 DEF Moves
  <2> QED
    BY <1>2, <1>3, <1>5, <2>2, <2>3, <2>4, UrlFacts, MovesKeepsIInv
<1>6. CASE ~(posts[u].attempt < maxAttempts)
  <2> DEFINE post == [posts[u] EXCEPT !.pc = "gave up"]
  <2>1. /\ posts' = [posts EXCEPT ![u] = post]
        /\ reports' = [reports EXCEPT ![u] = reports[u] + 1]
    BY <1>1, <1>6 DEF AfterFailure
  <2>2. /\ post \in PostType /\ post.pc = "gave up"
        /\ post.attempt = posts[u].attempt /\ post.arrived = posts[u].arrived
    BY UrlFacts DEF PostType
  <2> HIDE DEF post
  <2>3. Moves(u, post, accepted[u], stray, 1)
    <3>1. reports' = [reports EXCEPT ![u] = 1]
      BY <1>3, <2>1
    <3> QED
      BY <1>1, <1>2, <1>4, <2>1, <3>1 DEF Moves
  <2> QED
    BY <1>2, <1>3, <2>2, <2>3, UrlFacts, MovesKeepsIInv
<1> QED
  BY <1>5, <1>6

\* The backoff is over, and the next attempt leaves.
LEMMA WakesKeepsIInv ==
    ASSUME IInv, NEW u \in Urls, Wakes(u) PROVE IInv'
<1> DEFINE due == clock + timeout
           post == [pc |-> "fetching", attempt |-> posts[u].attempt + 1,
                    due |-> due, arrived |-> FALSE]
<1>1. /\ posts[u].pc = "sleeping" /\ clock >= posts[u].due
      /\ Moves(u, post, accepted[u], strays[u], reports[u])
  BY DEF Wakes, Moves, IInv, TypeOK
<1>2. /\ posts[u].attempt < maxAttempts /\ clock <= posts[u].due
      /\ posts[u].due <= BackoffBudget(posts[u].attempt)
      /\ reports[u] = 0 /\ accepted[u] + strays[u] <= posts[u].attempt
  BY <1>1, UrlFacts DEF InBudget, AttemptsCounted
<1>3. due \in Nat /\ clock <= due /\ due <= AttemptBudget(posts[u].attempt + 1)
  BY <1>1, <1>2, UrlFacts
<1>4. posts[u].attempt + 1 \in 1..maxAttempts
  BY <1>2, UrlFacts
<1> HIDE DEF due
<1>5. /\ post \in PostType /\ post.pc = "fetching" /\ post.due = due
      /\ post.attempt = posts[u].attempt + 1 /\ post.arrived = FALSE
  BY <1>3, <1>4 DEF PostType
<1> HIDE DEF post
<1>6. accepted[u] + strays[u] < post.attempt /\ accepted[u] + strays[u] <= post.attempt
  BY <1>2, <1>5, UrlFacts
<1>7. post.due <= AttemptBudget(post.attempt) /\ clock <= post.due
  BY <1>3, <1>5
<1> QED
  BY <1>1, <1>2, <1>5, <1>6, <1>7, UrlFacts, MovesKeepsIInv

\* The clock stands at nothing that is due, so that one more is still in budget.
LEMMA TimePassesKeepsIInv ==
    ASSUME IInv, TimePasses PROVE IInv'
<1>1. /\ \A u \in Urls : ~Settled(u) => clock < posts[u].due
      /\ \E u \in Urls : ~Settled(u)
      /\ clock' = clock + 1
      /\ UNCHANGED <<posts, accepted, strays, reports, resolved>>
  BY DEF TimePasses
<1>2. TypeOK'
  <2>1. clock' \in Nat
    <3>1. clock \in Nat
      BY DEF IInv, TypeOK
    <3> QED
      BY <1>1, <3>1
  <2> QED
    BY <1>1, <2>1, Zenon DEF IInv, TypeOK
<1>3. ASSUME NEW u \in Urls, ~Settled(u)
      PROVE  clock + 1 <= posts[u].due /\ posts[u].due <= WorstCase
  <2>1. posts[u].pc \in {"fetching", "sleeping"}
    BY <1>3, UrlFacts DEF PostType, Settled
  <2>2. clock + 1 <= posts[u].due
    BY <1>1, <1>3, UrlFacts
  <2>3. CASE posts[u].pc = "fetching"
    BY <2>2, <2>3, UrlFacts, WorstCaseLemma DEF InBudget
  <2>4. CASE posts[u].pc = "sleeping"
    <3>1. /\ posts[u].attempt < maxAttempts
          /\ posts[u].due <= BackoffBudget(posts[u].attempt)
      BY <2>4, UrlFacts DEF InBudget
    <3>2. posts[u].attempt + 1 \in 1..maxAttempts
      BY <3>1, UrlFacts
    <3>3. BackoffBudget(posts[u].attempt) + timeout <= WorstCase
      BY <3>2, UrlFacts, BudgetGrows
    <3> QED
      BY <2>2, <3>1, <3>3, UrlFacts, WorstCaseLemma
  <2> QED
    BY <2>1, <2>3, <2>4
<1>4. clock' <= WorstCase
  <2>1. PICK u \in Urls : ~Settled(u)
    BY <1>1
  <2> QED
    BY <1>1, <1>3, <2>1, UrlFacts, WorstCaseLemma
<1>5. ASSUME NEW u \in Urls PROVE AttemptsCounted(u)' /\ InBudget(u)'
  <2>1. AttemptsCounted(u) /\ InBudget(u)
    BY DEF IInv
  <2>2. posts[u].pc \in {"fetching", "sleeping"} => clock' <= posts[u].due
    BY <1>1, <1>3 DEF Settled
  <2> QED
    BY <1>1, <2>1, <2>2 DEF AttemptsCounted, InBudget
<1> QED
  BY <1>2, <1>4, <1>5 DEF IInv, WorstCase

\* Every step keeps the inductive invariant.
THEOREM NextIInv == IInv /\ [Next]_vars => IInv'
<1> SUFFICES ASSUME IInv, [Next]_vars PROVE IInv'
  OBVIOUS
<1>1. ASSUME NEW u \in Urls, Arrives(u) PROVE IInv'
  BY <1>1, ArrivesKeepsIInv
<1>2. ASSUME NEW u \in Urls, ArrivesLate(u) PROVE IInv'
  BY <1>2, ArrivesLateKeepsIInv
<1>3. ASSUME NEW u \in Urls, Acknowledged(u) PROVE IInv'
  BY <1>3, AcknowledgedKeepsIInv
<1>4. ASSUME NEW u \in Urls, NotOk(u) \/ ConnectionLost(u) \/ TimesOut(u) PROVE IInv'
  <2>1. strays' = [strays EXCEPT ![u] = strays[u]] => strays' = strays
    BY DEF IInv, TypeOK
  <2>2. posts[u].arrived \in BOOLEAN
    BY UrlFacts DEF PostType
  <2>3. AttemptFails(u)
    BY <1>4, <2>1, <2>2 DEF NotOk, ConnectionLost, TimesOut, Abandon, AttemptFails
  <2> QED
    BY <2>3, AttemptFailsKeepsIInv
<1>5. ASSUME NEW u \in Urls, Wakes(u) PROVE IInv'
  BY <1>5, WakesKeepsIInv
<1>6. CASE TimePasses
  BY <1>6, TimePassesKeepsIInv
<1>7. CASE Resolve
  BY <1>7 DEF Resolve, IInv, TypeOK, AttemptsCounted, InBudget, WorstCase
<1>8. CASE UNCHANGED vars
  BY <1>8 DEF vars, IInv, TypeOK, AttemptsCounted, InBudget, WorstCase
<1> QED
  BY <1>1, <1>2, <1>3, <1>4, <1>5, <1>6, <1>7, <1>8 DEF Next, deliverOne

\* The inductive invariant holds throughout every call.
THEOREM SpecIInv == Spec => []IInv
BY InitIInv, NextIInv, PTL DEF Spec

-----------------------------------------------------------------------------
(* The properties. *)

\* The attempts at a URL are accounted for, and the evaluation pass that awaits
\* them is held up no longer than all of them may take.
THEOREM AttemptsAreAccountedFor == Spec => []AttemptsAccountedFor
<1>1. IInv => AttemptsAccountedFor
  <2> SUFFICES ASSUME IInv PROVE AttemptsAccountedFor
    OBVIOUS
  <2>1. DuplicatesBounded
    <3>1. ASSUME NEW u \in Urls PROVE accepted[u] + strays[u] <= maxAttempts
      <4>1. AttemptsCounted(u) /\ posts[u].attempt \in Nat /\ posts[u].attempt <= maxAttempts
        BY UrlFacts
      <4>2. accepted[u] + strays[u] <= posts[u].attempt
        BY <4>1 DEF AttemptsCounted
      <4> QED
        BY <4>1, <4>2, UrlFacts
    <3> QED
      BY <3>1 DEF DuplicatesBounded
  <2>2. ReportsMatchFailures
    BY UrlFacts DEF ReportsMatchFailures, AttemptsCounted
  <2> QED
    BY <2>1, <2>2 DEF IInv, AttemptsAccountedFor, PassHeldUpBoundedly
<1> QED
  BY <1>1, SpecIInv, PTL

\* What the receivers and the caller see of the state.
Heard == {u \in Urls : accepted[u] > 0}
OutcomeOf(pc, n) == CASE pc = "acknowledged" -> "delivered"
                      [] n > 0                -> "reported"
                      [] OTHER                -> "pending"
Told == [u \in Urls |-> OutcomeOf(posts[u].pc, reports[u])]

\* What a delivery tells of itself at each point.
LEMMA OutcomeLemma ==
    /\ OutcomeOf("acknowledged", 0) = "delivered"
    /\ \A pc : pc # "acknowledged" => /\ OutcomeOf(pc, 1) = "reported"
                                      /\ OutcomeOf(pc, 0) = "pending"
BY DEF OutcomeOf

\* A delivery under way has told nothing yet, and one that ended has.
LEMMA ToldLemma ==
    ASSUME IInv, NEW u \in Urls
    PROVE  /\ posts[u].pc \in {"fetching", "sleeping"} => Told[u] = "pending"
           /\ posts[u].pc \in {"acknowledged", "gave up"} => Told[u] # "pending"
<1>1. reports[u] = (IF posts[u].pc = "gave up" THEN 1 ELSE 0)
  BY UrlFacts DEF AttemptsCounted
<1>2. Told[u] = OutcomeOf(posts[u].pc, reports[u])
  BY DEF Told
<1>3. posts[u].pc \in {"fetching", "sleeping"} => Told[u] = OutcomeOf(posts[u].pc, 0)
  BY <1>1, <1>2
<1>4. posts[u].pc = "gave up" => Told[u] = OutcomeOf("gave up", 1)
  BY <1>1, <1>2
<1>5. posts[u].pc = "acknowledged" => Told[u] = OutcomeOf("acknowledged", 0)
  BY <1>1, <1>2
<1> QED
  BY <1>3, <1>4, <1>5, OutcomeLemma

\* A step for one URL tells of no other.
LEMMA ToldChanges ==
    ASSUME NEW u \in Urls, NEW outcome,
           \A v \in Urls \ {u} : posts'[v].pc = posts[v].pc /\ reports'[v] = reports[v],
           OutcomeOf(posts'[u].pc, reports'[u]) = outcome
    PROVE  /\ Told' = [Told EXCEPT ![u] = outcome]
           /\ outcome = Told[u] => Told' = Told
BY DEF Told

\* The delivery implements DeliveryContract: every step is one of its steps or a
\* stutter, an acceptance for an arrival, an outcome for the end of the attempts.
THEOREM DeliveryImplementsContract == Spec => ImplementsContract
<1>1. Init => Contract!Init
  <2> SUFFICES ASSUME Init PROVE Contract!Init
    OBVIOUS
  <2>1. Heard = {} /\ Told = [u \in Urls |-> "pending"] /\ resolved = FALSE
    BY OutcomeLemma DEF Init, Heard, Told
  <2> QED
    BY <2>1 DEF Contract!Init, Heard, Told, OutcomeOf
<1>2. IInv /\ [Next]_vars => [Contract!Next]_<<Heard, Told, resolved>>
  <2> SUFFICES ASSUME IInv, [Next]_vars, IInv'
               PROVE  Contract!Next \/ UNCHANGED <<Heard, Told, resolved>>
    BY NextIInv
  <2>1. /\ posts \in [Urls -> PostType] /\ accepted \in [Urls -> Nat]
        /\ reports \in [Urls -> Nat]
    BY DEF IInv, TypeOK, PostType
  <2>2. ASSUME NEW u \in Urls, Arrives(u) \/ ArrivesLate(u)
        PROVE  Contract!Accept(u)
    <3>1. /\ accepted' = [accepted EXCEPT ![u] = @ + 1]
          /\ reports' = reports /\ resolved' = resolved
      BY <2>2 DEF Arrives, ArrivesLate
    <3>2. \A v \in Urls : posts'[v].pc = posts[v].pc
      BY <2>1, <2>2 DEF Arrives, ArrivesLate, PostType
    <3>3. Told' = Told
      BY <3>1, <3>2 DEF Told
    <3>4. Heard' = Heard \cup {u}
      BY <2>1, <3>1 DEF Heard
    <3> QED
      BY <3>1, <3>3, <3>4 DEF Contract!Accept, Heard, Told, OutcomeOf
  <2>3. ASSUME NEW u \in Urls, Acknowledged(u) PROVE Contract!Settle(u)
    <3>1. /\ posts[u].pc = "fetching" /\ posts[u].arrived
          /\ posts' = [posts EXCEPT ![u].pc = "acknowledged"]
          /\ accepted' = accepted /\ reports' = reports /\ resolved' = resolved
      BY <2>3 DEF Acknowledged
    <3>2. u \in Heard /\ Heard' = Heard
      BY <3>1, UrlFacts DEF AttemptsCounted, Heard
    <3>3. Told[u] = "pending"
      BY <3>1, ToldLemma
    <3>4. Told' = [Told EXCEPT ![u] = "delivered"]
      <4>1. reports[u] = 0
        BY <3>1, UrlFacts DEF AttemptsCounted
      <4>2. /\ posts'[u].pc = "acknowledged" /\ reports'[u] = 0
            /\ \A v \in Urls \ {u} : posts'[v] = posts[v] /\ reports'[v] = reports[v]
        BY <2>1, <3>1, <4>1 DEF PostType
      <4> QED
        BY <4>2, OutcomeLemma, ToldChanges
    <3> QED
      BY <3>1, <3>2, <3>3, <3>4 DEF Contract!Settle, Heard, Told, OutcomeOf
  <2>4. ASSUME NEW u \in Urls, posts[u].pc = "fetching", AfterFailure(u),
               accepted' = accepted, resolved' = resolved
        PROVE  Contract!Settle(u) \/ UNCHANGED <<Heard, Told, resolved>>
    <3>1. Heard' = Heard
      BY <2>4 DEF Heard
    <3>2. CASE posts[u].attempt < maxAttempts
      <4>1. /\ posts' = [posts EXCEPT ![u].pc = "sleeping",
                                      ![u].due = clock + backoff(posts[u].attempt)]
            /\ reports' = reports
        BY <2>4, <3>2 DEF AfterFailure
      <4>2. Told' = Told
        <5>1. reports[u] = 0
          BY <2>4, UrlFacts DEF AttemptsCounted
        <5>2. /\ posts'[u].pc = "sleeping" /\ reports'[u] = 0
              /\ \A v \in Urls \ {u} : posts'[v] = posts[v] /\ reports'[v] = reports[v]
          BY <2>1, <4>1, <5>1 DEF PostType
        <5>3. Told[u] = "pending"
          BY <2>4, ToldLemma
        <5> QED
          BY <5>2, <5>3, OutcomeLemma, ToldChanges
      <4> QED
        BY <2>4, <3>1, <4>2
    <3>3. CASE ~(posts[u].attempt < maxAttempts)
      <4>1. /\ posts' = [posts EXCEPT ![u].pc = "gave up"]
            /\ reports' = [reports EXCEPT ![u] = @ + 1]
        BY <2>4, <3>3 DEF AfterFailure
      <4>2. Told[u] = "pending"
        BY <2>4, ToldLemma
      <4>3. Told' = [Told EXCEPT ![u] = "reported"]
        <5>1. reports[u] = 0
          BY <2>4, UrlFacts DEF AttemptsCounted
        <5>2. posts'[u].pc = "gave up" /\ \A v \in Urls \ {u} : posts'[v] = posts[v]
          BY <2>1, <4>1 DEF PostType
        <5>3. reports'[u] = 1 /\ \A v \in Urls \ {u} : reports'[v] = reports[v]
          <6>1. reports[u] + 1 = 1
            BY <5>1
          <6>2. reports' = [reports EXCEPT ![u] = reports[u] + 1]
            BY <4>1
          <6> QED
            BY <2>1, <6>1, <6>2, Zenon
        <5>4. OutcomeOf("gave up", 1) = "reported"
          BY OutcomeLemma
        <5>5. OutcomeOf(posts'[u].pc, reports'[u]) = "reported"
          BY <5>2, <5>3, <5>4, Zenon
        <5>6. \A v \in Urls \ {u} : posts'[v].pc = posts[v].pc /\ reports'[v] = reports[v]
          BY <5>2, <5>3
        <5> QED
          BY <5>5, <5>6, ToldChanges, Zenon
      <4> QED
        BY <2>4, <3>1, <4>2, <4>3 DEF Contract!Settle, Heard, Told, OutcomeOf
    <3> QED
      BY <3>2, <3>3
  <2>5. ASSUME NEW u \in Urls, NotOk(u) \/ ConnectionLost(u) \/ TimesOut(u)
        PROVE  Contract!Settle(u) \/ UNCHANGED <<Heard, Told, resolved>>
    BY <2>4, <2>5 DEF NotOk, ConnectionLost, TimesOut, Abandon
  <2>6. ASSUME NEW u \in Urls, Wakes(u) PROVE UNCHANGED <<Heard, Told, resolved>>
    <3>1. /\ posts[u].pc = "sleeping" /\ UNCHANGED <<accepted, reports, resolved>>
          /\ posts' = [posts EXCEPT ![u] = [pc |-> "fetching", attempt |-> @.attempt + 1,
                                            due |-> clock + timeout, arrived |-> FALSE]]
      BY <2>6 DEF Wakes
    <3>2. Told' = Told
      <4>1. reports[u] = 0 /\ Told[u] = "pending"
        BY <3>1, UrlFacts, ToldLemma DEF AttemptsCounted
      <4>2. /\ posts'[u].pc = "fetching" /\ reports'[u] = 0
            /\ \A v \in Urls \ {u} : posts'[v] = posts[v] /\ reports'[v] = reports[v]
        BY <2>1, <3>1, <4>1 DEF PostType
      <4> QED
        BY <4>1, <4>2, OutcomeLemma, ToldChanges
    <3> QED
      BY <3>1, <3>2 DEF Heard
  <2>7. ASSUME Resolve PROVE Contract!Resolve
    <3>1. /\ \A u \in Urls : posts[u].pc \in {"acknowledged", "gave up"}
          /\ resolved' = TRUE /\ UNCHANGED <<posts, accepted, reports>>
      BY <2>7 DEF Resolve, Settled
    <3>2. \A u \in Urls : Told[u] # "pending"
      BY <3>1, ToldLemma
    <3>3. Heard' = Heard /\ Told' = Told
      BY <3>1 DEF Heard, Told
    <3> QED
      BY <3>1, <3>2, <3>3 DEF Contract!Resolve, Heard, Told, OutcomeOf
  <2>8. CASE TimePasses \/ UNCHANGED vars
    BY <2>8 DEF TimePasses, vars, Heard, Told
  <2> QED
    BY <2>2, <2>3, <2>5, <2>6, <2>7, <2>8 DEF Next, deliverOne, Contract!Next
<1> QED
  BY <1>1, <1>2, SpecIInv, PTL DEF Spec, ImplementsContract, Contract!Spec, Heard, Told, OutcomeOf
=============================================================================
