-------------------------- MODULE LiveMetricsProofs --------------------------
(***************************************************************************)
(* What the live metrics pipeline (LiveMetrics) keeps to for any number of *)
(* queues, of calls of startMetrics, and of jobs: the collectors that      *)
(* app.ts starts and closes, and the handlers of metrics-collector.ts.     *)
(***************************************************************************)
EXTENDS LiveMetrics, DataInduction, FiniteSetTheorems

-----------------------------------------------------------------------------
(***************************************************************************)
(* MetricsCollectors: the Map holds collectors that came up.               *)
(***************************************************************************)

\* The scenario does not change; close() has found no collectors before it looks.
PhaseIInv ==
    /\ scenario \in Scenarios
    /\ toClose # {} => closing \in {"closing collectors", "closed"}

\* What a call owes to its configured queues: those not in the Map are being
\* connected by itself.
Owes(k) ==
    \A q \in Explicit :
        collectors[q] # NoCall \/ (calls[k] = "starting" /\ status[<<k, q>>] = "connecting")

\* A call that is past its listing owes nothing, or what it is connecting.
CallsIInv ==
    closing = "open" =>
        \A k \in Calls : calls[k] \in {"starting", "resolved"} => Owes(k)

\* What is in the Map came up.
MapIInv ==
    \A q \in Queues :
       collectors[q] # NoCall =>
           \/ status[<<collectors[q], q>>] = "live"
           \/ closing = "closing collectors" /\ status[<<collectors[q], q>>] = "closed"

\* A call makes its collectors when its listing has come.
MadeIInv ==
    \A k \in Calls : calls[k] \in {"not called", "listing"} =>
        \A q \in Queues : status[<<k, q>>] = "none"

\* What close() found came up, and is closed when close() returns.
FoundIInv ==
    /\ \A c \in toClose : status[c] \in {"live", "closed"}
    /\ closing = "closed" => \A c \in toClose : status[c] = "closed"

CollectorsIInv == PhaseIInv /\ TypeOK /\ MapIInv /\ CallsIInv /\ MadeIInv /\ FoundIInv

-----------------------------------------------------------------------------
(***************************************************************************)
(* Calls that are made in turn: one at a time is under way, a queue gets   *)
(* one collector, and that one reads all its events.                       *)
(***************************************************************************)

\* A collector that is, or has been, subscribed to the events of its queue.
Up(k, q) == status[<<k, q>>] \in {"live", "closed"}

\* A call that has not settled, or that has left collectors connecting.
Busy(k) == \/ calls[k] \in {"listing", "starting"}
           \/ \E q \in Queues : status[<<k, q>>] = "connecting"

OneBusy == \A j, k \in Calls : Busy(j) /\ Busy(k) => j = k

\* A call that is listing has created nothing yet.
ListingIsFirst == \A k \in Calls : calls[k] = "listing" =>
                     \A q \in Queues : status[<<k, q>>] # "connecting"

\* close() begins when nothing is under way.
QuietClose == closing # "open" => \A k \in Calls : ~Busy(k)

\* Until the Map is emptied, a queue that has had a collector has it in the Map.
InTheMap ==
    closing # "closed" =>
        \A k \in Calls, q \in Queues : Up(k, q) => collectors[q] = k

\* A queue is connected once, and never after it has had a collector.
ConnectedOnce ==
    \A j, k \in Calls, q \in Queues :
       Up(k, q) => (Up(j, q) => j = k) /\ status[<<j, q>>] # "connecting"

\* close() has found, and ends, every collector that is live.
LiveIsClosing ==
    /\ closing = "closing collectors" =>
          \A c \in Collector : status[c] = "live" => c \in toClose
    /\ closing = "closed" => \A c \in Collector : status[c] # "live"

\* Only what is up has received events, and each is counted, not written, or in
\* its inbox.
Accounted ==
    \A q \in Queues :
       /\ (\A k \in Calls : ~Up(k, q)) => counted[q] + unwritten[q] = finished[q]
       /\ \A k \in Calls :
             IF Up(k, q) THEN counted[q] + unwritten[q] + inbox[<<k, q>>] = finished[q]
             ELSE inbox[<<k, q>>] = 0

InTurnIInv ==
    scenario.wait = TRUE =>
        /\ OneBusy /\ ListingIsFirst /\ QuietClose
        /\ InTheMap /\ ConnectedOnce /\ LiveIsClosing /\ Accounted

-----------------------------------------------------------------------------
\* A step that changes none of the calls, the collectors and the Map, nor close().
LEMMA QuietKeepsIInv ==
    ASSUME CollectorsIInv, TypeOK', UNCHANGED <<scenario, calls, status, collectors, closing, toClose>>
    PROVE  CollectorsIInv'
<1>1. PhaseIInv' /\ MapIInv'
  BY DEF CollectorsIInv, PhaseIInv, MapIInv
<1>2. CallsIInv'
  BY DEF CollectorsIInv, CallsIInv, Owes
<1>3. MadeIInv' /\ FoundIInv'
  BY DEF CollectorsIInv, MadeIInv, FoundIInv
<1> QED
  BY <1>1, <1>2, <1>3 DEF CollectorsIInv

\* Queues appear, jobs finish and are heard of: no collector comes or goes.
LEMMA JobsKeepIInv ==
    ASSUME CollectorsIInv, UNCHANGED scenario,
           NEW q \in Queues,
           QueueAppears(q) \/ JobFinishes(q) \/ \E k \in Calls : onFinished(k, q)
    PROVE  CollectorsIInv'
<1>1. CASE QueueAppears(q)
  <2>1. TypeOK'
    BY <1>1 DEF QueueAppears, storeVars, CollectorsIInv, TypeOK
  <2> QED
    BY <1>1, <2>1, QuietKeepsIInv DEF QueueAppears
<1>2. CASE JobFinishes(q)
  <2>1. TypeOK'
    <3>1. scenario \in Scenarios /\ scenario.jobs \in Nat
      BY CollectorsAssumption DEF CollectorsIInv, PhaseIInv
    <3>2. finished' \in [Queues -> 0..scenario'.jobs]
      <4>1. finished \in [Queues -> 0..scenario.jobs] /\ finished[q] < scenario.jobs
            /\ finished' = [finished EXCEPT ![q] = @ + 1]
        BY <1>2 DEF JobFinishes, CollectorsIInv, TypeOK
      <4>2. finished[q] \in 0..scenario.jobs
        BY <4>1
      <4>3. finished[q] + 1 \in 0..scenario.jobs
        BY <3>1, <4>1, <4>2
      <4> QED
        BY <4>1, <4>3
    <3>3. inbox' \in [Collector -> Nat]
      <4>1. inbox \in [Collector -> Nat]
        BY DEF CollectorsIInv, TypeOK
      <4>2. inbox' = [c \in Collector |->
                        IF c[2] = q /\ status[c] = "live" THEN inbox[c] + 1 ELSE inbox[c]]
        BY <1>2 DEF JobFinishes
      <4>3. \A c \in Collector : inbox[c] \in Nat /\ inbox[c] + 1 \in Nat
        BY <4>1
      <4> HIDE DEF Collector
      <4> QED
        BY <4>2, <4>3
    <3> QED
      BY <1>2, <3>2, <3>3 DEF JobFinishes, CollectorsIInv, TypeOK
  <2> QED
    BY <1>2, <2>1, QuietKeepsIInv DEF JobFinishes
<1>3. ASSUME NEW k \in Calls, onFinished(k, q) PROVE CollectorsIInv'
  <2>1. TypeOK'
    <3>1. /\ inbox \in [Collector -> Nat] /\ inbox[<<k, q>>] > 0 /\ <<k, q>> \in Collector
          /\ inbox' = [inbox EXCEPT ![<<k, q>>] = @ - 1]
      BY <1>3 DEF onFinished, CollectorsIInv, TypeOK, Collector
    <3>2. inbox[<<k, q>>] - 1 \in Nat
      BY <3>1
    <3>3. inbox' \in [Collector -> Nat]
      BY <3>1, <3>2
    <3>4. counted' \in [Queues -> Nat] /\ unwritten' \in [Queues -> Nat]
      <4>1. counted \in [Queues -> Nat] /\ unwritten \in [Queues -> Nat]
        BY DEF CollectorsIInv, TypeOK
      <4>2. \/ counted' = [counted EXCEPT ![q] = @ + 1] /\ unwritten' = unwritten
            \/ unwritten' = [unwritten EXCEPT ![q] = @ + 1] /\ counted' = counted
        BY <1>3 DEF onFinished
      <4>3. counted[q] + 1 \in Nat /\ unwritten[q] + 1 \in Nat
        BY <4>1
      <4> QED
        BY <4>1, <4>2, <4>3
    <3> QED
      BY <1>3, <3>3, <3>4 DEF onFinished, CollectorsIInv, TypeOK
  <2> QED
    BY <1>3, <2>1, QuietKeepsIInv DEF onFinished
<1> QED
  BY <1>1, <1>2, <1>3

\* A call of startMetrics begins, or its listing fails.
LEMMA CallKeepsIInv ==
    ASSUME CollectorsIInv, UNCHANGED scenario,
           NEW k \in Calls, startMetrics(k) \/ ListingFails(k)
    PROVE  CollectorsIInv'
<1>1. /\ UNCHANGED <<existing, status, collectors, storeVars, closing, toClose>>
      /\ \E pc \in {"listing", "rejected"} : calls' = [calls EXCEPT ![k] = pc]
      /\ calls[k] \in {"not called", "listing"}
  BY DEF startMetrics, ListingFails
<1>2. TypeOK'
  BY <1>1 DEF CollectorsIInv, TypeOK, storeVars
<1>3. \A j \in Calls : calls'[j] \in {"starting", "resolved"} => calls'[j] = calls[j]
  BY <1>1 DEF CollectorsIInv, TypeOK
<1>4. MadeIInv'
  <2>1. \A j \in Calls : calls'[j] \in {"not called", "listing"} =>
           calls[j] \in {"not called", "listing"}
    BY <1>1 DEF CollectorsIInv, TypeOK
  <2> QED
    BY <1>1, <2>1 DEF CollectorsIInv, MadeIInv
<1>5. PhaseIInv' /\ MapIInv' /\ FoundIInv'
  BY <1>1 DEF CollectorsIInv, PhaseIInv, MapIInv, FoundIInv
<1>6. CallsIInv'
  BY <1>1, <1>3 DEF CollectorsIInv, CallsIInv, Owes
<1> QED
  BY <1>2, <1>4, <1>5, <1>6 DEF CollectorsIInv

\* The listing arrives: the call has its queues to start collectors for.
LEMMA ListedKeepsIInv ==
    ASSUME CollectorsIInv, UNCHANGED scenario, NEW k \in Calls, Listed(k)
    PROVE  CollectorsIInv'
<1> DEFINE names == Explicit \cup (IF Discover THEN existing ELSE {})
           fresh == {q \in names : collectors[q] = NoCall}
<1>1. /\ UNCHANGED <<existing, collectors, storeVars, closing, toClose>>
      /\ Create(k, fresh)
      /\ calls' = [calls EXCEPT ![k] = IF fresh = {} THEN "resolved" ELSE "starting"]
  BY DEF Listed
<1>2. fresh \subseteq Queues /\ \A q \in Queues : collectors[q] # NoCall => q \notin fresh
  BY CollectorsAssumption DEF CollectorsIInv, TypeOK
<1>3. \A q \in Explicit : collectors[q] # NoCall \/ q \in fresh
  OBVIOUS
<1> HIDE DEF names, fresh
<1>4. /\ status' \in [Collector -> {"none", "connecting", "live", "failed", "closed"}]
      /\ \A j \in Calls, q \in Queues : status'[<<j, q>>] =
            IF j = k /\ q \in fresh THEN "connecting" ELSE status[<<j, q>>]
  BY <1>1 DEF Create, Collector, CollectorsIInv, TypeOK
<1>5. TypeOK'
  BY <1>1, <1>4 DEF CollectorsIInv, TypeOK, storeVars
<1>6. MapIInv'
  <2> SUFFICES ASSUME NEW q \in Queues, collectors[q] # NoCall
               PROVE  status'[<<collectors[q], q>>] = status[<<collectors[q], q>>]
    BY <1>1 DEF CollectorsIInv, MapIInv
  <2>1. collectors[q] \in Calls
    BY DEF CollectorsIInv, TypeOK
  <2> QED
    BY <1>2, <1>4, <2>1
<1>7. CallsIInv'
  <2> SUFFICES ASSUME closing = "open", NEW j \in Calls, calls'[j] \in {"starting", "resolved"},
                      NEW q \in Explicit, collectors[q] = NoCall
               PROVE  calls'[j] = "starting" /\ status'[<<j, q>>] = "connecting"
    BY <1>1 DEF CallsIInv, Owes
  <2>1. q \in Queues /\ q \in fresh
    BY <1>3, CollectorsAssumption
  <2>2. CASE j = k
    BY <1>1, <1>4, <2>1, <2>2 DEF CollectorsIInv, TypeOK
  <2>3. CASE j # k
    <3>1. calls'[j] = calls[j]
      BY <1>1, <2>3 DEF CollectorsIInv, TypeOK
    <3>2. calls[j] = "starting" /\ status[<<j, q>>] = "connecting"
      BY <3>1 DEF CollectorsIInv, CallsIInv, Owes
    <3> QED
      BY <1>4, <2>1, <2>3, <3>1, <3>2
  <2> QED
    BY <2>2, <2>3
<1>8. \A q \in Queues : status[<<k, q>>] = "none"
  BY DEF Listed, CollectorsIInv, MadeIInv
<1>9. MadeIInv'
  <2> SUFFICES ASSUME NEW j \in Calls, calls'[j] \in {"not called", "listing"}, NEW q \in Queues
               PROVE  status'[<<j, q>>] = "none"
    BY DEF MadeIInv
  <2>1. j # k /\ calls'[j] = calls[j]
    BY <1>1 DEF CollectorsIInv, TypeOK
  <2> QED
    BY <1>4, <2>1 DEF CollectorsIInv, MadeIInv
<1>10. FoundIInv'
  <2>1. ASSUME NEW c \in toClose PROVE status'[c] = status[c]
    <3>1. PICK j \in Calls, q \in Queues : c = <<j, q>>
      <4>1. c \in Collector
        BY DEF CollectorsIInv, TypeOK
      <4> QED
        BY <4>1 DEF Collector
    <3>2. j # k
      BY <1>8, <3>1 DEF CollectorsIInv, FoundIInv
    <3> QED
      BY <1>4, <3>1, <3>2
  <2> QED
    BY <1>1, <2>1 DEF CollectorsIInv, FoundIInv
<1> QED
  BY <1>1, <1>5, <1>6, <1>7, <1>9, <1>10 DEF CollectorsIInv, PhaseIInv

\* A collector that is connecting is none that close() found, nor of a call that
\* has made none, and may come up or fail.
LEMMA ConnectedOrFailed ==
    ASSUME CollectorsIInv, NEW k \in Calls, NEW q \in Queues, NEW to,
           status[<<k, q>>] = "connecting", status' = [status EXCEPT ![<<k, q>>] = to],
           UNCHANGED <<closing, toClose>>,
           \A j \in Calls : calls'[j] \in {"not called", "listing"} => calls'[j] = calls[j]
    PROVE  MadeIInv' /\ FoundIInv'
<1>1. \A c \in Collector : c # <<k, q>> => status'[c] = status[c]
  BY DEF CollectorsIInv, TypeOK
<1>2. FoundIInv'
  <2>1. <<k, q>> \notin toClose /\ toClose \subseteq Collector
    BY DEF CollectorsIInv, TypeOK, FoundIInv
  <2> QED
    BY <1>1, <2>1 DEF CollectorsIInv, FoundIInv
<1>3. MadeIInv'
  <2> SUFFICES ASSUME NEW j \in Calls, calls'[j] \in {"not called", "listing"}, NEW r \in Queues
               PROVE  status'[<<j, r>>] = "none"
    BY DEF MadeIInv
  <2>1. status[<<j, r>>] = "none" /\ <<j, r>> \in Collector
    BY DEF CollectorsIInv, MadeIInv, Collector
  <2>2. <<j, r>> # <<k, q>>
    BY <2>1
  <2> QED
    BY <1>1, <2>1, <2>2
<1> QED
  BY <1>2, <1>3

\* A collector has come up, and the call turns to its next queue.
LEMMA ReadyKeepsIInv ==
    ASSUME CollectorsIInv, UNCHANGED scenario, NEW k \in Calls, NEW q \in Queues, Ready(k, q)
    PROVE  CollectorsIInv'
<1> DEFINE last == \A r \in Queues \ {q} : status[<<k, r>>] # "connecting"
<1>1. /\ UNCHANGED <<existing, storeVars, closing, toClose>>
      /\ status[<<k, q>>] = "connecting"
      /\ status' = [status EXCEPT ![<<k, q>>] = "live"]
      /\ collectors' = [collectors EXCEPT ![q] = k]
      /\ calls' = [calls EXCEPT ![k] = IF @ = "starting" /\ last THEN "resolved" ELSE @]
  BY DEF Ready
<1> HIDE DEF last
<1>2. <<k, q>> \in Collector /\ k # NoCall
  BY CollectorsAssumption DEF Collector
<1>3. /\ status' \in [Collector -> {"none", "connecting", "live", "failed", "closed"}]
      /\ status'[<<k, q>>] = "live"
      /\ \A j \in Calls, r \in Queues : <<j, r>> # <<k, q>> => status'[<<j, r>>] = status[<<j, r>>]
  BY <1>1, <1>2 DEF Collector, CollectorsIInv, TypeOK
<1>4. TypeOK'
  BY <1>1, <1>3 DEF CollectorsIInv, TypeOK, storeVars
<1>5. /\ collectors'[q] = k
      /\ \A r \in Queues \ {q} : collectors'[r] = collectors[r]
      /\ \A r \in Queues : collectors[r] \in Calls \cup {NoCall}
  BY <1>1 DEF CollectorsIInv, TypeOK
<1>6. MapIInv'
  <2> SUFFICES ASSUME NEW r \in Queues, collectors'[r] # NoCall
               PROVE  \/ status'[<<collectors'[r], r>>] = "live"
                      \/ closing = "closing collectors" /\ status'[<<collectors'[r], r>>] = "closed"
    BY <1>1 DEF MapIInv
  <2>1. CASE r = q
    BY <1>3, <1>5, <2>1
  <2>2. CASE r # q
    <3>1. collectors'[r] = collectors[r] /\ collectors[r] \in Calls
      BY <1>5, <2>2
    <3>2. status'[<<collectors[r], r>>] = status[<<collectors[r], r>>]
      BY <1>3, <2>2, <3>1
    <3> QED
      BY <3>1, <3>2 DEF CollectorsIInv, MapIInv
  <2> QED
    BY <2>1, <2>2
<1>7. CallsIInv'
  <2> SUFFICES ASSUME closing = "open", NEW j \in Calls, calls'[j] \in {"starting", "resolved"},
                      NEW r \in Explicit, collectors'[r] = NoCall
               PROVE  calls'[j] = "starting" /\ status'[<<j, r>>] = "connecting"
    BY <1>1 DEF CallsIInv, Owes
  <2>1. r \in Queues /\ r # q /\ collectors[r] = NoCall
    BY <1>2, <1>5, CollectorsAssumption
  <2>2. calls[j] \in {"starting", "resolved"}
    BY <1>1 DEF CollectorsIInv, TypeOK
  <2>3. calls[j] = "starting" /\ status[<<j, r>>] = "connecting"
    BY <2>1, <2>2 DEF CollectorsIInv, CallsIInv, Owes
  <2>4. j = k => ~last
    BY <2>1, <2>3 DEF last
  <2>5. calls'[j] = "starting"
    BY <1>1, <2>3, <2>4 DEF CollectorsIInv, TypeOK
  <2> QED
    BY <1>3, <2>1, <2>3, <2>5
<1>8. MadeIInv' /\ FoundIInv'
  <2>1. \A j \in Calls : calls'[j] \in {"not called", "listing"} => calls'[j] = calls[j]
    BY <1>1 DEF CollectorsIInv, TypeOK
  <2> QED
    BY <1>1, <2>1, ConnectedOrFailed
<1> QED
  BY <1>1, <1>4, <1>6, <1>7, <1>8 DEF CollectorsIInv, PhaseIInv

\* A collector does not come up: the call rejects, and leaves the ones it made.
LEMMA StartFailsKeepsIInv ==
    ASSUME CollectorsIInv, UNCHANGED scenario, NEW k \in Calls, NEW q \in Queues, StartFails(k, q)
    PROVE  CollectorsIInv'
<1>1. /\ UNCHANGED <<existing, collectors, storeVars, closing, toClose>>
      /\ status[<<k, q>>] = "connecting"
      /\ status' = [status EXCEPT ![<<k, q>>] = "failed"]
      /\ calls' = [calls EXCEPT ![k] = "rejected"]
  BY DEF StartFails
<1>2. <<k, q>> \in Collector
  BY DEF Collector
<1>3. /\ status' \in [Collector -> {"none", "connecting", "live", "failed", "closed"}]
      /\ \A j \in Calls, r \in Queues : <<j, r>> # <<k, q>> => status'[<<j, r>>] = status[<<j, r>>]
  BY <1>1, <1>2 DEF Collector, CollectorsIInv, TypeOK
<1>4. TypeOK'
  BY <1>1, <1>3 DEF CollectorsIInv, TypeOK, storeVars
<1>5. MapIInv'
  <2> SUFFICES ASSUME NEW r \in Queues, collectors[r] # NoCall
               PROVE  status'[<<collectors[r], r>>] = status[<<collectors[r], r>>]
    BY <1>1 DEF CollectorsIInv, MapIInv
  <2>1. collectors[r] \in Calls
    BY DEF CollectorsIInv, TypeOK
  <2>2. <<collectors[r], r>> # <<k, q>>
    BY <1>1 DEF CollectorsIInv, MapIInv
  <2> QED
    BY <1>3, <2>1, <2>2
<1>6. CallsIInv'
  <2> SUFFICES ASSUME closing = "open", NEW j \in Calls, calls'[j] \in {"starting", "resolved"},
                      NEW r \in Explicit, collectors[r] = NoCall
               PROVE  calls'[j] = "starting" /\ status'[<<j, r>>] = "connecting"
    BY <1>1 DEF CallsIInv, Owes
  <2>1. j # k /\ calls'[j] = calls[j] /\ r \in Queues
    BY <1>1, CollectorsAssumption DEF CollectorsIInv, TypeOK
  <2>2. calls[j] = "starting" /\ status[<<j, r>>] = "connecting"
    BY <2>1 DEF CollectorsIInv, CallsIInv, Owes
  <2> QED
    BY <1>3, <2>1, <2>2
<1>7. MadeIInv' /\ FoundIInv'
  <2>1. \A j \in Calls : calls'[j] \in {"not called", "listing"} => calls'[j] = calls[j]
    BY <1>1 DEF CollectorsIInv, TypeOK
  <2> QED
    BY <1>1, <2>1, ConnectedOrFailed
<1> QED
  BY <1>1, <1>4, <1>5, <1>6, <1>7 DEF CollectorsIInv, PhaseIInv

\* close() closes the collectors one by one, and then forgets them.
LEMMA CloseKeepsIInv ==
    ASSUME CollectorsIInv, UNCHANGED scenario,
           close \/ CloseCollectors \/ ClearCollectors \/ \E c \in Collector : CollectorCloses(c)
    PROVE  CollectorsIInv'
<1>1. CASE close
  <2>1. TypeOK'
    BY <1>1 DEF close, CollectorsIInv, TypeOK, storeVars
  <2>2. /\ UNCHANGED <<calls, status, collectors, toClose>>
        /\ closing = "open" /\ closing' = "closing evaluator"
    BY <1>1 DEF close
  <2>3. PhaseIInv' /\ MapIInv' /\ CallsIInv'
    BY <2>2 DEF CollectorsIInv, PhaseIInv, MapIInv, CallsIInv
  <2>4. MadeIInv' /\ FoundIInv'
    BY <2>2 DEF CollectorsIInv, MadeIInv, FoundIInv
  <2> QED
    BY <2>1, <2>3, <2>4 DEF CollectorsIInv
<1>2. CASE CloseCollectors
  <2>1. TypeOK'
    BY <1>2 DEF CloseCollectors, CollectorsIInv, TypeOK, storeVars
  <2>2. FoundIInv'
    <3>1. ASSUME NEW c \in toClose' PROVE status'[c] = "live"
      <4>0. c \in Collector /\ collectors[c[2]] = c[1]
        BY <1>2, <3>1 DEF CloseCollectors
      <4>1. PICK k \in Calls, q \in Queues : c = <<k, q>> /\ collectors[q] = k
        BY <4>0 DEF Collector
      <4>2. collectors[q] # NoCall /\ closing = "closing evaluator" /\ status' = status
        BY <1>2, <4>1, CollectorsAssumption DEF CloseCollectors
      <4> QED
        BY <4>1, <4>2 DEF CollectorsIInv, MapIInv
    <3> QED
      BY <1>2, <3>1 DEF CloseCollectors, FoundIInv
  <2> QED
    BY <1>2, <2>1, <2>2 DEF CloseCollectors, CollectorsIInv, PhaseIInv, MapIInv, CallsIInv, Owes, MadeIInv
<1>3. CASE ClearCollectors
  <2>1. TypeOK'
    BY <1>3 DEF ClearCollectors, CollectorsIInv, TypeOK, storeVars
  <2> QED
    BY <1>3, <2>1 DEF ClearCollectors, CollectorsIInv, PhaseIInv, MapIInv, CallsIInv, Owes, MadeIInv,
                      FoundIInv
<1>4. ASSUME NEW c \in Collector, CollectorCloses(c) PROVE CollectorsIInv'
  <2>1. TypeOK'
    BY <1>4 DEF CollectorCloses, CollectorsIInv, TypeOK, storeVars
  <2>2. closing = "closing collectors" /\ closing' = closing /\ collectors' = collectors
    BY <1>4 DEF CollectorCloses
  <2>3. PhaseIInv' /\ CallsIInv'
    BY <1>4, <2>2 DEF CollectorsIInv, PhaseIInv, CallsIInv, CollectorCloses
  <2>4. MapIInv'
    <3> SUFFICES ASSUME NEW r \in Queues, collectors[r] # NoCall
                 PROVE  status'[<<collectors[r], r>>] \in {status[<<collectors[r], r>>], "closed"}
      BY <2>2 DEF CollectorsIInv, MapIInv
    <3>1. collectors[r] \in Calls /\ <<collectors[r], r>> \in Collector
      BY DEF CollectorsIInv, TypeOK, Collector
    <3>2. status' = [status EXCEPT ![c] = "closed"]
      BY <1>4 DEF CollectorCloses
    <3> QED
      BY <3>1, <3>2 DEF CollectorsIInv, TypeOK
  <2>5. MadeIInv' /\ FoundIInv'
    <3>1. /\ status' = [status EXCEPT ![c] = "closed"] /\ status[c] = "live"
          /\ UNCHANGED <<calls, closing, toClose>>
      BY <1>4 DEF CollectorCloses
    <3>2. \A d \in Collector : status'[d] = IF d = c THEN "closed" ELSE status[d]
      BY <3>1 DEF CollectorsIInv, TypeOK
    <3>3. FoundIInv'
      BY <2>2, <3>1, <3>2 DEF CollectorsIInv, TypeOK, FoundIInv
    <3>4. \A k \in Calls, q \in Queues : <<k, q>> \in Collector
      BY DEF Collector
    <3>5. MadeIInv'
      BY <3>1, <3>2, <3>4 DEF CollectorsIInv, MadeIInv
    <3> QED
      BY <3>3, <3>5
  <2> QED
    BY <2>1, <2>3, <2>4, <2>5 DEF CollectorsIInv
<1> QED
  BY <1>1, <1>2, <1>3, <1>4

\* Every step of the pipeline keeps the invariant of the collectors.
LEMMA NextCollectorsIInv == CollectorsIInv /\ [LiveNext]_liveVars => CollectorsIInv'
<1> SUFFICES ASSUME CollectorsIInv, [LiveNext]_liveVars PROVE CollectorsIInv'
  OBVIOUS
<1>1. CASE UNCHANGED vars
  <2>1. TypeOK'
    BY <1>1 DEF vars, storeVars, CollectorsIInv, TypeOK
  <2>2. UNCHANGED <<scenario, calls, status, collectors, closing, toClose>>
    BY <1>1 DEF vars
  <2> QED
    BY <2>1, <2>2, QuietKeepsIInv
<1>2. CASE Next
  BY <1>2, JobsKeepIInv, CallKeepsIInv, ListedKeepsIInv, ReadyKeepsIInv, StartFailsKeepsIInv,
     CloseKeepsIInv DEF Next
<1> QED
  BY <1>1, <1>2 DEF LiveNext, liveVars

\* No collector is up initially.
LEMMA InitCollectorsIInv == Init => CollectorsIInv
<1> SUFFICES ASSUME Init PROVE CollectorsIInv
  OBVIOUS
<1>1. scenario \in Scenarios /\ scenario.jobs \in Nat
  BY CollectorsAssumption DEF Init
<1>2. TypeOK
  <2>1. finished \in [Queues -> 0..scenario.jobs]
    <3>1. 0 \in 0..scenario.jobs
      BY <1>1
    <3> QED
      BY <3>1 DEF Init
  <2> QED
    BY <2>1 DEF Init, TypeOK
<1>3. PhaseIInv /\ MapIInv /\ CallsIInv /\ MadeIInv /\ FoundIInv
  BY DEF Init, PhaseIInv, MapIInv, CallsIInv, MadeIInv, FoundIInv, Collector
<1> QED
  BY <1>2, <1>3 DEF CollectorsIInv

\* The invariant of the collectors holds throughout.
LEMMA SpecCollectorsIInv == LiveSpec => []CollectorsIInv
BY InitCollectorsIInv, NextCollectorsIInv, PTL DEF LiveSpec, LiveInit

(***************************************************************************)
(* However calls of startMetrics overlap with one another, with failing    *)
(* starts and with close() (app.ts), the Map holds only collectors that    *)
(* came up, and a call that resolved has left none of the configured       *)
(* queues without one.                                                     *)
(***************************************************************************)
THEOREM CollectorsComeUp == LiveSpec => []CollectorsAreUp
<1>1. CollectorsIInv => CollectorsAreUp
  <2> SUFFICES ASSUME CollectorsIInv PROVE CollectorsAreUp
    OBVIOUS
  <2>1. MapHoldsStartedCollectors
    BY DEF CollectorsIInv, MapIInv, MapHoldsStartedCollectors
  <2>2. ResolvedMeansCollecting
    <3> SUFFICES ASSUME closing = "open", NEW k \in Calls, calls[k] = "resolved", NEW q \in Explicit
                 PROVE  \E j \in Calls : collectors[q] = j /\ status[<<j, q>>] = "live"
      BY DEF ResolvedMeansCollecting
    <3>1. q \in Queues /\ collectors[q] # NoCall
      BY CollectorsAssumption DEF CollectorsIInv, CallsIInv, Owes
    <3>2. collectors[q] \in Calls /\ status[<<collectors[q], q>>] = "live"
      BY <3>1 DEF CollectorsIInv, TypeOK, MapIInv
    <3> QED
      BY <3>2
  <2> QED
    BY <2>1, <2>2 DEF CollectorsAreUp
<1> QED
  BY <1>1, SpecCollectorsIInv, PTL

-----------------------------------------------------------------------------
(* Calls that are made in turn. *)

\* What is busy after a step was before, when no call is made and none is listed.
LEMMA BusyShrinks ==
    ASSUME \A k \in Calls : calls'[k] \in {"listing", "starting"} => calls'[k] = calls[k],
           \A k \in Calls, q \in Queues :
              status'[<<k, q>>] = "connecting" => status[<<k, q>>] = "connecting",
           OneBusy, ListingIsFirst, QuietClose, closing' = closing
    PROVE  (OneBusy /\ ListingIsFirst /\ QuietClose)'
<1>1. \A k \in Calls : Busy(k)' => Busy(k)
  BY DEF Busy
<1>2. ListingIsFirst'
  BY DEF ListingIsFirst
<1> QED
  BY <1>1, <1>2 DEF OneBusy, QuietClose

\* A job that finishes is heard of by one live collector, and counted once.
LEMMA JobsKeepInTurn ==
    ASSUME CollectorsIInv, InTurnIInv, UNCHANGED scenario, scenario.wait = TRUE, NEW q \in Queues,
           QueueAppears(q) \/ JobFinishes(q) \/ \E k \in Calls : onFinished(k, q)
    PROVE  InTurnIInv'
<1>1. UNCHANGED <<calls, status, collectors, closing, toClose>>
  BY DEF QueueAppears, JobFinishes, onFinished
<1>2. OneBusy' /\ ListingIsFirst' /\ QuietClose'
  BY <1>1 DEF InTurnIInv, OneBusy, ListingIsFirst, QuietClose, Busy
<1>3. InTheMap' /\ ConnectedOnce' /\ LiveIsClosing'
  BY <1>1 DEF InTurnIInv, InTheMap, ConnectedOnce, LiveIsClosing, Up
<1>4. Accounted'
  <2>0. \A k \in Calls, r \in Queues : Up(k, r)' <=> Up(k, r)
    BY <1>1 DEF Up
  <2>1. CASE QueueAppears(q)
    BY <2>0, <2>1 DEF InTurnIInv, Accounted, QueueAppears, storeVars
  <2>2. CASE JobFinishes(q)
    <3>1. \A r \in Queues : r # q => finished'[r] = finished[r]
      BY <2>2 DEF JobFinishes, CollectorsIInv, TypeOK
    <3>2. finished'[q] = finished[q] + 1 /\ counted' = counted /\ unwritten' = unwritten
      BY <2>2 DEF JobFinishes, CollectorsIInv, TypeOK
    <3>3. \A k \in Calls, r \in Queues :
             inbox'[<<k, r>>] = IF r = q /\ status[<<k, r>>] = "live" THEN inbox[<<k, r>>] + 1
                                ELSE inbox[<<k, r>>]
      BY <2>2 DEF JobFinishes, Collector
    <3>4. PICK j \in Calls : status[<<j, q>>] = "live"
      BY <2>2 DEF JobFinishes
    <3>5. \A k \in Calls : Up(k, q) => k = j
      BY <3>4 DEF InTurnIInv, ConnectedOnce, Up
    <3>6. counted[q] + unwritten[q] + inbox[<<j, q>>] = finished[q] /\ Up(j, q)
      BY <3>4 DEF InTurnIInv, Accounted, Up
    <3>7. counted[q] \in Nat /\ unwritten[q] \in Nat /\ inbox[<<j, q>>] \in Nat
      BY DEF CollectorsIInv, TypeOK, Collector
    <3>8. counted'[q] + unwritten'[q] + inbox'[<<j, q>>] = finished'[q]
      BY <3>2, <3>3, <3>4, <3>6, <3>7
    <3>9. \A k \in Calls : k # j => inbox'[<<k, q>>] = 0 /\ ~Up(k, q)
      BY <3>3, <3>5 DEF InTurnIInv, Accounted, Up
    <3>10. \A k \in Calls, r \in Queues : r # q => inbox'[<<k, r>>] = inbox[<<k, r>>]
      BY <3>3
    <3> SUFFICES ASSUME NEW r \in Queues
                 PROVE  /\ (\A k \in Calls : ~Up(k, r)) =>
                              counted'[r] + unwritten'[r] = finished'[r]
                        /\ \A k \in Calls :
                              IF Up(k, r)
                              THEN counted'[r] + unwritten'[r] + inbox'[<<k, r>>] = finished'[r]
                              ELSE inbox'[<<k, r>>] = 0
      BY <2>0 DEF Accounted
    <3>11. CASE r = q
      BY <3>5, <3>6, <3>8, <3>9, <3>11
    <3>12. CASE r # q
      BY <3>1, <3>2, <3>10, <3>12 DEF InTurnIInv, Accounted
    <3> QED
      BY <3>11, <3>12
  <2>3. ASSUME NEW j \in Calls, onFinished(j, q) PROVE Accounted'
    <3>1. /\ <<j, q>> \in Collector /\ inbox[<<j, q>>] > 0 /\ inbox[<<j, q>>] \in Nat
          /\ counted[q] \in Nat /\ unwritten[q] \in Nat
      BY <2>3 DEF onFinished, CollectorsIInv, TypeOK, Collector
    <3>2. /\ inbox'[<<j, q>>] = inbox[<<j, q>>] - 1
          /\ \A k \in Calls, r \in Queues : <<k, r>> # <<j, q>> => inbox'[<<k, r>>] = inbox[<<k, r>>]
      BY <2>3, <3>1 DEF onFinished, CollectorsIInv, TypeOK, Collector
    <3>3. /\ finished' = finished
          /\ \/ counted'[q] = counted[q] + 1 /\ unwritten'[q] = unwritten[q]
             \/ unwritten'[q] = unwritten[q] + 1 /\ counted'[q] = counted[q]
          /\ \A r \in Queues : r # q => counted'[r] = counted[r] /\ unwritten'[r] = unwritten[r]
      BY <2>3 DEF onFinished, CollectorsIInv, TypeOK
    <3>4. Up(j, q) /\ counted[q] + unwritten[q] + inbox[<<j, q>>] = finished[q]
      BY <3>1 DEF InTurnIInv, Accounted
    <3>5. \A k \in Calls : Up(k, q) => k = j
      BY <3>4 DEF InTurnIInv, ConnectedOnce
    <3>6. counted'[q] + unwritten'[q] + inbox'[<<j, q>>] = finished[q]
      BY <3>1, <3>2, <3>3, <3>4
    <3> SUFFICES ASSUME NEW r \in Queues
                 PROVE  /\ (\A k \in Calls : ~Up(k, r)) =>
                              counted'[r] + unwritten'[r] = finished'[r]
                        /\ \A k \in Calls :
                              IF Up(k, r)
                              THEN counted'[r] + unwritten'[r] + inbox'[<<k, r>>] = finished'[r]
                              ELSE inbox'[<<k, r>>] = 0
      BY <2>0 DEF Accounted
    <3>7. CASE r = q
      <4>1. ASSUME NEW k \in Calls, k # j PROVE inbox'[<<k, q>>] = 0 /\ ~Up(k, q)
        BY <3>2, <3>5, <4>1 DEF InTurnIInv, Accounted
      <4> QED
        BY <3>3, <3>4, <3>6, <3>7, <4>1
    <3>8. CASE r # q
      BY <3>2, <3>3, <3>8 DEF InTurnIInv, Accounted
    <3> QED
      BY <3>7, <3>8
  <2> QED
    BY <2>1, <2>2, <2>3
<1> QED
  BY <1>2, <1>3, <1>4 DEF InTurnIInv

\* The conjuncts that a step disturbs only through the collectors and the Map.
LEMMA CollectorsUntouched ==
    ASSUME InTurnIInv, scenario.wait = TRUE,
           UNCHANGED <<status, collectors, storeVars, closing, toClose>>
    PROVE  InTheMap' /\ ConnectedOnce' /\ LiveIsClosing' /\ Accounted'
BY DEF InTurnIInv, InTheMap, ConnectedOnce, LiveIsClosing, Accounted, Up, storeVars

\* Waiting callers find nothing under way.
LEMMA NothingUnderWay ==
    ASSUME ~Underway
    PROVE  \A k \in Calls : ~Busy(k)
BY DEF Underway, Busy, Connecting, Collector

\* A call of startMetrics begins, or its listing fails.
LEMMA CallKeepsInTurn ==
    ASSUME CollectorsIInv, InTurnIInv, UNCHANGED scenario, scenario.wait = TRUE,
           NEW k \in Calls, startMetrics(k) \/ ListingFails(k)
    PROVE  InTurnIInv'
<1>1. UNCHANGED <<status, collectors, storeVars, closing, toClose>>
  BY DEF startMetrics, ListingFails
<1>2. InTheMap' /\ ConnectedOnce' /\ LiveIsClosing' /\ Accounted'
  BY <1>1, CollectorsUntouched
<1>3. CASE startMetrics(k)
  <2>1. \A j \in Calls : ~Busy(j)
    BY <1>3, NothingUnderWay DEF startMetrics
  <2>2. closing' = "open" /\ calls' = [calls EXCEPT ![k] = "listing"] /\ status' = status
    BY <1>3 DEF startMetrics
  <2>3. \A j \in Calls, q \in Queues : status'[<<j, q>>] # "connecting"
    BY <2>1, <2>2 DEF Busy
  <2>4. \A j \in Calls : j # k => calls'[j] \notin {"listing", "starting"}
    BY <2>1, <2>2 DEF Busy, CollectorsIInv, TypeOK
  <2>5. \A j \in Calls : Busy(j)' => j = k
    BY <2>3, <2>4 DEF Busy
  <2>6. OneBusy' /\ ListingIsFirst' /\ QuietClose'
    BY <2>2, <2>3, <2>5 DEF OneBusy, ListingIsFirst, QuietClose
  <2> QED
    BY <1>2, <2>6 DEF InTurnIInv
<1>4. CASE ListingFails(k)
  <2>1. calls' = [calls EXCEPT ![k] = "rejected"]
    BY <1>4 DEF ListingFails
  <2>2. \A j \in Calls : calls'[j] \in {"listing", "starting"} => calls'[j] = calls[j]
    BY <2>1 DEF CollectorsIInv, TypeOK
  <2>3. OneBusy' /\ ListingIsFirst' /\ QuietClose'
    BY <1>1, <2>2, BusyShrinks DEF InTurnIInv
  <2> QED
    BY <1>2, <2>3 DEF InTurnIInv
<1> QED
  BY <1>3, <1>4

\* The listing of the one call under way arrives.
LEMMA ListedKeepsInTurn ==
    ASSUME CollectorsIInv, InTurnIInv, UNCHANGED scenario, scenario.wait = TRUE,
           NEW k \in Calls, Listed(k)
    PROVE  InTurnIInv'
<1> DEFINE names == Explicit \cup (IF Discover THEN existing ELSE {})
           fresh == {q \in names : collectors[q] = NoCall}
<1>1. /\ calls[k] = "listing"
      /\ UNCHANGED <<existing, collectors, storeVars, closing, toClose>>
      /\ Create(k, fresh)
      /\ calls' = [calls EXCEPT ![k] = IF fresh = {} THEN "resolved" ELSE "starting"]
  BY DEF Listed
<1>2. fresh \subseteq Queues /\ \A q \in fresh : collectors[q] = NoCall
  BY CollectorsAssumption DEF CollectorsIInv, TypeOK
<1> HIDE DEF names, fresh
<1>3. \A j \in Calls, q \in Queues : status'[<<j, q>>] =
         IF j = k /\ q \in fresh THEN "connecting" ELSE status[<<j, q>>]
  BY <1>1 DEF Create, Collector
<1>4. Busy(k) /\ closing = "open" /\ closing' = "open" /\ \A j \in Calls : Busy(j) => j = k
  BY <1>1 DEF Busy, InTurnIInv, OneBusy, QuietClose
<1>5. \A j \in Calls : j # k => ~Busy(j)'
  <2> SUFFICES ASSUME NEW j \in Calls, j # k PROVE ~Busy(j)'
    OBVIOUS
  <2>1. ~Busy(j) /\ calls'[j] = calls[j]
    BY <1>1, <1>4 DEF CollectorsIInv, TypeOK
  <2> QED
    BY <1>3, <2>1 DEF Busy
<1>6. calls'[k] # "listing"
  BY <1>1 DEF CollectorsIInv, TypeOK
<1>7. OneBusy' /\ ListingIsFirst' /\ QuietClose'
  <2>1. \A j \in Calls : calls'[j] # "listing"
    BY <1>5, <1>6 DEF Busy
  <2> QED
    BY <1>4, <1>5, <2>1 DEF OneBusy, ListingIsFirst, QuietClose
<1>8. \A q \in fresh, j \in Calls : ~Up(j, q)
  BY <1>2, <1>4, CollectorsAssumption DEF InTurnIInv, InTheMap
<1>9. \A j \in Calls, q \in Queues : Up(j, q)' <=> Up(j, q)
  BY <1>3, <1>8 DEF Up
<1>10. InTheMap' /\ LiveIsClosing'
  BY <1>1, <1>4, <1>9 DEF InTurnIInv, InTheMap, LiveIsClosing
<1>11. ConnectedOnce'
  <2> SUFFICES ASSUME NEW j \in Calls, NEW i \in Calls, NEW q \in Queues, Up(i, q)
               PROVE  (Up(j, q) => j = i) /\ status'[<<j, q>>] # "connecting"
    BY <1>9 DEF ConnectedOnce
  <2>1. q \notin fresh
    BY <1>8
  <2> QED
    BY <1>3, <2>1 DEF InTurnIInv, ConnectedOnce
<1>12. Accounted'
  BY <1>1, <1>9 DEF InTurnIInv, Accounted, storeVars
<1> QED
  BY <1>7, <1>10, <1>11, <1>12 DEF InTurnIInv

\* The one call under way has a collector more, of a queue that had none.
LEMMA ReadyKeepsInTurn ==
    ASSUME CollectorsIInv, InTurnIInv, UNCHANGED scenario, scenario.wait = TRUE,
           NEW k \in Calls, NEW q \in Queues, Ready(k, q)
    PROVE  InTurnIInv'
<1> DEFINE last == \A r \in Queues \ {q} : status[<<k, r>>] # "connecting"
<1>1. /\ UNCHANGED <<existing, storeVars, closing, toClose>>
      /\ status[<<k, q>>] = "connecting"
      /\ status' = [status EXCEPT ![<<k, q>>] = "live"]
      /\ collectors' = [collectors EXCEPT ![q] = k]
      /\ calls' = [calls EXCEPT ![k] = IF @ = "starting" /\ last THEN "resolved" ELSE @]
  BY DEF Ready
<1> HIDE DEF last
<1>2. /\ status'[<<k, q>>] = "live"
      /\ \A j \in Calls, r \in Queues : <<j, r>> # <<k, q>> => status'[<<j, r>>] = status[<<j, r>>]
  BY <1>1 DEF Collector, CollectorsIInv, TypeOK
<1>3. Busy(k) /\ closing = "open" /\ closing' = "open"
  BY <1>1 DEF Busy, InTurnIInv, QuietClose
<1>4. \A j \in Calls : calls'[j] \in {"listing", "starting"} => calls'[j] = calls[j]
  BY <1>1 DEF CollectorsIInv, TypeOK
<1>5. OneBusy' /\ ListingIsFirst' /\ QuietClose'
  BY <1>2, <1>3, <1>4, BusyShrinks DEF InTurnIInv
<1>6. \A j \in Calls : ~Up(j, q)
  BY <1>1 DEF InTurnIInv, ConnectedOnce
<1>7. \A j \in Calls, r \in Queues : Up(j, r)' <=> (Up(j, r) \/ (j = k /\ r = q))
  BY <1>2 DEF Up
<1>8. InTheMap'
  BY <1>1, <1>3, <1>6, <1>7 DEF InTurnIInv, InTheMap, CollectorsIInv, TypeOK
<1>9. LiveIsClosing'
  BY <1>1, <1>3 DEF LiveIsClosing
<1>10. ConnectedOnce'
  <2> SUFFICES ASSUME NEW j \in Calls, NEW i \in Calls, NEW r \in Queues, Up(i, r)'
               PROVE  (Up(j, r)' => j = i) /\ status'[<<j, r>>] # "connecting"
    BY DEF ConnectedOnce
  <2>1. CASE r = q
    <3>1. i = k
      BY <1>6, <1>7, <2>1
    <3>2. j # k => status[<<j, q>>] # "connecting"
      BY <1>1, <1>3 DEF Busy, InTurnIInv, OneBusy
    <3> QED
      BY <1>2, <1>6, <1>7, <2>1, <3>1, <3>2
  <2>2. CASE r # q
    <3>1. Up(i, r) /\ (Up(j, r)' <=> Up(j, r))
      BY <1>7, <2>2
    <3> QED
      BY <1>2, <2>2, <3>1 DEF InTurnIInv, ConnectedOnce
  <2> QED
    BY <2>1, <2>2
<1>11. Accounted'
  <2>1. UNCHANGED <<inbox, counted, unwritten, finished>>
    BY <1>1 DEF storeVars
  <2>2. counted[q] + unwritten[q] = finished[q] /\ \A j \in Calls : inbox[<<j, q>>] = 0
    BY <1>6 DEF InTurnIInv, Accounted
  <2>3. counted[q] + unwritten[q] + inbox[<<k, q>>] = finished[q]
    <3>1. counted[q] \in Nat /\ unwritten[q] \in Nat
      BY DEF CollectorsIInv, TypeOK
    <3> QED
      BY <2>2, <3>1
  <2> SUFFICES ASSUME NEW r \in Queues
               PROVE  /\ (\A j \in Calls : ~Up(j, r)') => counted[r] + unwritten[r] = finished[r]
                      /\ \A j \in Calls :
                            IF Up(j, r)'
                            THEN counted[r] + unwritten[r] + inbox[<<j, r>>] = finished[r]
                            ELSE inbox[<<j, r>>] = 0
    BY <2>1 DEF Accounted
  <2>4. CASE r = q
    BY <1>6, <1>7, <2>2, <2>3, <2>4
  <2>5. CASE r # q
    BY <1>7, <2>5 DEF InTurnIInv, Accounted
  <2> QED
    BY <2>4, <2>5
<1> QED
  BY <1>5, <1>8, <1>9, <1>10, <1>11 DEF InTurnIInv

\* The one call under way rejects.
LEMMA StartFailsKeepsInTurn ==
    ASSUME CollectorsIInv, InTurnIInv, UNCHANGED scenario, scenario.wait = TRUE,
           NEW k \in Calls, NEW q \in Queues, StartFails(k, q)
    PROVE  InTurnIInv'
<1>1. /\ UNCHANGED <<collectors, storeVars, closing, toClose>>
      /\ status[<<k, q>>] = "connecting"
      /\ status' = [status EXCEPT ![<<k, q>>] = "failed"]
      /\ calls' = [calls EXCEPT ![k] = "rejected"]
  BY DEF StartFails
<1>2. /\ status'[<<k, q>>] = "failed"
      /\ \A j \in Calls, r \in Queues : <<j, r>> # <<k, q>> => status'[<<j, r>>] = status[<<j, r>>]
  BY <1>1 DEF Collector, CollectorsIInv, TypeOK
<1>3. \A j \in Calls : calls'[j] \in {"listing", "starting"} => calls'[j] = calls[j]
  BY <1>1 DEF CollectorsIInv, TypeOK
<1>4. OneBusy' /\ ListingIsFirst' /\ QuietClose'
  BY <1>1, <1>2, <1>3, BusyShrinks DEF InTurnIInv
<1>5. \A j \in Calls, r \in Queues : Up(j, r)' <=> Up(j, r)
  BY <1>1, <1>2 DEF Up
<1>6. InTheMap'
  BY <1>1, <1>5 DEF InTurnIInv, InTheMap
<1>7. LiveIsClosing'
  <2>1. closing = "open"
    BY <1>1 DEF Busy, InTurnIInv, QuietClose
  <2> QED
    BY <1>1, <2>1 DEF LiveIsClosing
<1>8. ConnectedOnce'
  BY <1>2, <1>5 DEF InTurnIInv, ConnectedOnce
<1>9. Accounted'
  BY <1>1, <1>5 DEF InTurnIInv, Accounted, storeVars
<1> QED
  BY <1>4, <1>6, <1>7, <1>8, <1>9 DEF InTurnIInv

\* close() comes when no call is under way.
LEMMA CloseKeepsInTurn ==
    ASSUME CollectorsIInv, InTurnIInv, UNCHANGED scenario, scenario.wait = TRUE,
           close \/ CloseCollectors \/ ClearCollectors \/ \E c \in Collector : CollectorCloses(c)
    PROVE  InTurnIInv'
<1>1. CASE close
  <2>1. UNCHANGED <<calls, status, collectors, storeVars, toClose>> /\ closing' = "closing evaluator"
        /\ closing = "open"
    BY <1>1 DEF close
  <2>2. \A k \in Calls : ~Busy(k)
    BY <1>1, NothingUnderWay DEF close
  <2>3. \A k \in Calls : ~Busy(k)'
    BY <2>1, <2>2 DEF Busy
  <2>4. OneBusy' /\ ListingIsFirst' /\ QuietClose'
    BY <2>1, <2>3 DEF OneBusy, QuietClose, InTurnIInv, ListingIsFirst
  <2>5. InTheMap' /\ ConnectedOnce' /\ Accounted'
    BY <2>1 DEF InTurnIInv, InTheMap, ConnectedOnce, Accounted, Up, storeVars
  <2>6. LiveIsClosing'
    BY <2>1 DEF LiveIsClosing
  <2> QED
    BY <2>4, <2>5, <2>6 DEF InTurnIInv
<1>2. CASE CloseCollectors
  <2>1. /\ UNCHANGED <<calls, status, collectors, storeVars>> /\ closing' = "closing collectors"
        /\ closing = "closing evaluator"
        /\ toClose' = {c \in Collector : collectors[c[2]] = c[1]}
    BY <1>2 DEF CloseCollectors
  <2>2. \A k \in Calls : ~Busy(k)' /\ ~Busy(k)
    BY <2>1 DEF InTurnIInv, QuietClose, Busy
  <2>3. OneBusy' /\ ListingIsFirst' /\ QuietClose'
    BY <2>1, <2>2 DEF OneBusy, QuietClose, InTurnIInv, ListingIsFirst
  <2>4. InTheMap' /\ ConnectedOnce' /\ Accounted'
    BY <2>1 DEF InTurnIInv, InTheMap, ConnectedOnce, Accounted, Up, storeVars
  <2>5. \A k \in Calls, q \in Queues : status[<<k, q>>] = "live" => collectors[q] = k
    BY <2>1 DEF InTurnIInv, InTheMap, Up
  <2>6. LiveIsClosing'
    <3>1. ASSUME NEW c \in Collector, status[c] = "live"
          PROVE  c \in toClose'
      <4>1. PICK k \in Calls, q \in Queues : c = <<k, q>>
        BY DEF Collector
      <4>2. <<k, q>> \in toClose' <=> collectors[q] = k
        BY <2>1, <4>1
      <4> QED
        BY <2>5, <3>1, <4>1, <4>2
    <3> QED
      BY <2>1, <3>1 DEF LiveIsClosing
  <2> QED
    BY <2>3, <2>4, <2>6 DEF InTurnIInv
<1>3. ASSUME NEW c \in Collector, CollectorCloses(c) PROVE InTurnIInv'
  <2>1. /\ UNCHANGED <<calls, collectors, storeVars, closing, toClose>>
        /\ status' = [status EXCEPT ![c] = "closed"]
    BY <1>3 DEF CollectorCloses
  <2>2. closing = "closing collectors" /\ status[c] = "live"
    BY <1>3 DEF CollectorCloses
  <2>3. \A d \in Collector : status'[d] = IF d = c THEN "closed" ELSE status[d]
    BY <2>1 DEF CollectorsIInv, TypeOK
  <2>4. \A k \in Calls, q \in Queues : <<k, q>> \in Collector
    BY DEF Collector
  <2>5. \A k \in Calls, q \in Queues : Up(k, q)' <=> Up(k, q)
    BY <2>2, <2>3, <2>4 DEF Up
  <2>6. \A k \in Calls, q \in Queues :
           status'[<<k, q>>] = "connecting" => status[<<k, q>>] = "connecting"
    BY <2>3, <2>4
  <2>7. OneBusy' /\ ListingIsFirst' /\ QuietClose'
    BY <2>1, <2>6, BusyShrinks DEF InTurnIInv
  <2>8. InTheMap' /\ ConnectedOnce' /\ Accounted'
    BY <2>1, <2>5, <2>6 DEF InTurnIInv, InTheMap, ConnectedOnce, Accounted, storeVars
  <2>9. LiveIsClosing'
    <3>1. \A d \in Collector : status[d] = "live" => d \in toClose
      BY <2>2 DEF InTurnIInv, LiveIsClosing
    <3>2. \A d \in Collector : status'[d] = "live" => d \in toClose'
      BY <2>1, <2>3, <3>1
    <3> QED
      BY <2>1, <2>2, <3>2 DEF LiveIsClosing
  <2> QED
    BY <2>7, <2>8, <2>9 DEF InTurnIInv
<1>4. CASE ClearCollectors
  <2>1. /\ UNCHANGED <<calls, status, storeVars, toClose>>
        /\ \A c \in toClose : status[c] = "closed"
        /\ closing = "closing collectors" /\ closing' = "closed"
    BY <1>4 DEF ClearCollectors
  <2>2. \A k \in Calls : ~Busy(k)' /\ ~Busy(k)
    BY <2>1 DEF InTurnIInv, QuietClose, Busy
  <2>3. OneBusy' /\ ListingIsFirst' /\ QuietClose'
    BY <2>1, <2>2 DEF OneBusy, QuietClose, InTurnIInv, ListingIsFirst
  <2>4. InTheMap' /\ ConnectedOnce' /\ Accounted'
    BY <2>1 DEF InTurnIInv, InTheMap, ConnectedOnce, Accounted, Up, storeVars
  <2>5. LiveIsClosing'
    BY <2>1 DEF InTurnIInv, LiveIsClosing
  <2> QED
    BY <2>3, <2>4, <2>5 DEF InTurnIInv
<1> QED
  BY <1>1, <1>2, <1>3, <1>4

\* Every step of the pipeline keeps what holds of calls that wait for one another.
LEMMA NextInTurnIInv == CollectorsIInv /\ InTurnIInv /\ [LiveNext]_liveVars => InTurnIInv'
<1> SUFFICES ASSUME CollectorsIInv, InTurnIInv, [LiveNext]_liveVars PROVE InTurnIInv'
  OBVIOUS
<1>1. CASE UNCHANGED vars
  <2>1. UNCHANGED <<scenario, calls, status, collectors, closing, toClose,
                   inbox, finished, counted, unwritten>>
    BY <1>1 DEF vars, storeVars
  <2>2. /\ OneBusy' <=> OneBusy
        /\ ListingIsFirst' <=> ListingIsFirst
        /\ QuietClose' <=> QuietClose
    BY <2>1 DEF OneBusy, ListingIsFirst, QuietClose, Busy
  <2>3. InTheMap' <=> InTheMap
    BY <2>1 DEF InTheMap, Up
  <2>4. ConnectedOnce' <=> ConnectedOnce
    BY <2>1 DEF ConnectedOnce, Up
  <2>5. LiveIsClosing' <=> LiveIsClosing
    BY <2>1 DEF LiveIsClosing
  <2>6. Accounted' <=> Accounted
    BY <2>1 DEF Accounted, Up
  <2> QED
    BY <2>1, <2>2, <2>3, <2>4, <2>5, <2>6 DEF InTurnIInv
<1>2. CASE Next
  <2>1. scenario' = scenario
    BY <1>2 DEF Next
  <2>2. CASE scenario.wait # TRUE
    BY <2>1, <2>2 DEF InTurnIInv
  <2>3. CASE scenario.wait = TRUE
    BY <1>2, <2>1, <2>3, JobsKeepInTurn, CallKeepsInTurn, ListedKeepsInTurn, ReadyKeepsInTurn,
       StartFailsKeepsInTurn, CloseKeepsInTurn DEF Next
  <2> QED
    BY <2>2, <2>3
<1> QED
  BY <1>1, <1>2 DEF LiveNext, liveVars

\* Nothing has been heard or counted initially.
LEMMA InitInTurnIInv == Init => InTurnIInv
<1> SUFFICES ASSUME Init PROVE InTurnIInv
  OBVIOUS
<1>1. \A k \in Calls : ~Busy(k) /\ calls[k] # "listing" /\ \A q \in Queues : ~Up(k, q)
  BY DEF Init, Busy, Up, Collector
<1>2. OneBusy /\ ListingIsFirst /\ QuietClose /\ InTheMap /\ ConnectedOnce
  BY <1>1 DEF OneBusy, ListingIsFirst, QuietClose, InTheMap, ConnectedOnce
<1>3. LiveIsClosing
  BY DEF Init, LiveIsClosing
<1>4. Accounted
  <2>1. \A q \in Queues : counted[q] = 0 /\ unwritten[q] = 0 /\ finished[q] = 0
    BY DEF Init
  <2>2. \A k \in Calls, q \in Queues : inbox[<<k, q>>] = 0
    BY DEF Init, Collector
  <2> QED
    BY <1>1, <2>1, <2>2 DEF Accounted
<1> QED
  BY <1>2, <1>3, <1>4 DEF InTurnIInv

\* Both invariants hold throughout.
LEMMA SpecInTurnIInv == LiveSpec => [](CollectorsIInv /\ InTurnIInv)
<1>1. CollectorsIInv /\ InTurnIInv /\ [LiveNext]_liveVars => (CollectorsIInv /\ InTurnIInv)'
  BY NextCollectorsIInv, NextInTurnIInv
<1>2. LiveInit => CollectorsIInv /\ InTurnIInv
  BY InitCollectorsIInv, InitInTurnIInv DEF LiveInit
<1> QED
  BY <1>1, <1>2, PTL DEF LiveSpec

(***************************************************************************)
(* When startMetrics and close() (app.ts) are called one after the other,  *)
(* a job that finishes while its queue has a collector is handed to the    *)
(* store once, or is on its way there: whichever starts and writes failed  *)
(* before, and however many queues there are.                              *)
(***************************************************************************)
THEOREM EachIsCountedOnce == LiveSpec => []EachFinishCountedOnce
<1>1. CollectorsIInv /\ InTurnIInv => EachFinishCountedOnce
  <2> SUFFICES ASSUME CollectorsIInv, InTurnIInv, scenario.wait PROVE EachFinishCountedOnce
    BY DEF EachFinishCountedOnce
  <2>0. scenario.wait = TRUE
    BY CollectorsAssumption DEF CollectorsIInv, PhaseIInv
  <2>1. ASSUME NEW q \in Queues
        PROVE  counted[q] + unwritten[q] + SumFunctionOnSet(inbox, Calls \X {q}) = finished[q]
    <3> DEFINE S == Calls \X {q}
               sum == SumFunctionOnSet(inbox, S)
    <3>1. IsFiniteSet(S)
      BY CollectorsAssumption, FS_Singleton, FS_Product
    <3>2. \A c \in S : inbox[c] \in Nat /\ inbox[c] \in Int
      <4>1. \A c \in Collector : inbox[c] \in Nat
        BY DEF CollectorsIInv, TypeOK
      <4>2. S \subseteq Collector
        BY DEF Collector
      <4> HIDE DEF S
      <4> QED
        BY <4>1, <4>2
    <3>3. counted[q] \in Nat /\ unwritten[q] \in Nat
      BY DEF CollectorsIInv, TypeOK
    <3>4. CASE \A k \in Calls : ~Up(k, q)
      <4>1. \A k \in Calls : inbox[<<k, q>>] = 0
        BY <2>0, <3>4 DEF InTurnIInv, Accounted
      <4>2. \A c \in S : inbox[c] = 0
        BY <4>1
      <4>3. counted[q] + unwritten[q] = finished[q]
        BY <2>0, <3>4 DEF InTurnIInv, Accounted
      <4>4. sum = IF 0 \in S THEN inbox[0] ELSE 0
        <5> HIDE DEF S
        <5> QED
          BY <3>1, <3>2, <4>2, SumOfOne
      <4>5. sum = 0
        BY <4>2, <4>4
      <4> HIDE DEF sum
      <4>6. counted[q] + unwritten[q] + sum = finished[q]
        BY <3>3, <4>3, <4>5
      <4> QED
        BY <4>6 DEF sum
    <3>5. ASSUME NEW k \in Calls, Up(k, q) PROVE counted[q] + unwritten[q] + sum = finished[q]
      <4> DEFINE z == <<k, q>>
      <4>1. \A j \in Calls : j # k => inbox[<<j, q>>] = 0
        BY <2>0, <3>5 DEF InTurnIInv, Accounted, ConnectedOnce
      <4>2. \A c \in S \ {z} : inbox[c] = 0
        BY <4>1
      <4>3. z \in S
        OBVIOUS
      <4>4. sum = inbox[z]
        <5> HIDE DEF S, z
        <5> QED
          BY <3>1, <3>2, <4>2, <4>3, SumOfOne
      <4>5. counted[q] + unwritten[q] + inbox[<<k, q>>] = finished[q]
        BY <2>0, <3>5 DEF InTurnIInv, Accounted
      <4> HIDE DEF sum
      <4> QED
        BY <4>4, <4>5
    <3> QED
      BY <3>4, <3>5
  <2> QED
    BY <2>1 DEF EachFinishCountedOnce
<1> QED
  BY <1>1, SpecInTurnIInv, PTL

(***************************************************************************)
(* When close() (app.ts) returns, all that it found in the Map is closed,  *)
(* however starts and calls overlap with it.  Where calls are made in      *)
(* turn, nothing is connected then but the collectors whose start failed.  *)
(***************************************************************************)
THEOREM CloseIsFinal == LiveSpec => []CloseEndsCollectors
<1>1. CollectorsIInv /\ InTurnIInv => CloseEndsCollectors
  <2> SUFFICES ASSUME CollectorsIInv, InTurnIInv, closing = "closed"
               PROVE  /\ toClose \cap Connected = {}
                      /\ scenario.wait => \A c \in Connected : status[c] = "failed"
    BY DEF CloseEndsCollectors
  <2>1. toClose \cap Connected = {}
    BY DEF CollectorsIInv, FoundIInv, Connected
  <2>2. ASSUME scenario.wait, NEW c \in Connected PROVE status[c] = "failed"
    <3>1. scenario.wait = TRUE
      BY <2>2, CollectorsAssumption DEF CollectorsIInv, PhaseIInv
    <3>2. c \in Collector /\ status[c] \in {"connecting", "live", "failed"}
      BY DEF Connected
    <3>3. status[c] # "live"
      BY <3>1, <3>2 DEF InTurnIInv, LiveIsClosing
    <3>4. status[c] # "connecting"
      BY <3>1, <3>2 DEF InTurnIInv, QuietClose, Busy, Collector
    <3> QED
      BY <3>2, <3>3, <3>4
  <2> QED
    BY <2>1, <2>2
<1> QED
  BY <1>1, SpecInTurnIInv, PTL

(***************************************************************************)
(* startMetrics and close() (app.ts), for any queues and calls, whichever  *)
(* starts and writes fail: where calls are made in turn each finish        *)
(* reaches the store once, and however they overlap close() ends what it   *)
(* has found.                                                              *)
(***************************************************************************)
THEOREM InTurnAllIsCountedAndClosed == LiveSpec => []CountsAndCloses
<1>1. EachFinishCountedOnce /\ CloseEndsCollectors => CountsAndCloses
  BY DEF CountsAndCloses
<1> QED
  BY <1>1, EachIsCountedOnce, CloseIsFinal, PTL

-----------------------------------------------------------------------------
(***************************************************************************)
(* EventIngestion: an event carries the number of its run, 0 if it is of   *)
(* no finish, from the stream to the store, and is in one place at a time. *)
(***************************************************************************)
Kinds == {"added", "completed", "failed"}
EventType == [kind : Kinds, id : Jobs, reason : Reasons \cup {Null}, run : Nat]
JobType == [state : {"none", "waiting", "active", "completed", "failed", "removed"},
            timestamp : Int, processedOn : Int, finishedOn : Int, failedReason : Reasons \cup {Null}]
ReplyType == [event : EventType, job : JobType]
RunType == [id : Jobs, kind : {"completed", "failed"}, reason : Reasons \cup {Null},
            finishedOn : Nat, waitMs : Int, runMs : Int]
WriteType == [kind : Kinds, jobName : Jobs \cup {Null}, at : Int, run : Nat, waitMs : Int, runMs : Int,
              errorSignature : {SignatureOf[r] : r \in Reasons} \cup {Null}]

\* An event is of no run, or says of its run what has happened.
EventOf(e) ==
    /\ e.kind = "added" <=> e.run = 0
    /\ e.run # 0 => /\ e.run \in DOMAIN runs
                    /\ e.id = runs[e.run].id /\ e.kind = runs[e.run].kind
                    /\ e.reason = runs[e.run].reason
Events == {e \in EventType : EventOf(e)}
Finishes == {e \in Events : e.run # 0}

\* The times of a job's hash are those of the run m.
TimesOf(job, m) ==
    /\ runs[m].finishedOn = job.finishedOn
    /\ runs[m].waitMs = job.processedOn - job.timestamp
    /\ runs[m].runMs = job.finishedOn - job.processedOn

\* A hash that was read for an event shows the run of the event, or a later one.
ReadFor(job, n) ==
    job.finishedOn # NoTime =>
        \E m \in DOMAIN runs : m >= n /\ runs[m].id = runs[n].id /\ TimesOf(job, m)
Replies == {r \in ReplyType : r.event \in Finishes /\ ReadFor(r.job, r.event.run)}

\* What was written of a run.
WrittenFor(w, n) ==
    /\ n \in DOMAIN runs
    /\ w.kind = runs[n].kind /\ w.jobName \in {runs[n].id, Null} \ store.refuses
    /\ runs[n].finishedOn <= w.at /\ w.at <= clock
    /\ w.errorSignature = IF runs[n].kind = "failed" THEN SignatureOf[runs[n].reason] ELSE Null
    /\ w.runMs # NoTime =>
          \E m \in DOMAIN runs :
             /\ m >= n /\ runs[m].id = runs[n].id
             /\ runs[m].finishedOn = w.at /\ runs[m].waitMs = w.waitMs /\ runs[m].runMs = w.runMs
Records == {w \in WriteType : w.run # 0 => WrittenFor(w, w.run)}

\* A hash with a time of finishing is that of the last run of its job.
HashIInv ==
    \A j \in Jobs :
       /\ hash[j].state \notin {"completed", "failed"} => hash[j].finishedOn = NoTime
       /\ hash[j].finishedOn # NoTime =>
             \E m \in DOMAIN runs :
                /\ runs[m].id = j /\ TimesOf(hash[j], m)
                /\ \A l \in DOMAIN runs : runs[l].id = j => l <= m

\* Runs are numbered in the order in which they finished.
RunsIInv ==
    /\ \A n \in DOMAIN runs : /\ runs[n].finishedOn <= clock
                              /\ runs[n].kind = "failed" => runs[n].reason \in Reasons
    /\ \A l, m \in DOMAIN runs : l <= m => runs[l].finishedOn <= runs[m].finishedOn

\* The runs whose events are carried in a sequence, and that each is there once; f has
\* the run of an element.
Carried(s, f) == {f[s[i]] : i \in DOMAIN s} \ {0}
Once(s, f) == \A i, j \in DOMAIN s : f[s[i]] = f[s[j]] /\ f[s[i]] # 0 => i = j

runOf == [e \in EventType |-> e.run]
runOfReply == [r \in ReplyType |-> r.event.run]
runOfWrite == [w \in WriteType |-> w.run]

\* The runs that are written, and those whose write has failed.
Settled == Carried(written, runOfWrite) \cup unheld

\* A run whose write failed is not written, and why it failed.
UnheldIInv ==
    /\ Carried(written, runOfWrite) \cap unheld = {}
    /\ \A n \in unheld : n \in DOMAIN runs /\ (store.fails \/ runs[n].id \in store.refuses)

\* The four sets have what is in U, and nothing in common.
Partition(A, B, C, D, U) ==
    /\ A \cap B = {} /\ A \cap C = {} /\ A \cap D = {}
    /\ B \cap C = {} /\ B \cap D = {} /\ C \cap D = {}
    /\ A \cup B \cup C \cup D = U

PlacesIInv ==
    /\ Once(stream, runOf) /\ Once(reads, runOf)
    /\ Once(replies, runOfReply) /\ Once(written, runOfWrite)
    /\ Partition(Carried(stream, runOf), Carried(reads, runOf), Carried(replies, runOfReply),
                 Settled, DOMAIN runs)
    /\ UnheldIInv

TypesIInv ==
    /\ store \in Stores /\ clock \in Nat /\ hash \in [Jobs -> JobType] /\ runs \in Seq(RunType)
    /\ stream \in Seq(Events) /\ reads \in Seq(Finishes)
    /\ replies \in Seq(Replies) /\ written \in Seq(Records)

IngestionIInv == TypesIInv /\ HashIInv /\ RunsIInv /\ PlacesIInv

-----------------------------------------------------------------------------
\* A sequence over a set is one over a larger set.
LEMMA LargerSet ==
    ASSUME NEW S, NEW T, S \subseteq T, NEW s \in Seq(S)
    PROVE  s \in Seq(T)
OBVIOUS

\* An element that is appended, of a run that the sequence does not carry.
LEMMA AppendCarried ==
    ASSUME NEW T, NEW f, \A x \in T : f[x] \in Nat,
           NEW s \in Seq(T), NEW e \in T, Once(s, f), f[e] \notin Carried(s, f)
    PROVE  /\ Append(s, e) \in Seq(T) /\ Once(Append(s, e), f)
           /\ Carried(Append(s, e), f) = Carried(s, f) \cup ({f[e]} \ {0})
<1> DEFINE t == Append(s, e)
<1>1. /\ t \in Seq(T) /\ DOMAIN t = 1..(Len(s) + 1) /\ DOMAIN s = 1..Len(s) /\ Len(s) \in Nat
      /\ t[Len(s) + 1] = e /\ \A i \in 1..Len(s) : t[i] = s[i]
  OBVIOUS
<1> HIDE DEF t
<1>2. \A i \in DOMAIN t : (i \in DOMAIN s /\ t[i] = s[i]) \/ (i = Len(s) + 1 /\ t[i] = e)
  BY <1>1
<1>3. \A i \in DOMAIN s : i \in DOMAIN t /\ t[i] = s[i]
  BY <1>1
<1>4. Len(s) + 1 \in DOMAIN t
  BY <1>1
<1>5. \A i \in DOMAIN s : f[s[i]] # 0 => f[s[i]] # f[e]
  BY DEF Carried
<1>6. Once(t, f)
  BY <1>2, <1>5 DEF Once
<1>7. Carried(t, f) = Carried(s, f) \cup ({f[e]} \ {0})
  BY <1>1, <1>2, <1>3, <1>4 DEF Carried
<1> QED
  BY <1>1, <1>6, <1>7 DEF t

\* The head that is taken from a sequence.
LEMMA HeadCarried ==
    ASSUME NEW T, NEW f, \A x \in T : f[x] \in Nat,
           NEW s \in Seq(T), s # <<>>, Once(s, f)
    PROVE  /\ Head(s) \in T /\ Tail(s) \in Seq(T) /\ Once(Tail(s), f)
           /\ Carried(Tail(s), f) = Carried(s, f) \ {f[Head(s)]}
           /\ f[Head(s)] # 0 => f[Head(s)] \in Carried(s, f)
<1> DEFINE t == Tail(s)
<1>1. /\ Head(s) \in T /\ Head(s) = s[1] /\ t \in Seq(T)
      /\ DOMAIN s = 1..Len(s) /\ Len(s) \in Nat \ {0} /\ DOMAIN t = 1..(Len(s) - 1)
      /\ \A i \in 1..(Len(s) - 1) : t[i] = s[i + 1]
  OBVIOUS
<1> HIDE DEF t
<1>2. \A i \in DOMAIN t : i + 1 \in DOMAIN s /\ t[i] = s[i + 1] /\ i + 1 # 1
  BY <1>1
<1>3. \A i \in DOMAIN s : i = 1 \/ (i - 1 \in DOMAIN t /\ t[i - 1] = s[i])
  BY <1>1
<1>4. 1 \in DOMAIN s
  BY <1>1
<1>5. Once(t, f)
  <2> SUFFICES ASSUME NEW i \in DOMAIN t, NEW j \in DOMAIN t, f[t[i]] = f[t[j]], f[t[i]] # 0
               PROVE  i = j
    BY DEF Once
  <2>1. i + 1 = j + 1
    BY <1>2 DEF Once
  <2> QED
    BY <1>1, <2>1
<1>6. \A i \in DOMAIN t : f[t[i]] # 0 => f[t[i]] # f[s[1]]
  BY <1>2, <1>4 DEF Once
<1>7. Carried(t, f) = Carried(s, f) \ {f[s[1]]}
  <2>1. \A n \in Carried(t, f) : n \in Carried(s, f) /\ n # f[s[1]]
    BY <1>2, <1>6 DEF Carried
  <2>2. \A n \in Carried(s, f) : n # f[s[1]] => n \in Carried(t, f)
    BY <1>3 DEF Carried
  <2> QED
    BY <2>1, <2>2
<1>8. f[s[1]] # 0 => f[s[1]] \in Carried(s, f)
  BY <1>4 DEF Carried
<1> QED
  BY <1>1, <1>5, <1>7, <1>8 DEF t

\* A run is new in the stream, or goes on to the next place.
LEMMA IntoStream ==
    ASSUME NEW A, NEW B, NEW C, NEW D, NEW U, Partition(A, B, C, D, U), NEW n, n \notin U
    PROVE  n \notin A /\ Partition(A \cup {n}, B, C, D, U \cup {n})
BY DEF Partition

\* An event goes from the stream to the reads under way.
LEMMA IntoReads ==
    ASSUME NEW A, NEW B, NEW C, NEW D, NEW U, Partition(A, B, C, D, U), NEW n \in A
    PROVE  n \notin B /\ Partition(A \ {n}, B \cup {n}, C, D, U)
BY DEF Partition

\* An event goes from the reads under way to the jobs read.
LEMMA IntoReplies ==
    ASSUME NEW A, NEW B, NEW C, NEW D, NEW U, Partition(A, B, C, D, U), NEW n \in B
    PROVE  n \notin C /\ Partition(A, B \ {n}, C \cup {n}, D, U)
BY DEF Partition

\* An event goes from the jobs read to the store.
LEMMA IntoStore ==
    ASSUME NEW A, NEW B, NEW C, NEW D, NEW U, Partition(A, B, C, D, U), NEW n \in C
    PROVE  n \notin D /\ Partition(A, B, C \ {n}, D \cup {n}, U)
BY DEF Partition

\* What the three functions give.
LEMMA RunsOfElements ==
    /\ \A e \in Events : e \in EventType /\ runOf[e] = e.run /\ e.run \in Nat
    /\ \A e \in Finishes : e \in Events /\ runOf[e] = e.run /\ e.run \in Nat /\ e.run # 0
    /\ \A r \in Replies : r \in ReplyType /\ runOfReply[r] = r.event.run /\ r.event.run \in Nat
                          /\ r.event.run # 0
    /\ \A w \in Records : w \in WriteType /\ runOfWrite[w] = w.run /\ w.run \in Nat
<1>1. \A e \in Events : e \in EventType /\ runOf[e] = e.run /\ e.run \in Nat
  BY DEF Events, EventType, runOf
<1>2. \A e \in Finishes : e \in Events /\ e.run # 0
  BY DEF Finishes
<1>3. \A r \in Replies : r \in ReplyType /\ runOfReply[r] = r.event.run /\ r.event \in Finishes
  BY DEF Replies, runOfReply
<1>4. \A w \in Records : w \in WriteType /\ runOfWrite[w] = w.run /\ w.run \in Nat
  BY DEF Records, WriteType, runOfWrite
<1> QED
  BY <1>1, <1>2, <1>3, <1>4

\* What is true of an event, a reply or a record stays true as runs finish and time passes.
LEMMA TruthLasts ==
    ASSUME store' = store, clock \in Nat, clock' \in Nat, clock <= clock',
           DOMAIN runs \subseteq DOMAIN runs', \A n \in DOMAIN runs : runs'[n] = runs[n],
           runs \in Seq(RunType)
    PROVE  /\ Events \subseteq Events' /\ Finishes \subseteq Finishes'
           /\ Replies \subseteq Replies' /\ Records \subseteq Records'
<1>1. \A e \in EventType : EventOf(e) => EventOf(e)'
  BY DEF EventOf
<1>2. Events \subseteq Events' /\ Finishes \subseteq Finishes'
  BY <1>1 DEF Events, Finishes
<1>3. ASSUME NEW r \in Replies PROVE r \in Replies'
  <2>1. r \in ReplyType /\ r.event \in Finishes /\ ReadFor(r.job, r.event.run)
    BY DEF Replies
  <2>2. r.event.run \in DOMAIN runs /\ r.event \in Finishes'
    BY <1>2, <2>1 DEF Finishes, Events, EventOf
  <2>3. ReadFor(r.job, r.event.run)'
    BY <2>1, <2>2 DEF ReadFor, TimesOf
  <2> QED
    BY <2>1, <2>2, <2>3 DEF Replies
<1>4. ASSUME NEW w \in Records PROVE w \in Records'
  <2>1. w \in WriteType /\ (w.run # 0 => WrittenFor(w, w.run)) /\ w.at \in Int
    BY DEF Records, WriteType
  <2>2. ASSUME w.run # 0 PROVE WrittenFor(w, w.run)'
    <3>1. /\ w.run \in DOMAIN runs
          /\ w.kind = runs[w.run].kind
          /\ w.jobName \in {runs[w.run].id, Null} \ store.refuses
          /\ runs[w.run].finishedOn <= w.at /\ w.at <= clock
          /\ w.errorSignature = IF runs[w.run].kind = "failed" THEN SignatureOf[runs[w.run].reason]
                                ELSE Null
      BY <2>1, <2>2 DEF WrittenFor
    <3>2. w.at <= clock'
      BY <2>1, <3>1
    <3>3. w.runMs # NoTime =>
             \E m \in DOMAIN runs' :
                /\ m >= w.run /\ runs'[m].id = runs'[w.run].id
                /\ runs'[m].finishedOn = w.at /\ runs'[m].waitMs = w.waitMs
                /\ runs'[m].runMs = w.runMs
      BY <2>1, <2>2, <3>1 DEF WrittenFor
    <3> QED
      BY <3>1, <3>2, <3>3 DEF WrittenFor
  <2> QED
    BY <2>1, <2>2 DEF Records
<1> QED
  BY <1>2, <1>3, <1>4

\* A step that leaves the places, the runs and the clock, and a hash without a time
\* of finishing.
LEMMA HashStep ==
    ASSUME IngestionIInv, NEW j \in Jobs, NEW h \in JobType, h.finishedOn = NoTime,
           h.state \notin {"completed", "failed"},
           hash' = [hash EXCEPT ![j] = h], UNCHANGED <<store, clock, runs>>
    PROVE  /\ hash' \in [Jobs -> JobType] /\ HashIInv' /\ RunsIInv'
           /\ Events' = Events /\ Finishes' = Finishes /\ Replies' = Replies /\ Records' = Records
<1>1. hash \in [Jobs -> JobType]
  BY DEF IngestionIInv, TypesIInv
<1>2. hash' \in [Jobs -> JobType] /\ hash'[j] = h /\ \A i \in Jobs : i # j => hash'[i] = hash[i]
  BY <1>1
<1>3. HashIInv'
  <2> SUFFICES ASSUME NEW i \in Jobs
               PROVE  /\ hash'[i].state \notin {"completed", "failed"} => hash'[i].finishedOn = NoTime
                      /\ hash'[i].finishedOn # NoTime =>
                            \E m \in DOMAIN runs :
                               /\ runs[m].id = i /\ TimesOf(hash'[i], m)
                               /\ \A l \in DOMAIN runs : runs[l].id = i => l <= m
    BY DEF HashIInv, TimesOf
  <2>1. CASE i = j
    BY <1>2, <2>1
  <2>2. CASE i # j
    BY <1>2, <2>2 DEF IngestionIInv, HashIInv
  <2> QED
    BY <2>1, <2>2
<1>4. RunsIInv'
  BY DEF IngestionIInv, RunsIInv
<1>5. Events' = Events /\ Finishes' = Finishes /\ Replies' = Replies /\ Records' = Records
  BY DEF Events, Finishes, Replies, Records, EventOf, ReadFor, TimesOf, WrittenFor
<1> QED
  BY <1>2, <1>3, <1>4, <1>5

\* Time passes, and no event moves.
LEMMA TimePassesKeepsIInv ==
    ASSUME IngestionIInv, UNCHANGED store, TimePasses
    PROVE  IngestionIInv'
<1>1. /\ clock \in Nat /\ clock' = clock + 1
      /\ UNCHANGED <<store, hash, stream, reads, replies, written, unheld, runs>>
      /\ runs \in Seq(RunType)
  BY DEF IngestionIInv, TypesIInv, TimePasses
<1>2. clock' \in Nat /\ clock <= clock'
  BY <1>1
<1>3. /\ Events \subseteq Events' /\ Finishes \subseteq Finishes'
      /\ Replies \subseteq Replies' /\ Records \subseteq Records'
  BY <1>1, <1>2, TruthLasts
<1>4. TypesIInv'
  <2>1. stream \in Seq(Events') /\ reads \in Seq(Finishes')
        /\ replies \in Seq(Replies') /\ written \in Seq(Records')
    <3>1. stream \in Seq(Events) /\ reads \in Seq(Finishes)
          /\ replies \in Seq(Replies) /\ written \in Seq(Records)
      BY DEF IngestionIInv, TypesIInv
    <3> QED
      BY <1>3, <3>1, LargerSet
  <2> QED
    BY <1>1, <1>2, <2>1 DEF IngestionIInv, TypesIInv
<1>5. HashIInv'
  BY <1>1 DEF IngestionIInv, HashIInv, TimesOf
<1>6. RunsIInv'
  <2>1. \A n \in DOMAIN runs : runs[n].finishedOn \in Nat /\ runs[n].finishedOn <= clock
    <3>1. \A n \in DOMAIN runs : runs[n] \in RunType
      BY <1>1
    <3> QED
      BY <3>1 DEF IngestionIInv, RunsIInv, RunType
  <2>2. \A n \in DOMAIN runs : runs[n].finishedOn <= clock'
    BY <1>1, <1>2, <2>1
  <2> QED
    BY <1>1, <2>2 DEF IngestionIInv, RunsIInv
<1>7. PlacesIInv'
  BY <1>1 DEF IngestionIInv, PlacesIInv, Settled, UnheldIInv
<1> QED
  BY <1>4, <1>5, <1>6, <1>7 DEF IngestionIInv

\* Nothing is in a hash that is not there.
LEMMA NoneType == None \in JobType /\ None.finishedOn = NoTime
<1>1. NoTime \in Int
  BY DEF NoTime
<1> QED
  BY <1>1 DEF None, JobType

\* What is in a hash that nothing is in, or that waits.
LEMMA NoneLemma ==
    ASSUME NEW t \in Int, NEW st \in {"waiting", "removed"}
    PROVE  /\ None \in JobType /\ None.finishedOn = NoTime /\ NoTime \in Int
           /\ [None EXCEPT !.state = st] \in JobType
           /\ [None EXCEPT !.state = st].finishedOn = NoTime
           /\ [None EXCEPT !.state = st].state = st
           /\ [None EXCEPT !.state = st, !.timestamp = t] \in JobType
           /\ [None EXCEPT !.state = st, !.timestamp = t].finishedOn = NoTime
           /\ [None EXCEPT !.state = st, !.timestamp = t].state = st
<1>1. NoTime \in Int
  BY DEF NoTime
<1>2. None \in JobType /\ None.finishedOn = NoTime
  BY <1>1 DEF None, JobType
<1> QED
  BY <1>1, <1>2 DEF JobType

\* Jobs start, fail an attempt, are retried and removed: none has finished.
LEMMA HashOnlyKeepsIInv ==
    ASSUME IngestionIInv, UNCHANGED store, NEW j \in Jobs,
           Started(j) \/ Attempted(j) \/ Retried(j) \/ RemovedByHand(j)
    PROVE  IngestionIInv'
<1> DEFINE old == hash[j]
<1>1. old \in JobType /\ clock \in Nat /\ clock \in Int
  BY DEF IngestionIInv, TypesIInv
<1>2. old.state \notin {"completed", "failed"} => old.finishedOn = NoTime
  BY DEF IngestionIInv, HashIInv
<1>3. UNCHANGED <<store, clock, runs, stream, reads, replies, written, unheld>>
  BY DEF Started, Attempted, Retried, RemovedByHand, InQueue
<1>4. PICK h \in JobType : /\ hash' = [hash EXCEPT ![j] = h] /\ h.finishedOn = NoTime
                           /\ h.state \notin {"completed", "failed"}
  <2>1. CASE Started(j)
    <3> DEFINE h == [old EXCEPT !.state = "active", !.processedOn = clock]
    <3>1. h \in JobType /\ h.finishedOn = old.finishedOn /\ h.state = "active"
      BY <1>1 DEF JobType
    <3>2. hash' = [hash EXCEPT ![j] = h] /\ old.state = "waiting"
      BY <2>1 DEF Started, IngestionIInv, TypesIInv
    <3> HIDE DEF h, old
    <3> QED
      BY <1>2, <3>1, <3>2
  <2>2. CASE Attempted(j)
    <3> DEFINE h == [old EXCEPT !.state = "waiting"]
    <3>1. h \in JobType /\ h.finishedOn = old.finishedOn /\ h.state = "waiting"
      BY <1>1 DEF JobType
    <3>2. hash' = [hash EXCEPT ![j] = h] /\ old.state = "active"
      BY <2>2 DEF Attempted, IngestionIInv, TypesIInv
    <3> HIDE DEF h, old
    <3> QED
      BY <1>2, <3>1, <3>2
  <2>3. CASE Retried(j)
    <3> DEFINE h == [None EXCEPT !.state = "waiting", !.timestamp = old.timestamp]
    <3>1. h \in JobType /\ h.finishedOn = NoTime /\ h.state = "waiting"
      <4>1. old.timestamp \in Int
        BY <1>1 DEF JobType
      <4> QED
        BY <4>1, NoneLemma
    <3>2. hash' = [hash EXCEPT ![j] = h]
      BY <2>3 DEF Retried
    <3> HIDE DEF h, old
    <3> QED
      BY <3>1, <3>2
  <2>4. CASE RemovedByHand(j)
    <3>1. Removed \in JobType /\ Removed.finishedOn = NoTime /\ Removed.state = "removed"
      BY <1>1, NoneLemma DEF Removed
    <3>2. hash' = [hash EXCEPT ![j] = Removed]
      BY <2>4 DEF RemovedByHand
    <3> QED
      BY <3>1, <3>2
  <2> QED
    BY <2>1, <2>2, <2>3, <2>4
<1>5. /\ hash' \in [Jobs -> JobType] /\ HashIInv' /\ RunsIInv'
      /\ Events' = Events /\ Finishes' = Finishes /\ Replies' = Replies /\ Records' = Records
  BY <1>3, <1>4, HashStep
<1>6. TypesIInv'
  BY <1>3, <1>5 DEF IngestionIInv, TypesIInv
<1>7. PlacesIInv'
  BY <1>3 DEF IngestionIInv, PlacesIInv, Settled, UnheldIInv
<1> QED
  BY <1>5, <1>6, <1>7 DEF IngestionIInv

\* A job is added: its event enters the stream.
LEMMA AddedKeepsIInv ==
    ASSUME IngestionIInv, UNCHANGED store, NEW j \in Jobs, Added(j)
    PROVE  IngestionIInv'
<1> DEFINE h == [None EXCEPT !.state = "waiting", !.timestamp = clock]
           e == [kind |-> "added", id |-> j, reason |-> Null, run |-> 0]
<1>1. /\ hash' = [hash EXCEPT ![j] = h] /\ stream' = Append(stream, e)
      /\ UNCHANGED <<store, clock, runs, reads, replies, written, unheld>>
  BY DEF Added, InQueue
<1>2. h \in JobType /\ h.finishedOn = NoTime /\ h.state = "waiting"
  <2>1. clock \in Int
    BY DEF IngestionIInv, TypesIInv
  <2> QED
    BY <2>1, NoneLemma
<1>3. e \in Events /\ e.run = 0
  BY DEF Events, EventType, Kinds, EventOf
<1> HIDE DEF h, e
<1>4. /\ hash' \in [Jobs -> JobType] /\ HashIInv' /\ RunsIInv'
      /\ Events' = Events /\ Finishes' = Finishes /\ Replies' = Replies /\ Records' = Records
  BY <1>1, <1>2, HashStep
<1>5. /\ stream' \in Seq(Events) /\ Once(stream', runOf)
      /\ Carried(stream', runOf) = Carried(stream, runOf)
  <2>1. runOf[e] = 0 /\ \A x \in Events : runOf[x] \in Nat
    BY <1>3, RunsOfElements
  <2>2. stream \in Seq(Events) /\ Once(stream, runOf) /\ 0 \notin Carried(stream, runOf)
    BY DEF IngestionIInv, TypesIInv, PlacesIInv, Carried
  <2>3. /\ Append(stream, e) \in Seq(Events) /\ Once(Append(stream, e), runOf)
        /\ Carried(Append(stream, e), runOf) = Carried(stream, runOf) \cup ({runOf[e]} \ {0})
    BY <1>3, <2>1, <2>2, AppendCarried
  <2> QED
    BY <1>1, <2>1, <2>3
<1>6. TypesIInv'
  BY <1>1, <1>4, <1>5 DEF IngestionIInv, TypesIInv
<1>7. PlacesIInv'
  BY <1>1, <1>5 DEF IngestionIInv, PlacesIInv, Settled, UnheldIInv
<1> QED
  BY <1>4, <1>6, <1>7 DEF IngestionIInv

\* A run finishes: its event is carried in the stream.
LEMMA FinishedKeepsIInv ==
    ASSUME IngestionIInv, UNCHANGED store, NEW j \in Jobs, NEW kind, NEW reason, NEW keep,
           \/ kind = "completed" /\ reason = Null
           \/ kind = "failed" /\ reason \in Reasons,
           Finished(j, kind, reason, keep)
    PROVE  IngestionIInv'
<1>0. PICK n \in Nat : n = Len(runs) + 1
  BY DEF IngestionIInv, TypesIInv
<1> DEFINE run == [id |-> j, kind |-> kind, reason |-> reason, finishedOn |-> clock,
                   waitMs |-> hash[j].processedOn - hash[j].timestamp,
                   runMs |-> clock - hash[j].processedOn]
           e == [kind |-> kind, id |-> j, reason |-> reason, run |-> n]
           kept == [hash[j] EXCEPT !.state = kind, !.finishedOn = clock, !.failedReason = reason]
           h == IF keep THEN kept ELSE Removed
<1>1. /\ hash[j] \in JobType /\ clock \in Nat /\ clock \in Int /\ hash \in [Jobs -> JobType]
      /\ runs \in Seq(RunType) /\ stream \in Seq(Events) /\ Len(runs) \in Nat
  BY DEF IngestionIInv, TypesIInv
<1>2. /\ hash' = [hash EXCEPT ![j] = h]
      /\ runs' = Append(runs, run) /\ UNCHANGED <<clock, reads, replies, written, unheld>>
  BY DEF Finished, InQueue
<1>3. Len(runs') = n
  BY <1>0, <1>1, <1>2
<1>4. stream' = Append(stream, e)
  BY <1>3 DEF Finished
<1>5. /\ run \in RunType /\ run.id = j /\ run.kind = kind /\ run.reason = reason
      /\ run.finishedOn = clock
      /\ run.waitMs = hash[j].processedOn - hash[j].timestamp
      /\ run.runMs = clock - hash[j].processedOn
  BY <1>1 DEF RunType, JobType
<1>6. /\ kept \in JobType /\ kept.finishedOn = clock /\ kept.state = kind
      /\ kept.processedOn = hash[j].processedOn /\ kept.timestamp = hash[j].timestamp
  <2>1. clock \in Int /\ kind \in {"completed", "failed"} /\ reason \in Reasons \cup {Null}
    BY <1>1
  <2> QED
    BY <1>1, <2>1 DEF JobType
<1>7. Removed \in JobType /\ Removed.finishedOn = NoTime
  BY <1>1, NoneLemma DEF Removed
<1>8. e \in EventType /\ e.run = n /\ e.kind = kind /\ e.id = j /\ e.reason = reason /\ e.kind # "added"
  BY <1>1 DEF EventType, Kinds
<1>9. hash'[j] = h /\ \A i \in Jobs : i # j => hash'[i] = hash[i]
  BY <1>1, <1>2
<1>10. h \in JobType /\ hash' \in [Jobs -> JobType]
  BY <1>1, <1>2, <1>6, <1>7
<1>11. h.state \notin {"completed", "failed"} => h.finishedOn = NoTime
  BY <1>6, <1>7
<1>12. h.finishedOn # NoTime =>
          /\ run.finishedOn = h.finishedOn /\ run.waitMs = h.processedOn - h.timestamp
          /\ run.runMs = h.finishedOn - h.processedOn
  BY <1>5, <1>6, <1>7
<1> HIDE DEF run, e, kept, h
<1>13. /\ runs' \in Seq(RunType) /\ DOMAIN runs' = DOMAIN runs \cup {n} /\ runs'[n] = run
       /\ DOMAIN runs = 1..Len(runs) /\ n \notin DOMAIN runs
       /\ \A m \in DOMAIN runs : runs'[m] = runs[m] /\ m < n
       /\ \A m \in DOMAIN runs : runs[m] \in RunType
  BY <1>0, <1>1, <1>2, <1>5
<1>14. n \in Nat /\ n # 0
  BY <1>0, <1>1
<1>15. /\ Events \subseteq Events' /\ Finishes \subseteq Finishes'
       /\ Replies \subseteq Replies' /\ Records \subseteq Records'
  BY <1>1, <1>2, <1>13, TruthLasts
<1>16. e \in Events'
  BY <1>5, <1>8, <1>13, <1>14 DEF Events, EventOf
<1>17. /\ stream' \in Seq(Events') /\ Once(stream', runOf)
       /\ Carried(stream', runOf) = Carried(stream, runOf) \cup {n}
       /\ Partition(Carried(stream, runOf) \cup {n}, Carried(reads, runOf),
                    Carried(replies, runOfReply), Settled, DOMAIN runs \cup {n})
  <2>1. runOf[e] = n /\ \A x \in Events' : runOf[x] \in Nat
    BY <1>8 DEF runOf, Events, EventType
  <2>2. stream \in Seq(Events')
    BY <1>1, <1>15, LargerSet
  <2>3. /\ Once(stream, runOf) /\ n \notin Carried(stream, runOf)
        /\ Partition(Carried(stream, runOf) \cup {n}, Carried(reads, runOf),
                     Carried(replies, runOfReply), Settled, DOMAIN runs \cup {n})
    <3>1. Once(stream, runOf) /\ n \notin DOMAIN runs
          /\ Partition(Carried(stream, runOf), Carried(reads, runOf), Carried(replies, runOfReply),
                       Settled, DOMAIN runs)
      BY <1>13 DEF IngestionIInv, PlacesIInv
    <3> QED
      BY <3>1, IntoStream
  <2>4. /\ Append(stream, e) \in Seq(Events') /\ Once(Append(stream, e), runOf)
        /\ Carried(Append(stream, e), runOf) = Carried(stream, runOf) \cup ({runOf[e]} \ {0})
    BY <1>16, <2>1, <2>2, <2>3, AppendCarried
  <2> QED
    BY <1>4, <1>14, <2>1, <2>3, <2>4
<1>18. TypesIInv'
  <2>1. /\ reads \in Seq(Finishes) /\ replies \in Seq(Replies) /\ written \in Seq(Records)
        /\ store' \in Stores
    BY DEF IngestionIInv, TypesIInv
  <2>2. reads \in Seq(Finishes') /\ replies \in Seq(Replies') /\ written \in Seq(Records')
    BY <1>15, <2>1, LargerSet
  <2> QED
    BY <1>1, <1>2, <1>10, <1>13, <1>17, <2>1, <2>2 DEF TypesIInv
<1>19. PlacesIInv'
  <2>1. UnheldIInv'
    BY <1>2, <1>13 DEF IngestionIInv, PlacesIInv, UnheldIInv
  <2>2. Settled' = Settled
    BY <1>2 DEF Settled
  <2> QED
    BY <1>2, <1>13, <1>17, <2>1, <2>2 DEF IngestionIInv, PlacesIInv
<1>20. RunsIInv'
  <2>1. \A m \in DOMAIN runs' : /\ runs'[m].finishedOn <= clock'
                                /\ runs'[m].kind = "failed" => runs'[m].reason \in Reasons
    <3>1. runs'[n].finishedOn <= clock' /\ (runs'[n].kind = "failed" => runs'[n].reason \in Reasons)
      BY <1>1, <1>2, <1>5, <1>13
    <3> QED
      BY <1>2, <1>13, <3>1 DEF IngestionIInv, RunsIInv
  <2>2. ASSUME NEW l \in DOMAIN runs', NEW m \in DOMAIN runs', l <= m
        PROVE  runs'[l].finishedOn <= runs'[m].finishedOn
    <3>1. CASE m = n
      BY <1>2, <1>5, <1>13, <2>1, <3>1
    <3>2. CASE m # n /\ l = n
      <4>1. m < n /\ m \in Nat
        BY <1>1, <1>13, <3>2
      <4> QED
        BY <1>14, <2>2, <3>2, <4>1
    <3>3. CASE m # n /\ l # n
      BY <1>13, <2>2, <3>3 DEF IngestionIInv, RunsIInv
    <3> QED
      BY <3>1, <3>2, <3>3
  <2> QED
    BY <2>1, <2>2 DEF RunsIInv
<1>21. HashIInv'
  <2> SUFFICES ASSUME NEW i \in Jobs
               PROVE  /\ hash'[i].state \notin {"completed", "failed"} => hash'[i].finishedOn = NoTime
                      /\ hash'[i].finishedOn # NoTime =>
                            \E m \in DOMAIN runs' :
                               /\ runs'[m].id = i /\ TimesOf(hash[i], m)'
                               /\ \A l \in DOMAIN runs' : runs'[l].id = i => l <= m
    BY DEF HashIInv
  <2>1. CASE i = j
    <3>1. hash'[i].state \notin {"completed", "failed"} => hash'[i].finishedOn = NoTime
      BY <1>9, <1>11, <2>1
    <3>2. ASSUME hash'[i].finishedOn # NoTime
          PROVE  runs'[n].id = i /\ TimesOf(hash[i], n)'
      <4>1. hash'[i] = h /\ runs'[n] = run
        BY <1>9, <1>13, <2>1
      <4>2. /\ run.finishedOn = h.finishedOn /\ run.waitMs = h.processedOn - h.timestamp
            /\ run.runMs = h.finishedOn - h.processedOn
        BY <1>12, <3>2, <4>1
      <4>3. TimesOf(hash[i], n)'
        BY <4>1, <4>2 DEF TimesOf
      <4>4. runs'[n].id = i
        BY <1>5, <2>1, <4>1
      <4> QED
        BY <4>3, <4>4
    <3>3. \A l \in DOMAIN runs' : l <= n
      BY <1>1, <1>13, <1>14
    <3>4. ASSUME hash'[i].finishedOn # NoTime
          PROVE  \E m \in DOMAIN runs' :
                    /\ runs'[m].id = i /\ TimesOf(hash[i], m)'
                    /\ \A l \in DOMAIN runs' : runs'[l].id = i => l <= m
      <4>1. n \in DOMAIN runs'
        BY <1>13
      <4> QED
        BY <3>2, <3>3, <3>4, <4>1
    <3> QED
      BY <3>1, <3>4
  <2>2. CASE i # j
    <3>1. hash'[i] = hash[i]
      BY <1>9, <2>2
    <3>2. hash'[i].state \notin {"completed", "failed"} => hash'[i].finishedOn = NoTime
      BY <3>1 DEF IngestionIInv, HashIInv
    <3>3. ASSUME hash[i].finishedOn # NoTime
          PROVE  \E m \in DOMAIN runs' :
                    /\ runs'[m].id = i /\ TimesOf(hash[i], m)'
                    /\ \A l \in DOMAIN runs' : runs'[l].id = i => l <= m
      <4>1. PICK m \in DOMAIN runs : /\ runs[m].id = i /\ TimesOf(hash[i], m)
                                     /\ \A l \in DOMAIN runs : runs[l].id = i => l <= m
        BY <3>3 DEF IngestionIInv, HashIInv
      <4>2. m \in DOMAIN runs' /\ runs'[m].id = i /\ TimesOf(hash[i], m)'
        BY <1>13, <3>1, <4>1 DEF TimesOf
      <4>3. \A l \in DOMAIN runs' : runs'[l].id = i => l <= m
        BY <1>5, <1>13, <2>2, <4>1
      <4> QED
        BY <4>2, <4>3
    <3> QED
      BY <3>1, <3>2, <3>3
  <2> QED
    BY <2>1, <2>2
<1> QED
  BY <1>18, <1>19, <1>20, <1>21 DEF IngestionIInv

\* A step of the collector changes neither the hashes nor the runs.
LEMMA InCollectorLemma ==
    ASSUME IngestionIInv, UNCHANGED store, InCollector
    PROVE  /\ store' \in Stores /\ clock' \in Nat /\ hash' \in [Jobs -> JobType] /\ runs' \in Seq(RunType)
           /\ HashIInv' /\ RunsIInv'
           /\ Events' = Events /\ Finishes' = Finishes /\ Replies' = Replies /\ Records' = Records
<1>1. UNCHANGED <<clock, hash, runs>>
  BY DEF InCollector
<1>2. HashIInv' /\ RunsIInv'
  BY <1>1 DEF IngestionIInv, HashIInv, RunsIInv, TimesOf
<1>3. Events' = Events /\ Finishes' = Finishes /\ Replies' = Replies /\ Records' = Records
  BY <1>1 DEF Events, Finishes, Replies, Records, EventOf, ReadFor, TimesOf, WrittenFor
<1> QED
  BY <1>1, <1>2, <1>3 DEF IngestionIInv, TypesIInv

\* The collector comes to the next event: an addition is written, a finish read.
LEMMA ReceivedKeepsIInv ==
    ASSUME IngestionIInv, UNCHANGED store, Received
    PROVE  IngestionIInv'
<1> DEFINE e == Head(stream)
           w == [kind |-> "added", jobName |-> e.id, at |-> clock, run |-> 0,
                 waitMs |-> NoTime, runMs |-> NoTime, errorSignature |-> Null]
<1>1. /\ stream # <<>> /\ stream' = Tail(stream) /\ UNCHANGED replies /\ InCollector
      /\ e.kind = "added" => UNCHANGED <<reads, unheld>> /\ written' \in {Append(written, w), written}
      /\ e.kind # "added" => reads' = Append(reads, e) /\ UNCHANGED <<written, unheld>>
  <2>1. \/ written' = Append(written, w) /\ unheld' = unheld
        \/ unheld' = unheld \cup ({w.run} \ {0}) /\ written' = written
        \/ e.kind # "added"
    BY DEF Received, onAdded, Write
  <2>2. w.run = 0
    OBVIOUS
  <2>3. /\ stream # <<>> /\ stream' = Tail(stream) /\ UNCHANGED replies /\ InCollector
        /\ e.kind = "added" => UNCHANGED reads
        /\ e.kind # "added" => reads' = Append(reads, e) /\ UNCHANGED <<written, unheld>>
    BY DEF Received
  <2> HIDE DEF w
  <2> QED
    BY <2>1, <2>2, <2>3
<1>2. /\ stream \in Seq(Events) /\ reads \in Seq(Finishes) /\ written \in Seq(Records)
      /\ replies \in Seq(Replies)
  BY DEF IngestionIInv, TypesIInv
<1>3. Once(stream, runOf) /\ Once(reads, runOf) /\ Once(written, runOfWrite)
  BY DEF IngestionIInv, PlacesIInv
<1>4. /\ e \in Events /\ stream' \in Seq(Events) /\ Once(stream', runOf)
      /\ Carried(stream', runOf) = Carried(stream, runOf) \ {runOf[e]}
      /\ runOf[e] # 0 => runOf[e] \in Carried(stream, runOf)
  BY <1>1, <1>2, <1>3, RunsOfElements, HeadCarried
<1>5. /\ store' \in Stores /\ clock' \in Nat /\ hash' \in [Jobs -> JobType] /\ runs' \in Seq(RunType)
      /\ HashIInv' /\ RunsIInv'
      /\ Events' = Events /\ Finishes' = Finishes /\ Replies' = Replies /\ Records' = Records
  BY <1>1, InCollectorLemma
<1>6. runs' = runs
  BY <1>1 DEF InCollector
<1>7. CASE e.kind = "added"
  <2>1. runOf[e] = 0 /\ e.id \in Jobs
    BY <1>4, <1>7, RunsOfElements DEF Events, EventOf, EventType
  <2>2. w \in Records /\ w.run = 0
    <3>1. clock \in Int /\ NoTime \in Int
      BY DEF IngestionIInv, TypesIInv, NoTime
    <3> QED
      BY <2>1, <3>1 DEF Records, WriteType, Kinds
  <2> HIDE DEF w, e
  <2>3. runOfWrite[w] = 0 /\ 0 \notin Carried(written, runOfWrite)
    BY <2>2, RunsOfElements DEF Carried
  <2>4. /\ Append(written, w) \in Seq(Records) /\ Once(Append(written, w), runOfWrite)
        /\ Carried(Append(written, w), runOfWrite) =
              Carried(written, runOfWrite) \cup ({runOfWrite[w]} \ {0})
    <3>1. \A x \in Records : runOfWrite[x] \in Nat
      BY RunsOfElements
    <3> QED
      BY <1>2, <1>3, <2>2, <2>3, <3>1, AppendCarried
  <2>5. /\ written' \in {Append(written, w), written}
        /\ UNCHANGED <<store, reads, replies, unheld>>
    BY <1>1, <1>7
  <2>6. Carried(stream', runOf) = Carried(stream, runOf)
    BY <1>4, <2>1 DEF Carried
  <2>7. TypesIInv'
    BY <1>2, <1>4, <1>5, <2>4, <2>5 DEF TypesIInv
  <2>8. PlacesIInv'
    <3>1. Once(written', runOfWrite) /\ Carried(written', runOfWrite) = Carried(written, runOfWrite)
      BY <1>3, <2>3, <2>4, <2>5
    <3>2. Settled' = Settled /\ UnheldIInv'
      BY <1>6, <2>5, <3>1 DEF Settled, UnheldIInv, IngestionIInv, PlacesIInv
    <3> QED
      BY <1>4, <1>6, <2>5, <2>6, <3>1, <3>2 DEF IngestionIInv, PlacesIInv
  <2> QED
    BY <1>5, <2>7, <2>8 DEF IngestionIInv
<1>8. CASE e.kind # "added"
  <2>1. e \in Finishes /\ runOf[e] # 0 /\ runOf[e] \in Nat
    BY <1>4, <1>8, RunsOfElements DEF Events, EventOf, Finishes
  <2> HIDE DEF e
  <2>2. /\ runOf[e] \notin Carried(reads, runOf)
        /\ Partition(Carried(stream, runOf) \ {runOf[e]}, Carried(reads, runOf) \cup {runOf[e]},
                     Carried(replies, runOfReply), Settled, DOMAIN runs)
    <3>1. runOf[e] \in Carried(stream, runOf)
          /\ Partition(Carried(stream, runOf), Carried(reads, runOf), Carried(replies, runOfReply),
                       Settled, DOMAIN runs)
      BY <1>4, <2>1 DEF IngestionIInv, PlacesIInv
    <3> QED
      BY <3>1, IntoReads
  <2>3. /\ Append(reads, e) \in Seq(Finishes) /\ Once(Append(reads, e), runOf)
        /\ Carried(Append(reads, e), runOf) = Carried(reads, runOf) \cup ({runOf[e]} \ {0})
    <3>1. \A x \in Finishes : runOf[x] \in Nat
      BY RunsOfElements
    <3> QED
      BY <1>2, <1>3, <2>1, <2>2, <3>1, AppendCarried
  <2>4. reads' = Append(reads, e) /\ UNCHANGED <<store, written, replies, unheld>>
    BY <1>1, <1>8
  <2>5. TypesIInv'
    BY <1>2, <1>4, <1>5, <2>3, <2>4 DEF TypesIInv
  <2>6. /\ Carried(stream', runOf) = Carried(stream, runOf) \ {runOf[e]}
        /\ Carried(reads', runOf) = Carried(reads, runOf) \cup {runOf[e]}
        /\ Once(reads', runOf)
    BY <1>4, <2>1, <2>3, <2>4
  <2>7. PlacesIInv'
    <3>1. Settled' = Settled /\ UnheldIInv'
      BY <1>6, <2>4 DEF Settled, UnheldIInv, IngestionIInv, PlacesIInv
    <3> QED
      BY <1>4, <1>6, <2>2, <2>4, <2>6, <3>1 DEF IngestionIInv, PlacesIInv
  <2> QED
    BY <1>5, <2>5, <2>7 DEF IngestionIInv
<1> QED
  BY <1>7, <1>8

\* Redis answers the read of a job: its hash as it is now, or none.
LEMMA getJobKeepsIInv ==
    ASSUME IngestionIInv, UNCHANGED store, getJob
    PROVE  IngestionIInv'
<1> DEFINE e == Head(reads)
<1>1. /\ reads # <<>> /\ reads' = Tail(reads) /\ UNCHANGED <<store, stream, written, unheld>>
      /\ InCollector
  BY DEF getJob
<1>2. /\ stream \in Seq(Events) /\ reads \in Seq(Finishes) /\ written \in Seq(Records)
      /\ replies \in Seq(Replies) /\ hash \in [Jobs -> JobType] /\ runs \in Seq(RunType)
  BY DEF IngestionIInv, TypesIInv
<1>3. Once(reads, runOf) /\ Once(replies, runOfReply)
  BY DEF IngestionIInv, PlacesIInv
<1>4. /\ e \in Finishes /\ reads' \in Seq(Finishes) /\ Once(reads', runOf)
      /\ Carried(reads', runOf) = Carried(reads, runOf) \ {runOf[e]}
      /\ runOf[e] # 0 => runOf[e] \in Carried(reads, runOf)
  BY <1>1, <1>2, <1>3, RunsOfElements, HeadCarried
<1>5. /\ store' \in Stores /\ clock' \in Nat /\ hash' \in [Jobs -> JobType] /\ runs' \in Seq(RunType)
      /\ HashIInv' /\ RunsIInv'
      /\ Events' = Events /\ Finishes' = Finishes /\ Replies' = Replies /\ Records' = Records
  BY <1>1, InCollectorLemma
<1>6. runs' = runs
  BY <1>1 DEF InCollector
<1>7. PICK job \in {hash[e.id], None} : replies' = Append(replies, [event |-> e, job |-> job])
  BY DEF getJob
<1>8. /\ e \in EventType /\ e.run = runOf[e] /\ e.run # 0 /\ e.run \in DOMAIN runs /\ e.id \in Jobs
      /\ e.id = runs[e.run].id
  <2>1. e \in Events /\ e.run = runOf[e] /\ e.run # 0
    BY <1>4, RunsOfElements
  <2>2. e \in EventType /\ EventOf(e)
    BY <2>1 DEF Events
  <2> QED
    BY <2>1, <2>2 DEF EventOf, EventType
<1> DEFINE r == [event |-> e, job |-> job]
<1> HIDE DEF e
<1>9. job \in JobType
  BY <1>2, <1>7, <1>8, NoneType
<1>10. ReadFor(job, e.run)
  <2> SUFFICES ASSUME job.finishedOn # NoTime
               PROVE  \E m \in DOMAIN runs :
                         m >= e.run /\ runs[m].id = runs[e.run].id /\ TimesOf(job, m)
    BY DEF ReadFor
  <2>1. job = hash[e.id]
    BY <1>7, NoneType
  <2>2. PICK m \in DOMAIN runs : /\ runs[m].id = e.id /\ TimesOf(job, m)
                                 /\ \A l \in DOMAIN runs : runs[l].id = e.id => l <= m
    BY <1>8, <2>1 DEF IngestionIInv, HashIInv
  <2>3. e.run <= m
    BY <1>8, <2>2
  <2>4. m \in Nat /\ e.run \in Nat
    BY <1>2, <1>8
  <2>5. m >= e.run
    BY <2>3, <2>4
  <2> QED
    BY <1>8, <2>2, <2>5
<1>11. r \in Replies /\ runOfReply[r] = runOf[e]
  <2>1. r \in ReplyType /\ r.event = e /\ r.job = job
    BY <1>8, <1>9 DEF ReplyType
  <2> HIDE DEF r
  <2> QED
    BY <1>4, <1>8, <1>10, <2>1 DEF Replies, runOfReply
<1> HIDE DEF r
<1>12. runOf[e] \in Carried(reads, runOf) /\ runOf[e] \notin Carried(replies, runOfReply)
       /\ runOf[e] # 0
       /\ Partition(Carried(stream, runOf), Carried(reads, runOf) \ {runOf[e]},
                    Carried(replies, runOfReply) \cup {runOf[e]}, Settled,
                    DOMAIN runs)
  <2>1. runOf[e] # 0 /\ runOf[e] \in Carried(reads, runOf)
        /\ Partition(Carried(stream, runOf), Carried(reads, runOf), Carried(replies, runOfReply),
                     Settled, DOMAIN runs)
    BY <1>4, <1>8 DEF IngestionIInv, PlacesIInv
  <2> QED
    BY <2>1, IntoReplies
<1>13. /\ Append(replies, r) \in Seq(Replies) /\ Once(Append(replies, r), runOfReply)
       /\ Carried(Append(replies, r), runOfReply) =
             Carried(replies, runOfReply) \cup ({runOfReply[r]} \ {0})
  <2>1. \A x \in Replies : runOfReply[x] \in Nat
    BY RunsOfElements
  <2> QED
    BY <1>2, <1>3, <1>11, <1>12, <2>1, AppendCarried
<1>14. replies' = Append(replies, r)
  BY <1>7 DEF r
<1>15. TypesIInv'
  BY <1>1, <1>2, <1>4, <1>5, <1>13, <1>14 DEF TypesIInv
<1>16. /\ Carried(replies', runOfReply) = Carried(replies, runOfReply) \cup {runOf[e]}
       /\ Once(replies', runOfReply)
  BY <1>11, <1>12, <1>13, <1>14
<1>17. PlacesIInv'
  <2>1. Settled' = Settled /\ UnheldIInv'
    BY <1>1, <1>6 DEF Settled, UnheldIInv, IngestionIInv, PlacesIInv
  <2> QED
    BY <1>1, <1>4, <1>6, <1>12, <1>16, <2>1 DEF IngestionIInv, PlacesIInv
<1> QED
  BY <1>5, <1>15, <1>17 DEF IngestionIInv

\* The event is written to the store, or its write fails.
LEMMA WritesKeepsIInv ==
    ASSUME IngestionIInv, UNCHANGED store, Writes
    PROVE  IngestionIInv'
<1> DEFINE r == Head(replies)
           e == r.event
           job == r.job
           w == [kind |-> e.kind, jobName |-> NameOf(e, job), at |-> At(job),
                 run |-> e.run, waitMs |-> waitMs(job), runMs |-> runMs(job),
                 errorSignature |-> errorSignature(e, job)]
<1>1. /\ replies # <<>> /\ replies' = Tail(replies) /\ Write(w)
      /\ UNCHANGED <<store, stream, reads>> /\ InCollector
  BY DEF Writes
<1>2. /\ stream \in Seq(Events) /\ reads \in Seq(Finishes) /\ written \in Seq(Records)
      /\ replies \in Seq(Replies) /\ runs \in Seq(RunType) /\ clock \in Nat /\ store \in Stores
  BY DEF IngestionIInv, TypesIInv
<1>3. Once(replies, runOfReply) /\ Once(written, runOfWrite)
  BY DEF IngestionIInv, PlacesIInv
<1>4. /\ r \in Replies /\ replies' \in Seq(Replies) /\ Once(replies', runOfReply)
      /\ Carried(replies', runOfReply) = Carried(replies, runOfReply) \ {runOfReply[r]}
      /\ runOfReply[r] # 0 => runOfReply[r] \in Carried(replies, runOfReply)
  BY <1>1, <1>2, <1>3, RunsOfElements, HeadCarried
<1>5. /\ store' \in Stores /\ clock' \in Nat /\ hash' \in [Jobs -> JobType] /\ runs' \in Seq(RunType)
      /\ HashIInv' /\ RunsIInv'
      /\ Events' = Events /\ Finishes' = Finishes /\ Replies' = Replies /\ Records' = Records
  BY <1>1, InCollectorLemma
<1>6. runs' = runs
  BY <1>1 DEF InCollector
<1>7. /\ e \in Finishes /\ job \in JobType /\ ReadFor(job, e.run) /\ runOfReply[r] = e.run /\ e.run # 0
  BY <1>4, RunsOfElements DEF Replies, ReplyType
<1> HIDE DEF r, e, job
<1>8. /\ e \in EventType /\ e.kind # "added" /\ e.run \in DOMAIN runs
      /\ e.id = runs[e.run].id /\ e.kind = runs[e.run].kind /\ e.reason = runs[e.run].reason
  <2>1. e \in EventType /\ EventOf(e)
    BY <1>7 DEF Finishes, Events
  <2> QED
    BY <1>7, <2>1 DEF EventOf
<1>9. /\ job.timestamp \in Int /\ job.processedOn \in Int /\ job.finishedOn \in Int
      /\ job.failedReason \in Reasons \cup {Null}
      /\ e.kind \in Kinds /\ e.id \in Jobs /\ e.run \in Nat
  BY <1>7, <1>8 DEF JobType, EventType
<1>11. runs[e.run].kind = "failed" => e.reason \in Reasons /\ e.reason # Null
  BY <1>8, IngestionAssumption DEF IngestionIInv, RunsIInv
<1>12. NameOf(e, job) \in {runs[e.run].id, Null} /\ NameOf(e, job) \in Jobs \cup {Null}
  BY <1>8, <1>9 DEF NameOf
<1>13. errorSignature(e, job) = IF runs[e.run].kind = "failed" THEN SignatureOf[runs[e.run].reason]
                                ELSE Null
  BY <1>8, <1>11 DEF errorSignature, ReasonOf
<1>14. errorSignature(e, job) \in {SignatureOf[x] : x \in Reasons} \cup {Null}
  BY <1>8, <1>11, <1>13
<1>15. At(job) \in Int /\ waitMs(job) \in Int /\ runMs(job) \in Int
  BY <1>2, <1>9 DEF At, waitMs, runMs, NoTime
<1>16. runs[e.run].finishedOn <= At(job) /\ At(job) <= clock
  <2>1. CASE job.finishedOn = NoTime
    <3>1. At(job) = clock /\ runs[e.run].finishedOn <= clock
      BY <1>8, <2>1 DEF At, IngestionIInv, RunsIInv
    <3> QED
      BY <1>2, <3>1
  <2>2. CASE job.finishedOn # NoTime
    <3>1. PICK m \in DOMAIN runs : m >= e.run /\ runs[m].finishedOn = job.finishedOn
      BY <1>7, <2>2 DEF ReadFor, TimesOf
    <3>2. e.run <= m
      BY <1>2, <1>9, <3>1
    <3>3. runs[e.run].finishedOn <= runs[m].finishedOn /\ runs[m].finishedOn <= clock
      BY <1>8, <3>2 DEF IngestionIInv, RunsIInv
    <3> QED
      BY <2>2, <3>1, <3>3 DEF At
  <2> QED
    BY <2>1, <2>2
<1>17. runMs(job) # NoTime =>
          \E m \in DOMAIN runs :
             /\ m >= e.run /\ runs[m].id = runs[e.run].id
             /\ runs[m].finishedOn = At(job) /\ runs[m].waitMs = waitMs(job)
             /\ runs[m].runMs = runMs(job)
  <2> SUFFICES ASSUME runMs(job) # NoTime
               PROVE  \E m \in DOMAIN runs :
                         /\ m >= e.run /\ runs[m].id = runs[e.run].id
                         /\ runs[m].finishedOn = At(job) /\ runs[m].waitMs = waitMs(job)
                         /\ runs[m].runMs = runMs(job)
    OBVIOUS
  <2>1. job.finishedOn # NoTime /\ job.processedOn # NoTime
    BY DEF runMs
  <2>2. PICK m \in DOMAIN runs : m >= e.run /\ runs[m].id = runs[e.run].id /\ TimesOf(job, m)
    BY <1>7, <2>1 DEF ReadFor
  <2> QED
    BY <2>1, <2>2 DEF TimesOf, At, waitMs, runMs
<1>18. w \in WriteType /\ w.run = e.run
  BY <1>9, <1>12, <1>14, <1>15 DEF WriteType
<1>19. w.jobName \notin store.refuses => w \in Records /\ runOfWrite[w] = e.run
  <2>1. w.jobName \notin store.refuses => WrittenFor(w, e.run)
    BY <1>8, <1>12, <1>13, <1>16, <1>17 DEF WrittenFor
  <2> QED
    BY <1>18, <2>1 DEF Records, runOfWrite
<1>20. w.jobName \in store.refuses => runs[e.run].id \in store.refuses
  <2>1. w.jobName \in {runs[e.run].id, Null}
    BY <1>12
  <2>2. Null \notin store.refuses
    BY <1>2, IngestionAssumption
  <2> QED
    BY <2>1, <2>2
<1> HIDE DEF w
<1>21. /\ e.run \in Nat /\ e.run \notin Carried(written, runOfWrite) /\ e.run \notin unheld
       /\ Partition(Carried(stream, runOf), Carried(reads, runOf),
                    Carried(replies, runOfReply) \ {e.run}, Settled \cup {e.run}, DOMAIN runs)
  <2>1. e.run \in Carried(replies, runOfReply)
        /\ Partition(Carried(stream, runOf), Carried(reads, runOf), Carried(replies, runOfReply),
                     Settled, DOMAIN runs)
    BY <1>4, <1>7 DEF IngestionIInv, PlacesIInv
  <2>2. e.run \notin Settled
        /\ Partition(Carried(stream, runOf), Carried(reads, runOf),
                     Carried(replies, runOfReply) \ {e.run}, Settled \cup {e.run}, DOMAIN runs)
    BY <2>1, IntoStore
  <2> QED
    BY <1>9, <2>2 DEF Settled
<1>22. /\ written' \in Seq(Records) /\ Once(written', runOfWrite)
       /\ Settled' = Settled \cup {e.run} /\ UnheldIInv'
  <2>1. CASE Writable(w) /\ written' = Append(written, w) /\ unheld' = unheld
    <3>1. w \in Records /\ runOfWrite[w] = e.run
      BY <1>19, <2>1 DEF Writable
    <3>2. /\ Append(written, w) \in Seq(Records) /\ Once(Append(written, w), runOfWrite)
          /\ Carried(Append(written, w), runOfWrite) =
                Carried(written, runOfWrite) \cup ({runOfWrite[w]} \ {0})
      <4>1. \A x \in Records : runOfWrite[x] \in Nat
        BY RunsOfElements
      <4> QED
        BY <1>2, <1>3, <1>21, <3>1, <4>1, AppendCarried
    <3>3. Carried(written', runOfWrite) = Carried(written, runOfWrite) \cup {e.run}
      BY <1>7, <2>1, <3>1, <3>2
    <3>4. UnheldIInv'
      BY <1>1, <1>6, <1>21, <2>1, <3>3 DEF IngestionIInv, PlacesIInv, UnheldIInv
    <3> QED
      BY <2>1, <3>2, <3>3, <3>4 DEF Settled
  <2>2. CASE /\ ~Writable(w) \/ store.fails
             /\ unheld' = unheld \cup ({w.run} \ {0}) /\ written' = written
    <3>1. unheld' = unheld \cup {e.run}
      BY <1>7, <1>18, <2>2
    <3>2. store.fails \/ runs[e.run].id \in store.refuses
      BY <1>20, <2>2 DEF Writable
    <3>3. UnheldIInv'
      BY <1>1, <1>6, <1>8, <1>21, <2>2, <3>1, <3>2 DEF IngestionIInv, PlacesIInv, UnheldIInv
    <3> QED
      BY <1>2, <1>3, <2>2, <3>1, <3>3 DEF Settled
  <2> QED
    BY <1>1, <2>1, <2>2 DEF Write
<1>23. TypesIInv'
  BY <1>1, <1>2, <1>4, <1>5, <1>22 DEF TypesIInv
<1>24. PlacesIInv'
  BY <1>1, <1>4, <1>6, <1>7, <1>21, <1>22 DEF IngestionIInv, PlacesIInv
<1> QED
  BY <1>5, <1>23, <1>24 DEF IngestionIInv

\* Every step of the pipeline keeps the invariant of the ingestion.
LEMMA NextIngestionIInv == IngestionIInv /\ [LiveNext]_liveVars => IngestionIInv'
<1> SUFFICES ASSUME IngestionIInv, [LiveNext]_liveVars PROVE IngestionIInv'
  OBVIOUS
<1>1. CASE UNCHANGED ingestionVars
  <2>1. UNCHANGED <<store, clock, hash, stream, reads, replies, written, unheld, runs>>
    BY <1>1 DEF ingestionVars
  <2>2. /\ HashIInv' /\ RunsIInv'
        /\ Events' = Events /\ Finishes' = Finishes /\ Replies' = Replies /\ Records' = Records
    BY <2>1, InCollectorLemma DEF InCollector
  <2>3. TypesIInv' /\ PlacesIInv'
    BY <2>1, <2>2 DEF IngestionIInv, TypesIInv, PlacesIInv, Settled, UnheldIInv
  <2> QED
    BY <2>2, <2>3 DEF IngestionIInv
<1>2. CASE IngestionNext
  <2>0. UNCHANGED store
    BY <1>2 DEF IngestionNext
  <2>1. ASSUME NEW j \in Jobs, NEW keep \in BOOLEAN, Finished(j, "completed", Null, keep)
        PROVE  IngestionIInv'
    BY <2>0, <2>1, FinishedKeepsIInv
  <2>2. ASSUME NEW j \in Jobs, NEW keep \in BOOLEAN, NEW reason \in Reasons,
               Finished(j, "failed", reason, keep)
        PROVE  IngestionIInv'
    BY <2>0, <2>2, FinishedKeepsIInv
  <2> QED
    BY <1>2, <2>0, <2>1, <2>2, TimePassesKeepsIInv, HashOnlyKeepsIInv, AddedKeepsIInv,
       ReceivedKeepsIInv, getJobKeepsIInv, WritesKeepsIInv DEF IngestionNext
<1> QED
  BY <1>1, <1>2 DEF LiveNext, liveVars

\* Nothing has happened initially.
LEMMA InitIngestionIInv == IngestionInit => IngestionIInv
<1> SUFFICES ASSUME IngestionInit PROVE IngestionIInv
  OBVIOUS
<1>1. store \in Stores /\ clock = 0 /\ hash = [j \in Jobs |-> None] /\ stream = <<>> /\ reads = <<>>
      /\ replies = <<>> /\ written = <<>> /\ unheld = {} /\ runs = <<>>
  BY DEF IngestionInit
<1>2. TypesIInv
  <2>1. \A S : <<>> \in Seq(S)
    OBVIOUS
  <2>2. hash \in [Jobs -> JobType]
    BY <1>1, NoneType
  <2>3. clock \in Nat
    BY <1>1
  <2>4. runs \in Seq(RunType) /\ stream \in Seq(Events) /\ reads \in Seq(Finishes)
        /\ replies \in Seq(Replies) /\ written \in Seq(Records)
    BY <1>1, <2>1, Zenon
  <2> QED
    BY <1>1, <2>2, <2>3, <2>4 DEF TypesIInv
<1>3. HashIInv
  BY <1>1, NoneType DEF HashIInv
<1>4. DOMAIN runs = {} /\ DOMAIN stream = {} /\ DOMAIN reads = {} /\ DOMAIN replies = {}
      /\ DOMAIN written = {}
  BY <1>1
<1>5. RunsIInv
  BY <1>4 DEF RunsIInv
<1>6. PlacesIInv
  <2>1. Once(stream, runOf) /\ Once(reads, runOf)
        /\ Once(replies, runOfReply) /\ Once(written, runOfWrite)
    BY <1>4 DEF Once
  <2>2. Carried(stream, runOf) = {} /\ Carried(reads, runOf) = {}
        /\ Carried(replies, runOfReply) = {} /\ Carried(written, runOfWrite) = {}
    BY <1>4 DEF Carried
  <2>3. Partition({}, {}, {}, {}, {})
    BY DEF Partition
  <2> QED
    BY <1>1, <1>4, <2>1, <2>2, <2>3 DEF PlacesIInv, Settled, UnheldIInv
<1> QED
  BY <1>2, <1>3, <1>5, <1>6 DEF IngestionIInv

\* The invariant of the ingestion holds throughout.
LEMMA SpecIngestionIInv == LiveSpec => []IngestionIInv
BY InitIngestionIInv, NextIngestionIInv, PTL DEF LiveSpec, LiveInit

(***************************************************************************)
(* Whatever has become of the job of an event, and of the read of its      *)
(* hash, onFinished (metrics-collector.ts) counts each finish once, unless *)
(* its one write fails, for Redis or a refused name: under its own kind    *)
(* and name, and in no bucket before that of its finish.                   *)
(***************************************************************************)
THEOREM EveryFinishCounts == LiveSpec => []CountsEveryFinish
<1>1. IngestionIInv => CountsEveryFinish
  <2> SUFFICES ASSUME IngestionIInv, NEW n \in DOMAIN runs
               PROVE  /\ Cardinality(WrittenOf(n)) + Cardinality(OnTheWay(n)) =
                            IF n \in unheld THEN 0 ELSE 1
                      /\ n \in unheld => store.fails \/ runs[n].id \in store.refuses
                      /\ \A i \in WrittenOf(n) :
                            /\ written[i].kind = runs[n].kind
                            /\ written[i].at \in runs[n].finishedOn..clock
                            /\ written[i].jobName \in {runs[n].id, Null} \ store.refuses
    BY DEF CountsEveryFinish
  <2>1. /\ stream \in Seq(Events) /\ reads \in Seq(Finishes) /\ written \in Seq(Records)
        /\ replies \in Seq(Replies) /\ runs \in Seq(RunType) /\ clock \in Nat
    BY DEF IngestionIInv, TypesIInv
  <2>2. n \in Nat /\ n # 0 /\ runs[n] \in RunType
    BY <2>1
  <2>3. ASSUME NEW i \in WrittenOf(n)
        PROVE  /\ i \in DOMAIN written /\ written[i] \in WriteType /\ written[i].run = n
               /\ runOfWrite[written[i]] = n /\ WrittenFor(written[i], n)
    <3>1. i \in DOMAIN written /\ written[i].run = n
      BY DEF WrittenOf
    <3>2. written[i] \in Records
      BY <2>1, <3>1
    <3> QED
      BY <2>2, <3>1, <3>2, RunsOfElements DEF Records
  <2>4. ASSUME NEW i \in WrittenOf(n)
        PROVE  /\ written[i].kind = runs[n].kind
               /\ written[i].at \in runs[n].finishedOn..clock
               /\ written[i].jobName \in {runs[n].id, Null} \ store.refuses
    <3>1. WrittenFor(written[i], n) /\ written[i].at \in Int /\ runs[n].finishedOn \in Int
      BY <2>2, <2>3 DEF WriteType, RunType
    <3> QED
      BY <2>1, <3>1 DEF WrittenFor
  <2>5. ASSUME NEW x \in OnTheWay(n)
        PROVE  /\ x \in Events /\ x.run = n
               /\ \/ n \in Carried(stream, runOf)
                  \/ n \in Carried(reads, runOf)
                  \/ n \in Carried(replies, runOfReply)
    <3>1. x.run = n /\ x \in ToSet(stream) \cup ToSet(reads) \cup {r.event : r \in ToSet(replies)}
      BY DEF OnTheWay
    <3>2. CASE x \in ToSet(stream)
      <4>1. PICK i \in DOMAIN stream : x = stream[i]
        BY <3>2 DEF ToSet
      <4>2. x \in Events
        BY <2>1, <4>1
      <4> QED
        BY <2>2, <3>1, <4>1, <4>2, RunsOfElements DEF Carried
    <3>3. CASE x \in ToSet(reads)
      <4>1. PICK i \in DOMAIN reads : x = reads[i]
        BY <3>3 DEF ToSet
      <4>2. x \in Finishes
        BY <2>1, <4>1
      <4> QED
        BY <2>2, <3>1, <4>1, <4>2, RunsOfElements DEF Carried
    <3>4. ASSUME NEW r \in ToSet(replies), x = r.event
          PROVE  x \in Events /\ n \in Carried(replies, runOfReply)
      <4>1. PICK i \in DOMAIN replies : r = replies[i]
        BY <3>4 DEF ToSet
      <4>2. r \in Replies
        BY <2>1, <4>1
      <4>3. x \in Events
        BY <3>4, <4>2 DEF Replies, Finishes
      <4> QED
        BY <2>2, <3>1, <3>4, <4>1, <4>2, <4>3, RunsOfElements DEF Carried
    <3> QED
      BY <3>1, <3>2, <3>3, <3>4
  <2>6. /\ Partition(Carried(stream, runOf), Carried(reads, runOf), Carried(replies, runOfReply),
                     Settled, DOMAIN runs)
        /\ UnheldIInv
    BY DEF IngestionIInv, PlacesIInv
  <2>7. CASE n \in Carried(written, runOfWrite)
    <3>1. PICK i \in DOMAIN written : runOfWrite[written[i]] = n
      BY <2>7 DEF Carried
    <3>2. written[i] \in Records
      BY <2>1
    <3>3. i \in WrittenOf(n)
      BY <3>1, <3>2, RunsOfElements DEF WrittenOf
    <3>4. \A k \in WrittenOf(n) : k = i
      BY <2>2, <2>3, <3>1 DEF IngestionIInv, PlacesIInv, Once
    <3>5. WrittenOf(n) = {i}
      BY <3>3, <3>4
    <3>6. OnTheWay(n) = {} /\ n \notin unheld
      BY <2>5, <2>6, <2>7 DEF Partition, Settled, UnheldIInv
    <3>7. Cardinality(WrittenOf(n)) = 1 /\ Cardinality(OnTheWay(n)) = 0
      BY <3>5, <3>6, FS_Singleton, FS_EmptySet
    <3> QED
      BY <2>4, <3>6, <3>7
  <2>8. CASE n \in unheld
    <3>1. n \notin Carried(written, runOfWrite) /\ n \in Settled
      BY <2>6, <2>8 DEF Settled, UnheldIInv
    <3>2. WrittenOf(n) = {}
      BY <2>2, <2>3, <3>1 DEF Carried
    <3>3. OnTheWay(n) = {}
      BY <2>5, <2>6, <3>1 DEF Partition
    <3>4. Cardinality(WrittenOf(n)) = 0 /\ Cardinality(OnTheWay(n)) = 0
      BY <3>2, <3>3, FS_EmptySet
    <3> QED
      BY <2>4, <2>6, <2>8, <3>4 DEF UnheldIInv
  <2>9. CASE n \notin Settled
    <3>1. WrittenOf(n) = {} /\ n \notin unheld
      BY <2>2, <2>3, <2>9 DEF Carried, Settled
    <3>2. PICK x : x \in OnTheWay(n)
      <4>1. CASE n \in Carried(stream, runOf)
        <5>1. PICK i \in DOMAIN stream : runOf[stream[i]] = n
          BY <4>1 DEF Carried
        <5>2. stream[i] \in Events /\ stream[i] \in ToSet(stream)
          BY <2>1 DEF ToSet
        <5> QED
          BY <5>1, <5>2, RunsOfElements DEF OnTheWay
      <4>2. CASE n \in Carried(reads, runOf)
        <5>1. PICK i \in DOMAIN reads : runOf[reads[i]] = n
          BY <4>2 DEF Carried
        <5>2. reads[i] \in Finishes /\ reads[i] \in ToSet(reads)
          BY <2>1 DEF ToSet
        <5> QED
          BY <5>1, <5>2, RunsOfElements DEF OnTheWay
      <4>3. CASE n \in Carried(replies, runOfReply)
        <5>1. PICK i \in DOMAIN replies : runOfReply[replies[i]] = n
          BY <4>3 DEF Carried
        <5>2. replies[i] \in Replies /\ replies[i] \in ToSet(replies)
          BY <2>1 DEF ToSet
        <5>3. replies[i].event.run = n
          BY <5>1, <5>2, RunsOfElements
        <5> QED
          BY <5>2, <5>3 DEF OnTheWay
      <4> QED
        BY <2>6, <2>9, <4>1, <4>2, <4>3 DEF Partition
    <3>3. ASSUME NEW y \in OnTheWay(n) PROVE y = x
      <4>1. x \in EventType /\ y \in EventType /\ EventOf(x) /\ EventOf(y)
            /\ x.run = n /\ y.run = n
        BY <2>5, <3>2 DEF Events
      <4>2. x.id = y.id /\ x.kind = y.kind /\ x.reason = y.reason
        BY <2>2, <4>1 DEF EventOf
      <4> QED
        BY <4>1, <4>2 DEF EventType
    <3>4. OnTheWay(n) = {x}
      BY <3>2, <3>3
    <3> QED
      BY <2>4, <3>1, <3>4, FS_Singleton, FS_EmptySet
  <2> QED
    BY <2>7, <2>8, <2>9 DEF Settled
<1> QED
  BY <1>1, SpecIngestionIInv, PTL

(***************************************************************************)
(* What onFinished writes of an event is told by the event and by one      *)
(* reading of the hash: the durations and the time are those of one run,   *)
(* of this event or of a later run of the job, and a failure is grouped    *)
(* under its own reason.                                                   *)
(***************************************************************************)
THEOREM EventsTellOfOneRun == LiveSpec => []EventTellsOfOneRun
<1>1. IngestionIInv => EventTellsOfOneRun
  <2> SUFFICES ASSUME IngestionIInv, NEW n \in DOMAIN runs, NEW i \in WrittenOf(n)
               PROVE  /\ written[i].runMs # NoTime =>
                            \E m \in DOMAIN runs :
                               /\ <<runs[m].id, runs[m].finishedOn>> = <<runs[n].id, written[i].at>>
                               /\ <<runs[m].waitMs, runs[m].runMs>> =
                                     <<written[i].waitMs, written[i].runMs>>
                               /\ RanAgain(n) \/ m = n
                      /\ written[i].errorSignature =
                            (IF runs[n].kind = "failed" THEN SignatureOf[runs[n].reason] ELSE Null)
    BY DEF EventTellsOfOneRun, LatencyOfItsRun, FailureKeepsItsSignature
  <2>1. written \in Seq(Records) /\ runs \in Seq(RunType)
    BY DEF IngestionIInv, TypesIInv
  <2>2. WrittenFor(written[i], n)
    <3>1. i \in DOMAIN written /\ written[i].run = n
      BY DEF WrittenOf
    <3>2. written[i] \in Records /\ n # 0
      BY <2>1, <3>1
    <3> QED
      BY <3>1, <3>2 DEF Records
  <2>3. ASSUME written[i].runMs # NoTime
        PROVE  \E m \in DOMAIN runs :
                  /\ <<runs[m].id, runs[m].finishedOn>> = <<runs[n].id, written[i].at>>
                  /\ <<runs[m].waitMs, runs[m].runMs>> = <<written[i].waitMs, written[i].runMs>>
                  /\ RanAgain(n) \/ m = n
    <3>1. PICK m \in DOMAIN runs :
             /\ m >= n /\ runs[m].id = runs[n].id
             /\ runs[m].finishedOn = written[i].at /\ runs[m].waitMs = written[i].waitMs
             /\ runs[m].runMs = written[i].runMs
      BY <2>2, <2>3 DEF WrittenFor
    <3>2. m > n \/ m = n
      BY <2>1, <3>1
    <3>3. RanAgain(n) \/ m = n
      BY <3>1, <3>2 DEF RanAgain
    <3> QED
      BY <3>1, <3>3
  <2> QED
    BY <2>2, <2>3 DEF WrittenFor
<1> QED
  BY <1>1, SpecIngestionIInv, PTL
=============================================================================
