---------------------------- MODULE ConsoleProofs ----------------------------
(***************************************************************************)
(* The safety of the parts of Console, for all queues, jobs, texts and     *)
(* commands: the drawer (JobDrawer), the polls (UsePoll), the command      *)
(* palette (CommandPalette), the forms (SearchForms) and the demo          *)
(* (DemoBackend).  The fairness of Console is used by none of them.        *)
(***************************************************************************)
EXTENDS Console, DataInduction, FiniteSetTheorems

-----------------------------------------------------------------------------
(* JobDrawer. *)

\* What the form of a replay may hold when it is that of the job t.
TextsOf(t) == {Text(t), Edited(t), Invalid}

\* The job shown is that of the target, a request that is not aborted is for the
\* target, and the form of a replay is open only on a job that has come.
DrawerIInv ==
    /\ loads \in SUBSET [target : Targets, number : Int, aborted : BOOLEAN]
    /\ opens \in Int /\ replayOpen \in BOOLEAN
    /\ \A l \in loads : l.aborted = FALSE => l.target = current
    /\ job # None => job = current
    /\ job = None => state = "waiting" /\ replayOpen = FALSE
    /\ replayOpen = TRUE => replayText \in TextsOf(current)
    /\ \A a \in acts : a.op = "replay" => a.text \in {Text(a.target), Edited(a.target)}
    /\ toast # 0 => timers = {toast}

\* The effect of the drawer aborts every request but the one it makes.
LEMMA EffectLemma ==
    ASSUME DrawerIInv, NEW t \in Targets \cup {None}, opens' \in Int, Effect(t),
           \A a \in acts' : a.op = "replay" => a.text \in {Text(a.target), Edited(a.target)},
           toast' # 0 => timers' = {toast'}
    PROVE  DrawerIInv'
<1>1. /\ current' = t /\ job' = None /\ state' = "waiting" /\ replayOpen' = FALSE
      /\ loads' = {[l EXCEPT !.aborted = TRUE] : l \in loads} \cup
                     (IF t = None THEN {}
                      ELSE {[target |-> t, number |-> opens', aborted |-> FALSE]})
  BY DEF Effect, Forgotten
<1>2. \A l \in loads : /\ [l EXCEPT !.aborted = TRUE] \in [target : Targets, number : Int, aborted : BOOLEAN]
                       /\ [l EXCEPT !.aborted = TRUE].aborted = TRUE
  BY DEF DrawerIInv
<1>3. t # None => [target |-> t, number |-> opens', aborted |-> FALSE]
                      \in [target : Targets, number : Int, aborted : BOOLEAN]
  OBVIOUS
<1>4. loads' \in SUBSET [target : Targets, number : Int, aborted : BOOLEAN]
  BY <1>1, <1>2, <1>3
<1>5. \A l \in loads' : l.aborted = FALSE => l.target = t
  BY <1>1, <1>2
<1> QED
  BY <1>1, <1>4, <1>5 DEF DrawerIInv

\* The drawer opens on a target: what it shows of the last is forgotten.
LEMMA OpenKeepsIInv ==
    ASSUME DrawerIInv, NEW t \in Targets, Open(t)
    PROVE  DrawerIInv'
<1>1. /\ opens' = opens + 1 /\ Effect(t) /\ acts' = acts /\ toast' = toast /\ timers' = timers
  BY DEF Open
<1>2. opens' \in Int
  BY <1>1 DEF DrawerIInv
<1>3. /\ \A a \in acts' : a.op = "replay" => a.text \in {Text(a.target), Edited(a.target)}
      /\ toast' # 0 => timers' = {toast'}
  BY <1>1 DEF DrawerIInv
<1> QED
  BY <1>1, <1>2, <1>3, EffectLemma

\* The drawer closes; its loads are aborted.
LEMMA CloseKeepsIInv ==
    ASSUME DrawerIInv, Close
    PROVE  DrawerIInv'
<1>1. opens' = opens /\ Effect(None) /\ acts' = acts /\ toast' = toast /\ timers' = timers
  BY DEF Close
<1>2. opens' \in Int
  BY <1>1 DEF DrawerIInv
<1>3. /\ \A a \in acts' : a.op = "replay" => a.text \in {Text(a.target), Edited(a.target)}
      /\ toast' # 0 => timers' = {toast'}
  BY <1>1 DEF DrawerIInv
<1> QED
  BY <1>1, <1>2, <1>3, EffectLemma

\* A load ends: it is shown only if it was not aborted.
LEMMA LoadedKeepsIInv ==
    ASSUME DrawerIInv, NEW l \in loads, Loaded(l) \/ LoadAborted(l)
    PROVE  DrawerIInv'
<1>1. /\ loads' = loads \ {l}
      /\ UNCHANGED <<current, replayOpen, replayText, acts, toast, timers, opens>>
  BY DEF Loaded, LoadAborted
<1>2. \/ l.aborted = FALSE /\ job' = l.target
      \/ UNCHANGED <<job, state>>
  BY DEF Loaded, LoadAborted, DrawerIInv
<1>3. l.target # None
  BY DrawerAssumption DEF DrawerIInv
<1> QED
  BY <1>1, <1>2, <1>3 DEF DrawerIInv

\* What is open stays as it is while a mutation leaves.
LEMMA ActKeepsIInv ==
    ASSUME DrawerIInv, NEW op, NEW typed, act(op, typed),
           op = "replay" => typed \in {Text(current), Edited(current)}
    PROVE  DrawerIInv'
<1> DEFINE a == [op |-> op, target |-> current, text |-> typed, number |-> mutations']
<1>1. /\ UNCHANGED <<current, job, state, error, replayOpen, replayText, loads, toast, timers, opens>>
      /\ acts' = acts \cup {a}
  BY DEF act, drawerVarsOfJob
<1>2. a.op = op /\ a.target = current /\ a.text = typed
  OBVIOUS
<1> HIDE DEF a
<1>3. \A b \in acts' : b.op = "replay" => b.text \in {Text(b.target), Edited(b.target)}
  BY <1>1, <1>2 DEF DrawerIInv
<1> QED
  BY <1>1, <1>3 DEF DrawerIInv

\* The replay form opens, is edited, and closes.
LEMMA ReplayFormKeepsIInv ==
    ASSUME DrawerIInv, ToggleReplay \/ Edit \/ CancelReplay
    PROVE  DrawerIInv'
<1>1. UNCHANGED <<current, job, state, error, loads, acts, toast, timers, opens>>
  BY DEF ToggleReplay, Edit, CancelReplay
<1>2. CASE ToggleReplay
  <2>1. job = current /\ job # None
    BY <1>2 DEF ToggleReplay, DrawerIInv
  <2>2. replayText' = Text(current) /\ replayOpen' \in BOOLEAN
    BY <1>2, <2>1 DEF ToggleReplay
  <2> QED
    BY <1>1, <2>1, <2>2 DEF DrawerIInv, TextsOf
<1>3. CASE Edit
  <2>1. job = current /\ job # None /\ replayOpen' = replayOpen
    BY <1>3 DEF Edit, DrawerIInv
  <2>2. replayText' \in {Edited(current), Invalid}
    BY <1>3, <2>1 DEF Edit
  <2> QED
    BY <1>1, <2>1, <2>2 DEF DrawerIInv, TextsOf
<1>4. CASE CancelReplay
  BY <1>1, <1>4 DEF CancelReplay, DrawerIInv
<1> QED
  BY <1>2, <1>3, <1>4

\* The replay is posted for the job that is shown.
LEMMA SubmitKeepsIInv ==
    ASSUME DrawerIInv, SubmitReplay
    PROVE  DrawerIInv'
<1>1. CASE replayText # Invalid /\ act("replay", replayText)
  <2>1. replayText \in {Text(current), Edited(current)}
    BY <1>1 DEF SubmitReplay, DrawerIInv, TextsOf
  <2> QED
    BY <1>1, <2>1, ActKeepsIInv
<1>2. CASE show /\ UNCHANGED <<drawerVarsOfJob, acts, opens>>
  BY <1>2 DEF show, drawerVarsOfJob, DrawerIInv
<1> QED
  BY <1>1, <1>2 DEF SubmitReplay

\* An action is answered, whichever job the drawer then shows.
LEMMA ActedKeepsIInv ==
    ASSUME DrawerIInv, NEW a \in acts, Acted(a)
    PROVE  DrawerIInv'
<1>1. acts' = acts \ {a} /\ toast' = shown' /\ timers' = {shown'} /\ opens' = opens
  BY DEF Acted, show
<1>2. /\ \A b \in acts' : b.op = "replay" => b.text \in {Text(b.target), Edited(b.target)}
      /\ toast' # 0 => timers' = {toast'}
      /\ opens' \in Int
  BY <1>1 DEF DrawerIInv
<1>3. CASE Effect(None)
  BY <1>2, <1>3, EffectLemma
<1>4. CASE UNCHANGED drawerVarsOfJob
  BY <1>1, <1>2, <1>4 DEF drawerVarsOfJob, DrawerIInv
<1> QED
  BY <1>3, <1>4 DEF Acted

\* Every step of the console keeps the invariant of the drawer.
LEMMA NextDrawerIInv == DrawerIInv /\ [Next]_vars => DrawerIInv'
<1> SUFFICES ASSUME DrawerIInv, [Next]_vars PROVE DrawerIInv'
  OBVIOUS
<1>1. CASE UNCHANGED drawerVars
  BY <1>1 DEF drawerVars, DrawerIInv
<1>2. CASE DrawerNext
  <2>1. ASSUME NEW t \in Targets, Open(t) PROVE DrawerIInv'
    BY <2>1, OpenKeepsIInv
  <2>2. CASE Close
    BY <2>2, CloseKeepsIInv
  <2>3. ASSUME NEW l \in loads, Loaded(l) \/ LoadAborted(l) PROVE DrawerIInv'
    BY <2>3, LoadedKeepsIInv
  <2>4. ASSUME NEW op \in {"retry", "promote", "remove"}, Press(op) PROVE DrawerIInv'
    BY <2>4, ActKeepsIInv DEF Press
  <2>5. CASE ToggleReplay \/ Edit \/ CancelReplay
    BY <2>5, ReplayFormKeepsIInv
  <2>6. CASE SubmitReplay
    BY <2>6, SubmitKeepsIInv
  <2>7. ASSUME NEW a \in acts, Acted(a) PROVE DrawerIInv'
    BY <2>7, ActedKeepsIInv
  <2>8. ASSUME NEW n \in timers, ToastTimer(n) PROVE DrawerIInv'
    BY <2>8 DEF ToastTimer, drawerVarsOfJob, DrawerIInv
  <2> QED
    BY <1>2, <2>1, <2>2, <2>3, <2>4, <2>5, <2>6, <2>7, <2>8 DEF DrawerNext
<1> QED
  BY <1>1, <1>2 DEF Next, Polling, vars

(***************************************************************************)
(* The drawer (JobDrawer.tsx) shows the job of its target and no other,    *)
(* and a replay carries the payload of the job it is sent to, whatever     *)
(* loads and mutations are under way and in whatever order they answer.    *)
(***************************************************************************)
THEOREM DrawerIsOfItsTarget == Spec => []DrawerActsOnWhatItShows
<1>1. Init => DrawerIInv
  <2>1. DrawerInit => DrawerIInv
    <3> SUFFICES ASSUME DrawerInit PROVE DrawerIInv
      OBVIOUS
    <3>1. /\ loads = {} /\ acts = {} /\ toast = 0 /\ opens = 0 /\ replayOpen = FALSE
          /\ current = None /\ job = None /\ state = "waiting"
      BY DEF DrawerInit
    <3>2. /\ loads \in SUBSET [target : Targets, number : Int, aborted : BOOLEAN]
          /\ opens \in Int
      BY <3>1
    <3>3. replayOpen \in BOOLEAN /\ ~(replayOpen = TRUE)
      BY <3>1
    <3>4. /\ \A l \in loads : l.aborted = FALSE => l.target = current
          /\ \A a \in acts : a.op = "replay" => a.text \in {Text(a.target), Edited(a.target)}
      BY <3>1
    <3> QED
      BY <3>1, <3>2, <3>3, <3>4, Zenon DEF DrawerIInv
  <2> QED
    BY <2>1 DEF Init
<1>2. DrawerIInv => DrawerActsOnWhatItShows
  BY DEF DrawerIInv, DrawerActsOnWhatItShows, TextsOf
<1> QED
  BY <1>1, <1>2, NextDrawerIInv, PTL DEF Spec


-----------------------------------------------------------------------------
(* UsePoll: the inductive invariant. *)

DepsType == {DepsOf(p, q, t) : p \in Polls, q \in Queues, t \in Tabs}
RequestType ==
    [deps : DepsType, answer : {"none", "ok", "partial", "failed", "aborted"},
     version : Nat, cancelled : BOOLEAN]

DatumType == [deps : DepsType, version : Nat]
PollType ==
    [name : Polls, deps : DepsType, data : {NoData} \cup DatumType, error : BOOLEAN,
     loading : BOOLEAN, requests : SUBSET RequestType]

\* Exactly the requests that were cancelled are aborted.
SoundRequest(r) == r.cancelled = TRUE <=> r.answer = "aborted"

Uncancelled(requests) == {r \in requests : r.cancelled = FALSE}

\* One request is current exactly while the poll is loading, and it is for what is
\* on the screen.
CurrentIsFor(requests, loading, deps) ==
    /\ loading = TRUE => \E r \in requests : Uncancelled(requests) = {r} /\ r.deps = deps
    /\ loading = FALSE => Uncancelled(requests) = {}

\* What a datum knows of its queue is not ahead of the server.
NotAhead(datum) == datum # NoData => datum.version <= version[Head(datum.deps)]

\* An answer that is on its way is no older than the datum it will replace.
AnswersAreNewer(requests, datum) ==
    \A r \in Uncancelled(requests) :
       r.answer # "none" =>
          /\ r.version <= version[Head(r.deps)]
          /\ (datum # NoData /\ datum.deps = r.deps) => datum.version <= r.version

\* Data of something else is being replaced, or was not to be had.
NotStale(s) == (s.data # NoData /\ s.data.deps # s.deps) => s.loading = TRUE \/ s.error = TRUE

PollTypeOK ==
    /\ version \in [Queues -> Nat] /\ queue \in Queues /\ tab \in Tabs
    /\ poll \in PollType /\ poll.deps = DepsOf(poll.name, queue, tab)
    /\ \A c \in calls : c.queue \in Queues

PollIInv ==
    /\ PollTypeOK
    /\ \A r \in poll.requests : SoundRequest(r)
    /\ CurrentIsFor(poll.requests, poll.loading, poll.deps)
    /\ NotAhead(poll.data)
    /\ AnswersAreNewer(poll.requests, poll.data)
    /\ NotStale(poll)

-----------------------------------------------------------------------------
(* UsePoll: the steps. *)

\* The dependencies of a poll, the first of which is its queue.
LEMMA DepsLemma ==
    /\ \A p \in Polls, q \in Queues, t \in Tabs : DepsOf(p, q, t) \in DepsType
    /\ \A deps \in DepsType : Head(deps) \in Queues
BY DEF DepsType, DepsOf

\* The types of a poll, and what its dependencies are.
LEMMA PollFacts ==
    ASSUME PollIInv
    PROVE  /\ version \in [Queues -> Nat] /\ queue \in Queues /\ tab \in Tabs
           /\ poll \in PollType /\ poll.deps = DepsOf(poll.name, queue, tab)
           /\ poll.name \in Polls /\ poll.deps \in DepsType
           /\ poll.data \in {NoData} \cup DatumType
           /\ poll.error \in BOOLEAN /\ poll.loading \in BOOLEAN
           /\ poll.requests \in SUBSET RequestType
BY DEF PollIInv, PollTypeOK, PollType

\* Asking for what the screen shows cancels what was asked before.
LEMMA AskedKeepsIInv ==
    ASSUME PollIInv, NEW q \in Queues, NEW t \in Tabs, queue' = q, tab' = t, version' = version,
           poll' = Asked(poll, DepsOf(poll.name, q, t)), \A c \in calls' : c.queue \in Queues
    PROVE  PollIInv'
<1> DEFINE deps == DepsOf(poll.name, q, t)
           new == Request(deps)
           all == Cancelled(poll.requests) \cup {new}
<1>1. deps \in DepsType
  BY PollFacts, DepsLemma
<1>2. /\ new \in RequestType /\ new.deps = deps /\ new.answer = "none" /\ new.cancelled = FALSE
  BY <1>1 DEF Request, RequestType
<1> HIDE DEF deps, new
<1>3. \A r \in Cancelled(poll.requests) :
         r \in RequestType /\ r.cancelled = TRUE /\ r.answer = "aborted"
  BY PollFacts DEF Cancelled, RequestType
<1>4. all \in SUBSET RequestType /\ \A r \in all : SoundRequest(r)
  BY <1>2, <1>3 DEF SoundRequest
<1>5. Uncancelled(all) = {new}
  BY <1>2, <1>3 DEF Uncancelled
<1> HIDE DEF all
<1>6. poll' = [poll EXCEPT !.deps = deps, !.loading = TRUE, !.requests = all]
  BY DEF Asked, deps, new, all
<1>7. /\ poll' \in PollType /\ poll'.name = poll.name /\ poll'.deps = deps
      /\ poll'.data = poll.data /\ poll'.loading = TRUE /\ poll'.requests = all
  BY <1>1, <1>4, <1>6, PollFacts DEF PollType
<1>8. PollTypeOK'
  BY <1>7, PollFacts DEF PollTypeOK, deps
<1>9. CurrentIsFor(poll.requests, poll.loading, poll.deps)'
  <2>1. new \in all
    BY DEF all
  <2> QED
    BY <1>2, <1>5, <1>7, <2>1 DEF CurrentIsFor, Uncancelled
<1>10. AnswersAreNewer(poll.requests, poll.data)'
  <2>1. Uncancelled(poll.requests)' = {new}
    BY <1>5, <1>7 DEF Uncancelled
  <2> QED
    BY <1>2, <2>1 DEF AnswersAreNewer
<1>11. NotAhead(poll.data)'
  BY <1>7 DEF PollIInv, NotAhead
<1> QED
  BY <1>4, <1>7, <1>8, <1>9, <1>10, <1>11 DEF PollIInv, NotStale, SoundRequest

\* A step that leaves the poll and the server alone.
LEMMA PollUnchangedLemma ==
    ASSUME PollIInv, UNCHANGED <<version, queue, tab, poll>>, \A c \in calls' : c.queue \in Queues
    PROVE  PollIInv'
<1>1. PollTypeOK'
  BY DEF PollIInv, PollTypeOK
<1> QED
  BY <1>1 DEF PollIInv, SoundRequest, CurrentIsFor, Uncancelled, NotAhead, AnswersAreNewer, NotStale

\* The server answers a request with the version of that time.
LEMMA ServedKeepsIInv ==
    ASSUME PollIInv, NEW r \in poll.requests, Served(r)
    PROVE  PollIInv'
<1>1. r.answer = "none" /\ UNCHANGED <<version, queue, tab, calls>>
  BY DEF Served
<1>2. PICK answer \in {"ok", "partial", "failed"} :
          poll' = [poll EXCEPT !.requests = (poll.requests \ {r}) \cup
                     {[r EXCEPT !.answer = answer, !.version = version[Head(r.deps)]]}]
  BY DEF Served
<1> DEFINE new == [r EXCEPT !.answer = answer, !.version = version[Head(r.deps)]]
           all == (poll.requests \ {r}) \cup {new}
<1>3. r \in RequestType /\ SoundRequest(r) /\ r.cancelled \in BOOLEAN /\ r.deps \in DepsType
  BY PollFacts DEF PollIInv, RequestType
<1>4. r.cancelled = FALSE
  BY <1>1, <1>3 DEF SoundRequest
<1>5. Head(r.deps) \in Queues /\ version[Head(r.deps)] \in Nat
  BY <1>3, DepsLemma, PollFacts
<1>6. /\ new \in RequestType /\ new.deps = r.deps /\ new.answer = answer
      /\ new.version = version[Head(r.deps)] /\ new.cancelled = FALSE
  BY <1>3, <1>4, <1>5 DEF RequestType
<1> HIDE DEF new
<1>7. all \in SUBSET RequestType /\ \A s \in all : SoundRequest(s)
  BY <1>6, PollFacts DEF PollIInv, SoundRequest
<1>8. Uncancelled(all) = (Uncancelled(poll.requests) \ {r}) \cup {new}
  BY <1>6 DEF Uncancelled
<1>9. /\ poll' \in PollType /\ poll'.name = poll.name /\ poll'.deps = poll.deps
      /\ poll'.data = poll.data /\ poll'.loading = poll.loading /\ poll'.error = poll.error
      /\ poll'.requests = all
  BY <1>2, <1>7, PollFacts DEF PollType, new
<1>10. PollTypeOK'
  BY <1>1, <1>9 DEF PollIInv, PollTypeOK
<1> HIDE DEF all
<1>11. r \in Uncancelled(poll.requests)
  BY <1>4 DEF Uncancelled
<1>12. CurrentIsFor(all, poll.loading, poll.deps)
  <2>1. poll.loading = TRUE /\ Uncancelled(poll.requests) = {r} /\ r.deps = poll.deps
    BY <1>11, PollFacts DEF PollIInv, CurrentIsFor
  <2>2. Uncancelled(all) = {new} /\ new \in all
    BY <1>8, <2>1 DEF all
  <2> QED
    BY <1>6, <2>1, <2>2 DEF CurrentIsFor
<1>13. AnswersAreNewer(all, poll.data)
  <2>1. version[Head(r.deps)] <= version[Head(r.deps)]
    BY <1>5
  <2>2. (poll.data # NoData /\ poll.data.deps = new.deps) => poll.data.version <= new.version
    BY <1>6 DEF PollIInv, NotAhead
  <2> QED
    BY <1>6, <1>8, <2>1, <2>2 DEF PollIInv, AnswersAreNewer
<1>14. CurrentIsFor(poll.requests, poll.loading, poll.deps)' /\ AnswersAreNewer(poll.requests, poll.data)'
  BY <1>1, <1>9, <1>12, <1>13 DEF CurrentIsFor, AnswersAreNewer, Uncancelled
<1>15. NotAhead(poll.data)' /\ NotStale(poll)'
  BY <1>1, <1>9 DEF PollIInv, NotAhead, NotStale
<1>16. \A s \in poll'.requests : SoundRequest(s)
  BY <1>7, <1>9
<1> QED
  BY <1>10, <1>14, <1>15, <1>16 DEF PollIInv, SoundRequest

\* What settles is the answer to the request that is current, or changes nothing
\* but the requests.
LEMMA SettlesLemma ==
    ASSUME PollIInv, NEW r \in poll.requests, Settles(r)
    PROVE  /\ UNCHANGED <<version, queue, tab, calls>>
           /\ r \in RequestType /\ SoundRequest(r)
           /\ poll' \in PollType /\ poll'.name = poll.name /\ poll'.deps = poll.deps
           /\ poll'.requests = poll.requests \ {r}
           /\ \/ /\ r.cancelled = TRUE /\ poll'.data = poll.data
                 /\ poll'.loading = poll.loading /\ poll'.error = poll.error
              \/ /\ r.cancelled = FALSE /\ r.answer \in {"ok", "partial"}
                 /\ poll'.data = [deps |-> r.deps, version |-> r.version]
                 /\ poll'.loading = FALSE /\ poll'.error = FALSE
              \/ /\ r.cancelled = FALSE /\ poll'.data = poll.data
                 /\ poll'.loading = FALSE /\ poll'.error = TRUE
<1> DEFINE datum == [deps |-> r.deps, version |-> r.version]
           rest == poll.requests \ {r}
<1>1. /\ poll' = [Settle(poll, r) EXCEPT !.requests = Settle(poll, r).requests \ {r}]
      /\ UNCHANGED <<version, queue, tab, calls>>
  BY DEF Settles
<1>2. r \in RequestType /\ SoundRequest(r) /\ r.cancelled \in BOOLEAN
  BY PollFacts DEF PollIInv, RequestType
<1>3. datum \in DatumType /\ rest \in SUBSET RequestType
  BY <1>2, PollFacts DEF RequestType, DatumType
<1> HIDE DEF datum
<1>4. CASE r.cancelled = TRUE
  <2>1. Settle(poll, r) = poll
    BY <1>4 DEF Settle
  <2>2. poll' = [poll EXCEPT !.requests = rest]
    BY <1>1, <2>1
  <2> QED
    BY <1>1, <1>2, <1>3, <1>4, <2>2, PollFacts DEF PollType
<1>5. CASE r.cancelled = FALSE /\ Resolves(poll, r)
  <2>1. Settle(poll, r) = [poll EXCEPT !.data = datum, !.error = FALSE, !.loading = FALSE]
    BY <1>5 DEF Settle, datum
  <2> DEFINE s == [poll EXCEPT !.data = datum, !.error = FALSE, !.loading = FALSE]
  <2>2. /\ s \in PollType /\ s.name = poll.name /\ s.deps = poll.deps /\ s.data = datum
        /\ s.error = FALSE /\ s.loading = FALSE /\ s.requests = poll.requests
    BY <1>3, PollFacts DEF PollType
  <2> HIDE DEF s
  <2>3. poll' = [s EXCEPT !.requests = rest]
    BY <1>1, <2>1, <2>2 DEF s
  <2>4. r.answer \in {"ok", "partial"}
    BY <1>2, <1>5 DEF Resolves, SoundRequest
  <2> QED
    BY <1>1, <1>2, <1>3, <1>5, <2>2, <2>3, <2>4 DEF PollType, datum
<1>6. CASE r.cancelled = FALSE /\ ~Resolves(poll, r)
  <2> DEFINE s == [poll EXCEPT !.error = TRUE, !.loading = FALSE]
  <2>1. Settle(poll, r) = s
    BY <1>6 DEF Settle
  <2>2. /\ s \in PollType /\ s.name = poll.name /\ s.deps = poll.deps /\ s.data = poll.data
        /\ s.error = TRUE /\ s.loading = FALSE /\ s.requests = poll.requests
    BY PollFacts DEF PollType
  <2> HIDE DEF s
  <2>3. poll' = [s EXCEPT !.requests = rest]
    BY <1>1, <2>1, <2>2
  <2> QED
    BY <1>1, <1>2, <1>3, <1>6, <2>2, <2>3 DEF PollType
<1> QED
  BY <1>2, <1>4, <1>5, <1>6

\* A response arrives: it is taken unless it was aborted.
LEMMA SettlesKeepsIInv ==
    ASSUME PollIInv, NEW r \in poll.requests, Settles(r)
    PROVE  PollIInv'
<1> DEFINE all == poll.requests \ {r}
<1>1. /\ UNCHANGED <<version, queue, tab, calls>>
      /\ poll' \in PollType /\ poll'.name = poll.name /\ poll'.deps = poll.deps
      /\ poll'.requests = all /\ r \in RequestType
  BY SettlesLemma
<1>2. PollTypeOK'
  BY <1>1 DEF PollIInv, PollTypeOK
<1>3. \A s \in all : SoundRequest(s)
  BY DEF PollIInv
<1>4. Uncancelled(all) = Uncancelled(poll.requests) \ {r}
  BY DEF Uncancelled
<1> HIDE DEF all
<1>5. CASE r.cancelled = TRUE /\ poll'.data = poll.data
           /\ poll'.loading = poll.loading /\ poll'.error = poll.error
  <2>1. Uncancelled(all) = Uncancelled(poll.requests)
    BY <1>4, <1>5 DEF Uncancelled
  <2>2. CurrentIsFor(all, poll.loading, poll.deps) /\ AnswersAreNewer(all, poll.data)
    BY <2>1 DEF PollIInv, CurrentIsFor, AnswersAreNewer, Uncancelled
  <2>3. CurrentIsFor(poll.requests, poll.loading, poll.deps)' /\ AnswersAreNewer(poll.requests, poll.data)'
    BY <1>1, <1>5, <2>2 DEF CurrentIsFor, AnswersAreNewer, Uncancelled
  <2>4. NotAhead(poll.data)' /\ NotStale(poll)'
    BY <1>1, <1>5 DEF PollIInv, NotAhead, NotStale
  <2> QED
    BY <1>1, <1>2, <1>3, <2>3, <2>4 DEF PollIInv, SoundRequest
<1>6. CASE r.cancelled = FALSE /\ poll'.loading = FALSE
           /\ \/ /\ poll'.data = [deps |-> r.deps, version |-> r.version]
                 /\ r.answer \in {"ok", "partial"}
              \/ poll'.data = poll.data /\ poll'.error = TRUE
  <2>1. r \in Uncancelled(poll.requests)
    BY <1>6 DEF Uncancelled
  <2>2. Uncancelled(poll.requests) = {r} /\ r.deps = poll.deps
    BY <2>1, PollFacts DEF PollIInv, CurrentIsFor
  <2>3. Uncancelled(all) = {}
    BY <1>4, <2>2
  <2>4. CurrentIsFor(poll.requests, poll.loading, poll.deps)' /\ AnswersAreNewer(poll.requests, poll.data)'
    <3>1. Uncancelled(poll.requests)' = {}
      BY <1>1, <2>3 DEF Uncancelled
    <3> QED
      BY <1>6, <3>1 DEF CurrentIsFor, AnswersAreNewer, Uncancelled
  <2>5. NotAhead(poll.data)'
    <3>1. CASE poll'.data = poll.data
      BY <1>1, <3>1 DEF PollIInv, NotAhead
    <3>2. CASE poll'.data = [deps |-> r.deps, version |-> r.version] /\ r.answer # "none"
      <4>1. r.version <= version[Head(r.deps)]
        BY <2>1, <3>2 DEF PollIInv, AnswersAreNewer
      <4> QED
        BY <1>1, <3>2, <4>1 DEF NotAhead
    <3> QED
      BY <1>6, <3>1, <3>2
  <2>6. NotStale(poll)'
    BY <1>1, <1>6, <2>2 DEF NotStale
  <2> QED
    BY <1>1, <1>2, <1>3, <2>4, <2>5, <2>6 DEF PollIInv, SoundRequest
<1> QED
  BY <1>5, <1>6, SettlesLemma

\* A mutation is served or fails: it may make the data shown stale, until its refetch.
LEMMA CallServedKeepsIInv ==
    ASSUME PollIInv, NEW c \in calls, CallServed(c)
    PROVE  PollIInv'
<1>1. PICK ok \in BOOLEAN :
          /\ calls' = (calls \ {c}) \cup {[c EXCEPT !.done = IF ok THEN "ok" ELSE "failed"]}
          /\ version' = IF ok THEN [version EXCEPT ![c.queue] = version[c.queue] + Changes(c)]
                              ELSE version
  BY DEF CallServed
<1>2. poll' = poll /\ queue' = queue /\ tab' = tab
  BY DEF CallServed
<1>3. c.queue \in Queues /\ \A d \in calls' : d.queue \in Queues
  <2>1. [c EXCEPT !.done = IF ok THEN "ok" ELSE "failed"].queue = c.queue
    OBVIOUS
  <2> QED
    BY <1>1, <2>1 DEF PollIInv, PollTypeOK
<1>4. Changes(c) \in {0, 1, 2}
  BY DEF Changes
<1>5. /\ version' \in [Queues -> Nat]
      /\ \A q \in Queues : version[q] <= version'[q]
  BY <1>1, <1>3, <1>4, PollFacts
<1>6. PollTypeOK'
  BY <1>2, <1>3, <1>5 DEF PollIInv, PollTypeOK
<1>7. NotAhead(poll.data)'
  <2> SUFFICES ASSUME poll.data # NoData
               PROVE  poll.data.version <= version'[Head(poll.data.deps)]
    BY <1>2 DEF NotAhead
  <2>1. /\ poll.data.version \in Nat /\ Head(poll.data.deps) \in Queues
        /\ poll.data.version <= version[Head(poll.data.deps)]
    BY PollFacts, DepsLemma DEF PollIInv, NotAhead, DatumType
  <2> DEFINE q == Head(poll.data.deps)
  <2>2. version[q] \in Nat /\ version'[q] \in Nat /\ version[q] <= version'[q]
    BY <1>5, <2>1, PollFacts
  <2> QED
    BY <2>1, <2>2
<1>8. AnswersAreNewer(poll.requests, poll.data)'
  <2> SUFFICES ASSUME NEW r \in Uncancelled(poll.requests), r.answer # "none"
               PROVE  /\ r.version <= version'[Head(r.deps)]
                      /\ (poll.data # NoData /\ poll.data.deps = r.deps) => poll.data.version <= r.version
    BY <1>2 DEF AnswersAreNewer, Uncancelled
  <2>1. /\ r.version <= version[Head(r.deps)]
        /\ (poll.data # NoData /\ poll.data.deps = r.deps) => poll.data.version <= r.version
    BY DEF PollIInv, AnswersAreNewer
  <2>2. r.version \in Nat /\ Head(r.deps) \in Queues
    BY PollFacts, DepsLemma DEF Uncancelled, RequestType
  <2> DEFINE q == Head(r.deps)
  <2>3. version[q] \in Nat /\ version'[q] \in Nat /\ version[q] <= version'[q]
    BY <1>5, <2>2, PollFacts
  <2> QED
    BY <2>1, <2>2, <2>3
<1> QED
  BY <1>2, <1>6, <1>7, <1>8 DEF PollIInv, SoundRequest, CurrentIsFor, Uncancelled, NotStale

\* A fetch replaces the one under way, which is aborted.
LEMMA RefetchKeepsIInv ==
    ASSUME PollIInv, Refetch, UNCHANGED <<version, queue, tab>>, \A c \in calls' : c.queue \in Queues
    PROVE  PollIInv'
BY PollFacts, AskedKeepsIInv DEF Refetch

\* The user turns to another queue or tab: the dependencies change.
LEMMA ShowsKeepsIInv ==
    ASSUME PollIInv, NEW q \in Queues, NEW t \in Tabs, Shows(q, t)
    PROVE  PollIInv'
<1> DEFINE deps == DepsOf(poll.name, q, t)
<1>1. /\ queue' = q /\ tab' = t /\ version' = version /\ calls' = calls
      /\ poll' = IF deps = poll.deps THEN poll ELSE Asked(poll, deps)
  BY DEF Shows
<1>2. \A c \in calls' : c.queue \in Queues
  BY <1>1 DEF PollIInv, PollTypeOK
<1>3. CASE deps = poll.deps
  <2>1. PollTypeOK'
    BY <1>1, <1>2, <1>3 DEF PollIInv, PollTypeOK
  <2>2. poll' = poll /\ version' = version
    BY <1>1, <1>3
  <2> QED
    BY <2>1, <2>2 DEF PollIInv, SoundRequest, CurrentIsFor, Uncancelled, NotAhead, AnswersAreNewer, NotStale
<1>4. CASE deps # poll.deps
  BY <1>1, <1>2, <1>4, AskedKeepsIInv
<1> QED
  BY <1>3, <1>4

\* Initially nothing has been fetched.
LEMMA InitPollIInv == PollInit => PollIInv
<1> SUFFICES ASSUME PollInit PROVE PollIInv
  OBVIOUS
<1>1. /\ version = [q \in Queues |-> 0] /\ queue \in Queues /\ tab \in Tabs /\ calls = {}
  BY DEF PollInit
<1>2. PICK p \in Polls : poll = Mounted(p, DepsOf(p, queue, tab))
  BY DEF PollInit
<1> DEFINE deps == DepsOf(p, queue, tab)
           first == Request(deps)
<1>3. deps \in DepsType
  BY <1>1, DepsLemma
<1>4. first \in RequestType /\ first.deps = deps /\ first.answer = "none" /\ first.cancelled = FALSE
  BY <1>3 DEF Request, RequestType
<1>5. poll = [name |-> p, deps |-> deps, data |-> NoData, error |-> FALSE, loading |-> TRUE,
              requests |-> {first}]
  BY <1>2 DEF Mounted
<1> HIDE DEF deps, first
<1>6. /\ poll \in PollType /\ poll.name = p /\ poll.deps = deps /\ poll.data = NoData
      /\ poll.loading = TRUE /\ poll.requests = {first}
  BY <1>3, <1>4, <1>5 DEF PollType
<1>7. PollTypeOK
  BY <1>1, <1>6 DEF PollTypeOK, deps
<1>8. Uncancelled(poll.requests) = {first}
  BY <1>4, <1>6 DEF Uncancelled
<1>9. CurrentIsFor(poll.requests, poll.loading, poll.deps) /\ AnswersAreNewer(poll.requests, poll.data)
  BY <1>4, <1>6, <1>8 DEF CurrentIsFor, AnswersAreNewer
<1> QED
  BY <1>4, <1>6, <1>7, <1>9 DEF PollIInv, SoundRequest, NotAhead, NotStale

\* Every step of the console keeps the invariant of its polls.
LEMMA NextPollIInv == PollIInv /\ [Next]_vars => PollIInv'
<1> SUFFICES ASSUME PollIInv, [Next]_vars PROVE PollIInv'
  OBVIOUS
<1>0. \A c \in calls : c.queue \in Queues
  BY DEF PollIInv, PollTypeOK
<1>1. CASE UNCHANGED pollVars
  BY <1>0, <1>1, PollUnchangedLemma DEF pollVars
<1>2. CASE PollNext
  <2>1. CASE Tick
    BY <1>0, <2>1, RefetchKeepsIInv DEF Tick
  <2>2. ASSUME NEW r \in poll.requests, Served(r) PROVE PollIInv'
    BY <2>2, ServedKeepsIInv
  <2>3. ASSUME NEW r \in poll.requests, Settles(r) PROVE PollIInv'
    BY <2>3, SettlesKeepsIInv
  <2>4. CASE toggleLive
    BY <1>0, <2>4, PollUnchangedLemma DEF toggleLive
  <2>5. ASSUME NEW q \in Queues, Navigate(q) PROVE PollIInv'
    BY <2>5, ShowsKeepsIInv, PollFacts DEF Navigate
  <2>6. ASSUME NEW t \in Tabs, setTab(t) PROVE PollIInv'
    BY <2>6, ShowsKeepsIInv, PollFacts DEF setTab
  <2>7. CASE TogglePause \/ RetryRow
    <3>1. PICK op : Call(op)
      BY <2>7 DEF TogglePause, RetryRow
    <3>2. \A c \in calls' : c.queue \in Queues
      BY <1>0, <3>1, PollFacts DEF Call
    <3> QED
      BY <3>1, <3>2, PollUnchangedLemma DEF Call
  <2>8. ASSUME NEW c \in calls, CallServed(c) PROVE PollIInv'
    BY <2>8, CallServedKeepsIInv
  <2>9. ASSUME NEW c \in calls, CallReturns(c) PROVE PollIInv'
    <3>1. \A d \in calls' : d.queue \in Queues
      BY <1>0, <2>9 DEF CallReturns
    <3>2. UNCHANGED <<version, queue, tab>> /\ (poll' = poll \/ Refetch)
      BY <2>9 DEF CallReturns
    <3> QED
      BY <3>1, <3>2, PollUnchangedLemma, RefetchKeepsIInv
  <2> QED
    BY <1>2, <2>1, <2>2, <2>3, <2>4, <2>5, <2>6, <2>7, <2>8, <2>9 DEF PollNext
<1> QED
  BY <1>1, <1>2 DEF Next, Polling, vars

\* The invariant of the polls holds throughout.
LEMMA SpecPollIInv == Spec => []PollIInv
<1>1. Init => PollIInv
  BY InitPollIInv DEF Init
<1> QED
  BY <1>1, NextPollIInv, PTL DEF Spec

(***************************************************************************)
(* A poll (usePoll.ts) that shows data of something else than the screen   *)
(* awaits the right data, or has recorded that they were not to be had;    *)
(* and it awaits one answer while its spinner turns, and none otherwise,   *)
(* however slow the answers are.                                           *)
(***************************************************************************)
THEOREM StaleUntilAnAnswer == Spec => []StaleOnlyUntilAnAnswer
<1>1. PollIInv => StaleOnlyUntilAnAnswer
  <2> SUFFICES ASSUME PollIInv PROVE StaleOnlyUntilAnAnswer
    OBVIOUS
  <2>1. Current = Uncancelled(poll.requests)
    BY PollFacts DEF Current, Uncancelled, RequestType
  <2>2. CASE poll.loading = TRUE
    <3>1. PICK r : Current = {r} /\ r.deps = poll.deps
      BY <2>1, <2>2 DEF PollIInv, CurrentIsFor
    <3>2. Cardinality(Current) = 1
      BY <3>1, FS_Singleton
    <3> QED
      BY <2>2, <3>1, <3>2, PollFacts DEF StaleOnlyUntilAnAnswer
  <2>3. CASE poll.loading = FALSE
    <3>1. Current = {} /\ Cardinality(Current) = 0
      BY <2>1, <2>3, FS_EmptySet DEF PollIInv, CurrentIsFor
    <3>2. (poll.data # NoData /\ poll.data.deps # poll.deps) => poll.error
      BY <2>3, PollFacts DEF PollIInv, NotStale
    <3> QED
      BY <2>3, <3>1, <3>2, PollFacts DEF StaleOnlyUntilAnAnswer
  <2> QED
    BY <2>2, <2>3, PollFacts
<1> QED
  BY <1>1, SpecPollIInv, PTL

(***************************************************************************)
(* What a poll shows never goes back in time: late answers, refetches and  *)
(* aborts bring only data of what is on the screen, and no older ones of   *)
(* the same queue than are there.                                          *)
(***************************************************************************)
THEOREM DataNeverGoesBack == Spec => NeverGoesBack
<1> DEFINE Forward ==
        poll'.data # poll.data =>
           /\ poll'.data.deps = poll.deps
           /\ (poll.data # NoData /\ poll.data.deps = poll'.data.deps) =>
                 poll'.data.version >= poll.data.version
<1>1. PollIInv /\ [Next]_vars => [Forward]_pollVars
  <2> SUFFICES ASSUME PollIInv, [Next]_vars PROVE [Forward]_pollVars
    OBVIOUS
  <2>1. CASE UNCHANGED pollVars
    BY <2>1
  <2>2. ASSUME NEW r \in poll.requests, Settles(r) PROVE Forward
    <3> SUFFICES ASSUME poll'.data # poll.data
                 PROVE  /\ poll'.data.deps = poll.deps
                        /\ (poll.data # NoData /\ poll.data.deps = poll'.data.deps) =>
                              poll'.data.version >= poll.data.version
      OBVIOUS
    <3>1. /\ r.cancelled = FALSE /\ r.answer \in {"ok", "partial"} /\ r \in RequestType
          /\ poll'.data = [deps |-> r.deps, version |-> r.version]
      BY <2>2, SettlesLemma
    <3>2. r \in Uncancelled(poll.requests)
      BY <3>1 DEF Uncancelled
    <3>3. r.deps = poll.deps
      BY <3>2, PollFacts DEF PollIInv, CurrentIsFor
    <3>4. (poll.data # NoData /\ poll.data.deps = r.deps) => poll.data.version <= r.version
      BY <3>1, <3>2 DEF PollIInv, AnswersAreNewer
    <3>5. poll'.data.deps = r.deps /\ poll'.data.version = r.version
      BY <3>1
    <3>6. poll.data # NoData => poll.data.version \in Nat
      BY PollFacts DEF DatumType
    <3>7. r.version \in Nat
      BY <3>1 DEF RequestType
    <3> QED
      BY <3>3, <3>4, <3>5, <3>6, <3>7
  <2>3. ASSUME NEW deps, poll' = Asked(poll, deps) PROVE poll'.data = poll.data
    BY <2>3, PollFacts DEF Asked, PollType
  <2>4. CASE PollNext
    <3>1. \/ \E r \in poll.requests : Settles(r)
          \/ \E r \in poll.requests : Served(r)
          \/ \E deps : poll' = Asked(poll, deps)
          \/ poll' = poll
      BY <2>4 DEF PollNext, Tick, Refetch, toggleLive, Navigate, setTab, Shows, TogglePause, RetryRow,
                  Call, CallServed, CallReturns
    <3>2. ASSUME NEW r \in poll.requests, Served(r) PROVE poll'.data = poll.data
      <4>1. \E rs : poll' = [poll EXCEPT !.requests = rs]
        BY <3>2 DEF Served
      <4> QED
        BY <4>1, PollFacts DEF PollType
    <3> QED
      BY <2>2, <2>3, <3>1, <3>2
  <2> QED
    BY <2>1, <2>4 DEF Next, Polling, vars
<1>2. Spec => [][Forward]_pollVars
  BY <1>1, SpecPollIInv, PTL DEF Spec
<1> QED
  BY <1>2 DEF NeverGoesBack

-----------------------------------------------------------------------------
(* SearchForms. *)

\* A form has no run with a limit beyond the largest, and the limit of the search
\* is that of the result it shows.
FormIInv ==
    /\ form \in {"search", "flow"} /\ limit \in Nat /\ limit <= LargestLimit
    /\ list \in SUBSET FormQueues
    /\ \A r \in runs : r.limit \in Nat /\ r.limit <= LargestLimit
    /\ (form = "search" /\ result # NoResult) => limit = result.limit
    /\ busy = TRUE => runs # {}
    /\ busy \in BOOLEAN
    /\ (form = "search" /\ list # {}) => from # NoQueue

\* The least of some numbers is one of them.
LEMMA LeastLemma ==
    ASSUME NEW S \in SUBSET Nat, S # {}
    PROVE  Min(S) \in S /\ \A n \in S : Min(S) <= n
<1>1. PICK least \in S : \A n \in S : least <= n
  BY LeastNatural
<1> QED
  BY <1>1 DEF Min

\* A list that is not empty has a first queue.
LEMMA FirstLemma ==
    ASSUME NEW l \in SUBSET FormQueues, l # {}
    PROVE  First(l) # NoQueue
<1>1. Min(l) \in FormQueues
  BY FormAssumption, LeastLemma
<1> QED
  BY <1>1, FormAssumption DEF First

\* A search runs, and is from then on the one whose answer counts.
LEMMA RunKeepsIInv ==
    ASSUME FormIInv, NEW l \in Nat, l <= LargestLimit, Run(l)
    PROVE  FormIInv'
<1> DEFINE r == [queue |-> from, limit |-> l, number |-> ran']
<1>1. /\ UNCHANGED <<form, list, from, text, limit>>
      /\ busy' = TRUE /\ runs' = runs \cup {r}
      /\ result' = IF form = "flow" THEN NoResult ELSE result
  BY DEF Run
<1>2. r.limit = l
  OBVIOUS
<1> HIDE DEF r
<1>3. \A s \in runs' : s.limit \in Nat /\ s.limit <= LargestLimit
  BY <1>1, <1>2 DEF FormIInv
<1> QED
  BY <1>1, <1>3 DEF FormIInv

\* A search is answered, in whichever order.
LEMMA AnsweredKeepsIInv ==
    ASSUME FormIInv, NEW r \in runs, Answered(r)
    PROVE  FormIInv'
<1>1. /\ runs' = runs \ {r} /\ UNCHANGED <<form, list, from>> /\ busy' = FALSE
  BY DEF Answered, Succeeds, Fails
<1>2. r.limit \in Nat /\ r.limit <= LargestLimit
  BY DEF FormIInv
<1>3. CASE Succeeds(r)
  <2>1. /\ \E truncated \in BOOLEAN :
              result' = [queue |-> r.queue, limit |-> r.limit, truncated |-> truncated]
        /\ limit' = IF form = "search" THEN r.limit ELSE limit
    BY <1>3 DEF Succeeds
  <2>2. result'.limit = r.limit
    BY <2>1
  <2> QED
    BY <1>1, <1>2, <2>1, <2>2 DEF FormIInv
<1>4. CASE Fails
  BY <1>1, <1>4 DEF Fails, FormIInv
<1> QED
  BY <1>3, <1>4 DEF Answered

\* Every step of the console keeps the invariant of the search forms.
LEMMA NextFormIInv == FormIInv /\ [Next]_vars => FormIInv'
<1> SUFFICES ASSUME FormIInv, [Next]_vars PROVE FormIInv'
  OBVIOUS
<1>1. CASE UNCHANGED formVars
  BY <1>1 DEF formVars, FormIInv
<1>2. CASE FormNext
  <2>1. ASSUME NEW l \in SUBSET FormQueues, Listed(l) PROVE FormIInv'
    <3>1. list' = l /\ from' = Defaulted(l) /\ UNCHANGED <<form, limit, result, busy, runs>>
      BY <2>1 DEF Listed
    <3>2. (form = "search" /\ l # {}) => from' # NoQueue
      BY <3>1, FirstLemma DEF Defaulted
    <3> QED
      BY <3>1, <3>2 DEF FormIInv
  <2>2. ASSUME NEW q \in FormQueues, setQueue(q) PROVE FormIInv'
    BY <2>2, FormAssumption DEF setQueue, FormIInv
  <2>3. ASSUME NEW x \in Texts, setText(x) PROVE FormIInv'
    BY <2>3 DEF setText, FormIInv
  <2>4. CASE Submit
    <3>1. DefaultLimit \in Nat /\ DefaultLimit <= LargestLimit
      BY DEF DefaultLimit, LargestLimit
    <3> QED
      BY <2>4, <3>1, RunKeepsIInv DEF Submit
  <2>5. CASE ScanMore
    <3> DEFINE choices == {LargestLimit, 2 * limit}
    <3>1. choices \in SUBSET Nat /\ LargestLimit \in choices
      BY DEF FormIInv, LargestLimit
    <3> HIDE DEF choices
    <3>2. Min(choices) \in Nat /\ Min(choices) <= LargestLimit
      BY <3>1, LeastLemma
    <3>3. Run(Min(choices))
      BY <2>5 DEF ScanMore, choices
    <3> QED
      BY <3>2, <3>3, RunKeepsIInv
  <2>6. ASSUME NEW r \in runs, Answered(r) PROVE FormIInv'
    BY <2>6, AnsweredKeepsIInv
  <2> QED
    BY <1>2, <2>1, <2>2, <2>3, <2>4, <2>5, <2>6 DEF FormNext
<1> QED
  BY <1>1, <1>2 DEF Next, Polling, vars

\* No search has run initially.
LEMMA InitFormIInv == FormInit => FormIInv
<1> SUFFICES ASSUME FormInit PROVE FormIInv
  OBVIOUS
<1>1. /\ form \in {"search", "flow"} /\ list \in SUBSET FormQueues /\ from = First(list)
      /\ limit = DefaultLimit /\ result = NoResult /\ busy = FALSE /\ runs = {}
  BY DEF FormInit
<1>2. list # {} => from # NoQueue
  BY <1>1, FirstLemma
<1>3. limit \in Nat /\ limit <= LargestLimit
  BY <1>1 DEF DefaultLimit, LargestLimit
<1> QED
  BY <1>1, <1>2, <1>3 DEF FormIInv

(***************************************************************************)
(* Whatever the order in which overlapping runs answer, "scan more"        *)
(* (Search.tsx) starts from the limit of the result that is shown, no      *)
(* button stays disabled for a run that has ended, and the search has a    *)
(* queue when there are any.                                               *)
(***************************************************************************)
THEOREM FormsFollowTheirRuns == Spec => []FormFollowsItsRuns
<1>1. Init => FormIInv
  BY InitFormIInv DEF Init
<1>2. FormIInv => FormFollowsItsRuns
  BY DEF FormIInv, FormFollowsItsRuns
<1> QED
  BY <1>1, <1>2, NextFormIInv, PTL DEF Spec

-----------------------------------------------------------------------------
(* CommandPalette. *)

\* The list that is shown has a length, and the position lies in it, or before it.
PaletteIInv ==
    /\ sel \in Int /\ queues \in Seq(STRING)
    /\ SelectionInList

\* What a query leaves of the commands is a list.
LEMMA LengthLemma ==
    ASSUME NEW q, NEW qs \in Seq(STRING)
    PROVE  Len(filtered(q, qs)) \in Nat
<1>0. Screens \in Seq(STRING)
  BY PaletteAssumption
<1> DEFINE all == Screens \o qs
           left == Matches[q]
<1>1. all \in Seq(STRING)
  BY <1>0
<1>2. filtered(q, qs) = IF q = "" THEN all ELSE SelectSeq(all, LAMBDA c : c \in left)
  BY DEF filtered
<1> HIDE DEF all, left
<1>3. Len(all) \in Nat
  BY <1>1
<1>4. Len(SelectSeq(all, LAMBDA c : c \in left)) \in Nat
  BY <1>1
<1> QED
  BY <1>2, <1>3, <1>4

\* A step that leaves the list and selects a position of it.
LEMMA SelectKeepsIInv ==
    ASSUME PaletteIInv, NEW p \in Int, Select(p), p >= -1, p < AtLeast(1, Shown)
    PROVE  PaletteIInv'
<1>1. query' = query /\ queues' = queues /\ sel' = p
  BY DEF Select
<1>2. Shown' = Shown
  BY <1>1 DEF Shown
<1> QED
  BY <1>1, <1>2 DEF PaletteIInv, SelectionInList, AtLeast

\* A query or a poll changes the list, and the effect brings the position into it.
LEMMA ListsKeepsIInv ==
    ASSUME PaletteIInv, NEW x, NEW qs \in Seq(STRING), Lists(x, qs)
    PROVE  PaletteIInv'
<1> DEFINE n == Len(filtered(x, qs))
           old == Shown
<1>1. n \in Nat
  BY LengthLemma
<1>2. old \in Nat
  BY LengthLemma DEF Shown, PaletteIInv
<1>3. queues' = qs /\ Shown' = n /\ sel' = IF n = old THEN sel ELSE AtMost(sel, AtLeast(0, n - 1))
  BY DEF Lists, Shown, Clamped
<1>4. sel \in Int /\ sel >= -1 /\ sel < AtLeast(1, old)
  BY DEF PaletteIInv, SelectionInList
<1> HIDE DEF n, old
<1>5. sel' \in Int /\ sel' >= -1 /\ sel' < AtLeast(1, n)
  BY <1>1, <1>2, <1>3, <1>4 DEF AtMost, AtLeast
<1> QED
  BY <1>3, <1>5 DEF PaletteIInv, SelectionInList

\* The first position is in every list, or the one before it.
LEMMA FirstPosition ==
    ASSUME queues \in Seq(STRING), sel = 0
    PROVE  PaletteIInv
<1>1. Shown \in Nat
  BY LengthLemma DEF Shown
<1>2. \A n \in Nat : 0 < AtLeast(1, n)
  BY DEF AtLeast
<1>3. sel < AtLeast(1, Shown)
  BY <1>1, <1>2
<1>4. sel \in Int /\ sel >= -1
  OBVIOUS
<1> QED
  BY <1>3, <1>4 DEF PaletteIInv, SelectionInList

\* Every step of the console keeps the invariant of the command palette.
LEMMA NextPaletteIInv == PaletteIInv /\ [Next]_vars => PaletteIInv'
<1> SUFFICES ASSUME PaletteIInv, [Next]_vars PROVE PaletteIInv'
  OBVIOUS
<1>1. CASE UNCHANGED paletteVars
  <2>1. query' = query /\ queues' = queues /\ sel' = sel
    BY <1>1 DEF paletteVars
  <2> QED
    BY <2>1 DEF PaletteIInv, SelectionInList, Shown
<1>2. CASE PaletteNext
  <2>0. Shown \in Nat /\ sel \in Int /\ sel >= -1 /\ sel < AtLeast(1, Shown)
        /\ queues \in Seq(STRING)
    BY LengthLemma DEF Shown, PaletteIInv, SelectionInList
  <2>1. ASSUME NEW qs \in PaletteQueues, Polled(qs) PROVE PaletteIInv'
    <3>1. qs \in Seq(STRING)
      BY PaletteAssumption
    <3> QED
      BY <2>1, <3>1, ListsKeepsIInv DEF Polled
  <2>2. ASSUME NEW x \in DOMAIN Matches, setQuery(x) PROVE PaletteIInv'
    BY <2>0, <2>2, ListsKeepsIInv DEF setQuery
  <2>3. CASE openPalette
    <3>1. query' = "" /\ queues' = queues /\ sel' = 0
      BY <2>3 DEF openPalette
    <3>2. Shown' \in Nat
      BY <2>0, <3>1, LengthLemma DEF Shown
    <3>3. \A n \in Nat : 0 < AtLeast(1, n)
      BY DEF AtLeast
    <3>4. sel' < AtLeast(1, Shown')
      BY <3>1, <3>2, <3>3
    <3>5. sel' \in Int /\ sel' >= -1
      <4>1. sel' = 0
        BY <3>1
      <4>2. 0 \in Int /\ 0 >= -1
        OBVIOUS
      <4> QED
        BY <4>1, <4>2
    <3>6. queues' \in Seq(STRING)
      BY <2>0, <3>1, Zenon
    <3> QED
      BY <3>4, <3>5, <3>6 DEF PaletteIInv, SelectionInList
  <2>4. CASE onClose \/ choose \/ parseHash
    <3>1. query' = query /\ queues' = queues /\ sel' = sel
      BY <2>4 DEF onClose, choose, parseHash
    <3> QED
      BY <3>1 DEF PaletteIInv, SelectionInList, Shown
  <2>5. CASE ArrowDown
    <3> DEFINE p == AtMost(Shown - 1, sel + 1)
    <3>1. Select(p)
      BY <2>5 DEF ArrowDown
    <3>2. p \in Int /\ p >= -1 /\ p < AtLeast(1, Shown)
      BY <2>0 DEF AtMost, AtLeast
    <3> HIDE DEF p
    <3> QED
      BY <3>1, <3>2, SelectKeepsIInv
  <2>6. CASE ArrowUp
    <3> DEFINE p == AtLeast(0, sel - 1)
    <3>1. Select(p)
      BY <2>6 DEF ArrowUp
    <3>2. p \in Int /\ p >= -1 /\ p < AtLeast(1, Shown)
      BY <2>0 DEF AtLeast
    <3> HIDE DEF p
    <3> QED
      BY <3>1, <3>2, SelectKeepsIInv
  <2>7. ASSUME NEW i \in 0..(Shown - 1), Select(i) PROVE PaletteIInv'
    <3>1. i \in Int /\ i >= -1 /\ i < AtLeast(1, Shown)
      BY <2>0 DEF AtLeast
    <3> QED
      BY <2>7, <3>1, SelectKeepsIInv
  <2> QED
    BY <1>2, <2>1, <2>2, <2>3, <2>4, <2>5, <2>6, <2>7 DEF PaletteNext, Hover
<1> QED
  BY <1>1, <1>2 DEF Next, Polling, vars

(***************************************************************************)
(* However queries, arrows, the pointer and polls that add or take queues  *)
(* follow one another, the position the palette (CommandPalette.tsx) has   *)
(* selected never lies past the end of the list that it shows.             *)
(***************************************************************************)
THEOREM SelectionStaysInList == Spec => []SelectionInList
<1>1. Init => PaletteIInv
  <2> SUFFICES ASSUME Init PROVE PaletteIInv
    OBVIOUS
  <2>1. query = "" /\ queues = <<>> /\ sel = 0
    BY DEF Init, PaletteInit
  <2>2. queues \in Seq(STRING)
    <3>1. \A S : <<>> \in Seq(S)
      OBVIOUS
    <3> QED
      BY <2>1, <3>1, Zenon
  <2> QED
    BY <2>1, <2>2, FirstPosition
<1>2. PaletteIInv => SelectionInList
  BY DEF PaletteIInv
<1> QED
  BY <1>1, <1>2, NextPaletteIInv, PTL DEF Spec

-----------------------------------------------------------------------------
(* DemoBackend. *)

DemoJobs == [id : Ids, processedOn : BOOLEAN, finishedOn : BOOLEAN, errorSignature : Sigs \cup {NoSig}]
MarkOf(s) == IF s \in {"active", "completed", "failed"} THEN s ELSE "waiting"
IdsIn(pools) == {j.id : j \in AllOf(pools)}
SumOf(cs) == SumFunctionOnSet(cs, JobStates)

\* A job is in one pool, once, that its fields tell; no count is below its pool.
SoundPools(pools, cs) ==
    /\ pools \in [JobStates -> Seq(DemoJobs)] /\ cs \in [JobStates -> Nat]
    /\ \A s \in JobStates : IsInjective(pools[s]) /\ Len(pools[s]) <= cs[s]
    /\ \A s, t \in JobStates : \A j \in ToSet(pools[s]) : \A k \in ToSet(pools[t]) :
          j.id = k.id => s = t /\ j = k
    /\ \A s \in JobStates : \A j \in ToSet(pools[s]) : deriveState(j) = MarkOf(s)

\* The states are six.
LEMMA JobStatesAre ==
    JobStates = {"waiting", "active", "completed", "failed", "delayed", "prioritized"}
<1>1. DOMAIN STATES = {1, 2, 3, 4, 5, 6}
  BY DEF STATES
<1>2. JobStates = {STATES[1], STATES[2], STATES[3], STATES[4], STATES[5], STATES[6]}
  BY <1>1 DEF JobStates, ToSet
<1> QED
  BY <1>2 DEF STATES

\* When one count changes, the sum of the counts changes by as much.
LEMMA SumOfIs ==
    ASSUME NEW cs, NEW ncs, NEW z \in JobStates,
           \A s \in JobStates : cs[s] \in Int /\ ncs[s] \in Int,
           \A s \in JobStates \ {z} : ncs[s] = cs[s]
    PROVE  SumOf(cs) \in Int /\ SumOf(ncs) = SumOf(cs) + (ncs[z] - cs[z])
<1>1. IsFiniteSet(JobStates)
  <2>1. DOMAIN STATES = 1..6
    BY DEF STATES
  <2>2. IsFiniteSet(DOMAIN STATES)
    BY <2>1, CountTo
  <2>3. STATES \in Surjection(DOMAIN STATES, JobStates)
    <3>1. JobStates = {STATES[i] : i \in DOMAIN STATES}
      BY DEF JobStates, ToSet
    <3>2. STATES = [i \in DOMAIN STATES |-> STATES[i]]
      BY DEF STATES
    <3> QED
      BY <3>1, <3>2 DEF Surjection
  <2> QED
    BY <2>2, <2>3, FS_Surjection
<1> QED
  BY <1>1, SumChanges DEF SumOf

\* What splice leaves of a pool.
LEMMA WithoutIs ==
    ASSUME NEW pool \in Seq(DemoJobs), IsInjective(pool), NEW id,
           \A j, k \in ToSet(pool) : j.id = k.id => j = k
    PROVE  /\ Without(pool, id) \in Seq(DemoJobs) /\ IsInjective(Without(pool, id))
           /\ ToSet(Without(pool, id)) = {j \in ToSet(pool) : j.id # id}
           /\ (\E j \in ToSet(pool) : j.id = id) => Len(Without(pool, id)) = Len(pool) - 1
<1> DEFINE stay == {i \in DOMAIN pool : pool[i].id # id}
           rest == Without(pool, id)
<1>1. rest = Only(pool, stay) /\ stay \in SUBSET DOMAIN pool
  BY DEF Without
<1>2. /\ rest \in Seq(DemoJobs) /\ Len(rest) = Cardinality(stay) /\ IsInjective(rest)
      /\ ToSet(rest) = {pool[i] : i \in stay}
  <2> HIDE DEF stay, rest
  <2> QED
    BY <1>1, KeptIs
<1>3. {pool[i] : i \in stay} = {j \in ToSet(pool) : j.id # id}
  BY DEF ToSet
<1>4. ASSUME NEW j \in ToSet(pool), j.id = id PROVE Len(rest) = Len(pool) - 1
  <2>1. PICK i \in DOMAIN pool : pool[i] = j
    BY DEF ToSet
  <2>2. DOMAIN pool = 1..Len(pool) /\ Len(pool) \in Nat
    OBVIOUS
  <2>3. stay = DOMAIN pool \ {i}
    <3> SUFFICES ASSUME NEW k \in DOMAIN pool, pool[k].id = id PROVE k = i
      BY <1>4, <2>1
    <3>1. pool[k] = pool[i]
      BY <1>4, <2>1 DEF ToSet
    <3> QED
      BY <3>1 DEF IsInjective
  <2>4. IsFiniteSet(DOMAIN pool) /\ Cardinality(DOMAIN pool) = Len(pool)
    BY <2>2, CountTo
  <2>5. Cardinality(DOMAIN pool \ {i}) = Cardinality(DOMAIN pool) - 1
    BY <2>1, <2>4, FS_RemoveElement
  <2> HIDE DEF stay, rest
  <2> QED
    BY <1>2, <2>3, <2>4, <2>5
<1> QED
  BY <1>2, <1>3, <1>4

\* A job is taken out of its pool, and its count is one less.
LEMMA RemoveKeeps ==
    ASSUME NEW q, NEW id, SoundPools(samples[q], counts[q])
    PROVE  /\ SoundPools(PoolsWithout(q, id), CountsWithout(q, id))
           /\ AllOf(PoolsWithout(q, id)) = {j \in AllOf(samples[q]) : j.id # id}
           /\ SumOf(counts[q]) \in Int
           /\ SumOf(CountsWithout(q, id))
                = SumOf(counts[q]) - (IF id \in IdsIn(samples[q]) THEN 1 ELSE 0)
<1> DEFINE pools == samples[q]
           cs == counts[q]
           new == PoolsWithout(q, id)
           ncs == CountsWithout(q, id)
           those == PoolOf(q, id)
<1>1. /\ pools \in [JobStates -> Seq(DemoJobs)] /\ cs \in [JobStates -> Nat]
      /\ \A s \in JobStates : IsInjective(pools[s]) /\ Len(pools[s]) <= cs[s]
      /\ \A s, t \in JobStates : \A j \in ToSet(pools[s]) : \A k \in ToSet(pools[t]) :
            j.id = k.id => s = t /\ j = k
      /\ \A s \in JobStates : \A j \in ToSet(pools[s]) : deriveState(j) = MarkOf(s)
  BY DEF SoundPools
<1>2. those = {s \in JobStates : \E j \in ToSet(pools[s]) : j.id = id}
  BY DEF PoolOf
<1>3. /\ new = [s \in JobStates |-> IF s \in those THEN Without(pools[s], id) ELSE pools[s]]
      /\ ncs = [s \in JobStates |-> IF s \in those THEN Max({0, cs[s] - 1}) ELSE cs[s]]
  BY DEF PoolsWithout, CountsWithout
<1> HIDE DEF pools, cs, new, ncs, those
<1>4. ASSUME NEW s \in JobStates
      PROVE  /\ new[s] \in Seq(DemoJobs) /\ IsInjective(new[s])
             /\ ToSet(new[s]) = {j \in ToSet(pools[s]) : j.id # id}
             /\ ncs[s] = IF s \in those THEN cs[s] - 1 ELSE cs[s]
             /\ ncs[s] \in Nat /\ Len(new[s]) <= ncs[s]
  <2>1. CASE s \in those
    <3>1. PICK j \in ToSet(pools[s]) : j.id = id
      BY <1>2, <2>1
    <3>2. new[s] = Without(pools[s], id)
      BY <1>3, <2>1
    <3>3. /\ new[s] \in Seq(DemoJobs) /\ IsInjective(new[s])
          /\ ToSet(new[s]) = {k \in ToSet(pools[s]) : k.id # id}
          /\ Len(new[s]) = Len(pools[s]) - 1
      BY <1>1, <3>1, <3>2, WithoutIs
    <3>4. Len(new[s]) \in Nat /\ cs[s] \in Nat /\ Len(pools[s]) <= cs[s] /\ Len(pools[s]) \in Nat
      BY <1>1, <3>3
    <3>5. cs[s] - 1 \in Nat /\ Len(new[s]) <= cs[s] - 1
      BY <3>3, <3>4
    <3>6. Max({0, cs[s] - 1}) = cs[s] - 1
      <4> DEFINE c == cs[s] - 1
      <4>1. c \in Nat
        BY <3>5
      <4> HIDE DEF c
      <4>2. Max({0, c}) = c
        BY <4>1 DEF Max
      <4> QED
        BY <4>2 DEF c
    <3>7. ncs[s] = cs[s] - 1
      BY <1>3, <2>1, <3>6
    <3> QED
      BY <2>1, <3>3, <3>5, <3>7
  <2>2. CASE s \notin those
    <3>1. new[s] = pools[s] /\ ncs[s] = cs[s]
      BY <1>3, <2>2
    <3>2. \A j \in ToSet(pools[s]) : j.id # id
      BY <1>2, <2>2
    <3> QED
      BY <1>1, <2>2, <3>1, <3>2
  <2> QED
    BY <2>1, <2>2
<1>5. SoundPools(new, ncs)
  <2>1. new \in [JobStates -> Seq(DemoJobs)] /\ ncs \in [JobStates -> Nat]
    BY <1>3, <1>4
  <2>2. \A s, t \in JobStates : \A j \in ToSet(new[s]) : \A k \in ToSet(new[t]) :
           j.id = k.id => s = t /\ j = k
    <3> SUFFICES ASSUME NEW s \in JobStates, NEW t \in JobStates, NEW j \in ToSet(new[s]),
                        NEW k \in ToSet(new[t]), j.id = k.id
                 PROVE  s = t /\ j = k
      OBVIOUS
    <3>1. j \in ToSet(pools[s]) /\ k \in ToSet(pools[t])
      BY <1>4
    <3> QED
      BY <1>1, <3>1
  <2>3. \A s \in JobStates : \A j \in ToSet(new[s]) : deriveState(j) = MarkOf(s)
    BY <1>1, <1>4
  <2> QED
    BY <1>4, <2>1, <2>2, <2>3 DEF SoundPools
<1>6. AllOf(new) = {j \in AllOf(pools) : j.id # id}
  BY <1>4 DEF AllOf
<1>7. SumOf(cs) \in Int /\ SumOf(ncs) = SumOf(cs) - (IF id \in IdsIn(pools) THEN 1 ELSE 0)
  <2>1. \A s \in JobStates : cs[s] \in Int /\ ncs[s] \in Int
    BY <1>1, <1>4
  <2>2. CASE those = {}
    <3>1. "failed" \in JobStates /\ ncs["failed"] - cs["failed"] = 0
      BY <1>1, <1>4, <2>2, JobStatesAre
    <3>2. SumOf(cs) \in Int /\ SumOf(ncs) = SumOf(cs) + (ncs["failed"] - cs["failed"])
      <4>1. \A s \in JobStates \ {"failed"} : ncs[s] = cs[s]
        BY <1>4, <2>2
      <4> QED
        BY <2>1, <3>1, <4>1, SumOfIs
    <3>3. id \notin IdsIn(pools)
      BY <1>2, <2>2 DEF IdsIn, AllOf
    <3> QED
      BY <3>1, <3>2, <3>3
  <2>3. CASE those # {}
    <3>1. PICK z \in JobStates : z \in those
      BY <1>2, <2>3
    <3>2. \A s \in JobStates \ {z} : s \notin those
      BY <1>1, <1>2, <3>1
    <3>3. ncs[z] - cs[z] = -1
      BY <1>1, <1>4, <3>1
    <3>4. SumOf(cs) \in Int /\ SumOf(ncs) = SumOf(cs) + (ncs[z] - cs[z])
      <4>1. \A s \in JobStates \ {z} : ncs[s] = cs[s]
        BY <1>4, <3>2
      <4> QED
        BY <2>1, <4>1, SumOfIs
    <3>5. id \in IdsIn(pools)
      BY <1>2, <3>1 DEF IdsIn, AllOf
    <3> QED
      BY <3>3, <3>4, <3>5
  <2> QED
    BY <2>2, <2>3
<1> QED
  BY <1>5, <1>6, <1>7 DEF pools, cs, new, ncs

\* A job that is in no pool becomes the first that waits.
LEMMA AddKeeps ==
    ASSUME NEW pools, NEW cs, SoundPools(pools, cs), NEW j \in DemoJobs,
           j.id \notin IdsIn(pools), deriveState(j) = "waiting"
    PROVE  LET new == [pools EXCEPT !["waiting"] = <<j>> \o @]
               ncs == [cs EXCEPT !["waiting"] = @ + 1]
           IN  /\ SoundPools(new, ncs) /\ AllOf(new) = AllOf(pools) \cup {j}
               /\ SumOf(cs) \in Int /\ SumOf(ncs) = SumOf(cs) + 1
<1> DEFINE new == [pools EXCEPT !["waiting"] = <<j>> \o @]
           ncs == [cs EXCEPT !["waiting"] = @ + 1]
<1>1. /\ pools \in [JobStates -> Seq(DemoJobs)] /\ cs \in [JobStates -> Nat]
      /\ \A s \in JobStates : IsInjective(pools[s]) /\ Len(pools[s]) <= cs[s]
      /\ \A s, t \in JobStates : \A x \in ToSet(pools[s]) : \A k \in ToSet(pools[t]) :
            x.id = k.id => s = t /\ x = k
      /\ \A s \in JobStates : \A x \in ToSet(pools[s]) : deriveState(x) = MarkOf(s)
  BY DEF SoundPools
<1>w. "waiting" \in JobStates
  BY JobStatesAre
<1>2. /\ new["waiting"] = <<j>> \o pools["waiting"] /\ ncs["waiting"] = cs["waiting"] + 1
      /\ \A s \in JobStates \ {"waiting"} : new[s] = pools[s] /\ ncs[s] = cs[s]
      /\ DOMAIN new = JobStates /\ DOMAIN ncs = JobStates
      /\ new = [s \in JobStates |-> new[s]] /\ ncs = [s \in JobStates |-> ncs[s]]
  BY <1>1, <1>w
<1>3. \A s \in JobStates : \A x \in ToSet(pools[s]) : x.id # j.id
  BY DEF IdsIn, AllOf
<1>4. /\ new["waiting"] \in Seq(DemoJobs) /\ Len(new["waiting"]) = Len(pools["waiting"]) + 1
      /\ ToSet(new["waiting"]) = ToSet(pools["waiting"]) \cup {j}
      /\ IsInjective(new["waiting"])
  <2>1. pools["waiting"] \in Seq(DemoJobs) /\ IsInjective(pools["waiting"])
        /\ j \notin ToSet(pools["waiting"])
    BY <1>1, <1>3, <1>w
  <2> HIDE DEF new
  <2> QED
    BY <1>2, <2>1, FirstIs
<1> HIDE DEF new, ncs
<1>5. ASSUME NEW s \in JobStates
      PROVE  /\ new[s] \in Seq(DemoJobs) /\ IsInjective(new[s])
             /\ ToSet(new[s]) = ToSet(pools[s]) \cup (IF s = "waiting" THEN {j} ELSE {})
             /\ ncs[s] \in Nat /\ Len(new[s]) <= ncs[s]
  <2>1. CASE s = "waiting"
    <3>1. Len(pools[s]) <= cs[s] /\ cs[s] \in Nat /\ Len(pools[s]) \in Nat
      BY <1>1
    <3>2. ncs[s] = cs[s] + 1 /\ Len(new[s]) = Len(pools[s]) + 1
      BY <1>2, <1>4, <2>1
    <3>3. ncs[s] \in Nat /\ Len(new[s]) <= ncs[s]
      BY <3>1, <3>2
    <3> QED
      BY <1>4, <2>1, <3>3
  <2>2. CASE s # "waiting"
    BY <1>1, <1>2, <2>2
  <2> QED
    BY <2>1, <2>2
<1>6. SoundPools(new, ncs)
  <2>1. new \in [JobStates -> Seq(DemoJobs)] /\ ncs \in [JobStates -> Nat]
    BY <1>2, <1>5
  <2>2. ASSUME NEW s \in JobStates, NEW t \in JobStates, NEW x \in ToSet(new[s]), NEW k \in ToSet(new[t]),
               x.id = k.id
        PROVE  s = t /\ x = k
    BY <1>1, <1>3, <1>5, <2>2
  <2>3. ASSUME NEW s \in JobStates, NEW x \in ToSet(new[s]) PROVE deriveState(x) = MarkOf(s)
    <3>1. MarkOf("waiting") = "waiting"
      BY DEF MarkOf
    <3> QED
      BY <1>1, <1>5, <3>1
  <2> QED
    BY <1>5, <2>1, <2>2, <2>3 DEF SoundPools
<1>7. AllOf(new) = AllOf(pools) \cup {j}
  <2>1. \A s \in JobStates : ToSet(new[s]) \subseteq ToSet(pools[s]) \cup {j}
    BY <1>5
  <2>2. \A s \in JobStates : ToSet(pools[s]) \subseteq ToSet(new[s])
    BY <1>5
  <2>3. j \in ToSet(new["waiting"])
    BY <1>4
  <2> QED
    BY <1>w, <2>1, <2>2, <2>3 DEF AllOf
<1>8. SumOf(cs) \in Int /\ SumOf(ncs) = SumOf(cs) + 1
  <2>1. \A s \in JobStates : cs[s] \in Int /\ ncs[s] \in Int
    BY <1>1, <1>5
  <2>2. SumOf(cs) \in Int /\ SumOf(ncs) = SumOf(cs) + (ncs["waiting"] - cs["waiting"])
    BY <1>2, <1>w, <2>1, SumOfIs
  <2>3. ncs["waiting"] - cs["waiting"] = 1
    BY <1>1, <1>2, <1>w
  <2> QED
    BY <2>2, <2>3
<1> QED
  BY <1>6, <1>7, <1>8 DEF new, ncs

\* Every id of a pool, and no other, resolves to the job in the pool.
OneStore(pools, f) ==
    /\ f \in [IdsIn(pools) -> DemoJobs]
    /\ \A j \in AllOf(pools) : f[j.id] = j
QueueOK(q) ==
    /\ SoundPools(samples[q], counts[q]) /\ OneStore(samples[q], byId[q])
    /\ \A id \in IdsIn(samples[q]) : idSeq < id

\* The inductive invariant: each queue is sound, and idSeq is below its ids.
DemoIInv ==
    /\ samples \in [DemoQueues -> [JobStates -> Seq(DemoJobs)]]
    /\ counts \in [DemoQueues -> [JobStates -> Nat]]
    /\ byId = [q \in DemoQueues |-> byId[q]]
    /\ paused \subseteq DemoQueues /\ idSeq \in 0..FirstId /\ pending \subseteq Calls
    /\ \A q \in DemoQueues : QueueOK(q)

\* What the step does to the total of each queue.
Follow ==
    \A q \in DemoQueues :
       total(q)' - total(q) = Cardinality(DOMAIN byId'[q]) - Cardinality(DOMAIN byId[q])

\* The ids of a queue are finitely many, and its total a number.
LEMMA QueueIs ==
    ASSUME DemoIInv, NEW q \in DemoQueues
    PROVE  /\ DOMAIN byId[q] = IdsIn(samples[q]) /\ IdsIn(samples[q]) \subseteq Ids
           /\ AllOf(samples[q]) \subseteq DemoJobs
           /\ IsFiniteSet(DOMAIN byId[q]) /\ Cardinality(DOMAIN byId[q]) \in Nat
           /\ total(q) = SumOf(counts[q]) /\ SumOf(counts[q]) \in Int
<1>1. QueueOK(q) /\ samples[q] \in [JobStates -> Seq(DemoJobs)] /\ counts[q] \in [JobStates -> Nat]
  BY DEF DemoIInv
<1>2. DOMAIN byId[q] = IdsIn(samples[q])
  BY <1>1 DEF QueueOK, OneStore
<1>3. AllOf(samples[q]) \subseteq DemoJobs
  <2>1. \A s \in JobStates : samples[q][s] \in Seq(DemoJobs)
    BY <1>1
  <2>2. \A s \in JobStates : \A i \in DOMAIN samples[q][s] : samples[q][s][i] \in DemoJobs
    BY <2>1
  <2> QED
    BY <2>2 DEF AllOf, ToSet
<1>4. IdsIn(samples[q]) \subseteq Ids
  BY <1>3 DEF IdsIn, DemoJobs
<1>5. IsFiniteSet(Ids)
  BY DemoAssumption, CountTo DEF Ids
<1>6. IsFiniteSet(DOMAIN byId[q])
  BY <1>2, <1>4, <1>5, FS_Subset
<1>7. SumOf(counts[q]) \in Int
  <2>1. "failed" \in JobStates
    BY JobStatesAre
  <2>2. \A s \in JobStates : counts[q][s] \in Int
    BY <1>1
  <2> QED
    BY <2>1, <2>2, SumOfIs
<1> QED
  BY <1>2, <1>3, <1>4, <1>6, <1>7, FS_CardinalityType DEF total, SumOf

\* A handler changes one queue, and hands out ids.
LEMMA OneQueueChanges ==
    ASSUME DemoIInv, NEW q \in DemoQueues, NEW pools, NEW cs, NEW f,
           SoundPools(pools, cs), OneStore(pools, f),
           samples' = [samples EXCEPT ![q] = pools], counts' = [counts EXCEPT ![q] = cs],
           byId' = [byId EXCEPT ![q] = f],
           idSeq' \in 0..idSeq, \A id \in IdsIn(pools) : idSeq' < id,
           paused' \subseteq DemoQueues, pending' \subseteq Calls,
           SumOf(cs) - SumOf(counts[q]) = Cardinality(DOMAIN f) - Cardinality(DOMAIN byId[q])
    PROVE  DemoIInv' /\ Follow
<1>1. /\ samples'[q] = pools /\ counts'[q] = cs /\ byId'[q] = f
      /\ \A p \in DemoQueues \ {q} :
            samples'[p] = samples[p] /\ counts'[p] = counts[p] /\ byId'[p] = byId[p]
  <2>1. /\ DOMAIN samples = DemoQueues /\ DOMAIN counts = DemoQueues /\ DOMAIN byId = DemoQueues
    <3>1. DOMAIN [p \in DemoQueues |-> byId[p]] = DemoQueues
      OBVIOUS
    <3> QED
      BY <3>1 DEF DemoIInv
  <2> QED
    BY <2>1
<1>2. idSeq \in Nat /\ idSeq' \in Nat /\ idSeq' <= idSeq /\ idSeq' \in 0..FirstId
  BY DemoAssumption DEF DemoIInv
<1>3. ASSUME NEW p \in DemoQueues PROVE QueueOK(p)'
  <2>1. CASE p = q
    BY <1>1, <2>1 DEF QueueOK
  <2>2. CASE p # q
    <3>1. QueueOK(p) /\ IdsIn(samples[p]) \subseteq Ids
      BY QueueIs DEF DemoIInv
    <3>2. \A id \in IdsIn(samples[p]) : idSeq' < id
      BY <1>2, <3>1 DEF QueueOK, Ids
    <3> QED
      BY <1>1, <2>2, <3>1, <3>2 DEF QueueOK
  <2> QED
    BY <2>1, <2>2
<1>4. /\ samples' \in [DemoQueues -> [JobStates -> Seq(DemoJobs)]]
      /\ counts' \in [DemoQueues -> [JobStates -> Nat]]
  BY DEF DemoIInv, SoundPools
<1>5. byId' = [p \in DemoQueues |-> byId'[p]]
  BY DEF DemoIInv
<1>6. DemoIInv'
  BY <1>2, <1>3, <1>4, <1>5 DEF DemoIInv
<1>7. ASSUME NEW p \in DemoQueues
      PROVE  total(p)' - total(p) = Cardinality(DOMAIN byId'[p]) - Cardinality(DOMAIN byId[p])
  <2>1. total(p)' = SumOf(counts'[p]) /\ total(p) = SumOf(counts[p])
    BY DEF total, SumOf
  <2>2. CASE p = q
    BY <1>1, <2>1, <2>2
  <2>3. CASE p # q
    <3>1. SumOf(counts[p]) \in Int /\ Cardinality(DOMAIN byId[p]) \in Nat
      BY QueueIs
    <3> QED
      BY <1>1, <2>1, <2>3, <3>1
  <2> QED
    BY <2>2, <2>3
<1> QED
  BY <1>6, <1>7 DEF Follow

\* Nothing but ids, and which queues are paused, may change.
LEMMA NoQueueChanges ==
    ASSUME DemoIInv, UNCHANGED <<samples, counts, byId>>, idSeq' \in 0..idSeq,
           paused' \subseteq DemoQueues, pending' \subseteq Calls
    PROVE  DemoIInv' /\ Follow
<1>1. idSeq \in Nat /\ idSeq' \in Nat /\ idSeq' <= idSeq /\ idSeq' \in 0..FirstId
  BY DemoAssumption DEF DemoIInv
<1>2. ASSUME NEW p \in DemoQueues PROVE QueueOK(p)'
  <2>1. QueueOK(p) /\ IdsIn(samples[p]) \subseteq Ids
    BY QueueIs DEF DemoIInv
  <2>2. \A id \in IdsIn(samples[p]) : idSeq' < id
    BY <1>1, <2>1 DEF QueueOK, Ids
  <2> QED
    BY <2>1, <2>2 DEF QueueOK
<1>3. DemoIInv'
  BY <1>1, <1>2 DEF DemoIInv
<1>4. ASSUME NEW p \in DemoQueues
      PROVE  total(p)' - total(p) = Cardinality(DOMAIN byId'[p]) - Cardinality(DOMAIN byId[p])
  <2>1. total(p) \in Int /\ Cardinality(DOMAIN byId[p]) \in Nat
    BY QueueIs
  <2>2. total(p)' = total(p)
    BY DEF total
  <2> QED
    BY <2>1, <2>2
<1> QED
  BY <1>3, <1>4 DEF Follow

\* A job that resolves is taken from its pool, changed or not, to those that wait.
LEMMA WaitsAgain ==
    ASSUME DemoIInv, NEW q \in DemoQueues, NEW id \in DOMAIN byId[q],
           NEW j \in DemoJobs, j.id = id, deriveState(j) = "waiting"
    PROVE  LET pools == [PoolsWithout(q, id) EXCEPT !["waiting"] = <<j>> \o @]
               cs == [CountsWithout(q, id) EXCEPT !["waiting"] = @ + 1]
           IN  /\ SoundPools(pools, cs) /\ IdsIn(pools) = IdsIn(samples[q])
               /\ AllOf(pools) = {k \in AllOf(samples[q]) : k.id # id} \cup {j}
               /\ SumOf(cs) = SumOf(counts[q])
<1> DEFINE left == PoolsWithout(q, id)
           pools == [left EXCEPT !["waiting"] = <<j>> \o @]
           less == CountsWithout(q, id)
           cs == [less EXCEPT !["waiting"] = @ + 1]
<1>1. SoundPools(samples[q], counts[q]) /\ id \in IdsIn(samples[q])
  BY QueueIs DEF DemoIInv, QueueOK
<1>2. /\ SoundPools(left, less) /\ AllOf(left) = {k \in AllOf(samples[q]) : k.id # id}
      /\ SumOf(counts[q]) \in Int /\ SumOf(less) = SumOf(counts[q]) - 1
  BY <1>1, RemoveKeeps
<1> HIDE DEF left, less
<1>3. j.id \notin IdsIn(left)
  BY <1>2 DEF IdsIn
<1>4. /\ SoundPools(pools, cs) /\ AllOf(pools) = AllOf(left) \cup {j}
      /\ SumOf(cs) = SumOf(less) + 1
  BY <1>2, <1>3, AddKeeps
<1> HIDE DEF pools, cs
<1>5. IdsIn(pools) = IdsIn(samples[q])
  BY <1>1, <1>2, <1>4 DEF IdsIn
<1>6. SumOf(cs) = SumOf(counts[q])
  BY <1>2, <1>4
<1> QED
  BY <1>2, <1>4, <1>5, <1>6 DEF pools, cs, left, less

\* The job an id resolves to.
LEMMA StoredIs ==
    ASSUME DemoIInv, NEW q \in DemoQueues, NEW id \in DOMAIN byId[q]
    PROVE  /\ byId[q][id] \in DemoJobs /\ byId[q][id].id = id
           /\ byId[q][id] \in AllOf(samples[q])
<1>1. OneStore(samples[q], byId[q]) /\ id \in IdsIn(samples[q])
  BY QueueIs DEF DemoIInv, QueueOK
<1>2. PICK j \in AllOf(samples[q]) : j.id = id
  BY <1>1 DEF IdsIn
<1> QED
  BY <1>1, <1>2, QueueIs DEF OneStore

\* The fields of a revived job are those of one that waits.
LEMMA RevivedIs ==
    ASSUME NEW j \in DemoJobs
    PROVE  Revived(j) \in DemoJobs /\ Revived(j).id = j.id /\ deriveState(Revived(j)) = "waiting"
<1>1. /\ Revived(j) \in DemoJobs /\ Revived(j).id = j.id
      /\ Revived(j).errorSignature = NoSig /\ Revived(j).finishedOn = FALSE
      /\ Revived(j).processedOn = FALSE
  BY DEF Revived, DemoJobs
<1> QED
  BY <1>1 DEF deriveState

\* A retry revives the job that its id resolves to.
LEMMA RetryKeeps ==
    ASSUME DemoIInv, NEW q, NEW id, retryJob(q, id), pending' \subseteq Calls
    PROVE  DemoIInv' /\ Follow
<1>1. idSeq' = idSeq /\ paused' = paused /\ idSeq' \in 0..idSeq /\ paused' \subseteq DemoQueues
  BY DemoAssumption DEF retryJob, DemoIInv
<1>2. CASE q \in DemoQueues /\ id \in DOMAIN byId[q]
  <2> DEFINE moved == Revived(byId[q][id])
             pools == [PoolsWithout(q, id) EXCEPT !["waiting"] = <<moved>> \o @]
             cs == [CountsWithout(q, id) EXCEPT !["waiting"] = @ + 1]
             f == [byId[q] EXCEPT ![id] = moved]
  <2>1. /\ samples' = [samples EXCEPT ![q] = pools] /\ counts' = [counts EXCEPT ![q] = cs]
        /\ byId' = [byId EXCEPT ![q] = f]
    BY <1>2 DEF retryJob, AddWaiting, Stored
  <2>2. byId[q][id] \in DemoJobs /\ byId[q][id].id = id
    BY <1>2, StoredIs
  <2>3. moved \in DemoJobs /\ moved.id = id /\ deriveState(moved) = "waiting"
    BY <2>2, RevivedIs
  <2> HIDE DEF moved
  <2>4. /\ SoundPools(pools, cs) /\ IdsIn(pools) = IdsIn(samples[q])
        /\ AllOf(pools) = {k \in AllOf(samples[q]) : k.id # id} \cup {moved}
        /\ SumOf(cs) = SumOf(counts[q])
    BY <1>2, <2>3, WaitsAgain
  <2>5. /\ OneStore(samples[q], byId[q]) /\ SumOf(counts[q]) \in Int
        /\ Cardinality(DOMAIN byId[q]) \in Nat
        /\ \A i \in IdsIn(samples[q]) : idSeq < i
    BY <1>2, QueueIs DEF DemoIInv, QueueOK
  <2> HIDE DEF pools, cs
  <2>6. OneStore(pools, f) /\ DOMAIN f = DOMAIN byId[q]
    BY <1>2, <2>3, <2>4, <2>5 DEF OneStore
  <2>7. SumOf(cs) - SumOf(counts[q]) = Cardinality(DOMAIN f) - Cardinality(DOMAIN byId[q])
    BY <2>4, <2>5, <2>6
  <2>8. \A i \in IdsIn(pools) : idSeq' < i
    BY <1>1, <2>4, <2>5
  <2> HIDE DEF f
  <2> QED
    BY <1>1, <1>2, <2>1, <2>4, <2>6, <2>7, <2>8, OneQueueChanges
<1>3. CASE q \in DemoQueues /\ id \notin DOMAIN byId[q]
  <2> DEFINE pools == PoolsWithout(q, id)
             cs == CountsWithout(q, id)
  <2>1. /\ samples' = [samples EXCEPT ![q] = pools] /\ counts' = [counts EXCEPT ![q] = cs]
        /\ byId' = byId
    BY <1>3 DEF retryJob, Stored
  <2>2. byId' = [byId EXCEPT ![q] = byId[q]]
    BY <2>1 DEF DemoIInv
  <2>3. /\ DOMAIN byId[q] = IdsIn(samples[q]) /\ Cardinality(DOMAIN byId[q]) \in Nat
        /\ SoundPools(samples[q], counts[q]) /\ OneStore(samples[q], byId[q])
        /\ \A i \in IdsIn(samples[q]) : idSeq < i
    BY <1>3, QueueIs DEF DemoIInv, QueueOK
  <2>4. /\ SoundPools(pools, cs) /\ AllOf(pools) = {j \in AllOf(samples[q]) : j.id # id}
        /\ SumOf(counts[q]) \in Int /\ SumOf(cs) = SumOf(counts[q])
    BY <1>3, <2>3, RemoveKeeps
  <2>5. AllOf(pools) = AllOf(samples[q])
    BY <1>3, <2>3, <2>4 DEF IdsIn
  <2> HIDE DEF pools, cs
  <2>6. OneStore(pools, byId[q]) /\ \A i \in IdsIn(pools) : idSeq' < i
    BY <1>1, <2>3, <2>5 DEF OneStore, IdsIn
  <2>7. SumOf(cs) - SumOf(counts[q]) = Cardinality(DOMAIN byId[q]) - Cardinality(DOMAIN byId[q])
    BY <2>3, <2>4
  <2> QED
    BY <1>1, <1>3, <2>1, <2>2, <2>4, <2>6, <2>7, OneQueueChanges
<1>4. CASE q \notin DemoQueues
  <2>1. UNCHANGED <<samples, counts, byId>>
    BY <1>4 DEF retryJob, Stored
  <2> QED
    BY <1>1, <2>1, NoQueueChanges
<1> QED
  BY <1>2, <1>3, <1>4

\* A removal takes the job out of its pool and out of byId.
LEMMA ForgetKeeps ==
    ASSUME DemoIInv, NEW q, NEW id, removeJob(q, id), pending' \subseteq Calls
    PROVE  DemoIInv' /\ Follow
<1>1. idSeq' = idSeq /\ paused' = paused /\ idSeq' \in 0..idSeq /\ paused' \subseteq DemoQueues
  BY DemoAssumption DEF removeJob, DemoIInv
<1>2. CASE q \in DemoQueues
  <2> DEFINE pools == PoolsWithout(q, id)
             cs == CountsWithout(q, id)
             f == Forget(byId[q], id)
  <2>1. /\ samples' = [samples EXCEPT ![q] = pools] /\ counts' = [counts EXCEPT ![q] = cs]
        /\ byId' = [byId EXCEPT ![q] = f]
    BY <1>2 DEF removeJob
  <2>2. /\ DOMAIN byId[q] = IdsIn(samples[q]) /\ Cardinality(DOMAIN byId[q]) \in Nat
        /\ IsFiniteSet(DOMAIN byId[q])
        /\ SoundPools(samples[q], counts[q]) /\ OneStore(samples[q], byId[q])
        /\ \A i \in IdsIn(samples[q]) : idSeq < i
    BY <1>2, QueueIs DEF DemoIInv, QueueOK
  <2>3. /\ SoundPools(pools, cs) /\ AllOf(pools) = {j \in AllOf(samples[q]) : j.id # id}
        /\ SumOf(counts[q]) \in Int
        /\ SumOf(cs) = SumOf(counts[q]) - (IF id \in IdsIn(samples[q]) THEN 1 ELSE 0)
    BY <2>2, RemoveKeeps
  <2> HIDE DEF pools, cs
  <2>4. IdsIn(pools) = IdsIn(samples[q]) \ {id}
    BY <2>3 DEF IdsIn
  <2>5. /\ DOMAIN f = DOMAIN byId[q] \ {id} /\ \A i \in DOMAIN f : f[i] = byId[q][i]
        /\ f = [i \in DOMAIN f |-> f[i]]
    BY DEF Forget
  <2> HIDE DEF f
  <2>6. OneStore(pools, f) /\ \A i \in IdsIn(pools) : idSeq' < i
    <3>1. \A j \in AllOf(pools) : j \in AllOf(samples[q]) /\ j.id \in IdsIn(pools)
      BY <2>3 DEF IdsIn
    <3>2. \A i \in DOMAIN f : f[i] \in DemoJobs
      BY <2>2, <2>5 DEF OneStore
    <3>3. DOMAIN f = IdsIn(pools)
      BY <2>2, <2>4, <2>5
    <3>4. \A j \in AllOf(pools) : f[j.id] = j
      BY <2>2, <2>5, <3>1, <3>3 DEF OneStore
    <3>5. f \in [IdsIn(pools) -> DemoJobs]
      BY <2>5, <3>2, <3>3
    <3> QED
      BY <1>1, <2>2, <2>4, <3>4, <3>5 DEF OneStore
  <2>7. SumOf(cs) - SumOf(counts[q]) = Cardinality(DOMAIN f) - Cardinality(DOMAIN byId[q])
    <3>1. CASE id \in DOMAIN byId[q]
      <4>1. Cardinality(DOMAIN byId[q] \ {id}) = Cardinality(DOMAIN byId[q]) - 1
        BY <2>2, <3>1, FS_RemoveElement
      <4> QED
        BY <2>2, <2>3, <2>5, <3>1, <4>1
    <3>2. CASE id \notin DOMAIN byId[q]
      <4>1. DOMAIN f = DOMAIN byId[q]
        BY <2>5, <3>2
      <4> QED
        BY <2>2, <2>3, <3>2, <4>1
    <3> QED
      BY <3>1, <3>2
  <2> QED
    BY <1>1, <1>2, <2>1, <2>3, <2>6, <2>7, OneQueueChanges
<1>3. CASE q \notin DemoQueues
  <2>1. UNCHANGED <<samples, counts, byId>>
    BY <1>3 DEF removeJob
  <2> QED
    BY <1>1, <2>1, NoQueueChanges
<1> QED
  BY <1>2, <1>3

\* A promotion takes the job from those that are delayed, as it is.
LEMMA PromoteKeeps ==
    ASSUME DemoIInv, NEW q, NEW id, promoteJob(q, id), pending' \subseteq Calls
    PROVE  DemoIInv' /\ Follow
<1>1. idSeq' = idSeq /\ paused' = paused /\ idSeq' \in 0..idSeq /\ paused' \subseteq DemoQueues
  BY DemoAssumption DEF promoteJob, DemoIInv
<1>2. byId' = byId
  BY DEF promoteJob
<1>3. CASE q \in DemoQueues /\ "delayed" \in PoolOf(q, id)
  <2> DEFINE moved == CHOOSE j \in ToSet(samples[q]["delayed"]) : j.id = id
             left == [samples[q] EXCEPT !["delayed"] = Without(@, id)]
             less == [counts[q] EXCEPT !["delayed"] = Max({0, @ - 1})]
             pools == [left EXCEPT !["waiting"] = <<moved>> \o @]
             cs == [less EXCEPT !["waiting"] = @ + 1]
  <2>1. samples' = [samples EXCEPT ![q] = pools] /\ counts' = [counts EXCEPT ![q] = cs]
    BY <1>3 DEF promoteJob, AddWaiting
  <2>2. /\ SoundPools(samples[q], counts[q]) /\ OneStore(samples[q], byId[q])
        /\ DOMAIN byId[q] = IdsIn(samples[q]) /\ AllOf(samples[q]) \subseteq DemoJobs
        /\ SumOf(counts[q]) \in Int /\ Cardinality(DOMAIN byId[q]) \in Nat
        /\ \A i \in IdsIn(samples[q]) : idSeq < i
    BY <1>3, QueueIs DEF DemoIInv, QueueOK
  <2>3. moved \in ToSet(samples[q]["delayed"]) /\ moved.id = id /\ "delayed" \in JobStates
    BY <1>3 DEF PoolOf
  <2> HIDE DEF moved
  <2>4. moved \in AllOf(samples[q]) /\ id \in DOMAIN byId[q] /\ moved \in DemoJobs
    <3>1. moved \in AllOf(samples[q])
      BY <2>3 DEF AllOf
    <3> QED
      BY <2>2, <2>3, <3>1 DEF IdsIn
  <2>5. deriveState(moved) = "waiting"
    BY <2>2, <2>3 DEF SoundPools, MarkOf
  <2>6. PoolOf(q, id) = {"delayed"}
    <3>1. \A s \in PoolOf(q, id) : s = "delayed"
      BY <2>2, <2>3 DEF PoolOf, SoundPools
    <3> QED
      BY <1>3, <3>1
  <2>7. left = PoolsWithout(q, id) /\ less = CountsWithout(q, id)
    <3>1. /\ samples[q] = [s \in JobStates |-> samples[q][s]]
          /\ counts[q] = [s \in JobStates |-> counts[q][s]]
      BY <2>2 DEF SoundPools
    <3>2. left = [s \in JobStates |-> IF s \in {"delayed"} THEN Without(samples[q][s], id)
                                      ELSE samples[q][s]]
      BY <3>1
    <3>3. less = [s \in JobStates |-> IF s \in {"delayed"} THEN Max({0, counts[q][s] - 1})
                                      ELSE counts[q][s]]
      BY <3>1
    <3> QED
      BY <2>6, <3>2, <3>3 DEF PoolsWithout, CountsWithout
  <2> HIDE DEF left, less
  <2>8. /\ SoundPools(pools, cs) /\ IdsIn(pools) = IdsIn(samples[q])
        /\ AllOf(pools) = {k \in AllOf(samples[q]) : k.id # id} \cup {moved}
        /\ SumOf(cs) = SumOf(counts[q])
    <3>1. pools = [PoolsWithout(q, id) EXCEPT !["waiting"] = <<moved>> \o @]
      BY <2>7
    <3>2. cs = [CountsWithout(q, id) EXCEPT !["waiting"] = @ + 1]
      BY <2>7
    <3> HIDE DEF pools, cs
    <3> QED
      BY <1>3, <2>3, <2>4, <2>5, <3>1, <3>2, WaitsAgain
  <2> HIDE DEF pools, cs
  <2>9. OneStore(pools, byId[q]) /\ \A i \in IdsIn(pools) : idSeq' < i
    BY <1>1, <2>2, <2>4, <2>8 DEF OneStore
  <2>10. SumOf(cs) - SumOf(counts[q]) = Cardinality(DOMAIN byId[q]) - Cardinality(DOMAIN byId[q])
    BY <2>2, <2>8
  <2>11. byId' = [byId EXCEPT ![q] = byId[q]]
    BY <1>2 DEF DemoIInv
  <2> QED
    BY <1>1, <1>3, <2>1, <2>8, <2>9, <2>10, <2>11, OneQueueChanges
<1>4. CASE ~(q \in DemoQueues /\ "delayed" \in PoolOf(q, id))
  <2>1. UNCHANGED <<samples, counts, byId>>
    BY <1>4 DEF promoteJob
  <2> QED
    BY <1>1, <2>1, NoQueueChanges
<1> QED
  BY <1>3, <1>4

\* A replay makes a job of an id that no queue has.
LEMMA ReplayKeeps ==
    ASSUME DemoIInv, NEW q, NEW id, idSeq > 3, replayJob(q, id), pending' \subseteq Calls
    PROVE  DemoIInv' /\ Follow
<1>1. idSeq \in Nat /\ idSeq \in Ids /\ paused \subseteq DemoQueues
  BY DemoAssumption DEF DemoIInv, Ids
<1>2. CASE q \notin DemoQueues
  <2>1. UNCHANGED <<samples, counts, byId>> /\ idSeq' = idSeq /\ paused' = paused
    BY <1>2 DEF replayJob, world
  <2>2. idSeq' \in 0..idSeq /\ paused' \subseteq DemoQueues
    BY <1>1, <2>1
  <2> QED
    BY <2>1, <2>2, NoQueueChanges
<1>3. CASE q \in DemoQueues
  <2> DEFINE fresh == makeJob(idSeq, "waiting", NoSig)
             pools == [samples[q] EXCEPT !["waiting"] = <<fresh>> \o @]
             cs == [counts[q] EXCEPT !["waiting"] = @ + 1]
             f == [i \in DOMAIN byId[q] \cup {idSeq} |-> IF i = idSeq THEN fresh ELSE byId[q][i]]
  <2>1. /\ samples' = [samples EXCEPT ![q] = pools] /\ counts' = [counts EXCEPT ![q] = cs]
        /\ byId' = [byId EXCEPT ![q] = f] /\ idSeq' = idSeq - 2 /\ paused' = paused
    BY <1>3 DEF replayJob, AddWaiting
  <2>2. /\ SoundPools(samples[q], counts[q]) /\ OneStore(samples[q], byId[q])
        /\ DOMAIN byId[q] = IdsIn(samples[q]) /\ IdsIn(samples[q]) \subseteq Ids
        /\ SumOf(counts[q]) \in Int /\ Cardinality(DOMAIN byId[q]) \in Nat
        /\ IsFiniteSet(DOMAIN byId[q])
        /\ \A i \in IdsIn(samples[q]) : idSeq < i
    BY <1>3, QueueIs DEF DemoIInv, QueueOK
  <2>3. /\ fresh \in DemoJobs /\ fresh.id = idSeq /\ deriveState(fresh) = "waiting"
    <3>1. /\ fresh = [id |-> idSeq, processedOn |-> FALSE, finishedOn |-> FALSE,
                      errorSignature |-> NoSig]
      <4>1. /\ ("waiting" \in {"active", "completed", "failed"}) = FALSE
            /\ ("waiting" \in {"completed", "failed"}) = FALSE
        OBVIOUS
      <4>2. (IF "waiting" = "failed" THEN NoSig ELSE NoSig) = NoSig
        OBVIOUS
      <4> QED
        BY <4>1, <4>2, Zenon DEF makeJob
    <3> HIDE DEF fresh
    <3> QED
      BY <1>1, <3>1 DEF DemoJobs, deriveState
  <2>4. idSeq \notin IdsIn(samples[q])
    BY <1>1, <2>2
  <2> HIDE DEF fresh
  <2>5. /\ SoundPools(pools, cs) /\ AllOf(pools) = AllOf(samples[q]) \cup {fresh}
        /\ SumOf(cs) = SumOf(counts[q]) + 1
    BY <2>2, <2>3, <2>4, AddKeeps
  <2> HIDE DEF pools, cs
  <2>6. IdsIn(pools) = IdsIn(samples[q]) \cup {idSeq}
    BY <2>3, <2>5 DEF IdsIn
  <2>7. /\ DOMAIN f = DOMAIN byId[q] \cup {idSeq} /\ f[idSeq] = fresh
        /\ \A i \in DOMAIN byId[q] : f[i] = byId[q][i]
        /\ f = [i \in DOMAIN f |-> f[i]]
    BY <2>2, <2>4
  <2> HIDE DEF f
  <2>8. OneStore(pools, f)
    <3>1. DOMAIN f = IdsIn(pools)
      BY <2>2, <2>6, <2>7
    <3>2. \A i \in DOMAIN f : f[i] \in DemoJobs
      BY <2>2, <2>3, <2>7 DEF OneStore
    <3>3. \A j \in AllOf(samples[q]) : j.id \in DOMAIN byId[q] /\ byId[q][j.id] = j
      BY <2>2 DEF OneStore, IdsIn
    <3>4. \A j \in AllOf(pools) : f[j.id] = j
      BY <2>3, <2>5, <2>7, <3>3
    <3>5. f \in [IdsIn(pools) -> DemoJobs]
      BY <2>7, <3>1, <3>2
    <3> QED
      BY <3>4, <3>5 DEF OneStore
  <2>9. /\ idSeq' \in 0..idSeq /\ paused' \subseteq DemoQueues
        /\ \A i \in IdsIn(pools) : idSeq' < i
    <3>1. idSeq' \in Nat /\ idSeq' < idSeq
      BY <1>1, <2>1
    <3>2. \A i \in IdsIn(samples[q]) : i \in Nat /\ idSeq < i
      BY <2>2 DEF Ids
    <3> QED
      BY <1>1, <2>1, <2>6, <3>1, <3>2
  <2>10. SumOf(cs) - SumOf(counts[q]) = Cardinality(DOMAIN f) - Cardinality(DOMAIN byId[q])
    <3>1. Cardinality(DOMAIN f) = Cardinality(DOMAIN byId[q]) + 1
      BY <2>2, <2>4, <2>7, FS_AddElement
    <3> QED
      BY <2>2, <2>5, <3>1
  <2> QED
    BY <1>3, <2>1, <2>5, <2>8, <2>9, <2>10, OneQueueChanges
<1> QED
  BY <1>2, <1>3

\* What a handler does once the delay has passed.
LEMMA HandleKeeps ==
    ASSUME DemoIInv, NEW c \in Calls, idSeq > 3, Handle(c), pending' \subseteq Calls
    PROVE  DemoIInv' /\ Follow
<1>1. idSeq \in Nat /\ paused \subseteq DemoQueues
  BY DemoAssumption DEF DemoIInv
<1>2. CASE Answers(c)
  <2>1. UNCHANGED <<samples, counts, byId>> /\ paused' = paused /\ idSeq' = idSeq - MadeToAnswer(c)
    BY <1>2 DEF Answers
  <2>2. MadeToAnswer(c) \in 0..4
    <3>1. Len(children(c.id)) = 3
      BY DEF children
    <3> QED BY <3>1 DEF MadeToAnswer
  <2>3. idSeq' \in 0..idSeq /\ paused' \subseteq DemoQueues
    BY <1>1, <2>1, <2>2
  <2> QED
    BY <2>1, <2>3, NoQueueChanges
<1>3. CASE c.op = "retry" /\ retryJob(c.q, c.id)
  BY <1>3, RetryKeeps
<1>4. CASE c.op = "promote" /\ promoteJob(c.q, c.id)
  BY <1>4, PromoteKeeps
<1>5. CASE c.op = "remove" /\ removeJob(c.q, c.id)
  BY <1>5, ForgetKeeps
<1>6. CASE c.op = "replay" /\ replayJob(c.q, c.id)
  BY <1>6, ReplayKeeps
<1>7. CASE c.op \in {"pause", "resume"} /\ setPaused(c.q, c.op = "pause")
  <2>1. UNCHANGED <<samples, counts, byId>> /\ idSeq' = idSeq /\ paused' \subseteq DemoQueues
    BY <1>1, <1>7 DEF setPaused
  <2>2. idSeq' \in 0..idSeq
    BY <1>1, <2>1
  <2> QED
    BY <2>1, <2>2, NoQueueChanges
<1> QED
  BY <1>2, <1>3, <1>4, <1>5, <1>6, <1>7 DEF Handle

\* A step of the console plays with the demo, or leaves it as it is.
LEMMA NextDemoIInv == DemoIInv /\ [Next]_vars => DemoIInv' /\ Follow
<1> SUFFICES ASSUME DemoIInv, [Next]_vars PROVE DemoIInv' /\ Follow
  OBVIOUS
<1>1. idSeq \in 0..idSeq /\ paused \subseteq DemoQueues /\ pending \subseteq Calls
  BY DemoAssumption DEF DemoIInv
<1>2. CASE UNCHANGED demoVars
  <2>1. UNCHANGED <<samples, counts, byId>> /\ idSeq' = idSeq /\ paused' = paused /\ pending' = pending
    BY <1>2 DEF demoVars, world
  <2> QED
    BY <1>1, <2>1, NoQueueChanges
<1>3. CASE DemoNext
  <2>1. PICK c \in Calls : Fetch(c) \/ Abort(c) \/ Serve(c)
    BY <1>3 DEF DemoNext
  <2>2. CASE Fetch(c) \/ Abort(c)
    <3>1. /\ UNCHANGED <<samples, counts, byId>> /\ idSeq' = idSeq /\ paused' = paused
          /\ pending' \subseteq Calls
      BY <1>1, <2>2 DEF Fetch, Abort, world
    <3> QED
      BY <1>1, <3>1, NoQueueChanges
  <2>3. CASE Serve(c)
    <3>1. idSeq > 3 /\ Handle(c) /\ pending' \subseteq Calls
      BY <1>1, <2>3 DEF Serve
    <3> QED
      BY <3>1, HandleKeeps
  <2> QED
    BY <2>1, <2>2, <2>3
<1> QED
  BY <1>2, <1>3 DEF Next, Polling, vars

\* How many jobs of a state are made.
LEMMA WantIs ==
    ASSUME NEW q \in DemoQueues, NEW s \in JobStates
    PROVE  /\ Want(q, s) \in Nat
           /\ Want(q, s) <= SampleLimit[s] /\ Want(q, s) <= CountsOf[q][s]
<1>1. SampleLimit[s] \in Nat /\ CountsOf[q][s] \in Nat
  BY DemoAssumption
<1> DEFINE a == SampleLimit[s]
           b == CountsOf[q][s]
<1>2. Min({a, b}) = IF a <= b THEN a ELSE b
  <2> HIDE DEF a, b
  <2> QED
    BY <1>1 DEF Min, a, b
<1> QED
  BY <1>1, <1>2 DEF Want

\* The places of the states, and of the queues.
LEMMA PlacesAre ==
    /\ DOMAIN STATES = 1..6 /\ DOMAIN QUEUES = 1..Len(QUEUES) /\ Len(QUEUES) \in Nat
    /\ \A n \in DOMAIN QUEUES : QUEUES[n] \in DemoQueues
    /\ \A k \in DOMAIN STATES : STATES[k] \in JobStates
<1>1. DOMAIN STATES = 1..6
  BY DEF STATES
<1>2. QUEUES \in Seq(DemoQueues)
  BY DemoAssumption
<1> QED
  BY <1>1, <1>2 DEF JobStates, ToSet

\* The jobs that are made at first are finitely many.
LEMMA SlotsAre ==
    /\ IsFiniteSet(Slots) /\ Cardinality(Slots) \in Nat
    /\ \A x \in Slots : x = <<x[1], x[2], x[3]>> /\ x[1] \in Int /\ x[2] \in Int /\ x[3] \in Int
<1> DEFINE M == SampleLimit["waiting"] + SampleLimit["active"] + SampleLimit["completed"]
                + SampleLimit["failed"] + SampleLimit["delayed"] + SampleLimit["prioritized"]
           A == DOMAIN QUEUES
           B == DOMAIN STATES
           C == 1..M
           those == {<<n, k, i>> : n \in A, k \in B, i \in C}
           f == [p \in (A \X B) \X C |-> <<p[1][1], p[1][2], p[2]>>]
<1>1. M \in Nat /\ \A s \in JobStates : SampleLimit[s] \in Nat /\ SampleLimit[s] <= M
  BY DemoAssumption, JobStatesAre
<1> HIDE DEF M
<1>2. IsFiniteSet(A) /\ IsFiniteSet(B) /\ IsFiniteSet(C)
  BY <1>1, PlacesAre, CountTo
<1>3. IsFiniteSet((A \X B) \X C)
  BY <1>2, FS_Product
<1>4. f \in Surjection((A \X B) \X C, those)
  <2>1. \A p \in (A \X B) \X C : f[p] \in those
    OBVIOUS
  <2>2. ASSUME NEW n \in A, NEW k \in B, NEW i \in C
        PROVE  \E p \in (A \X B) \X C : f[p] = <<n, k, i>>
    <3>1. <<<<n, k>>, i>> \in (A \X B) \X C /\ f[<<<<n, k>>, i>>] = <<n, k, i>>
      OBVIOUS
    <3> QED
      BY <3>1
  <2>3. \A t \in those : \E p \in (A \X B) \X C : f[p] = t
    <3> SUFFICES ASSUME NEW t \in those PROVE \E p \in (A \X B) \X C : f[p] = t
      OBVIOUS
    <3>1. PICK n \in A, k \in B, i \in C : t = <<n, k, i>>
      OBVIOUS
    <3> HIDE DEF f, A, B, C, those
    <3> QED
      BY <2>2, <3>1
  <2>4. f \in [(A \X B) \X C -> those]
    BY <2>1
  <2> HIDE DEF f, those, A, B, C
  <2> QED
    BY <2>3, <2>4 DEF Surjection
<1>5. IsFiniteSet(those)
  BY <1>3, <1>4, FS_Surjection
<1>6. ASSUME NEW n \in A, NEW k \in B, NEW i \in 1..Want(QUEUES[n], STATES[k])
      PROVE  i \in C
  <2>1. Want(QUEUES[n], STATES[k]) \in Nat /\ Want(QUEUES[n], STATES[k]) <= SampleLimit[STATES[k]]
        /\ STATES[k] \in JobStates
    BY PlacesAre, WantIs
  <2> QED
    BY <1>1, <2>1
<1>7. Slots \in SUBSET those
  BY <1>6 DEF Slots
<1>8. IsFiniteSet(Slots)
  BY <1>5, <1>7, FS_Subset
<1>9. A \subseteq Int /\ B \subseteq Int /\ C \subseteq Int
  BY <1>1, PlacesAre
<1>10. \A x \in those : x = <<x[1], x[2], x[3]>> /\ x[1] \in Int /\ x[2] \in Int /\ x[3] \in Int
  BY <1>9
<1> QED
  BY <1>7, <1>8, <1>10, FS_CardinalityType

\* Each job that is made at first has an id of its own, above idSeq.
LEMMA MadeBeforeIs ==
    /\ \A x \in Slots : FirstId - MadeBefore(x) \in Ids
                        /\ FirstId - Cardinality(Slots) < FirstId - MadeBefore(x)
    /\ \A x, y \in Slots : MadeBefore(x) = MadeBefore(y) => x = y
<1> DEFINE before(x) == {y \in Slots : IsBefore(y, x)}
<1>1. FirstId \in Nat /\ Cardinality(Slots) \in Nat /\ Cardinality(Slots) <= FirstId
  BY DemoAssumption, SlotsAre
<1>2. ASSUME NEW x \in Slots
      PROVE  /\ IsFiniteSet(before(x)) /\ Cardinality(before(x)) \in Nat
             /\ Cardinality(before(x)) < Cardinality(Slots)
  <2>1. x \notin before(x)
    BY SlotsAre DEF IsBefore
  <2>2. before(x) \in SUBSET (Slots \ {x})
    BY <2>1
  <2> HIDE DEF before
  <2>3. IsFiniteSet(Slots \ {x}) /\ Cardinality(Slots \ {x}) = Cardinality(Slots) - 1
    BY SlotsAre, FS_RemoveElement
  <2>4. IsFiniteSet(before(x)) /\ Cardinality(before(x)) <= Cardinality(Slots \ {x})
    BY <2>2, <2>3, FS_Subset
  <2>5. Cardinality(before(x)) \in Nat
    BY <2>4, FS_CardinalityType
  <2> QED
    BY <1>1, <2>3, <2>4, <2>5
<1>3. ASSUME NEW x \in Slots, NEW y \in Slots, IsBefore(x, y)
      PROVE  Cardinality(before(x)) < Cardinality(before(y))
  <2>1. \A z \in Slots : IsBefore(z, x) => IsBefore(z, y)
    BY <1>3, SlotsAre DEF IsBefore
  <2>2. ~IsBefore(x, x)
    BY SlotsAre DEF IsBefore
  <2>3. x \in before(y) /\ before(x) \in SUBSET (before(y) \ {x})
    BY <1>3, <2>1, <2>2
  <2>4. /\ IsFiniteSet(before(y)) /\ Cardinality(before(y)) \in Nat
        /\ Cardinality(before(x)) \in Nat
    BY <1>2
  <2> HIDE DEF before
  <2>5. /\ IsFiniteSet(before(y) \ {x})
        /\ Cardinality(before(y) \ {x}) = Cardinality(before(y)) - 1
    BY <2>3, <2>4, FS_RemoveElement
  <2>6. Cardinality(before(x)) <= Cardinality(before(y) \ {x})
    BY <2>3, <2>5, FS_Subset
  <2> QED
    BY <2>4, <2>5, <2>6
<1>4. \A x \in Slots : MadeBefore(x) = Cardinality(before(x))
  BY DEF MadeBefore
<1> HIDE DEF before
<1>5. ASSUME NEW x \in Slots, NEW y \in Slots, MadeBefore(x) = MadeBefore(y) PROVE x = y
  <2>1. ~IsBefore(x, y) /\ ~IsBefore(y, x)
    BY <1>2, <1>3, <1>4, <1>5
  <2>2. x[1] = y[1] /\ x[2] = y[2] /\ x[3] = y[3]
    BY <2>1, SlotsAre DEF IsBefore
  <2> QED
    BY <2>2, SlotsAre
<1>6. ASSUME NEW x \in Slots
      PROVE  FirstId - MadeBefore(x) \in Ids
             /\ FirstId - Cardinality(Slots) < FirstId - MadeBefore(x)
  BY <1>1, <1>2, <1>4 DEF Ids
<1> QED
  BY <1>5, <1>6

\* What tells the state of a job is in its fields.
LEMMA MadeIs ==
    ASSUME NEW id \in Ids, NEW s \in JobStates, NEW sig, s = "failed" => sig \in Sigs
    PROVE  LET j == makeJob(id, s, sig)
           IN  j \in DemoJobs /\ j.id = id /\ deriveState(j) = MarkOf(s)
<1> DEFINE j == makeJob(id, s, sig)
           p == s \in {"active", "completed", "failed"}
           f == s \in {"completed", "failed"}
           e == IF s = "failed" THEN sig ELSE NoSig
<1>1. j = [id |-> id, processedOn |-> p, finishedOn |-> f, errorSignature |-> e]
  BY DEF makeJob
<1>2. p \in BOOLEAN /\ f \in BOOLEAN /\ e \in Sigs \cup {NoSig}
  OBVIOUS
<1>3. /\ s = "failed" => e # NoSig
      /\ s # "failed" => e = NoSig
  BY DemoAssumption
<1>4. /\ p = TRUE <=> s \in {"active", "completed", "failed"}
      /\ f = TRUE <=> s \in {"completed", "failed"}
  OBVIOUS
<1> HIDE DEF j, p, f, e
<1>5. /\ j \in DemoJobs /\ j.id = id /\ j.processedOn = p /\ j.finishedOn = f
      /\ j.errorSignature = e
  BY <1>1, <1>2 DEF DemoJobs
<1>6. deriveState(j) = MarkOf(s)
  <2>1. CASE s = "failed"
    BY <1>3, <1>5, <2>1 DEF deriveState, MarkOf
  <2>2. CASE s = "completed"
    BY <1>2, <1>3, <1>4, <1>5, <2>2 DEF deriveState, MarkOf
  <2>3. CASE s = "active"
    BY <1>2, <1>3, <1>4, <1>5, <2>3 DEF deriveState, MarkOf
  <2>4. CASE s \notin {"active", "completed", "failed"}
    BY <1>2, <1>3, <1>4, <1>5, <2>4 DEF deriveState, MarkOf
  <2> QED
    BY <2>1, <2>2, <2>3, <2>4
<1> QED
  BY <1>5, <1>6 DEF j

\* The pools of a queue at first.
LEMMA BuiltIs ==
    ASSUME NEW n \in DOMAIN QUEUES, NEW sigOf \in [1..SampleLimit["failed"] -> Sigs]
    PROVE  /\ SoundPools(buildQueueState(n, sigOf), CountsOf[QUEUES[n]])
           /\ \A id \in IdsIn(buildQueueState(n, sigOf)) : FirstId - Cardinality(Slots) < id
<1> DEFINE q == QUEUES[n]
           pools == buildQueueState(n, sigOf)
           place(s) == CHOOSE i \in DOMAIN STATES : STATES[i] = s
           slot(s, i) == <<n, place(s), i>>
           sig(s, i) == IF s = "failed" THEN sigOf[i] ELSE NoSig
<1>1. q \in DemoQueues
  BY PlacesAre
<1>2. ASSUME NEW s \in JobStates
      PROVE  /\ place(s) \in DOMAIN STATES /\ STATES[place(s)] = s
             /\ Want(q, s) \in Nat /\ Want(q, s) <= SampleLimit[s] /\ Want(q, s) <= CountsOf[q][s]
  <2>1. \E i \in DOMAIN STATES : STATES[i] = s
    BY DEF JobStates, ToSet
  <2> QED
    BY <1>1, <2>1, WantIs
<1>3. ASSUME NEW s \in JobStates, NEW i \in 1..Want(q, s) PROVE slot(s, i) \in Slots
  <2>1. place(s) \in DOMAIN STATES /\ i \in 1..Want(QUEUES[n], STATES[place(s)])
    BY <1>2, <1>3
  <2> DEFINE those(m, k) == {<<m, k, j>> : j \in 1..Want(QUEUES[m], STATES[k])}
  <2> HIDE DEF place
  <2>2. slot(s, i) \in those(n, place(s))
    BY <2>1
  <2>3. Slots = UNION {those(m, k) : m \in DOMAIN QUEUES, k \in DOMAIN STATES}
    BY DEF Slots
  <2> HIDE DEF those
  <2>4. those(n, place(s)) \in {those(m, k) : m \in DOMAIN QUEUES, k \in DOMAIN STATES}
    BY <2>1
  <2> QED
    BY <2>2, <2>3, <2>4
<1>4. \A s \in JobStates :
         pools[s] = [i \in 1..Want(q, s) |-> makeJob(FirstId - MadeBefore(slot(s, i)), s, sig(s, i))]
  BY DEF buildQueueState
<1>5. pools = [s \in JobStates |-> pools[s]]
  BY DEF buildQueueState
<1>6. \A s, t \in JobStates : \A i \in 1..Want(q, s) : \A k \in 1..Want(q, t) :
         slot(s, i) = slot(t, k) => s = t /\ i = k
  <2> SUFFICES ASSUME NEW s \in JobStates, NEW t \in JobStates, NEW i \in 1..Want(q, s),
                      NEW k \in 1..Want(q, t), slot(s, i) = slot(t, k)
               PROVE  s = t /\ i = k
    OBVIOUS
  <2>1. STATES[place(s)] = s /\ STATES[place(t)] = t
    BY <1>2
  <2> HIDE DEF place
  <2>2. place(s) = place(t) /\ i = k
    OBVIOUS
  <2> QED
    BY <2>1, <2>2
<1>7. ASSUME NEW s \in JobStates, NEW i \in 1..Want(q, s)
      PROVE  s = "failed" => sig(s, i) \in Sigs
  <2> SUFFICES ASSUME s = "failed" PROVE sigOf[i] \in Sigs
    OBVIOUS
  <2>1. i \in 1..SampleLimit["failed"]
    <3>1. Want(q, s) \in Nat /\ Want(q, s) <= SampleLimit[s] /\ SampleLimit[s] \in Nat
      BY <1>2, DemoAssumption
    <3> QED
      BY <3>1
  <2> QED
    BY <2>1
<1> HIDE DEF pools, slot, sig, place
<1>8. ASSUME NEW s \in JobStates, NEW i \in 1..Want(q, s)
      PROVE  /\ pools[s][i] \in DemoJobs /\ pools[s][i].id = FirstId - MadeBefore(slot(s, i))
             /\ deriveState(pools[s][i]) = MarkOf(s)
  <2> DEFINE id == FirstId - MadeBefore(slot(s, i))
  <2>1. id \in Ids
    BY <1>3, MadeBeforeIs
  <2>2. pools[s][i] = makeJob(id, s, sig(s, i))
    BY <1>4
  <2> HIDE DEF id
  <2>3. s = "failed" => sig(s, i) \in Sigs
    BY <1>7
  <2> QED
    BY <2>1, <2>2, <2>3, MadeIs DEF id
<1>9. ASSUME NEW s \in JobStates
      PROVE  /\ pools[s] \in Seq(DemoJobs) /\ DOMAIN pools[s] = 1..Want(q, s)
             /\ Len(pools[s]) = Want(q, s) /\ Len(pools[s]) <= CountsOf[q][s]
  <2>1. Want(q, s) \in Nat /\ Want(q, s) <= CountsOf[q][s]
    BY <1>2
  <2>2. pools[s] = [i \in 1..Want(q, s) |-> pools[s][i]] /\ DOMAIN pools[s] = 1..Want(q, s)
    BY <1>4
  <2>3. \A i \in 1..Want(q, s) : pools[s][i] \in DemoJobs
    BY <1>8
  <2>4. pools[s] \in Seq(DemoJobs) /\ Len(pools[s]) = Want(q, s)
    BY <2>1, <2>2, <2>3
  <2> QED
    BY <2>1, <2>2, <2>4
<1>10. ASSUME NEW s \in JobStates, NEW t \in JobStates, NEW i \in 1..Want(q, s),
              NEW k \in 1..Want(q, t), pools[s][i].id = pools[t][k].id
       PROVE  s = t /\ i = k
  <2>1. slot(s, i) \in Slots /\ slot(t, k) \in Slots
    BY <1>3
  <2>2. /\ FirstId - MadeBefore(slot(s, i)) = FirstId - MadeBefore(slot(t, k))
        /\ FirstId - MadeBefore(slot(s, i)) \in Ids /\ FirstId - MadeBefore(slot(t, k)) \in Ids
    BY <1>8, <1>10, <2>1, MadeBeforeIs
  <2>3. FirstId \in Nat /\ MadeBefore(slot(s, i)) \in Nat /\ MadeBefore(slot(t, k)) \in Nat
    <3>1. \A x \in Slots : MadeBefore(x) \in Nat
      <4> SUFFICES ASSUME NEW x \in Slots PROVE MadeBefore(x) \in Nat
        OBVIOUS
      <4>1. {y \in Slots : IsBefore(y, x)} \in SUBSET Slots
        OBVIOUS
      <4>2. IsFiniteSet({y \in Slots : IsBefore(y, x)})
        BY <4>1, SlotsAre, FS_Subset
      <4> QED
        BY <4>2, FS_CardinalityType DEF MadeBefore
    <3> QED
      BY <2>1, <3>1, DemoAssumption
  <2>4. MadeBefore(slot(s, i)) = MadeBefore(slot(t, k))
    BY <2>2, <2>3
  <2>5. slot(s, i) = slot(t, k)
    BY <2>1, <2>4, MadeBeforeIs
  <2> QED
    BY <1>6, <2>5
<1>11. SoundPools(pools, CountsOf[q])
  <2>1. pools \in [JobStates -> Seq(DemoJobs)] /\ CountsOf[q] \in [JobStates -> Nat]
    <3>1. CountsOf[q] \in [JobStates -> Nat]
      BY <1>1, DemoAssumption
    <3>2. \A s \in JobStates : pools[s] \in Seq(DemoJobs)
      BY <1>9
    <3> QED
      BY <1>5, <3>1, <3>2
  <2>2. ASSUME NEW s \in JobStates PROVE IsInjective(pools[s]) /\ Len(pools[s]) <= CountsOf[q][s]
    BY <1>9, <1>10 DEF IsInjective
  <2>3. ASSUME NEW s \in JobStates, NEW t \in JobStates, NEW j \in ToSet(pools[s]),
               NEW k \in ToSet(pools[t]), j.id = k.id
        PROVE  s = t /\ j = k
    <3>1. PICK x \in 1..Want(q, s) : pools[s][x] = j
      BY <1>9 DEF ToSet
    <3>2. PICK y \in 1..Want(q, t) : pools[t][y] = k
      BY <1>9 DEF ToSet
    <3>3. s = t /\ x = y
      BY <1>10, <2>3, <3>1, <3>2
    <3> QED
      BY <3>1, <3>2, <3>3
  <2>4. ASSUME NEW s \in JobStates, NEW j \in ToSet(pools[s]) PROVE deriveState(j) = MarkOf(s)
    <3>1. PICK x \in 1..Want(q, s) : pools[s][x] = j
      BY <1>9 DEF ToSet
    <3> QED
      BY <1>8, <3>1
  <2> QED
    BY <2>1, <2>2, <2>3, <2>4 DEF SoundPools
<1>12. ASSUME NEW id \in IdsIn(pools) PROVE FirstId - Cardinality(Slots) < id
  <2>1. PICK s \in JobStates : \E x \in DOMAIN pools[s] : pools[s][x].id = id
    BY DEF IdsIn, AllOf, ToSet
  <2>2. PICK x \in 1..Want(q, s) : pools[s][x].id = id
    BY <1>9, <2>1
  <2> QED
    BY <1>3, <1>8, <2>2, MadeBeforeIs
<1> QED
  BY <1>11, <1>12 DEF pools, q

\* At first every queue is sound.
LEMMA InitDemoIInv == DemoInit => DemoIInv
<1> SUFFICES ASSUME DemoInit PROVE DemoIInv
  OBVIOUS
<1> DEFINE n(q) == CHOOSE m \in DOMAIN QUEUES : QUEUES[m] = q
<1>1. PICK sigOf \in [DemoQueues -> [1..SampleLimit["failed"] -> Sigs]] :
         samples = [q \in DemoQueues |-> buildQueueState(n(q), sigOf[q])]
  BY DEF DemoInit
<1>2. /\ byId = [q \in DemoQueues |->
                   [id \in {j.id : j \in AllOf(samples[q])} |->
                      CHOOSE j \in AllOf(samples[q]) : j.id = id]]
      /\ counts = CountsOf /\ paused \subseteq DemoQueues
      /\ idSeq = FirstId - Cardinality(Slots) /\ pending = {}
  BY DEF DemoInit
<1>3. ASSUME NEW q \in DemoQueues PROVE n(q) \in DOMAIN QUEUES /\ QUEUES[n(q)] = q
  <2>1. \E m \in DOMAIN QUEUES : QUEUES[m] = q
    BY DEF DemoQueues, ToSet
  <2> QED
    BY <2>1
<1> HIDE DEF n
<1>4. ASSUME NEW q \in DemoQueues
      PROVE  /\ samples[q] = buildQueueState(n(q), sigOf[q]) /\ counts[q] = CountsOf[q]
             /\ SoundPools(samples[q], counts[q])
             /\ \A id \in IdsIn(samples[q]) : idSeq < id
  <2>1. /\ samples[q] = buildQueueState(n(q), sigOf[q]) /\ counts[q] = CountsOf[q]
        /\ sigOf[q] \in [1..SampleLimit["failed"] -> Sigs]
    BY <1>1, <1>2
  <2> QED
    BY <1>2, <1>3, <2>1, BuiltIs
<1>5. ASSUME NEW q \in DemoQueues PROVE OneStore(samples[q], byId[q])
  <2> DEFINE all == AllOf(samples[q])
             f == byId[q]
  <2>1. f = [id \in IdsIn(samples[q]) |-> CHOOSE j \in all : j.id = id]
    BY <1>2 DEF IdsIn
  <2>2. SoundPools(samples[q], counts[q])
    BY <1>4
  <2>3. \A j, k \in all : j.id = k.id => j = k
    BY <2>2 DEF SoundPools, AllOf
  <2>4. all \subseteq DemoJobs
    <3>1. \A s \in JobStates : samples[q][s] \in Seq(DemoJobs)
      BY <2>2 DEF SoundPools
    <3>2. \A s \in JobStates : \A i \in DOMAIN samples[q][s] : samples[q][s][i] \in DemoJobs
      BY <3>1
    <3> QED
      BY <3>2 DEF AllOf, ToSet
  <2> HIDE DEF all, f
  <2>5. \A j \in all : f[j.id] = j
    <3> SUFFICES ASSUME NEW j \in all PROVE f[j.id] = j
      OBVIOUS
    <3>1. j.id \in IdsIn(samples[q]) /\ f[j.id] = (CHOOSE k \in all : k.id = j.id)
      BY <2>1 DEF IdsIn, all
    <3>2. (CHOOSE k \in all : k.id = j.id) \in all
          /\ (CHOOSE k \in all : k.id = j.id).id = j.id
      OBVIOUS
    <3> QED
      BY <2>3, <3>1, <3>2
  <2>6. \A id \in IdsIn(samples[q]) : f[id] \in DemoJobs
    <3> SUFFICES ASSUME NEW id \in IdsIn(samples[q]) PROVE f[id] \in DemoJobs
      OBVIOUS
    <3>1. PICK j \in all : j.id = id
      BY DEF IdsIn, all
    <3> QED
      BY <2>4, <2>5, <3>1
  <2>7. f \in [IdsIn(samples[q]) -> DemoJobs]
    BY <2>1, <2>6
  <2> QED
    BY <2>5, <2>7 DEF OneStore, all, f
<1>6. /\ samples \in [DemoQueues -> [JobStates -> Seq(DemoJobs)]]
      /\ counts \in [DemoQueues -> [JobStates -> Nat]]
      /\ byId = [q \in DemoQueues |-> byId[q]]
  <2>1. \A q \in DemoQueues : samples[q] \in [JobStates -> Seq(DemoJobs)]
    BY <1>4 DEF SoundPools
  <2>2. DOMAIN samples = DemoQueues /\ samples = [q \in DemoQueues |-> samples[q]]
    BY <1>1
  <2>3. byId = [q \in DemoQueues |-> byId[q]]
    BY <1>2
  <2> QED
    BY <1>2, <2>1, <2>2, <2>3, DemoAssumption
<1>7. idSeq \in 0..FirstId
  BY <1>2, DemoAssumption, SlotsAre
<1> QED
  BY <1>2, <1>4, <1>5, <1>6, <1>7 DEF DemoIInv, QueueOK

\* A pool of jobs with ids of their own is no longer than there are ids.
LEMMA PoolIsShort ==
    ASSUME NEW pool \in Seq(DemoJobs), IsInjective(pool),
           \A j, k \in ToSet(pool) : j.id = k.id => j = k
    PROVE  Len(pool) \in Nat /\ Len(pool) <= FirstId
<1> DEFINE f == [i \in 1..Len(pool) |-> pool[i].id]
<1>1. Len(pool) \in Nat /\ DOMAIN pool = 1..Len(pool) /\ \A i \in 1..Len(pool) : pool[i] \in DemoJobs
  OBVIOUS
<1>2. f \in [1..Len(pool) -> Ids]
  BY <1>1 DEF DemoJobs
<1>3. \A i, k \in 1..Len(pool) : f[i] = f[k] => i = k
  <2> SUFFICES ASSUME NEW i \in 1..Len(pool), NEW k \in 1..Len(pool), pool[i].id = pool[k].id
               PROVE  i = k
    OBVIOUS
  <2>1. pool[i] = pool[k]
    BY <1>1 DEF ToSet
  <2> QED
    BY <1>1, <2>1 DEF IsInjective
<1> HIDE DEF f
<1>4. f \in Injection(1..Len(pool), Ids)
  <2>1. IsInjective(f)
    BY <1>2, <1>3 DEF IsInjective
  <2> QED
    BY <1>2, <2>1 DEF Injection, IsInjective
<1>5. IsFiniteSet(Ids) /\ Cardinality(Ids) = FirstId
  BY DemoAssumption, CountTo DEF Ids
<1>6. Cardinality(1..Len(pool)) = Len(pool)
  BY <1>1, CountTo
<1>7. Cardinality(1..Len(pool)) <= Cardinality(Ids)
  BY <1>4, <1>5, FS_Injection
<1> QED
  BY <1>1, <1>5, <1>6, <1>7

\* The jobs of the samples of a signature are of the failed pool.
LEMMA SamplesFail ==
    ASSUME NEW q, samples[q]["failed"] \in Seq(DemoJobs), NEW sig, NEW id \in sampleJobIds(q, sig)
    PROVE  \E j \in ToSet(samples[q]["failed"]) : j.id = id
<1> DEFINE pool == samples[q]["failed"]
           P == {i \in DOMAIN pool : pool[i].errorSignature = sig}
           hits == Only(pool, P)
           N == Len(hits)
           most == Min({6, N})
<1>1. P \in SUBSET DOMAIN pool
  OBVIOUS
<1>2. PICK i \in 1..most : hits[i].id = id
  BY DEF sampleJobIds
<1> HIDE DEF pool, P
<1>3. hits \in Seq(DemoJobs) /\ ToSet(hits) = {pool[x] : x \in P}
  BY <1>1, KeptIs DEF pool
<1>4. N \in Nat /\ DOMAIN hits = 1..N
  BY <1>3
<1> HIDE DEF hits, N
<1>5. most \in Nat /\ most <= N
  BY <1>4 DEF Min
<1> HIDE DEF most
<1>6. i \in DOMAIN hits
  BY <1>4, <1>5
<1>7. hits[i] \in ToSet(hits)
  BY <1>6 DEF ToSet
<1>8. ToSet(hits) \subseteq ToSet(pool)
  BY <1>1, <1>3 DEF ToSet
<1> QED
  BY <1>2, <1>7, <1>8 DEF pool

\* A search for a state that has a mark of its own finds its pool.
LEMMA SearchIs ==
    ASSUME NEW q, NEW cs, SoundPools(samples[q], cs), q \in DemoQueues,
           NEW s \in {"active", "completed", "failed"}
    PROVE  search(q, s, FirstId).jobs = listJobs(q, s, 0, FirstId)
<1> DEFINE a == samples[q]["failed"]
           b == samples[q]["completed"]
           c == samples[q]["active"]
           d == samples[q]["waiting"]
           e == samples[q]["delayed"]
           all == a \o b \o c \o d \o e
           P == {i \in DOMAIN all : deriveState(all[i]) = s}
           pool == samples[q][s]
<1>1. \A t \in JobStates : /\ samples[q][t] \in Seq(DemoJobs)
                           /\ \A i \in 1..Len(samples[q][t]) :
                                 deriveState(samples[q][t][i]) = MarkOf(t)
  <2> SUFFICES ASSUME NEW t \in JobStates
               PROVE  /\ samples[q][t] \in Seq(DemoJobs)
                      /\ \A i \in 1..Len(samples[q][t]) : deriveState(samples[q][t][i]) = MarkOf(t)
    OBVIOUS
  <2>1. samples[q][t] \in Seq(DemoJobs)
    BY DEF SoundPools
  <2>2. \A i \in DOMAIN samples[q][t] : samples[q][t][i] \in ToSet(samples[q][t])
    BY DEF ToSet
  <2>3. DOMAIN samples[q][t] = 1..Len(samples[q][t])
    BY <2>1
  <2> QED
    BY <2>1, <2>2, <2>3 DEF SoundPools
<1>2. /\ a \in Seq(DemoJobs) /\ \A i \in 1..Len(a) : deriveState(a[i]) = "failed"
      /\ b \in Seq(DemoJobs) /\ \A i \in 1..Len(b) : deriveState(b[i]) = "completed"
      /\ c \in Seq(DemoJobs) /\ \A i \in 1..Len(c) : deriveState(c[i]) = "active"
      /\ d \in Seq(DemoJobs) /\ \A i \in 1..Len(d) : deriveState(d[i]) = "waiting"
      /\ e \in Seq(DemoJobs) /\ \A i \in 1..Len(e) : deriveState(e[i]) = "waiting"
  <2>1. /\ MarkOf("failed") = "failed" /\ MarkOf("completed") = "completed"
        /\ MarkOf("active") = "active" /\ MarkOf("waiting") = "waiting"
        /\ MarkOf("delayed") = "waiting"
    BY DEF MarkOf
  <2>2. /\ "failed" \in JobStates /\ "completed" \in JobStates /\ "active" \in JobStates
        /\ "waiting" \in JobStates /\ "delayed" \in JobStates
    BY JobStatesAre
  <2> QED
    BY <1>1, <2>1, <2>2
<1>3. s \in JobStates /\ Len(pool) \in Nat /\ Len(pool) <= FirstId /\ pool \in Seq(DemoJobs)
  <2>1. s \in JobStates
    BY JobStatesAre
  <2>2. /\ pool \in Seq(DemoJobs) /\ IsInjective(pool)
        /\ \A j, k \in ToSet(pool) : j.id = k.id => j = k
    BY <2>1 DEF SoundPools
  <2> HIDE DEF pool
  <2> QED
    BY <2>1, <2>2, PoolIsShort
<1>4. /\ (s = "failed" /\ pool = a) \/ (s = "completed" /\ pool = b) \/ (s = "active" /\ pool = c)
  OBVIOUS
<1> HIDE DEF a, b, c, d, e
<1>5. /\ all \in Seq(DemoJobs) /\ Len(all) = Len(a) + Len(b) + Len(c) + Len(d) + Len(e)
      /\ \A i \in 1..Len(a) : all[i] = a[i]
      /\ \A i \in 1..Len(b) : all[Len(a) + i] = b[i]
      /\ \A i \in 1..Len(c) : all[Len(a) + Len(b) + i] = c[i]
      /\ \A i \in 1..Len(d) : all[Len(a) + Len(b) + Len(c) + i] = d[i]
      /\ \A i \in 1..Len(e) : all[Len(a) + Len(b) + Len(c) + Len(d) + i] = e[i]
  <2>1. /\ a \in Seq(DemoJobs) /\ b \in Seq(DemoJobs) /\ c \in Seq(DemoJobs)
        /\ d \in Seq(DemoJobs) /\ e \in Seq(DemoJobs)
    BY <1>2
  <2>2. all = a \o b \o c \o d \o e
    OBVIOUS
  <2> HIDE DEF all
  <2>3. all \in Seq(DemoJobs) /\ InLine(all, a, b, c, d, e)
    BY <2>1, <2>2, FiveAre
  <2> QED
    BY <2>3 DEF InLine
<1>6. search(q, s, FirstId).jobs
        = SubSeq(Only(all, P), 1, Min({FirstId, Len(Only(all, P))}))
  BY DEF search, a, b, c, d, e
<1> HIDE DEF all
<1>7. /\ Len(a) \in Nat /\ Len(b) \in Nat /\ Len(c) \in Nat /\ Len(d) \in Nat /\ Len(e) \in Nat
      /\ DOMAIN all = 1..Len(all)
  BY <1>2, <1>5
<1>8. ASSUME NEW i \in DOMAIN all
      PROVE  deriveState(all[i]) =
               IF i <= Len(a) THEN "failed"
               ELSE IF i <= Len(a) + Len(b) THEN "completed"
               ELSE IF i <= Len(a) + Len(b) + Len(c) THEN "active" ELSE "waiting"
  <2>1. CASE i <= Len(a)
    <3>1. i \in 1..Len(a)
      BY <1>7, <2>1
    <3> QED
      BY <1>2, <1>5, <2>1, <3>1
  <2>2. CASE Len(a) < i /\ i <= Len(a) + Len(b)
    <3> DEFINE k == i - Len(a)
    <3>1. k \in 1..Len(b) /\ i = Len(a) + k
      BY <1>7, <2>2
    <3>2. all[i] = b[k]
      BY <1>5, <3>1
    <3> QED
      BY <1>2, <1>7, <2>2, <3>1, <3>2
  <2>3. CASE Len(a) + Len(b) < i /\ i <= Len(a) + Len(b) + Len(c)
    <3> DEFINE k == i - (Len(a) + Len(b))
    <3>1. k \in 1..Len(c) /\ i = Len(a) + Len(b) + k
      BY <1>7, <2>3
    <3>2. all[i] = c[k]
      BY <1>5, <3>1
    <3> QED
      BY <1>2, <1>7, <2>3, <3>1, <3>2
  <2>4. CASE Len(a) + Len(b) + Len(c) < i /\ i <= Len(a) + Len(b) + Len(c) + Len(d)
    <3> DEFINE k == i - (Len(a) + Len(b) + Len(c))
    <3>1. k \in 1..Len(d) /\ i = Len(a) + Len(b) + Len(c) + k
      BY <1>7, <2>4
    <3>2. all[i] = d[k]
      BY <1>5, <3>1
    <3> QED
      BY <1>2, <1>7, <2>4, <3>1, <3>2
  <2>5. CASE Len(a) + Len(b) + Len(c) + Len(d) < i
    <3> DEFINE k == i - (Len(a) + Len(b) + Len(c) + Len(d))
    <3>1. k \in 1..Len(e) /\ i = Len(a) + Len(b) + Len(c) + Len(d) + k
      BY <1>5, <1>7, <2>5
    <3>2. all[i] = e[k]
      BY <1>5, <3>1
    <3> QED
      BY <1>2, <1>7, <2>5, <3>1, <3>2
  <2> QED
    BY <1>7, <2>1, <2>2, <2>3, <2>4, <2>5
<1>9. Only(all, P) = pool
  <2>1. CASE s = "failed"
    <3>1. P = (0 + 1)..(0 + Len(a))
      BY <1>5, <1>7, <1>8, <2>1
    <3>2. Only(all, (0 + 1)..(0 + Len(a))) = a
      <4>1. 0 + Len(a) <= Len(all) /\ \A i \in 1..Len(a) : all[0 + i] = a[i]
        BY <1>5, <1>7
      <4> QED
        BY <1>2, <1>5, <4>1, StretchIs
    <3> QED
      BY <1>4, <2>1, <3>1, <3>2
  <2>2. CASE s = "completed"
    <3>1. P = (Len(a) + 1)..(Len(a) + Len(b))
      BY <1>5, <1>7, <1>8, <2>2
    <3>2. Only(all, (Len(a) + 1)..(Len(a) + Len(b))) = b
      <4>1. Len(a) + Len(b) <= Len(all)
        BY <1>5, <1>7
      <4> QED
        BY <1>2, <1>5, <1>7, <4>1, StretchIs
    <3> QED
      BY <1>4, <2>2, <3>1, <3>2
  <2>3. CASE s = "active"
    <3> DEFINE n == Len(a) + Len(b)
    <3>0. n \in Nat
      BY <1>7
    <3>1. P = (n + 1)..(n + Len(c))
      BY <1>5, <1>7, <1>8, <2>3
    <3>2. n + Len(c) <= Len(all) /\ \A i \in 1..Len(c) : all[n + i] = c[i]
      BY <1>5, <1>7
    <3> HIDE DEF n, P
    <3>3. Only(all, (n + 1)..(n + Len(c))) = c
      BY <1>2, <1>5, <3>0, <3>2, StretchIs
    <3> QED
      BY <1>4, <2>3, <3>1, <3>3
  <2> QED
    BY <2>1, <2>2, <2>3
<1> HIDE DEF P
<1>10. listJobs(q, s, 0, FirstId) = SubSeq(pool, 0 + 1, Min({FirstId + 1, Len(pool)}))
  BY DEF listJobs
<1> HIDE DEF pool
<1>11. Min({FirstId, Len(pool)}) = Len(pool) /\ Min({FirstId + 1, Len(pool)}) = Len(pool)
  <2>1. \A m, n \in Nat : n <= m => Min({m, n}) = n
    BY DEF Min
  <2>2. FirstId \in Nat /\ FirstId + 1 \in Nat /\ Len(pool) <= FirstId + 1
    BY <1>3, DemoAssumption
  <2> QED
    BY <1>3, <2>1, <2>2
<1>12. 0 + 1 = 1
  OBVIOUS
<1> QED
  BY <1>6, <1>9, <1>10, <1>11, <1>12

\* What lists, search and samples show, of the world that the invariant tells of.
LEMMA StoryIs == DemoIInv => OneStory
<1> SUFFICES ASSUME DemoIInv PROVE OneStory
  OBVIOUS
<1>1. \A q \in DemoQueues : SoundPools(samples[q], counts[q]) /\ OneStore(samples[q], byId[q])
  BY DEF DemoIInv, QueueOK
<1>2. TypeOK
  <2>1. \A q \in DemoQueues : AllOf(samples[q]) \subseteq DemoJobs
    BY QueueIs
  <2>2. idSeq \in Nat /\ paused \subseteq DemoQueues /\ pending \subseteq Calls
        /\ counts \in [DemoQueues -> [JobStates -> Nat]]
    BY DemoAssumption DEF DemoIInv
  <2> QED
    BY <2>1, <2>2 DEF TypeOK, DemoJobs
<1>3. ASSUME NEW q \in DemoQueues PROVE {j.id : j \in AllOf(samples[q])} = DOMAIN byId[q]
  BY QueueIs DEF IdsIn
<1>4. ASSUME NEW q \in DemoQueues, NEW j \in AllOf(samples[q]) PROVE getJob(q, j.id) = j
  <2>1. j.id \in DOMAIN byId[q] /\ byId[q][j.id] = j
    BY <1>1, <1>3 DEF OneStore
  <2> QED
    BY <2>1 DEF getJob, Stored
<1>5. ASSUME NEW q \in DemoQueues, NEW id \in DOMAIN byId[q] PROVE Cardinality(PoolOf(q, id)) = 1
  <2>1. PICK s \in JobStates : \E j \in ToSet(samples[q][s]) : j.id = id
    BY <1>3 DEF AllOf
  <2>2. \A t \in PoolOf(q, id) : t = s
    BY <1>1, <2>1 DEF PoolOf, SoundPools
  <2>3. PoolOf(q, id) = {s}
    BY <2>1, <2>2 DEF PoolOf
  <2> QED
    BY <2>3, FS_Singleton
<1>6. ASSUME NEW q \in DemoQueues, NEW s \in JobStates
      PROVE  counts[q][s] >= Len(samples[q][s]) /\ IsInjective(samples[q][s])
  <2>1. /\ samples[q][s] \in Seq(DemoJobs) /\ counts[q][s] \in Nat
        /\ IsInjective(samples[q][s]) /\ Len(samples[q][s]) <= counts[q][s]
    BY <1>1 DEF SoundPools
  <2> QED
    BY <2>1
<1>7. ResolvesThroughOneStore
  BY <1>2, <1>3, <1>4, <1>5, <1>6 DEF ResolvesThroughOneStore
<1>8. ASSUME NEW q \in DemoQueues, NEW s \in {"active", "completed", "failed"}
      PROVE  search(q, s, FirstId).jobs = listJobs(q, s, 0, FirstId)
  BY <1>1, SearchIs
<1>9. ASSUME NEW q \in DemoQueues, NEW s \in {"waiting", "delayed", "prioritized"},
             NEW j \in ToSet(samples[q][s])
      PROVE  deriveState(j) = "waiting"
  <2>1. s \in JobStates /\ MarkOf(s) = "waiting"
    BY JobStatesAre DEF MarkOf
  <2> QED
    BY <1>1, <2>1 DEF SoundPools
<1>10. ASSUME NEW q \in DemoQueues, NEW s \in JobStates, NEW sig \in Sigs,
              NEW j \in ToSet(samples[q][s]), j.id \in sampleJobIds(q, sig)
       PROVE  s = "failed"
  <2>1. "failed" \in JobStates
    BY JobStatesAre
  <2>2. samples[q]["failed"] \in Seq(DemoJobs)
    BY <1>1, <2>1 DEF SoundPools
  <2>3. \E k \in ToSet(samples[q]["failed"]) : k.id = j.id
    BY <1>10, <2>2, SamplesFail
  <2> QED
    BY <1>1, <2>1, <2>3 DEF SoundPools
<1>11. ViewsAgree
  BY <1>8, <1>9, <1>10 DEF ViewsAgree
<1> QED
  BY <1>7, <1>11 DEF OneStory

\* The invariant holds in every state of the console.
LEMMA SpecDemoIInv == Spec => []DemoIInv
<1>1. Init => DemoIInv
  BY InitDemoIInv DEF Init
<1>2. DemoIInv /\ [Next]_vars => DemoIInv'
  BY NextDemoIInv
<1> QED
  BY <1>1, <1>2, PTL DEF Spec

(***************************************************************************)
(* What the header of mock.ts says of lists, searches and the samples of a *)
(* failure, and is not so of flows: whatever was retried, promoted,        *)
(* replayed or removed, in whatever order and from lists however old, they *)
(* and the drawer opened from them show the same jobs in the same states,  *)
(* for any configuration of the demo's queues.                             *)
(***************************************************************************)
THEOREM DemoTellsOneStory == Spec => []OneStory
<1> QED
  BY SpecDemoIInv, StoryIs, PTL

(***************************************************************************)
(* The total of a queue of the demo changes with the jobs that resolve in  *)
(* it, one for one: removeFromState and the handlers never count a job     *)
(* twice, nor lose one, whatever has become of it since it was listed.     *)
(***************************************************************************)
THEOREM TotalsFollowActions == Spec => TotalFollowsActions
<1>1. DemoIInv /\ [Next]_vars => [Follow]_demoVars
  BY NextDemoIInv
<1> QED
  BY <1>1, SpecDemoIInv, PTL DEF Spec, TotalFollowsActions, Follow
=============================================================================
