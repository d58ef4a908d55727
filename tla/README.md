# bullwatch: a verification project

TLA+ models of bullwatch, a dashboard for BullMQ: model-checked with TLC on small
instances and, where a property matters for every instance, proved with TLAPS.
`PROJECT.json` maps every definition to the lines of the source it models, and lists
the runs, the mutants that show each property can fail, the hazards and the theorems.

## Inventory

The program is one Node process (packages/core) that an HTTP adapter embeds, and a web
console (apps/web) that polls it. Node runs one callback at a time, so a step of a model
is the code between two awaits, and everything hard happens at the awaits.

| component | state | operations | hard behaviour | what makes it correct |
|---|---|---|---|---|
| alert rules (`alerts/rules.ts`) | none (a rule's state is a value) | evaluate a rule, `decide` | thresholds, empty and small samples, cooldown | one firing, repeats after the cooldown, one resolved |
| alert evaluator (`alerts/evaluator.ts`) | `states`, `timer`, `running`, `inFlight`, `closed` | `start`, the interval, `evaluateOnce`, `snapshot`, `close` | slow reads and deliveries, failures in a pass, `close()` in a pass | passes do not overlap; snapshot and notifications agree; inert after `close()` |
| webhook delivery (`alerts/webhook.ts`) | the activations of `deliverOne` | deliver to every URL | lost answers, timeouts, retries, late arrivals | bounded duplicates and duration, one outcome per URL, never rejects |
| live metrics (`server/app.ts`, `bullmq/metrics-collector.ts`) | `collectors` Map, one connection pair per collector | `startMetrics`, `onFinished`, `onAdded`, `close` | overlapping calls, a failing connection, a failing write, `close()` in between | one reader per queue, each finish counted once, what the Map held closed |
| metric events (`domain/events.ts`) | none | `eventToAggregates` | nameless jobs, missing spans | one record per series the event belongs to |
| memory store (`storage/memory-store.ts`) | `series`, `markers` Maps | `write`, `query`, `recordMarker`, evictions | late events, ties, the cap inside one write | exact within retention, bounded, drops the least recent |
| Redis store (`storage/redis-store.ts`) | index sets, timestamp sets, buckets with TTLs | the same | replicas, reads between the commands of a write, expiry, a write cut short | the same totals as the memory store, within retention |
| failure summary (`domain/failure-summary.ts`) | none | `summarizeFailures` | series evicted separately | the classified are among the total |
| job actions (`bullmq/actions.ts`) | none; acts on Redis | retry, replay, promote, remove, clean, pause, bulk | jobs move between check and act, half-done replays, lost connections | the answer says what was done, no lost original |
| registry (`bullmq/registry.ts`) | `queues`, `flowProducer`, `adminClient` | `getQueue`, `isAllowed`, discovery by SCAN, `close` | requests and two signals during `close()`, pages of a changing key space | one connection of a kind; every one that was open is closed; listings are complete |
| readers, search, samples (`bullmq/*`) | none | reads and scans over live jobs | jobs move between the reads | says so when it may have missed some |
| pure helpers (`domain/*`, `storage/histogram.ts`) | none | masks, queries, timings, histograms | wildcards, edge values | agree with their description; a masked field cannot be searched |
| web console (`apps/web/src`) | hooks' state | `usePoll`, the queue screen, search and flow forms, palette, job drawer and toast | answers late, out of order, aborted or gathered from several requests | shows, and acts on, what is selected; nothing goes back in time |
| demo backend (`apps/web/src/demo`) | `queueState`, `byId`, `idSeq` | a patched `fetch`, the mutations and views of the API | any mutation meets any job | lists, search, samples and counts tell one story |
| standalone (`packages/standalone`) | the rescan interval | startup, rescan, shutdown | rescans that overlap, two signals | see live metrics and the registry |
| adapters (express, fastify, ...) | none | request translation | none | not modelled |

How they interact. The collectors listen to BullMQ's event streams, turn each event into
records and write them to the store. The evaluator's interval reads the store (failure
rate, latency) or Redis (depth) through the registry, and awaits the webhook delivery.
The routes resolve a queue through the registry, act on it or read it, and read the store
and the evaluator's snapshot. `close()` of the app closes the evaluator, then the
collectors, then the registry, and awaits each. The console polls the routes and sends
mutations to them; in the static demo its `fetch` is answered by the demo backend
instead. Console and server share no state but what their requests carry, so the server
is an input to the model of the console, and requests are an input to that of the
server.

## Modules

| module | models | built on |
|---|---|---|
| `AlertRules` | `rules.ts`: evaluations over exact fractions, and `decide` | |
| `AlertEpisodes` | abstract: what receivers are told of a rule | |
| `AlertEvaluator` | `evaluator.ts` | `AlertRules`; implements `AlertEpisodes` |
| `DeliveryContract` | abstract: what one call of the deliver function promises | |
| `WebhookDelivery` | `webhook.ts`; implements `DeliveryContract` | |
| `AlertDelivery` | `evaluator.ts` with `webhook.ts` and the receivers | `AlertEvaluator` |
| `WebhookDeliveryProofs` | the theorems about one call of the deliver function | `WebhookDelivery`, `DataInduction` |
| `AlertProofs` | the theorems about the evaluator, alone and with its deliveries | `AlertDelivery`, `DataInduction` |
| `MetricsCollectors` | `startMetrics` and `close` of `app.ts`, `metrics-collector.ts` | |
| `EventIngestion` | the handlers of `metrics-collector.ts`, `timings.ts`, the reason of `error-signature.ts` | |
| `LiveMetrics` | the live metrics pipeline | the two above |
| `LiveMetricsProofs` | the theorems about it | `LiveMetrics`, `DataInduction` |
| `MetricEvents` | `events.ts` | |
| `Filters` | what the deletions of a loop leave of a list or a Map | |
| `MemoryStore` | `memory-store.ts`, the totals of `failure-summary.ts` | `MetricEvents`, `Filters` |
| `MemoryStoreProofs` | the theorems about it | `MemoryStore`, `DataInduction` |
| `RedisStore` | `redis-store.ts`: writes, expiry, queries | `MetricEvents` |
| `RedisMarkers` | `redis-store.ts`: deploy markers; `POST /api/deploys` | `RedisStore` |
| `RedisStoreProofs` | the theorems about the store and the markers | `RedisMarkers`, `DataInduction` |
| `QueueRegistry` | `registry.ts`, `discovery.ts`, `resolve` and `close` of `app.ts` | |
| `JobActions` | `actions.ts`, `runBulk` and the mutations of `app.ts` | |
| `JobSearch` | `search.ts`, `failure-samples.ts` | `Filters` |
| `PayloadMask` | `mask.ts`, the predicate of `search-query.ts` | |
| `AppServer` | the routes of `app.ts` | the four above |
| `AppServerProofs` | the theorems about actions, registry, search and mask | `AppServer`, `DataInduction` |
| `UsePoll` | `usePoll.ts`, the pollers of the screens, `QueueDetail.tsx` | |
| `SearchForms` | `Search.tsx`, `Flows.tsx` | |
| `CommandPalette` | `CommandPalette.tsx`, `router.ts`, the shell `App.tsx` | |
| `JobDrawer` | `JobDrawer.tsx`, `drawer.ts` | |
| `DemoBackend` | `demo/mock.ts` | `Filters` |
| `Console` | the page, and the demo behind it | the five above |
| `ConsoleProofs` | the theorems about polls, drawer, forms, palette and demo | `Console`, `DataInduction` |
| `DataInduction` | lemmas: induction and recursion stated with sets, sums, lists and filters | `Filters`, TLAPS |
| `MCAlertEvaluator`, `MCAlertDelivery`, `MCLiveMetrics`, `MCMemoryStore`, `MCRedisStore`, `MCAppServer`, `MCConsole` | the values of the constants of the runs | |

`AppServer`, `LiveMetrics` and `Console` put their parts side by side and let a behaviour
play with one of them, named by `scene`: the parts share Redis and the options, or the
route, the target of the drawer and what a request carries, which each part takes as an
input of its own, and no other state.
`scene` is a bound of the model, as `scenario` is in `MetricsCollectors` and `RedisStore`:
it says which of a few sets of bounds a behaviour is explored under, so that one run
answers one question over all of them.

### AlertEvaluator

`passes[p]` is an activation of `evaluateOnce`: where it is suspended (`reading` is the
await of `evaluateRule`, `delivering` that of `deliver`), the `now` it captured and the
rule it is at. There is room for two, so that an overlap would be seen. `RuleEvaluated`
is all the code from the answer of a read to the next await: `decide`, `states.set`, and
the POST leaving or the loop moving on. The sample a rule is evaluated from is any of a
given set; `RuleFails` is a read that throws. A delivery always settles, which is what
`WebhookDelivery` shows of it. `lastSent` is an observer: the last notification of each
rule, with the time it carries (`at`) and the time it was POSTed (`sentAt`). A missing
entry of `states` is read as `INITIAL_RULE_STATE`, as both readers of the Map do.
A failure rate is a fraction `[num, den]`, compared by cross-multiplication; the floating
point of the code can differ only where two fractions are closer than a double resolves.

### WebhookDelivery

One call, with the URLs concurrent. `Arrives` is the receiver acting on a POST,
`Acknowledged` its 2xx answer, `NotOk` another answer, `ConnectionLost` and `TimesOut` a
rejected fetch. A POST that was given up before it arrived becomes a stray, which may
still arrive (`ArrivesLate`). Time advances only while no timer is due, so a bound on
`clock` is a bound on timers; the work between them takes no time in the model.

### AlertDelivery

The actions of `AlertEvaluator` with the activations of `deliverOne` that a pass awaits
beside them: `Evaluated` is `RuleEvaluated` and the first attempts leaving, and a delivery
settles when all its activations have. The times of a delivery are in `WebhookDelivery`;
here an attempt may fail at any time and the backoff is part of its failing, so the
orders of events are a superset of those that the timers allow. `wire` holds the POSTs
that have not arrived; one whose attempt was given up is `late` and may arrive at any
time, or never. `heard` is what a receiver has been told of each rule last.

### MetricsCollectors

A collector is named by the call that made it and its queue. `Listed` is the code after
`await registry.listQueueNames()`: the filter by the Map and `start()` of all new
collectors up to its await; `Ready` is one `waitUntilReady` resolving, which fills the
Map and may settle the call. `StartFails` rejects the call at once, as `Promise.all`
does, and leaves its other collectors connecting. The collector that failed is neither
closed nor kept (app.ts:433-434), so the `QueueEvents` and the `Queue` that its
constructor opened (metrics-collector.ts:32-33) stay open for ever: `Connected` counts it,
and `close()` does not find it. It hears no events, since the reader of a `QueueEvents`
waits for the connection that was refused. `scenario.wait` constrains the callers:
with FALSE they call whenever they like, as the rescan of the standalone server does;
with TRUE they let earlier calls settle, and the rest of the properties can be asked.
`onFinished` hands an event to the store, which counts it or fails the write
(`unwritten`). What a collector's two `close` calls do is one step.
After `close()` has begun nobody calls `startMetrics`: the standalone server clears its
interval first. Reconnecting and workers are BullMQ's; a job's event goes to every
collector that is live on its queue.

### EventIngestion

`hash` is what Redis has of a job, `stream` the events the reader has not come to, and
`reads` and `replies` the calls of `getJob` on either side of their execution. Between any
two of these a worker, a retry or a removal may act on the job. These are external: one
script of BullMQ each, modelled from what the handlers and job actions rely on. `run` of an
event is an observer: the number of the finish it is about. A read that fails resolves
without a job (metrics-collector.ts:60), which is one of the choices of `getJob`. Reasons
are names; `SignatureOf` says what is left of each when it is normalised.

`Write` is `await store.write(...)` with both of its ends. It rejects when a label of the
event is refused (`assertPersistable`, metrics-store.ts:44: an empty name of a job, or one
of more than 256 characters; signatures are cut before, and queue names are taken to be
labels) and it may fail in Redis (`store.fails`), before anything or in the middle of its
pipeline. Nobody awaits a handler, so the event is not written again; `unheld` remembers
it, to tell a failed write from a finish that was forgotten.

### MemoryStore

A Map is a sequence in insertion order, because the choice of a victim depends on it. A
write is one step: Node does not interrupt it. The value of a bucket counts observations.
`written` is an observer from which the reference values are computed; they are defined
from the events alone (`CountsIn`), not from the records. Exactness is asked of what fits
under the cap on series (`Fit`), and there a window that is not aligned with the buckets
is wrong by less than one bucket at either end (`WindowWithinABucket`), which is what the
failure rate and latency rules read; beyond the cap, `DropsLeastRecent` says what goes: a series
or marker leaves for its age, or because it is the least recent at the cap, and nothing
that a write has just touched leaves with it. Records with invalid labels, which
`assertPersistable` refuses before anything changes, are not enumerated.

### RedisStore

`index`, `zsets` and `buckets` are the three families of keys of redis-store.ts:68-72,
each with its expiry. `write` sends the pipeline of one event; `Executes` is Redis
executing its next command, so that commands of two replicas interleave as they do
without a transaction, and `Dies` cuts a pipeline short (a resend by the client library
after a broken connection is not modelled). A query is one `smembers`, then per series a
`zrangebyscore` and one `get` per bucket, each a step; a query names its queue, as every
caller in `app.ts` makes it do, so the SCAN of redis-store.ts:241 is left out. An event is heard by every replica
(`Happens`: each has collectors of its own) and written by each when it comes to it, in
any order and however late. What the buckets should hold is `Observed`, computed from the
events as in `MemoryStore` (`CountsIn` is shared), so that the two stores are held to the
same meaning.

Time does not advance while a pipeline of an event is under way. This excludes a race of the code
that needs a key to reach its expiry, after a whole retention without a write, in the
instant between the command that touches it and the `pexpire` that follows. The clocks of
workers and of Redis are one clock.

### RedisMarkers

A scenario of `RedisStore` without events: no key is shared with the series, only the clock.

The set of ids, scored by the times of the markers, and one string per marker. Recording
is a pipeline of four commands that interleaves with another's and may be cut short;
a query reads the ids and then the strings. Here time does advance inside a pipeline, so
the expiry of the set can fall between the `zadd` and the `pexpire` of a marker, which is
then lost: once a retention has passed without a deploy. `FindsWhatWasRecorded` excepts
this case and that of a marker dated a retention ahead, which prunes the others. Time
before the first expiry is set is not explored, since nothing depends on it.

### QueueRegistry

`cached` is the three caches; an instance of a kind has a number, so that a connection
that the caches have forgotten is still seen to be open. A request is suspended at its
Redis commands (`exists` of the meta hash, the pages of `SCAN`); everything up to the
next one is a step, opening the connections it needs. A page is any set of keys, and may
repeat keys; a scan ends when every key that stays has been on a page. `close()` tells
all queues to close, waits for them, empties the Map, and goes on to the flow producer
and the admin client; a request or a second `close()` may come anywhere in between.

### JobActions

A request is a program counter over the calls of `actions.ts`: `getJob`, `getState` (of
a replay), `add`, `command`. Each is one script of Redis, and workers, the clock and the
other requests run between any two. `ConnectionLost` leaves the server without the
answer, the command executed or not. `did` and `added` are observers: what the commands
of a request did to Redis, against which its answer is held. What `retry`, `promote` and
`remove` of BullMQ want of a job's state is modelled from their use and is external; the
removal of a job that is gone by then is taken to fail.

### JobSearch and PayloadMask

`searchJobs` is one turn of the loop over states, a `getJobs` from the newest job on;
`Move` takes a job from the list of one state to the head of another between two turns.
BullMQ's `getJobs` reads the ids and then each job; it is one step here, so that a job is
not removed in between. The samples of failed jobs come from one read and are an operator. A payload is a
function from the paths of its leaves to values. `MaskedAt` follows `maskNode`: the set
of live patterns advances from key to key. `Takes` is the reference, taken from the
grammar the comment of `mask.ts` gives and not from the code. Payload, patterns and query
are the initial states, and the steps change fields of the payload.

### UsePoll, SearchForms, CommandPalette, JobDrawer

A request is a record; `Served` is the server answering it, with the version of the queue
at that time, and `Settles` is its continuation in the page. An effect's clean-up marks
the request before as cancelled and aborts it; an aborted plain fetcher rejects, and one
that gathers the answers of several queues catches that and resolves with none of them.
`version` is the history of a queue, so that "older" has a meaning; its parity says
whether it is paused, which is what the toggle of the screen shows. In `SearchForms` a
run is neither cancelled nor aborted by the next one, as in the code. `JobDrawer` keeps
the text of the replay form with the job it was taken from, to tell whose payload is
sent where.

### DemoBackend

`samples`, `counts`, `byId`, `paused` and `idSeq` are the variables of `mock.ts`; a call
waits in `pending` until its delay has passed or its signal aborts it, and is then one
step. What distinguishes states in a job's fields is kept, payloads and times are not.
The state of a job that is made up to answer for an unknown id is drawn from a hash in
the code, and from a fixed function of the id here. `flow` is the tree of a job: the job
itself and three below it that `children` makes for the answer, under ids that no list
has (`ChildId`).

## Runs

| run | instance | shows |
|---|---|---|
| `alert_evaluator` | 3 rules, one of each type (samples above, on and below the threshold, too small, empty), 2 slots, 2 closers, clock to 5 | no overlap, snapshot and notifications agree, coherent snapshots, stable breach starts, inert after close, refinement of `AlertEpisodes`; every pass reaches its last rule and `close()` returns |
| `alert_cooldown_at_receiver` | as the first, one closer | violated: see below |
| `alert_delivery` | 2 rules, 2 slots, 1 closer, 1 URL, 2 attempts, interval 1, clock to 2 | receivers hear in order and agree with the snapshot, but for POSTs that were given up |
| `webhook_delivery` | 2 URLs, 3 attempts, timeout 3, backoff 1 and 2 | duplicates and reports account for the attempts, bounded duration, contract, termination |
| `collectors` | 2 queues, one of them discovered; 2 calls that overlap, or 3 in turn with 2 jobs each; handlers: 1 job, 2 finishes, 2 reasons of which one normalises to nothing, stores that refuse nothing, the name, or fail, clock to 3 | `CollectorsAreUp`: the Map holds started collectors, a resolved call leaves every queue covered. `CountsAndCloses`: in turn each finish reaches the store once (`EachFinishCountedOnce`); `close()` has closed what it found, and in turn only collectors whose start failed are left connected (`CloseEndsCollectors`). `CountsEveryFinish`: each finish is under way, counted once and not before it happened, or its own write failed, which only Redis or a refused name makes it do. `EventTellsOfOneRun`: it has figures of one run and its own reason |
| `collectors_rescan` | 1 queue, 2 calls | violated: see below |
| `memory_store` | 15 events at 7 times, 3 markers, 4 writes, 6 series, retention of 2 buckets | exact if all fits, classified within the total, windows within a bucket, and at the caps the least recent goes |
| `redis_store` | 2 replicas: 1 event (a counter and a histogram) written by replicas that may die, clock to 5; or 2 events, clock to 4; or 2 markers at 3 times, of all queues or of one, clock to 3; 1 query, retention 2 | nothing completed is lost, sandwiched answers and readable histograms (`ReadsAreSound`), every key expires; a query finds the markers that were recorded, for a retention |
| `redis_replicas` | 2 replicas, 1 event | violated: see below |
| `app_server` | registry: 2 queues, 1 request, 2 closers, all options; actions: 2 jobs, 2 requests, bulk lists with an id given twice; search: 3 jobs, 2 moves, budgets 1 and 2; mask: 9 lists of patterns over 4 paths | complete listings, closed connections, true answers, replays that lose nothing, complete searches, the mask against its grammar, no probing of masked fields |
| `replay_race` | the same | violated: see below |
| `console` | 2 queues, 2 tabs, 3 kinds of poll, 3 moves; forms with 2 queues and 5 runs; 6 keys in the palette; 2 jobs, 3 openings and 2 mutations of the drawer; demo: 1 queue, more failed jobs than samples, an unknown name, 1 call on the wire | old data stays only until an answer or a failure, no datum goes back, forms stay usable, the drawer acts on what it shows; a poll settles where answers come within the interval; one story in the lists, searches, samples and drawer of the demo, totals that follow the actions |

The bounds. A clock to 5 with an interval of 2 and cooldowns of 0, 2 and 3 holds a firing,
its repeat and its resolution, and a pass that outlasts two intervals; the second slot
shows any overlap, and nothing in the code counts passes. Three rules let the deliveries
of one hold up the reading of the next, and a failure in the middle. Two URLs are one that
fails and one that does not; three attempts are the code's default, and give the backoffs
that are not the last a successor. Two calls of `startMetrics` are an overlap; a third
call comes after a rejected one. For the stores, four writes reach expiry and late events
on both sides of the horizon; one failed job touches up to six series, so that the cap
falls between two writes or inside one. Two replicas with two events put two increments
into one bucket, two buckets into one series, and a late write after the keys of an
earlier one expired; replicas do the same, hence the symmetry.

Two finishes of one job are a finish, a retry and the second run before the first event is
read, which is the least that tells figures of one run from those of another; other jobs
are read and counted independently. One URL is enough where order is asked, since
receivers share nothing, and two attempts give a late first and a timely second; two
slots would show an overlap of passes. Two markers are the one that prunes and the one
that is pruned, three times with a retention of 2 put them before, at and on the limit.

For the server: a request and two closings are what `cli.ts` can bring together, and a
request may open a connection behind each step of a closing, up to two of a kind. Two
requests on two jobs are each race of one with another on the same job, and beside it.
Three jobs of which two move can be missed, or found twice, by a scan of three of the four
states, of one state twice, or of none; what moves before it is in the initial states. The lists of patterns hold every kind of segment first, last and in between,
overlapping patterns and an empty one. A pattern with `**` right after `**` is one only
if nothing else follows (`NoneInARow`): `mask.ts:58` compares the second with the key, and
what comes after it is then never reached, whatever the description says.

For the console: three moves are a navigation, a mutation and another navigation, with up
to three requests on the wire; five runs reach the doubling of the limit by "scan more"
overlapping with new searches. One call on the wire of the demo is enough, because a call
has no effect before its handler runs, and handlers run in any order anyway.

Deadlock is not checked where the system may stop: an evaluator after `close()`, a call
that has resolved, a closed app, jobs that have finished, requests that are answered, a
page that nobody touches, and a store whose bounded writes, or a demo whose ids, are spent.

Fairness. `AlertEvaluator`: the awaits of a pass settle (a Redis command answers or
fails, and a delivery ends, which `WebhookDelivery` shows), and the callback of a settled
promise runs; nothing makes anyone call `start` or `close`, and the timer is not assumed
to fire. `WebhookDelivery`: time goes on, due timers fire, a settled `Promise.all`
resolves; the network owes nothing. `Console`: the request that is current is answered or
fails, and its continuation runs; nothing makes the user do anything. `PollSettles` is
claimed only of behaviours in which an answer comes before the next tick (`inTime`). The
code does not see to this: a tick aborts the request under way, and a server that always
takes longer than the interval is never heard (a hazard at `usePoll.ts`). In the other
half of the behaviours ticks come whenever they like, and the invariants hold there too.

### What the violated runs show

- `collectors_rescan`. `startMetrics` is called idempotent (app.ts:74, cli.ts:18-20), but
  it tests the Map before it awaits a collector's start and fills it afterwards. The
  automatic call and a rescan, or two rescans while Redis is slow, both start a collector
  for one queue. From then on its jobs count twice, and the one the Map lost is not
  closed. The run `collectors` shows that calls made one after the other count once.
- `alert_cooldown_at_receiver`. `cooldownMs` is the least time between repeat
  notifications (rules.ts:21). It is measured between the starts of the passes that sent
  them: after a pass with a slow read, the repeat comes sooner. The theorem
  `EvaluatorImplementsEpisodes` says what does hold: the times the notifications carry
  are a cooldown apart.
- `replay_race`. "Only failed jobs are replayable" (actions.ts:90), but the state is read
  (actions.ts:102) before the replay is added (actions.ts:105), and nothing looks again: a
  job that is retried in between runs again itself and is replayed. `ReplayLosesNothing`
  and `AnswersTellTheTruth` say what does hold in the same races.
- `redis_replicas`. redis-store.ts:73-74 promises that replicas converge without double
  counting. `Converges` shows that no update of either is lost; but each replica tails the
  queue's events on its own and adds every job, so a job counts once per replica.

Some limits follow from the code and have no run of their own.

The stores. Below
the cap on series the classified failures are among the total (`ClassifiedWithinTotal`);
at the cap the series of the total can be evicted before that of a signature written by
the same event, for it is older in the Map and as recent. And in Redis the members of an
index outlive their series, since its TTL is renewed by every series of the metric; a key
whose write was cut before its `pexpire` has no TTL until it is written again, which is
why `KeysExpire` asks that no write was lost.

A marker that an operator dates a retention ahead removes all others (`redis-store.ts:151`).
The event of a failed job that was retried at once may be read when the job runs again:
it then counts without its run time and with the wait of the later run, and if that run
has ended, with its figures, which count again with its own event.

The server. A connection that a request opens while `close()` is under way, or after it,
is not closed (`ClosesWhatItOpened` speaks of what was open at the first call). The
repository's README (line 81) says that queues are discovered when the names are omitted;
`discover` is FALSE unless it is given (registry.ts:37).

Live metrics and alerts. A collector whose start failed stays connected until the process
ends, and so does one whose `startMetrics` overlaps with `close()` and comes up after the Map
was enumerated; a rescan adds another pair of connections for each failed start. A job
whose name is refused by `assertLabel` is counted only if its hash is gone when the event
is read, under no name; otherwise neither its start nor its finish reaches the store. The
comment that a removed job "still counts" (metrics-collector.ts:20) is true of removal; it
does not speak of failed writes. The rejection of the automatic `startMetrics` (app.ts:454) and of a
write in a handler (metrics-collector.ts:78) is handled by nobody, which ends a process
that has no handler of its own. Two rules of one id share a state and resolve each other's
alerts: nothing refuses such a configuration, and the models assume distinct ids.

The console. The toggle of a queue's screen acts on the new queue by the flag of the old
one until an answer comes; if the answer is a failure, nothing on that screen tells
(QueueDetail and its cards do not read `poll.error`), and with the live toggle off nothing
asks again, so the old data stays, and the toggle acts by it, until the user moves
(`StaleOnlyUntilAnAnswer` says how far it goes: one request for the right queue is
awaited, or has failed). A later answer of a form may be replaced by an earlier one. An arrow down in an empty list of the palette puts the selection at -1. The
form of the flows never gets its queue if it is mounted before the queues have loaded
(Flows.tsx:66). A row of the search opens with the queue that is selected then, not the
one that was searched (Search.tsx:197). A mutation that succeeds closes the drawer of
whatever job is open by then.

The demo. The header of `mock.ts` (l. 6-8) says that "ids referenced by lists, search,
failure samples and flows all resolve through the same job store". For flows this is not
so: `flow()` makes the children of a tree for that answer only (l. 847-863), their ids
(`899999-1` and the like) are in no store, and the drawer that a click on one opens
(Flows.tsx:29) shows a job that `getJob` makes up from a hash of the id (l. 671-676),
without the child's parent and often in another state: for `email` and `899999-1` a failed
job, where the tree shows a completed one. `OneStory` is about lists, searches, samples
and the drawer opened from them.

## Proofs

Each theorem holds for every value of the constants its module's assumptions allow: any
number of rules, URLs, jobs, queues, clients, calls or markers, and any value of the
bounds. Each invariant below was checked with TLC on the run of its component before it
was proved. The layout is the same everywhere: the invariant as a conjunction of named
parts, one lemma per action, one lemma for the whole next-state relation, and the theorem
by `PTL`. The sections name the properties; `PROJECT.json` names the theorem of each.

### AlertProofs: the evaluator

For every list of rules with distinct ids, every sample a read may return, any number of
slots and closers and any horizon of the clock:

- `TypeCorrect`, `PassesNeverOverlap`, `SnapshotIsWhatWasSent`, `SnapshotMakesSense`: the
  invariants of the run `alert_evaluator`;
- `BreachStartNeverMoves`, `ClosedIsInert`: its action properties;
- `EvaluatorImplementsEpisodes`: the refinement of `AlertEpisodes`.

They rest on three named assumptions of `AlertEvaluator`: rules have the type of the
configuration and reads return samples of it (`RulesAssumption`), ids are distinct
(`DistinctIds`; the code does not check this), and the interval is positive
(`ParameterAssumption`).

The argument. The properties are not inductive. That a rule's last notification is not
later than the clock survives `decide` only if the pass that decides captured its `now`
no earlier than that notification, and that is true because passes do not overlap:
`PassNotOvertaken`. That nothing happens after `close()` needs what `closed` excludes,
and that the promise `close()` awaited was the only pass under way: `ClosedMeans`.
`IInv` is the conjunction of these two and the four invariants. `InitIInv` and `NextIInv`
show it inductive, with one lemma per action. The one action that decides,
`RuleEvaluated`, is split in two: what it does to the passes (`PassMoves`), which it
shares with the silent steps, and what it does to a rule (`RuleDecided`), from which
`DecidedLemma` derives the state properties, the stability of a breach and the abstract
step at once. `EvaluateLemma` and `DecideLemma` are the facts about the pure rules.

### AlertProofs: the deliveries

`NotificationsArriveInOrder` and `ReceiversAreToldTheSnapshot`, for any URLs and any
number of attempts (`DeliveryAssumption`: at least one), with the assumptions of the
evaluator. A step of the composition is a step of the evaluator or leaves it alone
(`DeliveryNextIsNext`), so `IInv` of the evaluator is inherited. Beside it stands
`DeliveryIInv`: only the pass that delivers has attempts under way, and they are of the
last notification (`FetchesTheLast`, where the single pass of the evaluator is used); a
POST on the wire that is not late is of such an attempt (`OnTheWire`); the POST of an
attempt under way is on the wire, or was heard (`PostedOrHeard`); and the last
notification of each rule is being delivered, reported, heard, or overtaken by a late one
(`LastIsAccountedFor`), which also ties it to `lastSent`, and so through the evaluator's
invariant to the snapshot. The order of arrival follows from the first two.

### WebhookDeliveryProofs

`AttemptsAreAccountedFor` and `DeliveryImplementsContract`, for any finite set of URLs,
any configured number of attempts, also none or a negative one, and any positive timeout
and backoff. `IInv` says for each URL how many POSTs its attempts have led to, and that
what it waits for is due within the budget of its attempt. That budgets add up to the
worst case needs the backoffs to be positive numbers, and they are powers of 2:
`PowerOf2Lemma` shows the recursive function well defined, by `PrimitiveRecursion` of
`DataInduction`, and `BudgetGrows` is an induction over attempts. The refinement follows
`Told`, the outcome of a URL as the contract sees it, through one case per action.

### LiveMetricsProofs

`CollectorsAreUp`, for any finite number of calls of `startMetrics` that overlap as they
like, also with `close()`: the invariant adds what a call owes to each configured queue,
an entry of the Map or a connection of its own (`CallsIInv`), and that what `close()`
found came up before and is closed when it returns (`FoundIInv`), which is the half of
`CloseEndsCollectors` that holds of any overlap.

`CountsAndCloses`: `EachFinishCountedOnce`, and the other half of `CloseEndsCollectors`, for
calls made in turn: one call at a time is under way (`OneBusy`, also
while a rejected call still connects), a queue that had a collector has it in the Map and
is not connected again (`InTheMap`, `ConnectedOnce`), `close()` waits for all that is
live (`LiveIsClosing`), and each queue has counted, or failed to write, what finished but
for what its one collector still has in its inbox (`Accounted`). Collectors whose start
failed are in none of these, because they hear nothing. The property sums the inboxes over all
calls; `SumOfOne` of `DataInduction` says that a sum with one term is that term. That
`Calls` is finite is `CollectorsAssumption`.

`CountsEveryFinish` and `EventTellsOfOneRun`, for any jobs and reasons. A finish is in
one of four places: the stream, a read on its way, a reply, or settled, that is written
or known to have failed (`PlacesIInv`: each in one, once, and together all of them;
`UnheldIInv`: what failed is not written, and why). What is in a place is true of its run
(`TypesIInv`, whose `Events`, `Replies` and `Records` are sets of such elements): a reply
holds the times of the event's run or of a later run of the same job, because the hash has
those of its last run, or none (`HashIInv`), and runs are numbered in the order of their
ends (`RunsIInv`).

### AppServerProofs

`AnswersTellTheTruth` and `ReplayLosesNothing`, for any jobs, clients and bulk lists
(`ActionsAssumption`). `ActionsIInv` is a soundness of each request on its own (`Sound`):
in the loop, it accounts for the ids before the one it is at and has acted on its
successes; outside, its answer is true. Since a request's record is changed by itself
only, one lemma (`BecomesLemma`) serves all its actions, and workers and other clients
can only change `jobs`, of which nothing is claimed but the type. A server that is read
only has begun nothing (`ReadsOnly`).

`ListsWhatIsThere`: a scan has named what stayed, but for what it has left to visit.

`ClosesWhatItOpened`, for any number of requests and closings. Instances are numbered, and
until a `close()` has begun the open ones are those in the caches (`Numbered`); one that
was open at that time is owed until it is closed, and each `close()` waits for all that
is owed of a kind before it goes on to the next (`SoundCloser`), which is why a second
one, that finds the Map emptied, still cannot return too early.

`SearchIsComplete`, for any finite set of jobs, any lists of states (with a state twice)
and any limits. No job is in two lists or twice in one (`ListsOK`), and unless a call has
hit the budget, a job that matches and has not moved is among the results as often as its
state has been asked for so far (`FoundSoFar`): a call that brings fewer jobs than it
asked for has brought the whole list (`BatchIs`), of which the filter keeps each job once
(`KeptIs`), and a move of other jobs changes no list in what it says of this one. The
samples need nothing but that the batch is the list.

`MaskFollowsGrammar`, for any lists of patterns that are as `NoneInARow` says, and any
paths. The code advances sets of live patterns from key to key; the grammar speaks of an
assignment of the keys to the segments of one pattern. What is live at a depth is what is
left of a pattern, and some assignment has taken the keys so far (`LiveHasTaken`). The
other way, the pattern an assignment uses stays live (`TakenIsLive`): `Behind` says how
much of it is used up, where a `**` is only when the next segment takes a key, as in the
code, which tries that segment while it stands at the `**` (`BehindOn`). Here two `**`
with something after them would fail. `SearchIsNoOracle` follows: a change of fields that
are masked leaves `applyMask` the same function. Nothing is asked of the values.

### ConsoleProofs

`DrawerActsOnWhatItShows`, `StaleOnlyUntilAnAnswer`, `NeverGoesBack`,
`FormFollowsItsRuns` and `SelectionInList`, for any queues, tabs, jobs, texts and
commands, and `OneStory` and `TotalFollowsActions` for any configuration of the demo; no
fairness is used. For the drawer and the polls the invariant says that a
request that is not aborted is for what is selected (`DrawerIInv`, `CurrentIsFor`): an
effect's clean-up aborts all others. `NeverGoesBack` needs `AnswersAreNewer` beside it:
the answer a request has got is no newer than its queue and no older than the datum on
the screen, because one request at a time is current. The forms have no such clean-up,
and their invariant is about all runs (`FormIInv`). `PaletteAssumption` says that the
screens and the lists of queues are sequences of names.

The demo has one invariant for both of its properties (`DemoIInv`): of each queue the
pools are sound (`SoundPools`: a job is in one pool, once, that its fields tell, and no
count is below its pool), `byId` has their jobs and no others (`OneStore`), and `idSeq` is
below all their ids, so that a replay makes a job that no list has. That last is what
makes the first survive a replay, and it is why the ids at first have to be all different:
`MadeBeforeIs` says so of any queues, counts and limits, the order in which
`buildQueueState` counts `idSeq` down being a strict one on finitely many jobs. Every
handler changes one queue by taking a job out (`RemoveKeeps`), putting one in front of
those that wait (`AddKeeps`) or both (`WaitsAgain`), and each of these says what it does
to the sum of the counts. A search for a state looks through five pools one behind the
other (`InLine`) and keeps a stretch of them: that it is the very pool of the state is
`SearchIs`. `DemoAssumption` says that the queues have different names, that counts and
limits are natural numbers, and that `idSeq` starts no lower than there are jobs to make:
900,000 in `mock.ts`, where no queue has more than 139.

### RedisStoreProofs

`ReplicasConverge`, `QueriesReadSoundly` and `EveryKeyExpires`, for any finite set of
replicas, any bucket width and retention, and any scenario: any types of events, any number
of them, any windows asked for, with deaths or without. `RedisStoreAssumption` says that
the kinds and spans of events are those of `domain/events.ts` and that replicas are
finitely many, which the cardinalities need. The proofs run command by command:

- What is left of a pipeline is of one event, each command once, in the order of
  `Commands`, and every series of the event in turn (`PipesOK`, `InOrder`): shown of
  `Pipeline`, which flattens the records of an event, by `Flattens` of `DataInduction`.
  So what a write has done already is told by what is left of it (`Did`).
- `ExpiryComes`: an entry without a sound expiry has its `pexpire` in some pipeline. Only
  as long as no pipeline was cut short, the one thing that breaks it.
- `CanBeFound`: as far as a write within retention has come, its series is in the index,
  its bucket in the timestamps, and both last until the bucket leaves retention. Time can
  take an entry only at rest, when whatever was written has had its `pexpire`.
- `CountsAdd`: within retention a bucket holds at least every write that has executed its
  increment, and at any time at most those and the ones cut short. It is the step from one
  count to another: a command that increments adds one write to `Counted`, and
  nothing else does (`OneExecutes`).
- `TotalsFollow`: the total of a histogram is behind its buckets by as many replicas as are
  about to increment it. Those are counted, or two replicas could use the same margin.
- `QueryOK`: a bucket in the window of a query is still to be read, or was answered with at
  least what had been settled when the query began; a bucket that its index or its
  timestamps leave out had none.

The steps of the markers leave the store alone, so the invariant, proved of
`RedisStore!Spec` (`StoreSpecIInv`), holds of `RedisSpec`, which the runs check.

`RecordedMarkersAreFound`, for any markers, times, queues and retention. `InTheSet` says
that from its `zadd` on a marker's id stays in the set as long as the marker is due,
unless one dated a retention later was sent (`Unpruned`); `HasItsString` that its string
lives as long; `Reads` that a query under way has still to read, or has found, what it is
owed. The steps of the store beside the markers change none of it, and time takes away
only the keys whose expiry it has passed.

### MemoryStoreProofs

`MapsKeepTheirShape`, `AnswersAreExact`, `LeastRecentGoFirst` and `FailuresAreSound`, for
any set of events, any bucket width, retention and caps, and any number of writes.
`StoreAssumption` says that the kinds and spans of events are those of `domain/events.ts`,
that times are natural numbers, and that both caps and the bucket width are positive.
Neither the set of events nor that of markers needs to be finite.

A write is one step of the model and a loop of the code: each record of an event is
merged into its series, or makes a new one, and a new one may evict another. So the
proofs go through the Maps in the middle of a write. `PutIs` says that each comes from
the one before in one of three ways (`Puts`), and `WritesIs` that the loop is defined and
goes through Maps; the four properties are then inductions over the records.

- The inductive invariant `StoreIInv`: the Map is one, with each key once and no empty
  series; no bucket holds more than was observed (`NoMore`); and while the series fit, a
  bucket of the retention holds exactly that (`Exact`). `Exact` reckons the retention from
  the newest event, the code from the newest bucket in the Map. They are the same because
  the loop leaves the newest bucket in (`NewestIsWritten`): an eviction takes the least
  recent series, and a cap of one is no exception.
- `LeastRecentGoFirst` compares the Maps before and after a whole write, and in between a
  write may evict a series, put it back with a later record, and evict another that the
  same write has touched. `Dropped` remembers all that were evicted so far: none of
  them is more recent than a series the loop has not touched, and that is inductive.
- `FailuresAreSound` turns the sums of a query into cardinalities: what a series counts in
  a window is the number of the events it shows (`PointsIs`, by `SumOfFibres`), in windows
  of any length. An event has one signature at most, so what is classified is a disjoint
  union within the failures (`ClassifiedIsWithin`), and a window that starts or ends in the
  middle of a bucket shows the events of that bucket besides (`WindowIsWithin`).

### DataInduction

The library's induction theorems take an operator as a parameter, which the provers here
cannot instantiate. `DataInduction` states induction with a set for the property, and
recursion with a function for the step, from `WFMin` of the library: `NaturalInduction`,
`PrimitiveRecursion`, `IndexedRecursion` for a loop whose step differs each time, and
`GreatestNatural` for maxima. About sums over a finite set it has `SumExists`, `SumOfOne`,
`SumIs` and `SumOfFibres`: what a function counts, summed, is how many there are.
`Flattens` says what `FlattenSeq` of the community modules makes of a sequence of
sequences, and `OnlyIs` that a filter keeps the places it is told to keep, in order;
`KeptIs` and `StretchIs` say what that makes of a list in which nothing is twice, and of a
list of which one stretch stays. `SumChanges` says that a sum changes by as much as the
one term in it that does.

### Only model-checked

- Liveness: `PassesAndCloseEnd`, `AlwaysResolves`, `PollSettles`. Fairness and ENABLED are
  beyond the prover.
- The properties of the violated runs, which do not hold.

## Plan

What is left: histograms, timings and the trend of failures as operators against
reference definitions, in the form of the modules above.

## Not modelled

The framework adapters and static files (no state), configuration parsing and basic auth
(one comparison per request), the screens that only render what a poll brought (Overview,
Sidebar, Header, Alerts, Workers, the charts of Metrics), theme and density, the text of
notifications, the regular expressions that normalise error messages, labels and queue
names, and the canned data of the demo (workers, alerts, deploys, schedulers, curves),
which no operation changes.
