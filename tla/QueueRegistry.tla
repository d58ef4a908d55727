---------------------------- MODULE QueueRegistry ----------------------------
(***************************************************************************)
(* The connections the dashboard holds (core/src/bullmq/registry.ts): one  *)
(* BullMQ queue per name, the flow producer and the client for SCANs, all  *)
(* opened when first needed; how a request finds the queues (resolve and   *)
(* the listings of server/app.ts); and close(), which may run while        *)
(* requests are under way and, on two signals, twice (standalone/cli.ts).  *)
(***************************************************************************)
EXTENDS Integers, FiniteSets

CONSTANTS
    Names,              \* the names of queues
    Callers,            \* the requests, each made at most once
    Closers,            \* the calls of close()
    MaxMade,            \* bound of the model: connections opened of a kind
    MaxAppear           \* bound of the model: changes of the queues in Redis

ASSUME RegistryAssumption ==
    Names \cap {"flow", "admin"} = {} /\ {MaxMade, MaxAppear} \subseteq Nat

VARIABLES
    explicit, discover, given,  \* the options: names, SCAN, and whether the
                                \* connection is a live client
    meta,               \* the queues whose meta hash is in Redis
    cached,             \* [kind -> the number of its instance, 0 for none]
    made,               \* [kind -> how many instances were made]
    open,               \* the instances that are open
    calls, closers,
    owed,               \* what was open when the registry was first closed
    appeared            \* bound: changes of `meta` so far

registryConfig == <<explicit, discover, given>>
registryVars == <<registryConfig, meta, cached, made, open, calls, closers, owed, appeared>>

-----------------------------------------------------------------------------
Kinds == Names \cup {"flow", "admin"}

\* `stayed` and `seen`: the queues that were in Redis all the time since a scan
\* began, and at some time.
NoCall == [pc |-> "idle", name |-> "none", flow |-> FALSE, left |-> {}, found |-> {},
           stayed |-> {}, seen |-> {}]

Ended(pc) == [NoCall EXCEPT !.pc = pc]

RegistryInit ==
    /\ explicit \in SUBSET Names /\ discover \in BOOLEAN /\ given \in BOOLEAN
    /\ meta \in SUBSET Names
    /\ cached = [k \in Kinds |-> 0] /\ made = cached /\ open = {}
    /\ calls = [c \in Callers |-> NoCall]
    /\ closers = [d \in Closers |-> [pc |-> "idle", waits |-> {}]]
    /\ owed = {} /\ appeared = 0

Instance(k) == <<k, cached[k]>>

\* What getQueue, getFlowProducer and admin() have to open: nothing that is
\* cached, and no client where the options gave a live one.
Missing(kinds) == {k \in kinds : cached[k] = 0 /\ ~(k = "admin" /\ given)}

Opens(kinds) ==
    LET new == Missing(kinds)
    IN  /\ \A k \in new : made[k] < MaxMade
        /\ made' = [k \in Kinds |-> IF k \in new THEN made[k] + 1 ELSE made[k]]
        /\ cached' = [k \in Kinds |-> IF k \in new THEN made[k] + 1 ELSE cached[k]]
        /\ open' = open \cup {<<k, made[k] + 1>> : k \in new}

CallBecomes(c, call) ==
    /\ calls' = [calls EXCEPT ![c] = call]
    /\ UNCHANGED <<registryConfig, meta, closers, owed, appeared>>

\* resolve() found the queue: it is opened, and the flow producer where the
\* route needs it.
Found(call) == Opens({call.name} \cup (IF call.flow THEN {"flow"} ELSE {}))

\* isAllowed: of the explicit names without a look into Redis; else only when
\* queues are discovered, and are there.
resolve(c) ==
    /\ calls[c].pc = "idle"
    /\ \E name \in Names, flow \in BOOLEAN :
          LET call == [NoCall EXCEPT !.name = name, !.flow = flow]
          IN  \/ /\ name \in explicit
                 /\ Found(call) /\ CallBecomes(c, Ended("done"))
              \/ /\ name \notin explicit /\ ~discover
                 /\ UNCHANGED <<cached, made, open>> /\ CallBecomes(c, Ended("refused"))
              \/ /\ name \notin explicit /\ discover
                 /\ Opens({"admin"}) /\ CallBecomes(c, [call EXCEPT !.pc = "exists"])

queueExists(c) ==
    /\ calls[c].pc = "exists"
    /\ IF calls[c].name \in meta
       THEN Found(calls[c]) /\ CallBecomes(c, Ended("done"))
       ELSE UNCHANGED <<cached, made, open>> /\ CallBecomes(c, Ended("refused"))

\* The listings: GET /api/queues and /metrics open every queue they name.
listQueueNames(c) ==
    /\ calls[c].pc = "idle"
    /\ IF discover
       THEN /\ Opens({"admin"})
            /\ CallBecomes(c, [NoCall EXCEPT !.pc = "scan", !.left = Names,
                                             !.stayed = meta, !.seen = meta])
       ELSE Opens(explicit) /\ CallBecomes(c, [NoCall EXCEPT !.pc = "listed"])

\* Mutant: the first page is taken for all of it.
Covered_AtOnce(left, page) == {}

\* One SCAN: a page of the key space, where keys come again but none that
\* stays is left out.  The cursor is "0" when nothing is left.
Covered(left, page) == left \ page

discoverQueueNames(c) ==
    /\ calls[c].pc = "scan"
    /\ \E page \in SUBSET Names :
          LET call == [calls[c] EXCEPT !.left = Covered(@, page), !.found = @ \cup (page \cap meta)]
          IN  /\ page \cap calls[c].left # {}
              /\ IF call.left = {}
                 THEN /\ Opens(explicit \cup call.found)
                      /\ CallBecomes(c, [call EXCEPT !.pc = "listed"])
                 ELSE Opens({"admin"}) /\ CallBecomes(c, call)

\* A command is rejected: by Redis, or by a client that was closed.
Rejected(c) ==
    /\ calls[c].pc \in {"exists", "scan"}
    /\ CallBecomes(c, Ended("failed"))
    /\ UNCHANGED <<cached, made, open>>

\* A pass of the evaluator opens the queues of its rules; none runs once
\* close() has waited for the evaluator.
ruleQueue ==
    /\ \A d \in Closers : closers[d].pc \in {"idle", "evaluator"}
    /\ \E name \in Names : Opens({name})
    /\ UNCHANGED <<registryConfig, meta, calls, closers, owed, appeared>>

\* The first job of a queue is added, or the queue is obliterated.
Appears ==
    /\ appeared < MaxAppear /\ appeared' = appeared + 1
    /\ \E name \in Names :
          meta' = IF name \in meta THEN meta \ {name} ELSE meta \cup {name}
    /\ calls' = [c \in Callers |-> IF calls[c].pc = "scan"
                                   THEN [calls[c] EXCEPT !.stayed = @ \cap meta', !.seen = @ \cup meta']
                                   ELSE calls[c]]
    /\ UNCHANGED <<registryConfig, cached, made, open, closers, owed>>

-----------------------------------------------------------------------------
CloserBecomes(d, pc, waits) ==
    /\ closers' = [closers EXCEPT ![d] = [pc |-> pc, waits |-> waits]]
    /\ UNCHANGED <<registryConfig, meta, made, open, calls, appeared>>

\* App.close: the evaluator and the collectors first.
closeApp(d) ==
    /\ closers[d].pc = "idle"
    /\ CloserBecomes(d, "evaluator", {}) /\ UNCHANGED <<cached, owed>>

\* Mutant: the queues are told, and not waited for.
close_NotAwaited(d) ==
    /\ closers[d].pc = "evaluator"
    /\ owed' = IF \A e \in Closers : closers[e].pc \in {"idle", "evaluator"} THEN open ELSE owed
    /\ CloserBecomes(d, "queues", {})
    /\ UNCHANGED cached

\* registry.close: every queue is told to close.
close(d) ==
    /\ closers[d].pc = "evaluator"
    /\ owed' = IF \A e \in Closers : closers[e].pc \in {"idle", "evaluator"} THEN open ELSE owed
    /\ CloserBecomes(d, "queues", {Instance(n) : n \in {n \in Names : cached[n] # 0}})
    /\ UNCHANGED cached

Closed(instance) ==
    /\ \E d \in Closers : instance \in closers[d].waits
    /\ open' = open \ {instance}
    /\ UNCHANGED <<registryConfig, meta, cached, made, calls, closers, owed, appeared>>

Waited(d, pc) == closers[d].pc = pc /\ closers[d].waits \cap open = {}
Empties(kinds) == cached' = [k \in Kinds |-> IF k \in kinds THEN 0 ELSE cached[k]]

QuitAdmin(d) ==
    IF ~given /\ cached["admin"] # 0
    THEN CloserBecomes(d, "admin", {Instance("admin")})
    ELSE CloserBecomes(d, "done", {})

queuesClosed(d) ==
    /\ Waited(d, "queues")
    /\ Empties(Names) /\ UNCHANGED owed
    /\ IF cached["flow"] # 0
       THEN CloserBecomes(d, "flow", {Instance("flow")})
       ELSE QuitAdmin(d)

flowClosed(d) ==
    /\ Waited(d, "flow")
    /\ Empties({"flow"}) /\ UNCHANGED owed /\ QuitAdmin(d)

\* QUIT is answered, or the client is disconnected.
adminClosed(d) ==
    /\ Waited(d, "admin")
    /\ Empties({"admin"}) /\ UNCHANGED owed /\ CloserBecomes(d, "done", {})

\* One queue or the flow producer fails to close: so does close(), at once.
CloseRejects(d) ==
    /\ closers[d].pc \in {"queues", "flow"}
    /\ CloserBecomes(d, "rejected", closers[d].waits) /\ UNCHANGED <<cached, owed>>

RegistryNext ==
    \/ \E c \in Callers :
          resolve(c) \/ queueExists(c) \/ listQueueNames(c) \/ discoverQueueNames(c) \/ Rejected(c)
    \/ ruleQueue \/ Appears
    \/ \E d \in Closers :
          \/ closeApp(d) \/ close(d) \/ queuesClosed(d) \/ flowClosed(d) \/ adminClosed(d)
          \/ CloseRejects(d)
    \/ \E i \in open : Closed(i)

-----------------------------------------------------------------------------
(***************************************************************************)
(* A listing that discovers names every queue that was in Redis all the    *)
(* while, and none that never was: SCAN gives its keys in pages, in no     *)
(* order and more than once, while queues come and go.                     *)
(***************************************************************************)
ListsWhatIsThere ==
    \A c \in Callers :
       (calls[c].pc = "listed" /\ discover) =>
          /\ calls[c].stayed \subseteq calls[c].found
          /\ calls[c].found \subseteq calls[c].seen

(***************************************************************************)
(* Requests that overlap share one connection of a kind; and a close()     *)
(* that returns has closed every connection that was open when it was      *)
(* first called, a second close() at the same time or not.                 *)
(***************************************************************************)
ClosesWhatItOpened ==
    /\ (\A d \in Closers : closers[d].pc = "idle") =>
          \A k \in Kinds : Cardinality({n \in 1..MaxMade : <<k, n>> \in open}) <= 1
    /\ \A d \in Closers : closers[d].pc = "done" => owed \cap open = {}
=============================================================================
