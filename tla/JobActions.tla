----------------------------- MODULE JobActions -----------------------------
(***************************************************************************)
(* The mutations of the HTTP API (core/src/server/app.ts, bullmq/          *)
(* actions.ts) on one queue, against its workers and one another.          *)
(*                                                                         *)
(* A mutation reads the job, perhaps its state, and then gives BullMQ one  *)
(* command after the other.  Each is one step of Redis, and anything may   *)
(* happen between two.  A connection that is lost leaves the server        *)
(* without an answer to a command that may have been executed.             *)
(***************************************************************************)
EXTENDS Integers, Sequences, SequencesExt, FiniteSets

CONSTANTS
    Ids,                \* the jobs there are
    Replays,            \* ids for the jobs that replays add
    Clients,            \* the requests, each made at most once
    Lists               \* lists of ids for a bulk request: in any order, with
                        \* ids given twice

ASSUME ActionsAssumption ==
    /\ Ids \cap Replays = {}
    /\ Lists \subseteq Seq(Ids)

VARIABLES
    readOnly,
    jobs,               \* [id -> its state in BullMQ]
    paused,
    requests            \* [client -> its request]

actionVars == <<readOnly, jobs, paused, requests>>

-----------------------------------------------------------------------------
JobStates == {"absent", "waiting", "active", "completed", "failed", "delayed"}
Bulk == {"bulkRetry", "bulkRemove"}

\* How far a request is (`pc`, and its position in the list of ids), the lists
\* of its successes and failures, its answer, and what it has done: the jobs it
\* acted on and the one it added.
NoRequest ==
    [op |-> "none", ids |-> <<>>, removeOriginal |-> FALSE, pc |-> "idle", at |-> 1,
     succeeded |-> <<>>, failed |-> <<>>, status |-> 0, did |-> {}, added |-> {}]

ActionsInit ==
    /\ readOnly \in BOOLEAN
    /\ jobs \in [Ids \cup Replays -> {"absent", "waiting", "delayed", "failed"}]
    /\ \A i \in Ids \cup Replays : jobs[i] = "absent" <=> i \in Replays
    /\ paused = FALSE
    /\ requests = [c \in Clients |-> NoRequest]

IdOf(r) == r.ids[r.at]
Answer(r, status) == [r EXCEPT !.pc = "done", !.status = status]

\* The loop of runBulk goes on to the next id; a single action has but one.
Onward(r) == IF r.at < Len(r.ids) THEN [r EXCEPT !.pc = "getJob", !.at = @ + 1]
                                  ELSE Answer(r, 200)
Succeed(r) == Onward([r EXCEPT !.succeeded = Append(@, IdOf(r))])
\* Mutant: a failure ends the loop.
Fail_EndsLoop(r, status) ==
    IF r.op \in Bulk THEN Answer([r EXCEPT !.failed = Append(@, IdOf(r))], 200)
                     ELSE Answer(r, status)

\* The catch of runBulk, or mapDomainError.
Fail(r, status) == IF r.op \in Bulk THEN Onward([r EXCEPT !.failed = Append(@, IdOf(r))])
                                    ELSE Answer(r, status)

-----------------------------------------------------------------------------
\* resolve() and assertWritable(), then the loop.
Begins(c, r) ==
    /\ requests[c] = NoRequest
    /\ \E known \in BOOLEAN :
          requests' = [requests EXCEPT ![c] =
             CASE ~known -> Answer(r, 404)
               [] known /\ readOnly -> Answer(r, 403)
               [] known /\ ~readOnly /\ r.ids = <<>> -> Answer(r, 200)
               [] OTHER -> [r EXCEPT !.pc = "getJob"]]
    /\ UNCHANGED <<readOnly, jobs, paused>>

\* retryJob, promoteJob, removeJob and replayJob of one job.
mutate(c) ==
    \E op \in {"retry", "promote", "remove", "replay"}, i \in Ids, remove \in BOOLEAN :
       /\ remove => op = "replay"
       /\ Begins(c, [NoRequest EXCEPT !.op = op, !.ids = <<i>>, !.removeOriginal = remove])

runBulk(c) ==
    \E op \in Bulk, l \in Lists : Begins(c, [NoRequest EXCEPT !.op = op, !.ids = l])

At(c, pc) == requests[c].pc = pc
Becomes(c, r) == requests' = [requests EXCEPT ![c] = r]

\* requireJob().
getJob(c) ==
    /\ At(c, "getJob")
    /\ LET r == requests[c]
       IN  Becomes(c, IF jobs[IdOf(r)] = "absent" THEN Fail(r, 404)
                      ELSE [r EXCEPT !.pc = IF r.op = "replay" THEN "getState" ELSE "command"])
    /\ UNCHANGED <<readOnly, jobs, paused>>

\* Mutant: the original is removed first.
getState_RemovesFirst(c) ==
    /\ At(c, "getState")
    /\ LET r == requests[c]
       IN  Becomes(c, IF jobs[IdOf(r)] # "failed" THEN Fail(r, 409)
                      ELSE [r EXCEPT !.pc = IF r.removeOriginal THEN "command" ELSE "add"])
    /\ UNCHANGED <<readOnly, jobs, paused>>

\* The replay of a job that is not failed is refused.
getState(c) ==
    /\ At(c, "getState")
    /\ LET r == requests[c]
       IN  Becomes(c, IF jobs[IdOf(r)] # "failed" THEN Fail(r, 409) ELSE [r EXCEPT !.pc = "add"])
    /\ UNCHANGED <<readOnly, jobs, paused>>

\* queue.add with the new payload and the options that are carried over.
Add(c, answered) ==
    /\ At(c, "add")
    /\ \E j \in Replays :
          /\ jobs[j] = "absent" /\ \A d \in Clients : j \notin requests[d].added
          /\ jobs' = [jobs EXCEPT ![j] = "waiting"]
          /\ LET r == [requests[c] EXCEPT !.added = {j}]
             IN  Becomes(c, CASE ~answered -> Fail(r, 500)
                              [] answered /\ r.removeOriginal -> [r EXCEPT !.pc = "command"]
                              [] OTHER -> Succeed(r))
    /\ UNCHANGED <<readOnly, paused>>
add(c) == Add(c, TRUE)

\* What BullMQ does on a job: retry() wants it failed, promote() delayed, and
\* remove() not in the hands of a worker.
Command(r) == CASE r.op \in {"retry", "bulkRetry"} -> "retry"
                [] r.op = "promote" -> "promote"
                [] OTHER -> "remove"
CanDo(r) == CASE Command(r) = "retry" -> jobs[IdOf(r)] = "failed"
              [] Command(r) = "promote" -> jobs[IdOf(r)] = "delayed"
              [] OTHER -> jobs[IdOf(r)] \notin {"active", "absent"}
After(r) == [jobs EXCEPT ![IdOf(r)] = IF Command(r) = "remove" THEN "absent" ELSE "waiting"]
Done(r) == [r EXCEPT !.did = @ \cup {IdOf(r)}]

command(c) ==
    /\ At(c, "command")
    /\ LET r == requests[c]
       IN  IF CanDo(r)
           THEN /\ jobs' = After(r) /\ Becomes(c, Succeed(Done(r)))
           ELSE /\ UNCHANGED jobs /\ Becomes(c, Fail(r, 500))
    /\ UNCHANGED <<readOnly, paused>>

\* The connection is lost under a read, or under a command that was executed
\* or was not.
ConnectionLost(c) ==
    /\ \/ /\ requests[c].pc \in {"getJob", "getState", "add", "command"}
          /\ UNCHANGED jobs /\ Becomes(c, Fail(requests[c], 500))
       \/ /\ At(c, "command") /\ CanDo(requests[c])
          /\ jobs' = After(requests[c]) /\ Becomes(c, Fail(Done(requests[c]), 500))
       \/ Add(c, FALSE)
    /\ UNCHANGED <<readOnly, paused>>

\* pauseQueue, resumeQueue and cleanQueue: one command each.
setPaused(c) ==
    /\ requests[c] = NoRequest
    /\ IF readOnly
       THEN UNCHANGED paused /\ Becomes(c, Answer(NoRequest, 403))
       ELSE paused' \in BOOLEAN /\ Becomes(c, Answer(NoRequest, 200))
    /\ UNCHANGED <<readOnly, jobs>>

\* A state that is none is refused before anything else.
cleanQueue(c) ==
    /\ requests[c] = NoRequest
    /\ \E state \in JobStates \ {"absent"} :
          IF readOnly
          THEN UNCHANGED jobs /\ Becomes(c, Answer(NoRequest, 403))
          ELSE \E gone \in SUBSET {i \in DOMAIN jobs : jobs[i] = state} :
                  /\ jobs' = [i \in DOMAIN jobs |-> IF i \in gone THEN "absent" ELSE jobs[i]]
                  /\ Becomes(c, Answer([NoRequest EXCEPT !.did = gone], 200))
    /\ UNCHANGED <<readOnly, paused>>

\* The workers, and the clock.
Worker(i) ==
    /\ \/ jobs[i] = "waiting" /\ ~paused /\ jobs' = [jobs EXCEPT ![i] = "active"]
       \/ /\ jobs[i] = "active"
          /\ \E s \in {"completed", "failed", "delayed"} : jobs' = [jobs EXCEPT ![i] = s]
       \/ jobs[i] = "delayed" /\ jobs' = [jobs EXCEPT ![i] = "waiting"]
    /\ UNCHANGED <<readOnly, paused, requests>>

ActionsNext ==
    \/ \E c \in Clients :
          \/ mutate(c) \/ runBulk(c) \/ setPaused(c) \/ cleanQueue(c)
          \/ getJob(c) \/ getState(c) \/ add(c) \/ command(c) \/ ConnectionLost(c)
    \/ \E i \in DOMAIN jobs : Worker(i)

-----------------------------------------------------------------------------
(***************************************************************************)
(* A client can rely on its answer.  A refusal (403, 404, 409) has done    *)
(* nothing at all, whatever changed between two steps; a success has done  *)
(* what was asked; and a bulk answer accounts for every id it was given,   *)
(* with nothing among the successes that was not done.                     *)
(***************************************************************************)
AnswersTellTheTruth ==
    \A c \in Clients :
       LET r == requests[c]
       IN  /\ r.status \in {403, 404, 409} => r.did = {} /\ r.added = {}
           /\ readOnly => r.did = {} /\ r.added = {} /\ ~paused
           /\ (r.status = 200 /\ r.ids # <<>>) =>
                 /\ Len(r.succeeded) + Len(r.failed) = Len(r.ids)
                 /\ ToSet(r.succeeded) \cup ToSet(r.failed) = ToSet(r.ids)
                 /\ r.op = "replay" => r.added # {}
                 /\ (r.op # "replay" \/ r.removeOriginal) => ToSet(r.succeeded) \subseteq r.did

(***************************************************************************)
(* A replay that is cut off anywhere, by a failure or the death of the     *)
(* server, never leaves neither the original nor the job that replaces it: *)
(* it removes the one after it has added the other.                        *)
(***************************************************************************)
ReplayLosesNothing ==
    \A c \in Clients :
       requests[c].op = "replay" /\ requests[c].did # {} => requests[c].added # {}

(***************************************************************************)
(* "Only failed jobs are replayable" (actions.ts:90): a job is failed when *)
(* its replay is added.                                                    *)
(***************************************************************************)
OnlyFailedAreReplayed ==
    [][\A c \in Clients :
         (requests[c].op = "replay" /\ requests'[c].added # requests[c].added)
            => jobs[IdOf(requests[c])] = "failed"]_actionVars
=============================================================================
