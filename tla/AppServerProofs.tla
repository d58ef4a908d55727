--------------------------- MODULE AppServerProofs ---------------------------
(***************************************************************************)
(* The safety of the parts of AppServer, for every set of jobs, queues and *)
(* requests: what a client can rely on when it has an answer to a mutation *)
(* (JobActions), what the registry lists, shares and closes                *)
(* (QueueRegistry), what a search finds (JobSearch), and what of a payload *)
(* it may not tell (PayloadMask).                                          *)
(***************************************************************************)
EXTENDS AppServer, DataInduction, FiniteSetTheorems, SequenceTheorems, TLAPS

-----------------------------------------------------------------------------
(* JobActions: the inductive invariant. *)

Statuses == {0, 200, 403, 404, 409, 500}
RequestType ==
    [op : {"none", "retry", "promote", "remove", "replay"} \cup Bulk,
     ids : Seq(Ids), removeOriginal : BOOLEAN,
     pc : {"idle", "getJob", "getState", "add", "command", "done"}, at : Nat \ {0},
     succeeded : Seq(Ids), failed : Seq(Ids), status : Statuses,
     did : SUBSET (Ids \cup Replays), added : SUBSET Replays]

\* The first n ids have each led to a success or to a failure.
AccountFor(ids, succeeded, failed, n) ==
    /\ Len(succeeded) + Len(failed) = n
    /\ ToSet(succeeded) \cup ToSet(failed) = {ids[i] : i \in 1..n}
Accounts(r, n) == AccountFor(r.ids, r.succeeded, r.failed, n)

Underway(r) == r.pc \in {"getJob", "getState", "add", "command"}

\* A request in the loop of runBulk, or at its only id, accounts for the ids
\* before the one it is at, and has acted on its successes.
InLoop(r) ==
    /\ r \in RequestType /\ r.status = 0 /\ r.op # "none" /\ r.at <= Len(r.ids)
    /\ Accounts(r, r.at - 1)
    /\ r.op \notin Bulk => Len(r.ids) = 1
    /\ r.op # "replay" => ToSet(r.succeeded) \subseteq r.did
    /\ r.op = "replay" /\ r.did # {} => r.added # {}

\* It has done nothing until it gives its first command, and the command of a
\* replay that is not its first removes the original of a job it has added.
SoundUnderway(r) ==
    /\ InLoop(r)
    /\ r.op \notin Bulk /\ r.pc # "command" => r.did = {} /\ r.added = {}
    /\ r.pc \in {"getState", "add"} => r.op = "replay"
    /\ r.op = "replay" /\ r.pc = "command" => r.added # {} /\ r.removeOriginal = TRUE

\* What an answer says is true.
SoundAnswer(r) ==
    /\ r.status \in {403, 404, 409} => r.did = {} /\ r.added = {}
    /\ (r.status = 200 /\ r.ids # <<>>) =>
          /\ Accounts(r, Len(r.ids))
          /\ r.op = "replay" => r.added # {}
          /\ (r.op # "replay" \/ r.removeOriginal = TRUE) => ToSet(r.succeeded) \subseteq r.did

Sound(r) ==
    /\ r \in RequestType
    /\ r.op = "replay" /\ r.did # {} => r.added # {}
    /\ Underway(r) => SoundUnderway(r)
    /\ SoundAnswer(r)

\* A server that only reads has begun nothing.
ReadsOnly ==
    readOnly = TRUE =>
       /\ paused = FALSE
       /\ \A c \in Clients :
             /\ ~Underway(requests[c])
             /\ requests[c].did = {} /\ requests[c].added = {}

ActionsIInv ==
    /\ readOnly \in BOOLEAN /\ paused \in BOOLEAN
    /\ jobs \in [Ids \cup Replays -> JobStates]
    /\ requests \in [Clients -> RequestType]
    /\ \A c \in Clients : Sound(requests[c])
    /\ ReadsOnly

-----------------------------------------------------------------------------
(* JobActions: what the operators on a request do to a sound one. *)

\* A sequence of ids with one more at its end.
LEMMA AppendLemma ==
    ASSUME NEW s \in Seq(Ids), NEW i \in Ids
    PROVE  /\ Append(s, i) \in Seq(Ids) /\ Len(Append(s, i)) = Len(s) + 1
           /\ ToSet(Append(s, i)) = ToSet(s) \cup {i}
<1> DEFINE t == Append(s, i)
<1>1. t \in Seq(Ids) /\ Len(t) = Len(s) + 1
  OBVIOUS
<1>2. /\ DOMAIN s = 1..Len(s) /\ DOMAIN t = 1..(Len(s) + 1)
      /\ t[Len(s) + 1] = i /\ \A k \in 1..Len(s) : t[k] = s[k]
  OBVIOUS
<1> HIDE DEF t
<1>3. Len(s) \in Nat /\ 1..(Len(s) + 1) = (1..Len(s)) \cup {Len(s) + 1}
  OBVIOUS
<1>4. {t[k] : k \in 1..(Len(s) + 1)} = {s[k] : k \in 1..Len(s)} \cup {i}
  BY <1>2, <1>3
<1>5. ToSet(t) = ToSet(s) \cup {i}
  BY <1>2, <1>4 DEF ToSet
<1> QED
  BY <1>1, <1>5 DEF t

\* The ids up to a position are those before it, and the one at it.
LEMMA PrefixLemma ==
    ASSUME NEW ids \in Seq(Ids), NEW n \in 1..Len(ids)
    PROVE  /\ ids[n] \in Ids
           /\ {ids[i] : i \in 1..n} = {ids[i] : i \in 1..(n - 1)} \cup {ids[n]}
<1>1. 1..n = (1..(n - 1)) \cup {n}
  OBVIOUS
<1> QED
  BY <1>1

\* A success or a failure more accounts for the id at the position.
LEMMA AccountLemma ==
    ASSUME NEW ids \in Seq(Ids), NEW n \in 1..Len(ids),
           NEW succeeded \in Seq(Ids), NEW failed \in Seq(Ids),
           AccountFor(ids, succeeded, failed, n - 1)
    PROVE  /\ AccountFor(ids, Append(succeeded, ids[n]), failed, n)
           /\ AccountFor(ids, succeeded, Append(failed, ids[n]), n)
<1> DEFINE before == {ids[i] : i \in 1..(n - 1)}
           upTo == {ids[i] : i \in 1..n}
           s == Append(succeeded, ids[n])
           f == Append(failed, ids[n])
<1>1. ids[n] \in Ids /\ upTo = before \cup {ids[n]}
  BY PrefixLemma
<1>2. /\ Len(s) = Len(succeeded) + 1 /\ ToSet(s) = ToSet(succeeded) \cup {ids[n]}
      /\ Len(f) = Len(failed) + 1 /\ ToSet(f) = ToSet(failed) \cup {ids[n]}
  BY <1>1, AppendLemma
<1>3. /\ Len(succeeded) + Len(failed) = n - 1
      /\ ToSet(succeeded) \cup ToSet(failed) = before
  BY DEF AccountFor
<1>4. Len(succeeded) \in Nat /\ Len(failed) \in Nat /\ n \in Nat
  OBVIOUS
<1> HIDE DEF before, upTo, s, f
<1>5. /\ Len(s) + Len(failed) = n /\ Len(succeeded) + Len(f) = n
      /\ ToSet(s) \cup ToSet(failed) = upTo /\ ToSet(succeeded) \cup ToSet(f) = upTo
  BY <1>1, <1>2, <1>3, <1>4
<1> QED
  BY <1>5 DEF AccountFor, s, f, upTo

\* A request that has accounted for the id it is at.
Accounted(r) ==
    /\ r \in RequestType /\ r.status = 0 /\ r.op # "none" /\ r.at <= Len(r.ids)
    /\ Accounts(r, r.at)
    /\ r.op \notin Bulk => Len(r.ids) = 1
    /\ r.op = "replay" => r.added # {}
    /\ (r.op # "replay" \/ r.removeOriginal = TRUE) => ToSet(r.succeeded) \subseteq r.did

\* A request that has accounted for its ids answers truly, or goes on soundly.
LEMMA OnwardLemma ==
    ASSUME NEW r, Accounted(r)
    PROVE  Sound(Onward(r))
<1>1. CASE r.at < Len(r.ids)
  <2> DEFINE next == [r EXCEPT !.pc = "getJob", !.at = r.at + 1]
  <2>1. Onward(r) = next
    BY <1>1 DEF Onward
  <2>0. r \in RequestType
    BY DEF Accounted
  <2>a. r.at \in Nat /\ r.at + 1 \in Nat \ {0}
    BY <2>0 DEF RequestType
  <2>2. /\ next \in RequestType /\ next.pc = "getJob" /\ next.at = r.at + 1
        /\ next.op = r.op /\ next.ids = r.ids /\ next.status = r.status
        /\ next.succeeded = r.succeeded /\ next.failed = r.failed
        /\ next.did = r.did /\ next.added = r.added
    BY <2>0, <2>a DEF RequestType
  <2> HIDE DEF next
  <2>3. r.op \in Bulk /\ r.op # "replay"
    <3>1. r.at \in Nat /\ r.at >= 1 /\ Len(r.ids) \in Nat
      BY <2>0 DEF RequestType
    <3>a. \A m, n \in Nat : m >= 1 /\ m < n => n # 1
      OBVIOUS
    <3>2. Len(r.ids) # 1
      BY <1>1, <3>1, <3>a, Zenon
    <3> QED
      BY <3>2 DEF Accounted, Bulk
  <2>b. next.at - 1 = r.at /\ next.at <= Len(next.ids)
    <3>1. Len(r.ids) \in Nat
      BY <2>0 DEF RequestType
    <3> QED
      BY <1>1, <2>a, <2>2, <3>1
  <2>4. Accounts(next, next.at - 1)
    BY <2>2, <2>b DEF Accounted, Accounts
  <2>5. SoundUnderway(next)
    BY <2>2, <2>3, <2>b, <2>4 DEF Accounted, InLoop, SoundUnderway
  <2> QED
    BY <2>1, <2>2, <2>3, <2>5 DEF Accounted, Sound, SoundAnswer
<1>2. CASE ~(r.at < Len(r.ids))
  <2> DEFINE last == [r EXCEPT !.pc = "done", !.status = 200]
  <2>1. Onward(r) = last
    BY <1>2 DEF Onward, Answer
  <2>0. r \in RequestType
    BY DEF Accounted
  <2>2. /\ last \in RequestType /\ last.pc = "done" /\ last.status = 200
        /\ last.op = r.op /\ last.ids = r.ids /\ last.removeOriginal = r.removeOriginal
        /\ last.succeeded = r.succeeded /\ last.failed = r.failed
        /\ last.did = r.did /\ last.added = r.added
    <3>1. 200 \in Statuses
      BY DEF Statuses
    <3> QED
      BY <2>0, <3>1 DEF RequestType
  <2> HIDE DEF last
  <2>3. r.at = Len(r.ids)
    BY <1>2 DEF Accounted, RequestType
  <2>4. Accounts(last, Len(last.ids))
    BY <2>2, <2>3 DEF Accounted, Accounts
  <2> QED
    BY <2>1, <2>2, <2>4 DEF Accounted, Sound, SoundAnswer, Underway
<1> QED
  BY <1>1, <1>2

\* A success is of an id that was acted on, or of a replay that was added.
LEMMA SucceedLemma ==
    ASSUME NEW r, InLoop(r), r.op = "replay" => r.added # {},
           (r.op # "replay" \/ r.removeOriginal = TRUE) =>
              ToSet(r.succeeded) \cup {IdOf(r)} \subseteq r.did
    PROVE  Sound(Succeed(r))
<1> DEFINE s == [r EXCEPT !.succeeded = Append(r.succeeded, IdOf(r))]
<1>1. r.ids \in Seq(Ids) /\ r.at \in 1..Len(r.ids) /\ r.succeeded \in Seq(Ids)
      /\ r.failed \in Seq(Ids) /\ IdOf(r) = r.ids[r.at]
  BY DEF InLoop, RequestType, IdOf
<1>2. IdOf(r) \in Ids
  BY <1>1, PrefixLemma
<1>3. /\ s \in RequestType /\ s.succeeded = Append(r.succeeded, IdOf(r)) /\ s.failed = r.failed
      /\ s.op = r.op /\ s.ids = r.ids /\ s.at = r.at /\ s.status = r.status
      /\ s.removeOriginal = r.removeOriginal /\ s.did = r.did /\ s.added = r.added
  BY <1>1, <1>2, AppendLemma DEF InLoop, RequestType
<1>4. Succeed(r) = Onward(s)
  BY DEF Succeed
<1> HIDE DEF s
<1>5. Accounts(s, s.at)
  <2>1. AccountFor(r.ids, Append(r.succeeded, IdOf(r)), r.failed, r.at)
    BY <1>1, <1>2, AccountLemma DEF InLoop, Accounts
  <2> QED
    BY <1>3, <2>1 DEF Accounts
<1>6. Accounted(s)
  BY <1>1, <1>2, <1>3, <1>5, AppendLemma DEF InLoop, Accounted
<1> QED
  BY <1>4, <1>6, OnwardLemma

\* A failure of a single action is its answer; in a bulk it is one of many.
LEMMA FailLemma ==
    ASSUME NEW r, InLoop(r), NEW status \in {404, 409, 500},
           r.op \in Bulk \/ status = 500 \/ (r.did = {} /\ r.added = {})
    PROVE  Sound(Fail(r, status))
<1>0. r \in RequestType
  BY DEF InLoop
<1>1. CASE r.op \in Bulk
  <2> DEFINE s == [r EXCEPT !.failed = Append(r.failed, IdOf(r))]
  <2>1. /\ r.ids \in Seq(Ids) /\ r.at \in 1..Len(r.ids) /\ r.succeeded \in Seq(Ids)
        /\ r.failed \in Seq(Ids) /\ IdOf(r) = r.ids[r.at]
    BY <1>0 DEF InLoop, RequestType, IdOf
  <2>2. IdOf(r) \in Ids
    BY <2>1, PrefixLemma
  <2>3. /\ s \in RequestType /\ s.failed = Append(r.failed, IdOf(r)) /\ s.succeeded = r.succeeded
        /\ s.op = r.op /\ s.ids = r.ids /\ s.at = r.at /\ s.status = r.status
        /\ s.did = r.did /\ s.added = r.added
    BY <1>0, <2>1, <2>2, AppendLemma DEF RequestType
  <2>4. Fail(r, status) = Onward(s)
    BY <1>1 DEF Fail
  <2> HIDE DEF s
  <2>5. Accounts(s, s.at)
    <3>1. AccountFor(r.ids, r.succeeded, Append(r.failed, IdOf(r)), r.at)
      BY <1>0, <2>1, <2>2, AccountLemma DEF Accounts, InLoop
    <3> QED
      BY <2>3, <3>1 DEF Accounts
  <2>6. s.op # "replay"
    BY <1>1, <2>3 DEF Bulk
  <2>7. Accounted(s)
    BY <1>0, <1>1, <2>3, <2>5, <2>6 DEF Accounted, InLoop
  <2> QED
    BY <2>4, <2>7, OnwardLemma
<1>2. CASE r.op \notin Bulk
  <2> DEFINE s == [r EXCEPT !.pc = "done", !.status = status]
  <2>1. Fail(r, status) = s
    BY <1>2 DEF Fail, Answer
  <2>a. r \in RequestType /\ status \in Statuses
    BY <1>0 DEF Statuses
  <2>2. /\ s \in RequestType /\ s.pc = "done" /\ s.status = status
        /\ s.op = r.op /\ s.did = r.did /\ s.added = r.added
    BY <2>a DEF RequestType
  <2> HIDE DEF s
  <2> QED
    BY <1>2, <2>1, <2>2 DEF InLoop, Sound, SoundAnswer, Underway
<1> QED
  BY <1>1, <1>2

-----------------------------------------------------------------------------
(* JobActions: the steps. *)

\* A step on one request keeps the invariant when what becomes of the request is
\* sound, and is the refusal it should be on a server that only reads.
LEMMA BecomesLemma ==
    ASSUME ActionsIInv, NEW c \in Clients, NEW r, Becomes(c, r), Sound(r),
           readOnly' = readOnly, paused' \in BOOLEAN, jobs' \in [Ids \cup Replays -> JobStates],
           readOnly = TRUE => paused' = paused /\ ~Underway(r) /\ r.did = {} /\ r.added = {}
    PROVE  ActionsIInv'
<1>1. r \in RequestType /\ requests \in [Clients -> RequestType]
  BY DEF Sound, ActionsIInv
<1>2. requests' = [requests EXCEPT ![c] = r]
  BY DEF Becomes
<1>3. /\ requests' \in [Clients -> RequestType]
      /\ \A d \in Clients : requests'[d] = IF d = c THEN r ELSE requests[d]
  BY <1>1, <1>2
<1>4. \A d \in Clients : Sound(requests'[d])
  BY <1>3 DEF ActionsIInv
<1>5. ReadsOnly'
  <2> SUFFICES ASSUME readOnly = TRUE
               PROVE  /\ paused' = FALSE
                      /\ \A d \in Clients : /\ ~Underway(requests'[d])
                                            /\ requests'[d].did = {} /\ requests'[d].added = {}
    BY DEF ReadsOnly, Underway
  <2> QED
    BY <1>3 DEF ActionsIInv, ReadsOnly
<1> QED
  BY <1>3, <1>4, <1>5 DEF ActionsIInv, Sound, SoundUnderway, SoundAnswer, Underway, InLoop

\* The invariant says nothing of the other parts of the server.
LEMMA UnchangedLemma ==
    ASSUME ActionsIInv, UNCHANGED <<readOnly, paused, requests>>,
           jobs' \in [Ids \cup Replays -> JobStates] \/ jobs' = jobs
    PROVE  ActionsIInv'
<1>1. readOnly' = readOnly /\ paused' = paused /\ requests' = requests
  OBVIOUS
<1>2. jobs' \in [Ids \cup Replays -> JobStates]
  BY DEF ActionsIInv
<1>3. ReadsOnly'
  BY <1>1 DEF ActionsIInv, ReadsOnly, Underway
<1>4. \A c \in Clients : Sound(requests'[c])
  BY <1>1 DEF ActionsIInv
<1> QED
  BY <1>1, <1>2, <1>3, <1>4 DEF ActionsIInv, Sound, SoundUnderway, SoundAnswer, Underway, InLoop

\* A request that is under way is not on a server that only reads.
LEMMA UnderwayLemma ==
    ASSUME ActionsIInv, NEW c \in Clients, Underway(requests[c])
    PROVE  /\ readOnly = FALSE /\ Sound(requests[c]) /\ SoundUnderway(requests[c])
           /\ InLoop(requests[c]) /\ requests[c] \in RequestType
           /\ IdOf(requests[c]) \in Ids
<1>1. readOnly = FALSE
  BY DEF ActionsIInv, ReadsOnly
<1>2. Sound(requests[c])
  BY DEF ActionsIInv
<1>3. SoundUnderway(requests[c]) /\ InLoop(requests[c]) /\ requests[c] \in RequestType
  BY <1>2 DEF Sound, SoundUnderway, InLoop
<1>4. IdOf(requests[c]) \in Ids
  <2>1. requests[c].ids \in Seq(Ids) /\ requests[c].at \in 1..Len(requests[c].ids)
    BY <1>3 DEF InLoop, RequestType
  <2> QED
    BY <2>1, PrefixLemma DEF IdOf
<1> QED
  BY <1>1, <1>2, <1>3, <1>4

\* A request that has just been made.
Fresh(r) ==
    /\ r \in RequestType /\ r.op # "none" /\ r.status = 0 /\ r.at = 1
    /\ r.succeeded = <<>> /\ r.failed = <<>> /\ r.did = {} /\ r.added = {}
    /\ r.op \notin Bulk => Len(r.ids) = 1

\* A request that is answered before it has begun: it has been given nothing to do,
\* or is refused.
LEMMA EmptyAnswerLemma ==
    ASSUME NEW r \in RequestType, NEW status \in {200, 403, 404, 409},
           r.op = "replay" => r.did = {} /\ r.added = {},
           status # 200 => r.did = {} /\ r.added = {},
           status = 200 => r.ids = <<>>
    PROVE  /\ Sound(Answer(r, status)) /\ ~Underway(Answer(r, status))
           /\ Answer(r, status).did = r.did /\ Answer(r, status).added = r.added
<1> DEFINE s == [r EXCEPT !.pc = "done", !.status = status]
<1>1. status \in Statuses
  BY DEF Statuses
<1>2. /\ s \in RequestType /\ s.pc = "done" /\ s.status = status /\ s.ids = r.ids
      /\ s.op = r.op /\ s.did = r.did /\ s.added = r.added
  BY <1>1 DEF RequestType
<1>3. Answer(r, status) = s
  BY DEF Answer
<1> HIDE DEF s
<1>4. ~Underway(s) /\ SoundAnswer(s)
  BY <1>2 DEF Underway, SoundAnswer
<1>5. Sound(s)
  BY <1>2, <1>4 DEF Sound
<1> QED
  BY <1>2, <1>3, <1>4, <1>5

\* A request that begins has answered for nothing yet.
LEMMA BeginsKeepsIInv ==
    ASSUME ActionsIInv, NEW c \in Clients, NEW r, Fresh(r), Begins(c, r)
    PROVE  ActionsIInv'
<1>1. UNCHANGED <<readOnly, jobs, paused>> /\ readOnly \in BOOLEAN
  BY DEF Begins, ActionsIInv
<1>2. PICK known \in BOOLEAN :
          Becomes(c, CASE ~known -> Answer(r, 404)
                       [] known /\ readOnly -> Answer(r, 403)
                       [] known /\ ~readOnly /\ r.ids = <<>> -> Answer(r, 200)
                       [] OTHER -> [r EXCEPT !.pc = "getJob"])
  BY DEF Begins, Becomes
<1>3. \/ Becomes(c, Answer(r, 404))
      \/ Becomes(c, Answer(r, 403))
      \/ r.ids = <<>> /\ Becomes(c, Answer(r, 200))
      \/ readOnly = FALSE /\ r.ids # <<>> /\ Becomes(c, [r EXCEPT !.pc = "getJob"])
  BY <1>1, <1>2
<1>4. r \in RequestType /\ r.did = {} /\ r.added = {}
  BY DEF Fresh
<1>5. paused' \in BOOLEAN /\ jobs' \in [Ids \cup Replays -> JobStates]
  BY <1>1 DEF ActionsIInv
<1>6. ASSUME NEW status \in {200, 403, 404}, status = 200 => r.ids = <<>>,
             Becomes(c, Answer(r, status))
      PROVE  ActionsIInv'
  <2>1. /\ Sound(Answer(r, status)) /\ ~Underway(Answer(r, status))
        /\ Answer(r, status).did = {} /\ Answer(r, status).added = {}
    BY <1>4, <1>6, EmptyAnswerLemma
  <2>2. readOnly' = readOnly /\ paused' = paused
    BY <1>1
  <2> QED
    BY <1>5, <1>6, <2>1, <2>2, BecomesLemma
<1>7. CASE readOnly = FALSE /\ r.ids # <<>> /\ Becomes(c, [r EXCEPT !.pc = "getJob"])
  <2> DEFINE s == [r EXCEPT !.pc = "getJob"]
  <2>1. /\ s \in RequestType /\ s.pc = "getJob" /\ s.status = r.status /\ s.ids = r.ids
        /\ s.at = r.at /\ s.op = r.op /\ s.did = r.did /\ s.added = r.added
        /\ s.succeeded = r.succeeded /\ s.failed = r.failed
    BY <1>4 DEF RequestType
  <2>2. r.ids \in Seq(Ids) /\ 1 <= Len(r.ids)
    BY <1>4, <1>7 DEF RequestType
  <2>3. AccountFor(r.ids, <<>>, <<>>, 0)
    <3>1. {r.ids[i] : i \in 1..0} = {}
      OBVIOUS
    <3>2. Len(<<>>) = 0 /\ ToSet(<<>>) = {}
      BY DEF ToSet
    <3> QED
      BY <3>1, <3>2 DEF AccountFor
  <2> HIDE DEF s
  <2>4. Accounts(s, s.at - 1) /\ ToSet(s.succeeded) \subseteq s.did
    <3>1. ToSet(<<>>) = {} /\ s.at - 1 = 0
      BY <2>1 DEF Fresh, ToSet
    <3> QED
      BY <2>1, <2>3, <3>1 DEF Fresh, Accounts
  <2>5. InLoop(s)
    BY <2>1, <2>2, <2>4 DEF Fresh, InLoop
  <2>6. Sound(s)
    BY <2>1, <2>5 DEF Fresh, Sound, SoundUnderway, SoundAnswer
  <2> QED
    BY <1>1, <1>5, <1>7, <2>6, BecomesLemma DEF s
<1>8. CASE Becomes(c, Answer(r, 404))
  BY <1>6, <1>8
<1>9. CASE Becomes(c, Answer(r, 403))
  BY <1>6, <1>9
<1>10. CASE r.ids = <<>> /\ Becomes(c, Answer(r, 200))
  BY <1>6, <1>10
<1> QED
  BY <1>3, <1>7, <1>8, <1>9, <1>10

\* What a client that has made no request is left with.
LEMMA NoRequestLemma ==
    /\ NoRequest \in RequestType /\ NoRequest.op = "none" /\ NoRequest.pc = "idle"
    /\ NoRequest.ids = <<>> /\ NoRequest.status = 0 /\ NoRequest.at = 1
    /\ NoRequest.succeeded = <<>> /\ NoRequest.failed = <<>>
    /\ NoRequest.did = {} /\ NoRequest.added = {}
<1>1. <<>> \in Seq(Ids) /\ 0 \in Statuses /\ 1 \in Nat \ {0} /\ FALSE \in BOOLEAN
  BY DEF Statuses
<1>2. {} \in SUBSET (Ids \cup Replays) /\ {} \in SUBSET Replays
  OBVIOUS
<1> QED
  BY <1>1, <1>2 DEF NoRequest, RequestType

\* A single action is made for one id, and a bulk for a list of them.
LEMMA FreshLemma ==
    ASSUME NEW op \in {"retry", "promote", "remove", "replay"} \cup Bulk,
           NEW list \in Seq(Ids), NEW remove \in BOOLEAN,
           op \notin Bulk => Len(list) = 1
    PROVE  /\ Fresh([NoRequest EXCEPT !.op = op, !.ids = list, !.removeOriginal = remove])
           /\ Fresh([NoRequest EXCEPT !.op = op, !.ids = list])
<1> DEFINE r == [NoRequest EXCEPT !.op = op, !.ids = list, !.removeOriginal = remove]
           s == [NoRequest EXCEPT !.op = op, !.ids = list]
<1>1. /\ NoRequest \in RequestType /\ NoRequest.status = 0 /\ NoRequest.at = 1
      /\ NoRequest.succeeded = <<>> /\ NoRequest.failed = <<>>
      /\ NoRequest.did = {} /\ NoRequest.added = {}
  BY NoRequestLemma
<1>2. op # "none"
  BY DEF Bulk
<1>3. /\ r \in RequestType /\ r.op = op /\ r.ids = list /\ r.status = 0 /\ r.at = 1
      /\ r.succeeded = <<>> /\ r.failed = <<>> /\ r.did = {} /\ r.added = {}
  BY <1>1 DEF RequestType
<1>4. /\ s \in RequestType /\ s.op = op /\ s.ids = list /\ s.status = 0 /\ s.at = 1
      /\ s.succeeded = <<>> /\ s.failed = <<>> /\ s.did = {} /\ s.added = {}
  BY <1>1 DEF RequestType
<1> HIDE DEF r, s
<1>5. Fresh(r) /\ Fresh(s)
  BY <1>2, <1>3, <1>4 DEF Fresh
<1> QED
  BY <1>5 DEF r, s

\* A client asks for one action on one job.
LEMMA MutateKeepsIInv ==
    ASSUME ActionsIInv, NEW c \in Clients, mutate(c)
    PROVE  ActionsIInv'
<1>1. PICK op \in {"retry", "promote", "remove", "replay"}, i \in Ids, remove \in BOOLEAN :
          Begins(c, [NoRequest EXCEPT !.op = op, !.ids = <<i>>, !.removeOriginal = remove])
  BY DEF mutate
<1>2. <<i>> \in Seq(Ids) /\ Len(<<i>>) = 1
  OBVIOUS
<1>3. Fresh([NoRequest EXCEPT !.op = op, !.ids = <<i>>, !.removeOriginal = remove])
  BY <1>2, FreshLemma
<1> QED
  BY <1>1, <1>3, BeginsKeepsIInv

\* A client asks for an action on a list of jobs.
LEMMA RunBulkKeepsIInv ==
    ASSUME ActionsIInv, NEW c \in Clients, runBulk(c)
    PROVE  ActionsIInv'
<1>1. PICK op \in Bulk, l \in Lists : Begins(c, [NoRequest EXCEPT !.op = op, !.ids = l])
  BY DEF runBulk
<1>2. l \in Seq(Ids)
  BY ActionsAssumption
<1>3. Fresh([NoRequest EXCEPT !.op = op, !.ids = l])
  BY <1>2, FreshLemma
<1> QED
  BY <1>1, <1>3, BeginsKeepsIInv

\* A step that gives a request that is under way another place in the loop.
LEMMA MovesLemma ==
    ASSUME ActionsIInv, NEW c \in Clients, Underway(requests[c]), NEW r, Becomes(c, r), Sound(r),
           readOnly' = readOnly, paused' = paused, jobs' \in [Ids \cup Replays -> JobStates]
    PROVE  ActionsIInv'
<1>1. readOnly = FALSE
  BY UnderwayLemma
<1>2. paused' \in BOOLEAN
  BY DEF ActionsIInv
<1> QED
  BY <1>1, <1>2, BecomesLemma

\* A request stays sound when it goes on to ask for the state of its job, to add
\* its replay or to give its command.
LEMMA NextCallLemma ==
    ASSUME NEW r \in RequestType, InLoop(r), NEW pc \in {"getState", "add", "command"},
           r.op \notin Bulk /\ pc # "command" => r.did = {} /\ r.added = {},
           pc \in {"getState", "add"} => r.op = "replay",
           r.op = "replay" /\ pc = "command" => r.added # {} /\ r.removeOriginal = TRUE
    PROVE  Sound([r EXCEPT !.pc = pc])
<1> DEFINE s == [r EXCEPT !.pc = pc]
<1>1. /\ s \in RequestType /\ s.pc = pc /\ s.status = r.status /\ s.ids = r.ids
      /\ s.at = r.at /\ s.op = r.op /\ s.did = r.did /\ s.added = r.added
      /\ s.succeeded = r.succeeded /\ s.failed = r.failed
      /\ s.removeOriginal = r.removeOriginal
  BY DEF RequestType
<1> HIDE DEF s
<1>2. InLoop(s)
  BY <1>1 DEF InLoop, Accounts
<1>3. SoundUnderway(s)
  BY <1>1, <1>2 DEF SoundUnderway
<1>4. Sound(s)
  BY <1>1, <1>2, <1>3 DEF InLoop, Sound, SoundAnswer
<1> QED
  BY <1>4 DEF s

\* requireJob: a job that is not there is answered by 404, or noted as failed.
LEMMA GetJobKeepsIInv ==
    ASSUME ActionsIInv, NEW c \in Clients, getJob(c)
    PROVE  ActionsIInv'
<1> DEFINE r == requests[c]
<1>1. r.pc = "getJob" /\ UNCHANGED <<readOnly, jobs, paused>>
  BY DEF getJob, At
<1>2. Underway(r)
  BY <1>1 DEF Underway
<1>3. r \in RequestType /\ InLoop(r) /\ SoundUnderway(r)
  BY <1>2, UnderwayLemma
<1>4. r.op \notin Bulk => r.did = {} /\ r.added = {}
  BY <1>1, <1>3 DEF SoundUnderway
<1>5. jobs' \in [Ids \cup Replays -> JobStates]
  BY <1>1 DEF ActionsIInv
<1>6. \/ Becomes(c, Fail(r, 404))
      \/ r.op = "replay" /\ Becomes(c, [r EXCEPT !.pc = "getState"])
      \/ r.op # "replay" /\ Becomes(c, [r EXCEPT !.pc = "command"])
  BY DEF getJob
<1>7. CASE Becomes(c, Fail(r, 404))
  <2>1. Sound(Fail(r, 404))
    BY <1>3, <1>4, FailLemma
  <2> QED
    BY <1>1, <1>2, <1>5, <1>7, <2>1, MovesLemma
<1>8. CASE r.op = "replay" /\ Becomes(c, [r EXCEPT !.pc = "getState"])
  <2>1. Sound([r EXCEPT !.pc = "getState"])
    BY <1>3, <1>4, <1>8, NextCallLemma
  <2> QED
    BY <1>1, <1>2, <1>5, <1>8, <2>1, MovesLemma
<1>9. CASE r.op # "replay" /\ Becomes(c, [r EXCEPT !.pc = "command"])
  <2>1. Sound([r EXCEPT !.pc = "command"])
    BY <1>3, <1>4, <1>9, NextCallLemma
  <2> QED
    BY <1>1, <1>2, <1>5, <1>9, <2>1, MovesLemma
<1> QED
  BY <1>6, <1>7, <1>8, <1>9

\* Only a failed job is replayed.
LEMMA GetStateKeepsIInv ==
    ASSUME ActionsIInv, NEW c \in Clients, getState(c)
    PROVE  ActionsIInv'
<1> DEFINE r == requests[c]
<1>1. r.pc = "getState" /\ UNCHANGED <<readOnly, jobs, paused>>
  BY DEF getState, At
<1>2. Underway(r)
  BY <1>1 DEF Underway
<1>3. r \in RequestType /\ InLoop(r) /\ SoundUnderway(r)
  BY <1>2, UnderwayLemma
<1>4. r.op = "replay" /\ r.op \notin Bulk /\ r.did = {} /\ r.added = {}
  BY <1>1, <1>3 DEF SoundUnderway, Bulk
<1>5. jobs' \in [Ids \cup Replays -> JobStates]
  BY <1>1 DEF ActionsIInv
<1>6. Becomes(c, Fail(r, 409)) \/ Becomes(c, [r EXCEPT !.pc = "add"])
  BY DEF getState
<1>7. Sound(Fail(r, 409))
  BY <1>3, <1>4, FailLemma
<1>8. Sound([r EXCEPT !.pc = "add"])
  BY <1>3, <1>4, NextCallLemma
<1> QED
  BY <1>1, <1>2, <1>5, <1>6, <1>7, <1>8, MovesLemma

\* A replay adds a copy, whose answer may be lost.
LEMMA AddKeepsIInv ==
    ASSUME ActionsIInv, NEW c \in Clients, NEW answered \in BOOLEAN, Add(c, answered)
    PROVE  ActionsIInv'
<1> DEFINE q == requests[c]
<1>1. q.pc = "add" /\ UNCHANGED <<readOnly, paused>>
  BY DEF Add, At
<1>2. Underway(q)
  BY <1>1 DEF Underway
<1>3. q \in RequestType /\ InLoop(q) /\ SoundUnderway(q)
  BY <1>2, UnderwayLemma
<1>4. q.op = "replay" /\ q.op \notin Bulk /\ q.did = {}
  BY <1>1, <1>3 DEF SoundUnderway, Bulk
<1>5. PICK j \in Replays :
          /\ jobs' = [jobs EXCEPT ![j] = "waiting"]
          /\ LET r == [q EXCEPT !.added = {j}]
             IN  Becomes(c, CASE ~answered -> Fail(r, 500)
                              [] answered /\ r.removeOriginal -> [r EXCEPT !.pc = "command"]
                              [] OTHER -> Succeed(r))
  BY DEF Add
<1> DEFINE r == [q EXCEPT !.added = {j}]
<1>6. /\ r \in RequestType /\ r.pc = q.pc /\ r.status = q.status /\ r.ids = q.ids
      /\ r.at = q.at /\ r.op = q.op /\ r.did = q.did /\ r.added = {j}
      /\ r.succeeded = q.succeeded /\ r.failed = q.failed
      /\ r.removeOriginal = q.removeOriginal
  <2>1. {j} \in SUBSET Replays
    OBVIOUS
  <2> QED
    BY <1>3, <2>1 DEF RequestType
<1>7. r.removeOriginal \in BOOLEAN
  BY <1>6 DEF RequestType
<1>8. \/ Becomes(c, Fail(r, 500))
      \/ r.removeOriginal = TRUE /\ Becomes(c, [r EXCEPT !.pc = "command"])
      \/ r.removeOriginal = FALSE /\ Becomes(c, Succeed(r))
  <2> HIDE DEF r
  <2>1. Becomes(c, CASE ~answered -> Fail(r, 500)
                     [] answered /\ r.removeOriginal -> [r EXCEPT !.pc = "command"]
                     [] OTHER -> Succeed(r))
    BY <1>5 DEF r
  <2> QED
    BY <1>7, <2>1
<1>9. jobs' \in [Ids \cup Replays -> JobStates]
  <2>1. "waiting" \in JobStates
    BY DEF JobStates
  <2> QED
    BY <1>5, <2>1 DEF ActionsIInv
<1> HIDE DEF r
<1>10. InLoop(r)
  BY <1>3, <1>4, <1>6 DEF InLoop, Accounts
<1>11. CASE Becomes(c, Fail(r, 500))
  <2>1. Sound(Fail(r, 500))
    BY <1>10, FailLemma
  <2> QED
    BY <1>1, <1>2, <1>9, <1>11, <2>1, MovesLemma
<1>12. CASE r.removeOriginal = TRUE /\ Becomes(c, [r EXCEPT !.pc = "command"])
  <2>1. Sound([r EXCEPT !.pc = "command"])
    BY <1>6, <1>10, <1>12, NextCallLemma
  <2> QED
    BY <1>1, <1>2, <1>9, <1>12, <2>1, MovesLemma
<1>13. CASE r.removeOriginal = FALSE /\ Becomes(c, Succeed(r))
  <2>1. Sound(Succeed(r))
    BY <1>4, <1>6, <1>10, <1>13, SucceedLemma
  <2> QED
    BY <1>1, <1>2, <1>9, <1>13, <2>1, MovesLemma
<1> QED
  BY <1>8, <1>11, <1>12, <1>13

\* What has been done on a request that is about to give its command.
LEMMA DoneLemma ==
    ASSUME NEW r \in RequestType, InLoop(r), SoundUnderway(r), r.pc = "command", IdOf(r) \in Ids
    PROVE  /\ InLoop(Done(r)) /\ Done(r).op = r.op
           /\ Sound(Succeed(Done(r))) /\ Sound(Fail(Done(r), 500))
<1> DEFINE s == [r EXCEPT !.did = r.did \cup {IdOf(r)}]
<1>1. Done(r) = s
  BY DEF Done
<1>2. /\ s \in RequestType /\ s.status = r.status /\ s.ids = r.ids
      /\ s.at = r.at /\ s.op = r.op /\ s.did = r.did \cup {IdOf(r)} /\ s.added = r.added
      /\ s.succeeded = r.succeeded /\ s.failed = r.failed
      /\ s.removeOriginal = r.removeOriginal
  <2>1. r.did \cup {IdOf(r)} \in SUBSET (Ids \cup Replays)
    BY DEF RequestType
  <2> QED
    BY <2>1 DEF RequestType
<1> HIDE DEF s
<1>3. r.op = "replay" => r.added # {}
  BY DEF SoundUnderway
<1>4. InLoop(s)
  BY <1>2, <1>3 DEF InLoop, Accounts
<1>5. IdOf(s) = IdOf(r)
  BY <1>2 DEF IdOf
<1>6. ToSet(s.succeeded) \cup {IdOf(s)} \subseteq s.did
  <2>1. CASE r.op # "replay"
    BY <1>2, <1>5, <2>1 DEF InLoop
  <2>2. CASE r.op = "replay"
    <3>1. Len(r.ids) = 1 /\ r.at \in Nat /\ r.at # 0 /\ r.at <= 1
      BY <2>2 DEF InLoop, RequestType, Bulk
    <3>2. r.at - 1 = 0
      BY <3>1
    <3>3. ToSet(r.succeeded) \subseteq {r.ids[i] : i \in 1..0}
      BY <3>2 DEF InLoop, Accounts, AccountFor
    <3>4. {r.ids[i] : i \in 1..0} = {}
      OBVIOUS
    <3> QED
      BY <1>2, <1>5, <3>3, <3>4
  <2> QED
    BY <2>1, <2>2
<1>7. Sound(Succeed(s))
  BY <1>2, <1>3, <1>4, <1>6, SucceedLemma
<1>8. Sound(Fail(s, 500))
  BY <1>4, FailLemma
<1> QED
  BY <1>1, <1>2, <1>4, <1>7, <1>8

\* A command leaves each job in a state it can be in.
LEMMA AfterLemma ==
    ASSUME ActionsIInv, NEW r
    PROVE  After(r) \in [Ids \cup Replays -> JobStates]
<1>1. {"absent", "waiting"} \subseteq JobStates
  BY DEF JobStates
<1> QED
  BY <1>1 DEF After, ActionsIInv

\* BullMQ runs the command of a request on the job as it now is, or refuses it.
LEMMA CommandKeepsIInv ==
    ASSUME ActionsIInv, NEW c \in Clients, command(c)
    PROVE  ActionsIInv'
<1> DEFINE r == requests[c]
<1>1. r.pc = "command" /\ UNCHANGED <<readOnly, paused>>
  BY DEF command, At
<1>2. Underway(r)
  BY <1>1 DEF Underway
<1>3. r \in RequestType /\ InLoop(r) /\ SoundUnderway(r) /\ IdOf(r) \in Ids
  BY <1>2, UnderwayLemma
<1>4. \/ jobs' = After(r) /\ Becomes(c, Succeed(Done(r)))
      \/ jobs' = jobs /\ Becomes(c, Fail(r, 500))
  BY DEF command
<1>5. CASE jobs' = After(r) /\ Becomes(c, Succeed(Done(r)))
  <2>1. Sound(Succeed(Done(r)))
    BY <1>1, <1>3, DoneLemma
  <2>2. jobs' \in [Ids \cup Replays -> JobStates]
    BY <1>5, AfterLemma
  <2> QED
    BY <1>1, <1>2, <1>5, <2>1, <2>2, MovesLemma
<1>6. CASE jobs' = jobs /\ Becomes(c, Fail(r, 500))
  <2>1. Sound(Fail(r, 500))
    BY <1>3, FailLemma
  <2>2. jobs' \in [Ids \cup Replays -> JobStates]
    BY <1>6 DEF ActionsIInv
  <2> QED
    BY <1>1, <1>2, <1>6, <2>1, <2>2, MovesLemma
<1> QED
  BY <1>4, <1>5, <1>6

\* The connection is lost under a read or a command, executed or not: the request fails.
LEMMA ConnectionLostKeepsIInv ==
    ASSUME ActionsIInv, NEW c \in Clients, ConnectionLost(c)
    PROVE  ActionsIInv'
<1> DEFINE r == requests[c]
<1>1. UNCHANGED <<readOnly, paused>>
  BY DEF ConnectionLost
<1>2. CASE /\ r.pc \in {"getJob", "getState", "add", "command"}
           /\ UNCHANGED jobs /\ Becomes(c, Fail(r, 500))
  <2>1. Underway(r)
    BY <1>2 DEF Underway
  <2>2. InLoop(r)
    BY <2>1, UnderwayLemma
  <2>3. Sound(Fail(r, 500))
    BY <2>2, FailLemma
  <2>4. jobs' \in [Ids \cup Replays -> JobStates]
    BY <1>2 DEF ActionsIInv
  <2> QED
    BY <1>1, <1>2, <2>1, <2>3, <2>4, MovesLemma
<1>3. CASE /\ At(c, "command") /\ CanDo(r)
           /\ jobs' = After(r) /\ Becomes(c, Fail(Done(r), 500))
  <2>1. r.pc = "command" /\ Underway(r)
    BY <1>3 DEF At, Underway
  <2>2. r \in RequestType /\ InLoop(r) /\ SoundUnderway(r) /\ IdOf(r) \in Ids
    BY <2>1, UnderwayLemma
  <2>3. Sound(Fail(Done(r), 500))
    BY <2>1, <2>2, DoneLemma
  <2>4. jobs' \in [Ids \cup Replays -> JobStates]
    BY <1>3, AfterLemma
  <2> QED
    BY <1>1, <1>3, <2>1, <2>3, <2>4, MovesLemma
<1>4. CASE Add(c, FALSE)
  BY <1>4, AddKeepsIInv
<1> QED
  BY <1>2, <1>3, <1>4 DEF ConnectionLost

\* A request of one command has no list of ids, and is answered at once.
LEMMA SetPausedKeepsIInv ==
    ASSUME ActionsIInv, NEW c \in Clients, setPaused(c)
    PROVE  ActionsIInv'
<1>1. readOnly' = readOnly /\ jobs' = jobs /\ readOnly \in BOOLEAN
  BY DEF setPaused, ActionsIInv
<1>2. jobs' \in [Ids \cup Replays -> JobStates]
  BY <1>1 DEF ActionsIInv
<1>3. CASE readOnly = TRUE
  <2>1. paused' = paused /\ Becomes(c, Answer(NoRequest, 403))
    BY <1>3 DEF setPaused
  <2>2. paused' \in BOOLEAN
    BY <2>1 DEF ActionsIInv
  <2>3. /\ Sound(Answer(NoRequest, 403)) /\ ~Underway(Answer(NoRequest, 403))
        /\ Answer(NoRequest, 403).did = {} /\ Answer(NoRequest, 403).added = {}
    BY NoRequestLemma, EmptyAnswerLemma
  <2> QED
    BY <1>1, <1>2, <2>1, <2>2, <2>3, BecomesLemma
<1>4. CASE readOnly = FALSE
  <2>1. paused' \in BOOLEAN /\ Becomes(c, Answer(NoRequest, 200))
    BY <1>4 DEF setPaused
  <2>2. Sound(Answer(NoRequest, 200))
    BY NoRequestLemma, EmptyAnswerLemma
  <2> QED
    BY <1>1, <1>2, <1>4, <2>1, <2>2, BecomesLemma
<1> QED
  BY <1>1, <1>3, <1>4

\* A queue is cleaned of its jobs of one state.
LEMMA CleanQueueKeepsIInv ==
    ASSUME ActionsIInv, NEW c \in Clients, cleanQueue(c)
    PROVE  ActionsIInv'
<1>1. /\ readOnly' = readOnly /\ paused' = paused
      /\ readOnly \in BOOLEAN /\ paused' \in BOOLEAN
  BY DEF cleanQueue, ActionsIInv
<1>2. CASE readOnly = TRUE
  <2>1. jobs' = jobs /\ Becomes(c, Answer(NoRequest, 403))
    BY <1>2 DEF cleanQueue
  <2>2. jobs' \in [Ids \cup Replays -> JobStates]
    BY <2>1 DEF ActionsIInv
  <2>3. /\ Sound(Answer(NoRequest, 403)) /\ ~Underway(Answer(NoRequest, 403))
        /\ Answer(NoRequest, 403).did = {} /\ Answer(NoRequest, 403).added = {}
    BY NoRequestLemma, EmptyAnswerLemma
  <2> QED
    BY <1>1, <2>1, <2>2, <2>3, BecomesLemma
<1>3. CASE readOnly = FALSE
  <2>1. PICK gone \in SUBSET DOMAIN jobs :
             /\ jobs' = [i \in DOMAIN jobs |-> IF i \in gone THEN "absent" ELSE jobs[i]]
             /\ Becomes(c, Answer([NoRequest EXCEPT !.did = gone], 200))
    BY <1>3 DEF cleanQueue
  <2> DEFINE r == [NoRequest EXCEPT !.did = gone]
  <2>2. /\ r \in RequestType /\ r.op = "none" /\ r.ids = <<>> /\ r.added = {}
    <3>1. gone \in SUBSET (Ids \cup Replays)
      BY DEF ActionsIInv
    <3> QED
      BY <3>1, NoRequestLemma DEF RequestType
  <2>3. jobs' \in [Ids \cup Replays -> JobStates]
    <3>1. "absent" \in JobStates
      BY DEF JobStates
    <3> QED
      BY <2>1, <3>1 DEF ActionsIInv
  <2>4. Becomes(c, Answer(r, 200))
    BY <2>1
  <2> HIDE DEF r
  <2>5. Sound(Answer(r, 200))
    BY <2>2, EmptyAnswerLemma
  <2> QED
    BY <1>1, <1>3, <2>3, <2>4, <2>5, BecomesLemma
<1> QED
  BY <1>1, <1>2, <1>3

\* Workers take, finish and fail jobs meanwhile.
LEMMA WorkerKeepsIInv ==
    ASSUME ActionsIInv, NEW i \in DOMAIN jobs, Worker(i)
    PROVE  ActionsIInv'
<1>1. UNCHANGED <<readOnly, paused, requests>>
  BY DEF Worker
<1>2. jobs' \in [Ids \cup Replays -> JobStates]
  <2>1. {"active", "completed", "failed", "delayed", "waiting"} \subseteq JobStates
    BY DEF JobStates
  <2>2. \E s \in JobStates : jobs' = [jobs EXCEPT ![i] = s]
    BY <2>1 DEF Worker
  <2> QED
    BY <2>2 DEF ActionsIInv
<1> QED
  BY <1>1, <1>2, UnchangedLemma

-----------------------------------------------------------------------------
(* JobActions: the invariant, and what it says of every state. *)

\* No request is under way initially.
LEMMA InitActionsIInv == ActionsInit => ActionsIInv
<1> SUFFICES ASSUME ActionsInit PROVE ActionsIInv
  OBVIOUS
<1>1. readOnly \in BOOLEAN /\ paused \in BOOLEAN /\ paused = FALSE
  BY DEF ActionsInit
<1>2. jobs \in [Ids \cup Replays -> JobStates]
  BY DEF ActionsInit, JobStates
<1>3. /\ NoRequest \in RequestType /\ NoRequest.op = "none" /\ NoRequest.pc = "idle"
      /\ NoRequest.ids = <<>> /\ NoRequest.did = {} /\ NoRequest.added = {}
      /\ NoRequest.status = 0
  BY NoRequestLemma
<1>4. Sound(NoRequest) /\ ~Underway(NoRequest)
  BY <1>3 DEF Sound, Underway, SoundAnswer
<1>5. requests \in [Clients -> RequestType] /\ \A c \in Clients : requests[c] = NoRequest
  BY <1>3 DEF ActionsInit
<1>6. ReadsOnly
  BY <1>1, <1>3, <1>4, <1>5 DEF ReadsOnly
<1> QED
  BY <1>1, <1>2, <1>4, <1>5, <1>6 DEF ActionsIInv

\* Every step of the server keeps the invariant of its requests.
LEMMA NextActionsIInv == ActionsIInv /\ [Next]_vars => ActionsIInv'
<1> SUFFICES ASSUME ActionsIInv, [Next]_vars PROVE ActionsIInv'
  OBVIOUS
<1>1. CASE UNCHANGED actionVars
  BY <1>1, UnchangedLemma DEF actionVars
<1>2. CASE ActionsNext
  <2>1. ASSUME NEW c \in Clients, mutate(c) PROVE ActionsIInv'
    BY <2>1, MutateKeepsIInv
  <2>2. ASSUME NEW c \in Clients, runBulk(c) PROVE ActionsIInv'
    BY <2>2, RunBulkKeepsIInv
  <2>3. ASSUME NEW c \in Clients, setPaused(c) PROVE ActionsIInv'
    BY <2>3, SetPausedKeepsIInv
  <2>4. ASSUME NEW c \in Clients, cleanQueue(c) PROVE ActionsIInv'
    BY <2>4, CleanQueueKeepsIInv
  <2>5. ASSUME NEW c \in Clients, getJob(c) PROVE ActionsIInv'
    BY <2>5, GetJobKeepsIInv
  <2>6. ASSUME NEW c \in Clients, getState(c) PROVE ActionsIInv'
    BY <2>6, GetStateKeepsIInv
  <2>7. ASSUME NEW c \in Clients, add(c) PROVE ActionsIInv'
    BY <2>7, AddKeepsIInv DEF add
  <2>8. ASSUME NEW c \in Clients, command(c) PROVE ActionsIInv'
    BY <2>8, CommandKeepsIInv
  <2>9. ASSUME NEW c \in Clients, ConnectionLost(c) PROVE ActionsIInv'
    BY <2>9, ConnectionLostKeepsIInv
  <2>10. ASSUME NEW i \in DOMAIN jobs, Worker(i) PROVE ActionsIInv'
    BY <2>10, WorkerKeepsIInv
  <2> QED
    BY <1>2, <2>1, <2>2, <2>3, <2>4, <2>5, <2>6, <2>7, <2>8, <2>9, <2>10 DEF ActionsNext
<1> QED
  BY <1>1, <1>2 DEF Next, vars

\* Of the jobs and the requests, the steps of every part of the server keep what
\* the steps of the mutations are proved to keep.
LEMMA SpecActionsIInv == Spec => []ActionsIInv
<1>1. Init => ActionsIInv
  BY InitActionsIInv DEF Init
<1> QED
  BY <1>1, NextActionsIInv, PTL DEF Spec

(***************************************************************************)
(* A client can rely on its answer to a mutation of app.ts, whatever other *)
(* requests, the workers and lost connections do in between: a refusal has *)
(* done nothing, a success what was asked, and a bulk answer accounts for  *)
(* every id it was given.                                                  *)
(***************************************************************************)
THEOREM AnswersAreTrue == Spec => []AnswersTellTheTruth
<1>1. ActionsIInv => AnswersTellTheTruth
  <2> SUFFICES ASSUME ActionsIInv, NEW c \in Clients
               PROVE  LET r == requests[c]
                      IN  /\ r.status \in {403, 404, 409} => r.did = {} /\ r.added = {}
                          /\ readOnly => r.did = {} /\ r.added = {} /\ ~paused
                          /\ (r.status = 200 /\ r.ids # <<>>) =>
                                /\ Len(r.succeeded) + Len(r.failed) = Len(r.ids)
                                /\ ToSet(r.succeeded) \cup ToSet(r.failed) = ToSet(r.ids)
                                /\ r.op = "replay" => r.added # {}
                                /\ (r.op # "replay" \/ r.removeOriginal)
                                      => ToSet(r.succeeded) \subseteq r.did
    BY DEF AnswersTellTheTruth
  <2> DEFINE r == requests[c]
  <2>1. Sound(r) /\ SoundAnswer(r) /\ r \in RequestType
    BY DEF ActionsIInv, Sound
  <2>2. r.removeOriginal \in BOOLEAN /\ ToSet(r.ids) = {r.ids[i] : i \in 1..Len(r.ids)}
    BY <2>1 DEF RequestType, ToSet
  <2>3. readOnly = TRUE => r.did = {} /\ r.added = {} /\ paused = FALSE
    BY DEF ActionsIInv, ReadsOnly
  <2>4. readOnly \in BOOLEAN
    BY DEF ActionsIInv
  <2> HIDE DEF r
  <2>5. r.status = 200 /\ r.ids # <<>> =>
           /\ Len(r.succeeded) + Len(r.failed) = Len(r.ids)
           /\ ToSet(r.succeeded) \cup ToSet(r.failed) = ToSet(r.ids)
    BY <2>1, <2>2, Zenon DEF SoundAnswer, Accounts, AccountFor
  <2>6. /\ r.status \in {403, 404, 409} => r.did = {} /\ r.added = {}
        /\ readOnly => r.did = {} /\ r.added = {} /\ ~paused
        /\ (r.status = 200 /\ r.ids # <<>>) =>
              /\ r.op = "replay" => r.added # {}
              /\ (r.op # "replay" \/ r.removeOriginal) => ToSet(r.succeeded) \subseteq r.did
    BY <2>1, <2>2, <2>3, <2>4 DEF SoundAnswer
  <2> QED
    BY <2>5, <2>6 DEF r
<1> QED
  BY <1>1, SpecActionsIInv, PTL

(***************************************************************************)
(* A replay (actions.ts, replayJob) removes the original after it has      *)
(* added the job that replaces it, wherever it is cut off: one of the two  *)
(* is always there.                                                        *)
(***************************************************************************)
THEOREM ReplaysLoseNothing == Spec => []ReplayLosesNothing
<1>1. ActionsIInv => ReplayLosesNothing
  BY DEF ActionsIInv, Sound, ReplayLosesNothing
<1> QED
  BY <1>1, SpecActionsIInv, PTL

-----------------------------------------------------------------------------
(* QueueRegistry: the inductive invariant. *)

CallType ==
    [pc : {"idle", "exists", "scan", "listed", "done", "refused", "failed"},
     name : Names \cup {"none"}, flow : BOOLEAN, left : SUBSET Names, found : SUBSET Names,
     stayed : SUBSET Names, seen : SUBSET Names]

\* A scan still has before it what was there all the time and is not found, and
\* what it has found has been there.
SoundCall(call) ==
    /\ call \in CallType
    /\ call.pc = "exists" => call.name \in Names
    /\ call.pc = "scan" =>
          /\ call.stayed \subseteq call.found \cup call.left
          /\ call.stayed \subseteq meta
          /\ call.found \subseteq call.seen /\ meta \subseteq call.seen
    /\ (call.pc = "listed" /\ discover = TRUE) =>
          call.stayed \subseteq call.found /\ call.found \subseteq call.seen

CloserType ==
    [pc : {"idle", "evaluator", "queues", "flow", "admin", "done", "rejected"},
     waits : SUBSET (Kinds \X Nat)]

\* A close() has taken note of what is open.
Begun == \E d \in Closers : closers[d].pc \notin {"idle", "evaluator"}

\* What a close() still has to see closed.
Owing(kinds) == {i \in owed \cap open : i[1] \in kinds}

\* A close() waits for all it owes of a kind before it goes on to the next.
SoundCloser(closer) ==
    /\ closer.pc = "queues" => Owing(Names) \subseteq closer.waits
    /\ closer.pc = "flow" => Owing(Names) = {} /\ Owing({"flow"}) \subseteq closer.waits
    /\ closer.pc = "admin" => Owing(Names) = {} /\ Owing({"flow"}) = {}
                              /\ Owing({"admin"}) \subseteq closer.waits
    /\ closer.pc = "done" => owed \cap open = {}

\* Instances are numbered from 1 as they are made; one that is open is the one in
\* the cache until a close() has begun, and one that is owed until it is closed.
Numbered ==
    /\ \A k \in Kinds : cached[k] <= made[k]
    /\ \A i \in open \cup owed : i[2] <= made[i[1]]
    /\ given = TRUE => \A i \in open : i[1] # "admin"
    /\ ~Begun => \A i \in open : i[2] = cached[i[1]]
    /\ \A i \in owed \cap open : i[2] = cached[i[1]]

ConnectionsTypeOK ==
    /\ given \in BOOLEAN
    /\ cached \in [Kinds -> Nat] /\ made \in [Kinds -> Nat]
    /\ open \in SUBSET (Kinds \X (Nat \ {0})) /\ owed \in SUBSET (Kinds \X (Nat \ {0}))
    /\ closers \in [Closers -> CloserType]

ConnectionsIInv ==
    /\ ConnectionsTypeOK /\ Numbered
    /\ \A d \in Closers : SoundCloser(closers[d])

ListingIInv ==
    /\ explicit \in SUBSET Names /\ discover \in BOOLEAN /\ meta \in SUBSET Names
    /\ calls \in [Callers -> CallType]
    /\ \A c \in Callers : SoundCall(calls[c])

-----------------------------------------------------------------------------
(* QueueRegistry: the listings. *)

\* A step of a request that leaves the queues alone.
LEMMA CallLemma ==
    ASSUME ListingIInv, NEW c \in Callers, NEW call, SoundCall(call), CallBecomes(c, call)
    PROVE  ListingIInv'
<1>1. /\ explicit' = explicit /\ discover' = discover /\ meta' = meta
      /\ calls' = [calls EXCEPT ![c] = call]
  BY DEF CallBecomes, registryConfig
<1>2. call \in CallType
  BY DEF SoundCall
<1>3. /\ calls' \in [Callers -> CallType]
      /\ \A d \in Callers : calls'[d] = IF d = c THEN call ELSE calls[d]
  BY <1>1, <1>2 DEF ListingIInv
<1>4. \A d \in Callers : SoundCall(calls'[d])
  BY <1>3 DEF ListingIInv
<1> QED
  BY <1>1, <1>3, <1>4 DEF ListingIInv, SoundCall

\* A call that is not under way, or has ended, claims nothing.
LEMMA NoCallLemma ==
    /\ NoCall \in CallType
    /\ \A pc \in {"idle", "done", "refused", "failed"} : SoundCall(Ended(pc))
    /\ SoundCall(NoCall)
<1>1. {} \in SUBSET Names /\ FALSE \in BOOLEAN
  OBVIOUS
<1>2. NoCall \in CallType /\ NoCall.pc = "idle"
  BY <1>1 DEF NoCall, CallType
<1>3. SoundCall(NoCall)
  BY <1>2 DEF SoundCall
<1>4. ASSUME NEW pc \in {"idle", "done", "refused", "failed"} PROVE SoundCall(Ended(pc))
  <2> DEFINE call == [NoCall EXCEPT !.pc = pc]
  <2>1. call \in CallType /\ call.pc = pc
    BY <1>2 DEF CallType
  <2> HIDE DEF call
  <2>2. SoundCall(call)
    BY <2>1 DEF SoundCall
  <2> QED
    BY <2>2 DEF call, Ended
<1> QED
  BY <1>2, <1>3, <1>4

\* A request names one queue: it claims no listing.
LEMMA ResolveKeepsListing ==
    ASSUME ListingIInv, NEW c \in Callers, resolve(c)
    PROVE  ListingIInv'
<1>1. PICK name \in Names, flow \in BOOLEAN :
          \/ CallBecomes(c, Ended("done"))
          \/ CallBecomes(c, Ended("refused"))
          \/ CallBecomes(c, [[NoCall EXCEPT !.name = name, !.flow = flow] EXCEPT !.pc = "exists"])
  BY DEF resolve
<1> DEFINE call == [[NoCall EXCEPT !.name = name, !.flow = flow] EXCEPT !.pc = "exists"]
<1>2. call \in CallType /\ call.pc = "exists" /\ call.name = name
  BY NoCallLemma DEF CallType
<1> HIDE DEF call
<1>3. SoundCall(call) /\ SoundCall(Ended("done")) /\ SoundCall(Ended("refused"))
  BY <1>2, NoCallLemma DEF SoundCall
<1>4. CallBecomes(c, Ended("done")) \/ CallBecomes(c, Ended("refused")) \/ CallBecomes(c, call)
  BY <1>1 DEF call
<1> QED
  BY <1>3, <1>4, CallLemma

\* A listing begins: its names are those configured, or what a SCAN is to find.
LEMMA ListKeepsListing ==
    ASSUME ListingIInv, NEW c \in Callers, listQueueNames(c)
    PROVE  ListingIInv'
<1> DEFINE scan == [NoCall EXCEPT !.pc = "scan", !.left = Names, !.stayed = meta, !.seen = meta]
           listed == [NoCall EXCEPT !.pc = "listed"]
<1>1. discover \in BOOLEAN /\ meta \in SUBSET Names
  BY DEF ListingIInv
<1>2. \/ CallBecomes(c, scan)
      \/ discover = FALSE /\ CallBecomes(c, listed)
  BY <1>1 DEF listQueueNames
<1>3. NoCall.found = {} /\ NoCall \in CallType
  BY NoCallLemma DEF NoCall
<1>4. /\ scan \in CallType /\ scan.pc = "scan" /\ scan.left = Names /\ scan.stayed = meta
      /\ scan.seen = meta /\ scan.found = {}
  BY <1>1, <1>3 DEF CallType
<1>5. listed \in CallType /\ listed.pc = "listed"
  BY <1>3 DEF CallType
<1> HIDE DEF scan, listed
<1>6. SoundCall(scan)
  BY <1>1, <1>4 DEF SoundCall
<1>7. CASE CallBecomes(c, scan)
  BY <1>6, <1>7, CallLemma
<1>8. CASE discover = FALSE /\ CallBecomes(c, listed)
  <2>1. SoundCall(listed)
    BY <1>5, <1>8 DEF SoundCall
  <2> QED
    BY <1>8, <2>1, CallLemma
<1> QED
  BY <1>2, <1>7, <1>8

\* Each turn of the SCAN loop returns some of the keys.
LEMMA DiscoverKeepsListing ==
    ASSUME ListingIInv, NEW c \in Callers, discoverQueueNames(c)
    PROVE  ListingIInv'
<1> DEFINE q == calls[c]
<1>1. PICK page \in SUBSET Names :
         LET call == [q EXCEPT !.left = Covered(q.left, page), !.found = q.found \cup (page \cap meta)]
         IN  IF call.left = {} THEN CallBecomes(c, [call EXCEPT !.pc = "listed"])
                               ELSE CallBecomes(c, call)
  BY DEF discoverQueueNames
<1> DEFINE call == [q EXCEPT !.left = Covered(q.left, page), !.found = q.found \cup (page \cap meta)]
           listed == [call EXCEPT !.pc = "listed"]
<1>2. q \in CallType /\ SoundCall(q) /\ q.pc = "scan" /\ meta \in SUBSET Names
  BY DEF ListingIInv, discoverQueueNames
<1>3. /\ call \in CallType /\ call.pc = "scan" /\ call.left = q.left \ page
      /\ call.found = q.found \cup (page \cap meta) /\ call.stayed = q.stayed
      /\ call.seen = q.seen
  <2>1. q.left \ page \in SUBSET Names /\ q.found \cup (page \cap meta) \in SUBSET Names
    BY <1>2 DEF CallType
  <2> QED
    BY <1>2, <2>1 DEF CallType, Covered
<1>4. (call.left = {} /\ CallBecomes(c, listed)) \/ CallBecomes(c, call)
  <2> HIDE DEF listed
  <2> QED
    BY <1>1 DEF listed
<1> HIDE DEF call
<1>5. SoundCall(call)
  BY <1>2, <1>3 DEF SoundCall
<1>6. /\ listed \in CallType /\ listed.pc = "listed" /\ listed.left = call.left
      /\ listed.found = call.found /\ listed.stayed = call.stayed /\ listed.seen = call.seen
  BY <1>3 DEF CallType
<1> HIDE DEF listed
<1>7. CASE call.left = {} /\ CallBecomes(c, listed)
  <2>1. SoundCall(listed)
    BY <1>3, <1>5, <1>6, <1>7 DEF SoundCall
  <2> QED
    BY <1>7, <2>1, CallLemma
<1>8. CASE CallBecomes(c, call)
  BY <1>5, <1>8, CallLemma
<1> QED
  BY <1>4, <1>7, <1>8

\* A queue appears in Redis while a SCAN runs.
LEMMA AppearsKeepsListing ==
    ASSUME ListingIInv, Appears
    PROVE  ListingIInv'
<1>1. /\ explicit' = explicit /\ discover' = discover
      /\ calls' = [c \in Callers |-> IF calls[c].pc = "scan"
                                     THEN [calls[c] EXCEPT !.stayed = calls[c].stayed \cap meta',
                                                           !.seen = calls[c].seen \cup meta']
                                     ELSE calls[c]]
  BY DEF Appears, registryConfig
<1>2. meta' \in SUBSET Names
  BY DEF Appears, ListingIInv
<1>3. ASSUME NEW c \in Callers
      PROVE  /\ calls'[c] \in CallType
             /\ calls'[c].pc = calls[c].pc /\ calls'[c].name = calls[c].name
             /\ calls'[c].left = calls[c].left /\ calls'[c].found = calls[c].found
             /\ calls[c].pc = "scan" => /\ calls'[c].stayed = calls[c].stayed \cap meta'
                                        /\ calls'[c].seen = calls[c].seen \cup meta'
             /\ calls[c].pc # "scan" => calls'[c] = calls[c]
  <2>1. calls[c] \in CallType
    BY DEF ListingIInv
  <2>2. CASE calls[c].pc = "scan"
    <3>1. calls'[c] = [calls[c] EXCEPT !.stayed = calls[c].stayed \cap meta',
                                       !.seen = calls[c].seen \cup meta']
      BY <1>1, <2>2
    <3>2. calls[c].stayed \cap meta' \in SUBSET Names /\ calls[c].seen \cup meta' \in SUBSET Names
      BY <1>2, <2>1 DEF CallType
    <3> QED
      BY <2>1, <2>2, <3>1, <3>2 DEF CallType
  <2>3. CASE calls[c].pc # "scan"
    BY <1>1, <2>1, <2>3
  <2> QED
    BY <2>2, <2>3
<1>4. calls' \in [Callers -> CallType]
  BY <1>1, <1>3
<1>5. ASSUME NEW c \in Callers PROVE SoundCall(calls[c])'
  <2> DEFINE q == calls[c]
             call == calls'[c]
  <2>1. SoundCall(q)
    BY DEF ListingIInv
  <2>2. /\ call \in CallType
        /\ call.pc = q.pc /\ call.name = q.name /\ call.left = q.left /\ call.found = q.found
        /\ q.pc = "scan" => call.stayed = q.stayed \cap meta' /\ call.seen = q.seen \cup meta'
        /\ q.pc # "scan" => call = q
    BY <1>3
  <2> HIDE DEF q, call
  <2>3. CASE q.pc = "scan"
    <3>1. /\ call.stayed \subseteq call.found \cup call.left /\ call.stayed \subseteq meta'
          /\ call.found \subseteq call.seen /\ meta' \subseteq call.seen
      BY <2>1, <2>2, <2>3 DEF SoundCall
    <3>2. /\ call.pc # "exists" /\ call.pc # "listed"
      BY <2>2, <2>3
    <3> QED
      BY <2>2, <3>1, <3>2 DEF SoundCall, call
  <2>4. CASE q.pc # "scan"
    BY <1>1, <2>1, <2>2, <2>4 DEF SoundCall, call
  <2> QED
    BY <2>3, <2>4
<1> QED
  BY <1>1, <1>2, <1>4, <1>5 DEF ListingIInv

\* No call of the registry is under way initially.
LEMMA InitListing == RegistryInit => ListingIInv
<1> SUFFICES ASSUME RegistryInit PROVE ListingIInv
  OBVIOUS
<1>1. calls \in [Callers -> CallType] /\ \A c \in Callers : calls[c] = NoCall
  BY NoCallLemma DEF RegistryInit
<1>2. explicit \in SUBSET Names /\ discover \in BOOLEAN /\ meta \in SUBSET Names
  BY DEF RegistryInit
<1> QED
  BY <1>1, <1>2, NoCallLemma DEF ListingIInv

\* The steps that leave what listings read and answer as it was.
LEMMA ListingUnchangedLemma ==
    ASSUME ListingIInv, explicit' = explicit, discover' = discover, meta' = meta, calls' = calls
    PROVE  ListingIInv'
BY DEF ListingIInv, SoundCall

\* Every step of the server keeps the invariant of its listings.
LEMMA NextListing == ListingIInv /\ [Next]_vars => ListingIInv'
<1> SUFFICES ASSUME ListingIInv, [Next]_vars PROVE ListingIInv'
  OBVIOUS
<1>1. CASE UNCHANGED registryVars
  BY <1>1, ListingUnchangedLemma DEF registryVars, registryConfig
<1>2. CASE RegistryNext
  <2>1. ASSUME NEW c \in Callers, resolve(c) PROVE ListingIInv'
    BY <2>1, ResolveKeepsListing
  <2>2. ASSUME NEW c \in Callers, queueExists(c) PROVE ListingIInv'
    <3>1. CallBecomes(c, Ended("done")) \/ CallBecomes(c, Ended("refused"))
      BY <2>2 DEF queueExists
    <3>2. SoundCall(Ended("done")) /\ SoundCall(Ended("refused"))
      BY NoCallLemma
    <3> QED
      BY <3>1, <3>2, CallLemma
  <2>3. ASSUME NEW c \in Callers, listQueueNames(c) PROVE ListingIInv'
    BY <2>3, ListKeepsListing
  <2>4. ASSUME NEW c \in Callers, discoverQueueNames(c) PROVE ListingIInv'
    BY <2>4, DiscoverKeepsListing
  <2>5. ASSUME NEW c \in Callers, Rejected(c) PROVE ListingIInv'
    <3>1. CallBecomes(c, Ended("failed")) /\ SoundCall(Ended("failed"))
      BY <2>5, NoCallLemma DEF Rejected
    <3> QED
      BY <3>1, CallLemma
  <2>6. CASE ruleQueue
    BY <2>6, ListingUnchangedLemma DEF ruleQueue, registryConfig
  <2>7. CASE Appears
    BY <2>7, AppearsKeepsListing
  <2>8. ASSUME NEW d \in Closers, NEW pc, NEW waits, CloserBecomes(d, pc, waits) PROVE ListingIInv'
    BY <2>8, ListingUnchangedLemma DEF CloserBecomes, registryConfig
  <2>9. ASSUME NEW d \in Closers,
               \/ closeApp(d) \/ close(d) \/ queuesClosed(d) \/ flowClosed(d) \/ adminClosed(d)
               \/ CloseRejects(d)
        PROVE  ListingIInv'
    <3>1. \E pc, waits : CloserBecomes(d, pc, waits)
      BY <2>9 DEF closeApp, close, queuesClosed, flowClosed, adminClosed, CloseRejects, QuitAdmin
    <3> QED
      BY <2>8, <3>1
  <2>10. ASSUME NEW i \in open, Closed(i) PROVE ListingIInv'
    BY <2>10, ListingUnchangedLemma DEF Closed, registryConfig
  <2> QED
    BY <1>2, <2>1, <2>2, <2>3, <2>4, <2>5, <2>6, <2>7, <2>9, <2>10 DEF RegistryNext
<1> QED
  BY <1>1, <1>2 DEF Next, vars

(***************************************************************************)
(* A listing that discovers (registry.ts, discoverQueueNames) names every  *)
(* queue that was in Redis all the while and none that never was, for any  *)
(* pages SCAN gives and any coming and going of queues.                    *)
(***************************************************************************)
THEOREM ListingsAreComplete == Spec => []ListsWhatIsThere
<1>1. Init => ListingIInv
  BY InitListing DEF Init
<1>2. ListingIInv => ListsWhatIsThere
  BY DEF ListingIInv, SoundCall, ListsWhatIsThere
<1> QED
  BY <1>1, <1>2, NextListing, PTL DEF Spec

-----------------------------------------------------------------------------
(* QueueRegistry: the connections. *)

\* A connection is of a queue, of the flow producer or of the admin client.
LEMMA KindsLemma ==
    /\ Names \subseteq Kinds /\ "flow" \in Kinds /\ "admin" \in Kinds
    /\ "flow" \notin Names /\ "admin" \notin Names
    /\ \A k \in Kinds : k \in Names \/ k = "flow" \/ k = "admin"
BY RegistryAssumption DEF Kinds

\* What requests and the evaluator open is new, and owed by no close().
LEMMA OpensLemma ==
    ASSUME ConnectionsIInv, NEW kinds \in SUBSET Kinds, Opens(kinds),
           closers' = closers, owed' = owed, given' = given
    PROVE  ConnectionsIInv'
<1> DEFINE new == Missing(kinds)
           fresh == {<<k, made[k] + 1>> : k \in new}
<1>1. /\ given \in BOOLEAN
      /\ cached \in [Kinds -> Nat] /\ made \in [Kinds -> Nat]
      /\ open \in SUBSET (Kinds \X (Nat \ {0})) /\ owed \in SUBSET (Kinds \X (Nat \ {0}))
      /\ closers \in [Closers -> CloserType]
  BY DEF ConnectionsIInv, ConnectionsTypeOK
<1>2. /\ \A k \in Kinds : cached[k] <= made[k]
      /\ \A i \in open \cup owed : i[2] <= made[i[1]]
      /\ given = TRUE => \A i \in open : i[1] # "admin"
      /\ ~Begun => \A i \in open : i[2] = cached[i[1]]
      /\ \A i \in owed \cap open : i[2] = cached[i[1]]
  BY DEF ConnectionsIInv, Numbered
<1>3. new \subseteq Kinds /\ \A k \in new : cached[k] = 0 /\ ~(k = "admin" /\ given)
  BY DEF Missing
<1>4. /\ made' = [k \in Kinds |-> IF k \in new THEN made[k] + 1 ELSE made[k]]
      /\ cached' = [k \in Kinds |-> IF k \in new THEN made[k] + 1 ELSE cached[k]]
      /\ open' = open \cup fresh
  BY DEF Opens
<1> HIDE DEF new
<1>5. /\ made' \in [Kinds -> Nat] /\ cached' \in [Kinds -> Nat]
      /\ \A k \in Kinds : /\ made'[k] = IF k \in new THEN made[k] + 1 ELSE made[k]
                          /\ cached'[k] = IF k \in new THEN made[k] + 1 ELSE cached[k]
  BY <1>1, <1>4
<1>6. \A i \in fresh : i[1] \in new /\ i[1] \in Kinds /\ i[2] = made[i[1]] + 1 /\ i[2] \in Nat \ {0}
                       /\ i \in Kinds \X (Nat \ {0})
  BY <1>1, <1>3
<1> HIDE DEF fresh
<1>7. open' \in SUBSET (Kinds \X (Nat \ {0}))
  BY <1>1, <1>4, <1>6
<1>8. \A i \in open \cup owed : i[1] \in Kinds /\ i[2] \in Nat \ {0}
  BY <1>1
<1>9. owed \cap open' = owed \cap open
  <2>1. \A i \in owed : i \notin fresh
    <3> SUFFICES ASSUME NEW i \in owed, i \in fresh PROVE FALSE
      OBVIOUS
    <3>1. made[i[1]] \in Nat /\ i[2] <= made[i[1]] /\ i[2] = made[i[1]] + 1
      BY <1>1, <1>2, <1>6
    <3> QED
      BY <3>1
  <2> QED
    BY <1>4, <2>1
<1>10. \A i \in open : i[2] = cached[i[1]] => i[2] = cached'[i[1]]
  BY <1>3, <1>5, <1>8
<1>11. Begun' = Begun
  BY DEF Begun
<1>12. Numbered'
  <2>1. \A k \in Kinds : cached'[k] <= made'[k]
    BY <1>1, <1>2, <1>5
  <2>2. ASSUME NEW i \in open' \cup owed' PROVE i[2] <= made'[i[1]]
    <3>1. CASE i \in open \cup owed
      <4>1. i[1] \in Kinds /\ i[2] \in Nat /\ made[i[1]] \in Nat /\ i[2] <= made[i[1]]
        BY <1>1, <1>2, <1>8, <3>1
      <4> QED
        BY <1>5, <4>1
    <3>2. CASE i \in fresh
      <4>1. i[1] \in Kinds /\ i[2] \in Nat /\ made'[i[1]] = i[2]
        BY <1>5, <1>6, <3>2
      <4> QED
        BY <4>1
    <3> QED
      BY <1>4, <3>1, <3>2
  <2>3. given' = TRUE => \A i \in open' : i[1] # "admin"
    BY <1>2, <1>3, <1>4, <1>6
  <2>4. \A i \in fresh : i[2] = cached'[i[1]]
    BY <1>5, <1>6
  <2>5. ~Begun' => \A i \in open' : i[2] = cached'[i[1]]
    BY <1>2, <1>4, <1>10, <1>11, <2>4
  <2>6. \A i \in owed' \cap open' : i[2] = cached'[i[1]]
    BY <1>2, <1>9, <1>10
  <2> QED
    BY <2>1, <2>2, <2>3, <2>5, <2>6 DEF Numbered
<1>13. \A d \in Closers : SoundCloser(closers[d])'
  BY <1>9 DEF ConnectionsIInv, SoundCloser, Owing
<1> QED
  BY <1>1, <1>5, <1>7, <1>12, <1>13 DEF ConnectionsIInv, ConnectionsTypeOK

\* The steps that leave the connections as they were.
LEMMA ConnectionsUnchangedLemma ==
    ASSUME ConnectionsIInv, UNCHANGED <<given, cached, made, open, owed, closers>>
    PROVE  ConnectionsIInv'
BY DEF ConnectionsIInv, ConnectionsTypeOK, Numbered, Begun, SoundCloser, Owing

\* A connection that close() waits for is closed.
LEMMA ClosedLemma ==
    ASSUME ConnectionsIInv, NEW i \in open, Closed(i)
    PROVE  ConnectionsIInv'
<1>1. /\ open' = open \ {i} /\ given' = given /\ cached' = cached /\ made' = made
      /\ closers' = closers /\ owed' = owed
  BY DEF Closed, registryConfig
<1>2. ConnectionsTypeOK'
  BY <1>1 DEF ConnectionsIInv, ConnectionsTypeOK
<1>3. Numbered'
  BY <1>1 DEF ConnectionsIInv, Numbered, Begun
<1>4. \A d \in Closers : SoundCloser(closers[d])'
  BY <1>1 DEF ConnectionsIInv, SoundCloser, Owing
<1> QED
  BY <1>2, <1>3, <1>4 DEF ConnectionsIInv

\* A close() that has begun goes on: what it leaves in the cache is what is owed.
LEMMA CloserLemma ==
    ASSUME ConnectionsIInv, NEW d \in Closers,
           NEW pc \in {"queues", "flow", "admin", "done", "rejected"},
           NEW waits \in SUBSET (Kinds \X Nat),
           CloserBecomes(d, pc, waits), owed' = owed,
           cached' \in [Kinds -> Nat], \A k \in Kinds : cached'[k] <= made[k],
           \A i \in owed \cap open : i[2] = cached'[i[1]],
           SoundCloser([pc |-> pc, waits |-> waits])
    PROVE  ConnectionsIInv'
<1>1. /\ closers' = [closers EXCEPT ![d] = [pc |-> pc, waits |-> waits]]
      /\ given' = given /\ made' = made /\ open' = open
  BY DEF CloserBecomes, registryConfig
<1>2. [pc |-> pc, waits |-> waits] \in CloserType
  BY DEF CloserType
<1>3. /\ closers' \in [Closers -> CloserType]
      /\ \A e \in Closers : closers'[e] = IF e = d THEN [pc |-> pc, waits |-> waits] ELSE closers[e]
  BY <1>1, <1>2 DEF ConnectionsIInv, ConnectionsTypeOK
<1>4. ConnectionsTypeOK'
  BY <1>1, <1>3 DEF ConnectionsIInv, ConnectionsTypeOK
<1>5. Begun'
  BY <1>3 DEF Begun
<1>6. Numbered'
  BY <1>1, <1>5 DEF ConnectionsIInv, Numbered
<1>7. \A e \in Closers : SoundCloser(closers'[e])
  BY <1>3 DEF ConnectionsIInv
<1>8. \A e \in Closers : SoundCloser(closers[e])'
  BY <1>1, <1>7 DEF SoundCloser, Owing
<1> QED
  BY <1>4, <1>6, <1>8 DEF ConnectionsIInv

\* close() of the app begins with the evaluator: the registry is as it was.
LEMMA CloseAppKeeps ==
    ASSUME ConnectionsIInv, NEW d \in Closers, closeApp(d)
    PROVE  ConnectionsIInv'
<1> DEFINE closer == [pc |-> "evaluator", waits |-> {}]
<1>1. /\ closers' = [closers EXCEPT ![d] = closer]
      /\ given' = given /\ made' = made /\ open' = open /\ cached' = cached /\ owed' = owed
      /\ closers[d].pc = "idle"
  BY DEF closeApp, CloserBecomes, registryConfig
<1>2. closer \in CloserType /\ closer.pc = "evaluator"
  BY DEF CloserType
<1> HIDE DEF closer
<1>3. /\ closers' \in [Closers -> CloserType]
      /\ \A e \in Closers : closers'[e] = IF e = d THEN closer ELSE closers[e]
  BY <1>1, <1>2 DEF ConnectionsIInv, ConnectionsTypeOK
<1>4. ConnectionsTypeOK'
  BY <1>1, <1>3 DEF ConnectionsIInv, ConnectionsTypeOK
<1>5. Begun => Begun'
  BY <1>1, <1>3 DEF Begun
<1>6. Numbered'
  BY <1>1, <1>5 DEF ConnectionsIInv, Numbered
<1>7. \A e \in Closers : SoundCloser(closers'[e])
  BY <1>2, <1>3 DEF ConnectionsIInv, SoundCloser
<1>8. \A e \in Closers : SoundCloser(closers[e])'
  BY <1>1, <1>7 DEF SoundCloser, Owing
<1> QED
  BY <1>4, <1>6, <1>8 DEF ConnectionsIInv

\* The close() that begins first takes note of what is open, which is what is in
\* the cache; a later one waits for what is still there.
LEMMA CloseKeeps ==
    ASSUME ConnectionsIInv, NEW d \in Closers, close(d)
    PROVE  ConnectionsIInv'
<1> DEFINE waits == {Instance(n) : n \in {n \in Names : cached[n] # 0}}
           closer == [pc |-> "queues", waits |-> waits]
<1>1. ConnectionsTypeOK /\ Numbered
  BY DEF ConnectionsIInv
<1>2. /\ owed' = IF Begun THEN owed ELSE open
      /\ CloserBecomes(d, "queues", waits) /\ cached' = cached
  BY DEF close, Begun
<1>3. waits \in SUBSET (Kinds \X Nat)
  BY <1>1, KindsLemma DEF ConnectionsTypeOK, Instance
<1>4. ASSUME NEW i \in open, i[1] \in Names, i[2] = cached[i[1]] PROVE i \in waits
  <2>1. i = <<i[1], i[2]>> /\ i[2] # 0
    BY <1>1 DEF ConnectionsTypeOK
  <2> QED
    BY <1>4, <2>1 DEF Instance
<1> HIDE DEF waits
<1>5. CASE Begun
  <2>1. Owing(Names) \subseteq waits
    BY <1>1, <1>4 DEF Owing, Numbered
  <2>2. SoundCloser(closer)
    BY <2>1 DEF SoundCloser
  <2>3. /\ cached' \in [Kinds -> Nat] /\ \A k \in Kinds : cached'[k] <= made[k]
        /\ \A i \in owed \cap open : i[2] = cached'[i[1]]
    BY <1>1, <1>2 DEF ConnectionsTypeOK, Numbered
  <2> QED
    BY <1>2, <1>3, <1>5, <2>2, <2>3, CloserLemma
<1>6. CASE ~Begun
  <2>1. /\ owed' = open /\ open' = open /\ made' = made /\ given' = given
        /\ closers' = [closers EXCEPT ![d] = closer]
    BY <1>2, <1>6 DEF CloserBecomes, registryConfig
  <2>2. closer \in CloserType /\ closer.pc = "queues" /\ closer.waits = waits
    BY <1>3 DEF CloserType
  <2> HIDE DEF closer
  <2>3. /\ closers' \in [Closers -> CloserType]
        /\ \A e \in Closers : closers'[e] = IF e = d THEN closer ELSE closers[e]
    BY <1>1, <2>1, <2>2 DEF ConnectionsTypeOK
  <2>4. ConnectionsTypeOK'
    BY <1>1, <1>2, <2>1, <2>3 DEF ConnectionsTypeOK
  <2>5. \A i \in open : i[2] = cached[i[1]]
    BY <1>1, <1>6 DEF Numbered
  <2>6. Numbered'
    BY <1>1, <1>2, <2>1, <2>5 DEF Numbered
  <2>7. \A i \in open : i[1] \in Names => i \in waits
    BY <1>4, <2>5
  <2>8. ASSUME NEW e \in Closers PROVE SoundCloser(closers[e])'
    <3>1. CASE e = d
      <4>1. closers'[e] = closer
        BY <2>3, <3>1
      <4> QED
        BY <2>1, <2>2, <2>7, <4>1 DEF SoundCloser, Owing
    <3>2. CASE e # d
      <4>1. closers'[e].pc \in {"idle", "evaluator"}
        BY <1>6, <2>3, <3>2 DEF Begun
      <4> QED
        BY <4>1 DEF SoundCloser
    <3> QED
      BY <3>1, <3>2
  <2> QED
    BY <2>4, <2>6, <2>8 DEF ConnectionsIInv
<1> QED
  BY <1>5, <1>6

\* A kind that a close() owes and has waited for is closed.
LEMMA WaitedLemma ==
    ASSUME NEW d \in Closers, NEW pc, NEW kinds, Waited(d, pc), Owing(kinds) \subseteq closers[d].waits
    PROVE  Owing(kinds) = {}
BY DEF Waited, Owing

\* The cache loses only kinds of which nothing is owed.
LEMMA EmptiesLemma ==
    ASSUME ConnectionsIInv, NEW kinds \in SUBSET Kinds, Empties(kinds), Owing(kinds) = {}
    PROVE  /\ cached' \in [Kinds -> Nat] /\ \A k \in Kinds : cached'[k] <= made[k]
           /\ \A i \in owed \cap open : i[2] = cached'[i[1]]
<1>1. ConnectionsTypeOK /\ Numbered
  BY DEF ConnectionsIInv
<1>2. cached' = [k \in Kinds |-> IF k \in kinds THEN 0 ELSE cached[k]]
  BY DEF Empties
<1>3. cached' \in [Kinds -> Nat] /\ \A k \in Kinds : cached'[k] <= made[k]
  BY <1>1, <1>2 DEF ConnectionsTypeOK, Numbered
<1>4. \A i \in owed \cap open : i[1] \in Kinds /\ i[1] \notin kinds
  BY <1>1 DEF ConnectionsTypeOK, Owing
<1> QED
  BY <1>1, <1>2, <1>3, <1>4 DEF Numbered

\* The last of the three is the client for SCANs, which close() leaves alone when
\* it was given.
LEMMA QuitAdminLemma ==
    ASSUME ConnectionsIInv, NEW d \in Closers, QuitAdmin(d), Owing(Names) = {}, Owing({"flow"}) = {}
    PROVE  \E pc \in {"admin", "done"}, waits \in SUBSET (Kinds \X Nat) :
              CloserBecomes(d, pc, waits) /\ SoundCloser([pc |-> pc, waits |-> waits])
<1>1. ConnectionsTypeOK /\ Numbered
  BY DEF ConnectionsIInv
<1>2. \A i \in owed \cap open : i[1] = "admin" /\ i = <<"admin", cached["admin"]>> /\ cached["admin"] # 0
  <2> SUFFICES ASSUME NEW i \in owed \cap open
               PROVE  i[1] = "admin" /\ i = <<"admin", cached["admin"]>> /\ cached["admin"] # 0
    OBVIOUS
  <2>1. i[1] \in Kinds /\ i[2] # 0 /\ i = <<i[1], i[2]>> /\ i[2] = cached[i[1]]
    BY <1>1 DEF ConnectionsTypeOK, Numbered
  <2>2. i[1] \notin Names /\ i[1] # "flow"
    BY DEF Owing
  <2> QED
    BY <2>1, <2>2, KindsLemma
<1>3. CASE ~given /\ cached["admin"] # 0
  <2> DEFINE waits == {Instance("admin")}
  <2>1. CloserBecomes(d, "admin", waits)
    BY <1>3 DEF QuitAdmin
  <2>2. waits \in SUBSET (Kinds \X Nat)
    BY <1>1, KindsLemma DEF Instance, ConnectionsTypeOK
  <2>3. Owing({"admin"}) \subseteq waits
    BY <1>2 DEF Owing, Instance
  <2> HIDE DEF waits
  <2>4. SoundCloser([pc |-> "admin", waits |-> waits])
    BY <2>3 DEF SoundCloser
  <2> QED
    BY <2>1, <2>2, <2>4
<1>4. CASE ~(~given /\ cached["admin"] # 0)
  <2>1. CloserBecomes(d, "done", {})
    BY <1>4 DEF QuitAdmin
  <2>2. owed \cap open = {}
    BY <1>1, <1>2, <1>4 DEF ConnectionsTypeOK, Numbered
  <2>3. SoundCloser([pc |-> "done", waits |-> {}])
    BY <2>2 DEF SoundCloser
  <2>4. {} \in SUBSET (Kinds \X Nat)
    OBVIOUS
  <2> QED
    BY <2>1, <2>3, <2>4
<1> QED
  BY <1>3, <1>4

\* The queues are closed: close() goes on to the flow producer or the admin client.
LEMMA QueuesClosedKeeps ==
    ASSUME ConnectionsIInv, NEW d \in Closers, queuesClosed(d)
    PROVE  ConnectionsIInv'
<1>1. ConnectionsTypeOK /\ Numbered /\ SoundCloser(closers[d])
  BY DEF ConnectionsIInv
<1>2. Waited(d, "queues") /\ closers[d].pc = "queues" /\ Empties(Names) /\ owed' = owed
  BY DEF queuesClosed, Waited
<1>3. Owing(Names) = {}
  BY <1>1, <1>2, WaitedLemma DEF SoundCloser
<1>4. /\ cached' \in [Kinds -> Nat] /\ \A k \in Kinds : cached'[k] <= made[k]
      /\ \A i \in owed \cap open : i[2] = cached'[i[1]]
  BY <1>2, <1>3, KindsLemma, EmptiesLemma
<1>5. CASE cached["flow"] # 0
  <2> DEFINE waits == {Instance("flow")}
  <2>1. CloserBecomes(d, "flow", waits)
    BY <1>5 DEF queuesClosed
  <2>2. waits \in SUBSET (Kinds \X Nat)
    BY <1>1, KindsLemma DEF Instance, ConnectionsTypeOK
  <2>3. Owing({"flow"}) \subseteq waits
    BY <1>1 DEF Owing, Instance, Numbered, ConnectionsTypeOK
  <2> HIDE DEF waits
  <2>4. SoundCloser([pc |-> "flow", waits |-> waits])
    BY <1>3, <2>3 DEF SoundCloser
  <2> QED
    BY <1>2, <1>4, <2>1, <2>2, <2>4, CloserLemma
<1>6. CASE cached["flow"] = 0
  <2>1. Owing({"flow"}) = {}
    BY <1>1, <1>6 DEF Owing, Numbered, ConnectionsTypeOK
  <2>2. QuitAdmin(d)
    BY <1>6 DEF queuesClosed
  <2>3. PICK pc \in {"admin", "done"}, waits \in SUBSET (Kinds \X Nat) :
            CloserBecomes(d, pc, waits) /\ SoundCloser([pc |-> pc, waits |-> waits])
    BY <1>3, <2>1, <2>2, QuitAdminLemma
  <2> QED
    BY <1>2, <1>4, <2>3, CloserLemma
<1> QED
  BY <1>5, <1>6

\* The flow producer is closed, and close() goes on to the admin client.
LEMMA FlowClosedKeeps ==
    ASSUME ConnectionsIInv, NEW d \in Closers, flowClosed(d)
    PROVE  ConnectionsIInv'
<1>1. SoundCloser(closers[d])
  BY DEF ConnectionsIInv
<1>2. /\ Waited(d, "flow") /\ closers[d].pc = "flow" /\ Empties({"flow"}) /\ owed' = owed
      /\ QuitAdmin(d)
  BY DEF flowClosed, Waited
<1>3. Owing({"flow"}) = {} /\ Owing(Names) = {}
  BY <1>1, <1>2, WaitedLemma DEF SoundCloser
<1>4. /\ cached' \in [Kinds -> Nat] /\ \A k \in Kinds : cached'[k] <= made[k]
      /\ \A i \in owed \cap open : i[2] = cached'[i[1]]
  BY <1>2, <1>3, KindsLemma, EmptiesLemma
<1>5. PICK pc \in {"admin", "done"}, waits \in SUBSET (Kinds \X Nat) :
          CloserBecomes(d, pc, waits) /\ SoundCloser([pc |-> pc, waits |-> waits])
  BY <1>2, <1>3, QuitAdminLemma
<1> QED
  BY <1>2, <1>4, <1>5, CloserLemma

\* The admin client is closed, and close() returns.
LEMMA AdminClosedKeeps ==
    ASSUME ConnectionsIInv, NEW d \in Closers, adminClosed(d)
    PROVE  ConnectionsIInv'
<1>1. SoundCloser(closers[d]) /\ ConnectionsTypeOK
  BY DEF ConnectionsIInv
<1>2. /\ Waited(d, "admin") /\ closers[d].pc = "admin" /\ Empties({"admin"}) /\ owed' = owed
      /\ CloserBecomes(d, "done", {})
  BY DEF adminClosed, Waited
<1>3. Owing({"admin"}) = {} /\ Owing({"flow"}) = {} /\ Owing(Names) = {}
  BY <1>1, <1>2, WaitedLemma DEF SoundCloser
<1>4. /\ cached' \in [Kinds -> Nat] /\ \A k \in Kinds : cached'[k] <= made[k]
      /\ \A i \in owed \cap open : i[2] = cached'[i[1]]
  BY <1>2, <1>3, KindsLemma, EmptiesLemma
<1>5. owed \cap open = {}
  BY <1>1, <1>3, KindsLemma DEF Owing, ConnectionsTypeOK
<1>6. SoundCloser([pc |-> "done", waits |-> {}]) /\ {} \in SUBSET (Kinds \X Nat)
  BY <1>5 DEF SoundCloser
<1> QED
  BY <1>2, <1>4, <1>6, CloserLemma

\* One close fails, and with it close(): it leaves the others to close.
LEMMA CloseRejectsKeeps ==
    ASSUME ConnectionsIInv, NEW d \in Closers, CloseRejects(d)
    PROVE  ConnectionsIInv'
<1>1. ConnectionsTypeOK /\ Numbered
  BY DEF ConnectionsIInv
<1>2. CloserBecomes(d, "rejected", closers[d].waits) /\ cached' = cached /\ owed' = owed
  BY DEF CloseRejects
<1>3. /\ closers[d].waits \in SUBSET (Kinds \X Nat)
      /\ cached' \in [Kinds -> Nat] /\ \A k \in Kinds : cached'[k] <= made[k]
      /\ \A i \in owed \cap open : i[2] = cached'[i[1]]
  BY <1>1, <1>2 DEF ConnectionsTypeOK, Numbered, CloserType
<1>4. SoundCloser([pc |-> "rejected", waits |-> closers[d].waits])
  BY DEF SoundCloser
<1> QED
  BY <1>2, <1>3, <1>4, CloserLemma

\* Nothing is open initially.
LEMMA InitConnections == RegistryInit => ConnectionsIInv
<1> SUFFICES ASSUME RegistryInit PROVE ConnectionsIInv
  OBVIOUS
<1>1. [pc |-> "idle", waits |-> {}] \in CloserType
  BY DEF CloserType
<1>2. /\ given \in BOOLEAN /\ cached = [k \in Kinds |-> 0] /\ made = cached
      /\ open = {} /\ owed = {} /\ closers = [d \in Closers |-> [pc |-> "idle", waits |-> {}]]
  BY DEF RegistryInit
<1>3. ConnectionsTypeOK
  BY <1>1, <1>2 DEF ConnectionsTypeOK
<1>4. Numbered
  BY <1>2 DEF Numbered
<1>5. \A d \in Closers : SoundCloser(closers[d])
  BY <1>2 DEF SoundCloser
<1> QED
  BY <1>3, <1>4, <1>5 DEF ConnectionsIInv

\* The calls of the registry open what they need, and cache what they open.
LEMMA RequestOpensLemma ==
    ASSUME ConnectionsIInv, ListingIInv, NEW c \in Callers,
           resolve(c) \/ queueExists(c) \/ listQueueNames(c) \/ discoverQueueNames(c) \/ Rejected(c)
    PROVE  ConnectionsIInv'
<1>1. \E call : CallBecomes(c, call)
  BY DEF resolve, queueExists, listQueueNames, discoverQueueNames, Rejected
<1>2. closers' = closers /\ owed' = owed /\ given' = given
  BY <1>1 DEF CallBecomes, registryConfig
<1>3. ASSUME NEW name \in Names, NEW flow
      PROVE  {name} \cup (IF flow THEN {"flow"} ELSE {}) \in SUBSET Kinds
  BY KindsLemma
<1>4. explicit \in SUBSET Kinds /\ {"admin"} \in SUBSET Kinds
  BY KindsLemma DEF ListingIInv
<1>5. \/ \E kinds \in SUBSET Kinds : Opens(kinds)
      \/ UNCHANGED <<cached, made, open>>
  <2>1. CASE resolve(c)
    <3>1. PICK name \in Names, flow \in BOOLEAN :
             \/ Found([NoCall EXCEPT !.name = name, !.flow = flow])
             \/ UNCHANGED <<cached, made, open>>
             \/ Opens({"admin"})
      BY <2>1 DEF resolve
    <3> DEFINE call == [NoCall EXCEPT !.name = name, !.flow = flow]
    <3>2. call.name = name
      BY NoCallLemma DEF CallType
    <3> HIDE DEF call
    <3>3. {call.name} \cup (IF call.flow THEN {"flow"} ELSE {}) \in SUBSET Kinds
      BY <1>3, <3>2
    <3>4. Found(call) => Opens({call.name} \cup (IF call.flow THEN {"flow"} ELSE {}))
      BY DEF Found
    <3> QED
      BY <1>4, <3>1, <3>3, <3>4 DEF call
  <2>2. CASE queueExists(c)
    <3>1. Found(calls[c]) \/ UNCHANGED <<cached, made, open>>
      BY <2>2 DEF queueExists
    <3>2. calls[c].name \in Names
      BY <2>2 DEF queueExists, ListingIInv, SoundCall
    <3>3. {calls[c].name} \cup (IF calls[c].flow THEN {"flow"} ELSE {}) \in SUBSET Kinds
      BY <1>3, <3>2
    <3> QED
      BY <3>1, <3>3 DEF Found
  <2>3. CASE listQueueNames(c)
    <3>1. Opens({"admin"}) \/ Opens(explicit)
      BY <2>3 DEF listQueueNames
    <3> QED
      BY <1>4, <3>1
  <2>4. CASE discoverQueueNames(c)
    <3>1. PICK page \in SUBSET Names :
            LET call == [calls[c] EXCEPT !.left = Covered(@, page), !.found = @ \cup (page \cap meta)]
            IN  Opens(explicit \cup call.found) \/ Opens({"admin"})
      BY <2>4 DEF discoverQueueNames
    <3> DEFINE call == [calls[c] EXCEPT !.left = Covered(calls[c].left, page),
                                        !.found = calls[c].found \cup (page \cap meta)]
    <3>2. call.found = calls[c].found \cup (page \cap meta) /\ calls[c].found \in SUBSET Names
      BY DEF ListingIInv, CallType
    <3>3. Opens(explicit \cup call.found) \/ Opens({"admin"})
      BY <3>1
    <3> HIDE DEF call
    <3>4. explicit \cup call.found \in SUBSET Kinds
      BY <1>4, <3>2, KindsLemma
    <3> QED
      BY <1>4, <3>3, <3>4
  <2>5. CASE Rejected(c)
    BY <2>5 DEF Rejected
  <2> QED
    BY <2>1, <2>2, <2>3, <2>4, <2>5
<1> QED
  BY <1>2, <1>5, OpensLemma, ConnectionsUnchangedLemma

\* Every step of the server keeps the invariant of its connections.
LEMMA NextConnections == ConnectionsIInv /\ ListingIInv /\ [Next]_vars => ConnectionsIInv'
<1> SUFFICES ASSUME ConnectionsIInv, ListingIInv, [Next]_vars PROVE ConnectionsIInv'
  OBVIOUS
<1>1. CASE UNCHANGED registryVars
  BY <1>1, ConnectionsUnchangedLemma DEF registryVars, registryConfig
<1>2. CASE RegistryNext
  <2>1. ASSUME NEW c \in Callers,
               resolve(c) \/ queueExists(c) \/ listQueueNames(c) \/ discoverQueueNames(c) \/ Rejected(c)
        PROVE  ConnectionsIInv'
    BY <2>1, RequestOpensLemma
  <2>2. CASE ruleQueue
    <3>1. PICK name \in Names : Opens({name})
      BY <2>2 DEF ruleQueue
    <3>2. closers' = closers /\ owed' = owed /\ given' = given
      BY <2>2 DEF ruleQueue, registryConfig
    <3>3. {name} \in SUBSET Kinds
      BY KindsLemma
    <3> QED
      BY <3>1, <3>2, <3>3, OpensLemma
  <2>3. CASE Appears
    BY <2>3, ConnectionsUnchangedLemma DEF Appears, registryConfig
  <2>4. ASSUME NEW d \in Closers, closeApp(d) PROVE ConnectionsIInv'
    BY <2>4, CloseAppKeeps
  <2>5. ASSUME NEW d \in Closers, close(d) PROVE ConnectionsIInv'
    BY <2>5, CloseKeeps
  <2>6. ASSUME NEW d \in Closers, queuesClosed(d) PROVE ConnectionsIInv'
    BY <2>6, QueuesClosedKeeps
  <2>7. ASSUME NEW d \in Closers, flowClosed(d) PROVE ConnectionsIInv'
    BY <2>7, FlowClosedKeeps
  <2>8. ASSUME NEW d \in Closers, adminClosed(d) PROVE ConnectionsIInv'
    BY <2>8, AdminClosedKeeps
  <2>9. ASSUME NEW d \in Closers, CloseRejects(d) PROVE ConnectionsIInv'
    BY <2>9, CloseRejectsKeeps
  <2>10. ASSUME NEW i \in open, Closed(i) PROVE ConnectionsIInv'
    BY <2>10, ClosedLemma
  <2> QED
    BY <1>2, <2>1, <2>2, <2>3, <2>4, <2>5, <2>6, <2>7, <2>8, <2>9, <2>10 DEF RegistryNext
<1> QED
  BY <1>1, <1>2 DEF Next, vars

(***************************************************************************)
(* Requests share one connection of a kind until a close() begins, and a   *)
(* close() that returns (registry.ts) has closed what was open when the    *)
(* first one began, however many run at once and whatever is opened        *)
(* meanwhile.                                                              *)
(***************************************************************************)
THEOREM CloseIsComplete == Spec => []ClosesWhatItOpened
<1>1. Init => ListingIInv /\ ConnectionsIInv
  BY InitListing, InitConnections DEF Init
<1>2. ConnectionsIInv => ClosesWhatItOpened
  <2> SUFFICES ASSUME ConnectionsIInv PROVE ClosesWhatItOpened
    OBVIOUS
  <2>1. ASSUME \A d \in Closers : closers[d].pc = "idle", NEW k \in Kinds
        PROVE  Cardinality({n \in 1..MaxMade : <<k, n>> \in open}) <= 1
    <3> DEFINE numbers == {n \in 1..MaxMade : <<k, n>> \in open}
    <3>1. ~Begun
      BY <2>1 DEF Begun
    <3>2. \A n \in numbers : n = cached[k]
      BY <3>1 DEF ConnectionsIInv, Numbered
    <3>3. numbers \subseteq {cached[k]}
      BY <3>2
    <3> HIDE DEF numbers
    <3>4. IsFiniteSet({cached[k]}) /\ Cardinality({cached[k]}) = 1
      BY FS_Singleton
    <3>5. Cardinality(numbers) <= Cardinality({cached[k]})
      BY <3>3, <3>4, FS_Subset
    <3> QED
      BY <3>4, <3>5 DEF numbers
  <2>2. \A d \in Closers : closers[d].pc = "done" => owed \cap open = {}
    BY DEF ConnectionsIInv, SoundCloser
  <2> QED
    BY <2>1, <2>2 DEF ClosesWhatItOpened
<1> QED
  BY <1>1, <1>2, NextListing, NextConnections, PTL DEF Spec

-----------------------------------------------------------------------------
(* JobSearch: what is counted in sequences. *)

Times(j, s) == Cardinality({i \in DOMAIN s : s[i] = j})

\* How often something is in a sequence is a number.
LEMMA TimesType ==
    ASSUME NEW S, NEW s \in Seq(S), NEW j
    PROVE  /\ IsFiniteSet({i \in DOMAIN s : s[i] = j}) /\ Times(j, s) \in Nat
           /\ j \notin ToSet(s) => Times(j, s) = 0
<1>1. DOMAIN s = 1..Len(s) /\ Len(s) \in Nat
  OBVIOUS
<1>2. IsFiniteSet(DOMAIN s)
  BY <1>1, CountTo
<1>3. IsFiniteSet({i \in DOMAIN s : s[i] = j})
  BY <1>2, FS_Subset
<1>4. ASSUME j \notin ToSet(s) PROVE {i \in DOMAIN s : s[i] = j} = {}
  BY <1>4 DEF ToSet
<1> QED
  BY <1>3, <1>4, FS_CardinalityType, FS_EmptySet DEF Times

\* A sequence without repetitions has each of its elements once.
LEMMA TimesOnce ==
    ASSUME NEW S, NEW s \in Seq(S), IsInjective(s), NEW j \in ToSet(s)
    PROVE  Times(j, s) = 1
<1>1. PICK i \in DOMAIN s : s[i] = j
  BY DEF ToSet
<1>2. {k \in DOMAIN s : s[k] = j} = {i}
  BY <1>1 DEF IsInjective
<1> QED
  BY <1>2, FS_Singleton DEF Times

\* One sequence after another has what the two have.
LEMMA TimesConcat ==
    ASSUME NEW S, NEW a \in Seq(S), NEW b \in Seq(S), NEW j
    PROVE  Times(j, a \o b) = Times(j, a) + Times(j, b)
<1> DEFINE c == a \o b
           A == {i \in DOMAIN a : a[i] = j}
           B == {i \in DOMAIN b : b[i] = j}
           C == {i \in DOMAIN c : c[i] = j}
           shifted == {i + Len(a) : i \in B}
           f == [i \in B |-> i + Len(a)]
<1>1. /\ Len(a) \in Nat /\ Len(b) \in Nat
      /\ DOMAIN a = 1..Len(a) /\ DOMAIN b = 1..Len(b) /\ DOMAIN c = 1..(Len(a) + Len(b))
      /\ \A i \in DOMAIN a : c[i] = a[i]
      /\ \A i \in DOMAIN b : c[i + Len(a)] = b[i]
  OBVIOUS
<1>2. IsFiniteSet(A) /\ IsFiniteSet(B)
  BY TimesType
<1> HIDE DEF c
<1>3. ExistsBijection(B, shifted)
  <2>1. f \in [B -> shifted]
    OBVIOUS
  <2>2. \A x, y \in B : f[x] = f[y] => x = y
    BY <1>1
  <2>3. \A z \in shifted : \E x \in B : f[x] = z
    OBVIOUS
  <2> QED
    BY <2>1, <2>2, <2>3 DEF ExistsBijection, Bijection, Injection, Surjection, IsInjective
<1>4. IsFiniteSet(shifted) /\ Cardinality(shifted) = Cardinality(B)
  BY <1>2, <1>3, FS_Bijection
<1>5. A \cap shifted = {}
  BY <1>1
<1>6. C = A \cup shifted
  <2>1. ASSUME NEW i \in C PROVE i \in A \cup shifted
    <3>1. CASE i <= Len(a)
      BY <1>1, <2>1, <3>1
    <3>2. CASE ~(i <= Len(a))
      <4>1. i - Len(a) \in DOMAIN b /\ i = (i - Len(a)) + Len(a)
        BY <1>1, <2>1, <3>2
      <4>2. i - Len(a) \in B
        BY <1>1, <2>1, <4>1
      <4> QED
        BY <4>1, <4>2
    <3> QED
      BY <3>1, <3>2
  <2>2. ASSUME NEW i \in A PROVE i \in C
    BY <1>1, <2>2
  <2>3. ASSUME NEW i \in B PROVE i + Len(a) \in C
    BY <1>1, <2>3
  <2> QED
    BY <2>1, <2>2, <2>3
<1>7. Cardinality(A \cup shifted) = Cardinality(A) + Cardinality(shifted)
  <2> HIDE DEF A, B, C, shifted
  <2>1. Cardinality(A \cap shifted) = 0
    BY <1>5, FS_EmptySet
  <2>2. Cardinality(A) \in Nat /\ Cardinality(shifted) \in Nat
    BY <1>2, <1>4, FS_CardinalityType
  <2>3. Cardinality(A \cup shifted) = Cardinality(A) + Cardinality(shifted) - Cardinality(A \cap shifted)
    BY <1>2, <1>4, FS_Union
  <2> QED
    BY <2>1, <2>2, <2>3
<1> QED
  BY <1>4, <1>6, <1>7 DEF Times, c

(* JobSearch: the inductive invariant. *)

\* Every job is in one place.
ListsOK ==
    /\ lists \in [SearchStates -> Seq(SearchJobs)]
    /\ \A s \in SearchStates : IsInjective(lists[s])
    /\ \A s, t \in SearchStates : s # t => ToSet(lists[s]) \cap ToSet(lists[t]) = {}

SearchType ==
    [states : Seq(SearchStates), at : Nat, limit : Nat \ {0}, jobs : Seq(SearchJobs),
     scanned : Nat, truncated : BOOLEAN]

\* The calls of getJobs so far whose state the job is in.
AskedOf(j) == {k \in DOMAIN search.states :
                k < search.at /\ j \in ToSet(lists[search.states[k]])}

\* Unless a call hit the budget, each found what matches and has not moved.
FoundSoFar ==
    ~search.truncated =>
       \A j \in matching \ moved : Times(j, search.jobs) = Cardinality(AskedOf(j))

SearchIInv ==
    /\ ListsOK /\ signature \in [SearchJobs -> Signatures] /\ moved \in SUBSET SearchJobs
    /\ search \in SearchType
    /\ FoundSoFar

\* What getJobs gives is the list, unless there are as many as were asked for.
LEMMA BatchIs ==
    ASSUME NEW l \in Seq(SearchJobs), NEW limit \in Nat \ {0}
    PROVE  LET batch == SubSeq(l, 1, IF Len(l) < limit THEN Len(l) ELSE limit)
           IN  /\ batch \in Seq(SearchJobs) /\ Len(batch) \in Nat
               /\ Len(batch) < limit => batch = l
               /\ IsInjective(l) => IsInjective(batch)
<1> DEFINE m == IF Len(l) < limit THEN Len(l) ELSE limit
           batch == SubSeq(l, 1, m)
<1>1. Len(l) \in Nat /\ m \in Nat /\ m <= Len(l) /\ DOMAIN l = 1..Len(l)
  OBVIOUS
<1> HIDE DEF m
<1>2. /\ batch \in Seq(SearchJobs) /\ Len(batch) = m
      /\ \A i \in 1..m : batch[i] = l[i]
  BY <1>1
<1> HIDE DEF batch
<1>3. DOMAIN batch = 1..m
  BY <1>2
<1>4. ASSUME Len(batch) < limit PROVE batch = l
  <2>1. m < limit
    BY <1>2, <1>4
  <2>2. m = Len(l)
    BY <2>1 DEF m
  <2> QED
    BY <1>1, <1>2, <1>3, <2>2
<1>5. ASSUME IsInjective(l) PROVE IsInjective(batch)
  BY <1>1, <1>2, <1>3, <1>5 DEF IsInjective
<1> QED
  BY <1>1, <1>2, <1>4, <1>5 DEF m, batch

\* Before a search, nothing is owed.
LEMMA NothingOwed ==
    ASSUME search \in SearchType, search.at \in {0, 1}
    PROVE  \A j : AskedOf(j) = {}
<1>1. \A k \in DOMAIN search.states : k \in Nat /\ k >= 1
  BY DEF SearchType
<1> QED
  BY <1>1 DEF AskedOf

\* The jobs are dealt out to the states, each to one, and no search has begun.
LEMMA SearchInitIInv == SearchInit => SearchIInv
<1> SUFFICES ASSUME SearchInit PROVE SearchIInv
  OBVIOUS
<1> DEFINE all == SetToSeq(SearchJobs)
           N == Cardinality(SearchJobs)
<1>1. all \in [1..N -> SearchJobs] /\ IsInjective(all)
  <2>1. IsFiniteSet(SearchJobs)
    BY SearchAssumption
  <2>2. N \in Nat /\ ExistsBijection(1..N, SearchJobs)
    BY <2>1, FS_CardinalityType
  <2>3. \E f \in [1..N -> SearchJobs] : IsInjective(f)
    BY <2>2 DEF ExistsBijection, Bijection, Injection
  <2> QED
    BY <2>3 DEF SetToSeq
<1>2. N \in Nat /\ all \in Seq(SearchJobs) /\ DOMAIN all = 1..N
  <2>1. N \in Nat
    BY SearchAssumption, FS_CardinalityType
  <2> HIDE DEF all, N
  <2> QED
    BY <1>1, <2>1
<1> HIDE DEF all, N
<1>3. PICK f \in [SearchJobs -> SearchStates] :
         lists = [s \in SearchStates |-> Only(all, {i \in DOMAIN all : f[all[i]] = s})]
  BY DEF SearchInit, all
<1>4. ASSUME NEW s \in SearchStates
      PROVE  /\ lists[s] \in Seq(SearchJobs) /\ IsInjective(lists[s])
             /\ \A j \in ToSet(lists[s]) : f[j] = s
  <2> DEFINE P == {i \in DOMAIN all : f[all[i]] = s}
  <2>1. lists[s] = Only(all, P)
    BY <1>3
  <2>2. P \in SUBSET DOMAIN all
    OBVIOUS
  <2>3. ToSet(lists[s]) = {all[i] : i \in P}
    BY <1>1, <1>2, <2>1, <2>2, KeptIs
  <2> QED
    BY <1>1, <1>2, <2>1, <2>2, <2>3, KeptIs
<1>5. ListsOK
  BY <1>3, <1>4 DEF ListsOK
<1>6. search \in SearchType /\ search.at = 0 /\ search.jobs = <<>>
  BY DEF SearchInit, NoSearch, SearchType
<1>7. signature \in [SearchJobs -> Signatures] /\ moved \in SUBSET SearchJobs
  BY DEF SearchInit
<1>8. FoundSoFar
  <2>1. \A j : Times(j, search.jobs) = 0
    <3>1. <<>> \in Seq(SearchJobs) /\ ToSet(<<>>) = {}
      BY DEF ToSet
    <3> QED
      BY <1>6, <3>1, TimesType
  <2>2. \A j : Cardinality(AskedOf(j)) = 0
    BY <1>6, NothingOwed, FS_EmptySet
  <2> QED
    BY <2>1, <2>2 DEF FoundSoFar
<1> QED
  BY <1>5, <1>6, <1>7, <1>8 DEF SearchIInv

\* A search that begins has asked for nothing, and nothing has moved under it.
LEMMA StartSearchKeeps ==
    ASSUME SearchIInv, StartSearch
    PROVE  SearchIInv'
<1>1. PICK states \in StateLists, limit \in 1..MaxLimit :
         search' = [NoSearch EXCEPT !.states = states, !.at = 1, !.limit = limit]
  BY DEF StartSearch
<1>2. states \in Seq(SearchStates) /\ limit \in Nat \ {0}
  BY SearchAssumption
<1>3. /\ search' = [states |-> states, at |-> 1, limit |-> limit, jobs |-> <<>>,
                    scanned |-> 0, truncated |-> FALSE]
      /\ lists' = lists /\ signature' = signature /\ moved' = {}
  BY <1>1 DEF StartSearch, NoSearch
<1>4. search' \in SearchType
  BY <1>2, <1>3 DEF SearchType
<1>5. ListsOK'
  BY <1>3 DEF SearchIInv, ListsOK
<1>6. FoundSoFar'
  <2>1. \A j : Times(j, search.jobs)' = 0
    <3>1. <<>> \in Seq(SearchJobs) /\ ToSet(<<>>) = {}
      BY DEF ToSet
    <3>2. search'.jobs = <<>>
      BY <1>3
    <3>3. \A j : Times(j, <<>>) = 0
      BY <3>1, TimesType
    <3> QED
      BY <3>2, <3>3 DEF Times
  <2>2. ASSUME NEW j PROVE Cardinality(AskedOf(j))' = 0
    <3>1. \A k \in DOMAIN search'.states : k \in Nat /\ k >= 1
      BY <1>2, <1>3
    <3>2. AskedOf(j)' = {}
      BY <1>3, <3>1 DEF AskedOf
    <3> QED
      BY <3>2, FS_EmptySet
  <2> QED
    BY <2>1, <2>2 DEF FoundSoFar
<1> QED
  BY <1>3, <1>4, <1>5, <1>6 DEF SearchIInv

\* One more state is read: a job that is in it, and matches, is found once more.
LEMMA SearchJobsKeeps ==
    ASSUME SearchIInv, searchJobs
    PROVE  SearchIInv'
<1> DEFINE at == search.at
           list == lists[search.states[at]]
           batch == getJobs(search.states[at], search.limit)
           hits == {i \in DOMAIN batch : batch[i] \in matching}
           found == Only(batch, hits)
<1>1. /\ search' = [search EXCEPT !.jobs = @ \o found, !.scanned = @ + Len(batch),
                                  !.truncated = @ \/ HitsBudget(batch, search.limit), !.at = @ + 1]
      /\ at \in DOMAIN search.states
      /\ lists' = lists /\ signature' = signature /\ moved' = moved
  BY DEF searchJobs
<1>2. /\ search \in SearchType /\ at \in Nat /\ search.states \in Seq(SearchStates)
      /\ search.jobs \in Seq(SearchJobs) /\ search.limit \in Nat \ {0} /\ search.scanned \in Nat
      /\ search.truncated \in BOOLEAN
  BY DEF SearchIInv, SearchType
<1>3. search.states[at] \in SearchStates
  BY <1>1, <1>2
<1>4. list \in Seq(SearchJobs) /\ IsInjective(list)
  BY <1>3 DEF SearchIInv, ListsOK
<1>5. /\ batch \in Seq(SearchJobs) /\ Len(batch) \in Nat /\ IsInjective(batch)
      /\ Len(batch) < search.limit => batch = list
  BY <1>2, <1>4, BatchIs DEF getJobs
<1> HIDE DEF list, batch
<1>6. found \in Seq(SearchJobs) /\ IsInjective(found) /\ ToSet(found) = {batch[i] : i \in hits}
  BY <1>5, KeptIs
<1>7. /\ search'.states = search.states /\ search'.at = at + 1 /\ search'.jobs = search.jobs \o found
      /\ search'.truncated = (search.truncated \/ HitsBudget(batch, search.limit))
      /\ search' \in SearchType
  <2> HIDE DEF found
  <2>1. search.jobs \o found \in Seq(SearchJobs) /\ HitsBudget(batch, search.limit) \in BOOLEAN
    BY <1>2, <1>6 DEF HitsBudget
  <2>2. search' = [states |-> search.states, at |-> at + 1, limit |-> search.limit,
                   jobs |-> search.jobs \o found, scanned |-> search.scanned + Len(batch),
                   truncated |-> (search.truncated \/ HitsBudget(batch, search.limit))]
    BY <1>1, <1>2 DEF SearchType
  <2>3. search.scanned + Len(batch) \in Nat /\ at + 1 \in Nat
    BY <1>2, <1>5
  <2>4. search' \in SearchType
    BY <1>2, <2>1, <2>2, <2>3 DEF SearchType
  <2> QED
    BY <2>2, <2>4
<1>8. ListsOK' /\ matching' = matching
  BY <1>1 DEF SearchIInv, ListsOK, matching
<1>9. ASSUME ~search'.truncated, NEW j \in matching \ moved
      PROVE  Times(j, search.jobs)' = Cardinality(AskedOf(j))'
  <2> DEFINE asked == AskedOf(j)
  <2>1. ~search.truncated /\ batch = list
    <3>1. ~search.truncated /\ ~HitsBudget(batch, search.limit)
      BY <1>7, <1>9
    <3>2. Len(batch) < search.limit
      BY <1>2, <1>5, <3>1 DEF HitsBudget
    <3> QED
      BY <1>5, <3>1, <3>2
  <2>2. Times(j, search.jobs) = Cardinality(asked)
    BY <2>1 DEF SearchIInv, FoundSoFar
  <2>3. Times(j, search.jobs \o found) = Times(j, search.jobs) + Times(j, found)
    BY <1>2, <1>6, TimesConcat
  <2>4. AskedOf(j)' = IF j \in ToSet(list) THEN asked \cup {at} ELSE asked
    <3>1. AskedOf(j)' = {k \in DOMAIN search.states : k < at + 1 /\ j \in ToSet(lists[search.states[k]])}
      BY <1>1, <1>7 DEF AskedOf
    <3>2. \A k \in DOMAIN search.states : k \in Nat
      BY <1>2
    <3>3. \A k \in DOMAIN search.states : k < at + 1 <=> k < at \/ k = at
      BY <1>2, <3>2
    <3> QED
      BY <1>1, <3>1, <3>3 DEF AskedOf, list
  <2>5. IsFiniteSet(asked) /\ at \notin asked /\ Cardinality(asked) \in Nat
    <3>1. DOMAIN search.states = 1..Len(search.states) /\ Len(search.states) \in Nat
      BY <1>2
    <3>2. IsFiniteSet(DOMAIN search.states)
      BY <3>1, CountTo
    <3>3. asked \in SUBSET DOMAIN search.states /\ at \notin asked
      BY <1>2 DEF AskedOf
    <3> HIDE DEF asked
    <3> QED
      BY <3>2, <3>3, FS_Subset, FS_CardinalityType
  <2>6. j \in ToSet(found) <=> j \in ToSet(list)
    BY <1>6, <1>9, <2>1 DEF ToSet
  <2> HIDE DEF found, asked
  <2>7. CASE j \in ToSet(list)
    <3>1. Times(j, found) = 1
      BY <1>6, <2>6, <2>7, TimesOnce
    <3>2. Cardinality(asked \cup {at}) = Cardinality(asked) + 1
      BY <2>5, FS_AddElement
    <3> QED
      BY <1>7, <2>2, <2>3, <2>4, <2>7, <3>1, <3>2 DEF Times
  <2>8. CASE j \notin ToSet(list)
    <3>1. Times(j, found) = 0
      BY <1>6, <2>6, <2>8, TimesType
    <3>2. Times(j, search.jobs \o found) = Cardinality(asked)
      BY <2>2, <2>3, <2>5, <3>1
    <3> QED
      BY <1>7, <2>4, <2>8, <3>2 DEF Times
  <2> QED
    BY <2>7, <2>8
<1>10. FoundSoFar'
  BY <1>1, <1>8, <1>9 DEF FoundSoFar
<1> QED
  BY <1>1, <1>7, <1>8, <1>10 DEF SearchIInv

\* A job that moves is of no other list, and the others stay where they are.
LEMMA MoveKeeps ==
    ASSUME SearchIInv, NEW j \in SearchJobs, NEW from \in SearchStates,
           NEW to \in SearchStates \cup {"none"}, Move(j, from, to)
    PROVE  SearchIInv'
<1> DEFINE stay == {i \in DOMAIN lists[from] : lists[from][i] # j}
<1>1. /\ j \in ToSet(lists[from]) /\ from # to
      /\ lists' = [s \in SearchStates |->
                     CASE s = from -> Only(lists[s], {i \in DOMAIN lists[s] : lists[s][i] # j})
                       [] s = to   -> <<j>> \o lists[s]
                       [] OTHER    -> lists[s]]
      /\ moved' = moved \cup {j} /\ signature' = signature /\ search' = search
  BY DEF Move
<1>2. ListsOK
  BY DEF SearchIInv
<1>3. /\ lists'[from] = Only(lists[from], stay)
      /\ to \in SearchStates => lists'[to] = <<j>> \o lists[to]
      /\ \A s \in SearchStates : s # from /\ s # to => lists'[s] = lists[s]
  BY <1>1
<1>4. ASSUME NEW s \in SearchStates
      PROVE  /\ lists'[s] \in Seq(SearchJobs) /\ IsInjective(lists'[s])
             /\ ToSet(lists'[s]) = (ToSet(lists[s]) \ {j}) \cup (IF s = to THEN {j} ELSE {})
  <2>1. lists[s] \in Seq(SearchJobs) /\ IsInjective(lists[s])
    BY <1>2 DEF ListsOK
  <2>2. s # from => j \notin ToSet(lists[s])
    BY <1>1, <1>2 DEF ListsOK
  <2>3. CASE s = from
    <3>1. stay \in SUBSET DOMAIN lists[s]
      BY <2>3
    <3>2. ToSet(lists'[s]) = {lists[s][i] : i \in stay}
      BY <1>3, <2>1, <2>3, <3>1, KeptIs
    <3>3. {lists[s][i] : i \in stay} = ToSet(lists[s]) \ {j}
      BY <2>3 DEF ToSet
    <3> HIDE DEF stay
    <3> QED
      BY <1>1, <1>3, <2>1, <2>3, <3>1, <3>2, <3>3, KeptIs
  <2>4. CASE s = to
    <3> DEFINE old == lists[s]
               new == <<j>> \o old
    <3>1. /\ new \in Seq(SearchJobs) /\ Len(new) = Len(old) + 1 /\ Len(old) \in Nat
          /\ new[1] = j /\ \A i \in 1..Len(old) : new[i + 1] = old[i]
      BY <2>1
    <3>2. /\ DOMAIN new = 1..(Len(old) + 1) /\ DOMAIN old = 1..Len(old)
      BY <2>1, <3>1
    <3>3. j \notin ToSet(old)
      BY <1>1, <2>2, <2>4
    <3>4. lists'[s] = new
      BY <1>3, <2>4
    <3> HIDE DEF new
    <3>5. \A i \in DOMAIN new : i = 1 \/ (i - 1 \in 1..Len(old) /\ new[i] = old[i - 1])
      <4> SUFFICES ASSUME NEW i \in 1..(Len(old) + 1), i # 1
                   PROVE  i - 1 \in 1..Len(old) /\ new[i] = old[i - 1]
        BY <3>2
      <4>1. i - 1 \in 1..Len(old) /\ i = (i - 1) + 1
        BY <3>1
      <4> QED
        BY <3>1, <4>1
    <3> HIDE DEF old
    <3>6. ToSet(new) = ToSet(old) \cup {j}
      <4>1. ToSet(new) \subseteq ToSet(old) \cup {j}
        BY <3>1, <3>2, <3>5 DEF ToSet
      <4>2. ASSUME NEW i \in DOMAIN old PROVE old[i] \in ToSet(new)
        <5>1. i + 1 \in DOMAIN new /\ new[i + 1] = old[i]
          BY <3>1, <3>2
        <5> QED
          BY <5>1 DEF ToSet
      <4>3. j \in ToSet(new)
        <5>1. 1 \in DOMAIN new
          BY <3>1, <3>2
        <5> QED
          BY <3>1, <5>1 DEF ToSet
      <4>4. ToSet(old) \subseteq ToSet(new)
        BY <4>2 DEF ToSet
      <4> QED
        BY <4>1, <4>3, <4>4
    <3>7. IsInjective(new)
      <4> SUFFICES ASSUME NEW i \in DOMAIN new, NEW k \in DOMAIN new, new[i] = new[k] PROVE i = k
        BY DEF IsInjective
      <4>1. i # 1 => new[i] # j
        BY <3>2, <3>3, <3>5 DEF ToSet
      <4>2. k # 1 => new[k] # j
        BY <3>2, <3>3, <3>5 DEF ToSet
      <4>3. CASE i = 1 \/ k = 1
        BY <3>1, <4>1, <4>2, <4>3
      <4>4. CASE i # 1 /\ k # 1
        <5>1. i - 1 = k - 1
          BY <2>1, <3>2, <3>5, <4>4 DEF IsInjective, old
        <5> QED
          BY <3>1, <3>2, <5>1
      <4> QED
        BY <4>3, <4>4
    <3>8. ToSet(old) \ {j} = ToSet(old)
      BY <3>3
    <3> QED
      BY <2>4, <3>1, <3>4, <3>6, <3>7, <3>8 DEF old
  <2>5. CASE s # from /\ s # to
    BY <1>3, <2>1, <2>2, <2>5
  <2> QED
    BY <2>3, <2>4, <2>5
<1>5. ListsOK'
  <2>1. lists' \in [SearchStates -> Seq(SearchJobs)]
    <3>1. lists' = [s \in SearchStates |-> lists'[s]]
      BY <1>1
    <3> QED
      BY <1>4, <3>1
  <2>2. ASSUME NEW s \in SearchStates, NEW t \in SearchStates, s # t
        PROVE  ToSet(lists'[s]) \cap ToSet(lists'[t]) = {}
    <3>1. ToSet(lists[s]) \cap ToSet(lists[t]) = {}
      BY <1>2, <2>2 DEF ListsOK
    <3>2. /\ ToSet(lists'[s]) = (ToSet(lists[s]) \ {j}) \cup (IF s = to THEN {j} ELSE {})
          /\ ToSet(lists'[t]) = (ToSet(lists[t]) \ {j}) \cup (IF t = to THEN {j} ELSE {})
      BY <1>4
    <3> QED
      BY <2>2, <3>1, <3>2
  <2> QED
    BY <1>4, <2>1, <2>2 DEF ListsOK
<1>6. FoundSoFar'
  <2> SUFFICES ASSUME ~search.truncated, NEW k \in matching \ (moved \cup {j})
               PROVE  Times(k, search.jobs) = Cardinality(AskedOf(k))'
    BY <1>1 DEF FoundSoFar, matching, Times
  <2>1. \A s \in SearchStates : k \in ToSet(lists'[s]) <=> k \in ToSet(lists[s])
    BY <1>4
  <2>2. \A n \in DOMAIN search.states : search.states[n] \in SearchStates
    BY DEF SearchIInv, SearchType
  <2>3. AskedOf(k)' = AskedOf(k)
    BY <1>1, <2>1, <2>2 DEF AskedOf
  <2> QED
    BY <2>3 DEF SearchIInv, FoundSoFar
<1>7. signature' \in [SearchJobs -> Signatures] /\ moved' \in SUBSET SearchJobs /\ search' \in SearchType
  BY <1>1 DEF SearchIInv
<1> QED
  BY <1>5, <1>6, <1>7 DEF SearchIInv

\* Whatever else is played with leaves the search alone.
LEMMA NextSearch == SearchIInv /\ [Next]_vars => SearchIInv'
<1> SUFFICES ASSUME SearchIInv, [Next]_vars PROVE SearchIInv'
  OBVIOUS
<1>1. CASE UNCHANGED searchVars
  BY <1>1 DEF searchVars, SearchIInv, ListsOK, FoundSoFar, AskedOf, Times, matching
<1>2. CASE SearchNext
  BY <1>2, StartSearchKeeps, SearchJobsKeeps, MoveKeeps DEF SearchNext
<1> QED
  BY <1>1, <1>2 DEF Next, vars

\* The samples of failures come from one read of the failed jobs.
LEMMA SamplesLemma ==
    ASSUME SearchIInv
    PROVE  SamplesAreComplete
<1> SUFFICES ASSUME NEW wanted \in SUBSET Signatures, NEW per \in 1..MaxLimit, NEW limit \in 1..MaxLimit,
                    ~sampleFailedJobsBySignature(wanted, per, limit).truncated, NEW sig \in wanted
             PROVE  LET r == sampleFailedJobsBySignature(wanted, per, limit)
                    IN  \/ Len(r.samples[sig]) = per
                        \/ ToSet(r.samples[sig]) = {j \in ToSet(lists["failed"]) : signature[j] = sig}
  BY DEF SamplesAreComplete
<1> DEFINE batch == getJobs("failed", limit)
           of(s) == {i \in DOMAIN batch : signature[batch[i]] = s}
           all(s) == Only(batch, of(s))
           sample(s) == SubSeq(all(s), 1, IF Len(all(s)) < per THEN Len(all(s)) ELSE per)
           r == sampleFailedJobsBySignature(wanted, per, limit)
           samples == [s \in wanted |-> sample(s)]
<1>1. limit \in Nat \ {0} /\ per \in Nat \ {0} /\ "failed" \in SearchStates
  BY SearchAssumption DEF SearchStates
<1>2. lists["failed"] \in Seq(SearchJobs)
  BY <1>1 DEF SearchIInv, ListsOK
<1>3. /\ batch \in Seq(SearchJobs) /\ Len(batch) \in Nat
      /\ Len(batch) < limit => batch = lists["failed"]
  BY <1>1, <1>2, BatchIs DEF getJobs
<1>4. /\ r = [samples |-> samples,
              truncated |-> Len(batch) >= limit /\ \E s \in wanted : Len(samples[s]) < per]
  BY DEF sampleFailedJobsBySignature
<1> HIDE DEF batch
<1>5. all(sig) \in Seq(SearchJobs) /\ ToSet(all(sig)) = {batch[i] : i \in of(sig)}
  BY <1>3, KeptIs
<1> HIDE DEF all
<1>6. /\ sample(sig) \in Seq(SearchJobs) /\ Len(sample(sig)) \in Nat /\ Len(sample(sig)) <= per
      /\ Len(sample(sig)) < per => sample(sig) = all(sig)
  <2>1. /\ sample(sig) \in Seq(SearchJobs) /\ Len(sample(sig)) \in Nat
        /\ Len(sample(sig)) < per => sample(sig) = all(sig)
    BY <1>1, <1>5, BatchIs
  <2>2. Len(all(sig)) \in Nat
    BY <1>5
  <2>3. Len(sample(sig)) <= per
    BY <1>1, <1>5, <2>2
  <2> QED
    BY <2>1, <2>3
<1> HIDE DEF sample
<1>7. r.samples[sig] = sample(sig) /\ samples[sig] = sample(sig)
  BY <1>4
<1>8. Len(batch) < limit \/ ~(Len(sample(sig)) < per)
  <2> DEFINE short == \E s \in wanted : Len(samples[s]) < per
  <2>1. ~(Len(batch) >= limit /\ short)
    <3> HIDE DEF samples, short, r
    <3>1. r.truncated = (Len(batch) >= limit /\ short) /\ ~r.truncated
      <4> HIDE DEF r
      <4>1. r.truncated = (Len(batch) >= limit /\ short)
        BY <1>4 DEF short
      <4>2. ~r.truncated
        BY DEF r
      <4> QED
        BY <4>1, <4>2
    <3> QED
      BY <3>1
  <2> QED
    BY <1>1, <1>3, <1>7, <2>1
<1>9. CASE ~(Len(sample(sig)) < per)
  <2>1. Len(sample(sig)) = per
    BY <1>1, <1>6, <1>9
  <2> QED
    BY <1>7, <2>1 DEF r
<1>10. CASE Len(sample(sig)) < per
  <2>1. batch = lists["failed"] /\ sample(sig) = all(sig)
    BY <1>3, <1>6, <1>8, <1>10
  <2>2. ToSet(sample(sig)) = {j \in ToSet(lists["failed"]) : signature[j] = sig}
    <3>1. {batch[i] : i \in of(sig)} = {j \in ToSet(batch) : signature[j] = sig}
      BY DEF ToSet
    <3> QED
      BY <1>5, <2>1, <3>1
  <2> QED
    BY <1>7, <2>2 DEF r
<1> QED
  BY <1>9, <1>10

\* What a search, or the samples of the failure summary, do not call truncated is
\* complete (search.ts, failure-samples.ts), however jobs move beside the scan.
THEOREM SearchesAreComplete == Spec => []SearchIsComplete
<1>1. Init => SearchIInv
  BY SearchInitIInv DEF Init
<1>2. SearchIInv => SearchIsComplete
  <2> SUFFICES ASSUME SearchIInv PROVE ScanIsComplete
    BY SamplesLemma DEF SearchIsComplete
  <2> SUFFICES ASSUME Returned, ~search.truncated, NEW j \in matching \ moved
               PROVE  Times(j, search.jobs)
                        = Cardinality({k \in DOMAIN search.states : j \in ToSet(lists[search.states[k]])})
    BY DEF ScanIsComplete, Times
  <2>1. \A k \in DOMAIN search.states : k < search.at
    BY DEF SearchIInv, SearchType, Returned
  <2>2. AskedOf(j) = {k \in DOMAIN search.states : j \in ToSet(lists[search.states[k]])}
    BY <2>1 DEF AskedOf
  <2> QED
    BY <2>2 DEF SearchIInv, FoundSoFar
<1> QED
  BY <1>1, <1>2, NextSearch, PTL DEF Spec

-----------------------------------------------------------------------------
(* PayloadMask: what is live on the way down, and the grammar. *)

\* What a pattern still asks for when its first k segments have been taken.
Rest(p, k) == SubSeq(p, k + 1, Len(p))

\* What is left of a pattern, and its own rest.
LEMMA RestIs ==
    ASSUME NEW S, NEW p \in Seq(S), NEW k \in 0..Len(p)
    PROVE  /\ Rest(p, k) \in Seq(S) /\ Len(Rest(p, k)) = Len(p) - k
           /\ Rest(p, 0) = p
           /\ Rest(p, k) = <<>> <=> k = Len(p)
           /\ k < Len(p) => /\ Rest(p, k) # <<>> /\ Head(Rest(p, k)) = p[k + 1]
                            /\ Tail(Rest(p, k)) = Rest(p, k + 1)
           /\ k + 1 < Len(p) => /\ Len(Rest(p, k)) > 1 /\ Rest(p, k)[2] = p[k + 2]
                                /\ SubSeq(Rest(p, k), 3, Len(Rest(p, k))) = Rest(p, k + 2)
           /\ Len(Rest(p, k)) > 1 => k + 1 < Len(p)
           /\ matchesHere(Rest(p, k)) <=> \A i \in (k + 1)..Len(p) : p[i] = "**"
<1> DEFINE r == Rest(p, k)
<1>1. Len(p) \in Nat /\ k \in Nat /\ k <= Len(p)
  OBVIOUS
<1>rest. ASSUME NEW m \in 0..Len(p)
       PROVE  /\ Rest(p, m) \in Seq(S) /\ Len(Rest(p, m)) = Len(p) - m
              /\ \A i \in 1..(Len(p) - m) : Rest(p, m)[i] = p[m + i]
  <2>1. \A i \in (m + 1)..Len(p) : p[i] \in S
    BY <1>1
  <2>2. m + 1 \in Int /\ Len(p) \in Int
    BY <1>1
  <2>3. /\ Rest(p, m) \in Seq(S)
        /\ Len(Rest(p, m)) = IF m + 1 <= Len(p) THEN Len(p) - (m + 1) + 1 ELSE 0
        /\ \A i \in 1..(Len(p) - (m + 1) + 1) : Rest(p, m)[i] = p[(m + 1) + i - 1]
    BY <2>1, <2>2, SubSeqProperties DEF Rest
  <2>4. Len(p) - (m + 1) + 1 = Len(p) - m /\ \A i \in 1..(Len(p) - m) : (m + 1) + i - 1 = m + i
    BY <1>1
  <2>5. (IF m + 1 <= Len(p) THEN Len(p) - (m + 1) + 1 ELSE 0) = Len(p) - m
    BY <1>1
  <2> QED
    BY <2>3, <2>4, <2>5
<1>len. r \in Seq(S) /\ Len(r) = Len(p) - k
  BY <1>rest
<1>2. DOMAIN r = 1..(Len(p) - k) /\ \A i \in 1..(Len(p) - k) : r[i] = p[k + i]
  <2>1. \A i \in 1..(Len(p) - k) : r[i] = p[k + i]
    BY <1>rest
  <2> HIDE DEF r
  <2>2. DOMAIN r = 1..Len(r)
    BY <1>len
  <2> QED
    BY <1>len, <2>1, <2>2
<1>3. Rest(p, 0) = p
  BY SubSeqFull DEF Rest
<1>4. Rest(p, k) = <<>> <=> k = Len(p)
  <2> HIDE DEF r
  <2>1. r = <<>> <=> Len(r) = 0
    BY <1>len
  <2> QED
    BY <1>1, <1>len, <2>1 DEF r
<1>5. ASSUME k < Len(p)
      PROVE  r # <<>> /\ Head(r) = p[k + 1] /\ Tail(r) = Rest(p, k + 1)
  <2> DEFINE u == Rest(p, k + 1)
  <2>1. k + 1 \in 0..Len(p) /\ 1 \in 1..(Len(p) - k)
    BY <1>1, <1>5
  <2>2. u \in Seq(S) /\ Len(u) = Len(p) - (k + 1)
    BY <1>rest, <2>1
  <2>3. \A i \in 1..(Len(p) - (k + 1)) : u[i] = p[(k + 1) + i]
    BY <1>rest, <2>1
  <2> HIDE DEF r, u
  <2>4. r # <<>> /\ Head(r) = r[1]
    BY <1>1, <1>5, <1>len
  <2>5. r[1] = p[k + 1]
    BY <1>2, <2>1
  <2>6. Tail(r) \in Seq(S) /\ Len(Tail(r)) = Len(r) - 1
    BY <1>len, <2>4, HeadTailProperties
  <2>7. \A i \in 1..Len(Tail(r)) : Tail(r)[i] = r[i + 1]
    BY <1>len, <2>4, HeadTailProperties
  <2>8. Len(Tail(r)) = Len(u)
    BY <1>1, <1>len, <2>2, <2>6
  <2>9. ASSUME NEW i \in 1..Len(Tail(r)) PROVE Tail(r)[i] = u[i]
    <3>1. i \in 1..(Len(p) - (k + 1)) /\ i + 1 \in 1..(Len(p) - k) /\ k + (i + 1) = (k + 1) + i
      BY <1>1, <1>len, <2>6
    <3> QED
      BY <1>2, <2>3, <2>7, <3>1
  <2>10. Tail(r) = u
    BY <2>2, <2>6, <2>8, <2>9, SeqEqual
  <2> QED
    BY <2>4, <2>5, <2>10 DEF u
<1>6. ASSUME k + 1 < Len(p)
      PROVE  /\ Len(r) > 1 /\ r[2] = p[k + 2]
             /\ SubSeq(r, 3, Len(r)) = Rest(p, k + 2)
  <2> DEFINE t == SubSeq(r, 3, Len(r))
             u == Rest(p, k + 2)
  <2>1. k + 2 \in 0..Len(p) /\ 2 \in 1..(Len(p) - k)
    BY <1>1, <1>6
  <2>2. u \in Seq(S) /\ Len(u) = Len(p) - (k + 2)
    BY <1>rest, <2>1
  <2>3. \A i \in 1..(Len(p) - (k + 2)) : u[i] = p[(k + 2) + i]
    BY <1>rest, <2>1
  <2> HIDE DEF r
  <2>4. (\A i \in 3..Len(r) : r[i] \in S) /\ 3 \in Int /\ Len(r) \in Int
    BY <1>len
  <2>5. t \in Seq(S) /\ Len(t) = IF 3 <= Len(r) THEN Len(r) - 3 + 1 ELSE 0
    BY <2>4, SubSeqProperties
  <2>6. \A i \in 1..(Len(r) - 3 + 1) : t[i] = r[3 + i - 1]
    BY <2>4, SubSeqProperties
  <2> HIDE DEF t, u
  <2>7. Len(r) > 1 /\ r[2] = p[k + 2]
    <3>1. Len(r) > 1
      BY <1>1, <1>6, <1>len
    <3> QED
      BY <1>2, <2>1, <3>1
  <2>8. Len(t) = Len(u)
    BY <1>1, <1>6, <1>len, <2>2, <2>5
  <2>9. ASSUME NEW i \in 1..Len(t) PROVE t[i] = u[i]
    <3>1. /\ i \in 1..(Len(r) - 3 + 1) /\ i \in 1..(Len(p) - (k + 2))
          /\ 3 + i - 1 = i + 2 /\ i + 2 \in 1..(Len(p) - k) /\ k + (i + 2) = (k + 2) + i
      BY <1>1, <1>6, <1>len, <2>2, <2>8
    <3> QED
      BY <1>2, <2>3, <2>6, <3>1
  <2>10. t = u
    BY <2>2, <2>5, <2>8, <2>9, SeqEqual
  <2> QED
    BY <2>7, <2>10 DEF t, u
<1>7. Len(r) > 1 => k + 1 < Len(p)
  BY <1>1, <1>len
<1>8. matchesHere(r) <=> \A i \in (k + 1)..Len(p) : p[i] = "**"
  <2> HIDE DEF r
  <2>1. ASSUME matchesHere(r), NEW i \in (k + 1)..Len(p) PROVE p[i] = "**"
    <3>1. i - k \in 1..(Len(p) - k) /\ k + (i - k) = i
      BY <1>1
    <3> QED
      BY <1>2, <2>1, <3>1 DEF matchesHere
  <2>2. ASSUME \A i \in (k + 1)..Len(p) : p[i] = "**", NEW i \in 1..(Len(p) - k) PROVE r[i] = "**"
    <3>1. k + i \in (k + 1)..Len(p)
      BY <1>1
    <3> QED
      BY <1>2, <2>2, <3>1
  <2> QED
    BY <1>2, <2>1, <2>2 DEF matchesHere
<1> QED
  BY <1>len, <1>3, <1>4, <1>5, <1>6, <1>7, <1>8

\* What the rest of a pattern becomes under a key.
Left(p, k, key) ==
    {m \in 0..Len(p) :
       \/ m = k /\ k < Len(p) /\ p[k + 1] = "**"
       \/ m = k + 2 /\ p[k + 1] = "**" /\ p[k + 2] \in {"*", key}
       \/ m = k + 1 /\ p[k + 1] # "**" /\ p[k + 1] \in {"*", key}}

\* advance, of one pattern.
Advanced(p, key) ==
    CASE p = <<>> -> {}
      [] p # <<>> /\ Head(p) = "**" ->
            {p} \cup (IF Len(p) > 1 /\ p[2] \in {"*", key} THEN {SubSeq(p, 3, Len(p))} ELSE {})
      [] p # <<>> /\ Head(p) # "**" ->
            IF Head(p) \in {"*", key} THEN {Tail(p)} ELSE {}

\* What it makes of the rest of a pattern are rests of it.
LEMMA AdvancedIs ==
    ASSUME NEW S, NEW p \in Seq(S), NEW k \in 0..Len(p), NEW key
    PROVE  Advanced(Rest(p, k), key) = {Rest(p, m) : m \in Left(p, k, key)}
<1> DEFINE r == Rest(p, k)
<1>1. Len(p) \in Nat /\ k \in Nat /\ k <= Len(p)
  OBVIOUS
<1>2. /\ r = <<>> <=> k = Len(p)
      /\ k < Len(p) => r # <<>> /\ Head(r) = p[k + 1] /\ Tail(r) = Rest(p, k + 1)
      /\ k + 1 < Len(p) => Len(r) > 1 /\ r[2] = p[k + 2] /\ SubSeq(r, 3, Len(r)) = Rest(p, k + 2)
      /\ Len(r) > 1 => k + 1 < Len(p)
  BY RestIs
<1> HIDE DEF r
<1>3. CASE k = Len(p)
  <2>1. Advanced(r, key) = {}
    BY <1>2, <1>3 DEF Advanced
  <2>2. Left(p, k, key) = {}
    BY <1>1, <1>3 DEF Left
  <2> QED
    BY <2>1, <2>2 DEF r
<1>4. CASE k < Len(p) /\ p[k + 1] # "**"
  <2>1. Advanced(r, key) = IF p[k + 1] \in {"*", key} THEN {Rest(p, k + 1)} ELSE {}
    BY <1>2, <1>4 DEF Advanced
  <2>2. k + 1 \in 0..Len(p)
    BY <1>1, <1>4
  <2>3. Left(p, k, key) = IF p[k + 1] \in {"*", key} THEN {k + 1} ELSE {}
    BY <1>1, <1>4, <2>2 DEF Left
  <2> QED
    BY <2>1, <2>3 DEF r
<1>5. CASE k < Len(p) /\ p[k + 1] = "**"
  <2> DEFINE onward == Len(r) > 1 /\ r[2] \in {"*", key}
             further == k + 1 < Len(p) /\ p[k + 2] \in {"*", key}
  <2>1. Advanced(r, key) = {r} \cup (IF onward THEN {SubSeq(r, 3, Len(r))} ELSE {})
    BY <1>2, <1>5 DEF Advanced
  <2>2. onward <=> further
    BY <1>2
  <2>3. further => SubSeq(r, 3, Len(r)) = Rest(p, k + 2)
    BY <1>2
  <2>4. Left(p, k, key) = {k} \cup (IF further THEN {k + 2} ELSE {})
    <3>1. ASSUME NEW m \in Left(p, k, key) PROVE m = k \/ (further /\ m = k + 2)
      <4>1. m \in 0..Len(p)
        BY DEF Left
      <4>2. m = k \/ (m = k + 2 /\ p[k + 2] \in {"*", key})
        BY <1>5 DEF Left
      <4> QED
        BY <1>1, <4>1, <4>2
    <3>2. k \in Left(p, k, key)
      BY <1>1, <1>5 DEF Left
    <3>3. further => k + 2 \in Left(p, k, key)
      BY <1>1, <1>5 DEF Left
    <3> QED
      BY <3>1, <3>2, <3>3
  <2> HIDE DEF onward, further, r, Left
  <2>5. CASE further
    <3>1. Advanced(r, key) = {Rest(p, k), Rest(p, k + 2)}
      BY <2>1, <2>2, <2>3, <2>5 DEF r
    <3>2. Left(p, k, key) = {k, k + 2}
      BY <2>4, <2>5
    <3> QED
      BY <3>1, <3>2 DEF r
  <2>6. CASE ~further
    <3>1. Advanced(r, key) = {Rest(p, k)}
      BY <2>1, <2>2, <2>6 DEF r
    <3>2. Left(p, k, key) = {k}
      BY <2>4, <2>6
    <3> QED
      BY <3>1, <3>2 DEF r
  <2> QED
    BY <2>5, <2>6
<1> QED
  BY <1>1, <1>3, <1>4, <1>5

\* advance is Advanced, of all.
LEMMA AdvanceIs == \A ps, key : advance(ps, key) = UNION {Advanced(p, key) : p \in ps}
BY DEF advance, Advanced

\* What is live after n keys comes from what was live before the last.
LEMMA LiveIs ==
    ASSUME NEW ps \in SUBSET Seq(STRING), NEW path \in Seq(STRING)
    PROVE  /\ LiveAt(ps, path) \in [0..Len(path) -> SUBSET Seq(STRING)]
           /\ LiveAt(ps, path)[0] = ps
           /\ \A n \in 1..Len(path) : LiveAt(ps, path)[n] = advance(LiveAt(ps, path)[n - 1], path[n])
<1> DEFINE N == Len(path)
           T == SUBSET Seq(STRING)
           step == [u \in (1..N) \X T |-> advance(u[2], path[u[1]])]
           Loop(live) == live = [n \in 0..N |-> IF n = 0 THEN ps ELSE advance(live[n - 1], path[n])]
<1>1. N \in Nat
  OBVIOUS
<1>2. LiveAt(ps, path) = CHOOSE live : Loop(live)
  BY Zenon DEF LiveAt
<1>3. ASSUME NEW qs \in T, NEW key PROVE advance(qs, key) \in T
  <2> SUFFICES ASSUME NEW q \in qs, NEW r \in Advanced(q, key) PROVE r \in Seq(STRING)
    BY AdvanceIs
  <2>1. q \in Seq(STRING) /\ Len(q) \in Nat
    OBVIOUS
  <2>2. PICK m \in 0..Len(q) : r = Rest(q, m)
    <3>1. 0 \in 0..Len(q) /\ Rest(q, 0) = q
      BY <2>1, RestIs
    <3>2. r \in {Rest(q, m) : m \in Left(q, 0, key)}
      BY <3>1, AdvancedIs
    <3> QED
      BY <3>2 DEF Left
  <2> QED
    BY <2>2, RestIs
<1>4. step \in [(1..N) \X T -> T]
  BY <1>3
<1>5. PICK f \in [0..N -> T] : Iterates(f, N, ps, step)
  <2> HIDE DEF step, T
  <2>1. ps \in T
    BY DEF T
  <2> QED
    BY <1>1, <1>4, <2>1, IndexedRecursion
<1>6. f[0] = ps /\ \A n \in 1..N : f[n] = step[<<n, f[n - 1]>>]
  BY <1>5 DEF Iterates
<1> HIDE DEF N
<1>7. \A n \in 1..N : f[n] = advance(f[n - 1], path[n])
  <2> SUFFICES ASSUME NEW n \in 1..N PROVE f[n] = advance(f[n - 1], path[n])
    OBVIOUS
  <2>1. n - 1 \in 0..N
    BY <1>1
  <2>2. <<n, f[n - 1]>> \in (1..N) \X T
    BY <2>1
  <2> QED
    BY <1>6, <2>2
<1>8. Loop(f)
  <2>1. \A n \in 0..N : f[n] = IF n = 0 THEN ps ELSE advance(f[n - 1], path[n])
    BY <1>1, <1>6, <1>7
  <2> QED
    BY <2>1
<1>9. Loop(LiveAt(ps, path))
  <2>1. \E live : Loop(live)
    BY <1>8
  <2> HIDE DEF Loop
  <2> QED
    BY <1>2, <2>1
<1> DEFINE live == LiveAt(ps, path)
<1>10. live = f
  <2>1. /\ DOMAIN live = 0..N
        /\ \A n \in 0..N : live[n] = IF n = 0 THEN ps ELSE advance(live[n - 1], path[n])
        /\ live = [n \in 0..N |-> live[n]]
    <3> HIDE DEF live
    <3>1. live = [n \in 0..N |-> IF n = 0 THEN ps ELSE advance(live[n - 1], path[n])]
      BY <1>9 DEF live
    <3> QED
      BY <3>1
  <2> HIDE DEF live
  <2> DEFINE Same == {n \in Nat : n <= N => live[n] = f[n]}
  <2>2. 0 \in Same
    BY <1>1, <1>6, <2>1
  <2>3. ASSUME NEW n \in Nat, n \in Same PROVE n + 1 \in Same
    <3> SUFFICES ASSUME n + 1 <= N PROVE live[n + 1] = f[n + 1]
      OBVIOUS
    <3>1. n + 1 \in 1..N /\ n + 1 \in 0..N /\ n + 1 # 0 /\ (n + 1) - 1 = n /\ n <= N
      BY <1>1
    <3>2. live[n] = f[n]
      BY <2>3, <3>1
    <3>3. live[n + 1] = advance(live[n], path[n + 1]) /\ f[n + 1] = advance(f[n], path[n + 1])
      BY <1>7, <2>1, <3>1
    <3> QED
      BY <3>2, <3>3
  <2>4. \A n \in 0..N : live[n] = f[n]
    <3> HIDE DEF Same
    <3>1. Nat \subseteq Same
      BY <2>2, <2>3, NaturalInduction
    <3> QED
      BY <1>1, <3>1 DEF Same
  <2> QED
    BY <2>1, <2>4
<1> QED
  BY <1>6, <1>7, <1>10 DEF N

\* f leads the first n keys of a path to the segments of p that take them: the segments
\* up to the k-th, each of which but a "**" takes one, and the "**" that may follow.
Follows(p, path, n, f) ==
    /\ f \in [1..n -> 1..Len(p)]
    /\ \A i, j \in 1..n : i < j => f[i] <= f[j]
    /\ \A i \in 1..n : p[f[i]] \in {"**", "*", path[i]}
TakesOne(n, f, m) == \E i \in 1..n : {j \in 1..n : f[j] = m} = {i}
Reaches(p, k, path, n, f) ==
    /\ Follows(p, path, n, f)
    /\ \A m \in 1..k : p[m] # "**" => TakesOne(n, f, m)
    /\ \A i \in 1..n : f[i] <= k \/ (f[i] = k + 1 /\ p[k + 1] = "**")

\* One more key, and what is left of the pattern after it.
LEMMA ReachesOn ==
    ASSUME NEW S, NEW p \in Seq(S), NEW k \in 0..Len(p), NEW path, NEW n \in Nat, NEW f,
           Reaches(p, k, path, n, f), NEW m \in Left(p, k, path[n + 1])
    PROVE  \E g : Reaches(p, m, path, n + 1, g)
<1> DEFINE t == IF m = k THEN k + 1 ELSE m
           g == [i \in 1..(n + 1) |-> IF i = n + 1 THEN t ELSE f[i]]
<1>1. Len(p) \in Nat /\ k \in Nat /\ k <= Len(p)
  OBVIOUS
<1>2. m \in Nat /\ m <= Len(p)
  BY <1>1 DEF Left
<1>3. /\ f \in [1..n -> 1..Len(p)]
      /\ \A i, j \in 1..n : i < j => f[i] <= f[j]
      /\ \A i \in 1..n : p[f[i]] \in {"**", "*", path[i]}
      /\ \A l \in 1..k : p[l] # "**" => TakesOne(n, f, l)
      /\ \A i \in 1..n : f[i] <= k \/ (f[i] = k + 1 /\ p[k + 1] = "**")
  BY DEF Reaches, Follows
<1>4. \/ m = k /\ k < Len(p) /\ p[k + 1] = "**"
      \/ m = k + 2 /\ p[k + 1] = "**" /\ p[k + 2] \in {"*", path[n + 1]}
      \/ m = k + 1 /\ p[k + 1] # "**" /\ p[k + 1] \in {"*", path[n + 1]}
  BY DEF Left
<1>5. /\ t \in 1..Len(p) /\ p[t] \in {"**", "*", path[n + 1]}
      /\ \A i \in 1..n : f[i] \in Nat /\ f[i] <= t
      /\ m # k => \A i \in 1..n : f[i] < t
      /\ m = k => t = k + 1 /\ p[t] = "**"
      /\ m # k => t = m
      /\ m = k + 2 => p[k + 1] = "**"
      /\ m \in {k, k + 1, k + 2}
  <2>1. \A i \in 1..n : f[i] \in Nat
    BY <1>1, <1>3
  <2>2. CASE m = k
    BY <1>1, <1>2, <1>3, <1>4, <2>1, <2>2
  <2>3. CASE m = k + 1
    BY <1>1, <1>2, <1>3, <1>4, <2>1, <2>3
  <2>4. CASE m = k + 2
    BY <1>1, <1>2, <1>3, <1>4, <2>1, <2>4
  <2> QED
    BY <1>4, <2>2, <2>3, <2>4
<1> HIDE DEF t
<1>6. /\ g \in [1..(n + 1) -> 1..Len(p)] /\ g[n + 1] = t
      /\ \A i \in 1..n : i \in 1..(n + 1) /\ g[i] = f[i]
      /\ \A i \in 1..(n + 1) : i = n + 1 \/ i \in 1..n
  BY <1>3, <1>5
<1> HIDE DEF g
<1>7. Follows(p, path, n + 1, g)
  <2>1. ASSUME NEW i \in 1..(n + 1), NEW j \in 1..(n + 1), i < j PROVE g[i] <= g[j]
    <3>1. i \in 1..n
      BY <2>1
    <3>2. CASE j = n + 1
      BY <1>5, <1>6, <3>1, <3>2
    <3>3. CASE j \in 1..n
      BY <1>3, <1>6, <2>1, <3>1, <3>3
    <3> QED
      BY <1>6, <3>2, <3>3
  <2>2. \A i \in 1..(n + 1) : p[g[i]] \in {"**", "*", path[i]}
    BY <1>3, <1>5, <1>6
  <2> QED
    BY <1>6, <2>1, <2>2 DEF Follows
<1>8. ASSUME NEW l \in 1..m, p[l] # "**" PROVE TakesOne(n + 1, g, l)
  <2>1. l \in Nat
    BY <1>2
  <2>2. CASE l <= k
    <3>1. PICK i \in 1..n : {j \in 1..n : f[j] = l} = {i}
      <4>1. l \in 1..k
        BY <1>1, <1>2, <2>2
      <4> QED
        BY <1>3, <1>8, <4>1 DEF TakesOne
    <3>2. t # l
      BY <1>1, <1>2, <1>5, <1>8, <2>1, <2>2
    <3>3. {j \in 1..(n + 1) : g[j] = l} = {i}
      BY <1>6, <3>1, <3>2
    <3> QED
      BY <1>6, <3>1, <3>3 DEF TakesOne
  <2>3. CASE ~(l <= k)
    <3>1. l = t /\ m # k
      BY <1>1, <1>2, <1>5, <1>8, <2>1, <2>3
    <3>2. \A j \in 1..n : g[j] # l
      BY <1>1, <1>5, <1>6, <3>1
    <3>3. {j \in 1..(n + 1) : g[j] = l} = {n + 1} /\ n + 1 \in 1..(n + 1)
      BY <1>6, <3>1, <3>2
    <3> QED
      BY <3>3 DEF TakesOne
  <2> QED
    BY <2>2, <2>3
<1>9. ASSUME NEW i \in 1..(n + 1) PROVE g[i] <= m \/ (g[i] = m + 1 /\ p[m + 1] = "**")
  <2>1. CASE m = k
    BY <1>1, <1>3, <1>5, <1>6, <2>1
  <2>2. CASE m # k
    BY <1>1, <1>2, <1>3, <1>5, <1>6, <2>2
  <2> QED
    BY <2>1, <2>2
<1> QED
  BY <1>7, <1>8, <1>9 DEF Reaches

\* Whatever is live is what is left of a pattern that has taken the keys so far.
LEMMA LiveHasTaken ==
    ASSUME NEW ps \in SUBSET Seq(STRING), NEW path \in Seq(STRING),
           NEW n \in 0..Len(path), NEW r \in LiveAt(ps, path)[n]
    PROVE  \E p \in ps : \E k \in 0..Len(p) : \E f : r = Rest(p, k) /\ Reaches(p, k, path, n, f)
<1>1. Len(path) \in Nat
  OBVIOUS
<1>2. /\ LiveAt(ps, path)[0] = ps
      /\ \A l \in 1..Len(path) :
            LiveAt(ps, path)[l] = advance(LiveAt(ps, path)[l - 1], path[l])
  BY LiveIs
<1> DEFINE live == LiveAt(ps, path)
           Taken(q, l) == \E p \in ps : \E k \in 0..Len(p) :
                             \E f : q = Rest(p, k) /\ Reaches(p, k, path, l, f)
           Q == {l \in Nat : l <= Len(path) => \A q \in live[l] : Taken(q, l)}
<1>live. /\ live[0] = ps
         /\ \A l \in 1..Len(path) : live[l] = advance(live[l - 1], path[l])
  BY <1>2
<1> HIDE DEF live
<1>3. 0 \in Q
  <2> SUFFICES ASSUME NEW q \in ps PROVE Taken(q, 0)
    BY <1>live
  <2>1. q \in Seq(STRING) /\ Len(q) \in Nat
    OBVIOUS
  <2>2. 0 \in 0..Len(q) /\ q = Rest(q, 0)
    BY <2>1, RestIs
  <2> DEFINE none == [i \in 1..0 |-> 1]
  <2>3. Reaches(q, 0, path, 0, none)
    <3>1. 1..0 = {}
      OBVIOUS
    <3>2. none \in [1..0 -> 1..Len(q)]
      BY <3>1
    <3> QED
      BY <3>1, <3>2 DEF Reaches, Follows
  <2> QED
    BY <2>2, <2>3
<1>4. ASSUME NEW l \in Nat, l \in Q PROVE l + 1 \in Q
  <2> SUFFICES ASSUME l + 1 <= Len(path), NEW q \in live[l + 1] PROVE Taken(q, l + 1)
    OBVIOUS
  <2>1. l + 1 \in 1..Len(path) /\ (l + 1) - 1 = l /\ l <= Len(path)
    BY <1>1
  <2>2. q \in advance(live[l], path[l + 1])
    BY <1>live, <2>1
  <2>3. PICK before \in live[l] : q \in Advanced(before, path[l + 1])
    BY <2>2, AdvanceIs
  <2>4. Taken(before, l)
    BY <1>4, <2>1
  <2>5. PICK p \in ps : \E k \in 0..Len(p) : \E f : before = Rest(p, k) /\ Reaches(p, k, path, l, f)
    BY <2>4
  <2>6. PICK k \in 0..Len(p) : \E f : before = Rest(p, k) /\ Reaches(p, k, path, l, f)
    BY <2>5
  <2>f. PICK f : before = Rest(p, k) /\ Reaches(p, k, path, l, f)
    BY <2>6
  <2>7. p \in Seq(STRING)
    OBVIOUS
  <2>8. PICK m \in Left(p, k, path[l + 1]) : q = Rest(p, m)
    <3>1. q \in {Rest(p, m) : m \in Left(p, k, path[l + 1])}
      BY <2>3, <2>f, <2>7, AdvancedIs
    <3> QED
      BY <3>1
  <2>9. m \in 0..Len(p)
    BY DEF Left
  <2>10. \E g : Reaches(p, m, path, l + 1, g)
    BY <2>f, <2>7, <2>8, ReachesOn
  <2> QED
    BY <2>8, <2>9, <2>10
<1> HIDE DEF Taken
<1>5. Nat \subseteq Q
  <2> HIDE DEF Q
  <2> QED
    BY <1>3, <1>4, NaturalInduction
<1>6. n \in Nat /\ n <= Len(path)
  BY <1>1
<1>7. Taken(r, n)
  BY <1>5, <1>6 DEF live
<1> QED
  BY <1>7 DEF Taken

\* A pattern the code reads as the grammar does: after two "**" nothing else.
Plain(p) ==
    \A i \in 1..(Len(p) - 1) :
       p[i] = "**" /\ p[i + 1] = "**" => \A k \in i..Len(p) : p[k] = "**"
TakenAll(p, path, n, f) ==
    /\ Follows(p, path, n, f)
    /\ \A m \in 1..Len(p) : p[m] # "**" => TakesOne(n, f, m)

\* How much of the pattern is behind when i keys are taken.
Behind(p, f, i) ==
    IF i = 0 THEN 0 ELSE IF p[f[i]] = "**" THEN f[i] - 1 ELSE f[i]

\* The keys taken so far do not reach further, but for the "**" that may take more.
LEMMA BehindIs ==
    ASSUME NEW p \in Seq(STRING), NEW path, NEW n \in Nat, NEW f, Follows(p, path, n, f),
           NEW i \in 0..n
    PROVE  /\ Behind(p, f, i) \in 0..Len(p)
           /\ \A j \in 1..i : \/ f[j] <= Behind(p, f, i)
                              \/ f[j] = Behind(p, f, i) + 1 /\ p[f[j]] = "**"
<1>1. /\ f \in [1..n -> 1..Len(p)] /\ \A a, b \in 1..n : a < b => f[a] <= f[b]
      /\ Len(p) \in Nat
  BY DEF Follows
<1>2. CASE i = 0
  BY <1>1, <1>2 DEF Behind
<1>3. CASE i # 0
  <2>1. i \in 1..n /\ f[i] \in 1..Len(p)
    BY <1>1, <1>3
  <2>2. \A j \in 1..i : j \in 1..n /\ f[j] \in 1..Len(p) /\ f[j] <= f[i]
    <3>1. \A j \in 1..i : j \in 1..n /\ (j = i \/ j < i)
      BY <2>1
    <3> QED
      BY <1>1, <2>1, <3>1
  <2>3. Behind(p, f, i) = IF p[f[i]] = "**" THEN f[i] - 1 ELSE f[i]
    BY <1>3 DEF Behind
  <2>4. CASE p[f[i]] = "**"
    <3>1. Behind(p, f, i) = f[i] - 1
      BY <2>3, <2>4
    <3>2. \A j \in 1..i : f[j] <= f[i] - 1 \/ f[j] = f[i]
      BY <2>1, <2>2
    <3>3. (f[i] - 1) + 1 = f[i] /\ f[i] - 1 \in 0..Len(p)
      <4>1. \A x \in 1..Len(p) : (x - 1) + 1 = x /\ x - 1 \in 0..Len(p)
        BY <1>1
      <4> QED
        BY <2>1, <4>1
    <3> QED
      BY <2>4, <3>1, <3>2, <3>3
  <2>5. CASE p[f[i]] # "**"
    BY <1>1, <2>1, <2>2, <2>3, <2>5
  <2> QED
    BY <2>4, <2>5
<1> QED
  BY <1>2, <1>3

\* When nothing is masked above, one more key leaves live what is not behind.
LEMMA BehindOn ==
    ASSUME NEW p \in Seq(STRING), Plain(p), NEW path, NEW n \in Nat, NEW f, TakenAll(p, path, n, f),
           NEW i \in Nat, i + 1 <= n, ~matchesHere(Rest(p, Behind(p, f, i)))
    PROVE  Behind(p, f, i + 1) \in Left(p, Behind(p, f, i), path[i + 1])
<1> DEFINE k == Behind(p, f, i)
           g == f[i + 1]
<1>1. /\ f \in [1..n -> 1..Len(p)] /\ \A a, b \in 1..n : a < b => f[a] <= f[b]
      /\ \A a \in 1..n : p[f[a]] \in {"**", "*", path[a]}
      /\ \A m \in 1..Len(p) : p[m] # "**" => TakesOne(n, f, m)
      /\ Follows(p, path, n, f)
      /\ Len(p) \in Nat
  BY DEF TakenAll, Follows
<1>2. /\ i \in 0..n /\ i + 1 \in 1..n /\ g \in 1..Len(p) /\ p[g] \in {"**", "*", path[i + 1]}
      /\ \A j \in 1..n : j \in 1..i \/ j = i + 1 \/ i + 1 < j
  BY <1>1
<1>3. /\ k \in 0..Len(p)
      /\ \A j \in 1..i : f[j] <= k \/ (f[j] = k + 1 /\ p[f[j]] = "**")
  <2>1. /\ Behind(p, f, i) \in 0..Len(p)
        /\ \A j \in 1..i : \/ f[j] <= Behind(p, f, i)
                           \/ f[j] = Behind(p, f, i) + 1 /\ p[f[j]] = "**"
    <3>1. i \in 0..n /\ Follows(p, path, n, f)
      BY <1>1, <1>2
    <3> HIDE DEF k, g
    <3> QED
      BY <3>1, BehindIs
  <2> QED
    BY <2>1
<1>4. k < g
  <2>1. CASE i = 0
    BY <1>2, <2>1 DEF Behind
  <2>2. CASE i # 0
    <3>1. i \in 1..n /\ i < i + 1 /\ f[i] \in 1..Len(p) /\ f[i] <= g
      BY <1>1, <1>2, <2>2
    <3>2. CASE p[f[i]] = "**"
      <4>1. k = f[i] - 1
        BY <2>2, <3>2 DEF Behind
      <4> HIDE DEF k, g
      <4> QED
        BY <1>2, <3>1, <4>1
    <3>3. CASE p[f[i]] # "**"
      <4>1. k = f[i]
        BY <2>2, <3>3 DEF Behind
      <4>2. PICK a \in 1..n : {j \in 1..n : f[j] = k} = {a}
        BY <1>1, <3>1, <3>3, <4>1 DEF TakesOne
      <4> HIDE DEF k
      <4>3. g # k
        <5> SUFFICES ASSUME g = k PROVE FALSE
          OBVIOUS
        <5>1. i \in {j \in 1..n : f[j] = k} /\ i + 1 \in {j \in 1..n : f[j] = k}
          BY <1>2, <3>1, <4>1
        <5>2. i = a /\ i + 1 = a
          BY <4>2, <5>1
        <5> QED
          BY <3>1, <5>2
      <4> HIDE DEF g
      <4> QED
        BY <1>2, <3>1, <4>1, <4>3
    <3> QED
      BY <3>2, <3>3
  <2> QED
    BY <2>1, <2>2
<1>5. ASSUME NEW m \in 1..Len(p), k < m, m < g PROVE p[m] = "**"
  <2> SUFFICES ASSUME p[m] # "**" PROVE FALSE
    OBVIOUS
  <2>1. PICK a \in 1..n : {j \in 1..n : f[j] = m} = {a}
    BY <1>1 DEF TakesOne
  <2>2. a \in 1..n /\ f[a] = m
    BY <2>1
  <2> HIDE DEF k, g
  <2>3. CASE a \in 1..i
    BY <1>3, <1>5, <2>2, <2>3
  <2>4. CASE a = i + 1
    BY <1>2, <1>5, <2>2, <2>4 DEF g
  <2>5. CASE i + 1 < a
    <3>1. g <= m
      BY <1>1, <1>2, <2>2, <2>5 DEF g
    <3> QED
      BY <1>2, <1>5, <3>1
  <2> QED
    BY <1>2, <2>2, <2>3, <2>4, <2>5
<1>6. PICK left \in (k + 1)..Len(p) : p[left] # "**"
  <2> HIDE DEF k
  <2>1. matchesHere(Rest(p, k)) <=> \A m \in (k + 1)..Len(p) : p[m] = "**"
    BY <1>3, RestIs
  <2>2. ~matchesHere(Rest(p, k))
    BY DEF k
  <2> QED
    BY <2>1, <2>2
<1> HIDE DEF k, g
<1>7. ~(k + 2 <= Len(p) /\ p[k + 1] = "**" /\ p[k + 2] = "**")
  <2> SUFFICES ASSUME k + 2 <= Len(p), p[k + 1] = "**", p[k + 2] = "**" PROVE FALSE
    OBVIOUS
  <2>1. k + 1 \in 1..(Len(p) - 1) /\ (k + 1) + 1 = k + 2
    BY <1>1, <1>3
  <2> QED
    BY <1>6, <2>1 DEF Plain
<1>8. g = k + 1 \/ (g = k + 2 /\ p[k + 1] = "**" /\ p[g] # "**")
  <2>1. CASE g > k + 1
    <3>1. p[k + 1] = "**" /\ k + 2 <= Len(p)
      BY <1>1, <1>2, <1>3, <1>5, <2>1
    <3>2. ~(k + 2 < g)
      <4> SUFFICES ASSUME k + 2 < g PROVE FALSE
        OBVIOUS
      <4>1. k + 2 \in 1..Len(p) /\ k < k + 2
        BY <1>3, <3>1
      <4> QED
        BY <1>5, <1>7, <3>1, <4>1
    <3> QED
      BY <1>2, <1>3, <1>7, <2>1, <3>1, <3>2
  <2> QED
    BY <1>2, <1>3, <1>4, <2>1
<1>9. Behind(p, f, i + 1) = IF p[g] = "**" THEN g - 1 ELSE g
  <2>1. i + 1 # 0
    OBVIOUS
  <2> QED
    BY <2>1 DEF Behind, g
<1>10. ASSUME g = k + 1, p[g] = "**" PROVE Behind(p, f, i + 1) \in Left(p, k, path[i + 1])
  <2>1. Behind(p, f, i + 1) = k
    BY <1>3, <1>9, <1>10
  <2> QED
    BY <1>1, <1>2, <1>3, <1>10, <2>1 DEF Left
<1>11. ASSUME p[g] # "**", g = k + 1 \/ (g = k + 2 /\ p[k + 1] = "**")
       PROVE Behind(p, f, i + 1) \in Left(p, k, path[i + 1])
  <2>1. Behind(p, f, i + 1) = g /\ p[g] \in {"*", path[i + 1]}
    BY <1>2, <1>9, <1>11
  <2> QED
    BY <1>2, <1>3, <1>11, <2>1 DEF Left
<1> QED
  BY <1>8, <1>10, <1>11 DEF k

\* A pattern that takes the keys is matched on the way down them.
LEMMA TakenIsLive ==
    ASSUME NEW ps \in SUBSET Seq(STRING), NEW path \in Seq(STRING), NEW n \in 0..Len(path),
           NEW p \in ps, Plain(p), NEW f, TakenAll(p, path, n, f)
    PROVE  \E l \in 0..Len(path) : \E q \in LiveAt(ps, path)[l] : matchesHere(q)
<1>0. p \in Seq(STRING) /\ Len(p) \in Nat /\ Len(path) \in Nat /\ n \in Nat /\ n <= Len(path)
  OBVIOUS
<1>live. /\ LiveAt(ps, path)[0] = ps
         /\ \A l \in 1..Len(path) :
               LiveAt(ps, path)[l] = advance(LiveAt(ps, path)[l - 1], path[l])
  BY LiveIs
<1> DEFINE live == LiveAt(ps, path)
<1>l. /\ live[0] = ps
      /\ \A l \in 1..Len(path) : live[l] = advance(live[l - 1], path[l])
  BY <1>live
<1> SUFFICES ASSUME \A l \in 0..Len(path) : \A q \in live[l] : ~matchesHere(q) PROVE FALSE
  OBVIOUS
<1> HIDE DEF live
<1> DEFINE Q == {i \in Nat : i <= n => Rest(p, Behind(p, f, i)) \in live[i]}
<1>1. 0 \in Q
  BY <1>0, <1>l, RestIs DEF Behind
<1>2. ASSUME NEW i \in Nat, i \in Q PROVE i + 1 \in Q
  <2> SUFFICES ASSUME i + 1 <= n PROVE Rest(p, Behind(p, f, i + 1)) \in live[i + 1]
    OBVIOUS
  <2> DEFINE r == Rest(p, Behind(p, f, i))
  <2>1. i <= n /\ i \in 0..n /\ i \in 0..Len(path) /\ i + 1 \in 1..Len(path) /\ (i + 1) - 1 = i
    BY <1>0
  <2>2. r \in live[i]
    BY <1>2, <2>1
  <2>3. ~matchesHere(r)
    BY <2>1, <2>2
  <2>4. Behind(p, f, i + 1) \in Left(p, Behind(p, f, i), path[i + 1])
    BY <1>0, <2>3, BehindOn
  <2>5. Behind(p, f, i) \in 0..Len(p)
    BY <1>0, <2>1, BehindIs DEF TakenAll
  <2>6. Advanced(r, path[i + 1]) = {Rest(p, m) : m \in Left(p, Behind(p, f, i), path[i + 1])}
    BY <1>0, <2>5, AdvancedIs
  <2>7. Rest(p, Behind(p, f, i + 1)) \in Advanced(r, path[i + 1])
    BY <2>4, <2>6
  <2>8. live[i + 1] = UNION {Advanced(q, path[i + 1]) : q \in live[i]}
    BY <1>l, <2>1, AdvanceIs
  <2> QED
    BY <2>2, <2>7, <2>8
<1>3. Nat \subseteq Q
  <2> HIDE DEF Q
  <2> QED
    BY <1>1, <1>2, NaturalInduction
<1>4. Rest(p, Behind(p, f, n)) \in live[n]
  BY <1>0, <1>3
<1>5. /\ Behind(p, f, n) \in 0..Len(p)
      /\ \A j \in 1..n : \/ f[j] <= Behind(p, f, n)
                         \/ f[j] = Behind(p, f, n) + 1 /\ p[f[j]] = "**"
  <2>1. n \in 0..n
    BY <1>0
  <2> QED
    BY <1>0, <2>1, BehindIs DEF TakenAll
<1>6. ASSUME NEW m \in (Behind(p, f, n) + 1)..Len(p) PROVE p[m] = "**"
  <2> SUFFICES ASSUME p[m] # "**" PROVE FALSE
    OBVIOUS
  <2>1. m \in 1..Len(p)
    BY <1>5
  <2>2. PICK a \in 1..n : {j \in 1..n : f[j] = m} = {a}
    BY <2>1 DEF TakenAll, TakesOne
  <2>3. f[a] = m
    BY <2>2
  <2> QED
    BY <1>5, <2>3
<1>7. matchesHere(Rest(p, Behind(p, f, n)))
  BY <1>0, <1>5, <1>6, RestIs
<1> QED
  BY <1>4, <1>7

\* Takes, in the same terms.
LEMMA TakesIs ==
    ASSUME NEW p \in Seq(STRING), NEW path \in Seq(STRING), NEW n \in 0..Len(path)
    PROVE  Takes(p, SubSeq(path, 1, n)) <=> \E f : TakenAll(p, path, n, f)
<1> DEFINE u == SubSeq(path, 1, n)
<1>1. n \in Nat /\ Len(path) \in Nat /\ n <= Len(path)
  OBVIOUS
<1>2. u \in Seq(STRING) /\ Len(u) = n /\ \A i \in 1..n : u[i] = path[i]
  <2>1. (\A i \in 1..n : path[i] \in STRING) /\ 1 \in Int /\ n \in Int
    BY <1>1
  <2>2. /\ u \in Seq(STRING) /\ Len(u) = IF 1 <= n THEN n - 1 + 1 ELSE 0
        /\ \A i \in 1..(n - 1 + 1) : u[i] = path[1 + i - 1]
    BY <2>1, SubSeqProperties
  <2>3. n - 1 + 1 = n /\ (IF 1 <= n THEN n - 1 + 1 ELSE 0) = n /\ \A i \in 1..n : 1 + i - 1 = i
    BY <1>1
  <2> HIDE DEF u
  <2> QED
    BY <2>2, <2>3
<1> HIDE DEF u
<1>3. DOMAIN u = 1..n /\ DOMAIN p = 1..Len(p)
  BY <1>2
<1>4. ASSUME NEW f, NEW k
      PROVE  Cardinality({i \in DOMAIN u : f[i] = k}) = 1 <=> TakesOne(n, f, k)
  <2> DEFINE those == {i \in 1..n : f[i] = k}
  <2>1. IsFiniteSet(1..n)
    BY <1>1, FS_Interval
  <2>2. IsFiniteSet(those)
    BY <2>1, FS_Subset
  <2>3. Cardinality(those) = 1 <=> \E x : those = {x}
    BY <2>2, FS_Singleton
  <2>4. \A x : those = {x} => x \in 1..n
    OBVIOUS
  <2>5. {i \in DOMAIN u : f[i] = k} = those
    BY <1>3
  <2> HIDE DEF those
  <2>6. TakesOne(n, f, k) <=> \E x \in 1..n : those = {x}
    BY DEF TakesOne, those
  <2> QED
    BY <2>3, <2>4, <2>5, <2>6
<1> DEFINE In(f) ==
      /\ \A i, j \in DOMAIN u : i < j => f[i] <= f[j]
      /\ \A i \in DOMAIN u : p[f[i]] \in {"**", "*", u[i]}
      /\ \A k \in DOMAIN p : p[k] # "**" => Cardinality({i \in DOMAIN u : f[i] = k}) = 1
<1>5. Takes(p, u) <=> \E f \in [DOMAIN u -> DOMAIN p] : In(f)
  BY DEF Takes
<1>6. ASSUME NEW f \in [1..n -> 1..Len(p)] PROVE In(f) <=> TakenAll(p, path, n, f)
  <2>1. (\A k \in DOMAIN p : p[k] # "**" => Cardinality({i \in DOMAIN u : f[i] = k}) = 1)
           <=> \A k \in 1..Len(p) : p[k] # "**" => TakesOne(n, f, k)
    BY <1>3, <1>4
  <2>2. (\A i \in DOMAIN u : p[f[i]] \in {"**", "*", u[i]})
           <=> \A i \in 1..n : p[f[i]] \in {"**", "*", path[i]}
    BY <1>2, <1>3
  <2>3. (\A i, j \in DOMAIN u : i < j => f[i] <= f[j])
           <=> \A i, j \in 1..n : i < j => f[i] <= f[j]
    BY <1>3
  <2> QED
    BY <2>1, <2>2, <2>3, Zenon DEF TakenAll, Follows
<1> HIDE DEF In
<1>7. Takes(p, u) <=> \E f \in [1..n -> 1..Len(p)] : TakenAll(p, path, n, f)
  BY <1>3, <1>5, <1>6
<1> QED
  BY <1>7 DEF u, TakenAll, Follows

\* What is masked is what one of the patterns takes.
LEMMA MaskIs ==
    ASSUME NEW ps \in SUBSET Seq(STRING), NEW path \in Seq(STRING), \A p \in ps : Plain(p)
    PROVE  MaskedAt(ps, path)
              <=> \E n \in 0..Len(path) : \E p \in ps : Takes(p, SubSeq(path, 1, n))
<1> DEFINE live == LiveAt(ps, path)
<1>0. MaskedAt(ps, path) <=> \E n \in 0..Len(path) : \E q \in live[n] : matchesHere(q)
  BY DEF MaskedAt
<1>1. ASSUME NEW n \in 0..Len(path), NEW q \in live[n], matchesHere(q)
      PROVE  \E p \in ps : Takes(p, SubSeq(path, 1, n))
  <2>1. PICK p \in ps : \E k \in 0..Len(p) : \E f : q = Rest(p, k) /\ Reaches(p, k, path, n, f)
    BY LiveHasTaken
  <2>2. PICK k \in 0..Len(p) : \E f : q = Rest(p, k) /\ Reaches(p, k, path, n, f)
    BY <2>1
  <2>3. PICK f : q = Rest(p, k) /\ Reaches(p, k, path, n, f)
    BY <2>2
  <2>4. p \in Seq(STRING) /\ Len(p) \in Nat
    OBVIOUS
  <2>5. \A m \in (k + 1)..Len(p) : p[m] = "**"
    <3>1. matchesHere(Rest(p, k)) <=> \A m \in (k + 1)..Len(p) : p[m] = "**"
      BY <2>4, RestIs
    <3> QED
      BY <1>1, <2>3, <3>1
  <2>6. \A m \in 1..Len(p) : p[m] # "**" => m \in 1..k
    BY <2>4, <2>5
  <2>7. TakenAll(p, path, n, f)
    BY <2>3, <2>6 DEF Reaches, TakenAll
  <2> QED
    BY <2>4, <2>7, TakesIs
<1>2. ASSUME NEW n \in 0..Len(path), NEW p \in ps, Takes(p, SubSeq(path, 1, n))
      PROVE  \E l \in 0..Len(path) : \E q \in live[l] : matchesHere(q)
  <2>1. p \in Seq(STRING)
    OBVIOUS
  <2>2. PICK f : TakenAll(p, path, n, f)
    BY <1>2, <2>1, TakesIs
  <2> QED
    BY <2>2, TakenIsLive
<1> QED
  BY <1>0, <1>1, <1>2

\* The invariant: the patterns and the payload are what they are said to be.
MaskIInv == patterns \in PatternLists /\ data \in [Paths -> Values]

\* Nothing but a change of a field touches it.
LEMMA NextMask == MaskIInv /\ [Next]_vars => MaskIInv'
<1> SUFFICES ASSUME MaskIInv, [Next]_vars PROVE MaskIInv'
  OBVIOUS
<1>1. CASE UNCHANGED maskVars
  BY <1>1 DEF maskVars, MaskIInv
<1>2. CASE MaskNext
  <2>1. PICK path \in Paths, v \in Values : data' = [data EXCEPT ![path] = v]
    BY <1>2 DEF MaskNext, Changes
  <2> QED
    BY <1>2, <2>1 DEF MaskNext, Changes, MaskIInv
<1> QED
  BY <1>1, <1>2 DEF Next, vars

\* It is an invariant of the server.
LEMMA SpecMaskIInv == Spec => []MaskIInv
<1>1. Init => MaskIInv
  BY DEF Init, MaskInit, MaskIInv
<1> QED
  BY <1>1, NextMask, PTL DEF Spec

\* A configured list masks what its patterns say.
LEMMA MasksWhatIsSaid ==
    ASSUME NEW ps \in PatternLists, NEW path \in Paths
    PROVE  MaskedAt(compileMask(ps), path) <=> SaidMasked(ps, path)
<1> DEFINE qs == compileMask(ps)
<1>1. ps \in Seq(Seq(STRING)) /\ path \in Seq(STRING)
  BY MaskAssumption
<1>2. ToSet(ps) \subseteq Seq(STRING)
  BY <1>1 DEF ToSet
<1>3. qs \in SUBSET Seq(STRING) /\ qs \subseteq ToSet(ps)
  BY <1>2 DEF compileMask
<1>4. \A p \in qs : Plain(p)
  BY <1>3, NoneInARow DEF Plain
<1> HIDE DEF qs
<1>5. MaskedAt(qs, path)
         <=> \E n \in 0..Len(path) : \E p \in qs : Takes(p, SubSeq(path, 1, n))
  BY <1>1, <1>3, <1>4, MaskIs
<1> QED
  BY <1>5 DEF qs, SaidMasked

\* What maskNode hides is what the grammar of the patterns says (mask.ts:15), whatever
\* the list and the path: a "**" that takes nothing, patterns that overlap.
THEOREM MasksFollowTheGrammar == Spec => []MaskFollowsGrammar
<1>1. MaskIInv => MaskFollowsGrammar
  BY MasksWhatIsSaid DEF MaskIInv, MaskFollowsGrammar
<1> QED
  BY <1>1, SpecMaskIInv, PTL

\* No query tells two payloads apart that differ in masked fields only (app.ts:57).
THEOREM SearchesProbeNothing == Spec => SearchIsNoOracle
<1>1. MaskIInv /\ MaskIInv' /\ [Next]_vars
         => [(\A path \in Paths : data'[path] # data[path] => SaidMasked(patterns, path))
                => Finds(data', patterns, token) = Finds(data, patterns, token)]_maskVars
  <2> SUFFICES ASSUME MaskIInv, MaskIInv',
                      \A path \in Paths : data'[path] # data[path] => SaidMasked(patterns, path)
               PROVE  Finds(data', patterns, token) = Finds(data, patterns, token)
    OBVIOUS
  <2>1. /\ DOMAIN data = Paths /\ DOMAIN data' = Paths /\ patterns \in PatternLists
    BY DEF MaskIInv
  <2> DEFINE seen(d) == [path \in Paths |->
                           IF MaskedAt(compileMask(patterns), path) THEN Masked ELSE d[path]]
  <2>2. ASSUME NEW path \in Paths PROVE seen(data)[path] = seen(data')[path]
    BY <2>1, MasksWhatIsSaid
  <2>3. seen(data) = seen(data')
    BY <2>2
  <2>4. applyMask(data, patterns) = seen(data) /\ applyMask(data', patterns) = seen(data')
    BY <2>1 DEF applyMask
  <2> HIDE DEF seen
  <2> QED
    BY <2>3, <2>4 DEF Finds
<1> QED
  BY <1>1, SpecMaskIInv, PTL DEF Spec, SearchIsNoOracle
=============================================================================
