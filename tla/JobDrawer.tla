------------------------------ MODULE JobDrawer ------------------------------
(***************************************************************************)
(* The job drawer of the web console (components/JobDrawer.tsx), the store *)
(* it reads and the toast it shows (lib/drawer.ts).                        *)
(*                                                                         *)
(* Every open() or close() runs the effect again: it forgets the job, its  *)
(* error and the replay form, aborts the request before and asks for the   *)
(* new job.  A mutation is not aborted: whatever is open when it succeeds  *)
(* is closed.  Navigation closes the drawer too.                           *)
(***************************************************************************)
EXTENDS Integers, FiniteSets

CONSTANTS
    Targets,            \* (queue, id) pairs
    None,
    MaxOpens,           \* bound of the model: openings of the drawer
    MaxMutations        \* bound of the model: mutations

ASSUME DrawerAssumption ==
    /\ None \notin Targets
    /\ {MaxOpens, MaxMutations} \subseteq Nat

VARIABLES
    current,            \* the target of lib/drawer.ts
    job, state, error,  \* what the drawer shows of it
    replayOpen, replayText,
    loads,              \* requests for a job
    acts,               \* mutations under way
    toast, timers,      \* the toast, by its number, and the timeouts that run
    shown, opens, mutations     \* how many there were

drawerVars == <<current, job, state, error, replayOpen, replayText, loads, acts,
                toast, timers, shown, opens, mutations>>

-----------------------------------------------------------------------------
\* The text of the form: the payload of a job, as the server masks it, that
\* payload edited, or what does not parse.
Text(t) == <<"of", t>>
Edited(t) == <<"edited", t>>
Invalid == <<"invalid", None>>

DrawerInit ==
    /\ current = None /\ job = None /\ state = "waiting" /\ error = FALSE
    /\ replayOpen = FALSE /\ replayText = <<"empty", None>>
    /\ loads = {} /\ acts = {} /\ toast = 0 /\ timers = {}
    /\ shown = 0 /\ opens = 0 /\ mutations = 0

Forgotten == job' = None /\ state' = "waiting" /\ error' = FALSE /\ replayOpen' = FALSE

\* Mutant: the request before is left alone.
Effect_NoAbort(t) ==
    /\ current' = t
    /\ Forgotten
    /\ loads' = loads \cup (IF t = None THEN {}
                            ELSE {[target |-> t, number |-> opens', aborted |-> FALSE]})
    /\ UNCHANGED replayText

\* The effect that a change of the target runs, after the clean-up of the one
\* before.
Effect(t) ==
    /\ current' = t
    /\ Forgotten
    /\ loads' = {[l EXCEPT !.aborted = TRUE] : l \in loads} \cup
                (IF t = None THEN {}
                 ELSE {[target |-> t, number |-> opens', aborted |-> FALSE]})
    /\ UNCHANGED replayText
\* open(): a row of a screen, or a node of a flow.
Open(t) ==
    /\ opens < MaxOpens
    /\ opens' = opens + 1
    /\ Effect(t)
    /\ UNCHANGED <<acts, toast, timers, shown, mutations>>

\* The cross, the backdrop, Escape, and the hash that changes.
Close ==
    /\ current # None
    /\ UNCHANGED <<acts, toast, timers, shown, opens, mutations>>
    /\ Effect(None)

\* The job comes, in some state, or an error does.
Loaded(l) ==
    /\ l \in loads /\ ~l.aborted
    /\ loads' = loads \ {l}
    /\ \/ /\ job' = l.target
          /\ state' \in {"failed", "completed", "active", "waiting"}
          /\ UNCHANGED error
       \/ error' = TRUE /\ UNCHANGED <<job, state>>
    /\ UNCHANGED <<current, replayOpen, replayText, acts, toast, timers, shown, opens, mutations>>

\* An aborted request rejects, and no one hears of it.
LoadAborted(l) ==
    /\ l \in loads /\ l.aborted
    /\ loads' = loads \ {l}
    /\ UNCHANGED <<current, job, state, error, replayOpen, replayText, acts, toast,
                   timers, shown, opens, mutations>>

-----------------------------------------------------------------------------
drawerVarsOfJob == <<current, job, state, error, replayOpen, replayText, loads>>

\* A toast replaces the one before, and its timeout.
show ==
    /\ shown' = shown + 1 /\ toast' = shown'
    /\ timers' = {shown'}
ToastTimer(n) ==
    /\ n \in timers
    /\ toast' = 0 /\ timers' = timers \ {n}
    /\ UNCHANGED <<drawerVarsOfJob, acts, shown, opens, mutations>>

\* act(): the request leaves.
act(op, text) ==
    /\ mutations < MaxMutations
    /\ mutations' = mutations + 1
    /\ acts' = acts \cup {[op |-> op, target |-> current, text |-> text, number |-> mutations']}
    /\ UNCHANGED <<drawerVarsOfJob, toast, timers, shown, opens>>

\* The buttons: Retry and the replay form are those of a failed job.
Press(op) ==
    /\ current # None
    /\ op = "retry" => state = "failed"
    /\ act(op, Invalid)

ToggleReplay ==
    /\ current # None /\ state = "failed"
    /\ replayText' = Text(job) /\ replayOpen' = ~replayOpen
    /\ UNCHANGED <<current, job, state, error, loads, acts, toast, timers, shown, opens, mutations>>

Edit ==
    /\ current # None /\ replayOpen
    /\ replayText' \in {Edited(job), Invalid}
    /\ UNCHANGED <<current, job, state, error, replayOpen, loads, acts, toast, timers, shown,
                   opens, mutations>>

CancelReplay ==
    /\ current # None /\ replayOpen
    /\ replayOpen' = FALSE
    /\ UNCHANGED <<current, job, state, error, replayText, loads, acts, toast, timers, shown,
                   opens, mutations>>

\* "Submit replay": a text that does not parse goes nowhere but to a toast.
SubmitReplay ==
    /\ current # None /\ replayOpen
    /\ \/ replayText # Invalid /\ act("replay", replayText)
       \/ /\ replayText = Invalid
          /\ mutations < MaxMutations /\ mutations' = mutations + 1
          /\ show
          /\ UNCHANGED <<drawerVarsOfJob, acts, opens>>

\* The answer: a toast, and after a success the drawer is closed, whosever it is.
Acted(a) ==
    /\ a \in acts
    /\ acts' = acts \ {a}
    /\ show
    /\ UNCHANGED <<opens, mutations>>
    /\ Effect(None) \/ UNCHANGED drawerVarsOfJob

DrawerNext ==
    \/ \E t \in Targets : Open(t)
    \/ Close
    \/ \E l \in loads : Loaded(l) \/ LoadAborted(l)
    \/ \E op \in {"retry", "promote", "remove"} : Press(op)
    \/ ToggleReplay \/ Edit \/ CancelReplay \/ SubmitReplay
    \/ \E a \in acts : Acted(a)
    \/ \E n \in timers : ToastTimer(n)

-----------------------------------------------------------------------------
(***************************************************************************)
(* The drawer never shows one job under the name of another, whatever late *)
(* answers and closings by other mutations come between, and a replay puts *)
(* a payload into no job but the one it was taken from.  The toast of a    *)
(* mutation is taken away by its own timeout and by no earlier one.        *)
(***************************************************************************)
DrawerActsOnWhatItShows ==
    /\ job # None => job = current
    /\ replayOpen => replayText \in {Text(current), Edited(current), Invalid}
    /\ \A a \in acts :
          a.op = "replay" => a.text \in {Text(a.target), Edited(a.target)}
    /\ toast # 0 => timers = {toast}
=============================================================================
