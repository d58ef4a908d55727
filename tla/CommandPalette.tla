--------------------------- MODULE CommandPalette ---------------------------
(***************************************************************************)
(* The command palette (components/CommandPalette.tsx), the routes it and  *)
(* the rest of the shell lead to (lib/router.ts, App.tsx).  What it shows  *)
(* is the list of screens and queues that its query leaves; the queues are *)
(* polled while it is open, and `sel` is a position, in a list that        *)
(* changes under it.                                                       *)
(***************************************************************************)
EXTENDS Integers, Sequences, SequencesExt

CONSTANTS
    Screens,            \* the sequence of screens
    PaletteQueues,      \* the set of the lists of queues a poll may bring
    Matches,            \* [query -> the commands it leaves], "" leaves all
    Overview,           \* the screen of a hash that names no other
    MaxKeys             \* bound of the model: what the user does

ASSUME PaletteAssumption ==
    /\ Screens \in Seq(STRING) /\ PaletteQueues \subseteq Seq(STRING)
    /\ "" \in DOMAIN Matches /\ MaxKeys \in Nat

VARIABLES
    paletteOpen, query,
    queues,             \* the queues of the last poll
    sel,                \* the position selected, counted from 0
    route,
    keys

paletteVars == <<paletteOpen, query, queues, sel, route, keys>>

-----------------------------------------------------------------------------
filtered(q, qs) ==
    IF q = "" THEN Screens \o qs ELSE SelectSeq(Screens \o qs, LAMBDA c : c \in Matches[q])
Shown == Len(filtered(query, queues))

AtMost(a, b) == IF a < b THEN a ELSE b
AtLeast(a, b) == IF a > b THEN a ELSE b

\* Mutant: there is none.
Clamped_Not(s, n) == s

\* The effect that runs when the length of the list has changed.
Clamped(s, n) == IF n = Shown THEN s ELSE AtMost(s, AtLeast(0, n - 1))

PaletteInit ==
    /\ paletteOpen = FALSE /\ query = "" /\ queues = <<>> /\ sel = 0
    /\ route = Overview /\ keys = 0

\* A list of commands for the query x and the queues qs.
Lists(x, qs) ==
    /\ query' = x /\ queues' = qs
    /\ sel' = Clamped(sel, Len(filtered(x, qs)))

Polled(qs) == Lists(query, qs) /\ UNCHANGED <<paletteOpen, route, keys>>

Key == keys < MaxKeys /\ keys' = keys + 1

\* The shortcut of the shell, or its header; what opens starts afresh.
openPalette ==
    /\ Key /\ ~paletteOpen
    /\ paletteOpen' = TRUE /\ query' = "" /\ sel' = 0
    /\ UNCHANGED <<queues, route>>

onClose ==
    /\ Key /\ paletteOpen
    /\ paletteOpen' = FALSE
    /\ UNCHANGED <<query, queues, sel, route>>

setQuery(x) ==
    /\ Key /\ paletteOpen
    /\ Lists(x, queues)
    /\ UNCHANGED <<paletteOpen, route>>

\* The arrows: with nothing to select, the one down leads before the first.
Select(s) ==
    /\ Key /\ paletteOpen
    /\ sel' = s
    /\ UNCHANGED <<paletteOpen, query, queues, route>>
ArrowDown == Select(AtMost(Shown - 1, sel + 1))
ArrowUp   == Select(AtLeast(0, sel - 1))
Hover     == \E i \in 0..(Shown - 1) : Select(i)

\* The hash, and the route that is read from it.
navigate(c) == route' = c

\* Enter, or a click after the pointer has entered the command.
choose ==
    /\ Key /\ paletteOpen
    /\ sel \in 0..(Shown - 1)
    /\ navigate(filtered(query, queues)[sel + 1])
    /\ paletteOpen' = FALSE
    /\ UNCHANGED <<query, queues, sel>>

\* A hash that is typed or bookmarked: a queue need not be among those polled.
parseHash ==
    /\ Key
    /\ \E c \in {Overview} \cup ToSet(Screens) \cup UNION {ToSet(qs) : qs \in PaletteQueues} :
          navigate(c)
    /\ UNCHANGED <<paletteOpen, query, queues, sel>>

PaletteNext ==
    \/ \E qs \in PaletteQueues : Polled(qs)
    \/ \E x \in DOMAIN Matches : setQuery(x)
    \/ openPalette \/ onClose \/ ArrowDown \/ ArrowUp \/ Hover \/ choose \/ parseHash

-----------------------------------------------------------------------------
(***************************************************************************)
(* However queries, arrows and polls that add or take queues follow one    *)
(* another, the position never lies past the end of what is shown, so that *)
(* Enter acts whenever a command is highlighted.  (It lies before the      *)
(* beginning, and highlights none, after an arrow down in a list that the  *)
(* query has emptied, and stays there when the query is taken back.)       *)
(***************************************************************************)
SelectionInList ==
    /\ sel < AtLeast(1, Shown)
    /\ sel >= -1
=============================================================================
