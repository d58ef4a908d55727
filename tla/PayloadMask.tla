----------------------------- MODULE PayloadMask -----------------------------
(***************************************************************************)
(* The masking of payloads (core/src/domain/mask.ts) and the predicate of  *)
(* the search that runs on what it leaves (domain/search-query.ts).        *)
(*                                                                         *)
(* A payload is a function from the paths of its leaves to values; a path  *)
(* and a pattern are sequences of segments.  One instance of the model is  *)
(* a list of patterns, a payload and a query: the initial states are all   *)
(* of them, and the steps change the payload under the mask.               *)
(***************************************************************************)
EXTENDS Integers, Sequences, SequencesExt, FiniteSets

CONSTANTS
    PatternLists,       \* the lists of patterns an operator may configure
    Paths,              \* the paths of the leaves of a payload
    Values,             \* what a leaf may hold
    Masked              \* the sentinel

ASSUME MaskAssumption ==
    /\ Values \cap {Masked, "", "/", "field:"} = {}
    /\ <<>> \notin Paths /\ Paths \subseteq Seq(STRING)
    /\ PatternLists \subseteq Seq(Seq(STRING))

\* After "**" another "**" makes the code match nothing that the grammar does
\* (mask.ts:58 compares the second with the key), unless nothing else follows.
ASSUME NoneInARow ==
    \A ps \in PatternLists : \A p \in ToSet(ps) : \A i \in 1..(Len(p) - 1) :
       p[i] = "**" /\ p[i + 1] = "**" => \A k \in i..Len(p) : p[k] = "**"

VARIABLES patterns, data, token

maskVars == <<patterns, data, token>>

-----------------------------------------------------------------------------
\* Empty segments of a dotted pattern are dropped, and so are empty patterns.
compileMask(ps) == ToSet(ps) \ {<<>>}

\* The rest of a pattern is matched by nothing at all.
matchesHere(p) == \A i \in DOMAIN p : p[i] = "**"

\* Mutant: "**" takes at least one segment.
advance_OneAtLeast(ps, key) ==
    UNION {CASE p = <<>> -> {}
             [] p # <<>> /\ Head(p) = "**" -> {p, Tail(p)}
             [] p # <<>> /\ Head(p) # "**" ->
                   IF Head(p) \in {"*", key} THEN {Tail(p)} ELSE {} : p \in ps}

\* What a live pattern becomes under a key: "**" stays, and the segment after
\* it may match the key at once.
advance(ps, key) ==
    UNION {CASE p = <<>> -> {}
             [] p # <<>> /\ Head(p) = "**" ->
                   {p} \cup (IF Len(p) > 1 /\ p[2] \in {"*", key} THEN {SubSeq(p, 3, Len(p))} ELSE {})
             [] p # <<>> /\ Head(p) # "**" ->
                   IF Head(p) \in {"*", key} THEN {Tail(p)} ELSE {} : p \in ps}

\* maskNode on the way down to a leaf: the live patterns at each node, and the
\* leaf is masked with the first node above it that one of them matches.
LiveAt(ps, path) ==
    LET live[n \in 0..Len(path)] == IF n = 0 THEN ps ELSE advance(live[n - 1], path[n])
    IN  live
MaskedAt(ps, path) ==
    LET live == LiveAt(ps, path)
    IN  \E n \in 0..Len(path) : \E p \in live[n] : matchesHere(p)

applyMask(d, ps) ==
    [path \in DOMAIN d |-> IF MaskedAt(compileMask(ps), path) THEN Masked ELSE d[path]]

\* The grammar of the patterns (mask.ts:15): a literal or "*" for one segment,
\* "**" for any number; `f` says which segment of the pattern takes which of
\* the path.
Takes(p, path) ==
    \E f \in [DOMAIN path -> DOMAIN p] :
       /\ \A i, j \in DOMAIN path : i < j => f[i] <= f[j]
       /\ \A i \in DOMAIN path : p[f[i]] \in {"**", "*", path[i]}
       /\ \A k \in DOMAIN p :
             p[k] # "**" => Cardinality({i \in DOMAIN path : f[i] = k}) = 1
SaidMasked(ps, path) ==
    \E n \in 0..Len(path), p \in compileMask(ps) : Takes(p, SubSeq(path, 1, n))

-----------------------------------------------------------------------------
\* A token of a query: a predicate on a field, or free text.  A field without
\* a value, or with what looks like a URL, is free text.
parseSearchQuery(t) ==
    IF t.path # <<>> /\ t.value \in {"", "/"} THEN [path |-> <<>>, value |-> "field:"] ELSE t

\* The leaves at or below a path: what is stringified.
Below(d, path) == {d[q] : q \in {q \in DOMAIN d : IsPrefix(path, q)}}
matchesQuery(d, t) ==
    LET q == parseSearchQuery(t)
    IN  q.value = "" \/ q.value \in Below(d, q.path)

\* Mutant: it asks the payload.
Finds_Unmasked(d, ps, t) == matchesQuery(d, t)

\* searchJobs asks the masked payload.
Finds(d, ps, t) == matchesQuery(applyMask(d, ps), t)

MaskInit ==
    /\ patterns \in PatternLists
    /\ data \in [Paths -> Values]
    /\ token \in [path : {<<>>} \cup UNION {{SubSeq(q, 1, n) : n \in 1..Len(q)} : q \in Paths},
                  value : Values \cup {"", "/"}]

\* A field of a job is another the next time it is read.
Changes ==
    /\ \E path \in Paths, v \in Values : data' = [data EXCEPT ![path] = v]
    /\ UNCHANGED <<patterns, token>>
MaskNext == Changes

-----------------------------------------------------------------------------
(***************************************************************************)
(* "`**` matches zero or more segments", "`*` matches exactly one"         *)
(* (mask.ts:17): what is masked is what the grammar says, on every path    *)
(* and for lists in which patterns overlap.                                *)
(***************************************************************************)
MaskFollowsGrammar ==
    \A path \in Paths :
       MaskedAt(compileMask(patterns), path) <=> SaidMasked(patterns, path)

(***************************************************************************)
(* A masked field cannot be probed out of a search (app.ts:57): a change   *)
(* of what the operator said to mask changes the outcome of no query.      *)
(***************************************************************************)
SearchIsNoOracle ==
    [][(\A path \in Paths : data'[path] # data[path] => SaidMasked(patterns, path))
          => Finds(data', patterns, token) = Finds(data, patterns, token)]_maskVars
=============================================================================
