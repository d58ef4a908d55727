---------------------------- MODULE MCMemoryStore ----------------------------
(***************************************************************************)
(* Events of one queue at times that cross bucket and retention bounds, in *)
(* any order.  Job a fails with two signatures; a job whose hash was gone  *)
(* has no name and no spans.                                               *)
(***************************************************************************)
EXTENDS MemoryStore

Event(kind, jobName, signature, at, spans) ==
    [kind |-> kind, jobName |-> jobName, errorSignature |-> signature, at |-> at,
     spans |-> spans]

FailuresAt(t) == {Event("failed", "a", "timeout", t, {"run_ms"}),
                  Event("failed", Null, "refused", t, {}),
                  Event("failed", "a", Null, t, {})}

\* Buckets of width 2: 0, 2, 2, 6.  The failures touch six series, and a timed
\* completion four more.
MCEvents ==
    UNION {FailuresAt(t) : t \in {0, 2, 3, 6}}
      \cup {Event("completed", "b", Null, t, {"wait_ms"}) : t \in {1, 4}}
      \cup {Event("added", "b", Null, 5, {})}
=============================================================================
