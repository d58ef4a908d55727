----------------------------- MODULE MCAppServer -----------------------------
(***************************************************************************)
(* The server for TLC: two queues; two jobs, two requests and a bulk list  *)
(* that names a job twice; three jobs that move under a search; payloads   *)
(* of four fields, and patterns that overlap.                              *)
(***************************************************************************)
EXTENDS AppServer

MCLists == {<<>>, <<"a", "b">>, <<"b", "b">>}

MCStateLists == {<<"waiting", "active", "failed">>, <<"failed", "failed">>, <<>>}

MCPaths == {<<"x">>, <<"a", "x">>, <<"a", "b", "x">>, <<"b", "a">>}
\* None of them has anything but "**" after two.
MCPatternLists ==
    {<<>>, << <<"a">> >>, << <<"**", "x">> >>, << <<"*", "x">> >>, << <<"b", "**">> >>,
     << <<"a", "*", "x">>, <<"b">> >>, << <<"**", "*", "x">> >>,
     << <<"**", "a", "**", "x">> >>, << <<>>, <<"x">> >>, << <<"b", "**", "**">> >>}

Interchangeable ==
    Permutations(Clients) \cup Permutations(Closers) \cup Permutations(Names)
=============================================================================
