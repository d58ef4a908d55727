------------------------------ MODULE MCConsole ------------------------------
(***************************************************************************)
(* The console for TLC: two queues, two tabs and three kinds of poll; two  *)
(* jobs in the drawer; two screens and up to two queues in the palette; a  *)
(* queue of the demo with more failed jobs than are sampled.               *)
(***************************************************************************)
EXTENDS Console

MCScreens == <<"overview", "search">>
MCPaletteQueues == {<<>>, <<"mail">>, <<"mail", "sync">>}
\* "zz" matches nothing, "s" screens and queues, "mail" a queue that may go.
MCMatches ==
    [x \in {"", "s", "mail", "zz"} |->
        CASE x = "s" -> {"search", "sync"}
          [] x = "mail" -> {"mail"}
          [] OTHER -> {}]

\* The handlers of one queue of the demo touch no other but through idSeq.
MCDemoQueues == <<"email">>
MCLimit == [s \in JobStates |-> 2]
MCCounts ==
    [q \in {"email"} |-> [s \in JobStates |->
        CASE s = "failed" -> 3 [] s = "delayed" -> 1 [] OTHER -> 0]]
=============================================================================
