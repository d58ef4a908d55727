----------------------------- MODULE LiveMetrics -----------------------------
(***************************************************************************)
(* The live metrics pipeline of one process: the collectors that           *)
(* startMetrics and close() make and end (core/src/server/app.ts), and     *)
(* what one that is live makes of the events of its queue                  *)
(* (core/src/bullmq/metrics-collector.ts).  A collector that is being      *)
(* closed finishes the handlers it has begun, so the handlers depend on no *)
(* state of the Map; the two are played with one at a time: `scene` says   *)
(* which.                                                                  *)
(***************************************************************************)
EXTENDS MetricsCollectors, EventIngestion

VARIABLE scene          \* bound of the model: the part that is played with

liveVars == <<scene, vars, ingestionVars>>

LiveInit ==
    /\ scene \in {"collectors", "handlers"}
    /\ Init /\ IngestionInit
    /\ scene # "collectors" => existing = {} /\ scenario.wait
    /\ scene # "handlers" => ~store.fails /\ store.refuses = {}

LiveNext ==
    /\ UNCHANGED scene
    /\ \/ scene = "collectors" /\ Next /\ UNCHANGED ingestionVars
       \/ scene = "handlers" /\ IngestionNext /\ UNCHANGED vars

LiveSpec == LiveInit /\ [][LiveNext]_liveVars
=============================================================================
