------------------------------ MODULE AppServer ------------------------------
(***************************************************************************)
(* The routes of createBullwatch (core/src/server/app.ts) and what they    *)
(* call: the registry that resolves a queue, the mutations, the search and *)
(* its samples, and the mask on what is read.  They share Redis and the    *)
(* options and no other state, and are played with one at a time: `scene`  *)
(* says which.                                                             *)
(***************************************************************************)
EXTENDS JobActions, JobSearch, PayloadMask, QueueRegistry

VARIABLE scene          \* bound of the model: the part that is played with

vars == <<scene, registryVars, actionVars, searchVars, maskVars>>

Scenes == {"registry", "actions", "search", "mask"}

\* A part that is not played with is in one of its initial states.
Init ==
    /\ scene \in Scenes
    /\ RegistryInit
    /\ scene # "registry" => explicit = {} /\ meta = {} /\ ~discover /\ ~given
    /\ ActionsInit
    /\ scene # "actions" => readOnly /\ \A i \in Ids : jobs[i] = "failed"
    /\ SearchInit
    /\ scene # "search" => /\ \A j \in SearchJobs : signature[j] = Sought
                           /\ Len(lists["failed"]) = Cardinality(SearchJobs)
    /\ MaskInit
    /\ scene # "mask" => /\ patterns = <<>> /\ token = [path |-> <<>>, value |-> ""]
                         /\ \A p \in Paths : data[p] = (CHOOSE v \in Values : TRUE)

Next ==
    /\ UNCHANGED scene
    /\ \/ scene = "registry" /\ RegistryNext /\ UNCHANGED <<actionVars, searchVars, maskVars>>
       \/ scene = "actions" /\ ActionsNext /\ UNCHANGED <<registryVars, searchVars, maskVars>>
       \/ scene = "search" /\ SearchNext /\ UNCHANGED <<registryVars, actionVars, maskVars>>
       \/ scene = "mask" /\ MaskNext /\ UNCHANGED <<registryVars, actionVars, searchVars>>

Spec == Init /\ [][Next]_vars
=============================================================================
