------------------------------- MODULE Console -------------------------------
(***************************************************************************)
(* The parts of the web console that its shell (App.tsx) puts on one page: *)
(* the polls and the screen of a queue, the two forms, the job drawer with *)
(* its toast, the command palette, and in the static demo the backend that *)
(* answers their calls.  They share the route, the drawer's target and     *)
(* what requests carry, which each part takes as an input, and no other    *)
(* state; they are played with one at a time: `scene` says which.          *)
(***************************************************************************)
EXTENDS UsePoll, SearchForms, CommandPalette, JobDrawer, DemoBackend

VARIABLE scene          \* bound of the model: the part that is played with

vars == <<scene, pollVars, formVars, paletteVars, drawerVars, demoVars>>

Scenes == {"poll", "form", "palette", "drawer", "demo"}

\* A part that is not played with is in one of its initial states.
Init ==
    /\ scene \in Scenes
    /\ PollInit /\ FormInit /\ PaletteInit /\ DrawerInit /\ DemoInit
    /\ scene # "poll" =>
          /\ queue = (CHOOSE q \in Queues : TRUE) /\ tab = (CHOOSE t \in Tabs : TRUE)
          /\ poll.name = "summary" /\ inTime
    /\ scene # "form" => form = "search" /\ list = {}
    /\ scene # "demo" =>
          /\ paused = {}
          /\ \A q \in DemoQueues : \A j \in AllOf(samples[q]) :
                j.errorSignature \in {NoSig, CHOOSE g \in Sigs : TRUE}

Polling(A) ==
    scene = "poll" /\ A /\ UNCHANGED <<inTime, formVars, paletteVars, drawerVars, demoVars>>

Next ==
    /\ UNCHANGED scene
    /\ \/ Polling(PollNext)
       \/ /\ scene = "form" /\ FormNext
          /\ UNCHANGED <<pollVars, paletteVars, drawerVars, demoVars>>
       \/ /\ scene = "palette" /\ PaletteNext
          /\ UNCHANGED <<pollVars, formVars, drawerVars, demoVars>>
       \/ /\ scene = "drawer" /\ DrawerNext
          /\ UNCHANGED <<pollVars, formVars, paletteVars, demoVars>>
       \/ /\ scene = "demo" /\ DemoNext
          /\ UNCHANGED <<pollVars, formVars, paletteVars, drawerVars>>

\* The browser calls back, and the server answers or the connection fails.
Fairness ==
    /\ WF_pollVars(Polling(\E r \in Current : Served(r)))
    /\ WF_pollVars(Polling(\E r \in Current : Settles(r)))

Spec == Init /\ [][Next]_vars /\ Fairness

-----------------------------------------------------------------------------
(***************************************************************************)
(* Once the user has stopped, every poll comes to have data of what is on  *)
(* the screen, or has recorded that its request failed: where answers come *)
(* before the next tick.  Where they do not, each tick aborts the request  *)
(* of the tick before, and nothing may ever settle.                        *)
(***************************************************************************)
PollSettles ==
    scene = "poll" /\ inTime =>
       <>[](poll.error \/ (poll.data # NoData /\ poll.data.deps = poll.deps))
=============================================================================
