----------------------------- MODULE Dispatcher -----------------------------
(***************************************************************************)
(* What every handler relies on: an event that was reported is served unless *)
(* nobody waits for it any more, only such events are served, and no new     *)
(* ones are asked for before all of these have had their turn.               *)
(***************************************************************************)
CONSTANT Events

VARIABLES
    watched,  \* the events somebody waits for
    pending,  \* those reported and not served yet
    running   \* the loop goes on

dispatcherVars == <<watched, pending, running>>

Init ==
    /\ watched \subseteq Events
    /\ pending = {}
    /\ running = TRUE

Report ==
    /\ running = TRUE
    /\ pending = {}
    /\ pending' \subseteq watched
    /\ UNCHANGED <<watched, running>>

\* What leaves pending and is not served, nobody waits for.
Drops(S) == S \intersect watched = {}

\* A handler may change who waits for what, and end everything.
Serve ==
    /\ running = TRUE
    /\ pending' \subseteq pending
    /\ \E e \in (pending \ pending') \intersect watched : Drops((pending \ pending') \ {e})
    /\ watched' \subseteq Events

Rest ==
    /\ running = TRUE
    /\ pending' = {}
    /\ Drops(pending)
    /\ UNCHANGED <<watched, running>>

Stop ==
    /\ pending' = {}
    /\ watched' \subseteq Events
    /\ running' = FALSE

Next == Report \/ Serve \/ Rest \/ Stop

Spec == Init /\ [][Next]_dispatcherVars

=============================================================================
