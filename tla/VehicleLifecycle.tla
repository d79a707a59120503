-------------------------- MODULE VehicleLifecycle --------------------------
(***************************************************************************)
(* What the vehicle control promises about each vehicle, without queues,   *)
(* counters or simulation steps: a vehicle is built, enters the network at *)
(* most once, and leaves it at most once; one that never entered may be    *)
(* discarded; and the simulation reports that all vehicles have left only  *)
(* when every vehicle that remains waits for a person.                     *)
(***************************************************************************)
CONSTANT Veh

VARIABLES
    life,       \* life[v]: the stage of vehicle v
    waits,      \* the vehicles that wait for a person to board
    ended       \* "All vehicles have left the simulation" was reported

vars == <<life, waits, ended>>

Stage == {"unbuilt", "loaded", "running", "arrived", "discarded"}

\* A vehicle that is rejected by the demand scaling is discarded as it is
\* built.
Progress == {<<"unbuilt", "loaded">>, <<"unbuilt", "discarded">>,
             <<"loaded", "running">>, <<"loaded", "discarded">>,
             <<"running", "arrived">>}

Present == {v \in Veh : life[v] \in {"loaded", "running"}}

TypeOK ==
    /\ life \in [Veh -> Stage]
    /\ waits \subseteq Present
    /\ ended \in BOOLEAN

Init ==
    /\ life = [v \in Veh |-> "unbuilt"]
    /\ waits = {}
    /\ ended = FALSE

\* Vehicles advance; which of them wait may change with it.
Advance ==
    /\ ~ended
    /\ life' \in [Veh -> Stage]
    /\ \A v \in Veh : life'[v] # life[v] => <<life[v], life'[v]>> \in Progress
    /\ waits' \in SUBSET Present'
    /\ UNCHANGED ended

\* The end is reported.
End ==
    /\ ~ended
    /\ Present \subseteq waits
    /\ ended' = TRUE
    /\ UNCHANGED <<life, waits>>

Next == Advance \/ End

Spec == Init /\ [][Next]_vars
=============================================================================
