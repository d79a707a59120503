-------------------------- MODULE MCSimulationStep --------------------------
(* SimulationStep with four vehicles, of which each run picks the kinds.     *)
EXTENDS SimulationStep, TLC

CONSTANTS plain, copy, waiter, flow1, flow2     \* vehicles

\* One vehicle with a given departure, a triggered one, and one of a flow.
MCVeh == {plain, waiter, flow1}
MCQuotaOf == plain :> {0, 1} @@ waiter :> {1} @@ flow1 :> {1}

\* The scaling may drop or double a vehicle and one of a flow.
DemandVeh == {plain, copy, flow1, flow2}
DemandQuotaOf == plain :> {0, 1, 2} @@ copy :> {} @@ flow1 :> {0, 2} @@ flow2 :> {}

\* A single vehicle.
OneQuotaOf == plain :> {1}
=============================================================================
