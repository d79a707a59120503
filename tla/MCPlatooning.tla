---------------------------- MODULE MCPlatooning ----------------------------
(***************************************************************************)
(* The sights of the run and how they may change.                          *)
(***************************************************************************)
EXTENDS Platooning

\* A connected vehicle directly ahead, or nobody: what lets vehicles join and leave.
\* And one that is not connected, whose deceleration simpla asks for.
NearSights == {Nothing, [front |-> Other, reach |-> "far"]} \cup [front : Vehicles, reach : {"join"}]

\* Vehicles that are not connected are seen while one of the three has not departed, and
\* no two vehicles are directly ahead of each other, as they could be on a short ring only.
RoadSights ==
  /\ (\E v \in Vehicles : sight'[v].front = Other) => \E v \in Vehicles : life'[v] = "waiting"
  /\ \A v, w \in Vehicles : sight'[v].front # w \/ sight'[w].front # v
=============================================================================
