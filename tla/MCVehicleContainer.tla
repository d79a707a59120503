------------------------- MODULE MCVehicleContainer -------------------------
(* VehicleContainer with a step of two time units and departures that fall *)
(* on a step as well as between two steps.                                 *)
EXTENDS VehicleContainer, TLC

MCDeparts == 0..5
VehSymmetry == Permutations(Veh)
=============================================================================
