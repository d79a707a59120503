\* The same instance: a stop that is over as it begins.
CONSTANTS
  p1 = p1  p2 = p2
  v1 = v1  v2 = v2
  e1 = e1  e2 = e2
  Persons = {p1, p2}
  Vehicles = {v1, v2}
  Edges = {e1, e2}
  Stages <- MCStages
  Plans <- MCPlans
  Departs = {0, 1}
  Capacity <- MCCapacity
  GivenUp = {}
  NoVehicle = NoVehicle
  NoCall = NoCall
  MaxStep = 3
SPECIFICATION Spec
INVARIANT NobodyLost
CHECK_DEADLOCK FALSE
