\* Two persons and two vehicles on two edges, plans of every kind of stage.
CONSTANTS
  p1 = p1  p2 = p2
  v1 = v1  v2 = v2
  e1 = e1  e2 = e2
  Persons = {p1, p2}
  Vehicles = {v1, v2}
  Edges = {e1, e2}
  Stages <- MCStages
  Plans <- MCPlans
  Departs = {0, 1}
  Capacity <- MCCapacity
  GivenUp = {v1}
  NoVehicle = NoVehicle
  NoCall = NoCall
  MaxStep = 3
SPECIFICATION Spec
INVARIANTS TypeOK CountersAgree EveryoneKept NobodyLeftBehind
CHECK_DEADLOCK FALSE
