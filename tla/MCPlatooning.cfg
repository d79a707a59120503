\* Three vehicles that see each other or nobody, a control pass in every step.
CONSTANTS
  v1 = v1  v2 = v2  v3 = v3
  Vehicles = {v1, v2, v3}
  SplitTime = 1
  ControlEvery = 1
  NoLeader = NoLeader
  Other = Other
  NoPlatoon = NoPlatoon
  Sights <- NearSights
SPECIFICATION Spec
INVARIANTS TypeOK MembersAgree NoneIsSolitary
PROPERTIES OrderFound Settles
ACTION_CONSTRAINT RoadSights
