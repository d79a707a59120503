CONSTANTS
  MaxThreads = 2
  NumTrips = 2
  MaxRequests = 3
  Programs = {"sumo", "plain", "bulk"}
  Reloads = {"waited"}
  NoTask = NoTask
SPECIFICATION FairSpec
INVARIANTS TypeOK Accounted RoutesReady CacheHolds SignalsHeard
PROPERTIES BatchSpec CallsReturn
