CONSTANTS
  NumClients = 2
  MaxTime = 2
  MaxQueue = 1
  Lax = {"gone", "remove"}
SPECIFICATION FairSpec
INVARIANTS TypeOK AnswersOwn ResultsOfLastStep
PROPERTIES NobodyLeftBehind CallsReturn
