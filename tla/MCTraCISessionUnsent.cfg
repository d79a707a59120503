CONSTANTS
  NumClients = 1
  MaxTime = 2
  MaxQueue = 1
  Lax = {"unsent"}
SPECIFICATION Spec
INVARIANT AnswersOwn
