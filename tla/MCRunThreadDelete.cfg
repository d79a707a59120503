SPECIFICATION Spec
CONSTANTS
    EndTime = 1
    Breakpoints = {}
    Commands = {"start", "close"}
    Modes = {"manual"}
    RereadsFlag = {TRUE}
    Outcomes = {FALSE}
    MaxNets = 1
    MaxTime = 1
PROPERTY DeleteSimReturns
CHECK_DEADLOCK FALSE
