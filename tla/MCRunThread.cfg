SPECIFICATION Spec
CONSTANTS
    EndTime = 1
    Breakpoints = {1}
    Commands = {"start", "stop", "step", "reload", "close", "quit"}
    Modes = {"manual", "start", "quit", "demo"}
    RereadsFlag = {TRUE, FALSE}
    Outcomes = {TRUE, FALSE}
    MaxNets = 2
    MaxTime = 2
INVARIANTS
    TypeOK
    EventsOfLoadedNet
PROPERTIES
    StepKeepsNet
    QuitTerminates
CHECK_DEADLOCK FALSE
