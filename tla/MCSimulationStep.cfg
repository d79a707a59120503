SPECIFICATION Spec
CONSTANTS
    plain = plain
    copy = copy
    waiter = waiter
    flow1 = flow1
    flow2 = flow2
    Veh <- MCVeh
    Triggered = {waiter}
    FixedSpeed = {plain}
    Vaporizing = {plain}
    Controlled = {plain}
    DepartTimes = {0, 1}
    QuotaOf <- MCQuotaOf
    FlowVeh = {flow1}
    FlowNumber = 1
    FlowPeriod = 1
    MaxDepartDelay = 1
    MaxVehicleNumber = 2
    PreCheckModes = {TRUE, FALSE}
    MaxStep = 5
INVARIANTS
    TypeOK
    OnePlace
    CountersAgree
    WaitingAgrees
PROPERTIES
    LifecycleSpec
