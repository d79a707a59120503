SPECIFICATION Spec
CONSTANTS
    plain = plain
    copy = copy
    waiter = waiter
    flow1 = flow1
    flow2 = flow2
    Veh <- DemandVeh
    Triggered = {}
    FixedSpeed = {plain}
    Vaporizing = {plain}
    Controlled = {plain}
    DepartTimes = {0, 1}
    QuotaOf <- DemandQuotaOf
    FlowVeh = {flow1, flow2}
    FlowNumber = 1
    FlowPeriod = 1
    MaxDepartDelay = 1
    MaxVehicleNumber = 2
    PreCheckModes = {TRUE, FALSE}
    MaxStep = 3
INVARIANTS
    CountersAgree
    WaitBounded
