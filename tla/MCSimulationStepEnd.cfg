SPECIFICATION Spec
CONSTANTS
    plain = plain
    copy = copy
    waiter = waiter
    flow1 = flow1
    flow2 = flow2
    Veh = {plain}
    Triggered = {}
    FixedSpeed = {}
    Vaporizing = {}
    Controlled = {}
    DepartTimes = {0, 1}
    QuotaOf <- OneQuotaOf
    FlowVeh = {}
    FlowNumber = 0
    FlowPeriod = 1
    MaxDepartDelay = 1
    MaxVehicleNumber = 2
    PreCheckModes = {TRUE, FALSE}
    MaxStep = 3
INVARIANT NoEarlyEnd
