SPECIFICATION Spec
CONSTANTS
    Veh = {v1, v2, v3, v4, v5}
    Departs <- MCDeparts
    DELTA_T = 2
    EndTime = 5
SYMMETRY VehSymmetry
INVARIANTS
    TypeOK
    HeapOrder
    AlignedExact
PROPERTIES
    DeliveryWindow
CHECK_DEADLOCK FALSE
