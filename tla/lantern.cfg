SPECIFICATION Spec
CONSTANTS
    Interface = {lan, wan}
    Platforms = {TRUE, FALSE}
    MaxRequests = 3
    MaxFaults = 2
    None = None
SYMMETRY Names
INVARIANTS Restored GatewayForwards
PROPERTIES NoLateStart
CHECK_DEADLOCK FALSE
