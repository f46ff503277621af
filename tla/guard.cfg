SPECIFICATION FairSpec
CONSTANTS
    Request = {r1, r2}
    Server = {"proxy"}
    PacURL = {"pac"}
    MaxChanges = 1
    ArmBeforeReady = TRUE
    CanFail = TRUE
CHECK_DEADLOCK FALSE
INVARIANTS LastGuardWrites NoLeakedGuard
PROPERTIES GuardRestores GuardsEnd
