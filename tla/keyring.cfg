SPECIFICATION Spec
CONSTANTS
    Command = {c1, c2, c3}
    Key = {k1, k2}
    Who = {u1, u2}
    MaxOverlapping = 2
    Svc = service
    None = None
    NoFile = NoFile
    Torn = Torn
SYMMETRY KeysAndPeople
INVARIANTS KeysCoherent Healed Seamless Enforced
CHECK_DEADLOCK FALSE
