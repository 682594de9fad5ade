SPECIFICATION TurnsSpec
CONSTANTS
    Inst = {a, b}
    NoOne = NoOne
    Gone = Gone
    Call = {c1}
    Turn = {t1, t2}
    NoTurn = NoTurn
    Settings <- CalmOnly
CHECK_DEADLOCK FALSE
PROPERTY NotSuperseded
