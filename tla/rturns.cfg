SPECIFICATION FairTurnsSpec
CONSTANTS
    Inst = {a, b}
    NoOne = NoOne
    Gone = Gone
    Call = {c1, c2}
    Turn = {t1, t2}
    NoTurn = NoTurn
    Settings <- AllSettings
\* A run that has ended has nothing left to do.
CHECK_DEADLOCK FALSE
INVARIANT TurnsTypeOK
INVARIANT AppliedOnce
INVARIANT NothingForgotten
PROPERTY RemoteRunEnds
