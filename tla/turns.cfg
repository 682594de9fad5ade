SPECIFICATION Spec
CONSTANTS
    Inst = {a, b}
    NoOne = NoOne
    NSteps = 2
    Reasons = {r1, r2, r3}
    Tasks = {t1, t2}
    LetGoRounds = 2
    MaxRecovery = 1
    Environments <- GraceOrFault
CHECK_DEADLOCK TRUE
SYMMETRY Symmetry
CONSTRAINT SecondStepOut
INVARIANT OneExecutor
INVARIANT WakeOwed
PROPERTY HolderKeepsLease
PROPERTY SettledStays
