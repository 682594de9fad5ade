SPECIFICATION FairStepsSpec
CONSTANTS
    s1 = s1
    s2 = s2
    Step = {s1, s2}
    Inst = {a, b}
    Token = {t1, t2}
    NoToken = NoToken
    LostToken = LostToken
    NoRow = NoRow
    NoTurn = NoTurn
    Slots = 2
    MaxStalled = 1
    MaxGen = 2
    RedispatchMax = 2
    Faults <- AllFaults
    Scenarios <- PassScenarios
\* A run whose steps are settled has nothing left to do.
CHECK_DEADLOCK FALSE
INVARIANT StepsTypeOK
INVARIANT OneRunner
INVARIANT PoisonStops
INVARIANT NothingLost
PROPERTY CompletedStays
PROPERTY MailboxKept
PROPERTY StepEnds
