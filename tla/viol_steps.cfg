SPECIFICATION StepsSpec
CONSTANTS
    s1 = s1
    s2 = s2
    Step = {s1}
    Inst = {a}
    Token = {t1, t2}
    NoToken = NoToken
    LostToken = LostToken
    NoRow = NoRow
    NoTurn = NoTurn
    Slots = 1
    MaxStalled = 1
    MaxGen = 2
    RedispatchMax = 2
    Faults <- AllFaults
    Scenarios <- RetryScenarios
CHECK_DEADLOCK FALSE
INVARIANT AlwaysOnItsWay
