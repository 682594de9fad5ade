SPECIFICATION FairFlowSpec
CONSTANTS
    Call = {c1, c2, c3}
    c1 = c1
    c2 = c2
    c3 = c3
    k1 = k1
    k2 = k2
    Key = {k1, k2}
    Pod = {a, b}
    Home = a
    NoPod = NoPod
    Period = 2
    Settings <- AllSettings
\* Every call is done.
CHECK_DEADLOCK FALSE
INVARIANT FlowTypeOK
INVARIANT CapHolds
INVARIANT RateHolds
PROPERTY InTurn
PROPERTY FairShare
PROPERTY EveryCallAdmitted
