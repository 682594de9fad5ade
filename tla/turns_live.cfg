SPECIFICATION FairSpec
CONSTANTS
    Inst = {a, b}
    NoOne = NoOne
    NSteps = 1
    Reasons = {r1, r2}
    Tasks = {t1}
    LetGoRounds = 2
    MaxRecovery = 1
    Environments <- TwoOrAlone
\* A dispatch lost with its instance stops the run here; the model that sends it
\* again is RemoteSteps.
CHECK_DEADLOCK FALSE
INVARIANT TypeOK
INVARIANT AckedIsSettled
PROPERTY NeverLeftAlone
PROPERTY RunFinishes
PROPERTY SettleRespectsTerminal
