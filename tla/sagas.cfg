SPECIFICATION FairSpec
CONSTANTS
    Inst = {a, b}
    NoOne = NoOne
    NSteps = 2
    Retries = 2
    Settings <- InTurn
    Environments <- Crashes
\* A run that ended needs nothing more.
CHECK_DEADLOCK FALSE
INVARIANT EndedIsUndone
PROPERTY CancelHonoured
