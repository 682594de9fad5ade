SPECIFICATION Spec
CONSTANTS
    Inst = {a, b}
    NoOne = NoOne
    NSteps = 2
    Retries = 1
    Settings <- Together
    Environments <- OneCrash
\* A run that ended needs nothing more.
CHECK_DEADLOCK FALSE
INVARIANT RecordedIsNotRedone
