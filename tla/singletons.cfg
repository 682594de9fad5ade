SPECIFICATION Spec
CONSTANTS
    Last = 3
    AtOnce = 2
    Settings <- AllSettings
\* All runs may have ended.
CHECK_DEADLOCK FALSE
INVARIANT TypeOK
INVARIANT SlotsWithinLimit
INVARIANT HolderKeepsSlot
INVARIANT FirstComeFirstServed
PROPERTY OldestIsServed
PROPERTY EveryRunEnds
