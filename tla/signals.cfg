SPECIFICATION Spec
CONSTANTS
    Last = 3
    Waits = 3
    Settings <- AllSettings
\* The run may end, and wait for a payload nobody sends.
CHECK_DEADLOCK FALSE
INVARIANT TypeOK
INVARIANT DeliveredOnce
INVARIANT NoStrandedPair
INVARIANT InOrder
PROPERTY FirstWaitResolves
PROPERTY BufferDrains
