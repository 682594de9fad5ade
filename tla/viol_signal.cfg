SPECIFICATION Spec
CONSTANTS
    Last = 2
    Waits = 1
    Settings <- InTurn
\* The run may end, and wait for a payload nobody sends.
CHECK_DEADLOCK FALSE
INVARIANT SignalKept
