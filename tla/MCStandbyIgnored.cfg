SPECIFICATION Spec
CONSTANTS
    Clients <- MCUsb
    MaxDepth = 1
    MaxTimers = 1
    MaxSignals = 1
    MaxCalls = 1
INVARIANT SleepingExplained
\* The device may be off: nothing happens any more.
CHECK_DEADLOCK FALSE
