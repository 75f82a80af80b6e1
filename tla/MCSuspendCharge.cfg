SPECIFICATION Spec
CONSTANTS
    Clients <- MCPowerCable
    MaxDepth = 2
    MaxTimers = 2
    MaxSignals = 1
    MaxCalls = 1
INVARIANT SuspendCountBacked
INVARIANT InputBack
INVARIANT SleepingExplained
\* The device may be off: nothing happens any more.
CHECK_DEADLOCK FALSE
