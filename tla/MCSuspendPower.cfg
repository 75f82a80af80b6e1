SPECIFICATION FairSpec
CONSTANTS
    Clients <- MCPower
    MaxDepth = 2
    MaxTimers = 1
    MaxSignals = 1
    MaxCalls = 1
PROPERTY WaitForShutdown
PROPERTY SuspendServed
\* The device may be off: nothing happens any more.
CHECK_DEADLOCK FALSE
