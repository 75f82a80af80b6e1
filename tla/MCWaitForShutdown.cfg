SPECIFICATION FairSpec
CONSTANTS
    Clients <- MCPowerCable
    MaxDepth = 1
    MaxTimers = 1
    MaxSignals = 1
    MaxCalls = 1
PROPERTY WaitForShutdown
\* The device may be off: nothing happens any more.
CHECK_DEADLOCK FALSE
