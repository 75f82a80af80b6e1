SPECIFICATION Spec
CONSTANTS
    Clients <- MCTgUsb
    MaxDepth = 2
    MaxTimers = 1
    MaxSignals = 1
    MaxCalls = 1
INVARIANT InputBack
PROPERTY ReconnectScheduled
\* The device may be off: nothing happens any more.
CHECK_DEADLOCK FALSE
