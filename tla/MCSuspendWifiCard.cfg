SPECIFICATION Spec
CONSTANTS
    Clients <- MCWifiCard
    MaxDepth = 2
    MaxTimers = 2
    MaxSignals = 1
    MaxCalls = 1
INVARIANT TypeOK
INVARIANT AwakeRestored
INVARIANT QuietWhileAsleep
PROPERTY WifiRestored
PROPERTY SdRechecked
\* The device may be off: nothing happens any more.
CHECK_DEADLOCK FALSE
