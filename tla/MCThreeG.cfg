SPECIFICATION FairSpec
CONSTANTS
    PppdLimit <- MCPppdLimit
    NetLimit <- MCNetLimit
    ImeiStep <- MCImeiStep
    PinStep <- MCPinStep
    MaxChains = 2
    MaxCleanups = 1
    MaxOthers = 1
INVARIANT TypeOK
INVARIANT BlinkOnlyWhenUp
PROPERTY AttemptsDoNotMultiply
PROPERTY OffGoesQuiet
PROPERTY RetriesEnd
