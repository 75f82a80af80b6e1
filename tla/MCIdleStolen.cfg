SPECIFICATION Spec
CONSTANTS
    PppdLimit <- MCPppdLimit
    NetLimit <- MCNetLimit
    ImeiStep <- MCImeiStep
    PinStep <- MCPinStep
    MaxChains = 2
    MaxCleanups = 1
    MaxOthers = 1
INVARIANT OthersKeepAwake
