SPECIFICATION Spec
CONSTANTS
    Clients = {music}
    Choices <- MCInclusive
    Factory <- MCFactory
    Epit = 3
    MaxDepth = 1
    MaxRequests = 1
INVARIANT NeverMeansNever
