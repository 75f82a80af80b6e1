SPECIFICATION FairSpec
CONSTANTS
    Clients = {music, browser}
    Choices <- MCExclusive
    Factory <- MCFactory
    Epit = 3
    MaxDepth = 2
    MaxRequests = 2
INVARIANT TypeOK
INVARIANT SlotMatchesType
INVARIANT PolicyAsChosen
PROPERTY ReferencesKept
PROPERTY UnusedDeviceSleeps
