SPECIFICATION Spec
CONSTANTS
    mailCmd = mailCmd
    giftCmd = giftCmd
    Cmds <- MCCmds
    MaxDecodeFailures = 1
    MaxNonMatching = 1
    MaxRequests = 2
    MaxInFlight = 1
INVARIANTS
    OneLatePing
    StaleOnlyAfterTimeout
PROPERTIES
    ImplementsSessionUse
    SendsReturn
    WaitReturns
    HeartbeatStops
