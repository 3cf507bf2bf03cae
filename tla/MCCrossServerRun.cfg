SPECIFICATION Spec
CONSTANTS
    phone = phone
    tablet = tablet
    none = none
    oldServer = oldServer
    newServer = newServer
    noServer = noServer
    Devices <- MCDevices
    NoDev = none
    LocalDev = tablet
    Addrs <- MCAddrs
    NoAddr = noServer
    Configs <- MCConfigs
    FlagSets <- MCFlagSets
    MaxGen = 2
    MaxEvents = 2
INVARIANTS
    TokensOfOwner
    RefreshTokenKept
    WorkingSessionSaved
PROPERTIES
    StaleExitIsTrue
    Heals
