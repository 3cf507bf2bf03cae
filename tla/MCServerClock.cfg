CONSTANTS
    MaxTime = 8
    MaxPings = 2
    Skews <- MCSkews
    FastRTT = 2
    MinServer <- MCMinServer
SPECIFICATION ClockSpec
INVARIANTS
    WithinHalfTrip
    GoodSampleStays
