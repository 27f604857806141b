SPECIFICATION MCSpec
CONSTANTS
    Budget = 2
    MaxSignals = 2
    Addresses = 2
    AddressBudget = 2
    Flights = 2
    MaxUnits = 3
    Length = 3
    Frames = 2
    Capacity = 2
    Slots = 2
    MaxFds = 3
    MaxIds = 4
    MaxBacklog = 1
CHECK_DEADLOCK FALSE
INVARIANTS
    OneOrNothing
    FallsBack
    DeadlinesKept
    EndIsEnd
    NoByteStranded
    FailureIsolated
    WellFormed
    DescriptorsHeld
