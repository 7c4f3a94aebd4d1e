CONSTANTS
    FleetSize = 2
    Passenger = {"a", "b", "c"}
    Parking = {}
    NoStation = "none"
    Home <- MCHome
    PartyLimit = 2
    MaxStops = 2
    Options <- MCLiveOptions
    EvacuateAfter = 1
    FaultTicks = 1
    Cuts <- MCCuts
    MaxEmergencies = 1
SPECIFICATION FairSpec
PROPERTY EveryOrderEnds
CHECK_DEADLOCK FALSE
