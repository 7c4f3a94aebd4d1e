CONSTANTS
    FleetSize = 2
    Passenger = {"a", "b", "c"}
    Parking = {}
    NoStation = "none"
    Home <- MCHome
    PartyLimit = 2
    MaxStops = 2
    Options <- MCOptions
    EvacuateAfter = 1
    FaultTicks = 1
    Cuts <- MCCuts
    MaxEmergencies = 1
SPECIFICATION Spec
INVARIANTS
    OrdersAccounted
    SaveContractHolds
    IncidentsConsistent
    BoundPodServes
PROPERTY WithdrawnIsNoSupply
CHECK_DEADLOCK FALSE
