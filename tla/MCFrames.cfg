CONSTANTS
    Berth <- MCBerth
    LaneTo <- MCLaneTo
    Seats = 2
    MaxCounter = 4
    NoID = "none"
    Orders <- MCOrders
    FleetOf <- MCFleetOf
    LanesOf <- MCLanesOf
    MarkersOf <- MCMarkersOf
    Scenes <- MCScenes
    MaxWire = 1
SPECIFICATION FrameFairSpec
INVARIANTS
    FrameMirrored
    PublicationsAccepted
    RoutesOfTheirProject
PROPERTY EventuallyShown
CHECK_DEADLOCK FALSE
