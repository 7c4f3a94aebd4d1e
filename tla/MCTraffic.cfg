\* Two stations on a ring, all kinds of trips and incidents.
CONSTANTS
  PodCount = 3
  Lanes <- MCLanes
  Nodes <- MCNodes
  LaneFrom <- MCFrom
  LaneTo <- MCTo
  Cells <- MCCells
  LaneRole <- MCRole
  Junctions <- MCJunctions
  Berths <- MCBerths
  BerthNode <- MCBerthNode
  BerthStation <- MCBerthStation
  Stations <- MCStations
  StationEntry <- MCEntry
  RoadTo <- MCRoadTo
  AccessLane <- MCAccess
  StartBerth <- MCStart
  Lookahead = 3
  AdmissionAge = 3
  PlatoonLimit = 2
  Platooning = TRUE
  Scenes <- MCScenes
SPECIFICATION RestoreSpec
INVARIANTS OwnersExact PlatoonsSound Separation
PROPERTIES EveryPodArrives RestartKeepsPods
