SPECIFICATION Spec
CONSTANTS
  Nodes = {1, 2, 3}
  Sink = 2
  Link <- LinkTriangle
  Hops <- HopsTriangle
  Lossy = TRUE
  MaxCopies = 2
  NDEBUG = FALSE
  AreaSlots = {3}
  GenSlots = {5}
INVARIANTS
  DistanceSound
  ParentKnown
  NotKnownExact
  NeighborsGenuine
  UnspecifiedShadowed
  AreasDistinct
PROPERTIES
  IDStable
  RefinesDistanceTree
CHECK_DEADLOCK FALSE
