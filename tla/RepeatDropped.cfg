SPECIFICATION Spec
CONSTANTS
  Nodes = {1, 2, 3, 4}
  Sink = 2
  Link <- LinkKite
  Hops <- HopsKite
  NDEBUG = FALSE
  IDs <- IDsKite
  Neighbors <- NeighborsKite
  Filters <- FiltersKite
  Stamp <- StampsKite
  Requesters = {1}
  Lossy = FALSE
  MaxCopies = 1
  MaxRequests = 2
  MaxCount = 4
  MaxFaults = 0
INVARIANTS OnlyCopiesDropped
CHECK_DEADLOCK FALSE
