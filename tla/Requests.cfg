SPECIFICATION FairSpec
CONSTANTS
  Nodes = {1, 2, 3, 4}
  Sink = 2
  Link <- LinkKite
  Hops <- HopsKite
  NDEBUG = FALSE
  IDs <- IDsKite
  Neighbors <- NeighborsKite
  Filters <- FiltersKite
  Stamp <- StampsKite
  Requesters = {1, 4}
  Lossy = TRUE
  MaxCopies = 2
  MaxRequests = 1
  MaxCount = 4
  MaxFaults = 1
INVARIANTS
  RequestInv
  RepliesFindTheWay
  NoReplyCycle
PROPERTIES
  FallsSilent
  RepliesArrive
  ProviderAnswers
CHECK_DEADLOCK FALSE
