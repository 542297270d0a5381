SPECIFICATION FairSpec
CONSTANTS
  Nodes = {1, 2, 3, 4}
  Sink = 2
  Link <- LinkKite
  Hops <- HopsKite
  Lossy = FALSE
  MaxCopies = 1
  NDEBUG = FALSE
  AreaSlots = {0, 1}
  GenSlots = {0, 5}
INVARIANTS
  UniqueIDs
  DiscoveryInv
  NeighborsComplete
PROPERTIES DiscoveryCompletes
CHECK_DEADLOCK FALSE
