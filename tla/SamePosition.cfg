SPECIFICATION Spec
CONSTANTS
  Nodes = {1, 2, 3}
  Sink = 2
  Link <- LinkTriangle
  Hops <- HopsTriangle
  Lossy = FALSE
  MaxCopies = 1
  NDEBUG = FALSE
  AreaSlots = {0, 1, 2, 3}
  GenSlots = {0, 5, 32}
INVARIANTS PositionsExclusive
CHECK_DEADLOCK FALSE
