SPECIFICATION Spec
CONSTANTS
  Nodes = {1, 2, 3, 4, 5, 6, 7, 8, 9, 10, 11, 12, 13, 14, 15, 16, 17}
  Sink = 1
  Link <- LinkLine
  Hops <- HopsLine
  Lossy = FALSE
  MaxCopies = 5
  NDEBUG = FALSE
  AreaSlots = {1}
  GenSlots = {5}
INVARIANTS SinkAloneAtZero
CHECK_DEADLOCK FALSE
CONSTRAINT LineConstraint
