SPECIFICATION Spec
CONSTANTS
  Nodes = {1, 2, 3}
  Sink = 2
  Bits = {0, 1, 2}
  Types = {"humidity", "light"}
  Positions <- SharedBits
  Garbage <- AnyBits
INVARIANTS NoFalseNegative
PROPERTIES StaysFound
CHECK_DEADLOCK FALSE
