SPECIFICATION FairSpec
CONSTANTS
  Peers = {1, 2}
  Queries = {0, 1, 4}
  QueryRelaxationMaxRetry = 3
  MaxCount = 2
  MaxTypes = 5
PROPERTIES HumidityEnds SelectionSound NothingUnlearned
CHECK_DEADLOCK FALSE
