SPECIFICATION Spec
CONSTANTS
  d1 = d1
  d2 = d2
  coord = coord
  Coord = coord
  Nobody = nobody
  Devices = {d1, d2}
  Hears <- OneCell
  SymbolsPerByte = 2
  SlotDuration = 60
  BeaconInterval = 1920
  Ack4Gts = TRUE
  Draws <- OneDraws
  Arrivals = {61, 821}
  MaxData = 2
  Settings <- AllSettings
INVARIANTS NoError AckUndisturbed TransactionsEndInCap
PROPERTIES  TaskEnds
