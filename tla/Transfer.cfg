SPECIFICATION TransferSpec
CONSTANTS
  d1 = d1
  d2 = d2
  d3 = d3
  d4 = d4
  coord = coord
  Coord = coord
  Devices = {d1, d2, d3, d4}
  Payload <- Mixed
  Recv = {d2}
  ListSize = 3
  SymbolsPerByte = 2
  SlotDuration = 240
  Ack4Gts = TRUE
  Arrivals = {3300}
  MaxData = 2
  BeaconInterval = 7680
  Settings <- SmallNetworks
INVARIANTS
  CapBeforeGTS
  GTSsDisjoint
  GTSsAgree
  NoCollision
  NoTimeout
  TaskInItsGts
PROPERTIES
  TimingErrors
  RefinesTransfer
  TaskEnds
