SPECIFICATION FairSpec
CONSTANTS
  Window = 2
  Buckets = 4
  Latencies = {9}
  MaxPending = 3
  MaxLines = 2
  MaxLogged = 5
  MaxClock = 3
INVARIANTS LogShipTypeOK EveryLineAccounted SnapshotHonest
PROPERTY EveryLineLeaves
