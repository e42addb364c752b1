CONSTANTS
  None = None
  Sites = {s1}
  Devices = {d1}
  Names = {d1}
  NameOf <- OwnNames
  Attrs = {a, b}
  Incremental = TRUE
  ReportsDeletes = FALSE
  Faults = {"fetch", "reject"}
  MaxFaults = 1
  MaxClock = 2
  MaxChanges = 2
SPECIFICATION FairSpec
INVARIANTS StoreMatchesKentik TruthfulHash
PROPERTY Converges
