CONSTANTS
  None = None
  Sites = {s1}
  Devices = {d1}
  Names = {d1}
  NameOf <- OwnNames
  Attrs = {a, b}
  Incremental = TRUE
  ReportsDeletes = TRUE
  Faults = {"crash", "cancel", "fetch", "reject", "timeout", "store"}
  MaxFaults = 1
  MaxClock = 3
  MaxChanges = 3
SYMMETRY Symmetry
SPECIFICATION Spec
INVARIANTS TypeOK NoSilentLoss
PROPERTY DeletesOnlyGone
