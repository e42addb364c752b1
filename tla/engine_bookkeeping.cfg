CONSTANTS
  None = None
  Sites = {s1, s2}
  Devices = {d1, d2}
  Names = {d1, d2}
  NameOf <- OwnNames
  Attrs = {a, b}
  Incremental = FALSE
  ReportsDeletes = FALSE
  Faults = {"reject"}
  MaxFaults = 1
  MaxClock = 1
  MaxChanges = 3
SYMMETRY Symmetry
SPECIFICATION Spec
INVARIANTS MappingOwnsObject StoreMatchesKentik TruthfulHash DanglingReported
