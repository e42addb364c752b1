CONSTANTS
  None = None
  Sites = {s1, s2}
  Devices = {d1}
  Names = {d1}
  NameOf <- OwnNames
  Attrs = {a}
  Incremental = TRUE
  ReportsDeletes = FALSE
  Faults = {}
  MaxFaults = 0
  MaxClock = 3
  MaxChanges = 3
SPECIFICATION Spec
INVARIANT SiteOutlivesDevices
