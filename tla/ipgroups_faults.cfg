CONSTANTS
  None = None
  Groups = {1, 2}
  Cidrs <- Nested
  Spans <- NoSpans
  AddressesOf <- MCAddressesOf
  BitsOf <- MCBitsOf
  Labels = {"x"}
  Tenants <- TwoTenants
  Routes <- MCRoutes
  DefaultDims <- MCDefaultDims
  Unset = ""
  Direction = "src"
  KeyOf <- MCKeyOf
  Edits = {"add", "change", "remove"}
  ReportsDeletes = FALSE
  Faults = {"crash", "cancel", "fetch", "reject", "timeout", "store"}
  MaxFaults = 1
  MaxClock = 2
  MaxIds = 3
  MaxChanges = 1
SPECIFICATION Spec
INVARIANT NoSilentLoss
PROPERTY MoveCreatesFirst
