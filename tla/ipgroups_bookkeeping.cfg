CONSTANTS
  None = None
  Groups = {1}
  Cidrs <- Nested
  Spans <- NoSpans
  AddressesOf <- MCAddressesOf
  BitsOf <- MCBitsOf
  Labels = {"x"}
  Tenants <- AllTenants
  Routes <- MCRoutes
  DefaultDims <- MCDefaultDims
  Unset = ""
  Direction = "either"
  KeyOf <- MCKeyOf
  Edits = {"add", "change", "remove"}
  ReportsDeletes = TRUE
  Faults = {}
  MaxFaults = 0
  MaxClock = 3
  MaxIds = 3
  MaxChanges = 3
SPECIFICATION Spec
INVARIANTS TypeOK StoreMatchesPopulators
PROPERTY DeletesJustified
