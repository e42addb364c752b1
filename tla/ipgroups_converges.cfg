CONSTANTS
  None = None
  Groups = {1, 2}
  Cidrs <- AllCidrs
  Spans <- MCSpans
  AddressesOf <- MCAddressesOf
  BitsOf <- MCBitsOf
  Labels = {"x"}
  Tenants <- OneTenant
  Routes <- MCRoutes
  DefaultDims <- MCDefaultDims
  Unset = ""
  Direction = "either"
  KeyOf <- MCKeyOf
  Edits = {"add", "remove"}
  ReportsDeletes = FALSE
  Faults = {}
  MaxFaults = 0
  MaxClock = 3
  MaxIds = 3
  MaxChanges = 2
SPECIFICATION FairSpec
PROPERTY Converges
