CONSTANTS
  Candidates <- SomePrefixes
  Addresses <- PrefixAddresses
  Bits <- PrefixBits
  Key <- PrefixKeys
  Inputs <- DistinctLists
  Ranges = {"range"}
SPECIFICATION Spec
INVARIANTS TypeOK LeavesMostSpecific DroppedForAnother
