SPECIFICATION MCSpec
CONSTANTS
  None = None
  Floating = Floating
  Addresses <- MCAddresses
  Bytes <- MCBytes
  Requests <- MCRequests
INVARIANTS
  Pipeline
PROPERTIES
  IsMemory
  AccessEnds
