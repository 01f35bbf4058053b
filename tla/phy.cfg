SPECIFICATION Spec
CONSTANTS
  Channels = 2
  Addresses <- MCAddresses
  Setups <- MCSetups
  AnThreshold = 0
  LinkThreshold = 0
  Drops = 1
PROPERTIES
  AddressRestored
  CommonIsShared
  LeftAtSpeed
  ReportsOwnLink
  CallsReturn
