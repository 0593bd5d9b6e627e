CONSTANTS
  None = None
  Setup <- MCSetup
  Contact <- MCContact
  Window = 1
  Timeout = 1
  DisplayTimeout = 1
  ReadAttempts = 2
  MaxContacts = 1
  MaxChanges = 1
SPECIFICATION LaneSpec
INVARIANTS LaneTypeOK LaneCleanIsEarned LaneDisclosureIsOwn DeviceIsRestored
PROPERTY LaneEnds
