CONSTANTS
  Probe = {"own", "other"}
  Vector = {"img", "svgImage", "listUnsubscribe"}
  Contact <- MCContact
  GatewayState <- MCGatewayState
  MaxContacts = 2
  MIME_PART_VECTORS = {"svgImage"}
  LIST_UNSUBSCRIBE_VECTORS = {"listUnsubscribe"}
  BACKGROUND_VECTORS = {"img"}
  Undelivered = Undelivered
SPECIFICATION Spec
INVARIANTS ScoredOnlyWhenSound OnlyClientsDisclose CleanRunAgrees
PROPERTY DisclosureStands
CHECK_DEADLOCK FALSE
