CONSTANTS
  Probe = {"p1"}
  Vector = {"dnsAnchor"}
  Payload <- MCPayload
  Watcher = {"http"}
  Required = {"http"}
  Run = {r1}
  Thread = {r1, t1}
  Planned <- MCPlanned
  Timeout = 1
  ThirdParty = FALSE
  MIME_PART_VECTORS = {"vcardPhoto"}
  LIST_UNSUBSCRIBE_VECTORS = {"listUnsubscribe"}
  BACKGROUND_VECTORS = {"background"}
  Window = 1
  Grace = 0
  MaxTime = 1
  ReportedDelivery = {0}
  MaxObservations = 1
  MaxRestarts = 1
  None = None
SPECIFICATION LanesSpec
INVARIANTS LanesTypeOK CleanIsEarned DisclosureIsOwn WebmailReadsOpen BrowserIsEarned
PROPERTY RunEnds
