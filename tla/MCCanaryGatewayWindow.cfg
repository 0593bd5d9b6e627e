CONSTANTS
  Probe = {"p1"}
  Vector = {"img", "dnsAnchor"}
  Payload <- MCPayload
  Watcher = {"http", "dns"}
  Required = {"http", "dns"}
  Thread = {t1, t2}
  Window = 0
  Grace = 0
  MaxTime = 1
  ReportedDelivery = {None, 0}
  MaxObservations = 1
  MaxRestarts = 1
  None = None
SPECIFICATION Spec
PROPERTY ClosedWindowIsFinal
