CONSTANTS
  a = a
  b = b
  c1 = c1
  SubjectId = {a, b}
  Subject <- MCSubject
  Check = {c1}
  Requests <- MCRequests
  Policies <- MCPolicies
  Measured = {"pass", "fail"}
  MaxRepetition = 2
  Slots = 2
  MaxPlans = 2
  MaxExecutions = 3
  MaxBundles = 2
  MaxFaults = 1
  Absent = Absent
SPECIFICATION Spec
INVARIANTS PublicationTypeOK VerdictIsEarned CompleteIsMeasured ReceiptIsEarned ReceiptPinsBundle RegressionIsReal
PROPERTIES ImplementsContract
CHECK_DEADLOCK FALSE
