CONSTANTS
  Planned = 2
  Measured = {"pass"}
  MaxEvidence = 1
  MaxExecutions = 2
  MaxFinalizations = 3
  MaxFaults = 1
  Absent = Absent
  Torn = Torn
SPECIFICATION Spec
INVARIANTS TypeOK VerifiedIsComplete OneExecution SealHolds
PROPERTIES Concludes ImplementsContract
CHECK_DEADLOCK FALSE
