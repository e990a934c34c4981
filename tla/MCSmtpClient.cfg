SPECIFICATION Spec
CONSTANTS
  a1 = a1
  a2 = a2
  Addresses = {a1, a2}
  Jobs <- MCJobs
  MaxDestinations = 2
  MaxRecipients = 3
  MaxUnderWay = 1
  TailCodes = {450, 550}
INVARIANTS
  ClientTypeOK
  SuccessMeansAccepted
  BodyOnlyWhenAsked
  AckedIsFinal
PROPERTIES
  DeliverEnds
\* The call returns.
CHECK_DEADLOCK FALSE
