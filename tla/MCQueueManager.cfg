SPECIFICATION FairSpec
CONSTANTS
  q1 = q1
  q2 = q2
  q3 = q3
  q4 = q4
  d1 = d1
  Ids = {q1, q2, q3, q4}
  Domains = {d1}
  DomainOf <- MCDomainOf
  NoDomain = none
  PriorityOf <- MCPriorityOf
  Workers = {w1, w2, w3}
  Limit = 2
  AttemptLimits = {1, 2}
  InitialDelay = 1
  MaxDelay = 2
  MaxFailures = 1
  MaxTime = 1
INVARIANTS
  TypeOK
  SlotsMatchDeliveries
  ExactlyOnePlace
  SpoolKept
PROPERTIES
  FirstAttemptsInOrder
  EveryMessageSettles
  ImplementsMailQueue
\* Every message may be settled.
CHECK_DEADLOCK FALSE
