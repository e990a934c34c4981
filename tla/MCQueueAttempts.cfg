SPECIFICATION Spec
CONSTANTS
  q1 = q1
  q2 = q2
  q3 = q3
  q4 = q4
  d1 = d1
  Ids = {q1}
  Domains = {d1}
  DomainOf <- MCDomainOf
  NoDomain = none
  PriorityOf <- MCPriorityOf
  Workers = {w1, w2}
  Limit = 1
  AttemptLimits = {2}
  InitialDelay = 1
  MaxDelay = 2
  MaxFailures = 3
  MaxTime = 1
INVARIANTS
  AttemptsBounded
\* Every message may be settled.
CHECK_DEADLOCK FALSE
