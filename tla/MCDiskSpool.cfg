SPECIFICATION Spec
CONSTANTS
  m1 = m1
  m2 = m2
  m3 = m3
  Messages = {m1, m2, m3}
  Readers = {r1}
  Ids = {1, 2, 3}
  IdOf <- MCIdOf
  None = none
  MaxCrashes = 2
INVARIANTS
  TypeOK
  NoTornMessage
  ReadersSeeWholeMessages
PROPERTIES
  ImplementsAtomicSpool
\* The stores end.
CHECK_DEADLOCK FALSE
