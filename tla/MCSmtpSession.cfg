SPECIFICATION Spec
CONSTANTS
  Addresses = {a1, a2}
  EmptyPath = none
  MaxRecipients = 2
  MaxMessageSize = 2
  MaxIds = 2
  MaxDots = 3
SYMMETRY Symmetry
INVARIANTS
  TypeOK
  EnvelopeMatchesState
  BufferIsThisData
  QueuedIsTransaction
PROPERTIES
  QueuedIdsIncrease
\* A session ends at QUIT, and a behaviour at its last queue id.
CHECK_DEADLOCK FALSE
