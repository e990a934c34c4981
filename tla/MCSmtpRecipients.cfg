SPECIFICATION Spec
CONSTANTS
  Addresses = {a1, a2}
  EmptyPath = none
  MaxRecipients = 2
  MaxMessageSize = 1
  MaxIds = 2
  MaxDots = 1
INVARIANTS
  QueuedOnlyToItsRecipients
\* A session ends at QUIT, and a behaviour at its last queue id.
CHECK_DEADLOCK FALSE
