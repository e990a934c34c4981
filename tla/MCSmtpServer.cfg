SPECIFICATION FairServerSpec
CONSTANTS
  Addresses = {a1}
  EmptyPath = none
  MaxRecipients = 2
  MaxMessageSize = 1
  MaxIds = 3
  MaxDots = 2
  Patiences = {"data", "none"}
  MaxLines = 8
  Opening <- MCOpening
INVARIANTS
  ServerTypeOK
  RepliesInOrder
  DataModeFlushed
  CommandsAreNotBodies
  AcknowledgedIsSpooled
PROPERTIES
  PendingIsFlushed
  ClientGoneServerGone
\* A connection ends, and the client sends MaxLines lines at most.
CHECK_DEADLOCK FALSE
