SPECIFICATION FairServerSpec
CONSTANTS
  Addresses = {a1}
  EmptyPath = none
  MaxRecipients = 1
  MaxMessageSize = 1
  MaxIds = 3
  MaxDots = 2
  Patiences = {"all"}
  MaxLines = 6
  Opening <- MCOpening
PROPERTIES
  EveryLineAnswered
\* A connection ends, and the client sends MaxLines lines at most.
CHECK_DEADLOCK FALSE
