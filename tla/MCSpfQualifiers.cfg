SPECIFICATION Calls
CONSTANTS
  Bodies = {}
  Raws = {}
  SignedHeaders = {}
  Zones = {}
  Domains = {}
  SpfRecords <- MCSpfRecords
  Clients <- MCClients
  DmarcRecords = {}
  MailDomains = {}
  Files = {}
  Environments = {}
  Lines = {}
  Injections = {}
  RawInjections = {}
  Signatures = {}
  MaxRecipients = 2
  MaxMessageSize = 1200
  MaxCnameDepth = 2
  Width4 = 3
  Segments = 2
  SegmentBits = 2
INVARIANT
  SpfHonoursQualifier
\* A call ends.
CHECK_DEADLOCK FALSE
