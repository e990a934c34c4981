SPECIFICATION Calls
CONSTANTS
  Bodies <- MCBodies
  Raws <- MCRaws
  SignedHeaders <- MCSignedHeaders
  Zones <- MCZones
  Domains <- MCDomains
  SpfRecords <- MCSpfRecords
  Clients <- MCClients
  DmarcRecords <- MCDmarcRecords
  MailDomains <- MCMailDomains
  Files <- MCFiles
  Environments <- MCEnvironments
  Lines <- MCLines
  Injections <- MCInjections
  RawInjections <- MCRawInjections
  Signatures <- MCSignatures
  MaxRecipients = 2
  MaxMessageSize = 1200
  MaxCnameDepth = 2
  Width4 = 3
  Segments = 2
  SegmentBits = 2
INVARIANTS
  BodySurvives
  MessageSurvives
  SignatureSurvives
  TargetsUsable
  SpfPassMeansListed
  DmarcAsPublished
  LastLayerWins
  AddressesSurvive
  InjectionAsAsked
\* A call ends.
CHECK_DEADLOCK FALSE
