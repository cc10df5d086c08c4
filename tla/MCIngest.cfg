\* Two uploads, every body and header, authentication on.
SPECIFICATION Spec
CONSTANTS
  Uploads = {u1, u2}
  Bodies <- MCBodies
  Credentials <- MCCredentials
  NoHeader = NoHeader
  PortalUser = "ci"
  PortalPass = "secret"
  StartTimes <- MCStart
  ClockSteps <- MCSteps
INVARIANTS
  TypeOK
  AckedIsDurable
  ArtifactsBelongToScan
  AuditNamesCompleteScan
  OneRowPerRequest
  OnlyAuthenticatedIngest
PROPERTIES
  ImplementsLedger
  EveryUploadAnswered
\* Every upload posts once: when all have ended the system is at rest.
CHECK_DEADLOCK FALSE
