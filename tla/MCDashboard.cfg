\* Three uploads on a server in UTC whose clock only moves forward.
SPECIFICATION DashboardSpec
CONSTANTS
  Uploads = {u1, u2, u3}
  Bodies <- MCBodies
  Credentials = {}
  NoHeader = NoHeader
  PortalUser = ""
  PortalPass = ""
  StartTimes <- OneDigit
  ClockSteps <- Forward
  Radix = 2
  Offset <- UTC
INVARIANTS
  SupersededIsGone
  NoFindingHidden
  AckedIsListed
  OrderedToTheSecond
SYMMETRY UploadSymmetry
CHECK_DEADLOCK FALSE
