\* A server whose clocks go back an hour during the run.
SPECIFICATION DashboardSpec
CONSTANTS
  Uploads = {u1, u2}
  Bodies <- OneBody
  Credentials = {}
  NoHeader = NoHeader
  PortalUser = ""
  PortalPass = ""
  StartTimes <- LastTick
  ClockSteps <- Forward
  Radix = 2
  Offset <- DST
INVARIANTS
  AllMostRecentFirst
SYMMETRY UploadSymmetry
CHECK_DEADLOCK FALSE
