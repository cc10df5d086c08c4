\* A scan of every directory of a tree, of which any file may change, by every
\* kind of job.
SPECIFICATION Spec
CONSTANTS
  Order <- MCOrder
  Language <- MCLanguage
  Versions <- MCVersions
  Trees <- MCTrees
  Gone = Gone
  None = None
  Stale = Stale
  Torn = Torn
  MaxEdits = 1
INVARIANTS
  TypeOK
  SharedOut
  AttributedToItsFile
  ZeroMeansAllDone
  OutputsAgree
  QuietTreeProvenance
  GateHolds
  AttestedTogether
PROPERTIES
  EveryRunReports
\* A job that has reported is over.
CHECK_DEADLOCK FALSE
