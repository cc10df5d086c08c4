\* Two declarations of any language under two policy files.
SPECIFICATION Spec
CONSTANTS
  Sources <- MCSources
  UserFiles <- MCUserFiles
  MaxSources = 2
  MaxUserFiles = 2
INVARIANTS
  TypeOK
  EveryRuleIsHeard
  LanguagesAgree
  NoStatedFlawEscapes
\* A scan that is done or has failed is over.
CHECK_DEADLOCK FALSE
