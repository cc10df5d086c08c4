\* Files of any length with at most two resources and blocks four deep.
SPECIFICATION Spec
CONSTANTS
  Types = {"storage", "serverfarms"}
  armAttrKeyMap <- MCKeyMap
  OtherKeys = {"location"}
  Values = {"true", "TLS1_0"}
  Names = {"n1", "n2"}
  Unnamed = "unnamed"
  MaxDepth = 4
  MaxResources = 2
INVARIANTS
  TypeOK
  FindsWhatIsDeclared
  CountersTellPath
