\* Two declarations against three live resources in answers of two rows.
SPECIFICATION Spec
CONSTANTS
  Declarations <- MCDeclarations
  Deployables <- MCDeployables
  Fold <- MCFold
  PageSize = 2
  MaxDeclared = 2
  MaxLive = 3
INVARIANTS
  TypeOK
  DriftIsReal
  ReportIsExact
\* A run that has exited is over.
CHECK_DEADLOCK FALSE
