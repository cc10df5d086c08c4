\* A deployed resource declared in Terraform is reported missing.
SPECIFICATION Spec
CONSTANTS
  Declarations <- MCDeclarations
  Deployables <- MCDeployables
  Fold <- MCFold
  PageSize = 3
  MaxDeclared = 2
  MaxLive = 3
INVARIANTS
  MissingIsTrue
\* A run that has exited is over.
CHECK_DEADLOCK FALSE
