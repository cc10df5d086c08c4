\* The DELETE of a logout may fail: is the session over all the same?
SPECIFICATION Spec
CONSTANTS
  Browsers = {b1, b2}
  States = {s1}
  Callbacks = {c1}
  Logouts = {l1}
  Reads = {a1}
  Emails = {ann, bob}
  None = None
  Faults = {"DeleteSession"}
  TTL = 0
  MaxTime = 1
INVARIANTS
  LogoutRevokes
SYMMETRY SsoSymmetry
\* Every request is sent once: when all have ended nothing is left to do.
CHECK_DEADLOCK FALSE
