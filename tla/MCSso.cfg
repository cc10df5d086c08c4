\* Two browsers, two logins; every statement but the deletion may fail.
SPECIFICATION Spec
CONSTANTS
  Browsers = {b1, b2}
  States = {s1, s2}
  Callbacks = {c1, c2}
  Logouts = {l1}
  Reads = {a1}
  Emails = {ann, bob}
  None = None
  Faults = {"CreateSession", "AddAuditEvent", "GetSession"}
  TTL = 0
  MaxTime = 1
INVARIANTS
  TypeOK
  ServedLoginIsAudited
  SessionStaysWithItsBrowser
  OneSessionPerLogin
  LogoutRevokes
SYMMETRY SsoSymmetry
\* Every request is sent once: when all have ended nothing is left to do.
CHECK_DEADLOCK FALSE
