CONSTANTS
  Executors = {e1, e2}
  Authorizations = {a1}
  Fugle = {e1, e2}
  MaxLost = 0
  MaxRuns = 1
  None = None
SPECIFICATION Spec
INVARIANT SingleUse
CHECK_DEADLOCK FALSE
