\* The reader as it is; the activation is let through.
CONSTANTS
  LastDay = 4
  ReaderTakesQueries = FALSE
  ActivationMayPush = TRUE
  MaxFaults = 0
  MaxReruns = 1
  None = None
SPECIFICATION Spec
PROPERTIES
  AuthenticRunCredited
CHECK_DEADLOCK FALSE
