\* Two acquisitions, days apart, over one history store.
CONSTANTS
  Symbols = {s1, s2}
  Tpex = {s2}
  LastSession = 7
  MonthLength = 2
  MinSessions = 2
  MaxSessions = 3
  MinAligned = 1
  MaxMonths = 2
  Runs = {r1, r2}
  MaxFaults = 0
  None = None
  Over = Over
  Requested = {"07:30","12:00","19:30"}
SPECIFICATION Spec
INVARIANT HistoryCurrent
CHECK_DEADLOCK FALSE
