\* Three concurrent publications, with errors and crashes anywhere; or two
\* acquisitions over seven sessions.
CONSTANTS
  Attempts = {a1, a2, a3}
  Bundles = {b1, b2}
  Absent = Absent
  Legacy = Legacy
  Symbols = {s1, s2}
  Tpex = {s2}
  LastSession = 7
  MonthLength = 2
  MinSessions = 2
  MaxSessions = 3
  MinAligned = 1
  MaxMonths = 2
  Runs = {r1, r2}
  Requested = {"07:30", "12:00", "19:30"}
  MaxFaults = 1
  None = None
  Over = Over
SPECIFICATION EitherSpec
CHECK_DEADLOCK FALSE
SYMMETRY Symmetric
INVARIANTS
  LogStaysReadable
  LineageUnbroken
  PinHonoured
  OutcomeTruthful
  SomeoneWins
  SourceSound
PROPERTIES
  ImplementsPublicationLog
