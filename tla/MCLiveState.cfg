\* A full second day, each run interrupted and called again, or rivals on it;
\* or two operators over two authorizations and two roots of a refresh.
CONSTANTS
  first = first
  morning = morning
  rival = rival
  report = report
  second = second
  noon = noon
  evening = evening
  LastDay = 2
  Genesis = Genesis
  None = None
  Torn = Torn
  Runs = {first, morning, rival, report, second, noon, evening}
  Target <- Calendar
  Operators = {p1, p2}
  Authorizations = {a1, a2}
  Roots = {r1, r2}
  FinMind = 1
  Mops = 1
  MaxByHand = 1
SPECIFICATION CastSpec
SYMMETRY Symmetric
CHECK_DEADLOCK FALSE
INVARIANTS
  StoreTruthful
  LineageSound
  RefreshSound
PROPERTIES
  FollowsNewest
  ImplementsSlotStore
  ImplementsPublicationLog
