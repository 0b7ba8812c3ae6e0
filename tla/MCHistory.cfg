\* Two operators and three chunks of three requests, everything may fail or
\* die; or two sessions that may both start, die and start again, with the
\* control centre at work beside them; or four runs of the staging
\* campaign.
CONSTANTS
  Operators = {o1, o2}
  Chunks = {c1, c2, c3}
  Requests = 3
  Sessions = {"first", "second"}
  ChunkCount = 3
  From <- Before
  To <- Through
  ByHand = "by hand"
  TwseOrder <- TwseStocks
  TpexOrder <- TpexStocks
  MonthDays = 2
  FirstDay = 5
  LastDay = 6
  RawTarget = 3
  Target = 2
  Retained = 4
  MaxPeriods = 4
  MaxWorkers = 4
  MaxPins = 1
  None = None
SPECIFICATION EitherSpec
INVARIANTS RequestedOnce ReplayedIsTrue BatchSound StagingSound
PROPERTIES ImplementsChunkCampaign
SYMMETRY Symmetry
CHECK_DEADLOCK FALSE
