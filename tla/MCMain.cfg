\* The jobs of one day and of the next evening race for main, and may fail; or the
\* documents of an activation over one push, gone through twice.
CONSTANTS
  LastDay = 2
  SourceStepOptsIn = TRUE
  CommitStagesManifest = TRUE
  RunsMayFail = TRUE
  None = None
  MaxMain = 1
  Touching = {1}
  Secrets = {s1}
  Endpoints = {u1}
  Licenses = {written}
  MaxRounds = 1
  Triggers <- DayRuns
  B = B
  R = R
  Rebaselines = {B}
  Recoveries = {R}
  BootSlot <- DayBoots
SPECIFICATION EitherSpec
INVARIANTS LineageOnMain OneGeneration
PROPERTIES MainKeepsStates UnclosedDayHalts PushedOnNewest
CHECK_DEADLOCK FALSE
