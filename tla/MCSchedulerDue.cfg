\* Four days in which every run comes in time and finds its data.
CONSTANTS
  LastDay = 4
  SourceStepOptsIn = TRUE
  CommitStagesManifest = TRUE
  RunsMayFail = FALSE
  None = None
  Triggers <- AllRuns
  B = B
  R = R
  Rebaselines = {}
  Recoveries = {}
  BootSlot <- NoBoots
SPECIFICATION FairSpec
PROPERTIES EverySlotPublished JobsEnd
CHECK_DEADLOCK FALSE
