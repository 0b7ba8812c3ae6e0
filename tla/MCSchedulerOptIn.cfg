\* The same four days with the steps of the workflows as they are.
CONSTANTS
  LastDay = 4
  SourceStepOptsIn = FALSE
  CommitStagesManifest = FALSE
  RunsMayFail = FALSE
  None = None
  Triggers <- AllRuns
  B = B
  R = R
  Rebaselines = {}
  Recoveries = {}
  BootSlot <- NoBoots
SPECIFICATION FairSpec
PROPERTIES EverySlotPublished
CHECK_DEADLOCK FALSE
