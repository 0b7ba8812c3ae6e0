\* Five jobs over one chain, each killed anywhere and started again;
\* five bootstraps of one day, each dispatched again after it dies;
\* four days of production runs with a ledger that collects them; five
\* starts of the jobs of a day, two at work at a time and one broken off;
\* or two runs of the market's bootstrap.
CONSTANTS
  boot = boot
  reboot = reboot
  second = second
  third = third
  guest = guest
  Jobs = {boot, reboot, second, third, guest}
  Bootstraps = {boot, reboot}
  Previous <- Lineage
  Seeded = Seeded
  Computed <- Days
  Nothing = Nothing
  base = base
  rebase = rebase
  later = later
  recover = recover
  mend = mend
  Scheduled = Scheduled
  LastDay = 4
  ReaderTakesQueries = TRUE
  ActivationMayPush = TRUE
  MaxFaults = 1
  MaxReruns = 1
  MaxStarts = 5
  MaxRunning = 2
  Shards = {{1, 2}, {3}}
  Dates = {1}
  MaxRuns = 2
  MaxMerges = 1
  MaxRivals = 1
  None = None
SPECIFICATION EitherSpec
CHECK_DEADLOCK FALSE
INVARIANTS
  ChainLinked
  ChainLeads
  BootstrapSound
  CreditIsLineage
  EvidenceBacked
  MarketSound
PROPERTIES
  ChainAppendOnly
  PublishedForGood
  SingleUse
  RepairMovesOn
  AuthenticRunCredited
  LedgerGrows
