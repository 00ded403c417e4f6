\* One updater at a time, started by a page or on the command line.
SPECIFICATION FairSpec
CONSTANTS
  Versions = {v1, v2, v3}
  Broken = {v3}
  NoVersion = NoVersion
  Files = 2
  UpdateSh = 2
  Outside = 1
  Updaters = {u1}
  NoUpdater = NoUpdater
  Pages = {g1}
  MaxRuns = 2
  MaxCuts = 1
  MaxKills = 1
INVARIANTS TypeOK WorkingCopy AllOrNothing ServiceIsInstalled SuccessIsReal
PROPERTIES PageTellsTruth PageEnds
