\* Two updaters at a time; nobody is killed and the power stays on.
SPECIFICATION Spec
CONSTANTS
  Versions = {v1, v2}
  Broken = {}
  NoVersion = NoVersion
  Files = 3
  UpdateSh = 2
  Outside = 1
  Updaters = {u1, u2}
  NoUpdater = NoUpdater
  Pages = {g1, g2}
  MaxRuns = 2
  MaxCuts = 0
  MaxKills = 0
SYMMETRY Interchangeable
INVARIANT NoHalfCopiedTree
