SPECIFICATION Spec
CONSTANTS
  k1 = k1
  k2 = k2
  run1 = run1
  run2 = run2
  v = v
  w = w
  NoKey = NoKey
  Pruner = Pruner
  Keys <- MCKeys
  Runs <- MCRuns
  Workers <- MCWorkers
  Homes <- MCHomes
  Limits <- MCLimits
  Parts = 2
  MaxOpens = 3
SYMMETRY Symmetry
INVARIANTS
  EntriesCompleted
  HitsIntact
  IndexMatchesObjects
  PruneIsExact
