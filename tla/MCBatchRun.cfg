SPECIFICATION MCSpec
CONSTANTS
  Job = {j1, j2, j3}
  NNN = 2
  NoJob = NoJob
  MaxCrashes = 2
INVARIANTS TypeOK ProvedAtMostOnce CrashCostsAtMostNNN
PROPERTIES StrandedForGood BatchReturns
