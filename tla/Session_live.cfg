SPECIFICATION FairSpec
CONSTANTS
  r1 = r1  r2 = r2  t1 = t1  t2 = t2
  Requests <- MCTwo
  Runs <- MCRuns
  NoRun = NoRun
  MaxSignin = 1
  MaxRetries = 0
  Overlap = FALSE
  MayRestart = TRUE
  StorageMayFail = TRUE
PROPERTIES SharesOneFlight EveryRequestSettles
CHECK_DEADLOCK FALSE
