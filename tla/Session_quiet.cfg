SPECIFICATION Spec
CONSTANTS
  r1 = r1  r2 = r2  t1 = t1  t2 = t2
  Requests <- MCTwo
  Runs <- MCRuns
  NoRun = NoRun
  MaxSignin = 2
  MaxRetries = 2
  Overlap = FALSE
  MayRestart = FALSE
  StorageMayFail = FALSE
SYMMETRY Symmetry
INVARIANTS StorageIsUsers SignedAsUser
CHECK_DEADLOCK FALSE
