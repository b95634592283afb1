SPECIFICATION Spec
CONSTANTS
  r1 = r1  r2 = r2  t1 = t1  t2 = t2
  Requests <- MCOne
  Runs <- MCRuns
  NoRun = NoRun
  MaxSignin = 1
  MaxRetries = 2
  Overlap = TRUE
  MayRestart = FALSE
  StorageMayFail = FALSE
SYMMETRY Symmetry
INVARIANT LoggedOutHoldsNothing
CHECK_DEADLOCK FALSE
