SPECIFICATION DeviceSpec
CONSTANTS
  s1 = s1  s2 = s2  g1 = g1  g2 = g2  l1 = l1  l2 = l2
  m1 = m1  m2 = m2  m3 = m3  x1 = x1  o1 = o1  o2 = o2  o3 = o3  k1 = k1  k2 = k2
  Shadows <- MCShadows  NoShadow = NoShadow  MaxPolls = 1  MaxAppMoves = 2
  CsrLen = 3  CertLen = 3  FragmentLimit = 2  MaxChunks = 3  MaxClaims = 2
  Groups <- MCGroups  NoGroup = NoGroup  MaxAttempts = 3
  LinkOps <- MCLinkOps  FragmentSize = 1  MaxRetries = 2  MaxChanges = 1
  GroupOrder <- MCGroupOrder  Strangers <- MCStrangers  PoolLimit = 2  MaxJobs = 2
  Keys <- MCKeys  Ops <- MCOps  NoKey = NoKey  NoOp = NoOp  MaxSession = 1
INVARIANTS
  DeviceTypeOK
  WaitLeavesNothing
  ClaimedAsIssued
  ProvisionedIsAssociated
  LocalAnswersAreTrue
  GroupJobsAreHonest
PROPERTIES
  AppKeepsItsListener
  RefinesFifo
  EveryFlowEnds
CHECK_DEADLOCK FALSE
