SPECIFICATION FairSpec
CONSTANTS
  r1 = r1  r2 = r2
  n1 = n1  s1 = s1  s2 = s2
  Requests <- MCRequests
  Nodes <- MCNodes
  Shadows <- MCShadows
  NoShadow = NoShadow
  NoTopic = NoTopic
  NoRequest = NoRequest
  MaxSession = 1
INVARIANTS
  AnswerIsHeard
PROPERTIES SettlesOnce EveryRequestSettles
CHECK_DEADLOCK FALSE
