SPECIFICATION MCFairSpec
CONSTANTS
  o1 = o1  o2 = o2  o3 = o3
  n1 = n1  s1 = s1  a1 = a1  a2 = a2
  Ops <- MCTwoOps
  Nodes <- MCNodes
  Shadows <- MCShadows
  Apps <- MCOneApp
  NoNode = NoNode
  NoShadow = NoShadow
  NoOp = NoOp
  NumSuffixes = 2
  LiveSuffixes <- MCLive
  MaxSession = 1
PROPERTY EveryOpSettles
CHECK_DEADLOCK FALSE
