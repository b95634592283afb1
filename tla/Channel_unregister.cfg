SPECIFICATION MCSpec
CONSTANTS
  o1 = o1  o2 = o2  o3 = o3
  n1 = n1  s1 = s1  a1 = a1  a2 = a2
  Ops <- MCTwoOps
  Nodes <- MCNodes
  Shadows <- MCShadows
  Apps <- MCApps
  NoNode = NoNode
  NoShadow = NoShadow
  NoOp = NoOp
  NumSuffixes = 1
  LiveSuffixes <- MCLive
  MaxSession = 1
PROPERTY JoinIsServed
CHECK_DEADLOCK FALSE
