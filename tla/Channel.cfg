SPECIFICATION MCSpec
CONSTANTS
  o1 = o1  o2 = o2  o3 = o3
  n1 = n1  s1 = s1  a1 = a1  a2 = a2
  Ops <- MCOps
  Nodes <- MCNodes
  Shadows <- MCShadows
  Apps <- MCApps
  NoNode = NoNode
  NoShadow = NoShadow
  NoOp = NoOp
  NumSuffixes = 2
  LiveSuffixes <- MCLive
  MaxSession = 1
SYMMETRY Symmetry
INVARIANTS
  InstallFindsItsSet
  ServedWhileRegistered
  UncutOnlyCurrentSetReached
  UncutNoStrayListener
PROPERTY ResolvesServed
CHECK_DEADLOCK FALSE
