SPECIFICATION MCSpec
CONSTANTS
  c1 = c1  c2 = c2
  n1 = n1  n2 = n2  s1 = s1  s2 = s2  f1 = f1  f2 = f2
  Calls <- MCCalls
  Nodes <- MCNodes
  Shadows <- MCShadows
  Callbacks <- MCCallbacks
  NoShadow = NoShadow
  NoCall = NoCall
  NumSuffixes = 3
  LiveSuffixes <- MCLive
  MaxSession = 1
SYMMETRY Symmetry
INVARIANTS
  SubscribedIffListened
  UncutWireIsSound
  ListenersHaveTheirCall
PROPERTY ImplementsQueue
CHECK_DEADLOCK FALSE
