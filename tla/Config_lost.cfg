SPECIFICATION MCSpec
CONSTANTS
  n1 = n1  n2 = n2  h1 = h1  h2 = h2
  Nodes <- MCNodes
  Handlers <- MCHandlers
  NoNode = NoNode
  MaxVersion = 2
INVARIANT OthersDoNotMatter
