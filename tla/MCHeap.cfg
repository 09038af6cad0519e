CONSTANTS
  a = a
  b = b
  c = c
  d = d
  e = e
  f = f
  Null = Null
  Blocks = {a, b, c, d, e}
  Values = {1, 2, 3}
  Nodes <- MCNodes
  Embedded <- CallersNodes
  Priority <- MCPriority
SPECIFICATION HeapSpec
INVARIANT CompleteTree
INVARIANT HeapOrder
INVARIANT OwnedNodes
PROPERTY ImplementsQueue
PROPERTY EveryCallReturns
\* A heap that has been freed stays so.
CHECK_DEADLOCK FALSE
