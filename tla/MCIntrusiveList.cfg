\* Two lists, four nodes; a cache of three of four keys.
CONSTANTS
  h1 = h1
  h2 = h2
  n1 = n1
  n2 = n2
  n3 = n3
  n4 = n4
  Null = Null
  Heads = {h1, h2}
  Nodes = {n1, n2, n3, n4}
  Keys = {k1, k2, k3, k4}
  Vals = {v1, v2}
  Top = Top
  Capacity = 3
SPECIFICATION MCSpec
SYMMETRY ListSymmetry
INVARIANT InverseLinks
INVARIANT LoopComplete
PROPERTY LoopMeetsOnce
PROPERTY ImplementsSeqLists
PROPERTY ImplementsRecency
