\* Chains of up to three entries, deleted and reused in any order.
CONSTANTS
  e1 = e1
  e2 = e2
  e3 = e3
  e4 = e4
  a = a
  b = b
  Null = Null
  NoValue = NoValue
  Cap = 2
  Keys = {0, 2, 4, 5}
  Values = {a, b}
  Entries = {e1, e2, e3, e4}
SPECIFICATION Spec
SYMMETRY DictSymmetry
INVARIANT HeapMatchesTable
PROPERTY ImplementsMap
