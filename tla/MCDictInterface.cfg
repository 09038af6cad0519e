\* dictCreate(type, 3), as in the tests; five strings at a time.
CONSTANTS
  ta = ta
  tb = tb
  tc = tc
  s1 = s1
  s2 = s2
  s3 = s3
  s4 = s4
  s5 = s5
  Freed = Freed
  Wild = Wild
  NoValue = NoValue
  Size = 3
  Ints = {10, 20, 30}
  Texts = {ta, tb, tc}
  Hash <- MCHash
  Bytes <- MCBytes
  Strings = {s1, s2, s3, s4, s5}
  DictBytes = 6
  EntryBytes = 3
  PointerBytes = 1
SPECIFICATION Spec
SYMMETRY StringSymmetry
INVARIANT HeldStringsLive
INVARIANT MemExact
PROPERTY ImplementsMap
\* A program that has followed a wild pointer or NULL stops.
CHECK_DEADLOCK FALSE
