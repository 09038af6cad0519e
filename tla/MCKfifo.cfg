\* Four slots for a request of three; counters modulo 8 that wrap twice; ints of
\* 30 bits, the most that TLC's own integers allow.
CONSTANTS
  W = 30
  Request = 3
  M = 8
  MaxWant = 5
  MaxBytes = 20
  Requests <- MCRequests
  Indices <- MCIndices
SPECIFICATION Spec
INVARIANT Occupancy
INVARIANT NoSlotRace
INVARIANT InOrder
INVARIANT SizesArePowers
PROPERTY ImplementsFifo
