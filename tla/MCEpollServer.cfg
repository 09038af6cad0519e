\* Two instances, three connections; reads of two bytes, so that an event may leave bytes behind,
\* and a write that drops one byte: the whole of a read, or its end, before the next one.
CONSTANTS
  MaxConns = 3
  EPOLL_INS_CNT = 2
  MAX_EVENT = 2
  READ_BUF_LEN = 2
  MaxBytes = 3
  MaxHangUps = 1
  MaxLost = 1
SPECIFICATION Spec
INVARIANT HandlesOpenOnly
INVARIANT OutputInOrder
INVARIANT ClosedComplete
PROPERTY AcceptsAll
PROPERTY DeliveredWhenAlone
\* The server waits for ever once the clients are done, or exits.
CHECK_DEADLOCK FALSE
