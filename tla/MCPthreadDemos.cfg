\* Three threads of each kind, two rounds of every loop.
CONSTANTS
  f1 = f1
  f2 = f2
  f3 = f3
  s1 = s1
  s2 = s2
  s3 = s3
  NoThread = NoThread
  First = {f1, f2, f3}
  Second = {s1, s2, s3}
  Waiter = f1
  Signer = s1
  TEST_CASE_NUM = 2
  Rounds = 2
  MaxSpurious = 2
SPECIFICATION Spec
INVARIANT AssertionsHold
INVARIANT WakeupsArrive
PROPERTY Finishes
\* main returns.
CHECK_DEADLOCK FALSE
