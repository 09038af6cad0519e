\* The ring of four threads of the source, six lines, three numbers per thread.
CONSTANTS
  THREAD_NUM = 4
  TEST_NUM = 6
  TEST_CASE_NUM = 3
SPECIFICATION LinesSpec
INVARIANT LineInOrder
INVARIANT OneToken
PROPERTY Finishes
\* main returns.
CHECK_DEADLOCK FALSE
