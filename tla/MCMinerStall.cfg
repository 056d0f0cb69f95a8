CONSTANTS
  Caller = {"c1"}
  Waiter = {"w1", "w2"}
  Threads = 1
  ThreadArgs = {1}
  MaxFormer = 1
  MaxNonce = 11
  ThreadCounts = {1, 2, 3, 5}
SPECIFICATION UserSpec
PROPERTY StartStarts
CHECK_DEADLOCK FALSE
