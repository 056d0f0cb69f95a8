CONSTANTS
  Caller = {"c1"}
  Waiter = {"w1"}
  Threads = 1
  ThreadArgs = {1}
  MaxFormer = 1
  MaxNonce = 11
  ThreadCounts = {1, 2, 3, 5}
SPECIFICATION FaultSpec
INVARIANT WorkersShareOut
PROPERTY ResultsReceived
PROPERTY CallbacksReturn
CHECK_DEADLOCK FALSE
