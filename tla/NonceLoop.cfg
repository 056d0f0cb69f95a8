CONSTANTS
  MaxNonce = 11
  ThreadCounts = {1, 2, 3, 5}
SPECIFICATION Spec
INVARIANT NoncesTraversed
CHECK_DEADLOCK FALSE
