CONSTANTS
  a1 = a1
  a2 = a2
  a3 = a3
  Account = {a1, a2, a3}
  NoAccount = NoAccount
  StateCacheCapacity = 2
  CacheEvict = 1
  MaxChange = 1
  MaxRoots = 2
  Radix = 2
  Keys <- MCKeys
  Values <- MCValues
  Empty = "empty"
  None = "none"
  MaxCommits = 2
  Content = {"c1", "c2", "c3"}
  MaxContents = 5
  NoTree = NoTree
SPECIFICATION MCSpec
INVARIANT TypeOK
INVARIANT CleanIsStored
INVARIANT TrieIsMap
INVARIANT CommittedReadable
INVARIANT RootIsContents
INVARIANT RootTellsContents
SYMMETRY Symmetry
PROPERTY RefinesAccountMap
CHECK_DEADLOCK FALSE
