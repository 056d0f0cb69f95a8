CONSTANTS
  Block <- VBlock
  Genesis = "G"
  NoBlock = "none"
  Parent <- VParent
  Height <- VHeight
  Difficulty <- VDifficulty
  StateHash <- VStateHash
  Valid <- VValid
  MaxHeight = 4
  Writer = {"w1", "w2"}
  NoWriter = "free"
SPECIFICATION FairSpec
INVARIANT StoredTree
PROPERTY HeadOnlyGetsHeavier
PROPERTY WriteBlockReturns
