CONSTANTS
  Block <- VBlock
  Genesis = "G"
  NoBlock = "none"
  Parent <- VParent
  Height <- VHeight
  Difficulty <- VDifficulty
  StateHash <- VStateHash
  Valid <- VValid
  MaxHeight = 4
  Writer = {"w1"}
  NoWriter = "free"
SPECIFICATION Spec
INVARIANT CurrentBlockIsHead
