CONSTANTS
  Block <- UBlock
  Genesis = "G"
  NoBlock = "none"
  Parent <- UParent
  Height <- UHeight
  Difficulty <- UDifficulty
  StateHash <- UStateHash
  Valid <- UValid
  MaxHeight = 4
  Writer = {"w1", "w2"}
  NoWriter = "free"
SPECIFICATION HistorySpec
INVARIANT IntactUntilCrash
INVARIANT HeadHeaviest
INVARIANT CurrentBlockIsHead
INVARIANT ReadersFindBlocks
PROPERTY RefinesHeaviestChain
