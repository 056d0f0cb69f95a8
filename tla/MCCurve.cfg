CONSTANTS
  P = 43
  MaxMagnitude = 32
  MaxMulMagnitude = 8
  CurveB = 7
  PreG <- EcmultContextBuild
  Prec <- EcmultGenContextBuild
  MulMod <- MCMulMod
  N = 31
  ScalarBits = 5
  WindowA = 3
  WindowG = 4
  GenWindows = 3
  GenBits = 2
  GenX = 2
  GenY = 12
  NumsX = 21
  Scales = {17}
  Factors = {0, 11, 30}
  Blinds = {5}
  XNumbers = {3, 7, 37}
  MaxPointCalls = 4
  Seeds <- MCSeeds
  Keys = {9, 40}
  Tweaks = {0, 22, 31}
  Messages = {16, 37}
  Scalars = {0, 17, 31}
  NonceLists <- MCNonceLists
  PeerLists <- MCPeerLists
  PubkeyInputs <- MCPubkeyInputs
  SigInputs <- MCSigInputs
  MaxApiCalls = 2
SPECIFICATION MCSpec
INVARIANT PointsFollowTheGroupLaw
INVARIANT PredicatesAgree
INVARIANT BlindingCancels
INVARIANT SignaturesVerify
PROPERTY RefinesIdealEcdsa
CHECK_DEADLOCK FALSE
