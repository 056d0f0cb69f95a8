CONSTANTS
  Top = 3
  LimbBits = 7
  TopBits = 6
  WordBits = 11
  AccBits = 23
  StorageBits = 9
  FoldLow = 7
  FoldHigh = 1
  MaxMagnitude = 7
  MaxMulMagnitude = 4
  Numbers = {1, 134217592, 134217593, 134217727, 90000000}
  SmallInts = {2, 4}
  MaxCalls = 5
  Half = 2
  Bits = 3
  N = 4013
  ScalarNumbers = {1, 2006, 2007, 4012, 4013, 4095, 2900}
  BitOffsets = {0, 4, 11}
  Shifts = {12, 14, 15, 23}
  MaxScalarCalls = 4
  Sign = 16
  ScalarBytes = 2
  SizeBytes = 2
  DerN = 1000
  Framing <- MCFraming
  DerInputs <- MCDerInputs
  DerNumbers = {0, 1, 15, 16, 31, 511, 512, 999}
  DerSizes = {8, 9, 12}
  BlockBytes = 8
  DigestBytes = 4
  WordBytesBits = 8
  Transform <- MCTransform
  StartState = 4711
  DigestOf <- MCDigestOf
  Leftovers = {0, 200}
  PieceSizes = {0, 1, 5, 8, 11, 17}
  KeySizes = {0, 4, 8, 9, 16}
  OutSizes = {0, 4, 9}
  MaxWritten = 40
  MaxOutputs = 3
SPECIFICATION MCSpec
INVARIANT Verified
INVARIANT ChainsReachTheirExponent
INVARIANT DerParsersAgree
INVARIANT ExportedKeysImport
INVARIANT PiecesHashAsAWhole
INVARIANT NoncesFollowRfc6979
PROPERTY RefinesFieldElement
PROPERTY ScalarsExact
CHECK_DEADLOCK FALSE
