SPECIFICATION Spec
CONSTANTS
  MaxInt = 7
  MaxLargestInt = 15
  MaxPort = 7
  BufSize = 12
  RightMargin = 7
  StackLimit = 8
  MaxTokens = 7
  Order <- MCOrder
  Alphabet <- MCAlphabet
  Features <- MCFeatures
  Seeds <- MCSeeds
  Files <- MCFiles
  Clients <- MCClients
  StringToIpint <- MCStringToIpint
  StringToRange <- MCStringToRange
INVARIANTS Means Rereads PointersLive AsWritten
CHECK_DEADLOCK FALSE
