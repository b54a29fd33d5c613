SPECIFICATION Spec
CONSTANTS
  MaxInt = 7
  MaxLargestInt = 15
  MaxPort = 7
  BufSize = 12
  RightMargin = 7
  StackLimit = 8
  MaxTokens = 7
  Order <- MCOrder
  Alphabet <- MCAlphabet
  Features <- NoTexts
  Seeds <- NoTexts
  Files <- DocumentedFiles
  Clients <- MCClients
  StringToIpint <- MCStringToIpint
  StringToRange <- MCStringToRange
INVARIANT BindsAll
CHECK_DEADLOCK FALSE
