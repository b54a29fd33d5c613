SPECIFICATION FairSpec
CONSTANTS
  p1 = p1
  p2 = p2
  Pairs = {p1, p2}
  Workers = {w1, w2}
  Lazy <- LazyPeer
  Cap = 1
  Quota <- Chunks
  Spies = {1, 2}
  Leavers = {1}
  MaxSeen = 2
  Ahead <- Early
  Enders <- Ends
  Copied = {"tunnel"}
  None = None
INVARIANTS TypeOK TailOnly CopiesInOrder
PROPERTY OthersServed
CHECK_DEADLOCK FALSE
