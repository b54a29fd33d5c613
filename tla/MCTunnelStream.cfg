SPECIFICATION FairSpec
CONSTANTS
  Fds = {f1, f2}
  Workers = {w1, w2}
  MaxConn = 1
  MaxData = 3
  MaxResets = 1
  NegativeInlen = FALSE
  None = None
PROPERTIES Implements Arrives EndsTogether
CHECK_DEADLOCK FALSE
