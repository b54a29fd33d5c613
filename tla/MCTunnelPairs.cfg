SPECIFICATION Spec
CONSTANTS
  Fds = {f1, f2, f3}
  Workers = {w1, w2}
  MaxConn = 2
  MaxData = 1
  MaxResets = 1
  NegativeInlen = TRUE
  None = None
SYMMETRY Symmetry
INVARIANTS TypeOK TablesAgree NoLeak PairsMatch OneHandler PairsInv
CHECK_DEADLOCK FALSE
