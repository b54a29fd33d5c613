SPECIFICATION Spec
CONSTANTS
  Fds = {f1, f2, f3}
  Workers = {w1}
  MaxConn = 2
  MaxData = 1
  MaxResets = 2
  NegativeInlen = FALSE
  None = None
SYMMETRY Symmetry
INVARIANTS RecvNonblocking SendBlocking NoClientStranded
PROPERTY Implements
CHECK_DEADLOCK FALSE
