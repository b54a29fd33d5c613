SPECIFICATION Spec
CONSTANTS
  Fds = {f1, f2, f3}
  Services = {"redirect"}
  Plan <- ReadmePlan
  MaxClients = 1
  MaxLines = 0
  Mute = {}
  None = None
  a1 = a1 
  a2 = a2
  a3 = a3
  p1 = p1
  p2 = p2
SYMMETRY Symmetry
INVARIANT InTurn
CHECK_DEADLOCK FALSE
