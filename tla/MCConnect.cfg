SPECIFICATION FairSpec
CONSTANTS
  Fds = {f1, f2, f3, f4}
  Services = {"redirect", "tcprelay", "socks5"}
  Plan <- Mixed
  MaxClients = 2
  MaxLines = 1
  Mute = {p1}
  None = None
  a1 = a1
  a2 = a2
  a3 = a3
  p1 = p1
  p2 = p2
INVARIANTS TypeOK AllOrNothing RightEnd
PROPERTIES OneAtATime Settles
CHECK_DEADLOCK FALSE
