SPECIFICATION FairSpec
CONSTANTS
  Configs <- FewConfigs
  MaxTries = 2
  MaxFd = 3
  MaxLines = 2
  MaxSignals = 2
INVARIANTS TypeOK NoneOutlives BoundAlive OrderlyEnd
 
CHECK_DEADLOCK FALSE
