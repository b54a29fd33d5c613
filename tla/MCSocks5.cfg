SPECIFICATION FairSpec
CONSTANTS
  Clients = {c1, c2}
  Requests <- FewRequests
  Styles = {"whole", "split", "eager"}
  None = None
INVARIANTS TypeOK ServedAsAsked ToldWhy QueuedOnce
PROPERTIES EveryoneServed
CHECK_DEADLOCK FALSE
