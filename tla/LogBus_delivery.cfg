SPECIFICATION FairSpec
CONSTANTS
  connect = connect
  disconnect = disconnect
  other = other
  page1 = page1
  NoOne = NoOne
  Operation = {connect, disconnect}
  Request = {other}
  Client = {page1}
  Lines = 2
  RingSize = 2
  QueueSize = 1
  MayStall = TRUE
  MayLeave = TRUE
INVARIANT IInv LinesInOrder
PROPERTY ImplementsFeed SubscribersGetEveryLine OperationsEndWhenHeeded
CHECK_DEADLOCK FALSE
