SPECIFICATION FairSpec
CONSTANTS
  c1 = c1
  c2 = c2
  c3 = c3
  Clients = {c1, c2}
  NULL = NULL
  ListenFd = 3
  Fds = {5, 6}
  MaxEvents = 3
  SendBuffer = 1
  HeaderSize = 1
  k_max_msg = 5
  Requests <- MCRequests
  BodyLen <- MCBodyLen
  WellFormed <- MCWellFormed
  OutLen <- MCOutLen
  ErrLen = 1
  Scripts <- GoodScripts
  Pipelining = FALSE
PROPERTIES
  RequestsAnswered
  DescriptorsReleased
CHECK_DEADLOCK FALSE
