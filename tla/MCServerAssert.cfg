SPECIFICATION Spec
CONSTANTS
  c1 = c1
  c2 = c2
  c3 = c3
  Clients = {c1}
  NULL = NULL
  ListenFd = 3
  Fds = {5}
  MaxEvents = 2
  SendBuffer = 1
  HeaderSize = 2
  k_max_msg = 5
  Requests <- MCRequests
  BodyLen <- MCBodyLen
  WellFormed <- MCWellFormed
  OutLen <- MCOutLen
  ErrLen = 1
  Scripts <- FullScripts
  Pipelining = FALSE
INVARIANT
  AssertNeverFails
CHECK_DEADLOCK FALSE
