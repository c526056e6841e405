CONSTANTS
  c1 = c1
  c2 = c2
  Client = {c1, c2}
  Requests <- TwoClients
  Files <- Web
  Fd <- Descriptors
  FREE = FREE
  NULL = NULL
  INITIAL_BUFFER_SIZE = 1
  MAX_SIZE = 2
  MAX_BODY_LEN = 4
SPECIFICATION Spec
CHECK_DEADLOCK FALSE
INVARIANT SocketClosed
