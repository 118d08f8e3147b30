SPECIFICATION FairSpec
CONSTANTS
  c1 = c1
  Conn <- MCConn
  REQUEST_READ_TIMEOUT = 2
  MAX_REQUEST_LINE_LEN = 3
  DRAIN_TIMEOUT = 2
  DRAIN_MAX_BYTES = 3
  ResponseLen = 4
  SEND_BUFFER = 3
  MaxPending = 2
INVARIANTS
  TypeOK
  NoLostRequest
PROPERTIES
  CleanClose
  OnlyUnreadResponsesHang
