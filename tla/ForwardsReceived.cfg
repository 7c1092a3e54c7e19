SPECIFICATION RelaySpec
CONSTANTS
  Conn = {c1}
  Listener = Listener
  FdLimit = 2
  BUFFER_LENGTH = 2
  SendBuffer = 1
  MaxBytes <- MCMaxBytes
INVARIANT ForwardsReceived
