SPECIFICATION RelayFairSpec
CONSTANTS
  Conn = {c1}
  Listener = Listener
  FdLimit = 2
  BUFFER_LENGTH = 2
  SendBuffer = 1
  MaxBytes <- MCMaxBytes
INVARIANTS RelayTypeOK CollectedIsStream ForwardedIsLogged StreamIntact
PROPERTY BytesMove
