SPECIFICATION FairSpec
CONSTANTS
  Conn = {c1, c2}
  Listener = Listener
  FdLimit = 3
PROPERTY SignalStopsServer
