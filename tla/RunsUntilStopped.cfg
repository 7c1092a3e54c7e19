SPECIFICATION Spec
CONSTANTS
  Conn = {c1, c2}
  Listener = Listener
  FdLimit = 4
SYMMETRY ConnSymmetry
PROPERTY RunsUntilStopped
