SPECIFICATION Spec
CONSTANTS
  MAX_PAYLOAD_LENGTH = 8
  BUFFER_LENGTH = 3
  PayloadLengths <- MCPayloadLengths
  Commands = {3, 23, 25}
  Contents <- MCContents
  DataSeqs = {1}
  MaxPackets <- MCMaxPackets
INVARIANT SqlStringMeansSqlField
CHECK_DEADLOCK FALSE
