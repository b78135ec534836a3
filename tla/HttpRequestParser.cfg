SPECIFICATION Spec
CONSTANTS
  Bytes <- MCBytes
  Streams <- MCStreams
  IntMax = 12
INVARIANTS
  TypeOK
  SplitAtHeaderEnd
  MessageRecognised
  UriUnderstood
CHECK_DEADLOCK FALSE
