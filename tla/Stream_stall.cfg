SPECIFICATION FairStreamSpec
CONSTANTS
  TcpWithSsl = TRUE
  Capacity = 2
  Record = 2
  MaxWritten = 5
  MaxSent = 1
PROPERTIES
  FlushedArrives


CHECK_DEADLOCK FALSE
