SPECIFICATION OwnersSpec
CONSTANTS
  Timers = {t1, t2}
  SetWhileDue = FALSE
  MaxSets = 2
  MaxTicks = 2
  Files = {f1, f2}
  BufferSize = 2
  QueueSize = 3
  MaxEvents = 4
  MaxWatches = 2
  TcpWithSsl = FALSE
  Capacity = 1
  Record = 2
  MaxWritten = 3
  MaxSent = 2
INVARIANTS
  TotalPositive
  EachToldOnce
  WatcherAborts
  RightPath
  ToldInOrder
  NothingLost
  StreamAborts
PROPERTIES
  SetTells
  EventsTold
  FlushedArrives
  ArrivedIsSeen
  NotifyAnswered
CHECK_DEADLOCK FALSE
