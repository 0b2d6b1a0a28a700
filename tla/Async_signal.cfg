SPECIFICATION Spec
CONSTANTS
  Asyncs = {a1}
  Threads = {t1}
  NoAsync = no_async
  NoThread = no_thread
  MaxCalls = 1
INVARIANTS
  SignalsSucceed
CHECK_DEADLOCK FALSE
