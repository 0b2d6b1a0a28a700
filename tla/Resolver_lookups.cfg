SPECIFICATION ResolverSpec
CONSTANTS
  Asyncs = {a1, a2}
  Threads = {t1, t2}
  NoAsync = no_async
  NoThread = no_thread
  MaxCalls = 2
  MaxLookups = 2
INVARIANTS
  NoneLeftBehind
  DoneAfterCall
  AnswerIsForLookup
  AnswersFreed
PROPERTIES
  LookupsEnd
CHECK_DEADLOCK FALSE
