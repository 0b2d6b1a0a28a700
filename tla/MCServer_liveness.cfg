SPECIFICATION FairSpec
CONSTANTS
  Requests = {r1}
  Script <- PipelinedThenBad
  Ssl = TRUE
  TcpWithSsl = FALSE
  Resets = TRUE
  ShutdownInUse = FALSE
  MaxAccepts = 2
  MaxHeld = 1
PROPERTIES
  EveryRequestAnswered
  ClosedIsFreed
  HangsUpForAReason
