SPECIFICATION Spec
CONSTANTS
  Requests = {r1}
  Script <- Single
  Ssl = FALSE
  TcpWithSsl = TRUE
  Resets = FALSE
  ShutdownInUse = TRUE
  MaxAccepts = 1
  MaxHeld = 1
INVARIANTS
  UsedIsAllocated
