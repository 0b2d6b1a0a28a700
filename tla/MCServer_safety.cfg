SPECIFICATION Spec
CONSTANTS
  Requests = {r1, r2}
  Script <- Pipelined
  Ssl = FALSE
  TcpWithSsl = TRUE
  Resets = FALSE
  ShutdownInUse = FALSE
  MaxAccepts = 2
  MaxHeld = 2
SYMMETRY Symmetry
INVARIANTS
  RefCount
  NeverStuck
PROPERTIES
  ImplementsPipeline
