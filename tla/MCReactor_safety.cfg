SPECIFICATION Spec
CONSTANTS
  Descriptors = {d1, d2}
  Default = default
  Masks <- StreamMasks
  MaxEvents = 2
  MaxOpens = 2
  Signals = TRUE
SYMMETRY Symmetry
INVARIANTS
  NeverWaitsOnNothing
  RegisteredCount
  PendingIsCurrent
PROPERTIES
  ImplementsPort
