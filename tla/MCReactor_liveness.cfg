SPECIFICATION FairSpec
CONSTANTS
  Descriptors = {d1, d2}
  Default = default
  Masks <- MixedMasks
  MaxEvents = 1
  MaxOpens = 1
  Signals = FALSE
PROPERTIES
  QueuedIsServed
  StopReturns
