SPECIFICATION FairSpec
CONSTANTS
  Descriptors = {d1}
  Default = default
  Masks <- EdgeMasks
  MaxEvents = 1
  MaxOpens = 1
  Signals = TRUE
PROPERTIES
  SignalStopsLoop
