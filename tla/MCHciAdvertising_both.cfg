SPECIFICATION Spec
CONSTANTS
  Configs <- BothExtended
  MaxMessages = 2
  MaxStrays = 0
  MaxFaults = 0
  MaxRestarts = 0
INVARIANT TwoSetsSupported
