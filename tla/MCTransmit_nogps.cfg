SPECIFICATION Spec
CONSTANTS
  CommandLines <- OneGps
  MaxWaitRetries = 0
  MaxReadRetries = 0
  MaxFixes = 0
  CounterRange = 2
  PacksPerLoop = 1
  SemValueMax = 2
  MaxSignals = 0
PROPERTY NoGpsdIsReported
