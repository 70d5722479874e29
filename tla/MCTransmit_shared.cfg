SPECIFICATION Spec
CONSTANTS
  CommandLines <- SharedCounter
  MaxWaitRetries = 0
  MaxReadRetries = 0
  MaxFixes = 0
  CounterRange = 4
  PacksPerLoop = 2
  SemValueMax = 2
  MaxSignals = 0
PROPERTY CounterSequence
CHECK_DEADLOCK FALSE
