SPECIFICATION Spec
CONSTANTS
  CommandLines <- OneCounter
  MaxWaitRetries = 1
  MaxReadRetries = 0
  MaxFixes = 0
  CounterRange = 3
  PacksPerLoop = 2
  SemValueMax = 2
  MaxSignals = 1
INVARIANT TypeOK
INVARIANT TransportsAgree
INVARIANT DeadGpsStopsLoop
INVARIANT DataKeepsItAlive
PROPERTY CounterSequence
PROPERTY ImplementsLifecycle
PROPERTY KillEndsProgram
PROPERTY InterruptStops
CHECK_DEADLOCK FALSE
