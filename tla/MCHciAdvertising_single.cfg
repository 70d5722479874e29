SPECIFICATION Spec
CONSTANTS
  Configs <- OneTransport
  MaxMessages = 2
  MaxStrays = 1
  MaxFaults = 1
  MaxRestarts = 1
INVARIANT TypeOK
INVARIANT OneEventPerCommand
INVARIANT OpcodeExpected
INVARIANT OnAirAsConfigured
INVARIANT BroadcastsLast
INVARIANT SilentOnceClosed
PROPERTY CloseEnds
