SPECIFICATION Spec
CONSTANTS
  MaxQueue = 2
  MaxEvents = 1
  MaxFaults = 1
  MaxStations = 1
  SemValueMax = 2
  Messages = 1
  ThreadFaults = {"init", "signal"}
INVARIANT TypeOK
INVARIANT SubmittedNeverBlocks
INVARIANT StartsConnected
INVARIANT HandlerOnlyWhileAttached
INVARIANT LeavesNothingOpen
INVARIANT AbandonedOnlyByFailure
INVARIANT IInv
PROPERTY ImplementsSession
PROPERTY NeverBeginsAnew
CHECK_DEADLOCK FALSE
