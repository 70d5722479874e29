SPECIFICATION Spec
CONSTANTS
  MaxQueue = 2
  MaxEvents = 0
  MaxFaults = 0
  MaxStations = 0
  SemValueMax = 2
  Messages = 1
  ThreadFaults = {}
INVARIANT UnacknowledgedByHostapd
CHECK_DEADLOCK FALSE
