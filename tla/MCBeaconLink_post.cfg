SPECIFICATION Spec
CONSTANTS
  MaxQueue = 2
  MaxEvents = 1
  MaxFaults = 1
  MaxStations = 0
  SemValueMax = 2
  Messages = 1
  ThreadFaults = {}
PROPERTY PostMeansProcessed
CHECK_DEADLOCK FALSE
