SPECIFICATION Spec
CONSTANTS
  MaxQueue = 2
  MaxEvents = 0
  MaxFaults = 1
  MaxStations = 0
  SemValueMax = 2
  Messages = 1
  ThreadFaults = {"signal"}
PROPERTY QuitCompletes
PROPERTY TransmissionEnds
CHECK_DEADLOCK FALSE
