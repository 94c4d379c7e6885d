SPECIFICATION Spec
CONSTANTS
  MaxRetries = 3
  Capacity = 2
  MaxEvents = 4
  MaxGarbled = 1
CHECK_DEADLOCK FALSE
INVARIANTS TypeOK ArgsFindTheirCall CompletedOnce
PROPERTIES ImplementsStream CallEnds
