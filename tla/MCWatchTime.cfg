CONSTANTS
  Messages <- MCMessages
  Garbage <- MCGarbage
  Steps <- MCSteps
  MaxUp = 123002
SPECIFICATION Spec
INVARIANTS
  TimeInv
PROPERTIES
  StopwatchRight
  FaceRight
