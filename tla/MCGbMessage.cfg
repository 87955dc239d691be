CONSTANTS
  AtobMessages <- MCMessages
  Objects <- MCObjects
SPECIFICATION MsgFairSpec
INVARIANTS
  AtobInv
  AllReplaced
  MessageInv
  AllLogged
PROPERTIES
  LoopEnds
CHECK_DEADLOCK FALSE
