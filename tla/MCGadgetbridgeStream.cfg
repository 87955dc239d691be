CONSTANTS
  Byte <- MCByte
  DLE = "dle"
  NL = "nl"
  GB <- MCGB
  SetTime <- MCSetTime
  Packets <- MCPackets
  Bodies <- MCBodies
  PacketLens = {1, 2, 3, 4}
  MAX_RECV_LEN = 4
SPECIFICATION StreamSpec
INVARIANTS
  GbInv
  ParsedIsLine
  OnlyWholeMessages
  FittingMessagesArrive
