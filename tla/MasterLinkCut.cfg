SPECIFICATION FairSpec
CONSTANTS
  WriteLengths = {1, 3}
  GetAckLength = 2
  ReplyLength = 3
  RdbLength = 4
  MaxCommands = 5
CHECK_DEADLOCK FALSE
INVARIANT
  ReadAsWritten
PROPERTIES
  ImplementsCommandStream
  EveryCommandProcessed
