SPECIFICATION FairSpec

CONSTANTS
  MaxCommands = 4
  InitCommands = 1
  Timeout = 2
  CardMoves = 1

INVARIANTS
  OnePlaceEach
  AnsweredInOrder
  DataIsOwn
PROPERTIES
  EveryCommandAnswered

CHECK_DEADLOCK FALSE
