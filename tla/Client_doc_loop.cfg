\* A client that has ended stays so.
CHECK_DEADLOCK FALSE
SPECIFICATION Spec
CONSTANTS
  USER_COUNT = 2
  LAST_QUEST = 2
  PACKET_WORDS = 5
  ROWS = 24
PROPERTY
  LoopEndsWithGame
