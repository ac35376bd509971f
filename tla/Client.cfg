\* A client that has ended stays so.
CHECK_DEADLOCK FALSE
SPECIFICATION FairSpec
CONSTANTS
  USER_COUNT = 3
  LAST_QUEST = 2
  PACKET_WORDS = 5
  ROWS = 26
INVARIANTS
  TypeOK
  ClicksHit
  DrawerStopped
  NoMutualWait
PROPERTIES
  DiesOnlyOnReuse
  Alternates
  AnswerIsFollowed
