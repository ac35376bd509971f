\* The room exits after a shutdown and the process may be killed.
CHECK_DEADLOCK FALSE
SPECIFICATION AttentiveSpec
CONSTANTS
  Clients = {c1, c2}
  NoPlayer = NoPlayer
  USER_COUNT = 2
  LAST_QUEST = 2
  Answers = {0, 1}
  RightAnswers = {1}
  LeaveModes = {"fin", "rst"}
  UNASKED = 1
PROPERTIES
  GameEnds
  ShutdownEnds
  PromiseKept
