\* The room exits after a shutdown and the process may be killed.
CHECK_DEADLOCK FALSE
SYMMETRY Symmetry
SPECIFICATION Spec
CONSTANTS
  Clients = {c1, c2, c3}
  NoPlayer = NoPlayer
  USER_COUNT = 3
  LAST_QUEST = 2
  Answers = {0, 1}
  RightAnswers = {1}
  LeaveModes = {"fin", "rst"}
  UNASKED = 0
INVARIANTS
  TypeOK
  ScoresMatchRounds
  NoMutualWait
  NoStaleAnswer
  OutIsTold
  OnePlace
  NoLeakedSocket
PROPERTY
  FullIsTold
