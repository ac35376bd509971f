\* The room exits after a shutdown and the process may be killed.
CHECK_DEADLOCK FALSE
SYMMETRY Symmetry
SPECIFICATION Spec
CONSTANTS
  Clients = {c1, c2}
  NoPlayer = NoPlayer
  USER_COUNT = 2
  LAST_QUEST = 2
  Answers = {0, 1}
  RightAnswers = {1}
  LeaveModes = {"fin"}
  UNASKED = 0
PROPERTY
  CreditBacked
