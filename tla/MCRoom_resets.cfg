\* The room exits after a shutdown and the process may be killed.
CHECK_DEADLOCK FALSE
SYMMETRY Symmetry
SPECIFICATION Spec
CONSTANTS
  Clients = {c1, c2, c3}
  NoPlayer = NoPlayer
  USER_COUNT = 3
  LAST_QUEST = 2
  Answers = {0, 1}
  RightAnswers = {0, 1}
  LeaveModes = {"rst"}
  UNASKED = 0
PROPERTIES
  CreditBacked
  GameSurvivesResets
  PromiseKept
