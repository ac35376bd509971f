\* A server that is down may stay so, and a room may wait for ever for joins.
CHECK_DEADLOCK FALSE
SPECIFICATION Spec
SYMMETRY Symmetry
CONSTANTS
  Fds = {f1, f2, f3}
  NoFd = NoFd
  Workers = {w1, w2}
  Rooms = {r1}
  USER_COUNT = 3
  QUEUE_BYTES = 8
  Garbage <- OldPacket
  LeaveModes = {"fin"}
  Endings = {"handled"}
INVARIANTS
  TypeOK
  OneHolder
  NoForgottenClient
  RoomFilled
  CreateHonoured
  RequestsAreReal
  ArgsAlive
PROPERTY
  NoQueueLeft
