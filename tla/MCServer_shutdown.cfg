\* A server that is down may stay so, and a room may wait for ever for joins.
CHECK_DEADLOCK FALSE
SPECIFICATION FairSpec
CONSTANTS
  Fds = {f1, f2}
  NoFd = NoFd
  Workers = {w1}
  Rooms = {r1}
  USER_COUNT = 2
  QUEUE_BYTES = 7
  Garbage <- AnyPacket
  LeaveModes = {"fin", "rst"}
  Endings = {"handled", "abrupt"}
PROPERTY
  ShutdownCompletes
