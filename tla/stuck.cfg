\* The ways in which the semaphore is held for ever.
CONSTANTS
  p1 = p1
  p2 = p2
  NoProc = NoProc
  Proc = {p1, p2}
  N = 2
  Names = {"alice"}
  Commands = {}
  MaxCommands = 1
  Typists = {p1, p2}
  Leavers = {}
  Froms = {1}
  Tos <- SomeTo
  Slack = 1
SPECIFICATION PipesFairSpec
PROPERTY SemaphoreComesBack
CHECK_DEADLOCK FALSE
