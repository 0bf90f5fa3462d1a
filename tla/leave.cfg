\* Clients that leave in the middle of everything: the semaphore, and logouts.
CONSTANTS
  p1 = p1
  p2 = p2
  NoProc = NoProc
  Proc = {p1, p2}
  N = 2
  Names = {"alice"}
  Commands = {"exit"}
  MaxCommands = 1
  Typists = {p1}
  Leavers = {p2}
SPECIFICATION FairSpec
PROPERTY ExitCompletes
CHECK_DEADLOCK FALSE
