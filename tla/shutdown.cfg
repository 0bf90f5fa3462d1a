\* The master is told to end while sessions log in, broadcast, look and wait.
CONSTANTS
  p1 = p1
  p2 = p2
  NoProc = NoProc
  Proc = {p1, p2}
  N = 2
  Names = {"alice"}
  Commands = {"who"}
  MaxCommands = 1
  Typists = {p2}
  Leavers = {}
SPECIFICATION ShutSpec
INVARIANT RemovalExcludes
PROPERTY ShutdownCompletes
CHECK_DEADLOCK FALSE
