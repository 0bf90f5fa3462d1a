\* Two sessions and every command: the table and the nicknames in it.
CONSTANTS
  p1 = p1
  p2 = p2
  NoProc = NoProc
  Proc = {p1, p2}
  N = 2
  Names = {"alice"}
  Commands = {"who", "name", "tell", "yell", "exit"}
  MaxCommands = 1
  Typists = {p1, p2}
  Leavers = {}
SPECIFICATION Spec
SYMMETRY Sessions
INVARIANTS TypeOK UniqueNames NoLostWakeup
PROPERTY ImplementsTable
CHECK_DEADLOCK FALSE
