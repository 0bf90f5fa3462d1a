\* Three sessions, two slots: who gets a slot, and when it is free again.
CONSTANTS
  p1 = p1
  p2 = p2
  p3 = p3
  NoProc = NoProc
  Proc = {p1, p2, p3}
  N = 2
  Names = {"alice"}
  Commands = {"exit"}
  MaxCommands = 1
  Typists = {p1}
  Leavers = {p1}
SPECIFICATION Spec
SYMMETRY Sessions
INVARIANTS SemaphoreInv SlotExclusive
CHECK_DEADLOCK FALSE
