\* Three clients for two ids, three lines: who leaves what behind.
CONSTANTS
  c1 = c1
  c2 = c2
  c3 = c3
  Clients = {c1, c2, c3}
  N = 2
  Names = {"alice"}
  Commands = {"who", "name", "tell", "yell", "exit", "exec"}
  Froms = {0, 1, 3}
  Tos = {0, 1, 2, 3}
  MaxLines = 3
SPECIFICATION SingleSpec
SYMMETRY Alike
INVARIANTS SingleTypeOK IdsAccounted PipesOfPresent OwnDescriptors NoLeak
PROPERTIES ImplementsClientTable
CHECK_DEADLOCK FALSE
