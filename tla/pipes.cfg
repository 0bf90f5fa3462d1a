\* Pipes to the other session, from it, and to and from oneself, one of them
\* used again, and numbers beyond the table; an entry that no session has can
\* come into use.
CONSTANTS
  p1 = p1
  p2 = p2
  NoProc = NoProc
  Proc = {p1, p2}
  N = 3
  Names = {"alice"}
  Commands = {}
  MaxCommands = 2
  Typists = {p1, p2}
  Leavers = {}
  Froms <- SomeFrom
  Tos <- SomeTo
  Slack = 1
SPECIFICATION PipesSpec
SYMMETRY Sessions
INVARIANTS PipesTypeOK PipeExclusion MarkHasSender PathHasCommand
PROPERTY DamageBeyond
ACTION_CONSTRAINT FewCommands
CHECK_DEADLOCK FALSE
