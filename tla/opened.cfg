\* Two senders to one receiver, against the comment on user_pipe_from.
CONSTANTS
  p1 = p1
  p2 = p2
  p3 = p3
  NoProc = NoProc
  Proc = {p1, p2, p3}
  N = 3
  Names = {"alice"}
  Commands = {}
  MaxCommands = 1
  Typists = {p1, p2}
  Leavers = {}
  Froms <- NotTyped
  Tos = {3}
  Slack = 1
SPECIFICATION PipesSpec
INVARIANT Opened
CHECK_DEADLOCK FALSE
