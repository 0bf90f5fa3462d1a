\* Three commands on a ring of three: a command can come between the writer and the
\* reader of a pipe, |4 goes round the ring, |3 is a pipe to oneself, and after a
\* builtin the third command meets a slot that the first has left full.
CONSTANTS
  NUMPIPE_SIZE = 3
  Lines <- MCLines
  MaxCommands = 3
  Capacity = 1
  MaxProcesses = 2
  MaxPipes = 2
  Producers = {1, 2, 3}
  Filters <- PlainAndFour
  Builtins = {"SetEnv", "PrintEnv", "EXIT"}
SPECIFICATION NumFairSpec
INVARIANTS NumTypeOK WaitsBackwards NoEarlySigPipe PromptAfterLast InputAddressed
PROPERTY HangsOnPending
CHECK_DEADLOCK FALSE
