\* Three lines; output with and without "% " in it.
CONSTANTS
  Script = 3
  Texts = {"text", "prompt"}
  MaxText = 2
  MAX_LENGTH = 3
SPECIFICATION ConsoleFairSpec
INVARIANTS Operations
PROPERTIES ImplementsScript ScriptEnds
CHECK_DEADLOCK FALSE
