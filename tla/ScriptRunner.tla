----------------------------- MODULE ScriptRunner -----------------------------
(***************************************************************************)
(* What a console session promises to the shell it is connected to: the    *)
(* lines of the script, in order and each once, and never more lines than  *)
(* there have been prompts.  The promise ends when two reads overlap.      *)
(***************************************************************************)
EXTENDS Naturals, Sequences

CONSTANT Script    \* the number of lines

VARIABLES
  prompts,   \* how many prompts the shell has printed
  log,       \* the lines that the shell has been sent
  raced      \* have reads overlapped?

Init == prompts = 0 /\ log = <<>> /\ raced = FALSE

Prompt ==
  /\ prompts' = prompts + 1
  /\ UNCHANGED <<log, raced>>

NextLine ==
  /\ Len(log) < prompts
  /\ Len(log) < Script
  /\ log' = Append(log, Len(log) + 1)
  /\ UNCHANGED <<prompts, raced>>

Overlap ==
  /\ raced' = TRUE
  /\ UNCHANGED <<prompts, log>>

AnyLine ==
  /\ raced
  /\ \E n \in 1..Script : log' = Append(log, n)
  /\ UNCHANGED <<prompts, raced>>

Next == Prompt \/ NextLine \/ Overlap \/ AnyLine

Spec == Init /\ [][Next]_<<prompts, log, raced>>
=============================================================================
