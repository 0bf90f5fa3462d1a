------------------------------ MODULE RemoteShell ------------------------------
(***************************************************************************)
(* The shell at the other end of a console session, and the bytes on their *)
(* way from it.  A session sees a prompt where it reads "% ": the shell    *)
(* prints one when it is ready for a line, and a command may print the     *)
(* same two characters.                                                    *)
(***************************************************************************)
EXTENDS Naturals, Sequences

CONSTANTS
  Script,    \* the number of lines that the session has for the shell
  Texts,     \* what commands write: "text", and "prompt" if it has "% " in it
  MaxText    \* bound: how often they write

ASSUME ScriptAssumption == Script \in Nat /\ MaxText \in Nat
ASSUME TextsAssumption == Texts \subseteq {"text", "prompt"}

VARIABLES
  wire,      \* printed and not yet read by the session
  log,       \* the lines sent by the session
  taken,     \* how many of them the shell has read
  remote,    \* the shell: "runs", "waits" for a line, "closed"
  prompts,   \* how many "% " it has printed
  printed    \* how often commands have written

shell == <<wire, log, taken, remote, prompts, printed>>

PromptText == <<"percent", "space">>

HasPrompt(s) == \E i \in 1..(Len(s) - 1) : SubSeq(s, i, i + 1) = PromptText

ShellInit ==
  /\ wire = <<>>
  /\ log = <<>>
  /\ taken = 0
  /\ remote = "runs"
  /\ prompts = 0
  /\ printed = 0

\* A command, or a broadcast of the chat server, writes.
Write ==
  /\ remote # "closed"
  /\ printed < MaxText
  /\ printed' = printed + 1
  /\ \E t \in Texts :
       /\ wire' = wire \o (IF t = "text" THEN <<"text">> ELSE PromptText)
       /\ prompts' = IF t = "text" THEN prompts ELSE prompts + 1
  /\ UNCHANGED <<log, taken, remote>>

IssuePrompt ==
  /\ remote = "runs"
  /\ remote' = "waits"
  /\ wire' = wire \o PromptText
  /\ prompts' = prompts + 1
  /\ UNCHANGED <<log, taken, printed>>

\* The shell reads the next line, which may make it leave.
TakeLine ==
  /\ remote = "waits"
  /\ taken < Len(log)
  /\ taken' = taken + 1
  /\ remote' \in {"runs", "closed"}
  /\ UNCHANGED <<wire, log, prompts, printed>>

ShellNext == Write \/ IssuePrompt \/ TakeLine
=============================================================================
