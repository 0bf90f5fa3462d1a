----------------------------- MODULE NumberedPipes -----------------------------
(***************************************************************************)
(* The shell with numbered pipes of projects 1 and 2 (simple) and the      *)
(* commands that it runs.  `cmd |k` pipes to the k-th command after cmd.   *)
(*                                                                         *)
(* A ring of NUMPIPE_SIZE slots holds the pipes whose reader is still to   *)
(* come.  The shell makes a pipe for its first writer, forks writers and   *)
(* readers, and drops its own two descriptors once the reader is forked.   *)
(* Every child inherits every pipe of the ring.                            *)
(*                                                                         *)
(* Commands are numbered as they are typed; a pipe has the number of the   *)
(* command it was made for.  CommamdCount is Len(cmds) % NUMPIPE_SIZE and  *)
(* Command_que is cmds from index front.                                   *)
(***************************************************************************)
EXTENDS Integers, Sequences, FiniteSets

CONSTANTS
  NUMPIPE_SIZE,
  Lines,        \* what a line of input can be: sequences of typed commands
  MaxCommands,  \* bound on the commands typed
  Capacity,     \* what a pipe holds, in pieces of output
  MaxProcesses, \* children that fork allows
  MaxPipes      \* pipes that the shell's descriptor limit allows

ASSUME SizesAssumption ==
  /\ NUMPIPE_SIZE \in Nat \ {0} /\ MaxCommands \in Nat
  /\ Capacity \in Nat /\ MaxProcesses \in Nat /\ MaxPipes \in Nat

NoPipe == -1      \* of command.pip_num

\* What the user types and what the program does with it: whether it reads its
\* input to the end, and how many pieces it writes.  k is the number after | or !.
\* A negative number that SetPipeNum takes to the slot of an earlier command (or to
\* the own one) is a natural one by its remainder, and one that it takes to -1 is
\* NoPipe.  Others, which are indices below the ring or overflow, are left out.
TypedCommand ==
  [options: {"SetEnv", "PrintEnv", "EXIT", "EXEC"}, k: Nat \cup {NoPipe},
   isExclamationmark: BOOLEAN, redirect: BOOLEAN, reads: BOOLEAN, output: Nat]

ASSUME LinesAssumption == Lines \subseteq Seq(TypedCommand)

VARIABLES
  cmds,        \* the commands typed so far
  front,       \* the front of Command_que, as an index of cmds
  shell,       \* where main stands
  Needtowait,
  lastpid,     \* the command that ran last; 0 for the uninitialised pid
  Number_pipe, \* slot -> the pipe it holds (ispiped), or 0
  bytes,       \* pipe -> pieces in it
  proc         \* command -> the child that runs it

vars == <<cmds, front, shell, Needtowait, lastpid, Number_pipe, bytes, proc>>
shellvars == <<cmds, front, shell, Needtowait, lastpid, Number_pipe>>

Ids == 1..MaxCommands
Slots == 0..(NUMPIPE_SIZE - 1)
Alive == {"forked", "running"}

\* The child of a command: the pipes whose two ends it holds by inheritance, and
\* the pipes that are its input and its output (0: the terminal or a file).
Child ==
  [state: {"none", "forked", "running", "zombie", "reaped"}, holds: SUBSET Ids,
   in: 0..MaxCommands, out: 0..MaxCommands, written: Nat]
NoChild == [state |-> "none", holds |-> {}, in |-> 0, out |-> 0, written |-> 0]

cmd_cnt(c) == c % NUMPIPE_SIZE
\* Mutant: `|k` lands one slot short.
pip_numShort(c) == (cmds[c].k + c - 1) % NUMPIPE_SIZE
pip_num(c) == (cmds[c].k + c) % NUMPIPE_SIZE
PipesTo(c) == IF cmds[c].k = NoPipe THEN 0 ELSE Number_pipe[pip_num(c)]
OpenPipes == {Number_pipe[i] : i \in Slots} \ {0}

HasWriteEnd(c, p) ==
  proc[c].state \in Alive /\ p \in (proc[c].holds \cup {proc[c].out}) \ {0}
HasReadEnd(c, p) ==
  proc[c].state \in Alive /\ p \in (proc[c].holds \cup {proc[c].in}) \ {0}

EndOfFile(p) ==
  bytes[p] = 0 /\ p \notin OpenPipes /\ \A d \in Ids : ~HasWriteEnd(d, p)
Broken(p) == p \notin OpenPipes /\ \A d \in Ids : ~HasReadEnd(d, p)

NumInit ==
  /\ cmds = <<>> /\ front = 1
  /\ shell = "prompt" /\ Needtowait = FALSE /\ lastpid = 0
  /\ Number_pipe = [i \in Slots |-> 0]
  /\ bytes = [p \in Ids |-> 0]
  /\ proc = [c \in Ids |-> NoChild]
-----------------------------------------------------------------------------
(* The shell.                                                              *)

\* isExclamationmark is not initialised: without ! it is anything.  Where output is
\* not redirected to a file it does not change which descriptors a child holds.
ReadLine ==
  /\ shell = "prompt"
  /\ \E line \in Lines :
       /\ Len(cmds) + Len(line) <= MaxCommands
       /\ \E garbage \in SUBSET {i \in DOMAIN line : line[i].redirect} :
            cmds' = cmds \o [i \in DOMAIN line |->
              [line[i] EXCEPT !.isExclamationmark = @ \/ i \in garbage]]
  /\ shell' = "next"
  /\ UNCHANGED <<front, Needtowait, lastpid, Number_pipe, bytes, proc>>

\* The process ends: its descriptors are closed, its children live on.
ShellEnds ==
  /\ shell' = "exited"
  /\ Number_pipe' = [i \in Slots |-> 0]
  /\ UNCHANGED <<cmds, front, Needtowait, lastpid, bytes, proc>>

\* The input ends; or the line has a word after the bar that stoi refuses, before
\* any command of it runs, and nobody catches what it throws.
EndOfInput == shell = "prompt" /\ ShellEnds

Pending(options) ==
  shell = "next" /\ front <= Len(cmds) /\ cmds[front].options \in options

\* The end of the loop's body.
\* Mutant: the queue is popped in the case of setenv as well.
PopCommandTwice ==
  /\ Needtowait' = (cmds[front].k = NoPipe)
  /\ front' = front + 2
  /\ shell' = "next"

\* Mutant: Needtowait is set the other way round.
PopCommandReversed ==
  /\ Needtowait' = (cmds[front].k # NoPipe)
  /\ front' = front + 1
  /\ shell' = "next"

PopCommand ==
  /\ Needtowait' = (cmds[front].k = NoPipe)
  /\ front' = front + 1
  /\ shell' = "next"

\* setenv and printenv take a number and leave the pipe of their slot alone.
Builtin ==
  /\ Pending({"SetEnv", "PrintEnv"})
  /\ PopCommand
  /\ UNCHANGED <<cmds, lastpid, Number_pipe, bytes, proc>>

\* printenv makes a string of what getenv returns, which may be NULL.
PrintUnset == Pending({"PrintEnv"}) /\ ShellEnds

Exit == Pending({"EXIT"}) /\ ShellEnds

MakePipe ==
  /\ Pending({"EXEC"})
  /\ shell' = "fork"
  /\ IF cmds[front].k # NoPipe /\ PipesTo(front) = 0
     THEN /\ Cardinality(OpenPipes) < MaxPipes
          /\ Number_pipe' = [Number_pipe EXCEPT ![pip_num(front)] = front]
     ELSE UNCHANGED Number_pipe
  /\ UNCHANGED <<cmds, front, Needtowait, lastpid, bytes, proc>>

PipeFails ==
  /\ Pending({"EXEC"}) /\ cmds[front].k # NoPipe /\ PipesTo(front) = 0
  /\ Cardinality(OpenPipes) >= MaxPipes
  /\ ShellEnds

\* fork is tried until it succeeds.  The child has a copy of the ring.
Fork ==
  /\ shell = "fork"
  /\ Cardinality({c \in Ids : proc[c].state \in Alive \cup {"zombie"}}) < MaxProcesses
  /\ proc' = [proc EXCEPT ![front] =
       [state |-> "forked", holds |-> OpenPipes, in |-> Number_pipe[cmd_cnt(front)],
        out |-> PipesTo(front), written |-> 0]]
  /\ lastpid' = front
  /\ shell' = "parent"
  /\ UNCHANGED <<cmds, front, Needtowait, Number_pipe, bytes>>

\* Mutant: the shell also drops the pipe it has just given to a writer.
CloseInputAndOutput ==
  /\ shell = "parent"
  /\ Number_pipe' = [i \in Slots |->
       IF i = cmd_cnt(front) \/ (cmds[front].k # NoPipe /\ i = pip_num(front))
       THEN 0 ELSE Number_pipe[i]]
  /\ PopCommand
  /\ UNCHANGED <<cmds, lastpid, bytes, proc>>

CloseInput ==
  /\ shell = "parent"
  /\ Number_pipe' = [Number_pipe EXCEPT ![cmd_cnt(front)] = 0]
  /\ PopCommand
  /\ UNCHANGED <<cmds, lastpid, bytes, proc>>

LineDone ==
  /\ shell = "next" /\ front > Len(cmds)
  /\ shell' = IF Needtowait THEN "wait" ELSE "prompt"
  /\ UNCHANGED <<cmds, front, Needtowait, lastpid, Number_pipe, bytes, proc>>

\* waitpid fails at once if the child is unknown, or was reaped by the handler;
\* interrupted by the handler it starts again.
WaitLast ==
  /\ shell = "wait"
  /\ lastpid # 0 => proc[lastpid].state \notin Alive
  /\ shell' = "prompt"
  /\ proc' = IF lastpid = 0 THEN proc
             ELSE [proc EXCEPT ![lastpid].state = "reaped"]
  /\ UNCHANGED <<cmds, front, Needtowait, lastpid, Number_pipe, bytes>>

\* The handler of SIGCHLD, whatever main is doing.
ChildHandler ==
  /\ shell # "exited"
  /\ \E c \in Ids : proc[c].state = "zombie"
  /\ proc' = [c \in Ids |-> IF proc[c].state = "zombie"
                            THEN [proc[c] EXCEPT !.state = "reaped"] ELSE proc[c]]
  /\ UNCHANGED <<shellvars, bytes>>
-----------------------------------------------------------------------------
(* The children.                                                           *)

\* A child ends and all its descriptors are closed.
End(c) ==
  /\ proc' = [proc EXCEPT ![c].state = "zombie", ![c].holds = {}]
  /\ UNCHANGED <<shellvars, bytes>>

KeepsOutput(c) ==
  /\ proc[c].out # proc[c].in
  /\ ~cmds[c].redirect \/ cmds[c].isExclamationmark

\* Mutant: the child keeps the write end of its own input.
RedirectOpen(c) ==
  /\ proc[c].state = "forked"
  /\ proc' = [proc EXCEPT ![c].state = "running",
       ![c].out = IF KeepsOutput(c) THEN @ ELSE 0]
  /\ UNCHANGED <<shellvars, bytes>>

\* The child between fork and exec.  It turns its two pipes into its input and
\* output and closes their other ends, which comes too late for a pipe to itself.
\* The loop that should close the rest of the ring has no iterations.
\* A standard error that the garbage mark sends elsewhere is one of the
\* descriptors it holds anyway.
Redirect(c) ==
  /\ proc[c].state = "forked"
  /\ proc' = [proc EXCEPT ![c].state = "running",
       ![c].holds = @ \ {proc[c].in, proc[c].out},
       ![c].out = IF KeepsOutput(c) THEN @ ELSE 0]
  /\ UNCHANGED <<shellvars, bytes>>

\* execvp fails, or the program stops early.
Quit(c) == proc[c].state = "running" /\ End(c)

Writes(c) ==
  proc[c].state = "running" /\ proc[c].out # 0 /\ proc[c].written < cmds[c].output

Write(c) ==
  /\ Writes(c) /\ bytes[proc[c].out] < Capacity /\ ~Broken(proc[c].out)
  /\ bytes' = [bytes EXCEPT ![proc[c].out] = @ + 1]
  /\ proc' = [proc EXCEPT ![c].written = @ + 1]
  /\ UNCHANGED shellvars

SigPipe(c) == Writes(c) /\ Broken(proc[c].out) /\ End(c)

Read(c) ==
  /\ proc[c].state = "running" /\ proc[c].in # 0 /\ cmds[c].reads
  /\ bytes[proc[c].in] > 0
  /\ bytes' = [bytes EXCEPT ![proc[c].in] = @ - 1]
  /\ UNCHANGED <<shellvars, proc>>

Finish(c) ==
  /\ proc[c].state = "running" /\ ~Writes(c)
  /\ cmds[c].reads /\ proc[c].in # 0 => EndOfFile(proc[c].in)
  /\ End(c)
-----------------------------------------------------------------------------
ShellStep ==
  \/ Builtin \/ MakePipe \/ PipeFails \/ Fork \/ CloseInput \/ Exit
  \/ LineDone \/ WaitLast
ChildStep(c) == Redirect(c) \/ Write(c) \/ SigPipe(c) \/ Read(c) \/ Finish(c)

NumNext ==
  \/ ReadLine \/ EndOfInput \/ PrintUnset \/ ShellStep \/ ChildHandler
  \/ \E c \in Ids : ChildStep(c) \/ Quit(c)

NumSpec == NumInit /\ [][NumNext]_vars

\* The system runs the shell and its children; programs do not stop by themselves
\* before they have read and written everything, and users may stop typing.
NumFairSpec ==
  /\ NumSpec
  /\ WF_vars(ShellStep) /\ WF_vars(ChildHandler)
  /\ \A c \in Ids : WF_vars(ChildStep(c))
-----------------------------------------------------------------------------
(* Properties.                                                             *)

NumTypeOK ==
  /\ cmds \in Seq(TypedCommand) /\ Len(cmds) <= MaxCommands
  /\ front \in 1..(Len(cmds) + 1)
  /\ shell \in {"prompt", "next", "fork", "parent", "wait", "exited"}
  /\ Needtowait \in BOOLEAN
  /\ lastpid \in 0..MaxCommands
  /\ Number_pipe \in [Slots -> 0..MaxCommands]
  /\ bytes \in [Ids -> 0..Capacity]
  /\ proc \in [Ids -> Child]

\* A command reads exactly the pipe that was addressed to it: w's pipe goes to the
\* first command from w on that takes the slot, which is the k-th after w unless k
\* exceeds the ring or that one is a builtin (SetPipeNum and the slots of the ring).
TakesSlotOf(c, w) ==
  cmds[c].options = "EXEC" /\ (c - w - cmds[w].k) % NUMPIPE_SIZE = 0

InputAddressed ==
  \A w, c \in Ids :
    /\ proc[w].state # "none" /\ proc[c].state # "none" /\ proc[w].out # 0
    => (proc[c].in = proc[w].out <=>
          /\ w <= c /\ TakesSlotOf(c, w)
          /\ \A d \in w..(c - 1) : ~TakesSlotOf(d, w))

\* The end of file of a command's input depends on earlier commands only: neither the
\* shell, nor itself, nor a later command keeps the write end (the closes of
\* ExecuteCommand in parent and child).  So commands never wait in a circle.
WaitsBackwards ==
  \A c \in Ids : proc[c].in # 0 =>
    /\ proc[c].in \in OpenPipes => shell = "parent" /\ front = c
    /\ \A d \in Ids : HasWriteEnd(d, proc[c].in) =>
         d < c \/ (d = c /\ proc[c].state = "forked")

\* A command is killed by SIGPIPE only when the command that read its pipe has ended,
\* or the shell: the ring keeps a pipe alive until its reader exists.
NoEarlySigPipe ==
  \A c \in Ids : Writes(c) /\ Broken(proc[c].out) =>
    \/ shell = "exited"
    \/ \E d \in Ids : proc[d].in = proc[c].out /\ proc[d].state \in {"zombie", "reaped"}

\* The prompt comes after the end of the last command of the line, if that does not
\* write to a pipe, although the handler may have reaped it (Needtowait, waitpid).
PromptAfterLast ==
  shell = "prompt" /\ Len(cmds) > 0 =>
    LET c == Len(cmds) IN
    cmds[c].options = "EXEC" /\ cmds[c].k = NoPipe => proc[c].state \notin Alive

\* The shell hangs only on a command that fills a pipe whose reader was not typed yet.
\* That happens: a command forked in between holds the pipe of the one waited for, and
\* a builtin at the end of a line waits for the last child of all.
Stalled(d) ==
  Writes(d) /\ proc[d].out \in OpenPipes /\ bytes[proc[d].out] = Capacity

HangsOnPending ==
  <>[](shell \notin {"prompt", "exited"}) => <>[](\E d \in Ids : Stalled(d))
================================================================================
