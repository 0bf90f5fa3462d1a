------------------------------- MODULE UserPipes -------------------------------
(***************************************************************************)
(* External commands of the multi-process server, `cmd <f >t`: the command *)
(* reads the user pipe from client f and writes the one to client t.       *)
(*                                                                         *)
(* The sender marks the receiver's entry, makes a FIFO and sends SIGUSR2;  *)
(* the receiver's handler opens the FIFO for reading while the sender      *)
(* opens it for writing, and each open waits for the other.  The command   *)
(* itself is a child that takes the read end over and resets the entry.    *)
(* A number beyond the table is refused by nobody: the checks are skipped, *)
(* and what the child resets lies in the entries that follow.              *)
(* The semaphore, the frames, the signals and Broadcast are MultiServer's; *)
(* here the sessions have logged in and nobody leaves.                     *)
(***************************************************************************)
EXTENDS MultiServer

CONSTANTS
  Froms, Tos,   \* the arguments of < and > that clients type; -1: not given
  Slack         \* words of the last page of shared memory behind the table

ASSUME ArgumentsAssumption == Froms \cup Tos \subseteq Int
ASSUME SlackAssumption == Slack \in Nat

VARIABLES
  user_pipe_from, \* [receiver][sender]: "nothing" (-1), "marked" (1), "opened" (0)
  fd_table,       \* [receiver][sender]: does it hold a descriptor (not -1)?
  fifo,           \* the paths <<sender, receiver>> that exist under user_pipe
  cmd,            \* per process: the command in execution
  target,         \* per process: the pid read while marking the receiver
  child,          \* per process: where the child of the command stands
  slot,           \* per process: the userid it logged in with, its children's
  torn            \* the entries whose `used` is neither 0 nor 1

pipes == <<user_pipe_from, fd_table, fifo>>
entries == <<slot, torn>>
command == <<cmd, target, child, entries>>
pvars == <<vars, pipes, command>>

Marks == {"nothing", "marked", "opened"}
NotGiven == -1

\* A pid of -1, to which kill sends to every process that it may.
Everybody == -1

PipeClient == [used : BOOLEAN, pid : Proc \cup {NoProc, Everybody},
               name : Names \cup {DefaultName, NoName}, msg : BOOLEAN]

\* struct Client in words, those that nothing here depends on (id, port and
\* addr; the rest of msg and name) being one: used, pid, id, msg, name, and
\* the rows user_pipe_from and fd_table with their unused column 0.
EntrySize == 2 * N + 7
TableEnd == (N + 1) * EntrySize + Slack
Used(i) == i * EntrySize
Pid(i) == Used(i) + 1
Msg(i) == Used(i) + 3
Mark(i, j) == Used(i) + 5 + j
Fd(i, j) == Used(i) + 6 + N + j

\* A session is a process; its slot is userid[p].
PipesInit ==
  /\ userid \in [Proc -> Slots]
  /\ \A p, q \in Proc : p # q => userid[p] # userid[q]
  /\ clientset = [i \in Slots |->
       IF \E p \in Proc : userid[p] = i
       THEN [used |-> TRUE, pid |-> CHOOSE p \in Proc : userid[p] = i,
             name |-> DefaultName, msg |-> FALSE]
       ELSE EmptyClient]
  /\ semval = 1
  /\ semadj = [p \in Proc |-> 0]
  /\ sec = [p \in Proc |-> "prompt"]
  /\ at = [p \in Proc |-> [Quiet EXCEPT !["main"] = "go"]]
  /\ run = [p \in Proc |-> "main"]
  /\ saved = [p \in Proc |-> NotSaved]
  /\ pend = [p \in Proc |-> {}]
  /\ idx = [p \in Proc |-> 1]
  /\ ret = [p \in Proc |-> "prompt"]
  /\ arg = [p \in Proc |-> DefaultName]
  /\ gone = [p \in Proc |-> FALSE]
  /\ cineof = [p \in Proc |-> FALSE]
  /\ typed = [p \in Proc |-> 0]
  /\ stray = {}
  /\ user_pipe_from = [i \in Slots |-> [j \in Slots |-> "nothing"]]
  /\ fd_table = [i \in Slots |-> [j \in Slots |-> FALSE]]
  /\ fifo = {}
  /\ cmd = [p \in Proc |-> [from |-> NotGiven, to |-> NotGiven,
                            pipe_from |-> TRUE, pipe_to |-> TRUE]]
  /\ target = [p \in Proc |-> NoProc]
  /\ child = [p \in Proc |-> "none"]
  /\ slot = userid
  /\ torn = {}
-----------------------------------------------------------------------------
(* ExecuteCommand in the session.                                          *)

At(p, s, a) == Runs(p, "main", a) /\ sec[p] = s

\* Where ExecuteCommand goes after the part on user_pipe_from.
AfterFrom(p) == IF cmd[p].to \in Slots THEN "To" ELSE "fork"

\* The two words that the child of `<n` resets: whatever n > 0 is, counted
\* from the rows of its own entry.
Written(p) == {Mark(slot[p], cmd[p].from), Fd(slot[p], cmd[p].from)}

\* fd_table[n] lies behind the shared memory.
Faults(p) == Fd(slot[p], cmd[p].from) >= TableEnd

\* The next line; one that cin already holds is read although the parent's
\* close has ended the input (cineof) behind it.
ReadPipeCommand(p) ==
  /\ At(p, "prompt", "go")
  /\ p \in Typists /\ typed[p] < MaxCommands
  /\ typed' = [typed EXCEPT ![p] = @ + 1]
  /\ \E f \in Froms, t \in Tos :
       /\ cmd' = [cmd EXCEPT ![p] = [from |-> f, to |-> t,
                                     pipe_from |-> TRUE, pipe_to |-> TRUE]]
       /\ LET s == IF f \in Slots THEN "From"
                   ELSE IF t \in Slots THEN "To" ELSE "fork"
          IN /\ sec' = [sec EXCEPT ![p] = s]
             /\ at' = [at EXCEPT ![p]["main"] = Entry(s)]
  /\ UNCHANGED <<kernel, clientset, userid, control, locals, gone, cineof,
                 stray, pipes, target, child, entries>>

\* What follows < or > is no number, or too long for one: stoi throws, nobody
\* catches it, and the session ends without a Logout.
NumberThrows(p) ==
  /\ At(p, "prompt", "go")
  /\ p \in Typists /\ typed[p] < MaxCommands
  /\ End(p)
  /\ UNCHANGED <<clientset, pipes, command>>

\* The three tests of `<f`.  None of them applies to a pipe that is marked and
\* not opened yet: the code goes on and keeps the semaphore.  Where `used` is
\* -1, `!used` is undefined; the build without optimisation finds it true.
FromTest(p) ==
  /\ At(p, "From", "test")
  /\ LET mark == user_pipe_from[userid[p]][cmd[p].from]
         used == clientset[cmd[p].from].used
     IN \/ /\ used /\ mark = "opened"
           /\ ret' = [ret EXCEPT ![p] = AfterFrom(p)]
           /\ idx' = [idx EXCEPT ![p] = 1]
           /\ Leave(p, "Broadcast")
           /\ UNCHANGED cmd
        \/ /\ \/ ~used \/ mark = "nothing"
              \/ mark = "marked" /\ cmd[p].from \in torn
           /\ cmd' = [cmd EXCEPT ![p].pipe_from = FALSE]
           /\ Leave(p, AfterFrom(p))
           /\ UNCHANGED <<ret, idx>>
        \/ /\ used /\ mark = "marked"
           /\ sec' = [sec EXCEPT ![p] = AfterFrom(p)]
           /\ at' = [at EXCEPT ![p]["main"] = Entry(AfterFrom(p))]
           /\ UNCHANGED <<ret, idx, cmd>>
  /\ UNCHANGED <<kernel, clientset, userid, control, arg, input, stray, pipes,
                 target, child, entries>>

\* Mutant: the test takes 0, an open pipe, for none (`<= 0`).
ToTestAgain(p) ==
  /\ At(p, "To", "test")
  /\ LET t == cmd[p].to
         free == clientset[t].used /\ user_pipe_from[t][userid[p]] # "marked"
     IN \/ /\ free
           /\ user_pipe_from' = [user_pipe_from EXCEPT ![t][userid[p]] = "marked"]
           /\ target' = [target EXCEPT ![p] = clientset[t].pid]
           /\ Leave(p, "mkfifo")
           /\ UNCHANGED cmd
        \/ /\ ~free
           /\ cmd' = [cmd EXCEPT ![p].pipe_to = FALSE]
           /\ Leave(p, "fork")
           /\ UNCHANGED <<user_pipe_from, target>>
  /\ UNCHANGED <<kernel, clientset, userid, control, locals, input, stray,
                 fd_table, fifo, child, entries>>

\* `>t`: the receiver's entry is marked, unless a pipe is there already.
ToTest(p) ==
  /\ At(p, "To", "test")
  /\ LET t == cmd[p].to
         free == clientset[t].used /\ user_pipe_from[t][userid[p]] = "nothing"
     IN \/ /\ free
           /\ user_pipe_from' = [user_pipe_from EXCEPT ![t][userid[p]] = "marked"]
           /\ target' = [target EXCEPT ![p] = clientset[t].pid]
           /\ Leave(p, "mkfifo")
           /\ UNCHANGED cmd
        \/ /\ ~free
           /\ cmd' = [cmd EXCEPT ![p].pipe_to = FALSE]
           /\ Leave(p, "fork")
           /\ UNCHANGED <<user_pipe_from, target>>
  /\ UNCHANGED <<kernel, clientset, userid, control, locals, input, stray,
                 fd_table, fifo, child, entries>>

\* mkfifo, which fails quietly if the path exists.
MakeFifo(p) ==
  /\ At(p, "mkfifo", "go")
  /\ fifo' = fifo \cup {<<userid[p], cmd[p].to>>}
  /\ sec' = [sec EXCEPT ![p] = "usr2"]
  /\ UNCHANGED <<kernel, clientset, userid, at, control, locals, input, stray,
                 user_pipe_from, fd_table, command>>

\* Mutant: the open of the sender does not wait for the reader.
KillPipeNoWait(p) ==
  /\ At(p, "usr2", "go")
  /\ Signal(p, {q \in Proc : Live(q) /\ q = target[p]} \ {p}, "USR2")
  /\ sec' = [sec EXCEPT ![p] = "fork"]
  /\ UNCHANGED <<kernel, clientset, userid, at, locals, input, stray, pipes,
                 command>>

\* kill(target, SIGUSR2), and on to open, which waits for OpenPipe.
KillPipe(p) ==
  /\ At(p, "usr2", "go")
  /\ target[p] \in Proc
  /\ LET T == {q \in Proc : Live(q) /\ q = target[p]}
     IN /\ Signal(p, T, "USR2")
        /\ at' = [at EXCEPT ![p]["USR2"] = IF p \in T THEN "P" ELSE @]
  /\ sec' = [sec EXCEPT ![p] = "open"]
  /\ UNCHANGED <<kernel, clientset, userid, locals, input, stray, pipes, command>>

\* Mutant: the child resets the entry without Semaphore_P.
ForkUnlocked(p) ==
  /\ At(p, "fork", "go")
  /\ child' = [child EXCEPT ![p] = IF cmd[p].from > 0 THEN "input" ELSE "output"]
  /\ sec' = [sec EXCEPT ![p] = "Close"]
  /\ at' = [at EXCEPT ![p]["main"] = "P"]
  /\ UNCHANGED <<kernel, clientset, userid, control, locals, input, stray, pipes,
                 cmd, target, entries>>

ForkCommand(p) ==
  /\ At(p, "fork", "go")
  /\ child' = [child EXCEPT ![p] = IF cmd[p].from > 0 THEN "P" ELSE "output"]
  /\ sec' = [sec EXCEPT ![p] = "Close"]
  /\ at' = [at EXCEPT ![p]["main"] = "P"]
  /\ UNCHANGED <<kernel, clientset, userid, control, locals, input, stray, pipes,
                 cmd, target, entries>>

\* The parent closes fd_table[from] and userpipe_writefd, also where there is
\* no such pipe: the number is then 0 (the unused column), that of some other
\* word, or an uninitialised one, and may be the session's own input.
Astray(p) == \E n \in {cmd[p].from, cmd[p].to} : n = 0 \/ n > N

CloseTest(p) ==
  /\ At(p, "Close", "test")
  /\ ~Faults(p)
  /\ Leave(p, "wait")
  /\ \/ UNCHANGED cineof
     \/ Astray(p) /\ cineof' = [cineof EXCEPT ![p] = TRUE]
  /\ UNCHANGED <<kernel, clientset, userid, control, locals, gone, typed, stray,
                 pipes, command>>

\* The address of fd_table[from] is not mapped: SIGSEGV.
CloseFaults(p) ==
  /\ At(p, "Close", "test")
  /\ Faults(p)
  /\ End(p)
  /\ UNCHANGED <<clientset, pipes, command>>

\* waitpid of the foreground command.
WaitChild(p) ==
  /\ At(p, "wait", "go")
  /\ child[p] = "none"
  /\ sec' = [sec EXCEPT ![p] = "prompt"]
  /\ UNCHANGED <<kernel, clientset, userid, at, control, locals, input, stray,
                 pipes, command>>
-----------------------------------------------------------------------------
(* The child of ExecuteCommand, a process with no signals of its own, that *)
(* goes on when the session ends.                                          *)

ChildP(p) ==
  /\ child[p] = "P"
  /\ semval > 0
  /\ semval' = semval - 1
  /\ child' = [child EXCEPT ![p] = "input"]
  /\ UNCHANGED <<semadj, clientset, userid, sec, at, control, locals, input,
                 stray, pipes, cmd, target, entries>>

\* The read end (or /dev/null) becomes stdin, and the entry is reset: also
\* when the pipe was missing at the time of FromTest and is marked by now.
\* With a number beyond the table the two words are others, up to `used`, the
\* pid, the mailbox and the pipes of a client whose entry comes later.
ChildInput(p) ==
  /\ child[p] = "input"
  /\ ~Faults(p)
  /\ fd_table' = [i \in Slots |-> [j \in Slots |->
                   fd_table[i][j] /\ Fd(i, j) \notin Written(p)]]
  /\ user_pipe_from' = [i \in Slots |-> [j \in Slots |->
       IF Mark(i, j) \in Written(p) THEN "nothing" ELSE user_pipe_from[i][j]]]
  /\ clientset' = [i \in Slots |-> [clientset[i] EXCEPT
       !.used = @ \/ Used(i) \in Written(p),
       !.pid = IF Pid(i) \in Written(p) THEN Everybody ELSE @,
       !.msg = @ \/ Msg(i) \in Written(p)]]
  /\ torn' = torn \cup {i \in Slots : Used(i) \in Written(p)}
  /\ child' = [child EXCEPT ![p] = "V"]
  /\ UNCHANGED <<kernel, userid, sec, at, control, locals, input, stray, fifo,
                 cmd, target, slot>>

\* SIGSEGV in the child: SEM_UNDO gives its semaphore back, and the handler of
\* SIGCHLD runs in the session.
ChildFaults(p) ==
  /\ child[p] = "input"
  /\ Faults(p)
  /\ semval' = semval + 1
  /\ child' = [child EXCEPT ![p] = "none"]
  /\ at' = [at EXCEPT ![p] = [f \in Frames |-> Interrupted(@[f])]]
  /\ UNCHANGED <<semadj, clientset, userid, sec, control, locals, input, stray,
                 pipes, cmd, target, entries>>

\* Mutant: the child forgets Semaphore_V.
ChildVForgets(p) ==
  /\ child[p] = "V"
  /\ child' = [child EXCEPT ![p] = "output"]
  /\ UNCHANGED <<vars, pipes, cmd, target, entries>>

ChildV(p) ==
  /\ child[p] = "V"
  /\ semval' = semval + 1
  /\ child' = [child EXCEPT ![p] = "output"]
  /\ UNCHANGED <<semadj, clientset, userid, sec, at, control, locals, input,
                 stray, pipes, cmd, target, entries>>

\* Mutant: the path is not removed.
ChildOutputKeeps(p) ==
  /\ child[p] = "output"
  /\ child' = [child EXCEPT ![p] = "exec"]
  /\ UNCHANGED <<vars, pipes, cmd, target, entries>>

\* The write end becomes stdout, its path is removed, and the program starts.
ChildOutput(p) ==
  /\ child[p] = "output"
  /\ fifo' = fifo \ (IF cmd[p].pipe_to THEN {<<slot[p], cmd[p].to>>} ELSE {})
  /\ child' = [child EXCEPT ![p] = "exec"]
  /\ UNCHANGED <<vars, user_pipe_from, fd_table, cmd, target, entries>>

\* The program ends, and the handler of SIGCHLD interrupts what the session
\* does: a semop in progress fails.
ChildEnds(p) ==
  /\ child[p] = "exec"
  /\ child' = [child EXCEPT ![p] = "none"]
  /\ at' = [at EXCEPT ![p] = [f \in Frames |-> Interrupted(@[f])]]
  /\ UNCHANGED <<kernel, clientset, userid, sec, control, locals, input, stray,
                 pipes, cmd, target, entries>>
-----------------------------------------------------------------------------
(* The handler of SIGUSR2: open every pipe that is marked, in the order of *)
(* the senders, with the semaphore held.                                   *)

Marked(p) == {j \in Slots : user_pipe_from[userid[p]][j] = "marked"}
FirstMarked(p, j) == j \in Marked(p) /\ \A k \in Marked(p) : j <= k

\* A sender that waits in open for the reader of <<j, i>>.
Opening(w, j, i) ==
  At(w, "open", "go") /\ userid[w] = j /\ cmd[w].to = i

\* Both opens return; the sender goes on with Broadcast.
OpenPipe(p, w, j) ==
  /\ Runs(p, "USR2", "test")
  /\ FirstMarked(p, j)
  /\ <<j, userid[p]>> \in fifo
  /\ Opening(w, j, userid[p])
  /\ fd_table' = [fd_table EXCEPT ![userid[p]][j] = TRUE]
  /\ user_pipe_from' = [user_pipe_from EXCEPT ![userid[p]][j] = "opened"]
  /\ sec' = [sec EXCEPT ![w] = "Broadcast"]
  /\ at' = [at EXCEPT ![w]["main"] = "P"]
  /\ idx' = [idx EXCEPT ![w] = 1]
  /\ ret' = [ret EXCEPT ![w] = "fork"]
  /\ UNCHANGED <<kernel, clientset, userid, control, arg, input, stray, fifo,
                 command>>

\* The path does not exist: open returns -1, and the entry is updated as usual.
OpenMissing(p, j) ==
  /\ Runs(p, "USR2", "test")
  /\ FirstMarked(p, j)
  /\ <<j, userid[p]>> \notin fifo
  /\ fd_table' = [fd_table EXCEPT ![userid[p]][j] = FALSE]
  /\ user_pipe_from' = [user_pipe_from EXCEPT ![userid[p]][j] = "opened"]
  /\ UNCHANGED <<vars, fifo, command>>

OpenDone(p) ==
  /\ Runs(p, "USR2", "test")
  /\ Marked(p) = {}
  /\ at' = [at EXCEPT ![p]["USR2"] = "V"]
  /\ UNCHANGED <<kernel, clientset, userid, sec, control, locals, input, stray,
                 pipes, command>>
-----------------------------------------------------------------------------
\* The part of MultiServer that external commands use.  A kill of pid 0 or -1,
\* which an entry holds only when a number beyond the table was written to it,
\* also reaches children and programs: the model stops there.
Shared(p) ==
  /\ \/ \E f \in Frames : SemaphoreP(p, f) \/ SemaphoreWait(p, f)
     \/ SemaphoreV(p)
     \/ \E s \in Signals : HandlerV(p, s) \/ Deliver(p, s)
     \/ SemaphoreFailed(p)
     \/ BroadcastTest(p) \/ BroadcastAct(p)
     \/ clientset[idx[p]].pid \in Proc /\ Kill(p)
     \/ EndOfInput(p)
     \/ PrintTest(p) \/ PrintAct(p)
  /\ UNCHANGED <<pipes, command>>

PipeStep(p) ==
  \/ Shared(p)
  \/ FromTest(p) \/ ToTest(p) \/ MakeFifo(p) \/ KillPipe(p)
  \/ ForkCommand(p) \/ CloseTest(p) \/ CloseFaults(p) \/ WaitChild(p)
  \/ \E j \in Slots : OpenMissing(p, j) \/ \E w \in Proc : OpenPipe(p, w, j)
  \/ OpenDone(p)

ChildStep(p) ==
  ChildP(p) \/ ChildInput(p) \/ ChildFaults(p) \/ ChildV(p) \/ ChildOutput(p)

PipesNext ==
  \E p \in Proc :
    \/ PipeStep(p) \/ ChildStep(p) \/ ChildEnds(p)
    \/ ReadPipeCommand(p) \/ NumberThrows(p)

PipesSpec == PipesInit /\ [][PipesNext]_pvars

PipesFairness ==
  \A p \in Proc : /\ WF_pvars(PipeStep(p))
                  /\ WF_pvars(ChildStep(p))
PipesFairSpec == PipesSpec /\ PipesFairness
-----------------------------------------------------------------------------
(* Properties.                                                             *)

ChildHolds(p) == child[p] \in {"input", "V"}

\* The main program took the semaphore in FromTest and never gave it back.
Leaked(p) == semadj[p] = 1 /\ \A f \in Frames : ~Holds(p, f)

\* Every variable keeps its type whatever numbers the clients type: the worst
\* that a number beyond the table leaves in an entry is a `used` that was not
\* set, a pid of -1 and a mailbox full of nothing, and no index leaves its row.
PipesTypeOK ==
  /\ user_pipe_from \in [Slots -> [Slots -> Marks]]
  /\ fd_table \in [Slots -> [Slots -> BOOLEAN]]
  /\ fifo \subseteq Slots \X Slots
  /\ cmd \in [Proc -> [from : Froms \cup {NotGiven}, to : Tos \cup {NotGiven},
                       pipe_from : BOOLEAN, pipe_to : BOOLEAN]]
  /\ target \in [Proc -> Proc \cup {NoProc, Everybody}]
  /\ child \in [Proc -> {"none", "P", "input", "V", "output", "exec"}]
  /\ slot \in [Proc -> Slots] /\ torn \subseteq Slots
  /\ at \in [Proc -> [Frames -> Positions]]
  /\ clientset \in [Slots -> PipeClient]
  /\ idx \in [Proc -> Slots]

\* Only a number beyond the table damages what is not the command's own: an
\* entry loses its `used` or its pid, and a receiver an opened pipe that it did
\* not ask for, by nothing but the child of such a command, under the
\* semaphore, of a client whose entry comes before (or is its own).
DamageBeyond ==
  [][\A i \in Slots :
       /\ \/ clientset'[i].used # clientset[i].used
          \/ clientset'[i].pid # clientset[i].pid
          => \E p \in Proc : ChildHolds(p) /\ cmd[p].from > N /\ slot[p] < i
       /\ \A j \in Slots :
            /\ user_pipe_from[i][j] = "opened"
            /\ user_pipe_from'[i][j] # "opened"
            => \E p \in Proc :
                 /\ ChildHolds(p)
                 /\ \/ slot[p] = i /\ cmd[p].from = j
                    \/ slot[p] <= i /\ cmd[p].from > N]_pvars

\* Mutual exclusion survives the path that forgets Semaphore_V, the children
\* and the handlers: at most one frame or child is inside a section, nobody is
\* while the semaphore is up, and a leaked semaphore keeps everybody out.
PipeExclusion ==
  /\ \A p, q \in Proc, f, g \in Frames :
       Holds(p, f) /\ Holds(q, g) => p = q /\ f = g
  /\ \A p, q \in Proc : ChildHolds(p) /\ ChildHolds(q) => p = q
  /\ \A p, q \in Proc, f \in Frames : ~(Holds(p, f) /\ ChildHolds(q))
  /\ semval = 1 <=> \A p \in Proc : semadj[p] = 0 /\ ~ChildHolds(p)
  /\ (\E p \in Proc : Leaked(p)) =>
       \A p \in Proc : ~ChildHolds(p) /\ \A f \in Frames : ~Holds(p, f)

\* A mark is never stale: while user_pipe_from says that a pipe waits to be
\* opened, its sender is on its way to that very open, or has ended.
MarkHasSender ==
  \A i, j \in Slots : user_pipe_from[i][j] = "marked" =>
    \E w \in Proc :
      /\ slot[w] = j
      /\ \/ sec[w] = "dead"
         \/ sec[w] \in {"mkfifo", "usr2", "open"} /\ cmd[w].to = i

\* A path under user_pipe belongs to the command that made it, until the child
\* of that command removes it: mkfifo never meets the pipe of an older command.
\* A child that a number beyond the table ends leaves its path, but the same
\* number then ends the session.
PathHasCommand ==
  \A path \in fifo :
    \E w \in Proc :
      /\ slot[w] = path[1]
      /\ \/ sec[w] = "dead"
         \/ /\ cmd[w].to = path[2] /\ cmd[w].pipe_to
            /\ \/ sec[w] \in {"usr2", "open", "Broadcast", "kill", "fork"}
               \/ sec[w] \in {"Close", "wait"}
                    /\ child[w] \in {"P", "input", "V", "output"}
               \/ sec[w] = "Close" /\ Faults(w)

\* shell.h says of user_pipe_from: "0 means have opened the file".
Opened ==
  \A i, j \in Slots : user_pipe_from[i][j] = "opened" => fd_table[i][j]

\* A handler of SIGUSR2 that holds the semaphore in an open whose sender will
\* not come: it is the process itself, it has ended, or its own handler waits
\* for the semaphore.
OpenStuck ==
  \E p \in Proc, j \in Slots :
    /\ Runs(p, "USR2", "test") /\ FirstMarked(p, j)
    /\ <<j, userid[p]>> \in fifo
    /\ \A w \in Proc : userid[w] = j => w = p \/ run[w] # "main" \/ ~Live(w)

\* The semaphore is held for ever in three ways only: FromTest leaks it, a
\* handler waits for what its own process holds, or SIGUSR2 waits in an open
\* whose sender does not come.
SemaphoreComesBack ==
  [](~Wedged /\ ~OpenStuck /\ \A p \in Proc : ~Leaked(p))
    => (semval = 0 ~> semval = 1)
=============================================================================
