------------------------------ MODULE MultiServer ------------------------------
(***************************************************************************)
(* The multi-process chat server of np_project2/multiple: one process per  *)
(* client, a table of clients in shared memory, one System V semaphore     *)
(* around every access to it, and SIGUSR1 to tell a process that its       *)
(* mailbox (Client.msg) has something to print.                            *)
(*                                                                         *)
(* A process is a main program interrupted by signal handlers.  `run` is   *)
(* the frame that executes, `saved[p][s]` the frame that handler s will    *)
(* resume, and `at[p][f]` where frame f stands in its section:             *)
(*   "P"       about to call Semaphore_P                                   *)
(*   "blocked" asleep in semop                                             *)
(*   "eintr"   its semop was interrupted by a handler and will fail        *)
(*   "test"    holds the semaphore and reads the table                     *)
(*   "act"     holds the semaphore and writes the table                    *)
(*   "V"       about to call Semaphore_V; `sec` already names what follows *)
(*   "go"      outside any section                                         *)
(*   "idle"    the frame is not active                                     *)
(***************************************************************************)
EXTENDS Integers

CONSTANTS
  Proc,         \* session processes, each forked at most once by an accept loop
  N,            \* MAX_CLIENT_NUM - 1: the last usable index of clientset
  Names,        \* the nicknames that clients ask for
  Commands,     \* the kinds of command that clients type
  MaxCommands,  \* bound: the number of commands that one client types
  Typists,      \* bound: the sessions whose client types commands
  Leavers,      \* the sessions whose client may drop the connection
  NoProc        \* pid 0, as left by memset

Kinds == {"who", "name", "tell", "yell", "exit"}

ASSUME NAssumption == N \in Nat \ {0}
ASSUME MaxCommandsAssumption == MaxCommands \in Nat
ASSUME ProcAssumption == NoProc \notin Proc /\ Leavers \subseteq Proc
ASSUME CommandsAssumption == Commands \subseteq Kinds

DefaultName == "(no name)"
NoName == ""
ASSUME NamesAssumption == NoName \notin Names

VARIABLES
  semval,     \* value of the semaphore
  semadj,     \* what SEM_UNDO gives back when the process exits
  clientset,  \* the client table
  userid,     \* per process: its slot; 0 stands for the initial -1
  sec,        \* per process: what the main program is doing
  at,         \* per process and frame: position in the section
  run,        \* per process: the frame that executes
  saved,      \* per process and signal: the interrupted frame
  pend,       \* per process: signals sent and not yet handled
  idx,        \* per process: loop index or target of the section
  ret,        \* per process: section that follows Broadcast
  arg,        \* per process: name given to the name command
  gone,       \* per process: its client closed the connection
  cineof,     \* per process: cin has reached end of file
  typed,      \* per process: number of commands read (for MaxCommands)
  stray       \* history: sessions that found the table full

kernel == <<semval, semadj>>
control == <<run, saved, pend>>
locals == <<idx, ret, arg>>
input == <<gone, cineof, typed>>
vars == <<kernel, clientset, userid, sec, at, control, locals, input, stray>>

Slots == 1..N
Signals == {"USR1", "USR2"}
Frames == {"main"} \cup Signals
Positions == {"P", "blocked", "eintr", "test", "act", "V", "go", "idle"}
Inside == {"test", "act", "V"}

\* Sections of the main program that take the semaphore (the last three are
\* those of external commands, in UserPipes), and the others.
Locking == {"InitialClient", "Login", "Broadcast", "Who", "Name", "Tell",
            "Yell", "Logout", "From", "To", "Close"}
Free == {"kill", "tellkill", "prompt", "memset1", "memset2", "exit", "acceptor"}
Ended == {"unborn", "dead"}
Sections == Locking \cup Free \cup Ended

Client == [used : BOOLEAN, pid : Proc \cup {NoProc},
           name : Names \cup {DefaultName, NoName}, msg : BOOLEAN]
EmptyClient == [used |-> FALSE, pid |-> NoProc, name |-> NoName, msg |-> FALSE]

Live(p) == sec[p] \notin Ended
Quiet == [f \in Frames |-> "idle"]
NotSaved == [s \in Signals |-> "none"]
Entry(s) == IF s \in Locking THEN "P" ELSE "go"

Init ==
  /\ semval = 1
  /\ semadj = [p \in Proc |-> 0]
  /\ clientset = [i \in Slots |-> EmptyClient]
  /\ userid = [p \in Proc |-> 0]
  /\ sec = [p \in Proc |-> "unborn"]
  /\ at = [p \in Proc |-> Quiet]
  /\ run = [p \in Proc |-> "main"]
  /\ saved = [p \in Proc |-> NotSaved]
  /\ pend = [p \in Proc |-> {}]
  /\ idx = [p \in Proc |-> 1]
  /\ ret = [p \in Proc |-> "prompt"]
  /\ arg = [p \in Proc |-> DefaultName]
  /\ gone = [p \in Proc |-> FALSE]
  /\ cineof = [p \in Proc |-> FALSE]
  /\ typed = [p \in Proc |-> 0]
  /\ stray = {}
-----------------------------------------------------------------------------
(* The kernel: the semaphore, signals and the end of a process.            *)

Runs(p, f, a) == Live(p) /\ run[p] = f /\ at[p][f] = a

\* semop(-1) that succeeds at once, or that wakes up.
SemaphoreP(p, f) ==
  /\ Runs(p, f, "P") \/ Runs(p, f, "blocked")
  /\ semval > 0
  /\ semval' = semval - 1
  /\ semadj' = [semadj EXCEPT ![p] = @ + 1]
  /\ at' = [at EXCEPT ![p][f] = "test"]
  /\ UNCHANGED <<clientset, userid, sec, control, locals, input, stray>>

\* semop(-1) that has to wait.
SemaphoreWait(p, f) ==
  /\ Runs(p, f, "P")
  /\ semval = 0
  /\ at' = [at EXCEPT ![p][f] = "blocked"]
  /\ UNCHANGED <<kernel, clientset, userid, sec, control, locals, input, stray>>

\* semop(+1) of the main program, which then enters the section `sec` names.
SemaphoreV(p) ==
  /\ Runs(p, "main", "V")
  /\ semval' = semval + 1
  /\ semadj' = [semadj EXCEPT ![p] = @ - 1]
  /\ at' = [at EXCEPT ![p]["main"] = Entry(sec[p])]
  /\ UNCHANGED <<clientset, userid, sec, control, locals, input, stray>>

\* A handler returns and the semaphore stays down, as when semop(+1) fails in it
\* (MultiShutdown).  Mutant of HandlerV: Semaphore_V is forgotten.
HandlerVForgets(p, s) ==
  /\ Runs(p, s, "V")
  /\ at' = [at EXCEPT ![p][s] = "idle"]
  /\ run' = [run EXCEPT ![p] = saved[p][s]]
  /\ saved' = [saved EXCEPT ![p][s] = "none"]
  /\ UNCHANGED <<kernel, clientset, userid, sec, pend, locals, input, stray>>

\* semop(+1) that ends a handler, which then returns to what it interrupted.
HandlerV(p, s) ==
  /\ Runs(p, s, "V")
  /\ semval' = semval + 1
  /\ semadj' = [semadj EXCEPT ![p] = @ - 1]
  /\ at' = [at EXCEPT ![p][s] = "idle"]
  /\ run' = [run EXCEPT ![p] = saved[p][s]]
  /\ saved' = [saved EXCEPT ![p][s] = "none"]
  /\ UNCHANGED <<clientset, userid, sec, pend, locals, input, stray>>

\* A frame interrupted in semop: the call fails with EINTR once it resumes.
Interrupted(a) == IF a = "blocked" THEN "eintr" ELSE a

\* A pending signal, not blocked by its own handler, starts that handler.
Deliver(p, s) ==
  /\ Live(p)
  /\ s \in pend[p]
  /\ at[p][s] = "idle"
  /\ pend' = [pend EXCEPT ![p] = @ \ {s}]
  /\ saved' = [saved EXCEPT ![p][s] = run[p]]
  /\ run' = [run EXCEPT ![p] = s]
  /\ at' = [at EXCEPT ![p] = [f \in Frames |->
              IF f = s THEN "P" ELSE Interrupted(at[p][f])]]
  /\ UNCHANGED <<kernel, clientset, userid, sec, locals, input, stray>>

\* Mutant: semop without SEM_UNDO.
EndNoUndo(p) ==
  /\ semadj' = [semadj EXCEPT ![p] = 0]
  /\ sec' = [sec EXCEPT ![p] = "dead"]
  /\ at' = [at EXCEPT ![p] = Quiet]
  /\ run' = [run EXCEPT ![p] = "main"]
  /\ saved' = [saved EXCEPT ![p] = NotSaved]
  /\ pend' = [pend EXCEPT ![p] = {}]
  /\ userid' = [userid EXCEPT ![p] = 0]
  /\ idx' = [idx EXCEPT ![p] = 1]
  /\ ret' = [ret EXCEPT ![p] = "prompt"]
  /\ arg' = [arg EXCEPT ![p] = DefaultName]
  /\ UNCHANGED <<semval, input, stray>>

\* The process ends, by exit or by a signal: SEM_UNDO gives the semaphore back,
\* and the process's own memory is no more.
End(p) ==
  /\ semval' = semval + semadj[p]
  /\ semadj' = [semadj EXCEPT ![p] = 0]
  /\ sec' = [sec EXCEPT ![p] = "dead"]
  /\ at' = [at EXCEPT ![p] = Quiet]
  /\ run' = [run EXCEPT ![p] = "main"]
  /\ saved' = [saved EXCEPT ![p] = NotSaved]
  /\ pend' = [pend EXCEPT ![p] = {}]
  /\ userid' = [userid EXCEPT ![p] = 0]
  /\ idx' = [idx EXCEPT ![p] = 1]
  /\ ret' = [ret EXCEPT ![p] = "prompt"]
  /\ arg' = [arg EXCEPT ![p] = DefaultName]
  /\ UNCHANGED <<input, stray>>

\* Semaphore_P returned -1: every caller exits with status 1.
SemaphoreFailed(p) ==
  /\ Runs(p, run[p], "eintr")
  /\ End(p)
  /\ UNCHANGED clientset
-----------------------------------------------------------------------------
(* Sections of the main program.                                           *)

\* The section is over: V, then section s.
Leave(p, s) ==
  /\ sec' = [sec EXCEPT ![p] = s]
  /\ at' = [at EXCEPT ![p]["main"] = "V"]

\* Mutant: the test on used is dropped.
FreeSlotsAll == Slots

FreeSlots == {i \in Slots : ~clientset[i].used}

\* The loop over clientset[1..MAX_CLIENT_NUM-1] for a free slot.
InitialClientTest(p) ==
  /\ Runs(p, "main", "test") /\ sec[p] = "InitialClient"
  /\ \/ /\ \E i \in FreeSlots :
             /\ \A j \in FreeSlots : i <= j
             /\ idx' = [idx EXCEPT ![p] = i]
        /\ at' = [at EXCEPT ![p]["main"] = "act"]
        /\ UNCHANGED <<sec, stray>>
     \/ /\ FreeSlots = {}
        /\ stray' = stray \cup {p}
        /\ Leave(p, "Login")
        /\ UNCHANGED idx
  /\ UNCHANGED <<kernel, clientset, userid, control, ret, arg, input>>

\* The slot is filled in; msg keeps what it held.
InitialClientAct(p) ==
  /\ Runs(p, "main", "act") /\ sec[p] = "InitialClient"
  /\ userid' = [userid EXCEPT ![p] = idx[p]]
  /\ clientset' = [clientset EXCEPT ![idx[p]] =
       [used |-> TRUE, pid |-> p, name |-> DefaultName, msg |-> @.msg]]
  /\ Leave(p, "Login")
  /\ UNCHANGED <<kernel, control, locals, input, stray>>

\* A section that only reads its own entry and then broadcasts.
Announce(p, s, r) ==
  /\ Runs(p, "main", "test") /\ sec[p] = s
  /\ idx' = [idx EXCEPT ![p] = 1]
  /\ ret' = [ret EXCEPT ![p] = r]
  /\ Leave(p, "Broadcast")
  /\ UNCHANGED <<kernel, clientset, userid, control, arg, input, stray>>

Login(p) == userid[p] # 0 /\ Announce(p, "Login", "prompt")
Yell(p) == Announce(p, "Yell", "prompt")
Logout(p) == Announce(p, "Logout", "memset1")

\* Without a slot, clientset[-1] lies before the segment: SIGSEGV.
LoginCrash(p) ==
  /\ Runs(p, "main", "test") /\ sec[p] = "Login" /\ userid[p] = 0
  /\ End(p)
  /\ UNCHANGED clientset

Who(p) ==
  /\ Runs(p, "main", "test") /\ sec[p] = "Who"
  /\ Leave(p, "prompt")
  /\ UNCHANGED <<kernel, clientset, userid, control, locals, input, stray>>

\* Mutant: the loop stops one slot early.
NameTakenShort(n) == \E i \in Slots \ {N} : clientset[i].name = n

NameTaken(n) == \E i \in Slots : clientset[i].name = n

NameTest(p) ==
  /\ Runs(p, "main", "test") /\ sec[p] = "Name"
  /\ \/ NameTaken(arg[p]) /\ Leave(p, "prompt")
     \/ /\ ~NameTaken(arg[p])
        /\ at' = [at EXCEPT ![p]["main"] = "act"]
        /\ UNCHANGED sec
  /\ UNCHANGED <<kernel, clientset, userid, control, locals, input, stray>>

NameAct(p) ==
  /\ Runs(p, "main", "act") /\ sec[p] = "Name"
  /\ clientset' = [clientset EXCEPT ![userid[p]].name = arg[p]]
  /\ idx' = [idx EXCEPT ![p] = 1]
  /\ ret' = [ret EXCEPT ![p] = "prompt"]
  /\ Leave(p, "Broadcast")
  /\ UNCHANGED <<kernel, userid, control, arg, input, stray>>

\* Mutant: the loop runs one slot too far.
NextTargetBeyond(p) == [idx EXCEPT ![p] = @ + 1]

\* The iteration of Broadcast that follows the one on idx[p].
NextTarget(p) == [idx EXCEPT ![p] = IF @ = N THEN 1 ELSE @ + 1]
AfterTarget(p) == IF idx[p] = N THEN ret[p] ELSE "Broadcast"

BroadcastTest(p) ==
  /\ Runs(p, "main", "test") /\ sec[p] = "Broadcast"
  /\ \/ /\ clientset[idx[p]].used
        /\ at' = [at EXCEPT ![p]["main"] = "act"]
        /\ UNCHANGED <<sec, idx>>
     \/ /\ ~clientset[idx[p]].used
        /\ idx' = NextTarget(p)
        /\ Leave(p, AfterTarget(p))
  /\ UNCHANGED <<kernel, clientset, userid, control, ret, arg, input, stray>>

\* Whoever the number names is told, or there is nobody: that is also what the
\* code finds for 0 and for the zeros behind the table.
TellTest(p) ==
  /\ Runs(p, "main", "test") /\ sec[p] = "Tell"
  /\ \/ /\ clientset[idx[p]].used
        /\ at' = [at EXCEPT ![p]["main"] = "act"]
        /\ UNCHANGED sec
     \/ Leave(p, "prompt")
  /\ UNCHANGED <<kernel, clientset, userid, control, locals, input, stray>>

\* strncpy into the mailbox of slot idx[p].
Post(p, s, next) ==
  /\ Runs(p, "main", "act") /\ sec[p] = s
  /\ clientset' = [clientset EXCEPT ![idx[p]].msg = TRUE]
  /\ Leave(p, next)
  /\ UNCHANGED <<kernel, userid, control, locals, input, stray>>

BroadcastAct(p) == Post(p, "Broadcast", "kill")

\* Mutant: no kill after a tell.
TellActSilent(p) == Post(p, "Tell", "prompt")

TellAct(p) == Post(p, "Tell", "tellkill")

\* kill(clientset[i].pid, SIGUSR1), the pid read after V: 0 means everybody.
Targets(i) ==
  {q \in Proc : Live(q) /\ clientset[i].pid \in {q, NoProc}}

\* Signal s to T; the caller handles its own before kill returns.
Signal(p, T, s) ==
  /\ pend' = [q \in Proc |-> IF q = p /\ p \in T THEN pend[q] \ {s}
                             ELSE IF q \in T THEN pend[q] \cup {s}
                             ELSE pend[q]]
  /\ run' = [run EXCEPT ![p] = IF p \in T THEN s ELSE @]
  /\ saved' = [saved EXCEPT ![p][s] = IF p \in T THEN "main" ELSE @]

Kill(p) ==
  /\ Runs(p, "main", "go") /\ sec[p] \in {"kill", "tellkill"}
  /\ Signal(p, Targets(idx[p]), "USR1")
  /\ LET next == IF sec[p] = "kill" THEN AfterTarget(p) ELSE "prompt"
     IN /\ sec' = [sec EXCEPT ![p] = next]
        /\ at' = [at EXCEPT ![p]["main"] = Entry(next),
                            ![p]["USR1"] = IF p \in Targets(idx[p])
                                           THEN "P" ELSE @]
  /\ idx' = IF sec[p] = "kill" THEN NextTarget(p) ELSE idx
  /\ UNCHANGED <<kernel, clientset, userid, ret, arg, input, stray>>

\* memset of the slot, outside the semaphore: the head of the entry first,
\* the mailbox and the name later.
LogoutMemset(p) ==
  /\ Runs(p, "main", "go")
  /\ \/ /\ sec[p] = "memset1"
        /\ clientset' = [clientset EXCEPT ![userid[p]].used = FALSE,
                                          ![userid[p]].pid = NoProc]
        /\ sec' = [sec EXCEPT ![p] = "memset2"]
     \/ /\ sec[p] = "memset2"
        /\ clientset' = [clientset EXCEPT ![userid[p]].msg = FALSE,
                                          ![userid[p]].name = NoName]
        /\ sec' = [sec EXCEPT ![p] = "exit"]
  /\ UNCHANGED <<kernel, userid, at, control, locals, input, stray>>

\* shmdt and exit(0).
LogoutExit(p) ==
  /\ Runs(p, "main", "go") /\ sec[p] = "exit"
  /\ End(p)
  /\ UNCHANGED clientset
-----------------------------------------------------------------------------
(* The handler of SIGUSR1: print the mailbox and empty it.                 *)

PrintTest(p) ==
  /\ Runs(p, "USR1", "test")
  /\ userid[p] # 0
  /\ at' = [at EXCEPT ![p]["USR1"] =
              IF clientset[userid[p]].msg THEN "act" ELSE "V"]
  /\ UNCHANGED <<kernel, clientset, userid, sec, control, locals, input, stray>>

PrintCrash(p) ==
  /\ Runs(p, "USR1", "test") /\ userid[p] = 0
  /\ End(p)
  /\ UNCHANGED clientset

PrintAct(p) ==
  /\ Runs(p, "USR1", "act")
  /\ clientset' = [clientset EXCEPT ![userid[p]].msg = FALSE]
  /\ at' = [at EXCEPT ![p]["USR1"] = "V"]
  /\ UNCHANGED <<kernel, userid, sec, control, locals, input, stray>>
-----------------------------------------------------------------------------
(* Connections and commands.                                               *)

\* fork in an accept loop: the child inherits userid and cin of its parent.
Fork(q, id, eof) ==
  /\ sec[q] = "unborn"
  /\ sec' = [sec EXCEPT ![q] = "InitialClient"]
  /\ at' = [at EXCEPT ![q]["main"] = "P"]
  /\ userid' = [userid EXCEPT ![q] = id]
  /\ cineof' = [cineof EXCEPT ![q] = eof]
  /\ UNCHANGED <<kernel, clientset, control, locals, gone, typed, stray>>

AcceptByMaster(q) == Fork(q, 0, FALSE)

\* A session whose client left returns from Shell into the accept loop.
AcceptBySession(p, q) ==
  /\ Runs(p, "main", "go") /\ sec[p] = "acceptor"
  /\ Fork(q, userid[p], cineof[p])

Hangup(p) ==
  /\ p \in Leavers /\ Live(p) /\ ~gone[p]
  /\ gone' = [gone EXCEPT ![p] = TRUE]
  /\ UNCHANGED <<kernel, clientset, userid, sec, at, control, locals, cineof,
                 typed, stray>>

\* getline fails: Shell returns, and nothing stops the process (no Logout).
EndOfInput(p) ==
  /\ Runs(p, "main", "go") /\ sec[p] = "prompt"
  /\ gone[p] \/ cineof[p]
  /\ cineof' = [cineof EXCEPT ![p] = TRUE]
  /\ sec' = [sec EXCEPT ![p] = "acceptor"]
  /\ UNCHANGED <<kernel, clientset, userid, at, control, locals, gone, typed,
                 stray>>

\* The next command of the client, which may have been sent before a hangup.
ReadCommand(p) ==
  /\ Runs(p, "main", "go") /\ sec[p] = "prompt"
  /\ ~cineof[p]
  /\ p \in Typists /\ typed[p] < MaxCommands
  /\ typed' = [typed EXCEPT ![p] = @ + 1]
  /\ \/ /\ "who" \in Commands
        /\ sec' = [sec EXCEPT ![p] = "Who"]
        /\ UNCHANGED <<idx, arg>>
     \/ /\ "name" \in Commands
        /\ \E n \in Names : arg' = [arg EXCEPT ![p] = n]
        /\ sec' = [sec EXCEPT ![p] = "Name"]
        /\ UNCHANGED idx
     \/ /\ "tell" \in Commands
        /\ \E i \in Slots : idx' = [idx EXCEPT ![p] = i]
        /\ sec' = [sec EXCEPT ![p] = "Tell"]
        /\ UNCHANGED arg
     \/ /\ "yell" \in Commands
        /\ sec' = [sec EXCEPT ![p] = "Yell"]
        /\ UNCHANGED <<idx, arg>>
     \/ /\ "exit" \in Commands
        /\ sec' = [sec EXCEPT ![p] = "Logout"]
        /\ UNCHANGED <<idx, arg>>
  /\ at' = [at EXCEPT ![p]["main"] = "P"]
  /\ UNCHANGED <<kernel, clientset, userid, control, ret, gone, cineof, stray>>

\* Output to a connection that the client closed: SIGPIPE ends the process, at
\* the welcome, at a prompt or in the accept loop, at an error message written
\* inside the section of name or tell, or in the handler.
SigPipe(p) ==
  /\ gone[p]
  /\ \/ Runs(p, "main", "P") /\ sec[p] = "InitialClient"
     \/ Runs(p, "main", "go") /\ sec[p] \in {"prompt", "acceptor"}
     \/ Runs(p, "main", "test") /\ sec[p] = "Name" /\ NameTaken(arg[p])
     \/ Runs(p, "main", "test") /\ sec[p] = "Tell"
     \/ Runs(p, "USR1", "act")
  /\ End(p)
  /\ UNCHANGED clientset

\* Arguments that are missing or no numbers end the process before the section
\* of name or tell (stoi throws, nobody catches); a number whose entry is not
\* mapped, and a message without words, end it inside that of tell.
BadArguments(p) ==
  /\ \/ /\ Runs(p, "main", "go") /\ sec[p] = "prompt" /\ ~cineof[p]
        /\ p \in Typists /\ typed[p] < MaxCommands
        /\ {"name", "tell"} \cap Commands # {}
     \/ /\ Runs(p, "main", "test") \/ Runs(p, "main", "act")
        /\ sec[p] = "Tell"
  /\ End(p)
  /\ UNCHANGED clientset
-----------------------------------------------------------------------------
\* What p does by itself, without its client and the network.
Step(p) ==
  \/ \E f \in Frames : SemaphoreP(p, f) \/ SemaphoreWait(p, f)
  \/ SemaphoreV(p)
  \/ \E s \in Signals : HandlerV(p, s) \/ Deliver(p, s)
  \/ SemaphoreFailed(p)
  \/ InitialClientTest(p) \/ InitialClientAct(p)
  \/ Login(p) \/ LoginCrash(p)
  \/ BroadcastTest(p) \/ BroadcastAct(p) \/ Kill(p)
  \/ Who(p) \/ NameTest(p) \/ NameAct(p) \/ TellTest(p) \/ TellAct(p)
  \/ Yell(p) \/ Logout(p) \/ LogoutMemset(p) \/ LogoutExit(p)
  \/ PrintTest(p) \/ PrintCrash(p) \/ PrintAct(p)
  \/ EndOfInput(p)

Environment(p) ==
  \/ SigPipe(p) \/ BadArguments(p) \/ Hangup(p) \/ ReadCommand(p)
  \/ AcceptByMaster(p)
  \/ \E q \in Proc : AcceptBySession(p, q)

Next == \E p \in Proc : Step(p) \/ Environment(p)

Spec == Init /\ [][Next]_vars

Fairness ==
  \A p \in Proc : /\ WF_vars(Step(p))
                  /\ \A f \in Frames : SF_vars(SemaphoreP(p, f))
FairSpec == Spec /\ Fairness
-----------------------------------------------------------------------------
(* Properties.                                                             *)

\* Every variable has its type.
TypeOK ==
  /\ semval \in 0..1
  /\ semadj \in [Proc -> 0..1]
  /\ clientset \in [Slots -> Client]
  /\ userid \in [Proc -> 0..N]
  /\ sec \in [Proc -> Sections]
  /\ at \in [Proc -> [Frames -> Positions]]
  /\ run \in [Proc -> Frames]
  /\ saved \in [Proc -> [Signals -> Frames \cup {"none"}]]
  /\ pend \in [Proc -> SUBSET Signals]
  /\ idx \in [Proc -> Slots]
  /\ ret \in [Proc -> {"prompt", "memset1"}]
  /\ arg \in [Proc -> Names \cup {DefaultName}]
  /\ gone \in [Proc -> BOOLEAN]
  /\ cineof \in [Proc -> BOOLEAN]
  /\ typed \in [Proc -> 0..MaxCommands]
  /\ stray \subseteq Proc

Holds(p, f) == at[p][f] \in Inside

\* The semaphore and the undo values of the kernel agree with the code of the
\* processes: at most one frame of one process is between Semaphore_P and
\* Semaphore_V, the semaphore is down exactly then, and the kernel would give
\* it back if that process ended there.
SemaphoreInv ==
  /\ \A p, q \in Proc, f, g \in Frames :
       Holds(p, f) /\ Holds(q, g) => p = q /\ f = g
  /\ semval = 1 <=> \A p \in Proc, f \in Frames : ~Holds(p, f)
  /\ \A p \in Proc : semadj[p] = 1 <=> \E f \in Frames : Holds(p, f)

\* No two clients in the table have the same nickname, whatever the
\* interleaving of name commands, logins and the unlocked memset of a logout.
UniqueNames ==
  \A i, j \in Slots :
    /\ clientset[i].used /\ clientset[j].used
    /\ clientset[i].name = clientset[j].name
    /\ clientset[i].name \in Names \ {DefaultName}
    => i = j

\* A session that InitialClient has entered in the table and that is not
\* leaving it, whether it still serves its client or not.
Registered(p) ==
  /\ Live(p)
  /\ sec[p] \notin {"InitialClient", "memset2", "exit"}
  /\ userid[p] # 0

\* A registered session that found a free slot keeps it, used and with its own
\* pid, until its own logout: two of them never share a slot, and the sessions
\* that found the table full and run on with the userid they inherited from
\* the session that accepted them never free the slot under it.
SlotExclusive ==
  \A p \in Proc \ stray : Registered(p) =>
    clientset[userid[p]].used /\ clientset[userid[p]].pid = p

\* Somebody is about to signal slot i, after having written in its mailbox.
AboutToKill(i) ==
  \E q \in Proc : sec[q] \in {"kill", "tellkill"} /\ idx[q] = i

\* As long as no session has ended, an unread mailbox never loses its signal,
\* although standard signals coalesce and handlers interrupt each other: the
\* signal is pending, or its handler has not looked yet, or it will be sent.
NoLostWakeup ==
  (\A p \in Proc : sec[p] \notin {"memset2", "exit", "dead"}) =>
    \A i \in Slots : clientset[i].used /\ clientset[i].msg =>
      \/ AboutToKill(i)
      \/ "USR1" \in pend[clientset[i].pid]
      \/ at[clientset[i].pid]["USR1"] \in Positions \ {"V", "idle"}

\* The table as the sessions that use it see it.
Table == INSTANCE ClientTable WITH
  owner <- [i \in Slots |-> IF clientset[i].used THEN clientset[i].pid ELSE NoProc],
  nick <- [i \in Slots |-> IF clientset[i].used THEN clientset[i].name ELSE NoName]

\* The table behaves as ClientTable says: a session enters a free slot, once,
\* renames itself to a nickname nobody has and leaves, each at one instant,
\* although each is several steps of the code and a logout takes no semaphore.
ImplementsTable == Table!Spec

\* A process whose handler waits for the semaphore that the process itself
\* holds: nobody will ever release it.
Wedged ==
  \E p \in Proc : /\ semadj[p] = 1
                  /\ run[p] \in Signals /\ ~Holds(p, run[p])

\* If no handler ever wedges the semaphore, exit is not held up by the other
\* sessions, by their signals or by their deaths inside a section.
ExitCompletes ==
  [](~Wedged) => \A p \in Proc : sec[p] = "Logout" ~> sec[p] = "dead"
=============================================================================
