------------------------------ MODULE SingleServer ------------------------------
(***************************************************************************)
(* The single-process chat server: one loop around select serves everybody *)
(* and keeps the client table, the queue of free ids, the user pipes and   *)
(* the descriptors of all of them in one process.                          *)
(*                                                                         *)
(* Descriptors are numbers that the kernel hands out lowest first and uses *)
(* again, so a number kept too long may come to mean something else.  The  *)
(* write end of a user pipe is such a number: ExecuteCommand closes it,    *)
(* and closepipe closes it again when one of the two clients leaves.  When *)
(* that hits a descriptor of somebody else the loop is "astray", and the   *)
(* model stops.                                                            *)
(***************************************************************************)
EXTENDS Integers, FiniteSets, FiniteSetsExt

CONSTANTS
  Clients,     \* the connections that clients open, one each
  N,           \* MAX_CLIENT_NUM - 1
  Names,       \* nicknames that clients ask for
  Commands,    \* what clients type, out of Kinds
  Froms, Tos,  \* the arguments of < and >; 0: not given, or not positive: to the same effect
  MaxLines     \* bound on the lines typed

Kinds == {"who", "name", "tell", "yell", "exit", "exec"}
None == -1
DefaultName == "(no name)"
NoName == ""
Nobody == "nobody"

ASSUME ServerAssumption ==
  /\ N \in Nat \ {0} /\ MaxLines \in Nat
  /\ Commands \subseteq Kinds /\ {DefaultName, NoName} \cap Names = {}
  /\ Nobody \notin Clients
  /\ Froms \cup Tos \subseteq Nat

VARIABLES
  clientset,  \* the table
  id_queue,   \* id -> how often it is in the queue
  user_pipe,  \* <<sender, receiver>> -> the two numbers, and ispiped
  fds,        \* number -> what it refers to
  master,     \* the set that select watches, without the listening socket
  read_fds,   \* what select returned and the loop has not reached yet
  loop,       \* where the loop stands
  peer,       \* the client's side of each connection
  line,       \* the line that waits in a connection
  typed,      \* lines typed
  crowded     \* history: a number was handed out while a pipe was unread

vars == <<clientset, id_queue, user_pipe, fds, master, read_fds, loop,
          peer, line, typed, crowded>>
server == <<clientset, id_queue, user_pipe, fds, master, read_fds, loop, crowded>>
client == <<peer, line, typed>>

Ids == 1..N
Pipes == Ids \X Ids

\* Enough for every connection and every pipe, and the four that a command takes:
\* NoLeak shows that no more are needed, and 30 clients stay below the limit of 1024.
\* 0 stands for the listening socket.
Fds == 1..(N + N * N + 5)

Unused == <<"unused">>
Connection(c) == <<"connection", c>>
ReadEnd(p) == <<"read", p>>

NoClient == [used |-> FALSE, name |-> NoName, sockfd |-> 0, client |-> Nobody]
NoLine == [kind |-> "none"]
NoPipe == [ispiped |-> FALSE, read |-> None, write |-> None]

Used == {i \in Ids : clientset[i].used}
Queued == {i \in Ids : id_queue[i] > 0}
Unread == {p \in Pipes : \E d \in Fds : fds[d] = ReadEnd(p)}

\* The n-th number that the kernel hands out from now on.
NthFree(n) ==
  LET Free == {d \in Fds : fds[d] = Unused}
  IN CHOOSE d \in Free : Cardinality({e \in Free : e < d}) = n - 1

SingleInit ==
  /\ clientset = [i \in Ids |-> NoClient]
  /\ id_queue = [i \in Ids |-> 1]
  /\ user_pipe = [p \in Pipes |-> NoPipe]
  /\ fds = [d \in Fds |-> Unused]
  /\ master = {} /\ read_fds = {}
  /\ loop = "select"
  /\ peer = [c \in Clients |-> "new"]
  /\ line = [c \in Clients |-> NoLine]
  /\ typed = 0
  /\ crowded = FALSE
-----------------------------------------------------------------------------
(* Clients, as long as there is a server.                                  *)

Running == loop \in {"select", "serve"}

Connect(c) ==
  /\ Running /\ peer[c] = "new"
  /\ peer' = [peer EXCEPT ![c] = "connecting"]
  /\ UNCHANGED <<server, line, typed>>

Beyond(l) == l.from > N \/ l.to > N

\* A command that fills its pipe is told from one that does not; what it reads does
\* not matter then, nor what else a command does with a number beyond the table.
Lines ==
  [kind: Commands \cap {"who", "tell", "yell", "exit"}]
    \cup [kind: Commands \cap {"name"}, name: Names]
    \cup {l \in [kind: Commands \cap {"exec"}, from: Froms, to: Tos, big: {FALSE}] :
            Beyond(l) => 0 \in {l.from, l.to}}
    \cup [kind: Commands \cap {"exec"}, from: {0}, to: Tos \ {0}, big: {TRUE}]

Type(c) ==
  /\ Running /\ peer[c] = "open" /\ line[c] = NoLine /\ typed < MaxLines
  /\ \E l \in Lines : line' = [line EXCEPT ![c] = l]
  /\ typed' = typed + 1
  /\ UNCHANGED <<server, peer>>

HangUp(c) ==
  /\ Running /\ peer[c] = "open"
  /\ peer' = [peer EXCEPT ![c] = "gone"]
  /\ UNCHANGED <<server, line, typed>>
-----------------------------------------------------------------------------
(* The loop.                                                               *)

Waiting == {0 : c \in {e \in Clients : peer[e] = "connecting"}}
Readable(d) ==
  \/ \E c \in Clients : fds[d] = Connection(c) /\ (line[c] # NoLine \/ peer[c] = "gone")
  \/ fds[d][1] = "read"

Select ==
  /\ loop = "select"
  /\ read_fds' = {d \in master : Readable(d)} \cup Waiting
  /\ read_fds' # {}
  /\ loop' = "serve"
  /\ UNCHANGED <<clientset, id_queue, user_pipe, fds, master, client, crowded>>

\* The loop takes the lowest number first.
Turn(d) == loop = "serve" /\ d = Min(read_fds)

Done(d) ==
  /\ read_fds' = read_fds \ {d}
  /\ loop' = IF read_fds = {d} THEN "select" ELSE "serve"

\* A write to a connection may stop the server for everybody: SIGPIPE, when its
\* client is gone, or for as long as its client does not read, which may be for ever.
Stopped(I) ==
  /\ \E i \in I, c \in Clients :
       /\ fds[clientset[i].sockfd] = Connection(c)
       /\ \/ peer[c] = "gone" /\ loop' = "dead"
          \/ peer[c] = "open" /\ loop' = "hung"
  /\ UNCHANGED read_fds

Accept(c) ==
  /\ Turn(0) /\ peer[c] = "connecting"
  /\ Queued # {}
  /\ LET d == NthFree(1)
         i == Min(Queued)
     IN /\ fds' = [fds EXCEPT ![d] = Connection(c)]
        /\ master' = master \cup {d}
        /\ id_queue' = [id_queue EXCEPT ![i] = @ - 1]
        /\ clientset' = [clientset EXCEPT ![i] =
             [used |-> TRUE, name |-> DefaultName, sockfd |-> d, client |-> c]]
  /\ crowded' = (crowded \/ Unread # {})
  /\ peer' = [peer EXCEPT ![c] = "open"]
  /\ Done(0) \/ Stopped(Used)
  /\ UNCHANGED <<user_pipe, line, typed>>

\* top and pop of an empty queue: what follows is undefined.
AcceptUndefined ==
  /\ Turn(0) /\ Queued = {}
  /\ loop' = "undefined"
  /\ UNCHANGED <<clientset, id_queue, user_pipe, fds, master, read_fds, client, crowded>>

\* The id that a descriptor is taken for.
Index(d) == CHOOSE i \in Ids : clientset[i].sockfd = d /\ \A j \in 1..i-1 : clientset[j].sockfd # d

Request(d, c, i, kind) ==
  /\ Turn(d) /\ d # 0
  /\ fds[d] = Connection(c) /\ line[c].kind = kind
  /\ i = Index(d)
  /\ line' = [line EXCEPT ![c] = NoLine]
  /\ UNCHANGED typed

\* who and tell write to one client, yell to everybody; the prompt follows.
Talk(d, c, i) ==
  /\ \/ Request(d, c, i, "who") /\ (Done(d) \/ Stopped({i}))
     \/ Request(d, c, i, "tell") /\ (Done(d) \/ Stopped(Used))
     \/ Request(d, c, i, "yell") /\ (Done(d) \/ Stopped(Used))
  /\ UNCHANGED <<clientset, id_queue, user_pipe, fds, master, peer, crowded>>

Name(d, c, i) ==
  /\ Request(d, c, i, "name")
  /\ IF \E j \in Ids : clientset[j].name = line[c].name
     THEN UNCHANGED clientset /\ (Done(d) \/ Stopped({i}))
     ELSE /\ clientset' = [clientset EXCEPT ![i].name = line[c].name]
          /\ Done(d) \/ Stopped(Used)
  /\ UNCHANGED <<id_queue, user_pipe, fds, master, peer, crowded>>

\* What the request needs is missing or no number: an access to what an empty
\* vector has not, or an exception that nobody catches.
BadArguments(d, c, i) ==
  /\ \E kind \in {"name", "tell", "exec"} : Request(d, c, i, kind)
  /\ loop' = "dead"
  /\ UNCHANGED <<clientset, id_queue, user_pipe, fds, master, read_fds, peer, crowded>>

\* close, called with these numbers.  It goes astray if one of them means something
\* that is not to be closed.
Close(f, numbers) == [d \in Fds |-> IF d \in numbers THEN Unused ELSE f[d]]
Stray(numbers, meant) == \E d \in numbers \cap Fds : fds[d] \notin meant \cup {Unused}

\* Mutants: only what the leaver sent; also what was read before.
ClosePipeSent(i) == {p \in Pipes : user_pipe[p].ispiped /\ p[1] = i}
ClosePipeAgain(i) == {p \in Pipes : i \in {p[1], p[2]}}
ClosePipe(i) == {p \in Pipes : user_pipe[p].ispiped /\ i \in {p[1], p[2]}}

\* Mutant: without close(requset_fd).
PipeNumbers(P, d) == UNION {{user_pipe[p].read, user_pipe[p].write} : p \in P}
Numbers(P, d) == (UNION {{user_pipe[p].read, user_pipe[p].write} : p \in P}) \cup {d}

\* Mutant: Logout pushes the id, too.
PushTwice(i) == [id_queue EXCEPT ![i] = @ + 2]
Push(i) == [id_queue EXCEPT ![i] = @ + 1]

\* Mutant: only used is cleared.
LogoutUsed(i) == [clientset EXCEPT ![i].used = FALSE]
Logout(i) == [clientset EXCEPT ![i] = NoClient]

\* The end of a session: id, pipes and connection are given back.  W: who is written to.
Leave(d, c, i, W) ==
  LET P == ClosePipe(i)
      numbers == Numbers(P, d)
  IN /\ clientset' = Logout(i)
     /\ id_queue' = Push(i)
     /\ user_pipe' = [p \in Pipes |->
          IF p \in P THEN [user_pipe[p] EXCEPT !.ispiped = FALSE] ELSE user_pipe[p]]
     /\ fds' = Close(fds, numbers)
     /\ master' = master \ {d}
     /\ IF Stray(numbers, {ReadEnd(p) : p \in P} \cup {Connection(c)})
        THEN loop' = "astray" /\ UNCHANGED read_fds
        ELSE Done(d) \/ Stopped(W)
     /\ UNCHANGED crowded

Exit(d, c, i) ==
  /\ Request(d, c, i, "exit")
  /\ peer' = [peer EXCEPT ![c] = "gone"]
  /\ Leave(d, c, i, Used)

\* recv finds no line and no client.
ClientLeaves(d, c) ==
  /\ Turn(d) /\ fds[d] = Connection(c) /\ line[c] = NoLine
  /\ Leave(d, c, Index(d), Used)
  /\ UNCHANGED client
-----------------------------------------------------------------------------
(* ExecuteCommand.                                                         *)

Receives(i, from) == from \in Used /\ user_pipe[<<from, i>>].ispiped
Sends(i, to) == to \in Used /\ ~user_pipe[<<i, to>>].ispiped

\* Shell runs while two copies of standard output and error hold the next two numbers.
\* Of the pipe's two the write end is closed again after the fork.
NewPipe == [ispiped |-> TRUE, read |-> NthFree(3), write |-> NthFree(4)]

\* Nobody refuses a number beyond the table, and the server reads, writes and
\* closes what it finds there: what follows is undefined.
ExecUndefined(d, c, i) ==
  /\ Request(d, c, i, "exec")
  /\ Beyond(line[c])
  /\ loop' = "undefined"
  /\ UNCHANGED <<clientset, id_queue, user_pipe, fds, master, read_fds, peer, crowded>>

\* The command is waited for.  One that fills a pipe never ends, since its reader
\* is started by the server that waits.
Exec(d, c, i) ==
  /\ Request(d, c, i, "exec")
  /\ ~Beyond(line[c])
  /\ LET from == line[c].from
         to == line[c].to
         in == IF Receives(i, from) THEN {<<from, i>>} ELSE {}
         out == IF Sends(i, to) THEN {<<i, to>>} ELSE {}
         read == {user_pipe[p].read : p \in in}
     IN /\ user_pipe' = [p \in Pipes |->
             IF p \in out THEN NewPipe
             ELSE IF p \in in THEN [user_pipe[p] EXCEPT !.ispiped = FALSE]
             ELSE user_pipe[p]]
        /\ fds' = [e \in Fds |-> IF out # {} /\ e = NthFree(3)
                                 THEN ReadEnd(<<i, to>>) ELSE Close(fds, read)[e]]
        /\ crowded' = (crowded \/ (out # {} /\ Unread \ in # {}))
        /\ IF Stray(read, {ReadEnd(p) : p \in in})
           THEN loop' = "astray" /\ UNCHANGED read_fds
           ELSE IF out # {} /\ line[c].big
           THEN loop' = "hung" /\ UNCHANGED read_fds
           ELSE Done(d) \/ Stopped(Used)
  /\ UNCHANGED <<clientset, id_queue, master, peer>>
-----------------------------------------------------------------------------
SingleNext ==
  \/ Select \/ AcceptUndefined
  \/ \E c \in Clients : Connect(c) \/ Type(c) \/ HangUp(c) \/ Accept(c)
  \/ \E d \in read_fds \ {0}, c \in Clients : ClientLeaves(d, c)
  \/ \E d \in read_fds \ {0}, c \in Clients, i \in Ids :
       \/ Talk(d, c, i) \/ Name(d, c, i) \/ Exit(d, c, i) \/ Exec(d, c, i)
       \/ BadArguments(d, c, i) \/ ExecUndefined(d, c, i)

SingleSpec == SingleInit /\ [][SingleNext]_vars
-----------------------------------------------------------------------------
(* Properties.                                                             *)

\* The variables keep their types.
SingleTypeOK ==
  /\ clientset \in [Ids -> [used: BOOLEAN, name: Names \cup {DefaultName, NoName},
                            sockfd: Fds \cup {0}, client: Clients \cup {Nobody}]]
  /\ id_queue \in [Ids -> {0, 1}]
  /\ user_pipe \in [Pipes -> [ispiped: BOOLEAN, read: Fds \cup {None}, write: Fds \cup {None}]]
  /\ fds \in [Fds -> {Unused} \cup {Connection(c) : c \in Clients} \cup {ReadEnd(p) : p \in Pipes}]
  /\ master \subseteq Fds /\ read_fds \subseteq Fds \cup {0}
  /\ loop \in {"select", "serve", "dead", "hung", "undefined", "astray"}
  /\ peer \in [Clients -> {"new", "connecting", "open", "gone"}]
  /\ line \in [Clients -> Lines \cup {NoLine}]
  /\ typed \in 0..MaxLines /\ crowded \in BOOLEAN

\* An id is in the queue or somebody's, and never both or neither, however sessions end.
IdsAccounted == \A i \in Ids : id_queue[i] = IF clientset[i].used THEN 0 ELSE 1

\* A pipe joins two clients who are present: the next owner of an id inherits none.
PipesOfPresent == \A p \in Pipes : user_pipe[p].ispiped => {p[1], p[2]} \subseteq Used

\* Every number that the table keeps means what it meant when it was stored, unless
\* closepipe has closed somebody else's; and it does that only if a number was handed
\* out while some pipe waited for its reader: otherwise the second close of a write
\* end is harmless.
OwnDescriptors ==
  IF loop = "astray" THEN crowded
  ELSE
    /\ \A i \in Used : fds[clientset[i].sockfd] = Connection(clientset[i].client)
    /\ \A p \in Pipes : user_pipe[p].ispiped => fds[user_pipe[p].read] = ReadEnd(p)

\* When the server waits it has no other descriptors than the connections that it
\* watches and the pipes that wait for their readers.
NoLeak ==
  loop = "select" =>
    /\ master = {clientset[i].sockfd : i \in Used}
    /\ {d \in Fds : fds[d] # Unused}
         = master \cup {user_pipe[p].read : p \in {q \in Pipes : user_pipe[q].ispiped}}

Table == INSTANCE ClientTable WITH
  Proc <- Clients, Slots <- Ids, NoProc <- Nobody,
  owner <- [i \in Ids |-> clientset[i].client],
  nick <- [i \in Ids |-> clientset[i].name]

\* The table behaves as ClientTable says: one entry per client, unique nicknames.
ImplementsClientTable == Table!Spec
================================================================================
