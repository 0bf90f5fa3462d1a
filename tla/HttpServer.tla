------------------------------ MODULE HttpServer -------------------------------
(***************************************************************************)
(* The HTTP server of project 3.  One process serves all connections from  *)
(* one io_service: an operation that has completed waits until its handler *)
(* runs, and what else happens in between is left open.  For a file that   *)
(* exists the server forks, and the child executes it with the connection  *)
(* as its standard streams.  When execlp fails, the child returns into its *)
(* copy of the io_service and becomes a second server.                     *)
(*                                                                         *)
(* Left out: accept and socket calls that fail for want of descriptors,    *)
(* and what a program reads.                                               *)
(***************************************************************************)
EXTENDS RequestParser, FiniteSets

CONSTANTS
  Clients,    \* each connects once at most
  Processes,  \* bound: the processes there is room for
  Root,       \* the one that main starts
  Requests,   \* per client: the texts that it may send
  Path,       \* the path of a file that comes and goes
  TooLong,    \* paths that stat refuses for a reason other than their absence
  Cuts,       \* bound: where a text may be cut, besides its end
  Leavers,    \* the clients that may close or reset their connection
  NoClient

ASSUME ProcessesAssumption == Root \in Processes
ASSUME ClientsAssumption == NoClient \notin Clients /\ Leavers \subseteq Clients
ASSUME TextsAssumption ==
  Cuts \subseteq Nat /\ \A c \in Clients : Requests[c] \subseteq Seq(Char)

Files == {"absent", "plain", "program"}   \* at Path: also no regular file, or no x bit
StatusLines == {"200", "404", "400"}

VARIABLES
  \* of the clients
  peer,     \* "away", "there", "closed" (it sent FIN) or "reset"
  text,     \* what it sends, all of it
  read,     \* how much of it the servers have read
  reply,    \* what was written to it: status lines, "output", "log"
  meant,    \* history: verdict and path of the text as a whole
  \* of the system
  backlog,  \* connections that no process has accepted yet
  file,     \* what Path names
  touched,  \* history: clients whose file changed after their status line
  inherited,\* history: clients whose accepted connection a child has taken along
  \* of the processes
  mode,     \* "unborn", "serves", "forked", "program", "ended" or "dead"
  acceptor, \* the connection whose accept handler has not run, if any
  open,     \* the connections whose sockets it has open
  stdio,    \* the connection that is its standard input and output
  op,       \* per connection: the operation that is outstanding
  piece,    \* per connection: what the last read has put into data_
  parser    \* per connection: request_parser_ and request_

hvars == <<peer, text, read, reply, meant, backlog, file, touched, inherited,
           mode, acceptor, open, stdio, op, piece, parser>>
peers == <<peer, text, meant>>
environment == <<file, touched>>
tables == <<op, piece, parser>>

NoOps == [c \in Clients |-> "none"]
NoPieces == [c \in Clients |-> <<>>]
Starts == [c \in Clients |-> Start]

HttpInit ==
  /\ peer = [c \in Clients |-> "away"]
  /\ text = [c \in Clients |-> <<>>]
  /\ read = [c \in Clients |-> 0]
  /\ reply = [c \in Clients |-> <<>>]
  /\ meant = [c \in Clients |-> [verdict |-> "indeterminate", path |-> <<>>]]
  /\ backlog = {}
  /\ file \in Files
  /\ touched = {}
  /\ inherited = {}
  /\ mode = [p \in Processes |-> IF p = Root THEN "serves" ELSE "unborn"]
  /\ acceptor = [p \in Processes |-> NoClient]
  /\ open = [p \in Processes |-> {}]
  /\ stdio = [p \in Processes |-> NoClient]
  /\ op = [p \in Processes |-> NoOps]
  /\ piece = [p \in Processes |-> NoPieces]
  /\ parser = [p \in Processes |-> Starts]
--------------------------------------------------------------------------------
(***************************************************************************)
(* Clients and files.  The listening socket is open in every process: the  *)
(* child does not close it ("acceptor not close"), and execlp keeps it.    *)
(***************************************************************************)
Live(p) == mode[p] \in {"serves", "forked", "program"}

Connect(c) ==
  /\ peer[c] = "away"
  /\ \E p \in Processes : Live(p)
  /\ \E t \in Requests[c] :
       /\ text' = [text EXCEPT ![c] = t]
       /\ meant' = [meant EXCEPT ![c] =
                      [verdict |-> Meaning(t), path |-> FilePath(Parse(Start, t).uri)]]
  /\ peer' = [peer EXCEPT ![c] = "there"]
  /\ backlog' = backlog \cup {c}
  /\ UNCHANGED <<read, reply, environment, inherited, mode, acceptor, open, stdio, tables>>

Leave(c) ==
  /\ c \in Leavers
  /\ \/ peer[c] = "there" /\ peer' = [peer EXCEPT ![c] = "closed"]
     \/ peer[c] \in {"there", "closed"} /\ peer' = [peer EXCEPT ![c] = "reset"]
  /\ UNCHANGED <<text, read, reply, meant, backlog, environment, inherited, mode, acceptor,
                 open, stdio, tables>>

ChangeFile ==
  /\ file' \in Files \ {file}
  /\ touched' = touched \cup {c \in Clients : reply[c] # <<>> /\ meant[c].path = Path}
  /\ UNCHANGED <<peers, read, reply, backlog, inherited, mode, acceptor, open, stdio, tables>>
--------------------------------------------------------------------------------
(***************************************************************************)
(* Steps that handlers share.                                              *)
(***************************************************************************)
\* The process ends, by an exception, a signal or its own exit: the kernel closes
\* what it had open, and the last process takes the waiting connections with it.
End(p, how) ==
  /\ mode' = [mode EXCEPT ![p] = how]
  /\ acceptor' = [acceptor EXCEPT ![p] = NoClient]
  /\ open' = [open EXCEPT ![p] = {}]
  /\ stdio' = [stdio EXCEPT ![p] = NoClient]
  /\ op' = [op EXCEPT ![p] = NoOps]
  /\ piece' = [piece EXCEPT ![p] = NoPieces]
  /\ parser' = [parser EXCEPT ![p] = Starts]
  /\ backlog' = IF \E q \in Processes \ {p} : Live(q) THEN backlog ELSE {}
  /\ UNCHANGED <<peers, read, environment, inherited>>

\* connection_manager::stop; the connection and its parser are destroyed.
Stop(p, c) ==
  /\ open' = [open EXCEPT ![p] = @ \ {c}]
  /\ op' = [op EXCEPT ![p][c] = "none"]
  /\ parser' = [parser EXCEPT ![p][c] = Start]

\* cout goes to standard output, which is a connection in a second server.
Logged(p) ==
  IF stdio[p] = NoClient THEN reply ELSE [reply EXCEPT ![stdio[p]] = Append(@, "log")]
LogKills(p) == stdio[p] # NoClient /\ peer[stdio[p]] = "reset"

\* Mutant: is_regular_file throws for a file that is absent, too.
StatThrows(uri) ==
  IF FilePath(uri) = Path /\ file # "absent" THEN file ELSE "error"

\* is_regular_file: "error" is an exception.
Stat(uri) ==
  IF FilePath(uri) \in TooLong THEN "error"
  ELSE IF FilePath(uri) = Path THEN file ELSE "absent"

Regular(uri) == Stat(uri) \in {"plain", "program"}

--------------------------------------------------------------------------------
(***************************************************************************)
(* Operations of the io_service and their handlers.                        *)
(***************************************************************************)
Serves(p) == mode[p] = "serves"

Accept(p) ==
  /\ Serves(p)
  /\ acceptor[p] = NoClient
  /\ \E c \in backlog :
       /\ acceptor' = [acceptor EXCEPT ![p] = c]
       /\ open' = [open EXCEPT ![p] = @ \cup {c}]
       /\ backlog' = backlog \ {c}
  /\ UNCHANGED <<peers, read, reply, environment, inherited, mode, stdio, tables>>

\* The handler of async_accept: connection_manager::start.
Accepted(p) ==
  /\ Serves(p)
  /\ acceptor[p] # NoClient
  /\ op' = [op EXCEPT ![p][acceptor[p]] = "reading"]
  /\ acceptor' = [acceptor EXCEPT ![p] = NoClient]
  /\ UNCHANGED <<peers, read, reply, backlog, environment, inherited, mode, open, stdio, piece, parser>>

\* A reset discards what was not read; a FIN comes after it.
Receive(p, c) ==
  /\ Serves(p)
  /\ op[p][c] = "reading"
  /\ \/ /\ peer[c] # "reset"
        /\ \E n \in Cuts \cup {Len(text[c])} :
             /\ read[c] < n /\ n <= Len(text[c])
             /\ piece' = [piece EXCEPT ![p][c] = SubSeq(text[c], read[c] + 1, n)]
             /\ read' = [read EXCEPT ![c] = n]
        /\ op' = [op EXCEPT ![p][c] = "read"]
     \/ /\ peer[c] = "reset" \/ (peer[c] = "closed" /\ read[c] = Len(text[c]))
        /\ op' = [op EXCEPT ![p][c] = "failed"]
        /\ UNCHANGED <<read, piece>>
  /\ UNCHANGED <<peers, reply, backlog, environment, inherited, mode, acceptor, open, stdio,
                 parser>>

\* Any error of the read, end of file too, ends the connection.
ReadFailed(p, c) ==
  /\ Serves(p)
  /\ op[p][c] = "failed"
  /\ Stop(p, c)
  /\ UNCHANGED <<peers, read, reply, backlog, environment, inherited, mode, acceptor, stdio,
                 piece>>

\* Mutant: every read is parsed from the start.
ParsedAfresh(p, c) == Parse(Start, piece[p][c])

Parsed(p, c) == Parse(parser[p][c], piece[p][c])

\* do_read again; in a second server the socket may be closed, and the read fails.
ParseMore(p, c, q) ==
  /\ q.state \notin Verdicts
  /\ op' = [op EXCEPT ![p][c] = IF c \in open[p] THEN "reading" ELSE "failed"]
  /\ parser' = [parser EXCEPT ![p][c] = q]
  /\ piece' = [piece EXCEPT ![p][c] = <<>>]
  /\ UNCHANGED <<peers, read, reply, backlog, environment, inherited, mode, acceptor, open,
                 stdio>>

StatusLine(q) ==
  IF q.state = "bad" THEN "400" ELSE IF Regular(q.uri) THEN "200" ELSE "404"

\* Handle_request: the log line, the first test of the file, the status line.
HandleThrows(p, c, q) ==
  /\ q.state \in Verdicts
  /\ LogKills(p) \/ (q.state = "good" /\ Stat(q.uri) = "error")
  /\ reply' = IF LogKills(p) THEN reply ELSE Logged(p)
  /\ End(p, "dead")

HandleRequest(p, c, q) ==
  /\ q.state \in Verdicts
  /\ ~LogKills(p)
  /\ q.state = "good" => Stat(q.uri) # "error"
  /\ IF c \in open[p] /\ peer[c] # "reset"
     THEN /\ reply' = [Logged(p) EXCEPT ![c] = Append(@, StatusLine(q))]
          /\ op' = [op EXCEPT ![p][c] = "sent"]
     ELSE /\ reply' = Logged(p)
          /\ op' = [op EXCEPT ![p][c] = "sendfailed"]
  /\ parser' = [parser EXCEPT ![p][c] = q]
  /\ piece' = [piece EXCEPT ![p][c] = <<>>]
  /\ UNCHANGED <<peers, read, backlog, environment, inherited, mode, acceptor, open, stdio>>

\* The handler of async_read_some when bytes have come.
ReadDone(p, c) ==
  /\ Serves(p)
  /\ op[p][c] = "read"
  /\ \E q \in {Parsed(p, c)} :
       ParseMore(p, c, q) \/ HandleThrows(p, c, q) \/ HandleRequest(p, c, q)

\* Mutant: is_good_request is not looked at again.
AgainAnyway(p, c) == op[p][c] = "sent"

\* Is there a second test of the file?
Again(p, c) == op[p][c] = "sent" /\ parser[p][c].state = "good"

\* The handler of async_send where nothing is to be executed.
SendDone(p, c) ==
  /\ Serves(p)
  /\ op[p][c] \in {"sent", "sendfailed"}
  /\ Again(p, c) => Stat(parser[p][c].uri) = "absent"
  /\ Stop(p, c)
  /\ UNCHANGED <<peers, read, reply, backlog, environment, inherited, mode, acceptor, stdio,
                 piece>>

\* is_regular_file, local_endpoint of a closed socket, or remote_endpoint of one that
\* was reset throws, out of io_service::run; or the log raises SIGPIPE.
SendThrows(p, c) ==
  /\ Serves(p)
  /\ Again(p, c)
  /\ Stat(parser[p][c].uri) # "absent"
  /\ Stat(parser[p][c].uri) = "error" \/ c \notin open[p] \/ LogKills(p) \/ peer[c] = "reset"
  /\ reply' = IF Stat(parser[p][c].uri) = "error" \/ c \notin open[p] \/ LogKills(p)
              THEN reply ELSE Logged(p)
  /\ End(p, "dead")

\* Processes that do not exist yet are alike, so it does not matter which is next.
Free == {k \in Processes : mode[k] = "unborn"}
NewProcess == CHOOSE k \in Free : TRUE

\* fork: the child has a copy of everything; the parent closes the connection, also
\* when there is no child.
Fork(p, c) ==
  /\ Serves(p)
  /\ Again(p, c)
  /\ Regular(parser[p][c].uri)
  /\ c \in open[p] /\ ~LogKills(p) /\ peer[c] # "reset"
  /\ reply' = Logged(p)
  /\ IF Free = {}
     THEN Stop(p, c) /\ UNCHANGED <<mode, acceptor, stdio, piece>>
     ELSE \E k \in {NewProcess} :
            /\ mode' = [mode EXCEPT ![k] = "forked"]
            /\ acceptor' = [acceptor EXCEPT ![k] = acceptor[p]]
            /\ stdio' = [stdio EXCEPT ![k] = c]
            /\ open' = [open EXCEPT ![k] = open[p], ![p] = @ \ {c}]
            /\ op' = [op EXCEPT ![k] = op[p], ![p][c] = "none"]
            /\ piece' = [piece EXCEPT ![k] = piece[p]]
            /\ parser' = [parser EXCEPT ![k] = parser[p], ![p][c] = Start]
  /\ UNCHANGED <<peers, read, backlog, environment, inherited>>
--------------------------------------------------------------------------------
(***************************************************************************)
(* The child: stop_all closes every connection that has been started, so   *)
(* reads that wait are aborted, and handlers that are due run on sockets   *)
(* that are closed.  A connection whose accept handler is still due is not *)
(* among them.                                                             *)
(***************************************************************************)
\* Mutant: stop_all is forgotten.
AllOpen(k) == open[k]

\* What stop_all leaves open.
Unstarted(k) == {acceptor[k]} \ {NoClient}

\* A read that waits; and the handler that forked returns to stop its connection.
Aborted(k, c) == c = stdio[k] \/ op[k][c] = "reading"

\* The text that reports a failed execlp stays in cout, and reaches the client
\* together with the next "log", if one comes: it is not a reply of its own.
Exec(k) ==
  /\ mode[k] = "forked"
  /\ open' = [open EXCEPT ![k] = Unstarted(k)]
  /\ IF file = "program"
     THEN /\ mode' = [mode EXCEPT ![k] = "program"]
          /\ acceptor' = [acceptor EXCEPT ![k] = NoClient]
          /\ op' = [op EXCEPT ![k] = NoOps]
          /\ piece' = [piece EXCEPT ![k] = NoPieces]
          /\ parser' = [parser EXCEPT ![k] = Starts]
     ELSE /\ mode' = [mode EXCEPT ![k] = "serves"]
          /\ op' = [op EXCEPT ![k] =
                      [c \in Clients |-> IF Aborted(k, c) THEN "none" ELSE @[c]]]
          /\ parser' = [parser EXCEPT ![k] =
                          [c \in Clients |-> IF Aborted(k, c) THEN Start ELSE @[c]]]
          /\ UNCHANGED <<acceptor, piece>>
  /\ inherited' = inherited \cup ({acceptor[k]} \ {NoClient})
  /\ UNCHANGED <<peers, read, reply, backlog, environment, stdio>>

\* A program writes, and ends when it likes; SIGPIPE ends it too.
ProgramWrites(k) ==
  /\ mode[k] = "program"
  /\ peer[stdio[k]] # "reset"
  /\ reply[stdio[k]][Len(reply[stdio[k]])] # "output"
  /\ reply' = [reply EXCEPT ![stdio[k]] = Append(@, "output")]
  /\ UNCHANGED <<peers, read, backlog, environment, inherited, mode, acceptor, open, stdio,
                 tables>>

ProgramEnds(k) ==
  /\ mode[k] = "program"
  /\ End(k, "ended")
  /\ UNCHANGED reply

Handler(p, c) ==
  \/ ReadFailed(p, c)
  \/ ReadDone(p, c)
  \/ SendDone(p, c)
  \/ SendThrows(p, c)
  \/ Fork(p, c)

HttpNext ==
  \/ \E c \in Clients : Connect(c) \/ Leave(c)
  \/ ChangeFile
  \/ \E p \in Processes : \/ Accept(p) \/ Accepted(p)
                          \/ \E c \in Clients : Receive(p, c) \/ Handler(p, c)
                          \/ Exec(p) \/ ProgramWrites(p) \/ ProgramEnds(p)

HttpSpec == HttpInit /\ [][HttpNext]_hvars

\* A single thread runs every handler that is due; the kernel hands connections and
\* bytes over.  Programs may run for ever, and clients owe nothing.
HttpFairSpec ==
  /\ HttpSpec
  /\ \A p \in Processes :
       /\ WF_hvars(Accept(p))
       /\ WF_hvars(Accepted(p))
       /\ WF_hvars(Exec(p))
       /\ \A c \in Clients : WF_hvars(Receive(p, c)) /\ WF_hvars(Handler(p, c))
--------------------------------------------------------------------------------
Wrote(c, what) == \E i \in DOMAIN reply[c] : reply[c][i] \in what

\* execlp failed for some child, which became a server.
SecondServer == \E p \in Processes \ {Root} : mode[p] \in {"serves", "dead"}

\* Two servers read from this connection.
Doubled(c) == c \in inherited /\ SecondServer

\* However its text is cut, a client gets one status line at most, first of all, and it
\* is the one that the whole text calls for.  About do_read, Parse and Handle_request.
OneStatusLine ==
  \A c \in Clients : ~Doubled(c) =>
    \A i \in DOMAIN reply[c] : reply[c][i] \in StatusLines =>
      /\ i = 1
      /\ IF meant[c].verdict = "bad" THEN reply[c][i] = "400"
         ELSE meant[c].verdict = "good" /\ reply[c][i] # "400"

\* Only a client that was told 200 gets the output of a program, unless its file changed
\* between the two tests; and nobody gets both that and the log of a second server.
\* About the two calls of is_regular_file and the failure of execlp.
OutputFits ==
  \A c \in Clients : ~Doubled(c) =>
    /\ Wrote(c, {"output"}) => reply[c][1] = "200" \/ c \in touched
    /\ ~(Wrote(c, {"output"}) /\ Wrote(c, {"log"}))

\* The first server ends only by a good request: of a client that resets between its
\* status line and the handler of async_send, or for a path that stat refuses.  What
\* happens in second servers never ends it, unless one reads from the same connection:
\* what is left of a text may call for something else.  About the exceptions at lines 66
\* to 111.
RootSurvives ==
  mode[Root] = "dead" =>
    \E c \in Clients :
      \/ Doubled(c)
      \/ /\ meant[c].verdict = "good"
         /\ \/ meant[c].path \in TooLong
            \/ peer[c] = "reset" /\ Wrote(c, {"200", "404"})

\* Who has sent a whole request, or a bad one, and stays, gets an answer and its end.
\* The exceptions: a program, or the second server that failed to become one, talks to
\* it; a child took its connection along before it was started; it waits on a listening
\* socket that only programs have open; the process that served it died.
Held(c) == c \in backlog \/ \E p \in Processes : c \in open[p] \/ stdio[p] = c
Over(c) ==
  \/ peer[c] # "there"
  \/ ~Held(c) /\ (reply[c] # <<>> \/ \E p \in Processes : mode[p] = "dead")
  \/ \E p \in Processes : stdio[p] = c
  \/ c \in inherited
  \/ c \in backlog /\ \A p \in Processes : mode[p] \notin {"serves", "forked"}
Answered ==
  \A c \in Clients :
    peer[c] = "there" /\ meant[c].verdict # "indeterminate" ~> Over(c)

\* The machine of request_parser decides every sample as the grammar does.  A fact about
\* operators only, so it is evaluated before anybody connects.
ParserDecides == (\A c \in Clients : peer[c] = "away") => Agreement
================================================================================
