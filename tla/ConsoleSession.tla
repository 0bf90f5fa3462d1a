---------------------------- MODULE ConsoleSession ----------------------------
(***************************************************************************)
(* A session of the console CGI: connect to a remote shell, directly or    *)
(* (project 4) through a SOCKS server, and send it the lines of a file,    *)
(* one for every prompt read.                                              *)
(*                                                                         *)
(* The two projects differ in what follows a prompt.  In project 4 the     *)
(* session is a chain of callbacks with one operation at a time.  In       *)
(* project 3 the callback of a read starts the next read also when it has  *)
(* sent a line, and the callback of the send starts another: the reads in  *)
(* flight grow with the script, and they share one buffer.                 *)
(*                                                                         *)
(* `ready` is the queue of completed operations of io_service, whose       *)
(* callbacks run one after the other; operations complete meanwhile.  A    *)
(* read delivers what has come, which may end in the middle of a prompt;   *)
(* its callback looks for "% " in what this read delivered.                *)
(***************************************************************************)
EXTENDS RemoteShell, Integers, FiniteSets

CONSTANT MAX_LENGTH    \* the size of data_

ASSUME LengthAssumption == MAX_LENGTH \in Nat \ {0}

VARIABLES
  project,    \* 3 or 4: which of the two sessions this is
  stage,      \* "resolve", "connect", "socks", "run", "over", and "undefined"
              \* after a pop of the empty queue
  front,      \* the line at the front of cmd_que: front..Script are left
  data_,      \* the buffer of the reads
  reads,      \* how many reads are in flight
  ready,      \* completed operations: Sent, Failed, or the length of a read
  missed,     \* history: has a read ended in the middle of a prompt?
  raced       \* history: has a read completed before the last one's callback?

console == <<project, stage, front, data_, reads, ready, missed, raced>>
cvars == <<shell, console>>

Sent == -1
Failed == -2

\* Start: LoadCommand and Resolve.
ConsoleInit ==
  /\ ShellInit
  /\ project \in {3, 4}
  /\ stage = "resolve"
  /\ front = 1
  /\ data_ = <<>>
  /\ reads = 0
  /\ ready = <<>>
  /\ missed = FALSE
  /\ raced = FALSE

\* Resolve, Connect: an error ends the session.
Resolve ==
  /\ stage = "resolve"
  /\ stage' \in {"connect", "over"}
  /\ UNCHANGED <<shell, project, front, data_, reads, ready, missed, raced>>

\* With a SOCKS server, the request is written and its reply read first.
Connect ==
  /\ stage = "connect"
  /\ \/ stage' = "run" /\ reads' = 1
     \/ stage' = "over" /\ UNCHANGED reads
     \/ project = 4 /\ stage' = "socks" /\ UNCHANGED reads
  /\ UNCHANGED <<shell, project, front, data_, ready, missed, raced>>

\* do_read while checkSocksreply: a refusal, or an error, closes the socket.
SocksReply ==
  /\ stage = "socks"
  /\ \/ stage' = "run" /\ reads' = 1
     \/ stage' = "over" /\ UNCHANGED reads
  /\ UNCHANGED <<shell, project, front, data_, ready, missed, raced>>

\* The first read in flight completes.  It overwrites the beginning of data_.
Read ==
  /\ stage = "run" /\ reads > 0
  /\ \E n \in 1..MAX_LENGTH :
       /\ n <= Len(wire)
       /\ data_' = SubSeq(wire, 1, n) \o SubSeq(data_, n + 1, Len(data_))
       /\ ready' = Append(ready, n)
       /\ wire' = SubSeq(wire, n + 1, Len(wire))
       /\ missed' = (missed \/ wire[n] = "percent")
  /\ reads' = reads - 1
  /\ raced' = (raced \/ \E i \in 1..Len(ready) : ready[i] > 0)
  /\ UNCHANGED <<log, taken, remote, prompts, printed, project, stage, front>>

\* End of file, or a reset if the shell left with a line unread.  No read
\* follows, and in project 4 the socket is closed.
ReadFails ==
  /\ stage = "run" /\ reads > 0
  /\ remote = "closed"
  /\ wire = <<>> \/ taken < Len(log)
  /\ reads' = reads - 1
  /\ UNCHANGED <<shell, project, stage, front, data_, ready, missed, raced>>

\* do_write: async_send is given the front of the queue.  It may fail if the
\* shell has left.  Without a line, nothing is started.  The socket takes the
\* line as a whole and at once: the code looks neither at the length that was
\* sent, nor does it keep the text any longer.
DoWrite ==
  \/ /\ front <= Script
     /\ log' = Append(log, front)
     /\ ready' = Append(Tail(ready), Sent)
  \/ /\ front <= Script /\ remote = "closed"
     /\ ready' = Append(Tail(ready), Failed)
     /\ UNCHANGED log
  \/ /\ front > Script
     /\ ready' = Tail(ready)
     /\ UNCHANGED log

\* The completed operation whose callback is next.
Completed(op) == stage = "run" /\ ready # <<>> /\ Head(ready) = op
ReadDone == stage = "run" /\ ready # <<>> /\ Head(ready) > 0

\* What the callback of a read sees: the buffer as it is now.
Ret == SubSeq(data_, 1, Head(ready))

\* Mutant: any output counts as a prompt.
OnReadAny ==
  /\ ReadDone
  /\ DoWrite
  /\ reads' = IF project = 3 THEN reads + 1 ELSE reads
  /\ UNCHANGED <<wire, taken, remote, prompts, printed,
                 project, stage, front, data_, missed, raced>>

\* Mutant: output without a prompt is not followed by another read.
OnReadStops ==
  /\ ReadDone
  /\ \/ /\ HasPrompt(Ret)
        /\ DoWrite
        /\ reads' = IF project = 3 THEN reads + 1 ELSE reads
     \/ /\ ~HasPrompt(Ret)
        /\ ready' = Tail(ready)
        /\ UNCHANGED <<log, reads>>
  /\ UNCHANGED <<wire, taken, remote, prompts, printed,
                 project, stage, front, data_, missed, raced>>

\* Mutant: project 4 goes on reading after a prompt, as project 3 does.
OnReadGoesOn ==
  /\ ReadDone
  /\ \/ /\ HasPrompt(Ret)
        /\ DoWrite
     \/ /\ ~HasPrompt(Ret)
        /\ ready' = Tail(ready)
        /\ UNCHANGED log
  /\ reads' = reads + 1
  /\ UNCHANGED <<wire, taken, remote, prompts, printed,
                 project, stage, front, data_, missed, raced>>

\* The callback of do_read.
OnRead ==
  /\ ReadDone
  /\ \/ /\ HasPrompt(Ret)
        /\ DoWrite
        /\ reads' = IF project = 3 THEN reads + 1 ELSE reads
     \/ /\ ~HasPrompt(Ret)
        /\ ready' = Tail(ready)
        /\ reads' = reads + 1
        /\ UNCHANGED log
  /\ UNCHANGED <<wire, taken, remote, prompts, printed,
                 project, stage, front, data_, missed, raced>>

\* The callback of do_write: pop, and read.  pop of an empty queue is undefined.
OnSent ==
  /\ Completed(Sent)
  /\ ready' = Tail(ready)
  /\ front' = front + 1
  /\ stage' = IF front <= Script THEN "run" ELSE "undefined"
  /\ reads' = reads + 1
  /\ UNCHANGED <<shell, project, data_, missed, raced>>

OnSendFailure ==
  /\ Completed(Failed)
  /\ ready' = Tail(ready)
  /\ UNCHANGED <<shell, project, stage, front, data_, reads, missed, raced>>

\* No operation is left: run() returns when all sessions are there.
Finish ==
  /\ stage = "run"
  /\ reads = 0 /\ ready = <<>>
  /\ stage' = "over"
  /\ UNCHANGED <<shell, project, front, data_, reads, ready, missed, raced>>
-----------------------------------------------------------------------------
ConsoleStep ==
  \/ Resolve \/ Connect \/ SocksReply \/ Read \/ ReadFails
  \/ OnRead \/ OnSent \/ OnSendFailure \/ Finish

RemoteStep ==
  /\ stage = "run"
  /\ ShellNext
  /\ UNCHANGED console

\* What makes the shell go on: it prompts and reads the lines it is sent.
RemoteGoesOn ==
  /\ stage = "run"
  /\ IssuePrompt \/ TakeLine
  /\ UNCHANGED console

ConsoleNext == ConsoleStep \/ RemoteStep

ConsoleSpec == ConsoleInit /\ [][ConsoleNext]_cvars
ConsoleFairSpec ==
  ConsoleSpec /\ WF_cvars(ConsoleStep) /\ WF_cvars(RemoteGoesOn)
-----------------------------------------------------------------------------
(* Properties.                                                             *)

\* Types; and what is in flight.  Project 4 never has more than one operation, so
\* its reads never overlap.  In project 3 the reads in flight, and those whose
\* callback is awaited, are one and one for every line popped, until a read fails;
\* the queue is never popped when it is empty before some reads have overlapped.
Operations ==
  /\ project \in {3, 4}
  /\ stage \in {"resolve", "connect", "socks", "run", "over", "undefined"}
  /\ data_ \in Seq({"text", "percent", "space"})
  /\ ready \in Seq({Sent, Failed} \cup 1..MAX_LENGTH)
  /\ LET all == reads + Cardinality({i \in 1..Len(ready) : ready[i] > 0})
     IN /\ all <= front
        /\ project = 4 => reads + Len(ready) <= 1
        /\ project = 3 /\ stage = "run" /\ remote # "closed" => all = front
  /\ raced => project = 3
  /\ stage = "undefined" => raced

Runner == INSTANCE ScriptRunner

\* However the output is cut into reads and whatever it contains, the lines are
\* sent in order, each once, and one at most for every "% ", until a read
\* completes while the callback of another is still to run.
ImplementsScript == Runner!Spec

\* A session that gets connected, and whose reads end in no prompt's middle and
\* do not overlap, sends its whole script, or the shell leaves first.
ScriptEnds ==
  []~(missed \/ raced) /\ <>(stage = "run") =>
    <>(front > Script \/ remote = "closed")
=============================================================================
