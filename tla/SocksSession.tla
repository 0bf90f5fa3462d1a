----------------------------- MODULE SocksSession -----------------------------
(***************************************************************************)
(* One session of the SOCKS4 server of project 4: a process of its own,    *)
(* forked by do_accept, that runs the callbacks of one io_service.         *)
(*                                                                         *)
(* It reads a request, resolves the destination, asks the firewall,        *)
(* connects or waits for a connection, replies, and then relays each       *)
(* direction: read some bytes into the buffer of the direction, write all  *)
(* of them, read again.  An operation is started, completes in the kernel  *)
(* (possibly with an error) and then its callback runs; the callbacks of   *)
(* the two directions come in any order.  The ends send, receive, shut     *)
(* down and close as they like.                                            *)
(***************************************************************************)
EXTENDS Firewall

CONSTANTS
  MaxSend,    \* bound: what an end sends
  Wire,       \* bound: what the kernel keeps for an end that does not read
  MAX_LENGTH  \* the size of a relay buffer

ASSUME BoundsAssumption == MaxSend \in Nat
ASSUME WireAssumption == Wire \in Nat \ {0}
ASSUME BufferAssumption == MAX_LENGTH \in Nat \ {0}

Sides == {"client", "server"}
Other(x) == IF x = "client" THEN "server" ELSE "client"

\* What an end sends: a numbered piece.  Piece 0 of the client is the part of
\* the request that the only read of the request did not get.
Token == Sides \X (0..MaxSend)

VARIABLES
  phase,     \* which callback is awaited
  command,   \* of the request, as parsed
  reply,     \* the reply of do_reply_client: its status, and was it written?
  replies,   \* the statuses written to the client so far
  socket,    \* client_socket_ and server_socket_: "open" or "closed"
  op,        \* [x]: the operation of the direction that starts at x
  buf,       \* input_buffer ("client") and output_buffer ("server"), unwritten
  peer,      \* the ends: "none", "open", "shut" (sends no more) or "closed"
  in, out,   \* [x]: in the kernel, from x and to x
  sent       \* [x]: how many pieces x has sent

session == <<phase, command, reply, replies, socket, op, buf>>
network == <<peer, in, out, sent>>
svars == <<session, network>>

granted == 90
failed == 91

SocksInit ==
  /\ phase = "request"
  /\ command = 0
  /\ reply = [status |-> failed, ok |-> FALSE]
  /\ replies = <<>>
  /\ socket = [client |-> "open", server |-> "closed"]
  /\ op = [x \in Sides |-> "idle"]
  /\ buf = [x \in Sides |-> <<>>]
  /\ peer = [client |-> "open", server |-> "none"]
  /\ in = [x \in Sides |-> <<>>]
  /\ out = [x \in Sides |-> <<>>]
  /\ sent = [x \in Sides |-> 0]
-----------------------------------------------------------------------------
(* The request.                                                            *)

Closed == [x \in Sides |-> "closed"]

\* No callback is left: run() returns or an exception leaves it, and the
\* process ends.
EndSession ==
  /\ phase' = "over"
  /\ socket' = Closed

\* A single read.  A request that comes in two segments is parsed from what
\* came and from uninitialised memory, so as any command, and its remainder
\* stays in the kernel.
ReadRequest ==
  /\ phase = "request"
  /\ phase' = "resolve"
  /\ \E c \in 1..3, split \in BOOLEAN :
       /\ command' = c
       /\ in' = [in EXCEPT !["client"] = IF split THEN <<<<"client", 0>>>> ELSE <<>>]
  /\ UNCHANGED <<reply, replies, socket, op, buf, peer, out, sent>>

RequestFails ==
  /\ phase = "request"
  /\ peer["client"] # "open"
  /\ EndSession
  /\ UNCHANGED <<command, reply, replies, op, buf, network>>

\* do_reply_client: the small write is done at once, ReplyWritten is its
\* callback.  A write to an end that has closed may fail or get lost.
DoReplyClient(s) ==
  /\ phase' = "reply"
  /\ \E ok \in BOOLEAN :
       /\ ~ok => peer["client"] = "closed"
       /\ reply' = [status |-> s, ok |-> ok]
       /\ replies' = IF ok THEN Append(replies, s) ELSE replies

\* The name does not resolve, or remote_endpoint throws as the client is gone.
ResolveFails ==
  /\ phase = "resolve"
  /\ EndSession
  /\ UNCHANGED <<command, reply, replies, op, buf, network>>

\* The firewall refuses: reply and close, without waiting for the callback.
Reject ==
  /\ phase = "resolve"
  /\ DoReplyClient(failed)
  /\ socket' = [socket EXCEPT !["client"] = "closed"]
  /\ UNCHANGED <<command, op, buf, network>>

AcceptConnect ==
  /\ phase = "resolve" /\ command = 1
  /\ phase' = "connect"
  /\ UNCHANGED <<command, reply, replies, socket, op, buf, network>>

\* BIND: the first reply is a synchronous write, which throws if it fails.
AcceptBind ==
  /\ phase = "resolve" /\ command = 2
  /\ \/ /\ phase' = "accept"
        /\ replies' = Append(replies, granted)
        /\ UNCHANGED socket
     \/ /\ peer["client"] = "closed"
        /\ EndSession
        /\ UNCHANGED replies
  /\ UNCHANGED <<command, reply, op, buf, network>>

\* Another command passes the switch: the session ends without a reply.
AcceptOther ==
  /\ phase = "resolve" /\ command = 3
  /\ EndSession
  /\ UNCHANGED <<command, reply, replies, op, buf, network>>

ServerArrives ==
  /\ socket' = [socket EXCEPT !["server"] = "open"]
  /\ peer' = [peer EXCEPT !["server"] = "open"]

\* do_connection.
Connected ==
  /\ phase = "connect"
  /\ DoReplyClient(granted)
  /\ ServerArrives
  /\ UNCHANGED <<command, op, buf, in, out, sent>>

ConnectFails ==
  /\ phase = "connect"
  /\ DoReplyClient(failed)
  /\ UNCHANGED <<command, socket, op, buf, network>>

\* Mutant: the relay starts without the second reply.
AcceptedSilently ==
  /\ phase = "accept"
  /\ phase' = "relay"
  /\ op' = [x \in Sides |-> "reading"]
  /\ ServerArrives
  /\ UNCHANGED <<command, reply, replies, buf, in, out, sent>>

\* do_accept: somebody connects to the bound port.
Accepted ==
  /\ phase = "accept"
  /\ DoReplyClient(granted)
  /\ ServerArrives
  /\ UNCHANGED <<command, op, buf, in, out, sent>>

AcceptFails ==
  /\ phase = "accept"
  /\ EndSession
  /\ UNCHANGED <<command, reply, replies, op, buf, network>>

ReplyWritten ==
  /\ phase = "reply"
  /\ \/ /\ reply = [status |-> granted, ok |-> TRUE]
        /\ phase' = "relay"
        /\ op' = [x \in Sides |-> "reading"]
        /\ UNCHANGED socket
     \/ /\ reply # [status |-> granted, ok |-> TRUE]
        /\ EndSession
        /\ UNCHANGED op
  /\ UNCHANGED <<command, reply, replies, buf, network>>
-----------------------------------------------------------------------------
(* The relay.  Direction x is read_client, write_server for the client and *)
(* read_server, write_client for the server.                               *)

\* Mutant: the two directions share one buffer.
ReadSomeShared(x) ==
  /\ op[x] = "reading" /\ socket[x] = "open"
  /\ \E n \in 1..MAX_LENGTH :
       /\ n <= Len(in[x])
       /\ buf' = [y \in Sides |-> SubSeq(in[x], 1, n)]
       /\ in' = [in EXCEPT ![x] = SubSeq(@, n + 1, Len(@))]
  /\ op' = [op EXCEPT ![x] = "hasRead"]
  /\ UNCHANGED <<phase, command, reply, replies, socket, peer, out, sent>>

\* async_read_some completes with as much as has come.
ReadSome(x) ==
  /\ op[x] = "reading" /\ socket[x] = "open"
  /\ \E n \in 1..MAX_LENGTH :
       /\ n <= Len(in[x])
       /\ buf' = [buf EXCEPT ![x] = SubSeq(in[x], 1, n)]
       /\ in' = [in EXCEPT ![x] = SubSeq(@, n + 1, Len(@))]
  /\ op' = [op EXCEPT ![x] = "hasRead"]
  /\ UNCHANGED <<phase, command, reply, replies, socket, peer, out, sent>>

\* End of file, or a reset.
ReadFails(x) ==
  /\ op[x] = "reading" /\ socket[x] = "open"
  /\ \/ peer[x] = "shut" /\ in[x] = <<>>
     \/ peer[x] = "closed"
  /\ op' = [op EXCEPT ![x] = "failed"]
  /\ UNCHANGED <<phase, command, reply, replies, socket, buf, network>>

\* The callback of a read.  An operation on a closed socket fails at once.
OnRead(x) ==
  /\ op[x] = "hasRead"
  /\ op' = [op EXCEPT ![x] = IF socket[Other(x)] = "open" THEN "writing" ELSE "failed"]
  /\ UNCHANGED <<phase, command, reply, replies, socket, buf, network>>

\* Mutant: async_send instead of async_write, which may write a part only.
WriteOnce(x) ==
  /\ op[x] = "writing" /\ socket[Other(x)] = "open"
  /\ Len(out[Other(x)]) < Wire
  /\ out' = [out EXCEPT ![Other(x)] = Append(@, Head(buf[x]))]
  /\ buf' = [buf EXCEPT ![x] = Tail(@)]
  /\ op' = [op EXCEPT ![x] = "hasWritten"]
  /\ UNCHANGED <<phase, command, reply, replies, socket, peer, in, sent>>

\* async_write goes on until the whole buffer is written.
WriteSome(x) ==
  /\ op[x] = "writing" /\ socket[Other(x)] = "open"
  /\ Len(out[Other(x)]) < Wire
  /\ out' = [out EXCEPT ![Other(x)] = Append(@, Head(buf[x]))]
  /\ buf' = [buf EXCEPT ![x] = Tail(@)]
  /\ op' = [op EXCEPT ![x] = IF Tail(buf[x]) = <<>> THEN "hasWritten" ELSE "writing"]
  /\ UNCHANGED <<phase, command, reply, replies, socket, peer, in, sent>>

WriteFails(x) ==
  /\ op[x] = "writing" /\ socket[Other(x)] = "open"
  /\ peer[Other(x)] = "closed"
  /\ op' = [op EXCEPT ![x] = "failed"]
  /\ UNCHANGED <<phase, command, reply, replies, socket, buf, network>>

OnWritten(x) ==
  /\ op[x] = "hasWritten"
  /\ op' = [op EXCEPT ![x] = IF socket[x] = "open" THEN "reading" ELSE "failed"]
  /\ UNCHANGED <<phase, command, reply, replies, socket, buf, network>>

\* Mutant: the callback closes the socket it has failed on, and no other.
OnFailureOne(x) ==
  /\ op[x] = "failed"
  /\ socket' = [socket EXCEPT ![x] = "closed"]
  /\ op' = [op EXCEPT ![x] = "idle"]
  /\ UNCHANGED <<phase, command, reply, replies, buf, network>>

\* Every error callback closes both sockets, which aborts the operation that
\* the other direction has started; a completed one keeps its result.
OnFailure(x) ==
  /\ op[x] = "failed"
  /\ socket' = Closed
  /\ op' = [op EXCEPT ![x] = "idle",
                      ![Other(x)] = IF @ \in {"reading", "writing"}
                                    THEN "failed" ELSE @]
  /\ UNCHANGED <<phase, command, reply, replies, buf, network>>

\* run() has nothing left to wait for.
RelayEnds ==
  /\ phase = "relay"
  /\ \A x \in Sides : op[x] = "idle"
  /\ EndSession
  /\ UNCHANGED <<command, reply, replies, op, buf, network>>
-----------------------------------------------------------------------------
(* The ends.  The client sends data once its request has been read.        *)

EndSends(x) ==
  /\ peer[x] = "open" /\ socket[x] = "open" /\ phase # "request"
  /\ sent[x] < MaxSend
  /\ sent' = [sent EXCEPT ![x] = @ + 1]
  /\ in' = [in EXCEPT ![x] = Append(@, <<x, sent'[x]>>)]
  /\ UNCHANGED <<session, peer, out>>

EndReceives(x) ==
  /\ peer[x] \in {"open", "shut"}
  /\ out[x] # <<>>
  /\ out' = [out EXCEPT ![x] = Tail(@)]
  /\ UNCHANGED <<session, peer, in, sent>>

EndShuts(x) ==
  /\ peer[x] = "open"
  /\ peer' = [peer EXCEPT ![x] = "shut"]
  /\ UNCHANGED <<session, in, out, sent>>

EndCloses(x) ==
  /\ peer[x] \in {"open", "shut"}
  /\ peer' = [peer EXCEPT ![x] = "closed"]
  /\ UNCHANGED <<session, in, out, sent>>
-----------------------------------------------------------------------------
RelayStep(x) ==
  \/ ReadSome(x) \/ ReadFails(x) \/ OnRead(x)
  \/ WriteSome(x) \/ WriteFails(x) \/ OnWritten(x) \/ OnFailure(x)

SessionStep ==
  \/ ReadRequest \/ RequestFails
  \/ ResolveFails \/ Reject \/ AcceptConnect \/ AcceptBind \/ AcceptOther
  \/ Connected \/ ConnectFails \/ ReplyWritten
  \/ \E x \in Sides : RelayStep(x)
  \/ RelayEnds

EndStep(x) == EndSends(x) \/ EndReceives(x) \/ EndShuts(x) \/ EndCloses(x)

SocksNext == SessionStep \/ Accepted \/ AcceptFails \/ \E x \in Sides : EndStep(x)

SocksSpec == SocksInit /\ [][SocksNext]_svars

\* The kernel and io_service complete what can be completed; an end that has
\* not closed reads what it is sent.  Nobody needs to connect to a bound port.
SocksFairness ==
  /\ WF_svars(SessionStep)
  /\ \A x \in Sides : WF_svars(RelayStep(x)) /\ WF_svars(EndReceives(x))
SocksFairSpec == SocksSpec /\ SocksFairness
-----------------------------------------------------------------------------
(* Properties.                                                             *)

\* The verdict that Reject and the Accept actions stand for is the one that the rules
\* mean (Firewall); it depends on no state, so it is looked at in one.
FirewallDecides == phase = "request" /\ peer["client"] = "open" => Decides

\* The client gets the replies of its command, one for CONNECT and two for
\* BIND or a single refusal, and no relayed byte is written before the last.
RepliesFirst ==
  LET all == IF command = 2 THEN <<granted, granted>> ELSE <<granted>>
  IN /\ replies \in {<<>>, <<granted>>, all, <<failed>>}
     /\ out["client"] # <<>> \/ op["server"] # "idle" => replies = all

\* A server that sends its answer and shuts down is heard to the end: if the
\* client stays, the session closes only when all of it has been written.
AnswerComplete ==
  socket["client"] = "closed" /\ peer = [client |-> "open", server |-> "shut"]
    => buf["server"] = <<>> /\ in["server"] = <<>>

\* A session whose client or server has left comes to its end, whatever its
\* two directions were doing, unless it still waits for the connection of BIND.
SessionEnds ==
  (\E x \in Sides : peer[x] \in {"shut", "closed"}) ~> phase \in {"over", "accept"}

\* What is on its way from x: once the sockets are closed, only what the
\* kernel of the other end already has.
InTransit(x) ==
  IF socket["client"] = "closed" THEN out[Other(x)]
  ELSE out[Other(x)] \o buf[x] \o in[x]

Proxied == INSTANCE ProxiedConnection WITH
  status <- IF socket["client"] = "closed" THEN "broken"
            ELSE IF phase = "relay" THEN "open" ELSE "waiting",
  chan <- [x \in Sides |-> InTransit(x)]

\* The callbacks of the two directions, with their buffers, errors and closed
\* sockets, implement a connection that loses at most what is sent last.
ImplementsProxied == Proxied!Spec
=============================================================================
