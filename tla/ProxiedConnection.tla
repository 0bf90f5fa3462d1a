--------------------------- MODULE ProxiedConnection ---------------------------
(***************************************************************************)
(* What a SOCKS session promises to its two ends: a connection.  Each      *)
(* direction is a FIFO channel; nothing is delivered before the connection *)
(* opens, and when it breaks each channel loses at most its newest part.   *)
(***************************************************************************)
EXTENDS Naturals, Sequences

CONSTANT Token    \* what the ends send

Sides == {"client", "server"}
Other(x) == CHOOSE y \in Sides : y # x

VARIABLES
  status,   \* "waiting", "open" or "broken"
  chan      \* [x]: sent by x and not yet received by Other(x)

Init ==
  /\ status = "waiting"
  /\ chan = [x \in Sides |-> <<>>]

Open ==
  /\ status = "waiting"
  /\ status' = "open"
  /\ UNCHANGED chan

Send(x) ==
  /\ status # "broken"
  /\ \E t \in Token : chan' = [chan EXCEPT ![x] = Append(@, t)]
  /\ UNCHANGED status

Receive(y) ==
  /\ status # "waiting"
  /\ chan[Other(y)] # <<>>
  /\ chan' = [chan EXCEPT ![Other(y)] = Tail(@)]
  /\ UNCHANGED status

Break ==
  /\ status # "broken"
  /\ status' = "broken"
  /\ \E m \in 0..Len(chan["client"]), n \in 0..Len(chan["server"]) :
       chan' = [client |-> SubSeq(chan["client"], 1, m),
                server |-> SubSeq(chan["server"], 1, n)]

Next == Open \/ Break \/ \E x \in Sides : Send(x) \/ Receive(x)

Spec == Init /\ [][Next]_<<status, chan>>
=============================================================================
