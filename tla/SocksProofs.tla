------------------------------ MODULE SocksProofs ------------------------------
(***************************************************************************)
(* Proofs about SocksSession, for any buffer and kernel sizes and whatever *)
(* the ends send: the replies (RepliesInv), what closing the sockets leaves *)
(* of the answer (ClosedWhenDone), that a session implements               *)
(* ProxiedConnection (RelayInv), and, last, that the comparison of texts   *)
(* in CheckFirewall decides as the rules mean (MatchesCovers).             *)
(***************************************************************************)
EXTENDS SocksSession, SequenceTheorems, WellFoundedInduction, TLAPS

(* Sequences of what the ends send.                                        *)

LEMMA Single ==
  ASSUME NEW S, NEW s \in S
  PROVE  <<s>> \in Seq(S)
OBVIOUS

\* What the steps of the relay do to what is in transit: o in the kernel of the
\* receiver, b in the buffer, i in the kernel of the sender.
LEMMA Regroup == \A s, t, u \in Seq(Token) : (s \o t) \o u = s \o (t \o u)
BY ConcatAssociative

LEMMA TransitRead ==
  ASSUME NEW o \in Seq(Token), NEW i \in Seq(Token), NEW n \in 1..Len(i)
  PROVE  o \o SubSeq(i, 1, n) \o SubSeq(i, n + 1, Len(i)) = o \o <<>> \o i
<1>1. Len(i) \in Nat /\ \A k \in 1..Len(i) : i[k] \in Token
  BY LenProperties, ElementOfSeq
<1>2. /\ SubSeq(i, 1, n) \in Seq(Token) /\ SubSeq(i, n + 1, Len(i)) \in Seq(Token)
  BY <1>1, SubSeqProperties
<1>3. SubSeq(i, 1, n) \o SubSeq(i, n + 1, Len(i)) = i
  <2>1. SubSeq(i, 1, n) \o SubSeq(i, n + 1, Len(i)) = SubSeq(i, 1, Len(i))
    BY <1>1, ConcatAdjacentSubSeq
  <2> QED BY <2>1, SubSeqFull
<1>4. (o \o SubSeq(i, 1, n)) \o SubSeq(i, n + 1, Len(i))
        = o \o (SubSeq(i, 1, n) \o SubSeq(i, n + 1, Len(i)))
  BY <1>2, Regroup
<1>5. o \o <<>> = o
  BY ConcatEmptySeq
<1> QED BY <1>3, <1>4, <1>5

LEMMA TransitWrite ==
  ASSUME NEW o \in Seq(Token), NEW b \in Seq(Token), b # <<>>
  PROVE  Append(o, Head(b)) \o Tail(b) = o \o b
<1>1. /\ Head(b) \in Token /\ Tail(b) \in Seq(Token) /\ Len(Tail(b)) = Len(b) - 1
      /\ \A k \in 1..Len(Tail(b)) : Tail(b)[k] = b[k + 1]
  BY HeadTailProperties
<1>2. Len(b) \in Nat \ {0} /\ Len(o) \in Nat /\ Head(b) = b[1]
  BY EmptySeq, LenProperties
<1>3. /\ <<Head(b)>> \in Seq(Token) /\ Len(<<Head(b)>>) = 1 /\ <<Head(b)>>[1] = Head(b)
  BY <1>1, Single
<1>4. <<Head(b)>> \o Tail(b) = b
  <2>1. /\ <<Head(b)>> \o Tail(b) \in Seq(Token)
        /\ Len(<<Head(b)>> \o Tail(b)) = Len(b)
        /\ \A k \in 1..Len(b) : (<<Head(b)>> \o Tail(b))[k]
                                  = IF k <= 1 THEN <<Head(b)>>[k] ELSE Tail(b)[k - 1]
    BY <1>1, <1>2, <1>3, ConcatProperties
  <2>2. \A k \in 1..Len(b) : (<<Head(b)>> \o Tail(b))[k] = b[k]
    BY <2>1, <1>1, <1>2, <1>3
  <2> QED BY <2>1, <2>2, SeqEqual
<1>5. Append(o, Head(b)) = o \o <<Head(b)>>
  BY <1>1, AppendIsConcat
<1>6. (o \o <<Head(b)>>) \o Tail(b) = o \o (<<Head(b)>> \o Tail(b))
  BY <1>1, <1>3, Regroup
<1> QED BY <1>4, <1>5, <1>6

LEMMA TransitSend ==
  ASSUME NEW s \in Seq(Token), NEW i \in Seq(Token), NEW t \in Token
  PROVE  s \o Append(i, t) = Append(s \o i, t)
<1>1. <<t>> \in Seq(Token) /\ s \o i \in Seq(Token)
  BY Single, ConcatProperties
<1>2. Append(i, t) = i \o <<t>> /\ Append(s \o i, t) = (s \o i) \o <<t>>
  BY <1>1, AppendIsConcat
<1> QED BY <1>1, <1>2, Regroup

LEMMA TransitReceive ==
  ASSUME NEW o \in Seq(Token), NEW s \in Seq(Token), o # <<>>
  PROVE  o \o s # <<>> /\ Tail(o) \o s = Tail(o \o s)
<1>1. /\ Tail(o) \in Seq(Token) /\ Len(Tail(o)) = Len(o) - 1
      /\ \A k \in 1..Len(Tail(o)) : Tail(o)[k] = o[k + 1]
  BY HeadTailProperties
<1>2. Len(o) \in Nat \ {0} /\ Len(s) \in Nat
  BY EmptySeq, LenProperties
<1>3. /\ o \o s \in Seq(Token) /\ Len(o \o s) = Len(o) + Len(s)
      /\ \A k \in 1..Len(o) + Len(s) :
           (o \o s)[k] = IF k <= Len(o) THEN o[k] ELSE s[k - Len(o)]
  BY ConcatProperties
<1>4. o \o s # <<>>
  BY <1>2, <1>3, EmptySeq
<1>5. /\ Tail(o \o s) \in Seq(Token) /\ Len(Tail(o \o s)) = Len(o \o s) - 1
      /\ \A k \in 1..Len(Tail(o \o s)) : Tail(o \o s)[k] = (o \o s)[k + 1]
  BY <1>3, <1>4, HeadTailProperties
<1>6. /\ Tail(o) \o s \in Seq(Token) /\ Len(Tail(o) \o s) = Len(Tail(o)) + Len(s)
      /\ \A k \in 1..Len(Tail(o)) + Len(s) :
           (Tail(o) \o s)[k] = IF k <= Len(Tail(o)) THEN Tail(o)[k] ELSE s[k - Len(Tail(o))]
  BY <1>1, ConcatProperties
<1>7. ASSUME NEW k \in 1..Len(Tail(o) \o s) PROVE (Tail(o) \o s)[k] = Tail(o \o s)[k]
  BY <1>1, <1>2, <1>3, <1>5, <1>6
<1> QED BY <1>1, <1>2, <1>3, <1>4, <1>5, <1>6, <1>7, SeqEqual

LEMMA TransitLeaves ==
  ASSUME NEW o \in Seq(Token), NEW b \in Seq(Token), NEW i \in Seq(Token), o # <<>>
  PROVE  (o \o b) \o i # <<>> /\ (Tail(o) \o b) \o i = Tail((o \o b) \o i)
<1>1. b \o i \in Seq(Token) /\ Tail(o) \in Seq(Token)
  BY ConcatProperties, HeadTailProperties
<1>2. PICK r \in Seq(Token) : r = Tail(o)
  BY <1>1
<1>3. (o \o b) \o i = o \o (b \o i) /\ (r \o b) \o i = r \o (b \o i)
  <2>1. (o \o b) \o i = o \o (b \o i)
    BY Regroup
  <2>2. (r \o b) \o i = r \o (b \o i)
    BY Regroup
  <2> QED BY <2>1, <2>2
<1>4. PICK t \in Seq(Token) : t = b \o i
  BY <1>1
<1>5. o \o t # <<>> /\ r \o t = Tail(o \o t)
  BY <1>2, TransitReceive
<1> QED BY <1>2, <1>3, <1>4, <1>5

LEMMA TransitBreak ==
  ASSUME NEW o \in Seq(Token), NEW s \in Seq(Token)
  PROVE  Len(o) \in 0..Len(o \o s) /\ SubSeq(o \o s, 1, Len(o)) = o
<1>1. Len(o) \in Nat /\ Len(s) \in Nat
  BY LenProperties
<1>2. /\ o \o s \in Seq(Token) /\ Len(o \o s) = Len(o) + Len(s)
      /\ \A k \in 1..Len(o) + Len(s) :
           (o \o s)[k] = IF k <= Len(o) THEN o[k] ELSE s[k - Len(o)]
  BY ConcatProperties
<1>3. \A k \in 1..Len(o) : (o \o s)[k] \in Token /\ (o \o s)[k] = o[k]
  BY <1>1, <1>2, ElementOfSeq
<1>4. /\ SubSeq(o \o s, 1, Len(o)) \in Seq(Token)
      /\ Len(SubSeq(o \o s, 1, Len(o))) = IF 1 <= Len(o) THEN Len(o) - 1 + 1 ELSE 0
      /\ \A k \in 1..Len(o) - 1 + 1 : SubSeq(o \o s, 1, Len(o))[k] = (o \o s)[1 + k - 1]
  BY <1>1, <1>3, SubSeqProperties
<1>5. Len(SubSeq(o \o s, 1, Len(o))) = Len(o)
  BY <1>1, <1>4
<1>6. \A k \in 1..Len(o) : SubSeq(o \o s, 1, Len(o))[k] = o[k]
  BY <1>1, <1>3, <1>4
<1> QED BY <1>1, <1>2, <1>4, <1>5, <1>6, SeqEqual
-----------------------------------------------------------------------------
USE BoundsAssumption, WireAssumption, BufferAssumption

Ops == {"idle", "reading", "hasRead", "writing", "hasWritten", "failed"}

\* The types, and what is read waits in the buffer.
Shaped ==
  /\ socket \in [Sides -> {"open", "closed"}]
  /\ op \in [Sides -> Ops]
  /\ peer \in [Sides -> {"none", "open", "shut", "closed"}]
  /\ buf \in [Sides -> Seq(Token)]
  /\ in \in [Sides -> Seq(Token)]
  /\ out \in [Sides -> Seq(Token)]
  /\ sent \in [Sides -> 0..MaxSend]
  /\ \A x \in Sides : op[x] \in {"hasRead", "writing"} => buf[x] # <<>>

\* The replies of a session that is granted.
All == IF command = 2 THEN <<granted, granted>> ELSE <<granted>>

\* Which replies have been written when each callback is awaited.
RepliesByPhase ==
  /\ phase \in {"request", "resolve", "connect"} => replies = <<>>
  /\ phase = "connect" => command # 2
  /\ phase = "accept" => command = 2 /\ replies = <<granted>>
  /\ phase = "reply" =>
       \/ reply = [status |-> granted, ok |-> TRUE] /\ replies = All
       \/ reply.status = failed /\ replies \in {<<>>, <<failed>>}
       \/ reply = [status |-> granted, ok |-> FALSE] /\ replies \in {<<>>, <<granted>>}
  /\ phase = "relay" => replies = All
  /\ phase # "relay" => \A x \in Sides : op[x] = "idle"
  /\ phase \notin {"relay", "over"} => out["client"] = <<>>

Follows == RepliesByPhase /\ RepliesFirst

RepliesInv == Shaped /\ Follows

\* Nothing of the server is lost if the session closes now, nor later.
Done ==
  peer["client"] = "open" =>
    \/ peer["server"] = "closed"
    \/ peer["server"] = "shut" /\ buf["server"] = <<>> /\ in["server"] = <<>>

\* When the sockets can be closed, and when the buffer of the server is empty.
ClosedWhenDone ==
  /\ phase \in {"request", "resolve", "connect", "accept"} =>
       peer["server"] = "none" /\ socket["client"] = "open"
  /\ phase = "reply" /\ reply # [status |-> granted, ok |-> TRUE] =>
       peer["server"] = "none" \/ peer["client"] = "closed"
  /\ phase = "reply" /\ reply = [status |-> granted, ok |-> TRUE] =>
       peer["server"] # "none" /\ socket["client"] = "open" /\ socket["server"] = "open"
  /\ phase = "relay" =>
       /\ peer["server"] # "none"
       /\ socket["client"] = socket["server"]
       /\ socket["client"] = "open" => \A x \in Sides : op[x] # "idle"
  /\ socket["client"] = "closed" => Done \/ peer["server"] = "none"
  /\ \A x \in Sides : op[x] = "failed" => Done
  /\ phase \notin {"relay", "over"} => buf["server"] = <<>>
  /\ op["server"] \in {"reading", "hasWritten"} => buf["server"] = <<>>

AnswerInv == Shaped /\ RepliesByPhase /\ ClosedWhenDone
-----------------------------------------------------------------------------
LEMMA Appends ==
  ASSUME NEW s \in {granted, failed}
  PROVE  Append(<<>>, s) = <<s>> /\ Append(<<granted>>, s) = <<granted, s>>
<1>1. /\ granted \in Nat /\ s \in Nat
      /\ <<>> \in Seq(Nat) /\ <<s>> \in Seq(Nat)
      /\ <<granted>> \in Seq(Nat) /\ <<granted, s>> \in Seq(Nat)
  BY DEF granted, failed
<1>2. Append(<<>>, s) = <<s>>
  <2>1. Append(<<>>, s) \in Seq(Nat) /\ Len(Append(<<>>, s)) = 1
        /\ Append(<<>>, s)[1] = s
    BY <1>1, AppendProperties
  <2> QED BY <1>1, <2>1, SeqEqual
<1>3. Append(<<granted>>, s) = <<granted, s>>
  <2>1. Append(<<granted>>, s) \in Seq(Nat) /\ Len(Append(<<granted>>, s)) = 2
        /\ Append(<<granted>>, s)[1] = granted /\ Append(<<granted>>, s)[2] = s
    BY <1>1, AppendProperties
  <2>2. Len(<<granted, s>>) = 2 /\ \A i \in 1..2 : i = 1 \/ i = 2
    OBVIOUS
  <2>3. \A i \in 1..2 : Append(<<granted>>, s)[i] = <<granted, s>>[i]
    BY <2>1, <2>2
  <2> QED BY <1>1, <2>1, <2>2, <2>3, SeqEqual
<1> QED BY <1>2, <1>3

\* A read takes the first n pieces, at least one, and leaves the others.
LEMMA Split ==
  ASSUME NEW S, NEW s \in Seq(S), NEW n \in Nat \ {0}, n <= Len(s)
  PROVE  /\ SubSeq(s, 1, n) \in Seq(S) /\ SubSeq(s, 1, n) # <<>>
         /\ SubSeq(s, n + 1, Len(s)) \in Seq(S)
<1>1. Len(s) \in Nat /\ \A i \in 1..Len(s) : s[i] \in S
  BY LenProperties, ElementOfSeq
<1>2. SubSeq(s, 1, n) \in Seq(S) /\ Len(SubSeq(s, 1, n)) = n
  BY <1>1, SubSeqProperties
<1>3. SubSeq(s, n + 1, Len(s)) \in Seq(S)
  BY <1>1, SubSeqProperties
<1> QED BY <1>2, <1>3, EmptySeq

\* The actions.
LEMMA SocksCases ==
  ASSUME [SocksNext]_svars
  PROVE  \/ ReadRequest \/ RequestFails \/ ResolveFails \/ Reject
         \/ AcceptConnect \/ AcceptBind \/ AcceptOther
         \/ Connected \/ ConnectFails \/ Accepted \/ AcceptFails
         \/ ReplyWritten \/ RelayEnds
         \/ \E x \in Sides :
              \/ ReadSome(x) \/ ReadFails(x) \/ OnRead(x)
              \/ WriteSome(x) \/ WriteFails(x) \/ OnWritten(x) \/ OnFailure(x)
              \/ EndSends(x) \/ EndReceives(x) \/ EndShuts(x) \/ EndCloses(x)
         \/ UNCHANGED svars
BY Zenon DEF SocksNext, SessionStep, RelayStep, EndStep

\* Every function keeps its domain and range.
LEMMA ShapedNext ==
  ASSUME Shaped, [SocksNext]_svars
  PROVE  Shaped'
<1> USE DEF session, network, Closed, Other, Sides, granted, failed,
            Shaped, Ops
<1>0. Shaped
  OBVIOUS
<1>t. \A n \in 0..MaxSend, x \in Sides : <<x, n>> \in Token
  BY DEF Token
<1>1. CASE ReadRequest
  <2>1. <<>> \in Seq(Token) /\ <<<<"client", 0>>>> \in Seq(Token)
    <3>1. <<"client", 0>> \in Token
      <4>1. 0 \in 0..MaxSend /\ "client" \in Sides
        OBVIOUS
      <4> QED BY Zenon, <4>1, <1>t
    <3> QED BY <3>1, Single, EmptySeq
  <2> QED BY <1>1, <1>0, <2>1 DEF ReadRequest
<1>2. CASE RequestFails
  BY <1>2, <1>0 DEF RequestFails, EndSession
<1>3. CASE ResolveFails
  BY <1>3, <1>0 DEF ResolveFails, EndSession
<1>4. CASE Reject
  BY <1>4, <1>0 DEF Reject, DoReplyClient
<1>5. CASE AcceptConnect
  BY <1>5, <1>0 DEF AcceptConnect
<1>6. CASE AcceptBind
  BY <1>6, <1>0 DEF AcceptBind, EndSession
<1>7. CASE AcceptOther
  BY <1>7, <1>0 DEF AcceptOther, EndSession
<1>8. CASE Connected
  BY <1>8, <1>0 DEF Connected, DoReplyClient, ServerArrives
<1>9. CASE ConnectFails
  BY <1>9, <1>0 DEF ConnectFails, DoReplyClient
<1>10. CASE Accepted
  BY <1>10, <1>0 DEF Accepted, DoReplyClient, ServerArrives
<1>11. CASE AcceptFails
  BY <1>11, <1>0 DEF AcceptFails, EndSession
<1>12. CASE ReplyWritten
  BY <1>12, <1>0 DEF ReplyWritten, EndSession
<1>13. CASE RelayEnds
  BY <1>13, <1>0 DEF RelayEnds, EndSession
<1>14. ASSUME NEW x \in Sides, ReadSome(x) PROVE Shaped'
  <2>1. PICK n \in 1..MAX_LENGTH :
          /\ n <= Len(in[x])
          /\ buf' = [buf EXCEPT ![x] = SubSeq(in[x], 1, n)]
          /\ in' = [in EXCEPT ![x] = SubSeq(@, n + 1, Len(@))]
    BY <1>14 DEF ReadSome
  <2>2. in[x] \in Seq(Token) /\ n \in Nat \ {0}
    BY <1>0 DEF Shaped
  <2>3. /\ SubSeq(in[x], 1, n) \in Seq(Token) /\ SubSeq(in[x], 1, n) # <<>>
        /\ SubSeq(in[x], n + 1, Len(in[x])) \in Seq(Token)
    BY <2>1, <2>2, Split
  <2> QED BY <1>14, <1>0, <2>1, <2>3 DEF ReadSome
<1>15. ASSUME NEW x \in Sides, ReadFails(x) PROVE Shaped'
  BY <1>15, <1>0 DEF ReadFails
<1>16. ASSUME NEW x \in Sides, OnRead(x) PROVE Shaped'
  BY <1>16, <1>0 DEF OnRead
<1>17. ASSUME NEW x \in Sides, WriteSome(x) PROVE Shaped'
  <2>1. buf[x] \in Seq(Token) /\ buf[x] # <<>> /\ out[Other(x)] \in Seq(Token)
    BY <1>17, <1>0 DEF Shaped, WriteSome
  <2>2. Head(buf[x]) \in Token /\ Tail(buf[x]) \in Seq(Token)
    BY <2>1, HeadTailProperties
  <2>3. Append(out[Other(x)], Head(buf[x])) \in Seq(Token)
    BY <2>1, <2>2, AppendProperties
  <2> QED BY <1>17, <1>0, <2>2, <2>3 DEF WriteSome
<1>18. ASSUME NEW x \in Sides, WriteFails(x) PROVE Shaped'
  BY <1>18, <1>0 DEF WriteFails
<1>19. ASSUME NEW x \in Sides, OnWritten(x) PROVE Shaped'
  BY <1>19, <1>0 DEF OnWritten
<1>20. ASSUME NEW x \in Sides, OnFailure(x) PROVE Shaped'
  BY <1>20, <1>0 DEF OnFailure
<1>21. ASSUME NEW x \in Sides, EndSends(x) PROVE Shaped'
  <2>1. sent' = [sent EXCEPT ![x] = @ + 1] /\ sent[x] + 1 \in 0..MaxSend
    BY <1>21, <1>0 DEF Shaped, EndSends
  <2>2. <<x, sent'[x]>> \in Token /\ in[x] \in Seq(Token)
    BY <1>0, <1>t, <2>1 DEF Shaped
  <2>3. Append(in[x], <<x, sent'[x]>>) \in Seq(Token)
    BY <2>2, AppendProperties
  <2> QED BY <1>21, <1>0, <2>1, <2>3 DEF EndSends
<1>22. ASSUME NEW x \in Sides, EndReceives(x) PROVE Shaped'
  BY <1>22, <1>0 DEF EndReceives
<1>23. ASSUME NEW x \in Sides, EndShuts(x) PROVE Shaped'
  BY <1>23, <1>0 DEF EndShuts
<1>24. ASSUME NEW x \in Sides, EndCloses(x) PROVE Shaped'
  BY <1>24, <1>0 DEF EndCloses
<1>25. CASE UNCHANGED svars
  BY <1>25, <1>0 DEF svars
<1> QED
  BY Zenon, SocksCases, <1>1, <1>2, <1>3, <1>4, <1>5, <1>6, <1>7, <1>8,
     <1>9, <1>10, <1>11, <1>12, <1>13, <1>14, <1>15, <1>16, <1>17, <1>18,
     <1>19, <1>20, <1>21, <1>22, <1>23, <1>24, <1>25

\* The replies follow the phases.
LEMMA RepliesNext ==
  ASSUME RepliesInv, [SocksNext]_svars
  PROVE  Follows'
<1> USE DEF session, network, Closed, Other, Sides, granted, failed,
            Shaped, RepliesByPhase, RepliesFirst, All, Follows
<1>0. Shaped /\ RepliesByPhase /\ RepliesFirst
  BY DEF RepliesInv, Follows
<1>1. CASE ReadRequest
  BY <1>1, <1>0 DEF ReadRequest
<1>2. CASE RequestFails
  BY <1>2, <1>0 DEF RequestFails, EndSession
<1>3. CASE ResolveFails
  BY <1>3, <1>0 DEF ResolveFails, EndSession
<1>4. CASE Reject
  <2>1. replies = <<>> /\ Append(replies, failed) = <<failed>>
    BY <1>4, <1>0, Appends DEF Reject, RepliesByPhase
  <2> QED BY <1>4, <1>0, <2>1 DEF Reject, DoReplyClient
<1>5. CASE AcceptConnect
  BY <1>5, <1>0 DEF AcceptConnect
<1>6. CASE AcceptBind
  BY <1>6, <1>0 DEF AcceptBind, EndSession
<1>7. CASE AcceptOther
  BY <1>7, <1>0 DEF AcceptOther, EndSession
<1>8. CASE Connected
  <2>1. command # 2 /\ replies = <<>> /\ Append(replies, granted) = All
    BY <1>8, <1>0, Appends DEF Connected, RepliesByPhase, All
  <2> QED BY <1>8, <1>0, <2>1 DEF Connected, DoReplyClient, ServerArrives
<1>9. CASE ConnectFails
  <2>1. replies = <<>> /\ Append(replies, failed) = <<failed>>
    BY <1>9, <1>0, Appends DEF ConnectFails, RepliesByPhase
  <2> QED BY <1>9, <1>0, <2>1 DEF ConnectFails, DoReplyClient
<1>10. CASE Accepted
  <2>1. command = 2 /\ replies = <<granted>> /\ Append(replies, granted) = All
    BY <1>10, <1>0, Appends DEF Accepted, RepliesByPhase, All
  <2>2. PICK ok \in BOOLEAN : reply' = [status |-> granted, ok |-> ok]
                               /\ replies' = IF ok THEN All ELSE <<granted>>
    BY <1>10, <2>1 DEF Accepted, DoReplyClient
  <2>3. phase = "accept" /\ phase' = "reply" /\ UNCHANGED <<command, op, out>>
    BY <1>10 DEF Accepted, DoReplyClient
  <2>4. out["client"] = <<>> /\ \A x \in Sides : op[x] = "idle"
    BY <1>0, <2>3
  <2>5. RepliesByPhase'
    BY <2>1, <2>2, <2>3, <2>4
  <2>6. RepliesFirst'
    BY <2>1, <2>2, <2>3, <2>4
  <2> QED BY <2>5, <2>6
<1>11. CASE AcceptFails
  BY <1>11, <1>0 DEF AcceptFails, EndSession
<1>12. CASE ReplyWritten
  <2>1. CASE EndSession /\ UNCHANGED op
    BY <1>12, <2>1, <1>0 DEF ReplyWritten, EndSession
  <2>2. CASE UNCHANGED socket /\ op' = [x \in Sides |-> "reading"] /\ phase' = "relay"
    BY <1>12, <2>2, <1>0 DEF ReplyWritten
  <2> QED BY <1>12, <2>1, <2>2 DEF ReplyWritten
<1>13. CASE RelayEnds
  BY <1>13, <1>0 DEF RelayEnds, EndSession
<1>14. ASSUME NEW x \in Sides, ReadSome(x) PROVE Follows'
  BY <1>14, <1>0 DEF ReadSome
<1>15. ASSUME NEW x \in Sides, ReadFails(x) PROVE Follows'
  BY <1>15, <1>0 DEF ReadFails
<1>16. ASSUME NEW x \in Sides, OnRead(x) PROVE Follows'
  BY <1>16, <1>0 DEF OnRead
<1>17. ASSUME NEW x \in Sides, WriteSome(x) PROVE Follows'
  BY <1>17, <1>0 DEF WriteSome
<1>18. ASSUME NEW x \in Sides, WriteFails(x) PROVE Follows'
  BY <1>18, <1>0 DEF WriteFails
<1>19. ASSUME NEW x \in Sides, OnWritten(x) PROVE Follows'
  BY <1>19, <1>0 DEF OnWritten
<1>20. ASSUME NEW x \in Sides, OnFailure(x) PROVE Follows'
  BY <1>20, <1>0 DEF OnFailure
<1>21. ASSUME NEW x \in Sides, EndSends(x) PROVE Follows'
  BY <1>21, <1>0 DEF EndSends
<1>22. ASSUME NEW x \in Sides, EndReceives(x) PROVE Follows'
  BY <1>22, <1>0 DEF EndReceives
<1>23. ASSUME NEW x \in Sides, EndShuts(x) PROVE Follows'
  BY <1>23, <1>0 DEF EndShuts
<1>24. ASSUME NEW x \in Sides, EndCloses(x) PROVE Follows'
  BY <1>24, <1>0 DEF EndCloses
<1>25. CASE UNCHANGED svars
  BY <1>25, <1>0 DEF svars
<1> QED
  BY Zenon, SocksCases, <1>1, <1>2, <1>3, <1>4, <1>5, <1>6, <1>7, <1>8,
     <1>9, <1>10, <1>11, <1>12, <1>13, <1>14, <1>15, <1>16, <1>17, <1>18,
     <1>19, <1>20, <1>21, <1>22, <1>23, <1>24, <1>25

\* The sockets close when the server is done.
LEMMA AnswerNext ==
  ASSUME AnswerInv, [SocksNext]_svars
  PROVE  ClosedWhenDone'
<1> USE DEF session, network, Closed, Other, Sides, granted, failed,
            Shaped, RepliesByPhase, ClosedWhenDone, Done
<1>0. Shaped /\ RepliesByPhase /\ ClosedWhenDone
  BY DEF AnswerInv
<1>1. CASE ReadRequest
  BY <1>1, <1>0 DEF ReadRequest
<1>2. CASE RequestFails
  BY <1>2, <1>0 DEF RequestFails, EndSession
<1>3. CASE ResolveFails
  BY <1>3, <1>0 DEF ResolveFails, EndSession
<1>4. CASE Reject
  BY <1>4, <1>0 DEF Reject, DoReplyClient
<1>5. CASE AcceptConnect
  BY <1>5, <1>0 DEF AcceptConnect
<1>6. CASE AcceptBind
  BY <1>6, <1>0 DEF AcceptBind, EndSession
<1>7. CASE AcceptOther
  BY <1>7, <1>0 DEF AcceptOther, EndSession
<1>8. CASE Connected
  BY <1>8, <1>0 DEF Connected, DoReplyClient, ServerArrives
<1>9. CASE ConnectFails
  BY <1>9, <1>0 DEF ConnectFails, DoReplyClient
<1>10. CASE Accepted
  BY <1>10, <1>0 DEF Accepted, DoReplyClient, ServerArrives
<1>11. CASE AcceptFails
  BY <1>11, <1>0 DEF AcceptFails, EndSession
<1>12. CASE ReplyWritten
  BY <1>12, <1>0 DEF ReplyWritten, EndSession
<1>13. CASE RelayEnds
  BY <1>13, <1>0 DEF RelayEnds, EndSession
<1>14. ASSUME NEW x \in Sides, ReadSome(x) PROVE ClosedWhenDone'
  <2>1. PICK n \in 1..MAX_LENGTH :
          /\ n <= Len(in[x])
          /\ buf' = [buf EXCEPT ![x] = SubSeq(in[x], 1, n)]
          /\ in' = [in EXCEPT ![x] = SubSeq(in[x], n + 1, Len(in[x]))]
    BY <1>14, <1>0 DEF ReadSome
  <2>2. /\ op[x] = "reading" /\ socket[x] = "open" /\ op' = [op EXCEPT ![x] = "hasRead"]
        /\ UNCHANGED <<phase, command, reply, replies, socket, peer, out, sent>>
    BY <1>14 DEF ReadSome
  <2>3. x = "server" => in["server"] # <<>>
    BY <2>1, EmptySeq
  <2> QED BY <2>1, <2>2, <2>3, <1>0
<1>15. ASSUME NEW x \in Sides, ReadFails(x) PROVE ClosedWhenDone'
  BY <1>15, <1>0 DEF ReadFails
<1>16. ASSUME NEW x \in Sides, OnRead(x) PROVE ClosedWhenDone'
  BY <1>16, <1>0 DEF OnRead
<1>17. ASSUME NEW x \in Sides, WriteSome(x) PROVE ClosedWhenDone'
  BY <1>17, <1>0 DEF WriteSome
<1>18. ASSUME NEW x \in Sides, WriteFails(x) PROVE ClosedWhenDone'
  BY <1>18, <1>0 DEF WriteFails
<1>19. ASSUME NEW x \in Sides, OnWritten(x) PROVE ClosedWhenDone'
  BY <1>19, <1>0 DEF OnWritten
<1>20. ASSUME NEW x \in Sides, OnFailure(x) PROVE ClosedWhenDone'
  BY <1>20, <1>0 DEF OnFailure
<1>21. ASSUME NEW x \in Sides, EndSends(x) PROVE ClosedWhenDone'
  BY <1>21, <1>0 DEF EndSends
<1>22. ASSUME NEW x \in Sides, EndReceives(x) PROVE ClosedWhenDone'
  BY <1>22, <1>0 DEF EndReceives
<1>23. ASSUME NEW x \in Sides, EndShuts(x) PROVE ClosedWhenDone'
  BY <1>23, <1>0 DEF EndShuts
<1>24. ASSUME NEW x \in Sides, EndCloses(x) PROVE ClosedWhenDone'
  BY <1>24, <1>0 DEF EndCloses
<1>25. CASE UNCHANGED svars
  BY <1>25, <1>0 DEF svars
<1> QED
  BY Zenon, SocksCases, <1>1, <1>2, <1>3, <1>4, <1>5, <1>6, <1>7, <1>8,
     <1>9, <1>10, <1>11, <1>12, <1>13, <1>14, <1>15, <1>16, <1>17, <1>18,
     <1>19, <1>20, <1>21, <1>22, <1>23, <1>24, <1>25

LEMMA SocksStart ==
  SocksInit => Shaped /\ RepliesByPhase /\ RepliesFirst /\ ClosedWhenDone
<1> SUFFICES ASSUME SocksInit
             PROVE  Shaped /\ RepliesByPhase /\ RepliesFirst /\ ClosedWhenDone
  OBVIOUS
<1> USE DEF SocksInit, Sides
<1>1. Shaped
  BY EmptySeq DEF Shaped, Ops
<1>2. RepliesByPhase /\ RepliesFirst
  BY DEF RepliesByPhase, RepliesFirst
<1>3. ClosedWhenDone
  BY DEF ClosedWhenDone, Done
<1> QED BY <1>1, <1>2, <1>3

LEMMA RepliesAlways == SocksSpec => []RepliesInv
<1>1. SocksInit => RepliesInv
  BY SocksStart DEF RepliesInv, Follows
<1>2. RepliesInv /\ [SocksNext]_svars => RepliesInv'
  BY ShapedNext, RepliesNext DEF RepliesInv, Follows
<1> QED BY PTL, <1>1, <1>2 DEF SocksSpec

\* Whatever the command, the network and the two ends do, the client gets the replies of
\* its command, in their order, and no byte of the server before the last of them: the
\* first reply of BIND is never followed by data.
THEOREM RepliesCorrect == SocksSpec => []RepliesFirst
BY PTL, RepliesAlways DEF RepliesInv, Follows

LEMMA ClosesAlways == SocksSpec => []ClosedWhenDone
<1>1. SocksInit => ClosedWhenDone
  BY SocksStart
<1>2. RepliesInv /\ ClosedWhenDone /\ [SocksNext]_svars => ClosedWhenDone'
  BY AnswerNext DEF RepliesInv, AnswerInv, Follows
<1> QED BY PTL, RepliesAlways, <1>1, <1>2 DEF SocksSpec

\* If the client stays, the sockets close on an answer that the server has ended only
\* when all of it has been written, whichever direction fails or ends first, and
\* whatever the sizes of the buffer, of the kernel's queues and of the answer.
THEOREM AnswerCorrect == SocksSpec => []AnswerComplete
<1>1. ClosedWhenDone => AnswerComplete
  BY DEF ClosedWhenDone, Done, AnswerComplete
<1> QED BY PTL, ClosesAlways, <1>1
-----------------------------------------------------------------------------
(* Refinement of ProxiedConnection.                                        *)

\* The connection that the two ends see.
StatusOf == IF socket["client"] = "closed" THEN "broken"
            ELSE IF phase = "relay" THEN "open" ELSE "waiting"
ChanOf == [x \in Sides |-> InTransit(x)]

\* What waits where: nothing is relayed before the relay, a direction that reads has
\* written all it had read, and no socket outlives that of the client.
RelayInv ==
  /\ \A x \in Sides : op[x] \in {"reading", "hasWritten"} => buf[x] = <<>>
  /\ phase \notin {"relay", "over"} => \A x \in Sides : buf[x] = <<>> /\ out[x] = <<>>
  /\ phase = "over" => socket["client"] = "closed"
  /\ phase \in {"request", "resolve", "connect", "accept"} => socket["server"] = "closed"
  /\ socket["server"] = "open" => socket["client"] = "open"
  /\ phase = "request" => in["client"] = <<>>

LEMMA RelayNext ==
  ASSUME Shaped, RepliesByPhase, ClosedWhenDone, RelayInv, [SocksNext]_svars
  PROVE  RelayInv'
<1> USE DEF session, network, Closed, Other, Sides, granted, failed, Shaped, RelayInv
<1>0. Shaped /\ RelayInv
  OBVIOUS
<1>idle. phase # "relay" => \A x \in Sides : op[x] = "idle"
  BY DEF RepliesByPhase
<1>none. phase \in {"request", "resolve", "connect", "accept"} => peer["server"] = "none"
  BY DEF ClosedWhenDone
<1>1. CASE ReadRequest
  BY <1>1, <1>0 DEF ReadRequest
<1>2. CASE RequestFails
  BY <1>2, <1>0 DEF RequestFails, EndSession
<1>3. CASE ResolveFails
  BY <1>3, <1>0 DEF ResolveFails, EndSession
<1>4. CASE Reject
  BY <1>4, <1>0 DEF Reject, DoReplyClient
<1>5. CASE AcceptConnect
  BY <1>5, <1>0 DEF AcceptConnect
<1>6. CASE AcceptBind
  BY <1>6, <1>0 DEF AcceptBind, EndSession
<1>7. CASE AcceptOther
  BY <1>7, <1>0 DEF AcceptOther, EndSession
<1>8. CASE Connected
  <2>1. socket["client"] = "open"
    BY <1>8 DEF Connected, ClosedWhenDone
  <2> QED BY <1>8, <1>0, <2>1 DEF Connected, DoReplyClient, ServerArrives
<1>9. CASE ConnectFails
  BY <1>9, <1>0 DEF ConnectFails, DoReplyClient
<1>10. CASE Accepted
  <2>1. socket["client"] = "open"
    BY <1>10 DEF Accepted, ClosedWhenDone
  <2> QED BY <1>10, <1>0, <2>1 DEF Accepted, DoReplyClient, ServerArrives
<1>11. CASE AcceptFails
  BY <1>11, <1>0 DEF AcceptFails, EndSession
<1>12. CASE ReplyWritten
  BY <1>12, <1>0 DEF ReplyWritten, EndSession
<1>13. CASE RelayEnds
  BY <1>13, <1>0 DEF RelayEnds, EndSession
<1>14. ASSUME NEW x \in Sides, ReadSome(x) PROVE RelayInv'
  BY <1>14, <1>0, <1>idle DEF ReadSome
<1>15. ASSUME NEW x \in Sides, ReadFails(x) PROVE RelayInv'
  BY <1>15, <1>0 DEF ReadFails
<1>16. ASSUME NEW x \in Sides, OnRead(x) PROVE RelayInv'
  BY <1>16, <1>0 DEF OnRead
<1>17. ASSUME NEW x \in Sides, WriteSome(x) PROVE RelayInv'
  BY <1>17, <1>0, <1>idle DEF WriteSome
<1>18. ASSUME NEW x \in Sides, WriteFails(x) PROVE RelayInv'
  BY <1>18, <1>0 DEF WriteFails
<1>19. ASSUME NEW x \in Sides, OnWritten(x) PROVE RelayInv'
  BY <1>19, <1>0 DEF OnWritten
<1>20. ASSUME NEW x \in Sides, OnFailure(x) PROVE RelayInv'
  BY <1>20, <1>0 DEF OnFailure
<1>21. ASSUME NEW x \in Sides, EndSends(x) PROVE RelayInv'
  BY <1>21, <1>0 DEF EndSends
<1>22. ASSUME NEW x \in Sides, EndReceives(x) PROVE RelayInv'
  BY <1>22, <1>0 DEF EndReceives
<1>23. ASSUME NEW x \in Sides, EndShuts(x) PROVE RelayInv'
  BY <1>23, <1>0 DEF EndShuts
<1>24. ASSUME NEW x \in Sides, EndCloses(x) PROVE RelayInv'
  BY <1>24, <1>0 DEF EndCloses
<1>25. CASE UNCHANGED svars
  BY <1>25, <1>0 DEF svars
<1> QED
  BY Zenon, SocksCases, <1>1, <1>2, <1>3, <1>4, <1>5, <1>6, <1>7, <1>8,
     <1>9, <1>10, <1>11, <1>12, <1>13, <1>14, <1>15, <1>16, <1>17, <1>18,
     <1>19, <1>20, <1>21, <1>22, <1>23, <1>24, <1>25

LEMMA TransitShape ==
  ASSUME Shaped
  PROVE  /\ \A x \in Sides : Other(x) \in Sides /\ Other(Other(x)) = x
         /\ \A x \in Sides : out[Other(x)] \in Seq(Token)
         /\ \A x \in Sides : buf[x] \o in[x] \in Seq(Token)
         /\ \A x \in Sides : InTransit(x) \in Seq(Token)
         /\ \A x \in Sides : ChanOf[x] = InTransit(x)
<1>1. \A x \in Sides : /\ Other(x) \in Sides /\ Other(Other(x)) = x
                       /\ out[Other(x)] \in Seq(Token)
                       /\ buf[x] \in Seq(Token) /\ in[x] \in Seq(Token)
  BY DEF Shaped, Sides, Other
<1>2. ASSUME NEW x \in Sides PROVE buf[x] \o in[x] \in Seq(Token) /\ InTransit(x) \in Seq(Token)
  <2>1. buf[x] \o in[x] \in Seq(Token)
    BY <1>1, ConcatProperties
  <2>2. out[Other(x)] \o buf[x] \in Seq(Token)
    BY <1>1, ConcatProperties
  <2>3. out[Other(x)] \o buf[x] \o in[x] \in Seq(Token)
    BY <1>1, <2>2, ConcatProperties
  <2> QED BY <1>1, <2>1, <2>3 DEF InTransit
<1> QED BY <1>1, <1>2 DEF ChanOf

LEMMA ProxiedOther ==
  ASSUME NEW x \in Sides
  PROVE  Proxied!Other(x) = Other(x)
BY DEF Proxied!Other, Proxied!Sides, Sides, Other

\* Closing the sockets gives up what the kernel of the receiver does not have yet.
LEMMA Breaks ==
  ASSUME Shaped, socket'["client"] = "closed", UNCHANGED out
  PROVE  Proxied!Break \/ UNCHANGED <<StatusOf, ChanOf>>
<1>1. StatusOf' = "broken" /\ \A x \in Sides : InTransit(x)' = out[Other(x)]
  BY DEF StatusOf, InTransit
<1>2. ChanOf' = [x \in Sides |-> out[Other(x)]]
  BY <1>1 DEF ChanOf
<1>3. CASE socket["client"] = "closed"
  BY <1>1, <1>2, <1>3 DEF StatusOf, ChanOf, InTransit
<1>4. CASE socket["client"] # "closed"
  <2>1. StatusOf # "broken"
    BY <1>4 DEF StatusOf
  <2>2. \A x \in Sides : /\ out[Other(x)] \in Seq(Token) /\ buf[x] \in Seq(Token)
                         /\ in[x] \in Seq(Token) /\ buf[x] \o in[x] \in Seq(Token)
    BY TransitShape DEF Shaped
  <2>3. ASSUME NEW x \in Sides
        PROVE  Len(out[Other(x)]) \in 0..Len(ChanOf[x])
               /\ SubSeq(ChanOf[x], 1, Len(out[Other(x)])) = out[Other(x)]
    <3>1. ChanOf[x] = (out[Other(x)] \o buf[x]) \o in[x]
      BY <1>4, TransitShape DEF InTransit
    <3>2. PICK o \in Seq(Token), b \in Seq(Token), i \in Seq(Token) :
            o = out[Other(x)] /\ b = buf[x] /\ i = in[x] /\ b \o i \in Seq(Token)
      BY <2>2
    <3>3. (o \o b) \o i = o \o (b \o i)
      BY Regroup
    <3>4. PICK t \in Seq(Token) : t = b \o i
      BY <3>2
    <3>5. Len(o) \in 0..Len(o \o t) /\ SubSeq(o \o t, 1, Len(o)) = o
      BY TransitBreak
    <3> QED BY <3>1, <3>2, <3>3, <3>4, <3>5
  <2>4. /\ "client" \in Sides /\ "server" \in Sides
        /\ Other("client") = "server" /\ Other("server") = "client"
    BY DEF Sides, Other
  <2>5. ChanOf' = [client |-> out["server"], server |-> out["client"]]
    BY <1>2 DEF Sides, Other
  <2>6. ChanOf' = [client |-> SubSeq(ChanOf["client"], 1, Len(out["server"])),
                   server |-> SubSeq(ChanOf["server"], 1, Len(out["client"]))]
    BY <2>3, <2>4, <2>5
  <2>7. \E m \in 0..Len(ChanOf["client"]), n \in 0..Len(ChanOf["server"]) :
          ChanOf' = [client |-> SubSeq(ChanOf["client"], 1, m),
                     server |-> SubSeq(ChanOf["server"], 1, n)]
    BY <2>3, <2>4, <2>6
  <2> QED BY <1>1, <2>1, <2>7 DEF Proxied!Break, StatusOf, ChanOf
<1> QED BY <1>3, <1>4

\* A step of the session or of an end that neither end can tell from none.
LEMMA Unseen ==
  ASSUME StatusOf' = StatusOf,
         \A x \in Sides : InTransit(x)' = InTransit(x)
  PROVE  UNCHANGED <<StatusOf, ChanOf>>
BY DEF ChanOf

\* The steps of the relay.
LEMMA ReadUnseen ==
  ASSUME Shaped, ClosedWhenDone, RepliesByPhase, RelayInv, NEW x \in Sides, ReadSome(x)
  PROVE  UNCHANGED <<StatusOf, ChanOf>>
<1>1. PICK n \in 1..MAX_LENGTH :
        /\ n <= Len(in[x])
        /\ buf' = [buf EXCEPT ![x] = SubSeq(in[x], 1, n)]
        /\ in' = [in EXCEPT ![x] = SubSeq(@, n + 1, Len(@))]
  BY DEF ReadSome
<1>2. /\ op[x] = "reading" /\ socket[x] = "open" /\ UNCHANGED <<phase, socket, out>>
  BY DEF ReadSome
<1>3. buf[x] = <<>> /\ socket["client"] = "open"
  BY <1>2 DEF RelayInv, Sides
<1>4. in[x] \in Seq(Token) /\ out[Other(x)] \in Seq(Token) /\ n \in 1..Len(in[x])
  <2>1. in[x] \in Seq(Token) /\ out[Other(x)] \in Seq(Token)
    BY TransitShape DEF Shaped
  <2>2. Len(in[x]) \in Nat
    BY <2>1, LenProperties
  <2> QED BY <1>1, <2>1, <2>2
<1>5. /\ buf'[x] = SubSeq(in[x], 1, n) /\ in'[x] = SubSeq(in[x], n + 1, Len(in[x]))
      /\ \A y \in Sides \ {x} : buf'[y] = buf[y] /\ in'[y] = in[y]
  BY <1>1 DEF Shaped
<1>6. out[Other(x)] \o buf'[x] \o in'[x] = out[Other(x)] \o buf[x] \o in[x]
  <2>1. out[Other(x)] \o SubSeq(in[x], 1, n) \o SubSeq(in[x], n + 1, Len(in[x]))
          = out[Other(x)] \o <<>> \o in[x]
    BY <1>4, TransitRead
  <2> QED BY <1>3, <1>5, <2>1
<1>7. ASSUME NEW y \in Sides PROVE InTransit(y)' = InTransit(y)
  <2>1. CASE y = x
    BY <2>1, <1>2, <1>3, <1>6 DEF InTransit
  <2>2. CASE y # x
    BY <2>2, <1>2, <1>5 DEF InTransit
  <2> QED BY <2>1, <2>2
<1> QED BY <1>2, <1>7, Unseen DEF StatusOf

LEMMA WriteUnseen ==
  ASSUME Shaped, RelayInv, NEW x \in Sides, WriteSome(x)
  PROVE  UNCHANGED <<StatusOf, ChanOf>>
<1>1. /\ op[x] = "writing" /\ socket[Other(x)] = "open" /\ UNCHANGED <<phase, socket, in>>
      /\ out' = [out EXCEPT ![Other(x)] = Append(@, Head(buf[x]))]
      /\ buf' = [buf EXCEPT ![x] = Tail(@)]
  BY DEF WriteSome
<1>2. socket["client"] = "open" /\ buf[x] # <<>> /\ buf[x] \in Seq(Token)
  BY <1>1 DEF RelayInv, Shaped, Sides, Other
<1>3. /\ out'[Other(x)] = Append(out[Other(x)], Head(buf[x])) /\ buf'[x] = Tail(buf[x])
      /\ \A y \in Sides \ {x} : buf'[y] = buf[y] /\ out'[Other(y)] = out[Other(y)]
  BY <1>1 DEF Shaped, Sides, Other
<1>4. out'[Other(x)] \o buf'[x] = out[Other(x)] \o buf[x]
  <2>1. PICK o \in Seq(Token), b \in Seq(Token) : o = out[Other(x)] /\ b = buf[x]
    BY <1>2, TransitShape
  <2>2. Append(o, Head(b)) \o Tail(b) = o \o b
    BY <1>2, <2>1, TransitWrite
  <2> QED BY <1>3, <2>1, <2>2
<1>5. ASSUME NEW y \in Sides PROVE InTransit(y)' = InTransit(y)
  <2>1. CASE y = x
    <3>1. InTransit(x) = (out[Other(x)] \o buf[x]) \o in[x]
      BY <1>2 DEF InTransit
    <3>2. InTransit(x)' = (out'[Other(x)] \o buf'[x]) \o in[x]
      BY <1>1, <1>2 DEF InTransit
    <3> QED BY <2>1, <3>1, <3>2, <1>4
  <2>2. CASE y # x
    BY <2>2, <1>1, <1>3 DEF InTransit
  <2> QED BY <2>1, <2>2
<1> QED BY <1>1, <1>5, Unseen DEF StatusOf

\* The steps of the ends.
LEMMA SendSeen ==
  ASSUME Shaped, RelayInv, NEW x \in Sides, EndSends(x)
  PROVE  Proxied!Send(x)
<1>1. /\ socket[x] = "open" /\ UNCHANGED <<phase, socket, buf, out>>
      /\ sent[x] < MaxSend /\ sent' = [sent EXCEPT ![x] = @ + 1]
      /\ in' = [in EXCEPT ![x] = Append(@, <<x, sent'[x]>>)]
  BY DEF EndSends, session
<1>2. socket["client"] = "open"
  BY <1>1 DEF RelayInv, Sides
<1>3. PICK t \in Token : in' = [in EXCEPT ![x] = Append(@, t)]
  <2>1. sent'[x] = sent[x] + 1 /\ sent[x] + 1 \in 0..MaxSend
    BY <1>1 DEF Shaped
  <2> QED BY <1>1, <2>1 DEF Token
<1>4. in[x] \in Seq(Token) /\ out[Other(x)] \o buf[x] \in Seq(Token)
  <2>1. in[x] \in Seq(Token) /\ buf[x] \in Seq(Token) /\ out[Other(x)] \in Seq(Token)
    BY TransitShape DEF Shaped
  <2> QED BY <2>1, ConcatProperties
<1>5. in'[x] = Append(in[x], t) /\ \A y \in Sides \ {x} : in'[y] = in[y]
  BY <1>3 DEF Shaped
<1>6. (out[Other(x)] \o buf[x]) \o in'[x] = Append(out[Other(x)] \o buf[x] \o in[x], t)
  <2>1. PICK s \in Seq(Token), i \in Seq(Token) : s = out[Other(x)] \o buf[x] /\ i = in[x]
    BY <1>4
  <2>2. s \o Append(i, t) = Append(s \o i, t)
    BY TransitSend
  <2> QED BY <1>5, <2>1, <2>2
<1>7. /\ InTransit(x)' = Append(InTransit(x), t)
      /\ \A y \in Sides \ {x} : InTransit(y)' = InTransit(y)
  <2>1. InTransit(x) = (out[Other(x)] \o buf[x]) \o in[x]
    BY <1>2 DEF InTransit
  <2>2. InTransit(x)' = (out[Other(x)] \o buf[x]) \o in'[x]
    BY <1>1, <1>2 DEF InTransit
  <2>3. ASSUME NEW y \in Sides \ {x} PROVE InTransit(y)' = InTransit(y)
    <3>1. in'[y] = in[y] /\ UNCHANGED <<socket, buf, out>>
      BY <1>1, <1>5
    <3> QED BY <3>1 DEF InTransit
  <2> QED BY <2>1, <2>2, <2>3, <1>6
<1>8. ChanOf' = [ChanOf EXCEPT ![x] = Append(@, t)]
  BY <1>7 DEF ChanOf
<1>9. StatusOf # "broken" /\ StatusOf' = StatusOf
  BY <1>1, <1>2 DEF StatusOf
<1> QED BY <1>8, <1>9 DEF Proxied!Send, StatusOf, ChanOf

LEMMA ReceiveSeen ==
  ASSUME Shaped, RelayInv, NEW x \in Sides, EndReceives(x)
  PROVE  Proxied!Receive(x)
<1>1. /\ out[x] # <<>> /\ out' = [out EXCEPT ![x] = Tail(@)]
      /\ UNCHANGED <<phase, socket, buf, in>>
  BY DEF EndReceives, session
<1> DEFINE y == Other(x)
<1>2. y \in Sides /\ Other(y) = x /\ \A z \in Sides : z # y => Other(z) # x
  BY DEF Sides, Other
<1> HIDE DEF y
<1>3. StatusOf # "waiting" /\ StatusOf' = StatusOf
  BY <1>1 DEF StatusOf, RelayInv
<1>4. out[x] \in Seq(Token) /\ buf[y] \in Seq(Token) /\ in[y] \in Seq(Token)
  BY <1>2, TransitShape DEF Shaped
<1>5. out'[x] = Tail(out[x]) /\ \A z \in Sides : z # y => out'[Other(z)] = out[Other(z)]
  <2>1. \A z \in Sides : Other(z) \in Sides
    BY DEF Sides, Other
  <2> QED BY <1>1, <1>2, <2>1 DEF Shaped
<1>6. InTransit(y) # <<>> /\ InTransit(y)' = Tail(InTransit(y))
  <2>1. CASE socket["client"] = "closed"
    BY <2>1, <1>1, <1>2, <1>5 DEF InTransit
  <2>2. CASE socket["client"] # "closed"
    <3>1. InTransit(y) = (out[x] \o buf[y]) \o in[y]
          /\ InTransit(y)' = (Tail(out[x]) \o buf[y]) \o in[y]
      BY <2>2, <1>1, <1>2, <1>5 DEF InTransit
    <3>2. /\ (out[x] \o buf[y]) \o in[y] # <<>>
          /\ (Tail(out[x]) \o buf[y]) \o in[y] = Tail((out[x] \o buf[y]) \o in[y])
      BY <1>1, <1>4, TransitLeaves
    <3> QED BY <3>1, <3>2
  <2> QED BY <2>1, <2>2
<1>7. \A z \in Sides : z # y => InTransit(z)' = InTransit(z)
  BY <1>1, <1>5 DEF InTransit
<1>8. ChanOf[y] # <<>> /\ ChanOf' = [ChanOf EXCEPT ![y] = Tail(@)]
  BY <1>2, <1>6, <1>7 DEF ChanOf
<1> QED BY <1>3, <1>8, ProxiedOther DEF Proxied!Receive, StatusOf, ChanOf, y

\* Every step of a session is a step of the connection or invisible in it.
LEMMA ProxiedStep ==
  ASSUME Shaped, RepliesByPhase, ClosedWhenDone, RelayInv, [SocksNext]_svars
  PROVE  [Proxied!Next]_<<StatusOf, ChanOf>>
<1> USE DEF session, network
<1>0. /\ "client" \in Sides
      /\ phase \in {"request", "resolve", "connect", "accept"} => socket["client"] = "open"
  BY DEF Sides, ClosedWhenDone
<1>closes. ASSUME socket' = Closed \/ socket' = [socket EXCEPT !["client"] = "closed"],
                  UNCHANGED out
           PROVE  [Proxied!Next]_<<StatusOf, ChanOf>>
  <2>1. socket'["client"] = "closed"
    BY <1>closes, <1>0 DEF Closed, Shaped
  <2> QED BY <1>closes, <2>1, Breaks DEF Proxied!Next
<1>same. ASSUME UNCHANGED <<buf, in, out>>, socket'["client"] = socket["client"],
                phase = "relay" <=> phase' = "relay"
         PROVE  [Proxied!Next]_<<StatusOf, ChanOf>>
  <2>1. StatusOf' = StatusOf /\ \A x \in Sides : InTransit(x)' = InTransit(x)
    BY <1>same DEF StatusOf, InTransit
  <2> QED BY <2>1, Unseen
<1>arrives. ServerArrives => socket'["client"] = socket["client"]
  BY DEF ServerArrives, Shaped, Sides
<1>1. CASE ReadRequest
  <2>1. /\ phase = "request" /\ phase' = "resolve" /\ UNCHANGED <<socket, buf, out>>
        /\ in["client"] = <<>> /\ socket["client"] = "open"
        /\ \E split \in BOOLEAN :
             in' = [in EXCEPT !["client"] = IF split THEN <<<<"client", 0>>>> ELSE <<>>]
    BY <1>1, <1>0 DEF ReadRequest, RelayInv
  <2>2. CASE in' = [in EXCEPT !["client"] = <<>>]
    <3>1. in' = in
      BY <2>1, <2>2 DEF Shaped
    <3> QED BY <1>same, <2>1, <3>1
  <2>3. CASE in' = [in EXCEPT !["client"] = <<<<"client", 0>>>>]
    <3>1. <<"client", 0>> \in Token
      <4>1. 0 \in 0..MaxSend
        OBVIOUS
      <4> QED BY <4>1, <1>0 DEF Token
    <3>2. /\ out["server"] = <<>> /\ buf["client"] = <<>>
          /\ in'["client"] = <<<<"client", 0>>>> /\ in'["server"] = in["server"]
      BY <2>1, <2>3 DEF RelayInv, Shaped, Sides
    <3>3. /\ InTransit("client") = (<<>> \o <<>>) \o <<>>
          /\ InTransit("client")' = (<<>> \o <<>>) \o <<<<"client", 0>>>>
          /\ InTransit("server")' = InTransit("server")
      BY <2>1, <3>2 DEF InTransit, Other
    <3>4. InTransit("client") = <<>> /\ InTransit("client")' = Append(<<>>, <<"client", 0>>)
      <4>1. <<>> \in Seq(Token) /\ <<<<"client", 0>>>> \in Seq(Token)
        BY <3>1, Single
      <4>2. <<>> \o <<>> = <<>> /\ <<>> \o <<<<"client", 0>>>> = <<<<"client", 0>>>>
        BY <4>1, ConcatEmptySeq
      <4>3. Append(<<>>, <<"client", 0>>) = <<>> \o <<<<"client", 0>>>>
        BY <3>1, <4>1, AppendIsConcat
      <4> QED BY <3>3, <4>2, <4>3
    <3>5. \E t \in Token : ChanOf' = [ChanOf EXCEPT !["client"] = Append(@, t)]
      <4>1. ChanOf' = [ChanOf EXCEPT !["client"] = Append(@, <<"client", 0>>)]
        BY <3>3, <3>4 DEF ChanOf, Sides
      <4> QED BY <3>1, <4>1
    <3>6. StatusOf # "broken" /\ StatusOf' = StatusOf
      BY <2>1 DEF StatusOf
    <3>7. Proxied!Send("client")
      BY <3>5, <3>6 DEF Proxied!Send, StatusOf, ChanOf
    <3> QED BY <1>0, <3>7 DEF Proxied!Next, Proxied!Sides, Sides
  <2> QED BY <2>1, <2>2, <2>3
<1>2. CASE RequestFails \/ ResolveFails \/ AcceptOther \/ AcceptFails \/ RelayEnds
  BY <1>2, <1>closes DEF RequestFails, ResolveFails, AcceptOther, AcceptFails, RelayEnds, EndSession
<1>3. CASE Reject
  BY <1>3, <1>closes DEF Reject
<1>4. CASE AcceptConnect
  BY <1>4, <1>same DEF AcceptConnect
<1>5. CASE AcceptBind
  BY <1>5, <1>closes, <1>same DEF AcceptBind, EndSession
<1>6. CASE Connected \/ Accepted
  BY <1>6, <1>same, <1>arrives DEF Connected, Accepted, DoReplyClient
<1>7. CASE ConnectFails
  BY <1>7, <1>same DEF ConnectFails, DoReplyClient
<1>8. CASE ReplyWritten
  <2>1. CASE reply = [status |-> granted, ok |-> TRUE]
    <3>1. /\ phase = "reply" /\ phase' = "relay" /\ socket["client"] = "open"
          /\ UNCHANGED <<socket, buf, in, out>>
      BY <1>8, <2>1 DEF ReplyWritten, ClosedWhenDone
    <3>2. StatusOf = "waiting" /\ StatusOf' = "open"
      BY <3>1 DEF StatusOf
    <3>3. \A x \in Sides : InTransit(x)' = InTransit(x)
      BY <3>1 DEF InTransit
    <3>4. ChanOf' = ChanOf
      BY <3>3 DEF ChanOf
    <3>5. Proxied!Open
      BY <3>2, <3>4 DEF Proxied!Open, StatusOf, ChanOf
    <3> QED BY <3>5 DEF Proxied!Next
  <2>2. CASE reply # [status |-> granted, ok |-> TRUE]
    BY <1>8, <2>2, <1>closes DEF ReplyWritten, EndSession
  <2> QED BY <2>1, <2>2
<1>9. ASSUME NEW x \in Sides, ReadFails(x) \/ OnRead(x) \/ WriteFails(x) \/ OnWritten(x)
      PROVE  [Proxied!Next]_<<StatusOf, ChanOf>>
  BY <1>9, <1>same DEF ReadFails, OnRead, WriteFails, OnWritten
<1>10. ASSUME NEW x \in Sides, EndShuts(x) \/ EndCloses(x)
       PROVE  [Proxied!Next]_<<StatusOf, ChanOf>>
  BY <1>10, <1>same DEF EndShuts, EndCloses
<1>11. ASSUME NEW x \in Sides, ReadSome(x) \/ WriteSome(x)
       PROVE  [Proxied!Next]_<<StatusOf, ChanOf>>
  BY <1>11, ReadUnseen, WriteUnseen
<1>12. ASSUME NEW x \in Sides, OnFailure(x)
       PROVE  [Proxied!Next]_<<StatusOf, ChanOf>>
  BY <1>12, <1>closes DEF OnFailure
<1>13. ASSUME NEW x \in Sides, EndSends(x) \/ EndReceives(x)
       PROVE  [Proxied!Next]_<<StatusOf, ChanOf>>
  <2>1. Proxied!Send(x) \/ Proxied!Receive(x)
    BY <1>13, SendSeen, ReceiveSeen
  <2> QED BY <2>1 DEF Proxied!Next, Proxied!Sides, Sides
<1>14. CASE UNCHANGED svars
  BY <1>14, <1>same DEF svars
<1> QED
  BY Zenon, SocksCases, <1>1, <1>2, <1>3, <1>4, <1>5, <1>6, <1>7, <1>8, <1>9,
     <1>10, <1>11, <1>12, <1>13, <1>14

\* A session is a connection between its two ends: what one end sends reaches the other
\* in order, nothing twice and nothing invented, nothing before the reply, and when the
\* connection breaks each direction loses at most what was sent last.
THEOREM ProxiedImplemented == SocksSpec => ImplementsProxied
<1>1. SocksInit => RelayInv
  BY DEF SocksInit, RelayInv, Sides
<1>2. RepliesInv /\ ClosedWhenDone /\ RelayInv /\ [SocksNext]_svars => RelayInv'
  BY RelayNext DEF RepliesInv, Follows
<1>3. SocksInit => Proxied!Init
  <2> SUFFICES ASSUME SocksInit PROVE Proxied!Init
    OBVIOUS
  <2>1. StatusOf = "waiting"
    BY DEF SocksInit, StatusOf, Sides
  <2>2. \A x \in Sides : InTransit(x) = (<<>> \o <<>>) \o <<>>
    BY DEF SocksInit, InTransit, Sides, Other
  <2>3. <<>> \o <<>> = <<>>
    BY EmptySeq, ConcatEmptySeq
  <2>4. ChanOf = [x \in Sides |-> <<>>]
    BY <2>2, <2>3 DEF ChanOf
  <2> QED BY <2>1, <2>4 DEF Proxied!Init, Proxied!Sides, Sides, StatusOf, ChanOf
<1>4. RepliesInv /\ ClosedWhenDone /\ RelayInv /\ [SocksNext]_svars
        => [Proxied!Next]_<<StatusOf, ChanOf>>
  BY ProxiedStep DEF RepliesInv, Follows
<1> QED BY PTL, RepliesAlways, ClosesAlways, <1>1, <1>2, <1>3, <1>4
        DEF SocksSpec, ImplementsProxied, Proxied!Spec, StatusOf, ChanOf
-----------------------------------------------------------------------------
(* The firewall: two texts are compared from the first character on, and   *)
(* each octet is decided by its one to three digits (OctetDecides); the    *)
(* octets are gone through from the last one back (MatchesCovers).         *)

\* A set of numbers that holds 0 and the successor of each member holds them all.
LEMMA Induction ==
  ASSUME NEW S, 0 \in S, \A n \in Nat : n \in S => n + 1 \in S
  PROVE  \A n \in Nat : n \in S
<1> DEFINE R == {ss \in Nat \X Nat : ss[1] < ss[2]}
           T == Nat \ S
<1>1. IsWellFoundedOn(R, Nat)
  BY NatLessThanWellFounded DEF OpToRel
<1> SUFFICES ASSUME T # {} PROVE FALSE
  OBVIOUS
<1> HIDE DEF R
<1>2. PICK m \in T : \A k \in T : ~ (<<k, m>> \in R)
  BY <1>1, WFMin, T \subseteq Nat
<1>3. m \in Nat /\ m # 0
  BY <1>2
<1>4. m - 1 \in Nat /\ <<m - 1, m>> \in R
  BY <1>3 DEF R
<1>5. m - 1 \in S
  BY <1>2, <1>4
<1>6. (m - 1) + 1 \in S
  BY <1>4, <1>5
<1> QED BY <1>2, <1>3, <1>6

\* The function that Matches looks for exists, and where it is true from is a set with
\* the same equation.
Agrees(s, t, H) ==
  \A i \in Nat :
    i \in H <=> IF i > Len(s) \/ i > Len(t) THEN i > Len(s) /\ i > Len(t)
                ELSE t[i] = star \/ (s[i] = t[i] /\ i + 1 \in H)

LEMMA MatchesFrom ==
  ASSUME NEW s, NEW t, Len(s) \in Nat, Len(t) \in Nat
  PROVE  \E H : Agrees(s, t, H) /\ (Matches(s, t) <=> 1 \in H)
<1> PICK l \in Nat, m \in Nat : l = Len(s) /\ m = Len(t)
  OBVIOUS
<1> DEFINE Over(i) == i > l \/ i > m
           Stops(k) == IF Over(k) THEN k > l /\ k > m ELSE t[k] = star
           Reached(i, k) == \A j \in i .. k - 1 : ~ Over(j) /\ s[j] = t[j]
           Holds(i) == \E k \in Nat : k >= i /\ Reached(i, k) /\ Stops(k)
           Is(f) == f = [i \in Nat |->
                           IF i > l \/ i > m THEN i > l /\ i > m
                           ELSE t[i] = star \/ (s[i] = t[i] /\ f[i + 1])]
           from == CHOOSE f : Is(f)
           g == [i \in Nat |-> Holds(i)]
<1>1. ASSUME NEW i \in Nat
      PROVE  Holds(i) <=> IF Over(i) THEN i > l /\ i > m
                          ELSE t[i] = star \/ (s[i] = t[i] /\ Holds(i + 1))
  <2>1. Stops(i) => Holds(i)
    <3>1. i >= i /\ Reached(i, i)
      OBVIOUS
    <3> HIDE DEF Stops, Reached
    <3> QED BY <3>1
  <2>2. ASSUME ~ Over(i), s[i] = t[i], Holds(i + 1) PROVE Holds(i)
    <3>1. PICK k \in Nat : k >= i + 1 /\ Reached(i + 1, k) /\ Stops(k)
      BY <2>2
    <3>2. Reached(i, k)
      <4> SUFFICES ASSUME NEW j \in i .. k - 1 PROVE ~ Over(j) /\ s[j] = t[j]
        OBVIOUS
      <4>1. CASE j = i
        BY <2>2, <4>1
      <4>2. CASE j \in i + 1 .. k - 1
        BY <3>1, <4>2
      <4> QED BY <4>1, <4>2
    <3> HIDE DEF Stops, Reached
    <3> QED BY <3>1, <3>2, k >= i
  <2>3. ASSUME Holds(i), ~ Stops(i) PROVE ~ Over(i) /\ s[i] = t[i] /\ Holds(i + 1)
    <3>1. PICK k \in Nat : k >= i /\ Reached(i, k) /\ Stops(k)
      BY <2>3
    <3>2. k # i
      BY <2>3, <3>1
    <3>3. k >= i + 1 /\ i \in i .. k - 1
      BY <3>1, <3>2
    <3>4. Reached(i + 1, k)
      BY <3>1
    <3>5. ~ Over(i) /\ s[i] = t[i]
      BY <3>1, <3>3
    <3> HIDE DEF Stops, Reached
    <3> QED BY <3>1, <3>3, <3>4, <3>5
  <2> HIDE DEF Holds
  <2> QED BY <2>1, <2>2, <2>3
<1> HIDE DEF Holds
<1>2. Is(g)
  <2>1. \A i \in Nat : g[i] <=> Holds(i)
    BY Zenon
  <2>2. \A i \in Nat : i + 1 \in Nat
    OBVIOUS
  <2>3. ASSUME NEW i \in Nat
        PROVE  g[i] = IF i > l \/ i > m THEN i > l /\ i > m
                      ELSE t[i] = star \/ (s[i] = t[i] /\ g[i + 1])
    <3> DEFINE e == IF i > l \/ i > m THEN i > l /\ i > m
                    ELSE t[i] = star \/ (s[i] = t[i] /\ g[i + 1])
    <3>1. Holds(i) \in BOOLEAN
      BY DEF Holds
    <3>2. g[i] = Holds(i) /\ (g[i + 1] <=> Holds(i + 1))
      BY <2>1, <2>2
    <3>3. e \in BOOLEAN /\ (e <=> Holds(i))
      <4> HIDE DEF g
      <4> QED BY <1>1, <3>2
    <3> HIDE DEF e, g
    <3>4. g[i] = e
      BY <3>1, <3>2, <3>3
    <3> QED BY <3>4 DEF e
  <2> HIDE DEF Holds
  <2> DEFINE h == [i \in Nat |-> IF i > l \/ i > m THEN i > l /\ i > m
                                 ELSE t[i] = star \/ (s[i] = t[i] /\ g[i + 1])]
  <2>4. g = h
    BY <2>3
  <2> QED BY <2>4
<1>3. Is(from)
  BY <1>2, Zenon
<1>4. Matches(s, t) <=> from[1]
  BY DEF Matches
<1> HIDE DEF from, g
<1> DEFINE H == {i \in Nat : from[i]}
<1>5. Agrees(s, t, H)
  <2>1. ASSUME NEW i \in Nat
        PROVE  from[i] <=> IF i > l \/ i > m THEN i > l /\ i > m
                           ELSE t[i] = star \/ (s[i] = t[i] /\ from[i + 1])
    BY <1>3
  <2>2. \A i \in Nat : i + 1 \in Nat
    OBVIOUS
  <2> QED BY <2>1, <2>2 DEF Agrees
<1>6. Matches(s, t) <=> 1 \in H
  BY <1>4
<1> QED BY <1>5, <1>6

\* The digits of an octet, without the octet's size.
Spelled(o, d) ==
  \/ o < 10 /\ d = <<o>>
  \/ \E x \in 1..9, y \in 0..9 : o = 10 * x + y /\ d = <<x, y>>
  \/ \E x \in 1..9, y \in 0..9, z \in 0..9 : o = 100 * x + 10 * y + z /\ d = <<x, y, z>>

LEMMA Division ==
  \A o \in 0..255, q \in 0..25, r \in 0..9 : o = 10 * q + r => o \div 10 = q /\ o % 10 = r
OBVIOUS

LEMMA DigitsAre == \A o \in 0..255 : Spelled(o, Digits(o))
<1> TAKE o \in 0..255
<1>0. o # any
  BY DEF any
<1>1. CASE o < 10
  BY <1>0, <1>1 DEF Spelled, Digits
<1>2. PICK q \in 0..25, r \in 0..9 : o = 10 * q + r
  OBVIOUS
<1>3. o \div 10 = q /\ o % 10 = r
  BY <1>2, Division
<1>4. CASE o >= 10 /\ o < 100
  <2>1. Digits(o) = <<q, r>>
    BY <1>0, <1>3, <1>4 DEF Digits
  <2>2. q \in 1..9
    BY <1>2, <1>4
  <2> QED BY <1>2, <2>1, <2>2 DEF Spelled
<1>5. CASE o >= 100
  <2>1. PICK x \in 0..25, y \in 0..9 : q = 10 * x + y
    OBVIOUS
  <2>2. q \div 10 = x /\ q % 10 = y
    BY <2>1, Division
  <2>3. o \div 100 = x
    <3>1. o = 100 * x + (10 * y + r) /\ 10 * y + r \in 0..99 /\ x \in 0..2
      BY <1>2, <2>1
    <3> QED BY <3>1
  <2>4. Digits(o) = <<x, y, r>>
    BY <1>0, <1>3, <1>5, <2>2, <2>3 DEF Digits
  <2>5. x \in 1..9 /\ o = 100 * x + 10 * y + r
    BY <1>2, <1>5, <2>1
  <2> QED BY <2>4, <2>5 DEF Spelled
<1> QED BY <1>1, <1>4, <1>5

\* The same with the number of digits; the digits that are not there are 0.
Sized(o, d, a, x, y, z) ==
  /\ a = Len(d) /\ d[1] = x /\ (a >= 2 => d[2] = y) /\ (a = 3 => d[3] = z)
  /\ \/ a = 1 /\ o = x
     \/ a = 2 /\ o = 10 * x + y
     \/ a = 3 /\ o = 100 * x + 10 * y + z

LEMMA SizedDigits ==
  ASSUME NEW o \in 0..255
  PROVE  \E a \in 1..3, x \in 0..9, y \in 0..9, z \in 0..9 : Sized(o, Digits(o), a, x, y, z)
<1> PICK d : d = Digits(o)
  OBVIOUS
<1>0. Spelled(o, d)
  BY DigitsAre
<1>1. CASE o < 10 /\ d = <<o>>
  <2>1. Len(d) = 1 /\ d[1] = o /\ o \in 0..9
    BY <1>1
  <2>2. Sized(o, d, 1, o, 0, 0)
    BY <2>1 DEF Sized
  <2> QED BY <2>1, <2>2, 1 \in 1..3, 0 \in 0..9
<1>2. CASE \E x \in 1..9, y \in 0..9 : o = 10 * x + y /\ d = <<x, y>>
  <2>1. PICK x \in 1..9, y \in 0..9 : o = 10 * x + y /\ d = <<x, y>>
    BY <1>2
  <2>2. Len(d) = 2 /\ d[1] = x /\ d[2] = y
    BY <2>1
  <2>3. Sized(o, d, 2, x, y, 0)
    BY <2>1, <2>2 DEF Sized
  <2> QED BY <2>3, 2 \in 1..3, 0 \in 0..9, x \in 0..9
<1>3. CASE \E x \in 1..9, y \in 0..9, z \in 0..9 : o = 100 * x + 10 * y + z /\ d = <<x, y, z>>
  <2>1. PICK x \in 1..9, y \in 0..9, z \in 0..9 : o = 100 * x + 10 * y + z /\ d = <<x, y, z>>
    BY <1>3
  <2>2. Len(d) = 3 /\ d[1] = x /\ d[2] = y /\ d[3] = z
    BY <2>1
  <2>3. Sized(o, d, 3, x, y, z)
    BY <2>1, <2>2 DEF Sized
  <2> QED BY <2>3, 3 \in 1..3, x \in 0..9
<1> QED BY <1>0, <1>1, <1>2, <1>3 DEF Spelled

\* The octet begins at n, and a dot follows it if octets are left.
Spells(t, n, d, left) ==
  /\ \A k \in 1..Len(d) : t[n + k - 1] = d[k]
  /\ IF left = 0 THEN Len(t) = n + Len(d) - 1
     ELSE Len(t) > n + Len(d) /\ t[n + Len(d)] = dot

Begins(t, n, left, a, x, y, z) ==
  /\ t[n] = x /\ (a >= 2 => t[n + 1] = y) /\ (a = 3 => t[n + 2] = z)
  /\ left = 0 => Len(t) = n + a - 1
  /\ left # 0 => Len(t) > n + a /\ t[n + a] = dot

LEMMA SpellsIs ==
  ASSUME NEW t, NEW n \in Nat, NEW d, NEW left, Spells(t, n, d, left),
         NEW a \in 1..3, NEW o, NEW x, NEW y, NEW z, Sized(o, d, a, x, y, z)
  PROVE  Begins(t, n, left, a, x, y, z)
<1>0. a = Len(d) /\ d[1] = x /\ (a >= 2 => d[2] = y) /\ (a = 3 => d[3] = z)
  BY DEF Sized
<1>1. \A k \in 1..a : t[n + k - 1] = d[k]
  BY <1>0 DEF Spells
<1>2. n + 1 - 1 = n /\ n + 2 - 1 = n + 1 /\ n + 3 - 1 = n + 2
  OBVIOUS
<1>3. 1 \in 1..a /\ (a >= 2 => 2 \in 1..a) /\ (a = 3 => 3 \in 1..a)
  OBVIOUS
<1>4. t[n] = x
  BY <1>0, <1>1, <1>2, <1>3
<1>5. a >= 2 => t[n + 1] = y
  BY <1>0, <1>1, <1>2, <1>3
<1>6. a = 3 => t[n + 2] = z
  BY <1>0, <1>1, <1>2, <1>3
<1> QED BY <1>0, <1>4, <1>5, <1>6 DEF Spells, Begins

\* Equal octets lead to what follows them, and different ones nowhere.
Leads(H, n, left, o, r) ==
  /\ r = any => n \in H
  /\ r = o /\ left = 0 => n \in H
  /\ r = o /\ left # 0 => (n \in H <=> n + Len(Digits(o)) + 1 \in H)
  /\ r \notin {any, o} => n \notin H

LEMMA OctetDecides ==
  ASSUME NEW s, NEW t, NEW H, Agrees(s, t, H), Len(s) \in Nat, Len(t) \in Nat,
         NEW n \in Nat \ {0}, NEW left \in Nat, NEW o \in 0..255, NEW r \in 0..255 \cup {any},
         Spells(s, n, Digits(o), left), Spells(t, n, Digits(r), left)
  PROVE  Leads(H, n, left, o, r)
<1> PICK l \in Nat, m \in Nat : l = Len(s) /\ m = Len(t)
  OBVIOUS
<1>1. PICK a \in 1..3, x \in 0..9, y \in 0..9, z \in 0..9 : Sized(o, Digits(o), a, x, y, z)
  BY SizedDigits
<1>2. \A i \in Nat :
        i \in H <=> IF i > l \/ i > m THEN i > l /\ i > m
                    ELSE t[i] = star \/ (s[i] = t[i] /\ i + 1 \in H)
  BY DEF Agrees
<1>3. /\ s[n] = x /\ (a >= 2 => s[n + 1] = y) /\ (a = 3 => s[n + 2] = z)
      /\ left = 0 => l = n + a - 1
      /\ left # 0 => l > n + a /\ s[n + a] = dot
  <2>1. Begins(s, n, left, a, x, y, z)
    BY <1>1, SpellsIs, n \in Nat
  <2> QED BY <2>1 DEF Begins
<1>4. CASE r = any
  <2>1. Len(Digits(r)) = 1 /\ Digits(r)[1] = star
    BY <1>4 DEF Digits
  <2>2. t[n] = star
    <3>1. 1 \in 1..Len(Digits(r)) /\ n + 1 - 1 = n
      BY <2>1
    <3> QED BY <2>1, <3>1 DEF Spells
  <2>3. n <= m
    BY <2>1 DEF Spells
  <2>4. n <= l
    BY <1>3
  <2>5. r # o
    BY <1>4 DEF any
  <2> QED BY <1>2, <1>4, <2>2, <2>3, <2>4, <2>5 DEF Leads
<1>5. CASE r \in 0..255
  <2>1. PICK b \in 1..3, u \in 0..9, v \in 0..9, w \in 0..9 : Sized(r, Digits(r), b, u, v, w)
    BY <1>5, SizedDigits
  <2>2. /\ t[n] = u /\ (b >= 2 => t[n + 1] = v) /\ (b = 3 => t[n + 2] = w)
        /\ left = 0 => m = n + b - 1
        /\ left # 0 => m > n + b /\ t[n + b] = dot
    <3>1. Begins(t, n, left, b, u, v, w)
      BY <2>1, SpellsIs, n \in Nat
    <3> QED BY <3>1 DEF Begins
  <2>l. n + a - 1 <= l /\ n + b - 1 <= m
    BY <1>3, <2>2
  <2>3. n \in H <=> x = u /\ n + 1 \in H
    <3>1. n <= l /\ n <= m /\ u # star
      BY <2>l DEF star
    <3>2. n \in H <=> t[n] = star \/ (s[n] = t[n] /\ n + 1 \in H)
      <4>1. n \in Nat /\ ~ (n > l \/ n > m)
        BY <3>1
      <4> QED BY <1>2, <4>1
    <3> QED BY <1>3, <2>2, <3>1, <3>2
  <2>4. a >= 2 /\ b >= 2 => (n + 1 \in H <=> y = v /\ n + 2 \in H)
    <3> SUFFICES ASSUME a >= 2, b >= 2 PROVE n + 1 \in H <=> y = v /\ n + 2 \in H
      OBVIOUS
    <3>1. n + 1 + 1 = n + 2 /\ n + 1 \in Nat /\ n + 1 <= l /\ n + 1 <= m /\ v # star
      BY <2>l DEF star
    <3>2. s[n + 1] = y /\ t[n + 1] = v
      BY <1>3, <2>2
    <3> QED BY <1>2, <3>1, <3>2
  <2>5. a = 3 /\ b = 3 => (n + 2 \in H <=> z = w /\ n + 3 \in H)
    <3> SUFFICES ASSUME a = 3, b = 3 PROVE n + 2 \in H <=> z = w /\ n + 3 \in H
      OBVIOUS
    <3>1. n + 2 + 1 = n + 3 /\ n + 2 \in Nat /\ n + 2 <= l /\ n + 2 <= m /\ w # star
      BY <2>l DEF star
    <3>2. s[n + 2] = z /\ t[n + 2] = w
      BY <1>3, <2>2
    <3> QED BY <1>2, <3>1, <3>2
  <2>6. CASE r = o
    <3>1. a = b /\ x = u /\ (a >= 2 => y = v) /\ (a = 3 => z = w)
      BY <1>1, <2>1, <2>6 DEF Sized
    <3>2. n \in H <=> n + a \in H
      BY <2>3, <2>4, <2>5, <3>1
    <3>3. left = 0 => n + a \in H
      <4>1. left = 0 => n + a \in Nat /\ n + a > l /\ n + a > m
        BY <1>3, <2>2, <3>1
      <4> QED BY <1>2, <4>1
    <3>4. left # 0 => (n + a \in H <=> n + a + 1 \in H)
      <4>1. left # 0 => n + a \in Nat /\ n + a <= l /\ n + a <= m /\ s[n + a] = dot /\ t[n + a] = dot
        BY <1>3, <2>2, <3>1
      <4> QED BY <1>2, <4>1 DEF dot, star
    <3>5. r # any /\ a = Len(Digits(o))
      BY <1>1, <1>5 DEF any, Sized
    <3> QED BY <2>6, <3>2, <3>3, <3>4, <3>5 DEF Leads
  <2>7. CASE r # o
    <3>1. n \in H => a # b
      <4>1. a = b /\ x = u /\ (a >= 2 => y = v) /\ (a = 3 => z = w) => FALSE
        <5>1. (a = 1 /\ o = x) \/ (a = 2 /\ o = 10 * x + y) \/ (a = 3 /\ o = 100 * x + 10 * y + z)
          BY <1>1 DEF Sized
        <5>2. (b = 1 /\ r = u) \/ (b = 2 /\ r = 10 * u + v) \/ (b = 3 /\ r = 100 * u + 10 * v + w)
          BY <2>1 DEF Sized
        <5> QED BY <2>7, <5>1, <5>2
      <4> QED BY <2>3, <2>4, <2>5, <4>1
    <3>2. n \in H /\ a < b => n + a \in H
      BY <2>3, <2>4
    <3>3. n \in H /\ b < a => n + b \in H
      BY <2>3, <2>4
    \* One text has a dot, or ends, where the other has a digit.
    <3>4. a < b => n + a \notin H
      <4> SUFFICES ASSUME a < b PROVE n + a \notin H
        OBVIOUS
      <4>1. n + a \in Nat /\ n + a <= m /\ (n + a > l \/ s[n + a] = dot)
        BY <1>3, <2>l
      <4>2. t[n + a] \in 0..9
        <5>1. (a = 1 /\ b >= 2) \/ (a = 2 /\ b = 3)
          OBVIOUS
        <5> QED BY <2>2, <5>1
      <4>3. t[n + a] # star /\ t[n + a] # dot
        <5>1. \A q \in 0..9 : q # star /\ q # dot
          BY DEF dot, star
        <5> QED BY <4>2, <5>1
      <4> QED BY <1>2, <4>1, <4>3
    <3>5. b < a => n + b \notin H
      <4> SUFFICES ASSUME b < a PROVE n + b \notin H
        OBVIOUS
      <4>1. n + b \in Nat /\ n + b <= l /\ (n + b > m \/ t[n + b] = dot)
        BY <2>2, <2>l
      <4>2. s[n + b] \in 0..9
        <5>1. (b = 1 /\ a >= 2) \/ (b = 2 /\ a = 3)
          OBVIOUS
        <5> QED BY <1>3, <5>1
      <4>3. s[n + b] # dot /\ (n + b <= m => t[n + b] = dot) /\ dot # star
        BY <4>1, <4>2 DEF dot, star
      <4> QED BY <1>2, <4>1, <4>3
    <3>6. n \notin H
      <4>1. a = b \/ a < b \/ b < a
        OBVIOUS
      <4> QED BY <3>1, <3>2, <3>3, <3>4, <3>5, <4>1
    <3>7. r # any
      BY <1>5 DEF any
    <3> QED BY <2>7, <3>6, <3>7 DEF Leads
  <2> QED BY <2>6, <2>7 DEF Leads
<1> QED BY <1>4, <1>5

\* The text, octet by octet: the first i of them are spelled in g[i].
Layout(a, g) ==
  /\ \A i \in 1..Parts : g[i] \in Seq(Nat)
  /\ g[1] = Digits(a[1])
  /\ \A i \in 2..Parts : g[i] = g[i - 1] \o (<<dot>> \o Digits(a[i]))

Octet(a) == \A i \in 1..Parts : a[i] \in 0..255 \cup {any}

LEMMA DigitsText ==
  ASSUME NEW o \in 0..255 \cup {any}
  PROVE  Digits(o) \in Seq(Nat) /\ Len(Digits(o)) \in 1..3
<1>1. CASE o = any
  BY <1>1 DEF Digits, star
<1>2. CASE o \in 0..255
  <2>1. Spelled(o, Digits(o))
    BY <1>2, DigitsAre
  <2>2. CASE o < 10 /\ Digits(o) = <<o>>
    BY <2>2, <1>2
  <2>3. ASSUME NEW x \in 1..9, NEW y \in 0..9, Digits(o) = <<x, y>>
        PROVE  Digits(o) \in Seq(Nat) /\ Len(Digits(o)) \in 1..3
    BY <2>3
  <2>4. ASSUME NEW x \in 1..9, NEW y \in 0..9, NEW z \in 0..9, Digits(o) = <<x, y, z>>
        PROVE  Digits(o) \in Seq(Nat) /\ Len(Digits(o)) \in 1..3
    BY <2>4
  <2> QED BY <2>1, <2>2, <2>3, <2>4 DEF Spelled
<1> QED BY <1>1, <1>2

LEMMA OctetText ==
  ASSUME NEW a, Octet(a), NEW i \in 1..Parts
  PROVE  Digits(a[i]) \in Seq(Nat) /\ Len(Digits(a[i])) \in Nat /\ Len(Digits(a[i])) >= 1
<1>1. PICK o \in 0..255 \cup {any} : o = a[i]
  BY DEF Octet
<1>2. Digits(o) \in Seq(Nat) /\ Len(Digits(o)) \in 1..3
  BY DigitsText
<1> PICK n \in 1..3 : n = Len(Digits(o))
  BY <1>2
<1>3. Len(Digits(o)) \in Nat /\ Len(Digits(o)) >= 1
  <2>1. n \in Nat /\ n >= 1
    OBVIOUS
  <2> QED BY <2>1
<1> QED BY <1>1, <1>2, <1>3, Zenon

LEMMA TextIs ==
  ASSUME NEW a, Octet(a)
  PROVE  \E g : Layout(a, g) /\ Text(a) = g[Parts]
<1> PICK P \in Nat \ {0} : P = Parts
  BY PartsAssumption
<1> DEFINE part(i) == IF i = 1 THEN Digits(a[i]) ELSE <<dot>> \o Digits(a[i])
           seqs == [i \in 1..P |-> part(i)]
           Is(f) == f = [i \in 1..Len(seqs) |-> IF i = 1 THEN seqs[i] ELSE f[i - 1] \o seqs[i]]
           flatten == CHOOSE f : Is(f)
           Upto(n, f) == /\ f = [i \in 1..n |-> f[i]]
                         /\ \A i \in 1..n : f[i] \in Seq(Nat)
                         /\ \A i \in 1..n : f[i] = IF i = 1 THEN seqs[i] ELSE f[i - 1] \o seqs[i]
           S == {n \in Nat : n + 1 <= P => \E f : Upto(n + 1, f)}
<1>1. \A i \in 1..P : part(i) \in Seq(Nat) /\ seqs[i] = part(i)
  <2> TAKE i \in 1..P
  <2>1. Digits(a[i]) \in Seq(Nat)
    BY OctetText
  <2>2. <<dot>> \in Seq(Nat)
    BY DEF dot
  <2> QED BY <2>1, <2>2, ConcatProperties
<1>2. Len(seqs) = P
  <2>1. seqs \in Seq(Seq(Nat))
    BY <1>1
  <2> QED BY <2>1, LenProperties
<1> HIDE DEF seqs, part
<1>3. 0 \in S
  <2> DEFINE h == [i \in 1..1 |-> seqs[1]]
  <2>1. h = [i \in 1..1 |-> h[i]] /\ h[1] = seqs[1] /\ seqs[1] \in Seq(Nat)
    BY <1>1
  <2>2. \A i \in 1..1 : i = 1
    OBVIOUS
  <2> HIDE DEF h
  <2>3. Upto(1, h)
    BY <2>1, <2>2
  <2>4. 0 + 1 = 1
    OBVIOUS
  <2> HIDE DEF Upto
  <2> QED BY <2>3, <2>4
<1>4. ASSUME NEW n \in Nat, n \in S PROVE n + 1 \in S
  <2> SUFFICES ASSUME n + 1 + 1 <= P PROVE \E f : Upto(n + 1 + 1, f)
    OBVIOUS
  <2>1. PICK f : Upto(n + 1, f)
    BY <1>4
  <2> DEFINE u == f[n + 1] \o seqs[n + 1 + 1]
             h == [i \in 1 .. n + 1 + 1 |-> IF i = n + 1 + 1 THEN u ELSE f[i]]
  <2>2. u \in Seq(Nat)
    <3>1. f[n + 1] \in Seq(Nat)
      <4>1. n + 1 \in 1 .. n + 1
        OBVIOUS
      <4> QED BY <2>1, <4>1
    <3>2. seqs[n + 1 + 1] \in Seq(Nat)
      <4>1. n + 1 + 1 \in 1..P
        OBVIOUS
      <4> QED BY <1>1, <4>1
    <3> QED BY <3>1, <3>2, ConcatProperties
  <2> HIDE DEF u
  <2>3. /\ h = [i \in 1 .. n + 1 + 1 |-> h[i]]
        /\ \A i \in 1 .. n + 1 + 1 : h[i] \in Seq(Nat)
    BY <2>1, <2>2
  <2>4. ASSUME NEW i \in 1 .. n + 1 + 1
        PROVE  h[i] = IF i = 1 THEN seqs[i] ELSE h[i - 1] \o seqs[i]
    <3>1. CASE i = n + 1 + 1
      <4>1. h[i] = u /\ i # 1 /\ i - 1 = n + 1 /\ h[n + 1] = f[n + 1]
        BY <3>1
      <4> QED BY <3>1, <4>1 DEF u
    <3>2. CASE i \in 1 .. n + 1
      <4>0. \A j \in 1 .. n + 1 : f[j] = IF j = 1 THEN seqs[j] ELSE f[j - 1] \o seqs[j]
        BY <2>1
      <4>1. h[i] = f[i] /\ f[i] = IF i = 1 THEN seqs[i] ELSE f[i - 1] \o seqs[i]
        BY <3>2, <4>0
      <4>2. i # 1 => h[i - 1] = f[i - 1]
        BY <3>2
      <4> QED BY <4>1, <4>2
    <3> QED BY <3>1, <3>2
  <2>5. Upto(n + 1 + 1, h)
    BY <2>3, <2>4
  <2> QED BY <2>5
<1> HIDE DEF S
<1>5. P - 1 \in S
  BY <1>3, <1>4, Induction, P - 1 \in Nat
<1>6. PICK g : Upto(P, g)
  <2>1. P - 1 + 1 = P
    OBVIOUS
  <2> QED BY <1>5, <2>1 DEF S
<1>7. Is(g)
  <2> DEFINE h == [i \in 1..P |-> IF i = 1 THEN seqs[i] ELSE g[i - 1] \o seqs[i]]
  <2>1. g = [i \in 1..P |-> g[i]]
    BY <1>6
  <2>2. \A i \in 1..P : g[i] = IF i = 1 THEN seqs[i] ELSE g[i - 1] \o seqs[i]
    BY <1>6
  <2>3. g = h
    BY <2>1, <2>2
  <2> QED BY <1>2, <2>3
<1>8. Is(flatten)
  BY <1>7, Zenon
<1>9. \A i \in 1..P : flatten[i] = IF i = 1 THEN seqs[i] ELSE flatten[i - 1] \o seqs[i]
  BY <1>2, <1>8
<1>10. Text(a) = flatten[P]
  <2>1. Text(a) = FlattenSeq(seqs)
    BY DEF Text, seqs, part
  <2>2. FlattenSeq(seqs) = flatten[Len(seqs)]
    BY <1>2 DEF FlattenSeq
  <2> QED BY <1>2, <2>1, <2>2
<1> HIDE DEF flatten, Upto
<1> DEFINE Q == {n \in Nat : n + 1 <= P => flatten[n + 1] \in Seq(Nat)}
<1>11. 0 \in Q
  <2>1. flatten[1] = seqs[1] /\ seqs[1] \in Seq(Nat) /\ 0 + 1 = 1
    BY <1>1, <1>9
  <2> QED BY <2>1
<1>12. ASSUME NEW n \in Nat, n \in Q PROVE n + 1 \in Q
  <2> SUFFICES ASSUME n + 1 + 1 <= P PROVE flatten[n + 1 + 1] \in Seq(Nat)
    OBVIOUS
  <2>1. flatten[n + 1] \in Seq(Nat) /\ seqs[n + 1 + 1] \in Seq(Nat)
    BY <1>1, <1>12
  <2>2. flatten[n + 1 + 1] = flatten[n + 1] \o seqs[n + 1 + 1]
    <3>1. PICK k \in 1..P : k = n + 1 + 1 /\ k # 1 /\ k - 1 = n + 1
      OBVIOUS
    <3>2. flatten[k] = flatten[k - 1] \o seqs[k]
      BY <1>9, <3>1
    <3> QED BY <3>1, <3>2
  <2> QED BY <2>1, <2>2, ConcatProperties
<1> HIDE DEF Q
<1>13. \A n \in Nat : n \in Q
  BY <1>11, <1>12, Induction
<1>14. \A i \in 1..P : flatten[i] \in Seq(Nat)
  <2> TAKE i \in 1..P
  <2>1. i - 1 \in Q /\ i - 1 + 1 = i
    BY <1>13
  <2> QED BY <2>1 DEF Q
<1>15. Layout(a, flatten)
  <2>1. flatten[1] = Digits(a[1])
    BY <1>1, <1>9 DEF part
  <2>2. ASSUME NEW i \in 2..P PROVE flatten[i] = flatten[i - 1] \o (<<dot>> \o Digits(a[i]))
    <3>1. flatten[i] = flatten[i - 1] \o seqs[i] /\ seqs[i] = part(i)
      <4>1. i \in 1..P /\ i # 1
        OBVIOUS
      <4> QED BY <1>1, <1>9, <4>1
    <3>2. i # 1
      OBVIOUS
    <3> QED BY <3>1, <3>2 DEF part
  <2> QED BY <1>14, <2>1, <2>2 DEF Layout
<1> QED BY <1>10, <1>15

\* What one more octet does.
Grown(u, d, v) ==
  /\ Len(v) = Len(u) + 1 + Len(d)
  /\ \A k \in 1..Len(u) : v[k] = u[k]
  /\ v[Len(u) + 1] = dot
  /\ \A k \in 1..Len(d) : v[Len(u) + 1 + k] = d[k]

LEMMA Dotted ==
  ASSUME NEW u \in Seq(Nat), NEW d \in Seq(Nat), NEW v, v = u \o (<<dot>> \o d)
  PROVE  Grown(u, d, v)
<1> DEFINE l == Len(u)
           m == Len(d)
           e == <<dot>> \o d
<1>0. l \in Nat /\ m \in Nat
  BY LenProperties
<1>1. <<dot>> \in Seq(Nat) /\ Len(<<dot>>) = 1 /\ <<dot>>[1] = dot
  BY DEF dot
<1>2. /\ e \in Seq(Nat) /\ Len(e) = 1 + m
      /\ \A k \in 1 .. 1 + m : e[k] = IF k <= 1 THEN <<dot>>[k] ELSE d[k - 1]
  BY <1>1, ConcatProperties
<1>3. v = u \o e
  OBVIOUS
<1> HIDE DEF l, m, e
<1>4. e[1] = dot
  BY <1>0, <1>1, <1>2
<1>5. ASSUME NEW k \in 1..m PROVE e[1 + k] = d[k]
  <2>1. PICK j \in 1 .. 1 + m : j = 1 + k /\ ~ (j <= 1) /\ j - 1 = k
    BY <1>0
  <2>2. e[j] = d[j - 1]
    BY <1>2, <2>1
  <2> QED BY <2>1, <2>2
<1>6. /\ Len(v) = l + (1 + m)
      /\ \A k \in 1 .. l + (1 + m) : v[k] = IF k <= l THEN u[k] ELSE e[k - l]
  <2>1. /\ Len(u \o e) = Len(u) + Len(e)
        /\ \A k \in 1 .. Len(u) + Len(e) :
             (u \o e)[k] = IF k <= Len(u) THEN u[k] ELSE e[k - Len(u)]
    BY <1>2, ConcatProperties
  <2> QED BY <1>2, <1>3, <2>1 DEF l
<1>7. ASSUME NEW k \in 1..l PROVE v[k] = u[k]
  <2>1. k \in 1 .. l + (1 + m) /\ k <= l
    BY <1>0
  <2> QED BY <1>6, <2>1
<1>8. ASSUME NEW k \in 1 .. 1 + m PROVE v[l + k] = e[k]
  <2>1. PICK j \in 1 .. l + (1 + m) : j = l + k /\ ~ (j <= l) /\ j - l = k
    BY <1>0
  <2>2. v[j] = e[j - l]
    BY <1>6, <2>1
  <2> QED BY <2>1, <2>2
<1>9. v[l + 1] = dot
  <2>1. 1 \in 1 .. 1 + m
    BY <1>0
  <2> QED BY <1>4, <1>8, <2>1
<1>10. ASSUME NEW k \in 1..m PROVE v[l + 1 + k] = d[k]
  <2>1. 1 + k \in 1 .. 1 + m /\ l + 1 + k = l + (1 + k)
    BY <1>0
  <2>2. v[l + (1 + k)] = e[1 + k]
    BY <1>8, <2>1
  <2> QED BY <1>5, <2>1, <2>2
<1>11. Len(v) = l + 1 + m
  BY <1>0, <1>6
<1> QED BY <1>7, <1>9, <1>10, <1>11 DEF Grown, l, m

LEMMA NextOctet ==
  ASSUME NEW a, Octet(a), NEW g, Layout(a, g), NEW i \in 2..Parts
  PROVE  Grown(g[i - 1], Digits(a[i]), g[i])
<1>1. i \in 1..Parts /\ i - 1 \in 1..Parts
  BY PartsAssumption
<1>2. Digits(a[i]) \in Seq(Nat)
  BY <1>1, OctetText
<1>3. g[i - 1] \in Seq(Nat) /\ g[i] = g[i - 1] \o (<<dot>> \o Digits(a[i]))
  BY <1>1 DEF Layout
<1> QED BY <1>2, <1>3, Dotted

LEMMA TextGrows ==
  ASSUME NEW a, Octet(a), NEW g, Layout(a, g), NEW i \in 1..Parts
  PROVE  /\ Len(g[i]) \in Nat /\ Len(g[Parts]) \in Nat /\ Len(g[i]) <= Len(g[Parts])
         /\ \A k \in 1..Len(g[i]) : g[Parts][k] = g[i][k]
<1>0. Parts \in Nat \ {0}
  BY PartsAssumption
<1>1. \A j \in 1..Parts : Len(g[j]) \in Nat
  <2> TAKE j \in 1..Parts
  <2>1. g[j] \in Seq(Nat)
    BY DEF Layout
  <2> QED BY <2>1, LenProperties
<1>l. PICK l \in Nat : l = Len(g[i])
  BY <1>1
<1> DEFINE Kept(j) == l <= Len(g[j]) /\ \A k \in 1..l : g[j][k] = g[i][k]
           S == {n \in Nat : i + n <= Parts => Kept(i + n)}
<1>2. 0 \in S
  <2>1. i + 0 = i /\ l <= Len(g[i])
    BY <1>l
  <2> QED BY <2>1
<1>3. ASSUME NEW n \in Nat, n \in S PROVE n + 1 \in S
  <2> SUFFICES ASSUME i + (n + 1) <= Parts PROVE Kept(i + (n + 1))
    OBVIOUS
  <2>1. PICK j \in 2..Parts : j = i + (n + 1) /\ j - 1 = i + n /\ j - 1 \in 1..Parts
    BY <1>0
  <2>2. Kept(j - 1)
    <3>1. i + n <= Parts
      BY <1>0
    <3> HIDE DEF Kept
    <3> QED BY <1>3, <2>1, <3>1
  <2>3. /\ Len(g[j]) = Len(g[j - 1]) + 1 + Len(Digits(a[j]))
        /\ \A k \in 1..Len(g[j - 1]) : g[j][k] = g[j - 1][k]
    <3>1. Grown(g[j - 1], Digits(a[j]), g[j])
      BY NextOctet
    <3> QED BY <3>1 DEF Grown
  <2>4. Len(Digits(a[j])) \in Nat /\ Len(g[j - 1]) \in Nat
    <3>1. j \in 1..Parts
      BY <1>0
    <3>2. Len(Digits(a[j])) \in Nat
      BY <3>1, OctetText
    <3> QED BY <1>1, <2>1, <3>2
  <2>5. l <= Len(g[j]) /\ \A k \in 1..l : k \in 1..Len(g[j - 1])
    <3>1. l <= Len(g[j - 1])
      BY <2>2
    <3>2. PICK p \in Nat, q \in Nat : p = Len(g[j - 1]) /\ q = Len(Digits(a[j]))
      BY <2>4
    <3>3. l <= Len(g[j])
      <4>1. Len(g[j]) = p + 1 + q /\ l <= p
        BY <2>3, <3>1, <3>2
      <4> QED BY <4>1
    <3> QED BY <2>4, <3>1, <3>3
  <2>6. Kept(j)
    BY <2>2, <2>3, <2>5
  <2> HIDE DEF Kept
  <2> QED BY <2>1, <2>6
<1> HIDE DEF S
<1>4. Parts - i \in S
  BY <1>0, <1>2, <1>3, Induction, Parts - i \in Nat
<1>5. Kept(Parts)
  <2>1. i + (Parts - i) = Parts /\ Parts <= Parts
    BY <1>0
  <2> HIDE DEF Kept
  <2> QED BY <1>4, <2>1 DEF S
<1>6. Parts \in 1..Parts
  BY <1>0
<1> QED BY <1>l, <1>1, <1>5, <1>6

\* Where an octet begins.
Start(g, i) == IF i = 1 THEN 1 ELSE Len(g[i - 1]) + 2

LEMMA OctetIs ==
  ASSUME NEW a, Octet(a), NEW g, Layout(a, g), NEW i \in 1..Parts
  PROVE  /\ Start(g, i) \in Nat \ {0} /\ Len(g[Parts]) \in Nat
         /\ Spells(g[Parts], Start(g, i), Digits(a[i]), Parts - i)
         /\ i < Parts => Start(g, i + 1) = Start(g, i) + Len(Digits(a[i])) + 1
<1>0. Parts \in Nat \ {0}
  BY PartsAssumption
<1> DEFINE t == g[Parts]
           d == Digits(a[i])
<1>1. PICK l \in Nat, m \in Nat : /\ l = Len(g[i]) /\ m = Len(t) /\ l <= m
                                 /\ \A k \in 1..l : t[k] = g[i][k]
  BY TextGrows
<1>2. PICK n \in Nat : n = Len(d)
  <2>1. Len(d) \in Nat
    BY OctetText
  <2> HIDE DEF d
  <2> QED BY <2>1
<1>3. PICK b \in Nat \ {0} : b = Start(g, i) /\ l = b + n - 1
                             /\ \A k \in 1..n : g[i][b + k - 1] = d[k]
  <2>1. CASE i = 1
    <3>1. g[i] = d /\ Start(g, i) = 1
      BY <2>1 DEF Layout, Start
    <3>2. l = 1 + n - 1 /\ \A k \in 1..n : g[i][1 + k - 1] = d[k]
      <4>1. l = n
        BY <1>1, <1>2, <3>1
      <4>2. \A k \in 1..n : 1 + k - 1 = k
        OBVIOUS
      <4> HIDE DEF d
      <4> QED BY <3>1, <4>1, <4>2
    <3> HIDE DEF d
    <3> QED BY <3>1, <3>2
  <2>2. CASE i # 1
    <3>1. i \in 2..Parts /\ i - 1 \in 1..Parts
      BY <1>0, <2>2
    <3>2. PICK h \in Nat : h = Len(g[i - 1])
      BY <3>1, TextGrows
    <3>3. /\ l = h + 1 + n
          /\ \A k \in 1..n : g[i][h + 1 + k] = d[k]
      <4>1. /\ Len(g[i]) = Len(g[i - 1]) + 1 + Len(d)
            /\ \A k \in 1..Len(d) : g[i][Len(g[i - 1]) + 1 + k] = d[k]
        <5>1. Grown(g[i - 1], d, g[i])
          BY <3>1, NextOctet
        <5> HIDE DEF d
        <5> QED BY <5>1 DEF Grown
      <4> HIDE DEF d
      <4> QED BY <1>1, <1>2, <3>2, <4>1
    <3>4. Start(g, i) = h + 2 /\ h + 2 \in Nat \ {0} /\ l = h + 2 + n - 1
      BY <2>2, <3>2, <3>3 DEF Start
    <3>5. \A k \in 1..n : g[i][h + 2 + k - 1] = d[k]
      <4> TAKE k \in 1..n
      <4>1. h + 2 + k - 1 = h + 1 + k
        OBVIOUS
      <4> QED BY <3>3, <4>1
    <3> HIDE DEF d
    <3> WITNESS h + 2 \in Nat \ {0}
    <3> QED BY <3>4, <3>5
  <2> QED BY <2>1, <2>2
<1> HIDE DEF t, d
<1>4. \A k \in 1..n : t[b + k - 1] = d[k]
  <2> TAKE k \in 1..n
  <2>1. b + k - 1 \in 1..l
    BY <1>3
  <2> QED BY <1>1, <1>3, <2>1
<1>5. CASE i = Parts
  <2>1. l = m
    BY <1>1, <1>5 DEF t
  <2>2. Spells(t, b, d, Parts - i)
    <3>1. Parts - i = 0
      BY <1>0, <1>5
    <3> QED BY <1>1, <1>2, <1>3, <1>4, <2>1, <3>1 DEF Spells
  <2> QED BY <1>1, <1>3, <1>5, <2>2 DEF t, d
<1>6. CASE i < Parts
  <2>1. PICK j \in 2..Parts : j = i + 1 /\ j - 1 = i /\ j \in 1..Parts
    BY <1>0, <1>6
  <2>2. PICK f \in Nat : f = Len(Digits(a[j])) /\ f >= 1
    BY <2>1, OctetText
  <2>3. Len(g[j]) = l + 1 + f /\ g[j][l + 1] = dot
    <3>1. /\ Len(g[j]) = Len(g[j - 1]) + 1 + Len(Digits(a[j]))
          /\ g[j][Len(g[j - 1]) + 1] = dot
      <4>1. Grown(g[j - 1], Digits(a[j]), g[j])
        BY NextOctet
      <4> QED BY <4>1 DEF Grown
    <3> QED BY <1>1, <2>1, <2>2, <3>1
  <2>4. m >= l + 2 /\ t[l + 1] = dot
    <3>1. Len(g[j]) <= m /\ \A k \in 1..Len(g[j]) : t[k] = g[j][k]
      BY <1>1, <2>1, TextGrows DEF t
    <3>2. l + 1 \in 1..Len(g[j]) /\ Len(g[j]) >= l + 2
      BY <2>2, <2>3
    <3> QED BY <2>3, <3>1, <3>2
  <2>5. m > b + n /\ t[b + n] = dot /\ Parts - i # 0
    <3>1. b + n = l + 1
      BY <1>3
    <3> QED BY <1>0, <1>6, <2>4, <3>1
  <2>6. Spells(t, b, d, Parts - i)
    BY <1>1, <1>2, <1>4, <2>5 DEF Spells
  <2>7. Start(g, i + 1) = b + n + 1
    <3>1. Start(g, j) = l + 2
      BY <1>1, <2>1 DEF Start
    <3> QED BY <1>3, <2>1, <3>1
  <2> QED BY <1>1, <1>2, <1>3, <2>6, <2>7 DEF t, d
<1> QED BY <1>0, <1>5, <1>6

\* One octet of the comparison, from its first character on.
Compared(g, f, H, ip, r, i) ==
  /\ r[i] = any => Start(g, i) \in H
  /\ r[i] = ip[i] /\ i = Parts => Start(g, i) \in H
  /\ r[i] = ip[i] /\ i < Parts =>
       /\ Start(g, i + 1) = Start(f, i + 1)
       /\ Start(g, i) \in H <=> Start(g, i + 1) \in H
  /\ r[i] \notin {any, ip[i]} => Start(g, i) \notin H

LEMMA OctetCompared ==
  ASSUME NEW ip, NEW r, Octet(r), \A i \in 1..Parts : ip[i] \in 0..255,
         NEW g, Layout(ip, g), NEW f, Layout(r, f), NEW H, Agrees(g[Parts], f[Parts], H),
         NEW i \in 1..Parts, Start(g, i) = Start(f, i)
  PROVE  Compared(g, f, H, ip, r, i)
<1>0. Parts \in Nat \ {0}
  BY PartsAssumption
<1>1. Octet(ip)
  BY DEF Octet
<1>2. PICK n \in Nat \ {0} : n = Start(g, i)
  BY <1>1, OctetIs
<1>3. PICK left \in Nat : left = Parts - i
  BY <1>0
<1>4. /\ Len(g[Parts]) \in Nat /\ Spells(g[Parts], n, Digits(ip[i]), left)
      /\ i < Parts => Start(g, i + 1) = n + Len(Digits(ip[i])) + 1
  BY <1>1, <1>2, <1>3, OctetIs
<1>5. /\ Len(f[Parts]) \in Nat /\ Spells(f[Parts], n, Digits(r[i]), left)
      /\ i < Parts => Start(f, i + 1) = n + Len(Digits(r[i])) + 1
  BY <1>2, <1>3, OctetIs
<1>6. PICK o \in 0..255, q \in 0..255 \cup {any} : o = ip[i] /\ q = r[i]
  BY DEF Octet
<1>7. /\ Spells(g[Parts], n, Digits(o), left) /\ Spells(f[Parts], n, Digits(q), left)
  BY <1>4, <1>5, <1>6
<1>8. /\ q = any => n \in H
      /\ q = o /\ left = 0 => n \in H
      /\ q = o /\ left # 0 => (n \in H <=> n + Len(Digits(o)) + 1 \in H)
      /\ q \notin {any, o} => n \notin H
  <2>1. Leads(H, n, left, o, q)
    BY <1>4, <1>5, <1>7, OctetDecides
  <2> QED BY <2>1 DEF Leads
<1>9. (left = 0 <=> i = Parts) /\ (left # 0 <=> i < Parts)
  BY <1>0, <1>3
<1>10. ASSUME r[i] = ip[i], i < Parts
       PROVE  /\ Start(g, i + 1) = Start(f, i + 1)
              /\ Start(g, i) \in H <=> Start(g, i + 1) \in H
  BY <1>2, <1>4, <1>5, <1>6, <1>8, <1>9, <1>10
<1> QED BY <1>2, <1>6, <1>8, <1>9, <1>10 DEF Compared

\* The texts match if and only if the rule covers the address.
LEMMA MatchesCovers ==
  ASSUME NEW ip \in Address, NEW r \in Rule
  PROVE  Matches(Text(ip), Text(r)) <=> Covers(r, ip)
<1>0. Parts \in Nat \ {0}
  BY PartsAssumption
<1>1. \A i \in 1..Parts : ip[i] \in 0..255
  BY OctetsAssumption DEF Address
<1>2. /\ \A i \in 1..Parts : r[i] \in 0..255 \cup {any}
      /\ \A i, j \in 1..Parts : i < j /\ r[i] = any => r[j] = any
  BY OctetsAssumption DEF Rule
<1>3. Octet(ip) /\ Octet(r)
  BY <1>1, <1>2 DEF Octet
<1>4. PICK g : Layout(ip, g) /\ Text(ip) = g[Parts]
  BY <1>3, TextIs
<1>5. PICK f : Layout(r, f) /\ Text(r) = f[Parts]
  BY <1>3, TextIs
<1>6. Len(Text(ip)) \in Nat /\ Len(Text(r)) \in Nat
  <2>1. Parts \in 1..Parts
    BY <1>0
  <2> QED BY <1>3, <1>4, <1>5, <2>1, TextGrows
<1>7. PICK H : Agrees(Text(ip), Text(r), H) /\ (Matches(Text(ip), Text(r)) <=> 1 \in H)
  BY <1>6, MatchesFrom
<1>8. ASSUME NEW i \in 1..Parts, Start(g, i) = Start(f, i) PROVE Compared(g, f, H, ip, r, i)
  BY <1>1, <1>3, <1>4, <1>5, <1>7, <1>8, OctetCompared
<1> DEFINE Rest(i) == \A j \in i..Parts : r[j] \in {any, ip[j]}
           Claim(i) == Start(g, i) = Start(f, i) => (Start(g, i) \in H <=> Rest(i))
           S == {n \in Nat : n < Parts => Claim(Parts - n)}
<1>9. ASSUME NEW i \in 1..Parts, i = Parts \/ Claim(i + 1) PROVE Claim(i)
  <2> SUFFICES ASSUME Start(g, i) = Start(f, i) PROVE Start(g, i) \in H <=> Rest(i)
    OBVIOUS
  <2>1. Compared(g, f, H, ip, r, i)
    BY <1>8
  <2>2. CASE r[i] = any
    <3>1. \A j \in i..Parts : j = i \/ (j \in 1..Parts /\ i < j)
      BY <1>0
    <3>2. Rest(i)
      BY <1>2, <2>2, <3>1
    <3> HIDE DEF Rest
    <3> QED BY <2>1, <2>2, <3>2 DEF Compared
  <2>3. CASE r[i] \notin {any, ip[i]}
    <3>1. i \in i..Parts
      BY <1>0
    <3>2. ~ Rest(i)
      BY <2>3, <3>1
    <3> HIDE DEF Rest
    <3> QED BY <2>1, <2>3, <3>2 DEF Compared
  <2>4. CASE r[i] = ip[i] /\ i = Parts
    <3>1. \A j \in i..Parts : j = i
      BY <2>4
    <3>2. Rest(i)
      BY <2>4, <3>1
    <3> HIDE DEF Rest
    <3> QED BY <2>1, <2>4, <3>2 DEF Compared
  <2>5. CASE r[i] = ip[i] /\ i < Parts
    <3>1. Start(g, i + 1) = Start(f, i + 1) /\ (Start(g, i) \in H <=> Start(g, i + 1) \in H)
      BY <2>1, <2>5 DEF Compared
    <3>2. Start(g, i + 1) \in H <=> Rest(i + 1)
      <4>1. Claim(i + 1)
        BY <1>9, <2>5
      <4> HIDE DEF Rest
      <4> QED BY <3>1, <4>1
    <3>3. Rest(i) <=> Rest(i + 1)
      <4>1. \A j \in i..Parts : j = i \/ j \in i + 1 .. Parts
        OBVIOUS
      <4>2. \A j \in i + 1 .. Parts : j \in i..Parts
        OBVIOUS
      <4> QED BY <2>5, <4>1, <4>2
    <3> HIDE DEF Rest
    <3> QED BY <3>1, <3>2, <3>3
  <2> HIDE DEF Rest
  <2> QED BY <1>0, <2>2, <2>3, <2>4, <2>5
<1> HIDE DEF Claim
<1>10. 0 \in S
  <2>1. PICK i \in 1..Parts : i = Parts /\ i = Parts - 0
    BY <1>0
  <2>2. Claim(i)
    BY <1>9, <2>1
  <2> QED BY <2>1, <2>2
<1>11. ASSUME NEW n \in Nat, n \in S PROVE n + 1 \in S
  <2> SUFFICES ASSUME n + 1 < Parts PROVE Claim(Parts - (n + 1))
    OBVIOUS
  <2>1. PICK i \in 1..Parts : i = Parts - (n + 1) /\ i + 1 = Parts - n
    BY <1>0
  <2>2. n < Parts
    BY <1>0
  <2>3. Claim(Parts - n)
    BY <1>11, <2>2
  <2>4. Claim(i + 1)
    BY <2>1, <2>3
  <2>5. Claim(i)
    BY <1>9, <2>4
  <2> QED BY <2>1, <2>5
<1> HIDE DEF S
<1>12. Parts - 1 \in S
  BY <1>0, <1>10, <1>11, Induction, Parts - 1 \in Nat
<1>13. Claim(1)
  <2>1. Parts - 1 < Parts /\ Parts - (Parts - 1) = 1
    BY <1>0
  <2> QED BY <1>12, <2>1 DEF S
<1>14. 1 \in H <=> Rest(1)
  <2>1. Start(g, 1) = 1 /\ Start(f, 1) = 1
    BY DEF Start
  <2> HIDE DEF Rest
  <2> QED BY <1>13, <2>1 DEF Claim
<1> QED BY <1>7, <1>14 DEF Covers

\* For any octets and any number of them, and any socks.conf of rules that are octets
\* and then stars: CheckFirewall permits an address if and only if a line of the command's
\* mode covers it octet by octet, although it compares texts and stops at a star.
THEOREM RulesDecide == Decides
<1> SUFFICES ASSUME NEW ip \in Address, NEW cmd \in 1..3, NEW conf \in Conf
             PROVE  CheckFirewall(ip, cmd, TRUE, conf) <=>
                      \E l \in Range(conf) : l.mode = mode_str(cmd) /\ Covers(l.rule, ip)
  BY DEF Decides
<1>1. \A l \in Range(conf) : l.rule \in Rule
  <2>1. PICK m \in Nat : conf \in [1..m -> Line]
    BY DEF Conf, SeqOf
  <2>2. \A k \in 1..m : conf[k] \in Line /\ DOMAIN conf = 1..m
    BY <2>1
  <2>3. \A l \in Line : l.rule \in Rule
    BY DEF Line
  <2>4. \A l \in Range(conf) : l \in Line
    BY <2>1, <2>2 DEF Range
  <2> QED BY <2>3, <2>4
<1>2. \A l \in Range(conf) : Matches(Text(ip), Text(l.rule)) <=> Covers(l.rule, ip)
  <2> TAKE l \in Range(conf)
  <2> QED BY <1>1, MatchesCovers
<1> QED BY <1>2 DEF CheckFirewall

\* So the verdict on a request is the one the rules mean, in every state of a session.
THEOREM FirewallIsRight == SocksSpec => []FirewallDecides
<1>1. FirewallDecides
  BY RulesDecide DEF FirewallDecides
<1> QED BY <1>1, PTL
=============================================================================
