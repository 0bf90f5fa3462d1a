------------------------------ MODULE TableProofs ------------------------------
(***************************************************************************)
(* The upper layer of the proofs about MultiServer: what the client table  *)
(* holds, that it implements ClientTable, and that no wake-up is lost; and *)
(* at the end what becomes of the sections in MultiShutdown.               *)
(* From MultiServerProofs it uses ControlInv, mostly for this: two main    *)
(* programs are never both past Semaphore_P, so what one of them has       *)
(* tested (a free slot, a free nickname) still holds when it acts on it.   *)
(***************************************************************************)
EXTENDS MultiShutdown, MultiServerProofs

\* Where a session whose cin has reached end of file can be.
EofSections ==
  {"InitialClient", "Login", "Broadcast", "kill", "prompt", "acceptor", "dead"}

\* How far p is, and what it knows of its slot.  A session that found no slot
\* dies in Login, unless it inherited a userid: it then inherited the end of
\* file as well, and never gets to read a command.
Phase(p) ==
  /\ cineof[p] => sec[p] \in EofSections
  /\ cineof[p] /\ sec[p] \in {"Broadcast", "kill"} => ret[p] = "prompt"
  /\ sec[p] = "acceptor" => cineof[p]
  /\ sec[p] \in {"unborn", "InitialClient"} => p \notin stray
  /\ sec[p] = "InitialClient" /\ userid[p] # 0 => cineof[p]
  /\ p \in stray /\ ~cineof[p] => userid[p] = 0 /\ sec[p] \in {"Login", "dead"}
  /\ Live(p) /\ sec[p] # "InitialClient" /\ p \notin stray => userid[p] # 0

\* The slot that p is about to fill in is still free.
Claim(p) ==
  sec[p] = "InitialClient" /\ at[p]["main"] = "act" => ~clientset[idx[p]].used

\* p enters the table once.
Newcomer(p) ==
  sec[p] \in {"unborn", "InitialClient"} =>
    \A i \in Slots : ~(clientset[i].used /\ clientset[i].pid = p)

\* p's part of SlotExclusive.
Own(p) ==
  p \notin stray /\ Registered(p) =>
    clientset[userid[p]].used /\ clientset[userid[p]].pid = p

OwnerInv == \A p \in Proc : Phase(p) /\ Claim(p) /\ Newcomer(p) /\ Own(p)

-----------------------------------------------------------------------------
\* A step that gives no slot away, and one that does not touch session q.
SameOwners ==
  \A i \in Slots : /\ clientset'[i].used = clientset[i].used
                   /\ clientset'[i].pid = clientset[i].pid

SameFor(q) ==
  /\ sec'[q] = sec[q] /\ userid'[q] = userid[q] /\ cineof'[q] = cineof[q]
  /\ idx'[q] = idx[q] /\ ret'[q] = ret[q]
  /\ q \in stray' <=> q \in stray
  /\ at'[q]["main"] = "act" => at[q]["main"] = "act"

LEMMA Bystander ==
  ASSUME TypeOK, OwnerInv, SameOwners, NEW q \in Proc, SameFor(q)
  PROVE  (Phase(q) /\ Claim(q) /\ Newcomer(q) /\ Own(q))'
<1>1. Phase(q) /\ Claim(q) /\ Newcomer(q) /\ Own(q)
  BY DEF OwnerInv
<1>2. idx[q] \in Slots /\ (userid[q] # 0 => userid[q] \in Slots)
  BY DEF TypeOK, Slots
<1>3. Phase(q)'
  BY <1>1 DEF Phase, SameFor, Live
<1>4. Claim(q)'
  BY <1>1, <1>2 DEF Claim, SameFor, SameOwners
<1>5. Newcomer(q)'
  BY <1>1 DEF Newcomer, SameFor, SameOwners
<1>6. Own(q)'
  BY <1>1, <1>2 DEF Own, Registered, Live, SameFor, SameOwners
<1> QED BY <1>3, <1>4, <1>5, <1>6

\* A step of p alone: only p's own part of OwnerInv is at stake.
LEMMA LocalStep ==
  ASSUME TypeOK, OwnerInv, SameOwners, NEW p \in Proc,
         \A q \in Proc \ {p} : SameFor(q),
         (Phase(p) /\ Claim(p) /\ Newcomer(p) /\ Own(p))'
  PROVE  OwnerInv'
<1>1. ASSUME NEW q \in Proc
      PROVE  (Phase(q) /\ Claim(q) /\ Newcomer(q) /\ Own(q))'
  <2>1. CASE q = p
    BY Zenon, <2>1
  <2>2. CASE q # p
    BY <2>2, Bystander
  <2> QED BY <2>1, <2>2
<1> QED BY <1>1 DEF OwnerInv

\* The steps after which every session is where it was.
LEMMA QuietStep ==
  ASSUME TypeOK, OwnerInv, SameOwners, \A q \in Proc : SameFor(q)
  PROVE  OwnerInv'
BY Bystander DEF OwnerInv

\* Updates of a slot that keep its owner.
LEMMA OwnerUpdates ==
  ASSUME clientset \in [Slots -> Client], NEW i,
         \/ clientset' = clientset
         \/ \E b \in BOOLEAN : clientset' = [clientset EXCEPT ![i].msg = b]
         \/ \E n : clientset' = [clientset EXCEPT ![i].name = n]
         \/ \E n : clientset' = [clientset EXCEPT ![i].msg = FALSE, ![i].name = n]
  PROVE  SameOwners
BY DEF SameOwners, Client

LEMMA QuietActions ==
  ASSUME TypeOK, NEW p \in Proc,
         \/ \E f \in Frames : SemaphoreP(p, f) \/ SemaphoreWait(p, f)
         \/ SemaphoreV(p) \/ Hangup(p) \/ PrintTest(p) \/ PrintAct(p)
         \/ \E s \in Signals : HandlerV(p, s) \/ Deliver(p, s)
         \/ UNCHANGED vars
  PROVE  SameOwners /\ \A q \in Proc : SameFor(q)
<1> USE DEF Runs, control, locals, input
<1>at. at \in [Proc -> [Frames -> Positions]] /\ clientset \in [Slots -> Client]
       /\ Frames = {"main", "USR1", "USR2"} /\ Signals = {"USR1", "USR2"}
  BY DEF TypeOK, Frames, Signals
<1>same. ASSUME UNCHANGED <<sec, userid, cineof, idx, ret, stray>>,
                \A q \in Proc : at'[q]["main"] = "act" => at[q]["main"] = "act"
         PROVE  \A q \in Proc : SameFor(q)
  BY <1>same DEF SameFor
<1>1. ASSUME NEW f \in Frames, SemaphoreP(p, f) \/ SemaphoreWait(p, f)
      PROVE  SameOwners /\ \A q \in Proc : SameFor(q)
  <2>1. \A q \in Proc : at'[q]["main"] = "act" => at[q]["main"] = "act"
    BY <1>1, <1>at DEF SemaphoreP, SemaphoreWait
  <2> QED BY <1>1, <1>same, <2>1 DEF SemaphoreP, SemaphoreWait, SameOwners
<1>2. CASE SemaphoreV(p)
  <2>1. \A q \in Proc : at'[q]["main"] = "act" => at[q]["main"] = "act"
    BY <1>2, <1>at DEF SemaphoreV, Entry
  <2> QED BY <1>2, <1>same, <2>1 DEF SemaphoreV, SameOwners
<1>3. CASE Hangup(p)
  BY <1>3, <1>same DEF Hangup, SameOwners
<1>4. CASE PrintTest(p) \/ PrintAct(p)
  <2>1. \A q \in Proc : at'[q]["main"] = at[q]["main"]
    BY <1>4, <1>at DEF PrintTest, PrintAct
  <2>2. SameOwners
    BY <1>4, <1>at, OwnerUpdates DEF PrintTest, PrintAct
  <2> QED BY <1>4, <1>same, <2>1, <2>2 DEF PrintTest, PrintAct
<1>5. ASSUME NEW s \in Signals, HandlerV(p, s) \/ Deliver(p, s)
      PROVE  SameOwners /\ \A q \in Proc : SameFor(q)
  <2>1. \A q \in Proc : at'[q]["main"] = "act" => at[q]["main"] = "act"
    BY <1>5, <1>at DEF HandlerV, Deliver, Interrupted
  <2> QED BY <1>5, <1>same, <2>1 DEF HandlerV, Deliver, SameOwners
<1>6. CASE UNCHANGED vars
  BY <1>6, <1>same DEF vars, SameOwners
<1> QED BY <1>1, <1>2, <1>3, <1>4, <1>5, <1>6

\* The actions of p that only move p, or only write the mailbox or the name of
\* a slot.
LocalAction(p) ==
  \/ InitialClientTest(p) \/ Login(p) \/ Yell(p) \/ Logout(p) \/ Who(p)
  \/ NameTest(p) \/ NameAct(p) \/ TellTest(p) \/ TellAct(p)
  \/ BroadcastTest(p) \/ BroadcastAct(p) \/ Kill(p)
  \/ EndOfInput(p) \/ ReadCommand(p)
  \/ sec[p] = "memset2" /\ LogoutMemset(p)

\* They leave the other sessions and the owners of the slots alone.
LEMMA LocalFrame ==
  ASSUME TypeOK, NEW p \in Proc, LocalAction(p)
  PROVE  SameOwners /\ \A q \in Proc \ {p} : SameFor(q)
<1> USE DEF Runs, control, locals, input
<1>at. at \in [Proc -> [Frames -> Positions]] /\ clientset \in [Slots -> Client]
       /\ "main" \in Frames
  BY DEF TypeOK, Frames
<1>sec. sec \in [Proc -> Sections] /\ idx \in [Proc -> Slots]
        /\ ret \in [Proc -> {"prompt", "memset1"}] /\ cineof \in [Proc -> BOOLEAN]
  BY DEF TypeOK
<1>1. CASE InitialClientTest(p)
  BY <1>1, <1>at, <1>sec DEF InitialClientTest, Leave, SameFor, SameOwners
<1>2. CASE Login(p) \/ Yell(p) \/ Logout(p)
  BY <1>2, <1>at, <1>sec DEF Login, Yell, Logout, Announce, Leave, SameFor, SameOwners
<1>3. CASE Who(p) \/ NameTest(p) \/ TellTest(p)
  BY <1>3, <1>at, <1>sec DEF Who, NameTest, TellTest, Leave, SameFor, SameOwners
<1>4. CASE NameAct(p)
  <2>1. SameOwners
    BY <1>4, <1>at, OwnerUpdates DEF NameAct
  <2> QED BY <1>4, <2>1, <1>at, <1>sec DEF NameAct, Leave, SameFor
<1>5. CASE TellAct(p) \/ BroadcastAct(p)
  <2>1. SameOwners
    BY <1>5, <1>at, OwnerUpdates DEF TellAct, BroadcastAct, Post
  <2> QED BY <1>5, <2>1, <1>at, <1>sec DEF TellAct, BroadcastAct, Post, Leave, SameFor
<1>6. CASE BroadcastTest(p)
  BY <1>6, <1>at, <1>sec DEF BroadcastTest, NextTarget, Leave, SameFor, SameOwners
<1>7. CASE Kill(p)
  BY <1>7, <1>at, <1>sec DEF Kill, NextTarget, SameFor, SameOwners
<1>8. CASE EndOfInput(p)
  BY <1>8, <1>at, <1>sec DEF EndOfInput, SameFor, SameOwners
<1>9. CASE ReadCommand(p)
  BY <1>9, <1>at, <1>sec DEF ReadCommand, SameFor, SameOwners
<1>10. CASE sec[p] = "memset2" /\ LogoutMemset(p)
  <2>1. SameOwners
    <3>1. clientset' = [clientset EXCEPT ![userid[p]].msg = FALSE,
                                         ![userid[p]].name = NoName]
      BY <1>10 DEF LogoutMemset
    <3> QED BY <3>1, <1>at, OwnerUpdates
  <2> QED BY <1>10, <2>1, <1>at, <1>sec DEF LogoutMemset, SameFor
<1> QED BY <1>1, <1>2, <1>3, <1>4, <1>5, <1>6, <1>7, <1>8, <1>9, <1>10 DEF LocalAction

\* Between sections a session keeps its userid; where it goes next is the
\* code's choice, except that after end of file it only goes to the prompt.
LEMMA Onward ==
  ASSUME TypeOK, OwnerInv, SameOwners, NEW p \in Proc,
         Live(p), sec[p] \notin {"InitialClient", "memset1", "memset2", "exit"},
         sec[p] = "Login" => userid[p] # 0,
         sec'[p] \notin {"InitialClient", "unborn", "dead", "acceptor"},
         UNCHANGED <<userid, cineof, stray>>,
         cineof[p] => sec'[p] \in {"Login", "Broadcast", "kill", "prompt"},
         cineof[p] /\ sec'[p] \in {"Broadcast", "kill"} => ret'[p] = "prompt"
  PROVE  (Phase(p) /\ Claim(p) /\ Newcomer(p) /\ Own(p))'
<1>1. Phase(p) /\ Claim(p) /\ Newcomer(p) /\ Own(p)
  BY DEF OwnerInv
<1>2. userid[p] # 0 => userid[p] \in Slots
  BY DEF TypeOK, Slots
<1>3. Phase(p)'
  BY <1>1 DEF Phase, EofSections, Live, Ended
<1>4. Claim(p)' /\ Newcomer(p)'
  BY DEF Claim, Newcomer
<1>5. Own(p)'
  BY <1>1, <1>2 DEF Own, Registered, Live, SameOwners
<1> QED BY <1>3, <1>4, <1>5

LEMMA LocalInductive ==
  ASSUME ControlInv, OwnerInv, NEW p \in Proc, LocalAction(p)
  PROVE  OwnerInv'
<1> USE DEF Runs, control, locals, input
<1>0. TypeOK /\ SameOwners /\ \A q \in Proc \ {p} : SameFor(q)
  BY Zenon, LocalFrame DEF ControlInv
<1>at. at \in [Proc -> [Frames -> Positions]] /\ clientset \in [Slots -> Client]
       /\ "main" \in Frames
  BY <1>0 DEF TypeOK, Frames
<1>sec. sec \in [Proc -> Sections] /\ idx \in [Proc -> Slots]
        /\ ret \in [Proc -> {"prompt", "memset1"}] /\ cineof \in [Proc -> BOOLEAN]
  BY <1>0 DEF TypeOK
<1>inv. Phase(p) /\ Claim(p) /\ Newcomer(p) /\ Own(p)
  BY DEF OwnerInv
<1> SUFFICES (Phase(p) /\ Claim(p) /\ Newcomer(p) /\ Own(p))'
  BY Zenon, <1>0, LocalStep
<1>onward. ASSUME Live(p), sec[p] \notin {"InitialClient", "memset1", "memset2", "exit"},
                  sec[p] = "Login" => userid[p] # 0,
                  sec'[p] \notin {"InitialClient", "unborn", "dead", "acceptor"},
                  UNCHANGED <<userid, cineof, stray>>,
                  cineof[p] => sec'[p] \in {"Login", "Broadcast", "kill", "prompt"},
                  cineof[p] /\ sec'[p] \in {"Broadcast", "kill"} => ret'[p] = "prompt"
           PROVE  (Phase(p) /\ Claim(p) /\ Newcomer(p) /\ Own(p))'
  BY Zenon, <1>0, <1>onward, Onward
<1>1. CASE InitialClientTest(p)
  <2>0. Live(p) /\ sec[p] = "InitialClient" /\ UNCHANGED <<clientset, userid, cineof, ret>>
    BY <1>1 DEF InitialClientTest
  <2>1. CASE UNCHANGED <<sec, stray>> /\ ~clientset[idx'[p]].used
    BY <1>inv, <2>0, <2>1 DEF Phase, Claim, Newcomer, Own, Registered, Live
  <2>2. CASE sec'[p] = "Login" /\ stray' = stray \cup {p}
    BY <1>inv, <2>0, <2>2 DEF Phase, Claim, Newcomer, Own, Registered, Live, EofSections, Ended
  <2>3. \/ UNCHANGED <<sec, stray>> /\ ~clientset[idx'[p]].used
        \/ sec'[p] = "Login" /\ stray' = stray \cup {p}
    BY <1>1, <1>sec DEF InitialClientTest, Leave, FreeSlots
  <2> QED BY <2>1, <2>2, <2>3
<1>2. CASE Login(p)
  BY <1>2, <1>sec, <1>onward DEF Login, Announce, Leave
<1>3. CASE Yell(p)
  BY <1>3, <1>sec, <1>inv, <1>onward DEF Yell, Announce, Leave, Phase, EofSections
<1>4. CASE Logout(p)
  BY <1>4, <1>sec, <1>inv, <1>onward DEF Logout, Announce, Leave, Phase, EofSections
<1>5. CASE Who(p) \/ NameTest(p) \/ TellTest(p)
  BY <1>5, <1>sec, <1>inv, <1>onward DEF Who, NameTest, TellTest, Leave, Phase, EofSections
<1>6. CASE NameAct(p)
  BY <1>6, <1>sec, <1>inv, <1>onward DEF NameAct, Leave, Phase, EofSections
<1>7. CASE TellAct(p)
  BY <1>7, <1>sec, <1>inv, <1>onward DEF TellAct, Post, Leave, Phase, EofSections
<1>8. CASE BroadcastAct(p)
  BY <1>8, <1>sec, <1>inv, <1>onward DEF BroadcastAct, Post, Leave, Phase, EofSections
<1>9. CASE BroadcastTest(p)
  <2>1. sec'[p] \in {"Broadcast", ret[p]} /\ ret' = ret
    BY <1>9, <1>sec DEF BroadcastTest, Leave, AfterTarget
  <2> QED BY <2>1, <1>9, <1>sec, <1>inv, <1>onward DEF BroadcastTest, Phase
<1>10. CASE Kill(p)
  <2>1. sec[p] \in {"kill", "tellkill"} /\ ret' = ret /\ Live(p)
        /\ UNCHANGED <<userid, cineof, stray>>
    BY <1>10 DEF Kill
  <2>2. sec'[p] \in IF sec[p] = "kill" THEN {"Broadcast", ret[p]} ELSE {"prompt"}
    BY <1>10, <1>sec DEF Kill, AfterTarget
  <2>3. cineof[p] => sec[p] # "tellkill" /\ ret[p] = "prompt"
    BY <2>1, <1>inv DEF Phase, EofSections
  <2> QED BY <2>1, <2>2, <2>3, <1>sec, <1>onward
<1>11. CASE EndOfInput(p)
  <2>1. sec[p] = "prompt" /\ Live(p) /\ sec'[p] = "acceptor" /\ cineof'[p] = TRUE
        /\ UNCHANGED <<clientset, userid, stray>>
    BY <1>11, <1>sec DEF EndOfInput
  <2> QED BY <2>1, <1>inv
          DEF Phase, Claim, Newcomer, Own, Registered, Live, EofSections, Ended
<1>12. CASE ReadCommand(p)
  <2>1. sec[p] = "prompt" /\ ~cineof[p] /\ Live(p)
        /\ sec'[p] \in {"Who", "Name", "Tell", "Yell", "Logout"}
        /\ UNCHANGED <<userid, cineof, stray>>
    BY <1>12, <1>sec DEF ReadCommand
  <2> QED BY <2>1, <1>onward
<1>13. CASE sec[p] = "memset2" /\ LogoutMemset(p)
  <2>1. sec[p] = "memset2" /\ sec'[p] = "exit" /\ UNCHANGED <<userid, cineof, stray>>
    BY <1>13, <1>sec DEF LogoutMemset
  <2> QED BY <2>1, <1>inv
          DEF Phase, Claim, Newcomer, Own, Registered, Live, EofSections, Ended
<1> QED
  BY <1>1, <1>2, <1>3, <1>4, <1>5, <1>6, <1>7, <1>8, <1>9, <1>10, <1>11,
     <1>12, <1>13 DEF LocalAction

\* A session that ends keeps its slot used, and the table as it is.
LEMMA EndInductive ==
  ASSUME TypeOK, OwnerInv, NEW p \in Proc, Ends(p)
  PROVE  OwnerInv'
<1>1. End(p) /\ UNCHANGED clientset
  BY DEF Ends
<1>at. at \in [Proc -> [Frames -> Positions]] /\ sec \in [Proc -> Sections]
       /\ idx \in [Proc -> Slots] /\ ret \in [Proc -> {"prompt", "memset1"}]
       /\ userid \in [Proc -> 0..N]
  BY DEF TypeOK
<1>2. SameOwners /\ \A q \in Proc \ {p} : SameFor(q)
  BY <1>1, <1>at DEF End, input, SameOwners, SameFor
<1>3. sec'[p] = "dead" /\ userid'[p] = 0 /\ UNCHANGED <<cineof, stray>>
  BY <1>1, <1>at DEF End, input
<1>4. (Phase(p) /\ Claim(p) /\ Newcomer(p) /\ Own(p))'
  BY <1>3 DEF Phase, Claim, Newcomer, Own, Registered, Live, EofSections, Ended
<1> QED BY Zenon, <1>2, <1>4, LocalStep

\* A session forked by another one starts with that one's userid and cin, and
\* only sessions at end of file fork.
LEMMA ForkInductive ==
  ASSUME TypeOK, OwnerInv, NEW p \in Proc, Accepts(p)
  PROVE  OwnerInv'
<1>1. PICK id \in 0..N, eof \in BOOLEAN : Fork(p, id, eof) /\ (id # 0 => eof)
  <2>1. CASE AcceptByMaster(p)
    <3>1. 0 \in 0..N /\ FALSE \in BOOLEAN
      BY NAssumption
    <3> QED BY Zenon, <3>1, <2>1 DEF AcceptByMaster
  <2>2. ASSUME NEW q \in Proc, AcceptBySession(q, p)
        PROVE  \E id \in 0..N, eof \in BOOLEAN : Fork(p, id, eof) /\ (id # 0 => eof)
    <3>1. userid[q] \in 0..N /\ cineof[q] \in BOOLEAN /\ Phase(q)
      BY DEF TypeOK, OwnerInv
    <3>2. cineof[q] /\ Fork(p, userid[q], cineof[q])
      BY <2>2, <3>1 DEF AcceptBySession, Phase
    <3> QED BY <3>1, <3>2
  <2> QED BY <2>1, <2>2 DEF Accepts
<1>at. at \in [Proc -> [Frames -> Positions]] /\ sec \in [Proc -> Sections]
       /\ userid \in [Proc -> 0..N] /\ cineof \in [Proc -> BOOLEAN]
       /\ "main" \in Frames
  BY DEF TypeOK, Frames
<1>inv. Phase(p) /\ Newcomer(p)
  BY DEF OwnerInv
<1>2. SameOwners /\ \A q \in Proc \ {p} : SameFor(q)
  BY <1>1, <1>at DEF Fork, locals, SameOwners, SameFor
<1>3. /\ sec[p] = "unborn" /\ sec'[p] = "InitialClient" /\ at'[p]["main"] = "P"
      /\ userid'[p] = id /\ cineof'[p] = eof /\ UNCHANGED <<clientset, stray>>
  BY <1>1, <1>at DEF Fork
<1>4. (Phase(p) /\ Claim(p) /\ Newcomer(p) /\ Own(p))'
  BY <1>1, <1>3, <1>inv DEF Phase, Claim, Newcomer, Own, Registered, EofSections
<1> QED BY Zenon, <1>2, <1>4, LocalStep

\* Two main programs are never both past their Semaphore_P.
LEMMA OneMain ==
  ASSUME ControlInv, NEW p \in Proc, NEW q \in Proc,
         at[p]["main"] \in Inside, at[q]["main"] \in Inside
  PROVE  p = q
BY DEF ControlInv, SemaphoreInv, Holds, Frames

\* p fills in the slot it found: nobody else is about to, and nobody has it.
LEMMA EnterInductive ==
  ASSUME ControlInv, OwnerInv, NEW p \in Proc, InitialClientAct(p)
  PROVE  OwnerInv'
<1> USE DEF Runs, control, locals, input
<1>at. /\ at \in [Proc -> [Frames -> Positions]] /\ "main" \in Frames
       /\ clientset \in [Slots -> Client] /\ sec \in [Proc -> Sections]
       /\ userid \in [Proc -> 0..N] /\ idx \in [Proc -> Slots]
  BY DEF ControlInv, TypeOK, Frames
<1>1. /\ sec[p] = "InitialClient" /\ at[p]["main"] = "act" /\ Live(p)
      /\ sec' = [sec EXCEPT ![p] = "Login"]
      /\ at' = [at EXCEPT ![p]["main"] = "V"]
      /\ userid' = [userid EXCEPT ![p] = idx[p]]
      /\ UNCHANGED <<idx, ret, cineof, stray>>
      /\ clientset' = [clientset EXCEPT ![idx[p]] =
           [used |-> TRUE, pid |-> p, name |-> DefaultName, msg |-> @.msg]]
  BY DEF InitialClientAct, Leave
<1>inv. \A q \in Proc : Phase(q) /\ Claim(q) /\ Newcomer(q) /\ Own(q)
  BY DEF OwnerInv
<1>2. /\ clientset'[idx[p]].used /\ clientset'[idx[p]].pid = p
      /\ \A i \in Slots \ {idx[p]} : clientset'[i] = clientset[i]
  BY <1>1, <1>at
<1>3. idx[p] \in Slots /\ idx[p] # 0 /\ ~clientset[idx[p]].used
  BY <1>1, <1>inv, <1>at DEF Claim, Slots
<1>4. ASSUME NEW q \in Proc
      PROVE  (Phase(q) /\ Claim(q) /\ Newcomer(q) /\ Own(q))'
  <2>1. CASE q = p
    <3>1. /\ sec'[p] = "Login" /\ userid'[p] = idx[p]
      BY <1>1, <1>at
    <3>2. Phase(p)'
      BY <3>1, <1>1, <1>3, <1>inv DEF Phase, EofSections, Live, Ended
    <3>3. Claim(p)' /\ Newcomer(p)'
      BY <3>1 DEF Claim, Newcomer
    <3>4. Own(p)'
      BY <3>1, <1>2 DEF Own
    <3> QED BY <2>1, <3>2, <3>3, <3>4
  <2>2. CASE q # p
    <3>1. /\ sec'[q] = sec[q] /\ userid'[q] = userid[q] /\ at'[q] = at[q]
          /\ cineof' = cineof /\ ret' = ret /\ idx' = idx /\ stray' = stray
      BY <1>1, <1>at, <2>2
    <3>2. Phase(q)'
      BY <3>1, <1>inv DEF Phase, Live
    <3>3. Claim(q)'
      <4>1. at[q]["main"] # "act"
        BY <1>1, <2>2, OneMain DEF Inside
      <4> QED BY <3>1, <4>1 DEF Claim
    <3>4. Newcomer(q)'
      <4>1. \A i \in Slots : clientset'[i].used /\ clientset'[i].pid = q
                               => clientset[i].used /\ clientset[i].pid = q
        BY <1>2, <2>2
      <4> QED BY <3>1, <4>1, <1>inv DEF Newcomer
    <3>5. Own(q)'
      <4>1. \A i \in Slots : clientset[i].used => clientset'[i] = clientset[i]
        BY <1>2, <1>3
      <4>2. userid[q] # 0 => userid[q] \in Slots
        BY <1>at DEF Slots
      <4> QED BY <3>1, <4>1, <4>2, <1>inv DEF Own, Registered, Live
    <3> QED BY <3>2, <3>3, <3>4, <3>5
  <2> QED BY <2>1, <2>2
<1> QED BY <1>4 DEF OwnerInv

\* The unlocked memset frees the slot of the session that logs out, and no
\* other session has that slot.
LEMMA FreeInductive ==
  ASSUME TypeOK, OwnerInv, NEW p \in Proc, sec[p] = "memset1", LogoutMemset(p)
  PROVE  OwnerInv'
<1> USE DEF Runs, control, locals, input
<1>at. /\ clientset \in [Slots -> Client] /\ sec \in [Proc -> Sections]
       /\ userid \in [Proc -> 0..N] /\ idx \in [Proc -> Slots]
  BY DEF TypeOK
<1>1. /\ Live(p) /\ sec' = [sec EXCEPT ![p] = "memset2"]
      /\ UNCHANGED <<at, userid, idx, ret, cineof, stray>>
      /\ clientset' = [clientset EXCEPT ![userid[p]].used = FALSE,
                                        ![userid[p]].pid = NoProc]
  BY DEF LogoutMemset
<1>inv. \A q \in Proc : Phase(q) /\ Claim(q) /\ Newcomer(q) /\ Own(q)
  BY DEF OwnerInv
<1>2. p \notin stray /\ userid[p] # 0 /\ clientset[userid[p]].pid = p
  BY <1>1, <1>inv DEF Phase, Own, Registered, EofSections
<1>3. /\ \A i \in Slots \ {userid[p]} : clientset'[i] = clientset[i]
      /\ \A i \in Slots : clientset'[i].used => clientset'[i] = clientset[i]
  BY <1>1, <1>at DEF Client
<1>4. ASSUME NEW q \in Proc
      PROVE  (Phase(q) /\ Claim(q) /\ Newcomer(q) /\ Own(q))'
  <2>1. CASE q = p
    <3>1. sec'[p] = "memset2"
      BY <1>1, <1>at
    <3> QED BY <2>1, <3>1, <1>1, <1>2, <1>inv
            DEF Phase, Claim, Newcomer, Own, Registered, EofSections
  <2>2. CASE q # p
    <3>1. sec'[q] = sec[q] /\ idx[q] \in Slots
      BY <1>1, <1>at, <2>2
    <3>2. Phase(q)'
      BY <3>1, <1>1, <1>inv DEF Phase, Live
    <3>3. Claim(q)'
      <4>1. clientset'[idx[q]].used => clientset[idx[q]].used
        BY <3>1, <1>3
      <4> QED BY <3>1, <4>1, <1>1, <1>inv DEF Claim
    <3>4. Newcomer(q)'
      <4>1. \A i \in Slots : clientset'[i].used /\ clientset'[i].pid = q
                               => clientset[i].used /\ clientset[i].pid = q
        BY <1>3
      <4> QED BY <3>1, <4>1, <1>inv DEF Newcomer
    <3>5. Own(q)'
      <4>1. userid[q] # 0 => userid[q] \in Slots
        BY <1>at DEF Slots
      <4>2. ASSUME q \notin stray, Registered(q)
            PROVE  clientset'[userid[q]].used /\ clientset'[userid[q]].pid = q
        <5>1. clientset[userid[q]].used /\ clientset[userid[q]].pid = q
              /\ userid[q] \in Slots
          BY <4>1, <4>2, <1>inv DEF Own, Registered
        <5>2. userid[q] \in Slots \ {userid[p]}
          BY <5>1, <1>2, <2>2
        <5> QED BY <5>1, <5>2, <1>3
      <4> QED BY <3>1, <4>2, <1>1 DEF Own, Registered, Live
    <3> QED BY <3>2, <3>3, <3>4, <3>5
  <2> QED BY <2>1, <2>2
<1> QED BY <1>4 DEF OwnerInv

LEMMA OwnerInit == Init => OwnerInv
<1> SUFFICES ASSUME Init, NEW p \in Proc
             PROVE  Phase(p) /\ Claim(p) /\ Newcomer(p) /\ Own(p)
  BY DEF OwnerInv
<1>1. sec[p] = "unborn" /\ ~cineof[p] /\ p \notin stray
  BY DEF Init
<1>2. \A i \in Slots : ~clientset[i].used
  BY DEF Init, EmptyClient
<1> QED
  BY <1>1, <1>2 DEF Phase, Claim, Newcomer, Own, Registered, Live, Ended

\* The steps, sorted by what they do to the table.
LEMMA StepCases ==
  ASSUME [Next]_vars
  PROVE  \/ \E p \in Proc :
              \/ LocalAction(p) \/ Ends(p) \/ Accepts(p) \/ InitialClientAct(p)
              \/ sec[p] = "memset1" /\ LogoutMemset(p)
              \/ \E f \in Frames : SemaphoreP(p, f) \/ SemaphoreWait(p, f)
              \/ SemaphoreV(p) \/ Hangup(p) \/ PrintTest(p) \/ PrintAct(p)
              \/ \E s \in Signals : HandlerV(p, s) \/ Deliver(p, s)
         \/ UNCHANGED vars
<1>1. \A p \in Proc : Body(p) => \/ LocalAction(p) \/ InitialClientAct(p)
                                 \/ sec[p] = "memset1" /\ LogoutMemset(p)
                                 \/ \E f \in Frames : SemaphoreWait(p, f)
                                 \/ Hangup(p) \/ PrintTest(p) \/ PrintAct(p)
  <2>1. \A p \in Proc : LogoutMemset(p) => sec[p] \in {"memset1", "memset2"}
    BY DEF LogoutMemset
  <2> QED BY Zenon, <2>1 DEF Body, LocalAction
<1>2. \A p \in Proc : Kill(p) => LocalAction(p)
  BY Zenon DEF LocalAction
<1> QED BY Zenon, <1>1, <1>2, NextCases

LEMMA OwnerNext ==
  ASSUME ControlInv, OwnerInv, [Next]_vars
  PROVE  OwnerInv'
<1>0. TypeOK
  BY DEF ControlInv
<1>2. ASSUME NEW p \in Proc, LocalAction(p) PROVE OwnerInv'
  BY Zenon, <1>2, LocalInductive
<1>3. ASSUME NEW p \in Proc, Ends(p) PROVE OwnerInv'
  BY Zenon, <1>0, <1>3, EndInductive
<1>4. ASSUME NEW p \in Proc, Accepts(p) PROVE OwnerInv'
  BY Zenon, <1>0, <1>4, ForkInductive
<1>5. ASSUME NEW p \in Proc, InitialClientAct(p) PROVE OwnerInv'
  BY Zenon, <1>5, EnterInductive
<1>6. ASSUME NEW p \in Proc, sec[p] = "memset1", LogoutMemset(p) PROVE OwnerInv'
  BY Zenon, <1>0, <1>6, FreeInductive
<1>7. ASSUME NEW p \in Proc,
             \/ \E f \in Frames : SemaphoreP(p, f) \/ SemaphoreWait(p, f)
             \/ SemaphoreV(p) \/ Hangup(p) \/ PrintTest(p) \/ PrintAct(p)
             \/ \E s \in Signals : HandlerV(p, s) \/ Deliver(p, s)
             \/ UNCHANGED vars
      PROVE OwnerInv'
  BY Zenon, <1>0, <1>7, QuietActions, QuietStep
<1>8. CASE UNCHANGED vars
  <2>1. SameOwners /\ \A q \in Proc : SameFor(q)
    BY <1>8 DEF vars, control, locals, input, SameOwners, SameFor
  <2> QED BY Zenon, <1>0, <2>1, QuietStep
<1> QED
  BY Zenon, <1>2, <1>3, <1>4, <1>5, <1>6, <1>7, <1>8, StepCases

LEMMA OwnerAlways == Spec => [](ControlInv /\ OwnerInv)
<1>1. Init => ControlInv /\ OwnerInv
  BY ControlInit, OwnerInit
<1>2. ControlInv /\ OwnerInv /\ [Next]_vars => (ControlInv /\ OwnerInv)'
  BY Zenon, ControlNext, OwnerNext
<1> QED BY PTL, <1>1, <1>2 DEF Spec

\* A registered session keeps its slot to itself, however many sessions come,
\* leave, die or accept connections on behalf of the server.
THEOREM SlotsExclusive == Spec => []SlotExclusive
<1>1. ControlInv /\ OwnerInv => SlotExclusive
  BY DEF OwnerInv, Own, SlotExclusive
<1> QED BY PTL, <1>1, OwnerAlways

-----------------------------------------------------------------------------
(* Nicknames.                                                              *)

\* The nickname that p is about to take is still free.
Fresh(p) ==
  sec[p] = "Name" /\ at[p]["main"] = "act" =>
    \A i \in Slots : clientset[i].name # arg[p]

NameInv == (\A p \in Proc : Fresh(p)) /\ UniqueNames

\* A step after which a nickname in the table was there before.
NamesKept ==
  \A i \in Slots : /\ clientset'[i].name \in {clientset[i].name, NoName}
                   /\ clientset'[i].used => clientset[i].used

\* q is about to take a nickname only if it already was, and the same one.
FreshKept(q) ==
  sec'[q] = "Name" /\ at'[q]["main"] = "act" =>
    sec[q] = "Name" /\ at[q]["main"] = "act" /\ arg'[q] = arg[q]

LEMMA NameUpdates ==
  ASSUME clientset \in [Slots -> Client], NEW i,
         \/ clientset' = clientset
         \/ \E b \in BOOLEAN : clientset' = [clientset EXCEPT ![i].msg = b]
         \/ clientset' = [clientset EXCEPT ![i].used = FALSE, ![i].pid = NoProc]
         \/ clientset' = [clientset EXCEPT ![i].msg = FALSE, ![i].name = NoName]
  PROVE  NamesKept
BY DEF NamesKept, Client

LEMMA NamesStay ==
  ASSUME TypeOK, NameInv, NamesKept, \A q \in Proc : FreshKept(q)
  PROVE  NameInv'
<1>1. \A q \in Proc : arg[q] # NoName
  BY NamesAssumption DEF TypeOK, NoName, DefaultName
<1>2. \A q \in Proc : Fresh(q)'
  BY <1>1 DEF NameInv, Fresh, FreshKept, NamesKept
<1>3. UniqueNames'
  BY NamesAssumption DEF NameInv, UniqueNames, NamesKept
<1> QED BY <1>2, <1>3 DEF NameInv

LEMMA NameNext ==
  ASSUME ControlInv, OwnerInv, NameInv, [Next]_vars
  PROVE  NameInv'
<1> USE DEF Runs, control, locals, input
<1>at. /\ at \in [Proc -> [Frames -> Positions]] /\ sec \in [Proc -> Sections]
       /\ arg \in [Proc -> Names \cup {DefaultName}] /\ clientset \in [Slots -> Client]
       /\ "main" \in Frames /\ TypeOK
  BY DEF ControlInv, TypeOK, Frames
<1>1. ASSUME NEW p \in Proc,
             \/ \E f \in Frames : SemaphoreP(p, f) \/ SemaphoreWait(p, f)
             \/ SemaphoreV(p) \/ Hangup(p) \/ PrintTest(p) \/ PrintAct(p)
             \/ \E s \in Signals : HandlerV(p, s) \/ Deliver(p, s)
      PROVE NameInv'
  <2>1. \A q \in Proc : SameFor(q)
    BY Zenon, <1>at, <1>1, QuietActions
  <2>2. arg' = arg
    BY <1>1 DEF SemaphoreP, SemaphoreWait, SemaphoreV, Hangup, PrintTest, PrintAct,
                HandlerV, Deliver
  <2>3. NamesKept
    BY <1>1, <1>at, NameUpdates DEF SemaphoreP, SemaphoreWait, SemaphoreV, Hangup,
       PrintTest, PrintAct, HandlerV, Deliver
  <2>4. \A q \in Proc : FreshKept(q)
    BY <2>1, <2>2 DEF FreshKept, SameFor
  <2> QED BY Zenon, <1>at, <2>3, <2>4, NamesStay
<1>2. ASSUME NEW p \in Proc, LocalAction(p), ~NameTest(p), ~NameAct(p) PROVE NameInv'
  <2>1. NamesKept
    BY <1>2, <1>at, NameUpdates
       DEF LocalAction, InitialClientTest, Login, Yell, Logout, Announce, Who,
           TellTest, TellAct, BroadcastTest, BroadcastAct, Post, Kill, EndOfInput,
           ReadCommand, LogoutMemset
  <2>2. \A q \in Proc \ {p} : arg'[q] = arg[q]
    BY <1>2, <1>at
       DEF LocalAction, InitialClientTest, Login, Yell, Logout, Announce, Who,
           TellTest, TellAct, BroadcastTest, BroadcastAct, Post, Kill, EndOfInput,
           ReadCommand, LogoutMemset
  <2>3. \A q \in Proc \ {p} : FreshKept(q)
    <3>1. \A q \in Proc \ {p} : SameFor(q)
      BY Zenon, <1>at, <1>2, LocalFrame
    <3> QED BY <2>2, <3>1 DEF FreshKept, SameFor
  <2>4. FreshKept(p)
    <3>1. CASE ReadCommand(p)
      BY <3>1, <1>at DEF ReadCommand, FreshKept
    <3>2. CASE ~ReadCommand(p)
      <4>1. sec'[p] # "Name" \/ (at'[p]["main"] # "act")
        BY <1>2, <3>2, <1>at
           DEF LocalAction, InitialClientTest, Login, Yell, Logout, Announce, Who,
               TellTest, TellAct, BroadcastTest, BroadcastAct, Post, Kill, EndOfInput,
               LogoutMemset, Leave, AfterTarget, Entry, TypeOK
      <4> QED BY <4>1 DEF FreshKept
    <3> QED BY <3>1, <3>2
  <2> QED BY <1>at, <2>1, <2>3, <2>4, NamesStay
<1>3. ASSUME NEW p \in Proc, NameTest(p) PROVE NameInv'
  <2>1. UNCHANGED <<clientset, arg>>
    BY <1>3 DEF NameTest
  <2>2. UniqueNames'
    BY <2>1 DEF NameInv, UniqueNames
  <2>3. ASSUME NEW q \in Proc \ {p} PROVE Fresh(q)'
    BY <1>3, <1>at, <2>1 DEF NameTest, Leave, NameInv, Fresh
  <2>4. Fresh(p)'
    <3>1. CASE NameTaken(arg[p]) /\ Leave(p, "prompt")
      BY <3>1, <1>at DEF Leave, Fresh
    <3>2. CASE ~NameTaken(arg[p])
      BY <3>2, <2>1 DEF NameTaken, Fresh
    <3> QED BY <1>3, <3>1, <3>2 DEF NameTest
  <2> QED BY <2>2, <2>3, <2>4 DEF NameInv
<1>alone. ASSUME NEW p \in Proc, at[p]["main"] = "act", sec'[p] # "Name",
                 \A q \in Proc \ {p} : sec'[q] = sec[q] /\ at'[q] = at[q]
          PROVE  \A q \in Proc : Fresh(q)'
  <2>1. ASSUME NEW q \in Proc \ {p} PROVE at'[q]["main"] # "act"
    BY <1>alone, <2>1, OneMain DEF Inside
  <2> QED BY <1>alone, <2>1 DEF Fresh
<1>4. ASSUME NEW p \in Proc, NameAct(p) PROVE NameInv'
  <2>1. /\ at[p]["main"] = "act" /\ sec[p] = "Name" /\ sec'[p] # "Name"
        /\ \A q \in Proc \ {p} : sec'[q] = sec[q] /\ at'[q] = at[q]
        /\ clientset' = [clientset EXCEPT ![userid[p]].name = arg[p]]
    BY <1>4, <1>at DEF NameAct, Leave
  <2>2. \A i \in Slots : clientset[i].name # arg[p]
    BY <2>1 DEF NameInv, Fresh
  <2>3. \A i \in Slots : /\ clientset'[i].used = clientset[i].used
                         /\ i # userid[p] => clientset'[i].name = clientset[i].name
                         /\ i = userid[p] => clientset'[i].name = arg[p]
    BY <2>1, <1>at DEF Client
  <2>4. UniqueNames'
    BY <2>2, <2>3 DEF NameInv, UniqueNames
  <2> QED BY <2>1, <2>4, <1>alone DEF NameInv
<1>5. ASSUME NEW p \in Proc, InitialClientAct(p) PROVE NameInv'
  <2>1. /\ at[p]["main"] = "act" /\ sec'[p] # "Name"
        /\ \A q \in Proc \ {p} : sec'[q] = sec[q] /\ at'[q] = at[q]
    BY <1>5, <1>at DEF InitialClientAct, Leave
  <2>2. \A i \in Slots : clientset'[i] = clientset[i] \/ clientset'[i].name = DefaultName
    BY <1>5, <1>at DEF InitialClientAct
  <2>3. UniqueNames'
    BY <2>2 DEF NameInv, UniqueNames
  <2> QED BY <2>1, <2>3, <1>alone DEF NameInv
<1>6. ASSUME NEW p \in Proc, sec[p] = "memset1", LogoutMemset(p) PROVE NameInv'
  <2>1. NamesKept
    BY <1>6, <1>at, NameUpdates DEF LogoutMemset
  <2>2. \A q \in Proc : FreshKept(q)
    BY <1>6, <1>at DEF LogoutMemset, FreshKept
  <2> QED BY Zenon, <1>at, <2>1, <2>2, NamesStay
<1>7. ASSUME NEW p \in Proc, Ends(p) \/ Accepts(p) PROVE NameInv'
  <2>1. UNCHANGED clientset
    BY <1>7 DEF Ends,
                Accepts, AcceptByMaster, AcceptBySession, Fork
  <2>2. NamesKept
    BY <2>1 DEF NamesKept
  <2>3. \A q \in Proc : FreshKept(q)
    <3>1. CASE Ends(p)
      <4>1. End(p)
        BY <3>1 DEF Ends
      <4> QED BY <4>1, <1>at DEF End, FreshKept
    <3>2. CASE Accepts(p)
      <4>1. PICK id, eof : Fork(p, id, eof)
        BY Zenon, <3>2 DEF Accepts, AcceptByMaster, AcceptBySession
      <4> QED BY <4>1, <1>at DEF Fork, FreshKept
    <3> QED BY <1>7, <3>1, <3>2
  <2> QED BY Zenon, <1>at, <2>2, <2>3, NamesStay
<1>8. CASE UNCHANGED vars
  <2>1. NamesKept /\ \A q \in Proc : FreshKept(q)
    BY <1>8 DEF vars, NamesKept, FreshKept
  <2> QED BY Zenon, <1>at, <2>1, NamesStay
<1> QED
  BY Zenon, <1>1, <1>2, <1>3, <1>4, <1>5, <1>6, <1>7, <1>8, StepCases

LEMMA NameAlways == Spec => [](ControlInv /\ OwnerInv /\ NameInv)
<1>1. Init => NameInv
  BY DEF Init, NameInv, Fresh, UniqueNames, EmptyClient
<1>2. ControlInv /\ OwnerInv /\ NameInv /\ [Next]_vars => NameInv'
  BY Zenon, NameNext
<1> QED BY PTL, <1>1, <1>2, OwnerAlways DEF Spec

\* No two clients ever have the same nickname.
THEOREM NamesUnique == Spec => []UniqueNames
BY PTL, NameAlways DEF NameInv

-----------------------------------------------------------------------------
(* Refinement of ClientTable.                                              *)

OwnerOf == [i \in Slots |-> IF clientset[i].used THEN clientset[i].pid ELSE NoProc]
NickOf == [i \in Slots |-> IF clientset[i].used THEN clientset[i].name ELSE NoName]

\* A step that leaves the used slots as they are is invisible in the table.
LEMMA Stutter ==
  ASSUME \A i \in Slots : /\ clientset'[i].used = clientset[i].used
                          /\ clientset'[i].pid = clientset[i].pid
                          /\ clientset'[i].name = clientset[i].name
  PROVE  UNCHANGED <<OwnerOf, NickOf>>
BY DEF OwnerOf, NickOf

LEMMA NewEntry ==
  ASSUME clientset \in [Slots -> Client], ControlInv, OwnerInv,
         NEW p \in Proc, InitialClientAct(p)
  PROVE  \E i \in Slots : Table!Enter(i, p)
<1>1. /\ ~clientset[idx[p]].used /\ idx[p] \in Slots
      /\ clientset' = [clientset EXCEPT ![idx[p]] =
           [used |-> TRUE, pid |-> p, name |-> DefaultName, msg |-> @.msg]]
  BY DEF OwnerInv, Claim, InitialClientAct, Runs, ControlInv, TypeOK
<1>2. \A i \in Slots : OwnerOf[i] # p
  <2>1. \A i \in Slots : ~(clientset[i].used /\ clientset[i].pid = p)
    BY DEF OwnerInv, Newcomer, InitialClientAct, Runs
  <2> QED BY <2>1, ProcAssumption DEF OwnerOf
<1>3. OwnerOf[idx[p]] = NoProc
  BY <1>1 DEF OwnerOf
<1>4. OwnerOf' = [OwnerOf EXCEPT ![idx[p]] = p]
  BY <1>1 DEF OwnerOf
<1>5. NickOf' = [NickOf EXCEPT ![idx[p]] = DefaultName]
  BY <1>1 DEF NickOf
<1> DEFINE i == idx[p]
<1>6. i \in Slots /\ OwnerOf[i] = NoProc
      /\ OwnerOf' = [OwnerOf EXCEPT ![i] = p]
      /\ NickOf' = [NickOf EXCEPT ![i] = DefaultName]
  BY <1>1, <1>3, <1>4, <1>5
<1> HIDE DEF i
<1> QED
  BY <1>2, <1>6 DEF Table!Enter, OwnerOf, NickOf

LEMMA NewName ==
  ASSUME clientset \in [Slots -> Client], ControlInv, OwnerInv, NameInv,
         NEW p \in Proc, NameAct(p)
  PROVE  \E i \in Slots, n \in Names \cup {DefaultName} : Table!Rename(i, n)
<1>1. /\ sec[p] = "Name" /\ Live(p) /\ at[p]["main"] = "act"
      /\ clientset' = [clientset EXCEPT ![userid[p]].name = arg[p]]
  BY DEF NameAct, Runs
<1>2. /\ userid[p] # 0 /\ clientset[userid[p]].used /\ clientset[userid[p]].pid = p
  BY <1>1 DEF OwnerInv, Phase, Own, Registered, EofSections
<1>3. userid[p] \in Slots /\ arg[p] \in Names \cup {DefaultName}
  BY <1>2 DEF ControlInv, TypeOK, Slots
<1>4. \A i \in Slots : NickOf[i] # arg[p]
  BY <1>1, <1>3, NamesAssumption DEF NameInv, Fresh, NickOf, NoName, DefaultName
<1>5. OwnerOf[userid[p]] # NoProc
  BY <1>2, <1>3, ProcAssumption DEF OwnerOf
<1>6. \A i \in Slots : /\ clientset'[i].used = clientset[i].used
                       /\ clientset'[i].pid = clientset[i].pid
                       /\ i # userid[p] => clientset'[i].name = clientset[i].name
                       /\ i = userid[p] => clientset'[i].name = arg[p]
  BY <1>1 DEF Client
<1>7. OwnerOf' = OwnerOf
  BY <1>6 DEF OwnerOf
<1>8. NickOf' = [NickOf EXCEPT ![userid[p]] = arg[p]]
  BY <1>2, <1>3, <1>6 DEF NickOf
<1>9. \E i \in Slots, n \in Names \cup {DefaultName} :
        /\ OwnerOf[i] # NoProc
        /\ \A j \in Slots : NickOf[j] # n
        /\ NickOf' = [NickOf EXCEPT ![i] = n]
        /\ UNCHANGED OwnerOf
  BY <1>3, <1>4, <1>5, <1>7, <1>8
<1> QED
  BY <1>9 DEF Table!Rename, OwnerOf, NickOf

LEMMA Departure ==
  ASSUME clientset \in [Slots -> Client], ControlInv, OwnerInv,
         NEW p \in Proc, LogoutMemset(p)
  PROVE  \E i \in Slots : Table!Leave(i) \/ Table!Forget(i)
<1>1. sec[p] \in {"memset1", "memset2"} /\ Live(p)
  BY DEF LogoutMemset, Runs
<1>2. userid[p] # 0
  BY <1>1 DEF OwnerInv, Phase, EofSections
<1>3. userid[p] \in Slots
  BY <1>2 DEF ControlInv, TypeOK, Slots
<1>4. CASE clientset' = [clientset EXCEPT ![userid[p]].used = FALSE,
                                          ![userid[p]].pid = NoProc]
  <2>1. \A i \in Slots : /\ i # userid[p] => clientset'[i] = clientset[i]
                         /\ i = userid[p] => ~clientset'[i].used
    BY <1>4 DEF Client
  <2>2. OwnerOf' = [OwnerOf EXCEPT ![userid[p]] = NoProc]
    BY <2>1, <1>3 DEF OwnerOf
  <2>3. NickOf' = [NickOf EXCEPT ![userid[p]] = NoName]
    BY <2>1, <1>3 DEF NickOf
  <2>4. \E i \in Slots : /\ OwnerOf' = [OwnerOf EXCEPT ![i] = NoProc]
                        /\ NickOf' = [NickOf EXCEPT ![i] = NoName]
    BY <1>3, <2>2, <2>3
  <2> QED BY <2>4 DEF Table!Leave, OwnerOf, NickOf
<1>5. CASE clientset' = [clientset EXCEPT ![userid[p]].msg = FALSE,
                                          ![userid[p]].name = NoName]
  <2>1. \A i \in Slots : /\ clientset'[i].used = clientset[i].used
                         /\ clientset'[i].pid = clientset[i].pid
                         /\ i # userid[p] => clientset'[i].name = clientset[i].name
                         /\ i = userid[p] => clientset'[i].name = NoName
    BY <1>5 DEF Client
  <2>2. OwnerOf' = OwnerOf
    BY <2>1 DEF OwnerOf
  <2>3. NickOf' = [NickOf EXCEPT ![userid[p]] = NoName]
    BY <2>1, <1>3 DEF NickOf
  <2>4. \E i \in Slots : NickOf' = [NickOf EXCEPT ![i] = NoName] /\ UNCHANGED OwnerOf
    BY <1>3, <2>2, <2>3
  <2> QED BY <2>4 DEF Table!Forget, OwnerOf, NickOf
<1> QED BY <1>3, <1>4, <1>5 DEF LogoutMemset

\* Every step of the server is a step of ClientTable or invisible in it.
LEMMA TableStep ==
  ASSUME ControlInv, OwnerInv, NameInv, [Next]_vars
  PROVE  [Table!Next]_<<OwnerOf, NickOf>>
<1>tab. TypeOK /\ clientset \in [Slots -> Client] /\ idx \in [Proc -> Slots]
        /\ arg \in [Proc -> Names \cup {DefaultName}]
  BY DEF ControlInv, TypeOK
<1>1. ASSUME NEW p \in Proc, InitialClientAct(p) PROVE Table!Next
  <2>1. \E i \in Slots : Table!Enter(i, p)
    BY Zenon, <1>1, <1>tab, NewEntry
  <2> QED BY Zenon, <2>1 DEF Table!Next
<1>2. ASSUME NEW p \in Proc, NameAct(p) PROVE Table!Next
  <2>1. \E i \in Slots, n \in Names \cup {DefaultName} : Table!Rename(i, n)
    BY Zenon, <1>2, <1>tab, NewName
  <2> QED BY Zenon, <2>1 DEF Table!Next
<1>3. ASSUME NEW p \in Proc, LogoutMemset(p) PROVE Table!Next
  <2>1. \E i \in Slots : Table!Leave(i) \/ Table!Forget(i)
    BY Zenon, <1>3, <1>tab, Departure
  <2> QED BY Zenon, <2>1 DEF Table!Next
<1>4. ASSUME NEW p \in Proc, LocalAction(p), ~NameAct(p), ~LogoutMemset(p)
      PROVE  UNCHANGED <<OwnerOf, NickOf>>
  <2>1. clientset' = clientset
        \/ \E i : clientset' = [clientset EXCEPT ![i].msg = TRUE]
    BY <1>4 DEF LocalAction, InitialClientTest, Login, Yell, Logout, Announce, Who,
         NameTest, TellTest, TellAct, BroadcastTest, BroadcastAct, Post, Kill,
         EndOfInput, ReadCommand, locals, input
  <2> QED BY <2>1, <1>tab, Stutter DEF Client
<1>5. ASSUME NEW p \in Proc, Ends(p) \/ Accepts(p)
      PROVE  UNCHANGED <<OwnerOf, NickOf>>
  <2>1. UNCHANGED clientset
    BY <1>5 DEF Ends,
                Accepts, AcceptByMaster, AcceptBySession, Fork
  <2> QED BY <2>1, Stutter
<1>6. ASSUME NEW p \in Proc,
             \/ \E f \in Frames : SemaphoreP(p, f) \/ SemaphoreWait(p, f)
             \/ SemaphoreV(p) \/ Hangup(p) \/ PrintTest(p) \/ PrintAct(p)
             \/ \E s \in Signals : HandlerV(p, s) \/ Deliver(p, s)
      PROVE  UNCHANGED <<OwnerOf, NickOf>>
  <2>1. clientset' = clientset
        \/ \E i : clientset' = [clientset EXCEPT ![i].msg = FALSE]
    BY <1>6 DEF SemaphoreP, SemaphoreWait, SemaphoreV, Hangup, PrintTest, PrintAct,
                HandlerV, Deliver
  <2> QED BY <2>1, <1>tab, Stutter DEF Client
<1>7. CASE UNCHANGED vars
  BY <1>7, Stutter DEF vars
<1> QED
  BY Zenon, <1>1, <1>2, <1>3, <1>4, <1>5, <1>6, <1>7, StepCases

\* The server implements ClientTable: entering, taking a nickname and leaving
\* are atomic for whoever looks at the table.
THEOREM TableImplemented == Spec => ImplementsTable
<1>1. Init => Table!Init
  BY DEF Init, EmptyClient, Table!Init
<1>2. ControlInv /\ OwnerInv /\ NameInv /\ [Next]_vars => [Table!Next]_(Table!table)
  BY TableStep DEF Table!table, OwnerOf, NickOf
<1> QED BY PTL, <1>1, <1>2, NameAlways DEF Spec, ImplementsTable, Table!Spec
-----------------------------------------------------------------------------
(* Mailboxes and their signals.                                            *)

\* No session has ended or begun to.
Calm == \A p \in Proc : sec[p] \notin {"memset2", "exit", "dead"}

\* The handler of p still has to look into the mailbox.
Due(p) == "USR1" \in pend[p] \/ at[p]["USR1"] \in Positions \ {"V", "idle"}

\* The session that a slot names is alive and looks into the mailbox of that slot.
Reader(i) ==
  clientset[i].used => /\ clientset[i].pid \in Proc /\ userid[clientset[i].pid] = i
                       /\ Live(clientset[i].pid)

\* A free slot has an empty mailbox, and who writes in one has found it in use.
Blank(i) == ~clientset[i].used => ~clientset[i].msg
Writer(p) ==
  at[p]["main"] = "act" /\ sec[p] \in {"Broadcast", "Tell"} => clientset[idx[p]].used

\* Slot i's part of NoLostWakeup.
Wake(i) ==
  clientset[i].used /\ clientset[i].msg => AboutToKill(i) \/ Due(clientset[i].pid)

WakeInv ==
  Calm => /\ \A i \in Slots : Reader(i) /\ Blank(i) /\ Wake(i)
          /\ \A p \in Proc : Writer(p)

\* A session that has begun to end never comes back.
LEMMA CalmBefore ==
  ASSUME TypeOK, [Next]_vars, Calm'
  PROVE  Calm
<1> SUFFICES ASSUME NEW p \in Proc, sec[p] \in {"memset2", "exit", "dead"}
             PROVE  sec'[p] \in {"memset2", "exit", "dead"}
  BY DEF Calm
<1>sec. sec \in [Proc -> Sections]
  BY DEF TypeOK
<1> USE DEF Runs, control, locals, input
<1>1. ASSUME NEW q \in Proc, LocalAction(q) PROVE sec'[p] \in {"memset2", "exit", "dead"}
  <2>1. CASE q # p
    BY <2>1, <1>1, LocalFrame DEF SameFor
  <2>2. CASE q = p
    BY <2>2, <1>1, <1>sec DEF LocalAction, InitialClientTest, Login, Yell, Logout, Announce, Who,
       NameTest, NameAct, TellTest, TellAct, BroadcastTest, BroadcastAct, Post, Kill, EndOfInput,
       ReadCommand, LogoutMemset
  <2> QED BY <2>1, <2>2
<1>2. ASSUME NEW q \in Proc, Ends(q) PROVE sec'[p] \in {"memset2", "exit", "dead"}
  BY <1>2, <1>sec DEF Ends, End
<1>3. ASSUME NEW q \in Proc, Accepts(q) PROVE sec'[p] \in {"memset2", "exit", "dead"}
  <2>1. sec[q] = "unborn" /\ sec' = [sec EXCEPT ![q] = "InitialClient"]
    BY <1>3 DEF Accepts, AcceptByMaster, AcceptBySession, Fork
  <2> QED BY <2>1, <1>sec
<1>4. ASSUME NEW q \in Proc, InitialClientAct(q) \/ LogoutMemset(q)
      PROVE sec'[p] \in {"memset2", "exit", "dead"}
  BY <1>4, <1>sec DEF InitialClientAct, LogoutMemset, Leave
<1>5. ASSUME NEW q \in Proc,
             \/ \E f \in Frames : SemaphoreP(q, f) \/ SemaphoreWait(q, f)
             \/ SemaphoreV(q) \/ Hangup(q) \/ PrintTest(q) \/ PrintAct(q)
             \/ \E s \in Signals : HandlerV(q, s) \/ Deliver(q, s)
      PROVE sec'[p] \in {"memset2", "exit", "dead"}
  BY <1>5, QuietActions DEF SameFor
<1>6. CASE UNCHANGED vars
  BY <1>6 DEF vars
<1> QED BY Zenon, <1>1, <1>2, <1>3, <1>4, <1>5, <1>6, StepCases

\* A step that puts nothing in a mailbox, and takes back neither a signal nor the
\* intention to send one.
LEMMA MailStep ==
  ASSUME TypeOK, Calm, WakeInv, SameOwners,
         \A i \in Slots : clientset'[i].msg => clientset[i].msg,
         \A q \in Proc : Live(q) => userid'[q] = userid[q] /\ Live(q)',
         \A q \in Proc : sec[q] \in {"kill", "tellkill"} => sec'[q] = sec[q] /\ idx'[q] = idx[q],
         \A q \in Proc : Due(q) => Due(q)',
         \A q \in Proc : at'[q]["main"] = "act" /\ sec'[q] \in {"Broadcast", "Tell"} =>
                           clientset[idx'[q]].used /\ idx'[q] \in Slots
  PROVE  WakeInv'
<1>1. /\ \A i \in Slots : Reader(i) /\ Blank(i) /\ Wake(i)
      /\ \A p \in Proc : Writer(p)
  BY DEF WakeInv
<1>2. ASSUME NEW i \in Slots PROVE (Reader(i) /\ Blank(i))'
  BY <1>1 DEF Reader, Blank, SameOwners
<1>3. ASSUME NEW i \in Slots PROVE Wake(i)'
  <2> SUFFICES ASSUME clientset'[i].used, clientset'[i].msg
               PROVE  (AboutToKill(i) \/ Due(clientset[i].pid))'
    BY DEF Wake
  <2>1. clientset[i].used /\ clientset[i].msg /\ clientset'[i].pid = clientset[i].pid
    BY DEF SameOwners
  <2>2. clientset[i].pid \in Proc
    BY <1>1, <2>1 DEF Reader
  <2>3. CASE AboutToKill(i)
    BY <2>3 DEF AboutToKill
  <2>4. CASE Due(clientset[i].pid)
    <3>1. PICK q \in Proc : q = clientset[i].pid
      BY <2>2
    <3>2. Due(q)'
      BY <2>4, <3>1
    <3> QED BY <2>1, <3>1, <3>2 DEF Due
  <2> QED BY <1>1, <2>1, <2>3, <2>4 DEF Wake
<1>4. ASSUME NEW p \in Proc PROVE Writer(p)'
  BY DEF Writer, SameOwners
<1> QED BY <1>2, <1>3, <1>4 DEF WakeInv

\* The steps of the kernel: the semaphore and the signals.
LEMMA KernelMail ==
  ASSUME TypeOK, Calm, WakeInv, NEW p \in Proc,
         \/ \E f \in Frames : SemaphoreP(p, f) \/ SemaphoreWait(p, f)
         \/ SemaphoreV(p) \/ Hangup(p)
         \/ \E s \in Signals : HandlerV(p, s) \/ Deliver(p, s)
  PROVE  WakeInv'
<1> USE DEF Runs, control, locals, input
<1>at. at \in [Proc -> [Frames -> Positions]] /\ pend \in [Proc -> SUBSET Signals]
       /\ Frames = {"main", "USR1", "USR2"} /\ Signals = {"USR1", "USR2"}
       /\ idx \in [Proc -> Slots]
  BY DEF TypeOK, Frames, Signals
<1>1. SameOwners /\ \A q \in Proc : SameFor(q)
  BY QuietActions
<1>2. UNCHANGED <<clientset, sec, userid, idx>>
  BY DEF SemaphoreP, SemaphoreWait, SemaphoreV, Hangup, HandlerV, Deliver
<1>3. ASSUME NEW q \in Proc, Due(q) PROVE Due(q)'
  <2>1. ASSUME NEW f \in Frames, SemaphoreP(p, f) \/ SemaphoreWait(p, f) PROVE Due(q)'
    BY <2>1, <1>3, <1>at DEF SemaphoreP, SemaphoreWait, Due, Positions
  <2>2. CASE SemaphoreV(p)
    BY <2>2, <1>3, <1>at DEF SemaphoreV, Due
  <2>3. CASE Hangup(p)
    BY <2>3, <1>3 DEF Hangup, Due
  <2>4. ASSUME NEW s \in Signals, HandlerV(p, s) PROVE Due(q)'
    BY <2>4, <1>3, <1>at DEF HandlerV, Due
  <2>5. ASSUME NEW s \in Signals, Deliver(p, s) PROVE Due(q)'
    <3>1. /\ pend' = [pend EXCEPT ![p] = @ \ {s}]
          /\ at' = [at EXCEPT ![p] = [f \in Frames |-> IF f = s THEN "P" ELSE Interrupted(at[p][f])]]
      BY <2>5 DEF Deliver
    <3>2. CASE s = "USR1" /\ q = p
      <4>1. at'[q]["USR1"] = "P"
        BY <3>1, <3>2, <1>at
      <4> QED BY <4>1 DEF Due, Positions
    <3>3. CASE ~ (s = "USR1" /\ q = p)
      <4>1. "USR1" \in pend[q] => "USR1" \in pend'[q]
        BY <3>1, <3>3, <1>at
      <4>2. at'[q]["USR1"] = at[q]["USR1"] \/ at'[q]["USR1"] = Interrupted(at[q]["USR1"])
        BY <3>1, <3>3, <1>at
      <4>3. at[q]["USR1"] \in Positions \ {"V", "idle"} => at'[q]["USR1"] \in Positions \ {"V", "idle"}
        BY <4>2 DEF Interrupted, Positions
      <4> QED BY <4>1, <4>3, <1>3 DEF Due
    <3> QED BY <3>2, <3>3
  <2> QED BY <2>1, <2>2, <2>3, <2>4, <2>5
<1>4. \A q \in Proc : at'[q]["main"] = "act" => at[q]["main"] = "act"
  BY <1>1 DEF SameFor
<1>5. \A q \in Proc : at'[q]["main"] = "act" /\ sec'[q] \in {"Broadcast", "Tell"} =>
                        clientset[idx'[q]].used /\ idx'[q] \in Slots
  BY <1>2, <1>4, <1>at DEF WakeInv, Writer
<1> QED BY <1>1, <1>2, <1>3, <1>5, MailStep DEF Live

\* The handler looks into the mailbox of its own slot; if it finds a message it stays due.
LEMMA PrintMail ==
  ASSUME ControlInv, Calm, WakeInv, NEW p \in Proc, PrintTest(p) \/ PrintAct(p)
  PROVE  WakeInv'
<1> USE DEF Runs, control, locals, input
<1>at. at \in [Proc -> [Frames -> Positions]] /\ clientset \in [Slots -> Client]
       /\ "main" \in Frames /\ "USR1" \in Frames /\ "main" # "USR1"
  BY DEF ControlInv, TypeOK, Frames, Signals
<1>0. /\ \A i \in Slots : Reader(i) /\ Blank(i) /\ Wake(i)
      /\ \A q \in Proc : Writer(q)
  BY DEF WakeInv
<1>1. UNCHANGED <<sec, userid, idx, pend>> /\ SameOwners
  BY <1>at, OwnerUpdates DEF PrintTest, PrintAct
<1>2. \A i \in Slots : clientset'[i].msg => clientset[i].msg
  BY <1>at DEF PrintTest, PrintAct, Client
<1>3. \A q \in Proc : /\ at'[q]["main"] = at[q]["main"]
                      /\ q # p => at'[q]["USR1"] = at[q]["USR1"]
  BY <1>at DEF PrintTest, PrintAct
<1>4. ASSUME NEW i \in Slots PROVE (Reader(i) /\ Blank(i))'
  BY <1>0, <1>1, <1>2 DEF Reader, Blank, SameOwners, Live
<1>5. ASSUME NEW i \in Slots PROVE Wake(i)'
  <2> SUFFICES ASSUME clientset'[i].used, clientset'[i].msg
               PROVE  (AboutToKill(i) \/ Due(clientset[i].pid))'
    BY DEF Wake
  <2>1. clientset[i].used /\ clientset[i].msg /\ clientset'[i].pid = clientset[i].pid
    BY <1>1, <1>2 DEF SameOwners
  <2>2. PICK q \in Proc : q = clientset[i].pid /\ userid[q] = i
    BY <1>0, <2>1 DEF Reader
  <2>3. CASE AboutToKill(i)
    BY <2>3, <1>1 DEF AboutToKill
  <2>4. CASE Due(q) /\ q # p
    <3>1. Due(q)'
      BY <2>4, <1>1, <1>3 DEF Due
    <3> QED BY <3>1, <2>1, <2>2 DEF Due
  <2>5. CASE q = p
    <3>1. ~ PrintAct(p)
      BY <2>2, <2>5, <1>at DEF PrintAct, Client
    <3>2. PrintTest(p) /\ at'[p]["USR1"] = "act"
      BY <3>1, <2>1, <2>2, <2>5, <1>at DEF PrintTest
    <3>3. Due(q)'
      BY <3>2, <2>5 DEF Due, Positions
    <3> QED BY <3>3, <2>1, <2>2 DEF Due
  <2> QED BY <1>0, <2>1, <2>2, <2>3, <2>4, <2>5 DEF Wake
<1>6. ASSUME NEW q \in Proc PROVE Writer(q)'
  <2>1. idx[q] \in Slots
    BY DEF ControlInv, TypeOK
  <2> QED BY <2>1, <1>0, <1>1, <1>3 DEF Writer, SameOwners
<1> QED BY <1>4, <1>5, <1>6 DEF WakeInv

LEMMA NextSlot ==
  ASSUME TypeOK, NEW p \in Proc
  PROVE  NextTarget(p) \in [Proc -> Slots]
BY NAssumption DEF TypeOK, NextTarget, Slots

\* The sections of the main program that write in no mailbox and send no signal.
LEMMA SectionMail ==
  ASSUME TypeOK, Calm, WakeInv, NEW p \in Proc,
         \/ InitialClientTest(p) \/ Login(p) \/ Yell(p) \/ Logout(p) \/ Who(p)
         \/ NameTest(p) \/ NameAct(p) \/ TellTest(p) \/ BroadcastTest(p)
         \/ EndOfInput(p) \/ ReadCommand(p)
  PROVE  WakeInv'
<1> USE DEF Runs, control, locals, input
<1>at. at \in [Proc -> [Frames -> Positions]] /\ clientset \in [Slots -> Client]
       /\ "main" \in Frames /\ "USR1" \in Frames /\ "main" # "USR1"
  BY DEF TypeOK, Frames, Signals
<1>sec. sec \in [Proc -> Sections] /\ idx \in [Proc -> Slots]
  BY DEF TypeOK
<1>1. SameOwners /\ \A q \in Proc \ {p} : SameFor(q)
  BY LocalFrame DEF LocalAction
<1>2. UNCHANGED <<userid, pend>>
  BY DEF InitialClientTest, Login, Yell, Logout, Announce, Who, NameTest, NameAct, TellTest,
         BroadcastTest, EndOfInput, ReadCommand
<1>3. \A i \in Slots : clientset'[i].msg => clientset[i].msg
  <2>1. CASE NameAct(p)
    BY <2>1, <1>at DEF NameAct, Client
  <2>2. CASE ~ NameAct(p)
    BY <2>2 DEF InitialClientTest, Login, Yell, Logout, Announce, Who, NameTest, TellTest,
           BroadcastTest, EndOfInput, ReadCommand
  <2> QED BY <2>1, <2>2
<1>4. \A q \in Proc : at'[q]["USR1"] = at[q]["USR1"]
  BY <1>at DEF InitialClientTest, Login, Yell, Logout, Announce, Who, NameTest, NameAct, TellTest,
         BroadcastTest, EndOfInput, ReadCommand, Leave
<1>5. sec[p] \notin {"kill", "tellkill"} /\ Live(p)
  BY DEF InitialClientTest, Login, Yell, Logout, Announce, Who, NameTest, NameAct, TellTest,
         BroadcastTest, EndOfInput, ReadCommand
<1>6. Live(p)'
  BY <1>sec DEF InitialClientTest, Login, Yell, Logout, Announce, Who, NameTest, NameAct, TellTest,
         BroadcastTest, AfterTarget, EndOfInput, ReadCommand, Leave, Live, Ended, TypeOK
<1>7. at'[p]["main"] = "act" /\ sec'[p] \in {"Broadcast", "Tell"} => clientset[idx'[p]].used
  <2>1. CASE TellTest(p) \/ BroadcastTest(p)
    BY <2>1, <1>at, <1>sec DEF TellTest, BroadcastTest, Leave
  <2>2. CASE InitialClientTest(p) \/ NameTest(p)
    BY <2>2, <1>at, <1>sec DEF InitialClientTest, NameTest, Leave
  <2>3. CASE Login(p) \/ Yell(p) \/ Logout(p) \/ Who(p) \/ NameAct(p)
    BY <2>3, <1>at, <1>sec DEF Login, Yell, Logout, Announce, Who, NameAct, Leave
  <2>4. CASE EndOfInput(p) \/ ReadCommand(p)
    BY <2>4, <1>at, <1>sec DEF EndOfInput, ReadCommand
  <2> QED BY <2>1, <2>2, <2>3, <2>4
<1>8. \A q \in Proc : Live(q) => userid'[q] = userid[q] /\ Live(q)'
  BY <1>1, <1>2, <1>6 DEF SameFor, Live
<1>9. \A q \in Proc : sec[q] \in {"kill", "tellkill"} => sec'[q] = sec[q] /\ idx'[q] = idx[q]
  BY <1>1, <1>5 DEF SameFor
<1>10. \A q \in Proc : Due(q) => Due(q)'
  BY <1>2, <1>4 DEF Due
<1>11. idx' \in [Proc -> Slots]
  <2>1. CASE idx' = idx
    BY <2>1, <1>sec
  <2>2. CASE idx' = NextTarget(p)
    BY <2>2, NextSlot
  <2>3. CASE \E i \in Slots : idx' = [idx EXCEPT ![p] = i]
    BY <2>3, <1>sec
  <2>4. 1 \in Slots
    BY NAssumption DEF Slots
  <2>5. CASE InitialClientTest(p)
    BY <2>1, <2>3, <2>5 DEF InitialClientTest, FreeSlots
  <2>6. CASE Login(p) \/ Yell(p) \/ Logout(p) \/ NameAct(p)
    BY <2>3, <2>4, <2>6 DEF Login, Yell, Logout, Announce, NameAct
  <2>7. CASE BroadcastTest(p) \/ ReadCommand(p)
    BY <2>1, <2>2, <2>3, <2>7 DEF BroadcastTest, ReadCommand
  <2>8. CASE Who(p) \/ NameTest(p) \/ TellTest(p) \/ EndOfInput(p)
    BY <2>1, <2>8 DEF Who, NameTest, TellTest, EndOfInput
  <2> QED BY <2>5, <2>6, <2>7, <2>8
<1>12. \A q \in Proc : at'[q]["main"] = "act" /\ sec'[q] \in {"Broadcast", "Tell"} =>
                         clientset[idx'[q]].used /\ idx'[q] \in Slots
  BY <1>1, <1>7, <1>11 DEF SameFor, WakeInv, Writer
<1> QED BY <1>1, <1>3, <1>8, <1>9, <1>10, <1>12, MailStep

\* Who writes in a mailbox is about to send its signal.
LEMMA PostMail ==
  ASSUME TypeOK, Calm, WakeInv, NEW p \in Proc, BroadcastAct(p) \/ TellAct(p)
  PROVE  WakeInv'
<1>0. /\ \A i \in Slots : Reader(i) /\ Blank(i) /\ Wake(i)
      /\ \A q \in Proc : Writer(q)
  BY DEF WakeInv
<1>at. at \in [Proc -> [Frames -> Positions]] /\ clientset \in [Slots -> Client]
       /\ sec \in [Proc -> Sections] /\ idx \in [Proc -> Slots]
       /\ "main" \in Frames /\ "USR1" \in Frames /\ "main" # "USR1"
  BY DEF TypeOK, Frames, Signals
<1>1. /\ at[p]["main"] = "act" /\ sec[p] \in {"Broadcast", "Tell"} /\ Live(p)
      /\ clientset' = [clientset EXCEPT ![idx[p]].msg = TRUE]
      /\ \E s \in {"kill", "tellkill"} : sec' = [sec EXCEPT ![p] = s]
      /\ at' = [at EXCEPT ![p]["main"] = "V"]
      /\ UNCHANGED <<userid, idx, pend>>
  BY DEF BroadcastAct, TellAct, Post, Leave, Runs, control, locals
<1>2. clientset[idx[p]].used /\ idx[p] \in Slots
  BY <1>0, <1>1, <1>at DEF Writer
<1>3. SameOwners /\ \A i \in Slots : i # idx[p] => clientset'[i].msg = clientset[i].msg
  BY <1>1, <1>at DEF SameOwners, Client
<1>4. /\ sec'[p] \in {"kill", "tellkill"} /\ \A q \in Proc : q # p => sec'[q] = sec[q]
      /\ at'[p]["main"] = "V" /\ \A q \in Proc : q # p => at'[q]["main"] = at[q]["main"]
      /\ \A q \in Proc : at'[q]["USR1"] = at[q]["USR1"]
  BY <1>1, <1>at
<1>5. ASSUME NEW i \in Slots PROVE (Reader(i) /\ Blank(i))'
  BY <1>0, <1>1, <1>2, <1>3, <1>4 DEF Reader, Blank, SameOwners, Live, Ended
<1>6. ASSUME NEW i \in Slots PROVE Wake(i)'
  <2>1. CASE i = idx[p]
    BY <2>1, <1>1, <1>4 DEF Wake, AboutToKill
  <2>2. CASE i # idx[p]
    <3>1. clientset'[i].used = clientset[i].used /\ clientset'[i].pid = clientset[i].pid
      BY <1>3 DEF SameOwners
    <3>2. AboutToKill(i) => AboutToKill(i)'
      BY <1>1, <1>4 DEF AboutToKill
    <3>3. clientset[i].used => clientset[i].pid \in Proc
      BY <1>0 DEF Reader
    <3>4. \A q \in Proc : Due(q) <=> Due(q)'
      BY <1>1, <1>4 DEF Due
    <3>5. clientset[i].used /\ Due(clientset[i].pid) => Due(clientset[i].pid)'
      BY <3>1, <3>3, <3>4 DEF Due
    <3> QED BY <2>2, <1>0, <1>3, <3>1, <3>2, <3>5 DEF Wake
  <2> QED BY <2>1, <2>2
<1>7. ASSUME NEW q \in Proc PROVE Writer(q)'
  BY <1>0, <1>1, <1>3, <1>4, <1>at DEF Writer, SameOwners
<1> QED BY <1>5, <1>6, <1>7 DEF WakeInv

\* kill reaches the session that the slot names; the caller handles its own signal at once.
LEMMA KillMail ==
  ASSUME TypeOK, Calm, WakeInv, NEW p \in Proc, Kill(p)
  PROVE  WakeInv'
<1> USE DEF Runs
<1>0. /\ \A i \in Slots : Reader(i) /\ Blank(i) /\ Wake(i)
      /\ \A q \in Proc : Writer(q)
  BY DEF WakeInv
<1>at. at \in [Proc -> [Frames -> Positions]] /\ pend \in [Proc -> SUBSET Signals]
       /\ sec \in [Proc -> Sections] /\ idx \in [Proc -> Slots]
       /\ "main" \in Frames /\ "USR1" \in Frames /\ "main" # "USR1"
  BY DEF TypeOK, Frames, Signals
<1> DEFINE T == Targets(idx[p])
<1>1. /\ UNCHANGED <<clientset, userid>>
      /\ pend' = [q \in Proc |-> IF q = p /\ p \in T THEN pend[q] \ {"USR1"}
                                 ELSE IF q \in T THEN pend[q] \cup {"USR1"}
                                 ELSE pend[q]]
      /\ \E s \in {"prompt", "memset1", "Broadcast"} :
           /\ sec' = [sec EXCEPT ![p] = s]
           /\ at' = [at EXCEPT ![p]["main"] = Entry(s),
                               ![p]["USR1"] = IF p \in T THEN "P" ELSE @]
      /\ \A q \in Proc : q # p => idx'[q] = idx[q]
  BY <1>at DEF Kill, Signal, AfterTarget, NextTarget, TypeOK
<1>2. sec[p] \in {"kill", "tellkill"} /\ Live(p)
  BY DEF Kill
<1> HIDE DEF T
<1>3. /\ sec'[p] \in {"prompt", "memset1", "Broadcast"} /\ \A q \in Proc : q # p => sec'[q] = sec[q]
      /\ at'[p]["main"] # "act" /\ \A q \in Proc : q # p => at'[q] = at[q]
      /\ p \in T => at'[p]["USR1"] = "P"
      /\ p \notin T => at'[p]["USR1"] = at[p]["USR1"]
  BY <1>1, <1>at DEF Entry, Locking
<1>4. ASSUME NEW i \in Slots PROVE (Reader(i) /\ Blank(i))'
  BY <1>0, <1>1, <1>2, <1>3 DEF Reader, Blank, Live, Ended
<1>5. ASSUME NEW q \in Proc, Due(q) \/ q \in T PROVE Due(q)'
  <2>1. CASE q = p /\ p \in T
    BY <2>1, <1>3 DEF Due, Positions
  <2>2. CASE q = p /\ p \notin T
    BY <2>2, <1>1, <1>3, <1>5 DEF Due
  <2>3. CASE q # p
    BY <2>3, <1>1, <1>3, <1>5 DEF Due
  <2> QED BY <2>1, <2>2, <2>3
<1>6. ASSUME NEW i \in Slots PROVE Wake(i)'
  <2> SUFFICES ASSUME clientset[i].used, clientset[i].msg
               PROVE  (AboutToKill(i) \/ Due(clientset[i].pid))'
    BY <1>1 DEF Wake
  <2>1. PICK r \in Proc : r = clientset[i].pid /\ Live(r)
    BY <1>0 DEF Reader
  <2>2. CASE Due(r)
    BY <2>1, <2>2, <1>1, <1>5 DEF Due
  <2>3. CASE i = idx[p]
    <3>1. r \in T
      BY <2>1, <2>3 DEF T, Targets
    <3>2. Due(r)'
      BY <3>1, <1>5
    <3> QED BY <3>2, <2>1, <1>1 DEF Due
  <2>4. CASE AboutToKill(i) /\ i # idx[p]
    <3>1. PICK q \in Proc : sec[q] \in {"kill", "tellkill"} /\ idx[q] = i
      BY <2>4 DEF AboutToKill
    <3> QED BY <3>1, <2>4, <1>1, <1>3 DEF AboutToKill
  <2> QED BY <1>0, <2>1, <2>2, <2>3, <2>4 DEF Wake
<1>7. ASSUME NEW q \in Proc PROVE Writer(q)'
  BY <1>0, <1>1, <1>3 DEF Writer
<1> QED BY <1>4, <1>6, <1>7 DEF WakeInv

\* A new process is not in the table, and no signal waits for it.
LEMMA ForkMail ==
  ASSUME TypeOK, Calm, WakeInv, NEW p \in Proc, Accepts(p)
  PROVE  WakeInv'
<1>at. at \in [Proc -> [Frames -> Positions]] /\ sec \in [Proc -> Sections]
       /\ userid \in [Proc -> 0..N] /\ idx \in [Proc -> Slots]
       /\ "main" \in Frames /\ "USR1" \in Frames /\ "main" # "USR1"
  BY DEF TypeOK, Frames, Signals
<1>1. /\ sec[p] = "unborn" /\ sec' = [sec EXCEPT ![p] = "InitialClient"]
      /\ at' = [at EXCEPT ![p]["main"] = "P"]
      /\ \E id : userid' = [userid EXCEPT ![p] = id]
      /\ UNCHANGED <<clientset, idx, pend>>
  BY DEF Accepts, AcceptByMaster, AcceptBySession, Fork, control, locals
<1>2. SameOwners /\ \A i \in Slots : clientset'[i].msg => clientset[i].msg
  BY <1>1 DEF SameOwners
<1>3. \A q \in Proc : Live(q) => userid'[q] = userid[q] /\ Live(q)'
  BY <1>1, <1>at DEF Live, Ended
<1>4. \A q \in Proc : sec[q] \in {"kill", "tellkill"} => sec'[q] = sec[q] /\ idx'[q] = idx[q]
  BY <1>1, <1>at
<1>5. \A q \in Proc : Due(q) => Due(q)'
  BY <1>1, <1>at DEF Due
<1>6. \A q \in Proc : at'[q]["main"] = "act" /\ sec'[q] \in {"Broadcast", "Tell"} =>
                        clientset[idx'[q]].used /\ idx'[q] \in Slots
  BY <1>1, <1>at DEF WakeInv, Writer
<1> QED BY <1>2, <1>3, <1>4, <1>5, <1>6, MailStep

\* A session enters a slot that was free, hence with an empty mailbox.
LEMMA EnterMail ==
  ASSUME TypeOK, OwnerInv, Calm, WakeInv, NEW p \in Proc, InitialClientAct(p)
  PROVE  WakeInv'
<1>0. /\ \A i \in Slots : Reader(i) /\ Blank(i) /\ Wake(i)
      /\ \A q \in Proc : Writer(q)
  BY DEF WakeInv
<1>at. at \in [Proc -> [Frames -> Positions]] /\ sec \in [Proc -> Sections]
       /\ userid \in [Proc -> 0..N] /\ idx \in [Proc -> Slots]
       /\ clientset \in [Slots -> Client]
       /\ "main" \in Frames /\ "USR1" \in Frames /\ "main" # "USR1"
  BY DEF TypeOK, Frames, Signals
<1>1. /\ sec[p] = "InitialClient" /\ at[p]["main"] = "act" /\ Live(p)
      /\ userid' = [userid EXCEPT ![p] = idx[p]]
      /\ clientset' = [clientset EXCEPT ![idx[p]] =
                         [used |-> TRUE, pid |-> p, name |-> DefaultName, msg |-> @.msg]]
      /\ sec' = [sec EXCEPT ![p] = "Login"]
      /\ at' = [at EXCEPT ![p]["main"] = "V"]
      /\ UNCHANGED <<idx, pend>>
  BY DEF InitialClientAct, Leave, Runs, control, locals
<1>2. ~clientset[idx[p]].used /\ \A i \in Slots : ~(clientset[i].used /\ clientset[i].pid = p)
  BY <1>1 DEF OwnerInv, Claim, Newcomer
<1>3. ~clientset[idx[p]].msg
  BY <1>0, <1>2, <1>at DEF Blank
<1>4. /\ \A i \in Slots : i # idx[p] => clientset'[i] = clientset[i]
      /\ clientset'[idx[p]].used /\ clientset'[idx[p]].pid = p /\ ~clientset'[idx[p]].msg
  BY <1>1, <1>3, <1>at
<1>5. /\ sec'[p] = "Login" /\ \A q \in Proc : q # p => sec'[q] = sec[q]
      /\ userid'[p] = idx[p] /\ \A q \in Proc : q # p => userid'[q] = userid[q]
      /\ at'[p]["main"] = "V" /\ \A q \in Proc : q # p => at'[q] = at[q]
      /\ at'[p]["USR1"] = at[p]["USR1"]
  BY <1>1, <1>at
<1>6. ASSUME NEW i \in Slots PROVE (Reader(i) /\ Blank(i))'
  <2>1. CASE i = idx[p]
    BY <2>1, <1>4, <1>5 DEF Reader, Blank, Live, Ended
  <2>2. CASE i # idx[p]
    BY <2>2, <1>0, <1>2, <1>4, <1>5 DEF Reader, Blank, Live
  <2> QED BY <2>1, <2>2
<1>7. ASSUME NEW i \in Slots PROVE Wake(i)'
  <2> SUFFICES ASSUME clientset'[i].used, clientset'[i].msg
               PROVE  (AboutToKill(i) \/ Due(clientset[i].pid))'
    BY DEF Wake
  <2>1. i # idx[p] /\ clientset'[i] = clientset[i]
    BY <1>4
  <2>2. PICK q \in Proc : q = clientset[i].pid
    BY <1>0, <2>1 DEF Reader
  <2>3. CASE AboutToKill(i)
    BY <2>3, <1>1, <1>5 DEF AboutToKill
  <2>4. CASE Due(q)
    <3>1. Due(q)'
      BY <2>4, <1>1, <1>5 DEF Due
    <3> QED BY <3>1, <2>1, <2>2 DEF Due
  <2> QED BY <1>0, <2>1, <2>2, <2>3, <2>4 DEF Wake
<1>8. ASSUME NEW q \in Proc PROVE Writer(q)'
  BY <1>0, <1>1, <1>4, <1>5, <1>at DEF Writer
<1> QED BY <1>6, <1>7, <1>8 DEF WakeInv

LEMMA WakeInit == Init => WakeInv
BY DEF Init, WakeInv, Reader, Blank, Wake, Writer, EmptyClient, Quiet

LEMMA WakeNext ==
  ASSUME ControlInv, OwnerInv, WakeInv, [Next]_vars
  PROVE  WakeInv'
<1>typ. TypeOK
  BY DEF ControlInv
<1> SUFFICES ASSUME Calm' PROVE WakeInv'
  BY DEF WakeInv
<1>calm. Calm
  BY Zenon, <1>typ, CalmBefore
<1>1. ASSUME NEW p \in Proc, LocalAction(p) PROVE WakeInv'
  <2>1. sec[p] # "memset2"
    BY <1>calm DEF Calm
  <2> QED BY Zenon, <1>1, <2>1, <1>typ, <1>calm, SectionMail, PostMail, KillMail DEF LocalAction
<1>2. ASSUME NEW p \in Proc, Ends(p) PROVE WakeInv'
  <2>1. sec'[p] = "dead"
    BY <1>2, <1>typ DEF Ends, End, TypeOK
  <2> QED BY <2>1 DEF Calm
<1>3. ASSUME NEW p \in Proc, Accepts(p) PROVE WakeInv'
  BY Zenon, <1>3, <1>typ, <1>calm, ForkMail
<1>4. ASSUME NEW p \in Proc, InitialClientAct(p) PROVE WakeInv'
  BY Zenon, <1>4, <1>typ, <1>calm, EnterMail
<1>5. ASSUME NEW p \in Proc, LogoutMemset(p) PROVE WakeInv'
  <2>1. sec'[p] \in {"memset2", "exit"}
    BY <1>5, <1>typ DEF LogoutMemset, TypeOK
  <2> QED BY <2>1 DEF Calm
<1>6. ASSUME NEW p \in Proc,
             \/ \E f \in Frames : SemaphoreP(p, f) \/ SemaphoreWait(p, f)
             \/ SemaphoreV(p) \/ Hangup(p)
             \/ \E s \in Signals : HandlerV(p, s) \/ Deliver(p, s)
      PROVE WakeInv'
  BY Zenon, <1>6, <1>typ, <1>calm, KernelMail
<1>7. ASSUME NEW p \in Proc, PrintTest(p) \/ PrintAct(p) PROVE WakeInv'
  BY Zenon, <1>7, <1>calm, PrintMail
<1>8. CASE UNCHANGED vars
  <2>1. UNCHANGED <<clientset, sec, at, userid, idx, pend>>
    BY <1>8 DEF vars, control, locals
  <2> QED BY <2>1 DEF WakeInv, Calm, Reader, Blank, Wake, Writer, Live, Due, AboutToKill
<1> QED BY Zenon, <1>1, <1>2, <1>3, <1>4, <1>5, <1>6, <1>7, <1>8, StepCases

\* As long as no session has ended, an unread mailbox has its signal on the way,
\* or its handler still to look: neither coalesced signals nor handlers that
\* interrupt the broadcast lose a message silently.
THEOREM WakeupsKept == Spec => []NoLostWakeup
<1>1. Init => WakeInv
  BY WakeInit
<1>2. ControlInv /\ OwnerInv /\ WakeInv /\ [Next]_vars => WakeInv'
  BY Zenon, WakeNext
<1>3. WakeInv => NoLostWakeup
  BY DEF WakeInv, Calm, Wake, Due, NoLostWakeup
<1> QED BY PTL, <1>1, <1>2, <1>3, ControlAlways, OwnerAlways DEF Spec
-----------------------------------------------------------------------------
(***************************************************************************)
(* The end of the server (MultiShutdown).  While the semaphore exists      *)
(* everything is as in MultiServer, whose inductive invariant ControlInv   *)
(* is kept by the new steps as well.  Once it is gone nobody enters a      *)
(* section any more, so the one frame that may still be in one stays the   *)
(* only one.                                                               *)
(***************************************************************************)
\* The positions have their type, also after the semaphore is removed.
Placed == at \in [Proc -> [Frames -> Positions]]

\* The semaphore is gone, and with it what it counted.
Removed ==
  /\ semval = 0 /\ semadj = [p \in Proc |-> 0]
  /\ Placed
  /\ RemovalExcludes

ShutInv == (sem => ControlInv) /\ (~sem => Removed)

\* A step that lets nobody into a section.
NoEntry ==
  /\ Placed'
  /\ \A q \in Proc, f \in Frames : Holds(q, f)' => Holds(q, f)

LEMMA NoEntryExcludes ==
  ASSUME RemovalExcludes, NoEntry
  PROVE  RemovalExcludes'
BY DEF RemovalExcludes, NoEntry

LEMMA ControlExcludes == ControlInv => Placed /\ RemovalExcludes
BY DEF ControlInv, TypeOK, SemaphoreInv, Placed, RemovalExcludes

\* One frame moves, and not into a section.
LEMMA MoveNoEntry ==
  ASSUME Placed, NEW p \in Proc, NEW f \in Frames, NEW a \in Positions,
         a \in Inside => at[p][f] \in Inside,
         at' = [at EXCEPT ![p][f] = a]
  PROVE  NoEntry
BY DEF Placed, NoEntry, Holds

LEMMA SameNoEntry ==
  ASSUME Placed, UNCHANGED at
  PROVE  NoEntry
BY DEF Placed, NoEntry, Holds

LEMMA EndNoEntry ==
  ASSUME Placed, NEW p \in Proc, End(p)
  PROVE  NoEntry
<1>1. Quiet \in [Frames -> Positions] /\ \A f \in Frames : Quiet[f] \notin Inside
  BY PositionLabels DEF Quiet, Inside
<1>2. at' = [at EXCEPT ![p] = Quiet]
  BY DEF End
<1> QED BY <1>1, <1>2 DEF Placed, NoEntry, Holds

\* Without the semaphore an end gives nothing back.
LEMMA EndRemoved ==
  ASSUME Removed, NEW p \in Proc, End(p)
  PROVE  Removed'
<1>1. NoEntry
  BY EndNoEntry DEF Removed
<1>2. semval' = 0 /\ semadj' = [q \in Proc |-> 0]
  BY DEF Removed, End
<1> QED BY <1>1, <1>2, NoEntryExcludes DEF Removed, NoEntry

\* What a session does by itself without the semaphore.
LEMMA StepRemoved ==
  ASSUME Removed, NEW p \in Proc, Step(p), semval' = 0,
         at'[p][run[p]] # "blocked"
  PROVE  Removed'
<1> USE DEF Runs, kernel, control
<1>0. Placed /\ semval = 0 /\ semadj = [q \in Proc |-> 0]
  BY DEF Removed
<1>a. /\ \A a \in {"test", "act", "V"} : a \in Inside /\ a \in Positions
      /\ \A a \in {"P", "go", "idle", "eintr", "blocked"} : a \notin Inside /\ a \in Positions
      /\ "main" \in Frames /\ "USR1" \in Frames /\ Signals \subseteq Frames
  BY DEF Inside, Positions, Frames, Signals
<1>e. \A s : Entry(s) \in {"P", "go"}
  BY DEF Entry
<1>q. ASSUME NoEntry, UNCHANGED kernel PROVE Removed'
  BY <1>q, NoEntryExcludes DEF Removed, NoEntry
<1>l. ASSUME NEW s, Leave(p, s), at[p]["main"] \in Inside PROVE NoEntry
  BY <1>l, <1>0, <1>a, MoveNoEntry DEF Leave
<1>m. ASSUME NEW a \in {"P", "go", "act"}, a = "act" => at[p]["main"] \in Inside,
             at' = [at EXCEPT ![p]["main"] = a]
      PROVE  NoEntry
  BY <1>m, <1>0, <1>a, MoveNoEntry
<1>1. ASSUME NEW f \in Frames, SemaphoreP(p, f) PROVE FALSE
  BY <1>1, <1>0 DEF SemaphoreP
<1>2. ASSUME NEW f \in Frames, SemaphoreWait(p, f) PROVE FALSE
  BY <1>2, <1>0 DEF SemaphoreWait, Placed
<1>3. ~SemaphoreV(p) /\ \A s \in Signals : ~HandlerV(p, s)
  BY <1>0 DEF SemaphoreV, HandlerV
<1>4. ASSUME NEW s \in Signals, Deliver(p, s) PROVE Removed'
  <2>1. NoEntry
    BY <1>4, <1>0, <1>a DEF Deliver, Interrupted, NoEntry, Placed, Holds
  <2> QED BY <1>4, <1>q, <2>1 DEF Deliver
<1>5. CASE SemaphoreFailed(p) \/ LoginCrash(p) \/ LogoutExit(p) \/ PrintCrash(p)
  BY <1>5, EndRemoved DEF SemaphoreFailed, LoginCrash, LogoutExit, PrintCrash
<1>6. CASE InitialClientTest(p)
  BY <1>6, <1>q, <1>l, <1>m, <1>a DEF InitialClientTest
<1>7. CASE InitialClientAct(p)
  BY <1>7, <1>q, <1>l, <1>a DEF InitialClientAct
<1>8. CASE Login(p) \/ Yell(p) \/ Logout(p)
  BY <1>8, <1>q, <1>l, <1>a DEF Login, Yell, Logout, Announce
<1>9. CASE BroadcastTest(p)
  BY <1>9, <1>q, <1>l, <1>m, <1>a DEF BroadcastTest
<1>10. CASE BroadcastAct(p) \/ TellAct(p)
  BY <1>10, <1>q, <1>l, <1>a DEF BroadcastAct, TellAct, Post
<1>11. CASE Kill(p)
  <2>1. NoEntry
    <3> DEFINE next == IF sec[p] = "kill" THEN AfterTarget(p) ELSE "prompt"
               hit == p \in Targets(idx[p])
    <3>1. at' = [at EXCEPT ![p]["main"] = Entry(next),
                           ![p]["USR1"] = IF hit THEN "P" ELSE @]
      BY <1>11 DEF Kill
    <3> HIDE DEF next, hit
    <3> QED BY <3>1, <1>0, <1>a, <1>e DEF NoEntry, Placed, Holds
  <2> QED BY <1>11, <1>q, <2>1 DEF Kill
<1>12. CASE Who(p)
  BY <1>12, <1>q, <1>l, <1>a DEF Who
<1>13. CASE NameTest(p) \/ TellTest(p)
  BY <1>13, <1>q, <1>l, <1>m, <1>a DEF NameTest, TellTest
<1>14. CASE NameAct(p)
  BY <1>14, <1>q, <1>l, <1>a DEF NameAct
<1>15. CASE LogoutMemset(p) \/ EndOfInput(p)
  BY <1>15, <1>0, <1>q, SameNoEntry DEF LogoutMemset, EndOfInput
<1>16. CASE PrintTest(p) \/ PrintAct(p)
  <2>1. PICK a \in {"act", "V"} : at' = [at EXCEPT ![p]["USR1"] = a]
    BY <1>16 DEF PrintTest, PrintAct
  <2>2. at[p]["USR1"] \in Inside /\ UNCHANGED kernel
    BY <1>16, <1>a DEF PrintTest, PrintAct
  <2> QED BY <1>0, <1>a, <1>q, <2>1, <2>2, MoveNoEntry
<1> QED
  BY Zenon, <1>1, <1>2, <1>3, <1>4, <1>5, <1>6, <1>7, <1>8, <1>9, <1>10, <1>11,
     <1>12, <1>13, <1>14, <1>15, <1>16 DEF Step

\* While the semaphore exists.
LEMMA PresentNext ==
  ASSUME ControlInv, sem, [ShutNext]_svars
  PROVE  ShutInv'
<1> USE DEF ShutInv, ipc, shutdown
<1>k. ASSUME [Next]_vars, UNCHANGED sem PROVE ShutInv'
  BY <1>k, ControlNext
<1>e. ASSUME NEW p \in Proc, Ends(p), UNCHANGED sem PROVE ShutInv'
  BY <1>e, ControlEnd
<1>r. ASSUME RemoveSemaphore, UNCHANGED at PROVE ShutInv'
  BY <1>r, ControlExcludes DEF RemoveSemaphore, Removed, Placed, RemovalExcludes, Holds
<1>1. CASE MasterSignalled \/ MasterKills \/ MasterRemovesTable
  BY <1>1, <1>k DEF MasterSignalled, MasterKills, MasterRemovesTable
<1>2. CASE MasterExits
  BY <1>2, <1>r DEF MasterExits, state
<1>3. ASSUME NEW p \in Proc, IntRemoves(p) PROVE ShutInv'
  BY <1>3, <1>r DEF IntRemoves, state
<1>4. ASSUME NEW p \in Proc, IntExits(p) PROVE ShutInv'
  BY <1>4, <1>e DEF IntExits, Ends
<1>5. ASSUME NEW p \in Proc, SessionStep(p) PROVE ShutInv'
  <2>1. UNCHANGED sem /\ (Step(p) \/ NoTable(p))
    BY <1>5 DEF SessionStep
  <2>2. CASE Step(p)
    BY Zenon, <2>1, <2>2, <1>k DEF Next
  <2>3. CASE NoTable(p)
    BY <2>1, <2>3, <1>e DEF NoTable, Ends
  <2> QED BY <2>1, <2>2, <2>3
<1>6. ASSUME NEW p \in Proc, Outside(p) \/ MasterAccepts(p) PROVE ShutInv'
  <2>1. UNCHANGED sem /\ Environment(p)
    BY Zenon, <1>6 DEF Outside, MasterAccepts, Environment
  <2> QED BY Zenon, <2>1, <1>k DEF Next
<1>7. CASE UNCHANGED svars
  BY <1>7, <1>k DEF svars
<1> QED
  BY Zenon, <1>1, <1>2, <1>3, <1>4, <1>5, <1>6, <1>7 DEF ShutNext, Master

\* Once it is gone.
LEMMA RemovedNext ==
  ASSUME Removed, ~sem, [ShutNext]_svars
  PROVE  ShutInv'
<1> USE DEF ShutInv, ipc, shutdown
<1>0. Placed /\ semval = 0 /\ semadj = [q \in Proc |-> 0]
  BY DEF Removed
<1>q. ASSUME NoEntry, semval' = 0, semadj' = semadj, ~sem' PROVE ShutInv'
  BY <1>q, NoEntryExcludes DEF Removed, NoEntry
<1>e. ASSUME NEW p \in Proc, End(p), UNCHANGED sem PROVE ShutInv'
  BY <1>e, EndRemoved
<1>1. CASE MasterSignalled \/ MasterKills \/ MasterRemovesTable \/ UNCHANGED svars
  <2>1. UNCHANGED vars /\ UNCHANGED sem
    BY <1>1 DEF MasterSignalled, MasterKills, MasterRemovesTable, svars
  <2> QED BY <2>1, <1>0, <1>q, SameNoEntry DEF vars, kernel
<1>2. CASE MasterExits
  BY <1>2, <1>0, <1>q, SameNoEntry DEF MasterExits, RemoveSemaphore, state
<1>3. ASSUME NEW p \in Proc, IntRemoves(p) PROVE FALSE
  BY <1>3 DEF IntRemoves
<1>4. ASSUME NEW p \in Proc, IntExits(p) PROVE ShutInv'
  BY <1>4, <1>e DEF IntExits
<1>5. ASSUME NEW p \in Proc, SessionStep(p) PROVE ShutInv'
  <2>0. UNCHANGED sem
    BY <1>5 DEF SessionStep
  <2>1. CASE Step(p) /\ semval' = 0 /\ at'[p][run[p]] # "blocked"
    BY Zenon, <2>0, <2>1, StepRemoved
  <2>2. CASE PFails(p)
    BY <2>0, <2>2, <1>e DEF PFails
  <2>3. CASE VFails(p)
    <3>1. CASE End(p)
      BY <2>0, <3>1, <1>e
    <3>2. ASSUME NEW s \in Signals, HandlerVForgets(p, s) PROVE ShutInv'
      <4>1. s \in Frames /\ "idle" \in Positions /\ "idle" \notin Inside
        BY PositionLabels DEF Inside
      <4>2. NoEntry
        BY <3>2, <4>1, <1>0, MoveNoEntry DEF HandlerVForgets
      <4> QED BY <2>0, <3>2, <4>2, <1>0, <1>q DEF HandlerVForgets, kernel
    <3> QED BY Zenon, <2>3, <3>1, <3>2 DEF VFails
  <2> QED BY Zenon, <1>5, <2>1, <2>2, <2>3 DEF SessionStep
<1>6. ASSUME NEW p \in Proc, Outside(p) \/ MasterAccepts(p) PROVE ShutInv'
  <2>0. UNCHANGED sem
    BY <1>6 DEF Outside, MasterAccepts
  <2>1. CASE SigPipe(p) \/ BadArguments(p)
    BY <2>0, <2>1, <1>e DEF SigPipe, BadArguments
  <2>2. CASE Hangup(p)
    BY <2>0, <2>2, <1>0, <1>q, SameNoEntry DEF Hangup, kernel
  <2>3. CASE ReadCommand(p)
    <3>1. NoEntry
      BY <2>3, <1>0, PositionLabels, MoveNoEntry DEF ReadCommand, Inside
    <3> QED BY <2>0, <2>3, <3>1, <1>0, <1>q DEF ReadCommand, kernel
  <2>4. ASSUME NEW q \in Proc, NEW id, NEW eof, Fork(q, id, eof) PROVE ShutInv'
    <3>1. NoEntry
      BY <2>4, <1>0, PositionLabels, MoveNoEntry DEF Fork, Inside
    <3> QED BY <2>0, <2>4, <3>1, <1>0, <1>q DEF Fork, kernel
  <2> QED
    BY Zenon, <1>6, <2>1, <2>2, <2>3, <2>4
       DEF Outside, MasterAccepts, AcceptBySession, AcceptByMaster
<1> QED
  BY Zenon, <1>1, <1>2, <1>3, <1>4, <1>5, <1>6 DEF ShutNext, Master

LEMMA ShutInductive == ShutInv /\ [ShutNext]_svars => ShutInv'
BY PresentNext, RemovedNext DEF ShutInv

\* However the server is ended, and whichever sessions are woken because the
\* semaphore they sleep on is removed, at most one frame of one process is
\* between Semaphore_P and Semaphore_V.
THEOREM RemovalSafe == ShutSpec => []RemovalExcludes
<1>1. ShutInit => ShutInv
  BY ControlInit DEF ShutInit, ShutInv
<1>2. ShutInv => RemovalExcludes
  BY ControlExcludes DEF ShutInv, Removed
<1> QED BY PTL, <1>1, <1>2, ShutInductive DEF ShutSpec
=============================================================================
