--------------------------- MODULE MultiServerProofs ---------------------------
(***************************************************************************)
(* Proofs about MultiServer, for any number of sessions, slots and names.  *)
(*                                                                         *)
(* The argument has two layers.  The lower one is about control only: how  *)
(* the frames of a process are stacked, and who holds the semaphore.  The  *)
(* upper one is about the client table, and uses from the lower one that   *)
(* at most one frame is inside a section.                                  *)
(***************************************************************************)
EXTENDS MultiServer, TLAPS

USE NAssumption, MaxCommandsAssumption, ProcAssumption, CommandsAssumption,
    NamesAssumption

-----------------------------------------------------------------------------
(* The lower layer.                                                        *)

\* The handlers active in p form a stack on top of the main program.
StackOf(p) ==
  \/ run[p] = "main" /\ \A s \in Signals : at[p][s] = "idle"
  \/ \E s \in Signals :
       /\ run[p] = s /\ at[p][s] # "idle" /\ saved[p][s] = "main"
       /\ \A t \in Signals \ {s} : at[p][t] = "idle"
  \/ \E s, t \in Signals :
       /\ s # t /\ run[p] = s
       /\ at[p][s] # "idle" /\ saved[p][s] = t
       /\ at[p][t] # "idle" /\ saved[p][t] = "main"

StackInv ==
  \A p \in Proc :
    /\ StackOf(p)
    /\ Live(p) <=> at[p]["main"] # "idle"
    /\ ~Live(p) => run[p] = "main"

ControlInv == TypeOK /\ StackInv /\ SemaphoreInv

\* What the actions that neither take nor give back the semaphore, nor enter
\* or leave a handler, have in common.
Keeps ==
  /\ \A q \in Proc, f \in Frames :
       /\ Holds(q, f)' <=> Holds(q, f)
       /\ at'[q][f] = "idle" <=> at[q][f] = "idle"
  /\ \A q \in Proc : Live(q)' <=> Live(q)
  /\ UNCHANGED <<kernel, run, saved>>

\* The actions of p that satisfy Keeps.
Body(p) ==
  \/ \E f \in Frames : SemaphoreWait(p, f)
  \/ InitialClientTest(p) \/ InitialClientAct(p) \/ Login(p)
  \/ BroadcastTest(p) \/ BroadcastAct(p)
  \/ Who(p) \/ NameTest(p) \/ NameAct(p) \/ TellTest(p) \/ TellAct(p)
  \/ Yell(p) \/ Logout(p) \/ LogoutMemset(p)
  \/ PrintTest(p) \/ PrintAct(p)
  \/ EndOfInput(p) \/ Hangup(p) \/ ReadCommand(p)

\* What the actions that end p do.
Ends(p) == End(p) /\ UNCHANGED clientset

\* The actions that fork q.
Accepts(q) == AcceptByMaster(q) \/ \E p \in Proc : AcceptBySession(p, q)

LEMMA NextCases ==
  ASSUME [Next]_vars
  PROVE  \/ \E p \in Proc :
              \/ Body(p) \/ Ends(p) \/ Accepts(p) \/ Kill(p) \/ SemaphoreV(p)
              \/ \E f \in Frames : SemaphoreP(p, f)
              \/ \E s \in Signals : HandlerV(p, s) \/ Deliver(p, s)
         \/ UNCHANGED vars
BY Zenon DEF Next, Step, Environment, Body, Ends, Accepts, SemaphoreFailed,
             LoginCrash, LogoutExit, PrintCrash, SigPipe, BadArguments

\* A frame that moves within a section, or outside of all of them.
LEMMA MoveKeeps ==
  ASSUME TypeOK, NEW p \in Proc, NEW f \in Frames, NEW a \in Positions,
         Live(p), at[p][f] # "idle", a # "idle",
         a \in Inside <=> at[p][f] \in Inside,
         at' = [at EXCEPT ![p][f] = a] \/ at' = at,
         \/ sec' = sec
         \/ \E s \in Sections \ Ended : sec' = [sec EXCEPT ![p] = s],
         UNCHANGED <<kernel, run, saved>>
  PROVE  Keeps
<1>1. at \in [Proc -> [Frames -> Positions]] /\ sec \in [Proc -> Sections]
  BY DEF TypeOK
<1>2. \A q \in Proc, g \in Frames :
        at'[q][g] = IF q = p /\ g = f /\ at' # at THEN a ELSE at[q][g]
  BY <1>1
<1>3. \A q \in Proc : Live(q)' <=> Live(q)
  BY <1>1 DEF Live
<1> QED
  BY <1>2, <1>3 DEF Keeps, Holds

LEMMA LeaveKeeps ==
  ASSUME TypeOK, NEW p \in Proc, NEW s \in Sections \ Ended, Leave(p, s),
         Runs(p, "main", "test") \/ Runs(p, "main", "act"),
         UNCHANGED <<kernel, control>>
  PROVE  Keeps
<1>1. "main" \in Frames /\ "V" \in Positions /\ {"V", "test", "act"} \subseteq Inside
  BY DEF Frames, Positions, Inside
<1> QED
  BY <1>1, MoveKeeps DEF Leave, Runs, control

LEMMA BodyKeeps ==
  ASSUME TypeOK, NEW p \in Proc, Body(p)
  PROVE  Keeps
<1> USE DEF Runs
<1>0. /\ \A a \in {"test", "act", "V"} : a \in Inside /\ a \in Positions /\ a # "idle"
      /\ \A a \in {"P", "blocked", "go"} : a \notin Inside /\ a \in Positions /\ a # "idle"
      /\ "main" \in Frames /\ "USR1" \in Frames
      /\ (Locking \cup Free) = Sections \ Ended
  BY DEF Inside, Positions, Frames, Signals, Sections, Locking, Free, Ended
<1>1. ASSUME NEW f \in Frames, SemaphoreWait(p, f) PROVE Keeps
  BY <1>1, <1>0, MoveKeeps DEF SemaphoreWait, control
<1>2. CASE InitialClientTest(p)
  <2>1. CASE at' = [at EXCEPT ![p]["main"] = "act"] /\ UNCHANGED sec
    BY <1>2, <2>1, <1>0, MoveKeeps DEF InitialClientTest, control
  <2>2. CASE Leave(p, "Login")
    BY <1>2, <2>2, <1>0, LeaveKeeps DEF InitialClientTest, Locking
  <2> QED BY <1>2, <2>1, <2>2 DEF InitialClientTest
<1>3. CASE InitialClientAct(p)
  BY <1>3, <1>0, LeaveKeeps DEF InitialClientAct, Locking
<1>4. CASE Login(p) \/ Yell(p) \/ Logout(p)
  BY <1>4, <1>0, LeaveKeeps DEF Login, Yell, Logout, Announce, Locking
<1>5. CASE BroadcastTest(p)
  <2>1. CASE at' = [at EXCEPT ![p]["main"] = "act"] /\ UNCHANGED sec
    BY <1>5, <2>1, <1>0, MoveKeeps DEF BroadcastTest, control
  <2>2. CASE Leave(p, AfterTarget(p))
    <3>1. AfterTarget(p) \in Sections \ Ended
      BY <1>0 DEF AfterTarget, TypeOK, Locking, Free
    <3> QED BY <1>5, <2>2, <3>1, LeaveKeeps DEF BroadcastTest
  <2> QED BY <1>5, <2>1, <2>2 DEF BroadcastTest
<1>6. CASE BroadcastAct(p) \/ TellAct(p)
  BY <1>6, <1>0, LeaveKeeps DEF BroadcastAct, TellAct, Post, Free
<1>7. CASE Who(p)
  BY <1>7, <1>0, LeaveKeeps DEF Who, Free
<1>8. CASE NameTest(p)
  <2>1. CASE at' = [at EXCEPT ![p]["main"] = "act"] /\ UNCHANGED sec
    BY <1>8, <2>1, <1>0, MoveKeeps DEF NameTest, control
  <2>2. CASE Leave(p, "prompt")
    BY <1>8, <2>2, <1>0, LeaveKeeps DEF NameTest, Free
  <2> QED BY <1>8, <2>1, <2>2 DEF NameTest
<1>9. CASE NameAct(p)
  BY <1>9, <1>0, LeaveKeeps DEF NameAct, Locking
<1>10. CASE TellTest(p)
  <2>1. CASE at' = [at EXCEPT ![p]["main"] = "act"] /\ UNCHANGED sec
    BY <1>10, <2>1, <1>0, MoveKeeps DEF TellTest, control
  <2>2. CASE Leave(p, "prompt")
    BY <1>10, <2>2, <1>0, LeaveKeeps DEF TellTest, Free
  <2> QED BY <1>10, <2>1, <2>2 DEF TellTest
<1>11. CASE LogoutMemset(p)
  BY <1>11, <1>0, MoveKeeps DEF LogoutMemset, control, Free
<1>12. CASE PrintTest(p) \/ PrintAct(p)
  <2>1. \E a \in {"act", "V"} : at' = [at EXCEPT ![p]["USR1"] = a]
    BY <1>12 DEF PrintTest, PrintAct
  <2> QED BY <1>12, <2>1, <1>0, MoveKeeps DEF PrintTest, PrintAct, control
<1>13. CASE EndOfInput(p)
  BY <1>13, <1>0, MoveKeeps DEF EndOfInput, control, Free
<1>15. CASE Hangup(p)
  BY <1>15 DEF Hangup, control, Keeps, Holds, Live
<1>14. CASE ReadCommand(p)
  BY <1>14, <1>0, MoveKeeps DEF ReadCommand, control, Locking
<1> QED
  BY <1>1, <1>2, <1>3, <1>4, <1>5, <1>6, <1>7, <1>8, <1>9, <1>10, <1>11,
     <1>12, <1>13, <1>14, <1>15 DEF Body

LEMMA PositionLabels ==
  /\ {"P", "blocked", "eintr", "test", "act", "V", "go", "idle"} \subseteq Positions
  /\ "main" \in Frames /\ Signals \subseteq Frames /\ "USR1" \in Signals
BY DEF Positions, Frames, Signals

LEMMA SectionLabels == Locking \cup Free \cup Ended = Sections
BY DEF Sections

LEMMA ClientUpdates ==
  ASSUME NEW c \in Client
  PROVE  /\ [c EXCEPT !.used = FALSE, !.pid = NoProc] \in Client
         /\ [c EXCEPT !.msg = FALSE, !.name = NoName] \in Client
         /\ [c EXCEPT !.msg = FALSE] \in Client
         /\ [c EXCEPT !.msg = TRUE] \in Client
         /\ \A n \in Names \cup {DefaultName} : [c EXCEPT !.name = n] \in Client
         /\ \A p \in Proc :
              [used |-> TRUE, pid |-> p, name |-> DefaultName, msg |-> c.msg] \in Client
BY DEF Client

LEMMA TableUpdates ==
  ASSUME clientset \in [Slots -> Client], NEW i
  PROVE  /\ [clientset EXCEPT ![i].msg = FALSE] \in [Slots -> Client]
         /\ [clientset EXCEPT ![i].msg = TRUE] \in [Slots -> Client]
         /\ [clientset EXCEPT ![i].used = FALSE, ![i].pid = NoProc] \in [Slots -> Client]
         /\ [clientset EXCEPT ![i].msg = FALSE, ![i].name = NoName] \in [Slots -> Client]
         /\ \A n \in Names \cup {DefaultName} :
              [clientset EXCEPT ![i].name = n] \in [Slots -> Client]
         /\ \A p \in Proc :
              [clientset EXCEPT ![i] = [used |-> TRUE, pid |-> p,
                 name |-> DefaultName, msg |-> @.msg]] \in [Slots -> Client]
<1>1. [clientset EXCEPT ![i].msg = FALSE] \in [Slots -> Client]
  BY ClientUpdates
<1>2. [clientset EXCEPT ![i].msg = TRUE] \in [Slots -> Client]
  BY ClientUpdates
<1>3. [clientset EXCEPT ![i].used = FALSE, ![i].pid = NoProc] \in [Slots -> Client]
  BY ClientUpdates
<1>4. [clientset EXCEPT ![i].msg = FALSE, ![i].name = NoName] \in [Slots -> Client]
  BY ClientUpdates
<1>5. ASSUME NEW n \in Names \cup {DefaultName}
      PROVE  [clientset EXCEPT ![i].name = n] \in [Slots -> Client]
  BY ClientUpdates
<1>6. ASSUME NEW p \in Proc
      PROVE  [clientset EXCEPT ![i] = [used |-> TRUE, pid |-> p,
                name |-> DefaultName, msg |-> @.msg]] \in [Slots -> Client]
  BY ClientUpdates
<1> QED BY <1>1, <1>2, <1>3, <1>4, <1>5, <1>6

LEMMA BodyType ==
  ASSUME TypeOK, NEW p \in Proc, Body(p)
  PROVE  TypeOK'
<1> USE DEF Runs, kernel, control, locals, input
<1>at. at \in [Proc -> [Frames -> Positions]]
  BY DEF TypeOK
<1>sec. sec \in [Proc -> Sections] /\ ret \in [Proc -> {"prompt", "memset1"}]
  BY DEF TypeOK
<1>tab. clientset \in [Slots -> Client]
  BY DEF TypeOK
<1>userid. userid \in [Proc -> 0..N] /\ idx \in [Proc -> Slots]
  BY DEF TypeOK
<1>idx. idx \in [Proc -> Slots]
  BY DEF TypeOK
<1>ret. ret \in [Proc -> {"prompt", "memset1"}]
  BY DEF TypeOK
<1>arg. arg \in [Proc -> Names \cup {DefaultName}]
  BY DEF TypeOK
<1>gone. gone \in [Proc -> BOOLEAN]
  BY DEF TypeOK
<1>cineof. cineof \in [Proc -> BOOLEAN]
  BY DEF TypeOK
<1>typed. typed \in [Proc -> 0..MaxCommands]
  BY DEF TypeOK
<1>1. ASSUME NEW f \in Frames, SemaphoreWait(p, f) PROVE TypeOK'
  <2>1. at' \in [Proc -> [Frames -> Positions]]
    BY <1>1, <1>at, PositionLabels DEF SemaphoreWait
  <2> QED BY <1>1, <2>1 DEF TypeOK, SemaphoreWait
<1>2. CASE InitialClientTest(p)
  <2>1. at' \in [Proc -> [Frames -> Positions]]
    BY <1>2, <1>at, PositionLabels DEF InitialClientTest, Leave
  <2>2. sec' \in [Proc -> Sections]
    BY <1>2, <1>sec, SectionLabels DEF InitialClientTest, Leave, Locking
  <2>3. idx' \in [Proc -> Slots]
    BY <1>2, <1>idx DEF InitialClientTest, FreeSlots
  <2> QED BY <1>2, <2>1, <2>2, <2>3 DEF TypeOK, InitialClientTest
<1>3. CASE InitialClientAct(p)
  <2>1. at' \in [Proc -> [Frames -> Positions]]
    BY <1>3, <1>at, PositionLabels DEF InitialClientAct, Leave
  <2>2. sec' \in [Proc -> Sections]
    BY <1>3, <1>sec, SectionLabels DEF InitialClientAct, Leave, Locking
  <2>3. userid' \in [Proc -> 0..N]
    BY <1>3, <1>userid DEF InitialClientAct, Slots
  <2>4. clientset' \in [Slots -> Client]
    BY <1>3, <1>tab, TableUpdates DEF InitialClientAct
  <2> QED BY <1>3, <2>1, <2>2, <2>3, <2>4 DEF TypeOK, InitialClientAct
<1>4. CASE Login(p) \/ Yell(p) \/ Logout(p)
  <2>1. at' \in [Proc -> [Frames -> Positions]]
    BY <1>4, <1>at, PositionLabels DEF Login, Yell, Logout, Announce, Leave
  <2>2. sec' \in [Proc -> Sections]
    BY <1>4, <1>sec, SectionLabels DEF Login, Yell, Logout, Announce, Leave, Locking
  <2>3. idx' \in [Proc -> Slots]
    BY <1>4, <1>idx DEF Login, Yell, Logout, Announce, Slots
  <2>4. ret' \in [Proc -> {"prompt", "memset1"}]
    BY <1>4, <1>ret DEF Login, Yell, Logout, Announce
  <2> QED BY <1>4, <2>1, <2>2, <2>3, <2>4 DEF TypeOK, Login, Yell, Logout, Announce
<1>5. CASE BroadcastTest(p)
  <2>1. at' \in [Proc -> [Frames -> Positions]]
    BY <1>5, <1>at, PositionLabels DEF BroadcastTest, Leave
  <2>2. sec' \in [Proc -> Sections]
    BY <1>5, <1>sec, SectionLabels DEF BroadcastTest, Leave, AfterTarget, Locking, Free
  <2>3. idx' \in [Proc -> Slots]
    BY <1>5, <1>idx DEF BroadcastTest, NextTarget, Slots
  <2> QED BY <1>5, <2>1, <2>2, <2>3 DEF TypeOK, BroadcastTest
<1>6. CASE BroadcastAct(p) \/ TellAct(p)
  <2>1. at' \in [Proc -> [Frames -> Positions]]
    BY <1>6, <1>at, PositionLabels DEF BroadcastAct, TellAct, Post, Leave
  <2>2. sec' \in [Proc -> Sections]
    BY <1>6, <1>sec, SectionLabels DEF BroadcastAct, TellAct, Post, Leave, Free
  <2>3. clientset' \in [Slots -> Client]
    <3>1. clientset' = [clientset EXCEPT ![idx[p]].msg = TRUE]
      BY <1>6 DEF BroadcastAct, TellAct, Post
    <3> QED BY <3>1, <1>tab, TableUpdates
  <2> QED BY <1>6, <2>1, <2>2, <2>3 DEF TypeOK, BroadcastAct, TellAct, Post
<1>7. CASE Who(p)
  <2>1. at' \in [Proc -> [Frames -> Positions]]
    BY <1>7, <1>at, PositionLabels DEF Who, Leave
  <2>2. sec' \in [Proc -> Sections]
    BY <1>7, <1>sec, SectionLabels DEF Who, Leave, Free
  <2> QED BY <1>7, <2>1, <2>2 DEF TypeOK, Who
<1>8. CASE NameTest(p)
  <2>1. at' \in [Proc -> [Frames -> Positions]]
    BY <1>8, <1>at, PositionLabels DEF NameTest, Leave
  <2>2. sec' \in [Proc -> Sections]
    BY <1>8, <1>sec, SectionLabels DEF NameTest, Leave, Free
  <2> QED BY <1>8, <2>1, <2>2 DEF TypeOK, NameTest
<1>9. CASE NameAct(p)
  <2>1. at' \in [Proc -> [Frames -> Positions]]
    BY <1>9, <1>at, PositionLabels DEF NameAct, Leave
  <2>2. sec' \in [Proc -> Sections]
    BY <1>9, <1>sec, SectionLabels DEF NameAct, Leave, Locking
  <2>3. clientset' \in [Slots -> Client]
    BY <1>9, <1>tab, <1>arg, TableUpdates DEF NameAct
  <2>4. idx' \in [Proc -> Slots]
    BY <1>9, <1>idx DEF NameAct, Slots
  <2>5. ret' \in [Proc -> {"prompt", "memset1"}]
    BY <1>9, <1>ret DEF NameAct
  <2> QED BY <1>9, <2>1, <2>2, <2>3, <2>4, <2>5 DEF TypeOK, NameAct
<1>10. CASE TellTest(p)
  <2>1. at' \in [Proc -> [Frames -> Positions]]
    BY <1>10, <1>at, PositionLabels DEF TellTest, Leave
  <2>2. sec' \in [Proc -> Sections]
    BY <1>10, <1>sec, SectionLabels DEF TellTest, Leave, Free
  <2> QED BY <1>10, <2>1, <2>2 DEF TypeOK, TellTest
<1>11. CASE LogoutMemset(p)
  <2>1. sec' \in [Proc -> Sections]
    BY <1>11, <1>sec, SectionLabels DEF LogoutMemset, Free
  <2>2. clientset' \in [Slots -> Client]
    <3>1. \/ clientset' = [clientset EXCEPT ![userid[p]].used = FALSE,
                                            ![userid[p]].pid = NoProc]
          \/ clientset' = [clientset EXCEPT ![userid[p]].msg = FALSE,
                                            ![userid[p]].name = NoName]
      BY <1>11 DEF LogoutMemset
    <3>2. CASE clientset' = [clientset EXCEPT ![userid[p]].used = FALSE,
                                              ![userid[p]].pid = NoProc]
      BY <3>2, <1>tab, TableUpdates
    <3>3. CASE clientset' = [clientset EXCEPT ![userid[p]].msg = FALSE,
                                              ![userid[p]].name = NoName]
      BY <3>3, <1>tab, TableUpdates
    <3> QED BY <3>1, <3>2, <3>3
  <2> QED BY <1>11, <2>1, <2>2 DEF TypeOK, LogoutMemset
<1>12. CASE PrintTest(p) \/ PrintAct(p)
  <2>1. at' \in [Proc -> [Frames -> Positions]]
    BY <1>12, <1>at, PositionLabels DEF PrintTest, PrintAct
  <2>2. clientset' \in [Slots -> Client]
    <3>1. clientset' = clientset \/ clientset' = [clientset EXCEPT ![userid[p]].msg = FALSE]
      BY <1>12 DEF PrintTest, PrintAct
    <3>2. CASE clientset' = [clientset EXCEPT ![userid[p]].msg = FALSE]
      BY <3>2, <1>tab, TableUpdates
    <3> QED BY <3>1, <3>2, <1>tab
  <2> QED BY <1>12, <2>1, <2>2 DEF TypeOK, PrintTest, PrintAct
<1>13. CASE EndOfInput(p)
  <2>1. sec' \in [Proc -> Sections]
    BY <1>13, <1>sec, SectionLabels DEF EndOfInput, Free
  <2>2. cineof' \in [Proc -> BOOLEAN]
    BY <1>13, <1>cineof DEF EndOfInput
  <2> QED BY <1>13, <2>1, <2>2 DEF TypeOK, EndOfInput
<1>14. CASE Hangup(p)
  <2>1. gone' \in [Proc -> BOOLEAN]
    BY <1>14, <1>gone DEF Hangup
  <2> QED BY <1>14, <2>1 DEF TypeOK, Hangup
<1>15. CASE ReadCommand(p)
  <2>1. at' \in [Proc -> [Frames -> Positions]]
    BY <1>15, <1>at, PositionLabels DEF ReadCommand
  <2>2. sec' \in [Proc -> Sections]
    BY <1>15, <1>sec, SectionLabels DEF ReadCommand, Locking
  <2>3. idx' \in [Proc -> Slots]
    BY <1>15, <1>idx DEF ReadCommand
  <2>4. arg' \in [Proc -> Names \cup {DefaultName}]
    BY <1>15, <1>arg DEF ReadCommand
  <2>5. typed' \in [Proc -> 0..MaxCommands]
    BY <1>15, <1>typed DEF ReadCommand
  <2> QED BY <1>15, <2>1, <2>2, <2>3, <2>4, <2>5 DEF TypeOK, ReadCommand
<1> QED
  BY <1>1, <1>2, <1>3, <1>4, <1>5, <1>6, <1>7, <1>8, <1>9, <1>10, <1>11,
     <1>12, <1>13, <1>14, <1>15 DEF Body

\* With ControlInv, semval and semadj stay within 0..1.
LEMMA SemaphoreRange ==
  ASSUME ControlInv, NEW p \in Proc
  PROVE  /\ semval \in {0, 1} /\ semadj \in [Proc -> 0..1]
         /\ semadj[p] \in {0, 1}
         /\ semval = 1 => semadj[p] = 0
<1>1. semval \in {0, 1} /\ semadj \in [Proc -> 0..1] /\ semadj[p] \in {0, 1}
  BY DEF ControlInv, TypeOK
<1>2. semval = 1 => semadj[p] # 1
  BY DEF ControlInv, SemaphoreInv
<1>3. QED
  BY <1>1, <1>2

\* What happens in a section happens with the semaphore down.
LEMMA HolderFacts ==
  ASSUME ControlInv, NEW p \in Proc, NEW f \in Frames, Holds(p, f)
  PROVE  (semval = 0 /\ semadj[p] = 1)
<1>1. semval # 1 /\ semadj[p] = 1
  BY DEF ControlInv, SemaphoreInv
<1>2. semval = 0 /\ semadj[p] = 1
  <2>1. semval \in {0, 1}
    BY Zenon, SemaphoreRange
  <2>2. semval = 0
    BY SMT, <1>1, <2>1
  <2> QED BY <1>1, <2>2
<1> QED BY <1>2

LEMMA KernelType ==
  ASSUME ControlInv, NEW p \in Proc,
         \/ \E f \in Frames : SemaphoreP(p, f)
         \/ SemaphoreV(p)
         \/ \E s \in Signals : HandlerV(p, s) \/ Deliver(p, s)
         \/ Ends(p) \/ Accepts(p) \/ Kill(p)
  PROVE  TypeOK'
<1> USE DEF Runs, kernel, control, locals, input
<1>at. at \in [Proc -> [Frames -> Positions]] /\ run \in [Proc -> Frames]
       /\ saved \in [Proc -> [Signals -> Frames \cup {"none"}]]
       /\ pend \in [Proc -> SUBSET Signals]
  BY DEF ControlInv, TypeOK
<1>sec. sec \in [Proc -> Sections] /\ ret \in [Proc -> {"prompt", "memset1"}]
        /\ idx \in [Proc -> Slots]
  BY DEF ControlInv, TypeOK
<1>entry. \A s \in Sections : Entry(s) \in Positions
  BY PositionLabels DEF Entry
<1>0. TypeOK
  BY DEF ControlInv
<1>1. ASSUME NEW f \in Frames, SemaphoreP(p, f) PROVE TypeOK'
  <2>1. at' \in [Proc -> [Frames -> Positions]]
    BY <1>1, <1>at, PositionLabels DEF SemaphoreP
  <2>2. semval' \in 0..1 /\ semadj' \in [Proc -> 0..1]
    <3>1. semval = 1 /\ semadj[p] = 0 /\ semadj \in [Proc -> 0..1]
      BY <1>1, SemaphoreRange DEF SemaphoreP
    <3> QED BY <3>1, <1>1 DEF SemaphoreP
  <2> QED BY <1>0, <1>1, <2>1, <2>2 DEF TypeOK, SemaphoreP
<1>2. CASE SemaphoreV(p)
  <2>1. at' \in [Proc -> [Frames -> Positions]]
    BY <1>2, <1>at, <1>sec, <1>entry, PositionLabels DEF SemaphoreV
  <2>2. semval' \in 0..1 /\ semadj' \in [Proc -> 0..1]
    <3>1. Holds(p, "main")
      BY <1>2 DEF SemaphoreV, Holds, Inside
    <3>2. semval = 0 /\ semadj[p] = 1 /\ semadj \in [Proc -> 0..1]
      BY <3>1, SemaphoreRange, HolderFacts, PositionLabels
    <3> QED BY <3>2, <1>2 DEF SemaphoreV
  <2> QED BY <1>0, <1>2, <2>1, <2>2 DEF TypeOK, SemaphoreV
<1>3. ASSUME NEW s \in Signals, HandlerV(p, s) PROVE TypeOK'
  <2>1. at' \in [Proc -> [Frames -> Positions]]
    BY <1>3, <1>at, PositionLabels DEF HandlerV
  <2>2. semval' \in 0..1 /\ semadj' \in [Proc -> 0..1]
    <3>1. Holds(p, s)
      BY <1>3 DEF HandlerV, Holds, Inside
    <3>2. semval = 0 /\ semadj[p] = 1 /\ semadj \in [Proc -> 0..1]
      BY <3>1, SemaphoreRange, HolderFacts, PositionLabels
    <3> QED BY <3>2, <1>3 DEF HandlerV
  <2>3. saved[p][s] \in Frames
    <3>1. StackOf(p)
      BY DEF ControlInv, StackInv
    <3> QED BY <3>1, <1>3 DEF StackOf, HandlerV, Frames, Signals
  <2>4. run' \in [Proc -> Frames]
        /\ saved' \in [Proc -> [Signals -> Frames \cup {"none"}]]
    BY <1>3, <1>at, <2>3 DEF HandlerV
  <2> QED BY <1>0, <1>3, <2>1, <2>2, <2>4 DEF TypeOK, HandlerV
<1>4. ASSUME NEW s \in Signals, Deliver(p, s) PROVE TypeOK'
  <2>1. at' \in [Proc -> [Frames -> Positions]]
    BY <1>4, <1>at, PositionLabels DEF Deliver, Interrupted
  <2>2. run' \in [Proc -> Frames] /\ pend' \in [Proc -> SUBSET Signals]
        /\ saved' \in [Proc -> [Signals -> Frames \cup {"none"}]]
    BY <1>4, <1>at, PositionLabels DEF Deliver
  <2> QED BY <1>0, <1>4, <2>1, <2>2 DEF TypeOK, Deliver
<1>5. CASE Ends(p)
  <2>1. End(p) /\ UNCHANGED clientset
    BY <1>5 DEF Ends
  <2>2. at' \in [Proc -> [Frames -> Positions]]
    BY <2>1, <1>at, PositionLabels DEF End, Quiet
  <2>3. semval' \in 0..1 /\ semadj' \in [Proc -> 0..1]
    <3>1. semval + semadj[p] \in 0..1 /\ semadj \in [Proc -> 0..1]
      BY SemaphoreRange
    <3> QED BY <3>1, <2>1 DEF End
  <2>4. run' \in [Proc -> Frames] /\ pend' \in [Proc -> SUBSET Signals]
        /\ saved' \in [Proc -> [Signals -> Frames \cup {"none"}]]
    BY <2>1, <1>at, PositionLabels DEF End, NotSaved
  <2>5. sec' \in [Proc -> Sections] /\ ret' \in [Proc -> {"prompt", "memset1"}]
    BY <2>1, <1>sec, SectionLabels DEF End, Ended
  <2>6. idx' \in [Proc -> Slots] /\ userid' \in [Proc -> 0..N]
        /\ arg' \in [Proc -> Names \cup {DefaultName}]
    BY <2>1, <1>0 DEF End, TypeOK, Slots
  <2> QED BY <1>0, <2>1, <2>2, <2>3, <2>4, <2>5, <2>6 DEF TypeOK, End
<1>6. CASE Accepts(p)
  <2>1. PICK id \in 0..N, eof \in BOOLEAN : Fork(p, id, eof)
    <3>1. CASE AcceptByMaster(p)
      <4>1. 0 \in 0..N /\ FALSE \in BOOLEAN
        OBVIOUS
      <4> QED BY Zenon, <4>1, <3>1 DEF AcceptByMaster
    <3>2. ASSUME NEW q \in Proc, AcceptBySession(q, p)
          PROVE  \E id \in 0..N, eof \in BOOLEAN : Fork(p, id, eof)
      <4>1. userid[q] \in 0..N /\ cineof[q] \in BOOLEAN
        BY <1>0 DEF TypeOK
      <4> QED BY <4>1, <3>2 DEF AcceptBySession
    <3> QED BY <3>1, <3>2, <1>6 DEF Accepts
  <2>2. at' \in [Proc -> [Frames -> Positions]]
    BY <2>1, <1>at, PositionLabels DEF Fork
  <2>3. sec' \in [Proc -> Sections]
    BY <2>1, <1>sec, SectionLabels DEF Fork, Locking
  <2>4. userid' \in [Proc -> 0..N] /\ cineof' \in [Proc -> BOOLEAN]
    BY <2>1, <1>0 DEF Fork, TypeOK
  <2> QED BY <1>0, <2>1, <2>2, <2>3, <2>4 DEF TypeOK, Fork
<1>7. CASE Kill(p)
  <2> DEFINE next == IF sec[p] = "kill" THEN AfterTarget(p) ELSE "prompt"
  <2>1. next \in Sections
    BY <1>sec, SectionLabels DEF AfterTarget, Locking, Free
  <2>2. sec' \in [Proc -> Sections]
    BY <1>7, <2>1, <1>sec DEF Kill
  <2>3. at' \in [Proc -> [Frames -> Positions]]
    BY <1>7, <2>1, <1>at, <1>entry, PositionLabels DEF Kill
  <2>4. run' \in [Proc -> Frames] /\ pend' \in [Proc -> SUBSET Signals]
        /\ saved' \in [Proc -> [Signals -> Frames \cup {"none"}]]
    BY <1>7, <1>at, PositionLabels DEF Kill, Signal
  <2>5. idx' \in [Proc -> Slots]
    BY <1>7, <1>sec DEF Kill, NextTarget, Slots
  <2> QED BY <1>0, <1>7, <2>2, <2>3, <2>4, <2>5 DEF TypeOK, Kill
<1> QED
  BY <1>1, <1>2, <1>3, <1>4, <1>5, <1>6, <1>7

LEMMA TypeInductive ==
  ASSUME ControlInv, [Next]_vars
  PROVE  TypeOK'
<1>1. TypeOK
  BY DEF ControlInv
<1>2. CASE UNCHANGED vars
  BY <1>1, <1>2 DEF TypeOK, vars, kernel, control, locals, input
<1> QED
  BY Zenon, <1>1, <1>2, NextCases, BodyType, KernelType

LEMMA StackEnd ==
  ASSUME ControlInv, NEW p \in Proc, Ends(p)
  PROVE  StackInv'
<1>at. /\ at \in [Proc -> [Frames -> Positions]] /\ run \in [Proc -> Frames]
       /\ sec \in [Proc -> Sections] /\ StackInv
       /\ Frames = {"main", "USR1", "USR2"} /\ Signals = {"USR1", "USR2"}
       /\ saved \in [Proc -> [Signals -> Frames \cup {"none"}]]
  BY DEF ControlInv, TypeOK, Frames, Signals
<1> QED BY <1>at DEF Ends, End, Quiet, StackInv, StackOf, Live, Ended

\* The frames stay stacked.
LEMMA StackInductive ==
  ASSUME ControlInv, [Next]_vars
  PROVE  StackInv'
<1> USE DEF Runs
<1>0. TypeOK /\ StackInv
  BY DEF ControlInv
<1>at. /\ at \in [Proc -> [Frames -> Positions]] /\ run \in [Proc -> Frames]
       /\ saved \in [Proc -> [Signals -> Frames \cup {"none"}]]
       /\ sec \in [Proc -> Sections]
       /\ Frames = {"main", "USR1", "USR2"} /\ Signals = {"USR1", "USR2"}
  BY <1>0 DEF TypeOK, Frames, Signals
<1>1. ASSUME NEW p \in Proc, Body(p) PROVE StackInv'
  <2>1. Keeps
    BY Zenon, <1>0, <1>1, BodyKeeps
  <2> QED BY <1>0, <1>at, <2>1 DEF Keeps, StackInv, StackOf
<1>2. ASSUME NEW p \in Proc, NEW f \in Frames, SemaphoreP(p, f) PROVE StackInv'
  BY <1>0, <1>at, <1>2 DEF SemaphoreP, control, StackInv, StackOf, Live
<1>3. ASSUME NEW p \in Proc, SemaphoreV(p) PROVE StackInv'
  BY <1>0, <1>at, <1>3 DEF SemaphoreV, control, StackInv, StackOf, Live, Entry
<1>4. ASSUME NEW p \in Proc, NEW s \in Signals, HandlerV(p, s) PROVE StackInv'
  BY <1>0, <1>at, <1>4 DEF HandlerV, StackInv, StackOf, Live
<1>5. ASSUME NEW p \in Proc, NEW s \in Signals, Deliver(p, s) PROVE StackInv'
  BY <1>0, <1>at, <1>5 DEF Deliver, Interrupted, StackInv, StackOf, Live
<1>6. ASSUME NEW p \in Proc, Ends(p) PROVE StackInv'
  BY <1>6, StackEnd
<1>7. ASSUME NEW p \in Proc, Accepts(p) PROVE StackInv'
  <2>1. PICK id, eof : Fork(p, id, eof)
    BY Zenon, <1>7 DEF Accepts, AcceptByMaster, AcceptBySession
  <2> QED BY <1>0, <1>at, <2>1 DEF Fork, control, StackInv, StackOf, Live, Ended
<1>8. ASSUME NEW p \in Proc, Kill(p) PROVE StackInv'
  <2> DEFINE next == IF sec[p] = "kill" THEN AfterTarget(p) ELSE "prompt"
             hit == p \in Targets(idx[p])
  <2>1. next \in Sections \ Ended /\ Entry(next) # "idle"
    BY <1>0 DEF TypeOK, AfterTarget, Entry, Sections, Locking, Free, Ended
  <2>2. /\ run[p] = "main" /\ at[p]["main"] = "go" /\ Live(p)
        /\ at' = [at EXCEPT ![p]["main"] = Entry(next),
                            ![p]["USR1"] = IF hit THEN "P" ELSE @]
        /\ run' = [run EXCEPT ![p] = IF hit THEN "USR1" ELSE @]
        /\ saved' = [saved EXCEPT ![p]["USR1"] = IF hit THEN "main" ELSE @]
        /\ sec' = [sec EXCEPT ![p] = next]
    BY <1>8 DEF Kill, Signal
  <2> HIDE DEF next, hit
  <2>3. \A q \in Proc : Live(q)' <=> Live(q)
    BY <1>at, <2>1, <2>2 DEF Live
  <2>4. \A q \in Proc \ {p} : at'[q] = at[q] /\ run'[q] = run[q] /\ saved'[q] = saved[q]
    BY <1>at, <2>2
  <2>5. /\ at'[p]["main"] # "idle" /\ at'[p]["USR2"] = "idle"
        /\ hit => at'[p]["USR1"] = "P" /\ run'[p] = "USR1" /\ saved'[p]["USR1"] = "main"
        /\ ~hit => at'[p]["USR1"] = "idle" /\ run'[p] = "main"
    BY <1>at, <1>0, <2>1, <2>2 DEF StackInv, StackOf
  <2>6. StackOf(p)'
    BY <1>at, <2>5 DEF StackOf
  <2>7. \A q \in Proc \ {p} : StackOf(q)'
    BY <1>0, <2>4 DEF StackInv, StackOf
  <2>8. /\ Live(p) <=> at[p]["main"] # "idle"
        /\ \A q \in Proc \ {p} : /\ Live(q) <=> at[q]["main"] # "idle"
                                 /\ ~Live(q) => run[q] = "main"
    BY <1>0 DEF StackInv
  <2>9. ASSUME NEW q \in Proc
        PROVE  /\ Live(q)' <=> at'[q]["main"] # "idle"
               /\ ~Live(q)' => run'[q] = "main"
    <3>1. CASE q = p
      BY Zenon, <3>1, <2>2, <2>3, <2>5
    <3>2. CASE q # p
      <4>1. q \in Proc \ {p}
        BY <3>2
      <4>2. at'[q] = at[q] /\ run'[q] = run[q]
        BY Zenon, <4>1, <2>4
      <4>3. (Live(q) <=> at[q]["main"] # "idle") /\ (~Live(q) => run[q] = "main")
        BY Zenon, <4>1, <2>8
      <4>4. Live(q)' <=> Live(q)
        BY Zenon, <2>3
      <4> QED BY Zenon, <4>2, <4>3, <4>4
    <3> QED BY <3>1, <3>2
  <2> QED BY <2>6, <2>7, <2>9 DEF StackInv
<1>9. CASE UNCHANGED vars
  BY <1>0, <1>9 DEF vars, control, StackInv, StackOf, Live
<1> QED
  BY Zenon, <1>1, <1>2, <1>3, <1>4, <1>5, <1>6, <1>7, <1>8, <1>9, NextCases

\* A step that lets no frame in or out of a section keeps SemaphoreInv.
LEMMA SameHolders ==
  ASSUME SemaphoreInv, UNCHANGED kernel,
         \A q \in Proc, f \in Frames : Holds(q, f)' <=> Holds(q, f)
  PROVE  SemaphoreInv'
BY DEF SemaphoreInv, kernel

LEMMA SemaphoreEnd ==
  ASSUME ControlInv, NEW p \in Proc, Ends(p)
  PROVE  SemaphoreInv'
<1>inv. SemaphoreInv
  BY DEF ControlInv
<1>at. /\ at \in [Proc -> [Frames -> Positions]] /\ semadj \in [Proc -> 0..1]
       /\ semval \in 0..1
  BY DEF ControlInv, TypeOK
<1>fr. Frames = {"main", "USR1", "USR2"} /\ Signals = {"USR1", "USR2"}
       /\ Inside = {"test", "act", "V"}
  BY DEF Frames, Signals, Inside
<1>1. End(p)
  BY DEF Ends
<1>2. \A q \in Proc, g \in Frames : Holds(q, g)' <=> q # p /\ Holds(q, g)
  BY <1>1, <1>at, <1>fr DEF End, Quiet, Holds
<1>3. semval' = semval + semadj[p] /\ semadj' = [semadj EXCEPT ![p] = 0]
  BY <1>1 DEF End
<1>4. CASE semadj[p] = 1
  <2>1. \A q \in Proc \ {p}, g \in Frames : ~Holds(q, g)
    BY <1>inv, <1>4 DEF SemaphoreInv
  <2>2. semval = 0
    BY <1>at, <1>inv, <1>4 DEF SemaphoreInv
  <2>3. \A q \in Proc : semadj'[q] # 1
    BY <1>at, <1>inv, <1>3, <2>1 DEF SemaphoreInv
  <2> QED BY <1>2, <1>3, <1>4, <2>1, <2>2, <2>3 DEF SemaphoreInv
<1>5. CASE semadj[p] # 1
  <2>1. \A g \in Frames : ~Holds(p, g)
    BY <1>inv, <1>5 DEF SemaphoreInv
  <2>2. \A q \in Proc, g \in Frames : Holds(q, g)' <=> Holds(q, g)
    BY <1>2, <2>1
  <2>3. semadj[p] = 0
    BY <1>at, <1>5
  <2>4. UNCHANGED kernel
    BY <1>at, <1>3, <2>3 DEF kernel
  <2> QED BY Zenon, <1>inv, <2>2, <2>4, SameHolders
<1> QED BY <1>4, <1>5

\* The only frame that can be inside a section is the one that runs, or one
\* that was interrupted there.
LEMMA SemaphoreInductive ==
  ASSUME ControlInv, [Next]_vars
  PROVE  SemaphoreInv'
<1> USE DEF Runs
<1>0. TypeOK /\ StackInv /\ SemaphoreInv
  BY DEF ControlInv
<1>at. /\ at \in [Proc -> [Frames -> Positions]] /\ semadj \in [Proc -> 0..1]
       /\ semval \in 0..1 /\ sec \in [Proc -> Sections] /\ run \in [Proc -> Frames]
  BY <1>0 DEF TypeOK
<1>fr. Frames = {"main", "USR1", "USR2"} /\ Signals = {"USR1", "USR2"}
       /\ Inside = {"test", "act", "V"}
  BY DEF Frames, Signals, Inside
<1>1. ASSUME NEW p \in Proc, Body(p) PROVE SemaphoreInv'
  <2>1. Keeps
    BY Zenon, <1>0, <1>1, BodyKeeps
  <2> QED BY Zenon, <1>0, <2>1, SameHolders DEF Keeps
<1>2. ASSUME NEW p \in Proc, NEW f \in Frames, SemaphoreP(p, f) PROVE SemaphoreInv'
  <2>1. /\ semval = 1 /\ semval' = 0
        /\ semadj' = [semadj EXCEPT ![p] = 1]
    <3>1. semval = 1 => semadj[p] = 0
      BY Zenon, SemaphoreRange
    <3>2. semval = 1
      BY <1>2, <1>at DEF SemaphoreP
    <3> QED BY <3>1, <3>2, <1>2, <1>at DEF SemaphoreP
  <2>2. \A q \in Proc, g \in Frames : ~Holds(q, g)
    BY <1>0, <2>1 DEF SemaphoreInv
  <2>3. \A q \in Proc, g \in Frames : Holds(q, g)' <=> (q = p /\ g = f)
    BY <1>2, <1>at, <1>fr, <2>2 DEF SemaphoreP, Holds
  <2>4. \A q \in Proc : semadj'[q] = 1 <=> q = p
    BY <1>at, <1>0, <2>1, <2>2 DEF SemaphoreInv
  <2> QED BY <2>1, <2>3, <2>4 DEF SemaphoreInv
<1>rel. ASSUME NEW p \in Proc, NEW f \in Frames, Holds(p, f),
               semval' = semval + 1, semadj' = [semadj EXCEPT ![p] = @ - 1],
               \A q \in Proc, g \in Frames :
                 Holds(q, g)' <=> Holds(q, g) /\ <<q, g>> # <<p, f>>
        PROVE  SemaphoreInv'
  <2>1. semval = 0 /\ semadj[p] = 1
    BY Zenon, <1>rel, HolderFacts
  <2>2. \A q \in Proc, g \in Frames : ~Holds(q, g)'
    BY <1>rel, <1>0 DEF SemaphoreInv
  <2>3. semval' = 1 /\ \A q \in Proc : semadj'[q] # 1
    BY <1>rel, <1>0, <1>at, <2>1 DEF SemaphoreInv
  <2> QED BY <2>2, <2>3 DEF SemaphoreInv
<1>3. ASSUME NEW p \in Proc, SemaphoreV(p) PROVE SemaphoreInv'
  <2>1. Holds(p, "main") /\ Entry(sec[p]) \notin Inside
    BY <1>3, <1>fr DEF SemaphoreV, Holds, Entry
  <2>2. \A q \in Proc, g \in Frames :
          Holds(q, g)' <=> Holds(q, g) /\ <<q, g>> # <<p, "main">>
    BY <1>3, <1>at, <1>fr, <2>1 DEF SemaphoreV, Holds
  <2> QED BY <1>3, <1>fr, <1>rel, <2>1, <2>2 DEF SemaphoreV
<1>4. ASSUME NEW p \in Proc, NEW s \in Signals, HandlerV(p, s) PROVE SemaphoreInv'
  <2>1. Holds(p, s)
    BY <1>4, <1>fr DEF HandlerV, Holds
  <2>2. \A q \in Proc, g \in Frames :
          Holds(q, g)' <=> Holds(q, g) /\ <<q, g>> # <<p, s>>
    BY <1>4, <1>at, <1>fr, <2>1 DEF HandlerV, Holds
  <2>3. s \in Frames /\ semval' = semval + 1 /\ semadj' = [semadj EXCEPT ![p] = @ - 1]
    BY <1>4, <1>fr DEF HandlerV
  <2> QED BY Zenon, <1>rel, <2>1, <2>2, <2>3
<1>5. ASSUME NEW p \in Proc, NEW s \in Signals, Deliver(p, s) PROVE SemaphoreInv'
  <2>1. \A q \in Proc, f \in Frames : Holds(q, f)' <=> Holds(q, f)
    BY <1>5, <1>at, <1>fr DEF Deliver, Interrupted, Holds
  <2> QED BY <1>0, <1>5, <2>1, SameHolders DEF Deliver
<1>6. ASSUME NEW p \in Proc, Ends(p) PROVE SemaphoreInv'
  BY <1>6, SemaphoreEnd
<1>7. ASSUME NEW p \in Proc, Accepts(p) PROVE SemaphoreInv'
  <2>1. PICK id, eof : Fork(p, id, eof)
    BY Zenon, <1>7 DEF Accepts, AcceptByMaster, AcceptBySession
  <2>2. at[p]["main"] = "idle"
    BY <1>0, <2>1 DEF Fork, StackInv, Live, Ended
  <2>3. \A q \in Proc, f \in Frames : Holds(q, f)' <=> Holds(q, f)
    BY <1>at, <1>fr, <2>1, <2>2 DEF Fork, Holds
  <2> QED BY <1>0, <2>1, <2>3, SameHolders DEF Fork
<1>8. ASSUME NEW p \in Proc, Kill(p) PROVE SemaphoreInv'
  <2> DEFINE next == IF sec[p] = "kill" THEN AfterTarget(p) ELSE "prompt"
             hit == p \in Targets(idx[p])
  <2>1. Entry(next) \notin Inside
    BY <1>fr DEF Entry
  <2>2. /\ at[p]["main"] = "go" /\ run[p] = "main" /\ UNCHANGED kernel
        /\ at' = [at EXCEPT ![p]["main"] = Entry(next),
                            ![p]["USR1"] = IF hit THEN "P" ELSE @]
    BY <1>8 DEF Kill
  <2>3. at[p]["USR1"] = "idle"
    BY <1>0, <1>fr, <2>2 DEF StackInv, StackOf
  <2> HIDE DEF next, hit
  <2>4. \A q \in Proc, f \in Frames : Holds(q, f)' <=> Holds(q, f)
    BY <1>at, <1>fr, <2>1, <2>2, <2>3 DEF Holds
  <2> QED BY <1>0, <2>2, <2>4, SameHolders
<1>9. CASE UNCHANGED vars
  <2>1. \A q \in Proc, f \in Frames : Holds(q, f)' <=> Holds(q, f)
    BY <1>9 DEF vars, Holds
  <2> QED BY <1>0, <1>9, <2>1, SameHolders DEF vars
<1> QED
  BY Zenon, <1>1, <1>2, <1>3, <1>4, <1>5, <1>6, <1>7, <1>8, <1>9, NextCases

LEMMA ControlInit == Init => ControlInv
<1> SUFFICES ASSUME Init PROVE ControlInv
  OBVIOUS
<1>1. TypeOK
  <2>1. at \in [Proc -> [Frames -> Positions]] /\ run \in [Proc -> Frames]
    BY PositionLabels DEF Init, Quiet
  <2>2. clientset \in [Slots -> Client]
    BY DEF Init, EmptyClient, Client
  <2>3. saved \in [Proc -> [Signals -> Frames \cup {"none"}]]
    BY DEF Init, NotSaved
  <2>4. sec \in [Proc -> Sections]
    BY DEF Init, Sections, Ended
  <2> QED BY <2>1, <2>2, <2>3, <2>4 DEF Init, TypeOK, Slots
<1>2. StackInv
  BY PositionLabels DEF Init, StackInv, StackOf, Quiet, Live, Ended
<1>3. SemaphoreInv
  BY DEF Init, SemaphoreInv, Holds, Quiet, Inside
<1> QED BY <1>1, <1>2, <1>3 DEF ControlInv

LEMMA ControlNext == ControlInv /\ [Next]_vars => ControlInv'
BY Zenon, TypeInductive, StackInductive, SemaphoreInductive DEF ControlInv

\* A process may end at any instant.
LEMMA ControlEnd ==
  ASSUME ControlInv, NEW p \in Proc, Ends(p)
  PROVE  ControlInv'
BY Zenon, KernelType, StackEnd, SemaphoreEnd DEF ControlInv

LEMMA ControlAlways == Spec => []ControlInv
BY PTL, ControlInit, ControlNext DEF Spec

\* Every state reachable by the server is well typed: no section is left or
\* entered in a position, and no handler returns to a frame, that the code
\* does not have.
THEOREM TypeCorrect == Spec => []TypeOK
BY PTL, ControlAlways DEF ControlInv

\* Whatever the number of sessions and the interleaving of their signals,
\* logins, exits and deaths, the semaphore is down exactly while one frame of
\* one process is between Semaphore_P and Semaphore_V, and SEM_UNDO of that
\* process restores it.
THEOREM SemaphoreCorrect == Spec => []SemaphoreInv
BY PTL, ControlAlways DEF ControlInv
=============================================================================
