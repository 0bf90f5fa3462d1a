---------------------------- MODULE UserPipesProofs ----------------------------
(***************************************************************************)
(* Proofs about UserPipes, for any number of sessions, slots and commands. *)
(*                                                                         *)
(* The lower layer is about the semaphore: who counts as holding it, with  *)
(* the path of FromTest that forgets Semaphore_V and the children that     *)
(* take it.  The upper layer is about the entries of user_pipe_from and    *)
(* the paths under user_pipe: each belongs to one command in execution.    *)
(***************************************************************************)
EXTENDS UserPipes, MultiServerProofs

USE NAssumption, ProcAssumption, ArgumentsAssumption

-----------------------------------------------------------------------------
(* Types.                                                                  *)

ChildPhases == {"none", "P", "input", "V", "output", "exec"}
PipeSections == Sections \cup {"mkfifo", "usr2", "open", "fork", "wait"}
CmdType == [from : Froms \cup {NotGiven}, to : Tos \cup {NotGiven},
            pipe_from : BOOLEAN, pipe_to : BOOLEAN]

\* A session has a slot, and a receiver in the sections that mark it.
Given ==
  \A p \in Proc :
    /\ Live(p) => userid[p] # 0
    /\ \/ sec[p] \in {"To", "mkfifo"}
       \/ sec[p] \in {"Broadcast", "kill"} /\ ret[p] = "To"
       => cmd[p].to \in Slots

PipesTypeInv ==
  /\ PipesTypeOK
  /\ semval \in 0..1
  /\ semadj \in [Proc -> 0..1]
  /\ userid \in [Proc -> 0..N]
  /\ sec \in [Proc -> PipeSections]
  /\ ret \in [Proc -> {"prompt", "To", "fork"}]
  /\ Given

\* The semaphore and its undo values agree with what frames and children do.
\* A process that leaked the semaphore has it without a frame inside.
ExclusionInv ==
  /\ \A p \in Proc, f \in Frames : Holds(p, f) => semadj[p] = 1
  /\ \A p \in Proc, f, g \in Frames : Holds(p, f) /\ Holds(p, g) => f = g
  /\ \A p, q \in Proc : semadj[p] = 1 /\ semadj[q] = 1 => p = q
  /\ \A p, q \in Proc : ~(semadj[p] = 1 /\ ChildHolds(q))
  /\ \A p, q \in Proc : ChildHolds(p) /\ ChildHolds(q) => p = q
  /\ semval = 1 <=> \A p \in Proc : semadj[p] = 0 /\ ~ChildHolds(p)

\* A child exists only while its session waits for it, or has ended.
ChildInv == \A p \in Proc : child[p] # "none" => sec[p] \in {"Close", "wait", "dead"}

\* A session knows its slot, and no two have the same.
SlotInv ==
  /\ \A p \in Proc : Live(p) => userid[p] = slot[p]
  /\ \A p, q \in Proc : slot[p] = slot[q] => p = q

LockInv == PipesTypeInv /\ ExclusionInv /\ ChildInv

\* What CloseFaults and NumberThrows do.
SessionEnds(p) == Live(p) /\ End(p) /\ UNCHANGED <<clientset, pipes, command>>

LEMMA StepCases ==
  ASSUME [PipesNext]_pvars
  PROVE  \/ \E p \in Proc :
              \/ Shared(p)
              \/ FromTest(p) \/ ToTest(p) \/ MakeFifo(p) \/ KillPipe(p)
              \/ ForkCommand(p) \/ CloseTest(p) \/ WaitChild(p)
              \/ \E j \in Slots : OpenMissing(p, j) \/ \E w \in Proc : OpenPipe(p, w, j)
              \/ OpenDone(p) \/ ReadPipeCommand(p)
              \/ SessionEnds(p)
              \/ ChildP(p) \/ ChildInput(p) \/ ChildFaults(p) \/ ChildV(p)
              \/ ChildOutput(p) \/ ChildEnds(p)
         \/ UNCHANGED pvars
<1> SUFFICES ASSUME NEW p \in Proc, CloseFaults(p) \/ NumberThrows(p)
             PROVE  SessionEnds(p)
  BY Zenon DEF PipesNext, PipeStep, ChildStep
<1> QED BY DEF CloseFaults, NumberThrows, SessionEnds, At, Runs, pipes

LEMMA PipeSectionLabels ==
  /\ Locking \cup {"kill", "tellkill", "prompt", "dead"}
       \cup {"mkfifo", "usr2", "open", "fork", "wait", "acceptor"} \subseteq PipeSections
  /\ {"To", "From", "Broadcast", "Close"} \subseteq Locking
BY DEF PipeSections, Sections, Locking, Free, Ended

LEMMA EntryPosition == \A s : Entry(s) \in Positions \ (Inside \cup {"idle"})
BY DEF Entry, Positions, Inside

LEMMA EntryUpdates ==
  ASSUME NEW S, NEW f \in [Slots -> [Slots -> S]], NEW i, NEW j, NEW a \in S
  PROVE  [f EXCEPT ![i][j] = a] \in [Slots -> [Slots -> S]]
OBVIOUS

LEMMA MailboxUpdates ==
  ASSUME clientset \in [Slots -> PipeClient], NEW i, NEW m \in BOOLEAN
  PROVE  [clientset EXCEPT ![i].msg = m] \in [Slots -> PipeClient]
<1>1. \A c \in PipeClient : [c EXCEPT !.msg = m] \in PipeClient
  BY DEF PipeClient
<1> QED BY <1>1

LEMMA EndTypes ==
  ASSUME PipesTypeInv, ExclusionInv, NEW p \in Proc, End(p),
         UNCHANGED <<clientset, pipes, command>>
  PROVE  PipesTypeInv'
<1> USE DEF Live, Ended, kernel, control, locals, input, pipes, command, entries
<1>0. /\ at \in [Proc -> [Frames -> Positions]]
      /\ semval \in 0..1 /\ semadj \in [Proc -> 0..1]
      /\ sec \in [Proc -> PipeSections] /\ ret \in [Proc -> {"prompt", "To", "fork"}]
      /\ idx \in [Proc -> Slots] /\ userid \in [Proc -> 0..N]
  BY DEF PipesTypeInv, PipesTypeOK
<1>1. at' \in [Proc -> [Frames -> Positions]]
  BY <1>0, PositionLabels DEF End, Quiet
<1>2. semval' \in 0..1 /\ semadj' \in [Proc -> 0..1]
  BY <1>0 DEF End, ExclusionInv
<1>3. sec' \in [Proc -> PipeSections] /\ ret' \in [Proc -> {"prompt", "To", "fork"}]
  BY <1>0, PipeSectionLabels DEF End
<1>4. idx' \in [Proc -> Slots] /\ userid' \in [Proc -> 0..N]
  BY <1>0 DEF End, Slots
<1>5. Given'
  BY <1>0 DEF End, Given, PipesTypeInv
<1> QED BY <1>1, <1>2, <1>3, <1>4, <1>5 DEF PipesTypeInv, PipesTypeOK

LEMMA SharedTypes ==
  ASSUME PipesTypeInv, ExclusionInv, NEW p \in Proc, Shared(p)
  PROVE  PipesTypeInv'
<1> USE DEF Live, Ended, Runs, kernel, control, locals, input, pipes, command, entries
<1>at. at \in [Proc -> [Frames -> Positions]]
  BY DEF PipesTypeInv, PipesTypeOK
<1>sem. semval \in 0..1 /\ semadj \in [Proc -> 0..1]
  BY DEF PipesTypeInv
<1>sec. sec \in [Proc -> PipeSections] /\ ret \in [Proc -> {"prompt", "To", "fork"}]
  BY DEF PipesTypeInv
<1>idx. idx \in [Proc -> Slots] /\ clientset \in [Slots -> PipeClient]
  BY DEF PipesTypeInv, PipesTypeOK
<1>1. ASSUME NEW f \in Frames, SemaphoreP(p, f) PROVE PipesTypeInv'
  <2>1. at' \in [Proc -> [Frames -> Positions]]
    BY <1>1, <1>at, PositionLabels DEF SemaphoreP
  <2>2. semval' \in 0..1 /\ semadj' \in [Proc -> 0..1]
    BY <1>1, <1>sem DEF SemaphoreP, ExclusionInv
  <2> QED
    BY <1>1, <2>1, <2>2 DEF SemaphoreP, Shared, PipesTypeInv, PipesTypeOK, Given
<1>2. ASSUME NEW f \in Frames, SemaphoreWait(p, f) PROVE PipesTypeInv'
  <2>1. at' \in [Proc -> [Frames -> Positions]]
    BY <1>2, <1>at, PositionLabels DEF SemaphoreWait
  <2> QED
    BY <1>2, <2>1 DEF SemaphoreWait, Shared, PipesTypeInv, PipesTypeOK, Given
<1>3. CASE SemaphoreV(p)
  <2>1. at' \in [Proc -> [Frames -> Positions]]
    BY <1>3, <1>at, EntryPosition DEF SemaphoreV
  <2>2. Holds(p, "main")
    BY <1>3 DEF SemaphoreV, Holds, Inside
  <2>3. semval' \in 0..1 /\ semadj' \in [Proc -> 0..1]
    BY <1>3, <2>2, <1>sem, PositionLabels DEF SemaphoreV, ExclusionInv
  <2> QED
    BY <1>3, <2>1, <2>3 DEF SemaphoreV, Shared, PipesTypeInv, PipesTypeOK, Given
<1>4. ASSUME NEW s \in Signals, HandlerV(p, s) PROVE PipesTypeInv'
  <2>1. at' \in [Proc -> [Frames -> Positions]]
    BY <1>4, <1>at, PositionLabels DEF HandlerV
  <2>2. Holds(p, s)
    BY <1>4 DEF HandlerV, Holds, Inside
  <2>3. semval' \in 0..1 /\ semadj' \in [Proc -> 0..1]
    BY <1>4, <2>2, <1>sem, PositionLabels DEF HandlerV, ExclusionInv
  <2> QED
    BY <1>4, <2>1, <2>3 DEF HandlerV, Shared, PipesTypeInv, PipesTypeOK, Given
<1>5. ASSUME NEW s \in Signals, Deliver(p, s) PROVE PipesTypeInv'
  <2>1. at' \in [Proc -> [Frames -> Positions]]
    BY <1>5, <1>at, PositionLabels DEF Deliver, Interrupted
  <2> QED
    BY <1>5, <2>1 DEF Deliver, Shared, PipesTypeInv, PipesTypeOK, Given
<1>6. CASE SemaphoreFailed(p)
  BY <1>6, EndTypes DEF SemaphoreFailed, Shared
<1>7. CASE BroadcastTest(p)
  <2>1. at' \in [Proc -> [Frames -> Positions]]
    BY <1>7, <1>at, PositionLabels DEF BroadcastTest, Leave
  <2>2. sec' \in [Proc -> PipeSections]
    BY <1>7, <1>sec, PipeSectionLabels DEF BroadcastTest, Leave, AfterTarget
  <2>3. idx' \in [Proc -> Slots]
    BY <1>7, <1>idx DEF BroadcastTest, NextTarget, Slots
  <2>4. Given'
    BY <1>7, <1>sec DEF BroadcastTest, Leave, AfterTarget, Given, Shared, PipesTypeInv
  <2> QED
    BY <1>7, <2>1, <2>2, <2>3, <2>4 DEF BroadcastTest, Shared, PipesTypeInv, PipesTypeOK
<1>8. CASE BroadcastAct(p)
  <2>1. at' \in [Proc -> [Frames -> Positions]]
    BY <1>8, <1>at, PositionLabels DEF BroadcastAct, Post, Leave
  <2>2. sec' \in [Proc -> PipeSections]
    BY <1>8, <1>sec, PipeSectionLabels DEF BroadcastAct, Post, Leave
  <2>3. clientset' \in [Slots -> PipeClient]
    <3>1. clientset' = [clientset EXCEPT ![idx[p]].msg = TRUE]
      BY <1>8 DEF BroadcastAct, Post
    <3> QED BY <3>1, <1>idx, MailboxUpdates
  <2>4. Given'
    BY <1>8, <1>sec DEF BroadcastAct, Post, Leave, Given, Shared, PipesTypeInv
  <2> QED
    BY <1>8, <2>1, <2>2, <2>3, <2>4
    DEF BroadcastAct, Post, Shared, PipesTypeInv, PipesTypeOK
<1>9. CASE Kill(p)
  <2>1. at' \in [Proc -> [Frames -> Positions]]
    BY <1>9, <1>at, PositionLabels, EntryPosition DEF Kill
  <2>2. sec' \in [Proc -> PipeSections]
    BY <1>9, <1>sec, PipeSectionLabels DEF Kill, AfterTarget
  <2>3. idx' \in [Proc -> Slots]
    BY <1>9, <1>idx DEF Kill, NextTarget, Slots
  <2>4. Given'
    BY <1>9, <1>sec DEF Kill, AfterTarget, Given, Shared, PipesTypeInv
  <2> QED
    BY <1>9, <2>1, <2>2, <2>3, <2>4 DEF Kill, Shared, PipesTypeInv, PipesTypeOK
<1>10. CASE PrintTest(p)
  <2>1. at' \in [Proc -> [Frames -> Positions]]
    BY <1>10, <1>at, PositionLabels DEF PrintTest
  <2> QED
    BY <1>10, <2>1 DEF PrintTest, Shared, PipesTypeInv, PipesTypeOK, Given
<1>11. CASE PrintAct(p)
  <2>1. at' \in [Proc -> [Frames -> Positions]]
    BY <1>11, <1>at, PositionLabels DEF PrintAct
  <2>2. clientset' \in [Slots -> PipeClient]
    <3>1. clientset' = [clientset EXCEPT ![userid[p]].msg = FALSE]
      BY <1>11 DEF PrintAct
    <3> QED BY <3>1, <1>idx, MailboxUpdates
  <2> QED
    BY <1>11, <2>1, <2>2 DEF PrintAct, Shared, PipesTypeInv, PipesTypeOK, Given
<1>12. CASE EndOfInput(p)
  <2>1. sec' \in [Proc -> PipeSections]
    BY <1>12, <1>sec, PipeSectionLabels DEF EndOfInput
  <2>2. Given'
    BY <1>12, <1>sec DEF EndOfInput, Given, Shared, PipesTypeInv
  <2> QED
    BY <1>12, <2>1, <2>2 DEF EndOfInput, Shared, PipesTypeInv, PipesTypeOK
<1> QED
  BY <1>1, <1>2, <1>3, <1>4, <1>5, <1>6, <1>7, <1>8, <1>9, <1>10, <1>11, <1>12
  DEF Shared

\* What the actions of commands and children do to the frames: the main program
\* or the handler of SIGUSR2 moves, and enters no section.
Moves(q, f, a) ==
  /\ at' = [at EXCEPT ![q][f] = a]
  /\ a \in Positions /\ (a \in Inside => at[q][f] \in Inside)

LEMMA CommandMoves ==
  ASSUME PipesTypeInv, NEW p \in Proc,
         \/ FromTest(p) \/ ToTest(p) \/ KillPipe(p)
         \/ ForkCommand(p) \/ CloseTest(p) \/ OpenDone(p) \/ ReadPipeCommand(p)
         \/ \E j \in Slots, w \in Proc : OpenPipe(p, w, j)
  PROVE  UNCHANGED at \/ \E q \in Proc, f \in Frames, a \in Positions : Moves(q, f, a)
<1> USE DEF Moves, At, Runs, Leave
<1>0. /\ \A a \in {"test", "act", "V"} : a \in Inside /\ a \in Positions
      /\ \A a \in {"P", "blocked", "go"} : a \notin Inside /\ a \in Positions
      /\ "main" \in Frames /\ "USR2" \in Frames
      /\ at \in [Proc -> [Frames -> Positions]]
  BY DEF Inside, Positions, Frames, Signals, PipesTypeInv, PipesTypeOK
<1>1. CASE FromTest(p)
  <2>1. \E a \in {"V", Entry(AfterFrom(p))} : at' = [at EXCEPT ![p]["main"] = a]
    BY <1>1 DEF FromTest
  <2>2. CASE at' = [at EXCEPT ![p]["main"] = "V"]
    <3>1. Moves(p, "main", "V")
      BY <1>1, <2>2, <1>0 DEF FromTest
    <3> QED BY <3>1, <1>0
  <2>3. CASE at' = [at EXCEPT ![p]["main"] = Entry(AfterFrom(p))]
    <3>1. Moves(p, "main", Entry(AfterFrom(p)))
      BY <2>3, EntryPosition
    <3> QED BY <3>1, <1>0, EntryPosition
  <2> QED BY <2>1, <2>2, <2>3
<1>2. CASE ToTest(p) \/ CloseTest(p)
  BY <1>2, <1>0 DEF ToTest, CloseTest
<1>3. CASE KillPipe(p)
  <2>1. at' = [at EXCEPT ![p]["USR2"] = "P"] \/ at' = [at EXCEPT ![p]["USR2"] = @]
    BY <1>3 DEF KillPipe
  <2>2. at' = [at EXCEPT ![p]["USR2"] = "P"] \/ at' = at
    BY <2>1, <1>0
  <2> QED BY <2>2, <1>0
<1>4. CASE ForkCommand(p)
  BY <1>4, <1>0 DEF ForkCommand
<1>5. CASE OpenDone(p)
  <2>1. Moves(p, "USR2", "V")
    BY <1>5, <1>0 DEF OpenDone
  <2> QED BY <2>1, <1>0
<1>6. CASE ReadPipeCommand(p)
  <2>1. \E s \in {"From", "To", "fork"} : at' = [at EXCEPT ![p]["main"] = Entry(s)]
    BY <1>6 DEF ReadPipeCommand
  <2> QED BY <2>1, <1>0, EntryPosition
<1>7. ASSUME NEW j \in Slots, NEW w \in Proc, OpenPipe(p, w, j)
      PROVE  \E q \in Proc, f \in Frames, a \in Positions : Moves(q, f, a)
  BY <1>7, <1>0 DEF OpenPipe, Opening
<1> QED BY <1>1, <1>2, <1>3, <1>4, <1>5, <1>6, <1>7

LEMMA FieldUpdates ==
  ASSUME cmd \in [Proc -> CmdType],
         NEW p \in Proc,
         \/ UNCHANGED cmd
         \/ cmd' = [cmd EXCEPT ![p].pipe_from = FALSE]
         \/ cmd' = [cmd EXCEPT ![p].pipe_to = FALSE]
  PROVE  cmd' \in [Proc -> CmdType]
<1>1. CASE UNCHANGED cmd
  BY <1>1
<1>2. CASE cmd' = [cmd EXCEPT ![p].pipe_from = FALSE]
  BY <1>2 DEF CmdType
<1>3. CASE cmd' = [cmd EXCEPT ![p].pipe_to = FALSE]
  BY <1>3 DEF CmdType
<1> QED BY <1>1, <1>2, <1>3

LEMMA CommandTypes ==
  ASSUME PipesTypeInv, ExclusionInv, NEW p \in Proc,
         \/ FromTest(p) \/ ToTest(p) \/ MakeFifo(p) \/ KillPipe(p)
         \/ ForkCommand(p) \/ CloseTest(p) \/ WaitChild(p) \/ OpenDone(p)
         \/ \E j \in Slots : OpenMissing(p, j) \/ \E w \in Proc : OpenPipe(p, w, j)
         \/ ReadPipeCommand(p)
  PROVE  PipesTypeInv'
<1> USE DEF Live, Ended, At, Runs, kernel, control, locals, input, pipes, command,
            entries
<1>at. at \in [Proc -> [Frames -> Positions]]
  BY DEF PipesTypeInv, PipesTypeOK
<1>sec. sec \in [Proc -> PipeSections] /\ ret \in [Proc -> {"prompt", "To", "fork"}]
  BY DEF PipesTypeInv
<1>idx. idx \in [Proc -> Slots] /\ userid \in [Proc -> 0..N] /\ 1 \in Slots
  BY DEF PipesTypeInv, PipesTypeOK, Slots
<1>cmd. cmd \in [Proc -> CmdType]
  BY DEF PipesTypeInv, PipesTypeOK, CmdType
<1>pipes. /\ user_pipe_from \in [Slots -> [Slots -> Marks]]
          /\ fd_table \in [Slots -> [Slots -> BOOLEAN]]
          /\ fifo \subseteq Slots \X Slots
  BY DEF PipesTypeInv, PipesTypeOK
<1>child. /\ target \in [Proc -> Proc \cup {NoProc, Everybody}]
          /\ child \in [Proc -> ChildPhases]
          /\ clientset \in [Slots -> PipeClient]
  BY DEF PipesTypeInv, PipesTypeOK, ChildPhases
<1>moved. ASSUME \/ UNCHANGED at
                 \/ \E q \in Proc, f \in Frames, a \in Positions : Moves(q, f, a)
          PROVE  at' \in [Proc -> [Frames -> Positions]]
  BY <1>moved, <1>at DEF Moves
<1>1. CASE FromTest(p)
  <2>1. sec' \in [Proc -> PipeSections]
    BY <1>1, <1>sec, PipeSectionLabels DEF FromTest, AfterFrom, Leave
  <2>2. idx' \in [Proc -> Slots] /\ ret' \in [Proc -> {"prompt", "To", "fork"}]
    BY <1>1, <1>idx, <1>sec DEF FromTest, AfterFrom
  <2>3. cmd' \in [Proc -> CmdType]
    <3>1. UNCHANGED cmd \/ cmd' = [cmd EXCEPT ![p].pipe_from = FALSE]
      BY <1>1 DEF FromTest
    <3> QED BY <3>1, <1>cmd, FieldUpdates
  <2>4. Given'
    <3>1. UNCHANGED cmd \/ cmd' = [cmd EXCEPT ![p].pipe_from = FALSE]
      BY <1>1 DEF FromTest
    <3>2. \A q \in Proc : cmd'[q].to = cmd[q].to
      BY <3>1, <1>cmd DEF CmdType
    <3>3. /\ UNCHANGED userid /\ sec[p] = "From"
          /\ \/ /\ sec' = [sec EXCEPT ![p] = "Broadcast"]
                /\ ret' = [ret EXCEPT ![p] = AfterFrom(p)]
             \/ sec' = [sec EXCEPT ![p] = AfterFrom(p)] /\ UNCHANGED ret
      BY <1>1 DEF FromTest, Leave
    <3>4. \/ AfterFrom(p) = "To" /\ cmd[p].to \in Slots
          \/ AfterFrom(p) = "fork"
      BY DEF AfterFrom
    <3> QED BY <3>2, <3>3, <3>4, <1>sec DEF Given, PipesTypeInv
  <2> QED
    BY <1>1, <1>moved, CommandMoves, <2>1, <2>2, <2>3, <2>4
    DEF FromTest, PipesTypeInv, PipesTypeOK, CmdType
<1>2. CASE ToTest(p)
  <2>1. sec' \in [Proc -> PipeSections]
    BY <1>2, <1>sec, PipeSectionLabels DEF ToTest, Leave
  <2>2. user_pipe_from' \in [Slots -> [Slots -> Marks]]
    <3>1. \/ user_pipe_from' = user_pipe_from
          \/ user_pipe_from' = [user_pipe_from EXCEPT ![cmd[p].to][userid[p]] = "marked"]
      BY <1>2 DEF ToTest
    <3>2. "marked" \in Marks
      BY DEF Marks
    <3>3. [user_pipe_from EXCEPT ![cmd[p].to][userid[p]] = "marked"]
            \in [Slots -> [Slots -> Marks]]
      BY <3>2, <1>pipes, EntryUpdates
    <3> QED BY <3>1, <3>3, <1>pipes
  <2>3. cmd' \in [Proc -> CmdType]
    <3>1. UNCHANGED cmd \/ cmd' = [cmd EXCEPT ![p].pipe_to = FALSE]
      BY <1>2 DEF ToTest
    <3> QED BY <3>1, <1>cmd, FieldUpdates
  <2>4. Given'
    BY <1>2, <1>sec, <1>cmd DEF ToTest, Leave, Given, PipesTypeInv
  <2>5. target' \in [Proc -> Proc \cup {NoProc, Everybody}]
    <3>1. sec[p] = "To" /\ Given
      BY <1>2 DEF ToTest, PipesTypeInv
    <3>2. cmd[p].to \in Slots
      BY <3>1 DEF Given
    <3>3. clientset[cmd[p].to].pid \in Proc \cup {NoProc, Everybody}
      BY <3>2, <1>child DEF PipeClient
    <3> QED BY <1>2, <3>3, <1>child DEF ToTest
  <2> QED
    BY <1>2, <1>moved, CommandMoves, <2>1, <2>2, <2>3, <2>4, <2>5
    DEF ToTest, PipesTypeInv, PipesTypeOK, CmdType
<1>3. CASE MakeFifo(p)
  <2>1. sec' \in [Proc -> PipeSections]
    BY <1>3, <1>sec, PipeSectionLabels DEF MakeFifo
  <2>2. Given'
    BY <1>3, <1>sec DEF MakeFifo, Given, PipesTypeInv
  <2>3. fifo' \subseteq Slots \X Slots
    <3>0. sec[p] = "mkfifo" /\ Given
      BY <1>3 DEF MakeFifo, PipesTypeInv
    <3>1. cmd[p].to \in Slots /\ userid[p] # 0
      BY <3>0 DEF Given
    <3>3. cmd[p].to \in Slots /\ userid[p] \in Slots
      BY <3>1, <1>idx DEF Slots
    <3> QED BY <1>3, <3>3, <1>pipes DEF MakeFifo
  <2> QED BY <1>3, <2>1, <2>2, <2>3 DEF MakeFifo, PipesTypeInv, PipesTypeOK
<1>4. CASE KillPipe(p)
  <2>1. sec' \in [Proc -> PipeSections]
    BY <1>4, <1>sec, PipeSectionLabels DEF KillPipe
  <2>2. Given'
    BY <1>4, <1>sec DEF KillPipe, Given, PipesTypeInv
  <2> QED
    BY <1>4, <1>moved, CommandMoves, <2>1, <2>2 DEF KillPipe, PipesTypeInv, PipesTypeOK
<1>5. CASE ForkCommand(p)
  <2>1. sec' \in [Proc -> PipeSections]
    BY <1>5, <1>sec, PipeSectionLabels DEF ForkCommand
  <2>2. child' \in [Proc -> ChildPhases]
    BY <1>5, <1>child DEF ForkCommand, ChildPhases
  <2>3. Given'
    BY <1>5, <1>sec DEF ForkCommand, Given, PipesTypeInv
  <2> QED
    BY <1>5, <1>moved, CommandMoves, <2>1, <2>2, <2>3
    DEF ForkCommand, PipesTypeInv, PipesTypeOK, ChildPhases
<1>6. CASE CloseTest(p)
  <2>1. sec' \in [Proc -> PipeSections]
    BY <1>6, <1>sec, PipeSectionLabels DEF CloseTest, Leave
  <2>2. Given'
    BY <1>6, <1>sec DEF CloseTest, Leave, Given, PipesTypeInv
  <2> QED
    BY <1>6, <1>moved, CommandMoves, <2>1, <2>2 DEF CloseTest, PipesTypeInv, PipesTypeOK
<1>7. CASE WaitChild(p)
  <2>1. sec' \in [Proc -> PipeSections]
    BY <1>7, <1>sec, PipeSectionLabels DEF WaitChild
  <2>2. Given'
    BY <1>7, <1>sec DEF WaitChild, Given, PipesTypeInv
  <2> QED BY <1>7, <2>1, <2>2 DEF WaitChild, PipesTypeInv, PipesTypeOK
<1>8. CASE OpenDone(p)
  BY <1>8, <1>moved, CommandMoves DEF OpenDone, PipesTypeInv, PipesTypeOK, Given
<1>9. ASSUME NEW j \in Slots, OpenMissing(p, j) PROVE PipesTypeInv'
  <2>1. /\ user_pipe_from' \in [Slots -> [Slots -> Marks]]
        /\ fd_table' \in [Slots -> [Slots -> BOOLEAN]]
    BY <1>9, <1>pipes DEF OpenMissing, Marks
  <2> QED BY <1>9, <2>1 DEF OpenMissing, vars, PipesTypeInv, PipesTypeOK, Given
<1>10. ASSUME NEW j \in Slots, NEW w \in Proc, OpenPipe(p, w, j) PROVE PipesTypeInv'
  <2>1. /\ user_pipe_from' \in [Slots -> [Slots -> Marks]]
        /\ fd_table' \in [Slots -> [Slots -> BOOLEAN]]
    BY <1>10, <1>pipes DEF OpenPipe, Marks
  <2>2. /\ sec' \in [Proc -> PipeSections] /\ idx' \in [Proc -> Slots]
        /\ ret' \in [Proc -> {"prompt", "To", "fork"}]
    BY <1>10, <1>sec, <1>idx, PipeSectionLabels DEF OpenPipe
  <2>3. Given'
    BY <1>10, <1>sec DEF OpenPipe, Opening, Given, PipesTypeInv
  <2> QED
    BY <1>10, <1>moved, CommandMoves, <2>1, <2>2, <2>3
    DEF OpenPipe, PipesTypeInv, PipesTypeOK
<1>11. CASE ReadPipeCommand(p)
  <2>1. PICK f \in Froms, t \in Tos :
          /\ cmd' = [cmd EXCEPT ![p] = [from |-> f, to |-> t,
                                        pipe_from |-> TRUE, pipe_to |-> TRUE]]
          /\ sec' = [sec EXCEPT ![p] = IF f \in Slots THEN "From"
                                       ELSE IF t \in Slots THEN "To" ELSE "fork"]
    BY <1>11 DEF ReadPipeCommand
  <2>2. cmd' \in [Proc -> CmdType]
    BY <2>1, <1>cmd DEF CmdType
  <2>3. sec' \in [Proc -> PipeSections]
    BY <2>1, <1>sec, PipeSectionLabels
  <2>4. Given'
    BY <1>11, <2>1, <1>sec, <1>cmd DEF ReadPipeCommand, Given, PipesTypeInv
  <2> QED
    BY <1>11, <1>moved, CommandMoves, <2>2, <2>3, <2>4
    DEF ReadPipeCommand, PipesTypeInv, PipesTypeOK, CmdType
<1> QED
  BY <1>1, <1>2, <1>3, <1>4, <1>5, <1>6, <1>7, <1>8, <1>9, <1>10, <1>11

LEMMA ChildTypes ==
  ASSUME PipesTypeInv, ExclusionInv, NEW p \in Proc,
         \/ ChildP(p) \/ ChildInput(p) \/ ChildFaults(p) \/ ChildV(p)
         \/ ChildOutput(p) \/ ChildEnds(p)
  PROVE  PipesTypeInv'
<1> USE DEF Live, kernel, control, locals, input, pipes, command, entries
<1>child. child \in [Proc -> ChildPhases] /\ semval \in 0..1
  BY DEF PipesTypeInv, PipesTypeOK, ChildPhases
<1>1. child' \in [Proc -> ChildPhases]
  BY <1>child
  DEF ChildP, ChildInput, ChildFaults, ChildV, ChildOutput, ChildEnds, vars, ChildPhases
<1>2. semval' \in 0..1
  <2>1. CASE ChildV(p) \/ ChildFaults(p)
    <3>1. ChildHolds(p)
      BY <2>1 DEF ChildV, ChildFaults, ChildHolds
    <3>2. semval = 0 /\ semval' = semval + 1
      BY <2>1, <3>1, <1>child DEF ChildV, ChildFaults, ExclusionInv
    <3> QED BY <3>2
  <2>2. CASE ChildP(p)
    BY <2>2, <1>child DEF ChildP
  <2>3. CASE ChildInput(p) \/ ChildOutput(p) \/ ChildEnds(p)
    BY <2>3, <1>child DEF ChildInput, ChildOutput, ChildEnds, vars
  <2> QED BY <2>1, <2>2, <2>3
<1>3. /\ user_pipe_from' \in [Slots -> [Slots -> Marks]]
      /\ fd_table' \in [Slots -> [Slots -> BOOLEAN]]
      /\ clientset' \in [Slots -> PipeClient]
      /\ torn' \subseteq Slots
  <2>1. /\ user_pipe_from \in [Slots -> [Slots -> Marks]]
        /\ fd_table \in [Slots -> [Slots -> BOOLEAN]]
        /\ clientset \in [Slots -> PipeClient]
        /\ torn \subseteq Slots
    BY DEF PipesTypeInv, PipesTypeOK
  <2>2. CASE ~ChildInput(p)
    BY <2>1, <2>2 DEF ChildP, ChildFaults, ChildV, ChildOutput, ChildEnds, vars
  <2>3. CASE ChildInput(p)
    <3>1. torn' \subseteq Slots
      BY <2>1, <2>3 DEF ChildInput
    <3>2. fd_table' \in [Slots -> [Slots -> BOOLEAN]]
      BY <2>1, <2>3 DEF ChildInput
    <3>3. "nothing" \in Marks
      BY DEF Marks
    <3>4. user_pipe_from' \in [Slots -> [Slots -> Marks]]
      BY <2>1, <2>3, <3>3 DEF ChildInput
    <3>5. \A c \in PipeClient, u, m \in BOOLEAN, q \in Proc \cup {NoProc, Everybody} :
            [c EXCEPT !.used = u, !.pid = q, !.msg = m] \in PipeClient
      BY DEF PipeClient
    <3>6. ASSUME NEW i \in Slots
          PROVE  [clientset[i] EXCEPT
                    !.used = @ \/ Used(i) \in Written(p),
                    !.pid = IF Pid(i) \in Written(p) THEN Everybody ELSE @,
                    !.msg = @ \/ Msg(i) \in Written(p)] \in PipeClient
      <4>1. clientset[i] \in PipeClient
        BY <2>1
      <4>2. /\ (clientset[i].used \/ Used(i) \in Written(p)) \in BOOLEAN
            /\ (clientset[i].msg \/ Msg(i) \in Written(p)) \in BOOLEAN
            /\ clientset[i].pid \in Proc \cup {NoProc, Everybody}
        BY <4>1 DEF PipeClient
      <4> QED BY <4>1, <4>2, <3>5
    <3>7. clientset' \in [Slots -> PipeClient]
      BY <2>3, <3>6 DEF ChildInput
    <3> QED BY <3>1, <3>2, <3>4, <3>7
  <2> QED BY <2>2, <2>3
<1>4. fifo' \subseteq Slots \X Slots
  BY DEF ChildP, ChildInput, ChildFaults, ChildV, ChildOutput, ChildEnds, vars,
         PipesTypeInv, PipesTypeOK
<1>5. at' \in [Proc -> [Frames -> Positions]]
  <2>1. at \in [Proc -> [Frames -> Positions]]
    BY DEF PipesTypeInv, PipesTypeOK
  <2>2. \A a \in Positions : Interrupted(a) \in Positions
    BY DEF Interrupted, Positions
  <2>3. CASE ChildFaults(p) \/ ChildEnds(p)
    BY <2>1, <2>2, <2>3 DEF ChildFaults, ChildEnds
  <2>4. CASE ChildP(p) \/ ChildInput(p) \/ ChildV(p) \/ ChildOutput(p)
    BY <2>1, <2>4 DEF ChildP, ChildInput, ChildV, ChildOutput, vars
  <2> QED BY <2>3, <2>4
<1> QED
  BY <1>1, <1>2, <1>3, <1>4, <1>5
  DEF ChildP, ChildInput, ChildFaults, ChildV, ChildOutput, ChildEnds, vars,
      PipesTypeInv, PipesTypeOK, Given, ChildPhases
-----------------------------------------------------------------------------
(* The semaphore.                                                          *)

\* A step that neither takes nor gives back the semaphore, and lets no frame
\* into a section.
Passive ==
  /\ UNCHANGED kernel
  /\ \A q \in Proc, f \in Frames : Holds(q, f)' => Holds(q, f)
  /\ \A q \in Proc : ChildHolds(q)' <=> ChildHolds(q)

LEMMA PassiveExclusion ==
  ASSUME ExclusionInv, Passive
  PROVE  ExclusionInv'
BY DEF ExclusionInv, Passive, kernel

LEMMA MovesPassive ==
  ASSUME PipesTypeInv, NEW q \in Proc, NEW f \in Frames, NEW a \in Positions,
         Moves(q, f, a)
  PROVE  \A r \in Proc, g \in Frames : Holds(r, g)' => Holds(r, g)
BY DEF Moves, Holds, PipesTypeInv, PipesTypeOK

LEMMA EndExclusion ==
  ASSUME LockInv, NEW p \in Proc, End(p), UNCHANGED command
  PROVE  ExclusionInv'
<1>0. /\ at \in [Proc -> [Frames -> Positions]]
      /\ semval \in 0..1 /\ semadj \in [Proc -> 0..1] /\ ExclusionInv
      /\ \A q \in Proc : ChildHolds(q)' <=> ChildHolds(q)
  BY DEF LockInv, PipesTypeInv, PipesTypeOK, command, ChildHolds
<1>1. at' = [at EXCEPT ![p] = Quiet] /\ semadj' = [semadj EXCEPT ![p] = 0]
  BY DEF End
<1>2. \A q \in Proc, g \in Frames : Holds(q, g)' => Holds(q, g) /\ q # p
  BY <1>0, <1>1 DEF Holds, Quiet, Inside
<1>3. semval' = semval + semadj[p]
  BY DEF End
<1>4. CASE semadj[p] = 1
  <2>1. semval = 0 /\ \A q \in Proc : ~ChildHolds(q) /\ (semadj[q] = 1 <=> q = p)
    BY <1>4, <1>0 DEF ExclusionInv
  <2>2. semval' = 1 /\ \A q \in Proc : semadj'[q] = 0
    BY <2>1, <1>1, <1>3, <1>0
  <2>3. \A q \in Proc, g \in Frames : ~Holds(q, g)'
    BY <2>1, <1>2, <1>0 DEF ExclusionInv
  <2> QED BY <2>1, <2>2, <2>3, <1>0 DEF ExclusionInv
<1>5. CASE semadj[p] = 0
  <2>1. UNCHANGED <<semval, semadj>>
    BY <1>1, <1>3, <1>5, <1>0
  <2> QED BY <2>1, <1>2, <1>0, PassiveExclusion DEF Passive, kernel
<1> QED BY <1>4, <1>5, <1>0

LEMMA SharedExclusion ==
  ASSUME LockInv, NEW p \in Proc, Shared(p)
  PROVE  ExclusionInv'
<1> USE DEF Runs, kernel, control
<1>at. /\ at \in [Proc -> [Frames -> Positions]]
       /\ semval \in 0..1 /\ semadj \in [Proc -> 0..1]
       /\ ExclusionInv /\ PipesTypeInv
  BY DEF LockInv, PipesTypeInv, PipesTypeOK
<1>children. \A q \in Proc : ChildHolds(q)' <=> ChildHolds(q)
  BY DEF Shared, command, ChildHolds
<1>a. /\ \A a \in {"test", "act", "V"} : a \in Inside /\ a \in Positions
      /\ \A a \in {"P", "blocked", "eintr", "go", "idle"} : a \notin Inside /\ a \in Positions
  BY DEF Inside, Positions
<1>1. ASSUME NEW f \in Frames, SemaphoreP(p, f) PROVE ExclusionInv'
  <2>1. semval = 1 /\ \A q \in Proc : semadj[q] = 0 /\ ~ChildHolds(q)
    BY <1>1, <1>at DEF SemaphoreP, ExclusionInv
  <2>2. \A q \in Proc, g \in Frames : Holds(q, g)' <=> q = p /\ g = f
    BY <1>1, <1>at, <2>1, <1>a DEF SemaphoreP, ExclusionInv, Holds
  <2>3. semval' = 0 /\ \A q \in Proc : semadj'[q] = IF q = p THEN 1 ELSE 0
    BY <1>1, <1>at, <2>1 DEF SemaphoreP
  <2> QED BY <2>1, <2>2, <2>3, <1>children DEF ExclusionInv
<1>2. ASSUME NEW f \in Frames,
             \/ f = "main" /\ SemaphoreV(p)
             \/ f \in Signals /\ HandlerV(p, f)
      PROVE  ExclusionInv'
  <2>1. Holds(p, f) /\ semadj[p] = 1
    BY <1>2, <1>at, <1>a DEF SemaphoreV, HandlerV, ExclusionInv, Holds
  <2>2. semval = 0 /\ \A q \in Proc : ~ChildHolds(q) /\ (semadj[q] = 1 <=> q = p)
    BY <2>1, <1>at DEF ExclusionInv
  <2>3. semval' = 1 /\ \A q \in Proc : semadj'[q] = 0
    BY <1>2, <1>at, <2>2 DEF SemaphoreV, HandlerV
  <2>4. \A q \in Proc, g \in Frames : ~Holds(q, g)'
    <3>1. \E a \in Positions \ Inside : at' = [at EXCEPT ![p][f] = a]
      BY <1>2, <1>a, EntryPosition DEF SemaphoreV, HandlerV
    <3> QED BY <3>1, <2>1, <2>2, <1>at DEF Holds, ExclusionInv
  <2> QED BY <2>2, <2>3, <2>4, <1>children DEF ExclusionInv
<1>3. CASE SemaphoreFailed(p)
  BY <1>3, EndExclusion DEF SemaphoreFailed, Shared
<1>4. ASSUME NEW s \in Signals, Deliver(p, s) PROVE ExclusionInv'
  <2>1. \A q \in Proc, g \in Frames : Holds(q, g)' => Holds(q, g)
    BY <1>4, <1>at, <1>a, PositionLabels DEF Deliver, Holds, Interrupted
  <2> QED BY <1>4, <2>1, <1>children, <1>at, PassiveExclusion DEF Deliver, Passive
<1>5. CASE Kill(p)
  <2>1. \A q \in Proc, g \in Frames : Holds(q, g)' => Holds(q, g)
    BY <1>5, <1>at, <1>a, EntryPosition, PositionLabels DEF Kill, Holds
  <2> QED BY <1>5, <2>1, <1>children, <1>at, PassiveExclusion DEF Kill, Passive
<1>6. CASE BroadcastTest(p) \/ BroadcastAct(p)
  <2>1. \E a \in {"act", "V"} : Moves(p, "main", a)
    BY <1>6, <1>at, <1>a
    DEF BroadcastTest, BroadcastAct, Post, Leave, Moves
  <2>2. \A q \in Proc, g \in Frames : Holds(q, g)' => Holds(q, g)
    BY <2>1, <1>at, <1>a, PositionLabels, MovesPassive
  <2> QED
    BY <1>6, <2>2, <1>children, <1>at, PassiveExclusion
    DEF BroadcastTest, BroadcastAct, Post, Passive
<1>7. CASE PrintTest(p) \/ PrintAct(p)
  <2>1. \E a \in {"act", "V"} : Moves(p, "USR1", a)
    BY <1>7, <1>at, <1>a DEF PrintTest, PrintAct, Moves
  <2>2. \A q \in Proc, g \in Frames : Holds(q, g)' => Holds(q, g)
    BY <2>1, <1>at, <1>a, PositionLabels, MovesPassive
  <2> QED
    BY <1>7, <2>2, <1>children, <1>at, PassiveExclusion DEF PrintTest, PrintAct, Passive
<1>8. ASSUME NEW f \in Frames, SemaphoreWait(p, f) PROVE ExclusionInv'
  <2>1. Moves(p, f, "blocked")
    BY <1>8, <1>a DEF SemaphoreWait, Moves
  <2>2. \A q \in Proc, g \in Frames : Holds(q, g)' => Holds(q, g)
    BY <2>1, <1>at, <1>a, MovesPassive
  <2> QED BY <1>8, <2>2, <1>children, <1>at, PassiveExclusion DEF SemaphoreWait, Passive
<1>9. CASE SemaphoreV(p)
  <2>1. \E f \in Frames : f = "main" /\ SemaphoreV(p)
    BY <1>9, PositionLabels
  <2> QED BY <2>1, <1>2
<1>10. \A s \in Signals : HandlerV(p, s) => ExclusionInv'
  BY <1>2, PositionLabels
<1>11. CASE EndOfInput(p)
  BY <1>11, <1>children, <1>at, PassiveExclusion DEF EndOfInput, Passive, Holds
<1> QED
  BY <1>1, <1>3, <1>4, <1>5, <1>6, <1>7, <1>8, <1>9, <1>10, <1>11 DEF Shared

LEMMA CommandExclusion ==
  ASSUME LockInv, NEW p \in Proc,
         \/ FromTest(p) \/ ToTest(p) \/ MakeFifo(p) \/ KillPipe(p)
         \/ ForkCommand(p) \/ CloseTest(p) \/ WaitChild(p) \/ OpenDone(p)
         \/ \E j \in Slots : OpenMissing(p, j) \/ \E w \in Proc : OpenPipe(p, w, j)
         \/ ReadPipeCommand(p)
  PROVE  ExclusionInv'
<1>0. ExclusionInv /\ PipesTypeInv /\ ChildInv /\ child \in [Proc -> ChildPhases]
  BY DEF LockInv, PipesTypeInv, PipesTypeOK, ChildPhases
<1>1. UNCHANGED kernel
  BY DEF FromTest, ToTest, MakeFifo, KillPipe, ForkCommand, CloseTest, WaitChild,
         OpenDone, OpenMissing, OpenPipe, ReadPipeCommand, vars
<1>2. \A q \in Proc, f \in Frames : Holds(q, f)' => Holds(q, f)
  <2>1. UNCHANGED at \/ \E q \in Proc, f \in Frames, a \in Positions : Moves(q, f, a)
    BY <1>0, CommandMoves DEF MakeFifo, WaitChild, OpenMissing, vars
  <2> QED BY <1>0, <2>1, MovesPassive DEF Holds
<1>3. \A q \in Proc : ChildHolds(q)' <=> ChildHolds(q)
  <2>1. CASE ForkCommand(p)
    <3>1. sec[p] = "fork"
      BY <2>1 DEF ForkCommand, At
    <3>2. child[p] = "none"
      BY <3>1, <1>0 DEF ChildInv
    <3> QED BY <2>1, <3>2, <1>0 DEF ForkCommand, ChildHolds
  <2>2. CASE ~ForkCommand(p)
    BY <2>2 DEF FromTest, ToTest, MakeFifo, KillPipe, CloseTest, WaitChild,
         OpenDone, OpenMissing, OpenPipe, ReadPipeCommand, command, ChildHolds
  <2> QED BY <2>1, <2>2
<1> QED BY <1>0, <1>1, <1>2, <1>3, PassiveExclusion DEF Passive

LEMMA ChildExclusion ==
  ASSUME LockInv, NEW p \in Proc,
         \/ ChildP(p) \/ ChildInput(p) \/ ChildFaults(p) \/ ChildV(p)
         \/ ChildOutput(p) \/ ChildEnds(p)
  PROVE  ExclusionInv'
<1>0. /\ ExclusionInv /\ child \in [Proc -> ChildPhases] /\ semval \in 0..1
      /\ at \in [Proc -> [Frames -> Positions]] /\ semadj \in [Proc -> 0..1]
  BY DEF LockInv, PipesTypeInv, PipesTypeOK, ChildPhases
<1>1. CASE ChildP(p)
  <2>1. \A q \in Proc : semadj[q] = 0 /\ ~ChildHolds(q)
    BY <1>1, <1>0 DEF ChildP, ExclusionInv
  <2>2. semval' = 0 /\ \A q \in Proc : ChildHolds(q)' <=> q = p
    BY <1>1, <1>0, <2>1 DEF ChildP, ChildHolds
  <2> QED BY <1>1, <1>0, <2>1, <2>2 DEF ChildP, ExclusionInv, Holds
<1>2. CASE ChildV(p) \/ ChildFaults(p)
  <2>1. ChildHolds(p)
    BY <1>2 DEF ChildV, ChildFaults, ChildHolds
  <2>2. semval = 0 /\ \A q \in Proc : semadj[q] = 0 /\ (ChildHolds(q) <=> q = p)
    BY <2>1, <1>0 DEF ExclusionInv
  <2>3. semval' = 1 /\ \A q \in Proc : ~ChildHolds(q)'
    BY <1>2, <1>0, <2>2 DEF ChildV, ChildFaults, ChildHolds
  <2>4. \A q \in Proc, g \in Frames : Holds(q, g)' => Holds(q, g)
    BY <1>2, <1>0 DEF ChildV, ChildFaults, Holds, Interrupted, Inside
  <2> QED BY <1>2, <1>0, <2>2, <2>3, <2>4 DEF ChildV, ChildFaults, ExclusionInv
<1>3. CASE ChildInput(p) \/ ChildOutput(p)
  BY <1>3, <1>0, PassiveExclusion
  DEF ChildInput, ChildOutput, vars, kernel, ChildHolds, Passive, Holds
<1>4. CASE ChildEnds(p)
  <2>1. \A q \in Proc, g \in Frames : Holds(q, g)' => Holds(q, g)
    BY <1>4, <1>0 DEF ChildEnds, Holds, Interrupted, Inside
  <2> QED
    BY <1>4, <1>0, <2>1, PassiveExclusion DEF ChildEnds, ChildHolds, Passive
<1> QED BY <1>1, <1>2, <1>3, <1>4

LEMMA StepKeepsChildren ==
  ASSUME LockInv, [PipesNext]_pvars
  PROVE  ChildInv'
<1> USE DEF At, Runs, Live, Ended
<1>0. /\ sec \in [Proc -> PipeSections] /\ child \in [Proc -> ChildPhases] /\ ChildInv
  BY DEF LockInv, PipesTypeInv, PipesTypeOK, ChildPhases
<1>1. ASSUME NEW p \in Proc, Shared(p) PROVE ChildInv'
  <2>1. UNCHANGED child
    BY <1>1 DEF Shared, command
  <2>2. \/ UNCHANGED sec
        \/ \E s : /\ sec' = [sec EXCEPT ![p] = s]
                  /\ sec[p] \in {"Broadcast", "kill", "tellkill", "prompt"}
        \/ sec' = [sec EXCEPT ![p] = "dead"]
    BY <1>1 DEF Shared, SemaphoreP, SemaphoreWait, SemaphoreV, HandlerV, Deliver,
         SemaphoreFailed, End, BroadcastTest, BroadcastAct, Post, Leave, Kill,
         EndOfInput, PrintTest, PrintAct
  <2> QED BY <1>0, <2>1, <2>2 DEF ChildInv
<1>2. ASSUME NEW p \in Proc,
             \/ FromTest(p) \/ ToTest(p) \/ MakeFifo(p) \/ KillPipe(p)
             \/ OpenDone(p) \/ ReadPipeCommand(p)
             \/ \E j \in Slots : OpenMissing(p, j) \/ \E w \in Proc : OpenPipe(p, w, j)
      PROVE  ChildInv'
  <2>1. UNCHANGED child
    BY <1>2 DEF FromTest, ToTest, MakeFifo, KillPipe, OpenDone, ReadPipeCommand,
                OpenMissing, OpenPipe, command
  <2>2. \/ UNCHANGED sec
        \/ \E w \in Proc : \E s :
              /\ sec' = [sec EXCEPT ![w] = s]
              /\ sec[w] \notin {"Close", "wait", "dead"}
    BY <1>2 DEF FromTest, ToTest, MakeFifo, KillPipe, OpenDone, ReadPipeCommand,
                OpenMissing, OpenPipe, Opening, Leave, vars
  <2> QED BY <1>0, <2>1, <2>2 DEF ChildInv
<1>3. ASSUME NEW p \in Proc, ForkCommand(p) \/ CloseTest(p) \/ WaitChild(p)
      PROVE  ChildInv'
  BY <1>0, <1>3 DEF ForkCommand, CloseTest, WaitChild, Leave, command, ChildInv
<1>4. ASSUME NEW p \in Proc,
             \/ ChildP(p) \/ ChildInput(p) \/ ChildFaults(p) \/ ChildV(p)
             \/ ChildOutput(p) \/ ChildEnds(p)
      PROVE  ChildInv'
  BY <1>0, <1>4 DEF ChildP, ChildInput, ChildFaults, ChildV, ChildOutput, ChildEnds, vars, ChildInv
<1>5. CASE UNCHANGED pvars
  BY <1>0, <1>5 DEF pvars, vars, command, ChildInv
<1>6. ASSUME NEW p \in Proc, SessionEnds(p) PROVE ChildInv'
  BY <1>0, <1>6 DEF SessionEnds, End, command, ChildInv
<1> QED BY <1>1, <1>2, <1>3, <1>4, <1>5, <1>6, StepCases

LEMMA LockStep ==
  ASSUME LockInv, [PipesNext]_pvars
  PROVE  LockInv'
<1>0. PipesTypeInv /\ ExclusionInv
  BY DEF LockInv
<1>1. ASSUME NEW p \in Proc, Shared(p) PROVE LockInv'
  BY <1>0, <1>1, SharedTypes, SharedExclusion, StepKeepsChildren DEF LockInv
<1>2. ASSUME NEW p \in Proc,
             \/ FromTest(p) \/ ToTest(p) \/ MakeFifo(p) \/ KillPipe(p)
             \/ ForkCommand(p) \/ CloseTest(p) \/ WaitChild(p) \/ OpenDone(p)
             \/ \E j \in Slots : OpenMissing(p, j) \/ \E w \in Proc : OpenPipe(p, w, j)
             \/ ReadPipeCommand(p)
      PROVE  LockInv'
  BY <1>0, <1>2, CommandTypes, CommandExclusion, StepKeepsChildren DEF LockInv
<1>3. ASSUME NEW p \in Proc,
             \/ ChildP(p) \/ ChildInput(p) \/ ChildFaults(p) \/ ChildV(p)
             \/ ChildOutput(p) \/ ChildEnds(p)
      PROVE  LockInv'
  BY <1>0, <1>3, ChildTypes, ChildExclusion, StepKeepsChildren DEF LockInv
<1>4. CASE UNCHANGED pvars
  BY <1>0, <1>4, StepKeepsChildren
  DEF LockInv, pvars, vars, kernel, control, locals, input, pipes, command, entries,
      PipesTypeInv, PipesTypeOK, Given, Live, ExclusionInv, Holds, ChildHolds
<1>5. ASSUME NEW p \in Proc, SessionEnds(p) PROVE LockInv'
  BY <1>0, <1>5, EndTypes, EndExclusion, StepKeepsChildren DEF LockInv, SessionEnds
<1> QED BY <1>1, <1>2, <1>3, <1>4, <1>5, StepCases

LEMMA LockInit == PipesInit => LockInv
<1> SUFFICES ASSUME PipesInit PROVE LockInv
  OBVIOUS
<1> USE DEF PipesInit
<1>1. clientset \in [Slots -> PipeClient]
  <2>1. \A i \in Slots : clientset[i] \in PipeClient
    BY DEF PipeClient, EmptyClient
  <2> QED BY <2>1
<1>2. at \in [Proc -> [Frames -> Positions]]
  BY PositionLabels DEF Quiet
<1>3. sec \in [Proc -> PipeSections] /\ idx \in [Proc -> Slots]
  BY PipeSectionLabels DEF Slots
<1>4. userid \in [Proc -> 0..N] /\ \A p \in Proc : userid[p] # 0
  <2>1. userid \in [Proc -> Slots]
    OBVIOUS
  <2>2. Slots \subseteq 0..N /\ 0 \notin Slots
    BY DEF Slots
  <2> QED BY <2>1, <2>2
<1>5. Given
  BY <1>4 DEF Given
<1>6. cmd \in [Proc -> CmdType]
  BY DEF CmdType
<1>7. /\ user_pipe_from \in [Slots -> [Slots -> Marks]]
      /\ fd_table \in [Slots -> [Slots -> BOOLEAN]]
      /\ fifo \subseteq Slots \X Slots
      /\ target \in [Proc -> Proc \cup {NoProc, Everybody}]
      /\ child \in [Proc -> ChildPhases]
      /\ slot \in [Proc -> Slots] /\ torn \subseteq Slots
  BY DEF Marks, ChildPhases
<1>8. semval \in 0..1 /\ semadj \in [Proc -> 0..1]
  OBVIOUS
<1>9. ret \in [Proc -> {"prompt", "To", "fork"}]
  OBVIOUS
<1>10. PipesTypeInv
  BY <1>1, <1>2, <1>3, <1>4, <1>5, <1>6, <1>7, <1>8, <1>9
  DEF PipesTypeInv, PipesTypeOK, ChildPhases, CmdType
<1>11. ExclusionInv
  BY PositionLabels DEF ExclusionInv, Holds, Inside, Quiet, ChildHolds
<1> QED BY <1>10, <1>11 DEF LockInv, ChildInv

LEMMA LockExcludes == LockInv => PipeExclusion
<1> SUFFICES ASSUME LockInv PROVE PipeExclusion
  OBVIOUS
<1>1. ExclusionInv /\ semadj \in [Proc -> 0..1]
  BY DEF LockInv, PipesTypeInv
<1>2. ASSUME NEW p \in Proc, Leaked(p)
      PROVE  \A q \in Proc : ~ChildHolds(q) /\ \A f \in Frames : ~Holds(q, f)
  BY <1>1, <1>2 DEF ExclusionInv, Leaked
<1> QED BY <1>1, <1>2 DEF ExclusionInv, PipeExclusion

\* Mutual exclusion among the frames of the sessions and the children of their
\* commands, whatever the signals, the interrupted semops and the path of
\* FromTest that never gives the semaphore back.
THEOREM ChildrenExcluded == PipesSpec => []PipeExclusion
<1>1. PipesInit => LockInv
  BY LockInit
<1>2. LockInv /\ [PipesNext]_pvars => LockInv'
  BY LockStep
<1>3. LockInv => PipeExclusion
  BY LockExcludes
<1> QED BY <1>1, <1>2, <1>3, PTL DEF PipesSpec

\* Every variable keeps its type, whatever numbers the clients type and whatever
\* the order of commands, handlers, children and ends: a number beyond the table
\* changes the values in an entry, up to a pid of -1, but no index of the program
\* ever comes from them.
THEOREM PipesTyped == PipesSpec => []PipesTypeOK
<1>1. PipesInit => LockInv
  BY LockInit
<1>2. LockInv /\ [PipesNext]_pvars => LockInv'
  BY LockStep
<1>3. LockInv => PipesTypeOK
  BY DEF LockInv, PipesTypeInv
<1> QED BY <1>1, <1>2, <1>3, PTL DEF PipesSpec
-----------------------------------------------------------------------------
(* What a number beyond the table damages.                                 *)

\* The child that resets an entry was given a number.
InputInv == \A p \in Proc : child[p] \in {"P", "input", "V"} => cmd[p].from > 0

DamageInv == LockInv /\ InputInv

LEMMA StepKeepsInput ==
  ASSUME DamageInv, [PipesNext]_pvars
  PROVE  InputInv'
<1> USE DEF At, Runs
<1>0. /\ sec \in [Proc -> PipeSections] /\ child \in [Proc -> ChildPhases]
      /\ cmd \in [Proc -> CmdType] /\ ChildInv /\ InputInv
  BY DEF DamageInv, LockInv, PipesTypeInv, PipesTypeOK, ChildPhases, CmdType
<1>1. ASSUME NEW p \in Proc,
             \/ Shared(p) \/ SessionEnds(p)
             \/ MakeFifo(p) \/ KillPipe(p) \/ CloseTest(p) \/ WaitChild(p) \/ OpenDone(p)
             \/ \E j \in Slots : OpenMissing(p, j) \/ \E w \in Proc : OpenPipe(p, w, j)
      PROVE  InputInv'
  <2>1. UNCHANGED <<cmd, child>>
    BY <1>1 DEF Shared, SessionEnds, MakeFifo, KillPipe, CloseTest, WaitChild, OpenDone,
                OpenMissing, OpenPipe, command
  <2> QED BY <1>0, <2>1 DEF InputInv
<1>2. ASSUME NEW p \in Proc, FromTest(p) \/ ToTest(p)
      PROVE  InputInv'
  <2>1. /\ UNCHANGED child
        /\ \/ UNCHANGED cmd
           \/ cmd' = [cmd EXCEPT ![p].pipe_from = FALSE]
           \/ cmd' = [cmd EXCEPT ![p].pipe_to = FALSE]
    BY <1>2 DEF FromTest, ToTest
  <2>2. \A q \in Proc : cmd'[q].from = cmd[q].from
    BY <1>0, <2>1 DEF CmdType
  <2> QED BY <1>0, <2>1, <2>2 DEF InputInv
<1>3. ASSUME NEW p \in Proc, ReadPipeCommand(p)
      PROVE  InputInv'
  <2>1. sec[p] = "prompt" /\ UNCHANGED child /\ \E c : cmd' = [cmd EXCEPT ![p] = c]
    BY <1>3 DEF ReadPipeCommand
  <2>2. child[p] = "none"
    BY <1>0, <2>1 DEF ChildInv
  <2> QED BY <1>0, <2>1, <2>2 DEF InputInv
<1>4. ASSUME NEW p \in Proc, ForkCommand(p)
      PROVE  InputInv'
  BY <1>0, <1>4 DEF ForkCommand, InputInv
<1>5. ASSUME NEW p \in Proc,
             \/ ChildP(p) \/ ChildInput(p) \/ ChildFaults(p) \/ ChildV(p)
             \/ ChildOutput(p) \/ ChildEnds(p)
      PROVE  InputInv'
  <2>1. UNCHANGED cmd
    BY <1>5 DEF ChildP, ChildInput, ChildFaults, ChildV, ChildOutput, ChildEnds
  <2>2. \A q \in Proc :
          child'[q] \in {"P", "input", "V"} => child[q] \in {"P", "input", "V"}
    BY <1>0, <1>5 DEF ChildP, ChildInput, ChildFaults, ChildV, ChildOutput, ChildEnds
  <2> QED BY <1>0, <2>1, <2>2 DEF InputInv
<1>6. CASE UNCHANGED pvars
  BY <1>0, <1>6 DEF pvars, command, InputInv
<1> QED BY <1>1, <1>2, <1>3, <1>4, <1>5, <1>6, StepCases

\* The entries lie one behind the other.
LEMMA EntriesInOrder ==
  /\ \A i \in Slots : Used(i) \in Int
  /\ \A i, k \in Slots : k < i => Used(k) + EntrySize <= Used(i)
<1>0. EntrySize \in Nat /\ Slots \subseteq Nat
  BY DEF EntrySize, Slots
<1>1. ASSUME NEW E \in Nat, NEW k \in Nat, NEW d \in Nat
      PROVE  k * E + E <= (k + 1 + d) * E
  <2>1. d * E \in Nat /\ (k + 1 + d) * E = k * E + E + d * E
    BY <1>1
  <2> QED BY <2>1
<1>2. ASSUME NEW i \in Slots, NEW k \in Slots, k < i
      PROVE  k * EntrySize + EntrySize <= i * EntrySize
  <2>1. i - k - 1 \in Nat /\ i = k + 1 + (i - k - 1)
    BY <1>0, <1>2
  <2> QED BY <1>0, <1>1, <2>1
<1> QED BY <1>0, <1>2 DEF Used

\* The words that a number of the table resets are those of its own entry, and
\* no number resets a word before it.
LEMMA WrittenWords ==
  ASSUME NEW p \in Proc, slot[p] \in Slots, cmd[p].from \in Int, cmd[p].from > 0,
         NEW i \in Slots
  PROVE  /\ Used(i) \in Written(p) \/ Pid(i) \in Written(p)
              => cmd[p].from > N /\ slot[p] < i
         /\ \A j \in Slots :
              Mark(i, j) \in Written(p)
                => \/ slot[p] = i /\ cmd[p].from = j
                   \/ slot[p] <= i /\ cmd[p].from > N
<1> DEFINE s == slot[p]
           n == cmd[p].from
<1>0. /\ s \in Int /\ i \in Int /\ n \in Int /\ n > 0 /\ N \in Int /\ N > 0
      /\ Used(s) \in Int /\ Used(i) \in Int /\ EntrySize = 2 * N + 7
  BY EntriesInOrder DEF Slots, EntrySize
<1>1. /\ s < i => Used(s) + EntrySize <= Used(i)
      /\ i < s => Used(i) + EntrySize <= Used(s)
      /\ s = i => Used(s) = Used(i)
  BY EntriesInOrder
<1>2. Written(p) = {Used(s) + 5 + n, Used(s) + 6 + N + n}
  BY DEF Written, Mark, Fd
<1> HIDE DEF s, n
<1>3. ASSUME NEW a \in {Used(i), Used(i) + 1},
             a = Used(s) + 5 + n \/ a = Used(s) + 6 + N + n
      PROVE  n > N /\ s < i
  BY <1>0, <1>1, <1>3
<1>4. ASSUME NEW j \in Slots,
             \/ Used(i) + 5 + j = Used(s) + 5 + n
             \/ Used(i) + 5 + j = Used(s) + 6 + N + n
      PROVE  (s = i /\ n = j) \/ (s <= i /\ n > N)
  <2>1. j \in Int /\ j > 0 /\ j <= N
    BY DEF Slots
  <2>2. CASE n <= N
    <3>1. s = i
      BY <1>0, <1>1, <1>4, <2>1, <2>2
    <3>2. Used(s) = Used(i)
      BY <1>1, <3>1
    <3>3. n = j
      BY <1>0, <1>4, <2>1, <2>2, <3>2
    <3> QED BY <3>1, <3>3
  <2>3. CASE n > N
    <3>1. Used(s) + 5 + N < Used(i) + 6 + N
      BY <1>0, <1>4, <2>1, <2>3
    <3>2. ~(i < s)
      BY <1>0, <1>1, <3>1
    <3> QED BY <1>0, <2>3, <3>2
  <2> QED BY <1>0, <2>2, <2>3
<1> QED BY <1>2, <1>3, <1>4 DEF Pid, Mark, s, n

\* Every step but that of a child leaves `used`, the pids and the opened pipes.
LEMMA OthersKeepEntries ==
  ASSUME LockInv, [PipesNext]_pvars, \A p \in Proc : ~ChildInput(p)
  PROVE  \A i \in Slots :
           /\ clientset'[i].used = clientset[i].used
           /\ clientset'[i].pid = clientset[i].pid
           /\ \A j \in Slots : user_pipe_from[i][j] = "opened"
                                 => user_pipe_from'[i][j] = "opened"
<1>0. /\ clientset \in [Slots -> PipeClient]
      /\ user_pipe_from \in [Slots -> [Slots -> Marks]]
  BY DEF LockInv, PipesTypeInv, PipesTypeOK
<1>1. \/ UNCHANGED clientset
      \/ \E i, m : clientset' = [clientset EXCEPT ![i].msg = m]
  <2>1. ASSUME NEW p \in Proc, Shared(p)
        PROVE  \/ UNCHANGED clientset
               \/ \E i, m : clientset' = [clientset EXCEPT ![i].msg = m]
    BY <2>1 DEF Shared, SemaphoreP, SemaphoreWait, SemaphoreV, HandlerV, Deliver,
         SemaphoreFailed, BroadcastTest, BroadcastAct, Post, Kill, EndOfInput, PrintTest,
         PrintAct
  <2>2. ASSUME NEW p \in Proc,
             \/ FromTest(p) \/ ToTest(p) \/ MakeFifo(p) \/ KillPipe(p)
             \/ ForkCommand(p) \/ CloseTest(p) \/ WaitChild(p) \/ OpenDone(p)
             \/ \E j \in Slots : OpenMissing(p, j) \/ \E w \in Proc : OpenPipe(p, w, j)
             \/ ReadPipeCommand(p) \/ SessionEnds(p)
        PROVE UNCHANGED clientset
    BY <2>2 DEF FromTest, ToTest, MakeFifo, KillPipe, ForkCommand, CloseTest, WaitChild,
         OpenDone, OpenMissing, OpenPipe, ReadPipeCommand, SessionEnds, vars
  <2>3. ASSUME NEW p \in Proc,
             ChildP(p) \/ ChildFaults(p) \/ ChildV(p) \/ ChildOutput(p) \/ ChildEnds(p)
        PROVE UNCHANGED clientset
    BY <2>3 DEF ChildP, ChildFaults, ChildV, ChildOutput, ChildEnds, vars
  <2>4. CASE UNCHANGED pvars
    BY <2>4 DEF pvars, vars
  <2> QED BY <2>1, <2>2, <2>3, <2>4, StepCases
<1>2. \A i \in Slots : /\ clientset'[i].used = clientset[i].used
                       /\ clientset'[i].pid = clientset[i].pid
  BY <1>0, <1>1 DEF PipeClient
<1>3. ASSUME NEW i \in Slots, NEW j \in Slots, user_pipe_from[i][j] = "opened"
      PROVE  user_pipe_from'[i][j] = "opened"
  <2>1. ASSUME NEW p \in Proc, Shared(p) \/ SessionEnds(p)
        PROVE  UNCHANGED user_pipe_from
    BY <2>1 DEF Shared, SessionEnds, pipes
  <2>2. ASSUME NEW p \in Proc,
             \/ FromTest(p) \/ MakeFifo(p) \/ KillPipe(p) \/ ForkCommand(p)
             \/ CloseTest(p) \/ WaitChild(p) \/ OpenDone(p) \/ ReadPipeCommand(p)
        PROVE UNCHANGED user_pipe_from
    BY <2>2 DEF FromTest, MakeFifo, KillPipe, ForkCommand, CloseTest, WaitChild,
         OpenDone, ReadPipeCommand, pipes
  <2>3. ASSUME NEW p \in Proc, ToTest(p)
        PROVE user_pipe_from'[i][j] = "opened"
    <3>1. \/ UNCHANGED user_pipe_from
          \/ /\ user_pipe_from[cmd[p].to][userid[p]] = "nothing"
             /\ user_pipe_from' =
                  [user_pipe_from EXCEPT ![cmd[p].to][userid[p]] = "marked"]
      BY <2>3 DEF ToTest
    <3> QED BY <1>0, <1>3, <3>1
  <2>4. ASSUME NEW p \in Proc, NEW k \in Slots,
               OpenMissing(p, k) \/ \E w \in Proc : OpenPipe(p, w, k)
        PROVE user_pipe_from'[i][j] = "opened"
    <3>1. user_pipe_from' = [user_pipe_from EXCEPT ![userid[p]][k] = "opened"]
      BY <2>4 DEF OpenMissing, OpenPipe
    <3> QED BY <1>0, <1>3, <3>1
  <2>5. ASSUME NEW p \in Proc,
             ChildP(p) \/ ChildFaults(p) \/ ChildV(p) \/ ChildOutput(p) \/ ChildEnds(p)
        PROVE UNCHANGED user_pipe_from
    BY <2>5 DEF ChildP, ChildFaults, ChildV, ChildOutput, ChildEnds, pipes
  <2>6. CASE UNCHANGED pvars
    BY <1>3, <2>6 DEF pvars, pipes
  <2> QED BY <1>3, <2>1, <2>2, <2>3, <2>4, <2>5, <2>6, StepCases
<1> QED BY <1>2, <1>3

\* Only the child of a command with a number beyond the table, which holds the
\* semaphore, takes `used`, the pid or an opened pipe from an entry, and only
\* from its own or a later one.
THEOREM DamageIsBeyond == PipesSpec => DamageBeyond
<1>1. PipesInit => DamageInv
  BY LockInit DEF PipesInit, DamageInv, InputInv
<1>2. DamageInv /\ [PipesNext]_pvars => DamageInv'
  BY LockStep, StepKeepsInput DEF DamageInv
<1> DEFINE
  Kept(i) == /\ \/ clientset'[i].used # clientset[i].used
                \/ clientset'[i].pid # clientset[i].pid
                => \E p \in Proc : ChildHolds(p) /\ cmd[p].from > N /\ slot[p] < i
             /\ \A j \in Slots :
                  /\ user_pipe_from[i][j] = "opened"
                  /\ user_pipe_from'[i][j] # "opened"
                  => \E p \in Proc :
                       /\ ChildHolds(p)
                       /\ \/ slot[p] = i /\ cmd[p].from = j
                          \/ slot[p] <= i /\ cmd[p].from > N
<1>3. ASSUME DamageInv, [PipesNext]_pvars, NEW i \in Slots
      PROVE  Kept(i)
  <2>1. CASE \A p \in Proc : ~ChildInput(p)
    BY <1>3, <2>1, OthersKeepEntries DEF DamageInv
  <2>2. ASSUME NEW p \in Proc, ChildInput(p)
        PROVE  Kept(i)
    <3>1. child[p] = "input" /\ ChildHolds(p)
      BY <2>2 DEF ChildInput, ChildHolds
    <3>2. cmd \in [Proc -> CmdType] /\ slot \in [Proc -> Slots] /\ cmd[p].from > 0
      BY <1>3, <3>1
      DEF DamageInv, LockInv, PipesTypeInv, PipesTypeOK, CmdType, InputInv
    <3>3. slot[p] \in Slots /\ cmd[p].from \in Int
      BY <3>2 DEF CmdType, NotGiven
    <3>4. /\ \/ clientset'[i].used # clientset[i].used
             \/ clientset'[i].pid # clientset[i].pid
             => Used(i) \in Written(p) \/ Pid(i) \in Written(p)
          /\ \A j \in Slots :
               user_pipe_from'[i][j] # user_pipe_from[i][j] => Mark(i, j) \in Written(p)
      <4>1. clientset[i] \in PipeClient
        BY <1>3 DEF DamageInv, LockInv, PipesTypeInv, PipesTypeOK
      <4>2. clientset'[i] = [clientset[i] EXCEPT
                !.used = @ \/ Used(i) \in Written(p),
                !.pid = IF Pid(i) \in Written(p) THEN Everybody ELSE @,
                !.msg = @ \/ Msg(i) \in Written(p)]
        BY <2>2 DEF ChildInput
      <4>3. /\ clientset'[i].used = (clientset[i].used \/ Used(i) \in Written(p))
            /\ clientset'[i].pid = IF Pid(i) \in Written(p) THEN Everybody
                                   ELSE clientset[i].pid
        BY <4>1, <4>2 DEF PipeClient
      <4>4. Used(i) \notin Written(p) => clientset'[i].used = clientset[i].used
        BY <4>1, <4>3 DEF PipeClient
      <4>5. \A j \in Slots :
              user_pipe_from'[i][j] # user_pipe_from[i][j] => Mark(i, j) \in Written(p)
        BY <2>2 DEF ChildInput
      <4> QED BY <4>3, <4>4, <4>5
    <3>5. /\ Used(i) \in Written(p) \/ Pid(i) \in Written(p)
               => cmd[p].from > N /\ slot[p] < i
          /\ \A j \in Slots :
               Mark(i, j) \in Written(p)
                 => \/ slot[p] = i /\ cmd[p].from = j
                    \/ slot[p] <= i /\ cmd[p].from > N
      BY <3>2, <3>3, WrittenWords
    <3> QED BY <3>1, <3>4, <3>5
  <2> QED BY <2>1, <2>2
<1>4. DamageInv /\ [PipesNext]_pvars => [\A i \in Slots : Kept(i)]_pvars
  BY <1>3
<1> QED BY <1>1, <1>2, <1>4, PTL DEF PipesSpec, DamageBeyond
-----------------------------------------------------------------------------
(* The entries of user_pipe_from and the paths under user_pipe.            *)

\* The command still has its output, as long as it may send it to a pipe.
OutputOpen ==
  \A p \in Proc :
    \/ sec[p] \in {"From", "To", "mkfifo"}
    \/ sec[p] \in {"Broadcast", "kill"} /\ ret[p] = "To"
    => cmd[p].pipe_to

\* The session that waits for its child has passed the close of fd_table[from].
WaitInv == \A p \in Proc : sec[p] = "wait" => ~Faults(p)

\* The process with slot j is on its way to open its pipe to slot i.
Sends(w, j, i) ==
  /\ slot[w] = j
  /\ \/ sec[w] = "dead"
     \/ sec[w] \in {"mkfifo", "usr2", "open"} /\ cmd[w].to = i

MarkInv ==
  \A i, j \in Slots :
    user_pipe_from[i][j] = "marked" => \E w \in Proc : Sends(w, j, i)

\* w is about to use, or uses, the path to slot j; a Broadcast that started
\* before mkfifo returns to "To".
Owns(w, j) ==
  \/ sec[w] = "dead"
  \/ /\ cmd[w].to = j /\ cmd[w].pipe_to
     /\ \/ sec[w] \in {"usr2", "open", "fork"}
        \/ sec[w] \in {"Broadcast", "kill"} /\ ret[w] = "fork"
        \/ sec[w] \in {"Close", "wait"} /\ child[w] \in {"P", "input", "V", "output"}
        \/ sec[w] = "Close" /\ Faults(w)

PathInv ==
  \A i, j \in Slots :
    <<i, j>> \in fifo => \E w \in Proc : slot[w] = i /\ Owns(w, j)

EntriesInv == SlotInv /\ OutputOpen /\ WaitInv /\ MarkInv /\ PathInv
PipesInv == LockInv /\ EntriesInv

LEMMA StepKeepsSlots ==
  ASSUME [PipesNext]_pvars
  PROVE  UNCHANGED slot
<1> USE DEF command, entries
<1>1. ASSUME NEW p \in Proc, Shared(p) \/ SessionEnds(p)
      PROVE  UNCHANGED slot
  BY <1>1 DEF Shared, SessionEnds
<1>2. ASSUME NEW p \in Proc,
             \/ FromTest(p) \/ ToTest(p) \/ MakeFifo(p) \/ KillPipe(p)
             \/ ForkCommand(p) \/ CloseTest(p) \/ WaitChild(p) \/ OpenDone(p)
             \/ \E j \in Slots : OpenMissing(p, j) \/ \E w \in Proc : OpenPipe(p, w, j)
             \/ ReadPipeCommand(p)
      PROVE  UNCHANGED slot
  BY <1>2 DEF FromTest, ToTest, MakeFifo, KillPipe, ForkCommand, CloseTest,
              WaitChild, OpenDone, OpenMissing, OpenPipe, ReadPipeCommand
<1>3. ASSUME NEW p \in Proc,
             \/ ChildP(p) \/ ChildInput(p) \/ ChildFaults(p) \/ ChildV(p)
                 \/ ChildOutput(p) \/ ChildEnds(p)
      PROVE  UNCHANGED slot
  BY <1>3 DEF ChildP, ChildInput, ChildFaults, ChildV, ChildOutput, ChildEnds
<1>4. CASE UNCHANGED pvars
  BY <1>4 DEF pvars
<1> QED BY <1>1, <1>2, <1>3, <1>4, StepCases

\* What the steps of MultiServer, as external commands use them, do to p.
LEMMA SharedEffect ==
  ASSUME LockInv, NEW p \in Proc, Shared(p)
  PROVE  /\ UNCHANGED <<user_pipe_from, fifo, cmd, child, slot>>
         /\ \/ /\ UNCHANGED <<userid, ret>>
               /\ \/ UNCHANGED sec
                  \/ /\ sec[p] \in {"Broadcast", "kill"}
                     /\ \E s \in {"Broadcast", "kill", ret[p]} :
                          sec' = [sec EXCEPT ![p] = s]
                  \/ /\ sec[p] \in {"tellkill", "prompt"}
                     /\ \E s \in {"prompt", "acceptor"} : sec' = [sec EXCEPT ![p] = s]
            \/ /\ sec' = [sec EXCEPT ![p] = "dead"]
               /\ \E r : ret' = [ret EXCEPT ![p] = r]
               /\ userid' = [userid EXCEPT ![p] = 0]
<1> USE DEF locals
<1>0. UNCHANGED <<user_pipe_from, fifo, cmd, child, slot>>
  BY DEF Shared, pipes, command, entries
<1>1. CASE SemaphoreFailed(p)
  BY <1>0, <1>1 DEF SemaphoreFailed, End
<1>2. CASE BroadcastTest(p)
  BY <1>0, <1>2 DEF BroadcastTest, AfterTarget, Leave
<1>3. CASE Kill(p)
  BY <1>0, <1>3 DEF Kill, AfterTarget
<1>4. CASE BroadcastAct(p)
  BY <1>0, <1>4 DEF BroadcastAct, Post, Leave
<1>5. CASE EndOfInput(p)
  BY <1>0, <1>5 DEF EndOfInput
<1>6. CASE ~(SemaphoreFailed(p) \/ BroadcastTest(p) \/ Kill(p) \/ BroadcastAct(p)
               \/ EndOfInput(p))
  BY <1>0, <1>6 DEF Shared, SemaphoreP, SemaphoreWait, SemaphoreV, HandlerV, Deliver,
     PrintTest, PrintAct
<1> QED BY <1>1, <1>2, <1>3, <1>4, <1>5, <1>6

\* A session that ends keeps what it owns.
LEMMA DeathPipes ==
  ASSUME PipesInv, NEW p \in Proc,
         sec' = [sec EXCEPT ![p] = "dead"],
         \E r : ret' = [ret EXCEPT ![p] = r],
         userid' = [userid EXCEPT ![p] = 0],
         UNCHANGED <<user_pipe_from, fifo, cmd, child, slot>>
  PROVE  EntriesInv'
<1>0. /\ sec \in [Proc -> PipeSections] /\ ret \in [Proc -> {"prompt", "To", "fork"}]
      /\ userid \in [Proc -> 0..N]
      /\ SlotInv /\ OutputOpen /\ WaitInv /\ MarkInv /\ PathInv
  BY DEF PipesInv, EntriesInv, LockInv, PipesTypeInv
<1>1. SlotInv'
  BY <1>0 DEF SlotInv, Live, Ended
<1>2. OutputOpen'
  BY <1>0 DEF OutputOpen
<1>3. WaitInv'
  BY <1>0 DEF WaitInv, Faults, Fd, Used
<1>4. MarkInv'
  BY <1>0 DEF MarkInv, Sends
<1>5. PathInv'
  BY <1>0 DEF PathInv, Owns, Faults, Fd, Used
<1> QED BY <1>1, <1>2, <1>3, <1>4, <1>5 DEF EntriesInv

LEMMA SharedPipes ==
  ASSUME PipesInv, NEW p \in Proc, Shared(p)
  PROVE  EntriesInv'
<1>0. /\ sec \in [Proc -> PipeSections] /\ ret \in [Proc -> {"prompt", "To", "fork"}]
      /\ SlotInv /\ OutputOpen /\ WaitInv /\ MarkInv /\ PathInv /\ LockInv
  BY DEF PipesInv, EntriesInv, LockInv, PipesTypeInv
<1>1. UNCHANGED <<user_pipe_from, fifo, cmd, child, slot>>
  BY <1>0, SharedEffect
<1>2. CASE /\ sec' = [sec EXCEPT ![p] = "dead"]
           /\ \E r : ret' = [ret EXCEPT ![p] = r]
           /\ userid' = [userid EXCEPT ![p] = 0]
  BY <1>1, <1>2, DeathPipes
<1>3. CASE UNCHANGED <<sec, userid, ret>>
  BY <1>0, <1>1, <1>3
  DEF EntriesInv, SlotInv, Live, OutputOpen, WaitInv, MarkInv, Sends, PathInv, Owns,
      Faults
<1>4. ASSUME NEW s, sec' = [sec EXCEPT ![p] = s], UNCHANGED <<userid, ret>>,
             \/ sec[p] \in {"Broadcast", "kill"} /\ s \in {"Broadcast", "kill", ret[p]}
             \/ sec[p] \in {"tellkill", "prompt"} /\ s \in {"prompt", "acceptor"}
      PROVE  EntriesInv'
  <2>1. SlotInv'
    BY <1>0, <1>1, <1>4 DEF SlotInv, Live, Ended
  <2>2. OutputOpen'
    BY <1>0, <1>1, <1>4 DEF OutputOpen
  <2>3. WaitInv'
    BY <1>0, <1>1, <1>4 DEF WaitInv, Faults
  <2>4. MarkInv'
    BY <1>0, <1>1, <1>4 DEF MarkInv, Sends
  <2>5. PathInv'
    BY <1>0, <1>1, <1>4 DEF PathInv, Owns, Faults
  <2> QED BY <2>1, <2>2, <2>3, <2>4, <2>5 DEF EntriesInv
<1> QED BY <1>0, <1>1, <1>2, <1>3, <1>4, SharedEffect

\* To keep PathInv it is enough to look at the paths of the process that acts.
LEMMA PathOthers ==
  ASSUME PathInv, NEW p \in Proc, UNCHANGED slot,
         \A q \in Proc \ {p} :
           /\ sec'[q] = sec[q] /\ ret'[q] = ret[q] /\ child'[q] = child[q]
           /\ cmd'[q].to = cmd[q].to /\ cmd'[q].pipe_to = cmd[q].pipe_to
           /\ cmd'[q].from = cmd[q].from,
         \A i, j \in Slots :
           <<i, j>> \in fifo' =>
             IF slot[p] = i THEN Owns(p, j)' ELSE <<i, j>> \in fifo
  PROVE  PathInv'
<1>1. \A q \in Proc \ {p} : \A j : Owns(q, j) => Owns(q, j)'
  BY DEF Owns, Faults
<1> SUFFICES ASSUME NEW i \in Slots, NEW j \in Slots, <<i, j>> \in fifo'
             PROVE  \E w \in Proc : slot'[w] = i /\ Owns(w, j)'
  BY DEF PathInv
<1>2. CASE slot[p] = i
  BY <1>2
<1>3. CASE slot[p] # i
  <2>1. PICK w \in Proc : slot[w] = i /\ Owns(w, j)
    BY <1>3 DEF PathInv
  <2> QED BY <1>1, <1>3, <2>1
<1> QED BY <1>2, <1>3

LEMMA CommandPipes ==
  ASSUME PipesInv, UNCHANGED slot, NEW p \in Proc,
         \/ FromTest(p) \/ ToTest(p) \/ MakeFifo(p) \/ KillPipe(p)
         \/ ForkCommand(p) \/ CloseTest(p) \/ WaitChild(p)
         \/ OpenDone(p) \/ ReadPipeCommand(p)
  PROVE  EntriesInv'
<1> USE DEF At, Runs, Live, Ended, locals, pipes, command
<1>0. /\ sec \in [Proc -> PipeSections] /\ ret \in [Proc -> {"prompt", "To", "fork"}]
      /\ userid \in [Proc -> 0..N] /\ child \in [Proc -> ChildPhases]
      /\ cmd \in [Proc -> CmdType]
      /\ user_pipe_from \in [Slots -> [Slots -> Marks]]
      /\ SlotInv /\ OutputOpen /\ WaitInv /\ MarkInv /\ PathInv
  BY DEF PipesInv, EntriesInv, LockInv, PipesTypeInv, PipesTypeOK, ChildPhases, CmdType
<1>1. SlotInv'
  <2>1. UNCHANGED userid /\ \A q \in Proc : sec'[q] \notin Ended => sec[q] \notin Ended
    BY <1>0 DEF FromTest, ToTest, MakeFifo, KillPipe, ForkCommand, CloseTest,
               WaitChild, OpenDone, ReadPipeCommand, Leave
  <2> QED BY <1>0, <2>1 DEF SlotInv
<1>2. CASE FromTest(p)
  <2>0. /\ sec[p] = "From"
        /\ \A q \in Proc : /\ cmd'[q].to = cmd[q].to /\ cmd'[q].pipe_to = cmd[q].pipe_to
                           /\ cmd'[q].from = cmd[q].from
        /\ \A q \in Proc \ {p} : sec'[q] = sec[q] /\ ret'[q] = ret[q]
        /\ sec'[p] \in {"Broadcast", "To", "fork", "From"}
        /\ UNCHANGED <<user_pipe_from, fifo, child>>
    <3>1. UNCHANGED cmd \/ cmd' = [cmd EXCEPT ![p].pipe_from = FALSE]
      BY <1>2 DEF FromTest
    <3>2. \A q \in Proc : /\ cmd'[q].to = cmd[q].to /\ cmd'[q].pipe_to = cmd[q].pipe_to
                          /\ cmd'[q].from = cmd[q].from
      BY <1>0, <3>1 DEF CmdType
    <3>3. /\ \A q \in Proc \ {p} : sec'[q] = sec[q] /\ ret'[q] = ret[q]
          /\ sec'[p] \in {"Broadcast", "To", "fork", "From"}
      <4>1. \E x \in {"Broadcast", "To", "fork"} : sec' = [sec EXCEPT ![p] = x]
        BY <1>2 DEF FromTest, Leave, AfterFrom
      <4>2. UNCHANGED ret \/ \E x : ret' = [ret EXCEPT ![p] = x]
        BY <1>2 DEF FromTest
      <4> QED BY <1>0, <4>1, <4>2
    <3>4. sec[p] = "From" /\ UNCHANGED <<user_pipe_from, fifo, child>>
      BY <1>2 DEF FromTest
    <3> QED BY <3>2, <3>3, <3>4
  <2>1. OutputOpen'
    BY <1>0, <2>0 DEF OutputOpen
  <2>2. MarkInv'
    BY <1>0, <2>0 DEF MarkInv, Sends
  <2>3. PathInv'
    <3>1. \A i, j \in Slots : <<i, j>> \in fifo => slot[p] # i
      BY <1>0, <2>0 DEF PathInv, Owns, SlotInv
    <3> QED BY <1>0, <2>0, <3>1, PathOthers
  <2>4. WaitInv'
    BY <1>0, <2>0 DEF WaitInv, Faults
  <2> QED BY <1>1, <2>1, <2>2, <2>3, <2>4 DEF EntriesInv
<1>3. CASE ToTest(p)
  <2>0. /\ sec[p] = "To" /\ UNCHANGED <<fifo, ret, child>>
        /\ \A q \in Proc \ {p} : sec'[q] = sec[q] /\ cmd'[q] = cmd[q]
        /\ \A q \in Proc : cmd'[q].from = cmd[q].from
        /\ \/ sec'[p] = "mkfifo" /\ UNCHANGED cmd
           \/ sec'[p] = "fork"
    <3>1. \/ sec' = [sec EXCEPT ![p] = "mkfifo"] /\ UNCHANGED cmd
          \/ /\ sec' = [sec EXCEPT ![p] = "fork"]
             /\ cmd' = [cmd EXCEPT ![p].pipe_to = FALSE]
      BY <1>3 DEF ToTest, Leave
    <3>2. sec[p] = "To" /\ UNCHANGED <<fifo, ret, child>>
      BY <1>3 DEF ToTest
    <3> QED BY <1>0, <3>1, <3>2 DEF CmdType
  <2>1. OutputOpen'
    BY <1>0, <2>0 DEF OutputOpen
  <2>2. MarkInv'
    <3>1. CASE ~UNCHANGED user_pipe_from
      <4>1. /\ sec[p] = "To" /\ sec' = [sec EXCEPT ![p] = "mkfifo"] /\ UNCHANGED cmd
            /\ user_pipe_from' =
                 [user_pipe_from EXCEPT ![cmd[p].to][userid[p]] = "marked"]
        BY <1>3, <3>1 DEF ToTest, Leave
      <4>2. slot[p] = userid[p]
        BY <1>0, <4>1 DEF SlotInv
      <4>3. ASSUME NEW i \in Slots, NEW j \in Slots, user_pipe_from'[i][j] = "marked"
            PROVE  \E w \in Proc : Sends(w, j, i)'
        <5>1. CASE i = cmd[p].to /\ j = userid[p]
          BY <1>0, <4>1, <4>2, <5>1 DEF Sends
        <5>2. CASE ~(i = cmd[p].to /\ j = userid[p])
          <6>1. user_pipe_from[i][j] = "marked"
            BY <1>0, <4>1, <4>3, <5>2
          <6>2. PICK w \in Proc : Sends(w, j, i)
            BY <1>0, <6>1 DEF MarkInv
          <6>3. w # p
            BY <4>1, <6>2 DEF Sends
          <6> QED BY <1>0, <4>1, <6>2, <6>3 DEF Sends
        <5> QED BY <5>1, <5>2
      <4> QED BY <4>3 DEF MarkInv
    <3>2. CASE UNCHANGED user_pipe_from
      BY <1>0, <2>0, <3>2 DEF MarkInv, Sends
    <3> QED BY <3>1, <3>2
  <2>3. PathInv'
    <3>1. \A i, j \in Slots : <<i, j>> \in fifo => slot[p] # i
      BY <1>0, <2>0 DEF PathInv, Owns, SlotInv
    <3> QED BY <1>0, <2>0, <3>1, PathOthers
  <2>4. WaitInv'
    BY <1>0, <2>0 DEF WaitInv, Faults
  <2> QED BY <1>1, <2>1, <2>2, <2>3, <2>4 DEF EntriesInv
<1>4. CASE MakeFifo(p)
  <2>0. /\ sec[p] = "mkfifo" /\ sec' = [sec EXCEPT ![p] = "usr2"]
        /\ fifo' = fifo \cup {<<userid[p], cmd[p].to>>}
        /\ UNCHANGED <<cmd, ret, child, user_pipe_from>>
    BY <1>4 DEF MakeFifo
  <2>1. OutputOpen'
    BY <1>0, <2>0 DEF OutputOpen
  <2>2. MarkInv'
    BY <1>0, <2>0 DEF MarkInv, Sends
  <2>3. PathInv'
    <3>1. slot[p] = userid[p] /\ cmd[p].pipe_to
      BY <1>0, <2>0 DEF SlotInv, OutputOpen
    <3>2. \A i, j \in Slots : <<i, j>> \in fifo => slot[p] # i
      BY <1>0, <2>0 DEF PathInv, Owns, SlotInv
    <3>3. \A j \in Slots : j = cmd[p].to => Owns(p, j)'
      BY <1>0, <2>0, <3>1 DEF Owns
    <3>4. \A i, j \in Slots : <<i, j>> \in fifo' =>
            \/ <<i, j>> \in fifo
            \/ i = userid[p] /\ j = cmd[p].to
      BY <2>0
    <3>5. \A i, j \in Slots : <<i, j>> \in fifo' =>
            IF slot[p] = i THEN Owns(p, j)' ELSE <<i, j>> \in fifo
      BY <3>1, <3>2, <3>3, <3>4
    <3>6. \A q \in Proc \ {p} : sec'[q] = sec[q]
      BY <1>0, <2>0
    <3> QED BY <1>0, <2>0, <3>5, <3>6, PathOthers
  <2>4. WaitInv'
    BY <1>0, <2>0 DEF WaitInv, Faults
  <2> QED BY <1>1, <2>1, <2>2, <2>3, <2>4 DEF EntriesInv
<1>5. CASE KillPipe(p)
  <2>0. /\ sec[p] = "usr2" /\ sec' = [sec EXCEPT ![p] = "open"]
        /\ UNCHANGED <<cmd, ret, child, user_pipe_from, fifo>>
    BY <1>5 DEF KillPipe
  <2>1. OutputOpen' /\ WaitInv' /\ MarkInv'
    BY <1>0, <2>0 DEF OutputOpen, WaitInv, Faults, MarkInv, Sends
  <2>2. PathInv'
    BY <1>0, <2>0 DEF PathInv, Owns, Faults
  <2> QED BY <1>1, <2>1, <2>2 DEF EntriesInv
<1>6. CASE ForkCommand(p)
  <2>0. /\ sec[p] = "fork" /\ sec' = [sec EXCEPT ![p] = "Close"]
        /\ \E c \in {"P", "output"} : child' = [child EXCEPT ![p] = c]
        /\ UNCHANGED <<cmd, ret, fifo, user_pipe_from>>
    BY <1>6 DEF ForkCommand
  <2>1. OutputOpen' /\ WaitInv' /\ MarkInv'
    BY <1>0, <2>0 DEF OutputOpen, WaitInv, Faults, MarkInv, Sends
  <2>2. PathInv'
    BY <1>0, <2>0 DEF PathInv, Owns, Faults
  <2> QED BY <1>1, <2>1, <2>2 DEF EntriesInv
<1>7. CASE CloseTest(p)
  <2>0. /\ sec[p] = "Close" /\ sec' = [sec EXCEPT ![p] = "wait"] /\ ~Faults(p)
        /\ UNCHANGED <<cmd, ret, child, user_pipe_from, fifo>>
    BY <1>7 DEF CloseTest, Leave
  <2>1. OutputOpen' /\ WaitInv' /\ MarkInv'
    BY <1>0, <2>0 DEF OutputOpen, WaitInv, Faults, MarkInv, Sends
  <2>2. PathInv'
    BY <1>0, <2>0 DEF PathInv, Owns, Faults
  <2> QED BY <1>1, <2>1, <2>2 DEF EntriesInv
<1>8. CASE WaitChild(p)
  <2>0. /\ sec[p] = "wait" /\ child[p] = "none" /\ sec' = [sec EXCEPT ![p] = "prompt"]
        /\ UNCHANGED <<cmd, ret, child, user_pipe_from, fifo>>
    BY <1>8 DEF WaitChild
  <2>1. OutputOpen' /\ WaitInv' /\ MarkInv'
    BY <1>0, <2>0 DEF OutputOpen, WaitInv, Faults, MarkInv, Sends
  <2>2. PathInv'
    BY <1>0, <2>0 DEF PathInv, Owns, Faults
  <2> QED BY <1>1, <2>1, <2>2 DEF EntriesInv
<1>9. CASE OpenDone(p)
  <2>1. UNCHANGED <<sec, ret, cmd, child, user_pipe_from, fifo>>
    BY <1>9 DEF OpenDone
  <2> QED
    BY <1>0, <1>1, <2>1
    DEF EntriesInv, OutputOpen, WaitInv, Faults, MarkInv, Sends, PathInv, Owns
<1>10. CASE ReadPipeCommand(p)
  <2>0. /\ sec[p] = "prompt" /\ UNCHANGED <<ret, child, user_pipe_from, fifo>>
        /\ \E c \in CmdType : c.pipe_to /\ cmd' = [cmd EXCEPT ![p] = c]
        /\ \E s \in {"From", "To", "fork"} : sec' = [sec EXCEPT ![p] = s]
    <3>1. PICK f \in Froms, t \in Tos :
            /\ cmd' = [cmd EXCEPT ![p] = [from |-> f, to |-> t,
                                          pipe_from |-> TRUE, pipe_to |-> TRUE]]
            /\ sec' = [sec EXCEPT ![p] = IF f \in Slots THEN "From"
                                         ELSE IF t \in Slots THEN "To" ELSE "fork"]
      BY <1>10 DEF ReadPipeCommand
    <3>2. \E s \in {"From", "To", "fork"} : sec' = [sec EXCEPT ![p] = s]
      BY <3>1
    <3>3. \E c \in CmdType : c.pipe_to /\ cmd' = [cmd EXCEPT ![p] = c]
      BY <3>1 DEF CmdType
    <3> QED BY <1>10, <3>2, <3>3 DEF ReadPipeCommand
  <2>1. \A q \in Proc \ {p} : sec'[q] = sec[q] /\ cmd'[q] = cmd[q]
    BY <1>0, <2>0
  <2>2. OutputOpen'
    BY <1>0, <2>0 DEF OutputOpen
  <2>3. WaitInv'
    BY <1>0, <2>0, <2>1 DEF WaitInv, Faults
  <2>4. MarkInv'
    <3>1. \A w \in Proc, i, j \in Slots : Sends(w, j, i) => w # p
      BY <2>0 DEF Sends
    <3>2. \A w \in Proc \ {p} : \A i, j \in Slots : Sends(w, j, i) => Sends(w, j, i)'
      BY <2>1 DEF Sends
    <3>3. UNCHANGED user_pipe_from
      BY <2>0
    <3> QED BY <1>0, <3>1, <3>2, <3>3 DEF MarkInv
  <2>5. PathInv'
    <3>1. \A i, j \in Slots : <<i, j>> \in fifo => slot[p] # i
      BY <1>0, <2>0 DEF PathInv, Owns, SlotInv
    <3> QED BY <1>0, <2>0, <2>1, <3>1, PathOthers
  <2> QED BY <1>1, <2>2, <2>3, <2>4, <2>5 DEF EntriesInv
<1> QED BY <1>2, <1>3, <1>4, <1>5, <1>6, <1>7, <1>8, <1>9, <1>10

LEMMA OpenPipes ==
  ASSUME PipesInv, UNCHANGED slot, NEW p \in Proc, NEW j \in Slots,
         OpenMissing(p, j) \/ \E w \in Proc : OpenPipe(p, w, j)
  PROVE  EntriesInv'
<1> USE DEF At, Runs, Live, Ended, locals, pipes, command
<1>0. /\ sec \in [Proc -> PipeSections] /\ ret \in [Proc -> {"prompt", "To", "fork"}]
      /\ user_pipe_from \in [Slots -> [Slots -> Marks]]
      /\ SlotInv /\ OutputOpen /\ WaitInv /\ MarkInv /\ PathInv
  BY DEF PipesInv, EntriesInv, LockInv, PipesTypeInv, PipesTypeOK
<1>1. CASE OpenMissing(p, j)
  <2>1. /\ UNCHANGED <<sec, ret, userid, cmd, child, fifo>>
        /\ user_pipe_from' = [user_pipe_from EXCEPT ![userid[p]][j] = "opened"]
    BY <1>1 DEF OpenMissing, vars
  <2>2. \A i, k \in Slots :
          user_pipe_from'[i][k] = "marked" => user_pipe_from[i][k] = "marked"
    BY <1>0, <2>1
  <2>3. MarkInv'
    BY <1>0, <2>1, <2>2 DEF MarkInv, Sends
  <2> QED
    BY <1>0, <2>1, <2>3 DEF EntriesInv, SlotInv, OutputOpen, WaitInv, Faults, PathInv, Owns
<1>2. ASSUME NEW w \in Proc, OpenPipe(p, w, j)
      PROVE  EntriesInv'
  <2>0. /\ sec[w] = "open" /\ userid[w] = j /\ cmd[w].to = userid[p]
        /\ sec' = [sec EXCEPT ![w] = "Broadcast"] /\ ret' = [ret EXCEPT ![w] = "fork"]
        /\ user_pipe_from' = [user_pipe_from EXCEPT ![userid[p]][j] = "opened"]
        /\ UNCHANGED <<userid, cmd, child, fifo>>
    BY <1>2 DEF OpenPipe, Opening
  <2>1. SlotInv'
    BY <1>0, <2>0 DEF SlotInv
  <2>2. OutputOpen' /\ WaitInv'
    BY <1>0, <2>0 DEF OutputOpen, WaitInv, Faults
  <2>3. MarkInv'
    <3>1. slot[w] = j
      BY <1>0, <2>0 DEF SlotInv
    <3>2. ASSUME NEW i \in Slots, NEW k \in Slots, user_pipe_from'[i][k] = "marked"
          PROVE  \E v \in Proc : Sends(v, k, i)'
      <4>1. user_pipe_from[i][k] = "marked" /\ ~(i = userid[p] /\ k = j)
        BY <1>0, <2>0, <3>2
      <4>2. PICK v \in Proc : Sends(v, k, i)
        BY <1>0, <4>1 DEF MarkInv
      <4>3. v # w
        BY <2>0, <3>1, <4>1, <4>2 DEF Sends
      <4> QED BY <1>0, <2>0, <4>2, <4>3 DEF Sends
    <3> QED BY <3>2 DEF MarkInv
  <2>4. PathInv'
    BY <1>0, <2>0 DEF PathInv, Owns, Faults
  <2> QED BY <2>1, <2>2, <2>3, <2>4 DEF EntriesInv
<1> QED BY <1>1, <1>2

LEMMA ChildPipes ==
  ASSUME PipesInv, UNCHANGED slot, NEW p \in Proc,
         \/ ChildP(p) \/ ChildInput(p) \/ ChildFaults(p) \/ ChildV(p)
         \/ ChildOutput(p) \/ ChildEnds(p)
  PROVE  EntriesInv'
<1> USE DEF locals, pipes, command, Live
<1>0. /\ child \in [Proc -> ChildPhases] /\ fifo \subseteq Slots \X Slots
      /\ user_pipe_from \in [Slots -> [Slots -> Marks]]
      /\ SlotInv /\ OutputOpen /\ WaitInv /\ MarkInv /\ PathInv /\ ChildInv
  BY DEF PipesInv, EntriesInv, LockInv, PipesTypeInv, PipesTypeOK, ChildPhases
<1>1. UNCHANGED <<sec, ret, userid, cmd>>
  BY DEF ChildP, ChildInput, ChildFaults, ChildV, ChildOutput, ChildEnds, vars
<1>2. SlotInv' /\ OutputOpen' /\ WaitInv'
  BY <1>0, <1>1 DEF SlotInv, OutputOpen, WaitInv, Faults
<1>3. MarkInv'
  <2>1. \A i, j \in Slots :
          user_pipe_from'[i][j] = "marked" => user_pipe_from[i][j] = "marked"
    <3>1. CASE ChildInput(p)
      <4>1. \A i, j \in Slots : user_pipe_from'[i][j] \in {"nothing", user_pipe_from[i][j]}
        BY <3>1 DEF ChildInput
      <4> QED BY <4>1
    <3>2. CASE ~ChildInput(p)
      BY <3>2 DEF ChildP, ChildFaults, ChildV, ChildOutput, ChildEnds
    <3> QED BY <3>1, <3>2
  <2> QED BY <1>0, <1>1, <2>1 DEF MarkInv, Sends
<1>4. PathInv'
  <2>1. CASE ChildOutput(p)
    <3>1. ASSUME NEW i \in Slots, NEW j \in Slots, <<i, j>> \in fifo',
                 slot[p] = i, sec[p] # "dead"
          PROVE  FALSE
      <4>1. <<i, j>> \in fifo
        BY <2>1, <3>1 DEF ChildOutput
      <4>2. cmd[p].to = j /\ cmd[p].pipe_to
        BY <1>0, <3>1, <4>1 DEF PathInv, Owns, SlotInv
      <4> QED BY <2>1, <3>1, <4>2 DEF ChildOutput
    <3>2. ASSUME NEW i \in Slots, NEW j \in Slots, <<i, j>> \in fifo'
          PROVE  IF slot[p] = i THEN Owns(p, j)' ELSE <<i, j>> \in fifo
      <4>1. <<i, j>> \in fifo
        BY <2>1, <3>2 DEF ChildOutput
      <4> QED BY <1>1, <3>1, <3>2, <4>1 DEF Owns
    <3>3. \A q \in Proc \ {p} : child'[q] = child[q]
      BY <1>0, <2>1 DEF ChildOutput
    <3> QED BY <1>0, <1>1, <3>2, <3>3, PathOthers
  <2>2. CASE ChildP(p) \/ ChildInput(p) \/ ChildV(p) \/ ChildEnds(p)
    <3>1. UNCHANGED fifo
      BY <2>2 DEF ChildP, ChildInput, ChildV, ChildEnds
    <3>2. \A q \in Proc : child[q] \in {"P", "input", "V", "output"}
                            => child'[q] \in {"P", "input", "V", "output"}
      BY <1>0, <2>2 DEF ChildP, ChildInput, ChildV, ChildEnds
    <3> QED BY <1>0, <1>1, <3>1, <3>2 DEF PathInv, Owns, Faults
  <2>3. CASE ChildFaults(p)
    <3>1. Faults(p) /\ child[p] = "input" /\ UNCHANGED fifo
      BY <2>3 DEF ChildFaults
    <3>2. sec[p] \in {"Close", "dead"}
      BY <1>0, <3>1 DEF ChildInv, WaitInv
    <3>3. \A q \in Proc \ {p} : child'[q] = child[q]
      BY <1>0, <2>3 DEF ChildFaults
    <3>4. \A q \in Proc : Faults(q)' <=> Faults(q)
      BY <1>1 DEF Faults
    <3>5. \A q \in Proc, j \in Slots : Owns(q, j) => Owns(q, j)'
      BY <1>1, <3>1, <3>2, <3>3, <3>4 DEF Owns
    <3> QED BY <1>0, <3>1, <3>5 DEF PathInv
  <2> QED BY <2>1, <2>2, <2>3
<1> QED BY <1>2, <1>3, <1>4 DEF EntriesInv

LEMMA PipesStep ==
  ASSUME PipesInv, [PipesNext]_pvars
  PROVE  PipesInv'
<1>0. LockInv' /\ UNCHANGED slot
  BY LockStep, StepKeepsSlots DEF PipesInv
<1>1. CASE UNCHANGED pvars
  <2>1. UNCHANGED <<sec, ret, userid, cmd, child, user_pipe_from, fifo>>
    BY <1>1 DEF pvars, vars, locals, pipes, command
  <2>2. EntriesInv'
    BY <1>0, <2>1
    DEF PipesInv, EntriesInv, SlotInv, Live, OutputOpen, WaitInv, Faults, MarkInv, Sends,
        PathInv, Owns
  <2> QED BY <1>0, <2>2 DEF PipesInv
<1>2. ASSUME NEW p \in Proc, SessionEnds(p) PROVE PipesInv'
  <2>1. EntriesInv'
    BY <1>2, DeathPipes DEF SessionEnds, End, pipes, command, entries
  <2> QED BY <1>0, <2>1 DEF PipesInv
<1>3. ASSUME NEW p \in Proc, Shared(p) PROVE PipesInv'
  BY <1>0, <1>3, SharedPipes DEF PipesInv
<1>4. ASSUME NEW p \in Proc,
             \/ FromTest(p) \/ ToTest(p) \/ MakeFifo(p) \/ KillPipe(p)
             \/ ForkCommand(p) \/ CloseTest(p) \/ WaitChild(p)
             \/ OpenDone(p) \/ ReadPipeCommand(p)
      PROVE  PipesInv'
  BY <1>0, <1>4, CommandPipes DEF PipesInv
<1>5. ASSUME NEW p \in Proc, NEW j \in Slots,
             OpenMissing(p, j) \/ \E w \in Proc : OpenPipe(p, w, j)
      PROVE  PipesInv'
  BY <1>0, <1>5, OpenPipes DEF PipesInv
<1>6. ASSUME NEW p \in Proc,
             \/ ChildP(p) \/ ChildInput(p) \/ ChildFaults(p) \/ ChildV(p)
                 \/ ChildOutput(p) \/ ChildEnds(p)
      PROVE  PipesInv'
  BY <1>0, <1>6, ChildPipes DEF PipesInv
<1> QED BY <1>1, <1>2, <1>3, <1>4, <1>5, <1>6, StepCases

LEMMA PipesStart == PipesInit => PipesInv
<1> SUFFICES ASSUME PipesInit PROVE PipesInv
  OBVIOUS
<1>1. EntriesInv
  BY DEF PipesInit, EntriesInv, SlotInv, OutputOpen, WaitInv, MarkInv, PathInv
<1> QED BY <1>1, LockInit DEF PipesInv

\* A mark in user_pipe_from is never stale: its sender is on the way to the open
\* that goes with it, or has ended.
THEOREM MarksHaveSenders == PipesSpec => []MarkHasSender
<1>1. PipesInit => PipesInv
  BY PipesStart
<1>2. PipesInv /\ [PipesNext]_pvars => PipesInv'
  BY PipesStep
<1>3. PipesInv => MarkHasSender
  BY DEF PipesInv, EntriesInv, MarkInv, Sends, MarkHasSender
<1> QED BY <1>1, <1>2, <1>3, PTL DEF PipesSpec

\* A path under user_pipe belongs to the command that made it until the child
\* of that command removes it, so mkfifo never meets an older pipe of a session
\* that is still there.
THEOREM PathsHaveCommands == PipesSpec => []PathHasCommand
<1>1. PipesInit => PipesInv
  BY PipesStart
<1>2. PipesInv /\ [PipesNext]_pvars => PipesInv'
  BY PipesStep
<1>3. PipesInv => PathHasCommand
  <2> SUFFICES ASSUME PipesInv, NEW path \in fifo
               PROVE  \E w \in Proc :
                 /\ slot[w] = path[1]
                 /\ \/ sec[w] = "dead"
                    \/ /\ cmd[w].to = path[2] /\ cmd[w].pipe_to
                       /\ \/ sec[w] \in {"usr2", "open", "Broadcast", "kill", "fork"}
                          \/ sec[w] \in {"Close", "wait"}
                               /\ child[w] \in {"P", "input", "V", "output"}
                          \/ sec[w] = "Close" /\ Faults(w)
    BY DEF PathHasCommand
  <2>1. path \in Slots \X Slots
    BY DEF PipesInv, LockInv, PipesTypeInv, PipesTypeOK
  <2>2. path[1] \in Slots /\ path[2] \in Slots /\ <<path[1], path[2]>> \in fifo
    BY <2>1
  <2>3. PICK w \in Proc : slot[w] = path[1] /\ Owns(w, path[2])
    BY <2>2 DEF PipesInv, EntriesInv, PathInv
  <2> QED BY <2>3 DEF Owns
<1> QED BY <1>1, <1>2, <1>3, PTL DEF PipesSpec
=============================================================================
