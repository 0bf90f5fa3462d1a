-------------------------- MODULE NumberedPipesProofs --------------------------
(***************************************************************************)
(* For every size of the ring, every set of lines and every limit: the     *)
(* types of NumberedPipes, who waits for whom (WaitsBackwards), which pipe *)
(* a command reads (InputAddressed), and when SIGPIPE and the prompt come. *)
(*                                                                         *)
(* A pipe is named after the command it was made for, so names only grow.  *)
(* RingInv says which names the ring and the children can hold: names of   *)
(* the past, each in one slot, and none that a reader took out of it.      *)
(***************************************************************************)
EXTENDS NumberedPipes, SequenceTheorems, TLAPS

\* The pipe of the command in execution exists only while it is being forked.
RingInv ==
  /\ \A i, j \in Slots : Number_pipe[i] # 0 /\ Number_pipe[i] = Number_pipe[j] => i = j
  /\ \A i \in Slots : Number_pipe[i] <= front
  /\ \A i \in Slots : Number_pipe[i] = front => shell \in {"fork", "parent"}
  /\ shell = "parent" => proc[front].in = Number_pipe[cmd_cnt(front)]
  /\ shell \in {"fork", "parent"} => front <= Len(cmds)

\* Commands that were not forked hold nothing; a command reads a pipe of the past.
ChildInv ==
  /\ \A c \in Ids : c > front \/ (c = front /\ shell # "parent") => proc[c] = NoChild
  /\ \A c \in Ids : proc[c].in <= c
  /\ lastpid # 0 => lastpid < front \/ (lastpid = front /\ shell = "parent")

NumInv == NumTypeOK /\ RingInv /\ ChildInv /\ WaitsBackwards
-----------------------------------------------------------------------------
LEMMA SlotNumbers ==
  ASSUME NumTypeOK, NEW c \in Ids, c <= Len(cmds)
  PROVE  /\ cmd_cnt(c) \in Slots /\ pip_num(c) \in Slots
         /\ PipesTo(c) \in 0..MaxCommands
         /\ PipesTo(c) # 0 => PipesTo(c) \in OpenPipes
<1>1. c \in 1..Len(cmds)
  BY DEF Ids, NumTypeOK
<1>2. cmds[c] \in TypedCommand
  BY <1>1 DEF NumTypeOK
<1>3. cmds[c].k \in Nat \cup {NoPipe}
  BY <1>2 DEF TypedCommand
<1>4. NUMPIPE_SIZE \in Nat \ {0} /\ c \in Nat \ {0} /\ cmds[c].k + c \in Nat
  BY <1>3, SizesAssumption DEF Ids, NoPipe
<1>5. cmd_cnt(c) \in Slots /\ pip_num(c) \in Slots
  BY <1>4 DEF cmd_cnt, pip_num, Slots
<1>6. Number_pipe[pip_num(c)] \in 0..MaxCommands
  BY <1>5 DEF NumTypeOK
<1>7. Number_pipe[pip_num(c)] # 0 => Number_pipe[pip_num(c)] \in OpenPipes
  BY <1>5 DEF OpenPipes
<1> QED
  BY <1>5, <1>6, <1>7, SizesAssumption DEF PipesTo

LEMMA OpenPipesAreIds == NumTypeOK => OpenPipes \subseteq Ids
  BY SizesAssumption DEF NumTypeOK, OpenPipes, Ids

LEMMA FrontPending ==
  ASSUME NumTypeOK, \/ shell = "next" /\ front <= Len(cmds)
                    \/ RingInv /\ shell \in {"fork", "parent"}
  PROVE  front \in Ids /\ front <= Len(cmds)
  BY SizesAssumption DEF NumTypeOK, RingInv, Ids

LEMMA Typed ==
  ASSUME NumTypeOK, ReadLine
  PROVE  /\ cmds' \in Seq(TypedCommand) /\ Len(cmds') \in Len(cmds)..MaxCommands
         /\ \A i \in 1..Len(cmds) : cmds'[i] = cmds[i]
<1>1. PICK line \in Lines :
        /\ Len(cmds) + Len(line) <= MaxCommands
        /\ \E garbage \in SUBSET {i \in DOMAIN line : line[i].redirect} :
             cmds' = cmds \o [i \in DOMAIN line |->
               [line[i] EXCEPT !.isExclamationmark = @ \/ i \in garbage]]
  BY DEF ReadLine
<1>2. PICK garbage \in SUBSET {i \in DOMAIN line : line[i].redirect} :
        cmds' = cmds \o [i \in DOMAIN line |->
          [line[i] EXCEPT !.isExclamationmark = @ \/ i \in garbage]]
  BY <1>1
<1> DEFINE typed == [i \in DOMAIN line |->
                       [line[i] EXCEPT !.isExclamationmark = @ \/ i \in garbage]]
<1>3. line \in Seq(TypedCommand)
  BY LinesAssumption
<1>4. \A i \in DOMAIN line : typed[i] \in TypedCommand
  <2> TAKE i \in DOMAIN line
  <2>1. line[i] \in TypedCommand
    BY <1>3
  <2> QED BY <2>1 DEF TypedCommand
<1>5. typed \in Seq(TypedCommand) /\ Len(typed) = Len(line)
  BY <1>3, <1>4
<1> HIDE DEF typed
<1>6. cmds \in Seq(TypedCommand) /\ cmds' = cmds \o typed
  BY <1>2 DEF NumTypeOK, typed
<1>7. /\ cmds' \in Seq(TypedCommand) /\ Len(cmds') = Len(cmds) + Len(typed)
      /\ \A i \in 1..(Len(cmds) + Len(typed)) :
           cmds'[i] = IF i <= Len(cmds) THEN cmds[i] ELSE typed[i - Len(cmds)]
  BY <1>5, <1>6, ConcatProperties
<1>8. Len(cmds) \in Nat /\ Len(typed) \in Nat /\ MaxCommands \in Nat
  BY <1>5, <1>6, LenProperties, SizesAssumption
<1> QED BY <1>1, <1>5, <1>7, <1>8

LEMMA TypesStep ==
  ASSUME NumTypeOK, RingInv, [NumNext]_vars
  PROVE  NumTypeOK'
<1> USE SizesAssumption
<1>1. CASE ReadLine
  <2>1. cmds' \in Seq(TypedCommand) /\ Len(cmds') \in Len(cmds)..MaxCommands
    BY <1>1, Typed
  <2>2. front' \in 1..(Len(cmds') + 1)
    BY <1>1, <2>1 DEF NumTypeOK, ReadLine
  <2> QED BY <1>1, <2>1, <2>2 DEF NumTypeOK, ReadLine
<1>2. CASE EndOfInput
  BY <1>2 DEF NumTypeOK, EndOfInput, ShellEnds
<1>3. CASE PrintUnset
  BY <1>3 DEF NumTypeOK, PrintUnset, ShellEnds
<1>4. CASE Builtin
  BY <1>4 DEF NumTypeOK, Builtin, Pending, PopCommand
<1>5. CASE MakePipe
  <2>1. front \in Ids /\ front <= Len(cmds)
    BY <1>5, FrontPending DEF MakePipe, Pending
  <2>2. Number_pipe' \in [Slots -> 0..MaxCommands]
    <3>0. front \in 0..MaxCommands /\ Number_pipe \in [Slots -> 0..MaxCommands]
      BY <2>1 DEF NumTypeOK, Ids
    <3>1. CASE Number_pipe' = [Number_pipe EXCEPT ![pip_num(front)] = front]
      BY <3>0, <3>1
    <3>2. CASE UNCHANGED Number_pipe
      BY <3>2 DEF NumTypeOK
    <3> QED BY <1>5, <3>1, <3>2 DEF MakePipe
  <2> QED
    BY <1>5, <2>2 DEF NumTypeOK, MakePipe
<1>6. CASE PipeFails
  BY <1>6 DEF NumTypeOK, PipeFails, ShellEnds
<1>7. CASE Exit
  BY <1>7 DEF NumTypeOK, Exit, ShellEnds
<1>8. CASE Fork
  <2>1. front \in Ids /\ front <= Len(cmds)
    BY <1>8, FrontPending DEF Fork
  <2>2. Number_pipe[cmd_cnt(front)] \in 0..MaxCommands /\ PipesTo(front) \in 0..MaxCommands
    BY <2>1, SlotNumbers DEF NumTypeOK
  <2>3. [state |-> "forked", holds |-> OpenPipes, in |-> Number_pipe[cmd_cnt(front)],
         out |-> PipesTo(front), written |-> 0] \in Child
    BY <2>2, OpenPipesAreIds DEF Child
  <2>4. proc' \in [Ids -> Child]
    BY <1>8, <2>3 DEF NumTypeOK, Fork
  <2>5. lastpid' \in 0..MaxCommands
    BY <1>8, <2>1 DEF Fork, Ids
  <2> QED
    BY <1>8, <2>4, <2>5 DEF NumTypeOK, Fork
<1>9. CASE CloseInput
  <2>1. front \in Ids /\ front <= Len(cmds)
    BY <1>9, FrontPending DEF CloseInput
  <2>2. Number_pipe' \in [Slots -> 0..MaxCommands]
    BY <1>9, <2>1, SlotNumbers DEF NumTypeOK, CloseInput
  <2> QED
    BY <1>9, <2>1, <2>2 DEF NumTypeOK, CloseInput, PopCommand, Ids
<1>10. CASE LineDone
  BY <1>10 DEF NumTypeOK, LineDone
<1>11. CASE WaitLast
  <2>1. \A c \in Ids : [proc[c] EXCEPT !.state = "reaped"] \in Child
    <3> TAKE c \in Ids
    <3>1. proc[c] \in Child
      BY DEF NumTypeOK
    <3> QED BY <3>1 DEF Child
  <2>2. proc' \in [Ids -> Child]
    BY <1>11, <2>1 DEF NumTypeOK, WaitLast, Ids
  <2> QED BY <1>11, <2>2 DEF NumTypeOK, WaitLast
<1>12. CASE ChildHandler
  <2>1. \A c \in Ids : [proc[c] EXCEPT !.state = "reaped"] \in Child
    <3> TAKE c \in Ids
    <3>1. proc[c] \in Child
      BY DEF NumTypeOK
    <3> QED BY <3>1 DEF Child
  <2>2. proc' \in [Ids -> Child]
    BY <1>12, <2>1 DEF NumTypeOK, ChildHandler
  <2> QED BY <1>12, <2>2 DEF NumTypeOK, ChildHandler, shellvars
<1>13. ASSUME NEW c \in Ids, Redirect(c)
       PROVE  NumTypeOK'
  <2>1. proc[c] \in Child
    BY DEF NumTypeOK
  <2> DEFINE out == IF KeepsOutput(c) THEN proc[c].out ELSE 0
             new == [proc[c] EXCEPT !.state = "running",
                       !.holds = @ \ {proc[c].in, proc[c].out}, !.out = out]
  <2>2. proc' = [proc EXCEPT ![c] = new]
    BY <1>13 DEF Redirect, NumTypeOK
  <2>3. new \in Child
    <3>1. out \in 0..MaxCommands
      BY <2>1, SizesAssumption DEF Child
    <3> HIDE DEF out
    <3> QED BY <2>1, <3>1 DEF Child
  <2> HIDE DEF new
  <2>4. proc' \in [Ids -> Child]
    BY <2>2, <2>3 DEF NumTypeOK
  <2> QED BY <1>13, <2>4 DEF NumTypeOK, Redirect, shellvars
<1>14. ASSUME NEW c \in Ids, Write(c)
       PROVE  NumTypeOK'
  <2>1. proc[c] \in Child
    BY DEF NumTypeOK
  <2>2. proc[c].out \in Ids /\ [proc[c] EXCEPT !.written = @ + 1] \in Child
    BY <1>14, <2>1 DEF Write, Writes, Child, Ids
  <2>3. proc' \in [Ids -> Child]
    BY <1>14, <2>2 DEF Write, NumTypeOK
  <2>5. bytes[proc[c].out] \in 0..Capacity /\ bytes[proc[c].out] < Capacity
    BY <1>14, <2>2 DEF Write, NumTypeOK
  <2>6. bytes[proc[c].out] + 1 \in 0..Capacity
    BY <2>5
  <2>4. bytes' \in [Ids -> 0..Capacity]
    BY <1>14, <2>6 DEF Write, NumTypeOK
  <2> QED BY <1>14, <2>3, <2>4 DEF NumTypeOK, Write, shellvars
<1>15. ASSUME NEW c \in Ids, Read(c)
       PROVE  NumTypeOK'
  <2>0. proc[c] \in Child /\ proc[c].in # 0
    BY <1>15 DEF NumTypeOK, Read
  <2>1. proc[c].in \in Ids
    BY <2>0 DEF Child, Ids
  <2>2. bytes' \in [Ids -> 0..Capacity]
    BY <1>15, <2>1 DEF Read, NumTypeOK
  <2> QED BY <1>15, <2>2 DEF NumTypeOK, Read, shellvars
<1>16. ASSUME NEW c \in Ids, End(c)
       PROVE  NumTypeOK'
  <2>0. proc[c] \in Child
    BY DEF NumTypeOK
  <2>1. [proc[c] EXCEPT !.state = "zombie", !.holds = {}] \in Child
    BY <2>0 DEF Child
  <2>2. proc' \in [Ids -> Child]
    BY <1>16, <2>1 DEF End, NumTypeOK
  <2> QED BY <1>16, <2>2 DEF NumTypeOK, End, shellvars
<1>17. CASE UNCHANGED vars
  BY <1>17 DEF NumTypeOK, vars
<1> QED
  BY <1>1, <1>2, <1>3, <1>4, <1>5, <1>6, <1>7, <1>8, <1>9, <1>10, <1>11, <1>12, <1>13,
     <1>14, <1>15, <1>16, <1>17
  DEF NumNext, ShellStep, ChildStep, Quit, SigPipe, Finish
-----------------------------------------------------------------------------
(* Most steps only take descriptors away, and are away from fork.          *)

Forking == {"fork", "parent"}

SameShell ==
  \/ shell' = shell /\ front' = front /\ Len(cmds') = Len(cmds)
  \/ shell \notin Forking /\ shell' \notin Forking /\ front' \in {front, front + 1}

FewerEnds ==
  \A c \in Ids :
    /\ proc'[c].in = proc[c].in
    /\ c >= front /\ proc[c] = NoChild => proc'[c] = NoChild
    /\ \A p \in Ids : HasWriteEnd(c, p)' => HasWriteEnd(c, p)
    /\ proc'[c].state = proc[c].state \/ ~HasWriteEnd(c, proc[c].in)'

LEMMA Shrink ==
  ASSUME NumInv, NumTypeOK', SameShell, FewerEnds, lastpid' = lastpid,
         \/ Number_pipe' = Number_pipe
         \/ Number_pipe' = [i \in Slots |-> 0] /\ shell' \notin Forking
  PROVE  NumInv'
<1> USE DEF NumInv
<1>1. RingInv'
  <2>1. CASE Number_pipe' = Number_pipe
    BY <2>1, FrontPending DEF RingInv, SameShell, Forking, FewerEnds, NumTypeOK, cmd_cnt
  <2>2. CASE Number_pipe' = [i \in Slots |-> 0] /\ shell' \notin Forking
    BY <2>2 DEF RingInv, NumTypeOK, Forking
  <2> QED BY <2>1, <2>2
<1>2. ChildInv'
  <2>1. \A c \in Ids : c > front' \/ (c = front' /\ shell' # "parent") => proc'[c] = NoChild
    <3> TAKE c \in Ids
    <3>1. c > front' \/ (c = front' /\ shell' # "parent") =>
            c > front \/ (c = front /\ shell # "parent")
      BY DEF SameShell, Forking, NumTypeOK, Ids
    <3> QED BY <3>1 DEF ChildInv, FewerEnds, NumTypeOK, Ids
  <2>2. \A c \in Ids : proc'[c].in <= c
    BY DEF ChildInv, FewerEnds
  <2>3. lastpid' # 0 => lastpid' < front' \/ (lastpid' = front' /\ shell' = "parent")
    BY DEF ChildInv, SameShell, Forking, NumTypeOK
  <2> QED BY <2>1, <2>2, <2>3 DEF ChildInv
<1>3. WaitsBackwards'
  <2> SUFFICES ASSUME NEW c \in Ids, proc'[c].in # 0
               PROVE  /\ proc'[c].in \in OpenPipes' => shell' = "parent" /\ front' = c
                      /\ \A d \in Ids : HasWriteEnd(d, proc[c].in)' =>
                           d < c \/ (d = c /\ proc'[c].state = "forked")
    BY DEF WaitsBackwards
  <2>1. proc'[c].in = proc[c].in /\ proc[c].in \in Ids
    <3>1. proc'[c].in = proc[c].in
      BY DEF FewerEnds
    <3>2. proc[c] \in Child
      BY DEF NumTypeOK
    <3> QED BY <3>1, <3>2 DEF Child, Ids
  <2>2. OpenPipes' \subseteq OpenPipes
    BY DEF OpenPipes
  <2>3. proc'[c].in \in OpenPipes' => shell' = "parent" /\ front' = c
    <3>1. CASE Number_pipe' = Number_pipe
      BY <2>1, <2>2, <3>1 DEF WaitsBackwards, SameShell, Forking
    <3>2. CASE Number_pipe' = [i \in Slots |-> 0]
      BY <2>1, <3>2 DEF OpenPipes, Ids
    <3> QED BY <3>1, <3>2
  <2>4. ASSUME NEW d \in Ids, HasWriteEnd(d, proc[c].in)'
        PROVE  d < c \/ (d = c /\ proc'[c].state = "forked")
    BY <2>1, <2>4 DEF FewerEnds, WaitsBackwards
  <2> QED BY <2>3, <2>4
<1> QED BY <1>1, <1>2, <1>3

\* One child changes, for less.
LEMMA ShrinkOne ==
  ASSUME NumInv, NumTypeOK', UNCHANGED shellvars, NEW c \in Ids,
         \A d \in Ids \ {c} : proc'[d] = proc[d],
         proc[c].state \in Alive, proc'[c].in = proc[c].in,
         proc'[c].state \notin Alive \/
           /\ proc'[c].holds \cup {proc'[c].out} \subseteq proc[c].holds \cup {proc[c].out, 0}
           /\ proc'[c].state = proc[c].state \/
                proc[c].in \notin (proc'[c].holds \cup {proc'[c].out}) \ {0}
  PROVE  NumInv'
<1>1. FewerEnds
  <2> SUFFICES ASSUME NEW d \in Ids
               PROVE  /\ proc'[d].in = proc[d].in
                      /\ d >= front /\ proc[d] = NoChild => proc'[d] = NoChild
                      /\ \A p \in Ids : HasWriteEnd(d, p)' => HasWriteEnd(d, p)
                      /\ proc'[d].state = proc[d].state \/ ~HasWriteEnd(d, proc[d].in)'
    BY DEF FewerEnds
  <2>1. CASE d # c
    BY <2>1 DEF HasWriteEnd
  <2>2. CASE d = c
    BY <2>2 DEF HasWriteEnd, NoChild, Alive, Ids
  <2> QED BY <2>1, <2>2
<1>2. SameShell
  BY DEF SameShell, shellvars
<1> QED BY <1>1, <1>2, Shrink DEF shellvars
-----------------------------------------------------------------------------
(* The three steps of a fork.                                              *)

LEMMA MakePipeStep ==
  ASSUME NumInv, NumTypeOK', MakePipe
  PROVE  NumInv'
<1> USE DEF NumInv
<1>1. front \in Ids /\ front <= Len(cmds) /\ front' = front /\ shell' = "fork"
      /\ UNCHANGED <<cmds, proc, lastpid>> /\ shell = "next"
  BY FrontPending DEF MakePipe, Pending
<1>2. Number_pipe' = Number_pipe \/
        /\ pip_num(front) \in Slots
        /\ Number_pipe' = [Number_pipe EXCEPT ![pip_num(front)] = front]
  BY <1>1, SlotNumbers DEF MakePipe
<1>3. \A i \in Slots : Number_pipe[i] \in Nat /\ Number_pipe[i] < front
  BY <1>1 DEF RingInv, NumTypeOK
<1>4. RingInv'
  <2>1. \A i, j \in Slots : Number_pipe'[i] # 0 /\ Number_pipe'[i] = Number_pipe'[j] => i = j
    BY <1>2, <1>3 DEF RingInv, NumTypeOK
  <2>2. \A i \in Slots : Number_pipe'[i] <= front
    <3>1. Number_pipe \in [Slots -> 0..MaxCommands] /\ front \in Nat
      BY <1>1 DEF NumTypeOK, Ids
    <3> QED BY <1>2, <1>3, <3>1
  <2> QED BY <1>1, <2>1, <2>2 DEF RingInv
<1>5. ChildInv'
  BY <1>1 DEF ChildInv, NumTypeOK, Ids
<1>6. OpenPipes' \subseteq OpenPipes \cup {front}
  BY <1>2 DEF OpenPipes, NumTypeOK
<1>7. \A c \in Ids : proc[c].in # front \/ proc[c].in = 0
  BY <1>1 DEF ChildInv, NoChild, NumTypeOK, Ids
<1>8. WaitsBackwards'
  BY <1>1, <1>6, <1>7 DEF WaitsBackwards, HasWriteEnd
<1> QED BY <1>4, <1>5, <1>8

LEMMA ForkStep ==
  ASSUME NumInv, NumTypeOK', Fork
  PROVE  NumInv'
<1> USE DEF NumInv
<1>1. front \in Ids /\ front <= Len(cmds) /\ front' = front /\ shell = "fork"
      /\ shell' = "parent" /\ lastpid' = front /\ UNCHANGED <<cmds, Number_pipe>>
  BY FrontPending DEF Fork
<1>2. /\ cmd_cnt(front) \in Slots /\ Number_pipe[cmd_cnt(front)] \in 0..front
      /\ PipesTo(front) \in OpenPipes \cup {0}
  BY <1>1, SlotNumbers DEF RingInv, NumTypeOK
<1>3. /\ proc'[front] = [state |-> "forked", holds |-> OpenPipes,
           in |-> Number_pipe[cmd_cnt(front)], out |-> PipesTo(front), written |-> 0]
      /\ \A c \in Ids \ {front} : proc'[c] = proc[c]
  BY <1>1 DEF Fork, NumTypeOK
<1>4. RingInv'
  BY <1>1, <1>2, <1>3 DEF RingInv, cmd_cnt
<1>5. ChildInv'
  BY <1>1, <1>2, <1>3 DEF ChildInv, NumTypeOK, Ids
<1>6. WaitsBackwards'
  <2> SUFFICES ASSUME NEW c \in Ids, proc'[c].in # 0
               PROVE  /\ proc'[c].in \in OpenPipes' => shell' = "parent" /\ front' = c
                      /\ \A d \in Ids : HasWriteEnd(d, proc[c].in)' =>
                           d < c \/ (d = c /\ proc'[c].state = "forked")
    BY DEF WaitsBackwards
  <2>1. OpenPipes' = OpenPipes
    BY <1>1 DEF OpenPipes
  <2>2. CASE c = front
    <3>1. ASSUME NEW d \in Ids, d > front
          PROVE  ~HasWriteEnd(d, proc[c].in)'
      <4>1. proc'[d] = NoChild
        BY <1>1, <1>3, <3>1 DEF ChildInv, NumTypeOK, Ids
      <4> QED BY <4>1 DEF HasWriteEnd, NoChild, Alive
    <3> QED BY <1>1, <1>3, <2>2, <3>1 DEF NumTypeOK, Ids
  <2>3. CASE c # front
    <3>1. proc'[c] = proc[c] /\ c < front /\ proc[c].in \notin OpenPipes
      BY <1>1, <1>3, <2>3 DEF ChildInv, NoChild, NumTypeOK, Ids, WaitsBackwards
    <3>2. ~HasWriteEnd(front, proc[c].in)'
      <4>1. proc'[front].holds = OpenPipes /\ proc'[front].out = PipesTo(front)
        BY <1>3
      <4> QED BY <1>1, <1>2, <3>1, <4>1 DEF HasWriteEnd
    <3>3. \A d \in Ids \ {front} : HasWriteEnd(d, proc[c].in)' => HasWriteEnd(d, proc[c].in)
      BY <1>3, <3>1 DEF HasWriteEnd
    <3> QED BY <1>1, <2>1, <3>1, <3>2, <3>3 DEF WaitsBackwards
  <2> QED BY <2>2, <2>3
<1> QED BY <1>4, <1>5, <1>6

LEMMA CloseInputStep ==
  ASSUME NumInv, NumTypeOK', CloseInput
  PROVE  NumInv'
<1> USE DEF NumInv
<1>1. front \in Ids /\ front <= Len(cmds) /\ front' = front + 1 /\ shell = "parent"
      /\ shell' = "next" /\ UNCHANGED <<cmds, lastpid, proc>>
  BY FrontPending DEF CloseInput, PopCommand
<1>2. /\ cmd_cnt(front) \in Slots
      /\ Number_pipe' = [Number_pipe EXCEPT ![cmd_cnt(front)] = 0]
      /\ proc[front].in = Number_pipe[cmd_cnt(front)]
  BY <1>1, SlotNumbers DEF CloseInput, RingInv
<1>3. \A i \in Slots : Number_pipe'[i] \in Nat /\ Number_pipe'[i] <= front
  BY <1>1, <1>2 DEF RingInv, NumTypeOK, Ids
<1>4. RingInv'
  BY <1>1, <1>2, <1>3 DEF RingInv, NumTypeOK, Ids
<1>5. ChildInv'
  BY <1>1 DEF ChildInv, NumTypeOK, Ids
<1>6. OpenPipes' = OpenPipes \ {proc[front].in}
  BY <1>2 DEF OpenPipes, RingInv, NumTypeOK
<1>7. \A c \in Ids : proc[c].in # 0 => proc[c].in \notin OpenPipes'
  BY <1>1, <1>6 DEF WaitsBackwards
<1>8. WaitsBackwards'
  BY <1>1, <1>7 DEF WaitsBackwards, HasWriteEnd
<1> QED BY <1>4, <1>5, <1>8
-----------------------------------------------------------------------------
LEMMA Started == NumInit => NumInv
<1> SUFFICES ASSUME NumInit PROVE NumInv
  OBVIOUS
<1> USE SizesAssumption
<1>1. NoChild \in Child /\ Slots # {}
  BY DEF NoChild, Child, Slots
<1>2. NumTypeOK
  <2>1. cmds \in Seq(TypedCommand) /\ Len(cmds) = 0
    BY DEF NumInit
  <2>2. proc \in [Ids -> Child] /\ bytes \in [Ids -> 0..Capacity]
    BY <1>1 DEF NumInit
  <2>3. Number_pipe \in [Slots -> 0..MaxCommands] /\ lastpid \in 0..MaxCommands
    BY DEF NumInit
  <2>4. front \in 1..(Len(cmds) + 1) /\ Len(cmds) <= MaxCommands
    BY <2>1 DEF NumInit
  <2> QED BY <2>1, <2>2, <2>3, <2>4 DEF NumInit, NumTypeOK
<1>3. RingInv /\ ChildInv /\ WaitsBackwards
  BY DEF NumInit, RingInv, ChildInv, WaitsBackwards, NoChild, Ids
<1> QED BY <1>2, <1>3 DEF NumInv

LEMMA Preserved == NumInv /\ [NumNext]_vars => NumInv'
<1> SUFFICES ASSUME NumInv, [NumNext]_vars PROVE NumInv'
  OBVIOUS
<1>1. NumTypeOK'
  BY TypesStep DEF NumInv
<1>2. ASSUME SameShell, lastpid' = lastpid, proc' = proc,
             \/ Number_pipe' = Number_pipe
             \/ Number_pipe' = [i \in Slots |-> 0] /\ shell' \notin Forking
      PROVE  NumInv'
  <2>1. FewerEnds
    BY <1>2 DEF FewerEnds, HasWriteEnd
  <2> QED BY <1>1, <1>2, <2>1, Shrink
<1>3. ASSUME ShellEnds, shell \notin Forking PROVE NumInv'
  BY <1>2, <1>3 DEF ShellEnds, SameShell, Forking
<1>4. CASE ReadLine \/ Builtin \/ LineDone
  BY <1>2, <1>4 DEF ReadLine, Builtin, Pending, PopCommand, LineDone, SameShell, Forking
<1>5. CASE EndOfInput \/ PrintUnset \/ PipeFails \/ Exit
  BY <1>3, <1>5 DEF EndOfInput, PrintUnset, PipeFails, Exit, Pending, Forking
<1>6. CASE MakePipe \/ Fork \/ CloseInput
  BY <1>1, <1>6, MakePipeStep, ForkStep, CloseInputStep
<1>7. CASE WaitLast
  <2>1. SameShell
    BY <1>7 DEF WaitLast, SameShell, Forking
  <2>2. FewerEnds
    <3>1. CASE lastpid = 0
      BY <1>7, <3>1 DEF WaitLast, FewerEnds, HasWriteEnd
    <3>2. CASE lastpid # 0
      <4>1. lastpid \in Ids /\ proc[lastpid].state \notin Alive
        BY <1>7, <3>2 DEF WaitLast, NumInv, NumTypeOK, Ids
      <4>3. lastpid < front
        BY <1>7, <3>2 DEF WaitLast, NumInv, ChildInv
      <4>2. /\ proc'[lastpid] = [proc[lastpid] EXCEPT !.state = "reaped"]
            /\ \A c \in Ids \ {lastpid} : proc'[c] = proc[c]
        BY <1>7, <3>2, <4>1 DEF WaitLast, NumInv, NumTypeOK
      <4>4. proc[lastpid] \in Child /\ front \in Nat
        BY <4>1 DEF NumInv, NumTypeOK
      <4> QED BY <4>1, <4>2, <4>3, <4>4 DEF FewerEnds, HasWriteEnd, Child, Alive, Ids
    <3> QED BY <3>1, <3>2
  <2> QED BY <1>1, <1>7, <2>1, <2>2, Shrink DEF WaitLast
<1>8. CASE ChildHandler
  <2>1. SameShell
    BY <1>8 DEF ChildHandler, SameShell, shellvars
  <2>2. FewerEnds
    <3> SUFFICES ASSUME NEW c \in Ids
                 PROVE  /\ proc'[c].in = proc[c].in
                        /\ c >= front /\ proc[c] = NoChild => proc'[c] = NoChild
                        /\ \A p \in Ids : HasWriteEnd(c, p)' => HasWriteEnd(c, p)
                        /\ proc'[c].state = proc[c].state \/ ~HasWriteEnd(c, proc[c].in)'
      BY DEF FewerEnds
    <3>1. proc[c] \in Child
      BY DEF NumInv, NumTypeOK
    <3>2. CASE proc[c].state = "zombie"
      <4>1. proc'[c] = [proc[c] EXCEPT !.state = "reaped"]
        BY <1>8, <3>2 DEF ChildHandler
      <4> QED BY <3>1, <3>2, <4>1 DEF Child, HasWriteEnd, NoChild, Alive
    <3>3. CASE proc[c].state # "zombie"
      <4>1. proc'[c] = proc[c]
        BY <1>8, <3>3 DEF ChildHandler
      <4> QED BY <4>1 DEF HasWriteEnd
    <3> QED BY <3>2, <3>3
  <2> QED BY <1>1, <1>8, <2>1, <2>2, Shrink DEF ChildHandler, shellvars
<1>9. ASSUME NEW c \in Ids, Redirect(c) PROVE NumInv'
  <2>1. proc[c] \in Child
    BY DEF NumInv, NumTypeOK
  <2>2. /\ proc'[c].in = proc[c].in
        /\ proc'[c].holds = proc[c].holds \ {proc[c].in, proc[c].out}
        /\ proc'[c].out = IF KeepsOutput(c) THEN proc[c].out ELSE 0
        /\ \A d \in Ids \ {c} : proc'[d] = proc[d]
    BY <1>9, <2>1 DEF Redirect, NumInv, NumTypeOK, Child
  <2>3. /\ proc'[c].holds \cup {proc'[c].out} \subseteq proc[c].holds \cup {proc[c].out, 0}
        /\ proc[c].in \notin (proc'[c].holds \cup {proc'[c].out}) \ {0}
    BY <2>2 DEF KeepsOutput
  <2>4. proc[c].state \in Alive /\ UNCHANGED shellvars
    BY <1>9 DEF Redirect, Alive
  <2> QED BY <1>1, <2>2, <2>3, <2>4, ShrinkOne
<1>10. ASSUME NEW c \in Ids, proc[c].state = "running", End(c) PROVE NumInv'
  <2>1. /\ proc'[c].in = proc[c].in /\ proc'[c].state = "zombie"
        /\ \A d \in Ids \ {c} : proc'[d] = proc[d]
    BY <1>10 DEF End, NumInv, NumTypeOK, Child
  <2> QED BY <1>1, <1>10, <2>1, ShrinkOne DEF End, Alive
<1>11. ASSUME NEW c \in Ids, Write(c) PROVE NumInv'
  <2>1. /\ proc'[c].in = proc[c].in /\ proc'[c].state = proc[c].state
        /\ proc'[c].holds = proc[c].holds /\ proc'[c].out = proc[c].out
        /\ \A d \in Ids \ {c} : proc'[d] = proc[d]
    BY <1>11 DEF Write, NumInv, NumTypeOK, Child
  <2> QED BY <1>1, <1>11, <2>1, ShrinkOne DEF Write, Writes, Alive
<1>12. ASSUME NEW c \in Ids, Read(c) PROVE NumInv'
  BY <1>2, <1>12 DEF Read, shellvars, SameShell
<1>13. CASE UNCHANGED vars
  BY <1>2, <1>13 DEF vars, SameShell
<1> QED
  BY <1>4, <1>5, <1>6, <1>7, <1>8, <1>9, <1>10, <1>11, <1>12, <1>13
  DEF NumNext, ShellStep, ChildStep, Quit, SigPipe, Finish, Writes

\* The types hold in every state.
THEOREM NumTypesCorrect == NumSpec => []NumTypeOK
<1>1. NumInv => NumTypeOK
  BY DEF NumInv
<1> QED BY <1>1, Started, Preserved, PTL DEF NumSpec

\* No command waits for the end of file of a pipe that itself, a later command or the
\* shell keeps open, whatever the ring and the lines (ExecuteCommand).
THEOREM CommandsWaitBackwards == NumSpec => []WaitsBackwards
<1>1. NumInv => WaitsBackwards
  BY DEF NumInv
<1> QED BY <1>1, Started, Preserved, PTL DEF NumSpec
-----------------------------------------------------------------------------
(* Slots: numbers modulo the size of the ring.                             *)

LEMMA Quotient ==
  ASSUME NEW a \in Int, NEW n \in Nat \ {0}
  PROVE  a = n * (a \div n) + (a % n) /\ a % n \in 0..(n - 1) /\ a \div n \in Int
OBVIOUS

LEMMA SmallMultiple ==
  ASSUME NEW n \in Nat \ {0}, NEW t \in Int, NEW r \in Int, n * t = r, r < n, -n < r
  PROVE  t = 0
<1>1. CASE t >= 1
  <2>1. n * t = n * (t - 1) + n
    OBVIOUS
  <2>2. n * (t - 1) >= 0
    BY <1>1
  <2> QED BY <2>1, <2>2
<1>2. CASE t <= -1
  <2>1. n * t = n * (t + 1) - n
    OBVIOUS
  <2>2. n * (t + 1) <= 0
    BY <1>2
  <2> QED BY <2>1, <2>2
<1> QED BY <1>1, <1>2

\* Two numbers have the same remainder when it is the difference that has none.
LEMMA Congruent ==
  ASSUME NEW a \in Int, NEW b \in Int, NEW n \in Nat \ {0}
  PROVE  (a - b) % n = 0 <=> a % n = b % n
<1> DEFINE qa == a \div n
           qb == b \div n
           q == (a - b) \div n
<1>1. a = n * qa + (a % n) /\ b = n * qb + (b % n) /\ a - b = n * q + ((a - b) % n)
  BY Quotient
<1>2. /\ a % n \in 0..(n - 1) /\ b % n \in 0..(n - 1) /\ (a - b) % n \in 0..(n - 1)
      /\ qa \in Int /\ qb \in Int /\ q \in Int
  BY Quotient
<1> HIDE DEF qa, qb, q
<1>3. n * (q - qa + qb) = (a % n) - (b % n) - ((a - b) % n)
  <2>1. n * (q - qa + qb) = n * q - n * qa + n * qb
    BY <1>2
  <2> DEFINE xa == n * qa
             xb == n * qb
             x == n * q
             ra == a % n
             rb == b % n
             r == (a - b) % n
  <2>2. xa \in Int /\ xb \in Int /\ x \in Int /\ ra \in Int /\ rb \in Int /\ r \in Int
    BY <1>2
  <2>3. a = xa + ra /\ b = xb + rb /\ a - b = x + r
    BY <1>1
  <2> HIDE DEF xa, xb, x, ra, rb, r
  <2>4. x - xa + xb = ra - rb - r
    BY <2>2, <2>3
  <2> QED BY <2>1, <2>4 DEF xa, xb, x, ra, rb, r
<1>4. ASSUME (a - b) % n = 0 PROVE a % n = b % n
  <2>1. q - qa + qb = 0
    BY <1>2, <1>3, <1>4, SmallMultiple
  <2> QED BY <1>2, <1>3, <1>4, <2>1
<1>5. ASSUME a % n = b % n PROVE (a - b) % n = 0
  <2>1. n * (qa - qb - q) = (a - b) % n
    BY <1>1, <1>2, <1>5
  <2>2. qa - qb - q = 0
    BY <1>2, <2>1, SmallMultiple
  <2> QED BY <1>2, <2>1, <2>2
<1> QED BY <1>4, <1>5

\* A command takes the slot of w when the two numbers that the shell computes agree.
LEMMA SlotTaken ==
  ASSUME NumTypeOK, NEW c \in 1..Len(cmds), NEW w \in 1..Len(cmds), cmds[w].k # NoPipe
  PROVE  TakesSlotOf(c, w) <=> cmds[c].options = "EXEC" /\ cmd_cnt(c) = pip_num(w)
<1>1. cmds[w].k \in Nat
  <2>1. cmds[w] \in TypedCommand
    BY DEF NumTypeOK
  <2> QED BY <2>1 DEF TypedCommand
<1>2. c \in Int /\ w \in Int /\ NUMPIPE_SIZE \in Nat \ {0}
  BY SizesAssumption DEF NumTypeOK
<1>3. c - w - cmds[w].k = c - (cmds[w].k + w)
  BY <1>1, <1>2
<1>4. PICK b \in Int : b = cmds[w].k + w
  BY <1>1, <1>2
<1>5. (c - b) % NUMPIPE_SIZE = 0 <=> c % NUMPIPE_SIZE = b % NUMPIPE_SIZE
  BY <1>2, Congruent
<1> QED BY <1>3, <1>4, <1>5 DEF TakesSlotOf, cmd_cnt, pip_num
-----------------------------------------------------------------------------
(* Which pipe a command reads, which pipes the ring keeps, and what the    *)
(* shell knows of the last command.                                        *)

\* A command writes to a pipe of the past, or its own.
OutInv ==
  \A c \in Ids : /\ proc[c].out <= c
                 /\ proc[c].out # 0 => cmds[c].k # NoPipe
                 /\ proc[c].state = "none" => proc[c] = NoChild

\* The ring keeps a pipe until its reader is there.
Kept ==
  shell # "exited" =>
    \A c \in Ids : \/ proc[c].out \in OpenPipes \cup {0}
                   \/ \E d \in Ids : proc[d].in = proc[c].out

\* A command that came after w has taken the slot that w's pipe was in.
Taken(w) == \E d \in w..(front - 1) : TakesSlotOf(d, w)

\* Until then the pipe is in its slot, and after that nowhere in the ring.
InSlot(w) ==
  proc[w].state # "none" /\ proc[w].out # 0 /\ shell # "exited" =>
    IF Taken(w) THEN proc[w].out \notin OpenPipes
                ELSE Number_pipe[pip_num(w)] = proc[w].out

PipeInv == OutInv /\ Kept /\ InputAddressed /\ \A w \in Ids : InSlot(w)

\* Needtowait and lastpid, while a command without a pipe is the last that ran.
WaitInv ==
  /\ shell \in {"fork", "parent"} => cmds[front].options = "EXEC"
  /\ shell \in {"prompt", "wait"} => front = Len(cmds) + 1
  /\ shell = "parent" => lastpid = front
  /\ lastpid # 0 => proc[lastpid].state # "none"
  /\ shell \in {"prompt", "next", "wait"} /\ front > 1
       => (cmds[front - 1].options = "EXEC" /\ cmds[front - 1].k = NoPipe
             => /\ Needtowait /\ lastpid = front - 1
                /\ shell = "prompt" => proc[front - 1].state \notin Alive)

LEMMA Forked ==
  ASSUME NumInv, NEW c \in Ids, proc[c].state # "none"
  PROVE  c \in 1..Len(cmds) /\ (c < front \/ (c = front /\ shell = "parent"))
<1>1. c < front \/ (c = front /\ shell = "parent")
  BY DEF NumInv, ChildInv, NoChild, NumTypeOK, Ids
<1> QED BY <1>1 DEF NumInv, NumTypeOK, RingInv, Ids

\* The commands that are there keep what they say.
SameCmds ==
  /\ Len(cmds) <= Len(cmds')
  /\ \A i \in 1..Len(cmds) : cmds'[i].options = cmds[i].options /\ cmds'[i].k = cmds[i].k

\* No command is forked; one that is may give up its output, or end.
SameChildren ==
  \A c \in Ids : /\ proc'[c].in = proc[c].in
                 /\ proc'[c].out \in {proc[c].out, 0}
                 /\ proc'[c].state = "none" <=> proc[c].state = "none"
                 /\ proc'[c].state = "none" => proc'[c] = proc[c]
                 /\ proc[c].state \notin Alive => proc'[c].state \notin Alive

\* The ring gains at most a pipe that no command writes to yet.
SameRing ==
  /\ shell # "exited"
  /\ \A i \in Slots : Number_pipe[i] # 0 => Number_pipe'[i] = Number_pipe[i]
  /\ \A c \in Ids : proc[c].out # 0 /\ proc[c].out \in OpenPipes' => proc[c].out \in OpenPipes

\* Every step but Fork and CloseInput.
LEMMA OtherStep ==
  ASSUME NumInv, NumTypeOK', PipeInv, SameCmds, SameChildren,
         shell' = "exited" \/ SameRing,
         \/ front' = front
         \/ front' = front + 1 /\ front <= Len(cmds) /\ cmds[front].options # "EXEC"
  PROVE  PipeInv'
<1>typ. NumTypeOK /\ Len(cmds) \in Nat /\ front \in 1..(Len(cmds) + 1)
  BY DEF NumInv, NumTypeOK
<1>0. \A c \in Ids : proc[c].state # "none" =>
        c \in 1..Len(cmds) /\ (c < front \/ (c = front /\ shell = "parent"))
  BY Forked
<1>1. \A w, c \in 1..Len(cmds) : TakesSlotOf(c, w)' <=> TakesSlotOf(c, w)
  BY DEF SameCmds, TakesSlotOf
<1>2. \A w \in 1..Len(cmds) : pip_num(w)' = pip_num(w)
  BY DEF SameCmds, pip_num
<1>3. OutInv'
  <2> SUFFICES ASSUME NEW c \in Ids
               PROVE  /\ proc'[c].out <= c
                      /\ proc'[c].out # 0 => cmds'[c].k # NoPipe
                      /\ proc'[c].state = "none" => proc'[c] = NoChild
    BY DEF OutInv
  <2>1. c >= 0 /\ proc[c].out <= c /\ (proc[c].out # 0 => cmds[c].k # NoPipe)
        /\ (proc[c].state = "none" => proc[c] = NoChild)
    BY DEF PipeInv, OutInv, Ids
  <2>2. proc'[c].out = proc[c].out \/ proc'[c].out = 0
    BY DEF SameChildren
  <2>3. proc[c].out # 0 => c \in 1..Len(cmds)
    BY <1>0, <2>1 DEF NoChild
  <2> QED BY <2>1, <2>2, <2>3 DEF SameChildren, SameCmds
<1>4. Kept'
  <2> SUFFICES ASSUME shell' # "exited", NEW c \in Ids
               PROVE  \/ proc'[c].out \in OpenPipes' \cup {0}
                      \/ \E d \in Ids : proc'[d].in = proc'[c].out
    BY DEF Kept
  <2>1. OpenPipes \subseteq OpenPipes'
    BY DEF SameRing, OpenPipes
  <2>2. proc[c].out \in OpenPipes \cup {0} \/ \E d \in Ids : proc[d].in = proc[c].out
    BY DEF PipeInv, Kept, SameRing
  <2> QED BY <2>1, <2>2 DEF SameChildren
<1>5. InputAddressed'
  <2> SUFFICES ASSUME NEW w \in Ids, NEW c \in Ids,
                      proc'[w].state # "none", proc'[c].state # "none", proc'[w].out # 0
               PROVE  proc'[c].in = proc'[w].out <=>
                        /\ w <= c /\ TakesSlotOf(c, w)'
                        /\ \A d \in w..(c - 1) : ~TakesSlotOf(d, w)'
    BY DEF InputAddressed
  <2>1. /\ proc[w].state # "none" /\ proc[c].state # "none" /\ proc[w].out # 0
        /\ proc'[c].in = proc[c].in /\ proc'[w].out = proc[w].out
    BY DEF SameChildren
  <2>2. w \in 1..Len(cmds) /\ c \in 1..Len(cmds)
    BY <1>0, <2>1
  <2>3. proc[c].in = proc[w].out <=>
          /\ w <= c /\ TakesSlotOf(c, w)
          /\ \A d \in w..(c - 1) : ~TakesSlotOf(d, w)
    BY <2>1 DEF PipeInv, InputAddressed
  <2>4. \A d \in w..(c - 1) : TakesSlotOf(d, w)' <=> TakesSlotOf(d, w)
    BY <1>1, <1>typ, <2>2
  <2> QED BY <1>1, <2>1, <2>2, <2>3, <2>4
<1>6. ASSUME NEW w \in Ids PROVE InSlot(w)'
  <2> SUFFICES ASSUME proc'[w].state # "none", proc'[w].out # 0, shell' # "exited"
               PROVE  IF Taken(w)' THEN proc'[w].out \notin OpenPipes'
                                   ELSE Number_pipe'[pip_num(w)'] = proc'[w].out
    BY DEF InSlot
  <2>1. /\ proc[w].state # "none" /\ proc[w].out # 0 /\ shell # "exited"
        /\ proc'[w].out = proc[w].out /\ SameRing
    BY DEF SameChildren, SameRing
  <2>2. w \in 1..Len(cmds) /\ w <= front
    BY <1>0, <1>typ, <2>1
  <2>3. Taken(w)' <=> Taken(w)
    <3>1. \A d \in w..(front - 1) : TakesSlotOf(d, w)' <=> TakesSlotOf(d, w)
      BY <1>1, <1>typ, <2>2
    <3>2. CASE front' = front
      BY <3>1, <3>2 DEF Taken
    <3>3. CASE front' = front + 1 /\ front <= Len(cmds) /\ cmds[front].options # "EXEC"
      <4>1. PICK f \in 1..Len(cmds) : f = front
        BY <1>typ, <3>3
      <4>2. ~TakesSlotOf(f, w)
        BY <3>3, <4>1 DEF TakesSlotOf
      <4>3. ~TakesSlotOf(f, w)'
        BY <1>1, <2>2, <4>2
      <4>4. \A d : d \in w..(front' - 1) <=> d \in w..(front - 1) \/ d = f
        BY <1>typ, <2>2, <3>3, <4>1
      <4>5. (\E d \in w..(front' - 1) : TakesSlotOf(d, w)') <=>
              \E d \in w..(front - 1) : TakesSlotOf(d, w)
        BY <3>1, <4>2, <4>3, <4>4
      <4> QED BY <4>5 DEF Taken
    <3> QED BY <3>2, <3>3
  <2>4. IF Taken(w) THEN proc[w].out \notin OpenPipes
                    ELSE Number_pipe[pip_num(w)] = proc[w].out
    BY <2>1 DEF PipeInv, InSlot
  <2>5. pip_num(w) \in Slots
    BY <1>typ, <2>2, SlotNumbers
  <2> QED BY <1>2, <2>1, <2>2, <2>3, <2>4, <2>5 DEF SameRing
<1> QED BY <1>3, <1>4, <1>5, <1>6 DEF PipeInv

\* The new command reads what its slot holds: a pipe whose writer is w if it is the
\* first to take the slot of w.
LEMMA ForkPipes ==
  ASSUME NumInv, PipeInv, WaitInv, Fork
  PROVE  PipeInv'
<1>typ. NumTypeOK /\ RingInv /\ ChildInv /\ WaitsBackwards
  BY DEF NumInv
<1>1. /\ front \in Ids /\ front \in 1..Len(cmds) /\ front' = front /\ shell = "fork"
      /\ shell' = "parent" /\ UNCHANGED <<cmds, Number_pipe>>
      /\ cmds[front].options = "EXEC"
  BY <1>typ, FrontPending DEF Fork, WaitInv, Ids
<1>2. /\ cmd_cnt(front) \in Slots /\ pip_num(front) \in Slots
      /\ Number_pipe[cmd_cnt(front)] \in 0..front
      /\ PipesTo(front) \in OpenPipes \cup {0} /\ PipesTo(front) <= front
      /\ PipesTo(front) # 0 =>
           cmds[front].k # NoPipe /\ PipesTo(front) = Number_pipe[pip_num(front)]
  <2>1. cmd_cnt(front) \in Slots /\ pip_num(front) \in Slots
        /\ PipesTo(front) \in OpenPipes \cup {0}
    BY <1>1, <1>typ, SlotNumbers
  <2>2. \A i \in Slots : Number_pipe[i] \in 0..front
    BY <1>1, <1>typ DEF NumTypeOK, RingInv
  <2> QED BY <2>1, <2>2, <1>1 DEF PipesTo
<1>3. /\ proc'[front] = [state |-> "forked", holds |-> OpenPipes,
           in |-> Number_pipe[cmd_cnt(front)], out |-> PipesTo(front), written |-> 0]
      /\ \A c \in Ids \ {front} : proc'[c] = proc[c]
      /\ proc[front] = NoChild
  BY <1>1, <1>typ DEF Fork, NumTypeOK, ChildInv
<1>new. /\ proc'[front].in = Number_pipe[cmd_cnt(front)] /\ proc'[front].out = PipesTo(front)
        /\ proc'[front].state = "forked"
  BY <1>3
<1>open. OpenPipes' = OpenPipes /\ \A i \in Slots : Number_pipe[i] # 0 => Number_pipe[i] \in OpenPipes
  BY <1>1 DEF OpenPipes
<1>old. \A w, c \in Ids : TakesSlotOf(c, w)' <=> TakesSlotOf(c, w)
  BY <1>1 DEF TakesSlotOf
<1>4. OutInv'
  BY <1>1, <1>2, <1>3, <1>new DEF PipeInv, OutInv
<1>5. Kept'
  <2> SUFFICES ASSUME NEW c \in Ids, proc'[c].out # 0
               PROVE  proc'[c].out \in OpenPipes \/ \E d \in Ids : proc'[d].in = proc'[c].out
    BY <1>open DEF Kept
  <2>1. CASE c = front
    BY <2>1, <1>2, <1>new
  <2>2. CASE c # front
    <3>1. proc[c].out \in OpenPipes \/ \E d \in Ids : proc[d].in = proc[c].out
      BY <2>2, <1>1, <1>3 DEF PipeInv, Kept
    <3>2. ASSUME NEW d \in Ids, proc[d].in = proc[c].out PROVE proc'[d].in = proc'[c].out
      BY <2>2, <3>2, <1>3 DEF NoChild
    <3> QED BY <2>2, <3>1, <3>2, <1>3
  <2> QED BY <2>1, <2>2
<1>6. InputAddressed'
  <2> SUFFICES ASSUME NEW w \in Ids, NEW c \in Ids,
                      proc'[w].state # "none", proc'[c].state # "none", proc'[w].out # 0
               PROVE  proc'[c].in = proc'[w].out <=>
                        /\ w <= c /\ TakesSlotOf(c, w)
                        /\ \A d \in w..(c - 1) : ~TakesSlotOf(d, w)
    <3>1. \A w, c \in Ids : \A d \in w..(c - 1) : d \in Ids
      BY <1>typ, SizesAssumption DEF Ids
    <3> QED BY <3>1, <1>old DEF InputAddressed
  <2>1. CASE w # front /\ c # front
    BY <2>1, <1>3 DEF PipeInv, InputAddressed
  <2>2. CASE w = front /\ c # front
    <3>1. proc[c].state # "none" /\ proc'[c] = proc[c]
      BY <2>2, <1>3
    <3>2. c < front
      BY <3>1, <1>1, Forked
    <3>3. proc[c].in \notin OpenPipes
      BY <1>1, <1>typ, <3>2 DEF WaitsBackwards, OpenPipes
    <3>4. proc'[w].out \in OpenPipes
      BY <2>2, <1>2, <1>new
    <3>5. ~(w <= c)
      BY <2>2, <3>2, <1>1 DEF Ids
    <3> QED BY <3>1, <3>3, <3>4, <3>5
  <2>3. CASE w = front /\ c = front
    <3>1. PipesTo(front) # 0 /\ cmds[front].k # NoPipe
      BY <2>3, <1>2, <1>new
    <3>2. proc'[front].in = proc'[front].out <=> cmd_cnt(front) = pip_num(front)
      BY <3>1, <1>2, <1>new, <1>typ DEF RingInv
    <3>3. TakesSlotOf(front, front) <=> cmd_cnt(front) = pip_num(front)
      BY <3>1, <1>1, <1>typ, SlotTaken
    <3>4. front <= front /\ \A d \in front..(front - 1) : ~TakesSlotOf(d, front)
      BY <1>1 DEF Ids
    <3> QED BY <2>3, <3>2, <3>3, <3>4
  <2>4. CASE w # front /\ c = front
    <3>1. proc[w].state # "none" /\ proc'[w] = proc[w] /\ proc[w].out # 0
      BY <2>4, <1>3
    <3>2. w < front /\ w \in 1..Len(cmds)
      BY <3>1, <1>1, Forked
    <3>3. cmds[w].k # NoPipe /\ pip_num(w) \in Slots
      BY <3>1, <3>2, <1>typ, SlotNumbers DEF PipeInv, OutInv
    <3>4. IF Taken(w) THEN proc[w].out \notin OpenPipes
                      ELSE Number_pipe[pip_num(w)] = proc[w].out
      BY <3>1, <1>1 DEF PipeInv, InSlot
    <3>5. CASE Taken(w)
      <4>1. Number_pipe[cmd_cnt(front)] # proc[w].out
        BY <3>1, <3>4, <3>5, <1>2, <1>open
      <4> QED BY <2>4, <3>1, <3>5, <4>1, <1>new DEF Taken
    <3>6. CASE ~Taken(w)
      <4>1. Number_pipe[cmd_cnt(front)] = proc[w].out <=> cmd_cnt(front) = pip_num(w)
        BY <3>1, <3>3, <3>4, <3>6, <1>2, <1>typ DEF RingInv
      <4>2. TakesSlotOf(front, w) <=> cmd_cnt(front) = pip_num(w)
        BY <3>2, <3>3, <1>1, <1>typ, SlotTaken
      <4>3. w <= front
        BY <3>2, <1>1 DEF Ids
      <4> QED BY <2>4, <3>1, <3>6, <4>1, <4>2, <4>3, <1>new DEF Taken
    <3> QED BY <3>5, <3>6
  <2> QED BY <2>1, <2>2, <2>3, <2>4
<1>7. ASSUME NEW w \in Ids PROVE InSlot(w)'
  <2>0. Taken(w)' <=> Taken(w)
    BY <1>1 DEF Taken, TakesSlotOf
  <2>1. pip_num(w)' = pip_num(w)
    BY <1>1 DEF pip_num
  <2>2. CASE w = front
    <3>1. ~Taken(w)
      BY <2>2, <1>1 DEF Taken, Ids
    <3> QED BY <2>0, <2>1, <2>2, <3>1, <1>1, <1>2, <1>new DEF InSlot
  <2>3. CASE w # front
    <3>1. proc'[w] = proc[w]
      BY <2>3, <1>3
    <3> QED BY <2>0, <2>1, <3>1, <1>1, <1>open DEF PipeInv, InSlot
  <2> QED BY <2>2, <2>3
<1> QED BY <1>4, <1>5, <1>6, <1>7 DEF PipeInv

\* The pipe that the shell drops has its reader.
LEMMA ClosePipes ==
  ASSUME NumInv, PipeInv, WaitInv, CloseInput
  PROVE  PipeInv'
<1>typ. NumTypeOK /\ RingInv /\ ChildInv /\ WaitsBackwards
  BY DEF NumInv
<1>1. /\ front \in Ids /\ front \in 1..Len(cmds) /\ front' = front + 1 /\ shell = "parent"
      /\ shell' = "next" /\ UNCHANGED <<cmds, proc>> /\ cmds[front].options = "EXEC"
  BY <1>typ, FrontPending DEF CloseInput, PopCommand, WaitInv, Ids
<1>2. /\ cmd_cnt(front) \in Slots
      /\ Number_pipe' = [Number_pipe EXCEPT ![cmd_cnt(front)] = 0]
      /\ proc[front].in = Number_pipe[cmd_cnt(front)]
  BY <1>1, <1>typ, SlotNumbers DEF CloseInput, RingInv
<1>3. OpenPipes' = OpenPipes \ {proc[front].in}
  BY <1>2, <1>typ DEF OpenPipes, RingInv, NumTypeOK
<1>4. OutInv' /\ InputAddressed'
  BY <1>1 DEF PipeInv, OutInv, InputAddressed, TakesSlotOf
<1>5. Kept'
  <2> SUFFICES ASSUME NEW c \in Ids
               PROVE  \/ proc[c].out \in OpenPipes' \cup {0}
                      \/ \E d \in Ids : proc[d].in = proc[c].out
    BY <1>1 DEF Kept
  <2>1. proc[c].out \in OpenPipes \cup {0} \/ \E d \in Ids : proc[d].in = proc[c].out
    BY <1>1 DEF PipeInv, Kept
  <2> QED BY <2>1, <1>1, <1>3
<1>6. ASSUME NEW w \in Ids PROVE InSlot(w)'
  <2> SUFFICES ASSUME proc[w].state # "none", proc[w].out # 0
               PROVE  IF Taken(w)' THEN proc[w].out \notin OpenPipes'
                                   ELSE Number_pipe'[pip_num(w)] = proc[w].out
    <3>1. pip_num(w)' = pip_num(w)
      BY <1>1 DEF pip_num
    <3> QED BY <3>1, <1>1 DEF InSlot
  <2>1. w <= front /\ w \in 1..Len(cmds) /\ cmds[w].k # NoPipe /\ pip_num(w) \in Slots
    <3>1. w \in 1..Len(cmds) /\ (w < front \/ w = front)
      BY Forked
    <3> QED BY <3>1, <1>1, <1>typ, SlotNumbers DEF PipeInv, OutInv, Ids
  <2>2. IF Taken(w) THEN proc[w].out \notin OpenPipes
                    ELSE Number_pipe[pip_num(w)] = proc[w].out
    BY <1>1 DEF PipeInv, InSlot
  <2>3. TakesSlotOf(front, w) <=> cmd_cnt(front) = pip_num(w)
    BY <2>1, <1>1, <1>typ, SlotTaken
  <2>4. Taken(w)' <=> Taken(w) \/ TakesSlotOf(front, w)
    <3>1. \A d : d \in w..(front' - 1) <=> d \in w..(front - 1) \/ d = front
      BY <2>1, <1>1 DEF Ids
    <3>2. \A d : TakesSlotOf(d, w)' <=> TakesSlotOf(d, w)
      BY <1>1 DEF TakesSlotOf
    <3> QED BY <3>1, <3>2 DEF Taken
  <2>5. CASE Taken(w)
    BY <2>2, <2>4, <2>5, <1>3
  <2>6. CASE ~Taken(w) /\ TakesSlotOf(front, w)
    BY <2>2, <2>3, <2>4, <2>6, <1>2, <1>3
  <2>7. CASE ~Taken(w) /\ ~TakesSlotOf(front, w)
    <3>1. Number_pipe'[pip_num(w)] = Number_pipe[pip_num(w)]
      BY <2>1, <2>3, <2>7, <1>2, <1>typ DEF NumTypeOK
    <3> QED BY <2>2, <2>4, <2>7, <3>1
  <2> QED BY <2>5, <2>6, <2>7
<1> QED BY <1>4, <1>5, <1>6 DEF PipeInv
-----------------------------------------------------------------------------
(* The steps, one by one.                                                  *)

AllInv == NumInv /\ PipeInv /\ WaitInv

\* A step of a child, or of the handler.
LEMMA ChildPipes ==
  ASSUME AllInv, NumTypeOK', UNCHANGED shellvars, SameChildren
  PROVE  PipeInv' /\ WaitInv'
<1>typ. NumInv /\ PipeInv /\ WaitInv /\ NumTypeOK /\ UNCHANGED <<cmds, front, shell, Needtowait, lastpid, Number_pipe>>
  BY DEF AllInv, NumInv, shellvars
<1>1. SameCmds
  BY <1>typ DEF SameCmds, NumTypeOK
<1>2. shell' = "exited" \/ SameRing
  BY <1>typ DEF SameRing, OpenPipes
<1>3. PipeInv'
  BY <1>typ, <1>1, <1>2, OtherStep
<1>4. (front > 1 => front - 1 \in Ids) /\ (lastpid # 0 => lastpid \in Ids)
  BY <1>typ, SizesAssumption DEF NumTypeOK, Ids
<1>5. WaitInv'
  BY <1>typ, <1>4 DEF WaitInv, SameChildren
<1> QED BY <1>3, <1>5

LEMMA OneChild ==
  ASSUME NumTypeOK, NEW c \in Ids, \A d \in Ids \ {c} : proc'[d] = proc[d],
         proc'[c].in = proc[c].in, proc'[c].out \in {proc[c].out, 0},
         proc[c].state \in Alive, proc'[c].state \in Alive \cup {"zombie"}
  PROVE  SameChildren
BY DEF SameChildren, Alive

LEMMA ChildrenKept ==
  ASSUME NumTypeOK, NEW c \in Ids,
         Redirect(c) \/ Write(c) \/ Read(c) \/ (proc[c].state = "running" /\ End(c))
  PROVE  SameChildren /\ UNCHANGED shellvars
<1>0. proc \in [Ids -> Child] /\ proc[c] \in Child
  BY DEF NumTypeOK
<1>1. CASE Redirect(c)
  <2>1. /\ proc'[c].in = proc[c].in /\ proc'[c].state = "running"
        /\ proc'[c].out = IF KeepsOutput(c) THEN proc[c].out ELSE 0
        /\ \A d \in Ids \ {c} : proc'[d] = proc[d]
    BY <1>0, <1>1 DEF Redirect, Child
  <2> QED BY <1>1, <2>1, OneChild DEF Redirect, Alive
<1>2. CASE Write(c)
  <2>1. /\ proc'[c].in = proc[c].in /\ proc'[c].state = proc[c].state
        /\ proc'[c].out = proc[c].out
        /\ \A d \in Ids \ {c} : proc'[d] = proc[d]
    BY <1>0, <1>2 DEF Write, Child
  <2> QED BY <1>2, <2>1, OneChild DEF Write, Writes, Alive
<1>3. CASE Read(c)
  BY <1>3 DEF Read, SameChildren
<1>4. CASE proc[c].state = "running" /\ End(c)
  <2>1. /\ proc'[c].in = proc[c].in /\ proc'[c].state = "zombie"
        /\ proc'[c].out = proc[c].out
        /\ \A d \in Ids \ {c} : proc'[d] = proc[d]
    BY <1>0, <1>4 DEF End, Child
  <2> QED BY <1>4, <2>1, OneChild DEF End, Alive
<1> QED BY <1>1, <1>2, <1>3, <1>4

LEMMA Reaped ==
  ASSUME NumTypeOK, PipeInv, NEW S \in SUBSET Ids, \A c \in S : proc[c].state \notin Alive /\ proc[c].state # "none",
         proc' = [c \in Ids |-> IF c \in S THEN [proc[c] EXCEPT !.state = "reaped"] ELSE proc[c]]
  PROVE  SameChildren
<1> SUFFICES ASSUME NEW c \in Ids
             PROVE  /\ proc'[c].in = proc[c].in
                    /\ proc'[c].out \in {proc[c].out, 0}
                    /\ proc'[c].state = "none" <=> proc[c].state = "none"
                    /\ proc'[c].state = "none" => proc'[c] = proc[c]
                    /\ proc[c].state \notin Alive => proc'[c].state \notin Alive
  BY DEF SameChildren
<1>1. proc[c] \in Child
  BY DEF NumTypeOK
<1>2. proc'[c] = IF c \in S THEN [proc[c] EXCEPT !.state = "reaped"] ELSE proc[c]
  OBVIOUS
<1> QED BY <1>1, <1>2 DEF Child, Alive

\* The end of the shell: nothing is asked of the ring any more.
LEMMA EndPipes ==
  ASSUME AllInv, NumTypeOK', ShellEnds
  PROVE  PipeInv' /\ WaitInv'
<1>1. SameCmds /\ SameChildren
  BY DEF ShellEnds, SameCmds, SameChildren, AllInv, NumInv, NumTypeOK
<1>2. PipeInv'
  BY <1>1, OtherStep DEF ShellEnds, AllInv
<1>3. WaitInv'
  BY DEF ShellEnds, WaitInv, AllInv
<1> QED BY <1>2, <1>3

LEMMA MakePipes ==
  ASSUME AllInv, NumTypeOK', MakePipe
  PROVE  PipeInv' /\ WaitInv'
<1>typ. NumInv /\ PipeInv /\ NumTypeOK
  BY DEF AllInv, NumInv
<1>1. front \in Ids /\ front \in 1..Len(cmds) /\ front' = front /\ shell = "next"
      /\ shell' = "fork" /\ UNCHANGED <<cmds, proc, lastpid>>
      /\ cmds[front].options = "EXEC"
  BY <1>typ, FrontPending DEF MakePipe, Pending, Ids
<1>2. SameCmds /\ SameChildren
  BY <1>1, <1>typ DEF SameCmds, SameChildren, NumTypeOK
<1>3. \/ Number_pipe' = Number_pipe
      \/ /\ pip_num(front) \in Slots /\ Number_pipe[pip_num(front)] = 0
         /\ Number_pipe' = [Number_pipe EXCEPT ![pip_num(front)] = front]
  BY <1>1, <1>typ, SlotNumbers DEF MakePipe, PipesTo
<1>4. \A i \in Slots : Number_pipe[i] # 0 => Number_pipe'[i] = Number_pipe[i]
  BY <1>3, <1>typ DEF NumTypeOK
<1>5. OpenPipes' \subseteq OpenPipes \cup {front}
  BY <1>3, <1>typ DEF OpenPipes, NumTypeOK
<1>6. ASSUME NEW c \in Ids, proc[c].out # 0 PROVE proc[c].out # front
  <2>1. proc[c].state # "none" /\ proc[c].out <= c
    BY <1>6, <1>typ DEF PipeInv, OutInv, NoChild
  <2>2. c < front
    BY <2>1, <1>1, <1>typ, Forked
  <2> QED BY <2>1, <2>2, <1>1 DEF Ids
<1>7. SameRing
  BY <1>1, <1>4, <1>5, <1>6 DEF SameRing
<1>8. PipeInv'
  BY <1>typ, <1>1, <1>2, <1>7, OtherStep
<1>9. WaitInv'
  BY <1>1 DEF WaitInv, AllInv
<1> QED BY <1>8, <1>9

\* The other steps of the shell leave the ring alone.
LEMMA ShellPipes ==
  ASSUME AllInv, NumTypeOK', ReadLine \/ Builtin \/ LineDone \/ WaitLast
  PROVE  PipeInv' /\ WaitInv'
<1>typ. NumInv /\ PipeInv /\ WaitInv /\ NumTypeOK
  BY DEF AllInv, NumInv
<1>num. /\ Len(cmds) \in Nat /\ front \in 1..(Len(cmds) + 1) /\ Len(cmds) <= MaxCommands
        /\ lastpid \in 0..MaxCommands /\ MaxCommands \in Nat
  BY <1>typ, SizesAssumption DEF NumTypeOK
<1>1. Number_pipe' = Number_pipe /\ shell # "exited"
  BY DEF ReadLine, Builtin, Pending, LineDone, WaitLast
<1>2. SameRing
  BY <1>1 DEF SameRing, OpenPipes
<1>3. SameCmds
  BY <1>typ, <1>num, Typed DEF SameCmds, Builtin, LineDone, WaitLast
<1>last. ASSUME WaitLast, lastpid # 0
         PROVE  /\ lastpid \in Ids /\ proc[lastpid].state \notin Alive \cup {"none"}
                /\ SameChildren
  <2>1. lastpid \in Ids /\ proc[lastpid].state \notin Alive
    BY <1>last, <1>num DEF WaitLast, Ids
  <2>2. proc[lastpid].state # "none"
    BY <1>last, <1>typ DEF WaitInv
  <2> DEFINE S == {lastpid}
  <2>3. proc' = [c \in Ids |-> IF c \in S THEN [proc[c] EXCEPT !.state = "reaped"]
                                           ELSE proc[c]]
    BY <1>last, <1>typ, <2>1 DEF WaitLast, NumTypeOK
  <2>4. S \in SUBSET Ids /\ \A c \in S : proc[c].state \notin Alive /\ proc[c].state # "none"
    BY <2>1, <2>2
  <2> HIDE DEF S
  <2>5. SameChildren
    BY <1>typ, <2>3, <2>4, Reaped
  <2> QED BY <2>1, <2>2, <2>5
<1>4. SameChildren
  <2>1. CASE proc' = proc
    BY <2>1 DEF SameChildren
  <2> QED BY <2>1, <1>last DEF ReadLine, Builtin, LineDone, WaitLast
<1>5. PipeInv'
  <2>1. front' = front \/ (front' = front + 1 /\ front <= Len(cmds) /\ cmds[front].options # "EXEC")
    BY DEF ReadLine, Builtin, Pending, PopCommand, LineDone, WaitLast
  <2> QED BY <1>typ, <1>2, <1>3, <1>4, <2>1, OtherStep
<1>ids. lastpid # 0 => lastpid \in Ids
  BY <1>num DEF Ids
<1>6. WaitInv'
  <2>1. lastpid' # 0 => proc'[lastpid'].state # "none"
    BY <1>4, <1>ids, <1>typ DEF ReadLine, Builtin, LineDone, WaitLast, SameChildren, WaitInv
  <2>2. CASE ReadLine
    <3>1. front > 1 => front - 1 \in 1..Len(cmds)
      BY <1>num
    <3>2. front > 1 => cmds'[front - 1] = cmds[front - 1]
      BY <2>2, <3>1, <1>typ, Typed
    <3> QED BY <2>1, <2>2, <3>2, <1>typ DEF WaitInv, ReadLine
  <2>3. CASE Builtin
    <3>1. front' - 1 = front /\ cmds'[front].options # "EXEC" /\ shell' = "next"
      BY <2>3, <1>num DEF Builtin, Pending, PopCommand
    <3> QED BY <2>1, <3>1 DEF WaitInv
  <2>4. CASE LineDone
    <3>1. front = Len(cmds) + 1
      BY <2>4, <1>num DEF LineDone
    <3> QED BY <2>1, <2>4, <3>1, <1>typ DEF WaitInv, LineDone
  <2>5. CASE WaitLast
    <3>1. lastpid # 0 => proc'[lastpid].state \notin Alive
      BY <1>last, <2>5, <1>4 DEF SameChildren
    <3>2. front > 1 => front - 1 # 0
      BY <1>num
    <3> QED BY <2>1, <2>5, <3>1, <3>2, <1>typ DEF WaitInv, WaitLast
  <2> QED BY <2>2, <2>3, <2>4, <2>5
<1> QED BY <1>5, <1>6

LEMMA ForkWaits ==
  ASSUME AllInv, Fork \/ CloseInput
  PROVE  WaitInv'
<1>typ. NumInv /\ WaitInv /\ NumTypeOK /\ RingInv
  BY DEF AllInv, NumInv
<1>1. front \in Ids /\ front \in Nat /\ proc \in [Ids -> Child]
  BY <1>typ, FrontPending DEF Fork, CloseInput, NumTypeOK, Ids
<1>2. CASE Fork
  <2>1. proc'[front].state = "forked"
    BY <1>1, <1>2 DEF Fork
  <2> QED BY <1>2, <1>typ, <2>1 DEF WaitInv, Fork
<1>3. CASE CloseInput
  <2>1. front' - 1 = front
    BY <1>1, <1>3 DEF CloseInput, PopCommand
  <2> QED BY <1>3, <1>typ, <2>1 DEF WaitInv, CloseInput, PopCommand
<1> QED BY <1>2, <1>3

LEMMA AllStarted == NumInit => AllInv
<1> SUFFICES ASSUME NumInit PROVE PipeInv /\ WaitInv
  BY Started DEF AllInv
<1>1. \A c \in Ids : proc[c] = NoChild
  BY DEF NumInit
<1>2. Len(cmds) = 0 /\ front = 1 /\ shell = "prompt" /\ lastpid = 0
  BY DEF NumInit
<1>3. PipeInv
  BY <1>1 DEF PipeInv, OutInv, Kept, InputAddressed, InSlot, NoChild, Ids
<1>4. WaitInv
  BY <1>2 DEF WaitInv
<1> QED BY <1>3, <1>4

LEMMA AllPreserved == AllInv /\ [NumNext]_vars => AllInv'
<1> SUFFICES ASSUME AllInv, [NumNext]_vars PROVE PipeInv' /\ WaitInv'
  BY Preserved DEF AllInv
<1>typ. NumInv /\ PipeInv /\ WaitInv /\ NumTypeOK /\ NumTypeOK'
  BY TypesStep DEF AllInv, NumInv
<1>1. CASE ReadLine \/ Builtin \/ LineDone \/ WaitLast
  BY <1>1, <1>typ, ShellPipes
<1>2. CASE EndOfInput \/ PrintUnset \/ PipeFails \/ Exit
  BY <1>2, <1>typ, EndPipes DEF EndOfInput, PrintUnset, PipeFails, Exit
<1>3. CASE MakePipe
  BY <1>3, <1>typ, MakePipes
<1>4. CASE Fork \/ CloseInput
  BY <1>4, <1>typ, ForkPipes, ClosePipes, ForkWaits
<1>5. CASE ChildHandler
  <2> DEFINE S == {c \in Ids : proc[c].state = "zombie"}
  <2>1. SameChildren
    <3>1. proc' = [c \in Ids |-> IF c \in S THEN [proc[c] EXCEPT !.state = "reaped"]
                                            ELSE proc[c]]
      BY <1>5 DEF ChildHandler
    <3>2. \A c \in S : proc[c].state \notin Alive /\ proc[c].state # "none"
      BY DEF Alive
    <3>3. S \in SUBSET Ids
      OBVIOUS
    <3> HIDE DEF S
    <3> QED BY <1>typ, <3>1, <3>2, <3>3, Reaped
  <2> QED BY <1>5, <1>typ, <2>1, ChildPipes DEF ChildHandler
<1>6. ASSUME NEW c \in Ids, ChildStep(c) \/ Quit(c) PROVE PipeInv' /\ WaitInv'
  <2>1. Redirect(c) \/ Write(c) \/ Read(c) \/ (proc[c].state = "running" /\ End(c))
    BY <1>6 DEF ChildStep, Quit, SigPipe, Finish, Writes
  <2>2. SameChildren /\ UNCHANGED shellvars
    BY <1>typ, <2>1, ChildrenKept
  <2> QED BY <1>typ, <2>2, ChildPipes
<1>7. CASE UNCHANGED vars
  BY <1>7, <1>typ, ChildPipes DEF vars, shellvars, SameChildren
<1> QED BY <1>1, <1>2, <1>3, <1>4, <1>5, <1>6, <1>7 DEF NumNext, ShellStep

\* A command reads the pipe that was addressed to it and no other, whatever the size of
\* the ring and however far a number reaches (SetPipeNum, ExecuteCommand).
THEOREM InputsAddressed == NumSpec => []InputAddressed
<1>1. AllInv => InputAddressed
  BY DEF AllInv, PipeInv
<1> QED BY <1>1, AllStarted, AllPreserved, PTL DEF NumSpec

\* Who is killed by SIGPIPE wrote for a command that has ended, or after the shell has.
THEOREM SigPipesLate == NumSpec => []NoEarlySigPipe
<1>1. AllInv => NoEarlySigPipe
  <2> SUFFICES ASSUME AllInv, NEW c \in Ids, Writes(c), Broken(proc[c].out), shell # "exited"
               PROVE  \E d \in Ids : proc[d].in = proc[c].out
                                       /\ proc[d].state \in {"zombie", "reaped"}
    BY DEF NoEarlySigPipe
  <2>1. proc[c].out # 0 /\ proc[c].out \notin OpenPipes
    BY DEF Writes, Broken
  <2>2. PICK d \in Ids : proc[d].in = proc[c].out
    BY <2>1 DEF AllInv, PipeInv, Kept
  <2>3. proc[d].state \notin Alive
    BY <2>1, <2>2 DEF Broken, HasReadEnd
  <2>4. proc[d].state # "none"
    BY <2>1, <2>2 DEF AllInv, PipeInv, OutInv, NoChild
  <2>5. proc[d] \in Child
    BY DEF AllInv, NumInv, NumTypeOK
  <2> QED BY <2>2, <2>3, <2>4, <2>5 DEF Child, Alive
<1> QED BY <1>1, AllStarted, AllPreserved, PTL DEF NumSpec

\* At the prompt the last command has ended, if it does not write to a pipe, whether
\* waitpid or the handler has reaped it (Needtowait).
THEOREM PromptsAfterLast == NumSpec => []PromptAfterLast
<1>1. AllInv => PromptAfterLast
  <2> SUFFICES ASSUME AllInv, shell = "prompt", Len(cmds) > 0,
                      cmds[Len(cmds)].options = "EXEC", cmds[Len(cmds)].k = NoPipe
               PROVE  proc[Len(cmds)].state \notin Alive
    BY DEF PromptAfterLast
  <2>1. front > 1 /\ front - 1 = Len(cmds)
    BY DEF AllInv, NumInv, NumTypeOK, WaitInv
  <2> QED BY <2>1 DEF AllInv, WaitInv
<1> QED BY <1>1, AllStarted, AllPreserved, PTL DEF NumSpec
================================================================================
