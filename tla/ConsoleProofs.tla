----------------------------- MODULE ConsoleProofs -----------------------------
(***************************************************************************)
(* Proofs about ConsoleSession, for scripts and reads of any length and    *)
(* whatever the shell prints: the operations in flight, and that the       *)
(* session implements ScriptRunner until two of its reads overlap.         *)
(***************************************************************************)
EXTENDS ConsoleSession, SequenceTheorems, FiniteSetTheorems, TLAPS

Signs == {"text", "percent", "space"}
Lengths == 1..MAX_LENGTH
Ops == {Sent, Failed} \cup Lengths

Positions(s, T) == {i \in 1..Len(s) : s[i] \in T}
Count(s, T) == Cardinality(Positions(s, T))
Among(s, T, n) == {i \in 1..n : s[i] \in T}    \* positions among the first n

ConsoleTypes ==
  /\ wire \in Seq(Signs) /\ log \in Seq(1..Script) /\ taken \in Nat
  /\ remote \in {"runs", "waits", "closed"} /\ prompts \in Nat /\ printed \in Nat
  /\ project \in {3, 4}
  /\ stage \in {"resolve", "connect", "socks", "run", "over", "undefined"}
  /\ front \in Nat \ {0} /\ data_ \in Seq(Signs) /\ reads \in Nat /\ ready \in Seq(Ops)
  /\ missed \in BOOLEAN /\ raced \in BOOLEAN

\* The reads in flight, and those whose callback is awaited.
AllReads == reads + Count(ready, Lengths)

ReadsInv ==
  /\ stage \in {"resolve", "connect", "socks"} => front = 1 /\ reads = 0 /\ ready = <<>>
  /\ AllReads <= front
  /\ project = 4 => reads + Len(ready) <= 1
  /\ project = 3 /\ stage = "run" /\ remote # "closed" => AllReads = front
  /\ raced => project = 3

\* While no reads have overlapped: at most a send and then a read have completed, and
\* a line that was sent is still at the front of the queue.
Alternates ==
  /\ Len(ready) <= 2
  /\ \A i \in 1..Len(ready) : ready[i] < 0 => i = 1
  /\ Len(ready) = 2 => ready[1] < 0 /\ ready[2] > 0

Pending == ready # <<>> /\ ready[1] = Sent

\* The callback that is awaited will find a prompt.
Due == /\ ready # <<>> /\ ready[Len(ready)] > 0
       /\ HasPrompt(SubSeq(data_, 1, ready[Len(ready)]))

\* The prompts printed are in the lines sent, in what was read and in the wire.
PromptsInv ==
  Len(log) + Count(wire, {"percent"}) + (IF Due THEN 1 ELSE 0) <= prompts

OrderInv ==
  ~raced => /\ stage # "undefined"
            /\ Alternates
            /\ Pending => front <= Script
            /\ Len(log) = IF Pending THEN front ELSE front - 1
            /\ PromptsInv

SessionInv == ConsoleTypes /\ ReadsInv /\ OrderInv
-----------------------------------------------------------------------------
(* Counting in sequences.                                                  *)

LEMMA CountNat ==
  ASSUME NEW s, NEW T, Len(s) \in Nat
  PROVE  IsFiniteSet(Positions(s, T)) /\ Count(s, T) \in Nat
<1>1. IsFiniteSet(1..Len(s))
  BY FS_Interval
<1>2. Positions(s, T) \subseteq 1..Len(s)
  BY DEF Positions
<1>3. IsFiniteSet(Positions(s, T))
  BY <1>1, <1>2, FS_Subset
<1> QED BY <1>3, FS_CardinalityType DEF Count

\* What remains when n elements are taken off the front.
LEMMA CountShifted ==
  ASSUME NEW s, NEW u, NEW T, NEW n \in Nat, Len(u) \in Nat, Len(s) = n + Len(u),
         \A k \in 1..Len(u) : u[k] = s[k + n]
  PROVE  Count(s, T) = Cardinality(Among(s, T, n)) + Count(u, T)
<1> DEFINE A == Among(s, T, n)
           B == {i \in (n + 1)..Len(s) : s[i] \in T}
           P == Positions(u, T)
           f == [k \in P |-> k + n]
<1>1. Positions(s, T) = A \cup B /\ A \cap B = {}
  BY DEF Positions, Among
<1>2. IsFiniteSet(A \cup B) /\ A \subseteq A \cup B /\ B \subseteq A \cup B
  <2>1. Len(s) \in Nat
    OBVIOUS
  <2>2. IsFiniteSet(Positions(s, T))
    BY <2>1, CountNat
  <2> QED BY <1>1, <2>2
<1>3. IsFiniteSet(A) /\ IsFiniteSet(B)
  BY <1>2, FS_Subset
<1>4. \A k \in P : k \in 1..Len(u) /\ k + n \in B
  BY DEF Positions
<1>5. \A i \in B : i - n \in P
  <2> SUFFICES ASSUME NEW i \in B PROVE i - n \in 1..Len(u) /\ u[i - n] \in T
    BY DEF Positions
  <2>1. i - n \in 1..Len(u) /\ (i - n) + n = i
    OBVIOUS
  <2>2. u[i - n] = s[(i - n) + n]
    BY <2>1
  <2> QED BY <2>1, <2>2
<1>6. f \in Bijection(P, B)
  <2>1. f \in [P -> B]
    BY <1>4
  <2>2. \A k, l \in P : f[k] = f[l] => k = l
    BY <1>4
  <2>3. \A i \in B : \E k \in P : f[k] = i
    <3> TAKE i \in B
    <3>1. i - n \in P /\ f[i - n] = i
      BY <1>5
    <3> QED BY <3>1
  <2> HIDE DEF f, P, B
  <2> QED BY <2>1, <2>2, <2>3 DEF Bijection, Injection, IsInjective, Surjection
<1>7. Cardinality(P) = Cardinality(B)
  <2> HIDE DEF f, P, B
  <2>1. IsFiniteSet(P)
    BY CountNat DEF P
  <2>2. ExistsBijection(P, B)
    BY <1>6 DEF ExistsBijection
  <2> QED BY <2>1, <2>2, FS_Bijection
<1> HIDE DEF A, B
<1>8. Cardinality(A \cup B) = Cardinality(A) + Cardinality(B) - Cardinality(A \cap B)
  BY <1>3, FS_Union
<1>9. Cardinality(A \cap B) = 0
  BY <1>1, FS_EmptySet
<1>10. Cardinality(A) \in Nat /\ Cardinality(B) \in Nat
  BY <1>3, FS_CardinalityType
<1> QED BY <1>1, <1>7, <1>8, <1>9, <1>10 DEF Count, A

LEMMA CountOne ==
  ASSUME NEW s, NEW T
  PROVE  Cardinality(Among(s, T, 1)) = IF s[1] \in T THEN 1 ELSE 0
<1>1. CASE s[1] \in T
  <2>1. Among(s, T, 1) = {1}
    BY <1>1 DEF Among
  <2> QED BY <1>1, <2>1, FS_Singleton
<1>2. CASE s[1] \notin T
  <2>1. Among(s, T, 1) = {}
    BY <1>2 DEF Among
  <2> QED BY <1>2, <2>1, FS_EmptySet
<1> QED BY <1>1, <1>2

LEMMA CountAdded ==
  ASSUME NEW s, NEW u, NEW T, Len(s) \in Nat, Len(u) = Len(s) + 1,
         \A k \in 1..Len(s) : u[k] = s[k]
  PROVE  Count(u, T) = Count(s, T) + IF u[Len(u)] \in T THEN 1 ELSE 0
<1>1. IsFiniteSet(Positions(s, T)) /\ Count(s, T) \in Nat
  BY CountNat
<1>2. Len(u) \notin Positions(s, T)
  BY DEF Positions
<1>3. CASE u[Len(u)] \in T
  <2>1. Positions(u, T) = Positions(s, T) \cup {Len(u)}
    BY <1>3 DEF Positions
  <2> QED BY <1>1, <1>2, <1>3, <2>1, FS_AddElement DEF Count
<1>4. CASE u[Len(u)] \notin T
  <2>1. Positions(u, T) = Positions(s, T)
    BY <1>4 DEF Positions
  <2> QED BY <1>1, <1>4, <2>1 DEF Count
<1> QED BY <1>3, <1>4

LEMMA CountEmpty == \A T : Count(<<>>, T) = 0
<1> TAKE T
<1>1. Positions(<<>>, T) = {}
  BY DEF Positions
<1> QED BY <1>1, FS_EmptySet DEF Count
-----------------------------------------------------------------------------
(* The queue of completed operations, and the wire.                        *)

LEMMA OpNumbers ==
  /\ Sent \in Ops /\ Failed \in Ops /\ Sent < 0 /\ Failed < 0 /\ Sent # Failed
  /\ \A a \in Ops : a \in Int /\ (a > 0 <=> a \in Lengths)
BY LengthAssumption DEF Ops, Sent, Failed, Lengths

LEMMA Rest ==
  ASSUME NEW s \in Seq(Ops), s # <<>>
  PROVE  /\ Tail(s) \in Seq(Ops) /\ Len(s) \in Nat \ {0} /\ Len(Tail(s)) = Len(s) - 1
         /\ Head(s) = s[1] /\ s[1] \in Ops
         /\ \A k \in 1..(Len(s) - 1) : Tail(s)[k] = s[k + 1]
         /\ Count(Tail(s), Lengths) = Count(s, Lengths) - IF s[1] > 0 THEN 1 ELSE 0
<1>1. /\ Tail(s) \in Seq(Ops) /\ Len(Tail(s)) = Len(s) - 1
      /\ \A k \in 1..Len(Tail(s)) : Tail(s)[k] = s[k + 1]
  BY HeadTailProperties
<1>2. Len(s) \in Nat \ {0} /\ Head(s) = s[1]
  BY EmptySeq
<1>3. s[1] \in Ops
  BY <1>2, ElementOfSeq
<1>4. Len(Tail(s)) \in Nat /\ Len(s) = 1 + Len(Tail(s))
  BY <1>1, <1>2
<1>5. PICK t \in Seq(Ops) : t = Tail(s)
  BY <1>1
<1>6. Count(s, Lengths) = Cardinality(Among(s, Lengths, 1)) + Count(t, Lengths)
  <2>1. /\ Len(t) \in Nat /\ Len(s) = 1 + Len(t) /\ 1 \in Nat
        /\ \A k \in 1..Len(t) : t[k] = s[k + 1]
    BY <1>1, <1>4, <1>5
  <2> QED BY <2>1, CountShifted
<1>7. Count(t, Lengths) \in Nat
  BY <1>4, <1>5, CountNat
<1>8. Count(s, Lengths) = (IF s[1] > 0 THEN 1 ELSE 0) + Count(t, Lengths)
  BY <1>3, <1>6, CountOne, OpNumbers
<1> QED BY <1>1, <1>2, <1>3, <1>5, <1>7, <1>8

LEMMA More ==
  ASSUME NEW s \in Seq(Ops), NEW a \in Ops
  PROVE  /\ Append(s, a) \in Seq(Ops) /\ Len(Append(s, a)) = Len(s) + 1
         /\ Len(s) \in Nat /\ Append(s, a) # <<>>
         /\ \A k \in 1..Len(s) : Append(s, a)[k] = s[k]
         /\ Append(s, a)[Len(s) + 1] = a
         /\ Count(Append(s, a), Lengths) = Count(s, Lengths) + IF a > 0 THEN 1 ELSE 0
<1>1. /\ Append(s, a) \in Seq(Ops) /\ Len(Append(s, a)) = Len(s) + 1 /\ Len(s) \in Nat
      /\ \A k \in 1..Len(s) : Append(s, a)[k] = s[k]
      /\ Append(s, a)[Len(s) + 1] = a
  BY AppendProperties, LenProperties
<1>2. PICK u \in Seq(Ops) : u = Append(s, a)
  BY <1>1
<1>3. Count(u, Lengths) = Count(s, Lengths) + IF u[Len(u)] \in Lengths THEN 1 ELSE 0
  <2>1. Len(s) \in Nat /\ Len(u) = Len(s) + 1 /\ \A k \in 1..Len(s) : u[k] = s[k]
    BY <1>1, <1>2
  <2> QED BY <2>1, CountAdded
<1>4. u # <<>>
  BY <1>1, <1>2, EmptySeq
<1> QED BY <1>1, <1>2, <1>3, <1>4, OpNumbers

LEMMA Printed ==
  ASSUME NEW w \in Seq(Signs)
  PROVE  /\ w \o PromptText \in Seq(Signs) /\ w \o <<"text">> \in Seq(Signs)
         /\ Count(w \o PromptText, {"percent"}) = Count(w, {"percent"}) + 1
         /\ Count(w \o <<"text">>, {"percent"}) = Count(w, {"percent"})
<1>1. <<"percent">> \in Seq(Signs) /\ <<"space">> \in Seq(Signs) /\ <<"text">> \in Seq(Signs)
      /\ Len(<<"percent">>) = 1 /\ Len(<<"space">>) = 1 /\ Len(<<"text">>) = 1
  BY DEF Signs
<1>2. ASSUME NEW v \in Seq(Signs), NEW x \in Signs
      PROVE  /\ v \o <<x>> \in Seq(Signs)
             /\ Count(v \o <<x>>, {"percent"})
                  = Count(v, {"percent"}) + IF x = "percent" THEN 1 ELSE 0
  <2>1. <<x>> \in Seq(Signs) /\ Len(<<x>>) = 1 /\ <<x>>[1] = x /\ Len(v) \in Nat
    BY LenProperties
  <2>2. PICK y \in Seq(Signs) : y = <<x>>
    BY <2>1
  <2>3. /\ v \o y \in Seq(Signs) /\ Len(v \o y) = Len(v) + Len(y)
        /\ \A k \in 1..Len(v) + Len(y) : (v \o y)[k] = IF k <= Len(v) THEN v[k] ELSE y[k - Len(v)]
    BY ConcatProperties
  <2>4. PICK u \in Seq(Signs) : u = v \o y
    BY <2>3
  <2>5. /\ Len(v) \in Nat /\ Len(u) = Len(v) + 1
        /\ \A k \in 1..Len(v) : u[k] = v[k]
    BY <2>1, <2>2, <2>3, <2>4
  <2>6. u[Len(u)] = x
    <3>1. Len(v) + 1 \in 1..Len(v) + Len(y) /\ (Len(v) + 1) - Len(v) = 1 /\ ~(Len(v) + 1 <= Len(v))
      BY <2>1, <2>2
    <3> QED BY <2>1, <2>2, <2>3, <2>4, <2>5, <3>1
  <2>7. Count(u, {"percent"}) = Count(v, {"percent"}) + IF u[Len(u)] \in {"percent"} THEN 1 ELSE 0
    BY <2>5, CountAdded
  <2> QED BY <2>2, <2>4, <2>6, <2>7
<1>3. PICK v \in Seq(Signs) : v = w \o <<"percent">>
  BY <1>1, ConcatProperties
<1>4. w \o PromptText = v \o <<"space">>
  <2>1. PromptText = <<"percent">> \o <<"space">>
    BY DEF PromptText
  <2>2. (w \o <<"percent">>) \o <<"space">> = w \o (<<"percent">> \o <<"space">>)
    BY <1>1, ConcatAssociative
  <2> QED BY <1>3, <2>1, <2>2
<1>5. Count(w, {"percent"}) \in Nat
  BY LenProperties, CountNat
<1>6. "percent" \in Signs /\ "space" \in Signs /\ "text" \in Signs
  BY DEF Signs
<1>7. Count(v, {"percent"}) = Count(w, {"percent"}) + 1
  BY <1>2, <1>3, <1>6
<1>8. /\ v \o <<"space">> \in Seq(Signs)
      /\ Count(v \o <<"space">>, {"percent"}) = Count(v, {"percent"}) + 0
  BY <1>2, <1>6
<1>9. /\ w \o <<"text">> \in Seq(Signs)
      /\ Count(w \o <<"text">>, {"percent"}) = Count(w, {"percent"}) + 0
  BY <1>2, <1>6
<1> QED BY <1>4, <1>5, <1>7, <1>8, <1>9

LEMMA Cut ==
  ASSUME NEW w \in Seq(Signs), NEW n \in 1..Len(w)
  PROVE  /\ SubSeq(w, 1, n) \in Seq(Signs) /\ SubSeq(w, n + 1, Len(w)) \in Seq(Signs)
         /\ Len(SubSeq(w, 1, n)) = n
         /\ Count(SubSeq(w, n + 1, Len(w)), {"percent"})
              + (IF HasPrompt(SubSeq(w, 1, n)) THEN 1 ELSE 0) <= Count(w, {"percent"})
<1>1. Len(w) \in Nat /\ \A k \in 1..Len(w) : w[k] \in Signs
  BY LenProperties, ElementOfSeq
<1>2. /\ SubSeq(w, 1, n) \in Seq(Signs) /\ Len(SubSeq(w, 1, n)) = n
      /\ \A k \in 1..n : SubSeq(w, 1, n)[k] = w[k]
  <2>1. /\ SubSeq(w, 1, n) \in Seq(Signs)
        /\ Len(SubSeq(w, 1, n)) = IF 1 <= n THEN n - 1 + 1 ELSE 0
        /\ \A k \in 1..(n - 1 + 1) : SubSeq(w, 1, n)[k] = w[1 + k - 1]
    BY <1>1, SubSeqProperties
  <2> QED BY <2>1, <1>1
<1>3. PICK u \in Seq(Signs) :
        /\ u = SubSeq(w, n + 1, Len(w)) /\ Len(u) = Len(w) - n
        /\ \A k \in 1..(Len(w) - n) : u[k] = w[k + n]
  <2>1. /\ SubSeq(w, n + 1, Len(w)) \in Seq(Signs)
        /\ Len(SubSeq(w, n + 1, Len(w))) = IF n + 1 <= Len(w) THEN Len(w) - (n + 1) + 1 ELSE 0
        /\ \A k \in 1..(Len(w) - (n + 1) + 1) :
             SubSeq(w, n + 1, Len(w))[k] = w[(n + 1) + k - 1]
    BY <1>1, SubSeqProperties
  <2>2. PICK u \in Seq(Signs) : u = SubSeq(w, n + 1, Len(w))
    BY <2>1
  <2>3. Len(w) - (n + 1) + 1 = Len(w) - n /\ Len(u) = Len(w) - n
    BY <1>1, <2>1, <2>2
  <2>4. ASSUME NEW k \in 1..(Len(w) - n) PROVE u[k] = w[k + n]
    <3>1. (n + 1) + k - 1 = k + n
      OBVIOUS
    <3> QED BY <2>1, <2>2, <2>3, <3>1
  <2> QED BY <2>2, <2>3, <2>4
<1>4. n \in Nat /\ Len(u) \in Nat /\ Len(w) = n + Len(u) /\ \A k \in 1..Len(u) : u[k] = w[k + n]
  BY <1>1, <1>3
<1> DEFINE A == Among(w, {"percent"}, n)
<1>5. Count(w, {"percent"}) = Cardinality(A) + Count(u, {"percent"})
  BY <1>4, CountShifted
<1>6. IsFiniteSet(A) /\ Cardinality(A) \in Nat
  <2>1. IsFiniteSet(1..n) /\ A \subseteq 1..n
    BY FS_Interval DEF Among
  <2>2. IsFiniteSet(A)
    BY <2>1, FS_Subset
  <2> HIDE DEF A
  <2> QED BY <2>2, FS_CardinalityType
<1>7. Count(u, {"percent"}) \in Nat
  BY <1>4, CountNat
<1>8. ASSUME HasPrompt(SubSeq(w, 1, n)) PROVE Cardinality(A) # 0
  <2>1. PICK x \in Seq(Signs) : x = SubSeq(w, 1, n)
    BY <1>2
  <2>2. PICK i \in 1..(n - 1) : SubSeq(x, i, i + 1) = PromptText
    BY <1>2, <1>8, <2>1 DEF HasPrompt
  <2>3. i \in Int /\ i + 1 \in Int /\ i \in 1..n /\ i + 1 \in 1..n
    OBVIOUS
  <2>4. \A k \in i..(i + 1) : x[k] \in Signs
    BY <1>2, <2>1, <2>3, ElementOfSeq
  <2>5. \A k \in 1..((i + 1) - i + 1) : SubSeq(x, i, i + 1)[k] = x[i + k - 1]
    BY <2>3, <2>4, SubSeqProperties
  <2>6. PromptText[1] = "percent"
    BY DEF PromptText
  <2>7. SubSeq(x, i, i + 1)[1] = x[i + 1 - 1] /\ i + 1 - 1 = i
    BY <2>3, <2>5
  <2>8. i \in A
    BY <1>2, <2>1, <2>2, <2>3, <2>6, <2>7 DEF Among
  <2> HIDE DEF A
  <2> QED BY <1>6, <2>8, FS_EmptySet
<1> HIDE DEF A
<1> QED BY <1>2, <1>3, <1>5, <1>6, <1>7, <1>8

\* A read overwrites the beginning of the buffer.
LEMMA Buffered ==
  ASSUME NEW r \in Seq(Signs), NEW d \in Seq(Signs), NEW n \in Nat \ {0}, Len(r) = n
  PROVE  /\ r \o SubSeq(d, n + 1, Len(d)) \in Seq(Signs)
         /\ SubSeq(r \o SubSeq(d, n + 1, Len(d)), 1, n) = r
<1>1. Len(d) \in Nat /\ \A k \in 1..Len(d) : d[k] \in Signs
  BY LenProperties, ElementOfSeq
<1>2. SubSeq(d, n + 1, Len(d)) \in Seq(Signs)
  BY <1>1, SubSeqProperties
<1>3. PICK e \in Seq(Signs) : e = SubSeq(d, n + 1, Len(d))
  BY <1>2
<1>4. r \o e \in Seq(Signs)
  BY ConcatProperties
<1>5. SubSeq(r \o e, 1, Len(r)) = SubSeq(r, 1, Len(r))
  BY SubSeqOfConcat1
<1>6. SubSeq(r, 1, Len(r)) = r
  BY SubSeqFull
<1> QED BY <1>3, <1>4, <1>5, <1>6
-----------------------------------------------------------------------------
USE ScriptAssumption, LengthAssumption

LEMMA SessionStarts == ConsoleInit => SessionInv
<1> SUFFICES ASSUME ConsoleInit PROVE SessionInv
  OBVIOUS
<1>1. ConsoleTypes
  <2>1. <<>> \in Seq(Signs) /\ <<>> \in Seq(Ops) /\ <<>> \in Seq(1..Script)
    BY EmptySeq
  <2>2. missed \in BOOLEAN /\ raced \in BOOLEAN
    BY DEF ConsoleInit
  <2>3. wire \in Seq(Signs) /\ log \in Seq(1..Script) /\ data_ \in Seq(Signs) /\ ready \in Seq(Ops)
    BY <2>1 DEF ConsoleInit, ShellInit
  <2>4. /\ taken \in Nat /\ remote \in {"runs", "waits", "closed"} /\ prompts \in Nat
        /\ printed \in Nat /\ project \in {3, 4} /\ reads \in Nat /\ front \in Nat \ {0}
        /\ stage \in {"resolve", "connect", "socks", "run", "over", "undefined"}
    BY DEF ConsoleInit, ShellInit
  <2> QED BY <2>2, <2>3, <2>4 DEF ConsoleTypes
<1>2. Len(<<>>) = 0 /\ \A T : Count(<<>>, T) = 0
  BY CountEmpty
<1>3. ReadsInv
  BY <1>2 DEF ConsoleInit, ReadsInv, AllReads
<1>4. OrderInv
  BY <1>2 DEF ConsoleInit, ShellInit, OrderInv, Alternates, Pending, Due, PromptsInv
<1> QED BY <1>1, <1>3, <1>4 DEF SessionInv

LEMMA QueueShape ==
  ASSUME ConsoleTypes
  PROVE  /\ Len(ready) \in Nat /\ (ready = <<>> <=> Len(ready) = 0)
         /\ \A i \in 1..Len(ready) : ready[i] \in Ops
         /\ Count(ready, Lengths) \in Nat /\ Len(log) \in Nat /\ Len(wire) \in Nat
         /\ Count(wire, {"percent"}) \in Nat
<1>1. Len(ready) \in Nat /\ Len(log) \in Nat /\ Len(wire) \in Nat
  BY LenProperties DEF ConsoleTypes
<1>2. ready = <<>> <=> Len(ready) = 0
  BY EmptySeq DEF ConsoleTypes
<1>3. \A i \in 1..Len(ready) : ready[i] \in Ops
  BY ElementOfSeq DEF ConsoleTypes
<1> QED BY <1>1, <1>2, <1>3, CountNat

\* Steps outside the queue: of the beginning and the end, and reads that fail.
LEMMA OutsideStep ==
  ASSUME SessionInv,
         Resolve \/ Connect \/ SocksReply \/ ReadFails \/ Finish \/ UNCHANGED cvars
  PROVE  SessionInv' /\ UNCHANGED <<prompts, log, raced>>
<1>typ. ConsoleTypes /\ ReadsInv /\ OrderInv
  BY DEF SessionInv
<1>q. Len(ready) \in Nat /\ Count(ready, Lengths) \in Nat /\ (ready = <<>> => Count(ready, Lengths) = 0)
      /\ (ready = <<>> => Len(ready) = 0)
  BY <1>typ, QueueShape, CountEmpty
<1>1. UNCHANGED <<wire, log, taken, remote, prompts, printed, project, front, data_, ready,
                  missed, raced>>
  BY DEF Resolve, Connect, SocksReply, ReadFails, Finish, cvars, console, shell
<1>2. \/ stage' = stage /\ reads' = reads
      \/ stage' = stage /\ reads' = reads - 1 /\ reads > 0 /\ remote = "closed"
      \/ stage \in {"resolve", "connect", "socks"} /\ stage' \in {"connect", "socks", "over"} /\ reads' = reads
      \/ stage \in {"resolve", "connect", "socks"} /\ stage' = "run" /\ reads' = 1
      \/ stage' = "over" /\ reads' = reads
  BY DEF Resolve, Connect, SocksReply, ReadFails, Finish, cvars, console
<1>3. ConsoleTypes'
  <2>1. reads' \in Nat
    BY <1>2, <1>typ DEF ConsoleTypes
  <2>2. stage' \in {"resolve", "connect", "socks", "run", "over", "undefined"}
    BY <1>2, <1>typ DEF ConsoleTypes
  <2> QED BY <1>1, <1>typ, <2>1, <2>2 DEF ConsoleTypes
<1>4. Count(ready', Lengths) = Count(ready, Lengths) /\ Len(ready') = Len(ready)
  BY <1>1
<1>5. ReadsInv'
  <2>1. reads \in Nat /\ front \in Nat \ {0}
    BY <1>typ DEF ConsoleTypes
  <2>2. CASE stage' = stage /\ reads' = reads
    BY <1>1, <2>2, <1>typ DEF ReadsInv, AllReads
  <2>3. CASE stage' = stage /\ reads' = reads - 1 /\ reads > 0 /\ remote = "closed"
    BY <1>1, <1>q, <2>1, <2>3, <1>typ DEF ReadsInv, AllReads
  <2>4. CASE stage \in {"resolve", "connect", "socks"} /\ stage' \in {"connect", "socks", "over"} /\ reads' = reads
    BY <1>1, <2>4, <1>typ DEF ReadsInv, AllReads
  <2>5. CASE stage \in {"resolve", "connect", "socks"} /\ stage' = "run" /\ reads' = 1
    <3>1. front = 1 /\ ready = <<>>
      BY <2>5, <1>typ DEF ReadsInv
    <3>2. AllReads' = 1
      BY <3>1, <2>5, <1>1, CountEmpty DEF AllReads
    <3> QED BY <3>1, <3>2, <2>5, <1>1, <1>q, <1>typ DEF ReadsInv
  <2>6. CASE stage' = "over" /\ reads' = reads
    BY <1>1, <2>6, <1>typ DEF ReadsInv, AllReads
  <2> QED BY <1>2, <2>2, <2>3, <2>4, <2>5, <2>6
<1>6. OrderInv'
  <2>1. Alternates' = Alternates /\ Pending' = Pending /\ Due' = Due
    BY <1>1 DEF Alternates, Pending, Due
  <2>2. PromptsInv' = PromptsInv
    BY <1>1 DEF PromptsInv, Due
  <2>3. stage # "undefined" => stage' # "undefined"
    BY <1>2
  <2> QED BY <1>1, <1>typ, <2>1, <2>2, <2>3 DEF OrderInv
<1> QED BY <1>1, <1>3, <1>5, <1>6 DEF SessionInv

\* Steps of the shell: it prints, or takes a line.
LEMMA ShellStep ==
  ASSUME SessionInv, RemoteStep
  PROVE  SessionInv' /\ (Runner!Prompt \/ UNCHANGED <<prompts, log, raced>>)
<1>typ. ConsoleTypes /\ ReadsInv /\ OrderInv
  BY DEF SessionInv
<1>1. UNCHANGED <<project, stage, front, data_, reads, ready, missed, raced, log>>
  BY DEF RemoteStep, ShellNext, Write, IssuePrompt, TakeLine, console
<1>2. /\ taken' \in {taken, taken + 1} /\ printed' \in {printed, printed + 1}
      /\ remote' \in {"runs", "waits", "closed"} /\ (remote = "closed" => remote' = "closed")
  BY <1>typ DEF RemoteStep, ShellNext, Write, IssuePrompt, TakeLine, ConsoleTypes
<1>3. \/ wire' = wire /\ prompts' = prompts
      \/ wire' = wire \o <<"text">> /\ prompts' = prompts
      \/ wire' = wire \o PromptText /\ prompts' = prompts + 1
  BY DEF RemoteStep, ShellNext, Write, IssuePrompt, TakeLine
<1>4. /\ wire' \in Seq(Signs) /\ prompts' \in Nat
      /\ \/ Count(wire', {"percent"}) = Count(wire, {"percent"}) /\ prompts' = prompts
         \/ Count(wire', {"percent"}) = Count(wire, {"percent"}) + 1 /\ prompts' = prompts + 1
  <2>1. wire \in Seq(Signs) /\ prompts \in Nat
    BY <1>typ DEF ConsoleTypes
  <2>2. /\ wire \o PromptText \in Seq(Signs) /\ wire \o <<"text">> \in Seq(Signs)
        /\ Count(wire \o PromptText, {"percent"}) = Count(wire, {"percent"}) + 1
        /\ Count(wire \o <<"text">>, {"percent"}) = Count(wire, {"percent"})
    BY <2>1, Printed
  <2>3. CASE wire' = wire /\ prompts' = prompts
    BY <2>1, <2>3
  <2>4. CASE wire' = wire \o <<"text">> /\ prompts' = prompts
    BY <2>1, <2>2, <2>4
  <2>5. CASE wire' = wire \o PromptText /\ prompts' = prompts + 1
    BY <2>1, <2>2, <2>5
  <2> QED BY <1>3, <2>3, <2>4, <2>5
<1>5. ConsoleTypes'
  BY <1>1, <1>2, <1>4, <1>typ DEF ConsoleTypes
<1>6. ReadsInv'
  BY <1>1, <1>2, <1>typ DEF ReadsInv, AllReads
<1>7. OrderInv'
  <2>1. Alternates' = Alternates /\ Pending' = Pending /\ Due' = Due
    BY <1>1 DEF Alternates, Pending, Due
  <2>2. PromptsInv => PromptsInv'
    <3>1. Len(log) \in Nat /\ Count(wire, {"percent"}) \in Nat /\ prompts \in Nat
      BY <1>typ, QueueShape DEF ConsoleTypes
    <3>2. Len(log') = Len(log)
      BY <1>1
    <3> QED BY <1>4, <2>1, <3>1, <3>2 DEF PromptsInv
  <2> QED BY <1>1, <1>typ, <2>1, <2>2 DEF OrderInv
<1>8. Runner!Prompt \/ UNCHANGED <<prompts, log, raced>>
  BY <1>1, <1>3 DEF Runner!Prompt
<1> QED BY <1>5, <1>6, <1>7, <1>8 DEF SessionInv

\* A read completes: it is counted among the completed, and its prompt is due.
LEMMA ReadStep ==
  ASSUME SessionInv, Read
  PROVE  SessionInv' /\ (Runner!Overlap \/ UNCHANGED <<prompts, log, raced>>)
<1>typ. ConsoleTypes /\ ReadsInv /\ OrderInv
  BY DEF SessionInv
<1>q. /\ Len(ready) \in Nat /\ (ready = <<>> <=> Len(ready) = 0)
      /\ \A i \in 1..Len(ready) : ready[i] \in Ops
      /\ Count(ready, Lengths) \in Nat /\ Len(log) \in Nat /\ Len(wire) \in Nat
      /\ Count(wire, {"percent"}) \in Nat
  BY <1>typ, QueueShape
<1>0. /\ wire \in Seq(Signs) /\ data_ \in Seq(Signs) /\ reads \in Nat /\ front \in Nat \ {0}
      /\ ready \in Seq(Ops) /\ prompts \in Nat
  BY <1>typ DEF ConsoleTypes
<1>1. /\ stage = "run" /\ reads > 0 /\ reads' = reads - 1
      /\ UNCHANGED <<log, taken, remote, prompts, printed, project, stage, front>>
      /\ raced' = (raced \/ \E i \in 1..Len(ready) : ready[i] > 0)
  BY DEF Read
<1>2. PICK n \in 1..MAX_LENGTH :
        /\ n <= Len(wire)
        /\ data_' = SubSeq(wire, 1, n) \o SubSeq(data_, n + 1, Len(data_))
        /\ ready' = Append(ready, n)
        /\ wire' = SubSeq(wire, n + 1, Len(wire))
        /\ missed' = (missed \/ wire[n] = "percent")
  BY DEF Read
<1>3. n \in Ops /\ n > 0 /\ n \in 1..Len(wire) /\ n \in Nat \ {0}
  BY <1>2, <1>q DEF Ops, Lengths
<1>4. PICK r \in Seq(Signs) : r = SubSeq(wire, 1, n) /\ Len(r) = n
  BY <1>0, <1>3, Cut
<1>5. /\ wire' \in Seq(Signs)
      /\ Count(wire', {"percent"}) + (IF HasPrompt(r) THEN 1 ELSE 0) <= Count(wire, {"percent"})
  BY <1>0, <1>2, <1>3, <1>4, Cut
<1>6. data_' \in Seq(Signs) /\ SubSeq(data_', 1, n) = r
  BY <1>0, <1>2, <1>3, <1>4, Buffered
<1>7. /\ ready' \in Seq(Ops) /\ Len(ready') = Len(ready) + 1 /\ ready' # <<>>
      /\ \A k \in 1..Len(ready) : ready'[k] = ready[k]
      /\ ready'[Len(ready) + 1] = n
      /\ Count(ready', Lengths) = Count(ready, Lengths) + 1
  BY <1>0, <1>2, <1>3, More
<1>8. ConsoleTypes'
  <2>1. raced' \in BOOLEAN /\ missed' \in BOOLEAN
    BY <1>1, <1>2
  <2>2. reads' \in Nat
    BY <1>0, <1>1
  <2> QED BY <1>1, <1>5, <1>6, <1>7, <1>typ, <2>1, <2>2 DEF ConsoleTypes
<1>9. ReadsInv'
  <2>1. AllReads' = AllReads
    BY <1>0, <1>1, <1>7, <1>q DEF AllReads
  <2>2. project = 4 => reads' + Len(ready') <= 1 /\ Len(ready) = 0
    BY <1>0, <1>1, <1>7, <1>q, <1>typ DEF ReadsInv
  <2>3. raced' => project' = 3
    <3>1. project \in {3, 4}
      BY <1>typ DEF ConsoleTypes
    <3>2. CASE project = 3
      BY <3>2, <1>1
    <3>3. CASE project = 4
      <4>1. ~raced /\ ~\E i \in 1..Len(ready) : ready[i] > 0
        BY <3>3, <2>2, <1>typ DEF ReadsInv
      <4> QED BY <4>1, <1>1
    <3> QED BY <3>1, <3>2, <3>3
  <2> QED BY <1>1, <1>typ, <2>1, <2>2, <2>3 DEF ReadsInv
<1>10. OrderInv'
  <2> SUFFICES ASSUME ~raced'
               PROVE  /\ stage' # "undefined" /\ Alternates' /\ (Pending' => front' <= Script)
                      /\ Len(log') = IF Pending' THEN front' ELSE front' - 1
                      /\ PromptsInv'
    BY DEF OrderInv
  <2>1. ~raced /\ \A i \in 1..Len(ready) : ~(ready[i] > 0)
    BY <1>1
  <2>2. /\ Alternates /\ (Pending => front <= Script) /\ PromptsInv
        /\ Len(log) = IF Pending THEN front ELSE front - 1
    BY <2>1, <1>typ DEF OrderInv
  <2>3. \A i \in 1..Len(ready) : ready[i] < 0
    BY <1>q, <2>1, LengthAssumption DEF Ops, Sent, Failed, Lengths
  <2>4. Len(ready) <= 1
    <3>1. Len(ready) # 2
      <4>1. Len(ready) = 2 => ready[2] > 0 /\ 2 \in 1..Len(ready)
        BY <2>2 DEF Alternates
      <4> QED BY <2>1, <4>1
    <3>2. PICK l \in Nat : l = Len(ready)
      BY <1>q
    <3>3. l <= 2 /\ l # 2
      BY <2>2, <3>1, <3>2 DEF Alternates
    <3>4. l <= 1
      BY <3>3
    <3> QED BY <3>2, <3>4
  <2>5. Alternates'
    BY <1>3, <1>7, <1>q, <2>3, <2>4 DEF Alternates
  <2>6. Pending' <=> Pending
    <3>1. CASE Len(ready) = 0
      BY <3>1, <1>3, <1>7, <1>q DEF Pending, Sent
    <3>2. CASE Len(ready) = 1
      <4>1. 1 \in 1..Len(ready)
        BY <3>2
      <4>2. ready'[1] = ready[1] /\ ready # <<>>
        BY <3>2, <4>1, <1>7, <1>q
      <4> QED BY <1>7, <4>2 DEF Pending
    <3>3. Len(ready) = 0 \/ Len(ready) = 1
      <4>1. PICK l \in Nat : l = Len(ready)
        BY <1>q
      <4>2. l <= 1
        BY <2>4, <4>1
      <4>3. l = 0 \/ l = 1
        BY <4>2
      <4> QED BY <4>1, <4>3
    <3> QED BY <3>1, <3>2, <3>3
  <2>7. ~Due
    BY <1>q, <2>1 DEF Due
  <2>8. Due' <=> HasPrompt(r)
    <3>1. ready'[Len(ready')] = n
      BY <1>7
    <3> QED BY <3>1, <1>3, <1>6, <1>7 DEF Due
  <2>9. Count(wire', {"percent"}) \in Nat
    BY <1>8, QueueShape, <1>5, LenProperties, CountNat
  <2>10. PromptsInv'
    <3>1. Len(log) + Count(wire, {"percent"}) <= prompts
      BY <1>0, <1>q, <2>2, <2>7 DEF PromptsInv
    <3>2. Len(log) + Count(wire', {"percent"}) + (IF HasPrompt(r) THEN 1 ELSE 0) <= prompts
      BY <1>0, <1>5, <1>q, <2>9, <3>1
    <3>3. Len(log') = Len(log) /\ prompts' = prompts
      BY <1>1
    <3> QED BY <2>8, <3>2, <3>3 DEF PromptsInv
  <2> QED BY <1>1, <2>2, <2>5, <2>6, <2>10
<1>11. Runner!Overlap \/ UNCHANGED <<prompts, log, raced>>
  <2>1. CASE \E i \in 1..Len(ready) : ready[i] > 0
    BY <2>1, <1>1 DEF Runner!Overlap
  <2>2. CASE ~\E i \in 1..Len(ready) : ready[i] > 0
    <3>1. raced' = raced
      BY <2>2, <1>1, <1>typ DEF ConsoleTypes
    <3> QED BY <3>1, <1>1
  <2> QED BY <2>1, <2>2
<1> QED BY <1>8, <1>9, <1>10, <1>11 DEF SessionInv

\* What a callback finds: its operation is taken off the queue.
LEMMA CallbackStarts ==
  ASSUME SessionInv, stage = "run", ready # <<>>
  PROVE  /\ Tail(ready) \in Seq(Ops) /\ Len(ready) \in Nat \ {0}
         /\ Len(Tail(ready)) = Len(ready) - 1
         /\ Head(ready) = ready[1] /\ ready[1] \in Ops
         /\ \A k \in 1..(Len(ready) - 1) : Tail(ready)[k] = ready[k + 1]
         /\ Count(Tail(ready), Lengths) = Count(ready, Lengths) - IF ready[1] > 0 THEN 1 ELSE 0
         /\ reads \in Nat /\ front \in Nat \ {0} /\ Count(ready, Lengths) \in Nat
         /\ project \in {3, 4}
         /\ project = 4 => reads = 0 /\ Len(ready) = 1 /\ ~raced
<1>typ. ConsoleTypes /\ ReadsInv
  BY DEF SessionInv
<1>1. ready \in Seq(Ops) /\ reads \in Nat /\ front \in Nat \ {0} /\ project \in {3, 4}
  BY <1>typ DEF ConsoleTypes
<1>2. PICK l \in Nat \ {0} : l = Len(ready)
  BY <1>1, Rest
<1>3. project = 4 => reads = 0 /\ Len(ready) = 1 /\ ~raced
  <2>1. project = 4 => reads + l <= 1 /\ ~raced
    BY <1>2, <1>typ DEF ReadsInv
  <2> QED BY <2>1, <1>1, <1>2
<1>4. Count(ready, Lengths) \in Nat
  BY <1>typ, QueueShape
<1> QED BY <1>1, <1>3, <1>4, Rest

\* The callback of a read: the line after a prompt, or the next read.
LEMMA OnReadStep ==
  ASSUME SessionInv, OnRead
  PROVE  SessionInv' /\ (Runner!NextLine \/ Runner!AnyLine \/ UNCHANGED <<prompts, log, raced>>)
<1>typ. ConsoleTypes /\ ReadsInv /\ OrderInv
  BY DEF SessionInv
<1>1. /\ stage = "run" /\ ready # <<>> /\ Head(ready) > 0
      /\ UNCHANGED <<wire, taken, remote, prompts, printed, project, stage, front, data_,
                     missed, raced>>
  BY DEF OnRead, ReadDone
<1>2. PICK t \in Seq(Ops) :
        /\ t = Tail(ready) /\ Len(ready) \in Nat \ {0} /\ Len(t) = Len(ready) - 1
        /\ Head(ready) = ready[1] /\ ready[1] \in Ops
        /\ \A k \in 1..(Len(ready) - 1) : t[k] = ready[k + 1]
        /\ Count(t, Lengths) = Count(ready, Lengths) - 1
  BY <1>1, CallbackStarts
<1>3. /\ reads \in Nat /\ front \in Nat \ {0} /\ Count(ready, Lengths) \in Nat
      /\ project \in {3, 4} /\ (project = 4 => reads = 0 /\ Len(ready) = 1 /\ ~raced)
  BY <1>1, CallbackStarts
<1>4. \/ /\ HasPrompt(Ret) /\ front <= Script /\ log' = Append(log, front)
         /\ ready' = Append(t, Sent)
      \/ ready' = Append(t, Failed) /\ log' = log
      \/ ready' = t /\ log' = log
  BY <1>2 DEF OnRead, DoWrite
<1>5. \/ reads' = reads + 1 /\ (project = 3 \/ ready' = t)
      \/ reads' = reads /\ project # 3
  BY <1>2 DEF OnRead
<1>6. /\ Append(t, Sent) \in Seq(Ops) /\ Len(Append(t, Sent)) = Len(t) + 1
      /\ Append(t, Failed) \in Seq(Ops) /\ Len(Append(t, Failed)) = Len(t) + 1
      /\ Append(t, Sent)[Len(t) + 1] = Sent /\ Append(t, Failed)[Len(t) + 1] = Failed
      /\ Append(t, Sent) # <<>> /\ Append(t, Failed) # <<>>
      /\ Count(Append(t, Sent), Lengths) = Count(t, Lengths) + 0
      /\ Count(Append(t, Failed), Lengths) = Count(t, Lengths) + 0
  BY More, OpNumbers
<1>7. /\ ready' \in Seq(Ops) /\ Len(ready') <= Len(ready)
      /\ Count(ready', Lengths) = Count(ready, Lengths) - 1
      /\ ready' = t => Len(ready') = Len(ready) - 1
  <2>1. Count(t, Lengths) + 0 = Count(ready, Lengths) - 1
    BY <1>2, <1>3
  <2>2. Len(t) + 1 <= Len(ready) /\ Len(t) <= Len(ready)
    BY <1>2
  <2> QED BY <1>2, <1>4, <1>6, <2>1, <2>2
<1>8. log \in Seq(1..Script) /\ Len(log) \in Nat /\ log' \in Seq(1..Script)
  <2>1. log \in Seq(1..Script) /\ Len(log) \in Nat
    BY <1>typ, QueueShape DEF ConsoleTypes
  <2>2. front <= Script => front \in 1..Script
    BY <1>3
  <2>3. front <= Script => Append(log, front) \in Seq(1..Script)
    BY <2>1, <2>2, AppendProperties
  <2> QED BY <1>4, <2>1, <2>3
<1>9. ConsoleTypes'
  <2>1. reads' \in Nat
    BY <1>3, <1>5
  <2> QED BY <1>1, <1>7, <1>8, <1>typ, <2>1 DEF ConsoleTypes
<1>10. ReadsInv'
  <2>1. CASE project = 3
    <3>1. reads' = reads + 1
      BY <1>5, <2>1
    <3>2. AllReads' = AllReads
      BY <1>3, <1>7, <3>1 DEF AllReads
    <3> QED BY <1>1, <1>typ, <2>1, <3>2 DEF ReadsInv
  <2>2. CASE project = 4
    <3>1. PICK l \in Nat : l = Len(ready')
      BY <1>7, LenProperties
    <3>2. reads = 0 /\ l <= 1 /\ (ready' = t => l = 0)
      <4>1. reads = 0 /\ Len(ready) = 1
        BY <1>3, <2>2
      <4>2. l <= 1 /\ (ready' = t => l = 1 - 1)
        BY <1>7, <3>1, <4>1
      <4> QED BY <4>1, <4>2
    <3>3. reads' + Len(ready') <= 1
      BY <1>5, <2>2, <3>1, <3>2
    <3>4. AllReads' <= AllReads
      BY <1>3, <1>5, <1>7 DEF AllReads
    <3>5. AllReads \in Int /\ AllReads' \in Int
      BY <1>3, <1>5, <1>7 DEF AllReads
    <3> QED BY <1>1, <1>3, <1>typ, <2>2, <3>3, <3>4, <3>5 DEF ReadsInv
  <2> QED BY <1>3, <2>1, <2>2
\* Without a race this was the only operation.
<1>11. ASSUME ~raced
       PROVE  /\ Len(t) = 0 /\ t = <<>> /\ ~Pending /\ Len(log) = front - 1
              /\ (Due <=> HasPrompt(Ret)) /\ PromptsInv
  <2>1. Alternates /\ PromptsInv /\ Len(log) = IF Pending THEN front ELSE front - 1
    BY <1>11, <1>typ DEF OrderInv
  <2>2. PICK l \in Nat \ {0} : l = Len(ready)
    BY <1>2
  <2>3. ready[1] > 0 /\ ~(ready[1] < 0)
    BY <1>1, <1>2 DEF Ops, Sent, Failed, Lengths
  <2>4. l = 1
    BY <2>1, <2>2, <2>3 DEF Alternates
  <2>5. Len(t) = 0
    BY <1>2, <2>2, <2>4
  <2>6. t = <<>>
    BY <2>5, EmptySeq
  <2>7. ~Pending
    BY <2>3 DEF Pending, Sent
  <2>8. ready[Len(ready)] = Head(ready)
    BY <1>2, <2>2, <2>4
  <2>9. Due <=> HasPrompt(Ret)
    BY <1>1, <2>8 DEF Due, Ret
  <2> QED BY <2>1, <2>5, <2>6, <2>7, <2>9
<1>12. OrderInv'
  <2> SUFFICES ASSUME ~raced
               PROVE  /\ stage' # "undefined" /\ Alternates' /\ (Pending' => front' <= Script)
                      /\ Len(log') = IF Pending' THEN front' ELSE front' - 1
                      /\ PromptsInv'
    BY <1>1 DEF OrderInv
  <2>1. Len(log) + Count(wire, {"percent"}) + (IF HasPrompt(Ret) THEN 1 ELSE 0) <= prompts
    BY <1>11 DEF PromptsInv
  <2>2. Count(wire, {"percent"}) \in Nat /\ prompts \in Nat
    BY <1>typ, QueueShape DEF ConsoleTypes
  <2>3. CASE ready' = t /\ log' = log
    BY <2>1, <2>2, <2>3, <1>1, <1>8, <1>11 DEF Alternates, Pending, Due, PromptsInv
  <2>4. CASE ready' = Append(t, Failed) /\ log' = log
    <3>1. Len(ready') = 1 /\ ready'[1] = Failed /\ ready' # <<>>
      BY <2>4, <1>6, <1>11
    <3>2. Alternates' /\ ~Pending' /\ ~Due'
      BY <3>1 DEF Alternates, Pending, Due, Sent, Failed
    <3> QED BY <2>1, <2>2, <2>4, <3>2, <1>1, <1>8, <1>11 DEF PromptsInv
  <2>5. CASE /\ HasPrompt(Ret) /\ front <= Script /\ log' = Append(log, front)
             /\ ready' = Append(t, Sent)
    <3>1. Len(ready') = 1 /\ ready'[1] = Sent /\ ready' # <<>>
      BY <2>5, <1>6, <1>11
    <3>2. Alternates' /\ Pending' /\ ~Due'
      BY <3>1 DEF Alternates, Pending, Due, Sent
    <3>3. Len(log') = Len(log) + 1
      <4>1. front \in 1..Script
        BY <2>5, <1>3
      <4> QED BY <2>5, <4>1, <1>8, AppendProperties
    <3>4. Len(log') + Count(wire, {"percent"}) <= prompts
      BY <2>1, <2>2, <2>5, <3>3, <1>8
    <3>5. PromptsInv'
      BY <3>2, <3>3, <3>4, <2>2, <1>1, <1>8 DEF PromptsInv
    <3> QED BY <2>5, <3>2, <3>3, <3>5, <1>1, <1>3, <1>11
  <2> QED BY <1>4, <2>3, <2>4, <2>5
<1>13. Runner!NextLine \/ Runner!AnyLine \/ UNCHANGED <<prompts, log, raced>>
  <2>1. CASE log' = log
    BY <2>1, <1>1
  <2>2. CASE HasPrompt(Ret) /\ front <= Script /\ log' = Append(log, front)
    <3>1. CASE raced
      <4>1. front \in 1..Script
        BY <2>2, <1>3
      <4> QED BY <2>2, <3>1, <4>1, <1>1 DEF Runner!AnyLine
    <3>2. CASE ~raced
      <4>1. Len(log) + Count(wire, {"percent"}) + 1 <= prompts
        BY <3>2, <2>2, <1>11 DEF PromptsInv
      <4>2. Count(wire, {"percent"}) \in Nat /\ prompts \in Nat
        BY <1>typ, QueueShape DEF ConsoleTypes
      <4>3. Len(log) < prompts
        BY <4>1, <4>2, <1>8
      <4>4. Len(log) + 1 = front /\ Len(log) < Script
        BY <3>2, <2>2, <1>3, <1>8, <1>11
      <4> QED BY <4>3, <4>4, <2>2, <1>1 DEF Runner!NextLine
    <3> QED BY <3>1, <3>2, <1>typ DEF ConsoleTypes
  <2> QED BY <1>4, <2>1, <2>2
<1> QED BY <1>9, <1>10, <1>12, <1>13 DEF SessionInv

\* The callback of a send: the line is popped, and another read is started.
LEMMA SentStep ==
  ASSUME SessionInv, OnSent \/ OnSendFailure
  PROVE  SessionInv' /\ UNCHANGED <<prompts, log, raced>>
<1>typ. ConsoleTypes /\ ReadsInv /\ OrderInv
  BY DEF SessionInv
<1>1. /\ stage = "run" /\ ready # <<>> /\ ready' = Tail(ready)
      /\ UNCHANGED <<wire, log, taken, remote, prompts, printed, project, data_, missed, raced>>
  BY DEF OnSent, OnSendFailure, Completed, shell
<1>2. \/ /\ Head(ready) = Sent /\ front' = front + 1 /\ reads' = reads + 1
         /\ stage' = IF front <= Script THEN "run" ELSE "undefined"
      \/ Head(ready) = Failed /\ front' = front /\ reads' = reads /\ stage' = stage
  BY DEF OnSent, OnSendFailure, Completed
<1>3. /\ ready' \in Seq(Ops) /\ Len(ready) \in Nat \ {0} /\ Len(ready') = Len(ready) - 1
      /\ Head(ready) = ready[1]
      /\ \A k \in 1..(Len(ready) - 1) : ready'[k] = ready[k + 1]
  BY <1>1, CallbackStarts
<1>4. /\ reads \in Nat /\ front \in Nat \ {0} /\ Count(ready, Lengths) \in Nat
      /\ project \in {3, 4} /\ (project = 4 => reads = 0 /\ Len(ready) = 1 /\ ~raced)
  BY <1>1, CallbackStarts
<1>5. Count(ready', Lengths) = Count(ready, Lengths)
  <2>1. ready[1] < 0
    BY <1>2, <1>3 DEF Sent, Failed
  <2>2. ~(ready[1] > 0)
    BY <1>2, <1>3 DEF Sent, Failed
  <2>3. Count(Tail(ready), Lengths) = Count(ready, Lengths) - IF ready[1] > 0 THEN 1 ELSE 0
    BY <1>1, CallbackStarts
  <2> QED BY <2>2, <2>3, <1>1, <1>4
<1>6. ConsoleTypes'
  <2>1. reads' \in Nat /\ front' \in Nat \ {0}
    BY <1>2, <1>4
  <2>2. stage' \in {"resolve", "connect", "socks", "run", "over", "undefined"}
    BY <1>1, <1>2
  <2> QED BY <1>1, <1>3, <1>typ, <2>1, <2>2 DEF ConsoleTypes
<1>7. ReadsInv'
  <2>1. AllReads' - front' = AllReads - front /\ AllReads \in Int /\ AllReads' \in Int
    BY <1>2, <1>4, <1>5 DEF AllReads
  <2>2. project = 4 => reads' + Len(ready') <= 1
    <3>1. PICK l \in Nat : l = Len(ready)
      BY <1>3
    <3>2. project = 4 => l = 1 /\ Len(ready') = 0 /\ reads' \in {0, 1}
      BY <1>2, <1>3, <1>4, <3>1
    <3> QED BY <3>2
  <2>3. front' \in Int /\ front \in Int
    BY <1>2, <1>4
  <2>4. stage' \in {"run", "undefined"}
    BY <1>1, <1>2
  <2>5. /\ AllReads <= front => AllReads' <= front'
        /\ AllReads = front => AllReads' = front'
    <3>1. \A a, b, f, g \in Int :
            b - g = a - f => (a <= f => b <= g) /\ (a = f => b = g)
      OBVIOUS
    <3> QED BY <2>1, <2>3, <3>1
  <2> QED BY <1>1, <1>typ, <2>2, <2>4, <2>5 DEF ReadsInv
<1>8. OrderInv'
  <2> SUFFICES ASSUME ~raced
               PROVE  /\ stage' # "undefined" /\ Alternates' /\ (Pending' => front' <= Script)
                      /\ Len(log') = IF Pending' THEN front' ELSE front' - 1
                      /\ PromptsInv'
    BY <1>1 DEF OrderInv
  <2>1. /\ Alternates /\ PromptsInv /\ (Pending => front <= Script)
        /\ Len(log) = IF Pending THEN front ELSE front - 1
    BY <1>typ DEF OrderInv
  <2>2. Pending <=> Head(ready) = Sent
    BY <1>1, <1>3 DEF Pending
  <2>3. stage' # "undefined"
    BY <1>1, <1>2, <2>1, <2>2
  <2>4. PICK l \in Nat \ {0} : l = Len(ready)
    BY <1>3
  <2>5. l = 1 \/ l = 2
    BY <2>1, <2>4 DEF Alternates
  <2>6. Alternates' /\ ~Pending' /\ (Due' <=> Due)
    <3>1. CASE l = 1
      <4>1. Len(ready') = 0
        BY <3>1, <2>4, <1>3
      <4>2. ready' = <<>>
        BY <4>1, <1>3, EmptySeq
      <4>3. ~Due
        BY <3>1, <2>4, <1>2, <1>3 DEF Due, Sent, Failed
      <4> QED BY <4>1, <4>2, <4>3 DEF Alternates, Pending, Due
    <3>2. CASE l = 2
      <4>1. Len(ready') = 1 /\ ready'[1] = ready[2] /\ ready[2] > 0
        BY <3>2, <2>1, <2>4, <1>3 DEF Alternates
      <4>2. ready' # <<>>
        <5>1. Len(<<>>) = 0
          OBVIOUS
        <5> QED BY <4>1, <5>1
      <4>3. ready[Len(ready)] = ready[2] /\ ready'[Len(ready')] = ready[2]
        BY <3>2, <2>4, <4>1
      <4>4. Due' <=> Due
        BY <4>2, <4>3, <1>1 DEF Due
      <4>5. ~(ready[2] < 0) /\ ready[2] # Sent
        <5>1. ready[2] \in Ops
          <6>1. 2 \in 1..Len(ready)
            BY <3>2, <2>4
          <6> QED BY <6>1, <1>typ, QueueShape
        <5> QED BY <5>1, <4>1 DEF Ops, Sent, Failed, Lengths
      <4> QED BY <4>1, <4>4, <4>5 DEF Alternates, Pending
    <3> QED BY <2>5, <3>1, <3>2
  <2>7. Len(log') = front' - 1
    BY <1>1, <1>2, <1>4, <2>1, <2>2 DEF Sent, Failed
  <2>8. PromptsInv'
    BY <1>1, <2>1, <2>6 DEF PromptsInv
  <2> QED BY <2>3, <2>6, <2>7, <2>8
<1> QED BY <1>1, <1>6, <1>7, <1>8 DEF SessionInv

\* Every step preserves the invariant, and is a step of ScriptRunner or none.
LEMMA SessionStep ==
  ASSUME SessionInv, [ConsoleNext]_cvars
  PROVE  SessionInv' /\ [Runner!Next]_<<prompts, log, raced>>
<1>1. CASE Resolve \/ Connect \/ SocksReply \/ ReadFails \/ Finish \/ UNCHANGED cvars
  BY <1>1, OutsideStep
<1>2. CASE RemoteStep
  BY <1>2, ShellStep DEF Runner!Next
<1>3. CASE Read
  BY <1>3, ReadStep DEF Runner!Next
<1>4. CASE OnRead
  BY <1>4, OnReadStep DEF Runner!Next
<1>5. CASE OnSent \/ OnSendFailure
  BY <1>5, SentStep
<1> QED BY <1>1, <1>2, <1>3, <1>4, <1>5 DEF ConsoleNext, ConsoleStep

\* What is in flight: project 4 has one operation at most, the reads of project 3 grow
\* with the lines popped, and the queue is popped in vain only after a race.
THEOREM OperationsCounted == ConsoleSpec => []Operations
<1>1. SessionInv => Operations
  <2> SUFFICES ASSUME SessionInv PROVE Operations
    OBVIOUS
  <2>1. ConsoleTypes /\ ReadsInv /\ OrderInv
    BY DEF SessionInv
  <2>2. \A i \in 1..Len(ready) : ready[i] \in Lengths <=> ready[i] > 0
    BY <2>1, QueueShape, OpNumbers
  <2>3. {i \in 1..Len(ready) : ready[i] > 0} = Positions(ready, Lengths)
    BY <2>2 DEF Positions
  <2>4. reads + Cardinality({i \in 1..Len(ready) : ready[i] > 0}) = AllReads
    BY <2>3 DEF AllReads, Count
  <2>5. stage = "undefined" => raced
    BY <2>1 DEF OrderInv
  <2> QED BY <2>1, <2>4, <2>5 DEF Operations, ConsoleTypes, ReadsInv, Signs, Ops, Lengths
<1> QED BY <1>1, SessionStarts, SessionStep, PTL DEF ConsoleSpec

\* However the output is cut into reads and whatever it contains, the lines are sent in
\* order, each once, and one at most for every prompt, until two reads overlap.
THEOREM ScriptImplemented == ConsoleSpec => ImplementsScript
<1>1. ConsoleInit => Runner!Init
  BY DEF ConsoleInit, ShellInit, Runner!Init
<1> QED BY <1>1, SessionStarts, SessionStep, PTL DEF ConsoleSpec, ImplementsScript, Runner!Spec
================================================================================
