--------------------------- MODULE SingleServerProofs ---------------------------
(***************************************************************************)
(* Proofs about the single-process chat server: the table, the queue of    *)
(* ids, the user pipes and the descriptors agree with each other, for every *)
(* number of ids, clients and lines; and the table is a ClientTable.       *)
(*                                                                         *)
(* The argument rests on what a number refers to.  A number that refers to *)
(* something is kept by exactly one entry or one pipe, so there are never  *)
(* more in use than ids and pairs of ids, the kernel always finds the four *)
(* that a command takes, and closing what an entry keeps cannot hit        *)
(* another, except through the write end that a pipe keeps after it was    *)
(* closed.  That number stays unused as long as nothing was handed out.    *)
(***************************************************************************)
EXTENDS SingleServer, FiniteSetTheorems, TLAPS

(***************************************************************************)
(* Least elements and the n-th free number.                                *)
(***************************************************************************)

\* A set of natural numbers that is not empty has a least element, and Min is it:
\* the first id of the queue, the first descriptor of the loop.
LEMMA LeastElement ==
  ASSUME NEW S, S \subseteq Nat, S # {}
  PROVE  Min(S) \in S /\ \A k \in S : Min(S) <= k
<1> DEFINE R == {ss \in Nat \X Nat : ss[1] < ss[2]}
<1>0. IsWellFoundedOn(R, Nat)
  BY NatLessThanWellFounded DEF OpToRel
<1> HIDE DEF R
<1>1. PICK m \in S : \A k \in S : ~ (<<k, m>> \in R)
  BY <1>0, WFMin
<1>2. \A k \in S : m <= k
  <2> TAKE k \in S
  <2>1. <<k, m>> \in R <=> k < m
    BY DEF R
  <2> QED BY <1>1, <2>1
<1> QED BY <1>2 DEF Min

\* The least element has nothing below it; the least of the others has one below it.
LEMMA Below ==
  ASSUME NEW F, F \subseteq Nat, NEW L, L \subseteq F, F # L,
         \A k \in L, e \in F \ L : k < e
  PROVE  LET m == Min(F \ L) IN m \in F \ L /\ {e \in F : e < m} = L
                                 /\ \A k \in L \cup {m}, e \in F \ (L \cup {m}) : k < e
<1> DEFINE m == Min(F \ L)
<1>1. m \in F \ L /\ \A k \in F \ L : m <= k
  BY LeastElement, F \ L # {}, F \ L \subseteq Nat
<1> HIDE DEF m
<1>2. {e \in F : e < m} = L
  <2>1. ASSUME NEW e \in F PROVE e < m <=> e \in L
    <3>1. CASE e \in L BY <3>1, <1>1
    <3>2. CASE e \in F \ L
      <4>1. m <= e /\ m \in Nat /\ e \in Nat BY <3>2, <1>1
      <4> QED BY <4>1, <3>2
    <3> QED BY <3>1, <3>2
  <2> QED BY <2>1
<1>3. \A k \in L \cup {m}, e \in F \ (L \cup {m}) : k < e
  BY <1>1
<1> QED BY <1>1, <1>2, <1>3 DEF m

\* Among four numbers or more there is a first, a second, a third and a fourth.
LEMMA FirstFour ==
  ASSUME NEW F, F \subseteq Nat, IsFiniteSet(F), Cardinality(F) >= 4
  PROVE  \A n \in 1..4 : \E d \in F : Cardinality({e \in F : e < d}) = n - 1
<1> DEFINE m1 == Min(F \ {})
           m2 == Min(F \ {m1})
           m3 == Min(F \ {m1, m2})
           m4 == Min(F \ {m1, m2, m3})
<1> HIDE DEF m1, m2, m3, m4
<1>0. Cardinality(F) \in Nat
  BY FS_CardinalityType
<1>1. /\ m1 \in F /\ {e \in F : e < m1} = {} /\ Cardinality({}) = 0
      /\ \A e \in F \ {m1} : m1 < e
  <2>1. F # {}
    BY <1>0, FS_EmptySet
  <2>2. /\ m1 \in F \ {} /\ {e \in F : e < m1} = {}
        /\ \A k \in {} \cup {m1}, e \in F \ ({} \cup {m1}) : k < e
    BY <2>1, Below DEF m1
  <2> QED BY <2>2, FS_EmptySet
<1>2. /\ m2 \in F \ {m1} /\ {e \in F : e < m2} = {m1} /\ Cardinality({m1}) = 1
      /\ \A k \in {m1, m2}, e \in F \ {m1, m2} : k < e
  <2>1. Cardinality({m1}) = 1
    BY FS_Singleton
  <2>2. F # {m1}
    BY <1>0, <2>1
  <2>3. /\ m2 \in F \ {m1} /\ {e \in F : e < m2} = {m1}
        /\ \A k \in {m1} \cup {m2}, e \in F \ ({m1} \cup {m2}) : k < e
    <3>1. {m1} \subseteq F /\ \A k \in {m1}, e \in F \ {m1} : k < e
      BY <1>1
    <3> QED BY <2>2, <3>1, Below DEF m2
  <2>4. {m1} \cup {m2} = {m1, m2}
    OBVIOUS
  <2> QED BY <2>1, <2>3, <2>4
<1>3. /\ m3 \in F \ {m1, m2} /\ {e \in F : e < m3} = {m1, m2} /\ Cardinality({m1, m2}) = 2
      /\ \A k \in {m1, m2, m3}, e \in F \ {m1, m2, m3} : k < e
  <2>0. {m1} \cup {m2} = {m1, m2} /\ IsFiniteSet({m1}) /\ m2 \notin {m1}
    BY <1>2, FS_Singleton
  <2>1. Cardinality({m1, m2}) = 2
    <3>1. Cardinality({m1} \cup {m2}) = Cardinality({m1}) + 1
      BY <2>0, FS_AddElement
    <3> QED BY <3>1, <2>0, <1>2
  <2>2. F # {m1, m2}
    BY <1>0, <2>1
  <2>3. /\ m3 \in F \ {m1, m2} /\ {e \in F : e < m3} = {m1, m2}
        /\ \A k \in {m1, m2} \cup {m3}, e \in F \ ({m1, m2} \cup {m3}) : k < e
    <3>1. {m1, m2} \subseteq F
      BY <1>1, <1>2
    <3> QED BY <2>2, <3>1, <1>2, Below DEF m3
  <2>4. {m1, m2} \cup {m3} = {m1, m2, m3}
    OBVIOUS
  <2> QED BY <2>1, <2>3, <2>4
<1>4. m4 \in F /\ {e \in F : e < m4} = {m1, m2, m3} /\ Cardinality({m1, m2, m3}) = 3
  <2>0. {m1, m2} \cup {m3} = {m1, m2, m3} /\ m3 \notin {m1, m2} /\ IsFiniteSet({m1, m2})
    <3>1. {m1} \cup {m2} = {m1, m2} /\ IsFiniteSet({m1})
      BY FS_Singleton
    <3> QED BY <3>1, <1>3, FS_AddElement
  <2>1. Cardinality({m1, m2, m3}) = 3
    <3>1. Cardinality({m1, m2} \cup {m3}) = Cardinality({m1, m2}) + 1
      BY <2>0, FS_AddElement
    <3> QED BY <3>1, <2>0, <1>3
  <2>2. F # {m1, m2, m3}
    BY <1>0, <2>1
  <2>3. /\ m4 \in F \ {m1, m2, m3} /\ {e \in F : e < m4} = {m1, m2, m3}
        /\ \A k \in {m1, m2, m3} \cup {m4}, e \in F \ ({m1, m2, m3} \cup {m4}) : k < e
    <3>1. {m1, m2, m3} \subseteq F
      BY <1>1, <1>2, <1>3
    <3>2. \A k \in {m1, m2, m3}, e \in F \ {m1, m2, m3} : k < e
      BY <1>3
    <3>3. PICK L \in SUBSET F : L = {m1, m2, m3}
      BY <3>1
    <3>4. LET m == Min(F \ L) IN m \in F \ L /\ {e \in F : e < m} = L
                                 /\ \A k \in L \cup {m}, e \in F \ (L \cup {m}) : k < e
      <4>1. L \subseteq F /\ F # L /\ \A k \in L, e \in F \ L : k < e
        BY <2>2, <3>2, <3>3
      <4> QED BY Zenon, <4>1, <1>0, Below
    <3> QED BY <3>3, <3>4 DEF m4
  <2> QED BY <2>1, <2>3
<1> QED
  <2> TAKE n \in 1..4
  <2>1. CASE n = 1 BY <2>1, <1>1
  <2>2. CASE n = 2 BY <2>2, <1>2
  <2>3. CASE n = 3 BY <2>3, <1>3
  <2>4. CASE n = 4 BY <2>4, <1>4
  <2> QED BY <2>1, <2>2, <2>3, <2>4
-----------------------------------------------------------------------------
(* The inductive invariant.                                                *)

Live == {p \in Pipes : user_pipe[p].ispiped}

Entries == [used: BOOLEAN, name: Names \cup {DefaultName, NoName},
            sockfd: Fds \cup {0}, client: Clients \cup {Nobody}]
Ends == [ispiped: BOOLEAN, read: Fds \cup {None}, write: Fds \cup {None}]
Things == {Unused} \cup {Connection(c) : c \in Clients} \cup {ReadEnd(p) : p \in Pipes}

\* An entry is empty or one client's own.
EntryInv ==
  /\ \A i \in Ids : IF clientset[i].used
                    THEN /\ clientset[i].sockfd \in Fds /\ clientset[i].client \in Clients
                         /\ peer[clientset[i].client] \in {"open", "gone"}
                    ELSE clientset[i] = NoClient
  /\ \A i, j \in Used : clientset[i].client = clientset[j].client => i = j

\* What the descriptors refer to, until a close goes astray.
SocketInv == \A i \in Used : fds[clientset[i].sockfd] = Connection(clientset[i].client)
EndInv == \A p \in Live : user_pipe[p].read \in Fds /\ fds[user_pipe[p].read] = ReadEnd(p)
KeptInv ==
  \A d \in Fds : fds[d] # Unused =>
    \/ \E i \in Used : clientset[i].sockfd = d
    \/ \E p \in Live : user_pipe[p].read = d
MasterInv == \A d \in Fds : d \in master <=> \E i \in Used : clientset[i].sockfd = d

\* A write end that was closed is still unused, unless a number was handed out since.
WriteInv == ~crowded => \A p \in Live : user_pipe[p].write \in Fds /\ fds[user_pipe[p].write] = Unused

FdInv == SocketInv /\ EndInv /\ KeptInv /\ MasterInv /\ WriteInv

SingleInv ==
  /\ SingleTypeOK /\ IdsAccounted /\ PipesOfPresent /\ EntryInv
  /\ IF loop = "astray" THEN crowded ELSE FdInv
-----------------------------------------------------------------------------
(* Descriptors.                                                            *)

\* A number is unused, a connection or a pipe's end, and of one client or pipe.
LEMMA Sorts ==
  /\ \A c : Connection(c) # Unused /\ Connection(c)[1] = "connection"
  /\ \A p : ReadEnd(p) # Unused /\ ReadEnd(p)[1] = "read"
  /\ \A c, p : Connection(c) # ReadEnd(p)
  /\ \A b, c : Connection(b) = Connection(c) => b = c
  /\ \A p, q : ReadEnd(p) = ReadEnd(q) => p = q
BY DEF Connection, ReadEnd, Unused

\* There are as many descriptors as a full table and all pipes take, and five more.
LEMMA FdsCount ==
  /\ IsFiniteSet(Ids) /\ Cardinality(Ids) = N
  /\ IsFiniteSet(Pipes) /\ Cardinality(Pipes) = N * N
  /\ IsFiniteSet(Fds) /\ Cardinality(Fds) = N + N * N + 5
  /\ N \in Nat /\ N * N \in Nat /\ Fds \subseteq Nat \ {0} /\ Ids \subseteq Nat \ {0}
<1>1. N \in Nat /\ N > 0
  BY ServerAssumption
<1>2. N * N \in Nat
  BY <1>1
<1>3. IsFiniteSet(Ids) /\ Cardinality(Ids) = N
  BY <1>1, FS_Interval DEF Ids
<1>4. IsFiniteSet(Pipes) /\ Cardinality(Pipes) = N * N
  BY <1>3, FS_Product DEF Pipes
<1>5. N + N * N + 5 \in Nat /\ ~ (1 > N + N * N + 5) /\ N + N * N + 5 - 1 + 1 = N + N * N + 5
  BY <1>1, <1>2
<1>6. IsFiniteSet(Fds) /\ Cardinality(Fds) = N + N * N + 5
  BY <1>5, FS_Interval DEF Fds
<1>7. Fds \subseteq Nat \ {0} /\ Ids \subseteq Nat \ {0}
  BY <1>1, <1>5 DEF Fds, Ids
<1> QED BY <1>1, <1>2, <1>3, <1>4, <1>6, <1>7

\* The kernel finds the numbers that it is asked for, and the third is not the fourth.
LEMMA Spare ==
  ASSUME SingleTypeOK, KeptInv
  PROVE  /\ \A n \in 1..4 : NthFree(n) \in Fds /\ fds[NthFree(n)] = Unused
         /\ NthFree(3) # NthFree(4)
<1> DEFINE Free == {d \in Fds : fds[d] = Unused}
           Sockets == {d \in Fds : \E i \in Used : clientset[i].sockfd = d}
           Tips == {d \in Fds : \E p \in Live : user_pipe[p].read = d}
           Place(d) == CHOOSE i \in Used : clientset[i].sockfd = d
           Mouth(d) == CHOOSE p \in Live : user_pipe[p].read = d
           Socket == [d \in Sockets |-> Place(d)]
           Tip == [d \in Tips |-> Mouth(d)]
<1>1. Fds \ Free \subseteq Sockets \cup Tips
  BY DEF KeptInv
<1>2. \A d \in Sockets : Place(d) \in Used /\ clientset[Place(d)].sockfd = d
  OBVIOUS
<1>3. \A d \in Tips : Mouth(d) \in Live /\ user_pipe[Mouth(d)].read = d
  OBVIOUS
<1>4. Socket \in Injection(Sockets, Ids)
  <2> HIDE DEF Place
  <2>1. Socket \in [Sockets -> Ids]
    BY <1>2 DEF Used
  <2>2. \A d, e \in Sockets : Socket[d] = Socket[e] => d = e
    BY <1>2
  <2> QED BY <2>1, <2>2 DEF Injection, IsInjective
<1>5. Tip \in Injection(Tips, Pipes)
  <2> HIDE DEF Mouth
  <2>1. Tip \in [Tips -> Pipes]
    BY <1>3 DEF Live
  <2>2. \A d, e \in Tips : Tip[d] = Tip[e] => d = e
    BY <1>3
  <2> QED BY <2>1, <2>2 DEF Injection, IsInjective
<1> HIDE DEF Free, Sockets, Tips, Socket, Tip
<1>6. IsFiniteSet(Sockets) /\ Cardinality(Sockets) <= N
  BY <1>4, FdsCount, FS_Injection
<1>7. IsFiniteSet(Tips) /\ Cardinality(Tips) <= N * N
  BY <1>5, FdsCount, FS_Injection
<1>8. Cardinality(Sockets) \in Nat /\ Cardinality(Tips) \in Nat
  BY <1>6, <1>7, FS_CardinalityType
<1>9. IsFiniteSet(Sockets \cup Tips) /\ Cardinality(Sockets \cup Tips) <= N + N * N
  <2>1. /\ IsFiniteSet(Sockets \cup Tips)
        /\ Cardinality(Sockets \cup Tips)
             = Cardinality(Sockets) + Cardinality(Tips) - Cardinality(Sockets \cap Tips)
    BY <1>6, <1>7, FS_Union
  <2>2. Cardinality(Sockets \cap Tips) \in Nat
    BY <1>6, FS_Intersection, FS_CardinalityType
  <2> QED BY <2>1, <2>2, <1>6, <1>7, <1>8, FdsCount
<1>10. Cardinality(Fds \ Free) <= N + N * N /\ Cardinality(Fds \ Free) \in Nat
  <2>1. Fds \ Free \in SUBSET (Sockets \cup Tips)
    BY <1>1
  <2>2. IsFiniteSet(Fds \ Free) /\ Cardinality(Fds \ Free) <= Cardinality(Sockets \cup Tips)
    BY <2>1, <1>9, FS_Subset
  <2>3. Cardinality(Fds \ Free) \in Nat /\ Cardinality(Sockets \cup Tips) \in Nat
    BY <2>2, <1>9, FS_CardinalityType
  <2> QED BY <2>2, <2>3, <1>9, FdsCount
<1>11. IsFiniteSet(Free) /\ Free \subseteq Fds
  BY FdsCount, FS_Subset, Free \in SUBSET Fds DEF Free
<1>12. Cardinality(Free) >= 4
  <2>1. Fds \cap Free = Free
    BY <1>11
  <2>2. Cardinality(Fds \ Free) = Cardinality(Fds) - Cardinality(Free)
    <3>1. Cardinality(Fds \ Free) = Cardinality(Fds) - Cardinality(Fds \cap Free)
      BY FdsCount, FS_Difference
    <3> QED BY <3>1, <2>1
  <2>3. Cardinality(Free) \in Nat
    BY <1>11, FS_CardinalityType
  <2> QED BY <2>2, <2>3, <1>10, FdsCount
<1>13. \A n \in 1..4 : NthFree(n) \in Free /\ Cardinality({e \in Free : e < NthFree(n)}) = n - 1
  <2> TAKE n \in 1..4
  <2>1. \E d \in Free : Cardinality({e \in Free : e < d}) = n - 1
    BY <1>11, <1>12, FdsCount, FirstFour
  <2>2. NthFree(n) = CHOOSE d \in Free : Cardinality({e \in Free : e < d}) = n - 1
    BY DEF NthFree, Free
  <2> QED BY <2>1, <2>2
<1>14. NthFree(3) # NthFree(4)
  <2>1. /\ Cardinality({e \in Free : e < NthFree(3)}) = 3 - 1
        /\ Cardinality({e \in Free : e < NthFree(4)}) = 4 - 1
    BY <1>13, 3 \in 1..4, 4 \in 1..4
  <2> QED BY <2>1
<1> QED BY <1>13, <1>14 DEF Free

\* The id that a connection is taken for is the one whose client is there.
LEMMA IndexIs ==
  ASSUME SingleTypeOK, EntryInv, SocketInv, KeptInv, EndInv,
         NEW d \in Fds, NEW c \in Clients, fds[d] = Connection(c)
  PROVE  /\ Index(d) \in Used /\ clientset[Index(d)].sockfd = d /\ clientset[Index(d)].client = c
         /\ \A j \in Used : clientset[j].sockfd = d => j = Index(d)
<1>1. PICK i \in Used : clientset[i].sockfd = d
  BY Sorts DEF KeptInv, EndInv
<1>2. \A j \in Used : clientset[j].sockfd = d => clientset[j].client = c
  BY Sorts DEF SocketInv
<1>3. \A j \in Used : clientset[j].sockfd = d => j = i
  BY <1>1, <1>2 DEF EntryInv
<1>4. \A j \in Ids : clientset[j].sockfd = d => j = i
  <2> TAKE j \in Ids
  <2>1. j \notin Used => clientset[j].sockfd = 0
    BY DEF EntryInv, Used, NoClient
  <2> QED BY <2>1, <1>3, FdsCount
<1>5. i \in Ids /\ i \in Nat
  BY FdsCount DEF Used
<1>6. \A j \in 1..i-1 : clientset[j].sockfd # d
  <2> TAKE j \in 1..i-1
  <2>1. j \in Ids /\ j # i
    BY <1>5, FdsCount DEF Ids
  <2> QED BY <2>1, <1>4
<1>7. Index(d) = i
  BY <1>1, <1>4, <1>5, <1>6 DEF Index
<1> QED BY <1>1, <1>2, <1>3, <1>7
-----------------------------------------------------------------------------
(* The steps.                                                              *)

LoopStates == {"select", "serve", "dead", "hung", "undefined", "astray"}
Present == {"open", "gone"}

\* A client that was here is still here or has just gone.
Stays == \A c \in Clients : peer[c] \in Present => peer'[c] \in Present

\* The parts of the state that only the clients and the loop touch keep their types.
RestTypes ==
  /\ read_fds' \subseteq Fds \cup {0} /\ loop' \in LoopStates
  /\ peer' \in [Clients -> {"new", "connecting", "open", "gone"}]
  /\ line' \in [Clients -> Lines \cup {NoLine}]
  /\ typed' \in 0..MaxLines

\* The loop goes on to the next descriptor or is stopped.
LEMMA LoopMoves ==
  ASSUME SingleTypeOK, NEW d, NEW I, Done(d) \/ Stopped(I)
  PROVE  read_fds' \subseteq Fds \cup {0} /\ loop' \in {"select", "serve", "dead", "hung"}
<1>1. CASE Done(d) BY <1>1 DEF SingleTypeOK, Done
<1>2. CASE Stopped(I) BY <1>2 DEF SingleTypeOK, Stopped
<1> QED BY <1>1, <1>2

\* A step that leaves the server's tables alone.
LEMMA PassiveStep ==
  ASSUME SingleInv, UNCHANGED <<clientset, id_queue, user_pipe, fds, master, crowded>>,
         RestTypes, Stays, loop' = "astray" <=> loop = "astray"
  PROVE  SingleInv'
<1>1. SingleTypeOK'
  BY DEF SingleInv, SingleTypeOK, RestTypes, LoopStates
<1>2. EntryInv'
  <2>1. ASSUME NEW i \in Ids
        PROVE (IF clientset[i].used
               THEN /\ clientset[i].sockfd \in Fds /\ clientset[i].client \in Clients
                    /\ peer[clientset[i].client] \in Present
               ELSE clientset[i] = NoClient)'
    <3>1. CASE clientset[i].used
      BY <3>1 DEF SingleInv, EntryInv, Stays, Present
    <3>2. CASE ~ clientset[i].used
      BY <3>2 DEF SingleInv, EntryInv
    <3> QED BY <3>1, <3>2
  <2>2. (\A i, j \in Used : clientset[i].client = clientset[j].client => i = j)'
    BY DEF SingleInv, EntryInv, Used
  <2> QED BY <2>1, <2>2 DEF EntryInv, Present
<1>3. IdsAccounted' /\ PipesOfPresent'
  BY DEF SingleInv, IdsAccounted, PipesOfPresent, Used
<1>4. FdInv => FdInv'
  BY DEF FdInv, SocketInv, EndInv, KeptInv, MasterInv, WriteInv, Used, Live
<1> QED BY <1>1, <1>2, <1>3, <1>4 DEF SingleInv

\* The three moves of a client.
LEMMA ClientStep ==
  ASSUME SingleInv, NEW c \in Clients, Connect(c) \/ Type(c) \/ HangUp(c)
  PROVE  SingleInv'
<1>1. UNCHANGED <<clientset, id_queue, user_pipe, fds, master, crowded, loop, read_fds>>
  BY DEF Connect, Type, HangUp, server
<1>2. read_fds' \subseteq Fds \cup {0} /\ loop' \in LoopStates
  BY <1>1 DEF SingleInv, SingleTypeOK, LoopStates
<1>3. peer' \in [Clients -> {"new", "connecting", "open", "gone"}] /\ Stays
  BY DEF Connect, Type, HangUp, SingleInv, SingleTypeOK, Stays, Present
<1>4. line' \in [Clients -> Lines \cup {NoLine}]
  BY DEF Connect, Type, HangUp, SingleInv, SingleTypeOK
<1>5. typed' \in 0..MaxLines
  BY ServerAssumption DEF Connect, Type, HangUp, SingleInv, SingleTypeOK
<1>6. RestTypes
  BY <1>2, <1>3, <1>4, <1>5 DEF RestTypes
<1> QED BY <1>1, <1>3, <1>6, PassiveStep

\* The server waits, or takes an id of an empty queue.
LEMMA SelectStep ==
  ASSUME SingleInv, Select \/ AcceptUndefined
  PROVE  SingleInv'
<1>1. /\ UNCHANGED <<clientset, id_queue, user_pipe, fds, master, crowded, peer, line, typed>>
      /\ loop \in {"select", "serve"} /\ loop' \in {"serve", "undefined"}
  BY DEF Select, AcceptUndefined, Turn, client
<1>2. read_fds' \subseteq Fds \cup {0}
  <2>1. CASE Select
    BY <2>1 DEF Select, Waiting, SingleInv, SingleTypeOK
  <2>2. CASE AcceptUndefined
    BY <2>2 DEF AcceptUndefined, SingleInv, SingleTypeOK
  <2> QED BY <2>1, <2>2
<1>3. RestTypes /\ Stays
  BY <1>1, <1>2 DEF RestTypes, Stays, LoopStates, SingleInv, SingleTypeOK
<1> QED BY <1>1, <1>3, PassiveStep

\* What every request does: the line is taken.
LEMMA RequestTaken ==
  ASSUME SingleInv, NEW d \in Fds, NEW c \in Clients, NEW i \in Ids, NEW kind, Request(d, c, i, kind)
  PROVE  /\ line' \in [Clients -> Lines \cup {NoLine}] /\ typed' \in 0..MaxLines
         /\ loop = "serve" /\ FdInv
         /\ fds[d] = Connection(c) /\ i = Index(d) /\ line[c].kind = kind
         /\ i \in Used /\ clientset[i].client = c /\ clientset[i].sockfd = d
<1>1. /\ line' \in [Clients -> Lines \cup {NoLine}] /\ typed' \in 0..MaxLines
      /\ loop = "serve" /\ fds[d] = Connection(c) /\ i = Index(d) /\ line[c].kind = kind
  BY DEF Request, Turn, SingleInv, SingleTypeOK
<1>2. FdInv
  BY <1>1 DEF SingleInv
<1>3. i \in Used /\ clientset[i].client = c /\ clientset[i].sockfd = d
  BY <1>1, <1>2, IndexIs DEF SingleInv, FdInv
<1> QED BY <1>1, <1>2, <1>3

LEMMA TalkStep ==
  ASSUME SingleInv, NEW d \in Fds, NEW c \in Clients, NEW i \in Ids, Talk(d, c, i)
  PROVE  SingleInv'
<1>1. PICK kind \in {"who", "tell", "yell"} :
        Request(d, c, i, kind) /\ (Done(d) \/ Stopped({i}) \/ Stopped(Used))
  BY DEF Talk
<1>2. UNCHANGED <<clientset, id_queue, user_pipe, fds, master, peer, crowded>>
  BY DEF Talk
<1>3. /\ line' \in [Clients -> Lines \cup {NoLine}] /\ typed' \in 0..MaxLines
      /\ loop = "serve"
  BY <1>1, RequestTaken
<1>4. read_fds' \subseteq Fds \cup {0} /\ loop' \in {"select", "serve", "dead", "hung"}
  BY <1>1, LoopMoves DEF SingleInv
<1>5. RestTypes /\ Stays
  BY <1>2, <1>3, <1>4 DEF RestTypes, Stays, LoopStates, SingleInv, SingleTypeOK
<1> QED BY <1>2, <1>3, <1>4, <1>5, PassiveStep

\* A request that the server does not survive, or not with a known outcome.
LEMMA LastStep ==
  ASSUME SingleInv, NEW d \in Fds, NEW c \in Clients, NEW i \in Ids,
         BadArguments(d, c, i) \/ ExecUndefined(d, c, i)
  PROVE  SingleInv'
<1>1. /\ UNCHANGED <<clientset, id_queue, user_pipe, fds, master, read_fds, peer, crowded>>
      /\ loop' \in {"dead", "undefined"}
      /\ \E kind : Request(d, c, i, kind)
  BY DEF BadArguments, ExecUndefined
<1>2. /\ line' \in [Clients -> Lines \cup {NoLine}] /\ typed' \in 0..MaxLines
      /\ loop = "serve"
  BY <1>1, RequestTaken
<1>3. read_fds' \subseteq Fds \cup {0}
  BY <1>1 DEF SingleInv, SingleTypeOK
<1>4. RestTypes /\ Stays
  BY <1>1, <1>2, <1>3 DEF RestTypes, Stays, LoopStates, SingleInv, SingleTypeOK
<1> QED BY <1>1, <1>2, <1>4, PassiveStep

\* Only a line that asks for a name has one.
LEMMA LineNames ==
  ASSUME NEW l \in Lines \cup {NoLine}, l.kind = "name"
  PROVE  l.name \in Names
<1>2. CASE l \in [kind: Commands \cap {"name"}, name: Names]
  BY <1>2
<1>3. CASE l \in [kind: Commands \cap {"who", "tell", "yell", "exit"}]
  BY <1>3
<1>4. CASE l \in [kind: Commands \cap {"exec"}, from: Froms, to: Tos, big: {FALSE}]
  BY <1>4
<1>5. CASE l \in [kind: Commands \cap {"exec"}, from: {0}, to: Tos \ {0}, big: {TRUE}]
  BY <1>5
<1>6. CASE l = NoLine
  BY <1>6 DEF NoLine
<1> QED BY <1>2, <1>3, <1>4, <1>5, <1>6 DEF Lines

LEMMA NameStep ==
  ASSUME SingleInv, NEW d \in Fds, NEW c \in Clients, NEW i \in Ids, Name(d, c, i)
  PROVE  SingleInv'
<1>1. Request(d, c, i, "name") /\ UNCHANGED <<id_queue, user_pipe, fds, master, peer, crowded>>
  BY DEF Name
<1>2. /\ line' \in [Clients -> Lines \cup {NoLine}] /\ typed' \in 0..MaxLines
      /\ loop = "serve" /\ FdInv /\ line[c].kind = "name"
  BY <1>1, RequestTaken
<1>3. Done(d) \/ Stopped({i}) \/ Stopped(Used)
  BY DEF Name
<1>4. read_fds' \subseteq Fds \cup {0} /\ loop' \in {"select", "serve", "dead", "hung"}
  BY <1>3, LoopMoves DEF SingleInv
<1>5. RestTypes /\ Stays
  BY <1>1, <1>2, <1>4 DEF RestTypes, Stays, LoopStates, SingleInv, SingleTypeOK
<1>6. CASE UNCHANGED clientset
  BY <1>1, <1>2, <1>4, <1>5, <1>6, PassiveStep
<1>7. CASE clientset' = [clientset EXCEPT ![i].name = line[c].name]
  <2>1. clientset \in [Ids -> Entries]
    BY DEF SingleInv, SingleTypeOK, Entries
  <2>2. line[c].name \in Names
    <3>1. line[c] \in Lines \cup {NoLine}
      BY DEF SingleInv, SingleTypeOK
    <3> QED BY <3>1, <1>2, LineNames
  <2>3. /\ clientset' \in [Ids -> Entries]
        /\ \A j \in Ids : /\ clientset'[j].used = clientset[j].used
                          /\ clientset'[j].sockfd = clientset[j].sockfd
                          /\ clientset'[j].client = clientset[j].client
                          /\ j # i => clientset'[j] = clientset[j]
    BY <1>7, <2>1, <2>2 DEF Entries
  <2>4. i \in Used /\ Used' = Used
    BY <1>1, <2>3, RequestTaken DEF Used
  <2>5. SingleTypeOK'
    BY <1>1, <1>5, <2>3 DEF SingleInv, SingleTypeOK, RestTypes, LoopStates, Entries
  <2>6. EntryInv'
    <3>1. ASSUME NEW j \in Ids
          PROVE (IF clientset[j].used
                 THEN /\ clientset[j].sockfd \in Fds /\ clientset[j].client \in Clients
                      /\ peer[clientset[j].client] \in {"open", "gone"}
                 ELSE clientset[j] = NoClient)'
      <4>1. CASE j \in Used
        BY <4>1, <1>1, <2>3 DEF SingleInv, EntryInv, Used
      <4>2. CASE j \notin Used
        BY <4>2, <2>3, <2>4 DEF SingleInv, EntryInv, Used
      <4> QED BY <4>1, <4>2
    <3>2. (\A j, k \in Used : clientset[j].client = clientset[k].client => j = k)'
      BY <2>3, <2>4 DEF SingleInv, EntryInv, Used
    <3> QED BY <3>1, <3>2 DEF EntryInv
  <2>7. IdsAccounted' /\ PipesOfPresent'
    BY <1>1, <2>3, <2>4 DEF SingleInv, IdsAccounted, PipesOfPresent
  <2>8. FdInv'
    <3>1. Live' = Live
      BY <1>1 DEF Live
    <3> QED BY <1>1, <1>2, <2>3, <2>4, <3>1
            DEF FdInv, SocketInv, EndInv, KeptInv, MasterInv, WriteInv, Used
  <2> QED BY <1>4, <2>5, <2>6, <2>7, <2>8 DEF SingleInv
<1> QED BY <1>6, <1>7 DEF Name

\* The first id of the queue is free, and so is its entry.
LEMMA NextId ==
  ASSUME SingleInv, Queued # {}
  PROVE  LET i == Min(Queued) IN i \in Ids \ Used /\ id_queue[i] = 1 /\ clientset[i] = NoClient
<1>1. Min(Queued) \in Queued
  BY FdsCount, LeastElement, Queued \subseteq Nat DEF Queued
<1> QED BY <1>1 DEF Queued, Used, SingleInv, SingleTypeOK, IdsAccounted, EntryInv

\* What accept does to the tables, told without the names of the new id and number.
Accepted(c, i, d) ==
  /\ i \in Ids \ Used /\ d \in Fds /\ fds[d] = Unused /\ peer[c] = "connecting"
  /\ clientset' = [clientset EXCEPT ![i] =
       [used |-> TRUE, name |-> DefaultName, sockfd |-> d, client |-> c]]
  /\ id_queue' = [id_queue EXCEPT ![i] = @ - 1]
  /\ fds' = [fds EXCEPT ![d] = Connection(c)]
  /\ master' = master \cup {d}
  /\ crowded' = (crowded \/ Unread # {})
  /\ peer' = [peer EXCEPT ![c] = "open"]
  /\ UNCHANGED <<user_pipe, line, typed>>

LEMMA AcceptDoes ==
  ASSUME SingleInv, NEW c \in Clients, Accept(c)
  PROVE  \E i, d : /\ Accepted(c, i, d)
                   /\ loop = "serve" /\ FdInv
                   /\ read_fds' \subseteq Fds \cup {0} /\ loop' \in {"select", "serve", "dead", "hung"}
<1>1. loop = "serve" /\ FdInv /\ Queued # {} /\ peer[c] = "connecting"
  BY DEF Accept, Turn, SingleInv
<1>2. NthFree(1) \in Fds /\ fds[NthFree(1)] = Unused
  BY <1>1, Spare, 1 \in 1..4 DEF SingleInv, FdInv
<1>3. Min(Queued) \in Ids \ Used
  BY <1>1, NextId
<1>4. Accepted(c, Min(Queued), NthFree(1))
  BY <1>1, <1>2, <1>3 DEF Accept, Accepted
<1>5. read_fds' \subseteq Fds \cup {0} /\ loop' \in {"select", "serve", "dead", "hung"}
  <2>1. Done(0) \/ Stopped(Used) BY DEF Accept
  <2> QED BY <2>1, LoopMoves DEF SingleInv
<1> QED BY <1>1, <1>4, <1>5

LEMMA AcceptStep ==
  ASSUME SingleInv, NEW c \in Clients, Accept(c)
  PROVE  SingleInv'
<1>1. PICK i, d : /\ Accepted(c, i, d)
                  /\ loop = "serve" /\ FdInv
                  /\ read_fds' \subseteq Fds \cup {0} /\ loop' \in {"select", "serve", "dead", "hung"}
  BY AcceptDoes
<1> DEFINE new == [used |-> TRUE, name |-> DefaultName, sockfd |-> d, client |-> c]
<1>2. /\ i \in Ids /\ i \notin Used /\ d \in Fds /\ d # 0 /\ fds[d] = Unused /\ peer[c] = "connecting"
  BY <1>1, FdsCount DEF Accepted
<1>3. clientset \in [Ids -> Entries] /\ new \in Entries
  BY <1>2 DEF SingleInv, SingleTypeOK, Entries
<1>4. /\ clientset' \in [Ids -> Entries] /\ clientset'[i] = new
      /\ \A j \in Ids \ {i} : clientset'[j] = clientset[j]
  BY <1>1, <1>2, <1>3 DEF Accepted
<1>5. /\ fds' \in [Fds -> Things] /\ fds'[d] = Connection(c)
      /\ \A e \in Fds \ {d} : fds'[e] = fds[e]
  BY <1>1, <1>2 DEF Accepted, SingleInv, SingleTypeOK, Things
<1>6. Used' = Used \cup {i}
  BY <1>2, <1>4 DEF Used
<1>7. Live' = Live
  BY <1>1 DEF Live, Accepted
<1>8. SingleTypeOK'
  <2>1. id_queue[i] = 1
    BY <1>2 DEF SingleInv, IdsAccounted, Used
  <2>2. id_queue' \in [Ids -> {0, 1}]
    BY <1>1, <1>2, <2>1 DEF Accepted, SingleInv, SingleTypeOK
  <2>3. peer' \in [Clients -> {"new", "connecting", "open", "gone"}]
    BY <1>1 DEF Accepted, SingleInv, SingleTypeOK
  <2>4. master' \subseteq Fds /\ crowded' \in BOOLEAN
    BY <1>1, <1>2 DEF Accepted, SingleInv, SingleTypeOK
  <2> QED BY <1>1, <1>4, <1>5, <2>2, <2>3, <2>4
          DEF Accepted, SingleInv, SingleTypeOK, Entries, Things
<1>9. EntryInv'
  <2>1. ASSUME NEW j \in Ids
        PROVE (IF clientset[j].used
               THEN /\ clientset[j].sockfd \in Fds /\ clientset[j].client \in Clients
                    /\ peer[clientset[j].client] \in {"open", "gone"}
               ELSE clientset[j] = NoClient)'
    <3>0. peer' = [peer EXCEPT ![c] = "open"] /\ peer \in [Clients -> {"new", "connecting", "open", "gone"}]
      BY <1>1 DEF Accepted, SingleInv, SingleTypeOK
    <3>1. CASE j = i
      BY <3>0, <3>1, <1>2, <1>4
    <3>2. CASE j # i
      BY <3>0, <3>2, <1>4 DEF SingleInv, EntryInv
    <3> QED BY <3>1, <3>2
  <2>2. \A j \in Used : clientset[j].client # c
    BY <1>2 DEF SingleInv, EntryInv, Used
  <2>3. (\A j, k \in Used : clientset[j].client = clientset[k].client => j = k)'
    BY <2>2, <1>2, <1>4, <1>6 DEF SingleInv, EntryInv, Used
  <2> QED BY <2>1, <2>3 DEF EntryInv
<1>10. IdsAccounted'
  BY <1>1, <1>2, <1>4 DEF Accepted, SingleInv, SingleTypeOK, IdsAccounted, Used
<1>11. PipesOfPresent'
  BY <1>1, <1>6 DEF Accepted, SingleInv, PipesOfPresent
<1>12. \A j \in Used : clientset[j].sockfd # d /\ clientset[j].sockfd \in Fds
  BY <1>1, <1>2, Sorts DEF FdInv, SocketInv, SingleInv, EntryInv, Used
<1>13. \A p \in Live : user_pipe[p].read # d /\ user_pipe[p].read \in Fds
  BY <1>1, <1>2, Sorts DEF FdInv, EndInv
<1>14. SocketInv'
  <2> SUFFICES ASSUME NEW j \in Used'
               PROVE fds'[clientset'[j].sockfd] = Connection(clientset'[j].client)
    BY DEF SocketInv
  <2>1. CASE j = i
    BY <2>1, <1>4, <1>5
  <2>2. CASE j # i
    <3>1. j \in Used /\ clientset'[j] = clientset[j]
      BY <2>2, <1>6, <1>4 DEF Used
    <3> QED BY <3>1, <1>12, <1>5, <1>1 DEF FdInv, SocketInv
  <2> QED BY <2>1, <2>2
<1>15. EndInv'
  BY <1>1, <1>5, <1>7, <1>13 DEF Accepted, FdInv, EndInv
<1>16. KeptInv'
  <2> SUFFICES ASSUME NEW e \in Fds, fds'[e] # Unused
               PROVE \/ \E j \in Used' : clientset'[j].sockfd = e
                     \/ \E p \in Live' : user_pipe'[p].read = e
    BY DEF KeptInv
  <2>1. CASE e = d
    BY <2>1, <1>4, <1>6
  <2>2. CASE e # d
    <3>1. fds[e] # Unused
      BY <2>2, <1>5
    <3>2. CASE \E j \in Used : clientset[j].sockfd = e
      BY <3>2, <1>2, <1>4, <1>6 DEF Used
    <3>3. CASE \E p \in Live : user_pipe[p].read = e
      BY <3>3, <1>1, <1>7 DEF Accepted
    <3> QED BY <3>1, <3>2, <3>3, <1>1 DEF FdInv, KeptInv
  <2> QED BY <2>1, <2>2
<1>17. MasterInv'
  <2> SUFFICES ASSUME NEW e \in Fds
               PROVE e \in master' <=> \E j \in Used' : clientset'[j].sockfd = e
    BY DEF MasterInv
  <2>1. (\E j \in Used' : clientset'[j].sockfd = e)
          <=> (e = d \/ \E j \in Used : clientset[j].sockfd = e)
    BY <1>2, <1>4, <1>6 DEF Used
  <2> QED BY <2>1, <1>1 DEF Accepted, FdInv, MasterInv
<1>18. WriteInv'
  <2>1. ASSUME ~ crowded' PROVE Live = {}
    <3>1. Unread = {}
      BY <1>1, <2>1 DEF Accepted
    <3>2. Live \subseteq Unread
      BY <1>1 DEF FdInv, EndInv, Live, Unread
    <3> QED BY <3>1, <3>2
  <2> QED BY <2>1, <1>7 DEF WriteInv
<1> QED BY <1>1, <1>8, <1>9, <1>10, <1>11, <1>14, <1>15, <1>16, <1>17, <1>18 DEF SingleInv, FdInv

\* A pipe that is closed keeps its numbers.
LEMMA PipeCloses ==
  ASSUME NEW r \in Ends
  PROVE  /\ [r EXCEPT !.ispiped = FALSE] \in Ends
         /\ ~ [r EXCEPT !.ispiped = FALSE].ispiped
         /\ [r EXCEPT !.ispiped = FALSE].read = r.read
BY DEF Ends

\* What closepipe and the end of a session close.
LEMMA NumbersAre ==
  ASSUME NEW P, NEW d
  PROVE  /\ d \in Numbers(P, d)
         /\ \A p \in P : user_pipe[p].read \in Numbers(P, d)
         /\ \A e \in Numbers(P, d) :
              e = d \/ \E p \in P : e = user_pipe[p].read \/ e = user_pipe[p].write
<1> DEFINE Both == {{user_pipe[p].read, user_pipe[p].write} : p \in P}
<1>1. Numbers(P, d) = (UNION Both) \cup {d}
  BY DEF Numbers
<1>2. \A p \in P : {user_pipe[p].read, user_pipe[p].write} \in Both
  OBVIOUS
<1>3. \A B \in Both : \E p \in P : B = {user_pipe[p].read, user_pipe[p].write}
  OBVIOUS
<1> HIDE DEF Both
<1>4. \A p \in P : user_pipe[p].read \in UNION Both
  BY <1>2
<1>5. ASSUME NEW e \in UNION Both
      PROVE  \E p \in P : e = user_pipe[p].read \/ e = user_pipe[p].write
  <2>1. PICK B \in Both : e \in B
    OBVIOUS
  <2>2. PICK p \in P : B = {user_pipe[p].read, user_pipe[p].write}
    BY <1>3
  <2> QED BY <2>1, <2>2
<1>6. d \in Numbers(P, d)
  BY <1>1
<1>7. \A p \in P : user_pipe[p].read \in Numbers(P, d)
  BY Zenon, <1>1, <1>4
<1>8. ASSUME NEW e \in Numbers(P, d)
      PROVE  e = d \/ \E p \in P : e = user_pipe[p].read \/ e = user_pipe[p].write
  <2>1. e = d \/ e \in UNION Both
    BY Zenon, <1>1
  <2> QED BY <2>1, <1>5
<1> QED BY <1>6, <1>7, <1>8

\* The end of a session, however it comes about.
LEMMA LeaveStep ==
  ASSUME SingleInv, NEW d \in Fds, NEW c \in Clients, loop = "serve", fds[d] = Connection(c),
         Leave(d, c, Index(d), Used), Stays,
         peer' \in [Clients -> {"new", "connecting", "open", "gone"}],
         line' \in [Clients -> Lines \cup {NoLine}], typed' \in 0..MaxLines
  PROVE  SingleInv'
<1> DEFINE i == Index(d)
           P == ClosePipe(i)
           numbers == Numbers(P, d)
           meant == {ReadEnd(p) : p \in P} \cup {Connection(c)}
<1>1. FdInv
  BY DEF SingleInv
<1>2. /\ i \in Ids /\ i \in Used /\ clientset[i].sockfd = d /\ clientset[i].client = c
      /\ \A j \in Used : clientset[j].sockfd = d => j = i
  BY <1>1, IndexIs DEF SingleInv, FdInv, Used
<1> HIDE DEF i
<1>3. /\ clientset' = [clientset EXCEPT ![i] = NoClient]
      /\ id_queue' = [id_queue EXCEPT ![i] = @ + 1]
      /\ user_pipe' = [p \in Pipes |->
           IF p \in P THEN [user_pipe[p] EXCEPT !.ispiped = FALSE] ELSE user_pipe[p]]
      /\ fds' = [e \in Fds |-> IF e \in numbers THEN Unused ELSE fds[e]]
      /\ master' = master \ {d} /\ crowded' = crowded
  BY DEF Leave, Logout, Push, Close, i
<1>4. IF Stray(numbers, meant)
      THEN loop' = "astray" /\ read_fds' = read_fds
      ELSE Done(d) \/ Stopped(Used)
  BY DEF Leave, i
<1>5. /\ P \subseteq Live
      /\ \A p \in Live : p \in P <=> i \in {p[1], p[2]}
      /\ d \in numbers /\ \A p \in P : user_pipe[p].read \in numbers
      /\ \A e \in numbers : e = d \/ \E p \in P : e = user_pipe[p].read \/ e = user_pipe[p].write
  <2>1. P \subseteq Live /\ \A p \in Live : p \in P <=> i \in {p[1], p[2]}
    BY DEF ClosePipe, Live
  <2> QED BY <2>1, NumbersAre
<1> HIDE DEF P, numbers, meant
<1>6. read_fds' \subseteq Fds \cup {0} /\ loop' \in {"select", "serve", "dead", "hung", "astray"}
  <2>1. CASE Stray(numbers, meant)
    BY <2>1, <1>4 DEF SingleInv, SingleTypeOK
  <2>2. CASE ~ Stray(numbers, meant)
    BY <2>2, <1>4, LoopMoves DEF SingleInv
  <2> QED BY <2>1, <2>2
<1>7. /\ clientset' \in [Ids -> Entries] /\ clientset'[i] = NoClient
      /\ \A j \in Ids \ {i} : clientset'[j] = clientset[j]
      /\ ~ NoClient.used /\ NoClient.client = Nobody /\ NoClient.sockfd = 0
  BY <1>2, <1>3 DEF SingleInv, SingleTypeOK, Entries, NoClient
<1>8. Used' = Used \ {i}
  BY <1>2, <1>7 DEF Used
<1>9. /\ user_pipe' \in [Pipes -> Ends]
      /\ \A p \in Pipes : user_pipe'[p].ispiped <=> user_pipe[p].ispiped /\ p \notin P
      /\ \A p \in Pipes \ P : user_pipe'[p] = user_pipe[p]
  <2>1. user_pipe \in [Pipes -> Ends]
    BY DEF SingleInv, SingleTypeOK, Ends
  <2>2. ASSUME NEW p \in Pipes
        PROVE /\ user_pipe'[p] \in Ends
              /\ user_pipe'[p].ispiped <=> user_pipe[p].ispiped /\ p \notin P
              /\ p \notin P => user_pipe'[p] = user_pipe[p]
    <3>1. CASE p \in P BY <3>1, <2>1, <1>3, PipeCloses
    <3>2. CASE p \notin P BY <3>2, <2>1, <1>3
    <3> QED BY <3>1, <3>2
  <2> QED BY <2>2, <1>3
<1>10. Live' = Live \ P
  BY <1>9 DEF Live
<1>11. fds' \in [Fds -> Things] /\ \A e \in Fds : fds'[e] = IF e \in numbers THEN Unused ELSE fds[e]
  BY <1>3 DEF SingleInv, SingleTypeOK, Things
<1>12. SingleTypeOK'
  <2>1. id_queue[i] = 0
    BY <1>2 DEF SingleInv, IdsAccounted, Used
  <2>2. id_queue' \in [Ids -> {0, 1}]
    BY <1>2, <1>3, <2>1 DEF SingleInv, SingleTypeOK
  <2>3. master' \subseteq Fds /\ crowded' \in BOOLEAN
    BY <1>3 DEF SingleInv, SingleTypeOK
  <2> QED BY <1>6, <1>7, <1>9, <1>11, <2>2, <2>3
          DEF SingleTypeOK, Entries, Ends, Things
<1>13. EntryInv'
  <2>1. ASSUME NEW j \in Ids
        PROVE (IF clientset[j].used
               THEN /\ clientset[j].sockfd \in Fds /\ clientset[j].client \in Clients
                    /\ peer[clientset[j].client] \in {"open", "gone"}
               ELSE clientset[j] = NoClient)'
    <3>1. CASE j = i
      BY <3>1, <1>7
    <3>2. CASE j # i /\ j \in Used
      BY <3>2, <1>7 DEF SingleInv, EntryInv, Used, Stays, Present
    <3>3. CASE j # i /\ j \notin Used
      BY <3>3, <1>7 DEF SingleInv, EntryInv, Used
    <3> QED BY <3>1, <3>2, <3>3
  <2>2. (\A j, k \in Used : clientset[j].client = clientset[k].client => j = k)'
    BY <1>7, <1>8 DEF SingleInv, EntryInv, Used
  <2> QED BY <2>1, <2>2 DEF EntryInv
<1>14. IdsAccounted'
  BY <1>2, <1>3, <1>7 DEF SingleInv, SingleTypeOK, IdsAccounted, Used
<1>15. PipesOfPresent'
  BY <1>5, <1>8, <1>9 DEF SingleInv, PipesOfPresent, Live
\* A number that goes astray was handed out while a pipe was unread.
<1>16. Stray(numbers, meant) => crowded
  <2> SUFFICES ASSUME ~ crowded, NEW e \in numbers, e \in Fds
               PROVE fds[e] \in meant \cup {Unused}
    BY DEF Stray
  <2>1. CASE e = d
    BY <2>1 DEF meant
  <2>2. CASE \E p \in P : e = user_pipe[p].read
    BY <2>2, <1>1, <1>5 DEF FdInv, EndInv, meant
  <2>3. CASE \E p \in P : e = user_pipe[p].write
    BY <2>3, <1>1, <1>5 DEF FdInv, WriteInv
  <2> QED BY <2>1, <2>2, <2>3, <1>5
\* If none goes astray, only what belongs to the session is closed.
<1>17. ASSUME ~ Stray(numbers, meant)
       PROVE  FdInv'
  <2>1. \A e \in numbers \cap Fds : fds[e] \in meant \cup {Unused}
    BY <1>17 DEF Stray
  <2>2. \A j \in Used \ {i} : clientset[j].sockfd \in Fds \ numbers
    <3> TAKE j \in Used \ {i}
    <3>1. /\ clientset[j].sockfd \in Fds
          /\ fds[clientset[j].sockfd] = Connection(clientset[j].client)
          /\ clientset[j].client # c
      BY <1>1, <1>2 DEF FdInv, SocketInv, SingleInv, EntryInv, Used
    <3>2. fds[clientset[j].sockfd] \notin meant \cup {Unused}
      BY <3>1, Sorts DEF meant
    <3> QED BY <2>1, <3>1, <3>2
  <2>3. \A p \in Live \ P : user_pipe[p].read \in Fds \ numbers
    <3> TAKE p \in Live \ P
    <3>1. user_pipe[p].read \in Fds /\ fds[user_pipe[p].read] = ReadEnd(p)
      BY <1>1 DEF FdInv, EndInv
    <3>2. fds[user_pipe[p].read] \notin meant \cup {Unused}
      BY <3>1, Sorts DEF meant
    <3> QED BY <2>1, <3>1, <3>2
  <2>4. SocketInv'
    BY <2>2, <1>1, <1>7, <1>8, <1>11 DEF FdInv, SocketInv, Used
  <2>5. EndInv'
    BY <2>3, <1>1, <1>9, <1>10, <1>11 DEF FdInv, EndInv, Live
  <2>6. KeptInv'
    <3> SUFFICES ASSUME NEW e \in Fds, fds'[e] # Unused
                 PROVE \/ \E j \in Used' : clientset'[j].sockfd = e
                       \/ \E p \in Live' : user_pipe'[p].read = e
      BY DEF KeptInv
    <3>1. fds[e] # Unused /\ e \notin numbers
      BY <1>11
    <3>2. CASE \E j \in Used : clientset[j].sockfd = e
      <4>1. PICK j \in Used : clientset[j].sockfd = e
        BY <3>2
      <4>2. j # i
        BY <4>1, <3>1, <1>2, <1>5
      <4> QED BY <4>1, <4>2, <1>7, <1>8 DEF Used
    <3>3. CASE \E p \in Live : user_pipe[p].read = e
      BY <3>3, <3>1, <1>5, <1>9, <1>10 DEF Live
    <3> QED BY <3>1, <3>2, <3>3, <1>1 DEF FdInv, KeptInv
  <2>7. MasterInv'
    <3> SUFFICES ASSUME NEW e \in Fds
                 PROVE e \in master' <=> \E j \in Used' : clientset'[j].sockfd = e
      BY DEF MasterInv
    <3>1. (\E j \in Used' : clientset'[j].sockfd = e)
            <=> (\E j \in Used \ {i} : clientset[j].sockfd = e)
      BY <1>7, <1>8 DEF Used
    <3>2. (\E j \in Used \ {i} : clientset[j].sockfd = e)
            <=> (e # d /\ \E j \in Used : clientset[j].sockfd = e)
      BY <1>2
    <3> QED BY <3>1, <3>2, <1>1, <1>3 DEF FdInv, MasterInv
  <2>8. WriteInv'
    BY <1>1, <1>3, <1>9, <1>10, <1>11 DEF FdInv, WriteInv, Live
  <2> QED BY <2>4, <2>5, <2>6, <2>7, <2>8 DEF FdInv
<1>18. loop' = "astray" <=> Stray(numbers, meant)
  BY <1>4, LoopMoves DEF SingleInv
<1> QED BY <1>3, <1>12, <1>13, <1>14, <1>15, <1>16, <1>17, <1>18 DEF SingleInv

LEMMA ExitStep ==
  ASSUME SingleInv, NEW d \in Fds, NEW c \in Clients, NEW i \in Ids, Exit(d, c, i)
  PROVE  SingleInv'
<1>1. /\ line' \in [Clients -> Lines \cup {NoLine}] /\ typed' \in 0..MaxLines
      /\ loop = "serve" /\ fds[d] = Connection(c) /\ i = Index(d)
  BY RequestTaken DEF Exit
<1>2. peer' \in [Clients -> {"new", "connecting", "open", "gone"}] /\ Stays
  BY DEF Exit, SingleInv, SingleTypeOK, Stays, Present
<1>3. Leave(d, c, Index(d), Used)
  BY <1>1 DEF Exit
<1> QED BY <1>1, <1>2, <1>3, LeaveStep

LEMMA ClientLeavesStep ==
  ASSUME SingleInv, NEW d \in Fds, NEW c \in Clients, ClientLeaves(d, c)
  PROVE  SingleInv'
<1>1. loop = "serve" /\ fds[d] = Connection(c) /\ Leave(d, c, Index(d), Used)
  BY DEF ClientLeaves, Turn
<1>2. UNCHANGED <<peer, line, typed>>
  BY DEF ClientLeaves, client
<1>3. /\ line' \in [Clients -> Lines \cup {NoLine}] /\ typed' \in 0..MaxLines
      /\ peer' \in [Clients -> {"new", "connecting", "open", "gone"}] /\ Stays
  BY <1>2 DEF SingleInv, SingleTypeOK, Stays, Present
<1> QED BY <1>1, <1>3, LeaveStep

\* A command reads a pipe, fills a pipe, or both.  in, out: the pipes, one each at most.
LEMMA ExecStep ==
  ASSUME SingleInv, NEW d \in Fds, NEW c \in Clients, NEW i \in Ids, Exec(d, c, i)
  PROVE  SingleInv'
<1> DEFINE from == line[c].from
           to == line[c].to
           in == IF Receives(i, from) THEN {<<from, i>>} ELSE {}
           out == IF Sends(i, to) THEN {<<i, to>>} ELSE {}
           read == {user_pipe[p].read : p \in in}
<1>1. /\ line' \in [Clients -> Lines \cup {NoLine}] /\ typed' \in 0..MaxLines
      /\ loop = "serve" /\ FdInv /\ i \in Used
  BY RequestTaken DEF Exec
<1>2. /\ user_pipe' = [p \in Pipes |->
           IF p \in out THEN NewPipe
           ELSE IF p \in in THEN [user_pipe[p] EXCEPT !.ispiped = FALSE]
           ELSE user_pipe[p]]
      /\ fds' = [e \in Fds |-> IF out # {} /\ e = NthFree(3)
                               THEN ReadEnd(<<i, to>>) ELSE Close(fds, read)[e]]
      /\ crowded' = (crowded \/ (out # {} /\ Unread \ in # {}))
      /\ UNCHANGED <<clientset, id_queue, master, peer>>
  BY DEF Exec
<1>3. IF Stray(read, {ReadEnd(p) : p \in in})
      THEN loop' = "astray" /\ read_fds' = read_fds
      ELSE IF out # {} /\ line[c].big
      THEN loop' = "hung" /\ read_fds' = read_fds
      ELSE Done(d) \/ Stopped(Used)
  BY DEF Exec
<1>4. in \subseteq Live
  BY <1>1 DEF Receives, Live, Pipes, Used
<1>5. /\ out \subseteq Pipes \ Live /\ \A p \in out : p = <<i, to>> /\ {p[1], p[2]} \subseteq Used
  BY <1>1 DEF Sends, Live, Pipes, Used
<1>6. /\ NthFree(3) \in Fds /\ NthFree(4) \in Fds /\ NthFree(3) # NthFree(4)
      /\ fds[NthFree(3)] = Unused /\ fds[NthFree(4)] = Unused
  BY <1>1, Spare, 3 \in 1..4, 4 \in 1..4 DEF SingleInv, FdInv
<1>7. /\ \A e \in read : e \in Fds /\ \E p \in in : e = user_pipe[p].read /\ fds[e] = ReadEnd(p)
      /\ \A p \in in : user_pipe[p].read \in read
  BY <1>1, <1>4 DEF FdInv, EndInv
<1> HIDE DEF in, out, read, from, to
<1>8. ~ Stray(read, {ReadEnd(p) : p \in in})
  BY <1>7 DEF Stray
<1>9. read_fds' \subseteq Fds \cup {0} /\ loop' \in {"select", "serve", "dead", "hung"}
  <2>1. CASE Done(d) \/ Stopped(Used)
    BY <2>1, LoopMoves DEF SingleInv
  <2>2. CASE loop' = "hung" /\ read_fds' = read_fds
    BY <2>2 DEF SingleInv, SingleTypeOK
  <2> QED BY <2>1, <2>2, <1>3, <1>8
<1>10. /\ NewPipe \in Ends /\ NewPipe.ispiped
       /\ NewPipe.read = NthFree(3) /\ NewPipe.write = NthFree(4)
  BY <1>6 DEF NewPipe, Ends
<1>11. user_pipe \in [Pipes -> Ends]
  BY DEF SingleInv, SingleTypeOK, Ends
<1>12. ASSUME NEW p \in Pipes
       PROVE  /\ user_pipe'[p] \in Ends
              /\ user_pipe'[p].ispiped <=> p \in out \/ (user_pipe[p].ispiped /\ p \notin in)
              /\ p \in out => user_pipe'[p] = NewPipe
              /\ p \notin in \cup out => user_pipe'[p] = user_pipe[p]
  <2>1. CASE p \in out BY <2>1, <1>2, <1>10
  <2>2. CASE p \in in \ out BY <2>2, <1>2, <1>11, PipeCloses
  <2>3. CASE p \notin in \cup out BY <2>3, <1>2, <1>11
  <2> QED BY <2>1, <2>2, <2>3
<1>13. user_pipe' \in [Pipes -> Ends] /\ Live' = out \cup (Live \ in)
  BY <1>2, <1>5, <1>12 DEF Live
<1>14. \A e \in Fds : fds'[e] = IF out # {} /\ e = NthFree(3) THEN ReadEnd(<<i, to>>)
                                ELSE IF e \in read THEN Unused ELSE fds[e]
  BY <1>2 DEF Close
<1>15. Used' = Used /\ peer' = peer /\ clientset' = clientset
  BY <1>2 DEF Used
<1>16. SingleTypeOK'
  <2>1. fds' \in [Fds -> Things]
    <3>1. out # {} => <<i, to>> \in Pipes
      BY <1>5
    <3>2. \A e \in Fds : fds'[e] \in Things
      BY <3>1, <1>14 DEF SingleInv, SingleTypeOK, Things
    <3> QED BY <3>2, <1>2
  <2>2. crowded' \in BOOLEAN
    BY <1>2 DEF SingleInv, SingleTypeOK
  <2> QED BY <2>1, <2>2, <1>1, <1>2, <1>9, <1>13
          DEF SingleInv, SingleTypeOK, Ends, Things
<1>17. EntryInv' /\ IdsAccounted'
  BY <1>2, <1>15 DEF SingleInv, EntryInv, IdsAccounted
<1>18. PipesOfPresent'
  BY <1>5, <1>12, <1>15 DEF SingleInv, PipesOfPresent
<1>19. SocketInv'
  <2> SUFFICES ASSUME NEW j \in Used
               PROVE fds'[clientset[j].sockfd] = Connection(clientset[j].client)
    BY <1>15 DEF SocketInv
  <2>1. clientset[j].sockfd \in Fds /\ fds[clientset[j].sockfd] = Connection(clientset[j].client)
    BY <1>1 DEF FdInv, SocketInv, SingleInv, EntryInv, Used
  <2>2. clientset[j].sockfd # NthFree(3) /\ clientset[j].sockfd \notin read
    BY <2>1, <1>6, <1>7, Sorts
  <2> QED BY <2>1, <2>2, <1>14
<1>20. EndInv'
  <2> SUFFICES ASSUME NEW p \in Live'
               PROVE user_pipe'[p].read \in Fds /\ fds'[user_pipe'[p].read] = ReadEnd(p)
    BY DEF EndInv
  <2>1. CASE p \in out
    BY <2>1, <1>5, <1>6, <1>10, <1>12, <1>14
  <2>2. CASE p \in Live \ in /\ p \notin out
    <3>1. /\ user_pipe'[p] = user_pipe[p] /\ user_pipe[p].read \in Fds
          /\ fds[user_pipe[p].read] = ReadEnd(p)
      BY <2>2, <1>1, <1>12 DEF FdInv, EndInv, Live
    <3>2. user_pipe[p].read # NthFree(3) /\ user_pipe[p].read \notin read
      BY <2>2, <3>1, <1>6, <1>7, Sorts
    <3> QED BY <3>1, <3>2, <1>14
  <2> QED BY <2>1, <2>2, <1>13
<1>21. KeptInv'
  <2> SUFFICES ASSUME NEW e \in Fds, fds'[e] # Unused
               PROVE \/ \E j \in Used : clientset[j].sockfd = e
                     \/ \E p \in Live' : user_pipe'[p].read = e
    BY <1>15 DEF KeptInv
  <2>1. CASE out # {} /\ e = NthFree(3)
    <3>1. PICK p \in out : TRUE
      BY <2>1
    <3>2. p \in Live' /\ user_pipe'[p].read = e
      BY <2>1, <3>1, <1>5, <1>10, <1>12, <1>13
    <3> QED BY <3>2
  <2>2. CASE ~ (out # {} /\ e = NthFree(3))
    <3>1. e \notin read /\ fds[e] # Unused
      BY <2>2, <1>14
    <3>2. CASE \E p \in Live : user_pipe[p].read = e
      <4>1. PICK p \in Live : user_pipe[p].read = e
        BY <3>2
      <4>2. p \in Live \ in /\ p \notin out /\ p \in Pipes
        BY <4>1, <3>1, <1>5, <1>7 DEF Live
      <4> QED BY <4>1, <4>2, <1>12, <1>13
    <3> QED BY <3>1, <3>2, <1>1 DEF FdInv, KeptInv
  <2> QED BY <2>1, <2>2
<1>22. MasterInv'
  BY <1>1, <1>2, <1>15 DEF FdInv, MasterInv
<1>23. WriteInv'
  <2> SUFFICES ASSUME ~ crowded', NEW p \in Live'
               PROVE user_pipe'[p].write \in Fds /\ fds'[user_pipe'[p].write] = Unused
    BY DEF WriteInv
  <2>1. CASE p \in out
    <3>1. user_pipe'[p].write = NthFree(4)
      BY <2>1, <1>5, <1>10, <1>12
    <3> QED BY <3>1, <1>6, <1>14
  <2>2. CASE p \notin out
    <3>1. p \in Live \ in /\ p \in Pipes /\ user_pipe'[p] = user_pipe[p]
      BY <2>2, <1>12, <1>13 DEF Live
    <3>2. out = {}
      <4>1. p \in Unread
        BY <3>1, <1>1 DEF FdInv, EndInv, Unread
      <4> QED BY <4>1, <3>1, <1>2
    <3>3. user_pipe[p].write \in Fds /\ fds[user_pipe[p].write] = Unused
      BY <3>1, <1>1, <1>2 DEF FdInv, WriteInv
    <3> QED BY <3>1, <3>2, <3>3, <1>14
  <2> QED BY <2>1, <2>2
<1> QED BY <1>9, <1>16, <1>17, <1>18, <1>19, <1>20, <1>21, <1>22, <1>23 DEF SingleInv, FdInv
-----------------------------------------------------------------------------
(* The theorems.                                                           *)

LEMMA SingleStart == SingleInit => SingleInv
<1> SUFFICES ASSUME SingleInit PROVE SingleInv
  OBVIOUS
<1>1. SingleTypeOK
  <2>1. clientset \in [Ids -> Entries] /\ user_pipe \in [Pipes -> Ends]
    BY DEF SingleInit, Entries, Ends, NoClient, NoPipe
  <2>2. /\ id_queue \in [Ids -> {0, 1}] /\ fds \in [Fds -> Things]
        /\ peer \in [Clients -> {"new", "connecting", "open", "gone"}]
        /\ line \in [Clients -> Lines \cup {NoLine}]
    BY DEF SingleInit, Things
  <2>3. typed \in 0..MaxLines
    BY ServerAssumption DEF SingleInit
  <2>4. master \subseteq Fds /\ read_fds \subseteq Fds \cup {0} /\ loop = "select" /\ crowded \in BOOLEAN
    BY DEF SingleInit
  <2> QED BY <2>1, <2>2, <2>3, <2>4 DEF SingleTypeOK, Entries, Ends, Things
<1>2. Used = {} /\ Live = {}
  BY DEF SingleInit, Used, Live, NoClient, NoPipe
<1>3. IdsAccounted /\ PipesOfPresent /\ EntryInv
  BY <1>2 DEF SingleInit, IdsAccounted, PipesOfPresent, EntryInv, NoClient, NoPipe
<1>4. FdInv
  BY <1>2 DEF SingleInit, FdInv, SocketInv, EndInv, KeptInv, MasterInv, WriteInv
<1> QED BY <1>1, <1>3, <1>4 DEF SingleInit, SingleInv

LEMMA SinglePreserved == SingleInv /\ [SingleNext]_vars => SingleInv'
<1> SUFFICES ASSUME SingleInv, [SingleNext]_vars PROVE SingleInv'
  OBVIOUS
<1>1. CASE UNCHANGED vars
  <2>1. UNCHANGED <<clientset, id_queue, user_pipe, fds, master, crowded, loop, read_fds,
                    peer, line, typed>>
    BY <1>1 DEF vars
  <2>2. RestTypes /\ Stays
    BY <2>1 DEF SingleInv, SingleTypeOK, RestTypes, LoopStates, Stays
  <2> QED BY <2>1, <2>2, PassiveStep
<1>2. CASE Select \/ AcceptUndefined
  BY <1>2, SelectStep
<1>3. ASSUME NEW c \in Clients, Connect(c) \/ Type(c) \/ HangUp(c) \/ Accept(c)
      PROVE  SingleInv'
  BY <1>3, ClientStep, AcceptStep
<1>4. ASSUME NEW d \in Fds, NEW c \in Clients, ClientLeaves(d, c)
      PROVE  SingleInv'
  BY <1>4, ClientLeavesStep
<1>5. ASSUME NEW d \in Fds, NEW c \in Clients, NEW i \in Ids,
             \/ Talk(d, c, i) \/ Name(d, c, i) \/ Exit(d, c, i) \/ Exec(d, c, i)
             \/ BadArguments(d, c, i) \/ ExecUndefined(d, c, i)
      PROVE  SingleInv'
  BY <1>5, TalkStep, NameStep, ExitStep, ExecStep, LastStep
<1>6. read_fds \ {0} \subseteq Fds
  BY DEF SingleInv, SingleTypeOK
<1> QED BY <1>1, <1>2, <1>3, <1>4, <1>5, <1>6 DEF SingleNext

LEMMA SingleAlways == SingleSpec => []SingleInv
BY SingleStart, SinglePreserved, PTL DEF SingleSpec

\* The variables of the single-process server keep their types, whatever is closed.
THEOREM SingleTypesCorrect == SingleSpec => []SingleTypeOK
<1>1. SingleInv => SingleTypeOK
  BY DEF SingleInv
<1> QED BY <1>1, SingleAlways, PTL

\* However sessions end, an id is in the queue or somebody's, never both or neither.
THEOREM IdsAlwaysAccounted == SingleSpec => []IdsAccounted
<1>1. SingleInv => IdsAccounted
  BY DEF SingleInv
<1> QED BY <1>1, SingleAlways, PTL

\* closepipe leaves no pipe of a client who is gone: the next owner of the id has none.
THEOREM PipesAlwaysOfPresent == SingleSpec => []PipesOfPresent
<1>1. SingleInv => PipesOfPresent
  BY DEF SingleInv
<1> QED BY <1>1, SingleAlways, PTL

\* The numbers in the table mean what they meant when they were stored, and the second
\* close of a write end hits somebody else's descriptor only if a number was handed out
\* while a pipe was unread.
THEOREM DescriptorsOwned == SingleSpec => []OwnDescriptors
<1>1. SingleInv => OwnDescriptors
  BY DEF SingleInv, FdInv, SocketInv, EndInv, OwnDescriptors, Live
<1> QED BY <1>1, SingleAlways, PTL

\* No descriptor leaks: at select those in use are the watched connections and the unread pipes.
THEOREM NothingLeaks == SingleSpec => []NoLeak
<1>1. SingleInv => NoLeak
  <2> SUFFICES ASSUME SingleInv, loop = "select"
               PROVE  /\ master = {clientset[i].sockfd : i \in Used}
                      /\ {d \in Fds : fds[d] # Unused} = master \cup {user_pipe[p].read : p \in Live}
    BY DEF NoLeak, Live
  <2>1. FdInv /\ master \subseteq Fds
    BY DEF SingleInv, SingleTypeOK
  <2>2. \A i \in Used : clientset[i].sockfd \in Fds /\ fds[clientset[i].sockfd] # Unused
    BY <2>1, Sorts DEF SingleInv, EntryInv, FdInv, SocketInv, Used
  <2>3. \A p \in Live : user_pipe[p].read \in Fds /\ fds[user_pipe[p].read] # Unused
    BY <2>1, Sorts DEF FdInv, EndInv
  <2>4. master = {clientset[i].sockfd : i \in Used}
    BY <2>1, <2>2 DEF FdInv, MasterInv
  <2>5. {d \in Fds : fds[d] # Unused} = master \cup {user_pipe[p].read : p \in Live}
    BY <2>1, <2>2, <2>3, <2>4 DEF FdInv, KeptInv
  <2> QED BY <2>4, <2>5
<1> QED BY <1>1, SingleAlways, PTL
-----------------------------------------------------------------------------
(* Refinement of ClientTable.                                              *)

Owners == [i \in Ids |-> clientset[i].client]
Nicks == [i \in Ids |-> clientset[i].name]

\* Who is accepted enters a free slot.
LEMMA AcceptEnters ==
  ASSUME SingleInv, NEW c \in Clients, Accept(c)
  PROVE  \E i \in Ids : Table!Enter(i, c)
<1>1. PICK i, d : Accepted(c, i, d)
  BY AcceptDoes
<1>2. i \in Ids /\ i \notin Used /\ peer[c] = "connecting" /\ clientset \in [Ids -> Entries]
  BY <1>1 DEF Accepted, SingleInv, SingleTypeOK, Entries
<1>3. Owners[i] = Nobody
  BY <1>2 DEF Owners, SingleInv, EntryInv, Used, NoClient
<1>4. \A j \in Ids : Owners[j] # c
  <2> TAKE j \in Ids
  <2>1. CASE j \in Used
    BY <2>1, <1>2 DEF Owners, SingleInv, EntryInv, Used
  <2>2. CASE j \notin Used
    BY <2>2, ServerAssumption DEF Owners, SingleInv, EntryInv, Used, NoClient
  <2> QED BY <2>1, <2>2
<1>5. \A j \in Ids : /\ j # i => clientset'[j] = clientset[j]
                     /\ j = i => clientset'[j].client = c /\ clientset'[j].name = DefaultName
  BY <1>1, <1>2 DEF Accepted
<1>6. Owners' = [Owners EXCEPT ![i] = c] /\ Nicks' = [Nicks EXCEPT ![i] = DefaultName]
  BY <1>2, <1>5 DEF Owners, Nicks
<1> QED BY <1>2, <1>3, <1>4, <1>6 DEF Table!Enter, Owners, Nicks

\* Who takes a name that nobody has is in the table, and its only owner.
LEMMA NameRenames ==
  ASSUME SingleInv, NEW d \in Fds, NEW c \in Clients, NEW i \in Ids, Name(d, c, i)
  PROVE  UNCHANGED clientset \/ \E j \in Ids, n \in Names \cup {DefaultName} : Table!Rename(j, n)
<1>1. CASE UNCHANGED clientset
  BY <1>1
<1>2. CASE /\ \A j \in Ids : clientset[j].name # line[c].name
           /\ clientset' = [clientset EXCEPT ![i].name = line[c].name]
  <2>0. clientset \in [Ids -> Entries]
    BY DEF SingleInv, SingleTypeOK, Entries
  <2>1. i \in Used /\ line[c].kind = "name" /\ line[c] \in Lines \cup {NoLine}
    BY RequestTaken DEF Name, SingleInv, SingleTypeOK
  <2>2. line[c].name \in Names
    BY <2>1, LineNames
  <2>3. Owners[i] # Nobody
    BY <2>1, ServerAssumption DEF Owners, SingleInv, EntryInv, Used
  <2>4. \A j \in Ids : /\ clientset'[j].client = clientset[j].client
                       /\ clientset'[j].name = IF j = i THEN line[c].name ELSE clientset[j].name
    BY <1>2, <2>0, <2>2 DEF Entries
  <2>5. Owners' = Owners /\ Nicks' = [Nicks EXCEPT ![i] = line[c].name]
    BY <2>4 DEF Owners, Nicks
  <2>6. \A j \in Ids : Nicks[j] # line[c].name
    BY <1>2 DEF Nicks
  <2>7. \E j \in Ids, n \in Names \cup {DefaultName} :
          /\ Owners[j] # Nobody /\ \A k \in Ids : Nicks[k] # n
          /\ Nicks' = [Nicks EXCEPT ![j] = n] /\ UNCHANGED Owners
    BY <2>2, <2>3, <2>5, <2>6
  <2>8. \E j \in Ids, n \in Names \cup {DefaultName} : Table!Rename(j, n)
    BY <2>7 DEF Table!Rename, Owners, Nicks
  <2> QED BY Zenon, <2>8
<1> QED BY <1>1, <1>2 DEF Name

\* Who leaves leaves one slot.
LEMMA LeaveEmpties ==
  ASSUME SingleInv, NEW d, NEW c, NEW i \in Ids, Leave(d, c, i, Used)
  PROVE  Table!Leave(i)
<1>1. clientset' = [clientset EXCEPT ![i] = NoClient] /\ clientset \in [Ids -> Entries]
  BY DEF Leave, Logout, SingleInv, SingleTypeOK, Entries
<1>2. \A j \in Ids : /\ j # i => clientset'[j] = clientset[j]
                     /\ j = i => clientset'[j].client = Nobody /\ clientset'[j].name = NoName
  BY <1>1 DEF NoClient
<1>3. Owners' = [Owners EXCEPT ![i] = Nobody] /\ Nicks' = [Nicks EXCEPT ![i] = NoName]
  BY <1>2 DEF Owners, Nicks
<1> QED BY <1>3 DEF Table!Leave, Owners, Nicks

\* Every step of the server is a step of ClientTable or invisible in it.
LEMMA SingleTableStep ==
  ASSUME SingleInv, [SingleNext]_vars
  PROVE  [Table!Next]_<<Owners, Nicks>>
<1>0. ASSUME UNCHANGED clientset PROVE UNCHANGED <<Owners, Nicks>>
  BY <1>0 DEF Owners, Nicks
<1>1. CASE UNCHANGED vars \/ Select \/ AcceptUndefined
  BY <1>0, <1>1 DEF vars, Select, AcceptUndefined
<1>2. ASSUME NEW c \in Clients, Connect(c) \/ Type(c) \/ HangUp(c)
      PROVE  UNCHANGED <<Owners, Nicks>>
  BY <1>0, <1>2 DEF Connect, Type, HangUp, server
<1>3. ASSUME NEW c \in Clients, Accept(c) PROVE Table!Next
  <2>1. \E i \in Ids : Table!Enter(i, c)
    BY <1>3, AcceptEnters
  <2> QED BY Zenon, <2>1 DEF Table!Next
<1>4. ASSUME NEW d \in Fds, NEW c \in Clients, ClientLeaves(d, c) PROVE Table!Next
  <2>1. fds[d] = Connection(c) /\ FdInv /\ Leave(d, c, Index(d), Used)
    BY <1>4 DEF ClientLeaves, Turn, SingleInv
  <2>2. Index(d) \in Ids
    BY <2>1, IndexIs DEF SingleInv, FdInv, Used
  <2>3. PICK i \in Ids : Leave(d, c, i, Used)
    BY <2>1, <2>2
  <2>4. Table!Leave(i)
    BY <2>3, LeaveEmpties
  <2> QED BY Zenon, <2>4 DEF Table!Next
<1>5. ASSUME NEW d \in Fds, NEW c \in Clients, NEW i \in Ids, Exit(d, c, i) PROVE Table!Next
  <2>1. Table!Leave(i)
    BY <1>5, LeaveEmpties DEF Exit
  <2> QED BY Zenon, <2>1 DEF Table!Next
<1>6. ASSUME NEW d \in Fds, NEW c \in Clients, NEW i \in Ids, Name(d, c, i)
      PROVE  [Table!Next]_<<Owners, Nicks>>
  <2>1. CASE UNCHANGED clientset
    BY <1>0, <2>1
  <2>2. CASE \E j \in Ids, n \in Names \cup {DefaultName} : Table!Rename(j, n)
    BY Zenon, <2>2 DEF Table!Next
  <2> QED BY <2>1, <2>2, <1>6, NameRenames
<1>7. ASSUME NEW d \in Fds, NEW c \in Clients, NEW i \in Ids,
             \/ Talk(d, c, i) \/ Exec(d, c, i)
             \/ BadArguments(d, c, i) \/ ExecUndefined(d, c, i)
      PROVE  UNCHANGED <<Owners, Nicks>>
  BY <1>0, <1>7 DEF Talk, Exec, BadArguments, ExecUndefined
<1>8. \A d \in read_fds \ {0} : d \in Fds
  BY DEF SingleInv, SingleTypeOK
<1> QED BY Zenon, <1>1, <1>2, <1>3, <1>4, <1>5, <1>6, <1>7, <1>8 DEF SingleNext

\* The single-process server implements ClientTable, too: the same promises to the users
\* as the multi-process one.
THEOREM SingleTableImplemented == SingleSpec => ImplementsClientTable
<1>1. SingleInit => Table!Init
  BY DEF SingleInit, NoClient, Table!Init
<1>2. SingleInv /\ [SingleNext]_vars => [Table!Next]_(Table!table)
  BY SingleTableStep DEF Table!table, Owners, Nicks
<1> QED BY PTL, <1>1, <1>2, SingleAlways DEF SingleSpec, ImplementsClientTable, Table!Spec
================================================================================
