------------------------------ MODULE ClientTable ------------------------------
(***************************************************************************)
(* What the client table of np_project2/multiple promises to its users: a  *)
(* slot belongs to one session from the moment it enters to the moment it  *)
(* leaves, and a session that takes a nickname is the only one to have it. *)
(* One atomic action per operation; nothing about semaphores and signals.  *)
(***************************************************************************)
CONSTANTS Proc, Slots, Names, DefaultName, NoName, NoProc

VARIABLES
  owner,  \* the session that a slot belongs to, or NoProc
  nick    \* the nickname of that session, or NoName

table == <<owner, nick>>

Init ==
  /\ owner = [i \in Slots |-> NoProc]
  /\ nick = [i \in Slots |-> NoName]

\* A session that is not in the table enters a free slot.
Enter(i, p) ==
  /\ owner[i] = NoProc
  /\ \A j \in Slots : owner[j] # p
  /\ owner' = [owner EXCEPT ![i] = p]
  /\ nick' = [nick EXCEPT ![i] = DefaultName]

Rename(i, n) ==
  /\ owner[i] # NoProc
  /\ \A j \in Slots : nick[j] # n
  /\ nick' = [nick EXCEPT ![i] = n]
  /\ UNCHANGED owner

\* The previous owner is slow to leave and wipes the new one's nickname.
Forget(i) ==
  /\ nick' = [nick EXCEPT ![i] = NoName]
  /\ UNCHANGED owner

Leave(i) ==
  /\ owner' = [owner EXCEPT ![i] = NoProc]
  /\ nick' = [nick EXCEPT ![i] = NoName]

Next ==
  \E i \in Slots :
    \/ \E p \in Proc : Enter(i, p)
    \/ \E n \in Names \cup {DefaultName} : Rename(i, n)
    \/ Forget(i)
    \/ Leave(i)

Spec == Init /\ [][Next]_table
=============================================================================
