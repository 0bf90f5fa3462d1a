------------------------------ MODULE MCUserPipes ------------------------------
(* Small instances of UserPipes for TLC, of two or three slots. *)
EXTENDS UserPipes, TLC

\* The sessions are interchangeable: their slots are chosen in PipesInit.
Sessions == Permutations(Proc)

\* The arguments that clients type.  Counted in the rows of an entry, N + 1 is
\* `used` of the next entry or the last mapped word, and N + 2 the pid of the
\* next entry or, after the last entry, an address that is not mapped.
SomeFrom == {1, N + 1, N + 2}
SomeTo == {NotGiven, 2}
NotTyped == {NotGiven}

\* Bound: one session has slot 1, and a number beyond the table is typed once
\* at most.  Where there is none, and the other session has slot 2, the one in
\* slot 1 may send to it a second time.
Beyond(c) == {p \in Proc : c[p].from > N}
FewCommands ==
  typed' # typed =>
    /\ \E p \in Proc : userid[p] = 1
    /\ \A p, q \in Beyond(cmd') : p = q
    /\ \A p \in Proc : typed'[p] > 1 =>
         /\ userid[p] = 1 /\ \A q \in Proc : userid[q] <= 2
         /\ cmd[p].to = 2 /\ cmd'[p].to = 2
         /\ Beyond(cmd) \cup Beyond(cmd') = {}
=============================================================================
