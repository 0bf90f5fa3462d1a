---------------------------- MODULE MultiShutdown -----------------------------
(***************************************************************************)
(* The end of the multi-process chat server.  On SIGINT the master signals *)
(* every pid it reads in the table, without the semaphore, and removes the *)
(* shared memory and the semaphore.  A session that gets SIGINT removes    *)
(* the semaphore too, and then calls Logout, whose Semaphore_P can only    *)
(* fail: it exits.  The sessions that are left run on until their next     *)
(* semop.                                                                  *)
(*                                                                         *)
(* The signals come from whoever ends the server: to the master alone, or  *)
(* from the terminal to all.  SIGQUIT and SIGTERM act like SIGINT.  Left   *)
(* out: a second of these signals while the first is handled, and a        *)
(* terminal's signal before Shell has installed its handlers.              *)
(***************************************************************************)
EXTENDS MultiServer

VARIABLES
  master,  \* "accepts", "kills", "removes" or "exited"
  slot,    \* the loop index of its handler
  key,     \* can the shared memory still be found by its key?
  sem,     \* does the semaphore exist?
  int      \* per session: SIGINT is "none", "pending" or "handled"

ipc == <<key, sem>>
shutdown == <<master, slot, ipc, int>>
svars == <<vars, shutdown>>
state == <<clientset, userid, sec, at, control, locals, input, stray>>

ShutInit ==
  /\ Init
  /\ master = "accepts"
  /\ slot = 1
  /\ key = TRUE
  /\ sem = TRUE
  /\ int = [p \in Proc |-> "none"]
-----------------------------------------------------------------------------
(* The master.                                                             *)

Hit(T) == [p \in Proc |-> IF p \in T /\ int[p] = "none" THEN "pending" ELSE int[p]]

MasterSignalled ==
  /\ master = "accepts"
  /\ master' = "kills"
  /\ \/ UNCHANGED int
     \/ int' = Hit({p \in Proc : Live(p)})
  /\ UNCHANGED <<vars, slot, ipc>>

\* Mutant: the loop ends one slot early.
LastKilledShort == N - 1

\* for (i = 1; i < MAX_CLIENT_NUM; i++)
LastKilled == N

\* kill(clientset[i].pid, SIGINT) for a used slot.  A session that is filling the
\* slot in may have set `used` and not yet `pid`, which is 0: everybody.
Filling(i) == \E p \in Proc : at[p]["main"] = "act" /\ sec[p] = "InitialClient" /\ idx[p] = i

MasterKills ==
  /\ master = "kills"
  /\ slot <= LastKilled
  /\ slot' = slot + 1
  /\ \/ clientset[slot].used /\ int' = Hit(Targets(slot))
     \/ ~clientset[slot].used /\ UNCHANGED int
     \/ Filling(slot) /\ int' = Hit({p \in Proc : Live(p)})
  /\ UNCHANGED <<vars, master, ipc>>

MasterRemovesTable ==
  /\ master = "kills"
  /\ slot = LastKilled + 1
  /\ master' = "removes"
  /\ key' = FALSE
  /\ UNCHANGED <<vars, slot, sem, int>>

\* IPC_RMID: the semaphore and what would be undone on it are gone.
RemoveSemaphore ==
  /\ sem' = FALSE
  /\ semval' = 0
  /\ semadj' = [p \in Proc |-> 0]

\* semget or semctl fails when a session was faster; the master exits all the same.
MasterExits ==
  /\ master = "removes"
  /\ RemoveSemaphore
  /\ master' = "exited"
  /\ UNCHANGED <<state, slot, key, int>>
-----------------------------------------------------------------------------
(* A session: SIGINT.                                                      *)

IntRemoves(p) ==
  /\ Live(p) /\ int[p] = "pending" /\ sem
  /\ RemoveSemaphore
  /\ int' = [int EXCEPT ![p] = "handled"]
  /\ UNCHANGED <<state, master, slot, key>>

\* Logout's Semaphore_P fails, or semctl does: because the semaphore is gone, or
\* because semaphore_id is still 0 in a session that has not called semget.
IntExits(p) ==
  /\ Live(p)
  /\ \/ int[p] = "handled"
     \/ int[p] = "pending" /\ ~sem
     \/ int[p] = "pending" /\ Runs(p, "main", "P") /\ sec[p] = "InitialClient"
  /\ End(p)
  /\ int' = [int EXCEPT ![p] = "none"]
  /\ UNCHANGED <<clientset, master, slot, ipc>>
-----------------------------------------------------------------------------
(* A session: semop on a semaphore that is gone.                           *)

\* Mutant: the result of Semaphore_P is not looked at.
PIgnored(p) ==
  /\ Runs(p, run[p], "P") \/ Runs(p, run[p], "blocked")
  /\ at' = [at EXCEPT ![p][run[p]] = "test"]
  /\ UNCHANGED <<kernel, clientset, userid, sec, control, locals, input, stray>>

\* EIDRM or EINVAL: every caller exits.  InitialClient also exits when semget or
\* shmget finds nothing.
PFails(p) ==
  /\ Runs(p, run[p], "P") \/ Runs(p, run[p], "blocked")
  /\ End(p)
  /\ UNCHANGED clientset

\* The main program exits when Semaphore_V fails, a handler just returns.
VFails(p) ==
  \/ Runs(p, "main", "V") /\ End(p) /\ UNCHANGED clientset
  \/ \E s \in Signals : HandlerVForgets(p, s)

NoTable(p) ==
  /\ ~key
  /\ Runs(p, "main", "P") /\ sec[p] = "InitialClient"
  /\ End(p) /\ UNCHANGED clientset

\* Without the semaphore a session still does what takes and gives nothing.
SessionStep(p) ==
  /\ int[p] # "handled"
  /\ \/ sem /\ Step(p)
     \/ sem /\ NoTable(p)
     \/ /\ ~sem
        /\ Step(p) /\ semval' = 0 /\ at'[p][run[p]] # "blocked"
     \/ ~sem /\ PFails(p)
     \/ ~sem /\ VFails(p)
  /\ int' = [int EXCEPT ![p] = IF sec'[p] = "dead" THEN "none" ELSE @]
  /\ UNCHANGED <<master, slot, ipc>>

Outside(p) ==
  /\ int[p] # "handled"
  /\ \/ SigPipe(p) \/ BadArguments(p) \/ Hangup(p) \/ ReadCommand(p)
     \/ \E q \in Proc : AcceptBySession(p, q)
  /\ int' = [int EXCEPT ![p] = IF sec'[p] = "dead" THEN "none" ELSE @]
  /\ UNCHANGED <<master, slot, ipc>>

MasterAccepts(p) ==
  /\ master = "accepts"
  /\ AcceptByMaster(p)
  /\ UNCHANGED shutdown

Master == MasterSignalled \/ MasterKills \/ MasterRemovesTable \/ MasterExits

ShutNext ==
  \/ Master
  \/ \E p \in Proc : \/ IntRemoves(p) \/ IntExits(p)
                     \/ SessionStep(p) \/ Outside(p) \/ MasterAccepts(p)

\* The master goes on in its handler, and a session that got its signal in its own.
\* Nothing makes the signal come, and nothing else has to make progress.
ShutSpec ==
  /\ ShutInit /\ [][ShutNext]_svars
  /\ WF_svars(MasterKills \/ MasterRemovesTable \/ MasterExits)
  /\ \A p \in Proc : WF_svars(IntRemoves(p) \/ IntExits(p))
-----------------------------------------------------------------------------
\* At most one frame of one process is between Semaphore_P and Semaphore_V, also when
\* the semaphore is removed under it and those who waited for it wake up.
RemovalExcludes ==
  \A p, q \in Proc, f, g \in Frames :
    Holds(p, f) /\ Holds(q, g) => p = q /\ f = g

\* Once the master handles its signal it exits and the semaphore is gone; and the
\* sessions that have their slot when it starts to look at the table are ended,
\* whatever they are doing (waiting, inside a section, wedged by a handler), or
\* have left the table by themselves.
ShutdownCompletes ==
  /\ master = "kills" ~> master = "exited" /\ ~sem
  /\ \A p \in Proc :
       master = "kills" /\ slot = 1 /\ Registered(p) /\ p \notin stray
         ~> ~Registered(p)
=============================================================================
