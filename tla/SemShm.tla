------------------------------- MODULE SemShm -------------------------------
(***************************************************************************)
(* The System V shared-memory exchange of test_sem_shm: server.c receives  *)
(* NumMsg messages that client.c processes leave in a shared segment.      *)
(*                                                                         *)
(* One key names the semaphore set, another the segment, and both live in  *)
(* the kernel: they outlive the processes.  A set or segment is identified *)
(* by the server that created it (a server creates at most one of each),   *)
(* so semKey and shmKey say which object, if any, the key names now.       *)
(* Each semop() is one atomic step, as the kernel makes it.                *)
(***************************************************************************)
EXTENDS Naturals, FiniteSets

CONSTANTS
  Servers,   \* processes running server.c, concurrently or one after another
  Clients,   \* processes running client.c
  None,      \* "no object under this key"
  NumMsg,    \* NUMMSG: receives a server makes before it cleans up
  Overlap    \* servers may be started while another one runs

ASSUME ServersAssumption == None \notin Servers
ASSUME ProcsAssumption == IsFiniteSet(Servers \cup Clients) /\ Servers \cap Clients = {}
ASSUME NumMsgAssumption == NumMsg \in Nat \ {0}
ASSUME OverlapAssumption == Overlap \in BOOLEAN

Procs == Servers \cup Clients

VARIABLES
  pc,        \* the call each process makes next
  semKey,    \* the semaphore set the key names
  shmKey,    \* the segment the key names
  inUse,     \* inUse[s]: first semaphore of the set created by s
  changed,   \* changed[s]: second semaphore of that set
  semid,     \* the set each process found or created
  shmid,     \* the segment each process found or created, None if not attached
  received   \* received[s]: i, the receives server s has completed

vars == <<pc, semKey, shmKey, inUse, changed, semid, shmid, received>>

ServerPC == {"semget", "setall", "shmget", "shmat", "receive", "print",
             "free", "rmsem", "shmdt", "rmshm", "done", "failed"}
ClientPC == {"semget", "shmget", "shmat", "acquire", "strcpy", "release",
             "shmdt", "done", "failed"}

\* Mutant: a failed client goes through the clean-up of the server.
ClientSemgetOn(c) ==
  /\ pc[c] = "semget"
  /\ semid' = [semid EXCEPT ![c] = semKey]
  /\ pc' = [pc EXCEPT ![c] = IF semKey = None THEN "rmsem" ELSE "shmget"]
  /\ UNCHANGED <<semKey, shmKey, inUse, changed, shmid, received>>

Goto(p, l) == pc' = [pc EXCEPT ![p] = l]

Init ==
  /\ pc = [p \in Procs |-> "semget"]
  /\ semKey = None
  /\ shmKey = None
  /\ inUse = [s \in Servers |-> 0]
  /\ changed = [s \in Servers |-> 0]
  /\ semid = [p \in Procs |-> None]
  /\ shmid = [p \in Procs |-> None]
  /\ received = [s \in Servers |-> 0]
-----------------------------------------------------------------------------
(* server.c *)

\* semget(IPC_CREAT | IPC_EXCL): fails when the key already names a set.
ServerSemget(s) ==
  /\ pc[s] = "semget"
  /\ Overlap \/ \A t \in Servers : pc[t] \in {"semget", "done", "failed"}
  /\ IF semKey = None
     THEN /\ semKey' = s
          /\ semid' = [semid EXCEPT ![s] = s]
          /\ Goto(s, "setall")
     ELSE /\ Goto(s, "failed")
          /\ UNCHANGED <<semKey, semid>>
  /\ UNCHANGED <<shmKey, inUse, changed, shmid, received>>

ServerSetall(s) ==
  /\ pc[s] = "setall"
  /\ inUse' = [inUse EXCEPT ![s] = 0]
  /\ changed' = [changed EXCEPT ![s] = 0]
  /\ Goto(s, "shmget")
  /\ UNCHANGED <<semKey, shmKey, semid, shmid, received>>

\* shmget(IPC_CREAT | IPC_EXCL): on failure the set just created is left behind.
ServerShmget(s) ==
  /\ pc[s] = "shmget"
  /\ IF shmKey = None
     THEN /\ shmKey' = s
          /\ shmid' = [shmid EXCEPT ![s] = s]
          /\ Goto(s, "shmat")
     ELSE /\ Goto(s, "failed")
          /\ UNCHANGED <<shmKey, shmid>>
  /\ UNCHANGED <<semKey, inUse, changed, semid, received>>

ServerShmat(s) ==
  /\ pc[s] = "shmat"
  /\ Goto(s, "receive")
  /\ UNCHANGED <<semKey, shmKey, inUse, changed, semid, shmid, received>>

\* Mutant: receiving does not mark the segment as used.
ServerReceiveUnmarked(s) ==
  /\ pc[s] = "receive"
  /\ IF semKey # s
     THEN /\ Goto(s, "failed")
          /\ UNCHANGED changed
     ELSE /\ changed[s] > 0
          /\ changed' = [changed EXCEPT ![s] = @ - 1]
          /\ Goto(s, "print")
  /\ UNCHANGED <<semKey, shmKey, inUse, semid, shmid, received>>

\* semop({sem 1: -1 wait, sem 0: +1 IPC_NOWAIT}): an increment never waits, so
\* the server does not look at whether a client is using the segment.
ServerReceive(s) ==
  /\ pc[s] = "receive"
  /\ IF semKey # s
     THEN /\ Goto(s, "failed")
          /\ UNCHANGED <<inUse, changed>>
     ELSE /\ changed[s] > 0
          /\ changed' = [changed EXCEPT ![s] = @ - 1]
          /\ inUse' = [inUse EXCEPT ![s] = @ + 1]
          /\ Goto(s, "print")
  /\ UNCHANGED <<semKey, shmKey, semid, shmid, received>>

ServerPrint(s) ==
  /\ pc[s] = "print"
  /\ Goto(s, "free")
  /\ UNCHANGED <<semKey, shmKey, inUse, changed, semid, shmid, received>>

\* Mutant: the last message received is not freed.
ServerFreeNotLast(s) ==
  /\ pc[s] = "free"
  /\ received' = [received EXCEPT ![s] = @ + 1]
  /\ IF received[s] + 1 < NumMsg
     THEN inUse' = [inUse EXCEPT ![s] = @ - 1] /\ Goto(s, "receive")
     ELSE UNCHANGED inUse /\ Goto(s, "done")
  /\ UNCHANGED <<semKey, shmKey, changed, semid, shmid>>

\* semop({sem 0: -1 IPC_NOWAIT}): EAGAIN when the semaphore is already 0.
ServerFree(s) ==
  /\ pc[s] = "free"
  /\ IF semKey # s \/ inUse[s] = 0
     THEN /\ Goto(s, "failed")
          /\ UNCHANGED <<inUse, received>>
     ELSE /\ inUse' = [inUse EXCEPT ![s] = @ - 1]
          /\ received' = [received EXCEPT ![s] = @ + 1]
          /\ Goto(s, IF received[s] + 1 < NumMsg THEN "receive" ELSE "rmsem")
  /\ UNCHANGED <<semKey, shmKey, changed, semid, shmid>>

\* semctl(IPC_RMID): waiters wake with EIDRM, later callers get EINVAL.
ServerRmSem(s) ==
  /\ pc[s] = "rmsem"
  /\ IF semKey # s
     THEN /\ Goto(s, "failed")
          /\ UNCHANGED semKey
     ELSE /\ semKey' = None
          /\ Goto(s, "shmdt")
  /\ UNCHANGED <<shmKey, inUse, changed, semid, shmid, received>>

ServerShmdt(s) ==
  /\ pc[s] = "shmdt"
  /\ Goto(s, "rmshm")
  /\ UNCHANGED <<semKey, shmKey, inUse, changed, semid, shmid, received>>

ServerRmShm(s) ==
  /\ pc[s] = "rmshm"
  /\ IF shmKey # s
     THEN /\ Goto(s, "failed")
          /\ UNCHANGED shmKey
     ELSE /\ shmKey' = None
          /\ Goto(s, "done")
  /\ UNCHANGED <<semKey, inUse, changed, semid, shmid, received>>

Server(s) ==
  \/ ServerSemget(s) \/ ServerSetall(s) \/ ServerShmget(s) \/ ServerShmat(s)
  \/ ServerReceive(s) \/ ServerPrint(s) \/ ServerFree(s)
  \/ ServerRmSem(s) \/ ServerShmdt(s) \/ ServerRmShm(s)
-----------------------------------------------------------------------------
(* client.c *)

\* semget() without IPC_CREAT: fails unless a server made the set.
ClientSemget(c) ==
  /\ pc[c] = "semget"
  /\ semid' = [semid EXCEPT ![c] = semKey]
  /\ Goto(c, IF semKey = None THEN "failed" ELSE "shmget")
  /\ UNCHANGED <<semKey, shmKey, inUse, changed, shmid, received>>

ClientShmget(c) ==
  /\ pc[c] = "shmget"
  /\ shmid' = [shmid EXCEPT ![c] = shmKey]
  /\ Goto(c, IF shmKey = None THEN "failed" ELSE "shmat")
  /\ UNCHANGED <<semKey, shmKey, inUse, changed, semid, received>>

\* shmat() fails when the segment was removed.  The failure value is not the NULL
\* that client.c tests for: the client goes on with a bad address.
ClientShmat(c) ==
  /\ pc[c] = "shmat"
  /\ shmid' = [shmid EXCEPT ![c] = IF shmKey = @ THEN @ ELSE None]
  /\ Goto(c, "acquire")
  /\ UNCHANGED <<semKey, shmKey, inUse, changed, semid, received>>

\* Mutant: the wait for zero is left out.
ClientAcquireAtOnce(c) ==
  /\ pc[c] = "acquire"
  /\ IF semKey # semid[c]
     THEN /\ Goto(c, "failed")
          /\ UNCHANGED inUse
     ELSE /\ inUse' = [inUse EXCEPT ![semid[c]] = @ + 1]
          /\ Goto(c, "strcpy")
  /\ UNCHANGED <<semKey, shmKey, changed, semid, shmid, received>>

\* semop({sem 0: wait for 0, sem 0: +1})
ClientAcquire(c) ==
  /\ pc[c] = "acquire"
  /\ IF semKey # semid[c]
     THEN /\ Goto(c, "failed")
          /\ UNCHANGED inUse
     ELSE /\ inUse[semid[c]] = 0
          /\ inUse' = [inUse EXCEPT ![semid[c]] = @ + 1]
          /\ Goto(c, "strcpy")
  /\ UNCHANGED <<semKey, shmKey, changed, semid, shmid, received>>

\* Writing to a bad address kills the client, which keeps what it took.
ClientStrcpy(c) ==
  /\ pc[c] = "strcpy"
  /\ Goto(c, IF shmid[c] = None THEN "failed" ELSE "release")
  /\ UNCHANGED <<semKey, shmKey, inUse, changed, semid, shmid, received>>

\* semop({sem 0: -1, sem 1: +1}), both waiting.
ClientRelease(c) ==
  /\ pc[c] = "release"
  /\ IF semKey # semid[c]
     THEN /\ Goto(c, "failed")
          /\ UNCHANGED <<inUse, changed>>
     ELSE /\ inUse[semid[c]] > 0
          /\ inUse' = [inUse EXCEPT ![semid[c]] = @ - 1]
          /\ changed' = [changed EXCEPT ![semid[c]] = @ + 1]
          /\ Goto(c, "shmdt")
  /\ UNCHANGED <<semKey, shmKey, semid, shmid, received>>

ClientShmdt(c) ==
  /\ pc[c] = "shmdt"
  /\ Goto(c, "done")
  /\ UNCHANGED <<semKey, shmKey, inUse, changed, semid, shmid, received>>

Client(c) ==
  \/ ClientSemget(c) \/ ClientShmget(c) \/ ClientShmat(c)
  \/ ClientAcquire(c) \/ ClientStrcpy(c) \/ ClientRelease(c) \/ ClientShmdt(c)
-----------------------------------------------------------------------------
Next == (\E s \in Servers : Server(s)) \/ (\E c \in Clients : Client(c))

Spec == Init /\ [][Next]_vars

\* Every process, once started, is scheduled again whenever its call can return.
FairSpec ==
  /\ Spec
  /\ \A s \in Servers : WF_vars(Server(s))
  /\ \A c \in Clients : WF_vars(Client(c))
-----------------------------------------------------------------------------
TypeOK ==
  /\ pc \in [Procs -> ServerPC \cup ClientPC]
  /\ \A s \in Servers : pc[s] \in ServerPC
  /\ \A c \in Clients : pc[c] \in ClientPC
  /\ semKey \in Servers \cup {None}
  /\ shmKey \in Servers \cup {None}
  /\ inUse \in [Servers -> Nat]
  /\ changed \in [Servers -> Nat]
  /\ semid \in [Procs -> Servers \cup {None}]
  /\ shmid \in [Procs -> Servers \cup {None}]
  /\ received \in [Servers -> Nat]

\* The processes between the two semop() calls that raise and lower the first
\* semaphore of the set k.
Holders(k) ==
  {p \in Procs : semid[p] = k /\ pc[p] \in {"strcpy", "release", "print", "free"}}

\* While servers run one at a time, the first semaphore counts exactly the processes
\* that raised it and have yet to lower it: a client that kept the ids of an earlier
\* server neither disturbs the next one nor leaves a unit behind (the semop() calls).
\* The count may be 2: a server raises it without waiting for zero.
InUseCountsHolders ==
  semKey # None => inUse[semKey] = Cardinality(Holders(semKey))

\* What server.c says of the first semaphore: '1' while the segment is being used
\* and '0' when it is freed.  The server raises it over the 1 of a client that is
\* writing, and prints the segment meanwhile (the semop() before it prints).
InUseIsFlag == semKey # None => inUse[semKey] \in {0, 1}

\* Of the clients of one set, one at a time is between taking and releasing the
\* segment (the wait for zero in client.c).
ClientExclusion ==
  \A c, d \in Clients :
    /\ semid[c] = semid[d] /\ semid[c] = semKey
    /\ pc[c] \in {"strcpy", "release"} /\ pc[d] \in {"strcpy", "release"}
    => c = d

\* A client that came as far as asking for the segment gets it or is turned away:
\* neither the other clients nor the end of the server leave it waiting.
ClientsStop ==
  \A c \in Clients : pc[c] = "acquire" ~> pc[c] \in {"done", "failed"}
=============================================================================
