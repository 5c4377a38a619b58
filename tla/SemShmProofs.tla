---------------------------- MODULE SemShmProofs ----------------------------
(***************************************************************************)
(* What holds of the shared-memory exchange for any number of servers and  *)
(* clients: the types, and, when no server is started over a running one,  *)
(* that the first semaphore counts the processes that hold it and that     *)
(* clients exclude each other.                                             *)
(***************************************************************************)
EXTENDS SemShm, FiniteSetTheorems, TLAPS

LEMMA ServerTypes ==
  ASSUME TypeOK, NEW s \in Servers, Server(s)
  PROVE  TypeOK'
<1> USE ServersAssumption, ProcsAssumption DEF TypeOK, Procs, ServerPC, ClientPC, Goto
<1>1. CASE ServerSemget(s) BY <1>1 DEF ServerSemget
<1>2. CASE ServerSetall(s) BY <1>2 DEF ServerSetall
<1>3. CASE ServerShmget(s) BY <1>3 DEF ServerShmget
<1>4. CASE ServerShmat(s) BY <1>4 DEF ServerShmat
<1>5. CASE ServerReceive(s) BY <1>5 DEF ServerReceive
<1>6. CASE ServerPrint(s) BY <1>6 DEF ServerPrint
<1>7. CASE ServerFree(s) BY <1>7 DEF ServerFree
<1>8. CASE ServerRmSem(s) BY <1>8 DEF ServerRmSem
<1>9. CASE ServerShmdt(s) BY <1>9 DEF ServerShmdt
<1>10. CASE ServerRmShm(s) BY <1>10 DEF ServerRmShm
<1> QED
  BY <1>1, <1>2, <1>3, <1>4, <1>5, <1>6, <1>7, <1>8, <1>9, <1>10 DEF Server

LEMMA ClientTypes ==
  ASSUME TypeOK, NEW c \in Clients, Client(c)
  PROVE  TypeOK'
<1> USE ServersAssumption, ProcsAssumption DEF TypeOK, Procs, ServerPC, ClientPC, Goto
<1>1. CASE ClientSemget(c) BY <1>1 DEF ClientSemget
<1>2. CASE ClientShmget(c) BY <1>2 DEF ClientShmget
<1>3. CASE ClientShmat(c) BY <1>3 DEF ClientShmat
<1>4. CASE ClientAcquire(c) BY <1>4 DEF ClientAcquire
<1>5. CASE ClientStrcpy(c) BY <1>5 DEF ClientStrcpy
<1>6. CASE ClientRelease(c) BY <1>6 DEF ClientRelease
<1>7. CASE ClientShmdt(c) BY <1>7 DEF ClientShmdt
<1> QED BY <1>1, <1>2, <1>3, <1>4, <1>5, <1>6, <1>7 DEF Client

\* Every variable keeps its type, whenever servers are started.
THEOREM ShmTypeCorrect == Spec => []TypeOK
<1>1. Init => TypeOK
  BY DEF Init, TypeOK, Procs, ServerPC, ClientPC
<1>2. TypeOK /\ [Next]_vars => TypeOK'
  <2> SUFFICES ASSUME TypeOK, [Next]_vars PROVE TypeOK'
    OBVIOUS
  <2>1. CASE \E s \in Servers : Server(s) BY <2>1, ServerTypes
  <2>2. CASE \E c \in Clients : Client(c) BY <2>2, ClientTypes
  <2>3. CASE UNCHANGED vars BY <2>3 DEF vars, TypeOK
  <2> QED BY <2>1, <2>2, <2>3 DEF Next
<1> QED BY <1>1, <1>2, PTL DEF Spec
-----------------------------------------------------------------------------
(* The inductive invariant *)

\* The calls between making the set and removing it, and the same for the segment.
HasSem == {"setall", "shmget", "shmat", "receive", "print", "free", "rmsem"}
HasShm == {"shmat", "receive", "print", "free", "rmsem", "shmdt", "rmshm"}

\* A set or segment has its key exactly while its server works, one server works
\* at a time, and none fails.
Keys ==
  /\ \A s, t \in Servers : pc[s] \in HasSem \cup HasShm /\ pc[t] \in HasSem \cup HasShm => s = t
  /\ \A s \in Servers : pc[s] # "failed"
  /\ \A s \in Servers : semKey = s <=> pc[s] \in HasSem
  /\ \A s \in Servers : shmKey = s <=> pc[s] \in HasShm
  /\ \A s \in Servers : pc[s] \in HasSem => semid[s] = s

\* Before a server starts nobody knows of its set.
Fresh ==
  \A s \in Servers : pc[s] = "semget" =>
    inUse[s] = 0 /\ \A p \in Procs : semid[p] # s

\* A client has found a set before it asks for anything else, and if the key still
\* names that set the client is attached to the segment of the set's server.
Attached ==
  \A c \in Clients :
    /\ pc[c] \in {"shmget", "shmat", "acquire", "strcpy", "release"} => semid[c] # None
    /\ /\ pc[c] \in {"shmat", "acquire", "strcpy", "release"}
       /\ semid[c] = semKey /\ semKey # None
       => shmKey = semKey /\ shmid[c] = semKey

ShmInv ==
  TypeOK /\ Keys /\ Fresh /\ Attached /\ InUseCountsHolders /\ ClientExclusion
-----------------------------------------------------------------------------
LEMMA HoldersFinite ==
  ASSUME NEW k
  PROVE  /\ IsFiniteSet(Holders(k))
         /\ Cardinality(Holders(k)) \in Nat
         /\ Cardinality(Holders(k)) = 0 <=> Holders(k) = {}
<1>1. IsFiniteSet(Holders(k))
  BY ProcsAssumption, FS_Subset DEF Holders, Procs
<1> QED BY <1>1, FS_CardinalityType, FS_EmptySet

\* A server that frees the segment finds the semaphore raised: it is one of those
\* who raised it.
LEMMA FreeIsRaised ==
  ASSUME ShmInv, NEW s \in Servers, pc[s] = "free"
  PROVE  semKey = s /\ inUse[s] # 0
<1>1. semKey = s /\ semid[s] = s
  BY DEF ShmInv, Keys, HasSem
<1>2. s \in Holders(s)
  BY <1>1 DEF Holders, Procs
<1>3. inUse[s] = Cardinality(Holders(s))
  BY <1>1, ServersAssumption DEF ShmInv, InUseCountsHolders
<1> QED BY <1>1, <1>2, <1>3, HoldersFinite

LEMMA ServerKeepsKeys ==
  ASSUME ~Overlap, ShmInv, NEW s \in Servers, Server(s)
  PROVE  Keys' /\ Fresh' /\ Attached'
<1> USE ServersAssumption, ProcsAssumption
    DEF ShmInv, TypeOK, Keys, Fresh, Attached, Procs, ServerPC, ClientPC, HasSem, HasShm, Goto
<1>1. CASE ServerSemget(s) BY <1>1 DEF ServerSemget
<1>2. CASE ServerSetall(s) BY <1>2 DEF ServerSetall
<1>3. CASE ServerShmget(s) BY <1>3 DEF ServerShmget
<1>4. CASE ServerShmat(s) BY <1>4 DEF ServerShmat
<1>5. CASE ServerReceive(s) BY <1>5 DEF ServerReceive
<1>6. CASE ServerPrint(s) BY <1>6 DEF ServerPrint
<1>7. CASE ServerFree(s) BY <1>7, FreeIsRaised DEF ServerFree
<1>8. CASE ServerRmSem(s) BY <1>8 DEF ServerRmSem
<1>9. CASE ServerShmdt(s) BY <1>9 DEF ServerShmdt
<1>10. CASE ServerRmShm(s) BY <1>10 DEF ServerRmShm
<1> QED
  BY <1>1, <1>2, <1>3, <1>4, <1>5, <1>6, <1>7, <1>8, <1>9, <1>10 DEF Server

LEMMA ClientKeepsKeys ==
  ASSUME ~Overlap, ShmInv, NEW c \in Clients, Client(c)
  PROVE  Keys' /\ Fresh' /\ Attached'
<1> USE ServersAssumption, ProcsAssumption
    DEF ShmInv, TypeOK, Keys, Fresh, Attached, Procs, ServerPC, ClientPC, HasSem, HasShm, Goto
<1>1. CASE ClientSemget(c) BY <1>1 DEF ClientSemget
<1>2. CASE ClientShmget(c) BY <1>2 DEF ClientShmget
<1>3. CASE ClientShmat(c) BY <1>3 DEF ClientShmat
<1>4. CASE ClientAcquire(c) BY <1>4 DEF ClientAcquire
<1>5. CASE ClientStrcpy(c) BY <1>5 DEF ClientStrcpy
<1>6. CASE ClientRelease(c) BY <1>6 DEF ClientRelease
<1>7. CASE ClientShmdt(c) BY <1>7 DEF ClientShmdt
<1> QED BY <1>1, <1>2, <1>3, <1>4, <1>5, <1>6, <1>7 DEF Client
-----------------------------------------------------------------------------
(* The count and the exclusion *)

\* A step that changes neither the first semaphore of the set in use nor who holds
\* it keeps the count.
LEMMA SameHolders ==
  ASSUME InUseCountsHolders,
         semKey' # None => /\ semKey' = semKey
                           /\ inUse'[semKey] = inUse[semKey]
                           /\ Holders(semKey)' = Holders(semKey)
  PROVE  InUseCountsHolders'
BY DEF InUseCountsHolders

\* A process that raises the semaphore joins its holders.
LEMMA OneMoreHolder ==
  ASSUME TypeOK, InUseCountsHolders, NEW p, NEW k \in Servers,
         semKey = k, semKey' = k, p \notin Holders(k),
         inUse' = [inUse EXCEPT ![k] = @ + 1],
         Holders(semKey)' = Holders(k) \cup {p}
  PROVE  InUseCountsHolders'
<1>1. Cardinality(Holders(k) \cup {p}) = Cardinality(Holders(k)) + 1
  BY HoldersFinite, FS_AddElement
<1>2. inUse[k] = Cardinality(Holders(k))
  BY ServersAssumption DEF InUseCountsHolders
<1>3. inUse'[k] = inUse[k] + 1
  BY DEF TypeOK
<1> QED BY <1>1, <1>2, <1>3 DEF InUseCountsHolders

\* A process that lowers it leaves them.
LEMMA OneLessHolder ==
  ASSUME TypeOK, InUseCountsHolders, NEW k \in Servers, NEW p \in Holders(k),
         semKey = k, semKey' = k,
         inUse' = [inUse EXCEPT ![k] = @ - 1],
         Holders(semKey)' = Holders(k) \ {p}
  PROVE  InUseCountsHolders'
<1>1. Cardinality(Holders(k) \ {p}) = Cardinality(Holders(k)) - 1
  BY HoldersFinite, FS_RemoveElement
<1>2. inUse[k] = Cardinality(Holders(k))
  BY ServersAssumption DEF InUseCountsHolders
<1>3. inUse'[k] = inUse[k] - 1
  BY DEF TypeOK
<1> QED BY <1>1, <1>2, <1>3 DEF InUseCountsHolders

\* A server takes part in the count when it receives and when it frees; a new set
\* has no holders, as no client gets further than its segment allows.
LEMMA ServerKeepsCount ==
  ASSUME ~Overlap, ShmInv, NEW s \in Servers, Server(s)
  PROVE  InUseCountsHolders'
<1> USE ServersAssumption, ProcsAssumption DEF Procs, Goto
<1>0. TypeOK /\ Keys /\ InUseCountsHolders
  BY DEF ShmInv
<1>1. CASE ServerSemget(s)
  <2>1. Holders(s)' = {} /\ inUse'[s] = 0
    BY <1>1 DEF ServerSemget, ShmInv, TypeOK, Fresh, Holders
  <2>2. semKey' # None => semKey' = s
    BY <1>1 DEF ServerSemget, ShmInv, TypeOK, Keys, HasSem
  <2> QED BY <2>1, <2>2, FS_EmptySet DEF InUseCountsHolders
<1>2. CASE ServerSetall(s)
  <2>1. semKey = s /\ shmKey # s
    BY <1>2 DEF ServerSetall, ShmInv, Keys, HasSem, HasShm
  <2>2. \A c \in Clients : c \notin Holders(s)
    BY <1>2, <2>1 DEF ServerSetall, ShmInv, TypeOK, ClientPC, Attached, Holders
  <2>3. \A t \in Servers : t \notin Holders(s)
    BY <1>2 DEF ServerSetall, ShmInv, TypeOK, ServerPC, Keys, HasSem, Holders
  <2>4. Holders(s) = {} /\ Holders(s)' = Holders(s)
    BY <1>2, <2>2, <2>3 DEF ServerSetall, ShmInv, TypeOK, Holders
  <2>5. inUse'[s] = 0 /\ semKey' = s
    BY <1>2, <2>1 DEF ServerSetall, ShmInv, TypeOK
  <2> QED BY <2>4, <2>5, FS_EmptySet DEF InUseCountsHolders
<1>3. CASE ServerReceive(s)
  <2>1. semKey = s /\ semid[s] = s
    BY <1>3 DEF ServerReceive, ShmInv, Keys, HasSem
  <2>2. s \notin Holders(s) /\ Holders(semKey)' = Holders(s) \cup {s}
    BY <1>3, <2>1 DEF ServerReceive, ShmInv, TypeOK, Holders
  <2>3. inUse' = [inUse EXCEPT ![s] = @ + 1] /\ semKey' = s
    BY <1>3, <2>1 DEF ServerReceive
  <2> QED BY <1>0, <2>1, <2>2, <2>3, OneMoreHolder
<1>4. CASE ServerFree(s)
  <2>1. semKey = s /\ inUse[s] # 0 /\ semid[s] = s
    BY <1>4, FreeIsRaised DEF ServerFree, ShmInv, Keys, HasSem
  <2>2. s \in Holders(s) /\ Holders(semKey)' = Holders(s) \ {s}
    BY <1>4, <2>1 DEF ServerFree, ShmInv, TypeOK, Holders
  <2>3. inUse' = [inUse EXCEPT ![s] = @ - 1] /\ semKey' = s
    BY <1>4, <2>1 DEF ServerFree
  <2> QED BY <1>0, <2>1, <2>2, <2>3, OneLessHolder
<1>5. CASE ServerRmSem(s)
  <2>1. semKey' = None
    BY <1>5 DEF ServerRmSem, ShmInv, Keys, HasSem
  <2> QED BY <2>1 DEF InUseCountsHolders
<1>6. CASE \/ ServerShmget(s) \/ ServerShmat(s) \/ ServerPrint(s)
           \/ ServerShmdt(s) \/ ServerRmShm(s)
  <2>1. semKey' = semKey /\ inUse' = inUse
    BY <1>6 DEF ServerShmget, ServerShmat, ServerPrint, ServerShmdt, ServerRmShm
  <2>2. Holders(semKey)' = Holders(semKey)
    BY <1>0, <1>6
       DEF ServerShmget, ServerShmat, ServerPrint, ServerShmdt, ServerRmShm, TypeOK, Holders
  <2> QED BY <1>0, <2>1, <2>2, SameHolders
<1> QED BY <1>1, <1>2, <1>3, <1>4, <1>5, <1>6 DEF Server

\* A client takes part in the count when it acquires and when it releases; it does
\* not die in between while the set exists, as it is attached to a segment.
LEMMA ClientKeepsCount ==
  ASSUME ~Overlap, ShmInv, NEW c \in Clients, Client(c)
  PROVE  InUseCountsHolders'
<1> USE ServersAssumption, ProcsAssumption DEF Procs, Goto
<1>0. TypeOK /\ InUseCountsHolders
  BY DEF ShmInv
<1>1. CASE ClientAcquire(c) /\ semKey = semid[c] /\ semKey # None
  <2>1. semKey \in Servers /\ semKey' = semKey
    BY <1>0, <1>1 DEF ClientAcquire, TypeOK
  <2>2. c \notin Holders(semKey) /\ Holders(semKey)' = Holders(semKey) \cup {c}
    BY <1>0, <1>1 DEF ClientAcquire, TypeOK, Holders
  <2>3. inUse' = [inUse EXCEPT ![semKey] = @ + 1]
    BY <1>1 DEF ClientAcquire
  <2> QED BY <1>0, <2>1, <2>2, <2>3, OneMoreHolder
<1>2. CASE ClientRelease(c) /\ semKey = semid[c] /\ semKey # None
  <2>1. semKey \in Servers /\ semKey' = semKey
    BY <1>0, <1>2 DEF ClientRelease, TypeOK
  <2>2. c \in Holders(semKey) /\ Holders(semKey)' = Holders(semKey) \ {c}
    BY <1>0, <1>2 DEF ClientRelease, TypeOK, Holders
  <2>3. inUse' = [inUse EXCEPT ![semKey] = @ - 1]
    BY <1>2 DEF ClientRelease
  <2> QED BY <1>0, <2>1, <2>2, <2>3, OneLessHolder
<1>3. CASE (ClientAcquire(c) \/ ClientRelease(c)) /\ semKey # semid[c]
  <2>1. semKey' = semKey /\ inUse' = inUse
    BY <1>3 DEF ClientAcquire, ClientRelease
  <2>2. Holders(semKey)' = Holders(semKey)
    BY <1>0, <1>3 DEF ClientAcquire, ClientRelease, TypeOK, Holders
  <2> QED BY <1>0, <2>1, <2>2, SameHolders
<1>4. CASE ClientStrcpy(c)
  <2>1. semKey' = semKey /\ inUse' = inUse
    BY <1>4 DEF ClientStrcpy
  <2>2. semid[c] = semKey /\ semKey # None => shmid[c] # None
    BY <1>4 DEF ClientStrcpy, ShmInv, Attached
  <2>3. semKey # None => Holders(semKey)' = Holders(semKey)
    BY <1>0, <1>4, <2>2 DEF ClientStrcpy, TypeOK, Holders
  <2> QED BY <1>0, <2>1, <2>3, SameHolders
<1>5. CASE ClientSemget(c) \/ ClientShmget(c) \/ ClientShmat(c) \/ ClientShmdt(c)
  <2>1. semKey' = semKey /\ inUse' = inUse
    BY <1>5 DEF ClientSemget, ClientShmget, ClientShmat, ClientShmdt
  <2>2. Holders(semKey)' = Holders(semKey)
    BY <1>0, <1>5 DEF ClientSemget, ClientShmget, ClientShmat, ClientShmdt, TypeOK, Holders
  <2> QED BY <1>0, <2>1, <2>2, SameHolders
<1>6. (ClientAcquire(c) \/ ClientRelease(c)) /\ semKey = semid[c] => semKey # None
  BY DEF ShmInv, Attached, ClientAcquire, ClientRelease
<1> QED BY <1>1, <1>2, <1>3, <1>4, <1>5, <1>6 DEF Client

\* Exclusion can only be lost by a client that acquires, and it acquires when the
\* count, and so the set of holders, is empty.
LEMMA KeepsExclusion ==
  ASSUME ~Overlap, ShmInv, Next
  PROVE  ClientExclusion'
<1> USE ServersAssumption, ProcsAssumption DEF Procs, Goto
<1>0. TypeOK /\ Keys /\ Attached /\ InUseCountsHolders /\ ClientExclusion
  BY DEF ShmInv
<1> USE DEF ClientExclusion
<1>1. CASE \E s \in Servers : Server(s)
  <2>1. PICK s \in Servers : Server(s)
    BY <1>1
  <2>2. \A c \in Clients : pc'[c] = pc[c] /\ semid'[c] = semid[c]
    BY <1>0, <2>1 DEF Server, TypeOK, ServerSemget, ServerSetall, ServerShmget, ServerShmat,
       ServerReceive, ServerPrint, ServerFree, ServerRmSem, ServerShmdt, ServerRmShm
  <2>3. CASE semKey' = semKey
    BY <1>0, <2>2, <2>3
  <2>4. CASE semKey' # semKey
    <3>1. semKey' = None \/ (ServerSemget(s) /\ semKey' = s)
      BY <2>1, <2>4 DEF Server, ServerSemget, ServerSetall, ServerShmget, ServerShmat,
         ServerReceive, ServerPrint, ServerFree, ServerRmSem, ServerShmdt, ServerRmShm
    <3>2. CASE semKey' = None
      BY <1>0, <2>2, <3>2 DEF Attached
    <3>3. CASE ServerSemget(s) /\ semKey' = s
      BY <2>2, <3>3 DEF ServerSemget, ShmInv, Fresh
    <3> QED BY <3>1, <3>2, <3>3
  <2> QED BY <2>3, <2>4
<1>2. CASE \E c \in Clients : Client(c)
  <2>1. PICK c \in Clients : Client(c)
    BY <1>2
  <2>2. CASE ClientAcquire(c) /\ semKey = semid[c]
    <3>1. semKey \in Servers /\ semKey # None /\ inUse[semKey] = 0 /\ semKey' = semKey
      BY <1>0, <2>2 DEF ClientAcquire, Attached, TypeOK
    <3>2. Holders(semKey) = {}
      BY <1>0, <3>1, HoldersFinite DEF InUseCountsHolders
    <3>3. \A d \in Clients \ {c} : ~(semid[d] = semKey /\ pc[d] \in {"strcpy", "release"})
      BY <3>2 DEF Holders
    <3>4. \A d \in Clients \ {c} : pc'[d] = pc[d] /\ semid'[d] = semid[d]
      BY <1>0, <2>2 DEF ClientAcquire, TypeOK
    <3>5. \A d \in Clients \ {c} :
            ~(semid'[d] = semKey' /\ pc'[d] \in {"strcpy", "release"})
      BY <3>1, <3>3, <3>4
    <3> QED BY <3>5
  <2>3. CASE ~(ClientAcquire(c) /\ semKey = semid[c])
    <3>1. /\ semKey' = semKey
          /\ \A d \in Clients \ {c} : pc'[d] = pc[d] /\ semid'[d] = semid[d]
      BY <1>0, <2>1 DEF Client, TypeOK, ClientSemget, ClientShmget, ClientShmat,
         ClientAcquire, ClientStrcpy, ClientRelease, ClientShmdt
    <3>2. pc'[c] \in {"strcpy", "release"}
            => pc[c] \in {"strcpy", "release"} /\ semid'[c] = semid[c]
      BY <1>0, <2>1, <2>3 DEF Client, TypeOK, ClientSemget, ClientShmget, ClientShmat,
         ClientAcquire, ClientStrcpy, ClientRelease, ClientShmdt
    <3> QED BY <1>0, <3>1, <3>2
  <2> QED BY <2>2, <2>3
<1> QED BY <1>1, <1>2 DEF Next
-----------------------------------------------------------------------------
LEMMA ShmInvHolds ==
  ASSUME ~Overlap
  PROVE  Spec => []ShmInv
<1>1. Init => ShmInv
  <2> SUFFICES ASSUME Init PROVE ShmInv
    OBVIOUS
  <2>1. TypeOK
    BY DEF Init, TypeOK, Procs, ServerPC, ClientPC
  <2>2. Keys /\ Fresh /\ Attached
    BY ServersAssumption, ProcsAssumption
       DEF Init, Keys, Fresh, Attached, Procs, HasSem, HasShm
  <2>3. InUseCountsHolders /\ ClientExclusion
    BY DEF Init, InUseCountsHolders, ClientExclusion, Procs
  <2> QED BY <2>1, <2>2, <2>3 DEF ShmInv
<1>2. ShmInv /\ [Next]_vars => ShmInv'
  <2> SUFFICES ASSUME ShmInv, [Next]_vars PROVE ShmInv'
    OBVIOUS
  <2>1. CASE \E s \in Servers : Server(s)
    BY <2>1, ServerTypes, ServerKeepsKeys, ServerKeepsCount, KeepsExclusion DEF ShmInv, Next
  <2>2. CASE \E c \in Clients : Client(c)
    BY <2>2, ClientTypes, ClientKeepsKeys, ClientKeepsCount, KeepsExclusion DEF ShmInv, Next
  <2>3. CASE UNCHANGED vars
    BY <2>3 DEF vars, ShmInv, TypeOK, Keys, Fresh, Attached, InUseCountsHolders, Holders,
       ClientExclusion
  <2> QED BY <2>1, <2>2, <2>3 DEF Next
<1> QED BY <1>1, <1>2, PTL DEF Spec

\* While the set exists the first semaphore is the number of processes between
\* raising and lowering it, however many clients there are and however many servers
\* come one after the other: no process that ends in between leaves it raised.
THEOREM InUseCount ==
  ASSUME ~Overlap
  PROVE  Spec => []InUseCountsHolders
<1>1. ShmInv => InUseCountsHolders
  BY DEF ShmInv
<1> QED BY <1>1, ShmInvHolds, PTL

\* The wait for zero keeps a second client out of the segment.
THEOREM ExclusiveClients ==
  ASSUME ~Overlap
  PROVE  Spec => []ClientExclusion
<1>1. ShmInv => ClientExclusion
  BY DEF ShmInv
<1> QED BY <1>1, ShmInvHolds, PTL
=============================================================================
