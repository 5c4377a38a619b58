---------------------------- MODULE MessRouting ----------------------------
(***************************************************************************)
(* Messages of the MESS exchange and the routing decision that every       *)
(* server takes on each of them: MessMessage.pm and the stateless part of  *)
(* RoutingTables.pm.                                                       *)
(*                                                                         *)
(* A message is addressed to dstsub@dst: dst is a MESS server or Bcast,    *)
(* dstsub an entity attached to that server or Self, the server proper.    *)
(* Payloads, times and the host and port of a broadcast are left out: a    *)
(* broadcast always advertises its own source.                             *)
(***************************************************************************)
EXTENDS Naturals

CONSTANTS
  Servers,   \* identifiers of MESS servers
  Clients,   \* identifiers of tc-clients
  TcServers, \* identifiers of tc-servers
  Self,      \* SUBADDR_SELF
  Bcast,     \* DST_BCAST
  None,      \* undef
  MQ         \* the message queue handle a tc-server is reached through

Ids == Servers \cup Clients \cup TcServers
Ends == Servers \cup Clients                 \* processes that hold sockets

ASSUME IdsAssumption ==
  /\ Servers \cap Clients = {} /\ Servers \cap TcServers = {}
  /\ Clients \cap TcServers = {}
  /\ {Self, Bcast, None, MQ} \cap Ids = {}
  /\ Self # Bcast /\ Self # None /\ Bcast # None /\ MQ # None

Types == {"CALL", "RET", "EVENT"}
Methods == {"ping", "pingtcs", "mqRegister", "bcastIP_PORT"}
Statuses == {"ORIG", "OK", "NOMETHOD"}

\* A UUID is made from its maker and the maker's clock.
UUIDs == Ids \X Nat

Messages ==
  [uuid : UUIDs, type : Types, method : Methods, src : Servers, srcsub : Ids \cup {Self},
   dst : Ids \cup {Bcast}, dstsub : Ids \cup {Self},
   uuidorig : UUIDs \cup {None}, status : Statuses]

ASSUME NoneAssumption == None \notin Messages

NewMsg(uuid, type, srcsub, src, dstsub, dst, method) ==
  [uuid |-> uuid, type |-> type, method |-> method, src |-> src, srcsub |-> srcsub,
   dst |-> dst, dstsub |-> dstsub, uuidorig |-> None, status |-> "ORIG"]

\* Mutant: the caller's address is taken the wrong way round.
ReplyToSwapped(m, uuid, srcsub, src, status) ==
  [uuid |-> uuid, type |-> "RET", method |-> m.method, src |-> src, srcsub |-> srcsub,
   dst |-> m.srcsub, dstsub |-> m.src, uuidorig |-> m.uuid, status |-> status]

\* The answer to m, sent by srcsub@src to whoever sent m.
ReplyTo(m, uuid, srcsub, src, status) ==
  [uuid |-> uuid, type |-> "RET", method |-> m.method, src |-> src, srcsub |-> srcsub,
   dst |-> m.src, dstsub |-> m.srcsub, uuidorig |-> m.uuid, status |-> status]
-----------------------------------------------------------------------------
\* m is for server n itself, and not for something attached to it.
IsForSelf(n, m) == m.dstsub = Self /\ m.dst \in {Bcast, n}

\* Mutant: MESS_AUTO_LINKS is not looked at.
WantsLinkAlways(n, m, routes, autoLinks) ==
  /\ IsForSelf(n, m)
  /\ m.method = "bcastIP_PORT"
  /\ m.src # n
  /\ routes[m.src] = None

\* m makes server n open a connection of its own to the server advertised.
\* routes is n's table: the handle each identifier is reached through, or None.
WantsLink(n, m, routes, autoLinks) ==
  /\ IsForSelf(n, m)
  /\ m.method = "bcastIP_PORT"
  /\ autoLinks
  /\ m.src # n
  /\ routes[m.src] = None

\* m is handed to the callback of the main loop.
IsForHandler(n, m) == IsForSelf(n, m) /\ m.method \notin {"bcastIP_PORT", "mqRegister"}

IsLocal(n, m, routes) == m.dst = n /\ m.dstsub # Self /\ routes[m.dstsub] # None
IsDirect(n, m, routes) ==
  ~IsLocal(n, m, routes) /\ m.dst # Bcast /\ routes[m.dst] # None

\* Mutant: the flood does not look at the type of a route.
NextHopsAny(n, m, routes) ==
  IF IsLocal(n, m, routes) THEN {m.dstsub}
  ELSE IF IsDirect(n, m, routes) THEN {m.dst}
  ELSE {p \in Ends : routes[p] # None}


\* The identifiers whose handle floodRoute() writes m to.
NextHops(n, m, routes) ==
  IF IsLocal(n, m, routes) THEN {m.dstsub}
  ELSE IF IsDirect(n, m, routes) THEN {m.dst}
  ELSE {p \in Servers : routes[p] # None}

\* m makes floodRoute() die: a local destination that is a MESS server, or a
\* message queue handle used as a socket.
RouteDies(n, m, routes) ==
  \/ IsLocal(n, m, routes) /\ m.dstsub \in Servers
  \/ IsDirect(n, m, routes) /\ m.dst \in TcServers
=============================================================================
