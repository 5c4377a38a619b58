------------------------------ MODULE MessNet ------------------------------
(***************************************************************************)
(* A network of MESS servers (MessSrv.pl), each with its tc-server         *)
(* (tcServer.pl) behind a pair of message queues and any number of         *)
(* tc-clients (tcClient.pl) behind authenticated sockets.                  *)
(*                                                                         *)
(* A connection <<a, b>> was opened by a to b.  A server is one sequential *)
(* process: pc names the point of its main loop where it next touches      *)
(* something another process can see, and its blocking calls are states    *)
(* of pc in which only the awaited event lets it go on.                    *)
(***************************************************************************)
EXTENDS MessRouting, Sequences, FiniteSets

CONSTANTS
  Primary,   \* MESS_PRIMARY of each server, None for the topmost
  AutoLinks, \* servers configured with MESS_AUTO_LINKS
  TcId,      \* TC_SERV_ID of each server
  TcsUp,     \* servers whose tc-server is running
  Home,      \* MY_MESS_ID of each client
  Authentic, \* processes whose password is the one in the servers' table
  Targets,   \* Targets[c]: the <<dstsub, dst>> pairs typed at client c
  Calls,     \* methods called at clients
  Listen,    \* the listening socket
  MQMax,     \* mq_maxmsg
  MaxCalls,  \* bound on the calls a client makes
  MaxBcast   \* MaxBcast[n]: bound on the broadcasts server n makes

Conns == {c \in Ends \X Servers : c[1] # c[2] /\ (c[1] \in Clients => c[2] = Home[c[1]])}
Other(c, x) == IF c[1] = x THEN c[2] ELSE c[1]

ASSUME ConfigAssumption ==
  /\ Primary \in [Servers -> Servers \cup {None}]
  /\ \A n \in Servers : Primary[n] # n
  /\ AutoLinks \subseteq Servers /\ TcsUp \subseteq Servers /\ Authentic \subseteq Ends
  /\ TcId \in [Servers -> TcServers] /\ Home \in [Clients -> Servers]
  /\ Targets \in [Clients -> SUBSET ((Ids \cup {Self}) \X (Ids \cup {Bcast}))]
  /\ Calls \subseteq {"ping", "pingtcs"}
  /\ Listen \notin Conns /\ MQ \notin Conns /\ None \notin Conns
  /\ MQMax \in Nat \ {0} /\ MaxCalls \in Nat /\ MaxBcast \in [Servers -> Nat]

VARIABLES
  pc,      \* where each server is
  cur,     \* the message it is routing, over a point where it may block
  todo,    \* the handles select() returned that it has yet to serve
  readSet, \* the connections it selects on
  authOK,  \* those whose peer has authenticated
  routes,  \* localRoutes
  seen,    \* seenUUID
  stage,   \* how far each connection has come: see Stages
  closed,  \* the ends that have closed it
  chan,    \* chan[c][x]: what end x has yet to read from c
  mqIn,    \* queue from each server to its tc-server
  mqOut,   \* queue from each tc-server to its server
  tcs,     \* replies the tc-server has yet to queue
  client,  \* where each client is
  clock,   \* UUIDs each process has made
  sent,    \* every message ever made (history)
  got      \* what each client has received (history)

srvVars == <<pc, cur, todo, readSet, authOK, routes, seen>>
netVars == <<stage, closed, chan>>
mqVars == <<mqIn, mqOut, tcs>>
vars == <<srvVars, netVars, mqVars, client, clock, sent, got>>

\* "wait": in authenticateClient(); "auth": in authenticateOnServer();
\* "top": sleep, broadcast and select; "mq": draining the queue;
\* "sock": serving ready sockets; "flood": at ROUTE_NONLOCAL with cur.
PCs == {"down", "wait", "top", "mq", "sock", "auth", "flood", "dead"}
Stages == {"none", "backlog", "challenged", "refused", "open"}
ClientPCs == {"off", "wait", "on", "quit"}

Init ==
  /\ pc = [n \in Servers |-> "down"]
  /\ cur = [n \in Servers |-> None]
  /\ todo = [n \in Servers |-> {}]
  /\ readSet = [n \in Servers |-> {}]
  /\ authOK = [n \in Servers |-> {}]
  /\ routes = [n \in Servers |-> [i \in Ids |-> None]]
  /\ seen = [n \in Servers |-> {}]
  /\ stage = [c \in Conns |-> "none"]
  /\ closed = [c \in Conns |-> {}]
  /\ chan = [c \in Conns |-> [x \in Ends |-> <<>>]]
  /\ mqIn = [n \in Servers |-> <<>>]
  /\ mqOut = [n \in Servers |-> <<>>]
  /\ tcs = [n \in Servers |-> <<>>]
  /\ client = [c \in Clients |-> "off"]
  /\ clock = [i \in Ids |-> 0]
  /\ sent = {}
  /\ got = [c \in Clients |-> <<>>]
-----------------------------------------------------------------------------
(* Helpers of the server *)

\* newServer() ran: connecting succeeds.
Listening(n) == pc[n] \notin {"down", "dead"} /\ ~(pc[n] = "wait" /\ cur[n] = None)

\* Mutant: end of file does not make a socket readable.
ReadableData(n, c) == chan[c][n] # <<>>

\* What select() finds readable: data, end of file, or a connection to accept.
Readable(n, c) == chan[c][n] # <<>> \/ Other(c, n) \in closed[c]

\* Mutant: the listening socket is left out of the set selected on.
ReadyButListen(n) == {c \in readSet[n] : Readable(n, c)}

Ready(n) ==
  {c \in readSet[n] : Readable(n, c)}
    \cup (IF \E c \in Conns : c[2] = n /\ stage[c] = "backlog" THEN {Listen} ELSE {})

\* Mutant: the UUIDs seen are not looked up.
NeverDropped(n, m) == FALSE

\* The flood has brought m before.
Dropped(n, m) == m.uuid \in seen[n]

\* The next point of the loop once one ready handle is served.
AfterSock(rest) == IF rest = {} THEN "top" ELSE "sock"

\* Mutant: one message of the queue is read in an iteration.
AfterOneMQ(rest) == AfterSock(rest)

\* The queue is read until it is empty.
AfterMQ(rest) == "mq"

\* Mutant: a socket is closed and left in the set.
KeepSelected(n, c) == readSet

\* IO::Select::remove().
Deselect(n, c) == [readSet EXCEPT ![n] = @ \ {c}]

Post(ch, S, n, m) ==
  [c \in Conns |-> IF c \in S THEN [ch[c] EXCEPT ![Other(c, n)] = Append(@, m)] ELSE ch[c]]

Fresh(i) == <<i, clock[i]>>
Tick(i, m) == clock' = [clock EXCEPT ![i] = @ + 1] /\ sent' = sent \cup {m}

GoOn(n, label, rest, m) ==
  /\ pc' = [pc EXCEPT ![n] = label]
  /\ todo' = [todo EXCEPT ![n] = rest]
  /\ cur' = [cur EXCEPT ![n] = m]

\* The process ends: its sockets are closed, with ch in them.
Die(n, ch) ==
  /\ GoOn(n, "dead", {}, None)
  /\ closed' = [c \in Conns |-> IF n \in {c[1], c[2]} /\ stage[c] # "none"
                                THEN closed[c] \cup {n} ELSE closed[c]]
  /\ chan' = [c \in Conns |-> [ch[c] EXCEPT ![n] = <<>>]]

\* floodRoute() from ROUTE_NONLOCAL on, for a message that is not for the
\* tc-server: a write to a handle the server closed does nothing, a write to one
\* the peer closed is lost or raises SIGPIPE.
SendOn(n, ch, m, label, rest, keep) ==
  LET conns == {routes[n][i] : i \in NextHops(n, m, routes[n]) \ TcServers}
      usable == {c \in conns : n \notin closed[c]}
      alive == {c \in usable : Other(c, n) \notin closed[c]}
  IN \/ /\ RouteDies(n, m, routes[n])
        /\ Die(n, ch)
     \/ /\ ~RouteDies(n, m, routes[n])
        /\ GoOn(n, label, rest, keep)
        /\ chan' = Post(ch, alive, n, m)
        /\ UNCHANGED closed
     \/ /\ ~RouteDies(n, m, routes[n])
        /\ alive # usable
        /\ \E S \in SUBSET alive : Die(n, Post(ch, S, n, m))
-----------------------------------------------------------------------------
(* MessSrv.pl, before the loop *)

\* Register with the tc-server; then listen, or first connect to the primary.
Start(n) ==
  LET reg == NewMsg(Fresh(n), "CALL", Self, n, TcId[n], n, "mqRegister")
      p == Primary[n]
  IN /\ pc[n] = "down"
     /\ Tick(n, reg)
     /\ seen' = [seen EXCEPT ![n] = @ \cup {reg.uuid}]
     /\ routes' = [routes EXCEPT ![n][TcId[n]] = MQ]
     /\ mqIn' = [mqIn EXCEPT ![n] = Append(@, reg)]
     /\ \/ /\ p = None
           /\ pc' = [pc EXCEPT ![n] = "top"]
           /\ UNCHANGED stage
        \/ /\ p # None /\ Listening(p)
           /\ pc' = [pc EXCEPT ![n] = "wait"]
           /\ stage' = [stage EXCEPT ![<<n, p>>] = "backlog"]
        \/ /\ p # None /\ ~Listening(p)
           /\ pc' = [pc EXCEPT ![n] = "dead"]
           /\ UNCHANGED stage
     /\ UNCHANGED <<cur, todo, readSet, authOK, closed, chan, mqOut, tcs, client, got>>

(* MessSrv.pl, the loop *)

BcastsOf(n) == {m \in sent : m.src = n /\ m.method = "bcastIP_PORT"}

\* Broadcast the server's own address, then select().  Broadcasts beyond MaxBcast
\* are not modelled, and without one an iteration that finds nothing ready and
\* nothing queued changes nothing.
Top(n) ==
  LET m == NewMsg(Fresh(n), "EVENT", Self, n, Self, Bcast, "bcastIP_PORT")
  IN /\ pc[n] = "top"
     /\ \/ /\ Cardinality(BcastsOf(n)) < MaxBcast[n]
           /\ Tick(n, m)
           /\ seen' = [seen EXCEPT ![n] = @ \cup {m.uuid}]
           /\ SendOn(n, chan, m, "mq", Ready(n), None)
        \/ /\ Cardinality(BcastsOf(n)) >= MaxBcast[n]
           /\ Ready(n) # {} \/ mqOut[n] # <<>>
           /\ GoOn(n, "mq", Ready(n), None)
           /\ UNCHANGED <<seen, closed, chan, clock, sent>>
     /\ UNCHANGED <<readSet, authOK, routes, stage, mqVars, client, got>>

\* One message of the tc-server; when there is none, on to the sockets.
DrainMQ(n) ==
  /\ pc[n] = "mq"
  /\ \/ /\ mqOut[n] = <<>>
        /\ GoOn(n, AfterSock(todo[n]), todo[n], None)
        /\ UNCHANGED <<seen, closed, chan, mqOut>>
     \/ LET m == Head(mqOut[n])
        IN /\ mqOut[n] # <<>>
           /\ mqOut' = [mqOut EXCEPT ![n] = Tail(@)]
           /\ seen' = [seen EXCEPT ![n] = @ \cup {m.uuid}]
           /\ IF Dropped(n, m)
              THEN UNCHANGED <<pc, cur, todo, closed, chan>>
              ELSE SendOn(n, chan, m, AfterMQ(todo[n]), todo[n], None)
  /\ UNCHANGED <<readSet, authOK, routes, stage, mqIn, tcs, client, clock, sent, got>>

\* accept() and the challenge of authenticateOnServer(), which then blocks.
Accept(n) ==
  /\ pc[n] = "sock"
  /\ Listen \in todo[n]
  /\ \E c \in Conns :
       /\ c[2] = n /\ stage[c] = "backlog"
       /\ stage' = [stage EXCEPT ![c] = "challenged"]
       /\ readSet' = [readSet EXCEPT ![n] = @ \cup {c}]
  /\ GoOn(n, "auth", todo[n] \ {Listen}, None)
  /\ UNCHANGED <<authOK, routes, seen, closed, chan, mqVars, client, clock, sent, got>>

\* receiveData() on an authenticated connection and floodRoute() on what it brings,
\* up to ROUTE_NONLOCAL.
Arrived(n, c) == Head(chan[c][n])
Popped(n, c) == [chan EXCEPT ![c][n] = Tail(@)]
Mark(n, ids) == seen' = [seen EXCEPT ![n] = @ \cup ids]

ReceiveAgain(n, c, rest) ==
  /\ Dropped(n, Arrived(n, c))
  /\ GoOn(n, AfterSock(rest), rest, None)
  /\ chan' = Popped(n, c)
  /\ UNCHANGED <<seen, stage, closed, clock, sent>>

\* newClient() to the server advertised, dying when nobody listens there.
ReceiveLink(n, c, rest) ==
  LET m == Arrived(n, c)
  IN /\ ~Dropped(n, m) /\ WantsLink(n, m, routes[n], n \in AutoLinks)
     /\ Mark(n, {m.uuid})
     /\ \/ /\ Listening(m.src)
           /\ GoOn(n, "wait", rest, m)
           /\ stage' = [stage EXCEPT ![<<n, m.src>>] = "backlog"]
           /\ chan' = Popped(n, c)
           /\ UNCHANGED closed
        \/ /\ ~Listening(m.src)
           /\ Die(n, Popped(n, c))
           /\ UNCHANGED stage
     /\ UNCHANGED <<clock, sent>>

\* The callback answers a ping, through floodRoute(), before the ping goes on.
ReceivePing(n, c, rest) ==
  LET m == Arrived(n, c)
      r == ReplyTo(m, Fresh(n), Self, n, "OK")
  IN /\ ~Dropped(n, m) /\ IsForHandler(n, m) /\ m.method = "ping"
     /\ Mark(n, {m.uuid, r.uuid}) /\ Tick(n, r)
     /\ SendOn(n, Popped(n, c), r, "flood", rest, m)
     /\ UNCHANGED stage

\* The callback fails on any other method: it calls a method of "msg", not $msg.
ReceiveUnknown(n, c, rest) ==
  LET m == Arrived(n, c)
  IN /\ ~Dropped(n, m) /\ IsForHandler(n, m) /\ m.method # "ping"
     /\ Mark(n, {m.uuid})
     /\ Die(n, Popped(n, c))
     /\ UNCHANGED <<stage, clock, sent>>

ReceiveOther(n, c, rest) ==
  LET m == Arrived(n, c)
  IN /\ ~Dropped(n, m) /\ ~IsForHandler(n, m)
     /\ ~WantsLink(n, m, routes[n], n \in AutoLinks)
     /\ Mark(n, {m.uuid})
     /\ GoOn(n, "flood", rest, m)
     /\ chan' = Popped(n, c)
     /\ UNCHANGED <<stage, closed, clock, sent>>

Receive(n) ==
  /\ pc[n] = "sock"
  /\ \E c \in todo[n] \cap authOK[n] :
       LET rest == todo[n] \ {c}
       IN /\ chan[c][n] # <<>>
          /\ \/ ReceiveAgain(n, c, rest) \/ ReceiveLink(n, c, rest) \/ ReceivePing(n, c, rest)
             \/ ReceiveUnknown(n, c, rest) \/ ReceiveOther(n, c, rest)
  /\ UNCHANGED <<readSet, authOK, routes, mqVars, client, got>>

\* ROUTE_NONLOCAL.  Queueing for the tc-server blocks while the queue is full.
Flood(n) ==
  LET m == cur[n] IN
  /\ pc[n] = "flood"
  /\ IF IsLocal(n, m, routes[n]) /\ m.dstsub \in TcServers
     THEN /\ Len(mqIn[n]) < MQMax
          /\ mqIn' = [mqIn EXCEPT ![n] = Append(@, m)]
          /\ GoOn(n, AfterSock(todo[n]), todo[n], None)
          /\ UNCHANGED <<closed, chan>>
     ELSE /\ SendOn(n, chan, m, AfterSock(todo[n]), todo[n], None)
          /\ UNCHANGED mqIn
  /\ UNCHANGED <<readSet, authOK, routes, seen, stage, mqOut, tcs, client, clock, sent, got>>

\* CLOSE: end of file, or anything readable on a connection that did not
\* authenticate.  The route to the peer stays.
Close(n) ==
  /\ pc[n] = "sock"
  /\ \E c \in todo[n] \ {Listen} :
       /\ c \notin authOK[n] \/ chan[c][n] = <<>>
       /\ readSet' = Deselect(n, c)
       /\ authOK' = [authOK EXCEPT ![n] = @ \ {c}]
       /\ closed' = [closed EXCEPT ![c] = @ \cup {n}]
       /\ chan' = [chan EXCEPT ![c][n] = <<>>]
       /\ GoOn(n, AfterSock(todo[n] \ {c}), todo[n] \ {c}, None)
  /\ UNCHANGED <<routes, seen, stage, mqVars, client, clock, sent, got>>
-----------------------------------------------------------------------------
(* The rest of the handshake, of which AuthenticatedLink.pm makes both ends block *)

\* The connector answers the challenge and both ends go on.  A server reads the
\* connection to its primary; it does not add one made by a broadcast to its set.
LogIn(c) ==
  LET a == c[1]  b == c[2]
      starting == a \in Servers /\ cur[a] = None
  IN /\ stage[c] = "challenged" /\ closed[c] = {} /\ a \in Authentic
     /\ stage' = [stage EXCEPT ![c] = "open"]
     /\ pc' = [n \in Servers |-> IF n = b THEN AfterSock(todo[b])
                                 ELSE IF n # a THEN pc[n]
                                 ELSE IF starting THEN "top" ELSE "flood"]
     /\ routes' = [n \in Servers |-> IF n = b THEN [routes[b] EXCEPT ![a] = c]
                                     ELSE IF n = a THEN [routes[a] EXCEPT ![b] = c]
                                     ELSE routes[n]]
     /\ authOK' = [n \in Servers |-> IF n = b \/ (n = a /\ starting)
                                     THEN authOK[n] \cup {c} ELSE authOK[n]]
     /\ readSet' = [n \in Servers |-> IF n = a /\ starting
                                      THEN readSet[n] \cup {c} ELSE readSet[n]]
     /\ client' = [x \in Clients |-> IF x = a THEN "on" ELSE client[x]]
     /\ UNCHANGED <<cur, todo, seen, closed, chan, mqVars, clock, sent, got>>

\* The connector is gone, or its answer is wrong: the acceptor goes on with a
\* connection that is not authenticated, and tells the connector nothing.  Writing
\* to a connector that is gone may also end the acceptor.
LogInFails(c) ==
  LET a == c[1]  b == c[2]
  IN /\ stage[c] = "challenged" /\ b \notin closed[c]
     /\ a \in closed[c] \/ a \notin Authentic
     /\ stage' = [stage EXCEPT ![c] = "refused"]
     /\ \/ /\ GoOn(b, AfterSock(todo[b]), todo[b], None)
           /\ UNCHANGED <<closed, chan>>
        \/ /\ a \in closed[c]
           /\ Die(b, chan)
     /\ UNCHANGED <<readSet, authOK, routes, seen, mqVars, client, clock, sent, got>>

\* The acceptor died: the blocked connector reads end of file and dies.
Orphaned(c) ==
  LET a == c[1]
  IN /\ stage[c] \in {"backlog", "challenged", "refused"} /\ c[2] \in closed[c]
     /\ a \notin closed[c]
     /\ \/ /\ a \in Servers /\ Die(a, chan) /\ UNCHANGED client
        \/ /\ a \in Clients
           /\ client' = [client EXCEPT ![a] = "quit"]
           /\ closed' = [closed EXCEPT ![c] = @ \cup {a}]
           /\ UNCHANGED <<pc, cur, todo, chan>>
     /\ UNCHANGED <<readSet, authOK, routes, seen, stage, mqVars, clock, sent, got>>
-----------------------------------------------------------------------------
(* tcClient.pl *)

Connect(c) ==
  /\ client[c] = "off"
  /\ Listening(Home[c])
  /\ client' = [client EXCEPT ![c] = "wait"]
  /\ stage' = [stage EXCEPT ![<<c, Home[c]>>] = "backlog"]
  /\ UNCHANGED <<srvVars, closed, chan, mqVars, clock, sent, got>>

\* What the socket of client c looks like once m is written to it.
ClientWrites(c, ch, m) ==
  LET link == <<c, Home[c]>>
  IN IF Home[c] \in closed[link] THEN ch ELSE Post(ch, {link}, c, m)

CallsOf(c) == {m \in sent : m.srcsub = c /\ m.type = "CALL"}

\* A line "p <dstsub> <dst>" typed at the client.
ClientCall(c) ==
  /\ client[c] = "on"
  /\ Cardinality(CallsOf(c)) < MaxCalls
  /\ \E t \in Targets[c], method \in Calls :
       LET m == NewMsg(Fresh(c), "CALL", c, Home[c], t[1], t[2], method)
       IN Tick(c, m) /\ chan' = ClientWrites(c, chan, m)
  /\ UNCHANGED <<srvVars, stage, closed, mqVars, client, got>>

\* The forked child prints what arrives and answers pings.
ClientReceive(c) ==
  LET link == <<c, Home[c]>>
      m == Head(chan[link][c])
      ch == [chan EXCEPT ![link][c] = Tail(@)]
      r == ReplyTo(m, Fresh(c), c, Home[c], "OK")
  IN /\ client[c] = "on"
     /\ chan[link][c] # <<>>
     /\ got' = [got EXCEPT ![c] = Append(@, m)]
     /\ IF m.method = "ping" /\ m.type = "CALL"
        THEN Tick(c, r) /\ chan' = ClientWrites(c, ch, r)
        ELSE chan' = ch /\ UNCHANGED <<clock, sent>>
     /\ UNCHANGED <<srvVars, stage, closed, mqVars, client>>

\* "q", or the process is killed.
ClientQuit(c) ==
  /\ client[c] \in {"wait", "on"}
  /\ client' = [client EXCEPT ![c] = "quit"]
  /\ closed' = [closed EXCEPT ![<<c, Home[c]>>] = @ \cup {c}]
  /\ chan' = [chan EXCEPT ![<<c, Home[c]>>][c] = <<>>]
  /\ UNCHANGED <<srvVars, stage, mqVars, clock, sent, got>>
-----------------------------------------------------------------------------
(* tcServer.pl *)

\* Mutant: the first test of tcServer.pl accepts ping too.
TcsStatusesTwice(m) ==
  (IF m.method \in {"ping", "pingtcs"} THEN <<"OK">> ELSE <<>>)
    \o (IF m.method = "mqRegister" THEN <<"OK">> ELSE <<"NOMETHOD">>)

\* The statuses m is answered with, in order.
TcsStatuses(m) ==
  (IF m.method = "pingtcs" THEN <<"OK">> ELSE <<>>)
    \o (IF m.method = "mqRegister" THEN <<"OK">> ELSE <<"NOMETHOD">>)

TcsReceive(n) ==
  LET m == Head(mqIn[n])
      s == TcsStatuses(m)
      i == TcId[n]
      replies == [k \in 1..Len(s) |-> ReplyTo(m, <<i, clock[i] + k - 1>>, i, n, s[k])]
  IN /\ n \in TcsUp
     /\ tcs[n] = <<>> /\ mqIn[n] # <<>>
     /\ mqIn' = [mqIn EXCEPT ![n] = Tail(@)]
     /\ tcs' = [tcs EXCEPT ![n] = replies]
     /\ clock' = [clock EXCEPT ![i] = @ + Len(s)]
     /\ sent' = sent \cup {replies[k] : k \in 1..Len(s)}
     /\ UNCHANGED <<srvVars, netVars, mqOut, client, got>>

TcsSend(n) ==
  /\ tcs[n] # <<>> /\ Len(mqOut[n]) < MQMax
  /\ mqOut' = [mqOut EXCEPT ![n] = Append(@, Head(tcs[n]))]
  /\ tcs' = [tcs EXCEPT ![n] = Tail(@)]
  /\ UNCHANGED <<srvVars, netVars, mqIn, client, clock, sent, got>>
-----------------------------------------------------------------------------
LoopStep(n) ==
  \/ Top(n) \/ DrainMQ(n) \/ Accept(n) \/ Receive(n) \/ Flood(n) \/ Close(n)
ServerStep(n) == Start(n) \/ LoopStep(n)
Handshake(c) == LogIn(c) \/ LogInFails(c) \/ Orphaned(c)
ClientStep(c) == Connect(c) \/ ClientCall(c) \/ ClientReceive(c) \/ ClientQuit(c)
TcsStep(n) == TcsReceive(n) \/ TcsSend(n)

Next ==
  \/ \E n \in Servers : ServerStep(n) \/ TcsStep(n)
  \/ \E c \in Conns : Handshake(c)
  \/ \E c \in Clients : ClientStep(c)

Spec == Init /\ [][Next]_vars

\* A server that was started keeps running its loop, and so do the tc-servers, the
\* kernel's side of a handshake and the clients' receiving children; nobody has to
\* start a server, to type a call or to quit.
FairSpec ==
  /\ Spec
  /\ \A n \in Servers : WF_vars(LoopStep(n)) /\ WF_vars(TcsStep(n))
  /\ \A c \in Conns : WF_vars(Handshake(c))
  /\ \A c \in Clients : WF_vars(ClientReceive(c))
-----------------------------------------------------------------------------
(* Properties *)

\* Every variable has its type.
TypeOK ==
  /\ pc \in [Servers -> PCs]
  /\ cur \in [Servers -> Messages \cup {None}]
  /\ todo \in [Servers -> SUBSET (Conns \cup {Listen})]
  /\ readSet \in [Servers -> SUBSET Conns]
  /\ authOK \in [Servers -> SUBSET Conns]
  /\ routes \in [Servers -> [Ids -> Conns \cup {MQ, None}]]
  /\ seen \in [Servers -> SUBSET UUIDs]
  /\ stage \in [Conns -> Stages]
  /\ closed \in [Conns -> SUBSET Ends]
  /\ chan \in [Conns -> [Ends -> Seq(Messages)]]
  /\ mqIn \in [Servers -> Seq(Messages)]
  /\ mqOut \in [Servers -> Seq(Messages)]
  /\ tcs \in [Servers -> Seq(Messages)]
  /\ client \in [Clients -> ClientPCs]
  /\ clock \in [Ids -> Nat]
  /\ sent \subseteq Messages
  /\ got \in [Clients -> Seq(Messages)]

IsReturn(m) == m.type = "RET"
Returns == {m \in sent : IsReturn(m)}

\* A server answers a call once, however many copies of it the flood brings
\* (the UUID check that opens floodRoute()).
ServersAnswerOnce ==
  \A r, s \in Returns :
    r.srcsub = Self /\ s.srcsub = Self /\ r.src = s.src /\ r.uuidorig = s.uuidorig => r = s

\* So does what is attached to a server: a call reaches a client or a tc-server
\* once and gets one answer there (routing of local destinations, tcServer.pl).
AttachedAnswerOnce ==
  \A r, s \in Returns :
    r.srcsub # Self /\ r.srcsub = s.srcsub /\ r.uuidorig = s.uuidorig => r = s

\* n is blocked in authenticateClient() on a connection to p.
WaitsFor(n, p) ==
  /\ pc[n] = "wait"
  /\ <<n, p>> \in Conns /\ stage[<<n, p>>] \in {"backlog", "challenged"}

\* Servers that connect to each other never wait in a circle: each reads its peer's
\* challenge without serving its own listening socket (newClient() in floodRoute()).
NoWaitCycle ==
  \A S \in SUBSET Servers : S # {} => \E n \in S : \A p \in S : ~WaitsFor(n, p)

\* The handles select() returned are still open when their turn comes, although
\* serving the ones before closes sockets and opens others.
HandlesAreOpen ==
  \A n \in Servers :
    /\ todo[n] \ {Listen} \subseteq readSet[n]
    /\ pc[n] # "dead" => \A c \in readSet[n] : n \notin closed[c]

\* A server never waits for room in the queue to a tc-server that itself waits for
\* room in the queue back (the loop empties that queue before it serves sockets).
QueuesNeverJam ==
  \A n \in Servers :
    ~(/\ pc[n] = "flood"
      /\ IsLocal(n, cur[n], routes[n]) /\ cur[n].dstsub \in TcServers
      /\ Len(mqIn[n]) = MQMax /\ Len(mqOut[n]) = MQMax /\ tcs[n] # <<>>)

AllUp == \A n \in Servers : Listening(n)

\* The call <<c, k>> is on its way to c's server, addressed to sub@at.
Entering(c, k, sub, at) ==
  LET in == chan[<<c, Home[c]>>][Home[c]]
  IN \E i \in 1..Len(in) : in[i].uuid = <<c, k>> /\ in[i].dstsub = sub /\ in[i].dst = at


\* Whoever connects to a server with the right password gets past the handshake,
\* although each server serves its listening socket only between other work and
\* blocks on every handshake it is part of.
NobodyHangs ==
  \A c \in Conns :
    stage[c] \in {"backlog", "challenged"} /\ c[1] \in Authentic
      ~> stage[c] \notin {"backlog", "challenged"} \/ closed[c] # {}

\* A server that died is noticed: its peers stop listening to it.
DeadPeersAreDropped ==
  \A c \in Conns, n \in Servers :
    pc[n] # "dead" /\ c \in readSet[n] /\ Other(c, n) \in closed[c]
      ~> pc[n] = "dead" \/ c \notin readSet[n]
-----------------------------------------------------------------------------
(* What the sources say and the code does not do *)

\* "localRoutes has local (direct) connections": a server listens on the
\* connections it routes over, and so learns what the peer says or that it is gone.
RoutesAreServed ==
  \A n \in Servers, i \in Ends :
    pc[n] # "dead" /\ routes[n][i] # None => routes[n][i] \in readSet[n]
-----------------------------------------------------------------------------
(* The service a client sees: MessCall *)

placed == {[id |-> m.uuid, by |-> m.srcsub, sub |-> m.dstsub, at |-> m.dst] :
             m \in {x \in sent : x.type = "CALL"}}
given == {[id |-> r.uuid, call |-> r.uuidorig, sub |-> r.srcsub, at |-> r.src] : r \in Returns}
BroughtTo(c) == {[id |-> got[c][k].uuid, when |-> k] :
                   k \in {i \in 1..Len(got[c]) : IsReturn(got[c][i])}}

Service == INSTANCE MessCall WITH
  calls <- placed, answers <- given, returned <- [c \in Clients |-> BroughtTo(c)]

\* The network gives its clients that service.
ImplementsService == Service!Spec
=============================================================================
