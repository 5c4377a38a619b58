--------------------------- MODULE MessNetService ---------------------------
(***************************************************************************)
(* In every MESS network in which nobody calls pingtcs, what is attached to *)
(* a server answers a call at most once, and the network implements the     *)
(* call service of MessCall.                                                *)
(*                                                                          *)
(* The argument follows a message from the process that made it: its UUID   *)
(* is its own, it is handed to a client or a tc-server by the server that   *)
(* process is attached to and by no other, and that server hands over what  *)
(* it has not seen before.                                                  *)
(***************************************************************************)
EXTENDS MessNetOnce

Link(x) == <<x, Home[x]>>
Elems(q) == {q[k] : k \in 1..Len(q)}
UuidsIn(q) == {q[k].uuid : k \in 1..Len(q)}
AllDifferent(q) == \A j, k \in 1..Len(q) : q[j].uuid = q[k].uuid => j = k

\* A server's table leads to its direct peers: over a connection they share, or over
\* the queue to its own tc-server.
TablesLead ==
  \A n \in Servers, i \in Ids :
    /\ routes[n][i] = MQ => i = TcId[n]
    /\ routes[n][i] \notin {MQ, None} => routes[n][i] \in {<<n, i>>, <<i, n>>}

\* A UUID names one message, and the clock of its maker is past it.
UuidsName ==
  /\ \A m \in sent : m.uuid[2] < clock[m.uuid[1]]
  /\ \A m, x \in sent : m.uuid = x.uuid => m = x

\* Whatever is under way was made.
UnderWayMade ==
  /\ \A c \in Conns, e \in Ends : Elems(chan[c][e]) \subseteq sent
  /\ \A n \in Servers :
       /\ Elems(mqIn[n]) \cup Elems(mqOut[n]) \cup Elems(tcs[n]) \subseteq sent
       /\ cur[n] # None => cur[n] \in sent
  /\ \A x \in Clients : Elems(got[x]) \subseteq sent

\* A message that client x may be handed, and one the tc-server of n may be.
IsFor(x, m) == m.dst = x \/ (m.dst = Home[x] /\ m.dstsub = x)
IsForTcs(n, m) == m.dst = n /\ m.dstsub = TcId[n]

\* Messages reach nobody else.
ReachAddressee ==
  /\ \A x \in Clients : \A m \in Elems(chan[Link(x)][x]) \cup Elems(got[x]) : IsFor(x, m)
  /\ \A n \in Servers : \A m \in Elems(mqIn[n]) : IsForTcs(n, m)

\* r answers the call k, at one of the processes it is addressed to.
Answers(k, r) ==
  /\ k.type = "CALL" /\ k.uuid = r.uuidorig /\ k.method = r.method
  /\ r.dst = k.src /\ r.dstsub = k.srcsub
  /\ (k.dstsub = r.srcsub /\ k.dst \in {Bcast, r.src}) \/ k.dst = r.srcsub

\* Calls are made by clients, but for the registration of a server; events are
\* broadcasts; and every answer answers a call.
Accounted(m) ==
  /\ m.type = "CALL" => \/ m.srcsub = Self /\ m.method = "mqRegister"
                        \/ m.srcsub \in Clients /\ m.src = Home[m.srcsub] /\ m.method \in Calls
  /\ m.type = "EVENT" => m.dst = Bcast /\ m.dstsub = Self /\ m.method = "bcastIP_PORT"
  /\ m.type = "RET" => \E k \in sent : Answers(k, m)
Origins == \A m \in sent : Accounted(m)

\* The UUIDs server n has handed to its clients and to its tc-server.
Handed(n) ==
  UuidsIn(mqIn[n])
    \cup {r.uuidorig : r \in {x \in Returns : x.srcsub \in TcServers /\ x.src = n}}
    \cup UNION {UuidsIn(chan[Link(x)][x]) \cup UuidsIn(got[x]) : x \in {x \in Clients : Home[x] = n}}

\* A server has seen what it has handed over; the message it is routing it has seen
\* and not handed over.
HandedSeen ==
  \A n \in Servers :
    /\ Handed(n) \subseteq seen[n]
    /\ cur[n] # None => cur[n].uuid \in seen[n] \ Handed(n)

\* No UUID is seen before it is made.
SeenMade == \A n \in Servers : seen[n] \subseteq {m.uuid : m \in sent}

\* What is handed over is handed over once, and answered after.
HandedOnce ==
  /\ \A x \in Clients :
       /\ AllDifferent(chan[Link(x)][x]) /\ AllDifferent(got[x])
       /\ UuidsIn(chan[Link(x)][x]) \cap UuidsIn(got[x]) = {}
       /\ \A r \in Returns : r.srcsub = x => r.src = Home[x] /\ r.uuidorig \in UuidsIn(got[x])
  /\ \A n \in Servers :
       /\ AllDifferent(mqIn[n])
       /\ \A r \in Returns : r.srcsub \in TcServers /\ r.src = n => r.uuidorig \notin UuidsIn(mqIn[n])

ServiceInv ==
  /\ TablesLead /\ UuidsName /\ SeenMade /\ UnderWayMade /\ ReachAddressee /\ Origins
  /\ HandedSeen /\ HandedOnce
-----------------------------------------------------------------------------
(* Queues *)

\* What a queue holds after it is written to or read from.
LEMMA QueueFacts ==
  ASSUME NEW q \in Seq(Messages), NEW m \in Messages
  PROVE  /\ Elems(<<>>) = {} /\ UuidsIn(<<>>) = {} /\ AllDifferent(<<>>)
         /\ Elems(Append(q, m)) = Elems(q) \cup {m}
         /\ UuidsIn(Append(q, m)) = UuidsIn(q) \cup {m.uuid}
         /\ AllDifferent(q) /\ m.uuid \notin UuidsIn(q) => AllDifferent(Append(q, m))
<1>1. Elems(<<>>) = {} /\ UuidsIn(<<>>) = {} /\ AllDifferent(<<>>)
  BY DEF Elems, UuidsIn, AllDifferent
<1>2. /\ Len(Append(q, m)) = Len(q) + 1 /\ Len(q) \in Nat
      /\ \A k \in 1..Len(q) : Append(q, m)[k] = q[k]
      /\ Append(q, m)[Len(q) + 1] = m
  OBVIOUS
<1>3. Elems(Append(q, m)) = Elems(q) \cup {m}
  BY <1>2 DEF Elems
<1>4. UuidsIn(Append(q, m)) = UuidsIn(q) \cup {m.uuid}
  BY <1>2 DEF UuidsIn
<1>5. ASSUME AllDifferent(q), m.uuid \notin UuidsIn(q)
      PROVE  AllDifferent(Append(q, m))
  BY <1>2, <1>5 DEF AllDifferent, UuidsIn
<1> QED
  BY <1>1, <1>3, <1>4, <1>5

LEMMA HeadFacts ==
  ASSUME NEW q \in Seq(Messages), q # <<>>
  PROVE  /\ Head(q) \in Elems(q) /\ Head(q).uuid \in UuidsIn(q)
         /\ Elems(Tail(q)) \subseteq Elems(q)
         /\ UuidsIn(Tail(q)) \subseteq UuidsIn(q)
         /\ AllDifferent(q) => AllDifferent(Tail(q)) /\ Head(q).uuid \notin UuidsIn(Tail(q))
<1>1. /\ Len(q) \in Nat /\ Len(q) > 0 /\ Len(Tail(q)) = Len(q) - 1 /\ Head(q) = q[1]
      /\ \A k \in 1..Len(Tail(q)) : Tail(q)[k] = q[k + 1]
  OBVIOUS
<1> QED
  BY <1>1 DEF Elems, UuidsIn, AllDifferent

\* The UUIDs in a queue are those of its messages.
LEMMA UuidsOfElems ==
  ASSUME NEW q
  PROVE  UuidsIn(q) = {m.uuid : m \in Elems(q)}
  BY DEF UuidsIn, Elems
-----------------------------------------------------------------------------
(* UUIDs and tables *)

\* A fresh UUID is nobody's yet (OSSP::uuid::make).
LEMMA FreshNew ==
  ASSUME TypeInv, UuidsName, NEW i \in Ids, NEW k \in Nat, k >= clock[i]
  PROVE  /\ \A m \in sent : m.uuid # <<i, k>>
         /\ SeenMade => \A n \in Servers : <<i, k>> \notin seen[n]
         /\ HandedSeen /\ SeenMade => \A n \in Servers : <<i, k>> \notin Handed(n)
<1>1. ASSUME NEW m \in sent, m.uuid = <<i, k>> PROVE FALSE
  <2>1. m.uuid[1] = i /\ m.uuid[2] = k
    BY <1>1
  <2>2. k < clock[i] /\ clock[i] \in Nat
    BY <2>1 DEF UuidsName, TypeInv, TypeOK
  <2> QED
    BY <2>2
<1> QED
  BY <1>1 DEF SeenMade, HandedSeen

\* A message with a fresh UUID keeps UUIDs unique.
LEMMA TickUuids ==
  ASSUME TypeInv, UuidsName, NEW i \in Ids, NEW m, m.uuid = Fresh(i), Tick(i, m)
  PROVE  UuidsName'
<1>1. /\ clock' = [clock EXCEPT ![i] = @ + 1] /\ sent' = sent \cup {m}
      /\ m.uuid = <<i, clock[i]>> /\ clock \in [Ids -> Nat] /\ sent \subseteq Messages
  BY DEF Tick, Fresh, TypeInv, TypeOK
<1>2. \A x \in sent : x.uuid # m.uuid
  BY <1>1, FreshNew
<1>3. ASSUME NEW x \in sent' PROVE x.uuid[2] < clock'[x.uuid[1]]
  <2>1. CASE x = m
    BY <1>1, <2>1
  <2>2. CASE x \in sent
    <3>1. x.uuid \in Ids \X Nat
      BY <1>1, <2>2 DEF Messages, UUIDs
    <3>2. x.uuid[1] \in Ids /\ x.uuid[2] \in Nat /\ x.uuid[2] < clock[x.uuid[1]]
      BY <2>2, <3>1 DEF UuidsName
    <3> QED
      BY <1>1, <3>2
  <2> QED
    BY <1>1, <2>1, <2>2
<1>4. \A x, y \in sent' : x.uuid = y.uuid => x = y
  BY <1>1, <1>2 DEF UuidsName
<1> QED
  BY <1>3, <1>4 DEF UuidsName

\* So do the answers of a tc-server.
LEMMA TcsUuids ==
  ASSUME TypeInv, UuidsName, NEW n \in Servers, TcsReceive(n)
  PROVE  UuidsName'
<1> DEFINE m == Head(mqIn[n])
           s == TcsStatuses(m)
           i == TcId[n]
           replies == [k \in 1..Len(s) |-> ReplyTo(m, <<i, clock[i] + k - 1>>, i, n, s[k])]
<1>1. i \in Ids /\ clock \in [Ids -> Nat] /\ clock[i] \in Nat /\ sent \subseteq Messages
  BY ConfigAssumption DEF Ids, TypeInv, TypeOK
<1>2. /\ clock' = [clock EXCEPT ![i] = @ + Len(s)]
      /\ sent' = sent \cup {replies[k] : k \in 1..Len(s)}
  BY DEF TcsReceive
<1>3. Len(s) \in Nat
  BY StatusesType
<1>4. \A k \in 1..Len(s) : replies[k].uuid = <<i, clock[i] + k - 1>>
  BY DEF ReplyTo
<1> HIDE DEF replies, s, i
<1>5. ASSUME NEW k \in 1..Len(s)
      PROVE  /\ \A x \in sent : x.uuid # replies[k].uuid
             /\ replies[k].uuid[2] < clock'[replies[k].uuid[1]]
  <2>1. clock[i] + k - 1 \in Nat /\ clock[i] + k - 1 >= clock[i]
    BY <1>1, <1>3
  <2>2. \A x \in sent : x.uuid # replies[k].uuid
    BY <1>1, <1>4, <2>1, FreshNew
  <2>3. clock'[i] = clock[i] + Len(s)
    BY <1>1, <1>2
  <2>4. clock[i] + k - 1 < clock[i] + Len(s)
    BY <1>1, <1>3
  <2>5. replies[k].uuid[1] = i /\ replies[k].uuid[2] = clock[i] + k - 1
    BY <1>4
  <2> QED
    BY <2>2, <2>3, <2>4, <2>5
<1>6. ASSUME NEW x \in sent' PROVE x.uuid[2] < clock'[x.uuid[1]]
  <2>1. CASE x \in sent
    <3>1. x.uuid \in Ids \X Nat
      BY <1>1, <2>1 DEF Messages, UUIDs
    <3>2. x.uuid[1] \in Ids /\ x.uuid[2] \in Nat /\ x.uuid[2] < clock[x.uuid[1]]
      BY <2>1, <3>1 DEF UuidsName
    <3>3. clock'[x.uuid[1]] >= clock[x.uuid[1]] /\ clock'[x.uuid[1]] \in Nat
      BY <1>1, <1>2, <1>3, <3>2
    <3> QED
      BY <1>1, <3>2, <3>3
  <2> QED
    BY <1>2, <1>5, <2>1
<1>7. ASSUME NEW j \in 1..Len(s), NEW k \in 1..Len(s), replies[j].uuid = replies[k].uuid
      PROVE  j = k
  <2>1. clock[i] + j - 1 = clock[i] + k - 1
    BY <1>4, <1>7
  <2> QED
    BY <1>1, <1>3, <2>1
<1>8. \A x, y \in sent' : x.uuid = y.uuid => x = y
  BY <1>2, <1>5, <1>7 DEF UuidsName
<1> QED
  BY <1>6, <1>8 DEF UuidsName

\* Every step keeps UUIDs unique: it makes no message, or one with a fresh UUID, or it
\* is a tc-server's.
LEMMA UuidsStep == TypeInv /\ UuidsName /\ [Next]_vars => UuidsName'
<1> SUFFICES ASSUME TypeInv, UuidsName, [Next]_vars PROVE UuidsName'
  OBVIOUS
<1>1. ASSUME UNCHANGED <<clock, sent>> PROVE UuidsName'
  BY <1>1 DEF UuidsName
<1>2. ASSUME NEW n \in Servers, ServerStep(n) PROVE UuidsName'
  <2>0. n \in Ids
    BY DEF Ids
  <2>1. CASE Start(n)
    <3> DEFINE m == NewMsg(Fresh(n), "CALL", Self, n, TcId[n], n, "mqRegister")
    <3>1. Tick(n, m)
      BY <2>1 DEF Start
    <3>2. m.uuid = Fresh(n)
      BY DEF NewMsg
    <3> HIDE DEF m
    <3> QED
      BY <2>0, <3>1, <3>2, TickUuids
  <2>2. CASE Top(n)
    <3> DEFINE m == NewMsg(Fresh(n), "EVENT", Self, n, Self, Bcast, "bcastIP_PORT")
    <3>1. Tick(n, m) \/ UNCHANGED <<clock, sent>>
      BY <2>2 DEF Top
    <3>2. m.uuid = Fresh(n)
      BY DEF NewMsg
    <3> HIDE DEF m
    <3> QED
      BY <1>1, <2>0, <3>1, <3>2, TickUuids
  <2>3. CASE Receive(n)
    <3>1. PICK c \in todo[n] \cap authOK[n] :
            \/ Tick(n, ReplyTo(Arrived(n, c), Fresh(n), Self, n, "OK"))
            \/ UNCHANGED <<clock, sent>>
      BY <2>3 DEF Receive, ReceiveAgain, ReceiveLink, ReceivePing, ReceiveUnknown, ReceiveOther
    <3> DEFINE m == ReplyTo(Arrived(n, c), Fresh(n), Self, n, "OK")
    <3>2. m.uuid = Fresh(n)
      BY DEF ReplyTo
    <3> HIDE DEF m
    <3> QED
      BY <1>1, <2>0, <3>1, <3>2, TickUuids DEF m
  <2>4. CASE DrainMQ(n) \/ Accept(n) \/ Flood(n) \/ Close(n)
    BY <1>1, <2>4 DEF DrainMQ, Accept, Flood, Close
  <2> QED
    BY <1>2, <2>1, <2>2, <2>3, <2>4 DEF ServerStep, LoopStep
<1>3. ASSUME NEW n \in Servers, TcsStep(n) PROVE UuidsName'
  BY <1>1, <1>3, TcsUuids DEF TcsStep, TcsSend
<1>4. ASSUME NEW c \in Conns, Handshake(c) PROVE UuidsName'
  BY <1>1, <1>4 DEF Handshake, LogIn, LogInFails, Orphaned
<1>5. ASSUME NEW x \in Clients, ClientStep(x) PROVE UuidsName'
  <2>0. x \in Ids
    BY DEF Ids
  <2>1. CASE ClientCall(x)
    <3>1. PICK t \in Targets[x], method \in Calls :
            Tick(x, NewMsg(Fresh(x), "CALL", x, Home[x], t[1], t[2], method))
      BY <2>1 DEF ClientCall
    <3>2. NewMsg(Fresh(x), "CALL", x, Home[x], t[1], t[2], method).uuid = Fresh(x)
      BY DEF NewMsg
    <3> QED
      BY <2>0, <3>1, <3>2, TickUuids
  <2>2. CASE ClientReceive(x)
    <3> DEFINE m == ReplyTo(Head(chan[<<x, Home[x]>>][x]), Fresh(x), x, Home[x], "OK")
    <3>1. Tick(x, m) \/ UNCHANGED <<clock, sent>>
      BY <2>2 DEF ClientReceive
    <3>2. m.uuid = Fresh(x)
      BY DEF ReplyTo
    <3> HIDE DEF m
    <3> QED
      BY <1>1, <2>0, <3>1, <3>2, TickUuids
  <2>3. CASE Connect(x) \/ ClientQuit(x)
    BY <1>1, <2>3 DEF Connect, ClientQuit
  <2> QED
    BY <1>5, <2>1, <2>2, <2>3 DEF ClientStep
<1>6. CASE UNCHANGED vars
  BY <1>1, <1>6 DEF vars
<1> QED
  BY <1>2, <1>3, <1>4, <1>5, <1>6 DEF Next

\* Every step keeps the tables: a server enters its tc-server when it starts, and both
\* ends of a connection enter each other when it is established.
LEMMA TablesStep == TypeInv /\ TablesLead /\ [Next]_vars => TablesLead'
<1> SUFFICES ASSUME TypeInv, TablesLead, [Next]_vars PROVE TablesLead'
  OBVIOUS
<1>1. CASE UNCHANGED routes
  BY <1>1 DEF TablesLead
<1>2. ASSUME NEW n \in Servers, Start(n) PROVE TablesLead'
  <2>1. routes' = [routes EXCEPT ![n] = [@ EXCEPT ![TcId[n]] = MQ]]
        /\ routes \in [Servers -> RouteType]
    BY <1>2 DEF Start, TypeInv, TypeOK, RouteType
  <2> QED
    BY <2>1 DEF TablesLead, RouteType
<1>3. ASSUME NEW c \in Conns, LogIn(c) PROVE TablesLead'
  <2> DEFINE a == c[1]
             b == c[2]
  <2>1. \A n \in Servers : routes'[n] = IF n = b THEN [routes[b] EXCEPT ![a] = c]
                                        ELSE IF n = a THEN [routes[a] EXCEPT ![b] = c]
                                        ELSE routes[n]
    BY <1>3 DEF LogIn
  <2>2. routes \in [Servers -> RouteType] /\ c = <<a, b>> /\ c # MQ
    <3>1. c = <<a, b>>
      BY <1>3 DEF Conns
    <3>2. c # MQ
      BY <1>3, ConfigAssumption DEF Conns
    <3> QED
      BY <3>1, <3>2 DEF TypeInv, TypeOK, RouteType
  <2> HIDE DEF a, b
  <2>3. ASSUME NEW n \in Servers, NEW i \in Ids
        PROVE  routes'[n][i] = routes[n][i] \/ (routes'[n][i] = c /\ c \in {<<n, i>>, <<i, n>>})
    BY <2>1, <2>2 DEF RouteType
  <2> QED
    BY <2>2, <2>3 DEF TablesLead
<1>4. CASE UNCHANGED vars
  BY <1>1, <1>4 DEF vars, srvVars
<1>5. ASSUME NEW n \in Servers, LoopStep(n) \/ TcsStep(n) PROVE UNCHANGED routes
  BY <1>5 DEF LoopStep, Top, DrainMQ, Accept, Receive, Flood, Close, TcsStep, TcsReceive,
              TcsSend, srvVars
<1>6. ASSUME NEW c \in Conns, LogInFails(c) \/ Orphaned(c) PROVE UNCHANGED routes
  BY <1>6 DEF LogInFails, Orphaned
<1>7. ASSUME NEW x \in Clients, ClientStep(x) PROVE UNCHANGED routes
  BY <1>7 DEF ClientStep, Connect, ClientCall, ClientReceive, ClientQuit, srvVars
<1> QED
  BY <1>1, <1>2, <1>3, <1>4, <1>5, <1>6, <1>7 DEF Next, ServerStep, Handshake
-----------------------------------------------------------------------------
(* What a step does with messages *)

\* A step of server n, or of what it is attached to, that hands the messages M over to
\* a client or to the tc-server of n: messages that were not handed over before and
\* that n has seen.  What else is under way stays, is lost, or was made.
Learns ==
  /\ sent \subseteq sent' /\ \A r \in sent' : IsReturn(r) /\ r.srcsub # Self => r \in sent
  /\ \A k \in Servers : /\ seen[k] \subseteq seen'[k]
                        /\ seen'[k] \subseteq seen[k] \cup {m.uuid : m \in sent'}

Forwards(n, M) ==
  /\ Learns
  /\ M \subseteq sent'
  /\ \A m \in M : m.uuid \in seen'[n] \ Handed(n)
  /\ \A c \in Conns, e \in Ends :
       \/ chan'[c][e] \in {chan[c][e], <<>>}
       \/ e \in Servers /\ chan[c][e] # <<>> /\ chan'[c][e] = Tail(chan[c][e])
       \/ e \in Servers /\ \E m \in sent' : chan'[c][e] = Append(chan[c][e], m)
       \/ /\ e \in Clients /\ Home[e] = n /\ c = Link(e)
          /\ \E m \in M : IsFor(e, m) /\ chan'[c][e] = Append(chan[c][e], m)
  /\ \A k \in Servers :
       \/ mqIn'[k] = mqIn[k]
       \/ k = n /\ \E m \in M : IsForTcs(n, m) /\ mqIn'[n] = Append(mqIn[n], m)
  /\ \A k \in Servers : Elems(mqOut'[k]) \cup Elems(tcs'[k]) \subseteq sent'
  /\ \A k \in Servers :
       cur'[k] # None => /\ cur'[k] \in sent' /\ cur'[k].uuid \in seen'[k] \ Handed(k)
                         /\ k = n => \A m \in M : m.uuid # cur'[k].uuid
  /\ got' = got

\* What SendOn does to the channels: it loses what n has yet to read or writes m to
\* peers, and to a client only what is for it (sendData, through localRoutes).
LEMMA SendOnReaches ==
  ASSUME TypeInv, TablesLead, NEW n \in Servers, NEW ch \in ChanType, NEW m \in Messages,
         NEW label, NEW rest, NEW keep, SendOn(n, ch, m, label, rest, keep)
  PROVE  /\ \A c \in Conns, e \in Ends :
              \/ chan'[c][e] \in {ch[c][e], <<>>}
              \/ e \in Servers /\ e # n /\ chan'[c][e] = Append(ch[c][e], m)
              \/ /\ e \in Clients /\ Home[e] = n /\ c = Link(e) /\ IsFor(e, m)
                 /\ chan'[c][e] = Append(ch[c][e], m)
         /\ cur'[n] \in {None, keep}
         /\ \A k \in Servers : k # n => cur'[k] = cur[k]
<1> DEFINE hops == NextHops(n, m, routes[n]) \ TcServers
           conns == {routes[n][i] : i \in hops}
<1>1. PICK S \in SUBSET conns : \/ chan' = Post(ch, S, n, m)
                               \/ \E d \in {ch, Post(ch, S, n, m)} :
                                    chan' = [c \in Conns |-> [d[c] EXCEPT ![n] = <<>>]]
  <2>1. CASE Die(n, ch)
    BY <2>1 DEF Die
  <2>2. CASE chan' = Post(ch, {c \in {x \in conns : n \notin closed[x]} :
                                 Other(c, n) \notin closed[c]}, n, m)
    BY <2>2
  <2>3. CASE \E S \in SUBSET {c \in {x \in conns : n \notin closed[x]} :
                                 Other(c, n) \notin closed[c]} : Die(n, Post(ch, S, n, m))
    BY <2>3 DEF Die
  <2> QED
    BY <2>1, <2>2, <2>3 DEF SendOn
<1>2. ASSUME NEW i \in hops
      PROVE  /\ i \in Ends
             /\ i \in Clients => \/ IsLocal(n, m, routes[n]) /\ i = m.dstsub
                                 \/ m.dst = i
  <2>1. m.dst \in Ids \cup {Bcast} /\ m.dstsub \in Ids \cup {Self}
    BY DEF Messages
  <2> QED
    BY <2>1, IdsAssumption DEF NextHops, IsLocal, IsDirect, Ends, Ids
<1> HIDE DEF hops
<1>3. ASSUME NEW c \in Conns, c \in conns
      PROVE  LET e == Other(c, n) IN
             /\ e \in Ends /\ e # n
             /\ e \in Clients => Home[e] = n /\ c = Link(e) /\ IsFor(e, m)
  <2>1. PICK i \in hops : c = routes[n][i]
    BY <1>3
  <2>2. i \in Ends /\ i \in Ids /\ c # MQ /\ c # None
    BY <1>2, ConfigAssumption DEF Ends, Ids
  <2>3. c \in {<<n, i>>, <<i, n>>}
    BY <2>1, <2>2 DEF TablesLead
  <2>4. Other(c, n) = i /\ i # n
    BY <2>3 DEF Other, Conns
  <2>5. CASE i \in Clients
    <3>1. c = <<i, n>> /\ Home[i] = n
      BY <2>3, <2>5, IdsAssumption DEF Conns
    <3> QED
      BY <1>2, <2>2, <2>4, <2>5, <3>1 DEF Link, IsFor, IsLocal
  <2> QED
    BY <2>2, <2>4, <2>5
<1>4. ASSUME NEW c \in Conns, NEW e \in Ends
      PROVE  LET p == Post(ch, S, n, m)
             IN \/ p[c][e] = ch[c][e]
                \/ e \in Servers /\ e # n /\ p[c][e] = Append(ch[c][e], m)
                \/ /\ e \in Clients /\ Home[e] = n /\ c = Link(e) /\ IsFor(e, m)
                   /\ p[c][e] = Append(ch[c][e], m)
  <2> DEFINE p == Post(ch, S, n, m)
  <2>1. p[c] = IF c \in S THEN [ch[c] EXCEPT ![Other(c, n)] = Append(@, m)] ELSE ch[c]
    BY DEF Post
  <2>2. ch[c] \in [Ends -> Seq(Messages)]
    BY DEF ChanType
  <2> HIDE DEF p
  <2>3. p[c][e] = IF c \in S /\ e = Other(c, n) THEN Append(ch[c][e], m) ELSE ch[c][e]
    BY <2>1, <2>2
  <2> QED
    BY <1>3, <2>3 DEF Ends, p
<1>5. Post(ch, S, n, m) \in ChanType
  BY PostType
<1>6. ASSUME NEW c \in Conns, NEW e \in Ends, NEW d \in ChanType
      PROVE  [d[c] EXCEPT ![n] = <<>>][e] \in {d[c][e], <<>>}
  <2>1. d[c] \in [Ends -> Seq(Messages)]
    BY DEF ChanType
  <2> QED
    BY <2>1
<1>7. \A c \in Conns, e \in Ends :
        \/ chan'[c][e] \in {ch[c][e], <<>>}
        \/ e \in Servers /\ e # n /\ chan'[c][e] = Append(ch[c][e], m)
        \/ /\ e \in Clients /\ Home[e] = n /\ c = Link(e) /\ IsFor(e, m)
           /\ chan'[c][e] = Append(ch[c][e], m)
  <2> SUFFICES ASSUME NEW c \in Conns, NEW e \in Ends
               PROVE  \/ chan'[c][e] \in {ch[c][e], <<>>}
                      \/ e \in Servers /\ e # n /\ chan'[c][e] = Append(ch[c][e], m)
                      \/ /\ e \in Clients /\ Home[e] = n /\ c = Link(e) /\ IsFor(e, m)
                         /\ chan'[c][e] = Append(ch[c][e], m)
    OBVIOUS
  <2>1. CASE chan' = Post(ch, S, n, m)
    BY <1>4, <2>1
  <2>2. ASSUME NEW d \in {ch, Post(ch, S, n, m)},
               chan' = [k \in Conns |-> [d[k] EXCEPT ![n] = <<>>]]
        PROVE  chan'[c][e] \in {d[c][e], <<>>}
    BY <1>5, <1>6, <2>2
  <2> QED
    BY <1>1, <1>4, <2>1, <2>2
<1>8. cur'[n] \in {None, keep} /\ \A k \in Servers : k # n => cur'[k] = cur[k]
  <2>1. cur' \in {[cur EXCEPT ![n] = None], [cur EXCEPT ![n] = keep]}
    BY DEF SendOn, Die, GoOn
  <2> QED
    BY <2>1 DEF TypeInv, TypeOK
<1> QED
  BY <1>7, <1>8

\* A server that sends m on forwards it.
LEMMA SendOnForwards ==
  ASSUME TypeInv, ServiceInv, NEW n \in Servers, NEW ch \in ChanType, NEW m \in Messages,
         NEW label, NEW rest, NEW keep, SendOn(n, ch, m, label, rest, keep),
         \A c \in Conns, e \in Ends :
           \/ ch[c][e] = chan[c][e]
           \/ e = n /\ chan[c][e] # <<>> /\ ch[c][e] = Tail(chan[c][e]),
         Learns, m \in sent', m.uuid \in seen'[n] \ Handed(n),
         keep # None => keep \in sent' /\ keep.uuid \in seen'[n] \ Handed(n) /\ keep.uuid # m.uuid,
         UNCHANGED <<mqIn, tcs, got>>,
         \A k \in Servers : Elems(mqOut'[k]) \subseteq sent'
  PROVE  Forwards(n, {m})
<1>1. ASSUME NEW c \in Conns, NEW e \in Ends
      PROVE  \/ chan'[c][e] \in {chan[c][e], <<>>}
             \/ e \in Servers /\ chan[c][e] # <<>> /\ chan'[c][e] = Tail(chan[c][e])
             \/ e \in Servers /\ \E x \in sent' : chan'[c][e] = Append(chan[c][e], x)
             \/ /\ e \in Clients /\ Home[e] = n /\ c = Link(e)
                /\ \E x \in {m} : IsFor(e, x) /\ chan'[c][e] = Append(chan[c][e], x)
  <2>1. \/ chan'[c][e] \in {ch[c][e], <<>>}
        \/ e \in Servers /\ e # n /\ chan'[c][e] = Append(ch[c][e], m)
        \/ /\ e \in Clients /\ Home[e] = n /\ c = Link(e) /\ IsFor(e, m)
           /\ chan'[c][e] = Append(ch[c][e], m)
    BY SendOnReaches DEF ServiceInv
  <2>2. e # n => ch[c][e] = chan[c][e]
    OBVIOUS
  <2>3. e \in Clients => e # n
    BY IdsAssumption
  <2> QED
    BY <2>1, <2>2, <2>3
<1>2. cur'[n] \in {None, keep} /\ \A k \in Servers : k # n => cur'[k] = cur[k]
  BY SendOnReaches DEF ServiceInv
<1>3. ASSUME NEW k \in Servers, cur'[k] # None
      PROVE  /\ cur'[k] \in sent' /\ cur'[k].uuid \in seen'[k] \ Handed(k)
             /\ k = n => \A x \in {m} : x.uuid # cur'[k].uuid
  <2>1. CASE k = n
    BY <1>2, <1>3, <2>1
  <2>2. CASE k # n
    BY <1>2, <1>3, <2>2 DEF Learns, ServiceInv, UnderWayMade, HandedSeen
  <2> QED
    BY <2>1, <2>2
<1>4. \A k \in Servers : Elems(tcs'[k]) \subseteq sent'
  BY DEF ServiceInv, UnderWayMade, Learns
<1> QED
  BY <1>1, <1>3, <1>4 DEF Forwards

\* A server that sends nothing on hands nothing over.
LEMMA QuietForwards ==
  ASSUME TypeInv, ServiceInv, NEW n \in Servers,
         \A c \in Conns, e \in Ends :
           \/ chan'[c][e] \in {chan[c][e], <<>>}
           \/ e \in Servers /\ chan[c][e] # <<>> /\ chan'[c][e] = Tail(chan[c][e])
           \/ e \in Servers /\ \E m \in sent' : chan'[c][e] = Append(chan[c][e], m),
         \A k \in Servers :
           \/ cur'[k] \in {None, cur[k]}
           \/ k = n /\ cur'[n] \in sent' /\ cur'[n].uuid \in seen'[n] \ Handed(n),
         Learns, UNCHANGED <<mqIn, got>>,
         \A k \in Servers : Elems(mqOut'[k]) \cup Elems(tcs'[k]) \subseteq sent'
  PROVE  Forwards(n, {})
<1>1. ASSUME NEW k \in Servers, cur'[k] # None
      PROVE  cur'[k] \in sent' /\ cur'[k].uuid \in seen'[k] \ Handed(k)
  BY <1>1 DEF Learns, ServiceInv, UnderWayMade, HandedSeen
<1> QED
  BY <1>1 DEF Forwards

\* Popped, Die and Post, end by end.
LEMMA ChanEnds ==
  ASSUME NEW ch \in ChanType, NEW c \in Conns, NEW e \in Ends
  PROVE  /\ \A d \in Conns, x \in Ends :
              [ch EXCEPT ![d][x] = Tail(@)][c][e]
                = IF c = d /\ e = x THEN Tail(ch[c][e]) ELSE ch[c][e]
         /\ \A d \in Conns, x \in Ends :
              [ch EXCEPT ![d][x] = <<>>][c][e] = IF c = d /\ e = x THEN <<>> ELSE ch[c][e]
         /\ \A x : [d \in Conns |-> [ch[d] EXCEPT ![x] = <<>>]][c][e]
                     = IF e = x THEN <<>> ELSE ch[c][e]
         /\ \A S, x, m : Post(ch, S, x, m)[c][e]
                           = IF c \in S /\ e = Other(c, x) THEN Append(ch[c][e], m) ELSE ch[c][e]
<1>1. ch[c] \in [Ends -> Seq(Messages)] /\ DOMAIN ch = Conns
  BY DEF ChanType
<1> QED
  BY <1>1 DEF Post

\* What is queued for servers stays made when the queues do not change.
LEMMA QueuedMade ==
  ASSUME ServiceInv, Learns, UNCHANGED <<mqOut, tcs>>
  PROVE  \A k \in Servers : Elems(mqOut'[k]) \cup Elems(tcs'[k]) \subseteq sent'
  BY DEF ServiceInv, UnderWayMade, Learns

\* Starting hands the registration to the tc-server.
LEMMA StartForwards ==
  ASSUME TypeInv, ServiceInv, NEW n \in Servers, Start(n)
  PROVE  \E M : Forwards(n, M)
<1> DEFINE m == NewMsg(Fresh(n), "CALL", Self, n, TcId[n], n, "mqRegister")
<1>1. /\ m.uuid = <<n, clock[n]>> /\ m.dst = n /\ m.dstsub = TcId[n] /\ m.type = "CALL"
      /\ n \in Ids
  BY DEF NewMsg, Fresh, Ids
<1>2. /\ sent' = sent \cup {m} /\ seen' = [seen EXCEPT ![n] = @ \cup {m.uuid}]
      /\ mqIn' = [mqIn EXCEPT ![n] = Append(@, m)]
      /\ UNCHANGED <<cur, chan, mqOut, tcs, got>>
  BY DEF Start, Tick
<1> HIDE DEF m
<1>3. Learns /\ m.uuid \in seen'[n]
  BY <1>1, <1>2 DEF Learns, IsReturn, TypeInv, TypeOK
<1>4. m.uuid \notin Handed(n)
  <2>1. clock[n] \in Nat
    BY <1>1 DEF TypeInv, TypeOK
  <2> QED
    BY <1>1, <2>1, FreshNew DEF ServiceInv
<1>5. \A x \in sent : x.uuid # m.uuid
  <2>1. clock[n] \in Nat
    BY <1>1 DEF TypeInv, TypeOK
  <2> QED
    BY <1>1, <2>1, FreshNew DEF ServiceInv
<1>6. \A k \in Servers : \/ mqIn'[k] = mqIn[k]
                         \/ k = n /\ IsForTcs(n, m) /\ mqIn'[n] = Append(mqIn[n], m)
  BY <1>1, <1>2 DEF IsForTcs, TypeInv, TypeOK
<1>7. ASSUME NEW k \in Servers, cur'[k] # None
      PROVE  /\ cur'[k] \in sent' /\ cur'[k].uuid \in seen'[k] \ Handed(k)
             /\ k = n => \A x \in {m} : x.uuid # cur'[k].uuid
  BY <1>2, <1>3, <1>5, <1>7 DEF Learns, ServiceInv, UnderWayMade, HandedSeen
<1>8. \A k \in Servers : Elems(mqOut'[k]) \cup Elems(tcs'[k]) \subseteq sent'
  BY <1>2, <1>3, QueuedMade
<1>9. Forwards(n, {m})
  BY <1>2, <1>3, <1>4, <1>6, <1>7, <1>8 DEF Forwards
<1> QED
  BY <1>9

\* Broadcasting hands over nothing that was handed over before.
LEMMA TopForwards ==
  ASSUME TypeInv, ServiceInv, NEW n \in Servers, Top(n)
  PROVE  \E M : Forwards(n, M)
<1> DEFINE m == NewMsg(Fresh(n), "EVENT", Self, n, Self, Bcast, "bcastIP_PORT")
<1>1. m.uuid = <<n, clock[n]>> /\ m.type = "EVENT" /\ n \in Ids /\ m \in Messages
  BY FreshType, NewMsgType DEF NewMsg, Fresh, Ids, TypeInv, Types, Methods
<1>2. UNCHANGED <<mqIn, mqOut, tcs, got>> /\ chan \in ChanType
  BY DEF Top, mqVars, TypeInv, TypeOK, ChanType
<1>3. CASE Tick(n, m) /\ seen' = [seen EXCEPT ![n] = @ \cup {m.uuid}]
           /\ SendOn(n, chan, m, "mq", Ready(n), None)
  <2> HIDE DEF m
  <2>1. sent' = sent \cup {m}
    BY <1>3 DEF Tick
  <2>2. Learns /\ m.uuid \in seen'[n]
    BY <1>1, <1>3, <2>1 DEF Learns, IsReturn, TypeInv, TypeOK
  <2>3. m.uuid \notin Handed(n)
    <3>1. clock[n] \in Nat
      BY <1>1 DEF TypeInv, TypeOK
    <3> QED
      BY <1>1, <3>1, FreshNew DEF ServiceInv
  <2>4. \A k \in Servers : Elems(mqOut'[k]) \subseteq sent'
    BY <1>2, <2>2, QueuedMade
  <2>5. Forwards(n, {m})
    BY <1>1, <1>2, <1>3, <2>1, <2>2, <2>3, <2>4, SendOnForwards
  <2> QED
    BY <2>5
<1>4. CASE GoOn(n, "mq", Ready(n), None) /\ UNCHANGED <<seen, closed, chan, clock, sent>>
  <2>1. Learns
    BY <1>4 DEF Learns
  <2>2. \A k \in Servers : Elems(mqOut'[k]) \cup Elems(tcs'[k]) \subseteq sent'
    BY <1>2, <2>1, QueuedMade
  <2>3. \A k \in Servers : cur'[k] \in {None, cur[k]}
    BY <1>4 DEF GoOn, TypeInv, TypeOK
  <2>4. Forwards(n, {})
    BY <1>2, <1>4, <2>1, <2>2, <2>3, QuietForwards
  <2> QED
    BY <2>4
<1> QED
  BY <1>3, <1>4 DEF Top

\* A message taken from the tc-server goes on unless it was seen before.
LEMMA DrainMQForwards ==
  ASSUME TypeInv, ServiceInv, NEW n \in Servers, DrainMQ(n)
  PROVE  \E M : Forwards(n, M)
<1>1. UNCHANGED <<mqIn, tcs, got, sent>> /\ chan \in ChanType /\ mqOut \in [Servers -> Seq(Messages)]
  BY DEF DrainMQ, TypeInv, TypeOK, ChanType
<1>2. CASE mqOut[n] = <<>>
  <2>1. UNCHANGED <<seen, chan, mqOut>> /\ Learns
    BY <1>1, <1>2 DEF DrainMQ, Learns
  <2>2. \A k \in Servers : Elems(mqOut'[k]) \cup Elems(tcs'[k]) \subseteq sent'
    BY <1>1, <2>1, QueuedMade
  <2>3. \A k \in Servers : cur'[k] \in {None, cur[k]}
    BY <1>2 DEF DrainMQ, GoOn, TypeInv, TypeOK
  <2>4. Forwards(n, {})
    BY <1>1, <2>1, <2>2, <2>3, QuietForwards
  <2> QED
    BY <2>4
<1>3. CASE mqOut[n] # <<>>
  <2> DEFINE m == Head(mqOut[n])
  <2>0. /\ mqOut' = [mqOut EXCEPT ![n] = Tail(@)]
        /\ seen' = [seen EXCEPT ![n] = @ \cup {m.uuid}]
        /\ \/ Dropped(n, m) /\ UNCHANGED <<cur, chan>>
           \/ ~Dropped(n, m) /\ SendOn(n, chan, m, AfterMQ(todo[n]), todo[n], None)
    BY <1>3 DEF DrainMQ
  <2>1. m \in sent /\ Elems(Tail(mqOut[n])) \subseteq sent
    <3>1. mqOut[n] \in Seq(Messages)
      BY <1>1
    <3> QED
      BY <1>3, <3>1, HeadFacts DEF ServiceInv, UnderWayMade
  <2>2. m \in Messages
    BY <2>1 DEF TypeInv, TypeOK
  <2> HIDE DEF m
  <2>3. Learns /\ m.uuid \in seen'[n]
    BY <1>1, <2>0, <2>1 DEF Learns, TypeInv, TypeOK
  <2>4. \A k \in Servers : Elems(mqOut'[k]) \cup Elems(tcs'[k]) \subseteq sent'
    BY <1>1, <2>0, <2>1 DEF ServiceInv, UnderWayMade
  <2>5. CASE UNCHANGED <<cur, chan>>
    <3>1. Forwards(n, {})
      BY <1>1, <2>3, <2>4, <2>5, QuietForwards
    <3> QED
      BY <3>1
  <2>6. CASE ~Dropped(n, m) /\ SendOn(n, chan, m, AfterMQ(todo[n]), todo[n], None)
    <3>1. m.uuid \notin Handed(n)
      BY <2>6 DEF Dropped, ServiceInv, HandedSeen
    <3>2. Forwards(n, {m})
      BY <1>1, <2>1, <2>2, <2>3, <2>4, <2>6, <3>1, SendOnForwards
    <3> QED
      BY <3>2
  <2> QED
    BY <2>0, <2>5, <2>6
<1> QED
  BY <1>2, <1>3

\* Receiving hands over nothing but the answer to a ping; a message that is kept to go
\* on is a new one.
LEMMA ReceiveForwards ==
  ASSUME TypeInv, ServiceInv, NEW n \in Servers, Receive(n)
  PROVE  \E M : Forwards(n, M)
<1>1. PICK c \in todo[n] \cap authOK[n] :
        /\ chan[c][n] # <<>>
        /\ \/ ReceiveAgain(n, c, todo[n] \ {c}) \/ ReceiveLink(n, c, todo[n] \ {c})
           \/ ReceivePing(n, c, todo[n] \ {c}) \/ ReceiveUnknown(n, c, todo[n] \ {c})
           \/ ReceiveOther(n, c, todo[n] \ {c})
  BY DEF Receive
<1> DEFINE m == Arrived(n, c)
           ch == Popped(n, c)
           r == ReplyTo(m, Fresh(n), Self, n, "OK")
<1>2. /\ c \in Conns /\ n \in Ends /\ n \in Ids /\ chan \in ChanType
      /\ UNCHANGED <<mqIn, mqOut, tcs, got>>
  BY DEF Receive, mqVars, TypeInv, TypeOK, ChanType, Ends, Ids
<1>3. m \in sent /\ m \in Messages /\ ch \in ChanType
  <2>1. chan[c][n] \in Seq(Messages)
    BY <1>2 DEF ChanType
  <2>2. m \in sent
    BY <1>1, <1>2, <2>1, HeadFacts DEF Arrived, ServiceInv, UnderWayMade
  <2> QED
    BY <1>1, <1>2, <2>2, PopType DEF Popped, TypeInv, TypeOK
<1>4. \A d \in Conns, e \in Ends :
        \/ ch[d][e] = chan[d][e]
        \/ e = n /\ chan[d][e] # <<>> /\ ch[d][e] = Tail(chan[d][e])
  BY <1>1, <1>2, ChanEnds DEF Popped
<1>5. r.uuid = <<n, clock[n]>> /\ r.srcsub = Self /\ r \in Messages
  BY <1>2, <1>3, FreshType, ReplyType DEF ReplyTo, Fresh, TypeInv, Statuses
<1>6. CASE ReceivePing(n, c, todo[n] \ {c})
  <2>1. /\ ~Dropped(n, m) /\ sent' = sent \cup {r}
        /\ seen' = [seen EXCEPT ![n] = @ \cup {m.uuid, r.uuid}]
        /\ SendOn(n, ch, r, "flood", todo[n] \ {c}, m)
    BY <1>6 DEF ReceivePing, Tick, Mark
  <2>2. clock[n] \in Nat
    BY <1>2 DEF TypeInv, TypeOK
  <2> HIDE DEF m, ch, r
  <2>3. r.uuid \notin Handed(n) /\ m.uuid \notin Handed(n) /\ m.uuid # r.uuid
    BY <1>2, <1>3, <1>5, <2>1, <2>2, FreshNew DEF Dropped, ServiceInv, HandedSeen
  <2>4. Learns /\ m.uuid \in seen'[n] /\ r.uuid \in seen'[n]
    BY <1>3, <1>5, <2>1 DEF Learns, TypeInv, TypeOK
  <2>5. \A k \in Servers : Elems(mqOut'[k]) \subseteq sent'
    BY <1>2, <2>4, QueuedMade
  <2>6. Forwards(n, {r})
    BY <1>2, <1>3, <1>4, <1>5, <2>1, <2>3, <2>4, <2>5, SendOnForwards
  <2> QED
    BY <2>6
<1>7. ASSUME UNCHANGED sent,
             seen' = seen \/ seen' = [seen EXCEPT ![n] = @ \cup {m.uuid}],
             chan' = ch \/ Die(n, ch),
             \/ cur' = [cur EXCEPT ![n] = None]
             \/ ~Dropped(n, m) /\ seen' # seen /\ cur' = [cur EXCEPT ![n] = m]
      PROVE  Forwards(n, {})
  <2> HIDE DEF m, ch
  <2>1. Learns
    <3>1. \A k \in Servers : seen[k] \subseteq seen'[k] /\ seen'[k] \subseteq seen[k] \cup {m.uuid}
      <4>1. DOMAIN seen = Servers
        BY DEF TypeInv, TypeOK
      <4> QED
        BY <1>7, <4>1
    <3>2. \A k \in Servers : seen'[k] \subseteq seen[k] \cup {x.uuid : x \in sent'}
      BY <1>3, <1>7, <3>1
    <3> QED
      BY <1>7, <3>1, <3>2 DEF Learns
  <2>2. \A k \in Servers : Elems(mqOut'[k]) \cup Elems(tcs'[k]) \subseteq sent'
    BY <1>2, <2>1, QueuedMade
  <2>3. ASSUME NEW k \in Servers
        PROVE  \/ cur'[k] \in {None, cur[k]}
               \/ k = n /\ cur'[n] \in sent' /\ cur'[n].uuid \in seen'[n] \ Handed(n)
    <3>1. CASE cur' = [cur EXCEPT ![n] = None]
      BY <3>1 DEF TypeInv, TypeOK
    <3>2. CASE ~Dropped(n, m) /\ seen' # seen /\ cur' = [cur EXCEPT ![n] = m]
      BY <1>3, <1>7, <3>2 DEF Dropped, ServiceInv, HandedSeen, TypeInv, TypeOK
    <3> QED
      BY <1>7, <3>1, <3>2
  <2>4. ASSUME NEW d \in Conns, NEW e \in Ends
        PROVE  \/ chan'[d][e] \in {chan[d][e], <<>>}
               \/ e \in Servers /\ chan[d][e] # <<>> /\ chan'[d][e] = Tail(chan[d][e])
    <3>1. chan'[d][e] \in {ch[d][e], <<>>}
      <4>1. CASE chan' = ch
        BY <4>1
      <4>2. CASE Die(n, ch)
        <5>1. chan' = [x \in Conns |-> [ch[x] EXCEPT ![n] = <<>>]]
          BY <4>2 DEF Die
        <5> QED
          BY <1>3, <5>1, ChanEnds
      <4> QED
        BY <1>7, <4>1, <4>2
    <3> QED
      BY <1>4, <3>1
  <2> QED
    BY <1>2, <2>1, <2>2, <2>3, <2>4, QuietForwards
<1>8. CASE ReceiveAgain(n, c, todo[n] \ {c})
  BY <1>7, <1>8 DEF ReceiveAgain, GoOn
<1>9. CASE ~Dropped(n, m) /\ Mark(n, {m.uuid}) /\ UNCHANGED sent
           /\ \/ chan' = ch /\ \E label, rest : GoOn(n, label, rest, m)
              \/ Die(n, ch)
  <2>1. seen' # seen /\ seen' = [seen EXCEPT ![n] = @ \cup {m.uuid}]
    BY <1>9 DEF Mark, Dropped, TypeInv, TypeOK
  <2> HIDE DEF m, ch
  <2> QED
    BY <1>7, <1>9, <2>1 DEF GoOn, Die
<1> QED
  BY <1>1, <1>6, <1>8, <1>9 DEF ReceiveLink, ReceiveUnknown, ReceiveOther

\* floodRoute() hands over the message the server holds.
LEMMA FloodForwards ==
  ASSUME TypeInv, ServiceInv, NEW n \in Servers, Flood(n)
  PROVE  \E M : Forwards(n, M)
<1> DEFINE m == cur[n]
<1>1. /\ m \in Messages /\ m # None /\ m \in sent /\ m.uuid \in seen[n] \ Handed(n)
      /\ chan \in ChanType /\ UNCHANGED <<mqOut, tcs, got, seen, sent>>
  BY NoneAssumption
     DEF Flood, TypeInv, TypeOK, CurOK, ChanType, ServiceInv, UnderWayMade, HandedSeen
<1>2. Learns
  BY <1>1 DEF Learns
<1>3. \A k \in Servers : Elems(mqOut'[k]) \cup Elems(tcs'[k]) \subseteq sent'
  BY <1>1, <1>2, QueuedMade
<1>4. CASE UNCHANGED mqIn /\ SendOn(n, chan, m, AfterSock(todo[n]), todo[n], None)
  <2> HIDE DEF m
  <2>1. Forwards(n, {m})
    BY <1>1, <1>2, <1>3, <1>4, SendOnForwards
  <2> QED
    BY <2>1
<1>5. CASE /\ IsLocal(n, m, routes[n]) /\ m.dstsub \in TcServers
           /\ mqIn' = [mqIn EXCEPT ![n] = Append(@, m)]
           /\ GoOn(n, AfterSock(todo[n]), todo[n], None)
           /\ UNCHANGED <<closed, chan>>
  <2>1. IsForTcs(n, m)
    <3>1. m.dst = n /\ m.dstsub \in Ids /\ routes[n][m.dstsub] # None
      BY <1>5 DEF IsLocal, Ids
    <3>2. routes[n][m.dstsub] = MQ
      <4>1. routes[n][m.dstsub] \in Conns \cup {MQ, None}
        BY <3>1 DEF TypeInv, TypeOK
      <4>2. <<n, m.dstsub>> \notin Conns /\ <<m.dstsub, n>> \notin Conns
        BY <1>5, IdsAssumption DEF Conns, Ends
      <4> QED
        BY <3>1, <4>1, <4>2 DEF ServiceInv, TablesLead
    <3> QED
      BY <3>1, <3>2 DEF IsForTcs, ServiceInv, TablesLead
  <2>2. cur' = [cur EXCEPT ![n] = None]
    BY <1>5 DEF GoOn
  <2> HIDE DEF m
  <2>3. \A k \in Servers : \/ mqIn'[k] = mqIn[k]
                           \/ k = n /\ IsForTcs(n, m) /\ mqIn'[n] = Append(mqIn[n], m)
    BY <1>5, <2>1 DEF TypeInv, TypeOK
  <2>4. ASSUME NEW k \in Servers, cur'[k] # None
        PROVE  /\ cur'[k] \in sent' /\ cur'[k].uuid \in seen'[k] \ Handed(k) /\ k # n
    BY <1>1, <2>2, <2>4 DEF ServiceInv, UnderWayMade, HandedSeen, TypeInv, TypeOK
  <2>5. Forwards(n, {m})
    BY <1>1, <1>2, <1>3, <1>5, <2>3, <2>4 DEF Forwards
  <2> QED
    BY <2>5
<1> QED
  BY <1>4, <1>5 DEF Flood

\* Accepting, closing and shaking hands move no message, but may lose some.
LEMMA ConnectionForwards ==
  ASSUME TypeInv, ServiceInv, NEW n \in Servers,
         UNCHANGED <<mqIn, mqOut, tcs, got, seen, sent>>,
         \A k \in Servers : cur'[k] \in {None, cur[k]},
         \A c \in Conns, e \in Ends : chan'[c][e] \in {chan[c][e], <<>>}
  PROVE  Forwards(n, {})
<1>1. Learns
  BY DEF Learns
<1>2. \A k \in Servers : Elems(mqOut'[k]) \cup Elems(tcs'[k]) \subseteq sent'
  BY <1>1, QueuedMade
<1> QED
  BY <1>1, <1>2, QuietForwards

LEMMA DieLoses ==
  ASSUME TypeInv, NEW n \in Servers, Die(n, chan)
  PROVE  /\ \A k \in Servers : cur'[k] \in {None, cur[k]}
         /\ \A c \in Conns, e \in Ends : chan'[c][e] \in {chan[c][e], <<>>}
<1>1. cur' = [cur EXCEPT ![n] = None] /\ chan' = [c \in Conns |-> [chan[c] EXCEPT ![n] = <<>>]]
  BY DEF Die, GoOn
<1>2. \A c \in Conns, e \in Ends : chan'[c][e] \in {chan[c][e], <<>>}
  BY <1>1, ChanEnds DEF TypeInv, TypeOK, ChanType
<1> QED
  BY <1>1, <1>2 DEF TypeInv, TypeOK

LEMMA AcceptCloseForwards ==
  ASSUME TypeInv, ServiceInv, NEW n \in Servers, Accept(n) \/ Close(n)
  PROVE  Forwards(n, {})
<1>1. /\ UNCHANGED <<mqIn, mqOut, tcs, got, seen, sent>>
      /\ \A k \in Servers : cur'[k] \in {None, cur[k]}
  BY DEF Accept, Close, GoOn, mqVars, TypeInv, TypeOK
<1>2. \A d \in Conns, e \in Ends : chan'[d][e] \in {chan[d][e], <<>>}
  <2>1. CASE Accept(n)
    BY <2>1 DEF Accept
  <2>2. CASE Close(n)
    <3>1. PICK c \in todo[n] \ {Listen} : chan' = [chan EXCEPT ![c][n] = <<>>]
      BY <2>2 DEF Close
    <3>2. c \in Conns /\ n \in Ends /\ chan \in ChanType
      BY DEF TypeInv, TypeOK, ChanType, Ends
    <3> QED
      BY <3>1, <3>2, ChanEnds
  <2> QED
    BY <2>1, <2>2
<1> QED
  BY <1>1, <1>2, ConnectionForwards

LEMMA HandshakeForwards ==
  ASSUME TypeInv, ServiceInv, NEW c \in Conns, Handshake(c)
  PROVE  Forwards(c[2], {})
<1>1. c[2] \in Servers
  BY DEF Conns
<1>2. UNCHANGED <<mqIn, mqOut, tcs, got, seen, sent>>
  BY DEF Handshake, LogIn, LogInFails, Orphaned, mqVars
<1>3. \/ UNCHANGED <<cur, chan>>
      \/ UNCHANGED chan /\ \A k \in Servers : cur'[k] \in {None, cur[k]}
      \/ \E n \in Servers : Die(n, chan)
  BY <1>1 DEF Handshake, LogIn, LogInFails, Orphaned, GoOn, TypeInv, TypeOK
<1> QED
  BY <1>1, <1>2, <1>3, DieLoses, ConnectionForwards

\* A client that connects, calls or quits is handed nothing.
LEMMA ClientForwards ==
  ASSUME TypeInv, ServiceInv, NEW x \in Clients, Connect(x) \/ ClientCall(x) \/ ClientQuit(x)
  PROVE  Forwards(Home[x], {})
<1>1. /\ Home[x] \in Servers /\ Home[x] \in Ends /\ Link(x) \in Conns
      /\ x \in Ends /\ x \in Ids /\ chan \in ChanType
  BY LinkType DEF Link, TypeInv, TypeOK, ChanType
<1>2. CASE Connect(x)
  BY <1>1, <1>2, ConnectionForwards DEF Connect, mqVars, srvVars
<1>3. CASE ClientQuit(x)
  <2>1. \A c \in Conns, e \in Ends : chan'[c][e] \in {chan[c][e], <<>>}
    BY <1>1, <1>3, ChanEnds DEF ClientQuit, Link
  <2> QED
    BY <1>1, <1>3, <2>1, ConnectionForwards DEF ClientQuit, mqVars, srvVars
<1>4. CASE ClientCall(x)
  <2>1. PICK t \in Targets[x], method \in Calls :
          LET m == NewMsg(Fresh(x), "CALL", x, Home[x], t[1], t[2], method)
          IN Tick(x, m) /\ chan' = ClientWrites(x, chan, m)
    BY <1>4 DEF ClientCall
  <2> DEFINE m == NewMsg(Fresh(x), "CALL", x, Home[x], t[1], t[2], method)
  <2>2. m.type = "CALL" /\ sent' = sent \cup {m} /\ chan' = ClientWrites(x, chan, m)
    BY <2>1 DEF NewMsg, Tick
  <2> HIDE DEF m
  <2>3. UNCHANGED <<mqIn, mqOut, tcs, got, seen, cur>>
    BY <1>4 DEF ClientCall, mqVars, srvVars
  <2>4. Learns
    BY <2>2, <2>3 DEF Learns, IsReturn
  <2>5. \A k \in Servers : Elems(mqOut'[k]) \cup Elems(tcs'[k]) \subseteq sent'
    BY <2>3, <2>4, QueuedMade
  <2>6. ASSUME NEW c \in Conns, NEW e \in Ends
        PROVE  \/ chan'[c][e] \in {chan[c][e], <<>>}
               \/ e \in Servers /\ \E k \in sent' : chan'[c][e] = Append(chan[c][e], k)
    <3>1. Other(Link(x), x) = Home[x]
      BY DEF Other, Link
    <3>2. chan' = chan \/ chan' = Post(chan, {Link(x)}, x, m)
      BY <2>2 DEF ClientWrites, Link
    <3>3. CASE chan' = Post(chan, {Link(x)}, x, m)
      <4>1. chan'[c][e] = IF c \in {Link(x)} /\ e = Other(c, x) THEN Append(chan[c][e], m)
                          ELSE chan[c][e]
        BY <1>1, <3>3, ChanEnds
      <4> QED
        BY <1>1, <2>2, <3>1, <4>1
    <3> QED
      BY <3>2, <3>3
  <2> QED
    BY <1>1, <2>3, <2>4, <2>5, <2>6, QuietForwards
<1> QED
  BY <1>2, <1>3, <1>4

\* The tc-server queues an answer it made.
LEMMA TcsSendForwards ==
  ASSUME TypeInv, ServiceInv, NEW n \in Servers, TcsSend(n)
  PROVE  Forwards(n, {})
<1>1. /\ tcs[n] # <<>> /\ tcs \in [Servers -> Seq(Messages)] /\ mqOut \in [Servers -> Seq(Messages)]
      /\ mqOut' = [mqOut EXCEPT ![n] = Append(@, Head(tcs[n]))]
      /\ tcs' = [tcs EXCEPT ![n] = Tail(@)]
      /\ UNCHANGED <<mqIn, got, seen, sent, cur, chan>>
  BY DEF TcsSend, srvVars, netVars, TypeInv, TypeOK
<1>2. /\ Head(tcs[n]) \in sent /\ Elems(Tail(tcs[n])) \subseteq sent
      /\ Elems(Append(mqOut[n], Head(tcs[n]))) = Elems(mqOut[n]) \cup {Head(tcs[n])}
  <2>1. tcs[n] \in Seq(Messages) /\ mqOut[n] \in Seq(Messages)
    BY <1>1
  <2>2. Head(tcs[n]) \in Elems(tcs[n]) /\ Elems(Tail(tcs[n])) \subseteq Elems(tcs[n])
    BY <1>1, <2>1, HeadFacts
  <2>3. Head(tcs[n]) \in Messages
    BY <1>1, <2>1
  <2> QED
    BY <2>1, <2>2, <2>3, QueueFacts DEF ServiceInv, UnderWayMade
<1>3. \A k \in Servers : Elems(mqOut'[k]) \cup Elems(tcs'[k]) \subseteq sent'
  BY <1>1, <1>2 DEF ServiceInv, UnderWayMade
<1>4. Learns
  BY <1>1 DEF Learns
<1> QED
  BY <1>1, <1>3, <1>4, QuietForwards
-----------------------------------------------------------------------------
(* What forwarding keeps *)

\* What the end of client x of its connection holds after a step that forwards.
LEMMA ForwardsToClient ==
  ASSUME TypeInv, NEW n \in Servers, NEW M, Forwards(n, M), NEW x \in Clients
  PROVE  LET q == chan[Link(x)][x] IN
         \/ chan'[Link(x)][x] \in {q, <<>>}
         \/ /\ Home[x] = n
            /\ \E m \in M : IsFor(x, m) /\ chan'[Link(x)][x] = Append(q, m)
<1>1. Link(x) \in Conns /\ x \in Ends /\ x \notin Servers
  BY LinkType, IdsAssumption DEF Link
<1> QED
  BY <1>1 DEF Forwards

\* No more is handed over than what is forwarded.
LEMMA ForwardsHands ==
  ASSUME TypeInv, TypeInv', NEW n \in Servers, NEW M, Forwards(n, M), NEW k \in Servers,
         NEW u \in Handed(k)'
  PROVE  u \in Handed(k) \/ (k = n /\ \E m \in M : m.uuid = u)
<1>0. M \subseteq Messages /\ chan \in ChanType
  BY DEF Forwards, TypeInv, TypeOK, ChanType
<1>1. CASE u \in UuidsIn(mqIn'[k])
  <2>1. mqIn[k] \in Seq(Messages)
    BY DEF TypeInv, TypeOK
  <2>2. CASE mqIn'[k] = mqIn[k]
    BY <1>1, <2>2 DEF Handed
  <2>3. CASE k = n /\ \E m \in M : mqIn'[n] = Append(mqIn[n], m)
    <3>1. PICK m \in M : mqIn'[n] = Append(mqIn[n], m)
      BY <2>3
    <3>2. m \in Messages
      BY <1>0
    <3>3. UuidsIn(mqIn'[n]) = UuidsIn(mqIn[n]) \cup {m.uuid}
      BY <2>1, <2>3, <3>1, <3>2, QueueFacts
    <3> QED
      BY <1>1, <2>3, <3>3 DEF Handed
  <2> QED
    BY <2>2, <2>3 DEF Forwards
<1>2. CASE \E r \in Returns' : r.srcsub \in TcServers /\ r.src = k /\ r.uuidorig = u
  <2>1. PICK r \in Returns' : r.srcsub \in TcServers /\ r.src = k /\ r.uuidorig = u
    BY <1>2
  <2>2. r.srcsub # Self
    BY <2>1, IdsAssumption DEF Ids
  <2>3. r \in Returns
    BY <2>1, <2>2 DEF Forwards, Learns, Returns
  <2> QED
    BY <2>1, <2>3 DEF Handed
<1>3. ASSUME NEW x \in Clients, Home[x] = k,
             u \in UuidsIn(chan'[Link(x)][x]) \cup UuidsIn(got'[x])
      PROVE  u \in Handed(k) \/ (k = n /\ \E m \in M : m.uuid = u)
  <2>1. Link(x) \in Conns /\ x \in Ends
    BY LinkType DEF Link
  <2>2. CASE u \in UuidsIn(got'[x])
    BY <1>3, <2>2 DEF Forwards, Handed
  <2>3. CASE u \in UuidsIn(chan'[Link(x)][x])
    <3>1. chan[Link(x)][x] \in Seq(Messages)
      BY <1>0, <2>1 DEF ChanType
    <3>2. CASE chan'[Link(x)][x] = chan[Link(x)][x]
      BY <1>3, <2>3, <3>2 DEF Handed
    <3>3. CASE chan'[Link(x)][x] = <<>>
      BY <2>3, <3>3 DEF UuidsIn
    <3>4. CASE k = n /\ \E m \in M : chan'[Link(x)][x] = Append(chan[Link(x)][x], m)
      <4>1. PICK m \in M : chan'[Link(x)][x] = Append(chan[Link(x)][x], m)
        BY <3>4
      <4>2. m \in Messages
        BY <1>0
      <4>3. UuidsIn(chan'[Link(x)][x]) = UuidsIn(chan[Link(x)][x]) \cup {m.uuid}
        BY <3>1, <4>1, <4>2, QueueFacts
      <4> QED
        BY <1>3, <2>3, <3>4, <4>3 DEF Handed
    <3> QED
      BY <1>3, <3>2, <3>3, <3>4, ForwardsToClient
  <2> QED
    BY <1>3, <2>2, <2>3
<1>4. u \in UuidsIn(mqIn'[k])
        \cup {r.uuidorig : r \in {x \in Returns' : x.srcsub \in TcServers /\ x.src = k}}
        \cup UNION {UuidsIn(chan'[Link(x)][x]) \cup UuidsIn(got'[x]) : x \in {x \in Clients : Home[x] = k}}
  BY DEF Handed, Link
<1> QED
  BY <1>1, <1>2, <1>3, <1>4

\* Forwarding keeps everything but the origins of messages, which it does not know.
LEMMA ForwardsMade ==
  ASSUME TypeInv, TypeInv', ServiceInv, NEW n \in Servers, NEW M, Forwards(n, M)
  PROVE  UnderWayMade' /\ SeenMade'
<1>0. sent \subseteq sent' /\ M \subseteq sent' /\ sent' \subseteq Messages /\ chan \in ChanType
  BY DEF Forwards, Learns, TypeInv, TypeOK, ChanType
<1>1. ASSUME NEW q \in Seq(Messages), NEW m \in sent', Elems(q) \subseteq sent
      PROVE  Elems(Append(q, m)) \subseteq sent'
  <2>1. m \in Messages
    BY <1>0
  <2> QED
    BY <1>0, <1>1, <2>1, QueueFacts
<1>2. ASSUME NEW c \in Conns, NEW e \in Ends PROVE Elems(chan'[c][e]) \subseteq sent'
  <2>1. Elems(chan[c][e]) \subseteq sent /\ chan[c][e] \in Seq(Messages)
    BY <1>0 DEF ServiceInv, UnderWayMade, ChanType
  <2>2. CASE chan'[c][e] = <<>>
    BY <2>2 DEF Elems
  <2>3. CASE chan'[c][e] = chan[c][e]
    BY <1>0, <2>1, <2>3
  <2>4. CASE chan[c][e] # <<>> /\ chan'[c][e] = Tail(chan[c][e])
    BY <1>0, <2>1, <2>4, HeadFacts
  <2>5. CASE \E m \in sent' : chan'[c][e] = Append(chan[c][e], m)
    BY <1>1, <2>1, <2>5
  <2> QED
    BY <1>0, <2>2, <2>3, <2>4, <2>5 DEF Forwards
<1>3. ASSUME NEW k \in Servers PROVE Elems(mqIn'[k]) \subseteq sent'
  <2>1. Elems(mqIn[k]) \subseteq sent /\ mqIn[k] \in Seq(Messages)
    BY DEF ServiceInv, UnderWayMade, TypeInv, TypeOK
  <2>2. mqIn'[k] = mqIn[k] \/ \E m \in M : mqIn'[k] = Append(mqIn[k], m)
    BY DEF Forwards
  <2>3. CASE mqIn'[k] = mqIn[k]
    BY <1>0, <2>1, <2>3
  <2>4. ASSUME NEW m \in M, mqIn'[k] = Append(mqIn[k], m) PROVE Elems(mqIn'[k]) \subseteq sent'
    BY <1>0, <1>1, <2>1, <2>4
  <2> QED
    BY <2>2, <2>3, <2>4
<1>4. \A x \in Clients : Elems(got'[x]) \subseteq sent'
  BY <1>0 DEF Forwards, ServiceInv, UnderWayMade
<1>5. UnderWayMade'
  BY <1>2, <1>3, <1>4 DEF UnderWayMade, Forwards
<1>6. SeenMade'
  BY <1>0 DEF SeenMade, ServiceInv, Forwards, Learns
<1> QED
  BY <1>5, <1>6

LEMMA ForwardsReach ==
  ASSUME TypeInv, TypeInv', ServiceInv, NEW n \in Servers, NEW M, Forwards(n, M)
  PROVE  ReachAddressee'
<1>0. M \subseteq Messages /\ chan \in ChanType
  BY DEF Forwards, TypeInv, TypeOK, ChanType
<1>1. ASSUME NEW x \in Clients, NEW m \in Elems(chan'[Link(x)][x]) \cup Elems(got'[x])
      PROVE  IsFor(x, m)
  <2>1. Link(x) \in Conns /\ x \in Ends /\ chan[Link(x)][x] \in Seq(Messages)
    BY <1>0, LinkType DEF Link, ChanType
  <2>2. \A k \in Elems(chan[Link(x)][x]) \cup Elems(got[x]) : IsFor(x, k)
    BY DEF ServiceInv, ReachAddressee
  <2>3. CASE m \in Elems(got'[x]) \/ chan'[Link(x)][x] = chan[Link(x)][x]
    BY <1>1, <2>2, <2>3 DEF Forwards
  <2>4. CASE m \in Elems(chan'[Link(x)][x]) /\ chan'[Link(x)][x] = <<>>
    BY <2>4 DEF Elems
  <2>5. CASE /\ m \in Elems(chan'[Link(x)][x])
             /\ \E k \in M : IsFor(x, k) /\ chan'[Link(x)][x] = Append(chan[Link(x)][x], k)
    <3>1. PICK k \in M : IsFor(x, k) /\ chan'[Link(x)][x] = Append(chan[Link(x)][x], k)
      BY <2>5
    <3>2. k \in Messages
      BY <1>0
    <3>3. Elems(chan'[Link(x)][x]) = Elems(chan[Link(x)][x]) \cup {k}
      BY <2>1, <3>1, <3>2, QueueFacts
    <3> QED
      BY <2>2, <2>5, <3>1, <3>3
  <2> QED
    BY <1>1, <2>3, <2>4, <2>5, ForwardsToClient
<1>2. ASSUME NEW k \in Servers, NEW m \in Elems(mqIn'[k]) PROVE IsForTcs(k, m)
  <2>1. mqIn[k] \in Seq(Messages)
    BY DEF TypeInv, TypeOK
  <2>2. CASE mqIn'[k] = mqIn[k]
    BY <1>2, <2>2 DEF ServiceInv, ReachAddressee
  <2>3. CASE k = n /\ \E y \in M : IsForTcs(n, y) /\ mqIn'[n] = Append(mqIn[n], y)
    <3>1. PICK y \in M : IsForTcs(n, y) /\ mqIn'[n] = Append(mqIn[n], y)
      BY <2>3
    <3>2. y \in Messages
      BY <1>0
    <3>3. Elems(mqIn'[n]) = Elems(mqIn[n]) \cup {y}
      BY <2>1, <2>3, <3>1, <3>2, QueueFacts
    <3> QED
      BY <1>2, <2>3, <3>1, <3>3 DEF ServiceInv, ReachAddressee
  <2> QED
    BY <2>2, <2>3 DEF Forwards
<1> QED
  BY <1>1, <1>2 DEF ReachAddressee, Link, IsFor, IsForTcs

LEMMA ForwardsSeen ==
  ASSUME TypeInv, TypeInv', ServiceInv, NEW n \in Servers, NEW M, Forwards(n, M)
  PROVE  HandedSeen'
<1> SUFFICES ASSUME NEW k \in Servers
             PROVE  /\ \A u \in Handed(k)' : u \in seen'[k]
                    /\ cur'[k] # None => cur'[k].uuid \in seen'[k] /\ cur'[k].uuid \notin Handed(k)'
  BY DEF HandedSeen
<1>1. ASSUME NEW u \in Handed(k)' PROVE u \in seen'[k]
  <2>1. u \in Handed(k) => u \in seen'[k]
    BY DEF Forwards, Learns, ServiceInv, HandedSeen
  <2>2. k = n => \A m \in M : m.uuid \in seen'[k]
    BY DEF Forwards
  <2> QED
    BY <2>1, <2>2, ForwardsHands
<1>2. ASSUME cur'[k] # None PROVE cur'[k].uuid \in seen'[k] /\ cur'[k].uuid \notin Handed(k)'
  <2>1. cur'[k].uuid \in seen'[k] /\ cur'[k].uuid \notin Handed(k)
    BY <1>2 DEF Forwards
  <2>2. k = n => \A m \in M : m.uuid # cur'[k].uuid
    BY <1>2 DEF Forwards
  <2>3. \A u \in Handed(k)' : u \in Handed(k) \/ (k = n /\ \E m \in M : m.uuid = u)
    BY ForwardsHands
  <2> QED
    BY <2>1, <2>2, <2>3
<1> QED
  BY <1>1, <1>2

LEMMA ForwardsOnce ==
  ASSUME TypeInv, TypeInv', ServiceInv, NEW n \in Servers, NEW M, Forwards(n, M)
  PROVE  HandedOnce'
<1>0. /\ M \subseteq Messages /\ chan \in ChanType /\ got' = got
      /\ \A r \in Returns' : r.srcsub # Self => r \in Returns
      /\ \A m \in M : m.uuid \notin Handed(n)
  BY DEF Forwards, Learns, Returns, TypeInv, TypeOK, ChanType
<1>1. ASSUME NEW x \in Clients
      PROVE  LET q == chan'[Link(x)][x] IN
             /\ AllDifferent(q) /\ AllDifferent(got'[x])
             /\ UuidsIn(q) \cap UuidsIn(got'[x]) = {}
             /\ \A r \in Returns' : r.srcsub = x => r.src = Home[x] /\ r.uuidorig \in UuidsIn(got'[x])
  <2> DEFINE q == chan[Link(x)][x]
             p == chan'[Link(x)][x]
  <2>1. q \in Seq(Messages)
    BY <1>0, LinkType DEF Link, ChanType
  <2>2. /\ AllDifferent(q) /\ AllDifferent(got[x]) /\ UuidsIn(q) \cap UuidsIn(got[x]) = {}
        /\ \A r \in Returns : r.srcsub = x => r.src = Home[x] /\ r.uuidorig \in UuidsIn(got[x])
    BY DEF ServiceInv, HandedOnce
  <2>3. x # Self
    BY IdsAssumption DEF Ids
  <2>4. AllDifferent(p) /\ UuidsIn(p) \cap UuidsIn(got[x]) = {}
    <3>1. CASE p \in {q, <<>>}
      <4> HIDE DEF p, q
      <4>1. CASE p = q
        BY <2>2, <4>1
      <4>2. CASE p = <<>>
        BY <2>1, <4>2 DEF AllDifferent, UuidsIn
      <4> QED
        BY <3>1, <4>1, <4>2
    <3>2. CASE Home[x] = n /\ \E m \in M : p = Append(q, m)
      <4>1. PICK m \in M : p = Append(q, m)
        BY <3>2
      <4>2. m \in Messages /\ m.uuid \notin UuidsIn(q) /\ m.uuid \notin UuidsIn(got[x])
        BY <1>0, <3>2 DEF Handed
      <4> HIDE DEF p, q
      <4> QED
        BY <2>1, <2>2, <4>1, <4>2, QueueFacts
    <3> QED
      BY <3>1, <3>2, ForwardsToClient
  <2> QED
    BY <1>0, <2>2, <2>3, <2>4
<1>2. ASSUME NEW k \in Servers
      PROVE  /\ AllDifferent(mqIn'[k])
             /\ \A r \in Returns' : r.srcsub \in TcServers /\ r.src = k
                  => r.uuidorig \notin UuidsIn(mqIn'[k])
  <2>1. /\ AllDifferent(mqIn[k]) /\ mqIn[k] \in Seq(Messages)
        /\ \A r \in Returns : r.srcsub \in TcServers /\ r.src = k => r.uuidorig \notin UuidsIn(mqIn[k])
    BY DEF ServiceInv, HandedOnce, TypeInv, TypeOK
  <2>2. Self \notin TcServers
    BY IdsAssumption DEF Ids
  <2>3. CASE mqIn'[k] = mqIn[k]
    BY <1>0, <2>1, <2>2, <2>3
  <2>4. CASE k = n /\ \E m \in M : mqIn'[n] = Append(mqIn[n], m)
    <3>1. PICK m \in M : mqIn'[n] = Append(mqIn[n], m)
      BY <2>4
    <3>2. /\ m \in Messages /\ m.uuid \notin UuidsIn(mqIn[n])
          /\ \A r \in Returns : r.srcsub \in TcServers /\ r.src = n => r.uuidorig # m.uuid
      BY <1>0 DEF Handed
    <3>3. /\ UuidsIn(mqIn'[n]) = UuidsIn(mqIn[n]) \cup {m.uuid}
          /\ AllDifferent(mqIn'[n])
      BY <2>1, <2>4, <3>1, <3>2, QueueFacts
    <3> QED
      BY <1>0, <2>1, <2>2, <2>4, <3>2, <3>3
  <2> QED
    BY <2>3, <2>4 DEF Forwards
<1> QED
  BY <1>1, <1>2 DEF HandedOnce, Link
-----------------------------------------------------------------------------
(* A client that receives, a tc-server that receives *)

\* What a step of another process hands over is what it handed over, and what a client
\* has received stays received.
LEMMA ClientReceiveKeeps ==
  ASSUME TypeInv, TypeInv', ServiceInv, NEW x \in Clients, ClientReceive(x)
  PROVE  UnderWayMade' /\ SeenMade' /\ ReachAddressee' /\ HandedSeen' /\ HandedOnce'
<1> DEFINE q == chan[Link(x)][x]
           m == Head(q)
           r == ReplyTo(m, Fresh(x), x, Home[x], "OK")
           ch == [chan EXCEPT ![Link(x)][x] = Tail(@)]
<1>1. /\ q # <<>> /\ got' = [got EXCEPT ![x] = Append(@, m)]
      /\ \/ /\ m.method = "ping" /\ m.type = "CALL" /\ sent' = sent \cup {r}
            /\ chan' = ClientWrites(x, ch, r)
         \/ chan' = ch /\ sent' = sent
      /\ UNCHANGED <<mqIn, mqOut, tcs, cur, seen>>
  BY DEF ClientReceive, Link, Tick, srvVars, mqVars
<1>2. /\ Link(x) \in Conns /\ x \in Ends /\ x \in Ids /\ x \notin Servers /\ x \notin TcServers
      /\ x # Self /\ Home[x] \in Servers /\ Home[x] # x
      /\ chan \in ChanType /\ q \in Seq(Messages) /\ got \in [Clients -> Seq(Messages)]
  <2>1. Link(x) \in Conns /\ x \in Ends /\ Home[x] \in Servers
    BY LinkType, IdsAssumption DEF Link
  <2>2. x \in Ids /\ x \notin Servers /\ x \notin TcServers /\ x # Self /\ Home[x] # x
    BY <2>1, IdsAssumption DEF Ids
  <2>3. chan \in ChanType /\ got \in [Clients -> Seq(Messages)]
    BY DEF TypeInv, TypeOK, ChanType
  <2> QED
    BY <2>1, <2>2, <2>3 DEF ChanType
<1>3. r.srcsub = x /\ r.src = Home[x] /\ r.uuidorig = m.uuid /\ r.type = "RET"
  BY DEF ReplyTo
<1>4. /\ m \in Elems(q) /\ m.uuid \in UuidsIn(q) /\ Elems(Tail(q)) \subseteq Elems(q)
      /\ UuidsIn(Tail(q)) \subseteq UuidsIn(q)
      /\ AllDifferent(Tail(q)) /\ m.uuid \notin UuidsIn(Tail(q))
      /\ AllDifferent(q) /\ AllDifferent(got[x]) /\ m.uuid \notin UuidsIn(got[x])
  <2>1. AllDifferent(q) /\ AllDifferent(got[x]) /\ UuidsIn(q) \cap UuidsIn(got[x]) = {}
    BY DEF ServiceInv, HandedOnce
  <2> QED
    BY <1>1, <1>2, <2>1, HeadFacts
<1>5. m \in sent /\ m \in Messages /\ sent \subseteq sent' /\ sent' \subseteq Messages
  BY <1>1, <1>2, <1>4 DEF ServiceInv, UnderWayMade, TypeInv, TypeOK
<1>6. ASSUME NEW c \in Conns, NEW e \in Ends
      PROVE  chan'[c][e] = IF c = Link(x) /\ e = x THEN Tail(q)
                           ELSE IF c = Link(x) /\ e = Home[x] /\ chan' # ch
                                THEN Append(chan[c][e], r) ELSE chan[c][e]
  <2>1. ch \in ChanType
    BY <1>1, <1>2, PopType
  <2>2. ch[c][e] = IF c = Link(x) /\ e = x THEN Tail(chan[c][e]) ELSE chan[c][e]
    BY <1>2, ChanEnds
  <2>3. Other(Link(x), x) = Home[x]
    BY DEF Other, Link
  <2>4. chan' = ch \/ chan' = Post(ch, {Link(x)}, x, r)
    BY <1>1 DEF ClientWrites, Link
  <2> HIDE DEF ch, r
  <2>5. CASE chan' = ch
    BY <2>2, <2>5
  <2>6. CASE chan' # ch /\ chan' = Post(ch, {Link(x)}, x, r)
    <3>1. chan'[c][e] = IF c \in {Link(x)} /\ e = Other(c, x) THEN Append(ch[c][e], r)
                        ELSE ch[c][e]
      BY <2>1, <2>6, ChanEnds
    <3> QED
      BY <1>2, <2>2, <2>3, <2>6, <3>1
  <2> QED
    BY <2>4, <2>5, <2>6
<1>7. chan' # ch => r \in sent'
  BY <1>1
<1>8. /\ got'[x] = Append(got[x], m) /\ \A y \in Clients : y # x => got'[y] = got[y]
      /\ chan'[Link(x)][x] = Tail(q)
      /\ \A y \in Clients : y # x => chan'[Link(y)][y] = chan[Link(y)][y]
  <2>1. \A y \in Clients : Link(y) \in Conns /\ y \in Ends /\ y \notin Servers
    BY LinkType, IdsAssumption DEF Link
  <2> QED
    BY <1>1, <1>2, <1>6, <2>1
<1>9. /\ Elems(got'[x]) = Elems(got[x]) \cup {m}
      /\ UuidsIn(got'[x]) = UuidsIn(got[x]) \cup {m.uuid}
      /\ AllDifferent(got'[x])
  BY <1>2, <1>4, <1>5, <1>8, QueueFacts
<1>10. \A s \in Returns' : s \in Returns \/ s = r
  BY <1>1 DEF Returns
<1> HIDE DEF m, r, ch
<1>11. UnderWayMade'
  <2>1. ASSUME NEW c \in Conns, NEW e \in Ends PROVE Elems(chan'[c][e]) \subseteq sent'
    <3>1. Elems(chan[c][e]) \subseteq sent' /\ chan[c][e] \in Seq(Messages)
      BY <1>2, <1>5 DEF ServiceInv, UnderWayMade, ChanType
    <3>2. CASE chan'[c][e] = chan[c][e]
      BY <3>1, <3>2
    <3>3. CASE c = Link(x) /\ e = x
      BY <1>4, <1>6, <3>1, <3>3
    <3>4. CASE chan' # ch /\ chan'[c][e] = Append(chan[c][e], r)
      <4>1. r \in Messages /\ r \in sent'
        BY <1>5, <1>7, <3>4
      <4>2. Elems(chan'[c][e]) = Elems(chan[c][e]) \cup {r}
        BY <3>1, <3>4, <4>1, QueueFacts
      <4> QED
        BY <3>1, <4>1, <4>2
    <3> QED
      BY <1>6, <3>2, <3>3, <3>4
  <2>2. ASSUME NEW y \in Clients PROVE Elems(got'[y]) \subseteq sent'
    <3>1. Elems(got[y]) \subseteq sent'
      BY <1>5 DEF ServiceInv, UnderWayMade
    <3>2. Elems(got'[y]) \subseteq Elems(got[y]) \cup {m}
      BY <1>8, <1>9
    <3> QED
      BY <1>5, <3>1, <3>2
  <2> QED
    BY <1>1, <1>5, <2>1, <2>2 DEF UnderWayMade, ServiceInv
<1>12. SeenMade'
  BY <1>1, <1>5 DEF SeenMade, ServiceInv
<1>13. ReachAddressee'
  <2>1. ASSUME NEW y \in Clients, NEW k \in Elems(chan'[Link(y)][y]) \cup Elems(got'[y])
        PROVE  IsFor(y, k)
    <3>1. \A j \in Elems(chan[Link(y)][y]) \cup Elems(got[y]) : IsFor(y, j)
      BY DEF ServiceInv, ReachAddressee
    <3>2. k \in Elems(chan[Link(y)][y]) \cup Elems(got[y])
      BY <1>4, <1>8, <1>9, <2>1
    <3> QED
      BY <3>1, <3>2
  <2>2. \A n \in Servers : \A k \in Elems(mqIn'[n]) : IsForTcs(n, k)
    BY <1>1 DEF ServiceInv, ReachAddressee
  <2> QED
    BY <2>1, <2>2 DEF ReachAddressee, Link, IsFor, IsForTcs
<1>14. ASSUME NEW n \in Servers, NEW u \in Handed(n)' PROVE u \in Handed(n)
  <2>1. u \in UuidsIn(mqIn'[n])
          \cup {s.uuidorig : s \in {y \in Returns' : y.srcsub \in TcServers /\ y.src = n}}
          \cup UNION {UuidsIn(chan'[Link(y)][y]) \cup UuidsIn(got'[y]) : y \in {y \in Clients : Home[y] = n}}
    BY <1>14 DEF Handed, Link
  <2>2. CASE u \in UuidsIn(mqIn'[n])
    BY <1>1, <2>2 DEF Handed
  <2>3. CASE \E s \in Returns' : s.srcsub \in TcServers /\ s.src = n /\ s.uuidorig = u
    <3>1. PICK s \in Returns' : s.srcsub \in TcServers /\ s.src = n /\ s.uuidorig = u
      BY <2>3
    <3>2. s \in Returns
      BY <1>2, <1>3, <1>10, <3>1
    <3> QED
      BY <3>1, <3>2 DEF Handed
  <2>4. ASSUME NEW y \in Clients, Home[y] = n, u \in UuidsIn(chan'[Link(y)][y]) \cup UuidsIn(got'[y])
        PROVE  u \in Handed(n)
    <3>1. u \in UuidsIn(chan[Link(y)][y]) \cup UuidsIn(got[y])
      BY <1>4, <1>8, <1>9, <2>4
    <3> QED
      BY <2>4, <3>1 DEF Handed
  <2> QED
    BY <2>1, <2>2, <2>3, <2>4
<1>15. HandedSeen'
  BY <1>1, <1>14 DEF HandedSeen, ServiceInv
<1>16. HandedOnce'
  <2>1. ASSUME NEW y \in Clients
        PROVE  /\ AllDifferent(chan'[Link(y)][y]) /\ AllDifferent(got'[y])
               /\ UuidsIn(chan'[Link(y)][y]) \cap UuidsIn(got'[y]) = {}
               /\ \A s \in Returns' : s.srcsub = y => s.src = Home[y] /\ s.uuidorig \in UuidsIn(got'[y])
    <3>1. /\ AllDifferent(chan[Link(y)][y]) /\ AllDifferent(got[y])
          /\ UuidsIn(chan[Link(y)][y]) \cap UuidsIn(got[y]) = {}
          /\ \A s \in Returns : s.srcsub = y => s.src = Home[y] /\ s.uuidorig \in UuidsIn(got[y])
      BY DEF ServiceInv, HandedOnce
    <3>2. CASE y = x
      <4>1. /\ AllDifferent(chan'[Link(x)][x]) /\ AllDifferent(got'[x])
            /\ UuidsIn(chan'[Link(x)][x]) \cap UuidsIn(got[x]) = {}
        BY <1>4, <1>8, <1>9, <3>1, <3>2
      <4>2. UuidsIn(chan'[Link(x)][x]) \cap UuidsIn(got'[x]) = {}
        BY <1>4, <1>8, <1>9, <4>1
      <4>3. ASSUME NEW s \in Returns', s.srcsub = x
            PROVE  s.src = Home[x] /\ s.uuidorig \in UuidsIn(got'[x])
        <5>1. CASE s \in Returns
          BY <1>9, <3>1, <3>2, <4>3, <5>1
        <5>2. CASE s = r
          BY <1>3, <1>9, <5>2
        <5> QED
          BY <1>10, <5>1, <5>2
      <4> QED
        BY <3>2, <4>1, <4>2, <4>3
    <3>3. CASE y # x
      BY <1>3, <1>8, <1>10, <3>1, <3>3
    <3> QED
      BY <3>2, <3>3
  <2>2. ASSUME NEW n \in Servers
        PROVE  /\ AllDifferent(mqIn'[n])
               /\ \A s \in Returns' : s.srcsub \in TcServers /\ s.src = n => s.uuidorig \notin UuidsIn(mqIn'[n])
    BY <1>1, <1>2, <1>3, <1>10 DEF ServiceInv, HandedOnce
  <2> QED
    BY <2>1, <2>2 DEF HandedOnce, Link
<1> QED
  BY <1>11, <1>12, <1>13, <1>15, <1>16

\* The tc-server answers the message it takes, and no other.
LEMMA TcsReceiveDoes ==
  ASSUME TypeInv, ServiceInv, NEW n \in Servers, TcsReceive(n)
  PROVE  LET m == Head(mqIn[n]) IN
         /\ m \in sent /\ IsForTcs(n, m) /\ sent \subseteq sent'
         /\ \A r \in sent' \ sent :
              \E u \in UUIDs, status \in Statuses : r = ReplyTo(m, u, TcId[n], n, status)
         /\ Elems(tcs'[n]) \subseteq sent' /\ \A k \in Servers : k # n => tcs'[k] = tcs[k]
         /\ mqIn' = [mqIn EXCEPT ![n] = Tail(@)] /\ mqIn[n] # <<>> /\ mqIn[n] \in Seq(Messages)
         /\ UNCHANGED <<seen, cur, chan, mqOut, got>>
<1> DEFINE m == Head(mqIn[n])
           s == TcsStatuses(m)
           i == TcId[n]
           replies == [k \in 1..Len(s) |-> ReplyTo(m, <<i, clock[i] + k - 1>>, i, n, s[k])]
<1>1. /\ tcs' = [tcs EXCEPT ![n] = replies]
      /\ sent' = sent \cup {replies[k] : k \in 1..Len(s)}
      /\ mqIn' = [mqIn EXCEPT ![n] = Tail(@)] /\ mqIn[n] # <<>>
      /\ UNCHANGED <<seen, cur, chan, mqOut, got>>
  BY DEF TcsReceive, srvVars, netVars
<1>2. mqIn[n] \in Seq(Messages) /\ tcs \in [Servers -> Seq(Messages)]
  BY DEF TypeInv, TypeOK
<1>3. m \in sent /\ IsForTcs(n, m)
  <2>1. m \in Elems(mqIn[n])
    BY <1>1, <1>2, HeadFacts
  <2> QED
    BY <2>1 DEF ServiceInv, UnderWayMade, ReachAddressee
<1>4. Len(s) \in Nat /\ \A k \in 1..Len(s) : s[k] \in Statuses
  BY StatusesType
<1>5. i \in Ids /\ clock[i] \in Nat
  BY ConfigAssumption DEF Ids, TypeInv, TypeOK
<1> HIDE DEF m, s, i
<1>6. ASSUME NEW k \in 1..Len(s)
      PROVE  /\ replies[k] = ReplyTo(m, <<i, clock[i] + k - 1>>, i, n, s[k])
             /\ <<i, clock[i] + k - 1>> \in UUIDs
  <2>1. clock[i] + k - 1 \in Nat
    BY <1>4, <1>5
  <2> QED
    BY <1>5, <2>1 DEF UUIDs
<1>7. Elems(tcs'[n]) = {replies[k] : k \in 1..Len(s)}
  <2>1. tcs'[n] = replies
    BY <1>1, <1>2
  <2>2. Len(replies) = Len(s) /\ DOMAIN replies = 1..Len(s)
    BY <1>4
  <2> HIDE DEF replies
  <2> QED
    BY <2>1, <2>2 DEF Elems
<1>8. \A k \in Servers : k # n => tcs'[k] = tcs[k]
  BY <1>1, <1>2
<1>9. ASSUME NEW r \in sent' \ sent
      PROVE  \E u \in UUIDs, status \in Statuses : r = ReplyTo(m, u, TcId[n], n, status)
  <2>1. PICK k \in 1..Len(s) : r = replies[k]
    BY <1>1, <1>9
  <2> QED
    BY <1>4, <1>6, <2>1 DEF i
<1> QED
  BY <1>1, <1>2, <1>3, <1>7, <1>8, <1>9 DEF m

LEMMA TcsReceiveKeeps ==
  ASSUME TypeInv, TypeInv', ServiceInv, NEW n \in Servers, TcsReceive(n)
  PROVE  UnderWayMade' /\ SeenMade' /\ ReachAddressee' /\ HandedSeen' /\ HandedOnce'
<1> DEFINE m == Head(mqIn[n])
<1>1. /\ m \in sent /\ IsForTcs(n, m) /\ sent \subseteq sent'
      /\ \A r \in sent' \ sent :
           \E u \in UUIDs, status \in Statuses : r = ReplyTo(m, u, TcId[n], n, status)
      /\ Elems(tcs'[n]) \subseteq sent' /\ \A k \in Servers : k # n => tcs'[k] = tcs[k]
      /\ mqIn' = [mqIn EXCEPT ![n] = Tail(@)] /\ mqIn[n] # <<>> /\ mqIn[n] \in Seq(Messages)
      /\ UNCHANGED <<seen, cur, chan, mqOut, got>>
  BY TcsReceiveDoes
<1>2. /\ m \in Elems(mqIn[n]) /\ m.uuid \in UuidsIn(mqIn[n])
      /\ Elems(Tail(mqIn[n])) \subseteq Elems(mqIn[n])
      /\ UuidsIn(Tail(mqIn[n])) \subseteq UuidsIn(mqIn[n])
      /\ AllDifferent(Tail(mqIn[n])) /\ m.uuid \notin UuidsIn(Tail(mqIn[n]))
  <2>1. AllDifferent(mqIn[n])
    BY DEF ServiceInv, HandedOnce
  <2> QED
    BY <1>1, <2>1, HeadFacts
<1>3. \A r \in Returns' :
        r \in Returns \/ (r.srcsub = TcId[n] /\ r.src = n /\ r.uuidorig = m.uuid)
  BY <1>1 DEF Returns, ReplyTo
<1>4. mqIn'[n] = Tail(mqIn[n]) /\ \A k \in Servers : k # n => mqIn'[k] = mqIn[k]
  BY <1>1 DEF TypeInv, TypeOK
<1>5. TcId[n] \in TcServers /\ TcId[n] \notin Clients
  BY IdsAssumption, ConfigAssumption
<1> HIDE DEF m
<1>6. UnderWayMade'
  <2>1. \A k \in Servers : Elems(mqIn'[k]) \subseteq sent' /\ Elems(mqOut'[k]) \subseteq sent'
                           /\ Elems(tcs'[k]) \subseteq sent' /\ (cur'[k] # None => cur'[k] \in sent')
    BY <1>1, <1>2, <1>4 DEF ServiceInv, UnderWayMade
  <2>2. /\ \A c \in Conns, e \in Ends : Elems(chan'[c][e]) \subseteq sent'
        /\ \A x \in Clients : Elems(got'[x]) \subseteq sent'
    BY <1>1 DEF ServiceInv, UnderWayMade
  <2> QED
    BY <2>1, <2>2 DEF UnderWayMade
<1>7. SeenMade'
  BY <1>1 DEF SeenMade, ServiceInv
<1>8. ReachAddressee'
  <2>1. \A k \in Servers : \A j \in Elems(mqIn'[k]) : IsForTcs(k, j)
    BY <1>2, <1>4 DEF ServiceInv, ReachAddressee
  <2> QED
    BY <1>1, <2>1 DEF ServiceInv, ReachAddressee, Link, IsFor, IsForTcs
<1>9. ASSUME NEW k \in Servers, NEW u \in Handed(k)' PROVE u \in Handed(k)
  <2>1. u \in UuidsIn(mqIn'[k])
          \cup {s.uuidorig : s \in {y \in Returns' : y.srcsub \in TcServers /\ y.src = k}}
          \cup UNION {UuidsIn(chan'[Link(y)][y]) \cup UuidsIn(got'[y]) : y \in {y \in Clients : Home[y] = k}}
    BY <1>9 DEF Handed, Link
  <2>2. CASE u \in UuidsIn(mqIn'[k])
    BY <1>2, <1>4, <2>2 DEF Handed
  <2>3. CASE \E s \in Returns' : s.srcsub \in TcServers /\ s.src = k /\ s.uuidorig = u
    <3>1. PICK s \in Returns' : s.srcsub \in TcServers /\ s.src = k /\ s.uuidorig = u
      BY <2>3
    <3>2. CASE s \in Returns
      BY <3>1, <3>2 DEF Handed
    <3>3. CASE k = n /\ u = m.uuid
      BY <1>2, <3>3 DEF Handed
    <3> QED
      BY <1>3, <3>1, <3>2, <3>3
  <2>4. CASE u \in UNION {UuidsIn(chan'[Link(y)][y]) \cup UuidsIn(got'[y]) : y \in {y \in Clients : Home[y] = k}}
    BY <1>1, <2>4 DEF Handed
  <2> QED
    BY <2>1, <2>2, <2>3, <2>4
<1>10. HandedSeen'
  BY <1>1, <1>9 DEF HandedSeen, ServiceInv
<1>11. HandedOnce'
  <2>1. ASSUME NEW y \in Clients
        PROVE  /\ AllDifferent(chan'[Link(y)][y]) /\ AllDifferent(got'[y])
               /\ UuidsIn(chan'[Link(y)][y]) \cap UuidsIn(got'[y]) = {}
               /\ \A s \in Returns' : s.srcsub = y => s.src = Home[y] /\ s.uuidorig \in UuidsIn(got'[y])
    BY <1>1, <1>3, <1>5 DEF ServiceInv, HandedOnce
  <2>2. ASSUME NEW k \in Servers
        PROVE  /\ AllDifferent(mqIn'[k])
               /\ \A s \in Returns' : s.srcsub \in TcServers /\ s.src = k => s.uuidorig \notin UuidsIn(mqIn'[k])
    <3>1. /\ AllDifferent(mqIn[k])
          /\ \A s \in Returns : s.srcsub \in TcServers /\ s.src = k => s.uuidorig \notin UuidsIn(mqIn[k])
      BY DEF ServiceInv, HandedOnce
    <3>2. CASE k = n
      BY <1>2, <1>3, <1>4, <3>1, <3>2
    <3>3. CASE k # n
      BY <1>3, <1>4, <3>1, <3>3
    <3> QED
      BY <3>2, <3>3
  <2> QED
    BY <2>1, <2>2 DEF HandedOnce, Link
<1> QED
  BY <1>6, <1>7, <1>8, <1>10, <1>11
-----------------------------------------------------------------------------
(* What a step makes and delivers *)

\* A step that makes the message m, which answers nothing.
Makes(m) ==
  /\ sent' = sent \cup {m} /\ got' = got
  /\ m.type \in {"CALL", "EVENT"} /\ Accounted(m)
  /\ \A x \in sent : x.uuid # m.uuid

\* Server n itself answers m with r.
ServerAnswers(n, m, r) ==
  /\ sent' = sent \cup {r} /\ got' = got
  /\ Answers(m, r) /\ r.type = "RET" /\ r.srcsub = Self /\ r.src = n
  /\ m.uuid \notin seen[n]

\* Client x is handed m and answers it with r.
ClientTakes(x, m) ==
  /\ got' = [got EXCEPT ![x] = Append(@, m)]
  /\ IsFor(x, m) /\ m.uuid \notin UuidsIn(got[x])
ClientAnswers(x, m, r) ==
  /\ sent' = sent \cup {r}
  /\ Answers(m, r) /\ r.type = "RET" /\ r.srcsub = x /\ r.src = Home[x]

\* The tc-server of n answers m with the messages R.
TcsAnswers(n, m, R) ==
  /\ sent' = sent \cup R /\ got' = got
  /\ m \in Elems(mqIn[n])
  /\ \A r \in R : Answers(m, r) /\ r.type = "RET" /\ r.srcsub = TcId[n] /\ r.src = n
  /\ m.method # "pingtcs" => \A r, s \in R : r = s

\* Answers come from calls: what a server, a client or a tc-server is handed and
\* answers is no event and no answer.
LEMMA PingIsCall ==
  ASSUME ServiceInv, TypeInv, NEW m \in sent,
         (m.dstsub = Self /\ m.method = "ping") \/ m.dstsub \in TcServers
  PROVE  m.type = "CALL"
<1>1. m.type \in Types /\ Accounted(m) /\ sent \subseteq Messages
  BY DEF ServiceInv, Origins, TypeInv, TypeOK, Messages
<1>2. m.type # "EVENT"
  BY <1>1, IdsAssumption DEF Accounted, Ids
<1>3. ASSUME m.type = "RET" PROVE FALSE
  <2>1. PICK k \in sent : Answers(k, m)
    BY <1>1, <1>3 DEF Accounted
  <2>2. /\ k.type = "CALL" /\ m.dstsub = k.srcsub /\ m.method = k.method
        /\ Accounted(k)
    BY <2>1 DEF Answers, ServiceInv, Origins
  <2>3. \/ k.srcsub = Self /\ k.method = "mqRegister"
        \/ k.srcsub \in Clients
    BY <2>2 DEF Accounted
  <2>4. Self \notin Clients /\ Self \notin TcServers /\ Clients \cap TcServers = {}
    BY IdsAssumption DEF Ids
  <2> QED
    BY <2>2, <2>3, <2>4
<1> QED
  BY <1>1, <1>2, <1>3 DEF Types

\* The message that arrives first was made.
LEMMA ArrivedMade ==
  ASSUME TypeInv, ServiceInv, NEW c \in Conns, NEW e \in Ends, chan[c][e] # <<>>
  PROVE  Head(chan[c][e]) \in sent /\ Head(chan[c][e]) \in Elems(chan[c][e])
<1>1. chan[c][e] \in Seq(Messages)
  BY DEF TypeInv, TypeOK
<1>2. Head(chan[c][e]) \in Elems(chan[c][e])
  BY <1>1, HeadFacts
<1> QED
  BY <1>2 DEF ServiceInv, UnderWayMade

LEMMA ServerMakes ==
  ASSUME TypeInv, ServiceInv, NEW n \in Servers, ServerStep(n)
  PROVE  \/ sent' = sent /\ got' = got
         \/ \E m : Makes(m)
         \/ \E m \in sent : \E r : ServerAnswers(n, m, r)
<1>1. n \in Ids /\ clock[n] \in Nat /\ Fresh(n) = <<n, clock[n]>>
  BY DEF Ids, Fresh, TypeInv, TypeOK
<1>2. \A x \in sent : x.uuid # Fresh(n)
  BY <1>1, FreshNew DEF ServiceInv
<1>3. CASE Start(n)
  <2> DEFINE m == NewMsg(Fresh(n), "CALL", Self, n, TcId[n], n, "mqRegister")
  <2>1. sent' = sent \cup {m} /\ got' = got
    BY <1>3 DEF Start, Tick
  <2>2. /\ m.type = "CALL" /\ m.srcsub = Self /\ m.method = "mqRegister" /\ m.uuid = Fresh(n)
    BY DEF NewMsg
  <2> HIDE DEF m
  <2>3. Makes(m)
    BY <1>2, <2>1, <2>2 DEF Makes, Accounted
  <2> QED
    BY <2>3
<1>4. CASE Top(n)
  <2> DEFINE m == NewMsg(Fresh(n), "EVENT", Self, n, Self, Bcast, "bcastIP_PORT")
  <2>1. got' = got /\ (sent' = sent \/ sent' = sent \cup {m})
    BY <1>4 DEF Top, Tick
  <2>2. /\ m.type = "EVENT" /\ m.dst = Bcast /\ m.dstsub = Self /\ m.method = "bcastIP_PORT"
        /\ m.uuid = Fresh(n)
    BY DEF NewMsg
  <2> HIDE DEF m
  <2>3. sent' = sent \cup {m} => Makes(m)
    BY <1>2, <2>1, <2>2 DEF Makes, Accounted
  <2> QED
    BY <2>1, <2>3
<1>5. CASE Receive(n)
  <2>1. PICK c \in todo[n] \cap authOK[n] :
          /\ chan[c][n] # <<>>
          /\ ReceivePing(n, c, todo[n] \ {c}) \/ sent' = sent
    BY <1>5 DEF Receive, ReceiveAgain, ReceiveLink, ReceiveUnknown, ReceiveOther
  <2>2. got' = got
    BY <1>5 DEF Receive
  <2>3. ASSUME ReceivePing(n, c, todo[n] \ {c})
        PROVE  \E m \in sent : \E r : ServerAnswers(n, m, r)
    <3> DEFINE m == Arrived(n, c)
               r == ReplyTo(m, Fresh(n), Self, n, "OK")
    <3>1. /\ sent' = sent \cup {r} /\ m.uuid \notin seen[n] /\ m.method = "ping"
          /\ m.dstsub = Self /\ m.dst \in {Bcast, n}
      BY <2>3 DEF ReceivePing, Tick, Dropped, IsForHandler, IsForSelf
    <3>2. m \in sent
      <4>1. c \in Conns /\ n \in Ends
        BY DEF TypeInv, TypeOK, Ends
      <4> QED
        BY <2>1, <4>1, ArrivedMade DEF Arrived
    <3>3. /\ r.type = "RET" /\ r.uuidorig = m.uuid /\ r.method = m.method /\ r.dst = m.src
          /\ r.dstsub = m.srcsub /\ r.srcsub = Self /\ r.src = n
      BY DEF ReplyTo
    <3> HIDE DEF m, r
    <3>4. m.type = "CALL"
      BY <3>1, <3>2, PingIsCall
    <3>5. ServerAnswers(n, m, r)
      BY <2>2, <3>1, <3>3, <3>4 DEF ServerAnswers, Answers
    <3> QED
      BY <3>2, <3>5
  <2> QED
    BY <2>1, <2>2, <2>3
<1>6. CASE DrainMQ(n) \/ Accept(n) \/ Flood(n) \/ Close(n)
  BY <1>6 DEF DrainMQ, Accept, Flood, Close
<1> QED
  BY <1>3, <1>4, <1>5, <1>6 DEF ServerStep, LoopStep

LEMMA ClientMakes ==
  ASSUME TypeInv, ServiceInv, NEW x \in Clients, ClientStep(x)
  PROVE  \/ sent' = sent /\ got' = got
         \/ \E m : Makes(m)
         \/ \E m \in sent : ClientTakes(x, m) /\ (sent' = sent \/ \E r : ClientAnswers(x, m, r))
<1>1. x \in Ids /\ x \in Ends /\ clock[x] \in Nat /\ Fresh(x) = <<x, clock[x]>>
  BY DEF Ids, Ends, Fresh, TypeInv, TypeOK
<1>2. \A y \in sent : y.uuid # Fresh(x)
  BY <1>1, FreshNew DEF ServiceInv
<1>3. CASE ClientCall(x)
  <2>1. PICK t \in Targets[x], method \in Calls :
          sent' = sent \cup {NewMsg(Fresh(x), "CALL", x, Home[x], t[1], t[2], method)}
    BY <1>3 DEF ClientCall, Tick
  <2>2. got' = got
    BY <1>3 DEF ClientCall
  <2> DEFINE m == NewMsg(Fresh(x), "CALL", x, Home[x], t[1], t[2], method)
  <2>3. m.type = "CALL" /\ m.srcsub = x /\ m.src = Home[x] /\ m.method = method /\ m.uuid = Fresh(x)
    BY DEF NewMsg
  <2>4. sent' = sent \cup {m}
    BY <2>1
  <2> HIDE DEF m
  <2>5. Makes(m)
    BY <1>2, <2>2, <2>3, <2>4 DEF Makes, Accounted
  <2> QED
    BY <2>5
<1>4. CASE ClientReceive(x)
  <2> DEFINE q == chan[Link(x)][x]
             m == Head(q)
             r == ReplyTo(m, Fresh(x), x, Home[x], "OK")
  <2>1. /\ q # <<>> /\ got' = [got EXCEPT ![x] = Append(@, m)]
        /\ \/ m.method = "ping" /\ m.type = "CALL" /\ sent' = sent \cup {r}
           \/ sent' = sent
    BY <1>4 DEF ClientReceive, Tick, Link
  <2>2. Link(x) \in Conns /\ q \in Seq(Messages)
    BY <1>1, LinkType DEF Link, TypeInv, TypeOK
  <2>3. m \in sent /\ m \in Elems(q) /\ m.uuid \in UuidsIn(q)
    BY <1>1, <2>1, <2>2, ArrivedMade, HeadFacts
  <2>4. IsFor(x, m) /\ m.uuid \notin UuidsIn(got[x])
    BY <2>3 DEF ServiceInv, ReachAddressee, HandedOnce
  <2>5. /\ r.type = "RET" /\ r.uuidorig = m.uuid /\ r.method = m.method /\ r.dst = m.src
        /\ r.dstsub = m.srcsub /\ r.srcsub = x /\ r.src = Home[x]
    BY DEF ReplyTo
  <2> HIDE DEF m, r, q
  <2>6. ClientTakes(x, m)
    BY <2>1, <2>4 DEF ClientTakes
  <2>7. ASSUME m.method = "ping", m.type = "CALL", sent' = sent \cup {r}
        PROVE  ClientAnswers(x, m, r)
    BY <2>4, <2>5, <2>7 DEF ClientAnswers, Answers, IsFor
  <2> QED
    BY <2>1, <2>3, <2>6, <2>7
<1>5. CASE Connect(x) \/ ClientQuit(x)
  BY <1>5 DEF Connect, ClientQuit
<1> QED
  BY <1>3, <1>4, <1>5 DEF ClientStep

LEMMA TcsMakes ==
  ASSUME TypeInv, ServiceInv, NEW n \in Servers, TcsStep(n)
  PROVE  \/ sent' = sent /\ got' = got
         \/ \E m \in sent : \E R : TcsAnswers(n, m, R)
<1>1. CASE TcsSend(n)
  BY <1>1 DEF TcsSend
<1>2. CASE TcsReceive(n)
  <2> DEFINE m == Head(mqIn[n])
             s == TcsStatuses(m)
             i == TcId[n]
             replies == [k \in 1..Len(s) |-> ReplyTo(m, <<i, clock[i] + k - 1>>, i, n, s[k])]
             R == {replies[k] : k \in 1..Len(s)}
  <2>1. sent' = sent \cup R /\ got' = got /\ mqIn[n] # <<>> /\ mqIn[n] \in Seq(Messages)
    BY <1>2 DEF TcsReceive, TypeInv, TypeOK
  <2>2. m \in sent /\ m.dst = n /\ m.dstsub = i /\ i \in TcServers
    BY <1>2, TcsReceiveDoes, ConfigAssumption DEF IsForTcs
  <2>3. m \in Elems(mqIn[n])
    BY <2>1, HeadFacts
  <2>4. m.type = "CALL"
    BY <2>2, PingIsCall
  <2>5. \A k \in 1..Len(s) :
          /\ replies[k].type = "RET" /\ replies[k].uuidorig = m.uuid
          /\ replies[k].method = m.method /\ replies[k].dst = m.src
          /\ replies[k].dstsub = m.srcsub /\ replies[k].srcsub = i /\ replies[k].src = n
    BY DEF ReplyTo
  <2>6. m.method # "pingtcs" => Len(s) = 1
    BY DEF TcsStatuses
  <2> HIDE DEF m, s, replies
  <2>7. \A r \in R : Answers(m, r) /\ r.type = "RET" /\ r.srcsub = i /\ r.src = n
    BY <2>2, <2>4, <2>5 DEF Answers
  <2>8. ASSUME m.method # "pingtcs" PROVE \A r, t \in R : r = t
    <3>1. Len(s) = 1
      BY <2>6, <2>8
    <3>2. \A k \in 1..Len(s) : k = 1
      BY <3>1
    <3> QED
      BY <3>2
  <2> HIDE DEF R, i
  <2>9. TcsAnswers(n, m, R)
    BY <2>1, <2>3, <2>7, <2>8 DEF TcsAnswers, i
  <2> QED
    BY <2>2, <2>9
<1> QED
  BY <1>1, <1>2 DEF TcsStep

\* What every step makes and delivers.
LEMMA StepMakes ==
  ASSUME TypeInv, ServiceInv, [Next]_vars
  PROVE  \/ sent' = sent /\ got' = got
         \/ \E m : Makes(m)
         \/ \E n \in Servers, m \in sent : \E r : ServerAnswers(n, m, r)
         \/ \E x \in Clients, m \in sent :
              ClientTakes(x, m) /\ (sent' = sent \/ \E r : ClientAnswers(x, m, r))
         \/ \E n \in Servers, m \in sent : \E R : TcsAnswers(n, m, R)
<1>1. CASE UNCHANGED vars
  BY <1>1 DEF vars
<1>2. ASSUME NEW c \in Conns, Handshake(c) PROVE sent' = sent /\ got' = got
  BY <1>2 DEF Handshake, LogIn, LogInFails, Orphaned
<1>3. CASE Next
  BY <1>2, <1>3, ServerMakes, ClientMakes, TcsMakes DEF Next
<1> QED
  BY <1>1, <1>3

\* Every step keeps Origins.
LEMMA OriginsStep ==
  ASSUME TypeInv, ServiceInv, [Next]_vars
  PROVE  Origins'
<1>1. ASSUME sent \subseteq sent', NEW m, Accounted(m) PROVE Accounted(m)'
  BY <1>1 DEF Accounted, Answers
<1>2. \A m \in sent : Accounted(m)
  BY DEF ServiceInv, Origins
<1>3. ASSUME NEW r, r.type = "RET", NEW k \in sent, Answers(k, r) PROVE Accounted(r)
  BY <1>3 DEF Accounted
<1>4. ASSUME sent \subseteq sent', \A r \in sent' \ sent : Accounted(r) PROVE Origins'
  <2> SUFFICES ASSUME NEW r \in sent' PROVE Accounted(r)'
    BY DEF Origins
  <2>1. Accounted(r)
    BY <1>2, <1>4
  <2> QED
    BY <1>1, <1>4, <2>1
<1>5. CASE sent' = sent
  BY <1>4, <1>5
<1>6. ASSUME NEW m, Makes(m) PROVE Origins'
  BY <1>4, <1>6 DEF Makes
<1>7. ASSUME NEW n \in Servers, NEW m \in sent, NEW r, ServerAnswers(n, m, r) PROVE Origins'
  BY <1>3, <1>4, <1>7 DEF ServerAnswers
<1>8. ASSUME NEW x \in Clients, NEW m \in sent, NEW r, ClientAnswers(x, m, r) PROVE Origins'
  BY <1>3, <1>4, <1>8 DEF ClientAnswers
<1>9. ASSUME NEW n \in Servers, NEW m \in sent, NEW R, TcsAnswers(n, m, R) PROVE Origins'
  BY <1>3, <1>4, <1>9 DEF TcsAnswers
<1> QED
  BY <1>5, <1>6, <1>7, <1>8, <1>9, StepMakes
-----------------------------------------------------------------------------
(* The invariant *)

LEMMA ServiceInit == Init => ServiceInv
<1> SUFFICES ASSUME Init PROVE ServiceInv
  OBVIOUS
<1>1. /\ \A c \in Conns, e \in Ends : chan[c][e] = <<>>
      /\ \A n \in Servers : /\ mqIn[n] = <<>> /\ mqOut[n] = <<>> /\ tcs[n] = <<>>
                            /\ cur[n] = None /\ seen[n] = {}
                            /\ \A i \in Ids : routes[n][i] = None
      /\ \A x \in Clients : got[x] = <<>>
      /\ sent = {}
  BY DEF Init
<1>2. Elems(<<>>) = {} /\ UuidsIn(<<>>) = {} /\ AllDifferent(<<>>)
  BY DEF Elems, UuidsIn, AllDifferent
<1>3. \A x \in Clients : chan[Link(x)][x] = <<>>
  BY <1>1, LinkType DEF Link, Ends
<1>4. Returns = {}
  BY <1>1 DEF Returns
<1>5. TablesLead /\ UuidsName /\ SeenMade /\ UnderWayMade /\ ReachAddressee /\ Origins
  <2>1. TablesLead
    BY <1>1, IdsAssumption DEF TablesLead
  <2>2. UuidsName /\ SeenMade /\ Origins
    BY <1>1 DEF UuidsName, SeenMade, Origins
  <2>3. UnderWayMade
    BY <1>1, <1>2 DEF UnderWayMade
  <2>4. ReachAddressee
    BY <1>1, <1>2, <1>3 DEF ReachAddressee
  <2> QED
    BY <2>1, <2>2, <2>3, <2>4
<1>6. ASSUME NEW n \in Servers PROVE Handed(n) = {}
  <2>1. UuidsIn(mqIn[n]) = {}
    BY <1>1, <1>2
  <2>2. {r.uuidorig : r \in {x \in Returns : x.srcsub \in TcServers /\ x.src = n}} = {}
    BY <1>4
  <2>3. \A x \in Clients : UuidsIn(chan[Link(x)][x]) \cup UuidsIn(got[x]) = {}
    BY <1>1, <1>2, <1>3
  <2>4. UNION {UuidsIn(chan[Link(x)][x]) \cup UuidsIn(got[x]) : x \in {x \in Clients : Home[x] = n}} = {}
    BY <2>3
  <2> QED
    BY <2>1, <2>2, <2>4 DEF Handed
<1>7. HandedSeen
  <2>1. ASSUME NEW n \in Servers PROVE Handed(n) \subseteq seen[n]
    BY <1>6, <2>1
  <2>2. ASSUME NEW n \in Servers
        PROVE  cur[n] # None => cur[n].uuid \in seen[n] \ Handed(n)
    BY <1>1, <2>2
  <2> QED
    BY <2>1, <2>2, Zenon DEF HandedSeen
<1>8. HandedOnce
  BY <1>1, <1>2, <1>3, <1>4 DEF HandedOnce
<1> QED
  BY <1>5, <1>7, <1>8 DEF ServiceInv

\* Every step keeps ServiceInv: it forwards messages, or a client or a tc-server is
\* handed one.
LEMMA ServiceStep == TypeInv /\ ServiceInv /\ [Next]_vars => ServiceInv'
<1> SUFFICES ASSUME TypeInv, ServiceInv, [Next]_vars PROVE ServiceInv'
  OBVIOUS
<1> DEFINE Keeps == UnderWayMade' /\ SeenMade' /\ ReachAddressee' /\ HandedSeen' /\ HandedOnce'
<1>1. TypeInv'
  BY TypeStep
<1>2. TablesLead' /\ UuidsName' /\ Origins'
  BY TablesStep, UuidsStep, OriginsStep DEF ServiceInv
<1>3. ASSUME NEW n \in Servers, \E M : Forwards(n, M) PROVE Keeps
  BY <1>1, <1>3, ForwardsMade, ForwardsReach, ForwardsSeen, ForwardsOnce
<1> HIDE DEF Keeps
<1>4. ASSUME UNCHANGED vars PROVE Keeps
  <2>1. UnderWayMade' /\ SeenMade' /\ ReachAddressee'
    BY <1>4 DEF vars, srvVars, netVars, mqVars, ServiceInv, UnderWayMade, SeenMade,
                ReachAddressee
  <2>2. HandedSeen' /\ HandedOnce'
    BY <1>4 DEF vars, srvVars, netVars, mqVars, ServiceInv, HandedSeen, HandedOnce, Handed,
                Returns
  <2> QED
    BY <2>1, <2>2 DEF Keeps
<1>5. ASSUME NEW n \in Servers, ServerStep(n) PROVE Keeps
  <2>1. \E M : Forwards(n, M)
    BY <1>5, StartForwards, TopForwards, DrainMQForwards, ReceiveForwards, FloodForwards,
       AcceptCloseForwards DEF ServerStep, LoopStep
  <2> QED
    BY <1>3, <2>1
<1>6. ASSUME NEW n \in Servers, TcsStep(n) PROVE Keeps
  <2>1. CASE TcsReceive(n)
    BY <1>1, <2>1, TcsReceiveKeeps DEF Keeps
  <2>2. CASE TcsSend(n)
    BY <1>3, <2>2, TcsSendForwards
  <2> QED
    BY <1>6, <2>1, <2>2 DEF TcsStep
<1>7. ASSUME NEW c \in Conns, Handshake(c) PROVE Keeps
  <2>1. c[2] \in Servers
    BY DEF Conns
  <2> QED
    BY <1>3, <1>7, <2>1, HandshakeForwards
<1>8. ASSUME NEW x \in Clients, ClientStep(x) PROVE Keeps
  <2>1. CASE ClientReceive(x)
    BY <1>1, <2>1, ClientReceiveKeeps DEF Keeps
  <2>2. CASE Connect(x) \/ ClientCall(x) \/ ClientQuit(x)
    <3>1. Home[x] \in Servers
      BY ConfigAssumption
    <3> QED
      BY <1>3, <2>2, <3>1, ClientForwards
  <2> QED
    BY <1>8, <2>1, <2>2 DEF ClientStep
<1>9. Keeps
  <2>1. ASSUME \E n \in Servers : ServerStep(n) \/ TcsStep(n) PROVE Keeps
    BY <1>5, <1>6, <2>1
  <2>2. ASSUME \E c \in Conns : Handshake(c) PROVE Keeps
    BY <1>7, <2>2
  <2>3. ASSUME \E x \in Clients : ClientStep(x) PROVE Keeps
    BY <1>8, <2>3
  <2> QED
    BY <1>4, <2>1, <2>2, <2>3 DEF Next
<1> QED
  BY <1>2, <1>9 DEF ServiceInv, Keeps

\* A message is only ever handed to what it is addressed to and by the server that is
\* attached to, which hands over what it has not seen, and every answer answers a
\* call (floodRoute(), sendData(), tcServer.pl and tcClient.pl together).
THEOREM ServiceInvariant == Spec => []ServiceInv
<1> QED
  BY ServiceInit, ServiceStep, TypeInvariant, PTL DEF Spec
-----------------------------------------------------------------------------
(* Answers to a call *)

\* Nobody calls pingtcs, which a tc-server answers twice.
NoPingtcs == "pingtcs" \notin Calls

LEMMA OneStatus ==
  ASSUME ServiceInv, NoPingtcs, NEW m \in sent, m.type = "CALL"
  PROVE  m.method # "pingtcs"
<1>1. Accounted(m)
  BY DEF ServiceInv, Origins
<1> QED
  BY <1>1 DEF Accounted, NoPingtcs

\* Nobody has answered yet the message that a client or a tc-server answers.
LEMMA NotYetAnswered ==
  ASSUME TypeInv, ServiceInv, NEW m \in sent, NEW s \in Returns, s.uuidorig = m.uuid
  PROVE  /\ \A x \in Clients : ClientTakes(x, m) => s.srcsub # x
         /\ \A n \in Servers : m \in Elems(mqIn[n]) => s.srcsub # TcId[n]
<1>1. ASSUME NEW x \in Clients, ClientTakes(x, m), s.srcsub = x PROVE FALSE
  BY <1>1 DEF ClientTakes, ServiceInv, HandedOnce
<1>2. ASSUME NEW n \in Servers, m \in Elems(mqIn[n]), s.srcsub = TcId[n] PROVE FALSE
  <2>1. TcId[n] \in TcServers
    BY ConfigAssumption
  <2>2. m.uuid \in UuidsIn(mqIn[n])
    BY <1>2, UuidsOfElems
  <2>3. s.src # n
    BY <1>2, <2>1, <2>2 DEF ServiceInv, HandedOnce
  <2>4. m.dst = n
    BY <1>2 DEF ServiceInv, ReachAddressee, IsForTcs
  <2>5. PICK k \in sent : Answers(k, s)
    BY DEF Returns, IsReturn, ServiceInv, Origins, Accounted
  <2>6. k = m
    BY <2>5 DEF Answers, ServiceInv, UuidsName
  <2>7. m.dst \in {Bcast, s.src} \/ m.dst = s.srcsub
    BY <2>5, <2>6 DEF Answers
  <2>8. n # Bcast /\ n # TcId[n]
    BY <2>1, IdsAssumption DEF Ids
  <2> QED
    BY <1>2, <2>3, <2>4, <2>7, <2>8
<1> QED
  BY <1>1, <1>2

LEMMA AttachedStep ==
  ASSUME NoPingtcs, TypeInv, ServiceInv, AttachedAnswerOnce, [Next]_vars
  PROVE  AttachedAnswerOnce'
<1>1. ASSUME NEW R, sent' = sent \cup R, \A r, s \in R : r = s, NEW m,
             \A r \in R : r.uuidorig = m.uuid,
             \A r \in R, s \in Returns : s.uuidorig = m.uuid => r.srcsub # s.srcsub
      PROVE  AttachedAnswerOnce'
  <2>1. Returns' \subseteq Returns \cup R
    BY <1>1 DEF Returns, IsReturn
  <2> SUFFICES ASSUME NEW r \in Returns', NEW s \in Returns', r.srcsub # Self,
                      r.srcsub = s.srcsub, r.uuidorig = s.uuidorig
               PROVE  r = s
    BY DEF AttachedAnswerOnce
  <2>2. CASE r \in Returns /\ s \in Returns
    BY <2>2 DEF AttachedAnswerOnce
  <2>3. CASE r \in R /\ s \in R
    BY <1>1, <2>3
  <2>4. CASE (r \in R /\ s \in Returns) \/ (r \in Returns /\ s \in R)
    BY <1>1, <2>4
  <2> QED
    BY <2>1, <2>2, <2>3, <2>4
<1>2. ASSUME Returns' \subseteq Returns PROVE AttachedAnswerOnce'
  BY <1>2 DEF AttachedAnswerOnce
<1>3. CASE sent' = sent
  BY <1>2, <1>3 DEF Returns
<1>4. ASSUME NEW m, Makes(m) PROVE AttachedAnswerOnce'
  BY <1>2, <1>4 DEF Makes, Returns, IsReturn
<1>5. ASSUME NEW n \in Servers, NEW m \in sent, NEW r, ServerAnswers(n, m, r)
      PROVE  AttachedAnswerOnce'
  <2>1. Returns' \subseteq Returns \cup {r} /\ r.srcsub = Self
    BY <1>5 DEF ServerAnswers, Returns
  <2> QED
    BY <2>1 DEF AttachedAnswerOnce
<1>6. ASSUME NEW x \in Clients, NEW m \in sent, NEW r, ClientTakes(x, m), ClientAnswers(x, m, r)
      PROVE  AttachedAnswerOnce'
  <2> DEFINE R == {r}
  <2>1. sent' = sent \cup R /\ r.srcsub = x /\ r.uuidorig = m.uuid
    BY <1>6 DEF ClientAnswers, Answers
  <2>2. \A s \in Returns : s.uuidorig = m.uuid => s.srcsub # x
    BY <1>6, NotYetAnswered
  <2>3. /\ \A t, s \in R : t = s
        /\ \A t \in R : t.uuidorig = m.uuid
        /\ \A t \in R, s \in Returns : s.uuidorig = m.uuid => t.srcsub # s.srcsub
    BY <2>1, <2>2
  <2> HIDE DEF R
  <2> QED
    BY <1>1, <2>1, <2>3
<1>7. ASSUME NEW n \in Servers, NEW m \in sent, NEW R, TcsAnswers(n, m, R)
      PROVE  AttachedAnswerOnce'
  <2>1. CASE R = {}
    BY <1>2, <1>7, <2>1 DEF TcsAnswers, Returns
  <2>2. CASE R # {}
    <3>1. m.type = "CALL"
      BY <1>7, <2>2 DEF TcsAnswers, Answers
    <3>2. /\ sent' = sent \cup R /\ m \in Elems(mqIn[n])
          /\ \A r \in R : r.uuidorig = m.uuid /\ r.srcsub = TcId[n]
          /\ \A r, s \in R : r = s
      BY <1>7, <3>1, OneStatus DEF TcsAnswers, Answers
    <3>3. \A s \in Returns : s.uuidorig = m.uuid => s.srcsub # TcId[n]
      BY <3>2, NotYetAnswered
    <3>4. \A t \in R, s \in Returns : s.uuidorig = m.uuid => t.srcsub # s.srcsub
      BY <3>2, <3>3
    <3> QED
      BY <1>1, <3>2, <3>4
  <2> QED
    BY <2>1, <2>2
<1> QED
  BY <1>3, <1>4, <1>5, <1>6, <1>7, StepMakes

\* In every network in which nobody calls pingtcs, a call reaches a client or a
\* tc-server once and gets one answer there, although the flood brings copies of it
\* to their server by every route.
THEOREM AttachedOnce ==
  ASSUME NoPingtcs
  PROVE  Spec => []AttachedAnswerOnce
<1>1. Init => AttachedAnswerOnce
  BY DEF Init, AttachedAnswerOnce, Returns
<1>2. TypeInv /\ ServiceInv /\ AttachedAnswerOnce /\ [Next]_vars => AttachedAnswerOnce'
  BY AttachedStep
<1> QED
  BY <1>1, <1>2, TypeInvariant, ServiceInvariant, PTL DEF Spec
-----------------------------------------------------------------------------
(* The call service *)

brought == [c \in Clients |-> BroughtTo(c)]

\* What is brought to a client changes when it is handed an answer.
LEMMA SameBrought ==
  ASSUME got' = got
  PROVE  brought' = brought
  BY DEF brought, BroughtTo

LEMMA TakenBrought ==
  ASSUME TypeInv, NEW x \in Clients, NEW m \in sent, got' = [got EXCEPT ![x] = Append(@, m)]
  PROVE  LET y == [id |-> m.uuid, when |-> Len(got[x]) + 1] IN
         /\ ~IsReturn(m) => brought' = brought
         /\ IsReturn(m) => /\ brought' = [brought EXCEPT ![x] = @ \cup {y}]
                           /\ brought'[x] = BroughtTo(x) \cup {y}
         /\ \A z \in BroughtTo(x) : z.when < y.when /\ z.id \in UuidsIn(got[x])
<1> DEFINE q == got[x]
           y == [id |-> m.uuid, when |-> Len(q) + 1]
<1>1. q \in Seq(Messages) /\ m \in Messages /\ got \in [Clients -> Seq(Messages)]
  BY DEF TypeInv, TypeOK
<1>2. got'[x] = Append(q, m) /\ \A c \in Clients : c # x => got'[c] = got[c]
  BY <1>1
<1>3. /\ Len(q) \in Nat /\ Len(Append(q, m)) = Len(q) + 1 /\ Append(q, m)[Len(q) + 1] = m
      /\ \A k \in 1..Len(q) : Append(q, m)[k] = q[k]
  BY <1>1
<1>4. \A c \in Clients : c # x => BroughtTo(c)' = BroughtTo(c)
  BY <1>2 DEF BroughtTo
<1> DEFINE old == {k \in 1..Len(q) : IsReturn(q[k])}
           new == {k \in 1..Len(Append(q, m)) : IsReturn(Append(q, m)[k])}
<1>5. /\ BroughtTo(x) = {[id |-> q[k].uuid, when |-> k] : k \in old}
      /\ BroughtTo(x)' = {[id |-> Append(q, m)[k].uuid, when |-> k] : k \in new}
  BY <1>2 DEF BroughtTo
<1>6. /\ \A k \in old : Append(q, m)[k] = q[k] /\ k \in new
      /\ \A k \in new : k \in old \/ (k = Len(q) + 1 /\ IsReturn(m))
      /\ IsReturn(m) => Len(q) + 1 \in new
  BY <1>3
<1>7. ~IsReturn(m) => new = old
  BY <1>6
<1>8. IsReturn(m) => new = old \cup {Len(q) + 1}
  BY <1>6
<1>9. \A k \in old : k < Len(q) + 1 /\ q[k].uuid \in UuidsIn(q)
  BY <1>3 DEF UuidsIn
<1> HIDE DEF old, new, q
<1>10. ~IsReturn(m) => BroughtTo(x)' = BroughtTo(x)
  BY <1>5, <1>6, <1>7
<1>11. ASSUME IsReturn(m) PROVE BroughtTo(x)' = BroughtTo(x) \cup {y}
  <2>1. BroughtTo(x)' = {[id |-> Append(q, m)[k].uuid, when |-> k] : k \in old}
                          \cup {[id |-> Append(q, m)[Len(q) + 1].uuid, when |-> Len(q) + 1]}
    BY <1>5, <1>8, <1>11
  <2>2. {[id |-> Append(q, m)[k].uuid, when |-> k] : k \in old} = BroughtTo(x)
    BY <1>5, <1>6
  <2> QED
    BY <1>3, <2>1, <2>2
<1>12. \A z \in BroughtTo(x) : z.when < y.when /\ z.id \in UuidsIn(q)
  BY <1>5, <1>9
<1> HIDE DEF y
<1>13. ~IsReturn(m) => brought' = brought
  BY <1>4, <1>10 DEF brought
<1>14. IsReturn(m) => brought' = [brought EXCEPT ![x] = @ \cup {y}] /\ brought'[x] = BroughtTo(x) \cup {y}
  BY <1>4, <1>11 DEF brought
<1> QED
  BY <1>12, <1>13, <1>14 DEF y, q

\* A client's call is placed; an event is nothing to the service.
LEMMA MakesPlaces ==
  ASSUME NEW m, Makes(m)
  PROVE  Service!Place \/ UNCHANGED <<placed, given, brought>>
<1> DEFINE c == [id |-> m.uuid, by |-> m.srcsub, sub |-> m.dstsub, at |-> m.dst]
<1>1. brought' = brought
  BY SameBrought DEF Makes
<1>2. given' = given
  BY DEF Makes, given, Returns, IsReturn
<1>3. CASE m.type = "CALL"
  <2>1. placed' = placed \cup {c}
    BY <1>3 DEF Makes, placed
  <2>2. \A d \in placed : d.id # c.id
    BY DEF Makes, placed
  <2> HIDE DEF c
  <2>3. c \in placed'
    BY <2>1
  <2> QED
    BY <1>1, <1>2, <2>1, <2>2, <2>3 DEF Service!Place, brought
<1>4. CASE m.type # "CALL"
  <2>1. placed' = placed
    BY <1>4 DEF Makes, placed
  <2> QED
    BY <1>1, <1>2, <2>1
<1> QED
  BY <1>3, <1>4

\* An answer, from one who has not answered yet, is given.
LEMMA AnswerGiven ==
  ASSUME NEW m \in sent, NEW r, Answers(m, r), r.type = "RET", sent' = sent \cup {r},
         brought' = brought,
         \A s \in Returns : s.uuidorig = m.uuid => s.srcsub # r.srcsub \/ s.src # r.src
  PROVE  Service!Answer
<1> DEFINE a == [id |-> r.uuid, call |-> r.uuidorig, sub |-> r.srcsub, at |-> r.src]
           c == [id |-> m.uuid, by |-> m.srcsub, sub |-> m.dstsub, at |-> m.dst]
<1>1. given' = given \cup {a}
  BY DEF given, Returns, IsReturn
<1>2. placed' = placed
  BY DEF placed
<1>3. c \in placed /\ a.call = c.id /\ Service!Addresses(c, a)
  BY DEF placed, Answers, Service!Addresses
<1>4. \A b \in given : <<b.call, b.sub, b.at>> # <<a.call, a.sub, a.at>>
  BY DEF given, Answers
<1> HIDE DEF a, c
<1>5. a \in given'
  BY <1>1
<1>6. \E k \in placed : a.call = k.id /\ Service!Addresses(k, a)
  BY <1>3
<1> QED
  BY <1>1, <1>2, <1>4, <1>5, <1>6 DEF Service!Answer, brought

\* An answer a client is handed comes back to the client that called.
LEMMA TakesReturns ==
  ASSUME TypeInv, ServiceInv, NEW x \in Clients, NEW m \in sent, ClientTakes(x, m),
         sent' = sent, IsReturn(m)
  PROVE  Service!Return
<1> DEFINE y == [id |-> m.uuid, when |-> Len(got[x]) + 1]
           a == [id |-> m.uuid, call |-> m.uuidorig, sub |-> m.srcsub, at |-> m.src]
<1>1. /\ brought' = [brought EXCEPT ![x] = @ \cup {y}] /\ brought'[x] = BroughtTo(x) \cup {y}
      /\ \A z \in BroughtTo(x) : z.when < y.when /\ z.id \in UuidsIn(got[x])
  BY TakenBrought DEF ClientTakes
<1>2. placed' = placed /\ given' = given
  BY DEF placed, given, Returns
<1>3. m.uuid \notin UuidsIn(got[x]) /\ IsFor(x, m)
  BY DEF ClientTakes
<1>4. PICK k \in sent : Answers(k, m)
  BY DEF ServiceInv, Origins, Accounted, IsReturn
<1>5. k.srcsub = x
  <2>1. m.dst = k.src /\ m.dstsub = k.srcsub
    BY <1>4 DEF Answers
  <2>2. k.src \in Servers /\ x \notin Servers
    BY IdsAssumption DEF TypeInv, TypeOK, Messages
  <2> QED
    BY <1>3, <2>1, <2>2 DEF IsFor
<1> DEFINE c == [id |-> k.uuid, by |-> k.srcsub, sub |-> k.dstsub, at |-> k.dst]
<1>6. c \in placed /\ a \in given /\ a.call = c.id /\ c.by = x
  BY <1>4, <1>5 DEF Answers, placed, given, Returns
<1>7. \A z \in BroughtTo(x) : z.id # y.id /\ z.when < y.when
  BY <1>1, <1>3
<1>8. brought[x] = BroughtTo(x) /\ y \in brought'[x] /\ y.id = a.id
  BY <1>1 DEF brought
<1> HIDE DEF a, c, y
<1>9. \E z \in brought'[x] :
        /\ z.id = a.id
        /\ \A w \in brought[x] : w.id # z.id /\ w.when < z.when
        /\ brought' = [brought EXCEPT ![x] = @ \cup {z}]
  BY <1>1, <1>7, <1>8
<1>10. c.by \in Clients /\ a.call = c.id
       /\ \E z \in brought'[c.by] :
            /\ z.id = a.id
            /\ \A w \in brought[c.by] : w.id # z.id /\ w.when < z.when
            /\ brought' = [brought EXCEPT ![c.by] = @ \cup {z}]
  BY <1>6, <1>9
<1>11. \E d \in placed, b \in given :
         /\ b.call = d.id /\ d.by \in Clients
         /\ \E z \in brought'[d.by] :
              /\ z.id = b.id
              /\ \A w \in brought[d.by] : w.id # z.id /\ w.when < z.when
              /\ brought' = [brought EXCEPT ![d.by] = @ \cup {z}]
  BY <1>6, <1>10
<1> QED
  BY <1>2, <1>11 DEF Service!Return, brought

\* Every step is one of the service or a stutter.
LEMMA ServiceStepped ==
  ASSUME NoPingtcs, TypeInv, ServiceInv, OnceInv, [Next]_vars
  PROVE  Service!Next \/ UNCHANGED <<placed, given, brought>>
<1>1. CASE sent' = sent /\ got' = got
  BY <1>1, SameBrought DEF placed, given, Returns
<1>2. ASSUME NEW m, Makes(m)
      PROVE  Service!Next \/ UNCHANGED <<placed, given, brought>>
  BY <1>2, MakesPlaces DEF Service!Next
<1>3. ASSUME NEW n \in Servers, NEW m \in sent, NEW r, ServerAnswers(n, m, r)
      PROVE  Service!Answer
  <2>1. /\ Answers(m, r) /\ r.type = "RET" /\ sent' = sent \cup {r} /\ brought' = brought
        /\ r.srcsub = Self /\ r.src = n /\ m.uuid \notin seen[n]
    BY <1>3, SameBrought DEF ServerAnswers
  <2>2. \A s \in Returns : s.uuidorig = m.uuid => s.srcsub # r.srcsub \/ s.src # r.src
    BY <2>1 DEF OnceInv, AnsweredSeen, IsAnswer, Returns
  <2> QED
    BY <2>1, <2>2, AnswerGiven
<1>4. ASSUME NEW x \in Clients, NEW m \in sent, ClientTakes(x, m), sent' = sent
      PROVE  Service!Next \/ UNCHANGED <<placed, given, brought>>
  <2>1. CASE IsReturn(m)
    BY <1>4, <2>1, TakesReturns DEF Service!Next
  <2>2. CASE ~IsReturn(m)
    BY <1>4, <2>2, TakenBrought DEF ClientTakes, placed, given, Returns
  <2> QED
    BY <2>1, <2>2
<1>5. ASSUME NEW x \in Clients, NEW m \in sent, NEW r, ClientTakes(x, m), ClientAnswers(x, m, r)
      PROVE  Service!Answer
  <2>1. /\ Answers(m, r) /\ r.type = "RET" /\ sent' = sent \cup {r} /\ r.srcsub = x
        /\ m.type = "CALL"
    BY <1>5 DEF ClientAnswers, Answers
  <2>2. brought' = brought
    BY <1>5, <2>1, TakenBrought DEF ClientTakes, IsReturn
  <2>3. \A s \in Returns : s.uuidorig = m.uuid => s.srcsub # r.srcsub \/ s.src # r.src
    BY <1>5, <2>1, NotYetAnswered
  <2> QED
    BY <2>1, <2>2, <2>3, AnswerGiven
<1>6. ASSUME NEW n \in Servers, NEW m \in sent, NEW R, TcsAnswers(n, m, R)
      PROVE  Service!Next \/ UNCHANGED <<placed, given, brought>>
  <2>1. sent' = sent \cup R /\ got' = got /\ brought' = brought /\ m \in Elems(mqIn[n])
    BY <1>6, SameBrought DEF TcsAnswers
  <2>2. CASE R = {}
    BY <1>1, <2>1, <2>2
  <2>3. ASSUME NEW r \in R PROVE Service!Answer
    <3>1. Answers(m, r) /\ r.type = "RET" /\ r.srcsub = TcId[n] /\ m.type = "CALL"
      BY <1>6, <2>3 DEF TcsAnswers, Answers
    <3>2. R = {r}
      BY <1>6, <2>3, <3>1, OneStatus DEF TcsAnswers
    <3>3. \A s \in Returns : s.uuidorig = m.uuid => s.srcsub # r.srcsub \/ s.src # r.src
      BY <2>1, <3>1, NotYetAnswered
    <3>4. sent' = sent \cup {r}
      BY <2>1, <3>2
    <3> QED
      BY <2>1, <3>1, <3>3, <3>4, AnswerGiven
  <2> QED
    BY <2>2, <2>3 DEF Service!Next
<1> QED
  BY <1>1, <1>2, <1>3, <1>4, <1>5, <1>6, StepMakes DEF Service!Next

\* In every network in which nobody calls pingtcs, whatever its servers, their links
\* and what is attached to them, the clients have the service of MessCall: whoever is
\* addressed answers a call at most once, and an answer comes back to its caller
\* alone and at most once (Exchange, floodRoute(), sendData(), the clients and the
\* tc-servers together).
THEOREM ServiceGiven ==
  ASSUME NoPingtcs
  PROVE  Spec => ImplementsService
<1>1. Init => Service!Init
  BY DEF Init, Service!Init, placed, given, BroughtTo, Returns
<1>2. TypeInv /\ ServiceInv /\ OnceInv /\ [Next]_vars => [Service!Next]_(Service!vars)
  BY ServiceStepped DEF Service!vars, brought
<1>3. Init => OnceInv
  BY DEF Init, OnceInv, ServersAnswerOnce, AnsweredSeen, Returns
<1>4. TypeInv /\ OnceInv /\ [Next]_vars => OnceInv'
  BY OnceStep
<1>5. Spec => []OnceInv
  BY <1>3, <1>4, TypeInvariant, PTL DEF Spec
<1> QED
  BY <1>1, <1>2, <1>5, TypeInvariant, ServiceInvariant, PTL
     DEF Spec, ImplementsService, Service!Spec
=============================================================================
