--------------------------- MODULE MessNetTypes ---------------------------
(***************************************************************************)
(* Type correctness of MessNet, for every network: any number of servers,   *)
(* clients and tc-servers, any configuration and any bounds.                *)
(*                                                                          *)
(* TypeOK is inductive together with CurOK: a server that is about to       *)
(* continue floodRoute() holds the message it is routing.                   *)
(***************************************************************************)
EXTENDS MessNet, TLAPS

CurOK == \A n \in Servers : pc[n] = "flood" => cur[n] \in Messages
TypeInv == TypeOK /\ CurOK

ChanType == [Conns -> [Ends -> Seq(Messages)]]
RouteType == [Ids -> Conns \cup {MQ, None}]
-----------------------------------------------------------------------------
(* What the operators return *)

\* NewMsg makes messages (MessMessage::new).
LEMMA NewMsgType ==
  ASSUME NEW uuid \in UUIDs, NEW type \in Types, NEW srcsub \in Ids \cup {Self},
         NEW src \in Servers, NEW dstsub \in Ids \cup {Self},
         NEW dst \in Ids \cup {Bcast}, NEW method \in Methods
  PROVE  NewMsg(uuid, type, srcsub, src, dstsub, dst, method) \in Messages
  BY DEF NewMsg, Messages, Statuses

\* So does ReplyTo, from a message.
LEMMA ReplyType ==
  ASSUME NEW m \in Messages, NEW uuid \in UUIDs, NEW srcsub \in Ids \cup {Self},
         NEW src \in Servers, NEW status \in Statuses
  PROVE  ReplyTo(m, uuid, srcsub, src, status) \in Messages
  BY DEF ReplyTo, Messages, Types, Ids

\* A fresh UUID is a UUID (OSSP::uuid::make).
LEMMA FreshType ==
  ASSUME TypeOK, NEW i \in Ids
  PROVE  Fresh(i) \in UUIDs
  BY DEF TypeOK, Fresh, UUIDs

\* Making a message keeps the clocks and the history well typed.
LEMMA TickType ==
  ASSUME TypeInv, NEW i \in Ids, NEW m \in Messages, Tick(i, m)
  PROVE  clock' \in [Ids -> Nat] /\ sent' \subseteq Messages
  BY DEF Tick, TypeInv, TypeOK

\* Writing a message keeps the type of the channels (sendData).
LEMMA PostType ==
  ASSUME NEW ch \in ChanType, NEW S, NEW n, NEW m \in Messages
  PROVE  Post(ch, S, n, m) \in ChanType
<1> SUFFICES ASSUME NEW c \in Conns
             PROVE  (IF c \in S THEN [ch[c] EXCEPT ![Other(c, n)] = Append(@, m)]
                                ELSE ch[c]) \in [Ends -> Seq(Messages)]
  BY DEF Post, ChanType
<1>1. ch[c] \in [Ends -> Seq(Messages)]
  BY DEF ChanType
<1>2. \A s \in Seq(Messages) : Append(s, m) \in Seq(Messages)
  OBVIOUS
<1> QED
  BY <1>1, <1>2

\* Reading the first message of a channel keeps its type (receiveData).
LEMMA PopType ==
  ASSUME NEW ch \in ChanType, NEW c \in Conns, NEW x \in Ends, ch[c][x] # <<>>
  PROVE  /\ Head(ch[c][x]) \in Messages
         /\ [ch EXCEPT ![c][x] = Tail(@)] \in ChanType
<1>1. ch[c] \in [Ends -> Seq(Messages)] /\ ch[c][x] \in Seq(Messages)
  BY DEF ChanType
<1>2. Head(ch[c][x]) \in Messages /\ Tail(ch[c][x]) \in Seq(Messages)
  BY <1>1
<1>3. [ch[c] EXCEPT ![x] = Tail(@)] \in [Ends -> Seq(Messages)]
  BY <1>1, <1>2
<1> QED
  BY <1>2, <1>3 DEF ChanType

\* Emptying an end of a channel keeps its type (close).
LEMMA EmptyType ==
  ASSUME NEW ch \in ChanType, NEW c \in Conns, NEW x \in Ends
  PROVE  [ch EXCEPT ![c][x] = <<>>] \in ChanType
<1>1. ch[c] \in [Ends -> Seq(Messages)] /\ <<>> \in Seq(Messages)
  BY DEF ChanType
<1>2. [ch[c] EXCEPT ![x] = <<>>] \in [Ends -> Seq(Messages)]
  BY <1>1
<1> QED
  BY <1>2 DEF ChanType

\* Moving a server on keeps its control state well formed.
LEMMA GoOnType ==
  ASSUME TypeInv, NEW n \in Servers, NEW label \in PCs,
         NEW rest \in SUBSET (Conns \cup {Listen}), NEW m \in Messages \cup {None},
         label = "flood" => m \in Messages,
         GoOn(n, label, rest, m)
  PROVE  /\ pc' \in [Servers -> PCs]
         /\ todo' \in [Servers -> SUBSET (Conns \cup {Listen})]
         /\ cur' \in [Servers -> Messages \cup {None}]
         /\ CurOK'
  BY DEF GoOn, TypeInv, TypeOK, CurOK

\* So does its death, which closes its connections.
LEMMA DieType ==
  ASSUME TypeInv, NEW n \in Servers, NEW ch \in ChanType, Die(n, ch)
  PROVE  /\ pc' \in [Servers -> PCs]
         /\ todo' \in [Servers -> SUBSET (Conns \cup {Listen})]
         /\ cur' \in [Servers -> Messages \cup {None}]
         /\ CurOK'
         /\ closed' \in [Conns -> SUBSET Ends]
         /\ chan' \in ChanType
<1>1. GoOn(n, "dead", {}, None)
  BY DEF Die
<1>2. "dead" \in PCs
  BY DEF PCs
<1>3. closed' \in [Conns -> SUBSET Ends]
  BY DEF Die, TypeInv, TypeOK, Ends
<1>4. chan' \in ChanType
  <2> SUFFICES ASSUME NEW c \in Conns
               PROVE  [ch[c] EXCEPT ![n] = <<>>] \in [Ends -> Seq(Messages)]
    BY DEF Die, ChanType
  <2>1. ch[c] \in [Ends -> Seq(Messages)]
    BY DEF ChanType
  <2>2. <<>> \in Seq(Messages)
    OBVIOUS
  <2> QED
    BY <2>1, <2>2
<1> QED
  BY <1>1, <1>2, <1>3, <1>4, GoOnType

\* Sending on keeps the types whether the server survives it or not.
LEMMA SendOnType ==
  ASSUME TypeInv, NEW n \in Servers, NEW ch \in ChanType, NEW m \in Messages,
         NEW label \in PCs, NEW rest \in SUBSET (Conns \cup {Listen}),
         NEW keep \in Messages \cup {None}, label = "flood" => keep \in Messages,
         SendOn(n, ch, m, label, rest, keep)
  PROVE  /\ pc' \in [Servers -> PCs]
         /\ todo' \in [Servers -> SUBSET (Conns \cup {Listen})]
         /\ cur' \in [Servers -> Messages \cup {None}]
         /\ CurOK'
         /\ closed' \in [Conns -> SUBSET Ends]
         /\ chan' \in ChanType
<1> DEFINE conns == {routes[n][i] : i \in NextHops(n, m, routes[n]) \ TcServers}
           usable == {c \in conns : n \notin closed[c]}
           alive == {c \in usable : Other(c, n) \notin closed[c]}
<1>1. CASE Die(n, ch)
  BY <1>1, DieType
<1>2. CASE /\ GoOn(n, label, rest, keep)
           /\ chan' = Post(ch, alive, n, m)
           /\ UNCHANGED closed
  <2>1. chan' \in ChanType
    BY <1>2, PostType
  <2>2. closed' \in [Conns -> SUBSET Ends]
    BY <1>2 DEF TypeInv, TypeOK
  <2> HIDE DEF alive
  <2> QED
    BY <1>2, <2>1, <2>2, GoOnType
<1>3. CASE \E S \in SUBSET alive : Die(n, Post(ch, S, n, m))
  <2>1. PICK S \in SUBSET alive : Die(n, Post(ch, S, n, m))
    BY <1>3
  <2>2. Post(ch, S, n, m) \in ChanType
    BY PostType
  <2> HIDE DEF alive
  <2> QED
    BY <2>1, <2>2, DieType
<1> QED
  BY <1>1, <1>2, <1>3 DEF SendOn
-----------------------------------------------------------------------------
(* Init and the actions of a server *)

\* Before anything is started, everything has its type.
LEMMA TypeInit == Init => TypeInv
<1> SUFFICES ASSUME Init PROVE TypeInv
  OBVIOUS
<1>1. <<>> \in Seq(Messages)
  OBVIOUS
<1> QED
  BY <1>1 DEF Init, TypeInv, TypeOK, CurOK, PCs, Stages, ClientPCs

\* Registering with the tc-server and connecting to the primary keep the types
\* (MessSrv.pl before its loop).
LEMMA StartType ==
  ASSUME TypeInv, NEW n \in Servers, Start(n)
  PROVE  TypeInv'
<1> DEFINE reg == NewMsg(Fresh(n), "CALL", Self, n, TcId[n], n, "mqRegister")
<1>1. TcId[n] \in Ids /\ n \in Ids
  BY ConfigAssumption DEF Ids
<1>2. reg \in Messages /\ reg.uuid \in UUIDs
  <2>1. reg \in Messages
    BY <1>1, FreshType, NewMsgType DEF TypeInv, Types, Methods
  <2> QED
    BY <2>1 DEF Messages
<1> HIDE DEF reg
<1>3. clock' \in [Ids -> Nat] /\ sent' \subseteq Messages
  BY <1>1, <1>2 DEF Start, Tick, TypeInv, TypeOK, reg
<1>4. seen' \in [Servers -> SUBSET UUIDs] /\ mqIn' \in [Servers -> Seq(Messages)]
  BY <1>2 DEF Start, TypeInv, TypeOK, reg
<1>5. routes' \in [Servers -> RouteType]
  BY <1>1 DEF Start, TypeInv, TypeOK, RouteType
<1>6. pc' \in [Servers -> PCs] /\ CurOK'
  BY DEF Start, TypeInv, TypeOK, CurOK, PCs
<1>7. stage' \in [Conns -> Stages]
  BY DEF Start, TypeInv, TypeOK, Stages
<1> QED
  BY <1>3, <1>4, <1>5, <1>6, <1>7 DEF Start, TypeInv, TypeOK, RouteType

\* What select() returns are handles.
LEMMA ReadyType ==
  ASSUME TypeInv, NEW n \in Servers
  PROVE  Ready(n) \in SUBSET (Conns \cup {Listen})
  BY DEF Ready, TypeInv, TypeOK

\* So do the periodic broadcast and select().
LEMMA TopType ==
  ASSUME TypeInv, NEW n \in Servers, Top(n)
  PROVE  TypeInv'
<1> DEFINE m == NewMsg(Fresh(n), "EVENT", Self, n, Self, Bcast, "bcastIP_PORT")
<1>1. m \in Messages /\ m.uuid \in UUIDs
  <2>1. m \in Messages
    BY FreshType, NewMsgType DEF TypeInv, Types, Methods, Ids
  <2> QED
    BY <2>1 DEF Messages
<1> HIDE DEF m
<1>2. Ready(n) \in SUBSET (Conns \cup {Listen})
  BY ReadyType
<1>3. chan \in ChanType
  BY DEF TypeInv, TypeOK, ChanType
<1>4. "mq" \in PCs /\ "mq" # "flood"
  BY DEF PCs
<1>5. CASE /\ Tick(n, m)
           /\ seen' = [seen EXCEPT ![n] = @ \cup {m.uuid}]
           /\ SendOn(n, chan, m, "mq", Ready(n), None)
  <2>1. /\ pc' \in [Servers -> PCs]
        /\ todo' \in [Servers -> SUBSET (Conns \cup {Listen})]
        /\ cur' \in [Servers -> Messages \cup {None}]
        /\ CurOK'
        /\ closed' \in [Conns -> SUBSET Ends]
        /\ chan' \in ChanType
    BY <1>1, <1>2, <1>3, <1>4, <1>5, SendOnType
  <2>2. clock' \in [Ids -> Nat] /\ sent' \subseteq Messages
    BY <1>1, <1>5 DEF Tick, TypeInv, TypeOK, Ids
  <2>3. seen' \in [Servers -> SUBSET UUIDs]
    BY <1>1, <1>5 DEF TypeInv, TypeOK
  <2> QED
    BY <2>1, <2>2, <2>3 DEF Top, TypeInv, TypeOK, ChanType, mqVars
<1>6. CASE /\ GoOn(n, "mq", Ready(n), None)
           /\ UNCHANGED <<seen, closed, chan, clock, sent>>
  <2>1. /\ pc' \in [Servers -> PCs]
        /\ todo' \in [Servers -> SUBSET (Conns \cup {Listen})]
        /\ cur' \in [Servers -> Messages \cup {None}]
        /\ CurOK'
    BY <1>2, <1>4, <1>6, GoOnType
  <2> QED
    BY <1>6, <2>1 DEF Top, TypeInv, TypeOK, mqVars
<1> QED
  BY <1>5, <1>6 DEF Top, m

\* A queue read from keeps its type (recvMsg).
LEMMA QueueType ==
  ASSUME NEW q \in [Servers -> Seq(Messages)], NEW n \in Servers, q[n] # <<>>
  PROVE  Head(q[n]) \in Messages /\ [q EXCEPT ![n] = Tail(@)] \in [Servers -> Seq(Messages)]
  OBVIOUS

\* So does taking a message out of the tc-server's queue.
LEMMA DrainMQType ==
  ASSUME TypeInv, NEW n \in Servers, DrainMQ(n)
  PROVE  TypeInv'
<1>1. todo[n] \in SUBSET (Conns \cup {Listen}) /\ chan \in ChanType
  BY DEF TypeInv, TypeOK, ChanType
<1>2. AfterSock(todo[n]) \in PCs /\ AfterSock(todo[n]) # "flood"
  BY DEF AfterSock, PCs
<1>3. AfterMQ(todo[n]) \in PCs /\ AfterMQ(todo[n]) # "flood"
  BY DEF AfterMQ, PCs
<1>4. CASE mqOut[n] = <<>> /\ GoOn(n, AfterSock(todo[n]), todo[n], None)
           /\ UNCHANGED <<seen, closed, chan, mqOut>>
  <2>1. /\ pc' \in [Servers -> PCs]
        /\ todo' \in [Servers -> SUBSET (Conns \cup {Listen})]
        /\ cur' \in [Servers -> Messages \cup {None}]
        /\ CurOK'
    BY <1>1, <1>2, <1>4, GoOnType
  <2> QED
    BY <1>4, <2>1 DEF DrainMQ, TypeInv, TypeOK
<1>5. CASE mqOut[n] # <<>>
  <2> DEFINE m == Head(mqOut[n])
  <2>0. /\ mqOut' = [mqOut EXCEPT ![n] = Tail(@)]
        /\ seen' = [seen EXCEPT ![n] = @ \cup {m.uuid}]
        /\ \/ UNCHANGED <<pc, cur, todo, closed, chan>>
           \/ SendOn(n, chan, m, AfterMQ(todo[n]), todo[n], None)
    BY <1>5 DEF DrainMQ
  <2>1. m \in Messages /\ mqOut' \in [Servers -> Seq(Messages)]
    <3>1. mqOut \in [Servers -> Seq(Messages)]
      BY DEF TypeInv, TypeOK
    <3> QED
      BY <1>5, <2>0, <3>1, QueueType
  <2>2. seen' \in [Servers -> SUBSET UUIDs]
    <3>1. m.uuid \in UUIDs
      BY <2>1 DEF Messages
    <3> QED
      BY <2>0, <3>1 DEF TypeInv, TypeOK
  <2>3. /\ pc' \in [Servers -> PCs]
        /\ todo' \in [Servers -> SUBSET (Conns \cup {Listen})]
        /\ cur' \in [Servers -> Messages \cup {None}]
        /\ CurOK'
        /\ closed' \in [Conns -> SUBSET Ends]
        /\ chan' \in ChanType
    <3>1. CASE UNCHANGED <<pc, cur, todo, closed, chan>>
      BY <3>1 DEF TypeInv, TypeOK, CurOK, ChanType
    <3>2. CASE SendOn(n, chan, m, AfterMQ(todo[n]), todo[n], None)
      BY <3>2, <1>1, <1>3, <2>1, SendOnType
    <3> QED
      BY <2>0, <3>1, <3>2
  <2> QED
    BY <2>1, <2>2, <2>3 DEF DrainMQ, TypeInv, TypeOK, ChanType
<1> QED
  BY <1>4, <1>5 DEF DrainMQ

\* So does accepting a connection.
LEMMA AcceptType ==
  ASSUME TypeInv, NEW n \in Servers, Accept(n)
  PROVE  TypeInv'
<1>1. /\ todo[n] \ {Listen} \in SUBSET (Conns \cup {Listen})
      /\ "auth" \in PCs
  BY DEF TypeInv, TypeOK, PCs
<1>2. /\ pc' \in [Servers -> PCs]
      /\ todo' \in [Servers -> SUBSET (Conns \cup {Listen})]
      /\ cur' \in [Servers -> Messages \cup {None}]
      /\ CurOK'
  BY <1>1, GoOnType DEF Accept
<1>3. stage' \in [Conns -> Stages] /\ readSet' \in [Servers -> SUBSET Conns]
  BY DEF Accept, TypeInv, TypeOK, Stages
<1> QED
  BY <1>2, <1>3 DEF Accept, TypeInv, TypeOK, mqVars

\* So does receiving a message, whichever way floodRoute() takes with it.
LEMMA ReceiveType ==
  ASSUME TypeInv, NEW n \in Servers, Receive(n)
  PROVE  TypeInv'
<1>1. PICK c \in todo[n] \cap authOK[n] :
        /\ chan[c][n] # <<>>
        /\ \/ ReceiveAgain(n, c, todo[n] \ {c}) \/ ReceiveLink(n, c, todo[n] \ {c})
           \/ ReceivePing(n, c, todo[n] \ {c}) \/ ReceiveUnknown(n, c, todo[n] \ {c})
           \/ ReceiveOther(n, c, todo[n] \ {c})
  BY DEF Receive
<1> DEFINE m == Arrived(n, c)
           ch == Popped(n, c)
           rest == todo[n] \ {c}
           r == ReplyTo(m, Fresh(n), Self, n, "OK")
<1>2. c \in Conns /\ n \in Ends /\ n \in Ids
  BY DEF TypeInv, TypeOK, Ends, Ids
<1>3. m \in Messages /\ ch \in ChanType
  <2>1. chan \in ChanType
    BY DEF TypeInv, TypeOK, ChanType
  <2> QED
    BY <1>1, <1>2, <2>1, PopType DEF Arrived, Popped
<1>4. m.uuid \in UUIDs
  BY <1>3 DEF Messages
<1>5. r \in Messages /\ r.uuid \in UUIDs
  <2>1. r \in Messages
    BY <1>2, <1>3, FreshType, ReplyType DEF TypeInv, Statuses
  <2> QED
    BY <2>1 DEF Messages
<1>6. rest \in SUBSET (Conns \cup {Listen}) /\ AfterSock(rest) \in PCs /\ AfterSock(rest) # "flood"
  BY DEF TypeInv, TypeOK, AfterSock, PCs
<1>7. "flood" \in PCs /\ "wait" \in PCs
  BY DEF PCs
<1> HIDE DEF m, ch, rest, r
<1>8. /\ pc' \in [Servers -> PCs]
      /\ todo' \in [Servers -> SUBSET (Conns \cup {Listen})]
      /\ cur' \in [Servers -> Messages \cup {None}]
      /\ CurOK'
      /\ closed' \in [Conns -> SUBSET Ends]
      /\ chan' \in ChanType
  <2>1. CASE ReceiveAgain(n, c, rest)
    <3>1. GoOn(n, AfterSock(rest), rest, None) /\ chan' = ch /\ closed' = closed
      BY <2>1 DEF ReceiveAgain, ch
    <3> QED
      BY <1>3, <1>6, <3>1, GoOnType DEF TypeInv, TypeOK
  <2>2. CASE ReceiveLink(n, c, rest)
    <3>1. \/ GoOn(n, "wait", rest, m) /\ chan' = ch /\ closed' = closed
          \/ Die(n, ch)
      BY <2>2 DEF ReceiveLink, m, ch
    <3> QED
      BY <1>3, <1>6, <1>7, <3>1, GoOnType, DieType DEF TypeInv, TypeOK
  <2>3. CASE ReceivePing(n, c, rest)
    <3>1. SendOn(n, ch, r, "flood", rest, m)
      BY <2>3 DEF ReceivePing, m, ch, r
    <3> QED
      BY <1>3, <1>5, <1>6, <1>7, <3>1, SendOnType
  <2>4. CASE ReceiveUnknown(n, c, rest)
    <3>1. Die(n, ch)
      BY <2>4 DEF ReceiveUnknown, ch
    <3> QED
      BY <1>3, <3>1, DieType
  <2>5. CASE ReceiveOther(n, c, rest)
    <3>1. GoOn(n, "flood", rest, m) /\ chan' = ch /\ closed' = closed
      BY <2>5 DEF ReceiveOther, m, ch
    <3> QED
      BY <1>3, <1>6, <1>7, <3>1, GoOnType DEF TypeInv, TypeOK
  <2> QED
    BY <1>1, <2>1, <2>2, <2>3, <2>4, <2>5 DEF rest
<1>9. seen' \in [Servers -> SUBSET UUIDs]
  <2>1. \/ seen' = seen
        \/ seen' = [seen EXCEPT ![n] = @ \cup {m.uuid}]
        \/ seen' = [seen EXCEPT ![n] = @ \cup {m.uuid, r.uuid}]
    BY <1>1 DEF ReceiveAgain, ReceiveLink, ReceivePing, ReceiveUnknown, ReceiveOther, Mark, m, r
  <2>2. seen[n] \in SUBSET UUIDs /\ seen \in [Servers -> SUBSET UUIDs]
    BY DEF TypeInv, TypeOK
  <2>3. /\ seen[n] \cup {m.uuid} \in SUBSET UUIDs
        /\ seen[n] \cup {m.uuid, r.uuid} \in SUBSET UUIDs
    BY <1>4, <1>5, <2>2
  <2> QED
    BY <2>1, <2>2, <2>3
<1>10. clock' \in [Ids -> Nat] /\ sent' \subseteq Messages
  <2>1. UNCHANGED <<clock, sent>> \/ Tick(n, r)
    BY <1>1 DEF ReceiveAgain, ReceiveLink, ReceivePing, ReceiveUnknown, ReceiveOther, m, r
  <2>2. CASE UNCHANGED <<clock, sent>>
    BY <2>2 DEF TypeInv, TypeOK
  <2> QED
    BY <1>2, <1>5, <2>1, <2>2, TickType
<1>11. stage' \in [Conns -> Stages]
  <2>1. stage' = stage \/ stage' = [stage EXCEPT ![<<n, m.src>>] = "backlog"]
    BY <1>1 DEF ReceiveAgain, ReceiveLink, ReceivePing, ReceiveUnknown, ReceiveOther, m
  <2> QED
    BY <2>1 DEF TypeInv, TypeOK, Stages
<1> QED
  BY <1>8, <1>9, <1>10, <1>11 DEF Receive, TypeInv, TypeOK, ChanType, mqVars

\* So does the rest of floodRoute(): the message goes to the tc-server or on to
\* other servers.
LEMMA FloodType ==
  ASSUME TypeInv, NEW n \in Servers, Flood(n)
  PROVE  TypeInv'
<1>1. cur[n] \in Messages /\ chan \in ChanType /\ todo[n] \in SUBSET (Conns \cup {Listen})
  BY DEF Flood, TypeInv, TypeOK, CurOK, ChanType
<1>2. AfterSock(todo[n]) \in PCs /\ AfterSock(todo[n]) # "flood"
  BY DEF AfterSock, PCs
<1>3. CASE SendOn(n, chan, cur[n], AfterSock(todo[n]), todo[n], None) /\ UNCHANGED mqIn
  <2>1. /\ pc' \in [Servers -> PCs]
        /\ todo' \in [Servers -> SUBSET (Conns \cup {Listen})]
        /\ cur' \in [Servers -> Messages \cup {None}]
        /\ CurOK'
        /\ closed' \in [Conns -> SUBSET Ends]
        /\ chan' \in ChanType
    BY <1>1, <1>2, <1>3, SendOnType
  <2> QED
    BY <1>3, <2>1 DEF Flood, TypeInv, TypeOK, ChanType
<1>4. CASE /\ GoOn(n, AfterSock(todo[n]), todo[n], None)
           /\ mqIn' = [mqIn EXCEPT ![n] = Append(@, cur[n])]
           /\ UNCHANGED <<closed, chan>>
  <2>1. /\ pc' \in [Servers -> PCs]
        /\ todo' \in [Servers -> SUBSET (Conns \cup {Listen})]
        /\ cur' \in [Servers -> Messages \cup {None}]
        /\ CurOK'
    BY <1>1, <1>2, <1>4, GoOnType
  <2>2. mqIn' \in [Servers -> Seq(Messages)]
    BY <1>1, <1>4 DEF TypeInv, TypeOK
  <2> QED
    BY <1>4, <2>1, <2>2 DEF Flood, TypeInv, TypeOK
<1> QED
  BY <1>3, <1>4 DEF Flood

\* So does closing a connection that ended.
LEMMA CloseType ==
  ASSUME TypeInv, NEW n \in Servers, Close(n)
  PROVE  TypeInv'
<1>1. PICK c \in todo[n] \ {Listen} :
        /\ readSet' = Deselect(n, c)
        /\ authOK' = [authOK EXCEPT ![n] = @ \ {c}]
        /\ closed' = [closed EXCEPT ![c] = @ \cup {n}]
        /\ chan' = [chan EXCEPT ![c][n] = <<>>]
        /\ GoOn(n, AfterSock(todo[n] \ {c}), todo[n] \ {c}, None)
  BY DEF Close
<1>2. c \in Conns /\ n \in Ends /\ todo[n] \ {c} \in SUBSET (Conns \cup {Listen})
  BY DEF TypeInv, TypeOK, Ends
<1>3. AfterSock(todo[n] \ {c}) \in PCs /\ AfterSock(todo[n] \ {c}) # "flood"
  BY DEF AfterSock, PCs
<1>4. /\ pc' \in [Servers -> PCs]
      /\ todo' \in [Servers -> SUBSET (Conns \cup {Listen})]
      /\ cur' \in [Servers -> Messages \cup {None}]
      /\ CurOK'
  BY <1>1, <1>2, <1>3, GoOnType
<1>5. closed' \in [Conns -> SUBSET Ends] /\ readSet' \in [Servers -> SUBSET Conns]
      /\ authOK' \in [Servers -> SUBSET Conns]
  BY <1>1, <1>2 DEF TypeInv, TypeOK, Deselect
<1>6. chan' \in ChanType
  BY <1>1, <1>2, EmptyType DEF TypeInv, TypeOK, ChanType
<1> QED
  BY <1>4, <1>5, <1>6 DEF Close, TypeInv, TypeOK, ChanType, mqVars
-----------------------------------------------------------------------------
(* The handshake, the clients and the tc-servers *)

\* Both ends of an accepted handshake go on with well-typed state.
LEMMA LogInType ==
  ASSUME TypeInv, NEW c \in Conns, LogIn(c)
  PROVE  TypeInv'
<1> DEFINE a == c[1]
           b == c[2]
           starting == a \in Servers /\ cur[a] = None
<1>1. a \in Ends /\ a \in Ids /\ b \in Servers /\ b \in Ids
  BY DEF Conns, Ends, Ids
<1>2. pc' \in [Servers -> PCs]
  BY DEF LogIn, TypeInv, TypeOK, PCs, AfterSock
<1>3. \A n \in Servers : pc'[n] = "flood" => pc[n] = "flood" \/ cur[n] # None
  BY DEF LogIn, AfterSock
<1>4. CurOK'
  BY <1>3 DEF LogIn, TypeInv, TypeOK, CurOK
<1>5. routes' \in [Servers -> RouteType]
  <2>1. \A n \in Servers : routes[n] \in RouteType
    BY DEF TypeInv, TypeOK, RouteType
  <2>2. /\ [routes[b] EXCEPT ![a] = c] \in RouteType
        /\ a \in Servers => [routes[a] EXCEPT ![b] = c] \in RouteType
    BY <1>1, <2>1 DEF RouteType
  <2> QED
    BY <1>1, <2>1, <2>2 DEF LogIn
<1>6. authOK' \in [Servers -> SUBSET Conns] /\ readSet' \in [Servers -> SUBSET Conns]
  BY DEF LogIn, TypeInv, TypeOK
<1>7. stage' \in [Conns -> Stages] /\ client' \in [Clients -> ClientPCs]
  BY DEF LogIn, TypeInv, TypeOK, Stages, ClientPCs
<1> QED
  BY <1>2, <1>4, <1>5, <1>6, <1>7 DEF LogIn, TypeInv, TypeOK, RouteType, mqVars

\* So does the acceptor of one that fails.
LEMMA LogInFailsType ==
  ASSUME TypeInv, NEW c \in Conns, LogInFails(c)
  PROVE  TypeInv'
<1> DEFINE b == c[2]
<1>1. b \in Servers
  BY DEF Conns
<1>2. /\ AfterSock(todo[b]) \in PCs /\ AfterSock(todo[b]) # "flood"
      /\ todo[b] \in SUBSET (Conns \cup {Listen}) /\ chan \in ChanType
  BY <1>1 DEF AfterSock, PCs, TypeInv, TypeOK, ChanType
<1>3. stage' \in [Conns -> Stages]
  BY DEF LogInFails, TypeInv, TypeOK, Stages
<1>4. \/ GoOn(b, AfterSock(todo[b]), todo[b], None) /\ UNCHANGED <<closed, chan>>
      \/ Die(b, chan)
  BY DEF LogInFails
<1>5. /\ pc' \in [Servers -> PCs]
      /\ todo' \in [Servers -> SUBSET (Conns \cup {Listen})]
      /\ cur' \in [Servers -> Messages \cup {None}]
      /\ CurOK'
      /\ closed' \in [Conns -> SUBSET Ends]
      /\ chan' \in ChanType
  <2>1. CASE GoOn(b, AfterSock(todo[b]), todo[b], None) /\ UNCHANGED <<closed, chan>>
    BY <1>1, <1>2, <2>1, GoOnType DEF TypeInv, TypeOK, ChanType
  <2>2. CASE Die(b, chan)
    BY <1>1, <1>2, <2>2, DieType
  <2> QED
    BY <1>4, <2>1, <2>2
<1> QED
  BY <1>3, <1>5 DEF LogInFails, TypeInv, TypeOK, ChanType, mqVars

\* So does a connector whose acceptor died.
LEMMA OrphanedType ==
  ASSUME TypeInv, NEW c \in Conns, Orphaned(c)
  PROVE  TypeInv'
<1> DEFINE a == c[1]
<1>1. chan \in ChanType /\ a \in Ends
  BY DEF TypeInv, TypeOK, ChanType, Conns, Ends
<1>2. CASE a \in Servers /\ Die(a, chan) /\ UNCHANGED client
  <2>1. /\ pc' \in [Servers -> PCs]
        /\ todo' \in [Servers -> SUBSET (Conns \cup {Listen})]
        /\ cur' \in [Servers -> Messages \cup {None}]
        /\ CurOK'
        /\ closed' \in [Conns -> SUBSET Ends]
        /\ chan' \in ChanType
    BY <1>1, <1>2, DieType
  <2> QED
    BY <1>2, <2>1 DEF Orphaned, TypeInv, TypeOK, ChanType, mqVars
<1>3. CASE /\ a \in Clients
           /\ client' = [client EXCEPT ![a] = "quit"]
           /\ closed' = [closed EXCEPT ![c] = @ \cup {a}]
           /\ UNCHANGED <<pc, cur, todo, chan>>
  <2>1. client' \in [Clients -> ClientPCs] /\ closed' \in [Conns -> SUBSET Ends]
    BY <1>1, <1>3 DEF TypeInv, TypeOK, ClientPCs
  <2>2. CurOK'
    BY <1>3 DEF TypeInv, CurOK
  <2> QED
    BY <1>3, <2>1, <2>2 DEF Orphaned, TypeInv, TypeOK, mqVars
<1> QED
  BY <1>2, <1>3 DEF Orphaned

\* A client and the connection to its server are of the kinds they should be.
LEMMA LinkType ==
  ASSUME NEW c \in Clients
  PROVE  /\ Home[c] \in Servers /\ Home[c] \in Ends /\ <<c, Home[c]>> \in Conns
         /\ c \in Ends /\ c \in Ids
  BY ConfigAssumption, IdsAssumption DEF Conns, Ends, Ids

\* A client that connects keeps the types.
LEMMA ConnectType ==
  ASSUME TypeInv, NEW c \in Clients, Connect(c)
  PROVE  TypeInv'
<1>1. stage' \in [Conns -> Stages] /\ client' \in [Clients -> ClientPCs]
  BY DEF Connect, TypeInv, TypeOK, Stages, ClientPCs
<1> QED
  BY <1>1 DEF Connect, TypeInv, TypeOK, CurOK, mqVars, srvVars

\* What a client writes keeps the type of the channels.
LEMMA ClientWritesType ==
  ASSUME NEW c \in Clients, NEW ch \in ChanType, NEW m \in Messages
  PROVE  ClientWrites(c, ch, m) \in ChanType
  BY PostType DEF ClientWrites

\* A client that calls keeps the types.
LEMMA ClientCallType ==
  ASSUME TypeInv, NEW c \in Clients, ClientCall(c)
  PROVE  TypeInv'
<1>1. PICK t \in Targets[c], method \in Calls :
        LET m == NewMsg(Fresh(c), "CALL", c, Home[c], t[1], t[2], method)
        IN Tick(c, m) /\ chan' = ClientWrites(c, chan, m)
  BY DEF ClientCall
<1> DEFINE m == NewMsg(Fresh(c), "CALL", c, Home[c], t[1], t[2], method)
<1>2. m \in Messages
  <2>1. t[1] \in Ids \cup {Self} /\ t[2] \in Ids \cup {Bcast}
    BY ConfigAssumption
  <2>2. method \in Methods /\ "CALL" \in Types
    BY ConfigAssumption DEF Methods, Types
  <2> QED
    BY <2>1, <2>2, LinkType, FreshType, NewMsgType DEF TypeInv
<1>3. clock' \in [Ids -> Nat] /\ sent' \subseteq Messages
  BY <1>1, <1>2, LinkType, TickType
<1>4. chan' \in ChanType
  BY <1>1, <1>2, ClientWritesType DEF TypeInv, TypeOK, ChanType
<1> QED
  BY <1>3, <1>4 DEF ClientCall, TypeInv, TypeOK, CurOK, ChanType, mqVars, srvVars

\* A client that receives, and answers a ping, keeps the types.
LEMMA ClientReceiveType ==
  ASSUME TypeInv, NEW c \in Clients, ClientReceive(c)
  PROVE  TypeInv'
<1> DEFINE link == <<c, Home[c]>>
           m == Head(chan[link][c])
           ch == [chan EXCEPT ![link][c] = Tail(@)]
           r == ReplyTo(m, Fresh(c), c, Home[c], "OK")
<1>1. m \in Messages /\ ch \in ChanType
  BY LinkType, PopType DEF ClientReceive, TypeInv, TypeOK, ChanType
<1>2. r \in Messages
  BY <1>1, LinkType, FreshType, ReplyType DEF TypeInv, Statuses
<1>3. got' = [got EXCEPT ![c] = Append(@, m)]
  BY DEF ClientReceive
<1>4. \/ Tick(c, r) /\ chan' = ClientWrites(c, ch, r)
      \/ chan' = ch /\ UNCHANGED <<clock, sent>>
  BY DEF ClientReceive
<1> HIDE DEF m, ch, r
<1>5. got' \in [Clients -> Seq(Messages)]
  BY <1>1, <1>3 DEF TypeInv, TypeOK
<1>6. chan' \in ChanType
  BY <1>1, <1>2, <1>4, ClientWritesType
<1>7. clock' \in [Ids -> Nat] /\ sent' \subseteq Messages
  <2>1. CASE UNCHANGED <<clock, sent>>
    BY <2>1 DEF TypeInv, TypeOK
  <2> QED
    BY <1>2, <1>4, <2>1, LinkType, TickType
<1> QED
  BY <1>5, <1>6, <1>7 DEF ClientReceive, TypeInv, TypeOK, CurOK, ChanType, mqVars, srvVars

\* A client that quits keeps the types.
LEMMA ClientQuitType ==
  ASSUME TypeInv, NEW c \in Clients, ClientQuit(c)
  PROVE  TypeInv'
<1>1. client' \in [Clients -> ClientPCs]
  BY DEF ClientQuit, TypeInv, TypeOK, ClientPCs
<1>2. closed' \in [Conns -> SUBSET Ends]
  BY LinkType DEF ClientQuit, TypeInv, TypeOK
<1>3. chan' \in ChanType
  BY LinkType, EmptyType DEF ClientQuit, TypeInv, TypeOK, ChanType
<1> QED
  BY <1>1, <1>2, <1>3 DEF ClientQuit, TypeInv, TypeOK, CurOK, ChanType, mqVars, srvVars

\* The tc-server has one or two answers to a message, and they are statuses.
LEMMA StatusesType ==
  ASSUME NEW m
  PROVE  /\ TcsStatuses(m) \in Seq(Statuses)
         /\ Len(TcsStatuses(m)) \in Nat
         /\ \A k \in 1..Len(TcsStatuses(m)) : TcsStatuses(m)[k] \in Statuses
<1>1. /\ <<>> \in Seq(Statuses) /\ <<"OK">> \in Seq(Statuses)
      /\ <<"NOMETHOD">> \in Seq(Statuses)
  BY DEF Statuses
<1>2. TcsStatuses(m) \in Seq(Statuses)
  BY <1>1 DEF TcsStatuses
<1> QED
  BY <1>2

\* The tc-server answers with messages.
LEMMA TcsReceiveType ==
  ASSUME TypeInv, NEW n \in Servers, TcsReceive(n)
  PROVE  TypeInv'
<1> DEFINE m == Head(mqIn[n])
           s == TcsStatuses(m)
           i == TcId[n]
           replies == [k \in 1..Len(s) |-> ReplyTo(m, <<i, clock[i] + k - 1>>, i, n, s[k])]
<1>1. i \in Ids
  BY ConfigAssumption DEF Ids
<1>2. m \in Messages /\ mqIn' \in [Servers -> Seq(Messages)]
  <2>1. mqIn \in [Servers -> Seq(Messages)]
    BY DEF TypeInv, TypeOK
  <2> QED
    BY <2>1, QueueType DEF TcsReceive
<1>3. /\ s \in Seq(Statuses) /\ Len(s) \in Nat
      /\ \A k \in 1..Len(s) : s[k] \in Statuses
  BY StatusesType
<1>4. /\ tcs' = [tcs EXCEPT ![n] = replies]
      /\ clock' = [clock EXCEPT ![i] = @ + Len(s)]
      /\ sent' = sent \cup {replies[k] : k \in 1..Len(s)}
  BY DEF TcsReceive
<1> HIDE DEF m, s, i
<1>5. ASSUME NEW k \in 1..Len(s)
      PROVE  replies[k] \in Messages
  <2>1. <<i, clock[i] + k - 1>> \in UUIDs
    <3>1. clock[i] \in Nat /\ k \in Nat /\ k >= 1
      BY <1>1, <1>3 DEF TypeInv, TypeOK
    <3>2. clock[i] + k - 1 \in Nat
      BY <3>1
    <3> QED
      BY <1>1, <3>2 DEF UUIDs
  <2> QED
    BY <1>1, <1>2, <1>3, <2>1, ReplyType
<1>6. replies \in Seq(Messages)
  BY <1>3, <1>5
<1> HIDE DEF replies
<1>7. tcs' \in [Servers -> Seq(Messages)]
  BY <1>4, <1>6 DEF TypeInv, TypeOK
<1>8. clock' \in [Ids -> Nat]
  BY <1>1, <1>3, <1>4 DEF TypeInv, TypeOK
<1>9. sent' \subseteq Messages
  BY <1>4, <1>5 DEF TypeInv, TypeOK
<1> QED
  BY <1>2, <1>7, <1>8, <1>9 DEF TcsReceive, TypeInv, TypeOK, CurOK, netVars, srvVars

\* It queues its answers whole.
LEMMA TcsSendType ==
  ASSUME TypeInv, NEW n \in Servers, TcsSend(n)
  PROVE  TypeInv'
<1>1. tcs \in [Servers -> Seq(Messages)] /\ mqOut \in [Servers -> Seq(Messages)]
  BY DEF TypeInv, TypeOK
<1>2. Head(tcs[n]) \in Messages /\ tcs' \in [Servers -> Seq(Messages)]
  BY <1>1, QueueType DEF TcsSend
<1>3. mqOut' \in [Servers -> Seq(Messages)]
  BY <1>1, <1>2 DEF TcsSend
<1> QED
  BY <1>2, <1>3 DEF TcsSend, TypeInv, TypeOK, CurOK, netVars, srvVars
-----------------------------------------------------------------------------
(* All together *)

\* Every step of the network keeps TypeInv.
LEMMA TypeStep == TypeInv /\ [Next]_vars => TypeInv'
<1> SUFFICES ASSUME TypeInv, [Next]_vars PROVE TypeInv'
  OBVIOUS
<1>1. CASE UNCHANGED vars
  BY <1>1 DEF TypeInv, TypeOK, CurOK, vars, srvVars, netVars, mqVars
<1>2. ASSUME NEW n \in Servers, ServerStep(n) PROVE TypeInv'
  BY <1>2, StartType, TopType, DrainMQType, AcceptType, ReceiveType, FloodType, CloseType
     DEF ServerStep, LoopStep
<1>3. ASSUME NEW n \in Servers, TcsStep(n) PROVE TypeInv'
  BY <1>3, TcsReceiveType, TcsSendType DEF TcsStep
<1>4. ASSUME NEW c \in Conns, Handshake(c) PROVE TypeInv'
  BY <1>4, LogInType, LogInFailsType, OrphanedType DEF Handshake
<1>5. ASSUME NEW c \in Clients, ClientStep(c) PROVE TypeInv'
  BY <1>5, ConnectType, ClientCallType, ClientReceiveType, ClientQuitType DEF ClientStep
<1> QED
  BY <1>1, <1>2, <1>3, <1>4, <1>5 DEF Next

\* TypeInv always holds: the inductive form of TypeOK.
THEOREM TypeInvariant == Spec => []TypeInv
  BY TypeInit, TypeStep, PTL DEF Spec

\* Every variable of the network always has its type: whatever reaches a server, a
\* client or a tc-server is a whole message (MessMessage.pm), and a server that
\* goes on with floodRoute() holds the message it routes.
THEOREM TypeCorrect == Spec => []TypeOK
  BY TypeInvariant, PTL DEF TypeInv
=============================================================================
