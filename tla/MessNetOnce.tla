---------------------------- MODULE MessNetOnce ----------------------------
(***************************************************************************)
(* In every MESS network a server answers a call at most once.             *)
(*                                                                         *)
(* ServersAnswerOnce is not inductive: it says nothing of the copies of a  *)
(* call still under way.  It becomes so with AnsweredSeen: a server that   *)
(* has answered a call has its UUID in seenUUID, where floodRoute() finds  *)
(* it before it hands another copy to the callback.                        *)
(***************************************************************************)
EXTENDS MessNetTypes

IsAnswer(m) == IsReturn(m) /\ m.srcsub = Self

AnsweredSeen == \A r \in sent : IsAnswer(r) => r.uuidorig \in seen[r.src]
OnceInv == ServersAnswerOnce /\ AnsweredSeen

\* No UUID is forgotten and no message unmade.
Remembers ==
  /\ sent \subseteq sent'
  /\ \A n \in Servers : seen[n] \subseteq seen'[n]

\* The ways in which a step keeps OnceInv: no server answers anything, or one server
\* answers a call it had not seen and now has.
Silent == Remembers /\ \A r \in sent' : IsAnswer(r) => r \in sent
Answering ==
  /\ Remembers
  /\ \E r : /\ sent' = sent \cup {r}
            /\ r.uuidorig \notin seen[r.src] /\ r.uuidorig \in seen'[r.src]

\* Both keep it.
LEMMA SilentOnce ==
  ASSUME TypeInv, OnceInv, Silent
  PROVE  OnceInv'
<1>1. ServersAnswerOnce'
  BY DEF Silent, OnceInv, ServersAnswerOnce, Returns, IsAnswer, IsReturn
<1>2. AnsweredSeen'
  <2> SUFFICES ASSUME NEW r \in sent', IsAnswer(r) PROVE r.uuidorig \in seen'[r.src]
    BY DEF AnsweredSeen, IsAnswer, IsReturn
  <2>1. r \in sent /\ r.uuidorig \in seen[r.src]
    BY DEF Silent, OnceInv, AnsweredSeen
  <2>2. r.src \in Servers
    BY <2>1 DEF TypeInv, TypeOK, Messages
  <2> QED
    BY <2>1, <2>2 DEF Silent, Remembers
<1> QED
  BY <1>1, <1>2 DEF OnceInv

LEMMA AnsweringOnce ==
  ASSUME TypeInv, OnceInv, Answering
  PROVE  OnceInv'
<1>1. PICK r : /\ sent' = sent \cup {r}
               /\ r.uuidorig \notin seen[r.src] /\ r.uuidorig \in seen'[r.src]
  BY DEF Answering
<1>2. ASSUME NEW s \in sent, IsAnswer(s), s.src = r.src, s.uuidorig = r.uuidorig
      PROVE  FALSE
  BY <1>1, <1>2 DEF OnceInv, AnsweredSeen
<1>3. ServersAnswerOnce'
  <2> SUFFICES ASSUME NEW x \in sent', NEW y \in sent', IsAnswer(x), IsAnswer(y),
                      x.src = y.src, x.uuidorig = y.uuidorig
               PROVE  x = y
    BY DEF ServersAnswerOnce, Returns, IsAnswer, IsReturn
  <2>1. CASE x \in sent /\ y \in sent
    BY <2>1 DEF OnceInv, ServersAnswerOnce, Returns, IsAnswer, IsReturn
  <2>2. CASE x = r \/ y = r
    BY <1>1, <1>2, <2>2
  <2> QED
    BY <1>1, <2>1, <2>2
<1>4. AnsweredSeen'
  <2> SUFFICES ASSUME NEW s \in sent', IsAnswer(s) PROVE s.uuidorig \in seen'[s.src]
    BY DEF AnsweredSeen, IsAnswer, IsReturn
  <2>1. CASE s = r
    BY <1>1, <2>1
  <2>2. CASE s \in sent
    <3>1. s.uuidorig \in seen[s.src]
      BY <2>2 DEF OnceInv, AnsweredSeen
    <3>2. s.src \in Servers
      BY <2>2 DEF TypeInv, TypeOK, Messages
    <3> QED
      BY <3>1, <3>2 DEF Answering, Remembers
  <2> QED
    BY <1>1, <2>1, <2>2
<1> QED
  BY <1>3, <1>4 DEF OnceInv
-----------------------------------------------------------------------------
(* What the actions are *)

\* A call and an event are no answer, nor is a reply of a client or a tc-server.
LEMMA NotAnswers ==
  ASSUME NEW uuid, NEW sub, NEW src, NEW dsub, NEW dst, NEW method, NEW m, NEW status,
         NEW i \in Ids
  PROVE  /\ ~IsAnswer(NewMsg(uuid, "CALL", sub, src, dsub, dst, method))
         /\ ~IsAnswer(NewMsg(uuid, "EVENT", sub, src, dsub, dst, method))
         /\ ~IsAnswer(ReplyTo(m, uuid, i, src, status))
  BY IdsAssumption DEF IsAnswer, IsReturn, NewMsg, ReplyTo

\* The message a server is registered with and the one it broadcasts are no answers.
LEMMA StartSilent ==
  ASSUME TypeInv, NEW n \in Servers, Start(n)
  PROVE  Silent
<1> DEFINE reg == NewMsg(Fresh(n), "CALL", Self, n, TcId[n], n, "mqRegister")
<1>1. sent' = sent \cup {reg} /\ seen' = [seen EXCEPT ![n] = @ \cup {reg.uuid}]
  BY DEF Start, Tick
<1>2. n \in Ids
  BY DEF Ids
<1>3. ~IsAnswer(reg)
  BY <1>2, NotAnswers
<1> HIDE DEF reg
<1> QED
  BY <1>1, <1>3 DEF Silent, Remembers, TypeInv, TypeOK

LEMMA TopSilent ==
  ASSUME TypeInv, NEW n \in Servers, Top(n)
  PROVE  Silent
<1> DEFINE m == NewMsg(Fresh(n), "EVENT", Self, n, Self, Bcast, "bcastIP_PORT")
<1>1. \/ sent' = sent \cup {m} /\ seen' = [seen EXCEPT ![n] = @ \cup {m.uuid}]
      \/ sent' = sent /\ seen' = seen
  BY DEF Top, Tick
<1>2. n \in Ids
  BY DEF Ids
<1>3. ~IsAnswer(m)
  BY <1>2, NotAnswers
<1> HIDE DEF m
<1> QED
  BY <1>1, <1>3 DEF Silent, Remembers, TypeInv, TypeOK

\* A server answers only a ping it has not seen before, and marks it as seen.
LEMMA ReceiveOnce ==
  ASSUME TypeInv, NEW n \in Servers, Receive(n)
  PROVE  Silent \/ Answering
<1>1. PICK c \in todo[n] \cap authOK[n] :
        \/ ReceiveAgain(n, c, todo[n] \ {c}) \/ ReceiveLink(n, c, todo[n] \ {c})
        \/ ReceivePing(n, c, todo[n] \ {c}) \/ ReceiveUnknown(n, c, todo[n] \ {c})
        \/ ReceiveOther(n, c, todo[n] \ {c})
  BY DEF Receive
<1> DEFINE m == Arrived(n, c)
           r == ReplyTo(m, Fresh(n), Self, n, "OK")
<1>2. CASE ReceivePing(n, c, todo[n] \ {c})
  <2>1. /\ sent' = sent \cup {r} /\ m.uuid \notin seen[n]
        /\ seen' = [seen EXCEPT ![n] = @ \cup {m.uuid, r.uuid}]
    BY <1>2 DEF ReceivePing, Dropped, Mark, Tick
  <2>2. r.src = n /\ r.uuidorig = m.uuid
    BY DEF ReplyTo
  <2> HIDE DEF m, r
  <2>3. Remembers /\ m.uuid \in seen'[n]
    BY <2>1 DEF Remembers, TypeInv, TypeOK
  <2> QED
    BY <2>1, <2>2, <2>3 DEF Answering
<1>3. CASE sent' = sent /\ (seen' = seen \/ seen' = [seen EXCEPT ![n] = @ \cup {m.uuid}])
  <2> HIDE DEF m
  <2>1. DOMAIN seen = Servers
    BY DEF TypeInv, TypeOK
  <2> QED
    BY <1>3, <2>1 DEF Silent, Remembers
<1> QED
  BY <1>1, <1>2, <1>3
     DEF ReceiveAgain, ReceiveLink, ReceiveUnknown, ReceiveOther, Mark

\* Draining the queue marks messages and makes none.
LEMMA DrainMQSilent ==
  ASSUME TypeInv, NEW n \in Servers, DrainMQ(n)
  PROVE  Silent
<1> DEFINE m == Head(mqOut[n])
<1>1. sent' = sent /\ (seen' = seen \/ seen' = [seen EXCEPT ![n] = @ \cup {m.uuid}])
  BY DEF DrainMQ
<1> HIDE DEF m
<1> QED
  BY <1>1 DEF Silent, Remembers, TypeInv, TypeOK

\* A client answers under its own name.
LEMMA ClientSilent ==
  ASSUME TypeInv, NEW c \in Clients, ClientStep(c)
  PROVE  Silent
<1>1. c \in Ids
  BY DEF Ids
<1>2. seen' = seen
  BY DEF ClientStep, Connect, ClientCall, ClientReceive, ClientQuit, srvVars
<1>3. sent' = sent \/ \E m : ~IsAnswer(m) /\ sent' = sent \cup {m}
  <2>1. CASE ClientCall(c)
    <3>1. PICK t \in Targets[c], method \in Calls :
            sent' = sent \cup {NewMsg(Fresh(c), "CALL", c, Home[c], t[1], t[2], method)}
      BY <2>1 DEF ClientCall, Tick
    <3> QED
      BY <1>1, <3>1, NotAnswers
  <2>2. CASE ClientReceive(c)
    <3> DEFINE m == Head(chan[<<c, Home[c]>>][c])
    <3>1. sent' = sent \/ sent' = sent \cup {ReplyTo(m, Fresh(c), c, Home[c], "OK")}
      BY <2>2 DEF ClientReceive, Tick
    <3> QED
      BY <1>1, <3>1, NotAnswers
  <2>3. CASE Connect(c) \/ ClientQuit(c)
    BY <2>3 DEF Connect, ClientQuit
  <2> QED
    BY <2>1, <2>2, <2>3 DEF ClientStep
<1> QED
  BY <1>2, <1>3 DEF Silent, Remembers

\* So does a tc-server.
LEMMA TcsSilent ==
  ASSUME TypeInv, NEW n \in Servers, TcsStep(n)
  PROVE  Silent
<1>1. CASE TcsSend(n)
  BY <1>1 DEF TcsSend, srvVars, Silent, Remembers
<1>2. CASE TcsReceive(n)
  <2> DEFINE m == Head(mqIn[n])
             s == TcsStatuses(m)
             i == TcId[n]
             replies == [k \in 1..Len(s) |-> ReplyTo(m, <<i, clock[i] + k - 1>>, i, n, s[k])]
  <2>1. sent' = sent \cup {replies[k] : k \in 1..Len(s)} /\ seen' = seen
    BY <1>2 DEF TcsReceive, srvVars
  <2>2. i \in Ids
    BY ConfigAssumption DEF Ids
  <2>3. ASSUME NEW k \in 1..Len(s) PROVE ~IsAnswer(replies[k])
    BY <2>2, NotAnswers
  <2> HIDE DEF replies
  <2> QED
    BY <2>1, <2>3 DEF Silent, Remembers
<1> QED
  BY <1>1, <1>2 DEF TcsStep
-----------------------------------------------------------------------------
\* Every step keeps OnceInv.
LEMMA OnceStep == TypeInv /\ OnceInv /\ [Next]_vars => OnceInv'
<1> SUFFICES ASSUME TypeInv, OnceInv, [Next]_vars PROVE OnceInv'
  OBVIOUS
<1>1. CASE UNCHANGED vars
  BY <1>1, SilentOnce DEF vars, srvVars, Silent, Remembers
<1>2. ASSUME NEW n \in Servers, ServerStep(n) PROVE OnceInv'
  <2>1. CASE Start(n)
    BY <2>1, StartSilent, SilentOnce
  <2>2. CASE Top(n)
    BY <2>2, TopSilent, SilentOnce
  <2>3. CASE Receive(n)
    BY <2>3, ReceiveOnce, SilentOnce, AnsweringOnce
  <2>4. CASE DrainMQ(n)
    BY <2>4, DrainMQSilent, SilentOnce
  <2>5. CASE Accept(n) \/ Flood(n) \/ Close(n)
    BY <2>5, SilentOnce DEF Accept, Flood, Close, Silent, Remembers
  <2> QED
    BY <1>2, <2>1, <2>2, <2>3, <2>4, <2>5 DEF ServerStep, LoopStep
<1>3. ASSUME NEW n \in Servers, TcsStep(n) PROVE OnceInv'
  BY <1>3, TcsSilent, SilentOnce
<1>4. ASSUME NEW c \in Conns, Handshake(c) PROVE OnceInv'
  BY <1>4, SilentOnce DEF Handshake, LogIn, LogInFails, Orphaned, Silent, Remembers
<1>5. ASSUME NEW c \in Clients, ClientStep(c) PROVE OnceInv'
  BY <1>5, ClientSilent, SilentOnce
<1> QED
  BY <1>1, <1>2, <1>3, <1>4, <1>5 DEF Next

\* A server never answers a call twice, however the servers are linked, however many
\* copies of the call reach it and in whatever order (the UUID check that opens
\* floodRoute(), RoutingTables.pm:96).
THEOREM AnswerOnce == Spec => []ServersAnswerOnce
<1>1. Init => OnceInv
  BY DEF Init, OnceInv, ServersAnswerOnce, AnsweredSeen, Returns
<1>2. TypeInv /\ OnceInv /\ [Next]_vars => OnceInv'
  BY OnceStep
<1>3. OnceInv => ServersAnswerOnce
  BY DEF OnceInv
<1> QED
  BY <1>1, <1>2, <1>3, TypeInvariant, PTL DEF Spec
=============================================================================
