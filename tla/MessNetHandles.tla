--------------------------- MODULE MessNetHandles ---------------------------
(***************************************************************************)
(* What a server of a MESS network waits for: the handles that select()    *)
(* returned are open when the loop comes to them, servers do not wait for  *)
(* each other in a circle, and a server and its tc-server do not both wait *)
(* for room in a queue.                                                    *)
(*                                                                         *)
(* The first depends on what happens to a connection before and after: a   *)
(* server opens one to another server at most once, takes part in at most  *)
(* one handshake, and never comes back from death.  The second depends on  *)
(* who may link itself from within its loop, the third on how many         *)
(* messages one turn of the loop can put on the queue.                     *)
(***************************************************************************)
EXTENDS MessNetService, FiniteSetTheorems

\* The server that n waits in authenticateClient() for.
Awaited(n) == IF cur[n] = None THEN Primary[n] ELSE cur[n].src
UnderWay == {"backlog", "challenged", "refused"}

\* A connection under way between a server and another is the one the first waits
\* for, and one that is established is in its table.
OneConnect ==
  \A c \in Conns :
    c[1] \in Servers /\ pc[c[1]] # "dead" =>
      /\ stage[c] \in UnderWay => pc[c[1]] = "wait" /\ c[2] = Awaited(c[1])
      /\ stage[c] = "open" => routes[c[1]][c[2]] # None

\* A connection is challenged by the server that waits for the answer, and by no
\* other.
OneChallenge ==
  \A c \in Conns :
    stage[c] = "challenged" /\ pc[c[2]] # "dead" =>
      /\ pc[c[2]] = "auth"
      /\ \A d \in Conns : stage[d] = "challenged" /\ d[2] = c[2] => d = c

\* What has not started has no connections.
NotBefore ==
  /\ \A n \in Servers : pc[n] = "down" => cur[n] = None
  /\ \A c \in Conns :
       /\ \A n \in Servers : n \in {c[1], c[2]} /\ pc[n] = "down" => stage[c] = "none"
       /\ c[1] \in Clients /\ client[c[1]] = "off" => stage[c] = "none"

\* What died has closed them all.
NotAfter ==
  \A c \in Conns, n \in Servers :
    pc[n] = "dead" /\ n \in {c[1], c[2]} /\ stage[c] # "none" => n \in closed[c]

\* A server that lives has not closed a connection before it accepted it.
AcceptedFirst ==
  \A c \in Conns :
    /\ \A n \in Servers : c \in readSet[n] => stage[c] \notin {"none", "backlog"}
    /\ stage[c] \in {"none", "backlog"} /\ pc[c[2]] # "dead" => c[2] \notin closed[c]

HandlesInv ==
  HandlesAreOpen /\ OneConnect /\ OneChallenge /\ NotBefore /\ NotAfter /\ AcceptedFirst

\* In its loop a server takes part in no handshake.
InLoop(n) == pc[n] \in {"top", "mq", "sock", "flood"}
-----------------------------------------------------------------------------
\* The ends of a connection are different processes, the second a server.
LEMMA ConnEnds ==
  ASSUME NEW c \in Conns
  PROVE  /\ c = <<c[1], c[2]>> /\ c[1] \in Ends /\ c[2] \in Servers /\ c[1] # c[2]
         /\ c[1] \in Clients => c[1] \notin Servers
         /\ c # None
  BY IdsAssumption, ConfigAssumption DEF Conns, Ends

\* HandlesInv is about eight of the variables.
LEMMA HandlesStutter ==
  ASSUME HandlesInv,
         UNCHANGED <<pc, cur, stage, routes, closed, readSet, todo, client>>
  PROVE  HandlesInv'
  BY DEF HandlesInv, HandlesAreOpen, OneConnect, OneChallenge, NotBefore, NotAfter,
         AcceptedFirst, Awaited

\* A server that goes on, away from the handshake it was accepting if any, keeps it.
LEMMA GoOnHandles ==
  ASSUME TypeInv, HandlesInv, NEW n \in Servers, NEW label, NEW rest, NEW m,
         pc[n] \notin {"down", "wait", "dead"}, label \notin {"down", "wait", "dead"},
         rest \ {Listen} \subseteq readSet[n],
         GoOn(n, label, rest, m),
         \A d \in Conns : \/ stage'[d] = stage[d]
                          \/ stage[d] = "challenged" /\ stage'[d] = "refused",
         \A d \in Conns : d[2] = n => stage'[d] # "challenged",
         UNCHANGED <<closed, readSet, routes, client>>
  PROVE  HandlesInv'
<1>1. /\ pc' = [pc EXCEPT ![n] = label] /\ todo' = [todo EXCEPT ![n] = rest]
      /\ cur' = [cur EXCEPT ![n] = m]
      /\ pc \in [Servers -> PCs] /\ cur \in [Servers -> Messages \cup {None}]
      /\ DOMAIN todo = Servers
  BY DEF GoOn, TypeInv, TypeOK
<1>2. HandlesAreOpen'
  BY <1>1 DEF HandlesInv, HandlesAreOpen
<1>3. OneConnect'
  BY <1>1, ConnEnds DEF HandlesInv, OneConnect, UnderWay, Awaited
<1>4. OneChallenge'
  <2> SUFFICES ASSUME NEW c \in Conns, stage'[c] = "challenged", pc'[c[2]] # "dead"
               PROVE  /\ pc'[c[2]] = "auth"
                      /\ \A d \in Conns : stage'[d] = "challenged" /\ d[2] = c[2] => d = c
    BY DEF OneChallenge
  <2>1. c[2] \in Servers /\ c[2] # n /\ pc'[c[2]] = pc[c[2]] /\ stage[c] = "challenged"
    BY <1>1, ConnEnds
  <2>2. \A d \in Conns : stage'[d] = "challenged" => stage[d] = "challenged"
    OBVIOUS
  <2> QED
    BY <2>1, <2>2 DEF HandlesInv, OneChallenge
<1>5. NotBefore'
  BY <1>1 DEF HandlesInv, NotBefore
<1>6. NotAfter'
  BY <1>1 DEF HandlesInv, NotAfter
<1>7. AcceptedFirst'
  BY <1>1, ConnEnds DEF HandlesInv, AcceptedFirst
<1> QED
  BY <1>2, <1>3, <1>4, <1>5, <1>6, <1>7 DEF HandlesInv

\* So does one that dies.
LEMMA DieHandles ==
  ASSUME TypeInv, HandlesInv, NEW n \in Servers, NEW ch, Die(n, ch),
         \A d \in Conns : \/ stage'[d] = stage[d]
                          \/ stage[d] = "challenged" /\ stage'[d] = "refused",
         UNCHANGED <<readSet, routes, client>>
  PROVE  HandlesInv'
<1>1. /\ pc' = [pc EXCEPT ![n] = "dead"] /\ todo' = [todo EXCEPT ![n] = {}]
      /\ cur' = [cur EXCEPT ![n] = None]
      /\ pc \in [Servers -> PCs] /\ cur \in [Servers -> Messages \cup {None}]
      /\ DOMAIN todo = Servers
  BY DEF Die, GoOn, TypeInv, TypeOK
<1>2. \A c \in Conns :
        closed'[c] = IF n \in {c[1], c[2]} /\ stage[c] # "none" THEN closed[c] \cup {n}
                     ELSE closed[c]
  BY DEF Die
<1>3. HandlesAreOpen'
  <2> SUFFICES ASSUME NEW x \in Servers
               PROVE  /\ todo'[x] \ {Listen} \subseteq readSet'[x]
                      /\ pc'[x] # "dead" => \A c \in readSet'[x] : x \notin closed'[c]
    BY DEF HandlesAreOpen
  <2>1. CASE x = n
    BY <1>1, <2>1
  <2>2. CASE x # n
    <3>1. todo'[x] = todo[x] /\ pc'[x] = pc[x] /\ readSet'[x] = readSet[x]
      BY <1>1, <2>2
    <3>2. \A c \in readSet[x] : c \in Conns /\ (x \in closed'[c] => x \in closed[c])
      <4>1. \A c \in readSet[x] : c \in Conns
        BY DEF TypeInv, TypeOK
      <4>2. \A c \in Conns : closed'[c] = closed[c] \/ closed'[c] = closed[c] \cup {n}
        BY <1>2
      <4> QED
        BY <2>2, <4>1, <4>2
    <3> QED
      BY <3>1, <3>2 DEF HandlesInv, HandlesAreOpen
  <2> QED
    BY <2>1, <2>2
<1>4. OneConnect'
  BY <1>1, ConnEnds DEF HandlesInv, OneConnect, UnderWay, Awaited
<1>5. OneChallenge'
  BY <1>1, ConnEnds DEF HandlesInv, OneChallenge
<1>6. NotBefore'
  BY <1>1 DEF HandlesInv, NotBefore
<1>7. NotAfter'
  <2> SUFFICES ASSUME NEW c \in Conns, NEW x \in Servers, pc'[x] = "dead",
                      x \in {c[1], c[2]}, stage'[c] # "none"
               PROVE  x \in closed'[c]
    BY DEF NotAfter
  <2>1. stage[c] # "none"
    OBVIOUS
  <2>2. CASE x = n
    BY <1>2, <2>1, <2>2
  <2>3. CASE x # n
    <3>1. x \in closed[c]
      BY <1>1, <2>1, <2>3 DEF HandlesInv, NotAfter
    <3> QED
      BY <1>2, <3>1
  <2> QED
    BY <2>2, <2>3
<1>8. AcceptedFirst'
  <2> SUFFICES ASSUME NEW c \in Conns
               PROVE  /\ \A x \in Servers : c \in readSet'[x] => stage'[c] \notin {"none", "backlog"}
                      /\ stage'[c] \in {"none", "backlog"} /\ pc'[c[2]] # "dead"
                           => c[2] \notin closed'[c]
    BY DEF AcceptedFirst
  <2>1. stage'[c] \in {"none", "backlog"} => stage[c] = stage'[c]
    OBVIOUS
  <2>2. pc'[c[2]] # "dead" => c[2] # n /\ pc[c[2]] # "dead"
    BY <1>1, ConnEnds
  <2>3. c[2] # n /\ c[2] \in closed'[c] => c[2] \in closed[c]
    <3>1. closed'[c] = closed[c] \/ closed'[c] = closed[c] \cup {n}
      BY <1>2
    <3> QED
      BY <3>1, Zenon
  <2> QED
    BY <2>1, <2>2, <2>3 DEF HandlesInv, AcceptedFirst
<1> QED
  BY <1>3, <1>4, <1>5, <1>6, <1>7, <1>8 DEF HandlesInv

\* A server in its loop waits in no handshake, on either side.
LEMMA InLoopFree ==
  ASSUME HandlesInv, NEW n \in Servers, InLoop(n)
  PROVE  /\ pc[n] \notin {"down", "wait", "dead"}
         /\ \A d \in Conns : d[2] = n => stage[d] # "challenged"
         /\ \A d \in Conns : d[1] = n => stage[d] \notin UnderWay
  BY DEF HandlesInv, InLoop, OneChallenge, OneConnect

\* Sending on leaves the server in its loop or dead, and keeps HandlesInv.
LEMMA SendOnHandles ==
  ASSUME TypeInv, HandlesInv, NEW n \in Servers, NEW ch, NEW m, NEW label, NEW rest, NEW keep,
         InLoop(n), label \notin {"down", "wait", "dead"}, rest \ {Listen} \subseteq readSet[n],
         SendOn(n, ch, m, label, rest, keep),
         UNCHANGED <<stage, readSet, routes, client>>
  PROVE  HandlesInv'
<1>1. \/ \E ch2 : Die(n, ch2)
      \/ GoOn(n, label, rest, keep) /\ UNCHANGED closed
  BY DEF SendOn
<1>2. /\ pc[n] \notin {"down", "wait", "dead"}
      /\ \A d \in Conns : d[2] = n => stage[d] # "challenged"
  BY InLoopFree
<1>3. \A d \in Conns : stage'[d] = stage[d]
  OBVIOUS
<1>4. CASE \E ch2 : Die(n, ch2)
  BY <1>3, <1>4, DieHandles
<1>5. CASE GoOn(n, label, rest, keep) /\ UNCHANGED closed
  BY <1>2, <1>3, <1>5, GoOnHandles
<1> QED
  BY <1>1, <1>4, <1>5

\* A server that starts to connect to another, and waits, keeps it: it never did so
\* before.
LEMMA LinkHandles ==
  ASSUME TypeInv, HandlesInv, NEW n \in Servers, NEW p \in Servers, p # n, Listening(p),
         pc[n] # "dead", stage[<<n, p>>] = "none",
         \A d \in Conns : d[1] = n => stage[d] \notin UnderWay,
         \A d \in Conns : d[2] = n => stage[d] # "challenged",
         pc' = [pc EXCEPT ![n] = "wait"],
         stage' = [stage EXCEPT ![<<n, p>>] = "backlog"],
         \A x \in Servers : x # n => cur'[x] = cur[x],
         Awaited(n)' = p,
         \A x \in Servers : todo'[x] \subseteq todo[x],
         \A x \in Servers, i \in Servers : routes'[x][i] = routes[x][i],
         UNCHANGED <<closed, readSet, client>>
  PROVE  HandlesInv'
<1> DEFINE link == <<n, p>>
<1>1. link \in Conns /\ link[1] = n /\ link[2] = p
  BY IdsAssumption, ConfigAssumption DEF Conns, Ends
<1>2. /\ stage'[link] = "backlog" /\ stage[link] = "none"
      /\ \A d \in Conns : d # link => stage'[d] = stage[d]
  BY <1>1 DEF TypeInv, TypeOK
<1>3. /\ pc'[n] = "wait" /\ pc[p] \notin {"down", "dead"}
      /\ \A x \in Servers : x # n => pc'[x] = pc[x]
  BY DEF Listening, TypeInv, TypeOK
<1> HIDE DEF link
<1>4. HandlesAreOpen'
  <2>1. \A x \in Servers : pc'[x] # "dead" => pc[x] # "dead"
    BY <1>3
  <2> QED
    BY <2>1 DEF HandlesInv, HandlesAreOpen
<1>5. OneConnect'
  <2> SUFFICES ASSUME NEW c \in Conns, c[1] \in Servers, pc'[c[1]] # "dead"
               PROVE  /\ stage'[c] \in UnderWay => pc'[c[1]] = "wait" /\ c[2] = Awaited(c[1])'
                      /\ stage'[c] = "open" => routes'[c[1]][c[2]] # None
    BY DEF OneConnect, Awaited
  <2>1. CASE c = link
    BY <1>1, <1>2, <1>3, <2>1
  <2>2. CASE c # link /\ c[1] = n
    BY <1>2, <1>3, <2>2, ConnEnds DEF HandlesInv, OneConnect
  <2>3. CASE c[1] # n
    <3>1. /\ pc'[c[1]] = pc[c[1]] /\ stage'[c] = stage[c] /\ Awaited(c[1])' = Awaited(c[1])
          /\ routes'[c[1]][c[2]] = routes[c[1]][c[2]]
      BY <1>1, <1>2, <1>3, <2>3, ConnEnds DEF Awaited
    <3> QED
      BY <3>1 DEF HandlesInv, OneConnect
  <2> QED
    BY <2>1, <2>2, <2>3
<1>6. OneChallenge'
  <2> SUFFICES ASSUME NEW c \in Conns, stage'[c] = "challenged", pc'[c[2]] # "dead"
               PROVE  /\ pc'[c[2]] = "auth"
                      /\ \A d \in Conns : stage'[d] = "challenged" /\ d[2] = c[2] => d = c
    BY DEF OneChallenge
  <2>1. stage[c] = "challenged" /\ c[2] # n /\ c[2] \in Servers
    BY <1>2, ConnEnds
  <2>2. \A d \in Conns : stage'[d] = "challenged" => stage[d] = "challenged"
    BY <1>2
  <2> QED
    BY <1>3, <2>1, <2>2 DEF HandlesInv, OneChallenge
<1>7. NotBefore'
  <2>1. \A x \in Servers : pc'[x] = "down" => pc[x] = "down" /\ x # n
    BY <1>3
  <2>2. /\ \A c \in Conns : c # link => stage'[c] = stage[c]
        /\ pc[p] # "down" /\ \A x \in Servers : x \in {link[1], link[2]} => x \in {n, p}
    BY <1>1, <1>2, <1>3
  <2>3. \A c \in Conns : c[1] \in Clients => c # link
    BY <1>1, ConnEnds
  <2> QED
    BY <2>1, <2>2, <2>3 DEF HandlesInv, NotBefore
<1>8. NotAfter'
  <2> SUFFICES ASSUME NEW c \in Conns, NEW x \in Servers, pc'[x] = "dead", x \in {c[1], c[2]},
                      stage'[c] # "none"
               PROVE  x \in closed[c]
    BY DEF NotAfter
  <2>1. x # n /\ pc[x] = "dead" /\ x # p
    BY <1>3
  <2>2. c # link
    BY <1>1, <2>1
  <2> QED
    BY <1>2, <2>1, <2>2 DEF HandlesInv, NotAfter
<1>9. AcceptedFirst'
  <2>1. \A c \in Conns : stage'[c] \in {"none", "backlog"} => stage[c] \in {"none", "backlog"}
    BY <1>2
  <2>2. \A c \in Conns : pc'[c[2]] # "dead" => pc[c[2]] # "dead"
    BY <1>3, ConnEnds
  <2> QED
    BY <2>1, <2>2 DEF HandlesInv, AcceptedFirst
<1> QED
  BY <1>4, <1>5, <1>6, <1>7, <1>8, <1>9 DEF HandlesInv
-----------------------------------------------------------------------------
(* The actions of a server *)

\* Starting keeps it: nothing was connected before.
LEMMA StartHandles ==
  ASSUME TypeInv, HandlesInv, NEW n \in Servers, Start(n)
  PROVE  HandlesInv'
<1> DEFINE p == Primary[n]
<1>1. /\ pc[n] = "down" /\ cur[n] = None
      /\ \A d \in Conns : n \in {d[1], d[2]} => stage[d] = "none"
  BY DEF Start, HandlesInv, NotBefore
<1>2. /\ \A x \in Servers, i \in Servers : routes'[x][i] = routes[x][i]
      /\ \A x \in Servers : todo'[x] = todo[x] /\ cur'[x] = cur[x]
      /\ UNCHANGED <<closed, readSet, client, todo, cur>>
  <2>1. \A i \in Servers : i # TcId[n] /\ i \in Ids
    BY IdsAssumption, ConfigAssumption DEF Ids
  <2>2. routes' = [routes EXCEPT ![n] = [@ EXCEPT ![TcId[n]] = MQ]] /\ routes[n] \in RouteType
    BY DEF Start, TypeInv, TypeOK, RouteType
  <2>3. ASSUME NEW x \in Servers, NEW i \in Servers PROVE routes'[x][i] = routes[x][i]
    BY <2>1, <2>2 DEF TypeInv, TypeOK, RouteType
  <2> QED
    BY <2>3 DEF Start
<1>3. CASE p # None /\ Listening(p)
  <2>1. p \in Servers /\ p # n
    BY <1>3, ConfigAssumption
  <2>2. stage[<<n, p>>] = "none"
    <3>1. <<n, p>> \in Conns
      BY <2>1, IdsAssumption DEF Conns, Ends
    <3> QED
      BY <1>1, <3>1
  <2>3. pc' = [pc EXCEPT ![n] = "wait"] /\ stage' = [stage EXCEPT ![<<n, p>>] = "backlog"]
    BY <1>3 DEF Start
  <2>4. Awaited(n)' = p
    BY <1>1, <1>2 DEF Awaited
  <2> QED
    BY <1>1, <1>2, <1>3, <2>1, <2>2, <2>3, <2>4, LinkHandles DEF UnderWay
<1>4. CASE stage' = stage /\ \E label \in {"top", "dead"} : pc' = [pc EXCEPT ![n] = label]
  <2>1. /\ pc'[n] \in {"top", "dead"} /\ \A x \in Servers : x # n => pc'[x] = pc[x]
    BY <1>4 DEF TypeInv, TypeOK
  <2>2. HandlesAreOpen'
    BY <1>1, <1>2, <2>1 DEF HandlesInv, HandlesAreOpen
  <2>3. OneConnect'
    BY <1>1, <1>2, <1>4, <2>1, ConnEnds DEF HandlesInv, OneConnect, UnderWay, Awaited
  <2>4. OneChallenge'
    BY <1>1, <1>4, <2>1, ConnEnds DEF HandlesInv, OneChallenge
  <2>5. NotBefore'
    BY <1>2, <1>4, <2>1 DEF HandlesInv, NotBefore
  <2>6. NotAfter'
    <3> SUFFICES ASSUME NEW c \in Conns, NEW x \in Servers, pc'[x] = "dead", x \in {c[1], c[2]},
                        stage[c] # "none"
                 PROVE  x \in closed[c]
      BY <1>2, <1>4 DEF NotAfter
    <3> QED
      BY <1>1, <2>1 DEF HandlesInv, NotAfter
  <2>7. AcceptedFirst'
    BY <1>1, <1>2, <1>4, <2>1, ConnEnds DEF HandlesInv, AcceptedFirst
  <2> QED
    BY <2>2, <2>3, <2>4, <2>5, <2>6, <2>7 DEF HandlesInv
<1> QED
  BY <1>3, <1>4 DEF Start

\* So does broadcasting and selecting: what select() returns is in the set.
LEMMA TopHandles ==
  ASSUME TypeInv, HandlesInv, NEW n \in Servers, Top(n)
  PROVE  HandlesInv'
<1>1. InLoop(n) /\ UNCHANGED <<stage, readSet, routes, client>>
  BY DEF Top, InLoop
<1>2. Ready(n) \ {Listen} \subseteq readSet[n]
  BY DEF Ready
<1>3. \/ \E m : SendOn(n, chan, m, "mq", Ready(n), None)
      \/ GoOn(n, "mq", Ready(n), None) /\ UNCHANGED closed
  BY DEF Top
<1>4. /\ pc[n] \notin {"down", "wait", "dead"}
      /\ \A d \in Conns : d[2] = n => stage[d] # "challenged"
  BY <1>1, InLoopFree
<1>5. \A d \in Conns : stage'[d] = stage[d]
  BY <1>1
<1>6. CASE \E m : SendOn(n, chan, m, "mq", Ready(n), None)
  BY <1>1, <1>2, <1>6, SendOnHandles
<1>7. CASE GoOn(n, "mq", Ready(n), None) /\ UNCHANGED closed
  BY <1>1, <1>2, <1>4, <1>5, <1>7, GoOnHandles
<1> QED
  BY <1>3, <1>6, <1>7

\* So does draining the queue.
LEMMA DrainMQHandles ==
  ASSUME TypeInv, HandlesInv, NEW n \in Servers, DrainMQ(n)
  PROVE  HandlesInv'
<1>1. InLoop(n) /\ UNCHANGED <<stage, readSet, routes, client>>
  BY DEF DrainMQ, InLoop
<1>2. todo[n] \ {Listen} \subseteq readSet[n]
  BY DEF HandlesInv, HandlesAreOpen
<1>3. /\ pc[n] \notin {"down", "wait", "dead"}
      /\ \A d \in Conns : d[2] = n => stage[d] # "challenged"
  BY <1>1, InLoopFree
<1>4. /\ \A d \in Conns : stage'[d] = stage[d]
      /\ AfterSock(todo[n]) \notin {"down", "wait", "dead"}
      /\ AfterMQ(todo[n]) \notin {"down", "wait", "dead"}
  BY <1>1 DEF AfterSock, AfterMQ
<1>5. \/ \E m : SendOn(n, chan, m, AfterMQ(todo[n]), todo[n], None)
      \/ GoOn(n, AfterSock(todo[n]), todo[n], None) /\ UNCHANGED closed
      \/ UNCHANGED <<pc, cur, todo, closed>>
  BY DEF DrainMQ
<1>6. CASE \E m : SendOn(n, chan, m, AfterMQ(todo[n]), todo[n], None)
  BY <1>1, <1>2, <1>4, <1>6, SendOnHandles
<1>7. CASE GoOn(n, AfterSock(todo[n]), todo[n], None) /\ UNCHANGED closed
  BY <1>1, <1>2, <1>3, <1>4, <1>7, GoOnHandles
<1>8. CASE UNCHANGED <<pc, cur, todo, closed>>
  BY <1>1, <1>8, HandlesStutter
<1> QED
  BY <1>5, <1>6, <1>7, <1>8

\* So does the rest of floodRoute().
LEMMA FloodHandles ==
  ASSUME TypeInv, HandlesInv, NEW n \in Servers, Flood(n)
  PROVE  HandlesInv'
<1>1. InLoop(n) /\ UNCHANGED <<stage, readSet, routes, client>>
  BY DEF Flood, InLoop
<1>2. todo[n] \ {Listen} \subseteq readSet[n]
  BY DEF HandlesInv, HandlesAreOpen
<1>3. /\ pc[n] \notin {"down", "wait", "dead"}
      /\ \A d \in Conns : d[2] = n => stage[d] # "challenged"
  BY <1>1, InLoopFree
<1>4. /\ \A d \in Conns : stage'[d] = stage[d]
      /\ AfterSock(todo[n]) \notin {"down", "wait", "dead"}
  BY <1>1 DEF AfterSock
<1>5. \/ SendOn(n, chan, cur[n], AfterSock(todo[n]), todo[n], None)
      \/ GoOn(n, AfterSock(todo[n]), todo[n], None) /\ UNCHANGED closed
  BY DEF Flood
<1>6. CASE SendOn(n, chan, cur[n], AfterSock(todo[n]), todo[n], None)
  BY <1>1, <1>2, <1>4, <1>6, SendOnHandles
<1>7. CASE GoOn(n, AfterSock(todo[n]), todo[n], None) /\ UNCHANGED closed
  BY <1>1, <1>2, <1>3, <1>4, <1>7, GoOnHandles
<1> QED
  BY <1>5, <1>6, <1>7

\* So does receiving a message, even one that makes the server connect to another.
LEMMA ReceiveHandles ==
  ASSUME TypeInv, HandlesInv, NEW n \in Servers, Receive(n)
  PROVE  HandlesInv'
<1>1. PICK c \in todo[n] \cap authOK[n] :
        /\ chan[c][n] # <<>>
        /\ \/ ReceiveAgain(n, c, todo[n] \ {c}) \/ ReceiveLink(n, c, todo[n] \ {c})
           \/ ReceivePing(n, c, todo[n] \ {c}) \/ ReceiveUnknown(n, c, todo[n] \ {c})
           \/ ReceiveOther(n, c, todo[n] \ {c})
  BY DEF Receive
<1> DEFINE m == Arrived(n, c)
           rest == todo[n] \ {c}
<1>2. /\ InLoop(n) /\ pc[n] = "sock"
      /\ UNCHANGED <<readSet, routes, client>>
  BY DEF Receive, InLoop
<1>3. rest \ {Listen} \subseteq readSet[n] /\ rest \subseteq todo[n]
  BY DEF HandlesInv, HandlesAreOpen
<1>4. /\ pc[n] \notin {"down", "wait", "dead"}
      /\ \A d \in Conns : d[2] = n => stage[d] # "challenged"
      /\ \A d \in Conns : d[1] = n => stage[d] \notin UnderWay
  BY <1>2, InLoopFree
<1>5. AfterSock(rest) \notin {"down", "wait", "dead"}
  BY DEF AfterSock
<1>6. m \in Messages
  BY <1>1, PopType DEF TypeInv, TypeOK, ChanType, Arrived, Ends
<1> HIDE DEF rest, m
<1>7. CASE stage' = stage /\ (\E ch : Die(n, ch))
  <2>1. \A d \in Conns : stage'[d] = stage[d]
    BY <1>7
  <2> QED
    BY <1>2, <1>7, <2>1, DieHandles
<1>8. CASE /\ UNCHANGED <<stage, closed>>
           /\ \E label \in {AfterSock(rest), "flood"} : \E x : GoOn(n, label, rest, x)
  <2>1. \A d \in Conns : stage'[d] = stage[d]
    BY <1>8
  <2> QED
    BY <1>2, <1>3, <1>4, <1>5, <1>8, <2>1, GoOnHandles
<1>9. CASE stage' = stage /\ (\E ch, r, x : SendOn(n, ch, r, "flood", rest, x))
  BY <1>2, <1>3, <1>9, SendOnHandles
<1>10. CASE /\ WantsLink(n, m, routes[n], n \in AutoLinks) /\ Listening(m.src)
            /\ GoOn(n, "wait", rest, m)
            /\ stage' = [stage EXCEPT ![<<n, m.src>>] = "backlog"]
            /\ UNCHANGED closed
  <2> DEFINE p == m.src
  <2>1. p \in Servers /\ p # n /\ routes[n][p] = None
    BY <1>6, <1>10 DEF Messages, WantsLink
  <2>2. stage[<<n, p>>] = "none"
    <3>1. <<n, p>> \in Conns
      BY <2>1, IdsAssumption DEF Conns, Ends
    <3>2. stage[<<n, p>>] # "open"
      BY <1>2, <2>1, <3>1 DEF HandlesInv, OneConnect
    <3>3. stage[<<n, p>>] \in Stages /\ stage[<<n, p>>] \notin UnderWay
      BY <1>4, <3>1 DEF TypeInv, TypeOK
    <3> QED
      BY <3>2, <3>3 DEF Stages, UnderWay
  <2>3. Awaited(n)' = p
    BY <1>6, <1>10, NoneAssumption DEF GoOn, TypeInv, TypeOK, Awaited
  <2>4. /\ pc' = [pc EXCEPT ![n] = "wait"]
        /\ \A x \in Servers : x # n => cur'[x] = cur[x]
        /\ \A x \in Servers : todo'[x] \subseteq todo[x]
    BY <1>3, <1>10 DEF GoOn, TypeInv, TypeOK
  <2>5. \A x \in Servers, i \in Servers : routes'[x][i] = routes[x][i]
    BY <1>2
  <2> HIDE DEF p
  <2>6. stage' = [stage EXCEPT ![<<n, p>>] = "backlog"] /\ Listening(p)
    BY <1>10 DEF p
  <2> QED
    BY <1>2, <1>4, <1>10, <2>1, <2>2, <2>3, <2>4, <2>5, <2>6, LinkHandles
<1> QED
  BY <1>1, <1>7, <1>8, <1>9, <1>10
     DEF ReceiveAgain, ReceiveLink, ReceivePing, ReceiveUnknown, ReceiveOther, rest, m

\* So does accepting: the server takes part in no other handshake, and the connection
\* it adds to its set is open.
LEMMA AcceptHandles ==
  ASSUME TypeInv, HandlesInv, NEW n \in Servers, Accept(n)
  PROVE  HandlesInv'
<1>1. PICK c \in Conns :
        /\ c[2] = n /\ stage[c] = "backlog"
        /\ stage' = [stage EXCEPT ![c] = "challenged"]
        /\ readSet' = [readSet EXCEPT ![n] = @ \cup {c}]
  BY DEF Accept
<1>2. /\ stage'[c] = "challenged" /\ \A d \in Conns : d # c => stage'[d] = stage[d]
      /\ readSet'[n] = readSet[n] \cup {c} /\ \A x \in Servers : x # n => readSet'[x] = readSet[x]
  BY <1>1 DEF TypeInv, TypeOK
<1>3. /\ pc'[n] = "auth" /\ \A x \in Servers : x # n => pc'[x] = pc[x] /\ cur'[x] = cur[x]
      /\ todo'[n] = todo[n] \ {Listen} /\ \A x \in Servers : x # n => todo'[x] = todo[x]
      /\ UNCHANGED <<closed, routes, client>>
  BY DEF Accept, GoOn, TypeInv, TypeOK
<1>4. InLoop(n) /\ pc[n] = "sock"
  BY DEF Accept, InLoop
<1>5. /\ \A d \in Conns : d[2] = n => stage[d] # "challenged"
      /\ \A d \in Conns : d[1] = n => stage[d] \notin UnderWay
  BY <1>4, InLoopFree
<1>6. HandlesAreOpen'
  <2>1. n \notin closed[c]
    BY <1>1, <1>4 DEF HandlesInv, AcceptedFirst
  <2> QED
    BY <1>2, <1>3, <1>4, <2>1 DEF HandlesInv, HandlesAreOpen
<1>7. OneConnect'
  <2> SUFFICES ASSUME NEW d \in Conns, d[1] \in Servers, pc'[d[1]] # "dead"
               PROVE  /\ stage'[d] \in UnderWay => pc'[d[1]] = "wait" /\ d[2] = Awaited(d[1])'
                      /\ stage'[d] = "open" => routes'[d[1]][d[2]] # None
    BY DEF OneConnect, Awaited
  <2>1. CASE d[1] = n
    <3>1. d # c
      BY <1>1, <2>1, ConnEnds
    <3> QED
      BY <1>2, <1>3, <1>4, <1>5, <2>1, <3>1 DEF HandlesInv, OneConnect
  <2>2. CASE d[1] # n
    <3>1. pc'[d[1]] = pc[d[1]] /\ Awaited(d[1])' = Awaited(d[1])
      BY <1>3, <2>2 DEF Awaited
    <3>2. /\ stage'[d] \in UnderWay => stage[d] \in UnderWay
          /\ stage'[d] = "open" => stage[d] = "open"
      BY <1>1, <1>2 DEF UnderWay
    <3> QED
      BY <1>3, <3>1, <3>2 DEF HandlesInv, OneConnect
  <2> QED
    BY <2>1, <2>2
<1>8. OneChallenge'
  BY <1>1, <1>2, <1>3, <1>5, ConnEnds DEF HandlesInv, OneChallenge
<1>9. NotBefore'
  <2>1. \A x \in Servers : pc'[x] = "down" => pc[x] = "down" /\ cur'[x] = cur[x]
    BY <1>3
  <2>2. \A d \in Conns : stage[d] = "none" => stage'[d] = "none"
    BY <1>1, <1>2
  <2> QED
    BY <1>3, <2>1, <2>2 DEF HandlesInv, NotBefore
<1>10. NotAfter'
  <2>1. \A x \in Servers : pc'[x] = "dead" => pc[x] = "dead"
    BY <1>3
  <2>2. \A d \in Conns : stage'[d] # "none" => stage[d] # "none"
    BY <1>1, <1>2
  <2> QED
    BY <1>3, <2>1, <2>2 DEF HandlesInv, NotAfter
<1>11. AcceptedFirst'
  <2>1. \A d \in Conns : stage'[d] \in {"none", "backlog"} => d # c /\ stage[d] = stage'[d]
    BY <1>2
  <2>2. \A d \in Conns : pc'[d[2]] # "dead" => pc[d[2]] # "dead"
    BY <1>3, <1>4, ConnEnds
  <2>3. \A d \in Conns, x \in Servers : d # c /\ d \in readSet'[x] => d \in readSet[x]
    BY <1>2
  <2> QED
    BY <1>3, <2>1, <2>2, <2>3 DEF HandlesInv, AcceptedFirst
<1> QED
  BY <1>6, <1>7, <1>8, <1>9, <1>10, <1>11 DEF HandlesInv

\* So does closing, which takes the connection out of the set.
LEMMA CloseHandles ==
  ASSUME TypeInv, HandlesInv, NEW n \in Servers, Close(n)
  PROVE  HandlesInv'
<1>1. PICK c \in todo[n] \ {Listen} :
        /\ readSet' = [readSet EXCEPT ![n] = @ \ {c}]
        /\ closed' = [closed EXCEPT ![c] = @ \cup {n}]
        /\ GoOn(n, AfterSock(todo[n] \ {c}), todo[n] \ {c}, None)
  BY DEF Close, Deselect
<1>2. c \in readSet[n] /\ c \in Conns /\ stage[c] \notin {"none", "backlog"}
  BY DEF HandlesInv, HandlesAreOpen, AcceptedFirst, TypeInv, TypeOK
<1>3. /\ closed'[c] = closed[c] \cup {n} /\ \A d \in Conns : d # c => closed'[d] = closed[d]
      /\ readSet'[n] = readSet[n] \ {c} /\ \A x \in Servers : x # n => readSet'[x] = readSet[x]
  BY <1>1, <1>2 DEF TypeInv, TypeOK
<1>4. /\ pc'[n] \in {"top", "sock"}
      /\ \A x \in Servers : x # n => pc'[x] = pc[x] /\ cur'[x] = cur[x]
      /\ todo'[n] = todo[n] \ {c} /\ \A x \in Servers : x # n => todo'[x] = todo[x]
      /\ UNCHANGED <<stage, routes, client>>
  BY <1>1 DEF Close, GoOn, AfterSock, TypeInv, TypeOK
<1>5. InLoop(n) /\ pc[n] = "sock"
  BY DEF Close, InLoop
<1>6. /\ \A d \in Conns : d[2] = n => stage[d] # "challenged"
      /\ \A d \in Conns : d[1] = n => stage[d] \notin UnderWay
  BY <1>5, InLoopFree
<1>7. HandlesAreOpen'
  <2> SUFFICES ASSUME NEW x \in Servers
               PROVE  /\ todo'[x] \ {Listen} \subseteq readSet'[x]
                      /\ pc'[x] # "dead" => \A d \in readSet'[x] : x \notin closed'[d]
    BY DEF HandlesAreOpen
  <2>1. \A d \in readSet'[x] : d \in readSet[x] /\ d \in Conns
    BY <1>3 DEF TypeInv, TypeOK
  <2>2. \A d \in readSet'[x] : x \in closed'[d] => x \in closed[d]
    BY <1>3, <2>1
  <2> QED
    BY <1>3, <1>4, <1>5, <2>1, <2>2 DEF HandlesInv, HandlesAreOpen
<1>8. OneConnect'
  <2> SUFFICES ASSUME NEW d \in Conns, d[1] \in Servers, pc'[d[1]] # "dead"
               PROVE  /\ stage'[d] \in UnderWay => pc'[d[1]] = "wait" /\ d[2] = Awaited(d[1])'
                      /\ stage'[d] = "open" => routes'[d[1]][d[2]] # None
    BY DEF OneConnect, Awaited
  <2>1. CASE d[1] = n
    BY <1>4, <1>5, <1>6, <2>1 DEF HandlesInv, OneConnect
  <2>2. CASE d[1] # n
    BY <1>4, <2>2 DEF HandlesInv, OneConnect, Awaited
  <2> QED
    BY <2>1, <2>2
<1>9. OneChallenge'
  BY <1>4, <1>6, ConnEnds DEF HandlesInv, OneChallenge
<1>10. NotBefore'
  BY <1>4 DEF HandlesInv, NotBefore
<1>11. NotAfter'
  BY <1>3, <1>4 DEF HandlesInv, NotAfter
<1>12. AcceptedFirst'
  <2>1. \A d \in Conns : pc'[d[2]] # "dead" => pc[d[2]] # "dead"
    BY <1>4, <1>5, ConnEnds
  <2>2. \A d \in Conns, x \in Servers : d \in readSet'[x] => d \in readSet[x]
    BY <1>3
  <2> QED
    BY <1>2, <1>3, <1>4, <2>1, <2>2 DEF HandlesInv, AcceptedFirst
<1> QED
  BY <1>7, <1>8, <1>9, <1>10, <1>11, <1>12 DEF HandlesInv
-----------------------------------------------------------------------------
(* The handshake and the clients *)

\* Both ends of a handshake live, and take part in no other.
LEMMA LogInHandles ==
  ASSUME TypeInv, HandlesInv, NEW c \in Conns, LogIn(c)
  PROVE  HandlesInv'
<1> DEFINE a == c[1]
           b == c[2]
<1>1. /\ a \in Ends /\ b \in Servers /\ a # b /\ a \in Ids /\ b \in Ids
      /\ c = <<a, b>> /\ c # None
  BY ConnEnds DEF Ends, Ids
<1>2. stage[c] = "challenged" /\ closed[c] = {}
  BY DEF LogIn
<1>3. /\ pc[b] = "auth" /\ \A d \in Conns : stage[d] = "challenged" /\ d[2] = b => d = c
      /\ a \in Servers => pc[a] = "wait" /\ b = Awaited(a)
  <2>1. pc[b] # "dead" /\ (a \in Servers => pc[a] # "dead")
    BY <1>1, <1>2 DEF HandlesInv, NotAfter
  <2> QED
    BY <1>1, <1>2, <2>1 DEF HandlesInv, OneChallenge, OneConnect, UnderWay
<1>4. /\ stage'[c] = "open" /\ \A d \in Conns : d # c => stage'[d] = stage[d]
      /\ pc'[b] \in {"top", "sock"} /\ (a \in Servers => pc'[a] \in {"top", "flood"})
      /\ \A x \in Servers : x \notin {a, b} => pc'[x] = pc[x]
      /\ UNCHANGED <<cur, todo, closed>>
      /\ \A d \in Clients : client'[d] = "off" => client[d] = "off"
  BY <1>1 DEF LogIn, AfterSock, TypeInv, TypeOK
<1>5. ASSUME NEW x \in Servers
      PROVE  readSet'[x] = readSet[x] \/ (x = a /\ readSet'[x] = readSet[x] \cup {c})
  <2>1. readSet'[x] = IF x = a /\ a \in Servers /\ cur[a] = None
                      THEN readSet[x] \cup {c} ELSE readSet[x]
    BY DEF LogIn
  <2> QED
    BY <2>1
<1>6. /\ a \in Servers => routes'[a][b] # None
      /\ \A x \in Servers, i \in Servers : routes[x][i] # None => routes'[x][i] # None
  <2>1. \A x \in Servers : routes[x] \in RouteType
    BY DEF TypeInv, TypeOK, RouteType
  <2>2. /\ routes'[b] = [routes[b] EXCEPT ![a] = c]
        /\ a \in Servers => routes'[a] = [routes[a] EXCEPT ![b] = c]
        /\ \A x \in Servers : x \notin {a, b} => routes'[x] = routes[x]
    BY <1>1 DEF LogIn
  <2>3. Servers \subseteq Ids
    BY DEF Ids
  <2> QED
    BY <1>1, <2>1, <2>2, <2>3 DEF RouteType
<1> HIDE DEF a, b
<1>7. HandlesAreOpen'
  <2>1. \A x \in Servers : pc'[x] # "dead" => pc[x] # "dead"
    BY <1>3, <1>4
  <2> QED
    BY <1>2, <1>4, <1>5, <2>1 DEF HandlesInv, HandlesAreOpen
<1>8. OneConnect'
  <2> SUFFICES ASSUME NEW d \in Conns, d[1] \in Servers, pc'[d[1]] # "dead"
               PROVE  /\ stage'[d] \in UnderWay => pc'[d[1]] = "wait" /\ d[2] = Awaited(d[1])'
                      /\ stage'[d] = "open" => routes'[d[1]][d[2]] # None
    BY DEF OneConnect, Awaited
  <2>0. d = <<d[1], d[2]>> /\ d[2] \in Servers
    BY ConnEnds
  <2>1. CASE d = c
    BY <1>4, <1>6, <2>1 DEF UnderWay, a, b
  <2>2. CASE d # c /\ d[1] = a
    <3>1. stage[d] \notin UnderWay
      BY <1>1, <1>3, <2>0, <2>2 DEF HandlesInv, OneConnect
    <3> QED
      BY <1>3, <1>4, <1>6, <2>0, <2>2, <3>1 DEF HandlesInv, OneConnect
  <2>3. CASE d # c /\ d[1] = b
    <3>1. stage[d] \notin UnderWay
      BY <1>3, <2>3 DEF HandlesInv, OneConnect
    <3> QED
      BY <1>3, <1>4, <1>6, <2>0, <2>3, <3>1 DEF HandlesInv, OneConnect
  <2>4. CASE d # c /\ d[1] \notin {a, b}
    BY <1>4, <1>6, <2>0, <2>4 DEF HandlesInv, OneConnect, Awaited
  <2> QED
    BY <2>1, <2>2, <2>3, <2>4
<1>9. OneChallenge'
  <2> SUFFICES ASSUME NEW d \in Conns, stage'[d] = "challenged", pc'[d[2]] # "dead"
               PROVE  /\ pc'[d[2]] = "auth"
                      /\ \A e \in Conns : stage'[e] = "challenged" /\ e[2] = d[2] => e = d
    BY DEF OneChallenge
  <2>1. d # c /\ stage[d] = "challenged" /\ d[2] \in Servers
    BY <1>4, ConnEnds
  <2>2. d[2] # b
    BY <1>3, <2>1
  <2>3. d[2] # a
    BY <1>3, <2>1 DEF HandlesInv, OneChallenge
  <2>4. \A e \in Conns : stage'[e] = "challenged" => stage[e] = "challenged"
    BY <1>4
  <2> QED
    BY <1>4, <2>1, <2>2, <2>3, <2>4 DEF HandlesInv, OneChallenge
<1>10. NotBefore'
  <2>1. \A x \in Servers : pc'[x] = "down" => pc[x] = "down"
    BY <1>4
  <2>2. \A d \in Conns : stage[d] = "none" => stage'[d] = "none"
    BY <1>2, <1>4
  <2> QED
    BY <1>4, <2>1, <2>2 DEF HandlesInv, NotBefore
<1>11. NotAfter'
  <2>1. \A x \in Servers : pc'[x] = "dead" => pc[x] = "dead"
    BY <1>4
  <2>2. \A d \in Conns : stage'[d] # "none" => stage[d] # "none"
    BY <1>2, <1>4
  <2> QED
    BY <1>4, <2>1, <2>2 DEF HandlesInv, NotAfter
<1>12. AcceptedFirst'
  <2>1. \A d \in Conns : stage'[d] \in {"none", "backlog"} => d # c /\ stage[d] = stage'[d]
    BY <1>4
  <2>2. \A d \in Conns : pc'[d[2]] # "dead" => pc[d[2]] # "dead"
    BY <1>3, <1>4, ConnEnds
  <2>3. \A d \in Conns, x \in Servers : d # c /\ d \in readSet'[x] => d \in readSet[x]
    BY <1>5
  <2> QED
    BY <1>4, <2>1, <2>2, <2>3 DEF HandlesInv, AcceptedFirst
<1> QED
  BY <1>7, <1>8, <1>9, <1>10, <1>11, <1>12 DEF HandlesInv

\* So does the acceptor of a handshake that fails.
LEMMA LogInFailsHandles ==
  ASSUME TypeInv, HandlesInv, NEW c \in Conns, LogInFails(c)
  PROVE  HandlesInv'
<1> DEFINE b == c[2]
<1>1. /\ b \in Servers /\ stage[c] = "challenged" /\ b \notin closed[c]
      /\ stage' = [stage EXCEPT ![c] = "refused"]
      /\ UNCHANGED <<readSet, routes, client>>
  BY ConnEnds DEF LogInFails
<1>2. pc[b] = "auth" /\ \A d \in Conns : stage[d] = "challenged" /\ d[2] = b => d = c
  <2>1. pc[b] # "dead"
    BY <1>1 DEF HandlesInv, NotAfter
  <2> QED
    BY <1>1, <2>1 DEF HandlesInv, OneChallenge
<1>3. /\ \A d \in Conns : \/ stage'[d] = stage[d]
                          \/ stage[d] = "challenged" /\ stage'[d] = "refused"
      /\ \A d \in Conns : d[2] = b => stage'[d] # "challenged"
  BY <1>1, <1>2 DEF TypeInv, TypeOK
<1>4. /\ AfterSock(todo[b]) \notin {"down", "wait", "dead"}
      /\ todo[b] \ {Listen} \subseteq readSet[b]
  BY <1>1 DEF AfterSock, HandlesInv, HandlesAreOpen
<1>5. \/ GoOn(b, AfterSock(todo[b]), todo[b], None) /\ UNCHANGED closed
      \/ Die(b, chan)
  BY DEF LogInFails
<1> HIDE DEF b
<1>6. CASE GoOn(b, AfterSock(todo[b]), todo[b], None) /\ UNCHANGED closed
  BY <1>1, <1>2, <1>3, <1>4, <1>6, GoOnHandles
<1>7. CASE Die(b, chan)
  BY <1>1, <1>3, <1>7, DieHandles
<1> QED
  BY <1>5, <1>6, <1>7

\* A client that goes away closes its own end only.
LEMMA ClientGoneHandles ==
  ASSUME TypeInv, HandlesInv, NEW c \in Conns, c[1] \in Clients,
         client' = [client EXCEPT ![c[1]] = "quit"],
         closed' = [closed EXCEPT ![c] = @ \cup {c[1]}],
         UNCHANGED <<pc, cur, todo, readSet, stage, routes>>
  PROVE  HandlesInv'
<1>1. \A x \in Servers : x # c[1]
  BY IdsAssumption
<1>2. \A d \in Conns, x \in Servers : x \in closed'[d] <=> x \in closed[d]
  BY <1>1 DEF TypeInv, TypeOK
<1>3. HandlesAreOpen'
  BY <1>2 DEF HandlesInv, HandlesAreOpen, TypeInv, TypeOK
<1>4. OneConnect' /\ OneChallenge'
  BY DEF HandlesInv, OneConnect, OneChallenge, Awaited
<1>5. NotBefore'
  <2>1. \A d \in Clients : client'[d] = "off" => client[d] = "off"
    BY DEF TypeInv, TypeOK
  <2> QED
    BY <2>1 DEF HandlesInv, NotBefore
<1>6. NotAfter' /\ AcceptedFirst'
  BY <1>2, ConnEnds DEF HandlesInv, NotAfter, AcceptedFirst
<1> QED
  BY <1>3, <1>4, <1>5, <1>6 DEF HandlesInv

\* A connector whose acceptor died dies, or goes away.
LEMMA OrphanedHandles ==
  ASSUME TypeInv, HandlesInv, NEW c \in Conns, Orphaned(c)
  PROVE  HandlesInv'
<1>1. \A d \in Conns : stage'[d] = stage[d]
  BY DEF Orphaned
<1>2. CASE c[1] \in Servers /\ Die(c[1], chan) /\ UNCHANGED client
  BY <1>1, <1>2, DieHandles DEF Orphaned
<1>3. CASE /\ c[1] \in Clients
           /\ client' = [client EXCEPT ![c[1]] = "quit"]
           /\ closed' = [closed EXCEPT ![c] = @ \cup {c[1]}]
           /\ UNCHANGED <<pc, cur, todo>>
  BY <1>3, ClientGoneHandles DEF Orphaned
<1> QED
  BY <1>2, <1>3 DEF Orphaned

\* A client connects once.
LEMMA ConnectHandles ==
  ASSUME TypeInv, HandlesInv, NEW c \in Clients, Connect(c)
  PROVE  HandlesInv'
<1> DEFINE link == <<c, Home[c]>>
<1>1. link \in Conns /\ link[1] = c /\ link[2] = Home[c] /\ Home[c] \in Servers /\ c \notin Servers
  BY LinkType, IdsAssumption
<1>2. /\ UNCHANGED <<pc, cur, todo, readSet, routes, closed>>
      /\ client[c] = "off" /\ pc[Home[c]] \notin {"down", "dead"}
  BY DEF Connect, srvVars, Listening
<1>3. /\ stage'[link] = "backlog" /\ \A d \in Conns : d # link => stage'[d] = stage[d]
      /\ client'[c] = "wait" /\ \A d \in Clients : d # c => client'[d] = client[d]
  BY <1>1 DEF Connect, TypeInv, TypeOK
<1>4. stage[link] = "none"
  BY <1>1, <1>2 DEF HandlesInv, NotBefore
<1> HIDE DEF link
<1>5. HandlesAreOpen'
  BY <1>2 DEF HandlesInv, HandlesAreOpen
<1>6. OneConnect'
  BY <1>1, <1>2, <1>3 DEF HandlesInv, OneConnect, Awaited
<1>7. OneChallenge'
  BY <1>2, <1>3 DEF HandlesInv, OneChallenge
<1>8. NotBefore'
  <2>1. /\ \A d \in Conns : d # link => stage'[d] = stage[d]
        /\ \A x \in Servers : x \in {link[1], link[2]} => pc'[x] # "down"
        /\ client'[link[1]] # "off"
        /\ \A d \in Clients : client'[d] = "off" => client[d] = "off"
    BY <1>1, <1>2, <1>3
  <2> QED
    BY <1>2, <2>1 DEF HandlesInv, NotBefore
<1>9. NotAfter'
  BY <1>1, <1>2, <1>3 DEF HandlesInv, NotAfter
<1>10. AcceptedFirst'
  BY <1>2, <1>3, <1>4 DEF HandlesInv, AcceptedFirst
<1> QED
  BY <1>5, <1>6, <1>7, <1>8, <1>9, <1>10 DEF HandlesInv
-----------------------------------------------------------------------------
\* Every step keeps HandlesInv.
LEMMA HandlesStep == TypeInv /\ HandlesInv /\ [Next]_vars => HandlesInv'
<1> SUFFICES ASSUME TypeInv, HandlesInv, [Next]_vars PROVE HandlesInv'
  OBVIOUS
<1>1. CASE UNCHANGED vars
  BY <1>1, HandlesStutter DEF vars, srvVars, netVars
<1>2. ASSUME NEW n \in Servers, ServerStep(n) PROVE HandlesInv'
  BY <1>2, StartHandles, TopHandles, DrainMQHandles, AcceptHandles, ReceiveHandles,
     FloodHandles, CloseHandles DEF ServerStep, LoopStep
<1>3. ASSUME NEW n \in Servers, TcsStep(n) PROVE HandlesInv'
  BY <1>3, HandlesStutter DEF TcsStep, TcsReceive, TcsSend, srvVars, netVars
<1>4. ASSUME NEW c \in Conns, Handshake(c) PROVE HandlesInv'
  BY <1>4, LogInHandles, LogInFailsHandles, OrphanedHandles DEF Handshake
<1>5. ASSUME NEW c \in Clients, ClientStep(c) PROVE HandlesInv'
  <2>1. CASE Connect(c)
    BY <2>1, ConnectHandles
  <2>2. CASE ClientCall(c) \/ ClientReceive(c)
    BY <2>2, HandlesStutter DEF ClientCall, ClientReceive, srvVars
  <2>3. CASE ClientQuit(c)
    <3>1. <<c, Home[c]>> \in Conns /\ <<c, Home[c]>>[1] = c
      BY LinkType
    <3>2. /\ client' = [client EXCEPT ![c] = "quit"]
          /\ closed' = [closed EXCEPT ![<<c, Home[c]>>] = @ \cup {c}]
          /\ UNCHANGED <<pc, cur, todo, readSet, stage, routes>>
      BY <2>3 DEF ClientQuit, srvVars
    <3> QED
      BY <3>1, <3>2, ClientGoneHandles
  <2> QED
    BY <1>5, <2>1, <2>2, <2>3 DEF ClientStep
<1> QED
  BY <1>1, <1>2, <1>3, <1>4, <1>5 DEF Next

\* The loop never serves a handle that it closed, in any network and whatever
\* connections are opened and closed between select() and the handle's turn
\* (MessSrv.pl:100-204).
THEOREM OpenHandles == Spec => []HandlesAreOpen
<1>1. Init => HandlesInv
  BY ConnEnds DEF Init, HandlesInv, HandlesAreOpen, OneConnect, OneChallenge, NotBefore,
     NotAfter, AcceptedFirst, UnderWay
<1>2. TypeInv /\ HandlesInv /\ [Next]_vars => HandlesInv'
  BY HandlesStep
<1>3. HandlesInv => HandlesAreOpen
  BY DEF HandlesInv
<1> QED
  BY <1>1, <1>2, <1>3, TypeInvariant, PTL DEF Spec
-----------------------------------------------------------------------------
(* Waiting *)

\* Whoever is connected to listened, and listens until it dies; only a server that
\* links to the servers it hears of waits for one from within its loop.
ListenersStay == \A c \in Conns : stage[c] # "none" => Listening(c[2]) \/ pc[c[2]] = "dead"
LinkersWait == \A n \in Servers : pc[n] = "wait" /\ cur[n] # None => n \in AutoLinks
WaitInv == ListenersStay /\ LinkersWait

\* What a step does to server k: nothing, or it goes on without waiting, or starts by
\* waiting, or waits for a server it heard of.
Moves(k) ==
  \/ pc'[k] = pc[k] /\ cur'[k] = cur[k]
  \/ pc'[k] \notin {"down", "wait"}
  \/ pc[k] = "down" /\ pc'[k] = "wait" /\ cur'[k] = None
  \/ pc'[k] = "wait" /\ cur'[k] # None /\ k \in AutoLinks
LinksListen == \A c \in Conns : stage'[c] # "none" => stage[c] # "none" \/ Listening(c[2])

LEMMA MovesKeep ==
  ASSUME WaitInv, LinksListen, \A k \in Servers : Moves(k)
  PROVE  WaitInv'
<1>1. ListenersStay'
  <2> SUFFICES ASSUME NEW c \in Conns, stage'[c] # "none"
               PROVE  \/ pc'[c[2]] \notin {"down", "dead"} /\ ~(pc'[c[2]] = "wait" /\ cur'[c[2]] = None)
                      \/ pc'[c[2]] = "dead"
    BY DEF ListenersStay, Listening
  <2>1. c[2] \in Servers
    BY ConnEnds
  <2>2. pc[c[2]] # "down" /\ ~(pc[c[2]] = "wait" /\ cur[c[2]] = None)
    BY DEF WaitInv, ListenersStay, LinksListen, Listening
  <2> QED
    BY <2>1, <2>2 DEF Moves
<1>2. LinkersWait'
  BY DEF WaitInv, LinkersWait, Moves
<1> QED
  BY <1>1, <1>2 DEF WaitInv

LEMMA GoOnMoves ==
  ASSUME TypeInv, NEW n \in Servers, NEW label, NEW rest, NEW m, GoOn(n, label, rest, m),
         label # "down", label = "wait" => m # None /\ n \in AutoLinks
  PROVE  \A k \in Servers : Moves(k)
  BY DEF GoOn, Moves, TypeInv, TypeOK

\* Sending on is going on, or death.
LEMMA SendOnMoves ==
  ASSUME TypeInv, NEW n \in Servers, NEW ch, NEW m, NEW label, NEW rest, NEW keep,
         SendOn(n, ch, m, label, rest, keep), label \notin {"down", "wait"}
  PROVE  \A k \in Servers : Moves(k)
<1>1. GoOn(n, label, rest, keep) \/ GoOn(n, "dead", {}, None)
  BY DEF SendOn, Die
<1> QED
  BY <1>1, GoOnMoves

LEMMA ServerMoves ==
  ASSUME TypeInv, HandlesInv, NEW n \in Servers, ServerStep(n)
  PROVE  LinksListen /\ \A k \in Servers : Moves(k)
<1>1. CASE Start(n)
  <2>1. cur[n] = None /\ pc[n] = "down" /\ cur' = cur
    BY <1>1 DEF Start, HandlesInv, NotBefore
  <2>2. \/ pc' = [pc EXCEPT ![n] = "top"] /\ stage' = stage
        \/ pc' = [pc EXCEPT ![n] = "dead"] /\ stage' = stage
        \/ /\ pc' = [pc EXCEPT ![n] = "wait"] /\ Listening(Primary[n])
           /\ stage' = [stage EXCEPT ![<<n, Primary[n]>>] = "backlog"]
    BY <1>1 DEF Start
  <2>3. \A k \in Servers : Moves(k)
    BY <2>1, <2>2 DEF Moves, TypeInv, TypeOK
  <2>4. LinksListen
    BY <2>2 DEF LinksListen, TypeInv, TypeOK
  <2> QED
    BY <2>3, <2>4
<1>2. CASE Top(n)
  <2>1. /\ stage' = stage
        /\ \/ \E m : SendOn(n, chan, m, "mq", Ready(n), None)
           \/ GoOn(n, "mq", Ready(n), None)
    BY <1>2 DEF Top
  <2> QED
    BY <2>1, SendOnMoves, GoOnMoves DEF LinksListen
<1>3. CASE DrainMQ(n)
  <2>1. /\ stage' = stage
        /\ \/ \E m : SendOn(n, chan, m, "mq", todo[n], None)
           \/ GoOn(n, AfterSock(todo[n]), todo[n], None)
           \/ UNCHANGED <<pc, cur>>
    BY <1>3 DEF DrainMQ, AfterMQ
  <2>2. AfterSock(todo[n]) \notin {"down", "wait"}
    BY DEF AfterSock
  <2>3. UNCHANGED <<pc, cur>> => \A k \in Servers : Moves(k)
    BY DEF Moves
  <2> QED
    BY <2>1, <2>2, <2>3, SendOnMoves, GoOnMoves DEF LinksListen
<1>4. CASE Accept(n)
  <2>1. PICK c \in Conns : stage[c] = "backlog" /\ stage' = [stage EXCEPT ![c] = "challenged"]
    BY <1>4 DEF Accept
  <2>2. GoOn(n, "auth", todo[n] \ {Listen}, None)
    BY <1>4 DEF Accept
  <2>3. LinksListen
    BY <2>1 DEF LinksListen, TypeInv, TypeOK
  <2> QED
    BY <2>2, <2>3, GoOnMoves
<1>5. CASE Receive(n)
  <2>1. PICK c \in todo[n] \cap authOK[n] :
          /\ chan[c][n] # <<>>
          /\ \/ ReceiveAgain(n, c, todo[n] \ {c}) \/ ReceiveLink(n, c, todo[n] \ {c})
             \/ ReceivePing(n, c, todo[n] \ {c}) \/ ReceiveUnknown(n, c, todo[n] \ {c})
             \/ ReceiveOther(n, c, todo[n] \ {c})
    BY <1>5 DEF Receive
  <2> DEFINE m == Arrived(n, c)
             rest == todo[n] \ {c}
  <2>2. CASE ReceiveLink(n, c, rest)
    <3>1. n \in AutoLinks
      BY <2>2 DEF ReceiveLink, WantsLink
    <3>2. m # None
      <4>1. c \in Conns /\ n \in Ends /\ chan[c][n] \in Seq(Messages)
        BY DEF TypeInv, TypeOK, Ends
      <4>2. m \in Messages
        BY <2>1, <4>1 DEF Arrived
      <4> QED
        BY <4>2, NoneAssumption
    <3>3. \/ /\ GoOn(n, "wait", rest, m) /\ Listening(m.src)
             /\ stage' = [stage EXCEPT ![<<n, m.src>>] = "backlog"]
          \/ GoOn(n, "dead", {}, None) /\ stage' = stage
      BY <2>2 DEF ReceiveLink, Die
    <3> HIDE DEF m, rest
    <3>4. LinksListen
      BY <3>3 DEF LinksListen, TypeInv, TypeOK
    <3> QED
      BY <3>1, <3>2, <3>3, <3>4, GoOnMoves
  <2>3. CASE ~ReceiveLink(n, c, rest)
    <3>1. /\ stage' = stage
          /\ \/ GoOn(n, AfterSock(rest), rest, None)
             \/ GoOn(n, "flood", rest, m)
             \/ GoOn(n, "dead", {}, None)
             \/ \E ch, r : SendOn(n, ch, r, "flood", rest, m)
      BY <2>1, <2>3
         DEF ReceiveAgain, ReceivePing, ReceiveUnknown, ReceiveOther, Die
    <3>2. AfterSock(rest) \notin {"down", "wait"}
      BY DEF AfterSock
    <3> HIDE DEF m, rest
    <3> QED
      BY <3>1, <3>2, SendOnMoves, GoOnMoves DEF LinksListen
  <2> QED
    BY <2>2, <2>3
<1>6. CASE Flood(n)
  <2>1. /\ stage' = stage
        /\ \/ \E m : SendOn(n, chan, m, AfterSock(todo[n]), todo[n], None)
           \/ GoOn(n, AfterSock(todo[n]), todo[n], None)
    BY <1>6 DEF Flood
  <2>2. AfterSock(todo[n]) \notin {"down", "wait"}
    BY DEF AfterSock
  <2> QED
    BY <2>1, <2>2, SendOnMoves, GoOnMoves DEF LinksListen
<1>7. CASE Close(n)
  <2>1. PICK c : GoOn(n, AfterSock(todo[n] \ {c}), todo[n] \ {c}, None)
    BY <1>7 DEF Close
  <2>2. AfterSock(todo[n] \ {c}) \notin {"down", "wait"} /\ stage' = stage
    BY <1>7 DEF AfterSock, Close
  <2> QED
    BY <2>1, <2>2, GoOnMoves DEF LinksListen
<1> QED
  BY <1>1, <1>2, <1>3, <1>4, <1>5, <1>6, <1>7 DEF ServerStep, LoopStep

LEMMA HandshakeMoves ==
  ASSUME TypeInv, NEW c \in Conns, Handshake(c)
  PROVE  LinksListen /\ \A k \in Servers : Moves(k)
<1>1. c[2] \in Servers
  BY ConnEnds
<1>2. LinksListen
  BY DEF Handshake, LogIn, LogInFails, Orphaned, LinksListen, TypeInv, TypeOK
<1>3. CASE LogIn(c)
  <2>1. cur' = cur /\ \A k \in Servers : pc'[k] \in {pc[k], "top", "sock", "flood"}
    BY <1>3 DEF LogIn, AfterSock
  <2>2. \A k \in Servers : Moves(k)
    BY <2>1 DEF Moves
  <2> QED
    BY <1>2, <2>2
<1>4. CASE LogInFails(c)
  <2>1. \/ GoOn(c[2], AfterSock(todo[c[2]]), todo[c[2]], None)
        \/ GoOn(c[2], "dead", {}, None)
    BY <1>4 DEF LogInFails, Die
  <2>2. AfterSock(todo[c[2]]) \notin {"down", "wait"}
    BY DEF AfterSock
  <2> QED
    BY <1>1, <1>2, <2>1, <2>2, GoOnMoves
<1>5. CASE Orphaned(c)
  <2>1. \/ c[1] \in Servers /\ GoOn(c[1], "dead", {}, None)
        \/ UNCHANGED <<pc, cur>>
    BY <1>5 DEF Orphaned, Die
  <2>2. UNCHANGED <<pc, cur>> => \A k \in Servers : Moves(k)
    BY DEF Moves
  <2> QED
    BY <1>2, <2>1, <2>2, GoOnMoves
<1> QED
  BY <1>2, <1>3, <1>4, <1>5 DEF Handshake

LEMMA WaitStep == TypeInv /\ HandlesInv /\ WaitInv /\ [Next]_vars => WaitInv'
<1> SUFFICES ASSUME TypeInv, HandlesInv, WaitInv, [Next]_vars PROVE WaitInv'
  OBVIOUS
<1>1. ASSUME UNCHANGED <<pc, cur>>,
             stage' = stage
               \/ \E c \in Conns : Listening(c[2]) /\ stage' = [stage EXCEPT ![c] = "backlog"]
      PROVE  WaitInv'
  <2>1. LinksListen
    BY <1>1 DEF LinksListen, TypeInv, TypeOK
  <2>2. \A k \in Servers : Moves(k)
    BY <1>1 DEF Moves
  <2> QED
    BY <2>1, <2>2, MovesKeep
<1>2. CASE UNCHANGED vars
  BY <1>1, <1>2 DEF vars, srvVars, netVars
<1>3. ASSUME NEW n \in Servers, ServerStep(n) PROVE WaitInv'
  BY <1>3, ServerMoves, MovesKeep
<1>4. ASSUME NEW n \in Servers, TcsStep(n) PROVE WaitInv'
  BY <1>1, <1>4 DEF TcsStep, TcsReceive, TcsSend, srvVars, netVars
<1>5. ASSUME NEW c \in Conns, Handshake(c) PROVE WaitInv'
  BY <1>5, HandshakeMoves, MovesKeep
<1>6. ASSUME NEW x \in Clients, ClientStep(x) PROVE WaitInv'
  <2>1. CASE Connect(x)
    <3>1. <<x, Home[x]>> \in Conns /\ <<x, Home[x]>>[2] = Home[x]
      BY LinkType
    <3>2. /\ UNCHANGED <<pc, cur>> /\ Listening(Home[x])
          /\ stage' = [stage EXCEPT ![<<x, Home[x]>>] = "backlog"]
      BY <2>1 DEF Connect, srvVars
    <3> QED
      BY <1>1, <3>1, <3>2
  <2>2. CASE ClientCall(x) \/ ClientReceive(x) \/ ClientQuit(x)
    BY <1>1, <2>2 DEF ClientCall, ClientReceive, ClientQuit, srvVars
  <2> QED
    BY <1>6, <2>1, <2>2 DEF ClientStep
<1> QED
  BY <1>2, <1>3, <1>4, <1>5, <1>6 DEF Next

\* In every network in which one server at most has MESS_AUTO_LINKS, as in the
\* configurations of the repository, no servers wait for each other in a circle: who
\* is waited for listened before, so it waits, if it does, for a server it heard of
\* (newClient() in floodRoute()).
THEOREM NobodyWaitsInACircle ==
  ASSUME \A n, p \in AutoLinks : n = p
  PROVE  Spec => []NoWaitCycle
<1>1. Init => WaitInv
  BY DEF Init, WaitInv, ListenersStay, LinkersWait
<1>2. WaitInv => NoWaitCycle
  <2> SUFFICES ASSUME WaitInv, NEW S \in SUBSET Servers, S # {},
                      \A n \in S : \E p \in S : WaitsFor(n, p)
               PROVE  FALSE
    BY DEF NoWaitCycle
  <2>1. ASSUME NEW n \in S, NEW p \in S, WaitsFor(n, p) PROVE p \in AutoLinks
    <3>1. pc[p] = "wait"
      BY DEF WaitsFor
    <3>2. <<n, p>> \in Conns /\ <<n, p>>[2] = p /\ stage[<<n, p>>] # "none"
      BY <2>1 DEF WaitsFor
    <3>3. cur[p] # None
      BY <3>1, <3>2 DEF WaitInv, ListenersStay, Listening
    <3> QED
      BY <3>1, <3>3 DEF WaitInv, LinkersWait
  <2>2. PICK n \in S, p \in S, q \in S : WaitsFor(n, p) /\ WaitsFor(p, q)
    OBVIOUS
  <2>3. p = q
    BY <2>1, <2>2
  <2>4. <<p, q>> \in Conns /\ <<p, q>>[1] = p /\ <<p, q>>[2] = q
    BY <2>2 DEF WaitsFor
  <2> QED
    BY <2>3, <2>4 DEF Conns
<1>3. Init => HandlesInv
  BY ConnEnds DEF Init, HandlesInv, HandlesAreOpen, OneConnect, OneChallenge, NotBefore,
     NotAfter, AcceptedFirst, UnderWay
<1>4. Spec => []HandlesInv
  BY <1>3, HandlesStep, TypeInvariant, PTL DEF Spec
<1> QED
  BY <1>1, <1>2, <1>4, WaitStep, TypeInvariant, PTL DEF Spec
-----------------------------------------------------------------------------
(* Queues *)

\* The connections that n may read: those it accepts and the one to its primary.
Served(n) == {c \in Conns : c[2] = n \/ (c[1] = n /\ c[2] = Primary[n])}

\* No server can have more connections to read than a queue has room for.
FewConnections == \A n \in Servers : IsFiniteSet(Served(n)) /\ Cardinality(Served(n)) <= MQMax

\* n is between draining the queue and the next time it does.
Serving(n) == pc[n] \in {"sock", "auth", "flood"} \/ (pc[n] = "wait" /\ cur[n] # None)

\* What is on its way between n and its tc-server, and what n may yet put on it: a
\* message it holds, and one for each socket it has yet to serve.
OnItsWay(n) == Len(mqIn[n]) + Len(mqOut[n]) + Len(tcs[n])
Holding(n) == IF pc[n] \in {"flood", "wait"} THEN 1 ELSE 0
Unserved(n) == todo[n] \ {Listen}
Burden(n) == OnItsWay(n) + Cardinality(Unserved(n)) + Holding(n)

QueueOK(n) ==
  /\ readSet[n] \subseteq Served(n)
  /\ Len(mqIn[n]) <= MQMax /\ Len(tcs[n]) <= 1
  /\ pc[n] = "down" => mqIn[n] = <<>> /\ mqOut[n] = <<>> /\ tcs[n] = <<>>
  /\ Serving(n) => Burden(n) <= 2 * MQMax + 1
QueueInv == \A n \in Servers : QueueOK(n)

LEMMA SumNat ==
  ASSUME NEW i \in Nat, NEW j \in Nat, NEW k \in Nat
  PROVE  i + j + k \in Nat
  OBVIOUS

LEMMA QueueTypes ==
  ASSUME TypeInv, NEW n \in Servers
  PROVE  /\ mqIn[n] \in Seq(Messages) /\ mqOut[n] \in Seq(Messages) /\ tcs[n] \in Seq(Messages)
         /\ Len(mqIn[n]) \in Nat /\ Len(mqOut[n]) \in Nat /\ Len(tcs[n]) \in Nat
         /\ MQMax \in Nat /\ MQMax >= 1
<1>1. mqIn[n] \in Seq(Messages) /\ mqOut[n] \in Seq(Messages) /\ tcs[n] \in Seq(Messages)
  BY DEF TypeInv, TypeOK
<1> QED
  BY <1>1, ConfigAssumption

\* What n has yet to serve it reads, so there is not more of it than room in a queue.
LEMMA UnservedFew ==
  ASSUME FewConnections, TypeInv, HandlesInv, NEW n \in Servers, QueueOK(n)
  PROVE  /\ IsFiniteSet(Unserved(n)) /\ Cardinality(Unserved(n)) \in Nat
         /\ Cardinality(Unserved(n)) <= MQMax
<1>1. Unserved(n) \subseteq Served(n)
  BY DEF Unserved, QueueOK, HandlesInv, HandlesAreOpen
<1>2. IsFiniteSet(Served(n)) /\ Cardinality(Served(n)) <= MQMax
  BY DEF FewConnections
<1>3. /\ IsFiniteSet(Unserved(n)) /\ Cardinality(Unserved(n)) <= Cardinality(Served(n))
  BY <1>1, <1>2, FS_Subset
<1> QED
  BY <1>2, <1>3, FS_CardinalityType, ConfigAssumption

\* One socket less to serve.
LEMMA OneServed ==
  ASSUME FewConnections, TypeInv, HandlesInv, NEW n \in Servers, QueueOK(n),
         NEW c \in todo[n], todo'[n] = todo[n] \ {c}
  PROVE  /\ Cardinality(Unserved(n)') \in Nat
         /\ c = Listen => Unserved(n)' = Unserved(n)
         /\ c # Listen => Cardinality(Unserved(n)') = Cardinality(Unserved(n)) - 1
<1>1. Unserved(n)' = todo'[n] \ {Listen}
  BY DEF Unserved
<1>2. c = Listen => Unserved(n)' = Unserved(n)
  BY <1>1 DEF Unserved
<1>3. c # Listen => Unserved(n)' = Unserved(n) \ {c} /\ c \in Unserved(n)
  BY <1>1 DEF Unserved
<1>4. IsFiniteSet(Unserved(n)) /\ Cardinality(Unserved(n)) \in Nat
  BY UnservedFew
<1>5. c # Listen => /\ IsFiniteSet(Unserved(n)')
                    /\ Cardinality(Unserved(n)') = Cardinality(Unserved(n)) - 1
  BY <1>3, <1>4, FS_RemoveElement
<1>6. Cardinality(Unserved(n)') \in Nat
  BY <1>2, <1>4, <1>5, FS_CardinalityType
<1> QED
  BY <1>2, <1>5, <1>6

\* A server to which nothing happens.
Untouched(k) ==
  /\ mqIn'[k] = mqIn[k] /\ mqOut'[k] = mqOut[k] /\ tcs'[k] = tcs[k]
  /\ todo'[k] = todo[k] /\ readSet'[k] = readSet[k] /\ pc'[k] = pc[k] /\ cur'[k] = cur[k]

LEMMA UntouchedQueue ==
  ASSUME NEW k \in Servers, QueueOK(k), Untouched(k)
  PROVE  QueueOK(k)'
  BY DEF Untouched, QueueOK, Serving, Burden, OnItsWay, Holding, Unserved

\* One that goes where it serves no sockets.
LEMMA IdleQueue ==
  ASSUME NEW n \in Servers, QueueOK(n), pc[n] # "down", readSet'[n] \subseteq Served(n),
         mqIn'[n] = mqIn[n], tcs'[n] = tcs[n], pc'[n] \in {"top", "mq", "dead"}
  PROVE  QueueOK(n)'
  BY DEF QueueOK, Serving

\* One that has no more to do for its tc-server than before.
LEMMA LighterQueue ==
  ASSUME NEW n \in Servers, QueueOK(n), pc'[n] # "down", readSet'[n] \subseteq Served(n),
         Len(mqIn'[n]) <= MQMax, Len(tcs'[n]) <= 1,
         TypeInv, TypeInv', Cardinality(Unserved(n)) \in Nat, Cardinality(Unserved(n)') \in Nat,
         Serving(n)' => Serving(n) /\ Burden(n)' <= Burden(n)
  PROVE  QueueOK(n)'
<1>1. /\ Len(mqIn[n]) \in Nat /\ Len(mqOut[n]) \in Nat /\ Len(tcs[n]) \in Nat /\ MQMax \in Nat
      /\ Len(mqIn'[n]) \in Nat /\ Len(mqOut'[n]) \in Nat /\ Len(tcs'[n]) \in Nat
  <2>1. mqIn'[n] \in Seq(Messages) /\ mqOut'[n] \in Seq(Messages) /\ tcs'[n] \in Seq(Messages)
    BY DEF TypeInv, TypeOK
  <2> QED
    BY <2>1, QueueTypes
<1>2. Burden(n) \in Nat
  <2>1. Holding(n) \in Nat
    BY DEF Holding
  <2>2. OnItsWay(n) \in Nat
    BY <1>1, SumNat, Zenon DEF OnItsWay
  <2> QED
    BY <2>1, <2>2, SumNat, Zenon DEF Burden
<1>3. Burden(n)' \in Nat
  <2>1. Holding(n)' \in Nat
    BY DEF Holding
  <2>2. OnItsWay(n)' \in Nat
    BY <1>1, SumNat, Zenon DEF OnItsWay
  <2> QED
    BY <2>1, <2>2, SumNat, Zenon DEF Burden
<1> QED
  BY <1>1, <1>2, <1>3 DEF QueueOK

LEMMA WayNat ==
  ASSUME TypeInv, TypeInv', NEW n \in Servers
  PROVE  /\ OnItsWay(n) \in Nat /\ OnItsWay(n)' \in Nat
         /\ Holding(n) \in {0, 1} /\ Holding(n)' \in {0, 1}
<1>1. Len(mqIn[n]) \in Nat /\ Len(mqOut[n]) \in Nat /\ Len(tcs[n]) \in Nat
  BY QueueTypes
<1>2. Len(mqIn'[n]) \in Nat /\ Len(mqOut'[n]) \in Nat /\ Len(tcs'[n]) \in Nat
  <2>1. mqIn'[n] \in Seq(Messages) /\ mqOut'[n] \in Seq(Messages) /\ tcs'[n] \in Seq(Messages)
    BY DEF TypeInv, TypeOK
  <2> QED
    BY <2>1
<1>3. OnItsWay(n) \in Nat
  BY <1>1, SumNat, Zenon DEF OnItsWay
<1>4. OnItsWay(n)' \in Nat
  BY <1>2, SumNat, Zenon DEF OnItsWay
<1>5. Holding(n) \in {0, 1} /\ Holding(n)' \in {0, 1}
  BY DEF Holding
<1> QED
  BY <1>3, <1>4, <1>5

\* A server that served a socket, and holds a message of it at most.
LEMMA ServedQueue ==
  ASSUME FewConnections, TypeInv, TypeInv', HandlesInv, NEW n \in Servers, QueueOK(n),
         pc[n] = "sock", pc'[n] # "down", readSet'[n] \subseteq Served(n),
         UNCHANGED mqVars, NEW c \in todo[n],
         pc'[n] = "dead" \/ todo'[n] = todo[n] \ {c},
         c # Listen \/ pc'[n] = "auth"
  PROVE  QueueOK(n)'
<1>1. CASE pc'[n] = "dead"
  BY <1>1, IdleQueue DEF mqVars
<1>2. CASE pc'[n] # "dead"
  <2>1. /\ Cardinality(Unserved(n)') \in Nat
        /\ c = Listen => Unserved(n)' = Unserved(n)
        /\ c # Listen => Cardinality(Unserved(n)') = Cardinality(Unserved(n)) - 1
    BY <1>2, OneServed
  <2>2. OnItsWay(n)' = OnItsWay(n)
    BY DEF OnItsWay, mqVars
  <2>3. Holding(n) = 0 /\ (pc'[n] = "auth" => Holding(n)' = 0)
    BY DEF Holding
  <2>4. Serving(n) /\ Cardinality(Unserved(n)) \in Nat
    BY UnservedFew DEF Serving
  <2>5. OnItsWay(n) \in Nat /\ Holding(n)' \in {0, 1}
    BY WayNat
  <2>6. Burden(n)' <= Burden(n)
    <3>1. CASE c # Listen
      <4>1. Burden(n)' = OnItsWay(n) + (Cardinality(Unserved(n)) - 1) + Holding(n)'
        BY <2>1, <2>2, <3>1 DEF Burden
      <4>2. Burden(n) = OnItsWay(n) + Cardinality(Unserved(n)) + 0
        BY <2>3 DEF Burden
      <4> QED
        BY <2>4, <2>5, <4>1, <4>2
    <3>2. CASE c = Listen
      <4>1. Burden(n)' = Burden(n)
        BY <2>1, <2>2, <2>3, <3>2 DEF Burden
      <4>2. Burden(n) \in Nat
        BY <2>3, <2>4, <2>5 DEF Burden
      <4> QED
        BY <4>1, <4>2
    <3> QED
      BY <3>1, <3>2
  <2>7. Len(mqIn'[n]) <= MQMax /\ Len(tcs'[n]) <= 1
    BY DEF QueueOK, mqVars
  <2> QED
    BY <2>1, <2>4, <2>6, <2>7, LighterQueue
<1> QED
  BY <1>1, <1>2

\* A step of one server changes what is on its way there and nowhere else.
LEMMA OneTouched ==
  ASSUME QueueInv, NEW n \in Servers, QueueOK(n)', \A k \in Servers : k # n => Untouched(k)
  PROVE  QueueInv'
<1> SUFFICES ASSUME NEW k \in Servers PROVE QueueOK(k)'
  BY DEF QueueInv
<1>1. CASE k = n
  BY <1>1
<1>2. CASE k # n
  BY <1>2, UntouchedQueue DEF QueueInv
<1> QED
  BY <1>1, <1>2

LEMMA GoOnTouches ==
  ASSUME TypeInv, NEW n \in Servers, NEW label, NEW rest, NEW m, GoOn(n, label, rest, m)
  PROVE  /\ pc'[n] = label /\ todo'[n] = rest /\ cur'[n] = m
         /\ \A k \in Servers : k # n => pc'[k] = pc[k] /\ todo'[k] = todo[k] /\ cur'[k] = cur[k]
  BY DEF GoOn, TypeInv, TypeOK

LEMMA SendOnTouches ==
  ASSUME TypeInv, NEW n \in Servers, NEW ch, NEW m, NEW label, NEW rest, NEW keep,
         SendOn(n, ch, m, label, rest, keep)
  PROVE  /\ pc'[n] = "dead" \/ (pc'[n] = label /\ todo'[n] = rest /\ cur'[n] = keep)
         /\ \A k \in Servers : k # n => pc'[k] = pc[k] /\ todo'[k] = todo[k] /\ cur'[k] = cur[k]
<1>1. GoOn(n, label, rest, keep) \/ GoOn(n, "dead", {}, None)
  BY DEF SendOn, Die
<1> QED
  BY <1>1, GoOnTouches

LEMMA StartQueue ==
  ASSUME TypeInv, HandlesInv, QueueInv, NEW n \in Servers, Start(n)
  PROVE  QueueInv'
<1> DEFINE reg == NewMsg(Fresh(n), "CALL", Self, n, TcId[n], n, "mqRegister")
<1>1. /\ pc[n] = "down" /\ mqIn' = [mqIn EXCEPT ![n] = Append(@, reg)]
      /\ \E s \in {"top", "wait", "dead"} : pc' = [pc EXCEPT ![n] = s]
      /\ UNCHANGED <<cur, todo, readSet, mqOut, tcs>>
  BY DEF Start
<1>2. cur[n] = None
  BY <1>1 DEF HandlesInv, NotBefore
<1>3. mqIn[n] = <<>> /\ QueueOK(n)
  BY <1>1 DEF QueueInv, QueueOK
<1> HIDE DEF reg
<1>4. mqIn'[n] = Append(<<>>, reg) /\ \A k \in Servers : k # n => mqIn'[k] = mqIn[k]
  BY <1>1, <1>3 DEF TypeInv, TypeOK
<1>5. Len(mqIn'[n]) = 1 /\ MQMax >= 1 /\ MQMax \in Nat
  BY <1>4, ConfigAssumption
<1>6. pc'[n] \in {"top", "wait", "dead"} /\ \A k \in Servers : k # n => pc'[k] = pc[k]
  BY <1>1 DEF TypeInv, TypeOK
<1>7. QueueOK(n)'
  BY <1>1, <1>2, <1>3, <1>5, <1>6 DEF QueueOK, Serving
<1>8. \A k \in Servers : k # n => Untouched(k)
  BY <1>1, <1>4, <1>6 DEF Untouched
<1> QED
  BY <1>7, <1>8, OneTouched

LEMMA TopQueue ==
  ASSUME TypeInv, QueueInv, NEW n \in Servers, Top(n)
  PROVE  QueueInv'
<1>1. /\ pc[n] = "top" /\ UNCHANGED <<readSet, mqVars>>
      /\ \/ \E m : SendOn(n, chan, m, "mq", Ready(n), None)
         \/ GoOn(n, "mq", Ready(n), None)
  BY DEF Top
<1>2. /\ pc'[n] \in {"mq", "dead"}
      /\ \A k \in Servers : k # n => pc'[k] = pc[k] /\ todo'[k] = todo[k] /\ cur'[k] = cur[k]
  BY <1>1, SendOnTouches, GoOnTouches
<1>3. QueueOK(n) /\ readSet'[n] \subseteq Served(n)
  BY <1>1 DEF QueueInv, QueueOK
<1>4. QueueOK(n)'
  BY <1>1, <1>2, <1>3, IdleQueue DEF mqVars
<1>5. \A k \in Servers : k # n => Untouched(k)
  BY <1>1, <1>2 DEF Untouched, mqVars
<1> QED
  BY <1>4, <1>5, OneTouched

\* The loop leaves the queue empty and its sockets to be served.
LEMMA DrainMQQueue ==
  ASSUME FewConnections, TypeInv, TypeInv', HandlesInv, QueueInv, NEW n \in Servers, DrainMQ(n)
  PROVE  QueueInv'
<1>1. /\ pc[n] = "mq" /\ UNCHANGED <<readSet, mqIn, tcs>>
      /\ \/ /\ mqOut[n] = <<>> /\ mqOut' = mqOut
            /\ GoOn(n, AfterSock(todo[n]), todo[n], None)
         \/ /\ mqOut' = [mqOut EXCEPT ![n] = Tail(@)]
            /\ \/ \E m : SendOn(n, chan, m, "mq", todo[n], None)
               \/ UNCHANGED <<pc, cur, todo>>
  BY DEF DrainMQ, AfterMQ
<1>2. /\ pc'[n] \in {"mq", "dead"} \/ (pc'[n] \in {"top", "sock"} /\ todo'[n] = todo[n] /\ mqOut'[n] = <<>>)
      /\ \A k \in Servers : k # n => pc'[k] = pc[k] /\ todo'[k] = todo[k] /\ cur'[k] = cur[k]
  BY <1>1, SendOnTouches, GoOnTouches DEF AfterSock
<1>3. QueueOK(n) /\ readSet'[n] \subseteq Served(n)
  BY <1>1 DEF QueueInv, QueueOK
<1>4. \A k \in Servers : k # n => mqOut'[k] = mqOut[k]
  BY <1>1 DEF TypeInv, TypeOK
<1>5. QueueOK(n)'
  <2>1. CASE pc'[n] \in {"mq", "dead", "top"}
    BY <1>1, <1>3, <2>1, IdleQueue
  <2>2. CASE pc'[n] = "sock" /\ todo'[n] = todo[n] /\ mqOut'[n] = <<>>
    <3>1. Cardinality(Unserved(n)) \in Nat /\ Cardinality(Unserved(n)) <= MQMax
      BY <1>3, UnservedFew
    <3>2. Unserved(n)' = Unserved(n) /\ Holding(n)' = 0
      BY <2>2 DEF Unserved, Holding
    <3>3. /\ Len(mqIn'[n]) <= MQMax /\ Len(tcs'[n]) <= 1 /\ Len(mqOut'[n]) = 0
          /\ Len(mqIn'[n]) \in Nat /\ Len(tcs'[n]) \in Nat /\ MQMax \in Nat
      BY <1>1, <1>3, <2>2, QueueTypes DEF QueueOK
    <3>4. OnItsWay(n)' = Len(mqIn'[n]) + Len(mqOut'[n]) + Len(tcs'[n])
      BY DEF OnItsWay
    <3> DEFINE i == Len(mqIn'[n])
               j == Len(mqOut'[n])
               k == Len(tcs'[n])
    <3>5. i <= MQMax /\ k <= 1 /\ j = 0 /\ i \in Nat /\ k \in Nat /\ MQMax \in Nat
          /\ OnItsWay(n)' = i + j + k
      BY <3>3, <3>4
    <3> HIDE DEF i, j, k
    <3>6. OnItsWay(n)' <= MQMax + 1 /\ OnItsWay(n)' \in Nat
      BY <3>5
    <3>7. Burden(n)' <= 2 * MQMax + 1
      BY <3>1, <3>2, <3>5, <3>6 DEF Burden
    <3> QED
      BY <1>1, <1>3, <2>2, <3>7 DEF QueueOK
  <2> QED
    BY <1>2, <2>1, <2>2
<1>6. \A k \in Servers : k # n => Untouched(k)
  BY <1>1, <1>2, <1>4 DEF Untouched
<1> QED
  BY <1>5, <1>6, OneTouched

LEMMA AcceptQueue ==
  ASSUME FewConnections, TypeInv, TypeInv', HandlesInv, QueueInv, NEW n \in Servers, Accept(n)
  PROVE  QueueInv'
<1>1. PICK c \in Conns : c[2] = n /\ readSet' = [readSet EXCEPT ![n] = @ \cup {c}]
  BY DEF Accept
<1>2. /\ pc[n] = "sock" /\ Listen \in todo[n] /\ GoOn(n, "auth", todo[n] \ {Listen}, None)
      /\ UNCHANGED mqVars
  BY DEF Accept
<1>3. /\ pc'[n] = "auth" /\ todo'[n] = todo[n] \ {Listen}
      /\ \A k \in Servers : k # n => pc'[k] = pc[k] /\ todo'[k] = todo[k] /\ cur'[k] = cur[k]
  BY <1>2, GoOnTouches
<1>4. QueueOK(n) /\ readSet'[n] \subseteq Served(n)
  BY <1>1 DEF QueueInv, QueueOK, Served, TypeInv, TypeOK
<1>5. QueueOK(n)'
  BY <1>2, <1>3, <1>4, ServedQueue
<1>6. \A k \in Servers : k # n => Untouched(k)
  BY <1>1, <1>2, <1>3 DEF Untouched, mqVars, TypeInv, TypeOK
<1> QED
  BY <1>5, <1>6, OneTouched

LEMMA ReceiveQueue ==
  ASSUME FewConnections, TypeInv, TypeInv', HandlesInv, QueueInv, NEW n \in Servers, Receive(n)
  PROVE  QueueInv'
<1>1. PICK c \in todo[n] \cap authOK[n] :
        \/ ReceiveAgain(n, c, todo[n] \ {c}) \/ ReceiveLink(n, c, todo[n] \ {c})
        \/ ReceivePing(n, c, todo[n] \ {c}) \/ ReceiveUnknown(n, c, todo[n] \ {c})
        \/ ReceiveOther(n, c, todo[n] \ {c})
  BY DEF Receive
<1> DEFINE m == Arrived(n, c)
           rest == todo[n] \ {c}
<1>2. pc[n] = "sock" /\ UNCHANGED <<readSet, mqVars>>
  BY DEF Receive
<1>3. \/ \E label \in {AfterSock(rest), "wait", "flood"} : \E x : GoOn(n, label, rest, x)
      \/ GoOn(n, "dead", {}, None)
      \/ \E ch, r : SendOn(n, ch, r, "flood", rest, m)
  BY <1>1 DEF ReceiveAgain, ReceiveLink, ReceivePing, ReceiveUnknown, ReceiveOther, Die
<1> HIDE DEF m
<1>4. /\ pc'[n] # "down" /\ (pc'[n] = "dead" \/ todo'[n] = rest)
      /\ \A k \in Servers : k # n => pc'[k] = pc[k] /\ todo'[k] = todo[k] /\ cur'[k] = cur[k]
  BY <1>3, GoOnTouches, SendOnTouches DEF AfterSock
<1>5. c \in todo[n] /\ c # Listen
  BY ConfigAssumption DEF TypeInv, TypeOK
<1>6. QueueOK(n) /\ readSet'[n] \subseteq Served(n)
  BY <1>2 DEF QueueInv, QueueOK
<1>7. QueueOK(n)'
  BY <1>2, <1>4, <1>5, <1>6, ServedQueue
<1>8. \A k \in Servers : k # n => Untouched(k)
  BY <1>2, <1>4 DEF Untouched, mqVars
<1> QED
  BY <1>7, <1>8, OneTouched

LEMMA CloseQueue ==
  ASSUME FewConnections, TypeInv, TypeInv', HandlesInv, QueueInv, NEW n \in Servers, Close(n)
  PROVE  QueueInv'
<1>1. PICK c \in todo[n] \ {Listen} :
        /\ readSet' = [readSet EXCEPT ![n] = @ \ {c}]
        /\ GoOn(n, AfterSock(todo[n] \ {c}), todo[n] \ {c}, None)
  BY DEF Close, Deselect
<1>2. pc[n] = "sock" /\ UNCHANGED mqVars
  BY DEF Close
<1>3. /\ pc'[n] \in {"top", "sock"} /\ todo'[n] = todo[n] \ {c}
      /\ \A k \in Servers : k # n => pc'[k] = pc[k] /\ todo'[k] = todo[k] /\ cur'[k] = cur[k]
  BY <1>1, GoOnTouches DEF AfterSock
<1>4. QueueOK(n) /\ readSet'[n] \subseteq Served(n)
  BY <1>1 DEF QueueInv, QueueOK, TypeInv, TypeOK
<1>5. QueueOK(n)'
  BY <1>1, <1>2, <1>3, <1>4, ServedQueue
<1>6. \A k \in Servers : k # n => Untouched(k)
  BY <1>1, <1>2, <1>3 DEF Untouched, mqVars, TypeInv, TypeOK
<1> QED
  BY <1>5, <1>6, OneTouched

\* What a server queues for its tc-server it held.
LEMMA FloodQueue ==
  ASSUME FewConnections, TypeInv, TypeInv', HandlesInv, QueueInv, NEW n \in Servers, Flood(n)
  PROVE  QueueInv'
<1>1. /\ pc[n] = "flood" /\ UNCHANGED <<readSet, mqOut, tcs>>
      /\ \/ /\ Len(mqIn[n]) < MQMax
            /\ \E m : mqIn' = [mqIn EXCEPT ![n] = Append(@, m)]
            /\ GoOn(n, AfterSock(todo[n]), todo[n], None)
         \/ /\ mqIn' = mqIn
            /\ \E m : SendOn(n, chan, m, AfterSock(todo[n]), todo[n], None)
  BY DEF Flood
<1>2. /\ pc'[n] = "dead" \/ (pc'[n] \in {"top", "sock"} /\ todo'[n] = todo[n])
      /\ \A k \in Servers : k # n => pc'[k] = pc[k] /\ todo'[k] = todo[k] /\ cur'[k] = cur[k]
  BY <1>1, GoOnTouches, SendOnTouches DEF AfterSock
<1>3. QueueOK(n) /\ readSet'[n] \subseteq Served(n)
  BY <1>1 DEF QueueInv, QueueOK
<1>4. /\ \A k \in Servers : k # n => mqIn'[k] = mqIn[k]
      /\ mqIn'[n] = mqIn[n] \/ (Len(mqIn[n]) < MQMax /\ Len(mqIn'[n]) = Len(mqIn[n]) + 1)
  <2>1. mqIn \in [Servers -> Seq(Messages)] /\ mqIn' \in [Servers -> Seq(Messages)]
    BY DEF TypeInv, TypeOK
  <2>2. CASE mqIn' = mqIn
    BY <2>2
  <2>3. ASSUME NEW m, Len(mqIn[n]) < MQMax, mqIn' = [mqIn EXCEPT ![n] = Append(@, m)]
        PROVE  /\ \A k \in Servers : k # n => mqIn'[k] = mqIn[k]
               /\ Len(mqIn'[n]) = Len(mqIn[n]) + 1
    <3>1. mqIn'[n] = Append(mqIn[n], m) /\ mqIn[n] \in Seq(Messages)
      BY <2>1, <2>3
    <3>2. Len(mqIn'[n]) = Len(mqIn[n]) + 1
      BY <3>1
    <3> QED
      BY <2>1, <2>3, <3>2
  <2> QED
    BY <1>1, <2>2, <2>3
<1>5. Len(mqIn[n]) \in Nat /\ MQMax \in Nat
  BY QueueTypes
<1>6. QueueOK(n)'
  <2>1. Len(mqIn'[n]) <= MQMax /\ Len(tcs'[n]) <= 1
    BY <1>1, <1>3, <1>4, <1>5 DEF QueueOK
  <2>2. ASSUME Serving(n)' PROVE Serving(n) /\ Burden(n)' <= Burden(n)
    <3>1. todo'[n] = todo[n] /\ pc'[n] # "dead"
      BY <1>2, <2>2 DEF Serving
    <3>2. Unserved(n)' = Unserved(n) /\ Holding(n)' = 0 /\ Holding(n) = 1
      BY <1>1, <1>2, <3>1 DEF Unserved, Holding
    <3>3. OnItsWay(n)' = OnItsWay(n) \/ OnItsWay(n)' = OnItsWay(n) + 1
      <4> DEFINE i == Len(mqIn[n])
                 j == Len(mqOut[n])
                 k == Len(tcs[n])
      <4>1. i \in Nat /\ j \in Nat /\ k \in Nat
        BY QueueTypes
      <4>2. Len(mqIn'[n]) \in {i, i + 1} /\ Len(mqOut'[n]) = j /\ Len(tcs'[n]) = k
        BY <1>1, <1>4
      <4>3. OnItsWay(n)' \in {i + j + k, i + 1 + j + k} /\ OnItsWay(n) = i + j + k
        BY <4>2 DEF OnItsWay
      <4> HIDE DEF i, j, k
      <4> QED
        BY <4>1, <4>3
    <3>4. Cardinality(Unserved(n)) \in Nat /\ OnItsWay(n) \in Nat
      BY <1>3, UnservedFew, WayNat
    <3>5. Burden(n)' <= Burden(n)
      BY <3>2, <3>3, <3>4 DEF Burden
    <3> QED
      BY <1>1, <3>5 DEF Serving
  <2>3. CASE Serving(n)'
    <3>1. Cardinality(Unserved(n)) \in Nat /\ Unserved(n)' = Unserved(n)
      BY <1>2, <1>3, <2>3, UnservedFew DEF Unserved, Serving
    <3>2. pc'[n] # "down"
      BY <1>2
    <3> QED
      BY <1>3, <2>1, <2>2, <3>1, <3>2, LighterQueue
  <2>4. CASE ~Serving(n)'
    BY <1>2, <1>3, <2>1, <2>4 DEF QueueOK
  <2> QED
    BY <2>3, <2>4
<1>7. \A k \in Servers : k # n => Untouched(k)
  BY <1>1, <1>2, <1>4 DEF Untouched
<1> QED
  BY <1>6, <1>7, OneTouched

\* Both ends of a handshake carry what they carried.
LEMMA LogInQueue ==
  ASSUME FewConnections, TypeInv, TypeInv', HandlesInv, QueueInv, NEW c \in Conns, LogIn(c)
  PROVE  QueueInv'
<1> DEFINE a == c[1]
           b == c[2]
<1>1. /\ stage[c] = "challenged" /\ closed[c] = {} /\ UNCHANGED <<cur, todo, mqVars>>
      /\ pc' = [n \in Servers |-> IF n = b THEN AfterSock(todo[b])
                                  ELSE IF n # a THEN pc[n]
                                  ELSE IF a \in Servers /\ cur[a] = None THEN "top" ELSE "flood"]
      /\ readSet' = [n \in Servers |-> IF n = a /\ a \in Servers /\ cur[a] = None
                                       THEN readSet[n] \cup {c} ELSE readSet[n]]
  BY DEF LogIn
<1>2. a # b /\ b \in Servers /\ c = <<a, b>>
  BY ConnEnds
<1>3. /\ pc[b] = "auth"
      /\ a \in Servers => pc[a] = "wait" /\ b = Awaited(a)
  <2>1. pc[b] # "dead" /\ (a \in Servers => pc[a] # "dead")
    BY <1>1, <1>2 DEF HandlesInv, NotAfter
  <2> QED
    BY <1>1, <1>2, <2>1 DEF HandlesInv, OneChallenge, OneConnect, UnderWay
<1>4. a \in Servers /\ cur[a] = None => c \in Served(a)
  BY <1>2, <1>3 DEF Served, Awaited
<1> SUFFICES ASSUME NEW n \in Servers PROVE QueueOK(n)'
  BY DEF QueueInv
<1>5. QueueOK(n) /\ readSet'[n] \subseteq Served(n)
  BY <1>1, <1>4 DEF QueueInv, QueueOK
<1>6. /\ UNCHANGED mqVars /\ cur'[n] = cur[n] /\ todo'[n] = todo[n]
  BY <1>1
<1>7. CASE n \notin {a, b}
  <2>1. pc'[n] = pc[n] /\ readSet'[n] = readSet[n]
    BY <1>1, <1>7
  <2> QED
    BY <1>5, <1>6, <2>1, UntouchedQueue DEF Untouched, mqVars
<1>8. ASSUME n \in {a, b}
      PROVE  \/ pc'[n] = "top"
             \/ pc[n] = "auth" /\ pc'[n] = "sock"
             \/ pc[n] = "wait" /\ pc'[n] = "flood" /\ cur[n] # None
  BY <1>1, <1>2, <1>3, <1>8 DEF AfterSock
<1>9. CASE n \in {a, b} /\ pc'[n] = "top"
  BY <1>3, <1>5, <1>6, <1>9, IdleQueue DEF mqVars
<1>10. CASE n \in {a, b} /\ pc'[n] # "top"
  <2>1. Serving(n) /\ Holding(n)' = Holding(n) /\ pc'[n] # "down"
    BY <1>8, <1>10 DEF Serving, Holding
  <2>2. OnItsWay(n)' = OnItsWay(n) /\ Unserved(n)' = Unserved(n)
    BY <1>6 DEF OnItsWay, Unserved, mqVars
  <2>3. Burden(n)' = Burden(n)
    BY <2>1, <2>2 DEF Burden
  <2> QED
    BY <1>5, <1>6, <2>1, <2>3 DEF QueueOK, mqVars
<1> QED
  BY <1>7, <1>9, <1>10

LEMMA LogInFailsQueue ==
  ASSUME FewConnections, TypeInv, TypeInv', HandlesInv, QueueInv, NEW c \in Conns, LogInFails(c)
  PROVE  QueueInv'
<1> DEFINE b == c[2]
<1>1. b \in Servers
  BY ConnEnds
<1>2. /\ stage[c] = "challenged" /\ b \notin closed[c] /\ UNCHANGED <<readSet, mqVars>>
      /\ GoOn(b, AfterSock(todo[b]), todo[b], None) \/ GoOn(b, "dead", {}, None)
  BY DEF LogInFails, Die
<1>3. pc[b] = "auth"
  BY <1>1, <1>2, ConnEnds DEF HandlesInv, NotAfter, OneChallenge
<1>4. /\ pc'[b] \in {"dead", "top"} \/ (pc'[b] = "sock" /\ todo'[b] = todo[b])
      /\ \A k \in Servers : k # b => pc'[k] = pc[k] /\ todo'[k] = todo[k] /\ cur'[k] = cur[k]
  BY <1>1, <1>2, GoOnTouches DEF AfterSock
<1>5. QueueOK(b) /\ readSet'[b] \subseteq Served(b)
  BY <1>1, <1>2 DEF QueueInv, QueueOK
<1>6. QueueOK(b)'
  <2>1. CASE pc'[b] \in {"dead", "top"}
    BY <1>1, <1>2, <1>3, <1>5, <2>1, IdleQueue DEF mqVars
  <2>2. CASE pc'[b] = "sock" /\ todo'[b] = todo[b]
    <3>1. Serving(b) /\ Holding(b)' = Holding(b)
      BY <1>3, <2>2 DEF Serving, Holding
    <3>2. OnItsWay(b)' = OnItsWay(b) /\ Unserved(b)' = Unserved(b)
      BY <1>2, <2>2 DEF OnItsWay, Unserved, mqVars
    <3>3. Burden(b)' = Burden(b)
      BY <3>1, <3>2 DEF Burden
    <3> QED
      BY <1>2, <1>5, <2>2, <3>1, <3>3 DEF QueueOK, mqVars
  <2> QED
    BY <1>4, <2>1, <2>2
<1>7. \A k \in Servers : k # b => Untouched(k)
  BY <1>2, <1>4 DEF Untouched, mqVars
<1> QED
  BY <1>1, <1>6, <1>7, OneTouched

LEMMA OrphanedQueue ==
  ASSUME TypeInv, HandlesInv, QueueInv, NEW c \in Conns, Orphaned(c)
  PROVE  QueueInv'
<1> DEFINE a == c[1]
<1>1. UNCHANGED <<readSet, mqVars>>
  BY DEF Orphaned
<1>2. CASE UNCHANGED <<pc, cur, todo>>
  BY <1>1, <1>2, UntouchedQueue DEF Untouched, mqVars, QueueInv
<1>3. CASE a \in Servers /\ GoOn(a, "dead", {}, None)
  <2>1. /\ pc'[a] = "dead"
        /\ \A k \in Servers : k # a => pc'[k] = pc[k] /\ todo'[k] = todo[k] /\ cur'[k] = cur[k]
    BY <1>3, GoOnTouches
  <2>2. QueueOK(a) /\ pc[a] # "down"
    <3>1. stage[c] # "none"
      BY DEF Orphaned
    <3> QED
      BY <1>3, <3>1 DEF QueueInv, HandlesInv, NotBefore
  <2>3. QueueOK(a)'
    BY <1>1, <1>3, <2>1, <2>2, IdleQueue DEF mqVars, QueueOK
  <2>4. \A k \in Servers : k # a => Untouched(k)
    BY <1>1, <2>1 DEF Untouched, mqVars
  <2> QED
    BY <1>3, <2>3, <2>4, OneTouched
<1> QED
  BY <1>2, <1>3 DEF Orphaned, Die

LEMMA TailLength ==
  ASSUME NEW S, NEW q \in Seq(S), q # <<>>
  PROVE  Len(Tail(q)) = Len(q) - 1 /\ Len(q) >= 1
<1>1. Len(q) \in Nat /\ Len(q) # 0
  OBVIOUS
<1> QED
  BY <1>1

LEMMA AppendLength ==
  ASSUME NEW S, NEW q \in Seq(S), NEW x
  PROVE  Len(Append(q, x)) = Len(q) + 1
  OBVIOUS

\* A tc-server moves what is on its way, and answers a message with one.
LEMMA TcsLengths ==
  ASSUME NoPingtcs, TypeInv, ServiceInv, NEW n \in Servers, TcsStep(n)
  PROVE  /\ Len(mqIn'[n]) + Len(mqOut'[n]) + Len(tcs'[n])
              = Len(mqIn[n]) + Len(mqOut[n]) + Len(tcs[n])
         /\ Len(mqIn'[n]) <= Len(mqIn[n]) /\ (Len(tcs'[n]) <= 1 \/ Len(tcs'[n]) <= Len(tcs[n]))
         /\ ~(mqIn[n] = <<>> /\ mqOut[n] = <<>> /\ tcs[n] = <<>>)
<1> DEFINE i == Len(mqIn[n])
           j == Len(mqOut[n])
           k == Len(tcs[n])
<1>1. /\ i \in Nat /\ j \in Nat /\ k \in Nat
      /\ mqIn[n] \in Seq(Messages) /\ mqOut[n] \in Seq(Messages) /\ tcs[n] \in Seq(Messages)
  BY QueueTypes
<1>2. CASE TcsReceive(n)
  <2> DEFINE m == Head(mqIn[n])
             s == TcsStatuses(m)
             replies == [x \in 1..Len(s) |-> ReplyTo(m, <<TcId[n], clock[TcId[n]] + x - 1>>, TcId[n], n, s[x])]
  <2>1. /\ tcs[n] = <<>> /\ mqIn[n] # <<>> /\ mqOut' = mqOut
        /\ mqIn' = [mqIn EXCEPT ![n] = Tail(@)] /\ tcs' = [tcs EXCEPT ![n] = replies]
    BY <1>2 DEF TcsReceive
  <2>2. m \in sent /\ m.type = "CALL"
    <3>1. m \in sent /\ m.dstsub = TcId[n]
      BY <1>2, TcsReceiveDoes DEF IsForTcs
    <3>2. m.dstsub \in TcServers
      BY <3>1, ConfigAssumption
    <3> QED
      BY <3>1, <3>2, PingIsCall
  <2>3. Len(s) = 1
    BY <2>2, OneStatus DEF TcsStatuses
  <2> HIDE DEF s
  <2>4. Len(replies) = 1
    BY <2>3
  <2> HIDE DEF replies
  <2>5. tcs'[n] = replies /\ mqIn'[n] = Tail(mqIn[n])
    BY <2>1 DEF TypeInv, TypeOK
  <2>6. Len(mqIn'[n]) = i - 1 /\ i >= 1
    BY <1>1, <2>1, <2>5, TailLength
  <2>7. Len(mqOut'[n]) = j /\ Len(tcs'[n]) = 1 /\ k = 0
    BY <2>1, <2>4, <2>5
  <2>8. mqIn[n] # <<>>
    BY <2>1
  <2> HIDE DEF i, j, k
  <2>9. (i - 1) + j + 1 = i + j + k /\ i - 1 <= i /\ 1 <= 1
    BY <1>1, <2>7
  <2> QED
    BY <2>6, <2>7, <2>8, <2>9, Zenon DEF i, j, k
<1>3. CASE TcsSend(n)
  <2>1. /\ tcs[n] # <<>> /\ mqIn' = mqIn
        /\ mqOut' = [mqOut EXCEPT ![n] = Append(@, Head(tcs[n]))]
        /\ tcs' = [tcs EXCEPT ![n] = Tail(@)]
    BY <1>3 DEF TcsSend
  <2>2. mqOut'[n] = Append(mqOut[n], Head(tcs[n])) /\ tcs'[n] = Tail(tcs[n])
    BY <2>1 DEF TypeInv, TypeOK
  <2>3. Len(mqOut'[n]) = j + 1
    BY <1>1, <2>2, AppendLength
  <2>4. Len(tcs'[n]) = k - 1
    BY <1>1, <2>1, <2>2, TailLength
  <2>5. Len(mqIn'[n]) = i
    BY <2>1
  <2> HIDE DEF i, j, k
  <2>6. i + (j + 1) + (k - 1) = i + j + k /\ i <= i /\ k - 1 <= k
    BY <1>1
  <2> QED
    BY <2>1, <2>3, <2>4, <2>5, <2>6, Zenon DEF i, j, k
<1> QED
  BY <1>2, <1>3 DEF TcsStep

LEMMA TcsQueue ==
  ASSUME NoPingtcs, TypeInv, TypeInv', ServiceInv, QueueInv,
         NEW n \in Servers, TcsStep(n)
  PROVE  QueueInv'
<1>1. UNCHANGED <<pc, cur, todo, readSet>>
  BY DEF TcsStep, TcsReceive, TcsSend, srvVars
<1>2. \A x \in Servers : x # n => mqIn'[x] = mqIn[x] /\ mqOut'[x] = mqOut[x] /\ tcs'[x] = tcs[x]
  BY DEF TcsStep, TcsReceive, TcsSend, TypeInv, TypeOK
<1>3. OnItsWay(n)' = OnItsWay(n)
  BY TcsLengths DEF OnItsWay
<1>4. Burden(n)' = Burden(n)
  BY <1>1, <1>3 DEF Burden, Holding, Unserved
<1>5. QueueOK(n)
  BY DEF QueueInv
<1>6. Len(mqIn'[n]) <= MQMax /\ Len(tcs'[n]) <= 1
  <2>1. Len(mqIn[n]) <= MQMax /\ Len(tcs[n]) <= 1
    BY <1>5 DEF QueueOK
  <2>2. Len(mqIn[n]) \in Nat /\ Len(tcs[n]) \in Nat /\ MQMax \in Nat
    BY QueueTypes
  <2>3. Len(mqIn'[n]) \in Nat /\ Len(tcs'[n]) \in Nat
    <3>1. mqIn'[n] \in Seq(Messages) /\ tcs'[n] \in Seq(Messages)
      BY DEF TypeInv, TypeOK
    <3> QED
      BY <3>1
  <2>4. /\ Len(mqIn'[n]) <= Len(mqIn[n])
        /\ Len(tcs'[n]) <= 1 \/ Len(tcs'[n]) <= Len(tcs[n])
    BY TcsLengths
  <2> QED
    BY <2>1, <2>2, <2>3, <2>4
<1>7. pc[n] # "down"
  BY <1>5, TcsLengths DEF QueueOK
<1>8. QueueOK(n)'
  BY <1>1, <1>4, <1>5, <1>6, <1>7 DEF QueueOK, Serving
<1>9. \A x \in Servers : x # n => Untouched(x)
  BY <1>1, <1>2 DEF Untouched
<1> QED
  BY <1>8, <1>9, OneTouched

LEMMA QueueStep ==
  ASSUME NoPingtcs, FewConnections, TypeInv, TypeInv', ServiceInv, HandlesInv, QueueInv,
         [Next]_vars
  PROVE  QueueInv'
<1>1. CASE UNCHANGED vars
  BY <1>1, UntouchedQueue DEF vars, srvVars, mqVars, Untouched, QueueInv
<1>2. ASSUME NEW n \in Servers, ServerStep(n) PROVE QueueInv'
  BY <1>2, StartQueue, TopQueue, DrainMQQueue, AcceptQueue, ReceiveQueue, FloodQueue, CloseQueue
     DEF ServerStep, LoopStep
<1>3. ASSUME NEW n \in Servers, TcsStep(n) PROVE QueueInv'
  BY <1>3, TcsQueue
<1>4. ASSUME NEW c \in Conns, Handshake(c) PROVE QueueInv'
  BY <1>4, LogInQueue, LogInFailsQueue, OrphanedQueue DEF Handshake
<1>5. ASSUME NEW c \in Clients, ClientStep(c) PROVE QueueInv'
  <2>1. UNCHANGED <<srvVars, mqVars>>
    BY <1>5 DEF ClientStep, Connect, ClientCall, ClientReceive, ClientQuit
  <2> QED
    BY <2>1, UntouchedQueue DEF srvVars, mqVars, Untouched, QueueInv
<1> QED
  BY <1>1, <1>2, <1>3, <1>4, <1>5 DEF Next

\* A server that waits for room in the queue to its tc-server never meets a tc-server
\* that waits for room in the queue back, in any network where no server has more
\* connections to read than a queue has room: floodRoute() sends on the blocking queue
\* once for each socket that select() returned, and the loop empties the other queue
\* before it serves them (MessSrv.pl's main loop).
THEOREM QueuesFlow ==
  ASSUME NoPingtcs, FewConnections
  PROVE  Spec => []QueuesNeverJam
<1>1. Init => QueueInv
  <2> SUFFICES ASSUME Init, NEW n \in Servers PROVE QueueOK(n)
    BY DEF QueueInv
  <2>1. /\ pc[n] = "down" /\ readSet[n] = {}
        /\ mqIn[n] = <<>> /\ mqOut[n] = <<>> /\ tcs[n] = <<>>
    BY DEF Init
  <2>2. MQMax \in Nat /\ Len(<<>>) = 0
    BY ConfigAssumption
  <2> QED
    BY <2>1, <2>2 DEF QueueOK, Serving
<1>2. TypeInv /\ HandlesInv /\ QueueInv => QueuesNeverJam
  <2> SUFFICES ASSUME TypeInv, HandlesInv, QueueInv, NEW n \in Servers, pc[n] = "flood",
                      Len(mqIn[n]) = MQMax, Len(mqOut[n]) = MQMax, tcs[n] # <<>>
               PROVE  FALSE
    BY DEF QueuesNeverJam
  <2>1. QueueOK(n) /\ Holding(n) = 1 /\ Burden(n) <= 2 * MQMax + 1
    BY DEF QueueInv, QueueOK, Serving, Holding
  <2>2. Cardinality(Unserved(n)) \in Nat
    BY <2>1, UnservedFew
  <2>3. Len(tcs[n]) \in Nat /\ Len(tcs[n]) # 0 /\ MQMax \in Nat
    <3>1. tcs[n] \in Seq(Messages) /\ MQMax \in Nat
      BY QueueTypes
    <3> QED
      BY <3>1
  <2>4. Burden(n) = (MQMax + MQMax + Len(tcs[n])) + Cardinality(Unserved(n)) + 1
    BY <2>1 DEF Burden, OnItsWay
  <2> DEFINE k == Len(tcs[n])
             u == Cardinality(Unserved(n))
  <2>5. (MQMax + MQMax + k) + u + 1 <= 2 * MQMax + 1
    BY <2>1, <2>4
  <2>6. k \in Nat /\ k # 0 /\ u \in Nat /\ MQMax \in Nat
    BY <2>2, <2>3
  <2> HIDE DEF k, u
  <2> QED
    BY <2>5, <2>6
<1>3. Init => HandlesInv
  BY ConnEnds DEF Init, HandlesInv, HandlesAreOpen, OneConnect, OneChallenge, NotBefore,
     NotAfter, AcceptedFirst, UnderWay
<1>4. Spec => []HandlesInv
  BY <1>3, HandlesStep, TypeInvariant, PTL DEF Spec
<1> QED
  BY <1>1, <1>2, <1>4, QueueStep, ServiceInvariant, TypeInvariant, PTL DEF Spec
=============================================================================
