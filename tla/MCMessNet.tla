----------------------------- MODULE MCMessNet -----------------------------
(* The constants of the instances of MessNet that TLC checks. *)
EXTENDS MessNet
CONSTANTS m1, m2, m3, s1, s2, s3, c1, c2

\* MessConfig.xml, MessConfig_2.xml and MessConfig_3.xml: a line of three servers.
Line == [n \in Servers |-> IF n = m1 THEN None ELSE IF n = m2 THEN m1 ELSE m2]
TcOf == [n \in Servers |-> IF n = m1 THEN s1 ELSE IF n = m2 THEN s2 ELSE s3]

HomeM1 == [c \in Clients |-> m1]
HomeApart == [c \in Clients |-> IF c = c1 THEN m1 ELSE m2]
All == Servers \cup Clients

CallAll == [c \in Clients |-> {<<Self, Bcast>>}]
CallTcs == [c \in Clients |-> {<<TcId[Home[c]], Home[c]>>}]
\* A server, its tc-server as if it were a server, and the client itself.
CallOddly ==
  [c \in Clients |-> {<<Self, Home[c]>>, <<Self, TcId[Home[c]]>>, <<c, Home[c]>>}]
NotC2 == All \ {c2}
NoBcast == [n \in Servers |-> 0]
OneBcast == [n \in Servers |-> 1]
\* The first broadcast of m1 goes out before anybody is connected.
TwoOfM1 == [n \in Servers |-> IF n = m1 THEN 2 ELSE IF n = m3 THEN 1 ELSE 0]
NoCalls == [c \in Clients |-> {}]
=============================================================================
