------------------------------ MODULE MessCall ------------------------------
(***************************************************************************)
(* What the MESS network promises to the processes that call each other    *)
(* through it: whoever is addressed answers a call at most once, only after *)
(* it was placed, and an answer comes back to the caller alone, at most     *)
(* once and only after it was given.  Calls and answers may be lost.        *)
(***************************************************************************)
EXTENDS Naturals

CONSTANTS
  Clients,  \* processes that place calls and wait for answers
  Bcast     \* the address of every server

VARIABLES
  calls,    \* placed: records of id, by (the caller), sub and at (the address)
  answers,  \* given: records of id, call, sub and at (who answers)
  returned  \* returned[p]: what came back to p: records of id (the answer's) and when

vars == <<calls, answers, returned>>

Init == calls = {} /\ answers = {} /\ returned = [p \in Clients |-> {}]

Place ==
  /\ \E c \in calls' :
       /\ \A d \in calls : d.id # c.id
       /\ calls' = calls \cup {c}
  /\ UNCHANGED <<answers, returned>>

\* A call is addressed to whoever answers it at a server or at all of them, or by name.
Addresses(c, a) == (c.sub = a.sub /\ c.at \in {Bcast, a.at}) \/ c.at = a.sub

Answer ==
  /\ \E a \in answers' :
       /\ \E c \in calls : a.call = c.id /\ Addresses(c, a)
       /\ \A b \in answers : <<b.call, b.sub, b.at>> # <<a.call, a.sub, a.at>>
       /\ answers' = answers \cup {a}
  /\ UNCHANGED <<calls, returned>>

Return ==
  /\ \E c \in calls, a \in answers :
       /\ a.call = c.id /\ c.by \in Clients
       /\ \E x \in returned'[c.by] :
            /\ x.id = a.id
            /\ \A y \in returned[c.by] : y.id # x.id /\ y.when < x.when
            /\ returned' = [returned EXCEPT ![c.by] = @ \cup {x}]
  /\ UNCHANGED <<calls, answers>>

Next == Place \/ Answer \/ Return
Spec == Init /\ [][Next]_vars
=============================================================================
