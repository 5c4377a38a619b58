----------------------------- MODULE ByteCursor -----------------------------
(***************************************************************************)
(* What the readers of a file of protocol messages rely on: a cursor that  *)
(* moves over the bytes and never past the nearest limit.  A call that     *)
(* succeeds has delivered the very next bytes, one that fails had too few  *)
(* left, and replacing a reader by another one does not move the cursor.   *)
(* All positions are those of the input.                                   *)
(***************************************************************************)
EXTENDS Integers, Sequences

CONSTANTS High, MaxVarint  \* see CodedInput

NoEnd == -1

VARIABLES
  file,     \* the bytes of the input
  cursor,   \* how many of them were consumed
  end,      \* where the input ends, whatever the file holds, or NoEnd
  limits,   \* where the pushed limits end it, the innermost last
  total,    \* where the limit on all bytes ends it
  lost,     \* an error, or a skip beyond the end: nothing more is delivered
  ret       \* the last call: its name, what it asked for, what it gave

vars == <<file, cursor, end, limits, total, lost, ret>>

Least(a, b) == IF a <= b THEN a ELSE b
Nearest == IF limits = <<>> THEN total ELSE Least(total, limits[Len(limits)])
Bound == IF end = NoEnd THEN Nearest ELSE Least(Nearest, end)
Stop == Least(Bound, Len(file))

Upcoming(n) == SubSeq(file, cursor + 1, cursor + n)
IsVarint(bytes) ==
  /\ Len(bytes) \in 1 .. MaxVarint
  /\ \A i \in 1 .. Len(bytes) : bytes[i] \in High <=> i < Len(bytes)

Init == cursor = 0 /\ limits = <<>> /\ ~lost

Reading == {"Read", "ReadVarint", "ExpectTag"}

\* The bytes at the cursor are delivered.
Deliver ==
  /\ ret'.op \in Reading /\ ret'.ok
  /\ LET n == Len(ret'.bytes)
     IN  /\ n = 0 \/ (~lost /\ cursor + n <= Stop)
         /\ cursor' = cursor + n
         /\ ret'.bytes = Upcoming(n)
         /\ IF ret'.op = "Read" THEN n = ret'.n
            ELSE IsVarint(ret'.bytes)
  /\ UNCHANGED <<end, limits, total, lost>>

\* Bytes that are there are passed over.
Skip ==
  /\ ret'.op = "Skip" /\ ret'.ok
  /\ ret'.n = 0 \/ (ret'.n > 0 /\ ~lost /\ cursor + ret'.n <= Stop)
  /\ cursor' = cursor + ret'.n
  /\ UNCHANGED <<end, limits, total, lost>>

\* Against the promise of zero_copy_stream.h:151, a skip over a file that can seek
\* does not notice its end: it goes on to where it was asked to, or to the limit
\* (CopyingFileInputStream::Skip).
SkipBeyond ==
  /\ ret'.op = "Skip"
  /\ ~lost /\ ret'.n > Stop - cursor /\ cursor' > Len(file)
  /\ IF ret'.ok THEN cursor' = cursor + ret'.n /\ cursor' <= Bound
     ELSE cursor' = Bound
  /\ UNCHANGED <<end, limits, total, lost>>

\* Too little is left, and that is consumed; or the input is lost.
Fail ==
  /\ ret'.op \in {"Read", "Skip"} /\ ~ret'.ok
  /\ \/ ret'.n < 0 /\ cursor' = cursor
     \/ /\ ret'.n > Stop - cursor
        /\ cursor' = IF cursor < Stop THEN Stop ELSE cursor
     \/ lost' /\ cursor' >= cursor
  /\ lost' \/ UNCHANGED <<end, limits, total, lost>>

\* No varint is next.
FailVarint ==
  /\ ret'.op = "ReadVarint" /\ ~ret'.ok
  /\ cursor' >= cursor
  /\ \/ /\ (cursor' <= Stop \/ cursor' = cursor)
        /\ ~\E n \in 1 .. Stop - cursor : IsVarint(Upcoming(n))
     \/ lost'
  /\ lost' \/ UNCHANGED <<end, limits, total, lost>>

\* A look ahead: if it says the end is reached, nothing is left.
Look ==
  /\ \/ ret'.op = "ExpectTag" /\ ~ret'.ok
     \/ ret'.op = "ExpectAtEnd" /\ (ret'.ok => cursor >= Stop \/ lost)
  /\ UNCHANGED <<cursor, end, limits, total, lost>>

PushLimit ==
  /\ ret'.op = "PushLimit"
  /\ \E l \in {limits[Len(limits)], cursor + ret'.n} :
       /\ l <= limits[Len(limits)]
       /\ l = cursor + ret'.n \/ ret'.n < 0 \/ cursor + ret'.n >= l
       /\ limits' = Append(limits, l) \/ lost
  /\ UNCHANGED <<cursor, end, total, lost>>

PopLimit ==
  /\ ret'.op = "PopLimit"
  /\ limits' = SubSeq(limits, 1, Len(limits) - 1)
  /\ UNCHANGED <<cursor, end, total, lost>>

SetTotal ==
  /\ ret'.op = "SetTotalBytesLimit"
  /\ total' >= cursor
  /\ UNCHANGED <<cursor, end, limits, lost>>

\* A reader comes or goes, or the end of the input is set.
Exchange ==
  /\ ret'.op \in {"Construct", "Destruct", "LimitInput", "UnlimitInput"}
  /\ cursor' = cursor
  /\ Len(limits') <= 1
  /\ ret'.op = "LimitInput" => end' = cursor + ret'.n

\* A call begins.
Forget == ret'.op = "none" /\ UNCHANGED <<cursor, end, limits, total, lost>>

Call ==
  Deliver \/ Skip \/ SkipBeyond \/ Fail \/ FailVarint \/ Look \/ PushLimit \/ PopLimit
    \/ SetTotal \/ Exchange \/ Forget

\* The file is complete before it is read.
Grow == cursor = 0 /\ UNCHANGED <<cursor, end, limits, total, lost, ret>>

Spec == Init /\ [][Grow \/ (Call /\ UNCHANGED file)]_vars
=============================================================================
