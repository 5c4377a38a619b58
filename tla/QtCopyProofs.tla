---------------------------- MODULE QtCopyProofs ----------------------------
(***************************************************************************)
(* What holds of the copy dialog for blocks and files of any size: the     *)
(* types, that the copy is whole, that the dialog is there when the window *)
(* writes to it, and that its value is within its range.                   *)
(***************************************************************************)
EXTENDS QtCopy, SequenceTheorems, TLAPS

(* What was read of the file and what the window was told.                    *)

Count(n) == [i \in 1..n |-> i]

\* All that was read is written, or on its way as data.
Holds(data) ==
  disk.readable /\ disk.writable =>
    /\ dest = [bytes |-> dest.bytes, open |-> TRUE] /\ dest.bytes \in Seq(Nat)
    /\ dest.bytes \o data = Count(source.pos)

Fresh == disk.readable /\ disk.writable => dest = [bytes |-> <<>>, open |-> TRUE]
Done ==
  disk.readable /\ disk.writable => dest = [bytes |-> Count(disk.size), open |-> FALSE]

\* No block is counted twice.
ToGo ==
  disk.readable =>
    /\ source.numBlocks \in Nat /\ source.fragment \in Nat
    /\ source.pos + (source.numBlocks * BlockSize) + source.fragment = disk.size
    /\ source.count + source.numBlocks = source.blockCount
Through == disk.readable => source.pos = disk.size

WindowEvents ==
  [kind : {"openDialog", "closeDialog", "seconds"}] \cup [kind : {"max", "val"}, val : Nat]

\* The dialog is shown, or will be before anything else; it is closed last.
NoDialog == toWindow = <<>> /\ dialog # "shown"
Dialog(closing) ==
  /\ toWindow \in Seq(WindowEvents)
  /\ toWindow = <<>> => dialog = "shown" /\ ~closing
  /\ \A i \in 1..Len(toWindow) :
       /\ toWindow[i].kind = "openDialog" <=> i = 1 /\ dialog # "shown"
       /\ toWindow[i].kind = "closeDialog" <=> i = Len(toWindow) /\ closing

\* Its range is set before its value is.
RangeKnown(n) ==
  \/ dialog = "shown" /\ bar.max = source.blockCount
  \/ \E j \in 1..n : toWindow[j].kind = "max"
Measured ==
  disk.readable =>
    /\ \A i \in 1..Len(toWindow) :
         /\ toWindow[i].kind = "max" => toWindow[i].val = source.blockCount
         /\ toWindow[i].kind = "val" =>
              toWindow[i].val <= source.blockCount /\ RangeKnown(i - 1)
    /\ dialog = "shown" =>
         \/ bar.val = 0
         \/ bar.max = source.blockCount /\ bar.val <= source.blockCount
Unmeasured ==
  disk.readable =>
    /\ \A i \in 1..Len(toWindow) : toWindow[i].kind \notin {"max", "val"}
    /\ dialog = "shown" => bar = [max |-> 0, val |-> 0]
-----------------------------------------------------------------------------
(* The copy is at one place at a time: in one queue, or with one thread.      *)

Frame(data, last) == [kind |-> "frame", data |-> data, last |-> last]

At(c, p, pr, co) ==
  toConsumer = c /\ toProducer = p /\ producer = pr /\ consumer = co

Quiet == At(<<>>, <<>>, Idle, "idle")
Asked == At(<<Event("begin")>>, <<>>, Idle, "idle")

\* The consumer has opened its file and goes on, or the producer will.
Opened == Fresh /\ At(<<>>, <<>>, Idle, "initiate")
Ordered == Fresh /\ At(<<>>, <<Event("produce")>>, Idle, "idle")

\* A block is read, sent, written, measured and answered.
Reading == At(<<>>, <<>>, [Idle EXCEPT !.at = "frame"], "idle") /\ Holds(<<>>) /\ ToGo
Sending(data, last) ==
  /\ At(<<>>, <<>>, [at |-> "send", data |-> data, last |-> last], "idle")
  /\ Holds(data)
  /\ IF last THEN Through ELSE ToGo
Sent(data) == At(<<Frame(data, FALSE)>>, <<>>, Idle, "idle") /\ Holds(data) /\ ToGo
Measuring(stage) ==
  /\ At(<<>>, <<>>, Idle, stage) /\ Holds(<<>>) /\ ToGo
  /\ stage = "val" /\ disk.readable => RangeKnown(Len(toWindow))
Answered == At(<<>>, <<Event("blockDone")>>, Idle, "idle") /\ Holds(<<>>) /\ ToGo

\* The last packet is on its way, and the producer halts the copy behind it.
LastSent(data) ==
  /\ At(<<Frame(data, TRUE)>>, <<>>, [Idle EXCEPT !.at = "halt"], "idle")
  /\ Holds(data) /\ Through
LastQueued(data) ==
  /\ At(<<Frame(data, TRUE), Event("halt")>>, <<>>, Idle, "idle")
  /\ Holds(data) /\ Through
ToHalt == At(<<>>, <<>>, [Idle EXCEPT !.at = "halt"], "idle") /\ Holds(<<>>) /\ Through
Halted == At(<<Event("halt")>>, <<>>, Idle, "idle") /\ Holds(<<>>) /\ Through

Stages == {"max", "val", "seconds", "done"}
Transferring ==
  \/ Reading \/ Answered \/ ToHalt \/ Halted
  \/ \E stage \in Stages : Measuring(stage)
  \/ \E data : \/ Sending(data, FALSE) \/ Sending(data, TRUE)
                \/ Sent(data) \/ LastSent(data) \/ LastQueued(data)

Beginning == waiting /\ Dialog(FALSE) /\ Unmeasured
Running == waiting /\ Dialog(FALSE) /\ Measured

CopyOK ==
  \/ ~waiting /\ Quiet /\ NoDialog /\ (copies > 0 => Done)
  \/ waiting /\ Asked /\ NoDialog
  \/ Beginning /\ (Opened \/ Ordered)
  \/ Running /\ Transferring
  \/ waiting /\ Quiet /\ Done /\ Dialog(TRUE) /\ Measured

\* For the user who has never clicked during a copy.
Patient ==
  /\ TypeOK /\ bar \in [max : Nat, val : Nat]
  /\ over <= copies /\ copies <= over + 1 /\ dialog # "crashed"
  /\ CopyOK

\* For every user: m_progress is set before anything else is done with it,
\* and without a readable file the range stays 0..0.
NotBegun ==
  /\ toConsumer \in Seq({Event("begin")}) /\ toProducer = <<>> /\ toWindow = <<>>
  /\ producer.at = "idle" /\ consumer = "idle"
DialogFirst ==
  dialog = "unset" => NotBegun \/ (toWindow # <<>> /\ toWindow[1].kind = "openDialog")
NoRange ==
  ~disk.readable =>
    /\ source.blockCount = 0 /\ bar.max = 0
    /\ \A i \in 1..Len(toWindow) : toWindow[i].kind = "max" => toWindow[i].val = 0
Always ==
  /\ TypeOK /\ bar \in [max : Nat, val : Nat] /\ toWindow \in Seq(WindowEvents)
  /\ DialogFirst /\ NoRange

IInv == Always /\ (~hasty => Patient)
-----------------------------------------------------------------------------
(* Facts *)

LEMMA Division ==
  ASSUME NEW n \in Nat, NEW b \in Nat \ {0}
  PROVE  /\ n \div b \in Nat /\ n % b \in Nat
         /\ n = ((n \div b) * b) + (n % b)
  BY SMT

LEMMA Concatenation ==
  ASSUME NEW k \in Nat, NEW n \in Nat
  PROVE  Count(k) \o [i \in 1..n |-> k + i] = Count(k + n)
  BY SMT DEF Count

LEMMA ShortQueues ==
  ASSUME NEW e, NEW d
  PROVE  /\ Head(<<e>>) = e /\ Head(<<e, d>>) = e
         /\ Tail(<<e>>) = <<>> /\ Tail(<<e, d>>) = <<d>>
         /\ Append(<<>>, e) = <<e>> /\ Append(<<e>>, d) = <<e, d>>
         /\ <<e>> # <<>> /\ <<e, d>> # <<>>
<1>1. Append(<<e>>, d) = <<e, d>>
  <2>1. <<e>> \in Seq({e, d}) /\ Len(<<e>>) = 1 /\ <<e>>[1] = e
    OBVIOUS
  <2>2. /\ Append(<<e>>, d) \in Seq({e, d}) /\ Len(Append(<<e>>, d)) = 2
        /\ Append(<<e>>, d)[1] = e /\ Append(<<e>>, d)[2] = d
    BY <2>1, AppendProperties
  <2>3. <<e, d>> \in Seq({e, d}) /\ Len(<<e, d>>) = 2
        /\ <<e, d>>[1] = e /\ <<e, d>>[2] = d
    OBVIOUS
  <2>4. \A i \in 1..Len(<<e, d>>) : Append(<<e>>, d)[i] = <<e, d>>[i]
    BY <2>2, <2>3
  <2> QED
    BY <2>2, <2>3, <2>4, SeqEqual
<1> QED
  BY <1>1

LEMMA Handling ==
  /\ \A k : ~Handles(<<>>, k)
  /\ \A k, n : Handles(<<Event(k)>>, n) <=> k = n
  /\ \A data, last, n : Handles(<<Frame(data, last)>>, n) <=> n = "frame"
  /\ \A data, last, e, n : Handles(<<Frame(data, last), e>>, n) <=> n = "frame"
  BY ShortQueues DEF Handles, Event, Frame

\* Where the copy is, told by what is to be done next.
LEMMA Places ==
  ASSUME CopyOK
  PROVE  /\ producer.at = "idle" /\ Handles(toProducer, "produce") => Beginning /\ Ordered
         /\ producer.at = "idle" /\ Handles(toProducer, "blockDone") => Running /\ Answered
         /\ producer.at = "frame" => Running /\ Reading
         /\ producer.at = "send" =>
              Running /\ \E last \in BOOLEAN : Sending(producer.data, last) /\ producer.last = last
         /\ producer.at = "halt" => Running /\ (ToHalt \/ \E data : LastSent(data))
         /\ consumer = "idle" /\ Handles(toConsumer, "begin") => waiting /\ Asked /\ NoDialog
         /\ consumer = "initiate" => Beginning /\ Opened
         /\ consumer = "idle" /\ Handles(toConsumer, "halt") => Running /\ Halted
         /\ consumer = "idle" /\ Handles(toConsumer, "frame") =>
              Running /\ \E data : Sent(data) \/ LastSent(data) \/ LastQueued(data)
         /\ consumer \in Stages => Running /\ Measuring(consumer)
<1>1. CASE Quiet
  <2>1. producer.at = "idle" /\ consumer = "idle"
    BY <1>1 DEF Quiet, At, Idle, Stages
  <2>2. \A k : ~Handles(toProducer, k) /\ ~Handles(toConsumer, k)
    BY <1>1, Handling DEF Quiet, At
  <2> QED
    BY <1>1, <2>1, <2>2 DEF Stages
<1>2. CASE waiting /\ Asked /\ NoDialog
  <2>1. producer.at = "idle" /\ consumer = "idle"
    BY <1>2 DEF Asked, At, Idle, Stages
  <2>2. \A k : ~Handles(toProducer, k) /\ (Handles(toConsumer, k) => k = "begin")
    BY <1>2, Handling DEF Asked, At
  <2> QED
    BY <1>2, <2>1, <2>2 DEF Stages
<1>3. CASE Beginning /\ Opened
  <2>1. producer.at = "idle" /\ consumer = "initiate"
    BY <1>3 DEF Opened, At, Idle, Stages
  <2>2. \A k : ~Handles(toProducer, k) /\ ~Handles(toConsumer, k)
    BY <1>3, Handling DEF Opened, At
  <2> QED
    BY <1>3, <2>1, <2>2 DEF Stages
<1>4. CASE Beginning /\ Ordered
  <2>1. producer.at = "idle" /\ consumer = "idle"
    BY <1>4 DEF Ordered, At, Idle, Stages
  <2>2. \A k : (Handles(toProducer, k) => k = "produce") /\ ~Handles(toConsumer, k)
    BY <1>4, Handling DEF Ordered, At
  <2> QED
    BY <1>4, <2>1, <2>2 DEF Stages
<1>5. CASE Running /\ Reading
  <2>1. producer.at = "frame" /\ consumer = "idle"
    BY <1>5 DEF Reading, At, Idle, Stages
  <2>2. \A k : ~Handles(toProducer, k) /\ ~Handles(toConsumer, k)
    BY <1>5, Handling DEF Reading, At
  <2> QED
    BY <1>5, <2>1, <2>2 DEF Stages
<1>6. CASE Running /\ Answered
  <2>1. producer.at = "idle" /\ consumer = "idle"
    BY <1>6 DEF Answered, At, Idle, Stages
  <2>2. \A k : (Handles(toProducer, k) => k = "blockDone") /\ ~Handles(toConsumer, k)
    BY <1>6, Handling DEF Answered, At
  <2> QED
    BY <1>6, <2>1, <2>2 DEF Stages
<1>7. CASE Running /\ ToHalt
  <2>1. producer.at = "halt" /\ consumer = "idle"
    BY <1>7 DEF ToHalt, At, Idle, Stages
  <2>2. \A k : ~Handles(toProducer, k) /\ ~Handles(toConsumer, k)
    BY <1>7, Handling DEF ToHalt, At
  <2> QED
    BY <1>7, <2>1, <2>2 DEF Stages
<1>8. CASE Running /\ Halted
  <2>1. producer.at = "idle" /\ consumer = "idle"
    BY <1>8 DEF Halted, At, Idle, Stages
  <2>2. \A k : ~Handles(toProducer, k) /\ (Handles(toConsumer, k) => k = "halt")
    BY <1>8, Handling DEF Halted, At
  <2> QED
    BY <1>8, <2>1, <2>2 DEF Stages
<1>9. CASE Running /\ \E stage \in Stages : Measuring(stage)
  <2>1. PICK stage \in Stages : Measuring(stage)
    BY <1>9
  <2>2. producer.at = "idle" /\ consumer = stage
    BY <2>1 DEF Measuring, At, Idle
  <2>3. \A k : ~Handles(toProducer, k)
    BY <2>1, Handling DEF Measuring, At
  <2> QED
    BY <1>9, <2>1, <2>2, <2>3 DEF Stages
<1>10. CASE Running /\ \E data : Sent(data)
  <2>0. PICK data : Sent(data)
    BY <1>10
  <2>1. producer.at = "idle" /\ consumer = "idle"
    BY <2>0 DEF Sent, At, Idle, Stages
  <2>2. \A k : ~Handles(toProducer, k) /\ (Handles(toConsumer, k) => k = "frame")
    BY <2>0, Handling DEF Sent, At
  <2> QED
    BY <1>10, <2>0, <2>1, <2>2 DEF Stages
<1>11. CASE Running /\ \E data : LastSent(data)
  <2>0. PICK data : LastSent(data)
    BY <1>11
  <2>1. producer.at = "halt" /\ consumer = "idle"
    BY <2>0 DEF LastSent, At, Idle, Stages
  <2>2. \A k : ~Handles(toProducer, k) /\ (Handles(toConsumer, k) => k = "frame")
    BY <2>0, Handling DEF LastSent, At
  <2> QED
    BY <1>11, <2>0, <2>1, <2>2 DEF Stages
<1>12. CASE Running /\ \E data : LastQueued(data)
  <2>0. PICK data : LastQueued(data)
    BY <1>12
  <2>1. producer.at = "idle" /\ consumer = "idle"
    BY <2>0 DEF LastQueued, At, Idle, Stages
  <2>2. \A k : ~Handles(toProducer, k) /\ (Handles(toConsumer, k) => k = "frame")
    BY <2>0, Handling DEF LastQueued, At
  <2> QED
    BY <1>12, <2>0, <2>1, <2>2 DEF Stages
<1>13. ASSUME Running, NEW data, NEW last \in BOOLEAN, Sending(data, last)
       PROVE  /\ producer.at = "send" /\ consumer = "idle"
              /\ producer.data = data /\ producer.last = last
              /\ \A k : ~Handles(toProducer, k) /\ ~Handles(toConsumer, k)
  BY <1>13, Handling DEF Sending, At
<1>14. CASE Running /\ \E data : Sending(data, FALSE) \/ Sending(data, TRUE)
  <2>1. PICK data : Sending(data, FALSE) \/ Sending(data, TRUE)
    BY <1>14
  <2>2. CASE Sending(data, FALSE)
    BY <1>13, <1>14, <2>2 DEF Stages
  <2>3. CASE Sending(data, TRUE)
    BY <1>13, <1>14, <2>3 DEF Stages
  <2> QED
    BY <2>1, <2>2, <2>3
<1> QED
  BY <1>1, <1>2, <1>3, <1>4, <1>5, <1>6, <1>7, <1>8, <1>9, <1>10, <1>11, <1>12, <1>14
     DEF CopyOK, Transferring
-----------------------------------------------------------------------------
(* The steps of the window *)

BarType == bar \in [max : Nat, val : Nat]

LEMMA UserKept ==
  ASSUME UNCHANGED user
  PROVE  waiting' <=> waiting
  BY DEF user, waiting

\* The oldest event goes and the others move up.
LEMMA WindowQueue ==
  ASSUME NEW closing \in BOOLEAN, Dialog(closing), toWindow # <<>>, toWindow' = Tail(toWindow)
  PROVE  /\ toWindow' \in Seq(WindowEvents) /\ toWindow \in Seq(WindowEvents)
         /\ Len(toWindow) \in Nat \ {0} /\ Len(toWindow') = Len(toWindow) - 1
         /\ \A i \in 1..Len(toWindow') : toWindow'[i] = toWindow[i + 1]
         /\ Head(toWindow) = toWindow[1] /\ toWindow[1] \in WindowEvents
  BY HeadTailProperties DEF Dialog

LEMMA WindowGoesOn ==
  ASSUME BarType, NEW closing \in BOOLEAN, Dialog(closing), StartDlg \/ SetDialog
  PROVE  /\ Dialog(closing)' /\ BarType'
         /\ Measured => Measured'
         /\ Measured /\ disk.readable /\ RangeKnown(Len(toWindow)) => RangeKnown(Len(toWindow))'
         /\ Unmeasured => Unmeasured'
<1>1. toWindow # <<>> /\ toWindow' = Tail(toWindow) /\ UNCHANGED <<disk, source>>
  BY DEF StartDlg, SetDialog, Handles
<1> DEFINE first == toWindow[1]
<1>2. /\ toWindow' \in Seq(WindowEvents) /\ toWindow \in Seq(WindowEvents)
      /\ Len(toWindow) \in Nat \ {0} /\ Len(toWindow') = Len(toWindow) - 1
      /\ \A i \in 1..Len(toWindow') : toWindow'[i] = toWindow[i + 1]
      /\ Head(toWindow) = first /\ first \in WindowEvents
  BY <1>1, WindowQueue
<1>3. \/ /\ first.kind = "openDialog" /\ dialog # "shown"
         /\ dialog' = "shown" /\ bar' = [max |-> 0, val |-> 0]
      \/ /\ first.kind = "max" /\ dialog = "shown" /\ first.val \in Nat
         /\ dialog' = "shown" /\ bar' = [bar EXCEPT !.max = first.val]
      \/ /\ first.kind = "val" /\ dialog = "shown" /\ first.val \in Nat
         /\ dialog' = "shown" /\ bar' = [bar EXCEPT !.val = first.val]
      \/ first.kind = "seconds" /\ dialog = "shown" /\ dialog' = "shown" /\ bar' = bar
  <2>0. 1 \in 1..Len(toWindow)
    BY <1>2
  <2>1. first.kind = "openDialog" <=> dialog # "shown"
    BY <2>0, Zenon DEF Dialog
  <2>2. first.kind \in {"max", "val"} => first.val \in Nat
    BY <1>2 DEF WindowEvents
  <2>3. CASE StartDlg
    BY <1>2, <2>1, <2>3 DEF StartDlg, Handles
  <2>4. CASE SetDialog
    BY <1>2, <2>1, <2>2, <2>4 DEF SetDialog, Handles
  <2> QED
    BY <2>3, <2>4
<1>4. dialog' = "shown"
  BY <1>3
<1>5. Dialog(closing)'
  BY <1>2, <1>3, <1>4 DEF Dialog
<1>6. BarType'
  BY <1>3 DEF BarType
<1>7. ASSUME Measured, disk.readable, NEW n \in 1..Len(toWindow), RangeKnown(n)
      PROVE  RangeKnown(n - 1)'
  <2>1. CASE dialog = "shown" /\ bar.max = source.blockCount
    <3>1. first.kind = "max" => first.val = source.blockCount
      BY <1>2, <1>7 DEF Measured
    <3>2. bar'.max = source.blockCount
      BY <1>3, <2>1, <3>1 DEF BarType
    <3> QED
      BY <1>1, <1>4, <3>2 DEF RangeKnown
  <2>2. ASSUME NEW j \in 1..n, toWindow[j].kind = "max" PROVE RangeKnown(n - 1)'
    <3>1. CASE j = 1
      <4>1. first.kind = "max" /\ first.val = source.blockCount
        BY <1>2, <1>7, <2>2, <3>1 DEF Measured
      <4>2. bar'.max = source.blockCount
        BY <1>3, <4>1 DEF BarType
      <4> QED
        BY <1>1, <1>4, <4>2 DEF RangeKnown
    <3>2. CASE j # 1
      <4>1. j - 1 \in 1..(n - 1) /\ j - 1 \in 1..Len(toWindow')
        BY <1>2, <2>2, <3>2
      <4>2. toWindow'[j - 1].kind = "max"
        BY <1>2, <2>2, <4>1
      <4> QED
        BY <4>1, <4>2 DEF RangeKnown
    <3> QED
      BY <3>1, <3>2
  <2> QED
    BY <1>7, <2>1, <2>2 DEF RangeKnown
<1>8. ASSUME Measured PROVE Measured'
  <2>1. SUFFICES ASSUME disk.readable PROVE Measured'
    BY <1>1 DEF Measured
  <2>2. ASSUME NEW i \in 1..Len(toWindow')
        PROVE  /\ toWindow'[i].kind = "max" => toWindow'[i].val = source'.blockCount
               /\ toWindow'[i].kind = "val" =>
                    toWindow'[i].val <= source'.blockCount /\ RangeKnown(i - 1)'
    <3>1. i + 1 \in 1..Len(toWindow) /\ toWindow'[i] = toWindow[i + 1] /\ (i + 1) - 1 = i
      BY <1>2
    <3>2. CASE toWindow'[i].kind # "val"
      BY <1>1, <1>8, <2>1, <3>1, <3>2 DEF Measured
    <3>3. CASE toWindow'[i].kind = "val"
      <4>1. RangeKnown(i) /\ toWindow'[i].val <= source.blockCount
        BY <1>8, <2>1, <3>1, <3>3 DEF Measured
      <4>2. i \in 1..Len(toWindow)
        BY <1>2
      <4> QED
        BY <1>1, <1>7, <1>8, <2>1, <3>3, <4>1, <4>2
    <3> QED
      BY <3>2, <3>3
  <2>3. \/ bar'.val = 0
        \/ bar'.max = source.blockCount /\ bar'.val <= source.blockCount
    <3>1. /\ first.kind = "max" => first.val = source.blockCount
          /\ first.kind = "val" => first.val <= source.blockCount /\ RangeKnown(0)
      BY <1>2, <1>8, <2>1 DEF Measured
    <3>2. RangeKnown(0) => bar.max = source.blockCount
      BY DEF RangeKnown
    <3>3. dialog = "shown" => \/ bar.val = 0
                              \/ bar.max = source.blockCount /\ bar.val <= source.blockCount
      BY <1>8, <2>1 DEF Measured
    <3> QED
      BY <1>3, <3>1, <3>2, <3>3 DEF BarType
  <2> QED
    BY <1>1, <2>2, <2>3 DEF Measured
<1>9. ASSUME Unmeasured PROVE Unmeasured'
  <2>1. SUFFICES ASSUME disk.readable PROVE Unmeasured'
    BY <1>1 DEF Unmeasured
  <2>2. ASSUME NEW i \in 1..Len(toWindow') PROVE toWindow'[i].kind \notin {"max", "val"}
    <3>1. i + 1 \in 1..Len(toWindow) /\ toWindow'[i] = toWindow[i + 1]
      BY <1>2
    <3> QED
      BY <1>9, <2>1, <3>1 DEF Unmeasured
  <2>3. first.kind \notin {"max", "val"}
    BY <1>2, <1>9, <2>1 DEF Unmeasured
  <2>4. bar' = [max |-> 0, val |-> 0]
    BY <1>3, <1>9, <2>1, <2>3 DEF Unmeasured
  <2> QED
    BY <2>2, <2>4 DEF Unmeasured
<1>10. ASSUME Measured, disk.readable, RangeKnown(Len(toWindow)) PROVE RangeKnown(Len(toWindow))'
  <2>1. PICK n \in 1..Len(toWindow) : n = Len(toWindow) /\ n - 1 = Len(toWindow')
    BY <1>2
  <2>2. RangeKnown(n - 1)'
    BY <1>7, <1>10, <2>1
  <2> QED
    BY <2>1, <2>2 DEF RangeKnown
<1> QED
  BY <1>2, <1>5, <1>6, <1>8, <1>9, <1>10

\* What does not touch the queues between the two threads keeps the place.
LEMMA PlaceKept ==
  ASSUME Transferring,
         UNCHANGED <<disk, source, producer, consumer, dest, toConsumer, toProducer>>,
         disk.readable /\ RangeKnown(Len(toWindow)) => RangeKnown(Len(toWindow))'
  PROVE  Transferring'
<1>1. ASSUME NEW data PROVE Holds(data) => Holds(data)'
  BY DEF Holds
<1>2. (ToGo => ToGo') /\ (Through => Through')
  BY DEF ToGo, Through
<1>3. ASSUME NEW c, NEW p, NEW pr, NEW co PROVE At(c, p, pr, co) => At(c, p, pr, co)'
  BY DEF At
<1>4. Reading \/ Answered \/ ToHalt \/ Halted => Transferring'
  BY <1>1, <1>2, <1>3 DEF Transferring, Reading, Answered, ToHalt, Halted
<1>5. ASSUME NEW stage \in Stages, Measuring(stage) PROVE Transferring'
  BY <1>1, <1>2, <1>3, <1>5 DEF Transferring, Measuring
<1>6. ASSUME NEW data, Sending(data, FALSE) \/ Sending(data, TRUE) PROVE Transferring'
  <2>1. /\ Sending(data, FALSE) => Sending(data, FALSE)'
        /\ Sending(data, TRUE) => Sending(data, TRUE)'
    BY <1>1, <1>2, <1>3 DEF Sending
  <2> QED
    BY <1>6, <2>1 DEF Transferring
<1>7. ASSUME NEW data, Sent(data) \/ LastSent(data) \/ LastQueued(data) PROVE Transferring'
  <2>1. /\ Sent(data) => Sent(data)'
        /\ LastSent(data) => LastSent(data)'
        /\ LastQueued(data) => LastQueued(data)'
    BY <1>1, <1>2, <1>3 DEF Sent, LastSent, LastQueued
  <2> QED
    BY <1>7, <2>1 DEF Transferring
<1> QED
  BY <1>4, <1>5, <1>6, <1>7 DEF Transferring

LEMMA WindowStep ==
  ASSUME CopyOK, BarType, StartDlg \/ SetDialog
  PROVE  CopyOK' /\ BarType'
<1>1. /\ toWindow # <<>>
      /\ UNCHANGED <<disk, source, producer, consumer, dest, toConsumer, toProducer, user>>
      /\ waiting' <=> waiting
  BY UserKept DEF StartDlg, SetDialog, Handles
<1>2. ~NoDialog
  BY <1>1 DEF NoDialog
<1>3. CASE Beginning /\ (Opened \/ Ordered)
  <2>1. Dialog(FALSE)' /\ Unmeasured' /\ BarType'
    BY <1>3, WindowGoesOn DEF Beginning
  <2>2. Opened' \/ Ordered'
    BY <1>1, <1>3 DEF Opened, Ordered, Fresh, At
  <2> QED
    BY <1>1, <1>3, <2>1, <2>2 DEF CopyOK, Beginning
<1>4. CASE Running /\ Transferring
  <2>1. /\ Dialog(FALSE)' /\ Measured' /\ BarType'
        /\ disk.readable /\ RangeKnown(Len(toWindow)) => RangeKnown(Len(toWindow))'
    BY <1>4, WindowGoesOn DEF Running
  <2>2. Transferring'
    BY <1>1, <1>4, <2>1, PlaceKept
  <2> QED
    BY <1>1, <1>4, <2>1, <2>2 DEF CopyOK, Running
<1>5. CASE waiting /\ Quiet /\ Done /\ Dialog(TRUE) /\ Measured
  <2>1. Dialog(TRUE)' /\ Measured' /\ BarType'
    BY <1>5, WindowGoesOn
  <2>2. Quiet' /\ Done'
    BY <1>1, <1>5 DEF Quiet, At, Done
  <2> QED
    BY <1>1, <1>5, <2>1, <2>2 DEF CopyOK
<1> QED
  BY <1>2, <1>3, <1>4, <1>5 DEF CopyOK

LEMMA CloseStep ==
  ASSUME Patient, CloseDlg
  PROVE  waiting /\ CopyOK' /\ BarType'
<1>1. /\ toWindow # <<>> /\ toWindow' = Tail(toWindow) /\ Head(toWindow).kind = "closeDialog"
      /\ dialog' = "deleted" /\ over' = over + 1 /\ copies' = copies /\ bar' = bar
      /\ UNCHANGED <<disk, producer, consumer, dest, toConsumer, toProducer>>
  BY DEF CloseDlg, Handles
<1>2. ~NoDialog
  BY <1>1 DEF NoDialog
<1>3. ASSUME NEW closing \in BOOLEAN, Dialog(closing)
      PROVE  closing /\ toWindow' = <<>>
  <2>1. /\ Len(toWindow) \in Nat \ {0} /\ Head(toWindow) = toWindow[1]
        /\ toWindow' \in Seq(WindowEvents) /\ Len(toWindow') = Len(toWindow) - 1
    BY <1>1, <1>3, WindowQueue
  <2>2. 1 \in 1..Len(toWindow) /\ toWindow[1].kind = "closeDialog"
    BY <1>1, <2>1
  <2>3. closing
    BY <1>3, <2>2, Zenon DEF Dialog
  <2>4. toWindow' = <<>>
    <3>0. Len(toWindow) = 1
      BY <1>3, <2>2, Zenon DEF Dialog
    <3>1. Len(toWindow') = 1 - 1
      BY <2>1, <3>0, Zenon
    <3> QED
      BY <2>1, <3>1, EmptySeq
  <2> QED
    BY <2>3, <2>4, Zenon
<1>4. ~Dialog(FALSE)
  BY <1>3
<1>5. waiting /\ Quiet /\ Done /\ Dialog(TRUE) /\ Measured
  BY <1>2, <1>4 DEF Patient, CopyOK, Beginning, Running
<1>6. toWindow' = <<>>
  BY <1>3, <1>5
<1>7. Quiet' /\ Done' /\ NoDialog'
  BY <1>1, <1>5, <1>6 DEF Quiet, At, Done, NoDialog
<1>8. ~waiting'
  BY <1>1 DEF waiting, Patient, TypeOK
<1> QED
  BY <1>1, <1>5, <1>7, <1>8 DEF CopyOK, BarType, Patient
-----------------------------------------------------------------------------
(* The steps of the producer *)

\* Nothing the window has is touched.
WindowApart == UNCHANGED <<disk, dialog, bar, toWindow, user>>

LEMMA ApartKept ==
  ASSUME WindowApart, source'.blockCount = source.blockCount
  PROVE  /\ Running => Running'
         /\ \A n : RangeKnown(n) => RangeKnown(n)'
         /\ NoDialog => NoDialog'
         /\ Beginning => Beginning'
<1>1. waiting' <=> waiting
  BY UserKept DEF WindowApart
<1> QED
  BY <1>1 DEF WindowApart, Running, Beginning, Dialog, Measured, Unmeasured, RangeKnown, NoDialog

LEMMA Filling ==
  /\ <<>> \o <<>> = <<>> /\ Count(0) = <<>>
  /\ \A n \in Nat : Count(n) \in Seq(Nat) /\ Count(n) \o <<>> = Count(n)
<1>1. ASSUME NEW n \in Nat PROVE Count(n) \in Seq(Nat)
  BY DEF Count
<1>2. <<>> \in Seq(Nat)
  OBVIOUS
<1>3. <<>> \o <<>> = <<>> /\ \A n \in Nat : Count(n) \o <<>> = Count(n)
  BY <1>1, <1>2, ConcatEmptySeq
<1>4. Count(0) = <<>>
  BY SMT DEF Count
<1> QED
  BY <1>1, <1>3, <1>4

LEMMA TransferStep ==
  ASSUME Patient, Transfer
  PROVE  CopyOK' /\ BarType'
<1> USE CopyAssumption
<1>1. Beginning /\ Ordered
  BY Places DEF Transfer, Patient
<1>2. /\ WindowApart /\ UNCHANGED <<consumer, dest, toConsumer>>
      /\ toProducer' = <<>> /\ producer' = [Idle EXCEPT !.at = "frame"]
      /\ disk.readable => source' = [pos |-> 0, count |-> 0,
            numBlocks |-> disk.size \div BlockSize, fragment |-> disk.size % BlockSize,
            blockCount |-> disk.size \div BlockSize]
  BY <1>1, ShortQueues DEF Transfer, WindowApart, Ordered, At
<1>3. ToGo'
  <2>1. disk.size \in Nat
    BY DEF Patient, TypeOK
  <2>2. ASSUME disk.readable
        PROVE  /\ disk.size \div BlockSize \in Nat /\ disk.size % BlockSize \in Nat
               /\ 0 + ((disk.size \div BlockSize) * BlockSize) + (disk.size % BlockSize) = disk.size
               /\ 0 + (disk.size \div BlockSize) = disk.size \div BlockSize
    <3> DEFINE blocks == disk.size \div BlockSize
               rest == disk.size % BlockSize
    <3>1. blocks \in Nat /\ rest \in Nat /\ disk.size = (blocks * BlockSize) + rest
      BY <2>1, Division
    <3>2. blocks * BlockSize \in Nat
      BY <3>1
    <3> HIDE DEF blocks, rest
    <3>3. 0 + (blocks * BlockSize) + rest = disk.size /\ 0 + blocks = blocks
      BY <3>1, <3>2
    <3> QED
      BY <3>1, <3>3 DEF blocks, rest
  <2> QED
    BY <1>2, <2>2 DEF ToGo, WindowApart
<1>4. Holds(<<>>)'
  <2>1. <<>> \in Seq(Nat)
    OBVIOUS
  <2>2. disk.readable => source'.pos = 0
    BY <1>2
  <2>3. disk.readable /\ disk.writable => dest = [bytes |-> <<>>, open |-> TRUE]
    BY <1>1 DEF Ordered, Fresh
  <2>4. disk' = disk /\ dest' = dest
    BY <1>2 DEF WindowApart
  <2>5. ASSUME disk.readable, disk.writable
        PROVE  /\ dest'.bytes = <<>> /\ dest' = [bytes |-> dest'.bytes, open |-> TRUE]
               /\ dest'.bytes \o <<>> = Count(source'.pos)
    BY <2>2, <2>3, <2>4, <2>5, Filling
  <2> QED
    BY <2>1, <2>4, <2>5 DEF Holds
<1>5. Reading'
  BY <1>1, <1>2, <1>3, <1>4 DEF Reading, Ordered, At
<1>6. Running'
  <2>1. waiting' <=> waiting
    BY <1>2, UserKept DEF WindowApart
  <2> QED
    BY <1>1, <1>2, <2>1 DEF Beginning, Running, Dialog, Unmeasured, Measured, WindowApart
<1> QED
  BY <1>2, <1>5, <1>6 DEF CopyOK, Transferring, BarType, Patient, WindowApart

LEMMA BlockDoneStep ==
  ASSUME Patient, BlockDone
  PROVE  CopyOK' /\ BarType'
<1>1. Running /\ Answered
  BY Places DEF BlockDone, Patient
<1>2. /\ WindowApart /\ UNCHANGED <<source, consumer, dest, toConsumer>>
      /\ toProducer' = <<>> /\ producer' = [Idle EXCEPT !.at = "frame"]
  BY <1>1, ShortQueues DEF BlockDone, WindowApart, Answered, At
<1>3. Reading'
  BY <1>1, <1>2 DEF Reading, Answered, At, Holds, ToGo, WindowApart
<1>4. Running'
  BY <1>1, <1>2, ApartKept
<1> QED
  BY <1>2, <1>3, <1>4 DEF CopyOK, Transferring, BarType, Patient, WindowApart

\* A block that is all in the file goes on where the last one ended.
LEMMA NextBytes ==
  ASSUME Patient, Holds(<<>>), NEW n \in Nat,
         disk.readable => source.pos + n <= disk.size,
         UNCHANGED <<disk, dest>>, source'.pos = source.pos + n,
         NEW data, data = Bytes(n)
  PROVE  Holds(data)'
<1>1. SUFFICES ASSUME disk.readable, disk.writable
               PROVE  dest.bytes \o data = Count(source.pos + n)
  BY DEF Holds
<1>2. source.pos \in Nat /\ disk.size \in Nat
  BY CopyAssumption DEF Patient, TypeOK
<1>3. data = [i \in 1..n |-> source.pos + i]
  <2>1. ASSUME NEW i \in 1..n
        PROVE  source.pos + i <= disk.size /\ Data[source.pos + i] = source.pos + i
    BY <1>1, <1>2 DEF Data
  <2> QED
    BY <1>1, <2>1 DEF Bytes
<1>4. dest.bytes = Count(source.pos)
  BY <1>1, ConcatEmptySeq DEF Holds
<1> QED
  BY <1>2, <1>3, <1>4, Concatenation

LEMMA OneBlockLess ==
  ASSUME NEW n \in Nat \ {0}, NEW b \in Nat
  PROVE  (n - 1) * b \in Nat /\ n * b = ((n - 1) * b) + b
  BY SMT

LEMMA FrameDataStep ==
  ASSUME Patient, FrameData
  PROVE  CopyOK' /\ BarType'
<1> USE CopyAssumption
<1>1. Running /\ Reading
  BY Places DEF FrameData, Patient
<1>2. /\ WindowApart /\ UNCHANGED <<consumer, dest, toConsumer, toProducer>>
      /\ source'.blockCount = source.blockCount
  BY DEF FrameData, WindowApart, queues, Patient, TypeOK
<1>3. Running' /\ BarType'
  BY <1>1, <1>2, ApartKept DEF Patient, BarType, WindowApart
<1>4. /\ source.pos \in Nat /\ source.numBlocks \in Int /\ source.fragment \in Int
      /\ source.blockCount \in Nat /\ source.count \in Nat /\ disk.size \in Nat
  BY DEF Patient, TypeOK
<1>5. Holds(<<>>) /\ (disk.readable =>
        /\ source.numBlocks \in Nat /\ source.fragment \in Nat
        /\ source.pos + (source.numBlocks * BlockSize) + source.fragment = disk.size
        /\ source.count + source.numBlocks = source.blockCount)
  BY <1>1 DEF Reading, ToGo
<1>6. CASE source.numBlocks > 0
  <2>1. /\ source' = [source EXCEPT !.count = @ + 1, !.numBlocks = @ - 1, !.pos = @ + BlockSize]
        /\ producer' = [at |-> "send", data |-> Bytes(BlockSize), last |-> FALSE]
    BY <1>4, <1>6 DEF FrameData
  <2>2. /\ source'.pos = source.pos + BlockSize /\ source'.numBlocks = source.numBlocks - 1
        /\ source'.count = source.count + 1 /\ source'.fragment = source.fragment
    BY <2>1 DEF Patient, TypeOK
  <2>3. /\ (source.numBlocks - 1) * BlockSize \in Nat
        /\ source.numBlocks * BlockSize = ((source.numBlocks - 1) * BlockSize) + BlockSize
    BY <1>4, <1>6, OneBlockLess
  <2>4. disk.readable => source.pos + BlockSize <= disk.size
    <3> DEFINE more == (source.numBlocks - 1) * BlockSize
               all == source.numBlocks * BlockSize
    <3>1. more \in Nat /\ all = more + BlockSize
      BY <2>3
    <3>2. disk.readable => source.pos + all + source.fragment = disk.size
      BY <1>5
    <3>3. disk.readable => source.fragment \in Nat
      BY <1>5
    <3> HIDE DEF more, all
    <3> QED
      BY <1>4, <3>1, <3>2, <3>3
  <2>5. PICK data : data = Bytes(BlockSize)
    OBVIOUS
  <2>6. Holds(data)'
    BY <1>2, <1>5, <2>2, <2>4, <2>5, NextBytes DEF WindowApart
  <2>7. ToGo'
    <3>1. disk.readable =>
            /\ (source.pos + BlockSize) + ((source.numBlocks - 1) * BlockSize) + source.fragment
                 = disk.size
            /\ (source.count + 1) + (source.numBlocks - 1) = source.blockCount
      <4> DEFINE left == (source.numBlocks - 1) * BlockSize
      <4>1. left \in Nat /\ source.numBlocks * BlockSize = left + BlockSize
        BY <2>3
      <4> HIDE DEF left
      <4>2. disk.readable => (source.pos + BlockSize) + left + source.fragment = disk.size
        BY <1>4, <1>5, <4>1
      <4>3. disk.readable => (source.count + 1) + (source.numBlocks - 1) = source.blockCount
        <5>1. disk.readable => source.count + source.numBlocks = source.blockCount
          BY <1>5
        <5>2. (source.count + 1) + (source.numBlocks - 1) = source.count + source.numBlocks
          BY <1>4
        <5> QED
          BY <5>1, <5>2
      <4> QED
        BY <4>2, <4>3 DEF left
    <3>2. disk.readable => source.numBlocks - 1 \in Nat /\ source.fragment \in Nat
      BY <1>5, <1>6
    <3> QED
      BY <1>2, <2>2, <3>1, <3>2 DEF ToGo, WindowApart
  <2>8. Sending(data, FALSE)'
    BY <1>1, <1>2, <2>1, <2>5, <2>6, <2>7 DEF Sending, Reading, At
  <2> QED
    BY <1>3, <2>8 DEF CopyOK, Transferring
<1>7. CASE source.numBlocks <= 0 /\ source.fragment > 0
  <2>1. /\ source' = [source EXCEPT !.count = @ + 1, !.pos = @ + source.fragment]
        /\ producer' = [at |-> "send", data |-> Bytes(source.fragment), last |-> TRUE]
    BY <1>4, <1>7 DEF FrameData
  <2>2. source'.pos = source.pos + source.fragment
    BY <2>1 DEF Patient, TypeOK
  <2>3. disk.readable => source.pos + source.fragment = disk.size
    <3>1. disk.readable => source.numBlocks = 0 /\ 0 * BlockSize = 0
      BY <1>5, <1>7
    <3> QED
      BY <1>4, <1>5, <3>1
  <2>4. disk.readable => source.pos + source.fragment <= disk.size
    BY <1>4, <2>3
  <2>5. PICK data : data = Bytes(source.fragment)
    OBVIOUS
  <2>6. Holds(data)'
    <3>1. source.fragment \in Nat
      BY <1>4, <1>7
    <3> QED
      BY <1>2, <1>5, <2>2, <2>4, <2>5, <3>1, NextBytes DEF WindowApart
  <2>7. Through'
    BY <1>2, <2>2, <2>3 DEF Through, WindowApart
  <2>8. Sending(data, TRUE)'
    BY <1>1, <1>2, <2>1, <2>5, <2>6, <2>7 DEF Sending, Reading, At
  <2> QED
    BY <1>3, <2>8 DEF CopyOK, Transferring
<1>8. CASE source.numBlocks <= 0 /\ source.fragment <= 0
  <2>1. /\ source' = [source EXCEPT !.count = @ + 1]
        /\ producer' = [Idle EXCEPT !.at = "halt"]
    BY <1>4, <1>8 DEF FrameData
  <2>2. source'.pos = source.pos
    BY <2>1 DEF Patient, TypeOK
  <2>3. disk.readable => source.pos = disk.size
    <3>1. SUFFICES ASSUME disk.readable PROVE source.pos = disk.size
      OBVIOUS
    <3>2. source.numBlocks = 0 /\ source.fragment = 0
      BY <1>5, <1>8, <3>1
    <3>3. source.pos + (0 * BlockSize) + 0 = disk.size
      BY <1>5, <3>1, <3>2
    <3>4. 0 * BlockSize = 0
      OBVIOUS
    <3> QED
      BY <1>4, <3>3, <3>4
  <2>4. ToHalt'
    BY <1>1, <1>2, <1>5, <2>1, <2>2, <2>3 DEF ToHalt, Reading, At, Through, Holds, WindowApart
  <2> QED
    BY <1>3, <2>4 DEF CopyOK, Transferring
<1> QED
  BY <1>4, <1>6, <1>7, <1>8

LEMMA SendPacketStep ==
  ASSUME Patient, SendPacket
  PROVE  CopyOK' /\ BarType'
<1>1. PICK last \in BOOLEAN : Running /\ Sending(producer.data, last) /\ producer.last = last
  BY Places DEF SendPacket, Patient
<1>2. PICK data : data = producer.data
  OBVIOUS
<1>3. /\ WindowApart /\ UNCHANGED <<source, consumer, dest, toProducer>>
      /\ toConsumer = <<>> /\ toProducer = <<>> /\ consumer = "idle"
      /\ producer' = IF last THEN [Idle EXCEPT !.at = "halt"] ELSE Idle
      /\ toConsumer' = Append(toConsumer, Frame(data, last))
  BY <1>1, <1>2 DEF SendPacket, WindowApart, Sending, At, Frame
<1>4. toConsumer' = <<Frame(data, last)>>
  BY <1>3, ShortQueues
<1>5. Running' /\ BarType'
  BY <1>1, <1>3, ApartKept DEF Patient, BarType, WindowApart
<1>6. Holds(data)'
  BY <1>1, <1>2, <1>3 DEF Sending, Holds, WindowApart
<1>7. CASE last
  <2>1. last = TRUE
    BY <1>7
  <2>2. Through'
    BY <1>1, <1>3, <1>7 DEF Sending, Through, WindowApart
  <2>3. LastSent(data)'
    BY <1>3, <1>4, <1>6, <2>1, <2>2 DEF LastSent, At
  <2> QED
    BY <1>5, <2>3 DEF CopyOK, Transferring
<1>8. CASE ~last
  <2>1. last = FALSE
    BY <1>8
  <2>2. ToGo'
    BY <1>1, <1>3, <1>8 DEF Sending, ToGo, WindowApart
  <2>3. Sent(data)'
    BY <1>3, <1>4, <1>6, <2>1, <2>2 DEF Sent, At
  <2> QED
    BY <1>5, <2>3 DEF CopyOK, Transferring
<1> QED
  BY <1>7, <1>8

LEMMA HaltStep ==
  ASSUME Patient, Halt
  PROVE  CopyOK' /\ BarType'
<1>1. Running /\ (ToHalt \/ \E data : LastSent(data))
  BY Places DEF Halt, Patient
<1>2. /\ WindowApart /\ UNCHANGED <<source, consumer, dest, toProducer>>
      /\ toConsumer' = Append(toConsumer, Event("halt")) /\ producer' = Idle
  BY DEF Halt, WindowApart
<1>3. Running' /\ BarType'
  BY <1>1, <1>2, ApartKept DEF Patient, BarType, WindowApart
<1>4. Through => Through'
  BY <1>2 DEF Through, WindowApart
<1>5. CASE ToHalt
  <2>1. toConsumer' = <<Event("halt")>>
    BY <1>2, <1>5, ShortQueues DEF ToHalt, At
  <2>2. Halted'
    BY <1>2, <1>4, <1>5, <2>1 DEF ToHalt, Halted, At, Holds, WindowApart
  <2> QED
    BY <1>3, <2>2 DEF CopyOK, Transferring
<1>6. ASSUME NEW data, LastSent(data) PROVE CopyOK'
  <2>1. toConsumer' = <<Frame(data, TRUE), Event("halt")>>
    BY <1>2, <1>6, ShortQueues DEF LastSent, At
  <2>2. LastQueued(data)'
    BY <1>2, <1>4, <1>6, <2>1 DEF LastSent, LastQueued, At, Holds, WindowApart
  <2> QED
    BY <1>3, <2>2 DEF CopyOK, Transferring
<1> QED
  BY <1>1, <1>3, <1>5, <1>6
-----------------------------------------------------------------------------
(* The steps of the consumer and of the user *)

\* One more event is posted to the window.
LEMMA Posting ==
  ASSUME NEW e \in WindowEvents, toWindow \in Seq(WindowEvents), toWindow' = Append(toWindow, e)
  PROVE  /\ toWindow' \in Seq(WindowEvents) /\ toWindow' # <<>>
         /\ Len(toWindow) \in Nat /\ Len(toWindow') = Len(toWindow) + 1
         /\ \A i \in 1..Len(toWindow) : toWindow'[i] = toWindow[i]
         /\ toWindow'[Len(toWindow) + 1] = e
<1>1. /\ toWindow' \in Seq(WindowEvents) /\ Len(toWindow) \in Nat
      /\ Len(toWindow') = Len(toWindow) + 1
      /\ \A i \in 1..Len(toWindow) : toWindow'[i] = toWindow[i]
      /\ toWindow'[Len(toWindow) + 1] = e
  BY AppendProperties, LenProperties
<1>2. toWindow' # <<>>
  BY <1>1, EmptySeq
<1> QED
  BY <1>1, <1>2

LEMMA PostedInDialog ==
  ASSUME NEW e \in WindowEvents, e.kind \in {"max", "val", "seconds", "closeDialog"},
         Dialog(FALSE), toWindow' = Append(toWindow, e), dialog' = dialog
  PROVE  /\ e.kind # "closeDialog" => Dialog(FALSE)'
         /\ e.kind = "closeDialog" => Dialog(TRUE)'
<1>1. /\ toWindow' \in Seq(WindowEvents) /\ toWindow' # <<>>
      /\ Len(toWindow) \in Nat /\ Len(toWindow') = Len(toWindow) + 1
      /\ \A i \in 1..Len(toWindow) : toWindow'[i] = toWindow[i]
      /\ toWindow'[Len(toWindow) + 1] = e
  BY Posting DEF Dialog
<1>2. ASSUME NEW i \in 1..Len(toWindow')
      PROVE  /\ toWindow'[i].kind = "openDialog" <=> i = 1 /\ dialog # "shown"
             /\ toWindow'[i].kind = "closeDialog" <=> i = Len(toWindow') /\ e.kind = "closeDialog"
  <2>1. CASE i \in 1..Len(toWindow)
    <3>1. /\ toWindow[i].kind = "openDialog" <=> i = 1 /\ dialog # "shown"
          /\ toWindow[i].kind # "closeDialog" /\ toWindow'[i] = toWindow[i]
      BY <1>1, <2>1, Zenon DEF Dialog
    <3>2. i # Len(toWindow')
      BY <1>1, <2>1
    <3> QED
      BY <3>1, <3>2
  <2>2. CASE i = Len(toWindow) + 1
    <3>1. i = 1 => dialog = "shown"
      <4>1. i = 1 => Len(toWindow) = 0
        BY <1>1, <2>2
      <4>2. Len(toWindow) = 0 => toWindow = <<>>
        BY EmptySeq DEF Dialog
      <4> QED
        BY <4>1, <4>2 DEF Dialog
    <3> QED
      BY <1>1, <2>2, <3>1
  <2> QED
    BY <1>1, <2>1, <2>2
<1>3. CASE e.kind # "closeDialog"
  BY <1>1, <1>2, <1>3 DEF Dialog
<1>4. CASE e.kind = "closeDialog"
  BY <1>1, <1>2, <1>4 DEF Dialog
<1> QED
  BY <1>3, <1>4

\* An event that comes last keeps what is measured, if it is right itself.
LEMMA PostedMeasured ==
  ASSUME NEW e \in WindowEvents, toWindow \in Seq(WindowEvents),
         toWindow' = Append(toWindow, e), UNCHANGED <<disk, source, dialog, bar>>
  PROVE  /\ \A n \in 0..Len(toWindow) : RangeKnown(n) => RangeKnown(n)'
         /\ e.kind = "max" => RangeKnown(Len(toWindow))'
         /\ /\ Measured
            /\ disk.readable =>
                 /\ e.kind = "max" => e.val = source.blockCount
                 /\ e.kind = "val" => e.val <= source.blockCount /\ RangeKnown(Len(toWindow))
            => Measured'
<1>1. /\ Len(toWindow) \in Nat /\ Len(toWindow') = Len(toWindow) + 1
      /\ \A i \in 1..Len(toWindow) : toWindow'[i] = toWindow[i]
      /\ toWindow'[Len(toWindow) + 1] = e
  BY Posting
<1>2. ASSUME NEW n \in 0..Len(toWindow), RangeKnown(n) PROVE RangeKnown(n)'
  <2>1. \A j \in 1..n : toWindow'[j] = toWindow[j]
    BY <1>1
  <2> QED
    BY <1>2, <2>1 DEF RangeKnown
<1>3. ASSUME e.kind = "max" PROVE RangeKnown(Len(toWindow))'
  <2>1. Len(toWindow') \in 1..Len(toWindow') /\ toWindow'[Len(toWindow')].kind = "max"
    BY <1>1, <1>3
  <2> QED
    BY <2>1 DEF RangeKnown
<1>4. ASSUME Measured, disk.readable,
             e.kind = "max" => e.val = source.blockCount,
             e.kind = "val" => e.val <= source.blockCount /\ RangeKnown(Len(toWindow))
      PROVE  Measured'
  <2>1. ASSUME NEW i \in 1..Len(toWindow')
        PROVE  /\ toWindow'[i].kind = "max" => toWindow'[i].val = source.blockCount
               /\ toWindow'[i].kind = "val" =>
                    toWindow'[i].val <= source.blockCount /\ RangeKnown(i - 1)'
    <3>1. CASE i \in 1..Len(toWindow)
      <4>1. toWindow'[i] = toWindow[i] /\ i - 1 \in 0..Len(toWindow)
        BY <1>1, <3>1
      <4>2. /\ toWindow[i].kind = "max" => toWindow[i].val = source.blockCount
            /\ toWindow[i].kind = "val" =>
                 toWindow[i].val <= source.blockCount /\ RangeKnown(i - 1)
        BY <1>4, <3>1 DEF Measured
      <4> QED
        BY <1>2, <4>1, <4>2
    <3>2. CASE i = Len(toWindow) + 1
      <4>1. PICK n \in 0..Len(toWindow) : n = Len(toWindow) /\ n = i - 1
        BY <1>1, <3>2
      <4>2. e.kind = "val" => RangeKnown(n)'
        BY <1>2, <1>4, <4>1
      <4> QED
        BY <1>1, <1>4, <3>2, <4>1, <4>2
    <3> QED
      BY <1>1, <3>1, <3>2
  <2>2. dialog' = "shown" => \/ bar'.val = 0
                             \/ bar'.max = source.blockCount /\ bar'.val <= source.blockCount
    BY <1>4 DEF Measured
  <2> QED
    BY <2>1, <2>2 DEF Measured
<1>5. ~disk.readable => Measured'
  BY DEF Measured
<1> QED
  BY <1>2, <1>3, <1>4, <1>5

LEMMA ClickStep ==
  ASSUME Patient, Click, ~waiting
  PROVE  CopyOK' /\ BarType'
<1>1. /\ toConsumer' = Append(toConsumer, Event("begin")) /\ copies' = copies + 1 /\ over' = over
      /\ UNCHANGED <<producer, consumer, dialog, bar, toWindow, toProducer>>
  BY DEF Click
<1>2. waiting'
  BY <1>1 DEF waiting, Patient, TypeOK
<1>3. Quiet /\ NoDialog
  BY DEF Patient, CopyOK, Beginning, Running
<1>4. Asked' /\ NoDialog'
  BY <1>1, <1>3, ShortQueues DEF Quiet, Asked, At, NoDialog
<1> QED
  BY <1>1, <1>2, <1>4 DEF CopyOK, Patient, BarType

LEMMA StartReceivingStep ==
  ASSUME Patient, StartReceiving
  PROVE  CopyOK' /\ BarType'
<1>1. waiting /\ Asked /\ NoDialog
  BY Places DEF StartReceiving, Patient
<1> DEFINE opened == [bytes |-> <<>>, open |-> TRUE]
<1>2. /\ UNCHANGED <<disk, source, producer, dialog, bar, toProducer, user>>
      /\ toConsumer' = <<>> /\ consumer' = "initiate"
      /\ disk.writable => dest' = opened
      /\ toWindow' = <<Event("openDialog")>> /\ waiting'
  BY <1>1, ShortQueues, UserKept DEF StartReceiving, Asked, At, NoDialog
<1>3. Opened'
  BY <1>1, <1>2 DEF Opened, Fresh, Asked, At
<1>4. /\ toWindow' \in Seq(WindowEvents) /\ Len(toWindow') = 1 /\ toWindow' # <<>>
      /\ toWindow'[1].kind = "openDialog"
  BY <1>2 DEF Event, WindowEvents
<1>5. Dialog(FALSE)'
  BY <1>1, <1>2, <1>4 DEF Dialog, NoDialog
<1>6. Unmeasured'
  BY <1>1, <1>2, <1>4 DEF Unmeasured, NoDialog
<1> QED
  BY <1>1, <1>2, <1>3, <1>5, <1>6 DEF CopyOK, Beginning, Patient, BarType

LEMMA InitiateStep ==
  ASSUME Patient, Initiate
  PROVE  CopyOK' /\ BarType'
<1>1. Beginning /\ Opened
  BY Places DEF Initiate, Patient
<1>2. /\ WindowApart /\ UNCHANGED <<source, producer, dest, toConsumer>>
      /\ toProducer' = <<Event("produce")>> /\ consumer' = "idle"
  BY <1>1, ShortQueues DEF Initiate, WindowApart, Opened, At
<1>3. Ordered'
  BY <1>1, <1>2 DEF Ordered, Opened, Fresh, At, WindowApart
<1>4. Beginning'
  BY <1>1, <1>2, ApartKept
<1> QED
  BY <1>2, <1>3, <1>4 DEF CopyOK, Patient, BarType, WindowApart

LEMMA StopReceivingStep ==
  ASSUME Patient, StopReceiving
  PROVE  CopyOK' /\ BarType'
<1>1. Running /\ Halted
  BY Places DEF StopReceiving, Patient
<1>2. /\ UNCHANGED <<disk, source, producer, consumer, dialog, bar, toProducer, user>>
      /\ toConsumer' = <<>> /\ dest' = [dest EXCEPT !.open = FALSE]
      /\ toWindow' = Append(toWindow, Event("closeDialog")) /\ (waiting' <=> waiting)
  BY <1>1, ShortQueues, UserKept DEF StopReceiving, Halted, At
<1>3. Event("closeDialog") \in WindowEvents /\ Event("closeDialog").kind = "closeDialog"
  BY DEF Event, WindowEvents
<1>4. Dialog(TRUE)'
  BY <1>1, <1>2, <1>3, PostedInDialog DEF Running
<1>5. Measured'
  BY <1>1, <1>2, <1>3, PostedMeasured DEF Running, Dialog
<1>6. Quiet'
  BY <1>1, <1>2 DEF Quiet, Halted, At
<1>7. Done'
  <2>1. SUFFICES ASSUME disk.readable, disk.writable
                 PROVE  dest' = [bytes |-> Count(disk.size), open |-> FALSE]
    BY <1>2 DEF Done
  <2>2. dest.bytes = Count(disk.size)
    BY <1>1, <2>1, ConcatEmptySeq DEF Halted, Holds, Through
  <2>3. dest = [bytes |-> dest.bytes, open |-> TRUE]
    BY <1>1, <2>1 DEF Halted, Holds
  <2> QED
    BY <1>2, <2>2, <2>3
<1> QED
  BY <1>1, <1>2, <1>4, <1>5, <1>6, <1>7 DEF CopyOK, Running, Patient, BarType

\* What was on its way is written.
LEMMA Written ==
  ASSUME Patient, NEW data, Holds(data), UNCHANGED <<disk, source>>,
         dest' = IF dest.open THEN [dest EXCEPT !.bytes = @ \o data] ELSE dest
  PROVE  Holds(<<>>)'
<1>1. SUFFICES ASSUME disk.readable, disk.writable
               PROVE  /\ dest' = [bytes |-> dest'.bytes, open |-> TRUE]
                      /\ dest'.bytes \in Seq(Nat)
                      /\ dest'.bytes \o <<>> = Count(source.pos)
  BY DEF Holds
<1>2. dest = [bytes |-> dest.bytes, open |-> TRUE] /\ dest.bytes \o data = Count(source.pos)
  BY <1>1 DEF Holds
<1>3. PICK bytes : dest = [bytes |-> bytes, open |-> TRUE] /\ bytes \o data = Count(source.pos)
  BY <1>2
<1>4. dest.open = TRUE /\ dest.bytes = bytes
  BY <1>3
<1>5. dest' = [bytes |-> bytes \o data, open |-> TRUE]
  BY <1>3, <1>4
<1>6. PICK whole : whole = bytes \o data
  OBVIOUS
<1>7. dest' = [bytes |-> whole, open |-> TRUE]
  BY <1>5, <1>6
<1>8. source.pos \in Nat
  BY DEF Patient, TypeOK
<1>9. whole \in Seq(Nat) /\ whole \o <<>> = whole /\ whole = Count(source.pos)
  BY <1>3, <1>6, <1>8, Filling
<1>10. dest'.bytes = whole
  BY <1>7
<1> QED
  BY <1>7, <1>9, <1>10, Zenon

LEMMA ReceiveFrameStep ==
  ASSUME Patient, ReceiveFrame
  PROVE  CopyOK' /\ BarType'
<1>1. Running /\ \E data : Sent(data) \/ LastSent(data) \/ LastQueued(data)
  BY Places DEF ReceiveFrame, Patient
<1>2. WindowApart /\ UNCHANGED <<source, producer, toProducer>> /\ toConsumer' = Tail(toConsumer)
  BY DEF ReceiveFrame, WindowApart
<1>3. Running' /\ BarType'
  BY <1>1, <1>2, ApartKept DEF Patient, BarType, WindowApart
<1>4. (ToGo => ToGo') /\ (Through => Through')
  BY <1>2 DEF ToGo, Through, WindowApart
<1>5. ASSUME NEW data, NEW last \in BOOLEAN, Head(toConsumer) = Frame(data, last), Holds(data)
      PROVE  Holds(<<>>)' /\ consumer' = (IF last THEN "idle" ELSE "max")
  <2>1. Head(toConsumer).data = data /\ Head(toConsumer).last = last
    BY <1>5 DEF Frame
  <2>2. /\ dest' = IF dest.open THEN [dest EXCEPT !.bytes = @ \o data] ELSE dest
        /\ consumer' = IF last THEN "idle" ELSE "max"
    BY <2>1 DEF ReceiveFrame
  <2> QED
    BY <1>2, <1>5, <2>2, Written DEF WindowApart
<1>6. ASSUME NEW data, Sent(data) PROVE CopyOK'
  <2>1. /\ Head(toConsumer) = Frame(data, FALSE) /\ toConsumer' = <<>>
        /\ toProducer = <<>> /\ producer = Idle /\ Holds(data)
    BY <1>2, <1>6, ShortQueues DEF Sent, At
  <2>2. Measuring("max")'
    BY <1>2, <1>4, <1>5, <1>6, <2>1 DEF Measuring, Sent, At
  <2> QED
    BY <1>3, <2>2 DEF CopyOK, Transferring, Stages
<1>7. ASSUME NEW data, LastSent(data) PROVE CopyOK'
  <2>1. /\ Head(toConsumer) = Frame(data, TRUE) /\ toConsumer' = <<>>
        /\ toProducer = <<>> /\ producer = [Idle EXCEPT !.at = "halt"] /\ Holds(data)
    BY <1>2, <1>7, ShortQueues DEF LastSent, At
  <2>2. ToHalt'
    BY <1>2, <1>4, <1>5, <1>7, <2>1 DEF ToHalt, LastSent, At
  <2> QED
    BY <1>3, <2>2 DEF CopyOK, Transferring
<1>8. ASSUME NEW data, LastQueued(data) PROVE CopyOK'
  <2>1. /\ Head(toConsumer) = Frame(data, TRUE) /\ toConsumer' = <<Event("halt")>>
        /\ toProducer = <<>> /\ producer = Idle /\ Holds(data)
    BY <1>2, <1>8, ShortQueues DEF LastQueued, At
  <2>2. Halted'
    BY <1>2, <1>4, <1>5, <1>8, <2>1 DEF Halted, LastQueued, At
  <2> QED
    BY <1>3, <2>2 DEF CopyOK, Transferring
<1> QED
  BY <1>1, <1>3, <1>6, <1>7, <1>8

LEMMA MeasurementStep ==
  ASSUME Patient, Measurement
  PROVE  CopyOK' /\ BarType'
<1>1. Running /\ Measuring(consumer)
  BY Places DEF Measurement, Patient, Stages
<1>2. /\ UNCHANGED <<disk, source, producer, dest, dialog, bar, toConsumer, toProducer, user>>
      /\ waiting' <=> waiting
  BY UserKept DEF Measurement
<1>3. toWindow \in Seq(WindowEvents) /\ Dialog(FALSE) /\ Measured
  BY <1>1 DEF Running, Dialog
<1>4. /\ source.blockCount \in Nat /\ source.count \in Nat
      /\ disk.readable => source.count <= source.blockCount
  <2>1. source.blockCount \in Nat /\ source.count \in Nat
    BY DEF Patient, TypeOK
  <2>2. disk.readable => source.numBlocks \in Nat /\ source.count + source.numBlocks = source.blockCount
    BY <1>1 DEF Measuring, ToGo
  <2> QED
    BY <2>1, <2>2
<1>5. Holds(<<>>)' /\ ToGo'
  BY <1>1, <1>2 DEF Measuring, Holds, ToGo
<1>6. ASSUME NEW e \in WindowEvents, e.kind \in {"max", "val", "seconds"},
             toWindow' = Append(toWindow, e),
             disk.readable =>
               /\ e.kind = "max" => e.val = source.blockCount
               /\ e.kind = "val" => e.val <= source.blockCount /\ RangeKnown(Len(toWindow)),
             NEW stage \in Stages, consumer' = stage, stage = "val" => e.kind = "max"
      PROVE  CopyOK' /\ BarType'
  <2>1. Dialog(FALSE)' /\ BarType'
    BY <1>2, <1>3, <1>6, PostedInDialog DEF Patient, BarType
  <2>2. Measured' /\ (e.kind = "max" => RangeKnown(Len(toWindow))')
    BY <1>2, <1>3, <1>6, PostedMeasured
  <2>3. Measuring(stage)'
    BY <1>1, <1>2, <1>5, <1>6, <2>2 DEF Measuring, At
  <2>4. Running'
    BY <1>1, <1>2, <2>1, <2>2 DEF Running
  <2> QED
    BY <2>1, <2>3, <2>4 DEF CopyOK, Transferring
<1>7. CASE consumer = "max"
  <2> DEFINE e == [kind |-> "max", val |-> source.blockCount]
  <2>1. toWindow' = Append(toWindow, e) /\ consumer' = "val"
    BY <1>7 DEF Measurement
  <2>2. e \in WindowEvents /\ e.kind = "max" /\ e.val = source.blockCount
    BY <1>4 DEF WindowEvents
  <2> HIDE DEF e
  <2> QED
    BY <1>6, <2>1, <2>2 DEF Stages
<1>8. CASE consumer = "val"
  <2> DEFINE e == [kind |-> "val", val |-> source.count]
  <2>1. toWindow' = Append(toWindow, e) /\ consumer' = "seconds"
    BY <1>8 DEF Measurement
  <2>2. e \in WindowEvents /\ e.kind = "val" /\ e.val = source.count
    BY <1>4 DEF WindowEvents
  <2>3. disk.readable => RangeKnown(Len(toWindow))
    BY <1>1, <1>8 DEF Measuring
  <2> HIDE DEF e
  <2> QED
    BY <1>4, <1>6, <2>1, <2>2, <2>3 DEF Stages
<1>9. CASE consumer = "seconds"
  <2> DEFINE e == [kind |-> "seconds"]
  <2>1. toWindow' = Append(toWindow, e) /\ consumer' = "done"
    BY <1>9 DEF Measurement
  <2>2. e \in WindowEvents /\ e.kind = "seconds"
    BY DEF WindowEvents
  <2> HIDE DEF e
  <2> QED
    BY <1>6, <2>1, <2>2 DEF Stages
<1> QED
  BY <1>7, <1>8, <1>9 DEF Measurement

LEMMA EmitBlockDoneStep ==
  ASSUME Patient, EmitBlockDone
  PROVE  CopyOK' /\ BarType'
<1>1. Running /\ Measuring("done")
  BY Places DEF EmitBlockDone, Patient, Stages
<1>2. /\ WindowApart /\ UNCHANGED <<source, producer, dest, toConsumer>>
      /\ toProducer' = <<Event("blockDone")>> /\ consumer' = "idle"
  BY <1>1, ShortQueues DEF EmitBlockDone, WindowApart, Measuring, At
<1>3. Answered'
  BY <1>1, <1>2 DEF Answered, Measuring, At, Holds, ToGo, WindowApart
<1>4. Running'
  BY <1>1, <1>2, ApartKept
<1> QED
  BY <1>2, <1>3, <1>4 DEF CopyOK, Transferring, BarType, Patient, WindowApart
-----------------------------------------------------------------------------
(* The invariant *)

LEMMA TypeStep ==
  ASSUME TypeOK, Next
  PROVE  TypeOK'
<1> USE CopyAssumption
<1>1. Click => TypeOK'
  BY DEF TypeOK, Click
<1>2. StartDlg => TypeOK'
  BY DEF TypeOK, user, StartDlg
<1>3. SetDialog => TypeOK'
  BY DEF TypeOK, user, SetDialog
<1>4. CloseDlg \/ Crash => TypeOK'
  BY DEF TypeOK, CloseDlg, Crash, queues, user
<1>5. ASSUME Transfer PROVE TypeOK'
  <2>1. disk.size \in Nat
    BY DEF TypeOK
  <2>2. disk.size \div BlockSize \in Nat /\ disk.size % BlockSize \in Nat
    BY <2>1, Division
  <2>3. source' \in [pos : Nat, numBlocks : Int, fragment : Int, blockCount : Nat, count : Nat]
    <3>1. /\ source.pos \in Nat /\ source.numBlocks \in Int /\ source.fragment \in Int
          /\ disk.size \div BlockSize \in Int /\ disk.size % BlockSize \in Int
      BY <2>2 DEF TypeOK
    <3>2. /\ disk.readable => source' =
               [pos |-> 0, count |-> 0, numBlocks |-> disk.size \div BlockSize,
                fragment |-> disk.size % BlockSize, blockCount |-> disk.size \div BlockSize]
          /\ ~disk.readable => source' = [source EXCEPT !.count = 0, !.blockCount = 0]
      BY <1>5 DEF Transfer
    <3>3. CASE disk.readable
      BY <2>2, <3>1, <3>2, <3>3
    <3>4. CASE ~disk.readable
      <4>1. source' = [source EXCEPT !.count = 0, !.blockCount = 0] /\ 0 \in Nat
        BY <3>2, <3>4
      <4>2. source \in [pos : Nat, numBlocks : Int, fragment : Int, blockCount : Nat, count : Nat]
        BY DEF TypeOK
      <4> HIDE CopyAssumption
      <4> QED
        BY <4>1, <4>2
    <3> QED
      BY <3>3, <3>4
  <2> QED
    BY <1>5, <2>3 DEF TypeOK, user, Transfer, Idle
<1>6. BlockDone => TypeOK'
  BY DEF TypeOK, user, BlockDone, Idle
<1>7. ASSUME FrameData PROVE TypeOK'
  <2>1. source' \in [pos : Nat, numBlocks : Int, fragment : Int, blockCount : Nat, count : Nat]
    <3>1. /\ source \in [pos : Nat, numBlocks : Int, fragment : Int, blockCount : Nat, count : Nat]
          /\ source.pos \in Nat /\ source.numBlocks \in Int
          /\ source.fragment \in Int /\ source.count \in Nat
      BY DEF TypeOK
    <3>2. /\ source.pos + BlockSize \in Nat
          /\ source.fragment > 0 => source.pos + source.fragment \in Nat
          /\ source.count + 1 \in Nat /\ source.numBlocks - 1 \in Int
      BY <3>1
    <3> HIDE CopyAssumption
    <3>3. \/ source' = [source EXCEPT !.count = @ + 1, !.numBlocks = @ - 1, !.pos = @ + BlockSize]
          \/ /\ source.pos + source.fragment \in Nat
             /\ source' = [source EXCEPT !.count = @ + 1, !.pos = @ + source.fragment]
          \/ source' = [source EXCEPT !.count = @ + 1]
      BY <1>7, <3>2, Zenon DEF FrameData
    <3> QED
      BY <3>1, <3>2, <3>3
  <2>2. producer'.at \in {"idle", "frame", "send", "halt"}
    BY <1>7 DEF FrameData, Idle
  <2> QED
    BY <1>7, <2>1, <2>2 DEF TypeOK, user, FrameData, queues
<1>8. SendPacket => TypeOK'
  BY DEF TypeOK, user, SendPacket, Idle
<1>9. Halt => TypeOK'
  BY DEF TypeOK, user, Halt, Idle
<1>10. StartReceiving \/ Initiate \/ StopReceiving \/ EmitBlockDone => TypeOK'
  BY DEF TypeOK, user, StartReceiving, Initiate, StopReceiving, EmitBlockDone
<1>11. ReceiveFrame => TypeOK'
  BY DEF TypeOK, user, ReceiveFrame
<1>12. Measurement => TypeOK'
  BY DEF TypeOK, user, Measurement
<1> QED
  BY <1>1, <1>2, <1>3, <1>4, <1>5, <1>6, <1>7, <1>8, <1>9, <1>10, <1>11, <1>12
     DEF Next, Window, Producer, Consumer

\* All but the window only add to its events.
LEMMA WindowMoves ==
  ASSUME TypeOK, Click \/ Producer \/ Consumer
  PROVE  /\ UNCHANGED <<disk, dialog, bar>>
         /\ \/ toWindow' = toWindow
            \/ \E e \in WindowEvents :
                 /\ toWindow' = Append(toWindow, e)
                 /\ e.kind = "max" => e.val = source.blockCount
         /\ ~disk.readable /\ source.blockCount = 0 => source'.blockCount = 0
<1>1. CASE Click \/ BlockDone \/ SendPacket \/ Halt \/ Initiate \/ ReceiveFrame \/ EmitBlockDone
  BY <1>1 DEF Click, BlockDone, SendPacket, Halt, Initiate, ReceiveFrame, EmitBlockDone
<1>2. CASE Transfer
  BY <1>2 DEF Transfer, TypeOK
<1>3. CASE FrameData
  BY <1>3 DEF FrameData, TypeOK, queues
<1>4. CASE StartReceiving \/ StopReceiving
  <2>1. /\ Event("openDialog") \in WindowEvents /\ Event("openDialog").kind # "max"
        /\ Event("closeDialog") \in WindowEvents /\ Event("closeDialog").kind # "max"
    BY DEF Event, WindowEvents
  <2> QED
    BY <1>4, <2>1 DEF StartReceiving, StopReceiving
<1>5. CASE Measurement
  <2>1. source.blockCount \in Nat /\ source.count \in Nat
    BY DEF TypeOK
  <2> DEFINE limit == [kind |-> "max", val |-> source.blockCount]
             value == [kind |-> "val", val |-> source.count]
             label == [kind |-> "seconds"]
  <2>2. /\ limit \in WindowEvents /\ limit.val = source.blockCount
        /\ value \in WindowEvents /\ value.kind # "max"
        /\ label \in WindowEvents /\ label.kind # "max"
    BY <2>1 DEF WindowEvents
  <2>3. \E e \in {limit, value, label} : toWindow' = Append(toWindow, e)
    BY <1>5 DEF Measurement
  <2>4. UNCHANGED <<disk, dialog, bar, source>>
    BY <1>5 DEF Measurement
  <2> HIDE DEF limit, value, label
  <2> QED
    BY <2>2, <2>3, <2>4
<1> QED
  BY <1>1, <1>2, <1>3, <1>4, <1>5 DEF Producer, Consumer

\* The window takes one event, and has a dialog from the first one on.
LEMMA WindowTakes ==
  ASSUME Always, Window
  PROVE  /\ BarType' /\ toWindow' \in Seq(WindowEvents)
         /\ dialog' # "unset" /\ NoRange'
<1>1. toWindow # <<>> /\ UNCHANGED <<disk, source>>
  BY DEF Window, StartDlg, SetDialog, CloseDlg, Crash, Handles
<1>2. /\ Len(toWindow) \in Nat \ {0} /\ Head(toWindow) = toWindow[1]
      /\ toWindow[1] \in WindowEvents /\ Tail(toWindow) \in Seq(WindowEvents)
      /\ Len(Tail(toWindow)) = Len(toWindow) - 1
      /\ \A i \in 1..Len(Tail(toWindow)) : Tail(toWindow)[i] = toWindow[i + 1]
  BY <1>1, HeadTailProperties DEF Always
<1>3. \/ toWindow' = Tail(toWindow)
      \/ toWindow' = toWindow
  BY DEF Window, StartDlg, SetDialog, CloseDlg, Crash, queues
<1>4. toWindow' \in Seq(WindowEvents)
  BY <1>2, <1>3 DEF Always
<1>5. dialog = "unset" => toWindow[1].kind = "openDialog"
  BY <1>1 DEF Always, DialogFirst, NotBegun
<1>6. dialog' # "unset"
  BY <1>2, <1>5 DEF Window, StartDlg, SetDialog, CloseDlg, Crash, Handles
<1>7. \/ bar' = bar \/ bar' = [max |-> 0, val |-> 0]
      \/ /\ toWindow[1].kind = "max" /\ toWindow[1].val \in Nat
         /\ bar' = [bar EXCEPT !.max = toWindow[1].val]
      \/ toWindow[1].val \in Nat /\ bar' = [bar EXCEPT !.val = toWindow[1].val]
  <2>1. toWindow[1].kind \in {"max", "val"} => toWindow[1].val \in Nat
    BY <1>2 DEF WindowEvents
  <2> QED
    BY <1>2, <2>1 DEF Window, StartDlg, SetDialog, CloseDlg, Crash, Handles
<1>8. BarType'
  BY <1>7 DEF BarType, Always
<1>9. NoRange'
  <2>1. SUFFICES ASSUME ~disk.readable PROVE NoRange'
    BY <1>1 DEF NoRange
  <2>2. source.blockCount = 0 /\ bar.max = 0 /\ (toWindow[1].kind = "max" => toWindow[1].val = 0)
    BY <1>2, <2>1 DEF Always, NoRange
  <2>3. bar'.max = 0
    BY <1>7, <2>2 DEF Always
  <2>4. ASSUME NEW i \in 1..Len(toWindow'), toWindow'[i].kind = "max"
        PROVE  toWindow'[i].val = 0
    <3>1. PICK j \in 1..Len(toWindow) : toWindow'[i] = toWindow[j]
      BY <1>2, <1>3
    <3> QED
      BY <2>1, <2>4, <3>1 DEF Always, NoRange
  <2> QED
    BY <1>1, <2>2, <2>3, <2>4 DEF NoRange
<1> QED
  BY <1>4, <1>6, <1>8, <1>9

\* Before the first openDialog nothing but begin is under way.
LEMMA BeforeBegin ==
  ASSUME TypeOK, NotBegun, Click \/ Producer \/ Consumer
  PROVE  NotBegun' \/ toWindow' = <<Event("openDialog")>>
<1>1. CASE Click
  <2>1. toConsumer' \in Seq({Event("begin")})
    BY <1>1, AppendProperties DEF NotBegun, Click
  <2> QED
    BY <1>1, <2>1 DEF NotBegun, Click
<1>2. ~Producer
  BY Handling DEF NotBegun, Producer, Transfer, BlockDone, FrameData, SendPacket, Halt
<1>3. CASE Consumer
  <2>1. \A k : Handles(toConsumer, k) => k = "begin"
    <3>1. toConsumer # <<>> => Head(toConsumer) = Event("begin")
      BY HeadTailProperties DEF NotBegun
    <3> QED
      BY <3>1 DEF Handles, Event
  <2>2. StartReceiving
    BY <1>3, <2>1
       DEF NotBegun, Consumer, Initiate, StopReceiving, ReceiveFrame, Measurement, EmitBlockDone
  <2> QED
    BY <2>2, ShortQueues DEF StartReceiving, NotBegun
<1> QED
  BY <1>1, <1>2, <1>3

LEMMA AlwaysStep ==
  ASSUME Always, Next
  PROVE  Always'
<1>1. TypeOK'
  BY TypeStep DEF Always
<1>2. CASE Window
  BY <1>1, <1>2, WindowTakes DEF Always, DialogFirst, BarType
<1>3. CASE Click \/ Producer \/ Consumer
  <2>1. /\ UNCHANGED <<disk, dialog, bar>>
        /\ \/ toWindow' = toWindow
           \/ \E e \in WindowEvents :
                /\ toWindow' = Append(toWindow, e)
                /\ e.kind = "max" => e.val = source.blockCount
        /\ ~disk.readable /\ source.blockCount = 0 => source'.blockCount = 0
    BY <1>3, WindowMoves DEF Always
  <2>2. toWindow \in Seq(WindowEvents) /\ Len(toWindow) \in Nat
    BY DEF Always
  <2>3. CASE toWindow' = toWindow
    <3>1. NoRange'
      BY <2>1, <2>3 DEF Always, NoRange
    <3>2. DialogFirst'
      BY <1>3, <2>1, <2>3, BeforeBegin, ShortQueues DEF Always, DialogFirst, NotBegun
    <3> QED
      BY <1>1, <2>1, <2>2, <2>3, <3>1, <3>2 DEF Always
  <2>4. ASSUME NEW e \in WindowEvents, toWindow' = Append(toWindow, e),
               e.kind = "max" => e.val = source.blockCount
        PROVE  Always'
    <3>1. /\ toWindow' \in Seq(WindowEvents) /\ toWindow' # <<>>
          /\ Len(toWindow') = Len(toWindow) + 1
          /\ \A i \in 1..Len(toWindow) : toWindow'[i] = toWindow[i]
          /\ toWindow'[Len(toWindow) + 1] = e
      BY <2>2, <2>4, Posting
    <3>2. NoRange'
      <4>1. SUFFICES ASSUME ~disk.readable PROVE NoRange'
        BY <2>1 DEF NoRange
      <4>2. source.blockCount = 0 /\ bar.max = 0
        BY <4>1 DEF Always, NoRange
      <4>3. ASSUME NEW i \in 1..Len(toWindow'), toWindow'[i].kind = "max"
            PROVE  toWindow'[i].val = 0
        <5>1. CASE i \in 1..Len(toWindow)
          BY <3>1, <4>1, <4>3, <5>1 DEF Always, NoRange
        <5>2. CASE i = Len(toWindow) + 1
          BY <2>4, <3>1, <4>2, <4>3, <5>2
        <5> QED
          BY <2>2, <3>1, <5>1, <5>2
      <4> QED
        BY <2>1, <4>1, <4>2, <4>3 DEF NoRange
    <3>3. DialogFirst'
      <4>1. SUFFICES ASSUME dialog = "unset"
                     PROVE  NotBegun' \/ toWindow'[1].kind = "openDialog"
        <5>1. dialog' = dialog /\ toWindow' # <<>>
          BY <2>1, <3>1
        <5> QED
          BY <5>1 DEF DialogFirst
      <4>2. CASE NotBegun
        <5>1. NotBegun' \/ toWindow' = <<Event("openDialog")>>
          BY <1>3, <4>2, BeforeBegin DEF Always
        <5>2. <<Event("openDialog")>>[1].kind = "openDialog"
          BY DEF Event
        <5> QED
          BY <5>1, <5>2
      <4>3. CASE toWindow # <<>> /\ toWindow[1].kind = "openDialog"
        <5>1. 1 \in 1..Len(toWindow)
          BY <2>2, <4>3, EmptySeq
        <5> QED
          BY <3>1, <4>3, <5>1
      <4> QED
        BY <4>1, <4>2, <4>3 DEF Always, DialogFirst
    <3> QED
      BY <1>1, <2>1, <3>1, <3>2, <3>3 DEF Always
  <2> QED
    BY <2>1, <2>3, <2>4
<1> QED
  BY <1>2, <1>3 DEF Next

LEMMA InitIInv == Init => IInv
<1> SUFFICES ASSUME Init PROVE IInv
  OBVIOUS
<1> USE CopyAssumption
<1>1. TypeOK
  <2>1. source \in [pos : Nat, numBlocks : Int, fragment : Int, blockCount : Nat, count : Nat]
    <3>1. -MaxJunk..MaxJunk \subseteq Int
      OBVIOUS
    <3>2. source \in [pos : {0}, numBlocks : -MaxJunk..MaxJunk, fragment : -MaxJunk..MaxJunk,
                      blockCount : {0}, count : {0}]
      BY DEF Init
    <3> QED
      BY <3>1, <3>2
  <2>2. producer.at = "idle" /\ over \in Nat /\ copies \in 0..MaxCopies
    BY DEF Init, Idle
  <2> QED
    BY <2>1, <2>2 DEF Init, TypeOK
<1>2. bar \in [max : Nat, val : Nat]
  BY DEF Init
<1>3. CopyOK
  <2>1. Quiet /\ NoDialog
    BY DEF Init, Quiet, At, NoDialog
  <2>2. ~waiting /\ ~(copies > 0)
    BY DEF Init, waiting
  <2> QED
    BY <2>1, <2>2 DEF CopyOK
<1>4. Patient
  BY <1>1, <1>2, <1>3 DEF Patient, Init
<1>5. toWindow \in Seq(WindowEvents) /\ toConsumer \in Seq({Event("begin")})
  BY DEF Init
<1>6. DialogFirst
  <2>1. producer.at = "idle"
    BY DEF Init, Idle
  <2>2. NotBegun
    BY <1>5, <2>1, Zenon DEF Init, NotBegun
  <2> QED
    BY <2>2 DEF DialogFirst
<1>7. NoRange
  <2>1. source.blockCount = 0 /\ bar.max = 0
    BY DEF Init
  <2>2. 1..Len(toWindow) = {}
    BY DEF Init
  <2> QED
    BY <2>1, <2>2 DEF NoRange
<1> QED
  BY <1>1, <1>2, <1>4, <1>5, <1>6, <1>7 DEF IInv, Always

\* The window does not meet a dialog that is gone.
LEMMA NoCrash ==
  ASSUME Patient
  PROVE  ~Crash
<1> SUFFICES ASSUME Crash PROVE FALSE
  OBVIOUS
<1>1. toWindow # <<>> /\ Head(toWindow).kind # "openDialog" /\ dialog # "shown"
  BY DEF Crash, Handles
<1>2. PICK closing \in BOOLEAN : Dialog(closing)
  BY <1>1 DEF Patient, CopyOK, NoDialog, Beginning, Running
<1>3. 1 \in 1..Len(toWindow) /\ Head(toWindow) = toWindow[1]
  BY <1>1, <1>2, EmptySeq, HeadTailProperties DEF Dialog
<1>4. toWindow[1].kind = "openDialog"
  BY <1>1, <1>2, <1>3, Zenon DEF Dialog
<1> QED
  BY <1>1, <1>3, <1>4

LEMMA PatientStep ==
  ASSUME Patient, Next, ~hasty'
  PROVE  Patient'
<1>1. TypeOK'
  BY TypeStep DEF Patient
<1>2. CopyOK /\ BarType
  BY DEF Patient, BarType
<1>3. over \in Nat /\ copies \in Nat /\ over <= copies /\ copies <= over + 1 /\ dialog # "crashed"
  BY DEF Patient, TypeOK
<1>4. CASE Click
  <2>1. ~waiting /\ copies' = copies + 1 /\ over' = over /\ dialog' = dialog
    BY <1>4 DEF Click
  <2>2. over' <= copies' /\ copies' <= over' + 1
    BY <1>3, <2>1 DEF waiting
  <2> QED
    BY <1>1, <1>3, <1>4, <2>1, <2>2, ClickStep DEF Patient, BarType
<1>5. CASE CloseDlg
  <2>1. copies' = copies /\ over' = over + 1 /\ dialog' = "deleted" /\ waiting
    BY <1>5, CloseStep DEF CloseDlg
  <2>2. over' <= copies' /\ copies' <= over' + 1
    BY <1>3, <2>1 DEF waiting
  <2> QED
    BY <1>1, <1>5, <2>1, <2>2, CloseStep DEF Patient, BarType
<1>6. CASE StartDlg \/ SetDialog
  <2>1. UNCHANGED <<over, copies>> /\ dialog' # "crashed"
    BY <1>3, <1>6 DEF StartDlg, SetDialog, user
  <2> QED
    BY <1>1, <1>2, <1>3, <1>6, <2>1, WindowStep DEF Patient, BarType
<1>7. CASE Producer
  <2>1. UNCHANGED <<over, copies, dialog>>
    BY <1>7 DEF Producer, Transfer, BlockDone, FrameData, SendPacket, Halt, user
  <2>2. CopyOK' /\ BarType'
    BY <1>7, TransferStep, BlockDoneStep, FrameDataStep, SendPacketStep, HaltStep DEF Producer
  <2> QED
    BY <1>1, <1>3, <2>1, <2>2 DEF Patient, BarType
<1>8. CASE Consumer
  <2>1. UNCHANGED <<over, copies, dialog>>
    BY <1>8 DEF Consumer, StartReceiving, Initiate, StopReceiving, ReceiveFrame, Measurement,
                EmitBlockDone, user
  <2>2. CopyOK' /\ BarType'
    BY <1>8, StartReceivingStep, InitiateStep, StopReceivingStep, ReceiveFrameStep,
       MeasurementStep, EmitBlockDoneStep
       DEF Consumer
  <2> QED
    BY <1>1, <1>3, <2>1, <2>2 DEF Patient, BarType
<1> QED
  BY <1>4, <1>5, <1>6, <1>7, <1>8, NoCrash DEF Next, Window

LEMMA PatientKept ==
  ASSUME Patient, UNCHANGED vars
  PROVE  Patient'
<1>1. UNCHANGED <<disk, source, producer, consumer, dest, dialog, bar,
                  toWindow, toConsumer, toProducer, user>>
  BY DEF vars, queues
<1>2. /\ TypeOK' /\ (bar \in [max : Nat, val : Nat])'
      /\ (over <= copies /\ copies <= over + 1 /\ dialog # "crashed")'
  BY <1>1 DEF Patient, TypeOK, user
<1>3. /\ (Beginning => Beginning') /\ (Running => Running') /\ (NoDialog => NoDialog')
      /\ (waiting' <=> waiting) /\ copies' = copies
      /\ \A n : RangeKnown(n) => RangeKnown(n)'
  BY <1>1, ApartKept, UserKept DEF WindowApart, user
<1>4. /\ (Quiet => Quiet') /\ (Asked => Asked') /\ (Opened => Opened')
      /\ (Ordered => Ordered') /\ (Done => Done')
  BY <1>1 DEF Quiet, Asked, Opened, Ordered, Fresh, Done, At
<1>5. Transferring => Transferring'
  BY <1>1, <1>3, PlaceKept
<1>6. (Dialog(TRUE) => Dialog(TRUE)') /\ (Measured => Measured')
  BY <1>1, <1>3 DEF Dialog, Measured
<1> QED
  BY <1>2, <1>3, <1>4, <1>5, <1>6 DEF Patient, CopyOK

LEMMA NextIInv == IInv /\ [Next]_vars => IInv'
<1> SUFFICES ASSUME IInv, [Next]_vars PROVE IInv'
  OBVIOUS
<1>1. CASE Next
  <2>1. ~hasty' => ~hasty
    BY <1>1 DEF Next, Click, Window, StartDlg, SetDialog, CloseDlg, Crash,
                Producer, Transfer, BlockDone, FrameData, SendPacket, Halt,
                Consumer, StartReceiving, Initiate, StopReceiving, ReceiveFrame, Measurement,
                EmitBlockDone, user
  <2> QED
    BY <1>1, <2>1, AlwaysStep, PatientStep DEF IInv
<1>2. CASE UNCHANGED vars
  <2>1. UNCHANGED <<disk, source, producer, consumer, dialog, bar,
                    toWindow, toConsumer, toProducer, over, copies, hasty>>
    BY <1>2 DEF vars, queues, user
  <2>2. Always'
    BY <2>1 DEF IInv, Always, TypeOK, DialogFirst, NotBegun, NoRange
  <2> QED
    BY <1>2, <2>1, <2>2, PatientKept DEF IInv
<1> QED
  BY <1>1, <1>2

LEMMA IInvariant == Spec => []IInv
<1> QED
  BY InitIInv, NextIInv, PTL DEF Spec

\* The variables keep their types for every user: no count is negative, and
\* no position either, although integers nobody has set, of either sign, are
\* read (transfer, frameData).
THEOREM Types == Spec => []TypeOK
<1>1. IInv => TypeOK
  BY DEF IInv, Always
<1> QED
  BY <1>1, IInvariant, PTL

\* For files and blocks of any size the copy is whole when its dialog is gone,
\* for a user who has never clicked during a copy (frameData, receiveFrame,
\* startReceiving).
THEOREM WholeCopies == Spec => []CopyIsWhole
<1>1. IInv => CopyIsWhole
  <2> SUFFICES ASSUME IInv, ~hasty, ~waiting, copies > 0, disk.readable, disk.writable
               PROVE  dest = [bytes |-> Data, open |-> FALSE]
    BY DEF CopyIsWhole
  <2>1. Done
    BY DEF IInv, Patient, CopyOK, Beginning, Running
  <2> QED
    BY <2>1 DEF Done, Count, Data
<1> QED
  BY <1>1, IInvariant, PTL

\* However the user clicks, the window never uses m_progress before it is set.
\* It never uses a deleted dialog either, and the program does not crash over
\* one, if the user has never clicked during a copy, which the code does not
\* stop (startDlg, closeDlg, setMaxVal, setVal, setSecondsRemaining).
THEOREM DialogStays == Spec => []DialogIsThere
<1>1. IInv => DialogIsThere
  <2> SUFFICES ASSUME IInv PROVE DialogIsThere
    OBVIOUS
  <2>1. ASSUME toWindow # <<>>
        PROVE  1 \in 1..Len(toWindow) /\ Head(toWindow) = toWindow[1]
    BY <2>1, EmptySeq, HeadTailProperties DEF IInv, Always
  <2>2. toWindow # <<>> /\ dialog = "unset" => Head(toWindow).kind = "openDialog"
    BY <2>1 DEF IInv, Always, DialogFirst, NotBegun
  <2>3. ASSUME ~hasty, toWindow # <<>>
        PROVE  dialog = "shown" <=> Head(toWindow).kind # "openDialog"
    <3>1. PICK closing \in BOOLEAN : Dialog(closing)
      BY <2>3 DEF IInv, Patient, CopyOK, NoDialog, Beginning, Running
    <3>2. toWindow[1].kind = "openDialog" <=> dialog # "shown"
      BY <2>1, <2>3, <3>1, Zenon DEF Dialog
    <3> QED
      BY <2>1, <2>3, <3>2
  <2>4. ~hasty => dialog # "crashed"
    BY DEF IInv, Patient
  <2> QED
    BY <2>2, <2>3, <2>4 DEF DialogIsThere
<1> QED
  BY <1>1, IInvariant, PTL

\* With data.dat open, and a user who has never clicked during a copy, a value
\* set in the dialog is never beyond its range; with data.dat not open the
\* range is 0..0 whatever the user does, and the values are not bounded by it
\* (transfer, measurement, setMaxVal, setVal).
THEOREM ProgressStays == Spec => []ProgressInRange
<1>1. IInv => ProgressInRange
  <2> SUFFICES ASSUME IInv PROVE ProgressInRange
    OBVIOUS
  <2>1. ASSUME disk.readable, ~hasty, dialog = "shown" PROVE bar.val <= bar.max
    <3>1. bar.max \in Nat
      BY DEF IInv, Always
    <3>2. Unmeasured \/ Measured
      BY <2>1 DEF IInv, Patient, CopyOK, NoDialog, Beginning, Running
    <3>3. CASE Unmeasured
      BY <2>1, <3>3 DEF Unmeasured
    <3>4. CASE Measured
      BY <2>1, <3>1, <3>4 DEF Measured
    <3> QED
      BY <3>2, <3>3, <3>4
  <2>2. ~disk.readable => bar.max = 0
    BY DEF IInv, Always, NoRange
  <2> QED
    BY <2>1, <2>2 DEF ProgressInRange
<1> QED
  BY <1>1, IInvariant, PTL
=============================================================================
