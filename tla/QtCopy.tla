------------------------------- MODULE QtCopy -------------------------------
(***************************************************************************)
(* The file copy of the QThread example: a window, a consumer and a        *)
(* producer, each in a thread with an event loop of its own                *)
(* (progressDialog/: progressdialog.cpp, consumer.cpp, producer.cpp).  A   *)
(* signal to an object of another thread is an event posted to that        *)
(* thread; only measure() runs the slot of the producer directly, in the   *)
(* thread of the consumer.  A slot is cut after each signal it emits,      *)
(* since another thread may act on it at once.                             *)
(***************************************************************************)
EXTENDS Integers, Sequences

CONSTANTS
  BlockSize,  \* BLOCK_SIZE
  Sizes,      \* sizes of data.dat that are tried
  MaxJunk,    \* bound on what an integer holds that nobody has set
  MaxCopies   \* bound on the copies the user asks for

ASSUME CopyAssumption ==
  /\ BlockSize \in Nat \ {0} /\ Sizes \subseteq Nat
  /\ MaxJunk \in Nat /\ MaxCopies \in Nat

VARIABLES
  disk,      \* data.dat: size and readable, destination.dat: writable
  source,    \* of the producer: pos, numBlocks, fragment, blockCount, count
  producer,  \* what is left of the producer's slot
  consumer,  \* what is left of the consumer's slot
  dest,      \* destination.dat: its bytes, and whether it is open
  dialog,    \* m_progress: unset, shown or deleted, or the program has crashed
  bar,       \* last range and value set in the dialog, in units of the m_average
             \* they were computed with
  toWindow, toConsumer, toProducer,   \* the events posted to each thread
  over,      \* how many copies have closed their dialog
  copies,    \* how often the user has asked
  hasty      \* the user has ever asked again before the last copy was over

queues == <<toWindow, toConsumer, toProducer>>
user == <<over, copies, hasty>>
vars == <<disk, source, producer, consumer, dest, dialog, bar, queues, user>>

waiting == over < copies

Data == [i \in 1..disk.size |-> i]
Idle == [at |-> "idle", data |-> <<>>, last |-> FALSE]

\* What frameData() will send is not known before transfer(), and never when
\* data.dat could not be opened: m_numBlocks and m_fragment are not set.
Init ==
  /\ disk \in [size : Sizes, readable : BOOLEAN, writable : BOOLEAN]
  /\ source \in [pos : {0}, numBlocks : -MaxJunk..MaxJunk, fragment : -MaxJunk..MaxJunk,
                 blockCount : {0}, count : {0}]
  /\ producer = Idle /\ consumer = "idle"
  /\ dest = [bytes |-> <<>>, open |-> FALSE]
  /\ dialog = "unset" /\ bar = [max |-> 0, val |-> 0]
  /\ toWindow = <<>> /\ toConsumer = <<>> /\ toProducer = <<>>
  /\ over = 0 /\ copies = 0 /\ hasty = FALSE

\* The event loop of a thread takes the oldest event.
Handles(queue, kind) == queue # <<>> /\ Head(queue).kind = kind
Event(kind) == [kind |-> kind]
-----------------------------------------------------------------------------
(* The window *)

\* _begin(): a click.  The button stays enabled during a copy.
Click ==
  /\ copies < MaxCopies
  /\ toConsumer' = Append(toConsumer, Event("begin"))
  /\ copies' = copies + 1 /\ hasty' = (hasty \/ waiting) /\ over' = over
  /\ UNCHANGED <<disk, source, producer, consumer, dest, dialog, bar, toWindow, toProducer>>

\* startDlg()
StartDlg ==
  /\ Handles(toWindow, "openDialog")
  /\ dialog' = "shown" /\ bar' = [max |-> 0, val |-> 0]
  /\ toWindow' = Tail(toWindow)
  /\ UNCHANGED <<disk, source, producer, consumer, dest, toConsumer, toProducer, user>>

\* setMaxVal(), setVal(), setSecondsRemaining() write through m_progress.
SetDialog ==
  /\ \/ Handles(toWindow, "max") /\ bar' = [bar EXCEPT !.max = Head(toWindow).val]
     \/ Handles(toWindow, "val") /\ bar' = [bar EXCEPT !.val = Head(toWindow).val]
     \/ Handles(toWindow, "seconds") /\ UNCHANGED bar
  /\ toWindow' = Tail(toWindow)
  /\ UNCHANGED <<disk, source, producer, consumer, dest, dialog, toConsumer, toProducer, user>>

\* closeDlg() deletes the dialog and leaves the pointer as it is.
CloseDlg ==
  /\ Handles(toWindow, "closeDialog")
  /\ dialog' = "deleted" /\ over' = over + 1
  /\ toWindow' = Tail(toWindow)
  /\ UNCHANGED <<disk, source, producer, consumer, dest, bar, toConsumer, toProducer, copies, hasty>>

\* Using m_progress when it is not set, or after delete, is undefined: the
\* program may crash, or go on as SetDialog and CloseDlg do.
Crash ==
  /\ toWindow # <<>> /\ ~Handles(toWindow, "openDialog") /\ dialog # "shown"
  /\ dialog' = "crashed"
  /\ UNCHANGED <<disk, source, producer, consumer, dest, bar, queues, user>>

Window == StartDlg \/ SetDialog \/ CloseDlg \/ Crash
-----------------------------------------------------------------------------
(* The producer *)

\* Mutant: no seek(0).
TransferOn ==
  /\ producer.at = "idle" /\ Handles(toProducer, "produce")
  /\ toProducer' = Tail(toProducer)
  /\ producer' = [Idle EXCEPT !.at = "frame"]
  /\ source' = IF disk.readable
               THEN [pos |-> source.pos, count |-> 0,
                     numBlocks |-> disk.size \div BlockSize,
                     fragment |-> disk.size % BlockSize,
                     blockCount |-> disk.size \div BlockSize]
               ELSE [source EXCEPT !.count = 0, !.blockCount = 0]
  /\ UNCHANGED <<disk, consumer, dest, dialog, bar, toWindow, toConsumer, user>>

\* produce(true) and transfer(), which goes on with frameData().
Transfer ==
  /\ producer.at = "idle" /\ Handles(toProducer, "produce")
  /\ toProducer' = Tail(toProducer)
  /\ producer' = [Idle EXCEPT !.at = "frame"]
  /\ source' = IF disk.readable
               THEN [pos |-> 0, count |-> 0,
                     numBlocks |-> disk.size \div BlockSize,
                     fragment |-> disk.size % BlockSize,
                     blockCount |-> disk.size \div BlockSize]
               ELSE [source EXCEPT !.count = 0, !.blockCount = 0]
  /\ UNCHANGED <<disk, consumer, dest, dialog, bar, toWindow, toConsumer, user>>

\* A blockDone() arrives: frameData().
BlockDone ==
  /\ producer.at = "idle" /\ Handles(toProducer, "blockDone")
  /\ toProducer' = Tail(toProducer)
  /\ producer' = [Idle EXCEPT !.at = "frame"]
  /\ UNCHANGED <<disk, source, consumer, dest, dialog, bar, toWindow, toConsumer, user>>

\* The next n bytes of the stream: zeros after the end and without a device.
Bytes(n) ==
  [i \in 1..n |-> IF disk.readable /\ source.pos + i <= disk.size
                  THEN Data[source.pos + i] ELSE 0]

\* Mutant: what is left is read unless it is zero.
FrameDataNotZero ==
  /\ producer.at = "frame"
  /\ \/ /\ source.numBlocks > 0
        /\ source' = [source EXCEPT !.count = @ + 1, !.numBlocks = @ - 1, !.pos = @ + BlockSize]
        /\ producer' = [at |-> "send", data |-> Bytes(BlockSize), last |-> FALSE]
     \/ /\ source.numBlocks <= 0
        /\ source' = [source EXCEPT !.count = @ + 1, !.pos = @ + source.fragment]
        /\ producer' = IF source.fragment # 0
                       THEN [at |-> "send", data |-> Bytes(source.fragment), last |-> TRUE]
                       ELSE [Idle EXCEPT !.at = "halt"]
  /\ UNCHANGED <<disk, consumer, dest, dialog, bar, queues, user>>

\* frameData() reads a block, or what is left.
FrameData ==
  /\ producer.at = "frame"
  /\ \/ /\ source.numBlocks > 0
        /\ source' = [source EXCEPT !.count = @ + 1, !.numBlocks = @ - 1, !.pos = @ + BlockSize]
        /\ producer' = [at |-> "send", data |-> Bytes(BlockSize), last |-> FALSE]
     \/ /\ source.numBlocks <= 0 /\ source.fragment > 0
        /\ source' = [source EXCEPT !.count = @ + 1, !.pos = @ + source.fragment]
        /\ producer' = [at |-> "send", data |-> Bytes(source.fragment), last |-> TRUE]
     \/ /\ source.numBlocks <= 0 /\ source.fragment <= 0
        /\ source' = [source EXCEPT !.count = @ + 1]
        /\ producer' = [Idle EXCEPT !.at = "halt"]
  /\ UNCHANGED <<disk, consumer, dest, dialog, bar, queues, user>>

\* emit sendPacket(block, last)
SendPacket ==
  /\ producer.at = "send"
  /\ toConsumer' = Append(toConsumer,
       [kind |-> "frame", data |-> producer.data, last |-> producer.last])
  /\ producer' = IF producer.last THEN [Idle EXCEPT !.at = "halt"] ELSE Idle
  /\ UNCHANGED <<disk, source, consumer, dest, dialog, bar, toWindow, toProducer, user>>

\* Mutant: the packet that is not full is the only one followed by halt().
HaltAfterFragment ==
  /\ producer.at = "halt"
  /\ toConsumer' = IF source.fragment > 0 THEN Append(toConsumer, Event("halt")) ELSE toConsumer
  /\ producer' = Idle
  /\ UNCHANGED <<disk, source, consumer, dest, dialog, bar, toWindow, toProducer, user>>

\* emit halt(false)
Halt ==
  /\ producer.at = "halt"
  /\ toConsumer' = Append(toConsumer, Event("halt"))
  /\ producer' = Idle
  /\ UNCHANGED <<disk, source, consumer, dest, dialog, bar, toWindow, toProducer, user>>

Producer == Transfer \/ BlockDone \/ FrameData \/ SendPacket \/ Halt
-----------------------------------------------------------------------------
(* The consumer *)

\* Mutant: the dialog is for a file that could be opened.
StartReceivingOpened ==
  /\ consumer = "idle" /\ Handles(toConsumer, "begin")
  /\ toConsumer' = Tail(toConsumer)
  /\ dest' = IF disk.writable THEN [bytes |-> <<>>, open |-> TRUE]
             ELSE [dest EXCEPT !.open = FALSE]
  /\ toWindow' = IF disk.writable THEN Append(toWindow, Event("openDialog")) ELSE toWindow
  /\ consumer' = "initiate"
  /\ UNCHANGED <<disk, source, producer, dialog, bar, toProducer, user>>

\* startReceiving(true) opens the file and emits openDialog().
StartReceiving ==
  /\ consumer = "idle" /\ Handles(toConsumer, "begin")
  /\ toConsumer' = Tail(toConsumer)
  /\ dest' = IF disk.writable THEN [bytes |-> <<>>, open |-> TRUE]
             ELSE [dest EXCEPT !.open = FALSE]
  /\ toWindow' = Append(toWindow, Event("openDialog"))
  /\ consumer' = "initiate"
  /\ UNCHANGED <<disk, source, producer, dialog, bar, toProducer, user>>

\* emit initiate(on)
Initiate ==
  /\ consumer = "initiate"
  /\ toProducer' = Append(toProducer, Event("produce"))
  /\ consumer' = "idle"
  /\ UNCHANGED <<disk, source, producer, dest, dialog, bar, toWindow, toConsumer, user>>

\* startReceiving(false)
StopReceiving ==
  /\ consumer = "idle" /\ Handles(toConsumer, "halt")
  /\ toConsumer' = Tail(toConsumer)
  /\ dest' = [dest EXCEPT !.open = FALSE]
  /\ toWindow' = Append(toWindow, Event("closeDialog"))
  /\ UNCHANGED <<disk, source, producer, consumer, dialog, bar, toProducer, user>>

\* Mutant: a packet is answered before it is measured.
ReceiveThenAnswer ==
  /\ consumer = "idle" /\ Handles(toConsumer, "frame")
  /\ toConsumer' = Tail(toConsumer)
  /\ dest' = IF dest.open THEN [dest EXCEPT !.bytes = @ \o Head(toConsumer).data] ELSE dest
  /\ consumer' = IF Head(toConsumer).last THEN "idle" ELSE "max"
  /\ toProducer' = IF Head(toConsumer).last THEN toProducer
                   ELSE Append(toProducer, Event("blockDone"))
  /\ UNCHANGED <<disk, source, producer, dialog, bar, toWindow, user>>

\* receiveFrame() writes what it got.
ReceiveFrame ==
  /\ consumer = "idle" /\ Handles(toConsumer, "frame")
  /\ toConsumer' = Tail(toConsumer)
  /\ dest' = IF dest.open THEN [dest EXCEPT !.bytes = @ \o Head(toConsumer).data] ELSE dest
  /\ consumer' = IF Head(toConsumer).last THEN "idle" ELSE "max"
  /\ UNCHANGED <<disk, source, producer, dialog, bar, toWindow, toProducer, user>>

\* emit measure(false): Producer::measurement() in the consumer's thread.
\* m_maxTime is m_average times m_blockCount, and so on.
Measurement ==
  /\ \/ /\ consumer = "max"
        /\ toWindow' = Append(toWindow, [kind |-> "max", val |-> source.blockCount])
        /\ consumer' = "val"
     \/ /\ consumer = "val"
        /\ toWindow' = Append(toWindow, [kind |-> "val", val |-> source.count])
        /\ consumer' = "seconds"
     \/ /\ consumer = "seconds"
        /\ toWindow' = Append(toWindow, [kind |-> "seconds"])
        /\ consumer' = "done"
  /\ UNCHANGED <<disk, source, producer, dest, dialog, bar, toConsumer, toProducer, user>>

\* emit blockDone()
EmitBlockDone ==
  /\ consumer = "done"
  /\ toProducer' = Append(toProducer, Event("blockDone"))
  /\ consumer' = "idle"
  /\ UNCHANGED <<disk, source, producer, dest, dialog, bar, toWindow, toConsumer, user>>

Consumer == StartReceiving \/ Initiate \/ StopReceiving \/ ReceiveFrame \/ Measurement \/ EmitBlockDone
-----------------------------------------------------------------------------
Next ==
  /\ dialog # "crashed"
  /\ Click \/ Window \/ Producer \/ Consumer

\* Each thread runs its event loop; nobody has to click.
Runs(thread) == dialog # "crashed" /\ thread
Spec ==
  /\ Init /\ [][Next]_vars
  /\ WF_vars(Runs(Window)) /\ WF_vars(Runs(Producer)) /\ WF_vars(Runs(Consumer))
-----------------------------------------------------------------------------
\* The types of the variables.
TypeOK ==
  /\ disk \in [size : Sizes, readable : BOOLEAN, writable : BOOLEAN]
  /\ source \in [pos : Nat, numBlocks : Int, fragment : Int, blockCount : Nat, count : Nat]
  /\ producer.at \in {"idle", "frame", "send", "halt"}
  /\ consumer \in {"idle", "initiate", "max", "val", "seconds", "done"}
  /\ dialog \in {"unset", "shown", "deleted", "crashed"}
  /\ over \in Nat /\ copies \in 0..MaxCopies /\ hasty \in BOOLEAN

\* When the dialog is gone the copy is whole, whatever the size of the file:
\* no block is lost, repeated or out of order although the threads only post
\* events to each other (frameData, receiveFrame, startReceiving).  This is
\* for a user who has never clicked during a copy: a second begin empties the
\* file and starts a second chain of blocks (startReceiving, transfer).
CopyIsWhole ==
  ~hasty /\ ~waiting /\ copies > 0 /\ disk.readable /\ disk.writable =>
    dest = [bytes |-> Data, open |-> FALSE]

\* m_progress, which no constructor sets, is never used before it points to a
\* dialog, however the user clicks: openDialog is the first event the window
\* gets.  It is not used after delete either as long as the user has never
\* clicked during a copy: then the measurements of one copy arrive between
\* its openDialog and its closeDialog.  The button does not stop such a click,
\* and after one the code does use, and delete, what it has deleted (startDlg,
\* closeDlg, setMaxVal, setVal): the premise ~hasty is needed.
DialogIsThere ==
  /\ toWindow # <<>> /\ dialog = "unset" => Head(toWindow).kind = "openDialog"
  /\ ~hasty =>
       /\ dialog # "crashed"
       /\ toWindow # <<>> => (dialog = "shown" <=> Head(toWindow).kind # "openDialog")

\* What the dialog gets from measurement(), which reads m_count in a thread
\* that is not the producer's.  With data.dat open a value is within the range
\* set just before it, since the producer counts the next block only after it
\* was told that this one is measured (receiveFrame); a user who clicks during
\* a copy has two chains of blocks, and the count of one passes the range of
\* the other.  With data.dat not open the range is 0..0 whatever the user
\* does, since transfer() leaves m_blockCount at 0, and the values lie beyond
\* it when m_numBlocks, which is not set then, happens to be positive.
ProgressInRange ==
  IF disk.readable THEN ~hasty /\ dialog = "shown" => bar.val <= bar.max
  ELSE bar.max = 0

\* Every copy that was asked for comes to its end and closes its dialog, even
\* when a file could not be opened and when copies overlap, unless the program
\* crashes over the deleted dialog.
CopiesEnd == waiting ~> (~waiting \/ dialog = "crashed")
=============================================================================
