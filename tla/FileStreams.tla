----------------------------- MODULE FileStreams -----------------------------
(***************************************************************************)
(* The zero-copy streams of protobuf over a file descriptor: operators on  *)
(* the state of a FileInputStream (optionally behind a                     *)
(* LimitingInputStream) and of a FileOutputStream, for the modules that    *)
(* drive them.  A byte is the number it got when it was written, so that   *)
(* lost, repeated and misplaced bytes can be told apart; Garbage is a slot *)
(* of a buffer nobody has filled.                                          *)
(*                                                                         *)
(* A call that depends on what read() and write() do is the set of its     *)
(* outcomes: its result ok, the buffer or file it leaves, and the stream.  *)
(* A GOOGLE_CHECK that fails clears the stream's "sound" field.            *)
(***************************************************************************)
EXTENDS Integers, Sequences

CONSTANTS
  BlockSize,   \* block_size of the copying adaptors
  JunkSize,    \* sizeof(junk) in CopyingInputStream::Skip
  Errors       \* read() and write() may fail

VARIABLE file  \* the bytes of the file, oldest first

ASSUME BlockSizeAssumption == BlockSize \in Nat \ {0}
ASSUME JunkSizeAssumption == JunkSize \in Nat \ {0}
ASSUME ErrorsAssumption == Errors \in BOOLEAN

Garbage == 0

Least(a, b) == IF a <= b THEN a ELSE b
Greatest(a, b) == IF a >= b THEN a ELSE b

Front(s, n) == SubSeq(s, 1, n)
Drop(s, n) == SubSeq(s, n + 1, Len(s))
-----------------------------------------------------------------------------
(* Input.  buffer_ holds buffer_used_ bytes; the empty one is not allocated.  *)

\* seeks: lseek() works on the descriptor; short: read() may return less than
\* it could.
FileInputStream(seeks, short) ==
  [seeks |-> seeks, short |-> short, offset |-> 0, broken |-> FALSE,
   previous_seek_failed_ |-> FALSE,
   failed_ |-> FALSE, position_ |-> 0, buffer_ |-> <<>>, backup_bytes_ |-> 0,
   limited |-> FALSE, limit_ |-> 0, sound |-> TRUE]

\* What read(size) at the offset can return: 0 is the end, -1 an error.  An error
\* lasts, which is what CopyingInputStream::Read() says of it ("permanent"): after a
\* failed Skip() nothing in the code would keep a later read() from succeeding.
ReadResults(in, offset, size) ==
  LET left == Greatest(0, Len(file) - offset)
      most == Least(size, left)
  IN  (IF Errors THEN {-1} ELSE {})
        \cup (IF in.broken THEN {}
              ELSE IF in.short /\ most > 0 THEN 1 .. most ELSE {most})

Outcome(ok, data, in) == [ok |-> ok, data |-> data, in |-> in]

\* A new block, r bytes of it, or the end or an error: only an error is
\* remembered.
ReadBlock(in, r) ==
  IF r > 0
  THEN LET block == SubSeq(file, in.offset + 1, in.offset + r)
       IN  Outcome(TRUE, block,
                   [in EXCEPT !.offset = @ + r, !.position_ = @ + r,
                              !.buffer_ = block])
  ELSE Outcome(FALSE, <<>>, [in EXCEPT !.buffer_ = <<>>, !.failed_ = r < 0,
                                        !.broken = @ \/ r < 0])

\* Mutant: what was backed up is handed out from the start of the buffer.
AdaptorNextFromStart(in) ==
  IF in.failed_
  THEN {Outcome(FALSE, <<>>, in)}
  ELSE IF in.backup_bytes_ > 0
  THEN {Outcome(TRUE, SubSeq(in.buffer_, 1, in.backup_bytes_),
                [in EXCEPT !.backup_bytes_ = 0])}
  ELSE {ReadBlock(in, r) :
          r \in ReadResults(in, in.offset, BlockSize)}

\* CopyingInputStreamAdaptor::Next
AdaptorNext(in) ==
  IF in.failed_
  THEN {Outcome(FALSE, <<>>, in)}
  ELSE IF in.backup_bytes_ > 0
  THEN {Outcome(TRUE, Drop(in.buffer_, Len(in.buffer_) - in.backup_bytes_),
                [in EXCEPT !.backup_bytes_ = 0])}
  ELSE {ReadBlock(in, r) :
          r \in ReadResults(in, in.offset, BlockSize)}

\* CopyingInputStreamAdaptor::BackUp
AdaptorBackUp(in, count) ==
  [in EXCEPT !.backup_bytes_ = count,
             !.sound = /\ @
                       /\ in.backup_bytes_ = 0 /\ in.buffer_ # <<>>
                       /\ count \in 0 .. Len(in.buffer_)]

\* CopyingInputStream::Skip: how far the loop may come and whether an error
\* ended it.  Every round asks for as much as the first one did.
SkippedByReading(in, count) ==
  LET Reads(s) == ReadResults(in, in.offset + s, Least(count, JunkSize))
      Reached ==
        {s \in 0 .. Len(file) :
           \A S \in SUBSET (0 .. Len(file)) :
             /\ 0 \in S
             /\ \A t \in S, r \in 1 .. JunkSize :
                  t < count /\ r \in Reads(t) => t + r \in S
             => s \in S}
  IN  {<<s, FALSE>> : s \in {t \in Reached : t >= count \/ 0 \in Reads(t)}}
        \cup {<<s, TRUE>> : s \in {t \in Reached : t < count /\ -1 \in Reads(t)}}

\* CopyingFileInputStream::Skip: lseek() goes past the end without an error.
FileSkip(in, count) ==
  IF in.seeks /\ ~in.previous_seek_failed_
  THEN {<<count, in>>}
  ELSE {<<s[1], [in EXCEPT !.previous_seek_failed_ = TRUE,
                           !.broken = @ \/ s[2]]>> :
          s \in SkippedByReading(in, count)}

\* CopyingInputStreamAdaptor::Skip, after its check of the count
SkipBackedUp(in, count) ==
  IF in.failed_
  THEN {Outcome(FALSE, <<>>, in)}
  ELSE IF in.backup_bytes_ >= count
  THEN {Outcome(TRUE, <<>>, [in EXCEPT !.backup_bytes_ = @ - count])}
  ELSE LET rest == count - in.backup_bytes_
       IN  {Outcome(o[1] = rest, <<>>,
                    [o[2] EXCEPT !.backup_bytes_ = 0, !.offset = @ + o[1],
                                 !.position_ = @ + o[1]]) :
              o \in FileSkip(in, rest)}

AdaptorSkip(in, count) ==
  SkipBackedUp([in EXCEPT !.sound = @ /\ count >= 0], count)

\* LimitingInputStream: its constructor and destructor.
Limited(in, limit) == [in EXCEPT !.limited = TRUE, !.limit_ = limit]

Unlimited(in) ==
  [(IF in.limit_ < 0 THEN AdaptorBackUp(in, -in.limit_) ELSE in)
     EXCEPT !.limited = FALSE, !.limit_ = 0]

\* LimitingInputStream::Next hides what it read beyond the limit.
InNext(in) ==
  IF ~in.limited
  THEN AdaptorNext(in)
  ELSE IF in.limit_ < 0
  THEN {Outcome(FALSE, <<>>, in)}
  ELSE {IF o.ok
        THEN Outcome(TRUE, Front(o.data, Least(Len(o.data), in.limit_)),
                     [o.in EXCEPT !.limit_ = @ - Len(o.data)])
        ELSE o : o \in AdaptorNext(in)}

\* LimitingInputStream::BackUp
InBackUp(in, count) ==
  IF ~in.limited
  THEN AdaptorBackUp(in, count)
  ELSE IF in.limit_ < 0
  THEN [AdaptorBackUp(in, count - in.limit_) EXCEPT !.limit_ = count]
  ELSE [AdaptorBackUp(in, count) EXCEPT !.limit_ = @ + count]

\* LimitingInputStream::Skip
InSkip(in, count) ==
  IF ~in.limited
  THEN AdaptorSkip(in, count)
  ELSE IF count <= in.limit_
  THEN {IF o.ok THEN [o EXCEPT !.in.limit_ = @ - count] ELSE o :
          o \in AdaptorSkip(in, count)}
  ELSE IF in.limit_ < 0
  THEN {Outcome(FALSE, <<>>, in)}
  ELSE {Outcome(FALSE, <<>>, [o.in EXCEPT !.limit_ = 0]) :
          o \in AdaptorSkip(in, in.limit_)}

\* LimitingInputStream::ByteCount over CopyingInputStreamAdaptor::ByteCount
InByteCount(in) ==
  in.position_ - in.backup_bytes_
    + (IF in.limited /\ in.limit_ < 0 THEN in.limit_ ELSE 0)
-----------------------------------------------------------------------------
(* Output.  buffer_ holds buffer_used_ slots: all those handed out.           *)

FileOutputStream ==
  [failed_ |-> FALSE, position_ |-> 0, buffer_ |-> <<>>, is_closed_ |-> FALSE,
   sound |-> TRUE]

Written(ok, content, out) == [ok |-> ok, file |-> content, out |-> out]

\* Mutant: a failed write is not remembered.
WriteBufferForgets(out) ==
  LET used == Len(out.buffer_)
  IN  {Written(TRUE, file \o out.buffer_,
               [out EXCEPT !.position_ = @ + used, !.buffer_ = <<>>])}
        \cup {Written(FALSE, file \o Front(out.buffer_, w),
                      [out EXCEPT !.buffer_ = <<>>]) :
                w \in IF Errors THEN 0 .. used - 1 ELSE {}}

\* CopyingOutputStreamAdaptor::WriteBuffer over CopyingFileOutputStream::Write:
\* all of the buffer reaches the file, or a part of it and then write() fails.
WriteBuffer(out) ==
  LET used == Len(out.buffer_)
  IN  IF out.failed_
      THEN {Written(FALSE, file, out)}
      ELSE {Written(TRUE, file \o out.buffer_,
                    [out EXCEPT !.position_ = @ + used, !.buffer_ = <<>>])}
             \cup {Written(FALSE, file \o Front(out.buffer_, w),
                           [out EXCEPT !.failed_ = TRUE, !.buffer_ = <<>>]) :
                     w \in IF Errors THEN 0 .. used - 1 ELSE {}}

\* CopyingOutputStreamAdaptor::Next hands out what is left of the buffer,
\* having written a full one first.
OutNext(out) ==
  {LET size == BlockSize - Len(o.out.buffer_)
   IN  [ok |-> o.ok, file |-> o.file, size |-> IF o.ok THEN size ELSE 0,
        out |-> [o.out EXCEPT !.buffer_ =
                   IF o.ok THEN @ \o [i \in 1 .. size |-> Garbage] ELSE @]] :
     o \in IF Len(out.buffer_) = BlockSize THEN WriteBuffer(out)
           ELSE {Written(TRUE, file, out)}}

\* CopyingOutputStreamAdaptor::BackUp
OutBackUp(out, count) ==
  LET used == Len(out.buffer_)
  IN  [out EXCEPT !.buffer_ = Front(@, Greatest(0, used - count)),
                  !.sound = @ /\ used = BlockSize /\ count \in 0 .. used]

OutByteCount(out) == out.position_ + Len(out.buffer_)
=============================================================================
