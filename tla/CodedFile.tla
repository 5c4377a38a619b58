------------------------------ MODULE CodedFile ------------------------------
(***************************************************************************)
(* A file of protocol messages: it is written through a CodedOutputStream, *)
(* and, when it is closed, read through CodedInputStreams.                 *)
(***************************************************************************)
EXTENDS CodedInput, CodedOutput

vars == <<inVars, outVars>>

Init == OutInit /\ InInit

Next ==
  \/ WriterNext /\ UNCHANGED inVars
  \/ closed = "gone" /\ ReaderNext /\ UNCHANGED outVars

Spec == Init /\ [][Next]_vars
-----------------------------------------------------------------------------
(* The readers implement ByteCursor.  During a call nothing has happened yet. *)

cursorBar == IF call = NoCall THEN Cursor ELSE call.from

endBar ==
  IF in.limited THEN in.position_ - in.backup_bytes_ + in.limit_ ELSE -1

limitsBar ==
  IF cis.open
  THEN [i \in 1 .. Len(limits) + 1 |->
          cis.base + Append(limits, cis.current_limit_)[i]]
  ELSE <<>>

\* The stream has failed, or consumed less than the reader believes.
lostBar ==
  \/ in.failed_
  \/ cis.open /\ cis.base + cis.total_bytes_read_ + cis.overflow_bytes_
                   # InByteCount(in)

Cursors ==
  INSTANCE ByteCursor WITH
    cursor <- cursorBar, end <- endBar, limits <- limitsBar,
    total <- cis.base + cis.total_bytes_limit_, lost <- lostBar

\* Whatever the sizes of buffers and reads, the readers deliver the bytes of
\* the file in order, stop at the nearest limit, and leave the input where they
\* stopped (CodedInputStream, CopyingInputStreamAdaptor, LimitingInputStream).
ImplementsCursor == Cursors!Spec
-----------------------------------------------------------------------------
\* Type invariant: no GOOGLE_CHECK of the streams fails, and the counts of the
\* reader add up to the buffer it has (CodedInputStream, coded_stream.cc).
TypeOK ==
  /\ in.sound /\ out.sound
  /\ in.backup_bytes_ \in 0 .. Len(in.buffer_)
  /\ cis.buffer_size_ \in 0 .. Len(cis.buffer_)
  /\ Len(cis.buffer_) = cis.buffer_size_ + cis.buffer_size_after_limit_
                          + cis.overflow_bytes_
  /\ cis.total_bytes_read_ \in 0 .. IntMax
  /\ out.position_ \in Nat /\ Len(out.buffer_) <= BlockSize
  /\ cos.buffer_size_ \in 0 .. BlockSize

\* When Close() succeeds, the file holds every byte of every call that returned
\* true, in order, and no other: although Next() hands out a new buffer after
\* a write that failed (CopyingOutputStreamAdaptor::WriteBuffer).
CloseTellsTheTruth == closed = "ok" => file = accepted

\* A message may end at the innermost limit pushed, and where the input ends before
\* the limit on all bytes.
MayEnd ==
  LET inputEnd == IF in.limited THEN Least(endBar, Len(file)) ELSE Len(file)
  IN  \/ cursorBar >= cis.base + cis.current_limit_
      \/ cursorBar >= inputEnd /\ cursorBar < cis.base + cis.total_bytes_limit_

NotesEnd == ~cis.legitimate_message_end_ /\ cis'.legitimate_message_end_

\* The reader notes the end of a message only where one may end, before reading on
\* and never within a varint (ReadVarint32Fallback), and, after an error, where it
\* gave up.  ExpectAtEnd() alone also takes the limit on all bytes for an end.
EndIsNoticed ==
  [][ NotesEnd =>
        /\ cursorBar' = cursorBar
        /\ \/ MayEnd \/ lostBar'
           \/ ret'.op = "ExpectAtEnd" /\ cursorBar >= cis.base + cis.total_bytes_limit_ ]_vars

\* A call that succeeds returns the bytes of the file that follow the cursor, and
\* the cursor never goes back, also when a skip went too far or a read failed:
\* no byte is delivered twice or out of order (CodedInputStream over
\* CopyingInputStreamAdaptor and LimitingInputStream).
DeliversInOrder ==
  [][ /\ cursorBar' >= cursorBar
      /\ ret'.op \in Cursors!Reading /\ ret'.ok
         => LET n == Len(ret'.bytes)
            IN  /\ cursorBar' = cursorBar + n
                /\ n > 0 => cursorBar' <= Len(file)
                /\ ret'.bytes = SubSeq(file, cursorBar + 1, cursorBar + n) ]_vars
-----------------------------------------------------------------------------
(* What the sources say and the code does not do *)

\* zero_copy_stream_impl.h:165 says that CopyingInputStream::Skip skips "exactly"
\* count bytes unless the input ends: a reader never consumes more of its input
\* than it was asked to and counts itself.
NothingSkippedUnasked ==
  cis.open =>
    InByteCount(in) <= cis.base + cis.total_bytes_read_ + cis.overflow_bytes_

\* zero_copy_stream.h:151 says of Skip() that at the end of the stream "the stream is
\* advanced to the end of the stream (so ByteCount() will return the total size of
\* the stream)": no more bytes are counted than the file has (CopyingFileInputStream).
CountsWhatIsThere == InByteCount(in) <= Len(file)

\* coded_stream.cc:342 says that the limit on all bytes, "unlike normal limits, is not
\* a valid place to end a message": none is noted there (ExpectAtEnd).
TotalLimitIsNoEnd == [][ NotesEnd => MayEnd \/ lostBar' ]_vars
=============================================================================
