----------------------------- MODULE CodedInput -----------------------------
(***************************************************************************)
(* CodedInputStream of protobuf over a FileInputStream, and a client that  *)
(* makes any calls it may: readers are constructed and destroyed one after *)
(* the other on the same input, now and then behind a LimitingInputStream, *)
(* and limits are pushed and popped in pairs.                              *)
(*                                                                         *)
(* A call that may refill the buffer is a sequence of steps, one for each  *)
(* turn of its loop; only one call is under way at any time.  Values are   *)
(* the bytes they are made of, so 32- and 64-bit reads deliver the same.   *)
(***************************************************************************)
EXTENDS FileStreams

CONSTANTS
  High,         \* the bytes with the continuation bit (0x80) set
  IntMax,       \* INT_MAX
  MaxVarint,    \* kMaxVarintBytes
  DefaultTotal, \* kDefaultTotalBytesLimit
  Descriptors,  \* <<seeks, short>>: the kinds of file descriptors tried
  Sizes,        \* sizes asked of ReadRaw, ReadString and Skip
  LimitSizes,   \* arguments of PushLimit
  TotalLimits,  \* arguments of SetTotalBytesLimit
  InputLimits,  \* limits of the LimitingInputStreams
  MaxNest,      \* bound: limits pushed at the same time
  MaxReaders    \* bound: streams constructed one after another

ASSUME IntMaxAssumption == IntMax \in Nat
\* 64 << 20
ASSUME DefaultTotalAssumption == DefaultTotal \in 0 .. IntMax - 1
ASSUME MaxVarintAssumption == MaxVarint \in Nat \ {0}
\* "total_bytes_limit_ is guaranteed to be less than" INT_MAX: the callers'
\* promise.
ASSUME TotalLimitsAssumption == TotalLimits \subseteq 0 .. IntMax - 1
ASSUME SizesAssumption == Sizes \subseteq Int /\ LimitSizes \subseteq Int
ASSUME InputsAssumption ==
  InputLimits \subseteq Nat /\ Descriptors \subseteq BOOLEAN \X BOOLEAN

VARIABLES
  in,      \* the FileInputStream and the LimitingInputStream before it
  cis,     \* the CodedInputStream; its open field is FALSE when there is none
  limits,  \* the values of PushLimit() the client has to pass to PopLimit()
  call,    \* the call under way, and the bytes it has so far
  ret      \* what the last call gave, until the next one begins

inVars == <<in, cis, limits, call, ret>>

\* buffer_ are the bytes from the pointer to the end of what Next() returned;
\* buffer_size_ of them may be read.  base (a history variable) is where the
\* stream began.
NewStream(base) ==
  [open |-> TRUE, base |-> base, buffer_ |-> <<>>, buffer_size_ |-> 0,
   total_bytes_read_ |-> 0, overflow_bytes_ |-> 0,
   legitimate_message_end_ |-> FALSE, current_limit_ |-> IntMax,
   buffer_size_after_limit_ |-> 0, total_bytes_limit_ |-> DefaultTotal]

NoStream == [NewStream(0) EXCEPT !.open = FALSE]
NoCall == [op |-> "none", stage |-> "none", n |-> 0, got |-> <<>>, from |-> 0]

NoResult == [op |-> "none", n |-> 0, ok |-> TRUE, bytes |-> <<>>, reader |-> 0]

Cursor == InByteCount(in) - Len(cis.buffer_)
Position(c) ==
  c.total_bytes_read_ - (c.buffer_size_ + c.buffer_size_after_limit_)
Closest(c) == Least(c.current_limit_, c.total_bytes_limit_)

InInit ==
  /\ in \in {FileInputStream(d[1], d[2]) : d \in Descriptors}
  /\ cis = NoStream
  /\ limits = <<>>
  /\ call = NoCall
  /\ ret = NoResult
-----------------------------------------------------------------------------
(* The stream's own helpers *)

Advance(c, amount) ==
  [c EXCEPT !.buffer_ = Drop(@, amount), !.buffer_size_ = @ - amount]

RecomputeBufferLimits(c) ==
  LET after == Greatest(0, c.total_bytes_read_ - Closest(c))
  IN  [c EXCEPT !.buffer_size_after_limit_ = after,
                !.buffer_size_ = @ + c.buffer_size_after_limit_ - after]

\* Mutant: the bytes beyond INT_MAX are counted like the others.
FilledWide(c, data) ==
  RecomputeBufferLimits(
    [c EXCEPT !.buffer_ = data, !.buffer_size_ = Len(data),
              !.total_bytes_read_ = @ + Len(data)])

\* The bytes beyond INT_MAX are kept to be returned, but not to be read.
Filled(c, data) ==
  LET over == Greatest(0, c.total_bytes_read_ + Len(data) - IntMax)
      size == Len(data) - over
  IN  RecomputeBufferLimits(
        [c EXCEPT !.buffer_ = data, !.buffer_size_ = size,
                  !.total_bytes_read_ = @ + size, !.overflow_bytes_ = over])

\* The buffer is exhausted: stop at a limit, or get the next block.
Refresh(c) ==
  IF c.buffer_size_after_limit_ > 0 \/ c.overflow_bytes_ > 0
  THEN {[ok |-> FALSE, c |-> Advance(c, c.buffer_size_), in |-> in]}
  ELSE {[ok |-> o.ok, in |-> o.in,
         c |-> IF o.ok THEN Filled(c, o.data)
               ELSE [c EXCEPT !.buffer_ = <<>>, !.buffer_size_ = 0]] :
          o \in InNext(in)}

\* The length of the varint at the front of the bytes, 0 if it does not end.
VarintLen(bytes) ==
  LET ends == {k \in 1 .. Least(Len(bytes), MaxVarint) : bytes[k] \notin High}
  IN  IF ends = {} THEN 0 ELSE CHOOSE k \in ends : \A j \in ends : k <= j

Readable(c) == Front(c.buffer_, c.buffer_size_)
-----------------------------------------------------------------------------
(* Calls and returns *)

Idle == cis.open /\ call = NoCall

Begin(op, stage, n) ==
  /\ Idle
  /\ call' = [op |-> op, stage |-> stage, n |-> n, got |-> <<>>,
              from |-> Cursor]
  /\ ret' = [NoResult EXCEPT !.reader = ret.reader]
  /\ UNCHANGED <<in, cis, limits>>

Returns(op, n, ok, bytes) ==
  ret' = [ret EXCEPT !.op = op, !.n = n, !.ok = ok, !.bytes = bytes]

\* The call under way returns, leaving the stream in state c.
Return(ok, bytes, c) ==
  /\ Returns(call.op, call.n, ok, bytes)
  /\ cis' = c
  /\ call' = NoCall

\* A call that returns at once.
AtOnce(op, n, ok, bytes, c) ==
  /\ Idle
  /\ Returns(op, n, ok, bytes)
  /\ cis' = c
  /\ UNCHANGED call

Construct ==
  /\ ~cis.open /\ ret.reader < MaxReaders
  /\ cis' = NewStream(InByteCount(in))
  /\ ret' = [op |-> "Construct", n |-> 0, ok |-> TRUE, bytes |-> <<>>,
             reader |-> ret.reader + 1]
  /\ UNCHANGED <<in, limits, call>>

\* The destructor returns what is left of the last buffer.
Destruct ==
  /\ AtOnce("Destruct", 0, TRUE, <<>>, NoStream)
  /\ in' = IF cis.buffer_ # <<>> THEN InBackUp(in, Len(cis.buffer_)) ELSE in
  /\ limits' = <<>>

\* A LimitingInputStream is put before the input, and removed.
LimitInput(n) ==
  /\ ~cis.open /\ ~in.limited /\ ret.reader < MaxReaders
  /\ in' = Limited(in, n)
  /\ Returns("LimitInput", n, TRUE, <<>>)
  /\ UNCHANGED <<cis, limits, call>>

UnlimitInput ==
  /\ ~cis.open /\ in.limited
  /\ in' = Unlimited(in)
  /\ Returns("UnlimitInput", 0, TRUE, <<>>)
  /\ UNCHANGED <<cis, limits, call>>
-----------------------------------------------------------------------------
(* Limits *)

\* Mutant: an inner limit may end beyond the outer one.
PushLimitBeyond(n) ==
  /\ Len(limits) < MaxNest
  /\ AtOnce("PushLimit", n, TRUE, <<>>,
            RecomputeBufferLimits(
              [cis EXCEPT !.current_limit_ =
                 IF n >= 0 /\ n <= IntMax - Position(cis)
                 THEN Position(cis) + n ELSE IntMax]))
  /\ limits' = Append(limits, cis.current_limit_)
  /\ UNCHANGED in

PushLimit(n) ==
  /\ Len(limits) < MaxNest
  /\ LET wanted == IF n >= 0 /\ n <= IntMax - Position(cis)
                   THEN Position(cis) + n ELSE IntMax
     IN  AtOnce("PushLimit", n, TRUE, <<>>,
                RecomputeBufferLimits(
                  [cis EXCEPT !.current_limit_ = Least(wanted, @)]))
  /\ limits' = Append(limits, cis.current_limit_)
  /\ UNCHANGED in

PopLimit ==
  /\ limits # <<>>
  /\ AtOnce("PopLimit", 0, TRUE, <<>>,
            RecomputeBufferLimits(
              [cis EXCEPT !.current_limit_ = limits[Len(limits)],
                          !.legitimate_message_end_ = FALSE]))
  /\ limits' = Front(limits, Len(limits) - 1)
  /\ UNCHANGED in

SetTotalBytesLimit(n) ==
  /\ AtOnce("SetTotalBytesLimit", n, TRUE, <<>>,
            RecomputeBufferLimits(
              [cis EXCEPT !.total_bytes_limit_ = Greatest(Position(cis), n)]))
  /\ UNCHANGED <<in, limits>>
-----------------------------------------------------------------------------
(* Reading *)

\* ReadRaw and ReadString differ in where they put the bytes, and in that the
\* size of a string may come from the input.
ReadRaw(n) == n >= 0 /\ Begin("Read", "copy", n)
ReadString(n) ==
  \/ n >= 0 /\ Begin("Read", "copy", n)
  \/ n < 0 /\ AtOnce("Read", n, FALSE, <<>>, cis) /\ UNCHANGED <<in, limits>>

\* One turn of the loop of ReadRaw and ReadString.
CopyOut ==
  /\ call.stage = "copy"
  /\ LET missing == call.n - Len(call.got)
     IN  \/ /\ missing <= cis.buffer_size_
            /\ Return(TRUE, call.got \o Front(cis.buffer_, missing),
                      Advance(cis, missing))
            /\ UNCHANGED in
         \/ /\ missing > cis.buffer_size_
            /\ \E o \in Refresh(cis) :
                 /\ in' = o.in
                 /\ \/ /\ o.ok
                       /\ call' = [call EXCEPT !.got = @ \o Readable(cis)]
                       /\ cis' = o.c
                       /\ UNCHANGED ret
                    \/ ~o.ok /\ Return(FALSE, <<>>, o.c)
  /\ UNCHANGED limits

\* ReadVarint32 and ReadTag note the end of a message, ReadVarint64 does not.
ReadVarint64 == Begin("ReadVarint", "varint", 0)
ReadTag == Begin("ReadVarint", "fallback", 0)

\* ReadVarint32Fallback: note where a message may end before reading on.
AtVarint ==
  /\ call.stage = "fallback"
  /\ \/ /\ cis.buffer_size_ > 0
        /\ call' = [call EXCEPT !.stage = "varint"]
        /\ UNCHANGED <<in, cis, ret>>
     \/ /\ cis.buffer_size_ = 0
        /\ cis.buffer_size_after_limit_ > 0
        /\ Position(cis) < cis.total_bytes_limit_
        /\ Return(FALSE, <<>>, [cis EXCEPT !.legitimate_message_end_ = TRUE])
        /\ UNCHANGED in
     \/ /\ cis.buffer_size_ = 0
        /\ \/ cis.buffer_size_after_limit_ = 0
           \/ Position(cis) >= cis.total_bytes_limit_
        /\ \E o \in Refresh(cis) :
             /\ in' = o.in
             /\ \/ o.ok /\ cis' = o.c /\ UNCHANGED <<call, ret>>
                \/ /\ ~o.ok
                   /\ Return(FALSE, <<>>,
                        [o.c EXCEPT !.legitimate_message_end_ =
                           \/ Position(o.c) < o.c.total_bytes_limit_
                           \/ o.c.current_limit_ = o.c.total_bytes_limit_])
  /\ UNCHANGED limits

\* The whole varint must be in the buffer when it has kMaxVarintBytes or ends
\* with the last byte of one.
WholeVarint ==
  \/ cis.buffer_size_ >= MaxVarint
  \/ cis.buffer_size_ > 0 /\ cis.buffer_[cis.buffer_size_] \notin High

FastVarint ==
  /\ call.stage = "varint" /\ WholeVarint
  /\ LET k == VarintLen(Readable(cis))
     IN  Return(k > 0, Front(cis.buffer_, k), Advance(cis, k))
  /\ UNCHANGED <<in, limits>>

SlowVarint ==
  /\ call.stage = "varint" /\ ~WholeVarint
  /\ call' = [call EXCEPT !.stage = "bytes"]
  /\ UNCHANGED <<in, cis, limits, ret>>

\* One turn of the loop of ReadVarint64.
VarintByte ==
  /\ call.stage = "bytes"
  /\ \/ /\ Len(call.got) = MaxVarint
        /\ Return(FALSE, <<>>, cis)
        /\ UNCHANGED in
     \/ /\ Len(call.got) < MaxVarint /\ cis.buffer_size_ = 0
        /\ \E o \in Refresh(cis) :
             /\ in' = o.in
             /\ \/ o.ok /\ cis' = o.c /\ UNCHANGED <<call, ret>>
                \/ ~o.ok /\ Return(FALSE, <<>>, o.c)
     \/ /\ Len(call.got) < MaxVarint /\ cis.buffer_size_ > 0
        /\ LET b == cis.buffer_[1]
           IN  \/ /\ b \notin High
                  /\ Return(TRUE, Append(call.got, b), Advance(cis, 1))
               \/ /\ b \in High
                  /\ call' = [call EXCEPT !.got = Append(@, b)]
                  /\ cis' = Advance(cis, 1)
                  /\ UNCHANGED ret
        /\ UNCHANGED in
  /\ UNCHANGED limits

\* ExpectTag for the tag of k bytes that is next, or for another tag.
ExpectTag(k) ==
  /\ LET hit == k \in {1, 2} /\ VarintLen(Readable(cis)) = k
     IN  AtOnce("ExpectTag", k, hit, Front(cis.buffer_, IF hit THEN k ELSE 0),
                Advance(cis, IF hit THEN k ELSE 0))
  /\ UNCHANGED <<in, limits>>

\* Mutant: an empty buffer is taken for the end.
ExpectAtEndOfBuffer ==
  /\ LET hit == cis.buffer_size_ = 0
     IN  AtOnce("ExpectAtEnd", 0, hit, <<>>,
                [cis EXCEPT !.legitimate_message_end_ = @ \/ hit])
  /\ UNCHANGED <<in, limits>>

\* A limit is known to be reached when bytes are left beyond it.
ExpectAtEnd ==
  /\ LET hit == cis.buffer_size_ = 0 /\ cis.buffer_size_after_limit_ # 0
     IN  AtOnce("ExpectAtEnd", 0, hit, <<>>,
                [cis EXCEPT !.legitimate_message_end_ = @ \/ hit])
  /\ UNCHANGED <<in, limits>>
-----------------------------------------------------------------------------
(* Skipping *)

\* Within the buffer, to a limit in the buffer, to a limit beyond it, or on
\* in the input.
Skip(n) ==
  /\ LET rest == n - cis.buffer_size_
         room == Closest(cis) - cis.total_bytes_read_
         exhausted == [cis EXCEPT !.buffer_ = <<>>, !.buffer_size_ = 0]
     IN  \/ n < 0 /\ AtOnce("Skip", n, FALSE, <<>>, cis) /\ UNCHANGED in
         \/ /\ n \in 0 .. cis.buffer_size_
            /\ AtOnce("Skip", n, TRUE, <<>>, Advance(cis, n))
            /\ UNCHANGED in
         \/ /\ rest > 0 /\ n > 0 /\ cis.buffer_size_after_limit_ > 0
            /\ AtOnce("Skip", n, FALSE, <<>>, Advance(cis, cis.buffer_size_))
            /\ UNCHANGED in
         \/ /\ rest > 0 /\ n > 0 /\ cis.buffer_size_after_limit_ = 0
            /\ room < rest
            /\ \E o \in InSkip(in, room) :
                 /\ AtOnce("Skip", n, FALSE, <<>>,
                           [exhausted EXCEPT !.total_bytes_read_ = Closest(cis)])
                 /\ in' = o.in
         \/ /\ rest > 0 /\ n > 0 /\ cis.buffer_size_after_limit_ = 0
            /\ room >= rest
            /\ \E o \in InSkip(in, rest) :
                 /\ AtOnce("Skip", n, o.ok, <<>>,
                           [exhausted EXCEPT !.total_bytes_read_ = @ + rest])
                 /\ in' = o.in
  /\ UNCHANGED limits
-----------------------------------------------------------------------------
ReaderNext ==
  \/ Construct \/ Destruct \/ UnlimitInput \/ PopLimit
  \/ ReadVarint64 \/ ReadTag \/ ExpectAtEnd
  \/ \E n \in InputLimits : LimitInput(n)
  \/ \E n \in LimitSizes : PushLimit(n)
  \/ \E n \in TotalLimits : SetTotalBytesLimit(n)
  \/ \E n \in Sizes : ReadRaw(n) \/ ReadString(n) \/ Skip(n)
  \/ \E k \in 0 .. 2 : ExpectTag(k)
  \/ CopyOut \/ AtVarint \/ FastVarint \/ SlowVarint \/ VarintByte
=============================================================================
