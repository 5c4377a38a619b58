----------------------------- MODULE CodedOutput -----------------------------
(***************************************************************************)
(* CodedOutputStream of protobuf over a FileOutputStream, and a writer     *)
(* that writes the items of Script one after the other, goes on or gives   *)
(* up when a write fails, destroys the coded stream and closes the file.   *)
(*                                                                         *)
(* An item is the bytes one call writes.  All calls but the fast paths end *)
(* in WriteRaw, and a fast path stores the same bytes in the same buffer.  *)
(***************************************************************************)
EXTENDS FileStreams

CONSTANT Script   \* the items: sequences of bytes

ASSUME ScriptAssumption == Script \in Seq(Seq(Nat))

VARIABLES
  out,       \* the FileOutputStream
  cos,       \* the CodedOutputStream, and the bytes of it still to be written
  accepted,  \* the bytes of the calls that returned true
  closed     \* what Close() returned: "ok" or "failed"; "open" before that and
             \* "gone" when the streams are deleted

outVars == <<file, out, cos, accepted, closed>>

NoCoded ==
  [open |-> FALSE, buffer_size_ |-> 0, total_bytes_ |-> 0, item |-> 1,
   rest |-> <<>>, writing |-> FALSE]

OutInit ==
  /\ file = <<>>
  /\ out = FileOutputStream
  /\ cos = [NoCoded EXCEPT !.open = TRUE]
  /\ accepted = <<>>
  /\ closed = "open"

\* The next n bytes of the call go into the part of the buffer handed out.
Stored(n) ==
  LET at == Len(out.buffer_) - cos.buffer_size_
  IN  [out EXCEPT !.buffer_ =
         [i \in DOMAIN @ |-> IF i - at \in 1 .. n THEN cos.rest[i - at] ELSE @[i]]]

Write ==
  /\ cos.open /\ ~cos.writing /\ cos.item <= Len(Script)
  /\ cos' = [cos EXCEPT !.writing = TRUE, !.rest = Script[cos.item]]
  /\ UNCHANGED <<file, out, accepted, closed>>

\* One turn of the loop of WriteRaw: the rest fits, or the buffer is filled
\* and the next one is asked for.
WriteRaw ==
  /\ cos.writing
  /\ LET n == Len(cos.rest)
     IN  \/ /\ cos.buffer_size_ >= n
            /\ out' = Stored(n)
            /\ cos' = [cos EXCEPT !.writing = FALSE, !.rest = <<>>,
                                  !.buffer_size_ = @ - n, !.item = @ + 1]
            /\ accepted' = accepted \o Script[cos.item]
            /\ UNCHANGED file
         \/ /\ cos.buffer_size_ < n
            /\ \E o \in OutNext(Stored(cos.buffer_size_)) :
                 /\ file' = o.file /\ out' = o.out
                 /\ cos' = [cos EXCEPT
                      !.writing = o.ok,
                      !.rest = IF o.ok THEN Drop(@, cos.buffer_size_) ELSE <<>>,
                      !.item = IF o.ok THEN @ ELSE @ + 1,
                      !.buffer_size_ = o.size,
                      !.total_bytes_ = @ + o.size]
            /\ UNCHANGED accepted
  /\ UNCHANGED closed

\* The destructor gives back what the writer did not use; the writer may give
\* up before the end of its script.
DestroyCoded ==
  /\ cos.open /\ ~cos.writing
  /\ out' = IF cos.buffer_size_ > 0 THEN OutBackUp(out, cos.buffer_size_) ELSE out
  /\ cos' = [cos EXCEPT !.open = FALSE, !.buffer_size_ = 0]
  /\ UNCHANGED <<file, accepted, closed>>

\* FileOutputStream::Close flushes, and close() may fail too.
Close ==
  /\ ~cos.open /\ closed = "open"
  /\ \E o \in WriteBuffer(out), ok \in {TRUE, ~Errors} :
       /\ file' = o.file
       /\ out' = [o.out EXCEPT !.is_closed_ = TRUE]
       /\ closed' = IF o.ok /\ ok THEN "ok" ELSE "failed"
  /\ UNCHANGED <<cos, accepted>>

\* The streams are deleted and leave nothing but the file.
Delete ==
  /\ closed \in {"ok", "failed"}
  /\ out' = FileOutputStream /\ cos' = NoCoded /\ accepted' = <<>>
  /\ closed' = "gone"
  /\ UNCHANGED file

WriterNext == Write \/ WriteRaw \/ DestroyCoded \/ Close \/ Delete
=============================================================================
